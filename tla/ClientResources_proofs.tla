----------------------- MODULE ClientResources_proofs -----------------------
(***************************************************************************)
(* For any number of layers, handles, caches and slots: every imported     *)
(* handle has exactly one owner, the client target the device keeps a      *)
(* pointer to is one of them, every layer belongs to somebody, and a       *)
(* client that goes leaves no frame of its layers on a display.            *)
(***************************************************************************)
EXTENDS ClientResources, FiniteSetTheorems, TLAPS

(* A cache has as many slots as its client asked for. *)
SlotIds == 1 .. Max(SlotCounts)

(* Where a handle may be kept by somebody who will free it. *)
TargetPlaces   == [kind : {"target"}, display : Displays, slot : SlotIds]
ReadbackPlaces == [kind : {"readback"}, display : Displays]
LayerPlaces    == [kind : {"layer"}, layer : LayerIds, cache : LayerCaches]
OldPlace       == [kind |-> "old"]
Places == TargetPlaces \cup ReadbackPlaces \cup LayerPlaces \cup {OldPlace}

Held == [p \in Places |->
    IF p \in TargetPlaces
    THEN IF p.slot \in DOMAIN clientTargets[p.display]
         THEN clientTargets[p.display][p.slot] ELSE NoHandle
    ELSE IF p \in ReadbackPlaces THEN readback[p.display]
    ELSE IF p \in LayerPlaces THEN layerHandles[p.layer][p.cache]
    ELSE IF command = Idle THEN NoHandle ELSE command.old]

(* The handles of the places are the imported ones, one place for each. *)
Accounted(held, handles) ==
    /\ \A p \in Places : held[p] \in handles \cup {NoHandle}
    /\ \A h \in handles : \E p \in Places : held[p] = h
    /\ \A p, q \in Places : held[p] = held[q] /\ held[p] # NoHandle => p = q

-----------------------------------------------------------------------------
(* The inductive invariant. *)

CommandStates ==
    [at : {"hal", "release"}, display : Displays, target : AnyHandle, old : AnyHandle,
     known : BOOLEAN]
AddingStates   == [at : {"add"}, display : Displays, layer : LayerIds]
RemovingStates == [at : {"remove"}, display : Displays, layer : LayerIds]
FarewellStates ==
    [at : {"layers", "accept", "present"}, display : Displays, layers : SUBSET LayerIds,
     rest : SUBSET Displays] \cup {[at |-> "free"]}

Typed ==
    /\ DeviceTypeOK
    /\ active \in {{0}, {0, 1}}
    /\ mMustValidateDisplay \in BOOLEAN
    /\ mBuffer \in AnyHandle
    /\ client \in {"none", "made", "registered", "destroying"}
    /\ displays \in {{}, active}
    /\ clientTargets \in [Displays -> Seq(AnyHandle)]
    /\ \A d \in Displays : Len(clientTargets[d]) <= Max(SlotCounts)
    /\ readback \in [Displays -> AnyHandle]
    /\ ownLayers \in [Displays -> SUBSET LayerIds]
    /\ layerHandles \in [LayerIds -> [LayerCaches -> AnyHandle]]
    /\ live \in SUBSET Handles
    /\ command \in CommandStates \cup {Idle}
    /\ adding \in AddingStates \cup {Idle}
    /\ removing \in RemovingStates \cup {Idle}
    /\ farewell \in FarewellStates \cup {Idle}
    /\ targetState \in {"none", "set", "refused", "cleaned"}
    /\ stranded \in SUBSET LayerIds

(* Calls are made on behalf of a client that is there; the callback of     *)
(* destroyResources runs in its destructor.                                *)
CallsInv ==
    /\ ~Serving => NoCall
    /\ client = "destroying" <=> farewell # Idle

(* What no display or layer of the client owns holds nothing. *)
NothingElsewhere ==
    /\ \A d \in Displays \ displays :
        clientTargets[d] = <<>> /\ readback[d] = NoHandle /\ ownLayers[d] = {}
    /\ \A l \in LayerIds : (\A d \in Displays : l \notin ownLayers[d]) =>
        \A c \in LayerCaches : layerHandles[l][c] = NoHandle

(* The client target is in a slot of its cache, or is the one the command  *)
(* under way replaces, as long as the device has not been told.            *)
InCache(h) == \E d \in Displays : \E s \in DOMAIN clientTargets[d] : clientTargets[d][s] = h

TargetInv ==
    /\ command.at = "hal" /\ command.target # NoHandle => InCache(command.target)
    /\ targetState = "set" /\ mBuffer # NoHandle =>
        InCache(mBuffer) \/ (command.at = "hal" /\ command.old = mBuffer)

(* LayersAreOwned, layer by layer. *)
Belongs(l) ==
    \/ \E d \in Displays : l \in ownLayers[d]
    \/ l \in stranded
    \/ adding # Idle /\ adding.layer = l

(* A layer on its way out is gone from the device already. *)
LayersInv ==
    /\ \A l \in mLayers : Belongs(l)
    /\ removing # Idle => removing.layer \notin mLayers

(* The displays destroyResources has still to present. *)
Left(f) == IF f.at = "free" THEN {} ELSE {f.display} \cup f.rest

(* The others have no layer of the client any more, and the final present  *)
(* finds what the steps before it prepared.                                *)
FarewellInv ==
    farewell # Idle =>
        /\ \A d \in Displays \ Left(farewell) : ownLayers[d] \cap mLayers = {}
        /\ farewell.at # "free" =>
            ownLayers[farewell.display] \cap mLayers \subseteq farewell.layers
        /\ farewell.at \in {"accept", "present"} =>
            farewell.layers = {} /\ mState # "MODIFIED" /\ ~mMustValidateDisplay
        /\ farewell.at = "present" => mState = "VALIDATED" /\ mDirtyLayers = {}

IInv ==
    /\ Typed
    /\ CallsInv
    /\ NothingElsewhere
    /\ Accounted(Held, live)
    /\ TargetInv
    /\ LayersInv
    /\ FarewellInv

-----------------------------------------------------------------------------
(* The operators of the library modules. *)

LEMMA SlotBound ==
    /\ Max(SlotCounts) \in SlotCounts /\ Max(SlotCounts) \in Nat \ {0}
    /\ \A n \in SlotCounts : n \in Nat \ {0} /\ n <= Max(SlotCounts)
BY ResourcesAssumption DEF Max

(* The next display of the farewell. *)
LEMMA FirstDisplay ==
    ASSUME NEW S \in SUBSET Displays, S # {}
    PROVE  Min(S) \in S
<1>1. \E d \in S : \A e \in S : d <= e
  <2>1. CASE 0 \in S
    BY <2>1 DEF Displays
  <2>2. CASE 0 \notin S
    <3>1. S = {1}
      BY <2>2 DEF Displays
    <3> QED
      BY <3>1
  <2> QED
    BY <2>1, <2>2
<1> QED
  BY <1>1 DEF Min

-----------------------------------------------------------------------------
(* What a call may do to the places.  A place gets an import, and what it  *)
(* held is freed.                                                          *)
LEMMA Replaced ==
    ASSUME NEW handles \in SUBSET Handles, NEW held, Accounted(held, handles),
           NEW p \in Places, NEW h \in (Handles \ handles) \cup {NoHandle},
           NEW after, after[p] = h, \A q \in Places \ {p} : after[q] = held[q]
    PROVE  Accounted(after, (handles \ {held[p]}) \cup ({h} \ {NoHandle}))
BY ResourcesAssumption DEF Accounted

(* What it held goes to another place. *)
LEMMA Moved ==
    ASSUME NEW handles \in SUBSET Handles, NEW held, Accounted(held, handles),
           NEW p \in Places, NEW to \in Places, p # to, held[to] = NoHandle,
           NEW h \in (Handles \ handles) \cup {NoHandle},
           NEW after, after[p] = h, after[to] = held[p],
           \A q \in Places \ {p, to} : after[q] = held[q]
    PROVE  Accounted(after, handles \cup ({h} \ {NoHandle}))
BY ResourcesAssumption DEF Accounted

(* Some places are emptied. *)
LEMMA Emptied ==
    ASSUME NEW handles \in SUBSET Handles, NEW held, Accounted(held, handles),
           NEW S \in SUBSET Places, NEW after, NEW kept \in SUBSET handles,
           \A h \in handles : h \in kept <=> \A p \in S : held[p] # h,
           \A q \in S : after[q] = NoHandle,
           \A q \in Places \ S : after[q] = held[q]
    PROVE  Accounted(after, kept)
BY ResourcesAssumption DEF Accounted

-----------------------------------------------------------------------------
LEMMA InitIInv == Init => IInv
<1> SUFFICES ASSUME Init PROVE IInv
  OBVIOUS
<1>1. \A d \in Displays : clientTargets[d] = <<>> /\ Len(clientTargets[d]) = 0
  BY DEF Init
<1>2. Typed
  <2>1. clientTargets \in [Displays -> Seq(AnyHandle)]
    BY DEF Init
  <2>2. DeviceTypeOK
    BY MaxLayerIdAssumption DEF Init, DeviceInit, DeviceTypeOK, States, LayerIds
  <2> QED
    BY <1>1, <2>1, <2>2, SlotBound DEF Init, Typed, AnyHandle
<1>3. CallsInv /\ NothingElsewhere
  BY DEF Init, CallsInv, NothingElsewhere, Serving, NoCall
<1>4. Accounted(Held, live)
  BY <1>1 DEF Init, Accounted, Held, TargetPlaces, ReadbackPlaces, LayerPlaces
<1>5. TargetInv /\ LayersInv /\ FarewellInv
  BY DEF Init, DeviceInit, TargetInv, LayersInv, Belongs, FarewellInv, Idle
<1> QED
  BY <1>2, <1>3, <1>4, <1>5 DEF IInv

-----------------------------------------------------------------------------
(* Steps that leave the resources alone. *)

LEMMA PlacesKept ==
    ASSUME UNCHANGED <<resourceVars, command>>
    PROVE  /\ NothingElsewhere => NothingElsewhere'
           /\ Accounted(Held, live) => Accounted(Held, live)'
<1>1. Held' = Held
  BY DEF resourceVars, Held
<1> QED
  BY <1>1 DEF resourceVars, NothingElsewhere, Accounted

LEMMA TargetKept ==
    ASSUME TargetInv, UNCHANGED <<clientTargets, command, targetState, mBuffer>>
    PROVE  TargetInv'
BY DEF TargetInv, InCache

(* While the client is there nothing says goodbye. *)
LEMMA NoFarewell ==
    ASSUME IInv, Serving
    PROVE  farewell = Idle
BY DEF IInv, CallsInv, Serving

(* The device's calls on its state, and their errors. *)
LEMMA DeviceCallsIInv ==
    ASSUME IInv, NEW d \in Displays,
           ValidateDisplay(d) \/ AcceptDisplayChanges(d) \/ PresentDisplay(d)
    PROVE  IInv'
<1> USE DEF restUnchanged, resourceVars, callVars
<1>1. Serving /\ farewell = Idle
  BY NoFarewell DEF ValidateDisplay, AcceptDisplayChanges, PresentDisplay
<1>2. /\ UNCHANGED <<mNextLayerId, mLayers, active, mBuffer, client, displays, clientTargets,
                     readback, ownLayers, layerHandles, live, command, adding, removing,
                     farewell, targetState, stranded>>
      /\ mDirtyLayers' \in SUBSET LayerIds /\ mState' \in States
      /\ mMustValidateDisplay' \in BOOLEAN
  BY DEF IInv, Typed, DeviceTypeOK, ValidateDisplay, AcceptDisplayChanges, PresentDisplay,
         Presented, deviceValidateDisplay, deviceAcceptDisplayChanges, devicePresentDisplay,
         Fails, deviceVars, States
<1>3. Typed' /\ CallsInv'
  BY <1>2 DEF IInv, Typed, DeviceTypeOK, CallsInv, Serving, NoCall
<1>4. NothingElsewhere' /\ Accounted(Held, live)' /\ TargetInv'
  BY <1>2, PlacesKept, TargetKept DEF IInv
<1>5. LayersInv' /\ FarewellInv'
  BY <1>1, <1>2 DEF IInv, LayersInv, Belongs, FarewellInv
<1> QED
  BY <1>3, <1>4, <1>5 DEF IInv

LEMMA CreateClientIInv ==
    ASSUME IInv, CreateClient
    PROVE  IInv'
<1> USE DEF CreateClient, deviceVars, resourceVars, callVars, ghostVars
<1>1. Typed' /\ CallsInv'
  BY DEF IInv, Typed, DeviceTypeOK, CallsInv, Serving, NoCall
<1>2. NothingElsewhere' /\ Accounted(Held, live)' /\ TargetInv'
  BY PlacesKept, TargetKept DEF IInv
<1>3. LayersInv' /\ FarewellInv'
  BY DEF IInv, LayersInv, Belongs, FarewellInv
<1> QED
  BY <1>1, <1>2, <1>3 DEF IInv

-----------------------------------------------------------------------------
(* The command thread. *)

TargetPlace(d, slot) == [kind |-> "target", display |-> d, slot |-> slot]

ReadbackPlace(d)      == [kind |-> "readback", display |-> d]
LayerPlace(l, c)      == [kind |-> "layer", layer |-> l, cache |-> c]

(* A place is what its fields say. *)
LEMMA PlaceFacts ==
    /\ \A d \in Displays, slot \in SlotIds : TargetPlace(d, slot) \in Places
    /\ \A d \in Displays : ReadbackPlace(d) \in Places
    /\ \A l \in LayerIds, c \in LayerCaches : LayerPlace(l, c) \in Places
    /\ OldPlace \in Places
    /\ \A p \in Places :
        \/ \E d \in Displays, slot \in SlotIds : p = TargetPlace(d, slot)
        \/ \E d \in Displays : p = ReadbackPlace(d)
        \/ \E l \in LayerIds, c \in LayerCaches : p = LayerPlace(l, c)
        \/ p = OldPlace
BY DEF Places, TargetPlaces, ReadbackPlaces, LayerPlaces, OldPlace, TargetPlace,
       ReadbackPlace, LayerPlace

(* The place of a handle, by the state of its owner. *)
HeldFacts ==
    /\ \A d \in Displays, slot \in SlotIds :
        Held[TargetPlace(d, slot)] =
            IF slot \in DOMAIN clientTargets[d] THEN clientTargets[d][slot] ELSE NoHandle
    /\ \A d \in Displays : Held[ReadbackPlace(d)] = readback[d]
    /\ \A l \in LayerIds, c \in LayerCaches : Held[LayerPlace(l, c)] = layerHandles[l][c]
    /\ Held[OldPlace] = IF command = Idle THEN NoHandle ELSE command.old

LEMMA HeldIs == HeldFacts /\ HeldFacts'
<1>1. HeldFacts
  BY DEF HeldFacts, Held, Places, TargetPlaces, ReadbackPlaces, LayerPlaces, OldPlace,
         TargetPlace, ReadbackPlace, LayerPlace
<1> QED
  BY <1>1, PTL

(* The slots of a cache are 1 up to its length. *)
LEMMA SlotsAre ==
    ASSUME Typed, NEW d \in Displays
    PROVE  DOMAIN clientTargets[d] = 1 .. Len(clientTargets[d])
           /\ DOMAIN clientTargets[d] \subseteq SlotIds
BY SlotBound DEF Typed, SlotIds

LEMMA CacheStep ==
    ASSUME IInv, NEW d \in Displays, NEW slot \in SlotIds, NEW useCache \in BOOLEAN,
           NEW known \in BOOLEAN, NEW h \in Imports,
           executeSetClientTarget(d, slot, useCache, h, known)
    PROVE  IInv'
<1> DEFINE place == TargetPlace(d, slot)
<1> USE DEF deviceVars, ghostVars
<1>1. Serving /\ farewell = Idle /\ command = Idle
  BY NoFarewell DEF executeSetClientTarget
<1>2. UNCHANGED <<mState, mNextLayerId, mLayers, mDirtyLayers, active, mMustValidateDisplay,
                  mBuffer, client, displays, readback, ownLayers, layerHandles, adding,
                  removing, farewell, targetState, stranded>>
  BY DEF executeSetClientTarget, getDisplayClientTarget
<1>3. CASE UNCHANGED <<clientTargets, live, command>>
  <2>1. Typed' /\ CallsInv'
    BY <1>2, <1>3 DEF IInv, Typed, DeviceTypeOK, CallsInv, Serving, NoCall
  <2>2. NothingElsewhere' /\ Accounted(Held, live)' /\ TargetInv'
    BY <1>2, <1>3, PlacesKept, TargetKept DEF IInv, resourceVars
  <2>3. LayersInv' /\ FarewellInv'
    BY <1>2 DEF IInv, LayersInv, Belongs, FarewellInv
  <2> QED
    BY <2>1, <2>2, <2>3 DEF IInv
<1>4. CASE /\ d \in displays /\ slot \in DOMAIN clientTargets[d]
           /\ \E target, old \in AnyHandle :
                /\ command' = [at |-> "hal", display |-> d, target |-> target, old |-> old,
                               known |-> known]
                /\ \/ /\ target = clientTargets[d][slot] /\ old = NoHandle
                      /\ UNCHANGED <<clientTargets, live>>
                   \/ /\ target = h /\ old = clientTargets[d][slot]
                      /\ clientTargets' = [clientTargets EXCEPT ![d][slot] = h]
                      /\ Import(h)
  <2>1. PICK target \in AnyHandle, old \in AnyHandle :
                /\ command' = [at |-> "hal", display |-> d, target |-> target, old |-> old,
                               known |-> known]
                /\ \/ /\ target = clientTargets[d][slot] /\ old = NoHandle
                      /\ UNCHANGED <<clientTargets, live>>
                   \/ /\ target = h /\ old = clientTargets[d][slot]
                      /\ clientTargets' = [clientTargets EXCEPT ![d][slot] = h]
                      /\ Import(h)
    BY <1>4
  <2>2. h \in AnyHandle /\ h \in (Handles \ live) \cup {NoHandle}
    BY DEF Imports, AnyHandle
  <2>3. /\ clientTargets' \in [Displays -> Seq(AnyHandle)]
        /\ \A e \in Displays : Len(clientTargets'[e]) = Len(clientTargets[e])
        /\ \A e \in Displays : DOMAIN clientTargets'[e] = DOMAIN clientTargets[e]
        /\ \A e \in Displays : \A s \in DOMAIN clientTargets[e] :
                (e # d \/ s # slot) => clientTargets'[e][s] = clientTargets[e][s]
        /\ clientTargets'[d][slot] = target
    <3>1. clientTargets \in [Displays -> Seq(AnyHandle)] /\ slot \in DOMAIN clientTargets[d]
      BY <1>4 DEF IInv, Typed
    <3>2. CASE UNCHANGED clientTargets /\ target = clientTargets[d][slot]
      BY <3>1, <3>2
    <3>3. CASE target = h /\ clientTargets' = [clientTargets EXCEPT ![d][slot] = h]
      <4>1. /\ clientTargets'[d] = [clientTargets[d] EXCEPT ![slot] = h]
            /\ \A e \in Displays \ {d} : clientTargets'[e] = clientTargets[e]
            /\ clientTargets' \in [Displays -> {clientTargets'[e] : e \in Displays}]
        BY <3>1, <3>3
      <4>2. clientTargets'[d] \in Seq(AnyHandle) /\ Len(clientTargets'[d]) = Len(clientTargets[d])
        BY <2>2, <3>1, <4>1
      <4> QED
        BY <3>1, <3>3, <4>1, <4>2
    <3> QED
      BY <2>1, <3>2, <3>3
  <2>4. Typed' /\ CallsInv'
    <3>1. live' \in SUBSET Handles
      BY <2>1, <2>2 DEF IInv, Typed, Import, AnyHandle
    <3>2. command' \in CommandStates
      BY <2>1 DEF CommandStates
    <3>3. Typed'
      BY <1>2, <2>3, <3>1, <3>2 DEF IInv, Typed, DeviceTypeOK
    <3> QED
      BY <1>1, <1>2, <3>3 DEF IInv, CallsInv, Serving
  <2>5. NothingElsewhere'
    BY <1>2, <1>4, <2>3, ZenonT(40) DEF IInv, NothingElsewhere, Typed
  <2>6. Accounted(Held, live)'
    <3>1. /\ Held'[OldPlace] = old /\ Held[OldPlace] = NoHandle
          /\ Held'[place] = target /\ Held[place] = clientTargets[d][slot]
      BY <1>1, <1>4, <2>1, <2>3, HeldIs DEF HeldFacts, Idle
    <3>2. ASSUME NEW p \in Places, p # place, p # OldPlace
          PROVE  Held'[p] = Held[p]
      <4>1. CASE \E e \in Displays, n \in SlotIds : p = TargetPlace(e, n)
        BY <2>3, <3>2, <4>1, HeldIs DEF HeldFacts
      <4>2. CASE \E e \in Displays : p = ReadbackPlace(e)
        BY <1>2, <4>2, HeldIs DEF HeldFacts
      <4>3. CASE \E l \in LayerIds, c \in LayerCaches : p = LayerPlace(l, c)
        BY <1>2, <4>3, HeldIs DEF HeldFacts
      <4> QED
        BY <3>2, <4>1, <4>2, <4>3, PlaceFacts
    <3>3. place \in Places /\ OldPlace \in Places /\ place # OldPlace
      BY PlaceFacts DEF TargetPlace, OldPlace
    <3>4. CASE target = clientTargets[d][slot] /\ old = NoHandle
               /\ UNCHANGED <<clientTargets, live>>
      BY <3>1, <3>2, <3>4 DEF IInv, Accounted
    <3>5. CASE target = h /\ old = clientTargets[d][slot] /\ Import(h)
      <4>1. Accounted(Held, live) /\ live \in SUBSET Handles
        BY DEF IInv, Typed
      <4> HIDE DEF place
      <4>2. Accounted(Held', live \cup ({h} \ {NoHandle}))
        BY <2>2, <3>1, <3>2, <3>3, <3>5, <4>1, Moved
      <4> QED
        BY <3>5, <4>2 DEF Import, Accounted
    <3> QED
      BY <2>1, <3>4, <3>5
  <2>7. TargetInv'
    <3>1. InCache(target)'
      BY <1>4, <2>3 DEF InCache
    <3>2. ASSUME NEW b, InCache(b)
          PROVE  InCache(b)' \/ old = b
      BY <2>1, <2>3, <3>2 DEF InCache
    <3> QED
      BY <1>1, <1>2, <2>1, <3>1, <3>2 DEF IInv, TargetInv, Idle
  <2>8. LayersInv' /\ FarewellInv'
    BY <1>2 DEF IInv, LayersInv, Belongs, FarewellInv
  <2> QED
    BY <2>4, <2>5, <2>6, <2>7, <2>8 DEF IInv
<1> QED
  BY <1>1, <1>3, <1>4 DEF executeSetClientTarget, getDisplayClientTarget

(* The device is told: what it points to now is in its cache, or refused.  *)
LEMMA SetClientTargetIInv ==
    ASSUME IInv, setClientTarget
    PROVE  IInv'
<1> USE DEF setClientTarget, deviceVars, resourceVars
<1>1. /\ command \in CommandStates /\ command # Idle
      /\ command' # Idle /\ command' \in CommandStates
      /\ command'.at = "release" /\ command'.old = command.old
  <2>1. command \in CommandStates
    BY DEF IInv, Typed, Idle
  <2>2. command' = [command EXCEPT !.at = "release"]
    OBVIOUS
  <2>3. command' \in CommandStates /\ command'.at = "release" /\ command'.old = command.old
    BY <2>1, <2>2 DEF CommandStates
  <2> QED
    BY <2>1, <2>3 DEF Idle
<1>2. Serving /\ farewell = Idle
  BY <1>1 DEF IInv, CallsInv, NoCall, Serving
<1>3. Typed' /\ CallsInv'
  BY <1>1, <1>2 DEF IInv, Typed, DeviceTypeOK, CommandStates, CallsInv, Serving
<1>4. NothingElsewhere'
  BY DEF IInv, NothingElsewhere
<1>5. Accounted(Held, live)'
  <2>1. Held' = Held
    BY <1>1 DEF Held
  <2> QED
    BY <2>1 DEF IInv, Accounted
<1>6. TargetInv'
  BY <1>1 DEF IInv, TargetInv, InCache
<1>7. LayersInv' /\ FarewellInv'
  BY DEF IInv, LayersInv, Belongs, FarewellInv
<1> QED
  BY <1>3, <1>4, <1>5, <1>6, <1>7 DEF IInv

LEMMA ReleaseIInv ==
    ASSUME IInv, ReleaseReplaced
    PROVE  IInv'
<1> USE DEF ReleaseReplaced, deviceVars, ghostVars
<1>1. command \in CommandStates /\ command # Idle /\ command' = Idle
  BY DEF IInv, Typed, CommandStates, Idle
<1>2. Typed' /\ CallsInv'
  BY <1>1 DEF IInv, Typed, DeviceTypeOK, CallsInv, Serving, NoCall
<1>3. NothingElsewhere'
  BY DEF IInv, NothingElsewhere
<1>4. Accounted(Held, live)'
  <2>1. Accounted(Held, live) /\ live \in SUBSET Handles
    BY DEF IInv, Typed
  <2>2. Held[OldPlace] = command.old /\ Held'[OldPlace] = NoHandle
    BY <1>1, HeldIs DEF HeldFacts
  <2>3. \A p \in Places \ {OldPlace} : Held'[p] = Held[p]
    BY DEF Held, Places
  <2>4. Accounted(Held', (live \ {Held[OldPlace]}) \cup ({NoHandle} \ {NoHandle}))
    BY <2>1, <2>2, <2>3, Replaced, PlaceFacts
  <2>5. (live \ {Held[OldPlace]}) \cup ({NoHandle} \ {NoHandle}) = live'
    BY <2>2
  <2> QED
    BY <2>4, <2>5 DEF Accounted
<1>5. TargetInv'
  BY <1>1 DEF IInv, TargetInv, InCache, Idle
<1>6. LayersInv' /\ FarewellInv'
  BY DEF IInv, LayersInv, Belongs, FarewellInv
<1> QED
  BY <1>2, <1>3, <1>4, <1>5, <1>6 DEF IInv

LEMMA LayerHandleIInv ==
    ASSUME IInv, NEW d \in Displays, NEW layer \in LayerIds, NEW cache \in LayerCaches,
           NEW h \in Imports, executeSetLayerHandle(d, layer, cache, h)
    PROVE  IInv'
<1> USE DEF executeSetLayerHandle, deviceUnchanged, deviceVars, callVars, ghostVars
<1> DEFINE place == LayerPlace(layer, cache)
<1>1. h \in AnyHandle /\ h \in (Handles \ live) \cup {NoHandle}
  BY DEF Imports, AnyHandle
<1>2. live' \in SUBSET Handles /\ layerHandles' \in [LayerIds -> [LayerCaches -> AnyHandle]]
  BY <1>1 DEF IInv, Typed, AnyHandle
<1>3. Typed' /\ CallsInv'
  BY <1>2 DEF IInv, Typed, DeviceTypeOK, CallsInv, Serving, NoCall
<1>4. NothingElsewhere'
  BY DEF IInv, Typed, NothingElsewhere
<1>5. Accounted(Held, live)'
  <2>1. Accounted(Held, live) /\ live \in SUBSET Handles /\ place \in Places
    BY PlaceFacts DEF IInv, Typed
  <2>2. Held[place] = layerHandles[layer][cache] /\ Held'[place] = h
    BY HeldIs DEF HeldFacts, IInv, Typed
  <2>3. ASSUME NEW p \in Places, p # place
        PROVE  Held'[p] = Held[p]
    <3>1. CASE \E l \in LayerIds, c \in LayerCaches : p = LayerPlace(l, c)
      <4>1. PICK l \in LayerIds, c \in LayerCaches : p = LayerPlace(l, c)
        BY <3>1
      <4>2. layerHandles'[l][c] = layerHandles[l][c]
        BY <2>3, <4>1 DEF IInv, Typed
      <4> QED
        BY <4>1, <4>2, HeldIs DEF HeldFacts
    <3>2. CASE p \notin LayerPlaces
      BY <3>2 DEF Held
    <3> QED
      BY <3>1, <3>2, PlaceFacts DEF LayerPlaces, LayerPlace
  <2> HIDE DEF place
  <2>4. Accounted(Held', (live \ {Held[place]}) \cup ({h} \ {NoHandle}))
    BY <1>1, <2>1, <2>2, <2>3, Replaced
  <2> QED
    BY <2>2, <2>4 DEF Accounted
<1>6. TargetInv'
  BY TargetKept DEF IInv
<1>7. LayersInv' /\ FarewellInv'
  BY DEF IInv, LayersInv, Belongs, FarewellInv
<1> QED
  BY <1>3, <1>4, <1>5, <1>6, <1>7 DEF IInv

-----------------------------------------------------------------------------
(* The other binder threads. *)

LEMMA SlotCountIInv ==
    ASSUME IInv, NEW d \in Displays, NEW n \in SlotCounts, setClientTargetSlotCount(d, n)
    PROVE  IInv'
<1> USE DEF setClientTargetSlotCount, setDisplayClientTargetCacheSize, deviceUnchanged,
            deviceVars, callVars, ghostVars
<1>1. n \in Nat \ {0} /\ n <= Max(SlotCounts)
  BY SlotBound
<1>2. /\ clientTargets' \in [Displays -> Seq(AnyHandle)]
      /\ \A e \in Displays \ {d} : clientTargets'[e] = clientTargets[e]
      /\ clientTargets'[d] = [slot \in 1 .. n |-> NoHandle]
      /\ Len(clientTargets'[d]) = n
  <2>1. [slot \in 1 .. n |-> NoHandle] \in Seq(AnyHandle)
    BY <1>1 DEF AnyHandle
  <2> QED
    BY <1>1, <2>1 DEF IInv, Typed
<1>3. Typed' /\ CallsInv'
  <2>1. \A e \in Displays : Len(clientTargets'[e]) <= Max(SlotCounts)
    BY <1>1, <1>2 DEF IInv, Typed
  <2> QED
    BY <1>2, <2>1, ZenonT(40) DEF IInv, Typed, DeviceTypeOK, CallsInv, Serving, NoCall
<1>4. NothingElsewhere'
  BY <1>2 DEF IInv, NothingElsewhere
<1>5. Accounted(Held, live)'
  <2>1. ASSUME NEW p \in Places
        PROVE  Held'[p] = Held[p]
    <3>1. CASE \E e \in Displays, slot \in SlotIds : p = TargetPlace(e, slot)
      BY <1>2, <3>1, HeldIs DEF HeldFacts
    <3>2. CASE p \notin TargetPlaces
      BY <3>2 DEF Held
    <3> QED
      BY <3>1, <3>2, PlaceFacts DEF TargetPlaces, TargetPlace
  <2> QED
    BY <2>1 DEF IInv, Accounted
<1>6. TargetInv'
  <2>1. \A b : InCache(b) => InCache(b)'
    <3>1. \A e \in Displays : \A slot \in DOMAIN clientTargets[e] : e # d
      OBVIOUS
    <3> QED
      BY <1>2, <3>1 DEF InCache
  <2> QED
    BY <2>1 DEF IInv, TargetInv
<1>7. LayersInv' /\ FarewellInv'
  BY DEF IInv, LayersInv, Belongs, FarewellInv
<1> QED
  BY <1>3, <1>4, <1>5, <1>6, <1>7 DEF IInv

LEMMA ReadbackIInv ==
    ASSUME IInv, NEW d \in Displays, NEW h \in Imports, setReadbackBuffer(d, h)
    PROVE  IInv'
<1> USE DEF setReadbackBuffer, deviceUnchanged, deviceVars, callVars, ghostVars
<1> DEFINE place == ReadbackPlace(d)
<1>1. h \in AnyHandle /\ h \in (Handles \ live) \cup {NoHandle}
  BY DEF Imports, AnyHandle
<1>2. live' \in SUBSET Handles /\ readback' \in [Displays -> AnyHandle]
  BY <1>1 DEF IInv, Typed, AnyHandle
<1>3. Typed' /\ CallsInv'
  BY <1>2 DEF IInv, Typed, DeviceTypeOK, CallsInv, Serving, NoCall
<1>4. NothingElsewhere'
  BY DEF IInv, Typed, NothingElsewhere
<1>5. Accounted(Held, live)'
  <2>1. Accounted(Held, live) /\ live \in SUBSET Handles /\ place \in Places
    BY PlaceFacts DEF IInv, Typed
  <2>2. Held[place] = readback[d] /\ Held'[place] = h
    BY HeldIs DEF HeldFacts, IInv, Typed
  <2>3. ASSUME NEW p \in Places, p # place
        PROVE  Held'[p] = Held[p]
    <3>1. CASE \E e \in Displays : p = ReadbackPlace(e)
      BY <2>3, <3>1, HeldIs DEF HeldFacts, IInv, Typed
    <3>2. CASE p \notin ReadbackPlaces
      BY <3>2 DEF Held
    <3> QED
      BY <3>1, <3>2, PlaceFacts DEF ReadbackPlaces, ReadbackPlace
  <2> HIDE DEF place
  <2>4. Accounted(Held', (live \ {Held[place]}) \cup ({h} \ {NoHandle}))
    BY <1>1, <2>1, <2>2, <2>3, Replaced
  <2> QED
    BY <2>2, <2>4 DEF Accounted
<1>6. TargetInv'
  BY TargetKept DEF IInv
<1>7. LayersInv' /\ FarewellInv'
  BY DEF IInv, LayersInv, Belongs, FarewellInv
<1> QED
  BY <1>3, <1>4, <1>5, <1>6, <1>7 DEF IInv

(* The device has the layer, the call will hand it to the resources. *)
LEMMA CreateLayerIInv ==
    ASSUME IInv, NEW d \in Displays, CreateLayer(d)
    PROVE  IInv'
<1> USE DEF CreateLayer, OneOtherCall, resourceVars, ghostVars
<1>1. /\ adding = Idle /\ removing = Idle /\ Serving /\ farewell = Idle
      /\ adding' = [at |-> "add", display |-> d, layer |-> mNextLayerId']
      /\ mNextLayerId' = mNextLayerId + 1 /\ mNextLayerId < MaxLayerId
      /\ mLayers' = mLayers \cup {mNextLayerId'}
      /\ mDirtyLayers' = mDirtyLayers \cup {mNextLayerId'} /\ mState' = "MODIFIED"
  BY NoFarewell DEF deviceCreateLayer
<1>2. mNextLayerId' \in LayerIds /\ adding' \in AddingStates /\ adding' # Idle
  BY <1>1, MaxLayerIdAssumption DEF IInv, Typed, DeviceTypeOK, LayerIds, AddingStates, Idle
<1>3. Typed' /\ CallsInv'
  BY <1>1, <1>2 DEF IInv, Typed, DeviceTypeOK, States, LayerIds, CallsInv, Serving
<1>4. NothingElsewhere' /\ Accounted(Held, live)' /\ TargetInv'
  BY PlacesKept, TargetKept DEF IInv
<1>5. LayersInv'
  BY <1>1, <1>2 DEF IInv, LayersInv, Belongs
<1>6. FarewellInv'
  BY <1>1 DEF IInv, FarewellInv
<1> QED
  BY <1>3, <1>4, <1>5, <1>6 DEF IInv

LEMMA AddLayerIInv ==
    ASSUME IInv, AddLayer
    PROVE  IInv'
<1> USE DEF AddLayer, deviceUnchanged, deviceVars
<1>1. adding \in AddingStates /\ adding # Idle /\ adding' = Idle /\ Serving /\ farewell = Idle
  BY NoFarewell DEF IInv, Typed, AddingStates, Idle, CallsInv, NoCall
<1>2. \/ /\ adding.display \in displays /\ UNCHANGED stranded
         /\ ownLayers' = [ownLayers EXCEPT ![adding.display] = @ \cup {adding.layer}]
      \/ stranded' = stranded \cup {adding.layer} /\ UNCHANGED ownLayers
  OBVIOUS
<1>3. /\ ownLayers' \in [Displays -> SUBSET LayerIds] /\ stranded' \in SUBSET LayerIds
      /\ \A d \in Displays : ownLayers[d] \subseteq ownLayers'[d]
      /\ \A d \in Displays \ displays : ownLayers'[d] = ownLayers[d]
      /\ stranded \subseteq stranded'
      /\ adding.layer \in stranded' \/ \E d \in Displays : adding.layer \in ownLayers'[d]
  <2> DEFINE d == adding.display
             l == adding.layer
  <2>1. /\ d \in Displays /\ l \in LayerIds /\ stranded \in SUBSET LayerIds
        /\ ownLayers \in [Displays -> SUBSET LayerIds]
    BY <1>1 DEF IInv, Typed, AddingStates
  <2>2. CASE d \in displays /\ UNCHANGED stranded
             /\ ownLayers' = [ownLayers EXCEPT ![d] = @ \cup {l}]
    <3> HIDE DEF d, l
    <3>1. ownLayers' \in [Displays -> SUBSET LayerIds] /\ l \in ownLayers'[d]
      BY <2>1, <2>2
    <3> QED
      BY <2>1, <2>2, <3>1 DEF l
  <2>3. CASE stranded' = stranded \cup {l} /\ UNCHANGED ownLayers
    BY <2>1, <2>3
  <2> QED
    BY <1>2, <2>2, <2>3
<1>4. Typed' /\ CallsInv'
  BY <1>1, <1>3 DEF IInv, Typed, DeviceTypeOK, CallsInv, Serving
<1>5. NothingElsewhere'
  BY <1>3 DEF IInv, NothingElsewhere
<1>6. Accounted(Held, live)'
  BY DEF IInv, Accounted, Held
<1>7. TargetInv'
  BY TargetKept DEF IInv
<1>8. LayersInv'
  BY <1>1, <1>3 DEF IInv, LayersInv, Belongs
<1>9. FarewellInv'
  BY <1>1 DEF IInv, FarewellInv
<1> QED
  BY <1>4, <1>5, <1>6, <1>7, <1>8, <1>9 DEF IInv

LEMMA DestroyLayerIInv ==
    ASSUME IInv, NEW d \in Displays, NEW layer \in LayerIds, DestroyLayer(d, layer)
    PROVE  IInv'
<1> USE DEF DestroyLayer, OneOtherCall, resourceVars, ghostVars
<1>1. /\ removing = Idle /\ Serving /\ farewell = Idle
      /\ mLayers' = mLayers \ {layer} /\ mDirtyLayers' = mDirtyLayers \ {layer}
      /\ mState' \in {mState, "MODIFIED"} /\ UNCHANGED mNextLayerId
      /\ \/ removing' = [at |-> "remove", display |-> d, layer |-> layer]
         \/ removing' = Idle
  BY NoFarewell DEF deviceDestroyLayer
<1>2. removing' \in RemovingStates \cup {Idle} /\ (removing' # Idle => removing'.layer = layer)
  BY <1>1 DEF RemovingStates
<1>3. Typed' /\ CallsInv'
  BY <1>1, <1>2 DEF IInv, Typed, DeviceTypeOK, States, CallsInv, Serving
<1>4. NothingElsewhere' /\ Accounted(Held, live)' /\ TargetInv'
  BY PlacesKept, TargetKept DEF IInv
<1>5. LayersInv'
  BY <1>1, <1>2 DEF IInv, LayersInv, Belongs
<1>6. FarewellInv'
  BY <1>1 DEF IInv, FarewellInv
<1> QED
  BY <1>3, <1>4, <1>5, <1>6 DEF IInv

LEMMA RemoveLayerIInv ==
    ASSUME IInv, RemoveLayer
    PROVE  IInv'
<1> USE DEF RemoveLayer, deviceUnchanged, deviceVars, ghostVars
<1> DEFINE d == removing.display
           l == removing.layer
<1>1. /\ removing # Idle /\ removing' = Idle /\ Serving /\ farewell = Idle
      /\ d \in Displays /\ l \in LayerIds
  BY NoFarewell DEF IInv, Typed, RemovingStates, Idle, CallsInv, NoCall
<1> HIDE DEF d, l
<1>2. \/ /\ ownLayers' = [ownLayers EXCEPT ![d] = @ \ {l}]
         /\ live' = live \ HandlesOfLayer(l)
         /\ layerHandles' = [layerHandles EXCEPT ![l] = [c \in LayerCaches |-> NoHandle]]
      \/ UNCHANGED <<ownLayers, live, layerHandles>>
  BY DEF d, l
<1>3. /\ ownLayers' \in [Displays -> SUBSET LayerIds] /\ live' \in SUBSET live
      /\ layerHandles' \in [LayerIds -> [LayerCaches -> AnyHandle]]
      /\ \A e \in Displays : ownLayers[e] \ {l} \subseteq ownLayers'[e]
      /\ \A e \in Displays : ownLayers'[e] \subseteq ownLayers[e]
      /\ \A k \in LayerIds \ {l} : layerHandles'[k] = layerHandles[k]
  <2>1. /\ ownLayers \in [Displays -> SUBSET LayerIds]
        /\ layerHandles \in [LayerIds -> [LayerCaches -> AnyHandle]]
        /\ [c \in LayerCaches |-> NoHandle] \in [LayerCaches -> AnyHandle]
    BY DEF IInv, Typed, AnyHandle
  <2>2. /\ ownLayers' \in [Displays -> SUBSET LayerIds]
        /\ \A e \in Displays : ownLayers[e] \ {l} \subseteq ownLayers'[e]
        /\ \A e \in Displays : ownLayers'[e] \subseteq ownLayers[e]
    <3>1. CASE ownLayers' = [ownLayers EXCEPT ![d] = @ \ {l}]
      BY <1>1, <2>1, <3>1
    <3> QED
      BY <1>2, <2>1, <3>1
  <2>3. /\ layerHandles' \in [LayerIds -> [LayerCaches -> AnyHandle]]
        /\ \A k \in LayerIds \ {l} : layerHandles'[k] = layerHandles[k]
    <3>1. CASE layerHandles' = [layerHandles EXCEPT ![l] = [c \in LayerCaches |-> NoHandle]]
      BY <1>1, <2>1, <3>1
    <3> QED
      BY <1>2, <2>1, <3>1
  <2> QED
    BY <1>2, <2>2, <2>3
<1>4. Typed' /\ CallsInv'
  BY <1>1, <1>3 DEF IInv, Typed, DeviceTypeOK, CallsInv, Serving
<1>5. NothingElsewhere'
  <2>1. \A e \in Displays \ displays : ownLayers'[e] = {}
    BY <1>3 DEF IInv, NothingElsewhere
  <2>2. ASSUME NEW k \in LayerIds, \A e \in Displays : k \notin ownLayers'[e],
               NEW c \in LayerCaches
        PROVE  layerHandles'[k][c] = NoHandle
    BY <1>1, <1>2, <1>3, <2>2 DEF IInv, Typed, NothingElsewhere
  <2> QED
    BY <2>1, <2>2 DEF IInv, NothingElsewhere
<1>6. Accounted(Held, live)'
  <2>1. CASE UNCHANGED <<ownLayers, live, layerHandles>>
    BY <2>1 DEF IInv, Accounted, Held
  <2>2. CASE /\ live' = live \ HandlesOfLayer(l)
             /\ layerHandles' = [layerHandles EXCEPT ![l] = [c \in LayerCaches |-> NoHandle]]
    <3> DEFINE S == {LayerPlace(l, c) : c \in LayerCaches}
    <3>1. S \in SUBSET Places
      BY <1>1, PlaceFacts
    <3>2. \A p \in S : Held'[p] = NoHandle
      BY <1>1, <2>2, HeldIs DEF HeldFacts, IInv, Typed
    <3>3. ASSUME NEW p \in Places \ S
          PROVE  Held'[p] = Held[p]
      <4>1. CASE \E k \in LayerIds, c \in LayerCaches : p = LayerPlace(k, c)
        <5>1. PICK k \in LayerIds, c \in LayerCaches : p = LayerPlace(k, c)
          BY <4>1
        <5>2. k # l
          BY <3>3, <5>1
        <5> QED
          BY <1>3, <5>1, <5>2, HeldIs DEF HeldFacts
      <4>2. CASE p \notin LayerPlaces
        BY <4>2 DEF Held
      <4> QED
        BY <4>1, <4>2, PlaceFacts DEF LayerPlaces, LayerPlace
    <3>4. \A h \in live : h \in live' <=> \A p \in S : Held[p] # h
      <4>1. \A c \in LayerCaches : Held[LayerPlace(l, c)] = layerHandles[l][c]
        BY <1>1, HeldIs DEF HeldFacts
      <4>2. NoHandle \notin live
        BY ResourcesAssumption DEF IInv, Typed
      <4> QED
        BY <2>2, <4>1, <4>2 DEF HandlesOfLayer
    <3> HIDE DEF S
    <3>5. Accounted(Held, live) /\ live \in SUBSET Handles
      BY DEF IInv, Typed
    <3>6. Accounted(Held', live')
      BY <1>3, <3>1, <3>2, <3>3, <3>4, <3>5, Emptied
    <3> QED
      BY <3>6 DEF Accounted
  <2> QED
    BY <1>2, <2>1, <2>2
<1>7. TargetInv'
  BY TargetKept DEF IInv
<1>8. LayersInv'
  BY <1>1, <1>3 DEF IInv, LayersInv, Belongs, d, l
<1>9. FarewellInv'
  BY <1>1 DEF IInv, FarewellInv
<1> QED
  BY <1>4, <1>5, <1>6, <1>7, <1>8, <1>9 DEF IInv

-----------------------------------------------------------------------------
(* Registration and the end: every display of the resources goes. *)

LEMMA DropsAll ==
    ASSUME IInv, command = Idle, command' = Idle, DropDisplays(displays)
    PROVE  /\ live' = {}
           /\ \A p \in Places : Held'[p] = NoHandle
           /\ clientTargets' = [d \in Displays |-> <<>>]
           /\ readback' = [d \in Displays |-> NoHandle]
           /\ ownLayers' = [d \in Displays |-> {}]
           /\ layerHandles' = [l \in LayerIds |-> [c \in LayerCaches |-> NoHandle]]
<1> USE DEF DropDisplays
<1>1. clientTargets' = [d \in Displays |-> <<>>] /\ readback' = [d \in Displays |-> NoHandle]
  BY DEF IInv, NothingElsewhere
<1>2. ownLayers' = [d \in Displays |-> {}]
  BY DEF IInv, NothingElsewhere
<1>3. \A l \in LayerIds : (\E d \in Displays : l \in ownLayers[d]) =>
        \E d \in displays : l \in ownLayers[d]
  BY DEF IInv, NothingElsewhere
<1>4. ASSUME NEW l \in LayerIds, ~\E d \in displays : l \in ownLayers[d]
      PROVE  layerHandles[l] = [c \in LayerCaches |-> NoHandle]
  <2>1. layerHandles[l] \in [LayerCaches -> AnyHandle]
    BY DEF IInv, Typed
  <2>2. \A c \in LayerCaches : layerHandles[l][c] = NoHandle
    BY <1>3, <1>4 DEF IInv, NothingElsewhere
  <2> QED
    BY <2>1, <2>2
<1>5. layerHandles' = [l \in LayerIds |-> [c \in LayerCaches |-> NoHandle]]
  BY <1>4
<1>6. ASSUME NEW p \in Places
      PROVE  Held'[p] = NoHandle
  <2>1. CASE \E d \in Displays, slot \in SlotIds : p = TargetPlace(d, slot)
    <3>1. \A d \in Displays : \A slot \in SlotIds : slot \notin DOMAIN clientTargets'[d]
      BY <1>1
    <3> QED
      BY <2>1, <3>1, HeldIs DEF HeldFacts
  <2>2. CASE \E d \in Displays : p = ReadbackPlace(d)
    BY <1>1, <2>2, HeldIs DEF HeldFacts
  <2>3. CASE \E l \in LayerIds, c \in LayerCaches : p = LayerPlace(l, c)
    BY <1>5, <2>3, HeldIs DEF HeldFacts
  <2>4. CASE p = OldPlace
    BY <2>4, HeldIs DEF HeldFacts
  <2> QED
    BY <2>1, <2>2, <2>3, <2>4, PlaceFacts
<1>7. ASSUME NEW h \in live
      PROVE  \E d \in displays : h \in HandlesOf(d)
  <2>1. PICK p \in Places : Held[p] = h
    BY DEF IInv, Accounted
  <2>2. h # NoHandle
    BY ResourcesAssumption DEF IInv, Typed
  <2>3. CASE \E d \in Displays, slot \in SlotIds : p = TargetPlace(d, slot)
    <3>1. PICK d \in Displays, slot \in SlotIds : p = TargetPlace(d, slot)
      BY <2>3
    <3>2. slot \in DOMAIN clientTargets[d] /\ clientTargets[d][slot] = h
      BY <2>1, <2>2, <3>1, HeldIs DEF HeldFacts
    <3>3. d \in displays
      BY <3>2 DEF IInv, NothingElsewhere
    <3> QED
      BY <2>2, <3>2, <3>3 DEF HandlesOf, ToSet
  <2>4. CASE \E d \in Displays : p = ReadbackPlace(d)
    <3>1. PICK d \in Displays : p = ReadbackPlace(d)
      BY <2>4
    <3>2. readback[d] = h /\ d \in displays
      BY <2>1, <2>2, <3>1, HeldIs DEF HeldFacts, IInv, NothingElsewhere
    <3> QED
      BY <2>2, <3>2 DEF HandlesOf
  <2>5. CASE \E l \in LayerIds, c \in LayerCaches : p = LayerPlace(l, c)
    <3>1. PICK l \in LayerIds, c \in LayerCaches : p = LayerPlace(l, c)
      BY <2>5
    <3>2. layerHandles[l][c] = h
      BY <2>1, <3>1, HeldIs DEF HeldFacts
    <3>3. PICK d \in displays : l \in ownLayers[d]
      BY <1>4, <2>2, <3>2
    <3>4. h \in HandlesOfLayer(l)
      BY <2>2, <3>2 DEF HandlesOfLayer
    <3>5. h \in UNION {HandlesOfLayer(k) : k \in ownLayers[d]}
      BY <3>3, <3>4
    <3> QED
      BY <2>2, <3>3, <3>5 DEF HandlesOf
  <2>6. p # OldPlace
    BY <2>1, <2>2, HeldIs DEF HeldFacts
  <2> QED
    BY <2>3, <2>4, <2>5, <2>6, PlaceFacts
<1>8. live' = {}
  BY <1>7
<1> QED
  BY <1>1, <1>2, <1>5, <1>6, <1>8

(* What a cache hands out last is one of its handles. *)
LEMMA CleanedIsHandle ==
    ASSUME Typed, NEW d \in Displays, NEW buffer \in AnyHandle
    PROVE  cleanDisplayResources(d, buffer) \in AnyHandle
<1>1. CASE d \in displays /\ clientTargets[d] # <<>>
  <2>1. clientTargets[d] \in Seq(AnyHandle) /\ Len(clientTargets[d]) \in DOMAIN clientTargets[d]
    BY <1>1 DEF Typed
  <2> QED
    BY <1>1, <2>1 DEF cleanDisplayResources, Last
<1> QED
  BY <1>1 DEF cleanDisplayResources

LEMMA RegisterIInv ==
    ASSUME IInv, registerCallback
    PROVE  IInv'
<1> USE DEF registerCallback, deviceVars, callVars
<1>1. /\ command = Idle /\ adding = Idle /\ removing = Idle /\ Serving /\ farewell = Idle
      /\ UNCHANGED <<command, adding, removing, farewell>>
  BY NoFarewell DEF NoCall
<1>2. /\ live' = {}
      /\ \A p \in Places : Held'[p] = NoHandle
      /\ clientTargets' = [d \in Displays |-> <<>>]
      /\ readback' = [d \in Displays |-> NoHandle]
      /\ ownLayers' = [d \in Displays |-> {}]
      /\ layerHandles' = [l \in LayerIds |-> [c \in LayerCaches |-> NoHandle]]
  BY <1>1, DropsAll
<1>3. Typed' /\ CallsInv'
  <2>1. mBuffer' \in AnyHandle
    <3>1. cleanDisplayResources(0, mBuffer) \in AnyHandle
      BY CleanedIsHandle DEF IInv, Typed, Displays
    <3> QED
      BY <3>1, CleanedIsHandle DEF IInv, Displays
  <2>2. clientTargets' \in [Displays -> Seq(AnyHandle)]
        /\ \A d \in Displays : Len(clientTargets'[d]) <= Max(SlotCounts)
    <3>1. \A d \in Displays : clientTargets'[d] = <<>> /\ Len(clientTargets'[d]) = 0
      BY <1>2
    <3> QED
      BY <1>2, <3>1, SlotBound
  <2>3. stranded' \in SUBSET LayerIds /\ targetState' \in {"none", "set", "refused", "cleaned"}
    BY DEF IInv, Typed, DeviceTypeOK
  <2> QED
    BY <1>1, <1>2, <2>1, <2>2, <2>3 DEF IInv, Typed, DeviceTypeOK, AnyHandle, CallsInv, Serving
<1>4. NothingElsewhere'
  BY <1>2 DEF NothingElsewhere
<1>5. Accounted(Held, live)'
  BY <1>2 DEF Accounted
<1>6. TargetInv'
  <2>1. CASE displays = {}
    <3>1. ~\E h : InCache(h)
      BY <2>1 DEF InCache, IInv, NothingElsewhere
    <3>2. mBuffer' = mBuffer /\ targetState' = targetState
      BY <2>1 DEF cleanDisplayResources
    <3> QED
      BY <1>1, <3>1, <3>2 DEF IInv, TargetInv, Idle
  <2>2. CASE displays # {}
    BY <1>1, <2>2 DEF TargetInv, Idle
  <2> QED
    BY <2>1, <2>2
<1>7. LayersInv'
  <2>1. ASSUME NEW l \in mLayers
        PROVE  l \in stranded'
    <3>1. l \in stranded \/ \E d \in displays : l \in ownLayers[d]
      BY <1>1 DEF IInv, LayersInv, Belongs, NothingElsewhere
    <3> QED
      BY <3>1
  <2> QED
    BY <1>1, <2>1 DEF LayersInv, Belongs
<1>8. FarewellInv'
  BY <1>1 DEF IInv, Typed, FarewellInv
<1> QED
  BY <1>3, <1>4, <1>5, <1>6, <1>7, <1>8 DEF IInv

LEMMA FreeIInv ==
    ASSUME IInv, FreeResources
    PROVE  IInv'
<1> USE DEF FreeResources, deviceUnchanged, deviceVars
<1>1. /\ farewell # Idle /\ farewell' = Idle /\ client = "destroying" /\ client' = "none"
      /\ command = Idle /\ adding = Idle /\ removing = Idle
      /\ UNCHANGED <<command, adding, removing>>
  BY DEF IInv, CallsInv, Serving, NoCall, Idle
<1>2. /\ live' = {}
      /\ \A p \in Places : Held'[p] = NoHandle
      /\ clientTargets' = [d \in Displays |-> <<>>]
      /\ readback' = [d \in Displays |-> NoHandle]
      /\ ownLayers' = [d \in Displays |-> {}]
      /\ layerHandles' = [l \in LayerIds |-> [c \in LayerCaches |-> NoHandle]]
  BY <1>1, DropsAll
<1>3. \A d \in Displays : ownLayers[d] \cap mLayers = {}
  BY <1>1 DEF IInv, FarewellInv, Left
<1>4. Typed' /\ CallsInv'
  <2>1. clientTargets' \in [Displays -> Seq(AnyHandle)]
        /\ \A d \in Displays : Len(clientTargets'[d]) <= Max(SlotCounts)
    <3>1. \A d \in Displays : clientTargets'[d] = <<>> /\ Len(clientTargets'[d]) = 0
      BY <1>2
    <3> QED
      BY <1>2, <3>1, SlotBound
  <2> QED
    BY <1>1, <1>2, <2>1 DEF IInv, Typed, DeviceTypeOK, AnyHandle, CallsInv, Serving, NoCall
<1>5. NothingElsewhere'
  BY <1>2 DEF NothingElsewhere
<1>6. Accounted(Held, live)'
  BY <1>2 DEF Accounted
<1>7. TargetInv'
  BY <1>1 DEF TargetInv, Idle
<1>8. LayersInv'
  BY <1>1, <1>3 DEF IInv, LayersInv, Belongs
<1>9. FarewellInv'
  BY <1>1, <1>3 DEF FarewellInv
<1> QED
  BY <1>4, <1>5, <1>6, <1>7, <1>8, <1>9 DEF IInv

-----------------------------------------------------------------------------
(* The destructor's callback.  Layers only go, and no display is left with *)
(* one of the client but those still to come.                              *)

LEMMA FarewellToIs ==
    ASSUME NEW S \in SUBSET Displays, ownLayers \in [Displays -> SUBSET LayerIds]
    PROVE  /\ FarewellTo(S) \in FarewellStates /\ FarewellTo(S) # Idle
           /\ Left(FarewellTo(S)) = S
           /\ FarewellTo(S).at \in {"free", "layers"}
           /\ FarewellTo(S).at # "free" =>
                FarewellTo(S).layers = ownLayers[FarewellTo(S).display]
<1>1. CASE S = {}
  BY <1>1 DEF FarewellTo, FarewellStates, Left, Idle
<1>2. CASE S # {}
  <2> DEFINE d == Min(S)
  <2>1. d \in S
    BY <1>2, FirstDisplay
  <2> HIDE DEF d
  <2>2. FarewellTo(S) = [at |-> "layers", display |-> d, layers |-> ownLayers[d], rest |-> S \ {d}]
    BY <1>2 DEF FarewellTo, d
  <2> QED
    BY <2>1, <2>2 DEF FarewellStates, Left, Idle
<1> QED
  BY <1>1, <1>2

(* All but the callback's own invariant. *)
LEMMA FarewellRest ==
    ASSUME IInv, client' = "destroying", NoCall,
           UNCHANGED <<active, mBuffer, resourceVars, command, adding, removing, targetState,
                       stranded, mNextLayerId>>,
           mLayers' \in SUBSET mLayers, mDirtyLayers' \in SUBSET LayerIds, mState' \in States,
           mMustValidateDisplay' \in BOOLEAN,
           farewell' \in FarewellStates, farewell' # Idle, FarewellInv'
    PROVE  IInv'
<1> USE DEF resourceVars
<1>1. Typed' /\ CallsInv'
  BY DEF IInv, Typed, DeviceTypeOK, CallsInv, Serving, NoCall
<1>2. NothingElsewhere' /\ Accounted(Held, live)' /\ TargetInv'
  BY PlacesKept, TargetKept DEF IInv
<1>3. LayersInv'
  BY DEF IInv, LayersInv, Belongs, NoCall
<1> QED
  BY <1>1, <1>2, <1>3 DEF IInv

LEMMA DropClientIInv ==
    ASSUME IInv, DropClient
    PROVE  IInv'
<1> USE DEF DropClient, deviceUnchanged, deviceVars, resourceVars, ghostVars
<1>1. /\ displays \in SUBSET Displays
      /\ ownLayers \in [Displays -> SUBSET LayerIds]
      /\ \A d \in Displays \ displays : ownLayers[d] = {}
  BY DEF IInv, Typed, Displays, NothingElsewhere
<1>2. /\ farewell' \in FarewellStates /\ farewell' # Idle
      /\ Left(farewell') = displays
      /\ farewell'.at \in {"free", "layers"}
      /\ farewell'.at # "free" => farewell'.layers = ownLayers[farewell'.display]
  BY <1>1, FarewellToIs
<1>3. Left(farewell)' = displays
  BY <1>2 DEF Left
<1>4. FarewellInv'
  BY <1>1, <1>2, <1>3 DEF FarewellInv
<1>5. /\ mLayers' = mLayers /\ mDirtyLayers' \in SUBSET LayerIds /\ mState' \in States
      /\ mMustValidateDisplay' \in BOOLEAN
  BY DEF IInv, Typed, DeviceTypeOK
<1> QED
  BY <1>2, <1>4, <1>5, FarewellRest

(* What the steps of the callback find. *)
LEMMA InFarewell ==
    ASSUME IInv, farewell.at \in {"layers", "accept", "present"}
    PROVE  /\ client = "destroying" /\ NoCall /\ farewell # Idle
           /\ farewell \in FarewellStates
           /\ farewell.display \in Displays /\ farewell.rest \in SUBSET Displays
           /\ farewell.layers \in SUBSET LayerIds
           /\ Left(farewell) = {farewell.display} \cup farewell.rest
           /\ DeviceTypeOK /\ mMustValidateDisplay \in BOOLEAN
<1>1. farewell # Idle /\ farewell \in FarewellStates
  BY DEF IInv, Typed, Idle
<1>2. /\ farewell.display \in Displays /\ farewell.rest \in SUBSET Displays
      /\ farewell.layers \in SUBSET LayerIds
  BY <1>1 DEF FarewellStates
<1> QED
  BY <1>1, <1>2 DEF IInv, Typed, CallsInv, Serving, Left

(* A step within the callback of one display. *)
LEMMA MovesOn ==
    ASSUME NEW f \in FarewellStates, f.at \in {"layers", "accept", "present"},
           NEW at \in {"layers", "accept", "present"},
           NEW g, g = [f EXCEPT !.at = at]
    PROVE  /\ g \in FarewellStates /\ g # Idle /\ g.at = at
           /\ g.display = f.display /\ g.rest = f.rest /\ g.layers = f.layers
BY DEF FarewellStates, Idle

LEMMA LayerGone ==
    ASSUME NEW f \in FarewellStates, f.at = "layers", NEW l,
           NEW g, g = [f EXCEPT !.layers = @ \ {l}]
    PROVE  /\ g \in FarewellStates /\ g # Idle /\ g.at = "layers"
           /\ g.display = f.display /\ g.rest = f.rest /\ g.layers = f.layers \ {l}
BY DEF FarewellStates, Idle

LEMMA DestroyOwnIInv ==
    ASSUME IInv, DestroyOwnLayer
    PROVE  IInv'
<1> USE DEF DestroyOwnLayer, farewellUnchanged, resourceVars
<1> DEFINE l == Min(farewell.layers)
<1>1. farewell.at = "layers"
  OBVIOUS
<1>2. /\ mLayers' = mLayers \ {l} /\ mDirtyLayers' = mDirtyLayers \ {l}
      /\ mState' \in {mState, "MODIFIED"} /\ UNCHANGED mNextLayerId
  BY <1>1, InFarewell DEF deviceDestroyLayer, Fails
<1>3. farewell' = [farewell EXCEPT !.layers = @ \ {l}]
  OBVIOUS
<1> HIDE DEF l
<1>4. /\ farewell' \in FarewellStates /\ farewell' # Idle /\ farewell'.at = "layers"
      /\ farewell'.display = farewell.display /\ farewell'.rest = farewell.rest
      /\ farewell'.layers = farewell.layers \ {l}
  BY <1>1, <1>3, InFarewell, LayerGone, SMTT(30)
<1>5. FarewellInv'
  <2>1. Left(farewell)' = Left(farewell)
    BY <1>1, <1>4 DEF Left
  <2> QED
    BY <1>1, <1>2, <1>4, <2>1, InFarewell DEF IInv, FarewellInv
<1> QED
  BY <1>1, <1>2, <1>4, <1>5, InFarewell, FarewellRest DEF DeviceTypeOK, States

LEMMA FinalValidateIInv ==
    ASSUME IInv, FinalValidate
    PROVE  IInv'
<1> USE DEF FinalValidate, farewellUnchanged, resourceVars
<1>1. farewell.at = "layers" /\ farewell.layers = {}
  OBVIOUS
<1>2. /\ mState' \in {"VALIDATED_WITH_CHANGES", "VALIDATED"} /\ mMustValidateDisplay' = FALSE
      /\ UNCHANGED <<mNextLayerId, mLayers, mDirtyLayers>>
  BY <1>1, InFarewell DEF deviceValidateDisplay, Fails
<1>3. /\ farewell' \in FarewellStates /\ farewell' # Idle /\ farewell'.at = "accept"
      /\ farewell'.display = farewell.display /\ farewell'.rest = farewell.rest
      /\ farewell'.layers = farewell.layers
  BY <1>1, InFarewell, MovesOn
<1>4. FarewellInv'
  <2>1. Left(farewell)' = Left(farewell)
    BY <1>1, <1>3 DEF Left
  <2> QED
    BY <1>1, <1>2, <1>3, <2>1, InFarewell DEF IInv, FarewellInv
<1> QED
  BY <1>1, <1>2, <1>3, <1>4, InFarewell, FarewellRest DEF DeviceTypeOK, States

LEMMA FinalAcceptIInv ==
    ASSUME IInv, FinalAccept
    PROVE  IInv'
<1> USE DEF FinalAccept, farewellUnchanged, resourceVars
<1>1. farewell.at = "accept"
  OBVIOUS
<1>2. mState # "MODIFIED"
  BY <1>1, InFarewell DEF IInv, FarewellInv
<1>3. /\ mState' = "VALIDATED" /\ mDirtyLayers' = {}
      /\ UNCHANGED <<mNextLayerId, mLayers, mMustValidateDisplay>>
  BY <1>1, <1>2, InFarewell DEF deviceAcceptDisplayChanges, Fails
<1>4. /\ farewell' \in FarewellStates /\ farewell' # Idle /\ farewell'.at = "present"
      /\ farewell'.display = farewell.display /\ farewell'.rest = farewell.rest
      /\ farewell'.layers = farewell.layers
  BY <1>1, InFarewell, MovesOn
<1>5. FarewellInv'
  <2>1. Left(farewell)' = Left(farewell)
    BY <1>1, <1>4 DEF Left
  <2> QED
    BY <1>1, <1>3, <1>4, <2>1, InFarewell DEF IInv, FarewellInv
<1> QED
  BY <1>1, <1>3, <1>4, <1>5, InFarewell, FarewellRest DEF DeviceTypeOK, States

(* The present is taken, and the next display's turn comes. *)
LEMMA FinalPresentIInv ==
    ASSUME IInv, FinalPresent
    PROVE  IInv'
<1> USE DEF FinalPresent, farewellUnchanged, resourceVars
<1> DEFINE d == farewell.display
<1>1. farewell.at = "present"
  OBVIOUS
<1>2. /\ farewell.layers = {} /\ mState = "VALIDATED" /\ ~mMustValidateDisplay
      /\ mLayers \cap ownLayers[d] = {}
  BY <1>1, InFarewell DEF IInv, FarewellInv
<1>3. UNCHANGED deviceVars
  BY <1>1, <1>2, InFarewell DEF Presented, devicePresentDisplay, Fails
<1>4. /\ farewell' \in FarewellStates /\ farewell' # Idle
      /\ Left(farewell') = farewell.rest
      /\ farewell'.at \in {"free", "layers"}
      /\ farewell'.at # "free" => farewell'.layers = ownLayers[farewell'.display]
  BY <1>1, InFarewell, FarewellToIs DEF IInv, Typed
<1>5. Left(farewell)' = farewell.rest
  BY <1>4 DEF Left
<1>6. FarewellInv'
  BY <1>1, <1>2, <1>3, <1>4, <1>5, InFarewell DEF IInv, FarewellInv, deviceVars
<1> QED
  BY <1>1, <1>3, <1>4, <1>6, InFarewell, FarewellRest DEF DeviceTypeOK, deviceVars

-----------------------------------------------------------------------------
LEMMA NextIInv == IInv /\ [Next]_vars => IInv'
<1> SUFFICES ASSUME IInv, [Next]_vars PROVE IInv'
  OBVIOUS
<1>1. CASE CreateClient \/ registerCallback
  BY <1>1, CreateClientIInv, RegisterIInv
<1>2. CASE Commands
  <2>1. ASSUME NEW d \in Displays, NEW slot \in 1 .. Max(SlotCounts), NEW useCache \in BOOLEAN,
               NEW known \in BOOLEAN, NEW h \in Imports,
               executeSetClientTarget(d, slot, useCache, h, known)
        PROVE  IInv'
    BY <2>1, CacheStep DEF SlotIds
  <2> QED
    BY <1>2, <2>1, DeviceCallsIInv, LayerHandleIInv, SetClientTargetIInv, ReleaseIInv
       DEF Commands
<1>3. CASE OtherCalls
  BY <1>3, SlotCountIInv, ReadbackIInv, CreateLayerIInv, DestroyLayerIInv, AddLayerIInv,
     RemoveLayerIInv DEF OtherCalls
<1>4. CASE Farewell
  BY <1>4, DropClientIInv, DestroyOwnIInv, FinalValidateIInv, FinalAcceptIInv,
     FinalPresentIInv, FreeIInv DEF Farewell
<1>5. CASE UNCHANGED vars
  <2> USE <1>5 DEF vars, deviceVars, resourceVars, callVars, ghostVars
  <2>1. Typed' /\ CallsInv'
    BY DEF IInv, Typed, DeviceTypeOK, CallsInv, Serving, NoCall
  <2>2. NothingElsewhere' /\ Accounted(Held, live)' /\ TargetInv'
    BY PlacesKept, TargetKept DEF IInv
  <2>3. LayersInv' /\ FarewellInv'
    BY DEF IInv, LayersInv, Belongs, FarewellInv, Left
  <2> QED
    BY <2>1, <2>2, <2>3 DEF IInv
<1> QED
  BY <1>1, <1>2, <1>3, <1>4, <1>5 DEF Next

-----------------------------------------------------------------------------
(* The properties. *)

(* Counting owners is asking which places hold the handle. *)
LEMMA OwnersArePlaces ==
    ASSUME IInv, NEW h \in Handles
    PROVE  OwnersOf(h) = IF h \in live THEN 1 ELSE 0
<1> DEFINE Slots   == {s \in Displays \X (1 .. Max(SlotCounts)) :
                        s[2] \in DOMAIN clientTargets[s[1]] /\ clientTargets[s[1]][s[2]] = h}
           Backs   == {d \in Displays : readback[d] = h}
           Caches  == {c \in (UNION {ownLayers[d] : d \in Displays}) \X LayerCaches :
                        layerHandles[c[1]][c[2]] = h}
           Pending == IF command # Idle /\ command.old = h THEN 1 ELSE 0
<1>1. h # NoHandle
  BY ResourcesAssumption
<1>2. \A d \in Displays, slot \in SlotIds :
        <<d, slot>> \in Slots <=> Held[TargetPlace(d, slot)] = h
  BY <1>1, HeldIs DEF HeldFacts, SlotIds
<1>3. \A d \in Displays : d \in Backs <=> Held[ReadbackPlace(d)] = h
  BY HeldIs DEF HeldFacts
<1>4. \A l \in LayerIds, c \in LayerCaches :
        <<l, c>> \in Caches <=> Held[LayerPlace(l, c)] = h
  BY <1>1, HeldIs DEF HeldFacts, IInv, NothingElsewhere
<1>5. Pending = IF Held[OldPlace] = h THEN 1 ELSE 0
  BY <1>1, HeldIs DEF HeldFacts
<1>6. /\ Slots \subseteq Displays \X SlotIds /\ Backs \subseteq Displays
      /\ Caches \subseteq LayerIds \X LayerCaches
  BY DEF SlotIds, IInv, Typed
<1>7. OwnersOf(h) = Cardinality(Slots) + Cardinality(Backs) + Cardinality(Caches) + Pending
  BY DEF OwnersOf
<1>8. Cardinality({}) = 0 /\ \A x : Cardinality({x}) = 1
  BY FS_EmptySet, FS_Singleton
<1> HIDE DEF Slots, Backs, Caches, Pending
<1>9. CASE h \notin live
  <2>1. \A p \in Places : Held[p] # h
    BY <1>1, <1>9 DEF IInv, Accounted
  <2>2. Slots = {} /\ Backs = {} /\ Caches = {} /\ Pending = 0
    BY <1>2, <1>3, <1>4, <1>5, <1>6, <2>1, PlaceFacts
  <2> QED
    BY <1>7, <1>8, <1>9, <2>2
<1>10. CASE h \in live
  <2>1. PICK p \in Places : Held[p] = h /\ \A q \in Places : Held[q] = h => q = p
    BY <1>1, <1>10 DEF IInv, Accounted
  <2>2. CASE \E d \in Displays, slot \in SlotIds : p = TargetPlace(d, slot)
    <3>1. PICK d \in Displays, slot \in SlotIds : p = TargetPlace(d, slot)
      BY <2>2
    <3>2. \A e \in Displays, n \in SlotIds : TargetPlace(e, n) = p => e = d /\ n = slot
      BY <3>1 DEF TargetPlace
    <3>3. /\ \A e \in Displays : ReadbackPlace(e) # p
          /\ \A l \in LayerIds, c \in LayerCaches : LayerPlace(l, c) # p
          /\ OldPlace # p
      BY <3>1 DEF TargetPlace, ReadbackPlace, LayerPlace, OldPlace
    <3>4. Slots = {<<d, slot>>} /\ Backs = {} /\ Caches = {} /\ Pending = 0
      BY <1>2, <1>3, <1>4, <1>5, <1>6, <2>1, <3>1, <3>2, <3>3, PlaceFacts
    <3>5. Cardinality(Slots) = 1
      BY <3>4, FS_Singleton
    <3> QED
      BY <1>7, <1>8, <1>10, <3>4, <3>5
  <2>3. CASE \E d \in Displays : p = ReadbackPlace(d)
    <3>1. PICK d \in Displays : p = ReadbackPlace(d)
      BY <2>3
    <3>2. \A e \in Displays : ReadbackPlace(e) = p => e = d
      BY <3>1 DEF ReadbackPlace
    <3>3. /\ \A e \in Displays, n \in SlotIds : TargetPlace(e, n) # p
          /\ \A l \in LayerIds, c \in LayerCaches : LayerPlace(l, c) # p
          /\ OldPlace # p
      BY <3>1 DEF TargetPlace, ReadbackPlace, LayerPlace, OldPlace
    <3>4. Slots = {} /\ Backs = {d} /\ Caches = {} /\ Pending = 0
      BY <1>2, <1>3, <1>4, <1>5, <1>6, <2>1, <3>1, <3>2, <3>3, PlaceFacts
    <3> QED
      BY <1>7, <1>8, <1>10, <3>4
  <2>4. CASE \E l \in LayerIds, c \in LayerCaches : p = LayerPlace(l, c)
    <3>1. PICK l \in LayerIds, c \in LayerCaches : p = LayerPlace(l, c)
      BY <2>4
    <3>2. \A k \in LayerIds, b \in LayerCaches : LayerPlace(k, b) = p => k = l /\ b = c
      BY <3>1 DEF LayerPlace
    <3>3. /\ \A e \in Displays, n \in SlotIds : TargetPlace(e, n) # p
          /\ \A e \in Displays : ReadbackPlace(e) # p
          /\ OldPlace # p
      BY <3>1 DEF TargetPlace, ReadbackPlace, LayerPlace, OldPlace
    <3>4. Slots = {} /\ Backs = {} /\ Caches = {<<l, c>>} /\ Pending = 0
      BY <1>2, <1>3, <1>4, <1>5, <1>6, <2>1, <3>1, <3>2, <3>3, PlaceFacts
    <3>5. Cardinality(Caches) = 1
      BY <3>4, FS_Singleton
    <3> QED
      BY <1>7, <1>8, <1>10, <3>4, <3>5
  <2>5. CASE p = OldPlace
    <3>1. /\ \A e \in Displays, n \in SlotIds : TargetPlace(e, n) # p
          /\ \A e \in Displays : ReadbackPlace(e) # p
          /\ \A l \in LayerIds, c \in LayerCaches : LayerPlace(l, c) # p
      BY <2>5 DEF TargetPlace, ReadbackPlace, LayerPlace, OldPlace
    <3>2. Slots = {} /\ Backs = {} /\ Caches = {} /\ Pending = 1
      BY <1>2, <1>3, <1>4, <1>5, <1>6, <2>1, <2>5, <3>1, PlaceFacts
    <3> QED
      BY <1>7, <1>8, <1>10, <3>2
  <2> QED
    BY <2>2, <2>3, <2>4, <2>5, PlaceFacts
<1> QED
  BY <1>9, <1>10

(* The invariant of the whole life of the clients, one after the other. *)
THEOREM Invariance == Spec => []IInv
BY InitIInv, NextIInv, PTL DEF Spec

(* Every variable keeps its type. *)
THEOREM TypeCorrect == Spec => []TypeOK
<1>1. IInv => TypeOK
  BY DEF IInv, Typed, TypeOK, CommandStates, AddingStates, RemovingStates, FarewellStates, Idle
<1> QED
  BY <1>1, Invariance, PTL

(* Every imported handle has one owner that will free it, a freed one none.*)
THEOREM HandlesAreAccounted == Spec => []HandlesAccounted
<1>1. IInv => HandlesAccounted
  BY OwnersArePlaces DEF HandlesAccounted
<1> QED
  BY <1>1, Invariance, PTL

(* The device posts from a handle that is still imported: no step between  *)
(* replacing a slot and telling the device frees the target in use.        *)
THEOREM TargetStaysLive == Spec => []TargetIsLive
<1>1. ASSUME IInv, targetState = "set", mBuffer # NoHandle
      PROVE  mBuffer \in live
  <2>1. CASE InCache(mBuffer)
    <3>1. PICK d \in Displays : \E slot \in DOMAIN clientTargets[d] :
                clientTargets[d][slot] = mBuffer
      BY <2>1 DEF InCache
    <3>2. PICK slot \in DOMAIN clientTargets[d] : clientTargets[d][slot] = mBuffer
      BY <3>1
    <3>3. slot \in SlotIds
      BY <1>1, SlotsAre DEF IInv
    <3>4. Held[TargetPlace(d, slot)] = mBuffer /\ TargetPlace(d, slot) \in Places
      BY <3>2, <3>3, HeldIs, PlaceFacts DEF HeldFacts
    <3> QED
      BY <1>1, <3>4 DEF IInv, Accounted
  <2>2. CASE command.at = "hal" /\ command.old = mBuffer
    <3>1. Held[OldPlace] = mBuffer /\ OldPlace \in Places
      BY <2>2, HeldIs, PlaceFacts DEF HeldFacts, Idle
    <3> QED
      BY <1>1, <3>1 DEF IInv, Accounted
  <2> QED
    BY <1>1, <2>1, <2>2 DEF IInv, TargetInv
<1>2. IInv => TargetIsLive
  BY <1>1 DEF TargetIsLive
<1> QED
  BY <1>2, Invariance, PTL

(* Nobody leaves a layer behind that neither belongs to a client nor was   *)
(* stranded by a call that failed half way.                                *)
THEOREM LayersHaveOwners == Spec => []LayersAreOwned
<1>1. ASSUME IInv, NEW l \in mLayers, ~\E d \in Displays : l \in ownLayers[d],
             l \notin stranded
      PROVE  adding # Idle /\ l \in {adding.layer}
  BY <1>1 DEF IInv, LayersInv, Belongs
<1>2. IInv => LayersAreOwned
  <2>1. ASSUME IInv, NEW l \in mLayers
        PROVE  \/ l \in UNION {ownLayers[d] : d \in Displays}
               \/ l \in stranded
               \/ adding # Idle /\ l \in {adding.layer}
    BY <1>1, <2>1
  <2> QED
    BY <2>1 DEF LayersAreOwned
<1> QED
  BY <1>2, Invariance, PTL

(* The destructor's last present of a display is never refused, and comes  *)
(* after the client's layers there are gone.                               *)
THEOREM FinalPresentsAreTaken == Spec => []FinalPresentIsTaken
<1>1. ASSUME IInv, farewell.at = "present"
      PROVE  farewell # Idle /\ farewell.layers = {}
  BY <1>1 DEF IInv, FarewellInv, Idle
<1>2. IInv => FinalPresentIsTaken
  BY <1>1 DEF IInv, FarewellInv, FinalPresentIsTaken
<1> QED
  BY <1>2, Invariance, PTL

=============================================================================
