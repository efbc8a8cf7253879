-------------------------- MODULE ClientResources --------------------------
(***************************************************************************)
(* What a composer client owns: the layers it created, the imported        *)
(* handles in the caches of its resource manager, and the client target    *)
(* the device keeps a bare pointer to (Hwc2Device::mBuffer).  Clients come *)
(* and go one after the other (ComposerLifecycle); the device, its layers  *)
(* and mBuffer stay.                                                       *)
(*                                                                         *)
(* executeSetClientTarget is three steps: the cache slot is replaced, the  *)
(* device is told, the replaced handle is freed when the releaser goes out *)
(* of scope.  createLayer and destroyLayer call the device first and the   *)
(* resources second; both run on binder threads beside the command thread. *)
(*                                                                         *)
(* The caches themselves are the composer resources library of AOSP        *)
(* (V2_2::hal::ComposerResources), modelled from how ResourceManager.cpp   *)
(* uses it.  Handles are identities: one that mBuffer still points to is   *)
(* not given to a new import, so a dangling pointer stays visible.         *)
(***************************************************************************)
EXTENDS HwcDevice, SequencesExt

CONSTANTS
    Handles,        \* imported handles
    NoHandle,       \* a null handle
    LayerCaches,    \* the buffer slots of a layer and its sideband stream
    SlotCounts      \* sizes a client gives its client target caches, an int32_t

ASSUME ResourcesAssumption ==
    /\ NoHandle \notin Handles
    /\ SlotCounts \subseteq Nat \ {0}
    /\ \E most \in SlotCounts : \A n \in SlotCounts : n <= most

VARIABLES
    active,         \* the displays the device reports on registration
    mMustValidateDisplay,
    mBuffer,        \* Hwc2Device: the client target
    client,         \* "none", "made", "registered" or "destroying"
    displays,       \* displays the resources know,
    clientTargets,  \*   the cache of each; <<>> before it has a size
    readback,       \*   its readback buffer,
    ownLayers,      \*   its layers,
    layerHandles,   \*   and what those have cached
    live,           \* handles imported and not freed
    command,        \* executeSetClientTarget between its steps
    adding,         \* createLayer between the device and the resources
    removing,       \* destroyLayer between the device and the resources
    farewell,       \* destroyResources: where it is in its callback
    targetState,    \* what became of the client's last client target
    stranded        \* layers the device keeps and no client can name

resourceVars == <<displays, clientTargets, readback, ownLayers, layerHandles, live>>
callVars     == <<command, adding, removing, farewell>>
ghostVars    == <<targetState, stranded>>
vars == <<deviceVars, active, mMustValidateDisplay, mBuffer, client,
          resourceVars, callVars, ghostVars>>

AnyHandle == Handles \cup {NoHandle}

Idle == [at |-> "idle"]

Init ==
    /\ DeviceInit
    /\ active \in {{0}, {0, 1}}
    /\ mMustValidateDisplay = TRUE
    /\ mBuffer = NoHandle
    /\ client = "none"
    /\ displays = {}
    /\ clientTargets = [d \in Displays |-> <<>>]
    /\ readback = [d \in Displays |-> NoHandle]
    /\ ownLayers = [d \in Displays |-> {}]
    /\ layerHandles = [l \in LayerIds |-> [c \in LayerCaches |-> NoHandle]]
    /\ live = {}
    /\ command = Idle /\ adding = Idle /\ removing = Idle /\ farewell = Idle
    /\ targetState = "none"
    /\ stranded = {}

TypeOK ==
    /\ DeviceTypeOK
    /\ mMustValidateDisplay \in BOOLEAN
    /\ mBuffer \in AnyHandle
    /\ client \in {"none", "made", "registered", "destroying"}
    /\ displays \in {{}, active}
    /\ \A d \in Displays : clientTargets[d] \in Seq(AnyHandle)
    /\ readback \in [Displays -> AnyHandle]
    /\ ownLayers \in [Displays -> SUBSET LayerIds]
    /\ layerHandles \in [LayerIds -> [LayerCaches -> AnyHandle]]
    /\ live \subseteq Handles
    /\ command.at \in {"idle", "hal", "release"}
    /\ adding.at \in {"idle", "add"}
    /\ removing.at \in {"idle", "remove"}
    /\ farewell.at \in {"idle", "layers", "accept", "present", "free"}
    /\ targetState \in {"none", "set", "refused", "cleaned"}
    /\ stranded \subseteq LayerIds

-----------------------------------------------------------------------------
(* The library, as ResourceManager uses it. *)

(* What an import may return: a new handle, or null for an empty one. *)
Imports == (Handles \ (live \cup {mBuffer})) \cup {NoHandle}

Import(h) == live' = live \cup ({h} \ {NoHandle})

(* The handles in the caches of layer l, and of display d with its layers. *)
HandlesOfLayer(l) == {layerHandles[l][c] : c \in LayerCaches} \ {NoHandle}

HandlesOf(d) ==
    (ToSet(clientTargets[d]) \cup {readback[d]}
        \cup UNION {HandlesOfLayer(l) : l \in ownLayers[d]}) \ {NoHandle}

(* Displays S go: their caches free what they hold. *)
DropDisplays(S) ==
    /\ live' = live \ UNION {HandlesOf(d) : d \in S}
    /\ clientTargets' = [d \in Displays |-> IF d \in S THEN <<>> ELSE clientTargets[d]]
    /\ readback' = [d \in Displays |-> IF d \in S THEN NoHandle ELSE readback[d]]
    /\ ownLayers' = [d \in Displays |-> IF d \in S THEN {} ELSE ownLayers[d]]
    /\ layerHandles' = [l \in LayerIds |->
            IF \E d \in S : l \in ownLayers[d]
            THEN [c \in LayerCaches |-> NoHandle] ELSE layerHandles[l]]

(* The size of a cache is set once. *)
setDisplayClientTargetCacheSize(d, n) ==
    /\ d \in displays /\ clientTargets[d] = <<>>
    /\ clientTargets' = [clientTargets EXCEPT ![d] = [slot \in 1 .. n |-> NoHandle]]

(* A lookup replaces nothing; otherwise the import h replaces old.  On an  *)
(* error the import is freed again.                                        *)
getDisplayClientTarget(d, slot, useCache, h, target, old, err) ==
    /\ UNCHANGED <<displays, readback, ownLayers, layerHandles>>
    /\ \/ /\ d \notin displays \/ slot \notin DOMAIN clientTargets[d]
          /\ err # "NONE" /\ target = NoHandle /\ old = NoHandle
          /\ UNCHANGED <<clientTargets, live>>
       \/ /\ d \in displays /\ slot \in DOMAIN clientTargets[d]
          /\ err = "NONE"
          /\ IF useCache
             THEN /\ target = clientTargets[d][slot] /\ old = NoHandle
                  /\ UNCHANGED <<clientTargets, live>>
             ELSE /\ target = h /\ old = clientTargets[d][slot]
                  /\ clientTargets' = [clientTargets EXCEPT ![d][slot] = h]
                  /\ Import(h)

-----------------------------------------------------------------------------
(* Registration: the device reports its displays. *)

Serving == client \in {"made", "registered"}
NoCall  == command = Idle /\ adding = Idle /\ removing = Idle

(* Composer::createClient, one client at a time. *)
CreateClient ==
    /\ client = "none"
    /\ client' = "made"
    /\ UNCHANGED <<deviceVars, active, mMustValidateDisplay, mBuffer, resourceVars,
                   callVars, ghostVars>>

(* cleanDisplayResources looks every slot up and hands it to the device:   *)
(* what remains is the last slot of the display, null or not.              *)
cleanDisplayResources(d, buffer) ==
    IF d \in displays /\ clientTargets[d] # <<>> THEN Last(clientTargets[d]) ELSE buffer

(* onHotplug of each display.  A display that is known already is cleaned, *)
(* removed and added again; only a client that registers twice sees that   *)
(* ("we require this function to be called only once").                    *)
registerCallback ==
    /\ Serving /\ NoCall
    /\ client' = "registered"
    /\ mMustValidateDisplay' = TRUE
    /\ mBuffer' = cleanDisplayResources(1, cleanDisplayResources(0, mBuffer))
    /\ stranded' = stranded \cup (mLayers \cap UNION {ownLayers[d] : d \in displays})
    /\ targetState' = IF displays = {} THEN targetState ELSE "cleaned"
    /\ DropDisplays(displays)
    /\ displays' = active
    /\ UNCHANGED <<deviceVars, active, callVars>>

-----------------------------------------------------------------------------
(* The command thread. *)

(* Mutant: the replaced handle is freed before the device is told. *)
mutantReleaseFirst(d, slot, useCache, h, dataspaceKnown) ==
    /\ Serving /\ command = Idle
    /\ \E target, old \in AnyHandle, err \in {"NONE", "BAD_PARAMETER"} :
        /\ d \in displays /\ slot \in DOMAIN clientTargets[d] /\ err = "NONE" /\ ~useCache
        /\ target = h /\ old = clientTargets[d][slot]
        /\ clientTargets' = [clientTargets EXCEPT ![d][slot] = h]
        /\ live' = (live \ {old}) \cup ({h} \ {NoHandle})
        /\ command' = [at |-> "hal", display |-> d, target |-> target,
                       old |-> NoHandle, known |-> dataspaceKnown]
    /\ UNCHANGED <<deviceVars, active, mMustValidateDisplay, mBuffer, client, displays,
                   readback, ownLayers, layerHandles, adding, removing, farewell, ghostVars>>

(* The first step of executeSetClientTarget: the cache. *)
executeSetClientTarget(d, slot, useCache, h, dataspaceKnown) ==
    /\ Serving /\ command = Idle
    /\ useCache => h = NoHandle
    /\ \E target, old \in AnyHandle, err \in {"NONE", "BAD_PARAMETER"} :
        /\ getDisplayClientTarget(d, slot, useCache, h, target, old, err)
        /\ command' = IF err # "NONE" THEN Idle
                      ELSE [at |-> "hal", display |-> d, target |-> target,
                            old |-> old, known |-> dataspaceKnown]
    /\ UNCHANGED <<deviceVars, active, mMustValidateDisplay, mBuffer, client,
                   adding, removing, farewell, ghostVars>>

(* The second step: the device takes the target, but of an unknown         *)
(* dataspace only.                                                         *)
setClientTarget ==
    /\ command.at = "hal"
    /\ command' = [command EXCEPT !.at = "release"]
    /\ IF command.display \in Displays /\ command.known
       THEN mBuffer' = command.target /\ targetState' = "set"
       ELSE targetState' = "refused" /\ UNCHANGED mBuffer
    /\ UNCHANGED <<deviceVars, active, mMustValidateDisplay, client, resourceVars,
                   adding, removing, farewell, stranded>>

(* Mutant: the releaser is not given the replaced handle. *)
mutantReleaseNothing ==
    /\ command.at = "release"
    /\ command' = Idle
    /\ UNCHANGED <<deviceVars, active, mMustValidateDisplay, mBuffer, client,
                   resourceVars, adding, removing, farewell, ghostVars>>

(* The last step: the releaser frees the replaced handle, failure or not. *)
ReleaseReplaced ==
    /\ command.at = "release"
    /\ live' = live \ {command.old}
    /\ command' = Idle
    /\ UNCHANGED <<deviceVars, active, mMustValidateDisplay, mBuffer, client, displays,
                   clientTargets, readback, ownLayers, layerHandles,
                   adding, removing, farewell, ghostVars>>

deviceUnchanged == UNCHANGED <<deviceVars, mMustValidateDisplay>>
restUnchanged   == UNCHANGED <<active, mBuffer, client, resourceVars, callVars,
                               targetState, stranded>>

(* ComposerHal::validateDisplay: the reply is in ComposerCommandEngine. *)
ValidateDisplay(d) ==
    /\ Serving /\ command = Idle
    /\ \E err \in Errors : deviceValidateDisplay(d, err)
    /\ mMustValidateDisplay' = FALSE
    /\ restUnchanged

AcceptDisplayChanges(d) ==
    /\ Serving /\ command = Idle
    /\ \E err \in Errors : deviceAcceptDisplayChanges(d, err)
    /\ restUnchanged /\ UNCHANGED mMustValidateDisplay

(* The device posts mBuffer, whatever layers there are: ClientFrames.      *)
Presented(d) ==
    IF mMustValidateDisplay THEN UNCHANGED deviceVars
    ELSE \E err \in Errors : devicePresentDisplay(d, err)

PresentDisplay(d) ==
    /\ Serving /\ command = Idle
    /\ Presented(d)
    /\ restUnchanged /\ UNCHANGED mMustValidateDisplay

(* executeSetLayerBuffer and executeSetLayerSidebandStream: the device     *)
(* never sees the handle; the one it replaces is freed at the end.  A      *)
(* handle for an unknown display or layer is freed at once.                *)
executeSetLayerHandle(d, layer, cache, h) ==
    /\ Serving /\ command = Idle
    /\ d \in displays /\ layer \in ownLayers[d]
    /\ layerHandles' = [layerHandles EXCEPT ![layer][cache] = h]
    /\ live' = (live \ {layerHandles[layer][cache]}) \cup ({h} \ {NoHandle})
    /\ deviceUnchanged
    /\ UNCHANGED <<active, mBuffer, client, displays, clientTargets, readback, ownLayers,
                   callVars, ghostVars>>

-----------------------------------------------------------------------------
(* The other binder threads. *)

(* Bound: one layer at a time is created or destroyed. *)
OneOtherCall == adding = Idle /\ removing = Idle

setClientTargetSlotCount(d, n) ==
    /\ Serving
    /\ setDisplayClientTargetCacheSize(d, n)
    /\ deviceUnchanged
    /\ UNCHANGED <<active, mBuffer, client, displays, readback, ownLayers, layerHandles,
                   live, callVars, ghostVars>>

(* The readback buffer is cached and never used. *)
setReadbackBuffer(d, h) ==
    /\ Serving
    /\ d \in displays
    /\ readback' = [readback EXCEPT ![d] = h]
    /\ live' = (live \ {readback[d]}) \cup ({h} \ {NoHandle})
    /\ deviceUnchanged
    /\ UNCHANGED <<active, mBuffer, client, displays, clientTargets, ownLayers,
                   layerHandles, callVars, ghostVars>>

CreateLayer(d) ==
    /\ Serving /\ OneOtherCall
    /\ \E err \in Errors : deviceCreateLayer(d, err)
    /\ adding' = [at |-> "add", display |-> d, layer |-> mNextLayerId']
    /\ UNCHANGED <<mMustValidateDisplay, active, mBuffer, client, resourceVars,
                   command, removing, farewell, ghostVars>>

(* A layer the resources refuse is not destroyed again, and its id is not  *)
(* given to the client.                                                    *)
AddLayer ==
    /\ adding.at = "add"
    /\ adding' = Idle
    /\ IF adding.display \in displays
       THEN /\ ownLayers' = [ownLayers EXCEPT ![adding.display] = @ \cup {adding.layer}]
            /\ UNCHANGED stranded
       ELSE stranded' = stranded \cup {adding.layer} /\ UNCHANGED ownLayers
    /\ deviceUnchanged
    /\ UNCHANGED <<active, mBuffer, client, displays, clientTargets, readback, layerHandles,
                   live, command, removing, farewell, targetState>>

DestroyLayer(d, layer) ==
    /\ Serving /\ OneOtherCall
    /\ \E err \in Errors :
        /\ deviceDestroyLayer(d, layer, err)
        /\ removing' = IF err = "NONE" THEN [at |-> "remove", display |-> d, layer |-> layer]
                                       ELSE Idle
    /\ UNCHANGED <<mMustValidateDisplay, active, mBuffer, client, resourceVars,
                   command, adding, farewell, ghostVars>>

(* A layer of another display is unknown here: it stays in that display's  *)
(* resources, although the device destroyed it.                            *)
RemoveLayer ==
    /\ removing.at = "remove"
    /\ removing' = Idle
    /\ LET d == removing.display  l == removing.layer IN
        IF l \in ownLayers[d]
        THEN /\ ownLayers' = [ownLayers EXCEPT ![d] = @ \ {l}]
             /\ live' = live \ HandlesOfLayer(l)
             /\ layerHandles' = [layerHandles EXCEPT ![l] = [c \in LayerCaches |-> NoHandle]]
        ELSE UNCHANGED <<ownLayers, live, layerHandles>>
    /\ deviceUnchanged
    /\ UNCHANGED <<active, mBuffer, client, displays, clientTargets, readback,
                   command, adding, farewell, ghostVars>>

-----------------------------------------------------------------------------
(* The destructor.  No call is under way: each holds a reference. *)

farewellUnchanged == UNCHANGED <<active, mBuffer, client, resourceVars, command, adding,
                                 removing, targetState, stranded>>

(* The next display, lowest first, or the end. *)
FarewellTo(S) ==
    IF S = {} THEN [at |-> "free"]
    ELSE [at |-> "layers", display |-> Min(S), layers |-> ownLayers[Min(S)],
          rest |-> S \ {Min(S)}]

DropClient ==
    /\ Serving /\ NoCall
    /\ client' = "destroying"
    /\ farewell' = FarewellTo(displays)
    /\ deviceUnchanged
    /\ UNCHANGED <<active, mBuffer, resourceVars, command, adding, removing, ghostVars>>

(* A layer the device no longer has is BAD_LAYER, which is ignored. *)
DestroyOwnLayer ==
    /\ farewell.at = "layers" /\ farewell.layers # {}
    /\ \E err \in Errors : deviceDestroyLayer(farewell.display, Min(farewell.layers), err)
    /\ farewell' = [farewell EXCEPT !.layers = @ \ {Min(@)}]
    /\ farewellUnchanged /\ UNCHANGED mMustValidateDisplay

(* Mutant: layers are dropped with the resources only. *)
mutantFinalValidate ==
    /\ farewell.at = "layers"
    /\ \E err \in Errors : deviceValidateDisplay(farewell.display, err)
    /\ mMustValidateDisplay' = FALSE
    /\ farewell' = [farewell EXCEPT !.at = "accept"]
    /\ farewellUnchanged

FinalValidate ==
    /\ farewell.at = "layers" /\ farewell.layers = {}
    /\ \E err \in Errors : deviceValidateDisplay(farewell.display, err)
    /\ mMustValidateDisplay' = FALSE
    /\ farewell' = [farewell EXCEPT !.at = "accept"]
    /\ farewellUnchanged

(* Mutant: the changes are not accepted before the final present. *)
mutantFinalAccept ==
    /\ farewell.at = "accept"
    /\ farewell' = [farewell EXCEPT !.at = "present"]
    /\ deviceUnchanged /\ farewellUnchanged

FinalAccept ==
    /\ farewell.at = "accept"
    /\ \E err \in Errors : deviceAcceptDisplayChanges(farewell.display, err)
    /\ farewell' = [farewell EXCEPT !.at = "present"]
    /\ farewellUnchanged /\ UNCHANGED mMustValidateDisplay

FinalPresent ==
    /\ farewell.at = "present"
    /\ Presented(farewell.display)
    /\ farewell' = FarewellTo(farewell.rest)
    /\ farewellUnchanged /\ UNCHANGED mMustValidateDisplay

(* The resources go; mBuffer keeps pointing at what they held. *)
FreeResources ==
    /\ farewell.at = "free"
    /\ farewell' = Idle
    /\ client' = "none"
    /\ targetState' = "none"
    /\ DropDisplays(displays)
    /\ displays' = {}
    /\ deviceUnchanged
    /\ UNCHANGED <<active, mBuffer, command, adding, removing, stranded>>

Farewell ==
    DropClient \/ DestroyOwnLayer \/ FinalValidate \/ FinalAccept \/ FinalPresent \/ FreeResources

Commands ==
    \/ \E d \in Displays :
        \/ ValidateDisplay(d) \/ AcceptDisplayChanges(d) \/ PresentDisplay(d)
        \/ \E slot \in 1 .. Max(SlotCounts), useCache, known \in BOOLEAN, h \in Imports :
                executeSetClientTarget(d, slot, useCache, h, known)
        \/ \E layer \in LayerIds, h \in Imports :
                \E cache \in LayerCaches : executeSetLayerHandle(d, layer, cache, h)
    \/ setClientTarget
    \/ ReleaseReplaced

OtherCalls ==
    \/ \E d \in Displays :
        \/ \E n \in SlotCounts : setClientTargetSlotCount(d, n)
        \/ \E h \in Imports : setReadbackBuffer(d, h)
        \/ CreateLayer(d)
        \/ \E layer \in LayerIds : DestroyLayer(d, layer)
    \/ AddLayer
    \/ RemoveLayer

Next == CreateClient \/ registerCallback \/ Commands \/ OtherCalls \/ Farewell

Spec == Init /\ [][Next]_vars

-----------------------------------------------------------------------------
(* The device posts what mBuffer points to, and the cache owns it: as long *)
(* as the client's last client target was not refused, mBuffer is a handle *)
(* that is still imported or null, also between replacing a slot and       *)
(* telling the device, and whatever other slots and displays cache.        *)
TargetIsLive == targetState = "set" => mBuffer \in live \cup {NoHandle}

(* The caches and releasers that will free handle h. *)
OwnersOf(h) ==
    Cardinality({s \in Displays \X (1 .. Max(SlotCounts)) :
                    s[2] \in DOMAIN clientTargets[s[1]] /\ clientTargets[s[1]][s[2]] = h})
    + Cardinality({d \in Displays : readback[d] = h})
    + Cardinality({c \in (UNION {ownLayers[d] : d \in Displays}) \X LayerCaches :
                    layerHandles[c[1]][c[2]] = h})
    + (IF command # Idle /\ command.old = h THEN 1 ELSE 0)

(* Every imported handle has exactly one owner that will free it, and one  *)
(* that was freed has none: no handle leaks its buffer when slots are      *)
(* replaced, layers destroyed or displays added again, none is freed twice.*)
HandlesAccounted == \A h \in Handles : OwnersOf(h) = (IF h \in live THEN 1 ELSE 0)

(* A layer of the device belongs to the resources of the client, or is on  *)
(* its way there, or was stranded by a call that failed half way: a client *)
(* that goes, whatever its calls did, leaves no other layer behind.        *)
LayersAreOwned ==
    mLayers \subseteq (UNION {ownLayers[d] : d \in Displays}) \cup stranded
                        \cup (IF adding = Idle THEN {} ELSE {adding.layer})

(* The destructor's last present of a display is never refused, whatever   *)
(* the client left half done and the layers it stranded: the device has    *)
(* been validated for it, changes are accepted, the need to validate that  *)
(* a registration sets is met, and no layer of the client is left on that  *)
(* display.  Nobody looks at the results of the three calls before it.     *)
FinalPresentIsTaken ==
    farewell.at = "present" =>
        /\ mState = "VALIDATED" /\ ~mMustValidateDisplay
        /\ mDirtyLayers = {}
        /\ mLayers \cap ownLayers[farewell.display] = {}

=============================================================================
