----------------------------- MODULE Kms_proofs -----------------------------
(***************************************************************************)
(* Proofs of the safety properties of KmsOutput, for any buffers, frames   *)
(* and failures, and of KmsSetup, for any number of CRTCs and any card.    *)
(***************************************************************************)
EXTENDS KmsOutput, KmsSetup, FiniteSetTheorems, TLAPS

(* A flip is queued only on a CRTC that is on, and a flag that is clear    *)
(* while the CRTC is off is the trace of a failure no post has met yet.    *)
FlagFollowsMode ==
    \A d \in Displays :
       /\ pending[d] # 0 => d \in enabled
       /\ (~first_post[d] /\ d \notin enabled) => faults[d] # 0

(* What holds of one display besides the properties: frames reach it in    *)
(* order, and the mode of a CRTC that is off was paid for by a failure.    *)
DisplayInv(d) ==
    /\ shown[d] <= frame
    /\ pending[d] # 0 => shown[d] <= pending[d] /\ pending[d] <= frame
    /\ fence[d] <= frame
    /\ modesets[d] <= faults[d] + (IF ~first_post[d] /\ d \in enabled THEN 1 ELSE 0)

(* A handle that has a framebuffer accounts for one of those created. *)
HandleInv(b) ==
    /\ fbs[b] <= imports[b]
    /\ b \notin hasFb => fbs[b] < imports[b]

IInv ==
    /\ TypeOK
    /\ FenceIsHonest
    /\ FlagFollowsMode
    /\ \A d \in Displays : DisplayInv(d)
    /\ \A b \in Buffers : HandleInv(b)

-----------------------------------------------------------------------------
(* The initial states satisfy the inductive invariant. *)
LEMMA InitIInv == Init => IInv
  BY OutputAssumption
  DEF Init, IInv, TypeOK, FenceIsHonest, FlagFollowsMode, DisplayInv, HandleInv,
      Displays

(* A posted buffer has a framebuffer, created now if its handle had none:  *)
(* add_fb keeps the count of framebuffers within that of the handles.      *)
LEMMA AddFbKeepsCount ==
  ASSUME IInv, NEW b \in Buffers, add_fb(b), UNCHANGED imports
  PROVE  /\ hasFb' \subseteq Buffers
         /\ fbs' \in [Buffers -> 0 .. MaxImports]
         /\ \A c \in Buffers : HandleInv(c)'
  BY OutputAssumption DEF IInv, TypeOK, HandleInv, add_fb

(* Every step preserves the inductive invariant. *)
LEMMA NextIInv == IInv /\ [Next]_vars => IInv'
<1> SUFFICES ASSUME IInv, [Next]_vars PROVE IInv'
  OBVIOUS
<1> USE OutputAssumption
<1> DEFINE Goal == IInv'
<1>1. ASSUME NEW b \in Buffers, SetClientTarget(b) PROVE Goal
  BY <1>1 DEF SetClientTarget, kernelVars, IInv, TypeOK, FenceIsHonest,
              FlagFollowsMode, DisplayInv, HandleInv, Displays
<1>2. ASSUME NEW b \in Buffers, Reimport(b) PROVE Goal
  BY <1>2 DEF Reimport, kernelVars, IInv, TypeOK, FenceIsHonest,
              FlagFollowsMode, DisplayInv, HandleInv, Displays
<1>3. ASSUME NEW d \in Displays, AddFbFails(d) PROVE Goal
  BY <1>3 DEF AddFbFails, Fault, IInv, TypeOK, FenceIsHonest,
              FlagFollowsMode, DisplayInv, HandleInv, Displays
<1>4. ASSUME NEW d \in Displays, PostNothing(d) PROVE Goal
  BY <1>4 DEF PostNothing, kernelVars, IInv, TypeOK, FenceIsHonest,
              FlagFollowsMode, DisplayInv, HandleInv, Displays
<1>5. ASSUME NEW d \in Displays, PostWithMode(d) PROVE Goal
  <2>1. mBuffer \in Buffers /\ UNCHANGED <<mBuffer, frame, imports, fits>>
    BY <1>5 DEF PostWithMode, IInv, TypeOK
  <2>2. /\ hasFb' \subseteq Buffers
        /\ fbs' \in [Buffers -> 0 .. MaxImports]
        /\ \A c \in Buffers : HandleInv(c)'
    BY <1>5, <2>1, AddFbKeepsCount DEF PostWithMode
  <2>3. CASE SetCrtcSucceeds(d) /\ first_post' = flagAfterSetCrtc(d, TRUE)
    <3>1. /\ first_post' = [first_post EXCEPT ![d] = FALSE]
          /\ fence' = [fence EXCEPT ![d] = 0]
      BY <1>5, <2>3 DEF PostWithMode, flagAfterSetCrtc
    <3>2. TypeOK'
      <4>1. frame \in 0 .. MaxFrames /\ 0 \in 0 .. MaxFrames
        BY DEF IInv, TypeOK
      <4>2. /\ shown' \in [Displays -> 0 .. MaxFrames]
            /\ pending' \in [Displays -> 0 .. MaxFrames]
            /\ fence' \in [Displays -> 0 .. MaxFrames]
        BY <2>3, <3>1, <4>1 DEF SetCrtcSucceeds, IInv, TypeOK
      <4>3. modesets' \in [Displays -> Nat] /\ enabled' \subseteq Displays
        BY <2>3 DEF SetCrtcSucceeds, IInv, TypeOK
      <4>5. first_post' \in [Displays -> BOOLEAN]
        BY <3>1 DEF IInv, TypeOK
      <4>4. /\ mBuffer' \in Buffers \cup {null} /\ frame' \in 0 .. MaxFrames
            /\ imports' \in [Buffers -> 1 .. MaxImports] /\ fits' \subseteq Displays
            /\ faults' \in [Displays -> 0 .. MaxFaults]
        BY <2>1, <2>3 DEF SetCrtcSucceeds, IInv, TypeOK
      <4> QED
        BY <2>2, <4>2, <4>3, <4>4, <4>5 DEF TypeOK
    <3>3. FenceIsHonest'
      BY <2>3, <3>1 DEF SetCrtcSucceeds, IInv, TypeOK, FenceIsHonest, Displays
    <3>5. FlagFollowsMode'
      BY <2>3, <3>1 DEF SetCrtcSucceeds, IInv, TypeOK, FlagFollowsMode, Displays
    <3>4. ASSUME NEW e \in Displays PROVE DisplayInv(e)'
      <4>1. first_post[d] /\ DisplayInv(e)
        BY <1>5 DEF PostWithMode, IInv
      <4>2. CASE e = d
        <5>1. modesets[d] <= faults[d]
          BY <4>1, <4>2 DEF IInv, TypeOK, DisplayInv
        <5>2. /\ shown'[d] = frame' /\ pending'[d] = 0 /\ fence'[d] = 0
              /\ modesets'[d] = modesets[d] + 1 /\ faults' = faults
              /\ ~first_post'[d] /\ d \in enabled' /\ frame' = frame
          BY <2>1, <2>3, <3>1 DEF SetCrtcSucceeds, IInv, TypeOK
        <5> QED
          BY <4>2, <5>1, <5>2 DEF IInv, TypeOK, DisplayInv
      <4>3. CASE e # d
        BY <2>1, <2>3, <3>1, <4>1, <4>3 DEF SetCrtcSucceeds, IInv, TypeOK, DisplayInv
      <4> QED BY <4>2, <4>3
    <3> QED BY <2>2, <3>2, <3>3, <3>5, <3>4 DEF IInv
  <2>4. CASE SetCrtcFails(d) /\ first_post' = flagAfterSetCrtc(d, FALSE)
    BY <1>5, <2>1, <2>2, <2>4
    DEF PostWithMode, SetCrtcFails, Fault, flagAfterSetCrtc, IInv, TypeOK,
        FenceIsHonest, FlagFollowsMode, DisplayInv, Displays
  <2> QED BY <1>5, <2>3, <2>4 DEF PostWithMode
<1>6. ASSUME NEW d \in Displays, PostFlip(d) PROVE Goal
  <2>1. /\ mBuffer \in Buffers
        /\ UNCHANGED <<mBuffer, frame, imports, fits, enabled, shown, modesets>>
    BY <1>6 DEF PostFlip, IInv, TypeOK
  <2>2. /\ hasFb' \subseteq Buffers
        /\ fbs' \in [Buffers -> 0 .. MaxImports]
        /\ \A c \in Buffers : HandleInv(c)'
    BY <1>6, <2>1, AddFbKeepsCount DEF PostFlip
  <2>3. CASE /\ pending[d] # 0
             /\ first_post' = flagAfterFailure(d, "EBUSY")
             /\ fence' = fenceAfterCommit(d, FALSE)
             /\ UNCHANGED <<pending, faults>>
    BY <2>1, <2>2, <2>3
    DEF flagAfterFailure, fenceAfterCommit, IInv, TypeOK,
        FenceIsHonest, FlagFollowsMode, DisplayInv, Displays
  <2>4. CASE /\ pending[d] = 0 /\ d \in enabled
             /\ pending' = [pending EXCEPT ![d] = frame]
             /\ fence' = fenceAfterCommit(d, TRUE)
             /\ UNCHANGED <<first_post, faults>>
    BY <2>1, <2>2, <2>4
    DEF fenceAfterCommit, IInv, TypeOK,
        FenceIsHonest, FlagFollowsMode, DisplayInv, Displays
  <2>5. CASE /\ pending[d] = 0
             /\ IF d \in enabled THEN Fault(d) ELSE UNCHANGED faults
             /\ first_post' = flagAfterFailure(d, "EINVAL")
             /\ fence' = fenceAfterCommit(d, FALSE)
             /\ UNCHANGED pending
    BY <2>1, <2>2, <2>5
    DEF Fault, flagAfterFailure, fenceAfterCommit, IInv, TypeOK,
        FenceIsHonest, FlagFollowsMode, DisplayInv, Displays
  <2> QED BY <1>6, <2>3, <2>4, <2>5 DEF PostFlip
<1>7. ASSUME NEW d \in Displays, FlipDone(d) PROVE Goal
  BY <1>7 DEF FlipDone, hwcVars, IInv, TypeOK, FenceIsHonest,
              FlagFollowsMode, DisplayInv, HandleInv, Displays
<1>8. ASSUME NEW d \in Displays, LoseMode(d) PROVE Goal
  BY <1>8 DEF LoseMode, Fault, hwcVars, IInv, TypeOK, FenceIsHonest,
              FlagFollowsMode, DisplayInv, HandleInv, Displays
<1>9. CASE UNCHANGED vars
  BY <1>9 DEF vars, hwcVars, kernelVars, IInv, TypeOK, FenceIsHonest,
              FlagFollowsMode, DisplayInv, HandleInv
<1> QED
  BY <1>1, <1>2, <1>3, <1>4, <1>5, <1>6, <1>7, <1>8, <1>9
  DEF Next, PresentDisplay

(* The inductive invariant holds in every reachable state. *)
THEOREM Invariance == Spec => []IInv
  BY InitIInv, NextIInv, PTL DEF Spec

(* The variables keep their types. *)
THEOREM TypeCorrect == Spec => []TypeOK
<1>1. IInv => TypeOK
  BY DEF IInv
<1> QED BY <1>1, Invariance, PTL

(* A present fence always stands for a frame that is queued or shown, so   *)
(* nobody waits on the fence of a frame that was dropped.                  *)
THEOREM FencesAreHonest == Spec => []FenceIsHonest
<1>1. IInv => FenceIsHonest
  BY DEF IInv
<1> QED BY <1>1, Invariance, PTL

(* The mode of a display is set again only to recover from a failure. *)
THEOREM NoNeedlessModeset == Spec => []ModesetsOnlyAfterFailures
<1>1. IInv => ModesetsOnlyAfterFailures
  BY DEF IInv, TypeOK, DisplayInv, ModesetsOnlyAfterFailures, Displays
<1> QED BY <1>1, Invariance, PTL

(* Framebuffers are created per handle, however many frames are posted. *)
THEOREM FramebuffersAreBounded == Spec => []OneFramebufferPerHandle
<1>1. IInv => OneFramebufferPerHandle
  BY DEF IInv, HandleInv, OneFramebufferPerHandle
<1> QED BY <1>1, Invariance, PTL

-----------------------------------------------------------------------------
(* KmsSetup.  Smallest elements and the first match in a table. *)

LEMMA MinIs ==
    ASSUME NEW S \in SUBSET Nat, S # {}
    PROVE  Min(S) \in S /\ \A n \in S : Min(S) <= n
<1>1. \E m \in S : \A n \in S : ~ (<<n, m>> \in OpToRel(<, Nat))
  BY NatLessThanWellFounded, WFMin
<1>2. \A n, m \in Nat : <<n, m>> \in OpToRel(<, Nat) <=> n < m
  BY DEF OpToRel
<1>3. \A n, m \in Nat : ~ (n < m) => m <= n
  OBVIOUS
<1>4. \E m \in S : \A n \in S : m <= n
  BY <1>1, <1>2, <1>3
<1> QED
  BY <1>4 DEF Min

LEMMA FirstIs ==
    ASSUME NEW S \in SUBSET (Nat \ {0})
    PROVE  /\ S = {} <=> FirstOf(S) = 0
           /\ S # {} => FirstOf(S) \in S /\ \A n \in S : FirstOf(S) <= n
BY MinIs DEF FirstOf

(* The tables of a card. *)
Modes == [h : Nat, v : Nat, rate : Nat, preferred : BOOLEAN, clock : Nat]
ConnectorEntries ==
    [readable : BOOLEAN, hdmi : BOOLEAN, connection : STRING, hasEncoder : BOOLEAN,
     possible : SUBSET (1 .. 32), modes : Seq(Modes)]
PlaneEntries == [readable : BOOLEAN, primary : BOOLEAN, possible : SUBSET (1 .. 32)]

LEMMA TablesAre ==
    ASSUME card \in Cards
    PROVE  /\ card.connectors \in Seq(ConnectorEntries) /\ card.planes \in Seq(PlaneEntries)
           /\ Connectors = 1 .. Len(card.connectors) /\ Len(card.connectors) \in Nat
           /\ DOMAIN card.planes = 1 .. Len(card.planes) /\ Len(card.planes) \in Nat
<1>1. card.connectors \in Seq(ConnectorEntries) /\ card.planes \in Seq(PlaneEntries)
  BY KmsAssumption DEF ConnectorEntries, PlaneEntries, Modes
<1> QED
  BY <1>1 DEF Connectors

(* The first readable primary plane of a CRTC. *)
PlanesOf(k) ==
    {p \in DOMAIN card.planes :
        card.planes[p].readable /\ k \in card.planes[p].possible /\ card.planes[p].primary}

LEMMA PlaneIs ==
    ASSUME card \in Cards, NEW k
    PROVE  /\ primaryPlane(k) = FirstOf(PlanesOf(k))
           /\ primaryPlane(k) \in 0 .. Len(card.planes)
           /\ primaryPlane(k) # 0 => primaryPlane(k) \in PlanesOf(k)
           /\ primaryPlane(k) = 0 => PlanesOf(k) = {}
<1>1. primaryPlane(k) = FirstOf(PlanesOf(k))
  BY TablesAre DEF primaryPlane, SelectInSeq, PlanesOf, FirstOf
<1>2. PlanesOf(k) \subseteq 1 .. Len(card.planes) /\ PlanesOf(k) \in SUBSET (Nat \ {0})
  BY TablesAre DEF PlanesOf
<1> QED
  BY <1>1, <1>2, FirstIs, TablesAre

-----------------------------------------------------------------------------
(* The inductive invariant of the set-up. *)

SetupTyped ==
    /\ card \in Cards
    /\ SetupTypeOK
    /\ outputs = [d \in Outputs |-> outputs[d]]

(* What init_with_connector gave a driven output. *)
Assigned(d) ==
    LET o == outputs[d] IN
    /\ o.crtc \in Crtcs
    /\ o.connector \in Connectors
    /\ o.crtc \in card.connectors[o.connector].possible
    /\ o.plane = FirstOf(PlanesOf(o.crtc))

(* No two outputs were given the same, because the bits say what is taken. *)
AssignedInv ==
    /\ \A d \in driven : Assigned(d)
    /\ pc # "crashed" => usedCrtcs \cap Crtcs = {outputs[d].crtc : d \in driven}
    /\ driven = Outputs =>
        outputs[0].crtc # outputs[1].crtc /\ outputs[0].connector # outputs[1].connector

FirstHdmi  == FirstOf(HdmiConnected)
SecondHdmi == FirstOf(HdmiConnected \ {FirstHdmi})

(* With an HDMI connector connected the fallback is never entered. *)
HdmiInv ==
    HdmiConnected # {} =>
        /\ 0 \in driven => outputs[0].connector = FirstHdmi
        /\ 1 \in driven => SecondHdmi # 0 /\ outputs[1].connector = SecondHdmi
        /\ pc \in {"secondary", "fallback", "up"} => active[0] = 1
        /\ pc = "secondary" => primary_connector = FirstHdmi

Candidates == {c \in Connectors : Connected(c) /\ Usable(c)}
Readable   == {c \in Connectors : card.connectors[c].readable}

(* The loop has passed over no candidate, and keeps the last it could read.*)
LoopInv ==
    /\ \A c \in Candidates : i <= c
    /\ IF lastValid = 0 THEN \A c \in Readable : i <= c
       ELSE lastValid \in Readable /\ \A c \in Readable : c <= lastValid \/ i <= c

FallbackInv ==
    HdmiConnected = {} =>
        /\ 1 \notin driven
        /\ pc # "secondary"
        /\ pc = "fallback" => driven = {} /\ LoopInv
        /\ pc = "up" /\ active[0] = 0 =>
            IF Candidates # {}
            THEN 0 \in driven /\ outputs[0].connector = Min(Candidates)
            ELSE 0 \in driven => outputs[0].connector = Max(Readable)

OrderInv ==
    /\ pc \in {"caps", "primary"} => driven = {}
    /\ pc = "secondary" => driven \subseteq {0}
    /\ pc \in {"caps", "primary", "secondary"} => i = 1 /\ lastValid = 0

SetupInv == SetupTyped /\ AssignedInv /\ HdmiInv /\ FallbackInv /\ OrderInv

LEMMA HdmiIs ==
    ASSUME card \in Cards
    PROVE  /\ HdmiConnected \in SUBSET (Nat \ {0}) /\ HdmiConnected \subseteq Connectors
           /\ HdmiConnected # {} => FirstHdmi \in HdmiConnected
           /\ SecondHdmi # 0 => SecondHdmi \in HdmiConnected /\ SecondHdmi # FirstHdmi
<1>1. HdmiConnected \in SUBSET (Nat \ {0}) /\ HdmiConnected \subseteq Connectors
  BY TablesAre DEF HdmiConnected
<1>2. HdmiConnected \ {FirstHdmi} \in SUBSET (Nat \ {0})
  BY <1>1
<1> QED
  BY <1>1, <1>2, FirstIs DEF FirstHdmi, SecondHdmi

LEMMA SetupInitInv == SetupInit => SetupInv
<1> SUFFICES ASSUME SetupInit PROVE SetupInv
  OBVIOUS
<1>1. Len(card.connectors) \in Nat /\ Len(card.planes) \in Nat
  BY TablesAre DEF SetupInit
<1>2. SetupTyped
  BY <1>1, KmsAssumption DEF SetupInit, SetupTyped, SetupTypeOK, NoOutput
<1>3. AssignedInv /\ HdmiInv /\ FallbackInv /\ OrderInv
  BY DEF SetupInit, AssignedInv, HdmiInv, FallbackInv, OrderInv, Outputs
<1> QED
  BY <1>2, <1>3 DEF SetupInv

(* What depends on the card alone is what it was. *)
LEMMA SameCard ==
    ASSUME UNCHANGED card
    PROVE  UNCHANGED <<Connectors, HdmiConnected, FirstHdmi, SecondHdmi, Candidates, Readable>>
BY DEF Connectors, HdmiConnected, Connected, FirstHdmi, SecondHdmi, Candidates, Usable, Readable

(* And what the displays were given is what it was.                        *)
LEMMA SameOutputs ==
    ASSUME AssignedInv, pc # "crashed" \/ pc' = "crashed",
           UNCHANGED <<card, outputs, driven, usedCrtcs>>
    PROVE  AssignedInv'
<1>1. ASSUME NEW d, Assigned(d)
      PROVE  Assigned(d)'
  BY <1>1 DEF Assigned, Connectors, PlanesOf
<1>2. \A d \in driven : Assigned(d)'
  BY <1>1 DEF AssignedInv
<1> QED
  BY <1>2 DEF AssignedInv

(* init_with_connector takes a free CRTC of the connector, or none; it     *)
(* fails without crashing on a connector that is not usable only, or when  *)
(* its CRTCs are taken.                                                    *)
LEMMA InitWithConnector ==
    ASSUME SetupInv, pc # "crashed", NEW d \in Outputs \ driven, NEW c \in Connectors,
           NEW ret \in Returns, init_with_connector(d, c, ret), UNCHANGED card,
           \A e \in driven : outputs[e].connector # c
    PROVE  /\ ret = "0" =>
                /\ driven' = driven \cup {d}
                /\ outputs'[d].connector = c
                /\ Usable(c)
           /\ ret # "0" => UNCHANGED <<driven, outputs>>
           /\ ret = "EINVAL" => ~Usable(c) \/ driven # {}
           /\ \A e \in Outputs \ {d} : outputs'[e] = outputs[e]
           /\ outputs' = [e \in Outputs |-> outputs'[e]]
           /\ usedCrtcs' \subseteq 1 .. NumCrtcs + 1
           /\ driven' \subseteq Outputs
           /\ \A e \in Outputs :
                /\ outputs'[e].crtc \in 0 .. NumCrtcs
                /\ outputs'[e].plane \in 0 .. Len(card.planes)
                /\ outputs'[e].connector \in 0 .. Len(card.connectors)
           /\ (ret = "SIGSEGV" => pc' = "crashed") => AssignedInv'
<1> DEFINE con == card.connectors[c]
           k   == freeCrtc(con)
           free == {j \in Crtcs : j \in con.possible /\ j \notin usedCrtcs}
<1>1. /\ card \in Cards /\ SetupTypeOK /\ outputs = [e \in Outputs |-> outputs[e]]
      /\ \A e \in driven : Assigned(e)
      /\ usedCrtcs \cap Crtcs = {outputs[e].crtc : e \in driven}
      /\ driven = Outputs => outputs[0].crtc # outputs[1].crtc
  BY DEF SetupInv, SetupTyped, AssignedInv
<1>2. /\ NumCrtcs \in Nat /\ Len(card.planes) \in Nat
      /\ Connectors = 1 .. Len(card.connectors) /\ Len(card.connectors) \in Nat
  BY <1>1, KmsAssumption, TablesAre
<1>3. k = 0 <=> free = {}
  BY <1>2, FirstIs DEF freeCrtc, Crtcs
<1>4. k # 0 => k \in free
  BY <1>2, FirstIs, SMTT(30) DEF freeCrtc, Crtcs
<1> HIDE DEF k
<1>5. CASE ret # "0" /\ UNCHANGED <<outputs, driven>>
  <2>1. usedCrtcs' = usedCrtcs \/ usedCrtcs' = usedCrtcs \cup {bitToMark(k)}
    BY <1>5 DEF init_with_connector, k
  <2>2. usedCrtcs' \subseteq 1 .. NumCrtcs + 1
    BY <1>1, <1>2, <1>4, <2>1 DEF SetupTypeOK, bitToMark, Crtcs
  <2>3. ret = "EINVAL" => ~con.hasEncoder \/ k = 0
    BY DEF init_with_connector, k
  <2>4. ret = "EINVAL" => usedCrtcs' \cap Crtcs = usedCrtcs \cap Crtcs
    <3>1. ret = "EINVAL" => usedCrtcs' = usedCrtcs \/ usedCrtcs' = usedCrtcs \cup {NumCrtcs + 1}
      BY <2>1, <2>3 DEF init_with_connector, bitToMark, k
    <3>2. NumCrtcs + 1 \notin Crtcs
      BY <1>2 DEF Crtcs
    <3> QED
      BY <3>1, <3>2
  <2>5. ret = "EINVAL" => ~Usable(c) \/ driven # {}
    <3>1. con.hasEncoder /\ free = {} /\ driven = {} => con.possible \cap Crtcs = {}
      BY <1>1
    <3> QED
      BY <1>3, <2>3, <3>1 DEF Usable
  <2>6. (ret = "SIGSEGV" => pc' = "crashed") => AssignedInv'
    <3>1. \A e \in driven : Assigned(e)'
      BY <1>1, <1>5 DEF Assigned, Connectors, PlanesOf
    <3>2. ret \in {"EINVAL", "SIGSEGV"}
      BY <1>5 DEF Returns
    <3> QED
      BY <1>1, <1>5, <2>4, <3>1, <3>2 DEF AssignedInv, SetupInv
  <2> QED
    BY <1>1, <1>5, <2>2, <2>5, <2>6 DEF SetupTypeOK
<1>6. ASSUME ret = "0",
             con.hasEncoder, k # 0, usedCrtcs' = usedCrtcs \cup {bitToMark(k)},
             driven' = driven \cup {d},
             NEW m, outputs' = [outputs EXCEPT ![d] =
                        [crtc |-> k, plane |-> primaryPlane(k), connector |-> c, mode |-> m]]
      PROVE  /\ Usable(c) /\ outputs'[d].connector = c
             /\ \A e \in Outputs \ {d} : outputs'[e] = outputs[e]
             /\ outputs' = [e \in Outputs |-> outputs'[e]]
             /\ usedCrtcs' \subseteq 1 .. NumCrtcs + 1
             /\ \A e \in Outputs :
                /\ outputs'[e].crtc \in 0 .. NumCrtcs
                /\ outputs'[e].plane \in 0 .. Len(card.planes)
                /\ outputs'[e].connector \in 0 .. Len(card.connectors)
             /\ AssignedInv'
  <2>1. k \in Crtcs /\ k \in con.possible /\ k \notin usedCrtcs
    BY <1>4, <1>6
  <2>2. /\ outputs'[d].crtc = k /\ outputs'[d].plane = FirstOf(PlanesOf(k))
        /\ outputs'[d].connector = c
        /\ \A e \in Outputs \ {d} : outputs'[e] = outputs[e]
        /\ outputs' = [e \in Outputs |-> outputs'[e]]
    BY <1>1, <1>6, PlaneIs
  <2>3. Usable(c)
    BY <1>6, <2>1 DEF Usable
  <2>4. usedCrtcs' = usedCrtcs \cup {k} /\ usedCrtcs' \subseteq 1 .. NumCrtcs + 1
    BY <1>1, <1>2, <1>6, <2>1 DEF bitToMark, SetupTypeOK, Crtcs
  <2>5. FirstOf(PlanesOf(k)) \in 0 .. Len(card.planes)
    BY <1>1, PlaneIs
  <2>6. \A e \in Outputs :
            /\ outputs'[e].crtc \in 0 .. NumCrtcs
            /\ outputs'[e].plane \in 0 .. Len(card.planes)
            /\ outputs'[e].connector \in 0 .. Len(card.connectors)
    <3>1. k \in 0 .. NumCrtcs /\ c \in 0 .. Len(card.connectors)
      BY <1>2, <2>1 DEF Crtcs
    <3>2. \A e \in Outputs :
            /\ outputs[e].crtc \in 0 .. NumCrtcs
            /\ outputs[e].plane \in 0 .. Len(card.planes)
            /\ outputs[e].connector \in 0 .. Len(card.connectors)
      BY <1>1 DEF SetupTypeOK
    <3> QED
      BY <2>2, <2>5, <3>1, <3>2
  <2>7. \A e \in driven' : Assigned(e)'
    <3>1. Assigned(d)'
      BY <1>2, <2>1, <2>2 DEF Assigned, Connectors, PlanesOf
    <3>2. \A e \in driven : e # d /\ e \in Outputs
      BY <1>1 DEF SetupTypeOK
    <3>3. ASSUME NEW e \in driven
          PROVE  Assigned(e)'
      <4>1. outputs'[e] = outputs[e] /\ Assigned(e)
        BY <1>1, <2>2, <3>2
      <4> QED
        BY <4>1 DEF Assigned, Connectors, PlanesOf
    <3> QED
      BY <1>6, <3>1, <3>3
  <2>8. usedCrtcs' \cap Crtcs = {outputs'[e].crtc : e \in driven'}
    <3>1. \A e \in driven : outputs'[e].crtc = outputs[e].crtc
      BY <1>1, <2>2 DEF SetupTypeOK
    <3>2. {outputs'[e].crtc : e \in driven'} = {outputs[e].crtc : e \in driven} \cup {k}
      BY <1>6, <2>2, <3>1
    <3> QED
      BY <1>1, <2>1, <2>4, <3>2
  <2>9. driven' = Outputs =>
            outputs'[0].crtc # outputs'[1].crtc /\ outputs'[0].connector # outputs'[1].connector
    <3>1. \A e \in driven : outputs'[e].crtc # k /\ outputs'[e].connector # c
      BY <1>1, <2>1, <2>2, ZenonT(40) DEF SetupTypeOK
    <3> QED
      BY <1>6, <2>2, <3>1 DEF Outputs
  <2> QED
    BY <2>2, <2>3, <2>4, <2>6, <2>7, <2>8, <2>9 DEF AssignedInv
<1> QED
  BY <1>1, <1>5, <1>6 DEF init_with_connector, SetupTypeOK, k

(* The fallback is for a card without a connected HDMI connector. *)
LEMMA NobodyDriven ==
    ASSUME SetupInv, pc = "fallback", active[0] = 0
    PROVE  HdmiConnected = {} /\ driven = {} /\ LoopInv
BY DEF SetupInv, HdmiInv, FallbackInv

LEMMA OpenCardInv ==
    ASSUME SetupInv, OpenCard
    PROVE  SetupInv'
<1> USE SameCard DEF OpenCard
<1>1. SetupTyped'
  BY DEF SetupInv, SetupTyped, SetupTypeOK
<1>2. AssignedInv'
  BY SameOutputs DEF SetupInv
<1>3. HdmiInv' /\ FallbackInv' /\ OrderInv'
  BY DEF SetupInv, HdmiInv, FallbackInv, OrderInv
<1> QED
  BY <1>1, <1>2, <1>3 DEF SetupInv

LEMMA InitPrimaryInv ==
    ASSUME SetupInv, InitPrimary
    PROVE  SetupInv'
<1> USE DEF InitPrimary
<1>1. /\ pc = "primary" /\ UNCHANGED <<card, i, lastValid>> /\ card \in Cards
      /\ driven = {} /\ i = 1 /\ lastValid = 0 /\ primary_connector' = FirstHdmi
      /\ SetupTypeOK /\ outputs = [d \in Outputs |-> outputs[d]]
  BY DEF SetupInv, SetupTyped, OrderInv, FirstHdmi
<1>2. /\ Len(card.connectors) \in Nat /\ primary_connector' \in 0 .. Len(card.connectors)
      /\ Connectors = 1 .. Len(card.connectors)
      /\ HdmiConnected # {} => FirstHdmi \in HdmiConnected /\ FirstHdmi \in Connectors
      /\ HdmiConnected = {} => FirstHdmi = 0
  BY <1>1, TablesAre, HdmiIs, FirstIs DEF FirstHdmi
<1>3. UNCHANGED <<Connectors, HdmiConnected, FirstHdmi, SecondHdmi, Candidates, Readable>>
  BY <1>1, SameCard
<1>4. CASE HdmiConnected = {}
  <2>1. pc' = "fallback" /\ UNCHANGED <<usedCrtcs, active, outputs, driven>>
    BY <1>4
  <2>2. SetupTyped'
    BY <1>1, <1>2, <2>1 DEF SetupTyped, SetupTypeOK
  <2>3. AssignedInv'
    BY <1>1, <2>1, SameOutputs DEF SetupInv
  <2>4. LoopInv'
    <3>1. \A c \in Connectors : 1 <= c
      BY <1>2
    <3> QED
      BY <1>1, <1>3, <3>1 DEF LoopInv, Candidates, Readable
  <2>5. HdmiInv' /\ FallbackInv' /\ OrderInv'
    BY <1>1, <1>3, <1>4, <2>1, <2>4 DEF HdmiInv, FallbackInv, OrderInv
  <2> QED
    BY <2>2, <2>3, <2>5 DEF SetupInv
<1>5. CASE HdmiConnected # {}
  <2>1. PICK ret \in Returns :
            /\ init_with_connector(0, FirstHdmi, ret)
            /\ IF ret = "SIGSEGV"
               THEN pc' = "crashed" /\ UNCHANGED active
               ELSE pc' = "secondary" /\ active' = [active EXCEPT ![0] = 1]
    BY <1>5 DEF FirstHdmi
  <2>2. /\ ret = "0" => driven' = driven \cup {0} /\ outputs'[0].connector = FirstHdmi
        /\ ret # "0" => UNCHANGED <<driven, outputs>>
        /\ outputs' = [e \in Outputs |-> outputs'[e]]
        /\ usedCrtcs' \subseteq 1 .. NumCrtcs + 1 /\ driven' \subseteq Outputs
        /\ \A e \in Outputs :
             /\ outputs'[e].crtc \in 0 .. NumCrtcs
             /\ outputs'[e].plane \in 0 .. Len(card.planes)
             /\ outputs'[e].connector \in 0 .. Len(card.connectors)
        /\ AssignedInv'
    BY <1>1, <1>2, <1>5, <2>1, InitWithConnector DEF Outputs
  <2>3. active' \in [Outputs -> 0 .. 2] /\ (pc' = "secondary" => active'[0] = 1)
    BY <1>1, <2>1 DEF SetupTypeOK, Outputs
  <2>4. SetupTyped'
    BY <1>1, <1>2, <2>1, <2>2, <2>3 DEF SetupTyped, SetupTypeOK
  <2>5. HdmiInv' /\ FallbackInv' /\ OrderInv'
    BY <1>1, <1>3, <1>5, <2>1, <2>2, <2>3 DEF HdmiInv, FallbackInv, OrderInv
  <2> QED
    BY <2>2, <2>4, <2>5 DEF SetupInv
<1> QED
  BY <1>4, <1>5

LEMMA InitSecondaryInv ==
    ASSUME SetupInv, InitSecondary
    PROVE  SetupInv'
<1> USE DEF InitSecondary
<1>1. /\ pc = "secondary" /\ UNCHANGED <<card, i, lastValid, primary_connector>>
      /\ card \in Cards /\ driven \subseteq {0} /\ HdmiConnected # {}
      /\ secondHdmi(HdmiConnected) = SecondHdmi
      /\ SetupTypeOK /\ outputs = [d \in Outputs |-> outputs[d]]
      /\ active[0] = 1 /\ (0 \in driven => outputs[0].connector = FirstHdmi)
  BY DEF SetupInv, SetupTyped, OrderInv, HdmiInv, FallbackInv, secondHdmi, SecondHdmi
<1>2. /\ Len(card.connectors) \in Nat
      /\ SecondHdmi # 0 => SecondHdmi \in Connectors /\ SecondHdmi # FirstHdmi
  BY <1>1, TablesAre, HdmiIs
<1>3. UNCHANGED <<Connectors, HdmiConnected, FirstHdmi, SecondHdmi, Candidates, Readable>>
  BY <1>1, SameCard
<1>4. CASE SecondHdmi = 0
  <2>1. pc' = "fallback" /\ UNCHANGED <<usedCrtcs, active, outputs, driven>>
    BY <1>1, <1>4
  <2>2. SetupTyped'
    BY <1>1, <2>1 DEF SetupTyped, SetupTypeOK
  <2>3. AssignedInv'
    BY <1>1, <2>1, SameOutputs DEF SetupInv
  <2>4. HdmiInv' /\ FallbackInv' /\ OrderInv'
    BY <1>1, <1>3, <1>4, <2>1 DEF HdmiInv, FallbackInv, OrderInv
  <2> QED
    BY <2>2, <2>3, <2>4 DEF SetupInv
<1>5. CASE SecondHdmi # 0
  <2>1. PICK ret \in Returns :
            /\ init_with_connector(1, SecondHdmi, ret)
            /\ IF ret = "SIGSEGV"
               THEN pc' = "crashed" /\ UNCHANGED active
               ELSE pc' = "fallback" /\ active' = [active EXCEPT ![1] = 1]
    BY <1>1, <1>5
  <2>2. /\ ret = "0" => driven' = driven \cup {1} /\ outputs'[1].connector = SecondHdmi
        /\ ret # "0" => UNCHANGED <<driven, outputs>>
        /\ outputs'[0] = outputs[0]
        /\ outputs' = [e \in Outputs |-> outputs'[e]]
        /\ usedCrtcs' \subseteq 1 .. NumCrtcs + 1 /\ driven' \subseteq Outputs
        /\ \A e \in Outputs :
             /\ outputs'[e].crtc \in 0 .. NumCrtcs
             /\ outputs'[e].plane \in 0 .. Len(card.planes)
             /\ outputs'[e].connector \in 0 .. Len(card.connectors)
        /\ AssignedInv'
    <3>1. 1 \in Outputs \ driven /\ 0 \in Outputs \ {1}
      BY <1>1 DEF Outputs
    <3>2. \A e \in driven : outputs[e].connector # SecondHdmi
      BY <1>1, <1>2, <1>5
    <3> QED
      BY <1>1, <1>2, <1>5, <2>1, <3>1, <3>2, InitWithConnector
  <2>3. active' \in [Outputs -> 0 .. 2] /\ active'[0] = 1
    BY <1>1, <2>1 DEF SetupTypeOK, Outputs
  <2>4. SetupTyped'
    BY <1>1, <2>1, <2>2, <2>3 DEF SetupTyped, SetupTypeOK
  <2>5. HdmiInv' /\ FallbackInv' /\ OrderInv'
    BY <1>1, <1>3, <1>5, <2>1, <2>2, <2>3 DEF HdmiInv, FallbackInv, OrderInv
  <2> QED
    BY <2>2, <2>4, <2>5 DEF SetupInv
<1> QED
  BY <1>1, <1>4, <1>5

LEMMA SkipFallbackInv ==
    ASSUME SetupInv, SkipFallback
    PROVE  SetupInv'
<1> USE DEF SkipFallback
<1>1. UNCHANGED <<Connectors, HdmiConnected, FirstHdmi, SecondHdmi, Candidates, Readable>>
  BY SameCard
<1>2. SetupTyped'
  BY DEF SetupInv, SetupTyped, SetupTypeOK
<1>3. AssignedInv'
  BY SameOutputs DEF SetupInv
<1>4. HdmiInv' /\ FallbackInv' /\ OrderInv'
  BY <1>1 DEF SetupInv, HdmiInv, FallbackInv, OrderInv
<1> QED
  BY <1>2, <1>3, <1>4 DEF SetupInv

LEMMA TryConnectorInv ==
    ASSUME SetupInv, TryConnector
    PROVE  SetupInv'
<1> USE DEF TryConnector
<1>1. /\ pc = "fallback" /\ i \in Connectors /\ i' = i + 1
      /\ UNCHANGED <<card, primary_connector, active>>
      /\ lastValid' = IF card.connectors[i].readable THEN i ELSE lastValid
      /\ active[0] = 0 /\ HdmiConnected = {} /\ driven = {} /\ LoopInv
      /\ card \in Cards /\ SetupTypeOK /\ outputs = [d \in Outputs |-> outputs[d]]
  BY NobodyDriven DEF SetupInv, SetupTyped
<1>2. /\ Len(card.connectors) \in Nat /\ Connectors = 1 .. Len(card.connectors)
      /\ lastValid \in 0 .. Len(card.connectors)
  BY <1>1, TablesAre DEF SetupTypeOK
<1>3. UNCHANGED <<Connectors, HdmiConnected, FirstHdmi, SecondHdmi, Candidates, Readable>>
  BY <1>1, SameCard
<1>4. i' \in 1 .. Len(card.connectors) + 1 /\ lastValid' \in 0 .. Len(card.connectors)
  BY <1>1, <1>2
<1>5. ASSUME i \notin Candidates
      PROVE  LoopInv'
  <2>1. Candidates \subseteq Connectors /\ Readable \subseteq Connectors
    BY DEF Candidates, Readable
  <2>2. \A c \in Candidates : i' <= c
    <3>1. \A c \in Candidates : i <= c /\ c # i /\ c \in Int
      BY <1>1, <1>2, <1>5, <2>1 DEF LoopInv
    <3> QED
      BY <1>1, <1>2, <3>1
  <2>3. IF lastValid' = 0 THEN \A c \in Readable : i' <= c
        ELSE lastValid' \in Readable /\ \A c \in Readable : c <= lastValid' \/ i' <= c
    <3>1. \A c \in Readable : c \in Int /\ (i <= c => c = i \/ i + 1 <= c)
      BY <1>1, <1>2, <2>1
    <3>2. CASE card.connectors[i].readable
      <4>1. lastValid' = i /\ i \in Readable /\ i # 0
        BY <1>1, <1>2, <3>2 DEF Readable
      <4>2. \A c \in Readable : c <= i \/ i + 1 <= c
        BY <1>1, <1>2, <3>1
      <4> QED
        BY <1>1, <4>1, <4>2
    <3>3. CASE ~ card.connectors[i].readable
      <4>1. lastValid' = lastValid /\ i \notin Readable
        BY <1>1, <3>3 DEF Readable
      <4> QED
        BY <1>1, <3>1, <4>1 DEF LoopInv
    <3> QED
      BY <3>2, <3>3
  <2> QED
    BY <1>3, <2>2, <2>3 DEF LoopInv
<1>6. CASE ~Connected(i)
  <2>1. UNCHANGED <<pc, usedCrtcs, outputs, driven>> \/ \E ret \in Returns : Connected(i)
    BY <1>1
  <2>2. UNCHANGED <<pc, usedCrtcs, outputs, driven>>
    BY <1>6, <2>1
  <2>3. LoopInv'
    BY <1>5, <1>6 DEF Candidates
  <2>4. SetupTyped'
    BY <1>1, <1>4, <2>2 DEF SetupTyped, SetupTypeOK
  <2>5. AssignedInv'
    BY <1>1, <2>2, SameOutputs DEF SetupInv
  <2>6. HdmiInv' /\ FallbackInv' /\ OrderInv'
    BY <1>1, <1>3, <2>2, <2>3 DEF SetupInv, HdmiInv, FallbackInv, OrderInv
  <2> QED
    BY <2>4, <2>5, <2>6 DEF SetupInv
<1>7. CASE Connected(i)
  <2>1. PICK ret \in Returns : init_with_connector(0, i, ret) /\ pc' = afterTry(ret)
    BY <1>7
  <2>2. /\ ret = "0" => driven' = driven \cup {0} /\ outputs'[0].connector = i /\ Usable(i)
        /\ ret # "0" => UNCHANGED <<driven, outputs>>
        /\ ret = "EINVAL" => ~Usable(i)
        /\ outputs' = [e \in Outputs |-> outputs'[e]]
        /\ usedCrtcs' \subseteq 1 .. NumCrtcs + 1 /\ driven' \subseteq Outputs
        /\ \A e \in Outputs :
             /\ outputs'[e].crtc \in 0 .. NumCrtcs
             /\ outputs'[e].plane \in 0 .. Len(card.planes)
             /\ outputs'[e].connector \in 0 .. Len(card.connectors)
        /\ AssignedInv'
    <3>1. 0 \in Outputs \ driven /\ (ret = "SIGSEGV" => pc' = "crashed")
      BY <1>1, <2>1 DEF Outputs, afterTry
    <3> QED
      BY <1>1, <2>1, <3>1, InitWithConnector
  <2>3. pc' = IF ret = "SIGSEGV" THEN "crashed" ELSE IF ret = "0" THEN "up" ELSE "fallback"
    BY <2>1 DEF Returns, afterTry
  <2>4. SetupTyped'
    BY <1>1, <1>4, <2>2, <2>3 DEF SetupTyped, SetupTypeOK
  <2>5. ret = "0" => Candidates # {} /\ Min(Candidates) = i
    <3>1. ret = "0" => i \in Candidates
      BY <1>1, <1>7, <2>2 DEF Candidates
    <3>2. Candidates \in SUBSET Nat
      BY <1>2 DEF Candidates
    <3>3. \A c \in Candidates : i <= c
      BY <1>1 DEF LoopInv
    <3>4. ret = "0" => Min(Candidates) \in Candidates /\ Min(Candidates) <= i
      BY <3>1, <3>2, MinIs
    <3> QED
      BY <1>1, <1>2, <3>1, <3>2, <3>3, <3>4
  <2>6. pc' = "fallback" => ret = "EINVAL" /\ driven' = {} /\ LoopInv'
    BY <1>1, <1>5, <2>1, <2>2, <2>3 DEF Returns, Candidates
  <2>7. pc' = "up" => ret = "0"
    BY <2>3
  <2>8. FallbackInv'
    BY <1>1, <1>3, <2>2, <2>3, <2>5, <2>6, <2>7 DEF FallbackInv
  <2>9. HdmiInv' /\ OrderInv'
    BY <1>1, <1>3, <2>3 DEF HdmiInv, OrderInv
  <2> QED
    BY <2>2, <2>4, <2>8, <2>9 DEF SetupInv
<1> QED
  BY <1>6, <1>7

(* The last readable connector is tried when the loop found no candidate. *)
LEMMA EnforceConnectorInv ==
    ASSUME SetupInv, EnforceConnector
    PROVE  SetupInv'
<1> USE DEF EnforceConnector
<1>1. /\ pc = "fallback" /\ i \notin Connectors /\ lastValid # 0
      /\ UNCHANGED <<card, i, lastValid, primary_connector, active>>
      /\ active[0] = 0 /\ HdmiConnected = {} /\ driven = {} /\ LoopInv
      /\ card \in Cards /\ SetupTypeOK /\ outputs = [d \in Outputs |-> outputs[d]]
  BY NobodyDriven DEF SetupInv, SetupTyped
<1>2. /\ Len(card.connectors) \in Nat /\ Connectors = 1 .. Len(card.connectors)
      /\ i = Len(card.connectors) + 1
      /\ lastValid \in Connectors
  <2>1. Len(card.connectors) \in Nat /\ Connectors = 1 .. Len(card.connectors)
    BY <1>1, TablesAre
  <2>2. i \in 1 .. Len(card.connectors) + 1 /\ lastValid \in 0 .. Len(card.connectors)
    BY <1>1 DEF SetupTypeOK
  <2> HIDE DEF EnforceConnector
  <2> QED
    BY <1>1, <2>1, <2>2
<1>3. UNCHANGED <<Connectors, HdmiConnected, FirstHdmi, SecondHdmi, Candidates, Readable>>
  BY <1>1, SameCard
<1>4. Candidates \subseteq Connectors /\ Readable \subseteq Connectors
  BY DEF Candidates, Readable
<1>5. Candidates = {}
  BY <1>1, <1>2, <1>4 DEF LoopInv
<1>6. Max(Readable) = lastValid
  <2>1. lastValid \in Readable /\ \A c \in Readable : lastValid >= c
    BY <1>1, <1>2, <1>4 DEF LoopInv
  <2>2. \A c \in Readable : (\A e \in Readable : c >= e) => c = lastValid
    BY <1>2, <1>4, <2>1
  <2> QED
    BY <2>1, <2>2 DEF Max
<1>7. PICK ret \in Returns :
          /\ init_with_connector(0, lastValid, ret)
          /\ pc' = IF ret = "SIGSEGV" THEN "crashed" ELSE "up"
  OBVIOUS
<1>8. /\ ret = "0" => driven' = driven \cup {0} /\ outputs'[0].connector = lastValid
      /\ ret # "0" => UNCHANGED <<driven, outputs>>
      /\ outputs' = [e \in Outputs |-> outputs'[e]]
      /\ usedCrtcs' \subseteq 1 .. NumCrtcs + 1 /\ driven' \subseteq Outputs
      /\ \A e \in Outputs :
           /\ outputs'[e].crtc \in 0 .. NumCrtcs
           /\ outputs'[e].plane \in 0 .. Len(card.planes)
           /\ outputs'[e].connector \in 0 .. Len(card.connectors)
      /\ AssignedInv'
  <2>1. 0 \in Outputs \ driven /\ (ret = "SIGSEGV" => pc' = "crashed")
    BY <1>1, <1>7 DEF Outputs
  <2> QED
    BY <1>1, <1>2, <1>7, <2>1, InitWithConnector
<1>9. SetupTyped'
  BY <1>1, <1>7, <1>8 DEF SetupTyped, SetupTypeOK
<1>10. HdmiInv' /\ FallbackInv' /\ OrderInv'
  BY <1>1, <1>3, <1>5, <1>6, <1>7, <1>8 DEF HdmiInv, FallbackInv, OrderInv
<1> QED
  BY <1>8, <1>9, <1>10 DEF SetupInv

LEMMA NoConnectorInv ==
    ASSUME SetupInv, NoConnector
    PROVE  SetupInv'
<1> USE SameCard DEF NoConnector
<1>1. SetupTyped'
  BY DEF SetupInv, SetupTyped, SetupTypeOK
<1>2. AssignedInv'
  BY SameOutputs DEF SetupInv
<1>3. HdmiInv' /\ FallbackInv' /\ OrderInv'
  BY DEF SetupInv, HdmiInv, FallbackInv, OrderInv
<1> QED
  BY <1>1, <1>2, <1>3 DEF SetupInv

LEMMA SetupStutterInv ==
    ASSUME SetupInv, UNCHANGED kmsVars
    PROVE  SetupInv'
<1> USE SameCard DEF kmsVars
<1>1. SetupTyped'
  BY DEF SetupInv, SetupTyped, SetupTypeOK
<1>2. AssignedInv'
  BY SameOutputs DEF SetupInv
<1>3. HdmiInv' /\ OrderInv'
  BY DEF SetupInv, HdmiInv, OrderInv
<1>4. FallbackInv'
  BY DEF SetupInv, FallbackInv, LoopInv
<1> QED
  BY <1>1, <1>2, <1>3, <1>4 DEF SetupInv

LEMMA SetupNextInv == SetupInv /\ [SetupNext]_kmsVars => SetupInv'
  BY OpenCardInv, InitPrimaryInv, InitSecondaryInv, SkipFallbackInv, TryConnectorInv,
     EnforceConnectorInv, NoConnectorInv, SetupStutterInv
  DEF SetupNext

(* The inductive invariant holds of every reachable state of the set-up.   *)
THEOREM SetupInvariance == SetupSpec => []SetupInv
  BY SetupInitInv, SetupNextInv, PTL DEF SetupSpec

(* Types of the set-up state (hwc_context::init_kms). *)
THEOREM SetupTypeCorrect == SetupSpec => []SetupTypeOK
<1>1. SetupInv => SetupTypeOK
  BY DEF SetupInv, SetupTyped
<1> QED BY <1>1, SetupInvariance, PTL

(* What init_with_connector gives a display fits together: the encoder of  *)
(* its connector can feed its CRTC, and its plane, if there is a primary   *)
(* one for the CRTC, is such a plane.                                      *)
THEOREM OutputsAreWired == SetupSpec => []OutputIsWired
<1>1. SetupInv => OutputIsWired
  <2> SUFFICES ASSUME SetupInv, NEW d \in driven
               PROVE  LET o == outputs[d]
                      IN /\ o.crtc \in card.connectors[o.connector].possible
                         /\ o.plane # 0 => /\ card.planes[o.plane].primary
                                           /\ o.crtc \in card.planes[o.plane].possible
                         /\ o.plane = 0 => \A p \in DOMAIN card.planes :
                               ~ (card.planes[p].readable /\ card.planes[p].primary
                                  /\ o.crtc \in card.planes[p].possible)
    BY DEF OutputIsWired
  <2>1. Assigned(d) /\ card \in Cards
    BY DEF SetupInv, SetupTyped, AssignedInv
  <2>2. /\ outputs[d].plane # 0 => outputs[d].plane \in PlanesOf(outputs[d].crtc)
        /\ outputs[d].plane = 0 => PlanesOf(outputs[d].crtc) = {}
    BY <2>1, PlaneIs DEF Assigned
  <2> QED
    BY <2>1, <2>2 DEF Assigned, PlanesOf
<1> QED BY <1>1, SetupInvariance, PTL

(* Two elements of a set of one element are the same. *)
LEMMA OneElement ==
    ASSUME NEW S \in SUBSET (1 .. 32), Cardinality(S) = 1, NEW x \in S, NEW y \in S
    PROVE  x = y
<1>1. IsFiniteSet(1 .. 32)
  <2>1. 1 \in Int /\ 32 \in Int
    OBVIOUS
  <2> QED
    BY <2>1, FS_Interval, Zenon
<1>2. IsFiniteSet(S)
  BY <1>1, FS_Subset
<1>3. IsFiniteSet(S \ {x}) /\ Cardinality(S \ {x}) = 0
  BY <1>2, FS_RemoveElement
<1>4. S \ {x} = {}
  BY <1>3, FS_EmptySet
<1> QED
  BY <1>4

(* Two driven displays have different connectors and CRTCs, and different  *)
(* planes where each primary plane belongs to one CRTC; and the bits of    *)
(* used_crtcs are those of the CRTCs the displays drive.                   *)
THEOREM OutputsAreApart == SetupSpec => []OutputsNeverShare
<1>1. SetupInv => OutputsNeverShare
  <2> SUFFICES ASSUME SetupInv
               PROVE  OutputsNeverShare
    OBVIOUS
  <2>1. AssignedInv /\ card \in Cards
    BY DEF SetupInv, SetupTyped
  <2>2. ASSUME driven = Outputs, DedicatedPlanes, outputs[0].plane # 0,
               outputs[0].plane = outputs[1].plane
        PROVE  FALSE
    <3> DEFINE p == outputs[0].plane
    <3>1. /\ outputs[0].crtc # outputs[1].crtc
          /\ p = FirstOf(PlanesOf(outputs[0].crtc)) /\ p = FirstOf(PlanesOf(outputs[1].crtc))
      BY <2>1, <2>2 DEF AssignedInv, Assigned, Outputs
    <3>2. p \in PlanesOf(outputs[0].crtc) /\ p \in PlanesOf(outputs[1].crtc)
      BY <2>1, <2>2, <3>1, PlaneIs
    <3>3. /\ outputs[0].crtc \in card.planes[p].possible
          /\ outputs[1].crtc \in card.planes[p].possible
          /\ Cardinality(card.planes[p].possible) = 1
      BY <2>2, <3>2 DEF PlanesOf, DedicatedPlanes
    <3>4. card.planes[p].possible \in SUBSET (1 .. 32)
      <4>1. p \in 1 .. Len(card.planes)
        BY <2>1, <3>2, TablesAre DEF PlanesOf
      <4>2. card.planes[p] \in PlaneEntries
        BY <2>1, <4>1, TablesAre
      <4> QED
        BY <4>2 DEF PlaneEntries
    <3> QED
      BY <3>1, <3>3, <3>4, OneElement
  <2> QED
    BY <2>1, <2>2 DEF OutputsNeverShare, AssignedInv
<1> QED BY <1>1, SetupInvariance, PTL

(* Which connectors end up driven: the first two connected HDMI ones, or   *)
(* without any the first connected one that can be used, or else the last  *)
(* one that can be read (fetch_connector, fetch_connector2, init_kms).     *)
THEOREM ConnectorsAreChosen == SetupSpec => []ConnectorChoice
<1>1. SetupInv => ConnectorChoice
  <2> SUFFICES ASSUME SetupInv, pc = "up"
               PROVE  ConnectorChoice
    BY DEF ConnectorChoice
  <2>1. card \in Cards /\ driven \subseteq {0, 1} /\ HdmiInv /\ FallbackInv
    BY DEF SetupInv, SetupTyped, SetupTypeOK, Outputs
  <2>2. ASSUME HdmiConnected # {}, NEW d \in driven
        PROVE  /\ outputs[d].connector \in HdmiConnected
               /\ Cardinality({k \in HdmiConnected : k < outputs[d].connector}) = d
    <3>1. /\ HdmiConnected \in SUBSET (Nat \ {0}) /\ FirstHdmi \in HdmiConnected
          /\ \A n \in HdmiConnected : FirstHdmi <= n
      BY <2>1, <2>2, HdmiIs, FirstIs DEF FirstHdmi
    <3>2. \A k, n \in HdmiConnected : k < n <=> ~ (n <= k)
      <4>1. \A k, n \in Nat : k < n <=> ~ (n <= k)
        OBVIOUS
      <4> QED
        BY <3>1, <4>1
    <3>3. \A k, n \in HdmiConnected : k <= n /\ n <= k => k = n
      <4>1. \A k, n \in Nat : k <= n /\ n <= k => k = n
        OBVIOUS
      <4> QED
        BY <3>1, <4>1
    <3>4. CASE d = 0
      <4>1. outputs[d].connector = FirstHdmi
        BY <2>1, <2>2, <3>4 DEF HdmiInv
      <4>2. {k \in HdmiConnected : k < FirstHdmi} = {}
        BY <3>1, <3>2, Zenon
      <4>3. Cardinality({k \in HdmiConnected : k < outputs[d].connector}) = 0
        BY <4>1, <4>2, FS_EmptySet
      <4> QED
        BY <3>1, <3>4, <4>1, <4>3
    <3>5. CASE d = 1
      <4>1. outputs[d].connector = SecondHdmi /\ SecondHdmi # 0
        BY <2>1, <2>2, <3>5 DEF HdmiInv
      <4>2. SecondHdmi \in HdmiConnected /\ SecondHdmi # FirstHdmi
        BY <2>1, <4>1, HdmiIs
      <4>3. \A n \in HdmiConnected \ {FirstHdmi} : SecondHdmi <= n
        BY <3>1, <4>2, FirstIs DEF SecondHdmi
      <4>4. {k \in HdmiConnected : k < SecondHdmi} = {FirstHdmi}
        <5>1. ASSUME NEW k \in HdmiConnected, k < SecondHdmi
              PROVE  k = FirstHdmi
          BY <3>2, <4>2, <4>3, <5>1, Zenon
        <5>2. FirstHdmi < SecondHdmi
          BY <3>1, <3>2, <3>3, <4>2, Zenon
        <5> QED
          BY <3>1, <5>1, <5>2, Zenon
      <4>5. Cardinality({FirstHdmi}) = 1
        BY FS_Singleton
      <4>6. Cardinality({k \in HdmiConnected : k < outputs[d].connector}) = 1
        BY <4>1, <4>4, <4>5
      <4> QED
        BY <3>5, <4>1, <4>2, <4>6
    <3> QED
      BY <2>1, <3>4, <3>5
  <2> QED
    BY <2>1, <2>2 DEF ConnectorChoice, FallbackInv, Candidates, Readable
<1> QED BY <1>1, SetupInvariance, PTL

-----------------------------------------------------------------------------
(* find_mode.  The loop over the modes is a recursive function; that there *)
(* is one follows from a shortest list for which there is none.            *)

NoMode == [best |-> 0, dist |-> INT_MAX]

IsWalk(g, modes, r, len) ==
    g = [n \in 0 .. len |->
            IF n = 0 THEN NoMode ELSE considerMode(modes, r, g[n - 1], n)]

LEMMA WalkExists ==
    ASSUME NEW modes, NEW r, NEW len \in Nat
    PROVE  \E g : IsWalk(g, modes, r, len)
<1> DEFINE S == {k \in Nat : ~ \E g : IsWalk(g, modes, r, k)}
<1> SUFFICES ASSUME S # {}
             PROVE  FALSE
  OBVIOUS
<1> DEFINE m == Min(S)
<1>1. m \in S /\ \A n \in S : m <= n
  BY MinIs
<1> HIDE DEF m
<1>2. m \in Nat /\ ~ \E g : IsWalk(g, modes, r, m)
  BY <1>1
<1>3. m # 0
  <2> DEFINE h == [n \in 0 .. 0 |-> NoMode]
  <2>1. IsWalk(h, modes, r, 0)
    BY DEF IsWalk
  <2> QED
    BY <1>2, <2>1
<1>4. m - 1 \in Nat /\ m - 1 \notin S
  BY <1>1, <1>2, <1>3
<1>5. PICK g : IsWalk(g, modes, r, m - 1)
  BY <1>4
<1> DEFINE h == [n \in 0 .. m |-> IF n = m THEN considerMode(modes, r, g[m - 1], m) ELSE g[n]]
<1>6. ASSUME NEW n \in 0 .. m
      PROVE  h[n] = IF n = 0 THEN NoMode ELSE considerMode(modes, r, h[n - 1], n)
  <2>1. CASE n = m
    <3>1. m - 1 \in 0 .. m /\ m - 1 # m
      BY <1>2, <1>3
    <3> QED
      BY <1>3, <2>1, <3>1
  <2>2. CASE n # m
    <3>1. n \in 0 .. m - 1 /\ (n # 0 => n - 1 \in 0 .. m /\ n - 1 # m)
      BY <1>2, <2>2
    <3>2. h[n] = g[n] /\ (n # 0 => h[n - 1] = g[n - 1])
      BY <2>2, <3>1
    <3>3. g[n] = IF n = 0 THEN NoMode ELSE considerMode(modes, r, g[n - 1], n)
      BY <1>5, <3>1 DEF IsWalk
    <3> QED
      BY <3>2, <3>3
  <2> QED
    BY <2>1, <2>2
<1>7. IsWalk(h, modes, r, m)
  <2>1. h = [n \in 0 .. m |-> h[n]]
    OBVIOUS
  <2> HIDE DEF h
  <2> QED
    BY <1>6, <2>1 DEF IsWalk
<1> QED
  BY <1>2, <1>7

LEMMA ClosestIsWalked ==
    ASSUME NEW modes, NEW r, Len(modes) \in Nat
    PROVE  \E g : IsWalk(g, modes, r, Len(modes)) /\ closestMode(modes, r) = g[Len(modes)].best
<1> DEFINE walk == CHOOSE g : IsWalk(g, modes, r, Len(modes))
<1>1. IsWalk(walk, modes, r, Len(modes))
  <2>1. \E g : IsWalk(g, modes, r, Len(modes))
    BY WalkExists
  <2> QED
    BY <2>1, Zenon
<1>2. closestMode(modes, r) = walk[Len(modes)].best
  BY DEF closestMode, IsWalk, NoMode
<1> QED
  BY <1>1, <1>2

(* What the loop has found among the first n modes.                        *)
DistancesFit(modes, r) ==
    Wants(r) => \A n \in DOMAIN modes : distance(modes[n], r) < INT_MAX

FoundClosest(modes, r, n, w) ==
    /\ w.best = 0 => n = 0 /\ w.dist = INT_MAX
    /\ w.best # 0 => /\ w.dist = distance(modes[w.best], r)
                     /\ \A k \in 1 .. n : w.dist <= distance(modes[k], r)
                     /\ \A k \in 1 .. n : k < w.best => w.dist < distance(modes[k], r)

FoundPreferred(modes, n, w) ==
    /\ w.best = 0 => w.dist = INT_MAX /\ \A k \in 1 .. n : ~ modes[k].preferred
    /\ w.best # 0 => /\ w.dist = 0 /\ modes[w.best].preferred
                     /\ \A k \in 1 .. n : k < w.best => ~ modes[k].preferred

Found(modes, r, n, w) ==
    /\ w.best \in 0 .. n
    /\ IF Wants(r) THEN FoundClosest(modes, r, n, w) ELSE FoundPreferred(modes, n, w)

Request == [x : Int, y : Int, rate : Int, force : BOOLEAN]

LEMMA DistanceIs ==
    ASSUME NEW modes \in Seq(Modes), NEW r \in Request, NEW n \in 1 .. Len(modes)
    PROVE  distance(modes[n], r) \in Nat
<1>1. \A x \in Int : x * x \in Int /\ x * x >= 0
  OBVIOUS
<1>2. modes[n] \in Modes
  OBVIOUS
<1>3. modes[n].h - r.x \in Int /\ modes[n].v - r.y \in Int
  <2>1. modes[n].h \in Int /\ modes[n].v \in Int
    BY <1>2 DEF Modes
  <2>2. r.x \in Int /\ r.y \in Int
    BY DEF Request
  <2> QED
    BY <2>1, <2>2
<1>4. \A a, b \in Int : a >= 0 /\ b >= 0 => a + b \in Nat
  OBVIOUS
<1> DEFINE a == modes[n].h - r.x
           b == modes[n].v - r.y
<1>5. /\ a * a \in Int /\ a * a >= 0
      /\ b * b \in Int /\ b * b >= 0
  BY <1>1, <1>3
<1>6. distance(modes[n], r) = a * a + b * b
  BY DEF distance, Square
<1> HIDE DEF a, b
<1> QED
  BY <1>4, <1>5, <1>6

LEMMA StepFinds ==
    ASSUME NEW modes \in Seq(Modes), NEW r \in Request, DistancesFit(modes, r),
           NEW n \in 1 .. Len(modes), NEW w, Found(modes, r, n - 1, w)
    PROVE  Found(modes, r, n, considerMode(modes, r, w, n))
<1> DEFINE new == considerMode(modes, r, w, n)
<1> SUFFICES Found(modes, r, n, new)
  OBVIOUS
<1>1. w.best \in 0 .. n - 1 /\ n \in Nat /\ Len(modes) \in Nat
  BY DEF Found
<1>2. \A k \in 1 .. n : k = n \/ k \in 1 .. n - 1
  BY <1>1
<1>3. CASE Wants(r)
  <2> DEFINE tmp == distance(modes[n], r)
  <2>1. new = IF w.dist # 0 /\ tmp < w.dist THEN [best |-> n, dist |-> tmp] ELSE w
    BY <1>3 DEF considerMode
  <2>2. \A k \in 1 .. n : distance(modes[k], r) \in Nat /\ distance(modes[k], r) < INT_MAX
    BY <1>1, <1>3, DistanceIs DEF DistancesFit
  <2>3. FoundClosest(modes, r, n - 1, w)
    BY <1>3 DEF Found
  <2> HIDE DEF new
  <2>4. CASE w.best = 0
    <3>1. n = 1 /\ w.dist = INT_MAX /\ INT_MAX # 0
      BY <1>1, <2>3, <2>4 DEF FoundClosest, INT_MAX
    <3>2. new = [best |-> 1, dist |-> tmp]
      BY <2>1, <2>2, <3>1
    <3> QED
      BY <1>3, <2>2, <3>1, <3>2 DEF Found, FoundClosest
  <2>5. CASE w.best # 0
    <3>1. /\ w.dist = distance(modes[w.best], r) /\ w.dist \in Nat
          /\ \A k \in 1 .. n - 1 : w.dist <= distance(modes[k], r)
          /\ \A k \in 1 .. n - 1 : k < w.best => w.dist < distance(modes[k], r)
      BY <1>1, <2>2, <2>3, <2>5 DEF FoundClosest
    <3>2. CASE tmp < w.dist
      <4>1. new = [best |-> n, dist |-> tmp]
        BY <2>1, <2>2, <3>1, <3>2
      <4>2. \A k \in 1 .. n - 1 : tmp < distance(modes[k], r)
        BY <1>1, <2>2, <3>1, <3>2
      <4>3. FoundClosest(modes, r, n, new)
        BY <1>1, <1>2, <2>2, <4>1, <4>2 DEF FoundClosest
      <4> QED
        BY <1>1, <1>3, <4>1, <4>3 DEF Found
    <3>3. CASE ~ (tmp < w.dist)
      <4>1. new = w /\ w.dist <= tmp
        BY <2>1, <2>2, <3>1, <3>3
      <4>2. FoundClosest(modes, r, n, w)
        BY <1>1, <1>2, <2>5, <3>1, <4>1 DEF FoundClosest
      <4> QED
        BY <1>1, <1>3, <4>1, <4>2 DEF Found
    <3> QED
      BY <3>2, <3>3
  <2> QED
    BY <2>4, <2>5
<1>4. CASE ~ Wants(r)
  <2> DEFINE tmp == IF modes[n].preferred THEN 0 ELSE w.dist
  <2>1. new = IF w.dist # 0 /\ tmp < w.dist THEN [best |-> n, dist |-> tmp] ELSE w
    BY <1>4 DEF considerMode
  <2>2. FoundPreferred(modes, n - 1, w) /\ w.dist \in Nat
    BY <1>4 DEF Found, FoundPreferred, INT_MAX
  <2>3. FoundPreferred(modes, n, new) /\ new.best \in 0 .. n
    <3>1. CASE w.best = 0 /\ modes[n].preferred
      <4>1. new = [best |-> n, dist |-> 0]
        BY <2>1, <2>2, <3>1 DEF FoundPreferred, INT_MAX
      <4> HIDE DEF new
      <4> QED
        BY <1>1, <1>2, <2>2, <3>1, <4>1 DEF FoundPreferred
    <3>2. CASE w.best # 0 \/ ~ modes[n].preferred
      <4>1. new = w
        BY <2>1, <2>2, <3>2 DEF FoundPreferred
      <4> HIDE DEF new
      <4> QED
        BY <1>1, <1>2, <2>2, <3>2, <4>1 DEF FoundPreferred
    <3> QED
      BY <3>1, <3>2
  <2> QED
    BY <1>4, <2>3 DEF Found
<1> QED
  BY <1>3, <1>4

LEMMA ClosestIs ==
    ASSUME NEW modes \in Seq(Modes), NEW r \in Request, DistancesFit(modes, r)
    PROVE  \E w : closestMode(modes, r) = w.best /\ Found(modes, r, Len(modes), w)
<1>1. Len(modes) \in Nat
  OBVIOUS
<1>2. PICK g : IsWalk(g, modes, r, Len(modes)) /\ closestMode(modes, r) = g[Len(modes)].best
  BY <1>1, ClosestIsWalked
<1> DEFINE S == {k \in Nat : k <= Len(modes) /\ ~ Found(modes, r, k, g[k])}
           m == Min(S)
<1>3. ASSUME S # {}
      PROVE  FALSE
  <2>1. m \in S /\ \A n \in S : m <= n
    BY <1>3, MinIs
  <2>2. m \in 0 .. Len(modes) /\ ~ Found(modes, r, m, g[m])
    BY <1>1, <2>1
  <2> HIDE DEF m
  <2>3. g[m] = IF m = 0 THEN NoMode ELSE considerMode(modes, r, g[m - 1], m)
    BY <1>2, <2>2 DEF IsWalk
  <2>4. m # 0
    <3>1. Found(modes, r, 0, NoMode)
      BY DEF Found, FoundClosest, FoundPreferred, NoMode
    <3> QED
      BY <2>2, <2>3, <3>1
  <2>5. m \in 1 .. Len(modes) /\ m - 1 \in Nat /\ m - 1 \notin S /\ m - 1 <= Len(modes)
    BY <1>1, <2>1, <2>2, <2>4
  <2>6. Found(modes, r, m - 1, g[m - 1])
    BY <2>5
  <2> QED
    BY <2>2, <2>3, <2>4, <2>5, <2>6, StepFinds
<1> QED
  BY <1>1, <1>2, <1>3

LEMMA SmallestIs ==
    ASSUME NEW S \in SUBSET Nat, NEW b \in S, \A k \in S : b <= k
    PROVE  Min(S) = b
<1>1. Min(S) \in S /\ \A n \in S : Min(S) <= n
  BY MinIs
<1>2. Min(S) \in Nat /\ b \in Nat /\ Min(S) <= b /\ b <= Min(S)
  BY <1>1
<1> QED
  BY <1>2

(* The clock apart, the trimmed mode is the one that was found.            *)
LEMMA TrimIs ==
    ASSUME NEW f
    PROVE  /\ f.clock \in Nat /\ "clock" \in DOMAIN f => ~DisturbsWifi(trimClock(f))
           /\ f \in Modes => SameMode(trimClock(f), f)
<1>1. ASSUME f.clock \in Nat, "clock" \in DOMAIN f
      PROVE  ~DisturbsWifi(trimClock(f))
  BY <1>1 DEF trimClock, DisturbsWifi
<1>2. ASSUME f \in Modes
      PROVE  SameMode(trimClock(f), f)
  <2> DEFINE t == trimClock(f)
  <2>1. /\ t \in Modes /\ t.h = f.h /\ t.v = f.v /\ t.rate = f.rate
        /\ t.preferred = f.preferred
    BY <1>2 DEF trimClock, Modes
  <2> HIDE DEF t
  <2>2. /\ [t EXCEPT !.clock = 0] = [h |-> t.h, v |-> t.v, rate |-> t.rate,
                                     preferred |-> t.preferred, clock |-> 0]
        /\ [f EXCEPT !.clock = 0] = [h |-> f.h, v |-> f.v, rate |-> f.rate,
                                     preferred |-> f.preferred, clock |-> 0]
    BY <1>2, <2>1 DEF Modes
  <2>3. [t EXCEPT !.clock = 0] = [f EXCEPT !.clock = 0]
    BY <2>1, <2>2, Zenon
  <2>4. SameMode(t, f)
    BY <2>3 DEF SameMode
  <2> QED
    BY <2>4 DEF t
<1> QED
  BY <1>1, <1>2

LEMMA CellIsNear ==
    ASSUME NEW x \in Int
    PROVE  CellGranularity(x) - x \in -4 .. 4
<1> DEFINE q == x \div 8
           b == x % 8
<1>1. q \in Int /\ b \in 0 .. 7 /\ x = 8 * q + b
  OBVIOUS
<1> HIDE DEF q, b
<1>2. CASE b > 4 \/ (b = 4 /\ q % 2 = 1)
  <2>1. CellGranularity(x) = 8 * (q + 1)
    BY <1>2 DEF CellGranularity, q, b
  <2> QED
    BY <1>1, <1>2, <2>1
<1>3. CASE ~ (b > 4 \/ (b = 4 /\ q % 2 = 1))
  <2>1. CellGranularity(x) = 8 * q
    BY <1>3 DEF CellGranularity, q, b
  <2>2. b <= 4
    BY <1>1, <1>3
  <2> QED
    BY <1>1, <2>1, <2>2
<1> QED
  BY <1>2, <1>3

(* Whatever mode find_mode returns is the best one. *)
LEMMA FindModeIs ==
    ASSUME NEW modes \in Seq(Modes), NEW r \in Request, DistancesFit(modes, r),
           NEW mode \in find_mode(modes, r)
    PROVE  BestMode(mode, modes, r)
<1> DEFINE exact     == exactModes(modes, r)
           forced    == Asked(r) /\ r.force
           closest   == closestModes(modes, r)
           preferred == preferredModes(modes)
           IsFirst(S) == IsFirstOf(mode, modes, S)
           best      == closestMode(modes, r)
           found == IF exact # {} THEN {modes[Min(exact)]}
                    ELSE IF forced THEN generate_mode(r)
                    ELSE IF best # 0 THEN {modes[best]}
                    ELSE IF modes # <<>> THEN {modes[1]} ELSE {}
<1>1. DOMAIN modes = 1 .. Len(modes) /\ Len(modes) \in Nat
  OBVIOUS
<1>2. find_mode(modes, r) = {trimClock(f) : f \in found}
  <2> DEFINE first == IF Asked(r) THEN SelectInSeq(modes, LAMBDA m : Matches(m, r)) ELSE 0
  <2>1. Asked(r) => exact = {n \in 1 .. Len(modes) : Matches(modes[n], r)}
    BY <1>1 DEF exactModes
  <2>2. ~ Asked(r) => exact = {}
    BY DEF exactModes
  <2>3. first = IF exact = {} THEN 0 ELSE Min(exact)
    BY <1>1, <2>1, <2>2 DEF SelectInSeq
  <2>4. exact # {} => Min(exact) # 0
    <3>1. exact \in SUBSET Nat /\ 0 \notin exact
      BY <1>1 DEF exactModes
    <3> QED
      BY <3>1, MinIs
  <2> QED
    BY <2>3, <2>4 DEF find_mode
<1>3. PICK f \in found : mode = trimClock(f)
  BY <1>2
<1>4. exact # {} => Min(exact) \in exact
  <2>1. exact \in SUBSET Nat
    BY <1>1 DEF exactModes
  <2> QED
    BY <2>1, MinIs
<1>5. PICK w : best = w.best /\ Found(modes, r, Len(modes), w)
  BY ClosestIs
<1>6. best \in 0 .. Len(modes)
  BY <1>5 DEF Found
<1> HIDE DEF best
<1>7. (exact # {} \/ ~ forced) => f \in Modes
  <2>1. \A n \in 1 .. Len(modes) : modes[n] \in Modes
    OBVIOUS
  <2>2. modes # <<>> => 1 \in 1 .. Len(modes)
    BY <1>1
  <2> QED
    BY <1>1, <1>3, <1>4, <1>6, <2>1, <2>2 DEF exactModes
<1>8. exact = {} /\ forced =>
        \E k \in Nat : f = [h |-> CellGranularity(r.x), v |-> r.y, rate |-> r.rate,
                            preferred |-> FALSE, clock |-> k]
  BY <1>3, KmsAssumption DEF generate_mode
<1> HIDE DEF found
<1>9. f.clock \in Nat
  BY <1>7, <1>8 DEF Modes
<1>10. ~DisturbsWifi(mode)
  <2>1. "clock" \in DOMAIN f
    BY <1>7, <1>8 DEF Modes
  <2> QED
    BY <1>3, <1>9, <2>1, TrimIs
<1>11. f \in Modes => SameMode(mode, f)
  BY <1>3, TrimIs
<1>12. exact # {} => IsFirst(exact)
  <2> SUFFICES ASSUME exact # {} PROVE IsFirst(exact)
    OBVIOUS
  <2>1. f = modes[Min(exact)]
    BY <1>3 DEF found
  <2> QED
    BY <1>7, <1>11, <2>1 DEF IsFirstOf
<1>13. exact = {} /\ forced => /\ mode.h - r.x \in -4 .. 4
                              /\ mode.v = r.y /\ mode.rate = r.rate
  <2> SUFFICES ASSUME exact = {}, forced
               PROVE  mode.h - r.x \in -4 .. 4 /\ mode.v = r.y /\ mode.rate = r.rate
    OBVIOUS
  <2>1. mode.h = CellGranularity(r.x) /\ mode.v = r.y /\ mode.rate = r.rate
    BY <1>3, <1>8 DEF trimClock
  <2>2. r.x \in Int
    BY DEF Request
  <2>3. CellGranularity(r.x) - r.x \in -4 .. 4
    BY <2>2, CellIsNear
  <2> QED
    BY <2>1, <2>3
<1>14. exact = {} /\ ~ forced /\ best # 0 => f = modes[best]
  BY <1>3 DEF found
<1>15. exact = {} /\ ~ forced /\ best = 0 => f = modes[1] /\ DOMAIN modes # {}
  BY <1>1, <1>3 DEF found
<1>16. exact = {} /\ ~ forced /\ Wants(r) => IsFirst(closest)
  <2> SUFFICES ASSUME exact = {}, ~ forced, Wants(r) PROVE IsFirst(closest)
    OBVIOUS
  <2>1. FoundClosest(modes, r, Len(modes), w)
    BY <1>5 DEF Found
  <2>2. best # 0
    BY <1>1, <1>5, <1>15, <2>1 DEF FoundClosest
  <2>3. best \in 1 .. Len(modes)
    BY <1>6, <2>2
  <2>4. /\ \A k \in 1 .. Len(modes) : distance(modes[best], r) <= distance(modes[k], r)
        /\ \A k \in 1 .. Len(modes) :
                k < best => distance(modes[best], r) < distance(modes[k], r)
    BY <1>5, <2>1, <2>2 DEF FoundClosest
  <2>5. best \in closest
    BY <1>1, <2>3, <2>4 DEF closestModes
  <2>6. \A k \in closest : best <= k
    <3>1. \A k \in 1 .. Len(modes) : distance(modes[k], r) \in Nat
      BY DistanceIs
    <3> QED
      BY <1>1, <2>3, <2>4, <3>1 DEF closestModes
  <2>7. closest \in SUBSET Nat
    BY <1>1 DEF closestModes
  <2>8. Min(closest) = best
    BY <2>5, <2>6, <2>7, SmallestIs
  <2> QED
    BY <1>7, <1>11, <1>14, <2>2, <2>5, <2>8 DEF IsFirstOf
<1>17. ~ Wants(r) /\ preferred # {} => IsFirst(preferred)
  <2> SUFFICES ASSUME ~ Wants(r), preferred # {} PROVE IsFirst(preferred)
    OBVIOUS
  <2>1. FoundPreferred(modes, Len(modes), w) /\ exact = {} /\ ~ forced
    BY <1>5 DEF Found, exactModes, Asked
  <2>2. best # 0
    BY <1>1, <1>5, <2>1 DEF FoundPreferred, preferredModes
  <2>3. best \in preferred /\ \A k \in 1 .. Len(modes) : k < best => ~ modes[k].preferred
    BY <1>1, <1>5, <1>6, <2>1, <2>2 DEF FoundPreferred, preferredModes
  <2>4. \A k \in preferred : best <= k
    BY <1>1, <1>6, <2>3 DEF preferredModes
  <2>5. preferred \in SUBSET Nat
    BY <1>1 DEF preferredModes
  <2>6. Min(preferred) = best
    BY <2>3, <2>4, <2>5, SmallestIs
  <2> QED
    BY <1>7, <1>11, <1>14, <2>1, <2>2, <2>3, <2>6 DEF IsFirstOf
<1>18. ~ Wants(r) /\ preferred = {} => IsFirst(DOMAIN modes)
  <2> SUFFICES ASSUME ~ Wants(r), preferred = {} PROVE IsFirst(DOMAIN modes)
    OBVIOUS
  <2>1. FoundPreferred(modes, Len(modes), w) /\ exact = {} /\ ~ forced
    BY <1>5 DEF Found, exactModes, Asked
  <2>2. best = 0
    BY <1>1, <1>5, <1>6, <2>1 DEF FoundPreferred, preferredModes
  <2>3. DOMAIN modes # {} /\ f = modes[1]
    BY <1>15, <2>1, <2>2
  <2>4. Min(DOMAIN modes) = 1
    BY <1>1, <2>3, SmallestIs
  <2> QED
    BY <1>7, <1>11, <2>1, <2>3, <2>4 DEF IsFirstOf
<1>19. ~ Wants(r) => IsFirst(IF preferred # {} THEN preferred ELSE DOMAIN modes)
  BY <1>17, <1>18
<1> QED
  BY <1>10, <1>12, <1>13, <1>16, <1>19 DEF BestMode

(* A driven display has a mode that find_mode returned for its connector.  *)
ModeInv ==
    \A d \in driven :
        outputs[d].mode \in find_mode(card.connectors[outputs[d].connector].modes, card.request)

LEMMA InitModeInv ==
    ASSUME SetupTyped, ModeInv, UNCHANGED card, NEW d \in Outputs, NEW c, NEW ret,
           init_with_connector(d, c, ret)
    PROVE  ModeInv'
<1>1. CASE UNCHANGED <<outputs, driven>>
  BY <1>1 DEF ModeInv
<1>2. CASE ~ UNCHANGED <<outputs, driven>>
  <2> DEFINE modes == card.connectors[c].modes
  <2>1. PICK m \in find_mode(modes, card.request) :
            /\ driven' = driven \cup {d}
            /\ outputs' = [outputs EXCEPT ![d] =
                    [crtc |-> freeCrtc(card.connectors[c]),
                     plane |-> primaryPlane(freeCrtc(card.connectors[c])),
                     connector |-> c, mode |-> m]]
    BY <1>2 DEF init_with_connector
  <2>2. DOMAIN outputs = Outputs
    BY DEF SetupTyped
  <2>3. outputs'[d].mode = m /\ outputs'[d].connector = c
    BY <2>1, <2>2
  <2>4. \A e \in driven : e # d => outputs'[e] = outputs[e]
    BY <2>1, <2>2 DEF SetupTyped, SetupTypeOK
  <2> QED
    BY <2>1, <2>3, <2>4 DEF ModeInv
<1> QED
  BY <1>1, <1>2

LEMMA StepModeInv == SetupInv /\ ModeInv /\ [SetupNext]_kmsVars => ModeInv'
<1> SUFFICES ASSUME SetupInv, ModeInv, [SetupNext]_kmsVars PROVE ModeInv'
  OBVIOUS
<1>1. SetupTyped /\ 0 \in Outputs /\ 1 \in Outputs
  BY DEF SetupInv, Outputs
<1>2. CASE UNCHANGED <<card, outputs, driven>>
  BY <1>2 DEF ModeInv
<1>3. CASE InitPrimary
  BY <1>1, <1>2, <1>3, InitModeInv DEF InitPrimary
<1>4. CASE InitSecondary
  BY <1>1, <1>2, <1>4, InitModeInv DEF InitSecondary
<1>5. CASE TryConnector
  BY <1>1, <1>2, <1>5, InitModeInv DEF TryConnector
<1>6. CASE EnforceConnector
  BY <1>1, <1>6, InitModeInv DEF EnforceConnector
<1>7. CASE OpenCard \/ SkipFallback \/ NoConnector \/ UNCHANGED kmsVars
  BY <1>2, <1>7 DEF OpenCard, SkipFallback, NoConnector, kmsVars
<1> QED
  BY <1>3, <1>4, <1>5, <1>6, <1>7 DEF SetupNext

(* The mode of a driven display is the best one of its connector, and one  *)
(* that does not disturb Wifi (find_mode).  The distances it compares have *)
(* to fit into its int: those of listed and requested sizes up to 32767 do.*)
THEOREM ModesAreBest ==
    ASSUME \A c \in Cards : \A n \in DOMAIN c.connectors :
                DistancesFit(c.connectors[n].modes, c.request)
    PROVE  SetupSpec => []ModeIsBest
<1>1. SetupInv /\ ModeInv => ModeIsBest
  <2> SUFFICES ASSUME SetupInv, ModeInv, NEW d \in driven
               PROVE  BestMode(outputs[d].mode, card.connectors[outputs[d].connector].modes,
                               card.request)
    BY DEF ModeIsBest
  <2> DEFINE c == outputs[d].connector
             modes == card.connectors[c].modes
  <2>1. card \in Cards /\ c \in DOMAIN card.connectors
    BY DEF SetupInv, SetupTyped, AssignedInv, Assigned, Connectors
  <2>2. DistancesFit(modes, card.request)
    BY <2>1
  <2>3. modes \in Seq(Modes)
    <3>1. card.connectors[c] \in ConnectorEntries
      BY <2>1, TablesAre
    <3> QED
      BY <3>1 DEF ConnectorEntries
  <2>4. card.request \in Request
    BY <2>1, KmsAssumption DEF Request
  <2>5. outputs[d].mode \in find_mode(modes, card.request)
    BY DEF ModeInv
  <2> HIDE DEF modes
  <2>6. BestMode(outputs[d].mode, modes, card.request)
    BY <2>2, <2>3, <2>4, <2>5, FindModeIs
  <2> QED
    BY <2>6 DEF modes
<1>2. SetupInit => ModeInv
  BY DEF SetupInit, ModeInv
<1> QED
  BY <1>1, <1>2, StepModeInv, SetupInvariance, PTL DEF SetupSpec

=============================================================================
