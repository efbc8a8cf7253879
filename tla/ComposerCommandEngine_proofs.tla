-------------------- MODULE ComposerCommandEngine_proofs --------------------
(***************************************************************************)
(* For every number of layers and every set of displays a client may name: *)
(* the safety of the validate/accept/present protocol.                     *)
(*                                                                         *)
(* DirtyMatchesView is not inductive by itself.  Accepting clears the      *)
(* whole dirty set, so it needs ReportIsExact; that needs the count taken  *)
(* before the fetch to be still right (CountIsExact) and the display of a  *)
(* running validation to be a valid one (InsideValidation); creating       *)
(* a layer needs its id to be new to the client as well (IdsIssued).       *)
(***************************************************************************)
EXTENDS ComposerCommandEngine, FiniteSetTheorems, TLAPS

IdsIssued == mLayers \cup clientComposed \cup told \subseteq 1 .. mNextLayerId

CountIsExact ==
    "fill" \in todo /\ mState # "MODIFIED" => typesCount = Cardinality(mDirtyLayers)

InsideValidation ==
    todo \cap {"count", "fill"} # {} =>
        /\ display \in Displays
        /\ todo \cap {"layers", "validate"} = {}
        /\ ~({"count", "fill"} \subseteq todo)

IInv ==
    /\ TypeOK
    /\ IdsIssued
    /\ DirtyMatchesView
    /\ ValidatedIsClean
    /\ ReportIsExact
    /\ CountIsExact
    /\ InsideValidation

-----------------------------------------------------------------------------
(* A dirty set is finite, and its size is a value typesCount can have. *)
LEMMA DirtyFinite ==
    ASSUME DeviceTypeOK
    PROVE  IsFiniteSet(mDirtyLayers) /\ Cardinality(mDirtyLayers) \in 0 .. MaxLayerId
<1>1. IsFiniteSet(LayerIds) /\ Cardinality(LayerIds) = MaxLayerId
  BY FS_Interval, MaxLayerIdAssumption DEF LayerIds
<1>2. IsFiniteSet(mDirtyLayers) /\ Cardinality(mDirtyLayers) <= Cardinality(LayerIds)
  BY <1>1, FS_Subset DEF DeviceTypeOK
<1>3. Cardinality(mDirtyLayers) \in Nat
  BY <1>2, FS_CardinalityType
<1> QED
  BY <1>1, <1>2, <1>3, MaxLayerIdAssumption

(* A fetch with exactly the room that is needed returns the whole dirty    *)
(* set, and the reply is not padded.                                       *)
LEMMA FullFetch ==
    ASSUME DeviceTypeOK,
           typesCount = Cardinality(mDirtyLayers),
           NEW S \in ChangedLayers(typesCount)
    PROVE  S = mDirtyLayers /\ Reply(S) = mDirtyLayers
<1>1. IsFiniteSet(mDirtyLayers) /\ Cardinality(mDirtyLayers) \in Nat
  BY DirtyFinite
<1>2. S \subseteq mDirtyLayers
  BY DEF ChangedLayers
<1>3. S = mDirtyLayers
  <2>1. CASE Cardinality(S) = typesCount
    BY <1>1, <1>2, <2>1, FS_Subset
  <2>2. CASE S = mDirtyLayers
    BY <2>2
  <2> QED
    BY <2>1, <2>2 DEF ChangedLayers
<1> QED
  BY <1>1, <1>3 DEF Reply

(* Every fetch returns dirty layers, and pads with 0 only. *)
LEMMA FetchedAreDirty ==
    ASSUME NEW n, NEW S \in ChangedLayers(n)
    PROVE  Reply(S) \subseteq mDirtyLayers \cup {0}
BY DEF ChangedLayers, Reply

LEMMA InitIInv == Init => IInv
<1> SUFFICES ASSUME Init PROVE IInv
  OBVIOUS
<1> USE MaxLayerIdAssumption DEF Init, DeviceInit
<1>1. DeviceTypeOK
  BY DEF DeviceTypeOK, States
<1>2. {mMustValidateDisplay, posted, disturbed} \subseteq BOOLEAN
  BY Zenon
<1>3. TypeOK
  BY <1>1, <1>2 DEF TypeOK
<1> QED
  BY <1>3 DEF IInv, IdsIssued, DirtyMatchesView, ValidatedIsClean, ReportIsExact,
              CountIsExact, InsideValidation

-----------------------------------------------------------------------------
LEMMA BeginCommandIInv == IInv /\ BeginCommand => IInv'
<1> SUFFICES ASSUME IInv, BeginCommand PROVE IInv'
  OBVIOUS
<1> USE DEF IInv, BeginCommand, deviceVars
<1>1. TypeOK'
  BY DEF TypeOK, DeviceTypeOK, Stages, Parts
<1>2. todo' \cap {"count", "fill"} = {}
  BY DEF Parts
<1> QED
  BY <1>1, <1>2 DEF IdsIssued, DirtyMatchesView, ValidatedIsClean, ReportIsExact,
                    CountIsExact, InsideValidation

(* A layer command leaves MODIFIED behind, or nothing. *)
LEMMA SetLayerCompositionIInv == IInv /\ SetLayerComposition => IInv'
<1> SUFFICES ASSUME IInv, SetLayerComposition PROVE IInv'
  OBVIOUS
<1> USE DEF IInv, SetLayerComposition, Done
<1>0. todo' = todo \ {"layers"}
  OBVIOUS
<1>1. CASE UNCHANGED <<deviceVars, clientComposed>>
  BY <1>0, <1>1 DEF deviceVars, TypeOK, DeviceTypeOK, IdsIssued, DirtyMatchesView,
    ValidatedIsClean, ReportIsExact, CountIsExact, InsideValidation
<1>2. CASE /\ layerCommand.layer \in mLayers
           /\ mState' = "MODIFIED"
           /\ UNCHANGED <<mNextLayerId, mLayers>>
           /\ \/ /\ mDirtyLayers' = mDirtyLayers \cup {layerCommand.layer}
                 /\ clientComposed' = clientComposed \ {layerCommand.layer}
              \/ /\ mDirtyLayers' = mDirtyLayers \ {layerCommand.layer}
                 /\ clientComposed' = clientComposed \cup {layerCommand.layer}
  <2>1. TypeOK'
    BY <1>0, <1>2 DEF TypeOK, DeviceTypeOK, States
  <2> QED
    BY <1>0, <1>2, <2>1 DEF TypeOK, IdsIssued, DirtyMatchesView, ValidatedIsClean,
      ReportIsExact, CountIsExact, InsideValidation
<1> QED
  BY <1>1, <1>2 DEF deviceSetLayerCompositionType, Fails, deviceVars

LEMMA ValidateIInv ==
    ASSUME NEW stage \in {"validate", "presentOrValidate"}, IInv, Validate(stage)
    PROVE  IInv'
<1> USE DEF IInv, Validate, Done
<1>1. CASE display \notin Displays
  <2>1. UNCHANGED deviceVars /\ todo' = todo \ {stage}
    BY <1>1 DEF deviceValidateDisplay, Fails
  <2> QED
    BY <2>1, ZenonT(40) DEF deviceVars, TypeOK, DeviceTypeOK, IdsIssued, DirtyMatchesView,
      ValidatedIsClean, ReportIsExact, CountIsExact, InsideValidation
<1>2. CASE display \in Displays
  <2>1. /\ todo' = (todo \ {stage}) \cup {"count"}
        /\ mState' = IF mDirtyLayers # {} THEN "VALIDATED_WITH_CHANGES" ELSE "VALIDATED"
        /\ UNCHANGED <<mNextLayerId, mLayers, mDirtyLayers>>
    BY <1>2 DEF deviceValidateDisplay
  <2>2. todo' \cap {"layers", "validate", "fill"} = {}
    <3>1. CASE stage = "validate"
      BY <2>1, <3>1 DEF At, Rank, InsideValidation
    <3>2. CASE stage = "presentOrValidate"
      BY <2>1, <3>2 DEF At, Rank
    <3> QED
      BY <3>1, <3>2
  <2>3. TypeOK'
    BY <2>1 DEF TypeOK, DeviceTypeOK, States, Stages
  <2> QED
    BY <1>2, <2>1, <2>2, <2>3 DEF IdsIssued, DirtyMatchesView,
      ValidatedIsClean, ReportIsExact, CountIsExact, InsideValidation
<1> QED
  BY <1>1, <1>2

(* Counting fails only when another thread made the device MODIFIED. *)
LEMMA CountChangedIInv == IInv /\ CountChanged => IInv'
<1> SUFFICES ASSUME IInv, CountChanged PROVE IInv'
  OBVIOUS
<1> USE DEF IInv, CountChanged, Done
<1>0. display \in Displays /\ "count" \in todo
  BY DEF At, InsideValidation
<1>1. UNCHANGED deviceVars
  BY DEF deviceGetChangedCompositionTypes, Fails
<1>2. CASE mState = "MODIFIED"
  <2>1. todo' = todo \ {"count"} /\ UNCHANGED typesCount
    BY <1>0, <1>2 DEF deviceGetChangedCompositionTypes, Fails
  <2> QED
    BY <1>0, <1>1, <1>2, <2>1 DEF deviceVars, TypeOK, DeviceTypeOK, IdsIssued,
      DirtyMatchesView, ValidatedIsClean, ReportIsExact, CountIsExact, InsideValidation
<1>3. CASE mState # "MODIFIED"
  <2>1. /\ todo' = (todo \ {"count"}) \cup {"fill"}
        /\ typesCount' = Cardinality(mDirtyLayers)
    BY <1>0, <1>3 DEF deviceGetChangedCompositionTypes, Fails
  <2>2. TypeOK'
    BY <1>1, <2>1, DirtyFinite DEF deviceVars, TypeOK, DeviceTypeOK, Stages
  <2> QED
    BY <1>0, <1>1, <2>1, <2>2 DEF deviceVars, IdsIssued,
      DirtyMatchesView, ValidatedIsClean, ReportIsExact, CountIsExact, InsideValidation
<1> QED
  BY <1>2, <1>3

(* The fetch establishes ReportIsExact. *)
LEMMA FillChangedIInv == IInv /\ FillChanged => IInv'
<1> SUFFICES ASSUME IInv, FillChanged PROVE IInv'
  OBVIOUS
<1> USE DEF IInv, FillChanged, Done
<1>0. display \in Displays /\ "fill" \in todo /\ todo' = todo \ {"fill"}
  BY DEF At, InsideValidation
<1>1. UNCHANGED deviceVars
  BY DEF deviceGetChangedCompositionTypes, Fails
<1>2. CASE mState = "MODIFIED"
  <2>1. UNCHANGED told
    BY <1>0, <1>2 DEF deviceGetChangedCompositionTypes, Fails
  <2> QED
    BY <1>0, <1>1, <1>2, <2>1 DEF deviceVars, TypeOK, DeviceTypeOK, IdsIssued,
      DirtyMatchesView, ValidatedIsClean, ReportIsExact, CountIsExact, InsideValidation
<1>3. CASE mState # "MODIFIED"
  <2>1. PICK S \in ChangedLayers(typesCount) : told' = Reply(S)
    BY <1>0, <1>3 DEF deviceGetChangedCompositionTypes, Fails
  <2>2. told' = mDirtyLayers
    BY <1>0, <1>3, <2>1, FullFetch DEF CountIsExact, TypeOK
  <2>3. TypeOK'
    BY <1>0, <1>1, <2>2 DEF deviceVars, TypeOK, DeviceTypeOK
  <2> QED
    BY <1>0, <1>1, <2>2, <2>3 DEF deviceVars, IdsIssued,
      DirtyMatchesView, ValidatedIsClean, ReportIsExact, CountIsExact, InsideValidation
<1> QED
  BY <1>2, <1>3

(* Accepting hands over exactly the dirty layers. *)
LEMMA AcceptDisplayChangesIInv == IInv /\ AcceptDisplayChanges => IInv'
<1> SUFFICES ASSUME IInv, AcceptDisplayChanges PROVE IInv'
  OBVIOUS
<1> USE DEF IInv, AcceptDisplayChanges, Done
<1>0. todo \cap {"count", "fill"} = {} /\ todo' = todo \ {"accept"}
  BY DEF At, Rank
<1>1. CASE UNCHANGED <<deviceVars, clientComposed, told>>
  BY <1>0, <1>1 DEF deviceVars, TypeOK, DeviceTypeOK, IdsIssued,
    DirtyMatchesView, ValidatedIsClean, ReportIsExact, CountIsExact, InsideValidation
<1>2. CASE /\ mState # "MODIFIED"
           /\ mDirtyLayers' = {}
           /\ mState' = "VALIDATED"
           /\ UNCHANGED <<mNextLayerId, mLayers>>
           /\ clientComposed' = clientComposed \cup told
           /\ told' = {}
  <2>1. mDirtyLayers \subseteq told
    BY <1>0, <1>2 DEF TypeOK, DeviceTypeOK, States, ReportIsExact, ValidatedIsClean
  <2>2. told \subseteq LayerIds
    BY DEF IdsIssued, LayerIds, TypeOK
  <2> QED
    BY <1>0, <1>2, <2>1, <2>2 DEF TypeOK, DeviceTypeOK, States, IdsIssued,
      DirtyMatchesView, ValidatedIsClean, ReportIsExact, CountIsExact, InsideValidation
<1> QED
  BY <1>1, <1>2 DEF deviceAcceptDisplayChanges, Fails

LEMMA PresentDisplayIInv == IInv /\ PresentDisplay => IInv'
<1> SUFFICES ASSUME IInv, PresentDisplay PROVE IInv'
  OBVIOUS
<1>1. UNCHANGED deviceVars /\ todo' = todo \ {"present"} /\ posted' \in BOOLEAN
  BY DEF IInv, TypeOK, PresentDisplay, Done, devicePresentDisplay, Fails
<1> QED
  BY <1>1 DEF IInv, PresentDisplay, deviceVars, TypeOK, DeviceTypeOK, IdsIssued,
    DirtyMatchesView, ValidatedIsClean, ReportIsExact, CountIsExact, InsideValidation

(* A new layer is dirty and unknown to the client, which draws only layers *)
(* it was given.                                                           *)
LEMMA CreateLayerIInv ==
    ASSUME NEW d, IInv, CreateLayer(d)
    PROVE  IInv'
<1> USE DEF IInv, CreateLayer, engineVars
<1>0. disturbed' \in BOOLEAN
  BY DEF Disturb
<1>1. CASE UNCHANGED deviceVars
  BY <1>0, <1>1 DEF deviceVars, TypeOK, DeviceTypeOK, IdsIssued,
    DirtyMatchesView, ValidatedIsClean, ReportIsExact, CountIsExact, InsideValidation
<1>2. CASE /\ mNextLayerId < MaxLayerId
           /\ mNextLayerId' = mNextLayerId + 1
           /\ mLayers' = mLayers \cup {mNextLayerId'}
           /\ mDirtyLayers' = mDirtyLayers \cup {mNextLayerId'}
           /\ mState' = "MODIFIED"
  <2>1. mNextLayerId' \in LayerIds /\ mNextLayerId' \notin clientComposed
    BY <1>2, MaxLayerIdAssumption DEF TypeOK, DeviceTypeOK, LayerIds, IdsIssued
  <2>2. TypeOK'
    BY <1>0, <1>2, <2>1, MaxLayerIdAssumption DEF TypeOK, DeviceTypeOK, States, LayerIds
  <2>3. IdsIssued'
    BY <1>2, MaxLayerIdAssumption DEF TypeOK, DeviceTypeOK, IdsIssued
  <2> QED
    BY <1>2, <2>1, <2>2, <2>3 DEF DirtyMatchesView, ValidatedIsClean, ReportIsExact,
      CountIsExact, InsideValidation
<1> QED
  BY <1>1, <1>2 DEF deviceCreateLayer, Fails

(* Destroying a layer that does not exist changes neither set. *)
LEMMA DestroyLayerIInv ==
    ASSUME NEW d, NEW layer \in LayerIds, IInv, DestroyLayer(d, layer)
    PROVE  IInv'
<1> USE DEF IInv, DestroyLayer, engineVars
<1>0. disturbed' \in BOOLEAN
  BY DEF Disturb
<1>1. CASE d \notin Displays
  <2>1. UNCHANGED <<deviceVars, clientComposed>>
    BY <1>1 DEF deviceDestroyLayer, Fails
  <2> QED
    BY <1>0, <2>1 DEF deviceVars, TypeOK, DeviceTypeOK, IdsIssued,
      DirtyMatchesView, ValidatedIsClean, ReportIsExact, CountIsExact, InsideValidation
<1>2. CASE d \in Displays
  <2>1. /\ mDirtyLayers' = mDirtyLayers \ {layer}
        /\ mLayers' = mLayers \ {layer}
        /\ clientComposed' = clientComposed \ {layer}
        /\ mState' = IF layer \in mLayers THEN "MODIFIED" ELSE mState
        /\ UNCHANGED mNextLayerId
    BY <1>2 DEF deviceDestroyLayer
  <2>2. layer \notin mLayers => UNCHANGED mDirtyLayers
    BY <2>1 DEF DirtyMatchesView
  <2>3. TypeOK'
    BY <1>0, <2>1 DEF TypeOK, DeviceTypeOK, States
  <2> QED
    BY <2>1, <2>2, <2>3 DEF IdsIssued, DirtyMatchesView, ValidatedIsClean, ReportIsExact,
      CountIsExact, InsideValidation
<1> QED
  BY <1>1, <1>2

LEMMA StepIInv == IInv /\ [Next]_vars => IInv'
<1> SUFFICES ASSUME IInv, [Next]_vars PROVE IInv'
  OBVIOUS
<1>1. CASE BeginCommand
  BY <1>1, BeginCommandIInv
<1>2. CASE SetLayerComposition
  BY <1>2, SetLayerCompositionIInv
<1>3. CASE ValidateDisplay
  BY <1>3, ValidateIInv DEF ValidateDisplay
<1>4. CASE PresentOrValidateDisplay
  BY <1>4, ValidateIInv DEF PresentOrValidateDisplay
<1>5. CASE CountChanged
  BY <1>5, CountChangedIInv
<1>6. CASE FillChanged
  BY <1>6, FillChangedIInv
<1>7. CASE AcceptDisplayChanges
  BY <1>7, AcceptDisplayChangesIInv
<1>8. CASE PresentDisplay
  BY <1>8, PresentDisplayIInv
<1>9. CASE \E d \in CalledDisplays : CreateLayer(d)
  BY <1>9, CreateLayerIInv
<1>10. CASE \E d \in CalledDisplays, layer \in LayerIds : DestroyLayer(d, layer)
  BY <1>10, DestroyLayerIInv
<1>11. CASE RegisterEventCallback \/ UNCHANGED vars
  <2>1. UNCHANGED <<deviceVars, engineVars, clientComposed, disturbed>>
    BY <1>11 DEF RegisterEventCallback, vars
  <2>2. mMustValidateDisplay' \in BOOLEAN
    BY <1>11 DEF RegisterEventCallback, vars, IInv, TypeOK
  <2> QED
    BY <2>1, <2>2 DEF deviceVars, engineVars, IInv, TypeOK, DeviceTypeOK, IdsIssued,
      DirtyMatchesView, ValidatedIsClean, ReportIsExact, CountIsExact, InsideValidation
<1> QED
  BY <1>1, <1>2, <1>3, <1>4, <1>5, <1>6, <1>7, <1>8, <1>9, <1>10, <1>11 DEF Next

-----------------------------------------------------------------------------
(* The strengthened invariant holds in every reachable state. *)
THEOREM Invariance == Spec => []IInv
BY InitIInv, StepIInv, PTL DEF Spec

(* Every variable keeps its type: ids stay in range, the reply names only  *)
(* ids of layers or the padding entry.                                     *)
THEOREM TypeCorrectness == Spec => []TypeOK
<1>1. IInv => TypeOK
  BY DEF IInv
<1> QED
  BY <1>1, Invariance, PTL

(* The device's dirty set is exactly what the client has yet to be told,   *)
(* whatever other threads create and destroy during a validation.          *)
THEOREM DirtyMatchesViewAlways == Spec => []DirtyMatchesView
<1>1. IInv => DirtyMatchesView
  BY DEF IInv
<1> QED
  BY <1>1, Invariance, PTL

(* No pending change in the state from which a frame may be posted. *)
THEOREM ValidatedIsCleanAlways == Spec => []ValidatedIsClean
<1>1. IInv => ValidatedIsClean
  BY DEF IInv
<1> QED
  BY <1>1, Invariance, PTL

(* A finished validation told the client the whole dirty set, unpadded. *)
THEOREM ReportIsExactAlways == Spec => []ReportIsExact
<1>1. IInv => ReportIsExact
  BY DEF IInv
<1> QED
  BY <1>1, Invariance, PTL

(* The two views agree and a post needs VALIDATED, so at a post the client *)
(* draws every layer.                                                      *)
THEOREM FramesOnlyClientComposited == Spec => PostsOnlyClientComposited
<1>1. IInv /\ [Next]_vars => [posted' /\ ~posted => mLayers \subseteq clientComposed]_vars
  <2> SUFFICES ASSUME IInv, Next, posted', ~posted
               PROVE  mLayers \subseteq clientComposed
    OBVIOUS
  <2>1. PresentDisplay
    BY DEF Next, BeginCommand, SetLayerComposition, ValidateDisplay,
      PresentOrValidateDisplay, Validate, CountChanged, FillChanged, AcceptDisplayChanges,
      CreateLayer, DestroyLayer, RegisterEventCallback, engineVars
  <2>2. mState = "VALIDATED"
    BY <2>1 DEF PresentDisplay, devicePresentDisplay, Fails
  <2> QED
    BY <2>2 DEF IInv, ValidatedIsClean, DirtyMatchesView
<1> QED
  BY <1>1, Invariance, PTL DEF Spec, PostsOnlyClientComposited

-----------------------------------------------------------------------------
(* A full command, from its validation to its frame.  Nothing but another  *)
(* thread takes the device back to MODIFIED once it is validated.          *)
Full == {"validate", "accept", "present"} \subseteq request /\ display \in Displays

CommandInv ==
    Full /\ ~disturbed =>
        /\ "layers" \in todo => "validate" \in todo
        /\ "validate" \in todo => "accept" \in todo
        /\ "accept" \in todo => "present" \in todo
        /\ "present" \in todo /\ "validate" \notin todo =>
                ~mMustValidateDisplay /\ mState # "MODIFIED"
        /\ "present" \in todo /\ "accept" \notin todo => mState = "VALIDATED"
        /\ "present" \notin todo => posted

LEMMA StageOrder ==
    /\ \A s \in {"accept", "present", "presentOrValidate"} : At(s) => "validate" \notin todo
    /\ \A s \in {"present", "presentOrValidate"} : At(s) => "accept" \notin todo
    /\ At("presentOrValidate") => "present" \notin todo
    /\ \A s \in Stages \ {"layers"} : At(s) => "layers" \notin todo
BY DEF At, Rank, Stages, Parts

LEMMA InitCommandInv == Init => CommandInv
BY DEF Init, CommandInv, Full

LEMMA StepCommandInv == CommandInv /\ [Next]_vars => CommandInv'
<1> SUFFICES ASSUME CommandInv, [Next]_vars PROVE CommandInv'
  OBVIOUS
<1> USE DEF CommandInv, Full
<1>1. CASE BeginCommand
  BY <1>1 DEF BeginCommand
<1>2. CASE SetLayerComposition
  <2>1. "layers" \in todo /\ todo' = todo \ {"layers"}
    BY <1>2 DEF SetLayerComposition, At, Done
  <2>2. UNCHANGED <<request, display, disturbed, posted, mMustValidateDisplay>>
    BY <1>2 DEF SetLayerComposition
  <2> QED
    BY <2>1, <2>2
<1>3. CASE ValidateDisplay \/ PresentOrValidateDisplay
  <2>1. PICK stage \in {"validate", "presentOrValidate"} : Validate(stage)
    BY <1>3 DEF ValidateDisplay, PresentOrValidateDisplay
  <2>2. UNCHANGED <<request, display, disturbed, posted>> /\ ~mMustValidateDisplay'
    BY <2>1 DEF Validate
  <2>3. CASE display \in Displays
    <3>1. todo' = (todo \ {stage}) \cup {"count"} /\ mState' # "MODIFIED"
      BY <2>1, <2>3 DEF Validate, deviceValidateDisplay
    <3>2. "layers" \notin todo /\ stage \in todo /\ At(stage)
      BY <2>1, StageOrder DEF Validate, At, Stages, Parts
    <3>3. CASE stage = "validate"
      BY <2>2, <3>1, <3>2, <3>3
    <3>4. CASE stage = "presentOrValidate"
      BY <2>2, <3>1, <3>2, <3>4, StageOrder
    <3> QED
      BY <3>3, <3>4
  <2> QED
    BY <2>2, <2>3
<1>4. CASE CountChanged \/ FillChanged
  <2>1. /\ todo' \cup {"count", "fill"} = todo \cup {"count", "fill"}
        /\ UNCHANGED <<request, display, disturbed, posted, mMustValidateDisplay, mState>>
    BY <1>4 DEF CountChanged, FillChanged, At, Done, deviceGetChangedCompositionTypes, Fails,
                deviceVars
  <2>2. \A s \in Parts : s \in todo' <=> s \in todo
    BY <2>1 DEF Parts
  <2> QED
    BY <2>1, <2>2 DEF Parts
<1>5. CASE AcceptDisplayChanges
  <2>1. /\ todo' = todo \ {"accept"} /\ At("accept") /\ "accept" \in todo
        /\ UNCHANGED <<request, display, disturbed, posted, mMustValidateDisplay>>
    BY <1>5 DEF AcceptDisplayChanges, Done, At
  <2>2. display \in Displays /\ mState # "MODIFIED" => mState' = "VALIDATED"
    BY <1>5 DEF AcceptDisplayChanges, deviceAcceptDisplayChanges
  <2> QED
    BY <2>1, <2>2, StageOrder
<1>6. CASE PresentDisplay
  <2>1. /\ todo' = todo \ {"present"} /\ At("present") /\ "present" \in todo
        /\ UNCHANGED <<request, display, disturbed, mMustValidateDisplay, mState>>
    BY <1>6 DEF PresentDisplay, Done, At, devicePresentDisplay, Fails, deviceVars
  <2>2. display \in Displays /\ mState = "VALIDATED" /\ ~mMustValidateDisplay => posted'
    BY <1>6 DEF PresentDisplay, devicePresentDisplay, Fails
  <2>3. "accept" \notin todo /\ "validate" \notin todo /\ "layers" \notin todo
    BY <2>1, StageOrder DEF Stages, Parts
  <2> QED
    BY <2>1, <2>2, <2>3
<1>7. CASE \/ \E d \in CalledDisplays : CreateLayer(d)
           \/ \E d \in CalledDisplays, layer \in LayerIds : DestroyLayer(d, layer)
  <2>1. /\ UNCHANGED <<request, display, todo, posted>>
        /\ disturbed' = (disturbed \/ todo # {})
    BY <1>7 DEF CreateLayer, DestroyLayer, Disturb, engineVars
  <2> QED
    BY <2>1
<1>8. CASE RegisterEventCallback
  BY <1>8 DEF RegisterEventCallback, engineVars
<1>9. CASE UNCHANGED vars
  BY <1>9 DEF vars, engineVars, deviceVars
<1> QED
  BY <1>1, <1>2, <1>3, <1>4, <1>5, <1>6, <1>7, <1>8, <1>9 DEF Next

(* A command that validates, accepts and presents gets its frame out       *)
(* unless another thread created or destroyed a layer meanwhile: the error *)
(* that executePresentDisplay drops is never of the command's own making.  *)
THEOREM FullCommandsPost == Spec => []FullCommandPosts
<1>1. CommandInv => FullCommandPosts
  BY DEF CommandInv, Full, FullCommandPosts
<1> QED
  BY <1>1, InitCommandInv, StepCommandInv, PTL DEF Spec

=============================================================================
