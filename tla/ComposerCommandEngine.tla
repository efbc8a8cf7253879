----------------------- MODULE ComposerCommandEngine -----------------------
(***************************************************************************)
(* The command thread of a composer client, against the device.            *)
(*                                                                         *)
(* ComposerCommandEngine::dispatchDisplayCommand runs the parts of one     *)
(* DisplayCommand in a fixed order: layer commands, validate, accept,      *)
(* present, presentOrValidate.  Validating is three device calls           *)
(* (ComposerHal::validateDisplay): validate, count the changed layers,     *)
(* fetch them.  No lock is held over them and the binder pool has five     *)
(* threads, so createLayer and destroyLayer of ComposerClient may come     *)
(* between any two.  There is one command thread: the engine's writer and  *)
(* command index are not protected, and the service does not offer the     *)
(* capability that lets a client present from several threads.             *)
(*                                                                         *)
(* clientComposed is the view of the client (SurfaceFlinger): the layers   *)
(* it knows it has to draw into the client target itself.                  *)
(***************************************************************************)
EXTENDS HwcDevice

CONSTANT
    CalledDisplays      \* display ids a client passes, valid or not

ASSUME CalledDisplaysAssumption == CalledDisplays \subseteq Nat

VARIABLES
    mMustValidateDisplay,   \* ComposerHal: nothing was validated since registration
    display,                \* the command under way: its display,
    layerCommand,           \*   its layer command (layer, composition type),
    request,                \*   the parts it asks for,
    todo,                   \*   and the parts still to run; {} when there is none
    typesCount,             \* local of ComposerHal::validateDisplay
    told,                   \* changed layers written to the last reply
    clientComposed,         \* layers the client draws itself
    posted,                 \* the command under way handed a frame to hwc_post
    disturbed               \* another thread changed the device during it

engineVars == <<display, layerCommand, request, todo, typesCount, told, posted>>
vars == <<deviceVars, mMustValidateDisplay, engineVars, clientComposed, disturbed>>

Parts  == {"layers", "validate", "accept", "present", "presentOrValidate"}
Stages == Parts \cup {"count", "fill"}
Types  == {"CLIENT", "DEVICE"}      \* DEVICE stands for every other type

(* The order in which dispatchDisplayCommand and validateDisplay run. *)
Rank == [layers |-> 1, validate |-> 2, count |-> 3, fill |-> 4, accept |-> 5,
         present |-> 6, presentOrValidate |-> 7]

At(stage) == stage \in todo /\ \A s \in todo : Rank[stage] <= Rank[s]

Done(stage) == todo' = todo \ {stage}

TypeOK ==
    /\ DeviceTypeOK
    /\ mMustValidateDisplay \in BOOLEAN
    /\ display \in CalledDisplays \cup {0}
    /\ layerCommand \in [layer : LayerIds, type : Types] \cup {<<>>}
    /\ request \subseteq Parts
    /\ todo \subseteq Stages
    /\ typesCount \in 0 .. MaxLayerId
    /\ told \subseteq LayerIds \cup {0}
    /\ clientComposed \subseteq LayerIds
    /\ posted \in BOOLEAN
    /\ disturbed \in BOOLEAN

Init ==
    /\ DeviceInit
    /\ mMustValidateDisplay = TRUE
    /\ display = 0
    /\ layerCommand = <<>>
    /\ request = {}
    /\ todo = {}
    /\ typesCount = 0
    /\ told = {}
    /\ clientComposed = {}
    /\ posted = FALSE
    /\ disturbed = FALSE

-----------------------------------------------------------------------------
(* The command thread. *)

BeginCommand ==
    /\ todo = {}
    /\ display' \in CalledDisplays
    /\ request' \in (SUBSET Parts) \ {{}}
    /\ todo' = request'
    /\ layerCommand' \in IF "layers" \in request'
                         THEN [layer : LayerIds, type : Types] ELSE {<<>>}
    /\ posted' = FALSE
    /\ disturbed' = FALSE
    /\ UNCHANGED <<deviceVars, mMustValidateDisplay, typesCount, told, clientComposed>>

SetLayerComposition ==
    /\ At("layers")
    /\ Done("layers")
    /\ \E err \in Errors :
        /\ deviceSetLayerCompositionType(display, layerCommand.layer, layerCommand.type, err)
        /\ clientComposed' =
            IF err # "NONE" THEN clientComposed
            ELSE IF layerCommand.type = "CLIENT" THEN clientComposed \cup {layerCommand.layer}
            ELSE clientComposed \ {layerCommand.layer}
    /\ UNCHANGED <<mMustValidateDisplay, display, layerCommand, request, typesCount,
                   told, posted, disturbed>>

(* mMustValidateDisplay is reset before the error is looked at. *)
Validate(stage) ==
    /\ At(stage)
    /\ \E err \in Errors :
        /\ deviceValidateDisplay(display, err)
        /\ IF err \in {"NONE", "HAS_CHANGES"}
           THEN todo' = (todo \ {stage}) \cup {"count"}
           ELSE Done(stage)
    /\ mMustValidateDisplay' = FALSE
    /\ UNCHANGED <<display, layerCommand, request, typesCount, told, clientComposed,
                   posted, disturbed>>

ValidateDisplay == Validate("validate")

(* The engine never presents without validating: it falls back to validate. *)
PresentOrValidateDisplay == Validate("presentOrValidate")

CountChanged ==
    /\ At("count")
    /\ \E err \in Errors :
        /\ deviceGetChangedCompositionTypes(display, err)
        /\ IF err = "NONE"
           THEN /\ todo' = (todo \ {"count"}) \cup {"fill"}
                /\ typesCount' = Cardinality(mDirtyLayers)
           ELSE Done("count") /\ UNCHANGED typesCount
    /\ UNCHANGED <<mMustValidateDisplay, display, layerCommand, request, told,
                   clientComposed, posted, disturbed>>

(* The reply vector has typesCount entries whatever the device filled in;  *)
(* an entry it did not fill stays 0, which no layer has as its id.         *)
Reply(S) == S \cup (IF Cardinality(S) < typesCount THEN {0} ELSE {})

FillChanged ==
    /\ At("fill")
    /\ Done("fill")
    /\ \E err \in Errors :
        /\ deviceGetChangedCompositionTypes(display, err)
        /\ IF err = "NONE"
           THEN \E S \in ChangedLayers(typesCount) : told' = Reply(S)
           ELSE UNCHANGED told
    /\ UNCHANGED <<mMustValidateDisplay, display, layerCommand, request, typesCount,
                   clientComposed, posted, disturbed>>

(* By accepting, the client takes over the layers it was told about. *)
AcceptDisplayChanges ==
    /\ At("accept")
    /\ Done("accept")
    /\ \E err \in Errors :
        /\ deviceAcceptDisplayChanges(display, err)
        /\ IF err = "NONE"
           THEN clientComposed' = clientComposed \cup told /\ told' = {}
           ELSE UNCHANGED <<clientComposed, told>>
    /\ UNCHANGED <<mMustValidateDisplay, display, layerCommand, request, typesCount,
                   posted, disturbed>>

(* A present that fails is dropped: the client gets no fence and no error. *)
PresentDisplay ==
    /\ At("present")
    /\ Done("present")
    /\ IF mMustValidateDisplay
       THEN UNCHANGED <<deviceVars, posted>>
       ELSE \E err \in Errors :
                devicePresentDisplay(display, err) /\ posted' = (err = "NONE")
    /\ UNCHANGED <<mMustValidateDisplay, display, layerCommand, request, typesCount,
                   told, clientComposed, disturbed>>

-----------------------------------------------------------------------------
(* The other binder threads. *)

(* Only a command under way can be disturbed. *)
Disturb == disturbed' = (disturbed \/ todo # {})

CreateLayer(d) ==
    /\ \E err \in Errors : deviceCreateLayer(d, err)
    /\ Disturb
    /\ UNCHANGED <<mMustValidateDisplay, engineVars, clientComposed>>

DestroyLayer(d, layer) ==
    /\ \E err \in Errors : deviceDestroyLayer(d, layer, err)
    /\ clientComposed' = IF d \in Displays THEN clientComposed \ {layer} ELSE clientComposed
    /\ Disturb
    /\ UNCHANGED <<mMustValidateDisplay, engineVars>>

(* A client registers before it sends its first command. *)
RegisterEventCallback ==
    /\ todo = {}
    /\ mMustValidateDisplay' = TRUE
    /\ UNCHANGED <<deviceVars, engineVars, clientComposed, disturbed>>

Next ==
    \/ BeginCommand
    \/ SetLayerComposition
    \/ ValidateDisplay
    \/ PresentOrValidateDisplay
    \/ CountChanged
    \/ FillChanged
    \/ AcceptDisplayChanges
    \/ PresentDisplay
    \/ \E d \in CalledDisplays : CreateLayer(d)
    \/ \E d \in CalledDisplays, layer \in LayerIds : DestroyLayer(d, layer)
    \/ RegisterEventCallback

Spec == Init /\ [][Next]_vars

-----------------------------------------------------------------------------
(* The dirty set is the difference between the two views: a layer is dirty *)
(* exactly when the client does not yet know that it has to draw it.  A    *)
(* dirty layer the client draws is asked for twice; a clean one it does    *)
(* not draw is missing from the screen.                                    *)
DirtyMatchesView == mDirtyLayers = mLayers \ clientComposed

(* In the state that lets a frame be posted there is nothing to accept,    *)
(* although validating, accepting and posting are separate calls and other *)
(* threads create and destroy layers between them.                         *)
ValidatedIsClean == mState = "VALIDATED" => mDirtyLayers = {}

(* Once a validation has answered, what it told the client is the whole    *)
(* dirty set and nothing else (no layer 0 padding the reply), for as long  *)
(* as accepting is allowed: accept clears no layer the client missed.      *)
ReportIsExact ==
    mState = "VALIDATED_WITH_CHANGES" /\ todo \cap {"count", "fill"} = {}
        => told = mDirtyLayers

(* A command that validates, accepts and presents gets its frame out,      *)
(* unless another thread touched the layers meanwhile: the error a present *)
(* swallows never comes from the command itself.                           *)
FullCommandPosts ==
    /\ todo = {}
    /\ {"validate", "accept", "present"} \subseteq request
    /\ display \in Displays
    /\ ~disturbed
    => posted

(* A frame is handed to hwc_post only when the client draws every layer    *)
(* that exists: the device composites none, so no layer is left out.       *)
PostsOnlyClientComposited ==
    [][posted' /\ ~posted => mLayers \subseteq clientComposed]_vars

=============================================================================
