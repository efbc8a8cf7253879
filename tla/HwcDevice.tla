----------------------------- MODULE HwcDevice -----------------------------
(***************************************************************************)
(* The layer table and the validate/accept/present state machine of        *)
(* Hwc2Device (graphics/composer/aidl/Hwc2Device.cpp).  One Hwc2Device     *)
(* serves both displays: the state, the layer ids and the dirty set belong *)
(* to the device, the display of a call is only checked.                   *)
(*                                                                         *)
(* Each operation is an action whose last parameter is the error code the  *)
(* method returns; a caller picks the one outcome that is enabled with     *)
(* \E err \in Errors.  This module has no Next of its own: it is composed  *)
(* by ComposerCommandEngine.                                               *)
(***************************************************************************)
EXTENDS Naturals, FiniteSets

CONSTANT
    MaxLayerId      \* bound on mNextLayerId, a 64-bit counter in the code

ASSUME MaxLayerIdAssumption == MaxLayerId \in Nat

VARIABLES
    mState,         \* the State enumeration of Hwc2Device.h
    mNextLayerId,   \* the id given to the last layer created
    mLayers,        \* ids of the layers that exist
    mDirtyLayers    \* layers the device wants composited by the client

deviceVars == <<mState, mNextLayerId, mLayers, mDirtyLayers>>

Displays == {0, 1}                  \* the two ids every method accepts
LayerIds == 1 .. MaxLayerId
States   == {"MODIFIED", "VALIDATED_WITH_CHANGES", "VALIDATED"}
Errors   == {"NONE", "HAS_CHANGES", "BAD_DISPLAY", "BAD_LAYER", "NOT_VALIDATED"}

DeviceTypeOK ==
    /\ mState \in States
    /\ mNextLayerId \in 0 .. MaxLayerId
    /\ mLayers \subseteq LayerIds
    /\ mDirtyLayers \subseteq LayerIds

DeviceInit ==
    /\ mState = "MODIFIED"
    /\ mNextLayerId = 0
    /\ mLayers = {}
    /\ mDirtyLayers = {}

(* An early return: the call changes nothing. *)
Fails(err, code) == err = code /\ UNCHANGED deviceVars

(* Mutant: a new layer does not invalidate the last validation. *)
mutantCreateKeepsState(display, err) ==
    /\ mNextLayerId < MaxLayerId
    /\ err = "NONE"
    /\ mNextLayerId' = mNextLayerId + 1
    /\ mLayers' = mLayers \cup {mNextLayerId'}
    /\ mDirtyLayers' = mDirtyLayers \cup {mNextLayerId'}
    /\ UNCHANGED mState

(* addLayer, then setState(MODIFIED). *)
deviceCreateLayer(display, err) ==
    \/ display \notin Displays /\ Fails(err, "BAD_DISPLAY")
    \/ /\ display \in Displays
       /\ mNextLayerId < MaxLayerId
       /\ err = "NONE"
       /\ mNextLayerId' = mNextLayerId + 1
       /\ mLayers' = mLayers \cup {mNextLayerId'}
       /\ mDirtyLayers' = mDirtyLayers \cup {mNextLayerId'}
       /\ mState' = "MODIFIED"

(* Mutant: destroying a layer does not invalidate the last validation. *)
mutantDestroyKeepsState(display, layer, err) ==
    /\ display \in Displays
    /\ err = IF layer \in mLayers THEN "NONE" ELSE "BAD_LAYER"
    /\ mDirtyLayers' = mDirtyLayers \ {layer}
    /\ mLayers' = mLayers \ {layer}
    /\ UNCHANGED <<mState, mNextLayerId>>

(* removeLayer erases from both sets, whether or not the layer exists. *)
deviceDestroyLayer(display, layer, err) ==
    \/ display \notin Displays /\ Fails(err, "BAD_DISPLAY")
    \/ /\ display \in Displays
       /\ mDirtyLayers' = mDirtyLayers \ {layer}
       /\ mLayers' = mLayers \ {layer}
       /\ IF layer \in mLayers
          THEN err = "NONE" /\ mState' = "MODIFIED"
          ELSE err = "BAD_LAYER" /\ UNCHANGED mState
       /\ UNCHANGED mNextLayerId

(* Mutant: a new composition type does not invalidate the last validation. *)
mutantSetTypeKeepsState(display, layer, type, err) ==
    /\ display \in Displays /\ layer \in mLayers /\ err = "NONE"
    /\ mDirtyLayers' = IF type # "CLIENT" THEN mDirtyLayers \cup {layer}
                                          ELSE mDirtyLayers \ {layer}
    /\ UNCHANGED <<mState, mNextLayerId, mLayers>>

(* A layer is clean only when the client asks to composite it itself. *)
deviceSetLayerCompositionType(display, layer, type, err) ==
    \/ display \notin Displays /\ Fails(err, "BAD_DISPLAY")
    \/ display \in Displays /\ layer \notin mLayers /\ Fails(err, "BAD_LAYER")
    \/ /\ display \in Displays
       /\ layer \in mLayers
       /\ err = "NONE"
       /\ mDirtyLayers' = IF type # "CLIENT" THEN mDirtyLayers \cup {layer}
                                             ELSE mDirtyLayers \ {layer}
       /\ mState' = "MODIFIED"
       /\ UNCHANGED <<mNextLayerId, mLayers>>

deviceValidateDisplay(display, err) ==
    \/ display \notin Displays /\ Fails(err, "BAD_DISPLAY")
    \/ /\ display \in Displays
       /\ IF mDirtyLayers # {}
          THEN err = "HAS_CHANGES" /\ mState' = "VALIDATED_WITH_CHANGES"
          ELSE err = "NONE" /\ mState' = "VALIDATED"
       /\ UNCHANGED <<mNextLayerId, mLayers, mDirtyLayers>>

(* Both uses of getChangedCompositionTypes, counting (outLayers null) and  *)
(* filling, share these early returns and change nothing.                  *)
deviceGetChangedCompositionTypes(display, err) ==
    \/ display \notin Displays /\ Fails(err, "BAD_DISPLAY")
    \/ display \in Displays /\ mState = "MODIFIED" /\ Fails(err, "NOT_VALIDATED")
    \/ display \in Displays /\ mState # "MODIFIED" /\ Fails(err, "NONE")

(* The layers a caller with room for n of them may be given: the first     *)
(* min(n, size) of the unordered set mDirtyLayers.                         *)
ChangedLayers(n) ==
    {S \in SUBSET mDirtyLayers :
        \/ Cardinality(S) = n
        \/ Cardinality(S) < n /\ S = mDirtyLayers}

(* Mutant: accepting clears the dirty set but leaves the state. *)
mutantAcceptKeepsState(display, err) ==
    /\ display \in Displays /\ mState # "MODIFIED" /\ err = "NONE"
    /\ mDirtyLayers' = {}
    /\ UNCHANGED <<mState, mNextLayerId, mLayers>>

deviceAcceptDisplayChanges(display, err) ==
    \/ display \notin Displays /\ Fails(err, "BAD_DISPLAY")
    \/ display \in Displays /\ mState = "MODIFIED" /\ Fails(err, "NOT_VALIDATED")
    \/ /\ display \in Displays
       /\ mState # "MODIFIED"
       /\ err = "NONE"
       /\ mDirtyLayers' = {}
       /\ mState' = "VALIDATED"
       /\ UNCHANGED <<mNextLayerId, mLayers>>

(* Mutant: presenting checks the state as accepting does. *)
mutantPresentUnlessModified(display, err) ==
    \/ mState = "MODIFIED" /\ Fails(err, "NOT_VALIDATED")
    \/ display \in Displays /\ mState # "MODIFIED" /\ Fails(err, "NONE")

(* NONE means that the frame went to hwc_post, whose result is ignored. *)
devicePresentDisplay(display, err) ==
    \/ display \notin Displays /\ Fails(err, "BAD_DISPLAY")
    \/ display \in Displays /\ mState # "VALIDATED" /\ Fails(err, "NOT_VALIDATED")
    \/ display \in Displays /\ mState = "VALIDATED" /\ Fails(err, "NONE")

=============================================================================
