---------------------------- MODULE ClientFrames ----------------------------
(***************************************************************************)
(* What the displays show while composer clients come and go: the steps of *)
(* ClientResources, with a history variable for what hwc_post did with the *)
(* client target it was given.  Composition is the client's, so the target *)
(* is all a frame consists of; what layers the device has does not matter. *)
(***************************************************************************)
EXTENDS ClientResources

VARIABLE showing    \* displays whose last frame is a client target

FramesInit == Init /\ showing = {}

(* ComposerHal and the device let the present through, and hwc_post shows  *)
(* the target.                                                             *)
PostTarget(d) ==
    /\ PresentDisplay(d) \/ (FinalPresent /\ farewell.display = d)
    /\ ~mMustValidateDisplay /\ devicePresentDisplay(d, "NONE")
    /\ mBuffer # NoHandle
    /\ showing' = showing \cup {d}

(* Any other step, and a present that is refused or of which hwc_post      *)
(* makes nothing: it returns an error for a null handle, and may do so for *)
(* others.  The device drops the error and the display keeps its frame.    *)
KeepFrames == Next /\ UNCHANGED showing

FramesNext == KeepFrames \/ \E d \in Displays : PostTarget(d)

FramesSpec == FramesInit /\ [][FramesNext]_<<vars, showing>>

-----------------------------------------------------------------------------
(* "make sure all displays are blank (since there is no layer)": once a    *)
(* client has gone, no display shows a client target.                      *)
BlankAfterClient == client = "none" => showing = {}

=============================================================================
