---------------------------- MODULE VsyncSource ----------------------------
(***************************************************************************)
(* What Hwc2Device::VsyncThread promises to the code that registers with   *)
(* it: a callback runs only while it is the installed one, one at a time,  *)
(* and installing another (or none) waits until the running one has ended. *)
(* VsyncThread implements this; ComposerLifecycle relies on it.            *)
(***************************************************************************)
CONSTANTS Callbacks, NoCallback

ASSUME NoCallbackAssumption == NoCallback \notin Callbacks

VARIABLES
    mCallback,      \* the installed callback, or NoCallback
    running         \* the installed callback is being executed

sourceVars == <<mCallback, running>>

SourceInit == mCallback = NoCallback /\ running = FALSE

Install(cb) == ~running /\ mCallback' = cb /\ UNCHANGED running

BeginCallback == ~running /\ mCallback # NoCallback /\ running' = TRUE /\ UNCHANGED mCallback

EndCallback == running /\ running' = FALSE /\ UNCHANGED mCallback

SourceNext ==
    \/ \E cb \in Callbacks \cup {NoCallback} : Install(cb)
    \/ BeginCallback
    \/ EndCallback

SourceSpec == SourceInit /\ [][SourceNext]_sourceVars

=============================================================================
