------------------------------ MODULE KmsOutput ------------------------------
(***************************************************************************)
(* Posting frames: hwc_context::hwc_post, add_fb and atomic_commit         *)
(* (graphics/composer/aidl/hwc_context.cpp) for two driven displays, with  *)
(* the target the device keeps between setClientTarget and presentDisplay. *)
(* Presenting runs under the command lock; the kernel completes the page   *)
(* flips it queued at any time.  A frame is the number of the target that  *)
(* carries it.                                                             *)
(***************************************************************************)
EXTENDS Naturals

CONSTANTS
    Buffers,        \* handles the client presents
    null,           \* mBuffer before any target was set
    MaxFrames,      \* bound on the targets set
    MaxImports,     \* bound on the imports of a buffer
    MaxFaults       \* bound on the failures of the kernel, for each display

ASSUME OutputAssumption ==
    /\ null \notin Buffers
    /\ MaxFrames \in Nat /\ MaxImports \in Nat \ {0} /\ MaxFaults \in Nat

Displays == {0, 1}
Frames == 1 .. MaxFrames

VARIABLES
    mBuffer,        \* the target, one for both displays
    frame,          \* the frame mBuffer carries
    hasFb,          \* handles whose fb_id is not 0
    first_post,     \* first_post and first_post2
    fence,          \* frame the last *out_fence stands for, 0 for -1
    fbs,            \* framebuffers created for a buffer, never removed
    imports,        \* handles a buffer has had
    fits,           \* displays whose mode is within the primary's size
    enabled,        \* displays whose CRTC has its mode set
    pending,        \* frame of the queued page flip, 0 for none
    shown,          \* frame on the display
    modesets,       \* successful drmModeSetCrtc calls
    faults          \* failures of the kernel so far

hwcVars == <<mBuffer, frame, hasFb, first_post, fence, fbs>>
kernelVars == <<enabled, pending, shown, modesets, faults>>
vars == <<hwcVars, imports, fits, kernelVars>>

Init ==
    /\ mBuffer = null /\ frame = 0
    /\ hasFb = {}
    /\ first_post = [d \in Displays |-> TRUE]
    /\ fence = [d \in Displays |-> 0]
    /\ fbs = [b \in Buffers |-> 0]
    /\ imports = [b \in Buffers |-> 1]
    /\ fits \in {{0}, {0, 1}}
    /\ enabled = {}
    /\ pending = [d \in Displays |-> 0]
    /\ shown = [d \in Displays |-> 0]
    /\ modesets = [d \in Displays |-> 0]
    /\ faults = [d \in Displays |-> 0]

-----------------------------------------------------------------------------
(* The kernel. *)

(* One more failure the kernel has no reason for in this model. *)
Fault(d) ==
    /\ faults[d] < MaxFaults
    /\ faults' = [faults EXCEPT ![d] = @ + 1]

(* A queued flip completes at the next vertical blank. *)
FlipDone(d) ==
    /\ pending[d] # 0
    /\ shown' = [shown EXCEPT ![d] = pending[d]]
    /\ pending' = [pending EXCEPT ![d] = 0]
    /\ UNCHANGED <<hwcVars, imports, fits, enabled, modesets, faults>>

(* Something else turns the CRTC off; that waits for a queued flip. *)
LoseMode(d) ==
    /\ d \in enabled /\ pending[d] = 0
    /\ Fault(d)
    /\ enabled' = enabled \ {d}
    /\ UNCHANGED <<hwcVars, imports, fits, pending, shown, modesets>>

(* drmModeSetCrtc waits for a queued flip and shows the buffer at once.    *)
(* It refuses a framebuffer smaller than the mode.                         *)
SetCrtcSucceeds(d) ==
    /\ d \in fits
    /\ enabled' = enabled \cup {d}
    /\ shown' = [shown EXCEPT ![d] = frame]
    /\ pending' = [pending EXCEPT ![d] = 0]
    /\ modesets' = [modesets EXCEPT ![d] = @ + 1]
    /\ UNCHANGED faults

SetCrtcFails(d) ==
    /\ IF d \in fits THEN Fault(d) ELSE UNCHANGED faults
    /\ UNCHANGED <<enabled, pending, shown, modesets>>

-----------------------------------------------------------------------------
(* hwc_context *)

(* Mutant: the handle does not keep the id of its framebuffer. *)
mutantForgetFb(b) ==
    /\ fbs' = [fbs EXCEPT ![b] = @ + 1]
    /\ UNCHANGED hasFb

(* add_fb, succeeding: does nothing for a handle that has a framebuffer.   *)
add_fb(b) ==
    IF b \in hasFb
    THEN UNCHANGED <<hasFb, fbs>>
    ELSE /\ hasFb' = hasFb \cup {b}
         /\ fbs' = [fbs EXCEPT ![b] = @ + 1]

(* drmPrimeFDToHandle or drmModeAddFB2WithModifiers fails, and nothing is  *)
(* posted.                                                                 *)
AddFbFails(d) ==
    /\ mBuffer # null /\ mBuffer \notin hasFb
    /\ Fault(d)
    /\ fence' = [fence EXCEPT ![d] = 0]
    /\ UNCHANGED <<mBuffer, frame, hasFb, first_post, fbs, imports, fits,
                   enabled, pending, shown, modesets>>

(* private_handle_t::validate refuses the null target. *)
PostNothing(d) ==
    /\ mBuffer = null
    /\ fence' = [fence EXCEPT ![d] = 0]
    /\ UNCHANGED <<mBuffer, frame, hasFb, first_post, fbs, imports, fits, kernelVars>>

flagAfterSetCrtc(d, set) == [first_post EXCEPT ![d] = ~set]

(* hwc_post while first_post is set: the mode is set with this frame. *)
PostWithMode(d) ==
    /\ mBuffer # null
    /\ first_post[d]
    /\ add_fb(mBuffer)
    /\ \/ SetCrtcSucceeds(d) /\ first_post' = flagAfterSetCrtc(d, TRUE)
       \/ SetCrtcFails(d) /\ first_post' = flagAfterSetCrtc(d, FALSE)
    /\ fence' = [fence EXCEPT ![d] = 0]
    /\ UNCHANGED <<mBuffer, frame, imports, fits>>

(* Mutant: EBUSY is taken for a failure like any other. *)
mutantBusyFails(d, errno) == [first_post EXCEPT ![d] = TRUE]

(* Mutant: the mode is never set again. *)
mutantNoRetry(d, errno) == first_post

flagAfterFailure(d, errno) ==
    IF errno # "EBUSY" THEN [first_post EXCEPT ![d] = TRUE] ELSE first_post

(* Mutant: the fence is the frame's whether or not the flip was queued. *)
mutantFenceAnyway(d, queued) == [fence EXCEPT ![d] = frame]

fenceAfterCommit(d, queued) == [fence EXCEPT ![d] = IF queued THEN frame ELSE 0]

(* hwc_post otherwise: atomic_commit with DRM_MODE_ATOMIC_NONBLOCK, which  *)
(* finds the CRTC busy until a queued flip completes and fails on a CRTC   *)
(* that is off.                                                            *)
PostFlip(d) ==
    /\ mBuffer # null
    /\ ~first_post[d]
    /\ add_fb(mBuffer)
    /\ \/ /\ pending[d] # 0
          /\ first_post' = flagAfterFailure(d, "EBUSY")
          /\ fence' = fenceAfterCommit(d, FALSE)
          /\ UNCHANGED <<pending, faults>>
       \/ /\ pending[d] = 0 /\ d \in enabled
          /\ pending' = [pending EXCEPT ![d] = frame]
          /\ fence' = fenceAfterCommit(d, TRUE)
          /\ UNCHANGED <<first_post, faults>>
       \/ /\ pending[d] = 0
          /\ IF d \in enabled THEN Fault(d) ELSE UNCHANGED faults
          /\ first_post' = flagAfterFailure(d, "EINVAL")
          /\ fence' = fenceAfterCommit(d, FALSE)
          /\ UNCHANGED pending
    /\ UNCHANGED <<mBuffer, frame, imports, fits, enabled, shown, modesets>>

(* presentDisplay, after its checks: it ignores what hwc_post returns. *)
PresentDisplay(d) == AddFbFails(d) \/ PostNothing(d) \/ PostWithMode(d) \/ PostFlip(d)

(* Hwc2Device::setClientTarget, whichever display it is for: the acquire   *)
(* fence has been waited for.                                              *)
SetClientTarget(b) ==
    /\ frame < MaxFrames
    /\ mBuffer' = b
    /\ frame' = frame + 1
    /\ UNCHANGED <<hasFb, first_post, fence, fbs, imports, fits, kernelVars>>

(* The handle of a buffer is freed and the buffer imported again: the new  *)
(* handle has no framebuffer, and those of the old one stay.               *)
Reimport(b) ==
    /\ b # mBuffer
    /\ imports[b] < MaxImports
    /\ imports' = [imports EXCEPT ![b] = @ + 1]
    /\ hasFb' = hasFb \ {b}
    /\ UNCHANGED <<mBuffer, frame, first_post, fence, fbs, fits, kernelVars>>

Next ==
    \/ \E b \in Buffers : SetClientTarget(b) \/ Reimport(b)
    \/ \E d \in Displays : PresentDisplay(d) \/ FlipDone(d) \/ LoseMode(d)

(* The client keeps presenting and the kernel completes its flips. *)
Spec ==
    /\ Init /\ [][Next]_vars
    /\ \A d \in Displays : WF_vars(PresentDisplay(d)) /\ WF_vars(FlipDone(d))

-----------------------------------------------------------------------------
(* Types of the posting state. *)
TypeOK ==
    /\ mBuffer \in Buffers \cup {null}
    /\ frame \in 0 .. MaxFrames
    /\ hasFb \subseteq Buffers
    /\ first_post \in [Displays -> BOOLEAN]
    /\ fence \in [Displays -> 0 .. MaxFrames]
    /\ fbs \in [Buffers -> 0 .. MaxImports]
    /\ imports \in [Buffers -> 1 .. MaxImports]
    /\ fits \subseteq Displays
    /\ enabled \subseteq Displays
    /\ pending \in [Displays -> 0 .. MaxFrames]
    /\ shown \in [Displays -> 0 .. MaxFrames]
    /\ modesets \in [Displays -> Nat]
    /\ faults \in [Displays -> 0 .. MaxFaults]

(* A present fence is one the kernel signals when its frame is shown: its  *)
(* flip is queued, or the frame or a later one is on the display.  A frame *)
(* that was dropped never comes with a fence (hwc_post, presentDisplay).   *)
FenceIsHonest ==
    \A d \in Displays :
       fence[d] # 0 => pending[d] = fence[d] \/ shown[d] >= fence[d]

(* Setting the mode blanks the display: after the first time it happens    *)
(* only to recover from a failure, so a frame posted while the CRTC is     *)
(* busy never leads to it (atomic_commit, errno # EBUSY).                  *)
ModesetsOnlyAfterFailures ==
    \A d \in Displays : modesets[d] <= 1 + faults[d]

(* A framebuffer is created once for each handle, not for each frame: the  *)
(* id in the handle saves the next posts (add_fb, which nothing undoes).   *)
OneFramebufferPerHandle ==
    \A b \in Buffers : fbs[b] <= imports[b]

Showing(d, f) == d \in enabled /\ shown[d] >= f

(* While the client keeps presenting, every target reaches a display whose *)
(* mode fits, itself or a later one: a frame refused with EBUSY, a failed  *)
(* commit or a CRTC turned off delays it but does not end in a display     *)
(* that stays dark or stale ("try to set mode for next frame").            *)
TargetsAreShown ==
    \A d \in Displays : \A f \in Frames :
       (frame = f /\ d \in fits) ~> Showing(d, f)
=============================================================================
