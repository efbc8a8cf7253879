---------------------------- MODULE VsyncThread ----------------------------
(***************************************************************************)
(* Hwc2Device::VsyncThread: the thread that sleeps until the next vsync    *)
(* and calls back, and the binder threads that install a callback and      *)
(* switch it on and off.                                                   *)
(*                                                                         *)
(* The mutex is held across the callback itself.  Time is relative, which  *)
(* keeps the model finite without a last instant: ahead is mNextVsync      *)
(* minus the clock, gap is mNextVsync minus the last timestamp handed out. *)
(* stop() is not modelled: nothing calls it, so mStarted stays true.       *)
(***************************************************************************)
EXTENDS Integers

CONSTANTS
    Callers,        \* binder threads
    Callbacks, NoCallback,
    mPeriod,        \* ticks from one vsync to the next
    MaxLate,        \* bound: how late the thread may be scheduled, in ticks
    MaxGap          \* bound: a longer gap is counted as this one

ASSUME VsyncAssumption ==
    /\ mPeriod \in Nat \ {0}
    /\ MaxLate \in Nat
    /\ MaxGap \in Nat /\ MaxGap >= mPeriod
    /\ NoCallback \notin Callbacks

VARIABLES
    locked,             \* the vsync thread holds mMutex
    mCallback, mCallbackEnabled,
    pc,                 \* where the vsync thread is in vsyncLoop
    fire,               \* its local: the sleep ran to its end
    notifying,          \* callers between unlock and notify_all of enableCallback
    ahead, gap,
    lateCalls           \* callbacks begun since they were last switched off

vars == <<locked, mCallback, mCallbackEnabled, pc, fire, notifying, ahead, gap, lateCalls>>

TypeOK ==
    /\ locked \in BOOLEAN
    /\ mCallback \in Callbacks \cup {NoCallback}
    /\ mCallbackEnabled \in BOOLEAN
    /\ pc \in {"check", "waiting", "woken", "adjust", "sleeping", "relock", "fire", "calling"}
    /\ fire \in BOOLEAN
    /\ notifying \subseteq Callers
    /\ ahead \in -MaxLate .. mPeriod
    /\ gap \in 0 .. MaxGap
    /\ lateCalls \in Nat

(* The thread is about to take the mutex; no timestamp was handed out yet. *)
Init ==
    /\ locked = FALSE
    /\ mCallback = NoCallback
    /\ mCallbackEnabled = FALSE
    /\ pc = "relock"
    /\ fire = FALSE
    /\ notifying = {}
    /\ ahead = -MaxLate
    /\ gap = MaxGap
    /\ lateCalls = 0

-----------------------------------------------------------------------------
(* The vsync thread.  Waiting on the condition releases the mutex; so does *)
(* the unlock before the sleep.                                            *)

(* Mutant: the thread waits only while there is nothing to call. *)
mutantWaitWithoutCallback ==
    /\ pc = "check"
    /\ pc' = IF mCallback # NoCallback THEN "adjust" ELSE "waiting"
    /\ locked' = FALSE
    /\ UNCHANGED <<mCallback, mCallbackEnabled, fire, notifying, ahead, gap, lateCalls>>

CheckEnabled ==
    /\ pc = "check"
    /\ pc' = IF mCallbackEnabled THEN "adjust" ELSE "waiting"
    /\ locked' = FALSE
    /\ UNCHANGED <<mCallback, mCallbackEnabled, fire, notifying, ahead, gap, lateCalls>>

SpuriousWakeup ==
    /\ pc = "waiting"
    /\ pc' = "woken"
    /\ UNCHANGED <<locked, mCallback, mCallbackEnabled, fire, notifying, ahead, gap, lateCalls>>

(* The predicate is evaluated under the mutex, which the loop then gives   *)
(* up at once to sleep, or gives up to wait again.                         *)
RecheckPredicate ==
    /\ pc = "woken"
    /\ pc' = IF mCallbackEnabled THEN "adjust" ELSE "waiting"
    /\ UNCHANGED <<locked, mCallback, mCallbackEnabled, fire, notifying, ahead, gap, lateCalls>>

(* mNextVsync moves by a whole number of periods: ahead and gap with it. *)
MoveNextVsync(d) ==
    /\ ahead' = ahead + d
    /\ gap' = IF gap + d > MaxGap THEN MaxGap ELSE gap + d

(* Mutant: the division rounds down. *)
mutantRoundDown ==
    /\ pc = "adjust"
    /\ pc' = "sleeping"
    /\ IF ahead < 0 THEN MoveNextVsync(mPeriod * ((-ahead) \div mPeriod))
                    ELSE UNCHANGED <<ahead, gap>>
    /\ UNCHANGED <<locked, mCallback, mCallbackEnabled, fire, notifying, lateCalls>>

AdjustNextVsync ==
    /\ pc = "adjust"
    /\ pc' = "sleeping"
    /\ IF ahead < 0 THEN MoveNextVsync(mPeriod * ((-ahead + mPeriod - 1) \div mPeriod))
                    ELSE UNCHANGED <<ahead, gap>>
    /\ UNCHANGED <<locked, mCallback, mCallbackEnabled, fire, notifying, lateCalls>>

SleepEnds ==
    /\ pc = "sleeping"
    /\ ahead <= 0
    /\ fire' = TRUE
    /\ pc' = "relock"
    /\ UNCHANGED <<locked, mCallback, mCallbackEnabled, notifying, ahead, gap, lateCalls>>

(* clock_nanosleep fails with anything but EINTR, after which it is retried. *)
SleepFails ==
    /\ pc = "sleeping"
    /\ fire' = FALSE
    /\ pc' = "relock"
    /\ UNCHANGED <<locked, mCallback, mCallbackEnabled, notifying, ahead, gap, lateCalls>>

(* Mutant: the callback is made without the mutex. *)
mutantNoRelock ==
    /\ pc = "relock"
    /\ pc' = IF fire THEN "fire" ELSE "check"
    /\ UNCHANGED <<locked, mCallback, mCallbackEnabled, fire, notifying, ahead, gap, lateCalls>>

(* Callers hold the mutex within one step of theirs, so it is free here. *)
Relock ==
    /\ pc = "relock"
    /\ locked' = TRUE
    /\ pc' = IF fire THEN "fire" ELSE "check"
    /\ UNCHANGED <<mCallback, mCallbackEnabled, fire, notifying, ahead, gap, lateCalls>>

(* mCallbackEnabled is not looked at again. *)
BeginCall ==
    /\ pc = "fire"
    /\ mCallback # NoCallback
    /\ pc' = "calling"
    /\ gap' = 0
    /\ lateCalls' = IF mCallbackEnabled THEN 0 ELSE lateCalls + 1
    /\ UNCHANGED <<locked, mCallback, mCallbackEnabled, fire, notifying, ahead>>

NothingToCall ==
    /\ pc = "fire"
    /\ mCallback = NoCallback
    /\ pc' = "check"
    /\ MoveNextVsync(mPeriod)
    /\ UNCHANGED <<locked, mCallback, mCallbackEnabled, fire, notifying, lateCalls>>

(* Mutant: the period is not added after a call. *)
mutantSameVsync ==
    /\ pc = "calling"
    /\ pc' = "check"
    /\ UNCHANGED <<locked, mCallback, mCallbackEnabled, fire, notifying, ahead, gap, lateCalls>>

EndCall ==
    /\ pc = "calling"
    /\ pc' = "check"
    /\ MoveNextVsync(mPeriod)
    /\ UNCHANGED <<locked, mCallback, mCallbackEnabled, fire, notifying, lateCalls>>

ThreadStep ==
    \/ CheckEnabled \/ RecheckPredicate \/ AdjustNextVsync \/ SleepEnds
    \/ Relock \/ BeginCall \/ NothingToCall \/ EndCall

-----------------------------------------------------------------------------
(* The binder threads. *)

SetCallback(cb) ==
    /\ ~locked
    /\ mCallback' = cb
    /\ UNCHANGED <<locked, mCallbackEnabled, pc, fire, notifying, ahead, gap, lateCalls>>

(* The first half of enableCallback, under the mutex. *)
EnableCallback(c, enable) ==
    /\ c \notin notifying
    /\ ~locked
    /\ mCallbackEnabled' = enable
    /\ lateCalls' = 0
    /\ notifying' = notifying \cup {c}
    /\ UNCHANGED <<locked, mCallback, pc, fire, ahead, gap>>

(* Mutant: nobody is notified. *)
mutantNoNotify(c) ==
    /\ c \in notifying
    /\ notifying' = notifying \ {c}
    /\ UNCHANGED <<locked, mCallback, mCallbackEnabled, pc, fire, ahead, gap, lateCalls>>

(* The second half, after the mutex was released. *)
NotifyAll(c) ==
    /\ c \in notifying
    /\ notifying' = notifying \ {c}
    /\ pc' = IF pc = "waiting" THEN "woken" ELSE pc
    /\ UNCHANGED <<locked, mCallback, mCallbackEnabled, fire, ahead, gap, lateCalls>>

Tick ==
    /\ ahead > -MaxLate
    /\ ahead' = ahead - 1
    /\ UNCHANGED <<locked, mCallback, mCallbackEnabled, pc, fire, notifying, gap, lateCalls>>

Next ==
    \/ CheckEnabled
    \/ SpuriousWakeup
    \/ RecheckPredicate
    \/ AdjustNextVsync
    \/ SleepEnds
    \/ SleepFails
    \/ Relock
    \/ BeginCall
    \/ NothingToCall
    \/ EndCall
    \/ \E cb \in Callbacks \cup {NoCallback} : SetCallback(cb)
    \/ \E c \in Callers, enable \in BOOLEAN : EnableCallback(c, enable)
    \/ \E c \in Callers : NotifyAll(c)
    \/ Tick

Spec == Init /\ [][Next]_vars

(* The operating system runs the vsync thread; a binder thread inside      *)
(* enableCallback gets to notify; time passes; and the sleep, which is     *)
(* always given a valid instant, does not fail for ever.                   *)
FairSpec ==
    /\ Spec
    /\ WF_vars(ThreadStep)
    /\ <>[][~SleepFails]_vars
    /\ \A c \in Callers : WF_vars(NotifyAll(c))
    /\ WF_vars(Tick)

-----------------------------------------------------------------------------
(* Whatever the thread was late by, the vsync it goes to sleep for is the  *)
(* first one that is not over: not in the past, at most a period ahead.    *)
SleepsForTheNextVsync ==
    [][pc = "adjust" /\ pc' = "sleeping" => ahead' \in 0 .. mPeriod]_vars

(* A callback never comes before its own timestamp, failed sleeps included,*)
(* and timestamps strictly increase, by at least one period, however often *)
(* the callback was switched off, replaced or late in between.             *)
TimestampsAreDue ==
    /\ pc \in {"fire", "calling"} => ahead <= 0
    /\ pc = "fire" => gap >= mPeriod

(* After the callback is switched off, at most the one vsync the thread    *)
(* already slept for is still delivered.                                   *)
AtMostOneLateCall == lateCalls <= 1

(* The thread keeps the promise the client's unregistration relies on. *)
Source == INSTANCE VsyncSource WITH running <- (pc = "calling")
ImplementsSource == Source!SourceSpec

(* No wakeup is lost: a callback that stays installed and switched on is   *)
(* called again and again.                                                 *)
EnabledKeepsFiring ==
    []<>(pc = "calling") \/ []<>(~mCallbackEnabled \/ mCallback = NoCallback)

=============================================================================
