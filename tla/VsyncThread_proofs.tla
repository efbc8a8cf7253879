------------------------- MODULE VsyncThread_proofs -------------------------
(***************************************************************************)
(* For any threads, callbacks, period and lateness: timestamps are due and *)
(* increase, at most one callback comes late, and the thread is the source *)
(* of vsyncs that a client's unregistration relies on.                     *)
(***************************************************************************)
EXTENDS VsyncThread, TLAPS

(* Rounding a lateness up to whole periods. *)
LEMMA RoundUp ==
    ASSUME NEW p \in Nat \ {0}, NEW late \in Nat
    PROVE  /\ p * ((late + p - 1) \div p) \in Nat
           /\ p * ((late + p - 1) \div p) >= late
           /\ p * ((late + p - 1) \div p) < late + p
<1> DEFINE n == late + p - 1
           q == n \div p
<1>1. n \in Nat /\ q \in Nat
  OBVIOUS
<1>2. p * q <= n
  BY <1>1
<1>3. n < p * q + p
  BY <1>1
<1>4. p * q \in Nat
  BY <1>1
<1> HIDE DEF q
<1>5. p * q \in Nat /\ p * q >= late /\ p * q < late + p
  BY <1>2, <1>3, <1>4
<1> QED
  BY <1>5 DEF q

-----------------------------------------------------------------------------
(* The inductive invariant. *)

(* The mutex is held from the end of the sleep until the next wait. *)
LockedWhere == locked <=> pc \in {"check", "fire", "calling"}

(* A sleep that ran to its end is past its vsync, however long the thread  *)
(* waits for the mutex then; and mNextVsync is a period past the last      *)
(* timestamp but during the call itself.                                   *)
Due ==
    /\ pc \in {"fire", "calling"} \/ (pc = "relock" /\ fire) => ahead <= 0
    /\ pc # "calling" => gap >= mPeriod

(* A thread that made a late call looks at mCallbackEnabled before another.*)
LateOnce ==
    /\ lateCalls <= 1
    /\ mCallbackEnabled => lateCalls = 0
    /\ lateCalls = 1 => pc \in {"calling", "check", "waiting", "woken"}

IInv == TypeOK /\ LockedWhere /\ Due /\ LateOnce

LEMMA InitIInv == Init => IInv
<1> SUFFICES ASSUME Init PROVE IInv
  OBVIOUS
<1>1. ahead \in -MaxLate .. mPeriod /\ gap \in 0 .. MaxGap
  BY VsyncAssumption DEF Init
<1>2. TypeOK
  BY <1>1 DEF Init, TypeOK
<1>3. LockedWhere /\ Due /\ LateOnce
  BY VsyncAssumption DEF Init, LockedWhere, Due, LateOnce
<1> QED
  BY <1>2, <1>3 DEF IInv

(* mNextVsync moves forward. *)
LEMMA Moved ==
    ASSUME TypeOK, NEW d \in Nat, MoveNextVsync(d)
    PROVE  /\ ahead' = ahead + d
           /\ gap' \in 0 .. MaxGap /\ gap' >= gap
           /\ d >= mPeriod => gap' >= mPeriod
BY VsyncAssumption DEF TypeOK, MoveNextVsync

LEMMA Adjusted ==
    ASSUME TypeOK, AdjustNextVsync
    PROVE  /\ ahead' \in 0 .. mPeriod
           /\ gap' \in 0 .. MaxGap /\ gap' >= gap
<1>1. CASE ahead < 0
  <2> DEFINE d == mPeriod * ((-ahead + mPeriod - 1) \div mPeriod)
  <2>1. -ahead \in Nat
    BY <1>1, VsyncAssumption DEF TypeOK
  <2>2. d \in Nat /\ d >= -ahead /\ d < -ahead + mPeriod
    BY <2>1, VsyncAssumption, RoundUp
  <2>3. MoveNextVsync(d)
    BY <1>1 DEF AdjustNextVsync
  <2> HIDE DEF d
  <2> QED
    BY <2>2, <2>3, Moved, VsyncAssumption DEF TypeOK
<1>2. CASE ~(ahead < 0)
  BY <1>2, VsyncAssumption DEF AdjustNextVsync, TypeOK
<1> QED
  BY <1>1, <1>2

LEMMA NextIInv == IInv /\ [Next]_vars => IInv'
<1> SUFFICES ASSUME IInv, [Next]_vars PROVE IInv'
  OBVIOUS
<1> USE VsyncAssumption
<1>1. CASE CheckEnabled \/ SpuriousWakeup \/ RecheckPredicate
  <2>1. TypeOK'
    BY <1>1 DEF CheckEnabled, SpuriousWakeup, RecheckPredicate, IInv, TypeOK
  <2>2. LockedWhere'
    BY <1>1 DEF CheckEnabled, SpuriousWakeup, RecheckPredicate, IInv, LockedWhere
  <2>3. Due'
    BY <1>1 DEF CheckEnabled, SpuriousWakeup, RecheckPredicate, IInv, Due
  <2>4. LateOnce'
    BY <1>1 DEF CheckEnabled, SpuriousWakeup, RecheckPredicate, IInv, LateOnce
  <2> QED
    BY <2>1, <2>2, <2>3, <2>4 DEF IInv
<1>2. CASE AdjustNextVsync
  <2>1. /\ ahead' \in 0 .. mPeriod
        /\ gap' \in 0 .. MaxGap /\ gap' >= gap
    BY <1>2, Adjusted DEF IInv
  <2>2. /\ pc = "adjust" /\ pc' = "sleeping"
        /\ UNCHANGED <<locked, mCallback, mCallbackEnabled, fire, notifying, lateCalls>>
    BY <1>2 DEF AdjustNextVsync
  <2> QED
    BY <2>1, <2>2 DEF IInv, TypeOK, LockedWhere, Due, LateOnce
<1>3. CASE SleepEnds \/ SleepFails \/ Relock
  <2>1. TypeOK'
    BY <1>3 DEF SleepEnds, SleepFails, Relock, IInv, TypeOK
  <2>2. LockedWhere'
    BY <1>3 DEF SleepEnds, SleepFails, Relock, IInv, LockedWhere
  <2>3. Due'
    BY <1>3 DEF SleepEnds, SleepFails, Relock, IInv, Due
  <2>4. LateOnce'
    BY <1>3 DEF SleepEnds, SleepFails, Relock, IInv, LateOnce
  <2> QED
    BY <2>1, <2>2, <2>3, <2>4 DEF IInv
<1>4. CASE BeginCall
  BY <1>4 DEF BeginCall, IInv, TypeOK, LockedWhere, Due, LateOnce
<1>5. CASE NothingToCall \/ EndCall
  <2>1. /\ MoveNextVsync(mPeriod)
        /\ pc \in {"fire", "calling"} /\ pc' = "check"
        /\ UNCHANGED <<locked, mCallback, mCallbackEnabled, fire, notifying, lateCalls>>
    BY <1>5 DEF NothingToCall, EndCall
  <2>2. ahead' = ahead + mPeriod /\ gap' \in 0 .. MaxGap /\ gap' >= mPeriod
    BY <2>1, Moved DEF IInv
  <2>3. pc = "fire" => lateCalls = 0
    BY DEF IInv, LateOnce, TypeOK
  <2> QED
    BY <2>1, <2>2, <2>3 DEF IInv, TypeOK, LockedWhere, Due, LateOnce
<1>6. ASSUME NEW cb \in Callbacks \cup {NoCallback}, SetCallback(cb)
      PROVE  IInv'
  BY <1>6 DEF SetCallback, IInv, TypeOK, LockedWhere, Due, LateOnce
<1>7. ASSUME NEW c \in Callers, NEW enable \in BOOLEAN, EnableCallback(c, enable)
      PROVE  IInv'
  BY <1>7 DEF EnableCallback, IInv, TypeOK, LockedWhere, Due, LateOnce
<1>8. ASSUME NEW c \in Callers, NotifyAll(c)
      PROVE  IInv'
  BY <1>8 DEF NotifyAll, IInv, TypeOK, LockedWhere, Due, LateOnce
<1>9. CASE Tick
  BY <1>9 DEF Tick, IInv, TypeOK, LockedWhere, Due, LateOnce
<1>10. CASE UNCHANGED vars
  BY <1>10 DEF vars, IInv, TypeOK, LockedWhere, Due, LateOnce
<1> QED
  BY <1>1, <1>2, <1>3, <1>4, <1>5, <1>6, <1>7, <1>8, <1>9, <1>10 DEF Next

-----------------------------------------------------------------------------
(* The state of the thread and its callers is well typed, and the mutex is *)
(* the thread's exactly between a sleep and the next wait.                 *)
THEOREM Invariance == Spec => []IInv
BY InitIInv, NextIInv, PTL DEF Spec

(* VsyncThread never calls back before the timestamp it hands out, and     *)
(* timestamps are at least a period apart.                                 *)
THEOREM TimestampsDue == Spec => []TimestampsAreDue
<1>1. IInv => TimestampsAreDue
  BY DEF IInv, Due, TimestampsAreDue
<1> QED
  BY <1>1, Invariance, PTL

(* After setVsyncEnabled(false) one callback may still come, no second one.*)
THEOREM OneLateCall == Spec => []AtMostOneLateCall
<1>1. IInv => AtMostOneLateCall
  BY DEF IInv, LateOnce, AtMostOneLateCall
<1> QED
  BY <1>1, Invariance, PTL

(* The thread goes to sleep for the first vsync that is not over, whatever *)
(* it was late by.                                                         *)
THEOREM SleepsForNext == Spec => SleepsForTheNextVsync
<1>1. ASSUME IInv, [Next]_vars, pc = "adjust", pc' = "sleeping"
      PROVE  ahead' \in 0 .. mPeriod
  <2>1. AdjustNextVsync
    BY <1>1 DEF Next, vars, CheckEnabled, SpuriousWakeup, RecheckPredicate, SleepEnds,
                SleepFails, Relock, BeginCall, NothingToCall, EndCall, SetCallback,
                EnableCallback, NotifyAll, Tick
  <2> QED
    BY <1>1, <2>1, Adjusted DEF IInv
<1> QED
  BY <1>1, Invariance, PTL DEF Spec, SleepsForTheNextVsync

-----------------------------------------------------------------------------
(* VsyncThread implements VsyncSource: the callback is replaced only while *)
(* it does not run, because the mutex is held during the call.             *)
THEOREM RefinesSource == Spec => ImplementsSource
<1>1. Init => Source!SourceInit
  BY DEF Init, Source!SourceInit
<1>2. ASSUME IInv, [Next]_vars
      PROVE  [Source!SourceNext]_(Source!sourceVars)
  <2> USE DEF Source!SourceNext, Source!sourceVars
  <2>1. CASE BeginCall
    BY <1>2, <2>1 DEF BeginCall, Source!BeginCallback
  <2>2. CASE EndCall
    BY <2>2 DEF EndCall, Source!EndCallback
  <2>3. ASSUME NEW cb \in Callbacks \cup {NoCallback}, SetCallback(cb)
        PROVE  Source!Install(cb)
    BY <1>2, <2>3 DEF SetCallback, Source!Install, IInv, LockedWhere
  <2>4. CASE \/ CheckEnabled \/ SpuriousWakeup \/ RecheckPredicate \/ AdjustNextVsync
             \/ SleepEnds \/ SleepFails \/ Relock \/ NothingToCall \/ Tick
             \/ \E c \in Callers, enable \in BOOLEAN : EnableCallback(c, enable)
             \/ \E c \in Callers : NotifyAll(c)
             \/ UNCHANGED vars
    <3>1. mCallback' = mCallback /\ (pc' = "calling" <=> pc = "calling")
      BY <2>4 DEF CheckEnabled, SpuriousWakeup, RecheckPredicate, AdjustNextVsync, SleepEnds,
                  SleepFails, Relock, NothingToCall, Tick, EnableCallback, NotifyAll, vars
    <3> QED
      BY <3>1
  <2> QED
    BY <1>2, <2>1, <2>2, <2>3, <2>4 DEF Next
<1> QED
  BY <1>1, <1>2, Invariance, PTL DEF Spec, ImplementsSource, Source!SourceSpec
=============================================================================
