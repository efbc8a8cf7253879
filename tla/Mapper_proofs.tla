---------------------------- MODULE Mapper_proofs ----------------------------
(***************************************************************************)
(* For any handles, usages and number of locks: the lock bookkeeping of    *)
(* gbm_gralloc under the calls of the mapper.  The conjuncts of IInv hold  *)
(* together only: a mapping is exclusive because a lock that needs one     *)
(* finds no CPU usage in locked_for (MappedIffCpuLocked) and is therefore  *)
(* the first (Compatible); an unlock may read the bo_data_t because what   *)
(* gbm counts is held (NoLockIsLost) and what is held has its data.        *)
(***************************************************************************)
EXTENDS Mapper, TLAPS

IInv ==
    /\ TypeOK
    /\ MappedIffCpuLocked
    /\ CpuLockIsExclusive
    /\ NoStaleBuffer
    /\ HeldLockHasData
    /\ NoLockIsLost

LEMMA InitIInv == Init => IInv
BY GbmAssumption, MaxHeldAssumption
   DEF Init, GbmInit, IInv, TypeOK, GbmTypeOK, MappedIffCpuLocked,
       CpuLockIsExclusive, NoStaleBuffer, HeldLockHasData, NoLockIsLost

-----------------------------------------------------------------------------
LEMMA RawIInv ==
    ASSUME IInv, NEW h \in Handles, ReceiveRaw(h) \/ DeleteRaw(h)
    PROVE  IInv'
<1>1. TypeOK'
  BY DEF IInv, TypeOK, GbmTypeOK, ReceiveRaw, DeleteRaw, gbmVars, Alive
<1> QED
  BY <1>1 DEF IInv, ReceiveRaw, DeleteRaw, gbmVars, MappedIffCpuLocked,
              CpuLockIsExclusive, NoStaleBuffer, HeldLockHasData, NoLockIsLost

(* The address of a clone is not in use, so nothing is locked there. *)
LEMMA ImportIInv ==
    ASSUME IInv, NEW h \in Handles, importBuffer(h)
    PROVE  IInv'
<1> PICK code \in Codes : /\ gbm_register(h, code)
                          /\ imported' = IF code = "0" THEN imported \cup {h} ELSE imported
  BY DEF importBuffer
<1> USE DEF IInv, importBuffer, gbm_register
<1>1. TypeOK'
  BY DEF TypeOK, GbmTypeOK, Alive
<1>2. NoStaleBuffer'
  BY DEF NoStaleBuffer
<1> QED
  BY <1>1, <1>2 DEF MappedIffCpuLocked, CpuLockIsExclusive, HeldLockHasData, NoLockIsLost

LEMMA FreeIInv ==
    ASSUME IInv, NEW h \in Handles, freeBuffer(h)
    PROVE  IInv'
<1> USE DEF IInv, freeBuffer, gbm_free, gralloc_gbm_bo_from_handle
<1>1. TypeOK'
  BY MaxHeldAssumption DEF TypeOK, GbmTypeOK
<1>2. CASE h \in bos
  BY <1>1, <1>2 DEF TypeOK, GbmTypeOK, MappedIffCpuLocked, CpuLockIsExclusive,
                    NoStaleBuffer, HeldLockHasData, NoLockIsLost
<1>3. CASE h \notin bos
  <2>1. h \notin hasData /\ held[h] = 0
    BY <1>3 DEF TypeOK, GbmTypeOK, HeldLockHasData
  <2> QED
    BY <1>1, <1>3, <2>1 DEF TypeOK, GbmTypeOK, MappedIffCpuLocked, CpuLockIsExclusive,
                            NoStaleBuffer, HeldLockHasData, NoLockIsLost
<1> QED
  BY <1>2, <1>3

-----------------------------------------------------------------------------
(* A lock that needs a mapping and gets one is the first on its buffer. *)
LEMMA MappingLockIsFirst ==
    ASSUME IInv, NEW h \in Handles, NEW usage \in SUBSET Usages,
           Compatible(h, usage), NeedsMap(h, usage), h \notin mapped
    PROVE  lock_count[h] = 0
BY DEF IInv, TypeOK, GbmTypeOK, MappedIffCpuLocked, Compatible, NeedsMap

LEMMA LockIInv ==
    ASSUME IInv, NEW h \in Handles, NEW usage \in SUBSET Usages, lock(h, usage)
    PROVE  IInv'
<1> PICK code \in Codes :
        /\ gbm_lock(h, usage, code)
        /\ held' = IF code = "0" THEN [held EXCEPT ![h] = @ + 1] ELSE held
  BY DEF lock
<1> USE DEF IInv, gralloc_gbm_bo_from_handle
<1>0. /\ keys' = keys \cup {h} /\ bos' = bos
      /\ imported' = imported /\ raw' = raw
      /\ held[h] < MaxHeld
  BY DEF lock, gbm_lock
<1>1. CASE h \notin bos \/ ~UsageAllowed(h, usage)
  <2>1. code # "0" /\ UNCHANGED <<hasData, mapped, lock_count, locked_for, held>>
    BY <1>1 DEF gbm_lock
  <2> QED
    BY <1>0, <2>1 DEF TypeOK, GbmTypeOK, MappedIffCpuLocked, CpuLockIsExclusive,
                      NoStaleBuffer, HeldLockHasData, NoLockIsLost
<1>2. CASE ~(h \notin bos \/ ~UsageAllowed(h, usage)) /\ code # "0"
  <2>1. /\ hasData' = hasData \cup {h}
        /\ UNCHANGED <<mapped, lock_count, locked_for, held>>
    BY <1>2 DEF gbm_lock, gbm_map
  <2> QED
    BY <1>0, <1>2, <2>1 DEF TypeOK, GbmTypeOK, MappedIffCpuLocked,
                      CpuLockIsExclusive, NoStaleBuffer, HeldLockHasData, NoLockIsLost
<1>3. CASE ~(h \notin bos \/ ~UsageAllowed(h, usage)) /\ code = "0"
  <2>1. /\ hasData' = hasData \cup {h}
        /\ Compatible(h, usage)
        /\ lock_count' = [lock_count EXCEPT ![h] = @ + 1]
        /\ locked_for' = [locked_for EXCEPT ![h] = @ \cup usage]
        /\ held' = [held EXCEPT ![h] = @ + 1]
    BY <1>3 DEF gbm_lock, AddLock
  <2>2. IF NeedsMap(h, usage) THEN h \notin mapped /\ mapped' = mapped \cup {h}
                              ELSE mapped' = mapped
    BY <1>3 DEF gbm_lock, gbm_map
  <2>3. TypeOK'
    <3>1. held' \in [Handles -> 0 .. MaxHeld]
      BY <1>0, <2>1, MaxHeldAssumption DEF TypeOK
    <3> QED
      BY <1>0, <1>3, <2>1, <2>2, <3>1 DEF TypeOK, GbmTypeOK
  <2>4. MappedIffCpuLocked'
    <3>1. locked_for'[h] \cap CpuUsages # {} <=> NeedsMap(h, usage)
      BY <2>1 DEF TypeOK, GbmTypeOK, NeedsMap
    <3>2. ~NeedsMap(h, usage) => h \notin mapped
      BY DEF MappedIffCpuLocked, NeedsMap
    <3>3. lock_count'[h] # 0
      BY <2>1 DEF TypeOK, GbmTypeOK
    <3> QED
      BY <2>1, <2>2, <3>1, <3>2, <3>3 DEF TypeOK, GbmTypeOK, MappedIffCpuLocked
  <2>5. CpuLockIsExclusive'
    <3>1. CASE NeedsMap(h, usage)
      BY <2>1, <2>2, <3>1, MappingLockIsFirst DEF TypeOK, GbmTypeOK, CpuLockIsExclusive
    <3>2. CASE ~NeedsMap(h, usage)
      <4>1. h \notin mapped
        BY <3>2 DEF MappedIffCpuLocked, NeedsMap
      <4> QED
        BY <2>1, <2>2, <3>2, <4>1 DEF TypeOK, GbmTypeOK, CpuLockIsExclusive
    <3> QED
      BY <3>1, <3>2
  <2>6. NoStaleBuffer' /\ HeldLockHasData' /\ NoLockIsLost'
    BY <1>0, <2>1 DEF TypeOK, GbmTypeOK, NoStaleBuffer, HeldLockHasData, NoLockIsLost
  <2> QED
    BY <2>3, <2>4, <2>5, <2>6
<1> QED
  BY <1>1, <1>2, <1>3

-----------------------------------------------------------------------------
(* What gbm_unlock does to a buffer that is held: a lock goes, and with    *)
(* the mapping or with the last lock the usage goes as well.  If a flush   *)
(* took the lock before, nothing is left to do.                            *)
LEMMA UnlockHeld ==
    ASSUME IInv, NEW h \in Handles, NEW code \in Codes, held[h] > 0, gbm_unlock(h, code)
    PROVE  /\ code = "0"
           /\ UNCHANGED <<keys, bos, hasData>>
           /\ \/ lock_count[h] = 0 /\ UNCHANGED <<mapped, lock_count, locked_for>>
              \/ /\ lock_count[h] > 0
                 /\ mapped' = mapped \ {h}
                 /\ lock_count' = [lock_count EXCEPT ![h] = @ - 1]
                 /\ locked_for' = [locked_for EXCEPT ![h] =
                                     IF lock_count[h] = 1 THEN {} ELSE @]
<1>1. h \in bos /\ h \in keys
  BY DEF IInv, TypeOK, GbmTypeOK, HeldLockHasData
<1>2. locked_for[h] \cap CpuUsages = {} => mapped \ {h} = mapped
  BY DEF IInv, MappedIffCpuLocked
<1> QED
  BY <1>1, <1>2 DEF gbm_unlock, gralloc_gbm_bo_from_handle, IInv, TypeOK, GbmTypeOK

(* The map and the lock state after an unlock or a flush. *)
LEMMA UnlockBookkeeping ==
    ASSUME IInv, NEW h \in Handles, NEW code \in Codes, held[h] > 0, gbm_unlock(h, code)
    PROVE  GbmTypeOK' /\ MappedIffCpuLocked' /\ CpuLockIsExclusive'
<1> USE DEF IInv, TypeOK, GbmTypeOK
<1>1. CASE lock_count[h] = 0
  BY <1>1, UnlockHeld DEF MappedIffCpuLocked, CpuLockIsExclusive
<1>2. CASE lock_count[h] > 0
  <2>1. /\ UNCHANGED <<keys, bos, hasData>>
        /\ mapped' = mapped \ {h}
        /\ lock_count' = [lock_count EXCEPT ![h] = @ - 1]
        /\ locked_for' = [locked_for EXCEPT ![h] = IF lock_count[h] = 1 THEN {} ELSE @]
    BY <1>2, UnlockHeld
  <2>2. lock_count'[h] = 0 <=> lock_count[h] = 1
    BY <1>2, <2>1
  <2>3. locked_for'[h] \cap CpuUsages = {}
    BY <2>1 DEF MappedIffCpuLocked, CpuLockIsExclusive
  <2> QED
    BY <1>2, <2>1, <2>2, <2>3 DEF MappedIffCpuLocked, CpuLockIsExclusive
<1> QED
  BY <1>1, <1>2

LEMMA UnlockIInv ==
    ASSUME IInv, NEW h \in Handles, unlock(h)
    PROVE  IInv'
<1> PICK code \in Codes : gbm_unlock(h, code)
  BY DEF unlock
<1>1. /\ held[h] > 0 /\ held' = [held EXCEPT ![h] = @ - 1]
      /\ UNCHANGED <<imported, raw>>
  BY DEF unlock
<1>2. GbmTypeOK' /\ MappedIffCpuLocked' /\ CpuLockIsExclusive'
  BY <1>1, UnlockBookkeeping
<1>3. TypeOK'
  BY <1>1, <1>2, MaxHeldAssumption DEF IInv, TypeOK
<1>4. NoStaleBuffer' /\ HeldLockHasData' /\ NoLockIsLost'
  BY <1>1, UnlockHeld DEF IInv, TypeOK, GbmTypeOK, NoStaleBuffer, HeldLockHasData, NoLockIsLost
<1> QED
  BY <1>2, <1>3, <1>4 DEF IInv

LEMMA FlushIInv ==
    ASSUME IInv, NEW h \in Handles, flushLockedBuffer(h)
    PROVE  IInv'
<1> PICK code \in Codes : gbm_unlock(h, code)
  BY DEF flushLockedBuffer
<1>1. held[h] > 0 /\ UNCHANGED <<imported, raw, held>>
  BY DEF flushLockedBuffer
<1>2. GbmTypeOK' /\ MappedIffCpuLocked' /\ CpuLockIsExclusive'
  BY <1>1, UnlockBookkeeping
<1>3. TypeOK'
  BY <1>1, <1>2 DEF IInv, TypeOK
<1>4. NoStaleBuffer' /\ HeldLockHasData' /\ NoLockIsLost'
  BY <1>1, UnlockHeld DEF IInv, TypeOK, GbmTypeOK, NoStaleBuffer, HeldLockHasData, NoLockIsLost
<1> QED
  BY <1>2, <1>3, <1>4 DEF IInv

-----------------------------------------------------------------------------
(* Every call of the mapper keeps the bookkeeping of gbm_gralloc right:    *)
(* the whole inductive invariant holds in every reachable state.           *)
THEOREM Invariance == Spec => []IInv
<1>1. Init => IInv
  BY InitIInv
<1>2. IInv /\ [Next]_vars => IInv'
  <2> SUFFICES ASSUME IInv, [Next]_vars PROVE IInv'
    OBVIOUS
  <2>1. CASE \E h \in Handles : ReceiveRaw(h) \/ DeleteRaw(h)
    BY <2>1, RawIInv
  <2>2. CASE \E h \in Handles : importBuffer(h)
    BY <2>2, ImportIInv
  <2>3. CASE \E h \in Handles : freeBuffer(h)
    BY <2>3, FreeIInv
  <2>4. CASE \E h \in Handles : unlock(h)
    BY <2>4, UnlockIInv
  <2>5. CASE \E h \in Handles : flushLockedBuffer(h)
    BY <2>5, FlushIInv
  <2>6. CASE \E h \in Handles, usage \in SUBSET Usages : lock(h, usage)
    BY <2>6, LockIInv
  <2>7. CASE UNCHANGED vars
    BY <2>7 DEF vars, gbmVars, IInv, TypeOK, GbmTypeOK, MappedIffCpuLocked,
                CpuLockIsExclusive, NoStaleBuffer, HeldLockHasData, NoLockIsLost
  <2> QED
    BY <2>1, <2>2, <2>3, <2>4, <2>5, <2>6, <2>7 DEF Next
<1> QED
  BY <1>1, <1>2, PTL DEF Spec

(* A mapping lasts exactly as long as the CPU lock that made it (gbm_lock, *)
(* gbm_unlock, gbm_free).                                                  *)
THEOREM MappedIffCpuLockedAlways == Spec => []MappedIffCpuLocked
<1>1. IInv => MappedIffCpuLocked
  BY DEF IInv
<1> QED
  BY <1>1, Invariance, PTL

(* A buffer mapped for the CPU is locked once (gbm_lock, gbm_map), so the  *)
(* unmap at every unlock takes no mapping from another lock.               *)
THEOREM CpuLockIsExclusiveAlways == Spec => []CpuLockIsExclusive
<1>1. IInv => CpuLockIsExclusive
  BY DEF IInv
<1> QED
  BY <1>1, Invariance, PTL

(* No buffer object stays registered under a deleted handle (freeBuffer,   *)
(* gbm_free).                                                              *)
THEOREM NoStaleBufferAlways == Spec => []NoStaleBuffer
<1>1. IInv => NoStaleBuffer
  BY DEF IInv
<1> QED
  BY <1>1, Invariance, PTL

(* Unlocking or flushing a held lock never reads a missing bo_data_t       *)
(* (gbm_unlock), and gbm never counts a lock nobody holds.                 *)
THEOREM HeldLocksAreBacked == Spec => []LocksAreBacked
<1>1. IInv => LocksAreBacked
  BY DEF IInv, LocksAreBacked
<1> QED
  BY <1>1, Invariance, PTL
=============================================================================
