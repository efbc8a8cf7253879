------------------------------- MODULE Mapper -------------------------------
(***************************************************************************)
(* The buffer calls of the graphics mapper (graphics/mapper/4.0/Mapper.cpp)*)
(* in one client process: importBuffer, freeBuffer, lock, unlock and       *)
(* flushLockedBuffer, on top of gbm_gralloc.                               *)
(*                                                                         *)
(* The mapper takes no lock and gbm_gralloc says of itself "XXX            *)
(* thread-safety?": the model is of a process that calls from one thread   *)
(* at a time, so a call is one action.  The client passes handles that     *)
(* exist, imported ones and raw ones it received and did not import, and   *)
(* unlocks or flushes only what it locked.  It may free a buffer it holds  *)
(* locked.                                                                 *)
(***************************************************************************)
EXTENDS GbmGralloc

CONSTANT
    MaxHeld     \* bound on the locks a client holds on a buffer

ASSUME MaxHeldAssumption == MaxHeld \in Nat

VARIABLES
    imported,   \* handles importBuffer returned that are not freed
    raw,        \* handles of the client that it never imported
    held        \* locks the client has not given back yet

vars == <<gbmVars, imported, raw, held>>

(* The handles of the client are the addresses in use, and the map and the *)
(* lock state are well formed.                                             *)
TypeOK ==
    /\ GbmTypeOK
    /\ imported \subseteq Handles
    /\ raw \subseteq Handles \ imported
    /\ held \in [Handles -> 0 .. MaxHeld]

Init ==
    /\ GbmInit
    /\ imported = {}
    /\ raw = {}
    /\ held = [h \in Handles |-> 0]

Alive == imported \cup raw

(* The client receives a handle, or deletes one it never imported. *)
ReceiveRaw(h) ==
    /\ h \notin Alive
    /\ raw' = raw \cup {h}
    /\ UNCHANGED <<gbmVars, imported, held>>

DeleteRaw(h) ==
    /\ h \in raw
    /\ raw' = raw \ {h}
    /\ UNCHANGED <<gbmVars, imported, held>>

(* The clone of the handle is at address h; it is deleted again when it    *)
(* cannot be registered.                                                   *)
importBuffer(h) ==
    /\ h \notin Alive
    /\ \E code \in Codes :
        /\ gbm_register(h, code)
        /\ imported' = IF code = "0" THEN imported \cup {h} ELSE imported
    /\ UNCHANGED <<raw, held>>

(* gbm_unregister always succeeds; the handle is then deleted, and the     *)
(* locks the client held on it are gone.                                   *)
freeBuffer(h) ==
    /\ h \in Alive
    /\ gbm_free(h)
    /\ imported' = imported \ {h}
    /\ raw' = raw \ {h}
    /\ held' = [held EXCEPT ![h] = 0]

lock(h, usage) ==
    /\ h \in Alive
    /\ held[h] < MaxHeld
    /\ \E code \in Codes :
        /\ gbm_lock(h, usage, code)
        /\ held' = IF code = "0" THEN [held EXCEPT ![h] = @ + 1] ELSE held
    /\ UNCHANGED <<imported, raw>>

unlock(h) ==
    /\ h \in Alive /\ held[h] > 0
    /\ \E code \in Codes : gbm_unlock(h, code)
    /\ held' = [held EXCEPT ![h] = @ - 1]
    /\ UNCHANGED <<imported, raw>>

(* A flush takes a lock away as unlock does; the client still holds it. *)
flushLockedBuffer(h) ==
    /\ h \in Alive /\ held[h] > 0
    /\ \E code \in Codes : gbm_unlock(h, code)
    /\ UNCHANGED <<imported, raw, held>>

Next ==
    \/ \E h \in Handles :
        \/ ReceiveRaw(h) \/ DeleteRaw(h)
        \/ importBuffer(h) \/ freeBuffer(h)
        \/ unlock(h) \/ flushLockedBuffer(h)
    \/ \E h \in Handles, usage \in SUBSET Usages : lock(h, usage)

Spec == Init /\ [][Next]_vars

-----------------------------------------------------------------------------
(* The mapping of a buffer lasts exactly as long as a CPU lock on it: none *)
(* leaks when the last lock goes, none is lost under a lock, and a buffer  *)
(* without locks remembers no usage that would refuse or widen the next    *)
(* one (gbm_lock, gbm_unlock, gbm_free).                                   *)
MappedIffCpuLocked ==
    \A h \in Handles :
        /\ h \in mapped <=> locked_for[h] \cap CpuUsages # {}
        /\ lock_count[h] = 0 => locked_for[h] = {}

(* A buffer locked for the CPU has that one lock and no other: gbm_unlock  *)
(* unmaps at every unlock of such a buffer, not at the last one, and must  *)
(* not pull the memory from under another lock.  (So the "multiple locks   *)
(* with compatible usages" of gbm_lock are never for the CPU.)             *)
CpuLockIsExclusive == \A h \in mapped : lock_count[h] = 1

(* A buffer object does not outlive the handle it is registered under: a   *)
(* handle cloned to the same address never finds the old buffer.           *)
NoStaleBuffer == bos \subseteq imported

(* An unlock or a flush of a lock its caller holds finds the bo_data_t     *)
(* gbm_unlock reads without a null check, also after a flush has already   *)
(* taken the lock.                                                         *)
HeldLockHasData == \A h \in Handles : held[h] > 0 => h \in hasData

(* gbm counts no lock its client does not know of, as after a lock that    *)
(* failed to map: what is locked, the client can still unlock.             *)
NoLockIsLost == \A h \in Handles : lock_count[h] <= held[h]

(* The two together: gbm_gralloc and its client agree on the locks, after  *)
(* locks that failed to map, flushes, and frees of a locked buffer.        *)
LocksAreBacked == HeldLockHasData /\ NoLockIsLost

=============================================================================
