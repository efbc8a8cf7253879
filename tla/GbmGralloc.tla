----------------------------- MODULE GbmGralloc -----------------------------
(***************************************************************************)
(* The buffer bookkeeping of graphics/common/gbm_gralloc.cpp: the map from *)
(* handles to gbm buffer objects and the lock state kept with each object. *)
(* The library is linked statically, so every user has a map of its own.   *)
(*                                                                         *)
(* Each function is an action whose last parameter is the code it returns; *)
(* a caller picks the one outcome that is enabled with \E err \in Codes.   *)
(* gbm may fail any import ("EINVAL") or mapping ("ENOMEM").  This module  *)
(* has no Next of its own: it is composed by Mapper.                       *)
(***************************************************************************)
EXTENDS Naturals

CONSTANTS
    Handles,        \* handle addresses; one may be used again once deleted
    Usages,         \* usage bits
    CpuUsages,      \* those for which gbm_lock maps the buffer
    WaiverUsages,   \* those that let a buffer be locked for any usage
    handleUsage     \* the usage kept in the handle at each address

ASSUME GbmAssumption ==
    /\ CpuUsages \subseteq Usages
    /\ handleUsage \in [Handles -> SUBSET Usages]

VARIABLES
    keys,           \* keys of gbm_bo_handle_map
    bos,            \* those whose value is not null
    hasData,        \* buffer objects that have their bo_data_t
    mapped,         \* buffer objects whose map_data is not null
    lock_count,
    locked_for

gbmVars == <<keys, bos, hasData, mapped, lock_count, locked_for>>

Codes == {"0", "EINVAL", "ENOMEM"}

GbmTypeOK ==
    /\ keys \subseteq Handles
    /\ bos \subseteq keys
    /\ hasData \subseteq bos
    /\ mapped \subseteq hasData
    /\ lock_count \in [Handles -> Nat]
    /\ locked_for \in [Handles -> SUBSET Usages]

GbmInit ==
    /\ keys = {} /\ bos = {} /\ hasData = {} /\ mapped = {}
    /\ lock_count = [h \in Handles |-> 0]
    /\ locked_for = [h \in Handles |-> {}]

-----------------------------------------------------------------------------
(* A key with a null value counts as registered. *)
gbm_register(h, err) ==
    /\ UNCHANGED <<hasData, mapped, lock_count, locked_for>>
    /\ \/ err = "EINVAL" /\ UNCHANGED <<keys, bos>>
       \/ /\ err = "0"
          /\ h \notin keys
          /\ keys' = keys \cup {h}
          /\ bos' = bos \cup {h}

(* Looking a handle up with operator[] inserts it, with a null value. *)
gralloc_gbm_bo_from_handle(h) == keys' = keys \cup {h}

(* Mutant: the entry is left in the map. *)
mutantFreeKeepsEntry(h) ==
    /\ gralloc_gbm_bo_from_handle(h)
    /\ UNCHANGED <<bos, hasData, mapped, lock_count, locked_for>>

(* Destroying a buffer object deletes its bo_data_t and with it the lock   *)
(* state; a handle without one leaves a null entry in the map.             *)
gbm_free(h) ==
    IF h \in bos
    THEN /\ keys' = keys \ {h}
         /\ bos' = bos \ {h}
         /\ hasData' = hasData \ {h}
         /\ mapped' = mapped \ {h}
         /\ lock_count' = [lock_count EXCEPT ![h] = 0]
         /\ locked_for' = [locked_for EXCEPT ![h] = {}]
    ELSE /\ gralloc_gbm_bo_from_handle(h)
         /\ UNCHANGED <<bos, hasData, mapped, lock_count, locked_for>>

-----------------------------------------------------------------------------
UsageAllowed(h, usage) ==
    usage \subseteq handleUsage[h] \/ handleUsage[h] \cap WaiverUsages # {}

Compatible(h, usage) == lock_count[h] > 0 => usage \subseteq locked_for[h]

(* The usage of the locks already there counts as well. *)
NeedsMap(h, usage) == (usage \cup locked_for[h]) \cap CpuUsages # {}

AddLock(h, usage) ==
    /\ lock_count' = [lock_count EXCEPT ![h] = @ + 1]
    /\ locked_for' = [locked_for EXCEPT ![h] = @ \cup usage]

(* Mutant: a mapped buffer is mapped again, and its old mapping is lost. *)
mutantMapAgain(h, err) ==
    \/ err = "ENOMEM" /\ UNCHANGED mapped
    \/ err = "0" /\ mapped' = mapped \cup {h}

(* The buffer is mapped: an object has room for one mapping. *)
gbm_map(h, err) ==
    \/ err = "EINVAL" /\ h \in mapped /\ UNCHANGED mapped
    \/ err = "ENOMEM" /\ h \notin mapped /\ UNCHANGED mapped
    \/ err = "0" /\ h \notin mapped /\ mapped' = mapped \cup {h}

(* Mutant: the lock is counted before the buffer is mapped. *)
mutantCountBeforeMap(h, usage, err) ==
    /\ gralloc_gbm_bo_from_handle(h)
    /\ UNCHANGED bos
    /\ IF h \notin bos \/ ~UsageAllowed(h, usage) \/ ~Compatible(h, usage)
       THEN err = "EINVAL" /\ UNCHANGED <<hasData, mapped, lock_count, locked_for>>
       ELSE /\ hasData' = hasData \cup {h}
            /\ AddLock(h, usage)
            /\ IF NeedsMap(h, usage)
               THEN gbm_map(h, err)
               ELSE err = "0" /\ UNCHANGED mapped

(* A lock that fails after the usage check leaves the bo_data_t behind. *)
gbm_lock(h, usage, err) ==
    /\ gralloc_gbm_bo_from_handle(h)
    /\ UNCHANGED bos
    /\ IF h \notin bos \/ ~UsageAllowed(h, usage)
       THEN err = "EINVAL" /\ UNCHANGED <<hasData, mapped, lock_count, locked_for>>
       ELSE /\ hasData' = hasData \cup {h}
            /\ \/ /\ ~Compatible(h, usage)
                  /\ err = "EINVAL"
                  /\ UNCHANGED <<mapped, lock_count, locked_for>>
               \/ /\ Compatible(h, usage)
                  /\ IF NeedsMap(h, usage)
                     THEN gbm_map(h, err)
                     ELSE err = "0" /\ UNCHANGED mapped
                  /\ IF err = "0"
                     THEN AddLock(h, usage)
                     ELSE UNCHANGED <<lock_count, locked_for>>

-----------------------------------------------------------------------------
(* Mutant: locked_for is cleared before it is asked for a mapping. *)
mutantUnlockForgetsMapping(h, err) ==
    /\ gralloc_gbm_bo_from_handle(h)
    /\ UNCHANGED <<bos, hasData, mapped>>
    /\ IF h \notin bos \/ lock_count[h] = 0
       THEN err = (IF h \in bos THEN "0" ELSE "EINVAL") /\ UNCHANGED <<lock_count, locked_for>>
       ELSE /\ err = "0"
            /\ lock_count' = [lock_count EXCEPT ![h] = @ - 1]
            /\ locked_for' = [locked_for EXCEPT ![h] = IF lock_count[h] = 1 THEN {} ELSE @]

(* The bo_data_t of a registered buffer is read without a null check: the  *)
(* caller must be in a state with h \in bos => h \in hasData.              *)
gbm_unlock(h, err) ==
    /\ gralloc_gbm_bo_from_handle(h)
    /\ UNCHANGED <<bos, hasData>>
    /\ IF h \notin bos
       THEN err = "EINVAL" /\ UNCHANGED <<mapped, lock_count, locked_for>>
       ELSE /\ err = "0"
            /\ IF lock_count[h] = 0
               THEN UNCHANGED <<mapped, lock_count, locked_for>>
               ELSE /\ mapped' = IF locked_for[h] \cap CpuUsages # {}
                                 THEN mapped \ {h} ELSE mapped
                    /\ lock_count' = [lock_count EXCEPT ![h] = @ - 1]
                    /\ locked_for' = [locked_for EXCEPT ![h] =
                                        IF lock_count[h] = 1 THEN {} ELSE @]
=============================================================================
