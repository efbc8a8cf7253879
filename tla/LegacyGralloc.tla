--------------------------- MODULE LegacyGralloc ---------------------------
(***************************************************************************)
(* The legacy gralloc module (gralloc/gralloc_rpi.cpp, gbm_module.cpp) in  *)
(* a client process: lock_ycbcr registers a handle it does not know, locks *)
(* it, and unlock registers it off again.                                  *)
(*                                                                         *)
(* The module's mutex makes each call into gbm_gralloc one step, but it is *)
(* taken and given back for each of them, and rhandle, which remembers the *)
(* handle to unregister, is one for all threads and outside of it.         *)
(***************************************************************************)
EXTENDS GbmGralloc, GrallocLayout

CONSTANTS
    Clients,        \* threads of the process
    formatOf,       \* the format kept in each handle
    NoHandle,       \* rhandle == NULL
    MaxCount        \* bound on the lock count of a buffer that is locked again

ASSUME LegacyAssumption ==
    /\ formatOf \in [Handles -> Formats]
    /\ MaxCount \in Nat
    /\ NoHandle \notin Handles

VARIABLES
    gbm,            \* gbm_module_t::gbm is set
    rhandle,
    client          \* what each thread is doing

legacyVars == <<gbmVars, gbm, rhandle, client>>

Outside == [at |-> "outside"]

LegacyInit ==
    /\ GbmInit
    /\ gbm = FALSE
    /\ rhandle = NoHandle
    /\ client = [t \in Clients |-> Outside]

LegacyTypeOK ==
    /\ GbmTypeOK
    /\ gbm \in BOOLEAN
    /\ rhandle \in Handles \cup {NoHandle}
    /\ \A t \in Clients : client[t].at \in {"outside", "register", "remember", "lock", "locked",
                                            "compare", "unregister", "forget"}

At(t, place) == client[t].at = place
GoTo(t, place) ==
    client' = [client EXCEPT ![t] = IF place = "outside" THEN Outside ELSE [@ EXCEPT !.at = place]]

-----------------------------------------------------------------------------
(* lock_ycbcr. *)

(* A handle is used by one thread at a time. *)
CallLock(t, h, usage) ==
    /\ At(t, "outside")
    /\ lock_count[h] < MaxCount
    /\ \A other \in Clients : client[other] # Outside => client[other].handle # h
    /\ client' = [client EXCEPT ![t] = [at |-> "register", handle |-> h, usage |-> usage]]
    /\ UNCHANGED <<gbmVars, gbm, rhandle>>

(* The module is initialized by the first call that finds no device: that  *)
(* call is assumed to be alone, because it is outside the mutex.           *)
gbm_mod_init(t, err) ==
    \/ gbm /\ err = "0" /\ UNCHANGED gbm
    \/ /\ ~gbm
       /\ \A other \in Clients \ {t} : At(other, "outside") \/ At(other, "register")
       /\ \/ err = "0" /\ gbm' = TRUE
          \/ err = "EINVAL" /\ UNCHANGED gbm

gbm_mod_register(t, err) ==
    \/ /\ gbm_mod_init(t, "EINVAL")
       /\ err = "EINVAL" /\ UNCHANGED gbmVars
    \/ /\ gbm_mod_init(t, "0")
       /\ gbm_register(client[t].handle, err)

Register(t) ==
    /\ At(t, "register")
    /\ \E err \in Codes :
        /\ gbm_mod_register(t, err)
        /\ GoTo(t, IF err = "0" THEN "remember" ELSE "lock")
    /\ UNCHANGED rhandle

Remember(t) ==
    /\ At(t, "remember")
    /\ rhandle' = client[t].handle
    /\ GoTo(t, "lock")
    /\ UNCHANGED <<gbmVars, gbm>>

lockUsage(t) == android_convertGralloc0To1Usage(client[t].usage)

(* An unknown format is found when the buffer is locked already. *)
gbm_lock_ycbcr(h, usage, err) ==
    \E locked \in Codes :
        /\ gbm_lock(h, usage, locked)
        /\ err = IF locked = "0" /\ formatOf[h] \notin YuvFormats THEN "EINVAL" ELSE locked

Lock(t) ==
    /\ At(t, "lock")
    /\ \E err \in Codes :
        /\ gbm_lock_ycbcr(client[t].handle, lockUsage(t), err)
        /\ GoTo(t, IF err = "0" THEN "locked" ELSE "outside")
    /\ UNCHANGED <<gbm, rhandle>>

-----------------------------------------------------------------------------
(* unlock. *)

Unlock(t) ==
    /\ At(t, "locked")
    /\ IF gbm
       THEN \E err \in Codes :
                /\ gbm_unlock(client[t].handle, err)
                /\ GoTo(t, IF err = "0" THEN "compare" ELSE "outside")
       ELSE GoTo(t, "outside") /\ UNCHANGED gbmVars
    /\ UNCHANGED <<gbm, rhandle>>

Compare(t) ==
    /\ At(t, "compare")
    /\ GoTo(t, IF rhandle = client[t].handle THEN "unregister" ELSE "outside")
    /\ UNCHANGED <<gbmVars, gbm, rhandle>>

(* Mutant: unlock unregisters what rhandle is by now. *)
mutantUnregister(t) ==
    /\ At(t, "unregister")
    /\ IF rhandle = NoHandle THEN UNCHANGED gbmVars ELSE gbm_free(rhandle)
    /\ GoTo(t, "forget")
    /\ UNCHANGED <<gbm, rhandle>>

Unregister(t) ==
    /\ At(t, "unregister")
    /\ gbm_free(client[t].handle)
    /\ GoTo(t, "forget")
    /\ UNCHANGED <<gbm, rhandle>>

Forget(t) ==
    /\ At(t, "forget")
    /\ rhandle' = NoHandle
    /\ GoTo(t, "outside")
    /\ UNCHANGED <<gbmVars, gbm>>

LegacyNext(available, usages) ==
    \E t \in Clients :
        \/ \E h \in available, usage \in usages : CallLock(t, h, usage)
        \/ Register(t) \/ Remember(t) \/ Lock(t)
        \/ Unlock(t) \/ Compare(t) \/ Unregister(t) \/ Forget(t)

-----------------------------------------------------------------------------
(* A thread that holds a lock keeps the registration, the count and, for a *)
(* CPU usage, the mapping behind it, whatever other threads lock, unlock   *)
(* and unregister meanwhile through the one rhandle.                       *)
LockKeepsMapping ==
    \A t \in Clients : At(t, "locked") =>
        /\ client[t].handle \in bos
        /\ lock_count[client[t].handle] > 0
        /\ lockUsage(t) \cap CpuUsages # {} => client[t].handle \in mapped
=============================================================================
