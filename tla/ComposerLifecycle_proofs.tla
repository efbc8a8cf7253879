---------------------- MODULE ComposerLifecycle_proofs ----------------------
(***************************************************************************)
(* For any number of threads and clients: one client at a time owns the    *)
(* device, the flag Composer waits on says so, and a vsync is delivered to *)
(* the owner's callback object only, and only while it exists.             *)
(***************************************************************************)
EXTENDS ComposerLifecycle, TLAPS

(* The states of a client, sorted by what they own. *)
OwningStates == {"live", "registering", "registered", "unregVsync", "unregHal", "resources",
                 "notifying"}

LEMMA OrderFacts ==
    /\ ClientStates = OwningStates \cup {"gone", "dying"}
    /\ \A s \in ClientStates :
        /\ Order[s] \in 1 .. 7 <=> s \in OwningStates
        /\ Order[s] \in 2 .. 5 <=> s \in {"registering", "registered", "unregVsync", "unregHal"}
BY DEF ClientStates, Order, OwningStates

-----------------------------------------------------------------------------
(* The inductive invariant. *)

(* A thread holds Composer's mutex from its lock to its wait or its end,   *)
(* and makes a client only while there is none.                            *)
MutexInv ==
    \A t \in Creators :
        /\ creator[t] \in {"locked", "making"} => mClientMutex = t
        /\ creator[t] = "making" => ~mClientAlive

(* The flag, and that no two clients own the device. *)
SlotInv ==
    /\ mClientAlive <=> \E c \in Clients : client[c] \in OwningStates
    /\ \A c, d \in Clients :
        client[c] \in OwningStates /\ client[d] \in OwningStates => c = d

(* The HAL's callback is the owner's, from registration to the clear; the  *)
(* vsync hook is installed for a shorter time, and a call runs within that.*)
CallbackInv ==
    /\ \A c \in Clients :
        /\ client[c] \in {"registering", "registered"} => mEventCallback = c
        /\ mEventCallback = c =>
            client[c] \in {"registering", "registered", "unregVsync", "unregHal"}
    /\ mCallback # NoCallback =>
        \E c \in Clients : client[c] \in {"registered", "unregVsync"} /\ mEventCallback = c
    /\ running => mCallback # NoCallback /\ callee = mEventCallback

IInv == TypeOK /\ MutexInv /\ SlotInv /\ CallbackInv

LEMMA InitIInv == Init => IInv
<1> SUFFICES ASSUME Init PROVE IInv
  OBVIOUS
<1> USE LifecycleAssumption, OrderFacts DEF Init, SourceInit
<1>1. TypeOK
  BY DEF TypeOK, CreatorStates
<1>2. MutexInv /\ SlotInv /\ CallbackInv
  BY DEF MutexInv, SlotInv, CallbackInv, OwningStates
<1> QED
  BY <1>1, <1>2 DEF IInv

-----------------------------------------------------------------------------
(* Steps that leave every client where it is. *)

(* createClient but for its success touches neither clients nor the HAL.   *)
LEMMA CreatingIInv ==
    ASSUME IInv, NEW t \in Creators,
           \/ CallCreateClient(t) \/ LockClientMutex(t) \/ CheckClientAlive(t)
           \/ SpuriousWakeup(t) \/ Timeout(t) \/ Reacquire(t) \/ InitFails(t)
    PROVE  IInv'
<1>1. UNCHANGED <<mCallback, running, mEventCallback, callee, mClientAlive, client>>
  BY DEF CallCreateClient, LockClientMutex, CheckClientAlive, SpuriousWakeup, Timeout,
         Reacquire, InitFails, halVars, sourceVars
<1>2. SlotInv' /\ CallbackInv'
  BY <1>1 DEF IInv, SlotInv, CallbackInv
<1>3. TypeOK'
  BY <1>1 DEF IInv, TypeOK, CreatorStates, CallCreateClient, LockClientMutex,
              CheckClientAlive, SpuriousWakeup, Timeout, Reacquire, InitFails
<1>4. MutexInv'
  BY <1>1, LifecycleAssumption DEF IInv, TypeOK, MutexInv, CallCreateClient, LockClientMutex,
              CheckClientAlive, SpuriousWakeup, Timeout, Reacquire, InitFails
<1> QED
  BY <1>2, <1>3, <1>4 DEF IInv

LEMMA HookIInv ==
    ASSUME IInv, VsyncHook \/ VsyncHookReturns
    PROVE  IInv'
<1>1. UNCHANGED <<mCallback, mEventCallback, mClientMutex, mClientAlive, creator, timedOut,
                  client>>
  BY DEF VsyncHook, VsyncHookReturns, BeginCallback, EndCallback
<1>2. TypeOK'
  BY <1>1 DEF IInv, TypeOK, CallbackInv, VsyncHook, VsyncHookReturns, BeginCallback,
              EndCallback
<1>3. MutexInv' /\ SlotInv'
  BY <1>1 DEF IInv, MutexInv, SlotInv
<1>4. CallbackInv'
  BY <1>1 DEF IInv, CallbackInv, VsyncHook, VsyncHookReturns, BeginCallback, EndCallback
<1> QED
  BY <1>2, <1>3, <1>4 DEF IInv

-----------------------------------------------------------------------------
(* Steps that move a client. *)

(* A client that owns the device is the only one that does. *)
LEMMA OnlyOwner ==
    ASSUME IInv, NEW c \in Clients, client[c] \in OwningStates,
           NEW d \in Clients, d # c
    PROVE  client[d] \in {"gone", "dying"} /\ mEventCallback # d
<1>1. client[d] \in {"gone", "dying"}
  BY OrderFacts DEF IInv, SlotInv, TypeOK
<1> QED
  BY <1>1 DEF IInv, CallbackInv

LEMMA MakeClientIInv ==
    ASSUME IInv, NEW t \in Creators, NEW c \in Clients, MakeClient(t, c)
    PROVE  IInv'
<1>1. /\ creator[t] = "making" /\ client[c] = "gone"
      /\ client' = [client EXCEPT ![c] = "live"]
      /\ mClientAlive' = TRUE /\ mClientMutex' = "free"
      /\ creator' = [creator EXCEPT ![t] = "idle"]
      /\ UNCHANGED <<mCallback, running, mEventCallback, callee, timedOut>>
  BY DEF MakeClient, halVars, sourceVars
<1>2. mClientMutex = t /\ \A d \in Clients : client[d] \notin OwningStates
  BY <1>1 DEF IInv, MutexInv, SlotInv
<1>3. TypeOK'
  BY <1>1, OrderFacts DEF IInv, TypeOK, CreatorStates, OwningStates
<1>4. MutexInv'
  BY <1>1, <1>2 DEF IInv, TypeOK, MutexInv
<1>5. SlotInv'
  BY <1>1, <1>2 DEF IInv, TypeOK, SlotInv, OwningStates
<1>6. CallbackInv'
  BY <1>1, <1>2 DEF IInv, TypeOK, CallbackInv, OwningStates
<1> QED
  BY <1>3, <1>4, <1>5, <1>6 DEF IInv

(* The owner goes on to another state in which it owns the device. *)
LEMMA OwnerMoves ==
    ASSUME IInv, NEW c \in Clients, client[c] \in OwningStates,
           NEW state \in OwningStates, client' = [client EXCEPT ![c] = state],
           UNCHANGED <<mClientMutex, mClientAlive, creator, timedOut>>
    PROVE  MutexInv' /\ SlotInv' /\ client' \in [Clients -> ClientStates]
<1>1. MutexInv'
  BY DEF IInv, MutexInv
<1>2. client' \in [Clients -> ClientStates]
  BY OrderFacts DEF IInv, TypeOK
<1>3. \A d \in Clients : client'[d] \in OwningStates <=> client[d] \in OwningStates
  BY DEF IInv, TypeOK
<1>4. SlotInv'
  BY <1>3 DEF IInv, SlotInv
<1> QED
  BY <1>1, <1>2, <1>4

LEMMA OwnerIInv ==
    ASSUME IInv, NEW c \in Clients,
           \/ RegisterCallback(c) \/ InstallVsyncHook(c) \/ DropClient(c)
           \/ RemoveVsyncHook(c) \/ ClearEventCallback(c) \/ DestroyResources(c)
    PROVE  IInv'
<1> USE DEF Moves, Install
<1>1. /\ client[c] \in OwningStates
      /\ UNCHANGED <<mClientMutex, mClientAlive, creator, timedOut, running, callee>>
  BY DEF RegisterCallback, InstallVsyncHook, DropClient, RemoveVsyncHook,
         ClearEventCallback, DestroyResources, OwningStates, halVars, sourceVars
<1>2. PICK state \in OwningStates : client' = [client EXCEPT ![c] = state]
  BY DEF RegisterCallback, InstallVsyncHook, DropClient, RemoveVsyncHook,
         ClearEventCallback, DestroyResources, OwningStates
<1>3. MutexInv' /\ SlotInv' /\ client' \in [Clients -> ClientStates]
  BY <1>1, <1>2, OwnerMoves
<1>4. \A d \in Clients \ {c} :
        client[d] \in {"gone", "dying"} /\ client'[d] = client[d] /\ mEventCallback # d
  BY <1>1, <1>2, OnlyOwner DEF IInv, TypeOK
<1>5. TypeOK' /\ CallbackInv'
  <2>1. TypeOK'
    BY <1>1, <1>3, LifecycleAssumption DEF IInv, TypeOK, RegisterCallback, InstallVsyncHook,
           DropClient, RemoveVsyncHook, ClearEventCallback, DestroyResources, halVars,
           sourceVars
  <2> USE DEF IInv, TypeOK, CallbackInv
  <2>2. CASE RegisterCallback(c)
    BY <1>1, <1>4, <2>1, <2>2 DEF RegisterCallback, sourceVars
  <2>3. CASE InstallVsyncHook(c)
    BY <1>1, <1>4, <2>1, <2>3 DEF InstallVsyncHook
  <2>4. CASE DropClient(c)
    BY <1>1, <1>4, <2>1, <2>4 DEF DropClient, halVars, sourceVars
  <2>5. CASE RemoveVsyncHook(c)
    BY <1>1, <1>4, <2>1, <2>5 DEF RemoveVsyncHook
  <2>6. CASE ClearEventCallback(c)
    BY <1>1, <1>4, <2>1, <2>6, LifecycleAssumption DEF ClearEventCallback, sourceVars
  <2>7. CASE DestroyResources(c)
    BY <1>1, <1>4, <2>1, <2>7 DEF DestroyResources, halVars, sourceVars
  <2> QED
    BY <2>1, <2>2, <2>3, <2>4, <2>5, <2>6, <2>7
<1> QED
  BY <1>3, <1>5 DEF IInv

LEMMA GoingIInv ==
    ASSUME IInv, NEW c \in Clients, OnClientDestroyed(c) \/ DestroyMembers(c)
    PROVE  IInv'
<1>1. CASE OnClientDestroyed(c)
  <2>1. /\ client[c] = "notifying" /\ client' = [client EXCEPT ![c] = "dying"]
        /\ mClientMutex = "free" /\ mClientAlive' = FALSE
        /\ creator' = [t \in Creators |-> IF creator[t] = "waiting" THEN "woken" ELSE creator[t]]
        /\ UNCHANGED <<mCallback, running, mEventCallback, callee, mClientMutex, timedOut>>
    BY <1>1 DEF OnClientDestroyed, Moves, halVars, sourceVars
  <2>2. \A d \in Clients \ {c} : client[d] \in {"gone", "dying"} /\ client'[d] = client[d]
    BY <2>1, OnlyOwner DEF IInv, TypeOK, OwningStates
  <2>3. TypeOK'
    BY <2>1, OrderFacts DEF IInv, TypeOK, CreatorStates
  <2>4. MutexInv'
    BY <2>1 DEF IInv, TypeOK, MutexInv
  <2>5. SlotInv'
    BY <2>1, <2>2 DEF IInv, TypeOK, SlotInv, OwningStates
  <2>6. CallbackInv'
    BY <2>1, <2>2 DEF IInv, TypeOK, CallbackInv
  <2> QED
    BY <2>3, <2>4, <2>5, <2>6 DEF IInv
<1>2. CASE DestroyMembers(c)
  <2>1. /\ client[c] = "dying" /\ client' = [client EXCEPT ![c] = "gone"]
        /\ UNCHANGED <<mCallback, running, mEventCallback, callee, mClientMutex, mClientAlive,
                       creator, timedOut>>
    BY <1>2 DEF DestroyMembers, Moves, halVars, sourceVars
  <2>2. TypeOK'
    BY <2>1, OrderFacts DEF IInv, TypeOK
  <2>3. MutexInv' /\ SlotInv' /\ CallbackInv'
    BY <2>1 DEF IInv, TypeOK, MutexInv, SlotInv, CallbackInv, OwningStates
  <2> QED
    BY <2>2, <2>3 DEF IInv
<1> QED
  BY <1>1, <1>2

LEMMA NextIInv == IInv /\ [Next]_vars => IInv'
<1> SUFFICES ASSUME IInv, [Next]_vars PROVE IInv'
  OBVIOUS
<1>1. CASE UNCHANGED vars
  BY <1>1 DEF vars, sourceVars, IInv, TypeOK, MutexInv, SlotInv, CallbackInv
<1> QED
  BY <1>1, CreatingIInv, HookIInv, MakeClientIInv, OwnerIInv, GoingIInv DEF Next

-----------------------------------------------------------------------------
(* The state of the service, its clients and the HAL is well typed, and    *)
(* IInv holds of it.                                                       *)
THEOREM Invariance == Spec => []IInv
BY InitIInv, NextIInv, PTL DEF Spec

(* Composer's flag is set exactly while a client owns the device: no slot  *)
(* is lost by a timeout or a failed initialization, none is given twice.   *)
THEOREM SlotIsExact == Spec => []AliveIsExact
<1>1. IInv => AliveIsExact
  BY OrderFacts DEF IInv, TypeOK, SlotInv, AliveIsExact, Owning
<1> QED
  BY <1>1, Invariance, PTL

(* onVsync runs on a callback object that exists, and the HAL points to    *)
(* the client from its registration to the clear in its destructor.        *)
THEOREM CallbacksOfOwner == Spec => []CallbacksReachTheOwner
<1>1. IInv => CallbacksReachTheOwner
  BY OrderFacts DEF IInv, TypeOK, CallbackInv, CallbacksReachTheOwner, CallbackObjects
<1> QED
  BY <1>1, Invariance, PTL

-----------------------------------------------------------------------------
(* The refinement. *)

Owner == IF \E c \in Clients : Owning(c) THEN CHOOSE c \in Clients : Owning(c) ELSE NoClient

(* The same of any states of the clients, for use before and after a step. *)
OwnerIn(states) ==
    IF \E c \in Clients : Order[states[c]] \in 1 .. 7
    THEN CHOOSE c \in Clients : Order[states[c]] \in 1 .. 7 ELSE NoClient

LEMMA OwnerIs ==
    ASSUME NEW states \in [Clients -> ClientStates],
           \A c, d \in Clients :
                states[c] \in OwningStates /\ states[d] \in OwningStates => c = d
    PROVE  /\ \A c \in Clients : states[c] \in OwningStates => OwnerIn(states) = c
           /\ (\A c \in Clients : states[c] \notin OwningStates) => OwnerIn(states) = NoClient
<1>1. \A c \in Clients : Order[states[c]] \in 1 .. 7 <=> states[c] \in OwningStates
  BY OrderFacts
<1> QED
  BY <1>1 DEF OwnerIn

LEMMA OwnerNow == Owner = OwnerIn(client) /\ Owner' = OwnerIn(client')
BY DEF Owner, Owning, OwnerIn

(* Steps that leave the same clients owning leave the owner. *)
LEMMA OwnerStays ==
    ASSUME IInv, IInv',
           \A c \in Clients : client[c] \in OwningStates => client'[c] \in OwningStates,
           \A c \in Clients : client'[c] \in OwningStates => client[c] \in OwningStates
    PROVE  Owner' = Owner
<1>1. CASE \E c \in Clients : client[c] \in OwningStates
  <2>1. PICK c \in Clients : client[c] \in OwningStates
    BY <1>1
  <2> QED
    BY <2>1, OwnerIs, OwnerNow DEF IInv, TypeOK, SlotInv
<1>2. CASE \A c \in Clients : client[c] \notin OwningStates
  BY <1>2, OwnerIs, OwnerNow DEF IInv, TypeOK, SlotInv
<1> QED
  BY <1>1, <1>2

(* The service hands out one client at a time, and the next one only after *)
(* the previous one has given everything up: it implements ClientSlot.     *)
THEOREM RefinesSlot == Spec => ImplementsSlot
<1> USE LifecycleAssumption
<1>1. ASSUME Init
      PROVE  Owner = NoClient
  <2>1. IInv /\ \A c \in Clients : client[c] \notin OwningStates
    BY <1>1, InitIInv DEF Init, OwningStates
  <2> QED
    BY <2>1, OwnerIs, OwnerNow DEF IInv, TypeOK, SlotInv
<1>2. ASSUME IInv, [Next]_vars
      PROVE  \/ \E c \in Clients : Owner = NoClient /\ Owner' = c
             \/ Owner # NoClient /\ Owner' = NoClient
             \/ Owner' = Owner
  <2>1. IInv'
    BY <1>2, NextIInv
  <2>2. ASSUME NEW t \in Creators, NEW c \in Clients, MakeClient(t, c)
        PROVE  Owner = NoClient /\ Owner' = c
    <3>1. \A d \in Clients : client[d] \notin OwningStates
      BY <1>2, <2>2 DEF MakeClient, IInv, MutexInv, SlotInv
    <3>2. client'[c] \in OwningStates
      BY <1>2, <2>2 DEF MakeClient, IInv, TypeOK, OwningStates
    <3> QED
      BY <1>2, <2>1, <3>1, <3>2, OwnerIs, OwnerNow DEF IInv, TypeOK, SlotInv
  <2>3. ASSUME NEW c \in Clients, OnClientDestroyed(c)
        PROVE  Owner # NoClient /\ Owner' = NoClient
    <3>1. client[c] \in OwningStates
      BY <2>3 DEF OnClientDestroyed, Moves, OwningStates
    <3>2. \A d \in Clients : client'[d] \notin OwningStates
      <4>1. mClientAlive' = FALSE
        BY <2>3 DEF OnClientDestroyed
      <4> QED
        BY <2>1, <4>1 DEF IInv, SlotInv
    <3> QED
      BY <1>2, <2>1, <3>1, <3>2, OwnerIs, OwnerNow DEF IInv, TypeOK, SlotInv
  <2>4. CASE \/ UNCHANGED vars \/ VsyncHook \/ VsyncHookReturns
             \/ \E t \in Creators :
                    \/ CallCreateClient(t) \/ LockClientMutex(t) \/ CheckClientAlive(t)
                    \/ SpuriousWakeup(t) \/ Timeout(t) \/ Reacquire(t) \/ InitFails(t)
    <3>1. client' = client
      BY <2>4 DEF vars, VsyncHook, VsyncHookReturns, CallCreateClient, LockClientMutex,
                  CheckClientAlive, SpuriousWakeup, Timeout, Reacquire, InitFails
    <3> QED
      BY <1>2, <2>1, <3>1, OwnerStays
  <2>5. ASSUME NEW c \in Clients,
               \/ RegisterCallback(c) \/ InstallVsyncHook(c) \/ DropClient(c)
               \/ RemoveVsyncHook(c) \/ ClearEventCallback(c) \/ DestroyResources(c)
               \/ DestroyMembers(c)
        PROVE  Owner' = Owner
    <3>1. \E state \in ClientStates :
            /\ client' = [client EXCEPT ![c] = state]
            /\ client[c] \in OwningStates <=> state \in OwningStates
      BY <2>5, OrderFacts DEF RegisterCallback, InstallVsyncHook, DropClient, RemoveVsyncHook,
             ClearEventCallback, DestroyResources, DestroyMembers, Moves, OwningStates
    <3> QED
      BY <1>2, <2>1, <3>1, OwnerStays DEF IInv, TypeOK
  <2> QED
    BY <1>2, <2>2, <2>3, <2>4, <2>5 DEF Next
<1>3. ASSUME Init
      PROVE  Slot!SlotInit
  BY <1>1, <1>3 DEF Slot!SlotInit, Owner
<1>4. ASSUME IInv, [Next]_vars
      PROVE  [Slot!SlotNext]_(IF \E c \in Clients : Owning(c)
                              THEN CHOOSE c \in Clients : Owning(c) ELSE NoClient)
  BY <1>2, <1>4 DEF Slot!SlotNext, Slot!Grant, Slot!Release, Owner
<1> QED
  BY <1>3, <1>4, Invariance, PTL DEF Spec, ImplementsSlot, Slot!SlotSpec
=============================================================================
