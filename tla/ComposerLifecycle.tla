------------------------- MODULE ComposerLifecycle -------------------------
(***************************************************************************)
(* How clients of the composer service come and go: Composer::createClient *)
(* on several binder threads, a client's registration, and its destructor, *)
(* which runs on whichever thread drops the last reference; with the vsync *)
(* thread calling back into the registered client all the while.           *)
(*                                                                         *)
(* The vsync thread is the abstract VsyncSource: its mutex is held during  *)
(* the callback, so Install waits for the callback to end.                 *)
(*                                                                         *)
(* "gone" is both the client not created yet and the one destroyed: an     *)
(* identity is used again, as memory is.                                   *)
(***************************************************************************)
EXTENDS VsyncSource, Naturals

CONSTANTS
    Creators,           \* binder threads that call createClient
    Clients, NoClient

ASSUME LifecycleAssumption ==
    /\ NoClient \notin Clients
    /\ "free" \notin Creators
    /\ Callbacks = {"vsyncHook"}

VARIABLES
    mClientMutex,       \* the creator holding it, or "free"
    mClientAlive,       \* Composer: a client exists
    creator,            \* where each thread is in createClient
    timedOut,           \* its wait_for has reached the deadline
    client,             \* where each client is between construction and destruction
    mEventCallback,     \* ComposerHal: the client whose callback object it points to
    callee              \* the client whose onVsync the vsync thread is executing

vars == <<sourceVars, mClientMutex, mClientAlive, creator, timedOut, client,
          mEventCallback, callee>>

CreatorStates == {"idle", "entering", "locked", "waiting", "woken", "making"}

(* The order of a client's life. *)
Order == [gone |-> 0, live |-> 1, registering |-> 2, registered |-> 3, unregVsync |-> 4,
          unregHal |-> 5, resources |-> 6, notifying |-> 7, dying |-> 8]
ClientStates == DOMAIN Order

(* Between construction and the end of onClientDestroyed. *)
Owning(c) == Order[client[c]] \in 1 .. 7

(* Clients whose mHalEventCallback may exist: from registerCallback until  *)
(* the members are destroyed, after the body of the destructor.            *)
CallbackObjects == {c \in Clients : client[c] \notin {"gone", "live"}}

TypeOK ==
    /\ mCallback \in Callbacks \cup {NoCallback}
    /\ running \in BOOLEAN
    /\ mClientMutex \in Creators \cup {"free"}
    /\ mClientAlive \in BOOLEAN
    /\ creator \in [Creators -> CreatorStates]
    /\ timedOut \in [Creators -> BOOLEAN]
    /\ client \in [Clients -> ClientStates]
    /\ mEventCallback \in Clients \cup {NoClient}
    /\ callee \in IF running THEN Clients ELSE {NoClient}

Init ==
    /\ SourceInit
    /\ mClientMutex = "free"
    /\ mClientAlive = FALSE
    /\ creator = [t \in Creators |-> "idle"]
    /\ timedOut = [t \in Creators |-> FALSE]
    /\ client = [c \in Clients |-> "gone"]
    /\ mEventCallback = NoClient
    /\ callee = NoClient

halVars == <<sourceVars, mEventCallback, callee>>

-----------------------------------------------------------------------------
(* createClient. *)

CallCreateClient(t) ==
    /\ creator[t] = "idle"
    /\ creator' = [creator EXCEPT ![t] = "entering"]
    /\ timedOut' = [timedOut EXCEPT ![t] = FALSE]
    /\ UNCHANGED <<halVars, mClientMutex, mClientAlive, client>>

LockClientMutex(t) ==
    /\ creator[t] = "entering"
    /\ mClientMutex = "free"
    /\ mClientMutex' = t
    /\ creator' = [creator EXCEPT ![t] = "locked"]
    /\ UNCHANGED <<halVars, mClientAlive, timedOut, client>>

(* Mutant: the thread waits without giving the mutex up. *)
mutantHoldWhileWaiting(t) ==
    /\ creator[t] = "locked"
    /\ creator' = [creator EXCEPT ![t] = IF mClientAlive THEN "waiting" ELSE "making"]
    /\ UNCHANGED <<halVars, mClientMutex, mClientAlive, timedOut, client>>

(* waitForClientDestroyedLocked: waiting releases the mutex. *)
CheckClientAlive(t) ==
    /\ creator[t] = "locked"
    /\ IF mClientAlive
       THEN creator' = [creator EXCEPT ![t] = "waiting"] /\ mClientMutex' = "free"
       ELSE creator' = [creator EXCEPT ![t] = "making"] /\ UNCHANGED mClientMutex
    /\ UNCHANGED <<halVars, mClientAlive, timedOut, client>>

(* A wakeup without a reason. *)
SpuriousWakeup(t) ==
    /\ creator[t] = "waiting"
    /\ creator' = [creator EXCEPT ![t] = "woken"]
    /\ UNCHANGED <<halVars, mClientMutex, mClientAlive, timedOut, client>>

(* The deadline of one second, which waiting again does not move. *)
Timeout(t) ==
    /\ creator[t] = "waiting"
    /\ creator' = [creator EXCEPT ![t] = "woken"]
    /\ timedOut' = [timedOut EXCEPT ![t] = TRUE]
    /\ UNCHANGED <<halVars, mClientMutex, mClientAlive, client>>

(* Mutant: a woken thread does not look at mClientAlive again. *)
mutantNoRecheck(t) ==
    /\ creator[t] = "woken"
    /\ mClientMutex = "free"
    /\ creator' = [creator EXCEPT ![t] = "making"]
    /\ mClientMutex' = t
    /\ UNCHANGED <<halVars, mClientAlive, timedOut, client>>

(* Mutant: the deadline is forgotten. *)
mutantNoDeadline(t) ==
    /\ creator[t] = "woken"
    /\ mClientMutex = "free"
    /\ IF ~mClientAlive
       THEN creator' = [creator EXCEPT ![t] = "making"] /\ mClientMutex' = t
       ELSE creator' = [creator EXCEPT ![t] = "waiting"] /\ UNCHANGED mClientMutex
    /\ UNCHANGED <<halVars, mClientAlive, timedOut, client>>

(* The mutex is taken again before the predicate is looked at; a thread    *)
(* past its deadline returns EX_NO_RESOURCES if the client is still there. *)
Reacquire(t) ==
    /\ creator[t] = "woken"
    /\ mClientMutex = "free"
    /\ IF ~mClientAlive
       THEN creator' = [creator EXCEPT ![t] = "making"] /\ mClientMutex' = t
       ELSE /\ creator' = [creator EXCEPT ![t] = IF timedOut[t] THEN "idle" ELSE "waiting"]
            /\ UNCHANGED mClientMutex
    /\ UNCHANGED <<halVars, mClientAlive, timedOut, client>>

(* The new client is initialized, told whom to notify, and returned. *)
MakeClient(t, c) ==
    /\ creator[t] = "making"
    /\ client[c] = "gone"
    /\ client' = [client EXCEPT ![c] = "live"]
    /\ mClientAlive' = TRUE
    /\ mClientMutex' = "free"
    /\ creator' = [creator EXCEPT ![t] = "idle"]
    /\ UNCHANGED <<halVars, timedOut>>

(* Mutant: the slot is marked as taken before the initialization. *)
mutantInitFailsAlive(t) ==
    /\ creator[t] = "making"
    /\ creator' = [creator EXCEPT ![t] = "idle"]
    /\ mClientMutex' = "free"
    /\ mClientAlive' = TRUE
    /\ UNCHANGED <<halVars, timedOut, client>>

(* init() failed: there is no command engine, so the destructor returns    *)
(* before it unregisters or notifies anyone.                               *)
InitFails(t) ==
    /\ creator[t] = "making"
    /\ creator' = [creator EXCEPT ![t] = "idle"]
    /\ mClientMutex' = "free"
    /\ UNCHANGED <<halVars, mClientAlive, timedOut, client>>

-----------------------------------------------------------------------------
(* A client.  It registers once; its binder call keeps it alive meanwhile. *)

Moves(c, from, to) == client[c] = from /\ client' = [client EXCEPT ![c] = to]

(* registerEventCallback up to the synchronous hotplug calls. *)
RegisterCallback(c) ==
    /\ Moves(c, "live", "registering")
    /\ mEventCallback' = c
    /\ UNCHANGED <<sourceVars, callee, mClientMutex, mClientAlive, creator, timedOut>>

(* Then the vsync hook is installed. *)
InstallVsyncHook(c) ==
    /\ Moves(c, "registering", "registered")
    /\ Install("vsyncHook")
    /\ UNCHANGED <<mEventCallback, callee, mClientMutex, mClientAlive, creator, timedOut>>

(* The last reference is gone: ~ComposerClient, registered or not.         *)
DropClient(c) ==
    /\ client[c] \in {"live", "registered"}
    /\ client' = [client EXCEPT ![c] = "unregVsync"]
    /\ UNCHANGED <<halVars, mClientMutex, mClientAlive, creator, timedOut>>

(* Mutant: the destructor does not wait for the callback under way. *)
mutantRemoveHookUnlocked(c) ==
    /\ Moves(c, "unregVsync", "unregHal")
    /\ mCallback' = NoCallback
    /\ UNCHANGED <<running, mEventCallback, callee, mClientMutex, mClientAlive, creator,
                   timedOut>>

RemoveVsyncHook(c) ==
    /\ Moves(c, "unregVsync", "unregHal")
    /\ Install(NoCallback)
    /\ UNCHANGED <<mEventCallback, callee, mClientMutex, mClientAlive, creator, timedOut>>

ClearEventCallback(c) ==
    /\ Moves(c, "unregHal", "resources")
    /\ mEventCallback' = NoClient
    /\ UNCHANGED <<sourceVars, callee, mClientMutex, mClientAlive, creator, timedOut>>

DestroyResources(c) ==
    /\ Moves(c, "resources", "notifying")
    /\ UNCHANGED <<halVars, mClientMutex, mClientAlive, creator, timedOut>>

(* Under the mutex: the slot is free and every waiting thread is woken. *)
OnClientDestroyed(c) ==
    /\ Moves(c, "notifying", "dying")
    /\ mClientMutex = "free"
    /\ mClientAlive' = FALSE
    /\ creator' = [t \in Creators |-> IF creator[t] = "waiting" THEN "woken" ELSE creator[t]]
    /\ UNCHANGED <<halVars, mClientMutex, timedOut>>

(* The members, mHalEventCallback first, go after the destructor's body. *)
DestroyMembers(c) ==
    /\ Moves(c, "dying", "gone")
    /\ UNCHANGED <<halVars, mClientMutex, mClientAlive, creator, timedOut>>

-----------------------------------------------------------------------------
(* The vsync thread: vsyncHook follows mEventCallback when it is called. *)

VsyncHook ==
    /\ BeginCallback
    /\ callee' = mEventCallback
    /\ UNCHANGED <<mEventCallback, mClientMutex, mClientAlive, creator, timedOut, client>>

VsyncHookReturns ==
    /\ EndCallback
    /\ callee' = NoClient
    /\ UNCHANGED <<mEventCallback, mClientMutex, mClientAlive, creator, timedOut, client>>

Creating(t) ==
    \/ LockClientMutex(t) \/ CheckClientAlive(t) \/ Reacquire(t) \/ InitFails(t)
    \/ \E c \in Clients : MakeClient(t, c)

Destroying(c) ==
    \/ InstallVsyncHook(c) \/ RemoveVsyncHook(c) \/ ClearEventCallback(c)
    \/ DestroyResources(c) \/ OnClientDestroyed(c) \/ DestroyMembers(c)

Next ==
    \/ \E t \in Creators : CallCreateClient(t)
    \/ \E t \in Creators : LockClientMutex(t)
    \/ \E t \in Creators : CheckClientAlive(t)
    \/ \E t \in Creators : SpuriousWakeup(t)
    \/ \E t \in Creators : Timeout(t)
    \/ \E t \in Creators : Reacquire(t)
    \/ \E t \in Creators : InitFails(t)
    \/ \E t \in Creators, c \in Clients : MakeClient(t, c)
    \/ \E c \in Clients : RegisterCallback(c)
    \/ \E c \in Clients : InstallVsyncHook(c)
    \/ \E c \in Clients : DropClient(c)
    \/ \E c \in Clients : RemoveVsyncHook(c)
    \/ \E c \in Clients : ClearEventCallback(c)
    \/ \E c \in Clients : DestroyResources(c)
    \/ \E c \in Clients : OnClientDestroyed(c)
    \/ \E c \in Clients : DestroyMembers(c)
    \/ VsyncHook
    \/ VsyncHookReturns

Spec == Init /\ [][Next]_vars

(* Every binder thread keeps running; a mutex that is free again and again *)
(* is given to each thread that wants it some time; a deadline passes for  *)
(* a thread that keeps waiting; onVsync, a oneway call, returns.           *)
FairSpec ==
    /\ Spec
    /\ \A t \in Creators : SF_vars(Creating(t)) /\ SF_vars(Timeout(t))
    /\ \A c \in Clients : SF_vars(Destroying(c))
    /\ WF_vars(VsyncHookReturns)

-----------------------------------------------------------------------------
(* The vsync thread executes onVsync only of a callback object that exists,*)
(* from its first instruction to its last, although the client drops its   *)
(* last reference at any time: unregistering waits for the callback.  And  *)
(* the HAL points to a client from its registration to the clear in its    *)
(* destructor: no destructor clears the callback of its successor, and     *)
(* none leaves its own behind.                                             *)
CallbacksReachTheOwner ==
    /\ running => callee \in CallbackObjects
    /\ \A c \in Clients :
        /\ client[c] \in {"registering", "registered"} => mEventCallback = c
        /\ mEventCallback = c => Order[client[c]] \in 2 .. 5

(* The flag says whether a client owns the device, waiters, timeouts and   *)
(* failed initializations notwithstanding: no slot is lost or given twice. *)
AliveIsExact == mClientAlive <=> \E c \in Clients : Owning(c)

(* One client at a time owns the device, the abstract promise. *)
Slot == INSTANCE ClientSlot
            WITH owner <- IF \E c \in Clients : Owning(c)
                          THEN CHOOSE c \in Clients : Owning(c) ELSE NoClient
ImplementsSlot == Slot!SlotSpec

(* createClient returns, with a client or with EX_NO_RESOURCES, whatever   *)
(* the previous client and the other callers do.                           *)
CreateClientReturns == \A t \in Creators : creator[t] # "idle" ~> creator[t] = "idle"

(* A client whose last reference is dropped is destroyed completely: its   *)
(* destructor waits for the vsync thread and for Composer's mutex, and     *)
(* neither waits for it.                                                   *)
DroppedClientGoes == \A c \in Clients : client[c] = "unregVsync" ~> client[c] = "gone"

=============================================================================
