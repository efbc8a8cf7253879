----------------------------- MODULE Allocator -----------------------------
(***************************************************************************)
(* The allocator service: IAllocator::allocate on the threads of its       *)
(* binder pool.  A call creates its buffers one after the other, gives     *)
(* copies of their file descriptors to the client and then frees what it   *)
(* created, on success and on every error.                                 *)
(*                                                                         *)
(* The service has a gbm_bo_handle_map of its own, keyed by the address of *)
(* a handle, and the heap gives a freed address to another thread at once: *)
(* emplace on a key that is still there does nothing.  The map itself is   *)
(* not protected ("XXX thread-safety?"); each access to it is one step     *)
(* here, and a handle passes through several.                              *)
(***************************************************************************)
EXTENDS GrallocLayout, Sequences, FiniteSets, FiniteSetsExt

CONSTANTS
    Servers,        \* binder threads of the service
    Requests,       \* allocate calls; each is made once
    request,        \* the format, width, height, usage and count of each
    Addresses       \* where a private_handle_t may be

ASSUME AllocatorAssumption ==
    /\ Addresses \subseteq Nat \ {0} /\ IsFiniteSet(Addresses)
    /\ request \in [Requests -> [format : Formats, width : Nat \ {0}, height : Nat \ {0},
                                 usage : SUBSET (0 .. 31), count : Nat \ {0}]]

VARIABLES
    calls,              \* what each thread is doing
    gbm_bo_handle_map,  \* per address, the object registered there; 0 for none
    objects,            \* gbm objects that exist
    heap,               \* addresses that hold a private_handle_t
    results             \* per request: NotYet, Failed or the stride in bytes

allocatorVars == <<calls, gbm_bo_handle_map, objects, heap, results>>

Null    == 0                            \* a null handle
NotYet  == 0
Failed  == -1
Waiting == [at |-> "idle"]
Objects == 1 .. Cardinality(Addresses)  \* bound: as many objects as handles

AllocatorInit ==
    /\ calls = [s \in Servers |-> Waiting]
    /\ gbm_bo_handle_map = [a \in Addresses |-> 0]
    /\ objects = {}
    /\ heap = {}
    /\ results = [r \in Requests |-> NotYet]

AllocatorTypeOK ==
    /\ \A s \in Servers : calls[s].at \in {"idle", "create", "export", "rollback", "free"}
    /\ gbm_bo_handle_map \in [Addresses -> Objects \cup {0}]
    /\ objects \subseteq Objects
    /\ heap \subseteq Addresses

-----------------------------------------------------------------------------
(* The usage kept in the handles of request r. *)
allocatedUsage(r) == toProducerUsage(request[r].usage) \cup toConsumerUsage(request[r].usage)

(* External: the strides gbm gives, the tightest and one wider. *)
GbmStrides(r) ==
    LET tightest == Align(2 * GbmWidth(request[r].format, request[r].width), 32)
    IN  {tightest, tightest + 32}

Goto(s, call) == calls' = [calls EXCEPT ![s] = call]

BeginAllocate(s, r) ==
    /\ calls[s] = Waiting
    /\ results[r] = NotYet
    /\ \A other \in Servers : calls[other] # Waiting => calls[other].request # r
    /\ Goto(s, [at |-> "create", request |-> r, buffers |-> <<>>, stride |-> 0, freed |-> FALSE])
    /\ UNCHANGED <<gbm_bo_handle_map, objects, heap, results>>

(* A new buffer joins the others; a stride that is not theirs ends the     *)
(* call with all of them.                                                  *)
PushBuffer(s, buffer, stride) ==
    LET call == calls[s] IN
    Goto(s, [call EXCEPT
        !.buffers = Append(@, buffer),
        !.stride  = IF @ = 0 THEN stride ELSE @,
        !.at = IF call.stride \notin {0, stride} THEN "rollback"
               ELSE IF Len(call.buffers) + 1 = request[call.request].count THEN "export"
               ELSE "create"])

(* allocateOneBuffer by gralloc_gbm_bo_create.  gbm creates no object of   *)
(* no format.                                                              *)
CreateBuffer(s) ==
    /\ calls[s].at = "create"
    /\ LET r == calls[s].request IN
        /\ gralloc_gbm_get_bpp(request[r].format) # 0
        /\ get_gbm_format(request[r].format) # "none"
        /\ \E a \in Addresses \ heap, stride \in GbmStrides(r) :
            LET bo == Min(Objects \ objects) IN
            /\ heap' = heap \cup {a}
            /\ objects' = objects \cup {bo}
            /\ gbm_bo_handle_map' = [gbm_bo_handle_map EXCEPT ![a] = IF @ = 0 THEN bo ELSE @]
            /\ PushBuffer(s, a, stride)
    /\ UNCHANGED results

(* Mutant: the buffers made so far are forgotten. *)
mutantCreateFails(s) ==
    /\ calls[s].at = "create"
    /\ Goto(s, [calls[s] EXCEPT !.at = "rollback", !.buffers = <<>>])
    /\ UNCHANGED <<gbm_bo_handle_map, objects, heap, results>>

(* An unknown format, or gbm fails and says why in errno. *)
CreateFails(s) ==
    /\ calls[s].at = "create"
    /\ Goto(s, [calls[s] EXCEPT !.at = "rollback"])
    /\ UNCHANGED <<gbm_bo_handle_map, objects, heap, results>>

(* gbm fails and leaves errno 0: a null handle with no stride is a success.*)
CreateFailsSilently(s) ==
    /\ calls[s].at = "create"
    /\ gralloc_gbm_get_bpp(request[calls[s].request].format) # 0
    /\ PushBuffer(s, Null, 0)
    /\ UNCHANGED <<gbm_bo_handle_map, objects, heap, results>>

(* dupToAidl of every buffer into the result. *)
Export(s) ==
    /\ calls[s].at = "export"
    /\ \A i \in DOMAIN calls[s].buffers : calls[s].buffers[i] # Null
    /\ results' = [results EXCEPT ![calls[s].request] = calls[s].stride]
    /\ Goto(s, [calls[s] EXCEPT !.at = "free"])
    /\ UNCHANGED <<gbm_bo_handle_map, objects, heap>>

(* dupToAidl of a null handle: the service dies, the kernel takes back its *)
(* objects, and init starts it again.                                      *)
Crash(s) ==
    /\ calls[s].at = "export"
    /\ \E i \in DOMAIN calls[s].buffers : calls[s].buffers[i] = Null
    /\ calls' = [other \in Servers |-> Waiting]
    /\ gbm_bo_handle_map' = [a \in Addresses |-> 0]
    /\ objects' = {}
    /\ heap' = {}
    /\ results' = [r \in Requests |->
            IF \E other \in Servers : calls[other] # Waiting /\ calls[other].request = r
                /\ calls[other].at # "free"
            THEN Failed ELSE results[r]]

Freeing(s) == calls[s].at \in {"rollback", "free"} /\ calls[s].buffers # <<>>

(* freeBuffers, first gbm_free: the entry goes before the object. *)
FreeObject(s) ==
    /\ Freeing(s) /\ ~calls[s].freed
    /\ Goto(s, [calls[s] EXCEPT !.freed = TRUE])
    /\ LET a == Head(calls[s].buffers) IN
        IF a = Null THEN UNCHANGED <<gbm_bo_handle_map, objects>>
        ELSE /\ objects' = objects \ {gbm_bo_handle_map[a]}
             /\ gbm_bo_handle_map' = [gbm_bo_handle_map EXCEPT ![a] = 0]
    /\ UNCHANGED <<heap, results>>

(* Then the descriptors are closed and the handle is deleted. *)
DeleteHandle(s) ==
    /\ Freeing(s) /\ calls[s].freed
    /\ Goto(s, [calls[s] EXCEPT !.freed = FALSE, !.buffers = Tail(@)])
    /\ heap' = heap \ {Head(calls[s].buffers)}
    /\ UNCHANGED <<gbm_bo_handle_map, objects, results>>

AllocateReturns(s) ==
    /\ calls[s].at \in {"rollback", "free"} /\ calls[s].buffers = <<>>
    /\ results' = IF calls[s].at = "free" THEN results
                  ELSE [results EXCEPT ![calls[s].request] = Failed]
    /\ Goto(s, Waiting)
    /\ UNCHANGED <<gbm_bo_handle_map, objects, heap>>

AllocatorNext ==
    \E s \in Servers :
        \/ \E r \in Requests : BeginAllocate(s, r)
        \/ CreateBuffer(s) \/ CreateFails(s) \/ CreateFailsSilently(s)
        \/ Export(s) \/ Crash(s)
        \/ FreeObject(s) \/ DeleteHandle(s) \/ AllocateReturns(s)

-----------------------------------------------------------------------------
(* The handles a running call still has to free, by gbm_free or by delete. *)
HeldBy(s) ==
    IF calls[s] = Waiting THEN {}
    ELSE {calls[s].buffers[i] : i \in DOMAIN calls[s].buffers} \ {Null}

ObjectsHeldBy(s) ==
    {gbm_bo_handle_map[a] : a \in HeldBy(s) \
        (IF Freeing(s) /\ calls[s].freed THEN {Head(calls[s].buffers)} ELSE {})}

(* The service keeps nothing of a call: the handles and gbm objects that   *)
(* exist are those of the calls that run, each of one call only, although  *)
(* calls fail at any buffer and an address is used again by another thread *)
(* before the call that freed it returns.                                  *)
NoBufferLeaks ==
    /\ heap = UNION {HeldBy(s) : s \in Servers}
    /\ objects = UNION {ObjectsHeldBy(s) : s \in Servers}
    /\ \A s, t \in Servers : s # t => ObjectsHeldBy(s) \cap ObjectsHeldBy(t) = {}
=============================================================================
