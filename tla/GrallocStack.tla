---------------------------- MODULE GrallocStack ----------------------------
(***************************************************************************)
(* The allocator service and a client process that locks what it was       *)
(* given through the legacy gralloc module.  The two share nothing but the *)
(* result of allocate: the descriptors and the integers of a handle, which *)
(* are the client's from then on.                                          *)
(***************************************************************************)
EXTENDS Allocator, LegacyGralloc

CONSTANT
    LockUsages      \* the CPU usages clients lock for

(* Handle <<r, i>> is the i-th buffer of request r and carries what the    *)
(* allocator put into it.                                                  *)
ASSUME StackAssumption ==
    /\ Handles = UNION {{r} \X (1 .. request[r].count) : r \in Requests}
    /\ handleUsage = [h \in Handles |-> allocatedUsage(h[1])]
    /\ formatOf = [h \in Handles |-> request[h[1]].format]
    /\ Usages = 0 .. 31
    /\ CpuUsages = CpuReadOften \cup CpuWriteOften
    /\ WaiverUsages = CpuReadOften \cup {ClientTarget, GpuTexture}
    /\ LockUsages \subseteq SUBSET Usages

vars == <<allocatorVars, legacyVars>>

Init == AllocatorInit /\ LegacyInit

TypeOK == AllocatorTypeOK /\ LegacyTypeOK

(* Handles the client has been given. *)
Received == {h \in Handles : results[h[1]] > 0}

Next ==
    \/ AllocatorNext /\ UNCHANGED legacyVars
    \/ LegacyNext(Received, LockUsages) /\ UNCHANGED allocatorVars

Spec == Init /\ [][Next]_vars

-----------------------------------------------------------------------------
(* A buffer can be locked for the usage it was allocated for, or for a     *)
(* part of it: the bits the allocator translates to gralloc 1 cover those  *)
(* the legacy module translates, by other rules.  And if that is a CPU     *)
(* usage it is linear, so that the mapping has the stride of the object,   *)
(* which gbm_map asserts.                                                  *)
LockableAsAllocated ==
    \A t \in Clients :
        LET h == client[t].handle
            usage == client[t].usage
        IN  At(t, "lock") /\ usage \subseteq request[h[1]].usage
            => /\ UsageAllowed(h, lockUsage(t))
               /\ usage \cap (CpuReadMask \cup CpuWriteMask) # {}
                    => "LINEAR" \in get_pipe_bind(handleUsage[h])

(* The planes of a locked buffer are those the mapper describes, and they  *)
(* lie inside the object that the allocator asked gbm for.                 *)
PlanesInBuffer ==
    \A t \in Clients :
        LET r == client[t].handle[1] IN
        At(t, "locked") =>
            /\ LayoutsAgree(request[r].format, request[r].width, request[r].height)
            /\ PlanesFit(request[r].format, request[r].width, request[r].height, results[r])
=============================================================================
