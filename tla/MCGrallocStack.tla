--------------------------- MODULE MCGrallocStack ---------------------------
(* Two service threads that allocate two planar buffers in one call, one   *)
(* that is scanned out in another and one that is not YUV in a third, in   *)
(* two places of the heap; and two client threads that lock them, with and *)
(* without the CPU.                                                        *)
EXTENDS GrallocStack, TLC

CONSTANTS s1, s2, c1, c2, null

MCServers  == {s1, s2}
MCClients  == {c1, c2}
MCRequest  == <<[format |-> "YV12", width |-> 34, height |-> 6, usage |-> WriteOften, count |-> 2],
                [format |-> "IMPLEMENTATION_DEFINED", width |-> 20, height |-> 4,
                 usage |-> ReadRarely \cup {ClientTarget}, count |-> 1],
                [format |-> "RGBA_8888", width |-> 8, height |-> 8,
                 usage |-> ReadOften \cup WriteRarely, count |-> 1]>>
MCRequests == DOMAIN MCRequest
MCAddresses == 1 .. 2
MCUsages   == 0 .. 31
MCCpuUsages == CpuReadOften \cup CpuWriteOften
MCWaiverUsages == CpuReadOften \cup {ClientTarget, GpuTexture}
MCHandles  == UNION {{r} \X (1 .. MCRequest[r].count) : r \in MCRequests}
MCHandleUsage == [h \in MCHandles |-> toProducerUsage(MCRequest[h[1]].usage)
                                        \cup toConsumerUsage(MCRequest[h[1]].usage)]
MCFormatOf == [h \in MCHandles |-> MCRequest[h[1]].format]
MCLockUsages == {WriteOften, {}}

(* The two processes share nothing that changes while either runs, so no   *)
(* interleaving of a step of one with a step of the other is missed.       *)
OneProcessAtATime ==
    (\A s \in Servers : calls[s] = Waiting) \/ (\A t \in Clients : client[t] = Outside)

Symmetric == Permutations(MCServers) \cup Permutations(MCClients)
=============================================================================
