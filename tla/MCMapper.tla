----------------------------- MODULE MCMapper -----------------------------
(* Two handle addresses: h1 of a buffer the waiver applies to, h2 of one   *)
(* that may be locked only for what it was allocated for.                  *)
EXTENDS Mapper

CONSTANTS h1, h2, read, write, texture

MCHandles == {h1, h2}
MCUsages == {read, write, texture}
MCCpuUsages == {read, write}
MCWaiverUsages == {texture}
MCHandleUsage == [h \in MCHandles |-> IF h = h1 THEN {texture} ELSE {write}]
=============================================================================
