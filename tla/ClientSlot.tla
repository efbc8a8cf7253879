----------------------------- MODULE ClientSlot -----------------------------
(***************************************************************************)
(* What the composer service promises about its clients: there is one at a *)
(* time, and a new one is handed out only after the previous one has given *)
(* up every resource of the device.  ComposerLifecycle implements this.    *)
(***************************************************************************)
CONSTANTS Clients, NoClient

VARIABLE owner      \* the client that owns the device

SlotInit == owner = NoClient

Grant(c) == owner = NoClient /\ owner' = c

Release == owner # NoClient /\ owner' = NoClient

SlotNext == (\E c \in Clients : Grant(c)) \/ Release

SlotSpec == SlotInit /\ [][SlotNext]_owner

=============================================================================
