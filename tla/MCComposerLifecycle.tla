------------------------ MODULE MCComposerLifecycle ------------------------
(* Two callers, so that both may wait for the same client and one of them  *)
(* find it replaced, and three clients: one that owns the device beside    *)
(* two whose destructors have notified but not ended.                      *)
EXTENDS ComposerLifecycle

CONSTANTS t1, t2, k1, k2, k3
MCCreators == {t1, t2}
MCClients == {k1, k2, k3}
MCCallbacks == {"vsyncHook"}
=============================================================================
