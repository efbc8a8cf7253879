--------------------------- MODULE MCVsyncThread ---------------------------
(* Two binder threads, so that one may switch the callback while the other *)
(* is between unlock and notify; a period of 2 ticks and a thread up to 5  *)
(* ticks late, so that whole periods are skipped and lateness is sometimes *)
(* a multiple of the period and sometimes not.                             *)
EXTENDS VsyncThread

CONSTANTS c1, c2, cb
MCCallers == {c1, c2}
MCCallbacks == {cb}
=============================================================================
