----------------------------- MODULE MCAudioOut -----------------------------
(* Three threads: two may meet on one stream while the third starts, or    *)
(* stops, the other.                                                       *)
EXTENDS AudioOut

CONSTANTS t1, t2, t3, s1, s2

MCThreads == {t1, t2, t3}
MCStreams == {s1, s2}
=============================================================================
