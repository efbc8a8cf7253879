----------------------------- MODULE MCAudioIn -----------------------------
(* A clock of 200 units a second: 20 ms are four units.  The default stream*)
(* and a mono one of 8-bit samples at 250 Hz.                              *)
EXTENDS AudioIn

MCConfigs == {[sample_rate |-> 0, channel_mask |-> 0, format |-> 0],
              [sample_rate |-> 250, channel_mask |-> 1, format |-> 1]}
=============================================================================
