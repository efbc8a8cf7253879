---------------------------- MODULE MCKmsOutput ----------------------------
(* Two buffers, so that a buffer can be imported again while the other is  *)
(* the target.                                                             *)
EXTENDS KmsOutput

CONSTANTS b1, b2

MCBuffers == {b1, b2}
=============================================================================
