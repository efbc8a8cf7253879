--------------------------- MODULE MCClientFrames ---------------------------
(* The instance of MCClientResources.                                      *)
EXTENDS MCClientResources, ClientFrames
=============================================================================
