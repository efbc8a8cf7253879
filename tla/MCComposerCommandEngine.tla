---------------------- MODULE MCComposerCommandEngine ----------------------
(* A valid display, an invalid one, and layer ids enough for a layer to be *)
(* created while others are dirty, clean or destroyed.                     *)
EXTENDS ComposerCommandEngine

MCCalledDisplays == {0, 2}
=============================================================================
