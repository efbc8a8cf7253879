------------------------- MODULE MCClientResources -------------------------
(* One or two displays with one client target each, which two handles      *)
(* replace; two layers, so that one can be stranded or another display's,  *)
(* with one cache each (all caches of a layer behave the same).            *)
EXTENDS ClientResources

CONSTANTS h1, h2, null

MCHandles == {h1, h2}
MCSlotCounts == {1}
MCLayerCaches == {"buffer"}
(* Two handles with one layer, or one handle with two. *)
Small == Cardinality(live) + mNextLayerId <= 3

Symmetric == Permutations(MCHandles)
=============================================================================
