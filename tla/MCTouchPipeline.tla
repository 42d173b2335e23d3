--------------------------- MODULE MCTouchPipeline ---------------------------
(* The panel has the tower strip, a place on the map, one a little off it   *)
(* (no drag yet), and the last of these is where Settings has its tile.     *)
EXTENDS TouchPipeline, TLC

CONSTANTS map, beside, strip

NearPlaces == {<<map, beside>>, <<beside, map>>}
Symmetric == Permutations(Fingers)
=============================================================================
