--------------------------- MODULE MCEngineUpgrade ---------------------------
(* Three releases, of which the second brings a package and an environment.   *)
EXTENDS EngineUpgrade

CONSTANTS p1, p2

ThreeReleases == {1, 2, 3}
Second        == {2}
==============================================================================
