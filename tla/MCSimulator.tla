------------------------------ MODULE MCSimulator ------------------------------
(* A small instance of Simulator for TLC: two cameras behind one mirror and an *)
(* atmosphere; the light reaches the cameras on two ways.                      *)
EXTENDS Simulator, TLC

CONSTANTS c1, c2

TwoCameras == {c1, c2}
ThePlanes  == {"pupil", "mirror", "reference", "camera"}
Paths ==
  [pupil |-> {}, mirror |-> {"pupil"}, reference |-> {"pupil"},
   camera |-> {"mirror", "reference"}]
Levels     == {1, 2}
Cadences   == {<<2, 2>>, <<1, 3>>}
Symmetric  == Permutations(TwoCameras)
==============================================================================
