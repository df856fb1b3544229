------------------------------ MODULE MCActuator ------------------------------
(* A small instance of Actuator for TLC: every service, with two streams.     *)
EXTENDS Actuator

CONSTANTS c1, c2

Every      == AllKinds
TwoStreams == {c1, c2}
Bounds     ==
  [k \in AllKinds |-> CASE k = "bmc_sim"                                     -> 0
                         [] k \in {"plp", "xps", "cld101x", "mff101", "fw102c"} -> 2
                         [] OTHER                                            -> 1]
Levels     == {0, 1, 2}
==============================================================================
