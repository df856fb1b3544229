----------------------------- MODULE MCDataStream -----------------------------
(* Small instances of DataStream for TLC. *)
EXTENDS DataStreamRefinement

CONSTANTS w1, w2, r1

OneWriter  == {w1}
TwoWriters == {w1, w2}
OneReader  == {r1}
NoOne      == {}
==============================================================================
