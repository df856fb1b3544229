------------------------------- MODULE MCTestbed -------------------------------
(* Small instances of Testbed for TLC. *)
EXTENDS Testbed, TLC

CONSTANTS a, b

TwoServices == {a, b}
OrderAB     == <<a, b>>

\* Every depends_on relation of two services, with and without cycles, but the empty one:
\* b depends on a all the same, if it requires safety.
NoConfig    == {[s \in TwoServices |-> {}]}
AllConfigs  == [TwoServices -> SUBSET TwoServices] \ NoConfig
\* b depends on a.
Chain       == {[s \in TwoServices |-> IF s = b THEN {a} ELSE {}]}
\* A client starts b, and stops or kills a.
SomeRequests == {<<"start", b>>, <<"stop", a>>, <<"terminate", a>>}
NoRequest   == {}
OnlyB       == {b}
NoOne       == {}
StartB      == <<b>>
StartNothing == <<>>
==============================================================================
