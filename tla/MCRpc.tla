--------------------------------- MODULE MCRpc ---------------------------------
(* Small instances of Rpc for TLC. *)
EXTENDS RpcRefinement, TLC

CONSTANTS t1, t2, c1

TwoThreads == {t1, t2}
\* Two threads use the same client.
OneClient  == {c1}
Shared     == t1 :> c1 @@ t2 :> c1
\* The handler of the second request throws.
Second     == {2}
================================================================================
