----------------------------- MODULE RpcRefinement -----------------------------
(***************************************************************************)
(* Requests over sockets, with timeouts and a server that stops, is killed *)
(* and is started again, implement remote calls that are executed at most  *)
(* once.                                                                   *)
(***************************************************************************)
EXTENDS Rpc

\* A call begins when its request is sent, and ends with what MakeRequest receives or with
\* its timeout.  What is lost with a connection is a call that is never executed.
Calling  == [t \in Threads |-> IF pc[t] = "wait" THEN call[t] ELSE NoNumber]
Executed == [i \in DOMAIN done |-> done[i].id]

Remote == INSTANCE RemoteCalls WITH
  Callers <- Threads, asked <- made, executed <- Executed, waiting <- Calling, outcome <- reply

\* A request is handled at most once, by whichever server there is by then and whether or
\* not its client has timed out; and a client gets the outcome of its own request after it
\* was handled, or none (MakeRequest, HandleRequest): it is the step Answer that has
\* ReplyIsOwn, and "if, after this time, the server still sends the reply, it will be
\* ignored" (docs/protocol.rst).
ImplementsRemoteCalls == Remote!Spec
================================================================================
