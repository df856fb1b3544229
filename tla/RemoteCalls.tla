------------------------------ MODULE RemoteCalls ------------------------------
(***************************************************************************)
(* What requests promise to those who make them: a request is executed at  *)
(* most once, whether or not its caller still waits, and a caller gets the *)
(* outcome of its own request, after it was executed, or none.  No server  *)
(* that stops or dies, no sockets, and nothing on its way.                 *)
(***************************************************************************)
EXTENDS Integers, Sequences

CONSTANTS
  Callers,      \* those who make requests
  Failing       \* the requests that are answered with an error

VARIABLES
  asked,        \* how many requests were made: they are numbered from 1
  executed,     \* those that were executed, in this order
  waiting,      \* the request that each caller waits for, or 0
  outcome       \* what the last request that a caller made has come to

vars == <<asked, executed, waiting, outcome>>

Executed(n) == \E i \in DOMAIN executed : executed[i] = n
Comes(c, o) ==
  /\ waiting[c] # 0 /\ waiting' = [waiting EXCEPT ![c] = 0]
  /\ outcome' = [outcome EXCEPT ![c] = o]
  /\ UNCHANGED <<asked, executed>>

NoAnswer == [id |-> 0, type |-> "timeout"]

Init ==
  /\ asked = 0 /\ executed = <<>>
  /\ waiting = [c \in Callers |-> 0]
  /\ outcome = [c \in Callers |-> NoAnswer]

Ask(c) ==
  /\ waiting[c] = 0
  /\ asked' = asked + 1 /\ waiting' = [waiting EXCEPT ![c] = asked + 1]
  /\ UNCHANGED <<executed, outcome>>

\* Also one whose caller has given up, and in any order; but never again.
Execute(n) ==
  /\ ~Executed(n) /\ executed' = Append(executed, n)
  /\ UNCHANGED <<asked, waiting, outcome>>

Answer(c) ==
  /\ Executed(waiting[c])
  /\ Comes(c, [id |-> waiting[c], type |-> IF waiting[c] \in Failing THEN "ERROR" ELSE "OK"])

GiveUp(c) == Comes(c, NoAnswer)

Next ==
  \/ \E c \in Callers : Ask(c) \/ Answer(c) \/ GiveUp(c)
  \/ \E n \in 1 .. asked : Execute(n)

Spec == Init /\ [][Next]_vars
================================================================================
