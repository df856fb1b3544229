----------------------------- MODULE MCServiceProxy -----------------------------
(* Small instances of ServiceProxy for TLC. *)
EXTENDS ServiceProxy

EveryCall == {"set", "linked", "stream", "stop", "assign"}
================================================================================
