----------------------------- MODULE MCMessageLoop -----------------------------
(* A small instance of MessageLoop for TLC. *)
EXTENDS MessageLoop

CONSTANTS t1, t2

TwoThreads == {t1, t2}
BothKinds  == {"log", "trace"}
Tracing    == {"trace"}
Logging    == {"log"}
==============================================================================
