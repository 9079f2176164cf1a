----------------------------- MODULE MCWebConsole -----------------------------
(* An instance of WebConsole for TLC: two tasks asked for after each other.  *)
EXTENDS WebConsole

CONSTANTS t1, t2

=============================================================================
