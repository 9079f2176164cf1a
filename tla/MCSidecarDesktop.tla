-------------------------- MODULE MCSidecarDesktop --------------------------
(***************************************************************************)
(* Instances of SidecarDesktop for TLC: the commands of a run are chosen   *)
(* by its .cfg, their types and tasks are given here by name.              *)
(***************************************************************************)
EXTENDS SidecarDesktop, TLC

CONSTANTS t1, t2,
          start1, start2, pause1, takeover1, takeover2, resume1, cancel1, cancel2, approve1

MCType == [c \in Commands |->
  CASE c \in {start1, start2}         -> "START_TASK"
    [] c = pause1                     -> "PAUSE_TASK"
    [] c \in {takeover1, takeover2}   -> "REQUEST_TAKEOVER"
    [] c = resume1                    -> "RESUME_AFTER_HUMAN"
    [] c \in {cancel1, cancel2}       -> "CANCEL_TASK"
    [] c = approve1                   -> "APPROVE_SUBMIT"]

MCTask == [c \in Commands |-> IF c \in {start2, cancel2} THEN t2 ELSE t1]

MCSub == [c \in Commands |-> 0]

=============================================================================
