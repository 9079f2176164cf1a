--------------------------- MODULE MCRunnerDesktop ---------------------------
(***************************************************************************)
(* Instances of RunnerDesktop for TLC: which commands the control plane    *)
(* may send.  A set of commands is chosen per run by its .cfg; the types,  *)
(* tasks and submissions of all of them are given here by name.            *)
(***************************************************************************)
EXTENDS RunnerDesktop, TLC

CONSTANTS t1, t2,
          start1, start2, pause1, takeover1, resume1, cancel1, approve1, reject1,
          approveOther, pause2, takeover2, resume2, cancel2

MCType == [c \in Commands |->
  CASE c \in {start1, start2}                  -> "START_TASK"
    [] c \in {pause1, pause2}                  -> "PAUSE_TASK"
    [] c \in {takeover1, takeover2}            -> "REQUEST_TAKEOVER"
    [] c \in {resume1, resume2}                -> "RESUME_AFTER_HUMAN"
    [] c \in {cancel1, cancel2}                -> "CANCEL_TASK"
    [] c \in {approve1, approveOther}          -> "APPROVE_SUBMIT"
    [] c \in {reject1}                         -> "REJECT_SUBMIT"]

MCTask == [c \in Commands |->
  IF c \in {start2, pause2, takeover2, resume2, cancel2, approveOther} THEN t2 ELSE t1]

(* The submission a decision names: the first one.                         *)
MCSub == [c \in Commands |-> IF c \in {approve1, approveOther, reject1} THEN 1 ELSE 0]

=============================================================================
