----------------------------- MODULE MCReportLink -----------------------------
(* Instances of ReportLink for TLC: the tasks by name.                     *)
EXTENDS ReportLink, TLC

CONSTANTS t1

=============================================================================
