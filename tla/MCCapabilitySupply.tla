------------------------- MODULE MCCapabilitySupply -------------------------
(***************************************************************************)
(* An instance of CapabilitySupply for TLC.  Two publishers compete for    *)
(* version v1 of one artifact, a third publishes v2.  Two registrations    *)
(* compete for v1, one claims that v2, whose program fills and submits,    *)
(* serves read tasks too.                                                  *)
(***************************************************************************)
EXTENDS CapabilitySupply

CONSTANTS p1, p2, p3, v1, v2, g1, g2, g3, form, host, chromium

Reads(v) ==
  [version |-> v, mode |-> "read", taskType |-> "collect", validated |-> TRUE,
   highRisk |-> FALSE, approval |-> FALSE, runtime |-> {chromium},
   sites |-> {host}, permissions |-> {host},
   steps |-> {"navigate", "extract"}, navigates |-> {host}]

Fills(v) ==
  [Reads(v) EXCEPT !.mode = "write", !.taskType = "fill", !.highRisk = TRUE,
                   !.approval = TRUE, !.steps = {"fill", "submit"}]

MCContents == [p \in Publishers |-> CASE p = p1 -> Reads(v1) [] p = p2 -> Fills(v1)
                                       [] p = p3 -> Fills(v2)]
MCDeclared == [p \in Publishers |-> {chromium}]
MCVersionOf == [p \in Publishers |-> IF p = p3 THEN v2 ELSE v1]

MCResourceOf == [v \in ResourceVersions |-> form]
MCRegisters == [g \in Registrations |-> IF g = g3 THEN v2 ELSE v1]
MCArtifactOf == [g \in Registrations |-> IF g = g3 THEN p3 ELSE p1]
MCStatusOf == [g \in Registrations |-> IF g = g2 THEN "VALIDATING" ELSE "ACTIVE"]
MCCriteriaOf == [g \in Registrations |->
  [modes |-> IF g = g1 THEN {"read"} ELSE {"read", "write"}, anyDomain |-> g = g2,
   hosts |-> {host}, intent |-> 40, tags |-> 50, priority |-> 50]]

MCTasks == {t \in Task({host}) : t.allowed = {host}}
MCHostOf == [t \in Tasks |-> host]

=============================================================================
