-------------------------- MODULE CapabilityBundle --------------------------
(***************************************************************************)
(* What the server checks of a capability bundle before it signs it, and   *)
(* what the Desktop checks of it before it runs it (packages/capability-   *)
(* sdk/src/capability-bundle.ts, artifact-security.ts).                    *)
(*                                                                         *)
(* A hash is the content it is made from, and a signature the key that     *)
(* made it: neither is ever made to fit something else.  There is one      *)
(* tenant, and the entrypoint of a manifest is "program": what the checks  *)
(* of the two refuse is not modelled.                                      *)
(***************************************************************************)
EXTENDS FiniteSets

(* The kinds of steps of a program: "commit" is a click on something that  *)
(* looks like a submit button.                                             *)
StepTypes == {"navigate", "click", "commit", "fill", "select", "extract", "submit"}
WriteSteps == {"fill", "select", "submit"}

(* A bundle: of the manifest the version it names, its mode and the type   *)
(* of task it is for, whether it was validated, whether it is of high risk *)
(* and whether it needs approval, its runtimes, sites and permissions; of  *)
(* the program the kinds of its steps and where it navigates.              *)
Bundle(versions, runtimes, hosts) ==
  [version : versions, mode : {"read", "write"}, taskType : {"collect", "fill"},
   validated : BOOLEAN, highRisk : BOOLEAN, approval : BOOLEAN,
   runtime : SUBSET runtimes, sites : SUBSET hosts, permissions : SUBSET hosts,
   steps : SUBSET StepTypes, navigates : SUBSET hosts]

(* validateCapabilityBundlePublication                                     *)
Publishable(b, version, runtime) ==
  /\ b.version = version
  /\ b.validated
  /\ b.permissions \subseteq b.sites
  /\ b.runtime = runtime
  /\ b.mode = "read" => b.steps \cap WriteSteps = {}
  /\ "submit" \in b.steps => b.mode = "write" /\ b.approval /\ b.highRisk
  /\ "commit" \notin b.steps

(* A task: its mode, the type that goes with it, and the hosts it may visit *)
TypeOf(mode) == IF mode = "read" THEN "collect" ELSE "fill"
Task(hosts) ==
  {t \in [mode : {"read", "write"}, taskType : {"collect", "fill"}, allowed : SUBSET hosts] :
     t.taskType = TypeOf(t.mode)}

(* Mutant: the mode of the bundle is not compared with the task's.         *)
FitsTaskInAnyMode(b, version, runtime, task) ==
  /\ Publishable(b, version, runtime)
  /\ b.sites \cup b.permissions \cup b.navigates \subseteq task.allowed

(* parseAndValidateCapabilityBundle                                        *)
FitsTask(b, version, runtime, task) ==
  /\ Publishable(b, version, runtime)
  /\ b.mode = task.mode /\ b.taskType = task.taskType
  /\ b.sites \cup b.permissions \cup b.navigates \subseteq task.allowed

(* verifyArtifact: hash (and length), key, signature, compatibility.       *)
Verified(reference, bytes, trusted, runtime) ==
  /\ bytes = reference.sha256
  /\ reference.signedBy \in trusted
  /\ runtime \in reference.runtime

=============================================================================
