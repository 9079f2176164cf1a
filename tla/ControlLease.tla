---------------------------- MODULE ControlLease ----------------------------
(***************************************************************************)
(* BrowserControlAuthority (apps/desktop/src/agent/control-lease.ts): the  *)
(* single lease on the Desktop's browser page.  The methods are operators  *)
(* that the modules of its callers conjoin with what the caller does in    *)
(* the same turn of the event loop.                                        *)
(*                                                                         *)
(* A lease token is a random UUID drawn by createLease together with the   *)
(* next epoch, so a token and an epoch identify each other and the epoch   *)
(* stands for both.                                                        *)
(***************************************************************************)
EXTENDS Naturals

CONSTANTS
  Tasks,          (* task identifiers                                       *)
  NoTask          (* stands for null                                        *)

ASSUME NoTaskAssumption == NoTask \notin Tasks

VARIABLES
  lease,          (* the current lease, or NoLease                          *)
  epoch           (* number of leases created since the process started     *)

leaseVars == <<lease, epoch>>

Automation == {"playwright-runner", "browser-use-sidecar"}
Holder     == Automation \cup {"human"}

NoLease == [task |-> NoTask, holder |-> "none", epoch |-> 0]

Lease == [task : Tasks, holder : Holder, epoch : Nat \ {0}]

LeaseTypeOK ==
  /\ lease \in Lease \cup {NoLease}
  /\ epoch \in Nat

LeaseInit ==
  /\ lease = NoLease
  /\ epoch = 0

Held == lease # NoLease

(* Mutant: the lease takes the epoch before it is advanced.                *)
CreateLeaseLate(t, holder) == [task |-> t, holder |-> holder, epoch |-> epoch]

(* createLease: the next epoch, with a fresh token                         *)
CreateLease(t, holder) == [task |-> t, holder |-> holder, epoch |-> epoch + 1]

Grant(t, holder) ==
  /\ lease' = CreateLease(t, holder)
  /\ epoch' = epoch + 1

(* acquire: throws ControlLeaseConflictError while a lease exists          *)
CanAcquire == ~Held
Acquire(t, holder) == CanAcquire /\ Grant(t, holder)

(* transferToHuman, after the caller's drain callback has returned; the    *)
(* token must be the current automation lease's.                           *)
CanTransfer(token) ==
  Held /\ lease.epoch = token /\ lease.holder # "human"
TransferToHuman(token) == CanTransfer(token) /\ Grant(lease.task, "human")

(* resumeAfterHuman: `allowed' says whether the page the human leaves is   *)
(* inside the allowed domains, with its browser target unchanged.          *)
CanResumeAfterHuman(token, allowed) ==
  Held /\ lease.epoch = token /\ lease.holder = "human" /\ allowed
ResumeAfterHuman(token, holder, allowed) ==
  CanResumeAfterHuman(token, allowed) /\ Grant(lease.task, holder)

(* releaseActiveLease of the orchestrator calls release only when the      *)
(* current token is the one it holds.                                      *)
Release(token) ==
  /\ lease' = IF lease.epoch = token THEN NoLease ELSE lease
  /\ UNCHANGED epoch

=============================================================================
