-------------------------- MODULE CapabilitySupply --------------------------
(***************************************************************************)
(* How a capability reaches the Desktop: it is published to the artifact   *)
(* store and signed (artifact.service.ts), registered as a version of a    *)
(* resource, matched with a task that a user asks for (TaskCoordinator.    *)
(* planAndDispatch), and then loaded, verified and checked against the     *)
(* task by the Desktop (artifact-loader.ts, artifact-trust.ts,             *)
(* task-orchestrator.ts startTask, runner-executor.ts run).                *)
(*                                                                         *)
(* Server and Desktop restart at any time.  In production the tables are   *)
(* in a database, the server's key is configured and the Desktop has it    *)
(* pinned; in development the tables are in memory, the server makes a new *)
(* key whenever it starts, and the Desktop asks for it when it starts.     *)
(* Whoever registers a resource uses a reference he got from the store.    *)
(* One request is followed: requests do not influence each other until     *)
(* they reach the Desktop's orchestrator.                                  *)
(***************************************************************************)
EXTENDS ArtifactStore, ResourceRegistry, CapabilityBundle

CONSTANTS
  Contents,         (* the bundle each publisher publishes                  *)
  Declared,         (* the runtimes each publisher declares                 *)
  ArtifactOf,       (* the publisher whose reference a registration uses    *)
  Tasks,            (* the tasks that a user may ask for                    *)
  HostOf,           (* the host of a task's target url                      *)
  Runtime,          (* the Desktop's environment                            *)
  NoTask,
  Other,            (* bytes that nobody has published                      *)
  MayRestart,       (* "server", "desktop": the programs that restart, once *)
  MaxFaults

ASSUME SupplyAssumption ==
  /\ ArtifactOf \in [Registrations -> Publishers]
  /\ MayRestart \subseteq {"server", "desktop"}
  /\ MaxFaults \in Nat
  /\ Other \notin Publishers

VARIABLES
  production,   (* how the two programs are configured                      *)
  signingKey,   (* the server's private key                                 *)
  signedBy,     (* the key a publisher's reference was signed with          *)
  trusted,      (* the keys the Desktop trusts                              *)
  request,      (* where the request is and what was chosen for it          *)
  ran,          (* the bytes that the Desktop runs for it                   *)
  restarted,    (* the programs that have restarted                         *)
  faults,       (* failing writes, queries and transmissions so far         *)
  unclean       (* something failed between the two files of a version      *)

worldVars == <<production, signingKey, signedBy, trusted, restarted, faults, unclean>>
requestVars == <<request, ran>>
vars == <<storeVars, registryVars, requestVars, worldVars>>

Keys == {0, 1}
NothingAsked == [pc |-> "none", task |-> NoTask, capability |-> NoRow]

TypeOK ==
  /\ StoreTypeOK
  /\ RegistryTypeOK
  /\ production \in BOOLEAN
  /\ signingKey \in Keys
  /\ signedBy \in [Publishers -> Keys]
  /\ trusted \in SUBSET Keys /\ Cardinality(trusted) <= 1
  /\ request \in [pc : {"none", "matched", "sent", "running", "sidecar", "ended"},
                  task : Tasks \cup {NoTask}, capability : Registrations \cup {NoRow}]
  /\ ran \in Publishers \cup {NoFile}
  /\ restarted \subseteq MayRestart
  /\ faults \in 0..MaxFaults
  /\ unclean \in BOOLEAN

(* Mutant: a key that is discovered is added to those known before.        *)
TrustsMore ==
  \/ production /\ trusted' = {0}
  \/ ~production /\ trusted' \in {trusted \cup {signingKey}, {}}

(* Mutant: the Desktop discovers the key in production, too.               *)
TrustsDiscovered == trusted' \in {{signingKey}, {}}

(* loadArtifactTrust: the pinned keys; or the server's current key, if the *)
(* server answers.                                                         *)
Trusts ==
  \/ production /\ trusted' = {0}
  \/ ~production /\ trusted' \in {{signingKey}, {}}

Init ==
  /\ StoreInit
  /\ RegistryInit
  /\ production \in BOOLEAN
  /\ signingKey = 0
  /\ signedBy = [p \in Publishers |-> 0]
  /\ trusted = {0}
  /\ request = NothingAsked
  /\ ran = NoFile
  /\ restarted = {}
  /\ faults = 0
  /\ unclean = FALSE

(* The request is refused by the server or rejected by the Desktop.        *)
End == request' = [NothingAsked EXCEPT !.pc = "ended"]
Goes(pc) == request' = [request EXCEPT !.pc = pc]

Reference(p) ==
  [sha256 |-> p, signedBy |-> signedBy[p], runtime |-> Declared[p],
   version |-> VersionOf[p]]

-----------------------------------------------------------------------------
(* The server.                                                             *)

(* ArtifactService.publish validates, hashes and signs, and calls put.     *)
Publish(p) ==
  /\ Publishable(Contents[p], VersionOf[p], Declared[p])
  /\ PutBegins(p)
  /\ signedBy' = [signedBy EXCEPT ![p] = signingKey]
  /\ UNCHANGED <<production, signingKey, trusted, restarted, faults, unclean>>

(* Whoever has his reference registers it.                                 *)
RegisterResource(g) == At(ArtifactOf[g], "done") /\ FindVersion(g)

(* planAndDispatch: match is awaited, and so is register.                  *)
Plan(t) ==
  /\ request.pc = "none"
  /\ LET best == Best(t.mode, HostOf[t]) IN
       IF best = {} /\ t.mode = "write" THEN End
       ELSE \E g \in IF best = {} THEN {NoRow} ELSE best :
              request' = [pc |-> "matched", task |-> t, capability |-> g]
  /\ UNCHANGED ran

Dispatch ==
  /\ request.pc = "matched"
  /\ Goes("sent")
  /\ UNCHANGED ran

-----------------------------------------------------------------------------
(* The Desktop.                                                            *)

StartsSidecar ==
  /\ request.pc = "sent"
  /\ request.capability = NoRow
  /\ Goes("sidecar")
  /\ UNCHANGED ran

(* ArtifactLoader.load of what was downloaded, and the runner's own checks *)
Loads(bytes) ==
  LET p == ArtifactOf[request.capability] IN
    IF /\ Verified(Reference(p), bytes, trusted, Runtime)
       /\ bytes \in Publishers
       /\ FitsTask(Contents[bytes], VersionOf[p], Declared[p], request.task)
      THEN Goes("running") /\ ran' = bytes
      ELSE End /\ UNCHANGED ran

(* Over https the server's get() needs both files; the local transport     *)
(* reads artifact.bin.                                                     *)
StartsRunner ==
  /\ request.pc = "sent"
  /\ request.capability # NoRow
  /\ LET v == VersionOf[ArtifactOf[request.capability]] IN
       IF Readable(v) THEN Loads(content[v]) ELSE End /\ UNCHANGED ran

(* Other bytes arrive than were stored, or none.                           *)
DownloadFails ==
  /\ request.pc = "sent"
  /\ request.capability # NoRow
  /\ \E bytes \in Publishers \cup {Other} : Loads(bytes)

-----------------------------------------------------------------------------
(* Failures.                                                               *)

OneMoreFault ==
  /\ faults < MaxFaults
  /\ faults' = faults + 1
  /\ UNCHANGED <<production, signingKey, signedBy, trusted, restarted>>

Restarts(program) ==
  /\ program \in MayRestart \ restarted
  /\ restarted' = restarted \cup {program}
  /\ UNCHANGED <<production, signedBy, faults>>

(* Requests that were being served fail.                                   *)
ServerRestarts ==
  /\ Restarts("server")
  /\ StoreCrash
  /\ RegistryCrash(production)
  /\ signingKey' = IF production THEN signingKey ELSE signingKey + 1
  /\ unclean' = (unclean \/ \E p \in Publishers : putting[p] \in {"metadata", "cleanup"})
  /\ IF request.pc = "matched" THEN End ELSE UNCHANGED request
  /\ UNCHANGED <<ran, trusted>>

(* Commands that it had received are lost with it.                         *)
DesktopRestarts ==
  /\ Restarts("desktop")
  /\ Trusts
  /\ IF request.pc = "sent" THEN End ELSE UNCHANGED request
  /\ UNCHANGED <<storeVars, registryVars, ran, signingKey, unclean>>

-----------------------------------------------------------------------------
Publishing ==
  \/ \E p \in Publishers : Publish(p) /\ UNCHANGED <<registryVars, requestVars>>
  \/ \E p \in Publishers : Put(p) /\ UNCHANGED <<registryVars, requestVars, worldVars>>

Registering ==
  /\ \/ \E g \in Registrations : RegisterResource(g) \/ Register(g)
     \/ \E v \in ResourceVersions : Activate(v)
  /\ UNCHANGED <<storeVars, requestVars, worldVars>>

Requesting ==
  /\ (\E t \in Tasks : Plan(t)) \/ Dispatch \/ StartsSidecar \/ StartsRunner
  /\ UNCHANGED <<storeVars, registryVars, worldVars>>

Failing ==
  /\ OneMoreFault
  /\ \/ \E p \in Publishers : WriteFails(p) /\ UNCHANGED unclean
     \/ \E p \in Publishers : (TemporaryStays(p) \/ RemoveFails(p)) /\ unclean' = TRUE
  /\ UNCHANGED <<registryVars, requestVars>>

RegistryFails ==
  /\ OneMoreFault
  /\ \E g \in Registrations : RegisterFails(g)
  /\ UNCHANGED <<storeVars, requestVars, unclean>>

TransportFails ==
  /\ OneMoreFault
  /\ DownloadFails
  /\ UNCHANGED <<storeVars, registryVars, unclean>>

Next ==
  \/ Publishing
  \/ Registering
  \/ Requesting
  \/ Failing
  \/ RegistryFails
  \/ TransportFails
  \/ ServerRestarts
  \/ DesktopRestarts

Spec == Init /\ [][Next]_vars

-----------------------------------------------------------------------------
(* When nobody is publishing it, a version has both its files or none, as  *)
(* long as no crash and no failing removal came between the two.           *)
NothingHalfPublished == AllOrNothing(~unclean)

(* In production a resource version never changes and never goes away,     *)
(* although two registrations may both have found it absent.               *)
RowsAreImmutable ==
  [][production => \A v \in ResourceVersions : Exists(v) => rows'[v] = rows[v]]_vars

(* In production every active version can be run: its row is there, its    *)
(* artifact can be read and passes what a Desktop of its runtime checks.   *)
ActiveIsRunnable ==
  production => \A k \in Resources : activeVersion[k] # NoRow =>
    /\ Exists(activeVersion[k])
    /\ LET p == ArtifactOf[rows[activeVersion[k]]]
           v == VersionOf[p]
       IN /\ Readable(v)
          /\ \A runtime \in Declared[p] : Verified(Reference(p), content[v], {0}, runtime)
          /\ Publishable(Contents[content[v]], v, Declared[p])

(* What the server chose for a task stays what the Desktop will be sent    *)
(* and can verify, however much later it asks: whatever is published,      *)
(* registered, activated or rolled back in between, whatever fails, and    *)
(* whoever restarts.  The exception is a development server that has made  *)
(* itself a new key, or a Desktop that did not reach it for the key.       *)
ChosenCanBeRun ==
  request.capability # NoRow =>
    LET p == ArtifactOf[request.capability]
        v == VersionOf[p]
    IN /\ Readable(v) /\ content[v] = p
       /\ Publishable(Contents[content[v]], v, Declared[p])
       /\ \/ signedBy[p] \in trusted
          \/ ~production /\ (trusted = {} \/ "server" \in restarted)

(* Whatever modes and hosts a registration claims, a read task never runs  *)
(* a program that writes, a program only submits with approval, and none   *)
(* leaves the hosts of its task.                                           *)
RunsWithinTheTask ==
  request.pc = "running" =>
    LET b == Contents[ran] IN
      /\ request.task.mode = "read" => b.steps \cap WriteSteps = {}
      /\ "submit" \in b.steps => b.approval
      /\ b.navigates \subseteq request.task.allowed

=============================================================================
