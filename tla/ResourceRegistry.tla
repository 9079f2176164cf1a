-------------------------- MODULE ResourceRegistry --------------------------
(***************************************************************************)
(* ResourceService and PrismaResourceRepository (apps/server/src/resources *)
(* /resource.service.ts, prisma-resource.repository.ts): the table of      *)
(* resource versions, of which one per resource is active, and the match   *)
(* of a task with the active ones.  InMemoryResourceRepository keeps the   *)
(* same two maps and never suspends.                                       *)
(*                                                                         *)
(* A row is represented by the registration that created it.               *)
(***************************************************************************)
EXTENDS Integers, FiniteSets

CONSTANTS
  Registrations,    (* requests to publish a resource version               *)
  ResourceVersions, (* resource and version                                 *)
  Resources,
  ResourceOf,       (* the resource of a version                            *)
  Registers,        (* the version a registration is for                    *)
  StatusOf,         (* the status it declares                               *)
  CriteriaOf,       (* its criteria                                         *)
  NoRow

Modes == {"read", "write"}
Statuses == {"DRAFT", "VALIDATING", "ACTIVE", "DEGRADED", "RETIRED", "REJECTED"}
Hundred == 0..100

(* Of the criteria: the modes, the hosts that the domains cover, and in    *)
(* hundredths how well intent and tags overlap and the priority.           *)
Criteria(hosts) ==
  [modes : (SUBSET Modes) \ {{}}, anyDomain : BOOLEAN, hosts : SUBSET hosts,
   intent : Hundred, tags : Hundred, priority : Hundred]

ASSUME RegistryAssumption ==
  /\ ResourceOf \in [ResourceVersions -> Resources]
  /\ Registers \in [Registrations -> ResourceVersions]
  /\ StatusOf \in [Registrations -> Statuses]
  /\ NoRow \notin Registrations \cup ResourceVersions

VARIABLES
  rows,             (* managed_resource_versions                            *)
  activeVersion,    (* managed_resources.active_version                     *)
  registering       (* where the publish() of every registration is         *)

registryVars == <<rows, activeVersion, registering>>

RegistryTypeOK ==
  /\ rows \in [ResourceVersions -> Registrations \cup {NoRow}]
  /\ activeVersion \in [Resources -> ResourceVersions \cup {NoRow}]
  /\ registering \in [Registrations -> {"none", "create", "activate", "done", "failed"}]

RegistryInit ==
  /\ rows = [v \in ResourceVersions |-> NoRow]
  /\ activeVersion = [k \in Resources |-> NoRow]
  /\ registering = [g \in Registrations |-> "none"]

Step(g, pc) == registering' = [registering EXCEPT ![g] = pc]
Exists(v) == rows[v] # NoRow

-----------------------------------------------------------------------------
(* publish                                                                 *)

(* Resource versions are immutable: ConflictError if there is a row.       *)
FindVersion(g) ==
  /\ registering[g] = "none"
  /\ Step(g, IF Exists(Registers[g]) THEN "failed" ELSE "create")
  /\ UNCHANGED <<rows, activeVersion>>

Created(g) == Step(g, IF StatusOf[g] = "ACTIVE" THEN "activate" ELSE "done")

(* Mutant: the version is upserted, as its resource is.                    *)
UpsertVersion(g) ==
  /\ registering[g] = "create"
  /\ rows' = [rows EXCEPT ![Registers[g]] = g]
  /\ Created(g)
  /\ UNCHANGED activeVersion

(* Mutant: the active version is set before the version is created.        *)
CreateVersionLast(g) ==
  /\ registering[g] = "create"
  /\ IF StatusOf[g] = "ACTIVE" THEN activeVersion' = [activeVersion EXCEPT
                                      ![ResourceOf[Registers[g]]] = Registers[g]]
                               ELSE UNCHANGED activeVersion
  /\ Step(g, "activate") /\ UNCHANGED rows

(* create, in a transaction; the key of a version is unique.               *)
CreateVersion(g) ==
  /\ registering[g] = "create"
  /\ IF Exists(Registers[g])
       THEN Step(g, "failed") /\ UNCHANGED rows
       ELSE Created(g) /\ rows' = [rows EXCEPT ![Registers[g]] = g]
  /\ UNCHANGED activeVersion

SetActive(v) == activeVersion' = [activeVersion EXCEPT ![ResourceOf[v]] = v]

ActivateNew(g) ==
  /\ registering[g] = "activate"
  /\ SetActive(Registers[g])
  /\ Step(g, "done")
  /\ UNCHANGED rows

Register(g) == CreateVersion(g) \/ ActivateNew(g)

(* A query fails.  If it is the last one the version is there, says ACTIVE *)
(* and is not active.                                                      *)
RegisterFails(g) ==
  /\ registering[g] \in {"create", "activate"}
  /\ Step(g, "failed")
  /\ UNCHANGED <<rows, activeVersion>>

(* activate and rollback: rows never go away while a request is served.    *)
Activate(v) ==
  /\ Exists(v)
  /\ StatusOf[rows[v]] \in {"ACTIVE", "VALIDATING", "DEGRADED"}
  /\ activeVersion[ResourceOf[v]] # v
  /\ SetActive(v)
  /\ UNCHANGED <<rows, registering>>

(* The server dies: its requests fail, and the in-memory tables are lost.  *)
RegistryCrash(durable) ==
  /\ registering' = [g \in Registrations |->
       IF registering[g] \in {"create", "activate"} THEN "failed" ELSE registering[g]]
  /\ IF durable THEN UNCHANGED <<rows, activeVersion>>
     ELSE /\ rows' = [v \in ResourceVersions |-> NoRow]
          /\ activeVersion' = [k \in Resources |-> NoRow]

-----------------------------------------------------------------------------
(* match: the rows of the active versions, scored in 1/10000.              *)

Listed == {rows[activeVersion[k]] : k \in {k \in Resources :
             activeVersion[k] # NoRow /\ Exists(activeVersion[k])}}

DomainScore(c, host) ==
  IF c.anyDomain THEN 50 ELSE IF host \in c.hosts THEN 100 ELSE 0

Score(c, host) ==
  40 * DomainScore(c, host) + 40 * c.intent + 10 * c.tags + 10 * c.priority

Matches(mode, host) ==
  {g \in Listed : mode \in CriteriaOf[g].modes /\ DomainScore(CriteriaOf[g], host) > 0}

(* The first match of at least 0.4; equal scores keep the database's order.*)
Best(mode, host) ==
  {g \in Matches(mode, host) :
     /\ Score(CriteriaOf[g], host) >= 4000
     /\ \A h \in Matches(mode, host) :
          Score(CriteriaOf[h], host) <= Score(CriteriaOf[g], host)}

=============================================================================
