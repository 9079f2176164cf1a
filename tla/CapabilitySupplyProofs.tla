------------------------ MODULE CapabilitySupplyProofs ------------------------
(***************************************************************************)
(* Proofs about CapabilitySupply, for any publishers, registrations,       *)
(* bundles, tasks and number of faults: what the artifact store keeps,     *)
(* that it implements WriteOnce, what the registry's active versions are   *)
(* worth, and what the Desktop runs.                                       *)
(***************************************************************************)
EXTENDS CapabilitySupply, FiniteSetTheorems, TLAPS

-----------------------------------------------------------------------------
(* The artifact store.                                                     *)

(* Only one publisher at a time has linked the content of a version, and   *)
(* it stays linked as long as its put() may still count on it.             *)
HoldsContent ==
  \A p \in Publishers :
    putting[p] \in {"metadata", "cleanup", "done"} => content[VersionOf[p]] = p

DoneHoldsMetadata ==
  \A p \in Publishers : At(p, "done") => metadata[VersionOf[p]] = p

StoreInv == StoreTypeOK /\ HoldsContent /\ DoneHoldsMetadata

(* What a publisher's put() and its failures may do.                       *)
StoreMove(p) ==
  \/ PutBegins(p)
  \/ Put(p)
  \/ WriteFails(p)
  \/ TemporaryStays(p)
  \/ RemoveFails(p)

LEMMA StoreMoves ==
  [Next]_vars => UNCHANGED storeVars \/ StoreCrash \/ \E p \in Publishers : StoreMove(p)
<1> SUFFICES ASSUME [Next]_vars
             PROVE  UNCHANGED storeVars \/ StoreCrash \/ \E p \in Publishers : StoreMove(p)
  OBVIOUS
<1>1. CASE Publishing
  BY <1>1 DEF Publishing, Publish, StoreMove
<1>2. CASE Registering \/ Requesting \/ RegistryFails \/ TransportFails \/ DesktopRestarts
  BY <1>2 DEF Registering, Requesting, RegistryFails, TransportFails, DesktopRestarts,
              storeVars
<1>3. CASE Failing
  BY <1>3 DEF Failing, StoreMove
<1>4. CASE ServerRestarts
  BY <1>4 DEF ServerRestarts
<1>5. CASE UNCHANGED vars
  BY <1>5 DEF vars
<1> QED
  BY <1>1, <1>2, <1>3, <1>4, <1>5 DEF Next

LEMMA StoreInitially == Init => StoreInv
BY StoreAssumption
   DEF Init, StoreInit, StoreInv, StoreTypeOK, HoldsContent, DoneHoldsMetadata, At

(* What one publisher's step leaves alone, and what it does to the files   *)
(* of its version.                                                         *)
LEMMA StoreMoveKeeps ==
  ASSUME StoreInv, NEW p \in Publishers, StoreMove(p)
  PROVE  StoreInv'
<1> USE StoreAssumption DEF StoreInv, StoreTypeOK
<1>1. CASE PutBegins(p)
  BY <1>1 DEF PutBegins, Goto, At, HoldsContent, DoneHoldsMetadata
<1>2. CASE LinkContent(p)
  BY <1>2 DEF LinkContent, Link, Free, Goto, At, HoldsContent, DoneHoldsMetadata
<1>3. CASE ContentTaken(p)
  BY <1>3 DEF ContentTaken, Free, Goto, At, HoldsContent, DoneHoldsMetadata
<1>4. CASE LinkMetadata(p)
  BY <1>4 DEF LinkMetadata, Link, Free, Goto, At, HoldsContent, DoneHoldsMetadata
<1>5. CASE MetadataTaken(p)
  BY <1>5 DEF MetadataTaken, Free, Goto, At, HoldsContent, DoneHoldsMetadata
<1>6. CASE RemoveContent(p)
  BY <1>6 DEF RemoveContent, Goto, At, HoldsContent, DoneHoldsMetadata
<1>7. CASE WriteFails(p)
  BY <1>7 DEF WriteFails, Goto, At, HoldsContent, DoneHoldsMetadata
<1>8. CASE TemporaryStays(p)
  BY <1>8 DEF TemporaryStays, Link, Free, Goto, At, HoldsContent, DoneHoldsMetadata
<1>9. CASE RemoveFails(p)
  BY <1>9 DEF RemoveFails, Goto, At, HoldsContent, DoneHoldsMetadata
<1> QED
  BY <1>1, <1>2, <1>3, <1>4, <1>5, <1>6, <1>7, <1>8, <1>9 DEF StoreMove, Put

LEMMA StoreInvKept == StoreInv /\ [Next]_vars => StoreInv'
<1> SUFFICES ASSUME StoreInv, [Next]_vars PROVE StoreInv'
  OBVIOUS
<1>1. CASE UNCHANGED storeVars
  BY <1>1 DEF StoreInv, StoreTypeOK, HoldsContent, DoneHoldsMetadata, At, storeVars
<1>2. CASE StoreCrash
  BY <1>2 DEF StoreCrash, Busy, StoreInv, StoreTypeOK, HoldsContent, DoneHoldsMetadata, At
<1> QED
  BY <1>1, <1>2, StoreMoves, StoreMoveKeeps

(* A file of a version belongs to the publisher that linked it, for as    *)
(* long as its put() counts on it.                                         *)
THEOREM StoreInvHolds == Spec => []StoreInv
BY StoreInitially, StoreInvKept, PTL DEF Spec

(* A publisher who was told that its version is published can rely on it   *)
(* (FileArtifactStore.put with its clean-up).                              *)
THEOREM PublishedVersionsStay == Spec => []PublishedStays
<1>1. StoreInv => PublishedStays
  BY DEF StoreInv, HoldsContent, DoneHoldsMetadata, PublishedStays, At
<1> QED
  BY <1>1, StoreInvHolds, PTL

-----------------------------------------------------------------------------
(* The store implements WriteOnce.                                         *)

(* The files of an acknowledged version are those of its one publisher.    *)
LEMMA AcknowledgedIs ==
  ASSUME StoreInv, NEW v \in Versions
  PROVE  /\ \A p \in Publishers : At(p, "done") /\ VersionOf[p] = v
              => Acknowledged[v] = <<p, p>>
         /\ (\A p \in Publishers : ~(At(p, "done") /\ VersionOf[p] = v))
              => Acknowledged[v] = <<NoFile, NoFile>>
<1>1. ASSUME NEW p \in Publishers, At(p, "done"), VersionOf[p] = v
      PROVE  Acknowledged[v] = <<p, p>>
  <2>1. Owner(v) \in Publishers
    BY <1>1 DEF Owner
  <2>2. Owner(v) # NoFile
    BY <2>1, StoreAssumption
  <2>3. metadata[v] = p /\ content[v] = p
    BY <1>1 DEF StoreInv, HoldsContent, DoneHoldsMetadata, At
  <2> QED
    BY <2>2, <2>3 DEF Acknowledged
<1>2. ASSUME \A p \in Publishers : ~(At(p, "done") /\ VersionOf[p] = v)
      PROVE  Acknowledged[v] = <<NoFile, NoFile>>
  BY <1>2 DEF Acknowledged, Owner
<1> QED
  BY <1>1, <1>2

(* The same of the next state.                                             *)
LEMMA AcknowledgedNext ==
  ASSUME StoreInv', NEW v \in Versions
  PROVE  /\ \A p \in Publishers : At(p, "done")' /\ VersionOf[p] = v
              => Acknowledged'[v] = <<p, p>>
         /\ (\A p \in Publishers : ~(At(p, "done")' /\ VersionOf[p] = v))
              => Acknowledged'[v] = <<NoFile, NoFile>>
<1>1. ASSUME NEW p \in Publishers, At(p, "done")', VersionOf[p] = v
      PROVE  Acknowledged'[v] = <<p, p>>
  <2>1. Owner(v)' \in Publishers
    BY <1>1 DEF Owner
  <2>2. Owner(v)' # NoFile
    BY <2>1, StoreAssumption
  <2>3. metadata'[v] = p /\ content'[v] = p
    BY <1>1 DEF StoreInv, HoldsContent, DoneHoldsMetadata, At
  <2> QED
    BY <2>2, <2>3 DEF Acknowledged
<1>2. ASSUME \A p \in Publishers : ~(At(p, "done")' /\ VersionOf[p] = v)
      PROVE  Acknowledged'[v] = <<NoFile, NoFile>>
  BY <1>2 DEF Acknowledged, Owner
<1> QED
  BY <1>1, <1>2

(* A version is acknowledged when its metadata is linked, and only then.   *)
LEMMA AcknowledgedStep ==
  ASSUME StoreInv, StoreInv', [Next]_vars
  PROVE  [Store!Next]_Acknowledged
<1> DEFINE Done(p) == At(p, "done")
<1>1. ASSUME \A p \in Publishers : Done(p)' <=> Done(p)
      PROVE  Acknowledged' = Acknowledged
  <2>1. ASSUME NEW v \in Versions PROVE Acknowledged'[v] = Acknowledged[v]
    <3>1. CASE \E p \in Publishers : Done(p) /\ VersionOf[p] = v
      BY <1>1, <3>1, AcknowledgedIs, AcknowledgedNext
    <3>2. CASE ~\E p \in Publishers : Done(p) /\ VersionOf[p] = v
      BY <1>1, <3>2, AcknowledgedIs, AcknowledgedNext
    <3> QED
      BY <3>1, <3>2
  <2> QED
    BY <2>1 DEF Acknowledged
<1>2. ASSUME NEW p \in Publishers, LinkMetadata(p)
      PROVE  Store!Publish(VersionOf[p], <<p, p>>)
  <2> DEFINE v == VersionOf[p]
  <2>1. v \in Versions
    BY StoreAssumption
  <2>2. \A q \in Publishers : ~(Done(q) /\ VersionOf[q] = v)
    BY <1>2, StoreAssumption DEF LinkMetadata, Free, StoreInv, DoneHoldsMetadata, At
  <2>3. Done(p)' /\ \A q \in Publishers : q # p => (Done(q)' <=> Done(q))
    BY <1>2 DEF LinkMetadata, Goto, At, StoreInv, StoreTypeOK
  <2>4. Acknowledged[v] = <<NoFile, NoFile>> /\ Acknowledged'[v] = <<p, p>>
    BY <2>1, <2>2, <2>3, AcknowledgedIs, AcknowledgedNext
  <2>5. ASSUME NEW w \in Versions, w # v PROVE Acknowledged'[w] = Acknowledged[w]
    <3>1. CASE \E q \in Publishers : Done(q) /\ VersionOf[q] = w
      BY <2>3, <2>5, <3>1, AcknowledgedIs, AcknowledgedNext
    <3>2. CASE ~\E q \in Publishers : Done(q) /\ VersionOf[q] = w
      BY <2>3, <2>5, <3>2, AcknowledgedIs, AcknowledgedNext
    <3> QED
      BY <3>1, <3>2
  <2> QED
    BY <2>1, <2>4, <2>5 DEF Store!Publish, Acknowledged
<1>3. ASSUME NEW p \in Publishers, StoreMove(p), ~LinkMetadata(p), NEW q \in Publishers
      PROVE  Done(q)' <=> Done(q)
  BY <1>3 DEF StoreMove, Put, PutBegins, LinkContent, ContentTaken, MetadataTaken,
              RemoveContent, WriteFails, TemporaryStays, RemoveFails, Goto, At, StoreInv,
              StoreTypeOK
<1>4. ASSUME StoreCrash \/ UNCHANGED storeVars, NEW q \in Publishers
      PROVE  Done(q)' <=> Done(q)
  BY <1>4 DEF StoreCrash, Busy, At, storeVars
<1>5. ASSUME NEW p \in Publishers, LinkMetadata(p)
      PROVE  Store!Next
  BY <1>2, <1>5, StoreAssumption DEF Store!Next
<1> QED
  BY <1>1, <1>3, <1>4, <1>5, StoreMoves

(* The file store implements the abstract store: what is acknowledged is   *)
(* absent until it is published, and then never changes.                   *)
THEOREM StoreImplementsWriteOnce == Spec => StoreIsWriteOnce
<1>1. Init => Store!Init
  <2> SUFFICES ASSUME Init PROVE Acknowledged = [v \in Versions |-> <<NoFile, NoFile>>]
    BY DEF Store!Init
  <2>1. ASSUME NEW v \in Versions PROVE Acknowledged[v] = <<NoFile, NoFile>>
    BY StoreInitially, AcknowledgedIs DEF Init, StoreInit, At
  <2> QED
    BY <2>1 DEF Acknowledged
<1> QED
  BY <1>1, AcknowledgedStep, StoreInvHolds, PTL DEF Spec, StoreIsWriteOnce, Store!Spec

-----------------------------------------------------------------------------
(* Half-published versions.                                                *)

(* As long as nothing failed between the two files, a file is there only   *)
(* while its publisher's put() is between them or after both.              *)
CleanFiles ==
  ~unclean => \A v \in Versions :
    /\ content[v] # NoFile =>
         /\ VersionOf[content[v]] = v
         /\ putting[content[v]] \in {"metadata", "cleanup", "done"}
    /\ metadata[v] # NoFile => VersionOf[metadata[v]] = v /\ At(metadata[v], "done")

(* Moves that leave a version clean.                                       *)
LEMMA CleanMoves ==
  [Next]_vars /\ ~unclean' =>
    \/ UNCHANGED <<storeVars, unclean>>
    \/ /\ StoreCrash /\ ~unclean
       /\ \A p \in Publishers : putting[p] \notin {"metadata", "cleanup"}
    \/ ~unclean /\ \E p \in Publishers : PutBegins(p) \/ Put(p) \/ WriteFails(p)
<1> SUFFICES ASSUME [Next]_vars, ~unclean'
             PROVE  \/ UNCHANGED <<storeVars, unclean>>
                    \/ /\ StoreCrash /\ ~unclean
                       /\ \A p \in Publishers : putting[p] \notin {"metadata", "cleanup"}
                    \/ ~unclean /\ \E p \in Publishers :
                                      PutBegins(p) \/ Put(p) \/ WriteFails(p)
  OBVIOUS
<1>1. CASE Publishing
  BY <1>1 DEF Publishing, Publish, worldVars
<1>2. CASE Registering \/ Requesting \/ RegistryFails \/ TransportFails \/ DesktopRestarts
  BY <1>2 DEF Registering, Requesting, RegistryFails, TransportFails, DesktopRestarts,
              worldVars
<1>3. CASE Failing
  BY <1>3 DEF Failing
<1>4. CASE ServerRestarts
  BY <1>4 DEF ServerRestarts
<1>5. CASE UNCHANGED vars
  BY <1>5 DEF vars, worldVars
<1> QED
  BY <1>1, <1>2, <1>3, <1>4, <1>5 DEF Next

LEMMA CleanFilesKept == StoreInv /\ CleanFiles /\ [Next]_vars => CleanFiles'
<1> SUFFICES ASSUME StoreInv, CleanFiles, [Next]_vars, ~unclean'
             PROVE  \A v \in Versions :
                      /\ content'[v] # NoFile =>
                           /\ VersionOf[content'[v]] = v
                           /\ putting'[content'[v]] \in {"metadata", "cleanup", "done"}
                      /\ metadata'[v] # NoFile =>
                           VersionOf[metadata'[v]] = v /\ putting'[metadata'[v]] = "done"
  BY DEF CleanFiles, At
<1> USE StoreAssumption DEF StoreInv, StoreTypeOK
<1>1. CASE UNCHANGED <<storeVars, unclean>>
  BY <1>1 DEF storeVars, CleanFiles, At
<1>2. CASE /\ StoreCrash /\ ~unclean
           /\ \A p \in Publishers : putting[p] \notin {"metadata", "cleanup"}
  BY <1>2 DEF StoreCrash, Busy, CleanFiles, At
<1>3. ASSUME NEW p \in Publishers, ~unclean, PutBegins(p) \/ Put(p) \/ WriteFails(p),
             NEW v \in Versions
      PROVE  /\ content'[v] # NoFile =>
                  /\ VersionOf[content'[v]] = v
                  /\ putting'[content'[v]] \in {"metadata", "cleanup", "done"}
             /\ metadata'[v] # NoFile =>
                  VersionOf[metadata'[v]] = v /\ putting'[metadata'[v]] = "done"
  <2> USE <1>3 DEF CleanFiles, At, Goto
  <2>1. CASE PutBegins(p)
    BY <2>1 DEF PutBegins
  <2>2. CASE LinkContent(p)
    BY <2>2 DEF LinkContent, Link, Free
  <2>3. CASE ContentTaken(p)
    BY <2>3 DEF ContentTaken
  <2>4. CASE LinkMetadata(p)
    BY <2>4 DEF LinkMetadata, Link, Free
  <2>5. CASE MetadataTaken(p)
    BY <2>5 DEF MetadataTaken
  <2>6. CASE RemoveContent(p)
    BY <2>6 DEF RemoveContent, HoldsContent
  <2>7. CASE WriteFails(p)
    BY <2>7 DEF WriteFails
  <2> QED
    BY <1>3, <2>1, <2>2, <2>3, <2>4, <2>5, <2>6, <2>7 DEF Put
<1> QED
  BY <1>1, <1>2, <1>3, CleanMoves

(* When nobody is publishing it, a version has both its files or none,     *)
(* unless a crash or a failing removal came between the two (put).         *)
THEOREM NoHalfVersions == Spec => []NothingHalfPublished
<1>1. Init => CleanFiles
  BY DEF Init, StoreInit, CleanFiles
<1>2. StoreInv /\ CleanFiles => NothingHalfPublished
  BY StoreAssumption DEF StoreInv, StoreTypeOK, HoldsContent, DoneHoldsMetadata, CleanFiles,
     NothingHalfPublished, AllOrNothing, Busy, At
<1>3. Spec => []CleanFiles
  BY <1>1, CleanFilesKept, StoreInvHolds, PTL DEF Spec
<1> QED
  BY <1>2, <1>3, StoreInvHolds, PTL

-----------------------------------------------------------------------------
(* Types.                                                                  *)

RequestTypeOK ==
  request \in [pc : {"none", "matched", "sent", "running", "sidecar", "ended"},
               task : Tasks \cup {NoTask}, capability : Registrations \cup {NoRow}]

(* The server makes its second key when it restarts, which it does once.   *)
WorldTypeOK ==
  /\ production \in BOOLEAN
  /\ signingKey \in Keys /\ (signingKey = 0 \/ "server" \in restarted)
  /\ signedBy \in [Publishers -> Keys]
  /\ trusted \in SUBSET Keys /\ Cardinality(trusted) <= 1
  /\ ran \in Publishers \cup {NoFile}
  /\ restarted \subseteq MayRestart
  /\ faults \in 0..MaxFaults
  /\ unclean \in BOOLEAN

TypeInv == StoreInv /\ RegistryTypeOK /\ RequestTypeOK /\ WorldTypeOK

(* What a registration's publish() and other requests to the registry do.  *)
RegistryMove ==
  \/ \E g \in Registrations : FindVersion(g) \/ Register(g) \/ RegisterFails(g)
  \/ \E v \in ResourceVersions : Activate(v)

LEMMA RegistryMoves ==
  [Next]_vars =>
    UNCHANGED registryVars \/ RegistryMove \/ (RegistryCrash(production) /\ production' = production)
<1> SUFFICES ASSUME [Next]_vars
             PROVE  \/ UNCHANGED registryVars \/ RegistryMove
                    \/ RegistryCrash(production) /\ production' = production
  OBVIOUS
<1>1. CASE Publishing \/ Requesting \/ Failing \/ TransportFails \/ DesktopRestarts
  BY <1>1 DEF Publishing, Requesting, Failing, TransportFails, DesktopRestarts
<1>2. CASE Registering \/ RegistryFails
  BY <1>2 DEF Registering, RegisterResource, RegistryFails, RegistryMove
<1>3. CASE ServerRestarts
  BY <1>3 DEF ServerRestarts, Restarts
<1>4. CASE UNCHANGED vars
  BY <1>4 DEF vars
<1> QED
  BY <1>1, <1>2, <1>3, <1>4 DEF Next

LEMMA RegistryTypeKept == RegistryTypeOK /\ [Next]_vars => RegistryTypeOK'
<1> SUFFICES ASSUME RegistryTypeOK, [Next]_vars PROVE RegistryTypeOK'
  OBVIOUS
<1> USE RegistryAssumption DEF RegistryTypeOK
<1>1. CASE UNCHANGED registryVars
  BY <1>1 DEF registryVars
<1>2. CASE RegistryCrash(production)
  BY <1>2 DEF RegistryCrash
<1>3. ASSUME NEW g \in Registrations, FindVersion(g) \/ RegisterFails(g)
      PROVE  RegistryTypeOK'
  BY <1>3 DEF FindVersion, RegisterFails, Step
<1>4. ASSUME NEW g \in Registrations, Register(g)
      PROVE  RegistryTypeOK'
  BY <1>4 DEF Register, CreateVersion, ActivateNew, Created, SetActive, Step
<1>5. ASSUME NEW v \in ResourceVersions, Activate(v)
      PROVE  RegistryTypeOK'
  BY <1>5 DEF Activate, SetActive
<1> QED
  BY <1>1, <1>2, <1>3, <1>4, <1>5, RegistryMoves DEF RegistryMove

LEMMA RequestSteps ==
  [Next]_vars =>
    \/ UNCHANGED requestVars
    \/ (\E t \in Tasks : Plan(t)) \/ Dispatch \/ StartsSidecar \/ StartsRunner
    \/ DownloadFails
    \/ End
<1> SUFFICES ASSUME [Next]_vars
             PROVE  \/ UNCHANGED requestVars
                    \/ (\E t \in Tasks : Plan(t)) \/ Dispatch \/ StartsSidecar
                    \/ StartsRunner \/ DownloadFails \/ End
  OBVIOUS
<1>1. CASE Publishing \/ Registering \/ Failing \/ RegistryFails
  BY <1>1 DEF Publishing, Registering, Failing, RegistryFails
<1>2. CASE Requesting \/ TransportFails
  BY <1>2 DEF Requesting, TransportFails
<1>3. CASE ServerRestarts \/ DesktopRestarts
  BY <1>3 DEF ServerRestarts, DesktopRestarts, requestVars
<1>4. CASE UNCHANGED vars
  BY <1>4 DEF vars
<1> QED
  BY <1>1, <1>2, <1>3, <1>4 DEF Next

LEMMA BestAreRegistrations ==
  ASSUME RegistryTypeOK, NEW mode, NEW host
  PROVE  Best(mode, host) \subseteq Registrations
<1>1. Listed \subseteq Registrations
  BY DEF Listed, Exists, RegistryTypeOK
<1> QED
  BY <1>1 DEF Best, Matches

LEMMA RequestTypeKept ==
  RegistryTypeOK /\ RequestTypeOK /\ [Next]_vars => RequestTypeOK'
<1> SUFFICES ASSUME RegistryTypeOK, RequestTypeOK, [Next]_vars PROVE RequestTypeOK'
  OBVIOUS
<1> USE DEF RequestTypeOK
<1>1. CASE UNCHANGED requestVars
  BY <1>1 DEF requestVars
<1>2. CASE End
  BY <1>2 DEF End, NothingAsked
<1>3. ASSUME NEW t \in Tasks, Plan(t) PROVE RequestTypeOK'
  <2>1. End \/ \E g \in Registrations \cup {NoRow} :
                request' = [pc |-> "matched", task |-> t, capability |-> g]
    BY <1>3, BestAreRegistrations DEF Plan
  <2> QED
    BY <1>2, <2>1
<1>4. CASE Dispatch \/ StartsSidecar
  BY <1>4 DEF Dispatch, StartsSidecar, Goes
<1>5. CASE StartsRunner \/ DownloadFails
  BY <1>5 DEF StartsRunner, DownloadFails, Loads, Goes, End, NothingAsked
<1> QED
  BY <1>1, <1>2, <1>3, <1>4, <1>5, RequestSteps

LEMMA WorldTypeKept ==
  StoreInv /\ WorldTypeOK /\ [Next]_vars => WorldTypeOK'
<1> SUFFICES ASSUME StoreInv, WorldTypeOK, [Next]_vars PROVE WorldTypeOK'
  OBVIOUS
<1> USE SupplyAssumption DEF WorldTypeOK
<1>1. CASE Publishing
  BY <1>1 DEF Publishing, Publish, worldVars, requestVars
<1>2. CASE Registering
  BY <1>2 DEF Registering, worldVars, requestVars
<1>3. CASE Requesting
  <2>1. UNCHANGED worldVars
    BY <1>3 DEF Requesting
  <2>2. ran' \in Publishers \cup {NoFile}
    <3>1. CASE StartsRunner
      BY <3>1 DEF StartsRunner, Loads
    <3>2. CASE (\E t \in Tasks : Plan(t)) \/ Dispatch \/ StartsSidecar
      BY <3>2 DEF Plan, Dispatch, StartsSidecar
    <3> QED
      BY <1>3, <3>1, <3>2 DEF Requesting
  <2> QED
    BY <2>1, <2>2 DEF worldVars
<1>4. CASE Failing
  <2>1. unclean' = unclean \/ unclean' = TRUE
    BY <1>4 DEF Failing
  <2>2. unclean' \in BOOLEAN
    BY <2>1
  <2>3. ran' = ran
    BY <1>4 DEF Failing, requestVars
  <2>4. OneMoreFault
    BY <1>4 DEF Failing
  <2> QED
    BY <2>2, <2>3, <2>4 DEF OneMoreFault
<1>5. CASE RegistryFails
  BY <1>5 DEF RegistryFails, OneMoreFault, requestVars
<1>6. CASE TransportFails
  BY <1>6 DEF TransportFails, OneMoreFault, DownloadFails, Loads
<1>7. CASE ServerRestarts
  <2>1. signingKey' \in Keys /\ "server" \in restarted'
    BY <1>7 DEF ServerRestarts, Restarts, Keys
  <2> QED
    BY <1>7, <2>1 DEF ServerRestarts, Restarts
<1>8. CASE DesktopRestarts
  <2>1. trusted' \in SUBSET Keys /\ Cardinality(trusted') <= 1
    <3>1. trusted' = {0} \/ trusted' = {signingKey} \/ trusted' = {}
      BY <1>8 DEF DesktopRestarts, Trusts
    <3>2. Cardinality({0}) = 1 /\ Cardinality({signingKey}) = 1
      BY FS_Singleton
    <3>3. Cardinality({}) = 0
      BY FS_EmptySet
    <3>4. trusted' \in SUBSET Keys
      BY <3>1 DEF Keys
    <3>5. Cardinality(trusted') = 0 \/ Cardinality(trusted') = 1
      BY <3>1, <3>2, <3>3
    <3> QED
      BY <3>4, <3>5
  <2> QED
    BY <1>8, <2>1 DEF DesktopRestarts, Restarts
<1>9. CASE UNCHANGED vars
  BY <1>9 DEF vars, worldVars, requestVars
<1> QED
  BY <1>1, <1>2, <1>3, <1>4, <1>5, <1>6, <1>7, <1>8, <1>9 DEF Next

LEMMA TypesInitially == Init => TypeInv
<1> SUFFICES ASSUME Init PROVE TypeInv
  OBVIOUS
<1>1. StoreInv
  BY StoreInitially
<1>2. RegistryTypeOK
  BY DEF Init, RegistryInit, RegistryTypeOK
<1>3. RequestTypeOK
  BY DEF Init, NothingAsked, RequestTypeOK
<1>4. Cardinality({0}) = 1
  BY FS_Singleton
<1>5. production \in BOOLEAN /\ unclean \in BOOLEAN
  BY DEF Init
<1>6. signedBy \in [Publishers -> Keys] /\ signingKey \in Keys /\ signingKey = 0
  BY DEF Init, Keys
<1>7. Cardinality(trusted) <= 1 /\ trusted \in SUBSET Keys
  BY <1>4 DEF Init, Keys
<1>8. ran \in Publishers \cup {NoFile} /\ restarted \subseteq MayRestart
  BY DEF Init
<1>9. faults \in 0..MaxFaults
  BY SupplyAssumption DEF Init
<1>10. WorldTypeOK
  BY <1>5, <1>6, <1>7, <1>8, <1>9 DEF WorldTypeOK
<1> QED
  BY <1>1, <1>2, <1>3, <1>10 DEF TypeInv

LEMMA TypesKept == TypeInv /\ [Next]_vars => TypeInv'
BY StoreInvKept, RegistryTypeKept, RequestTypeKept, WorldTypeKept DEF TypeInv

(* The types hold together with what the store keeps.                      *)
THEOREM TypeInvHolds == Spec => []TypeInv
BY TypesInitially, TypesKept, PTL DEF Spec

(* Every variable keeps its type.                                          *)
THEOREM TypesCorrect == Spec => []TypeOK
<1>1. TypeInv => TypeOK
  BY DEF TypeInv, StoreInv, RequestTypeOK, WorldTypeOK, TypeOK
<1> QED
  BY <1>1, TypeInvHolds, PTL

-----------------------------------------------------------------------------
(* What the Desktop runs.                                                  *)

(* A request that runs was loaded in the step that made it run.            *)
RunsVerified ==
  request.pc = "running" =>
    LET p == ArtifactOf[request.capability] IN
      /\ ran = p
      /\ FitsTask(Contents[ran], VersionOf[p], Declared[p], request.task)

LEMMA LoadsVerified ==
  ASSUME RequestTypeOK, request.pc = "sent", NEW bytes, Loads(bytes)
  PROVE  RunsVerified'
BY DEF Loads, Goes, End, NothingAsked, Verified, Reference, RequestTypeOK, RunsVerified

LEMMA RunsVerifiedKept == RequestTypeOK /\ RunsVerified /\ [Next]_vars => RunsVerified'
<1> SUFFICES ASSUME RequestTypeOK, RunsVerified, [Next]_vars PROVE RunsVerified'
  OBVIOUS
<1>1. CASE UNCHANGED requestVars
  BY <1>1 DEF requestVars, RunsVerified
<1>2. CASE End
  BY <1>2 DEF End, NothingAsked, RunsVerified
<1>3. CASE (\E t \in Tasks : Plan(t)) \/ Dispatch \/ StartsSidecar
  BY <1>3 DEF Plan, Dispatch, StartsSidecar, Goes, End, NothingAsked, RequestTypeOK,
              RunsVerified
<1>4. CASE StartsRunner \/ DownloadFails
  BY <1>2, <1>4, LoadsVerified DEF StartsRunner, DownloadFails
<1> QED
  BY <1>1, <1>2, <1>3, <1>4, RequestSteps

(* What runs has been verified and checked against its task.               *)
THEOREM RunsVerifiedHolds == Spec => []RunsVerified
<1>1. Init => RunsVerified
  BY DEF Init, NothingAsked, RunsVerified
<1>2. TypeInv => RequestTypeOK
  BY DEF TypeInv
<1> QED
  BY <1>1, <1>2, RunsVerifiedKept, TypeInvHolds, PTL DEF Spec

(* A program keeps to the mode and the hosts of its task, and submits only *)
(* with approval (parseAndValidateCapabilityBundle).                       *)
THEOREM RunsWithinItsTask == Spec => []RunsWithinTheTask
<1>1. RunsVerified => RunsWithinTheTask
  BY DEF RunsVerified, RunsWithinTheTask, FitsTask, Publishable
<1> QED
  BY <1>1, RunsVerifiedHolds, PTL

-----------------------------------------------------------------------------
(* What the registry's rows are worth.                                     *)

LEMMA MovesKeepRows ==
  ASSUME RegistryTypeOK, RegistryMove, NEW v \in ResourceVersions, Exists(v)
  PROVE  rows'[v] = rows[v]
<1> USE RegistryAssumption DEF RegistryTypeOK
<1>1. CASE UNCHANGED rows
  BY <1>1
<1>2. ASSUME NEW g \in Registrations, CreateVersion(g)
      PROVE  rows'[v] = rows[v]
  BY <1>2 DEF CreateVersion, Exists
<1> QED
  BY <1>1, <1>2
     DEF RegistryMove, FindVersion, RegisterFails, Register, ActivateNew, Activate

(* In production no version of a resource ever changes, whoever publishes  *)
(* it concurrently (PrismaResourceRepository.createVersion).               *)
THEOREM RowsStay == Spec => RowsAreImmutable
<1>1. ASSUME RegistryTypeOK, [Next]_vars
      PROVE  [production => \A v \in ResourceVersions :
                              Exists(v) => rows'[v] = rows[v]]_vars
  <2>1. CASE UNCHANGED registryVars
    BY <2>1 DEF registryVars
  <2>2. CASE RegistryMove
    BY <1>1, <2>2, MovesKeepRows
  <2>3. CASE RegistryCrash(production)
    BY <2>3 DEF RegistryCrash
  <2> QED
    BY <1>1, <2>1, <2>2, <2>3, RegistryMoves
<1>2. TypeInv => RegistryTypeOK
  BY DEF TypeInv
<1> QED
  BY <1>1, <1>2, TypeInvHolds, PTL DEF Spec, RowsAreImmutable

(* Only what passed the server's validation is being put.                  *)
ValidatedFirst ==
  \A p \in Publishers :
    putting[p] \in {"content", "metadata", "cleanup", "done"} =>
      Publishable(Contents[p], VersionOf[p], Declared[p])

(* In production there is one key.                                         *)
OneKey == production => signingKey = 0 /\ \A p \in Publishers : signedBy[p] = 0

(* A row, and a registration on its way to one, refers to an artifact      *)
(* that was acknowledged; an active version has a row.                     *)
RowsRefer ==
  /\ \A v \in ResourceVersions :
       Exists(v) => At(ArtifactOf[rows[v]], "done")
  /\ \A g \in Registrations :
       /\ registering[g] \in {"create", "activate"} => At(ArtifactOf[g], "done")
       /\ registering[g] = "activate" => Exists(Registers[g])
  /\ \A k \in Resources :
       activeVersion[k] # NoRow => Exists(activeVersion[k])

LEMMA DoneStays ==
  ASSUME StoreTypeOK, [Next]_vars, NEW p \in Publishers, At(p, "done")
  PROVE  At(p, "done")'
<1> USE DEF StoreTypeOK, At
<1>1. CASE UNCHANGED storeVars
  BY <1>1 DEF storeVars
<1>2. CASE StoreCrash
  BY <1>2 DEF StoreCrash, Busy
<1>3. ASSUME NEW q \in Publishers, StoreMove(q)
      PROVE  putting'[p] = "done"
  BY <1>3 DEF StoreMove, PutBegins, Put, LinkContent, ContentTaken, LinkMetadata,
              MetadataTaken, RemoveContent, WriteFails, TemporaryStays, RemoveFails, Goto
<1> QED
  BY <1>1, <1>2, <1>3, StoreMoves

LEMMA ValidatedFirstKept ==
  StoreTypeOK /\ ValidatedFirst /\ [Next]_vars => ValidatedFirst'
<1> SUFFICES ASSUME StoreTypeOK, ValidatedFirst, [Next]_vars PROVE ValidatedFirst'
  OBVIOUS
<1> USE DEF StoreTypeOK, ValidatedFirst
<1>1. CASE UNCHANGED storeVars
  BY <1>1 DEF storeVars
<1>2. CASE StoreCrash
  BY <1>2 DEF StoreCrash, Busy
<1>3. ASSUME NEW p \in Publishers, Publish(p)
      PROVE  ValidatedFirst'
  BY <1>3 DEF Publish, PutBegins, At, Goto
<1>4. ASSUME NEW p \in Publishers,
             Put(p) \/ WriteFails(p) \/ TemporaryStays(p) \/ RemoveFails(p)
      PROVE  ValidatedFirst'
  BY <1>4 DEF Put, LinkContent, ContentTaken, LinkMetadata, MetadataTaken, RemoveContent,
              WriteFails, TemporaryStays, RemoveFails, At, Goto
<1>5. CASE Publishing \/ Failing
  BY <1>3, <1>4, <1>5 DEF Publishing, Failing
<1>6. CASE Registering \/ Requesting \/ RegistryFails \/ TransportFails \/ DesktopRestarts
  BY <1>1, <1>6 DEF Registering, Requesting, RegistryFails, TransportFails, DesktopRestarts,
                    storeVars
<1>7. CASE ServerRestarts
  BY <1>2, <1>7 DEF ServerRestarts
<1> QED
  BY <1>1, <1>5, <1>6, <1>7 DEF Next, vars

LEMMA OneKeyKept == WorldTypeOK /\ OneKey /\ [Next]_vars => OneKey'
<1> SUFFICES ASSUME WorldTypeOK, OneKey, [Next]_vars PROVE OneKey'
  OBVIOUS
<1> USE DEF OneKey
<1>1. ASSUME NEW p \in Publishers, Publish(p)
      PROVE  OneKey'
  BY <1>1 DEF Publish, WorldTypeOK
<1>2. CASE ServerRestarts
  BY <1>2 DEF ServerRestarts, Restarts
<1>3. CASE UNCHANGED <<production, signingKey, signedBy>>
  BY <1>3
<1> QED
  BY <1>1, <1>2, <1>3
     DEF Next, Publishing, Registering, Requesting, Failing, RegistryFails, TransportFails,
         DesktopRestarts, OneMoreFault, Restarts, worldVars, vars

LEMMA RowsReferKept ==
  StoreTypeOK /\ RegistryTypeOK /\ RowsRefer /\ [Next]_vars => RowsRefer'
<1> SUFFICES ASSUME StoreTypeOK, RegistryTypeOK, RowsRefer, [Next]_vars PROVE RowsRefer'
  OBVIOUS
<1>a. \A g \in Registrations : At(ArtifactOf[g], "done") => At(ArtifactOf[g], "done")'
  BY SupplyAssumption, DoneStays
<1>b. \A v \in ResourceVersions :
        /\ Exists(v) => rows[v] \in Registrations
        /\ Exists(v) => At(ArtifactOf[rows[v]], "done")
  BY DEF RowsRefer, Exists, RegistryTypeOK
<1> USE RegistryAssumption DEF RegistryTypeOK, RowsRefer, Exists
<1>1. CASE UNCHANGED registryVars
  BY <1>1, <1>a, <1>b DEF registryVars
<1>2. CASE RegistryCrash(production)
  BY <1>2, <1>a, <1>b DEF RegistryCrash
<1>3. ASSUME NEW g \in Registrations, RegisterResource(g)
      PROVE  RowsRefer'
  BY <1>3, <1>a, <1>b DEF RegisterResource, FindVersion, Step
<1>4. ASSUME NEW g \in Registrations, CreateVersion(g)
      PROVE  RowsRefer'
  BY <1>4, <1>a, <1>b DEF CreateVersion, Created, Step
<1>5. ASSUME NEW g \in Registrations, ActivateNew(g) \/ RegisterFails(g)
      PROVE  RowsRefer'
  BY <1>5, <1>a, <1>b DEF ActivateNew, RegisterFails, SetActive, Step
<1>6. ASSUME NEW v \in ResourceVersions, Activate(v)
      PROVE  RowsRefer'
  BY <1>6, <1>a, <1>b DEF Activate, SetActive
<1>7. CASE Registering \/ RegistryFails
  BY <1>3, <1>4, <1>5, <1>6, <1>7 DEF Registering, RegistryFails, Register
<1>8. CASE Publishing \/ Requesting \/ Failing \/ TransportFails \/ DesktopRestarts
  BY <1>1, <1>8 DEF Publishing, Requesting, Failing, TransportFails, DesktopRestarts,
                    registryVars
<1>9. CASE ServerRestarts
  BY <1>2, <1>9 DEF ServerRestarts
<1> QED
  BY <1>1, <1>7, <1>8, <1>9 DEF Next, vars

(* In production whatever is active can be downloaded, verified and run:   *)
(* publishers race for a version, registrations for a row, and any of them *)
(* may fail half way (ResourceService, ArtifactStore).                     *)
THEOREM ActiveRuns == Spec => []ActiveIsRunnable
<1> DEFINE Inv == TypeInv /\ ValidatedFirst /\ OneKey /\ RowsRefer
<1>1. Init => Inv
  <2> SUFFICES ASSUME Init PROVE Inv
    OBVIOUS
  <2>1. TypeInv
    BY TypesInitially
  <2>2. ValidatedFirst /\ OneKey
    BY DEF Init, StoreInit, ValidatedFirst, OneKey
  <2>3. RowsRefer
    BY DEF Init, RegistryInit, RowsRefer, Exists
  <2> QED
    BY <2>1, <2>2, <2>3
<1>2. Inv /\ [Next]_vars => Inv'
  <2> SUFFICES ASSUME Inv, [Next]_vars PROVE Inv'
    OBVIOUS
  <2>1. StoreTypeOK /\ RegistryTypeOK /\ WorldTypeOK
    BY DEF TypeInv, StoreInv
  <2> QED
    BY <2>1, TypesKept, ValidatedFirstKept, OneKeyKept, RowsReferKept
<1>3. Inv => ActiveIsRunnable
  <2> SUFFICES ASSUME Inv, production, NEW k \in Resources, activeVersion[k] # NoRow
               PROVE  /\ Exists(activeVersion[k])
                      /\ LET p == ArtifactOf[rows[activeVersion[k]]]
                             v == VersionOf[p]
                         IN /\ Readable(v)
                            /\ \A runtime \in Declared[p] :
                                 Verified(Reference(p), content[v], {0}, runtime)
                            /\ Publishable(Contents[content[v]], v, Declared[p])
    BY DEF ActiveIsRunnable
  <2> DEFINE g == rows[activeVersion[k]]
             p == ArtifactOf[g]
             v == VersionOf[p]
  <2>1. activeVersion[k] \in ResourceVersions /\ Exists(activeVersion[k])
    BY DEF TypeInv, RegistryTypeOK, RowsRefer
  <2>2. g \in Registrations /\ At(p, "done")
    BY <2>1 DEF TypeInv, RegistryTypeOK, RowsRefer, Exists
  <2>3. p \in Publishers
    BY <2>2, SupplyAssumption
  <2>4. content[v] = p /\ metadata[v] = p
    BY <2>2, <2>3 DEF TypeInv, StoreInv, HoldsContent, DoneHoldsMetadata, At
  <2>5. Readable(v)
    BY <2>3, <2>4, StoreAssumption DEF Readable
  <2>6. signedBy[p] = 0
    BY <2>3 DEF OneKey
  <2>7. \A runtime \in Declared[p] : Verified(Reference(p), content[v], {0}, runtime)
    BY <2>4, <2>6 DEF Verified, Reference
  <2>8. Publishable(Contents[content[v]], v, Declared[p])
    BY <2>2, <2>3, <2>4 DEF ValidatedFirst, At
  <2> QED
    BY <2>1, <2>5, <2>7, <2>8
<1> QED
  BY <1>1, <1>2, <1>3, PTL DEF Spec

-----------------------------------------------------------------------------
(* What the choice for a task is worth.                                    *)

(* It was listed, so its artifact has been acknowledged.                   *)
ChosenRefers ==
  request.capability # NoRow => At(ArtifactOf[request.capability], "done")

(* The Desktop trusts the key that is pinned; without one, until the       *)
(* server restarts, the one key there is or none.                          *)
KeysAgree ==
  /\ production => trusted = {0}
  /\ "server" \notin restarted =>
       /\ signingKey = 0 /\ \A p \in Publishers : signedBy[p] = 0
       /\ trusted \in {{0}, {}}

LEMMA ListedAreDone ==
  ASSUME RegistryTypeOK, RowsRefer, NEW mode, NEW host, NEW g \in Best(mode, host)
  PROVE  g \in Registrations /\ At(ArtifactOf[g], "done")
<1>1. PICK k \in Resources :
        activeVersion[k] # NoRow /\ Exists(activeVersion[k]) /\ g = rows[activeVersion[k]]
  BY DEF Best, Matches, Listed
<1> QED
  BY <1>1 DEF RegistryTypeOK, RowsRefer, Exists

LEMMA ChosenRefersKept ==
  TypeInv /\ RowsRefer /\ ChosenRefers /\ [Next]_vars => ChosenRefers'
<1> SUFFICES ASSUME TypeInv, RowsRefer, ChosenRefers, [Next]_vars, request'.capability # NoRow
             PROVE  putting'[ArtifactOf[request'.capability]] = "done"
  BY DEF ChosenRefers, At
<1>0. StoreTypeOK /\ RegistryTypeOK /\ RequestTypeOK
  BY DEF TypeInv, StoreInv
<1>1. ASSUME NEW g \in Registrations, At(ArtifactOf[g], "done"), request'.capability = g
      PROVE  putting'[ArtifactOf[request'.capability]] = "done"
  BY <1>0, <1>1, SupplyAssumption, DoneStays DEF At
<1>2. CASE request'.capability = request.capability
  <2>1. request.capability \in Registrations
    BY <1>0, <1>2 DEF RequestTypeOK
  <2> QED
    BY <1>1, <1>2, <2>1 DEF ChosenRefers
<1>3. ASSUME NEW t \in Tasks, Plan(t)
      PROVE  putting'[ArtifactOf[request'.capability]] = "done"
  <2>1. request'.capability \in Best(t.mode, HostOf[t])
    BY <1>3 DEF Plan, End, NothingAsked
  <2> QED
    BY <1>0, <1>1, <2>1, ListedAreDone
<1>4. ~End
  BY DEF End, NothingAsked
<1>5. ASSUME Dispatch \/ StartsSidecar \/ StartsRunner \/ DownloadFails
      PROVE  request'.capability = request.capability
  BY <1>0, <1>4, <1>5
  DEF Dispatch, StartsSidecar, StartsRunner, DownloadFails, Loads, Goes, RequestTypeOK
<1> QED
  BY <1>2, <1>3, <1>4, <1>5, RequestSteps DEF requestVars

LEMMA KeysAgreeKept ==
  WorldTypeOK /\ KeysAgree /\ [Next]_vars => KeysAgree'
<1> SUFFICES ASSUME WorldTypeOK, KeysAgree, [Next]_vars PROVE KeysAgree'
  OBVIOUS
<1> USE DEF KeysAgree
<1>1. ASSUME NEW p \in Publishers, Publish(p)
      PROVE  KeysAgree'
  BY <1>1 DEF Publish, WorldTypeOK
<1>2. CASE ServerRestarts
  BY <1>2 DEF ServerRestarts, Restarts
<1>3. CASE DesktopRestarts
  BY <1>3 DEF DesktopRestarts, Restarts, Trusts
<1>4. CASE UNCHANGED <<production, signingKey, signedBy, trusted, restarted>>
  BY <1>4
<1> QED
  BY <1>1, <1>2, <1>3, <1>4
     DEF Next, Publishing, Registering, Requesting, Failing, RegistryFails, TransportFails,
         OneMoreFault, worldVars, vars

(* What the server chose for a task can be downloaded, verified and run    *)
(* whenever the Desktop asks for it (TaskCoordinator.planAndDispatch,      *)
(* ArtifactLoader.load): its row names an acknowledged artifact, which the *)
(* store never changes, and in production nobody's key changes either.     *)
THEOREM ChosenRuns == Spec => []ChosenCanBeRun
<1> DEFINE Inv == /\ TypeInv /\ ValidatedFirst /\ OneKey /\ RowsRefer
                  /\ ChosenRefers /\ KeysAgree
<1>1. Init => Inv
  <2> SUFFICES ASSUME Init PROVE Inv
    OBVIOUS
  <2>1. TypeInv
    BY TypesInitially
  <2>2. ValidatedFirst /\ OneKey /\ KeysAgree
    BY DEF Init, StoreInit, ValidatedFirst, OneKey, KeysAgree
  <2>3. RowsRefer /\ ChosenRefers
    BY DEF Init, RegistryInit, RowsRefer, Exists, ChosenRefers, NothingAsked
  <2> QED
    BY <2>1, <2>2, <2>3
<1>2. Inv /\ [Next]_vars => Inv'
  <2> SUFFICES ASSUME Inv, [Next]_vars PROVE Inv'
    OBVIOUS
  <2>1. StoreTypeOK /\ RegistryTypeOK /\ WorldTypeOK
    BY DEF TypeInv, StoreInv
  <2> QED
    BY <2>1, TypesKept, ValidatedFirstKept, OneKeyKept, RowsReferKept, ChosenRefersKept,
       KeysAgreeKept
<1>3. Inv => ChosenCanBeRun
  <2> SUFFICES ASSUME Inv, request.capability # NoRow
               PROVE  ChosenCanBeRun
    BY DEF ChosenCanBeRun
  <2> DEFINE p == ArtifactOf[request.capability]
             v == VersionOf[p]
  <2>1. p \in Publishers /\ At(p, "done")
    BY SupplyAssumption DEF TypeInv, RequestTypeOK, ChosenRefers
  <2>2. content[v] = p /\ metadata[v] = p
    BY <2>1 DEF TypeInv, StoreInv, HoldsContent, DoneHoldsMetadata, At
  <2>3. Readable(v)
    BY <2>1, <2>2, StoreAssumption DEF Readable
  <2>4. Publishable(Contents[content[v]], v, Declared[p])
    BY <2>1, <2>2 DEF ValidatedFirst, At
  <2>5. \/ signedBy[p] \in trusted
        \/ ~production /\ (trusted = {} \/ "server" \in restarted)
    BY <2>1 DEF OneKey, KeysAgree
  <2> QED
    BY <2>2, <2>3, <2>4, <2>5 DEF ChosenCanBeRun
<1> QED
  BY <1>1, <1>2, <1>3, PTL DEF Spec

=============================================================================
