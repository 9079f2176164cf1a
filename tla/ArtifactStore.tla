---------------------------- MODULE ArtifactStore ----------------------------
(***************************************************************************)
(* FileArtifactStore (apps/server/src/artifacts/artifact-store.ts): an     *)
(* artifact version is a directory with two files, artifact.bin and        *)
(* reference.json.  put() refuses a version whose reference is there, then *)
(* links the content and then the reference, each under a name that must   *)
(* not exist yet; if the reference cannot be written it removes the        *)
(* content.  Every step is an await, so publishers interleave, and the     *)
(* server may die between any two.                                         *)
(*                                                                         *)
(* A file is represented by the publisher that wrote it: publishers have   *)
(* contents of their own, and references of their own (publishedAt).       *)
(***************************************************************************)
EXTENDS Naturals

CONSTANTS
  Publishers,       (* requests that publish an artifact                    *)
  Versions,         (* directories: tenant, kind, artifact and version      *)
  VersionOf,        (* the version a publisher publishes                    *)
  NoFile

ASSUME StoreAssumption ==
  /\ VersionOf \in [Publishers -> Versions]
  /\ NoFile \notin Publishers

VARIABLES
  content,      (* artifact.bin of every version                            *)
  metadata,     (* reference.json of every version                          *)
  putting       (* where the put() of every publisher is                    *)

storeVars == <<content, metadata, putting>>

(* "cleanup": the reference could not be written, the content is about to  *)
(* be removed.  A publisher whose put failed may try again.                *)
StoreTypeOK ==
  /\ content \in [Versions -> Publishers \cup {NoFile}]
  /\ metadata \in [Versions -> Publishers \cup {NoFile}]
  /\ putting \in [Publishers -> {"none", "content", "metadata", "cleanup", "done",
                                 "failed"}]

StoreInit ==
  /\ content = [v \in Versions |-> NoFile]
  /\ metadata = [v \in Versions |-> NoFile]
  /\ putting = [p \in Publishers |-> "none"]

At(p, pc) == putting[p] = pc
Goto(p, pc) == putting' = [putting EXCEPT ![p] = pc]

(* Artifact versions are immutable: ConflictError if there is a reference. *)
PutBegins(p) ==
  /\ putting[p] \in {"none", "failed"}
  /\ Goto(p, IF metadata[VersionOf[p]] = NoFile THEN "content" ELSE "failed")
  /\ UNCHANGED <<content, metadata>>

(* writeImmutable links a temporary file to a name that must be free.      *)
Link(file, p) == file' = [file EXCEPT ![VersionOf[p]] = p]
Free(file, p) == file[VersionOf[p]] = NoFile

(* Mutant: the file is renamed over whatever is there.                     *)
LinkContentOver(p) ==
  /\ At(p, "content")
  /\ Link(content, p) /\ Goto(p, "metadata")
  /\ UNCHANGED metadata

LinkContent(p) ==
  /\ At(p, "content")
  /\ Free(content, p)
  /\ Link(content, p)
  /\ Goto(p, "metadata")
  /\ UNCHANGED metadata

LinkMetadata(p) ==
  /\ At(p, "metadata")
  /\ Free(metadata, p)
  /\ Link(metadata, p)
  /\ Goto(p, "done")
  /\ UNCHANGED content

(* Mutant: the content is written inside the try block, too.               *)
ContentErrorCleans(p) ==
  /\ At(p, "content")
  /\ ~Free(content, p)
  /\ Goto(p, "cleanup")
  /\ UNCHANGED <<content, metadata>>

(* The content's name is taken: the error leaves put() as it is.           *)
ContentTaken(p) ==
  /\ At(p, "content")
  /\ ~Free(content, p)
  /\ Goto(p, "failed")
  /\ UNCHANGED <<content, metadata>>

MetadataTaken(p) ==
  /\ At(p, "metadata")
  /\ ~Free(metadata, p)
  /\ Goto(p, "cleanup")
  /\ UNCHANGED <<content, metadata>>

(* The catch block: rm(contentPath).                                       *)
RemoveContent(p) ==
  /\ At(p, "cleanup")
  /\ content' = [content EXCEPT ![VersionOf[p]] = NoFile]
  /\ Goto(p, "failed")
  /\ UNCHANGED metadata

Put(p) ==
  \/ LinkContent(p)
  \/ ContentTaken(p)
  \/ LinkMetadata(p)
  \/ MetadataTaken(p)
  \/ RemoveContent(p)

-----------------------------------------------------------------------------
(* Failures of the file system and of the server.                          *)

(* Mutant: the error of the second write is not caught.                    *)
WriteFailsUncaught(p) ==
  /\ putting[p] \in {"content", "metadata"}
  /\ Goto(p, "failed")
  /\ UNCHANGED <<content, metadata>>

(* The temporary file cannot be written: nothing is linked.                *)
WriteFails(p) ==
  /\ putting[p] \in {"content", "metadata"}
  /\ Goto(p, IF At(p, "content") THEN "failed" ELSE "cleanup")
  /\ UNCHANGED <<content, metadata>>

(* The file is linked, and the error comes from removing the temporary.    *)
TemporaryStays(p) ==
  \/ At(p, "content") /\ Free(content, p) /\ Link(content, p)
       /\ Goto(p, "failed") /\ UNCHANGED metadata
  \/ At(p, "metadata") /\ Free(metadata, p) /\ Link(metadata, p)
       /\ Goto(p, "cleanup") /\ UNCHANGED content

RemoveFails(p) ==
  /\ At(p, "cleanup")
  /\ Goto(p, "failed")
  /\ UNCHANGED <<content, metadata>>

Busy(p) == putting[p] \notin {"none", "done", "failed"}

(* The process is gone; the files are not.                                 *)
StoreCrash ==
  /\ putting' = [p \in Publishers |-> IF Busy(p) THEN "failed" ELSE putting[p]]
  /\ UNCHANGED <<content, metadata>>

-----------------------------------------------------------------------------
(* get() finds a version whose two files are there.  It reads them in any  *)
(* order; for a version that was acknowledged neither changes any more.    *)
Readable(v) == metadata[v] # NoFile /\ content[v] # NoFile

(* The publisher that was told that its version is published.              *)
Owner(v) ==
  IF \E p \in Publishers : At(p, "done") /\ VersionOf[p] = v
    THEN CHOOSE p \in Publishers : At(p, "done") /\ VersionOf[p] = v
    ELSE NoFile

(* The store implements WriteOnce: a version is published when its         *)
(* publisher is told so, and what is published are the files of that       *)
(* moment and of every later one.                                          *)
Acknowledged ==
  [v \in Versions |-> IF Owner(v) = NoFile THEN <<NoFile, NoFile>>
                                           ELSE <<metadata[v], content[v]>>]

Store == INSTANCE WriteOnce WITH
  published <- Acknowledged,
  Artifacts <- {<<p, p>> : p \in Publishers},
  Absent    <- <<NoFile, NoFile>>

StoreIsWriteOnce == Store!Spec

(* Whoever was told that his version is published can rely on it: both     *)
(* files are his and stay, whatever competing or failing publishers do.    *)
PublishedStays ==
  \A p \in Publishers :
    At(p, "done") => content[VersionOf[p]] = p /\ metadata[VersionOf[p]] = p

(* When nobody is publishing a version it has both its files or none.      *)
AllOrNothing(clean) ==
  \A v \in Versions :
    clean /\ (\A p \in Publishers : VersionOf[p] = v => ~Busy(p))
      => (content[v] = NoFile <=> metadata[v] = NoFile)

=============================================================================
