--------------------------- MODULE BlobDurability ---------------------------
(* How content reaches the disk: the blob tree of the local store (store.py, *)
(* _publish_blob) and the private blob store of the service (blob_store.py,  *)
(* blob_filesystem.py), with killed processes, failing calls and power loss. *)
(*                                                                           *)
(* All objects lie in one directory, some levels below a durable root.  A    *)
(* directory entry is on disk once its directory was flushed; without that   *)
(* the kernel may or may not have written it when the power fails.  Names    *)
(* of temporary files match no digest and are left out.                      *)
EXTENDS Integers

CONSTANTS Publishers, Objects,
          Designs,      \* the blob trees to consider, as records of
                        \*   tree: "local" or "service"
                        \*   depth: directories between the root and the objects
                        \*   old: how many of them are there, flushed, at first
                        \*   callers: the publishers that may use it
                        \*   faults: steps at which a call fails or the process is killed
          Unlocked      \* the lock is with nobody

(* The steps of a publication.                                               *)
Stages ==
  {"idle", "lookup", "walk", "flushdir", "write", "sync", "resync", "accept"}

(* What a tree may be.                                                       *)
BlobAssumption ==
  /\ \A d \in Designs :
       /\ d.tree \in {"local", "service"} /\ d.faults \subseteq Stages \ {"idle"}
       /\ d.depth \in Nat /\ d.old \in 0 .. d.depth
       /\ d.callers \subseteq Publishers
  /\ Unlocked \notin Publishers

VARIABLES design,    \* the tree of this behaviour, which never changes
          dirs,      \* directories that exist (their entries as processes see them)
          files,     \* object -> "none", or the state of its bytes
          diskDirs, diskFiles,   \* the entries that are on disk
          doing, object, level, lock,
          accepted   \* objects whose publication was reported done

blobVars ==
  <<design, dirs, files, diskDirs, diskFiles, doing, object, level, lock, accepted>>

BlobInit ==
  /\ design \in Designs
  /\ dirs = 1 .. design.old /\ diskDirs = dirs
  /\ files = [o \in Objects |-> "none"] /\ diskFiles = {}
  /\ doing = [p \in Publishers |-> "idle"]
  /\ object = [p \in Publishers |-> Unlocked]
  /\ level = [p \in Publishers |-> 0]
  /\ lock = Unlocked
  /\ accepted = {}

ContinueTo(p, l) == doing' = [doing EXCEPT ![p] = l]
Leave(p) == ContinueTo(p, "idle") /\ lock' = IF lock = p THEN Unlocked ELSE lock

(* The local store publishes inside BEGIN IMMEDIATE.                         *)
Begin(p, o) ==
  /\ doing[p] = "idle" /\ p \in design.callers
  /\ design.tree = "local" => lock = Unlocked
  /\ lock' = IF design.tree = "local" THEN p ELSE lock
  /\ object' = [object EXCEPT ![p] = o]
  /\ level' = [level EXCEPT ![p] = 1]
  /\ ContinueTo(p, IF design.tree = "local" THEN "lookup" ELSE "walk")
  /\ UNCHANGED <<dirs, files, diskDirs, diskFiles, accepted>>

(* An object that is there is adopted if its bytes agree.                    *)
Lookup(p) ==
  /\ doing[p] = "lookup"
  /\ IF files[object[p]] = "torn"
     THEN Leave(p)
     ELSE /\ ContinueTo(p, IF files[object[p]] = "none" THEN "walk" ELSE "accept")
          /\ UNCHANGED lock
  /\ UNCHANGED <<dirs, files, diskDirs, diskFiles, object, level, accepted>>

(* Missing directories are made one below the other; only the service        *)
(* flushes a new one into its parent.                                        *)
Walk(p) ==
  /\ doing[p] = "walk"
  /\ IF level[p] > design.depth
     THEN ContinueTo(p, "write") /\ UNCHANGED <<dirs, level>>
     ELSE /\ dirs' = dirs \cup {level[p]}
          /\ IF level[p] \notin dirs /\ design.tree = "service"
             THEN ContinueTo(p, "flushdir") /\ UNCHANGED level
             ELSE level' = [level EXCEPT ![p] = @ + 1] /\ UNCHANGED doing
  /\ UNCHANGED <<files, diskDirs, diskFiles, object, lock, accepted>>

FlushDirectory(p) ==
  /\ doing[p] = "flushdir"
  /\ diskDirs' = diskDirs \cup {level[p]}
  /\ level' = [level EXCEPT ![p] = @ + 1]
  /\ ContinueTo(p, "walk")
  /\ UNCHANGED <<dirs, files, diskFiles, object, lock, accepted>>

(* The temporary file is flushed before it gets the object's name.           *)
TemporaryBytes == "flushed"

(* The local store renames over the name; the service links exclusively and  *)
(* compares when the name is taken.                                          *)
Publish(p) ==
  /\ doing[p] = "write"
  /\ LET o == object[p] IN
     IF design.tree = "local" \/ files[o] = "none"
     THEN /\ files' = [files EXCEPT ![o] = TemporaryBytes]
          /\ ContinueTo(p, "sync") /\ UNCHANGED lock
     ELSE /\ IF files[o] = "torn" THEN Leave(p) ELSE ContinueTo(p, "resync") /\ UNCHANGED lock
          /\ UNCHANGED files
  /\ UNCHANGED <<dirs, diskDirs, diskFiles, object, level, accepted>>

Present == {o \in Objects : files[o] # "none"}

SyncNothing(p) ==
  /\ doing[p] \in {"sync", "resync"}
  /\ ContinueTo(p, "accept")
  /\ UNCHANGED <<dirs, files, diskDirs, diskFiles, object, level, lock, accepted>>

SyncDirectory(p) ==
  /\ doing[p] \in {"sync", "resync"}
  /\ diskFiles' = Present
  /\ ContinueTo(p, "accept")
  /\ UNCHANGED <<dirs, files, diskDirs, object, level, lock, accepted>>

(* A file operation fails.  The service takes back a name it made and        *)
(* flushes that, or fails to do either.                                      *)
Fail(p) ==
  /\ doing[p] \in design.faults \cap {"walk", "flushdir", "write", "sync", "resync"}
  /\ IF design.tree = "service" /\ doing[p] = "sync"
     THEN \/ /\ files' = [files EXCEPT ![object[p]] = "none"]
             /\ diskFiles' \in {diskFiles, Present \ {object[p]}}
          \/ UNCHANGED <<files, diskFiles>>
     ELSE UNCHANGED <<files, diskFiles>>
  /\ Leave(p)
  /\ UNCHANGED <<dirs, diskDirs, object, level, accepted>>

(* The row is inserted and committed; put returns.                           *)
Accept(p) ==
  /\ doing[p] = "accept"
  /\ accepted' = accepted \cup {object[p]}
  /\ Leave(p)
  /\ UNCHANGED <<dirs, files, diskDirs, diskFiles, object, level>>

(* sweep_unreferenced_blobs removes the unreferenced that are old enough,    *)
(* under the database write lock, and flushes nothing.                       *)
Sweep ==
  /\ design.tree = "local" /\ lock = Unlocked
  /\ \E old \in SUBSET Objects :
       files' = [o \in Objects |-> IF o \in old \ accepted THEN "none" ELSE files[o]]
  /\ UNCHANGED <<dirs, diskDirs, diskFiles, doing, object, level, lock, accepted>>

(* discard flushes the removal.                                              *)
Withdraw(o) ==
  /\ design.tree = "service" /\ \A p \in Publishers : doing[p] = "idle"
  /\ files' = [files EXCEPT ![o] = "none"]
  /\ diskFiles' \in {diskFiles, Present \ {o}}
  /\ accepted' = accepted \ {o}
  /\ UNCHANGED <<dirs, diskDirs, doing, object, level, lock>>

KillPublisher(p) ==
  /\ doing[p] \in design.faults
  /\ Leave(p)
  /\ UNCHANGED <<dirs, files, diskDirs, diskFiles, object, level, accepted>>

(* Of the entries that were not flushed the disk keeps any part.             *)
PowerLoss ==
  /\ \E ds \in SUBSET (dirs \cup diskDirs), fs \in SUBSET (Present \cup diskFiles) :
       /\ dirs \cap diskDirs \subseteq ds /\ Present \cap diskFiles \subseteq fs
       /\ dirs' = {d \in ds : 1 .. d \subseteq ds}
       /\ files' = [o \in Objects |->
                      IF o \notin fs \/ ~(1 .. design.depth \subseteq ds) THEN "none"
                      ELSE IF files[o] \in {"none", "flushed"} THEN "flushed" ELSE "torn"]
  /\ diskDirs' = dirs' /\ diskFiles' = {o \in Objects : files'[o] # "none"}
  /\ doing' = [p \in Publishers |-> "idle"] /\ lock' = Unlocked
  /\ UNCHANGED <<object, level, accepted>>

BlobNext ==
  /\ \/ \E p \in Publishers :
          \/ \E o \in Objects : Begin(p, o)
          \/ Lookup(p) \/ Walk(p) \/ FlushDirectory(p) \/ Publish(p) \/ SyncDirectory(p)
          \/ Fail(p) \/ Accept(p) \/ KillPublisher(p)
     \/ Sweep
     \/ \E o \in Objects : Withdraw(o)
     \/ PowerLoss
  /\ UNCHANGED design

BlobSpec == BlobInit /\ [][BlobNext]_blobVars

-----------------------------------------------------------------------------
(* An object whose publication was reported done is there whole, after any   *)
(* power loss as before it.                                                  *)
AcceptedSurvive ==
  \A o \in accepted : files[o] \in {"cached", "flushed"}

(* A name in the blob tree leads to whole bytes, whoever was killed and      *)
(* however often the power failed.                                           *)
ObjectsAreWhole == \A o \in Objects : files[o] # "torn"

(* What the flushes of a tree suffice for.  The local store flushes no       *)
(* directory it made, and adopts a name it finds: its directories must be    *)
(* old, and nothing may stop it between the rename and the flush after it.   *)
(* The service adopts a directory it finds, and takes back a name that       *)
(* another caller may have adopted: nothing may stop it between a directory  *)
(* and its flush, and it must have one caller.                               *)
Sheltered(d) ==
  \/ /\ d.tree = "local" /\ d.old = d.depth
     /\ "sync" \notin d.faults
  \/ /\ d.tree = "service" /\ "flushdir" \notin d.faults
     /\ \A p, q \in d.callers : p = q

(* No name of a blob tree leads to torn bytes, and in a sheltered tree what  *)
(* was reported published survives every power loss.                         *)
PublishedSurvive == ObjectsAreWhole /\ (Sheltered(design) => AcceptedSurvive)
=============================================================================
