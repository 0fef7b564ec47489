------------------------------ MODULE MCService ------------------------------
(***************************************************************************)
(* Instances for TLC of what receives, keeps and hands out content:         *)
(* create_version and signed downloads of the artifact service, the two     *)
(* blob trees, and the upload staging of the loopback API.                  *)
(*                                                                          *)
(* part, chosen at the start, says which of them a behaviour explores; the  *)
(* others stay in their initial state.                                      *)
(***************************************************************************)
EXTENDS ArtifactCommit, SignedDownloads, UploadStaging, BlobDurability, TLC

CONSTANTS v1, p1,       \* a Version and its Project, for downloads
          b1, b2,       \* publishers to the blob trees
          Parts

VARIABLE part

MCBases == 0..1

OwnersOfOne == v1 :> p1

\* The local store in shard directories that are on disk; a publication is
\* interrupted anywhere but between the rename and the flush after it.
LocalTree ==
    [tree |-> "local", depth |-> 2, old |-> 2, callers |-> {b1, b2},
     faults |-> {"lookup", "walk", "write", "accept"}]

\* One caller of the service's blob store in a fresh tree, interrupted anywhere
\* but between making a directory and flushing it.
ServiceTree ==
    [tree |-> "service", depth |-> 2, old |-> 0, callers |-> {b1},
     faults |-> {"walk", "write", "sync", "resync", "accept"}]

\* The local store in a fresh tree, interrupted anywhere: its names still lead
\* to whole bytes.
MCDesigns ==
    {LocalTree, ServiceTree,
     [LocalTree EXCEPT !.old = 0, !.callers = {b1}, !.faults = Stages \ {"idle"}]}

ASSUME UploadAssumption /\ BlobAssumption

SuiteInit ==
    /\ part \in Parts
    /\ Init
    /\ DownloadInit /\ (part = "downloads" \/ now = 1)
    /\ UploadInit
    /\ BlobInit /\ (part = "blobs" \/ design = ServiceTree)

SuiteNext ==
    /\ \/ /\ part = "commits" /\ Next
          /\ UNCHANGED <<downloadVars, uploadVars, blobVars>>
       \/ /\ part = "downloads" /\ DownloadNext
          /\ UNCHANGED <<vars, uploadVars, blobVars>>
       \/ /\ part = "uploads" /\ UploadNext
          /\ UNCHANGED <<vars, downloadVars, blobVars>>
       \/ /\ part = "blobs" /\ BlobNext
          /\ UNCHANGED <<vars, downloadVars, uploadVars>>
    /\ UNCHANGED part

SuiteSpec ==
    SuiteInit /\ [][SuiteNext]_<<part, vars, downloadVars, uploadVars, blobVars>>

Symmetry == Permutations(Versions)
=============================================================================
