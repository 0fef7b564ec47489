--------------------------- MODULE ArtifactLedger ---------------------------
(***************************************************************************)
(* The other half of the local store: Artifacts, their append-only Version  *)
(* chains, the content-addressed blobs on disk, canonical execution inputs, *)
(* the output chain of a Run, and the links that publish a Version to a     *)
(* Session.  It extends RunLedger, whose tables its guards read.            *)
(*                                                                          *)
(* A blob file is published inside the write transaction and before the row *)
(* that refers to it, so a commit that fails afterwards leaves a file no    *)
(* row refers to; the sweep reclaims such files.                            *)
(***************************************************************************)
EXTENDS RunLedger, FiniteSets

CONSTANTS Artifacts, Versions,
          Contents,     \* SHA-256 digests of payloads
          InputDigest,  \* executions.input_sha256 of each execution
          MaxOutputs    \* bound on run_outputs.sequence

\* Every execution pins one input manifest.
InputAssumption ==
    /\ InputDigest \in [Executions -> Contents]
    /\ MaxOutputs \in Nat

VARIABLES artifacts, versions, inputs, outputs, links,
          blobs         \* digests whose file exists in the blob directory

artifactVars == <<artifacts, versions, inputs, outputs, links, blobs>>

allVars == <<ledgerVars, artifactVars>>

(***************************************************************************)
(* Rows.  Content addressing names a payload by its digest, so the payload  *)
(* and its digest are one value; intent digests address payloads too.       *)
(***************************************************************************)

ExecutionInputKind == {"research_intent", "scientific_input"}

Digests == Contents \cup Intents

ArtifactFound(p, a) == a \in DOMAIN artifacts /\ artifacts[a] = p

VersionFound(p, v) == v \in DOMAIN versions /\ versions[v].project = p

ExecutionOwned(p, e) ==
    /\ e \in DOMAIN executions
    /\ executions[e].project = p
    /\ RunFound(p, executions[e].run)

VersionsOf(a) == {v \in DOMAIN versions : versions[v].artifact = a}

\* COALESCE(MAX(version_no), 0), scoped to the Project.
HeadVersionNo(p, a) ==
    LET numbers == {versions[v].no : v \in {w \in VersionsOf(a) :
                                                versions[w].project = p}}
    IN  IF numbers = {} THEN 0
        ELSE CHOOSE n \in numbers : \A m \in numbers : m <= n

OutputHead(r) ==
    LET numbers == {n \in 1..MaxOutputs : <<r, n>> \in DOMAIN outputs}
    IN  IF numbers = {} THEN 0
        ELSE CHOOSE n \in numbers : \A m \in numbers : m <= n

PinnedExecutionDigest(e, kind) ==
    IF kind = "research_intent" THEN executions[e].intent ELSE InputDigest[e]

ReferencedDigests ==
    {versions[v].content : v \in DOMAIN versions}
        \cup {inputs[k] : k \in DOMAIN inputs}

(***************************************************************************)
(* Artifacts and Versions.                                                  *)
(***************************************************************************)

ArtifactInit ==
    /\ Init
    /\ artifacts = NoRows
    /\ versions = NoRows
    /\ inputs = NoRows
    /\ outputs = NoRows
    /\ links = NoRows
    /\ blobs = {}

\* The scoped existence check does not see another Project's Artifact of the
\* same identity; the primary key does.
CreateArtifact(p, a) ==
    /\ ~Archived(p)
    /\ ~ArtifactFound(p, a)
    /\ a \notin DOMAIN artifacts
    /\ artifacts' = Insert(artifacts, a, p)
    /\ UNCHANGED <<ledgerVars, versions, inputs, outputs, links, blobs>>

\* Every refusal of _reject_commit has passed: the Artifact exists, the base
\* is the current head, and every reference the Version asserts resolves.
CommitAccepted(p, base, v, row) ==
    /\ ArtifactFound(p, row.artifact)
    /\ ~Archived(p)
    /\ HeadVersionNo(p, row.artifact) = base
    /\ ExecutionOwned(p, row.producer)
    /\ \A w \in row.inputs : VersionFound(p, w)
    /\ row.no = base + 1
    /\ ~VersionFound(p, v)

\* commit_version: publish the bytes, then insert the row, then COMMIT.
CommitVersion(p, base, v, row) ==
    /\ CommitAccepted(p, base, v, row)
    /\ v \notin DOMAIN versions
    /\ blobs' = blobs \cup {row.content}
    /\ versions' = Insert(versions, v, row)
    /\ UNCHANGED <<ledgerVars, artifacts, inputs, outputs, links>>

\* The same commit cut short after the bytes were published: a failing
\* statement (a Version identity another Project uses, a full disk) or a
\* crash rolls the transaction back.
CommitVersionAborted(p, base, v, row) ==
    /\ CommitAccepted(p, base, v, row)
    /\ blobs' = blobs \cup {row.content}
    /\ UNCHANGED <<ledgerVars, artifacts, versions, inputs, outputs, links>>

\* record_execution_input accepts exactly the bytes the execution pinned,
\* once per kind.
InputAccepted(p, e, kind, payload) ==
    /\ ~Archived(p)
    /\ ExecutionOwned(p, e)
    /\ payload = PinnedExecutionDigest(e, kind)
    /\ <<e, kind>> \notin DOMAIN inputs

RecordInput(p, e, kind, payload) ==
    /\ InputAccepted(p, e, kind, payload)
    /\ blobs' = blobs \cup {payload}
    /\ inputs' = Insert(inputs, <<e, kind>>, payload)
    /\ UNCHANGED <<ledgerVars, artifacts, versions, outputs, links>>

RecordInputAborted(p, e, kind, payload) ==
    /\ InputAccepted(p, e, kind, payload)
    /\ blobs' = blobs \cup {payload}
    /\ UNCHANGED <<ledgerVars, artifacts, versions, inputs, outputs, links>>

\* Mutant of Sweep: the digests of execution inputs are not kept.
SweepAllButVersions(swept) ==
    /\ \A v \in DOMAIN versions : versions[v].content \notin swept
    /\ blobs' = blobs \ swept
    /\ UNCHANGED <<ledgerVars, artifacts, versions, inputs, outputs, links>>

\* The sweep unlinks unreferenced files older than its grace period; which
\* ones are old enough, and where an OSError stops it, is left open.
Sweep(swept) ==
    /\ swept \cap ReferencedDigests = {}
    /\ blobs' = blobs \ swept
    /\ UNCHANGED <<ledgerVars, artifacts, versions, inputs, outputs, links>>

(***************************************************************************)
(* Outputs and Session links.                                               *)
(***************************************************************************)

\* Mutant of AppendOutput: UNIQUE (org_id, run_id, artifact_version_id) is gone.
AppendRepeated(p, r, n, a, v) ==
    /\ RunFound(p, r)
    /\ ArtifactFound(p, a)
    /\ VersionFound(p, v)
    /\ runs[r].state = "running"
    /\ n = OutputHead(r) + 1
    /\ outputs' = Insert(outputs, <<r, n>>, [artifact |-> a, version |-> v])
    /\ UNCHANGED <<ledgerVars, artifacts, versions, inputs, links, blobs>>

\* Mutant of AppendOutput: the Run's state is not tested.
AppendToAnyRun(p, r, n, a, v) ==
    /\ RunFound(p, r)
    /\ ArtifactFound(p, a)
    /\ VersionFound(p, v)
    /\ n = OutputHead(r) + 1
    /\ \A m \in 1..MaxOutputs : <<r, m>> \in DOMAIN outputs =>
            outputs[<<r, m>>].version # v
    /\ outputs' = Insert(outputs, <<r, n>>, [artifact |-> a, version |-> v])
    /\ UNCHANGED <<ledgerVars, artifacts, versions, inputs, links, blobs>>

\* Not blocked by archival.  The Version must exist in the Project; that this
\* Run produced it is the workbench's business, not the store's.
AppendOutput(p, r, n, a, v) ==
    /\ RunFound(p, r)
    /\ ArtifactFound(p, a)
    /\ VersionFound(p, v)
    /\ runs[r].state = "running"
    /\ n = OutputHead(r) + 1
    /\ \A m \in 1..MaxOutputs : <<r, m>> \in DOMAIN outputs =>
            outputs[<<r, m>>].version # v
    /\ outputs' = Insert(outputs, <<r, n>>, [artifact |-> a, version |-> v])
    /\ UNCHANGED <<ledgerVars, artifacts, versions, inputs, links, blobs>>

\* The Run behind a Version's producing execution belongs to the Session; a
\* Run without a Session belongs to none.
ExecutionOwnedBySession(p, e, s) ==
    /\ ExecutionOwned(p, e)
    /\ runs[executions[e].run].session = s

AttachSession(p, s, v) ==
    /\ ~Archived(p)
    /\ VersionFound(p, v)
    /\ SessionLive(p, s)
    /\ ExecutionOwnedBySession(p, versions[v].producer, s)
    /\ <<s, v>> \notin DOMAIN links
    /\ links' = Insert(links, <<s, v>>, versions[v].producer)
    /\ UNCHANGED <<ledgerVars, artifacts, versions, inputs, outputs, blobs>>

(***************************************************************************)
(* The specification.                                                       *)
(***************************************************************************)

VersionNext ==
    \E p \in Projects :
        \/ \E a \in Artifacts : CreateArtifact(p, a)
        \/ \E v \in Versions, a \in Artifacts, base \in 0..Cardinality(Versions),
              c \in Contents, e \in Executions, ins \in SUBSET Versions :
              LET row == [project |-> p, artifact |-> a, no |-> base + 1,
                          content |-> c, producer |-> e, inputs |-> ins]
              IN  \/ CommitVersion(p, base, v, row)
                  \/ CommitVersionAborted(p, base, v, row)

InputNext ==
    \E p \in Projects, e \in Executions, kind \in ExecutionInputKind,
       payload \in Digests :
        \/ RecordInput(p, e, kind, payload)
        \/ RecordInputAborted(p, e, kind, payload)

OutputNext ==
    \E p \in Projects, v \in Versions :
        \/ \E r \in Runs, n \in 1..MaxOutputs, a \in Artifacts :
                AppendOutput(p, r, n, a, v)
        \/ \E s \in Sessions : AttachSession(p, s, v)

ArtifactNext ==
    \/ Next /\ UNCHANGED artifactVars
    \/ VersionNext
    \/ InputNext
    \/ OutputNext
    \/ \E swept \in SUBSET Digests : Sweep(swept)

ArtifactSpec == ArtifactInit /\ [][ArtifactNext]_allVars

(***************************************************************************)
(* Properties.                                                              *)
(***************************************************************************)

\* Every row that names content is backed by a file: neither an aborted
\* commit nor the sweep leaves "a row pointing at bytes that are not there"
\* (_record_input_locked), although the sweep deletes files and one file may
\* be shared by Versions and inputs of several Projects.
ReferencedBlobsPresent == ReferencedDigests \subseteq blobs

\* The Versions of an Artifact are numbered 1, 2, ... without gap or repeat,
\* whatever bases the committers submitted (commit_version is a
\* compare-and-swap on the head).
VersionChainsGapless ==
    \A a \in Artifacts :
        /\ {versions[v].no : v \in VersionsOf(a)} = 1..Cardinality(VersionsOf(a))
        /\ \A v \in VersionsOf(a) : ArtifactFound(versions[v].project, a)

\* Lineage is resolvable and well founded: inputs exist in the Version's own
\* Project, the producing execution and its Run are that Project's, and no
\* set of Versions derives only from itself (_references_valid).
LineageWellFounded ==
    /\ \A v \in DOMAIN versions :
          /\ \A w \in versions[v].inputs : VersionFound(versions[v].project, w)
          /\ ExecutionOwned(versions[v].project, versions[v].producer)
    /\ \A S \in SUBSET DOMAIN versions :
          S # {} => \E v \in S : versions[v].inputs \cap S = {}

\* A Run's output chain is gapless from 1, lists no Version twice, lists only
\* Versions of its Project, and exists only for a Run that was started under
\* a consumed approval.
OutputChainsSound ==
    \A r \in Runs :
        LET seqs == {n \in 1..MaxOutputs : <<r, n>> \in DOMAIN outputs}
        IN  /\ seqs = 1..Cardinality(seqs)
            /\ \A n, m \in seqs :
                  outputs[<<r, n>>].version = outputs[<<r, m>>].version => n = m
            /\ seqs # {} => r \in DOMAIN runs /\ RunClaimed(r)
            /\ \A n \in seqs :
                  VersionFound(runs[r].project, outputs[<<r, n>>].version)

\* A Version is linked only to the Session that commissioned the Run whose
\* execution produced it, all in one Project (_attach_locked).
LinksOwnTheirVersions ==
    \A s \in Sessions, v \in Versions : <<s, v>> \in DOMAIN links =>
        /\ v \in DOMAIN versions
        /\ links[<<s, v>>] = versions[v].producer
        /\ ExecutionOwnedBySession(versions[v].project, versions[v].producer, s)
        /\ runs[executions[versions[v].producer].run].session # NoSession
        /\ s \in DOMAIN sessions
        /\ sessions[s].project = versions[v].project

\* The rows that say where a result comes from are sound together, after any
\* interleaving of committers, Runs, Projects and Sessions: gapless Version
\* chains, well-founded lineage, output chains of started Runs, and links
\* only to the Session that commissioned the work.
EvidenceIsSound ==
    /\ VersionChainsGapless
    /\ LineageWellFounded
    /\ OutputChainsSound
    /\ LinksOwnTheirVersions

\* Versions, inputs, outputs and links are append-only, and the output chain
\* of a finished Run never grows.
EvidenceIsAppendOnly ==
    [][/\ \A v \in DOMAIN versions :
             v \in DOMAIN versions' /\ versions'[v] = versions[v]
       /\ \A k \in DOMAIN inputs : k \in DOMAIN inputs' /\ inputs'[k] = inputs[k]
       /\ \A k \in DOMAIN outputs :
             k \in DOMAIN outputs' /\ outputs'[k] = outputs[k]
       /\ \A k \in DOMAIN links : k \in DOMAIN links' /\ links'[k] = links[k]
       /\ \A k \in DOMAIN outputs' \ DOMAIN outputs :
             runs[k[1]].state = "running" /\ runs'[k[1]].state = "running"
      ]_allVars

=============================================================================
