---------------------------- MODULE PackAssembly ----------------------------
(***************************************************************************)
(* Assembling one export pack (produce_pack of exportrun.py, build_pack of  *)
(* exportpack.py) while the Run still publishes outputs, a review of it is  *)
(* opened and closed, stored content decays and the Project is projectClosed.    *)
(* Each read of the store is its own transaction.                           *)
(*                                                                          *)
(* The Run publishes the Versions 1, 2, ... in order; the identity of a     *)
(* pinned input set is the number of outputs published when it was taken.   *)
(***************************************************************************)
EXTENDS Naturals, Sequences, FiniteSets

CONSTANTS Outputs,      \* Versions the Run will publish
          MaxSelection, \* bound: length of a requested selection
          Findings      \* findings a review may record

\* What a Run may be.
AssemblyAssumption == Outputs \in Nat \ {0} /\ MaxSelection \in Nat

VARIABLES
    published,  \* outputs of the Run so far
    damaged,    \* Versions whose stored bytes no longer match their digest
    review,     \* for each pinned input set: its review's status
    found,      \* and its findings
    projectClosed,
    supplies,   \* inputs this installation can attest: what the store holds, what still hashes
    job         \* the export

assemblyVars == <<published, damaged, review, found, projectClosed, supplies, job>>
world == <<published, damaged, review, found, projectClosed, supplies>>

Versions == 1..Outputs

Attestable == {"research_intent", "scientific_input", "environment"}

\* Members of a pack.
Artifact(v) == <<"artifact", v>>

Document(d) == <<"document", d>>

Manifest == Document("manifest")

ReviewStatuses == {"none", "running", "completed", "failed"}

Selections == UNION {[1..n -> Versions] : n \in 0..MaxSelection}

NoJob == [pc |-> "idle", asked |-> <<>>, chosen |-> {}, attested |-> {}, outputs |-> 0,
          review |-> "none", found |-> {}, resolved |-> {}, mirror |-> FALSE,
          members |-> {}, entries |-> {}, sums |-> {}]

AssemblyInit ==
    /\ published \in 0..Outputs
    /\ damaged = {}
    /\ review = [n \in Versions |-> "none"]
    /\ found = [n \in Versions |-> {}]
    /\ projectClosed = FALSE
    /\ supplies \in SUBSET Attestable
    /\ job = NoJob

(***************************************************************************)
(* The rest of the system (RunLedger, WorkbenchChain and ReviewLifecycle    *)
(* model these steps in full).                                              *)
(***************************************************************************)

PublishOutput ==
    /\ ~projectClosed /\ published < Outputs
    /\ published' = published + 1
    /\ UNCHANGED <<damaged, review, found, projectClosed, supplies, job>>

OpenReview ==
    /\ ~projectClosed /\ published > 0 /\ review[published] = "none"
    /\ review' = [review EXCEPT ![published] = "running"]
    /\ UNCHANGED <<published, damaged, found, projectClosed, supplies, job>>

\* Findings and the closing status are one transaction.
CloseReview(n, fs) ==
    /\ review[n] = "running"
    /\ review' = [review EXCEPT ![n] = "completed"]
    /\ found' = [found EXCEPT ![n] = fs]
    /\ UNCHANGED <<published, damaged, projectClosed, supplies, job>>

FailReview(n) ==
    /\ review[n] = "running"
    /\ review' = [review EXCEPT ![n] = "failed"]
    /\ UNCHANGED <<published, damaged, found, projectClosed, supplies, job>>

Decay(v) ==
    /\ v \in 1..published /\ v \notin damaged
    /\ damaged' = damaged \cup {v}
    /\ UNCHANGED <<published, review, found, projectClosed, supplies, job>>

CloseProject ==
    /\ ~projectClosed
    /\ projectClosed' = TRUE
    /\ UNCHANGED <<published, damaged, review, found, supplies, job>>

(***************************************************************************)
(* produce_pack.                                                            *)
(***************************************************************************)

Refuse == job' = [job EXCEPT !.pc = "refused"]

\* create_export and export_candidates: a live Project and a Run with outputs.
RequestPack(selection) ==
    /\ job.pc = "idle" /\ ~projectClosed
    /\ job' = [NoJob EXCEPT !.pc = IF published = 0 THEN "refused" ELSE "select",
                            !.asked = selection, !.outputs = published]
    /\ UNCHANGED world

\* _validated_selection: not empty, no repetition, only Versions the Run published.
Select ==
    LET asked == {job.asked[i] : i \in DOMAIN job.asked} IN
    /\ job.pc = "select"
    /\ IF \/ job.asked = <<>>
          \/ Cardinality(asked) < Len(job.asked)
          \/ ~(asked \subseteq 1..job.outputs)
       THEN Refuse
       ELSE job' = [job EXCEPT !.pc = "attest", !.chosen = asked]
    /\ UNCHANGED world

\* _attested_inputs: what cannot be supplied or no longer hashes is left out.
Attest ==
    /\ job.pc = "attest"
    /\ job' = [job EXCEPT !.pc = "evidence", !.attested = supplies]
    /\ UNCHANGED world

(***************************************************************************)
(* build_pack.                                                              *)
(***************************************************************************)

\* _read_evidence: the outputs are read again; the review is looked up by them.
ReadEvidence ==
    /\ job.pc = "evidence"
    /\ job' = [job EXCEPT !.pc = "review", !.outputs = published]
    /\ UNCHANGED world

\* Mutant of ReadReview: the latest review of the Run.
ReadLatestReview ==
    /\ job.pc = "review"
    /\ job' = [job EXCEPT !.pc = IF review[published] = "none" THEN "resolve" ELSE "findings",
                          !.review = review[published]]
    /\ UNCHANGED world

ReadReview ==
    /\ job.pc = "review"
    /\ job' = [job EXCEPT !.pc = IF review[job.outputs] = "none" THEN "resolve" ELSE "findings",
                          !.review = review[job.outputs]]
    /\ UNCHANGED world

ReadFindings ==
    /\ job.pc = "findings"
    /\ job' = [job EXCEPT !.pc = "resolve", !.found = found[job.outputs]]
    /\ UNCHANGED world

\* _resolve_entry: an projectClosed Project, lost or altered bytes refuse the pack.
ResolveEntry(v) ==
    /\ job.pc = "resolve" /\ v \in job.chosen \ job.resolved
    /\ IF projectClosed \/ v \in damaged THEN Refuse ELSE job' = [job EXCEPT !.resolved = @ \cup {v}]
    /\ UNCHANGED world

\* _run_record_member: the run's mirror file is a member when it is there, and
\* refuses the pack when it is a link.
ReadMirror ==
    /\ job.pc = "resolve" /\ job.resolved = job.chosen
    /\ \/ Refuse
       \/ \E present \in BOOLEAN : job' = [job EXCEPT !.pc = "assemble", !.mirror = present]
    /\ UNCHANGED world

Supplied == {Document(d) : d \in job.attested \cup (IF job.mirror THEN {"run_record"} ELSE {})}

Written == {Artifact(v) : v \in job.resolved}
           \cup {Document(d) : d \in {"action_plan", "provenance", "review"}}

\* _documents, _manifest_document, _finalize and _reject_credential_material: the
\* manifest lists every member but itself, the checksums cover every member; a
\* member with credential material refuses the whole pack.
Assemble ==
    LET members == Written \cup Supplied IN
    /\ job.pc = "assemble"
    /\ \/ Refuse
       \/ job' = [job EXCEPT !.pc = "produced", !.members = members \cup {Manifest},
                             !.entries = members, !.sums = members \cup {Manifest}]
    /\ UNCHANGED world

Answer ==
    /\ job.pc \in {"refused", "produced"}
    /\ job' = NoJob
    /\ UNCHANGED world

ExportStep ==
    \/ Select \/ Attest \/ ReadEvidence \/ ReadReview \/ ReadFindings
    \/ ReadMirror \/ Assemble \/ Answer
    \/ \E v \in Versions : ResolveEntry(v)

AssemblyNext ==
    \/ PublishOutput \/ OpenReview \/ CloseProject
    \/ \E n \in Versions : FailReview(n) \/ \E fs \in SUBSET Findings : CloseReview(n, fs)
    \/ \E v \in Versions : Decay(v)
    \/ \E selection \in Selections : RequestPack(selection)
    \/ ExportStep

AssemblySpec == AssemblyInit /\ [][AssemblyNext]_assemblyVars

(***************************************************************************)
(* Properties.                                                              *)
(***************************************************************************)

\* Every variable keeps its shape.
ExportTypeOK ==
    /\ published \in 0..Outputs /\ damaged \subseteq 1..published
    /\ review \in [Versions -> ReviewStatuses] /\ found \in [Versions -> SUBSET Findings]
    /\ projectClosed \in BOOLEAN /\ supplies \subseteq Attestable
    /\ job.asked \in Selections /\ job.chosen \subseteq Versions /\ job.outputs \in 0..Outputs
    /\ job.review \in ReviewStatuses /\ job.found \subseteq Findings
    /\ job.entries \subseteq job.members

\* A pack holds exactly the Versions that were asked for, however many the Run
\* published in the meantime, and each of them is among the outputs it reports.
SelectionIsExact ==
    job.pc = "produced" =>
        /\ {v \in Versions : Artifact(v) \in job.members} = {job.asked[i] : i \in DOMAIN job.asked}
        /\ \A v \in Versions : Artifact(v) \in job.members => v <= job.outputs

\* The review a pack carries is one of exactly the outputs the pack reports, and a
\* pack that calls it completed carries all of its findings.
ReviewMatchesPins ==
    job.pc = "produced" /\ job.review = "completed" =>
        review[job.outputs] = "completed" /\ job.found = found[job.outputs]

\* The checksums cover every member, and the manifest every member but itself.
EverythingIsSummed ==
    job.pc = "produced" => job.sums = job.members /\ job.entries = job.members \ {Manifest}

\* Bytes that had decayed before the export began never reach a pack.
NoDecayedBytes ==
    [][\A v \in damaged : v \notin job'.resolved \ job.resolved]_assemblyVars

\* A pack tells the truth about one moment of the Run, however the Run went on
\* while it was assembled.
PacksAreTruthful ==
    /\ [](ExportTypeOK /\ SelectionIsExact /\ ReviewMatchesPins /\ EverythingIsSummed)
    /\ NoDecayedBytes

=============================================================================
