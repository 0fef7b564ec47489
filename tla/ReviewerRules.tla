--------------------------- MODULE ReviewerRules ---------------------------
(***************************************************************************)
(* The trace-only Reviewer (apps/local/nipo_local/reviewer.py): rules RV01  *)
(* to RV05 as operators over one snapshot of a Run's pinned evidence, and   *)
(* the verdict that summarises them.  The snapshot starts as what the       *)
(* analysis chain publishes, a prefix of its four outputs that agree with   *)
(* each other, and then defects are planted in it one after another, as the *)
(* review corpus of the tests plants them one at a time.                    *)
(*                                                                          *)
(* A digest is modelled by whether it agrees with what it is a digest of, a *)
(* text by the numbers, states and terms a rule can read in it.             *)
(***************************************************************************)
EXTENDS Integers, FiniteSets, Sequences

CONSTANTS Branches,     \* hypothesis branches
          NotStated,    \* a branch, or a count, that a document does not carry
          MaxDefects    \* bound: defects planted in one snapshot

VARIABLES evidence, planted

reviewerVars == <<evidence, planted>>

(***************************************************************************)
(* Vocabularies.  "confirmed" and "clinical_confirmation" stand for every   *)
(* word outside the ranked vocabularies.                                    *)
(***************************************************************************)

ChainRoles == <<"csv", "png", "markdown", "ledger">>

Roles == {"csv", "png", "markdown", "ledger"}

ContentStates == {"unpublished", "available", "absent", "tampered"}

StateLevel == [insufficient |-> 0, plausible |-> 1, observed |-> 2]

EvidenceLevel == [insufficient |-> 0, derived_observation |-> 1]

States == DOMAIN StateLevel \cup {"confirmed"}

Kinds == DOMAIN EvidenceLevel \cup {"clinical_confirmation"}

Numbers == {1, 2}

Resolutions == {"supported", "unsupported", "unreachable"}

TableRow ==
    [state : States, numbers : SUBSET Numbers, bounded : BOOLEAN,
     marked : BOOLEAN]

ReportBranch ==
    [state : States, numbers : SUBSET Numbers, bounded : BOOLEAN,
     marked : BOOLEAN, limited : BOOLEAN]

ParsedReport ==
    [branches : [Branches -> ReportBranch \cup {NotStated}],
     declaredPeaks : {1, 2, NotStated}, peakRows : {1, 2},
     digests : {"undeclared", "agree", "disagree"}, cited : SUBSET Resolutions]

EvidenceLedger ==
    [provenance : BOOLEAN, listed : [Roles -> {"unlisted", "agree", "disagree"}],
     science : [Branches -> Kinds \cup {NotStated}]]

EvidenceRecord ==
    [execution : BOOLEAN,                    \* the Run claimed one
     content : [Roles -> ContentStates],     \* PinnedOutput.content_state
     recorded : [Roles -> BOOLEAN],          \* run_outputs digest and size agree
     provenance : [Roles -> BOOLEAN],        \* the Version names the execution
     readable : [Roles -> BOOLEAN],          \* its bytes parse
     report : ParsedReport,
     table : [Branches -> TableRow \cup {NotStated}],
     ledger : EvidenceLedger]

\* What is not stated is nothing that could be stated.
RulesAssumption ==
    NotStated \notin TableRow \cup ReportBranch \cup Kinds \cup Numbers

(***************************************************************************)
(* Reading one snapshot.                                                    *)
(***************************************************************************)

Published(e) == {role \in Roles : e.content[role] # "unpublished"}

Parsed(e, role) == e.content[role] = "available" /\ e.readable[role]

Stated(document) == {b \in Branches : document[b] # NotStated}

\* {row.branch: numbers}.get(branch, frozenset())
SupportedNumbers(e, b) ==
    IF b \in Stated(e.table) THEN e.table[b].numbers ELSE {}

(***************************************************************************)
(* RV01: every number of the report is in the hypothesis table, and the     *)
(* declared number of peaks is the number of rows of the peak table.        *)
(***************************************************************************)

ClaimUnsupported(e) ==
    \/ \E b \in Stated(e.report.branches) :
           ~(e.report.branches[b].numbers \subseteq SupportedNumbers(e, b))
    \/ e.report.declaredPeaks \notin {NotStated, e.report.peakRows}

RV01(e) ==
    CASE ~Parsed(e, "markdown") \/ ~Parsed(e, "csv") -> "inconclusive"
      [] OTHER ->
         IF ClaimUnsupported(e) THEN "fail"
         ELSE IF Stated(e.report.branches) = {}
                 /\ e.report.declaredPeaks = NotStated
              THEN "inconclusive"
              ELSE "pass"

(***************************************************************************)
(* RV02: every cited identifier resolves and supports its claim.            *)
(***************************************************************************)

\* Mutant of RV02: an unreachable identifier is not a reason to hold back.
RV02Optimistic(e) ==
    IF ~Parsed(e, "markdown") THEN "inconclusive"
    ELSE IF "unsupported" \in e.report.cited THEN "fail" ELSE "pass"

RV02(e) ==
    IF ~Parsed(e, "markdown") THEN "inconclusive"
    ELSE IF "unsupported" \in e.report.cited THEN "fail"
    ELSE IF "unreachable" \in e.report.cited THEN "inconclusive"
    ELSE "pass"

(***************************************************************************)
(* RV03: outputs, ledger and report correspond to the pinned records.       *)
(***************************************************************************)

ContentMismatch(e) ==
    \E role \in Published(e) :
        \/ e.content[role] = "tampered"
        \/ e.content[role] = "available" /\ ~e.recorded[role]

ContentUnavailable(e) == \E role \in Published(e) : e.content[role] = "absent"

ExecutionMismatch(e) ==
    e.execution /\ \E role \in Published(e) : ~e.provenance[role]

\* The ledger cannot list itself; every other published output must be in it.
LedgerOmission(e) ==
    \E role \in Published(e) \ {"ledger"} : e.ledger.listed[role] = "unlisted"

LedgerMismatch(e) ==
    /\ Parsed(e, "ledger")
    /\ \/ e.execution /\ ~e.ledger.provenance
       \/ \E role \in Roles :
              \/ e.ledger.listed[role] = "disagree"
              \/ e.ledger.listed[role] = "agree" /\ role \notin Published(e)
       \/ LedgerOmission(e)

ReportProvenanceMismatch(e) ==
    Parsed(e, "markdown") /\ e.execution /\ e.report.digests = "disagree"

Mismatched(e) ==
    \/ ContentMismatch(e)
    \/ ExecutionMismatch(e)
    \/ LedgerMismatch(e)
    \/ ReportProvenanceMismatch(e)

\* Mutant of RV03: evidence that is gone is taken for evidence that agrees.
RV03Lenient(e) ==
    IF Published(e) = {} THEN "inconclusive"
    ELSE IF Mismatched(e) THEN "fail" ELSE "pass"

RV03(e) ==
    IF Published(e) = {} THEN "inconclusive"
    ELSE IF Mismatched(e) THEN "fail"
    ELSE IF ContentUnavailable(e) \/ ~e.execution THEN "inconclusive"
    ELSE "pass"

(***************************************************************************)
(* RV04: no stated level exceeds the level of its source, the hypothesis    *)
(* table.  What cannot be ranked is reported, not assumed safe.             *)
(***************************************************************************)

SourceEvidenceLevel(state) ==
    IF state = "insufficient" THEN EvidenceLevel["insufficient"]
    ELSE EvidenceLevel["derived_observation"]

RankableSource(e, b) ==
    b \in Stated(e.table) /\ e.table[b].state \in DOMAIN StateLevel

RankableState(e, b) ==
    RankableSource(e, b) /\ e.report.branches[b].state \in DOMAIN StateLevel

RankableEvidence(e, b) ==
    RankableSource(e, b) /\ e.ledger.science[b] \in DOMAIN EvidenceLevel

Unrankable(e) ==
    \/ \E b \in Stated(e.ledger.science) : ~RankableEvidence(e, b)
    \/ \E b \in Stated(e.report.branches) : ~RankableState(e, b)

Escalated(e) ==
    \/ \E b \in Stated(e.ledger.science) :
           /\ RankableEvidence(e, b)
           /\ EvidenceLevel[e.ledger.science[b]]
                > SourceEvidenceLevel(e.table[b].state)
    \/ \E b \in Stated(e.report.branches) :
           /\ RankableState(e, b)
           /\ StateLevel[e.report.branches[b].state] > StateLevel[e.table[b].state]

Understated(e) ==
    \E b \in Stated(e.report.branches) :
        /\ RankableState(e, b)
        /\ StateLevel[e.report.branches[b].state] < StateLevel[e.table[b].state]

RV04(e) ==
    IF \E role \in {"csv", "ledger", "markdown"} : ~Parsed(e, role)
    THEN "inconclusive"
    ELSE IF Escalated(e) THEN "fail"
    ELSE IF Unrankable(e) THEN "inconclusive"
    ELSE IF Understated(e) THEN "warn"
    ELSE "pass"

(***************************************************************************)
(* RV05: no research-only boundary term in claim-bearing text, and every    *)
(* claim carries its scope marker and its limitation.                       *)
(***************************************************************************)

BoundaryTerms(e) ==
    \/ \E b \in Stated(e.report.branches) : ~e.report.branches[b].bounded
    \/ \E b \in Stated(e.table) : ~e.table[b].bounded

MissingScopeMarkers(e) ==
    \/ \E b \in Stated(e.table) : ~e.table[b].marked
    \/ \E b \in Stated(e.report.branches) :
           ~e.report.branches[b].marked \/ ~e.report.branches[b].limited

RV05(e) ==
    IF ~Parsed(e, "markdown") \/ ~Parsed(e, "csv") THEN "inconclusive"
    ELSE IF BoundaryTerms(e) \/ MissingScopeMarkers(e) THEN "fail"
    ELSE "pass"

(***************************************************************************)
(* The summary: the verdict of highest precedence.                          *)
(***************************************************************************)

VerdictRank == [pass |-> 0, inconclusive |-> 1, warn |-> 2, fail |-> 3]

SummaryVerdict(verdicts) ==
    IF verdicts = {} THEN "inconclusive"
    ELSE CHOOSE v \in verdicts : \A w \in verdicts : VerdictRank[w] <= VerdictRank[v]

ReviewVerdicts(e) == {RV01(e), RV02(e), RV03(e), RV04(e), RV05(e)}

Verdict(e) == SummaryVerdict(ReviewVerdicts(e))

(***************************************************************************)
(* The snapshots.  A clean one is what the chain commits up to some output: *)
(* the report and the ledger are rendered from the table.                   *)
(***************************************************************************)

CleanRow(state) == [state |-> state, numbers |-> {1}, bounded |-> TRUE, marked |-> TRUE]

\* build_evidence: the kind of evidence the ledger records for a branch.
EvidenceKind(state) ==
    IF state = "insufficient" THEN "insufficient" ELSE "derived_observation"

CleanEvidence(states, last) ==
    [execution |-> TRUE,
     content |-> [role \in Roles |->
         IF \E i \in 1..last : ChainRoles[i] = role THEN "available"
         ELSE "unpublished"],
     recorded |-> [role \in Roles |-> TRUE],
     provenance |-> [role \in Roles |-> TRUE],
     readable |-> [role \in Roles |-> TRUE],
     report |-> [branches |-> [b \in Branches |->
                     [state |-> states[b], numbers |-> {1}, bounded |-> TRUE,
                      marked |-> TRUE, limited |-> TRUE]],
                 declaredPeaks |-> 1, peakRows |-> 1,
                 digests |-> "agree", cited |-> {}],
     table |-> [b \in Branches |-> CleanRow(states[b])],
     ledger |-> [provenance |-> TRUE,
                 listed |-> [role \in Roles |->
                     IF role = "ledger" THEN "unlisted" ELSE "agree"],
                 science |-> [b \in Branches |-> EvidenceKind(states[b])]]]

RulesInit ==
    /\ \E states \in [Branches -> DOMAIN StateLevel], last \in 0..Len(ChainRoles) :
           evidence = CleanEvidence(states, last)
    /\ planted = {}

(***************************************************************************)
(* Defects: what can have happened to the bytes and rows behind a snapshot, *)
(* or been wrong in what was published.  Each kind is planted at most once. *)
(***************************************************************************)

Plant(kind, e) ==
    /\ kind \notin planted
    /\ Cardinality(planted) < MaxDefects
    /\ planted' = planted \cup {kind}
    /\ evidence' = e

DamageContent(role, state) ==
    /\ evidence.content[role] = "available"
    /\ Plant(state, [evidence EXCEPT !.content[role] = state])

GarbleDocument(role) ==
    /\ evidence.content[role] = "available"
    /\ role # "png"
    /\ Plant("unreadable", [evidence EXCEPT !.readable[role] = FALSE])

LoseExecution == Plant("no_execution", [evidence EXCEPT !.execution = FALSE])

MisrecordOutput(role) ==
    /\ role \in Published(evidence)
    /\ \/ Plant("recorded", [evidence EXCEPT !.recorded[role] = FALSE])
       \/ Plant("provenance", [evidence EXCEPT !.provenance[role] = FALSE])

MisstateLedger(role) ==
    /\ "ledger" \in Published(evidence)
    /\ \/ Plant("ledger_provenance", [evidence EXCEPT !.ledger.provenance = FALSE])
       \/ /\ role # "ledger"
          /\ \/ Plant("ledger_entry",
                      [evidence EXCEPT !.ledger.listed[role] = "disagree"])
             \/ Plant("ledger_omission",
                      [evidence EXCEPT !.ledger.listed[role] = "unlisted"])

OverclaimEvidence(b, kind) ==
    /\ "ledger" \in Published(evidence)
    /\ kind \in DOMAIN EvidenceLevel =>
           EvidenceLevel[kind] > SourceEvidenceLevel(evidence.table[b].state)
    /\ Plant("evidence_kind", [evidence EXCEPT !.ledger.science[b] = kind])

RestateBranch(b, state) ==
    /\ "markdown" \in Published(evidence)
    /\ evidence.report.branches[b].state # state
    /\ Plant("branch_state", [evidence EXCEPT !.report.branches[b].state = state])

MisreportNumbers(b) ==
    /\ "markdown" \in Published(evidence)
    /\ \/ Plant("number", [evidence EXCEPT !.report.branches[b].numbers = {1, 2}])
       \/ Plant("peaks", [evidence EXCEPT !.report.declaredPeaks = 2])
       \/ Plant("report_digest", [evidence EXCEPT !.report.digests = "disagree"])

CiteIdentifier(resolution) ==
    /\ "markdown" \in Published(evidence)
    /\ resolution # "supported"
    /\ Plant("citation", [evidence EXCEPT !.report.cited = {"supported", resolution}])

BreachBoundary(b) ==
    \/ /\ "markdown" \in Published(evidence)
       /\ \/ Plant("clinical", [evidence EXCEPT !.report.branches[b].bounded = FALSE])
          \/ Plant("scope", [evidence EXCEPT !.report.branches[b].marked = FALSE])
          \/ Plant("limitation", [evidence EXCEPT !.report.branches[b].limited = FALSE])
    \/ /\ "csv" \in Published(evidence)
       /\ \/ Plant("table_scope", [evidence EXCEPT !.table[b].marked = FALSE])
          \/ Plant("table_clinical", [evidence EXCEPT !.table[b].bounded = FALSE])

RulesNext ==
    \/ \E role \in Roles :
           \/ \E state \in {"absent", "tampered"} : DamageContent(role, state)
           \/ GarbleDocument(role)
           \/ MisrecordOutput(role)
           \/ MisstateLedger(role)
    \/ LoseExecution
    \/ \E b \in Branches :
           \/ \E kind \in Kinds : OverclaimEvidence(b, kind)
           \/ \E state \in States : RestateBranch(b, state)
           \/ MisreportNumbers(b)
           \/ BreachBoundary(b)
    \/ \E resolution \in Resolutions : CiteIdentifier(resolution)

RulesSpec == RulesInit /\ [][RulesNext]_reviewerVars

(***************************************************************************)
(* Properties.                                                              *)
(***************************************************************************)

EvidenceTypeOK == evidence \in EvidenceRecord

\* "A Review that could not check something never reports as passed": a Review
\* passes exactly when the chain was published whole and no defect, of any of
\* the kinds RULE_COVERAGE declares its rules check, is in the evidence, no
\* matter how many defects hide each other from single rules.
PassMeansClean ==
    Verdict(evidence) = "pass" <=> Published(evidence) = Roles /\ planted = {}

\* A manufactured failure is as wrong as a manufactured pass: evidence that is
\* only gone, unreadable or unreachable is inconclusive and never a fail.
AbsenceIsNotFailure ==
    planted \subseteq {"absent", "unreadable", "no_execution"} =>
        Verdict(evidence) \in {"pass", "inconclusive"}

\* Bytes that contradict their digest stay a failure whatever else is wrong:
\* no later defect, such as the loss of the ledger or of the execution, can
\* make the Reviewer forget the tampering unless the bytes themselves are gone.
TamperingStaysVisible == "tampered" \in planted => Verdict(evidence) = "fail"

\* A verdict says no more and no less than the evidence bears.
VerdictsAreEarned == EvidenceTypeOK /\ PassMeansClean /\ AbsenceIsNotFailure /\ TamperingStaysVisible

\* No further damage to the evidence ever turns a Review that does not pass
\* into one that does.
DamageNeverLaunders ==
    [][Verdict(evidence) # "pass" => Verdict(evidence') # "pass"]_reviewerVars
=============================================================================
