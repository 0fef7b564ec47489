-------------------------- MODULE ReviewLifecycle --------------------------
(***************************************************************************)
(* Reviews of one Run: the review rows of the local store                   *)
(* (apps/local/nipo_local/store.py) and the open, evaluate, submit sequence *)
(* of reviewrun.py, run by several callers of POST .../review at once while *)
(* the Run they review is still publishing.                                 *)
(*                                                                          *)
(* A store operation is one transaction and one action.  The evidence       *)
(* capture reads the Run's outputs and then its execution; the lock it      *)
(* holds is one process's, so another process may write between the reads.  *)
(* Digests are collision-free: the digest of the pins is the pins.          *)
(***************************************************************************)
EXTENDS Naturals

CONSTANTS Versions,     \* Versions the Run publishes
          Callers,      \* POST .../review requests
          Reviews,      \* identities of Reviews
          NoReview,
          MaxFaults     \* bound: store errors and process crashes

\* What the bounds may be.
ReviewAssumption == NoReview \notin Reviews /\ MaxFaults \in Nat

VARIABLES
    claimed,      \* the Run has claimed its execution
    published,    \* Versions named by the Run's run_outputs rows
    archived,     \* the Project is archived
    reviews,      \* rows of the table reviews
    findings,     \* evidence that the stored findings of a Review refer to
    calls,        \* requests in progress
    faults        \* store errors and crashes so far

reviewVars == <<claimed, published, archived, reviews, findings, calls, faults>>

(***************************************************************************)
(* Rows.                                                                    *)
(***************************************************************************)

Evidence == [versions : SUBSET Versions, execution : BOOLEAN]

NoEvidence == [versions |-> {}, execution |-> FALSE]

ReviewState == {"queued", "running", "completed", "failed"}

OpenReviewStates == {"queued", "running"}

ReviewRecord == [pins : Evidence, state : ReviewState, submitted : BOOLEAN]

Call ==
    [pc : {"idle", "capturing", "captured", "unreviewed", "opened",
           "recapture", "recapturing", "evaluated", "failing", "read_back",
           "answered"},
     pins : Evidence,               \* evidence the Review is to pin
     seen : Evidence,               \* evidence the rules read
     review : Reviews \cup {NoReview},
     answer : {"none", "review", "no_pinned_evidence", "project_archived",
               "store_unavailable"}]

Idle ==
    [pc |-> "idle", pins |-> NoEvidence, seen |-> NoEvidence,
     review |-> NoReview, answer |-> "none"]

ReviewOf(pins) == {r \in DOMAIN reviews : reviews[r].pins = pins}

InsertReview(table, r, row) ==
    [k \in DOMAIN table \cup {r} |-> IF k = r THEN row ELSE table[k]]

(***************************************************************************)
(* The Run under review: it claims its execution before it publishes.       *)
(***************************************************************************)

Init ==
    /\ claimed = FALSE
    /\ published = {}
    /\ archived = FALSE
    /\ reviews = [r \in {} |-> TRUE]
    /\ findings = [r \in {} |-> TRUE]
    /\ calls = [c \in Callers |-> Idle]
    /\ faults = 0

ClaimExecution ==
    /\ ~claimed
    /\ ~archived
    /\ claimed' = TRUE
    /\ UNCHANGED <<published, archived, reviews, findings, calls, faults>>

PublishOutput(v) ==
    /\ claimed
    /\ ~archived
    /\ v \notin published
    /\ published' = published \cup {v}
    /\ UNCHANGED <<claimed, archived, reviews, findings, calls, faults>>

ArchiveProject ==
    /\ ~archived
    /\ archived' = TRUE
    /\ UNCHANGED <<claimed, published, reviews, findings, calls, faults>>

runVars == <<claimed, published, archived>>

(***************************************************************************)
(* The Review sequence of one request.                                      *)
(***************************************************************************)

Answer(c, what) ==
    calls' = [calls EXCEPT ![c].pc = "answered", ![c].answer = what]

\* _review captures its evidence: first half, the Run's outputs.
CaptureOutputs(c) ==
    /\ calls[c].pc = "idle"
    /\ ~archived
    /\ calls' = [calls EXCEPT ![c].pc = "capturing",
                              ![c].pins = [versions |-> published, execution |-> FALSE]]
    /\ UNCHANGED <<runVars, reviews, findings, faults>>

\* Mutant of CaptureExecution: the execution is not pinned.
CaptureWithoutExecution(c) ==
    /\ calls[c].pc = "capturing"
    /\ IF claimed \/ calls[c].pins.versions # {}
       THEN calls' = [calls EXCEPT ![c].pc = "captured"]
       ELSE Answer(c, "no_pinned_evidence")
    /\ UNCHANGED <<runVars, reviews, findings, faults>>

\* Second half, the execution; a Run with neither has nothing to pin.
CaptureExecution(c) ==
    /\ calls[c].pc = "capturing"
    /\ IF claimed \/ calls[c].pins.versions # {}
       THEN calls' = [calls EXCEPT ![c].pc = "captured",
                                   ![c].pins.execution = claimed]
       ELSE Answer(c, "no_pinned_evidence")
    /\ UNCHANGED <<runVars, reviews, findings, faults>>

\* The lookup by digest: a Review in any state is the answer.
LookUp(c) ==
    /\ calls[c].pc = "captured"
    /\ IF ReviewOf(calls[c].pins) # {}
       THEN Answer(c, "review")
       ELSE calls' = [calls EXCEPT ![c].pc = "unreviewed"]
    /\ UNCHANGED <<runVars, reviews, findings, faults>>

\* open_review under a fresh identity.  The pins resolve: they were read from
\* the tables, which never lose a row.  A lost race is answered by the winner.
OpenReview(c, r) ==
    /\ calls[c].pc = "unreviewed"
    /\ r \notin DOMAIN reviews
    /\ \/ /\ archived
          /\ Answer(c, "project_archived")
          /\ UNCHANGED reviews
       \/ /\ ~archived
          /\ ReviewOf(calls[c].pins) # {}
          /\ Answer(c, "review")
          /\ UNCHANGED reviews
       \/ /\ ~archived
          /\ ReviewOf(calls[c].pins) = {}
          /\ reviews' = InsertReview(reviews, r,
                 [pins |-> calls[c].pins, state |-> "queued", submitted |-> FALSE])
          /\ calls' = [calls EXCEPT ![c].pc = "opened", ![c].review = r]
    /\ UNCHANGED <<runVars, findings, faults>>

\* Mutant of StartReview: the Review is evaluated without being started.
StartSkipped(c) ==
    /\ calls[c].pc = "opened"
    /\ calls' = [calls EXCEPT ![c].pc = "recapture"]
    /\ UNCHANGED <<runVars, reviews, findings, faults>>

\* start_review: the compare-and-swap queued -> running, its outcome ignored.
StartReview(c) ==
    /\ calls[c].pc = "opened"
    /\ reviews' = IF reviews[calls[c].review].state = "queued"
                  THEN [reviews EXCEPT ![calls[c].review].state = "running"]
                  ELSE reviews
    /\ calls' = [calls EXCEPT ![c].pc = "recapture"]
    /\ UNCHANGED <<runVars, findings, faults>>

\* The evidence is captured a second time, after the Review row exists.
RecaptureOutputs(c) ==
    /\ calls[c].pc = "recapture"
    /\ calls' = [calls EXCEPT ![c].pc = "recapturing",
                              ![c].seen = [versions |-> published, execution |-> FALSE]]
    /\ UNCHANGED <<runVars, reviews, findings, faults>>

RecaptureExecution(c) ==
    /\ calls[c].pc = "recapturing"
    /\ calls' = [calls EXCEPT ![c].pc = "evaluated", ![c].seen.execution = claimed]
    /\ UNCHANGED <<runVars, reviews, findings, faults>>

\* Mutant of SubmissionWellFormed: a submission may widen the evidence set.
AnySubmission(pins, seen) == TRUE

\* Every finding names all the evidence the rules read, and the store refuses
\* a finding that names evidence the Review did not pin.
SubmissionWellFormed(pins, seen) ==
    /\ seen.versions \subseteq pins.versions
    /\ seen.execution => pins.execution

\* submit_review_findings; whatever its outcome, the stored row is read back.
SubmitFindings(c) ==
    LET r == calls[c].review
        accepted == /\ SubmissionWellFormed(reviews[r].pins, calls[c].seen)
                    /\ ~reviews[r].submitted
                    /\ reviews[r].state = "running"
    IN /\ calls[c].pc = "evaluated"
       /\ reviews' = IF accepted
                     THEN [reviews EXCEPT ![r].state = "completed",
                                          ![r].submitted = TRUE]
                     ELSE reviews
       /\ findings' = IF accepted
                      THEN InsertReview(findings, r, calls[c].seen)
                      ELSE findings
       /\ calls' = [calls EXCEPT ![c].pc = "read_back"]
       /\ UNCHANGED <<runVars, faults>>

ReadBack(c) ==
    /\ calls[c].pc = "read_back"
    /\ Answer(c, "review")
    /\ UNCHANGED <<runVars, reviews, findings, faults>>

(***************************************************************************)
(* Failures.  A store error before the Review runs is only reported; one    *)
(* while it runs closes the Review, if the store lets it.                   *)
(***************************************************************************)

StoreError(c) ==
    /\ faults < MaxFaults
    /\ faults' = faults + 1
    /\ \/ /\ calls[c].pc \in {"capturing", "captured", "unreviewed", "opened",
                              "failing", "read_back"}
          /\ Answer(c, "store_unavailable")
       \/ /\ calls[c].pc \in {"recapture", "recapturing", "evaluated"}
          /\ calls' = [calls EXCEPT ![c].pc = "failing"]
    /\ UNCHANGED <<runVars, reviews, findings>>

FailReview(c) ==
    /\ calls[c].pc = "failing"
    /\ reviews' = IF reviews[calls[c].review].state \in OpenReviewStates
                  THEN [reviews EXCEPT ![calls[c].review].state = "failed"]
                  ELSE reviews
    /\ Answer(c, "store_unavailable")
    /\ UNCHANGED <<runVars, findings, faults>>

\* The process dies: every request is gone, every committed row stays.
Crash ==
    /\ faults < MaxFaults
    /\ faults' = faults + 1
    /\ calls' = [c \in Callers |-> Idle]
    /\ UNCHANGED <<runVars, reviews, findings>>

\* The response is sent; the same client may ask again.
Respond(c) ==
    /\ calls[c].pc = "answered"
    /\ calls' = [calls EXCEPT ![c] = Idle]
    /\ UNCHANGED <<runVars, reviews, findings, faults>>

ReviewStep(c) ==
    \/ CaptureOutputs(c)
    \/ CaptureExecution(c)
    \/ LookUp(c)
    \/ \E r \in Reviews : OpenReview(c, r)
    \/ StartReview(c)
    \/ RecaptureOutputs(c)
    \/ RecaptureExecution(c)
    \/ SubmitFindings(c)
    \/ ReadBack(c)
    \/ FailReview(c)

Next ==
    \/ ClaimExecution
    \/ \E v \in Versions : PublishOutput(v)
    \/ ArchiveProject
    \/ \E c \in Callers : ReviewStep(c) \/ Respond(c) \/ StoreError(c)
    \/ Crash

Spec == Init /\ [][Next]_reviewVars

\* A handler that has begun runs to its end; nobody has to send a request, and
\* the Run has to publish nothing.
Begun(c) == calls[c].pc # "idle" /\ (ReviewStep(c) \/ Respond(c))

FairSpec == Spec /\ \A c \in Callers : WF_reviewVars(Begun(c))

(***************************************************************************)
(* Properties.                                                              *)
(***************************************************************************)

TypeOK ==
    /\ claimed \in BOOLEAN
    /\ published \subseteq Versions
    /\ archived \in BOOLEAN
    /\ DOMAIN reviews \subseteq Reviews
    /\ reviews \in [DOMAIN reviews -> ReviewRecord]
    /\ DOMAIN findings \subseteq DOMAIN reviews
    /\ findings \in [DOMAIN findings -> Evidence]
    /\ calls \in [Callers -> Call]
    /\ faults \in 0..MaxFaults

\* "The same evidence is never reviewed twice" (open_review), with callers
\* racing between the lookup and the insert, crashes and retries: not even a
\* failed or abandoned Review lets its evidence be reviewed again.
OneReviewPerEvidence ==
    \A r, s \in DOMAIN reviews : reviews[r].pins = reviews[s].pins => r = s

\* "What the rules read is what the Review pins": although the evidence is
\* captured twice and the Run may publish in between, stored findings were
\* drawn from exactly the pinned evidence, and only completed Reviews have any.
FindingsDrawnFromPins ==
    \A r \in DOMAIN reviews :
        /\ r \in DOMAIN findings <=> reviews[r].state = "completed"
        /\ reviews[r].submitted <=> reviews[r].state = "completed"
        /\ r \in DOMAIN findings => findings[r] = reviews[r].pins

\* Pins read by two statements without a transaction are still a state the Run
\* was in: no Review pins outputs without the execution that produced them.
PinsAreASnapshot ==
    \A r \in DOMAIN reviews :
        reviews[r].pins.versions # {} => reviews[r].pins.execution

\* A Review keeps its pins for ever, and once it is closed nothing about it
\* changes, not even under a request that still holds its identity.
ClosedReviewsAreFinal ==
    [][\A r \in DOMAIN reviews :
          /\ r \in DOMAIN reviews'
          /\ reviews'[r].pins = reviews[r].pins
          /\ reviews[r].state \notin OpenReviewStates => reviews'[r] = reviews[r]
          /\ r \in DOMAIN findings =>
                 r \in DOMAIN findings' /\ findings'[r] = findings[r]
      ]_reviewVars

\* What a Review says rests on what it pinned, for good.
ReviewsRestOnPins ==
    /\ [](TypeOK /\ OneReviewPerEvidence)
    /\ [](FindingsDrawnFromPins /\ PinsAreASnapshot)
    /\ ClosedReviewsAreFinal

\* Without a store error or a crash, a Review of the whole evidence of a Run
\* that has published everything does close.
ReviewsOfWholeRunsClose ==
    \A r \in Reviews :
        (/\ r \in DOMAIN reviews
         /\ reviews[r].pins = [versions |-> Versions, execution |-> TRUE])
            ~> \/ faults > 0
               \/ r \in DOMAIN reviews /\ reviews[r].state \notin OpenReviewStates

\* reviewrun.py: "A Review that is opened and then cannot be completed is closed
\* `failed` with a non-secret reason, so it never sits `running` forever."
NoReviewSitsRunning ==
    \A r \in Reviews :
        (r \in DOMAIN reviews /\ reviews[r].state = "running")
            ~> (r \in DOMAIN reviews /\ reviews[r].state # "running")
=============================================================================
