------------------------ MODULE ReviewLifecycleProofs ------------------------
(***************************************************************************)
(* Proofs about ReviewLifecycle, for any Versions, callers, Reviews and any *)
(* number of store errors and crashes, about ArtifactReading, for any       *)
(* readers and writers, and about ReviewerRules, for any branches and any   *)
(* number of defects.                                                       *)
(***************************************************************************)
EXTENDS ReviewLifecycle, ArtifactReading, ReviewerRules, SequenceTheorems, TLAPS

(***************************************************************************)
(* The inductive invariant.                                                 *)
(***************************************************************************)

\* A Review is open in the hands of the request that inserted it.
Reviewing == {"opened", "recapture", "recapturing", "evaluated", "failing", "read_back"}

\* The pins were read in full.
Captured == Reviewing \cup {"captured", "unreviewed"}

\* A request read what the Run had published, and its execution afterwards; what
\* the rules read, they read later than what the Review pins.
SoundCall(call, named, ran, table) ==
    /\ call \in Call
    /\ call.pc \in Captured \cup {"capturing"} => call.pins.versions \subseteq named
    /\ call.pc \in Captured =>
          /\ call.pins.versions # {} => call.pins.execution
          /\ call.pins.execution => ran
    /\ call.pc \in Reviewing =>
          call.review \in DOMAIN table /\ table[call.review].pins = call.pins
    /\ call.pc \in {"recapturing", "evaluated"} =>
          call.pins.versions \subseteq call.seen.versions
    /\ call.pc = "evaluated" /\ call.pins.execution => call.seen.execution

CallsAreSound == \A c \in Callers : SoundCall(calls[c], published, claimed, reviews)

PublishedByAnExecution == published # {} => claimed

TablesTyped ==
    /\ DOMAIN reviews \subseteq Reviews
    /\ reviews \in [DOMAIN reviews -> ReviewRecord]
    /\ DOMAIN findings \subseteq DOMAIN reviews
    /\ findings \in [DOMAIN findings -> Evidence]

TablesInv ==
    /\ TablesTyped
    /\ OneReviewPerEvidence
    /\ FindingsDrawnFromPins
    /\ PinsAreASnapshot

RunTyped ==
    /\ claimed \in BOOLEAN
    /\ published \subseteq Versions
    /\ archived \in BOOLEAN
    /\ faults \in 0..MaxFaults

ReviewInv ==
    /\ RunTyped
    /\ calls \in [Callers -> Call]
    /\ PublishedByAnExecution
    /\ CallsAreSound
    /\ TablesInv

(***************************************************************************)
(* What a step leaves as it was.                                            *)
(***************************************************************************)

\* A table that grew or changed states, never pins.
KeepsPins(table, later) ==
    \A r \in DOMAIN table : r \in DOMAIN later /\ later[r].pins = table[r].pins

LEMMA SoundCallPersists ==
  ASSUME NEW call, NEW named, NEW ran, NEW table, NEW more, NEW runs, NEW later,
         SoundCall(call, named, ran, table),
         named \subseteq more, ran => runs, KeepsPins(table, later)
  PROVE  SoundCall(call, more, runs, later)
BY DEF SoundCall, KeepsPins

LEMMA IdleIsSound ==
  ASSUME NEW named, NEW ran, NEW table
  PROVE  SoundCall(Idle, named, ran, table)
<1>1. Idle \in Call BY DEF Idle, Call, Evidence, NoEvidence
<1>2. Idle.pc = "idle" BY DEF Idle
<1> QED BY <1>1, <1>2 DEF SoundCall, Captured, Reviewing

\* A step of one request that leaves the Run alone.
Proceeds(c, call) ==
    /\ calls' = [calls EXCEPT ![c] = call]
    /\ SoundCall(call, published, claimed, reviews')
    /\ KeepsPins(reviews, reviews')
    /\ UNCHANGED runVars
    /\ faults' \in 0..MaxFaults

LEMMA ProceedsKeepsInv ==
  ASSUME ReviewInv, NEW c \in Callers, NEW call, Proceeds(c, call), TablesInv'
  PROVE  ReviewInv'
<1>1. /\ calls \in [Callers -> Call] /\ call \in Call
      /\ \A d \in Callers : SoundCall(calls[d], published, claimed, reviews)
  BY DEF ReviewInv, CallsAreSound, Proceeds, SoundCall
<1>2. calls' \in [Callers -> Call] BY <1>1 DEF Proceeds
<1>3. published' = published /\ claimed' = claimed /\ archived' = archived
  BY DEF Proceeds, runVars
<1>4. ASSUME NEW d \in Callers
      PROVE  SoundCall(calls'[d], published', claimed', reviews')
  <2>1. CASE d = c
    <3>1. calls'[d] = call BY <1>1, <2>1 DEF Proceeds
    <3> QED BY <1>3, <3>1 DEF Proceeds
  <2>2. CASE d # c
    <3>1. calls'[d] = calls[d] BY <1>1, <2>2 DEF Proceeds
    <3>2. SoundCall(calls[d], published, claimed, reviews') BY <1>1, SoundCallPersists DEF Proceeds
    <3> QED BY <1>3, <3>1, <3>2
  <2> QED BY <2>1, <2>2
<1>5. CallsAreSound' BY <1>4 DEF CallsAreSound
<1>6. RunTyped' /\ PublishedByAnExecution'
  BY <1>3 DEF Proceeds, ReviewInv, RunTyped, PublishedByAnExecution
<1> QED BY <1>2, <1>5, <1>6 DEF ReviewInv

\* The tables stay as they are.
LEMMA TablesStay ==
  ASSUME TablesInv, UNCHANGED <<reviews, findings>>
  PROVE  TablesInv' /\ KeepsPins(reviews, reviews')
BY DEF TablesInv, TablesTyped, OneReviewPerEvidence, FindingsDrawnFromPins, PinsAreASnapshot,
       KeepsPins

\* A request is over.
LEMMA AnswerIsSound ==
  ASSUME ReviewInv, NEW c \in Callers,
         NEW what \in {"none", "review", "no_pinned_evidence", "project_archived",
                       "store_unavailable"},
         Answer(c, what), KeepsPins(reviews, reviews'), UNCHANGED runVars,
         faults' \in 0..MaxFaults
  PROVE  \E call : Proceeds(c, call)
<1> DEFINE call == [calls[c] EXCEPT !.pc = "answered", !.answer = what]
           mid == [calls[c] EXCEPT !.pc = "answered"]
<1>1. calls[c] \in Call BY DEF ReviewInv
<1>2. mid \in Call BY <1>1 DEF Call
<1>3. call = [mid EXCEPT !.answer = what] BY <1>1 DEF Call
<1>4. \A m \in Call : [m EXCEPT !.answer = what] \in Call BY DEF Call
<1>5. call \in Call /\ call.pc = "answered" BY <1>1, <1>2, <1>3, <1>4 DEF Call
<1>6. calls' = [calls EXCEPT ![c] = call] BY DEF Answer
<1> HIDE DEF call
<1>7. SoundCall(call, published, claimed, reviews')
  BY <1>5 DEF SoundCall, Captured, Reviewing
<1> QED BY <1>6, <1>7 DEF Proceeds

(***************************************************************************)
(* Steps that read.                                                         *)
(***************************************************************************)

LEMMA FaultsStay == ReviewInv /\ UNCHANGED faults => faults' \in 0..MaxFaults
BY DEF ReviewInv, RunTyped

LEMMA CaptureSteps ==
  ASSUME ReviewInv, NEW c \in Callers, CaptureOutputs(c) \/ CaptureExecution(c) \/ LookUp(c)
  PROVE  ReviewInv'
<1>1. UNCHANGED <<claimed, published, archived, reviews, findings, faults>>
  BY DEF CaptureOutputs, CaptureExecution, LookUp, runVars
<1>2. TablesInv' /\ KeepsPins(reviews, reviews') BY <1>1, TablesStay DEF ReviewInv
<1>3. calls[c] \in Call /\ SoundCall(calls[c], published, claimed, reviews)
  BY DEF ReviewInv, CallsAreSound
<1>4. UNCHANGED runVars /\ faults' \in 0..MaxFaults /\ reviews' = reviews
  BY <1>1, FaultsStay DEF runVars
<1>5. published \subseteq Versions /\ claimed \in BOOLEAN /\ (published # {} => claimed)
  BY DEF ReviewInv, RunTyped, PublishedByAnExecution
<1>6. CASE \E what \in {"review", "no_pinned_evidence"} : Answer(c, what)
  BY <1>2, <1>4, <1>6, AnswerIsSound, ProceedsKeepsInv
<1>7. CASE CaptureOutputs(c)
  <2> DEFINE pins == [versions |-> published, execution |-> FALSE]
             mid == [calls[c] EXCEPT !.pc = "capturing"]
             call == [calls[c] EXCEPT !.pc = "capturing", !.pins = pins]
  <2>1. pins \in Evidence /\ pins.versions = published BY <1>5 DEF Evidence
  <2>2. calls' = [calls EXCEPT ![c] = call] BY <1>7 DEF CaptureOutputs
  <2> HIDE DEF pins
  <2>3. mid \in Call BY <1>3 DEF Call
  <2>4. call = [mid EXCEPT !.pins = pins] BY <1>3 DEF Call
  <2>5. \A m \in Call : [m EXCEPT !.pins = pins] \in Call BY <2>1 DEF Call
  <2>6. call \in Call /\ call.pc = "capturing" /\ call.pins = pins
    BY <1>3, <2>3, <2>4, <2>5 DEF Call
  <2> HIDE DEF call
  <2>7. SoundCall(call, published, claimed, reviews')
    BY <2>1, <2>6 DEF SoundCall, Captured, Reviewing
  <2> QED BY <1>2, <1>4, <2>2, <2>7, ProceedsKeepsInv DEF Proceeds
<1>8. CASE /\ CaptureExecution(c)
           /\ calls' = [calls EXCEPT ![c].pc = "captured", ![c].pins.execution = claimed]
  <2> DEFINE pins == [calls[c].pins EXCEPT !.execution = claimed]
             mid == [calls[c] EXCEPT !.pc = "captured"]
             call == [calls[c] EXCEPT !.pc = "captured", !.pins = pins]
  <2>1. calls[c].pins \in Evidence BY <1>3 DEF Call
  <2>2. /\ pins \in Evidence /\ pins.versions = calls[c].pins.versions
        /\ pins.execution = claimed
    BY <1>5, <2>1 DEF Evidence
  <2>3. calls' = [calls EXCEPT ![c] = call] BY <1>3, <1>8 DEF Call
  <2> HIDE DEF pins
  <2>4. mid \in Call BY <1>3 DEF Call
  <2>5. call = [mid EXCEPT !.pins = pins] BY <1>3 DEF Call
  <2>6. \A m \in Call : [m EXCEPT !.pins = pins] \in Call BY <2>2 DEF Call
  <2>7. call \in Call /\ call.pc = "captured" /\ call.pins = pins
    BY <1>3, <2>4, <2>5, <2>6 DEF Call
  <2>8. calls[c].pc = "capturing" BY <1>8 DEF CaptureExecution
  <2>9. calls[c].pins.versions \subseteq published BY <1>3, <2>8 DEF SoundCall
  <2> HIDE DEF call
  <2>10. SoundCall(call, published, claimed, reviews')
    BY <1>5, <2>2, <2>7, <2>9 DEF SoundCall, Captured, Reviewing
  <2> QED BY <1>2, <1>4, <2>3, <2>10, ProceedsKeepsInv DEF Proceeds
<1>9. CASE LookUp(c) /\ calls' = [calls EXCEPT ![c].pc = "unreviewed"]
  <2> DEFINE call == [calls[c] EXCEPT !.pc = "unreviewed"]
  <2>1. calls[c].pc = "captured" BY <1>9 DEF LookUp
  <2>2. call \in Call /\ call.pc = "unreviewed" /\ call.pins = calls[c].pins
    BY <1>3 DEF Call
  <2>3. calls' = [calls EXCEPT ![c] = call] BY <1>9
  <2> HIDE DEF call
  <2>4. SoundCall(call, published, claimed, reviews')
    BY <1>3, <1>4, <2>1, <2>2 DEF SoundCall, Captured, Reviewing
  <2> QED BY <1>2, <1>4, <2>3, <2>4, ProceedsKeepsInv DEF Proceeds
<1> QED BY <1>6, <1>7, <1>8, <1>9 DEF CaptureExecution, LookUp

LEMMA RecaptureSteps ==
  ASSUME ReviewInv, NEW c \in Callers,
         RecaptureOutputs(c) \/ RecaptureExecution(c) \/ ReadBack(c) \/ Respond(c)
  PROVE  ReviewInv'
<1>1. UNCHANGED <<claimed, published, archived, reviews, findings, faults>>
  BY DEF RecaptureOutputs, RecaptureExecution, ReadBack, Respond, runVars
<1>2. TablesInv' /\ KeepsPins(reviews, reviews') BY <1>1, TablesStay DEF ReviewInv
<1>3. calls[c] \in Call /\ SoundCall(calls[c], published, claimed, reviews)
  BY DEF ReviewInv, CallsAreSound
<1>4. UNCHANGED runVars /\ faults' \in 0..MaxFaults /\ reviews' = reviews
  BY <1>1, FaultsStay DEF runVars
<1>5. published \subseteq Versions /\ claimed \in BOOLEAN
  BY DEF ReviewInv, RunTyped
<1>6. CASE ReadBack(c)
  <2>1. Answer(c, "review") BY <1>6 DEF ReadBack
  <2> QED BY <1>2, <1>4, <2>1, AnswerIsSound, ProceedsKeepsInv
<1>7. CASE Respond(c)
  <2>1. calls' = [calls EXCEPT ![c] = Idle] BY <1>7 DEF Respond
  <2> QED BY <1>2, <1>4, <2>1, IdleIsSound, ProceedsKeepsInv DEF Proceeds
<1>8. CASE RecaptureOutputs(c)
  <2> DEFINE seen == [versions |-> published, execution |-> FALSE]
             mid == [calls[c] EXCEPT !.pc = "recapturing"]
             call == [calls[c] EXCEPT !.pc = "recapturing", !.seen = seen]
  <2>1. seen \in Evidence /\ seen.versions = published BY <1>5 DEF Evidence
  <2>2. calls' = [calls EXCEPT ![c] = call] BY <1>8 DEF RecaptureOutputs
  <2> HIDE DEF seen
  <2>3. mid \in Call BY <1>3 DEF Call
  <2>4. call = [mid EXCEPT !.seen = seen] BY <1>3 DEF Call
  <2>5. \A m \in Call : [m EXCEPT !.seen = seen] \in Call BY <2>1 DEF Call
  <2>6. /\ call \in Call /\ call.pc = "recapturing" /\ call.seen = seen
        /\ call.pins = calls[c].pins /\ call.review = calls[c].review
    BY <1>3, <2>3, <2>4, <2>5 DEF Call
  <2>7. calls[c].pc = "recapture" BY <1>8 DEF RecaptureOutputs
  <2> HIDE DEF call
  <2>8. SoundCall(call, published, claimed, reviews')
    BY <1>3, <1>4, <2>1, <2>6, <2>7 DEF SoundCall, Captured, Reviewing
  <2> QED BY <1>2, <1>4, <2>2, <2>8, ProceedsKeepsInv DEF Proceeds
<1>9. CASE RecaptureExecution(c)
  <2> DEFINE seen == [calls[c].seen EXCEPT !.execution = claimed]
             mid == [calls[c] EXCEPT !.pc = "evaluated"]
             call == [calls[c] EXCEPT !.pc = "evaluated", !.seen = seen]
  <2>1. calls[c].seen \in Evidence BY <1>3 DEF Call
  <2>2. /\ seen \in Evidence /\ seen.versions = calls[c].seen.versions
        /\ seen.execution = claimed
    BY <1>5, <2>1 DEF Evidence
  <2>3. calls' = [calls EXCEPT ![c] = call] BY <1>3, <1>9 DEF Call, RecaptureExecution
  <2> HIDE DEF seen
  <2>4. mid \in Call BY <1>3 DEF Call
  <2>5. call = [mid EXCEPT !.seen = seen] BY <1>3 DEF Call
  <2>6. \A m \in Call : [m EXCEPT !.seen = seen] \in Call BY <2>2 DEF Call
  <2>7. /\ call \in Call /\ call.pc = "evaluated" /\ call.seen = seen
        /\ call.pins = calls[c].pins /\ call.review = calls[c].review
    BY <1>3, <2>4, <2>5, <2>6 DEF Call
  <2>8. calls[c].pc = "recapturing" BY <1>9 DEF RecaptureExecution
  <2> HIDE DEF call
  <2>9. SoundCall(call, published, claimed, reviews')
    BY <1>3, <1>4, <2>2, <2>7, <2>8 DEF SoundCall, Captured, Reviewing
  <2> QED BY <1>2, <1>4, <2>3, <2>9, ProceedsKeepsInv DEF Proceeds
<1> QED BY <1>6, <1>7, <1>8, <1>9

LEMMA StoreErrorStep ==
  ASSUME ReviewAssumption, ReviewInv, NEW c \in Callers, StoreError(c)
  PROVE  ReviewInv'
<1>1. UNCHANGED <<claimed, published, archived, reviews, findings>>
  BY DEF StoreError, runVars
<1>2. TablesInv' /\ KeepsPins(reviews, reviews') BY <1>1, TablesStay DEF ReviewInv
<1>3. calls[c] \in Call /\ SoundCall(calls[c], published, claimed, reviews)
  BY DEF ReviewInv, CallsAreSound
<1>4. UNCHANGED runVars /\ reviews' = reviews /\ faults' \in 0..MaxFaults
  BY <1>1 DEF runVars, StoreError, ReviewInv, RunTyped, ReviewAssumption
<1>5. CASE Answer(c, "store_unavailable")
  BY <1>2, <1>4, <1>5, AnswerIsSound, ProceedsKeepsInv
<1>6. CASE /\ calls[c].pc \in {"recapture", "recapturing", "evaluated"}
           /\ calls' = [calls EXCEPT ![c].pc = "failing"]
  <2> DEFINE call == [calls[c] EXCEPT !.pc = "failing"]
  <2>1. /\ call \in Call /\ call.pc = "failing"
        /\ call.pins = calls[c].pins /\ call.review = calls[c].review
    BY <1>3 DEF Call
  <2>2. calls' = [calls EXCEPT ![c] = call] BY <1>6
  <2> HIDE DEF call
  <2>3. SoundCall(call, published, claimed, reviews')
    BY <1>3, <1>4, <1>6, <2>1 DEF SoundCall, Captured, Reviewing
  <2> QED BY <1>2, <1>4, <2>2, <2>3, ProceedsKeepsInv DEF Proceeds
<1> QED BY <1>5, <1>6 DEF StoreError

(***************************************************************************)
(* Steps that write the tables.                                             *)
(***************************************************************************)

\* A fresh Review of evidence no Review has.
LEMMA InsertKeepsTables ==
  ASSUME TablesInv, NEW r \in Reviews, r \notin DOMAIN reviews, NEW pins \in Evidence,
         pins.versions # {} => pins.execution,
         ReviewOf(pins) = {},
         reviews' = InsertReview(reviews, r,
                        [pins |-> pins, state |-> "queued", submitted |-> FALSE]),
         UNCHANGED findings
  PROVE  /\ TablesInv' /\ KeepsPins(reviews, reviews')
         /\ r \in DOMAIN reviews' /\ reviews'[r].pins = pins
<1> DEFINE row == [pins |-> pins, state |-> "queued", submitted |-> FALSE]
<1>1. /\ row \in ReviewRecord /\ row.pins = pins
      /\ row.state # "completed" /\ row.submitted = FALSE
  BY DEF ReviewRecord, ReviewState
<1>2. reviews' = InsertReview(reviews, r, row) OBVIOUS
<1> HIDE DEF row
<1>3. /\ DOMAIN reviews' = DOMAIN reviews \cup {r}
      /\ reviews'[r] = row
      /\ \A k \in DOMAIN reviews : reviews'[k] = reviews[k]
  BY <1>2 DEF InsertReview
<1>4. reviews' \in [DOMAIN reviews' -> ReviewRecord]
  BY <1>1, <1>2, <1>3 DEF TablesInv, TablesTyped, InsertReview
<1>5. TablesTyped' BY <1>3, <1>4 DEF TablesInv, TablesTyped
<1>6. \A k \in DOMAIN reviews : reviews[k].pins # pins BY DEF ReviewOf
<1>7. OneReviewPerEvidence'
  <2> SUFFICES ASSUME NEW k \in DOMAIN reviews', NEW m \in DOMAIN reviews',
                      reviews'[k].pins = reviews'[m].pins
               PROVE  k = m
    BY DEF OneReviewPerEvidence
  <2> QED BY <1>1, <1>3, <1>6 DEF TablesInv, OneReviewPerEvidence
<1>8. r \notin DOMAIN findings BY DEF TablesInv, TablesTyped
<1>9. FindingsDrawnFromPins'
  <2> SUFFICES ASSUME NEW k \in DOMAIN reviews'
               PROVE  /\ k \in DOMAIN findings <=> reviews'[k].state = "completed"
                      /\ reviews'[k].submitted <=> reviews'[k].state = "completed"
                      /\ k \in DOMAIN findings => findings[k] = reviews'[k].pins
    BY DEF FindingsDrawnFromPins
  <2>1. CASE k = r BY <1>1, <1>3, <1>8, <2>1
  <2>2. CASE k # r BY <1>3, <2>2 DEF TablesInv, FindingsDrawnFromPins
  <2> QED BY <2>1, <2>2
<1>10. PinsAreASnapshot' BY <1>1, <1>3 DEF TablesInv, PinsAreASnapshot
<1> QED BY <1>1, <1>3, <1>5, <1>7, <1>9, <1>10 DEF TablesInv, KeepsPins

\* A Review that is not completed comes to another state but that one.
LEMMA StateKeepsTables ==
  ASSUME TablesInv, NEW r \in DOMAIN reviews, NEW state \in ReviewState \ {"completed"},
         reviews[r].state # "completed",
         reviews' = [reviews EXCEPT ![r].state = state],
         UNCHANGED findings
  PROVE  TablesInv' /\ KeepsPins(reviews, reviews')
<1> DEFINE row == [reviews[r] EXCEPT !.state = state]
<1>1. reviews \in [DOMAIN reviews -> ReviewRecord] BY DEF TablesInv, TablesTyped
<1>2. /\ row \in ReviewRecord /\ row.pins = reviews[r].pins
      /\ row.state = state /\ row.submitted = reviews[r].submitted
  BY <1>1 DEF ReviewRecord
<1>3. reviews' = [reviews EXCEPT ![r] = row] OBVIOUS
<1> HIDE DEF row
<1>4. /\ DOMAIN reviews' = DOMAIN reviews
      /\ reviews'[r] = row
      /\ \A k \in DOMAIN reviews \ {r} : reviews'[k] = reviews[k]
      /\ reviews' \in [DOMAIN reviews' -> ReviewRecord]
  BY <1>1, <1>2, <1>3
<1>5. TablesTyped' BY <1>4 DEF TablesInv, TablesTyped
<1>6. \A k \in DOMAIN reviews : reviews'[k].pins = reviews[k].pins BY <1>2, <1>4
<1>7. OneReviewPerEvidence' BY <1>4, <1>6 DEF TablesInv, OneReviewPerEvidence
<1>8. FindingsDrawnFromPins' BY <1>2, <1>4 DEF TablesInv, FindingsDrawnFromPins
<1>9. PinsAreASnapshot' BY <1>4, <1>6 DEF TablesInv, PinsAreASnapshot
<1> QED BY <1>4, <1>5, <1>6, <1>7, <1>8, <1>9 DEF TablesInv, KeepsPins

\* A running Review is completed with findings drawn from its pins.
LEMMA SubmitKeepsTables ==
  ASSUME TablesInv, NEW r \in DOMAIN reviews,
         reviews[r].state = "running", ~reviews[r].submitted,
         reviews' = [reviews EXCEPT ![r].state = "completed", ![r].submitted = TRUE],
         findings' = InsertReview(findings, r, reviews[r].pins)
  PROVE  TablesInv' /\ KeepsPins(reviews, reviews')
<1> DEFINE mid == [reviews[r] EXCEPT !.state = "completed"]
           row == [reviews[r] EXCEPT !.state = "completed", !.submitted = TRUE]
<1>1. reviews \in [DOMAIN reviews -> ReviewRecord] /\ reviews[r].pins \in Evidence
  BY DEF TablesInv, TablesTyped, ReviewRecord
<1>2. mid \in ReviewRecord BY <1>1 DEF ReviewRecord, ReviewState
<1>3. row = [mid EXCEPT !.submitted = TRUE] BY <1>1 DEF ReviewRecord
<1>4. \A m \in ReviewRecord : [m EXCEPT !.submitted = TRUE] \in ReviewRecord
  BY DEF ReviewRecord
<1>5. /\ row \in ReviewRecord /\ row.pins = reviews[r].pins
      /\ row.state = "completed" /\ row.submitted = TRUE
  BY <1>1, <1>2, <1>3, <1>4 DEF ReviewRecord
<1>6. reviews' = [reviews EXCEPT ![r] = row] OBVIOUS
<1> HIDE DEF row
<1>7. /\ DOMAIN reviews' = DOMAIN reviews
      /\ reviews'[r] = row
      /\ \A k \in DOMAIN reviews \ {r} : reviews'[k] = reviews[k]
      /\ reviews' \in [DOMAIN reviews' -> ReviewRecord]
  BY <1>1, <1>5, <1>6
<1>8. /\ DOMAIN findings' = DOMAIN findings \cup {r}
      /\ findings'[r] = reviews[r].pins
      /\ \A k \in DOMAIN findings \ {r} : findings'[k] = findings[k]
  BY DEF InsertReview
<1>9. findings' \in [DOMAIN findings' -> Evidence]
  BY <1>1, <1>8 DEF TablesInv, TablesTyped, InsertReview
<1>10. TablesTyped' BY <1>7, <1>8, <1>9 DEF TablesInv, TablesTyped
<1>11. \A k \in DOMAIN reviews : reviews'[k].pins = reviews[k].pins BY <1>5, <1>7
<1>12. OneReviewPerEvidence' BY <1>7, <1>11 DEF TablesInv, OneReviewPerEvidence
<1>13. FindingsDrawnFromPins'
  BY <1>5, <1>7, <1>8 DEF TablesInv, FindingsDrawnFromPins
<1>14. PinsAreASnapshot' BY <1>7, <1>11 DEF TablesInv, PinsAreASnapshot
<1> QED BY <1>7, <1>10, <1>11, <1>12, <1>13, <1>14 DEF TablesInv, KeepsPins

LEMMA OpenReviewStep ==
  ASSUME ReviewInv, NEW c \in Callers, NEW r \in Reviews, OpenReview(c, r)
  PROVE  ReviewInv'
<1>1. /\ UNCHANGED <<claimed, published, archived, findings, faults>>
      /\ calls[c].pc = "unreviewed" /\ r \notin DOMAIN reviews
  BY DEF OpenReview, runVars
<1>2. calls[c] \in Call /\ SoundCall(calls[c], published, claimed, reviews) /\ TablesInv
  BY DEF ReviewInv, CallsAreSound
<1>3. UNCHANGED runVars /\ faults' \in 0..MaxFaults
  BY <1>1, FaultsStay DEF runVars
<1>4. CASE reviews' = reviews /\ \E what \in {"project_archived", "review"} : Answer(c, what)
  <2>1. TablesInv' /\ KeepsPins(reviews, reviews') BY <1>1, <1>2, <1>4, TablesStay
  <2> QED BY <1>3, <1>4, <2>1, AnswerIsSound, ProceedsKeepsInv
<1>5. CASE /\ ReviewOf(calls[c].pins) = {}
           /\ reviews' = InsertReview(reviews, r,
                 [pins |-> calls[c].pins, state |-> "queued", submitted |-> FALSE])
           /\ calls' = [calls EXCEPT ![c].pc = "opened", ![c].review = r]
  <2> DEFINE mid == [calls[c] EXCEPT !.pc = "opened"]
             call == [calls[c] EXCEPT !.pc = "opened", !.review = r]
  <2>1. calls' = [calls EXCEPT ![c] = call] BY <1>5
  <2>2. mid \in Call BY <1>2 DEF Call
  <2>3. call = [mid EXCEPT !.review = r] BY <1>2 DEF Call
  <2>4. \A m \in Call : [m EXCEPT !.review = r] \in Call BY DEF Call
  <2>5. /\ call \in Call /\ call.pc = "opened" /\ call.review = r
        /\ call.pins = calls[c].pins /\ calls[c].pins \in Evidence
    BY <1>2, <2>2, <2>3, <2>4 DEF Call
  <2>6. calls[c].pins.versions # {} => calls[c].pins.execution
    BY <1>1, <1>2 DEF SoundCall, Captured
  <2>7. /\ TablesInv' /\ KeepsPins(reviews, reviews')
        /\ r \in DOMAIN reviews' /\ reviews'[r].pins = calls[c].pins
    BY <1>1, <1>2, <1>5, <2>5, <2>6, InsertKeepsTables
  <2> HIDE DEF call
  <2>8. SoundCall(call, published, claimed, reviews')
    BY <1>1, <1>2, <2>5, <2>7 DEF SoundCall, Captured, Reviewing
  <2> QED BY <1>3, <2>1, <2>7, <2>8, ProceedsKeepsInv DEF Proceeds
<1> QED BY <1>4, <1>5 DEF OpenReview

\* A request that holds a Review holds a row.
LEMMA HeldReview ==
  ASSUME ReviewInv, NEW c \in Callers, calls[c].pc \in Reviewing
  PROVE  /\ calls[c].review \in DOMAIN reviews
         /\ reviews[calls[c].review].pins = calls[c].pins
         /\ reviews[calls[c].review] \in ReviewRecord
BY DEF ReviewInv, CallsAreSound, SoundCall, TablesInv, TablesTyped

LEMMA StartAndFailSteps ==
  ASSUME ReviewInv, NEW c \in Callers, StartReview(c) \/ FailReview(c)
  PROVE  ReviewInv'
<1> DEFINE r == calls[c].review
<1>1. /\ UNCHANGED <<claimed, published, archived, findings, faults>>
      /\ calls[c].pc \in {"opened", "failing"}
  BY DEF StartReview, FailReview, runVars
<1>2. calls[c] \in Call /\ SoundCall(calls[c], published, claimed, reviews) /\ TablesInv
  BY DEF ReviewInv, CallsAreSound
<1>3. UNCHANGED runVars /\ faults' \in 0..MaxFaults
  BY <1>1, FaultsStay DEF runVars
<1>4. r \in DOMAIN reviews BY <1>1, HeldReview DEF Reviewing
<1>5. TablesInv' /\ KeepsPins(reviews, reviews')
  <2>1. CASE reviews' = reviews BY <1>1, <1>2, <2>1, TablesStay
  <2>2. CASE /\ reviews[r].state \in OpenReviewStates
             /\ \E state \in {"running", "failed"} :
                   reviews' = [reviews EXCEPT ![r].state = state]
    <3>1. PICK state \in {"running", "failed"} : reviews' = [reviews EXCEPT ![r].state = state]
      BY <2>2
    <3>2. state \in ReviewState \ {"completed"} /\ reviews[r].state # "completed"
      BY <2>2 DEF ReviewState, OpenReviewStates
    <3> QED BY <1>1, <1>2, <1>4, <3>1, <3>2, StateKeepsTables
  <2> QED BY <2>1, <2>2 DEF StartReview, FailReview, OpenReviewStates
<1>6. CASE FailReview(c)
  <2>1. Answer(c, "store_unavailable") BY <1>6 DEF FailReview
  <2> QED BY <1>3, <1>5, <2>1, AnswerIsSound, ProceedsKeepsInv
<1>7. CASE StartReview(c)
  <2> DEFINE call == [calls[c] EXCEPT !.pc = "recapture"]
  <2>1. /\ call \in Call /\ call.pc = "recapture"
        /\ call.pins = calls[c].pins /\ call.review = calls[c].review
    BY <1>2 DEF Call
  <2>2. calls' = [calls EXCEPT ![c] = call] BY <1>7 DEF StartReview
  <2>3. SoundCall(calls[c], published, claimed, reviews')
    BY <1>2, <1>5, SoundCallPersists
  <2> HIDE DEF call
  <2>4. SoundCall(call, published, claimed, reviews')
    BY <1>1, <2>1, <2>3 DEF SoundCall, Captured, Reviewing
  <2> QED BY <1>3, <1>5, <2>2, <2>4, ProceedsKeepsInv DEF Proceeds
<1> QED BY <1>6, <1>7

LEMMA SubmitStep ==
  ASSUME ReviewInv, NEW c \in Callers, SubmitFindings(c)
  PROVE  ReviewInv'
<1> DEFINE r == calls[c].review
           accepted == /\ SubmissionWellFormed(reviews[r].pins, calls[c].seen)
                       /\ ~reviews[r].submitted
                       /\ reviews[r].state = "running"
<1>1. /\ UNCHANGED <<claimed, published, archived, faults>>
      /\ calls[c].pc = "evaluated"
      /\ calls' = [calls EXCEPT ![c].pc = "read_back"]
  BY DEF SubmitFindings, runVars
<1>2. calls[c] \in Call /\ SoundCall(calls[c], published, claimed, reviews) /\ TablesInv
  BY DEF ReviewInv, CallsAreSound
<1>3. UNCHANGED runVars /\ faults' \in 0..MaxFaults
  BY <1>1, FaultsStay DEF runVars
<1>4. r \in DOMAIN reviews /\ reviews[r].pins = calls[c].pins
  BY <1>1, HeldReview DEF Reviewing
<1>5. TablesInv' /\ KeepsPins(reviews, reviews')
  <2>1. CASE ~accepted
    BY <1>2, <2>1, TablesStay DEF SubmitFindings
  <2>2. CASE accepted
    <3> DEFINE pins == calls[c].pins
               seen == calls[c].seen
    <3>1. pins \in Evidence /\ seen \in Evidence BY <1>2 DEF Call
    <3>2. /\ pins.versions \subseteq seen.versions
          /\ pins.execution => seen.execution
      BY <1>1, <1>2 DEF SoundCall
    <3>3. seen.versions \subseteq pins.versions /\ (seen.execution => pins.execution)
      BY <1>4, <2>2 DEF SubmissionWellFormed
    <3>4. seen = pins
      <4>1. \A e \in Evidence : e = [versions |-> e.versions, execution |-> e.execution]
        BY DEF Evidence
      <4>2. seen.versions = pins.versions BY <3>2, <3>3
      <4>3. seen.execution = pins.execution BY <3>1, <3>2, <3>3 DEF Evidence
      <4> QED BY <3>1, <4>1, <4>2, <4>3
    <3>5. /\ reviews' = [reviews EXCEPT ![r].state = "completed", ![r].submitted = TRUE]
          /\ findings' = InsertReview(findings, r, reviews[r].pins)
      BY <1>4, <2>2, <3>4 DEF SubmitFindings
    <3> QED BY <1>2, <1>4, <2>2, <3>5, SubmitKeepsTables
  <2> QED BY <2>1, <2>2
<1>6. SoundCall(calls[c], published, claimed, reviews')
  BY <1>2, <1>5, SoundCallPersists
<1> DEFINE call == [calls[c] EXCEPT !.pc = "read_back"]
<1>7. /\ call \in Call /\ call.pc = "read_back"
      /\ call.pins = calls[c].pins /\ call.review = calls[c].review
  BY <1>2 DEF Call
<1>8. calls' = [calls EXCEPT ![c] = call] BY <1>1
<1> HIDE DEF call
<1>9. SoundCall(call, published, claimed, reviews')
  BY <1>1, <1>6, <1>7 DEF SoundCall, Captured, Reviewing
<1> QED BY <1>3, <1>5, <1>8, <1>9, ProceedsKeepsInv DEF Proceeds

(***************************************************************************)
(* The Run under review, and crashes.                                       *)
(***************************************************************************)

LEMMA RunSteps ==
  ASSUME ReviewInv,
         \/ ClaimExecution
         \/ \E v \in Versions : PublishOutput(v)
         \/ ArchiveProject
         \/ UNCHANGED reviewVars
  PROVE  ReviewInv'
<1>1. /\ UNCHANGED <<reviews, findings, calls, faults>>
      /\ published \subseteq published' /\ (claimed => claimed')
      /\ published' # {} => claimed'
      /\ RunTyped'
  BY DEF ClaimExecution, PublishOutput, ArchiveProject, reviewVars, ReviewInv, RunTyped,
         PublishedByAnExecution
<1>2. TablesInv' /\ KeepsPins(reviews, reviews') BY <1>1, TablesStay DEF ReviewInv
<1>3. \A c \in Callers : SoundCall(calls[c], published', claimed', reviews')
  BY <1>1, <1>2, SoundCallPersists DEF ReviewInv, CallsAreSound
<1> QED BY <1>1, <1>2, <1>3 DEF ReviewInv, CallsAreSound, PublishedByAnExecution

LEMMA CrashStep ==
  ASSUME ReviewAssumption, ReviewInv, Crash
  PROVE  ReviewInv'
<1>1. /\ UNCHANGED <<claimed, published, archived, reviews, findings>>
      /\ calls' = [c \in Callers |-> Idle]
      /\ faults' \in 0..MaxFaults
  BY DEF Crash, runVars, ReviewInv, RunTyped, ReviewAssumption
<1>2. TablesInv' BY <1>1, TablesStay DEF ReviewInv
<1>3. \A c \in Callers : SoundCall(calls'[c], published', claimed', reviews')
  BY <1>1, IdleIsSound
<1>4. calls' \in [Callers -> Call] BY <1>1, <1>3 DEF SoundCall
<1> QED BY <1>1, <1>2, <1>3, <1>4
        DEF ReviewInv, CallsAreSound, RunTyped, PublishedByAnExecution

(***************************************************************************)
(* The theorems.                                                            *)
(***************************************************************************)

LEMMA ReviewInit ==
  ASSUME ReviewAssumption, Init
  PROVE  ReviewInv
<1>1. DOMAIN reviews = {} /\ DOMAIN findings = {} BY DEF Init
<1>2. reviews \in [DOMAIN reviews -> ReviewRecord] /\ findings \in [DOMAIN findings -> Evidence]
  BY <1>1 DEF Init
<1>3. TablesInv
  BY <1>1, <1>2
     DEF TablesInv, TablesTyped, OneReviewPerEvidence, FindingsDrawnFromPins, PinsAreASnapshot
<1>4. \A c \in Callers : SoundCall(calls[c], published, claimed, reviews)
  BY IdleIsSound DEF Init
<1>5. calls \in [Callers -> Call] BY <1>4 DEF Init, SoundCall
<1>6. claimed \in BOOLEAN /\ archived \in BOOLEAN BY DEF Init
<1>7. published = {} /\ faults \in 0..MaxFaults BY DEF Init, ReviewAssumption
<1>8. RunTyped BY <1>6, <1>7 DEF RunTyped
<1>9. PublishedByAnExecution BY <1>7 DEF PublishedByAnExecution
<1> QED BY <1>3, <1>4, <1>5, <1>8, <1>9 DEF ReviewInv, CallsAreSound

LEMMA ReviewNext ==
  ASSUME ReviewAssumption, ReviewInv, [Next]_reviewVars
  PROVE  ReviewInv'
<1>1. ASSUME NEW c \in Callers, ReviewStep(c) PROVE ReviewInv'
  BY <1>1, CaptureSteps, OpenReviewStep, StartAndFailSteps, RecaptureSteps, SubmitStep
     DEF ReviewStep
<1>2. ASSUME NEW c \in Callers, Respond(c) PROVE ReviewInv'
  BY <1>2, RecaptureSteps
<1>3. ASSUME NEW c \in Callers, StoreError(c) PROVE ReviewInv'
  BY <1>3, StoreErrorStep
<1> QED BY <1>1, <1>2, <1>3, RunSteps, CrashStep DEF Next

\* At every moment the invariant holds.
THEOREM ReviewInvariant == ASSUME ReviewAssumption PROVE Spec => []ReviewInv
<1>1. Init => ReviewInv BY ReviewInit
<1>2. ReviewInv /\ [Next]_reviewVars => ReviewInv' BY ReviewNext
<1> QED BY <1>1, <1>2, PTL DEF Spec

\* No step changes a closed Review, the pins of any Review or stored findings.
THEOREM ClosedReviewsAreFinalAlways == ASSUME ReviewAssumption PROVE Spec => ClosedReviewsAreFinal
<1> DEFINE Kept == \A r \in DOMAIN reviews :
          /\ r \in DOMAIN reviews'
          /\ reviews'[r].pins = reviews[r].pins
          /\ reviews[r].state \notin OpenReviewStates => reviews'[r] = reviews[r]
          /\ r \in DOMAIN findings =>
                 r \in DOMAIN findings' /\ findings'[r] = findings[r]
<1>1. ASSUME UNCHANGED <<reviews, findings>> PROVE Kept
  BY <1>1
<1>2. ASSUME ReviewInv, NEW c \in Callers, StartReview(c) \/ FailReview(c) PROVE Kept
  <2> DEFINE r == calls[c].review
  <2>1. /\ reviews[r].state \in OpenReviewStates \/ reviews' = reviews
        /\ reviews' = reviews \/ \E state : reviews' = [reviews EXCEPT ![r].state = state]
        /\ UNCHANGED findings
    BY <1>2 DEF StartReview, FailReview, OpenReviewStates
  <2>2. reviews \in [DOMAIN reviews -> ReviewRecord] BY <1>2 DEF ReviewInv, TablesInv, TablesTyped
  <2>3. CASE \E state : reviews' = [reviews EXCEPT ![r].state = state]
    <3>1. PICK state : reviews' = [reviews EXCEPT ![r].state = state] BY <2>3
    <3>2. \A k \in DOMAIN reviews \ {r} : reviews'[k] = reviews[k] BY <2>2, <3>1
    <3>3. r \in DOMAIN reviews => reviews'[r] = [reviews[r] EXCEPT !.state = state]
      BY <2>2, <3>1
    <3>4. r \in DOMAIN reviews => reviews'[r].pins = reviews[r].pins
      BY <2>2, <3>3 DEF ReviewRecord
    <3>5. DOMAIN reviews' = DOMAIN reviews BY <3>1
    <3> QED BY <2>1, <3>2, <3>4, <3>5
  <2> QED BY <1>1, <2>1, <2>3
<1>3. ASSUME ReviewInv, NEW c \in Callers, SubmitFindings(c) PROVE Kept
  <2> DEFINE r == calls[c].review
  <2>1. \/ UNCHANGED <<reviews, findings>>
        \/ /\ reviews[r].state = "running"
           /\ reviews' = [reviews EXCEPT ![r].state = "completed", ![r].submitted = TRUE]
           /\ findings' = InsertReview(findings, r, calls[c].seen)
    BY <1>3 DEF SubmitFindings
  <2>2. reviews \in [DOMAIN reviews -> ReviewRecord] BY <1>3 DEF ReviewInv, TablesInv, TablesTyped
  <2>3. CASE /\ reviews[r].state = "running"
             /\ reviews' = [reviews EXCEPT ![r].state = "completed", ![r].submitted = TRUE]
             /\ findings' = InsertReview(findings, r, calls[c].seen)
    <3>1. \A k \in DOMAIN reviews \ {r} : reviews'[k] = reviews[k] BY <2>2, <2>3
    <3>2. r \in DOMAIN reviews => reviews'[r].pins = reviews[r].pins
      <4>1. r \in DOMAIN reviews =>
               reviews'[r] = [reviews[r] EXCEPT !.state = "completed", !.submitted = TRUE]
        BY <2>2, <2>3
      <4> QED BY <2>2, <4>1 DEF ReviewRecord
    <3>3. DOMAIN reviews' = DOMAIN reviews BY <2>3
    <3>4. r \in DOMAIN reviews => r \notin DOMAIN findings
      BY <1>3, <2>3 DEF ReviewInv, TablesInv, FindingsDrawnFromPins
    <3>5. /\ DOMAIN findings' = DOMAIN findings \cup {r}
          /\ \A k \in DOMAIN findings \ {r} : findings'[k] = findings[k]
      BY <2>3 DEF InsertReview
    <3> QED BY <2>3, <3>1, <3>2, <3>3, <3>4, <3>5 DEF OpenReviewStates
  <2> QED BY <1>1, <2>1, <2>3
<1>4. ASSUME ReviewInv, NEW c \in Callers, NEW r \in Reviews, OpenReview(c, r) PROVE Kept
  <2>1. \/ UNCHANGED <<reviews, findings>>
        \/ /\ r \notin DOMAIN reviews /\ UNCHANGED findings
           /\ \E row : reviews' = InsertReview(reviews, r, row)
    BY <1>4 DEF OpenReview
  <2> QED BY <1>1, <2>1 DEF InsertReview
<1>5. ASSUME ReviewInv, [Next]_reviewVars PROVE Kept
  <2>1. CASE \/ UNCHANGED <<reviews, findings>>
    BY <1>1, <2>1
  <2> QED
    BY <1>2, <1>3, <1>4, <1>5, <2>1
       DEF Next, ReviewStep, ClaimExecution, PublishOutput, ArchiveProject, StoreError, Crash,
           Respond, CaptureOutputs, CaptureExecution, LookUp, RecaptureOutputs,
           RecaptureExecution, ReadBack, reviewVars
<1>6. ReviewInv /\ [Next]_reviewVars => [Kept]_reviewVars BY <1>5
<1> QED BY <1>6, ReviewInvariant, PTL DEF Spec, ClosedReviewsAreFinal

\* What a Review says rests on what it pinned, for good.
THEOREM ReviewsRestOnPinsAlways == ASSUME ReviewAssumption PROVE Spec => ReviewsRestOnPins
<1>1. ReviewInv => TypeOK /\ OneReviewPerEvidence
  BY DEF ReviewInv, TypeOK, RunTyped, TablesInv, TablesTyped
<1>2. ReviewInv => FindingsDrawnFromPins /\ PinsAreASnapshot
  BY DEF ReviewInv, TablesInv
<1> QED BY <1>1, <1>2, ReviewInvariant, ClosedReviewsAreFinalAlways, PTL DEF ReviewsRestOnPins

(***************************************************************************)
(* Readers of histories and Runs.                                           *)
(***************************************************************************)

RunRow == [run : {"queued", "running"} \cup Terminal, execution : BOOLEAN,
           outputs : Nat, turns : Nat]

\* What the rows of a Run say of each other.
RunFits(row) ==
    /\ row \in RunRow
    /\ row.run \in {"running", "completed"} => row.execution = TRUE
    /\ row.run = "completed" => row.outputs = Outputs
    /\ row.outputs > 0 => row.execution = TRUE

\* A Run moves on: what ended stays, and nothing is taken back.
Later(row, new) ==
    /\ row.run \in Terminal => new.run = row.run /\ new.outputs = row.outputs
    /\ row.execution = TRUE => new.execution = TRUE
    /\ row.outputs <= new.outputs

\* After so many statements a reader knows a Run's execution, and its outputs.
KnowsExecution(kind, n) == n >= IF kind = "evidence" THEN 3 ELSE 2

KnowsOutputs(kind, n) == n >= IF kind = "evidence" THEN 2 ELSE 3

\* What a reader who made n statements knows of a Run whose rows are row now.
SeenFits(kind, n, seen, row) ==
    /\ n \in 0 .. Len(Program(kind))
    /\ n >= 1 =>
         /\ seen.run \in Terminal => row.run = seen.run
         /\ seen.run \in {"running", "completed"} => row.execution = TRUE
    /\ KnowsOutputs(kind, n) =>
         /\ seen.outputs <= row.outputs
         /\ seen.run \in Terminal => seen.outputs = row.outputs
    /\ KnowsExecution(kind, n) =>
         /\ seen.run \in {"running", "completed"} => seen.execution = TRUE
         /\ kind = "evidence" /\ seen.outputs > 0 => seen.execution = TRUE

View == [kind : {None, "projection", "evidence"}, of : SUBSET Runs,
         done : [Runs -> Nat], rows : [Runs -> RunRow]]

ViewFits(now, rows) ==
    /\ now \in View
    /\ \A r \in now.of : SeenFits(now.kind, now.done[r], now.rows[r], rows[r])

RunsInv ==
    /\ run \in [Runs -> RunRow] /\ \A r \in Runs : RunFits(run[r])
    /\ DOMAIN view = RunReaders
    /\ \A v \in RunReaders : ViewFits(view[v], run)

\* What was seen of a Run fits whatever it becomes.
LEMMA SeenStays ==
    ASSUME NEW kind, NEW n \in Nat, NEW seen \in RunRow, NEW row \in RunRow, NEW new \in RunRow,
           SeenFits(kind, n, seen, row), Later(row, new)
    PROVE  SeenFits(kind, n, seen, new)
  BY DEF SeenFits, Later, RunRow, KnowsOutputs

LEMMA RunsStep ==
    ASSUME RunsInv, UNCHANGED view, run' \in [Runs -> RunRow],
           \A r \in Runs : RunFits(run'[r]) /\ Later(run[r], run'[r])
    PROVE  RunsInv'
  <1> SUFFICES ASSUME NEW v \in RunReaders
               PROVE  ViewFits(view[v], run')
    BY DEF RunsInv
  <1>1. ViewFits(view[v], run)
    BY DEF RunsInv
  <1>2. ASSUME NEW r \in view[v].of
        PROVE  SeenFits(view[v].kind, view[v].done[r], view[v].rows[r], run'[r])
    <2>1. r \in Runs /\ view[v].rows[r] \in RunRow /\ view[v].done[r] \in Nat
      BY <1>1 DEF ViewFits, View
    <2> QED
      BY <1>1, <2>1, SeenStays DEF ViewFits, RunsInv
  <1> QED
    BY <1>1, <1>2 DEF ViewFits

\* A new row of one Run.
LEMMA WriteRunStep ==
    ASSUME RunsInv, NEW r \in Runs, NEW row \in RunRow, WriteRun(r, row),
           RunFits(row), Later(run[r], row)
    PROVE  RunsInv'
  <1>1. \A q \in Runs : run'[q] = IF q = r THEN row ELSE run[q]
    BY DEF WriteRun, RunsInv
  <1>2. \A q \in Runs : Later(run[q], run[q])
    BY DEF Later, RunsInv, RunRow
  <1>3. run' \in [Runs -> RunRow] /\ UNCHANGED view
    BY DEF WriteRun, RunsInv
  <1>4. \A q \in Runs : RunFits(run'[q]) /\ Later(run[q], run'[q])
    BY <1>1, <1>2 DEF RunsInv
  <1> QED
    BY <1>3, <1>4, RunsStep

LEMMA WritersKeepRuns ==
    ASSUME RunsInv, WriterNext
    PROVE  RunsInv'
  <1>1. ASSUME UNCHANGED <<run, view>> PROVE RunsInv'
    BY <1>1 DEF RunsInv
  <1>2. ASSUME NEW r \in Runs, StartRun(r) PROVE RunsInv'
    <2> DEFINE row == [run[r] EXCEPT !.run = "running", !.execution = TRUE]
    <2>0. run[r] \in RunRow /\ run[r].run = "queued"
      BY <1>2 DEF StartRun, RunsInv
    <2>1. row \in RunRow
      BY <2>0 DEF RunRow
    <2>2. row.run = "running" /\ row.execution = TRUE /\ row.outputs = run[r].outputs
      BY <2>0 DEF RunRow
    <2>3. RunFits(row)
      BY <2>1, <2>2 DEF RunFits
    <2>4. Later(run[r], row)
      BY <2>0, <2>2 DEF RunRow, Later, Terminal
    <2> QED
      BY <1>2, <2>1, <2>3, <2>4, WriteRunStep DEF StartRun
  <1>3. ASSUME NEW r \in Runs, AppendRunOutput(r) PROVE RunsInv'
    <2> DEFINE row == [run[r] EXCEPT !.outputs = @ + 1]
    <2>1. row \in RunRow /\ RunFits(row) /\ Later(run[r], row)
      BY <1>3 DEF AppendRunOutput, RunsInv, RunRow, RunFits, Later, Terminal
    <2> QED
      BY <1>3, <2>1, WriteRunStep DEF AppendRunOutput
  <1>4. ASSUME NEW r \in Runs, RecordRunTurn(r) PROVE RunsInv'
    <2> DEFINE row == [run[r] EXCEPT !.turns = @ + 1]
    <2>1. row \in RunRow /\ RunFits(row) /\ Later(run[r], row)
      BY <1>4 DEF RecordRunTurn, RunsInv, RunRow, RunFits, Later, Terminal
    <2> QED
      BY <1>4, <2>1, WriteRunStep DEF RecordRunTurn
  <1>5. ASSUME NEW r \in Runs, NEW state \in Terminal, FinishRun(r, state) PROVE RunsInv'
    <2> DEFINE row == [run[r] EXCEPT !.run = state]
    <2>1. row \in RunRow /\ RunFits(row) /\ Later(run[r], row)
      BY <1>5 DEF FinishRun, RunsInv, RunRow, RunFits, Later, Terminal
    <2> QED
      BY <1>5, <2>1, WriteRunStep DEF FinishRun
  <1> QED
    BY <1>1, <1>2, <1>3, <1>4, <1>5 DEF WriterNext, Archive, CreateArtifact, CommitVersion

\* One reader's new view.
LEMMA ViewStep ==
    ASSUME RunsInv, NEW v \in RunReaders, NEW new, UpdateView(v, new), ViewFits(new, run)
    PROVE  RunsInv'
  BY DEF RunsInv, UpdateView

\* A statement adds what the Run is at that moment.
LEMMA SelectFits ==
    ASSUME NEW kind \in {"projection", "evidence"}, NEW n \in Nat,
           NEW seen \in RunRow, NEW row \in RunRow,
           n < Len(Program(kind)), RunFits(row), SeenFits(kind, n, seen, row)
    PROVE  /\ [seen EXCEPT ![Program(kind)[n + 1]] = row[Program(kind)[n + 1]]] \in RunRow
           /\ SeenFits(kind, n + 1,
                [seen EXCEPT ![Program(kind)[n + 1]] = row[Program(kind)[n + 1]]], row)
  <1>1. CASE kind = "projection"
    <2>1. Program(kind) = <<"run", "execution", "outputs", "turns">> /\ Len(Program(kind)) = 4
      BY <1>1 DEF Program, ProjectionStatements
    <2>2. CASE n = 0
      BY <1>1, <2>1, <2>2 DEF SeenFits, RunFits, RunRow, KnowsExecution, KnowsOutputs, Terminal
    <2>3. CASE n = 1
      BY <1>1, <2>1, <2>3 DEF SeenFits, RunFits, RunRow, KnowsExecution, KnowsOutputs, Terminal
    <2>4. CASE n = 2
      BY <1>1, <2>1, <2>4 DEF SeenFits, RunFits, RunRow, KnowsExecution, KnowsOutputs, Terminal
    <2>5. CASE n = 3
      BY <1>1, <2>1, <2>5 DEF SeenFits, RunFits, RunRow, KnowsExecution, KnowsOutputs, Terminal
    <2> QED
      BY <2>1, <2>2, <2>3, <2>4, <2>5
  <1>2. CASE kind = "evidence"
    <2>1. Program(kind) = <<"run", "outputs", "execution">> /\ Len(Program(kind)) = 3
      BY <1>2 DEF Program, EvidenceStatements
    <2>2. CASE n = 0
      BY <1>2, <2>1, <2>2 DEF SeenFits, RunFits, RunRow, KnowsExecution, KnowsOutputs, Terminal
    <2>3. CASE n = 1
      BY <1>2, <2>1, <2>3 DEF SeenFits, RunFits, RunRow, KnowsExecution, KnowsOutputs, Terminal
    <2>4. CASE n = 2
      BY <1>2, <2>1, <2>4 DEF SeenFits, RunFits, RunRow, KnowsExecution, KnowsOutputs, Terminal
    <2> QED
      BY <2>1, <2>2, <2>3, <2>4
  <1> QED
    BY <1>1, <1>2

\* Statements of a reader, about some of its Runs.
LEMMA SelectKeepsRuns ==
    ASSUME RunsInv, NEW v \in RunReaders, NEW rs \in SUBSET view[v].of, Select(v, rs),
           view[v].kind \in {"projection", "evidence"},
           \A r \in rs : view[v].done[r] < Len(Program(view[v].kind))
    PROVE  RunsInv'
  <1> DEFINE now == view[v]
             field(r) == Program(now.kind)[now.done[r] + 1]
             seen(r) == [now.rows[r] EXCEPT ![field(r)] = run[r][field(r)]]
             done == [r \in Runs |-> IF r \in rs THEN now.done[r] + 1 ELSE now.done[r]]
             rows == [r \in Runs |-> IF r \in rs THEN seen(r) ELSE now.rows[r]]
             new == [now EXCEPT !.done = done, !.rows = rows]
  <1>1. now \in View /\ \A r \in now.of : SeenFits(now.kind, now.done[r], now.rows[r], run[r])
    BY DEF RunsInv, ViewFits
  <1>2. UpdateView(v, new)
    <2>1. now.done \in [Runs -> Nat] /\ now.rows \in [Runs -> RunRow]
      BY <1>1 DEF View
    <2> QED
      BY <2>1 DEF Select
  <1>3. \A r \in rs : seen(r) \in RunRow /\ SeenFits(now.kind, now.done[r] + 1, seen(r), run[r])
    <2> SUFFICES ASSUME NEW r \in rs
                 PROVE  seen(r) \in RunRow /\ SeenFits(now.kind, now.done[r] + 1, seen(r), run[r])
      OBVIOUS
    <2>1. /\ r \in Runs /\ now.done[r] \in Nat /\ now.rows[r] \in RunRow
          /\ run[r] \in RunRow /\ RunFits(run[r])
          /\ SeenFits(now.kind, now.done[r], now.rows[r], run[r])
      BY <1>1 DEF RunsInv, View
    <2> QED
      BY <2>1, SelectFits
  <1>4. done \in [Runs -> Nat] /\ rows \in [Runs -> RunRow]
    BY <1>1, <1>3 DEF View
  <1>5. /\ new \in View /\ new.kind = now.kind /\ new.of = now.of
        /\ new.done = done /\ new.rows = rows
    BY <1>1, <1>4 DEF View
  <1>6. \A r \in now.of : SeenFits(now.kind, done[r], rows[r], run[r])
    <2> SUFFICES ASSUME NEW r \in now.of PROVE SeenFits(now.kind, done[r], rows[r], run[r])
      OBVIOUS
    <2>1. r \in Runs
      BY <1>1 DEF View
    <2>2. CASE r \in rs
      BY <1>3, <2>1, <2>2
    <2>3. CASE r \notin rs
      BY <1>1, <2>1, <2>3
    <2> QED
      BY <2>2, <2>3
  <1>7. ViewFits(new, run)
    BY <1>5, <1>6 DEF ViewFits
  <1> HIDE DEF new
  <1> QED
    BY <1>2, <1>7, ViewStep

LEMMA StartedViewFits ==
    ASSUME NEW kind \in {"projection", "evidence"}, NEW rs \in SUBSET Runs,
           NEW rows \in [Runs -> RunRow]
    PROVE  ViewFits([NoView EXCEPT !.kind = kind, !.of = rs], rows)
  <1> DEFINE new == [NoView EXCEPT !.kind = kind, !.of = rs]
  <1>1. /\ new \in View /\ new.kind = kind /\ new.of = rs
        /\ new.done = [r \in Runs |-> 0] /\ new.rows = [r \in Runs |-> QueuedRow]
    BY DEF NoView, View, QueuedRow, RunRow
  <1>2. 0 \in 0 .. Len(Program(kind))
    BY DEF Program, EvidenceStatements, ProjectionStatements
  <1> QED
    BY <1>1, <1>2 DEF ViewFits, SeenFits, KnowsExecution, KnowsOutputs

LEMMA ViewersKeepRuns ==
    ASSUME RunsInv, ViewNext
    PROVE  RunsInv'
  <1> PICK v \in RunReaders :
        \/ \E rs \in SUBSET Runs : rs # {} /\ ReadRuns(v, rs)
        \/ \E r \in Runs : PinnedRunEvidence(v, r)
        \/ SelectAll(v)
        \/ \E r \in Runs : SelectOf(v, r)
    BY DEF ViewNext
  <1>1. view[v] \in View /\ run \in [Runs -> RunRow]
    BY DEF RunsInv, ViewFits
  <1>2. ASSUME NEW rs \in SUBSET Runs, ReadRuns(v, rs) PROVE RunsInv'
    BY <1>1, <1>2, StartedViewFits, ViewStep DEF ReadRuns
  <1>3. ASSUME NEW r \in Runs, PinnedRunEvidence(v, r) PROVE RunsInv'
    BY <1>1, <1>3, StartedViewFits, ViewStep DEF PinnedRunEvidence
  <1>4. Len(Program(view[v].kind)) \in {3, 4}
    BY DEF Program, EvidenceStatements, ProjectionStatements
  <1>5. ASSUME SelectAll(v) PROVE RunsInv'
    <2>1. view[v].kind \in {"projection", "evidence"}
      BY <1>1, <1>5 DEF SelectAll, View
    <2> QED
      BY <1>1, <1>4, <1>5, <2>1, SelectKeepsRuns DEF SelectAll
  <1>6. ASSUME NEW r \in Runs, SelectOf(v, r) PROVE RunsInv'
    <2>1. view[v].kind \in {"projection", "evidence"}
      BY <1>1, <1>6 DEF SelectOf, View
    <2>2. {r} \in SUBSET view[v].of /\ view[v].done[r] < Len(Program(view[v].kind))
      BY <1>4, <1>6 DEF SelectOf
    <2> QED
      BY <1>6, <2>1, <2>2, SelectKeepsRuns DEF SelectOf
  <1> QED
    BY <1>2, <1>3, <1>5, <1>6

\* What the answered have seen.
LEMMA RunsAreShownWhole ==
    ASSUME RunsInv
    PROVE  EndedRunsAreWhole /\ EvidenceIsBacked
  <1> SUFFICES ASSUME NEW v \in RunReaders, Answered(v), NEW r \in view[v].of
               PROVE  /\ Row(v, r, "run") \in Terminal => Row(v, r, "outputs") = run[r].outputs
                      /\ Row(v, r, "run") = "completed" => Row(v, r, "outputs") = Outputs
                      /\ Row(v, r, "run") \in {"running", "completed"} => Row(v, r, "execution")
                      /\ view[v].kind = "evidence" /\ Row(v, r, "outputs") > 0 =>
                           Row(v, r, "execution")
    BY DEF EndedRunsAreWhole, EvidenceIsBacked
  <1>1. /\ r \in Runs /\ RunFits(run[r]) /\ view[v].kind \in {"projection", "evidence"}
        /\ view[v].done[r] = Len(Program(view[v].kind))
        /\ SeenFits(view[v].kind, view[v].done[r], view[v].rows[r], run[r])
    BY DEF RunsInv, ViewFits, View, Answered
  <1>2. /\ view[v].done[r] >= 1 /\ KnowsOutputs(view[v].kind, view[v].done[r])
        /\ KnowsExecution(view[v].kind, view[v].done[r])
    <2>1. CASE view[v].kind = "evidence"
      BY <1>1, <2>1 DEF KnowsOutputs, KnowsExecution, Program, EvidenceStatements
    <2>2. CASE view[v].kind = "projection"
      BY <1>1, <2>2 DEF KnowsOutputs, KnowsExecution, Program, ProjectionStatements
    <2> QED
      BY <1>1, <2>1, <2>2
  <1>3. "completed" \in Terminal
    BY DEF Terminal
  <1> QED
    BY <1>1, <1>2, <1>3 DEF SeenFits, RunFits, Row

\* An Artifact's part of an answer, with count Versions of it in the store.
Entry == [artifact : Artifacts, before : Nat, versions : Seq(Nat)]

EntryFits(entry, count, closed) ==
    /\ \A n \in 1 .. Len(entry.versions) : entry.versions[n] = n
    /\ Len(entry.versions) <= count[entry.artifact]
    /\ Len(entry.versions) >= entry.before \/ closed

\* After k of the identifiers were looked up, all that are in the store by then
\* are in read, and the rest follow.
ReadingFits(now, k, count, closed) ==
    /\ \A i \in 1 .. Len(now.ids) : now.ids[i] = k + i
    /\ k + Len(now.ids) \in now.before .. count[Head(now.todo)]
    /\ Len(now.read) <= k
    /\ Len(now.read) = k \/ closed

Places == {"idle", "project_archived", "not_found", "artifacts", "record", "ids",
           "versions", "done"}

History == [pc : Places, all : BOOLEAN, todo : Seq(Artifacts), ids : Seq(Nat),
            before : Nat, read : Seq(Nat), answer : Seq(Entry)]

HistoryFits(now, count, closed) ==
    /\ now \in History
    /\ \A n \in 1 .. Len(now.read) : now.read[n] = n
    /\ now.pc \in {"ids", "versions"} =>
         now.todo # <<>> /\ now.before <= count[Head(now.todo)]
    /\ now.pc = "versions" => \E k \in Nat : ReadingFits(now, k, count, closed)
    /\ \A i \in 1 .. Len(now.answer) : EntryFits(now.answer[i], count, closed)

HistoriesInv ==
    /\ projectArchived \in BOOLEAN
    /\ created \in Seq(Artifacts)
    /\ versions \in [Artifacts -> Nat]
    /\ DOMAIN history = HistoryReaders
    /\ \A h \in HistoryReaders : HistoryFits(history[h], versions, projectArchived = TRUE)

\* What was read of the histories fits whatever is committed and archived.
LEMMA HistoryStays ==
    ASSUME NEW now, NEW count \in [Artifacts -> Nat], NEW more \in [Artifacts -> Nat],
           NEW closed \in BOOLEAN, NEW later \in BOOLEAN,
           HistoryFits(now, count, closed), closed => later,
           \A a \in Artifacts : count[a] <= more[a]
    PROVE  HistoryFits(now, more, later)
  <1>1. now \in History
    BY DEF HistoryFits
  <1>2. ASSUME NEW i \in 1 .. Len(now.answer)
        PROVE  EntryFits(now.answer[i], more, later)
    <2>1. now.answer[i] \in Entry /\ EntryFits(now.answer[i], count, closed)
      BY <1>1 DEF HistoryFits, History
    <2>2. Len(now.answer[i].versions) \in Nat
      BY <2>1 DEF Entry
    <2> QED
      BY <2>1, <2>2 DEF EntryFits, Entry
  <1>3. now.todo # <<>> => Head(now.todo) \in Artifacts
    BY <1>1 DEF History
  <1>4. Len(now.ids) \in Nat /\ Len(now.read) \in Nat /\ now.before \in Nat
    BY <1>1 DEF History
  <1>5. now.pc = "versions" => \E k \in Nat : ReadingFits(now, k, more, later)
    BY <1>3, <1>4 DEF HistoryFits, ReadingFits
  <1>6. now.pc \in {"ids", "versions"} =>
          now.todo # <<>> /\ now.before <= more[Head(now.todo)]
    BY <1>3, <1>4 DEF HistoryFits
  <1> QED
    BY <1>1, <1>2, <1>5, <1>6 DEF HistoryFits

LEMMA WritersKeepHistories ==
    ASSUME HistoriesInv, WriterNext
    PROVE  HistoriesInv'
  <1>1. UNCHANGED history
    BY DEF WriterNext, Archive, CreateArtifact, CommitVersion, StartRun, AppendRunOutput,
       RecordRunTurn, FinishRun, WriteRun
  <1>2. projectArchived' \in BOOLEAN /\ (projectArchived = TRUE => projectArchived' = TRUE)
    BY DEF HistoriesInv, WriterNext, Archive, CreateArtifact, CommitVersion, StartRun,
       AppendRunOutput, RecordRunTurn, FinishRun, WriteRun
  <1>3. created' \in Seq(Artifacts)
    <2>1. ASSUME NEW a \in Artifacts, CreateArtifact(a) PROVE created' \in Seq(Artifacts)
      BY <2>1, AppendProperties DEF HistoriesInv, CreateArtifact
    <2>2. (\A a \in Artifacts : ~CreateArtifact(a)) => UNCHANGED created
      BY DEF WriterNext, Archive, CommitVersion, StartRun, AppendRunOutput,
         RecordRunTurn, FinishRun, WriteRun
    <2> QED
      BY <2>1, <2>2 DEF HistoriesInv
  <1>4. versions' \in [Artifacts -> Nat] /\ \A a \in Artifacts : versions[a] <= versions'[a]
    <2>1. ASSUME NEW a \in Artifacts, CommitVersion(a)
          PROVE  versions' \in [Artifacts -> Nat] /\ \A b \in Artifacts : versions[b] <= versions'[b]
      BY <2>1 DEF HistoriesInv, CommitVersion
    <2>2. (\A a \in Artifacts : ~CommitVersion(a)) => UNCHANGED versions
      BY DEF WriterNext, Archive, CreateArtifact, StartRun, AppendRunOutput,
         RecordRunTurn, FinishRun, WriteRun
    <2>3. versions \in [Artifacts -> Nat]
      BY DEF HistoriesInv
    <2>4. \A a \in Artifacts : versions[a] <= versions[a]
      BY <2>3
    <2> QED
      BY <2>1, <2>2, <2>3, <2>4
  <1>5. \A h \in HistoryReaders : HistoryFits(history[h], versions', projectArchived' = TRUE)
    BY <1>2, <1>4, HistoryStays DEF HistoriesInv
  <1> QED
    BY <1>1, <1>2, <1>3, <1>4, <1>5 DEF HistoriesInv

\* One reader's new history.
LEMMA HistoryStep ==
    ASSUME HistoriesInv, NEW h \in HistoryReaders, NEW new, UpdateHistory(h, new),
           HistoryFits(new, versions, projectArchived = TRUE)
    PROVE  HistoriesInv'
  BY DEF HistoriesInv, UpdateHistory

LEMMA ReadersKeepHistories ==
    ASSUME HistoriesInv, HistoryNext
    PROVE  HistoriesInv'
  <1> PICK h \in HistoryReaders :
        \/ \E all \in BOOLEAN, a \in Artifacts : LiveProject(h, all, a)
        \/ ArtifactIds(h) \/ ReadArtifact(h) \/ ReadVersionIds(h) \/ ReadVersion(h)
    BY DEF HistoryNext
  <1> DEFINE now == history[h]
             closed == projectArchived = TRUE
  <1>1. now \in History /\ HistoryFits(now, versions, closed)
    BY DEF HistoriesInv, HistoryFits
  <1>2. NoHistory \in History
    BY DEF NoHistory, History, Places
  <1>3. ASSUME NEW why \in Places \ {"ids", "versions"}
        PROVE  HistoryFits([NoHistory EXCEPT !.pc = why], versions, closed)
    <2> DEFINE new == [NoHistory EXCEPT !.pc = why]
    <2>1. /\ new \in History /\ new.pc = why
          /\ new.read = <<>> /\ new.answer = <<>>
      BY <1>2 DEF NoHistory, History
    <2> QED
      BY <2>1 DEF HistoryFits
  <1>4. ASSUME NEW all \in BOOLEAN, NEW a \in Artifacts, LiveProject(h, all, a)
        PROVE  HistoriesInv'
    <2> DEFINE place == IF all THEN "artifacts" ELSE "record"
               new == [NoHistory EXCEPT !.pc = place, !.all = all, !.todo = <<a>>]
    <2>1. place \in {"artifacts", "record"} /\ <<a>> \in Seq(Artifacts)
      OBVIOUS
    <2> HIDE DEF place
    <2>2. /\ new \in History /\ new.pc = place
          /\ new.read = <<>> /\ new.answer = <<>>
      BY <1>2, <2>1 DEF NoHistory, History, Places
    <2> USE DEF place
    <2>3. HistoryFits(new, versions, closed)
      BY <2>1, <2>2 DEF HistoryFits
    <2>4. CASE projectArchived
      BY <1>3, <1>4, <2>4, HistoryStep DEF LiveProject, Refuse, Places
    <2>5. CASE ~projectArchived
      BY <1>4, <2>3, <2>5, HistoryStep DEF LiveProject
    <2> QED
      BY <2>4, <2>5
  <1>5. ASSUME ArtifactIds(h) PROVE HistoriesInv'
    <2> DEFINE new == [now EXCEPT !.todo = Reverse(created), !.pc = "record"]
    <2>1. Reverse(created) \in Seq(Artifacts)
      BY DEF Reverse, HistoriesInv
    <2>2. new \in History /\ new.pc = "record" /\ new.read = now.read /\ new.answer = now.answer
      BY <1>1, <2>1 DEF History, Places
    <2>3. HistoryFits(new, versions, closed)
      BY <1>1, <2>2 DEF HistoryFits
    <2> QED
      BY <1>5, <2>3, HistoryStep DEF ArtifactIds
  <1>6. ASSUME ReadArtifact(h) PROVE HistoriesInv'
    <2>1. ASSUME NEW new \in History, new.read = now.read, new.answer = now.answer,
                 new.pc \in {"done", "record"}
          PROVE  HistoryFits(new, versions, closed)
      BY <1>1, <2>1 DEF HistoryFits
    <2>2. CASE now.todo = <<>>
      <3> DEFINE new == [now EXCEPT !.pc = "done"]
      <3>1. new \in History /\ new.read = now.read /\ new.answer = now.answer /\ new.pc = "done"
        BY <1>1 DEF History, Places
      <3>2. HistoryFits(new, versions, closed)
        BY <2>1, <3>1
      <3> QED
        BY <1>6, <2>2, <3>2, HistoryStep DEF ReadArtifact
    <2>3. CASE now.todo # <<>>
      <3>1. Head(now.todo) \in Artifacts /\ Tail(now.todo) \in Seq(Artifacts)
        BY <1>1, <2>3 DEF History
      <3>2. versions[Head(now.todo)] \in Nat
        BY <3>1 DEF HistoriesInv
      <3> DEFINE new == [now EXCEPT !.pc = "ids", !.before = versions[Head(now.todo)]]
                 next == [now EXCEPT !.todo = Tail(@)]
      <3>3. /\ new \in History /\ new.read = now.read /\ new.answer = now.answer
            /\ new.pc = "ids" /\ new.todo = now.todo /\ new.before = versions[Head(now.todo)]
        BY <1>1, <3>2 DEF History, Places
      <3>4. HistoryFits(new, versions, closed)
        BY <1>1, <2>3, <3>2, <3>3 DEF HistoryFits
      <3>5. /\ next \in History /\ next.read = now.read /\ next.answer = now.answer
            /\ next.pc = now.pc
        BY <1>1, <3>1 DEF History
      <3>6. HistoryFits(next, versions, closed)
        BY <1>6, <2>1, <3>5 DEF ReadArtifact
      <3>7. HistoryFits([NoHistory EXCEPT !.pc = "not_found"], versions, closed)
        BY <1>3 DEF Places
      <3> QED
        BY <1>6, <2>3, <3>4, <3>6, <3>7, HistoryStep DEF ReadArtifact, Refuse
    <2> QED
      BY <2>2, <2>3
  <1>7. ASSUME ReadVersionIds(h) PROVE HistoriesInv'
    <2> DEFINE a == Head(now.todo)
               new == [now EXCEPT !.ids = VersionIds(a), !.pc = "versions", !.read = <<>>]
    <2>1. a \in Artifacts /\ now.before <= versions[a] /\ now.todo # <<>>
      BY <1>1, <1>7 DEF HistoryFits, History, ReadVersionIds
    <2>2. versions[a] \in Nat
      BY <2>1 DEF HistoriesInv
    <2>3. /\ VersionIds(a) \in Seq(Nat) /\ Len(VersionIds(a)) = versions[a]
          /\ \A i \in 1 .. Len(VersionIds(a)) : VersionIds(a)[i] = 0 + i
      BY <2>2 DEF VersionIds
    <2>4. /\ new \in History /\ new.pc = "versions" /\ new.read = <<>> /\ new.ids = VersionIds(a)
          /\ new.answer = now.answer /\ new.todo = now.todo /\ new.before = now.before
      <3> HIDE DEF a
      <3>1. <<>> \in Seq(Nat) /\ "versions" \in Places
        BY DEF Places
      <3> QED
        BY <1>1, <2>3, <3>1 DEF History
    <2>5. now.before \in Nat
      BY <1>1 DEF History
    <2>6. ReadingFits(new, 0, versions, closed)
      BY <2>1, <2>2, <2>3, <2>4, <2>5 DEF ReadingFits
    <2>7. HistoryFits(new, versions, closed)
      BY <1>1, <2>1, <2>4, <2>6 DEF HistoryFits
    <2> QED
      BY <1>7, <2>7, HistoryStep DEF ReadVersionIds
  <1>8. ASSUME ReadVersion(h) PROVE HistoriesInv'
    <2>1. PICK k \in Nat : ReadingFits(now, k, versions, closed)
      BY <1>1, <1>8 DEF HistoryFits, ReadVersion
    <2>2. /\ now.ids \in Seq(Nat) /\ now.read \in Seq(Nat) /\ now.before \in Nat
          /\ now.todo \in Seq(Artifacts) /\ now.todo # <<>> /\ now.pc = "versions"
          /\ now.answer \in Seq(Entry)
          /\ now.before <= versions[Head(now.todo)]
      BY <1>1, <1>8 DEF HistoryFits, History, ReadVersion
    <2>3. Head(now.todo) \in Artifacts /\ versions[Head(now.todo)] \in Nat
      BY <2>2 DEF HistoriesInv
    <2>4. CASE now.ids # <<>>
      <3> DEFINE read == IF projectArchived THEN now.read ELSE Append(now.read, Head(now.ids))
                 new == [now EXCEPT !.ids = Tail(@), !.read = read]
      <3>1. /\ Head(now.ids) = k + 1 /\ Tail(now.ids) \in Seq(Nat)
            /\ Len(Tail(now.ids)) = Len(now.ids) - 1 /\ Len(now.ids) \in Nat \ {0}
            /\ \A i \in 1 .. Len(Tail(now.ids)) : Tail(now.ids)[i] = (k + 1) + i
        BY <2>1, <2>2, <2>4 DEF ReadingFits
      <3>2. /\ read \in Seq(Nat) /\ \A n \in 1 .. Len(read) : read[n] = n
            /\ Len(read) <= k + 1 /\ (Len(read) = k + 1 \/ closed)
        <4>1. /\ \A n \in 1 .. Len(now.read) : now.read[n] = n
              /\ Len(now.read) <= k /\ (Len(now.read) = k \/ closed)
              /\ Len(now.read) \in Nat
          BY <1>1, <2>1, <2>2 DEF HistoryFits, ReadingFits
        <4>2. CASE projectArchived
          BY <2>2, <4>1, <4>2 DEF HistoriesInv
        <4>3. CASE ~projectArchived
          <5>1. Len(now.read) = k
            BY <4>1, <4>3
          <5>2. /\ read \in Seq(Nat) /\ Len(read) = k + 1 /\ read[k + 1] = k + 1
                /\ \A n \in 1 .. k : read[n] = now.read[n]
            BY <2>2, <3>1, <4>3, <5>1
          <5> QED
            BY <4>1, <5>1, <5>2
        <4> QED
          BY <4>2, <4>3
      <3>3. /\ new \in History /\ new.pc = "versions" /\ new.read = read
            /\ new.ids = Tail(now.ids) /\ new.answer = now.answer /\ new.todo = now.todo
            /\ new.before = now.before
        BY <1>1, <2>2, <3>1, <3>2 DEF History
      <3>4. ReadingFits(new, k + 1, versions, closed)
        BY <2>1, <2>2, <2>3, <3>1, <3>2, <3>3 DEF ReadingFits
      <3>5. HistoryFits(new, versions, closed)
        BY <1>1, <2>2, <3>2, <3>3, <3>4 DEF HistoryFits
      <3> QED
        BY <1>8, <2>4, <3>5, HistoryStep DEF ReadVersion
    <2>5. CASE now.ids = <<>>
      <3> DEFINE entry == [artifact |-> Head(now.todo), before |-> now.before,
                           versions |-> now.read]
                 new == [now EXCEPT !.answer = Append(@, entry), !.todo = Tail(@), !.pc = "record"]
      <3>1. entry \in Entry
        BY <2>2, <2>3 DEF Entry
      <3>2. EntryFits(entry, versions, closed)
        BY <1>1, <2>1, <2>2, <2>3, <2>5 DEF EntryFits, ReadingFits, HistoryFits
      <3>3. Append(now.answer, entry) \in Seq(Entry) /\ Tail(now.todo) \in Seq(Artifacts)
        BY <2>2, <3>1
      <3>4. /\ new \in History /\ new.pc = "record" /\ new.read = now.read
            /\ new.answer = Append(now.answer, entry)
        BY <1>1, <3>3 DEF History, Places
      <3>5. \A i \in 1 .. Len(new.answer) : EntryFits(new.answer[i], versions, closed)
        BY <1>1, <2>2, <3>1, <3>2, <3>4 DEF HistoryFits
      <3>6. HistoryFits(new, versions, closed)
        BY <1>1, <3>4, <3>5 DEF HistoryFits
      <3> QED
        BY <1>8, <2>5, <3>6, HistoryStep DEF ReadVersion
    <2> QED
      BY <2>4, <2>5
  <1> QED
    BY <1>4, <1>5, <1>6, <1>7, <1>8

\* What was read of the histories is what the answers hold.
LEMMA HistoriesAreShown ==
    ASSUME HistoriesInv
    PROVE  HistoriesArePrefixes
  <1> SUFFICES ASSUME NEW h \in HistoryReaders, NEW i \in DOMAIN history[h].answer
               PROVE  LET entry == history[h].answer[i] IN
                        /\ entry.versions = [n \in 1 .. Len(entry.versions) |-> n]
                        /\ Len(entry.versions) <= versions[entry.artifact]
                        /\ Len(entry.versions) >= entry.before \/ projectArchived
    BY DEF HistoriesArePrefixes
  <1>1. history[h].answer \in Seq(Entry) /\ HistoryFits(history[h], versions, projectArchived = TRUE)
    BY DEF HistoriesInv, HistoryFits, History
  <1>2. history[h].answer[i] \in Entry /\ EntryFits(history[h].answer[i], versions, projectArchived = TRUE)
    BY <1>1 DEF HistoryFits
  <1>3. history[h].answer[i].versions =
          [n \in 1 .. Len(history[h].answer[i].versions) |-> n]
    <2> DEFINE s == history[h].answer[i].versions
    <2>1. s \in Seq(Nat) /\ \A n \in 1 .. Len(s) : s[n] = n
      BY <1>2 DEF EntryFits, Entry
    <2> HIDE DEF s
    <2>2. s = [n \in 1 .. Len(s) |-> n]
      BY <2>1
    <2> QED
      BY <2>2 DEF s
  <1> QED
    BY <1>2, <1>3 DEF EntryFits

ReadingInv == RunsInv /\ HistoriesInv

\* The readers of the API, several statements each: however the writers get
\* between them, the history of an Artifact is a gapless prefix of its Versions, an
\* ended Run is shown whole, and a Reviewer gets no outputs without the execution
\* that pins their inputs.  (apiquery.py, runsurface.py, pinned_run_evidence.)
THEOREM ReadsAreConsistentAlways ==
    ASSUME ReadingAssumption
    PROVE  ReadingSpec => []ReadsAreConsistent
  <1>1. ReadingInit => ReadingInv
    <2> SUFFICES ASSUME ReadingInit PROVE ReadingInv
      OBVIOUS
    <2>1. QueuedRow \in RunRow /\ RunFits(QueuedRow)
      BY DEF QueuedRow, RunRow, RunFits
    <2>2. NoView \in View /\ NoView.of = {}
      BY <2>1 DEF NoView, View
    <2>3. ASSUME NEW rows PROVE ViewFits(NoView, rows)
      BY <2>2 DEF ViewFits
    <2>4. RunsInv
      BY <2>1, <2>3 DEF ReadingInit, RunsInv
    <2>5. /\ NoHistory \in History /\ NoHistory.pc = "idle"
          /\ NoHistory.read = <<>> /\ NoHistory.answer = <<>>
      BY DEF NoHistory, History, Places
    <2>6. HistoryFits(NoHistory, versions, projectArchived = TRUE)
      BY <2>5 DEF HistoryFits
    <2>7. \A h \in HistoryReaders : HistoryFits(history[h], versions, projectArchived = TRUE)
      BY <2>6 DEF ReadingInit
    <2>8. /\ projectArchived \in BOOLEAN /\ created \in Seq(Artifacts)
          /\ versions \in [Artifacts -> Nat] /\ DOMAIN history = HistoryReaders
      <3>1. projectArchived \in BOOLEAN
        BY Zenon DEF ReadingInit
      <3>2. versions \in [Artifacts -> Nat] /\ DOMAIN history = HistoryReaders
        BY DEF ReadingInit
      <3> QED
        BY <3>1, <3>2 DEF ReadingInit
    <2>9. HistoriesInv
      BY <2>7, <2>8 DEF HistoriesInv
    <2> QED
      BY <2>4, <2>9 DEF ReadingInv
  <1>2. ReadingInv /\ [ReadingNext]_readingVars => ReadingInv'
    <2> SUFFICES ASSUME ReadingInv, [ReadingNext]_readingVars PROVE ReadingInv'
      OBVIOUS
    <2>1. CASE WriterNext
      BY <2>1, WritersKeepRuns, WritersKeepHistories DEF ReadingInv
    <2>2. CASE HistoryNext
      <3>1. UNCHANGED <<run, view>>
        BY <2>2 DEF HistoryNext, LiveProject, ArtifactIds, ReadArtifact, ReadVersionIds,
           ReadVersion, Refuse, UpdateHistory
      <3> QED
        BY <2>2, <3>1, ReadersKeepHistories DEF ReadingInv, RunsInv
    <2>3. CASE ViewNext
      <3>1. UNCHANGED <<projectArchived, created, versions, history>>
        BY <2>3 DEF ViewNext, ReadRuns, PinnedRunEvidence, SelectAll, SelectOf, Select,
           UpdateView
      <3> QED
        BY <2>3, <3>1, ViewersKeepRuns DEF ReadingInv, HistoriesInv
    <2>4. CASE UNCHANGED readingVars
      BY <2>4 DEF readingVars, ReadingInv, RunsInv, HistoriesInv
    <2> QED
      BY <2>1, <2>2, <2>3, <2>4 DEF ReadingNext
  <1>3. ReadingInv => ReadsAreConsistent
    BY RunsAreShownWhole, HistoriesAreShown DEF ReadingInv, ReadsAreConsistent
  <1> QED
    BY <1>1, <1>2, <1>3, PTL DEF ReadingSpec

(***************************************************************************)
(* The rules: every kind of defect planted shows in the part of the         *)
(* evidence it was planted in, and nothing else is wrong with that part.    *)
(***************************************************************************)

\* The defects of each part of the evidence, and what the presence of each says.
ContentFits(content, kinds) ==
    /\ \A state \in {"absent", "tampered"} :
           state \in kinds <=> \E role \in Roles : content[role] = state
    /\ content["ledger"] # "unpublished" =>
           \A role \in Roles : content[role] # "unpublished"

ReadableFits(readable, kinds) ==
    "unreadable" \in kinds <=> \E role \in Roles \ {"png"} : ~readable[role]

RecordFits(execution, recorded, provenance, kinds) ==
    /\ "no_execution" \in kinds <=> ~execution
    /\ "recorded" \in kinds <=> \E role \in Roles : ~recorded[role]
    /\ "provenance" \in kinds <=> \E role \in Roles : ~provenance[role]

ReportFits(report, table, kinds) ==
    /\ "branch_state" \in kinds <=>
           \E b \in Branches : report.branches[b].state # table[b].state
    /\ "number" \in kinds <=> \E b \in Branches : ~(report.branches[b].numbers \subseteq {1})
    /\ "peaks" \in kinds <=> report.declaredPeaks # 1
    /\ "report_digest" \in kinds <=> report.digests = "disagree"
    /\ "citation" \in kinds <=> report.cited \cap {"unsupported", "unreachable"} # {}
    /\ "clinical" \in kinds <=> \E b \in Branches : ~report.branches[b].bounded
    /\ "scope" \in kinds <=> \E b \in Branches : ~report.branches[b].marked
    /\ "limitation" \in kinds <=> \E b \in Branches : ~report.branches[b].limited

TableFits(table, kinds) ==
    /\ \A b \in Branches : table[b].state \in DOMAIN StateLevel /\ table[b].numbers = {1}
    /\ "table_scope" \in kinds <=> \E b \in Branches : ~table[b].marked
    /\ "table_clinical" \in kinds <=> \E b \in Branches : ~table[b].bounded

Overclaims(kind, state) ==
    \/ kind \notin DOMAIN EvidenceLevel
    \/ EvidenceLevel[kind] > SourceEvidenceLevel(state)

LedgerFits(ledger, table, kinds) ==
    /\ "ledger_provenance" \in kinds <=> ~ledger.provenance
    /\ kinds \cap {"ledger_entry", "ledger_omission"} # {} <=>
           \E role \in Roles \ {"ledger"} : ledger.listed[role] # "agree"
    /\ ledger.listed["ledger"] = "unlisted"
    /\ "evidence_kind" \in kinds <=>
           \E b \in Branches : Overclaims(ledger.science[b], table[b].state)

DefectKinds ==
    {"absent", "tampered", "unreadable", "no_execution", "recorded", "provenance",
     "branch_state", "number", "peaks", "report_digest", "citation", "clinical",
     "scope", "limitation", "table_scope", "table_clinical", "ledger_provenance",
     "ledger_entry", "ledger_omission", "evidence_kind"}

\* A snapshot of a Run whose report, table and ledger speak of every branch.
WholeReport ==
    [branches : [Branches -> ReportBranch], declaredPeaks : {1, 2}, peakRows : {1},
     digests : {"undeclared", "agree", "disagree"}, cited : SUBSET Resolutions]

WholeLedger ==
    [provenance : BOOLEAN, listed : [Roles -> {"unlisted", "agree", "disagree"}],
     science : [Branches -> Kinds]]

WholeEvidence ==
    [execution : BOOLEAN, content : [Roles -> ContentStates],
     recorded : [Roles -> BOOLEAN], provenance : [Roles -> BOOLEAN],
     readable : [Roles -> BOOLEAN], report : WholeReport,
     table : [Branches -> TableRow], ledger : WholeLedger]

DefectsFit(e, kinds) ==
    /\ kinds \subseteq DefectKinds
    /\ ContentFits(e.content, kinds)
    /\ ReadableFits(e.readable, kinds)
    /\ RecordFits(e.execution, e.recorded, e.provenance, kinds)
    /\ ReportFits(e.report, e.table, kinds)
    /\ TableFits(e.table, kinds)
    /\ LedgerFits(e.ledger, e.table, kinds)

RulesInv == evidence \in WholeEvidence /\ DefectsFit(evidence, planted)
LEMMA RankedWords ==
    /\ DOMAIN StateLevel = {"insufficient", "plausible", "observed"}
    /\ DOMAIN EvidenceLevel = {"insufficient", "derived_observation"}
    /\ StateLevel["insufficient"] = 0 /\ StateLevel["plausible"] = 1
    /\ StateLevel["observed"] = 2
    /\ EvidenceLevel["insufficient"] = 0 /\ EvidenceLevel["derived_observation"] = 1
  BY DEF StateLevel, EvidenceLevel

LEMMA RankedVerdicts ==
    /\ VerdictRank["pass"] = 0 /\ VerdictRank["inconclusive"] = 1
    /\ VerdictRank["warn"] = 2 /\ VerdictRank["fail"] = 3
  BY DEF VerdictRank

Verdicts == {"pass", "inconclusive", "warn", "fail"}

LEMMA SummaryIsTheWorst ==
    ASSUME NEW S \in SUBSET Verdicts, S # {}
    PROVE  /\ SummaryVerdict(S) \in S
           /\ \A w \in S : VerdictRank[w] <= VerdictRank[SummaryVerdict(S)]
  <1>1. \E v \in S : \A w \in S : VerdictRank[w] <= VerdictRank[v]
    <2>1. CASE "fail" \in S
      BY <2>1, RankedVerdicts DEF Verdicts
    <2>2. CASE "fail" \notin S /\ "warn" \in S
      BY <2>2, RankedVerdicts DEF Verdicts
    <2>3. CASE "fail" \notin S /\ "warn" \notin S /\ "inconclusive" \in S
      BY <2>3, RankedVerdicts DEF Verdicts
    <2>4. CASE S = {"pass"}
      BY <2>4, RankedVerdicts DEF Verdicts
    <2>5. QED
      BY <2>1, <2>2, <2>3, <2>4 DEF Verdicts
  <1>2. QED
    BY <1>1 DEF SummaryVerdict

LEMMA SummaryReadsVerdicts ==
    ASSUME NEW S \in SUBSET Verdicts, S # {}
    PROVE  /\ SummaryVerdict(S) = "pass" <=> S = {"pass"}
           /\ "fail" \in S => SummaryVerdict(S) = "fail"
           /\ S \subseteq {"pass", "inconclusive"} =>
                  SummaryVerdict(S) \in {"pass", "inconclusive"}
  <1> DEFINE v == SummaryVerdict(S)
  <1>1. v \in S /\ \A w \in S : VerdictRank[w] <= VerdictRank[v]
    BY SummaryIsTheWorst
  <1> HIDE DEF v
  <1>2. ASSUME v = "pass" PROVE S = {"pass"}
    <2>1. \A w \in S : w \in Verdicts /\ VerdictRank[w] <= 0
      BY <1>1, <1>2, RankedVerdicts
    <2>2. \A w \in S : w = "pass"
      BY <2>1, RankedVerdicts DEF Verdicts
    <2>3. QED
      BY <2>2
  <1>3. "fail" \in S => v = "fail"
    BY <1>1, RankedVerdicts DEF Verdicts
  <1>4. QED
    BY <1>1, <1>2, <1>3 DEF v

LEMMA WholeIsTyped == WholeEvidence \subseteq EvidenceRecord
  <1> SUFFICES ASSUME NEW e \in WholeEvidence PROVE e \in EvidenceRecord
    OBVIOUS
  <1>1. e.report \in WholeReport /\ e.ledger \in WholeLedger
    BY DEF WholeEvidence
  <1>2. e.report \in ParsedReport
    BY <1>1 DEF WholeReport, ParsedReport
  <1>3. e.ledger \in EvidenceLedger
    BY <1>1 DEF WholeLedger, EvidenceLedger
  <1>4. e.table \in [Branches -> TableRow \cup {NotStated}]
    BY DEF WholeEvidence
  <1>5. QED
    BY <1>2, <1>3, <1>4 DEF WholeEvidence, EvidenceRecord

LEMMA EveryBranchIsStated ==
    ASSUME NEW e \in WholeEvidence, RulesAssumption
    PROVE  /\ Stated(e.report.branches) = Branches
           /\ Stated(e.table) = Branches
           /\ Stated(e.ledger.science) = Branches
           /\ e.report.declaredPeaks # NotStated
  <1>1. e.report \in WholeReport /\ e.ledger \in WholeLedger
        /\ e.table \in [Branches -> TableRow]
    BY DEF WholeEvidence
  <1>2. /\ e.report.branches \in [Branches -> ReportBranch]
        /\ e.report.declaredPeaks \in Numbers
        /\ e.ledger.science \in [Branches -> Kinds]
    BY <1>1 DEF WholeReport, WholeLedger, Numbers
  <1>3. QED
    BY <1>1, <1>2 DEF Stated, RulesAssumption

LEMMA ClaimsAgreeUnlessPlanted ==
    ASSUME NEW e \in WholeEvidence, NEW kinds, RulesAssumption, DefectsFit(e, kinds)
    PROVE  ClaimUnsupported(e) <=> kinds \cap {"number", "peaks"} # {}
  <1>1. e.report \in WholeReport /\ e.table \in [Branches -> TableRow]
    BY DEF WholeEvidence
  <1>2. e.report.peakRows = 1 /\ e.report.declaredPeaks \in {1, 2}
    BY <1>1 DEF WholeReport
  <1>3. \A b \in Branches : SupportedNumbers(e, b) = {1}
    BY EveryBranchIsStated DEF SupportedNumbers, DefectsFit, TableFits
  <1>4. "number" \in kinds <=>
            \E b \in Branches : ~(e.report.branches[b].numbers \subseteq {1})
    BY DEF DefectsFit, ReportFits
  <1>5. "peaks" \in kinds <=> e.report.declaredPeaks # 1
    BY DEF DefectsFit, ReportFits
  <1>6. "peaks" \in kinds <=> e.report.declaredPeaks \notin {NotStated, e.report.peakRows}
    BY <1>2, <1>5, EveryBranchIsStated
  <1>7. "number" \in kinds <=>
            \E b \in Branches :
                ~(e.report.branches[b].numbers \subseteq SupportedNumbers(e, b))
    BY <1>3, <1>4
  <1>8. QED
    BY <1>6, <1>7, EveryBranchIsStated DEF ClaimUnsupported

\* Every level is that of its source, unless it was restated or overclaimed.
LEMMA LevelsAgreeUnlessPlanted ==
    ASSUME NEW e \in WholeEvidence, NEW kinds, RulesAssumption, DefectsFit(e, kinds)
    PROVE  /\ kinds \cap {"branch_state", "evidence_kind"} # {} =>
                  Escalated(e) \/ Unrankable(e) \/ Understated(e)
           /\ kinds \cap {"branch_state", "evidence_kind"} = {} =>
                  ~Escalated(e) /\ ~Unrankable(e) /\ ~Understated(e)
  <1>1. /\ e.report \in WholeReport /\ e.ledger \in WholeLedger
        /\ e.table \in [Branches -> TableRow]
    BY DEF WholeEvidence
  <1>2. /\ e.report.branches \in [Branches -> ReportBranch]
        /\ e.ledger.science \in [Branches -> Kinds]
    BY <1>1 DEF WholeReport, WholeLedger
  <1>3. \A b \in Branches : e.report.branches[b].state \in States
    BY <1>2 DEF ReportBranch
  <1>4. \A b \in Branches : e.table[b].state \in DOMAIN StateLevel
    BY DEF DefectsFit, TableFits
  <1>5. "branch_state" \in kinds <=>
            \E b \in Branches : e.report.branches[b].state # e.table[b].state
    BY DEF DefectsFit, ReportFits
  <1>6. "evidence_kind" \in kinds <=>
            \E b \in Branches : Overclaims(e.ledger.science[b], e.table[b].state)
    BY DEF DefectsFit, LedgerFits
  <1>7. \A b \in Branches : RankableSource(e, b)
    BY <1>4, EveryBranchIsStated DEF RankableSource
  <1>8. \A s \in DOMAIN StateLevel, t \in DOMAIN StateLevel :
            /\ s # t => StateLevel[s] > StateLevel[t] \/ StateLevel[s] < StateLevel[t]
            /\ ~(StateLevel[s] > StateLevel[s]) /\ ~(StateLevel[s] < StateLevel[s])
    BY RankedWords
  <1>9. CASE "branch_state" \in kinds
    <2>1. PICK b \in Branches : e.report.branches[b].state # e.table[b].state
      BY <1>5, <1>9
    <2>2. CASE e.report.branches[b].state \in DOMAIN StateLevel
      BY <2>1, <2>2, <1>4, <1>7, <1>8, <1>9, EveryBranchIsStated
         DEF Escalated, Understated, RankableState
    <2>3. CASE e.report.branches[b].state \notin DOMAIN StateLevel
      BY <2>1, <2>3, <1>9, EveryBranchIsStated DEF Unrankable, RankableState
    <2>4. QED
      BY <1>9, <2>2, <2>3
  <1>10. CASE "evidence_kind" \in kinds
    <2>1. PICK b \in Branches : Overclaims(e.ledger.science[b], e.table[b].state)
      BY <1>6, <1>10
    <2>2. QED
      BY <2>1, <1>7, <1>10, EveryBranchIsStated
         DEF Overclaims, Escalated, Unrankable, RankableEvidence
  <1>11. CASE kinds \cap {"branch_state", "evidence_kind"} = {}
    <2>1. \A b \in Branches :
              /\ e.report.branches[b].state = e.table[b].state
              /\ e.ledger.science[b] \in DOMAIN EvidenceLevel
              /\ ~(EvidenceLevel[e.ledger.science[b]]
                       > SourceEvidenceLevel(e.table[b].state))
      BY <1>5, <1>6, <1>11 DEF Overclaims
    <2>2. ~Unrankable(e)
      BY <2>1, <1>4, <1>7, EveryBranchIsStated
         DEF Unrankable, RankableEvidence, RankableState
    <2>3. ~Escalated(e) /\ ~Understated(e)
      BY <2>1, <1>4, <1>8, EveryBranchIsStated DEF Escalated, Understated
    <2>4. QED
      BY <1>11, <2>2, <2>3
  <1>12. QED
    BY <1>9, <1>10, <1>11

LEMMA ScopeHoldsUnlessPlanted ==
    ASSUME NEW e \in WholeEvidence, NEW kinds, RulesAssumption, DefectsFit(e, kinds)
    PROVE  BoundaryTerms(e) \/ MissingScopeMarkers(e) <=>
               kinds \cap {"clinical", "scope", "limitation", "table_scope",
                           "table_clinical"} # {}
  <1>1. /\ "clinical" \in kinds <=> \E b \in Branches : ~e.report.branches[b].bounded
        /\ "scope" \in kinds <=> \E b \in Branches : ~e.report.branches[b].marked
        /\ "limitation" \in kinds <=> \E b \in Branches : ~e.report.branches[b].limited
    BY DEF DefectsFit, ReportFits
  <1>2. /\ "table_scope" \in kinds <=> \E b \in Branches : ~e.table[b].marked
        /\ "table_clinical" \in kinds <=> \E b \in Branches : ~e.table[b].bounded
    BY DEF DefectsFit, TableFits
  <1>3. BoundaryTerms(e) <=>
            \/ \E b \in Branches : ~e.report.branches[b].bounded
            \/ \E b \in Branches : ~e.table[b].bounded
    BY EveryBranchIsStated DEF BoundaryTerms
  <1>4. MissingScopeMarkers(e) <=>
            \/ \E b \in Branches : ~e.table[b].marked
            \/ \E b \in Branches : ~e.report.branches[b].marked
            \/ \E b \in Branches : ~e.report.branches[b].limited
    BY EveryBranchIsStated DEF MissingScopeMarkers
  <1>5. QED
    BY <1>1, <1>2, <1>3, <1>4

\* What the pinned records say of the outputs.
RecordDefects ==
    {"tampered", "recorded", "provenance", "ledger_provenance", "ledger_entry",
     "ledger_omission", "report_digest"}

LEMMA TamperingIsAMismatch ==
    ASSUME NEW e \in WholeEvidence, NEW kinds, DefectsFit(e, kinds), "tampered" \in kinds
    PROVE  Published(e) # {} /\ Mismatched(e)
  BY DEF DefectsFit, ContentFits, Published, Mismatched, ContentMismatch

LEMMA RecordsAgreeUnlessPlanted ==
    ASSUME NEW e \in WholeEvidence, NEW kinds, DefectsFit(e, kinds),
           kinds \cap RecordDefects = {},
           "ledger" \in Published(e) => Published(e) = Roles
    PROVE  ~Mismatched(e)
  <1>1. \A role \in Roles : e.content[role] # "tampered"
    BY DEF DefectsFit, ContentFits, RecordDefects
  <1>2. \A role \in Roles : e.recorded[role] /\ e.provenance[role]
    BY DEF DefectsFit, RecordFits, RecordDefects
  <1>3. e.ledger.provenance /\ e.ledger.listed["ledger"] = "unlisted"
    BY DEF DefectsFit, LedgerFits, RecordDefects
  <1>4. \A role \in Roles \ {"ledger"} : e.ledger.listed[role] = "agree"
    BY DEF DefectsFit, LedgerFits, RecordDefects
  <1>5. e.report.digests # "disagree"
    BY DEF DefectsFit, ReportFits, RecordDefects
  <1>6. ~ContentMismatch(e) /\ ~ExecutionMismatch(e) /\ ~ReportProvenanceMismatch(e)
    BY <1>1, <1>2, <1>5 DEF ContentMismatch, ExecutionMismatch,
       ReportProvenanceMismatch, Published
  <1>7. Parsed(e, "ledger") => Published(e) = Roles
    BY DEF Parsed, Published, Roles
  <1>8. ~LedgerMismatch(e)
    BY <1>3, <1>4, <1>7 DEF LedgerMismatch, LedgerOmission, Published, Roles
  <1>9. QED
    BY <1>6, <1>8 DEF Mismatched

LEMMA RulesGiveVerdicts ==
    ASSUME NEW e
    PROVE  ReviewVerdicts(e) \in SUBSET Verdicts /\ ReviewVerdicts(e) # {}
  <1>1. RV01(e) \in Verdicts
    BY DEF RV01, Verdicts
  <1>2. RV02(e) \in Verdicts
    BY DEF RV02, Verdicts
  <1>3. RV03(e) \in Verdicts
    BY DEF RV03, Verdicts
  <1>4. RV04(e) \in Verdicts
    BY DEF RV04, Verdicts
  <1>5. RV05(e) \in Verdicts
    BY DEF RV05, Verdicts
  <1>6. QED
    BY <1>1, <1>2, <1>3, <1>4, <1>5 DEF ReviewVerdicts

\* A snapshot that every rule passes is whole, and nothing is wrong with it.
LEMMA PassedIsClean ==
    ASSUME NEW e \in WholeEvidence, NEW kinds, RulesAssumption, DefectsFit(e, kinds),
           ReviewVerdicts(e) = {"pass"}
    PROVE  Published(e) = Roles /\ kinds = {}
  <1>1. /\ RV01(e) = "pass" /\ RV02(e) = "pass" /\ RV03(e) = "pass"
        /\ RV04(e) = "pass" /\ RV05(e) = "pass"
    BY DEF ReviewVerdicts
  <1>2. /\ Parsed(e, "csv") /\ Parsed(e, "ledger") /\ Parsed(e, "markdown")
        /\ ~Escalated(e) /\ ~Unrankable(e) /\ ~Understated(e)
    BY <1>1 DEF RV04
  <1>3. Published(e) = Roles
    BY <1>2 DEF Parsed, Published, DefectsFit, ContentFits, Roles
  <1>4. ~Mismatched(e) /\ ~ContentUnavailable(e) /\ e.execution
    BY <1>1 DEF RV03
  <1>5. ~ClaimUnsupported(e)
    BY <1>1, <1>2 DEF RV01
  <1>6. ~BoundaryTerms(e) /\ ~MissingScopeMarkers(e)
    BY <1>1, <1>2 DEF RV05
  <1>7. kinds \cap {"number", "peaks", "branch_state", "evidence_kind", "clinical", "scope",
                    "limitation", "table_scope", "table_clinical"} = {}
    <2>1. kinds \cap {"number", "peaks"} = {}
      BY <1>5, ClaimsAgreeUnlessPlanted
    <2>2. kinds \cap {"branch_state", "evidence_kind"} = {}
      BY <1>2, LevelsAgreeUnlessPlanted
    <2>3. kinds \cap {"clinical", "scope", "limitation", "table_scope",
                      "table_clinical"} = {}
      BY <1>6, ScopeHoldsUnlessPlanted
    <2>4. QED
      BY <2>1, <2>2, <2>3
  <1>8. "citation" \notin kinds
    BY <1>1, <1>2 DEF RV02, DefectsFit, ReportFits
  <1>9. kinds \cap {"unreadable", "no_execution"} = {}
    BY <1>2, <1>4 DEF Parsed, DefectsFit, ReadableFits, RecordFits, Roles
  <1>10. \A role \in Roles : e.content[role] = "available"
    <2>1. e.content \in [Roles -> ContentStates]
      BY DEF WholeEvidence
    <2>2. \A role \in Roles : e.content[role] # "absent" /\ e.content[role] # "tampered"
      BY <1>3, <1>4 DEF Mismatched, ContentMismatch, ContentUnavailable
    <2>3. \A role \in Roles : e.content[role] # "unpublished"
      BY <1>3 DEF Published
    <2>4. QED
      BY <2>1, <2>2, <2>3 DEF ContentStates
  <1>11. kinds \cap {"absent", "tampered"} = {}
    BY <1>10 DEF DefectsFit, ContentFits
  <1>12. \A role \in Roles : e.recorded[role] /\ e.provenance[role]
    BY <1>3, <1>4, <1>10 DEF Mismatched, ContentMismatch, ExecutionMismatch
  <1>13. kinds \cap {"recorded", "provenance"} = {}
    BY <1>12 DEF DefectsFit, RecordFits
  <1>14. /\ e.ledger.provenance
         /\ \A role \in Roles : e.ledger.listed[role] # "disagree"
         /\ \A role \in Roles \ {"ledger"} : e.ledger.listed[role] # "unlisted"
    BY <1>2, <1>3, <1>4 DEF Mismatched, LedgerMismatch, LedgerOmission
  <1>15. \A role \in Roles \ {"ledger"} : e.ledger.listed[role] = "agree"
    <2>1. e.ledger.listed \in [Roles -> {"unlisted", "agree", "disagree"}]
      BY DEF WholeEvidence, WholeLedger
    <2>2. QED
      BY <2>1, <1>14
  <1>16. kinds \cap {"ledger_provenance", "ledger_entry", "ledger_omission"} = {}
    BY <1>14, <1>15 DEF DefectsFit, LedgerFits
  <1>17. "report_digest" \notin kinds
    BY <1>2, <1>4 DEF Mismatched, ReportProvenanceMismatch, DefectsFit, ReportFits
  <1>18. kinds \subseteq DefectKinds
    BY DEF DefectsFit
  <1>19. kinds = {}
    BY <1>7, <1>8, <1>9, <1>11, <1>13, <1>16, <1>17, <1>18 DEF DefectKinds
  <1>20. QED
    BY <1>3, <1>19

\* With nothing but absences planted no rule finds anything to hold against it.
LEMMA AbsenceFailsNoRule ==
    ASSUME NEW e \in WholeEvidence, NEW kinds, RulesAssumption, DefectsFit(e, kinds),
           kinds \subseteq {"absent", "unreadable", "no_execution"}
    PROVE  /\ ReviewVerdicts(e) \subseteq {"pass", "inconclusive"}
           /\ e.report.cited \cap {"unsupported", "unreachable"} = {}
           /\ ~Mismatched(e) /\ ~ClaimUnsupported(e)
           /\ ~Escalated(e) /\ ~Unrankable(e) /\ ~Understated(e)
           /\ ~BoundaryTerms(e) /\ ~MissingScopeMarkers(e)
  <1>1. ~ClaimUnsupported(e)
    BY ClaimsAgreeUnlessPlanted
  <1>2. ~Escalated(e) /\ ~Unrankable(e) /\ ~Understated(e)
    <2>1. kinds \cap {"branch_state", "evidence_kind"} = {}
      OBVIOUS
    <2>2. QED
      BY <2>1, LevelsAgreeUnlessPlanted
  <1>3. ~BoundaryTerms(e) /\ ~MissingScopeMarkers(e)
    <2>1. kinds \cap {"clinical", "scope", "limitation", "table_scope",
                      "table_clinical"} = {}
      OBVIOUS
    <2>2. QED
      BY <2>1, ScopeHoldsUnlessPlanted
  <1>4. "ledger" \in Published(e) => Published(e) = Roles
    BY DEF Published, DefectsFit, ContentFits
  <1>5. ~Mismatched(e)
    <2>1. kinds \cap RecordDefects = {}
      BY DEF RecordDefects
    <2>2. QED
      BY <2>1, <1>4, RecordsAgreeUnlessPlanted
  <1>6. e.report.cited \cap {"unsupported", "unreachable"} = {}
    BY DEF DefectsFit, ReportFits
  <1>7. RV01(e) \in {"pass", "inconclusive"}
    BY <1>1 DEF RV01
  <1>8. RV02(e) \in {"pass", "inconclusive"}
    BY <1>6 DEF RV02
  <1>9. RV03(e) \in {"pass", "inconclusive"}
    BY <1>5 DEF RV03
  <1>10. RV04(e) \in {"pass", "inconclusive"}
    BY <1>2 DEF RV04
  <1>11. RV05(e) \in {"pass", "inconclusive"}
    BY <1>3 DEF RV05
  <1>12. ReviewVerdicts(e) \subseteq {"pass", "inconclusive"}
    BY <1>7, <1>8, <1>9, <1>10, <1>11 DEF ReviewVerdicts
  <1>13. QED
    BY <1>1, <1>2, <1>3, <1>5, <1>6, <1>12

LEMMA CleanIsPassed ==
    ASSUME NEW e \in WholeEvidence, RulesAssumption, DefectsFit(e, {}),
           Published(e) = Roles
    PROVE  ReviewVerdicts(e) = {"pass"}
  <1>1. /\ e.report.cited \cap {"unsupported", "unreachable"} = {}
        /\ ~Mismatched(e) /\ ~ClaimUnsupported(e)
        /\ ~Escalated(e) /\ ~Unrankable(e) /\ ~Understated(e)
        /\ ~BoundaryTerms(e) /\ ~MissingScopeMarkers(e)
    BY AbsenceFailsNoRule
  <1>2. \A role \in Roles : e.content[role] = "available"
    <2>1. e.content \in [Roles -> ContentStates]
      BY DEF WholeEvidence
    <2>2. \A role \in Roles : e.content[role] # "absent" /\ e.content[role] # "tampered"
      BY DEF DefectsFit, ContentFits
    <2>3. QED
      BY <2>1, <2>2 DEF ContentStates, Published
  <1>3. \A role \in Roles \ {"png"} : e.readable[role]
    BY DEF DefectsFit, ReadableFits
  <1>4. Parsed(e, "csv") /\ Parsed(e, "ledger") /\ Parsed(e, "markdown")
    BY <1>2, <1>3 DEF Parsed, Roles
  <1>5. RV01(e) = "pass"
    BY <1>1, <1>4, EveryBranchIsStated DEF RV01
  <1>6. RV02(e) = "pass"
    BY <1>1, <1>4 DEF RV02
  <1>7. e.execution
    BY DEF DefectsFit, RecordFits
  <1>8. ~ContentUnavailable(e)
    BY <1>2 DEF ContentUnavailable, Published
  <1>9. RV03(e) = "pass"
    BY <1>1, <1>7, <1>8 DEF RV03, Roles
  <1>10. RV04(e) = "pass"
    BY <1>1, <1>4 DEF RV04
  <1>11. RV05(e) = "pass"
    BY <1>1, <1>4 DEF RV05
  <1>12. QED
    BY <1>5, <1>6, <1>9, <1>10, <1>11 DEF ReviewVerdicts

LEMMA PassIsClean ==
    ASSUME NEW e \in WholeEvidence, NEW kinds, RulesAssumption, DefectsFit(e, kinds)
    PROVE  Verdict(e) = "pass" <=> Published(e) = Roles /\ kinds = {}
  <1>1. Verdict(e) = "pass" <=> ReviewVerdicts(e) = {"pass"}
    BY RulesGiveVerdicts, SummaryReadsVerdicts DEF Verdict
  <1>2. QED
    BY <1>1, PassedIsClean, CleanIsPassed

LEMMA InvariantEarnsVerdicts ==
    ASSUME RulesAssumption, RulesInv
    PROVE  VerdictsAreEarned
  <1>1. evidence \in WholeEvidence /\ DefectsFit(evidence, planted)
    BY DEF RulesInv
  <1>2. ReviewVerdicts(evidence) \in SUBSET Verdicts /\ ReviewVerdicts(evidence) # {}
    BY RulesGiveVerdicts
  <1>3. EvidenceTypeOK
    BY <1>1, WholeIsTyped DEF EvidenceTypeOK
  <1>4. PassMeansClean
    BY <1>1, PassIsClean DEF PassMeansClean
  <1>5. AbsenceIsNotFailure
    BY <1>1, <1>2, SummaryReadsVerdicts, AbsenceFailsNoRule
       DEF AbsenceIsNotFailure, Verdict
  <1>6. TamperingStaysVisible
    <2>1. SUFFICES ASSUME "tampered" \in planted PROVE Verdict(evidence) = "fail"
      BY DEF TamperingStaysVisible
    <2>2. RV03(evidence) = "fail"
      BY <1>1, <2>1, TamperingIsAMismatch DEF RV03
    <2>3. "fail" \in ReviewVerdicts(evidence)
      BY <2>2 DEF ReviewVerdicts
    <2>4. QED
      BY <1>2, <2>3, SummaryReadsVerdicts DEF Verdict
  <1>7. QED
    BY <1>3, <1>4, <1>5, <1>6 DEF VerdictsAreEarned

ReportDefects ==
    {"branch_state", "number", "peaks", "report_digest", "citation", "clinical", "scope",
     "limitation"}

TableDefects == {"table_scope", "table_clinical"}

LedgerDefects == {"ledger_provenance", "ledger_entry", "ledger_omission", "evidence_kind"}

\* A defect leaves alone what is said of the parts of the evidence it is not in.
LEMMA OneDefectMore ==
    ASSUME NEW e, NEW f, NEW kinds, NEW kind \in DefectKinds, DefectsFit(e, kinds),
           \/ f.content = e.content /\ kind \notin {"absent", "tampered"}
           \/ ContentFits(f.content, kinds \cup {kind}),
           \/ f.readable = e.readable /\ kind # "unreadable"
           \/ ReadableFits(f.readable, kinds \cup {kind}),
           \/ /\ f.execution = e.execution /\ f.recorded = e.recorded
              /\ f.provenance = e.provenance
              /\ kind \notin {"no_execution", "recorded", "provenance"}
           \/ RecordFits(f.execution, f.recorded, f.provenance, kinds \cup {kind}),
           \/ f.report = e.report /\ kind \notin ReportDefects
           \/ ReportFits(f.report, f.table, kinds \cup {kind}),
           \/ f.table = e.table /\ kind \notin TableDefects
           \/ TableFits(f.table, kinds \cup {kind}),
           \/ f.ledger = e.ledger /\ kind \notin LedgerDefects
           \/ LedgerFits(f.ledger, f.table, kinds \cup {kind}),
           \A b \in Branches : f.table[b].state = e.table[b].state
    PROVE  DefectsFit(f, kinds \cup {kind})
  <1> DEFINE more == kinds \cup {kind}
  <1>1. ContentFits(f.content, more)
    BY DEF DefectsFit, ContentFits
  <1>2. ReadableFits(f.readable, more)
    BY DEF DefectsFit, ReadableFits
  <1>3. RecordFits(f.execution, f.recorded, f.provenance, more)
    BY DEF DefectsFit, RecordFits
  <1>4. ReportFits(f.report, f.table, more)
    BY DEF DefectsFit, ReportFits, ReportDefects
  <1>5. TableFits(f.table, more)
    BY DEF DefectsFit, TableFits, TableDefects
  <1>6. LedgerFits(f.ledger, f.table, more)
    BY DEF DefectsFit, LedgerFits, LedgerDefects
  <1>7. QED
    BY <1>1, <1>2, <1>3, <1>4, <1>5, <1>6 DEF DefectsFit

LEMMA RulesInitInv ==
    ASSUME RulesInit
    PROVE  RulesInv
  <1>1. PICK states \in [Branches -> DOMAIN StateLevel], last \in 0..Len(ChainRoles) :
            evidence = CleanEvidence(states, last)
    BY DEF RulesInit
  <1>2. planted = {}
    BY DEF RulesInit
  <1>3. \A b \in Branches : states[b] \in DOMAIN StateLevel /\ states[b] \in States
    BY DEF States
  <1>4. \A b \in Branches :
            /\ EvidenceKind(states[b]) \in Kinds
            /\ ~Overclaims(EvidenceKind(states[b]), states[b])
    BY <1>3, RankedWords DEF EvidenceKind, Kinds, Overclaims, SourceEvidenceLevel
  <1>5. evidence.table = [b \in Branches |-> CleanRow(states[b])]
    BY <1>1 DEF CleanEvidence
  <1>6. evidence.table \in [Branches -> TableRow]
    BY <1>3, <1>5 DEF CleanRow, TableRow, Numbers
  <1>rows. \A b \in Branches :
             /\ evidence.table[b].state = states[b] /\ evidence.table[b].numbers = {1}
             /\ evidence.table[b].bounded = TRUE /\ evidence.table[b].marked = TRUE
    BY <1>5 DEF CleanRow
  <1>7. TableFits(evidence.table, planted)
    BY <1>2, <1>3, <1>rows DEF TableFits
  <1>8. /\ evidence.report =
               [branches |-> [b \in Branches |->
                    [state |-> states[b], numbers |-> {1}, bounded |-> TRUE,
                     marked |-> TRUE, limited |-> TRUE]],
                declaredPeaks |-> 1, peakRows |-> 1, digests |-> "agree", cited |-> {}]
    BY <1>1 DEF CleanEvidence
  <1>9. evidence.report \in WholeReport
    <2>1. [b \in Branches |-> [state |-> states[b], numbers |-> {1}, bounded |-> TRUE,
                               marked |-> TRUE, limited |-> TRUE]]
              \in [Branches -> ReportBranch]
      BY <1>3 DEF ReportBranch, Numbers
    <2>2. QED
      BY <1>8, <2>1 DEF WholeReport, Resolutions
  <1>10. ReportFits(evidence.report, evidence.table, planted)
    <2>1. \A b \in Branches :
              /\ evidence.report.branches[b].state = states[b]
              /\ evidence.report.branches[b].numbers = {1}
              /\ evidence.report.branches[b].bounded = TRUE
              /\ evidence.report.branches[b].marked = TRUE
              /\ evidence.report.branches[b].limited = TRUE
      BY <1>8
    <2>2. /\ evidence.report.declaredPeaks = 1 /\ evidence.report.digests = "agree"
          /\ evidence.report.cited = {}
      BY <1>8
    <2>3. QED
      BY <1>2, <1>rows, <2>1, <2>2 DEF ReportFits
  <1>11. evidence.ledger =
             [provenance |-> TRUE,
              listed |-> [role \in Roles |->
                  IF role = "ledger" THEN "unlisted" ELSE "agree"],
              science |-> [b \in Branches |-> EvidenceKind(states[b])]]
    BY <1>1 DEF CleanEvidence
  <1>12. evidence.ledger \in WholeLedger
    BY <1>4, <1>11 DEF WholeLedger
  <1>13. LedgerFits(evidence.ledger, evidence.table, planted)
    <2>1. /\ evidence.ledger.provenance = TRUE
          /\ evidence.ledger.listed["ledger"] = "unlisted"
          /\ \A role \in Roles \ {"ledger"} : evidence.ledger.listed[role] = "agree"
      BY <1>11 DEF Roles
    <2>2. \A b \in Branches : evidence.ledger.science[b] = EvidenceKind(states[b])
      BY <1>11
    <2>3. QED
      BY <1>2, <1>4, <1>rows, <2>1, <2>2 DEF LedgerFits
  <1>14. /\ evidence.content \in [Roles -> {"available", "unpublished"}]
         /\ evidence.content["ledger"] # "unpublished" =>
                \A role \in Roles : evidence.content[role] # "unpublished"
    <2>1. evidence.content =
              [role \in Roles |->
                  IF \E i \in 1..last : ChainRoles[i] = role THEN "available"
                  ELSE "unpublished"]
      BY <1>1 DEF CleanEvidence
    <2>2. last \in Nat /\ last <= 4 /\ Len(ChainRoles) = 4
      BY DEF ChainRoles
    <2>3. /\ ChainRoles[1] = "csv" /\ ChainRoles[2] = "png"
          /\ ChainRoles[3] = "markdown" /\ ChainRoles[4] = "ledger"
      BY DEF ChainRoles
    <2>4. ASSUME evidence.content["ledger"] # "unpublished"
          PROVE  \A role \in Roles : evidence.content[role] # "unpublished"
      <3>1. PICK i \in 1..last : ChainRoles[i] = "ledger"
        BY <2>1, <2>4 DEF Roles
      <3>2. last = 4
        BY <2>2, <2>3, <3>1
      <3>3. 1 \in 1..last /\ 2 \in 1..last /\ 3 \in 1..last /\ 4 \in 1..last
        BY <3>2
      <3>4. QED
        BY <2>1, <2>3, <3>3 DEF Roles
    <2>5. QED
      BY <2>1, <2>4
  <1>15. ContentFits(evidence.content, planted)
    BY <1>2, <1>14 DEF ContentFits
  <1>16. /\ evidence.execution = TRUE
         /\ evidence.recorded = [role \in Roles |-> TRUE]
         /\ evidence.provenance = [role \in Roles |-> TRUE]
         /\ evidence.readable = [role \in Roles |-> TRUE]
    BY <1>1 DEF CleanEvidence
  <1>17. /\ ReadableFits(evidence.readable, planted)
         /\ RecordFits(evidence.execution, evidence.recorded, evidence.provenance, planted)
    BY <1>2, <1>16 DEF ReadableFits, RecordFits
  <1>18. evidence \in WholeEvidence
    <2>1. evidence =
              [execution |-> evidence.execution, content |-> evidence.content,
               recorded |-> evidence.recorded, provenance |-> evidence.provenance,
               readable |-> evidence.readable, report |-> evidence.report,
               table |-> evidence.table, ledger |-> evidence.ledger]
      BY <1>1 DEF CleanEvidence
    <2>2. evidence.content \in [Roles -> ContentStates]
      BY <1>14 DEF ContentStates
    <2>3. QED
      BY <2>1, <2>2, <1>6, <1>9, <1>12, <1>16 DEF WholeEvidence
  <1>19. QED
    BY <1>2, <1>7, <1>10, <1>13, <1>15, <1>17, <1>18 DEF RulesInv, DefectsFit

\* What a planted defect keeps, given what it makes of the evidence.
LEMMA PlantKeeps ==
    ASSUME RulesInv, NEW kind \in DefectKinds, NEW e \in WholeEvidence, Plant(kind, e),
           DefectsFit(e, planted \cup {kind})
    PROVE  RulesInv'
  BY DEF RulesInv, Plant

LEMMA DamageContentInv ==
    ASSUME RulesInv, NEW role \in Roles, NEW state \in {"absent", "tampered"},
           DamageContent(role, state)
    PROVE  RulesInv'
  <1> DEFINE e == [evidence EXCEPT !.content[role] = state]
  <1>1. evidence \in WholeEvidence /\ DefectsFit(evidence, planted)
    BY DEF RulesInv
  <1>2. /\ evidence.content[role] = "available" /\ state \notin planted
        /\ Plant(state, e)
    BY DEF DamageContent, Plant
  <1>3. e \in WholeEvidence
    BY <1>1 DEF WholeEvidence, ContentStates
  <1>4. /\ e.readable = evidence.readable /\ e.execution = evidence.execution
        /\ e.recorded = evidence.recorded /\ e.provenance = evidence.provenance
        /\ e.report = evidence.report /\ e.table = evidence.table
        /\ e.ledger = evidence.ledger
        /\ e.content = [evidence.content EXCEPT ![role] = state]
    BY <1>1 DEF WholeEvidence
  <1>5. evidence.content \in [Roles -> ContentStates]
    BY <1>1 DEF WholeEvidence
  <1> HIDE DEF e
  <1>6. ContentFits(e.content, planted \cup {state})
    <2>1. ContentFits(evidence.content, planted)
      BY <1>1 DEF DefectsFit
    <2>2. \A r \in Roles : e.content[r] = IF r = role THEN state ELSE evidence.content[r]
      BY <1>4, <1>5
    <2>3. \A s \in {"absent", "tampered"} :
              s \in planted \cup {state} <=> \E r \in Roles : e.content[r] = s
      BY <1>2, <2>1, <2>2 DEF ContentFits
    <2>4. e.content["ledger"] # "unpublished" =>
              \A r \in Roles : e.content[r] # "unpublished"
      BY <1>2, <2>1, <2>2 DEF ContentFits, Roles
    <2>5. QED
      BY <2>3, <2>4 DEF ContentFits
  <1>7. DefectsFit(e, planted \cup {state})
    BY <1>1, <1>4, <1>6, OneDefectMore
       DEF DefectKinds, ReportDefects, TableDefects, LedgerDefects
  <1>8. QED
    BY <1>2, <1>3, <1>7, PlantKeeps DEF DefectKinds

LEMMA GarbleDocumentInv ==
    ASSUME RulesInv, NEW role \in Roles, GarbleDocument(role)
    PROVE  RulesInv'
  <1> DEFINE e == [evidence EXCEPT !.readable[role] = FALSE]
  <1>1. evidence \in WholeEvidence /\ DefectsFit(evidence, planted)
    BY DEF RulesInv
  <1>2. role # "png" /\ Plant("unreadable", e)
    BY DEF GarbleDocument
  <1>3. e \in WholeEvidence
    BY <1>1 DEF WholeEvidence
  <1>4. /\ e.content = evidence.content /\ e.execution = evidence.execution
        /\ e.recorded = evidence.recorded /\ e.provenance = evidence.provenance
        /\ e.report = evidence.report /\ e.table = evidence.table
        /\ e.ledger = evidence.ledger
        /\ e.readable[role] = FALSE
    BY <1>1 DEF WholeEvidence
  <1> HIDE DEF e
  <1>5. ReadableFits(e.readable, planted \cup {"unreadable"})
    BY <1>2, <1>4 DEF ReadableFits
  <1>6. DefectsFit(e, planted \cup {"unreadable"})
    BY <1>1, <1>4, <1>5, OneDefectMore
       DEF DefectKinds, ReportDefects, TableDefects, LedgerDefects
  <1>7. QED
    BY <1>2, <1>3, <1>6, PlantKeeps DEF DefectKinds

LEMMA LoseExecutionInv ==
    ASSUME RulesInv, LoseExecution
    PROVE  RulesInv'
  <1> DEFINE e == [evidence EXCEPT !.execution = FALSE]
  <1>1. evidence \in WholeEvidence /\ DefectsFit(evidence, planted)
    BY DEF RulesInv
  <1>2. Plant("no_execution", e)
    BY DEF LoseExecution
  <1>3. e \in WholeEvidence
    BY <1>1 DEF WholeEvidence
  <1>4. /\ e.content = evidence.content /\ e.readable = evidence.readable
        /\ e.recorded = evidence.recorded /\ e.provenance = evidence.provenance
        /\ e.report = evidence.report /\ e.table = evidence.table
        /\ e.ledger = evidence.ledger
        /\ e.execution = FALSE
    BY <1>1 DEF WholeEvidence
  <1> HIDE DEF e
  <1>5. RecordFits(e.execution, e.recorded, e.provenance, planted \cup {"no_execution"})
    BY <1>1, <1>4 DEF DefectsFit, RecordFits
  <1>6. DefectsFit(e, planted \cup {"no_execution"})
    BY <1>1, <1>4, <1>5, OneDefectMore
       DEF DefectKinds, ReportDefects, TableDefects, LedgerDefects
  <1>7. QED
    BY <1>2, <1>3, <1>6, PlantKeeps DEF DefectKinds

LEMMA MisrecordOutputInv ==
    ASSUME RulesInv, NEW role \in Roles, MisrecordOutput(role)
    PROVE  RulesInv'
  <1>1. evidence \in WholeEvidence /\ DefectsFit(evidence, planted)
    BY DEF RulesInv
  <1>2. RecordFits(evidence.execution, evidence.recorded, evidence.provenance, planted)
    BY <1>1 DEF DefectsFit
  <1>3. ASSUME NEW e, e = [evidence EXCEPT !.recorded[role] = FALSE],
               Plant("recorded", e)
        PROVE  RulesInv'
    <2>1. e \in WholeEvidence
      BY <1>1, <1>3 DEF WholeEvidence
    <2>2. /\ e.content = evidence.content /\ e.readable = evidence.readable
          /\ e.execution = evidence.execution /\ e.provenance = evidence.provenance
          /\ e.report = evidence.report /\ e.table = evidence.table
          /\ e.ledger = evidence.ledger
          /\ e.recorded[role] = FALSE
      BY <1>1, <1>3 DEF WholeEvidence
    <2>3. RecordFits(e.execution, e.recorded, e.provenance, planted \cup {"recorded"})
      BY <1>2, <2>2 DEF RecordFits
    <2>4. DefectsFit(e, planted \cup {"recorded"})
      BY <1>1, <2>2, <2>3, OneDefectMore
         DEF DefectKinds, ReportDefects, TableDefects, LedgerDefects
    <2>5. QED
      BY <1>3, <2>1, <2>4, PlantKeeps DEF DefectKinds
  <1>4. ASSUME NEW e, e = [evidence EXCEPT !.provenance[role] = FALSE],
               Plant("provenance", e)
        PROVE  RulesInv'
    <2>1. e \in WholeEvidence
      BY <1>1, <1>4 DEF WholeEvidence
    <2>2. /\ e.content = evidence.content /\ e.readable = evidence.readable
          /\ e.execution = evidence.execution /\ e.recorded = evidence.recorded
          /\ e.report = evidence.report /\ e.table = evidence.table
          /\ e.ledger = evidence.ledger
          /\ e.provenance[role] = FALSE
      BY <1>1, <1>4 DEF WholeEvidence
    <2>3. RecordFits(e.execution, e.recorded, e.provenance, planted \cup {"provenance"})
      BY <1>2, <2>2 DEF RecordFits
    <2>4. DefectsFit(e, planted \cup {"provenance"})
      BY <1>1, <2>2, <2>3, OneDefectMore
         DEF DefectKinds, ReportDefects, TableDefects, LedgerDefects
    <2>5. QED
      BY <1>4, <2>1, <2>4, PlantKeeps DEF DefectKinds
  <1>5. QED
    BY <1>3, <1>4 DEF MisrecordOutput

\* A defect of the ledger leaves the rest of the evidence alone.
LEMMA LedgerDefectInv ==
    ASSUME RulesInv, NEW kind \in LedgerDefects, NEW ledger \in WholeLedger,
           Plant(kind, [evidence EXCEPT !.ledger = ledger]),
           LedgerFits(ledger, evidence.table, planted \cup {kind})
    PROVE  RulesInv'
  <1> DEFINE e == [evidence EXCEPT !.ledger = ledger]
  <1>1. evidence \in WholeEvidence /\ DefectsFit(evidence, planted)
    BY DEF RulesInv
  <1>2. e \in WholeEvidence
    BY <1>1 DEF WholeEvidence
  <1>3. /\ e.content = evidence.content /\ e.readable = evidence.readable
        /\ e.execution = evidence.execution /\ e.recorded = evidence.recorded
        /\ e.provenance = evidence.provenance
        /\ e.report = evidence.report /\ e.table = evidence.table
        /\ e.ledger = ledger
    BY <1>1 DEF WholeEvidence
  <1>4. Plant(kind, e)
    OBVIOUS
  <1> HIDE DEF e
  <1>5. kind \in DefectKinds /\ kind \notin ReportDefects /\ kind \notin TableDefects
        /\ kind \notin {"absent", "tampered", "unreadable", "no_execution", "recorded",
                        "provenance"}
    BY DEF LedgerDefects, ReportDefects, TableDefects, DefectKinds
  <1>6. DefectsFit(e, planted \cup {kind})
    BY <1>1, <1>3, <1>5, OneDefectMore
  <1>7. QED
    BY <1>2, <1>4, <1>5, <1>6, PlantKeeps

\* A defect of the report leaves the rest of the evidence alone.
LEMMA ReportDefectInv ==
    ASSUME RulesInv, NEW kind \in ReportDefects, NEW report \in WholeReport,
           Plant(kind, [evidence EXCEPT !.report = report]),
           ReportFits(report, evidence.table, planted \cup {kind})
    PROVE  RulesInv'
  <1> DEFINE e == [evidence EXCEPT !.report = report]
  <1>1. evidence \in WholeEvidence /\ DefectsFit(evidence, planted)
    BY DEF RulesInv
  <1>2. e \in WholeEvidence
    BY <1>1 DEF WholeEvidence
  <1>3. /\ e.content = evidence.content /\ e.readable = evidence.readable
        /\ e.execution = evidence.execution /\ e.recorded = evidence.recorded
        /\ e.provenance = evidence.provenance
        /\ e.ledger = evidence.ledger /\ e.table = evidence.table
        /\ e.report = report
    BY <1>1 DEF WholeEvidence
  <1>4. Plant(kind, e)
    OBVIOUS
  <1> HIDE DEF e
  <1>5. kind \in DefectKinds /\ kind \notin LedgerDefects /\ kind \notin TableDefects
        /\ kind \notin {"absent", "tampered", "unreadable", "no_execution", "recorded",
                        "provenance"}
    BY DEF LedgerDefects, ReportDefects, TableDefects, DefectKinds
  <1>6. DefectsFit(e, planted \cup {kind})
    BY <1>1, <1>3, <1>5, OneDefectMore
  <1>7. QED
    BY <1>2, <1>4, <1>5, <1>6, PlantKeeps

\* A defect of the table leaves its states and the rest of the evidence alone.
LEMMA TableDefectInv ==
    ASSUME RulesInv, NEW kind \in TableDefects, NEW table \in [Branches -> TableRow],
           Plant(kind, [evidence EXCEPT !.table = table]),
           TableFits(table, planted \cup {kind}),
           \A b \in Branches : table[b].state = evidence.table[b].state
    PROVE  RulesInv'
  <1> DEFINE e == [evidence EXCEPT !.table = table]
  <1>1. evidence \in WholeEvidence /\ DefectsFit(evidence, planted)
    BY DEF RulesInv
  <1>2. e \in WholeEvidence
    BY <1>1 DEF WholeEvidence
  <1>3. /\ e.content = evidence.content /\ e.readable = evidence.readable
        /\ e.execution = evidence.execution /\ e.recorded = evidence.recorded
        /\ e.provenance = evidence.provenance
        /\ e.report = evidence.report /\ e.ledger = evidence.ledger
        /\ e.table = table
    BY <1>1 DEF WholeEvidence
  <1>4. Plant(kind, e)
    OBVIOUS
  <1> HIDE DEF e
  <1>5. kind \in DefectKinds /\ kind \notin LedgerDefects /\ kind \notin ReportDefects
        /\ kind \notin {"absent", "tampered", "unreadable", "no_execution", "recorded",
                        "provenance"}
    BY DEF LedgerDefects, ReportDefects, TableDefects, DefectKinds
  <1>6. DefectsFit(e, planted \cup {kind})
    BY <1>1, <1>3, <1>5, OneDefectMore
  <1>7. QED
    BY <1>2, <1>4, <1>5, <1>6, PlantKeeps

\* A defect of one branch of the report leaves what else the report says alone.
LEMMA BranchDefectInv ==
    ASSUME RulesInv, NEW b \in Branches, NEW row \in ReportBranch,
           NEW kind \in {"branch_state", "number", "clinical", "scope", "limitation"},
           Plant(kind, [evidence EXCEPT !.report.branches[b] = row]),
           kind = "branch_state" <=> row.state # evidence.report.branches[b].state,
           IF kind = "number" THEN row.numbers = {1, 2}
           ELSE row.numbers = evidence.report.branches[b].numbers,
           IF kind = "clinical" THEN row.bounded = FALSE
           ELSE row.bounded = evidence.report.branches[b].bounded,
           IF kind = "scope" THEN row.marked = FALSE
           ELSE row.marked = evidence.report.branches[b].marked,
           IF kind = "limitation" THEN row.limited = FALSE
           ELSE row.limited = evidence.report.branches[b].limited
    PROVE  RulesInv'
  <1> DEFINE report == [evidence.report EXCEPT !.branches[b] = row]
  <1>1. evidence \in WholeEvidence /\ DefectsFit(evidence, planted)
    BY DEF RulesInv
  <1>2. evidence.report \in WholeReport
    BY <1>1 DEF WholeEvidence
  <1>3. ReportFits(evidence.report, evidence.table, planted)
    BY <1>1 DEF DefectsFit
  <1>4. kind \notin planted
    BY DEF Plant
  <1>5. evidence.report.branches \in [Branches -> ReportBranch]
    BY <1>2 DEF WholeReport
  <1>6. report \in WholeReport
    BY <1>2, <1>5 DEF WholeReport
  <1>7. /\ report.declaredPeaks = evidence.report.declaredPeaks
        /\ report.digests = evidence.report.digests
        /\ report.cited = evidence.report.cited
        /\ report.branches[b] = row
        /\ \A c \in Branches \ {b} : report.branches[c] = evidence.report.branches[c]
    BY <1>2, <1>5 DEF WholeReport
  <1>8. Plant(kind, [evidence EXCEPT !.report = report])
    OBVIOUS
  <1> HIDE DEF report
  <1>9. "branch_state" \in planted \cup {kind} <=>
            \E c \in Branches : report.branches[c].state # evidence.table[c].state
    BY <1>3, <1>4, <1>7 DEF ReportFits
  <1>10. "number" \in planted \cup {kind} <=>
             \E c \in Branches : ~(report.branches[c].numbers \subseteq {1})
    BY <1>3, <1>7 DEF ReportFits
  <1>11. "clinical" \in planted \cup {kind} <=>
             \E c \in Branches : ~report.branches[c].bounded
    BY <1>3, <1>7 DEF ReportFits
  <1>12. "scope" \in planted \cup {kind} <=>
             \E c \in Branches : ~report.branches[c].marked
    BY <1>3, <1>7 DEF ReportFits
  <1>13. "limitation" \in planted \cup {kind} <=>
             \E c \in Branches : ~report.branches[c].limited
    BY <1>3, <1>7 DEF ReportFits
  <1>14. ReportFits(report, evidence.table, planted \cup {kind})
    BY <1>3, <1>7, <1>9, <1>10, <1>11, <1>12, <1>13 DEF ReportFits
  <1>15. QED
    BY <1>6, <1>8, <1>14, ReportDefectInv DEF ReportDefects

LEMMA RestateBranchInv ==
    ASSUME RulesInv, NEW b \in Branches, NEW state \in States, RestateBranch(b, state)
    PROVE  RulesInv'
  <1>1. evidence.report.branches[b] \in ReportBranch
    BY DEF RulesInv, WholeEvidence, WholeReport
  <1>2. evidence.report.branches[b].state # state
    BY DEF RestateBranch
  <1>3. ASSUME Plant("branch_state", [evidence EXCEPT !.report.branches[b].state = state])
        PROVE  RulesInv'
    <2> DEFINE row == [evidence.report.branches[b] EXCEPT !.state = state]
    <2>1. row \in ReportBranch
      BY <1>1 DEF ReportBranch
    <2>2. /\ row.state = state
          /\ row.numbers = evidence.report.branches[b].numbers
          /\ row.bounded = evidence.report.branches[b].bounded
          /\ row.marked = evidence.report.branches[b].marked
          /\ row.limited = evidence.report.branches[b].limited
      BY <1>1 DEF ReportBranch
    <2>3. Plant("branch_state", [evidence EXCEPT !.report.branches[b] = row])
      BY <1>3
    <2> HIDE DEF row
    <2>4. QED
      BY <2>1, <2>2, <2>3, BranchDefectInv, <1>2
  <1>4. QED
    BY <1>3 DEF RestateBranch

LEMMA MisreportNumbersInv ==
    ASSUME RulesInv, NEW b \in Branches, MisreportNumbers(b)
    PROVE  RulesInv'
  <1>1. evidence.report.branches[b] \in ReportBranch
    BY DEF RulesInv, WholeEvidence, WholeReport
  <1>2. evidence.report \in WholeReport
    BY DEF RulesInv, WholeEvidence
  <1>3. ReportFits(evidence.report, evidence.table, planted)
    BY DEF RulesInv, DefectsFit
  <1>4. ASSUME Plant("number", [evidence EXCEPT !.report.branches[b].numbers = {1, 2}])
        PROVE  RulesInv'
    <2> DEFINE row == [evidence.report.branches[b] EXCEPT !.numbers = {1, 2}]
    <2>1. row \in ReportBranch
      <3>1. {1, 2} \in SUBSET Numbers
        BY DEF Numbers
      <3>2. QED
        BY <1>1, <3>1 DEF ReportBranch
    <2>2. /\ row.numbers = {1, 2}
          /\ row.state = evidence.report.branches[b].state
          /\ row.bounded = evidence.report.branches[b].bounded
          /\ row.marked = evidence.report.branches[b].marked
          /\ row.limited = evidence.report.branches[b].limited
      BY <1>1 DEF ReportBranch
    <2>3. Plant("number", [evidence EXCEPT !.report.branches[b] = row])
      BY <1>4
    <2> HIDE DEF row
    <2>4. QED
      BY <2>1, <2>2, <2>3, BranchDefectInv
  <1>5. ASSUME Plant("peaks", [evidence EXCEPT !.report.declaredPeaks = 2])
        PROVE  RulesInv'
    <2> DEFINE report == [evidence.report EXCEPT !.declaredPeaks = 2]
    <2>1. report \in WholeReport
      BY <1>2 DEF WholeReport, Resolutions
    <2>2. /\ report.declaredPeaks = 2
          /\ report.branches = evidence.report.branches
          /\ report.digests = evidence.report.digests
          /\ report.cited = evidence.report.cited
      BY <1>2 DEF WholeReport
    <2>3. Plant("peaks", [evidence EXCEPT !.report = report])
      BY <1>5
    <2> HIDE DEF report
    <2>4. ReportFits(report, evidence.table, planted \cup {"peaks"})
      BY <1>3, <2>2 DEF ReportFits
    <2>5. QED
      BY <2>1, <2>3, <2>4, ReportDefectInv DEF ReportDefects
  <1>6. ASSUME Plant("report_digest", [evidence EXCEPT !.report.digests = "disagree"])
        PROVE  RulesInv'
    <2> DEFINE report == [evidence.report EXCEPT !.digests = "disagree"]
    <2>1. report \in WholeReport
      BY <1>2 DEF WholeReport, Resolutions
    <2>2. /\ report.digests = "disagree"
          /\ report.branches = evidence.report.branches
          /\ report.declaredPeaks = evidence.report.declaredPeaks
          /\ report.cited = evidence.report.cited
      BY <1>2 DEF WholeReport
    <2>3. Plant("report_digest", [evidence EXCEPT !.report = report])
      BY <1>6
    <2> HIDE DEF report
    <2>4. ReportFits(report, evidence.table, planted \cup {"report_digest"})
      BY <1>3, <2>2 DEF ReportFits
    <2>5. QED
      BY <2>1, <2>3, <2>4, ReportDefectInv DEF ReportDefects
  <1>7. QED
    BY <1>4, <1>5, <1>6 DEF MisreportNumbers

LEMMA CiteIdentifierInv ==
    ASSUME RulesInv, NEW resolution \in Resolutions, CiteIdentifier(resolution)
    PROVE  RulesInv'
  <1>1. resolution \in {"unsupported", "unreachable"}
    BY DEF CiteIdentifier, Resolutions
  <1>2. evidence.report \in WholeReport
    BY DEF RulesInv, WholeEvidence
  <1>3. ReportFits(evidence.report, evidence.table, planted)
    BY DEF RulesInv, DefectsFit
  <1>4. ASSUME Plant("citation", [evidence EXCEPT !.report.cited = {"supported", resolution}])
        PROVE  RulesInv'
    <2> DEFINE report == [evidence.report EXCEPT !.cited = {"supported", resolution}]
    <2>1. report \in WholeReport
      BY <1>2 DEF WholeReport, Resolutions
    <2>2. /\ report.cited = {"supported", resolution}
          /\ report.branches = evidence.report.branches
          /\ report.declaredPeaks = evidence.report.declaredPeaks
          /\ report.digests = evidence.report.digests
      BY <1>2 DEF WholeReport
    <2>3. Plant("citation", [evidence EXCEPT !.report = report])
      BY <1>4
    <2> HIDE DEF report
    <2>4. ReportFits(report, evidence.table, planted \cup {"citation"})
      BY <1>1, <1>3, <2>2 DEF ReportFits
    <2>5. QED
      BY <2>1, <2>3, <2>4, ReportDefectInv DEF ReportDefects
  <1>5. QED
    BY <1>4 DEF CiteIdentifier

LEMMA BreachBoundaryInv ==
    ASSUME RulesInv, NEW b \in Branches, BreachBoundary(b)
    PROVE  RulesInv'
  <1>1. evidence.report.branches[b] \in ReportBranch
    BY DEF RulesInv, WholeEvidence, WholeReport
  <1>2. ASSUME Plant("clinical", [evidence EXCEPT !.report.branches[b].bounded = FALSE])
        PROVE  RulesInv'
    <2> DEFINE row == [evidence.report.branches[b] EXCEPT !.bounded = FALSE]
    <2>1. row \in ReportBranch
      BY <1>1 DEF ReportBranch
    <2>2. /\ row.bounded = FALSE
          /\ row.state = evidence.report.branches[b].state
          /\ row.numbers = evidence.report.branches[b].numbers
          /\ row.marked = evidence.report.branches[b].marked
          /\ row.limited = evidence.report.branches[b].limited
      BY <1>1 DEF ReportBranch
    <2>3. Plant("clinical", [evidence EXCEPT !.report.branches[b] = row])
      BY <1>2
    <2> HIDE DEF row
    <2>4. QED
      BY <2>1, <2>2, <2>3, BranchDefectInv
  <1>3. ASSUME Plant("scope", [evidence EXCEPT !.report.branches[b].marked = FALSE])
        PROVE  RulesInv'
    <2> DEFINE row == [evidence.report.branches[b] EXCEPT !.marked = FALSE]
    <2>1. row \in ReportBranch
      BY <1>1 DEF ReportBranch
    <2>2. /\ row.marked = FALSE
          /\ row.state = evidence.report.branches[b].state
          /\ row.numbers = evidence.report.branches[b].numbers
          /\ row.bounded = evidence.report.branches[b].bounded
          /\ row.limited = evidence.report.branches[b].limited
      BY <1>1 DEF ReportBranch
    <2>3. Plant("scope", [evidence EXCEPT !.report.branches[b] = row])
      BY <1>3
    <2> HIDE DEF row
    <2>4. QED
      BY <2>1, <2>2, <2>3, BranchDefectInv
  <1>4. evidence.table \in [Branches -> TableRow]
    BY DEF RulesInv, WholeEvidence
  <1>5. TableFits(evidence.table, planted)
    BY DEF RulesInv, DefectsFit
  <1>6. ASSUME Plant("limitation", [evidence EXCEPT !.report.branches[b].limited = FALSE])
        PROVE  RulesInv'
    <2> DEFINE row == [evidence.report.branches[b] EXCEPT !.limited = FALSE]
    <2>1. row \in ReportBranch
      BY <1>1 DEF ReportBranch
    <2>2. /\ row.limited = FALSE
          /\ row.state = evidence.report.branches[b].state
          /\ row.numbers = evidence.report.branches[b].numbers
          /\ row.bounded = evidence.report.branches[b].bounded
          /\ row.marked = evidence.report.branches[b].marked
      BY <1>1 DEF ReportBranch
    <2>3. Plant("limitation", [evidence EXCEPT !.report.branches[b] = row])
      BY <1>6
    <2> HIDE DEF row
    <2>4. QED
      BY <2>1, <2>2, <2>3, BranchDefectInv
  <1>7. ASSUME Plant("table_scope", [evidence EXCEPT !.table[b].marked = FALSE])
        PROVE  RulesInv'
    <2> DEFINE table == [evidence.table EXCEPT ![b].marked = FALSE]
    <2>1. table \in [Branches -> TableRow]
      BY <1>4 DEF TableRow
    <2>2. /\ table[b].marked = FALSE
          /\ \A c \in Branches :
              /\ table[c].state = evidence.table[c].state
              /\ table[c].numbers = evidence.table[c].numbers
              /\ table[c].bounded = evidence.table[c].bounded
              /\ c # b => table[c].marked = evidence.table[c].marked
      BY <1>4 DEF TableRow
    <2>3. Plant("table_scope", [evidence EXCEPT !.table = table])
      BY <1>7
    <2> HIDE DEF table
    <2>4. TableFits(table, planted \cup {"table_scope"})
      BY <1>5, <2>2 DEF TableFits
    <2>5. QED
      BY <2>1, <2>2, <2>3, <2>4, TableDefectInv DEF TableDefects
  <1>8. ASSUME Plant("table_clinical", [evidence EXCEPT !.table[b].bounded = FALSE])
        PROVE  RulesInv'
    <2> DEFINE table == [evidence.table EXCEPT ![b].bounded = FALSE]
    <2>1. table \in [Branches -> TableRow]
      BY <1>4 DEF TableRow
    <2>2. /\ table[b].bounded = FALSE
          /\ \A c \in Branches :
              /\ table[c].state = evidence.table[c].state
              /\ table[c].numbers = evidence.table[c].numbers
              /\ table[c].marked = evidence.table[c].marked
              /\ c # b => table[c].bounded = evidence.table[c].bounded
      BY <1>4 DEF TableRow
    <2>3. Plant("table_clinical", [evidence EXCEPT !.table = table])
      BY <1>8
    <2> HIDE DEF table
    <2>4. TableFits(table, planted \cup {"table_clinical"})
      BY <1>5, <2>2 DEF TableFits
    <2>5. QED
      BY <2>1, <2>2, <2>3, <2>4, TableDefectInv DEF TableDefects
  <1>9. QED
    BY <1>2, <1>3, <1>6, <1>7, <1>8 DEF BreachBoundary

LEMMA MisstateLedgerInv ==
    ASSUME RulesInv, NEW role \in Roles, MisstateLedger(role)
    PROVE  RulesInv'
  <1>1. evidence.ledger \in WholeLedger
    BY DEF RulesInv, WholeEvidence
  <1>2. LedgerFits(evidence.ledger, evidence.table, planted)
    BY DEF RulesInv, DefectsFit
  <1>3. ASSUME Plant("ledger_provenance", [evidence EXCEPT !.ledger.provenance = FALSE])
        PROVE  RulesInv'
    <2> DEFINE ledger == [evidence.ledger EXCEPT !.provenance = FALSE]
    <2>1. /\ ledger \in WholeLedger /\ ledger.provenance = FALSE
          /\ ledger.listed = evidence.ledger.listed
          /\ ledger.science = evidence.ledger.science
      BY <1>1 DEF WholeLedger
    <2>2. Plant("ledger_provenance", [evidence EXCEPT !.ledger = ledger])
      BY <1>3
    <2> HIDE DEF ledger
    <2>3. LedgerFits(ledger, evidence.table, planted \cup {"ledger_provenance"})
      BY <1>2, <2>1 DEF LedgerFits
    <2>4. QED
      BY <2>1, <2>2, <2>3, LedgerDefectInv DEF LedgerDefects
  <1>4. ASSUME NEW kind \in {"ledger_entry", "ledger_omission"},
               NEW said \in {"disagree", "unlisted"}, role # "ledger",
               Plant(kind, [evidence EXCEPT !.ledger.listed[role] = said])
        PROVE  RulesInv'
    <2> DEFINE ledger == [evidence.ledger EXCEPT !.listed[role] = said]
    <2>1. /\ ledger \in WholeLedger /\ ledger.provenance = evidence.ledger.provenance
          /\ ledger.listed[role] = said
          /\ \A r \in Roles \ {role} : ledger.listed[r] = evidence.ledger.listed[r]
          /\ ledger.science = evidence.ledger.science
      BY <1>1 DEF WholeLedger
    <2>2. Plant(kind, [evidence EXCEPT !.ledger = ledger])
      BY <1>4
    <2> HIDE DEF ledger
    <2>3. LedgerFits(ledger, evidence.table, planted \cup {kind})
      <3>1. /\ ledger.listed["ledger"] = "unlisted"
            /\ \E r \in Roles \ {"ledger"} : ledger.listed[r] # "agree"
        BY <1>2, <1>4, <2>1 DEF LedgerFits, Roles
      <3>2. QED
        BY <1>2, <2>1, <3>1 DEF LedgerFits
    <2>4. QED
      BY <2>1, <2>2, <2>3, LedgerDefectInv DEF LedgerDefects
  <1>5. QED
    BY <1>3, <1>4 DEF MisstateLedger

LEMMA OverclaimEvidenceInv ==
    ASSUME RulesInv, NEW b \in Branches, NEW kind \in Kinds, OverclaimEvidence(b, kind)
    PROVE  RulesInv'
  <1> DEFINE ledger == [evidence.ledger EXCEPT !.science[b] = kind]
  <1>1. evidence.ledger \in WholeLedger
    BY DEF RulesInv, WholeEvidence
  <1>2. LedgerFits(evidence.ledger, evidence.table, planted)
    BY DEF RulesInv, DefectsFit
  <1>3. /\ ledger \in WholeLedger /\ ledger.provenance = evidence.ledger.provenance
        /\ ledger.listed = evidence.ledger.listed
        /\ ledger.science[b] = kind
        /\ \A c \in Branches \ {b} : ledger.science[c] = evidence.ledger.science[c]
    BY <1>1 DEF WholeLedger
  <1>4. Plant("evidence_kind", [evidence EXCEPT !.ledger = ledger])
    BY DEF OverclaimEvidence
  <1>5. Overclaims(kind, evidence.table[b].state)
    BY DEF OverclaimEvidence, Overclaims
  <1> HIDE DEF ledger
  <1>6. LedgerFits(ledger, evidence.table, planted \cup {"evidence_kind"})
    <2>1. \E c \in Branches : Overclaims(ledger.science[c], evidence.table[c].state)
      BY <1>3, <1>5
    <2>2. QED
      BY <1>2, <1>3, <2>1 DEF LedgerFits
  <1>7. QED
    BY <1>3, <1>4, <1>6, LedgerDefectInv DEF LedgerDefects

LEMMA RulesNextInv ==
    ASSUME RulesInv, [RulesNext]_reviewerVars
    PROVE  RulesInv'
  <1>1. CASE RulesNext
    BY <1>1, DamageContentInv, GarbleDocumentInv, LoseExecutionInv, MisrecordOutputInv,
       MisstateLedgerInv, OverclaimEvidenceInv, RestateBranchInv, MisreportNumbersInv,
       BreachBoundaryInv, CiteIdentifierInv DEF RulesNext
  <1>2. CASE UNCHANGED reviewerVars
    BY <1>2 DEF reviewerVars, RulesInv
  <1>3. QED
    BY <1>1, <1>2

\* A Review passes exactly when nothing is wrong with the evidence, evidence that is
\* only gone is never held against it, and tampering never becomes invisible
\* (reviewer.py: rules RV01 to RV05 and the summary verdict).
THEOREM VerdictsAreEarnedAlways ==
    ASSUME RulesAssumption
    PROVE  RulesSpec => []VerdictsAreEarned
  <1>1. RulesInit => RulesInv
    BY RulesInitInv
  <1>2. RulesInv /\ [RulesNext]_reviewerVars => RulesInv'
    BY RulesNextInv
  <1>3. RulesInv => VerdictsAreEarned
    BY InvariantEarnsVerdicts
  <1>4. QED
    BY <1>1, <1>2, <1>3, PTL DEF RulesSpec

LEMMA EveryStepPlants ==
    ASSUME RulesNext
    PROVE  planted' # {}
  <1>1. ASSUME NEW kind, NEW e, Plant(kind, e) PROVE planted' # {}
    BY <1>1 DEF Plant
  <1>2. QED
    BY <1>1 DEF RulesNext, DamageContent, GarbleDocument, LoseExecution, MisrecordOutput,
       MisstateLedger, OverclaimEvidence, RestateBranch, MisreportNumbers, CiteIdentifier,
       BreachBoundary

\* Damage never turns a Review that does not pass into one that does.
THEOREM DamageNeverLaundersAlways ==
    ASSUME RulesAssumption
    PROVE  RulesSpec => DamageNeverLaunders
  <1>1. RulesInv' /\ [RulesNext]_reviewerVars =>
            [Verdict(evidence) # "pass" => Verdict(evidence') # "pass"]_reviewerVars
    <2> SUFFICES ASSUME RulesInv', RulesNext PROVE Verdict(evidence') # "pass"
      BY DEF reviewerVars
    <2>1. evidence' \in WholeEvidence /\ DefectsFit(evidence', planted')
      BY DEF RulesInv
    <2>2. QED
      BY <2>1, EveryStepPlants, PassIsClean
  <1>2. RulesInit => RulesInv
    BY RulesInitInv
  <1>3. RulesInv /\ [RulesNext]_reviewerVars => RulesInv'
    BY RulesNextInv
  <1>4. QED
    BY <1>1, <1>2, <1>3, PTL DEF RulesSpec, DamageNeverLaunders
=============================================================================
