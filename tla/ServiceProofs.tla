--------------------------- MODULE ServiceProofs ----------------------------
(***************************************************************************)
(* Proofs about what receives, keeps and hands out content: create_version  *)
(* commits at most one Version for a watcher reference and answers only with*)
(* it, a download outlives no token, an upload's size is known exactly      *)
(* before it is decoded and its answer is its own, and published content    *)
(* survives; for any number of references, Versions, tokens, uploads and    *)
(* objects, any sequence of failures, any clock and any size.               *)
(***************************************************************************)
EXTENDS ArtifactCommit, SignedDownloads, UploadStaging, BlobDurability,
        WellFoundedInduction, TLAPS

(***************************************************************************)
(* create_version.                                                          *)
(***************************************************************************)
(***************************************************************************)
(* The three writes of a recovery record and the store's append, as facts   *)
(* about the rows they leave.                                               *)
(***************************************************************************)

\* What an append leaves in the store.
LEMMA AppendRow ==
    ASSUME NEW v, NEW row, AppendVersion(v, row)
    PROVE  /\ DOMAIN versions' = DOMAIN versions \cup {v}
           /\ versions'[v] = row
           /\ \A w \in DOMAIN versions : w # v => versions'[w] = versions[w]
  BY DEF AppendVersion

\* A stored Version is a typed row, and so is the row an intent appends.
LEMMA AppendType ==
    ASSUME TypeOK, NEW v \in Versions, NEW row \in StoredVersion,
           AppendVersion(v, row)
    PROVE  /\ DOMAIN versions' \subseteq Versions
           /\ versions' \in [DOMAIN versions' -> StoredVersion]
  BY DEF TypeOK, AppendVersion

\* The type of an intent's parts.
LEMMA IntentType ==
    ASSUME TypeOK, intent # NoCommit
    PROVE  /\ intent \in PendingArtifactCommit
           /\ Reference \in References
           /\ intent.version \in Versions
           /\ intent.scope \in Scopes
           /\ intent.draft \in VersionDraft
           /\ intent.draft.artifact \in Artifacts
           /\ intent.draft.base \in Nat
  BY CommitAssumption DEF TypeOK, PendingArtifactCommit, VersionDraft, Reference

\* Claiming a pending commit keeps the record and fence typed.
LEMMA ClaimPendingType ==
    ASSUME TypeOK, intent # NoCommit, ClaimPending
    PROVE  /\ outputs' \in [References -> OutputState \cup {NoOutput}]
           /\ reconciliation' \in [References ->
                PendingArtifactCommit \cup CompletedArtifactCommit \cup {NoCommit}]
  <1>1. outputs[Reference] \in OutputState
    BY IntentType DEF TypeOK, ClaimPending, Claimable
  <1>2. [outputs[Reference] EXCEPT !.claim = intent.version] \in OutputState
    BY <1>1, IntentType DEF OutputState
  <1> QED
    BY <1>2, IntentType DEF TypeOK, ClaimPending

\* Completing a commit keeps the record and fence typed.
LEMMA SaveCompletedType ==
    ASSUME TypeOK, FenceFollowsIntent, intent # NoCommit, SaveCompleted
    PROVE  /\ outputs' \in [References -> OutputState \cup {NoOutput}]
           /\ reconciliation' \in [References ->
                PendingArtifactCommit \cup CompletedArtifactCommit \cup {NoCommit}]
  <1>1. outputs[Reference] \in OutputState
    BY IntentType DEF TypeOK, SaveCompleted, FenceFollowsIntent
  <1>2. [scope |-> outputs[Reference].scope, claim |-> NoToken,
         consumed |-> intent.version] \in OutputState
    BY <1>1, IntentType DEF OutputState
  <1>3. [kind |-> "completed", scope |-> intent.scope, draft |-> intent.draft,
         version |-> intent.version] \in CompletedArtifactCommit
    BY IntentType DEF CompletedArtifactCommit
  <1> QED
    BY <1>2, <1>3, IntentType DEF TypeOK, SaveCompleted

\* Discarding an intent keeps the record and fence typed.
LEMMA DiscardPendingType ==
    ASSUME TypeOK, FenceFollowsIntent, intent # NoCommit, DiscardPending
    PROVE  /\ outputs' \in [References -> OutputState \cup {NoOutput}]
           /\ reconciliation' \in [References ->
                PendingArtifactCommit \cup CompletedArtifactCommit \cup {NoCommit}]
  <1>1. outputs[Reference] \in OutputState
    BY IntentType DEF TypeOK, DiscardPending, FenceFollowsIntent
  <1>2. [outputs[Reference] EXCEPT !.claim = NoToken] \in OutputState
    BY <1>1 DEF OutputState
  <1> QED
    BY <1>2, IntentType DEF TypeOK, DiscardPending

(***************************************************************************)
(* Type correctness.  The writes need the fence invariant: they update the  *)
(* fields of an output that must be there.                                  *)
(***************************************************************************)

\* Watcher operations keep the types.
LEMMA WatcherType ==
    ASSUME TypeOK, WatcherNext
    PROVE  TypeOK'
  <1>1. ASSUME NEW r \in References, NEW scope \in Scopes, RegisterOutput(r, scope)
        PROVE  TypeOK'
    BY <1>1 DEF TypeOK, RegisterOutput, OutputState, storeVars, callVars
  <1>2. ASSUME NEW r \in References, NEW scope \in Scopes, NEW t \in Tokens,
               ClaimOutput(r, scope, t)
        PROVE  TypeOK'
    <2>1. outputs[r] \in OutputState
      BY <1>2 DEF TypeOK, ClaimOutput, Claimable
    <2>2. [outputs[r] EXCEPT !.claim = t] \in OutputState
      BY <2>1 DEF OutputState
    <2> QED
      BY <1>2, <2>2 DEF TypeOK, ClaimOutput, storeVars, callVars
  <1>3. ASSUME NEW r \in References, NEW t \in Tokens,
               ReleaseClaim(r, t) \/ FinalizeClaim(r, t)
        PROVE  TypeOK'
    <2>1. outputs[r] \in OutputState
      BY <1>3 DEF TypeOK, ReleaseClaim, FinalizeClaim, ActiveClaim
    <2>2. /\ [outputs[r] EXCEPT !.claim = NoToken] \in OutputState
          /\ [scope |-> outputs[r].scope, claim |-> NoToken, consumed |-> t]
                \in OutputState
      BY <2>1 DEF OutputState
    <2> QED
      BY <1>3, <2>2 DEF TypeOK, ReleaseClaim, FinalizeClaim, storeVars, callVars
  <1> QED
    BY <1>1, <1>2, <1>3 DEF WatcherNext

\* Beginning a call keeps the types.
LEMMA CallType ==
    ASSUME TypeOK, CallNext
    PROVE  TypeOK'
  <1>1. ASSUME NEW scope \in Scopes, NEW draft \in VersionDraft,
               ReturnCompleted(scope, draft)
        PROVE  TypeOK'
    <2>1. /\ draft.reference \in References
          /\ reconciliation[draft.reference].version \in Versions
      BY <1>1 DEF TypeOK, ReturnCompleted, VersionDraft, PendingArtifactCommit,
                  CompletedArtifactCommit
    <2> QED
      BY <1>1, <2>1 DEF TypeOK, ReturnCompleted, recoveryVars, storeVars, callVars
  <1>2. ASSUME NEW scope \in Scopes, NEW draft \in VersionDraft,
               RetryPending(scope, draft)
        PROVE  TypeOK'
    <2>1. draft.reference \in References
      BY DEF VersionDraft
    <2>2. reconciliation[draft.reference] \in PendingArtifactCommit
      BY <1>2, <2>1 DEF TypeOK, RetryPending, PendingArtifactCommit,
                        CompletedArtifactCommit
    <2> QED
      BY <1>2, <2>2 DEF TypeOK, RetryPending, recoveryVars, storeVars, Points
  <1>3. ASSUME NEW scope \in Scopes, NEW draft \in VersionDraft,
               NEW v \in Versions, CreateFresh(scope, draft, v)
        PROVE  TypeOK'
    BY <1>3 DEF TypeOK, CreateFresh, recoveryVars, storeVars, Points,
                PendingArtifactCommit
  <1> QED
    BY <1>1, <1>2, <1>3 DEF CallNext

\* The steps of a call keep the types.
LEMMA StepType ==
    ASSUME TypeOK, FenceFollowsIntent, CallOwnsItsRecord, StepNext
    PROVE  TypeOK'
  <1>0. intent # NoCommit
    BY DEF CallOwnsItsRecord, StepNext, PrepareCommit, Complete, Discard,
           WriteUnreported, CommitVersion, CommitRefused, CommitFails,
           CommitUnreported, VersionFound, VersionMissing, CallCut, Committing,
           Reading
  <1>1. CASE PrepareCommit
    BY <1>0, <1>1, ClaimPendingType
       DEF TypeOK, PrepareCommit, ClaimPending, storeVars, Points
  <1>2. CASE Complete
    BY <1>0, <1>2, SaveCompletedType, IntentType
       DEF TypeOK, Complete, SaveCompleted, storeVars, Points, EndCall
  <1>3. CASE Discard
    BY <1>0, <1>3, DiscardPendingType
       DEF TypeOK, Discard, DiscardPending, storeVars, Points, EndCall
  <1>4. CASE WriteUnreported
    <2>1. /\ outputs' \in [References -> OutputState \cup {NoOutput}]
          /\ reconciliation' \in [References ->
                PendingArtifactCommit \cup CompletedArtifactCommit \cup {NoCommit}]
      BY <1>0, <1>4, ClaimPendingType, SaveCompletedType, DiscardPendingType
         DEF WriteUnreported
    <2>2. UNCHANGED <<issued, versions, archived, returned>> /\ EndCall
      BY <1>4 DEF WriteUnreported, ClaimPending, SaveCompleted, DiscardPending,
                  storeVars
    <2> QED
      BY <2>1, <2>2 DEF TypeOK, Points, EndCall
  <1>5. CASE CommitVersion \/ CommitUnreported
    <2>1. [reference |-> Reference, artifact |-> intent.draft.artifact,
           no |-> intent.draft.base + 1] \in StoredVersion
      BY <1>0, IntentType DEF StoredVersion
    <2>2. /\ DOMAIN versions' \subseteq Versions
          /\ versions' \in [DOMAIN versions' -> StoredVersion]
      BY <1>0, <1>5, <2>1, IntentType, AppendType
         DEF CommitVersion, CommitUnreported, AppendIntent
    <2> QED
      BY <1>5, <2>2 DEF TypeOK, CommitVersion, CommitUnreported, recoveryVars,
                        Points, AfterError
  <1>6. CASE CommitRefused \/ CommitFails \/ VersionFound \/ VersionMissing \/ CallCut
    BY <1>6 DEF TypeOK, CommitRefused, CommitFails, VersionFound, VersionMissing,
                CallCut, recoveryVars, storeVars, Points, AfterError, EndCall
  <1> QED
    BY <1>1, <1>2, <1>3, <1>4, <1>5, <1>6 DEF StepNext

\* Commits by other instances and archival keep the types.
LEMMA EnvType ==
    ASSUME TypeOK, EnvNext
    PROVE  TypeOK'
  <1>1. ASSUME NEW v \in Versions, NEW a \in Artifacts, NEW base \in Bases,
               OtherCommit(v, a, base)
        PROVE  TypeOK'
    <2>1. [reference |-> NoReference, artifact |-> a, no |-> base + 1]
            \in StoredVersion
      BY CommitAssumption DEF StoredVersion
    <2>2. /\ DOMAIN versions' \subseteq Versions
          /\ versions' \in [DOMAIN versions' -> StoredVersion]
      BY <1>1, <2>1, AppendType DEF OtherCommit
    <2> QED
      BY <1>1, <2>2 DEF TypeOK, OtherCommit, recoveryVars, callVars
  <1>2. CASE ArchiveProject
    BY <1>2 DEF TypeOK, ArchiveProject, recoveryVars, callVars
  <1> QED
    BY <1>1, <1>2 DEF EnvNext

(***************************************************************************)
(* What the three record writes do to the invariant.                        *)
(***************************************************************************)

\* The part of the invariant that speaks of the recovery records.
RecordInv ==
    /\ FenceExclusive
    /\ FenceFollowsIntent
    /\ RecordsOwnTheirVersions
    /\ CommittedVersionsAreTracked
    /\ AnswersAreRecorded

\* Persisting a fresh intent: its reference had no record, so no Version was
\* committed for it in an active Project, and the new Version id is unused.
LEMMA ClaimPendingInv ==
    ASSUME CommitInv, at = "prepare", ClaimPending,
           UNCHANGED <<versions, archived, returned>>
    PROVE  RecordInv'
  <1>0. intent # NoCommit
    BY DEF CommitInv, CallOwnsItsRecord
  <1> DEFINE R == Reference
  <1>1. /\ R \in References /\ intent \in PendingArtifactCommit
        /\ intent.kind = "pending" /\ intent.draft.reference = R
        /\ intent.version \in Versions
    BY <1>0, IntentType DEF CommitInv, PendingArtifactCommit, Reference
  <1>2. /\ outputs[R] \in OutputState /\ outputs[R].consumed = NoToken
        /\ reconciliation[R] = NoCommit
    BY <1>1 DEF CommitInv, TypeOK, ClaimPending, Claimable
  <1>3. /\ outputs'[R].claim = intent.version
        /\ outputs'[R].consumed = NoToken
        /\ outputs'[R] # NoOutput
        /\ reconciliation'[R] = intent
    <2>1. outputs'[R] = [outputs[R] EXCEPT !.claim = intent.version]
      BY <1>1 DEF CommitInv, TypeOK, ClaimPending
    <2>2. outputs'[R] \in OutputState
      BY <1>1, <1>2, <2>1 DEF OutputState
    <2> QED
      BY <1>1, <1>2, <2>1, <2>2, CommitAssumption
         DEF CommitInv, TypeOK, ClaimPending, OutputState
  <1>4. \A r \in References : r # R =>
            outputs'[r] = outputs[r] /\ reconciliation'[r] = reconciliation[r]
    BY <1>1 DEF CommitInv, TypeOK, ClaimPending
  <1> HIDE DEF R
  <1>5. FenceExclusive'
    BY <1>3, <1>4 DEF CommitInv, FenceExclusive
  <1>6. FenceFollowsIntent'
    BY <1>1, <1>3, <1>4 DEF CommitInv, FenceFollowsIntent, CommittedFor
  <1>7. RecordsOwnTheirVersions'
    <2>1. /\ intent.version \notin DOMAIN versions
          /\ \A r \in References : reconciliation[r] # NoCommit =>
                reconciliation[r].version # intent.version
      BY DEF CommitInv, CallOwnsItsRecord
    <2> QED
      BY <1>3, <1>4, <2>1 DEF CommitInv, RecordsOwnTheirVersions
  <1>8. CommittedVersionsAreTracked'
    BY <1>2, <1>3, <1>4 DEF CommitInv, CommittedVersionsAreTracked, CommittedFor
  <1>9. AnswersAreRecorded'
    <2> SUFFICES ASSUME NEW x \in returned
                 PROVE  /\ reconciliation'[x[1]] # NoCommit
                        /\ reconciliation'[x[1]].kind = "completed"
                        /\ reconciliation'[x[1]].version = x[2]
      BY DEF AnswersAreRecorded
    <2>1. x[1] \in References
      BY DEF CommitInv, TypeOK
    <2> QED
      BY <1>2, <1>4, <2>1 DEF CommitInv, AnswersAreRecorded
  <1> QED
    BY <1>5, <1>6, <1>7, <1>8, <1>9 DEF RecordInv

\* Recording the result of a commit whose Version is stored.
LEMMA SaveCompletedInv ==
    ASSUME CommitInv, at = "complete", SaveCompleted,
           UNCHANGED <<versions, archived>>,
           \/ UNCHANGED returned
           \/ returned' = returned \cup {<<Reference, intent.version>>}
    PROVE  RecordInv'
  <1>0. intent # NoCommit
    BY DEF CommitInv, CallOwnsItsRecord
  <1> DEFINE R == Reference
             done == [kind |-> "completed", scope |-> intent.scope,
                      draft |-> intent.draft, version |-> intent.version]
             fenced == [scope |-> outputs[R].scope, claim |-> NoToken,
                        consumed |-> intent.version]
  <1>1. /\ R \in References /\ intent \in PendingArtifactCommit
        /\ intent.draft.reference = R /\ intent.version \in Versions
    BY <1>0, IntentType DEF CommitInv, PendingArtifactCommit, Reference
  <1>2. /\ outputs[R] # NoOutput /\ reconciliation[R] = intent
    BY <1>0, <1>1 DEF CommitInv, SaveCompleted, FenceFollowsIntent
  <1>3. /\ outputs'[R] = fenced
        /\ reconciliation'[R] = done
        /\ fenced \in OutputState
        /\ done \in CompletedArtifactCommit
    BY <1>0, <1>1, <1>2, IntentType
       DEF CommitInv, TypeOK, SaveCompleted, OutputState, CompletedArtifactCommit
  <1>4. /\ fenced # NoOutput /\ done # NoCommit
        /\ fenced.claim = NoToken /\ fenced.consumed = intent.version
        /\ done.kind = "completed" /\ done.version = intent.version
        /\ done.draft.reference = R
    BY <1>1, <1>3, CommitAssumption
  <1>5. \A r \in References : r # R =>
            outputs'[r] = outputs[r] /\ reconciliation'[r] = reconciliation[r]
    BY <1>1 DEF CommitInv, TypeOK, SaveCompleted
  <1>6. intent.version \in CommittedFor(R)
    BY DEF CommitInv, CallOwnsItsRecord
  <1> HIDE DEF R, done, fenced
  <1>7. FenceExclusive'
    BY <1>3, <1>4, <1>5 DEF CommitInv, FenceExclusive
  <1>8. FenceFollowsIntent'
    BY <1>3, <1>4, <1>5, <1>6 DEF CommitInv, FenceFollowsIntent, CommittedFor
  <1>9. RecordsOwnTheirVersions'
    BY <1>0, <1>1, <1>2, <1>3, <1>4, <1>5 DEF CommitInv, RecordsOwnTheirVersions
  <1>10. CommittedVersionsAreTracked'
    BY <1>0, <1>1, <1>2, <1>3, <1>4, <1>5
       DEF CommitInv, CommittedVersionsAreTracked, CommittedFor
  <1>11. AnswersAreRecorded'
    <2> SUFFICES ASSUME NEW x \in returned'
                 PROVE  /\ reconciliation'[x[1]] # NoCommit
                        /\ reconciliation'[x[1]].kind = "completed"
                        /\ reconciliation'[x[1]].version = x[2]
      BY DEF AnswersAreRecorded
    <2>1. CASE x = <<Reference, intent.version>>
      BY <1>3, <1>4, <2>1 DEF R
    <2>2. CASE x \in returned
      <3>1. x[1] \in References
        BY <2>2 DEF CommitInv, TypeOK
      <3>2. x[1] # R
        BY <1>1, <1>2, <2>2 DEF CommitInv, AnswersAreRecorded, PendingArtifactCommit
      <3> QED
        BY <1>5, <2>2, <3>1, <3>2 DEF CommitInv, AnswersAreRecorded
    <2> QED
      BY <2>1, <2>2
  <1> QED
    BY <1>7, <1>8, <1>9, <1>10, <1>11 DEF RecordInv

\* Discarding an intent whose Version is not stored, or whose Project is
\* archived, forgets no Version of an active Project.
LEMMA DiscardPendingInv ==
    ASSUME CommitInv, at = "discard", DiscardPending,
           UNCHANGED <<versions, archived, returned>>
    PROVE  RecordInv'
  <1>0. intent # NoCommit
    BY DEF CommitInv, CallOwnsItsRecord
  <1> DEFINE R == Reference
  <1>1. /\ R \in References /\ intent \in PendingArtifactCommit
        /\ intent.kind = "pending" /\ intent.version \in Versions
    BY <1>0, IntentType DEF CommitInv, PendingArtifactCommit
  <1>2. /\ outputs[R] # NoOutput /\ reconciliation[R] = intent
        /\ archived \/ intent.version \notin DOMAIN versions
    BY <1>0, <1>1 DEF CommitInv, DiscardPending, FenceFollowsIntent,
                      CallOwnsItsRecord
  <1>3. /\ outputs'[R].claim = NoToken
        /\ reconciliation'[R] = NoCommit
    <2>1. outputs[R] \in OutputState
      BY <1>1, <1>2 DEF CommitInv, TypeOK
    <2>2. outputs'[R] = [outputs[R] EXCEPT !.claim = NoToken]
      BY <1>1 DEF CommitInv, TypeOK, DiscardPending
    <2> QED
      BY <1>1, <2>1, <2>2 DEF CommitInv, TypeOK, DiscardPending, OutputState
  <1>4. \A r \in References : r # R =>
            outputs'[r] = outputs[r] /\ reconciliation'[r] = reconciliation[r]
    BY <1>1 DEF CommitInv, TypeOK, DiscardPending
  <1> HIDE DEF R
  <1>5. FenceExclusive'
    BY <1>3, <1>4 DEF CommitInv, FenceExclusive
  <1>6. FenceFollowsIntent'
    BY <1>3, <1>4 DEF CommitInv, FenceFollowsIntent, CommittedFor
  <1>7. RecordsOwnTheirVersions'
    BY <1>3, <1>4 DEF CommitInv, RecordsOwnTheirVersions
  <1>8. CommittedVersionsAreTracked'
    BY <1>1, <1>2, <1>3, <1>4
       DEF CommitInv, CommittedVersionsAreTracked, CommittedFor
  <1>9. AnswersAreRecorded'
    <2> SUFFICES ASSUME NEW x \in returned
                 PROVE  /\ reconciliation'[x[1]] # NoCommit
                        /\ reconciliation'[x[1]].kind = "completed"
                        /\ reconciliation'[x[1]].version = x[2]
      BY DEF AnswersAreRecorded
    <2>1. x[1] \in References
      BY DEF CommitInv, TypeOK
    <2>2. x[1] # R
      BY <1>1, <1>2 DEF CommitInv, AnswersAreRecorded
    <2> QED
      BY <1>4, <2>1, <2>2 DEF CommitInv, AnswersAreRecorded
  <1> QED
    BY <1>5, <1>6, <1>7, <1>8, <1>9 DEF RecordInv

(***************************************************************************)
(* What the store's append does to the invariant.                           *)
(***************************************************************************)

\* A Version committed for an intent is the first one of its reference: an
\* earlier one would be the Version its record names.
LEMMA AppendIntentInv ==
    ASSUME CommitInv, Committing, CommitAccepted, AppendIntent,
           UNCHANGED <<recoveryVars, archived, intent, returned>>
    PROVE  /\ RecordInv'
           /\ OneVersionPerReference'
           /\ intent.version \in CommittedFor(Reference)'
  <1>0. intent # NoCommit
    BY DEF CommitInv, CallOwnsItsRecord, Committing
  <1> DEFINE R == Reference
             V == intent.version
             row == [reference |-> R, artifact |-> intent.draft.artifact,
                     no |-> intent.draft.base + 1]
  <1>1. R \in References /\ V \in Versions
    BY <1>0, IntentType DEF CommitInv
  <1>2. reconciliation[R] = intent
    BY DEF CommitInv, CallOwnsItsRecord, Committing
  <1>3. /\ DOMAIN versions' = DOMAIN versions \cup {V}
        /\ versions'[V].reference = R
        /\ \A w \in DOMAIN versions : w # V => versions'[w] = versions[w]
        /\ V \notin DOMAIN versions
        /\ ~archived
    <2>1. AppendVersion(V, row)
      BY DEF AppendIntent
    <2> QED
      BY <2>1, AppendRow DEF CommitAccepted
  <1>4. \A r \in References :
            CommittedFor(r)' = IF r = R THEN CommittedFor(r) \cup {V}
                                        ELSE CommittedFor(r)
    BY <1>1, <1>3 DEF CommittedFor
  <1>5. CommittedFor(R) = {}
    BY <1>0, <1>1, <1>2, <1>3 DEF CommitInv, CommittedVersionsAreTracked, CommittedFor
  <1>6. UNCHANGED <<outputs, reconciliation, issued, archived, returned>>
    BY DEF recoveryVars
  <1> HIDE DEF R, V, row
  <1>7. FenceExclusive'
    BY <1>6 DEF CommitInv, FenceExclusive
  <1>8. FenceFollowsIntent'
    BY <1>4, <1>6 DEF CommitInv, FenceFollowsIntent
  <1>9. RecordsOwnTheirVersions'
    <2>1. ASSUME NEW r \in References, reconciliation[r] # NoCommit,
                 reconciliation[r].version \in DOMAIN versions'
          PROVE  versions'[reconciliation[r].version].reference = r
      <3>1. CASE reconciliation[r].version = V
        <4>1. r = R
          BY <1>0, <1>1, <1>2, <2>1, <3>1 DEF CommitInv, RecordsOwnTheirVersions, V
        <4> QED
          BY <1>3, <3>1, <4>1
      <3>2. CASE reconciliation[r].version # V
        BY <1>3, <2>1, <3>2 DEF CommitInv, RecordsOwnTheirVersions
      <3> QED
        BY <3>1, <3>2
    <2> QED
      BY <1>6, <2>1 DEF CommitInv, RecordsOwnTheirVersions
  <1>10. CommittedVersionsAreTracked'
    BY <1>0, <1>2, <1>4, <1>6 DEF CommitInv, CommittedVersionsAreTracked, V
  <1>11. AnswersAreRecorded'
    BY <1>6 DEF CommitInv, AnswersAreRecorded
  <1>12. OneVersionPerReference'
    BY <1>4, <1>5 DEF CommitInv, OneVersionPerReference
  <1>13. intent.version \in CommittedFor(Reference)'
    BY <1>3 DEF CommittedFor, Reference, R, V
  <1> QED
    BY <1>7, <1>8, <1>9, <1>10, <1>11, <1>12, <1>13 DEF RecordInv

\* Another authority's Version belongs to no reference of this one.
LEMMA OtherCommitInv ==
    ASSUME CommitInv, NEW v \in Versions, NEW a \in Artifacts, NEW base \in Bases,
           OtherCommit(v, a, base)
    PROVE  CommitInv'
  <1> DEFINE row == [reference |-> NoReference, artifact |-> a, no |-> base + 1]
  <1>1. /\ DOMAIN versions' = DOMAIN versions \cup {v}
        /\ versions'[v].reference = NoReference
        /\ \A w \in DOMAIN versions : w # v => versions'[w] = versions[w]
    <2>1. AppendVersion(v, row) /\ row.reference = NoReference
      BY DEF OtherCommit
    <2> HIDE DEF row
    <2> QED
      BY <2>1, AppendRow
  <1>2. /\ v \notin DOMAIN versions
        /\ intent # NoCommit => intent.version # v
        /\ \A r \in References :
              reconciliation[r] # NoCommit => reconciliation[r].version # v
    BY DEF OtherCommit, Fresh
  <1>3. \A r \in References : CommittedFor(r)' = CommittedFor(r)
    BY <1>1, <1>2, CommitAssumption DEF CommittedFor
  <1>4. UNCHANGED <<outputs, reconciliation, issued, archived, at, intent, returned>>
    BY DEF OtherCommit, recoveryVars, callVars
  <1>5. TypeOK'
    BY EnvType DEF CommitInv, EnvNext
  <1>6. FenceExclusive' /\ FenceFollowsIntent'
    BY <1>3, <1>4 DEF CommitInv, FenceExclusive, FenceFollowsIntent
  <1>7. RecordsOwnTheirVersions'
    BY <1>1, <1>2, <1>4 DEF CommitInv, RecordsOwnTheirVersions
  <1>8. CallOwnsItsRecord'
    <2>1. Reference' = Reference /\ (intent # NoCommit => Reference \in References)
      BY <1>4, IntentType DEF CommitInv, Reference
    <2>2. /\ at = "prepare" => intent.version \notin DOMAIN versions'
          /\ at \in {"commit", "recommit", "discard"} =>
                archived \/ intent.version \notin DOMAIN versions'
      BY <1>1, <1>2 DEF CommitInv, CallOwnsItsRecord
    <2>3. at = "complete" => intent.version \in CommittedFor(Reference)'
      BY <1>3, <2>1 DEF CommitInv, CallOwnsItsRecord
    <2> QED
      BY <1>4, <2>1, <2>2, <2>3 DEF CommitInv, CallOwnsItsRecord
  <1>9. CommittedVersionsAreTracked' /\ OneVersionPerReference'
    BY <1>3, <1>4 DEF CommitInv, CommittedVersionsAreTracked, OneVersionPerReference
  <1>10. AnswersAreRecorded'
    BY <1>4 DEF CommitInv, AnswersAreRecorded
  <1> QED
    BY <1>5, <1>6, <1>7, <1>8, <1>9, <1>10 DEF CommitInv

\* Archival only weakens what the invariant asks.
LEMMA ArchiveInv ==
    ASSUME CommitInv, ArchiveProject
    PROVE  CommitInv'
  <1>1. /\ UNCHANGED <<outputs, reconciliation, issued, versions, at, intent, returned>>
        /\ archived' = TRUE
    BY DEF ArchiveProject, recoveryVars, callVars
  <1>2. TypeOK'
    BY EnvType DEF CommitInv, EnvNext
  <1> QED
    BY <1>1, <1>2 DEF CommitInv, FenceExclusive, FenceFollowsIntent,
       RecordsOwnTheirVersions, CallOwnsItsRecord, CommittedVersionsAreTracked,
       OneVersionPerReference, AnswersAreRecorded, CommittedFor, Reference

(***************************************************************************)
(* The watcher, the beginning of a call, and its other steps.               *)
(***************************************************************************)

\* Watcher operations run between calls and touch only outputs that no
\* record fences.
LEMMA WatcherInv ==
    ASSUME CommitInv, WatcherNext
    PROVE  CommitInv'
  <1>1. PICK r \in References :
            /\ at = "idle"
            /\ reconciliation[r] = NoCommit
            /\ \A s \in References : s # r => outputs'[s] = outputs[s]
            /\ outputs'[r] # NoOutput =>
                  outputs'[r].claim = NoToken \/ outputs'[r].consumed = NoToken
    <2>1. ASSUME NEW r \in References, NEW scope \in Scopes,
                 RegisterOutput(r, scope)
          PROVE  /\ at = "idle"
                 /\ reconciliation[r] = NoCommit
                 /\ \A s \in References : s # r => outputs'[s] = outputs[s]
                 /\ outputs'[r].claim = NoToken
      BY <2>1 DEF CommitInv, TypeOK, RegisterOutput, FenceFollowsIntent
    <2>2. ASSUME NEW r \in References, NEW scope \in Scopes, NEW t \in Tokens,
                 ClaimOutput(r, scope, t)
          PROVE  /\ at = "idle"
                 /\ reconciliation[r] = NoCommit
                 /\ \A s \in References : s # r => outputs'[s] = outputs[s]
                 /\ outputs'[r].consumed = NoToken
      <3>1. outputs[r] \in OutputState /\ outputs[r].consumed = NoToken
        BY <2>2 DEF CommitInv, TypeOK, ClaimOutput, Claimable
      <3>2. outputs'[r] = [outputs[r] EXCEPT !.claim = t]
        BY <2>2 DEF CommitInv, TypeOK, ClaimOutput
      <3>3. outputs'[r].consumed = NoToken
        BY <3>1, <3>2 DEF OutputState
      <3> QED
        BY <2>2, <3>3 DEF CommitInv, TypeOK, ClaimOutput, Claimable
    <2>3. ASSUME NEW r \in References, NEW t \in Tokens,
                 ReleaseClaim(r, t) \/ FinalizeClaim(r, t)
          PROVE  /\ at = "idle"
                 /\ reconciliation[r] = NoCommit
                 /\ \A s \in References : s # r => outputs'[s] = outputs[s]
                 /\ outputs'[r].claim = NoToken
      <3>1. outputs[r] \in OutputState
        BY <2>3 DEF CommitInv, TypeOK, ReleaseClaim, FinalizeClaim, ActiveClaim
      <3>2. \/ outputs'[r] = [outputs[r] EXCEPT !.claim = NoToken]
            \/ outputs'[r] = [scope |-> outputs[r].scope, claim |-> NoToken,
                              consumed |-> t]
        BY <2>3 DEF CommitInv, TypeOK, ReleaseClaim, FinalizeClaim
      <3>3. outputs'[r].claim = NoToken
        BY <3>1, <3>2 DEF OutputState
      <3> QED
        BY <2>3, <3>3 DEF CommitInv, TypeOK, ReleaseClaim, FinalizeClaim, ActiveClaim
    <2> QED
      BY <2>1, <2>2, <2>3 DEF WatcherNext
  <1>2. UNCHANGED <<reconciliation, versions, archived, at, intent, returned>>
    BY DEF WatcherNext, RegisterOutput, ClaimOutput, ReleaseClaim, FinalizeClaim,
           storeVars, callVars
  <1>3. TypeOK'
    BY WatcherType DEF CommitInv
  <1>4. FenceExclusive'
    BY <1>1 DEF CommitInv, FenceExclusive
  <1>5. FenceFollowsIntent'
    BY <1>1, <1>2 DEF CommitInv, FenceFollowsIntent, CommittedFor
  <1>6. /\ RecordsOwnTheirVersions'
        /\ CommittedVersionsAreTracked'
        /\ OneVersionPerReference'
        /\ AnswersAreRecorded'
    BY <1>2 DEF CommitInv, RecordsOwnTheirVersions, CommittedVersionsAreTracked,
                OneVersionPerReference, AnswersAreRecorded, CommittedFor
  <1>7. CallOwnsItsRecord'
    BY <1>2 DEF CommitInv, CallOwnsItsRecord, CommittedFor, Reference
  <1> QED
    BY <1>3, <1>4, <1>5, <1>6, <1>7 DEF CommitInv

\* A step that writes neither a record nor a Version keeps what is said of
\* them.
LEMMA UnwrittenInv ==
    ASSUME CommitInv, UNCHANGED <<recoveryVars, storeVars, returned>>
    PROVE  RecordInv' /\ OneVersionPerReference'
  BY DEF CommitInv, RecordInv, FenceExclusive, FenceFollowsIntent,
         RecordsOwnTheirVersions, CommittedVersionsAreTracked,
         OneVersionPerReference, AnswersAreRecorded, CommittedFor,
         recoveryVars, storeVars

\* Beginning a call.
LEMMA CallInv ==
    ASSUME CommitInv, CallNext
    PROVE  CommitInv'
  <1>0. TypeOK'
    BY CallType DEF CommitInv
  <1>1. ASSUME NEW scope \in Scopes, NEW draft \in VersionDraft,
               ReturnCompleted(scope, draft)
        PROVE  CommitInv'
    <2>1. UNCHANGED <<outputs, reconciliation, issued, versions, archived, at, intent>>
      BY <1>1 DEF ReturnCompleted, recoveryVars, storeVars, callVars
    <2>2. AnswersAreRecorded'
      BY <1>1, <2>1 DEF CommitInv, AnswersAreRecorded, ReturnCompleted
    <2> QED
      BY <1>0, <2>1, <2>2 DEF CommitInv, FenceExclusive, FenceFollowsIntent,
         RecordsOwnTheirVersions, CommittedVersionsAreTracked,
         OneVersionPerReference, CallOwnsItsRecord, CommittedFor, Reference
  <1>2. ASSUME NEW scope \in Scopes, NEW draft \in VersionDraft,
               RetryPending(scope, draft)
        PROVE  CommitInv'
    <2>1. RecordInv' /\ OneVersionPerReference'
      BY <1>2, UnwrittenInv DEF RetryPending
    <2>2. /\ at' = "lookup"
          /\ intent' = reconciliation[draft.reference]
          /\ intent' # NoCommit
          /\ reconciliation' = reconciliation
      BY <1>2 DEF RetryPending, recoveryVars
    <2>3. /\ draft.reference \in References
          /\ intent'.draft.reference = draft.reference
      BY <2>2 DEF CommitInv, FenceFollowsIntent, VersionDraft
    <2>4. CallOwnsItsRecord'
      BY <2>2, <2>3 DEF CallOwnsItsRecord, Reference
    <2> QED
      BY <1>0, <2>1, <2>4 DEF CommitInv, RecordInv
  <1>3. ASSUME NEW scope \in Scopes, NEW draft \in VersionDraft,
               NEW v \in Versions, CreateFresh(scope, draft, v)
        PROVE  CommitInv'
    <2>1. RecordInv' /\ OneVersionPerReference'
      BY <1>3, UnwrittenInv DEF CreateFresh
    <2>2. CallOwnsItsRecord'
      <3>1. /\ at' = "prepare"
            /\ intent'.version = v
            /\ reconciliation' = reconciliation
            /\ versions' = versions
        BY <1>3 DEF CreateFresh, recoveryVars, storeVars
      <3>2. intent' # NoCommit
        <4>1. intent' \in PendingArtifactCommit
          BY <1>3 DEF CreateFresh, PendingArtifactCommit
        <4> QED
          BY <4>1, CommitAssumption
      <3>3. Fresh(v)
        BY <1>3 DEF CreateFresh
      <3> QED
        BY <3>1, <3>2, <3>3 DEF CallOwnsItsRecord, Fresh
    <2> QED
      BY <1>0, <2>1, <2>2 DEF CommitInv, RecordInv
  <1> QED
    BY <1>1, <1>2, <1>3 DEF CallNext

\* The steps of a call.
LEMMA StepInv ==
    ASSUME CommitInv, StepNext
    PROVE  CommitInv'
  <1>0. TypeOK'
    BY StepType DEF CommitInv
  <1>1. EndCall => CallOwnsItsRecord'
    BY DEF EndCall, CallOwnsItsRecord
  <1>2. UNCHANGED storeVars => OneVersionPerReference'
    BY DEF CommitInv, OneVersionPerReference, CommittedFor, storeVars
  <1>3. CASE PrepareCommit
    <2>1. RecordInv'
      BY <1>3, ClaimPendingInv DEF PrepareCommit, storeVars
    <2>2. CallOwnsItsRecord'
      <3>1. /\ at = "prepare" /\ intent # NoCommit
            /\ intent.version \notin DOMAIN versions
        BY <1>3 DEF CommitInv, CallOwnsItsRecord, PrepareCommit
      <3>2. /\ at' = "commit" /\ intent' = intent
            /\ versions' = versions
            /\ Reference' = Reference
        BY <1>3 DEF PrepareCommit, storeVars, Reference
      <3>3. reconciliation'[Reference] = intent
        BY <1>3, <3>1, IntentType DEF CommitInv, TypeOK, PrepareCommit, ClaimPending
      <3> QED
        BY <3>1, <3>2, <3>3 DEF CallOwnsItsRecord
    <2> QED
      BY <1>0, <1>2, <1>3, <2>1, <2>2 DEF CommitInv, RecordInv, PrepareCommit
  <1>4. CASE Complete
    <2>1. RecordInv'
      BY <1>4, SaveCompletedInv DEF Complete, storeVars
    <2> QED
      BY <1>0, <1>1, <1>2, <1>4, <2>1 DEF CommitInv, RecordInv, Complete
  <1>5. CASE Discard
    <2>1. RecordInv'
      BY <1>5, DiscardPendingInv DEF Discard, storeVars
    <2> QED
      BY <1>0, <1>1, <1>2, <1>5, <2>1 DEF CommitInv, RecordInv, Discard
  <1>6. CASE WriteUnreported
    <2>1. UNCHANGED <<versions, archived, returned>>
      BY <1>6 DEF WriteUnreported, storeVars
    <2>2. RecordInv'
      BY <1>6, <2>1, ClaimPendingInv, SaveCompletedInv, DiscardPendingInv
         DEF WriteUnreported
    <2> QED
      BY <1>0, <1>1, <1>2, <1>6, <2>2 DEF CommitInv, RecordInv, WriteUnreported
  <1>7. CASE CommitVersion \/ CommitUnreported
    <2>1. /\ Committing /\ CommitAccepted /\ AppendIntent
          /\ UNCHANGED <<recoveryVars, archived, intent, returned>>
          /\ at' \in {"complete", "reconcile", "rereconcile"}
      BY <1>7 DEF CommitVersion, CommitUnreported, AfterError
    <2>2. /\ RecordInv' /\ OneVersionPerReference'
          /\ intent.version \in CommittedFor(Reference)'
      BY <2>1, AppendIntentInv
    <2>3. CallOwnsItsRecord'
      <3>1. intent # NoCommit /\ reconciliation[Reference] = intent
        BY <2>1 DEF CommitInv, CallOwnsItsRecord, Committing
      <3>2. Reference' = Reference /\ reconciliation' = reconciliation
        BY <2>1 DEF Reference, recoveryVars
      <3> QED
        BY <2>1, <2>2, <3>1, <3>2 DEF CallOwnsItsRecord
    <2> QED
      BY <1>0, <2>2, <2>3 DEF CommitInv, RecordInv
  <1>8. CASE CommitRefused \/ CommitFails \/ VersionFound \/ VersionMissing \/ CallCut
    <2>1. UNCHANGED <<recoveryVars, storeVars, returned>>
      BY <1>8 DEF CommitRefused, CommitFails, VersionFound, VersionMissing, CallCut
    <2>2. RecordInv' /\ OneVersionPerReference'
      BY <2>1, UnwrittenInv
    <2>3. CASE EndCall
      BY <1>0, <1>1, <2>2, <2>3 DEF CommitInv, RecordInv
    <2>4. CASE intent' = intent
      <3>1. /\ at \notin {"idle", "prepare"} /\ intent # NoCommit
            /\ reconciliation[Reference] = intent
        BY <1>8, <2>4 DEF CommitInv, CallOwnsItsRecord, CommitRefused, CommitFails,
             VersionFound, VersionMissing, CallCut, EndCall, Committing, Reading
      <3>2. /\ Reference' = Reference
            /\ reconciliation' = reconciliation
            /\ versions' = versions /\ archived' = archived
        BY <2>1, <2>4 DEF Reference, recoveryVars, storeVars
      <3>3. at' \notin {"idle", "prepare"}
        BY <1>8, <2>4, <3>1 DEF CommitRefused, CommitFails, VersionFound,
             VersionMissing, CallCut, EndCall, AfterError
      <3>4. at' = "complete" => intent.version \in CommittedFor(Reference)
        <4>1. at' = "complete" => intent.version \in DOMAIN versions
          BY <1>8 DEF CommitRefused, CommitFails, VersionFound, VersionMissing,
               CallCut, EndCall, AfterError, Persisted
        <4> QED
          BY <3>1, <4>1, IntentType DEF CommitInv, RecordsOwnTheirVersions, CommittedFor
      <3>5. at' \in {"commit", "recommit", "discard"} =>
                archived \/ intent.version \notin DOMAIN versions
        BY <1>8 DEF CommitInv, CallOwnsItsRecord, CommitRefused, CommitFails,
             VersionFound, VersionMissing, CallCut, EndCall, AfterError, Persisted,
             Committing
      <3>6. CommittedFor(Reference)' = CommittedFor(Reference)
        BY <3>2 DEF CommittedFor
      <3>7. CallOwnsItsRecord'
        BY <2>4, <3>1, <3>2, <3>3, <3>4, <3>5, <3>6 DEF CallOwnsItsRecord
      <3> QED
        BY <1>0, <2>2, <3>7 DEF CommitInv, RecordInv
    <2> QED
      BY <1>8, <2>3, <2>4 DEF CommitRefused, CommitFails, VersionFound,
                              VersionMissing, CallCut
  <1> QED
    BY <1>3, <1>4, <1>5, <1>6, <1>7, <1>8 DEF StepNext

(***************************************************************************)
(* Theorems.                                                                *)
(***************************************************************************)

\* The inductive invariant holds in every reachable state.
THEOREM CommitInvariant == Spec => []CommitInv
  <1>1. Init => CommitInv
    BY DEF Init, CommitInv, TypeOK, FenceExclusive, FenceFollowsIntent,
           RecordsOwnTheirVersions, CallOwnsItsRecord, CommittedVersionsAreTracked,
           OneVersionPerReference, AnswersAreRecorded, CommittedFor, Points
  <1>2. CommitInv /\ [Next]_vars => CommitInv'
    <2> SUFFICES ASSUME CommitInv, [Next]_vars
                 PROVE  CommitInv'
      OBVIOUS
    <2>1. CASE WatcherNext
      BY <2>1, WatcherInv
    <2>2. CASE CallNext
      BY <2>2, CallInv
    <2>3. CASE StepNext
      BY <2>3, StepInv
    <2>4. CASE EnvNext
      BY <2>4, OtherCommitInv, ArchiveInv DEF EnvNext
    <2>5. CASE UNCHANGED vars
      BY <2>5 DEF vars, recoveryVars, storeVars, callVars, CommitInv, TypeOK,
         FenceExclusive, FenceFollowsIntent, RecordsOwnTheirVersions,
         CallOwnsItsRecord, CommittedVersionsAreTracked, OneVersionPerReference,
         AnswersAreRecorded, CommittedFor, Reference
    <2> QED
      BY <2>1, <2>2, <2>3, <2>4, <2>5 DEF Next
  <1> QED
    BY <1>1, <1>2, PTL DEF Spec

\* create_version commits at most one Version for a watcher reference.
THEOREM OneVersion == Spec => []OneVersionPerReference
  <1>1. CommitInv => OneVersionPerReference
    BY DEF CommitInv
  <1> QED
    BY <1>1, CommitInvariant, PTL

\* Callers are only ever told of the one stored Version of their reference.
THEOREM DurableAnswers == Spec => []AnswersAreDurable
  <1>1. CommitInv => AnswersAreDurable
    <2> SUFFICES ASSUME CommitInv
                 PROVE  AnswersAreDurable
      OBVIOUS
    <2>1. \A x \in returned : x[1] \in References /\ x = <<x[1], x[2]>>
      BY DEF CommitInv, TypeOK
    <2>2. \A x \in returned : x[2] \in CommittedFor(x[1])
      BY <2>1 DEF CommitInv, AnswersAreRecorded, FenceFollowsIntent
    <2>3. \A x, y \in returned : x[1] = y[1] => x = y
      BY <2>1 DEF CommitInv, AnswersAreRecorded
    <2> QED
      BY <2>2, <2>3 DEF AnswersAreDurable
  <1> QED
    BY <1>1, CommitInvariant, PTL

\* No Version of an active Project is forgotten by the recovery records.
THEOREM TrackedVersions == Spec => []CommittedVersionsAreTracked
  <1>1. CommitInv => CommittedVersionsAreTracked
    BY DEF CommitInv
  <1> QED
    BY <1>1, CommitInvariant, PTL

\* Every variable keeps its type.
THEOREM TypeCorrect == Spec => []TypeOK
  <1>1. CommitInv => TypeOK
    BY DEF CommitInv
  <1> QED
    BY <1>1, CommitInvariant, PTL

(***************************************************************************)
(* Completion is final.                                                     *)
(***************************************************************************)

\* What a step may do to one reference.
FinalFor(r) ==
    /\ reconciliation[r] # NoCommit /\ reconciliation[r].kind = "completed"
          => reconciliation'[r] = reconciliation[r]
    /\ reconciliation[r] # NoCommit /\ reconciliation'[r] # NoCommit
          => reconciliation'[r].version = reconciliation[r].version
    /\ outputs[r] # NoOutput /\ outputs[r].consumed # NoToken
          => outputs'[r] = outputs[r]

\* The three record writes leave completed records and consumed outputs alone.
LEMMA WriteFinal ==
    ASSUME CommitInv, intent # NoCommit,
           ClaimPending \/ SaveCompleted \/ DiscardPending,
           NEW r \in References
    PROVE  FinalFor(r)
  <1>1. /\ Reference \in References /\ intent.kind = "pending"
        /\ intent.version \in Versions
    BY IntentType DEF CommitInv, PendingArtifactCommit
  <1>2. CASE r # Reference
    BY <1>1, <1>2 DEF FinalFor, CommitInv, TypeOK, ClaimPending, SaveCompleted,
                      DiscardPending
  <1>3. CASE r = Reference /\ ClaimPending
    BY <1>1, <1>3 DEF FinalFor, CommitInv, TypeOK, ClaimPending, Claimable
  <1>4. CASE r = Reference /\ (SaveCompleted \/ DiscardPending)
    <2>1. outputs[r] # NoOutput => outputs[r].consumed = NoToken
      BY <1>1, <1>4, CommitAssumption
         DEF CommitInv, FenceExclusive, SaveCompleted, DiscardPending
    <2>2. reconciliation[r] = intent
      BY <1>4 DEF SaveCompleted, DiscardPending
    <2>3. reconciliation'[r] # NoCommit => reconciliation'[r].version = intent.version
      BY <1>1, <1>4 DEF CommitInv, TypeOK, SaveCompleted, DiscardPending
    <2> QED
      BY <1>1, <2>1, <2>2, <2>3 DEF FinalFor
  <1> QED
    BY <1>2, <1>3, <1>4

\* Watcher operations leave records and consumed outputs alone.
LEMMA WatcherFinal ==
    ASSUME CommitInv, WatcherNext, NEW r \in References
    PROVE  FinalFor(r)
  <1>1. reconciliation' = reconciliation
    BY DEF WatcherNext, RegisterOutput, ClaimOutput, ReleaseClaim, FinalizeClaim
  <1>2. outputs[r] # NoOutput /\ outputs[r].consumed # NoToken => outputs'[r] = outputs[r]
    <2>1. ASSUME NEW s \in References, NEW t \in Tokens,
                 ReleaseClaim(s, t) \/ FinalizeClaim(s, t)
          PROVE  /\ outputs[s].consumed = NoToken
                 /\ r # s => outputs'[r] = outputs[r]
      BY <2>1, CommitAssumption
         DEF CommitInv, TypeOK, FenceExclusive, ReleaseClaim, FinalizeClaim, ActiveClaim
    <2>2. ASSUME NEW s \in References, NEW scope \in Scopes, NEW t \in Tokens,
                 ClaimOutput(s, scope, t)
          PROVE  /\ outputs[s].consumed = NoToken
                 /\ r # s => outputs'[r] = outputs[r]
      BY <2>2 DEF CommitInv, TypeOK, ClaimOutput, Claimable
    <2>3. ASSUME NEW s \in References, NEW scope \in Scopes, RegisterOutput(s, scope)
          PROVE  /\ outputs[s] = NoOutput
                 /\ r # s => outputs'[r] = outputs[r]
      BY <2>3 DEF CommitInv, TypeOK, RegisterOutput
    <2> QED
      BY <2>1, <2>2, <2>3 DEF WatcherNext
  <1> QED
    BY <1>1, <1>2 DEF FinalFor

\* A completed record is final and a consumed output stays consumed.
THEOREM FinalCompletion == Spec => CompletionIsFinal
  <1>1. CommitInv /\ [Next]_vars => \A r \in References : FinalFor(r)
    <2> SUFFICES ASSUME CommitInv, [Next]_vars, NEW r \in References
                 PROVE  FinalFor(r)
      OBVIOUS
    <2>1. CASE WatcherNext
      BY <2>1, WatcherFinal
    <2>2. CASE PrepareCommit \/ Complete \/ Discard \/ WriteUnreported
      <3>1. /\ intent # NoCommit
            /\ ClaimPending \/ SaveCompleted \/ DiscardPending
        BY <2>2 DEF CommitInv, CallOwnsItsRecord, PrepareCommit, Complete, Discard,
                    WriteUnreported
      <3> QED
        BY <3>1, WriteFinal
    <2>3. CASE UNCHANGED <<outputs, reconciliation>>
      BY <2>3 DEF FinalFor
    <2> QED
      BY <2>1, <2>2, <2>3 DEF Next, CallNext, StepNext, EnvNext, ReturnCompleted,
         RetryPending, CreateFresh, CommitVersion, CommitRefused, CommitFails,
         CommitUnreported, VersionFound, VersionMissing, CallCut, OtherCommit,
         ArchiveProject, recoveryVars, vars
  <1>2. CommitInv /\ [Next]_vars =>
            [\A r \in References :
              /\ reconciliation[r] # NoCommit /\ reconciliation[r].kind = "completed"
                    => reconciliation'[r] = reconciliation[r]
              /\ reconciliation[r] # NoCommit /\ reconciliation'[r] # NoCommit
                    => reconciliation'[r].version = reconciliation[r].version
              /\ outputs[r] # NoOutput /\ outputs[r].consumed # NoToken
                    => outputs'[r] = outputs[r]]_vars
    BY <1>1 DEF FinalFor
  <1> QED
    BY <1>2, CommitInvariant, PTL DEF Spec, CompletionIsFinal

\* The whole promise of the recovery, over every retry, ambiguous commit, lost
\* write, crash and archival (create_version).
THEOREM SoundRecovery == Spec => RecoveryIsSound
  <1>1. CommitInv => FenceFollowsIntent
    BY DEF CommitInv
  <1> QED
    BY <1>1, CommitInvariant, TypeCorrect, OneVersion, DurableAnswers,
       TrackedVersions, FinalCompletion, PTL DEF RecoveryIsSound

(***************************************************************************)
(* Refinement.                                                              *)
(***************************************************************************)

\* The mapped result is the one Version committed for the reference.
LEMMA ResultIsCommitted ==
    ASSUME CommitInv, NEW r \in References
    PROVE  /\ CommittedFor(r) = {} => ResultOf(r) = NoVersion
           /\ \A v \in CommittedFor(r) : ResultOf(r) = v /\ v # NoVersion
  BY CommitAssumption
     DEF CommitInv, TypeOK, OneVersionPerReference, CommittedFor, ResultOf

\* The mapped result depends on the committed Versions only.
LEMMA ResultFollows ==
    ASSUME NEW r \in References, CommittedFor(r)' = CommittedFor(r)
    PROVE  ResultOf(r)' = ResultOf(r)
  <1>1. (CHOOSE v \in CommittedFor(r) : TRUE)'
            = CHOOSE v \in CommittedFor(r) : TRUE
    BY Zenon
  <1> QED
    BY <1>1, Zenon DEF ResultOf

\* A call that returns names the mapped result.
LEMMA ReturnSimulates ==
    ASSUME CommitInv, NEW r \in References, NEW v \in CommittedFor(r),
           returned' = returned \cup {<<r, v>>}, UNCHANGED versions
    PROVE  Once!OnceNext
  <1>1. ResultOf(r) = v /\ v # NoVersion
    BY ResultIsCommitted
  <1>2. \A s \in References : ResultOf(s)' = ResultOf(s)
    BY DEF ResultOf, CommittedFor
  <1>3. Once!Return(r)
    BY <1>1, <1>2 DEF Once!Return
  <1> QED
    BY <1>3 DEF Once!OnceNext

\* Appending the Version of an intent is the abstract commit.
LEMMA AppendSimulates ==
    ASSUME CommitInv, Committing, CommitAccepted, AppendIntent,
           UNCHANGED <<recoveryVars, archived, intent, returned>>
    PROVE  Once!OnceNext
  <1>0. intent # NoCommit /\ reconciliation[Reference] = intent
    BY DEF CommitInv, CallOwnsItsRecord, Committing
  <1>1. PICK r \in References, v \in Versions :
            r = Reference /\ v = intent.version
    BY <1>0, IntentType DEF CommitInv
  <1>2. /\ DOMAIN versions' = DOMAIN versions \cup {v}
        /\ versions'[v].reference = r
        /\ \A w \in DOMAIN versions : w # v => versions'[w] = versions[w]
        /\ v \notin DOMAIN versions
        /\ ~archived
    <2> DEFINE row == [reference |-> r, artifact |-> intent.draft.artifact,
                       no |-> intent.draft.base + 1]
    <2>1. AppendVersion(v, row) /\ row.reference = r
      BY <1>1 DEF AppendIntent
    <2> HIDE DEF row
    <2>2. v \notin DOMAIN versions /\ ~archived
      BY <1>1 DEF CommitAccepted
    <2> QED
      BY <2>1, <2>2, AppendRow
  <1>3. CommittedFor(r) = {}
    BY <1>0, <1>1, <1>2 DEF CommitInv, CommittedVersionsAreTracked, CommittedFor
  <1>4. CommittedFor(r)' = {v}
    BY <1>2, <1>3 DEF CommittedFor
  <1>5. \A s \in References : s # r => CommittedFor(s)' = CommittedFor(s)
    BY <1>2 DEF CommittedFor
  <1>6. ResultOf(r) = NoVersion /\ ResultOf(r)' = v
    BY <1>3, <1>4 DEF ResultOf
  <1>7. \A s \in References : s # r => ResultOf(s)' = ResultOf(s)
    BY <1>5, ResultFollows
  <1>8. \A s \in References : ResultOf(s) # v
    <2> SUFFICES ASSUME NEW s \in References
                 PROVE  ResultOf(s) # v
      OBVIOUS
    <2>1. CASE CommittedFor(s) = {}
      BY <2>1, ResultIsCommitted, CommitAssumption
    <2>2. CASE CommittedFor(s) # {}
      BY <1>2, <2>2, ResultIsCommitted DEF CommittedFor
    <2> QED
      BY <2>1, <2>2
  <1>9. [s \in References |-> ResultOf(s)]'
            = [[s \in References |-> ResultOf(s)] EXCEPT ![r] = v]
    BY <1>6, <1>7
  <1>10. Once!Commit(r, v)
    BY <1>6, <1>8, <1>9 DEF Once!Commit
  <1> QED
    BY <1>10 DEF Once!OnceNext

\* create_version implements the abstract promise: every step is an abstract
\* step or leaves the abstract state alone.
THEOREM CreateVersionImplements == Spec => ImplementsCommitOnce
  <1>1. Init => Once!OnceInit
    BY DEF Init, Once!OnceInit, ResultOf, CommittedFor
  <1>2. CommitInv /\ [Next]_vars => [Once!OnceNext]_(Once!onceVars)
    <2> SUFFICES ASSUME CommitInv, [Next]_vars
                 PROVE  [Once!OnceNext]_(Once!onceVars)
      OBVIOUS
    <2>0. ASSUME returned' = returned,
                 \A r \in References : CommittedFor(r)' = CommittedFor(r)
          PROVE  UNCHANGED Once!onceVars
      <3>1. \A r \in References : ResultOf(r)' = ResultOf(r)
        BY <2>0, ResultFollows
      <3> QED
        BY <2>0, <3>1 DEF Once!onceVars
    <2>1. CASE Complete
      <3>1. PICK r \in References : r = Reference
        BY <2>1, IntentType DEF CommitInv, CallOwnsItsRecord, Complete
      <3>2. /\ intent.version \in CommittedFor(r)
            /\ returned' = returned \cup {<<r, intent.version>>}
            /\ versions' = versions
        BY <2>1, <3>1 DEF CommitInv, CallOwnsItsRecord, Complete, storeVars
      <3> QED
        BY <3>2, ReturnSimulates
    <2>2. ASSUME NEW scope \in Scopes, NEW draft \in VersionDraft,
                 ReturnCompleted(scope, draft)
          PROVE  Once!OnceNext
      <3>1. /\ draft.reference \in References
            /\ reconciliation[draft.reference].version
                  \in CommittedFor(draft.reference)
        BY <2>2 DEF CommitInv, ReturnCompleted, FenceFollowsIntent, VersionDraft
      <3> QED
        BY <2>2, <3>1, ReturnSimulates DEF ReturnCompleted, storeVars
    <2>3. CASE CommitVersion \/ CommitUnreported
      BY <2>3, AppendSimulates DEF CommitVersion, CommitUnreported
    <2>4. ASSUME NEW v \in Versions, NEW a \in Artifacts, NEW base \in Bases,
                 OtherCommit(v, a, base)
          PROVE  UNCHANGED Once!onceVars
      <3>1. /\ DOMAIN versions' = DOMAIN versions \cup {v}
            /\ versions'[v].reference = NoReference
            /\ \A w \in DOMAIN versions : w # v => versions'[w] = versions[w]
            /\ v \notin DOMAIN versions
            /\ returned' = returned
        <4> DEFINE row == [reference |-> NoReference, artifact |-> a,
                           no |-> base + 1]
        <4>1. AppendVersion(v, row) /\ row.reference = NoReference
          BY <2>4 DEF OtherCommit
        <4> HIDE DEF row
        <4> QED
          BY <2>4, <4>1, AppendRow DEF OtherCommit, Fresh
      <3>2. \A r \in References : CommittedFor(r)' = CommittedFor(r)
        BY <3>1, CommitAssumption DEF CommittedFor
      <3> QED
        BY <2>0, <3>1, <3>2
    <2>5. CASE UNCHANGED <<versions, returned>>
      BY <2>0, <2>5 DEF CommittedFor
    <2> QED
      BY <2>1, <2>2, <2>3, <2>4, <2>5 DEF Next, WatcherNext, CallNext, StepNext,
         EnvNext, RegisterOutput, ClaimOutput, ReleaseClaim, FinalizeClaim,
         RetryPending, CreateFresh, PrepareCommit, Discard, WriteUnreported,
         CommitRefused, CommitFails, VersionFound, VersionMissing, CallCut,
         ArchiveProject, storeVars, vars
  <1> QED
    BY <1>1, <1>2, CommitInvariant, PTL DEF Spec, ImplementsCommitOnce, Once!OnceSpec

(***************************************************************************)
(* Signed downloads.  The inductive invariant says that every token carries *)
(* the expiry computed for it, and that a download under way was verified   *)
(* before that expiry.                                                      *)
(***************************************************************************)

Token == [version : Published, at : Nat, ttl : Nat, expires : Int]

(* A token as issue_download makes it.                                       *)
WellMade(token) ==
  /\ token \in Token
  /\ token.ttl % 1000 = 0 /\ TtlAdmitted(token.ttl)
  /\ token.expires = ExpiresMs(token.at, token.ttl)

(* What a caller is in the middle of.                                        *)
AskedSound(request) ==
  \/ /\ request.kind = "issue"
     /\ request.version \in Published /\ request.ttl \in Nat /\ TtlAdmitted(request.ttl)
  \/ /\ request.kind = "redeem"
     /\ WellMade(request.token) /\ request.at \in Nat
     /\ request.at \div 1000 < request.token.expires

(* What verifying and redeeming may answer.                                  *)
AnswerSound(a) ==
  /\ WellMade(a.token) /\ a.at \in Nat
  /\ a.outcome = "content" =>
       /\ a.at \div 1000 < a.token.expires
       /\ a.project = ProjectOf[a.token.version] /\ a.live
  /\ a.outcome = "expired" => a.at \div 1000 >= a.token.expires

TokensWellMade == \A token \in tokens : WellMade(token)
RequestsSound == \A c \in Callers : asked[c] # None => AskedSound(asked[c])
AnswersSound == \A c \in Callers : answers[c] # None => AnswerSound(answers[c])

(* The inductive invariant.                                                  *)
DownloadInv ==
  /\ now \in Nat
  /\ DOMAIN asked = Callers /\ DOMAIN answers = Callers
  /\ TokensWellMade /\ RequestsSound /\ AnswersSound

(* The expiry lies within a millisecond of the deadline and never beyond the *)
(* longest lifetime; a lifetime below the longest is granted in full.        *)
LEMMA ExpiryWindow ==
  ASSUME NEW signed \in Nat, NEW ttl \in Nat, ttl % 1000 = 0, ttl <= MaxTtl * 1000
  PROVE  /\ ExpiresMs(signed, ttl) \in Int
         /\ ExpiresMs(signed, ttl) * 1000 < signed + ttl + 1000
         /\ ExpiresMs(signed, ttl) * 1000 <= signed + MaxTtl * 1000
         /\ ttl < MaxTtl * 1000 => ExpiresMs(signed, ttl) * 1000 >= signed + ttl
         /\ ttl = MaxTtl * 1000 => ExpiresMs(signed, ttl) * 1000 > signed + ttl - 1000
  <1>1. MaxTtl \in Nat
    BY DownloadAssumption
  <1> QED
    BY <1>1, SMT DEF ExpiresMs

(* What the comparison of whole milliseconds in verify says of a reading t.  *)
LEMMA VerifiedInTime ==
  ASSUME NEW t \in Nat, NEW signed \in Nat, NEW ttl \in Nat,
         ttl % 1000 = 0, ttl <= MaxTtl * 1000,
         t \div 1000 < ExpiresMs(signed, ttl)
  PROVE  t < signed + ttl + 1000 /\ t < signed + MaxTtl * 1000
  <1>1. MaxTtl \in Nat
    BY DownloadAssumption
  <1> DEFINE e == ExpiresMs(signed, ttl)
  <1>2. e \in Int /\ e * 1000 < signed + ttl + 1000 /\ e * 1000 <= signed + MaxTtl * 1000
    BY ExpiryWindow
  <1>3. t \div 1000 < e
    OBVIOUS
  <1> HIDE DEF e
  <1>4. t < e * 1000
    BY <1>2, <1>3, SMT
  <1> QED
    BY <1>1, <1>2, <1>4, SMT

(* The converse for the comparison that refuses.                            *)
LEMMA ExpiredInTime ==
  ASSUME NEW t \in Nat, NEW signed \in Nat, NEW ttl \in Nat,
         ttl % 1000 = 0, ttl <= MaxTtl * 1000,
         t \div 1000 >= ExpiresMs(signed, ttl)
  PROVE  IF ttl < MaxTtl * 1000 THEN t >= signed + ttl ELSE t > signed + MaxTtl * 1000 - 1000
  <1>1. MaxTtl \in Nat
    BY DownloadAssumption
  <1> DEFINE e == ExpiresMs(signed, ttl)
  <1>2. /\ e \in Int
        /\ ttl < MaxTtl * 1000 => e * 1000 >= signed + ttl
        /\ ttl = MaxTtl * 1000 => e * 1000 > signed + ttl - 1000
    BY ExpiryWindow
  <1>3. t \div 1000 >= e
    OBVIOUS
  <1> HIDE DEF e
  <1>4. t >= e * 1000
    BY <1>2, <1>3, SMT
  <1> QED
    BY <1>1, <1>2, <1>4, SMT

(* The invariant holds at first ...                                         *)
LEMMA DownloadInitially == DownloadInit => DownloadInv
  BY DownloadAssumption
  DEF DownloadInit, DownloadInv, TokensWellMade, RequestsSound, AnswersSound

(* ... and every step preserves it, action by action.                       *)
LEMMA DownloadStep == DownloadInv /\ [DownloadNext]_downloadVars => DownloadInv'
  <1> SUFFICES ASSUME DownloadInv, [DownloadNext]_downloadVars
               PROVE  DownloadInv'
    OBVIOUS
  <1> USE DEF DownloadInv
  <1>1. ASSUME NEW t \in Clock, SetClock(t)
        PROVE  DownloadInv'
    BY <1>1, DownloadAssumption
    DEF SetClock, TokensWellMade, RequestsSound, AnswersSound
  <1>2. ASSUME NEW p \in Projects, CloseProject(p)
        PROVE  DownloadInv'
    BY <1>2 DEF CloseProject, TokensWellMade, RequestsSound, AnswersSound
  <1>3. ASSUME NEW c \in Callers, NEW p \in Projects, NEW v \in Published,
               NEW ttl \in Ttls, ReadVersion(c, p, v, ttl)
        PROVE  DownloadInv'
    <2>1. AskedSound([kind |-> "issue", version |-> v, ttl |-> ttl])
      BY <1>3, DownloadAssumption DEF ReadVersion, AskedSound
    <2>2. RequestsSound'
      BY <1>3, <2>1 DEF ReadVersion, Ask, RequestsSound
    <2> QED
      BY <1>3, <2>2 DEF ReadVersion, Ask, TokensWellMade, AnswersSound
  <1>4. ASSUME NEW c \in Callers, IssueDownload(c)
        PROVE  DownloadInv'
    <2> DEFINE v == asked[c].version
               ttl == asked[c].ttl
               token == [version |-> v, at |-> now, ttl |-> ttl,
                         expires |-> ExpiresMs(now, ttl)]
    <2>1. v \in Published /\ ttl \in Nat /\ TtlAdmitted(ttl)
      BY <1>4 DEF IssueDownload, RequestsSound, AskedSound
    <2>2. ASSUME ttl % 1000 = 0
          PROVE  WellMade(token)
      <3>1. ExpiresMs(now, ttl) \in Int
        <4>1. now \in Nat /\ ttl \in Nat /\ ttl % 1000 = 0 /\ ttl <= MaxTtl * 1000
          BY <2>1, <2>2 DEF TtlAdmitted
        <4> HIDE DEF ttl
        <4> QED
          BY <4>1, ExpiryWindow
      <3> QED
        BY <2>1, <2>2, <3>1 DEF WellMade, Token
    <2>3. TokensWellMade'
      BY <1>4, <2>2 DEF IssueDownload, TokensWellMade
    <2>4. RequestsSound'
      BY <1>4 DEF IssueDownload, Ask, RequestsSound
    <2> QED
      BY <1>4, <2>3, <2>4 DEF IssueDownload, Ask, AnswersSound
  <1>5. ASSUME NEW c \in Callers, NEW token \in tokens, NEW p \in Projects,
               Verify(c, token, p)
        PROVE  DownloadInv'
    <2>1. WellMade(token) /\ token.expires \in Int
      BY DEF TokensWellMade, WellMade, Token
    <2>2. TokensWellMade' /\ now' \in Nat
      BY <1>5 DEF Verify, TokensWellMade
    <2>3. CASE Expired(token)
      <3> DEFINE a == [token |-> token, project |-> p, at |-> now,
                       outcome |-> "expired", live |-> p \notin closed]
      <3>1. AnswerSound(a)
        BY <2>1, <2>3 DEF AnswerSound, Expired
      <3>2. answers' = [answers EXCEPT ![c] = a] /\ asked' = asked
        BY <1>5, <2>3 DEF Verify, Answer
      <3> QED
        BY <2>2, <3>1, <3>2 DEF RequestsSound, AnswersSound
    <2>4. CASE ~Expired(token) /\ ProjectOf[token.version] # p
      <3> DEFINE a == [token |-> token, project |-> p, at |-> now,
                       outcome |-> "not_found", live |-> p \notin closed]
      <3>1. AnswerSound(a)
        BY <2>1 DEF AnswerSound
      <3>2. answers' = [answers EXCEPT ![c] = a] /\ asked' = asked
        BY <1>5, <2>4 DEF Verify, Answer
      <3> QED
        BY <2>2, <3>1, <3>2 DEF RequestsSound, AnswersSound
    <2>5. CASE ~Expired(token) /\ ProjectOf[token.version] = p
      <3> DEFINE r == [kind |-> "redeem", token |-> token, at |-> now]
      <3>0. now \div 1000 < token.expires
        BY <2>1, <2>5, SMT DEF Expired
      <3>1. AskedSound(r)
        BY <2>1, <3>0 DEF AskedSound
      <3>2. asked' = [asked EXCEPT ![c] = r] /\ answers' = answers
        BY <1>5, <2>5 DEF Verify, Ask
      <3> QED
        BY <2>2, <3>1, <3>2 DEF RequestsSound, AnswersSound
    <2> QED
      BY <2>3, <2>4, <2>5
  <1>6. ASSUME NEW c \in Callers, RedeemDownload(c)
        PROVE  DownloadInv'
    <2> DEFINE token == asked[c].token
               p == ProjectOf[token.version]
               a == [token |-> token, project |-> p, at |-> asked[c].at,
                     outcome |-> RedeemContent(p), live |-> p \notin closed]
    <2>1. WellMade(token) /\ asked[c].at \in Nat /\ asked[c].at \div 1000 < token.expires
      BY <1>6 DEF RedeemDownload, RequestsSound, AskedSound
    <2>2. AnswerSound(a)
      BY <2>1 DEF AnswerSound, RedeemContent
    <2>3. answers' = [answers EXCEPT ![c] = a] /\ asked' = [asked EXCEPT ![c] = None]
      BY <1>6 DEF RedeemDownload, Ask, Answer
    <2> QED
      BY <1>6, <2>2, <2>3
      DEF RedeemDownload, TokensWellMade, RequestsSound, AnswersSound
  <1>7. CASE UNCHANGED downloadVars
    BY <1>7 DEF downloadVars, TokensWellMade, RequestsSound, AnswersSound
  <1> QED
    BY <1>1, <1>2, <1>3, <1>4, <1>5, <1>6, <1>7 DEF DownloadNext

(* The invariant holds throughout.                                           *)
THEOREM DownloadInvariant == DownloadSpec => []DownloadInv
  BY DownloadInitially, DownloadStep, PTL DEF DownloadSpec

(* redeem_download hands out content only within the lifetime that was       *)
(* asked for, rounded up to a millisecond, never beyond MAX_DOWNLOAD_TTL,    *)
(* and only under the Version's own live Project.                            *)
THEOREM LifetimesBound == DownloadSpec => []RedeemedWithinTheLifetime
  <1>1. DownloadInv => RedeemedWithinTheLifetime
    <2> SUFFICES ASSUME DownloadInv, NEW c \in Callers, answers[c] # None,
                        answers[c].outcome = "content"
                 PROVE  /\ answers[c].at < answers[c].token.at + answers[c].token.ttl + 1000
                        /\ answers[c].at < answers[c].token.at + MaxTtl * 1000
                        /\ answers[c].project = ProjectOf[answers[c].token.version]
                        /\ answers[c].live
      BY DEF RedeemedWithinTheLifetime
    <2> DEFINE a == answers[c]
    <2>1. /\ WellMade(a.token) /\ a.at \in Nat /\ a.at \div 1000 < a.token.expires
          /\ a.project = ProjectOf[a.token.version] /\ a.live
      BY DEF DownloadInv, AnswersSound, AnswerSound
    <2>2. /\ a.token.at \in Nat /\ a.token.ttl \in Nat /\ a.token.ttl % 1000 = 0
          /\ a.token.ttl <= MaxTtl * 1000
          /\ a.token.expires = ExpiresMs(a.token.at, a.token.ttl)
      BY <2>1 DEF WellMade, Token, TtlAdmitted
    <2>3. a.at < a.token.at + a.token.ttl + 1000 /\ a.at < a.token.at + MaxTtl * 1000
      BY <2>1, <2>2, VerifiedInTime
    <2> QED
      BY <2>1, <2>3
  <1> QED
    BY <1>1, DownloadInvariant, PTL

(* DownloadSigner.verify never cuts a lifetime short: DOWNLOAD_EXPIRED comes *)
(* after the whole lifetime, the longest one less than a millisecond early.  *)
THEOREM LifetimesGranted == DownloadSpec => []FullLifetimeGranted
  <1>1. DownloadInv => FullLifetimeGranted
    <2> SUFFICES ASSUME DownloadInv, NEW c \in Callers, answers[c] # None,
                        answers[c].outcome = "expired"
                 PROVE  IF answers[c].token.ttl < MaxTtl * 1000
                        THEN answers[c].at >= answers[c].token.at + answers[c].token.ttl
                        ELSE answers[c].at > answers[c].token.at + MaxTtl * 1000 - 1000
      BY DEF FullLifetimeGranted
    <2> DEFINE a == answers[c]
    <2>1. WellMade(a.token) /\ a.at \in Nat /\ a.at \div 1000 >= a.token.expires
      BY DEF DownloadInv, AnswersSound, AnswerSound
    <2>2. /\ a.token.at \in Nat /\ a.token.ttl \in Nat /\ a.token.ttl % 1000 = 0
          /\ a.token.ttl <= MaxTtl * 1000
          /\ a.token.expires = ExpiresMs(a.token.at, a.token.ttl)
      BY <2>1 DEF WellMade, Token, TtlAdmitted
    <2> QED
      BY <2>1, <2>2, ExpiredInTime
  <1> QED
    BY <1>1, DownloadInvariant, PTL

(***************************************************************************)
(* Uploads.                                                                 *)
(***************************************************************************)

(* _decoded_size_from_base64 computes the exact number of bytes that were    *)
(* encoded, so the check before decoding agrees with the one after it and an *)
(* upload is refused for its size exactly when it is above the cap.          *)
THEOREM DecodedSizeExact ==
  \A n \in Nat : /\ DecodedSize(EncodedLength(n), Pad(n)) = n
                 /\ DecodedSize(EncodedLength(n), Pad(n)) > Cap <=> n > Cap
  <1> SUFFICES ASSUME NEW n \in Nat
               PROVE  DecodedSize(EncodedLength(n), Pad(n)) = n
    OBVIOUS
  <1>1. PICK q \in Nat, r \in 0 .. 2 : n = 3 * q + r
    <2>1. n = 3 * (n \div 3) + (n % 3) /\ n \div 3 \in Nat /\ n % 3 \in 0 .. 2
      BY SMT
    <2> QED
      BY <2>1
  <1>2. CASE r = 0
    <2>1. (n + 2) \div 3 = q /\ n % 3 = 0
      BY <1>1, <1>2, SMT
    <2> QED
      BY <1>1, <1>2, <2>1, SMT DEF DecodedSize, EncodedLength, Pad
  <1>3. CASE r = 1
    <2>1. (n + 2) \div 3 = q + 1 /\ n % 3 = 1
      BY <1>1, <1>3, SMT
    <2> QED
      BY <1>1, <1>3, <2>1, SMT DEF DecodedSize, EncodedLength, Pad
  <1>4. CASE r = 2
    <2>1. (n + 2) \div 3 = q + 1 /\ n % 3 = 2
      BY <1>1, <1>4, SMT
    <2> QED
      BY <1>1, <1>4, <2>1, SMT DEF DecodedSize, EncodedLength, Pad
  <1> QED
    BY <1>1, <1>2, <1>3, <1>4

(***************************************************************************)
(* What uploads are answered.                                               *)
(***************************************************************************)
(* A set of positions that is not empty has a first one.                     *)
LEMMA FirstPosition ==
  ASSUME NEW n \in Nat, NEW S \in SUBSET (1 .. n), S # {}
  PROVE  \E m \in S : \A j \in S : m <= j
<1>1. S \subseteq Nat
  OBVIOUS
<1>2. PICK m \in S : \A j \in S : ~ (<<j, m>> \in OpToRel(<, Nat))
  BY <1>1, WFMin, NatLessThanWellFounded, Zenon
<1>3. ASSUME NEW j \in S PROVE m <= j
  <2>1. ~ (j < m)
    BY <1>1, <1>2 DEF OpToRel
  <2> QED BY <2>1
<1> QED BY <1>3

(* The first of the checks that fails is one of those that fail.             *)
LEMMA FirstFails ==
  ASSUME NEW checks, Len(checks) \in Nat, NEW fs, fs \cap Elements(checks) # {}
  PROVE  First(checks, fs) \in fs \cap Elements(checks)
<1> DEFINE S == {i \in 1 .. Len(checks) : checks[i] \in fs}
           IsFirst(i) == checks[i] \in fs /\ \A j \in 1 .. i - 1 : checks[j] \notin fs
<1>1. S \in SUBSET (1 .. Len(checks)) /\ S # {} /\ Len(checks) \in Nat
  BY DEF Elements
<1>2. PICK m \in S : \A j \in S : m <= j
  BY <1>1, FirstPosition
<1>3. IsFirst(m) /\ m \in 1 .. Len(checks)
  BY <1>2
<1>4. IsFirst(CHOOSE i \in 1 .. Len(checks) : IsFirst(i))
      /\ (CHOOSE i \in 1 .. Len(checks) : IsFirst(i)) \in 1 .. Len(checks)
  BY <1>3
<1>5. First(checks, fs) = checks[CHOOSE i \in 1 .. Len(checks) : IsFirst(i)]
  BY DEF First
<1> QED BY <1>4, <1>5 DEF Elements

(* The checks are these.                                                     *)
LEMMA TheChecks ==
  /\ Len(EarlyChecks) \in Nat /\ Len(LoaderChecks) \in Nat /\ Len(CapChecks) \in Nat
  /\ Elements(EarlyChecks) = {"project", "unsafe_filename", "data_too_large", "invalid_base64"}
  /\ Elements(LoaderChecks) = {"manifest_syntax", "manifest_schema", "manifest_kind",
       "image_section", "malformed_data", "build_metadata", "metadata_rejected"}
  /\ Elements(CapChecks) = {"product_cap", "probe_json_cap"}
<1>1. /\ Len(EarlyChecks) \in Nat
      /\ Elements(EarlyChecks) = {"project", "unsafe_filename", "data_too_large", "invalid_base64"}
  BY DEF EarlyChecks, Elements
<1>2. /\ Len(LoaderChecks) \in Nat
      /\ Elements(LoaderChecks) = {"manifest_syntax", "manifest_schema", "manifest_kind",
           "image_section", "malformed_data", "build_metadata", "metadata_rejected"}
  BY DEF LoaderChecks, ManifestChecks, DataChecks, MetadataChecks, Elements
<1>3. Len(CapChecks) \in Nat /\ Elements(CapChecks) = {"product_cap", "probe_json_cap"}
  BY DEF CapChecks, Elements
<1> QED BY <1>1, <1>2, <1>3

(* The token of a failing check means that check.                            *)
LEMMA TokensNameFlaws ==
  ASSUME NEW f
  PROVE  /\ f \in Elements(EarlyChecks) => f \in Meaning(f)
         /\ f \in Elements(LoaderChecks) => f \in Meaning(LoaderToken(f))
         /\ f \in Elements(CapChecks) => f \in Meaning(CapToken(f))
  BY TheChecks DEF Meaning, LoaderToken, CapToken

(* The stages of the request's own directory.                                *)
OwnDirectory(q) ==
  CASE pc[q] = "data" -> [data |-> Empty, manifest |-> Empty]
    [] pc[q] = "manifest" -> [data |-> q, manifest |-> Empty]
    [] OTHER -> [data |-> q, manifest |-> q]

(* Types; every request keeps to the directory it drew.                      *)
UploadTyped ==
  /\ pc \in [Requests -> {"idle", "dir", "data", "manifest", "load", "wipe", "refuse",
                          "answered", "dead"}]
  /\ flaws \in [Requests -> SUBSET Flaws] /\ size \in [Requests -> Nat]
  /\ DOMAIN stage = Requests /\ leaf = [q \in Requests |-> q]
  /\ DOMAIN loaded = Requests /\ DOMAIN answer = Requests

(* A refusal of this request, and nothing that was wrong with another.       *)
Refusal(q) ==
  \/ answer[q] = "io"
  \/ answer[q] \in Flaws /\ Meaning(answer[q]) \cap flaws[q] # {}

(* What a request that came this far has written, read and will be answered. *)
RequestFits(q) ==
  /\ pc[q] \in {"idle", "dir"} => stage[q] = Empty
  /\ pc[q] \in {"data", "manifest", "load", "wipe"} => stage[q] = OwnDirectory(q)
  /\ pc[q] \in {"dir", "data", "manifest", "load"} => flaws[q] \cap Elements(EarlyChecks) = {}
  /\ pc[q] = "wipe" =>
       answer[q] = "created" /\ flaws[q] = {} /\ loaded[q] = [data |-> q, manifest |-> q]
  /\ pc[q] = "refuse" => Refusal(q)
  /\ pc[q] = "answered" =>
       \/ Refusal(q)
       \/ answer[q] = "wipe_failed" /\ flaws[q] = {}
       \/ /\ answer[q] = "created" /\ flaws[q] = {}
          /\ loaded[q] = [data |-> q, manifest |-> q] /\ stage[q] = Empty

(* The inductive invariant.                                                  *)
UploadInv == UploadTyped /\ \A q \in Requests : RequestFits(q)

(* Whatever a request does touches its own rows only.                        *)
LEMMA RequestsApart ==
  ASSUME UploadInv, NEW q \in Requests,
         \/ \E fs \in FlawSets, n \in Sizes : Submit(q, fs, n)
         \/ PrepareStageDir(q) \/ WriteStagingFile(q) \/ LoadStagedProbe(q) \/ Wipe(q),
         RequestFits(q)', UploadTyped'
  PROVE  UploadInv'
<1> SUFFICES ASSUME NEW r \in Requests, r # q
             PROVE  RequestFits(r)'
  BY DEF UploadInv
<1>1. pc'[r] = pc[r] /\ flaws'[r] = flaws[r] /\ stage'[r] = stage[r]
      /\ loaded'[r] = loaded[r] /\ answer'[r] = answer[r]
  <2> USE DEF UploadInv, UploadTyped, Goto, Reply
  <2>1. CASE \E fs \in FlawSets, n \in Sizes : Submit(q, fs, n)
    BY <2>1 DEF Submit
  <2>2. CASE PrepareStageDir(q) \/ LoadStagedProbe(q) \/ Wipe(q)
    BY <2>2 DEF PrepareStageDir, LoadStagedProbe, Wipe, StageLeaf
  <2>3. CASE WriteStagingFile(q)
    <3>1. leaf[q] = q
      OBVIOUS
    <3>2. stage' = [stage EXCEPT ![q][pc[q]] = q] \/ UNCHANGED stage
      BY <2>3, <3>1 DEF WriteStagingFile
    <3> QED BY <2>3, <3>2 DEF WriteStagingFile
  <2> QED BY <2>1, <2>2, <2>3
<1> QED BY <1>1 DEF UploadInv, RequestFits, OwnDirectory, Refusal

(* Each operation of a request leaves it consistent: the first failing check *)
(* of an early refusal is one of its own flaws.                              *)
LEMMA SubmitFits ==
  ASSUME UploadAssumption, UploadInv, NEW q \in Requests, NEW fs \in FlawSets, NEW n \in Sizes,
         Submit(q, fs, n)
  PROVE  UploadTyped' /\ RequestFits(q)'
<1> DEFINE all == fs \cup (IF n > Cap THEN {"data_too_large"} ELSE {})
<1>1. n \in Nat /\ all \subseteq Flaws
  <2>1. fs \subseteq Flaws
    BY DEF FlawSets
  <2>2. "data_too_large" \in Flaws
    BY TheChecks DEF Flaws
  <2> QED BY <2>1, <2>2 DEF UploadAssumption
<1>2. all = fs \cup (IF DecodedSize(EncodedLength(n), Pad(n)) > Cap THEN {"data_too_large"} ELSE {})
  BY <1>1, DecodedSizeExact
<1>3. flaws'[q] = all /\ stage' = stage /\ loaded' = loaded /\ pc[q] = "idle"
  BY DEF Submit, UploadInv, UploadTyped
<1>4. CASE all \cap Elements(EarlyChecks) # {}
  <2>1. answer' = [answer EXCEPT ![q] = First(EarlyChecks, all)] /\ pc' = [pc EXCEPT ![q] = "answered"]
    BY <1>2, <1>4 DEF Submit, Goto, Reply
  <2>2. First(EarlyChecks, all) \in all \cap Elements(EarlyChecks)
    BY <1>4, FirstFails, TheChecks
  <2>3. UploadTyped'
    BY <1>1, <2>1 DEF Submit, UploadInv, UploadTyped
  <2>4. Refusal(q)'
    BY <1>1, <1>3, <2>1, <2>2, TokensNameFlaws DEF Refusal, UploadInv, UploadTyped
  <2> QED BY <2>1, <2>3, <2>4 DEF RequestFits, UploadInv, UploadTyped
<1>5. CASE all \cap Elements(EarlyChecks) = {}
  <2>1. answer' = answer /\ pc' = [pc EXCEPT ![q] = "dir"]
    BY <1>2, <1>5 DEF Submit, Goto
  <2>2. UploadTyped'
    BY <1>1, <2>1 DEF Submit, UploadInv, UploadTyped
  <2> QED BY <1>3, <1>5, <2>1, <2>2 DEF RequestFits, UploadInv, UploadTyped
<1> QED BY <1>4, <1>5

(* Its staging directory is made.                                            *)
LEMMA PrepareFits ==
  ASSUME UploadAssumption, UploadInv, NEW q \in Requests, PrepareStageDir(q)
  PROVE  UploadTyped' /\ RequestFits(q)'
  BY DEF PrepareStageDir, UploadInv, UploadTyped, RequestFits, OwnDirectory, StageLeaf, Goto

(* Its directory is its own, so an exclusive creation finds it free.         *)
LEMMA WriteFits ==
  ASSUME UploadAssumption, UploadInv, NEW q \in Requests, WriteStagingFile(q)
  PROVE  UploadTyped' /\ RequestFits(q)'
<1> USE DEF UploadInv, UploadTyped
<1>1. stage[leaf[q]] = OwnDirectory(q) /\ OwnDirectory(q) # Empty /\ OwnDirectory(q)[pc[q]] = Empty
  BY DEF WriteStagingFile, RequestFits, OwnDirectory, UploadAssumption
<1>2. CASE Reply(q, "io") /\ Goto(q, "refuse") /\ UNCHANGED stage
  BY <1>2 DEF WriteStagingFile, Reply, Goto, RequestFits, Refusal
<1>3. CASE /\ stage' = [stage EXCEPT ![leaf[q]][pc[q]] = q]
           /\ Goto(q, IF pc[q] = "data" THEN "manifest" ELSE "load")
           /\ UNCHANGED answer
  <2>1. leaf[q] = q /\ leaf' = leaf /\ flaws' = flaws /\ size' = size /\ loaded' = loaded
    BY DEF WriteStagingFile
  <2>2. stage' = [stage EXCEPT ![q] = [OwnDirectory(q) EXCEPT ![pc[q]] = q]]
    BY <1>1, <1>3, <2>1
  <2>3. CASE pc[q] = "data"
    BY <1>3, <2>1, <2>2, <2>3 DEF Goto, RequestFits, OwnDirectory
  <2>4. CASE pc[q] = "manifest"
    BY <1>3, <2>1, <2>2, <2>4 DEF Goto, RequestFits, OwnDirectory
  <2> QED BY <2>3, <2>4 DEF WriteStagingFile
<1> QED BY <1>1, <1>2, <1>3 DEF WriteStagingFile

(* The loader reads the request's own files and refuses for its own flaws.   *)
LEMMA LoadFits ==
  ASSUME UploadAssumption, UploadInv, NEW q \in Requests, LoadStagedProbe(q)
  PROVE  UploadTyped' /\ RequestFits(q)'
<1> USE DEF UploadInv, UploadTyped
<1>1. stage[leaf[q]] = [data |-> q, manifest |-> q] /\ stage[leaf[q]] # Empty
      /\ flaws[q] \cap Elements(EarlyChecks) = {} /\ flaws[q] \subseteq Flaws
      /\ pc[q] = "load"
  BY DEF LoadStagedProbe, RequestFits, OwnDirectory, UploadAssumption
<1>2. flaws[stage[leaf[q]].data] \cup flaws[stage[leaf[q]].manifest] = flaws[q]
  BY <1>1
<1>3. loaded' = [loaded EXCEPT ![q] = [data |-> q, manifest |-> q]]
      /\ UNCHANGED <<flaws, size, stage, leaf>>
  BY <1>1 DEF LoadStagedProbe
<1>4. CASE flaws[q] \cap Elements(LoaderChecks) # {}
  <2>1. answer' = [answer EXCEPT ![q] = LoaderToken(First(LoaderChecks, flaws[q]))]
        /\ pc' = [pc EXCEPT ![q] = "refuse"]
    BY <1>1, <1>2, <1>4 DEF LoadStagedProbe, Reply, Goto
  <2>2. First(LoaderChecks, flaws[q]) \in flaws[q] \cap Elements(LoaderChecks)
    BY <1>4, FirstFails, TheChecks
  <2>3. LoaderToken(First(LoaderChecks, flaws[q])) \in Flaws
    BY <2>2, TheChecks DEF LoaderToken, Flaws
  <2>4. Refusal(q)'
    BY <1>3, <2>1, <2>2, <2>3, TokensNameFlaws DEF Refusal
  <2> QED BY <1>3, <2>1, <2>4 DEF RequestFits
<1>5. CASE flaws[q] \cap Elements(LoaderChecks) = {} /\ flaws[q] \cap Elements(CapChecks) # {}
  <2>1. answer' = [answer EXCEPT ![q] = CapToken(First(CapChecks, flaws[q]))]
        /\ pc' = [pc EXCEPT ![q] = "refuse"]
    BY <1>1, <1>2, <1>5 DEF LoadStagedProbe, Reply, Goto
  <2>2. First(CapChecks, flaws[q]) \in flaws[q] \cap Elements(CapChecks)
    BY <1>5, FirstFails, TheChecks
  <2>3. CapToken(First(CapChecks, flaws[q])) \in Flaws
    BY <2>2, TheChecks DEF CapToken, Flaws
  <2>4. Refusal(q)'
    BY <1>3, <2>1, <2>2, <2>3, TokensNameFlaws DEF Refusal
  <2> QED BY <1>3, <2>1, <2>4 DEF RequestFits
<1>6. CASE flaws[q] \cap Elements(LoaderChecks) = {} /\ flaws[q] \cap Elements(CapChecks) = {}
  <2>1. answer' = [answer EXCEPT ![q] = "created"] /\ pc' = [pc EXCEPT ![q] = "wipe"]
    BY <1>1, <1>2, <1>6 DEF LoadStagedProbe, Reply, Goto
  <2>2. flaws[q] = {}
    BY <1>1, <1>6 DEF Flaws
  <2> QED BY <1>1, <1>3, <2>1, <2>2 DEF RequestFits, OwnDirectory
<1> QED BY <1>4, <1>5, <1>6

(* The files are wiped, or the failure is surfaced.                          *)
LEMMA WipeFits ==
  ASSUME UploadAssumption, UploadInv, NEW q \in Requests, Wipe(q)
  PROVE  UploadTyped' /\ RequestFits(q)'
  BY DEF Wipe, UploadInv, UploadTyped, RequestFits, Refusal, Goto

(* A killed server answers nothing.                                          *)
LEMMA KillFits ==
  ASSUME UploadInv, Kill
  PROVE  UploadInv'
  BY DEF Kill, UploadInv, UploadTyped, RequestFits, OwnDirectory, Refusal

(* What an upload is answered, for any requests, sizes and cap, however they *)
(* overlap and wherever the server is killed or a write or wipe fails.       *)
THEOREM UploadAnswersAreHonestAlways ==
  ASSUME UploadAssumption
  PROVE  UploadSpec => []UploadAnswersAreHonest
<1>1. UploadInit => UploadInv
  BY TheChecks DEF UploadInit, UploadInv, UploadTyped, RequestFits
<1>2. UploadInv /\ [UploadNext]_uploadVars => UploadInv'
  <2> SUFFICES ASSUME UploadInv, [UploadNext]_uploadVars
               PROVE  UploadInv'
    OBVIOUS
  <2>1. ASSUME NEW q \in Requests, NEW fs \in FlawSets, NEW n \in Sizes, Submit(q, fs, n)
        PROVE  UploadInv'
    BY <2>1, SubmitFits, RequestsApart
  <2>2. ASSUME NEW q \in Requests,
               PrepareStageDir(q) \/ WriteStagingFile(q) \/ LoadStagedProbe(q) \/ Wipe(q)
        PROVE  UploadInv'
    BY <2>2, PrepareFits, WriteFits, LoadFits, WipeFits, RequestsApart
  <2>3. CASE UNCHANGED uploadVars
    BY <2>3 DEF uploadVars, UploadInv, UploadTyped, RequestFits, OwnDirectory, Refusal
  <2> QED BY <2>1, <2>2, <2>3, KillFits DEF UploadNext
<1>3. UploadInv => UploadAnswersAreHonest
  <2> SUFFICES ASSUME UploadInv, NEW q \in Requests, pc[q] = "answered"
               PROVE  /\ answer[q] = "created" =>
                           loaded[q] = [data |-> q, manifest |-> q] /\ stage[q] = Empty
                      /\ flaws[q] = {} => answer[q] \in {"created", "wipe_failed", "io"}
                      /\ answer[q] \in Flaws => Meaning(answer[q]) \cap flaws[q] # {}
                      /\ answer[q] \in {"created", "wipe_failed"} => flaws[q] = {}
    BY DEF UploadAnswersAreHonest, CreatedFromOwnBytesAndWiped, CleanUploadsAreCreated, RefusalsNameAFlaw
  <2>1. "created" \notin Flaws /\ "wipe_failed" \notin Flaws /\ "io" \notin Flaws
    BY TheChecks DEF Flaws
  <2> QED BY <2>1 DEF UploadInv, RequestFits, Refusal
<1> QED BY <1>1, <1>2, <1>3, PTL DEF UploadSpec

(***************************************************************************)
(* The blob trees.                                                          *)
(***************************************************************************)

\* The type of a tree's state: bytes are flushed before they have a name, so no
\* name leads to others.
BlobType ==
    /\ design \in Designs
    /\ dirs \subseteq Nat /\ diskDirs \subseteq Nat
    /\ files \in [Objects -> {"none", "flushed"}]
    /\ diskFiles \subseteq Objects
    /\ doing \in [Publishers -> Stages]
    /\ object \in [Publishers -> Objects \cup {Unlocked}]
    /\ \A p \in Publishers : doing[p] # "idle" => object[p] \in Objects /\ p \in design.callers
    /\ level \in [Publishers -> Nat]
    /\ lock \in Publishers \cup {Unlocked}
    /\ accepted \subseteq Objects

\* The directories of a sheltered tree: that of the local store has them all on
\* disk, and in that of the service every directory is but the one its caller
\* has just made, and the caller has been through those above its level.
TreeStands ==
    /\ diskDirs \subseteq dirs /\ dirs \subseteq 1 .. design.depth
    /\ design.tree = "local" => diskDirs = 1 .. design.depth
    /\ \A d \in dirs \ diskDirs :
         \E p \in Publishers : doing[p] = "flushdir" /\ level[p] = d
    /\ \A p \in Publishers :
         /\ doing[p] \in {"lookup", "walk", "flushdir"} =>
              /\ level[p] \in 1 .. design.depth + 1
              /\ 1 .. level[p] - 1 \subseteq diskDirs
         /\ doing[p] = "flushdir" => level[p] \in dirs
         /\ doing[p] \in {"write", "sync", "resync", "accept"} =>
              1 .. design.depth \subseteq diskDirs

\* What a publisher knows of its object.
PublisherKnows(p) ==
    /\ doing[p] # "idle" /\ design.tree = "local" => lock = p
    /\ doing[p] = "lookup" => design.tree = "local"
    /\ doing[p] \in {"flushdir", "resync"} => design.tree = "service"
    /\ doing[p] \in {"sync", "resync", "accept"} => files[object[p]] = "flushed"
    /\ doing[p] = "sync" /\ design.tree = "service" => object[p] \notin accepted
    /\ doing[p] = "accept" => object[p] \in diskFiles

\* Every object the local store has a name for is on disk, but the one that was
\* just renamed; what was reported published is, in either tree.
NamesAreOnDisk ==
    /\ design.tree = "local" =>
         \A o \in Present \ diskFiles :
           \E p \in Publishers : doing[p] = "sync" /\ object[p] = o
    /\ \A o \in accepted :
         /\ files[o] = "flushed" /\ o \in diskFiles
         /\ 1 .. design.depth \subseteq diskDirs

\* What a sheltered tree keeps, and what every tree does.
BlobSheltered ==
    TreeStands /\ NamesAreOnDisk /\ \A p \in Publishers : PublisherKnows(p)

BlobInv == BlobType /\ (Sheltered(design) => BlobSheltered)

\* The bounds of the places a step leads to.
LEMMA BlobTypeStep ==
    ASSUME BlobAssumption, BlobType, [BlobNext]_blobVars
    PROVE  BlobType'
  <1> USE DEF BlobType, Stages
  <1>1. CASE UNCHANGED blobVars
    BY <1>1 DEF blobVars
  <1>2. ASSUME NEW p \in Publishers, NEW o \in Objects, Begin(p, o)
        PROVE  design' = design => BlobType'
    BY <1>2 DEF Begin, ContinueTo
  <1>3. ASSUME NEW p \in Publishers, Lookup(p)
        PROVE  design' = design => BlobType'
    BY <1>3 DEF Lookup, ContinueTo, Leave
  <1>4. ASSUME NEW p \in Publishers, Walk(p)
        PROVE  design' = design => BlobType'
    <2>1. level[p] \in Nat /\ level[p] + 1 \in Nat
      OBVIOUS
    <2>2. dirs' \subseteq Nat /\ diskDirs' = diskDirs /\ level' \in [Publishers -> Nat]
      BY <1>4, <2>1 DEF Walk
    <2> QED
      BY <1>4, <2>2 DEF Walk, ContinueTo
  <1>5. ASSUME NEW p \in Publishers, FlushDirectory(p)
        PROVE  design' = design => BlobType'
    <2>1. level[p] \in Nat /\ level[p] + 1 \in Nat
      OBVIOUS
    <2>2. dirs' = dirs /\ diskDirs' \subseteq Nat /\ level' \in [Publishers -> Nat]
      BY <1>5, <2>1 DEF FlushDirectory
    <2> QED
      BY <1>5, <2>2 DEF FlushDirectory, ContinueTo
  <1>6. ASSUME NEW p \in Publishers, Publish(p)
        PROVE  design' = design => BlobType'
    BY <1>6 DEF Publish, ContinueTo, Leave, TemporaryBytes
  <1>7. ASSUME NEW p \in Publishers, SyncDirectory(p)
        PROVE  design' = design => BlobType'
    BY <1>7 DEF SyncDirectory, ContinueTo, Present
  <1>8. ASSUME NEW p \in Publishers, Fail(p)
        PROVE  design' = design => BlobType'
    BY <1>8 DEF Fail, ContinueTo, Leave, Present
  <1>9. ASSUME NEW p \in Publishers, Accept(p)
        PROVE  design' = design => BlobType'
    BY <1>9 DEF Accept, ContinueTo, Leave
  <1>10. ASSUME NEW p \in Publishers, KillPublisher(p)
        PROVE  design' = design => BlobType'
    BY <1>10 DEF KillPublisher, ContinueTo, Leave
  <1>11. ASSUME Sweep
        PROVE  design' = design => BlobType'
    BY <1>11 DEF Sweep
  <1>12. ASSUME NEW o \in Objects, Withdraw(o)
        PROVE  design' = design => BlobType'
    BY <1>12 DEF Withdraw, Present
  <1>13. ASSUME PowerLoss
        PROVE  design' = design => BlobType'
    BY <1>13 DEF PowerLoss, Present
  <1> QED
    BY <1>1, <1>2, <1>3, <1>4, <1>5, <1>6, <1>7, <1>8, <1>9, <1>10, <1>11,
       <1>12, <1>13 DEF BlobNext

\* A sheltered tree has one publisher under way.
LEMMA Alone ==
    ASSUME BlobType, Sheltered(design), BlobSheltered,
           NEW p \in Publishers, doing[p] # "idle",
           NEW q \in Publishers, doing[q] # "idle"
    PROVE  p = q
  BY DEF BlobType, Sheltered, BlobSheltered, PublisherKnows

\* The others are idle before and after a step of one publisher.
LEMMA OthersRest ==
    ASSUME BlobType, Sheltered(design), BlobSheltered,
           NEW p \in Publishers, NEW l \in Stages, doing[p] # "idle", ContinueTo(p, l)
    PROVE  /\ doing'[p] = l
           /\ \A q \in Publishers \ {p} : doing[q] = "idle" /\ doing'[q] = "idle"
  BY Alone DEF BlobType, ContinueTo

\* Begin finds everyone idle.
LEMMA BeginShelters ==
    ASSUME BlobAssumption, BlobType, Sheltered(design), BlobSheltered, design' = design,
           NEW p \in Publishers, NEW o \in Objects, Begin(p, o)
    PROVE  BlobSheltered'
  <1>1. \A q \in Publishers : doing[q] = "idle"
    <2>1. CASE design.tree = "local"
      BY <2>1 DEF BlobSheltered, PublisherKnows, Begin, BlobAssumption
    <2>2. CASE design.tree = "service"
      BY <2>2 DEF BlobType, Sheltered, Begin
    <2> QED
      BY <2>1, <2>2 DEF Sheltered
  <1>2. /\ doing'[p] = IF design.tree = "local" THEN "lookup" ELSE "walk"
        /\ object'[p] = o /\ level'[p] = 1
        /\ design.tree = "local" => lock' = p
        /\ \A q \in Publishers \ {p} : doing'[q] = "idle"
        /\ UNCHANGED <<dirs, files, diskDirs, diskFiles, accepted>>
    BY <1>1 DEF Begin, ContinueTo, BlobType, Sheltered
  <1>3. TreeStands'
    BY <1>1, <1>2 DEF BlobSheltered, TreeStands, BlobType, BlobAssumption
  <1>4. NamesAreOnDisk'
    BY <1>1, <1>2 DEF BlobSheltered, NamesAreOnDisk, Present
  <1>5. \A q \in Publishers : PublisherKnows(q)'
    BY <1>1, <1>2 DEF PublisherKnows
  <1> QED
    BY <1>3, <1>4, <1>5 DEF BlobSheltered

\* A step of a publication that leaves the tree, the disk and what was accepted
\* as they are, and takes its publisher to a place that nothing forbids.
LEMMA QuietShelters ==
    ASSUME BlobAssumption, BlobType, Sheltered(design), BlobSheltered, design' = design,
           NEW p \in Publishers, NEW l \in Stages \ {"lookup", "flushdir", "sync"},
           doing[p] \notin {"idle", "flushdir"},
           doing[p] = "sync" => design.tree = "service",
           ContinueTo(p, l), l # "idle" => UNCHANGED lock,
           UNCHANGED <<dirs, files, diskDirs, diskFiles, object, level, accepted>>,
           l = "walk" =>
             /\ level[p] \in 1 .. design.depth + 1
             /\ 1 .. level[p] - 1 \subseteq diskDirs,
           l \in {"write", "resync", "accept"} => 1 .. design.depth \subseteq diskDirs,
           l = "resync" => design.tree = "service",
           l \in {"resync", "accept"} => files[object[p]] = "flushed",
           l = "accept" => object[p] \in diskFiles
    PROVE  BlobSheltered'
  <1>1. /\ doing'[p] = l
        /\ \A q \in Publishers \ {p} : doing[q] = "idle" /\ doing'[q] = "idle"
    BY OthersRest
  <1>2. TreeStands'
    BY <1>1 DEF BlobSheltered, TreeStands
  <1>3. NamesAreOnDisk'
    BY <1>1 DEF BlobSheltered, NamesAreOnDisk, Present, Sheltered
  <1>4. \A q \in Publishers : PublisherKnows(q)'
    <2>1. PublisherKnows(p)
      BY DEF BlobSheltered
    <2>2. PublisherKnows(p)'
      BY <1>1, <2>1 DEF PublisherKnows
    <2> QED
      BY <1>1, <2>2 DEF PublisherKnows
  <1> QED
    BY <1>2, <1>3, <1>4 DEF BlobSheltered

\* The steps of one publisher.
LEMMA LookupShelters ==
    ASSUME BlobAssumption, BlobType, Sheltered(design), BlobSheltered, design' = design,
           NEW p \in Publishers, Lookup(p)
    PROVE  BlobSheltered'
  <1>1. files[object[p]] \in {"none", "flushed"} /\ object[p] \in Objects
    BY DEF Lookup, BlobType
  <1>2. design.tree = "local"
    BY DEF BlobSheltered, PublisherKnows, Lookup
  <1>3. /\ level[p] \in 1 .. design.depth + 1
        /\ 1 .. level[p] - 1 \subseteq diskDirs
        /\ 1 .. design.depth \subseteq diskDirs
    BY <1>2 DEF BlobSheltered, TreeStands, Lookup
  <1>4. CASE files[object[p]] = "none"
    BY <1>3, <1>4, QuietShelters DEF Lookup, Stages
  <1>5. CASE files[object[p]] = "flushed"
    <2>1. \A q \in Publishers : doing[q] # "sync"
      BY Alone DEF Lookup
    <2>2. object[p] \in diskFiles
      BY <1>1, <1>2, <1>5, <2>1 DEF BlobSheltered, NamesAreOnDisk, Present
    <2> QED
      BY <1>3, <1>5, <2>2, QuietShelters DEF Lookup, Stages
  <1> QED
    BY <1>1, <1>4, <1>5

LEMMA WalkShelters ==
    ASSUME BlobAssumption, BlobType, Sheltered(design), BlobSheltered, design' = design,
           NEW p \in Publishers, Walk(p)
    PROVE  BlobSheltered'
  <1>1. /\ level[p] \in 1 .. design.depth + 1
        /\ 1 .. level[p] - 1 \subseteq diskDirs
        /\ design.depth \in Nat
    BY DEF BlobSheltered, TreeStands, Walk, BlobType, BlobAssumption
  <1>2. CASE level[p] > design.depth
    BY <1>1, <1>2, QuietShelters DEF Walk, Stages
  <1>3. CASE ~(level[p] > design.depth)
    <2>1. \A d \in dirs : d \in diskDirs
      BY Alone DEF BlobSheltered, TreeStands, Walk
    <2>2. PICK l \in {"walk", "flushdir"} : ContinueTo(p, l)
      BY <1>3 DEF Walk, ContinueTo, BlobType
    <2>3. /\ doing'[p] = l
          /\ \A q \in Publishers \ {p} : doing[q] = "idle" /\ doing'[q] = "idle"
      BY <2>2, OthersRest DEF Stages, Walk
    <2>4. /\ dirs' = dirs \cup {level[p]} /\ diskDirs' = diskDirs
          /\ l = "walk" => level'[p] = level[p] + 1 /\ dirs' = dirs
          /\ l = "flushdir" => level'[p] = level[p] /\ design.tree = "service"
          /\ level[p] \in dirs'
      <3>1. CASE level[p] \notin dirs /\ design.tree = "service"
        <4>1. l = "flushdir"
          BY <1>3, <2>3, <3>1 DEF Walk, ContinueTo, BlobType
        <4> QED
          BY <1>1, <1>3, <3>1, <4>1 DEF Walk
      <3>2. CASE ~(level[p] \notin dirs /\ design.tree = "service")
        <4>1. level[p] \in dirs
          BY <1>1, <1>3, <3>2 DEF BlobSheltered, TreeStands, Sheltered
        <4> QED
          BY <1>1, <1>3, <2>3, <3>2, <4>1 DEF Walk, ContinueTo, BlobType
      <3> QED
        BY <3>1, <3>2
    <2>5. TreeStands'
      <3>1. /\ diskDirs' \subseteq dirs' /\ dirs' \subseteq 1 .. design.depth
            /\ design.tree = "local" => diskDirs' = 1 .. design.depth
        <4>1. level[p] \in 1 .. design.depth
          BY <1>1, <1>3
        <4> QED
          BY <2>4, <4>1 DEF BlobSheltered, TreeStands
      <3>2. \A d \in dirs' \ diskDirs' :
              \E q \in Publishers : doing'[q] = "flushdir" /\ level'[q] = d
        BY <2>1, <2>3, <2>4
      <3>3. /\ level'[p] \in 1 .. design.depth + 1
            /\ l = "flushdir" => 1 .. level'[p] - 1 \subseteq diskDirs
        BY <1>1, <1>3, <2>4
      <3>4. l = "walk" => 1 .. level'[p] - 1 \subseteq diskDirs
        <4> SUFFICES ASSUME l = "walk" PROVE 1 .. level'[p] - 1 \subseteq diskDirs
          OBVIOUS
        <4>1. level[p] \in diskDirs
          BY <2>1, <2>4
        <4> QED
          BY <1>1, <2>4, <4>1
      <3> QED
        BY <2>3, <2>4, <3>1, <3>2, <3>3, <3>4 DEF TreeStands
    <2>6. NamesAreOnDisk'
      BY <2>3, <2>4 DEF BlobSheltered, NamesAreOnDisk, Present, Walk
    <2>7. \A q \in Publishers : PublisherKnows(q)'
      BY <2>3, <2>4 DEF BlobSheltered, PublisherKnows, Walk
    <2> QED
      BY <2>5, <2>6, <2>7 DEF BlobSheltered
  <1> QED
    BY <1>2, <1>3

LEMMA FlushShelters ==
    ASSUME BlobAssumption, BlobType, Sheltered(design), BlobSheltered, design' = design,
           NEW p \in Publishers, FlushDirectory(p)
    PROVE  BlobSheltered'
  <1>1. /\ level[p] \in 1 .. design.depth + 1 /\ level[p] \in dirs
        /\ 1 .. level[p] - 1 \subseteq diskDirs
        /\ design.depth \in Nat
    BY DEF BlobSheltered, TreeStands, FlushDirectory, BlobType, BlobAssumption
  <1>2. /\ doing'[p] = "walk"
        /\ \A q \in Publishers \ {p} : doing[q] = "idle" /\ doing'[q] = "idle"
    BY OthersRest DEF Stages, FlushDirectory
  <1>3. /\ dirs' = dirs /\ diskDirs' = diskDirs \cup {level[p]} /\ level'[p] = level[p] + 1
        /\ UNCHANGED <<files, diskFiles, object, lock, accepted>>
    BY DEF FlushDirectory, BlobType
  <1>4. /\ level[p] \in 1 .. design.depth /\ design.tree = "service"
        /\ \A d \in dirs \ diskDirs : d = level[p]
    BY <1>1, <1>2 DEF BlobSheltered, TreeStands, PublisherKnows, FlushDirectory
  <1>5. TreeStands'
    <2>1. level'[p] \in 1 .. design.depth + 1 /\ 1 .. level'[p] - 1 \subseteq diskDirs'
      BY <1>1, <1>3, <1>4
    <2>2. /\ diskDirs' \subseteq dirs' /\ dirs' \subseteq 1 .. design.depth
          /\ dirs' \ diskDirs' = {}
      BY <1>1, <1>3, <1>4 DEF BlobSheltered, TreeStands
    <2> QED
      BY <1>2, <1>4, <2>1, <2>2 DEF TreeStands
  <1>6. NamesAreOnDisk'
    BY <1>2, <1>3, <1>4 DEF BlobSheltered, NamesAreOnDisk, Present
  <1>7. \A q \in Publishers : PublisherKnows(q)'
    BY <1>2, <1>3, <1>4 DEF PublisherKnows
  <1> QED
    BY <1>5, <1>6, <1>7 DEF BlobSheltered

LEMMA PublishShelters ==
    ASSUME BlobAssumption, BlobType, Sheltered(design), BlobSheltered, design' = design,
           NEW p \in Publishers, Publish(p)
    PROVE  BlobSheltered'
  <1>1. /\ object[p] \in Objects /\ files[object[p]] \in {"none", "flushed"}
        /\ doing[p] = "write" /\ 1 .. design.depth \subseteq diskDirs
    BY DEF Publish, BlobType, BlobSheltered, TreeStands
  <1>2. CASE ~(design.tree = "local" \/ files[object[p]] = "none")
    BY <1>1, <1>2, QuietShelters DEF Publish, Stages, Sheltered
  <1>3. CASE design.tree = "local" \/ files[object[p]] = "none"
    <2>1. /\ doing'[p] = "sync"
          /\ \A q \in Publishers \ {p} : doing[q] = "idle" /\ doing'[q] = "idle"
      BY <1>1, <1>3, OthersRest DEF Stages, Publish
    <2>2. /\ files' = [files EXCEPT ![object[p]] = "flushed"]
          /\ UNCHANGED <<dirs, diskDirs, diskFiles, object, level, lock, accepted>>
      BY <1>3 DEF Publish, TemporaryBytes
    <2>3. /\ files'[object[p]] = "flushed"
          /\ \A o \in Objects \ {object[p]} : files'[o] = files[o]
      BY <1>1, <2>2 DEF BlobType
    <2>4. TreeStands'
      BY <1>1, <2>1, <2>2 DEF BlobSheltered, TreeStands
    <2>5. NamesAreOnDisk'
      <3>1. design.tree = "local" =>
              \A o \in Present' \ diskFiles' :
                \E q \in Publishers : doing'[q] = "sync" /\ object'[q] = o
        BY <1>1, <2>1, <2>2, <2>3 DEF BlobSheltered, NamesAreOnDisk, Present
      <3>2. \A o \in accepted : o \in Objects
        BY DEF BlobType
      <3> QED
        BY <2>2, <2>3, <3>1, <3>2 DEF BlobSheltered, NamesAreOnDisk
    <2>6. \A q \in Publishers : PublisherKnows(q)'
      <3>1. design.tree = "service" => object[p] \notin accepted
        BY <1>3 DEF BlobSheltered, NamesAreOnDisk
      <3> QED
        BY <1>1, <2>1, <2>2, <2>3, <3>1 DEF BlobSheltered, PublisherKnows
    <2> QED
      BY <2>4, <2>5, <2>6 DEF BlobSheltered
  <1> QED
    BY <1>2, <1>3

LEMMA SyncShelters ==
    ASSUME BlobAssumption, BlobType, Sheltered(design), BlobSheltered, design' = design,
           NEW p \in Publishers, SyncDirectory(p)
    PROVE  BlobSheltered'
  <1>1. /\ object[p] \in Objects /\ files[object[p]] = "flushed"
        /\ doing[p] \in {"sync", "resync"} /\ 1 .. design.depth \subseteq diskDirs
    BY DEF SyncDirectory, BlobType, BlobSheltered, TreeStands, PublisherKnows
  <1>2. /\ doing'[p] = "accept"
        /\ \A q \in Publishers \ {p} : doing[q] = "idle" /\ doing'[q] = "idle"
    BY <1>1, OthersRest DEF Stages, SyncDirectory
  <1>3. /\ diskFiles' = Present
        /\ UNCHANGED <<dirs, files, diskDirs, object, level, lock, accepted>>
    BY DEF SyncDirectory
  <1>4. TreeStands'
    BY <1>1, <1>2, <1>3 DEF BlobSheltered, TreeStands
  <1>5. NamesAreOnDisk'
    BY <1>2, <1>3 DEF BlobSheltered, NamesAreOnDisk, Present, BlobType
  <1>6. \A q \in Publishers : PublisherKnows(q)'
    BY <1>1, <1>2, <1>3 DEF BlobSheltered, PublisherKnows, Present
  <1> QED
    BY <1>4, <1>5, <1>6 DEF BlobSheltered

LEMMA FailShelters ==
    ASSUME BlobAssumption, BlobType, Sheltered(design), BlobSheltered, design' = design,
           NEW p \in Publishers, Fail(p)
    PROVE  BlobSheltered'
  <1>1. /\ object[p] \in Objects
        /\ doing[p] \in {"walk", "write", "sync", "resync"}
        /\ doing[p] = "sync" => design.tree = "service"
        /\ doing[p] \in {"sync", "resync"} => 1 .. design.depth \subseteq diskDirs
    BY DEF Fail, BlobType, BlobSheltered, TreeStands, PublisherKnows, Sheltered
  <1>2. CASE UNCHANGED <<files, diskFiles>>
    BY <1>1, <1>2, QuietShelters DEF Fail, Leave, Stages
  <1>3. CASE ~UNCHANGED <<files, diskFiles>>
    <2>1. /\ doing[p] = "sync" /\ design.tree = "service"
          /\ files' = [files EXCEPT ![object[p]] = "none"]
          /\ diskFiles' \in {diskFiles, Present \ {object[p]}}
      BY <1>3 DEF Fail
    <2>2. \A q \in Publishers : doing'[q] = "idle"
      BY <1>1, OthersRest DEF Stages, Fail, Leave
    <2>3. \A q \in Publishers \ {p} : doing[q] = "idle"
      BY <1>1, Alone
    <2>4. UNCHANGED <<dirs, diskDirs, object, level, accepted>>
      BY DEF Fail
    <2>5. TreeStands'
      BY <2>1, <2>2, <2>3, <2>4 DEF BlobSheltered, TreeStands
    <2>6. NamesAreOnDisk'
      <3>1. object[p] \notin accepted
        BY <2>1 DEF BlobSheltered, PublisherKnows
      <3>2. \A o \in accepted : /\ o \in Objects /\ files'[o] = files[o]
                                /\ files[o] = "flushed" /\ o \in diskFiles
                                /\ 1 .. design.depth \subseteq diskDirs
        BY <2>1, <3>1 DEF BlobSheltered, NamesAreOnDisk, BlobType
      <3> QED
        BY <2>1, <2>4, <3>1, <3>2 DEF NamesAreOnDisk, Present
    <2>7. \A q \in Publishers : PublisherKnows(q)'
      BY <2>2 DEF PublisherKnows
    <2> QED
      BY <2>5, <2>6, <2>7 DEF BlobSheltered
  <1> QED
    BY <1>2, <1>3

LEMMA AcceptShelters ==
    ASSUME BlobAssumption, BlobType, Sheltered(design), BlobSheltered, design' = design,
           NEW p \in Publishers, Accept(p)
    PROVE  BlobSheltered'
  <1>1. /\ files[object[p]] = "flushed" /\ object[p] \in diskFiles
        /\ doing[p] = "accept" /\ 1 .. design.depth \subseteq diskDirs
    BY DEF Accept, BlobSheltered, TreeStands, PublisherKnows
  <1>2. \A q \in Publishers : doing'[q] = "idle"
    BY <1>1, OthersRest DEF Stages, Accept, Leave
  <1>3. \A q \in Publishers \ {p} : doing[q] = "idle"
    BY <1>1, Alone
  <1>4. /\ accepted' = accepted \cup {object[p]}
        /\ UNCHANGED <<dirs, files, diskDirs, diskFiles, object, level>>
    BY DEF Accept
  <1>5. TreeStands'
    BY <1>1, <1>2, <1>3, <1>4 DEF BlobSheltered, TreeStands
  <1>6. NamesAreOnDisk'
    BY <1>1, <1>3, <1>4 DEF BlobSheltered, NamesAreOnDisk, Present
  <1>7. \A q \in Publishers : PublisherKnows(q)'
    BY <1>2 DEF PublisherKnows
  <1> QED
    BY <1>5, <1>6, <1>7 DEF BlobSheltered

LEMMA KillShelters ==
    ASSUME BlobAssumption, BlobType, Sheltered(design), BlobSheltered, design' = design,
           NEW p \in Publishers, KillPublisher(p)
    PROVE  BlobSheltered'
  <1>1. /\ doing[p] \notin {"idle", "flushdir"}
        /\ doing[p] = "sync" => design.tree = "service"
    BY DEF KillPublisher, BlobType, BlobSheltered, PublisherKnows, Sheltered, BlobAssumption
  <1> QED
    BY <1>1, QuietShelters DEF KillPublisher, Leave, Stages

\* The steps of nobody in particular find everyone idle, or leave them so.
LEMMA SweepShelters ==
    ASSUME BlobAssumption, BlobType, Sheltered(design), BlobSheltered, design' = design, Sweep
    PROVE  BlobSheltered'
  <1>1. \A q \in Publishers : doing[q] = "idle"
    BY DEF Sweep, BlobSheltered, PublisherKnows, BlobAssumption
  <1>2. /\ \A o \in Objects : files'[o] \in {"none", files[o]}
        /\ \A o \in accepted : files'[o] = files[o]
    BY DEF Sweep, BlobType
  <1>3. TreeStands'
    BY DEF Sweep, BlobSheltered, TreeStands
  <1>4. NamesAreOnDisk'
    BY <1>1, <1>2 DEF Sweep, BlobSheltered, NamesAreOnDisk, Present
  <1>5. \A q \in Publishers : PublisherKnows(q)'
    BY <1>1 DEF Sweep, PublisherKnows
  <1> QED
    BY <1>3, <1>4, <1>5 DEF BlobSheltered

LEMMA WithdrawShelters ==
    ASSUME BlobAssumption, BlobType, Sheltered(design), BlobSheltered, design' = design,
           NEW w \in Objects, Withdraw(w)
    PROVE  BlobSheltered'
  <1>1. /\ \A q \in Publishers : doing[q] = "idle" /\ doing'[q] = "idle"
        /\ design.tree = "service"
    BY DEF Withdraw
  <1>2. \A o \in accepted' : /\ o \in accepted /\ o \in Objects /\ files'[o] = files[o]
                             /\ files[o] = "flushed" /\ o \in diskFiles'
    BY DEF Withdraw, BlobType, BlobSheltered, NamesAreOnDisk, Present
  <1>3. TreeStands'
    BY DEF Withdraw, BlobSheltered, TreeStands
  <1>4. NamesAreOnDisk'
    BY <1>1, <1>2 DEF Withdraw, BlobSheltered, NamesAreOnDisk
  <1>5. \A q \in Publishers : PublisherKnows(q)'
    BY <1>1 DEF PublisherKnows
  <1> QED
    BY <1>3, <1>4, <1>5 DEF BlobSheltered

\* The power fails: what was flushed is still there.
LEMMA PowerShelters ==
    ASSUME BlobAssumption, BlobType, Sheltered(design), BlobSheltered, design' = design, PowerLoss
    PROVE  BlobSheltered'
  <1>1. PICK ds \in SUBSET (dirs \cup diskDirs), fs \in SUBSET (Present \cup diskFiles) :
          /\ dirs \cap diskDirs \subseteq ds /\ Present \cap diskFiles \subseteq fs
          /\ dirs' = {d \in ds : 1 .. d \subseteq ds}
          /\ files' = [o \in Objects |->
                         IF o \notin fs \/ ~(1 .. design.depth \subseteq ds) THEN "none"
                         ELSE IF files[o] \in {"none", "flushed"} THEN "flushed" ELSE "torn"]
    BY DEF PowerLoss
  <1>2. /\ diskDirs' = dirs' /\ diskFiles' = {o \in Objects : files'[o] # "none"}
        /\ \A q \in Publishers : doing'[q] = "idle"
        /\ accepted' = accepted
    BY DEF PowerLoss
  <1>3. /\ diskDirs \subseteq dirs /\ dirs \subseteq 1 .. design.depth
        /\ ds \subseteq 1 .. design.depth /\ diskDirs \subseteq ds
        /\ design.depth \in Nat
    BY <1>1 DEF BlobSheltered, TreeStands, BlobType, BlobAssumption
  <1>4. 1 .. design.depth \subseteq diskDirs => 1 .. design.depth \subseteq dirs'
    <2> SUFFICES ASSUME 1 .. design.depth \subseteq diskDirs, NEW d \in 1 .. design.depth
                 PROVE  d \in dirs'
      OBVIOUS
    <2>1. 1 .. d \subseteq 1 .. design.depth
      BY <1>3
    <2> QED
      BY <1>1, <1>3, <2>1
  <1>5. TreeStands'
    BY <1>1, <1>2, <1>3, <1>4 DEF BlobSheltered, TreeStands
  <1>6. \A o \in accepted : files'[o] = "flushed" /\ o \in diskFiles' /\ 1 .. design.depth \subseteq diskDirs'
    <2> SUFFICES ASSUME NEW o \in accepted
                 PROVE  files'[o] = "flushed" /\ o \in diskFiles' /\ 1 .. design.depth \subseteq diskDirs'
      OBVIOUS
    <2>1. /\ o \in Objects /\ files[o] = "flushed" /\ o \in diskFiles
          /\ 1 .. design.depth \subseteq diskDirs
      BY DEF BlobSheltered, NamesAreOnDisk, BlobType
    <2>2. o \in fs /\ 1 .. design.depth \subseteq ds
      BY <1>1, <1>3, <2>1 DEF Present
    <2>3. files'[o] = "flushed"
      BY <1>1, <2>1, <2>2
    <2> QED
      BY <1>2, <1>4, <2>1, <2>3
  <1>7. NamesAreOnDisk'
    BY <1>2, <1>6 DEF NamesAreOnDisk, Present
  <1>8. \A q \in Publishers : PublisherKnows(q)'
    BY <1>2 DEF PublisherKnows
  <1> QED
    BY <1>5, <1>7, <1>8 DEF BlobSheltered

LEMMA BlobInitially ==
    ASSUME BlobAssumption, BlobInit
    PROVE  BlobInv
  <1>1. BlobType
    <2>1. design.old \in Nat
      BY DEF BlobInit, BlobAssumption
    <2> QED
      BY <2>1 DEF BlobInit, BlobType, Stages
  <1>2. Sheltered(design) => BlobSheltered
    <2>1. design.old \in 0 .. design.depth /\ design.depth \in Nat
      BY DEF BlobInit, BlobAssumption
    <2>2. dirs = 1 .. design.old /\ diskDirs = 1 .. design.old
      BY DEF BlobInit
    <2>3. Sheltered(design) => TreeStands
      BY <2>1, <2>2 DEF BlobInit, Sheltered, TreeStands
    <2>4. NamesAreOnDisk
      BY DEF BlobInit, NamesAreOnDisk, Present
    <2>5. \A p \in Publishers : PublisherKnows(p)
      BY DEF BlobInit, PublisherKnows
    <2> QED
      BY <2>3, <2>4, <2>5 DEF BlobSheltered
  <1> QED
    BY <1>1, <1>2 DEF BlobInv

LEMMA BlobStep ==
    ASSUME BlobAssumption, BlobInv, [BlobNext]_blobVars
    PROVE  BlobInv'
  <1>1. BlobType'
    BY BlobTypeStep DEF BlobInv
  <1>2. design' = design
    BY DEF BlobNext, blobVars
  <1>3. ASSUME Sheltered(design)
        PROVE  BlobSheltered'
    <2>1. CASE UNCHANGED blobVars
      BY <1>3, <2>1 DEF BlobInv, blobVars, BlobSheltered, TreeStands, NamesAreOnDisk,
         PublisherKnows, Present
    <2>2. CASE BlobNext
      BY <1>2, <1>3, <2>2, BeginShelters, LookupShelters, WalkShelters, FlushShelters,
         PublishShelters, SyncShelters, FailShelters, AcceptShelters, KillShelters,
         SweepShelters, WithdrawShelters, PowerShelters DEF BlobNext, BlobInv
    <2> QED
      BY <2>1, <2>2
  <1>4. Sheltered(design)' <=> Sheltered(design)
    BY <1>2 DEF Sheltered
  <1> QED
    BY <1>1, <1>3, <1>4 DEF BlobInv

\* Whatever publishes, is swept, withdrawn, killed or fails and however often the
\* power does, no name of a blob tree leads to torn bytes; and in a tree whose
\* flushes suffice (of directories that were there, or of one caller that is not
\* stopped between a directory and its flush) what was reported published stays.
\* (_publish_blob and sweep_unreferenced_blobs of store.py; put and discard of
\* blob_store.py.)
THEOREM PublishedSurviveAlways ==
    ASSUME BlobAssumption
    PROVE  BlobSpec => []PublishedSurvive
  <1>1. BlobInv => PublishedSurvive
    BY DEF BlobInv, BlobType, BlobSheltered, NamesAreOnDisk, PublishedSurvive,
       ObjectsAreWhole, AcceptedSurvive
  <1>2. BlobInit => BlobInv
    BY BlobInitially
  <1>3. BlobInv /\ [BlobNext]_blobVars => BlobInv'
    BY BlobStep
  <1> QED
    BY <1>1, <1>2, <1>3, PTL DEF BlobSpec
=============================================================================
