--------------------------- MODULE ArtifactCommit ---------------------------
(***************************************************************************)
(* services/api/artifacts: how ArtifactService.create_version turns one     *)
(* registered output into exactly one Version although the store's commit   *)
(* and the durable recovery record are two separate writes, either may fail *)
(* with or without having taken effect, the process may die between them,   *)
(* and the caller may retry.                                                *)
(*                                                                          *)
(* A call holds the service lock and the lock of the recovery authority     *)
(* from beginning to end, so one call at a time is in progress on it and    *)
(* its steps are those between which it can be cut.  Other service          *)
(* instances commit to the same store under authorities of their own, and   *)
(* the Project may be archived, between any two steps.                      *)
(***************************************************************************)
EXTENDS Naturals

CONSTANTS References,   \* opaque watcher references
          Scopes,       \* a requester and the execution it registered for
          Artifacts, Versions,
          Tokens,       \* tokens of claims made without a commit intent
          Bases,        \* base_version_no values of drafts
          NoReference,  \* the reference of another authority's Version
          NoVersion,    \* nothing was committed for a reference
          NoOutput, NoCommit, NoToken

VARIABLES
    outputs,            \* registered outputs and their claim fence
    reconciliation,     \* the commit intent or result of each reference
    issued,             \* claims handed out by OutputWatcher.claim
    versions,           \* the store's Versions
    archived,           \* the Project is archived
    at, intent,         \* where the call in progress is, and its intent
    returned            \* results of create_version calls so far

recoveryVars == <<outputs, reconciliation, issued>>
storeVars == <<versions, archived>>
callVars == <<at, intent>>
vars == <<recoveryVars, storeVars, callVars, returned>>

(***************************************************************************)
(* Records.  The token of an intent's claim is minted with the Version id,  *)
(* which stands for both.                                                   *)
(***************************************************************************)

VersionDraft == [reference : References, artifact : Artifacts, base : Bases]

PendingArtifactCommit ==
    [kind : {"pending"}, scope : Scopes, draft : VersionDraft, version : Versions]

CompletedArtifactCommit ==
    [kind : {"completed"}, scope : Scopes, draft : VersionDraft, version : Versions]

OutputState ==
    [scope : Scopes, claim : Versions \cup Tokens \cup {NoToken},
     consumed : Versions \cup Tokens \cup {NoToken}]

StoredVersion ==
    [reference : References \cup {NoReference}, artifact : Artifacts, no : Nat]

ASSUME CommitAssumption ==
    /\ Bases \subseteq Nat
    /\ NoReference \notin References
    /\ NoVersion \notin Versions
    /\ NoOutput \notin OutputState
    /\ NoCommit \notin PendingArtifactCommit \cup CompletedArtifactCommit
    /\ Tokens \cap Versions = {}
    /\ NoToken \notin Tokens \cup Versions

Points == {"idle", "prepare", "commit", "reconcile", "lookup", "recommit",
           "rereconcile", "complete", "discard"}

Claimable(r, scope) ==
    /\ outputs[r] # NoOutput
    /\ outputs[r].claim = NoToken
    /\ outputs[r].consumed = NoToken
    /\ reconciliation[r] = NoCommit
    /\ outputs[r].scope = scope

\* A new identifier: uuid7 values never repeat.
Fresh(v) ==
    /\ v \notin DOMAIN versions
    /\ intent # NoCommit => intent.version # v
    /\ \A r \in References :
          reconciliation[r] # NoCommit => reconciliation[r].version # v

VersionsOf(a) == {v \in DOMAIN versions : versions[v].artifact = a}

\* The highest version_no of the Artifact, or 0.
HeadVersionNo(a) ==
    LET numbers == {versions[v].no : v \in VersionsOf(a)}
    IN  IF numbers = {} THEN 0
        ELSE CHOOSE n \in numbers : \A m \in numbers : m <= n

Init ==
    /\ outputs = [r \in References |-> NoOutput]
    /\ reconciliation = [r \in References |-> NoCommit]
    /\ issued = {}
    /\ versions = [v \in {} |-> TRUE]
    /\ archived = FALSE
    /\ at = "idle"
    /\ intent = NoCommit
    /\ returned = {}

(***************************************************************************)
(* The watcher.  Every operation takes the authority's lock.                *)
(***************************************************************************)

RegisterOutput(r, scope) ==
    /\ at = "idle"
    /\ outputs[r] = NoOutput
    /\ outputs' = [outputs EXCEPT ![r] =
            [scope |-> scope, claim |-> NoToken, consumed |-> NoToken]]
    /\ UNCHANGED <<reconciliation, issued, storeVars, callVars, returned>>

ClaimOutput(r, scope, t) ==
    /\ at = "idle"
    /\ Claimable(r, scope)
    /\ \A c \in issued : c[2] # t
    /\ outputs' = [outputs EXCEPT ![r].claim = t]
    /\ issued' = issued \cup {<<r, t>>}
    /\ UNCHANGED <<reconciliation, storeVars, callVars, returned>>

\* A claim may be presented again long after it was released or consumed.
ActiveClaim(r, t) ==
    /\ <<r, t>> \in issued
    /\ outputs[r] # NoOutput
    /\ outputs[r].claim = t
    /\ reconciliation[r] = NoCommit

ReleaseClaim(r, t) ==
    /\ at = "idle"
    /\ ActiveClaim(r, t)
    /\ outputs' = [outputs EXCEPT ![r].claim = NoToken]
    /\ UNCHANGED <<reconciliation, issued, storeVars, callVars, returned>>

FinalizeClaim(r, t) ==
    /\ at = "idle"
    /\ ActiveClaim(r, t)
    /\ outputs' = [outputs EXCEPT ![r] =
            [scope |-> @.scope, claim |-> NoToken, consumed |-> t]]
    /\ UNCHANGED <<reconciliation, issued, storeVars, callVars, returned>>

(***************************************************************************)
(* create_version: what the recovery record says decides the call.          *)
(***************************************************************************)

\* Mutant of ReturnCompleted: a pending intent is answered from as well.
ReturnAnyRecord(scope, draft) ==
    LET found == reconciliation[draft.reference]
    IN  /\ at = "idle"
        /\ found # NoCommit
        /\ found.scope = scope
        /\ found.draft = draft
        /\ returned' = returned \cup {<<draft.reference, found.version>>}
        /\ UNCHANGED <<recoveryVars, storeVars, callVars>>

ReturnCompleted(scope, draft) ==
    LET found == reconciliation[draft.reference]
    IN  /\ at = "idle"
        /\ found # NoCommit
        /\ found.kind = "completed"
        /\ found.scope = scope
        /\ found.draft = draft
        /\ returned' = returned \cup {<<draft.reference, found.version>>}
        /\ UNCHANGED <<recoveryVars, storeVars, callVars>>

RetryPending(scope, draft) ==
    LET found == reconciliation[draft.reference]
    IN  /\ at = "idle"
        /\ found # NoCommit
        /\ found.kind = "pending"
        /\ found.scope = scope
        /\ found.draft = draft
        /\ at' = "lookup"
        /\ intent' = found
        /\ UNCHANGED <<recoveryVars, storeVars, returned>>

CreateFresh(scope, draft, v) ==
    /\ at = "idle"
    /\ reconciliation[draft.reference] = NoCommit
    /\ Claimable(draft.reference, scope)
    /\ Fresh(v)
    /\ at' = "prepare"
    /\ intent' = [kind |-> "pending", scope |-> scope, draft |-> draft,
                  version |-> v]
    /\ UNCHANGED <<recoveryVars, storeVars, returned>>

(***************************************************************************)
(* The recovery record is replaced atomically: one file holds the fence and *)
(* the intent.                                                              *)
(***************************************************************************)

Reference == intent.draft.reference

ClaimPending ==
    /\ Claimable(Reference, intent.scope)
    /\ outputs' = [outputs EXCEPT ![Reference].claim = intent.version]
    /\ reconciliation' = [reconciliation EXCEPT ![Reference] = intent]
    /\ UNCHANGED issued

SaveCompleted ==
    /\ reconciliation[Reference] = intent
    /\ outputs[Reference].claim = intent.version
    /\ outputs' = [outputs EXCEPT ![Reference] =
            [scope |-> @.scope, claim |-> NoToken, consumed |-> intent.version]]
    /\ reconciliation' = [reconciliation EXCEPT ![Reference] =
            [kind |-> "completed", scope |-> intent.scope,
             draft |-> intent.draft, version |-> intent.version]]
    /\ UNCHANGED issued

DiscardPending ==
    /\ reconciliation[Reference] = intent
    /\ outputs[Reference].claim = intent.version
    /\ outputs' = [outputs EXCEPT ![Reference].claim = NoToken]
    /\ reconciliation' = [reconciliation EXCEPT ![Reference] = NoCommit]
    /\ UNCHANGED issued

EndCall == at' = "idle" /\ intent' = NoCommit

PrepareCommit ==
    /\ at = "prepare"
    /\ ClaimPending
    /\ at' = "commit"
    /\ UNCHANGED <<intent, storeVars, returned>>

Complete ==
    /\ at = "complete"
    /\ SaveCompleted
    /\ returned' = returned \cup {<<Reference, intent.version>>}
    /\ EndCall
    /\ UNCHANGED storeVars

Discard ==
    /\ at = "discard"
    /\ DiscardPending
    /\ EndCall
    /\ UNCHANGED <<storeVars, returned>>

\* The record was replaced, then flushing its directory failed: the write
\* took effect and the call raises.
WriteUnreported ==
    /\ \/ at = "prepare" /\ ClaimPending
       \/ at = "complete" /\ SaveCompleted
       \/ at = "discard" /\ DiscardPending
    /\ EndCall
    /\ UNCHANGED <<storeVars, returned>>

(***************************************************************************)
(* The store.                                                               *)
(***************************************************************************)

AppendVersion(v, row) ==
    versions' = [w \in DOMAIN versions \cup {v} |->
                    IF w = v THEN row ELSE versions[w]]

CommitAccepted ==
    /\ ~archived
    /\ HeadVersionNo(intent.draft.artifact) = intent.draft.base
    /\ intent.version \notin DOMAIN versions

Committing == at \in {"commit", "recommit"}

AppendIntent ==
    AppendVersion(intent.version,
        [reference |-> Reference, artifact |-> intent.draft.artifact,
         no |-> intent.draft.base + 1])

CommitVersion ==
    /\ Committing
    /\ CommitAccepted
    /\ AppendIntent
    /\ at' = "complete"
    /\ UNCHANGED <<recoveryVars, archived, intent, returned>>

\* A stale base, an archived Project, or what this module does not see: a
\* missing Artifact, an unresolved lineage, a blob of other bytes under that
\* digest.
CommitRefused ==
    /\ Committing
    /\ at' = "discard"
    /\ UNCHANGED <<recoveryVars, storeVars, intent, returned>>

AfterError == IF at = "commit" THEN "reconcile" ELSE "rereconcile"

\* ArtifactCommitError: the commit failed without effect ...
CommitFails ==
    /\ Committing
    /\ at' = AfterError
    /\ UNCHANGED <<recoveryVars, storeVars, intent, returned>>

\* ... or took effect and could not be reported.
CommitUnreported ==
    /\ Committing
    /\ CommitAccepted
    /\ AppendIntent
    /\ at' = AfterError
    /\ UNCHANGED <<recoveryVars, archived, intent, returned>>

(***************************************************************************)
(* Reconciliation reads the Version back.  An archived Project hides its    *)
(* Versions, so its reads find nothing.                                     *)
(***************************************************************************)

Reading == at \in {"reconcile", "lookup", "rereconcile"}

\* Mutant of Persisted: the Version is never found.
PersistedNever == FALSE

Persisted == intent.version \in DOMAIN versions /\ ~archived

VersionFound ==
    /\ Reading
    /\ Persisted
    /\ at' = "complete"
    /\ UNCHANGED <<recoveryVars, storeVars, intent, returned>>

\* The first attempt gives the intent up, a retry commits it again, and a
\* retried commit that failed leaves it pending.
VersionMissing ==
    /\ Reading
    /\ ~Persisted
    /\ \/ at = "reconcile" /\ at' = "discard" /\ UNCHANGED intent
       \/ at = "lookup" /\ at' = "recommit" /\ UNCHANGED intent
       \/ at = "rereconcile" /\ EndCall
    /\ UNCHANGED <<recoveryVars, storeVars, returned>>

\* A read or a write raises without effect, or the process dies.
CallCut ==
    /\ at # "idle"
    /\ EndCall
    /\ UNCHANGED <<recoveryVars, storeVars, returned>>

(***************************************************************************)
(* The environment.                                                         *)
(***************************************************************************)

\* Another service instance, with an authority of its own, commits.
OtherCommit(v, a, base) ==
    /\ ~archived
    /\ HeadVersionNo(a) = base
    /\ Fresh(v)
    /\ AppendVersion(v, [reference |-> NoReference, artifact |-> a,
                         no |-> base + 1])
    /\ UNCHANGED <<recoveryVars, archived, callVars, returned>>

ArchiveProject ==
    /\ ~archived
    /\ archived' = TRUE
    /\ UNCHANGED <<recoveryVars, versions, callVars, returned>>

WatcherNext ==
    \E r \in References :
        \/ \E scope \in Scopes :
              \/ RegisterOutput(r, scope)
              \/ \E t \in Tokens : ClaimOutput(r, scope, t)
        \/ \E t \in Tokens : ReleaseClaim(r, t) \/ FinalizeClaim(r, t)

CallNext ==
    \E scope \in Scopes, draft \in VersionDraft :
        \/ ReturnCompleted(scope, draft)
        \/ RetryPending(scope, draft)
        \/ \E v \in Versions : CreateFresh(scope, draft, v)

StepNext ==
    \/ PrepareCommit \/ Complete \/ Discard \/ WriteUnreported
    \/ CommitVersion \/ CommitRefused \/ CommitFails \/ CommitUnreported
    \/ VersionFound \/ VersionMissing \/ CallCut

EnvNext ==
    \/ \E v \in Versions, a \in Artifacts, base \in Bases :
          OtherCommit(v, a, base)
    \/ ArchiveProject

Next == WatcherNext \/ CallNext \/ StepNext \/ EnvNext

Spec == Init /\ [][Next]_vars

(***************************************************************************)
(* Properties.                                                              *)
(***************************************************************************)

\* Every variable holds records of its own kind.
TypeOK ==
    /\ outputs \in [References -> OutputState \cup {NoOutput}]
    /\ reconciliation \in [References ->
            PendingArtifactCommit \cup CompletedArtifactCommit \cup {NoCommit}]
    /\ issued \subseteq References \X Tokens
    /\ DOMAIN versions \subseteq Versions
    /\ versions \in [DOMAIN versions -> StoredVersion]
    /\ archived \in BOOLEAN
    /\ at \in Points
    /\ intent \in PendingArtifactCommit \cup {NoCommit}
    /\ returned \subseteq References \X Versions

\* The Versions of the store that were committed for a reference.
CommittedFor(r) == {v \in DOMAIN versions : versions[v].reference = r}

\* A watcher reference is turned into at most one Version, over every retry,
\* ambiguous commit, lost write, crash and archival (create_version, "one
\* monotonic Version with atomic CAS").
OneVersionPerReference ==
    \A r \in References : \A v, w \in CommittedFor(r) : v = w

\* Every answer a caller got is a stored Version of its reference, and all
\* answers for one reference are the same ("exact idempotency result for one
\* consumed watcher reference", CompletedArtifactCommit).
AnswersAreDurable ==
    /\ \A x \in returned : x[2] \in CommittedFor(x[1])
    /\ \A x, y \in returned : x[1] = y[1] => x = y

\* A stored Version is never forgotten while its Project is active: the
\* recovery record of its reference still names it, pending or completed, so
\* a retry finds it instead of committing a second one.
CommittedVersionsAreTracked ==
    \A r \in References : \A v \in CommittedFor(r) :
        archived \/ /\ reconciliation[r] # NoCommit
                    /\ reconciliation[r].version = v

\* The fence and the record agree: an output is fenced by its commit intent
\* while that is pending, consumed by it once completed, and a completed
\* record names a stored Version.
FenceFollowsIntent ==
    \A r \in References : reconciliation[r] # NoCommit =>
        LET found == reconciliation[r]
        IN  /\ outputs[r] # NoOutput
            /\ found.draft.reference = r
            /\ found.kind = "pending" => outputs[r].claim = found.version
            /\ found.kind = "completed" =>
                  /\ outputs[r].claim = NoToken
                  /\ outputs[r].consumed = found.version
                  /\ found.version \in CommittedFor(r)

\* A completed record is final, a consumed output stays consumed, and an
\* intent is never replaced by another one without being discarded first.
CompletionIsFinal ==
    [][\A r \in References :
          /\ reconciliation[r] # NoCommit /\ reconciliation[r].kind = "completed"
                => reconciliation'[r] = reconciliation[r]
          /\ reconciliation[r] # NoCommit /\ reconciliation'[r] # NoCommit
                => reconciliation'[r].version = reconciliation[r].version
          /\ outputs[r] # NoOutput /\ outputs[r].consumed # NoToken
                => outputs'[r] = outputs[r]]_vars

\* The recovery of create_version as a whole: one Version per reference, tracked
\* by its record until that is completed, answers that are that Version, and
\* completed records that nothing undoes.
RecoveryIsSound ==
    /\ [](TypeOK /\ OneVersionPerReference /\ AnswersAreDurable)
    /\ [](CommittedVersionsAreTracked /\ FenceFollowsIntent)
    /\ CompletionIsFinal

(***************************************************************************)
(* The inductive invariant behind them.                                     *)
(***************************************************************************)

\* An output is claimed or consumed, never both.
FenceExclusive ==
    \A r \in References : outputs[r] # NoOutput =>
        outputs[r].claim = NoToken \/ outputs[r].consumed = NoToken

\* A record is kept under its own reference, no two name one Version, and the
\* Version it names, once stored, was committed for it.
RecordsOwnTheirVersions ==
    /\ \A r \in References : reconciliation[r] # NoCommit =>
          /\ reconciliation[r].version \in DOMAIN versions =>
                versions[reconciliation[r].version].reference = r
    /\ \A r, s \in References :
          /\ reconciliation[r] # NoCommit
          /\ reconciliation[s] # NoCommit
          /\ reconciliation[r].version = reconciliation[s].version
          => r = s

\* The call in progress owns its record: nobody else has touched it since the
\* intent was written, and the call knows what it read or wrote last.
CallOwnsItsRecord ==
    /\ at = "idle" <=> intent = NoCommit
    /\ at = "prepare" =>
          /\ intent.version \notin DOMAIN versions
          /\ \A r \in References :
                reconciliation[r] # NoCommit =>
                    reconciliation[r].version # intent.version
    /\ at \notin {"idle", "prepare"} => reconciliation[Reference] = intent
    /\ at = "complete" => intent.version \in CommittedFor(Reference)
    /\ at \in {"commit", "recommit", "discard"} =>
          archived \/ intent.version \notin DOMAIN versions

\* Every answer given is the one its completed record holds.
AnswersAreRecorded ==
    \A x \in returned :
        /\ reconciliation[x[1]] # NoCommit
        /\ reconciliation[x[1]].kind = "completed"
        /\ reconciliation[x[1]].version = x[2]

\* The inductive invariant.
CommitInv ==
    /\ TypeOK
    /\ FenceExclusive
    /\ FenceFollowsIntent
    /\ RecordsOwnTheirVersions
    /\ CallOwnsItsRecord
    /\ CommittedVersionsAreTracked
    /\ OneVersionPerReference
    /\ AnswersAreRecorded

(***************************************************************************)
(* The abstract promise, and the mapping to it.                             *)
(***************************************************************************)

ResultOf(r) ==
    IF CommittedFor(r) = {} THEN NoVersion ELSE CHOOSE v \in CommittedFor(r) : TRUE

Once == INSTANCE CommitOnce WITH result <- [r \in References |-> ResultOf(r)]

\* create_version implements CommitOnce.
ImplementsCommitOnce == Once!OnceSpec

=============================================================================
