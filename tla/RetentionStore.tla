--------------------------- MODULE RetentionStore ---------------------------
(***************************************************************************)
(* Records, legal holds, expiry and deletion runs of one tenant's           *)
(* RetentionStore (tools/platform_policy/retention.py).                     *)
(*                                                                          *)
(* Every public operation runs under the store's lock and is one action.    *)
(* Callers bring their own clocks: an operation takes any time, and one     *)
(* that is earlier than a time already used is refused.  Deletion systems   *)
(* are external; what the store sees of them are the attestations of a      *)
(* completion, genuine when the verifier of their system accepts them for   *)
(* this run's challenge and manifest.  Tenant and role checks refuse        *)
(* without effect and are left out; governance events that the store        *)
(* appends to its audit log are in BreakGlass.                              *)
(***************************************************************************)
EXTENDS Naturals, Sequences, FiniteSets

CONSTANTS Records, Runs, Keys, Systems,
          Scopes, ScopeOf,   \* the scope of each record
          DaysOf,            \* how long the policy keeps each record
          Absent,
          LastTime,          \* bound of every clock
          MaxHolds,          \* bound: holds per scope
          MaxAttempts        \* bound of a run's attempts

Times == 0..LastTime
Never == LastTime + 1

\* Attestations: when a system deleted a record.
Evidence == UNION {[D -> Times] : D \in SUBSET (Records \X Systems)}

Run == [key : Keys, cutoff : Times, cand : SUBSET Records, attempts : 1..MaxAttempts,
        done : 0..Never, receipts : Evidence]

\* What policies and bounds may be; Absent is no run.
RetentionAssumption ==
    /\ ScopeOf \in [Records -> Scopes] /\ DaysOf \in [Records -> Nat]
    /\ LastTime \in Nat /\ MaxHolds \in Nat /\ MaxAttempts \in Nat \ {0}
    /\ Absent \notin Run

VARIABLES
    last,       \* _last_now
    records,    \* when each stored record occurred; Never: not stored
    gone,       \* ids removed by completed runs
    expired,    \* _expired_ids
    reserved,   \* _reserved_ids
    holds,      \* _hold_history: the latest revision of each hold of a scope
    runs        \* _runs, with their idempotency keys

retVars == <<last, records, gone, expired, reserved, holds, runs>>

Hold == [placed : Times, released : 0..Never]

Stored(r) == records[r] # Never

RetInit ==
    /\ last = 0
    /\ records = [r \in Records |-> Never] /\ gone = {}
    /\ expired = {} /\ reserved = {}
    /\ holds = [s \in Scopes |-> <<>>]
    /\ runs = [x \in Runs |-> Absent]

\* _validate_now and _now.
Consume(t) == t \in Times /\ t >= last /\ last' = t

(***************************************************************************)
(* Records and holds.                                                       *)
(***************************************************************************)

\* append_operational and append_audit.  Ids are never used again.
Append1(t, r, at) ==
    /\ Consume(t)
    /\ ~Stored(r) /\ r \notin gone
    /\ records' = [records EXCEPT ![r] = at]
    /\ UNCHANGED <<gone, expired, reserved, holds, runs>>

PlaceHold(t, s) ==
    /\ Consume(t)
    /\ Len(holds[s]) < MaxHolds
    /\ \A i \in DOMAIN holds[s] : holds[s][i].released # Never
    /\ holds' = [holds EXCEPT ![s] = Append(@, [placed |-> t, released |-> Never])]
    /\ UNCHANGED <<records, gone, expired, reserved, runs>>

ReleaseHold(t, s) ==
    /\ Consume(t)
    /\ \E i \in DOMAIN holds[s] :
        /\ holds[s][i].released = Never
        /\ holds' = [holds EXCEPT ![s][i].released = t]
    /\ UNCHANGED <<records, gone, expired, reserved, runs>>

\* _held_scopes: the last hold of a scope, until the moment it is released.
HeldScope(s, t) ==
    LET h == holds[s][Len(holds[s])] IN
    holds[s] # <<>> /\ h.placed <= t /\ (h.released = Never \/ h.released > t)

\* Past its retention period and free.
Aged(r, t) == Stored(r) /\ records[r] + DaysOf[r] <= t /\ ~HeldScope(ScopeOf[r], t)

\* expire hides what is due.
Expire(t) ==
    /\ Consume(t)
    /\ expired' = expired \cup {r \in Records : Aged(r, t)}
    /\ UNCHANGED <<records, gone, reserved, holds, runs>>

(***************************************************************************)
(* Deletion runs.                                                           *)
(***************************************************************************)

\* _eligible_ids.
Eligible(t) == {r \in expired \ reserved : Aged(r, t)}

NewRun(t, k) ==
    [key |-> k, cutoff |-> t, cand |-> Eligible(t), attempts |-> 1, done |-> Never, receipts |-> <<>>]

\* start_retention_run freezes its candidates; a known key replays its own run only.
Start(t, x, k) ==
    /\ Consume(t)
    /\ IF \E y \in Runs : runs[y] # Absent /\ runs[y].key = k
       THEN runs[x] # Absent /\ runs[x].key = k /\ UNCHANGED <<runs, reserved>>
       ELSE /\ runs[x] = Absent /\ Eligible(t) # {}
            /\ runs' = [runs EXCEPT ![x] = NewRun(t, k)]
            /\ reserved' = reserved \cup Eligible(t)
    /\ UNCHANGED <<records, gone, expired, holds>>

Open(x) == runs[x] # Absent /\ runs[x].done = Never

Tried(x) ==
    /\ runs[x].attempts < MaxAttempts
    /\ runs' = [runs EXCEPT ![x].attempts = @ + 1]

Resume(t, x) ==
    /\ Consume(t)
    /\ Open(x) /\ Tried(x)
    /\ UNCHANGED <<records, gone, expired, reserved, holds>>

\* Mutant of Intersects: only the hold in force when the run completes counts.
IntersectsNever(s, receipts) == FALSE

\* _deletion_intersects_hold: something was deleted during a hold, past or present.
Intersects(s, receipts) ==
    \E i \in DOMAIN holds[s] : \E c \in DOMAIN receipts :
        receipts[c] >= holds[s][i].placed /\ receipts[c] <= holds[s][i].released

\* complete_retention_run is delayed while the scope of a candidate is held, or when
\* the deletions it is told of fall in a hold.
Blocked(t, x, receipts) ==
    \E r \in runs[x].cand : HeldScope(ScopeOf[r], t) \/ Intersects(ScopeOf[r], receipts)

Delay(t, x, receipts) ==
    /\ Consume(t)
    /\ Open(x) /\ Blocked(t, x, receipts) /\ Tried(x)
    /\ UNCHANGED <<records, gone, expired, reserved, holds>>

\* Exactly the coordinates of the run, each deleted since it began.
Proven(t, x, receipts) ==
    /\ DOMAIN receipts = runs[x].cand \X Systems
    /\ \A c \in DOMAIN receipts : runs[x].cutoff < receipts[c] /\ receipts[c] <= t

CompleteRun(t, x, receipts) ==
    /\ Consume(t)
    /\ Open(x) /\ runs[x].attempts < MaxAttempts
    /\ ~Blocked(t, x, receipts)
    /\ Proven(t, x, receipts)
    /\ records' = [r \in Records |-> IF r \in runs[x].cand THEN Never ELSE records[r]]
    /\ gone' = gone \cup runs[x].cand
    /\ expired' = expired \ runs[x].cand /\ reserved' = reserved \ runs[x].cand
    /\ runs' = [runs EXCEPT ![x].done = t, ![x].receipts = receipts, ![x].attempts = @ + 1]
    /\ UNCHANGED holds

\* Reads, refusals after the clock was used, replays of a completed run, and
\* change_policy, whose new version has the same fixed periods.
Look(t) == Consume(t) /\ UNCHANGED <<records, gone, expired, reserved, holds, runs>>

\* What a caller may bring: genuine attestations of some coordinates of the run.
Receipts(x) == UNION {[D -> Times] : D \in SUBSET (runs[x].cand \X Systems)}

RetNext ==
    \E t \in Times :
        \/ Look(t) \/ Expire(t)
        \/ \E r \in Records, at \in Times : Append1(t, r, at)
        \/ \E s \in Scopes : PlaceHold(t, s) \/ ReleaseHold(t, s)
        \/ \E x \in Runs :
            \/ \E k \in Keys : Start(t, x, k)
            \/ Resume(t, x)
            \/ Open(x) /\ t >= last /\ \E receipts \in Receipts(x) : Delay(t, x, receipts) \/ CompleteRun(t, x, receipts)

RetSpec == RetInit /\ [][RetNext]_retVars

(***************************************************************************)
(* Properties.                                                              *)
(***************************************************************************)

RunOK(v) ==
    /\ v.key \in Keys /\ v.cutoff \in Times /\ v.attempts \in 1..MaxAttempts
    /\ v.cand \subseteq Records /\ v.done \in 0..Never

\* The state has its shape.
RetTypeOK ==
    /\ last \in Times /\ records \in [Records -> 0..Never]
    /\ gone \subseteq Records /\ expired \subseteq Records /\ reserved \subseteq Records
    /\ holds \in [Scopes -> Seq(Hold)]
    /\ \A x \in Runs : runs[x] # Absent => RunOK(runs[x])

\* What is reserved is what the open runs hold, each record by one of them only, and
\* all of it is still stored: no record is deleted by two runs, none is lost to a run
\* that cannot delete it.
CandidatesAreExclusive ==
    /\ reserved = UNION {runs[x].cand : x \in {y \in Runs : Open(y)}}
    /\ \A x, y \in Runs : Open(x) /\ Open(y) /\ x # y => runs[x].cand \cap runs[y].cand = {}
    /\ \A r \in reserved : Stored(r) /\ r \in expired

\* Every record that is gone was due when its run began, and every deletion system
\* attested its deletion after that and before the run completed.
DeletionIsProven ==
    \A r \in gone : \E x \in Runs :
        /\ runs[x] # Absent /\ runs[x].done # Never /\ r \in runs[x].cand
        /\ \A y \in Systems : /\ <<r, y>> \in DOMAIN runs[x].receipts
                              /\ runs[x].receipts[<<r, y>>] > runs[x].cutoff
                              /\ runs[x].receipts[<<r, y>>] <= runs[x].done

\* Records leave the store only while no hold covers them, and never on evidence of a
\* deletion that fell inside a hold, even one released since.
HeldRecordsStay ==
    [][\A r \in gone' \ gone :
         \A i \in DOMAIN holds[ScopeOf[r]] :
            LET h == holds[ScopeOf[r]][i] IN
            /\ h.released <= last'
            /\ \A x \in Runs : Open(x) /\ ~Open(x)' /\ r \in runs[x].cand =>
                  \A y \in Systems :
                     ~(h.placed <= runs'[x].receipts[<<r, y>>] /\ runs'[x].receipts[<<r, y>>] <= h.released)]_retVars

\* Whatever clocks its callers bring, the store deletes what is due, once, on the
\* word of every system, and never across a hold.
DeletionsAreGoverned ==
    [](RetTypeOK /\ CandidatesAreExclusive /\ DeletionIsProven) /\ HeldRecordsStay

=============================================================================
