---------------------------- MODULE AttemptLease ----------------------------
(***************************************************************************)
(* Fenced execution attempts: the recovery contract of                      *)
(* science_workbench_contracts/protocols/recovery.py.                       *)
(*                                                                          *)
(* Workers keep copies of attempts and write through a durable store that   *)
(* replaces an attempt only while it still equals the copy, and that reads  *)
(* the clock inside the transaction.  A worker may stop anywhere, keep a    *)
(* stale copy for as long as it likes and share its name with another.  The *)
(* store, the authority that anchors proofs and the one that creates        *)
(* retries are protocols the contract declares; they are modelled from how  *)
(* it uses them.  Every execution here belongs to a Run of its own.         *)
(***************************************************************************)
EXTENDS Naturals, FiniteSets

CONSTANTS Workers, Executions,
          Root,        \* the first attempt of the lineage
          NameOf,      \* lease_owner a worker presents
          None,
          MaxTime,     \* bound of the authoritative clock
          MaxToken     \* bound of attempt_token

ASSUME LeaseAssumption ==
    /\ Root \in Executions /\ None \notin Executions
    /\ \A w \in Workers : NameOf[w] # None
    /\ MaxTime \in Nat /\ MaxToken \in Nat

VARIABLES
    attempts,   \* the durable store
    copies,     \* the attempt each worker last read or wrote, and of which execution
    clock,
    effects,    \* history: downstream actions performed for each execution
    claims,     \* history: claims made under each token
    anchors,    \* proofs the independent authority vouches for
    consumed    \* proofs that were used for a retry

leaseVars == <<attempts, copies, clock, effects, claims, anchors, consumed>>

EffectState == {"not_started", "started", "ambiguous", "committed"}

AttemptStatus ==
    {"queued", "claimed", "completed", "failed", "reconciled_no_effect",
     "reconciliation_required"}

Attempt ==
    [status : AttemptStatus, effect : EffectState, owner : {NameOf[w] : w \in Workers} \cup {None},
     token : Nat, deadline : Nat, pred : Executions \cup {None}]

ASSUME NoneIsNoAttempt == None \notin Attempt

\* ATTEMPT_VALID_STATES and authority_matches_status, which every write passes.
Valid(a) ==
    /\ a.effect \in CASE a.status \in {"queued", "failed", "reconciled_no_effect"} -> {"not_started"}
                      [] a.status = "claimed" -> {"not_started", "started", "committed"}
                      [] a.status = "completed" -> {"committed"}
                      [] a.status = "reconciliation_required" -> EffectState
    /\ (a.status = "claimed") = (a.owner # None)

Queued(pred) ==
    [status |-> "queued", effect |-> "not_started", owner |-> None, token |-> 1,
     deadline |-> 0, pred |-> pred]

Exists(x) == attempts[x] # None

Init ==
    /\ attempts = [x \in Executions |-> IF x = Root THEN Queued(None) ELSE None]
    /\ copies = [w \in Workers |-> [of |-> None, attempt |-> None]]
    /\ clock = 0
    /\ effects = [x \in Executions |-> 0]
    /\ claims = [x \in Executions |-> [t \in 1..MaxToken |-> 0]]
    /\ anchors = {} /\ consumed = {}

Read(w, x) ==
    /\ Exists(x)
    /\ copies' = [copies EXCEPT ![w] = [of |-> x, attempt |-> attempts[x]]]
    /\ UNCHANGED <<attempts, clock, effects, claims, anchors, consumed>>

\* compare_and_set_at_authoritative_time: the copy must still be what is stored.
CompareAndSet(w, new) ==
    LET x == copies[w].of IN
    /\ attempts[x] = copies[w].attempt
    /\ Valid(new)
    /\ attempts' = [attempts EXCEPT ![x] = new]
    /\ copies' = [copies EXCEPT ![w].attempt = new]

\* Handed back to nobody: the token moves on, so every copy is stale.
Released(a, status) == [a EXCEPT !.owner = None, !.token = @ + 1, !.status = status]

Reclaimed(a, w, deadline) == [a EXCEPT !.owner = NameOf[w], !.deadline = deadline, !.token = @ + 1]

\* claim_attempt: a waiting attempt is taken; a lapsed one is taken over under a new
\* token, unless its effect may have begun, in which case nobody may.
Claimed(a, w, deadline) ==
    IF a.status = "queued" THEN [a EXCEPT !.owner = NameOf[w], !.deadline = deadline, !.status = "claimed"]
    ELSE IF a.effect # "not_started" THEN Released(a, "reconciliation_required")
    ELSE Reclaimed(a, w, deadline)

Held(w) ==
    LET a == copies[w].attempt IN
    /\ copies[w].of # None
    /\ a.status = "claimed" /\ a.owner = NameOf[w]
    /\ clock < a.deadline
    /\ a.token < MaxToken

Claim(w, deadline) ==
    LET a == copies[w].attempt
        x == copies[w].of
        new == Claimed(a, w, deadline)
    IN
    /\ x # None /\ a.token < MaxToken
    /\ deadline > clock
    /\ a.status = "queued" \/ (a.status = "claimed" /\ clock >= a.deadline)
    /\ CompareAndSet(w, new)
    /\ claims' = IF new.status = "claimed" THEN [claims EXCEPT ![x][new.token] = @ + 1] ELSE claims
    /\ UNCHANGED <<clock, effects, anchors, consumed>>

Heartbeat(w, deadline) ==
    /\ Held(w)
    /\ deadline > clock
    /\ CompareAndSet(w, [copies[w].attempt EXCEPT !.deadline = deadline])
    /\ UNCHANGED <<clock, effects, claims, anchors, consumed>>

\* Mutant of MayFollow: an effect may be recorded as started once more.
MayFollowAgain(from, to) ==
    <<from, to>> \in {"not_started", "started"} \X {"started", "ambiguous"} \cup {<<"started", "committed">>}

\* The effect boundary only moves forward.
MayFollow(from, to) ==
    <<from, to>> \in {<<"not_started", "started">>, <<"not_started", "ambiguous">>,
                      <<"started", "ambiguous">>, <<"started", "committed">>}

\* record_effect.  An uncertain effect takes the attempt out of every hand.
Recorded(a, effect) ==
    IF effect = "ambiguous" THEN Released([a EXCEPT !.effect = effect], "reconciliation_required")
    ELSE [a EXCEPT !.effect = effect]

RecordEffect(w, effect) ==
    /\ Held(w)
    /\ MayFollow(copies[w].attempt.effect, effect)
    /\ CompareAndSet(w, Recorded(copies[w].attempt, effect))
    /\ UNCHANGED <<clock, effects, claims, anchors, consumed>>

\* perform_downstream_effect: the action happens inside the transaction that records
\* that it has started.
Perform(w) ==
    /\ Held(w)
    /\ MayFollow(copies[w].attempt.effect, "started")
    /\ CompareAndSet(w, Recorded(copies[w].attempt, "started"))
    /\ effects' = [effects EXCEPT ![copies[w].of] = @ + 1]
    /\ UNCHANGED <<clock, claims, anchors, consumed>>

\* complete_attempt: success needs a committed effect, failure none at all.
Outcome(a, outcome) ==
    IF outcome = "failed" /\ a.effect # "not_started" THEN Released(a, "reconciliation_required")
    ELSE Released(a, outcome)

Complete(w, outcome) ==
    /\ Held(w)
    /\ outcome = "completed" => copies[w].attempt.effect = "committed"
    /\ CompareAndSet(w, Outcome(copies[w].attempt, outcome))
    /\ UNCHANGED <<clock, effects, claims, anchors, consumed>>

(***************************************************************************)
(* Reconciliation and retry.                                                *)
(***************************************************************************)

\* External: an operator withdraws a claimed attempt whose effect has not begun, a
\* state the contract admits and none of its transitions produces.
Suspect(x) ==
    /\ Exists(x) /\ attempts[x].status = "claimed" /\ attempts[x].effect = "not_started"
    /\ attempts[x].token < MaxToken
    /\ attempts' = [attempts EXCEPT ![x] = Released(attempts[x], "reconciliation_required")]
    /\ UNCHANGED <<copies, clock, effects, claims, anchors, consumed>>

\* External: the independent authority anchors a proof of no effect for what needs
\* reconciliation, and only when there was none.
Anchor(x) ==
    /\ Exists(x) /\ attempts[x].status = "reconciliation_required" /\ effects[x] = 0
    /\ anchors' = anchors \cup {<<x, attempts[x].token>>}
    /\ UNCHANGED <<attempts, copies, clock, effects, claims, consumed>>

\* reconcile_no_effect with a proof of exactly this attempt.
Reconcile(w) ==
    LET a == copies[w].attempt IN
    /\ copies[w].of # None
    /\ a.status = "reconciliation_required" /\ a.effect = "not_started"
    /\ <<copies[w].of, a.token>> \in anchors
    /\ CompareAndSet(w, [a EXCEPT !.status = "reconciled_no_effect"])
    /\ UNCHANGED <<clock, effects, claims, anchors, consumed>>

\* Mutant of Reserve: the proof is checked and not used up.
ReserveForever(proof) == UNCHANGED consumed

Reserve(proof) == proof \notin consumed /\ consumed' = consumed \cup {proof}

\* retry_attempt: the authority reserves the proof and creates the child at once.
Retry(w, child) ==
    LET a == copies[w].attempt
        proof == <<copies[w].of, a.token>>
    IN
    /\ copies[w].of # None
    /\ a.status = "reconciled_no_effect" /\ a.effect = "not_started"
    /\ child # copies[w].of
    /\ ~Exists(child) /\ proof \in anchors
    /\ Reserve(proof)
    /\ attempts' = [attempts EXCEPT ![child] = Queued(copies[w].of)]
    /\ UNCHANGED <<copies, clock, effects, claims, anchors>>

Tick == clock < MaxTime /\ clock' = clock + 1
        /\ UNCHANGED <<attempts, copies, effects, claims, anchors, consumed>>

WorkerNext(w) ==
    \/ \E x \in Executions : Read(w, x)
    \/ \E d \in 1..(MaxTime + 1) : Claim(w, d) \/ Heartbeat(w, d)
    \/ \E e \in EffectState : RecordEffect(w, e)
    \/ Perform(w)
    \/ \E o \in {"completed", "failed"} : Complete(w, o)

\* The contract's own transitions.
PlainNext == Tick \/ \E w \in Workers : WorkerNext(w)

Next ==
    \/ PlainNext
    \/ \E x \in Executions : Suspect(x) \/ Anchor(x)
    \/ \E w \in Workers : Reconcile(w) \/ \E x \in Executions : Retry(w, x)

Spec == Init /\ [][Next]_leaseVars

(***************************************************************************)
(* Properties.                                                              *)
(***************************************************************************)

\* Whoever holds stale copies, stops or comes back, the downstream action of an
\* execution is performed at most once, ...
PerformedAtMostOnce == \A x \in Executions : effects[x] <= 1

\* ... a retry exists only of an execution that performed none and never will, and an
\* execution is retried at most once: one action for a whole lineage.
RetriesReplaceNothing ==
    /\ \A x \in Executions : Exists(x) /\ attempts[x].pred # None =>
            effects[attempts[x].pred] = 0 /\ attempts[attempts[x].pred].status = "reconciled_no_effect"
    /\ \A x, y \in Executions :
            Exists(x) /\ Exists(y) /\ attempts[x].pred = attempts[y].pred => x = y

=============================================================================
