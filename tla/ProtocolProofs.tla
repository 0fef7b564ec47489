--------------------------- MODULE ProtocolProofs ---------------------------
(***************************************************************************)
(* Proofs about the protocol contracts: one downstream action for a lineage *)
(* of attempts, one execution for a consent, and restores that show and     *)
(* purge by every event so far, for any number of workers, executions,      *)
(* plans, approvals, backups and subjects, any clock, any keys and any      *)
(* naming of the workers.                                                   *)
(*                                                                          *)
(* PerformedAtMostOnce is not inductive: a stale copy must be unable to     *)
(* write, which compare-and-set gives, and the effect boundary must never   *)
(* move back, which is what the invariant adds.  For retries it adds that   *)
(* reconciled attempts are final, so that a copy of one is never stale, and *)
(* that the proof of every predecessor is used up.                          *)
(*                                                                          *)
(* ConsentsAreSpentOnce needs of every record how far it came: which        *)
(* revision belongs to which status, who decided it, and that a consumed one*)
(* was in time and spent its binding.                                       *)
(*                                                                          *)
(* RestoresAreGoverned needs that a permit was right for the streams it was *)
(* built over, and that nothing moves an active restore.                    *)
(***************************************************************************)
EXTENDS AttemptLease, ApprovalTokens, RestoreGovernance, WellFoundedInduction, TLAPS

(***************************************************************************)
(* Attempts and leases.                                                     *)
(***************************************************************************)
(* A worker's copy of an execution is an attempt.                            *)
CopiesAreAttempts ==
  /\ copies \in [Workers -> [of : Executions \cup {None}, attempt : Attempt \cup {None}]]
  /\ \A w \in Workers : copies[w].of # None => copies[w].attempt \in Attempt

(* An action that was performed is recorded, and recorded for good.          *)
EffectsAreRecorded ==
  /\ effects \in [Executions -> Nat]
  /\ \A x \in Executions :
       /\ effects[x] <= 1
       /\ effects[x] # 0 => attempts[x] \in Attempt /\ attempts[x].effect # "not_started"

IsReconciled(a) == a \in Attempt /\ a.status = "reconciled_no_effect"

(* A reconciled attempt had no effect, and no copy of it is stale.           *)
ReconciledIsFinal ==
  /\ \A x \in Executions : IsReconciled(attempts[x]) => attempts[x].effect = "not_started"
  /\ \A w \in Workers : copies[w].of # None /\ IsReconciled(copies[w].attempt) =>
       attempts[copies[w].of] = copies[w].attempt

(* A retry has a reconciled predecessor whose proof is used up.              *)
RetriesAreBacked ==
  \A x \in Executions : Exists(x) =>
    IF attempts[x].pred = None
    THEN x = Root
    ELSE LET p == attempts[x].pred IN
         IsReconciled(attempts[p]) /\ <<p, attempts[p].token>> \in consumed

(* No execution is retried twice.                                            *)
RetriesAreUnique ==
  \A x, y \in Executions :
    Exists(x) /\ Exists(y) /\ attempts[x].pred = attempts[y].pred => x = y

(* The inductive invariant.                                                  *)
LeaseInv ==
  /\ attempts \in [Executions -> Attempt \cup {None}]
  /\ CopiesAreAttempts /\ EffectsAreRecorded /\ ReconciledIsFinal
  /\ RetriesAreBacked /\ RetriesAreUnique

USE DEF Exists, IsReconciled

(* The first attempt alone satisfies the invariant.                          *)
LEMMA LeaseInit == Init => LeaseInv
  <1> SUFFICES ASSUME Init PROVE LeaseInv
    OBVIOUS
  <1>1. Queued(None) \in Attempt /\ Queued(None).status = "queued" /\ Queued(None).pred = None
    BY DEF Queued, Attempt, AttemptStatus, EffectState
  <1> QED
    BY <1>1, LeaseAssumption, NoneIsNoAttempt
    DEF Init, LeaseInv, CopiesAreAttempts, EffectsAreRecorded, ReconciledIsFinal,
        RetriesAreBacked, RetriesAreUnique

(* What a compare-and-set must respect to preserve the invariant: it starts  *)
(* from an attempt that is not reconciled, keeps the predecessor, never      *)
(* moves the effect back, and an action is performed only with the step that *)
(* records its start.                                                        *)
LEMMA CompareAndSetPreserves ==
  ASSUME LeaseInv, NEW w \in Workers, NEW new \in Attempt,
         copies[w].of # None, CompareAndSet(w, new),
         copies[w].attempt.status # "reconciled_no_effect",
         new.pred = copies[w].attempt.pred,
         copies[w].attempt.effect # "not_started" => new.effect # "not_started",
         new.status = "reconciled_no_effect" => new.effect = "not_started",
         \/ effects' = effects
         \/ /\ effects' = [effects EXCEPT ![copies[w].of] = @ + 1]
            /\ copies[w].attempt.effect = "not_started" /\ new.effect # "not_started",
         UNCHANGED consumed
  PROVE  LeaseInv'
  <1> DEFINE x == copies[w].of
  <1>1. x \in Executions /\ copies[w].attempt \in Attempt /\ attempts[x] = copies[w].attempt
    BY DEF LeaseInv, CopiesAreAttempts, CompareAndSet
  <1>2. /\ attempts' = [attempts EXCEPT ![x] = new]
        /\ copies' = [copies EXCEPT ![w].attempt = new]
    BY DEF CompareAndSet
  <1>3. attempts' \in [Executions -> Attempt \cup {None}]
    BY <1>1, <1>2 DEF LeaseInv
  <1>4. /\ attempts'[x] = new
        /\ \A y \in Executions : y # x => attempts'[y] = attempts[y]
    BY <1>1, <1>2 DEF LeaseInv
  <1>5. /\ copies' \in [Workers -> [of : Executions \cup {None}, attempt : Attempt \cup {None}]]
        /\ copies'[w] = [of |-> x, attempt |-> new]
        /\ \A u \in Workers : u # w => copies'[u] = copies[u]
    BY <1>1, <1>2 DEF LeaseInv, CopiesAreAttempts
  <1>6. CopiesAreAttempts'
    BY <1>5 DEF LeaseInv, CopiesAreAttempts
  <1>7. EffectsAreRecorded'
    <2>1. CASE effects' = effects
      BY <1>1, <1>4, <2>1 DEF LeaseInv, EffectsAreRecorded
    <2>2. CASE /\ effects' = [effects EXCEPT ![x] = @ + 1]
               /\ copies[w].attempt.effect = "not_started" /\ new.effect # "not_started"
      <3>1. effects[x] = 0
        BY <1>1, <2>2 DEF LeaseInv, EffectsAreRecorded
      <3>2. effects' \in [Executions -> Nat] /\ effects'[x] = 1
            /\ \A y \in Executions : y # x => effects'[y] = effects[y]
        BY <1>1, <2>2, <3>1 DEF LeaseInv, EffectsAreRecorded
      <3> QED
        BY <1>4, <2>2, <3>2 DEF LeaseInv, EffectsAreRecorded
    <2> QED
      BY <2>1, <2>2
  <1>8. ReconciledIsFinal'
    <2>1. \A u \in Workers : u # w /\ copies[u].of = x =>
            copies[u].attempt.status # "reconciled_no_effect"
      BY <1>1 DEF LeaseInv, CopiesAreAttempts, ReconciledIsFinal
    <2> QED
      BY <1>1, <1>4, <1>5, <2>1 DEF LeaseInv, CopiesAreAttempts, ReconciledIsFinal
  <1>9. \A y \in Executions : Exists(y)' => Exists(y) /\ attempts'[y].pred = attempts[y].pred
    BY <1>1, <1>4, NoneIsNoAttempt
  <1>10. RetriesAreBacked'
    <2> SUFFICES ASSUME NEW y \in Executions, Exists(y)'
                 PROVE  IF attempts'[y].pred = None
                        THEN y = Root
                        ELSE /\ IsReconciled(attempts'[attempts'[y].pred])
                             /\ <<attempts'[y].pred, attempts'[attempts'[y].pred].token>>
                                  \in consumed'
      BY DEF RetriesAreBacked
    <2> DEFINE p == attempts[y].pred
    <2>1. Exists(y) /\ attempts'[y].pred = p
      BY <1>9
    <2>2. CASE p = None
      BY <2>1, <2>2 DEF LeaseInv, RetriesAreBacked
    <2>3. CASE p # None
      <3>1. IsReconciled(attempts[p]) /\ <<p, attempts[p].token>> \in consumed
        BY <2>1, <2>3 DEF LeaseInv, RetriesAreBacked
      <3>2. p \in Executions
        BY <2>1, <2>3 DEF LeaseInv, Attempt
      <3>3. p # x
        BY <1>1, <3>1
      <3> QED
        BY <1>4, <2>1, <2>3, <3>1, <3>2, <3>3
    <2> QED
      BY <2>2, <2>3
  <1>11. RetriesAreUnique'
    BY <1>9 DEF LeaseInv, RetriesAreUnique
  <1> QED
    BY <1>3, <1>6, <1>7, <1>8, <1>10, <1>11 DEF LeaseInv

(* Fields of an attempt.                                                     *)
LEMMA AttemptFields ==
  ASSUME NEW a \in Attempt
  PROVE  /\ a.status \in AttemptStatus /\ a.effect \in EffectState
         /\ a.owner \in {NameOf[w] : w \in Workers} \cup {None}
         /\ a.token \in Nat /\ a.deadline \in Nat /\ a.pred \in Executions \cup {None}
  BY DEF Attempt

(* Handing an attempt back keeps what the invariant is about.                *)
LEMMA ReleasedFields ==
  ASSUME NEW a \in Attempt, NEW status \in AttemptStatus
  PROVE  /\ Released(a, status) \in Attempt
         /\ Released(a, status).status = status
         /\ Released(a, status).pred = a.pred
         /\ Released(a, status).effect = a.effect
  <1> DEFINE n == a.token + 1
  <1>1. n \in Nat
    BY AttemptFields
  <1>2. Released(a, status) = [a EXCEPT !.owner = None, !.token = n, !.status = status]
    BY DEF Attempt, Released
  <1> HIDE DEF n
  <1> QED
    BY <1>1, <1>2, AttemptFields DEF Attempt

(* So does claiming it.                                                      *)
LEMMA ClaimedFields ==
  ASSUME NEW a \in Attempt, NEW w \in Workers, NEW d \in Nat,
         a.status \in {"queued", "claimed"}
  PROVE  /\ Claimed(a, w, d) \in Attempt
         /\ Claimed(a, w, d).status # "reconciled_no_effect"
         /\ Claimed(a, w, d).pred = a.pred
         /\ Claimed(a, w, d).effect = a.effect
  <1>1. CASE a.status = "queued"
    BY <1>1, AttemptFields DEF Claimed, Attempt, AttemptStatus
  <1>2. CASE a.status # "queued" /\ a.effect # "not_started"
    <2>1. Claimed(a, w, d) = Released(a, "reconciliation_required")
      BY <1>2 DEF Claimed
    <2> QED
      BY <2>1, ReleasedFields DEF AttemptStatus
  <1>3. CASE a.status # "queued" /\ a.effect = "not_started"
    <2>1. Claimed(a, w, d) = Reclaimed(a, w, d)
      BY <1>3 DEF Claimed
    <2> DEFINE n == a.token + 1
    <2>2. n \in Nat
      BY AttemptFields
    <2>3. Claimed(a, w, d) =
            [a EXCEPT !.owner = NameOf[w], !.deadline = d, !.token = n]
      BY <2>1 DEF Reclaimed, Attempt
    <2> HIDE DEF n
    <2> QED
      BY <1>3, <2>2, <2>3, AttemptFields DEF Attempt
  <1> QED
    BY <1>1, <1>2, <1>3

(* And recording an effect.                                                  *)
LEMMA RecordedFields ==
  ASSUME NEW a \in Attempt, NEW effect \in EffectState,
         a.status = "claimed", MayFollow(a.effect, effect)
  PROVE  /\ Recorded(a, effect) \in Attempt
         /\ Recorded(a, effect).status # "reconciled_no_effect"
         /\ Recorded(a, effect).pred = a.pred
         /\ Recorded(a, effect).effect = effect /\ effect # "not_started"
  <1>1. effect # "not_started"
    BY DEF MayFollow
  <1> DEFINE b == [a EXCEPT !.effect = effect]
  <1>2. b \in Attempt /\ b.status = a.status /\ b.pred = a.pred /\ b.effect = effect
    BY AttemptFields DEF Attempt
  <1>3. CASE effect = "ambiguous"
    <2>1. Recorded(a, effect) = Released(b, "reconciliation_required")
      BY <1>3 DEF Recorded
    <2> HIDE DEF b
    <2> QED
      BY <1>1, <1>2, <2>1, ReleasedFields DEF AttemptStatus
  <1>4. CASE effect # "ambiguous"
    BY <1>1, <1>2, <1>4 DEF Recorded
  <1> QED
    BY <1>3, <1>4

(* Every step preserves the invariant.                                       *)
LEMMA LeaseStep == LeaseInv /\ [Next]_leaseVars => LeaseInv'
  <1> SUFFICES ASSUME LeaseInv, [Next]_leaseVars
               PROVE  LeaseInv'
    OBVIOUS
  <1>0. \A w \in Workers : copies[w].of # None => copies[w].attempt \in Attempt
    BY DEF LeaseInv, CopiesAreAttempts
  <1>1. ASSUME NEW w \in Workers, NEW x \in Executions, Read(w, x)
        PROVE  LeaseInv'
    <2> DEFINE c == [of |-> x, attempt |-> attempts[x]]
    <2>1. attempts[x] \in Attempt
      BY <1>1 DEF LeaseInv, Read
    <2>2. /\ copies' = [copies EXCEPT ![w] = c]
          /\ attempts' = attempts /\ effects' = effects /\ consumed' = consumed
      BY <1>1 DEF Read
    <2>3. CopiesAreAttempts' /\ ReconciledIsFinal'
      BY <2>1, <2>2, LeaseAssumption DEF LeaseInv, CopiesAreAttempts, ReconciledIsFinal
    <2> QED
      BY <2>2, <2>3 DEF LeaseInv, EffectsAreRecorded, RetriesAreBacked, RetriesAreUnique
  <1>2. ASSUME NEW w \in Workers, NEW d \in 1..(MaxTime + 1), Claim(w, d)
        PROVE  LeaseInv'
    <2> DEFINE a == copies[w].attempt
    <2>1. copies[w].of # None /\ a \in Attempt /\ a.status \in {"queued", "claimed"}
      BY <1>0, <1>2 DEF Claim
    <2>2. d \in Nat
      BY LeaseAssumption
    <2>3. CompareAndSet(w, Claimed(a, w, d)) /\ UNCHANGED <<effects, consumed>>
      BY <1>2 DEF Claim
    <2> QED
      BY <2>1, <2>2, <2>3, ClaimedFields, CompareAndSetPreserves
  <1>3. ASSUME NEW w \in Workers, NEW d \in 1..(MaxTime + 1), Heartbeat(w, d)
        PROVE  LeaseInv'
    <2> DEFINE a == copies[w].attempt
               new == [a EXCEPT !.deadline = d]
    <2>1. copies[w].of # None /\ a \in Attempt /\ a.status = "claimed"
      BY <1>0, <1>3 DEF Heartbeat, Held
    <2>2. /\ new \in Attempt /\ new.status = "claimed" /\ new.pred = a.pred
          /\ new.effect = a.effect
      BY <2>1, LeaseAssumption, AttemptFields DEF Attempt
    <2>3. CompareAndSet(w, new) /\ UNCHANGED <<effects, consumed>>
      BY <1>3 DEF Heartbeat
    <2> HIDE DEF new
    <2> QED
      BY <2>1, <2>2, <2>3, CompareAndSetPreserves
  <1>4. ASSUME NEW w \in Workers, NEW e \in EffectState, RecordEffect(w, e)
        PROVE  LeaseInv'
    <2> DEFINE a == copies[w].attempt
    <2>1. copies[w].of # None /\ a \in Attempt /\ a.status = "claimed"
      BY <1>0, <1>4 DEF RecordEffect, Held
    <2>2. /\ MayFollow(a.effect, e) /\ CompareAndSet(w, Recorded(a, e))
          /\ UNCHANGED <<effects, consumed>>
      BY <1>4 DEF RecordEffect
    <2> QED
      BY <2>1, <2>2, RecordedFields, CompareAndSetPreserves
  <1>5. ASSUME NEW w \in Workers, Perform(w)
        PROVE  LeaseInv'
    <2> DEFINE a == copies[w].attempt
    <2>1. copies[w].of # None /\ a \in Attempt /\ a.status = "claimed"
      BY <1>0, <1>5 DEF Perform, Held
    <2>2. /\ MayFollow(a.effect, "started") /\ CompareAndSet(w, Recorded(a, "started"))
          /\ effects' = [effects EXCEPT ![copies[w].of] = @ + 1] /\ UNCHANGED consumed
      BY <1>5 DEF Perform
    <2>3. "started" \in EffectState /\ a.effect = "not_started"
      BY <2>2 DEF MayFollow, EffectState
    <2> QED
      BY <2>1, <2>2, <2>3, RecordedFields, CompareAndSetPreserves
  <1>6. ASSUME NEW w \in Workers, NEW o \in {"completed", "failed"}, Complete(w, o)
        PROVE  LeaseInv'
    <2> DEFINE a == copies[w].attempt
    <2>1. copies[w].of # None /\ a \in Attempt /\ a.status = "claimed"
      BY <1>0, <1>6 DEF Complete, Held
    <2>2. CompareAndSet(w, Outcome(a, o)) /\ UNCHANGED <<effects, consumed>>
      BY <1>6 DEF Complete
    <2>3. PICK s \in {"completed", "failed", "reconciliation_required"} :
            Outcome(a, o) = Released(a, s)
      BY DEF Outcome
    <2>4. s \in AttemptStatus
      BY DEF AttemptStatus
    <2>5. /\ Outcome(a, o) \in Attempt /\ Outcome(a, o).status # "reconciled_no_effect"
          /\ Outcome(a, o).pred = a.pred /\ Outcome(a, o).effect = a.effect
      BY <2>1, <2>3, <2>4, ReleasedFields
    <2> QED
      BY <2>1, <2>2, <2>5, CompareAndSetPreserves
  <1>7. ASSUME NEW w \in Workers, Reconcile(w)
        PROVE  LeaseInv'
    <2> DEFINE a == copies[w].attempt
               new == [a EXCEPT !.status = "reconciled_no_effect"]
    <2>1. /\ copies[w].of # None /\ a \in Attempt
          /\ a.status = "reconciliation_required" /\ a.effect = "not_started"
      BY <1>0, <1>7 DEF Reconcile
    <2>2. new \in Attempt /\ new.pred = a.pred /\ new.effect = a.effect
      BY <2>1, AttemptFields DEF Attempt, AttemptStatus
    <2>3. CompareAndSet(w, new) /\ UNCHANGED <<effects, consumed>>
      BY <1>7 DEF Reconcile
    <2> HIDE DEF new
    <2> QED
      BY <2>1, <2>2, <2>3, CompareAndSetPreserves
  <1>8. ASSUME NEW x \in Executions, Suspect(x)
        PROVE  LeaseInv'
    <2> DEFINE new == Released(attempts[x], "reconciliation_required")
    <2>1. attempts[x] \in Attempt /\ attempts[x].status = "claimed"
      BY <1>8 DEF LeaseInv, Suspect
    <2>2. /\ new \in Attempt /\ new.status = "reconciliation_required"
          /\ new.pred = attempts[x].pred /\ new.effect = attempts[x].effect
      BY <2>1, ReleasedFields DEF AttemptStatus
    <2>3. /\ attempts' = [attempts EXCEPT ![x] = new]
          /\ copies' = copies /\ effects' = effects /\ consumed' = consumed
      BY <1>8 DEF Suspect
    <2> HIDE DEF new
    <2>4. /\ attempts' \in [Executions -> Attempt \cup {None}] /\ attempts'[x] = new
          /\ \A y \in Executions : y # x => attempts'[y] = attempts[y]
      BY <2>2, <2>3 DEF LeaseInv
    <2>5. CopiesAreAttempts' /\ EffectsAreRecorded'
      BY <2>1, <2>2, <2>3, <2>4 DEF LeaseInv, CopiesAreAttempts, EffectsAreRecorded
    <2>6. ReconciledIsFinal'
      <3>1. \A w \in Workers : copies[w].of = x => ~IsReconciled(copies[w].attempt)
        BY <2>1, LeaseAssumption DEF LeaseInv, ReconciledIsFinal
      <3> QED
        BY <2>2, <2>3, <2>4, <3>1 DEF LeaseInv, CopiesAreAttempts, ReconciledIsFinal
    <2>7. \A y \in Executions : Exists(y)' => Exists(y) /\ attempts'[y].pred = attempts[y].pred
      BY <2>1, <2>2, <2>4, NoneIsNoAttempt
    <2>8. \A y \in Executions : Exists(y) /\ attempts[y].pred # None =>
            attempts[y].pred \in Executions /\ attempts[y].pred # x
      BY <2>1 DEF LeaseInv, RetriesAreBacked, Attempt
    <2>9. RetriesAreBacked'
      <3> SUFFICES ASSUME NEW y \in Executions, Exists(y)'
                   PROVE  IF attempts'[y].pred = None
                          THEN y = Root
                          ELSE /\ IsReconciled(attempts'[attempts'[y].pred])
                               /\ <<attempts'[y].pred, attempts'[attempts'[y].pred].token>>
                                    \in consumed'
        BY DEF RetriesAreBacked
      <3> DEFINE p == attempts[y].pred
      <3>1. Exists(y) /\ attempts'[y].pred = p
        BY <2>7
      <3>2. IF p = None THEN y = Root
            ELSE IsReconciled(attempts[p]) /\ <<p, attempts[p].token>> \in consumed
        BY <3>1 DEF LeaseInv, RetriesAreBacked
      <3>3. p # None => attempts'[p] = attempts[p]
        BY <2>4, <2>8, <3>1
      <3> QED
        BY <2>3, <3>1, <3>2, <3>3
    <2>10. RetriesAreUnique'
      BY <2>7 DEF LeaseInv, RetriesAreUnique
    <2> QED
      BY <2>4, <2>5, <2>6, <2>9, <2>10 DEF LeaseInv
  <1>9. ASSUME NEW w \in Workers, NEW child \in Executions, Retry(w, child)
        PROVE  LeaseInv'
    <2> DEFINE p == copies[w].of
               a == copies[w].attempt
    <2>1. /\ p \in Executions /\ IsReconciled(a) /\ child # p
          /\ attempts[child] = None /\ <<p, a.token>> \notin consumed
      BY <1>0, <1>9 DEF LeaseInv, CopiesAreAttempts, Retry, Reserve
    <2>2. attempts[p] = a
      BY <1>9, <2>1 DEF LeaseInv, ReconciledIsFinal, Retry
    <2>3. /\ attempts' = [attempts EXCEPT ![child] = Queued(p)]
          /\ consumed' = consumed \cup {<<p, a.token>>}
          /\ copies' = copies /\ effects' = effects
      BY <1>9 DEF Retry, Reserve
    <2>4. /\ Queued(p) \in Attempt /\ Queued(p).status = "queued" /\ Queued(p).pred = p
      BY <2>1 DEF Queued, Attempt, AttemptStatus, EffectState
    <2>5. /\ attempts' \in [Executions -> Attempt \cup {None}] /\ attempts'[child] = Queued(p)
          /\ \A y \in Executions : y # child => attempts'[y] = attempts[y]
      BY <2>3, <2>4 DEF LeaseInv
    <2>6. CopiesAreAttempts' /\ EffectsAreRecorded'
      BY <2>1, <2>3, <2>5, NoneIsNoAttempt
      DEF LeaseInv, CopiesAreAttempts, EffectsAreRecorded
    <2>7. ReconciledIsFinal'
      <3>1. \A u \in Workers : copies[u].of = child => ~IsReconciled(copies[u].attempt)
        BY <2>1, LeaseAssumption, NoneIsNoAttempt DEF LeaseInv, ReconciledIsFinal
      <3> QED
        BY <2>3, <2>4, <2>5, <3>1 DEF LeaseInv, CopiesAreAttempts, ReconciledIsFinal
    <2>8. \A y \in Executions : Exists(y) /\ attempts[y].pred # None =>
            /\ attempts[y].pred \in Executions /\ attempts[y].pred # child
            /\ attempts[y].pred # p
      <3> SUFFICES ASSUME NEW y \in Executions, Exists(y), attempts[y].pred # None
                   PROVE  /\ attempts[y].pred \in Executions /\ attempts[y].pred # child
                          /\ attempts[y].pred # p
        OBVIOUS
      <3> DEFINE q == attempts[y].pred
      <3>1. IsReconciled(attempts[q]) /\ <<q, attempts[q].token>> \in consumed
        BY DEF LeaseInv, RetriesAreBacked
      <3>2. q \in Executions
        BY DEF LeaseInv, Attempt
      <3> QED
        BY <2>1, <2>2, <3>1, <3>2, NoneIsNoAttempt
    <2>9. p # None
      BY <2>1, LeaseAssumption
    <2>10. RetriesAreBacked'
      <3> SUFFICES ASSUME NEW y \in Executions, Exists(y)'
                   PROVE  IF attempts'[y].pred = None
                          THEN y = Root
                          ELSE /\ IsReconciled(attempts'[attempts'[y].pred])
                               /\ <<attempts'[y].pred, attempts'[attempts'[y].pred].token>>
                                    \in consumed'
        BY DEF RetriesAreBacked
      <3>1. CASE y = child
        BY <2>1, <2>2, <2>3, <2>4, <2>5, <2>9, <3>1
      <3>2. CASE y # child
        <4>1. Exists(y) /\ attempts'[y] = attempts[y]
          BY <2>5, <3>2
        <4> QED
          BY <2>3, <2>5, <2>8, <4>1 DEF LeaseInv, RetriesAreBacked
      <3> QED
        BY <3>1, <3>2
    <2>11. RetriesAreUnique'
      BY <2>4, <2>5, <2>8, <2>9 DEF LeaseInv, RetriesAreUnique
    <2> QED
      BY <2>5, <2>6, <2>7, <2>10, <2>11 DEF LeaseInv
  <1>10. CASE \/ Tick \/ UNCHANGED leaseVars \/ \E x \in Executions : Anchor(x)
    BY <1>10
    DEF Tick, leaseVars, Anchor, LeaseInv, CopiesAreAttempts, EffectsAreRecorded,
        ReconciledIsFinal, RetriesAreBacked, RetriesAreUnique
  <1> QED
    BY <1>1, <1>2, <1>3, <1>4, <1>5, <1>6, <1>7, <1>8, <1>9, <1>10
    DEF Next, PlainNext, WorkerNext

(* The invariant holds throughout.                                           *)
THEOREM LeaseInvariant == Spec => []LeaseInv
  BY LeaseInit, LeaseStep, PTL DEF Spec

(* perform_downstream_effect acts at most once for an execution, whoever     *)
(* holds stale copies, stops or comes back under another's name.             *)
THEOREM OneEffect == Spec => []PerformedAtMostOnce
  <1>1. LeaseInv => PerformedAtMostOnce
    BY DEF LeaseInv, EffectsAreRecorded, PerformedAtMostOnce
  <1> QED
    BY <1>1, LeaseInvariant, PTL

(* retry_attempt makes at most one retry of an execution, and only of one    *)
(* that performed nothing: one action for a whole lineage.                   *)
THEOREM OneEffectPerLineage == Spec => []RetriesReplaceNothing
  <1>1. LeaseInv => RetriesReplaceNothing
    <2> SUFFICES ASSUME LeaseInv PROVE RetriesReplaceNothing
      OBVIOUS
    <2>1. ASSUME NEW x \in Executions, Exists(x), attempts[x].pred # None
          PROVE  /\ effects[attempts[x].pred] = 0
                 /\ attempts[attempts[x].pred].status = "reconciled_no_effect"
      <3> DEFINE p == attempts[x].pred
      <3>1. IsReconciled(attempts[p])
        BY <2>1 DEF LeaseInv, RetriesAreBacked
      <3>2. p \in Executions
        BY <2>1 DEF LeaseInv, Attempt
      <3>3. attempts[p].effect = "not_started"
        BY <3>1, <3>2 DEF LeaseInv, ReconciledIsFinal
      <3> QED
        BY <3>1, <3>2, <3>3 DEF LeaseInv, EffectsAreRecorded
    <2> QED
      BY <2>1 DEF LeaseInv, RetriesAreUnique, RetriesReplaceNothing
  <1> QED
    BY <1>1, LeaseInvariant, PTL

(***************************************************************************)
(* Approvals.                                                               *)
(***************************************************************************)

(* A binding names a plan and an expiry.                                     *)
Binding == Plans \X (1 .. MaxNow)

Record ==
  [status : {"pending", "approved", "rejected", "expired", "consumed"},
   revision : 1 .. 3, by : Users \cup {"nobody"},
   binding : Binding, digest : Binding \X SigningKeys]

Exec ==
  [status : {"none", "queued", "running", "completed", "failed", "cancelled"},
   token : 0 .. MaxAttemptToken, result : 0 .. MaxAttemptToken]

(* How far a record came and who decided it; asked for means granted "ask".  *)
WellFormedRecord(r, effect) ==
  /\ r \in Record
  /\ effect[r.binding[1]] = "ask"
  /\ r.status = "pending" => r.revision = 1
  /\ r.status = "approved" => r.revision = 2
  /\ r.status \in {"approved", "consumed"} => r.by = Requester

(* A consumed approval was in time and spent its binding.                    *)
SpentInTime(r, t, spent) ==
  r.status = "consumed" => t < Expires(r) /\ r.binding \in spent

RecordsInv ==
  /\ grant \in [Plans -> {"allow", "ask", "deny"}]
  /\ DOMAIN approvals = Approvals /\ DOMAIN at = Approvals
  /\ \A a \in Approvals :
       \/ approvals[a] = NoRecord
       \/ WellFormedRecord(approvals[a], grant) /\ SpentInTime(approvals[a], at[a], consumedBindings)
  /\ OneConsumptionPerBinding

ExecInv ==
  /\ exec \in [Plans -> Exec]
  /\ ExecutionsWereGranted

TokenInv ==
  /\ now \in 0 .. MaxNow /\ key \in SigningKeys
  /\ RecordsInv /\ ExecInv

LEMMA NoRecordIsNone ==
  /\ NoRecord.status = "none"
  /\ NoRecord \notin Record
<1>1. NoRecord.status = "none" BY DEF NoRecord
<1> QED BY <1>1 DEF Record

LEMMA HasAttempts ==
  ASSUME TokenAssumption
  PROVE  MaxAttemptToken \in Nat /\ MaxAttemptToken >= 1
BY DEF TokenAssumption

LEMMA TokenStarts ==
  ASSUME TokenAssumption, TokenInit
  PROVE  TokenInv
<1>1. \A a \in Approvals : approvals[a] = NoRecord BY DEF TokenInit
<1>2. OneConsumptionPerBinding
  BY <1>1 DEF OneConsumptionPerBinding, Consumed
<1>3. RecordsInv BY <1>1, <1>2 DEF TokenInit, RecordsInv
<1>4. NoExec \in Exec /\ NoExec.status = "none"
  BY HasAttempts DEF Exec, NoExec
<1>5. exec \in [Plans -> Exec] /\ \A p \in Plans : exec[p].status = "none"
  BY <1>4 DEF TokenInit
<1>6. ExecInv BY <1>5 DEF ExecInv, ExecutionsWereGranted
<1>7. now \in 0 .. MaxNow /\ key \in SigningKeys
  BY DEF TokenInit, TokenAssumption
<1> QED BY <1>3, <1>6, <1>7 DEF TokenInv

(* What was consumed stays as it is.                                         *)
ConsumedStay ==
  \A a \in Approvals : Consumed(a) => approvals'[a] = approvals[a] /\ at'[a] = at[a]

(* No execution is begun.                                                    *)
NothingBegins ==
  /\ exec' \in [Plans -> Exec]
  /\ \A p \in Plans : exec'[p].status # "none" => exec[p].status # "none"

LEMMA GrantsLast ==
  ASSUME ExecInv, ConsumedStay, NothingBegins, UNCHANGED grant
  PROVE  ExecInv'
<1>1. ASSUME NEW p \in Plans, exec'[p].status # "none", grant[p] # "allow"
      PROVE  /\ grant[p] = "ask"
             /\ \E a \in Approvals :
                  /\ Consumed(a)' /\ approvals'[a].binding[1] = p
                  /\ approvals'[a].by = Requester /\ at'[a] < Expires(approvals[a])'
  <2>1. exec[p].status # "none" BY <1>1 DEF NothingBegins
  <2>2. PICK a \in Approvals :
             /\ Consumed(a) /\ approvals[a].binding[1] = p
             /\ approvals[a].by = Requester /\ at[a] < Expires(approvals[a])
    BY <1>1, <2>1 DEF ExecInv, ExecutionsWereGranted
  <2>3. approvals'[a] = approvals[a] /\ at'[a] = at[a] BY <2>2 DEF ConsumedStay
  <2>4. grant[p] = "ask" BY <1>1, <2>1 DEF ExecInv, ExecutionsWereGranted
  <2> QED BY <2>2, <2>3, <2>4 DEF Consumed, Expires
<1> QED BY <1>1 DEF ExecInv, NothingBegins, ExecutionsWereGranted

LEMMA RecordsStay ==
  ASSUME RecordsInv, UNCHANGED <<grant, approvals, consumedBindings, at>>
  PROVE  RecordsInv' /\ ConsumedStay
BY DEF RecordsInv, ConsumedStay, OneConsumptionPerBinding, Consumed

(* One record of an unconsumed approval is replaced.                         *)
LEMMA RecordReplaced ==
  ASSUME RecordsInv, NEW a \in Approvals, NEW r, NEW spent,
         ~Consumed(a),
         approvals' = [approvals EXCEPT ![a] = r],
         \A b \in Approvals \ {a} : at'[b] = at[b], DOMAIN at' = Approvals,
         grant' = grant,
         consumedBindings' = consumedBindings \cup spent,
         WellFormedRecord(r, grant),
         r.status = "consumed" =>
            /\ at'[a] < Expires(r)
            /\ r.binding \in spent /\ r.binding \notin consumedBindings
  PROVE  RecordsInv' /\ ConsumedStay
<1>1. /\ DOMAIN approvals' = Approvals /\ approvals'[a] = r
      /\ \A b \in Approvals \ {a} : approvals'[b] = approvals[b]
  BY DEF RecordsInv
<1>2. ConsumedStay BY <1>1 DEF ConsumedStay
<1>3. r # NoRecord BY NoRecordIsNone DEF WellFormedRecord
<1>4. ASSUME NEW b \in Approvals
      PROVE  \/ approvals'[b] = NoRecord
             \/ /\ WellFormedRecord(approvals'[b], grant)
                /\ SpentInTime(approvals'[b], at'[b], consumedBindings')
  <2>1. CASE b = a BY <1>1, <2>1 DEF SpentInTime
  <2>2. CASE b # a BY <1>1, <2>2 DEF RecordsInv, SpentInTime
  <2> QED BY <2>1, <2>2
<1>5. OneConsumptionPerBinding'
  <2> SUFFICES ASSUME NEW b \in Approvals, NEW c \in Approvals, b # c,
                      Consumed(b)', Consumed(c)'
               PROVE  approvals'[b].binding # approvals'[c].binding
    BY DEF OneConsumptionPerBinding
  <2>1. ASSUME NEW d \in Approvals \ {a}, Consumed(d)'
        PROVE  Consumed(d) /\ approvals'[d] = approvals[d]
               /\ approvals[d].binding \in consumedBindings
    BY <1>1, <2>1 DEF RecordsInv, SpentInTime, Consumed
  <2>2. Consumed(a)' => r.status = "consumed" BY <1>1 DEF Consumed
  <2>3. CASE b = a
    BY <1>1, <2>1, <2>2, <2>3
  <2>4. CASE c = a
    BY <1>1, <2>1, <2>2, <2>4
  <2>5. CASE b # a /\ c # a
    BY <2>1, <2>5 DEF RecordsInv, OneConsumptionPerBinding
  <2> QED BY <2>3, <2>4, <2>5
<1> QED BY <1>1, <1>2, <1>4, <1>5 DEF RecordsInv

LEMMA QueuedIsExec ==
  ASSUME TokenAssumption
  PROVE  QueuedExecution \in Exec /\ QueuedExecution.status = "queued"
BY HasAttempts DEF Exec, QueuedExecution

LEMMA EvaluateStep ==
  ASSUME TokenAssumption, TokenInv, NEW p \in Plans, NEW altered \in BOOLEAN,
         Evaluate(p, altered)
  PROVE  TokenInv'
<1>1. UNCHANGED <<now, key, grant, consumedBindings, at>> /\ RecordsInv /\ ExecInv
      /\ exec[p].status = "none"
  BY DEF Evaluate, TokenInv
<1>2. CASE /\ EvaluateToolGrant(p, altered) = "allow"
           /\ exec' = [exec EXCEPT ![p] = QueuedExecution]
           /\ UNCHANGED approvals
  <2>1. grant[p] = "allow" BY <1>2 DEF EvaluateToolGrant
  <2>2. RecordsInv' /\ ConsumedStay BY <1>1, <1>2, RecordsStay
  <2>3. exec' \in [Plans -> Exec] /\ \A q \in Plans \ {p} : exec'[q] = exec[q]
    BY <1>1, <1>2, QueuedIsExec DEF ExecInv
  <2>4. ASSUME NEW q \in Plans, exec'[q].status # "none"
        PROVE  \/ grant[q] = "allow"
               \/ /\ grant[q] = "ask"
                  /\ \E a \in Approvals :
                       /\ Consumed(a) /\ approvals[a].binding[1] = q
                       /\ approvals[a].by = Requester /\ at[a] < Expires(approvals[a])
    BY <1>1, <2>1, <2>3, <2>4 DEF ExecInv, ExecutionsWereGranted
  <2>5. ExecutionsWereGranted'
    BY <1>1, <1>2, <2>4 DEF ExecutionsWereGranted, Consumed, Expires
  <2> QED BY <1>1, <2>2, <2>3, <2>5 DEF TokenInv, ExecInv
<1>3. CASE /\ EvaluateToolGrant(p, altered) = "ask"
           /\ \E a \in Approvals, t \in 1 .. MaxNow :
                /\ approvals[a] = NoRecord
                /\ approvals' = [approvals EXCEPT ![a] =
                     [status |-> "pending", revision |-> 1, by |-> "nobody",
                      binding |-> <<p, t>>, digest |-> Digest(<<p, t>>, key)]]
           /\ UNCHANGED exec
  <2>1. grant[p] = "ask" BY <1>3 DEF EvaluateToolGrant
  <2>2. PICK a \in Approvals, t \in 1 .. MaxNow :
                /\ approvals[a] = NoRecord
                /\ approvals' = [approvals EXCEPT ![a] =
                     [status |-> "pending", revision |-> 1, by |-> "nobody",
                      binding |-> <<p, t>>, digest |-> Digest(<<p, t>>, key)]]
    BY <1>3
  <2> DEFINE b == <<p, t>>
             r == [status |-> "pending", revision |-> 1, by |-> "nobody",
                   binding |-> b, digest |-> Digest(b, key)]
  <2>3. b \in Binding /\ b[1] = p BY DEF Binding
  <2>4. key \in SigningKeys BY DEF TokenInv
  <2>5. Digest(b, key) \in Binding \X SigningKeys BY <2>3, <2>4 DEF Digest
  <2>6. approvals' = [approvals EXCEPT ![a] = r] BY <2>2
  <2> HIDE DEF b
  <2>7. r \in Record /\ r.status = "pending" /\ r.revision = 1 /\ r.binding = b
    BY <2>3, <2>5 DEF Record
  <2> HIDE DEF r
  <2>8. WellFormedRecord(r, grant) BY <2>1, <2>3, <2>7 DEF WellFormedRecord
  <2>9. ~Consumed(a) BY <2>2 DEF Consumed
  <2>10. DOMAIN at' = Approvals /\ \A d \in Approvals \ {a} : at'[d] = at[d]
    BY <1>1 DEF RecordsInv
  <2>11. consumedBindings' = consumedBindings \cup {} BY <1>1
  <2>12. RecordsInv' /\ ConsumedStay
    BY <1>1, <2>6, <2>7, <2>8, <2>9, <2>10, <2>11, RecordReplaced
  <2>13. NothingBegins BY <1>1, <1>3 DEF NothingBegins, ExecInv
  <2> QED BY <1>1, <2>12, <2>13, GrantsLast DEF TokenInv
<1> QED BY <1>2, <1>3 DEF Evaluate

LEMMA DecideStep ==
  ASSUME TokenAssumption, TokenInv, NEW a \in Approvals,
         NEW u \in Users, NEW d \in {"approved", "rejected"},
         DecideApproval(a, u, d)
  PROVE  TokenInv'
<1>1. /\ UNCHANGED <<now, key, grant, consumedBindings, exec, at>> /\ RecordsInv /\ ExecInv
      /\ approvals[a] # NoRecord
      /\ d \in ApprovalTransitions(approvals[a].status)
      /\ approvals' = [approvals EXCEPT ![a].status = d, ![a].by = u, ![a].revision = @ + 1]
      /\ u = Requester \/ d = "rejected"
  BY DEF DecideApproval, MayDecide, TokenInv
<1> DEFINE old == approvals[a]
           r == [old EXCEPT !.status = d, !.by = u, !.revision = old.revision + 1]
<1>2. WellFormedRecord(old, grant) BY <1>1 DEF RecordsInv
<1>3. old.status = "pending" /\ old.revision = 1 /\ old \in Record
  BY <1>1, <1>2 DEF ApprovalTransitions, WellFormedRecord
<1>4. approvals' = [approvals EXCEPT ![a] = r] BY <1>1
<1>5. r \in Record /\ r.status = d /\ r.by = u /\ r.revision = 2 /\ r.binding = old.binding
  <2> DEFINE first == [old EXCEPT !.status = d]
             mid == [first EXCEPT !.by = u]
  <2>1. first \in Record BY <1>3 DEF Record
  <2>2. \A m \in Record : [m EXCEPT !.by = u] \in Record BY DEF Record
  <2>3. \A m \in Record : [m EXCEPT !.revision = 2] \in Record BY DEF Record
  <2>4. r = [mid EXCEPT !.revision = 2] BY <1>3 DEF Record
  <2>5. r \in Record BY <2>1, <2>2, <2>3, <2>4
  <2> QED BY <1>3, <2>5 DEF Record
<1> HIDE DEF r
<1>6. WellFormedRecord(r, grant) BY <1>1, <1>2, <1>5 DEF WellFormedRecord
<1>7. ~Consumed(a) BY <1>3 DEF Consumed
<1>8. DOMAIN at' = Approvals /\ \A c \in Approvals \ {a} : at'[c] = at[c]
  BY <1>1 DEF RecordsInv
<1>9. consumedBindings' = consumedBindings \cup {} BY <1>1
<1>10. RecordsInv' /\ ConsumedStay
  BY <1>1, <1>4, <1>5, <1>6, <1>7, <1>8, <1>9, RecordReplaced
<1>11. NothingBegins BY <1>1 DEF NothingBegins, ExecInv
<1> QED BY <1>1, <1>10, <1>11, GrantsLast DEF TokenInv

LEMMA ConsumeStep ==
  ASSUME TokenAssumption, TokenInv, NEW w \in Executors, NEW p \in Plans,
         NEW altered \in BOOLEAN, CompareAndConsume(w, p, altered)
  PROVE  TokenInv'
<1> DEFINE a == seen[w].id
           old == approvals[a]
           r == [old EXCEPT !.status = "consumed", !.revision = old.revision + 1]
<1>1. /\ UNCHANGED <<now, key, grant, seen>> /\ RecordsInv /\ ExecInv
      /\ a \in Approvals
      /\ old.status = "approved" /\ now < Expires(old) /\ old.binding[1] = p
      /\ old.binding \notin consumedBindings
      /\ approvals' = [approvals EXCEPT ![a].status = "consumed", ![a].revision = @ + 1]
      /\ consumedBindings' = consumedBindings \cup {old.binding}
      /\ at' = [at EXCEPT ![a] = now]
      /\ exec' = [exec EXCEPT ![p] = IF @.status = "none" THEN QueuedExecution ELSE @]
  BY DEF CompareAndConsume, Consumable, NotYetConsumed, TokenInv
<1>2. old # NoRecord BY <1>1, NoRecordIsNone
<1>3. WellFormedRecord(old, grant) BY <1>1, <1>2 DEF RecordsInv
<1>4. old.revision = 2 /\ old \in Record /\ old.by = Requester /\ grant[p] = "ask"
  BY <1>1, <1>3 DEF WellFormedRecord
<1>5. approvals' = [approvals EXCEPT ![a] = r] BY <1>1
<1>6. r \in Record /\ r.status = "consumed" /\ r.by = Requester /\ r.binding = old.binding
  <2> DEFINE mid == [old EXCEPT !.status = "consumed"]
  <2>1. mid \in Record BY <1>4 DEF Record
  <2>2. \A m \in Record : [m EXCEPT !.revision = 3] \in Record BY DEF Record
  <2>3. r = [mid EXCEPT !.revision = 3] BY <1>4 DEF Record
  <2>4. r \in Record BY <2>1, <2>2, <2>3
  <2> QED BY <1>4, <2>4 DEF Record
<1> HIDE DEF r
<1>7. WellFormedRecord(r, grant) BY <1>3, <1>6 DEF WellFormedRecord
<1>8. ~Consumed(a) BY <1>1 DEF Consumed
<1>9. /\ DOMAIN at' = Approvals /\ at'[a] = now
      /\ \A c \in Approvals \ {a} : at'[c] = at[c]
  BY <1>1 DEF RecordsInv
<1>10. at'[a] < Expires(r) BY <1>1, <1>6, <1>9 DEF Expires
<1>11. RecordsInv' /\ ConsumedStay
  BY <1>1, <1>5, <1>6, <1>7, <1>8, <1>9, <1>10, RecordReplaced
<1>12. approvals'[a] = r BY <1>1, <1>5 DEF RecordsInv
<1>13. exec' \in [Plans -> Exec] /\ \A q \in Plans \ {p} : exec'[q] = exec[q]
  BY <1>1, QueuedIsExec DEF ExecInv
<1>14. ASSUME NEW q \in Plans, exec'[q].status # "none", grant[q] # "allow"
       PROVE  /\ grant[q] = "ask"
              /\ \E c \in Approvals :
                   /\ Consumed(c)' /\ approvals'[c].binding[1] = q
                   /\ approvals'[c].by = Requester /\ at'[c] < Expires(approvals[c])'
  <2>1. CASE q = p
    <3>1. PICK c \in Approvals : c = a BY <1>1
    <3>2. Consumed(c)'
      BY <1>6, <1>12, <3>1, NoRecordIsNone DEF Consumed
    <3>3. approvals'[c].binding[1] = q /\ approvals'[c].by = Requester
      BY <1>1, <1>6, <1>12, <2>1, <3>1
    <3>4. at'[c] < Expires(approvals[c])'
      BY <1>10, <1>12, <3>1 DEF Expires
    <3>5. grant[q] = "ask" BY <1>4, <2>1
    <3> QED BY <3>2, <3>3, <3>4, <3>5
  <2>2. CASE q # p
    <3>1. PICK c \in Approvals :
             /\ Consumed(c) /\ approvals[c].binding[1] = q
             /\ approvals[c].by = Requester /\ at[c] < Expires(approvals[c])
      BY <1>1, <1>13, <1>14, <2>2 DEF ExecInv, ExecutionsWereGranted
    <3>2. approvals'[c] = approvals[c] /\ at'[c] = at[c] BY <1>11, <3>1 DEF ConsumedStay
    <3>3. grant[q] = "ask"
      BY <1>1, <1>13, <1>14, <2>2 DEF ExecInv, ExecutionsWereGranted
    <3> QED BY <3>1, <3>2, <3>3 DEF Consumed, Expires
  <2> QED BY <2>1, <2>2
<1>15. ExecInv'
  BY <1>1, <1>13, <1>14 DEF ExecInv, ExecutionsWereGranted
<1> QED BY <1>1, <1>11, <1>15 DEF TokenInv

(* The steps of workers on an execution that has begun.                      *)
LEMMA WorkStep ==
  ASSUME TokenAssumption, TokenInv, NEW p \in Plans,
         \/ \E w \in Executors :
              \/ StartAndLease(w, p) \/ Redispatch(w, p)
              \/ HeartbeatExecution(w, p)
              \/ \E target \in {"completed", "failed"} : CompleteExecution(w, p, target)
         \/ TransitionExecution(p, "cancelled")
  PROVE  TokenInv'
<1> DEFINE old == exec[p]
<1>1. /\ UNCHANGED <<now, key, grant, approvals, consumedBindings, at>> /\ RecordsInv /\ ExecInv
  BY DEF StartAndLease, Redispatch, HeartbeatExecution,
         CompleteExecution, TransitionExecution, TokenInv
<1>2. RecordsInv' /\ ConsumedStay BY <1>1, RecordsStay
<1>3. old \in Exec /\ exec \in [Plans -> Exec] BY <1>1 DEF ExecInv
<1>4. \A m \in Exec, s \in {"running", "completed", "failed", "cancelled"} :
         [m EXCEPT !.status = s] \in Exec
  BY DEF Exec
<1>5. \/ exec' = exec
      \/ /\ old.status # "none"
         /\ \E new \in Exec : exec' = [exec EXCEPT ![p] = new]
  <2>1. ASSUME NEW s \in {"running", "completed", "failed", "cancelled"},
               exec' = [exec EXCEPT ![p].status = s]
        PROVE  \E new \in Exec : exec' = [exec EXCEPT ![p] = new]
    <3> DEFINE new == [old EXCEPT !.status = s]
    <3>1. new \in Exec BY <1>3, <1>4
    <3>2. exec' = [exec EXCEPT ![p] = new] BY <2>1
    <3> QED BY <3>1, <3>2
  <2>2. CASE \E w \in Executors : StartAndLease(w, p)
    BY <2>1, <2>2 DEF StartAndLease, ExecutionTransitions
  <2>3. CASE TransitionExecution(p, "cancelled")
    BY <2>1, <2>3 DEF TransitionExecution, ExecutionTransitions
  <2>4. CASE \E w \in Executors : HeartbeatExecution(w, p)
    BY <2>4 DEF HeartbeatExecution
  <2>5. CASE \E w \in Executors : Redispatch(w, p)
    <3> DEFINE new == [old EXCEPT !.token = old.token + 1]
    <3>1. old.status = "running" /\ old.token < MaxAttemptToken
          /\ exec' = [exec EXCEPT ![p] = new]
      BY <2>5 DEF Redispatch
    <3>2. old.token + 1 \in 0 .. MaxAttemptToken BY <1>3, <3>1, HasAttempts DEF Exec
    <3>3. new \in Exec BY <1>3, <3>2 DEF Exec
    <3> QED BY <3>1, <3>3
  <2>6. CASE \E w \in Executors : \E target \in {"completed", "failed"} :
                CompleteExecution(w, p, target)
    <3>1. PICK w \in Executors, target \in {"completed", "failed"} :
                CompleteExecution(w, p, target)
      BY <2>6
    <3> DEFINE result == IF target = "completed" THEN task[w].token ELSE old.result
               mid == [old EXCEPT !.status = target]
               new == [old EXCEPT !.status = target, !.result = result]
    <3>2. /\ task[w].token = old.token /\ target \in ExecutionTransitions(old.status)
          /\ exec' = [exec EXCEPT ![p] = new]
      BY <3>1 DEF CompleteExecution
    <3>3. result \in 0 .. MaxAttemptToken BY <1>3, <3>2 DEF Exec
    <3> HIDE DEF result
    <3>4. mid \in Exec BY <1>3, <1>4
    <3>5. \A m \in Exec : [m EXCEPT !.result = result] \in Exec BY <3>3 DEF Exec
    <3>6. new = [mid EXCEPT !.result = result] BY <1>3 DEF Exec
    <3>7. new \in Exec BY <3>4, <3>5, <3>6
    <3>8. old.status # "none" BY <3>2 DEF ExecutionTransitions
    <3> QED BY <3>2, <3>7, <3>8
  <2> QED BY <2>2, <2>3, <2>4, <2>5, <2>6
<1>6. NothingBegins BY <1>3, <1>5 DEF NothingBegins
<1> QED BY <1>1, <1>2, <1>6, GrantsLast DEF TokenInv

LEMMA TokenSteps ==
  ASSUME TokenAssumption, TokenInv, [TokenNext]_tokenVars
  PROVE  TokenInv'
<1>1. ASSUME UNCHANGED <<grant, approvals, consumedBindings, exec, at>>,
             now' \in 0 .. MaxNow, key' \in SigningKeys
      PROVE  TokenInv'
  <2>1. RecordsInv' /\ ConsumedStay BY <1>1, RecordsStay DEF TokenInv
  <2>2. NothingBegins BY <1>1 DEF TokenInv, ExecInv, NothingBegins
  <2> QED BY <1>1, <2>1, <2>2, GrantsLast DEF TokenInv
<1>2. CASE Pass
  BY <1>1, <1>2 DEF Pass, TokenInv, TokenAssumption
<1>3. CASE \E k \in SigningKeys : RotateKey(k)
  BY <1>1, <1>3 DEF RotateKey, TokenInv
<1>4. CASE \E w \in Executors, a \in Approvals : ReadApproval(w, a)
  BY <1>1, <1>4 DEF ReadApproval, TokenInv
<1>5. CASE UNCHANGED tokenVars
  BY <1>1, <1>5 DEF tokenVars, TokenInv
<1> QED
  BY <1>2, <1>3, <1>4, <1>5, EvaluateStep, DecideStep, ConsumeStep, WorkStep DEF TokenNext

(* At every moment the invariant holds.                                      *)
THEOREM TokenInvariant ==
  ASSUME TokenAssumption
  PROVE  TokenSpec => []TokenInv
<1>1. TokenInit => TokenInv BY TokenStarts
<1>2. TokenInv /\ [TokenNext]_tokenVars => TokenInv' BY TokenSteps
<1> QED BY <1>1, <1>2, PTL DEF TokenSpec

(* Only the attempt an execution was last given to ends it, within its lease.*)
THEOREM OnlyTheLastEndsAlways ==
  ASSUME TokenAssumption
  PROVE  TokenSpec => [][OnlyTheLastEnds]_tokenVars
<1> DEFINE Final == {"completed", "failed", "cancelled"}
           Ends(p) == /\ exec[p].status \in Final => exec'[p] = exec[p]
                      /\ exec'[p].status = "completed" /\ exec[p].status # "completed" =>
                           exec'[p].result = exec[p].token /\ now < lease[p].expires
<1>1. ASSUME NEW p \in Plans, exec \in [Plans -> Exec], NEW q \in Plans, NEW new,
             exec' = [exec EXCEPT ![q] = new],
             exec[q].status \notin Final,
             new.status = "completed" =>
                new.result = exec[q].token /\ now < lease[q].expires
      PROVE  Ends(p)
  BY <1>1
<1>2. ASSUME TokenInv, NEW p \in Plans, NEW q \in Plans, NEW w \in Executors,
             NEW target \in {"completed", "failed"}, CompleteExecution(w, q, target)
      PROVE  Ends(p)
  <2> DEFINE new == [exec[q] EXCEPT !.status = target,
                                    !.result = IF target = "completed" THEN task[w].token ELSE @]
  <2>1. exec \in [Plans -> Exec] BY <1>2 DEF TokenInv, ExecInv
  <2>2. /\ task[w].token = exec[q].token /\ task[w].token = lease[q].token
        /\ now < lease[q].expires
        /\ target \in ExecutionTransitions(exec[q].status)
        /\ exec' = [exec EXCEPT ![q] = new]
    BY <1>2 DEF CompleteExecution, Leased
  <2>3. new.status = target /\ (target = "completed" => new.result = task[w].token)
    BY <2>1 DEF Exec
  <2>4. exec[q].status \notin Final BY <2>2 DEF ExecutionTransitions
  <2> HIDE DEF new
  <2> QED BY <1>1, <2>1, <2>2, <2>3, <2>4
<1>3. ASSUME TokenInv, NEW p \in Plans, NEW q \in Plans,
             NEW s \in {"running", "cancelled"}, exec' = [exec EXCEPT ![q].status = s],
             exec[q].status \in {"queued", "running"}
      PROVE  Ends(p)
  <2> DEFINE new == [exec[q] EXCEPT !.status = s]
  <2>1. exec \in [Plans -> Exec] BY <1>3 DEF TokenInv, ExecInv
  <2>2. new.status = s BY <2>1 DEF Exec
  <2>3. exec' = [exec EXCEPT ![q] = new] BY <1>3
  <2> HIDE DEF new
  <2> QED BY <1>1, <1>3, <2>1, <2>2, <2>3
<1>4. ASSUME TokenInv, NEW p \in Plans, NEW q \in Plans, NEW w \in Executors,
             Redispatch(w, q)
      PROVE  Ends(p)
  <2> DEFINE new == [exec[q] EXCEPT !.token = exec[q].token + 1]
  <2>1. exec \in [Plans -> Exec] BY <1>4 DEF TokenInv, ExecInv
  <2>2. exec' = [exec EXCEPT ![q] = new] /\ exec[q].status = "running"
    BY <1>4 DEF Redispatch
  <2>3. new.status = exec[q].status BY <2>1 DEF Exec
  <2> HIDE DEF new
  <2> QED BY <1>1, <2>1, <2>2, <2>3
<1>5. ASSUME TokenInv, NEW p \in Plans, NEW q \in Plans,
             exec' = [exec EXCEPT ![q] = QueuedExecution], exec[q].status = "none"
      PROVE  Ends(p)
  <2>1. exec \in [Plans -> Exec] BY <1>5 DEF TokenInv, ExecInv
  <2>2. QueuedExecution.status = "queued" BY DEF QueuedExecution
  <2> QED BY <1>1, <1>5, <2>1, <2>2
<1>6. ASSUME TokenInv, NEW p \in Plans, UNCHANGED exec PROVE Ends(p)
  BY <1>6
<1>7. ASSUME TokenInv, [TokenNext]_tokenVars, NEW p \in Plans PROVE Ends(p)
  <2>1. CASE \E q \in Plans, altered \in BOOLEAN : Evaluate(q, altered)
    BY <1>5, <1>6, <1>7, <2>1 DEF Evaluate
  <2>2. CASE \E w \in Executors, q \in Plans, altered \in BOOLEAN :
                CompareAndConsume(w, q, altered)
    <3>1. PICK w \in Executors, q \in Plans, altered \in BOOLEAN :
             exec' = [exec EXCEPT ![q] = IF @.status = "none" THEN QueuedExecution ELSE @]
      BY <2>2 DEF CompareAndConsume
    <3>2. exec \in [Plans -> Exec] BY <1>7 DEF TokenInv, ExecInv
    <3>3. CASE exec[q].status = "none" BY <1>5, <1>7, <3>1, <3>3
    <3>4. CASE exec[q].status # "none"
      <4>1. exec' = exec BY <3>1, <3>2, <3>4
      <4> QED BY <1>6, <1>7, <4>1
    <3> QED BY <3>3, <3>4
  <2>3. CASE \E w \in Executors, q \in Plans : StartAndLease(w, q)
    BY <1>3, <1>7, <2>3 DEF StartAndLease, ExecutionTransitions
  <2>4. CASE \E w \in Executors, q \in Plans : Redispatch(w, q)
    BY <1>4, <1>7, <2>4
  <2>5. CASE \E w \in Executors, q \in Plans : \E target \in {"completed", "failed"} :
                CompleteExecution(w, q, target)
    BY <1>2, <1>7, <2>5
  <2>6. CASE \E q \in Plans : TransitionExecution(q, "cancelled")
    BY <1>3, <1>7, <2>6 DEF TransitionExecution, ExecutionTransitions
  <2>7. CASE UNCHANGED exec BY <1>6, <1>7, <2>7
  <2> QED
    BY <1>7, <2>1, <2>2, <2>3, <2>4, <2>5, <2>6, <2>7
       DEF TokenNext, Pass, RotateKey, DecideApproval,
           ReadApproval, HeartbeatExecution, tokenVars
<1>8. TokenInv /\ [TokenNext]_tokenVars => [OnlyTheLastEnds]_tokenVars
  BY <1>7 DEF OnlyTheLastEnds
<1> QED BY <1>8, TokenInvariant, PTL DEF TokenSpec

(* A consent is worth one execution, and an execution rests on a consent and *)
(* ends by the attempt it was last given to.                                 *)
THEOREM ConsentsAreSpentOnceAlways ==
  ASSUME TokenAssumption
  PROVE  TokenSpec => ConsentsAreSpentOnce
<1>1. TokenInv => ApprovalTypeOK
  BY HasAttempts DEF TokenInv, RecordsInv, ExecInv, WellFormedRecord, Record, Exec,
                    ApprovalTypeOK
<1>2. TokenInv => ApprovalTypeOK /\ OneConsumptionPerBinding /\ ExecutionsWereGranted
  BY <1>1 DEF TokenInv, RecordsInv, ExecInv
<1> QED BY <1>2, TokenInvariant, OnlyTheLastEndsAlways, PTL DEF ConsentsAreSpentOnce

(***************************************************************************)
(* Restores.                                                                *)
(***************************************************************************)
HoldEvent == [subject : Subjects, active : BOOLEAN]
Streams == [t : Seq(Subjects), h : Seq(HoldEvent)]
Phases == {"restoring", "replaying_governance", "validating", "ready", "activated", "failed"}
Lifecycle ==
    [phase : Phases, key : Backups, verified : BOOLEAN, enabled : BOOLEAN,
     t : Seq(Subjects), h : Seq(HoldEvent), receipts : SUBSET DeletionSystems,
     quarantined : BOOLEAN, manifest : Streams \cup {Missing}, receipt : Nat]

GovTyped ==
    /\ tombstones \in Seq(Subjects) /\ holdStream \in Seq(HoldEvent)
    /\ canonical \in [Backups -> Streams \cup {Missing}]
    /\ anchor \in [Backups -> Streams \cup {Missing}]
    /\ activation \in [Backups \X {"ready", "activated"} -> Nat]
    /\ issued \in Nat /\ deleted \subseteq DeletionSystems
    /\ restore \in Lifecycle

(* A restore past validation is of a backup that exists.                     *)
ReadyIsBacked ==
    restore.phase \in {"ready", "activated"} =>
        /\ canonical[restore.key] # Missing
        /\ canonical[restore.key] = [t |-> restore.t, h |-> restore.h]
        /\ ~restore.enabled

(* A permit was right for the streams it was built over, and one to purge is *)
(* of the activation of the restore.                                         *)
PermitFits(p) ==
    /\ p.kind \in {"none", "visibility", "purge"}
    /\ p.kind = "visibility" => NormalAccessAllowed(p.t, p.subject)
    /\ p.kind = "purge" =>
        /\ ~NormalAccessAllowed(p.t, p.subject)
        /\ Releasable(p.h, p.subject)
        /\ restore.phase = "activated" /\ p.key = restore.key /\ p.receipt = restore.receipt

PermitsFit == DOMAIN permits = Actors /\ \A a \in Actors : PermitFits(permits[a])

(* The inductive invariant.                                                  *)
RestoreInv == GovTyped /\ ReadyIsBacked /\ PermitsFit

(* A set of positions that is not empty has a last one.                      *)
LEMMA LastPosition ==
  ASSUME NEW n \in Nat, NEW S \in SUBSET (1 .. n), S # {}
  PROVE  \E m \in S : \A j \in S : j <= m
<1> DEFINE T == {n - i : i \in S}
<1>1. T \subseteq Nat
  OBVIOUS
<1>2. T # {}
  <2>1. PICK i \in S : TRUE
    OBVIOUS
  <2>2. n - i \in T
    OBVIOUS
  <2> QED BY <2>2
<1>3. PICK t \in T : \A u \in T : ~ (<<u, t>> \in OpToRel(<, Nat))
  BY <1>1, <1>2, WFMin, NatLessThanWellFounded, Zenon
<1>4. PICK m \in S : t = n - m
  BY <1>3
<1>5. ASSUME NEW j \in S PROVE j <= m
  <2>1. n - j \in T
    OBVIOUS
  <2>2. ~ (n - j < n - m)
    BY <2>1, <1>1, <1>3, <1>4 DEF OpToRel
  <2> QED BY <2>2
<1> QED BY <1>5

(* Whoever may be purged is not on hold: of an active hold that nothing      *)
(* released, the last event about its subject is an active hold too.         *)
LEMMA ReleasedIsNotHeld ==
  ASSUME NEW s, holdStream \in Seq(HoldEvent), Releasable(holdStream, s)
  PROVE  ~OnHold(s)
<1> SUFFICES ASSUME NEW i \in DOMAIN holdStream,
                    holdStream[i].subject = s, holdStream[i].active,
                    \A j \in DOMAIN holdStream :
                      j > i => ~(holdStream[j].subject = s /\ ~holdStream[j].active)
             PROVE  FALSE
  BY DEF OnHold
<1>1. HoldsOf(holdStream, s) \in SUBSET (1 .. Len(holdStream)) /\ Len(holdStream) \in Nat
  BY DEF HoldsOf
<1>2. i \in HoldsOf(holdStream, s)
  BY DEF HoldsOf
<1>3. PICK m \in HoldsOf(holdStream, s) : \A j \in HoldsOf(holdStream, s) : j <= m
  BY <1>1, <1>2, LastPosition
<1>4. m \in DOMAIN holdStream /\ holdStream[m].subject = s /\ ~holdStream[m].active
  BY <1>3 DEF Releasable, HoldsOf
<1>5. m > i
  BY <1>2, <1>3, <1>4, <1>1
<1> QED BY <1>4, <1>5

(* The invariant holds at first.                                             *)
LEMMA RestoreInvInit ==
  ASSUME RestoreInit
  PROVE  RestoreInv
<1> USE DEF RestoreInit
<1>1. GovTyped
  BY DEF GovTyped, Fresh, Lifecycle, Phases
<1>2. ReadyIsBacked
  BY DEF ReadyIsBacked, Fresh
<1>3. PermitsFit
  BY DEF PermitsFit, PermitFits, NoPermit
<1> QED BY <1>1, <1>2, <1>3 DEF RestoreInv

(* What the authorities do: streams only matter to those who compare them,   *)
(* and a backup that exists is not replaced.                                 *)
LEMMA AuthoritiesKeep ==
  ASSUME RestoreInv,
         \/ AppendEvent
         \/ \E k \in Backups : Backup(k) \/ AnchorManifest(k) \/ \E p \in {"ready", "activated"} : Issue(k, p)
         \/ \E x \in DeletionSystems : ConfirmDeletion(x)
  PROVE  RestoreInv' /\ performed' = NoPermit
<1> USE DEF RestoreInv, GovTyped, streamVars, resolverVars
<1>1. CASE AppendEvent
  <2>1. PICK s \in Subjects, b \in BOOLEAN :
          \/ tombstones' = Append(tombstones, s) /\ UNCHANGED holdStream
          \/ holdStream' = Append(holdStream, [subject |-> s, active |-> b]) /\ UNCHANGED tombstones
    BY <1>1 DEF AppendEvent
  <2>2. [subject |-> s, active |-> b] \in HoldEvent
    BY DEF HoldEvent
  <2>3. Append(tombstones, s) \in Seq(Subjects)
    OBVIOUS
  <2>4. Append(holdStream, [subject |-> s, active |-> b]) \in Seq(HoldEvent)
    BY <2>2
  <2>5. tombstones' \in Seq(Subjects) /\ holdStream' \in Seq(HoldEvent)
    BY <2>1, <2>3, <2>4
  <2>6. GovTyped'
    BY <1>1, <2>5 DEF AppendEvent
  <2> QED BY <1>1, <2>6 DEF AppendEvent, ReadyIsBacked, PermitsFit, PermitFits
<1>2. ASSUME NEW k \in Backups, Backup(k)
      PROVE  RestoreInv' /\ performed' = NoPermit
  <2>1. GovTyped'
    BY <1>2 DEF Backup, Streams
  <2>2. ReadyIsBacked'
    BY <1>2 DEF Backup, ReadyIsBacked, Lifecycle
  <2> QED BY <1>2, <2>1, <2>2 DEF Backup, PermitsFit, PermitFits
<1>3. ASSUME NEW k \in Backups, AnchorManifest(k)
      PROVE  RestoreInv' /\ performed' = NoPermit
  <2>1. GovTyped'
    BY <1>3 DEF AnchorManifest, Streams
  <2> QED BY <1>3, <2>1 DEF AnchorManifest, ReadyIsBacked, PermitsFit, PermitFits
<1>4. ASSUME NEW k \in Backups, NEW p \in {"ready", "activated"}, Issue(k, p)
      PROVE  RestoreInv' /\ performed' = NoPermit
  <2>1. GovTyped'
    BY <1>4 DEF Issue
  <2> QED BY <1>4, <2>1 DEF Issue, ReadyIsBacked, PermitsFit, PermitFits
<1>5. ASSUME NEW x \in DeletionSystems, ConfirmDeletion(x)
      PROVE  RestoreInv' /\ performed' = NoPermit
  BY <1>5 DEF ConfirmDeletion, ReadyIsBacked, PermitsFit, PermitFits
<1> QED BY <1>1, <1>2, <1>3, <1>4, <1>5

(* What the restore does: it becomes ready or active on what its backup      *)
(* held, and nothing moves it once it is active.                             *)
LEMMA RestoreKeeps ==
  ASSUME RestoreInv,
         Prepare \/ Replay \/ \E p \in Phases : Advance(p) \/ Activate(p)
  PROVE  RestoreInv' /\ performed' = NoPermit
<1> USE DEF RestoreInv, GovTyped, Keep, streamVars, resolverVars
<1>1. CASE Prepare
  <2>1. restore' \in Lifecycle
    <3>1. anchor[restore.key] \in Streams
      BY <1>1 DEF Prepare, Lifecycle
    <3>2. PICK a, b, c \in BOOLEAN :
            restore' = [restore EXCEPT !.enabled = a, !.verified = b, !.quarantined = c,
                                       !.receipts = deleted, !.manifest = anchor[restore.key]]
      BY <1>1 DEF Prepare
    <3> HIDE DEF RestoreInv, GovTyped, Keep, streamVars, resolverVars
    <3>3. restore \in Lifecycle /\ deleted \in SUBSET DeletionSystems
      BY DEF RestoreInv, GovTyped
    <3> QED BY <3>1, <3>2, <3>3 DEF Lifecycle
  <2>2. restore'.phase = "validating" /\ restore.phase = "validating"
    BY <1>1 DEF Prepare, Lifecycle
  <2> QED BY <1>1, <2>1, <2>2 DEF Prepare, ReadyIsBacked, PermitsFit, PermitFits
<1>2. CASE Replay
  <2>1. restore' \in Lifecycle
    <3>1. restore.t \in Seq(Subjects) /\ restore.h \in Seq(HoldEvent)
      BY DEF Lifecycle
    <3>2. ASSUME NEW e \in Subjects PROVE [restore EXCEPT !.t = Append(@, e)] \in Lifecycle
      <4>1. Append(restore.t, e) \in Seq(Subjects)
        BY <3>1, <3>2
      <4> QED BY <4>1 DEF Lifecycle
    <3>3. ASSUME NEW e \in HoldEvent PROVE [restore EXCEPT !.h = Append(@, e)] \in Lifecycle
      <4>1. Append(restore.h, e) \in Seq(HoldEvent)
        BY <3>1, <3>3
      <4> QED BY <4>1 DEF Lifecycle
    <3>4. Range(tombstones) \subseteq Subjects /\ Range(holdStream) \subseteq HoldEvent
      BY DEF Range
    <3> QED BY <1>2, <3>2, <3>3, <3>4 DEF Replay
  <2>2. restore'.phase = "replaying_governance" /\ restore.phase = "replaying_governance"
    BY <1>2 DEF Replay, Lifecycle
  <2> QED BY <1>2, <2>1, <2>2 DEF Replay, ReadyIsBacked, PermitsFit, PermitFits
<1>3. ASSUME NEW p \in Phases, Advance(p)
      PROVE  RestoreInv' /\ performed' = NoPermit
  <2>1. restore' \in Lifecycle /\ restore'.phase = p
    BY <1>3 DEF Advance, Lifecycle
  <2>2. restore'.phase \notin {"ready", "activated"} /\ restore.phase # "activated"
    BY <1>3, <2>1 DEF Advance, Transitions
  <2> QED BY <1>3, <2>1, <2>2 DEF Advance, ReadyIsBacked, PermitsFit, PermitFits
<1>4. ASSUME NEW p \in Phases, Activate(p)
      PROVE  RestoreInv' /\ performed' = NoPermit
  <2>1. restore' \in Lifecycle
    BY <1>4 DEF Activate, Lifecycle
  <2>2. restore.phase # "activated"
    BY <1>4 DEF Activate, Transitions
  <2>3. canonical[restore.key] \in Streams /\ canonical[restore.key] # Missing
    BY <1>4 DEF Activate, Authorized, Lifecycle
  <2>4. canonical[restore.key].t = restore.t /\ canonical[restore.key].h = restore.h /\ ~restore.enabled
    BY <1>4 DEF Activate, Authorized, Validated, Replayed
  <2>5. canonical[restore.key] = [t |-> restore.t, h |-> restore.h]
    BY <2>3, <2>4 DEF Streams
  <2>6. /\ restore'.key = restore.key /\ restore'.t = restore.t /\ restore'.h = restore.h
        /\ restore'.enabled = restore.enabled
    BY <1>4 DEF Activate, Lifecycle
  <2>7. ReadyIsBacked'
    BY <1>4, <2>3, <2>4, <2>5, <2>6 DEF Activate, ReadyIsBacked
  <2> QED BY <1>4, <2>1, <2>2, <2>7 DEF Activate, PermitsFit, PermitFits
<1> QED BY <1>1, <1>2, <1>3, <1>4

(* What the actors do.                                                       *)
LEMMA ActorsKeep ==
  ASSUME RestoreInv, NEW a \in Actors,
         Act(a) \/ \E s \in Subjects : AskAccess(a, s) \/ AskPurge(a, s)
  PROVE  RestoreInv'
<1> USE DEF RestoreInv, GovTyped, streamVars, resolverVars
<1>1. CASE Act(a)
  BY <1>1 DEF Act, ReadyIsBacked, PermitsFit, PermitFits, NoPermit
<1>2. ASSUME NEW s \in Subjects, AskAccess(a, s)
      PROVE  RestoreInv'
  BY <1>2 DEF AskAccess, ReadyIsBacked, PermitsFit, PermitFits
<1>3. ASSUME NEW s \in Subjects, AskPurge(a, s)
      PROVE  RestoreInv'
  BY <1>3 DEF AskPurge, PurgeAllowed, ReadyIsBacked, PermitsFit, PermitFits
<1> QED BY <1>1, <1>2, <1>3

(* What is done with a permit is right at that moment.                       *)
ActedRightly ==
    /\ performed'.kind = "purge" =>
         /\ Tombstoned(performed'.subject)
         /\ ~OnHold(performed'.subject)
         /\ activation[<<restore.key, "activated">>] = restore.receipt
    /\ performed'.kind = "visibility" => ~Tombstoned(performed'.subject)

LEMMA ActsAreRight ==
  ASSUME RestoreInv, NEW a \in Actors, Act(a)
  PROVE  ActedRightly
<1> DEFINE p == permits[a]
<1>1. PermitFits(p)
  BY DEF RestoreInv, PermitsFit
<1>2. CASE ~Current(p)
  BY <1>2 DEF Act, NoPermit, ActedRightly
<1>3. CASE Current(p)
  <2>1. performed'.kind = p.kind /\ performed'.subject = p.subject
    BY <1>3 DEF Act
  <2>2. p.t = tombstones /\ p.h = holdStream
        /\ (p.kind = "purge" => activation[<<p.key, "activated">>] = p.receipt)
    BY <1>3 DEF Current
  <2>3. p.kind = "purge" => ~OnHold(p.subject)
    BY <1>1, <2>2, ReleasedIsNotHeld DEF PermitFits, RestoreInv, GovTyped
  <2> QED BY <1>1, <2>1, <2>2, <2>3 DEF PermitFits, NormalAccessAllowed, Tombstoned, ActedRightly
<1> QED BY <1>2, <1>3

(* Every step keeps the invariant, and acts rightly.                         *)
LEMMA RestoreStep ==
  ASSUME RestoreInv, [RestoreNext]_govVars
  PROVE  RestoreInv' /\ (ActedRightly \/ UNCHANGED govVars)
<1>1. CASE \/ AppendEvent
           \/ \E k \in Backups :
                Backup(k) \/ AnchorManifest(k) \/ \E p \in {"ready", "activated"} : Issue(k, p)
           \/ \E x \in DeletionSystems : ConfirmDeletion(x)
  BY <1>1, AuthoritiesKeep DEF ActedRightly, NoPermit
<1>2. CASE Prepare \/ Replay \/ \E p \in Phases : Advance(p) \/ Activate(p)
  BY <1>2, RestoreKeeps DEF ActedRightly, NoPermit
<1>3. CASE \E a \in Actors : Act(a)
  BY <1>3, ActorsKeep, ActsAreRight
<1>4. CASE \E a \in Actors, s \in Subjects : AskAccess(a, s) \/ AskPurge(a, s)
  BY <1>4, ActorsKeep DEF AskAccess, AskPurge, ActedRightly, NoPermit
<1>5. CASE UNCHANGED govVars
  BY <1>5 DEF govVars, RestoreInv, GovTyped, ReadyIsBacked, PermitsFit, PermitFits
<1> QED BY <1>1, <1>2, <1>3, <1>4, <1>5 DEF RestoreNext, Phases

(* What is restored, shown and purged, for any subjects, backups, deletion   *)
(* systems and actors, whatever is appended, anchored or reissued meanwhile: *)
(* an active restore is of the streams its backup held, a subject is purged  *)
(* only when tombstoned and not on hold at the moment of the act, under the  *)
(* activation in force, and shown only when no tombstone denies it.          *)
THEOREM RestoresAreGovernedAlways ==
  RestoreSpec => RestoresAreGoverned
<1>1. RestoreInit => RestoreInv
  BY RestoreInvInit
<1>2. RestoreInv /\ [RestoreNext]_govVars => RestoreInv'
  BY RestoreStep
<1>3. RestoreInv => ActivationIsEarned
  BY DEF RestoreInv, ReadyIsBacked, ActivationIsEarned
<1>4. RestoreInv /\ [RestoreNext]_govVars =>
        [performed'.kind = "purge" =>
           /\ Tombstoned(performed'.subject)
           /\ ~OnHold(performed'.subject)
           /\ activation[<<restore.key, "activated">>] = restore.receipt]_govVars
  BY RestoreStep DEF ActedRightly
<1>5. RestoreInv /\ [RestoreNext]_govVars =>
        [performed'.kind = "visibility" => ~Tombstoned(performed'.subject)]_govVars
  BY RestoreStep DEF ActedRightly
<1> QED BY <1>1, <1>2, <1>3, <1>4, <1>5, PTL
        DEF RestoreSpec, RestoresAreGoverned, PurgesAreGoverned, NothingDeletedIsShown
=============================================================================
