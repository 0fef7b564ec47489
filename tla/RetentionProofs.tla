-------------------------- MODULE RetentionProofs ---------------------------
(***************************************************************************)
(* Proofs about the governed stores of tools/platform_policy: what a        *)
(* retention run deletes, what the audit log of emergency access tells, and *)
(* what CI runs publish, for any number of records, scopes, runs, systems,  *)
(* grants, people, invocations and readers, and whatever clocks,            *)
(* attestations and event ids callers bring.                                *)
(*                                                                          *)
(* Deletions.  The property is almost inductive.  What it lacks is that the *)
(* holds of a scope follow one another: only the latest may be unreleased,  *)
(* so a record that is free of the hold in force is free of all of them.    *)
(*                                                                          *)
(* Emergency access.  The invariant lets the log and each grant agree: a    *)
(* request exactly for what is granted, approvals by the approver only, at  *)
(* most one end, and every use covered by the entries before it.            *)
(*                                                                          *)
(* CI publication.  The invariant says of each place of an invocation what  *)
(* its directory is and who names it; latest and the manifests move only    *)
(* under the lock, which the process at such a place holds.                 *)
(***************************************************************************)
EXTENDS BreakGlass, CiPublication, TLAPS

(***************************************************************************)
(* Deletions: the invariant.                                                *)
(***************************************************************************)
RetTyped ==
    /\ last \in Times /\ records \in [Records -> 0..Never]
    /\ gone \subseteq Records /\ expired \subseteq Records /\ reserved \subseteq Records
    /\ holds \in [Scopes -> Seq(Hold)]
    /\ runs \in [Runs -> Run \cup {Absent}]

\* Holds of a scope were placed one after the other, each once the one before it
\* had been released.
HoldsFollow ==
    \A s \in Scopes : \A i \in DOMAIN holds[s] :
        LET h == holds[s][i] IN
        /\ h.placed <= last
        /\ h.released # Never => h.released <= last
        /\ i # Len(holds[s]) => h.released # Never

RetInv == RetTyped /\ HoldsFollow /\ CandidatesAreExclusive /\ DeletionIsProven

\* A release rewrites one hold.
LEMMA ReleasedHolds ==
  ASSUME RetentionAssumption, NEW log \in Seq(Hold), NEW i \in DOMAIN log, NEW t \in Times
  PROVE  LET more == [log EXCEPT ![i].released = t] IN
         /\ more \in Seq(Hold) /\ Len(more) = Len(log) /\ DOMAIN more = DOMAIN log
         /\ more[i].placed = log[i].placed /\ more[i].released = t
         /\ \A j \in DOMAIN log \ {i} : more[j] = log[j]
<1> DEFINE h == [log[i] EXCEPT !.released = t]
<1>1. log[i] \in Hold OBVIOUS
<1>2. h \in Hold /\ h.placed = log[i].placed /\ h.released = t
  <2>1. t \in 0..Never BY DEF Times, Never, RetentionAssumption
  <2> QED BY <1>1, <2>1 DEF Hold
<1> HIDE DEF h
<1> DEFINE more == [log EXCEPT ![i] = h]
<1>3. DOMAIN more = DOMAIN log /\ more[i] = h /\ \A j \in DOMAIN log \ {i} : more[j] = log[j]
  OBVIOUS
<1>4. DOMAIN log = 1..Len(log) /\ Len(log) \in Nat /\ \A j \in DOMAIN log : log[j] \in Hold
  OBVIOUS
<1>5. more \in [1..Len(log) -> Hold] BY <1>2, <1>3, <1>4
<1>6. more \in Seq(Hold) BY <1>4, <1>5
<1>7. Len(more) = Len(log) BY <1>3, <1>4, <1>6
<1> QED BY <1>2, <1>3, <1>6, <1>7 DEF h

LEMMA ClockMoves ==
  ASSUME RetentionAssumption, RetInv, NEW t \in Times, Consume(t)
  PROVE  last \in Nat /\ t \in Nat /\ last <= t /\ last' = t /\ t # Never /\ t \in 0..Never
         /\ Never \in 0..Never
BY DEF RetInv, RetTyped, Consume, Times, Never, RetentionAssumption

\* An operation that leaves holds alone only lets time pass over them.
LEMMA HoldsKept ==
  ASSUME RetentionAssumption, RetInv, NEW t \in Times, Consume(t), UNCHANGED holds
  PROVE  HoldsFollow'
<1>1. last \in Nat /\ t \in Nat /\ last <= t /\ last' = t BY ClockMoves
<1>2. \A h \in Hold : h.placed \in Nat /\ h.released \in Nat
  BY DEF Hold, Times, Never, RetentionAssumption
<1>3. ASSUME NEW s \in Scopes, NEW i \in DOMAIN holds[s]
      PROVE  LET h == holds[s][i] IN
             /\ h.placed <= t
             /\ h.released # Never => h.released <= t
             /\ i # Len(holds[s]) => h.released # Never
  <2>1. holds[s] \in Seq(Hold) BY DEF RetInv, RetTyped
  <2>2. holds[s][i] \in Hold BY <2>1
  <2>3. /\ holds[s][i].placed <= last
        /\ holds[s][i].released # Never => holds[s][i].released <= last
        /\ i # Len(holds[s]) => holds[s][i].released # Never
    BY DEF RetInv, HoldsFollow
  <2> QED BY <1>1, <1>2, <2>2, <2>3
<1> QED BY <1>1, <1>3 DEF HoldsFollow

(***************************************************************************)
(* Runs.                                                                    *)
(***************************************************************************)

\* What one run more, or one changed, must be for the rest to stay.
LEMMA RunChanged ==
  ASSUME RetentionAssumption, RetInv, NEW x \in Runs, NEW v \in Run,
         runs' = [runs EXCEPT ![x] = v],
         runs[x] # Absent => Open(x) /\ v.cand = runs[x].cand
  PROVE  /\ runs' \in [Runs -> Run \cup {Absent}]
         /\ runs'[x] = v /\ v # Absent /\ \A y \in Runs \ {x} : runs'[y] = runs[y]
         /\ \A y \in Runs \ {x} : Open(y)' <=> Open(y)
         /\ Open(x)' <=> v.done = Never
<1>1. runs \in [Runs -> Run \cup {Absent}] BY DEF RetInv, RetTyped
<1>2. v # Absent BY DEF RetentionAssumption
<1> QED BY <1>1, <1>2 DEF Open

\* An attempt that completes nothing.
LEMMA TriedKeeps ==
  ASSUME RetentionAssumption, RetInv, NEW t \in Times, NEW x \in Runs,
         Consume(t), Open(x), Tried(x),
         UNCHANGED <<records, gone, expired, reserved, holds>>
  PROVE  RetInv'
<1>1. last' = t /\ last' \in Times BY DEF Consume
<1>2. runs[x] \in Run BY DEF RetInv, RetTyped, Open
<1>3. PICK v : v = [runs[x] EXCEPT !.attempts = @ + 1] OBVIOUS
<1>4. /\ v \in Run /\ v.cand = runs[x].cand /\ v.done = runs[x].done
      /\ v.cutoff = runs[x].cutoff /\ v.receipts = runs[x].receipts
  BY <1>2, <1>3 DEF Tried, Run, RetentionAssumption
<1>5. runs' = [runs EXCEPT ![x] = v] BY <1>2, <1>3 DEF Tried, RetInv, RetTyped
<1>6. /\ runs' \in [Runs -> Run \cup {Absent}]
      /\ runs'[x] = v /\ v # Absent /\ \A y \in Runs \ {x} : runs'[y] = runs[y]
      /\ \A y \in Runs \ {x} : Open(y)' <=> Open(y)
      /\ Open(x)'
  BY <1>4, <1>5, RunChanged DEF Open
<1>7. \A y \in Runs : (Open(y)' <=> Open(y)) /\ (Open(y) => runs'[y].cand = runs[y].cand)
  BY <1>4, <1>6
<1>8. RetTyped' BY <1>1, <1>6 DEF RetInv, RetTyped
<1>9. HoldsFollow' BY HoldsKept
<1>10. CandidatesAreExclusive'
  <2>1. UNION {runs'[y].cand : y \in {z \in Runs : Open(z)'}}
        = UNION {runs[y].cand : y \in {z \in Runs : Open(z)}}
    BY <1>7
  <2> QED BY <1>7, <2>1 DEF RetInv, CandidatesAreExclusive, Stored
<1>11. DeletionIsProven'
  <2> SUFFICES ASSUME NEW r \in gone
      PROVE \E y \in Runs :
        /\ runs'[y] # Absent /\ runs'[y].done # Never /\ r \in runs'[y].cand
        /\ \A z \in Systems : /\ <<r, z>> \in DOMAIN runs'[y].receipts
                              /\ runs'[y].receipts[<<r, z>>] > runs'[y].cutoff
                              /\ runs'[y].receipts[<<r, z>>] <= runs'[y].done
    BY DEF DeletionIsProven
  <2>1. PICK y \in Runs :
        /\ runs[y] # Absent /\ runs[y].done # Never /\ r \in runs[y].cand
        /\ \A z \in Systems : /\ <<r, z>> \in DOMAIN runs[y].receipts
                              /\ runs[y].receipts[<<r, z>>] > runs[y].cutoff
                              /\ runs[y].receipts[<<r, z>>] <= runs[y].done
    BY DEF RetInv, DeletionIsProven
  <2>2. y # x BY <2>1 DEF Open
  <2> QED BY <1>6, <2>1, <2>2
<1> QED BY <1>8, <1>9, <1>10, <1>11 DEF RetInv

\* A new run reserves what is due, known so far to no open run.
LEMMA StartKeeps ==
  ASSUME RetentionAssumption, RetInv, NEW t \in Times, NEW x \in Runs, NEW k \in Keys,
         Start(t, x, k)
  PROVE  RetInv'
<1>1. Consume(t) /\ last' = t /\ last' \in Times BY DEF Start, Consume
<1>2. UNCHANGED <<records, gone, expired, holds>> BY DEF Start
<1>3. HoldsFollow' BY <1>1, <1>2, HoldsKept
<1>4. CASE UNCHANGED <<runs, reserved>>
  <2>1. RetTyped' BY <1>1, <1>2, <1>4 DEF RetInv, RetTyped
  <2>2. CandidatesAreExclusive' /\ DeletionIsProven'
    BY <1>2, <1>4 DEF RetInv, CandidatesAreExclusive, DeletionIsProven, Open, Stored
  <2> QED BY <1>3, <2>1, <2>2 DEF RetInv
<1>5. CASE /\ runs[x] = Absent
           /\ runs' = [runs EXCEPT ![x] = NewRun(t, k)]
           /\ reserved' = reserved \cup Eligible(t)
  <2>1. PICK v : v = NewRun(t, k) OBVIOUS
  <2>2. /\ v.cand = Eligible(t) /\ v.done = Never
        /\ Eligible(t) \subseteq expired \ reserved /\ Eligible(t) \subseteq Records
        /\ \A r \in Eligible(t) : Stored(r)
    BY <2>1 DEF NewRun, Eligible, Aged, RetInv, RetTyped
  <2>3. <<>> \in Evidence
    <3>1. <<>> \in [{} -> Times] OBVIOUS
    <3>2. {} \in SUBSET (Records \X Systems) OBVIOUS
    <3> QED BY <3>1, <3>2 DEF Evidence
  <2>4. v \in Run
    BY <1>1, <2>1, <2>2, <2>3, ClockMoves DEF NewRun, Run, RetentionAssumption
  <2>5. /\ runs' \in [Runs -> Run \cup {Absent}]
        /\ runs'[x] = v /\ v # Absent /\ \A y \in Runs \ {x} : runs'[y] = runs[y]
        /\ \A y \in Runs \ {x} : Open(y)' <=> Open(y)
        /\ Open(x)' <=> v.done = Never
    <3>1. runs' = [runs EXCEPT ![x] = v] BY <1>5, <2>1
    <3> QED BY <1>5, <2>4, <3>1, RunChanged
  <2>6. Open(x)' /\ ~Open(x) BY <1>5, <2>2, <2>5 DEF Open
  <2>7. RetTyped' BY <1>1, <1>2, <1>5, <2>2, <2>5 DEF RetInv, RetTyped
  <2>8. CandidatesAreExclusive'
    <3>1. \A r : (\E y \in Runs : Open(y)' /\ r \in runs'[y].cand)
                 <=> (\E y \in Runs : Open(y) /\ r \in runs[y].cand) \/ r \in v.cand
      BY <2>5, <2>6
    <3>2. \A y \in Runs : Open(y) => runs[y].cand \subseteq reserved
      BY DEF RetInv, CandidatesAreExclusive
    <3>3. \A y, z \in Runs : Open(y)' /\ Open(z)' /\ y # z => runs'[y].cand \cap runs'[z].cand = {}
      BY <2>2, <2>5, <3>2 DEF RetInv, CandidatesAreExclusive
    <3>4. \A r \in reserved' : Stored(r)' /\ r \in expired'
      BY <1>2, <1>5, <2>2 DEF RetInv, CandidatesAreExclusive, Stored
    <3>5. reserved' = UNION {runs'[y].cand : y \in {z \in Runs : Open(z)'}}
      <4>1. \A r : r \in reserved <=> \E y \in Runs : Open(y) /\ r \in runs[y].cand
        BY DEF RetInv, CandidatesAreExclusive
      <4>2. \A r : r \in reserved' <=> \E y \in Runs : Open(y)' /\ r \in runs'[y].cand
        BY <1>5, <2>2, <3>1, <4>1
      <4> QED BY <4>2
    <3> QED BY <3>3, <3>4, <3>5 DEF CandidatesAreExclusive
  <2>9. DeletionIsProven'
    <3>1. \A y \in Runs : runs[y] # Absent => y # x /\ runs'[y] = runs[y] BY <1>5, <2>5
    <3> QED BY <1>2, <3>1 DEF RetInv, DeletionIsProven
  <2> QED BY <1>3, <2>7, <2>8, <2>9 DEF RetInv
<1> QED BY <1>4, <1>5 DEF Start

\* A completed run takes its candidates out of the store and of the reserved.
LEMMA CompleteKeeps ==
  ASSUME RetentionAssumption, RetInv, NEW t \in Times, NEW x \in Runs,
         NEW receipts \in Receipts(x), CompleteRun(t, x, receipts)
  PROVE  RetInv'
<1>1. Consume(t) /\ last' = t /\ last' \in Times BY DEF CompleteRun, Consume
<1>2. t # Never /\ t \in 0..Never BY <1>1, ClockMoves
<1>3. HoldsFollow' BY <1>1, HoldsKept DEF CompleteRun
<1>4. runs[x] \in Run /\ runs[x].cand \subseteq Records /\ Open(x)
  BY DEF CompleteRun, Open, RetInv, RetTyped, Run
<1>5. receipts \in Evidence BY <1>4 DEF Receipts, Evidence
<1>6. PICK v : v = [runs[x] EXCEPT !.done = t, !.receipts = receipts, !.attempts = @ + 1] OBVIOUS
<1>7. /\ v.cand = runs[x].cand /\ v.done = t /\ v.receipts = receipts
      /\ v.cutoff = runs[x].cutoff
      /\ v.key = runs[x].key /\ v.attempts = runs[x].attempts + 1
      /\ v = [key |-> v.key, cutoff |-> v.cutoff, cand |-> v.cand, attempts |-> v.attempts,
              done |-> v.done, receipts |-> v.receipts]
  BY <1>4, <1>6 DEF Run
<1>8. v \in Run
  <2>1. v.attempts \in 1..MaxAttempts BY <1>4, <1>7 DEF CompleteRun, Run, RetentionAssumption
  <2>2. v.key \in Keys /\ v.cutoff \in Times /\ v.cand \in SUBSET Records
    BY <1>4, <1>7 DEF Run
  <2> QED BY <1>2, <1>5, <1>7, <2>1, <2>2 DEF Run
<1>9. /\ runs' \in [Runs -> Run \cup {Absent}]
      /\ runs'[x] = v /\ v # Absent /\ \A y \in Runs \ {x} : runs'[y] = runs[y]
      /\ \A y \in Runs \ {x} : Open(y)' <=> Open(y)
      /\ ~Open(x)'
  <2>1. runs' = [runs EXCEPT ![x] = v] BY <1>6 DEF CompleteRun
  <2> QED BY <1>2, <1>4, <1>7, <1>8, <2>1, RunChanged
<1>10. RetTyped'
  <2>1. records' \in [Records -> 0..Never]
    BY <1>1, ClockMoves DEF CompleteRun, RetInv, RetTyped
  <2> QED BY <1>1, <1>4, <1>9, <2>1 DEF CompleteRun, RetInv, RetTyped
<1>11. CandidatesAreExclusive'
  <2> DEFINE others == UNION {runs[y].cand : y \in {z \in Runs \ {x} : Open(z)}}
  <2>1. UNION {runs'[y].cand : y \in {z \in Runs : Open(z)'}} = others BY <1>9
  <2>2. reserved = others \cup runs[x].cand
    BY <1>4 DEF RetInv, CandidatesAreExclusive
  <2>3. others \cap runs[x].cand = {} BY <1>4 DEF RetInv, CandidatesAreExclusive
  <2>4. reserved' = others BY <2>2, <2>3 DEF CompleteRun
  <2>5. \A y, z \in Runs : Open(y)' /\ Open(z)' /\ y # z => runs'[y].cand \cap runs'[z].cand = {}
    BY <1>9 DEF RetInv, CandidatesAreExclusive
  <2>6. \A r \in reserved' : Stored(r)' /\ r \in expired'
    <3> SUFFICES ASSUME NEW r \in reserved' PROVE records'[r] # Never /\ r \in expired'
      BY DEF Stored
    <3>1. r \in reserved /\ r \notin runs[x].cand BY DEF CompleteRun
    <3>2. r \in Records /\ records[r] # Never /\ r \in expired
      BY <3>1 DEF RetInv, RetTyped, CandidatesAreExclusive, Stored
    <3> QED BY <3>1, <3>2 DEF CompleteRun
  <2> QED BY <2>1, <2>4, <2>5, <2>6 DEF CandidatesAreExclusive
<1>12. DeletionIsProven'
  <2> DEFINE proof(y, r) ==
        /\ runs'[y] # Absent /\ runs'[y].done # Never /\ r \in runs'[y].cand
        /\ \A z \in Systems : /\ <<r, z>> \in DOMAIN runs'[y].receipts
                              /\ runs'[y].receipts[<<r, z>>] > runs'[y].cutoff
                              /\ runs'[y].receipts[<<r, z>>] <= runs'[y].done
  <2> SUFFICES ASSUME NEW r \in gone' PROVE \E y \in Runs : proof(y, r)
    BY DEF DeletionIsProven
  <2>1. CASE r \in runs[x].cand
    <3>1. ASSUME NEW z \in Systems
          PROVE  /\ <<r, z>> \in DOMAIN receipts
                 /\ runs[x].cutoff < receipts[<<r, z>>] /\ receipts[<<r, z>>] <= t
      BY <2>1 DEF CompleteRun, Proven
    <3>2. proof(x, r) BY <1>2, <1>7, <1>9, <2>1, <3>1
    <3> QED BY <3>2
  <2>2. CASE r \in gone
    <3>1. PICK y \in Runs :
          /\ runs[y] # Absent /\ runs[y].done # Never /\ r \in runs[y].cand
          /\ \A z \in Systems : /\ <<r, z>> \in DOMAIN runs[y].receipts
                                /\ runs[y].receipts[<<r, z>>] > runs[y].cutoff
                                /\ runs[y].receipts[<<r, z>>] <= runs[y].done
      BY <2>2 DEF RetInv, DeletionIsProven
    <3>2. y # x BY <1>4, <3>1 DEF Open
    <3>3. runs'[y] = runs[y] BY <1>9, <3>2
    <3>4. proof(y, r) BY <3>1, <3>3
    <3> QED BY <3>4
  <2> QED BY <2>1, <2>2 DEF CompleteRun
<1> QED BY <1>3, <1>10, <1>11, <1>12 DEF RetInv

(***************************************************************************)
(* Records and holds.                                                       *)
(***************************************************************************)

LEMMA HoldSteps ==
  ASSUME RetentionAssumption, RetInv, NEW t \in Times, NEW s \in Scopes,
         PlaceHold(t, s) \/ ReleaseHold(t, s)
  PROVE  RetInv'
<1>1. Consume(t) /\ last' = t /\ last' \in Times BY DEF PlaceHold, ReleaseHold, Consume
<1>2. last \in Nat /\ t \in Nat /\ last <= t /\ t # Never /\ t \in 0..Never /\ Never \in 0..Never
  BY <1>1, ClockMoves
<1>3. UNCHANGED <<records, gone, expired, reserved, runs>> BY DEF PlaceHold, ReleaseHold
<1>4. CandidatesAreExclusive' /\ DeletionIsProven'
  BY <1>3 DEF RetInv, CandidatesAreExclusive, DeletionIsProven, Open, Stored
<1>5. holds \in [Scopes -> Seq(Hold)] /\ holds[s] \in Seq(Hold) BY DEF RetInv, RetTyped
<1>6. \A h \in Hold : h.placed \in Nat /\ h.released \in Nat
  BY DEF Hold, Times, Never, RetentionAssumption
<1>7. ASSUME NEW more \in Seq(Hold), holds' = [holds EXCEPT ![s] = more],
             \A i \in DOMAIN more :
                /\ more[i].placed <= t
                /\ more[i].released # Never => more[i].released <= t
                /\ i # Len(more) => more[i].released # Never
      PROVE  RetInv'
  <2>1. RetTyped' BY <1>1, <1>3, <1>5, <1>7 DEF RetInv, RetTyped
  <2>2. ASSUME NEW d \in Scopes, NEW i \in DOMAIN holds'[d]
        PROVE  LET h == holds'[d][i] IN
               /\ h.placed <= t
               /\ h.released # Never => h.released <= t
               /\ i # Len(holds'[d]) => h.released # Never
    <3>1. CASE d = s BY <1>5, <1>7, <2>2, <3>1
    <3>2. CASE d # s
      <4>1. holds'[d] = holds[d] /\ holds[d] \in Seq(Hold) BY <1>5, <1>7, <3>2
      <4>2. holds[d][i] \in Hold BY <2>2, <4>1
      <4>3. /\ holds[d][i].placed <= last
            /\ holds[d][i].released # Never => holds[d][i].released <= last
            /\ i # Len(holds[d]) => holds[d][i].released # Never
        BY <2>2, <4>1 DEF RetInv, HoldsFollow
      <4> QED BY <1>2, <1>6, <4>1, <4>2, <4>3
    <3> QED BY <3>1, <3>2
  <2>3. HoldsFollow' BY <1>1, <2>2 DEF HoldsFollow
  <2> QED BY <1>4, <2>1, <2>3 DEF RetInv
<1>8. \A i \in DOMAIN holds[s] :
        /\ holds[s][i] \in Hold /\ holds[s][i].placed <= t
        /\ holds[s][i].released # Never => holds[s][i].released <= t
        /\ i # Len(holds[s]) => holds[s][i].released # Never
  <2> SUFFICES ASSUME NEW i \in DOMAIN holds[s]
               PROVE  /\ holds[s][i] \in Hold /\ holds[s][i].placed <= t
                      /\ holds[s][i].released # Never => holds[s][i].released <= t
                      /\ i # Len(holds[s]) => holds[s][i].released # Never
    OBVIOUS
  <2>1. holds[s][i] \in Hold BY <1>5
  <2>2. /\ holds[s][i].placed <= last
        /\ holds[s][i].released # Never => holds[s][i].released <= last
        /\ i # Len(holds[s]) => holds[s][i].released # Never
    BY DEF RetInv, HoldsFollow
  <2> QED BY <1>2, <1>6, <2>1, <2>2
<1>9. CASE PlaceHold(t, s)
  <2> DEFINE h == [placed |-> t, released |-> Never]
             more == Append(holds[s], h)
  <2>1. h \in Hold /\ h.placed = t /\ h.released = Never BY <1>2 DEF Hold
  <2> HIDE DEF h
  <2>2. /\ more \in Seq(Hold) /\ Len(more) = Len(holds[s]) + 1 /\ Len(holds[s]) \in Nat
        /\ DOMAIN more = DOMAIN holds[s] \cup {Len(more)}
        /\ more[Len(more)] = h /\ \A i \in DOMAIN holds[s] : more[i] = holds[s][i]
    BY <1>5, <2>1
  <2>3. holds' = [holds EXCEPT ![s] = more] BY <1>5, <1>9 DEF PlaceHold, h
  <2>4. \A i \in DOMAIN holds[s] : holds[s][i].released # Never BY <1>9 DEF PlaceHold
  <2> HIDE DEF more
  <2>5. \A i \in DOMAIN more :
           /\ more[i].placed <= t
           /\ more[i].released # Never => more[i].released <= t
           /\ i # Len(more) => more[i].released # Never
    BY <1>2, <1>8, <2>1, <2>2, <2>4
  <2> QED BY <1>7, <2>2, <2>3, <2>5
<1>10. CASE ReleaseHold(t, s)
  <2>1. PICK i \in DOMAIN holds[s] :
          /\ holds[s][i].released = Never
          /\ holds' = [holds EXCEPT ![s][i].released = t]
    BY <1>10 DEF ReleaseHold
  <2> DEFINE more == [holds[s] EXCEPT ![i].released = t]
  <2>2. /\ more \in Seq(Hold) /\ Len(more) = Len(holds[s]) /\ DOMAIN more = DOMAIN holds[s]
        /\ more[i].placed = holds[s][i].placed /\ more[i].released = t
        /\ \A j \in DOMAIN holds[s] \ {i} : more[j] = holds[s][j]
    BY <1>5, ReleasedHolds
  <2>3. holds' = [holds EXCEPT ![s] = more] BY <1>5, <2>1
  <2> HIDE DEF more
  <2>5. \A j \in DOMAIN more :
           /\ more[j].placed <= t
           /\ more[j].released # Never => more[j].released <= t
           /\ j # Len(more) => more[j].released # Never
    BY <1>2, <1>8, <2>2
  <2> QED BY <1>7, <2>2, <2>3, <2>5
<1> QED BY <1>9, <1>10

\* Records come, what is due is hidden, time passes.
LEMMA PlainSteps ==
  ASSUME RetentionAssumption, RetInv, NEW t \in Times,
         \/ Look(t) \/ Expire(t)
         \/ \E r \in Records, at \in Times : Append1(t, r, at)
  PROVE  RetInv'
<1>1. Consume(t) /\ last' = t /\ last' \in Times BY DEF Look, Expire, Append1, Consume
<1>2. UNCHANGED <<gone, reserved, holds, runs>> BY DEF Look, Expire, Append1
<1>3. HoldsFollow' BY <1>1, <1>2, HoldsKept
<1>4. DeletionIsProven' BY <1>2 DEF RetInv, DeletionIsProven
<1>5. expired \subseteq expired' /\ expired' \subseteq Records
  BY DEF Look, Expire, Append1, RetInv, RetTyped
<1>6. /\ records' \in [Records -> 0..Never]
      /\ \A r \in Records : Stored(r) => Stored(r)'
  <2>1. CASE UNCHANGED records BY <2>1 DEF RetInv, RetTyped, Stored
  <2>2. ASSUME NEW r \in Records, NEW at \in Times, Append1(t, r, at)
        PROVE  /\ records' \in [Records -> 0..Never]
               /\ \A d \in Records : Stored(d) => Stored(d)'
    <3>1. at \in 0..Never /\ records \in [Records -> 0..Never]
      BY DEF RetInv, RetTyped, Times, Never, RetentionAssumption
    <3> QED BY <2>2, <3>1 DEF Append1, Stored
  <2> QED BY <2>1, <2>2 DEF Look, Expire
<1>7. RetTyped' BY <1>1, <1>2, <1>5, <1>6 DEF RetInv, RetTyped
<1>8. CandidatesAreExclusive'
  BY <1>2, <1>5, <1>6 DEF RetInv, RetTyped, CandidatesAreExclusive, Open
<1> QED BY <1>3, <1>4, <1>7, <1>8 DEF RetInv

LEMMA RetStart == ASSUME RetentionAssumption, RetInit PROVE RetInv
<1>1. RetTyped
  <2>1. last \in Times BY DEF RetInit, Times, RetentionAssumption
  <2>2. Never \in 0..Never BY DEF Never, RetentionAssumption
  <2> QED BY <2>1, <2>2 DEF RetInit, RetTyped
<1>2. HoldsFollow BY DEF RetInit, HoldsFollow
<1>3. CandidatesAreExclusive BY DEF RetInit, CandidatesAreExclusive, Open
<1>4. DeletionIsProven BY DEF RetInit, DeletionIsProven
<1> QED BY <1>1, <1>2, <1>3, <1>4 DEF RetInv

LEMMA RetStep ==
  ASSUME RetentionAssumption, RetInv, [RetNext]_retVars
  PROVE  RetInv'
<1>1. CASE UNCHANGED retVars
  BY <1>1 DEF retVars, RetInv, RetTyped, HoldsFollow, CandidatesAreExclusive, DeletionIsProven,
              Open, Stored
<1>2. ASSUME NEW t \in Times, NEW x \in Runs, NEW receipts, Delay(t, x, receipts)
      PROVE  RetInv'
  BY <1>2, TriedKeeps DEF Delay
<1>3. ASSUME NEW t \in Times, NEW x \in Runs, Resume(t, x)
      PROVE  RetInv'
  BY <1>3, TriedKeeps DEF Resume
<1> QED BY <1>1, <1>2, <1>3, PlainSteps, HoldSteps, StartKeeps, CompleteKeeps DEF RetNext

(***************************************************************************)
(* Held records.                                                            *)
(***************************************************************************)

\* What a completion takes away lies under no hold, and was not deleted under one.
LEMMA HeldStays ==
  ASSUME RetentionAssumption, RetInv, [RetNext]_retVars
  PROVE  \A r \in gone' \ gone :
           \A i \in DOMAIN holds[ScopeOf[r]] :
              LET h == holds[ScopeOf[r]][i] IN
              /\ h.released <= last'
              /\ \A x \in Runs : Open(x) /\ ~Open(x)' /\ r \in runs[x].cand =>
                    \A y \in Systems :
                       ~(h.placed <= runs'[x].receipts[<<r, y>>]
                         /\ runs'[x].receipts[<<r, y>>] <= h.released)
<1> SUFFICES ASSUME NEW r \in gone' \ gone, NEW i \in DOMAIN holds[ScopeOf[r]]
             PROVE  /\ holds[ScopeOf[r]][i].released <= last'
                    /\ \A x \in Runs : Open(x) /\ ~Open(x)' /\ r \in runs[x].cand =>
                          \A y \in Systems :
                             ~(holds[ScopeOf[r]][i].placed <= runs'[x].receipts[<<r, y>>]
                               /\ runs'[x].receipts[<<r, y>>] <= holds[ScopeOf[r]][i].released)
  OBVIOUS
<1>1. PICK t \in Times, x \in Runs : \E receipts \in Receipts(x) : CompleteRun(t, x, receipts)
  BY DEF RetNext, Look, Expire, Append1, PlaceHold, ReleaseHold, Start, Resume, Delay, retVars
<1>2. PICK receipts \in Receipts(x) : CompleteRun(t, x, receipts) BY <1>1
<1>3. r \in runs[x].cand /\ ~HeldScope(ScopeOf[r], t) /\ ~Intersects(ScopeOf[r], receipts)
  BY <1>2 DEF CompleteRun, Blocked
<1>4. Consume(t) /\ last' = t BY <1>2 DEF CompleteRun, Consume
<1>5. runs[x] \in Run /\ r \in Records /\ ScopeOf[r] \in Scopes
  BY <1>2, <1>3 DEF CompleteRun, Open, RetInv, RetTyped, Run, RetentionAssumption
<1> DEFINE log == holds[ScopeOf[r]]
<1>6. log \in Seq(Hold) /\ Len(log) \in DOMAIN log /\ log # <<>> BY <1>5 DEF RetInv, RetTyped
<1>7. \A h \in Hold : h.placed \in Nat /\ h.released \in Nat
  BY DEF Hold, Times, Never, RetentionAssumption
<1>8. log[i].released <= t
  <2>1. last \in Nat /\ t \in Nat /\ last <= t BY <1>4, ClockMoves
  <2>2. /\ log[i] \in Hold /\ log[i].placed <= last
        /\ log[i].released # Never => log[i].released <= last
        /\ i # Len(log) => log[i].released # Never
    BY <1>5, <1>6 DEF RetInv, HoldsFollow
  <2>3. CASE i # Len(log) BY <1>7, <2>1, <2>2, <2>3
  <2>4. CASE i = Len(log)
    <3>1. ~(log[i].placed <= t /\ (log[i].released = Never \/ log[i].released > t))
      BY <1>3, <1>6, <2>4 DEF HeldScope
    <3> QED BY <1>7, <2>1, <2>2, <3>1
  <2> QED BY <2>3, <2>4
<1>9. ASSUME NEW z \in Runs, Open(z), ~Open(z)', r \in runs[z].cand, NEW y \in Systems
      PROVE  ~(log[i].placed <= runs'[z].receipts[<<r, y>>]
               /\ runs'[z].receipts[<<r, y>>] <= log[i].released)
  <2>1. runs' = [runs EXCEPT ![x].done = t, ![x].receipts = receipts, ![x].attempts = @ + 1]
    BY <1>2 DEF CompleteRun
  <2>2. z = x BY <1>9, <2>1 DEF Open, RetInv, RetTyped
  <2>3. runs'[x].receipts = receipts BY <1>5, <2>1 DEF RetInv, RetTyped, Run
  <2>4. <<r, y>> \in DOMAIN receipts BY <1>2, <1>3 DEF CompleteRun, Proven
  <2>5. ~(receipts[<<r, y>>] >= log[i].placed /\ receipts[<<r, y>>] <= log[i].released)
    BY <1>3, <2>4 DEF Intersects
  <2> QED BY <2>2, <2>3, <2>5
<1> QED BY <1>4, <1>8, <1>9

\* Theorem: deletions are governed whatever the records, scopes, runs and clocks.
THEOREM DeletionsAreGovernedAlways ==
  ASSUME RetentionAssumption
  PROVE  RetSpec => DeletionsAreGoverned
<1>1. RetInit => RetInv BY RetStart
<1>2. RetInv /\ [RetNext]_retVars => RetInv' BY RetStep
<1>3. RetInv => RetTypeOK
  BY DEF RetInv, RetTyped, RetTypeOK, RunOK, Run
<1>4. RetInv => CandidatesAreExclusive /\ DeletionIsProven BY DEF RetInv
<1>5. RetInv /\ [RetNext]_retVars =>
        [\A r \in gone' \ gone :
           \A i \in DOMAIN holds[ScopeOf[r]] :
              LET h == holds[ScopeOf[r]][i] IN
              /\ h.released <= last'
              /\ \A x \in Runs : Open(x) /\ ~Open(x)' /\ r \in runs[x].cand =>
                    \A y \in Systems :
                       ~(h.placed <= runs'[x].receipts[<<r, y>>]
                         /\ runs'[x].receipts[<<r, y>>] <= h.released)]_retVars
  BY HeldStays
<1> QED BY <1>1, <1>2, <1>3, <1>4, <1>5, PTL DEF RetSpec, DeletionsAreGoverned, HeldRecordsStay

(***************************************************************************)
(* Emergency access: the invariant.                                         *)
(***************************************************************************)

Event ==
    [id : Nat, kind : {"denied", "requested", "approved", "revoked", "expired", "used"},
     grant : Grants, by : People, at : Times, epoch : 0..MaxEpoch,
     resource : Resources \cup {Absent}]

\* Entry j of a log says this of grant g.
Says(log, j, kind, g) == log[j].kind = kind /\ log[j].grant = g

Ending == {"revoked", "expired"}

\* The log and one grant agree: there was a request exactly for what is granted,
\* at most one approval, by the approver, and at most one end.
GrantAgrees(log, g, new) ==
    /\ new = Absent => \A j \in DOMAIN log : \A kind \in {"requested", "approved"} \cup Ending :
                        ~Says(log, j, kind, g)
    /\ new # Absent =>
        /\ \E j \in DOMAIN log : /\ Says(log, j, "requested", g)
                                 /\ log[j].by = new.requester
                                 /\ log[j].resource = new.resource
                                 /\ log[j].epoch = new.epoch
        /\ new.approver # Absent =>
              /\ new.approver # new.requester
              /\ \E j \in DOMAIN log : Says(log, j, "approved", g)
        /\ \A j \in DOMAIN log : Says(log, j, "approved", g) =>
              log[j].by = new.approver /\ new.approver # Absent
        /\ new.revoked <=> \E j \in DOMAIN log : Says(log, j, "revoked", g)
        /\ new.ended <=> \E j \in DOMAIN log : Says(log, j, "expired", g)
        /\ \A i, j \in DOMAIN log : \A k, m \in Ending :
              Says(log, i, k, g) /\ Says(log, j, m, g) => i = j

\* Entry i of the log is an access that was covered when it happened.
AccessCovered(log, i, new) ==
    LET g == log[i].grant IN
    /\ new # Absent /\ log[i].at < new.expires
    /\ \E j \in 1..(i - 1) : /\ Says(log, j, "requested", g)
                             /\ log[j].by = log[i].by /\ log[j].resource = log[i].resource
                             /\ log[j].epoch = log[i].epoch
    /\ \E j \in 1..(i - 1) : Says(log, j, "approved", g) /\ log[j].by # log[i].by
    /\ \A j \in 1..(i - 1) : \A kind \in Ending : ~Says(log, j, kind, g)

AuditIsOrdered ==
    /\ \A i \in DOMAIN audit : audit[i].at <= last
    /\ \A i, j \in DOMAIN audit : i < j => audit[i].at <= audit[j].at

GlassTyped ==
    /\ last \in Times /\ epoch \in Epochs
    /\ audit \in Seq(Event)
    /\ grants \in [Grants -> Grant \cup {Absent}]

GlassInv ==
    /\ GlassTyped
    /\ \A g \in Grants : GrantAgrees(audit, g, grants[g])
    /\ \A i \in DOMAIN audit : audit[i].kind = "used" =>
          AccessCovered(audit, i, grants[audit[i].grant])
    /\ AuditIsOrdered

(***************************************************************************)
(* One entry more.                                                          *)
(***************************************************************************)

LEMMA LongerLog ==
  ASSUME NEW log \in Seq(Event), NEW e \in Event
  PROVE  /\ Append(log, e) \in Seq(Event)
         /\ DOMAIN Append(log, e) = DOMAIN log \cup {Len(log) + 1}
         /\ Append(log, e)[Len(log) + 1] = e
         /\ \A i \in DOMAIN log : Append(log, e)[i] = log[i]
         /\ DOMAIN log = 1..Len(log) /\ Len(log) \in Nat
OBVIOUS

\* What an entry about another grant, or one that says nothing new, leaves alone.
LEMMA OtherGrantAgrees ==
  ASSUME NEW log \in Seq(Event), NEW e \in Event, NEW g, NEW new, GrantAgrees(log, g, new),
         e.grant # g \/ e.kind \in {"denied", "used"}
  PROVE  GrantAgrees(Append(log, e), g, new)
<1> DEFINE more == Append(log, e)
<1>1. /\ DOMAIN more = DOMAIN log \cup {Len(log) + 1}
      /\ more[Len(log) + 1] = e
      /\ \A i \in DOMAIN log : more[i] = log[i]
      /\ DOMAIN log = 1..Len(log) /\ Len(log) \in Nat
  BY LongerLog
<1> HIDE DEF more
<1>2. ASSUME NEW kind \in {"requested", "approved"} \cup Ending, NEW j \in DOMAIN more,
             Says(more, j, kind, g)
      PROVE  j \in DOMAIN log /\ more[j] = log[j]
  BY <1>1, <1>2 DEF Says, Ending
<1>3. \A kind, j : j \in DOMAIN log => (Says(more, j, kind, g) <=> Says(log, j, kind, g))
  BY <1>1 DEF Says
<1>4. CASE new = Absent BY <1>2, <1>3, <1>4 DEF GrantAgrees, more
<1>5. CASE new # Absent
  <2>1. \E j \in DOMAIN more : /\ Says(more, j, "requested", g)
                               /\ more[j].by = new.requester
                               /\ more[j].resource = new.resource
                               /\ more[j].epoch = new.epoch
    BY <1>1, <1>3, <1>5 DEF GrantAgrees
  <2>2. new.approver # Absent => /\ new.approver # new.requester
                               /\ \E j \in DOMAIN more : Says(more, j, "approved", g)
    BY <1>1, <1>3, <1>5 DEF GrantAgrees
  <2>3. \A j \in DOMAIN more : Says(more, j, "approved", g) =>
              more[j].by = new.approver /\ new.approver # Absent
    BY <1>2, <1>3, <1>5 DEF GrantAgrees
  <2>4. /\ new.revoked <=> \E j \in DOMAIN more : Says(more, j, "revoked", g)
        /\ new.ended <=> \E j \in DOMAIN more : Says(more, j, "expired", g)
    BY <1>1, <1>2, <1>3, <1>5 DEF GrantAgrees, Ending
  <2>5. \A i, j \in DOMAIN more : \A k, m \in Ending :
              Says(more, i, k, g) /\ Says(more, j, m, g) => i = j
    BY <1>2, <1>3, <1>5 DEF GrantAgrees
  <2> QED BY <1>5, <2>1, <2>2, <2>3, <2>4, <2>5 DEF GrantAgrees, more
<1> QED BY <1>4, <1>5

\* An access stays covered whatever is logged after it.
LEMMA CoveredStays ==
  ASSUME NEW log \in Seq(Event), NEW e \in Event, NEW i \in DOMAIN log,
         NEW old, NEW new, AccessCovered(log, i, old),
         new # Absent, new.expires = old.expires
  PROVE  AccessCovered(Append(log, e), i, new)
<1> DEFINE more == Append(log, e)
<1>1. /\ \A j \in DOMAIN log : more[j] = log[j]
      /\ DOMAIN log = 1..Len(log) /\ Len(log) \in Nat
  BY LongerLog
<1> HIDE DEF more
<1>2. \A j \in 1..(i - 1) : j \in DOMAIN log BY <1>1
<1>3. more[i] = log[i] /\ \A j \in 1..(i - 1) : more[j] = log[j] BY <1>1, <1>2
<1> QED BY <1>3 DEF AccessCovered, Says, more

Entry(t, p, g, e, kind, ep, res) ==
    [id |-> e, kind |-> kind, grant |-> g, by |-> p, at |-> t, epoch |-> ep, resource |-> res]

\* An entry that the grant it is about agrees with.
Agreed(t, p, g, e, kind, ep, res, new) ==
    LET more == Append(audit, Entry(t, p, g, e, kind, ep, res)) IN
    /\ Entry(t, p, g, e, kind, ep, res) \in Event
    /\ new \in Grant \cup {Absent}
    /\ GrantAgrees(more, g, new)
    /\ grants[g] # Absent => new # Absent /\ new.expires = grants[g].expires
    /\ kind = "used" => AccessCovered(more, Len(audit) + 1, new)

LEMMA LoggedKeeps ==
  ASSUME GlassInv, NEW t \in Times, NEW p \in People, NEW g \in Grants, NEW e,
         NEW kind, NEW ep, NEW res, NEW new,
         Logged(t, p, g, e, kind, ep, res, new),
         Agreed(t, p, g, e, kind, ep, res, new)
  PROVE  GlassInv'
<1> DEFINE ev == Entry(t, p, g, e, kind, ep, res)
           more == Append(audit, ev)
<1>1. last' = t /\ t >= last /\ epoch' = epoch BY DEF Logged, Consume
<1>2. /\ last \in Nat /\ t \in Nat /\ audit \in Seq(Event)
      /\ grants \in [Grants -> Grant \cup {Absent}]
      /\ \A i \in DOMAIN audit : audit[i] \in Event /\ audit[i].at \in Nat /\ audit[i].grant \in Grants
  <2>1. audit \in Seq(Event) /\ grants \in [Grants -> Grant \cup {Absent}]
    BY DEF GlassInv, GlassTyped
  <2>2. last \in Nat /\ t \in Nat BY DEF GlassInv, GlassTyped, Times
  <2>3. \A i \in DOMAIN audit : audit[i] \in Event BY <2>1
  <2>4. \A ev1 \in Event : ev1.at \in Nat /\ ev1.grant \in Grants BY DEF Event, Times
  <2> QED BY <2>1, <2>2, <2>3, <2>4
<1>3. CASE UNCHANGED <<grants, audit>>
  <2>1. AuditIsOrdered'
    BY <1>1, <1>2, <1>3 DEF GlassInv, AuditIsOrdered
  <2>2. GlassTyped' BY <1>1, <1>3 DEF GlassInv, GlassTyped
  <2> QED BY <1>3, <2>1, <2>2 DEF GlassInv
<1>4. CASE audit' = more /\ grants' = [grants EXCEPT ![g] = new]
  <2>1. ev \in Event /\ ev.grant = g /\ ev.kind = kind /\ ev.at = t
    BY DEF Agreed, Entry
  <2> HIDE DEF ev
  <2>2. /\ more \in Seq(Event)
        /\ DOMAIN more = DOMAIN audit \cup {Len(audit) + 1}
        /\ more[Len(audit) + 1] = ev
        /\ \A i \in DOMAIN audit : more[i] = audit[i]
        /\ DOMAIN audit = 1..Len(audit) /\ Len(audit) \in Nat
    BY <1>2, <2>1, LongerLog
  <2>3. /\ new \in Grant \cup {Absent}
        /\ GrantAgrees(more, g, new)
        /\ grants[g] # Absent => new # Absent /\ new.expires = grants[g].expires
        /\ kind = "used" => AccessCovered(more, Len(audit) + 1, new)
    BY DEF Agreed, ev
  <2>4. grants'[g] = new /\ \A d \in Grants \ {g} : grants'[d] = grants[d]
    BY <1>2, <1>4
  <2>5. GlassTyped'
    BY <1>1, <1>2, <1>4, <2>2, <2>3 DEF GlassInv, GlassTyped
  <2>6. ASSUME NEW d \in Grants PROVE GrantAgrees(audit', d, grants'[d])
    <3>1. CASE d = g BY <1>4, <2>3, <2>4, <3>1
    <3>2. CASE d # g
      <4>1. GrantAgrees(more, d, grants[d])
        BY <1>2, <2>1, <3>2, OtherGrantAgrees DEF GlassInv
      <4> QED BY <1>4, <2>4, <3>2, <4>1
    <3> QED BY <3>1, <3>2
  <2>7. ASSUME NEW i \in DOMAIN more, more[i].kind = "used"
        PROVE  AccessCovered(more, i, grants'[more[i].grant])
    <3>1. CASE i \in DOMAIN audit
      <4> DEFINE d == audit[i].grant
      <4>1. more[i] = audit[i] /\ d \in Grants BY <1>2, <2>2, <3>1
      <4>2. AccessCovered(audit, i, grants[d])
        BY <2>7, <3>1, <4>1 DEF GlassInv
      <4>3. grants[d] # Absent BY <4>2 DEF AccessCovered
      <4>4. grants'[d] # Absent /\ grants'[d].expires = grants[d].expires
        BY <2>3, <2>4, <4>1, <4>3
      <4> HIDE DEF d, more
      <4>5. AccessCovered(Append(audit, ev), i, grants'[d])
        BY <1>2, <2>1, <3>1, <4>2, <4>4, CoveredStays
      <4> QED BY <4>1, <4>5 DEF d, more
    <3>2. CASE i = Len(audit) + 1
      BY <2>1, <2>2, <2>3, <2>4, <2>7, <3>2
    <3> QED BY <2>2, <3>1, <3>2
  <2> HIDE DEF more
  <2>8. AuditIsOrdered'
    <3>1. ASSUME NEW i \in DOMAIN more PROVE more[i].at <= t /\ more[i].at \in Nat
      BY <1>1, <1>2, <2>1, <2>2 DEF GlassInv, AuditIsOrdered
    <3>2. ASSUME NEW i \in DOMAIN more, NEW j \in DOMAIN more, i < j
          PROVE  more[i].at <= more[j].at
      <4>1. i \in DOMAIN audit BY <2>2, <3>2
      <4>2. CASE j \in DOMAIN audit
        BY <2>2, <3>2, <4>1, <4>2 DEF GlassInv, AuditIsOrdered
      <4>3. CASE j = Len(audit) + 1
        BY <2>1, <2>2, <3>1, <4>1, <4>3
      <4> QED BY <2>2, <4>2, <4>3
    <3> QED BY <1>1, <1>4, <3>1, <3>2 DEF AuditIsOrdered
  <2> QED BY <1>4, <2>5, <2>6, <2>7, <2>8 DEF GlassInv
<1> QED BY <1>3, <1>4 DEF Logged, Entry

(***************************************************************************)
(* The operations.                                                          *)
(***************************************************************************)

\* A refusal, or a use of a live grant by its requester.
LEMMA QuietKeeps ==
  ASSUME BreakGlassAssumption, GlassInv,
         NEW t \in Times, NEW p \in People, NEW g \in Grants, NEW e \in Nat,
         NEW kind \in {"denied", "used"}, NEW ep \in 0..MaxEpoch,
         NEW res \in Resources \cup {Absent},
         kind = "used" => grants[g] # Absent /\ Usable(t, p, g, ep, res),
         Logged(t, p, g, e, kind, ep, res, grants[g])
  PROVE  GlassInv'
<1> DEFINE ev == Entry(t, p, g, e, kind, ep, res)
           more == Append(audit, ev)
           new == grants[g]
<1>1. /\ ev \in Event /\ ev.grant = g /\ ev.kind = kind /\ ev.at = t /\ ev.by = p
      /\ ev.epoch = ep /\ ev.resource = res
  BY DEF Entry, Event
<1>2. audit \in Seq(Event) /\ new \in Grant \cup {Absent} /\ GrantAgrees(audit, g, new)
  BY DEF GlassInv, GlassTyped
<1> HIDE DEF ev, new
<1>3. GrantAgrees(more, g, new) BY <1>1, <1>2, OtherGrantAgrees
<1>4. /\ DOMAIN more = DOMAIN audit \cup {Len(audit) + 1}
      /\ more[Len(audit) + 1] = ev
      /\ \A i \in DOMAIN audit : more[i] = audit[i]
      /\ DOMAIN audit = 1..Len(audit) /\ Len(audit) \in Nat
  BY <1>1, <1>2, LongerLog
<1> HIDE DEF more
<1>5. ASSUME kind = "used" PROVE AccessCovered(more, Len(audit) + 1, new)
  <2>1. /\ new # Absent /\ new.approver # Absent /\ new.requester = p
        /\ new.resource = res /\ new.epoch = ep
        /\ ~new.revoked /\ ~new.ended /\ t < new.expires
    BY <1>5 DEF Usable, Live, new
  <2> DEFINE n == Len(audit) + 1
  <2>2. 1..(n - 1) = DOMAIN audit BY <1>4
  <2>3. \A j \in DOMAIN audit : \A k : Says(more, j, k, g) <=> Says(audit, j, k, g)
    BY <1>4 DEF Says
  <2>4. \E j \in DOMAIN audit : /\ Says(audit, j, "requested", g)
                                /\ audit[j].by = p /\ audit[j].resource = res
                                /\ audit[j].epoch = ep
    BY <1>2, <2>1 DEF GrantAgrees
  <2>5. \E j \in DOMAIN audit : Says(audit, j, "approved", g) /\ audit[j].by # p
    BY <1>2, <2>1 DEF GrantAgrees
  <2>6. \A j \in DOMAIN audit : \A k \in Ending : ~Says(audit, j, k, g)
    BY <1>2, <2>1 DEF GrantAgrees, Ending
  <2>7. more[n].grant = g /\ more[n].at = t /\ more[n].by = p /\ more[n].resource = res
        /\ more[n].epoch = ep
    BY <1>1, <1>4
  <2>8. \E j \in 1..(n - 1) : /\ Says(more, j, "requested", g)
                              /\ more[j].by = p /\ more[j].resource = res /\ more[j].epoch = ep
    BY <1>4, <2>2, <2>3, <2>4
  <2>9. \E j \in 1..(n - 1) : Says(more, j, "approved", g) /\ more[j].by # p
    BY <1>4, <2>2, <2>3, <2>5
  <2>10. \A j \in 1..(n - 1) : \A k \in Ending : ~Says(more, j, k, g)
    BY <2>2, <2>3, <2>6
  <2> HIDE DEF n
  <2>11. AccessCovered(more, n, new)
    BY <2>1, <2>7, <2>8, <2>9, <2>10 DEF AccessCovered
  <2> QED BY <2>11 DEF n
<1>6. Agreed(t, p, g, e, kind, ep, res, new)
  BY <1>1, <1>2, <1>3, <1>5 DEF Agreed, ev, more, new
<1> QED BY <1>6, LoggedKeeps DEF new

LEMMA RequestStep ==
  ASSUME BreakGlassAssumption, GlassInv,
         NEW t \in Times, NEW p \in People, NEW g \in Grants, NEW e \in Nat,
         NEW ep \in Epochs, NEW expires \in Times, NEW res \in Resources,
         Request(t, p, g, e, ep, expires, res)
  PROVE  GlassInv'
<1>1. ep \in 0..MaxEpoch BY DEF Epochs, BreakGlassAssumption
<1>2. CASE Logged(t, p, g, e, "denied", ep, res, grants[g])
  BY <1>1, <1>2, QuietKeeps
<1> DEFINE new == [requester |-> p, approver |-> Absent, revoked |-> FALSE, ended |-> FALSE,
                   expires |-> expires, epoch |-> ep, resource |-> res]
<1>3. CASE grants[g] = Absent /\ Logged(t, p, g, e, "requested", ep, res, new)
  <2> DEFINE ev == Entry(t, p, g, e, "requested", ep, res)
             more == Append(audit, ev)
  <2>1. /\ ev \in Event /\ ev.grant = g /\ ev.kind = "requested" /\ ev.by = p
        /\ ev.epoch = ep /\ ev.resource = res
    BY <1>1 DEF Entry, Event
  <2>2. /\ new \in Grant /\ new.requester = p /\ new.approver = Absent
        /\ new.revoked = FALSE /\ new.ended = FALSE /\ new.epoch = ep /\ new.resource = res
    BY DEF Grant
  <2>3. new # Absent BY <2>2 DEF BreakGlassAssumption
  <2>4. audit \in Seq(Event) /\ GrantAgrees(audit, g, Absent)
    BY <1>3 DEF GlassInv, GlassTyped
  <2> HIDE DEF ev, new
  <2>5. /\ DOMAIN more = DOMAIN audit \cup {Len(audit) + 1}
        /\ more[Len(audit) + 1] = ev
        /\ \A i \in DOMAIN audit : more[i] = audit[i]
    BY <2>1, <2>4, LongerLog
  <2> HIDE DEF more
  <2>6. \A j \in DOMAIN audit : \A k \in {"requested", "approved"} \cup Ending : ~Says(audit, j, k, g)
    BY <2>4 DEF GrantAgrees
  <2>7. \A j \in DOMAIN more : \A k \in {"approved"} \cup Ending : ~Says(more, j, k, g)
    BY <2>1, <2>5, <2>6 DEF Says, Ending
  <2>8. \E j \in DOMAIN more : /\ Says(more, j, "requested", g)
                               /\ more[j].by = p /\ more[j].resource = res /\ more[j].epoch = ep
    BY <2>1, <2>5 DEF Says
  <2>9. GrantAgrees(more, g, new)
    BY <2>2, <2>3, <2>7, <2>8 DEF GrantAgrees, Ending
  <2>10. Agreed(t, p, g, e, "requested", ep, res, new)
    BY <1>3, <2>1, <2>2, <2>9 DEF Agreed, ev, more
  <2> QED BY <1>3, <2>10, LoggedKeeps
<1> QED BY <1>2, <1>3 DEF Request

\* An approval, a revocation or an expiry that is carried out.
LEMMA AboutKeeps ==
  ASSUME BreakGlassAssumption, GlassInv,
         NEW t \in Times, NEW p \in People, NEW g \in Grants, NEW e \in Nat,
         NEW kind \in {"approved", "revoked", "expired"}, NEW new,
         grants[g] # Absent, ~grants[g].revoked, ~grants[g].ended,
         \/ /\ kind = "approved" /\ grants[g].requester # p /\ grants[g].approver = Absent
            /\ new = [grants[g] EXCEPT !.approver = p]
         \/ kind = "revoked" /\ new = [grants[g] EXCEPT !.revoked = TRUE]
         \/ kind = "expired" /\ new = [grants[g] EXCEPT !.ended = TRUE],
         Logged(t, p, g, e, kind, grants[g].epoch, grants[g].resource, new)
  PROVE  GlassInv'
<1> DEFINE old == grants[g]
           ep == old.epoch
           res == old.resource
           ev == Entry(t, p, g, e, kind, ep, res)
           more == Append(audit, ev)
<1>1. old \in Grant /\ audit \in Seq(Event) /\ GrantAgrees(audit, g, old) /\ old # Absent
  BY DEF GlassInv, GlassTyped
<1>2. ep \in 0..MaxEpoch /\ res \in Resources
  BY <1>1 DEF Grant, Epochs, BreakGlassAssumption
<1> HIDE DEF ep, res
<1>3. ev \in Event /\ ev.grant = g /\ ev.kind = kind /\ ev.by = p
  BY <1>2 DEF Entry, Event
<1> HIDE DEF ev
<1>4. /\ new \in Grant /\ new.requester = old.requester /\ new.expires = old.expires
      /\ new.epoch = old.epoch /\ new.resource = old.resource
      /\ kind # "approved" => new.approver = old.approver
      /\ kind = "approved" => new.approver = p
      /\ new.revoked = (kind = "revoked")
      /\ new.ended = (kind = "expired")
  BY <1>1 DEF Grant
<1>5. new # Absent /\ p # Absent BY <1>4 DEF BreakGlassAssumption
<1>6. /\ DOMAIN more = DOMAIN audit \cup {Len(audit) + 1}
      /\ more[Len(audit) + 1] = ev
      /\ \A i \in DOMAIN audit : more[i] = audit[i]
      /\ Len(audit) + 1 \notin DOMAIN audit
  BY <1>1, <1>3, LongerLog
<1> HIDE DEF more
<1>7. \A j \in DOMAIN audit : \A k : Says(more, j, k, g) <=> Says(audit, j, k, g)
  BY <1>6 DEF Says
<1>8. \A k : Says(more, Len(audit) + 1, k, g) <=> k = kind
  BY <1>3, <1>6 DEF Says
<1>9. \A j \in DOMAIN audit : \A k \in Ending : ~Says(audit, j, k, g)
  BY <1>1 DEF GrantAgrees, Ending
<1>10. \E j \in DOMAIN more : /\ Says(more, j, "requested", g)
                              /\ more[j].by = new.requester
                              /\ more[j].resource = new.resource
                              /\ more[j].epoch = new.epoch
  <2>1. PICK j \in DOMAIN audit : /\ Says(audit, j, "requested", g)
                                  /\ audit[j].by = old.requester
                                  /\ audit[j].resource = old.resource
                                  /\ audit[j].epoch = old.epoch
    BY <1>1 DEF GrantAgrees
  <2> QED BY <1>4, <1>6, <1>7, <2>1
<1>11. new.approver # Absent =>
          /\ new.approver # new.requester
          /\ \E j \in DOMAIN more : Says(more, j, "approved", g)
  <2>1. CASE kind = "approved" BY <1>4, <1>6, <1>8, <2>1
  <2>2. CASE kind # "approved" BY <1>1, <1>4, <1>6, <1>7, <2>2 DEF GrantAgrees
  <2> QED BY <2>1, <2>2
<1>12. \A j \in DOMAIN more : Says(more, j, "approved", g) =>
          more[j].by = new.approver /\ new.approver # Absent
  <2>1. CASE kind = "approved"
    <3>1. \A j \in DOMAIN audit : ~Says(audit, j, "approved", g)
      BY <1>1, <2>1 DEF GrantAgrees
    <3> QED BY <1>3, <1>4, <1>5, <1>6, <1>7, <2>1, <3>1
  <2>2. CASE kind # "approved" BY <1>1, <1>4, <1>6, <1>7, <1>8, <2>2 DEF GrantAgrees
  <2> QED BY <2>1, <2>2
<1>13. /\ new.revoked <=> \E j \in DOMAIN more : Says(more, j, "revoked", g)
       /\ new.ended <=> \E j \in DOMAIN more : Says(more, j, "expired", g)
  BY <1>4, <1>6, <1>7, <1>8, <1>9 DEF Ending
<1>14. \A i, j \in DOMAIN more : \A k, m \in Ending :
          Says(more, i, k, g) /\ Says(more, j, m, g) => i = j
  BY <1>6, <1>7, <1>9
<1>15. GrantAgrees(more, g, new)
  BY <1>5, <1>10, <1>11, <1>12, <1>13, <1>14 DEF GrantAgrees
<1>16. Agreed(t, p, g, e, kind, ep, res, new)
  BY <1>3, <1>4, <1>5, <1>15 DEF Agreed, ev, more
<1> QED BY <1>16, LoggedKeeps DEF ep, res

LEMMA GrantSteps ==
  ASSUME BreakGlassAssumption, GlassInv,
         NEW t \in Times, NEW p \in People, NEW g \in Grants, NEW e \in Nat,
         Approve(t, p, g, e) \/ Revoke(t, p, g, e) \/ ExpireGrant(t, p, g, e)
  PROVE  GlassInv'
<1> DEFINE old == grants[g]
<1>1. old # Absent => old.epoch \in 0..MaxEpoch /\ old.resource \in Resources
  BY DEF GlassInv, GlassTyped, Grant, Epochs, BreakGlassAssumption
<1>2. 0 \in 0..MaxEpoch BY DEF BreakGlassAssumption
<1>3. CASE old = Absent /\ Logged(t, p, g, e, "denied", 0, Absent, Absent)
  BY <1>2, <1>3, QuietKeeps
<1>4. CASE old # Absent /\ Logged(t, p, g, e, "denied", old.epoch, old.resource, old)
  BY <1>1, <1>4, QuietKeeps
<1>5. CASE /\ old # Absent /\ old.requester # p /\ old.approver = Absent /\ Live(t, g)
           /\ Logged(t, p, g, e, "approved", old.epoch, old.resource,
                            [old EXCEPT !.approver = p])
  <2>1. ~old.revoked /\ ~old.ended BY <1>5 DEF Live
  <2> QED BY <1>5, <2>1, AboutKeeps
<1>6. CASE /\ old # Absent /\ Live(t, g)
           /\ Logged(t, p, g, e, "revoked", old.epoch, old.resource,
                            [old EXCEPT !.revoked = TRUE])
  <2>1. ~old.revoked /\ ~old.ended BY <1>6 DEF Live
  <2> QED BY <1>6, <2>1, AboutKeeps
<1>7. CASE /\ old # Absent /\ ~old.revoked /\ ~old.ended
           /\ Logged(t, p, g, e, "expired", old.epoch, old.resource,
                            [old EXCEPT !.ended = TRUE])
  BY <1>7, AboutKeeps
<1>8. CASE Approve(t, p, g, e)
  BY <1>3, <1>4, <1>5, <1>8 DEF Approve, About, Approvable
<1>9. CASE Revoke(t, p, g, e)
  BY <1>3, <1>4, <1>6, <1>9 DEF Revoke, About, Revocable
<1>10. CASE ExpireGrant(t, p, g, e)
  BY <1>3, <1>4, <1>7, <1>10 DEF ExpireGrant, About
<1> QED BY <1>8, <1>9, <1>10

LEMMA UseStep ==
  ASSUME BreakGlassAssumption, GlassInv,
         NEW t \in Times, NEW p \in People, NEW g \in Grants, NEW e \in Nat,
         NEW ep \in Epochs, NEW res \in Resources, Use(t, p, g, e, ep, res)
  PROVE  GlassInv'
<1>1. ep \in 0..MaxEpoch BY DEF Epochs, BreakGlassAssumption
<1>2. CASE grants[g] # Absent /\ Usable(t, p, g, ep, res)
  <2>1. Logged(t, p, g, e, "used", ep, res, grants[g]) BY <1>2 DEF Use
  <2> QED BY <1>1, <1>2, <2>1, QuietKeeps
<1>3. CASE ~(grants[g] # Absent /\ Usable(t, p, g, ep, res))
  <2>1. Logged(t, p, g, e, "denied", ep, res, grants[g]) BY <1>3 DEF Use
  <2> QED BY <1>1, <2>1, QuietKeeps
<1> QED BY <1>2, <1>3

(***************************************************************************)
(* The theorem.                                                             *)
(***************************************************************************)

LEMMA GlassStart ==
  ASSUME BreakGlassAssumption, GlassInit
  PROVE  GlassInv
<1>1. audit = <<>> /\ DOMAIN audit = {} /\ \A g \in Grants : grants[g] = Absent
  BY DEF GlassInit
<1>2. GlassTyped
  <2>1. last \in Times /\ epoch \in Epochs
    BY DEF GlassInit, Times, Epochs, BreakGlassAssumption
  <2>2. audit \in Seq(Event) BY <1>1
  <2>3. grants \in [Grants -> Grant \cup {Absent}] BY DEF GlassInit
  <2> QED BY <2>1, <2>2, <2>3 DEF GlassTyped
<1>3. \A g \in Grants : GrantAgrees(audit, g, grants[g]) BY <1>1 DEF GrantAgrees
<1>4. AuditIsOrdered BY <1>1 DEF AuditIsOrdered
<1> QED BY <1>1, <1>2, <1>3, <1>4 DEF GlassInv

LEMMA GlassStep ==
  ASSUME BreakGlassAssumption, GlassInv, [GlassNext]_glassVars
  PROVE  GlassInv'
<1>1. ASSUME UNCHANGED <<last, grants, audit>>, epoch' \in Epochs
      PROVE  GlassInv'
  BY <1>1 DEF GlassInv, GlassTyped, AuditIsOrdered
<1>2. CASE Restore
  BY <1>1, <1>2 DEF Restore, GlassInv, GlassTyped, Epochs, BreakGlassAssumption
<1>3. CASE UNCHANGED glassVars
  BY <1>1, <1>3 DEF glassVars, GlassInv, GlassTyped
<1>4. CASE \E t \in Times, p \in People, g \in Grants, e \in Events :
        \/ \E ep \in Epochs, x \in Times, res \in Resources :
              Request(t, p, g, e, ep, x, res)
        \/ Approve(t, p, g, e) \/ Revoke(t, p, g, e) \/ ExpireGrant(t, p, g, e)
        \/ \E ep \in Epochs, res \in Resources : Use(t, p, g, e, ep, res)
  <2>1. Events \subseteq Nat BY DEF Events
  <2> QED BY <1>4, <2>1, RequestStep, GrantSteps, UseStep
<1> QED BY <1>2, <1>3, <1>4 DEF GlassNext

LEMMA GlassAccounts ==
  ASSUME GlassInv
  PROVE  GrantsAreAccountable
<1>1. /\ audit \in Seq(Event) /\ DOMAIN audit = 1..Len(audit) /\ Len(audit) \in Nat
      /\ 1..(Len(audit) + 1 - 1) = DOMAIN audit
      /\ grants \in [Grants -> Grant \cup {Absent}]
      /\ \A i \in DOMAIN audit : audit[i].grant \in Grants
  <2>1. audit \in Seq(Event) /\ grants \in [Grants -> Grant \cup {Absent}]
    BY DEF GlassInv, GlassTyped
  <2>2. DOMAIN audit = 1..Len(audit) /\ Len(audit) \in Nat BY <2>1
  <2>3. \A i \in DOMAIN audit : audit[i] \in Event BY <2>1
  <2>4. \A ev \in Event : ev.grant \in Grants BY DEF Event
  <2> QED BY <2>1, <2>2, <2>3, <2>4
<1>2. \A kind, g, i, j : j \in Before(i, kind, g) <=> j \in 1..(i - 1) /\ Says(audit, j, kind, g)
  BY DEF Before, Says
<1>3. AccessIsCovered
  <2> SUFFICES ASSUME NEW i \in DOMAIN audit, audit[i].kind = "used"
               PROVE  LET g == audit[i].grant IN
                      /\ \E j \in Before(i, "requested", g) :
                            /\ audit[j].by = audit[i].by /\ audit[j].resource = audit[i].resource
                            /\ audit[j].epoch = audit[i].epoch
                      /\ \E j \in Before(i, "approved", g) : audit[j].by # audit[i].by
                      /\ Before(i, "revoked", g) = {} /\ Before(i, "expired", g) = {}
                      /\ audit[i].at < grants[g].expires
    BY DEF AccessIsCovered
  <2>1. AccessCovered(audit, i, grants[audit[i].grant]) BY DEF GlassInv
  <2> QED BY <1>2, <2>1 DEF AccessCovered, Ending
<1>4. LogTellsTheGrant
  <2> SUFFICES ASSUME NEW g \in Grants
               PROVE  LET said(kind) == Before(Len(audit) + 1, kind, g) IN
                      /\ (grants[g] # Absent) = (said("requested") # {})
                      /\ grants[g] # Absent =>
                          /\ \A j \in said("approved") : audit[j].by = grants[g].approver
                          /\ (grants[g].approver = Absent) = (said("approved") = {})
                          /\ grants[g].revoked = (said("revoked") # {})
                          /\ grants[g].ended = (said("expired") # {})
                      /\ \A i, j \in said("revoked") \cup said("expired") : i = j
    BY DEF LogTellsTheGrant
  <2> DEFINE new == grants[g]
             said(kind) == Before(Len(audit) + 1, kind, g)
  <2>1. GrantAgrees(audit, g, new) BY DEF GlassInv
  <2>2. \A kind, j : j \in said(kind) <=> j \in DOMAIN audit /\ Says(audit, j, kind, g)
    BY <1>1, <1>2
  <2>3. new # Absent => new.revoked \in BOOLEAN /\ new.ended \in BOOLEAN
    BY <1>1 DEF Grant
  <2> HIDE DEF said, new
  <2>4. (new # Absent) = (said("requested") # {}) BY <2>1, <2>2 DEF GrantAgrees
  <2>5. ASSUME new # Absent
        PROVE  /\ \A j \in said("approved") : audit[j].by = new.approver
               /\ (new.approver = Absent) = (said("approved") = {})
    BY <2>1, <2>2, <2>5 DEF GrantAgrees
  <2>6. ASSUME new # Absent
        PROVE  new.revoked = (said("revoked") # {}) /\ new.ended = (said("expired") # {})
    <3>1. new.revoked <=> said("revoked") # {} BY <2>1, <2>2, <2>6 DEF GrantAgrees
    <3>2. new.ended <=> said("expired") # {} BY <2>1, <2>2, <2>6 DEF GrantAgrees
    <3> QED BY <2>3, <2>6, <3>1, <3>2
  <2>7. \A i, j \in said("revoked") \cup said("expired") : i = j
    BY <2>1, <2>2 DEF GrantAgrees, Ending
  <2> QED BY <2>4, <2>5, <2>6, <2>7 DEF said, new
<1>5. LogIsOrdered BY DEF GlassInv, AuditIsOrdered, LogIsOrdered
<1> QED BY <1>3, <1>4, <1>5 DEF GrantsAreAccountable

\* The audit log and the grants never part ways.
THEOREM GrantsAreAccountableAlways ==
  ASSUME BreakGlassAssumption
  PROVE  GlassSpec => []GrantsAreAccountable
<1>1. GlassInit => GlassInv BY GlassStart
<1>2. GlassInv /\ [GlassNext]_glassVars => GlassInv' BY GlassStep
<1>3. GlassInv => GrantsAreAccountable BY GlassAccounts
<1> QED BY <1>1, <1>2, <1>3, PTL DEF GlassSpec

(***************************************************************************)
(* CI publication.                                                          *)
(***************************************************************************)
(* Places of an invocation: before its jobs are executed, before it has a    *)
(* directory, before latest names it, with the generation under its name,    *)
(* and with the publication lock.                                            *)
Executing == {"idle", "begun", "resolve", "lease", "running"}
Bare == Executing \cup {"ready", "lock", "archive", "verify", "stage"}
Unnamed == Bare \cup {"write", "verify_staged", "rename", "verify_published", "pointer", "switch"}
Whole == {"verify_published", "pointer", "switch", "finalize", "reconcile", "confirm", "done"}
Locked == {"archive", "verify", "stage", "write", "verify_staged", "rename",
           "verify_published", "pointer", "switch", "finalize", "reconcile", "confirm", "unwind"}
Places == Unnamed \cup Whole \cup Locked \cup {"seal", "complete"} \cup Terminal

(* Types, places and readers included.                                       *)
CiTyped ==
  /\ pc \in [Invocations -> Places]
  /\ outcome \in [Invocations -> {"failure", "incomplete"}]
  /\ tree \in 0 .. MaxEdits
  /\ ctx \in [Invocations \cup Readers -> Contexts]
  /\ current \in [Contexts -> {Nobody} \cup [run : Invocations, state : RunStates]]
  /\ manifests \subseteq Invocations /\ pointer \subseteq Invocations
  /\ attested \subseteq Invocations \X (1 .. NJobs) \X Invocations
  /\ lock \in Invocations \cup {Nobody}
  /\ latest \in Invocations \cup {Nobody, Legacy}
  /\ gens \in [Invocations -> {"absent", "staging", "written", "published"}]
  /\ sealed \in [Invocations -> {"none", "failure", "incomplete"}]
  /\ source \in [Invocations -> 0 .. MaxEdits] /\ under \in [Invocations -> Invocations]
  /\ executed \in [Invocations -> 0 .. NJobs]
  /\ rpc \in [Readers -> {"idle", "latest", "read", "again", "last", "returned", "refused"}]
  /\ rrun \in [Readers -> Invocations \cup {Nobody}]
  /\ rsource \in [Readers -> 0 .. MaxEdits]

(* What an invocation that came this far has done.                           *)
Progressed(i) ==
  /\ pc[i] \in {"begun", "resolve"} => current[ctx[i]] # Nobody
  /\ pc[i] \in Executing => executed[i] < NJobs
  /\ pc[i] = "complete" => sealed[i] = outcome[i]

(* Its directory and pointer are those of its place.                         *)
DirectoryFits(i) ==
  /\ pc[i] \in Bare => gens[i] = "absent"
  /\ pc[i] \in Whole => gens[i] = "published"
  /\ pc[i] \in {"seal", "complete", "failed", "raised"} => gens[i] \in {"absent", "published"}
  /\ i \in pointer => pc[i] \in {"switch", "dead"}

(* Lock, latest and the authority name it when its place says so.            *)
NameFits(i) ==
  /\ pc[i] \in Locked => lock = i
  /\ pc[i] \in Unnamed => latest # i /\ i \notin manifests
  /\ pc[i] = "finalize" => latest = i
  /\ pc[i] = "confirm" => i \in manifests
  /\ pc[i] \in {"seal", "complete", "failed", "raised"} /\ latest = i => i \in manifests
  /\ latest = i \/ i \in manifests => gens[i] = "published"

(* A run the authority closed is anchored, or ended and sealed as recorded.  *)
CurrentRunsFit ==
  \A c \in Contexts : current[c] # Nobody =>
    LET i == current[c].run IN
    /\ ctx[i] = c
    /\ current[c].state = "success" => i \in manifests
    /\ current[c].state \in {"failure", "incomplete"} =>
         pc[i] = "failed" /\ sealed[i] = current[c].state

(* An anchored run has a receipt of its own for every job.                   *)
ManifestsAreAttested ==
  \A i \in manifests : \A j \in 1 .. NJobs : <<i, j, i>> \in attested

(* What a reader carries is anchored and of its context and source.          *)
ReadersFit ==
  \A r \in Readers : rpc[r] \in {"latest", "read", "again", "last", "returned"} =>
    /\ rrun[r] \in manifests
    /\ ctx[rrun[r]] = ctx[r] /\ source[rrun[r]] = rsource[r]

(* The inductive invariant.                                                  *)
CiInv ==
  /\ CiTyped
  /\ \A i \in Invocations : Progressed(i) /\ DirectoryFits(i) /\ NameFits(i)
  /\ CurrentRunsFit /\ ManifestsAreAttested /\ ReadersFit

(* What no invocation disturbs: what was committed stays committed, and other *)
(* invocations keep their places, sources and directories.                   *)
LEMMA CiFrame ==
  ASSUME CiAssumption, CiInv, NEW i \in Invocations, InvocationStep(i) \/ Crash(i)
  PROVE  /\ ctx' = ctx /\ tree' = tree /\ UNCHANGED readerVars
         /\ manifests \subseteq manifests' /\ attested \subseteq attested'
         /\ \A x \in Invocations : x # i =>
              /\ pc'[x] = pc[x] /\ gens'[x] = gens[x] /\ outcome'[x] = outcome[x]
              /\ sealed'[x] = sealed[x] /\ executed'[x] = executed[x] /\ source'[x] = source[x]
              /\ (x \in pointer' <=> x \in pointer) /\ (x \in manifests' <=> x \in manifests)
         /\ \A x \in Invocations : pc[x] # "idle" => source'[x] = source[x]
<1> USE DEF CiInv, CiTyped, Goto, Failing, authorityVars, diskVars, localVars, readerVars
<1>1. CASE Begin(i)
  BY <1>1 DEF Begin
<1>2. CASE RequireConfiguredSourceIdentity(i)
  BY <1>2 DEF RequireConfiguredSourceIdentity
<1>3. CASE ResolveCurrent(i)
  BY <1>3 DEF ResolveCurrent
<1>4. CASE StartJob(i)
  BY <1>4 DEF StartJob, VerifyExecutionBinding
<1>5. CASE EndJob(i)
  BY <1>5 DEF EndJob, VerifyExecutionBinding
<1>6. CASE RequireFresh(i)
  BY <1>6 DEF RequireFresh
<1>7. CASE AcquireLock(i)
  BY <1>7 DEF AcquireLock
<1>8. CASE ArchiveLegacyCiLatest(i)
  BY <1>8 DEF ArchiveLegacyCiLatest
<1>9. CASE Verify(i)
  BY <1>9 DEF Verify, VerifyPublicationAuthorities
<1>10. CASE StageGeneration(i)
  BY <1>10 DEF StageGeneration
<1>11. CASE WriteAndVerifyStaged(i)
  BY <1>11 DEF WriteAndVerifyStaged
<1>12. CASE RenameGeneration(i)
  BY <1>12 DEF RenameGeneration
<1>13. CASE CreateLatestPointer(i)
  BY <1>13 DEF CreateLatestPointer
<1>14. CASE SwitchLatestPointer(i)
  BY <1>14 DEF SwitchLatestPointer
<1>15. CASE Finalize(i)
  BY <1>15 DEF Finalize
<1>16. CASE ReconcileFinalization(i)
  BY <1>16 DEF ReconcileFinalization, RequireFinalized
<1>17. CASE Confirm(i)
  BY <1>17 DEF Confirm, RequireFinalized
<1>18. CASE Unwind(i)
  BY <1>18 DEF Unwind
<1>19. CASE SealAttempt(i)
  BY <1>19 DEF SealAttempt
<1>20. CASE CompleteCurrentRun(i)
  BY <1>20 DEF CompleteCurrentRun
<1>21. CASE Crash(i)
  BY <1>21 DEF Crash, Terminal
<1> QED BY <1>1, <1>2, <1>3, <1>4, <1>5, <1>6, <1>7, <1>8, <1>9, <1>10, <1>11, <1>12,
     <1>13, <1>14, <1>15, <1>16, <1>17, <1>18, <1>19, <1>20, <1>21 DEF InvocationStep

(* Types are kept.                                                           *)
LEMMA CiTypedStep ==
  ASSUME CiAssumption, CiInv, NEW i \in Invocations, InvocationStep(i) \/ Crash(i)
  PROVE  CiTyped'
<1> USE DEF CiAssumption, CiInv, CiTyped, Places, Executing, Bare, Unnamed, Whole,
     Locked, Terminal, Goto, Failing, authorityVars, diskVars, localVars, readerVars
<1>1. CASE Begin(i)
  BY <1>1 DEF Begin, CurrentRun, RunStates
<1>2. CASE RequireConfiguredSourceIdentity(i)
  <2>1. CASE Goto(i, "resolve") /\ UNCHANGED <<tree, ctx, authorityVars, diskVars, localVars, readerVars>>
    BY <2>1
  <2>2. CASE Failing(i, "seal", "incomplete")
    BY <2>2
  <2> QED BY <1>2, <2>1, <2>2 DEF RequireConfiguredSourceIdentity
<1>3. CASE ResolveCurrent(i)
  BY <1>3 DEF ResolveCurrent, Progressed
<1>4. CASE StartJob(i)
  BY <1>4 DEF StartJob, VerifyExecutionBinding
<1>5. CASE EndJob(i)
  BY <1>5 DEF EndJob, VerifyExecutionBinding, CurrentRun, Progressed
<1>6. CASE RequireFresh(i)
  BY <1>6 DEF RequireFresh
<1>7. CASE AcquireLock(i)
  BY <1>7 DEF AcquireLock
<1>8. CASE ArchiveLegacyCiLatest(i)
  BY <1>8 DEF ArchiveLegacyCiLatest
<1>9. CASE Verify(i)
  BY <1>9 DEF Verify, VerifyPublicationAuthorities
<1>10. CASE StageGeneration(i)
  BY <1>10 DEF StageGeneration
<1>11. CASE WriteAndVerifyStaged(i)
  BY <1>11 DEF WriteAndVerifyStaged
<1>12. CASE RenameGeneration(i)
  BY <1>12 DEF RenameGeneration
<1>13. CASE CreateLatestPointer(i)
  BY <1>13 DEF CreateLatestPointer
<1>14. CASE SwitchLatestPointer(i)
  BY <1>14 DEF SwitchLatestPointer
<1>15. CASE Finalize(i)
  <2>1. current' \in [Contexts -> {Nobody} \cup [run : Invocations, state : RunStates]]
    BY <1>15 DEF Finalize, CurrentRun, RunStates
  <2>2. pc' \in [Invocations -> Places] /\ manifests' \subseteq Invocations
    BY <1>15 DEF Finalize, Places
  <2>3. outcome' \in [Invocations -> {"failure", "incomplete"}]
    BY <1>15 DEF Finalize
  <2> QED BY <1>15, <2>1, <2>2, <2>3 DEF Finalize
<1>16. CASE ReconcileFinalization(i)
  BY <1>16 DEF ReconcileFinalization, RequireFinalized
<1>17. CASE Confirm(i)
  BY <1>17 DEF Confirm, RequireFinalized
<1>18. CASE Unwind(i)
  BY <1>18 DEF Unwind
<1>19. CASE SealAttempt(i)
  <2>1. sealed' \in [Invocations -> {"none", "failure", "incomplete"}]
    BY <1>19 DEF SealAttempt
  <2>2. pc' \in [Invocations -> Places]
    BY <1>19 DEF SealAttempt
  <2> QED BY <1>19, <2>1, <2>2 DEF SealAttempt
<1>20. CASE CompleteCurrentRun(i)
  <2>1. CurrentRun(i, outcome[i]) \in [run : Invocations, state : RunStates]
    BY DEF CurrentRun, RunStates
  <2>2. current' \in [Contexts -> {Nobody} \cup [run : Invocations, state : RunStates]]
    BY <1>20, <2>1 DEF CompleteCurrentRun
  <2>3. pc' \in [Invocations -> Places]
    BY <1>20 DEF CompleteCurrentRun
  <2> QED BY <1>20, <2>2, <2>3 DEF CompleteCurrentRun
<1>21. CASE Crash(i)
  BY <1>21 DEF Crash, Terminal
<1> QED BY <1>1, <1>2, <1>3, <1>4, <1>5, <1>6, <1>7, <1>8, <1>9, <1>10, <1>11, <1>12,
     <1>13, <1>14, <1>15, <1>16, <1>17, <1>18, <1>19, <1>20, <1>21 DEF InvocationStep

(* An invocation leaves its own place, directory and name consistent.        *)
LEMMA OwnFits ==
  ASSUME CiAssumption, CiInv, NEW i \in Invocations, InvocationStep(i) \/ Crash(i)
  PROVE  Progressed(i)' /\ DirectoryFits(i)' /\ NameFits(i)'
<1> USE DEF CiInv, CiTyped, Progressed, DirectoryFits, NameFits, Executing, Bare,
     Unnamed, Whole, Locked, Goto, Failing, authorityVars, diskVars, localVars,
     readerVars
<1>1. CASE Begin(i)
  BY <1>1 DEF Begin, CiAssumption, CurrentRun, RunStates
<1>2. CASE RequireConfiguredSourceIdentity(i)
  BY <1>2 DEF RequireConfiguredSourceIdentity
<1>3. CASE ResolveCurrent(i)
  BY <1>3 DEF ResolveCurrent
<1>4. CASE StartJob(i)
  BY <1>4 DEF StartJob, VerifyExecutionBinding
<1>5. CASE EndJob(i)
  <2>1. executed[i] < NJobs /\ executed[i] \in 0 .. NJobs /\ NJobs \in Nat
    BY <1>5 DEF EndJob, CiAssumption
  <2>2. pc'[i] = "lease" => executed'[i] < NJobs
    BY <1>5, <2>1 DEF EndJob
  <2>3. Progressed(i)'
    BY <1>5, <2>2 DEF EndJob
  <2>4. DirectoryFits(i)' /\ NameFits(i)'
    BY <1>5 DEF EndJob
  <2> QED BY <2>3, <2>4
<1>6. CASE RequireFresh(i)
  BY <1>6 DEF RequireFresh
<1>7. CASE AcquireLock(i)
  BY <1>7 DEF AcquireLock
<1>8. CASE ArchiveLegacyCiLatest(i)
  BY <1>8 DEF ArchiveLegacyCiLatest, CiAssumption
<1>9. CASE Verify(i)
  BY <1>9 DEF Verify, VerifyPublicationAuthorities
<1>10. CASE StageGeneration(i)
  BY <1>10 DEF StageGeneration
<1>11. CASE WriteAndVerifyStaged(i)
  BY <1>11 DEF WriteAndVerifyStaged
<1>12. CASE RenameGeneration(i)
  BY <1>12 DEF RenameGeneration
<1>13. CASE CreateLatestPointer(i)
  BY <1>13 DEF CreateLatestPointer
<1>14. CASE SwitchLatestPointer(i)
  BY <1>14 DEF SwitchLatestPointer
<1>15. CASE Finalize(i)
  BY <1>15 DEF Finalize, CurrentRun, CiAssumption
<1>16. CASE ReconcileFinalization(i)
  BY <1>16 DEF ReconcileFinalization, RequireFinalized
<1>17. CASE Confirm(i)
  BY <1>17 DEF Confirm, RequireFinalized
<1>18. CASE Unwind(i)
  BY <1>18 DEF Unwind, CiAssumption
<1>19. CASE SealAttempt(i)
  BY <1>19 DEF SealAttempt
<1>20. CASE CompleteCurrentRun(i)
  BY <1>20 DEF CompleteCurrentRun
<1>21. CASE Crash(i)
  BY <1>21 DEF Crash, Terminal
<1> QED BY <1>1, <1>2, <1>3, <1>4, <1>5, <1>6, <1>7, <1>8, <1>9, <1>10, <1>11, <1>12,
     <1>13, <1>14, <1>15, <1>16, <1>17, <1>18, <1>19, <1>20, <1>21 DEF InvocationStep

(* What the authority says of a run stays true of it.                        *)
LEMMA RunsFitStep ==
  ASSUME CiAssumption, CiInv, NEW i \in Invocations, InvocationStep(i) \/ Crash(i)
  PROVE  CurrentRunsFit'
<1> USE DEF CiInv, CiTyped, CurrentRunsFit, Progressed, DirectoryFits, NameFits,
     Unnamed, Bare, Executing, Goto, Failing, authorityVars, diskVars, localVars,
     readerVars
<1>1. CASE Begin(i)
  BY <1>1 DEF Begin, CiAssumption, CurrentRun, RunStates
<1>2. CASE RequireConfiguredSourceIdentity(i)
  BY <1>2 DEF RequireConfiguredSourceIdentity
<1>3. CASE ResolveCurrent(i)
  BY <1>3 DEF ResolveCurrent
<1>4. CASE StartJob(i)
  BY <1>4 DEF StartJob, VerifyExecutionBinding
<1>5. CASE EndJob(i)
  BY <1>5 DEF EndJob, VerifyExecutionBinding
<1>6. CASE RequireFresh(i)
  BY <1>6 DEF RequireFresh
<1>7. CASE AcquireLock(i)
  BY <1>7 DEF AcquireLock
<1>8. CASE ArchiveLegacyCiLatest(i)
  BY <1>8 DEF ArchiveLegacyCiLatest
<1>9. CASE Verify(i)
  BY <1>9 DEF Verify, VerifyPublicationAuthorities
<1>10. CASE StageGeneration(i)
  BY <1>10 DEF StageGeneration
<1>11. CASE WriteAndVerifyStaged(i)
  BY <1>11 DEF WriteAndVerifyStaged
<1>12. CASE RenameGeneration(i)
  BY <1>12 DEF RenameGeneration
<1>13. CASE CreateLatestPointer(i)
  BY <1>13 DEF CreateLatestPointer
<1>14. CASE SwitchLatestPointer(i)
  BY <1>14 DEF SwitchLatestPointer
<1>15. CASE Finalize(i)
  BY <1>15 DEF Finalize, CurrentRun, CiAssumption
<1>16. CASE ReconcileFinalization(i)
  BY <1>16 DEF ReconcileFinalization, RequireFinalized
<1>17. CASE Confirm(i)
  BY <1>17 DEF Confirm, RequireFinalized
<1>18. CASE Unwind(i)
  BY <1>18 DEF Unwind
<1>19. CASE SealAttempt(i)
  BY <1>19 DEF SealAttempt
<1>20. CASE CompleteCurrentRun(i)
  BY <1>20 DEF CompleteCurrentRun, CurrentRun, RunStates, CiAssumption
<1>21. CASE Crash(i)
  BY <1>21 DEF Crash, Terminal
<1> QED BY <1>1, <1>2, <1>3, <1>4, <1>5, <1>6, <1>7, <1>8, <1>9, <1>10, <1>11, <1>12,
     <1>13, <1>14, <1>15, <1>16, <1>17, <1>18, <1>19, <1>20, <1>21 DEF InvocationStep

(* A context that has a current run keeps having one.                        *)
LEMMA CurrentsRemain ==
  ASSUME CiAssumption, CiInv, NEW i \in Invocations, InvocationStep(i) \/ Crash(i)
  PROVE  \A c \in Contexts : current[c] # Nobody => current'[c] # Nobody
<1> USE DEF CiAssumption, CiInv, CiTyped, Goto, Failing, authorityVars, diskVars,
     localVars, readerVars
<1>1. CASE Begin(i)
  BY <1>1 DEF Begin, CurrentRun, RunStates
<1>2. CASE RequireConfiguredSourceIdentity(i)
  BY <1>2 DEF RequireConfiguredSourceIdentity
<1>3. CASE ResolveCurrent(i)
  BY <1>3 DEF ResolveCurrent
<1>4. CASE StartJob(i)
  BY <1>4 DEF StartJob, VerifyExecutionBinding
<1>5. CASE EndJob(i)
  BY <1>5 DEF EndJob, VerifyExecutionBinding
<1>6. CASE RequireFresh(i)
  BY <1>6 DEF RequireFresh
<1>7. CASE AcquireLock(i)
  BY <1>7 DEF AcquireLock
<1>8. CASE ArchiveLegacyCiLatest(i)
  BY <1>8 DEF ArchiveLegacyCiLatest
<1>9. CASE Verify(i)
  BY <1>9 DEF Verify, VerifyPublicationAuthorities
<1>10. CASE StageGeneration(i)
  BY <1>10 DEF StageGeneration
<1>11. CASE WriteAndVerifyStaged(i)
  BY <1>11 DEF WriteAndVerifyStaged
<1>12. CASE RenameGeneration(i)
  BY <1>12 DEF RenameGeneration
<1>13. CASE CreateLatestPointer(i)
  BY <1>13 DEF CreateLatestPointer
<1>14. CASE SwitchLatestPointer(i)
  BY <1>14 DEF SwitchLatestPointer
<1>15. CASE Finalize(i)
  BY <1>15 DEF Finalize, CurrentRun, RunStates
<1>16. CASE ReconcileFinalization(i)
  BY <1>16 DEF ReconcileFinalization, RequireFinalized
<1>17. CASE Confirm(i)
  BY <1>17 DEF Confirm, RequireFinalized
<1>18. CASE Unwind(i)
  BY <1>18 DEF Unwind
<1>19. CASE SealAttempt(i)
  BY <1>19 DEF SealAttempt
<1>20. CASE CompleteCurrentRun(i)
  BY <1>20 DEF CompleteCurrentRun, CurrentRun, RunStates
<1>21. CASE Crash(i)
  BY <1>21 DEF Crash, Terminal
<1> QED BY <1>1, <1>2, <1>3, <1>4, <1>5, <1>6, <1>7, <1>8, <1>9, <1>10, <1>11, <1>12,
     <1>13, <1>14, <1>15, <1>16, <1>17, <1>18, <1>19, <1>20, <1>21 DEF InvocationStep

(* Only the holder of the lock moves latest, to itself or to nothing.        *)
LEMMA OthersKeepNames ==
  ASSUME CiAssumption, CiInv, NEW i \in Invocations, InvocationStep(i) \/ Crash(i)
  PROVE  \A x \in Invocations : x # i =>
           /\ latest' = x => latest = x
           /\ lock = x => lock' = x /\ (latest = x => latest' = x)
<1> USE DEF CiAssumption, CiInv, CiTyped, NameFits, Locked, Goto, Failing,
     authorityVars, diskVars, localVars, readerVars
<1>1. CASE Begin(i)
  BY <1>1 DEF Begin
<1>2. CASE RequireConfiguredSourceIdentity(i)
  BY <1>2 DEF RequireConfiguredSourceIdentity
<1>3. CASE ResolveCurrent(i)
  BY <1>3 DEF ResolveCurrent
<1>4. CASE StartJob(i)
  BY <1>4 DEF StartJob, VerifyExecutionBinding
<1>5. CASE EndJob(i)
  BY <1>5 DEF EndJob, VerifyExecutionBinding
<1>6. CASE RequireFresh(i)
  BY <1>6 DEF RequireFresh
<1>7. CASE AcquireLock(i)
  BY <1>7 DEF AcquireLock
<1>8. CASE ArchiveLegacyCiLatest(i)
  BY <1>8 DEF ArchiveLegacyCiLatest
<1>9. CASE Verify(i)
  BY <1>9 DEF Verify, VerifyPublicationAuthorities
<1>10. CASE StageGeneration(i)
  BY <1>10 DEF StageGeneration
<1>11. CASE WriteAndVerifyStaged(i)
  BY <1>11 DEF WriteAndVerifyStaged
<1>12. CASE RenameGeneration(i)
  BY <1>12 DEF RenameGeneration
<1>13. CASE CreateLatestPointer(i)
  BY <1>13 DEF CreateLatestPointer
<1>14. CASE SwitchLatestPointer(i)
  BY <1>14 DEF SwitchLatestPointer
<1>15. CASE Finalize(i)
  BY <1>15 DEF Finalize
<1>16. CASE ReconcileFinalization(i)
  BY <1>16 DEF ReconcileFinalization, RequireFinalized
<1>17. CASE Confirm(i)
  BY <1>17 DEF Confirm, RequireFinalized
<1>18. CASE Unwind(i)
  BY <1>18 DEF Unwind
<1>19. CASE SealAttempt(i)
  BY <1>19 DEF SealAttempt
<1>20. CASE CompleteCurrentRun(i)
  BY <1>20 DEF CompleteCurrentRun
<1>21. CASE Crash(i)
  BY <1>21 DEF Crash, Terminal
<1> QED BY <1>1, <1>2, <1>3, <1>4, <1>5, <1>6, <1>7, <1>8, <1>9, <1>10, <1>11, <1>12,
     <1>13, <1>14, <1>15, <1>16, <1>17, <1>18, <1>19, <1>20, <1>21 DEF InvocationStep

(* A generation is anchored by Finalize alone: whole, named by latest, while *)
(* its publisher holds the lock, and with a receipt for every job.           *)
LEMMA Anchoring ==
  ASSUME CiAssumption, CiInv, NEW i \in Invocations, InvocationStep(i) \/ Crash(i),
         i \in manifests' \ manifests
  PROVE  /\ gens[i] = "published" /\ latest = i /\ lock = i
         /\ \A j \in 1 .. NJobs : <<i, j, i>> \in attested
<1>1. Finalize(i)
    BY DEF InvocationStep, Failing, authorityVars, Begin,
       RequireConfiguredSourceIdentity, ResolveCurrent, StartJob, EndJob, RequireFresh,
       AcquireLock, ArchiveLegacyCiLatest, Verify, StageGeneration,
       WriteAndVerifyStaged, RenameGeneration, CreateLatestPointer, SwitchLatestPointer,
       ReconcileFinalization, Confirm, Unwind, SealAttempt, CompleteCurrentRun, Crash
<1>2. gens[i] = "published" /\ latest = i /\ lock = i
  BY <1>1 DEF Finalize, CiInv, DirectoryFits, NameFits, Whole, Locked
<1>3. \A j \in 1 .. NJobs : <<i, j, i>> \in attested
  BY <1>1 DEF Finalize, Failing, authorityVars
<1> QED BY <1>2, <1>3

(* Every step of an invocation keeps the invariant.                          *)
LEMMA InvocationKeeps ==
  ASSUME CiAssumption, CiInv, NEW i \in Invocations, InvocationStep(i) \/ Crash(i)
  PROVE  CiInv'
<1>1. CiTyped'
  BY CiTypedStep
<1>2. ASSUME NEW x \in Invocations
      PROVE  Progressed(x)' /\ DirectoryFits(x)' /\ NameFits(x)'
  <2>1. CASE x = i
    BY <2>1, OwnFits
  <2>2. CASE x # i
    <3>1. Progressed(x)'
      BY <2>2, CiFrame, CurrentsRemain DEF CiInv, CiTyped, Progressed, Executing
    <3>2. DirectoryFits(x)'
      BY <2>2, CiFrame DEF CiInv, DirectoryFits
    <3>3. NameFits(x)'
      BY <2>2, CiFrame, OthersKeepNames DEF CiInv, NameFits, Locked
    <3> QED BY <3>1, <3>2, <3>3
  <2> QED BY <2>1, <2>2
<1>3. CurrentRunsFit'
  BY RunsFitStep
<1>4. ManifestsAreAttested'
  <2>1. ASSUME NEW x \in manifests', NEW j \in 1 .. NJobs
        PROVE  <<x, j, x>> \in attested
    <3>1. CASE x \in manifests
      BY <3>1 DEF CiInv, ManifestsAreAttested
    <3>2. CASE x \notin manifests
      BY <3>2, <1>1, CiFrame, Anchoring DEF CiTyped
    <3> QED BY <3>1, <3>2
  <2> QED BY <2>1, CiFrame DEF ManifestsAreAttested
<1>5. ReadersFit'
  <2> SUFFICES ASSUME NEW r \in Readers,
                      rpc[r] \in {"latest", "read", "again", "last", "returned"}
               PROVE  /\ rrun[r] \in manifests' /\ ctx[rrun[r]] = ctx[r]
                      /\ source'[rrun[r]] = rsource[r]
    BY CiFrame DEF ReadersFit, readerVars
  <2>1. rrun[r] \in manifests /\ ctx[rrun[r]] = ctx[r] /\ source[rrun[r]] = rsource[r]
    BY DEF CiInv, ReadersFit
  <2>2. pc[rrun[r]] # "idle"
    BY <2>1 DEF CiInv, CiTyped, NameFits, Unnamed, Bare, Executing
  <2> QED BY <2>1, <2>2, CiFrame DEF CiInv, CiTyped
<1> QED BY <1>1, <1>2, <1>3, <1>4, <1>5 DEF CiInv

(* Readers write nothing but their own places, and what they carry is so.    *)
LEMMA ReadersKeep ==
  ASSUME CiAssumption, CiInv, NEW r \in Readers, LoadPublishedCiGeneration(r)
  PROVE  CiInv' /\ manifests' = manifests
<1> USE DEF CiInv, CiTyped, ReaderStep, authorityVars, diskVars, localVars
<1>1. CASE ResolveSuccessfulCurrentRun(r)
  <2>1. CiTyped' /\ UNCHANGED <<tree, ctx, authorityVars, diskVars, pc, localVars>>
    BY <1>1 DEF ResolveSuccessfulCurrentRun, OfWantedSource
  <2>2. ReadersFit'
        BY <1>1 DEF ResolveSuccessfulCurrentRun, OfWantedSource, ReadersFit,
         CurrentRunsFit, RunStates
    <2> QED BY <2>1, <2>2 DEF Progressed, DirectoryFits, NameFits, CurrentRunsFit,
       ManifestsAreAttested
<1>2. CASE ReadLatest(r) \/ ReadGeneration(r) \/ RecheckLatest(r) \/ ReturnGeneration(r)
  <2>1. CiTyped' /\ UNCHANGED <<tree, ctx, authorityVars, diskVars, pc, localVars, rrun, rsource>>
    BY <1>2 DEF ReadLatest, ReadGeneration, RecheckLatest, ReturnGeneration
  <2>2. ReadersFit'
    BY <1>2 DEF ReadLatest, ReadGeneration, RecheckLatest, ReturnGeneration, ReadersFit
    <2> QED BY <2>1, <2>2 DEF Progressed, DirectoryFits, NameFits, CurrentRunsFit,
       ManifestsAreAttested
<1> QED BY <1>1, <1>2 DEF LoadPublishedCiGeneration

(* The invariant holds at first.                                             *)
LEMMA CiInvInit ==
  ASSUME CiAssumption, CiInit
  PROVE  CiInv
<1> USE DEF CiAssumption, CiInit
<1>1. CiTyped
  BY DEF CiTyped, Places, Unnamed, Bare, Executing
<1>2. \A i \in Invocations : Progressed(i) /\ DirectoryFits(i) /\ NameFits(i)
  BY DEF Progressed, DirectoryFits, NameFits, Executing, Bare, Unnamed, Whole, Locked
<1>3. CurrentRunsFit /\ ManifestsAreAttested /\ ReadersFit
  BY DEF CurrentRunsFit, ManifestsAreAttested, ReadersFit
<1> QED BY <1>1, <1>2, <1>3 DEF CiInv

(* The steps of the system keep it.                                          *)
LEMMA CiInvStep ==
  ASSUME CiAssumption, CiInv, [CiNext]_ciVars
  PROVE  CiInv'
<1>1. CASE \E i \in Invocations : InvocationStep(i) \/ Crash(i)
  BY <1>1, InvocationKeeps
<1>2. CASE \E r \in Readers : LoadPublishedCiGeneration(r)
  BY <1>2, ReadersKeep
<1>3. CASE EditSource \/ UNCHANGED ciVars
    BY <1>3 DEF EditSource, ciVars, CiAssumption, authorityVars, diskVars, localVars,
       readerVars,
     CiInv, CiTyped, Progressed, DirectoryFits, NameFits, CurrentRunsFit, ManifestsAreAttested,
     ReadersFit
<1> QED BY <1>1, <1>2, <1>3 DEF CiNext

(* ... and anchor only what is named, whole and locked.                      *)
LEMMA AnchoredStep ==
  ASSUME CiAssumption, CiInv, [CiNext]_ciVars
  PROVE  \A i \in Invocations : i \in manifests' \ manifests =>
           gens[i] = "published" /\ latest = i /\ lock = i
<1> SUFFICES ASSUME NEW i \in Invocations, i \in manifests' \ manifests
             PROVE  gens[i] = "published" /\ latest = i /\ lock = i
  OBVIOUS
<1>1. CASE \E x \in Invocations : InvocationStep(x) \/ Crash(x)
  BY <1>1, CiFrame, Anchoring
<1>2. CASE \E r \in Readers : LoadPublishedCiGeneration(r)
  BY <1>2, ReadersKeep
<1>3. CASE EditSource \/ UNCHANGED ciVars
  BY <1>3 DEF EditSource, ciVars, authorityVars
<1> QED BY <1>1, <1>2, <1>3 DEF CiNext

(* The invariant gives what readers and later publishers rely on.            *)
LEMMA CiInvImplies ==
  ASSUME CiInv
  PROVE  /\ CiTypeOK /\ NamedGenerationsAreWhole /\ LoadedEvidenceIsTheRuns
         /\ FailedPublicationsAreWithdrawn /\ RecordedFailuresAreSealed
<1>1. CiTypeOK
  BY DEF CiInv, CiTyped, CiTypeOK
<1>2. NamedGenerationsAreWhole
  BY DEF CiInv, NameFits, NamedGenerationsAreWhole
<1>3. LoadedEvidenceIsTheRuns
    BY DEF CiInv, CiTyped, ReadersFit, NameFits, ManifestsAreAttested,
       LoadedEvidenceIsTheRuns
<1>4. FailedPublicationsAreWithdrawn
  BY DEF CiInv, CiTyped, DirectoryFits, NameFits, FailedPublicationsAreWithdrawn
<1>5. RecordedFailuresAreSealed
  BY DEF CiInv, CurrentRunsFit, RecordedFailuresAreSealed
<1> QED BY <1>1, <1>2, <1>3, <1>4, <1>5

(* What CI runs leave behind, for any invocations, readers, contexts, jobs   *)
(* and edits, wherever an invocation is killed and whatever remote call is   *)
(* lost: latest and the authority name whole generations only, readers get   *)
(* the evidence of the current run, failed publications are withdrawn,       *)
(* recorded failures are sealed, and the authority anchors what latest names.*)
THEOREM PublicationsAreSoundAlways ==
  ASSUME CiAssumption
  PROVE  CiSpec => PublicationsAreSound
<1>1. CiInit => CiInv
  BY CiInvInit
<1>2. CiInv /\ [CiNext]_ciVars => CiInv'
  BY CiInvStep
<1>3. CiInv => /\ CiTypeOK /\ NamedGenerationsAreWhole /\ LoadedEvidenceIsTheRuns
               /\ FailedPublicationsAreWithdrawn /\ RecordedFailuresAreSealed
  BY CiInvImplies
<1>4. CiInv /\ [CiNext]_ciVars =>
        [\A i \in Invocations : i \in manifests' \ manifests =>
           gens[i] = "published" /\ latest = i /\ lock = i]_ciVars
  BY AnchoredStep
<1> QED BY <1>1, <1>2, <1>3, <1>4, PTL DEF CiSpec, PublicationsAreSound,
     AnchoredWhileNamed
=============================================================================
