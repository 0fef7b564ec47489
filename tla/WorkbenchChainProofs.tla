------------------------ MODULE WorkbenchChainProofs ------------------------
(***************************************************************************)
(* Proofs about WorkbenchChain, for any calls, approvals, executions and    *)
(* chains of corrections, any chain length and any number of failures and   *)
(* process deaths.                                                          *)
(***************************************************************************)
EXTENDS WorkbenchChain, FiniteSetTheorems, TLAPS

(***************************************************************************)
(* The inductive invariant.                                                 *)
(***************************************************************************)

\* A call has touched nothing the store keeps beyond its queued row.
Before == {"idle", "queue", "claim", "abandon"}

MirrorFile ==
    [call : Calls, state : {"running", "completed", "failed", "torn"},
     outputs : Nat]

ChainTypeOK ==
    /\ pc \in [Calls -> Active \cup {"idle", "raised", "returned", "dead"}]
    /\ committed \in [Calls -> Nat]
    /\ run \in [Calls -> {"none", "queued", "running"} \cup Terminal]
    /\ rows \in [Calls -> Nat]
    /\ number \in [Calls -> [Positions -> Nat]]
    /\ head \in [Calls -> [Positions -> Nat]]
    /\ spent \in [Approvals -> Calls \cup {NoCall}]
    /\ claimed \in [Executions -> Calls \cup {NoCall}]
    /\ mirror \in [Executions -> MirrorFile \cup {NoFile}]
    /\ archived \in BOOLEAN
    /\ faults \in Nat
    /\ crashes \in Nat

Owns(c) == claimed[ExecutionOf[c]] = c

\* The Versions of c are the first n of its chain.
Filled(c, n) == \A k \in Positions : number[c][k] # 0 <=> k <= n

OwnMirror(c) == MirrorOf(c) # NoFile /\ MirrorOf(c).call = c

\* An execution row names a call bound to it that spent its approval, and a
\* mirror file names the call that owns the row.
ClaimsBind ==
    \A e \in Executions :
        /\ claimed[e] # NoCall =>
              /\ ExecutionOf[claimed[e]] = e
              /\ spent[ApprovalOf[claimed[e]]] = claimed[e]
        /\ mirror[e] # NoFile => mirror[e].call = claimed[e]

NothingYet(c) ==
    pc[c] \in Before =>
        ~Owns(c) /\ committed[c] = 0 /\ rows[c] = 0 /\ Filled(c, 0)

Opening(c) ==
    pc[c] \in {"open", "openFailed"} =>
        /\ Owns(c) /\ committed[c] = 0 /\ rows[c] = 0 /\ Filled(c, 0)

\* What the two records say at each step of publishing.
InStep(c) ==
    pc[c] \in Publishing =>
        /\ Owns(c)
        /\ MirrorOf(c) # NoFile
        /\ MirrorOf(c).state =
              (IF pc[c] = "completeRow" THEN "completed" ELSE "running")
        /\ pc[c] = "completeRow" => MirrorOf(c).outputs = ChainLength
        /\ Filled(c, committed[c])
        /\ committed[c] <= ChainLength
        /\ IF pc[c] = "append" THEN committed[c] = rows[c] + 1
                               ELSE committed[c] = rows[c]
        /\ pc[c] = "inputs" => committed[c] = 0
        /\ pc[c] = "publish" => committed[c] < ChainLength
        /\ pc[c] \in {"completeMirror", "completeRow"} =>
              committed[c] = ChainLength

Failing(c) == pc[c] \in {"failRow", "failMirror"} => Owns(c) /\ MirrorOf(c) # NoFile

\* n Versions, of which at most the last lacks its row.
Chain(c, n) ==
    /\ Filled(c, n)
    /\ rows[c] <= n
    /\ n <= rows[c] + 1
    /\ committed[c] <= n
    /\ OwnMirror(c) => MirrorOf(c).outputs <= n

HasChain(c) == \E n \in 0..ChainLength : Chain(c, n)

OwnsItsChain(c) == Published(c) # {} => Owns(c) /\ MirrorOf(c) # NoFile

Whole(c) ==
    /\ rows[c] = ChainLength
    /\ Filled(c, ChainLength)

CompletedMirror(c) ==
    OwnMirror(c) /\ MirrorOf(c).state = "completed" =>
        Whole(c) /\ MirrorOf(c).outputs = ChainLength

CompletedRow(c) ==
    run[c] = "completed" =>
        /\ pc[c] = "returned"
        /\ OwnMirror(c)
        /\ MirrorOf(c).state = "completed"

CallInv(c) ==
    /\ NothingYet(c)
    /\ Opening(c)
    /\ InStep(c)
    /\ Failing(c)
    /\ HasChain(c)
    /\ OwnsItsChain(c)
    /\ CompletedMirror(c)
    /\ CompletedRow(c)

RecordInv == ChainTypeOK /\ ClaimsBind /\ \A c \in Calls : CallInv(c)

\* The generations of a lineage: a call appends to a target that was whole,
\* one above what the target committed at each position, and no two calls of
\* a lineage commit the same number.
OnWholeTarget(c) ==
    TargetOf[c] # NoCall /\ (pc[c] \in Active \/ Published(c) # {}) =>
        Filled(TargetOf[c], ChainLength)

Based(c) ==
    \A k \in Positions : number[c][k] # 0 => number[c][k] = Base(c, k) + 1

Uniform(c) ==
    \A j, k \in Positions :
        number[c][j] # 0 /\ number[c][k] # 0 => number[c][j] = number[c][k]

BelowHead(c) == \A k \in Positions : number[c][k] <= head[Lineage[c]][k]

ApartFrom(c, d) ==
    c # d /\ Lineage[c] = Lineage[d] =>
        \A k \in Positions : number[c][k] # 0 => number[c][k] # number[d][k]

HeadsAreCommitted ==
    \A l \in Calls : \A k \in Positions : head[l][k] # 0 =>
        \E d \in Calls : Lineage[d] = l /\ number[d][k] = head[l][k]

GenerationInv ==
    /\ \A c \in Calls : OnWholeTarget(c) /\ Based(c) /\ Uniform(c) /\ BelowHead(c)
    /\ \A c, d \in Calls : ApartFrom(c, d)
    /\ HeadsAreCommitted

(***************************************************************************)
(* Types.                                                                   *)
(***************************************************************************)

LEMMA ChainTypeInit == ASSUME ChainAssumption, Init PROVE ChainTypeOK
  BY DEF ChainAssumption, Init, ChainTypeOK

\* A Version appended at a position of the chain, or beyond it.
LEMMA AppendType ==
  ASSUME ChainAssumption, ChainTypeOK, NEW c \in Calls, AppendVersion(c)
  PROVE  /\ number' \in [Calls -> [Positions -> Nat]]
         /\ head' \in [Calls -> [Positions -> Nat]]
<1> DEFINE k == NextPosition(c)
           n == Base(c, k) + 1
<1>1. CASE k \in Positions
  <2>1. n \in Nat BY <1>1 DEF ChainAssumption, ChainTypeOK, Base
  <2>2. [number[c] EXCEPT ![k] = n] \in [Positions -> Nat]
    BY <2>1 DEF ChainTypeOK
  <2>3. Lineage[c] \in Calls /\ [head[Lineage[c]] EXCEPT ![k] = n] \in [Positions -> Nat]
    BY <2>1 DEF ChainTypeOK, ChainAssumption
  <2>4. /\ number' = [number EXCEPT ![c] = [number[c] EXCEPT ![k] = n]]
        /\ head' = [head EXCEPT ![Lineage[c]] = [head[Lineage[c]] EXCEPT ![k] = n]]
    BY DEF AppendVersion
  <2> HIDE DEF n, k
  <2> QED BY <2>2, <2>3, <2>4 DEF ChainTypeOK
<1>2. CASE k \notin Positions
  <2>1. [number[c] EXCEPT ![k] = n] = number[c] BY <1>2 DEF ChainTypeOK
  <2>2. Lineage[c] \in Calls /\ [head[Lineage[c]] EXCEPT ![k] = n] = head[Lineage[c]]
    BY <1>2 DEF ChainTypeOK, ChainAssumption
  <2>3. /\ number' = [number EXCEPT ![c] = [number[c] EXCEPT ![k] = n]]
        /\ head' = [head EXCEPT ![Lineage[c]] = [head[Lineage[c]] EXCEPT ![k] = n]]
    BY DEF AppendVersion
  <2> HIDE DEF n, k
  <2> QED BY <2>1, <2>2, <2>3 DEF ChainTypeOK
<1> QED BY <1>1, <1>2

LEMMA ChainTypeStep ==
  ASSUME ChainAssumption, ChainTypeOK, [Next]_vars
  PROVE  ChainTypeOK'
<1> USE DEF ChainAssumption, ChainTypeOK, At, Goto, Active, Publishing, Terminal,
            envVars, rowVars, versionVars
<1>1. ASSUME NEW c \in Calls, Begin(c) PROVE ChainTypeOK'
  BY <1>1 DEF Begin
<1>2. ASSUME NEW c \in Calls, Step(c) PROVE ChainTypeOK'
  <2>1. CASE QueueRun(c) BY <2>1 DEF QueueRun
  <2>2. CASE ClaimExecution(c) BY <2>2 DEF ClaimExecution
  <2>3. CASE ClaimRefused(c) BY <2>3 DEF ClaimRefused
  <2>4. CASE AbandonRun(c) BY <2>4 DEF AbandonRun, FinishFailed
  <2>5. CASE OpenRecord(c) 
    <3>1. File(c, "running") \in MirrorFile BY DEF File, MirrorFile
    <3>2. ExecutionOf[c] \in Executions OBVIOUS
    <3>3. \/ mirror' = mirror
          \/ mirror' = [mirror EXCEPT ![ExecutionOf[c]] = File(c, "running")]
      BY <2>5 DEF OpenRecord
    <3>4. mirror' \in [Executions -> MirrorFile \cup {NoFile}]
      BY <3>1, <3>2, <3>3
    <3> QED BY <2>5, <3>4 DEF OpenRecord
  <2>6. CASE FailOpening(c) BY <2>6 DEF FailOpening, FinishFailed
  <2>7. CASE PersistInputs(c) BY <2>7 DEF PersistInputs
  <2>8. CASE Publish(c)
    BY <2>8, AppendType DEF Publish
  <2>9. CASE PublishRefused(c) BY <2>9 DEF PublishRefused
  <2>10. CASE AppendRow(c)
    <3>1. CASE run[c] = "running"
      <4>1. /\ pc' = [pc EXCEPT ![c] = "mirror"]
            /\ rows' = [rows EXCEPT ![c] = rows[c] + 1]
            /\ UNCHANGED <<committed, run, spent, claimed, number, head, mirror,
                           archived, faults, crashes>>
        BY <2>10, <3>1 DEF AppendRow
      <4>2. pc' \in [Calls -> Active \cup {"idle", "raised", "returned", "dead"}]
        BY <4>1
      <4>3. rows' \in [Calls -> Nat]
        BY <4>1
      <4> QED BY <4>1, <4>2, <4>3
    <3>2. CASE run[c] # "running" BY <2>10, <3>2 DEF AppendRow
    <3> QED BY <3>1, <3>2
  <2>11. CASE RecordProgress(c) BY <2>11 DEF RecordProgress, WriteMirror, File, MirrorFile
  <2>12. CASE CompleteMirror(c) BY <2>12 DEF CompleteMirror, WriteMirror, File, MirrorFile
  <2>13. CASE CompleteRow(c) BY <2>13 DEF CompleteRow
  <2>14. CASE FailRow(c) BY <2>14 DEF FailRow, FinishFailed
  <2>15. CASE FailMirror(c) BY <2>15 DEF FailMirror, WriteMirror, File, MirrorFile
  <2> QED BY <1>2, <2>1, <2>2, <2>3, <2>4, <2>5, <2>6, <2>7, <2>8, <2>9, <2>10,
             <2>11, <2>12, <2>13, <2>14, <2>15 DEF Step
<1>3. ASSUME NEW c \in Calls, Failure(c) PROVE ChainTypeOK'
  <2>1. CASE OpenTorn(c) BY <2>1 DEF OpenTorn, File, MirrorFile
  <2>2. CASE PublishUnreported(c)
    BY <2>2, AppendType DEF PublishUnreported
  <2>3. CASE StepFails(c) BY <2>3 DEF StepFails, RaisesTo
  <2>4. CASE MirrorFlushFails(c)
    BY <2>4 DEF MirrorFlushFails, WriteMirror, File, MirrorFile
  <2> QED BY <1>3, <2>1, <2>2, <2>3, <2>4 DEF Failure
<1>4. ASSUME NEW c \in Calls, CancelRun(c) PROVE ChainTypeOK'
  BY <1>4 DEF CancelRun
<1>5. CASE Crash BY <1>5 DEF Crash
<1>6. CASE ArchiveProject BY <1>6 DEF ArchiveProject
<1>7. CASE UNCHANGED vars BY <1>7 DEF vars
<1> QED BY <1>1, <1>2, <1>3, <1>4, <1>5, <1>6, <1>7 DEF Next

(***************************************************************************)
(* What a step of one call leaves alone.                                    *)
(***************************************************************************)

\* A step of another call: d's own state is kept, its Run is not completed for
\* it, and the records of its execution change only if they are not d's.
Untouched(d) ==
    /\ pc'[d] = pc[d]
    /\ committed'[d] = committed[d]
    /\ rows'[d] = rows[d]
    /\ number'[d] = number[d]
    /\ run'[d] = "completed" => run[d] = "completed"
    /\ \/ /\ claimed'[ExecutionOf[d]] = claimed[ExecutionOf[d]]
          /\ mirror'[ExecutionOf[d]] = mirror[ExecutionOf[d]]
       \/ /\ ~Owns(d)
          /\ ~Owns(d)'
          /\ ~OwnMirror(d)
          /\ ~OwnMirror(d)'

LEMMA UntouchedKeeps ==
  ASSUME NEW d \in Calls, CallInv(d), Untouched(d)
  PROVE  CallInv(d)'
<1>1. \A n : Filled(d, n)' <=> Filled(d, n)
  BY DEF Untouched, Filled, Positions
<1>2. Published(d)' = Published(d)
  BY DEF Untouched, Published, Positions
<1>3. CASE /\ claimed'[ExecutionOf[d]] = claimed[ExecutionOf[d]]
           /\ mirror'[ExecutionOf[d]] = mirror[ExecutionOf[d]]
  <2>1. /\ MirrorOf(d)' = MirrorOf(d)
        /\ Owns(d)' <=> Owns(d)
        /\ OwnMirror(d)' <=> OwnMirror(d)
    BY <1>3 DEF MirrorOf, Owns, OwnMirror
  <2>2. \A n : Chain(d, n) => Chain(d, n)'
    BY <1>1, <2>1 DEF Chain, Untouched
  <2>3. HasChain(d)'
    BY <2>2 DEF CallInv, HasChain
  <2> QED BY <1>1, <1>2, <2>1, <2>3 DEF CallInv, Untouched, NothingYet, Opening, InStep,
             Failing, OwnsItsChain, CompletedMirror, CompletedRow, Whole
<1>4. CASE ~Owns(d) /\ ~Owns(d)' /\ ~OwnMirror(d) /\ ~OwnMirror(d)'
  <2>2. \A n : Chain(d, n) => Chain(d, n)'
    BY <1>1, <1>4 DEF Chain, Untouched
  <2>3. HasChain(d)'
    BY <2>2 DEF CallInv, HasChain
  <2> QED BY <1>1, <1>2, <1>4, <2>3 DEF CallInv, Untouched, NothingYet, Opening, InStep,
             Failing, OwnsItsChain, CompletedMirror, CompletedRow
<1> QED BY <1>3, <1>4 DEF Untouched

\* A call that owns its execution writes the mirror file: every other call is
\* none the wiser.
LEMMA MirrorWritten ==
  ASSUME ChainAssumption, ChainTypeOK, ClaimsBind,
         NEW c \in Calls, Owns(c),
         NEW state \in {"running", "completed", "failed", "torn"},
         mirror' = [mirror EXCEPT ![ExecutionOf[c]] = File(c, state)],
         UNCHANGED <<claimed, spent>>
  PROVE  /\ ClaimsBind'
         /\ MirrorOf(c)' = File(c, state)
         /\ OwnMirror(c)'
         /\ Owns(c)'
         /\ \A d \in Calls \ {c} :
               \/ /\ claimed'[ExecutionOf[d]] = claimed[ExecutionOf[d]]
                  /\ mirror'[ExecutionOf[d]] = mirror[ExecutionOf[d]]
               \/ ~Owns(d) /\ ~Owns(d)' /\ ~OwnMirror(d) /\ ~OwnMirror(d)'
<1>1. ExecutionOf[c] \in Executions BY DEF ChainAssumption
<1>2. mirror'[ExecutionOf[c]] = File(c, state)
  BY <1>1 DEF ChainTypeOK
<1>3. File(c, state).call = c BY DEF File
<1>4. ClaimsBind'
  BY <1>1, <1>2, <1>3 DEF ClaimsBind, ChainTypeOK, Owns
<1>5. File(c, state) # NoFile
  BY DEF ChainAssumption, ChainTypeOK, File
<1>6. MirrorOf(c)' = File(c, state) /\ OwnMirror(c)' /\ Owns(c)'
  BY <1>2, <1>3, <1>5 DEF MirrorOf, OwnMirror, Owns
<1>7. ASSUME NEW d \in Calls \ {c}
      PROVE  \/ /\ claimed'[ExecutionOf[d]] = claimed[ExecutionOf[d]]
                /\ mirror'[ExecutionOf[d]] = mirror[ExecutionOf[d]]
             \/ ~Owns(d) /\ ~Owns(d)' /\ ~OwnMirror(d) /\ ~OwnMirror(d)'
  <2>1. ExecutionOf[d] \in Executions BY DEF ChainAssumption
  <2>2. CASE ExecutionOf[d] = ExecutionOf[c]
    BY <1>2, <1>3, <2>1, <2>2 DEF Owns, OwnMirror, MirrorOf, ClaimsBind
  <2>3. CASE ExecutionOf[d] # ExecutionOf[c]
    BY <2>1, <2>3 DEF ChainTypeOK
  <2> QED BY <2>2, <2>3
<1> QED BY <1>4, <1>6, <1>7

(***************************************************************************)
(* The records, step by step.                                               *)
(***************************************************************************)

LEMMA RecordInit == ASSUME ChainAssumption, Init PROVE RecordInv
<1>1. ChainTypeOK BY ChainTypeInit
<1>2. ClaimsBind BY DEF Init, ClaimsBind
<1>3. ASSUME NEW c \in Calls PROVE CallInv(c)
  <2>1. /\ pc[c] = "idle" /\ committed[c] = 0 /\ rows[c] = 0 /\ run[c] = "none"
        /\ MirrorOf(c) = NoFile /\ ~Owns(c)
    BY DEF Init, ChainAssumption, MirrorOf, Owns
  <2>2. Filled(c, 0) /\ Published(c) = {}
    BY DEF Init, Filled, Published, Positions
  <2>3. Chain(c, 0) /\ 0 \in 0..ChainLength
    BY <2>1, <2>2 DEF Chain, OwnMirror, ChainAssumption
  <2> QED BY <2>1, <2>2, <2>3 DEF CallInv, NothingYet, Opening, InStep, Failing,
        HasChain, OwnsItsChain, CompletedMirror, CompletedRow, OwnMirror, Before,
        Publishing
<1> QED BY <1>1, <1>2, <1>3 DEF RecordInv

\* A step that moves c and perhaps its Run's state, and leaves rows, Versions,
\* claims and mirrors alone.
ControlStep(c, here, state) ==
    /\ UNCHANGED <<committed, rows, number, spent, claimed, mirror>>
    /\ pc' = [pc EXCEPT ![c] = here]
    /\ run' = [run EXCEPT ![c] = state]
    /\ state = "completed" => run[c] = "completed"
    /\ run[c] = "completed" => here = pc[c]
    /\ here \in Before => pc[c] \in Before
    /\ here \in {"open", "openFailed"} => pc[c] \in {"open", "openFailed"}
    /\ here \in {"failRow", "failMirror"} =>
          pc[c] \in Publishing \cup {"failRow", "failMirror"}
    /\ here \in Publishing =>
          here = pc[c] \/ (here = "publish" /\ pc[c] = "inputs")

LEMMA OnlyControl ==
  ASSUME ChainAssumption, RecordInv, NEW c \in Calls,
         NEW here, NEW state, ControlStep(c, here, state)
  PROVE  /\ ClaimsBind'
         /\ \A d \in Calls : CallInv(d)'
<1> USE DEF ControlStep
<1>1. ClaimsBind' BY DEF RecordInv, ClaimsBind
<1>2. ASSUME NEW d \in Calls, d # c PROVE CallInv(d)'
  <2>1. Untouched(d)
    BY <1>2 DEF Untouched, RecordInv, ChainTypeOK
  <2> QED BY <2>1, UntouchedKeeps DEF RecordInv
<1>3. CallInv(c)'
  <2>1. /\ pc'[c] = here
        /\ run'[c] = state
    BY DEF RecordInv, ChainTypeOK
  <2>2. /\ MirrorOf(c)' = MirrorOf(c)
        /\ Owns(c)' <=> Owns(c)
        /\ OwnMirror(c)' <=> OwnMirror(c)
        /\ \A n : Filled(c, n)' <=> Filled(c, n)
        /\ Published(c)' = Published(c)
    BY DEF MirrorOf, Owns, OwnMirror, Filled, Published
  <2>3. \A n : Chain(c, n) => Chain(c, n)'
    BY <2>2 DEF Chain
  <2>4. HasChain(c)'
    BY <2>3 DEF RecordInv, CallInv, HasChain
  <2>5. CallInv(c) /\ ChainLength \in Nat \ {0}
    BY DEF RecordInv, ChainAssumption
  <2>6. NothingYet(c)' BY <2>1, <2>2, <2>5 DEF CallInv, NothingYet
  <2>7. Opening(c)' BY <2>1, <2>2, <2>5 DEF CallInv, Opening
  <2>8. InStep(c)'
    BY <2>1, <2>2, <2>5 DEF CallInv, InStep, Publishing
  <2>9. Failing(c)' BY <2>1, <2>2, <2>5 DEF CallInv, InStep, Failing
  <2>10. OwnsItsChain(c)' /\ CompletedMirror(c)' /\ CompletedRow(c)'
    BY <2>1, <2>2, <2>5 DEF CallInv, OwnsItsChain, CompletedMirror, CompletedRow, Whole
  <2> QED BY <2>4, <2>6, <2>7, <2>8, <2>9, <2>10 DEF CallInv
<1> QED BY <1>1, <1>2, <1>3

LEMMA ControlSteps ==
  ASSUME ChainAssumption, RecordInv, NEW c \in Calls,
         \/ Begin(c) \/ QueueRun(c) \/ ClaimRefused(c) \/ AbandonRun(c)
         \/ FailOpening(c) \/ PersistInputs(c) \/ PublishRefused(c) \/ FailRow(c)
         \/ StepFails(c) \/ CancelRun(c)
         \/ OpenRecord(c) /\ MirrorOf(c) # NoFile
         \/ AppendRow(c) /\ run[c] # "running"
         \/ CompleteRow(c) /\ run[c] # "running"
  PROVE  ClaimsBind' /\ \A d \in Calls : CallInv(d)'
<1>1. /\ pc = [pc EXCEPT ![c] = pc[c]]
      /\ run = [run EXCEPT ![c] = run[c]]
      /\ run[c] = "completed" => pc[c] = "returned"
  BY DEF RecordInv, ChainTypeOK, CallInv, CompletedRow, Active, Publishing, Terminal
<1> USE DEF At, Goto, rowVars, versionVars, envVars
<1>2. CASE Begin(c)
  <2>1. PICK here \in {"raised", "queue"} :
           pc[c] = "idle" /\ pc' = [pc EXCEPT ![c] = here]
    BY <1>2 DEF Begin
  <2>2. UNCHANGED <<committed, run, rows, number, spent, claimed, mirror>>
    BY <1>2 DEF Begin
  <2>3. ControlStep(c, here, run[c])
    BY <1>1, <2>1, <2>2 DEF ControlStep, Before, Publishing
  <2> QED BY <2>3, OnlyControl
<1>3. CASE QueueRun(c)
  <2>1. PICK here \in {"raised", "claim"}, state \in {run[c], "queued"} :
           /\ pc[c] = "queue"
           /\ pc' = [pc EXCEPT ![c] = here]
           /\ run' = [run EXCEPT ![c] = state]
    BY <1>1, <1>3 DEF QueueRun
  <2>2. UNCHANGED <<committed, rows, number, spent, claimed, mirror>>
    BY <1>3 DEF QueueRun
  <2>3. ControlStep(c, here, state)
    BY <1>1, <2>1, <2>2 DEF ControlStep, Before, Publishing
  <2> QED BY <2>3, OnlyControl
<1>4. CASE ClaimRefused(c)
  <2>1. /\ pc[c] = "claim" /\ pc' = [pc EXCEPT ![c] = "abandon"]
        /\ UNCHANGED <<committed, run, rows, number, spent, claimed, mirror>>
    BY <1>4 DEF ClaimRefused
  <2>3. ControlStep(c, "abandon", run[c])
    BY <1>1, <2>1 DEF ControlStep, Before, Publishing
  <2> QED BY <2>3, OnlyControl
<1>5. CASE AbandonRun(c) \/ FailOpening(c) \/ FailRow(c)
  <2>1. PICK here \in {"raised", "failMirror"}, state \in {run[c], "failed"} :
           /\ pc[c] # "returned"
           /\ here = "failMirror" => pc[c] = "failRow"
           /\ pc' = [pc EXCEPT ![c] = here]
           /\ run' = [run EXCEPT ![c] = state]
    BY <1>1, <1>5 DEF AbandonRun, FailOpening, FailRow, FinishFailed
  <2>2. UNCHANGED <<committed, rows, number, spent, claimed, mirror>>
    BY <1>5 DEF AbandonRun, FailOpening, FailRow
  <2>3. ControlStep(c, here, state)
    BY <1>1, <2>1, <2>2 DEF ControlStep, Before, Publishing
  <2> QED BY <2>3, OnlyControl
<1>6. CASE \/ PersistInputs(c) \/ PublishRefused(c)
           \/ AppendRow(c) /\ run[c] # "running"
           \/ CompleteRow(c) /\ run[c] # "running"
  <2>1. PICK here \in {"failRow", "publish"} :
           /\ pc[c] \in Publishing
           /\ here = "publish" => pc[c] = "inputs"
           /\ pc' = [pc EXCEPT ![c] = here]
           /\ UNCHANGED <<committed, run, rows, number, spent, claimed, mirror>>
    BY <1>6 DEF PersistInputs, PublishRefused, AppendRow, CompleteRow, Publishing
  <2>3. ControlStep(c, here, run[c])
    BY <1>1, <2>1 DEF ControlStep, Before, Publishing
  <2> QED BY <2>3, OnlyControl
<1>7. CASE OpenRecord(c) /\ MirrorOf(c) # NoFile
  <2>1. /\ pc[c] = "open" /\ pc' = [pc EXCEPT ![c] = "openFailed"]
        /\ UNCHANGED <<committed, run, rows, number, spent, claimed, mirror>>
    BY <1>7 DEF OpenRecord
  <2>3. ControlStep(c, "openFailed", run[c])
    BY <1>1, <2>1 DEF ControlStep, Before, Publishing
  <2> QED BY <2>3, OnlyControl
<1>8. CASE StepFails(c)
  <2>1. PICK here \in {"failRow", "openFailed", "failMirror", "raised"} :
           /\ pc[c] # "returned"
           /\ here = "openFailed" => pc[c] = "open"
           /\ here \in {"failRow", "failMirror"} => pc[c] \in Publishing \cup {"failRow"}
           /\ pc' = [pc EXCEPT ![c] = here]
    BY <1>8 DEF StepFails, RaisesTo, Active, Publishing
  <2>2. UNCHANGED <<committed, run, rows, number, spent, claimed, mirror>>
    BY <1>8 DEF StepFails
  <2>3. ControlStep(c, here, run[c])
    BY <1>1, <2>1, <2>2 DEF ControlStep, Before, Publishing
  <2> QED BY <2>3, OnlyControl
<1>9. CASE CancelRun(c)
  <2>1. /\ run' = [run EXCEPT ![c] = "cancelled"] /\ run[c] # "completed"
        /\ UNCHANGED <<pc, committed, rows, number, spent, claimed, mirror>>
    BY <1>9 DEF CancelRun
  <2>3. ControlStep(c, pc[c], "cancelled")
    BY <1>1, <2>1 DEF ControlStep, Before, Publishing
  <2> QED BY <2>3, OnlyControl
<1> QED BY <1>2, <1>3, <1>4, <1>5, <1>6, <1>7, <1>8, <1>9

LEMMA ClaimStep ==
  ASSUME ChainAssumption, RecordInv, NEW c \in Calls, ClaimExecution(c)
  PROVE  ClaimsBind' /\ \A d \in Calls : CallInv(d)'
<1> DEFINE e == ExecutionOf[c]
<1>1. /\ pc[c] = "claim" /\ pc' = [pc EXCEPT ![c] = "open"]
      /\ spent[ApprovalOf[c]] = NoCall /\ claimed[e] = NoCall
      /\ spent' = [spent EXCEPT ![ApprovalOf[c]] = c]
      /\ claimed' = [claimed EXCEPT ![e] = c]
      /\ run' = [run EXCEPT ![c] = "running"]
      /\ UNCHANGED <<committed, rows, number, mirror>>
  BY DEF ClaimExecution, ClaimAccepted, At, Goto, versionVars
<1>2. e \in Executions /\ ApprovalOf[c] \in Approvals /\ NoCall \notin Calls
  BY DEF ChainAssumption
<1>3. mirror[e] = NoFile
  BY <1>1, <1>2 DEF RecordInv, ClaimsBind, ChainTypeOK, MirrorFile
<1>4. ClaimsBind'
  <2> SUFFICES ASSUME NEW x \in Executions
               PROVE  /\ claimed'[x] # NoCall =>
                            /\ ExecutionOf[claimed'[x]] = x
                            /\ spent'[ApprovalOf[claimed'[x]]] = claimed'[x]
                      /\ mirror'[x] # NoFile => mirror'[x].call = claimed'[x]
    BY DEF ClaimsBind
  <2>1. CASE x = e BY <1>1, <1>2, <1>3, <2>1 DEF RecordInv, ChainTypeOK
  <2>2. CASE x # e
    BY <1>1, <1>2, <2>2 DEF RecordInv, ChainTypeOK, ClaimsBind
  <2> QED BY <2>1, <2>2
<1>5. ASSUME NEW d \in Calls, d # c PROVE CallInv(d)'
  <2>1. ExecutionOf[d] \in Executions BY DEF ChainAssumption
  <2>2. CASE ExecutionOf[d] = e
    BY <1>1, <1>2, <1>3, <1>5, <2>1, <2>2, UntouchedKeeps
       DEF Untouched, RecordInv, ChainTypeOK, Owns, OwnMirror, MirrorOf
  <2>3. CASE ExecutionOf[d] # e
    BY <1>1, <1>2, <1>5, <2>1, <2>3, UntouchedKeeps DEF Untouched, RecordInv, ChainTypeOK
  <2> QED BY <2>2, <2>3
<1>6. CallInv(c)'
  <2>1. /\ pc'[c] = "open" /\ run'[c] = "running" /\ Owns(c)'
        /\ ~OwnMirror(c)' /\ MirrorOf(c)' = NoFile
    BY <1>1, <1>2, <1>3 DEF RecordInv, ChainTypeOK, Owns, OwnMirror, MirrorOf
  <2>2. /\ committed[c] = 0 /\ rows[c] = 0 /\ Filled(c, 0)
    BY <1>1 DEF RecordInv, CallInv, NothingYet, Before
  <2>3. Filled(c, 0)' /\ Published(c)' = {}
    BY <1>1, <2>2 DEF Filled, Published, Positions
  <2>4. Chain(c, 0)' /\ 0 \in 0..ChainLength
    BY <1>1, <2>1, <2>2, <2>3 DEF Chain, ChainAssumption
  <2> QED BY <1>1, <2>1, <2>2, <2>3, <2>4 DEF CallInv, NothingYet, Opening, InStep,
          Failing, HasChain, OwnsItsChain, CompletedMirror, CompletedRow, Before,
          Publishing
<1> QED BY <1>4, <1>5, <1>6

\* A step that writes the mirror of its own execution and moves on.
WritesMirror(c, here, state) ==
    /\ Owns(c)
    /\ mirror' = [mirror EXCEPT ![ExecutionOf[c]] = File(c, state)]
    /\ pc' = [pc EXCEPT ![c] = here]
    /\ UNCHANGED <<committed, run, rows, number, spent, claimed>>
    /\ pc[c] # "returned"
    /\ \/ here \notin Before \cup {"open", "inputs", "append", "mirror"}
       \/ here = "inputs" /\ pc[c] = "open"
    /\ here = "openFailed" => pc[c] = "open"
    /\ here \in Publishing =>
          /\ Filled(c, committed[c])
          /\ committed[c] = rows[c]
          /\ committed[c] <= ChainLength
          /\ here \in {"inputs", "publish", "completeMirror"} => state = "running"
          /\ here = "completeRow" => state = "completed"
          /\ here = "publish" => committed[c] < ChainLength
          /\ here \in {"completeMirror", "completeRow"} => committed[c] = ChainLength
    /\ state = "completed" => Whole(c) /\ committed[c] = ChainLength

LEMMA MirrorStep ==
  ASSUME ChainAssumption, RecordInv, NEW c \in Calls,
         NEW here, NEW state \in {"running", "completed", "failed", "torn"},
         WritesMirror(c, here, state)
  PROVE  ClaimsBind' /\ \A d \in Calls : CallInv(d)'
<1> USE DEF RecordInv, WritesMirror
<1>1. /\ ClaimsBind'
      /\ MirrorOf(c)' = File(c, state)
      /\ OwnMirror(c)'
      /\ Owns(c)'
      /\ \A d \in Calls \ {c} :
            \/ /\ claimed'[ExecutionOf[d]] = claimed[ExecutionOf[d]]
               /\ mirror'[ExecutionOf[d]] = mirror[ExecutionOf[d]]
            \/ ~Owns(d) /\ ~Owns(d)' /\ ~OwnMirror(d) /\ ~OwnMirror(d)'
  BY MirrorWritten
<1>2. ASSUME NEW d \in Calls, d # c PROVE CallInv(d)'
  BY <1>1, <1>2, UntouchedKeeps DEF Untouched, ChainTypeOK
<1>3. CallInv(c)'
  <2>1. /\ pc'[c] = here
        /\ File(c, state).state = state
        /\ File(c, state).outputs = committed[c]
        /\ MirrorOf(c)' # NoFile
    BY <1>1 DEF ChainTypeOK, File, OwnMirror
  <2>2. /\ \A n : Filled(c, n)' <=> Filled(c, n)
        /\ Published(c)' = Published(c)
        /\ Whole(c)' <=> Whole(c)
    BY DEF Filled, Published, Whole
  <2>3. CallInv(c) /\ ChainLength \in Nat \ {0}
    BY DEF ChainAssumption
  <2>4. \A n : Chain(c, n) => Chain(c, n)'
    BY <1>1, <2>1, <2>2 DEF Chain
  <2>5. HasChain(c)'
    BY <2>3, <2>4 DEF CallInv, HasChain
  <2>6. NothingYet(c)' BY <2>1 DEF NothingYet, Before
  <2>7. Opening(c)'
    BY <1>1, <2>1, <2>2, <2>3 DEF CallInv, Opening, Before
  <2>8. InStep(c)'
    <3>1. here = "inputs" => committed[c] = 0
      BY <2>3 DEF CallInv, Opening, Before
    <3> QED BY <1>1, <2>1, <2>2, <3>1 DEF InStep, Publishing
  <2>9. Failing(c)' /\ OwnsItsChain(c)' BY <1>1, <2>1 DEF Failing, OwnsItsChain
  <2>10. CompletedMirror(c)' BY <1>1, <2>1, <2>2 DEF CompletedMirror
  <2>11. CompletedRow(c)' BY <2>3 DEF CallInv, CompletedRow
  <2> QED BY <2>5, <2>6, <2>7, <2>8, <2>9, <2>10, <2>11 DEF CallInv
<1> QED BY <1>1, <1>2, <1>3

LEMMA MirrorSteps ==
  ASSUME ChainAssumption, RecordInv, NEW c \in Calls,
         \/ OpenRecord(c) /\ MirrorOf(c) = NoFile
         \/ OpenTorn(c) \/ RecordProgress(c) \/ CompleteMirror(c) \/ FailMirror(c)
         \/ MirrorFlushFails(c)
  PROVE  ClaimsBind' /\ \A d \in Calls : CallInv(d)'
<1> USE DEF At, Goto, rowVars, versionVars, envVars, WriteMirror
<1>0. CallInv(c) /\ committed[c] \in Nat /\ rows[c] \in Nat /\ ChainLength \in Nat
  BY DEF RecordInv, ChainTypeOK, ChainAssumption
<1>1. CASE OpenRecord(c) /\ MirrorOf(c) = NoFile
  <2>1. pc[c] = "open" /\ Owns(c) /\ committed[c] = 0 /\ rows[c] = 0 /\ Filled(c, 0)
    BY <1>0, <1>1 DEF CallInv, Opening, OpenRecord
  <2>2. WritesMirror(c, "inputs", "running")
    BY <1>0, <1>1, <2>1 DEF WritesMirror, OpenRecord, Publishing
  <2> QED BY <2>2, MirrorStep
<1>2. CASE OpenTorn(c)
  <2>1. pc[c] = "open" /\ Owns(c)
    BY <1>0, <1>2 DEF CallInv, Opening, OpenTorn
  <2>2. WritesMirror(c, "openFailed", "torn")
    BY <1>0, <1>2, <2>1 DEF WritesMirror, OpenTorn, Publishing, Before
  <2> QED BY <2>2, MirrorStep
<1>3. CASE RecordProgress(c)
  <2>1. /\ pc[c] = "mirror" /\ Owns(c) /\ Filled(c, committed[c])
        /\ committed[c] = rows[c] /\ committed[c] <= ChainLength
    BY <1>0, <1>3 DEF CallInv, InStep, RecordProgress, Publishing
  <2>2. CASE committed[c] = ChainLength
    <3>1. WritesMirror(c, "completeMirror", "running")
      BY <1>0, <1>3, <2>1, <2>2 DEF WritesMirror, RecordProgress, Publishing, Before
    <3> QED BY <3>1, MirrorStep
  <2>3. CASE committed[c] # ChainLength
    <3>1. WritesMirror(c, "publish", "running")
      BY <1>0, <1>3, <2>1, <2>3 DEF WritesMirror, RecordProgress, Publishing, Before
    <3> QED BY <3>1, MirrorStep
  <2> QED BY <2>2, <2>3
<1>4. CASE CompleteMirror(c)
  <2>1. /\ pc[c] = "completeMirror" /\ Owns(c) /\ Filled(c, committed[c])
        /\ committed[c] = rows[c] /\ committed[c] = ChainLength
    BY <1>0, <1>4 DEF CallInv, InStep, CompleteMirror, Publishing
  <2>2. WritesMirror(c, "completeRow", "completed")
    BY <1>0, <1>4, <2>1 DEF WritesMirror, CompleteMirror, Publishing, Before, Whole
  <2> QED BY <2>2, MirrorStep
<1>5. CASE FailMirror(c)
  <2>1. pc[c] = "failMirror" /\ Owns(c)
    BY <1>0, <1>5 DEF CallInv, Failing, FailMirror
  <2>2. WritesMirror(c, "raised", "failed")
    BY <1>0, <1>5, <2>1 DEF WritesMirror, FailMirror, Publishing, Before
  <2> QED BY <2>2, MirrorStep
<1>6. CASE MirrorFlushFails(c)
  <2>1. CASE pc[c] = "mirror"
    <3>1. Owns(c) BY <1>0, <2>1 DEF CallInv, InStep, Publishing
    <3>2. WritesMirror(c, "failRow", "running")
      BY <1>0, <1>6, <2>1, <3>1 DEF WritesMirror, MirrorFlushFails, Publishing, Before
    <3> QED BY <3>2, MirrorStep
  <2>2. CASE pc[c] = "completeMirror"
    <3>1. /\ Owns(c) /\ Filled(c, committed[c])
          /\ committed[c] = rows[c] /\ committed[c] = ChainLength
      BY <1>0, <2>2 DEF CallInv, InStep, Publishing
    <3>2. WritesMirror(c, "failRow", "completed")
      BY <1>0, <1>6, <2>2, <3>1
         DEF WritesMirror, MirrorFlushFails, Publishing, Before, Whole
    <3> QED BY <3>2, MirrorStep
  <2> QED BY <1>6, <2>1, <2>2 DEF MirrorFlushFails
<1> QED BY <1>1, <1>2, <1>3, <1>4, <1>5, <1>6, Zenon

\* One more Version of c, at the position after its first n.
LEMMA AppendFills ==
  ASSUME ChainAssumption, ChainTypeOK, NEW c \in Calls, AppendVersion(c),
         NEW n \in Nat, n = committed[c], n < ChainLength, Filled(c, n)
  PROVE  /\ NextPosition(c) \in Positions
         /\ number'[c] = [number[c] EXCEPT ![NextPosition(c)] = Base(c, NextPosition(c)) + 1]
         /\ Base(c, NextPosition(c)) \in Nat
         /\ Filled(c, n + 1)'
         /\ \A d \in Calls \ {c} : number'[d] = number[d]
<1> DEFINE k == NextPosition(c)
<1>1. k \in Positions /\ k = n + 1
  BY DEF NextPosition, Positions, ChainTypeOK, ChainAssumption
<1>2. Base(c, k) \in Nat
  BY <1>1 DEF Base, ChainTypeOK, ChainAssumption
<1>3. number' = [number EXCEPT ![c] = [number[c] EXCEPT ![k] = Base(c, k) + 1]]
  BY DEF AppendVersion
<1>4. /\ number'[c] = [number[c] EXCEPT ![k] = Base(c, k) + 1]
      /\ \A d \in Calls \ {c} : number'[d] = number[d]
  BY <1>3 DEF ChainTypeOK
<1>5. ASSUME NEW j \in Positions
      PROVE  number'[c][j] # 0 <=> j <= n + 1
  <2>0. j \in Nat BY DEF Positions
  <2>1. CASE j = k BY <1>1, <1>2, <1>4, <2>1 DEF ChainTypeOK
  <2>2. CASE j # k BY <1>1, <1>4, <2>0, <2>2 DEF ChainTypeOK, Filled
  <2> QED BY <2>1, <2>2
<1> QED BY <1>1, <1>2, <1>4, <1>5 DEF Filled, Positions

LEMMA PublishStep ==
  ASSUME ChainAssumption, RecordInv, NEW c \in Calls,
         Publish(c) \/ PublishUnreported(c)
  PROVE  ClaimsBind' /\ \A d \in Calls : CallInv(d)'
<1> USE DEF RecordInv
<1>1. /\ pc[c] = "publish" /\ AppendVersion(c)
      /\ UNCHANGED <<run, rows, spent, claimed, mirror>>
      /\ \/ /\ committed' = [committed EXCEPT ![c] = committed[c] + 1]
            /\ pc' = [pc EXCEPT ![c] = "append"]
         \/ committed' = committed /\ pc' = [pc EXCEPT ![c] = "failRow"]
  BY DEF Publish, PublishUnreported, At, Goto, rowVars
<1>2. CallInv(c) /\ ChainLength \in Nat \ {0}
  BY DEF ChainAssumption
<1>3. /\ Owns(c) /\ MirrorOf(c) # NoFile /\ MirrorOf(c).state = "running"
      /\ Filled(c, committed[c]) /\ committed[c] = rows[c]
      /\ committed[c] < ChainLength
  BY <1>1, <1>2 DEF CallInv, InStep, Publishing
<1>4. PICK n \in Nat : n = committed[c]
  BY DEF ChainTypeOK
<1>5. /\ Filled(c, n + 1)'
      /\ \A d \in Calls \ {c} : number'[d] = number[d]
  BY <1>1, <1>3, <1>4, AppendFills
<1>6. ClaimsBind' BY <1>1 DEF ClaimsBind
<1>7. ASSUME NEW d \in Calls, d # c PROVE CallInv(d)'
  BY <1>1, <1>5, <1>7, UntouchedKeeps DEF Untouched, ChainTypeOK
<1>8. CallInv(c)'
  <2>1. /\ MirrorOf(c)' = MirrorOf(c)
        /\ Owns(c)' <=> Owns(c)
        /\ OwnMirror(c)' <=> OwnMirror(c)
    BY <1>1 DEF MirrorOf, Owns, OwnMirror
  <2>2. \/ pc'[c] = "append" /\ committed'[c] = n + 1
        \/ pc'[c] = "failRow" /\ committed'[c] = n
    BY <1>1, <1>4 DEF ChainTypeOK
  <2>3. rows'[c] = n /\ run'[c] # "completed" /\ n + 1 <= ChainLength
    BY <1>1, <1>2, <1>3, <1>4 DEF CallInv, CompletedRow
  <2>4. OwnMirror(c) => MirrorOf(c).outputs \in Nat /\ MirrorOf(c).outputs <= n
    <3>1. PICK m \in 0..ChainLength : Chain(c, m) BY <1>2 DEF CallInv, HasChain
    <3>2. m = n
      <4>1. m \in Nat /\ n < ChainLength /\ (m # 0 => m \in Positions)
            /\ (n # 0 => n \in Positions)
        BY <1>2, <1>3, <1>4, <3>1 DEF Positions
      <4> QED BY <1>3, <1>4, <3>1, <4>1 DEF Chain, Filled
    <3>3. OwnMirror(c) => MirrorOf(c) \in MirrorFile
      BY DEF ChainTypeOK, MirrorOf, OwnMirror, ChainAssumption
    <3> QED BY <3>1, <3>2, <3>3 DEF Chain, MirrorFile
  <2>5. Chain(c, n + 1)' /\ n + 1 \in 0..ChainLength
    BY <1>2, <1>5, <2>1, <2>2, <2>3, <2>4 DEF Chain
  <2>6. HasChain(c)' BY <2>5 DEF HasChain
  <2>7. NothingYet(c)' /\ Opening(c)'
    BY <2>2 DEF NothingYet, Opening, Before
  <2>8. InStep(c)'
    <3>1. CASE pc'[c] = "append"
      <4>1. committed'[c] = n + 1 BY <2>2, <3>1
      <4>2. Filled(c, committed[c])'
        BY <1>5, <4>1 DEF Filled, Positions
      <4> QED BY <1>3, <1>4, <2>1, <2>3, <3>1, <4>1, <4>2 DEF InStep, Publishing
    <3>2. CASE pc'[c] = "failRow" BY <3>2 DEF InStep, Publishing
    <3> QED BY <2>2, <3>1, <3>2
  <2>9. Failing(c)' /\ OwnsItsChain(c)'
    BY <1>3, <2>1 DEF Failing, OwnsItsChain
  <2>10. CompletedMirror(c)' /\ CompletedRow(c)'
    BY <1>3, <2>1, <2>3 DEF CompletedMirror, CompletedRow
  <2> QED BY <2>6, <2>7, <2>8, <2>9, <2>10 DEF CallInv
<1> QED BY <1>6, <1>7, <1>8

\* append_run_output records the row of the Version just published.
LEMMA RowStep ==
  ASSUME ChainAssumption, RecordInv, NEW c \in Calls,
         AppendRow(c), run[c] = "running"
  PROVE  ClaimsBind' /\ \A d \in Calls : CallInv(d)'
<1> USE DEF RecordInv
<1>1. /\ pc[c] = "append" /\ pc' = [pc EXCEPT ![c] = "mirror"]
      /\ rows' = [rows EXCEPT ![c] = rows[c] + 1]
      /\ UNCHANGED <<committed, run, number, spent, claimed, mirror>>
  BY DEF AppendRow, At, Goto, versionVars
<1>2. CallInv(c) /\ ChainLength \in Nat \ {0}
  BY DEF ChainAssumption
<1>3. /\ Owns(c) /\ MirrorOf(c) # NoFile /\ MirrorOf(c).state = "running"
      /\ Filled(c, committed[c]) /\ committed[c] = rows[c] + 1
      /\ committed[c] <= ChainLength
  BY <1>1, <1>2 DEF CallInv, InStep, Publishing
<1>4. PICK n \in Nat : n = committed[c]
  BY DEF ChainTypeOK
<1>6. ClaimsBind' BY <1>1 DEF ClaimsBind
<1>7. ASSUME NEW d \in Calls, d # c PROVE CallInv(d)'
  BY <1>1, <1>7, UntouchedKeeps DEF Untouched, ChainTypeOK
<1>8. CallInv(c)'
  <2>1. /\ MirrorOf(c)' = MirrorOf(c)
        /\ Owns(c)' <=> Owns(c)
        /\ OwnMirror(c)' <=> OwnMirror(c)
        /\ \A m : Filled(c, m)' <=> Filled(c, m)
    BY <1>1 DEF MirrorOf, Owns, OwnMirror, Filled
  <2>2. pc'[c] = "mirror" /\ committed'[c] = n /\ rows'[c] = n /\ run'[c] = "running"
    BY <1>1, <1>3, <1>4 DEF ChainTypeOK
  <2>3. PICK m \in 0..ChainLength : Chain(c, m) BY <1>2 DEF CallInv, HasChain
  <2>4. m = n
    <3>1. m \in Nat /\ n <= ChainLength /\ (m # 0 => m \in Positions)
          /\ (n # 0 => n \in Positions)
      BY <1>2, <1>3, <1>4, <2>3 DEF Positions
    <3> QED BY <1>3, <1>4, <2>3, <3>1 DEF Chain, Filled
  <2>5. Chain(c, m)' BY <2>1, <2>2, <2>3, <2>4 DEF Chain
  <2>6. HasChain(c)' BY <2>5 DEF HasChain
  <2>7. NothingYet(c)' /\ Opening(c)'
    BY <2>2 DEF NothingYet, Opening, Before
  <2>8. InStep(c)'
    <3>1. Filled(c, committed[c])' BY <1>1, <1>3 DEF Filled
    <3> QED BY <1>3, <1>4, <2>1, <2>2, <3>1 DEF InStep, Publishing
  <2>9. Failing(c)' /\ OwnsItsChain(c)'
    BY <1>3, <2>1 DEF Failing, OwnsItsChain
  <2>10. CompletedMirror(c)' /\ CompletedRow(c)'
    BY <1>3, <2>1, <2>2 DEF CompletedMirror, CompletedRow
  <2> QED BY <2>6, <2>7, <2>8, <2>9, <2>10 DEF CallInv
<1> QED BY <1>6, <1>7, <1>8

\* complete_run closes the row last, behind a mirror that lists the chain.
LEMMA CompletionStep ==
  ASSUME ChainAssumption, RecordInv, NEW c \in Calls,
         CompleteRow(c), run[c] = "running"
  PROVE  ClaimsBind' /\ \A d \in Calls : CallInv(d)'
<1> USE DEF RecordInv
<1>1. /\ pc[c] = "completeRow" /\ pc' = [pc EXCEPT ![c] = "returned"]
      /\ run' = [run EXCEPT ![c] = "completed"]
      /\ UNCHANGED <<committed, rows, number, spent, claimed, mirror>>
  BY DEF CompleteRow, At, Goto, versionVars
<1>2. CallInv(c) OBVIOUS
<1>3. /\ Owns(c) /\ MirrorOf(c) # NoFile /\ MirrorOf(c).state = "completed"
  BY <1>1, <1>2 DEF CallInv, InStep, Publishing
<1>4. OwnMirror(c)
  BY <1>3 DEF OwnMirror, MirrorOf, ClaimsBind, Owns, ChainAssumption
<1>5. ClaimsBind' BY <1>1 DEF ClaimsBind
<1>6. ASSUME NEW d \in Calls, d # c PROVE CallInv(d)'
  BY <1>1, <1>6, UntouchedKeeps DEF Untouched, ChainTypeOK
<1>7. CallInv(c)'
  <2>1. /\ MirrorOf(c)' = MirrorOf(c)
        /\ Owns(c)' <=> Owns(c)
        /\ OwnMirror(c)' <=> OwnMirror(c)
        /\ \A m : Filled(c, m)' <=> Filled(c, m)
        /\ Published(c)' = Published(c)
    BY <1>1 DEF MirrorOf, Owns, OwnMirror, Filled, Published
  <2>2. pc'[c] = "returned" /\ run'[c] = "completed"
    BY <1>1 DEF ChainTypeOK
  <2>3. \A m : Chain(c, m) => Chain(c, m)' BY <1>1, <2>1 DEF Chain
  <2>4. HasChain(c)' BY <1>2, <2>3 DEF CallInv, HasChain
  <2> QED BY <1>1, <1>2, <1>3, <1>4, <2>1, <2>2, <2>4 DEF CallInv, NothingYet, Opening,
             InStep, Failing, OwnsItsChain, CompletedMirror, CompletedRow, Whole,
             Before, Publishing
<1> QED BY <1>5, <1>6, <1>7

LEMMA CrashStep ==
  ASSUME ChainAssumption, RecordInv, Crash
  PROVE  ClaimsBind' /\ \A d \in Calls : CallInv(d)'
<1> USE DEF RecordInv
<1>1. /\ UNCHANGED <<committed, run, rows, number, spent, claimed, mirror>>
      /\ pc' = [d \in Calls |-> IF pc[d] \in Active THEN "dead" ELSE pc[d]]
  BY DEF Crash, rowVars, versionVars
<1>2. ClaimsBind' BY <1>1 DEF ClaimsBind
<1>3. ASSUME NEW c \in Calls PROVE CallInv(c)'
  <2>1. /\ MirrorOf(c)' = MirrorOf(c)
        /\ Owns(c)' <=> Owns(c)
        /\ OwnMirror(c)' <=> OwnMirror(c)
        /\ \A m : Filled(c, m)' <=> Filled(c, m)
        /\ Published(c)' = Published(c)
    BY <1>1 DEF MirrorOf, Owns, OwnMirror, Filled, Published
  <2>2. CASE pc[c] \notin Active
    <3>1. Untouched(c) BY <1>1, <2>2 DEF Untouched
    <3> QED BY <3>1, UntouchedKeeps
  <2>3. CASE pc[c] \in Active
    <3>1. pc'[c] = "dead" BY <1>1, <2>3
    <3>2. run[c] # "completed" BY <2>3 DEF CallInv, CompletedRow, Active, Publishing
    <3>3. \A m : Chain(c, m) => Chain(c, m)' BY <1>1, <2>1 DEF Chain
    <3>4. HasChain(c)' BY <3>3 DEF CallInv, HasChain
    <3> QED BY <1>1, <2>1, <3>1, <3>2, <3>4 DEF CallInv, NothingYet, Opening,
               InStep, Failing, OwnsItsChain, CompletedMirror, CompletedRow, Whole,
               Before, Publishing
  <2> QED BY <2>2, <2>3
<1> QED BY <1>2, <1>3

LEMMA RecordStep ==
  ASSUME ChainAssumption, RecordInv, [Next]_vars
  PROVE  RecordInv'
<1>1. ChainTypeOK' BY ChainTypeStep DEF RecordInv
<1>2. ASSUME NEW c \in Calls, Begin(c) \/ Step(c) \/ Failure(c) \/ CancelRun(c)
      PROVE  ClaimsBind' /\ \A d \in Calls : CallInv(d)'
  <2>1. CASE OpenRecord(c) BY <2>1, ControlSteps, MirrorSteps
  <2>2. CASE AppendRow(c) BY <2>2, ControlSteps, RowStep
  <2>3. CASE CompleteRow(c) BY <2>3, ControlSteps, CompletionStep
  <2>4. CASE \/ Begin(c) \/ QueueRun(c) \/ ClaimRefused(c) \/ AbandonRun(c)
             \/ FailOpening(c) \/ PersistInputs(c) \/ PublishRefused(c) \/ FailRow(c)
             \/ StepFails(c) \/ CancelRun(c)
    BY <2>4, ControlSteps
  <2>5. CASE \/ OpenTorn(c) \/ RecordProgress(c) \/ CompleteMirror(c)
             \/ FailMirror(c) \/ MirrorFlushFails(c)
    BY <2>5, MirrorSteps
  <2>6. CASE Publish(c) \/ PublishUnreported(c) BY <2>6, PublishStep
  <2>7. CASE ClaimExecution(c) BY <2>7, ClaimStep
  <2> QED BY <1>2, <2>1, <2>2, <2>3, <2>4, <2>5, <2>6, <2>7 DEF Step, Failure
<1>3. ASSUME ArchiveProject \/ UNCHANGED vars
      PROVE  ClaimsBind' /\ \A d \in Calls : CallInv(d)'
  <2>1. UNCHANGED <<pc, committed, run, rows, number, spent, claimed, mirror>>
    BY <1>3 DEF ArchiveProject, vars, rowVars, versionVars
  <2>2. ClaimsBind' BY <2>1 DEF RecordInv, ClaimsBind
  <2>3. \A d \in Calls : Untouched(d) BY <2>1 DEF Untouched
  <2>4. ASSUME NEW d \in Calls PROVE CallInv(d)'
    BY <2>3, UntouchedKeeps DEF RecordInv
  <2> QED BY <2>2, <2>4
<1>4. CASE Crash BY <1>1, <1>4, CrashStep DEF RecordInv
<1> QED BY <1>1, <1>2, <1>3, <1>4 DEF RecordInv, Next

LEMMA RecordInvariant == ASSUME ChainAssumption PROVE Spec => []RecordInv
<1>1. Init => RecordInv BY RecordInit
<1>2. RecordInv /\ [Next]_vars => RecordInv' BY RecordStep
<1> QED BY <1>1, <1>2, PTL DEF Spec

(***************************************************************************)
(* What the records promise.                                                *)
(***************************************************************************)

\* The types of the variables are kept by every step.
THEOREM ChainTypeCorrect == ASSUME ChainAssumption PROVE Spec => []ChainTypeOK
<1>1. RecordInv => ChainTypeOK BY DEF RecordInv
<1> QED BY <1>1, RecordInvariant, PTL

\* The first n positions, as a set.
LEMMA FilledIsPublished ==
  ASSUME ChainAssumption, NEW c \in Calls, NEW n \in 0..ChainLength, Filled(c, n)
  PROVE  /\ Published(c) = 1..n
         /\ Cardinality(Published(c)) = n
<1>1. Published(c) = 1..n
  BY DEF Published, Filled, Positions, ChainAssumption
<1>2. Cardinality(1..n) = n
  BY FS_Interval DEF ChainAssumption
<1> QED BY <1>1, <1>2

\* For any number of calls, any chain length, whatever fails, is cancelled or
\* dies: neither record of a Run says completed for a chain that was cut, and
\* neither lists more than was published (workbench.py, _mark_completed and
\* the order row before mirror in _publish_chain).
THEOREM RecordsAreTruthfulAlways ==
  ASSUME ChainAssumption PROVE Spec => []RecordsAreTruthful
<1>1. ASSUME RecordInv PROVE CompletionIsWhole
  <2> SUFFICES ASSUME NEW c \in Calls
               PROVE  /\ MirrorOf(c) # NoFile /\ MirrorOf(c).state = "completed" =>
                            LET owner == MirrorOf(c).call
                            IN  /\ MirrorOf(c).outputs = ChainLength
                                /\ rows[owner] = ChainLength
                                /\ Published(owner) = Positions
                      /\ run[c] = "completed" =>
                            /\ MirrorOf(c) = [call |-> c, state |-> "completed",
                                              outputs |-> ChainLength]
                            /\ rows[c] = ChainLength
    BY DEF CompletionIsWhole
  <2> DEFINE owner == MirrorOf(c).call
  <2>1. ASSUME MirrorOf(c) # NoFile, MirrorOf(c).state = "completed"
        PROVE  /\ MirrorOf(c).outputs = ChainLength
               /\ rows[owner] = ChainLength
               /\ Published(owner) = Positions
    <3>0. ExecutionOf[c] \in Executions BY DEF ChainAssumption
    <3>1. MirrorOf(c) \in MirrorFile
      BY <1>1, <2>1, <3>0 DEF RecordInv, ChainTypeOK, MirrorOf
    <3>2. owner \in Calls /\ owner = claimed[ExecutionOf[c]]
      BY <1>1, <2>1, <3>0, <3>1 DEF RecordInv, ClaimsBind, MirrorOf, MirrorFile
    <3>3. owner # NoCall BY <3>2 DEF ChainAssumption
    <3>4. ExecutionOf[owner] = ExecutionOf[c]
      BY <1>1, <3>0, <3>2, <3>3 DEF RecordInv, ClaimsBind
    <3>5. MirrorOf(owner) = MirrorOf(c) BY <3>4 DEF MirrorOf
    <3>6. Whole(owner) /\ MirrorOf(owner).outputs = ChainLength
      BY <1>1, <2>1, <3>2, <3>5 DEF RecordInv, CallInv, CompletedMirror, OwnMirror
    <3>7. ChainLength \in 0..ChainLength BY DEF ChainAssumption
    <3> QED BY <3>2, <3>5, <3>6, <3>7, FilledIsPublished DEF Whole, Positions
  <2>2. ASSUME run[c] = "completed"
        PROVE  /\ MirrorOf(c) = [call |-> c, state |-> "completed",
                                 outputs |-> ChainLength]
               /\ rows[c] = ChainLength
    <3>1. OwnMirror(c) /\ MirrorOf(c).state = "completed"
      BY <1>1, <2>2 DEF RecordInv, CallInv, CompletedRow
    <3>2. MirrorOf(c).outputs = ChainLength /\ rows[c] = ChainLength
      BY <1>1, <3>1 DEF RecordInv, CallInv, CompletedMirror, Whole
    <3>3. MirrorOf(c) \in MirrorFile
      BY <1>1, <3>1 DEF RecordInv, ChainTypeOK, OwnMirror, MirrorOf, ChainAssumption
    <3> QED BY <3>1, <3>2, <3>3 DEF OwnMirror, MirrorFile
  <2> QED BY <2>1, <2>2
<1>2. ASSUME RecordInv PROVE RecordsTrackTheChain
  <2> SUFFICES ASSUME NEW c \in Calls
               PROVE  /\ Published(c) = 1..Cardinality(Published(c))
                      /\ rows[c] <= Cardinality(Published(c))
                      /\ Cardinality(Published(c)) <= rows[c] + 1
                      /\ MirrorOf(c) # NoFile /\ MirrorOf(c).call = c =>
                            MirrorOf(c).outputs <= Cardinality(Published(c))
    BY DEF RecordsTrackTheChain
  <2>1. PICK n \in 0..ChainLength : Chain(c, n)
    BY <1>2 DEF RecordInv, CallInv, HasChain
  <2>2. Published(c) = 1..n /\ Cardinality(Published(c)) = n
    BY <2>1, FilledIsPublished DEF Chain
  <2> QED BY <2>1, <2>2 DEF Chain, OwnMirror
<1>3. RecordInv => RecordsAreTruthful BY <1>1, <1>2 DEF RecordsAreTruthful
<1> QED BY <1>3, RecordInvariant, PTL

\* One execution publishes at most one chain, under the approval its call
\* spent (start_run's primary key on executions).
THEOREM OneChainPerExecutionAlways ==
  ASSUME ChainAssumption PROVE Spec => []OneChainPerExecution
<1>1. ASSUME RecordInv, NEW c \in Calls, Published(c) # {}
      PROVE  /\ claimed[ExecutionOf[c]] = c
             /\ spent[ApprovalOf[c]] = c
             /\ MirrorOf(c) # NoFile
             /\ MirrorOf(c).call = c
  <2>1. Owns(c) /\ MirrorOf(c) # NoFile
    BY <1>1 DEF RecordInv, CallInv, OwnsItsChain
  <2>2. ExecutionOf[c] \in Executions /\ c # NoCall BY DEF ChainAssumption
  <2> QED BY <1>1, <2>1, <2>2 DEF RecordInv, ClaimsBind, Owns, MirrorOf
<1>2. RecordInv => OneChainPerExecution BY <1>1 DEF OneChainPerExecution
<1> QED BY <1>2, RecordInvariant, PTL

(***************************************************************************)
(* The generations of a lineage.                                            *)
(***************************************************************************)

LEMMA GenerationInit == ASSUME ChainAssumption, Init PROVE GenerationInv
<1>1. \A c \in Calls : \A k \in Positions : number[c][k] = 0 /\ head[c][k] = 0
  BY DEF Init
<1>2. \A c \in Calls : pc[c] \notin Active /\ Published(c) = {}
  BY <1>1 DEF Init, Active, Publishing, Published
<1>3. \A c \in Calls : Lineage[c] \in Calls BY DEF ChainAssumption
<1> QED BY <1>1, <1>2, <1>3 DEF GenerationInv, OnWholeTarget, Based, Uniform, BelowHead,
           ApartFrom, HeadsAreCommitted

\* A step that commits no Version; only Begin makes a call active.
LEMMA NoVersion ==
  ASSUME ChainAssumption, RecordInv, GenerationInv,
         UNCHANGED <<number, head>>,
         \A c \in Calls :
            \/ pc'[c] \in Active => pc[c] \in Active
            \/ Begin(c)
  PROVE  GenerationInv'
<1>1. ASSUME NEW c \in Calls PROVE OnWholeTarget(c)'
  <2>1. CASE pc'[c] \in Active => pc[c] \in Active
    BY <2>1 DEF GenerationInv, OnWholeTarget, Filled, Published
  <2>2. CASE Begin(c) /\ pc'[c] \in Active /\ TargetOf[c] # NoCall
    <3> DEFINE t == TargetOf[c]
    <3>1. t \in Calls /\ rows[t] = ChainLength
      BY <2>2 DEF Begin, At, Goto, ChainAssumption, RecordInv, ChainTypeOK, Active, Publishing
    <3>2. PICK n \in 0..ChainLength : Chain(t, n)
      BY <3>1 DEF RecordInv, CallInv, HasChain
    <3>3. n = ChainLength BY <3>1, <3>2 DEF Chain, ChainAssumption
    <3>4. Filled(t, ChainLength) BY <3>2, <3>3 DEF Chain
    <3> QED BY <3>4 DEF OnWholeTarget, Filled
  <2>3. CASE ~(pc'[c] \in Active /\ TargetOf[c] # NoCall)
    BY <2>3 DEF GenerationInv, OnWholeTarget, Filled, Published
  <2> QED BY <2>1, <2>2, <2>3
<1>2. \A c \in Calls : (Based(c) /\ Uniform(c) /\ BelowHead(c))'
  BY DEF GenerationInv, Based, Base, Uniform, BelowHead
<1>3. \A c, d \in Calls : ApartFrom(c, d)'
  BY DEF GenerationInv, ApartFrom
<1>4. HeadsAreCommitted'
  BY DEF GenerationInv, HeadsAreCommitted
<1> QED BY <1>1, <1>2, <1>3, <1>4 DEF GenerationInv

\* create_version against the exact base: the new number is one above every
\* number of the lineage at that position.
LEMMA VersionStep ==
  ASSUME ChainAssumption, RecordInv, GenerationInv, NEW c \in Calls,
         Publish(c) \/ PublishUnreported(c)
  PROVE  GenerationInv'
<1> DEFINE k == NextPosition(c)
           b == Base(c, k)
           l == Lineage[c]
           t == TargetOf[c]
<1>1. /\ pc[c] = "publish" /\ AppendVersion(c) /\ PublishAccepted(c)
      /\ head[l][k] = b
      /\ \A d \in Calls : pc'[d] \in Active => pc[d] \in Active
  BY DEF Publish, PublishUnreported, PublishAccepted, At, Goto, RecordInv, ChainTypeOK,
         Active, Publishing
<1>2. /\ Filled(c, committed[c]) /\ committed[c] < ChainLength /\ committed[c] \in Nat
      /\ l \in Calls
  BY <1>1 DEF RecordInv, CallInv, InStep, Publishing, ChainTypeOK, ChainAssumption
<1>3. /\ k \in Positions /\ b \in Nat
      /\ number'[c] = [number[c] EXCEPT ![k] = b + 1]
      /\ \A d \in Calls \ {c} : number'[d] = number[d]
  BY <1>1, <1>2, AppendFills DEF RecordInv
<1>4. head' = [head EXCEPT ![l] = [head[l] EXCEPT ![k] = b + 1]]
  BY <1>1 DEF AppendVersion
<1>5. number[c][k] = 0
  BY <1>2, <1>3 DEF Filled, NextPosition, Positions, RecordInv, ChainTypeOK
<1>6. \A d \in Calls, j \in Positions :
         /\ number[d][j] \in Nat /\ head[d][j] \in Nat
         /\ number'[d][j] = IF d = c /\ j = k THEN b + 1 ELSE number[d][j]
         /\ head'[d][j] = IF d = l /\ j = k THEN b + 1 ELSE head[d][j]
  BY <1>2, <1>3, <1>4 DEF RecordInv, ChainTypeOK
<1>7. t # NoCall => t \in Calls /\ t # c /\ Filled(t, ChainLength)
  <2>1. t # NoCall => t \in Calls /\ Filled(t, ChainLength)
    BY <1>1 DEF GenerationInv, OnWholeTarget, Active, Publishing, ChainAssumption
  <2> QED BY <1>3, <1>5, <2>1 DEF Filled, Positions, ChainAssumption
\* A whole target is not c, so its numbers stay.
<1>8. ASSUME NEW d \in Calls, TargetOf[d] # NoCall, Filled(TargetOf[d], ChainLength)
      PROVE  /\ TargetOf[d] \in Calls \ {c}
             /\ \A j \in Positions : number'[TargetOf[d]][j] = number[TargetOf[d]][j]
  <2>1. TargetOf[d] \in Calls BY <1>8 DEF ChainAssumption
  <2>2. TargetOf[d] # c
    BY <1>3, <1>5, <1>8 DEF Filled, Positions, ChainAssumption
  <2> QED BY <1>6, <2>1, <2>2
<1>9. ASSUME NEW d \in Calls PROVE OnWholeTarget(d)'
  <2>1. CASE d = c
    <3>1. t # NoCall => Filled(t, ChainLength)'
      BY <1>7, <1>8 DEF Filled, Positions
    <3> QED BY <2>1, <3>1 DEF OnWholeTarget
  <2>2. CASE d # c
    <3>1. Published(d)' = Published(d) BY <1>6, <2>2 DEF Published, Positions
    <3>2. CASE TargetOf[d] # NoCall /\ (pc'[d] \in Active \/ Published(d)' # {})
      <4>1. Filled(TargetOf[d], ChainLength)
        BY <1>1, <3>1, <3>2 DEF GenerationInv, OnWholeTarget
      <4>2. Filled(TargetOf[d], ChainLength)'
        BY <1>8, <3>2, <4>1 DEF Filled, Positions
      <4> QED BY <4>2 DEF OnWholeTarget
    <3> QED BY <3>2 DEF OnWholeTarget
  <2> QED BY <2>1, <2>2
<1>10. ASSUME NEW d \in Calls PROVE Based(d)'
  <2> SUFFICES ASSUME NEW j \in Positions, number'[d][j] # 0
               PROVE  number'[d][j] = Base(d, j)' + 1
    BY DEF Based, Positions
  <2>1. CASE d = c
    <3>1. Base(c, j)' = Base(c, j)
      BY <1>7, <1>8 DEF Base
    <3>2. CASE j = k BY <1>3, <1>6, <2>1, <3>1, <3>2
    <3>3. CASE j # k
      BY <1>6, <2>1, <3>1, <3>3 DEF GenerationInv, Based
    <3> QED BY <3>2, <3>3
  <2>2. CASE d # c
    <3>1. number'[d][j] = number[d][j] BY <1>6, <2>2
    <3>2. number[d][j] = Base(d, j) + 1
      BY <3>1 DEF GenerationInv, Based
    <3>3. Base(d, j)' = Base(d, j)
      <4>1. CASE TargetOf[d] = NoCall BY <4>1 DEF Base
      <4>2. CASE TargetOf[d] # NoCall
        <5>1. Published(d) # {} BY <3>1 DEF Published
        <5>2. Filled(TargetOf[d], ChainLength)
          BY <4>2, <5>1 DEF GenerationInv, OnWholeTarget
        <5> QED BY <1>8, <4>2, <5>2 DEF Base
      <4> QED BY <4>1, <4>2
    <3> QED BY <3>1, <3>2, <3>3
  <2> QED BY <2>1, <2>2
<1>11. ASSUME NEW d \in Calls PROVE Uniform(d)'
  <2>1. CASE d # c BY <1>6, <2>1 DEF GenerationInv, Uniform, Positions
  <2>2. CASE d = c
    <3>1. ASSUME NEW j \in Positions, number[c][j] # 0 PROVE number[c][j] = b + 1
      <4>1. number[c][j] = Base(c, j) + 1 BY <3>1 DEF GenerationInv, Based
      <4>2. Base(c, j) = b
        <5>1. CASE t = NoCall BY <5>1 DEF Base
        <5>2. CASE t # NoCall
          <6>1. number[t][j] # 0 /\ number[t][k] # 0
            BY <1>3, <1>7, <5>2 DEF Filled, Positions
          <6> QED BY <1>3, <1>7, <5>2, <6>1 DEF GenerationInv, Uniform, Base
        <5> QED BY <5>1, <5>2
      <4> QED BY <4>1, <4>2
    <3>2. \A j \in Positions : number'[c][j] # 0 => number'[c][j] = b + 1
      BY <1>6, <3>1
    <3> QED BY <2>2, <3>2 DEF Uniform, Positions
  <2> QED BY <2>1, <2>2
<1>12. ASSUME NEW d \in Calls, Lineage[d] = l
       PROVE  number[d][k] <= b
  BY <1>1, <1>3, <1>12 DEF GenerationInv, BelowHead
<1>13. ASSUME NEW d \in Calls PROVE BelowHead(d)'
  <2> SUFFICES ASSUME NEW j \in Positions PROVE number'[d][j] <= head'[Lineage[d]][j]
    BY DEF BelowHead, Positions
  <2>1. Lineage[d] \in Calls /\ number[d][j] <= head[Lineage[d]][j]
    BY DEF GenerationInv, BelowHead, ChainAssumption
  <2>2. CASE Lineage[d] = l /\ j = k
    BY <1>3, <1>6, <1>12, <2>1, <2>2
  <2>3. CASE ~(Lineage[d] = l /\ j = k)
    BY <1>3, <1>6, <2>1, <2>3
  <2> QED BY <2>2, <2>3
<1>14. ASSUME NEW d \in Calls, NEW f \in Calls PROVE ApartFrom(d, f)'
  <2> SUFFICES ASSUME d # f, Lineage[d] = Lineage[f], NEW j \in Positions, number'[d][j] # 0
               PROVE  number'[d][j] # number'[f][j]
    BY DEF ApartFrom, Positions
  <2>1. CASE j # k \/ (d # c /\ f # c)
    BY <1>6, <2>1 DEF GenerationInv, ApartFrom
  <2>2. CASE j = k /\ d = c
    BY <1>3, <1>6, <1>12, <2>2
  <2>3. CASE j = k /\ f = c
    BY <1>3, <1>6, <1>12, <2>3
  <2> QED BY <2>1, <2>2, <2>3
<1>15. HeadsAreCommitted'
  <2> SUFFICES ASSUME NEW m \in Calls, NEW j \in Positions, head'[m][j] # 0
               PROVE  \E d \in Calls : Lineage[d] = m /\ number'[d][j] = head'[m][j]
    BY DEF HeadsAreCommitted, Positions
  <2>1. CASE m = l /\ j = k
    <3>1. number'[c][j] = head'[m][j] BY <1>2, <1>3, <1>6, <2>1
    <3> QED BY <2>1, <3>1
  <2>2. CASE ~(m = l /\ j = k)
    <3>1. head'[m][j] = head[m][j] BY <1>6, <2>2
    <3>2. PICK d \in Calls : Lineage[d] = m /\ number[d][j] = head[m][j]
      BY <3>1 DEF GenerationInv, HeadsAreCommitted
    <3>3. ~(d = c /\ j = k) BY <2>2, <3>2
    <3>4. number'[d][j] = number[d][j] BY <1>6, <3>3
    <3> QED BY <3>1, <3>2, <3>4
  <2> QED BY <2>1, <2>2
<1> QED BY <1>9, <1>10, <1>11, <1>13, <1>14, <1>15 DEF GenerationInv

LEMMA GenerationStep ==
  ASSUME ChainAssumption, RecordInv, GenerationInv, [Next]_vars
  PROVE  GenerationInv'
<1> USE DEF versionVars
<1>1. ASSUME NEW c \in Calls, Begin(c) \/ Step(c) \/ Failure(c) \/ CancelRun(c),
             ~(Publish(c) \/ PublishUnreported(c))
      PROVE  GenerationInv'
  <2>1. UNCHANGED <<number, head>>
    BY <1>1 DEF Begin, Step, Failure, CancelRun, QueueRun, ClaimExecution, ClaimRefused,
         AbandonRun, OpenRecord, FailOpening, PersistInputs, PublishRefused, AppendRow,
         RecordProgress, CompleteMirror, CompleteRow, FailRow, FailMirror, OpenTorn,
         StepFails, MirrorFlushFails
  <2>2. CASE Begin(c)
    <3>1. \A d \in Calls \ {c} : pc'[d] = pc[d]
      BY <2>2 DEF Begin, Goto, RecordInv, ChainTypeOK
    <3> QED BY <2>1, <2>2, <3>1, NoVersion
  <2>3. CASE ~Begin(c)
    <3>1. pc[c] \in Active \/ pc' = pc
      BY <1>1, <2>3 DEF Step, Failure, CancelRun, QueueRun, ClaimExecution, ClaimRefused,
         AbandonRun, OpenRecord, FailOpening, PersistInputs, PublishRefused, AppendRow,
         RecordProgress, CompleteMirror, CompleteRow, FailRow, FailMirror, OpenTorn,
         StepFails, MirrorFlushFails, At, Active, Publishing
    <3>2. \A d \in Calls \ {c} : pc'[d] = pc[d]
      BY <1>1, <2>3 DEF Step, Failure, CancelRun, QueueRun, ClaimExecution, ClaimRefused,
         AbandonRun, OpenRecord, FailOpening, PersistInputs, PublishRefused, AppendRow,
         RecordProgress, CompleteMirror, CompleteRow, FailRow, FailMirror, OpenTorn,
         StepFails, MirrorFlushFails, Goto, RecordInv, ChainTypeOK
    <3>3. \A d \in Calls : pc'[d] \in Active => pc[d] \in Active
      BY <3>1, <3>2
    <3> QED BY <2>1, <3>3, NoVersion
  <2> QED BY <2>2, <2>3
<1>2. CASE Crash \/ ArchiveProject \/ UNCHANGED vars
  <2>1. UNCHANGED <<number, head>> BY <1>2 DEF Crash, ArchiveProject, vars
  <2>2. \A d \in Calls : pc'[d] \in Active => pc[d] \in Active
    BY <1>2 DEF Crash, ArchiveProject, vars, Active, Publishing
  <2> QED BY <2>1, <2>2, NoVersion
<1> QED BY <1>1, <1>2, VersionStep DEF Next

LEMMA GenerationInvariant ==
  ASSUME ChainAssumption PROVE Spec => [](RecordInv /\ GenerationInv)
<1>1. Init => RecordInv /\ GenerationInv BY RecordInit, GenerationInit
<1>2. RecordInv /\ GenerationInv /\ [Next]_vars => (RecordInv /\ GenerationInv)'
  BY RecordStep, GenerationStep
<1> QED BY <1>1, <1>2, PTL DEF Spec

\* A completed Run published its whole chain.
LEMMA CompletedIsFilled ==
  ASSUME ChainAssumption, RecordInv, NEW c \in Calls, run[c] = "completed"
  PROVE  \A k \in Positions : number[c][k] # 0
<1>1. Filled(c, ChainLength)
  BY DEF RecordInv, CallInv, CompletedRow, CompletedMirror, Whole
<1> QED BY <1>1 DEF Filled, Positions

\* Corrections to any depth, and any number of them at once: all outputs of a
\* completed Run are one generation of its lineage, no two completed Runs of
\* a lineage are the same generation, and heads that mix generations mean a
\* chain that is not complete (correct_analysis and create_version's
\* compare-and-swap on the recorded base).
THEOREM CorrectionsStayUniformAlways ==
  ASSUME ChainAssumption PROVE Spec => []CorrectionsStayUniform
<1>1. ASSUME RecordInv, GenerationInv PROVE CompletedChainsAreUniform
  <2>1. ASSUME NEW c \in Calls, run[c] = "completed"
        PROVE  \A j, k \in Positions : number[c][j] = number[c][k]
    BY <1>1, <2>1, CompletedIsFilled DEF GenerationInv, Uniform
  <2>2. ASSUME NEW c \in Calls, NEW d \in Calls, c # d, run[c] = "completed",
               Lineage[c] = Lineage[d]
        PROVE  \A k \in Positions : number[c][k] # number[d][k]
    BY <1>1, <2>2, CompletedIsFilled DEF GenerationInv, ApartFrom
  <2> QED BY <2>1, <2>2 DEF CompletedChainsAreUniform
<1>2. ASSUME RecordInv, GenerationInv PROVE MixedHeadsMeanTruncation
  <2> SUFFICES ASSUME NEW l \in Calls, NEW j \in Positions, NEW k \in Positions,
                      head[l][j] # head[l][k],
                      \A d \in Calls : Lineage[d] = l /\ Published(d) # {} =>
                         run[d] = "completed"
               PROVE  FALSE
    BY DEF MixedHeadsMeanTruncation
  \* The head at one position never exceeds the head at another.
  <2>1. ASSUME NEW i \in Positions, NEW m \in Positions
        PROVE  head[l][i] <= head[l][m]
    <3>1. head[l][i] \in Nat /\ head[l][m] \in Nat BY <1>2 DEF RecordInv, ChainTypeOK
    <3>2. CASE head[l][i] = 0 BY <3>1, <3>2
    <3>3. CASE head[l][i] # 0
      <4>1. PICK d \in Calls : Lineage[d] = l /\ number[d][i] = head[l][i]
        BY <1>2, <3>3 DEF GenerationInv, HeadsAreCommitted
      <4>2. run[d] = "completed" BY <3>3, <4>1 DEF Published
      <4>3. number[d][m] = number[d][i]
        BY <1>2, <4>2, CompletedIsFilled DEF GenerationInv, Uniform
      <4>4. number[d][m] <= head[l][m]
        BY <1>2, <4>1 DEF GenerationInv, BelowHead
      <4> QED BY <4>1, <4>3, <4>4
    <3> QED BY <3>2, <3>3
  <2>2. head[l][j] \in Nat /\ head[l][k] \in Nat BY <1>2 DEF RecordInv, ChainTypeOK
  <2> QED BY <2>1, <2>2
<1>3. RecordInv /\ GenerationInv => CorrectionsStayUniform
  BY <1>1, <1>2 DEF CorrectionsStayUniform
<1> QED BY <1>3, GenerationInvariant, PTL

=============================================================================
