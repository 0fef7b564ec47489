--------------------------- MODULE WorkbenchChain ---------------------------
(***************************************************************************)
(* workbench.py: run_analysis and correct_analysis, the ordered publication *)
(* of one approved analysis.  Four immutable Versions cannot be committed   *)
(* in one transaction, so a chain may be cut anywhere; each Run is recorded *)
(* twice, as database rows (the authority) and as a mirror file named after *)
(* the execution, so that a cut chain can be told from a complete one.      *)
(*                                                                          *)
(* A call of run_analysis or correct_analysis is a process.  Each store     *)
(* transaction and each atomic file replacement is one step.  A step may    *)
(* fail (an sqlite or file-system error), the process may die between any   *)
(* two steps, the Project may be archived and a Run cancelled meanwhile.    *)
(***************************************************************************)
EXTENDS Naturals, FiniteSets

CONSTANTS
    Calls,          \* calls of run_analysis / correct_analysis; also Run ids
    Approvals, Executions,
    ApprovalOf,     \* the one-use approval each call presents
    ExecutionOf,    \* the produced-execution id its runtime is bound to
    TargetOf,       \* the call whose Run a correction supersedes, or NoCall
    Lineage,        \* the call at the start of each chain of corrections, to
                    \* whose Artifacts the whole chain appends
    Cancellable,    \* calls whose Run an operator of the store may cancel
    NoCall, NoFile,
    ChainLength,    \* outputs of a chain: csv, png, markdown, ledger
    MaxFaults,      \* bound on injected failures
    MaxCrashes      \* bound on process deaths

\* What a choice of calls may be.
ChainAssumption ==
    /\ ApprovalOf \in [Calls -> Approvals]
    /\ ExecutionOf \in [Calls -> Executions]
    /\ TargetOf \in [Calls -> Calls \cup {NoCall}]
    /\ Lineage \in [Calls -> Calls]
    /\ \A c \in Calls :
          Lineage[c] = IF TargetOf[c] = NoCall THEN c ELSE Lineage[TargetOf[c]]
    /\ NoCall \notin Calls
    /\ NoFile \notin [call : Calls, outputs : Nat,
                     state : {"running", "completed", "failed", "torn"}]
    /\ Cancellable \subseteq Calls
    /\ ChainLength \in Nat \ {0}
    /\ MaxFaults \in Nat
    /\ MaxCrashes \in Nat

VARIABLES
    pc,         \* where each call is
    committed,  \* the call's local list of OutputRecords, as its length
    run,        \* runs.state of each Run, or "none"
    rows,       \* number of run_outputs rows of each Run
    number,     \* version_no each call committed per chain position, or 0
    head,       \* head version_no per lineage and chain position
    spent,      \* which Run consumed each approval
    claimed,    \* which Run owns each execution row
    mirror,     \* the mirror file of each execution
    archived,   \* the Project is archived
    faults, crashes

rowVars == <<run, rows, spent, claimed>>
versionVars == <<number, head>>
envVars == <<archived, faults, crashes>>
vars == <<pc, committed, rowVars, versionVars, mirror, envVars>>

Positions == 1..ChainLength

Terminal == {"completed", "failed", "cancelled"}

Publishing == {"inputs", "publish", "append", "mirror",
               "completeMirror", "completeRow"}

Active == Publishing \cup {"queue", "claim", "abandon", "open", "openFailed",
                           "failRow", "failMirror"}

\* The Version number a call expects at a position: what its target committed.
Base(c, k) == IF TargetOf[c] = NoCall THEN 0 ELSE number[TargetOf[c]][k]

MirrorOf(c) == mirror[ExecutionOf[c]]

Init ==
    /\ pc = [c \in Calls |-> "idle"]
    /\ committed = [c \in Calls |-> 0]
    /\ run = [c \in Calls |-> "none"]
    /\ rows = [c \in Calls |-> 0]
    /\ number = [c \in Calls |-> [k \in Positions |-> 0]]
    /\ head = [c \in Calls |-> [k \in Positions |-> 0]]
    /\ spent = [ap \in Approvals |-> NoCall]
    /\ claimed = [e \in Executions |-> NoCall]
    /\ mirror = [e \in Executions |-> NoFile]
    /\ archived = FALSE
    /\ faults = 0
    /\ crashes = 0

At(c, here) == pc[c] = here

Goto(c, there) == pc' = [pc EXCEPT ![c] = there]

(***************************************************************************)
(* Queueing and claiming.                                                   *)
(***************************************************************************)

\* correction_targets reads the target's output rows; a selection that is not
\* exactly one target per role is refused before anything is written.
Begin(c) ==
    /\ At(c, "idle")
    /\ IF TargetOf[c] # NoCall /\ (archived \/ rows[TargetOf[c]] # ChainLength)
         THEN Goto(c, "raised")
         ELSE Goto(c, "queue")
    /\ UNCHANGED <<committed, rowVars, versionVars, mirror, envVars>>

QueueRun(c) ==
    /\ At(c, "queue")
    /\ IF archived
         THEN Goto(c, "raised") /\ UNCHANGED run
         ELSE Goto(c, "claim") /\ run' = [run EXCEPT ![c] = "queued"]
    /\ UNCHANGED <<committed, rows, spent, claimed, versionVars, mirror, envVars>>

\* Mutant of ClaimAccepted: the executions primary key is gone.
ClaimUnfenced(c) ==
    /\ ~archived
    /\ spent[ApprovalOf[c]] = NoCall
    /\ run[c] = "queued"

\* The archival, replay and execution fences of start_run.
ClaimAccepted(c) ==
    /\ ~archived
    /\ spent[ApprovalOf[c]] = NoCall
    /\ run[c] = "queued"
    /\ claimed[ExecutionOf[c]] = NoCall

\* start_run: consume the approval, insert the execution, start the Run.
ClaimExecution(c) ==
    /\ At(c, "claim")
    /\ ClaimAccepted(c)
    /\ spent' = [spent EXCEPT ![ApprovalOf[c]] = c]
    /\ claimed' = [claimed EXCEPT ![ExecutionOf[c]] = c]
    /\ run' = [run EXCEPT ![c] = "running"]
    /\ Goto(c, "open")
    /\ UNCHANGED <<committed, rows, versionVars, mirror, envVars>>

ClaimRefused(c) ==
    /\ At(c, "claim")
    /\ ~ClaimAccepted(c)
    /\ Goto(c, "abandon")
    /\ UNCHANGED <<committed, rowVars, versionVars, mirror, envVars>>

\* finish_run with a failed completion; a refusal is suppressed by callers.
FinishFailed(c) ==
    run' = [run EXCEPT ![c] = IF @ \in {"queued", "running"} THEN "failed" ELSE @]

\* A refused claim fails the queued row and leaves no mirror.
AbandonRun(c) ==
    /\ At(c, "abandon")
    /\ FinishFailed(c)
    /\ Goto(c, "raised")
    /\ UNCHANGED <<committed, rows, spent, claimed, versionVars, mirror, envVars>>

(***************************************************************************)
(* The mirror file and the canonical inputs.                                *)
(***************************************************************************)

File(c, state) == [call |-> c, state |-> state, outputs |-> committed[c]]

\* The mirror is created with O_EXCL: an existing one is never overwritten.
OpenRecord(c) ==
    /\ At(c, "open")
    /\ IF MirrorOf(c) # NoFile
         THEN Goto(c, "openFailed") /\ UNCHANGED mirror
         ELSE /\ Goto(c, "inputs")
              /\ mirror' = [mirror EXCEPT ![ExecutionOf[c]] = File(c, "running")]
    /\ UNCHANGED <<committed, rowVars, versionVars, envVars>>

\* The file was created and writing it failed: it exists and holds nothing.
OpenTorn(c) ==
    /\ At(c, "open")
    /\ MirrorOf(c) = NoFile
    /\ faults < MaxFaults
    /\ faults' = faults + 1
    /\ mirror' = [mirror EXCEPT ![ExecutionOf[c]] = File(c, "torn")]
    /\ Goto(c, "openFailed")
    /\ UNCHANGED <<committed, rowVars, versionVars, archived, crashes>>

\* Without a mirror the row alone is marked.
FailOpening(c) ==
    /\ At(c, "openFailed")
    /\ FinishFailed(c)
    /\ Goto(c, "raised")
    /\ UNCHANGED <<committed, rows, spent, claimed, versionVars, mirror, envVars>>

\* Mutant of PersistInputs: a refusal escapes outside the try block.
PersistInputsUncaught(c) ==
    /\ At(c, "inputs")
    /\ Goto(c, IF archived THEN "raised" ELSE "publish")
    /\ UNCHANGED <<committed, rowVars, versionVars, mirror, envVars>>

\* Both payloads are recorded, or the refusal fails the Run.
PersistInputs(c) ==
    /\ At(c, "inputs")
    /\ Goto(c, IF archived THEN "failRow" ELSE "publish")
    /\ UNCHANGED <<committed, rowVars, versionVars, mirror, envVars>>

(***************************************************************************)
(* Publishing.                                                              *)
(***************************************************************************)

\* The position the call publishes next.
NextPosition(c) == committed[c] + 1

\* Mutant of PublishAccepted: no compare-and-swap on the base.
PublishRebased(c) == ~archived

\* create_version appends against the exact base: Version 1 of a new Artifact
\* or the successor of the Version being corrected.
PublishAccepted(c) ==
    ~archived /\ head[Lineage[c]][NextPosition(c)] = Base(c, NextPosition(c))

AppendVersion(c) ==
    LET k == NextPosition(c)
    IN  /\ number' = [number EXCEPT ![c][k] = Base(c, k) + 1]
        /\ head' = [head EXCEPT ![Lineage[c]][k] = Base(c, k) + 1]

Publish(c) ==
    /\ At(c, "publish")
    /\ PublishAccepted(c)
    /\ AppendVersion(c)
    /\ committed' = [committed EXCEPT ![c] = @ + 1]
    /\ Goto(c, "append")
    /\ UNCHANGED <<rowVars, mirror, envVars>>

PublishRefused(c) ==
    /\ At(c, "publish")
    /\ ~PublishAccepted(c)
    /\ Goto(c, "failRow")
    /\ UNCHANGED <<committed, rowVars, versionVars, mirror, envVars>>

\* The Version was committed, but reporting it failed.
PublishUnreported(c) ==
    /\ At(c, "publish")
    /\ PublishAccepted(c)
    /\ faults < MaxFaults
    /\ faults' = faults + 1
    /\ AppendVersion(c)
    /\ Goto(c, "failRow")
    /\ UNCHANGED <<committed, rowVars, mirror, archived, crashes>>

\* Mutant of AppendRow: a refused append is not an error.
AppendRowLenient(c) ==
    /\ At(c, "append")
    /\ Goto(c, "mirror")
    /\ rows' = [rows EXCEPT ![c] = IF run[c] = "running" THEN @ + 1 ELSE @]
    /\ UNCHANGED <<committed, run, spent, claimed, versionVars, mirror, envVars>>

\* append_run_output: the row first, and only while the Run is running.
AppendRow(c) ==
    /\ At(c, "append")
    /\ IF run[c] = "running"
         THEN Goto(c, "mirror") /\ rows' = [rows EXCEPT ![c] = @ + 1]
         ELSE Goto(c, "failRow") /\ UNCHANGED rows
    /\ UNCHANGED <<committed, run, spent, claimed, versionVars, mirror, envVars>>

WriteMirror(c, state) ==
    mirror' = [mirror EXCEPT ![ExecutionOf[c]] = File(c, state)]

RecordProgress(c) ==
    /\ At(c, "mirror")
    /\ WriteMirror(c, "running")
    /\ Goto(c, IF committed[c] = ChainLength THEN "completeMirror" ELSE "publish")
    /\ UNCHANGED <<committed, rowVars, versionVars, envVars>>

(***************************************************************************)
(* Closing the two records.                                                 *)
(***************************************************************************)

CompleteMirror(c) ==
    /\ At(c, "completeMirror")
    /\ WriteMirror(c, "completed")
    /\ Goto(c, "completeRow")
    /\ UNCHANGED <<committed, rowVars, versionVars, envVars>>

CompleteRow(c) ==
    /\ At(c, "completeRow")
    /\ IF run[c] = "running"
         THEN Goto(c, "returned") /\ run' = [run EXCEPT ![c] = "completed"]
         ELSE Goto(c, "failRow") /\ UNCHANGED run
    /\ UNCHANGED <<committed, rows, spent, claimed, versionVars, mirror, envVars>>

FailRow(c) ==
    /\ At(c, "failRow")
    /\ FinishFailed(c)
    /\ Goto(c, "failMirror")
    /\ UNCHANGED <<committed, rows, spent, claimed, versionVars, mirror, envVars>>

FailMirror(c) ==
    /\ At(c, "failMirror")
    /\ WriteMirror(c, "failed")
    /\ Goto(c, "raised")
    /\ UNCHANGED <<committed, rowVars, versionVars, envVars>>

(***************************************************************************)
(* Failures and the environment.                                            *)
(***************************************************************************)

\* Where control goes when the step at each point raises: inside the try
\* block to _mark_failed, whose own store failure is suppressed.
RaisesTo(here) ==
    CASE here \in Publishing -> "failRow"
      [] here = "open" -> "openFailed"
      [] here = "failRow" -> "failMirror"
      [] OTHER -> "raised"

\* The step raises and has no effect.
StepFails(c) ==
    /\ pc[c] \in Active
    /\ faults < MaxFaults
    /\ faults' = faults + 1
    /\ Goto(c, RaisesTo(pc[c]))
    /\ UNCHANGED <<committed, rowVars, versionVars, mirror, archived, crashes>>

\* The mirror was replaced and flushing its directory then failed.
MirrorFlushFails(c) ==
    /\ pc[c] \in {"mirror", "completeMirror"}
    /\ faults < MaxFaults
    /\ faults' = faults + 1
    /\ WriteMirror(c, IF At(c, "mirror") THEN "running" ELSE "completed")
    /\ Goto(c, "failRow")
    /\ UNCHANGED <<committed, rowVars, versionVars, archived, crashes>>

\* The process dies; a later process may make the calls not yet begun.
Crash ==
    /\ crashes < MaxCrashes
    /\ \E c \in Calls : pc[c] \in Active
    /\ crashes' = crashes + 1
    /\ pc' = [c \in Calls |-> IF pc[c] \in Active THEN "dead" ELSE pc[c]]
    /\ UNCHANGED <<committed, rowVars, versionVars, mirror, archived, faults>>

ArchiveProject ==
    /\ ~archived
    /\ archived' = TRUE
    /\ UNCHANGED <<pc, committed, rowVars, versionVars, mirror, faults, crashes>>

\* The cancellation the store accepts for an unfinished Run.
CancelRun(c) ==
    /\ c \in Cancellable
    /\ run[c] \in {"queued", "running"}
    /\ run' = [run EXCEPT ![c] = "cancelled"]
    /\ UNCHANGED <<pc, committed, rows, spent, claimed, versionVars, mirror, envVars>>

Step(c) ==
    \/ QueueRun(c) \/ ClaimExecution(c) \/ ClaimRefused(c) \/ AbandonRun(c)
    \/ OpenRecord(c) \/ FailOpening(c) \/ PersistInputs(c)
    \/ Publish(c) \/ PublishRefused(c) \/ AppendRow(c) \/ RecordProgress(c)
    \/ CompleteMirror(c) \/ CompleteRow(c) \/ FailRow(c) \/ FailMirror(c)

Failure(c) ==
    OpenTorn(c) \/ PublishUnreported(c) \/ StepFails(c) \/ MirrorFlushFails(c)

Next ==
    \/ \E c \in Calls : Begin(c) \/ Step(c) \/ Failure(c) \/ CancelRun(c)
    \/ Crash
    \/ ArchiveProject

Spec == Init /\ [][Next]_vars

\* A call that was begun runs to its end unless the process dies: the steps
\* of a synchronous call need nothing but the processor.
FairSpec == Spec /\ \A c \in Calls : WF_vars(Step(c))

(***************************************************************************)
(* Properties.                                                              *)
(***************************************************************************)

\* The Versions a call has in the store.
Published(c) == {k \in Positions : number[c][k] # 0}

\* A chain that was cut is never recorded as completed, in either record and
\* whatever failed: a completed mirror lists the whole chain and every output
\* row, and a completed row implies a completed mirror ("closed as completed
\* only once the ledger commits", workbench.py failure model).
CompletionIsWhole ==
    \A c \in Calls :
        /\ MirrorOf(c) # NoFile /\ MirrorOf(c).state = "completed" =>
              LET owner == MirrorOf(c).call
              IN  /\ MirrorOf(c).outputs = ChainLength
                  /\ rows[owner] = ChainLength
                  /\ Published(owner) = Positions
        /\ run[c] = "completed" =>
              /\ MirrorOf(c) = [call |-> c, state |-> "completed",
                                outputs |-> ChainLength]
              /\ rows[c] = ChainLength

\* One execution id publishes at most one chain, and only under the approval
\* it spent: of the calls bound to an execution at most one has Versions, and
\* that one owns the execution row, the mirror and the approval.
OneChainPerExecution ==
    \A c \in Calls : Published(c) # {} =>
        /\ claimed[ExecutionOf[c]] = c
        /\ spent[ApprovalOf[c]] = c
        /\ MirrorOf(c) # NoFile
        /\ MirrorOf(c).call = c

\* Truncation is detectable: outputs are published in chain order, at most
\* one Version of a call lacks its row, and neither record lists more than
\* was published.
RecordsTrackTheChain ==
    \A c \in Calls :
        /\ Published(c) = 1..Cardinality(Published(c))
        /\ rows[c] <= Cardinality(Published(c))
        /\ Cardinality(Published(c)) <= rows[c] + 1
        /\ MirrorOf(c) # NoFile /\ MirrorOf(c).call = c =>
              MirrorOf(c).outputs <= Cardinality(Published(c))

\* The two records of a Run tell the truth about its chain.
RecordsAreTruthful == CompletionIsWhole /\ RecordsTrackTheChain

\* All outputs of a whole chain are the same generation of one lineage, so no
\* completed Run describes two executions at once, and no two corrections of
\* one Run both complete (_targets_by_role, and the compare-and-swap on the
\* recorded base).
CompletedChainsAreUniform ==
    /\ \A c \in Calls : run[c] = "completed" =>
          \A j, k \in Positions : number[c][j] = number[c][k]
    /\ \A c, d \in Calls :
          /\ c # d
          /\ run[c] = "completed"
          /\ run[d] = "completed"
          /\ Lineage[c] = Lineage[d]
          => \A k \in Positions : number[c][k] # number[d][k]

\* The heads of a lineage come from different executions only while a chain
\* is open on it or after one was cut short: never after completed Runs only.
MixedHeadsMeanTruncation ==
    \A c \in Calls :
        (\E j, k \in Positions : head[c][j] # head[c][k]) =>
            \E d \in Calls :
                Lineage[d] = c /\ Published(d) # {} /\ run[d] # "completed"

\* Corrections never leave a lineage that mixes executions unnoticed.
CorrectionsStayUniform == CompletedChainsAreUniform /\ MixedHeadsMeanTruncation

\* Without failures, and with the Project archived or the Run cancelled at
\* any point, a Run that was queued is eventually marked terminal.
EveryRunIsMarked ==
    \A c \in Calls : run[c] = "queued" ~> run[c] \in Terminal

\* "they never come to rest disagreeing" (_mark_completed, workbench.py:1229):
\* a mirror that says completed at rest is confirmed by its row.
CompletionConfirmedAtRest ==
    \A c \in Calls :
        /\ pc[c] \in {"returned", "raised", "dead"}
        /\ MirrorOf(c) # NoFile
        /\ MirrorOf(c).call = c
        /\ MirrorOf(c).state = "completed"
        => run[c] = "completed"

=============================================================================
