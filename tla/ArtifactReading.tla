--------------------------- MODULE ArtifactReading ---------------------------
(* What readers see while others write: the Artifact routes of the loopback  *)
(* API (api.py, apiquery.py), the Run surface (runsurface.py) and the pinned *)
(* evidence of a review (store.py, pinned_run_evidence).  Each is several    *)
(* statements without a transaction, so the server's other threads and other *)
(* processes on the same database write between them.                        *)
(*                                                                           *)
(* Writers commit in one step: RunLedger and ArtifactLedger treat them in    *)
(* full.  Versions and outputs are counted, their contents left out.         *)
EXTENDS Naturals, FiniteSets, Sequences, SequencesExt

CONSTANTS Artifacts, Runs, HistoryReaders, RunReaders,
          MaxVersions,  \* bound on the Versions of one Artifact
          Outputs,      \* how many outputs a chain commits
          MaxTurns,     \* bound on the turns of one Run
          None

(* What the bounds may be.                                                   *)
ReadingAssumption == {MaxVersions, Outputs, MaxTurns} \subseteq Nat

VARIABLES projectArchived,
          created,    \* Artifacts, oldest first
          versions,   \* Artifact -> number of its Versions
          run,        \* Run -> its rows
          history,    \* reader of Artifact histories
          view        \* reader of Runs

readingVars == <<projectArchived, created, versions, run, history, view>>

Terminal == {"completed", "failed", "cancelled"}

NoHistory == [pc |-> "idle", all |-> FALSE, todo |-> <<>>, ids |-> <<>>,
              before |-> 0, read |-> <<>>, answer |-> <<>>]

QueuedRow == [run |-> "queued", execution |-> FALSE, outputs |-> 0, turns |-> 0]

(* done: how many of its statements a reader has made for each Run.          *)
NoView == [kind |-> None, of |-> {}, done |-> [r \in Runs |-> 0],
           rows |-> [r \in Runs |-> QueuedRow]]

ReadingInit ==
  /\ projectArchived = FALSE
  /\ created = <<>>
  /\ versions = [a \in Artifacts |-> 0]
  /\ run = [r \in Runs |-> QueuedRow]
  /\ history = [h \in HistoryReaders |-> NoHistory]
  /\ view = [v \in RunReaders |-> NoView]

-----------------------------------------------------------------------------
(* Writers.                                                                  *)
Archive ==
  /\ ~projectArchived /\ projectArchived' = TRUE
  /\ UNCHANGED <<created, versions, run, history, view>>

CreateArtifact(a) ==
  /\ ~projectArchived /\ ~ \E i \in DOMAIN created : created[i] = a
  /\ created' = Append(created, a)
  /\ UNCHANGED <<projectArchived, versions, run, history, view>>

CommitVersion(a) ==
  /\ ~projectArchived /\ \E i \in DOMAIN created : created[i] = a
  /\ versions[a] < MaxVersions
  /\ versions' = [versions EXCEPT ![a] = @ + 1]
  /\ UNCHANGED <<projectArchived, created, run, history, view>>

WriteRun(r, row) ==
  /\ run' = [run EXCEPT ![r] = row]
  /\ UNCHANGED <<projectArchived, created, versions, history, view>>

(* The state and the execution row in one transaction.                       *)
StartRun(r) ==
  /\ ~projectArchived /\ run[r].run = "queued"
  /\ WriteRun(r, [run[r] EXCEPT !.run = "running", !.execution = TRUE])

AppendRunOutput(r) ==
  /\ run[r].run = "running" /\ run[r].outputs < Outputs
  /\ WriteRun(r, [run[r] EXCEPT !.outputs = @ + 1])

(* The workbench completes a chain after its last output; a queued Run may   *)
(* fail or be cancelled.  Like the other Run rows but the first, this is not *)
(* refused in an archived Project.                                           *)
FinishRun(r, state) ==
  /\ run[r].run \in (IF state = "completed" THEN {"running"} ELSE {"queued", "running"})
  /\ state = "completed" => run[r].outputs = Outputs
  /\ WriteRun(r, [run[r] EXCEPT !.run = state])

RecordRunTurn(r) ==
  /\ run[r].turns < MaxTurns
  /\ WriteRun(r, [run[r] EXCEPT !.turns = @ + 1])

-----------------------------------------------------------------------------
(* One Artifact's history, or the list of all of them.                       *)
UpdateHistory(h, new) ==
  /\ history' = [history EXCEPT ![h] = new]
  /\ UNCHANGED <<projectArchived, created, versions, run, view>>

Refuse(h, why) == UpdateHistory(h, [NoHistory EXCEPT !.pc = why])

LiveProject(h, all, a) ==
  /\ history[h].pc = "idle"
  /\ IF projectArchived
     THEN Refuse(h, "project_archived")
     ELSE UpdateHistory(h, [NoHistory EXCEPT
            !.pc = IF all THEN "artifacts" ELSE "record", !.all = all, !.todo = <<a>>])

(* Archival does not filter identifiers; newest first.                       *)
ArtifactIds(h) ==
  /\ history[h].pc = "artifacts"
  /\ UpdateHistory(h, [history[h] EXCEPT !.todo = Reverse(created), !.pc = "record"])

(* store.artifact knows nothing of an archived Project.                      *)
ReadArtifact(h) ==
  LET now == history[h] IN
  /\ now.pc = "record"
  /\ IF now.todo = <<>>
     THEN UpdateHistory(h, [now EXCEPT !.pc = "done"])
     ELSE LET found == ~projectArchived /\ \E i \in DOMAIN created : created[i] = Head(now.todo) IN
          IF found
          THEN UpdateHistory(h, [now EXCEPT !.pc = "ids", !.before = versions[Head(now.todo)]])
          ELSE IF now.all
          THEN UpdateHistory(h, [now EXCEPT !.todo = Tail(@)])
          ELSE Refuse(h, "not_found")

(* Version identifiers in commit order.                                      *)
VersionIds(a) == [i \in 1 .. versions[a] |-> i]

ReadVersionIds(h) ==
  /\ history[h].pc = "ids"
  /\ UpdateHistory(h, [history[h] EXCEPT
       !.ids = VersionIds(Head(history[h].todo)), !.pc = "versions", !.read = <<>>])

(* Versions that cannot be read are skipped.                                 *)
ReadVersion(h) ==
  LET now == history[h] IN
  /\ now.pc = "versions"
  /\ IF now.ids # <<>>
     THEN UpdateHistory(h, [now EXCEPT !.ids = Tail(@),
            !.read = IF projectArchived THEN @ ELSE Append(@, Head(now.ids))])
     ELSE UpdateHistory(h, [now EXCEPT
            !.answer = Append(@, [artifact |-> Head(now.todo), before |-> now.before,
                                  versions |-> now.read]),
            !.todo = Tail(@), !.pc = "record"])

-----------------------------------------------------------------------------

(* run_projection's arguments, evaluated in order.                           *)
ProjectionStatements == <<"run", "execution", "outputs", "turns">>

ExecutionFirst == <<"run", "execution", "outputs">>

(* pinned_run_evidence.                                                      *)
EvidenceStatements == <<"run", "outputs", "execution">>

Program(kind) ==
  IF kind = "evidence" THEN EvidenceStatements ELSE ProjectionStatements

UpdateView(v, new) ==
  /\ view' = [view EXCEPT ![v] = new]
  /\ UNCHANGED <<projectArchived, created, versions, run, history>>

(* list_runs; read_run is the same for one Run.                              *)
ReadRuns(v, rs) ==
  /\ view[v].kind = None
  /\ UpdateView(v, [NoView EXCEPT !.kind = "projection", !.of = rs])

PinnedRunEvidence(v, r) ==
  /\ view[v].kind = None
  /\ UpdateView(v, [NoView EXCEPT !.kind = "evidence", !.of = {r}])

(* Rows of rs are read by the statement that comes next for them.            *)
Select(v, rs) ==
  LET now == view[v]
      field(r) == Program(now.kind)[now.done[r] + 1]
  IN UpdateView(v, [now EXCEPT
       !.done = [r \in Runs |-> IF r \in rs THEN @[r] + 1 ELSE @[r]],
       !.rows = [r \in Runs |->
                   IF r \in rs THEN [@[r] EXCEPT ![field(r)] = run[r][field(r)]] ELSE @[r]]])

(* The first statement selects from every Run at once,                       *)
SelectAll(v) ==
  /\ view[v].kind # None
  /\ \A r \in view[v].of : view[v].done[r] = 0
  /\ Select(v, view[v].of)

(* the others follow Run by Run.                                             *)
SelectOf(v, r) ==
  LET last == Len(Program(view[v].kind)) IN
  /\ view[v].kind # None /\ r \in view[v].of
  /\ view[v].done[r] \in 1 .. last - 1
  /\ \A q \in view[v].of \ {r} : view[v].done[q] \in {1, last}
  /\ Select(v, {r})

-----------------------------------------------------------------------------
WriterNext ==
  \/ Archive
  \/ \E a \in Artifacts : CreateArtifact(a) \/ CommitVersion(a)
  \/ \E r \in Runs :
       \/ StartRun(r) \/ AppendRunOutput(r) \/ RecordRunTurn(r)
       \/ \E state \in Terminal : FinishRun(r, state)

HistoryNext ==
  \E h \in HistoryReaders :
    \/ \E all \in BOOLEAN, a \in Artifacts : LiveProject(h, all, a)
    \/ ArtifactIds(h) \/ ReadArtifact(h) \/ ReadVersionIds(h) \/ ReadVersion(h)

ViewNext ==
  \E v \in RunReaders :
    \/ \E rs \in SUBSET Runs : rs # {} /\ ReadRuns(v, rs)
    \/ \E r \in Runs : PinnedRunEvidence(v, r)
    \/ SelectAll(v)
    \/ \E r \in Runs : SelectOf(v, r)

ReadingNext == WriterNext \/ HistoryNext \/ ViewNext

ReadingSpec == ReadingInit /\ [][ReadingNext]_readingVars

-----------------------------------------------------------------------------
(* Whatever is committed or archived while a history is read, what the route *)
(* answers is a gapless prefix in commit order, so that its length is its    *)
(* head; it holds every Version there was when the Artifact was read, or the *)
(* Project is archived by now.                                               *)
HistoriesArePrefixes ==
  \A h \in HistoryReaders :
    history[h].pc = "done" =>
      \A i \in DOMAIN history[h].answer :
        LET entry == history[h].answer[i] IN
        /\ entry.versions = [n \in 1 .. Len(entry.versions) |-> n]
        /\ Len(entry.versions) <= versions[entry.artifact]
        /\ Len(entry.versions) >= entry.before \/ projectArchived

Answered(v) ==
  /\ view[v].kind # None
  /\ \A r \in view[v].of : view[v].done[r] = Len(Program(view[v].kind))

Row(v, r, f) == view[v].rows[r][f]

(* A Run shown as ended is shown with the outputs it will have for good, a   *)
(* completed one with all of them and its execution, a started one with its  *)
(* execution, although the rows are selected one by one.                     *)
EndedRunsAreWhole ==
  \A v \in RunReaders : Answered(v) =>
    \A r \in view[v].of :
      /\ Row(v, r, "run") \in Terminal => Row(v, r, "outputs") = run[r].outputs
      /\ Row(v, r, "run") = "completed" => Row(v, r, "outputs") = Outputs
      /\ Row(v, r, "run") \in {"running", "completed"} => Row(v, r, "execution")

(* The evidence handed to a Reviewer never holds outputs without the         *)
(* execution that pins their inputs.                                         *)
EvidenceIsBacked ==
  \A v \in RunReaders : Answered(v) /\ view[v].kind = "evidence" =>
    \A r \in view[v].of : Row(v, r, "outputs") > 0 => Row(v, r, "execution")

(* Histories are gapless prefixes, ended Runs are shown whole, and evidence  *)
(* is never handed out without its execution, although every reader makes    *)
(* several statements between which others write.                            *)
ReadsAreConsistent == HistoriesArePrefixes /\ EndedRunsAreWhole /\ EvidenceIsBacked
=============================================================================
