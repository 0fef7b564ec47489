---------------------------- MODULE LedgerProofs ----------------------------
(***************************************************************************)
(* Proofs about the local store, for every value of the constants.          *)
(*                                                                          *)
(* RunLedger: the type invariant, the one-use approval invariants and the   *)
(* action properties.  ArtifactLedger: the two halves of the store together *)
(* still are the approval ledger, referenced bytes are present, and the     *)
(* evidence tables are sound and append-only.  ApiRoutes: requests that     *)
(* race for a name or an approval take transactions of that ledger and are  *)
(* answered by what happened.                                               *)
(***************************************************************************)
EXTENDS ArtifactLedger, ApiRoutes, FiniteSetTheorems, TLAPS

\* Inserting a well-typed row under one of the keys keeps a table a table.
LEMMA InsertIsTable ==
    ASSUME NEW table, NEW Keys, NEW Rows, IsTable(table, Keys, Rows),
           NEW key \in Keys, NEW row \in Rows
    PROVE  IsTable(Insert(table, key, row), Keys, Rows)
  BY DEF IsTable, Insert

\* Overwriting a row that exists with a well-typed row does too.
LEMMA UpdateIsTable ==
    ASSUME NEW table, NEW Keys, NEW Rows, IsTable(table, Keys, Rows),
           NEW key \in DOMAIN table, NEW row \in Rows
    PROVE  IsTable([table EXCEPT ![key] = row], Keys, Rows)
  BY DEF IsTable

\* Consuming writes exactly the two consumption columns.
LEMMA ConsumeRow ==
    ASSUME NEW approval \in PlanApprovalRecord, NEW r \in Runs, NEW at \in Times
    PROVE  LET row == Consume(approval, r, at)
           IN  /\ row \in PlanApprovalRecord
               /\ row.consumedAt = at
               /\ row.consumedBy = r
               /\ row.project = approval.project
               /\ row.plan = approval.plan
               /\ row.approver = approval.approver
               /\ row.intent = approval.intent
               /\ row.digest = approval.digest
               /\ row.expires = approval.expires
  BY DEF Consume, PlanApprovalRecord

-----------------------------------------------------------------------------
(* Type correctness. *)

\* Project operations touch the projects table only.
LEMMA ProjectTypeOK == TypeOK /\ ProjectNext => TypeOK'
  <1> SUFFICES ASSUME TypeOK, ProjectNext PROVE TypeOK'
    OBVIOUS
  <1> PICK p \in Projects : \/ CreateProject(p)
                            \/ ArchiveProject(p)
                            \/ ArchiveRegisteredProject(p)
    BY DEF ProjectNext
  <1>1. IsTable(projects', Projects, ProjectRecord)
    <2>1. CASE CreateProject(p)
      BY <2>1, InsertIsTable DEF CreateProject, TypeOK, ProjectRecord
    <2>2. CASE ArchiveProject(p)
      <3>1. ProjectRegistered(p) \in BOOLEAN
        BY DEF ProjectRegistered, TypeOK, IsTable, ProjectRecord
      <3> QED  BY <2>2, <3>1, InsertIsTable DEF ArchiveProject, TypeOK, ProjectRecord
    <2>3. CASE ArchiveRegisteredProject(p)
      BY <2>3 DEF ArchiveRegisteredProject, ProjectRegistered, TypeOK,
                  IsTable, ProjectRecord
    <2> QED  BY <2>1, <2>2, <2>3
  <1> QED
    BY <1>1 DEF CreateProject, ArchiveProject, ArchiveRegisteredProject,
                TypeOK, IsTable

\* Session operations touch the sessions table only.
LEMMA SessionTypeOK == TypeOK /\ SessionNext => TypeOK'
  <1> SUFFICES ASSUME TypeOK, NEW p \in Projects, NEW s \in Sessions,
                      \/ \E t \in Times :
                            CreateSession(p, s, t) \/ ResumeSession(p, s, t)
                      \/ ArchiveSession(p, s)
               PROVE TypeOK'
    BY DEF SessionNext
  <1>1. IsTable(sessions', Sessions, SessionRecord)
    <2>1. ASSUME NEW t \in Times, CreateSession(p, s, t)
          PROVE  IsTable(sessions', Sessions, SessionRecord)
      BY <2>1, InsertIsTable DEF CreateSession, TypeOK, SessionRecord
    <2>2. ASSUME NEW t \in Times, ResumeSession(p, s, t)
          PROVE  IsTable(sessions', Sessions, SessionRecord)
      BY <2>2 DEF ResumeSession, SessionLive, TypeOK, IsTable, SessionRecord
    <2>3. CASE ArchiveSession(p, s)
      BY <2>3 DEF ArchiveSession, SessionLive, TypeOK, IsTable, SessionRecord
    <2> QED  BY <2>1, <2>2, <2>3
  <1> QED
    BY <1>1 DEF CreateSession, ResumeSession, ArchiveSession, TypeOK, IsTable

\* Planning and granting insert one well-typed row each.
LEMMA ApprovalTypeOK == TypeOK /\ ApprovalNext => TypeOK'
  <1> SUFFICES ASSUME TypeOK, NEW p \in Projects, NEW q \in Requesters,
                      NEW pl \in Plans, NEW i \in Intents,
                      \/ CreatePlan(p, q, pl, i)
                      \/ \E ap \in Approvals, from, until \in Times :
                            GrantApproval(p, q, ap, pl, i, from, until)
               PROVE TypeOK'
    BY DEF ApprovalNext
  <1>1. CASE CreatePlan(p, q, pl, i)
    <2>1. PlanDigest(p, q, pl, i) \in PlanDigests
      BY DEF PlanDigest, PlanDigests
    <2>2. IsTable(plans', Plans, ActionPlanRecord)
      BY <1>1, <2>1, InsertIsTable DEF CreatePlan, TypeOK, ActionPlanRecord
    <2> QED  BY <1>1, <2>2 DEF CreatePlan, TypeOK, IsTable
  <1>2. ASSUME NEW ap \in Approvals, NEW from \in Times, NEW until \in Times,
               GrantApproval(p, q, ap, pl, i, from, until)
        PROVE  TypeOK'
    <2>1. plans[pl].digest \in PlanDigests
      BY <1>2 DEF GrantApproval, PlanFound, TypeOK, IsTable, ActionPlanRecord
    <2>2. IsTable(approvals', Approvals, PlanApprovalRecord)
      BY <1>2, <2>1, InsertIsTable DEF GrantApproval, TypeOK, PlanApprovalRecord
    <2> QED  BY <1>2, <2>2 DEF GrantApproval, TypeOK, IsTable
  <1> QED  BY <1>1, <1>2

\* Queueing, starting and finishing a Run keep three tables well typed.
LEMMA RunTypeOK == TypeOK /\ RunNext => TypeOK'
  <1> SUFFICES ASSUME TypeOK, NEW p \in Projects, NEW r \in Runs,
                      \/ \E q \in Requesters, i \in Intents :
                           \/ \E pl \in Plans, ap \in Approvals,
                                 s \in Sessions \cup {NoSession} :
                                    CreateRun(p, q, r, pl, ap, s, i)
                           \/ \E e \in Executions, at \in Times :
                                    StartRun(p, q, r, e, i, at)
                      \/ \E state \in TerminalRunStates : FinishRun(p, r, state)
               PROVE TypeOK'
    BY DEF RunNext
  <1>1. ASSUME NEW q \in Requesters, NEW i \in Intents, NEW pl \in Plans,
               NEW ap \in Approvals, NEW s \in Sessions \cup {NoSession},
               CreateRun(p, q, r, pl, ap, s, i)
        PROVE  TypeOK'
    <2>1. IsTable(runs', Runs, RunRecord)
      BY <1>1, InsertIsTable DEF CreateRun, TypeOK, RunRecord, RunState
    <2> QED  BY <1>1, <2>1 DEF CreateRun, TypeOK, IsTable
  <1>2. ASSUME NEW q \in Requesters, NEW i \in Intents, NEW e \in Executions,
               NEW at \in Times, StartRun(p, q, r, e, i, at)
        PROVE  TypeOK'
    <2>1. IsTable(executions', Executions, ExecutionRecord)
      BY <1>2, InsertIsTable DEF StartRun, TypeOK, ExecutionRecord
    <2>2. IsTable(runs', Runs, RunRecord)
      BY <1>2 DEF StartRun, ClaimAccepted, RunFound, TypeOK, IsTable,
                  RunRecord, RunState
    <2>3. IsTable(approvals', Approvals, PlanApprovalRecord)
      <3>1. runs[r].approval \in DOMAIN approvals
        BY <1>2 DEF StartRun, ClaimAccepted, ApprovalFound
      <3>2. Consume(approvals[runs[r].approval], r, at) \in PlanApprovalRecord
        BY <3>1, ConsumeRow DEF TypeOK, IsTable
      <3> QED  BY <1>2, <3>1, <3>2, UpdateIsTable DEF StartRun, TypeOK
    <2> QED  BY <1>2, <2>1, <2>2, <2>3 DEF StartRun, TypeOK, IsTable
  <1>3. ASSUME NEW state \in TerminalRunStates, FinishRun(p, r, state)
        PROVE  TypeOK'
    <2>1. IsTable(runs', Runs, RunRecord)
      BY <1>3 DEF FinishRun, RunFound, TypeOK, IsTable, RunRecord, RunState,
                  TerminalRunStates
    <2> QED  BY <1>3, <2>1 DEF FinishRun, TypeOK, IsTable
  <1> QED  BY <1>1, <1>2, <1>3

\* Every reachable state is well typed, whatever operations were called.
THEOREM TypeCorrect == Spec => []TypeOK
  <1>1. Init => TypeOK
    BY DEF Init, TypeOK, IsTable, NoRows
  <1>2. TypeOK /\ [Next]_ledgerVars => TypeOK'
    <2>1. CASE UNCHANGED ledgerVars
      BY <2>1 DEF ledgerVars, TypeOK, IsTable
    <2> QED
      BY <2>1, ProjectTypeOK, SessionTypeOK, ApprovalTypeOK, RunTypeOK DEF Next
  <1> QED  BY <1>1, <1>2, PTL DEF Spec

-----------------------------------------------------------------------------
(* The inductive invariant. *)

\* Project operations write the projects table only.
LEMMA ProjectFrame ==
    ASSUME ProjectNext
    PROVE  UNCHANGED <<sessions, plans, approvals, runs, executions>>
  BY DEF ProjectNext, CreateProject, ArchiveProject, ArchiveRegisteredProject

\* Session operations write the sessions table only.
LEMMA SessionFrame ==
    ASSUME SessionNext
    PROVE  UNCHANGED <<projects, plans, approvals, runs, executions>>
  BY DEF SessionNext, CreateSession, ResumeSession, ArchiveSession

\* So they preserve it.
LEMMA OtherTablesInv ==
    ASSUME LedgerInv, TypeOK', UNCHANGED <<plans, approvals, runs, executions>>
    PROVE  LedgerInv'
  BY DEF LedgerInv, PlansDerived, ApprovalsBindPlans, OneApprovalPerPlan,
         RunsBindApprovals, ExecutionsBindRuns, OneExecutionPerRun,
         SpentApprovalsHaveExecutions, StartedRunsOwnAnExecution, RunClaimed

\* A new plan is derived, and nothing refers to it yet.
LEMMA CreatePlanInv ==
    ASSUME LedgerInv, TypeOK', NEW p \in Projects, NEW q \in Requesters,
           NEW pl \in Plans, NEW i \in Intents, CreatePlan(p, q, pl, i)
    PROVE  LedgerInv'
  <1> DEFINE new == [project |-> p, requester |-> q, intent |-> i,
                     digest |-> PlanDigest(p, q, pl, i)]
  <1>1. /\ DOMAIN plans' = DOMAIN plans \cup {pl}
        /\ plans'[pl] = new
        /\ \A k \in DOMAIN plans : plans'[k] = plans[k]
        /\ pl \notin DOMAIN plans
    BY DEF CreatePlan, Insert
  <1>2. UNCHANGED <<approvals, runs, executions>>
    BY DEF CreatePlan
  <1>3. PlansDerived'
    BY <1>1 DEF LedgerInv, PlansDerived, PlanDigest
  <1>4. ApprovalsBindPlans'
    BY <1>1, <1>2 DEF LedgerInv, ApprovalsBindPlans
  <1>5. RunsBindApprovals'
    BY <1>1, <1>2 DEF LedgerInv, RunsBindApprovals
  <1> QED
    BY <1>2, <1>3, <1>4, <1>5
    DEF LedgerInv, OneApprovalPerPlan, ExecutionsBindRuns, OneExecutionPerRun,
        SpentApprovalsHaveExecutions, StartedRunsOwnAnExecution, RunClaimed

\* A new approval copies its plan, is the plan's first and is unspent; no Run
\* names it yet.
LEMMA GrantApprovalInv ==
    ASSUME LedgerInv, TypeOK', NEW p \in Projects, NEW q \in Requesters,
           NEW pl \in Plans, NEW i \in Intents, NEW ap \in Approvals,
           NEW from \in Times, NEW until \in Times,
           GrantApproval(p, q, ap, pl, i, from, until)
    PROVE  LedgerInv'
  <1> DEFINE new == [project |-> p, plan |-> pl, approver |-> q, intent |-> i,
                     digest |-> plans[pl].digest, granted |-> from,
                     expires |-> until, consumedAt |-> NoTime,
                     consumedBy |-> NoRun]
  <1>1. /\ DOMAIN approvals' = DOMAIN approvals \cup {ap}
        /\ approvals'[ap] = new
        /\ \A k \in DOMAIN approvals : approvals'[k] = approvals[k]
        /\ ap \notin DOMAIN approvals
    BY DEF GrantApproval, Insert
  <1>2. UNCHANGED <<plans, runs, executions>>
    BY DEF GrantApproval
  <1>3. ApprovalsBindPlans'
    BY <1>1, <1>2 DEF LedgerInv, ApprovalsBindPlans, GrantApproval, PlanFound
  <1>4. OneApprovalPerPlan'
    BY <1>1 DEF LedgerInv, OneApprovalPerPlan, GrantApproval, PlanApproved
  <1>5. RunsBindApprovals'
    BY <1>1, <1>2 DEF LedgerInv, RunsBindApprovals
  <1>6. ExecutionsBindRuns'
    BY <1>1, <1>2 DEF LedgerInv, RunsBindApprovals, ExecutionsBindRuns
  <1>7. SpentApprovalsHaveExecutions'
    BY <1>1, <1>2 DEF LedgerInv, SpentApprovalsHaveExecutions, RunClaimed
  <1> QED
    BY <1>2, <1>3, <1>4, <1>5, <1>6, <1>7
    DEF LedgerInv, PlansDerived, OneExecutionPerRun,
        StartedRunsOwnAnExecution, RunClaimed

\* A new Run is queued, agrees with its plan and approval, and no execution
\* and no consumed approval names it.
LEMMA CreateRunInv ==
    ASSUME LedgerInv, TypeOK', NEW p \in Projects, NEW q \in Requesters,
           NEW r \in Runs, NEW pl \in Plans, NEW ap \in Approvals,
           NEW s \in Sessions \cup {NoSession}, NEW i \in Intents,
           CreateRun(p, q, r, pl, ap, s, i)
    PROVE  LedgerInv'
  <1> DEFINE new == [project |-> p, plan |-> pl, approval |-> ap,
                     requester |-> q, session |-> s, state |-> "queued",
                     intent |-> i]
  <1>1. /\ DOMAIN runs' = DOMAIN runs \cup {r}
        /\ runs'[r] = new
        /\ \A k \in DOMAIN runs : runs'[k] = runs[k]
        /\ r \notin DOMAIN runs
    BY DEF CreateRun, Insert
  <1>2. UNCHANGED <<plans, approvals, executions>>
    BY DEF CreateRun
  <1>3. ~RunClaimed(r)
    BY <1>1 DEF LedgerInv, ExecutionsBindRuns, RunClaimed
  <1>4. RunsBindApprovals'
    BY <1>1, <1>2
    DEF LedgerInv, RunsBindApprovals, ApprovalsBindPlans, CreateRun,
        PlanFound, ApprovalFound
  <1>5. ExecutionsBindRuns'
    BY <1>1, <1>2 DEF LedgerInv, ExecutionsBindRuns
  <1>6. SpentApprovalsHaveExecutions'
    BY <1>1, <1>2 DEF LedgerInv, SpentApprovalsHaveExecutions, RunClaimed
  <1>7. StartedRunsOwnAnExecution'
    BY <1>1, <1>2, <1>3 DEF LedgerInv, StartedRunsOwnAnExecution, RunClaimed
  <1> QED
    BY <1>2, <1>4, <1>5, <1>6, <1>7
    DEF LedgerInv, PlansDerived, ApprovalsBindPlans, OneApprovalPerPlan,
        OneExecutionPerRun

\* Starting spends an unspent approval for a Run that had no execution, so
\* the approval, the execution and the Run come to agree in one step.
LEMMA StartRunInv ==
    ASSUME LedgerInv, TypeOK', NEW p \in Projects, NEW q \in Requesters,
           NEW r \in Runs, NEW e \in Executions, NEW i \in Intents,
           NEW at \in Times, StartRun(p, q, r, e, i, at)
    PROVE  LedgerInv'
  <1> DEFINE ap == runs[r].approval
  <1>1. /\ r \in DOMAIN runs
        /\ runs[r].project = p
        /\ ap \in DOMAIN approvals
        /\ approvals[ap].consumedBy = NoRun
        /\ runs[r].state = "queued"
        /\ runs[r].intent = i
        /\ at < approvals[ap].expires
        /\ e \notin DOMAIN executions
        /\ ~RunClaimed(r)
    BY DEF StartRun, ClaimAccepted, RunFound, ApprovalFound, Replayed,
           ClaimDigestsAgree
  <1>2. /\ DOMAIN runs' = DOMAIN runs
        /\ runs'[r].state = "running"
        /\ \A k \in DOMAIN runs : k # r => runs'[k] = runs[k]
        /\ runs'[r].project = runs[r].project
        /\ runs'[r].plan = runs[r].plan
        /\ runs'[r].approval = runs[r].approval
        /\ runs'[r].requester = runs[r].requester
        /\ runs'[r].intent = runs[r].intent
    BY <1>1 DEF StartRun, LedgerInv, TypeOK, IsTable, RunRecord
  <1>3. /\ DOMAIN executions' = DOMAIN executions \cup {e}
        /\ executions'[e] = [project |-> p, run |-> r, intent |-> i]
        /\ \A k \in DOMAIN executions : executions'[k] = executions[k]
    BY <1>1 DEF StartRun, Insert
  <1>4. /\ DOMAIN approvals' = DOMAIN approvals
        /\ approvals'[ap] = Consume(approvals[ap], r, at)
        /\ \A k \in DOMAIN approvals : k # ap => approvals'[k] = approvals[k]
    BY <1>1 DEF StartRun, LedgerInv, TypeOK, IsTable
  <1>5. /\ approvals'[ap].consumedAt = at
        /\ approvals'[ap].consumedBy = r
        /\ approvals'[ap].project = approvals[ap].project
        /\ approvals'[ap].plan = approvals[ap].plan
        /\ approvals'[ap].approver = approvals[ap].approver
        /\ approvals'[ap].intent = approvals[ap].intent
        /\ approvals'[ap].digest = approvals[ap].digest
        /\ approvals'[ap].expires = approvals[ap].expires
    BY <1>1, <1>4, ConsumeRow DEF LedgerInv, TypeOK, IsTable
  <1>6. UNCHANGED plans
    BY DEF StartRun
  <1> HIDE DEF ap
  <1>7. ApprovalsBindPlans'
    BY <1>1, <1>4, <1>5, <1>6, NullAssumption DEF LedgerInv, ApprovalsBindPlans
  <1>8. OneApprovalPerPlan'
    BY <1>1, <1>4, <1>5 DEF LedgerInv, OneApprovalPerPlan
  <1>9. RunsBindApprovals'
    BY <1>1, <1>2, <1>4, <1>5, <1>6 DEF LedgerInv, RunsBindApprovals
  <1>10. ExecutionsBindRuns'
    <2>1. runs[r].approval = ap
      BY DEF ap
    <2>2. ASSUME NEW f \in DOMAIN executions
          PROVE  runs[executions[f].run].approval # ap
      BY <1>1, <2>1, NullAssumption DEF LedgerInv, ExecutionsBindRuns, RunClaimed,
         TypeOK, IsTable, ExecutionRecord
    <2> QED
      BY <1>1, <1>2, <1>3, <1>4, <1>5, <2>1, <2>2
      DEF LedgerInv, ExecutionsBindRuns, RunClaimed, RunsBindApprovals
  <1>11. OneExecutionPerRun'
    BY <1>1, <1>3 DEF LedgerInv, OneExecutionPerRun, RunClaimed
  <1>12. \A k : RunClaimed(k)' <=> RunClaimed(k) \/ k = r
    BY <1>3 DEF RunClaimed
  <1>13. SpentApprovalsHaveExecutions'
    <2>1. runs[r].approval = ap
      BY DEF ap
    <2> QED
      BY <1>1, <1>2, <1>4, <1>5, <1>12, <2>1
      DEF LedgerInv, SpentApprovalsHaveExecutions
  <1>14. StartedRunsOwnAnExecution'
    BY <1>1, <1>2, <1>12 DEF LedgerInv, StartedRunsOwnAnExecution
  <1> QED
    BY <1>6, <1>7, <1>8, <1>9, <1>10, <1>11, <1>13, <1>14
    DEF LedgerInv, PlansDerived

\* Finishing changes one Run's state only; a Run that completes was running.
LEMMA FinishRunInv ==
    ASSUME LedgerInv, TypeOK', NEW p \in Projects, NEW r \in Runs,
           NEW state \in TerminalRunStates, FinishRun(p, r, state)
    PROVE  LedgerInv'
  <1>1. /\ r \in DOMAIN runs
        /\ runs[r].state \in TerminalSources(state)
        /\ DOMAIN runs' = DOMAIN runs
        /\ runs'[r].state = state
        /\ \A k \in DOMAIN runs : k # r => runs'[k] = runs[k]
        /\ runs'[r].project = runs[r].project
        /\ runs'[r].plan = runs[r].plan
        /\ runs'[r].approval = runs[r].approval
        /\ runs'[r].requester = runs[r].requester
        /\ runs'[r].intent = runs[r].intent
    BY DEF FinishRun, RunFound, LedgerInv, TypeOK, IsTable, RunRecord
  <1>2. UNCHANGED <<plans, approvals, executions>>
    BY DEF FinishRun
  <1>3. RunsBindApprovals'
    BY <1>1, <1>2 DEF LedgerInv, RunsBindApprovals
  <1>4. ExecutionsBindRuns'
    BY <1>1, <1>2 DEF LedgerInv, ExecutionsBindRuns
  <1>5. SpentApprovalsHaveExecutions'
    BY <1>1, <1>2 DEF LedgerInv, SpentApprovalsHaveExecutions, RunClaimed
  <1>6. StartedRunsOwnAnExecution'
    BY <1>1, <1>2
    DEF LedgerInv, StartedRunsOwnAnExecution, RunClaimed, TerminalSources,
        TerminalRunStates
  <1> QED
    BY <1>2, <1>3, <1>4, <1>5, <1>6
    DEF LedgerInv, PlansDerived, ApprovalsBindPlans, OneApprovalPerPlan,
        OneExecutionPerRun

\* Every operation of the ledger keeps them.
LEMMA LedgerStep == LedgerInv /\ [Next]_ledgerVars => LedgerInv'
  <1> SUFFICES ASSUME LedgerInv, [Next]_ledgerVars PROVE LedgerInv'
    OBVIOUS
  <1>1. TypeOK'
    <2>1. CASE UNCHANGED ledgerVars
      BY <2>1 DEF ledgerVars, LedgerInv, TypeOK, IsTable
    <2> QED
      BY <2>1, ProjectTypeOK, SessionTypeOK, ApprovalTypeOK, RunTypeOK
      DEF Next, LedgerInv
  <1>2. CASE UNCHANGED ledgerVars
    BY <1>1, <1>2, OtherTablesInv DEF ledgerVars
  <1>3. CASE ProjectNext
    BY <1>1, <1>3, ProjectFrame, OtherTablesInv
  <1>4. CASE SessionNext
    BY <1>1, <1>4, SessionFrame, OtherTablesInv
  <1>5. CASE ApprovalNext
    BY <1>1, <1>5, CreatePlanInv, GrantApprovalInv DEF ApprovalNext
  <1>6. CASE RunNext
    BY <1>1, <1>6, CreateRunInv, StartRunInv, FinishRunInv DEF RunNext
  <1> QED  BY <1>2, <1>3, <1>4, <1>5, <1>6 DEF Next

\* The bindings between plans, approvals, Runs and executions hold in every
\* reachable state.
THEOREM LedgerInvariant == Spec => []LedgerInv
  <1>1. Init => LedgerInv
    BY DEF Init, LedgerInv, TypeOK, IsTable, NoRows, PlansDerived,
           ApprovalsBindPlans, OneApprovalPerPlan, RunsBindApprovals,
           ExecutionsBindRuns, OneExecutionPerRun,
           SpentApprovalsHaveExecutions, StartedRunsOwnAnExecution
  <1>2. LedgerInv /\ [Next]_ledgerVars => LedgerInv'
    BY LedgerStep
  <1> QED  BY <1>1, <1>2, PTL DEF Spec

-----------------------------------------------------------------------------
(* What the invariant gives. *)

\* An approval is spent exactly when, and by exactly the Run for which, an
\* execution exists.
THEOREM OneUseApproval == Spec => []ApprovalSpentByItsExecution
  <1>1. LedgerInv => ApprovalSpentByItsExecution
    <2> SUFFICES ASSUME LedgerInv PROVE ApprovalSpentByItsExecution
      OBVIOUS
    <2>1. ASSUME NEW ap \in DOMAIN approvals, approvals[ap].consumedBy # NoRun
          PROVE  /\ approvals[ap].consumedAt # NoTime
                 /\ \E e \in DOMAIN executions :
                       /\ executions[e].run = approvals[ap].consumedBy
                       /\ executions[e].run \in DOMAIN runs
                       /\ runs[executions[e].run].approval = ap
      BY <2>1 DEF LedgerInv, ApprovalsBindPlans, SpentApprovalsHaveExecutions,
                  RunClaimed
    <2>2. ASSUME NEW e \in DOMAIN executions
          PROVE  /\ executions[e].run \in DOMAIN runs
                 /\ runs[executions[e].run].approval \in DOMAIN approvals
                 /\ approvals[runs[executions[e].run].approval].consumedBy
                       = executions[e].run
      BY DEF LedgerInv, ExecutionsBindRuns, RunsBindApprovals
    <2> QED  BY <2>1, <2>2 DEF ApprovalSpentByItsExecution
  <1> QED  BY <1>1, LedgerInvariant, PTL

\* No sequence of grants, queued Runs and claims executes one plan twice.
THEOREM PlanOnce == Spec => []PlanExecutesOnce
  <1>1. LedgerInv => PlanExecutesOnce
    <2> SUFFICES ASSUME LedgerInv, NEW e \in DOMAIN executions,
                        NEW f \in DOMAIN executions,
                        runs[executions[e].run].plan = runs[executions[f].run].plan
                 PROVE  e = f
      BY DEF PlanExecutesOnce
    <2>1. /\ executions[e].run \in DOMAIN runs
          /\ executions[f].run \in DOMAIN runs
      BY DEF LedgerInv, ExecutionsBindRuns
    <2>2. runs[executions[e].run].approval = runs[executions[f].run].approval
      BY <2>1 DEF LedgerInv, RunsBindApprovals, OneApprovalPerPlan
    <2>3. executions[e].run = executions[f].run
      BY <2>2 DEF LedgerInv, ExecutionsBindRuns
    <2> QED  BY <2>3 DEF LedgerInv, OneExecutionPerRun
  <1> QED  BY <1>1, LedgerInvariant, PTL

\* A running or completed Run owns an execution; a queued one owns none.
THEOREM StartedRuns == Spec => []StartedRunsOwnAnExecution
  BY LedgerInvariant, PTL DEF LedgerInv

\* An execution's digests, Project, requester and time are the approved ones.
THEOREM ApprovedExecution == Spec => []ExecutedWhatWasApproved
  <1>1. LedgerInv => ExecutedWhatWasApproved
    <2> SUFFICES ASSUME LedgerInv, NEW e \in DOMAIN executions
                 PROVE  LET exec == executions[e]
                            run == runs[exec.run]
                            plan == plans[run.plan]
                            approval == approvals[run.approval]
                        IN  /\ run.project = exec.project
                            /\ plan.project = exec.project
                            /\ approval.project = exec.project
                            /\ approval.plan = run.plan
                            /\ plan.requester = run.requester
                            /\ approval.approver = run.requester
                            /\ approval.intent = exec.intent
                            /\ approval.digest = PlanDigest(exec.project,
                                  run.requester, run.plan, exec.intent)
                            /\ approval.consumedAt < approval.expires
      BY DEF ExecutedWhatWasApproved
    <2> DEFINE r == executions[e].run
               ap == runs[r].approval
               pl == runs[r].plan
    <2>1. /\ r \in DOMAIN runs
          /\ runs[r].project = executions[e].project
          /\ runs[r].intent = executions[e].intent
          /\ approvals[ap].consumedBy = r
      BY DEF LedgerInv, ExecutionsBindRuns
    <2>2. /\ pl \in DOMAIN plans
          /\ ap \in DOMAIN approvals
          /\ approvals[ap].plan = pl
          /\ approvals[ap].project = runs[r].project
          /\ approvals[ap].approver = runs[r].requester
          /\ approvals[ap].intent = runs[r].intent
      BY <2>1 DEF LedgerInv, RunsBindApprovals
    <2>3. approvals[ap].consumedBy # NoRun
      BY <2>1, NullAssumption DEF LedgerInv, TypeOK, IsTable
    <2>4. /\ plans[pl].project = approvals[ap].project
          /\ plans[pl].requester = approvals[ap].approver
          /\ plans[pl].intent = approvals[ap].intent
          /\ plans[pl].digest = approvals[ap].digest
          /\ approvals[ap].consumedAt < approvals[ap].expires
      BY <2>2, <2>3 DEF LedgerInv, ApprovalsBindPlans
    <2>5. plans[pl].digest = PlanDigest(plans[pl].project, plans[pl].requester,
                                        pl, plans[pl].intent)
      BY <2>2 DEF LedgerInv, PlansDerived
    <2> QED  BY <2>1, <2>2, <2>4, <2>5
  <1> QED  BY <1>1, LedgerInvariant, PTL

-----------------------------------------------------------------------------
(* Action properties. *)

\* Only StartRun touches an approval row, and only an unspent one.
THEOREM ApprovalsStaySpent == Spec => SpentApprovalsStaySpent
  <1> DEFINE Forward == \A ap \in DOMAIN approvals :
                        /\ ap \in DOMAIN approvals'
                        /\ approvals[ap].consumedBy # NoRun =>
                              approvals'[ap] = approvals[ap]
  <1>1. LedgerInv /\ [Next]_ledgerVars => [Forward]_ledgerVars
    <2> SUFFICES ASSUME LedgerInv, Next PROVE Forward
      OBVIOUS
    <2>1. CASE UNCHANGED approvals
      BY <2>1
    <2>2. ASSUME NEW p \in Projects, NEW q \in Requesters, NEW pl \in Plans,
                 NEW i \in Intents, NEW ap \in Approvals, NEW from \in Times,
                 NEW until \in Times, GrantApproval(p, q, ap, pl, i, from, until)
          PROVE  Forward
      BY <2>2 DEF GrantApproval, Insert
    <2>3. ASSUME NEW p \in Projects, NEW q \in Requesters, NEW r \in Runs,
                 NEW e \in Executions, NEW i \in Intents, NEW at \in Times,
                 StartRun(p, q, r, e, i, at)
          PROVE  Forward
      <3>1. approvals[runs[r].approval].consumedBy = NoRun
        BY <2>3 DEF StartRun, ClaimAccepted, Replayed
      <3> QED  BY <2>3, <3>1 DEF StartRun, LedgerInv, TypeOK, IsTable
    <2> HIDE DEF Forward
    <2>4. CASE ProjectNext \/ SessionNext
      BY <2>1, <2>4, ProjectFrame, SessionFrame
    <2>5. CASE ApprovalNext
      BY <2>1, <2>2, <2>5 DEF ApprovalNext, CreatePlan
    <2>6. CASE RunNext
      <3>1. ASSUME NEW p, NEW q, NEW r, NEW pl, NEW ap, NEW s, NEW i,
                   CreateRun(p, q, r, pl, ap, s, i)
            PROVE  Forward
        BY <2>1, <3>1 DEF CreateRun
      <3>2. ASSUME NEW p, NEW r, NEW state, FinishRun(p, r, state)
            PROVE  Forward
        BY <2>1, <3>2 DEF FinishRun
      <3> QED  BY <2>3, <2>6, <3>1, <3>2 DEF RunNext
    <2> QED  BY <2>4, <2>5, <2>6 DEF Next
  <1> QED  BY <1>1, LedgerInvariant, PTL DEF Spec, SpentApprovalsStaySpent

\* StartRun moves a queued Run and FinishRun an unfinished one; nothing else
\* writes a Run row that exists.
THEOREM RunsMoveForward == Spec => RunsOnlyMoveForward
  <1> DEFINE Forward == \A r \in DOMAIN runs :
                /\ r \in DOMAIN runs'
                /\ runs'[r].approval = runs[r].approval
                /\ runs[r].state \in TerminalRunStates => runs'[r] = runs[r]
                /\ runs[r].state = "running" => runs'[r].state # "queued"
  <1>1. LedgerInv /\ [Next]_ledgerVars => [Forward]_ledgerVars
    <2> SUFFICES ASSUME LedgerInv, Next PROVE Forward
      OBVIOUS
    <2>1. CASE UNCHANGED runs
      BY <2>1
    <2>2. ASSUME NEW p \in Projects, NEW q \in Requesters, NEW r \in Runs,
                 NEW pl \in Plans, NEW ap \in Approvals,
                 NEW s \in Sessions \cup {NoSession}, NEW i \in Intents,
                 CreateRun(p, q, r, pl, ap, s, i)
          PROVE  Forward
      BY <2>2 DEF CreateRun, Insert
    <2>3. ASSUME NEW p \in Projects, NEW q \in Requesters, NEW r \in Runs,
                 NEW e \in Executions, NEW i \in Intents, NEW at \in Times,
                 StartRun(p, q, r, e, i, at)
          PROVE  Forward
      <3>1. runs[r].state = "queued"
        BY <2>3 DEF StartRun, ClaimAccepted, Replayed
      <3>2. /\ DOMAIN runs' = DOMAIN runs
            /\ \A k \in DOMAIN runs : k # r => runs'[k] = runs[k]
            /\ r \in DOMAIN runs => runs'[r].approval = runs[r].approval
        BY <2>3 DEF StartRun, LedgerInv, TypeOK, IsTable, RunRecord
      <3> QED  BY <3>1, <3>2 DEF TerminalRunStates
    <2>4. ASSUME NEW p \in Projects, NEW r \in Runs,
                 NEW state \in TerminalRunStates, FinishRun(p, r, state)
          PROVE  Forward
      <3>1. runs[r].state \in {"queued", "running"}
        BY <2>4 DEF FinishRun, TerminalSources
      <3>2. /\ DOMAIN runs' = DOMAIN runs
            /\ \A k \in DOMAIN runs : k # r => runs'[k] = runs[k]
            /\ r \in DOMAIN runs => /\ runs'[r].approval = runs[r].approval
                                    /\ runs'[r].state = state
        BY <2>4 DEF FinishRun, LedgerInv, TypeOK, IsTable, RunRecord
      <3> QED  BY <3>1, <3>2 DEF TerminalRunStates
    <2> HIDE DEF Forward
    <2>5. CASE ProjectNext \/ SessionNext
      BY <2>1, <2>5, ProjectFrame, SessionFrame
    <2>6. CASE ApprovalNext
      <3>1. ASSUME NEW p, NEW q, NEW pl, NEW i, CreatePlan(p, q, pl, i)
            PROVE  Forward
        BY <2>1, <3>1 DEF CreatePlan
      <3>2. ASSUME NEW p, NEW q, NEW ap, NEW pl, NEW i, NEW from, NEW until,
                   GrantApproval(p, q, ap, pl, i, from, until)
            PROVE  Forward
        BY <2>1, <3>2 DEF GrantApproval
      <3> QED  BY <2>6, <3>1, <3>2 DEF ApprovalNext
    <2>7. CASE RunNext
      BY <2>2, <2>3, <2>4, <2>7 DEF RunNext
    <2> QED  BY <2>5, <2>6, <2>7 DEF Next
  <1> QED  BY <1>1, LedgerInvariant, PTL DEF Spec, RunsOnlyMoveForward

\* Every operation that creates a row or starts a Run tests _archived first,
\* and no operation clears the flag.
THEOREM ArchivedFrozen == Spec => ArchivedProjectsAreFrozen
  <1> DEFINE
        Sessions_(p) == \A s \in DOMAIN sessions' :
            sessions'[s].project = p =>
                s \in DOMAIN sessions /\ sessions'[s] = sessions[s]
        Plans_(p) == \A pl \in DOMAIN plans' :
            plans'[pl].project = p => pl \in DOMAIN plans
        Approvals_(p) == \A ap \in DOMAIN approvals' :
            approvals'[ap].project = p =>
                ap \in DOMAIN approvals /\ approvals'[ap] = approvals[ap]
        Runs_(p) == \A r \in DOMAIN runs' :
            runs'[r].project = p =>
                /\ r \in DOMAIN runs
                /\ runs'[r].state # runs[r].state =>
                      runs'[r].state \in TerminalRunStates
        Executions_(p) == \A e \in DOMAIN executions' :
            executions'[e].project = p => e \in DOMAIN executions
        Frozen(p) == /\ Archived(p)'
                     /\ Sessions_(p)
                     /\ Plans_(p)
                     /\ Approvals_(p)
                     /\ Runs_(p)
                     /\ Executions_(p)
  <1>1. ASSUME LedgerInv, [Next]_ledgerVars, NEW p \in Projects, Archived(p)
        PROVE  Frozen(p)
    <2>1. CASE UNCHANGED ledgerVars
      BY <1>1, <2>1 DEF ledgerVars, Archived
    <2>2. CASE ProjectNext
      <3>1. UNCHANGED <<sessions, plans, approvals, runs, executions>>
        BY <2>2, ProjectFrame
      <3>2. ASSUME NEW x \in Projects, CreateProject(x)
            PROVE  Archived(p)'
        BY <1>1, <3>2 DEF CreateProject, Archived, Insert
      <3>3. ASSUME NEW x \in Projects, ArchiveProject(x)
            PROVE  Archived(p)'
        BY <1>1, <3>3 DEF ArchiveProject, Archived, Insert
      <3>4. ASSUME NEW x \in Projects, ArchiveRegisteredProject(x)
            PROVE  Archived(p)'
        BY <1>1, <3>4 DEF ArchiveRegisteredProject, Archived,
                          ProjectRegistered, LedgerInv, TypeOK, IsTable,
                          ProjectRecord
      <3>5. Archived(p)'
        BY <2>2, <3>2, <3>3, <3>4 DEF ProjectNext
      <3> QED  BY <3>1, <3>5
    <2>3. CASE SessionNext
      <3>1. UNCHANGED <<projects, plans, approvals, runs, executions>>
        BY <2>3, SessionFrame
      <3>2. ASSUME NEW x \in Projects, NEW s \in Sessions, NEW t \in Times,
                   CreateSession(x, s, t)
            PROVE  Sessions_(p)
        BY <1>1, <3>2 DEF CreateSession, Insert
      <3>3. ASSUME NEW x \in Projects, NEW s \in Sessions, NEW t \in Times,
                   ResumeSession(x, s, t)
            PROVE  Sessions_(p)
        BY <1>1, <3>3 DEF ResumeSession, SessionLive, LedgerInv, TypeOK,
                          IsTable, SessionRecord
      <3>4. ASSUME NEW x \in Projects, NEW s \in Sessions,
                   ArchiveSession(x, s)
            PROVE  Sessions_(p)
        BY <1>1, <3>4 DEF ArchiveSession, SessionLive, LedgerInv, TypeOK,
                          IsTable, SessionRecord
      <3> HIDE DEF Sessions_
      <3>5. Sessions_(p)
        BY <2>3, <3>2, <3>3, <3>4 DEF SessionNext
      <3> QED  BY <1>1, <3>1, <3>5 DEF Archived
    <2>4. CASE ApprovalNext
      <3>1. ASSUME NEW x \in Projects, NEW q \in Requesters, NEW pl \in Plans,
                   NEW i \in Intents, CreatePlan(x, q, pl, i)
            PROVE  Frozen(p)
        BY <1>1, <3>1 DEF CreatePlan, Insert, Archived
      <3>2. ASSUME NEW x \in Projects, NEW q \in Requesters, NEW pl \in Plans,
                   NEW i \in Intents, NEW ap \in Approvals, NEW from \in Times,
                   NEW until \in Times,
                   GrantApproval(x, q, ap, pl, i, from, until)
            PROVE  Frozen(p)
        BY <1>1, <3>2 DEF GrantApproval, Insert, Archived
      <3> HIDE DEF Frozen
      <3> QED  BY <2>4, <3>1, <3>2 DEF ApprovalNext
    <2>5. CASE RunNext
      <3>1. ASSUME NEW x \in Projects, NEW q \in Requesters, NEW r \in Runs,
                   NEW pl \in Plans, NEW ap \in Approvals,
                   NEW s \in Sessions \cup {NoSession}, NEW i \in Intents,
                   CreateRun(x, q, r, pl, ap, s, i)
            PROVE  Frozen(p)
        BY <1>1, <3>1 DEF CreateRun, Insert, Archived
      <3>2. ASSUME NEW x \in Projects, NEW q \in Requesters, NEW r \in Runs,
                   NEW e \in Executions, NEW i \in Intents, NEW at \in Times,
                   StartRun(x, q, r, e, i, at)
            PROVE  Frozen(p)
        <4>1. /\ UNCHANGED <<projects, sessions, plans>>
              /\ x # p
              /\ runs[r].project = x
              /\ runs[r].approval \in DOMAIN approvals
              /\ approvals[runs[r].approval].project = x
          BY <1>1, <3>2 DEF StartRun, ClaimAccepted, RunFound, ApprovalFound
        <4>2. Approvals_(p)
          <5>1. approvals[runs[r].approval] \in PlanApprovalRecord
            BY <1>1, <4>1 DEF LedgerInv, TypeOK, IsTable
          <5>2. Consume(approvals[runs[r].approval], r, at).project = x
            BY <4>1, <5>1, ConsumeRow
          <5> QED
            BY <1>1, <3>2, <4>1, <5>2 DEF StartRun, LedgerInv, TypeOK, IsTable
        <4>3. Runs_(p)
          BY <1>1, <3>2, <4>1 DEF StartRun, LedgerInv, TypeOK, IsTable, RunRecord
        <4>4. Executions_(p)
          BY <3>2, <4>1 DEF StartRun, Insert
        <4> QED  BY <1>1, <4>1, <4>2, <4>3, <4>4 DEF Archived
      <3>3. ASSUME NEW x \in Projects, NEW r \in Runs,
                   NEW state \in TerminalRunStates, FinishRun(x, r, state)
            PROVE  Frozen(p)
        <4>1. Runs_(p)
          BY <1>1, <3>3 DEF FinishRun, LedgerInv, TypeOK, IsTable, RunRecord
        <4>2. UNCHANGED <<projects, sessions, plans, approvals, executions>>
          BY <3>3 DEF FinishRun
        <4> QED  BY <1>1, <4>1, <4>2 DEF Archived
      <3> HIDE DEF Frozen
      <3> QED  BY <2>5, <3>1, <3>2, <3>3 DEF RunNext
    <2> HIDE DEF Frozen
    <2> QED  BY <1>1, <2>1, <2>2, <2>3, <2>4, <2>5 DEF Next
  <1>2. LedgerInv /\ [Next]_ledgerVars
           => [\A p \in Projects : Archived(p) => Frozen(p)]_ledgerVars
    BY <1>1
  <1> QED  BY <1>2, LedgerInvariant, PTL DEF Spec, ArchivedProjectsAreFrozen

(***************************************************************************)
(* The two together, as the run checks them.                                *)
(***************************************************************************)

\* However many approvals are granted and Runs queued, in any order and in any
\* number of Projects, a plan executes at most once, on an approval spent by
\* that very execution (start_run).
THEOREM SpentOnce == Spec => []ApprovalsAreSpentOnce
  BY TypeCorrect, OneUseApproval, PlanOnce, StartedRuns, PTL
     DEF ApprovalsAreSpentOnce

\* No transaction of the store rewrites a finished Run, a spent approval or an
\* archived Project.
THEOREM NeverRewritten == Spec => LedgerNeverRewrites
  BY RunsMoveForward, ApprovalsStaySpent, ArchivedFrozen
     DEF LedgerNeverRewrites

-----------------------------------------------------------------------------
(* The approval half is untouched by the artifact half. *)

\* Every operation on Artifacts, Versions, inputs, outputs, links and blobs
\* leaves the approval tables alone.
LEMMA ArtifactStepsFrame ==
    ASSUME VersionNext \/ InputNext \/ OutputNext
               \/ \E swept \in SUBSET Digests : Sweep(swept)
    PROVE  UNCHANGED ledgerVars
  <1>1. CASE VersionNext
    <2>1. ASSUME NEW p, NEW base, NEW v, NEW row,
                 CommitVersion(p, base, v, row) \/ CommitVersionAborted(p, base, v, row)
          PROVE  UNCHANGED ledgerVars
      BY <2>1 DEF CommitVersion, CommitVersionAborted, ledgerVars
    <2>2. ASSUME NEW p, NEW a, CreateArtifact(p, a)
          PROVE  UNCHANGED ledgerVars
      BY <2>2 DEF CreateArtifact, ledgerVars
    <2> QED
      BY <1>1, <2>1, <2>2 DEF VersionNext
  <1>2. CASE InputNext
    BY <1>2 DEF InputNext, RecordInput, RecordInputAborted, ledgerVars
  <1>3. CASE OutputNext
    BY <1>3 DEF OutputNext, AppendOutput, AttachSession, ledgerVars
  <1>4. CASE \E swept \in SUBSET Digests : Sweep(swept)
    BY <1>4 DEF Sweep, ledgerVars
  <1> QED
    BY <1>1, <1>2, <1>3, <1>4

\* The whole store implements the approval ledger, so all that is proved of
\* RunLedger holds of it (store.py keeps both halves in one database).
THEOREM LedgerImplemented == ArtifactSpec => Spec
  <1>1. ArtifactInit => Init
    BY DEF ArtifactInit
  <1>2. [ArtifactNext]_allVars => [Next]_ledgerVars
    BY ArtifactStepsFrame DEF ArtifactNext, allVars
  <1> QED
    BY <1>1, <1>2, PTL DEF ArtifactSpec, Spec

-----------------------------------------------------------------------------
(* Bytes. *)

\* Rows that name content have their file, after any sweep and any commit cut
\* short between publishing and inserting (commit_version, _record_input_locked,
\* sweep_unreferenced_blobs).
THEOREM BlobsPresent == ArtifactSpec => []ReferencedBlobsPresent
  <1>1. ArtifactInit => ReferencedBlobsPresent
    BY DEF ArtifactInit, ReferencedBlobsPresent, ReferencedDigests, NoRows
  <1>2. ReferencedBlobsPresent /\ [ArtifactNext]_allVars => ReferencedBlobsPresent'
    <2> SUFFICES ASSUME ReferencedBlobsPresent, [ArtifactNext]_allVars
                 PROVE  ReferencedBlobsPresent'
      OBVIOUS
    <2>1. CASE UNCHANGED <<versions, inputs, blobs>>
      BY <2>1 DEF ReferencedBlobsPresent, ReferencedDigests
    <2>2. CASE VersionNext
      <3>1. ASSUME NEW p, NEW base, NEW v, NEW row, CommitVersion(p, base, v, row)
            PROVE  ReferencedBlobsPresent'
        BY <3>1 DEF CommitVersion, Insert, ReferencedBlobsPresent, ReferencedDigests
      <3>2. ASSUME NEW p, NEW base, NEW v, NEW row,
                   CommitVersionAborted(p, base, v, row)
            PROVE  ReferencedBlobsPresent'
        BY <3>2 DEF CommitVersionAborted, ReferencedBlobsPresent, ReferencedDigests
      <3>3. ASSUME NEW p, NEW a, CreateArtifact(p, a)
            PROVE  ReferencedBlobsPresent'
        BY <3>3 DEF CreateArtifact, ReferencedBlobsPresent, ReferencedDigests
      <3> QED
        BY <2>2, <3>1, <3>2, <3>3 DEF VersionNext
    <2>3. CASE InputNext
      <3>1. ASSUME NEW p, NEW e, NEW kind, NEW payload,
                   \/ RecordInput(p, e, kind, payload)
                   \/ RecordInputAborted(p, e, kind, payload)
            PROVE  ReferencedBlobsPresent'
        <4>1. CASE RecordInput(p, e, kind, payload)
          BY <4>1 DEF RecordInput, Insert, ReferencedBlobsPresent, ReferencedDigests
        <4>2. CASE RecordInputAborted(p, e, kind, payload)
          BY <4>2 DEF RecordInputAborted, ReferencedBlobsPresent, ReferencedDigests
        <4> QED
          BY <3>1, <4>1, <4>2
      <3> QED
        BY <2>3, <3>1 DEF InputNext
    <2>4. CASE OutputNext
      BY <2>4 DEF OutputNext, AppendOutput, AttachSession, ReferencedBlobsPresent,
                  ReferencedDigests
    <2>5. CASE \E swept \in SUBSET Digests : Sweep(swept)
      BY <2>5 DEF Sweep, ReferencedBlobsPresent, ReferencedDigests
    <2> QED
      BY <2>1, <2>2, <2>3, <2>4, <2>5 DEF ArtifactNext, artifactVars, allVars
  <1> QED
    BY <1>1, <1>2, PTL DEF ArtifactSpec

-----------------------------------------------------------------------------
(* The inductive invariant is LedgerInv, EvidenceIsSound and that Versions  *)
(* are finitely many.  That numbers stay                                    *)
(* gapless needs the head a committer compares with to be the number of     *)
(* Versions; that lineage stays well founded needs every input to exist     *)
(* when its Version is inserted; outputs and links need that the rows of    *)
(* the approval half never change their Project, Run or Session.            *)

\* Sequence numbers of a Run's outputs.
Sequences_(r) == {n \in 1..MaxOutputs : <<r, n>> \in DOMAIN outputs}

\* The head of a gapless chain is its length.
LEMMA HeadOfInterval ==
    ASSUME NEW n \in Nat
    PROVE  LET numbers == 1..n
           IN  n = IF numbers = {} THEN 0
                   ELSE CHOOSE k \in numbers : \A m \in numbers : m <= k
  <1>1. CASE n = 0
    BY <1>1
  <1>2. CASE n # 0
    <2>1. n \in 1..n /\ \A m \in 1..n : m <= n
      BY <1>2
    <2>2. \A k \in 1..n : (\A m \in 1..n : m <= k) => k = n
      BY <2>1
    <2> QED
      BY <2>1, <2>2
  <1> QED
    BY <1>1, <1>2

\* The Versions of an Artifact are finitely many.
LEMMA VersionsFinite ==
    ASSUME IsFiniteSet(DOMAIN versions), NEW a
    PROVE  IsFiniteSet(VersionsOf(a)) /\ Cardinality(VersionsOf(a)) \in Nat
  BY FS_Subset, FS_CardinalityType DEF VersionsOf

\* The head commit_version compares with is the number of Versions.
LEMMA HeadIsCount ==
    ASSUME IsFiniteSet(DOMAIN versions), VersionChainsGapless, NEW p, NEW a \in Artifacts,
           ArtifactFound(p, a)
    PROVE  HeadVersionNo(p, a) = Cardinality(VersionsOf(a))
  <1>1. {w \in VersionsOf(a) : versions[w].project = p} = VersionsOf(a)
    BY DEF VersionChainsGapless, ArtifactFound
  <1>2. {versions[v].no : v \in {w \in VersionsOf(a) : versions[w].project = p}}
            = 1..Cardinality(VersionsOf(a))
    BY <1>1 DEF VersionChainsGapless
  <1> QED
    BY <1>2, VersionsFinite, HeadOfInterval DEF HeadVersionNo

\* A Run has finitely many outputs, and its head is their number.
LEMMA OutputHeadIsCount ==
    ASSUME InputAssumption, OutputChainsSound, NEW r \in Runs
    PROVE  /\ IsFiniteSet(Sequences_(r)) /\ Cardinality(Sequences_(r)) \in Nat
           /\ OutputHead(r) = Cardinality(Sequences_(r))
  <1>1. IsFiniteSet(1..MaxOutputs)
    BY FS_Interval DEF InputAssumption
  <1>2. IsFiniteSet(Sequences_(r)) /\ Cardinality(Sequences_(r)) \in Nat
    BY <1>1, FS_Subset, FS_CardinalityType DEF Sequences_
  <1>3. Sequences_(r) = 1..Cardinality(Sequences_(r))
    BY DEF OutputChainsSound, Sequences_
  <1>4. OutputHead(r) = IF Sequences_(r) = {} THEN 0
            ELSE CHOOSE k \in Sequences_(r) : \A m \in Sequences_(r) : m <= k
    BY DEF OutputHead, Sequences_
  <1> QED
    BY <1>2, <1>3, <1>4, HeadOfInterval

-----------------------------------------------------------------------------
(* Each step preserves it. *)

\* The approval half keeps every execution, and keeps the Project and Session
\* of every Run and the Project of every Session.
LEMMA LedgerRowsStay ==
    ASSUME LedgerInv, [Next]_ledgerVars
    PROVE  /\ \A e \in DOMAIN executions :
                  e \in DOMAIN executions' /\ executions'[e] = executions[e]
           /\ \A r \in DOMAIN runs :
                  /\ r \in DOMAIN runs'
                  /\ runs'[r].project = runs[r].project
                  /\ runs'[r].session = runs[r].session
           /\ \A s \in DOMAIN sessions :
                  s \in DOMAIN sessions' /\ sessions'[s].project = sessions[s].project
  <1> DEFINE ExecutionsStay == \A e \in DOMAIN executions :
                 e \in DOMAIN executions' /\ executions'[e] = executions[e]
             RunsStay == \A r \in DOMAIN runs :
                 /\ r \in DOMAIN runs'
                 /\ runs'[r].project = runs[r].project
                 /\ runs'[r].session = runs[r].session
             SessionsStay == \A s \in DOMAIN sessions :
                 s \in DOMAIN sessions' /\ sessions'[s].project = sessions[s].project
  <1>1. CASE UNCHANGED <<executions, runs, sessions>>
    BY <1>1
  <1>2. ASSUME NEW p, NEW s, NEW t,
               CreateSession(p, s, t) \/ ResumeSession(p, s, t) \/ ArchiveSession(p, s)
        PROVE  ExecutionsStay /\ RunsStay /\ SessionsStay
    <2>1. UNCHANGED <<executions, runs>>
      BY <1>2 DEF CreateSession, ResumeSession, ArchiveSession
    <2>2. CASE CreateSession(p, s, t)
      BY <2>1, <2>2 DEF CreateSession, Insert
    <2>3. CASE ResumeSession(p, s, t) \/ ArchiveSession(p, s)
      BY <2>1, <2>3 DEF ResumeSession, ArchiveSession, LedgerInv, TypeOK, IsTable,
                        SessionRecord
    <2> QED
      BY <1>2, <2>2, <2>3
  <1>3. ASSUME NEW p, NEW q, NEW r, NEW pl, NEW ap, NEW s, NEW i,
               CreateRun(p, q, r, pl, ap, s, i)
        PROVE  ExecutionsStay /\ RunsStay /\ SessionsStay
    BY <1>3 DEF CreateRun, Insert
  <1>4. ASSUME NEW p, NEW q, NEW r, NEW e, NEW i, NEW at, StartRun(p, q, r, e, i, at)
        PROVE  ExecutionsStay /\ RunsStay /\ SessionsStay
    <2>1. ExecutionsStay
      BY <1>4 DEF StartRun, ClaimAccepted, Insert
    <2>2. RunsStay
      BY <1>4 DEF StartRun, LedgerInv, TypeOK, IsTable, RunRecord
    <2> QED
      BY <1>4, <2>1, <2>2 DEF StartRun
  <1>5. ASSUME NEW p, NEW r, NEW state, FinishRun(p, r, state)
        PROVE  ExecutionsStay /\ RunsStay /\ SessionsStay
    BY <1>5 DEF FinishRun, LedgerInv, TypeOK, IsTable, RunRecord
  <1>6. CASE ProjectNext
    BY <1>1, <1>6 DEF ProjectNext, CreateProject, ArchiveProject, ArchiveRegisteredProject
  <1>7. CASE ApprovalNext
    <2>1. ASSUME NEW p, NEW q, NEW pl, NEW i, CreatePlan(p, q, pl, i)
          PROVE  UNCHANGED <<executions, runs, sessions>>
      BY <2>1 DEF CreatePlan
    <2>2. ASSUME NEW p, NEW q, NEW ap, NEW pl, NEW i, NEW from, NEW until,
                 GrantApproval(p, q, ap, pl, i, from, until)
          PROVE  UNCHANGED <<executions, runs, sessions>>
      BY <2>2 DEF GrantApproval
    <2> QED
      BY <1>1, <1>7, <2>1, <2>2 DEF ApprovalNext
  <1>8. CASE SessionNext
    BY <1>2, <1>8 DEF SessionNext
  <1>9. CASE RunNext
    BY <1>3, <1>4, <1>5, <1>9 DEF RunNext
  <1>10. CASE UNCHANGED ledgerVars
    BY <1>1, <1>10 DEF ledgerVars
  <1> QED
    BY <1>6, <1>7, <1>8, <1>9, <1>10 DEF Next

\* Chains stay gapless while no Version is written and no Artifact vanishes.
LEMMA ChainsStay ==
    ASSUME VersionChainsGapless, UNCHANGED versions,
           \A q, b : ArtifactFound(q, b) => ArtifactFound(q, b)'
    PROVE  VersionChainsGapless'
  <1> SUFFICES ASSUME NEW b \in Artifacts
               PROVE  /\ {versions'[v].no : v \in VersionsOf(b)'}
                             = 1..Cardinality(VersionsOf(b)')
                      /\ \A v \in VersionsOf(b)' :
                             ArtifactFound(versions[v].project, b)'
    BY DEF VersionChainsGapless
  <1>1. VersionsOf(b)' = VersionsOf(b)
    BY DEF VersionsOf
  <1>2. \A v \in VersionsOf(b) : ArtifactFound(versions[v].project, b)'
    BY DEF VersionChainsGapless
  <1> QED
    BY <1>1, <1>2 DEF VersionChainsGapless

\* A step of the approval half takes no evidence away.
LEMMA LedgerStepEvidence ==
    ASSUME LedgerInv, EvidenceIsSound, [Next]_ledgerVars, UNCHANGED artifactVars
    PROVE  EvidenceIsSound'
  <1>1. UNCHANGED <<artifacts, versions, inputs, outputs, links, blobs>>
    BY DEF artifactVars
  <1>2. \A p, e : ExecutionOwned(p, e) => ExecutionOwned(p, e)'
    BY LedgerRowsStay DEF ExecutionOwned, RunFound
  <1>3. \A p, e, s : ExecutionOwnedBySession(p, e, s) =>
            /\ ExecutionOwnedBySession(p, e, s)'
            /\ runs'[executions'[e].run].session = runs[executions[e].run].session
    BY <1>2, LedgerRowsStay DEF ExecutionOwnedBySession, ExecutionOwned, RunFound
  <1>4. VersionChainsGapless'
    BY <1>1, ChainsStay DEF EvidenceIsSound, ArtifactFound
  <1>5. LineageWellFounded'
    BY <1>1, <1>2 DEF EvidenceIsSound, LineageWellFounded, VersionFound
  <1>6. OutputChainsSound'
    <2>1. \A r : r \in DOMAIN runs /\ RunClaimed(r) =>
              /\ r \in DOMAIN runs' /\ RunClaimed(r)'
              /\ runs'[r].project = runs[r].project
      BY LedgerRowsStay DEF RunClaimed
    <2> QED
      BY <1>1, <2>1 DEF EvidenceIsSound, OutputChainsSound, VersionFound
  <1>7. LinksOwnTheirVersions'
    BY <1>1, <1>3, LedgerRowsStay DEF EvidenceIsSound, LinksOwnTheirVersions
  <1> QED
    BY <1>4, <1>5, <1>6, <1>7 DEF EvidenceIsSound

\* What leaves the rows of the evidence tables alone leaves them sound:
\* inputs, sweeps and aborted commits.
LEMMA FrameEvidence ==
    ASSUME EvidenceIsSound,
           UNCHANGED <<ledgerVars, artifacts, versions, outputs, links>>
    PROVE  EvidenceIsSound'
  <1>1. UNCHANGED <<projects, sessions, plans, approvals, runs, executions,
                    artifacts, versions, outputs, links>>
    BY DEF ledgerVars
  <1>2. VersionChainsGapless'
    BY <1>1, ChainsStay DEF EvidenceIsSound, ArtifactFound
  <1>3. LineageWellFounded'
    BY <1>1 DEF EvidenceIsSound, LineageWellFounded, VersionFound,
                ExecutionOwned, RunFound
  <1>4. OutputChainsSound'
    BY <1>1 DEF EvidenceIsSound, OutputChainsSound, VersionFound, RunClaimed
  <1>5. LinksOwnTheirVersions'
    BY <1>1 DEF EvidenceIsSound, LinksOwnTheirVersions,
                ExecutionOwnedBySession, ExecutionOwned, RunFound
  <1> QED
    BY <1>2, <1>3, <1>4, <1>5 DEF EvidenceIsSound

\* A new Artifact has an identity of its own and no Versions.
LEMMA CreateArtifactEvidence ==
    ASSUME EvidenceIsSound, NEW p, NEW a, CreateArtifact(p, a)
    PROVE  EvidenceIsSound'
  <1>1. UNCHANGED <<projects, sessions, plans, approvals, runs, executions,
                    versions, outputs, links>>
    BY DEF CreateArtifact, ledgerVars
  <1>2. \A q, b : ArtifactFound(q, b) => ArtifactFound(q, b)'
    BY DEF CreateArtifact, Insert, ArtifactFound
  <1>3. VersionChainsGapless'
    BY <1>1, <1>2, ChainsStay DEF EvidenceIsSound
  <1>4. LineageWellFounded'
    BY <1>1 DEF EvidenceIsSound, LineageWellFounded, VersionFound,
                ExecutionOwned, RunFound
  <1>5. OutputChainsSound'
    BY <1>1 DEF EvidenceIsSound, OutputChainsSound, VersionFound, RunClaimed
  <1>6. LinksOwnTheirVersions'
    BY <1>1 DEF EvidenceIsSound, LinksOwnTheirVersions,
                ExecutionOwnedBySession, ExecutionOwned, RunFound
  <1> QED
    BY <1>3, <1>4, <1>5, <1>6 DEF EvidenceIsSound

\* A committed Version takes the number after the head, and derives only from
\* Versions that exist (commit_version, _references_valid).
LEMMA CommitVersionEvidence ==
    ASSUME EvidenceIsSound, IsFiniteSet(DOMAIN versions),
           NEW p, NEW base, NEW v, NEW row, row.project = p,
           row.artifact \in Artifacts, CommitVersion(p, base, v, row)
    PROVE  IsFiniteSet(DOMAIN versions)' /\ EvidenceIsSound'
  <1>1. /\ UNCHANGED <<projects, sessions, plans, approvals, runs, executions,
                       artifacts, outputs, links>>
        /\ v \notin DOMAIN versions
        /\ DOMAIN versions' = DOMAIN versions \cup {v}
        /\ versions'[v] = row
        /\ \A w \in DOMAIN versions : versions'[w] = versions[w]
    BY DEF CommitVersion, Insert, ledgerVars
  <1>2. IsFiniteSet(DOMAIN versions)'
    BY <1>1, FS_AddElement
  <1>3. /\ ArtifactFound(p, row.artifact)
        /\ ExecutionOwned(p, row.producer)
        /\ \A w \in row.inputs : VersionFound(p, w)
        /\ HeadVersionNo(p, row.artifact) = base
        /\ row.no = base + 1
    BY DEF CommitVersion, CommitAccepted
  <1>4. /\ \A q, w : VersionFound(q, w) => VersionFound(q, w)'
        /\ \A q, b : ArtifactFound(q, b)' = ArtifactFound(q, b)
        /\ \A q, e : ExecutionOwned(q, e)' = ExecutionOwned(q, e)
    BY <1>1 DEF VersionFound, ArtifactFound, ExecutionOwned, RunFound
  <1>5. VersionChainsGapless'
    <2> SUFFICES ASSUME NEW b \in Artifacts
                 PROVE  /\ {versions'[w].no : w \in VersionsOf(b)'}
                               = 1..Cardinality(VersionsOf(b)')
                        /\ \A w \in VersionsOf(b)' :
                               ArtifactFound(versions[w].project, b)'
      BY DEF VersionChainsGapless
    <2>1. VersionChainsGapless
      BY DEF EvidenceIsSound
    <2>2. {versions'[w].no : w \in VersionsOf(b)} = 1..Cardinality(VersionsOf(b))
      BY <1>1, <2>1 DEF VersionChainsGapless, VersionsOf
    <2>3. \A w \in VersionsOf(b) : ArtifactFound(versions[w].project, b)'
      BY <1>1, <1>4, <2>1 DEF VersionChainsGapless, VersionsOf
    <2>4. CASE b # row.artifact
      <3>1. VersionsOf(b)' = VersionsOf(b)
        BY <1>1, <2>4 DEF VersionsOf
      <3> QED
        BY <2>2, <2>3, <3>1
    <2>5. CASE b = row.artifact
      <3>1. VersionsOf(b)' = VersionsOf(b) \cup {v} /\ v \notin VersionsOf(b)
        BY <1>1, <2>5 DEF VersionsOf
      <3>2. /\ Cardinality(VersionsOf(b)) \in Nat
            /\ Cardinality(VersionsOf(b)') = Cardinality(VersionsOf(b)) + 1
        BY <3>1, VersionsFinite, FS_AddElement
      <3>3. base = Cardinality(VersionsOf(b))
        BY <1>3, <2>1, <2>5, HeadIsCount
      <3>4. {versions'[w].no : w \in VersionsOf(b)'}
                = 1..Cardinality(VersionsOf(b)) \cup {base + 1}
        BY <1>1, <1>3, <2>2, <3>1
      <3>5. \A w \in VersionsOf(b)' : ArtifactFound(versions[w].project, b)'
        BY <1>1, <1>3, <1>4, <2>3, <2>5, <3>1
      <3> QED
        BY <3>2, <3>3, <3>4, <3>5
    <2> QED
      BY <2>4, <2>5
  <1>6. LineageWellFounded'
    <2>1. LineageWellFounded
      BY DEF EvidenceIsSound
    <2>2. ASSUME NEW w \in DOMAIN versions'
          PROVE  /\ \A u \in versions'[w].inputs : VersionFound(versions[w].project, u)'
                 /\ ExecutionOwned(versions[w].project, versions[w].producer)'
      BY <1>1, <1>3, <1>4, <2>1 DEF LineageWellFounded
    <2>3. ASSUME NEW S \in SUBSET DOMAIN versions', S # {}
          PROVE  \E w \in S : versions'[w].inputs \cap S = {}
      <3>1. CASE S \ {v} = {}
        <4>1. S = {v} /\ v \notin row.inputs
          BY <1>1, <1>3, <2>3, <3>1 DEF VersionFound
        <4> QED
          BY <1>1, <4>1
      <3>2. CASE S \ {v} # {}
        <4>1. S \ {v} \in SUBSET DOMAIN versions
          BY <1>1
        <4>2. PICK w \in S \ {v} : versions[w].inputs \cap (S \ {v}) = {}
          BY <2>1, <3>2, <4>1 DEF LineageWellFounded
        <4>3. w \in DOMAIN versions /\ v \notin versions[w].inputs
          BY <1>1, <2>1, <4>1 DEF LineageWellFounded, VersionFound
        <4> QED
          BY <1>1, <4>2, <4>3
      <3> QED
        BY <3>1, <3>2
    <2> QED
      BY <2>2, <2>3 DEF LineageWellFounded
  <1>7. OutputChainsSound'
    BY <1>1, <1>4 DEF EvidenceIsSound, OutputChainsSound, RunClaimed
  <1>8. LinksOwnTheirVersions'
    BY <1>1, <1>4 DEF EvidenceIsSound, LinksOwnTheirVersions,
                      ExecutionOwnedBySession
  <1> QED
    BY <1>2, <1>5, <1>6, <1>7, <1>8 DEF EvidenceIsSound

\* An appended output is the next of a Run that holds its execution, and a
\* Version that was not listed (append_run_output).
LEMMA AppendOutputEvidence ==
    ASSUME InputAssumption, LedgerInv, EvidenceIsSound,
           NEW p, NEW r \in Runs, NEW n \in 1..MaxOutputs, NEW a, NEW v,
           AppendOutput(p, r, n, a, v)
    PROVE  EvidenceIsSound' /\ <<r, n>> \notin DOMAIN outputs
  <1>1. /\ UNCHANGED <<projects, sessions, plans, approvals, runs, executions,
                       artifacts, versions, links>>
        /\ outputs' = Insert(outputs, <<r, n>>, [artifact |-> a, version |-> v])
    BY DEF AppendOutput, ledgerVars
  <1>2. /\ RunFound(p, r) /\ RunClaimed(r) /\ VersionFound(p, v)
        /\ n = OutputHead(r) + 1
        /\ \A m \in Sequences_(r) : outputs[<<r, m>>].version # v
    BY DEF AppendOutput, LedgerInv, StartedRunsOwnAnExecution, RunFound, Sequences_
  <1>3. OutputChainsSound
    BY DEF EvidenceIsSound
  <1>4. /\ IsFiniteSet(Sequences_(r)) /\ Cardinality(Sequences_(r)) \in Nat
        /\ n = Cardinality(Sequences_(r)) + 1
        /\ Sequences_(r) = 1..Cardinality(Sequences_(r))
    <2>1. Sequences_(r) = 1..Cardinality(Sequences_(r))
      BY <1>3 DEF OutputChainsSound, Sequences_
    <2> QED
      BY <1>2, <1>3, <2>1, OutputHeadIsCount
  <1>5. n \notin Sequences_(r) /\ <<r, n>> \notin DOMAIN outputs
    <2>1. n \notin Sequences_(r)
      BY <1>4
    <2> QED
      BY <2>1 DEF Sequences_
  <1>6. /\ DOMAIN outputs' = DOMAIN outputs \cup {<<r, n>>}
        /\ outputs'[<<r, n>>].version = v
        /\ \A k \in DOMAIN outputs : outputs'[k] = outputs[k]
    BY <1>1, <1>5 DEF Insert
  <1>7. OutputChainsSound'
    <2> SUFFICES ASSUME NEW s \in Runs
                 PROVE  /\ Sequences_(s)' = 1..Cardinality(Sequences_(s)')
                        /\ \A k, m \in Sequences_(s)' :
                              outputs'[<<s, k>>].version = outputs'[<<s, m>>].version
                                  => k = m
                        /\ Sequences_(s)' # {} =>
                              s \in DOMAIN runs' /\ RunClaimed(s)'
                        /\ \A k \in Sequences_(s)' :
                              VersionFound(runs[s].project, outputs[<<s, k>>].version)'
      BY DEF OutputChainsSound, Sequences_
    <2>1. /\ Sequences_(s) = 1..Cardinality(Sequences_(s))
          /\ \A k, m \in Sequences_(s) :
                outputs[<<s, k>>].version = outputs[<<s, m>>].version => k = m
          /\ Sequences_(s) # {} => s \in DOMAIN runs /\ RunClaimed(s)
          /\ \A k \in Sequences_(s) :
                VersionFound(runs[s].project, outputs[<<s, k>>].version)
      BY <1>3 DEF OutputChainsSound, Sequences_
    <2>2. CASE s # r
      <3>1. Sequences_(s)' = Sequences_(s)
        BY <1>6, <2>2 DEF Sequences_
      <3>2. \A k \in Sequences_(s) : outputs'[<<s, k>>] = outputs[<<s, k>>]
        BY <1>6 DEF Sequences_
      <3> QED
        BY <1>1, <2>1, <3>1, <3>2 DEF RunClaimed, VersionFound
    <2>3. CASE s = r
      <3>1. Sequences_(s)' = Sequences_(s) \cup {n}
        BY <1>6, <2>3 DEF Sequences_
      <3>2. \A k \in Sequences_(s) : outputs'[<<s, k>>] = outputs[<<s, k>>]
        BY <1>6 DEF Sequences_
      <3>3. Cardinality(Sequences_(s)') = Cardinality(Sequences_(s)) + 1
        BY <1>4, <1>5, <2>3, <3>1, FS_AddElement
      <3>4. Sequences_(s)' = 1..Cardinality(Sequences_(s)')
        BY <1>4, <2>1, <2>3, <3>1, <3>3
      <3>5. \A k, m \in Sequences_(s)' :
                outputs'[<<s, k>>].version = outputs'[<<s, m>>].version => k = m
        BY <1>2, <1>6, <2>1, <2>3, <3>1, <3>2
      <3>6. s \in DOMAIN runs' /\ RunClaimed(s)'
        BY <1>1, <1>2, <2>3 DEF RunFound, RunClaimed
      <3>7. \A k \in Sequences_(s)' :
                VersionFound(runs[s].project, outputs[<<s, k>>].version)'
        BY <1>1, <1>2, <1>6, <2>1, <2>3, <3>1, <3>2 DEF RunFound, VersionFound
      <3> QED
        BY <3>4, <3>5, <3>6, <3>7
    <2> QED
      BY <2>2, <2>3
  <1>8. VersionChainsGapless'
    BY <1>1, ChainsStay DEF EvidenceIsSound, ArtifactFound
  <1>9. LineageWellFounded'
    BY <1>1 DEF EvidenceIsSound, LineageWellFounded, VersionFound,
                ExecutionOwned, RunFound
  <1>10. LinksOwnTheirVersions'
    BY <1>1 DEF EvidenceIsSound, LinksOwnTheirVersions,
                ExecutionOwnedBySession, ExecutionOwned, RunFound
  <1> QED
    BY <1>5, <1>7, <1>8, <1>9, <1>10 DEF EvidenceIsSound

\* A link names the execution that produced the Version, and a Run that
\* belongs to no Session links nothing (_attach_locked).
LEMMA AttachSessionEvidence ==
    ASSUME EvidenceIsSound, NEW p, NEW s \in Sessions, NEW v,
           AttachSession(p, s, v)
    PROVE  EvidenceIsSound'
  <1>1. /\ UNCHANGED <<projects, sessions, plans, approvals, runs, executions,
                       artifacts, versions, outputs>>
        /\ links' = Insert(links, <<s, v>>, versions[v].producer)
    BY DEF AttachSession, ledgerVars
  <1>2. /\ VersionFound(p, v) /\ SessionLive(p, s)
        /\ ExecutionOwnedBySession(p, versions[v].producer, s)
    BY DEF AttachSession
  <1>3. s # NoSession
    BY NullAssumption
  <1>4. LinksOwnTheirVersions'
    <2> SUFFICES ASSUME NEW t \in Sessions, NEW w \in Versions, <<t, w>> \in DOMAIN links'
                 PROVE  /\ w \in DOMAIN versions
                        /\ links'[<<t, w>>] = versions[w].producer
                        /\ ExecutionOwnedBySession(versions[w].project,
                                                   versions[w].producer, t)
                        /\ runs[executions[versions[w].producer].run].session # NoSession
                        /\ t \in DOMAIN sessions
                        /\ sessions[t].project = versions[w].project
      BY <1>1 DEF LinksOwnTheirVersions, ExecutionOwnedBySession, ExecutionOwned,
                  RunFound
    <2>1. CASE t = s /\ w = v
      BY <1>1, <1>2, <1>3, <2>1 DEF Insert, VersionFound, SessionLive,
                                    ExecutionOwnedBySession
    <2>2. CASE <<t, w>> # <<s, v>>
      BY <1>1, <2>2 DEF Insert, EvidenceIsSound, LinksOwnTheirVersions
    <2> QED
      BY <2>1, <2>2
  <1>5. VersionChainsGapless'
    BY <1>1, ChainsStay DEF EvidenceIsSound, ArtifactFound
  <1>6. LineageWellFounded'
    BY <1>1 DEF EvidenceIsSound, LineageWellFounded, VersionFound,
                ExecutionOwned, RunFound
  <1>7. OutputChainsSound'
    BY <1>1 DEF EvidenceIsSound, OutputChainsSound, VersionFound, RunClaimed
  <1> QED
    BY <1>4, <1>5, <1>6, <1>7 DEF EvidenceIsSound

-----------------------------------------------------------------------------
(* The theorems. *)

\* What the approval half guarantees holds of the whole store.
LEMMA ApprovalHalf == ArtifactSpec => []LedgerInv
  BY LedgerImplemented, LedgerInvariant, PTL

\* The evidence tables are empty at first.
LEMMA EvidenceInit == ArtifactInit => IsFiniteSet(DOMAIN versions) /\ EvidenceIsSound
  <1> SUFFICES ASSUME ArtifactInit
               PROVE  IsFiniteSet(DOMAIN versions) /\ EvidenceIsSound
    OBVIOUS
  <1>1. DOMAIN versions = {} /\ DOMAIN outputs = {} /\ DOMAIN links = {}
    BY DEF ArtifactInit, NoRows
  <1>2. VersionChainsGapless
    <2>1. \A a : VersionsOf(a) = {}
      BY <1>1 DEF VersionsOf
    <2> QED
      BY <2>1, FS_EmptySet DEF VersionChainsGapless
  <1>3. OutputChainsSound
    <2>1. \A r : Sequences_(r) = {}
      BY <1>1 DEF Sequences_
    <2>2. 1..Cardinality({}) = {}
      BY FS_EmptySet
    <2> QED
      BY <2>1, <2>2 DEF OutputChainsSound, Sequences_
  <1> QED
    BY <1>1, <1>2, <1>3, FS_EmptySet
       DEF EvidenceIsSound, LineageWellFounded, LinksOwnTheirVersions

\* Every step of the store, whatever it touches, keeps the invariant.
LEMMA EvidenceStep ==
    ASSUME InputAssumption, LedgerInv, IsFiniteSet(DOMAIN versions),
           EvidenceIsSound, [ArtifactNext]_allVars
    PROVE  IsFiniteSet(DOMAIN versions)' /\ EvidenceIsSound'
  <1>1. CASE [Next]_ledgerVars /\ UNCHANGED artifactVars
    BY <1>1, LedgerStepEvidence DEF artifactVars
  <1>2. CASE VersionNext
    <2>1. ASSUME NEW p, NEW a, CreateArtifact(p, a)
          PROVE  IsFiniteSet(DOMAIN versions)' /\ EvidenceIsSound'
      BY <2>1, CreateArtifactEvidence DEF CreateArtifact
    <2>2. ASSUME NEW p, NEW base, NEW v, NEW row, row.project = p,
                 row.artifact \in Artifacts, CommitVersion(p, base, v, row)
          PROVE  IsFiniteSet(DOMAIN versions)' /\ EvidenceIsSound'
      BY <2>2, CommitVersionEvidence
    <2>3. ASSUME NEW p, NEW base, NEW v, NEW row,
                 CommitVersionAborted(p, base, v, row)
          PROVE  IsFiniteSet(DOMAIN versions)' /\ EvidenceIsSound'
      BY <2>3, FrameEvidence DEF CommitVersionAborted
    <2> QED
      BY <1>2, <2>1, <2>2, <2>3 DEF VersionNext
  <1>3. CASE InputNext
    <2>1. UNCHANGED <<ledgerVars, artifacts, versions, outputs, links>>
      BY <1>3 DEF InputNext, RecordInput, RecordInputAborted
    <2> QED
      BY <2>1, FrameEvidence
  <1>4. CASE OutputNext
    <2>1. UNCHANGED versions
      BY <1>4 DEF OutputNext, AppendOutput, AttachSession
    <2>2. EvidenceIsSound'
      BY <1>4, AppendOutputEvidence, AttachSessionEvidence DEF OutputNext
    <2> QED
      BY <2>1, <2>2
  <1>5. CASE \E swept \in SUBSET Digests : Sweep(swept)
    <2>1. UNCHANGED <<ledgerVars, artifacts, versions, outputs, links>>
      BY <1>5 DEF Sweep
    <2> QED
      BY <2>1, FrameEvidence
  <1> QED
    BY <1>1, <1>2, <1>3, <1>4, <1>5 DEF ArtifactNext, allVars

\* Where results come from is recorded soundly, after any interleaving of
\* committers, Runs, Projects and Sessions: gapless Version chains,
\* well-founded lineage, output chains of started Runs only, and links only to
\* the Session that commissioned the work.
THEOREM SoundEvidence ==
    ASSUME InputAssumption PROVE ArtifactSpec => []EvidenceIsSound
  <1>1. LedgerInv /\ IsFiniteSet(DOMAIN versions) /\ EvidenceIsSound
            /\ [ArtifactNext]_allVars
            => (IsFiniteSet(DOMAIN versions) /\ EvidenceIsSound)'
    BY EvidenceStep
  <1> QED
    BY <1>1, EvidenceInit, ApprovalHalf, PTL DEF ArtifactSpec

\* No row of evidence is changed or deleted, and only a Run that is running
\* gains an output.
THEOREM AppendOnlyEvidence ==
    ASSUME InputAssumption PROVE ArtifactSpec => EvidenceIsAppendOnly
  <1> DEFINE Kept ==
          /\ \A v \in DOMAIN versions :
                v \in DOMAIN versions' /\ versions'[v] = versions[v]
          /\ \A k \in DOMAIN inputs : k \in DOMAIN inputs' /\ inputs'[k] = inputs[k]
          /\ \A k \in DOMAIN outputs :
                k \in DOMAIN outputs' /\ outputs'[k] = outputs[k]
          /\ \A k \in DOMAIN links : k \in DOMAIN links' /\ links'[k] = links[k]
          /\ \A k \in DOMAIN outputs' \ DOMAIN outputs :
                runs[k[1]].state = "running" /\ runs'[k[1]].state = "running"
  <1>1. LedgerInv /\ EvidenceIsSound /\ [ArtifactNext]_allVars => [Kept]_allVars
    <2> SUFFICES ASSUME LedgerInv, EvidenceIsSound, ArtifactNext
                 PROVE  Kept
      OBVIOUS
    <2>1. CASE UNCHANGED <<versions, inputs, outputs, links>>
      BY <2>1
    <2>2. CASE VersionNext
      <3>1. ASSUME NEW p, NEW base, NEW v, NEW row, CommitVersion(p, base, v, row)
            PROVE  Kept
        BY <3>1 DEF CommitVersion, Insert
      <3>2. ASSUME NEW p, NEW base, NEW v, NEW row,
                   CommitVersionAborted(p, base, v, row)
            PROVE  Kept
        BY <3>2 DEF CommitVersionAborted
      <3>3. ASSUME NEW p, NEW a, CreateArtifact(p, a)
            PROVE  Kept
        BY <3>3 DEF CreateArtifact
      <3> QED
        BY <2>2, <3>1, <3>2, <3>3 DEF VersionNext
    <2>3. CASE InputNext
      <3>1. ASSUME NEW p, NEW e, NEW kind, NEW payload,
                   \/ RecordInput(p, e, kind, payload)
                   \/ RecordInputAborted(p, e, kind, payload)
            PROVE  Kept
        BY <3>1 DEF RecordInput, RecordInputAborted, InputAccepted, Insert
      <3> QED
        BY <2>3, <3>1 DEF InputNext
    <2>4. ASSUME NEW p, NEW r \in Runs, NEW n \in 1..MaxOutputs, NEW a, NEW v,
                 AppendOutput(p, r, n, a, v)
          PROVE  Kept
      <3>1. <<r, n>> \notin DOMAIN outputs
        BY <2>4, AppendOutputEvidence
      <3> QED
        BY <2>4, <3>1 DEF AppendOutput, Insert, ledgerVars
    <2>5. ASSUME NEW p, NEW s, NEW v, AttachSession(p, s, v)
          PROVE  Kept
      BY <2>5 DEF AttachSession, Insert
    <2>6. CASE OutputNext
      BY <2>4, <2>5, <2>6 DEF OutputNext
    <2>7. CASE \E swept \in SUBSET Digests : Sweep(swept)
      BY <2>1, <2>7 DEF Sweep
    <2> QED
      BY <2>1, <2>2, <2>3, <2>6, <2>7 DEF ArtifactNext, artifactVars
  <1> QED
    BY <1>1, ApprovalHalf, SoundEvidence, PTL DEF ArtifactSpec, EvidenceIsAppendOnly

-----------------------------------------------------------------------------
(* The routes of the API over the ledger: what each request in flight may   *)
(* rely on.                                                                 *)

\* The steps a request of each kind may be at between its arrival and its answer.
PlacesOf(kind) ==
    CASE kind = "create_project" -> {"names", "write"}
      [] kind = "create_session" -> {"project", "names", "write"}
      [] kind = "create_plan" -> {"project", "session", "write"}
      [] kind = "create_approval" -> {"project", "planned", "write"}
      [] kind = "start_run" ->
            {"project", "session", "approval", "queue", "claim", "publish", "abandon"}
      [] OTHER -> {"project", "write", "readback"}

Places ==
    {"idle", "project", "session", "names", "planned", "write", "readback", "approval", "queue",
     "claim", "publish", "abandon", "answered"}

Answers ==
    {"none", "created", "failed", "ok", "no_content", "not_found", "project_archived",
     "session_archived", "name_in_use", "plan_not_found", "approval_exists", "approval_not_found",
     "approval_digest_mismatch", "approval_consumed", "approval_expired", "invalid_request"}

RouteCall ==
    [kind : Kinds \cup {Idle.kind}, pc : Places, project : Projects \cup {Nothing},
     name : Names \cup {Nothing}, target : Sessions \cup Plans \cup Approvals \cup {Nothing},
     session : Sessions \cup {Nothing}, run : Runs \cup {Nothing},
     intent : Intents \cup {Nothing}, at : 0..(MaxClock + 1),
     seen : SUBSET (Projects \cup Sessions), unmarked : BOOLEAN, answer : Answers]

CallTyped(c) ==
    /\ c \in RouteCall
    /\ c.pc \in PlacesOf(c.kind) \cup {"idle", "answered"}
    /\ c.pc # "idle" => c.project \in Projects /\ c.intent \in Intents
    /\ c.pc \notin {"answered", "abandon"} => c.answer = "none"

\* What existed when a creation arrived still does; once its name was compared, it
\* differs from theirs, archived Sessions apart.
CallNames(c) ==
    /\ c.kind = "create_project" => c.seen \subseteq DOMAIN projects
    /\ c.kind = "create_session" =>
          c.seen \subseteq {s \in DOMAIN sessions : sessions[s].project = c.project}
    /\ c.kind \in {"create_project", "create_session"} /\ (c.pc = "write" \/ c.answer = "created") =>
          \A x \in c.seen : titles[x] = c.name => x \in DOMAIN sessions /\ sessions[x].archived

Executed(c) ==
    \/ c.pc = "publish"
    \/ c.pc = "answered" /\ c.kind = "start_run" /\ c.answer \in {"created", "failed"}

\* The Run a start queued waits until that start claims it, in which case the approval
\* is spent on it, or gives it up.
CallRun(c) ==
    /\ c.run # Nothing => c.kind = "start_run" /\ c.run \in DOMAIN runs
    /\ c.pc \notin {"claim", "publish", "abandon", "answered"} => c.run = Nothing
    /\ c.pc \in {"claim", "abandon"} =>
          /\ c.run \in DOMAIN runs
          /\ runs[c.run].approval = c.target /\ runs[c.run].state = "queued"
    /\ c.pc = "abandon" => c.answer \notin {"created", "failed"}
    /\ Executed(c) =>
          /\ c.run \in DOMAIN runs
          /\ c.target \in DOMAIN approvals /\ approvals[c.target].consumedBy = c.run
    /\ c.kind = "start_run" /\ c.pc = "answered" /\ ~Executed(c) /\ c.run # Nothing =>
          ~RunClaimed(c.run) /\ (runs[c.run].state = "failed" \/ c.unmarked)

\* No route writes the bare marker, and every Project and Session has a name.
NamedRows ==
    /\ \A p \in DOMAIN projects : projects[p].named
    /\ DOMAIN projects \cup DOMAIN sessions \subseteq DOMAIN titles

RouteTables ==
    /\ LedgerInv
    /\ clock \in 0..MaxClock
    /\ NamedRows

\* The inductive invariant; no two requests queued the same Run.
RoutesInv ==
    /\ RouteTables
    /\ calls \in [Requests -> RouteCall]
    /\ \A q \in Requests : CallTyped(calls[q]) /\ CallNames(calls[q]) /\ CallRun(calls[q])
    /\ \A q1, q2 \in Requests : calls[q1].run = calls[q2].run /\ calls[q1].run # Nothing => q1 = q2

\* What a request may do to the rows others rely on: rows stay, archival and a spent
\* approval are final, and only the Run it queued itself may change.
OthersMayRely(mine) ==
    /\ DOMAIN projects \subseteq DOMAIN projects'
    /\ \A s \in DOMAIN sessions :
          /\ s \in DOMAIN sessions' /\ sessions'[s].project = sessions[s].project
          /\ sessions[s].archived => sessions'[s].archived
    /\ \A ap \in DOMAIN approvals :
          /\ ap \in DOMAIN approvals'
          /\ approvals[ap].consumedBy # NoRun => approvals'[ap] = approvals[ap]
    /\ \A r \in DOMAIN runs :
          /\ r \in DOMAIN runs'
          /\ r # mine => runs'[r] = runs[r] /\ (RunClaimed(r)' <=> RunClaimed(r))
    /\ \A x \in DOMAIN projects \cup DOMAIN sessions : titles'[x] = titles[x]

\* The request is the one that arrived.
SameRequest(c, d) ==
    /\ d.kind = c.kind /\ d.project = c.project /\ d.name = c.name /\ d.target = c.target
    /\ d.session = c.session /\ d.intent = c.intent /\ d.seen = c.seen

\* A step takes one transaction of the ledger at most.
TablesKept(mine) ==
    [Next]_ledgerVars /\ clock' = clock /\ NamedRows' /\ OthersMayRely(mine)

\* What every step of a request q keeps.
RouteKept(q) ==
    /\ TablesKept(calls[q].run)
    /\ calls' \in [Requests -> RouteCall]
    /\ \A o \in Requests \ {q} : calls'[o] = calls[o]
    /\ (CallTyped(calls[q]) /\ CallNames(calls[q]) /\ CallRun(calls[q]))'
    /\ calls'[q].run = calls[q].run \/ calls'[q].run \in Runs \ DOMAIN runs

\* The invariant holds of the installation the routes start from.
LEMMA RoutesStart == ASSUME RoutesAssumption, RoutesInit PROVE RoutesInv
  <1>1. LedgerInv
    BY DEF RoutesAssumption, RoutesInit, LedgerInv, TypeOK, IsTable, NoRows, ProjectRecord,
           PlansDerived, ApprovalsBindPlans, OneApprovalPerPlan, RunsBindApprovals,
           ExecutionsBindRuns, OneExecutionPerRun, SpentApprovalsHaveExecutions,
           StartedRunsOwnAnExecution
  <1>2. RouteTables
    BY <1>1 DEF RoutesAssumption, RoutesInit, RouteTables, NamedRows, NoRows
  <1>3. CallTyped(Idle)
    BY DEF RoutesAssumption, CallTyped, Idle, RouteCall, Places, Answers
  <1>4. CallNames(Idle) /\ CallRun(Idle)
    BY DEF CallNames, CallRun, Executed, PlacesOf, Idle
  <1> QED
    BY <1>2, <1>3, <1>4 DEF RoutesInit, RoutesInv, CallTyped, Idle

\* A step that only moves the request.
LEMMA CallMoved ==
    ASSUME calls \in [Requests -> RouteCall], NEW q \in Requests, NEW pc \in Places,
           Goto(q, pc)
    PROVE  /\ calls' \in [Requests -> RouteCall]
           /\ \A o \in Requests \ {q} : calls'[o] = calls[o]
           /\ calls'[q].pc = pc /\ SameRequest(calls[q], calls'[q])
           /\ calls'[q].run = calls[q].run /\ calls'[q].at = calls[q].at
           /\ calls'[q].answer = calls[q].answer /\ calls'[q].unmarked = calls[q].unmarked
  BY DEF Goto, RouteCall, SameRequest

\* A step that answers it.
LEMMA CallAnswered ==
    ASSUME calls \in [Requests -> RouteCall], NEW q \in Requests, NEW answer \in Answers,
           Answer(q, answer)
    PROVE  /\ calls' \in [Requests -> RouteCall]
           /\ \A o \in Requests \ {q} : calls'[o] = calls[o]
           /\ calls'[q].pc = "answered" /\ SameRequest(calls[q], calls'[q])
           /\ calls'[q].run = calls[q].run /\ calls'[q].at = calls[q].at
           /\ calls'[q].answer = answer /\ calls'[q].unmarked = calls[q].unmarked
  <1> DEFINE new == [calls[q] EXCEPT !.pc = "answered", !.answer = answer]
  <1>1. calls[q] \in RouteCall /\ "answered" \in Places
    BY DEF Places
  <1>2. /\ new \in RouteCall /\ SameRequest(calls[q], new)
        /\ new.pc = "answered" /\ new.answer = answer
        /\ new.run = calls[q].run /\ new.at = calls[q].at /\ new.unmarked = calls[q].unmarked
    BY <1>1 DEF RouteCall, SameRequest
  <1>3. calls' = [calls EXCEPT ![q] = new]
    BY DEF Answer
  <1> HIDE DEF new
  <1> QED
    BY <1>2, <1>3

\* A creation keeps what it learned of the names whatever others do meanwhile.
LEMMA NamesStay ==
    ASSUME RoutesInv, NEW q \in Requests, NEW mine, OthersMayRely(mine),
           SameRequest(calls[q], calls'[q]),
           /\ calls[q].kind \in {"create_project", "create_session"}
           /\ calls'[q].pc = "write" \/ calls'[q].answer = "created"
           => \A x \in calls[q].seen :
                  titles[x] = calls[q].name => x \in DOMAIN sessions /\ sessions[x].archived
    PROVE  CallNames(calls[q])'
  <1>1. CallNames(calls[q])
    BY DEF RoutesInv
  <1>2. calls[q].kind \in {"create_project", "create_session"} =>
            \A x \in calls[q].seen :
               /\ titles'[x] = titles[x]
               /\ x \in DOMAIN sessions /\ sessions[x].archived =>
                      x \in DOMAIN sessions' /\ sessions'[x].archived
    BY <1>1 DEF CallNames, OthersMayRely
  <1>3. calls[q].kind = "create_project" => calls[q].seen \subseteq DOMAIN projects'
    BY <1>1 DEF CallNames, OthersMayRely
  <1>4. calls[q].kind = "create_session" =>
            calls[q].seen \subseteq {s \in DOMAIN sessions' : sessions'[s].project = calls[q].project}
    BY <1>1 DEF CallNames, OthersMayRely
  <1> QED
    BY <1>2, <1>3, <1>4 DEF CallNames, SameRequest

\* A request may rely on the Run it queued, and on the approval spent on it.
LEMMA RunStays ==
    ASSUME RoutesAssumption, RoutesInv, NEW o \in Requests, NEW mine, OthersMayRely(mine),
           calls'[o] = calls[o], calls[o].run \in DOMAIN runs => calls[o].run # mine
    PROVE  CallRun(calls[o])'
  <1>1. CallRun(calls[o]) /\ TypeOK
    BY DEF RoutesInv, RouteTables, LedgerInv
  <1>2. Executed(calls[o])' <=> Executed(calls[o])
    BY DEF Executed
  <1>3. Executed(calls[o]) => approvals[calls[o].target].consumedBy # NoRun
    BY <1>1, NullAssumption DEF CallRun, TypeOK, IsTable
  <1> QED
    BY <1>1, <1>2, <1>3 DEF CallRun, OthersMayRely

\* A step that leaves the tables alone.
LEMMA QuietTables == ASSUME RoutesInv, Keep, NEW mine PROVE TablesKept(mine)
  <1>1. \A r : RunClaimed(r)' <=> RunClaimed(r)
    BY DEF Keep, ledgerVars, RunClaimed
  <1> QED
    BY <1>1 DEF Keep, ledgerVars, RoutesInv, RouteTables, NamedRows, OthersMayRely, TablesKept

\* Registering a Project names it; no identity is a Session's too.
LEMMA CreateProjectTables ==
    ASSUME RoutesAssumption, RoutesInv, NEW p \in Projects, NEW name, NEW mine,
           CreateProject(p), titles' = Insert(titles, p, name), clock' = clock
    PROVE  TablesKept(mine)
  <1>1. p \notin DOMAIN projects \cup DOMAIN sessions
    BY DEF RoutesAssumption, RoutesInv, RouteTables, NamedRows, LedgerInv, TypeOK, IsTable,
           CreateProject, ProjectRegistered
  <1>2. DOMAIN titles' = DOMAIN titles \cup {p} /\ \A x \in DOMAIN titles : x # p => titles'[x] = titles[x]
    BY DEF Insert
  <1>3. /\ UNCHANGED <<sessions, plans, approvals, runs, executions>>
        /\ DOMAIN projects' = DOMAIN projects \cup {p} /\ projects'[p].named
        /\ \A x \in DOMAIN projects : projects'[x] = projects[x]
    BY <1>1 DEF CreateProject, Insert
  <1>4. Next
    BY DEF Next, ProjectNext
  <1>5. \A r : RunClaimed(r)' <=> RunClaimed(r)
    BY <1>3 DEF RunClaimed
  <1> QED
    BY <1>1, <1>2, <1>3, <1>4, <1>5
       DEF TablesKept, OthersMayRely, NamedRows, RoutesInv, RouteTables

\* Archiving a Project keeps its name.
LEMMA ArchiveProjectTables ==
    ASSUME RoutesInv, NEW p \in Projects, NEW mine,
           ArchiveRegisteredProject(p), UNCHANGED <<titles, clock>>
    PROVE  TablesKept(mine)
  <1>1. /\ UNCHANGED <<sessions, plans, approvals, runs, executions>>
        /\ DOMAIN projects' = DOMAIN projects
        /\ \A x \in DOMAIN projects : projects'[x].named = projects[x].named
    BY DEF ArchiveRegisteredProject, ProjectRegistered, RoutesInv, RouteTables, LedgerInv,
           TypeOK, IsTable, ProjectRecord
  <1>2. Next
    BY DEF Next, ProjectNext
  <1>3. \A r : RunClaimed(r)' <=> RunClaimed(r)
    BY <1>1 DEF RunClaimed
  <1> QED
    BY <1>1, <1>2, <1>3 DEF TablesKept, OthersMayRely, NamedRows, RoutesInv, RouteTables

\* Creating a Session names it.
LEMMA CreateSessionTables ==
    ASSUME RoutesAssumption, RoutesInv, NEW p \in Projects, NEW s \in Sessions, NEW t \in Times,
           NEW name, NEW mine,
           CreateSession(p, s, t), titles' = Insert(titles, s, name), clock' = clock
    PROVE  TablesKept(mine)
  <1>1. s \notin DOMAIN projects \cup DOMAIN sessions
    BY DEF RoutesAssumption, RoutesInv, RouteTables, LedgerInv, TypeOK, IsTable, CreateSession
  <1>2. DOMAIN titles' = DOMAIN titles \cup {s} /\ \A x \in DOMAIN titles : x # s => titles'[x] = titles[x]
    BY DEF Insert
  <1>3. /\ UNCHANGED <<projects, plans, approvals, runs, executions>>
        /\ DOMAIN sessions' = DOMAIN sessions \cup {s}
        /\ \A x \in DOMAIN sessions : sessions'[x] = sessions[x]
    BY <1>1 DEF CreateSession, Insert
  <1>4. Next
    BY DEF Next, SessionNext
  <1>5. \A r : RunClaimed(r)' <=> RunClaimed(r)
    BY <1>3 DEF RunClaimed
  <1> QED
    BY <1>1, <1>2, <1>3, <1>4, <1>5
       DEF TablesKept, OthersMayRely, NamedRows, RoutesInv, RouteTables

\* Resuming or archiving one keeps its name and its Project.
LEMMA SessionTables ==
    ASSUME RoutesInv, NEW p \in Projects, NEW s, NEW mine,
           (\E t \in Times : ResumeSession(p, s, t)) \/ ArchiveSession(p, s),
           UNCHANGED <<titles, clock>>
    PROVE  TablesKept(mine)
  <1>1. UNCHANGED <<projects, plans, approvals, runs, executions>> /\ s \in DOMAIN sessions
    BY DEF ResumeSession, ArchiveSession, SessionLive
  <1>2. /\ DOMAIN sessions' = DOMAIN sessions
        /\ \A x \in DOMAIN sessions :
              /\ sessions'[x].project = sessions[x].project
              /\ sessions[x].archived => sessions'[x].archived
    BY <1>1 DEF ResumeSession, ArchiveSession, RoutesInv, RouteTables, LedgerInv,
                TypeOK, IsTable, SessionRecord
  <1>3. Next
    BY <1>1 DEF Next, SessionNext, RoutesInv, RouteTables, LedgerInv, TypeOK, IsTable
  <1>4. \A r : RunClaimed(r)' <=> RunClaimed(r)
    BY <1>1 DEF RunClaimed
  <1> QED
    BY <1>1, <1>2, <1>3, <1>4 DEF TablesKept, OthersMayRely, NamedRows, RoutesInv, RouteTables

\* A plan or an approval is a new row.
LEMMA PlanTables ==
    ASSUME RoutesAssumption, RoutesInv, NEW p \in Projects, NEW i \in Intents, NEW pl, NEW mine,
           \/ pl \in Plans /\ CreatePlan(p, Requester, pl, i)
           \/ \E ap \in Approvals, from, until \in Times :
                 GrantApproval(p, Requester, ap, pl, plans[pl].intent, from, until),
           UNCHANGED <<titles, clock>>
    PROVE  TablesKept(mine)
  <1>1. UNCHANGED <<projects, sessions, runs, executions>>
    BY DEF CreatePlan, GrantApproval
  <1>2. \A ap \in DOMAIN approvals : ap \in DOMAIN approvals' /\ approvals'[ap] = approvals[ap]
    BY DEF CreatePlan, GrantApproval, Insert
  <1>3. pl \in DOMAIN plans => pl \in Plans /\ plans[pl].intent \in Intents
    BY DEF RoutesInv, RouteTables, LedgerInv, TypeOK, IsTable, ActionPlanRecord
  <1>4. Next
    BY <1>3 DEF Next, ApprovalNext, GrantApproval, PlanFound, RoutesAssumption
  <1>5. \A r : RunClaimed(r)' <=> RunClaimed(r)
    BY <1>1 DEF RunClaimed
  <1> QED
    BY <1>1, <1>2, <1>4, <1>5 DEF TablesKept, OthersMayRely, NamedRows, RoutesInv, RouteTables

\* So is a queued Run.
LEMMA CreateRunTables ==
    ASSUME RoutesAssumption, RoutesInv, NEW p \in Projects, NEW r \in Runs, NEW pl, NEW ap, NEW s,
           NEW i, NEW mine, CreateRun(p, Requester, r, pl, ap, s, i), UNCHANGED <<titles, clock>>
    PROVE  TablesKept(mine)
  <1>1. UNCHANGED <<projects, sessions, plans, approvals, executions>>
    BY DEF CreateRun
  <1>2. \A k \in DOMAIN runs : k \in DOMAIN runs' /\ runs'[k] = runs[k]
    BY DEF CreateRun, Insert
  <1>3. pl \in Plans /\ ap \in Approvals /\ s \in Sessions \cup {NoSession} /\ i \in Intents
    BY DEF CreateRun, PlanFound, ApprovalFound, SessionLive, RoutesInv, RouteTables, LedgerInv,
           TypeOK, IsTable, ActionPlanRecord
  <1>4. Next
    BY <1>3 DEF Next, RunNext, RoutesAssumption
  <1>5. \A k : RunClaimed(k)' <=> RunClaimed(k)
    BY <1>1 DEF RunClaimed
  <1> QED
    BY <1>1, <1>2, <1>4, <1>5 DEF TablesKept, OthersMayRely, NamedRows, RoutesInv, RouteTables

\* A claim changes its own Run, and an approval nobody had consumed.
LEMMA StartRunTables ==
    ASSUME RoutesAssumption, RoutesInv, NEW p \in Projects, NEW r \in Runs, NEW e \in Executions,
           NEW i \in Intents, NEW at \in Times, StartRun(p, Requester, r, e, i, at),
           UNCHANGED <<titles, clock>>
    PROVE  /\ TablesKept(r)
           /\ runs[r].approval \in DOMAIN approvals
           /\ approvals'[runs[r].approval].consumedBy = r
  <1>1. UNCHANGED <<projects, sessions, plans>>
    BY DEF StartRun
  <1>2. /\ r \in DOMAIN runs /\ runs[r].approval \in DOMAIN approvals /\ e \notin DOMAIN executions
        /\ approvals[runs[r].approval].consumedBy = NoRun
    BY DEF StartRun, ClaimAccepted, RunFound, ApprovalFound, Replayed
  <1>3. /\ DOMAIN approvals' = DOMAIN approvals
        /\ approvals'[runs[r].approval] = Consume(approvals[runs[r].approval], r, at)
        /\ \A ap \in DOMAIN approvals : ap # runs[r].approval => approvals'[ap] = approvals[ap]
    BY <1>2 DEF StartRun, RoutesInv, RouteTables, LedgerInv, TypeOK, IsTable
  <1>4. approvals'[runs[r].approval].consumedBy = r
    BY <1>2, <1>3, ConsumeRow DEF RoutesInv, RouteTables, LedgerInv, TypeOK, IsTable
  <1>5. \A k \in DOMAIN runs : k \in DOMAIN runs' /\ (k # r => runs'[k] = runs[k])
    BY DEF StartRun, RoutesInv, RouteTables, LedgerInv, TypeOK, IsTable
  <1>6. \A k : k # r => (RunClaimed(k)' <=> RunClaimed(k))
    BY <1>2 DEF StartRun, RunClaimed, Insert
  <1>7. Next
    BY DEF Next, RunNext, RoutesAssumption
  <1> QED
    BY <1>1, <1>2, <1>3, <1>4, <1>5, <1>6, <1>7
       DEF TablesKept, OthersMayRely, NamedRows, RoutesInv, RouteTables

\* The end of a Run changes that Run only, and no execution.
LEMMA FinishRunTables ==
    ASSUME RoutesInv, NEW p \in Projects, NEW r, NEW state, FinishRun(p, r, state),
           UNCHANGED <<titles, clock>>
    PROVE  /\ TablesKept(r) /\ UNCHANGED <<approvals, executions>>
           /\ r \in DOMAIN runs' /\ runs'[r].state = state
  <1>1. UNCHANGED <<projects, sessions, plans, approvals, executions>> /\ r \in DOMAIN runs
    BY DEF FinishRun, RunFound
  <1>2. /\ \A k \in DOMAIN runs : k \in DOMAIN runs' /\ (k # r => runs'[k] = runs[k])
        /\ runs'[r].state = state
    BY <1>1 DEF FinishRun, RoutesInv, RouteTables, LedgerInv, TypeOK, IsTable, RunRecord
  <1>3. \A k : RunClaimed(k)' <=> RunClaimed(k)
    BY <1>1 DEF RunClaimed
  <1>4. Next
    BY <1>1 DEF Next, RunNext, FinishRun, RoutesInv, RouteTables, LedgerInv, TypeOK, IsTable
  <1> QED
    BY <1>1, <1>2, <1>3, <1>4 DEF TablesKept, OthersMayRely, NamedRows, RoutesInv, RouteTables

\* Which requests may be at a step.
LEMMA WhoIsWhere ==
    ASSUME NEW c, CallTyped(c)
    PROVE  /\ c.pc = "project" => c.kind # "create_project"
           /\ c.pc = "session" => c.kind \in {"create_plan", "start_run"}
           /\ c.pc = "names" => c.kind \in {"create_project", "create_session"}
           /\ c.pc = "planned" => c.kind = "create_approval"
           /\ c.pc = "write" => c.kind # "start_run"
           /\ c.pc = "readback" =>
                 c.kind \notin {"create_project", "create_session", "create_plan", "create_approval",
                                "start_run"}
           /\ c.pc \in {"approval", "queue", "claim", "publish", "abandon"} => c.kind = "start_run"
  BY DEF CallTyped, PlacesOf

\* Before it queued a Run a request owns none, and moves on.
LEMMA MoveKept ==
    ASSUME RoutesAssumption, RoutesInv, NEW q \in Requests, NEW pc \in PlacesOf(calls[q].kind),
           calls[q].pc # "idle", calls[q].run = Nothing, TablesKept(Nothing), Goto(q, pc),
           pc \notin {"claim", "publish", "abandon"}, calls[q].pc \notin {"answered", "abandon"},
           pc = "write" /\ calls[q].kind \in {"create_project", "create_session"} =>
               \A x \in calls[q].seen :
                  titles[x] = calls[q].name => x \in DOMAIN sessions /\ sessions[x].archived
    PROVE  RouteKept(q)
  <1>1. CallTyped(calls[q]) /\ calls \in [Requests -> RouteCall]
    BY DEF RoutesInv
  <1> pc \in Places
    BY DEF PlacesOf, Places
  <1>2. /\ calls' \in [Requests -> RouteCall]
        /\ \A o \in Requests \ {q} : calls'[o] = calls[o]
        /\ calls'[q].pc = pc /\ SameRequest(calls[q], calls'[q])
        /\ calls'[q].run = calls[q].run /\ calls'[q].answer = calls[q].answer
    BY <1>1, CallMoved
  <1>3. CallTyped(calls[q])'
    BY <1>1, <1>2 DEF CallTyped, SameRequest
  <1>4. CallNames(calls[q])'
    BY <1>1, <1>2, NamesStay DEF TablesKept, CallTyped
  <1>5. Nothing \notin DOMAIN runs
    BY DEF RoutesAssumption, RoutesInv, RouteTables, LedgerInv, TypeOK, IsTable
  <1>6. CallRun(calls[q])'
    <2>1. pc # "answered"
      BY DEF PlacesOf
    <2> QED
      BY <1>2, <2>1 DEF CallRun, Executed, PlacesOf
  <1> QED
    BY <1>2, <1>3, <1>4, <1>6 DEF RouteKept

\* Before it queued a Run a request is answered without having executed one.
LEMMA AnswerKept ==
    ASSUME RoutesAssumption, RoutesInv, NEW q \in Requests, NEW answer \in Answers,
           calls[q].pc # "idle", calls[q].run = Nothing, TablesKept(Nothing), Answer(q, answer),
           answer = "created" => calls[q].pc = "write",
           answer # "failed"
    PROVE  RouteKept(q)
  <1>1. CallTyped(calls[q]) /\ CallNames(calls[q]) /\ calls \in [Requests -> RouteCall]
    BY DEF RoutesInv
  <1>2. /\ calls' \in [Requests -> RouteCall]
        /\ \A o \in Requests \ {q} : calls'[o] = calls[o]
        /\ calls'[q].pc = "answered" /\ SameRequest(calls[q], calls'[q])
        /\ calls'[q].run = calls[q].run /\ calls'[q].answer = answer
    BY <1>1, CallAnswered
  <1>3. CallTyped(calls[q])'
    BY <1>1, <1>2 DEF CallTyped, SameRequest
  <1>4. CallNames(calls[q])'
    BY <1>1, <1>2, NamesStay DEF TablesKept, CallNames
  <1>5. CallRun(calls[q])'
    <2>1. ~Executed(calls[q])'
      BY <1>1, <1>2, WhoIsWhere DEF Executed, SameRequest
    <2> QED
      BY <1>2, <2>1 DEF CallRun, PlacesOf
  <1> QED
    BY <1>2, <1>3, <1>4, <1>5 DEF RouteKept

\* What a request holds before it queued a Run.
LEMMA EarlyCall ==
    ASSUME RoutesInv, NEW q \in Requests,
           calls[q].pc \in {"project", "session", "names", "planned", "write", "readback",
                            "approval", "queue"}
    PROVE  /\ calls[q].run = Nothing /\ calls[q].kind \in Kinds \cup {Idle.kind}
           /\ calls[q].project \in Projects /\ calls[q].intent \in Intents
           /\ CallTyped(calls[q]) /\ CallNames(calls[q])
           /\ calls[q].at \in 0..(MaxClock + 1)
  <1>1. CallTyped(calls[q]) /\ CallNames(calls[q]) /\ CallRun(calls[q])
    BY DEF RoutesInv
  <1>2. calls[q].run = Nothing
    BY <1>1 DEF CallRun
  <1> QED
    BY <1>1, <1>2 DEF CallTyped, RouteCall

\* A request that arrives knows nothing but what exists.
LEMMA ArriveKept == ASSUME RoutesAssumption, RoutesInv, NEW q \in Requests, Arrive(q) PROVE RouteKept(q)
  <1>1. TablesKept(calls[q].run)
    BY QuietTables DEF Arrive
  <1> PICK kind \in Kinds, p \in Projects, name \in Names, i \in Intents :
           \E target \in Targets(kind), s \in Commissioners(kind) :
              calls' = [calls EXCEPT ![q] = Arrived(kind, p, name, i, target, s)]
    BY DEF Arrive
  <1>2. PICK target \in Targets(kind), s \in Commissioners(kind) :
             calls' = [calls EXCEPT ![q] = Arrived(kind, p, name, i, target, s)]
    OBVIOUS
  <1>3. target \in Sessions \cup Plans \cup Approvals \cup {Nothing} /\ s \in Sessions \cup {Nothing}
    BY DEF Targets, Commissioners, RoutesInv, RouteTables, LedgerInv, TypeOK, IsTable
  <1> DEFINE pc_ == CASE kind = "create_project" -> "names"
                      [] kind = "archive_project" -> "write"
                      [] OTHER -> "project"
             c == [Idle EXCEPT !.kind = kind, !.project = p, !.name = name, !.intent = i,
                               !.target = target, !.session = s]
             new == Arrived(kind, p, name, i, target, s)
  <1>4. /\ pc_ \in {"names", "write", "project"} /\ pc_ \in PlacesOf(kind)
        /\ pc_ = "write" => kind \notin {"create_project", "create_session"}
    BY DEF PlacesOf
  <1>5. /\ c.kind = kind /\ c.project = p
        /\ Siblings(c) \in SUBSET (Projects \cup Sessions) => new \in RouteCall
        /\ new.kind = kind /\ new.pc = pc_ /\ new.project = p /\ new.name = name
        /\ new.intent = i /\ new.seen = Siblings(c) /\ new.run = Nothing /\ new.answer = "none"
    <2> DEFINE d == [Idle EXCEPT !.kind = kind, !.project = p]
               e == [d EXCEPT !.name = name, !.intent = i]
    <2>1. /\ Idle \in RouteCall /\ Idle.run = Nothing /\ Idle.answer = "none"
      BY DEF Idle, RouteCall, Places, Answers, RoutesAssumption
    <2>2. c = [e EXCEPT !.target = target, !.session = s]
      OBVIOUS
    <2>3. new = [c EXCEPT !.seen = Siblings(c), !.pc = pc_]
      BY DEF Arrived
    <2> HIDE DEF c, new, pc_
    <2>4. d \in RouteCall /\ d.kind = kind /\ d.project = p /\ d.run = Nothing /\ d.answer = "none"
      BY <2>1 DEF RouteCall
    <2> HIDE DEF d
    <2>5. /\ e \in RouteCall /\ e.kind = kind /\ e.project = p /\ e.run = Nothing /\ e.answer = "none"
          /\ e.name = name /\ e.intent = i
      BY <2>4 DEF RouteCall
    <2> HIDE DEF e
    <2>6. /\ c \in RouteCall /\ c.kind = kind /\ c.project = p /\ c.run = Nothing /\ c.answer = "none"
          /\ c.name = name /\ c.intent = i
      BY <1>3, <2>2, <2>5 DEF RouteCall
    <2> DEFINE seen == Siblings(c)
    <2> HIDE DEF seen
    <2>7. /\ new.kind = kind /\ new.pc = pc_ /\ new.project = p /\ new.name = name
          /\ new.intent = i /\ new.seen = seen /\ new.run = Nothing /\ new.answer = "none"
          /\ seen \in SUBSET (Projects \cup Sessions) => new \in RouteCall
      <3>1. pc_ \in Places
        BY <1>4 DEF Places
      <3>2. new = [c EXCEPT !.seen = seen, !.pc = pc_]
        BY <2>3 DEF seen
      <3> QED
        BY <2>6, <3>1, <3>2 DEF RouteCall
    <2> QED
      BY <2>6, <2>7 DEF seen
  <1> HIDE DEF c, new, pc_
  <1>6. /\ kind = "create_project" => Siblings(c) \subseteq DOMAIN projects
        /\ kind # "create_project" =>
              Siblings(c) \subseteq {x \in DOMAIN sessions : sessions[x].project = p}
        /\ Siblings(c) \subseteq Projects \cup Sessions
    BY <1>5 DEF Siblings, SessionLive, RoutesInv, RouteTables, LedgerInv, TypeOK, IsTable
  <1>7. calls' = [calls EXCEPT ![q] = new]
    BY <1>2 DEF new
  <1>8. new \in RouteCall
    BY <1>5, <1>6
  <1>9. /\ calls' \in [Requests -> RouteCall] /\ calls'[q] = new
        /\ \A o \in Requests \ {q} : calls'[o] = calls[o]
    BY <1>7, <1>8 DEF RoutesInv
  <1>10. CallTyped(calls[q])'
    BY <1>4, <1>5, <1>8, <1>9 DEF CallTyped
  <1>11. CallNames(calls[q])'
    <2>1. UNCHANGED <<projects, sessions>>
      BY DEF Arrive, Keep, ledgerVars
    <2> QED
      BY <1>4, <1>5, <1>6, <1>9, <2>1 DEF CallNames
  <1>12. CallRun(calls[q])'
    BY <1>4, <1>5, <1>9 DEF CallRun, Executed
  <1>13. calls'[q].run = calls[q].run
    BY <1>5, <1>9 DEF Arrive, RoutesInv, CallRun
  <1> QED
    BY <1>1, <1>9, <1>10, <1>11, <1>12, <1>13 DEF RouteKept

\* The steps that read, and those that refuse.
LEMMA ReadKept ==
    ASSUME RoutesAssumption, RoutesInv, NEW q \in Requests,
           LiveProject(q) \/ LiveSession(q) \/ RejectCollision(q) \/ FindPlan(q)
    PROVE  RouteKept(q)
  <1> DEFINE c == calls[q]
  <1>1. TablesKept(Nothing)
    BY QuietTables DEF LiveProject, LiveSession, RejectCollision, FindPlan
  <1>2. /\ c.run = Nothing /\ CallTyped(c) /\ c.pc # "idle" /\ CallNames(c)
        /\ c.pc \notin {"answered", "abandon"}
    BY EarlyCall DEF LiveProject, LiveSession, RejectCollision, FindPlan
  <1>3. CASE LiveProject(q)
    <2>1. /\ AfterProject(c.kind) \in PlacesOf(c.kind)
          /\ AfterProject(c.kind) \in {"names", "session", "planned", "write"}
          /\ c.kind \in {"create_project", "create_session"} => AfterProject(c.kind) # "write"
      BY <1>2, <1>3, WhoIsWhere DEF AfterProject, PlacesOf, LiveProject
    <2> QED
      BY <1>1, <1>2, <1>3, <2>1, MoveKept, AnswerKept DEF Answers, LiveProject
  <1>4. CASE LiveSession(q)
    <2>1. /\ c.kind = "create_plan" => "write" \in PlacesOf(c.kind)
          /\ c.kind # "create_plan" => "approval" \in PlacesOf(c.kind)
          /\ c.kind \notin {"create_project", "create_session"}
      BY <1>2, <1>4, WhoIsWhere DEF PlacesOf, LiveSession
    <2> QED
      BY <1>1, <1>2, <1>4, <2>1, MoveKept, AnswerKept DEF Answers, LiveSession
  <1>5. CASE RejectCollision(q)
    <2>1. c.kind \in {"create_project", "create_session"} /\ "write" \in PlacesOf(c.kind)
      BY <1>2, <1>5, WhoIsWhere DEF PlacesOf, RejectCollision
    <2>2. CASE \E x \in Siblings(c) : titles[x] = c.name
      BY <1>1, <1>2, <1>5, <2>2, AnswerKept DEF Answers, RejectCollision
    <2>3. CASE ~ \E x \in Siblings(c) : titles[x] = c.name
      <3>1. ASSUME NEW x \in c.seen, titles[x] = c.name
            PROVE  x \in DOMAIN sessions /\ sessions[x].archived
        <4>1. x \notin Siblings(c)
          BY <2>3, <3>1
        <4> QED
          BY <1>2, <2>1, <4>1 DEF Siblings, SessionLive, CallNames
      <3> QED
        BY <1>1, <1>2, <1>5, <2>1, <2>3, <3>1, MoveKept DEF RejectCollision
    <2> QED
      BY <2>2, <2>3
  <1>6. CASE FindPlan(q)
    <2>1. c.kind = "create_approval" /\ "write" \in PlacesOf(c.kind)
      BY <1>2, <1>6, WhoIsWhere DEF PlacesOf, FindPlan
    <2> QED
      BY <1>1, <1>2, <1>6, <2>1, MoveKept, AnswerKept DEF Answers, FindPlan
  <1> QED
    BY <1>3, <1>4, <1>5, <1>6

\* The clock is within its bound when it is read.
LEMMA ReadClockKept ==
    ASSUME RoutesAssumption, RoutesInv, NEW q \in Requests, ReadClock(q) PROVE RouteKept(q)
  <1>1. TablesKept(calls[q].run) /\ UNCHANGED ledgerVars
    BY QuietTables DEF ReadClock, Keep
  <1>2. clock + 1 \in 0..(MaxClock + 1)
    BY DEF RoutesAssumption, RoutesInv, RouteTables
  <1>3. /\ calls' \in [Requests -> RouteCall]
        /\ \A o \in Requests \ {q} : calls'[o] = calls[o]
        /\ calls'[q].pc = calls[q].pc /\ SameRequest(calls[q], calls'[q])
        /\ calls'[q].run = calls[q].run /\ calls'[q].answer = calls[q].answer
        /\ calls'[q].unmarked = calls[q].unmarked
    BY <1>2 DEF ReadClock, RoutesInv, RouteCall, SameRequest
  <1>4. CallTyped(calls[q]) /\ CallNames(calls[q]) /\ CallRun(calls[q])
    BY DEF RoutesInv
  <1>5. CallTyped(calls[q])'
    BY <1>3, <1>4 DEF CallTyped, SameRequest
  <1>6. CallNames(calls[q])'
    BY <1>1, <1>3, <1>4, NamesStay DEF TablesKept, CallNames
  <1>7. CallRun(calls[q])'
    BY <1>1, <1>3, <1>4 DEF CallRun, Executed, SameRequest, RunClaimed, ledgerVars
  <1> QED
    BY <1>1, <1>3, <1>5, <1>6, <1>7 DEF RouteKept

\* What the clock said is a time of the ledger.
LEMMA NowIsTime ==
    ASSUME RoutesAssumption, RoutesInv, NEW q \in Requests, calls[q].at > 0
    PROVE  Now(calls[q]) \in Times /\ Now(calls[q]) + Ttl \in Times
  <1>1. calls[q].at \in 0..(MaxClock + 1)
    BY DEF RoutesInv, RouteCall
  <1>2. calls[q].at - 1 \in 0..(MaxClock + Ttl) /\ calls[q].at - 1 + Ttl \in 0..(MaxClock + Ttl)
    BY <1>1 DEF RoutesAssumption
  <1> QED
    BY <1>2 DEF Now, RoutesAssumption

\* The transactions that create a row.
LEMMA CreateRowKept ==
    ASSUME RoutesAssumption, RoutesInv, NEW q \in Requests, CreateRow(q) PROVE RouteKept(q)
  <1> DEFINE c == calls[q]
  <1>1. /\ c.pc = "write" /\ Answer(q, "created") /\ clock' = clock
        /\ c.run = Nothing /\ c.project \in Projects /\ c.intent \in Intents
    BY EarlyCall DEF CreateRow
  <1>2. TablesKept(Nothing)
    <2>1. CASE CreateProject(c.project) /\ titles' = Insert(titles, c.project, c.name)
      BY <1>1, <2>1, CreateProjectTables
    <2>2. CASE /\ c.at > 0
               /\ \E s \in Sessions : CreateSession(c.project, s, Now(c)) /\ titles' = Insert(titles, s, c.name)
      BY <1>1, <2>2, NowIsTime, CreateSessionTables
    <2>3. CASE UNCHANGED titles /\ \E pl \in Plans : CreatePlan(c.project, Requester, pl, c.intent)
      BY <1>1, <2>3, PlanTables
    <2>4. CASE /\ c.at > 0 /\ UNCHANGED titles
               /\ \E ap \in Approvals :
                     GrantApproval(c.project, Requester, ap, c.target, plans[c.target].intent, Now(c), Now(c) + Ttl)
      BY <1>1, <2>4, NowIsTime, PlanTables
    <2> QED
      BY <2>1, <2>2, <2>3, <2>4 DEF CreateRow
  <1> QED
    BY <1>1, <1>2, AnswerKept DEF Answers

\* The other transactions outside a start, and their refusals.
LEMMA WriteKept ==
    ASSUME RoutesAssumption, RoutesInv, NEW q \in Requests,
           RefuseWrite(q) \/ ArchiveRow(q) \/ Resume(q) \/ ReadBack(q)
    PROVE  RouteKept(q)
  <1> DEFINE c == calls[q]
  <1>1. /\ c.pc \in {"write", "readback"}
        /\ c.run = Nothing /\ c.project \in Projects /\ CallTyped(c)
    BY EarlyCall DEF RefuseWrite, ArchiveRow, Resume, ReadBack
  <1>2. CASE RefuseWrite(q)
    <2>1. Refusal(c) \in Answers \ {"created", "failed"}
      BY DEF Refusal, Answers
    <2> QED
      BY <1>1, <1>2, <2>1, QuietTables, AnswerKept DEF Answers, RefuseWrite
  <1>3. CASE ArchiveRow(q)
    <2>1. TablesKept(Nothing)
      BY <1>1, <1>3, ArchiveProjectTables, SessionTables DEF ArchiveRow
    <2> QED
      BY <1>1, <1>3, <2>1, AnswerKept DEF Answers, ArchiveRow
  <1>4. CASE Resume(q)
    <2>1. TablesKept(Nothing)
      BY <1>1, <1>4, NowIsTime, SessionTables DEF Resume
    <2>2. "readback" \in PlacesOf(c.kind)
      BY <1>4 DEF Resume, PlacesOf
    <2> QED
      BY <1>1, <1>4, <2>1, <2>2, MoveKept DEF Resume
  <1>5. CASE ReadBack(q)
    BY <1>1, <1>5, QuietTables, AnswerKept DEF Answers, ReadBack
  <1> QED
    BY <1>2, <1>3, <1>4, <1>5

\* A start that was refused, or queued the Run it owns from then on.
LEMMA QueueKept ==
    ASSUME RoutesAssumption, RoutesInv, NEW q \in Requests, RequireUnspent(q) \/ QueueRun(q)
    PROVE  RouteKept(q)
  <1> DEFINE c == calls[q]
  <1>1. /\ c.pc \in {"approval", "queue"} /\ c.kind = "start_run"
        /\ c.run = Nothing /\ c.project \in Projects /\ CallTyped(c)
    BY EarlyCall, WhoIsWhere DEF RequireUnspent, QueueRun
  <1>2. CASE RequireUnspent(q)
    <2>1. TablesKept(Nothing) /\ "queue" \in PlacesOf(c.kind)
      BY <1>1, <1>2, QuietTables DEF RequireUnspent, PlacesOf
    <2> QED
      BY <1>1, <1>2, <2>1, MoveKept, AnswerKept DEF Answers, RequireUnspent
  <1>3. CASE /\ UNCHANGED <<ledgerVars, titles, clock>>
             /\ \/ Answer(q, "invalid_request")
                \/ Answer(q, IF Archived(c.project) THEN "project_archived" ELSE "not_found")
    BY <1>1, <1>3, QuietTables, AnswerKept DEF Answers, Keep
  <1>4. ASSUME NEW r \in Runs, UNCHANGED <<titles, clock>>,
               CreateRun(c.project, Requester, r, approvals[c.target].plan, c.target, c.session, c.intent),
               calls' = [calls EXCEPT ![q].pc = "claim", ![q].run = r]
        PROVE  RouteKept(q)
    <2>1. TablesKept(Nothing)
      BY <1>1, <1>4, CreateRunTables
    <2>2. /\ calls' \in [Requests -> RouteCall]
          /\ \A o \in Requests \ {q} : calls'[o] = calls[o]
          /\ calls'[q].pc = "claim" /\ SameRequest(calls[q], calls'[q])
          /\ calls'[q].run = r /\ calls'[q].answer = calls[q].answer
      <3> DEFINE new == [calls[q] EXCEPT !.pc = "claim", !.run = r]
      <3>1. calls \in [Requests -> RouteCall] /\ "claim" \in Places
        BY DEF RoutesInv, Places
      <3>2. /\ new \in RouteCall /\ SameRequest(calls[q], new)
            /\ new.pc = "claim" /\ new.run = r /\ new.answer = calls[q].answer
        BY <3>1 DEF RouteCall, SameRequest
      <3>3. calls' = [calls EXCEPT ![q] = new]
        BY <1>4
      <3> HIDE DEF new
      <3> QED
        BY <3>1, <3>2, <3>3
    <2>3. CallTyped(calls[q])'
      BY <1>1, <2>2 DEF CallTyped, SameRequest, PlacesOf
    <2>4. CallNames(calls[q])'
      BY <1>1, <2>1, <2>2, NamesStay DEF TablesKept
    <2>5. /\ r \notin DOMAIN runs /\ r \in DOMAIN runs'
          /\ runs'[r].approval = c.target /\ runs'[r].state = "queued"
      BY <1>4 DEF CreateRun, Insert
    <2>6. CallRun(calls[q])'
      BY <1>1, <2>2, <2>5 DEF CallRun, Executed, SameRequest
    <2> QED
      BY <1>1, <2>1, <2>2, <2>3, <2>4, <2>5, <2>6 DEF RouteKept
  <1> QED
    BY <1>2, <1>3, <1>4 DEF QueueRun

\* A start that holds a Run.
LEMMA LateCall ==
    ASSUME RoutesAssumption, RoutesInv, NEW q \in Requests,
           calls[q].pc \in {"claim", "publish", "abandon"}
    PROVE  /\ calls[q].kind = "start_run" /\ calls[q].run \in Runs /\ calls[q].run \in DOMAIN runs
           /\ calls[q].project \in Projects /\ calls[q].intent \in Intents
           /\ CallTyped(calls[q]) /\ CallRun(calls[q])
  <1>1. CallTyped(calls[q]) /\ CallRun(calls[q])
    BY DEF RoutesInv
  <1>2. calls[q].kind = "start_run"
    BY <1>1, WhoIsWhere
  <1>3. calls[q].run \in DOMAIN runs
    BY <1>1 DEF CallRun, Executed
  <1>4. DOMAIN runs \subseteq Runs
    BY DEF RoutesInv, RouteTables, LedgerInv, TypeOK, IsTable
  <1> QED
    BY <1>1, <1>2, <1>3, <1>4 DEF CallTyped

\* The claim spends the approval on this very Run, or changes nothing.
LEMMA ClaimKept ==
    ASSUME RoutesAssumption, RoutesInv, NEW q \in Requests, Claim(q) \/ RefuseClaim(q)
    PROVE  RouteKept(q)
  <1> DEFINE c == calls[q]
  <1>1. /\ c.pc = "claim" /\ c.at > 0 /\ c.kind = "start_run" /\ c.run \in Runs /\ c.run \in DOMAIN runs
        /\ c.project \in Projects /\ c.intent \in Intents /\ CallTyped(c) /\ CallRun(c)
        /\ runs[c.run].approval = c.target /\ runs[c.run].state = "queued"
    <2>1. c.pc = "claim" /\ c.at > 0
      BY DEF Claim, RefuseClaim
    <2>2. /\ c.kind = "start_run" /\ c.run \in Runs /\ c.run \in DOMAIN runs
          /\ c.project \in Projects /\ c.intent \in Intents /\ CallTyped(c) /\ CallRun(c)
      BY <2>1, LateCall
    <2> QED
      BY <2>1, <2>2 DEF CallRun
  <1>2. CASE Claim(q)
    <2>1. PICK e \in Executions : StartRun(c.project, Requester, c.run, e, c.intent, Now(c))
      BY <1>2 DEF Claim
    <2>2. /\ TablesKept(c.run)
          /\ c.target \in DOMAIN approvals /\ approvals'[c.target].consumedBy = c.run
      <3>1. Now(c) \in Times
        BY <1>1, NowIsTime
      <3>2. UNCHANGED <<titles, clock>>
        BY <1>2 DEF Claim
      <3> QED
        BY <1>1, <2>1, <3>1, <3>2, StartRunTables
    <2>3. /\ calls' \in [Requests -> RouteCall]
          /\ \A o \in Requests \ {q} : calls'[o] = calls[o]
          /\ calls'[q].pc = "publish" /\ SameRequest(calls[q], calls'[q])
          /\ calls'[q].run = calls[q].run /\ calls'[q].answer = calls[q].answer
      BY <1>2, CallMoved DEF Claim, RoutesInv, Places
    <2>4. CallTyped(calls[q])'
      BY <1>1, <2>3 DEF CallTyped, SameRequest, PlacesOf
    <2>5. CallNames(calls[q])'
      BY <1>1, <2>2, <2>3, NamesStay DEF TablesKept
    <2>6. CallRun(calls[q])'
      BY <1>1, <2>2, <2>3 DEF CallRun, Executed, SameRequest, TablesKept, OthersMayRely
    <2> QED
      BY <2>2, <2>3, <2>4, <2>5, <2>6 DEF RouteKept
  <1>3. CASE RefuseClaim(q)
    <2> DEFINE answer == IF Archived(c.project) THEN "project_archived"
                         ELSE IF Replayed(c.run) THEN "approval_consumed" ELSE "approval_expired"
    <2>1. answer \in Answers \ {"created", "failed"}
      BY DEF Answers
    <2>2. calls' = [calls EXCEPT ![q].pc = "abandon", ![q].answer = answer]
      BY <1>3 DEF RefuseClaim
    <2> HIDE DEF answer
    <2>3. /\ calls' \in [Requests -> RouteCall]
          /\ \A o \in Requests \ {q} : calls'[o] = calls[o]
          /\ calls'[q].pc = "abandon" /\ SameRequest(calls[q], calls'[q])
          /\ calls'[q].run = calls[q].run /\ calls'[q].answer = answer
      <3> DEFINE new == [calls[q] EXCEPT !.pc = "abandon", !.answer = answer]
      <3>1. calls \in [Requests -> RouteCall] /\ "abandon" \in Places /\ answer \in Answers
        BY <2>1 DEF RoutesInv, Places
      <3>2. /\ new \in RouteCall /\ SameRequest(calls[q], new)
            /\ new.pc = "abandon" /\ new.run = calls[q].run /\ new.answer = answer
        BY <3>1 DEF RouteCall, SameRequest
      <3>3. calls' = [calls EXCEPT ![q] = new]
        BY <2>2
      <3> HIDE DEF new
      <3> QED
        BY <3>1, <3>2, <3>3
    <2>4. TablesKept(c.run) /\ UNCHANGED ledgerVars
      BY <1>3, QuietTables DEF RefuseClaim, Keep
    <2>5. CallTyped(calls[q])'
      BY <1>1, <2>3 DEF CallTyped, SameRequest, PlacesOf
    <2>6. CallNames(calls[q])'
      BY <1>1, <2>1, <2>3, <2>4, NamesStay DEF TablesKept
    <2>7. CallRun(calls[q])'
      BY <1>1, <2>1, <2>3, <2>4 DEF CallRun, Executed, SameRequest, ledgerVars
    <2> QED
      BY <2>3, <2>4, <2>5, <2>6, <2>7 DEF RouteKept
  <1> QED
    BY <1>2, <1>3

\* A start that was refused gives its Run up, unless the store fails it too.
LEMMA AbandonKept ==
    ASSUME RoutesAssumption, RoutesInv, NEW q \in Requests, AbandonRun(q) PROVE RouteKept(q)
  <1> DEFINE c == calls[q]
  <1>1. /\ c.pc = "abandon" /\ c.kind = "start_run" /\ c.run \in Runs /\ c.run \in DOMAIN runs
        /\ c.project \in Projects /\ CallTyped(c)
        /\ runs[c.run].state = "queued" /\ c.answer \in Answers \ {"created", "failed"}
    <2>1. /\ c.kind = "start_run" /\ c.run \in Runs /\ c.run \in DOMAIN runs
          /\ c.project \in Projects /\ CallTyped(c) /\ CallRun(c)
      BY LateCall DEF AbandonRun
    <2> QED
      BY <2>1 DEF AbandonRun, CallRun, CallTyped, RouteCall
  <1>2. ~RunClaimed(c.run)
    BY <1>1 DEF RoutesInv, RouteTables, LedgerInv, StartedRunsOwnAnExecution
  <1>3. PICK marked \in BOOLEAN :
            /\ marked => FinishRun(c.project, c.run, "failed") /\ Answer(q, c.answer)
            /\ ~marked => /\ calls' = [calls EXCEPT ![q].pc = "answered", ![q].unmarked = TRUE]
                          /\ UNCHANGED ledgerVars
    <2>1. CASE FinishRun(c.project, c.run, "failed") /\ Answer(q, c.answer)
      BY <2>1
    <2>2. CASE /\ calls' = [calls EXCEPT ![q].pc = "answered", ![q].unmarked = TRUE]
               /\ UNCHANGED ledgerVars
      BY <2>2
    <2> QED
      BY <2>1, <2>2 DEF AbandonRun
  <1>4. /\ calls' \in [Requests -> RouteCall]
        /\ \A o \in Requests \ {q} : calls'[o] = calls[o]
        /\ calls'[q].pc = "answered" /\ SameRequest(calls[q], calls'[q])
        /\ calls'[q].run = calls[q].run /\ calls'[q].answer = calls[q].answer
        /\ ~marked => calls'[q].unmarked
    <2>1. CASE marked
      BY <1>1, <1>3, <2>1, CallAnswered DEF RoutesInv
    <2>2. CASE ~marked
      BY <1>3, <2>2 DEF RoutesInv, RouteCall, SameRequest, Places
    <2> QED
      BY <2>1, <2>2
  <1>5. /\ TablesKept(c.run) /\ UNCHANGED executions
        /\ c.run \in DOMAIN runs' /\ (marked => runs'[c.run].state = "failed")
    <2>1. UNCHANGED <<titles, clock>>
      BY DEF AbandonRun
    <2>2. CASE marked
      BY <1>1, <1>3, <2>1, <2>2, FinishRunTables
    <2>3. CASE ~marked
      BY <1>1, <1>3, <2>1, <2>3, QuietTables DEF Keep, ledgerVars
    <2> QED
      BY <2>2, <2>3
  <1>6. CallTyped(calls[q])'
    BY <1>1, <1>4 DEF CallTyped, SameRequest
  <1>7. CallNames(calls[q])'
    BY <1>1, <1>4, <1>5, NamesStay DEF TablesKept
  <1>8. CallRun(calls[q])'
    BY <1>1, <1>2, <1>4, <1>5 DEF CallRun, Executed, SameRequest, RunClaimed
  <1> QED
    BY <1>4, <1>5, <1>6, <1>7, <1>8 DEF RouteKept

\* The chain ends the Run on which the approval was spent.
LEMMA PublishKept ==
    ASSUME RoutesAssumption, RoutesInv, NEW q \in Requests, Publish(q) PROVE RouteKept(q)
  <1> DEFINE c == calls[q]
  <1>1. /\ c.pc = "publish" /\ c.kind = "start_run" /\ c.run \in DOMAIN runs
        /\ c.project \in Projects /\ CallTyped(c)
        /\ c.target \in DOMAIN approvals /\ approvals[c.target].consumedBy = c.run
    <2>1. /\ c.kind = "start_run" /\ c.run \in DOMAIN runs
          /\ c.project \in Projects /\ CallTyped(c) /\ CallRun(c)
      BY LateCall DEF Publish
    <2> QED
      BY <2>1 DEF Publish, CallRun, Executed
  <1>2. PICK state \in {"completed", "failed"}, answer \in {"created", "failed"} :
            FinishRun(c.project, c.run, state) /\ Answer(q, answer)
    BY DEF Publish
  <1>3. TablesKept(c.run) /\ UNCHANGED approvals /\ c.run \in DOMAIN runs'
    BY <1>1, <1>2, FinishRunTables DEF Publish
  <1>4. /\ calls' \in [Requests -> RouteCall]
        /\ \A o \in Requests \ {q} : calls'[o] = calls[o]
        /\ calls'[q].pc = "answered" /\ SameRequest(calls[q], calls'[q])
        /\ calls'[q].run = calls[q].run /\ calls'[q].answer = answer
    BY <1>2, CallAnswered DEF RoutesInv, Answers
  <1>5. CallTyped(calls[q])'
    BY <1>1, <1>4 DEF CallTyped, SameRequest
  <1>6. CallNames(calls[q])'
    BY <1>1, <1>3, <1>4, NamesStay DEF TablesKept
  <1>7. CallRun(calls[q])'
    BY <1>1, <1>3, <1>4 DEF CallRun, Executed, SameRequest
  <1> QED
    BY <1>3, <1>4, <1>5, <1>6, <1>7 DEF RouteKept

\* Every step of a request.
LEMMA RequestKept ==
    ASSUME RoutesAssumption, RoutesInv, NEW q \in Requests, Arrive(q) \/ Step(q)
    PROVE  RouteKept(q)
  BY ArriveKept, ReadKept, ReadClockKept, CreateRowKept, WriteKept, QueueKept, ClaimKept,
     AbandonKept, PublishKept DEF Step

\* It keeps the invariant of the tables and of every other request.
LEMMA RequestStep ==
    ASSUME RoutesAssumption, RoutesInv, NEW q \in Requests, RouteKept(q) PROVE RoutesInv'
  <1>1. RouteTables'
    BY LedgerStep DEF RouteKept, TablesKept, RouteTables, RoutesInv
  <1>2. calls' \in [Requests -> RouteCall]
    BY DEF RouteKept
  <1>3. Nothing \notin DOMAIN runs /\ OthersMayRely(calls[q].run)
    BY DEF RoutesAssumption, RoutesInv, RouteTables, LedgerInv, TypeOK, IsTable, RouteKept, TablesKept
  <1>4. ASSUME NEW o \in Requests \ {q}
        PROVE  (CallTyped(calls[o]) /\ CallNames(calls[o]) /\ CallRun(calls[o]))'
    <2>1. calls'[o] = calls[o]
      BY DEF RouteKept
    <2>2. CallTyped(calls[o]) /\ CallNames(calls[o]) /\ CallRun(calls[o])
      BY DEF RoutesInv
    <2>3. CallTyped(calls[o])'
      BY <2>1, <2>2 DEF CallTyped
    <2>4. CallNames(calls[o])'
      <3>1. SameRequest(calls[o], calls'[o])
        BY <2>1 DEF SameRequest
      <3> QED
        BY <1>3, <2>1, <2>2, <3>1, NamesStay DEF CallNames
    <2>5. CallRun(calls[o])'
      <3>1. calls[o].run \in DOMAIN runs => calls[o].run # calls[q].run
        BY <1>3 DEF RoutesInv
      <3> QED
        BY <1>3, <2>1, <3>1, RunStays
    <2> QED
      BY <2>3, <2>4, <2>5
  <1>5. ASSUME NEW q1 \in Requests, NEW q2 \in Requests,
               calls'[q1].run = calls'[q2].run, calls'[q1].run # Nothing
        PROVE  q1 = q2
    <2>1. \A o \in Requests : calls[o].run # Nothing => calls[o].run \in DOMAIN runs
      BY DEF RoutesInv, CallRun
    <2>2. /\ \A o \in Requests \ {q} : calls'[o].run = calls[o].run
          /\ calls'[q].run = calls[q].run \/ calls'[q].run \in Runs \ DOMAIN runs
      BY DEF RouteKept
    <2> QED
      BY <1>5, <2>1, <2>2 DEF RoutesInv
  <1> QED
    BY <1>1, <1>2, <1>4, <1>5 DEF RoutesInv, RouteKept

\* The clock moves alone.
LEMMA RoutesStep ==
    ASSUME RoutesAssumption, RoutesInv, [RoutesNext]_routeVars
    PROVE  RoutesInv' /\ [Next]_ledgerVars
  <1>1. CASE Tick \/ UNCHANGED routeVars
    <2>1. UNCHANGED <<ledgerVars, titles, calls>> /\ clock' \in 0..MaxClock
      BY <1>1 DEF Tick, routeVars, RoutesInv, RouteTables, RoutesAssumption
    <2>2. RouteTables'
      BY <2>1, LedgerStep DEF RoutesInv, RouteTables, NamedRows, ledgerVars
    <2>3. ASSUME NEW q \in Requests
          PROVE  (CallTyped(calls[q]) /\ CallNames(calls[q]) /\ CallRun(calls[q]))'
      BY <2>1 DEF RoutesInv, CallTyped, CallNames, CallRun, Executed, RunClaimed, ledgerVars
    <2> QED
      BY <2>1, <2>2, <2>3 DEF RoutesInv
  <1>2. CASE \E q \in Requests : Arrive(q) \/ Step(q)
    BY <1>2, RequestKept, RequestStep DEF RouteKept, TablesKept
  <1> QED
    BY <1>1, <1>2 DEF RoutesNext

\* The invariant says what was answered.
LEMMA SoundAnswers == ASSUME RoutesAssumption, RoutesInv PROVE RoutesAreSound
  <1>1. NoLateDuplicates
    BY DEF RoutesInv, NoLateDuplicates, CallNames
  <1>2. OneRunPerApproval
    <2>1. ASSUME NEW q \in Starts, calls[q].answer \in {"created", "failed"}
          PROVE  /\ calls[q].run = approvals[calls[q].target].consumedBy
                 /\ calls[q].run # Nothing
      BY <2>1 DEF RoutesAssumption, RoutesInv, CallRun, Executed, Starts, RouteTables, LedgerInv,
                  TypeOK, IsTable
    <2> QED
      BY <2>1 DEF OneRunPerApproval, RoutesInv, Starts
  <1>3. RefusedRunsAreMarked
    BY DEF RoutesInv, RefusedRunsAreMarked, Starts, CallRun, Executed
  <1> QED
    BY <1>1, <1>2, <1>3 DEF RoutesAreSound

\* Whatever the routes interleave, they take transactions of the ledger one at a time.
THEOREM RoutesTakeTransactions ==
    ASSUME RoutesAssumption PROVE RoutesSpec => [][Next]_ledgerVars
  <1>1. RoutesInit => RoutesInv
    BY RoutesStart
  <1>2. RoutesInv /\ [RoutesNext]_routeVars => RoutesInv' /\ [Next]_ledgerVars
    BY RoutesStep
  <1> QED
    BY <1>1, <1>2, PTL DEF RoutesSpec

\* No two requests execute one approval however they race, a creation never repeats a name
\* that was there when it arrived, and a start that is refused leaves no Run behind that
\* claims an execution or waits unmarked (_reject_collision, _start_run, run_analysis).
THEOREM RoutesAreSoundAlways ==
    ASSUME RoutesAssumption PROVE RoutesSpec => []RoutesAreSound
  <1>1. RoutesInit => RoutesInv
    BY RoutesStart
  <1>2. RoutesInv /\ [RoutesNext]_routeVars => RoutesInv'
    BY RoutesStep
  <1>3. RoutesInv => RoutesAreSound
    BY SoundAnswers
  <1> QED
    BY <1>1, <1>2, <1>3, PTL DEF RoutesSpec

=============================================================================
