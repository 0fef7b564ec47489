----------------------------- MODULE RunLedger -----------------------------
(***************************************************************************)
(* The half of the local SQLite store (apps/local/nipo_local/store.py) that *)
(* decides which analysis may execute: Projects, Sessions, ActionPlans,     *)
(* one-use plan approvals, Runs and the executions they claim.              *)
(*                                                                          *)
(* Every operation of the store runs inside one BEGIN IMMEDIATE             *)
(* transaction that commits only on its success outcome and rolls back on   *)
(* every refusal, so an operation is one atomic action and a refusal is a   *)
(* disabled action.  A table is a function from primary keys to rows; its   *)
(* domain is the set of rows that exist.  The installation has one tenant,  *)
(* so org_id is left out; an ArtifactScope is a Project and a requester.    *)
(***************************************************************************)
EXTENDS Naturals

CONSTANTS Projects, Requesters, Sessions, Plans, Approvals, Runs, Executions,
          Intents,      \* digests of canonical ResearchIntents
          Times,        \* timestamps the callers may submit
          NoSession,    \* runs.session_id IS NULL
          NoRun,        \* plan_approvals.consumed_by_run_id IS NULL
          NoTime        \* plan_approvals.consumed_at IS NULL

ASSUME TimesAssumption == Times \subseteq Nat

ASSUME NullAssumption ==
    /\ NoSession \notin Sessions
    /\ NoRun \notin Runs
    /\ NoTime \notin Times

VARIABLES projects, sessions, plans, approvals, runs, executions

ledgerVars == <<projects, sessions, plans, approvals, runs, executions>>

(***************************************************************************)
(* Rows.                                                                    *)
(***************************************************************************)

RunState == {"queued", "running", "completed", "failed", "cancelled"}

TerminalRunStates == {"completed", "failed", "cancelled"}

\* The plan digest is a hash of all its bindings; hashes are modelled as
\* collision-free, so the digest is the tuple of what was hashed.
PlanDigest(p, q, pl, i) == <<p, q, pl, i>>

PlanDigests == Projects \X Requesters \X Plans \X Intents

\* A row with named = FALSE is the bare archival marker that archive_project
\* writes for a Project that was never registered.
ProjectRecord == [named : BOOLEAN, archived : BOOLEAN]

SessionRecord == [project : Projects, active : Times, archived : BOOLEAN]

ActionPlanRecord ==
    [project : Projects, requester : Requesters, intent : Intents,
     digest : PlanDigests]

PlanApprovalRecord ==
    [project : Projects, plan : Plans, approver : Requesters,
     intent : Intents, digest : PlanDigests, granted : Times,
     expires : Times, consumedAt : Times \cup {NoTime},
     consumedBy : Runs \cup {NoRun}]

RunRecord ==
    [project : Projects, plan : Plans, approval : Approvals,
     requester : Requesters, session : Sessions \cup {NoSession},
     state : RunState, intent : Intents]

ExecutionRecord == [project : Projects, run : Runs, intent : Intents]

\* A table holds rows of one kind under some of its keys.
IsTable(table, Keys, Rows) ==
    DOMAIN table \subseteq Keys /\ table \in [DOMAIN table -> Rows]

NoRows == [k \in {} |-> TRUE]

Insert(table, key, row) ==
    [k \in DOMAIN table \cup {key} |-> IF k = key THEN row ELSE table[k]]

(***************************************************************************)
(* The lookups the transactions make.  Reads are scoped to the Project;     *)
(* "taken" checks are scoped to the tenant, as the primary keys are.        *)
(***************************************************************************)

ProjectRegistered(p) == p \in DOMAIN projects /\ projects[p].named

Archived(p) == p \in DOMAIN projects /\ projects[p].archived

SessionLive(p, s) ==
    s \in DOMAIN sessions /\ sessions[s].project = p /\ ~sessions[s].archived

PlanFound(p, pl) == pl \in DOMAIN plans /\ plans[pl].project = p

ApprovalFound(p, ap) == ap \in DOMAIN approvals /\ approvals[ap].project = p

RunFound(p, r) == r \in DOMAIN runs /\ runs[r].project = p

\* Mutant of PlanApproved: UNIQUE (org_id, plan_id) and its check are gone.
NeverApproved(pl) == FALSE

PlanApproved(pl) == \E ap \in DOMAIN approvals : approvals[ap].plan = pl

RunClaimed(r) == \E e \in DOMAIN executions : executions[e].run = r

(***************************************************************************)
(* Projects and Sessions.                                                   *)
(***************************************************************************)

Init ==
    /\ projects = NoRows
    /\ sessions = NoRows
    /\ plans = NoRows
    /\ approvals = NoRows
    /\ runs = NoRows
    /\ executions = NoRows

\* Mutant of CreateProject: registration overwrites an archival marker.
CreateOverMarker(p) ==
    /\ ~ProjectRegistered(p)
    /\ projects' = Insert(projects, p, [named |-> TRUE, archived |-> FALSE])
    /\ UNCHANGED <<sessions, plans, approvals, runs, executions>>

CreateProject(p) ==
    /\ ~Archived(p)
    /\ ~ProjectRegistered(p)
    /\ projects' = Insert(projects, p, [named |-> TRUE, archived |-> FALSE])
    /\ UNCHANGED <<sessions, plans, approvals, runs, executions>>

\* The upsert of archive_project: never refused, and the name it finds stays.
ArchiveProject(p) ==
    /\ projects' = Insert(projects, p, [named |-> ProjectRegistered(p),
                                        archived |-> TRUE])
    /\ UNCHANGED <<sessions, plans, approvals, runs, executions>>

ArchiveRegisteredProject(p) ==
    /\ ProjectRegistered(p)
    /\ ~Archived(p)
    /\ projects' = [projects EXCEPT ![p].archived = TRUE]
    /\ UNCHANGED <<sessions, plans, approvals, runs, executions>>

\* A Session needs no registered Project, only one that is not archived, and
\* an identity no Project of the tenant uses.
CreateSession(p, s, t) ==
    /\ ~Archived(p)
    /\ s \notin DOMAIN sessions
    /\ sessions' = Insert(sessions, s, [project |-> p, active |-> t,
                                        archived |-> FALSE])
    /\ UNCHANGED <<projects, plans, approvals, runs, executions>>

ResumeSession(p, s, t) ==
    /\ ~Archived(p)
    /\ SessionLive(p, s)
    /\ sessions' = [sessions EXCEPT ![s].active = t]
    /\ UNCHANGED <<projects, plans, approvals, runs, executions>>

ArchiveSession(p, s) ==
    /\ ~Archived(p)
    /\ SessionLive(p, s)
    /\ sessions' = [sessions EXCEPT ![s].archived = TRUE]
    /\ UNCHANGED <<projects, plans, approvals, runs, executions>>

(***************************************************************************)
(* Plans and approvals.                                                     *)
(***************************************************************************)

\* The submitted digest must be the derived one, so the row holds it.
CreatePlan(p, q, pl, i) ==
    /\ ~Archived(p)
    /\ pl \notin DOMAIN plans
    /\ plans' = Insert(plans, pl, [project |-> p, requester |-> q,
                                   intent |-> i,
                                   digest |-> PlanDigest(p, q, pl, i)])
    /\ UNCHANGED <<projects, sessions, approvals, runs, executions>>

\* One approval per plan, granted by the plan's own requester for exactly the
\* digests the plan holds.
GrantApproval(p, q, ap, pl, i, from, until) ==
    /\ from < until
    /\ ~Archived(p)
    /\ PlanFound(p, pl)
    /\ plans[pl].requester = q
    /\ plans[pl].intent = i
    /\ ap \notin DOMAIN approvals
    /\ ~PlanApproved(pl)
    /\ approvals' = Insert(approvals, ap,
            [project |-> p, plan |-> pl, approver |-> q, intent |-> i,
             digest |-> plans[pl].digest, granted |-> from,
             expires |-> until, consumedAt |-> NoTime, consumedBy |-> NoRun])
    /\ UNCHANGED <<projects, sessions, plans, runs, executions>>

(***************************************************************************)
(* Runs.                                                                    *)
(***************************************************************************)

\* Queueing does not look at the approval's consumption: any number of Runs
\* may wait under one approval.
CreateRun(p, q, r, pl, ap, s, i) ==
    /\ ~Archived(p)
    /\ PlanFound(p, pl)
    /\ ApprovalFound(p, ap)
    /\ plans[pl].requester = q
    /\ approvals[ap].plan = pl
    /\ approvals[ap].approver = q
    /\ r \notin DOMAIN runs
    /\ s # NoSession => SessionLive(p, s)
    /\ plans[pl].intent = i
    /\ runs' = Insert(runs, r,
            [project |-> p, plan |-> pl, approval |-> ap, requester |-> q,
             session |-> s, state |-> "queued", intent |-> i])
    /\ UNCHANGED <<projects, sessions, plans, approvals, executions>>

\* What start_run rejects as REPLAYED: a spent approval or a Run that is not
\* waiting.
Replayed(r) ==
    \/ approvals[runs[r].approval].consumedAt # NoTime
    \/ approvals[runs[r].approval].consumedBy # NoRun
    \/ runs[r].state # "queued"

\* Mutant of ClaimDigestsAgree: stored digests are compared with each other
\* and never with the live intent.
StoredDigestsAgree(p, q, r, i) ==
    approvals[runs[r].approval].digest = plans[runs[r].plan].digest

\* The live intent digest i against every stored binding, and the plan digest
\* recomputed from it.
ClaimDigestsAgree(p, q, r, i) ==
    LET run == runs[r]
        plan == plans[run.plan]
        approval == approvals[run.approval]
    IN  /\ i = plan.intent
        /\ i = approval.intent
        /\ i = run.intent
        /\ approval.digest = plan.digest
        /\ plan.digest = PlanDigest(p, q, run.plan, i)

\* start_run accepts a claim only after every refusal of _resolve_claim and
\* _reject_claim has passed, and the two execution fences hold.
ClaimAccepted(p, q, r, e, i, at) ==
    /\ ~Archived(p)
    /\ RunFound(p, r)
    /\ ApprovalFound(p, runs[r].approval)
    /\ PlanFound(p, runs[r].plan)
    /\ approvals[runs[r].approval].plan = runs[r].plan
    /\ plans[runs[r].plan].requester = q
    /\ approvals[runs[r].approval].approver = q
    /\ runs[r].requester = q
    /\ ~Replayed(r)
    /\ ClaimDigestsAgree(p, q, r, i)
    /\ at < approvals[runs[r].approval].expires
    /\ e \notin DOMAIN executions
    /\ ~RunClaimed(r)

\* The approval row after the Run r has consumed it.
Consume(approval, r, at) ==
    [approval EXCEPT !.consumedAt = at, !.consumedBy = r]

\* Consume the approval, create the execution and start the Run: one commit.
StartRun(p, q, r, e, i, at) ==
    /\ ClaimAccepted(p, q, r, e, i, at)
    /\ approvals' = [approvals EXCEPT ![runs[r].approval] = Consume(@, r, at)]
    /\ executions' = Insert(executions, e,
            [project |-> p, run |-> r, intent |-> i])
    /\ runs' = [runs EXCEPT ![r].state = "running"]
    /\ UNCHANGED <<projects, sessions, plans>>

\* Only a started Run completes; a queued one may fail or be cancelled.
TerminalSources(state) ==
    IF state = "completed" THEN {"running"} ELSE {"queued", "running"}

\* Not blocked by archival: a chain that dies in an archived Project must
\* still be marked.  The error columns, set exactly for "failed", are left out.
FinishRun(p, r, state) ==
    /\ state \in TerminalRunStates
    /\ RunFound(p, r)
    /\ runs[r].state \in TerminalSources(state)
    /\ runs' = [runs EXCEPT ![r].state = state]
    /\ UNCHANGED <<projects, sessions, plans, approvals, executions>>

(***************************************************************************)
(* The specification.                                                       *)
(***************************************************************************)

ProjectNext ==
    \E p \in Projects :
        \/ CreateProject(p)
        \/ ArchiveProject(p)
        \/ ArchiveRegisteredProject(p)

SessionNext ==
    \E p \in Projects, s \in Sessions :
        \/ \E t \in Times : CreateSession(p, s, t) \/ ResumeSession(p, s, t)
        \/ ArchiveSession(p, s)

ApprovalNext ==
    \E p \in Projects, q \in Requesters, pl \in Plans, i \in Intents :
        \/ CreatePlan(p, q, pl, i)
        \/ \E ap \in Approvals, from, until \in Times :
                GrantApproval(p, q, ap, pl, i, from, until)

RunNext ==
    \E p \in Projects, r \in Runs :
        \/ \E q \in Requesters, i \in Intents :
             \/ \E pl \in Plans, ap \in Approvals, s \in Sessions \cup {NoSession} :
                    CreateRun(p, q, r, pl, ap, s, i)
             \/ \E e \in Executions, at \in Times : StartRun(p, q, r, e, i, at)
        \/ \E state \in TerminalRunStates : FinishRun(p, r, state)

Next == ProjectNext \/ SessionNext \/ ApprovalNext \/ RunNext

Spec == Init /\ [][Next]_ledgerVars

(***************************************************************************)
(* Properties.                                                              *)
(***************************************************************************)

\* Every table holds only well-typed rows under keys of its own kind.
TypeOK ==
    /\ IsTable(projects, Projects, ProjectRecord)
    /\ IsTable(sessions, Sessions, SessionRecord)
    /\ IsTable(plans, Plans, ActionPlanRecord)
    /\ IsTable(approvals, Approvals, PlanApprovalRecord)
    /\ IsTable(runs, Runs, RunRecord)
    /\ IsTable(executions, Executions, ExecutionRecord)

\* An approval is spent exactly when an execution was created under it, by
\* exactly the Run it records: "an approval is never spent without an
\* execution and an execution never begins without spending its approval"
\* (start_run), although any number of Runs may queue under one approval.
ApprovalSpentByItsExecution ==
    /\ \A ap \in DOMAIN approvals :
          approvals[ap].consumedBy # NoRun =>
              /\ approvals[ap].consumedAt # NoTime
              /\ \E e \in DOMAIN executions :
                    /\ executions[e].run = approvals[ap].consumedBy
                    /\ executions[e].run \in DOMAIN runs
                    /\ runs[executions[e].run].approval = ap
    /\ \A e \in DOMAIN executions :
          /\ executions[e].run \in DOMAIN runs
          /\ runs[executions[e].run].approval \in DOMAIN approvals
          /\ approvals[runs[executions[e].run].approval].consumedBy
                = executions[e].run

\* One ActionPlan executes at most once, over any number of approvals granted
\* and Runs queued for it (the backstop comments on plan_approvals and
\* executions in SCHEMA).
PlanExecutesOnce ==
    \A e, f \in DOMAIN executions :
        runs[executions[e].run].plan = runs[executions[f].run].plan => e = f

\* A Run that is running or completed owns an execution, and a queued Run
\* owns none: start_run moves both together, and only a started Run completes.
StartedRunsOwnAnExecution ==
    \A r \in DOMAIN runs :
        /\ runs[r].state \in {"running", "completed"} => RunClaimed(r)
        /\ runs[r].state = "queued" => ~RunClaimed(r)

\* Every execution ran exactly what was approved: its intent digest, Project
\* and requester are those of its Run, approval and plan, the plan digest
\* derives from them, and the approval had not expired when it was consumed.
ExecutedWhatWasApproved ==
    \A e \in DOMAIN executions :
        LET exec == executions[e]
            run == runs[exec.run]
            plan == plans[run.plan]
            approval == approvals[run.approval]
        IN  /\ run.project = exec.project
            /\ plan.project = exec.project
            /\ approval.project = exec.project
            /\ approval.plan = run.plan
            /\ plan.requester = run.requester
            /\ approval.approver = run.requester
            /\ approval.intent = exec.intent
            /\ approval.digest = PlanDigest(exec.project, run.requester,
                                            run.plan, exec.intent)
            /\ approval.consumedAt < approval.expires

\* A Run never leaves a terminal state, never returns to the queue, and no
\* row of a Run is ever deleted or rebound to another plan or approval.
RunsOnlyMoveForward ==
    [][\A r \in DOMAIN runs :
          /\ r \in DOMAIN runs'
          /\ runs'[r].approval = runs[r].approval
          /\ runs[r].state \in TerminalRunStates => runs'[r] = runs[r]
          /\ runs[r].state = "running" => runs'[r].state # "queued"]_ledgerVars

\* A consumed approval is never freed, re-spent or deleted.
SpentApprovalsStaySpent ==
    [][\A ap \in DOMAIN approvals :
          /\ ap \in DOMAIN approvals'
          /\ approvals[ap].consumedBy # NoRun =>
                approvals'[ap] = approvals[ap]]_ledgerVars

\* Archival is permanent, and it freezes a Project except for finishing the
\* Runs that were open: no new Session, plan, approval, Run or execution
\* appears in it, and no queued Run of it starts.
ArchivedProjectsAreFrozen ==
    [][\A p \in Projects : Archived(p) =>
          /\ Archived(p)'
          /\ \A s \in DOMAIN sessions' :
                sessions'[s].project = p =>
                    s \in DOMAIN sessions /\ sessions'[s] = sessions[s]
          /\ \A pl \in DOMAIN plans' :
                plans'[pl].project = p => pl \in DOMAIN plans
          /\ \A ap \in DOMAIN approvals' :
                approvals'[ap].project = p =>
                    ap \in DOMAIN approvals /\ approvals'[ap] = approvals[ap]
          /\ \A r \in DOMAIN runs' :
                runs'[r].project = p =>
                    /\ r \in DOMAIN runs
                    /\ runs'[r].state # runs[r].state =>
                          runs'[r].state \in TerminalRunStates
          /\ \A e \in DOMAIN executions' :
                executions'[e].project = p => e \in DOMAIN executions
      ]_ledgerVars

\* The approval fence as a whole: approvals are spent by their own executions,
\* a plan executes once, and no Run is running without the execution it claimed.
ApprovalsAreSpentOnce ==
    /\ TypeOK
    /\ ApprovalSpentByItsExecution
    /\ PlanExecutesOnce
    /\ StartedRunsOwnAnExecution

\* What the tables hold is never rewritten: Runs move forward only, a consumed
\* approval stays consumed, and archival is permanent and freezes its Project.
LedgerNeverRewrites ==
    RunsOnlyMoveForward /\ SpentApprovalsStaySpent /\ ArchivedProjectsAreFrozen

(***************************************************************************)
(* The inductive invariant behind the approval properties: what each table  *)
(* says about the rows it refers to.                                        *)
(***************************************************************************)

\* A plan's digest is derived from the plan's own bindings.
PlansDerived ==
    \A pl \in DOMAIN plans :
        plans[pl].digest = PlanDigest(plans[pl].project, plans[pl].requester,
                                      pl, plans[pl].intent)

\* An approval copies the bindings of the plan it approves, is half-consumed
\* never, and was consumed before it expired.
ApprovalsBindPlans ==
    \A ap \in DOMAIN approvals :
        /\ approvals[ap].plan \in DOMAIN plans
        /\ plans[approvals[ap].plan].project = approvals[ap].project
        /\ plans[approvals[ap].plan].requester = approvals[ap].approver
        /\ plans[approvals[ap].plan].intent = approvals[ap].intent
        /\ plans[approvals[ap].plan].digest = approvals[ap].digest
        /\ approvals[ap].consumedBy = NoRun <=> approvals[ap].consumedAt = NoTime
        /\ approvals[ap].consumedAt # NoTime =>
              approvals[ap].consumedAt < approvals[ap].expires

\* No plan has two approvals.
OneApprovalPerPlan ==
    \A ap, bp \in DOMAIN approvals :
        approvals[ap].plan = approvals[bp].plan => ap = bp

\* A Run agrees with the plan and approval it names.
RunsBindApprovals ==
    \A r \in DOMAIN runs :
        /\ runs[r].plan \in DOMAIN plans
        /\ runs[r].approval \in DOMAIN approvals
        /\ approvals[runs[r].approval].plan = runs[r].plan
        /\ approvals[runs[r].approval].project = runs[r].project
        /\ approvals[runs[r].approval].approver = runs[r].requester
        /\ approvals[runs[r].approval].intent = runs[r].intent

\* An execution agrees with its Run and consumed that Run's approval.
ExecutionsBindRuns ==
    \A e \in DOMAIN executions :
        /\ executions[e].run \in DOMAIN runs
        /\ runs[executions[e].run].project = executions[e].project
        /\ runs[executions[e].run].intent = executions[e].intent
        /\ approvals[runs[executions[e].run].approval].consumedBy
              = executions[e].run

\* No Run has two executions.
OneExecutionPerRun ==
    \A e, f \in DOMAIN executions :
        executions[e].run = executions[f].run => e = f

\* A consumed approval names a Run of its own that owns an execution.
SpentApprovalsHaveExecutions ==
    \A ap \in DOMAIN approvals :
        approvals[ap].consumedBy # NoRun =>
            /\ approvals[ap].consumedBy \in DOMAIN runs
            /\ runs[approvals[ap].consumedBy].approval = ap
            /\ RunClaimed(approvals[ap].consumedBy)

\* The inductive invariant.
LedgerInv ==
    /\ TypeOK
    /\ PlansDerived
    /\ ApprovalsBindPlans
    /\ OneApprovalPerPlan
    /\ RunsBindApprovals
    /\ ExecutionsBindRuns
    /\ OneExecutionPerRun
    /\ SpentApprovalsHaveExecutions
    /\ StartedRunsOwnAnExecution

=============================================================================
