----------------------------- MODULE ApiRoutes -----------------------------
(***************************************************************************)
(* The writing routes of the loopback API (api.py): Projects, Sessions,     *)
(* plans, approvals and the start of a Run, over the store of RunLedger.    *)
(*                                                                          *)
(* A route runs on a worker thread and takes the store's lock for one call  *)
(* at a time, so every read and every transaction of a request is a step of *)
(* its own and what a request has read may be stale at its next step.  The  *)
(* identities of new rows are minted by the server, so they are unused.     *)
(***************************************************************************)
EXTENDS RunLedger, FiniteSets

CONSTANTS Requests, Names,  \* Names: normalized_name_key of valid names
          Kinds,            \* the routes this instance exercises
          Given,            \* Projects registered at the start
          Requester,        \* the one local requester
          Ttl,              \* DEFAULT_APPROVAL_TTL
          MaxClock,         \* bound: the last moment of the clock
          Nothing           \* an argument the route does not have

\* What an instance exercises.  No identity is both a Project's and a Session's
\* or stands for nothing.
RoutesAssumption ==
    /\ Given \subseteq Projects /\ Requester \in Requesters
    /\ Projects \cap Sessions = {} /\ Nothing \notin Runs
    /\ MaxClock \in Nat /\ Ttl \in Nat \ {0} /\ 0..(MaxClock + Ttl) \subseteq Times

VARIABLES
    titles,   \* names of Projects and Sessions
    clock,
    calls     \* the requests

routeVars == <<ledgerVars, titles, clock, calls>>

\* Where each route goes once its Project was read and is live.
AfterProject(kind) ==
    CASE kind = "create_session" -> "names"
      [] kind \in {"create_plan", "start_run"} -> "session"
      [] kind = "create_approval" -> "planned"
      [] OTHER -> "write"

Idle ==
    [kind |-> "create_project", pc |-> "idle", project |-> Nothing, name |-> Nothing,
     target |-> Nothing, session |-> Nothing, run |-> Nothing, intent |-> Nothing,
     at |-> 0, seen |-> {}, unmarked |-> FALSE, answer |-> "none"]

RoutesInit ==
    /\ projects = [p \in Given |-> [named |-> TRUE, archived |-> FALSE]]
    /\ sessions = NoRows /\ plans = NoRows /\ approvals = NoRows
    /\ runs = NoRows /\ executions = NoRows
    /\ titles = [p \in Given |-> Nothing]
    /\ clock = 0
    /\ calls = [q \in Requests |-> Idle]

\* A state reached when one Session, plan and approval were created: where the races
\* for an approval begin.
SeededInit ==
    LET p == CHOOSE x \in Given : TRUE
        pl == CHOOSE x \in Plans : TRUE
        i == CHOOSE x \in Intents : TRUE
    IN  /\ projects = [x \in Given |-> [named |-> TRUE, archived |-> FALSE]]
        /\ sessions = [s \in {CHOOSE x \in Sessions : TRUE} |-> [project |-> p, active |-> 0, archived |-> FALSE]]
        /\ plans = [x \in {pl} |-> [project |-> p, requester |-> Requester, intent |-> i,
                                    digest |-> PlanDigest(p, Requester, pl, i)]]
        /\ approvals = [x \in {CHOOSE x \in Approvals : TRUE} |->
                [project |-> p, plan |-> pl, approver |-> Requester, intent |-> i,
                 digest |-> PlanDigest(p, Requester, pl, i), granted |-> 0, expires |-> Ttl,
                 consumedAt |-> NoTime, consumedBy |-> NoRun]]
        /\ runs = NoRows /\ executions = NoRows
        /\ titles = [x \in Given \cup DOMAIN sessions |-> Nothing]
        /\ clock = 0
        /\ calls = [q \in Requests |-> Idle]

(***************************************************************************)
(* Arrival and reading.                                                     *)
(***************************************************************************)

Keep == UNCHANGED <<ledgerVars, titles, clock>>

Goto(q, pc) == calls' = [calls EXCEPT ![q].pc = pc]

Answer(q, answer) == calls' = [calls EXCEPT ![q].pc = "answered", ![q].answer = answer]

\* What carries the name now: Projects whether archived or not, Sessions of the
\* Project that are not archived.
Siblings(c) ==
    IF c.kind = "create_project" THEN DOMAIN projects
    ELSE {s \in DOMAIN sessions : SessionLive(c.project, s)}

\* The row a request of each kind names, and the Session it runs under.
Targets(kind) ==
    CASE kind \in {"resume_session", "archive_session"} -> DOMAIN sessions
      [] kind = "create_approval" -> DOMAIN plans
      [] kind = "start_run" -> DOMAIN approvals
      [] OTHER -> {Nothing}

Commissioners(kind) ==
    IF kind \in {"create_plan", "start_run"} THEN DOMAIN sessions ELSE {Nothing}

\* The call of a request that arrives now.  Its answer may rest on what exists now.
Arrived(kind, p, name, i, target, s) ==
    LET c == [Idle EXCEPT !.kind = kind, !.project = p, !.name = name, !.intent = i,
                          !.target = target, !.session = s]
    IN  [c EXCEPT !.seen = Siblings(c),
                  !.pc = CASE kind = "create_project" -> "names"
                           [] kind = "archive_project" -> "write"
                           [] OTHER -> "project"]

\* A request arrives with a valid body.
Arrive(q) ==
    /\ calls[q].pc = "idle"
    /\ \E kind \in Kinds, p \in Projects, name \in Names, i \in Intents :
       \E target \in Targets(kind), s \in Commissioners(kind) :
          /\ kind = "create_project" => p \notin DOMAIN projects
          /\ calls' = [calls EXCEPT ![q] = Arrived(kind, p, name, i, target, s)]
    /\ Keep

\* _live_project.
LiveProject(q) ==
    LET c == calls[q] IN
    /\ c.pc = "project"
    /\ IF ~ProjectRegistered(c.project) THEN Answer(q, "not_found")
       ELSE IF Archived(c.project) THEN Answer(q, "project_archived")
       ELSE Goto(q, AfterProject(c.kind))
    /\ Keep

\* _live_session: the store hides the Sessions of an archived Project.
LiveSession(q) ==
    LET c == calls[q] IN
    /\ c.pc = "session"
    /\ IF Archived(c.project) \/ sessions[c.session].project # c.project
       THEN Answer(q, "not_found")
       ELSE IF sessions[c.session].archived THEN Answer(q, "session_archived")
       ELSE Goto(q, IF c.kind = "create_plan" THEN "write" ELSE "approval")
    /\ Keep

\* Mutant of RejectCollision: the names are not compared.
CollideNever(q) == calls[q].pc = "names" /\ Goto(q, "write") /\ Keep

\* _reject_collision over the names that exist now.
RejectCollision(q) ==
    LET c == calls[q] IN
    /\ c.pc = "names"
    /\ IF \E x \in Siblings(c) : titles[x] = c.name THEN Answer(q, "name_in_use")
       ELSE Goto(q, "write")
    /\ Keep

\* create_approval looks the plan up first.
FindPlan(q) ==
    LET c == calls[q] IN
    /\ c.pc = "planned"
    /\ IF PlanFound(c.project, c.target) THEN Goto(q, "write") ELSE Answer(q, "plan_not_found")
    /\ Keep

\* The clock is read before the transaction that writes its value.
ReadClock(q) ==
    LET c == calls[q] IN
    /\ c.pc \in {"write", "claim"} /\ c.at = 0
    /\ c.kind \in {"create_session", "resume_session", "create_approval", "start_run"}
    /\ calls' = [calls EXCEPT ![q].at = clock + 1]
    /\ Keep

Now(c) == c.at - 1

(***************************************************************************)
(* The transactions.                                                        *)
(***************************************************************************)

CreateRow(q) ==
    LET c == calls[q] IN
    /\ c.pc = "write"
    /\ \/ /\ c.kind = "create_project"
          /\ CreateProject(c.project) /\ titles' = Insert(titles, c.project, c.name)
       \/ /\ c.kind = "create_session" /\ c.at > 0
          /\ \E s \in Sessions : CreateSession(c.project, s, Now(c)) /\ titles' = Insert(titles, s, c.name)
       \/ /\ c.kind = "create_plan" /\ UNCHANGED titles
          /\ \E pl \in Plans : CreatePlan(c.project, Requester, pl, c.intent)
       \/ /\ c.kind = "create_approval" /\ c.at > 0 /\ UNCHANGED titles
          /\ \E ap \in Approvals :
                GrantApproval(c.project, Requester, ap, c.target, plans[c.target].intent, Now(c), Now(c) + Ttl)
    /\ Answer(q, "created")
    /\ UNCHANGED clock

\* What the transactions refuse.
Refusal(c) ==
    CASE c.kind = "archive_project" /\ ~ProjectRegistered(c.project) -> "not_found"
      [] Archived(c.project) -> "project_archived"
      [] c.kind \in {"resume_session", "archive_session"} /\ sessions[c.target].project # c.project -> "not_found"
      [] c.kind \in {"resume_session", "archive_session"} /\ sessions[c.target].archived -> "session_archived"
      [] c.kind = "create_approval" /\ PlanApproved(c.target) -> "approval_exists"
      [] OTHER -> "none"

RefuseWrite(q) ==
    LET c == calls[q] IN
    /\ c.pc = "write" /\ c.kind # "start_run"
    /\ Refusal(c) # "none"
    /\ Answer(q, Refusal(c))
    /\ Keep

ArchiveRow(q) ==
    LET c == calls[q] IN
    /\ c.pc = "write"
    /\ \/ c.kind = "archive_project" /\ ArchiveRegisteredProject(c.project)
       \/ c.kind = "archive_session" /\ ArchiveSession(c.project, c.target)
    /\ Answer(q, "no_content")
    /\ UNCHANGED <<titles, clock>>

\* Resuming writes the time and then reads the Session back.
Resume(q) ==
    LET c == calls[q] IN
    /\ c.kind = "resume_session" /\ c.pc = "write" /\ c.at > 0
    /\ ResumeSession(c.project, c.target, Now(c))
    /\ Goto(q, "readback")
    /\ UNCHANGED <<titles, clock>>

ReadBack(q) ==
    /\ calls[q].pc = "readback"
    /\ Answer(q, IF Archived(calls[q].project) THEN "not_found" ELSE "ok")
    /\ Keep

(***************************************************************************)
(* Starting a Run: _start_run and run_analysis up to the claim.             *)
(***************************************************************************)

\* _require_unspent_approval: the approval, the clock and the plan.
RequireUnspent(q) ==
    LET c == calls[q]
        ap == approvals[c.target]
    IN
    /\ c.pc = "approval"
    /\ IF ap.project # c.project THEN Answer(q, "approval_not_found")
       ELSE IF ap.intent # c.intent THEN Answer(q, "approval_digest_mismatch")
       ELSE IF ap.consumedAt # NoTime \/ ap.consumedBy # NoRun THEN Answer(q, "approval_consumed")
       ELSE IF clock >= ap.expires THEN Answer(q, "approval_expired")
       ELSE Goto(q, "queue")
    /\ Keep

\* analyze_probe comes first and may refuse the input; then the Run is queued.
QueueRun(q) ==
    LET c == calls[q] IN
    /\ c.pc = "queue"
    /\ \/ Answer(q, "invalid_request") /\ UNCHANGED ledgerVars
       \/ /\ Archived(c.project) \/ ~SessionLive(c.project, c.session)
          /\ Answer(q, IF Archived(c.project) THEN "project_archived" ELSE "not_found")
          /\ UNCHANGED ledgerVars
       \/ \E r \in Runs :
             /\ CreateRun(c.project, Requester, r, approvals[c.target].plan, c.target, c.session, c.intent)
             /\ calls' = [calls EXCEPT ![q].pc = "claim", ![q].run = r]
    /\ UNCHANGED <<titles, clock>>

Claimable(c) == \E e \in Executions : ClaimAccepted(c.project, Requester, c.run, e, c.intent, Now(c))

Claim(q) ==
    LET c == calls[q] IN
    /\ c.pc = "claim" /\ c.at > 0
    /\ \E e \in Executions : StartRun(c.project, Requester, c.run, e, c.intent, Now(c))
    /\ Goto(q, "publish")
    /\ UNCHANGED <<titles, clock>>

RefuseClaim(q) ==
    LET c == calls[q] IN
    /\ c.pc = "claim" /\ c.at > 0
    /\ ~Claimable(c)
    /\ calls' = [calls EXCEPT ![q].pc = "abandon",
                     ![q].answer = IF Archived(c.project) THEN "project_archived"
                                   ELSE IF Replayed(c.run) THEN "approval_consumed" ELSE "approval_expired"]
    /\ Keep

\* The queued Run is failed; an error of the store is suppressed.
AbandonRun(q) ==
    LET c == calls[q] IN
    /\ c.pc = "abandon"
    /\ \/ FinishRun(c.project, c.run, "failed") /\ Answer(q, c.answer)
       \/ /\ calls' = [calls EXCEPT ![q].pc = "answered", ![q].unmarked = TRUE]
          /\ UNCHANGED ledgerVars
    /\ UNCHANGED <<titles, clock>>

\* The chain of WorkbenchChain, in one step: it completes or fails the Run.
Publish(q) ==
    LET c == calls[q] IN
    /\ c.pc = "publish"
    /\ \/ FinishRun(c.project, c.run, "completed") /\ Answer(q, "created")
       \/ FinishRun(c.project, c.run, "failed") /\ Answer(q, "failed")
    /\ UNCHANGED <<titles, clock>>

Tick == clock < MaxClock /\ clock' = clock + 1 /\ UNCHANGED <<ledgerVars, titles, calls>>

Step(q) ==
    \/ LiveProject(q) \/ LiveSession(q) \/ RejectCollision(q) \/ FindPlan(q) \/ ReadClock(q)
    \/ CreateRow(q) \/ RefuseWrite(q) \/ ArchiveRow(q) \/ Resume(q) \/ ReadBack(q)
    \/ RequireUnspent(q) \/ QueueRun(q) \/ Claim(q) \/ RefuseClaim(q) \/ AbandonRun(q) \/ Publish(q)

RoutesNext == Tick \/ \E q \in Requests : Arrive(q) \/ Step(q)

RoutesSpec == RoutesInit /\ [][RoutesNext]_routeVars

(***************************************************************************)
(* Properties.                                                              *)
(***************************************************************************)

Starts == {q \in Requests : calls[q].kind = "start_run" /\ calls[q].pc = "answered"}

\* A name is shared only by creations that overlapped: what already existed when a
\* request arrived, and is not an archived Session by now, has another name.
NoLateDuplicates ==
    \A q \in Requests :
        calls[q].kind \in {"create_project", "create_session"} /\ calls[q].answer = "created" =>
            \A x \in calls[q].seen : titles[x] = calls[q].name => x \in DOMAIN sessions /\ sessions[x].archived

\* However many requests present one approval at once, at most one executes.
OneRunPerApproval ==
    \A q1, q2 \in Starts :
        calls[q1].target = calls[q2].target /\ {calls[q1].answer, calls[q2].answer} \subseteq {"created", "failed"}
            => q1 = q2

\* A refused start claims no execution, and the Run it may have queued is marked
\* failed unless the store could not do so.
RefusedRunsAreMarked ==
    \A q \in Starts :
        calls[q].answer \notin {"created", "failed"} /\ calls[q].run # Nothing =>
            /\ ~RunClaimed(calls[q].run)
            /\ runs[calls[q].run].state = "failed" \/ calls[q].unmarked

\* Requests that race for a name or an approval are answered by what happened.
RoutesAreSound == NoLateDuplicates /\ OneRunPerApproval /\ RefusedRunsAreMarked

\* Every request is answered.
RequestsAnswered == \A q \in Requests : calls[q].pc # "idle" ~> calls[q].pc = "answered"

=============================================================================
