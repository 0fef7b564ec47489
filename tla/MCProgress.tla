----------------------------- MODULE MCProgress -----------------------------
(***************************************************************************)
(* Instances for TLC of what must come to an end: analysis chains, Reviews, *)
(* turns with a provider, writing routes and CI invocations.  part, chosen  *)
(* at the start, says which of them a behaviour explores; the others stay   *)
(* in their initial state.                                                  *)
(***************************************************************************)
EXTENDS Naturals, TLC

CONSTANTS first, rival, twin, q1, q2, g1, g2, g3, e1, e2, v1, c1, c2, s1, r1, r2, m1, m2,
          p1, a1, i1,
          NoCall, NoFile, NoReview, NoRequest, None, Legacy,
          Nothing, NoSession, NoRun, NoTime,
          Callers,     \* requests for a Review
          MaxFaults,   \* bound: store errors and crashes while reviewing
          Parts

VARIABLES part,
          pc, committed, run, outputs, number, head, spent, taken, mirror, cancelled,
          faults, crashes,
          claimed, published, archived, reviews, findings, calls, failures,
          rows, closed, enabled, keyed, settings, locks, turns,
          projects, sessions, plans, approvals, runs, executions, titles, clock, requests,
          tree, ctx, current, anchors, attested, lock, latest, gens, pointer, sealed, at,
          source, under, done, outcome, rpc, rrun, rsource

chainVars == <<pc, committed, run, outputs, number, head, spent, taken, mirror, cancelled,
               faults, crashes>>
reviewVars == <<claimed, published, archived, reviews, findings, calls, failures>>
turnVars == <<rows, closed, enabled, keyed, settings, locks, turns>>
routeVars == <<projects, sessions, plans, approvals, runs, executions, titles, clock, requests>>
ciVars == <<tree, ctx, current, anchors, attested, lock, latest, gens, pointer, sealed, at,
            source, under, done, outcome, rpc, rrun, rsource>>

\* Two analyses that present one approval and two that share one execution;
\* no step fails, but Runs are cancelled and the Project is archived.
Chain == INSTANCE WorkbenchChain WITH
    Calls <- {first, rival, twin}, Approvals <- {g1, g2}, Executions <- {e1, e2},
    ApprovalOf <- (first :> g1) @@ (rival :> g1) @@ (twin :> g2),
    ExecutionOf <- (first :> e1) @@ (rival :> e2) @@ (twin :> e1),
    TargetOf <- [c \in {first, rival, twin} |-> NoCall],
    Lineage <- [c \in {first, rival, twin} |-> c],
    Cancellable <- {first, rival, twin},
    ChainLength <- 2, MaxFaults <- 0, MaxCrashes <- 0,
    rows <- outputs, claimed <- taken, archived <- cancelled

\* One Run with one output.
Lifecycle == INSTANCE ReviewLifecycle WITH
    Versions <- {v1}, Reviews <- {g1, g2, g3}, faults <- failures

\* Two requests for one stripe.
Turns == INSTANCE TurnRoute WITH
    Requests <- {q1, q2}, Runs <- {r1}, Selections <- {m1, m2},
    Servers <- {s1}, Stripes <- {e1},
    ProcessOf <- [q \in {q1, q2} |-> s1], ServersOf <- [r \in {r1} |-> {s1}],
    StripeOf <- [r \in {r1} |-> e1],
    MaxFrames <- 1, TotalTimeout <- 0, MaxTicks <- 0, MaxTurns <- 2, MaxSettings <- 0,
    archived <- closed, calls <- turns

\* Two requests that create, approve, start, resume and archive.
Routes == INSTANCE ApiRoutes WITH
    Requests <- {q1, q2}, Names <- {m1},
    Kinds <- {"create_session", "create_approval", "start_run", "archive_project",
              "resume_session"},
    Given <- {p1}, Requester <- m2, Ttl <- 1, MaxClock <- 1, Times <- 0..2,
    Projects <- {p1}, Requesters <- {m2}, Sessions <- {first, rival, twin},
    Plans <- {a1}, Approvals <- {g1, g2, g3}, Runs <- {r1, r2},
    Executions <- {e1, e2}, Intents <- {i1}, calls <- requests

\* Two invocations over one checkout, killed and failing anywhere.
Ci == INSTANCE CiPublication WITH
    Invocations <- {q1, q2}, Readers <- {}, Contexts <- {m1}, NJobs <- 1,
    MaxEdits <- 0, Nobody <- None, pc <- at, manifests <- anchors, executed <- done

ASSUME /\ Chain!ChainAssumption /\ Lifecycle!ReviewAssumption /\ Turns!TurnAssumption
       /\ Routes!RoutesAssumption /\ Ci!CiAssumption

\* Nothing enabled, and no invocation started.
NoTurns == Turns!Init /\ enabled = {} /\ keyed = {}
NoInvocation == Ci!CiInit /\ latest = None /\ ctx = [i \in {q1, q2} |-> m1]

Init ==
    /\ part \in Parts
    /\ Chain!Init
    /\ Lifecycle!Init
    /\ IF part = "turns" THEN Turns!Init ELSE NoTurns
    /\ Routes!SeededInit
    /\ IF part = "ci" THEN Ci!CiInit ELSE NoInvocation

Next ==
    /\ \/ /\ part = "chain" /\ Chain!Next
          /\ UNCHANGED <<reviewVars, turnVars, routeVars, ciVars>>
       \/ /\ part = "reviews" /\ Lifecycle!Next
          /\ UNCHANGED <<chainVars, turnVars, routeVars, ciVars>>
       \/ /\ part = "turns" /\ Turns!Next
          /\ UNCHANGED <<chainVars, reviewVars, routeVars, ciVars>>
       \/ /\ part = "routes" /\ Routes!RoutesNext
          /\ UNCHANGED <<chainVars, reviewVars, turnVars, ciVars>>
       \/ /\ part = "ci" /\ Ci!CiNext
          /\ UNCHANGED <<chainVars, reviewVars, turnVars, routeVars>>
    /\ UNCHANGED part

Spec == Init /\ [][Next]_<<part, chainVars, reviewVars, turnVars, routeVars, ciVars>>

\* What has begun takes its next step in the end: a call of the workbench, a
\* handler of the API, an invocation of the CI runner.  A lock is handed to those
\* who wait for it.  Nobody has to call, cancel, archive, fail or crash.
Fairness ==
    /\ \A c \in {first, rival, twin} : WF_chainVars(part = "chain" /\ Chain!Step(c))
    /\ \A c \in Callers : WF_reviewVars(part = "reviews" /\ Lifecycle!Begun(c))
    /\ \A q \in {q1, q2} :
           /\ WF_turnVars(part = "turns" /\ Turns!CallStep(q))
           /\ SF_turnVars(part = "turns" /\ Turns!AcquireStripe(q))
           /\ WF_routeVars(part = "routes" /\ Routes!Step(q))
           /\ WF_ciVars(part = "ci" /\ Ci!InvocationStep(q))

FairSpec == Spec /\ Fairness

\* Every queued Run is marked terminal, whoever cancels it or archives its Project.
EveryRunIsMarked == Chain!EveryRunIsMarked

\* A Review of the whole evidence of a Run closes unless the store failed.
ReviewsOfWholeRunsClose == Lifecycle!ReviewsOfWholeRunsClose

\* Every turn, every request of the writing routes and every invocation of the CI
\* runner that begins ends, and no stripe or publication lock is kept for ever.
WhatBeginsEnds ==
    Turns!EveryTurnIsAnswered /\ Routes!RequestsAnswered /\ Ci!EveryInvocationEnds

\* reviewrun.py: a Review that cannot be completed "never sits `running` forever."
NoReviewSitsRunning == Lifecycle!NoReviewSitsRunning
=============================================================================
