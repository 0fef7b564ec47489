-------------------------- MODULE MCArtifactLedger --------------------------
(***************************************************************************)
(* Instances of ArtifactLedger for TLC.  RunLedger's own run covers how a   *)
(* Run comes to be started, so these start where the artifact half begins   *)
(* to matter: every Project registered and its Runs already claimed, each   *)
(* under a plan and an approval of its own, as CreatePlan, GrantApproval,   *)
(* CreateRun and StartRun leave them.                                       *)
(*                                                                          *)
(* Three instances of the one module, of different sizes, are explored in   *)
(* one run: part, chosen at the start, says which.  They share the tables   *)
(* of the module extended here, whose properties the run checks.            *)
(***************************************************************************)
EXTENDS ArtifactLedger, TLC

CONSTANTS p1, p2, q1, s1, c1, i1, a1, a2, g1, g2, r1, r2, e1, e2,
          x1, x2, v1, v2, v3

VARIABLE part

\* The extended module's own constants cover every instance, and its
\* properties are stated over them.
SharedInput == [e \in {e1, e2} |-> c1]

ASSUME SharedAssumption == InputAssumption

\* One Project and one started Run: Version chains, lineage, outputs, blobs.
Chain == INSTANCE ArtifactLedger WITH
    Projects <- {p1}, Requesters <- {q1}, Sessions <- {}, Plans <- {a1},
    Approvals <- {g1}, Runs <- {r1}, Executions <- {e1}, Intents <- {i1},
    Times <- 0..1, Artifacts <- {x1, x2}, Versions <- {v1, v2, v3},
    Contents <- {c1}, InputDigest <- [e \in {e1} |-> c1], MaxOutputs <- 2

\* Two Projects sharing content, with one started Run each.
Scopes == INSTANCE ArtifactLedger WITH
    Projects <- {p1, p2}, Requesters <- {q1}, Sessions <- {},
    Plans <- {a1, a2}, Approvals <- {g1, g2}, Runs <- {r1, r2},
    Executions <- {e1, e2}, Intents <- {i1}, Times <- 0..1,
    Artifacts <- {x1, x2}, Versions <- {v1, v2}, Contents <- {c1},
    InputDigest <- SharedInput, MaxOutputs <- 1

\* Two Projects and a Session that commissioned one of the Runs or none.
Links == INSTANCE ArtifactLedger WITH
    Projects <- {p1, p2}, Requesters <- {q1}, Sessions <- {s1},
    Plans <- {a1, a2}, Approvals <- {g1, g2}, Runs <- {r1, r2},
    Executions <- {e1, e2}, Intents <- {i1}, Times <- 0..1,
    Artifacts <- {x1}, Versions <- {v1}, Contents <- {c1},
    InputDigest <- SharedInput, MaxOutputs <- 1

ApprovedPlan(p, pl) ==
    [project |-> p, requester |-> q1, intent |-> i1,
     digest |-> PlanDigest(p, q1, pl, i1)]

SpentApproval(p, pl, r) ==
    [project |-> p, plan |-> pl, approver |-> q1, intent |-> i1,
     digest |-> PlanDigest(p, q1, pl, i1), granted |-> 0, expires |-> 1,
     consumedAt |-> 0, consumedBy |-> r]

StartedRun(p, pl, ap, s) ==
    [project |-> p, plan |-> pl, approval |-> ap, requester |-> q1,
     session |-> s, state |-> "running", intent |-> i1]

NoArtifacts ==
    /\ artifacts = NoRows
    /\ versions = NoRows
    /\ inputs = NoRows
    /\ outputs = NoRows
    /\ links = NoRows
    /\ blobs = {}

\* One Project and one started Run, outside any Session.
ChainInit ==
    /\ projects = (p1 :> [named |-> TRUE, archived |-> FALSE])
    /\ sessions = NoRows
    /\ plans = (a1 :> ApprovedPlan(p1, a1))
    /\ approvals = (g1 :> SpentApproval(p1, a1, r1))
    /\ runs = (r1 :> StartedRun(p1, a1, g1, NoSession))
    /\ executions = (e1 :> [project |-> p1, run |-> r1, intent |-> i1])
    /\ NoArtifacts

\* Two Projects with a started Run each; the first Run names Session s.
TwoProjects(s) ==
    /\ projects = [p \in {p1, p2} |-> [named |-> TRUE, archived |-> FALSE]]
    /\ plans = (a1 :> ApprovedPlan(p1, a1)) @@ (a2 :> ApprovedPlan(p2, a2))
    /\ approvals = (g1 :> SpentApproval(p1, a1, r1))
                        @@ (g2 :> SpentApproval(p2, a2, r2))
    /\ runs = (r1 :> StartedRun(p1, a1, g1, s))
                    @@ (r2 :> StartedRun(p2, a2, g2, NoSession))
    /\ executions = (e1 :> [project |-> p1, run |-> r1, intent |-> i1])
                        @@ (e2 :> [project |-> p2, run |-> r2, intent |-> i1])
    /\ NoArtifacts

ScopesInit == TwoProjects(NoSession) /\ sessions = NoRows

LinksInit ==
    /\ \E s \in {s1, NoSession} : TwoProjects(s)
    /\ sessions = (s1 :> [project |-> p1, active |-> 0, archived |-> FALSE])

SuiteInit ==
    /\ part \in {"chain", "scopes", "links"}
    /\ \/ part = "chain" /\ ChainInit
       \/ part = "scopes" /\ ScopesInit
       \/ part = "links" /\ LinksInit

SuiteNext ==
    /\ \/ part = "chain" /\ Chain!ArtifactNext
       \/ part = "scopes" /\ Scopes!ArtifactNext
       \/ part = "links" /\ Links!ArtifactNext
    /\ UNCHANGED part

SuiteSpec == SuiteInit /\ [][SuiteNext]_<<part, allVars>>

Symmetry == Permutations({x1, x2}) \cup Permutations({v1, v2, v3})
=============================================================================
