---------------------------- MODULE MCGovernance ----------------------------
(***************************************************************************)
(* Instances for TLC of the contracts and tools that decide what may be     *)
(* executed, kept, shown and published: execution leases, approvals,        *)
(* restores, retention, emergency access and CI evidence.  part, chosen at  *)
(* the start, says which of them a behaviour explores; the others stay in   *)
(* their initial state.                                                     *)
(***************************************************************************)
EXTENDS AttemptLease, ApprovalTokens, BreakGlass, RestoreGovernance, CiPublication, TLC

CONSTANTS w1, w2, x1, x2, x3, p1, p2, k1, k2, c1, c2, s1, s2, Parts

VARIABLE part

recordVars == <<records, gone, expired, reserved, holds, runs>>
accessVars == <<epoch, grants, audit>>

\* Two workers of one name, as after a restart.
SameName == [w \in Workers |-> "runner"]

\* One record of each retention period in a scope of its own.
MCScopeOf == (p1 :> s1) @@ (p2 :> s2)
MCDaysOf == (p1 :> 0) @@ (p2 :> 1)

ASSUME TokenAssumption /\ RetentionAssumption /\ BreakGlassAssumption /\ CiAssumption

\* No approval asked for, and no invocation started.
NoApprovals == TokenInit /\ key = k1 /\ grant = [p \in Plans |-> "deny"]
NoInvocation == CiInit /\ latest = Nobody /\ ctx = [i \in {w1, w2, p1} |-> c1]

GovernanceInit ==
    /\ part \in Parts
    /\ Init
    /\ CASE part = "approvals" -> TokenInit /\ grant[p2] = "deny"
         [] part = "plans" -> TokenInit /\ key = k1
         [] OTHER -> NoApprovals
    /\ RestoreInit
    /\ RetInit
    /\ GlassInit
    /\ IF part = "ci" THEN CiInit ELSE NoInvocation

\* Two plans, of which the one worker may present one for the other.
PlansBound ==
    /\ key' = key
    /\ \E w \in Executors : seen'[w].id = "none" /\ task'[w] = NoTask
    /\ \A p \in Plans : exec'[p].token <= 1

\* One grant, two people, two epochs: request, approve, use and one event more.
AccessBound ==
    /\ last' <= 1
    /\ \A g \in Grants : grants'[g] # Absent => grants'[g].expires <= 1

GovernanceNext ==
    /\ \/ /\ part = "leases" /\ Next
          /\ UNCHANGED <<tokenVars, govVars, last, recordVars, accessVars, ciVars>>
       \/ /\ \/ part = "approvals" /\ TokenNext
             \/ part = "plans" /\ TokenNext /\ PlansBound
          /\ UNCHANGED <<leaseVars, govVars, last, recordVars, accessVars, ciVars>>
       \/ /\ part = "restores" /\ RestoreNext
          /\ UNCHANGED <<leaseVars, tokenVars, last, recordVars, accessVars, ciVars>>
       \/ /\ part = "retention" /\ RetNext
          /\ UNCHANGED <<leaseVars, tokenVars, govVars, accessVars, ciVars>>
       \/ /\ part = "access" /\ GlassNext /\ AccessBound
          /\ UNCHANGED <<leaseVars, tokenVars, govVars, recordVars, ciVars>>
       \/ /\ part = "ci" /\ CiNext
          /\ UNCHANGED <<leaseVars, tokenVars, govVars, last, recordVars, accessVars>>
    /\ UNCHANGED part

GovernanceSpec ==
    /\ GovernanceInit
    /\ [][GovernanceNext]_<<part, leaseVars, tokenVars, govVars, last, recordVars,
                            accessVars, ciVars>>

Symmetry == Permutations({w1, w2}) \cup Permutations({x2, x3}) \cup Permutations({c1, c2})
=============================================================================
