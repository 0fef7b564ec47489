---------------------------- MODULE ApprovalTokens ----------------------------
(* The protocol contracts for approvals and executions                       *)
(* (packages/contracts/.../protocols/approval.py, approval_store.py,         *)
(* execution_state.py): a plan is evaluated against a tool grant, an         *)
(* approval of it is decided by people and consumed once by a worker, and    *)
(* the execution it allows is leased, kept alive and completed.              *)
(*                                                                           *)
(* The functions are pure; whoever calls them saves what they return under a *)
(* compare-and-set on the revision (external).  A worker acts on what it     *)
(* read earlier.  A plan stands for every field its digests cover; a plan    *)
(* presented with other arguments is "altered".                              *)
EXTENDS Integers

CONSTANTS Approvals, Plans, Executors,
          SigningKeys,          \* signing keys, one current at a time
          Requester,     \* who asked for the plan; others of the organisation:
          Others,        \* members of the organisation and of no organisation
          Owner, Stranger,
          LeaseTime,     \* LEASE_SECONDS
          MaxNow,        \* bound on the clock
          MaxAttemptToken  \* bound on the attempts of an execution

(* What the constants may be.                                                *)
TokenAssumption ==
  /\ {LeaseTime, MaxAttemptToken} \subseteq Nat \ {0} /\ MaxNow \in Nat
  /\ Owner \in Others /\ Stranger \in Others /\ Requester \notin Others

VARIABLES now, key,
          grant,     \* the tool grant's effect for each plan
          approvals, \* approval records
          consumedDigests, consumedBindings,  \* of the consumption store
          exec,      \* the execution of each plan
          lease,     \* its lease
          seen,      \* what each worker read: an approval and its revision
          task,      \* the plan and attempt token a worker works on
          at         \* ghost: when each approval was consumed

tokenVars == <<now, key, grant, approvals, consumedDigests, consumedBindings, exec,
          lease, seen, task, at>>

Users == Others \cup {Requester}
NoRecord == [status |-> "none"]
NoExec == [status |-> "none", token |-> 0, result |-> 0]
NoTask == [plan |-> "none", token |-> 0]
Digest(binding, k) == <<binding, k>>

TokenInit ==
  /\ now = 0 /\ key \in SigningKeys
  /\ grant \in [Plans -> {"allow", "ask", "deny"}]
  /\ approvals = [a \in Approvals |-> NoRecord]
  /\ consumedDigests = {} /\ consumedBindings = {}
  /\ exec = [p \in Plans |-> NoExec]
  /\ lease = [p \in Plans |-> [token |-> 0, expires |-> 0]]
  /\ seen = [w \in Executors |-> [id |-> "none", revision |-> 0]]
  /\ task = [w \in Executors |-> NoTask]
  /\ at = [a \in Approvals |-> MaxNow + 1]

Pass ==
  /\ now < MaxNow /\ now' = now + 1
  /\ UNCHANGED <<key, grant, approvals, consumedDigests, consumedBindings, exec,
                 lease, seen, task, at>>

RotateKey(k) ==
  /\ key' = k /\ k # key
  /\ UNCHANGED <<now, grant, approvals, consumedDigests, consumedBindings, exec,
                 lease, seen, task, at>>

QueuedExecution == [status |-> "queued", token |-> 1, result |-> 0]

(* The grant's effect, once the plan proves to be the one that was digested. *)
EvaluateToolGrant(p, altered) == IF altered THEN "mutated" ELSE grant[p]

(* allow executes at once, ask makes an approval of the plan that expires.   *)
Evaluate(p, altered) ==
  /\ exec[p].status = "none"
  /\ \/ /\ EvaluateToolGrant(p, altered) = "allow"
        /\ exec' = [exec EXCEPT ![p] = QueuedExecution]
        /\ UNCHANGED approvals
     \/ /\ EvaluateToolGrant(p, altered) = "ask"
        /\ \E a \in Approvals, t \in 1 .. MaxNow :
             /\ approvals[a] = NoRecord
             /\ approvals' = [approvals EXCEPT ![a] =
                  [status |-> "pending", revision |-> 1, by |-> "nobody",
                   binding |-> <<p, t>>, digest |-> Digest(<<p, t>>, key)]]
        /\ UNCHANGED exec
  /\ UNCHANGED <<now, key, grant, consumedDigests, consumedBindings, lease, seen,
                 task, at>>

ApprovalTransitions(s) ==
  CASE s = "pending" -> {"approved", "rejected", "expired"}
    [] s = "approved" -> {"consumed", "expired"}
    [] OTHER -> {}

Expires(r) == r.binding[2]

(* Only the requester approves; an owner may reject; both belong to the      *)
(* organisation.                                                             *)
MayDecide(u, d) == u = Requester \/ (u = Owner /\ d = "rejected")

DecideApproval(a, u, d) ==
  /\ approvals[a] # NoRecord
  /\ d \in ApprovalTransitions(approvals[a].status)
  /\ now < Expires(approvals[a])
  /\ MayDecide(u, d)
  /\ approvals' = [approvals EXCEPT ![a].status = d, ![a].by = u, ![a].revision = @ + 1]
  /\ UNCHANGED <<now, key, grant, consumedDigests, consumedBindings, exec, lease,
                 seen, task, at>>

ReadApproval(w, a) ==
  /\ approvals[a] # NoRecord
  /\ seen' = [seen EXCEPT ![w] = [id |-> a, revision |-> approvals[a].revision]]
  /\ UNCHANGED <<now, key, grant, approvals, consumedDigests, consumedBindings,
                 exec, lease, task, at>>

(* validated_approval_consumption: revision, status, expiry, the presented   *)
(* plan against its own digests and against the binding, the signature.      *)
Consumable(r, revision, p, altered) ==
  /\ r.revision = revision /\ r.status = "approved"
  /\ now < Expires(r)
  /\ ~altered /\ r.binding[1] = p
  /\ r.digest = Digest(r.binding, key)

NeverSeen(r) == r.status = "approved"

NotYetConsumed(r) ==
  r.digest \notin consumedDigests /\ r.binding \notin consumedBindings

(* compare_and_consume, under the store's lock; then the plan is queued.     *)
CompareAndConsume(w, p, altered) ==
  LET a == seen[w].id IN
  /\ a \in Approvals
  /\ Consumable(approvals[a], seen[w].revision, p, altered)
  /\ NotYetConsumed(approvals[a])
  /\ approvals' = [approvals EXCEPT ![a].status = "consumed", ![a].revision = @ + 1]
  /\ consumedDigests' = consumedDigests \cup {approvals[a].digest}
  /\ consumedBindings' = consumedBindings \cup {approvals[a].binding}
  /\ at' = [at EXCEPT ![a] = now]
  /\ exec' = [exec EXCEPT ![p] = IF @.status = "none" THEN QueuedExecution ELSE @]
  /\ UNCHANGED <<now, key, grant, lease, seen, task>>

ExecutionTransitions(s) ==
  CASE s = "queued" -> {"running", "failed", "cancelled"}
    [] s = "running" -> {"completed", "failed", "cancelled"}
    [] OTHER -> {}

NewLease(token) == [token |-> token, expires |-> now + LeaseTime]

(* A worker starts a queued execution and leases it.                         *)
StartAndLease(w, p) ==
  /\ "running" \in ExecutionTransitions(exec[p].status)
  /\ exec' = [exec EXCEPT ![p].status = "running"]
  /\ lease' = [lease EXCEPT ![p] = NewLease(exec[p].token)]
  /\ task' = [task EXCEPT ![w] = [plan |-> p, token |-> exec[p].token]]
  /\ UNCHANGED <<now, key, grant, approvals, consumedDigests, consumedBindings,
                 seen, at>>

(* External: an execution whose lease ran out is given to another worker     *)
(* under the next attempt token.                                             *)
Redispatch(w, p) ==
  /\ exec[p].status = "running" /\ now >= lease[p].expires
  /\ exec[p].token < MaxAttemptToken
  /\ exec' = [exec EXCEPT ![p].token = @ + 1]
  /\ lease' = [lease EXCEPT ![p] = NewLease(exec[p].token + 1)]
  /\ task' = [task EXCEPT ![w] = [plan |-> p, token |-> exec[p].token + 1]]
  /\ UNCHANGED <<now, key, grant, approvals, consumedDigests, consumedBindings,
                 seen, at>>

Leased(w, p) ==
  /\ task[w].plan = p
  /\ task[w].token = lease[p].token
  /\ now < lease[p].expires

HeartbeatExecution(w, p) ==
  /\ Leased(w, p)
  /\ lease' = [lease EXCEPT ![p] = NewLease(task[w].token)]
  /\ UNCHANGED <<now, key, grant, approvals, consumedDigests, consumedBindings,
                 exec, seen, task, at>>

(* Completion needs the lease and the execution's own token.                 *)
CompleteExecution(w, p, target) ==
  /\ Leased(w, p) /\ task[w].token = exec[p].token
  /\ target \in ExecutionTransitions(exec[p].status)
  /\ exec' = [exec EXCEPT ![p].status = target,
                          ![p].result = IF target = "completed" THEN task[w].token
                                        ELSE @]
  /\ UNCHANGED <<now, key, grant, approvals, consumedDigests, consumedBindings,
                 lease, seen, task, at>>

TransitionExecution(p, target) ==
  /\ target \in ExecutionTransitions(exec[p].status)
  /\ exec' = [exec EXCEPT ![p].status = target]
  /\ UNCHANGED <<now, key, grant, approvals, consumedDigests, consumedBindings,
                 lease, seen, task, at>>

TokenNext ==
  \/ Pass
  \/ \E k \in SigningKeys : RotateKey(k)
  \/ \E p \in Plans, altered \in BOOLEAN : Evaluate(p, altered)
  \/ \E a \in Approvals, u \in Users, d \in {"approved", "rejected"} :
       DecideApproval(a, u, d)
  \/ \E w \in Executors, a \in Approvals : ReadApproval(w, a)
  \/ \E w \in Executors, p \in Plans, altered \in BOOLEAN :
       CompareAndConsume(w, p, altered)
  \/ \E w \in Executors, p \in Plans :
       \/ StartAndLease(w, p) \/ Redispatch(w, p) \/ HeartbeatExecution(w, p)
       \/ \E target \in {"completed", "failed"} : CompleteExecution(w, p, target)
  \/ \E p \in Plans : TransitionExecution(p, "cancelled")

TokenSpec == TokenInit /\ [][TokenNext]_tokenVars

-----------------------------------------------------------------------------
Consumed(a) == approvals[a] # NoRecord /\ approvals[a].status = "consumed"

(* Two approvals of one binding, or one approval presented by two workers,   *)
(* are worth one consumption.                                                *)
OneConsumptionPerBinding ==
  \A a, b \in Approvals :
    a # b /\ Consumed(a) /\ Consumed(b) => approvals[a].binding # approvals[b].binding

(* What is executed was allowed by its grant, or approved by the person who  *)
(* asked for it and consumed, unaltered, before the approval expired.        *)
ExecutionsWereGranted ==
  \A p \in Plans : exec[p].status # "none" =>
    \/ grant[p] = "allow"
    \/ /\ grant[p] = "ask"
       /\ \E a \in Approvals :
            /\ Consumed(a) /\ approvals[a].binding[1] = p
            /\ approvals[a].by = Requester /\ at[a] < Expires(approvals[a])

(* The records, the clock and the tokens keep to their types.                *)
ApprovalTypeOK ==
  /\ now \in 0 .. MaxNow /\ key \in SigningKeys
  /\ \A a \in Approvals : approvals[a] # NoRecord =>
       approvals[a].revision \in 1 .. 3 /\ approvals[a].by \in Users \cup {"nobody"}
  /\ \A p \in Plans : exec[p].token \in 0 .. MaxAttemptToken

(* A worker that lost its lease, or was replaced while it still worked,      *)
(* never ends the execution: it ends within the lease, under the token of    *)
(* the attempt it was last given to, and then stays as it is.                *)
OnlyTheLastEnds ==
  \A p \in Plans :
    /\ exec[p].status \in {"completed", "failed", "cancelled"} => exec'[p] = exec[p]
    /\ exec'[p].status = "completed" /\ exec[p].status # "completed" =>
         exec'[p].result = exec[p].token /\ now < lease[p].expires

(* A consent is worth one execution, and an execution rests on a consent and *)
(* ends by the attempt it was last given to.                                 *)
ConsentsAreSpentOnce ==
  /\ [](ApprovalTypeOK /\ OneConsumptionPerBinding /\ ExecutionsWereGranted)
  /\ [][OnlyTheLastEnds]_tokenVars
=============================================================================
