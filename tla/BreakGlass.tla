----------------------------- MODULE BreakGlass -----------------------------
(***************************************************************************)
(* Emergency-access grants of the RetentionStore                            *)
(* (tools/platform_policy/retention.py) and the audit log they leave.       *)
(*                                                                          *)
(* Operations run under the store's lock.  Each brings a clock, an event    *)
(* id, and the restore epoch its caller believes in; the epoch in force is  *)
(* kept by an external authority and moves when the store is restored.      *)
(***************************************************************************)
EXTENDS RetentionStore

CONSTANTS Grants, People, Resources,
          MaxIds,              \* bound: event ids used
          MaxEpoch             \* bound of epochs

Epochs == 1..MaxEpoch

Grant == [requester : People, approver : People \cup {Absent}, revoked : BOOLEAN,
          ended : BOOLEAN, expires : Times, epoch : Epochs, resource : Resources]

\* What the bounds may be; Absent is nobody and no grant.
BreakGlassAssumption ==
    /\ MaxIds \in Nat /\ LastTime \in Nat /\ MaxEpoch \in Nat \ {0}
    /\ Absent \notin People \cup Grant

VARIABLES
    epoch,    \* RestoreEpochAuthority
    grants,   \* _grants
    audit     \* _audits

glassVars == <<last, epoch, grants, audit>>

GlassInit ==
    /\ last = 0 /\ epoch = 1
    /\ grants = [g \in Grants |-> Absent]
    /\ audit = <<>>

Used(e) == \E i \in DOMAIN audit : audit[i].id = e

\* _authorize_break_glass_transition uses the clock up, then _append_event, then the grant.  A used event id stops the operation between them.
Logged(t, p, g, e, kind, ep, res, new) ==
    /\ Consume(t)
    /\ IF Used(e) THEN UNCHANGED <<grants, audit>>
       ELSE /\ audit' = Append(audit, [id |-> e, kind |-> kind, grant |-> g, by |-> p,
                                       at |-> t, epoch |-> ep, resource |-> res])
            /\ grants' = [grants EXCEPT ![g] = new]
    /\ UNCHANGED epoch

\* request_break_glass.  An attempt under a foreign epoch is refused before anything
\* is written, one under a foreign tenant or role likewise.
Request(t, p, g, e, ep, expires, res) ==
    /\ ep = epoch
    /\ IF expires <= t \/ grants[g] # Absent
       THEN Logged(t, p, g, e, "denied", ep, res, grants[g])
       ELSE Logged(t, p, g, e, "requested", ep, res,
                   [requester |-> p, approver |-> Absent, revoked |-> FALSE, ended |-> FALSE,
                    expires |-> expires, epoch |-> ep, resource |-> res])

\* Not revoked, not ended, not past its expiry.
Live(t, g) == ~grants[g].revoked /\ ~grants[g].ended /\ t < grants[g].expires

\* approve, revoke and expire name the grant only; resource and epoch are its own.
About(t, p, g, e, kind, ok, new) ==
    IF grants[g] = Absent THEN Logged(t, p, g, e, "denied", 0, Absent, Absent)
    ELSE Logged(t, p, g, e, IF ok THEN kind ELSE "denied", grants[g].epoch, grants[g].resource,
                IF ok THEN new ELSE grants[g])

Approvable(t, p, g) == grants[g].requester # p /\ grants[g].approver = Absent /\ Live(t, g)

Approve(t, p, g, e) ==
    About(t, p, g, e, "approved", grants[g] # Absent /\ Approvable(t, p, g),
          [grants[g] EXCEPT !.approver = p])

Revocable(t, g) == Live(t, g)

Revoke(t, p, g, e) ==
    About(t, p, g, e, "revoked", grants[g] # Absent /\ Revocable(t, g), [grants[g] EXCEPT !.revoked = TRUE])

ExpireGrant(t, p, g, e) ==
    About(t, p, g, e, "expired",
          grants[g] # Absent /\ ~grants[g].revoked /\ ~grants[g].ended /\ t >= grants[g].expires,
          [grants[g] EXCEPT !.ended = TRUE])

\* Mutant of Usable: revocation is not looked at.
UsableRevoked(t, p, g, ep, res) ==
    /\ grants[g].approver # Absent /\ grants[g].requester = p
    /\ grants[g].resource = res /\ grants[g].epoch = ep
    /\ t < grants[g].expires

Usable(t, p, g, ep, res) ==
    /\ grants[g].approver # Absent /\ grants[g].requester = p
    /\ grants[g].resource = res /\ grants[g].epoch = ep
    /\ Live(t, g)

\* use_break_glass.
Use(t, p, g, e, ep, res) ==
    /\ ep = epoch
    /\ Logged(t, p, g, e, IF grants[g] # Absent /\ Usable(t, p, g, ep, res) THEN "used" ELSE "denied",
              ep, res, grants[g])

\* External: the tenant is restored from a backup.
Restore == epoch < MaxEpoch /\ epoch' = epoch + 1 /\ UNCHANGED <<last, grants, audit>>

\* Of an id only matters whether it is in the log: the first, or the next.
Events == {1, Len(audit) + 1} \cap 1..MaxIds

GlassNext ==
    \/ Restore
    \/ \E t \in Times, p \in People, g \in Grants, e \in Events :
        \/ \E ep \in Epochs, x \in Times, res \in Resources : Request(t, p, g, e, ep, x, res)
        \/ Approve(t, p, g, e) \/ Revoke(t, p, g, e) \/ ExpireGrant(t, p, g, e)
        \/ \E ep \in Epochs, res \in Resources : Use(t, p, g, e, ep, res)

GlassSpec == GlassInit /\ [][GlassNext]_glassVars

(***************************************************************************)
(* Properties.                                                              *)
(***************************************************************************)

Before(i, kind, g) == {j \in 1..(i - 1) : audit[j].kind = kind /\ audit[j].grant = g}

\* Every access in the log was requested by its user for that resource in that epoch,
\* approved by somebody else, and neither revoked nor declared expired before it.
AccessIsCovered ==
    \A i \in DOMAIN audit : audit[i].kind = "used" =>
        LET g == audit[i].grant IN
        /\ \E j \in Before(i, "requested", g) :
              audit[j].by = audit[i].by /\ audit[j].resource = audit[i].resource /\ audit[j].epoch = audit[i].epoch
        /\ \E j \in Before(i, "approved", g) : audit[j].by # audit[i].by
        /\ Before(i, "revoked", g) = {} /\ Before(i, "expired", g) = {}
        /\ audit[i].at < grants[g].expires

\* The log alone tells the state of every grant: who approved it and whether and how
\* it ended, each at most once.
LogTellsTheGrant ==
    \A g \in Grants :
        LET said(kind) == Before(Len(audit) + 1, kind, g) IN
        /\ (grants[g] # Absent) = (said("requested") # {})
        /\ grants[g] # Absent =>
            /\ \A j \in said("approved") : audit[j].by = grants[g].approver
            /\ (grants[g].approver = Absent) = (said("approved") = {})
            /\ grants[g].revoked = (said("revoked") # {})
            /\ grants[g].ended = (said("expired") # {})
        /\ \A i, j \in said("revoked") \cup said("expired") : i = j

\* The order of the log is the order of its times.
LogIsOrdered == \A i, j \in DOMAIN audit : i < j => audit[i].at <= audit[j].at

\* The audit log and the grants never part ways.
GrantsAreAccountable == AccessIsCovered /\ LogTellsTheGrant /\ LogIsOrdered

=============================================================================
