------------------------- MODULE RestoreGovernance -------------------------
(***************************************************************************)
(* Restore and deletion governance of protocols/recovery.py: a restore      *)
(* stays inert until its replayed tombstones and holds equal an anchored    *)
(* manifest, and only an activated restore may purge.  Normal access and    *)
(* purging decide on a snapshot and act through an authority that checks    *)
(* again.  Backups, anchors, canonical roots, receipts and the two action   *)
(* stores are protocols of the contract, modelled from its use of them.     *)
(*                                                                          *)
(* A digest is the value it is of.  A backup and its restore epoch are one  *)
(* key.                                                                     *)
(***************************************************************************)
EXTENDS Naturals, Sequences, Functions

CONSTANTS Subjects, Backups, DeletionSystems, Actors, Missing,
          MaxEvents,     \* bound: tombstones plus holds
          MaxReceipts    \* bound: activation receipts issued

VARIABLES
    tombstones, holdStream,    \* the authoritative streams
    canonical,            \* streams at the time of each backup
    anchor,               \* manifests the resolver vouches for
    activation,           \* activation receipts in force, per key and phase
    issued,               \* receipts issued so far
    deleted,              \* systems whose deletion receipts the resolver knows
    restore,              \* the lifecycle of the restore in progress
    permits,              \* what each actor is about to do
    performed                  \* what the last step did with a permit

govVars == <<tombstones, holdStream, canonical, anchor, activation, issued, deleted,
             restore, permits, performed>>

Fresh(k) ==
    [phase |-> "restoring", key |-> k, verified |-> FALSE, enabled |-> FALSE,
     t |-> <<>>, h |-> <<>>, receipts |-> {}, quarantined |-> FALSE,
     manifest |-> Missing, receipt |-> 0]

NoPermit == [kind |-> "none", subject |-> Missing]

RestoreInit ==
    /\ tombstones = <<>> /\ holdStream = <<>>
    /\ canonical = [k \in Backups |-> Missing] /\ anchor = [k \in Backups |-> Missing]
    /\ activation = [kp \in Backups \X {"ready", "activated"} |-> 0]
    /\ issued = 0 /\ deleted = {}
    /\ \E k \in Backups : restore = Fresh(k)
    /\ permits = [a \in Actors |-> NoPermit]
    /\ performed = NoPermit

(***************************************************************************)
(* External authorities.                                                    *)
(***************************************************************************)

streamVars == <<tombstones, holdStream>>
resolverVars == <<canonical, anchor, activation, issued, deleted>>

AppendEvent ==
    /\ Len(tombstones) + Len(holdStream) < MaxEvents
    /\ \E s \in Subjects :
        \/ tombstones' = Append(tombstones, s) /\ UNCHANGED holdStream
        \/ \E b \in BOOLEAN : holdStream' = Append(holdStream, [subject |-> s, active |-> b]) /\ UNCHANGED tombstones
    /\ UNCHANGED <<resolverVars, restore, permits>> /\ performed' = NoPermit

\* A backup fixes the streams its restore must replay; both have events.
Backup(k) ==
    /\ canonical[k] = Missing
    /\ tombstones # <<>> /\ holdStream # <<>>
    /\ canonical' = [canonical EXCEPT ![k] = [t |-> tombstones, h |-> holdStream]]
    /\ UNCHANGED <<streamVars, anchor, activation, issued, deleted, restore, permits>> /\ performed' = NoPermit

\* A manifest is anchored; it may be of the wrong moment.
AnchorManifest(k) ==
    /\ canonical[k] # Missing /\ anchor[k] = Missing
    /\ \E m \in {canonical[k], [t |-> tombstones, h |-> holdStream]} : anchor' = [anchor EXCEPT ![k] = m]
    /\ UNCHANGED <<streamVars, canonical, activation, issued, deleted, restore, permits>> /\ performed' = NoPermit

\* Receipts for an anchored restore past its replay are issued and replaced.
Issue(k, p) ==
    /\ anchor[k] # Missing /\ restore.phase \notin {"restoring", "replaying_governance"}
    /\ issued < MaxReceipts /\ issued' = issued + 1
    /\ activation' = [activation EXCEPT ![<<k, p>>] = issued + 1]
    /\ UNCHANGED <<streamVars, canonical, anchor, deleted, restore, permits>> /\ performed' = NoPermit

\* The deletion systems confirm after the backup.
ConfirmDeletion(x) ==
    /\ \E k \in Backups : canonical[k] # Missing
    /\ x \notin deleted /\ deleted' = deleted \cup {x}
    /\ UNCHANGED <<streamVars, canonical, anchor, activation, issued, restore, permits>> /\ performed' = NoPermit

(***************************************************************************)
(* The restore.                                                             *)
(***************************************************************************)

Keep == UNCHANGED <<streamVars, resolverVars, permits>> /\ performed' = NoPermit

\* The operator's part in a restore that is not yet ready: turn workers off, verify
\* the backup and quarantine transient records, at most one of them left undone;
\* load the anchored manifest and record the deletion receipts.
Prepare ==
    /\ restore.phase = "validating" /\ restore.manifest = Missing /\ anchor[restore.key] # Missing
    /\ \E undone \in {"nothing", "workers", "verification", "quarantine"} :
        restore' = [restore EXCEPT !.enabled = (undone = "workers"),
                                   !.verified = (undone # "verification"),
                                   !.quarantined = (undone # "quarantine"),
                                   !.receipts = deleted, !.manifest = anchor[restore.key]]
    /\ Keep

\* Governance is replayed one event at a time, from a source that may be newer than
\* the backup, repeat an event or miss one.
Replay ==
    /\ restore.phase = "replaying_governance"
    /\ \/ /\ Len(restore.t) < Len(tombstones)
          /\ \E e \in Range(tombstones) : restore' = [restore EXCEPT !.t = Append(@, e)]
       \/ /\ Len(restore.h) < Len(holdStream)
          /\ \E e \in Range(holdStream) : restore' = [restore EXCEPT !.h = Append(@, e)]
    /\ Keep

Transitions ==
    {<<"restoring", "replaying_governance">>, <<"replaying_governance", "validating">>,
     <<"validating", "ready">>, <<"ready", "activated">>}
    \cup {<<p, "failed">> : p \in {"restoring", "replaying_governance", "validating", "ready"}}

\* _validate_restore_governance: what was replayed is the anchored baseline.
Replayed(r) == r.manifest # Missing /\ r.t = r.manifest.t /\ r.h = r.manifest.h

\* _validate_restore: inert, verified, replayed, every deletion system, quarantined.
Validated(r) ==
    /\ ~r.enabled /\ r.verified
    /\ Replayed(r)
    /\ r.receipts = DeletionSystems /\ r.quarantined

\* validate_restore_authority: anchor, canonical roots and receipts, each resolved
\* independently.
Authorized(r) ==
    /\ r.manifest # Missing /\ anchor[r.key] = r.manifest
    /\ canonical[r.key] # Missing
    /\ canonical[r.key].t = r.manifest.t /\ canonical[r.key].h = r.manifest.h
    /\ DeletionSystems \subseteq deleted

\* advance_restore: the phases that activate nothing.
Advance(phase) ==
    /\ phase \notin {"ready", "activated"}
    /\ <<restore.phase, phase>> \in Transitions
    /\ restore' = [restore EXCEPT !.phase = phase]
    /\ Keep

\* advance_restore_authoritatively.
Activate(phase) ==
    /\ phase \in {"ready", "activated"}
    /\ Authorized(restore)
    /\ activation[<<restore.key, phase>>] # 0
    /\ <<restore.phase, phase>> \in Transitions
    /\ Validated(restore)
    /\ restore' = [restore EXCEPT !.phase = phase, !.receipt = activation[<<restore.key, phase>>]]
    /\ Keep

(***************************************************************************)
(* Access and purging.                                                      *)
(***************************************************************************)

\* Mutant of NormalAccessAllowed: the last tombstone counts.
AllowedByLast(t, s) == t # <<>> => t[Len(t)] # s

\* normal_access_allowed: any tombstone denies the subject.
NormalAccessAllowed(t, s) == ~ \E i \in DOMAIN t : t[i] = s

\* The holds of a subject, and that the last of them, if any, is not active.
HoldsOf(h, s) == {i \in DOMAIN h : h[i].subject = s}

Releasable(h, s) ==
    \A i \in HoldsOf(h, s) : (\A j \in HoldsOf(h, s) : j <= i) => ~h[i].active

\* physical_purge_allowed: the receipt is still in force and the streams are exactly
\* those of the restore.
PurgeAllowed(s) ==
    /\ restore.phase = "activated"
    /\ Authorized(restore)
    /\ activation[<<restore.key, "activated">>] # 0 /\ activation[<<restore.key, "activated">>] = restore.receipt
    /\ tombstones = restore.t /\ holdStream = restore.h
    /\ ~NormalAccessAllowed(tombstones, s) /\ Releasable(holdStream, s)

\* Both operations read the streams and build a permit over them ...
AskAccess(a, s) ==
    /\ permits[a] = NoPermit
    /\ tombstones # <<>> \/ holdStream # <<>>
    /\ NormalAccessAllowed(tombstones, s)
    /\ permits' = [permits EXCEPT ![a] = [kind |-> "visibility", subject |-> s, t |-> tombstones, h |-> holdStream]]
    /\ performed' = NoPermit
    /\ UNCHANGED <<streamVars, resolverVars, restore>>

AskPurge(a, s) ==
    /\ permits[a] = NoPermit
    /\ PurgeAllowed(s)
    /\ permits' = [permits EXCEPT ![a] = [kind |-> "purge", subject |-> s, t |-> tombstones, h |-> holdStream,
                                          key |-> restore.key, receipt |-> restore.receipt]]
    /\ performed' = NoPermit
    /\ UNCHANGED <<streamVars, resolverVars, restore>>

\* ... which the authority compares with the streams and the activation in force.
Current(p) ==
    /\ p.t = tombstones /\ p.h = holdStream
    /\ p.kind = "purge" => activation[<<p.key, "activated">>] = p.receipt

\* consume_and_perform and resolve_activation_consume_and_perform: check, use up the
\* permit and act in one transaction; a permit that is not current is refused.
Act(a) ==
    LET p == permits[a] IN
    /\ p # NoPermit
    /\ permits' = [permits EXCEPT ![a] = NoPermit]
    /\ performed' = IF Current(p) THEN [kind |-> p.kind, subject |-> p.subject] ELSE NoPermit
    /\ UNCHANGED <<streamVars, resolverVars, restore>>

RestoreNext ==
    \/ AppendEvent \/ Prepare \/ Replay
    \/ \E k \in Backups : Backup(k) \/ AnchorManifest(k) \/ \E p \in {"ready", "activated"} : Issue(k, p)
    \/ \E x \in DeletionSystems : ConfirmDeletion(x)
    \/ \E p \in {"replaying_governance", "validating", "ready", "activated", "failed"} : Advance(p) \/ Activate(p)
    \/ \E a \in Actors : Act(a) \/ \E s \in Subjects : AskAccess(a, s) \/ AskPurge(a, s)

RestoreSpec == RestoreInit /\ [][RestoreNext]_govVars

(***************************************************************************)
(* Properties.                                                              *)
(***************************************************************************)

Tombstoned(s) == \E i \in DOMAIN tombstones : tombstones[i] = s

\* A hold of s to which no release of s was appended since.
OnHold(s) ==
    \E i \in DOMAIN holdStream :
        /\ holdStream[i].subject = s /\ holdStream[i].active
        /\ \A j \in DOMAIN holdStream :
               j > i => ~(holdStream[j].subject = s /\ ~holdStream[j].active)

\* Whatever was appended while the decision was under way, a subject is purged only
\* while it is tombstoned and not held, under a receipt that is in force.
PurgesAreGoverned ==
    [][performed'.kind = "purge" =>
           /\ Tombstoned(performed'.subject)
           /\ ~OnHold(performed'.subject)
           /\ activation[<<restore.key, "activated">>] = restore.receipt]_govVars

\* A subject is shown only while no tombstone denies it.
NothingDeletedIsShown ==
    [][performed'.kind = "visibility" => ~Tombstoned(performed'.subject)]_govVars

\* A restore that is ready or activated replayed exactly the streams of its backup,
\* which the authority still holds, and runs no workers.
ActivationIsEarned ==
    restore.phase \in {"ready", "activated"} =>
        /\ canonical[restore.key] = [t |-> restore.t, h |-> restore.h]
        /\ ~restore.enabled

\* A restore becomes active on what its backup held, and what is shown or purged
\* under it follows every event up to the moment of the act.
RestoresAreGoverned ==
    []ActivationIsEarned /\ PurgesAreGoverned /\ NothingDeletedIsShown

=============================================================================
