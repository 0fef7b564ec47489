---------------------------- MODULE MCRunLedger ----------------------------
(***************************************************************************)
(* Instances for TLC of the approval ledger, and of the writing routes of   *)
(* the API over it.  part, chosen at the start, says which of them a        *)
(* behaviour explores.                                                      *)
(***************************************************************************)
EXTENDS ApiRoutes, TLC

CONSTANTS p1, s1, s2, s3, a1, a2, g1, g2, r1, r2, r3, e1, e2, i1, n1, w1, w2, w3,
          Parts

VARIABLES part

ASSUME RoutesAssumption

MCTimes == 0..2

SuiteInit ==
    /\ part \in Parts
    /\ CASE part = "ledger" ->
              Init /\ titles = NoRows /\ clock = 0 /\ calls = [q \in Requests |-> Idle]
         [] part = "names" -> RoutesInit
         [] part = "starts" -> SeededInit

\* Two Runs that may contend for one approval.
Ledger ==
    /\ DOMAIN sessions' \subseteq {s1} /\ DOMAIN runs' \subseteq {r1, r2}
    /\ \A s \in DOMAIN sessions' : sessions'[s].active < 2
    /\ \A ap \in DOMAIN approvals' : approvals'[ap].expires < 2

\* Rows are never deleted and requests come once, so a new one takes the next of its
\* identities.
InOrder ==
    /\ {q \in Requests : calls'[q].pc # "idle"} \in {{}, {w1}, {w1, w2}, {w1, w2, w3}}
    /\ DOMAIN plans' \in {{}, {a1}, {a1, a2}}
    /\ DOMAIN approvals' \in {{}, {g1}, {g1, g2}}
    /\ DOMAIN runs' \in {{}, {r1}, {r1, r2}, {r1, r2, r3}}
    /\ DOMAIN executions' \in {{}, {e1}, {e1, e2}}
    /\ DOMAIN sessions' \in {{}, {s1}, {s1, s2}, {s1, s2, s3}}

\* Sessions and Projects created, resumed and archived at once.
Naming ==
    /\ clock' = 0
    /\ \A q \in Requests :
          /\ calls'[q].kind \in {"create_project", "archive_project", "create_session",
                                 "resume_session", "archive_session"}
          /\ calls'[q].intent \in {i1, Nothing}

\* Three requests present one approval, which may expire while its Project or
\* Session is archived.
Starting ==
    /\ DOMAIN sessions' = {s1}
    /\ \A q \in Requests :
          /\ calls'[q].kind \in {Idle.kind, "create_plan", "create_approval", "start_run",
                                 "archive_project", "archive_session"}
          /\ calls'[q].pc # "idle" => calls'[q].kind # Idle.kind
          /\ calls'[q].project \in {p1, Nothing} /\ calls'[q].name \in {n1, Nothing}

SuiteNext ==
    /\ \/ part = "ledger" /\ Next /\ Ledger /\ UNCHANGED <<titles, clock, calls>>
       \/ part = "names" /\ RoutesNext /\ InOrder /\ Naming
       \/ part = "starts" /\ RoutesNext /\ InOrder /\ Starting
    /\ UNCHANGED part

SuiteSpec == SuiteInit /\ [][SuiteNext]_<<part, routeVars>>

Symmetry ==
    Permutations(Projects) \cup Permutations(Requesters) \cup Permutations(Intents)
        \cup Permutations(Plans) \cup Permutations(Approvals) \cup Permutations({r1, r2})
        \cup Permutations(Executions)
=============================================================================
