------------------------------ MODULE MCReviews ------------------------------
(***************************************************************************)
(* Instances for TLC of what looks at a Run from outside: the Reviewer's    *)
(* rules, the lifecycle of its Reviews, and the routes that read Artifacts  *)
(* and Runs while they are written.  part, chosen at the start, says which  *)
(* of them a behaviour explores; the others stay in their initial state.    *)
(* The lifecycle is two requests that race over a Run with two outputs,     *)
(* under faults.                                                            *)
(***************************************************************************)
EXTENDS ReviewLifecycle, ArtifactReading, ReviewerRules, TLC

CONSTANTS w1, w2, w3, w4, Parts

VARIABLES part

ASSUME ReviewAssumption /\ ReadingAssumption /\ RulesAssumption

Unplanted ==
    /\ evidence = CleanEvidence([b \in Branches |-> "observed"], 4)
    /\ planted = {}

SuiteInit ==
    /\ part \in Parts
    /\ IF part = "rules" THEN RulesInit ELSE Unplanted
    /\ Init /\ ReadingInit

\* Reviews are interchangeable and never deleted: a new one takes the next identity.
InOrder == DOMAIN reviews' \in {{}, {w1}, {w1, w2}, {w1, w2, w3}, {w1, w2, w3, w4}}

\* A history, or a list of them, is read while two Artifacts grow; a reader lists
\* two Runs, reads one or takes its evidence while they run.
SuiteNext ==
    /\ \/ /\ part = "rules" /\ RulesNext
          /\ UNCHANGED <<reviewVars, readingVars>>
       \/ /\ part = "lifecycle" /\ Next /\ InOrder
          /\ UNCHANGED <<reviewerVars, readingVars>>
       \/ /\ part = "histories" /\ ReadingNext /\ UNCHANGED <<run, view>>
          /\ UNCHANGED <<reviewerVars, reviewVars>>
       \/ /\ part = "views" /\ ReadingNext /\ UNCHANGED <<created, versions, history>>
          /\ UNCHANGED <<reviewerVars, reviewVars>>
    /\ UNCHANGED part

SuiteSpec == SuiteInit /\ [][SuiteNext]_<<part, reviewerVars, reviewVars, readingVars>>

Symmetry == Permutations(Runs)
=============================================================================
