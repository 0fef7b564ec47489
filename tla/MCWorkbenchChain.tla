-------------------------- MODULE MCWorkbenchChain --------------------------
(***************************************************************************)
(* Instances of WorkbenchChain for TLC: two arrangements of calls, explored *)
(* in one run.  part, chosen at the start, says which; the calls of the     *)
(* other are never begun.                                                   *)
(***************************************************************************)
EXTENDS WorkbenchChain, TLC

CONSTANTS first, rival, twin, fixA, fixB, fixC, g1, g2, g3, g4, e1, e2, e3, e4,
          Parts

VARIABLE part

\* A first analysis, a rival presenting the same approval for an execution of
\* its own, and a twin bound to the same execution under its own approval.
Contenders == {first, rival, twin}

\* An analysis, two corrections of it and a correction of the first of them,
\* each with an approval and an execution of its own.
Corrections == {first, fixA, fixB, fixC}

MCApprovalOf ==
    (first :> g1) @@ (rival :> g1) @@ (twin :> g2)
        @@ (fixA :> g2) @@ (fixB :> g3) @@ (fixC :> g4)

MCExecutionOf ==
    (first :> e1) @@ (rival :> e2) @@ (twin :> e1)
        @@ (fixA :> e2) @@ (fixB :> e3) @@ (fixC :> e4)

MCTargetOf ==
    (fixA :> first) @@ (fixB :> first) @@ (fixC :> fixA) @@ [c \in Contenders |-> NoCall]

MCLineage ==
    (rival :> rival) @@ (twin :> twin) @@ [c \in Corrections |-> first]

ASSUME ChainAssumption

SuiteInit == part \in Parts /\ Init

\* The calls of a part.
Taking == IF part = "corrections" THEN Corrections ELSE Contenders

\* Corrections meet one fault and no death.
SuiteNext ==
    /\ \/ \E c \in Taking : Begin(c) \/ Step(c) \/ Failure(c) \/ CancelRun(c)
       \/ Crash
       \/ ArchiveProject
    /\ part = "corrections" => faults' <= 1 /\ crashes' = 0
    /\ UNCHANGED part

SuiteSpec == SuiteInit /\ [][SuiteNext]_<<part, vars>>
=============================================================================
