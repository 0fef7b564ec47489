\* Chains that contend for one approval, are corrected, fail, are cancelled and
\* die.  Calls end and nothing follows them: no deadlock is claimed.
CONSTANTS
    first = first
    rival = rival
    twin = twin
    fixA = fixA
    fixB = fixB
    fixC = fixC
    g1 = g1
    g2 = g2
    g3 = g3
    g4 = g4
    e1 = e1
    e2 = e2
    e3 = e3
    e4 = e4
    Calls = {first, rival, twin, fixA, fixB, fixC}
    Cancellable = {first, rival, twin, fixA, fixB, fixC}
    Approvals = {g1, g2, g3, g4}
    Executions = {e1, e2, e3, e4}
    ApprovalOf <- MCApprovalOf
    ExecutionOf <- MCExecutionOf
    TargetOf <- MCTargetOf
    Lineage <- MCLineage
    NoCall = NoCall
    NoFile = NoFile
    Parts = {"contending", "corrections"}
    ChainLength = 2
    MaxFaults = 2
    MaxCrashes = 1
SPECIFICATION SuiteSpec
CHECK_DEADLOCK FALSE
INVARIANTS
    RecordsAreTruthful
    OneChainPerExecution
    CorrectionsStayUniform
