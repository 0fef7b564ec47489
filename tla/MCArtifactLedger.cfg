\* Three sizes of the artifact ledger.  Every Project may be archived and every
\* Run finished, after which little is left to do: no deadlock is claimed.
CONSTANTS
    p1 = p1
    p2 = p2
    q1 = q1
    s1 = s1
    c1 = c1
    i1 = i1
    a1 = a1
    a2 = a2
    g1 = g1
    g2 = g2
    r1 = r1
    r2 = r2
    e1 = e1
    e2 = e2
    x1 = x1
    x2 = x2
    v1 = v1
    v2 = v2
    v3 = v3
    NoSession = NoSession
    NoRun = NoRun
    NoTime = NoTime
    Projects = {p1, p2}
    Requesters = {q1}
    Sessions = {s1}
    Plans = {a1, a2}
    Approvals = {g1, g2}
    Runs = {r1, r2}
    Executions = {e1, e2}
    Intents = {i1}
    Times = {0, 1}
    Artifacts = {x1, x2}
    Versions = {v1, v2, v3}
    Contents = {c1}
    InputDigest <- SharedInput
    MaxOutputs = 2
SPECIFICATION SuiteSpec
SYMMETRY Symmetry
CHECK_DEADLOCK FALSE
INVARIANTS
    ReferencedBlobsPresent
    EvidenceIsSound
PROPERTIES
    EvidenceIsAppendOnly
