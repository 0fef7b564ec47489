\* The ledger: two Projects and two requesters, two Runs that may contend for one
\* approval.  The routes: three requests at once.  Identities run out: no deadlock
\* is claimed.
CONSTANTS
    p1 = p1
    s1 = s1
    s2 = s2
    s3 = s3
    a1 = a1
    a2 = a2
    g1 = g1
    g2 = g2
    r1 = r1
    r2 = r2
    r3 = r3
    e1 = e1
    e2 = e2
    i1 = i1
    n1 = n1
    w1 = w1
    w2 = w2
    w3 = w3
    Projects = {p1, p2}
    Requesters = {q1, q2}
    Sessions = {s1, s2, s3}
    Plans = {a1, a2}
    Approvals = {g1, g2}
    Runs = {r1, r2, r3}
    Executions = {e1, e2}
    Intents = {i1, i2}
    Times <- MCTimes
    NoSession = NoSession
    NoRun = NoRun
    NoTime = NoTime
    Nothing = Nothing
    Requests = {w1, w2, w3}
    Names = {n1, n2}
    Kinds = {"create_project", "archive_project", "create_session", "resume_session", "archive_session", "create_plan", "create_approval", "start_run"}
    Given = {p1}
    Requester = q1
    Ttl = 1
    MaxClock = 1
    Parts = {"ledger", "names", "starts"}
SPECIFICATION SuiteSpec
SYMMETRY Symmetry
CHECK_DEADLOCK FALSE
INVARIANTS
    ApprovalsAreSpentOnce
    ExecutedWhatWasApproved
    RoutesAreSound
PROPERTIES
    LedgerNeverRewrites
