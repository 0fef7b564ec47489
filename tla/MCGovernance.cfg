\* Two workers, people, runs or invocations at once, leases and retries, three
\* governance events, two epochs, a kill anywhere.  Every part comes to an end:
\* no deadlock is claimed.
CONSTANTS
    w1 = w1
    w2 = w2
    x1 = x1
    x2 = x2
    x3 = x3
    p1 = p1
    p2 = p2
    k1 = k1
    k2 = k2
    c1 = c1
    c2 = c2
    s1 = s1
    s2 = s2
    Requester = Requester
    Owner = Owner
    Stranger = Stranger
    Legacy = Legacy
    Nobody = Nobody
    Invocations = {w1, w2}
    Readers = {p1}
    Contexts = {c1, c2}
    NJobs = 2
    MaxEdits = 1
    Missing = Missing
    Subjects = {w1, w2}
    Backups = {k1}
    DeletionSystems = {s1}
    Actors = {p1}
    MaxEvents = 3
    MaxReceipts = 2
    Approvals = {x2, x3}
    Plans = {p1, p2}
    Executors = {w1, w2}
    SigningKeys = {k1, k2}
    Others = {Owner, Stranger}
    LeaseTime = 1
    MaxNow = 2
    MaxAttemptToken = 2
    Records = {p1, p2}
    Scopes = {s1, s2}
    ScopeOf <- MCScopeOf
    DaysOf <- MCDaysOf
    Runs = {w1, w2}
    Keys = {x2, x3}
    Systems = {k1, k2}
    Absent = Absent
    LastTime = 2
    MaxHolds = 1
    MaxAttempts = 2
    Grants = {k1}
    People = {w1, w2}
    Resources = {s1}
    MaxIds = 4
    MaxEpoch = 2
    None = None
    Workers = {w1, w2}
    Executions = {x1, x2, x3}
    Root = x1
    NameOf <- SameName
    MaxTime = 2
    MaxToken = 4
    Parts = {"leases", "approvals", "plans", "restores", "retention", "access", "ci"}
SPECIFICATION GovernanceSpec
SYMMETRY Symmetry
CHECK_DEADLOCK FALSE
INVARIANTS
    PerformedAtMostOnce
    RetriesReplaceNothing
    
PROPERTIES
    
    RestoresAreGoverned
    
    
