\* Three defects of any kinds; two requests that race over a Run with two
\* outputs under two faults; readers beside writers.  Requests are answered,
\* Runs end, defects run out: no deadlock is claimed.
CONSTANTS
    Branches = {b1, b2}
    NotStated = NotStated
    MaxDefects = 3
    Versions = {v1, v2}
    Callers = {c1, c2}
    w1 = w1
    w2 = w2
    w3 = w3
    w4 = w4
    Reviews = {w1, w2, w3, w4}
    NoReview = NoReview
    MaxFaults = 2
    Artifacts = {a1, a2}
    Runs = {r1, r2}
    HistoryReaders = {h1}
    RunReaders = {k1}
    MaxVersions = 2
    Outputs = 2
    MaxTurns = 1
    None = None
    Parts = {"rules", "lifecycle", "histories", "views"}
SPECIFICATION SuiteSpec
SYMMETRY Symmetry
CHECK_DEADLOCK FALSE
INVARIANTS
    
    ReadsAreConsistent
PROPERTIES
    ReviewsRestOnPins
    DamageNeverLaunders
