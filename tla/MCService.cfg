\* Two references whose ambiguous commits contend for one Artifact; one Version
\* that two Projects ask for, readings of the clock around the two deadlines;
\* two uploads of any two flaws around the cap; the two blob trees.  Calls end: no
\* deadlock is claimed.
CONSTANTS
    References = {w1, w2}
    Scopes = {s1, s2}
    Artifacts = {x1, x2}
    Versions = {c1, c2, c3}
    Tokens = {t1}
    Bases <- MCBases
    NoReference = NoReference
    NoVersion = NoVersion
    NoOutput = NoOutput
    NoCommit = NoCommit
    NoToken = NoToken
    v1 = v1
    p1 = p1
    Projects = {p1, p2}
    Published = {v1}
    Callers = {k1}
    ProjectOf <- OwnersOfOne
    MaxTtl = 2
    Ttls = {999, 1000, 1001, 2000}
    Clock = {1, 1001, 2000, 2001, 3000}
    MaxTokens = 2
    None = None
    Empty = Empty
    Requests = {u1, u2}
    Sizes = {4, 5}
    Cap = 4
    b1 = b1
    b2 = b2
    Publishers = {b1, b2}
    Objects = {o1, o2}
    Designs <- MCDesigns
    Unlocked = Unlocked
    Parts = {"commits", "downloads", "uploads", "blobs"}
SPECIFICATION SuiteSpec
SYMMETRY Symmetry
CHECK_DEADLOCK FALSE
INVARIANTS
    RedeemedWithinTheLifetime
    FullLifetimeGranted
    UploadAnswersAreHonest
    PublishedSurvive
PROPERTIES
    RecoveryIsSound
    ImplementsCommitOnce
