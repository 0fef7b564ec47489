\* Turns that share a stripe or a store, bodies of up to four symbols, requests
\* that change keys and models.  Streams end and bounds are reached: no
\* deadlock is claimed.
CONSTANTS
    q1 = q1
    q2 = q2
    q3 = q3
    m1 = m1
    m2 = m2
    s1 = s1
    s2 = s2
    r1 = r1
    r2 = r2
    k1 = k1
    w1 = w1
    w2 = w2
    openai = openai
    google = google
    Requests = {q1, q2, q3}
    Runs = {r1, r2}
    Selections = {m1, m2}
    Servers = {s1, s2}
    Stripes = {k1}
    ProcessOf <- MCProcessOf
    ServersOf <- MCServersOf
    StripeOf <- MCStripeOf
    NoRequest = NoRequest
    MaxFrames = 2
    TotalTimeout = 0
    MaxTicks = 1
    MaxTurns = 2
    MaxSettings = 1
    None = None
    Workers = {w1, w2}
    ProcessOfWorker <- MCProcessOfWorker
    Providers = {openai, google}
    Keys = {key}
    Models = {m1, m2}
    EnvKeyed = {google}
    MaxOps = 3
    MaxMaster = 2
    Symbols = {"text", "stop", "done", "error", "comment"}
    MaxBody = 4
    MaxFrameBytes = 2
    MaxResponseBytes = 4
    Parts = {"pin", "across", "stream", "serial", "concurrent"}
SPECIFICATION SuiteSpec
SYMMETRY Symmetry
CHECK_DEADLOCK FALSE
INVARIANTS
    StreamsAreReadFaithfully
PROPERTIES
    TurnsAreSound
    KeysAreKept
    EgressFollowsThePin
