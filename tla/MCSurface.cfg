\* Three processes at once, two downloads of a pack, responses of up
\* to four bytes.  Every part comes to an end: no deadlock is claimed.
CONSTANTS
    w1 = w1
    w2 = w2
    p2 = p2
    m2 = m2
    Undeclared = Undeclared
    NoProcess = NoProcess
    NoPack = NoPack
    MaxChunk = 2
    MaxEmitted = 4
    MaxDeclared = 3
    Processes = {w1, w2, w3}
    Segments = {"data", "Data", "manifest", "Manifest", ".."}
    BadSegments = {".."}
    Reserved = {"manifest"}
    Folded <- MCFolded
    MaxDepth = 2
    MaxEntries = 2
    Outputs = 2
    MaxSelection = 2
    Findings = {v1}
    Packs = {p1, p2}
    Listers = {l1}
    Minters = {m1, m2}
    Fetchers = {w1, w2}
    Size = 2
    MaxOpenTickets = 1
    Ttl = 1
    MaxSecrets = 3
    MaxClock = 1
    MaxCrashes = 1
    Parts = {"guard", "wire", "servers", "paths", "assembly", "files", "tickets", "table"}
SPECIFICATION Spec
SYMMETRY Symmetry
CHECK_DEADLOCK FALSE
INVARIANTS
    ResponsesAreFaithful
    ServersAreFound
    
    DeliveryIsHonest
PROPERTIES
    GuardIsAsked
    PacksAreTruthful
