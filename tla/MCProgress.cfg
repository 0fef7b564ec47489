\* Two or three calls of each kind under fair scheduling.  Every part comes to an
\* end: no deadlock is claimed.
CONSTANTS
    first = first
    rival = rival
    twin = twin
    q1 = q1
    q2 = q2
    g1 = g1
    g2 = g2
    g3 = g3
    e1 = e1
    e2 = e2
    v1 = v1
    c1 = c1
    c2 = c2
    s1 = s1
    r1 = r1
    r2 = r2
    m1 = m1
    m2 = m2
    p1 = p1
    a1 = a1
    i1 = i1
    NoCall = NoCall
    NoFile = NoFile
    NoReview = NoReview
    NoRequest = NoRequest
    None = None
    Legacy = Legacy
    Nothing = Nothing
    NoSession = NoSession
    NoRun = NoRun
    NoTime = NoTime
    Callers = {c1, c2}
    MaxFaults = 1
    Parts = {"chain", "reviews", "turns", "routes", "ci"}
SPECIFICATION FairSpec
CHECK_DEADLOCK FALSE
PROPERTIES
    EveryRunIsMarked
    ReviewsOfWholeRunsClose
    WhatBeginsEnds
