\* Two briefs of one symbol are committed in the same second.
CONSTANTS
    d1 = d1
    d2 = d2
    r1 = r1
    s1 = s1
    s2 = s2
    Nobody = Nobody
    Unread = Unread
    Jobs = {d1, r1}
    Crons = {d1}
    Symbols = {s1, s2}
    Watch <- MCWatch
    MaxRuns = 1
    MaxTime = 1
    MaxFaults = 0
SPECIFICATION Spec
INVARIANT LatestIsDefined
CHECK_DEADLOCK FALSE
