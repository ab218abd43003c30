\* The announced brief of a daemon reaches the retain handler.
CONSTANTS
    d1 = d1
    d2 = d2
    r1 = r1
    s1 = s1
    s2 = s2
    Nobody = Nobody
    Unread = Unread
    Jobs = {d1, r1}
    Crons = {d1}
    Symbols = {s1, s2}
    Watch <- MCWatch
    MaxRuns = 1
    MaxTime = 0
    MaxFaults = 0
SPECIFICATION FairSpec
PROPERTY BriefIsRetained
CHECK_DEADLOCK FALSE
