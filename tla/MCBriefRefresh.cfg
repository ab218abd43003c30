\* Two daemons and a request refresh the same symbol, with a timeout or a crash.
CONSTANTS
    d1 = d1
    d2 = d2
    r1 = r1
    s1 = s1
    s2 = s2
    Nobody = Nobody
    Unread = Unread
    Jobs = {d1, d2, r1}
    Crons = {d1, d2}
    Symbols = {s1, s2}
    Watch <- MCWatch
    MaxRuns = 1
    MaxTime = 1
    MaxFaults = 1
SPECIFICATION FairSpec
INVARIANTS BriefsAreLinear AnnouncedIsCommitted
PROPERTY WriterMovesOn
CHECK_DEADLOCK FALSE
