\* The second symbol of a batch waits for the language model inside the transaction of the first.
CONSTANTS
    d1 = d1
    d2 = d2
    r1 = r1
    s1 = s1
    s2 = s2
    Nobody = Nobody
    Unread = Unread
    Jobs = {d1, r1}
    Crons = {d1}
    Symbols = {s1, s2}
    Watch <- MCWatch
    MaxRuns = 1
    MaxTime = 0
    MaxFaults = 0
SPECIFICATION Spec
INVARIANT NoCallUnderLock
CHECK_DEADLOCK FALSE
