\* One daemon with an on-demand gateway and two operator actions; liveness.
CONSTANTS
    paper = paper
    live = live
    c1 = c1
    c2 = c2
    s1 = s1
    s2 = s2
    None = None
    Modes = {paper}
    Poller = paper
    Leased = {paper}
    Configs = {c1, c2}
    ModeOf <- MCAllPaper
    SymbolOf <- MCSymbolOf
    Proposals = {p1, p2}
    MaxOpen = 1
    MaxFlips = 2
    MaxFaults = 0
SPECIFICATION FairSpec
INVARIANT HaltStopsOrders
CHECK_DEADLOCK FALSE
PROPERTY PendingIsAnswered
