\* A drained proposal whose card is tapped later.
CONSTANTS
    paper = paper
    live = live
    c1 = c1
    c2 = c2
    s1 = s1
    s2 = s2
    None = None
    Modes = {paper}
    Poller = paper
    Leased = {}
    Configs = {c1}
    ModeOf <- MCAllPaper
    SymbolOf <- MCSymbolOf
    Proposals = {p1}
    MaxOpen = 1
    MaxFlips = 1
    MaxFaults = 0
SPECIFICATION Spec
PROPERTY DrainedStaysRejected
CHECK_DEADLOCK FALSE
