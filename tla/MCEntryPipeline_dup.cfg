\* The flood guard across the two daemons.
CONSTANTS
    paper = paper
    live = live
    c1 = c1
    c2 = c2
    s1 = s1
    s2 = s2
    None = None
    Modes = {paper, live}
    Poller = paper
    Leased = {}
    Configs = {c1}
    ModeOf <- MCAllPaper
    SymbolOf <- MCSymbolOf
    Proposals = {p1, p2}
    MaxOpen = 1
    MaxFlips = 0
    MaxFaults = 0
SPECIFICATION Spec
INVARIANT FloodGuard
SYMMETRY ProposalSymmetry
CHECK_DEADLOCK FALSE
