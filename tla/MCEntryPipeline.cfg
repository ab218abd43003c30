\* Safety: a paper and a live daemon, a configuration of each mode, a fault.
CONSTANTS
    paper = paper
    live = live
    c1 = c1
    c2 = c2
    s1 = s1
    s2 = s2
    None = None
    Modes = {paper, live}
    Poller = paper
    Leased = {}
    Configs = {c1, c2}
    ModeOf <- MCModeOf
    SymbolOf <- MCSymbolOf
    Proposals = {p1, p2}
    MaxOpen = 1
    MaxFlips = 0
    MaxFaults = 1
SPECIFICATION Spec
INVARIANTS SentAtMostOnce SentWasVetted OneCardPerDaemon
PROPERTY ImplementsContract
SYMMETRY ProposalSymmetry
CHECK_DEADLOCK FALSE
