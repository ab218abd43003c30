\* A live trade, a paper daemon that runs the stop-hit sweep.
CONSTANTS
    paper = paper
    live = live
    t1 = t1
    None = None
    Trades = {t1}
    Modes = {paper, live}
    ModeOf <- MCAllLive
    SymbolOf <- MCSymbolOf
    Sweeping = {paper}
    Poller = live
    Lots = 2
    MaxAsks = 1
    MaxFaults = 0
SPECIFICATION Spec
INVARIANT ClosedIsNotHeld
