\* Native brackets and an exit card for the same trade.
CONSTANTS
    paper = paper
    live = live
    t1 = t1
    None = None
    Trades = {t1}
    Modes = {live}
    ModeOf <- MCAllLive
    SymbolOf <- MCSymbolOf
    Sweeping = {}
    Poller = live
    Lots = 2
    MaxAsks = 1
    MaxFaults = 0
SPECIFICATION Spec
INVARIANT NoDoubleSell
