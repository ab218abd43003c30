\* Safety: one daemon with native brackets that polls Telegram, one trade.
CONSTANTS
    paper = paper
    live = live
    t1 = t1
    None = None
    Trades = {t1}
    Modes = {live}
    ModeOf <- MCAllLive
    SymbolOf <- MCSymbolOf
    Sweeping = {}
    Poller = live
    Lots = 2
    MaxAsks = 2
    MaxFaults = 1
SPECIFICATION Spec
INVARIANTS ExitsAreAccounted ClosedIsNotHeld
PROPERTY ImplementsContract
