\* One daemon without native brackets sweeps, reviews and polls.
CONSTANTS
    t1 = t1
    paper = paper
    live = live
    None = None
    Trigger = 20
    AtrMult = 1
    Tolerance = 0
    Trades = {t1}
    Modes = {live}
    ModeOf <- MCModeOf
    SideOf <- MCSideOf
    Entry <- MCEntry
    ProposalStop <- MCProposalStop
    Target <- MCTarget
    Sweeping = {live}
    Reviewing = {live}
    Poller = live
    Bars <- MCBars
    MaxAsks = 1
    MaxErrors = 1
    MaxFaults = 1
SPECIFICATION FairSpec
INVARIANTS ExitHasCause OneCardOpen
PROPERTIES StopRatchets BreachIsClosed GrantIsHonoured
CHECK_DEADLOCK FALSE
