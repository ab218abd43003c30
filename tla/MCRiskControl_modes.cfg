\* Both daemons take snapshots, of accounts of different size.
CONSTANTS
    paper = paper
    live = live
    cli = cli
    bot = bot
    None = None
    Daemons = {paper, live}
    Accounts = {paper, live}
    Terminals = {cli}
    Chats = {bot}
    Caps <- MCCaps
    Fallback = 20
    Notionals <- MCNotionals
    Equities <- MCEquities
    Results <- MCResults
    FirstTick = 13
    DayLen = 2
    WeekLen = 7
    LastTick = 14
    MaxCommands = 0
    MaxCloses = 1
    MaxSnapshots = 2
    MaxFaults = 1
SPECIFICATION Spec
PROPERTY DrawdownIsReal
CHECK_DEADLOCK FALSE
