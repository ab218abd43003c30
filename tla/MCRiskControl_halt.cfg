\* The chat halts, resumes and halts again within one bucket.
CONSTANTS
    paper = paper
    live = live
    cli = cli
    bot = bot
    None = None
    Daemons = {live}
    Accounts = {live}
    Terminals = {}
    Chats = {bot}
    Caps <- MCCaps
    Fallback = 20
    Notionals <- MCNotionals
    Equities <- MCEquities
    Results <- MCResults
    FirstTick = 13
    DayLen = 2
    WeekLen = 7
    LastTick = 14
    MaxCommands = 3
    MaxCloses = 1
    MaxSnapshots = 0
    MaxFaults = 0
SPECIFICATION Spec
PROPERTY HaltIsHonoured
CHECK_DEADLOCK FALSE
