\* Safety: two daemons, a terminal and a chat; one account takes snapshots.
\* The instance starts on the last day of a week.
CONSTANTS
    paper = paper
    live = live
    cli = cli
    bot = bot
    None = None
    Daemons = {paper, live}
    Accounts = {live}
    Terminals = {cli}
    Chats = {bot}
    Caps <- MCCaps
    Fallback = 20
    Notionals <- MCNotionals
    Equities <- MCEquities
    Results <- MCResults
    FirstTick = 13
    DayLen = 2
    WeekLen = 7
    LastTick = 14
    MaxCommands = 2
    MaxCloses = 1
    MaxSnapshots = 2
    MaxFaults = 1
SPECIFICATION Spec
INVARIANTS AutoOncePerDay AnnouncedOnce HaltStopsEvaluations BreachTripsSwitch
PROPERTY ImplementsContract
CHECK_DEADLOCK FALSE
