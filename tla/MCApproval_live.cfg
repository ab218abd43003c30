\* Liveness: every card is decided, every tapped grant is acted on.
CONSTANTS
    entry1 = entry1
    entry2 = entry2
    exit1 = exit1
    paper = paper
    live = live
    NoOne = NoOne
    NoJob = NoJob
    Requests = {entry1, exit1}
    Exits = {exit1}
    Daemons = {paper, live}
    Poller = paper
    Channels = {"telegram"}
    MaxCommands = 2
    MaxFaults = 1
SPECIFICATION FairSpec
PROPERTIES EveryCardIsDecided GrantedIsActedOn
CHECK_DEADLOCK FALSE
