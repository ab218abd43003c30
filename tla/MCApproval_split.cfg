\* Both an approval and a timeout reach trading for one card.
CONSTANTS
    entry1 = entry1
    entry2 = entry2
    exit1 = exit1
    paper = paper
    live = live
    NoOne = NoOne
    NoJob = NoJob
    Requests = {entry1, exit1}
    Exits = {exit1}
    Daemons = {paper, live}
    Poller = paper
    Channels = {"telegram", "mcp"}
    MaxCommands = 2
    MaxFaults = 0
SPECIFICATION Spec
INVARIANT NoSplitOutcome
CHECK_DEADLOCK FALSE
