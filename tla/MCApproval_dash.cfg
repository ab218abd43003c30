\* A decision through the dashboard route.
CONSTANTS
    entry1 = entry1
    entry2 = entry2
    exit1 = exit1
    paper = paper
    live = live
    NoOne = NoOne
    NoJob = NoJob
    Requests = {entry1, exit1}
    Exits = {exit1}
    Daemons = {paper, live}
    Poller = paper
    Channels = {"dashboard"}
    MaxCommands = 1
    MaxFaults = 0
SPECIFICATION Spec
INVARIANT OkMeansDecided
CHECK_DEADLOCK FALSE
