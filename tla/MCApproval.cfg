\* Safety: one entry and one exit card, two daemons, all channels.
CONSTANTS
    entry1 = entry1
    exit1 = exit1
    entry2 = entry2
    paper = paper
    live = live
    NoOne = NoOne
    NoJob = NoJob
    Requests = {entry1, exit1}
    Exits = {exit1}
    Daemons = {paper, live}
    Poller = paper
    Channels = {"telegram", "mcp", "dashboard"}
    MaxCommands = 2
    MaxFaults = 1
SPECIFICATION Spec
INVARIANTS ActsOnlyOnGrants
PROPERTY ImplementsContract
CHECK_DEADLOCK FALSE
