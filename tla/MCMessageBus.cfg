\* Safety of the bus and its unit of work, with a crash.
CONSTANTS
    s1 = s1
    s2 = s2
    j1 = j1
    tA = tA
    tB = tB
    NoKey = NoKey
    NoEvent = NoEvent
    Subs = {s1, s2}
    Jobs = {j1}
    Topics = {tA, tB}
    Keys = {k1, k2}
    TopicOf <- MCTopicOf
    Idempotent = {s1}
    DedupWindow = 1
    MaxEvents = 3
    MaxCrashes = 1
SPECIFICATION Spec
INVARIANTS PublishAfterCommit DedupWithinWindow
PROPERTY ImplementsContract
SYMMETRY KeySymmetry
