\* Liveness: every committed event reaches its subscribers; no symmetry.
CONSTANTS
    s1 = s1
    s2 = s2
    j1 = j1
    tA = tA
    tB = tB
    NoKey = NoKey
    NoEvent = NoEvent
    Subs = {s1, s2}
    Jobs = {j1}
    Topics = {tA, tB}
    Keys = {k1}
    TopicOf <- MCTopicOf
    Idempotent = {s1}
    DedupWindow = 1
    MaxEvents = 2
    MaxCrashes = 1
SPECIFICATION FairSpec
PROPERTY CommittedIsDelivered
