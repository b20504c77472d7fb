SPECIFICATION Spec
CONSTANTS
    w1 = w1
    w2 = w2
    t1 = t1
    t2 = t2
    t3 = t3
    Modes = {TRUE, FALSE}
    Workers = {w1, w2}
    Threads = {t1, t2}
    NSlots = 2
    Capacity = 2
    Topics = {"a"}
    AnyTopic = "any"
    Policies = {"block", "coalesce", "oldest", "newest"}
    MaxSubscriptions = 2
    MaxEvents = 3
    Calls <- BusCalls
SYMMETRY Symmetry
CHECK_DEADLOCK FALSE
INVARIANT InOrder
INVARIANT NoLateHandler
PROPERTY WaitKeepsSubscription
