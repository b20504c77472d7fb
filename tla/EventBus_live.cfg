SPECIFICATION LiveSpec
CONSTANTS
    w1 = w1
    w2 = w2
    t1 = t1
    t2 = t2
    t3 = t3
    Modes = {TRUE, FALSE}
    Workers = {w1, w2}
    Threads = {t1, t2}
    NSlots = 2
    Capacity = 1
    Topics = {"a", "b"}
    AnyTopic = "any"
    Policies = {"block", "oldest"}
    MaxSubscriptions = 2
    MaxEvents = 3
    Calls <- LiveCalls
CHECK_DEADLOCK FALSE
PROPERTY EventsLeave
 
