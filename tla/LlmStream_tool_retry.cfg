SPECIFICATION StreamSpec
CONSTANTS
    Callers <- TheCallers
    UseOf <- TheUses
    ClientRetries = 1
    MaxResponse = 21
    ToolRedirects = 1
    PoolOrder <- ThePools
    MaxReuse = 2
    StaleThreshold = 1
    RecoverSuccess = 1
    MaxCalls = 1
    MaxCancels = 1
    MaxPending = 20
    MaxTools = 2
    MaxStreamBytes = 0
    Instances <- ToolInstances
    ServerAnswers <- TheAnswers
INVARIANT ToolSentOnce
