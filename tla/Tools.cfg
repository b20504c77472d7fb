SPECIFICATION Spec
CONSTANTS
    pipe = pipe  web = web  t1 = t1  t2 = t2  search = search  fetch = fetch
    Servers = {pipe, web}
    Serial = {pipe}
    Callers = {t1, t2}
    Loader = t1
    MaxCalls = 5
    Builtins <- ThreeBuiltins
    ListedTools = {search, fetch}
    MaxTools = 2
CHECK_DEADLOCK FALSE
INVARIANTS RepliesMatch SentWhenInitialised NoToolOutlivesItsServer
