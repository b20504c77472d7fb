---------------------------- MODULE ToolRegistry ----------------------------
(***************************************************************************)
(* How the tools of a generation are put together and taken apart:         *)
(* build_tool_registry_for_config of the runtime builder, the registry     *)
(* (core/src/core/cc_tool_registry.c) with its fixed capacity, and         *)
(* cc_mcp_runtime_manager_load_tools, which connects to the configured     *)
(* servers, lists their tools and registers them.  While it builds, one    *)
(* thread calls the servers; once the registry is frozen and published     *)
(* every thread may call its tools.                                        *)
(*                                                                         *)
(* A tool is a record of its name and of the server it calls, if any.      *)
(***************************************************************************)
EXTENDS McpServer, FiniteSets

CONSTANTS
    Builtins,       \* sequence of the compiled built-in tools that are enabled
    ListedTools,    \* names of the tools a server lists
    MaxTools,       \* 64 in the code
    Loader          \* the thread that builds

ASSUME RegistryAssumption ==
    /\ MaxTools \in Nat /\ Loader \in Callers
    /\ IsFiniteSet(Servers) /\ IsFiniteSet(ListedTools) /\ "none" \notin Servers
    /\ Builtins \in Seq(Range(Builtins)) /\ IsInjective(Builtins)

VARIABLES
    registry,       \* sequence of the tools registered
    frozen,
    stage,          \* of the build: what is next
    left,           \* what is left to do in that stage
    made,           \* tools that were created
    destroyed       \* tools whose destroy ran, in order

regVars == <<registry, frozen, stage, left, made, destroyed>>
vars == <<mcpVars, regVars>>

ServerOrders == SetToSeqs(Servers)
Builtin(n) == [name |-> n, server |-> "none"]
McpTool(s, n) == [name |-> n, server |-> s]

Init ==
    /\ McpInit
    /\ registry = << >> /\ frozen = FALSE
    /\ stage = "builtin" /\ left = Builtins
    /\ made = {} /\ destroyed = << >>

(* cc_tool_registry_add *)
CanAdd == ~frozen /\ Len(registry) < MaxTools
Add(tool) == registry' = Append(registry, tool)

(* A tool the registry does not take is destroyed at once *)
AddOrDestroy(tool) ==
    IF CanAdd THEN Add(tool) /\ UNCHANGED destroyed
              ELSE destroyed' = Append(destroyed, tool) /\ UNCHANGED registry
-----------------------------------------------------------------------------
(* The built-in tools, in the order of the feature table *)

BuildFails ==
    /\ stage' = "undo" /\ left' = << >>

MakeBuiltin ==
    /\ stage = "builtin" /\ left # << >>
    /\ made' = made \cup {Builtin(Head(left))}
    /\ AddOrDestroy(Builtin(Head(left)))
    /\ IF CanAdd THEN stage' = "builtin" /\ left' = Tail(left) ELSE BuildFails
    /\ UNCHANGED <<frozen, mcpVars>>

(* Its factory fails, or makes nothing of it *)
BuiltinFails ==
    /\ stage = "builtin" /\ left # << >>
    /\ \/ BuildFails
       \/ stage' = "builtin" /\ left' = Tail(left)
    /\ UNCHANGED <<registry, frozen, made, destroyed, mcpVars>>

(* The plugins are the application's; they may fail the build *)
LoadPlugins ==
    /\ stage = "builtin" /\ left = << >>
    /\ \/ stage' = "mcp" /\ left' \in ServerOrders
       \/ BuildFails
    /\ UNCHANGED <<registry, frozen, made, destroyed, mcpVars>>
-----------------------------------------------------------------------------
(* cc_mcp_runtime_manager_load_tools, one server after the other.  What    *)
(* goes wrong with a server is noted in the diagnostics, and the next one  *)
(* follows.                                                                *)

NextServer == left' = Tail(left) /\ UNCHANGED stage

(* server_runtime_create fails: no transport *)
ServerUnavailable ==
    /\ stage = "mcp" /\ left # << >> /\ At(Loader, "idle")
    /\ NextServer
    /\ UNCHANGED <<registry, frozen, made, destroyed, mcpVars>>

Connect ==
    /\ stage = "mcp" /\ left # << >> /\ At(Loader, "idle")
    /\ server' = [server EXCEPT ![Head(left)].life = "alive"]
    /\ Go(Loader, Called(Head(left), "initialize", "list"))
    /\ UNCHANGED <<link, regVars>>

(* A server that does not initialise is destroyed, one that does is kept   *)
InitializeOver ==
    /\ At(Loader, "over") /\ caller[Loader].then = "list"
    /\ IF caller[Loader].ok
       THEN /\ Go(Loader, Called(Head(left), "tools/list", "register"))
            /\ UNCHANGED <<server, left>>
       ELSE /\ server' = [server EXCEPT ![Head(left)].life = "destroyed"]
            /\ Go(Loader, Idle)
            /\ left' = Tail(left)
    /\ UNCHANGED <<link, registry, frozen, stage, made, destroyed>>

(* register_mcp_tool makes a tool and adds it, for each of the list up to   *)
(* the first that the registry does not take, which is destroyed; the rest  *)
(* is not made.  The server stays whatever happens.                         *)
RegisterMutant(s, list) ==
    LET n == IF Len(registry) + Len(list) <= MaxTools THEN Len(list) ELSE MaxTools - Len(registry)
        tools == [i \in 1..Len(list) |-> McpTool(s, list[i])] IN
    /\ registry' = registry \o SubSeq(tools, 1, n)
    /\ made' = made \cup {tools[i] : i \in 1..(IF n < Len(list) THEN n + 1 ELSE n)}
    /\ UNCHANGED <<destroyed, server>>

Register(s, list) ==
    LET n == IF Len(registry) + Len(list) <= MaxTools THEN Len(list) ELSE MaxTools - Len(registry)
        taken == [i \in 1..n |-> McpTool(s, list[i])] IN
    /\ registry' = registry \o taken
    /\ IF n < Len(list)
       THEN LET refused == McpTool(s, list[n + 1]) IN
            made' = made \cup Range(taken) \cup {refused} /\ destroyed' = Append(destroyed, refused)
       ELSE made' = made \cup Range(taken) /\ UNCHANGED destroyed
    /\ UNCHANGED server

ListOver ==
    /\ At(Loader, "over") /\ caller[Loader].then = "register"
    /\ IF caller[Loader].ok
       THEN \E names \in SUBSET ListedTools : \E list \in SetToSeqs(names) :
                Register(caller[Loader].server, list)
       ELSE UNCHANGED <<registry, made, destroyed, server>>
    /\ NextServer
    /\ Go(Loader, Idle)
    /\ UNCHANGED <<link, frozen>>

FreezeRegistry ==
    /\ stage = "mcp" /\ left = << >> /\ At(Loader, "idle")
    /\ frozen' = TRUE
    /\ stage' = "published"
    /\ UNCHANGED <<registry, left, made, destroyed, mcpVars>>
-----------------------------------------------------------------------------
(* Use.  cc_tool_registry_find takes the first tool of the name; the call  *)
(* goes to its server, and an outcome of any kind is the tool's result.    *)

Find(name) == LET is == {i \in 1..Len(registry) : registry[i].name = name} IN
              registry[CHOOSE i \in is : \A j \in is : i <= j]

CallTool(c) ==
    /\ stage = "published" /\ At(c, "idle")
    /\ \E i \in 1..Len(registry) :
        LET tool == Find(registry[i].name) IN
        /\ tool.server # "none"
        /\ Go(c, Called(tool.server, "tools/call", "result"))
    /\ UNCHANGED <<server, link, regVars>>

ToolResult(c) ==
    /\ At(c, "over") /\ caller[c].then = "result"
    /\ Go(c, Idle)
    /\ UNCHANGED <<server, link, regVars>>

(* destroy_tool_build_state, and runtime_generation_destroy once nobody    *)
(* holds the generation: first the tools, then the servers                 *)
Retire ==
    /\ stage = "published" /\ \A c \in Callers : At(c, "idle")
    /\ stage' = "undo"
    /\ UNCHANGED <<registry, frozen, left, made, destroyed, mcpVars>>

DestroyRegistry ==
    /\ stage = "undo"
    /\ destroyed' = destroyed \o registry
    /\ registry' = << >>
    /\ stage' = "servers"
    /\ UNCHANGED <<frozen, left, made, mcpVars>>

DestroyServers ==
    /\ stage = "servers"
    /\ server' = [s \in Servers |-> IF server[s].life = "alive"
                                    THEN [server[s] EXCEPT !.life = "destroyed"] ELSE server[s]]
    /\ stage' = "gone"
    /\ UNCHANGED <<registry, frozen, left, made, destroyed, link, caller>>

Next ==
    \/ MakeBuiltin \/ BuiltinFails \/ LoadPlugins
    \/ ServerUnavailable \/ Connect \/ InitializeOver \/ ListOver \/ FreezeRegistry
    \/ \E c \in Callers : CallTool(c) \/ ToolResult(c)
    \/ Retire \/ DestroyRegistry \/ DestroyServers
    \/ McpNext /\ UNCHANGED regVars

Spec == Init /\ [][Next]_vars
-----------------------------------------------------------------------------
(* No tool in the registry calls a server that is gone, through every      *)
(* failure of a server, of its list or of the registry's capacity, and     *)
(* through teardown; every tool that was made is in the registry or was    *)
(* destroyed, once, so that each was destroyed exactly once when all is    *)
(* gone (register_created_tool, register_mcp_tool, list_server_tools,      *)
(* server_runtime_destroy, destroy_tool_build_state).                      *)
NoToolOutlivesItsServer ==
    /\ \A i \in 1..Len(registry) :
          registry[i].server # "none" => server[registry[i].server].life = "alive"
    /\ \A c \in Callers : ~At(c, "idle") => server[caller[c].server].life = "alive"
    /\ made = Range(registry) \cup Range(destroyed) /\ IsInjective(registry \o destroyed)
    /\ stage = "gone" => registry = << >> /\ \A s \in Servers : server[s].life # "alive"
    /\ Len(registry) <= MaxTools
    /\ stage = "published" => frozen
=============================================================================
