--------------------------- MODULE MCToolExecutor ---------------------------
(* Instances of ToolExecutor for TLC *)
EXTENDS ToolExecutor, TLC

CONSTANTS c1, c2

FileRead == [space |-> "builtin", name |-> "file_read"]
SearchA  == [space |-> "mcp", server |-> "a", name |-> "search"]
SearchB  == [space |-> "mcp", server |-> "b", name |-> "search"]

AllTools == {FileRead, SearchA, SearchB}
HungA == {SearchA}

(* A limit of zero in the configuration is the smallest limit there is. *)
ClosedA == (LaneOf(SearchA) :> 0)
=============================================================================
