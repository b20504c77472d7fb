------------------------------ MODULE MCTools ------------------------------
(* An instance of ToolRegistry for TLC *)
EXTENDS ToolRegistry

CONSTANTS pipe, web, t1, t2, search, fetch

ThreeBuiltins == <<"file_read", "file_write", "memory">>
=============================================================================
