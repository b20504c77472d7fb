--------------------------- MODULE MCAgentRuntime ---------------------------
(* What the provider answers in the instances of AgentRuntime *)
EXTENDS AgentRuntime

Tool(index, id, pieces) ==
    <<Chunk("tool start", index, id, "none")>>
    \o [i \in 1..Len(pieces) |-> Chunk("tool delta", index, id, pieces[i])]
ToolsEnd == Chunk("tool end", NoIndex, NoId, "none")

(* An answer; an answer that is never finished; a tool; two tools whose     *)
(* pieces arrive interleaved; a tool that is not ended; arguments that stop *)
(* halfway; one id twice; an argument for a tool that never started; more   *)
(* tools than there are slots                                               *)
SomeStreams ==
    { <<TextChunk, FinishedChunk>>, <<TextChunk>>,
      Tool(0, "a", <<"object">>) \o <<ToolsEnd, FinishedChunk>>,
      << Chunk("tool start", 0, "a", "none"), Chunk("tool start", 1, "b", "none"),
         Chunk("tool delta", 0, NoId, "half"), Chunk("tool delta", 1, NoId, "object"),
         Chunk("tool delta", 0, NoId, "rest"), ToolsEnd, FinishedChunk >>,
      Tool(0, "a", <<"object">>) \o <<FinishedChunk>>,
      Tool(0, "a", <<"half">>) \o <<ToolsEnd>>,
      Tool(0, "a", << >>) \o Tool(1, "a", << >>),
      Tool(0, "a", << >>) \o Tool(1, "b", << >>) \o Tool(2, "c", << >>),
      <<Chunk("tool delta", 1, NoId, "object")>> }

SomeResponses ==
    { [thinking |-> TRUE, text |-> TRUE, artifacts |-> FALSE, calls |-> << >>],
      [thinking |-> FALSE, text |-> FALSE, artifacts |-> TRUE,
       calls |-> <<[id |-> "a", args |-> "none"], [id |-> "b", args |-> "object"]>>] }
=============================================================================
