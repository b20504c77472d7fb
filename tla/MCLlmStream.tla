---------------------------- MODULE MCLlmStream ----------------------------
(* An instance of LlmStream for TLC: every protocol on every platform for   *)
(* one caller, and two callers with short answers on the pools of ESP32.  *)
EXTENDS LlmStream

TheCallers == {"a", "b", "s", "t"}
TheUses == [c \in TheCallers |-> CASE c \in {"a", "b"} -> "stream" [] c = "s" -> "sync" [] OTHER -> "tool"]
ThePools == <<"llm_stream", "llm_sync", "local_api", "default">>

TheInstances ==
    [platform : {"posix", "windows", "freertos", "esp32"}, protocol : {"openai", "anthropic", "ollama"},
     clients : {{"a"}}]
    \cup [platform : {"posix", "windows", "freertos", "esp32"}, protocol : {"openai", "anthropic", "ollama"},
          clients : {{"s"}}]
    \cup [platform : {"posix", "windows", "freertos", "esp32"}, protocol : {"openai"}, clients : {{"t"}}]
    \cup [platform : {"esp32"}, protocol : {"ollama"}, clients : {{"a", "b"}, {"a", "t"}}]
ToolInstances == [platform : {"posix"}, protocol : {"openai"}, clients : {{"t"}}]

End(separator) == [i \in 1..Len(separator) |-> Token(separator[i])]
Framed(events, separator) ==
    FlattenSeq([i \in 1..Len(events) |-> Line(events[i]) \o End(separator)])

OpenAiTools ==
    << Event("choice", FALSE, FALSE, <<Tool(0, "x", TRUE, "half")>>, "none"),
       Event("choice", FALSE, FALSE, <<Tool(0, NoId, FALSE, "rest")>>, "tool_calls"),
       Plain("[DONE]") >>
OpenAiStop == <<Event("choice", TRUE, FALSE, << >>, "none"), Event("choice", FALSE, TRUE, << >>, "stop")>>
OpenAiLength == <<Event("choice", FALSE, FALSE, << >>, "length"), Plain("usage"), Plain("[DONE]")>>

AnthropicTools ==
    << Event("content_block_start", FALSE, FALSE, <<Tool(0, "x", TRUE, "none")>>, "none"),
       Event("content_block_delta", FALSE, FALSE, <<Tool(0, NoId, FALSE, "object")>>, "none"),
       Event("message_delta", FALSE, FALSE, << >>, "tool_use"), Plain("message_stop") >>
AnthropicText ==
    << Plain("message_start"), Event("content_block_delta", FALSE, TRUE, << >>, "none"),
       Event("message_delta", FALSE, FALSE, << >>, "end_turn"), Plain("message_stop") >>
AnthropicFailed == <<Plain("ping"), Plain("error")>>

OllamaTools ==
    << Event("message", TRUE, TRUE, << >>, "none"),
       Event("message", FALSE, FALSE, <<Tool(0, "x", TRUE, "object"), Tool(0, "y", TRUE, "object")>>, "none"),
       Plain("done") >>
OllamaText == <<Event("message", FALSE, TRUE, << >>, "none"), Event("done", FALSE, TRUE, << >>, "none")>>

SyncTools ==
    Event("answer", FALSE, FALSE, <<Tool(0, "x", TRUE, "object"), Tool(1, "y", TRUE, "none")>>, "none")
SyncText == Event("answer", TRUE, TRUE, << >>, "stop")

Ok(body) == [status |-> 200, body |-> body]
Refused == {[status |-> s, body |-> Line(Plain("error"))] : s \in {429, 503, 404}}

StreamBodies(p) ==
    CASE p = "openai" ->
            {Framed(e, x) : e \in {OpenAiTools, OpenAiStop, OpenAiLength}, x \in {BlankLine, BlankLineCR}}
      [] p = "anthropic" ->
            {FlattenSeq([i \in 1..Len(e) |-> <<Token("field"), Token("n")>> \o Line(e[i]) \o End(BlankLine)])
                : e \in {AnthropicTools, AnthropicText, AnthropicFailed}}
      [] OTHER -> {Framed(e, Newline) : e \in {OllamaTools, OllamaText}}
                  \cup {Framed(SubSeq(OllamaText, 1, 1), Newline) \o Line(OllamaText[2])}

TheAnswers(clients_, use, p) ==
    CASE use = "stream" /\ Cardinality(clients_) > 1 -> {Ok(Line(OllamaText[2]))}
      [] use = "stream" -> {Ok(b) : b \in StreamBodies(p)} \cup Refused
      [] use = "sync" -> {Ok(Line(e)) : e \in {SyncTools, SyncText, Plain("error")}} \cup Refused
      [] OTHER -> {Ok(<<Token("rest")>>), [status |-> 302, body |-> << >>]}

ASSUME AnswersAreUsable == ServerIsUsable
=============================================================================
