--------------------------- MODULE MCConversation ---------------------------
(* Two backends of different dialects, each dialect once as the first: the *)
(* first lacks one feature, the second none.                               *)
EXTENDS Conversation

Config(upstream, lacking) == [upstream |-> upstream,
                              supports |-> Features \ lacking]
MCPools ==
  {[b1 |-> Config(pair[1], {lacking}), b2 |-> Config(pair[2], {})] :
     pair \in {<<"chat", "responses">>, <<"responses", "anthropic">>,
              <<"anthropic", "chat">>},
     lacking \in {"parallel_tool_calls", "vision", "tools"}}

Setting(system, tools, choice, parallel, schema, reasoning, maxTokens) ==
  [system |-> system, tools |-> tools, choice |-> choice, parallel |-> parallel,
   schema |-> schema, reasoning |-> reasoning, maxTokens |-> maxTokens]
MCSettings ==
  {Setting("string", {"function"}, TRUE, "on", "json_schema", TRUE, 5),
   Setting("list", {"function", "builtin"}, TRUE, "absent", Absent, FALSE, 0),
   Setting("none", {"builtin"}, TRUE, "on", "json_object", FALSE, 5)}

Says(thinking, tagged, text, calls, finish) ==
  [thinking |-> thinking, tagged |-> tagged, text |-> text, calls |-> calls,
   finish |-> finish]
MCAnswers ==
  {Says(FALSE, FALSE, TRUE, 0, "stop"), Says(TRUE, TRUE, TRUE, 0, "length"),
   Says(TRUE, FALSE, TRUE, 1, "stop"), Says(FALSE, FALSE, FALSE, 2, "stop"),
   Says(FALSE, FALSE, FALSE, 0, "stop")}
=============================================================================
