--------------------------- MODULE CapabilityGuard ---------------------------
(***************************************************************************)
(* handlers/protocol_capabilities.go: what a request needs of a backend,   *)
(* and the request made fit for a backend without parallel tool calls.     *)
(* Whether it is a stream is left out, and so is the need of parallel      *)
(* calls, which no backend is turned down for.                              *)
(***************************************************************************)
EXTENDS IntermediateForm

Features == {"tools", "reasoning", "json_schema", "vision", "parallel_tool_calls"}

requestUsesTools(dialect, request) ==
  \/ request.tools # {}
  \/ dialect = "anthropic" /\ request.choice # NoChoice

requestUsesReasoning(request) == request.reasoning # Absent

requestUsesJSONSchema(request) == request.schema = "json_schema"

\* By the name of its type an Anthropic document is neither image nor file.
usesVision(content) ==
  content.list /\ \E i \in DOMAIN content.parts :
    content.parts[i].type \in (ImageTypes \union FileTypes) \ {"document"}

requestUsesVision(request) ==
  \E i \in DOMAIN request.messages : usesVision(request.messages[i].content)

deriveCapabilityRequirements(dialect, request) ==
  {f \in Features :
     \/ f = "tools" /\ requestUsesTools(dialect, request)
     \/ f = "reasoning" /\ requestUsesReasoning(request)
     \/ f = "json_schema" /\ requestUsesJSONSchema(request)
     \/ f = "vision" /\ requestUsesVision(request)}

filterConfigsByCapabilities(configs, required) ==
  {b \in DOMAIN configs : required \subseteq configs[b].supports}

normalizeParallelToolCallsTopLevel(request, dialect) ==
  [request EXCEPT !.parallel = IF @ = "absent" THEN @ ELSE "off"]

normalizeParallelToolCallsRawBody(request, dialect) ==
  CASE dialect = "anthropic" /\ request.choice # NoChoice ->
         [request EXCEPT !.choice.parallel = "off"]
    [] dialect # "anthropic" /\ request.parallel # "absent" ->
         [request EXCEPT !.parallel = "off"]
    [] OTHER -> request

normalizeEnvelopeForConfig(request, config, dialect) ==
  IF "parallel_tool_calls" \in config.supports THEN request
  ELSE normalizeParallelToolCallsRawBody(request, dialect)
=============================================================================
