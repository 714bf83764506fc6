-------------------------- MODULE StreamRelayProofs --------------------------
(***************************************************************************)
(* Proofs about StreamRelay, for answers of any length and every route.    *)
(*                                                                         *)
(* StreamInv is inductive.  Its parts follow the answer on its way: the    *)
(* frames the provider can send next (ReaderInv), the words the client has *)
(* of those said (WordsInv), the end it is told of (EndInv), the finish    *)
(* reason (FinishInv), the forced stream (AggregateInv).  First come the   *)
(* client's reading of one frame and of several, then what each translator *)
(* makes of a frame, then the steps.  Two more invariants stand on it: the *)
(* words that are logged (KeptInv) and the end that must be told           *)
(* (ToldEndInv).                                                           *)
(***************************************************************************)
EXTENDS StreamRelay, FiniteSetTheorems, TLAPS

AnthropicFold == INSTANCE FoldInduction WITH Op <- AnthropicClient
ChatFold == INSTANCE FoldInduction WITH Op <- ChatClient
ResponsesFold == INSTANCE FoldInduction WITH Op <- ResponsesClient
ChatCallFold == INSTANCE FoldInduction WITH Op <- chatCall
-----------------------------------------------------------------------------
(* What a frame tells of the answer: a piece of text or thinking, a finish *)
(* reason, the end.                                                        *)

textOf(d, f) ==
  CASE d = "chat" -> IF f.event = "chunk" THEN f.content ELSE None
    [] d = "responses" ->
         IF f.event = "response.output_text.delta" THEN f.piece ELSE None
    [] OTHER -> IF f.event = "content_block_delta" /\ f.kind = "text"
                THEN f.piece ELSE None

thinkingOf(d, f) ==
  CASE d = "chat" -> IF f.event = "chunk" THEN f.reasoning ELSE None
    [] d = "responses" -> None
    [] OTHER -> IF f.event = "content_block_delta" /\ f.kind = "thinking"
                THEN f.piece ELSE None

reasonOf(d, f) ==
  CASE d = "chat" -> IF f.event = "chunk" THEN f.finish ELSE ""
    [] d = "responses" -> ""
    [] OTHER -> IF f.event = "message_delta" THEN f.reason ELSE ""

endOf(d, f) ==
  f.event = IF d = "anthropic" THEN "message_stop" ELSE "[DONE]"

fewTools(f) == f.tools = <<>> \/ \E call : f.tools = <<call>>

\* The frames of the three dialects, as far as the proofs look at them.
known(d, f) ==
  CASE d = "chat" ->
         \/ f = Done
         \/ /\ f.event = "chunk" /\ fewTools(f)
            /\ f.choices \in {0, 1}
            /\ f.choices = 0 => /\ f.content = None /\ f.reasoning = None
                                /\ f.finish = ""
    [] d = "responses" ->
         \/ f = Done
         \/ /\ f.event \in {"response.created", "response.output_item.added",
                            "response.output_item.done",
                            "response.output_text.delta",
                            "response.reasoning_summary_text.delta",
                            "response.function_call_arguments.delta",
                            "response.completed", "response.incomplete"}
            /\ f.event = "response.output_text.delta" =>
                 f.piece # None /\ f.kind = "text"
            /\ f.event = "response.function_call_arguments.delta" =>
                 f.piece # None /\ f.kind = "function_call"
    [] OTHER ->
         /\ f.event \in {"message_start", "content_block_start",
                         "content_block_delta", "content_block_stop",
                         "message_delta", "message_stop"}
         /\ f.event = "content_block_delta" =>
              f.piece # None /\ f.kind \in {"text", "thinking", "tool_use"}
         /\ f.event = "message_delta" => f.reason # ""
-----------------------------------------------------------------------------
(* What a client hears.                                                    *)

isView(c) ==
  {"text", "thinking", "finish", "ended"} \subseteq DOMAIN c /\ c.ended \in Nat

\* From view c to view d: this text, thinking, reason, and so many ends.
hears(c, d, text, thinking, reason, ends) ==
  /\ isView(d)
  /\ d.text = append(c.text, text)
  /\ d.thinking = append(c.thinking, thinking)
  /\ d.finish = IF reason = "" THEN c.finish ELSE Append(c.finish, reason)
  /\ d.ended = IF ends THEN c.ended + 1 ELSE c.ended

hearsNothing(c, d) ==
  /\ isView(d)
  /\ d.text = c.text /\ d.thinking = c.thinking
  /\ d.finish = c.finish /\ d.ended = c.ended

LEMMA NothingHeard ==
  ASSUME NEW c, isView(c), NEW d
  PROVE  hearsNothing(c, d) <=> hears(c, d, None, None, "", FALSE)
BY DEF hears, hearsNothing, isView, append, None

LEMMA HearingOn ==
  ASSUME NEW c, NEW d, hearsNothing(c, d), NEW e, NEW t, NEW q, NEW r, NEW n
  PROVE  /\ hears(d, e, t, q, r, n) => hears(c, e, t, q, r, n)
         /\ hears(e, c, t, q, r, n) => hears(e, d, t, q, r, n)
         /\ hearsNothing(d, e) => hearsNothing(c, e)
BY DEF hears, hearsNothing, isView

LEMMA BlameTellsNothing ==
  ASSUME NEW c, isView(c), NEW broken, NEW fault
  PROVE  hearsNothing(c, blame(c, broken, fault))
BY DEF blame, hears, hearsNothing, isView, append, None

LEMMA CallsTellNothing ==
  ASSUME NEW c, isView(c), NEW key, NEW id, NEW p
  PROVE  hearsNothing(c, announce(c, key, id)) /\ hearsNothing(c, addArguments(c, key, p))
<1>1. hearsNothing(c, announce(c, key, id))
  <2> DEFINE b == blame(c, id \in DOMAIN c.args, "call announced twice")
  <2>1. hearsNothing(c, b)
    BY BlameTellsNothing
  <2> HIDE DEF b
  <2>2. announce(c, key, id) = [b EXCEPT !.ids = put(@, key, id),
                                         !.args = put(@, id, <<>>)]
    BY DEF announce, b
  <2>3. hearsNothing(b, announce(c, key, id))
    BY <2>1, <2>2 DEF hears, hearsNothing, isView, append, None
  <2> QED  BY <2>1, <2>3, HearingOn
<1>2. hearsNothing(c, addArguments(c, key, p))
  BY BlameTellsNothing, ZenonT(30) DEF addArguments, hears, hearsNothing, isView, append, None
<1> QED  BY <1>1, <1>2

LEMMA ViewChanges ==
  ASSUME NEW c, isView(c), NEW x
  PROVE  /\ hearsNothing(c, [c EXCEPT !.open = x])
         /\ hearsNothing(c, [c EXCEPT !.begun = x])
         /\ hearsNothing(c, [c EXCEPT !.usage = x])
         /\ hearsNothing(c, [c EXCEPT !.faults = x])
         /\ hearsNothing(c, c)
BY DEF hearsNothing, isView

LEMMA EndHeard ==
  ASSUME NEW c, isView(c)
  PROVE  hears(c, [c EXCEPT !.ended = @ + 1], None, None, "", TRUE)
<1> DEFINE d == [c EXCEPT !.ended = @ + 1]
<1>1. DOMAIN d = DOMAIN c /\ d.ended = c.ended + 1
  BY DEF isView
<1>2. d.text = c.text /\ d.thinking = c.thinking /\ d.finish = c.finish
  BY DEF isView
<1> HIDE DEF d
<1>3. isView(d)
  BY <1>1 DEF isView
<1>4. hears(c, d, None, None, "", TRUE)
  BY <1>1, <1>2, <1>3 DEF hears, append, None
<1> QED  BY <1>4 DEF d

LEMMA ReasonHeard ==
  ASSUME NEW c, isView(c), NEW r, r # ""
  PROVE  hears(c, [c EXCEPT !.finish = Append(@, r)], None, None, r, FALSE)
<1> DEFINE d == [c EXCEPT !.finish = Append(@, r)]
<1>1. DOMAIN d = DOMAIN c /\ d.ended = c.ended
  BY DEF isView
<1>2. d.text = c.text /\ d.thinking = c.thinking /\ d.finish = Append(c.finish, r)
  BY DEF isView
<1> HIDE DEF d
<1>3. isView(d)
  BY <1>1 DEF isView
<1>4. hears(c, d, None, None, r, FALSE)
  BY <1>1, <1>2, <1>3 DEF hears, append, None
<1> QED  BY <1>4 DEF d

\* An item or a block that starts says nothing yet.
LEMMA StartTellsNothing ==
  ASSUME NEW c, isView(c), NEW e
  PROVE  /\ hearsNothing(c, anthropicBlockStart(c, e))
         /\ hearsNothing(c, responsesItemAdded(c, e))
<1>1. ASSUME NEW f, hearsNothing(c, f), NEW call \in BOOLEAN, NEW o
      PROVE  hearsNothing(c, [(IF call THEN announce(f, e.index, e.id) ELSE f)
                                EXCEPT !.open = o])
  <2> DEFINE g == IF call THEN announce(f, e.index, e.id) ELSE f
  <2>1. isView(f)
    BY <1>1 DEF hearsNothing
  <2>2. hearsNothing(f, announce(f, e.index, e.id)) /\ hearsNothing(f, f)
    BY <2>1, CallsTellNothing, ViewChanges
  <2>3. hearsNothing(f, g)
    BY <2>2
  <2>4. hearsNothing(c, g) /\ isView(g)
    BY <1>1, <2>3, HearingOn DEF hearsNothing
  <2> HIDE DEF g
  <2>5. hearsNothing(g, [g EXCEPT !.open = o])
    BY <2>4, ViewChanges
  <2>6. hearsNothing(c, [g EXCEPT !.open = o])
    BY <2>4, <2>5, HearingOn
  <2> QED  BY <2>6 DEF g
<1>2. hearsNothing(c, anthropicBlockStart(c, e))
  <2> DEFINE f == blame(c, isOpen(c, e.index), "block started twice")
  <2>1. hearsNothing(c, f)
    BY DEF blame, hearsNothing, isView
  <2> HIDE DEF f
  <2>2. (e.kind = "tool_use") \in BOOLEAN
    OBVIOUS
  <2>3. \A o : hearsNothing(c, [(IF e.kind = "tool_use"
                                THEN announce(f, e.index, e.id) ELSE f)
                               EXCEPT !.open = o])
    BY <1>1, <2>1, <2>2
  <2> QED  BY <2>3 DEF anthropicBlockStart, f
<1>3. hearsNothing(c, responsesItemAdded(c, e))
  <2> DEFINE f == blame(c, isOpen(c, e.index), "item added twice")
  <2>1. hearsNothing(c, f)
    BY DEF blame, hearsNothing, isView
  <2> HIDE DEF f
  <2>2. (e.kind = "function_call") \in BOOLEAN
    OBVIOUS
  <2>3. \A o : hearsNothing(c, [(IF e.kind = "function_call"
                                THEN announce(f, e.index, e.id) ELSE f)
                               EXCEPT !.open = o])
    BY <1>1, <2>1, <2>2
  <2> QED  BY <2>3 DEF responsesItemAdded, f
<1> QED  BY <1>2, <1>3

\* A piece is heard under its kind, whatever rule it breaks.
LEMMA PieceHeard ==
  ASSUME NEW c, isView(c), NEW kind, NEW key, NEW p, p # None
  PROVE  hears(c, addPiece(c, kind, key, p), IF kind = "text" THEN p ELSE None,
               IF kind = "thinking" THEN p ELSE None, "", FALSE)
<1>1. CASE kind = "text"
  BY <1>1 DEF addPiece, hears, isView, append, None
<1>2. CASE kind = "thinking"
  BY <1>2 DEF addPiece, hears, isView, append, None
<1>3. CASE kind \notin {"text", "thinking"}
  <2>1. addPiece(c, kind, key, p) = addArguments(c, key, p)
    BY <1>3 DEF addPiece
  <2> QED  BY <1>3, <2>1, CallsTellNothing, NothingHeard
<1> QED  BY <1>1, <1>2, <1>3
-----------------------------------------------------------------------------
(* Each client hears what an event of its dialect tells.                   *)

LEMMA AnthropicHears ==
  ASSUME NEW c, isView(c), NEW e,
         e.event = "content_block_delta" =>
           e.piece # None /\ e.kind \in {"text", "thinking", "tool_use"},
         e.event = "message_delta" => e.reason # ""
  PROVE  hears(c, AnthropicClient(c, e), textOf("anthropic", e),
               thinkingOf("anthropic", e), reasonOf("anthropic", e),
               endOf("anthropic", e))
<1> DEFINE b == blame(c, c.begun <=> e.event = "message_start",
                      "message_start not first")
           d == AnthropicClient(c, e)
           heard(x) == hears(x, d, textOf("anthropic", e),
                             thinkingOf("anthropic", e),
                             reasonOf("anthropic", e), endOf("anthropic", e))
<1>1. hearsNothing(c, b) /\ isView(b)
  BY DEF blame, hearsNothing, isView
<1> HIDE DEF b
<1> SUFFICES heard(b)
  BY <1>1, HearingOn
<1> USE DEF textOf, thinkingOf, reasonOf, endOf
<1>2. CASE e.event = "message_start"
  <2>1. d = [b EXCEPT !.begun = TRUE]
    BY <1>2 DEF AnthropicClient, b
  <2> QED  BY <1>1, <1>2, <2>1, ViewChanges, NothingHeard
<1>3. CASE e.event = "content_block_start"
  <2>1. d = anthropicBlockStart(b, e)
    BY <1>3 DEF AnthropicClient, b
  <2> QED  BY <1>1, <1>3, <2>1, StartTellsNothing, NothingHeard
<1>4. CASE e.event = "content_block_delta"
  <2>1. d = anthropicBlockDelta(b, e)
    BY <1>4 DEF AnthropicClient, b
  <2>2. PICK x : hearsNothing(b, x) /\ d = addPiece(x, e.kind, e.index, e.piece)
    <3> DEFINE y == blame(b, ~(isOpen(b, e.index) /\ b.open[e.index] = e.kind),
                          "delta outside of its block")
               x == blame(y, e.kind = "text" /\ \E key \in DOMAIN b.open :
                               b.open[key] = "thinking", "text inside thinking")
    <3>1. hearsNothing(b, y) /\ isView(y)
      BY <1>1 DEF blame, hearsNothing, isView
    <3> HIDE DEF y
    <3>2. hearsNothing(y, x)
      BY <3>1 DEF blame, hearsNothing, isView
    <3>3. d = addPiece(x, e.kind, e.index, e.piece)
      BY <2>1 DEF anthropicBlockDelta, y
    <3> QED  BY <3>1, <3>2, <3>3, HearingOn
  <2>3. isView(x)
    BY <2>2 DEF hearsNothing
  <2>4. heard(x)
    BY <1>4, <2>2, <2>3, PieceHeard
  <2> QED  BY <2>2, <2>4, HearingOn
<1>5. CASE e.event = "content_block_stop"
  <2>1. d = [blame(b, ~isOpen(b, e.index), "stop of no block") EXCEPT
               !.open = closeKey(@, e.index)]
    BY <1>5 DEF AnthropicClient, b
  <2>2. hearsNothing(b, d)
    BY <1>1, <2>1 DEF blame, hearsNothing, isView
  <2> QED  BY <1>1, <1>5, <2>2, NothingHeard
<1>6. CASE e.event = "message_delta"
  <2>1. d = [b EXCEPT !.finish = Append(@, e.reason), !.usage = e.usage]
    BY <1>6 DEF AnthropicClient, b
  <2>2. /\ textOf("anthropic", e) = None /\ thinkingOf("anthropic", e) = None
        /\ reasonOf("anthropic", e) = e.reason /\ endOf("anthropic", e) = FALSE
    BY <1>6
  <2> HIDE DEF textOf, thinkingOf, reasonOf, endOf
  <2> DEFINE x == [b EXCEPT !.finish = Append(@, e.reason)]
  <2>3. hears(b, x, None, None, e.reason, FALSE)
    BY <1>1, <1>6, ReasonHeard
  <2>4. isView(x)
    BY <2>3 DEF hears
  <2>5. d = [x EXCEPT !.usage = e.usage]
    BY <2>1
  <2> HIDE DEF x
  <2>6. hearsNothing(x, d)
    BY <2>4, <2>5, ViewChanges, ZenonT(30)
  <2>7. hears(b, d, None, None, e.reason, FALSE)
    BY <2>3, <2>6, HearingOn
  <2> QED  BY <2>2, <2>7
<1>7. CASE e.event = "message_stop"
  <2>1. d = [blame(b, DOMAIN b.open # {}, "block never stopped") EXCEPT
               !.ended = @ + 1]
    BY <1>7 DEF AnthropicClient, b
  <2>2. /\ textOf("anthropic", e) = None /\ thinkingOf("anthropic", e) = None
        /\ reasonOf("anthropic", e) = "" /\ endOf("anthropic", e) = TRUE
    BY <1>7
  <2> HIDE DEF textOf, thinkingOf, reasonOf, endOf
  <2> DEFINE x == blame(b, DOMAIN b.open # {}, "block never stopped")
  <2>3. hearsNothing(b, x) /\ isView(x)
    BY <1>1 DEF blame, hearsNothing, isView
  <2> HIDE DEF x
  <2>4. d = [x EXCEPT !.ended = @ + 1]
    BY <2>1 DEF x
  <2>5. hears(x, d, None, None, "", TRUE)
    BY <2>3, <2>4, EndHeard
  <2>6. hears(b, d, None, None, "", TRUE)
    BY <2>3, <2>5, HearingOn
  <2> QED  BY <2>2, <2>6
<1>8. CASE e.event \notin {"message_start", "content_block_start",
                          "content_block_delta", "content_block_stop",
                          "message_delta", "message_stop"}
  <2>1. d = blame(b, TRUE, "foreign event")
    BY <1>8 DEF AnthropicClient, b
  <2>2. hearsNothing(b, d)
    BY <1>1, <2>1 DEF blame, hearsNothing, isView
  <2> QED  BY <1>1, <1>8, <2>2, NothingHeard
<1> QED  BY <1>2, <1>3, <1>4, <1>5, <1>6, <1>7, <1>8

LEMMA ChatCallTellsNothing ==
  ASSUME NEW c, isView(c), NEW call
  PROVE  hearsNothing(c, chatCall(c, call))
<1> DEFINE d == IF call.id # None /\ call.index \notin DOMAIN c.ids
                THEN announce(c, call.index, call.id) ELSE c
<1>1. hearsNothing(c, announce(c, call.index, call.id)) /\ hearsNothing(c, c)
  BY CallsTellNothing, ViewChanges
<1>2. hearsNothing(c, d) /\ isView(d)
  BY <1>1 DEF hearsNothing
<1> HIDE DEF d
<1>3. hearsNothing(d, addArguments(d, call.index, call.args))
  BY <1>2, CallsTellNothing
<1>4. hearsNothing(c, addArguments(d, call.index, call.args))
  BY <1>2, <1>3, HearingOn
<1> QED  BY <1>2, <1>4 DEF chatCall, d

LEMMA ChatCallsAre == \A c, calls : chatCalls(c, calls) = ChatCallFold!fold(c, calls)
BY DEF chatCalls, ChatCallFold!fold, FoldLeft, ChatCallFold!FoldLeft,
       MapThenFoldSet, ChatCallFold!MapThenFoldSet, Max, ChatCallFold!Max

LEMMA ChatCallsTellNothing ==
  ASSUME NEW c, isView(c), NEW f, fewTools(f)
  PROVE  hearsNothing(c, chatCalls(c, f.tools))
<1>1. CASE f.tools = <<>>
  BY <1>1, ChatCallsAre, ChatCallFold!FoldEmpty, ViewChanges
<1>2. ASSUME NEW call, f.tools = <<call>>
      PROVE  hearsNothing(c, chatCalls(c, f.tools))
  BY <1>2, ChatCallsAre, ChatCallFold!FoldOne, ChatCallTellsNothing
<1> QED  BY <1>1, <1>2 DEF fewTools

LEMMA ChatHears ==
  ASSUME NEW c, isView(c), NEW e, known("chat", e)
  PROVE  hears(c, ChatClient(c, e), textOf("chat", e), thinkingOf("chat", e),
               reasonOf("chat", e), endOf("chat", e))
<1> DEFINE late == blame(c, c.ended > 0, "event after [DONE]")
           b == blame(late, /\ c.finish # <<>>
                            /\ e.event = "chunk"
                            /\ e.choices > 0, "choice after its finish reason")
           d == ChatClient(c, e)
<1>1. hearsNothing(c, late) /\ isView(late)
  BY DEF blame, hearsNothing, isView
<1> HIDE DEF late
<1>2. hearsNothing(late, b) /\ isView(b)
  BY <1>1 DEF blame, hearsNothing, isView
<1>3. hearsNothing(c, b)
  BY <1>1, <1>2, HearingOn
<1> HIDE DEF b
<1>4. CASE e = Done
  <2>0. e.event = "[DONE]"
    BY <1>4 DEF Done
  <2>1. d = [b EXCEPT !.ended = @ + 1]
    BY <2>0 DEF ChatClient, b, late
  <2>2. hears(b, d, None, None, "", TRUE)
    BY <1>2, <2>1, EndHeard
  <2>3. hears(c, d, None, None, "", TRUE)
    BY <1>3, <2>2, HearingOn
  <2> QED  BY <1>4, <2>3 DEF Done, textOf, thinkingOf, reasonOf, endOf
<1>5. CASE e.event = "chunk"
  <2> DEFINE begun == [blame(b, ~b.begun /\ ~e.role, "no role first") EXCEPT
                         !.begun = TRUE]
             content == IF e.content = None THEN begun
                        ELSE addPiece(begun, "text", 0, e.content)
             thinking == IF e.reasoning = None THEN content
                         ELSE addPiece(content, "thinking", 0, e.reasoning)
             calls == chatCalls(thinking, e.tools)
             finish == IF e.finish = "" THEN calls
                       ELSE [calls EXCEPT !.finish = Append(@, e.finish)]
  <2>1. hearsNothing(b, begun) /\ isView(begun)
    BY <1>2 DEF blame, hearsNothing, isView
  <2>2. d = IF e.usage # NoUsage THEN [finish EXCEPT !.usage = e.usage] ELSE finish
    <3>1. d = chatChunk(b, e)
      BY <1>5 DEF ChatClient, b, late
    <3> HIDE DEF d, b
    <3> QED  BY <3>1 DEF chatChunk
  <2> HIDE DEF begun
  <2>3. hears(begun, content, e.content, None, "", FALSE)
    BY <2>1, PieceHeard, NothingHeard, ViewChanges
  <2>4. isView(content)
    BY <2>3 DEF hears
  <2> HIDE DEF content
  <2>5. hears(content, thinking, None, e.reasoning, "", FALSE)
    BY <2>4, PieceHeard, NothingHeard, ViewChanges
  <2>6. isView(thinking)
    BY <2>5 DEF hears
  <2> HIDE DEF thinking
  <2>0. fewTools(e)
    <3>1. e # Done
      BY <1>5 DEF Done
    <3> QED  BY <3>1 DEF known
  <2>7. hearsNothing(thinking, calls)
    BY <2>0, <2>6, ChatCallsTellNothing
  <2>8. isView(calls)
    BY <2>7 DEF hearsNothing
  <2> HIDE DEF calls
  <2>9. hears(calls, finish, None, None, e.finish, FALSE)
    BY <2>8, ReasonHeard, NothingHeard, ViewChanges
  <2>10. isView(finish)
    BY <2>9 DEF hears
  <2> HIDE DEF finish
  <2>11. hearsNothing(finish, d)
    <3>1. \A u : hearsNothing(finish, [finish EXCEPT !.usage = u])
      BY <2>10, ViewChanges
    <3>2. hearsNothing(finish, finish)
      BY <2>10, ViewChanges
    <3> QED  BY <2>2, <3>1, <3>2
  <2> HIDE DEF d
  <2>12. /\ d.text = append(c.text, e.content)
         /\ d.thinking = append(c.thinking, e.reasoning)
    BY <1>3, <2>1, <2>3, <2>5, <2>7, <2>9, <2>11 DEF hears, hearsNothing, append, None
  <2>13. /\ isView(d)
         /\ d.finish = IF e.finish = "" THEN c.finish ELSE Append(c.finish, e.finish)
         /\ d.ended = c.ended
    BY <1>3, <2>1, <2>3, <2>5, <2>7, <2>9, <2>11 DEF hears, hearsNothing
  <2>14. hears(c, d, e.content, e.reasoning, e.finish, FALSE)
    BY <2>12, <2>13 DEF hears
  <2> QED  BY <1>5, <2>14 DEF textOf, thinkingOf, reasonOf, endOf, d
<1> QED  BY <1>4, <1>5 DEF known

LEMMA ResponsesHears ==
  ASSUME NEW c, isView(c), NEW e,
         e.event = "response.output_text.delta" => e.piece # None /\ e.kind = "text",
         e.event = "response.function_call_arguments.delta" =>
           e.kind = "function_call" /\ e.piece # None
  PROVE  hears(c, ResponsesClient(c, e), textOf("responses", e),
               thinkingOf("responses", e), reasonOf("responses", e),
               endOf("responses", e))
<1> DEFINE late == blame(c, c.ended > 0, "event after [DONE]")
           seen == blame(late, e.event # "[DONE]" /\ e.seq # None /\ e.seq < c.seq,
                         "sequence number goes back")
           b == [seen EXCEPT !.begun = TRUE,
                             !.seq = IF e.event = "[DONE]" THEN @ ELSE e.seq]
           k == blame(b, e.event # "[DONE]" /\ ~isOpen(b, e.index),
                      "event of no item")
           d == ResponsesClient(c, e)
<1>1. hearsNothing(c, late) /\ isView(late)
  BY DEF blame, hearsNothing, isView
<1> HIDE DEF late
<1>2. hearsNothing(late, seen) /\ isView(seen)
  BY <1>1 DEF blame, hearsNothing, isView
<1> HIDE DEF seen
<1>3. hearsNothing(seen, b) /\ isView(b)
  BY <1>2 DEF hearsNothing, isView
<1> HIDE DEF b
<1>4. hearsNothing(b, k) /\ isView(k)
  BY <1>3 DEF blame, hearsNothing, isView
<1> HIDE DEF k
<1>5. hearsNothing(c, b) /\ hearsNothing(c, k)
  BY <1>1, <1>2, <1>3, <1>4, HearingOn
<1>6. CASE e.event = "[DONE]"
  <2>1. d = [b EXCEPT !.ended = @ + 1]
    BY <1>6 DEF ResponsesClient, b, seen, late
  <2>2. hears(b, d, None, None, "", TRUE)
    BY <1>3, <2>1, EndHeard
  <2>3. hears(c, d, None, None, "", TRUE)
    BY <1>5, <2>2, HearingOn
  <2> QED  BY <1>6, <2>3 DEF textOf, thinkingOf, reasonOf, endOf
<1>7. CASE e.event = "response.output_text.delta"
  <2>0. e.kind = "text" /\ e.piece # None
    BY <1>7
  <2>1. d = addPiece(k, e.kind, e.index, e.piece)
    BY <1>7 DEF ResponsesClient, k, b, seen, late
  <2>2. hears(k, d, e.piece, None, "", FALSE)
    <3>1. hears(k, d, IF e.kind = "text" THEN e.piece ELSE None,
                IF e.kind = "thinking" THEN e.piece ELSE None, "", FALSE)
      BY <1>4, <2>0, <2>1, PieceHeard
    <3> QED  BY <2>0, <3>1
  <2>3. hears(c, d, e.piece, None, "", FALSE)
    BY <1>5, <2>2, HearingOn
  <2> QED  BY <1>7, <2>3 DEF textOf, thinkingOf, reasonOf, endOf
<1>8. ASSUME e.event \notin {"[DONE]", "response.output_text.delta"}
      PROVE  hearsNothing(c, d)
  <2>1. CASE e.event = "response.output_item.added"
    <3>1. d = responsesItemAdded(b, e)
      BY <2>1 DEF ResponsesClient, b, seen, late
    <3>2. hearsNothing(b, d)
      BY <1>3, <3>1, StartTellsNothing
    <3> QED  BY <1>5, <3>2, HearingOn
  <2>2. CASE e.event = "response.function_call_arguments.delta"
    <3>1. d = addArguments(k, e.index, e.piece)
      BY <2>2 DEF ResponsesClient, addPiece, k, b, seen, late
    <3>2. hearsNothing(k, d)
      BY <1>4, <3>1, CallsTellNothing
    <3> QED  BY <1>5, <3>2, HearingOn
  <2>3. CASE e.event \in {"response.output_text.done", "response.content_part.done",
                          "response.function_call_arguments.done"}
    <3>1. d = blame(k, e.full # assembled(b, e), "done differs from deltas")
      BY <2>3 DEF ResponsesClient, k, b, seen, late
    <3>2. hearsNothing(k, d)
      BY <1>4, <3>1 DEF blame, hearsNothing, isView
    <3> QED  BY <1>5, <3>2, HearingOn
  <2>4. CASE e.event = "response.output_item.done"
    <3>1. d = [k EXCEPT !.open = closeKey(@, e.index)]
      BY <2>4 DEF ResponsesClient, k, b, seen, late
    <3>2. hearsNothing(k, d)
      BY <1>4, <3>1, ViewChanges
    <3> QED  BY <1>5, <3>2, HearingOn
  <2>5. CASE e.event = "response.completed"
    <3>1. d = [b EXCEPT !.completed = @ + 1,
                        !.usage = IF e.usage = NoUsage THEN @ ELSE e.usage]
      BY <2>5 DEF ResponsesClient, b, seen, late
    <3>2. hearsNothing(b, d)
      BY <1>3, <3>1 DEF hearsNothing, isView
    <3> QED  BY <1>5, <3>2, HearingOn
  <2>6. CASE e.event \notin {"response.output_item.added",
                             "response.function_call_arguments.delta",
                             "response.output_text.done",
                             "response.content_part.done",
                             "response.function_call_arguments.done",
                             "response.output_item.done", "response.completed"}
    <3>1. d = b
      BY <1>8, <2>6 DEF ResponsesClient, b, seen, late
    <3> QED  BY <1>5, <3>1
  <2> QED  BY <2>1, <2>2, <2>3, <2>4, <2>5, <2>6
<1>9. CASE e.event \notin {"[DONE]", "response.output_text.delta"}
  BY <1>8, <1>9, NothingHeard DEF textOf, thinkingOf, reasonOf, endOf
<1> QED  BY <1>6, <1>7, <1>9
-----------------------------------------------------------------------------
(* Several events.                                                         *)

isSeq(s) == \E S : s \in Seq(S)

LEMMA SequencesGrow ==
  /\ isSeq(<<>>)
  /\ \A s, e : isSeq(s) => isSeq(Append(s, e))
<1>1. isSeq(<<>>)
  <2>1. <<>> \in Seq({})
    OBVIOUS
  <2> QED  BY <2>1 DEF isSeq
<1>2. ASSUME NEW s, NEW e, isSeq(s)
      PROVE  isSeq(Append(s, e))
  <2>1. PICK S : s \in Seq(S)
    BY <1>2 DEF isSeq
  <2>2. Append(s, e) \in Seq(S \union {e})
    <3>1. s \in Seq(S \union {e})
      BY <2>1
    <3> QED  BY <3>1
  <2> QED  BY <2>2 DEF isSeq
<1> QED  BY <1>1, <1>2

LEMMA EmitsFirst == \A e : Append(<<>>, e) = <<e>>
OBVIOUS

LEMMA EmitsSecond == \A x, e : Append(<<x>>, e) = <<x, e>>
<1> TAKE x, e
<1> DEFINE t == Append(<<x>>, e)
<1>1. <<x>> \in Seq({x, e}) /\ Len(<<x>>) = 1 /\ <<x>>[1] = x
  OBVIOUS
<1>2. t \in Seq({x, e}) /\ Len(t) = 2 /\ t[1] = x /\ t[2] = e
  BY <1>1
<1>3. /\ <<x, e>> \in Seq({x, e}) /\ Len(<<x, e>>) = 2
      /\ <<x, e>>[1] = x /\ <<x, e>>[2] = e
  OBVIOUS
<1> HIDE DEF t
<1>4. t = <<x, e>>
  BY <1>2, <1>3
<1> QED  BY <1>4 DEF t

LEMMA ReadsAre ==
  /\ \A c, s : AnthropicReads(c, s) = AnthropicFold!fold(c, s)
  /\ \A c, s : ChatReads(c, s) = ChatFold!fold(c, s)
  /\ \A c, s : ResponsesReads(c, s) = ResponsesFold!fold(c, s)
<1>1. \A c, s : AnthropicReads(c, s) = AnthropicFold!fold(c, s)
  BY DEF AnthropicReads, AnthropicFold!fold, FoldLeft, AnthropicFold!FoldLeft,
         MapThenFoldSet, AnthropicFold!MapThenFoldSet, Max, AnthropicFold!Max
<1>2. \A c, s : ChatReads(c, s) = ChatFold!fold(c, s)
  BY DEF ChatReads, ChatFold!fold, FoldLeft, ChatFold!FoldLeft,
         MapThenFoldSet, ChatFold!MapThenFoldSet, Max, ChatFold!Max
<1>3. \A c, s : ResponsesReads(c, s) = ResponsesFold!fold(c, s)
  BY DEF ResponsesReads, ResponsesFold!fold, FoldLeft, ResponsesFold!FoldLeft,
         MapThenFoldSet, ResponsesFold!MapThenFoldSet, Max, ResponsesFold!Max
<1> QED  BY <1>1, <1>2, <1>3

LEMMA ReadsAppend ==
  ASSUME NEW c, NEW s, isSeq(s), NEW e
  PROVE  /\ AnthropicReads(c, Append(s, e)) = AnthropicClient(AnthropicReads(c, s), e)
         /\ ChatReads(c, Append(s, e)) = ChatClient(ChatReads(c, s), e)
         /\ ResponsesReads(c, Append(s, e)) = ResponsesClient(ResponsesReads(c, s), e)
<1>1. PICK S : s \in Seq(S)
  BY DEF isSeq
<1>2. s \in Seq(S \union {e}) /\ e \in S \union {e}
  BY <1>1
<1>3. /\ AnthropicFold!fold(c, Append(s, e)) = AnthropicClient(AnthropicFold!fold(c, s), e)
      /\ ChatFold!fold(c, Append(s, e)) = ChatClient(ChatFold!fold(c, s), e)
      /\ ResponsesFold!fold(c, Append(s, e)) = ResponsesClient(ResponsesFold!fold(c, s), e)
  BY <1>2, AnthropicFold!FoldAppend, ChatFold!FoldAppend, ResponsesFold!FoldAppend
<1> QED  BY <1>3, ReadsAre

LEMMA ReadsShort ==
  ASSUME NEW c, NEW e
  PROVE  /\ AnthropicReads(c, <<>>) = c /\ AnthropicReads(c, <<e>>) = AnthropicClient(c, e)
         /\ ChatReads(c, <<>>) = c /\ ChatReads(c, <<e>>) = ChatClient(c, e)
         /\ ResponsesReads(c, <<>>) = c
         /\ ResponsesReads(c, <<e>>) = ResponsesClient(c, e)
BY ReadsAre, AnthropicFold!FoldEmpty, ChatFold!FoldEmpty, ResponsesFold!FoldEmpty,
   AnthropicFold!FoldOne, ChatFold!FoldOne, ResponsesFold!FoldOne
-----------------------------------------------------------------------------
(* What the translator to Anthropic tells.                                 *)

outbound(s) ==
  /\ {"MessageStarted", "TextStarted", "ReasoningStarted", "ToolBlocks",
      "PendingFinish", "PendingUsage", "out"} \subseteq DOMAIN s
  /\ isSeq(s.out)

seen(c, s) == AnthropicReads(c, s.out)

pendingKept(s, t) ==
  t.PendingFinish = s.PendingFinish /\ t.PendingUsage = s.PendingUsage

toldNothing(c, s, t) ==
  outbound(t) /\ hearsNothing(seen(c, s), seen(c, t)) /\ pendingKept(s, t)

LEMMA AnthropicTelling ==
  ASSUME NEW c, NEW s, NEW t, NEW u
  PROVE  /\ outbound(s) /\ isView(seen(c, s)) => toldNothing(c, s, s)
         /\ toldNothing(c, s, t) /\ toldNothing(c, t, u) => toldNothing(c, s, u)
         /\ toldNothing(c, s, t) => outbound(t) /\ isView(seen(c, t))
BY ViewChanges, HearingOn DEF toldNothing, pendingKept, hearsNothing

LEMMA AnthropicEmit ==
  ASSUME NEW c, NEW s, outbound(s), isView(seen(c, s)), NEW e, known("anthropic", e)
  PROVE  /\ outbound(emit(s, e)) /\ pendingKept(s, emit(s, e))
         /\ hears(seen(c, s), seen(c, emit(s, e)), textOf("anthropic", e),
                  thinkingOf("anthropic", e), reasonOf("anthropic", e),
                  endOf("anthropic", e))
<1>1. emit(s, e).out = Append(s.out, e) /\ DOMAIN emit(s, e) = DOMAIN s
  BY DEF emit, outbound
<1>2. outbound(emit(s, e))
  BY <1>1, SequencesGrow DEF outbound
<1>3. pendingKept(s, emit(s, e))
  BY DEF emit, outbound, pendingKept
<1>4. seen(c, emit(s, e)) = AnthropicClient(seen(c, s), e)
  BY <1>1, ReadsAppend DEF seen, outbound
<1>5. /\ e.event = "content_block_delta" =>
           e.piece # None /\ e.kind \in {"text", "thinking", "tool_use"}
      /\ e.event = "message_delta" => e.reason # ""
  BY DEF known
<1> QED  BY <1>2, <1>3, <1>4, <1>5, AnthropicHears

\* Events that say nothing.
quietEvent(e) ==
  \/ e.event \in {"message_start", "content_block_start", "content_block_stop"}
  \/ e.event = "content_block_delta" /\ e.kind = "tool_use" /\ e.piece # None

LEMMA QuietEmit ==
  ASSUME NEW c, NEW s, outbound(s), isView(seen(c, s)), NEW e, quietEvent(e)
  PROVE  toldNothing(c, s, emit(s, e))
<1>1. known("anthropic", e)
  BY DEF known, quietEvent
<1>2. /\ textOf("anthropic", e) = None /\ thinkingOf("anthropic", e) = None
      /\ reasonOf("anthropic", e) = "" /\ endOf("anthropic", e) = FALSE
  BY DEF textOf, thinkingOf, reasonOf, endOf, quietEvent
<1>3. /\ outbound(emit(s, e)) /\ pendingKept(s, emit(s, e))
      /\ hears(seen(c, s), seen(c, emit(s, e)), None, None, "", FALSE)
  BY <1>1, <1>2, AnthropicEmit
<1> QED  BY <1>3, NothingHeard DEF toldNothing

LEMMA StateChanges ==
  ASSUME NEW c, NEW s, outbound(s), isView(seen(c, s)), NEW x
  PROVE  /\ toldNothing(c, s, [s EXCEPT !.MessageStarted = x])
         /\ toldNothing(c, s, [s EXCEPT !.TextStarted = x])
         /\ toldNothing(c, s, [s EXCEPT !.ReasoningStarted = x])
         /\ toldNothing(c, s, [s EXCEPT !.ToolBlocks = x])
BY ViewChanges DEF toldNothing, outbound, seen, pendingKept

LEMMA EventsTellNothing ==
  /\ \A usage : quietEvent(MessageStart(usage))
  /\ \A index, kind, id : quietEvent(BlockStart(index, kind, id))
  /\ \A index : quietEvent(BlockStop(index))
  /\ \A index, p : p # None => quietEvent(BlockDelta(index, "tool_use", p))
BY DEF quietEvent, MessageStart, BlockStart, BlockStop, BlockDelta

LEMMA BlocksTellNothing ==
  ASSUME NEW c, NEW s, outbound(s), isView(seen(c, s))
  PROVE  /\ toldNothing(c, s, ensureStart(s)) /\ toldNothing(c, s, startText(s))
         /\ toldNothing(c, s, stopText(s)) /\ toldNothing(c, s, stopThinking(s))
<1>1. ASSUME NEW cond \in BOOLEAN, NEW e, quietEvent(e)
      PROVE  /\ toldNothing(c, s, emitIf(cond, s, e))
             /\ outbound(emitIf(cond, s, e)) /\ isView(seen(c, emitIf(cond, s, e)))
  <2>1. toldNothing(c, s, emitIf(cond, s, e))
    BY <1>1, QuietEmit, AnthropicTelling DEF emitIf
  <2> QED  BY <2>1, AnthropicTelling
<1>2. ASSUME NEW t, toldNothing(c, s, t), outbound(t), isView(seen(c, t)), NEW x
      PROVE  /\ toldNothing(c, s, [t EXCEPT !.MessageStarted = x])
             /\ toldNothing(c, s, [t EXCEPT !.TextStarted = x])
             /\ toldNothing(c, s, [t EXCEPT !.ReasoningStarted = x])
  BY <1>2, StateChanges, AnthropicTelling
<1>3. toldNothing(c, s, ensureStart(s))
  <2> DEFINE t == emitIf(~s.MessageStarted, s, MessageStart(NoUsage))
  <2>1. quietEvent(MessageStart(NoUsage)) /\ (~s.MessageStarted) \in BOOLEAN
    BY EventsTellNothing
  <2>2. toldNothing(c, s, t) /\ outbound(t) /\ isView(seen(c, t))
    BY <1>1, <2>1
  <2> HIDE DEF t
  <2>3. toldNothing(c, s, [t EXCEPT !.MessageStarted = TRUE])
    BY <1>2, <2>2
  <2> QED  BY <2>3 DEF ensureStart, t
<1>4. toldNothing(c, s, startText(s))
  <2> DEFINE t == emitIf(~s.TextStarted, s, BlockStart(0, "text", None))
  <2>1. quietEvent(BlockStart(0, "text", None)) /\ (~s.TextStarted) \in BOOLEAN
    BY EventsTellNothing
  <2>2. toldNothing(c, s, t) /\ outbound(t) /\ isView(seen(c, t))
    BY <1>1, <2>1
  <2> HIDE DEF t
  <2>3. toldNothing(c, s, [t EXCEPT !.TextStarted = TRUE])
    BY <1>2, <2>2
  <2> QED  BY <2>3 DEF startText, t
<1>5. toldNothing(c, s, stopText(s))
  <2> DEFINE t == emitIf(s.TextStarted, s, BlockStop(0))
  <2>1. quietEvent(BlockStop(0))
    BY EventsTellNothing
  <2>2. toldNothing(c, s, t)
    BY <2>1, QuietEmit, AnthropicTelling DEF emitIf
  <2>3. outbound(t) /\ isView(seen(c, t))
    BY <2>2, AnthropicTelling
  <2> HIDE DEF t
  <2>4. toldNothing(c, s, [t EXCEPT !.TextStarted = FALSE])
    BY <1>2, <2>2, <2>3
  <2> QED  BY <2>4 DEF stopText, t
<1>6. toldNothing(c, s, stopThinking(s))
  <2> DEFINE t == emitIf(s.ReasoningStarted, s, BlockStop(1))
  <2>1. quietEvent(BlockStop(1))
    BY EventsTellNothing
  <2>2. toldNothing(c, s, t)
    BY <2>1, QuietEmit, AnthropicTelling DEF emitIf
  <2>3. outbound(t) /\ isView(seen(c, t))
    BY <2>2, AnthropicTelling
  <2> HIDE DEF t
  <2>4. toldNothing(c, s, [t EXCEPT !.ReasoningStarted = FALSE])
    BY <1>2, <2>2, <2>3
  <2> QED  BY <2>4 DEF stopThinking, t
<1> QED  BY <1>3, <1>4, <1>5, <1>6

StopToolFold == INSTANCE FoldInduction WITH Op <- stopTool

LEMMA StopToolsTellNothing ==
  ASSUME NEW c, NEW s, outbound(s), isView(seen(c, s)), NEW order, isSeq(order)
  PROVE  toldNothing(c, s, stopTools(s, order))
<1>1. \A t : stopTools(s, t) = StopToolFold!fold(s, t)
  BY DEF stopTools, StopToolFold!fold, FoldLeft, StopToolFold!FoldLeft,
         MapThenFoldSet, StopToolFold!MapThenFoldSet, Max, StopToolFold!Max
<1>2. PICK E : order \in Seq(E)
  BY DEF isSeq
<1> DEFINE Z == {t \in Seq(E) : toldNothing(c, s, StopToolFold!fold(s, t))}
<1>3. <<>> \in Z
  BY StopToolFold!FoldEmpty, AnthropicTelling
<1>4. ASSUME NEW t \in Seq(E), NEW index \in E, t \in Z
      PROVE  Append(t, index) \in Z
  <2> DEFINE x == StopToolFold!fold(s, t)
  <2>1. toldNothing(c, s, x)
    BY <1>4
  <2>2. outbound(x) /\ isView(seen(c, x))
    BY <2>1, AnthropicTelling
  <2>3. StopToolFold!fold(s, Append(t, index)) = stopTool(x, index)
    BY StopToolFold!FoldAppend
  <2> HIDE DEF x
  <2>4. quietEvent(BlockStop(index + 2))
    BY EventsTellNothing
  <2>5. toldNothing(c, x, stopTool(x, index))
    BY <2>2, <2>4, QuietEmit DEF stopTool
  <2>6. toldNothing(c, s, stopTool(x, index))
    BY <2>1, <2>5, AnthropicTelling
  <2> QED  BY <2>3, <2>6
<1>5. Seq(E) \subseteq Z
  <2> HIDE DEF Z
  <2> QED  BY <1>3, <1>4, StopToolFold!SeqSetInduction
<1> QED  BY <1>1, <1>2, <1>5

\* From s to t the client hears this text and this thinking.
tells(c, s, t, text, thinking) ==
  /\ outbound(t) /\ isView(seen(c, t)) /\ pendingKept(s, t)
  /\ hears(seen(c, s), seen(c, t), text, thinking, "", FALSE)

LEMMA TellingOn ==
  ASSUME NEW c, NEW s, NEW t, NEW u, NEW text, NEW thinking
  PROVE  /\ toldNothing(c, s, t) => tells(c, s, t, None, None)
         /\ toldNothing(c, s, t) /\ tells(c, t, u, text, thinking) =>
              tells(c, s, u, text, thinking)
         /\ tells(c, s, t, text, thinking) /\ toldNothing(c, t, u) =>
              tells(c, s, u, text, thinking)
         /\ tells(c, s, t, None, thinking) /\ tells(c, t, u, text, None) =>
              tells(c, s, u, text, thinking)
<1>1. toldNothing(c, s, t) => tells(c, s, t, None, None)
  BY DEF toldNothing, tells, hears, hearsNothing, append, None
<1>2. toldNothing(c, s, t) /\ tells(c, t, u, text, thinking) =>
        tells(c, s, u, text, thinking)
  BY HearingOn DEF toldNothing, tells, pendingKept
<1>3. tells(c, s, t, text, thinking) /\ toldNothing(c, t, u) =>
        tells(c, s, u, text, thinking)
  BY HearingOn DEF toldNothing, tells, pendingKept, hearsNothing
<1>4. tells(c, s, t, None, thinking) /\ tells(c, t, u, text, None) =>
        tells(c, s, u, text, thinking)
  BY DEF tells, hears, pendingKept, append, None
<1> QED  BY <1>1, <1>2, <1>3, <1>4

LEMMA DeltaTells ==
  ASSUME NEW c, NEW s, outbound(s), isView(seen(c, s)), NEW piece, piece # None
  PROVE  /\ tells(c, s, emit(s, BlockDelta(0, "text", piece)), piece, None)
         /\ tells(c, s, emit(s, BlockDelta(1, "thinking", piece)), None, piece)
         /\ \A index : tells(c, s, emit(s, BlockDelta(index, "tool_use", piece)),
                             None, None)
<1>1. ASSUME NEW index, NEW kind \in {"text", "thinking", "tool_use"}
      PROVE  tells(c, s, emit(s, BlockDelta(index, kind, piece)),
                   IF kind = "text" THEN piece ELSE None,
                   IF kind = "thinking" THEN piece ELSE None)
  <2> DEFINE e == BlockDelta(index, kind, piece)
  <2>1. /\ known("anthropic", e) /\ reasonOf("anthropic", e) = ""
        /\ endOf("anthropic", e) = FALSE
        /\ textOf("anthropic", e) = (IF kind = "text" THEN piece ELSE None)
        /\ thinkingOf("anthropic", e) = (IF kind = "thinking" THEN piece ELSE None)
    BY DEF BlockDelta, known, textOf, thinkingOf, reasonOf, endOf
  <2> HIDE DEF e
  <2>2. /\ outbound(emit(s, e)) /\ pendingKept(s, emit(s, e))
        /\ hears(seen(c, s), seen(c, emit(s, e)), textOf("anthropic", e),
                 thinkingOf("anthropic", e), "", FALSE)
    BY <2>1, AnthropicEmit
  <2>3. isView(seen(c, emit(s, e)))
    BY <2>2 DEF hears
  <2> QED  BY <2>1, <2>2, <2>3 DEF tells, e
<1>2. ASSUME NEW index
      PROVE  /\ tells(c, s, emit(s, BlockDelta(index, "text", piece)), piece, None)
             /\ tells(c, s, emit(s, BlockDelta(index, "thinking", piece)), None, piece)
             /\ tells(c, s, emit(s, BlockDelta(index, "tool_use", piece)), None, None)
  BY <1>1
<1> QED  BY <1>2

LEMMA FromReasoningTells ==
  ASSUME NEW c, NEW s, outbound(s), isView(seen(c, s)), NEW piece
  PROVE  tells(c, s, fromReasoning(s, piece), None, piece)
<1>1. CASE piece = None
  BY <1>1, AnthropicTelling, TellingOn DEF fromReasoning
<1>2. CASE piece # None
  <2> DEFINE t == emitIf(~s.ReasoningStarted, s, BlockStart(1, "thinking", None))
             u == [t EXCEPT !.ReasoningStarted = TRUE]
  <2>1. quietEvent(BlockStart(1, "thinking", None))
    BY EventsTellNothing
  <2>2. toldNothing(c, s, t)
    BY <2>1, QuietEmit, AnthropicTelling DEF emitIf
  <2>3. outbound(t) /\ isView(seen(c, t))
    BY <2>2, AnthropicTelling
  <2> HIDE DEF t
  <2>4. toldNothing(c, t, u)
    BY <2>3, StateChanges
  <2>5. fromReasoning(s, piece) = emit(u, BlockDelta(1, "thinking", piece))
    BY <1>2 DEF fromReasoning, t
  <2> HIDE DEF u
  <2>6. toldNothing(c, s, u) /\ outbound(u) /\ isView(seen(c, u))
    BY <2>2, <2>4, AnthropicTelling
  <2>7. tells(c, u, emit(u, BlockDelta(1, "thinking", piece)), None, piece)
    BY <1>2, <2>6, DeltaTells
  <2> QED  BY <2>5, <2>6, <2>7, TellingOn
<1> QED  BY <1>1, <1>2

LEMMA FromContentTells ==
  ASSUME NEW c, NEW s, outbound(s), isView(seen(c, s)), NEW piece
  PROVE  tells(c, s, fromContent(s, piece), piece, None)
<1>1. CASE piece = None
  BY <1>1, AnthropicTelling, TellingOn DEF fromContent
<1>2. CASE piece # None
  <2> DEFINE t == stopThinking(s)
             u == startText(t)
  <2>1. toldNothing(c, s, t) /\ outbound(t) /\ isView(seen(c, t))
    BY BlocksTellNothing, AnthropicTelling
  <2>2. fromContent(s, piece) = emit(u, BlockDelta(0, "text", piece))
    BY <1>2 DEF fromContent
  <2> HIDE DEF t
  <2>3. toldNothing(c, t, u)
    BY <2>1, BlocksTellNothing
  <2> HIDE DEF u
  <2>4. toldNothing(c, s, u) /\ outbound(u) /\ isView(seen(c, u))
    BY <2>1, <2>3, AnthropicTelling
  <2>5. tells(c, u, emit(u, BlockDelta(0, "text", piece)), piece, None)
    BY <1>2, <2>4, DeltaTells
  <2> QED  BY <2>2, <2>4, <2>5, TellingOn
<1> QED  BY <1>1, <1>2

LEMMA FromToolCallTellsNothing ==
  ASSUME NEW c, NEW s, outbound(s), isView(seen(c, s)), NEW call
  PROVE  tells(c, s, fromToolCall(s, call), None, None)
<1> DEFINE t == emitIf(call.index \notin s.ToolBlocks, s,
                       BlockStart(call.index + 2, "tool_use", call.id))
           u == [t EXCEPT !.ToolBlocks = @ \union {call.index}]
           e == BlockDelta(call.index + 2, "tool_use", call.args)
<1>1. quietEvent(BlockStart(call.index + 2, "tool_use", call.id))
  BY EventsTellNothing
<1>2. toldNothing(c, s, t)
  BY <1>1, QuietEmit, AnthropicTelling DEF emitIf
<1>3. outbound(t) /\ isView(seen(c, t))
  BY <1>2, AnthropicTelling
<1> HIDE DEF t
<1>4. toldNothing(c, t, u)
  BY <1>3, StateChanges
<1>5. fromToolCall(s, call) = IF call.args # None THEN emit(u, e) ELSE u
  BY DEF fromToolCall, emitIf, t
<1> HIDE DEF u
<1>6. toldNothing(c, s, u) /\ outbound(u) /\ isView(seen(c, u))
  BY <1>2, <1>4, AnthropicTelling
<1>7. call.args # None => tells(c, u, emit(u, e), None, None)
  BY <1>6, DeltaTells
<1> QED  BY <1>5, <1>6, <1>7, TellingOn

ToolCallFold == INSTANCE FoldInduction WITH Op <- fromToolCall

LEMMA FromToolCallsTellNothing ==
  ASSUME NEW c, NEW s, outbound(s), isView(seen(c, s)), NEW f, fewTools(f)
  PROVE  tells(c, s, fromToolCalls(s, f.tools), None, None)
<1>1. \A t : fromToolCalls(s, t) = ToolCallFold!fold(s, t)
  BY DEF fromToolCalls, ToolCallFold!fold, FoldLeft, ToolCallFold!FoldLeft,
         MapThenFoldSet, ToolCallFold!MapThenFoldSet, Max, ToolCallFold!Max
<1>2. CASE f.tools = <<>>
  BY <1>1, <1>2, ToolCallFold!FoldEmpty, AnthropicTelling, TellingOn
<1>3. ASSUME NEW call, f.tools = <<call>>
      PROVE  tells(c, s, fromToolCalls(s, f.tools), None, None)
  BY <1>1, <1>3, ToolCallFold!FoldOne, FromToolCallTellsNothing
<1> QED  BY <1>2, <1>3 DEF fewTools

LEMMA FromChatChunkTells ==
  ASSUME NEW c, NEW s, outbound(s), isView(seen(c, s)), NEW f, known("chat", f),
         f # Done, NEW t, t = AnthropicFramesFromChatChunk(s, f)
  PROVE  /\ outbound(t)
         /\ hears(seen(c, s), seen(c, t), f.content, f.reasoning, "", FALSE)
         /\ t.PendingFinish = IF f.finish = "" THEN s.PendingFinish ELSE f.finish
<1> DEFINE x1 == ensureStart(s)
           x2 == fromReasoning(x1, f.reasoning)
           x3 == fromContent(x2, f.content)
           x4 == fromToolCalls(x3, f.tools)
           x5 == IF f.finish = "" THEN x4 ELSE [x4 EXCEPT !.PendingFinish = f.finish]
<1>0. t = IF f.usage = NoUsage THEN x5 ELSE [x5 EXCEPT !.PendingUsage = f.usage]
  BY DEF AnthropicFramesFromChatChunk
<1>1. toldNothing(c, s, x1) /\ outbound(x1) /\ isView(seen(c, x1))
  BY BlocksTellNothing, AnthropicTelling
<1> HIDE DEF x1
<1>2. tells(c, x1, x2, None, f.reasoning) /\ outbound(x2) /\ isView(seen(c, x2))
  BY <1>1, FromReasoningTells DEF tells
<1> HIDE DEF x2
<1>3. tells(c, x2, x3, f.content, None) /\ outbound(x3) /\ isView(seen(c, x3))
  BY <1>2, FromContentTells DEF tells
<1> HIDE DEF x3
<1>4. fewTools(f)
  BY DEF known
<1>5. tells(c, x3, x4, None, None)
  BY <1>3, <1>4, FromToolCallsTellNothing
<1> HIDE DEF x4
<1>6. tells(c, x1, x3, f.content, f.reasoning)
  BY <1>2, <1>3, TellingOn
<1>7. tells(c, s, x3, f.content, f.reasoning)
  BY <1>1, <1>6, TellingOn
<1>8. /\ outbound(x4) /\ pendingKept(s, x4)
      /\ hears(seen(c, s), seen(c, x4), f.content, f.reasoning, "", FALSE)
  BY <1>5, <1>7 DEF tells, pendingKept, hears, append, None
<1>9. /\ outbound(x5) /\ seen(c, x5) = seen(c, x4)
      /\ x5.PendingFinish = IF f.finish = "" THEN s.PendingFinish ELSE f.finish
  BY <1>8 DEF outbound, seen, pendingKept
<1> HIDE DEF x5
<1>10. /\ outbound(t) /\ seen(c, t) = seen(c, x5)
       /\ t.PendingFinish = x5.PendingFinish
  BY <1>0, <1>9 DEF outbound, seen
<1> QED  BY <1>8, <1>9, <1>10

\* The reason a flush tells, if any.
reasonPending(s) ==
  IF s.PendingFinish # "" \/ s.PendingUsage # NoUsage
  THEN anthropicStopReasonFromChatFinish(s.PendingFinish) ELSE ""

LEMMA FlushTells ==
  ASSUME NEW c, NEW s, outbound(s), isView(seen(c, s)), NEW order, isSeq(order),
         NEW t, t = flushAnthropicFinish(s, order)
  PROVE  /\ outbound(t)
         /\ hears(seen(c, s), seen(c, t), None, None, reasonPending(s), TRUE)
         /\ t.PendingFinish = "" /\ t.PendingUsage = NoUsage
<1> DEFINE x1 == stopText(s)
           x2 == stopThinking(x1)
           x3 == stopTools(x2, order)
           x4 == [x3 EXCEPT !.ToolBlocks = {}]
           pending == s.PendingFinish # "" \/ s.PendingUsage # NoUsage
           delta == MessageDelta(anthropicStopReasonFromChatFinish(s.PendingFinish),
                                 s.PendingUsage)
           x5 == emitIf(pending, x4, delta)
           x6 == [x5 EXCEPT !.PendingFinish = "", !.PendingUsage = NoUsage]
<1>0. t = emit(x6, MessageStop)
  BY DEF flushAnthropicFinish
<1>1. toldNothing(c, s, x1) /\ outbound(x1) /\ isView(seen(c, x1))
  BY BlocksTellNothing, AnthropicTelling
<1> HIDE DEF x1
<1>2. toldNothing(c, x1, x2) /\ outbound(x2) /\ isView(seen(c, x2))
  BY <1>1, BlocksTellNothing, AnthropicTelling
<1> HIDE DEF x2
<1>3. toldNothing(c, x2, x3) /\ outbound(x3) /\ isView(seen(c, x3))
  BY <1>2, StopToolsTellNothing, AnthropicTelling
<1> HIDE DEF x3
<1>4. toldNothing(c, x3, x4)
  BY <1>3, StateChanges
<1> HIDE DEF x4
<1>5. toldNothing(c, s, x4) /\ outbound(x4) /\ isView(seen(c, x4))
  BY <1>1, <1>2, <1>3, <1>4, AnthropicTelling
<1>6. /\ known("anthropic", delta) /\ delta.reason # ""
      /\ textOf("anthropic", delta) = None /\ thinkingOf("anthropic", delta) = None
      /\ reasonOf("anthropic", delta) = anthropicStopReasonFromChatFinish(s.PendingFinish)
      /\ endOf("anthropic", delta) = FALSE
  BY DEF MessageDelta, known, textOf, thinkingOf, reasonOf, endOf,
         anthropicStopReasonFromChatFinish
<1> HIDE DEF delta
<1>7. /\ outbound(x5)
      /\ hears(seen(c, x4), seen(c, x5), None, None, reasonPending(s), FALSE)
  <2>1. CASE pending
    <3>1. x5 = emit(x4, delta)
      BY <2>1 DEF emitIf
    <3>2. reasonPending(s) = reasonOf("anthropic", delta)
      BY <1>6, <2>1 DEF reasonPending
    <3> QED  BY <1>5, <1>6, <3>1, <3>2, AnthropicEmit
  <2>2. CASE ~pending
    <3>1. x5 = x4 /\ reasonPending(s) = ""
      BY <2>2 DEF emitIf, reasonPending
    <3> QED  BY <1>5, <3>1, NothingHeard, ViewChanges
  <2> QED  BY <2>1, <2>2
<1> HIDE DEF x5
<1>8. /\ outbound(x6) /\ seen(c, x6) = seen(c, x5)
      /\ x6.PendingFinish = "" /\ x6.PendingUsage = NoUsage
  BY <1>7 DEF outbound, seen
<1> HIDE DEF x6
<1>9. isView(seen(c, x6))
  BY <1>7, <1>8 DEF hears
<1>10. /\ known("anthropic", MessageStop)
       /\ textOf("anthropic", MessageStop) = None
       /\ thinkingOf("anthropic", MessageStop) = None
       /\ reasonOf("anthropic", MessageStop) = ""
       /\ endOf("anthropic", MessageStop) = TRUE
  BY DEF MessageStop, known, textOf, thinkingOf, reasonOf, endOf
<1>11. /\ outbound(t) /\ pendingKept(x6, t)
       /\ hears(seen(c, x6), seen(c, t), None, None, "", TRUE)
  BY <1>0, <1>8, <1>9, <1>10, AnthropicEmit
<1>12. hears(seen(c, x4), seen(c, t), None, None, reasonPending(s), TRUE)
  BY <1>7, <1>8, <1>11 DEF hears, append, None
<1>13. hears(seen(c, s), seen(c, t), None, None, reasonPending(s), TRUE)
  BY <1>5, <1>12, HearingOn DEF toldNothing
<1> QED  BY <1>8, <1>11, <1>13 DEF pendingKept

LEMMA ItemAddedTellsNothing ==
  ASSUME NEW c, NEW s, outbound(s), isView(seen(c, s)), NEW f
  PROVE  toldNothing(c, s, itemAdded(s, f))
<1> DEFINE x1 == ensureStart(s)
           e == BlockStart(f.index + 2, "tool_use", f.id)
           x2 == emit(x1, e)
<1>1. toldNothing(c, s, x1) /\ outbound(x1) /\ isView(seen(c, x1))
  BY BlocksTellNothing, AnthropicTelling
<1>2. itemAdded(s, f) = CASE f.kind = "message" -> startText(x1)
                          [] f.kind = "function_call" ->
                               [x2 EXCEPT !.ToolBlocks = @ \union {f.index}]
                          [] OTHER -> x1
  BY DEF itemAdded
<1> HIDE DEF x1
<1>3. quietEvent(e)
  BY EventsTellNothing
<1>4. toldNothing(c, x1, x2) /\ outbound(x2) /\ isView(seen(c, x2))
  BY <1>1, <1>3, QuietEmit, AnthropicTelling
<1> HIDE DEF x2
<1>5. toldNothing(c, x2, [x2 EXCEPT !.ToolBlocks = @ \union {f.index}])
  BY <1>4, StateChanges
<1>6. toldNothing(c, x1, startText(x1))
  BY <1>1, BlocksTellNothing
<1>7. CASE f.kind = "message"
  BY <1>1, <1>2, <1>6, <1>7, AnthropicTelling
<1>8. CASE f.kind = "function_call"
  <2>1. itemAdded(s, f) = [x2 EXCEPT !.ToolBlocks = @ \union {f.index}]
    BY <1>2, <1>8
  <2>2. toldNothing(c, x1, itemAdded(s, f))
    BY <1>4, <1>5, <2>1, AnthropicTelling
  <2> QED  BY <1>1, <2>2, AnthropicTelling
<1>9. CASE f.kind \notin {"message", "function_call"}
  BY <1>1, <1>2, <1>9
<1> QED  BY <1>7, <1>8, <1>9

\* What a Responses frame tells: the text of its delta, and at its end or at
\* the completed response the reason pending by then.
closesResponse(f) == f.event \in {"[DONE]", "response.completed"}

reasonClosing(s, f) ==
  CASE f.event = "[DONE]" -> reasonPending(s)
    [] f.event = "response.completed" ->
         IF s.PendingFinish = "" THEN "end_turn"
         ELSE anthropicStopReasonFromChatFinish(s.PendingFinish)
    [] OTHER -> ""

\* What is pending after a frame: a finished call decides the finish reason.
remembersPending(s, f, t) ==
  IF closesResponse(f) THEN t.PendingFinish = "" /\ t.PendingUsage = NoUsage
  ELSE /\ t.PendingUsage = s.PendingUsage
       /\ t.PendingFinish = IF f.event = "response.output_item.done" /\
                               f.kind = "function_call"
                            THEN "tool_calls" ELSE s.PendingFinish

LEMMA FromResponsesFrameTells ==
  ASSUME NEW c, NEW s, outbound(s), isView(seen(c, s)), NEW order, isSeq(order),
         NEW f, known("responses", f),
         NEW t, t = AnthropicEventsFromResponsesFrame(s, f, order)
  PROVE  /\ outbound(t)
         /\ hears(seen(c, s), seen(c, t), textOf("responses", f), None,
                  reasonClosing(s, f), closesResponse(f))
         /\ remembersPending(s, f, t)
<1> SUFFICES /\ outbound(t)
             /\ hears(seen(c, s), seen(c, t), textOf("responses", f), None,
                      reasonClosing(s, f), closesResponse(f))
             /\ IF closesResponse(f)
                THEN t.PendingFinish = "" /\ t.PendingUsage = NoUsage
                ELSE /\ t.PendingUsage = s.PendingUsage
                     /\ t.PendingFinish = IF f.event = "response.output_item.done" /\
                                             f.kind = "function_call"
                                          THEN "tool_calls" ELSE s.PendingFinish
  BY DEF remembersPending
<1>1. CASE f.event = "[DONE]"
  <2>1. t = flushAnthropicFinish(s, order)
    BY <1>1 DEF AnthropicEventsFromResponsesFrame
  <2>2. /\ textOf("responses", f) = None /\ reasonClosing(s, f) = reasonPending(s)
        /\ closesResponse(f) = TRUE
    BY <1>1 DEF textOf, reasonClosing, closesResponse
  <2> QED  BY <2>1, <2>2, FlushTells
<1>2. CASE f.event = "response.completed"
  <2> DEFINE x == [s EXCEPT !.PendingFinish = IF @ = "" THEN "stop" ELSE @,
                            !.PendingUsage = f.usage]
  <2>1. t = flushAnthropicFinish(x, order)
    BY <1>2 DEF AnthropicEventsFromResponsesFrame
  <2>2. /\ outbound(x) /\ seen(c, x) = seen(c, s)
        /\ x.PendingFinish = IF s.PendingFinish = "" THEN "stop" ELSE s.PendingFinish
    BY DEF outbound, seen
  <2> HIDE DEF x
  <2>3. /\ outbound(t)
        /\ hears(seen(c, x), seen(c, t), None, None, reasonPending(x), TRUE)
        /\ t.PendingFinish = "" /\ t.PendingUsage = NoUsage
    BY <2>1, <2>2, FlushTells
  <2>4. reasonPending(x) = IF s.PendingFinish = "" THEN "end_turn"
                           ELSE anthropicStopReasonFromChatFinish(s.PendingFinish)
    BY <2>2 DEF reasonPending, anthropicStopReasonFromChatFinish
  <2>5. /\ textOf("responses", f) = None /\ reasonClosing(s, f) = reasonPending(x)
        /\ closesResponse(f) = TRUE
    BY <1>2, <2>4 DEF textOf, reasonClosing, closesResponse
  <2> QED  BY <2>2, <2>3, <2>5
<1>0. ASSUME ~closesResponse(f)
      PROVE  closesResponse(f) = FALSE /\ reasonClosing(s, f) = ""
  <2>1. f.event # "[DONE]" /\ f.event # "response.completed"
    BY <1>0 DEF closesResponse
  <2>2. reasonClosing(s, f) = ""
    BY <2>1 DEF reasonClosing
  <2>3. closesResponse(f) = FALSE
    BY <2>1 DEF closesResponse
  <2> QED  BY <2>2, <2>3
<1>3. CASE f.event = "response.output_item.added"
  <2>1. t = itemAdded(s, f)
    BY <1>3 DEF AnthropicEventsFromResponsesFrame
  <2>2. toldNothing(c, s, t)
    BY <2>1, ItemAddedTellsNothing
  <2>3. textOf("responses", f) = None /\ ~closesResponse(f)
    BY <1>3 DEF textOf, closesResponse
  <2>4. /\ outbound(t) /\ pendingKept(s, t)
        /\ hears(seen(c, s), seen(c, t), None, None, "", FALSE)
    BY <2>2, NothingHeard DEF toldNothing
  <2> QED  BY <1>0, <1>3, <2>3, <2>4 DEF pendingKept
<1>4. CASE f.event = "response.output_text.delta"
  <2> DEFINE x1 == ensureStart(s)
             x2 == startText(x1)
  <2>1. t = emit(x2, BlockDelta(0, "text", f.piece))
    BY <1>4 DEF AnthropicEventsFromResponsesFrame
  <2>2. toldNothing(c, s, x1) /\ outbound(x1) /\ isView(seen(c, x1))
    BY BlocksTellNothing, AnthropicTelling
  <2> HIDE DEF x1
  <2>3. toldNothing(c, x1, x2) /\ outbound(x2) /\ isView(seen(c, x2))
    BY <2>2, BlocksTellNothing, AnthropicTelling
  <2> HIDE DEF x2
  <2>4. f.piece # None
    BY <1>4 DEF known, Done
  <2>5. tells(c, x2, t, f.piece, None)
    BY <2>1, <2>3, <2>4, DeltaTells
  <2>6. tells(c, s, t, f.piece, None)
    BY <2>2, <2>3, <2>5, TellingOn
  <2>7. textOf("responses", f) = f.piece /\ ~closesResponse(f)
    BY <1>4 DEF textOf, closesResponse
  <2>8. /\ outbound(t) /\ pendingKept(s, t)
        /\ hears(seen(c, s), seen(c, t), f.piece, None, "", FALSE)
    BY <2>6 DEF tells
  <2> QED  BY <1>0, <1>4, <2>7, <2>8 DEF pendingKept
<1>5. CASE f.event = "response.function_call_arguments.delta"
  <2> DEFINE x == ensureStart(s)
  <2>1. t = emit(x, BlockDelta(f.index + 2, "tool_use", f.piece))
    BY <1>5 DEF AnthropicEventsFromResponsesFrame
  <2>2. toldNothing(c, s, x) /\ outbound(x) /\ isView(seen(c, x))
    BY BlocksTellNothing, AnthropicTelling
  <2> HIDE DEF x
  <2>3. f.piece # None
    BY <1>5 DEF known, Done
  <2>4. tells(c, x, t, None, None)
    BY <2>1, <2>2, <2>3, DeltaTells
  <2>5. tells(c, s, t, None, None)
    BY <2>2, <2>4, TellingOn
  <2>6. textOf("responses", f) = None /\ ~closesResponse(f)
    BY <1>5 DEF textOf, closesResponse
  <2>7. /\ outbound(t) /\ pendingKept(s, t)
        /\ hears(seen(c, s), seen(c, t), None, None, "", FALSE)
    BY <2>5 DEF tells
  <2> QED  BY <1>0, <1>5, <2>6, <2>7 DEF pendingKept
<1>6. CASE f.event = "response.output_item.done" /\ f.kind = "function_call"
  <2>1. t = [s EXCEPT !.PendingFinish = "tool_calls"]
    BY <1>6 DEF AnthropicEventsFromResponsesFrame
  <2>2. outbound(t) /\ seen(c, t) = seen(c, s) /\ t.PendingUsage = s.PendingUsage
    BY <2>1 DEF outbound, seen
  <2>3. t.PendingFinish = "tool_calls"
    BY <2>1 DEF outbound
  <2>4. hears(seen(c, s), seen(c, t), None, None, "", FALSE)
    BY <2>2, NothingHeard, ViewChanges
  <2>5. textOf("responses", f) = None /\ ~closesResponse(f)
    BY <1>6 DEF textOf, closesResponse
  <2> QED  BY <1>0, <1>6, <2>2, <2>3, <2>4, <2>5
<1>7. CASE \/ f.event = "response.output_item.done" /\ f.kind # "function_call"
           \/ f.event \in {"response.created", "response.incomplete",
                           "response.reasoning_summary_text.delta"}
  <2>1. t = s
    BY <1>7 DEF AnthropicEventsFromResponsesFrame
  <2>2. hears(seen(c, s), seen(c, t), None, None, "", FALSE)
    BY <2>1, NothingHeard, ViewChanges
  <2>3. textOf("responses", f) = None /\ ~closesResponse(f)
    BY <1>7 DEF textOf, closesResponse
  <2> QED  BY <1>0, <1>7, <2>1, <2>2, <2>3
<1>8. f.event \in {"[DONE]", "response.created", "response.output_item.added",
                   "response.output_item.done", "response.output_text.delta",
                   "response.reasoning_summary_text.delta",
                   "response.function_call_arguments.delta",
                   "response.completed", "response.incomplete"}
  BY DEF known, Done
<1> QED  BY <1>1, <1>2, <1>3, <1>4, <1>5, <1>6, <1>7, <1>8
-----------------------------------------------------------------------------
(* What the translators to chat tell.                                      *)

\* A chunk of this text, thinking and reason.
tellsChunk(e, text, thinking, reason) ==
  /\ e.event = "chunk" /\ e.choices = 1 /\ fewTools(e)
  /\ e.content = text /\ e.reasoning = thinking /\ e.finish = reason

LEMMA ChunksTell ==
  /\ tellsChunk(RoleChunk, None, None, "")
  /\ \A p : tellsChunk(ContentChunk(p), p, None, "")
  /\ \A p : tellsChunk(ReasoningChunk(p), None, p, "")
  /\ \A index, id, p : tellsChunk(ToolChunk(index, id, p), None, None, "")
  /\ \A r, u : tellsChunk(FinishChunk(r, u), None, None, r)
<1>1. ASSUME NEW index, NEW id, NEW p
      PROVE  tellsChunk(ToolChunk(index, id, p), None, None, "")
  <2> DEFINE call == [index |-> index, id |-> id, args |-> p]
  <2>1. ToolChunk(index, id, p).tools = <<call>>
    BY DEF ToolChunk, Chunk
  <2>2. fewTools(ToolChunk(index, id, p))
    <3> HIDE DEF call
    <3> QED  BY <2>1 DEF fewTools
  <2> QED  BY <2>2 DEF tellsChunk, ToolChunk, Chunk
<1>2. /\ tellsChunk(RoleChunk, None, None, "")
      /\ \A p : tellsChunk(ContentChunk(p), p, None, "")
      /\ \A p : tellsChunk(ReasoningChunk(p), None, p, "")
      /\ \A r, u : tellsChunk(FinishChunk(r, u), None, None, r)
  BY DEF Chunk, RoleChunk, ContentChunk, ReasoningChunk, FinishChunk, tellsChunk, fewTools
<1> QED  BY <1>1, <1>2

\* A chat client that reads no event, a chunk, a role and a chunk, or the end.
LEMMA ChatReadsTell ==
  ASSUME NEW c, isView(c)
  PROVE  /\ hears(c, ChatReads(c, <<>>), None, None, "", FALSE)
         /\ hears(c, ChatReads(c, <<Done>>), None, None, "", TRUE)
         /\ \A e, text, thinking, reason : tellsChunk(e, text, thinking, reason) =>
              /\ hears(c, ChatReads(c, <<e>>), text, thinking, reason, FALSE)
              /\ hears(c, ChatReads(c, <<RoleChunk, e>>), text, thinking, reason, FALSE)
<1>1. hears(c, ChatReads(c, <<>>), None, None, "", FALSE)
  BY ReadsShort, NothingHeard, ViewChanges
<1>2. ASSUME NEW d, isView(d), NEW e, NEW text, NEW thinking, NEW reason,
             tellsChunk(e, text, thinking, reason)
      PROVE  hears(d, ChatClient(d, e), text, thinking, reason, FALSE)
  <2>1. /\ known("chat", e) /\ textOf("chat", e) = text
        /\ thinkingOf("chat", e) = thinking /\ reasonOf("chat", e) = reason
        /\ endOf("chat", e) = FALSE
    BY <1>2 DEF tellsChunk, known, textOf, thinkingOf, reasonOf, endOf
  <2>2. hears(d, ChatClient(d, e), textOf("chat", e), thinkingOf("chat", e),
              reasonOf("chat", e), endOf("chat", e))
    BY <1>2, <2>1, ChatHears
  <2> QED  BY <2>1, <2>2
<1>3. hears(c, ChatReads(c, <<Done>>), None, None, "", TRUE)
  <2>1. /\ known("chat", Done) /\ textOf("chat", Done) = None
        /\ thinkingOf("chat", Done) = None /\ reasonOf("chat", Done) = ""
        /\ endOf("chat", Done) = TRUE
    BY DEF Done, known, textOf, thinkingOf, reasonOf, endOf
  <2>2. hears(c, ChatClient(c, Done), textOf("chat", Done), thinkingOf("chat", Done),
              reasonOf("chat", Done), endOf("chat", Done))
    BY <2>1, ChatHears
  <2> QED  BY <2>1, <2>2, ReadsShort
<1>4. ASSUME NEW e, NEW text, NEW thinking, NEW reason,
             tellsChunk(e, text, thinking, reason)
      PROVE  hears(c, ChatReads(c, <<RoleChunk, e>>), text, thinking, reason, FALSE)
  <2> DEFINE d == ChatReads(c, <<RoleChunk>>)
  <2>1. isSeq(<<RoleChunk>>) /\ Append(<<RoleChunk>>, e) = <<RoleChunk, e>>
    <3>1. Append(<<>>, RoleChunk) = <<RoleChunk>>
      OBVIOUS
    <3>2. isSeq(Append(<<>>, RoleChunk))
      BY SequencesGrow
    <3>3. Append(<<RoleChunk>>, e) = <<RoleChunk, e>>
      BY EmitsSecond
    <3> QED  BY <3>1, <3>2, <3>3
  <2>2. ChatReads(c, Append(<<RoleChunk>>, e)) = ChatClient(d, e)
    BY <2>1, ReadsAppend
  <2>3. d = ChatClient(c, RoleChunk)
    BY ReadsShort
  <2>4. hears(c, d, None, None, "", FALSE)
    BY <1>2, <2>3, ChunksTell
  <2> HIDE DEF d
  <2>5. hearsNothing(c, d) /\ isView(d)
    BY <2>4, NothingHeard DEF hears
  <2>6. hears(d, ChatClient(d, e), text, thinking, reason, FALSE)
    BY <1>2, <1>4, <2>5
  <2>7. hears(c, ChatClient(d, e), text, thinking, reason, FALSE)
    BY <2>5, <2>6, HearingOn
  <2> QED  BY <2>1, <2>2, <2>7
<1>5. ASSUME NEW e, NEW text, NEW thinking, NEW reason,
             tellsChunk(e, text, thinking, reason)
      PROVE  hears(c, ChatReads(c, <<e>>), text, thinking, reason, FALSE)
  <2>1. hears(c, ChatClient(c, e), text, thinking, reason, FALSE)
    BY <1>2, <1>5
  <2> QED  BY <2>1, ReadsShort
<1> QED  BY <1>1, <1>3, <1>4, <1>5

inbound(s) ==
  {"LastUsage", "ToolIndexes", "done", "out"} \subseteq DOMAIN s

finishSeen(f) ==
  IF f.event = "message_delta" THEN anthropicStopReasonToChatFinish(f.reason) ELSE ""

toldFromAnthropic(c, f, u) ==
  /\ hears(c, ChatReads(c, u.codec.out), textOf("anthropic", f),
           thinkingOf("anthropic", f), finishSeen(f), endOf("anthropic", f))
  /\ inbound(u.codec) /\ u.codec.done = u.returns
  /\ u.returns = endOf("anthropic", f)

LEMMA ChatFromAnthropicTells ==
  ASSUME NEW c, isView(c), NEW s, inbound(s), s.out = <<>>, s.done = FALSE,
         NEW f, known("anthropic", f),
         NEW t, t = ChatChunksFromAnthropicFrame(s, f),
         NEW u, u = chatDone(t)
  PROVE  toldFromAnthropic(c, f, u)
<1> DEFINE reason == finishSeen(f)
           result(events) ==
             hears(c, ChatReads(c, events), textOf("anthropic", f),
                   thinkingOf("anthropic", f), reason, endOf("anthropic", f))
           last == f.event = "message_stop"
<1>1. u.returns = t.done /\ u.codec = IF t.done THEN emit(t, Done) ELSE t
  BY DEF chatDone, handled, emitIf
<1>2. ASSUME t.done = FALSE, endOf("anthropic", f) = FALSE, inbound(t), result(t.out)
      PROVE  /\ result(u.codec.out) /\ inbound(u.codec) /\ u.codec.done = u.returns
             /\ u.returns = endOf("anthropic", f)
  BY <1>1, <1>2
<1>r. ASSUME result(u.codec.out), inbound(u.codec), u.codec.done = u.returns,
             u.returns = endOf("anthropic", f)
      PROVE  toldFromAnthropic(c, f, u)
  BY <1>r DEF toldFromAnthropic
<1>3. CASE f.event = "message_start"
  <2>1. t = emit([s EXCEPT !.LastUsage = f.usage], RoleChunk)
    BY <1>3 DEF ChatChunksFromAnthropicFrame
  <2>2. t.out = <<RoleChunk>> /\ inbound(t) /\ t.done = FALSE
    BY <2>1, EmitsFirst DEF emit, inbound
  <2>3. /\ textOf("anthropic", f) = None /\ thinkingOf("anthropic", f) = None
        /\ reason = "" /\ endOf("anthropic", f) = FALSE
    BY <1>3 DEF textOf, thinkingOf, endOf, finishSeen
  <2>4. result(t.out)
    BY <2>2, <2>3, ChatReadsTell, ChunksTell
  <2> QED  BY <1>r, <1>2, <2>2, <2>3, <2>4
<1>4. CASE f.event = "content_block_start" /\ f.kind = "tool_use"
  <2>1. t = emit([s EXCEPT !.ToolIndexes = put(@, f.index, f.id)],
                 ToolChunk(f.index, f.id, None))
    BY <1>4 DEF ChatChunksFromAnthropicFrame
  <2>2. t.out = <<ToolChunk(f.index, f.id, None)>> /\ inbound(t) /\ t.done = FALSE
    BY <2>1, EmitsFirst DEF emit, inbound
  <2>3. /\ textOf("anthropic", f) = None /\ thinkingOf("anthropic", f) = None
        /\ reason = "" /\ endOf("anthropic", f) = FALSE
    BY <1>4 DEF textOf, thinkingOf, endOf, finishSeen
  <2>4. result(t.out)
    BY <2>2, <2>3, ChatReadsTell, ChunksTell
  <2> QED  BY <1>r, <1>2, <2>2, <2>3, <2>4
<1>5. CASE f.event = "content_block_delta"
  <2> DEFINE e == CASE f.kind = "text" -> ContentChunk(f.piece)
                    [] f.kind = "thinking" -> ReasoningChunk(f.piece)
                    [] OTHER -> ToolChunk(f.index, lookup(s.ToolIndexes, f.index),
                                          f.piece)
  <2>1. t = emit(s, e)
    BY <1>5 DEF ChatChunksFromAnthropicFrame
  <2>2. tellsChunk(e, textOf("anthropic", f), thinkingOf("anthropic", f), "")
    <3>0. f.kind \in {"text", "thinking", "tool_use"}
      BY <1>5 DEF known
    <3>1. CASE f.kind = "text"
      <4>1. e = ContentChunk(f.piece)
        BY <3>1
      <4>2. textOf("anthropic", f) = f.piece /\ thinkingOf("anthropic", f) = None
        BY <1>5, <3>1 DEF textOf, thinkingOf
      <4> QED  BY <4>1, <4>2, ChunksTell
    <3>2. CASE f.kind = "thinking"
      <4>1. e = ReasoningChunk(f.piece)
        BY <3>2
      <4>2. textOf("anthropic", f) = None /\ thinkingOf("anthropic", f) = f.piece
        BY <1>5, <3>2 DEF textOf, thinkingOf
      <4> QED  BY <4>1, <4>2, ChunksTell
    <3>3. CASE f.kind = "tool_use"
      <4>1. e = ToolChunk(f.index, lookup(s.ToolIndexes, f.index), f.piece)
        BY <3>3
      <4>2. textOf("anthropic", f) = None /\ thinkingOf("anthropic", f) = None
        BY <1>5, <3>3 DEF textOf, thinkingOf
      <4> QED  BY <4>1, <4>2, ChunksTell
    <3> QED  BY <3>0, <3>1, <3>2, <3>3
  <2> HIDE DEF e
  <2>3. t.out = <<e>> /\ inbound(t) /\ t.done = FALSE
    BY <2>1, EmitsFirst DEF emit, inbound
  <2>4. reason = "" /\ endOf("anthropic", f) = FALSE
    BY <1>5 DEF endOf, finishSeen
  <2>5. result(t.out)
    BY <2>2, <2>3, <2>4, ChatReadsTell
  <2> QED  BY <1>r, <1>2, <2>3, <2>4, <2>5
<1>6. CASE f.event = "message_delta"
  <2> DEFINE usage == latestUsage(s, f)
             e == FinishChunk(anthropicStopReasonToChatFinish(f.reason), usage)
  <2>1. t = emit([s EXCEPT !.LastUsage = usage], e)
    BY <1>6 DEF ChatChunksFromAnthropicFrame
  <2>2. t.out = <<e>> /\ inbound(t) /\ t.done = FALSE
    BY <2>1, EmitsFirst DEF emit, inbound
  <2>3. /\ textOf("anthropic", f) = None /\ thinkingOf("anthropic", f) = None
        /\ reason = anthropicStopReasonToChatFinish(f.reason)
        /\ endOf("anthropic", f) = FALSE
    BY <1>6 DEF textOf, thinkingOf, endOf, finishSeen
  <2>4. result(t.out)
    BY <2>2, <2>3, ChatReadsTell, ChunksTell
  <2> QED  BY <1>r, <1>2, <2>2, <2>3, <2>4
<1>7. CASE f.event = "message_stop"
  <2>1. t = [s EXCEPT !.done = TRUE]
    BY <1>7 DEF ChatChunksFromAnthropicFrame
  <2>2. t.done = TRUE /\ t.out = <<>> /\ inbound(t)
    BY <2>1 DEF inbound
  <2>3. u.codec = emit(t, Done) /\ u.returns = TRUE
    BY <1>1, <2>2
  <2>4. u.codec.out = <<Done>> /\ inbound(u.codec) /\ u.codec.done = TRUE
    BY <2>2, <2>3, EmitsFirst DEF emit, inbound
  <2>5. /\ textOf("anthropic", f) = None /\ thinkingOf("anthropic", f) = None
        /\ reason = "" /\ endOf("anthropic", f) = TRUE
    BY <1>7 DEF textOf, thinkingOf, endOf, finishSeen
  <2>6. result(u.codec.out)
    BY <2>4, <2>5, ChatReadsTell, ChunksTell
  <2> QED  BY <1>r, <2>3, <2>4, <2>5, <2>6
<1>8. CASE \/ f.event = "content_block_start" /\ f.kind # "tool_use"
           \/ f.event = "content_block_stop"
  <2>1. t = s
    BY <1>8 DEF ChatChunksFromAnthropicFrame
  <2>2. /\ textOf("anthropic", f) = None /\ thinkingOf("anthropic", f) = None
        /\ reason = "" /\ endOf("anthropic", f) = FALSE
    BY <1>8 DEF textOf, thinkingOf, endOf, finishSeen
  <2>3. result(t.out)
    BY <2>1, <2>2, ChatReadsTell
  <2> QED  BY <1>r, <1>2, <2>1, <2>2, <2>3
<1>9. f.event \in {"message_start", "content_block_start", "content_block_delta",
                   "content_block_stop", "message_delta", "message_stop"}
  BY DEF known
<1> QED  BY <1>3, <1>4, <1>5, <1>6, <1>7, <1>8, <1>9

watching(s) ==
  {"RoleSent", "Tools", "SawToolCall", "done", "out"} \subseteq DOMAIN s

\* A frame of a tool call, as far as the translator's memory of it goes.
showsCall(f) ==
  \/ f.event = "response.output_item.added" /\ f.kind = "function_call"
  \/ f.event = "response.function_call_arguments.delta"

finishSummed(s, f) ==
  IF f.event = "response.completed"
  THEN IF s.SawToolCall THEN "tool_calls" ELSE "stop" ELSE ""

remembersCall(s, f, t) ==
  t.SawToolCall = IF showsCall(f) THEN TRUE ELSE s.SawToolCall

toldFromResponses(c, s, f, u) ==
  /\ hears(c, ChatReads(c, u.codec.out), textOf("responses", f), None,
           finishSummed(s, f), endOf("responses", f))
  /\ watching(u.codec) /\ u.codec.done = u.returns
  /\ u.returns = endOf("responses", f)
  /\ remembersCall(s, f, u.codec)

LEMMA ChatFromResponsesTells ==
  ASSUME NEW c, isView(c), NEW s, watching(s), s.out = <<>>, s.done = FALSE,
         NEW f, known("responses", f),
         NEW t, t = ChatChunksFromResponsesFrame(s, f),
         NEW u, u = chatDone(t)
  PROVE  toldFromResponses(c, s, f, u)
<1> DEFINE reason == finishSummed(s, f)
           result(events) == hears(c, ChatReads(c, events), textOf("responses", f),
                                   None, reason, endOf("responses", f))
           saw == IF showsCall(f) THEN TRUE ELSE s.SawToolCall
           role == sendRole(s)
<1>1. u.returns = t.done /\ u.codec = IF t.done THEN emit(t, Done) ELSE t
  BY DEF chatDone, handled, emitIf
<1>2. ASSUME t.done = FALSE, endOf("responses", f) = FALSE, watching(t),
             result(t.out), t.SawToolCall = saw
      PROVE  /\ result(u.codec.out) /\ watching(u.codec)
             /\ u.codec.done = u.returns /\ u.returns = endOf("responses", f)
             /\ u.codec.SawToolCall = saw
  BY <1>1, <1>2
<1>3. /\ role.out = <<>> \/ role.out = <<RoleChunk>>
      /\ watching(role) /\ role.done = FALSE /\ role.SawToolCall = s.SawToolCall
  <2>1. CASE s.RoleSent
    BY <2>1 DEF sendRole, emitIf, watching
  <2>2. CASE ~s.RoleSent
    BY <2>2, EmitsFirst DEF sendRole, emitIf, emit, watching
  <2> QED  BY <2>1, <2>2
<1> HIDE DEF role
<1>r. ASSUME result(u.codec.out), watching(u.codec), u.codec.done = u.returns,
             u.returns = endOf("responses", f), u.codec.SawToolCall = saw
      PROVE  toldFromResponses(c, s, f, u)
  BY <1>r DEF toldFromResponses, remembersCall
<1>4. CASE f.event = "[DONE]"
  <2>1. t = [s EXCEPT !.done = TRUE]
    BY <1>4 DEF ChatChunksFromResponsesFrame
  <2>2. t.done = TRUE /\ t.out = <<>> /\ watching(t) /\ t.SawToolCall = s.SawToolCall
    BY <2>1 DEF watching
  <2>3. u.codec = emit(t, Done) /\ u.returns = TRUE
    BY <1>1, <2>2
  <2>4. /\ u.codec.out = <<Done>> /\ watching(u.codec) /\ u.codec.done = TRUE
        /\ u.codec.SawToolCall = s.SawToolCall
    BY <2>2, <2>3, EmitsFirst DEF emit, watching
  <2>5. /\ textOf("responses", f) = None /\ reason = "" /\ ~showsCall(f)
        /\ endOf("responses", f) = TRUE
    BY <1>4 DEF textOf, endOf, showsCall, finishSummed
  <2>6. result(u.codec.out)
    BY <1>4, <2>4, <2>5, ChatReadsTell
  <2> QED  BY <1>r, <2>3, <2>4, <2>5, <2>6
<1>5. CASE f.event = "response.output_item.added" /\ f.kind = "message"
  <2>1. t = role
    BY <1>5 DEF ChatChunksFromResponsesFrame, role
  <2>2. /\ textOf("responses", f) = None /\ reason = "" /\ ~showsCall(f)
        /\ endOf("responses", f) = FALSE
    BY <1>5 DEF textOf, endOf, showsCall, finishSummed
  <2>3. result(t.out)
    BY <1>3, <2>1, <2>2, ChatReadsTell, ChunksTell
  <2> QED  BY <1>r, <1>2, <1>3, <2>1, <2>2, <2>3
<1>6. CASE f.event = "response.output_item.added" /\ f.kind = "function_call"
  <2>1. t = toolAdded(s, f)
    BY <1>6 DEF ChatChunksFromResponsesFrame
  <2>2. /\ t.out = <<ToolChunk(f.index, f.id, None)>>
        /\ watching(t) /\ t.done = FALSE /\ t.SawToolCall = TRUE
    BY <2>1, EmitsFirst DEF toolAdded, emit, watching
  <2>3. /\ textOf("responses", f) = None /\ reason = "" /\ showsCall(f)
        /\ endOf("responses", f) = FALSE
    BY <1>6 DEF textOf, endOf, showsCall, finishSummed
  <2>4. result(t.out)
    BY <2>2, <2>3, ChatReadsTell, ChunksTell
  <2> QED  BY <1>r, <1>2, <2>2, <2>3, <2>4
<1>7. CASE f.event = "response.output_text.delta"
  <2> DEFINE e == ContentChunk(f.piece)
  <2>1. t = emit(role, e)
    BY <1>7 DEF ChatChunksFromResponsesFrame, role
  <2>2. /\ t.out = Append(role.out, e) /\ watching(t) /\ t.done = FALSE
        /\ t.SawToolCall = s.SawToolCall
    BY <1>3, <2>1 DEF emit, watching
  <2>3. t.out = <<e>> \/ t.out = <<RoleChunk, e>>
    <3>1. role.out = <<RoleChunk>> => t.out = <<RoleChunk, e>>
      BY <2>2, EmitsSecond
    <3> QED  BY <1>3, <2>2, <3>1, EmitsFirst
  <2>4. /\ textOf("responses", f) = f.piece /\ reason = "" /\ ~showsCall(f)
        /\ endOf("responses", f) = FALSE
    BY <1>7 DEF textOf, endOf, showsCall, finishSummed
  <2>5. tellsChunk(e, f.piece, None, "")
    BY ChunksTell
  <2> HIDE DEF e
  <2>6. result(t.out)
    BY <2>3, <2>4, <2>5, ChatReadsTell
  <2> QED  BY <1>r, <1>2, <2>2, <2>4, <2>6
<1>8. CASE f.event = "response.function_call_arguments.delta"
  <2> DEFINE e == ToolChunk(f.index, lookup(s.Tools, f.index), f.piece)
  <2>1. t = emit([s EXCEPT !.SawToolCall = TRUE], e)
    BY <1>8 DEF ChatChunksFromResponsesFrame
  <2>2. t.out = <<e>> /\ watching(t) /\ t.done = FALSE /\ t.SawToolCall = TRUE
    BY <2>1, EmitsFirst DEF emit, watching
  <2>3. /\ textOf("responses", f) = None /\ reason = "" /\ showsCall(f)
        /\ endOf("responses", f) = FALSE
    BY <1>8 DEF textOf, endOf, showsCall, finishSummed
  <2>4. result(t.out)
    BY <2>2, <2>3, ChatReadsTell, ChunksTell
  <2> QED  BY <1>r, <1>2, <2>2, <2>3, <2>4
<1>9. CASE f.event = "response.completed"
  <2> DEFINE e == FinishChunk(IF s.SawToolCall THEN "tool_calls" ELSE "stop", f.usage)
  <2>1. t = emit(s, e)
    BY <1>9 DEF ChatChunksFromResponsesFrame
  <2>2. /\ t.out = <<e>> /\ watching(t) /\ t.done = FALSE
        /\ t.SawToolCall = s.SawToolCall
    BY <2>1, EmitsFirst DEF emit, watching
  <2>3. /\ textOf("responses", f) = None /\ ~showsCall(f)
        /\ reason = (IF s.SawToolCall THEN "tool_calls" ELSE "stop")
        /\ endOf("responses", f) = FALSE
    BY <1>9 DEF textOf, endOf, showsCall, finishSummed
  <2>4. tellsChunk(e, None, None, reason)
    BY <2>3, ChunksTell
  <2> HIDE DEF e
  <2>5. result(t.out)
    BY <2>2, <2>3, <2>4, ChatReadsTell
  <2> QED  BY <1>r, <1>2, <2>2, <2>3, <2>5
<1>10. CASE \/ /\ f.event = "response.output_item.added"
               /\ f.kind \notin {"message", "function_call"}
            \/ f.event \in {"response.created", "response.output_item.done",
                            "response.reasoning_summary_text.delta",
                            "response.incomplete"}
  <2>1. t = s
    BY <1>10 DEF ChatChunksFromResponsesFrame
  <2>2. /\ textOf("responses", f) = None /\ reason = "" /\ ~showsCall(f)
        /\ endOf("responses", f) = FALSE
    BY <1>10 DEF textOf, endOf, showsCall, finishSummed
  <2>3. result(t.out)
    BY <2>1, <2>2, ChatReadsTell
  <2> QED  BY <1>r, <1>2, <2>1, <2>2, <2>3
<1>11. f.event \in {"[DONE]", "response.created", "response.output_item.added",
                    "response.output_item.done", "response.output_text.delta",
                    "response.reasoning_summary_text.delta",
                    "response.function_call_arguments.delta",
                    "response.completed", "response.incomplete"}
  BY DEF known, Done
<1> QED  BY <1>r, <1>4, <1>5, <1>6, <1>7, <1>8, <1>9, <1>10, <1>11
-----------------------------------------------------------------------------
(* What the translators to Responses tell.                                 *)

writing(s) == "out" \in DOMAIN s /\ isSeq(s.out)
shown(c, s) == ResponsesReads(c, s.out)
toldMore(c, s, t, text) ==
  writing(t) /\ hears(shown(c, s), shown(c, t), text, None, "", FALSE)
toldNoMore(c, s, t) == writing(t) /\ hearsNothing(shown(c, s), shown(c, t))

LEMMA ResponsesTelling ==
  ASSUME NEW c, NEW s, NEW t, NEW u, NEW text
  PROVE  /\ writing(s) /\ isView(shown(c, s)) => toldNoMore(c, s, s)
         /\ toldNoMore(c, s, t) => writing(t) /\ isView(shown(c, t))
         /\ toldMore(c, s, t, text) => writing(t) /\ isView(shown(c, t))
         /\ toldNoMore(c, s, t) /\ toldNoMore(c, t, u) => toldNoMore(c, s, u)
         /\ toldNoMore(c, s, t) /\ toldMore(c, t, u, text) => toldMore(c, s, u, text)
         /\ toldMore(c, s, t, text) /\ toldNoMore(c, t, u) => toldMore(c, s, u, text)
         /\ toldNoMore(c, s, t) => toldMore(c, s, t, None)
<1>1. writing(s) /\ isView(shown(c, s)) => toldNoMore(c, s, s)
  BY ViewChanges DEF toldNoMore
<1>2. /\ toldNoMore(c, s, t) => writing(t) /\ isView(shown(c, t))
      /\ toldMore(c, s, t, text) => writing(t) /\ isView(shown(c, t))
  BY DEF toldNoMore, toldMore, hears, hearsNothing
<1>3. /\ toldNoMore(c, s, t) /\ toldNoMore(c, t, u) => toldNoMore(c, s, u)
      /\ toldNoMore(c, s, t) /\ toldMore(c, t, u, text) => toldMore(c, s, u, text)
      /\ toldMore(c, s, t, text) /\ toldNoMore(c, t, u) => toldMore(c, s, u, text)
      /\ toldNoMore(c, s, t) => toldMore(c, s, t, None)
  BY DEF toldNoMore, toldMore, hears, hearsNothing, append, None
<1> QED  BY <1>1, <1>2, <1>3

\* Events of a Responses stream that say nothing.
quietItem(e) ==
  /\ e.event \notin {"[DONE]", "response.output_text.delta"}
  /\ e.event = "response.function_call_arguments.delta" =>
       e.kind = "function_call" /\ e.piece # None

LEMMA ResponsesEmit ==
  ASSUME NEW c, NEW s, writing(s), isView(shown(c, s)), NEW e
  PROVE  /\ DOMAIN emit(s, e) = DOMAIN s /\ writing(emit(s, e))
         /\ quietItem(e) => toldNoMore(c, s, emit(s, e))
         /\ e.event = "response.output_text.delta" /\ e.kind = "text" /\ e.piece # None
              => toldMore(c, s, emit(s, e), e.piece)
         /\ e = Done => hears(shown(c, s), shown(c, emit(s, e)), None, None, "", TRUE)
<1> DEFINE d == shown(c, s)
           x == ResponsesClient(d, e)
<1>1. emit(s, e).out = Append(s.out, e) /\ DOMAIN emit(s, e) = DOMAIN s
  BY DEF emit, writing
<1>2. writing(emit(s, e))
  BY <1>1, SequencesGrow DEF writing
<1>3. shown(c, emit(s, e)) = x
  BY <1>1, ReadsAppend DEF shown, writing
<1> HIDE DEF d
<1>4. ASSUME quietItem(e)
      PROVE  toldNoMore(c, s, emit(s, e))
  <2>1. hears(d, x, textOf("responses", e), thinkingOf("responses", e),
              reasonOf("responses", e), endOf("responses", e))
    BY <1>4, ResponsesHears DEF quietItem, d
  <2>2. /\ textOf("responses", e) = None /\ thinkingOf("responses", e) = None
        /\ reasonOf("responses", e) = "" /\ endOf("responses", e) = FALSE
    BY <1>4 DEF quietItem, textOf, thinkingOf, reasonOf, endOf
  <2>3. hearsNothing(d, x)
    BY <2>1, <2>2, NothingHeard DEF d
  <2> QED  BY <1>2, <1>3, <2>3 DEF toldNoMore, d
<1>5. ASSUME e.event = "response.output_text.delta", e.kind = "text", e.piece # None
      PROVE  toldMore(c, s, emit(s, e), e.piece)
  <2>1. hears(d, x, textOf("responses", e), thinkingOf("responses", e),
              reasonOf("responses", e), endOf("responses", e))
    BY <1>5, ResponsesHears DEF d
  <2>2. /\ textOf("responses", e) = e.piece /\ thinkingOf("responses", e) = None
        /\ reasonOf("responses", e) = "" /\ endOf("responses", e) = FALSE
    BY <1>5 DEF textOf, thinkingOf, reasonOf, endOf
  <2> QED  BY <1>2, <1>3, <2>1, <2>2 DEF toldMore, d
<1>6. ASSUME e = Done
      PROVE  hears(d, x, None, None, "", TRUE)
  <2>0. e.event = "[DONE]"
    BY <1>6 DEF Done
  <2>1. hears(d, x, textOf("responses", e), thinkingOf("responses", e),
              reasonOf("responses", e), endOf("responses", e))
    BY <2>0, ResponsesHears DEF d
  <2>2. /\ textOf("responses", e) = None /\ thinkingOf("responses", e) = None
        /\ reasonOf("responses", e) = "" /\ endOf("responses", e) = TRUE
    BY <2>0 DEF textOf, thinkingOf, reasonOf, endOf
  <2> QED  BY <2>1, <2>2
<1> QED  BY <1>1, <1>2, <1>3, <1>4, <1>5, <1>6 DEF d

LEMMA ItemsTellNothing ==
  /\ \A name, index, kind, id, p, seq :
       name \notin {"[DONE]", "response.output_text.delta",
                     "response.function_call_arguments.delta"} =>
         LET e == Response(name, index, kind, id, p, seq)
         IN /\ quietItem(e)
            /\ \A pieces : quietItem(Full(e, pieces))
            /\ \A usage : quietItem(WithUsage(e, usage))
            /\ \A pieces, usage : quietItem(WithUsage(Full(e, pieces), usage))
  /\ \A index, id, p, seq : p # None =>
       quietItem(Response("response.function_call_arguments.delta", index,
                          "function_call", id, p, seq))
<1>1. ASSUME NEW e, e.event \notin {"[DONE]", "response.output_text.delta",
                                   "response.function_call_arguments.delta"},
             {"event", "full", "usage"} \subseteq DOMAIN e
      PROVE  /\ quietItem(e)
             /\ \A pieces : quietItem(Full(e, pieces))
             /\ \A usage : quietItem(WithUsage(e, usage))
             /\ \A pieces, usage : quietItem(WithUsage(Full(e, pieces), usage))
  BY <1>1 DEF quietItem, Full, WithUsage
<1>2. \A name, index, kind, id, p, seq :
        LET e == Response(name, index, kind, id, p, seq)
        IN e.event = name /\ {"event", "full", "usage"} \subseteq DOMAIN e
  BY DEF Response
<1>3. \A index, id, p, seq : p # None =>
        quietItem(Response("response.function_call_arguments.delta", index,
                           "function_call", id, p, seq))
  BY DEF quietItem, Response
<1> QED  BY <1>1, <1>2, <1>3

\* The three events that end a Responses stream.
LEMMA StreamDoneTells ==
  ASSUME NEW c, NEW s, writing(s), isView(shown(c, s)), NEW text,
         NEW t, t = writeResponsesStreamDone(s, text)
  PROVE  /\ writing(t) /\ DOMAIN t = DOMAIN s
         /\ hears(shown(c, s), shown(c, t), None, None, "", TRUE)
<1> DEFINE e1 == BuildResponsesDoneEvent(text, s.seqNum + 1)
           e2 == BuildResponsesTerminalDoneEvent(s.seqNum + 2)
           x1 == emit(s, e1)
           x2 == emit(x1, e2)
<1>1. t = emit(x2, Done)
  BY DEF writeResponsesStreamDone
<1>2. quietItem(e1) /\ quietItem(e2)
  BY ItemsTellNothing DEF BuildResponsesDoneEvent, BuildResponsesTerminalDoneEvent,
     Lifecycle, Full, Response, quietItem
<1> HIDE DEF e1, e2
<1>3. /\ toldNoMore(c, s, x1) /\ DOMAIN x1 = DOMAIN s
      /\ writing(x1) /\ isView(shown(c, x1))
  BY <1>2, ResponsesEmit, ResponsesTelling
<1> HIDE DEF x1
<1>4. /\ toldNoMore(c, x1, x2) /\ DOMAIN x2 = DOMAIN x1
      /\ writing(x2) /\ isView(shown(c, x2))
  BY <1>2, <1>3, ResponsesEmit, ResponsesTelling
<1> HIDE DEF x2
<1>5. /\ writing(t) /\ DOMAIN t = DOMAIN x2
      /\ hears(shown(c, x2), shown(c, t), None, None, "", TRUE)
  <2>1. ASSUME NEW e, e = Done
        PROVE  /\ writing(emit(x2, e)) /\ DOMAIN emit(x2, e) = DOMAIN x2
               /\ hears(shown(c, x2), shown(c, emit(x2, e)), None, None, "", TRUE)
    BY <1>4, <2>1, ResponsesEmit
  <2> QED  BY <1>1, <2>1
<1>6. hears(shown(c, s), shown(c, t), None, None, "", TRUE)
  BY <1>3, <1>4, <1>5, HearingOn DEF toldNoMore
<1> QED  BY <1>3, <1>4, <1>5, <1>6

numbering(s) == {"LastUsage", "seqNum", "done"} \subseteq DOMAIN s

LEMMA NumberTells ==
  ASSUME NEW c, NEW s, writing(s), numbering(s), isView(shown(c, s)), NEW e,
         {"event", "seq"} \subseteq DOMAIN e
  PROVE  /\ numbering(number(s, e)) /\ number(s, e).done = s.done
         /\ quietItem(e) => toldNoMore(c, s, number(s, e))
         /\ e.event = "response.output_text.delta" /\ e.kind = "text" /\ e.piece # None
              => toldMore(c, s, number(s, e), e.piece)
<1> DEFINE x == [s EXCEPT !.seqNum = @ + 1]
           g == [e EXCEPT !.seq = s.seqNum + 1]
<1>1. number(s, e) = emit(x, g)
  BY DEF number
<1>2. /\ DOMAIN x = DOMAIN s /\ x.out = s.out /\ x.done = s.done
      /\ writing(x) /\ shown(c, x) = shown(c, s)
  BY DEF writing, shown, numbering
<1>3. /\ g.event = e.event /\ g.kind = e.kind /\ g.piece = e.piece
      /\ quietItem(e) => quietItem(g)
  BY DEF quietItem
<1> HIDE DEF x, g
<1>4. /\ DOMAIN emit(x, g) = DOMAIN x /\ writing(emit(x, g))
      /\ quietItem(g) => toldNoMore(c, x, emit(x, g))
      /\ g.event = "response.output_text.delta" /\ g.kind = "text" /\ g.piece # None
              => toldMore(c, x, emit(x, g), g.piece)
  BY <1>2, ResponsesEmit
<1>5. emit(x, g).done = s.done
  BY <1>2 DEF emit
<1> QED  BY <1>1, <1>2, <1>3, <1>4, <1>5 DEF numbering, toldMore, toldNoMore

\* Whatever the frame, its text is told and nothing else of the answer.
LEMMA AnthropicFrameTells ==
  ASSUME NEW c, NEW s, writing(s), numbering(s), isView(shown(c, s)), s.done = FALSE,
         NEW f, known("anthropic", f),
         NEW t, t = ResponsesEventsFromAnthropicFrame(s, f)
  PROVE  /\ toldMore(c, s, t, textOf("anthropic", f))
         /\ numbering(t) /\ t.done = endOf("anthropic", f)
<1> DEFINE quiet(x) == toldNoMore(c, s, x) /\ numbering(x) /\ x.done = s.done
<1>0. ASSUME textOf("anthropic", f) = None, endOf("anthropic", f) = FALSE, quiet(t)
      PROVE  /\ toldMore(c, s, t, textOf("anthropic", f))
             /\ numbering(t) /\ t.done = endOf("anthropic", f)
  BY <1>0, ResponsesTelling
<1>1. \A name, index, kind, id, p, seq :
        LET e == Response(name, index, kind, id, p, seq)
        IN /\ {"event", "seq"} \subseteq DOMAIN e
           /\ e.event = name /\ e.kind = kind /\ e.piece = p
  BY DEF Response
<1>2. ASSUME NEW x, toldNoMore(c, s, x), numbering(x), x.done = s.done,
             NEW e, {"event", "seq"} \subseteq DOMAIN e, quietItem(e)
      PROVE  quiet(number(x, e))
  <2>1. writing(x) /\ isView(shown(c, x))
    BY <1>2, ResponsesTelling
  <2>2. /\ numbering(number(x, e)) /\ number(x, e).done = s.done
        /\ toldNoMore(c, x, number(x, e))
    BY <1>2, <2>1, NumberTells
  <2> QED  BY <1>2, <2>2, ResponsesTelling
<1>3. toldNoMore(c, s, s)
  BY ResponsesTelling
<1>4. CASE f.event = "message_start"
  <2> DEFINE x == [s EXCEPT !.LastUsage = f.usage]
             e == Response("response.output_item.added", choiceIndex, "message",
                           None, None, None)
  <2>1. t = number(x, e)
    BY <1>4 DEF ResponsesEventsFromAnthropicFrame
  <2>2. toldNoMore(c, s, x) /\ numbering(x) /\ x.done = s.done
    BY <1>3 DEF toldNoMore, writing, shown, numbering
  <2>3. quietItem(e) /\ {"event", "seq"} \subseteq DOMAIN e
    BY DEF quietItem, Response
  <2> HIDE DEF x, e
  <2>4. quiet(t)
    BY <1>2, <2>1, <2>2, <2>3
  <2>5. textOf("anthropic", f) = None /\ endOf("anthropic", f) = FALSE
    BY <1>4 DEF textOf, endOf
  <2> QED  BY <1>0, <2>4, <2>5
<1>5. CASE f.event = "content_block_start" /\ f.kind = "tool_use"
  <2> DEFINE e == Response("response.output_item.added", f.index + ToolBase,
                           "function_call", f.id, None, None)
  <2>1. t = number(s, e)
    BY <1>5 DEF ResponsesEventsFromAnthropicFrame
  <2>2. quietItem(e) /\ {"event", "seq"} \subseteq DOMAIN e
    BY DEF quietItem, Response
  <2> HIDE DEF e
  <2>3. quiet(t)
    BY <1>2, <1>3, <2>1, <2>2
  <2>4. textOf("anthropic", f) = None /\ endOf("anthropic", f) = FALSE
    BY <1>5 DEF textOf, endOf
  <2> QED  BY <1>0, <2>3, <2>4
<1>6. CASE f.event = "content_block_delta" /\ f.kind = "text"
  <2> DEFINE e == Response("response.output_text.delta", choiceIndex, "text",
                           None, f.piece, None)
  <2>1. t = number(s, e)
    BY <1>6 DEF ResponsesEventsFromAnthropicFrame
  <2>2. /\ e.event = "response.output_text.delta" /\ e.kind = "text"
        /\ e.piece = f.piece /\ {"event", "seq"} \subseteq DOMAIN e
    BY DEF Response
  <2>3. f.piece # None
    BY <1>6 DEF known
  <2> HIDE DEF e
  <2>4. /\ numbering(t) /\ t.done = s.done /\ toldMore(c, s, t, f.piece)
    BY <2>1, <2>2, <2>3, NumberTells
  <2>5. textOf("anthropic", f) = f.piece /\ endOf("anthropic", f) = FALSE
    BY <1>6 DEF textOf, endOf
  <2> QED  BY <2>4, <2>5
<1>7. CASE f.event = "content_block_delta" /\ f.kind = "tool_use"
  <2> DEFINE e == Response("response.function_call_arguments.delta",
                           f.index + ToolBase, "function_call", None, f.piece, None)
  <2>1. t = number(s, e)
    BY <1>7 DEF ResponsesEventsFromAnthropicFrame
  <2>2. f.piece # None
    BY <1>7 DEF known
  <2>3. quietItem(e) /\ {"event", "seq"} \subseteq DOMAIN e
    BY <2>2 DEF quietItem, Response
  <2> HIDE DEF e
  <2>4. quiet(t)
    BY <1>2, <1>3, <2>1, <2>3
  <2>5. textOf("anthropic", f) = None /\ endOf("anthropic", f) = FALSE
    BY <1>7 DEF textOf, endOf
  <2> QED  BY <1>0, <2>4, <2>5
<1>8. CASE f.event = "message_delta"
  <2> DEFINE e1 == Response("response.output_item.done", choiceIndex, "message",
                            None, None, None)
             item == number(s, e1)
             x == [item EXCEPT !.LastUsage = f.usage]
             e2 == WithUsage(Lifecycle("response.completed", None), f.usage)
  <2>1. t = IF f.usage = NoUsage THEN item ELSE number(x, e2)
    BY <1>8 DEF ResponsesEventsFromAnthropicFrame, fromMessageDelta
  <2>2. /\ quietItem(e1) /\ {"event", "seq"} \subseteq DOMAIN e1
        /\ quietItem(e2) /\ {"event", "seq"} \subseteq DOMAIN e2
    BY DEF quietItem, Response, Lifecycle, WithUsage
  <2> HIDE DEF e1, e2
  <2>3. quiet(item)
    BY <1>2, <1>3, <2>2
  <2> HIDE DEF item
  <2>4. toldNoMore(c, s, x) /\ numbering(x) /\ x.done = s.done
    BY <2>3 DEF toldNoMore, writing, shown, numbering
  <2> HIDE DEF x
  <2>5. quiet(number(x, e2))
    BY <1>2, <2>2, <2>4
  <2>6. quiet(t)
    BY <2>1, <2>3, <2>5
  <2>7. textOf("anthropic", f) = None /\ endOf("anthropic", f) = FALSE
    BY <1>8 DEF textOf, endOf
  <2> QED  BY <1>0, <2>6, <2>7
<1>9. CASE f.event = "message_stop"
  <2>1. t = [s EXCEPT !.done = TRUE]
    BY <1>9 DEF ResponsesEventsFromAnthropicFrame
  <2>2. toldNoMore(c, s, t) /\ numbering(t) /\ t.done = TRUE
    BY <1>3, <2>1 DEF toldNoMore, writing, shown, numbering
  <2>3. textOf("anthropic", f) = None /\ endOf("anthropic", f) = TRUE
    BY <1>9 DEF textOf, endOf
  <2> QED  BY <2>2, <2>3, ResponsesTelling
<1>10. CASE \/ f.event = "content_block_start" /\ f.kind # "tool_use"
            \/ f.event = "content_block_delta" /\ f.kind = "thinking"
            \/ f.event = "content_block_stop"
  <2>1. t = s
    BY <1>10 DEF ResponsesEventsFromAnthropicFrame
  <2>2. textOf("anthropic", f) = None /\ endOf("anthropic", f) = FALSE
    BY <1>10 DEF textOf, endOf
  <2> QED  BY <1>0, <1>3, <2>1, <2>2
<1>11. /\ f.event \in {"message_start", "content_block_start", "content_block_delta",
                       "content_block_stop", "message_delta", "message_stop"}
       /\ f.event = "content_block_delta" => f.kind \in {"text", "thinking", "tool_use"}
  BY DEF known
<1> QED  BY <1>4, <1>5, <1>6, <1>7, <1>8, <1>9, <1>10, <1>11

LEMMA ResponsesFromAnthropicTells ==
  ASSUME NEW c, isView(c), NEW s, "out" \in DOMAIN s, s.out = <<>>, numbering(s),
         s.done = FALSE, NEW f, known("anthropic", f),
         NEW t, t = ResponsesEventsFromAnthropicFrame(s, f),
         NEW u, u = IF t.done THEN handled(writeResponsesStreamDone(t, <<>>), TRUE)
                    ELSE handled(t, FALSE)
  PROVE  /\ hears(c, ResponsesReads(c, u.codec.out), textOf("anthropic", f), None, "",
                  endOf("anthropic", f))
         /\ numbering(u.codec) /\ "out" \in DOMAIN u.codec
         /\ u.returns = endOf("anthropic", f)
         /\ ~u.returns => u.codec.done = FALSE
<1>1. writing(s) /\ shown(c, s) = c /\ isView(shown(c, s))
  BY ReadsShort, SequencesGrow DEF writing, shown
<1>2. /\ toldMore(c, s, t, textOf("anthropic", f))
      /\ numbering(t) /\ t.done = endOf("anthropic", f)
      /\ writing(t) /\ isView(shown(c, t))
  <2>1. /\ toldMore(c, s, t, textOf("anthropic", f))
        /\ numbering(t) /\ t.done = endOf("anthropic", f)
    BY <1>1, AnthropicFrameTells
  <2> QED  BY <2>1, ResponsesTelling
<1>3. CASE f.event = "message_stop"
  <2> DEFINE v == writeResponsesStreamDone(t, <<>>)
  <2>1. endOf("anthropic", f) = TRUE /\ textOf("anthropic", f) = None
    BY <1>3 DEF endOf, textOf
  <2>2. u.codec = v /\ u.returns = TRUE
    BY <1>2, <2>1 DEF handled
  <2>3. /\ writing(v) /\ DOMAIN v = DOMAIN t
        /\ hears(shown(c, t), shown(c, v), None, None, "", TRUE)
    BY <1>2, StreamDoneTells
  <2> HIDE DEF v
  <2>4. hears(c, shown(c, v), None, None, "", TRUE)
    BY <1>1, <1>2, <2>1, <2>3 DEF toldMore, hears, append, None
  <2>5. hears(c, ResponsesReads(c, u.codec.out), None, None, "", TRUE)
    BY <2>2, <2>4 DEF shown
  <2>6. numbering(u.codec) /\ "out" \in DOMAIN u.codec
    BY <1>2, <2>2, <2>3 DEF numbering, writing
  <2> QED  BY <2>1, <2>2, <2>5, <2>6
<1>4. CASE f.event # "message_stop"
  <2>1. endOf("anthropic", f) = FALSE
    BY <1>4 DEF endOf
  <2>2. u.codec = t /\ u.returns = FALSE
    BY <1>2, <2>1 DEF handled
  <2> QED  BY <1>1, <1>2, <2>1, <2>2 DEF toldMore, shown, writing
<1> QED  BY <1>3, <1>4

assembling(s) ==
  /\ {"ResponseCreated", "MessageText", "ToolCalls", "ToolArgs", "seqNum"}
       \subseteq DOMAIN s
  /\ DOMAIN s.ToolCalls \subseteq {ToolBase}

quietStep(c, s, t) == toldNoMore(c, s, t) /\ assembling(t)
textStep(c, s, t, text) == toldMore(c, s, t, text) /\ assembling(t)
ready(c, s) == writing(s) /\ isView(shown(c, s)) /\ assembling(s)

LEMMA StepsTell ==
  ASSUME NEW c, NEW s, NEW t, NEW u, NEW text
  PROVE  /\ ready(c, s) => quietStep(c, s, s)
         /\ quietStep(c, s, t) => ready(c, t) /\ textStep(c, s, t, None)
         /\ textStep(c, s, t, text) => ready(c, t)
         /\ quietStep(c, s, t) /\ quietStep(c, t, u) => quietStep(c, s, u)
         /\ quietStep(c, s, t) /\ textStep(c, t, u, text) => textStep(c, s, u, text)
         /\ textStep(c, s, t, text) /\ quietStep(c, t, u) => textStep(c, s, u, text)
BY ResponsesTelling DEF quietStep, textStep, ready

LEMMA StepEmit ==
  ASSUME NEW c, NEW s, ready(c, s), NEW e, quietItem(e)
  PROVE  quietStep(c, s, emit(s, e))
<1>1. toldNoMore(c, s, emit(s, e)) /\ DOMAIN emit(s, e) = DOMAIN s
  BY ResponsesEmit DEF ready
<1>2. emit(s, e).ToolCalls = s.ToolCalls
  BY DEF emit, ready, writing, assembling
<1> QED  BY <1>1, <1>2 DEF quietStep, ready, assembling

LEMMA StepChange ==
  ASSUME NEW c, NEW s, ready(c, s), NEW x
  PROVE  /\ quietStep(c, s, [s EXCEPT !.ResponseCreated = x])
         /\ quietStep(c, s, [s EXCEPT !.MessageText = x])
         /\ quietStep(c, s, [s EXCEPT !.ToolArgs = x])
         /\ quietStep(c, s, [s EXCEPT !.seqNum = x])
         /\ DOMAIN x \subseteq {ToolBase} =>
              quietStep(c, s, [s EXCEPT !.ToolCalls = x])
BY ViewChanges DEF quietStep, toldNoMore, ready, writing, shown, assembling

LEMMA SetToSeqIsSeq ==
  ASSUME NEW x, NEW S, S \subseteq {x}
  PROVE  isSeq(SetToSeq(S))
<1>1. CASE S = {}
  <2>1. Cardinality(S) = 0
    BY <1>1, FS_EmptySet
  <2>2. <<>> \in [1..Cardinality(S) -> S] /\ IsInjective(<<>>)
    <3>1. 1..0 = {}
      OBVIOUS
    <3>2. DOMAIN <<>> = {}
      OBVIOUS
    <3> QED  BY <1>1, <2>1, <3>1, <3>2 DEF IsInjective
  <2>3. SetToSeq(S) \in [1..Cardinality(S) -> S]
    BY <2>2 DEF SetToSeq
  <2>4. SetToSeq(S) \in Seq(S)
    BY <2>1, <2>3
  <2> QED  BY <2>4 DEF isSeq
<1>2. CASE S = {x}
  <2>1. Cardinality(S) = 1
    BY <1>2, FS_Singleton
  <2> DEFINE g == [i \in 1..1 |-> x]
  <2>2. g \in [1..Cardinality(S) -> S] /\ IsInjective(g)
    BY <1>2, <2>1 DEF IsInjective
  <2>3. SetToSeq(S) \in [1..Cardinality(S) -> S]
    BY <2>2 DEF SetToSeq
  <2>4. \A n \in Nat : [1..n -> S] \subseteq Seq(S)
    OBVIOUS
  <2>5. Cardinality(S) \in Nat
    BY <2>1
  <2> QED  BY <2>3, <2>4, <2>5 DEF isSeq
<1> QED  BY <1>1, <1>2

ToolDoneFold == INSTANCE FoldInduction WITH Op <- toolDone
ToolsFold == INSTANCE FoldInduction WITH Op <- fromTool

LEMMA ToolsDoneTellNothing ==
  ASSUME NEW c, NEW s, ready(c, s), NEW indexes, isSeq(indexes)
  PROVE  quietStep(c, s, toolsDone(s, indexes))
<1>1. \A t : toolsDone(s, t) = ToolDoneFold!fold(s, t)
  BY DEF toolsDone, ToolDoneFold!fold, FoldLeft, ToolDoneFold!FoldLeft,
         MapThenFoldSet, ToolDoneFold!MapThenFoldSet, Max, ToolDoneFold!Max
<1>2. PICK E : indexes \in Seq(E)
  BY DEF isSeq
<1> DEFINE Z == {t \in Seq(E) : quietStep(c, s, ToolDoneFold!fold(s, t))}
<1>3. <<>> \in Z
  BY ToolDoneFold!FoldEmpty, StepsTell
<1>4. ASSUME NEW t \in Seq(E), NEW index \in E, t \in Z
      PROVE  Append(t, index) \in Z
  <2> DEFINE x == ToolDoneFold!fold(s, t)
             e(name) == Full(Response(name, index, "function_call",
                                       x.ToolCalls[index], None, x.seqNum),
                              textAt(x.ToolArgs, index))
             y == emit(x, e("response.function_call_arguments.done"))
             z == emit(y, e("response.output_item.done"))
  <2>1. quietStep(c, s, x) /\ ready(c, x)
    BY <1>4, StepsTell
  <2>2. ToolDoneFold!fold(s, Append(t, index)) = toolDone(x, index)
    BY ToolDoneFold!FoldAppend
  <2> HIDE DEF x
  <2>3. toolDone(x, index) = z
    BY DEF toolDone
  <2>4. /\ quietItem(e("response.function_call_arguments.done"))
        /\ quietItem(e("response.output_item.done"))
    BY DEF quietItem, Response, Full
  <2> HIDE DEF e
  <2>5. quietStep(c, x, y) /\ ready(c, y)
    BY <2>1, <2>4, StepEmit, StepsTell
  <2> HIDE DEF y
  <2>6. quietStep(c, y, z)
    BY <2>4, <2>5, StepEmit
  <2> HIDE DEF z
  <2>7. quietStep(c, s, z)
    BY <2>1, <2>5, <2>6, StepsTell
  <2> QED  BY <2>2, <2>3, <2>7
<1>5. Seq(E) \subseteq Z
  <2> HIDE DEF Z
  <2> QED  BY <1>3, <1>4, ToolDoneFold!SeqSetInduction
<1> QED  BY <1>1, <1>2, <1>5

LEMMA CreatedTellsNothing ==
  ASSUME NEW c, NEW s, ready(c, s), NEW role
  PROVE  quietStep(c, s, fromRole(created(s), role))
<1> DEFINE x1 == [s EXCEPT !.ResponseCreated = TRUE]
           e1 == Lifecycle("response.created", s.seqNum)
           e2 == Lifecycle("response.in_progress", s.seqNum)
           x2 == emit(x1, e1)
           x3 == emit(x2, e2)
           x4 == created(s)
           e5 == Response("response.output_item.added", choiceIndex, "message", None,
                          None, x4.seqNum)
<1>1. x4 = IF s.ResponseCreated THEN s ELSE x3
  BY DEF created
<1>2. quietStep(c, s, x1) /\ ready(c, x1)
  BY StepChange, StepsTell
<1> HIDE DEF x1
<1>3. quietItem(e1) /\ quietItem(e2) /\ quietItem(e5)
  BY DEF quietItem, Lifecycle, Response
<1> HIDE DEF e1, e2
<1>4. quietStep(c, x1, x2) /\ ready(c, x2)
  BY <1>2, <1>3, StepEmit, StepsTell
<1> HIDE DEF x2
<1>5. quietStep(c, x2, x3)
  BY <1>3, <1>4, StepEmit
<1> HIDE DEF x3
<1>6. quietStep(c, s, x3)
  BY <1>2, <1>4, <1>5, StepsTell
<1>7. quietStep(c, s, x4) /\ ready(c, x4)
  BY <1>1, <1>6, StepsTell
<1> HIDE DEF x4, e5
<1>8. quietStep(c, x4, emit(x4, e5)) /\ quietStep(c, x4, x4)
  BY <1>3, <1>7, StepEmit, StepsTell
<1>9. fromRole(x4, role) = IF role THEN emit(x4, e5) ELSE x4
  BY DEF fromRole, emitIf, e5
<1>10. quietStep(c, s, fromRole(x4, role))
  BY <1>7, <1>8, <1>9, StepsTell
<1> QED  BY <1>10 DEF x4

LEMMA FromTextTells ==
  ASSUME NEW c, NEW s, ready(c, s), NEW piece
  PROVE  textStep(c, s, fromText(s, piece), piece)
<1>1. CASE piece = None
  BY <1>1, StepsTell DEF fromText
<1>2. CASE piece # None
  <2> DEFINE e1 == Response("response.content_part.added", choiceIndex, "text", None,
                            None, s.seqNum)
             x1 == emitIf(~hasText(s), s, e1)
             x2 == [x1 EXCEPT !.MessageText =
                      put(@, choiceIndex, Append(messageText(s), piece))]
             e3 == Response("response.output_text.delta", choiceIndex, "text", None,
                            piece, s.seqNum)
  <2>1. fromText(s, piece) = emit(x2, e3)
    BY <1>2 DEF fromText
  <2>2. quietItem(e1)
    BY DEF quietItem, Response
  <2>3. /\ e3.event = "response.output_text.delta" /\ e3.kind = "text"
        /\ e3.piece = piece
    BY DEF Response
  <2> HIDE DEF e1, e3
  <2>4. quietStep(c, s, x1) /\ ready(c, x1)
    BY <2>2, StepEmit, StepsTell DEF emitIf
  <2> HIDE DEF x1
  <2>5. quietStep(c, x1, x2) /\ ready(c, x2)
    BY <2>4, StepChange, StepsTell
  <2> HIDE DEF x2
  <2>6. toldMore(c, x2, emit(x2, e3), piece) /\ DOMAIN emit(x2, e3) = DOMAIN x2
    BY <1>2, <2>3, <2>5, ResponsesEmit DEF ready
  <2>7. emit(x2, e3).ToolCalls = x2.ToolCalls
    BY <2>5 DEF emit, ready, assembling
  <2>8. textStep(c, x2, emit(x2, e3), piece)
    BY <2>5, <2>6, <2>7 DEF textStep, ready, assembling
  <2> QED  BY <2>1, <2>4, <2>5, <2>8, StepsTell
<1> QED  BY <1>1, <1>2

LEMMA FromToolTellsNothing ==
  ASSUME NEW c, NEW s, ready(c, s), NEW call
  PROVE  quietStep(c, s, fromTool(s, call))
<1> DEFINE index == choiceIndex + ToolBase
           e1 == Response("response.output_item.added", index, "function_call",
                          call.id, None, s.seqNum)
           x1 == emitIf(call.id # None, s, e1)
           ids == IF call.id = None THEN x1.ToolCalls
                  ELSE put(x1.ToolCalls, index, call.id)
           x2 == [x1 EXCEPT !.ToolCalls = ids]
           x3 == [x2 EXCEPT !.ToolArgs =
                    put(@, index, Append(textAt(@, index), call.args))]
           e4 == Response("response.function_call_arguments.delta", index,
                          "function_call", call.id, call.args, s.seqNum)
<1>1. fromTool(s, call) = IF call.args = None THEN x2 ELSE emit(x3, e4)
  BY DEF fromTool
<1>2. index = ToolBase
  BY DEF choiceIndex, ToolBase
<1>3. quietItem(e1) /\ (call.args # None => quietItem(e4))
  BY DEF quietItem, Response
<1> HIDE DEF e1, e4
<1>4. quietStep(c, s, x1) /\ ready(c, x1)
  BY <1>3, StepEmit, StepsTell DEF emitIf
<1> HIDE DEF x1
<1>5. DOMAIN ids \subseteq {ToolBase}
  <2> DEFINE calls == x1.ToolCalls
  <2>1. DOMAIN calls \subseteq {ToolBase}
    BY <1>4 DEF ready, assembling
  <2> HIDE DEF calls
  <2>2. DOMAIN put(calls, index, call.id) = {index} \union DOMAIN calls
    BY DEF put
  <2>3. DOMAIN (IF call.id = None THEN calls ELSE put(calls, index, call.id))
          \subseteq {ToolBase}
    BY <1>2, <2>1, <2>2
  <2> QED  BY <2>3 DEF calls
<1> HIDE DEF ids
<1>6. quietStep(c, x1, x2) /\ ready(c, x2)
  BY <1>4, <1>5, StepChange, StepsTell
<1> HIDE DEF x2
<1>7. quietStep(c, x2, x3) /\ ready(c, x3)
  BY <1>6, StepChange, StepsTell
<1> HIDE DEF x3
<1>8. call.args # None => quietStep(c, x3, emit(x3, e4))
  BY <1>3, <1>7, StepEmit
<1>9. quietStep(c, s, x2)
  BY <1>4, <1>6, StepsTell
<1>10. call.args # None => quietStep(c, s, emit(x3, e4))
  BY <1>7, <1>8, <1>9, StepsTell
<1> QED  BY <1>1, <1>9, <1>10

LEMMA FromToolsTellNothing ==
  ASSUME NEW c, NEW s, ready(c, s), NEW f, fewTools(f)
  PROVE  quietStep(c, s, fromTools(s, f.tools))
<1>1. \A t : fromTools(s, t) = ToolsFold!fold(s, t)
  BY DEF fromTools, ToolsFold!fold, FoldLeft, ToolsFold!FoldLeft,
         MapThenFoldSet, ToolsFold!MapThenFoldSet, Max, ToolsFold!Max
<1>2. CASE f.tools = <<>>
  BY <1>1, <1>2, ToolsFold!FoldEmpty, StepsTell
<1>3. ASSUME NEW call, f.tools = <<call>>
      PROVE  quietStep(c, s, fromTools(s, f.tools))
  BY <1>1, <1>3, ToolsFold!FoldOne, FromToolTellsNothing
<1> QED  BY <1>2, <1>3 DEF fewTools

LEMMA FromFinishTellsNothing ==
  ASSUME NEW c, NEW s, ready(c, s), NEW reason
  PROVE  quietStep(c, s, fromFinish(s, reason))
<1>1. CASE reason = ""
  BY <1>1, StepsTell DEF fromFinish
<1>2. CASE reason # ""
  <2> DEFINE e(name) == Full(Response(name, choiceIndex, "message", None, None,
                                       s.seqNum), messageText(s))
             x1 == emit(s, e("response.output_text.done"))
             x2 == emit(x1, e("response.content_part.done"))
             x3 == IF ~hasText(s) THEN s ELSE x2
             order == SetToSeq(DOMAIN s.ToolCalls)
             x4 == IF reason # "tool_calls" THEN x3 ELSE toolsDone(x3, order)
  <2>1. fromFinish(s, reason) = emit(x4, e("response.output_item.done"))
    BY <1>2 DEF fromFinish
  <2>2. /\ quietItem(e("response.output_text.done"))
        /\ quietItem(e("response.content_part.done"))
        /\ quietItem(e("response.output_item.done"))
    BY DEF quietItem, Response, Full
  <2>3. isSeq(order)
    BY SetToSeqIsSeq DEF ready, assembling
  <2> HIDE DEF e, order
  <2>4. quietStep(c, s, x1) /\ ready(c, x1)
    BY <2>2, StepEmit, StepsTell
  <2> HIDE DEF x1
  <2>5. quietStep(c, x1, x2)
    BY <2>2, <2>4, StepEmit
  <2> HIDE DEF x2
  <2>6. quietStep(c, s, x3) /\ ready(c, x3)
    BY <2>4, <2>5, StepsTell
  <2> HIDE DEF x3
  <2>7. quietStep(c, x3, x4) /\ ready(c, x4)
    BY <2>3, <2>6, ToolsDoneTellNothing, StepsTell
  <2> HIDE DEF x4
  <2>8. quietStep(c, x4, emit(x4, e("response.output_item.done")))
    BY <2>2, <2>7, StepEmit
  <2> QED  BY <2>1, <2>6, <2>7, <2>8, StepsTell
<1> QED  BY <1>1, <1>2

LEMMA ChunkToResponsesTells ==
  ASSUME NEW c, NEW s, ready(c, s), NEW f, fewTools(f)
  PROVE  textStep(c, s, ConvertChatChunkToResponsesEventsStateful(s, f), f.content)
<1> DEFINE x1 == fromRole(created(s), f.role)
           x2 == fromText(x1, f.content)
           x3 == fromTools(x2, f.tools)
           x4 == fromFinish(x3, f.finish)
<1>1. quietStep(c, s, x1) /\ ready(c, x1)
  BY CreatedTellsNothing, StepsTell
<1> HIDE DEF x1
<1>2. textStep(c, x1, x2, f.content) /\ ready(c, x2)
  BY <1>1, FromTextTells, StepsTell
<1> HIDE DEF x2
<1>3. quietStep(c, x2, x3) /\ ready(c, x3)
  BY <1>2, FromToolsTellNothing, StepsTell
<1> HIDE DEF x3
<1>4. quietStep(c, x3, x4)
  BY <1>3, FromFinishTellsNothing
<1> HIDE DEF x4
<1>5. textStep(c, s, x4, f.content)
  BY <1>1, <1>2, <1>3, <1>4, StepsTell
<1> QED  BY <1>5 DEF ConvertChatChunkToResponsesEventsStateful, x1, x2, x3, x4

LEMMA ResponsesFromChatTells ==
  ASSUME NEW c, isView(c), NEW s, "out" \in DOMAIN s, s.out = <<>>, assembling(s),
         NEW f, known("chat", f),
         NEW u, u = IF f = Done
                    THEN handled(writeResponsesStreamDone(s, messageText(s)), FALSE)
                    ELSE LET x == [s EXCEPT !.seqNum = @ + 1]
                         IN handled(IF f.choices > 0
                                    THEN ConvertChatChunkToResponsesEventsStateful(x, f)
                                    ELSE emitIf(f.usage # NoUsage, x,
                                                BuildResponsesCompletedEvent(
                                                  f.usage, messageText(x),
                                                  x.seqNum + 1)), FALSE)
  PROVE  /\ hears(c, ResponsesReads(c, u.codec.out), textOf("chat", f), None, "",
                  endOf("chat", f))
         /\ assembling(u.codec) /\ "out" \in DOMAIN u.codec
         /\ u.returns = FALSE
<1>1. shown(c, s) = c /\ ready(c, s)
  BY ReadsShort, SequencesGrow DEF writing, shown, ready
<1>2. CASE f = Done
  <2> DEFINE v == writeResponsesStreamDone(s, messageText(s))
  <2>1. u.codec = v /\ u.returns = FALSE
    BY <1>2 DEF handled
  <2>2. /\ writing(v) /\ DOMAIN v = DOMAIN s
        /\ hears(shown(c, s), shown(c, v), None, None, "", TRUE)
    BY <1>1, StreamDoneTells DEF ready
  <2>3. v.ToolCalls = s.ToolCalls
    BY <1>1 DEF writeResponsesStreamDone, emit, ready, assembling, writing
  <2>4. endOf("chat", f) = TRUE /\ textOf("chat", f) = None
    BY <1>2 DEF endOf, textOf, Done
  <2> HIDE DEF v
  <2>5. hears(c, ResponsesReads(c, u.codec.out), None, None, "", TRUE)
    BY <1>1, <2>1, <2>2 DEF shown
  <2>6. assembling(u.codec) /\ "out" \in DOMAIN u.codec
    BY <2>1, <2>2, <2>3 DEF assembling
  <2> QED  BY <2>1, <2>4, <2>5, <2>6
<1>3. CASE f # Done
  <2> DEFINE x == [s EXCEPT !.seqNum = @ + 1]
             e == BuildResponsesCompletedEvent(f.usage, messageText(x), x.seqNum + 1)
             v == IF f.choices > 0 THEN ConvertChatChunkToResponsesEventsStateful(x, f)
                  ELSE emitIf(f.usage # NoUsage, x, e)
  <2>1. u.codec = v /\ u.returns = FALSE
    BY <1>3 DEF handled
  <2>2. /\ f.event = "chunk" /\ fewTools(f)
        /\ f.choices = 0 => f.content = None
        /\ f.choices \in {0, 1}
    BY <1>3 DEF known
  <2>3. quietStep(c, s, x) /\ ready(c, x)
    BY <1>1, StepChange, StepsTell
  <2>4. quietItem(e)
    BY DEF quietItem, BuildResponsesCompletedEvent, Lifecycle, Response, Full, WithUsage
  <2> HIDE DEF x, e
  <2>5. textStep(c, x, v, f.content)
    <3>1. CASE f.choices > 0
      <4>1. v = ConvertChatChunkToResponsesEventsStateful(x, f)
        BY <3>1
      <4> QED  BY <2>2, <2>3, <4>1, ChunkToResponsesTells
    <3>2. CASE ~(f.choices > 0) /\ f.usage # NoUsage
      <4>1. v = emit(x, e)
        BY <3>2 DEF emitIf
      <4>2. quietStep(c, x, v)
        BY <2>3, <2>4, <4>1, StepEmit
      <4>3. f.content = None
        BY <2>2, <3>2
      <4> QED  BY <4>2, <4>3, StepsTell
    <3>3. CASE ~(f.choices > 0) /\ f.usage = NoUsage
      <4>1. v = x
        BY <3>3 DEF emitIf
      <4>2. f.content = None
        BY <2>2, <3>3
      <4> QED  BY <2>3, <4>1, <4>2, StepsTell
    <3> QED  BY <3>1, <3>2, <3>3
  <2> HIDE DEF v
  <2>6. textStep(c, s, v, f.content)
    BY <2>3, <2>5, StepsTell
  <2>7. endOf("chat", f) = FALSE /\ textOf("chat", f) = f.content
    BY <2>2 DEF endOf, textOf
  <2>8. hears(c, ResponsesReads(c, v.out), f.content, None, "", FALSE)
    BY <1>1, <2>6 DEF textStep, toldMore, shown
  <2> QED  BY <2>1, <2>6, <2>7, <2>8 DEF textStep, toldMore, writing
<1> QED  BY <1>2, <1>3
-----------------------------------------------------------------------------
(* What a provider's frames tell.                                          *)

silent(p, f) == textOf(p, f) = None /\ thinkingOf(p, f) = None
closes(f) == f.event \in {"[DONE]", "message_stop", "response.completed"}
finishes(p, f) ==
  CASE p = "chat" -> f.event = "chunk" /\ f.finish # ""
    [] p = "responses" -> f.event = "response.completed"
    [] OTHER -> f.event = "message_delta"
donesCall(f) == f.event = "response.output_item.done" /\ f.kind = "function_call"

\* A frame that does not end the answer, and one that says nothing of it.
calm(p, f) == ~finishes(p, f) /\ ~closes(f) /\ ~donesCall(f)
plain(p, f) == known(p, f) /\ silent(p, f) /\ calm(p, f) /\ ~showsCall(f)

LEMMA ChunkSays ==
  ASSUME NEW e, NEW text, NEW thinking, NEW reason,
         tellsChunk(e, text, thinking, reason)
  PROVE  /\ known("chat", e) /\ ~showsCall(e)
         /\ textOf("chat", e) = text /\ thinkingOf("chat", e) = thinking
         /\ reason = "" => calm("chat", e)
<1>1. known("chat", e) /\ textOf("chat", e) = text /\ thinkingOf("chat", e) = thinking
  BY DEF tellsChunk, known, textOf, thinkingOf
<1>2. reason = "" => calm("chat", e)
  BY DEF tellsChunk, calm, finishes, closes, donesCall
<1>3. ~showsCall(e)
  BY DEF tellsChunk, showsCall
<1> QED  BY <1>1, <1>2, <1>3

plainFrames(p, s) == isSeq(s) /\ \A i \in 1..Len(s) : plain(p, s[i])

\* All of the frames are silent but the last, which has these pieces.
carries(p, s, text, thinking) ==
  /\ isSeq(s)
  /\ \A i \in 1..Len(s) : known(p, s[i])
  /\ \A i \in 1..Len(s) : i < Len(s) => silent(p, s[i])
  /\ IF s = <<>> THEN text = None /\ thinking = None
     ELSE textOf(p, Last(s)) = text /\ thinkingOf(p, Last(s)) = thinking

allCalm(p, s) == \A i \in 1..Len(s) : calm(p, s[i])

LEMMA Concatenation ==
  ASSUME NEW s, isSeq(s), NEW t, isSeq(t)
  PROVE  /\ isSeq(s \o t) /\ Len(s \o t) = Len(s) + Len(t)
         /\ Len(s) \in Nat /\ Len(t) \in Nat
         /\ \A i \in 1..Len(s) : (s \o t)[i] = s[i]
         /\ \A i \in 1..Len(t) : (s \o t)[Len(s) + i] = t[i]
         /\ \A i \in 1..Len(s) + Len(t) :
              i \in 1..Len(s) \/ i - Len(s) \in 1..Len(t)
<1>1. PICK S : s \in Seq(S)
  BY DEF isSeq
<1>2. PICK T : t \in Seq(T)
  BY DEF isSeq
<1>3. s \in Seq(S \union T) /\ t \in Seq(S \union T)
  BY <1>1, <1>2
<1>4. s \o t \in Seq(S \union T)
  BY <1>3
<1>5. isSeq(s \o t)
  BY <1>4 DEF isSeq
<1>6. /\ Len(s \o t) = Len(s) + Len(t)
      /\ Len(s) \in Nat /\ Len(t) \in Nat
      /\ \A i \in 1..Len(s) : (s \o t)[i] = s[i]
      /\ \A i \in 1..Len(t) : (s \o t)[Len(s) + i] = t[i]
  BY <1>3
<1> QED  BY <1>5, <1>6

LEMMA Single ==
  \A e : isSeq(<<e>>) /\ Len(<<e>>) = 1 /\ <<e>>[1] = e /\ <<e>> # <<>>
<1> TAKE e
<1>1. <<e>> \in Seq({e})
  OBVIOUS
<1> QED  BY <1>1 DEF isSeq

LEMMA Pair ==
  \A x, e : /\ isSeq(<<x, e>>) /\ Len(<<x, e>>) = 2
            /\ <<x, e>>[1] = x /\ <<x, e>>[2] = e
<1> TAKE x, e
<1>1. <<x, e>> \in Seq({x, e})
  OBVIOUS
<1>2. Len(<<x, e>>) = 2 /\ <<x, e>>[1] = x /\ <<x, e>>[2] = e
  OBVIOUS
<1> QED  BY <1>1, <1>2 DEF isSeq

\* r is s with t behind it.
joined(r, s, t) ==
  /\ isSeq(r) /\ Len(s) \in Nat /\ Len(t) \in Nat /\ Len(r) = Len(s) + Len(t)
  /\ \A i \in 1..Len(s) : r[i] = s[i]
  /\ \A i \in 1..Len(t) : r[Len(s) + i] = t[i]

LEMMA Joined ==
  \A s, t : isSeq(s) /\ isSeq(t) => joined(s \o t, s, t)
<1> SUFFICES ASSUME NEW s, NEW t, isSeq(s), isSeq(t)
             PROVE  joined(s \o t, s, t)
  OBVIOUS
<1>1. isSeq(s \o t) /\ Len(s) \in Nat /\ Len(t) \in Nat
      /\ Len(s \o t) = Len(s) + Len(t)
  BY Concatenation
<1>2. \A i \in 1..Len(s) : (s \o t)[i] = s[i]
  BY Concatenation
<1>3. \A i \in 1..Len(t) : (s \o t)[Len(s) + i] = t[i]
  BY Concatenation
<1> QED  BY <1>1, <1>2, <1>3, Zenon DEF joined

LEMMA Extended ==
  ASSUME NEW s, isSeq(s), NEW d, NEW r, r = s \o <<d>>
  PROVE  /\ isSeq(r) /\ Len(s) \in Nat /\ Len(r) = Len(s) + 1
         /\ \A i \in 1..Len(s) : r[i] = s[i]
         /\ r[Len(s) + 1] = d
<1>1. isSeq(<<d>>)
  BY Single
<1>2. joined(r, s, <<d>>)
  BY <1>1, Joined
<1> QED  BY <1>2, Single DEF joined

\* r is c with e and then g behind it.
parted(r, c, e, g) ==
  /\ isSeq(r) /\ r # <<>> /\ Last(r) = g
  /\ \A i \in 1..Len(r) :
       \/ i # Len(r) /\ \E j \in 1..Len(c) : r[i] = c[j]
       \/ i # Len(r) /\ \E j \in 1..Len(e) : r[i] = e[j]
       \/ i = Len(r) /\ r[i] = g
  /\ \A j \in 1..Len(e) : \E i \in 1..Len(r) : r[i] = e[j]
  /\ \A i \in 1..Len(r) : i < Len(r) => i # Len(r)

LEMMA ThreeParts ==
  ASSUME NEW c, NEW e, NEW g, NEW s, joined(s, e, <<g>>), NEW r, joined(r, c, s)
  PROVE  parted(r, c, e, g)
<1>1. /\ isSeq(s) /\ Len(e) \in Nat /\ Len(s) = Len(e) + 1
      /\ \A i \in 1..Len(e) : s[i] = e[i]
      /\ s[Len(e) + 1] = g
  BY Single DEF joined
<1>2. /\ isSeq(r) /\ Len(r) = Len(c) + Len(s) /\ Len(c) \in Nat
      /\ \A i \in 1..Len(c) : r[i] = c[i]
      /\ \A i \in 1..Len(s) : r[Len(c) + i] = s[i]
  BY DEF joined
<1>3. PICK m \in Nat, n \in Nat : m = Len(c) /\ n = Len(e)
  <2>1. Len(c) \in Nat /\ Len(e) \in Nat
    BY <1>1, <1>2
  <2> QED  BY <2>1
<1>4. Len(r) = m + n + 1
  <2>1. Len(r) = Len(c) + Len(s) /\ Len(s) = Len(e) + 1
    BY <1>1, <1>2
  <2> QED  BY <1>3, <2>1
<1>5. \A j \in 1..n : m + j \in 1..Len(r) /\ m + j # Len(r) /\ r[m + j] = e[j]
  <2> TAKE j \in 1..n
  <2>1. j \in 1..Len(s)
    BY <1>1, <1>3
  <2> QED  BY <1>1, <1>2, <1>3, <1>4, <2>1
<1>6. r[Len(r)] = g
  <2>1. n + 1 \in 1..Len(s) /\ m + (n + 1) = Len(r)
    BY <1>1, <1>3, <1>4
  <2> QED  BY <1>1, <1>2, <1>3, <2>1
<1>7. r # <<>>
  BY <1>4
<1>8. ASSUME NEW i \in 1..Len(r)
      PROVE  \/ i # Len(r) /\ \E j \in 1..m : r[i] = c[j]
             \/ i # Len(r) /\ \E j \in 1..n : r[i] = e[j]
             \/ i = Len(r) /\ r[i] = g
  <2>1. CASE i \in 1..m
    BY <1>2, <1>3, <1>4, <2>1
  <2>2. CASE i \notin 1..m /\ i # Len(r)
    <3>1. i - m \in 1..n /\ m + (i - m) = i
      BY <1>4, <2>2
    <3> QED  BY <1>5, <2>2, <3>1
  <2>3. CASE i = Len(r)
    BY <1>6, <2>3
  <2> QED  BY <2>1, <2>2, <2>3
<1>9. \A i \in 1..Len(r) : i < Len(r) => i # Len(r)
  BY <1>4
<1>10. Last(r) = g
  BY <1>6, <1>7 DEF Last
<1> QED  BY <1>2, <1>3, <1>5, <1>7, <1>8, <1>9, <1>10 DEF parted

LEMMA FunctionIsSeq ==
  \A n \in Nat : \A S : \A s \in [1..n -> S] : isSeq(s) /\ Len(s) = n
<1> TAKE n \in Nat
<1> TAKE S
<1> TAKE s \in [1..n -> S]
<1>1. s \in Seq(S) /\ Len(s) = n
  OBVIOUS
<1> QED  BY <1>1 DEF isSeq

LEMMA PlainFrames ==
  ASSUME NEW p
  PROVE  /\ plainFrames(p, <<>>)
         /\ \A f : plain(p, f) => plainFrames(p, <<f>>)
         /\ \A s, t : plainFrames(p, s) /\ plainFrames(p, t) => plainFrames(p, s \o t)
<1>1. plainFrames(p, <<>>)
  BY SequencesGrow DEF plainFrames
<1>2. \A f : plain(p, f) => plainFrames(p, <<f>>)
  <2>1. ASSUME NEW f, plain(p, f), NEW s, s = <<f>>
        PROVE  plainFrames(p, s)
    <3>1. isSeq(s) /\ Len(s) = 1 /\ s[1] = f
      BY <2>1, Single
    <3> QED  BY <2>1, <3>1 DEF plainFrames
  <2> QED  BY <2>1
<1>3. ASSUME NEW s, NEW t, plainFrames(p, s), plainFrames(p, t), NEW r, r = s \o t
      PROVE  plainFrames(p, r)
  <2>1. /\ isSeq(r) /\ Len(r) = Len(s) + Len(t)
        /\ Len(s) \in Nat /\ Len(t) \in Nat
        /\ \A i \in 1..Len(s) : r[i] = s[i]
        /\ \A i \in 1..Len(t) : r[Len(s) + i] = t[i]
    <3>1. isSeq(s) /\ isSeq(t)
      BY <1>3 DEF plainFrames
    <3>2. joined(r, s, t)
      BY <1>3, <3>1, Joined
    <3> QED  BY <3>2 DEF joined
  <2>2. ASSUME NEW i \in 1..Len(r)
        PROVE  plain(p, r[i])
    <3>1. CASE i \in 1..Len(s)
      BY <1>3, <2>1, <3>1 DEF plainFrames
    <3>2. CASE i \notin 1..Len(s)
      <4> DEFINE j == i - Len(s)
      <4>1. j \in 1..Len(t) /\ Len(s) + j = i
        BY <2>1, <3>2
      <4> HIDE DEF j
      <4>2. r[i] = t[j]
        BY <2>1, <4>1
      <4> QED  BY <1>3, <4>1, <4>2 DEF plainFrames
    <3> QED  BY <3>1, <3>2
  <2> QED  BY <2>1, <2>2 DEF plainFrames
<1> QED  BY <1>1, <1>2, <1>3

LEMMA PlainThenOne ==
  ASSUME NEW p, NEW s, plainFrames(p, s), NEW d, known(p, d), NEW r, r = s \o <<d>>
  PROVE  /\ carries(p, r, textOf(p, d), thinkingOf(p, d))
         /\ r # <<>> /\ Last(r) = d
         /\ \A i \in 1..Len(r) : r[i] = d \/ plain(p, r[i])
         /\ calm(p, d) => allCalm(p, r)
<1> DEFINE n == Len(s)
<1>1. /\ isSeq(r) /\ Len(r) = n + 1 /\ n \in Nat
      /\ \A i \in 1..n : r[i] = s[i]
      /\ r[n + 1] = d
  <2>1. /\ isSeq(r) /\ Len(r) = n + Len(<<d>>) /\ n \in Nat
        /\ \A i \in 1..n : r[i] = s[i]
        /\ \A i \in 1..Len(<<d>>) : r[n + i] = <<d>>[i]
    <3>1. isSeq(s) /\ isSeq(<<d>>)
      BY Single DEF plainFrames
    <3>2. joined(r, s, <<d>>)
      BY <3>1, Joined
    <3> QED  BY <3>2 DEF joined
  <2> QED  BY <2>1, Single
<1>2. \A i \in 1..n : plain(p, r[i])
  BY <1>1 DEF plainFrames
<1> HIDE DEF n
<1>3. \A i \in 1..Len(r) : i = n + 1 \/ i \in 1..n
  BY <1>1
<1>4. r # <<>> /\ Last(r) = d
  BY <1>1 DEF Last
<1>5. \A i \in 1..Len(r) : i < Len(r) => i \in 1..n
  BY <1>1
<1>6. \A i \in 1..Len(r) : r[i] = d \/ plain(p, r[i])
  BY <1>1, <1>2, <1>3
<1>7. carries(p, r, textOf(p, d), thinkingOf(p, d))
  BY <1>1, <1>2, <1>4, <1>5, <1>6 DEF carries, plain
<1> QED  BY <1>4, <1>6, <1>7 DEF allCalm, plain

LEMMA PlainCarries ==
  ASSUME NEW p, NEW s, plainFrames(p, s)
  PROVE  carries(p, s, None, None) /\ allCalm(p, s)
<1>1. s # <<>> => Len(s) \in 1..Len(s)
  <2>1. PICK S : s \in Seq(S)
    BY DEF plainFrames, isSeq
  <2> QED  BY <2>1
<1> QED  BY <1>1 DEF plainFrames, plain, carries, allCalm, silent, Last

\* A provider as its own actions leave it.
isUp(p, u) ==
  /\ {"phase", "pieces", "text", "thinking", "args", "index", "open", "next",
      "finish", "usage", "usageApart"} \subseteq DOMAIN u
  /\ u.phase \in {"new", "talking", "finished", "ended"}
  /\ u.pieces \in Nat /\ u.text \in Seq(Nat) /\ u.thinking \in Seq(Nat)
  /\ p = "responses" => u.open.kind # "function_call"
  /\ IsFiniteSet(toolsOf(u))
  /\ u.phase \in {"finished", "ended"} => u.finish \in Reasons(u)

\* The parts of an answer a step does not touch.
sameEnd(u, v) == v.phase = u.phase /\ v.finish = u.finish
sameCalls(u, v) == toolsOf(v) = toolsOf(u)
sameWords(u, v) ==
  v.text = u.text /\ v.thinking = u.thinking /\ v.pieces = u.pieces

LEMMA ClosingPlain ==
  ASSUME NEW p \in Dialects, NEW u, isUp(p, u)
  PROVE  plainFrames(p, closing(p, u))
<1>1. CASE p = "anthropic"
  <2>1. plain(p, BlockStop(u.open.index))
    BY <1>1 DEF plain, BlockStop, known, silent, calm, finishes, closes, donesCall,
                showsCall, textOf, thinkingOf
  <2>2. closing(p, u) = <<>> \/ closing(p, u) = <<BlockStop(u.open.index)>>
    BY <1>1 DEF closing
  <2> QED  BY <2>1, <2>2, PlainFrames
<1>2. CASE p = "responses"
  <2> DEFINE e == event("response.output_item.done", u.open.index, u.open.kind,
                        None, None)
  <2>1. e.event = "response.output_item.done" /\ e.kind = u.open.kind
    BY DEF event, Response
  <2>2. u.open.kind # "function_call"
    BY <1>2 DEF isUp
  <2>3. closing(p, u) = <<>> \/ closing(p, u) = <<e>>
    BY <1>2 DEF closing
  <2> HIDE DEF e
  <2>4. plain(p, e)
    BY <1>2, <2>1, <2>2 DEF plain, known, silent, calm, finishes, closes, donesCall,
                showsCall, textOf, thinkingOf
  <2> QED  BY <2>3, <2>4, PlainFrames
<1>3. CASE p = "chat"
  <2>1. closing(p, u) = <<>>
    BY <1>3 DEF closing
  <2> QED  BY <2>1, PlainFrames
<1> QED  BY <1>1, <1>2, <1>3 DEF Dialects

LEMMA InBlockPlain ==
  ASSUME NEW p \in Dialects, NEW u, isUp(p, u), NEW kind,
         p = "responses" => kind = "message", NEW b, b = inBlock(p, u, kind)
  PROVE  /\ plainFrames(p, b.frames) /\ isUp(p, b.up)
         /\ sameEnd(u, b.up) /\ sameCalls(u, b.up) /\ sameWords(u, b.up)
<1>1. CASE u.open.kind = kind
  <2>1. b.up = u /\ b.frames = <<>>
    BY <1>1 DEF inBlock, says
  <2> QED  BY <2>1, PlainFrames DEF sameEnd, sameCalls, sameWords
<1>2. CASE u.open.kind # kind
  <2> DEFINE v == [u EXCEPT !.open = [index |-> u.next, kind |-> kind], !.next = @ + 1]
             o == opening(p, u.next, kind, None)
  <2>1. b.up = v /\ b.frames = closing(p, u) \o o
    BY <1>2 DEF inBlock, says
  <2>2. isUp(p, v) /\ sameEnd(u, v) /\ sameCalls(u, v) /\ sameWords(u, v)
    <3>1. /\ DOMAIN v = DOMAIN u /\ v.phase = u.phase /\ v.pieces = u.pieces
          /\ v.text = u.text /\ v.thinking = u.thinking /\ v.args = u.args
          /\ v.finish = u.finish /\ v.open.kind = kind
      BY DEF isUp
    <3> HIDE DEF v
    <3> QED  BY <3>1 DEF isUp, sameEnd, sameCalls, sameWords, toolsOf, Reasons
  <2>3. plainFrames(p, o)
    <3>1. CASE p = "anthropic"
      <4>1. plain(p, BlockStart(u.next, kind, None))
        BY <3>1 DEF plain, BlockStart, known, silent, calm, finishes, closes,
                    donesCall, showsCall, textOf, thinkingOf
      <4>2. o = <<BlockStart(u.next, kind, None)>>
        BY <3>1 DEF opening
      <4> QED  BY <4>1, <4>2, PlainFrames
    <3>2. CASE p = "responses"
      <4> DEFINE e == event("response.output_item.added", u.next, kind, None, None)
      <4>1. e.event = "response.output_item.added" /\ e.kind = "message"
        BY <3>2 DEF event, Response
      <4>2. o = <<e>>
        BY <3>2 DEF opening
      <4> HIDE DEF e
      <4>3. plain(p, e)
        BY <3>2, <4>1 DEF plain, known, silent, calm, finishes, closes, donesCall,
                          showsCall, textOf, thinkingOf
      <4> QED  BY <4>2, <4>3, PlainFrames
    <3>3. CASE p = "chat"
      <4>1. o = <<>>
        BY <3>3 DEF opening
      <4> QED  BY <4>1, PlainFrames
    <3> QED  BY <3>1, <3>2, <3>3 DEF Dialects
  <2>4. plainFrames(p, closing(p, u))
    BY ClosingPlain
  <2> HIDE DEF v, o
  <2> QED  BY <2>1, <2>2, <2>3, <2>4, PlainFrames
<1> QED  BY <1>1, <1>2

\* What the provider said at once: these pieces, in frames that carry them.
spoke(p, u, said, text, thinking) ==
  /\ isUp(p, said.up)
  /\ said.up.text = append(u.text, text)
  /\ said.up.thinking = append(u.thinking, thinking)
  /\ carries(p, said.frames, text, IF p = "responses" THEN None ELSE thinking)

LEMMA BeginsSpeaks ==
  ASSUME NEW p \in Dialects, NEW u, isUp(p, u), u.phase = "new",
         NEW said, said = Begins(p, u)
  PROVE  /\ spoke(p, u, said, None, None) /\ allCalm(p, said.frames)
         /\ sameCalls(u, said.up) /\ said.up.phase = "talking"
         /\ \A i \in 1..Len(said.frames) : ~showsCall(said.frames[i])
<1> DEFINE f == CASE p = "chat" -> RoleChunk
                  [] p = "responses" -> Lifecycle("response.created", None)
                  [] OTHER -> MessageStart([in |-> 3, out |-> 1])
<1>1. said.up = [u EXCEPT !.phase = "talking"] /\ said.frames = <<f>>
  BY DEF Begins, says, Dialects
<1>2. plain(p, f)
  <2>1. CASE p = "chat"
    <3>1. f = RoleChunk
      BY <2>1
    <3> QED  BY <2>1, <3>1 DEF RoleChunk, Chunk, plain, known, silent, calm, finishes,
             closes, donesCall, showsCall, fewTools, textOf, thinkingOf
  <2>2. CASE p = "responses"
    <3>1. f.event = "response.created"
      BY <2>2 DEF Lifecycle, Response
    <3> QED  BY <2>2, <3>1 DEF plain, known, silent, calm, finishes,
             closes, donesCall, showsCall, textOf, thinkingOf
  <2>3. CASE p = "anthropic"
    <3>1. f.event = "message_start"
      BY <2>3 DEF MessageStart
    <3> QED  BY <2>3, <3>1 DEF plain, known, silent, calm, finishes,
             closes, donesCall, showsCall, textOf, thinkingOf
  <2> QED  BY <2>1, <2>2, <2>3 DEF Dialects
<1> HIDE DEF f
<1>3. carries(p, said.frames, None, None) /\ allCalm(p, said.frames)
  BY <1>1, <1>2, PlainFrames, PlainCarries
<1>4. /\ DOMAIN said.up = DOMAIN u /\ said.up.phase = "talking"
      /\ said.up.pieces = u.pieces /\ said.up.text = u.text
      /\ said.up.thinking = u.thinking /\ said.up.args = u.args
      /\ said.up.open = u.open
  BY <1>1 DEF isUp
<1>5. \A i \in 1..Len(said.frames) : said.frames[i] = f
  BY <1>1, Single
<1> QED  BY <1>2, <1>3, <1>4, <1>5 DEF plain, spoke, isUp, sameCalls, toolsOf, append, None

LEMMA SaysTextSpeaks ==
  ASSUME NEW p \in Dialects, NEW u, isUp(p, u), u.phase = "talking",
         NEW said, said = SaysText(p, u)
  PROVE  /\ spoke(p, u, said, u.pieces + 1, None) /\ u.pieces + 1 # None
         /\ allCalm(p, said.frames)
         /\ sameCalls(u, said.up) /\ said.up.phase = "talking"
         /\ \A i \in 1..Len(said.frames) : ~showsCall(said.frames[i])
<1>0. PICK b : b = inBlock(p, u, textKind(p))
  OBVIOUS
<1> DEFINE piece == u.pieces + 1
           v == b.up
           d == CASE p = "chat" -> ContentChunk(piece)
                  [] p = "responses" ->
                       event("response.output_text.delta", v.open.index, "text",
                             None, piece)
                  [] OTHER -> BlockDelta(v.open.index, "text", piece)
           w == [v EXCEPT !.pieces = piece, !.text = Append(@, piece)]
<1>1. said.up = w /\ said.frames = b.frames \o <<d>>
  BY <1>0 DEF SaysText, says, Dialects
<1>2. /\ plainFrames(p, b.frames) /\ isUp(p, v)
      /\ sameEnd(u, v) /\ sameCalls(u, v) /\ sameWords(u, v)
  <2>1. p = "responses" => textKind(p) = "message"
    BY DEF textKind
  <2> QED  BY <1>0, <2>1, InBlockPlain
<1>3. piece \in Nat /\ piece # None
  <2>1. u.pieces \in Nat
    BY DEF isUp
  <2> QED  BY <2>1 DEF None
<1> HIDE DEF piece, v
<1>4. /\ known(p, d) /\ textOf(p, d) = piece /\ thinkingOf(p, d) = None
      /\ calm(p, d) /\ ~showsCall(d)
  <2>1. CASE p = "chat"
    <3>1. d = ContentChunk(piece)
      BY <2>1
    <3>2. tellsChunk(d, piece, None, "")
      BY <3>1, ChunksTell
    <3> HIDE DEF d
    <3> QED  BY <2>1, <3>2, ChunkSays
  <2>2. CASE p = "responses"
    <3>1. /\ d.event = "response.output_text.delta" /\ d.kind = "text"
          /\ d.piece = piece
      BY <2>2 DEF event, Response
    <3> QED  BY <1>3, <2>2, <3>1 DEF known, calm, finishes,
             closes, donesCall, showsCall, textOf, thinkingOf
  <2>3. CASE p = "anthropic"
    <3>1. d.event = "content_block_delta" /\ d.kind = "text" /\ d.piece = piece
      BY <2>3 DEF BlockDelta
    <3> QED  BY <1>3, <2>3, <3>1 DEF known, calm, finishes,
             closes, donesCall, showsCall, textOf, thinkingOf
  <2> QED  BY <2>1, <2>2, <2>3 DEF Dialects
<1> HIDE DEF d
<1>5. carries(p, said.frames, piece, None) /\ allCalm(p, said.frames)
  BY <1>1, <1>2, <1>4, PlainThenOne
<1>6. /\ DOMAIN w = DOMAIN v /\ w.phase = v.phase /\ w.pieces = piece
      /\ w.text = Append(v.text, piece) /\ w.thinking = v.thinking
      /\ w.args = v.args /\ w.open = v.open /\ w.finish = v.finish
  BY <1>2 DEF isUp
<1> HIDE DEF w
<1>7. isUp(p, w)
  <2>1. w.text \in Seq(Nat) /\ w.pieces \in Nat /\ w.phase = "talking"
    <3>1. v.text \in Seq(Nat)
      BY <1>2 DEF isUp
    <3> QED  BY <1>2, <1>3, <1>6, <3>1 DEF sameEnd
  <2> QED  BY <1>2, <1>6, <2>1 DEF isUp, toolsOf
<1>8. w.text = append(u.text, piece) /\ w.thinking = append(u.thinking, None)
  BY <1>2, <1>3, <1>6 DEF sameWords, append, None
<1>9. \A i \in 1..Len(said.frames) : ~showsCall(said.frames[i])
  <2>1. \A i \in 1..Len(said.frames) : said.frames[i] = d \/ plain(p, said.frames[i])
    BY <1>1, <1>2, <1>4, PlainThenOne DEF v
  <2> QED  BY <1>4, <2>1 DEF plain
<1> QED  BY <1>1, <1>2, <1>3, <1>5, <1>6, <1>7, <1>8, <1>9
     DEF spoke, sameCalls, sameEnd, toolsOf, piece

LEMMA ThinksSpeaks ==
  ASSUME NEW p \in Dialects, NEW u, isUp(p, u), u.phase = "talking",
         NEW said, said = Thinks(p, u)
  PROVE  /\ spoke(p, u, said, None, u.pieces + 1) /\ u.pieces + 1 # None
         /\ allCalm(p, said.frames)
         /\ sameCalls(u, said.up) /\ said.up.phase = "talking"
         /\ \A i \in 1..Len(said.frames) : ~showsCall(said.frames[i])
<1>0. PICK b : b = IF p = "anthropic" THEN inBlock(p, u, "thinking") ELSE says(u, <<>>)
  OBVIOUS
<1> DEFINE piece == u.pieces + 1
           v == b.up
           d == CASE p = "chat" -> ReasoningChunk(piece)
                  [] p = "responses" ->
                       event("response.reasoning_summary_text.delta", 0, "", None,
                             piece)
                  [] OTHER -> BlockDelta(v.open.index, "thinking", piece)
           w == [v EXCEPT !.pieces = piece, !.thinking = Append(@, piece)]
<1>1. said.up = w /\ said.frames = b.frames \o <<d>>
  BY <1>0 DEF Thinks, says, Dialects
<1>2. /\ plainFrames(p, b.frames) /\ isUp(p, v)
      /\ sameEnd(u, v) /\ sameCalls(u, v) /\ sameWords(u, v)
  <2>1. CASE p = "anthropic"
    <3>1. b = inBlock(p, u, "thinking")
      BY <1>0, <2>1
    <3> QED  BY <2>1, <3>1, InBlockPlain
  <2>2. CASE p # "anthropic"
    <3>1. b.up = u /\ b.frames = <<>>
      BY <1>0, <2>2 DEF says
    <3> QED  BY <3>1, PlainFrames DEF sameEnd, sameCalls, sameWords
  <2> QED  BY <2>1, <2>2
<1>3. piece \in Nat /\ piece # None
  <2>1. u.pieces \in Nat
    BY DEF isUp
  <2> QED  BY <2>1 DEF None
<1> HIDE DEF piece, v
<1>4. /\ known(p, d) /\ textOf(p, d) = None
      /\ thinkingOf(p, d) = IF p = "responses" THEN None ELSE piece
      /\ calm(p, d) /\ ~showsCall(d)
  <2>1. CASE p = "chat"
    <3>1. d = ReasoningChunk(piece)
      BY <2>1
    <3>2. tellsChunk(d, None, piece, "")
      BY <3>1, ChunksTell
    <3> HIDE DEF d
    <3> QED  BY <2>1, <3>2, ChunkSays
  <2>2. CASE p = "responses"
    <3>1. d.event = "response.reasoning_summary_text.delta"
      BY <2>2 DEF event, Response
    <3> QED  BY <1>3, <2>2, <3>1 DEF known, calm, finishes,
             closes, donesCall, showsCall, textOf, thinkingOf
  <2>3. CASE p = "anthropic"
    <3>1. d.event = "content_block_delta" /\ d.kind = "thinking" /\ d.piece = piece
      BY <2>3 DEF BlockDelta
    <3> QED  BY <1>3, <2>3, <3>1 DEF known, calm, finishes,
             closes, donesCall, showsCall, textOf, thinkingOf
  <2> QED  BY <2>1, <2>2, <2>3 DEF Dialects
<1> HIDE DEF d
<1>5. /\ carries(p, said.frames, None, IF p = "responses" THEN None ELSE piece)
      /\ allCalm(p, said.frames)
  <2>1. carries(p, said.frames, textOf(p, d), thinkingOf(p, d)) /\ allCalm(p, said.frames)
    BY <1>1, <1>2, <1>4, PlainThenOne
  <2> QED  BY <1>4, <2>1
<1>6. /\ DOMAIN w = DOMAIN v /\ w.phase = v.phase /\ w.pieces = piece
      /\ w.thinking = Append(v.thinking, piece) /\ w.text = v.text
      /\ w.args = v.args /\ w.open = v.open /\ w.finish = v.finish
  BY <1>2 DEF isUp
<1> HIDE DEF w
<1>7. isUp(p, w)
  <2>1. w.thinking \in Seq(Nat) /\ w.pieces \in Nat /\ w.phase = "talking"
    <3>1. v.thinking \in Seq(Nat)
      BY <1>2 DEF isUp
    <3> QED  BY <1>2, <1>3, <1>6, <3>1 DEF sameEnd
  <2> QED  BY <1>2, <1>6, <2>1 DEF isUp, toolsOf
<1>8. w.thinking = append(u.thinking, piece) /\ w.text = append(u.text, None)
  BY <1>2, <1>3, <1>6 DEF sameWords, append, None
<1>9. \A i \in 1..Len(said.frames) : ~showsCall(said.frames[i])
  <2>1. \A i \in 1..Len(said.frames) : said.frames[i] = d \/ plain(p, said.frames[i])
    BY <1>1, <1>2, <1>4, PlainThenOne DEF v
  <2> QED  BY <1>4, <2>1 DEF plain
<1> QED  BY <1>1, <1>2, <1>3, <1>5, <1>6, <1>7, <1>8, <1>9
     DEF spoke, sameCalls, sameEnd, toolsOf, piece

LEMMA CallsToolSpeaks ==
  ASSUME NEW p \in Dialects, NEW u, isUp(p, u), u.phase = "talking",
         NEW said, said = CallsTool(p, u)
  PROVE  /\ spoke(p, u, said, None, None) /\ allCalm(p, said.frames)
         /\ toolsOf(said.up) # {} /\ said.up.phase = "talking"
         /\ said.frames # <<>>
         /\ p = "responses" => showsCall(Last(said.frames))
         /\ p = "chat" => Last(said.frames).event = "chunk" /\
                          Last(said.frames).tools # <<>>
<1>0. PICK id : id = Cardinality(toolsOf(u)) + 1
  OBVIOUS
<1> DEFINE kind == IF p = "responses" THEN "function_call" ELSE "tool_use"
           index == IF p = "chat" THEN id - 1 ELSE u.next
           o == IF p = "anthropic" THEN [index |-> index, kind |-> kind] ELSE NoBlock
           w == [u EXCEPT !.args = put(@, id, <<>>), !.index = put(@, id, index),
                          !.next = @ + 1, !.open = o]
           d == CASE p = "chat" -> ToolChunk(index, id, None)
                  [] p = "responses" ->
                       event("response.output_item.added", index, kind, id, None)
                  [] OTHER -> BlockStart(index, kind, id)
<1>1. said.up = w /\ said.frames = closing(p, u) \o <<d>>
  BY <1>0 DEF CallsTool, says, opening, Dialects
<1>2. /\ known(p, d) /\ textOf(p, d) = None /\ thinkingOf(p, d) = None /\ calm(p, d)
      /\ p = "responses" => showsCall(d)
      /\ p = "chat" => d.event = "chunk" /\ d.tools # <<>>
  <2>1. CASE p = "chat"
    <3>1. d = ToolChunk(index, id, None)
      BY <2>1
    <3>2. tellsChunk(d, None, None, "")
      BY <3>1, ChunksTell
    <3>3. d.event = "chunk" /\ d.tools # <<>>
      <4> DEFINE call == [index |-> index, id |-> id, args |-> None]
      <4>1. d.event = "chunk" /\ d.tools = <<call>>
        BY <3>1 DEF ToolChunk, Chunk
      <4> HIDE DEF call
      <4> QED  BY <4>1, Single
    <3> HIDE DEF d
    <3> QED  BY <2>1, <3>2, <3>3, ChunkSays
  <2>2. CASE p = "responses"
    <3>1. d.event = "response.output_item.added" /\ d.kind = "function_call"
      BY <2>2 DEF event, Response
    <3> QED  BY <2>2, <3>1 DEF known, calm, finishes,
             closes, donesCall, showsCall, textOf, thinkingOf
  <2>3. CASE p = "anthropic"
    <3>1. d.event = "content_block_start"
      BY <2>3 DEF BlockStart
    <3> QED  BY <2>3, <3>1 DEF known, calm, finishes,
             closes, donesCall, textOf, thinkingOf
  <2> QED  BY <2>1, <2>2, <2>3 DEF Dialects
<1>3. p # "anthropic" => o.kind # "function_call"
  BY DEF NoBlock
<1> HIDE DEF d, o, index, kind
<1>4. /\ carries(p, said.frames, None, None) /\ allCalm(p, said.frames)
      /\ said.frames # <<>> /\ Last(said.frames) = d
  <2>1. /\ carries(p, said.frames, textOf(p, d), thinkingOf(p, d))
        /\ allCalm(p, said.frames) /\ said.frames # <<>> /\ Last(said.frames) = d
    <3>1. plainFrames(p, closing(p, u)) /\ known(p, d) /\ calm(p, d)
      BY <1>2, ClosingPlain
    <3>2. said.frames = closing(p, u) \o <<d>>
      BY <1>1
    <3> QED  BY <3>1, <3>2, PlainThenOne
  <2> QED  BY <1>2, <2>1
<1>5. /\ DOMAIN w = DOMAIN u /\ w.phase = u.phase /\ w.pieces = u.pieces
      /\ w.text = u.text /\ w.thinking = u.thinking
      /\ w.args = put(u.args, id, <<>>) /\ w.open = o /\ w.finish = u.finish
  BY DEF isUp
<1> HIDE DEF w
<1>6. toolsOf(w) # {} /\ IsFiniteSet(toolsOf(w))
  <2>1. toolsOf(w) = toolsOf(u) \union {id}
    BY <1>5 DEF toolsOf, put
  <2>2. IsFiniteSet(toolsOf(u))
    BY DEF isUp
  <2> QED  BY <2>1, <2>2, FS_AddElement
<1>7. isUp(p, w)
  <2>1. p = "responses" => o.kind # "function_call"
    BY <1>3
  <2> QED  BY <1>5, <1>6, <2>1 DEF isUp
<1>8. w.text = append(u.text, None) /\ w.thinking = append(u.thinking, None)
  BY <1>5 DEF append
<1> QED  BY <1>1, <1>2, <1>4, <1>5, <1>6, <1>7, <1>8 DEF spoke

LEMMA SaysArgumentsSpeaks ==
  ASSUME NEW p \in Dialects, NEW u, isUp(p, u), u.phase = "talking",
         NEW id \in toolsOf(u), NEW said, said = SaysArguments(p, u, id)
  PROVE  /\ spoke(p, u, said, None, None) /\ allCalm(p, said.frames)
         /\ sameCalls(u, said.up) /\ said.up.phase = "talking"
<1> DEFINE piece == u.pieces + 1
           index == u.index[id]
           w == [u EXCEPT !.pieces = piece, !.args[id] = Append(@, piece)]
           d == CASE p = "chat" -> ToolChunk(index, None, piece)
                  [] p = "responses" ->
                       event("response.function_call_arguments.delta", index,
                             "function_call", None, piece)
                  [] OTHER -> BlockDelta(index, "tool_use", piece)
<1>1. said.up = w /\ said.frames = <<d>>
  BY DEF SaysArguments, says, Dialects
<1>2. piece \in Nat /\ piece # None
  <2>1. u.pieces \in Nat
    BY DEF isUp
  <2> QED  BY <2>1 DEF None
<1> HIDE DEF piece, index
<1>3. /\ known(p, d) /\ textOf(p, d) = None /\ thinkingOf(p, d) = None /\ calm(p, d)
  <2>1. CASE p = "chat"
    <3>1. d = ToolChunk(index, None, piece)
      BY <2>1
    <3>2. tellsChunk(d, None, None, "")
      BY <3>1, ChunksTell
    <3> HIDE DEF d
    <3> QED  BY <2>1, <3>2, ChunkSays
  <2>2. CASE p = "responses"
    <3>1. /\ d.event = "response.function_call_arguments.delta"
          /\ d.kind = "function_call" /\ d.piece = piece
      BY <2>2 DEF event, Response
    <3> QED  BY <1>2, <2>2, <3>1 DEF known, calm, finishes,
             closes, donesCall, textOf, thinkingOf
  <2>3. CASE p = "anthropic"
    <3>1. d.event = "content_block_delta" /\ d.kind = "tool_use" /\ d.piece = piece
      BY <2>3 DEF BlockDelta
    <3> QED  BY <1>2, <2>3, <3>1 DEF known, calm, finishes,
             closes, donesCall, textOf, thinkingOf
  <2> QED  BY <2>1, <2>2, <2>3 DEF Dialects
<1> HIDE DEF d
<1>4. carries(p, said.frames, None, None) /\ allCalm(p, said.frames)
  <2>1. said.frames = <<>> \o <<d>>
    <3>1. <<d>> \in Seq({d})
      OBVIOUS
    <3> QED  BY <1>1, <3>1
  <2>2. /\ carries(p, said.frames, textOf(p, d), thinkingOf(p, d))
        /\ allCalm(p, said.frames)
    BY <1>3, <2>1, PlainFrames, PlainThenOne
  <2> QED  BY <1>3, <2>2
<1>5. /\ DOMAIN w = DOMAIN u /\ w.phase = u.phase /\ w.pieces = piece
      /\ w.text = u.text /\ w.thinking = u.thinking
      /\ DOMAIN w.args = DOMAIN u.args /\ w.open = u.open /\ w.finish = u.finish
  BY DEF isUp
<1> HIDE DEF w
<1>6. isUp(p, w)
  BY <1>2, <1>5 DEF isUp, toolsOf
<1>7. w.text = append(u.text, None) /\ w.thinking = append(u.thinking, None)
  BY <1>5 DEF append
<1> QED  BY <1>1, <1>4, <1>5, <1>6, <1>7 DEF spoke, sameCalls, toolsOf

\* The frames that tell the finish reason of the answer.
tellsReason(p, f, reason) ==
  CASE p = "chat" -> f.event = "chunk" /\ f.finish = reason
    [] p = "responses" -> f.event = "response.completed"
    [] OTHER -> /\ f.event = "message_delta"
                /\ f.reason = anthropicStopReasonFromChatFinish(reason)

\* One of the frames tells it, and no other one tells a reason.
finishesOnce(p, s, reason) ==
  \E k \in 1..Len(s) :
    tellsReason(p, s[k], reason) /\ \A i \in 1..Len(s) \ {k} : ~finishes(p, s[i])

\* A frame in which an answer may be finished.
mild(p, f) == known(p, f) /\ silent(p, f) /\ ~showsCall(f)

\* The frames of a Responses provider end with the one that finishes, and a
\* call is done in them if there is one.
completes(u, s) ==
  /\ s # <<>> /\ Last(s).event = "response.completed"
  /\ (\E i \in 1..Len(s) : donesCall(s[i])) <=> toolsOf(u) # {}

LEMMA FinishesAt ==
  ASSUME NEW p, NEW s, NEW reason, NEW k \in 1..Len(s), tellsReason(p, s[k], reason),
         \A i \in 1..Len(s) \ {k} : ~finishes(p, s[i])
  PROVE  finishesOnce(p, s, reason)
BY DEF finishesOnce

LEMMA ChatFinishes ==
  ASSUME NEW u, NEW reason, NEW frames \in finishFrames("chat", u, reason)
  PROVE  /\ \A i \in 1..Len(frames) : mild("chat", frames[i]) /\ ~closes(frames[i])
         /\ finishesOnce("chat", frames, reason) /\ isSeq(frames)
<1>1. PICK usage, told : \/ frames = <<FinishChunk(reason, usage)>>
                         \/ frames = <<FinishChunk(reason, usage), UsageChunk(told)>>
  BY DEF finishFrames
<1> DEFINE f == FinishChunk(reason, usage)
           g == UsageChunk(told)
<1>2. mild("chat", f) /\ ~closes(f) /\ tellsReason("chat", f, reason)
  <2>1. tellsChunk(f, None, None, reason)
    BY ChunksTell
  <2> HIDE DEF f
  <2>2. known("chat", f) /\ ~showsCall(f) /\ silent("chat", f)
    BY <2>1, ChunkSays DEF silent
  <2>3. f.event = "chunk" /\ f.finish = reason
    BY <2>1 DEF tellsChunk
  <2> QED  BY <2>2, <2>3 DEF mild, closes, tellsReason
<1>3. mild("chat", g) /\ ~closes(g) /\ ~finishes("chat", g)
  <2>1. /\ g.event = "chunk" /\ g.choices = 0 /\ g.finish = "" /\ g.tools = <<>>
        /\ g.content = None /\ g.reasoning = None
    BY DEF UsageChunk, Chunk
  <2> HIDE DEF g
  <2>2. known("chat", g) /\ silent("chat", g)
    BY <2>1 DEF known, silent, textOf, thinkingOf, fewTools
  <2> QED  BY <2>1, <2>2 DEF mild, closes, finishes, showsCall
<1> HIDE DEF f, g
<1>4. CASE frames = <<f>>
  <2>1. isSeq(frames) /\ Len(frames) = 1 /\ frames[1] = f
    BY <1>4, Single
  <2>2. \A i \in 1..Len(frames) : frames[i] = f /\ i = 1
    BY <2>1
  <2>3. finishesOnce("chat", frames, reason)
    <3>1. 1 \in 1..Len(frames) /\ tellsReason("chat", frames[1], reason)
      BY <1>2, <2>1
    <3> QED  BY <2>2, <3>1, FinishesAt
  <2>4. \A i \in 1..Len(frames) : mild("chat", frames[i]) /\ ~closes(frames[i])
    BY <1>2, <2>2
  <2> QED  BY <2>1, <2>3, <2>4
<1>5. CASE frames = <<f, g>>
  <2>1. isSeq(frames) /\ Len(frames) = 2 /\ frames[1] = f /\ frames[2] = g
    BY <1>5, Pair
  <2>2. \A i \in 1..Len(frames) : frames[i] = f \/ frames[i] = g
    <3>1. \A i \in 1..Len(frames) : i = 1 \/ i = 2
      BY <2>1
    <3> QED  BY <2>1, <3>1
  <2>3. finishesOnce("chat", frames, reason)
    <3>1. 1 \in 1..Len(frames) /\ tellsReason("chat", frames[1], reason)
      BY <1>2, <2>1
    <3>2. \A i \in 1..Len(frames) \ {1} : frames[i] = g
      BY <2>1
    <3>3. \A i \in 1..Len(frames) \ {1} : ~finishes("chat", frames[i])
      BY <1>3, <3>2
    <3> QED  BY <3>1, <3>3, FinishesAt
  <2>4. \A i \in 1..Len(frames) : mild("chat", frames[i]) /\ ~closes(frames[i])
    BY <1>2, <1>3, <2>2
  <2> QED  BY <2>1, <2>3, <2>4
<1> QED  BY <1>1, <1>4, <1>5 DEF f, g

LEMMA AnthropicFinishes ==
  ASSUME NEW u, isUp("anthropic", u), NEW reason,
         NEW told \in finishFrames("anthropic", u, reason),
         NEW frames, frames = closing("anthropic", u) \o told
  PROVE  /\ \A i \in 1..Len(frames) :
              mild("anthropic", frames[i]) /\ ~closes(frames[i])
         /\ finishesOnce("anthropic", frames, reason) /\ isSeq(frames)
<1>1. PICK d : told = <<d>> /\ tellsReason("anthropic", d, reason)
               /\ mild("anthropic", d) /\ ~closes(d)
  <2>1. PICK usage : told = <<MessageDelta(anthropicStopReasonFromChatFinish(reason),
                                           usage)>>
    BY DEF finishFrames
  <2> DEFINE d == MessageDelta(anthropicStopReasonFromChatFinish(reason), usage)
  <2>2. d.event = "message_delta" /\ d.reason = anthropicStopReasonFromChatFinish(reason)
    BY DEF MessageDelta
  <2>3. told = <<d>>
    BY <2>1
  <2> HIDE DEF d
  <2>4. tellsReason("anthropic", d, reason)
    BY <2>2 DEF tellsReason
  <2>5. known("anthropic", d) /\ ~showsCall(d) /\ ~closes(d)
    <3>1. d.event = "message_delta" /\ d.reason # ""
      <4>1. d.reason \in {"tool_use", "max_tokens", "end_turn"}
        BY <2>2 DEF anthropicStopReasonFromChatFinish
      <4> QED  BY <2>2, <4>1
    <3>2. known("anthropic", d)
      BY <3>1 DEF known
    <3>3. ~showsCall(d) /\ ~closes(d)
      BY <3>1 DEF showsCall, closes
    <3> QED  BY <3>2, <3>3
  <2>6. silent("anthropic", d)
    BY <2>2 DEF silent, textOf, thinkingOf
  <2> QED  BY <2>3, <2>4, <2>5, <2>6 DEF mild
<1>2. PICK s : s = closing("anthropic", u) /\ plainFrames("anthropic", s)
  <2>1. "anthropic" \in Dialects
    BY DEF Dialects
  <2> QED  BY <2>1, ClosingPlain
<1>3. /\ isSeq(frames) /\ Len(s) \in Nat /\ Len(frames) = Len(s) + 1
      /\ \A i \in 1..Len(s) : frames[i] = s[i]
      /\ frames[Len(s) + 1] = d
  <2>1. isSeq(s) /\ frames = s \o <<d>>
    BY <1>1, <1>2 DEF plainFrames
  <2> QED  BY <2>1, Extended
<1>4. PICK n \in Nat : n = Len(s)
  BY <1>3
<1>5. \A i \in 1..Len(frames) : i = n + 1 \/ i \in 1..n
  BY <1>3, <1>4
<1>6. \A i \in 1..n : plain("anthropic", frames[i])
  BY <1>2, <1>3, <1>4 DEF plainFrames
<1>7. \A i \in 1..n : ~finishes("anthropic", frames[i]) /\ ~closes(frames[i])
                      /\ mild("anthropic", frames[i])
  BY <1>6 DEF plain, calm, mild
<1>8. finishesOnce("anthropic", frames, reason)
  <2>1. n + 1 \in 1..Len(frames) /\ tellsReason("anthropic", frames[n + 1], reason)
    BY <1>1, <1>3, <1>4
  <2>2. \A i \in 1..Len(frames) \ {n + 1} : ~finishes("anthropic", frames[i])
    BY <1>5, <1>7
  <2> QED  BY <2>1, <2>2, FinishesAt
<1> QED  BY <1>1, <1>3, <1>4, <1>5, <1>7, <1>8

LEMMA ResponsesFinishes ==
  ASSUME NEW u, isUp("responses", u), NEW reason,
         NEW told \in finishFrames("responses", u, reason),
         NEW frames, frames = closing("responses", u) \o told
  PROVE  /\ isSeq(frames) /\ frames # <<>>
         /\ \A i \in 1..Len(frames) : mild("responses", frames[i])
         /\ \A i \in 1..Len(frames) : i < Len(frames) => ~closes(frames[i])
         /\ IF reason = "length"
            THEN \A i \in 1..Len(frames) : ~closes(frames[i])
            ELSE completes(u, frames)
<1> DEFINE f(id) == Full(event("response.output_item.done", u.index[id],
                               "function_call", id, None), u.args[id])
           n == Cardinality(toolsOf(u))
           dones == [id \in 1..n |-> f(id)]
           d == IF reason = "length" THEN Lifecycle("response.incomplete", None)
                ELSE WithUsage(Lifecycle("response.completed", None), TotalUsage)
           s == closing("responses", u)
<1>1. told = dones \o <<d>>
  BY DEF finishFrames
<1>2. \A id : f(id).event = "response.output_item.done" /\ f(id).kind = "function_call"
  BY DEF event, Response, Full
<1>3. /\ reason = "length" => d.event = "response.incomplete"
      /\ reason # "length" => d.event = "response.completed"
  BY DEF Lifecycle, Response, WithUsage
<1>4. plainFrames("responses", s)
  <2>1. "responses" \in Dialects
    BY DEF Dialects
  <2> QED  BY <2>1, ClosingPlain
<1>5. n \in Nat /\ (n = 0 <=> toolsOf(u) = {})
  <2>1. IsFiniteSet(toolsOf(u))
    BY DEF isUp
  <2> QED  BY <2>1, FS_CardinalityType, FS_EmptySet
<1> HIDE DEF f, d, s, n
<1>6. /\ isSeq(dones) /\ Len(dones) = n /\ \A i \in 1..n : dones[i] = f(i)
  <2>1. dones \in [1..n -> {f(i) : i \in 1..n}] /\ \A i \in 1..n : dones[i] = f(i)
    OBVIOUS
  <2> HIDE DEF dones
  <2> QED  BY <1>5, <2>1, FunctionIsSeq
<1>7. \A j : mild("responses", f(j)) /\ ~closes(f(j)) /\ donesCall(f(j))
  <2>1. \A j : known("responses", f(j)) /\ silent("responses", f(j))
    BY <1>2 DEF known, silent, textOf, thinkingOf
  <2> QED  BY <1>2, <2>1 DEF mild, showsCall, closes, donesCall
<1>8. mild("responses", d) /\ ~donesCall(d) /\ (reason = "length" => ~closes(d))
  <2>1. known("responses", d) /\ silent("responses", d)
    BY <1>3 DEF known, silent, textOf, thinkingOf
  <2> QED  BY <1>3, <2>1 DEF mild, showsCall, closes, donesCall
<1> HIDE DEF dones
<1>9. PICK e : /\ e = dones /\ isSeq(e) /\ Len(e) = n
               /\ \A j \in 1..n : /\ mild("responses", e[j]) /\ ~closes(e[j])
                                 /\ donesCall(e[j])
  BY <1>6, <1>7
<1>10. PICK c : c = s /\ isSeq(c) /\ \A j \in 1..Len(c) : plain("responses", c[j])
  BY <1>4 DEF plainFrames
<1>11. PICK g : g = d
  OBVIOUS
<1>12. parted(frames, c, e, g)
  <2>1. told = e \o <<g>> /\ frames = c \o told
    BY <1>1, <1>9, <1>10, <1>11 DEF s
  <2>2. joined(told, e, <<g>>) /\ isSeq(told)
    <3>1. isSeq(e) /\ isSeq(<<g>>)
      BY <1>9, Single
    <3>2. joined(told, e, <<g>>)
      BY <2>1, <3>1, Joined
    <3> QED  BY <3>2 DEF joined
  <2>3. joined(frames, c, told)
    <3>1. isSeq(c)
      BY <1>10
    <3> QED  BY <2>1, <2>2, <3>1, Joined
  <2> QED  BY <2>2, <2>3, ThreeParts
<1>13. \A j \in 1..Len(c) : /\ mild("responses", c[j]) /\ ~closes(c[j])
                            /\ ~donesCall(c[j])
  BY <1>10 DEF plain, calm, mild
<1>14. /\ mild("responses", g) /\ ~donesCall(g) /\ (reason = "length" => ~closes(g))
       /\ reason # "length" => g.event = "response.completed"
  BY <1>3, <1>8, <1>11
<1>15. \A i \in 1..Len(frames) : mild("responses", frames[i])
  BY <1>9, <1>12, <1>13, <1>14 DEF parted
<1>16. \A i \in 1..Len(frames) : i < Len(frames) => ~closes(frames[i])
  BY <1>9, <1>12, <1>13 DEF parted
<1>17. (\E i \in 1..Len(frames) : donesCall(frames[i])) <=> toolsOf(u) # {}
  <2>1. ASSUME NEW i \in 1..Len(frames), donesCall(frames[i])
        PROVE  toolsOf(u) # {}
    <3>1. \E j \in 1..n : frames[i] = e[j]
      BY <1>9, <1>12, <1>13, <1>14, <2>1 DEF parted
    <3> QED  BY <1>5, <3>1
  <2>2. ASSUME toolsOf(u) # {}
        PROVE  \E i \in 1..Len(frames) : donesCall(frames[i])
    <3>1. 1 \in 1..n
      BY <1>5, <2>2
    <3> QED  BY <1>9, <1>12, <3>1 DEF parted
  <2> QED  BY <2>1, <2>2
<1>18. reason = "length" => \A i \in 1..Len(frames) : ~closes(frames[i])
  BY <1>9, <1>12, <1>13, <1>14 DEF parted
<1>19. reason # "length" => completes(u, frames)
  BY <1>12, <1>14, <1>17 DEF parted, completes
<1> QED  BY <1>12, <1>15, <1>16, <1>18, <1>19 DEF parted

LEMMA MildCarries ==
  ASSUME NEW p, NEW s, isSeq(s), \A i \in 1..Len(s) : mild(p, s[i])
  PROVE  carries(p, s, None, None)
<1>1. s # <<>> => Len(s) \in 1..Len(s)
  <2>1. PICK S : s \in Seq(S)
    BY DEF isSeq
  <2> QED  BY <2>1
<1> QED  BY <1>1 DEF mild, carries, silent, Last

LEMMA FinishesSpeaks ==
  ASSUME NEW p \in Dialects, NEW u, isUp(p, u), u.phase = "talking",
         NEW said \in Finishes(p, u)
  PROVE  /\ spoke(p, u, said, None, None) /\ said.up.phase = "finished"
         /\ sameCalls(u, said.up)
         /\ \A i \in 1..Len(said.frames) : ~showsCall(said.frames[i])
         /\ \A i \in 1..Len(said.frames) :
              closes(said.frames[i]) => p = "responses" /\ i = Len(said.frames)
         /\ p # "responses" => finishesOnce(p, said.frames, said.up.finish)
         /\ p = "responses" =>
              IF said.up.finish = "length"
              THEN \A i \in 1..Len(said.frames) : ~closes(said.frames[i])
              ELSE completes(u, said.frames)
<1>0. PICK reason \in Reasons(u) :
        \E told \in finishFrames(p, u, reason) : said = finishing(p, u, reason, told)
  BY DEF Finishes
<1>1. PICK told \in finishFrames(p, u, reason) : said = finishing(p, u, reason, told)
  BY <1>0
<1> DEFINE w == [u EXCEPT !.phase = "finished", !.finish = reason, !.open = NoBlock,
                          !.usage = usageIn(told),
                          !.usageApart = Contains(told, UsageChunk(TotalUsage))]
<1>2. said.up = w /\ said.frames = closing(p, u) \o told
  BY <1>1 DEF finishing, says
<1>3. /\ DOMAIN w = DOMAIN u /\ w.phase = "finished" /\ w.pieces = u.pieces
      /\ w.text = u.text /\ w.thinking = u.thinking
      /\ w.args = u.args /\ w.open = NoBlock /\ w.finish = reason
  BY DEF isUp
<1>4. NoBlock.kind # "function_call"
  BY DEF NoBlock
<1> HIDE DEF w
<1>5. isUp(p, w)
  <2>1. w.finish \in Reasons(w)
    BY <1>1, <1>3 DEF Reasons, toolsOf
  <2> QED  BY <1>3, <1>4, <2>1 DEF isUp, toolsOf
<1>6. /\ isSeq(said.frames)
      /\ \A i \in 1..Len(said.frames) : mild(p, said.frames[i])
      /\ \A i \in 1..Len(said.frames) :
           closes(said.frames[i]) => p = "responses" /\ i = Len(said.frames)
      /\ p # "responses" => finishesOnce(p, said.frames, reason)
      /\ p = "responses" => IF reason = "length"
                            THEN \A i \in 1..Len(said.frames) : ~closes(said.frames[i])
                            ELSE completes(u, said.frames)
  <2>1. CASE p = "chat"
    <3>1. told \in finishFrames("chat", u, reason)
      BY <1>1, <2>1
    <3>2. /\ \A i \in 1..Len(told) : mild("chat", told[i]) /\ ~closes(told[i])
          /\ finishesOnce("chat", told, reason) /\ isSeq(told)
      BY <3>1, ChatFinishes
    <3>3. said.frames = told
      <4>1. closing(p, u) = <<>>
        BY <2>1 DEF closing
      <4>2. PICK T : told \in Seq(T)
        BY <3>2 DEF isSeq
      <4> QED  BY <1>2, <4>1, <4>2
    <3> QED  BY <2>1, <3>2, <3>3
  <2>2. CASE p = "anthropic"
    <3>1. /\ told \in finishFrames("anthropic", u, reason)
          /\ said.frames = closing("anthropic", u) \o told
          /\ isUp("anthropic", u)
      BY <1>1, <1>2, <2>2
    <3>2. /\ \A i \in 1..Len(said.frames) :
               mild("anthropic", said.frames[i]) /\ ~closes(said.frames[i])
          /\ finishesOnce("anthropic", said.frames, reason) /\ isSeq(said.frames)
      BY <3>1, AnthropicFinishes
    <3> QED  BY <2>2, <3>2
  <2>3. CASE p = "responses"
    <3>1. /\ told \in finishFrames("responses", u, reason)
          /\ said.frames = closing("responses", u) \o told
          /\ isUp("responses", u)
      BY <1>1, <1>2, <2>3
    <3>2. /\ isSeq(said.frames) /\ said.frames # <<>>
          /\ \A i \in 1..Len(said.frames) : mild("responses", said.frames[i])
          /\ \A i \in 1..Len(said.frames) :
               i < Len(said.frames) => ~closes(said.frames[i])
          /\ IF reason = "length"
             THEN \A i \in 1..Len(said.frames) : ~closes(said.frames[i])
             ELSE completes(u, said.frames)
      BY <3>1, ResponsesFinishes
    <3>3. \A i \in 1..Len(said.frames) : i < Len(said.frames) \/ i = Len(said.frames)
      <4>1. PICK S : said.frames \in Seq(S)
        BY <3>2 DEF isSeq
      <4> QED  BY <4>1
    <3> QED  BY <2>3, <3>2, <3>3
  <2> QED  BY <2>1, <2>2, <2>3 DEF Dialects
<1>7. carries(p, said.frames, None, None)
  BY <1>6, MildCarries
<1>8. w.text = append(u.text, None) /\ w.thinking = append(u.thinking, None)
  BY <1>3 DEF append
<1>9. \A i \in 1..Len(said.frames) : ~showsCall(said.frames[i])
  BY <1>6 DEF mild
<1> QED  BY <1>2, <1>3, <1>5, <1>6, <1>7, <1>8, <1>9 DEF spoke, sameCalls, toolsOf

LEMMA TerminatesSpeaks ==
  ASSUME NEW p \in Dialects, NEW u, isUp(p, u), u.phase = "finished",
         NEW said \in Terminates(p, u)
  PROVE  /\ spoke(p, u, said, None, None) /\ said.up.phase = "ended"
         /\ sameCalls(u, said.up) /\ said.up.finish = u.finish
         /\ \A i \in 1..Len(said.frames) :
              ~showsCall(said.frames[i]) /\ ~finishes(p, said.frames[i]) /\ ~donesCall(said.frames[i])
         /\ p = "responses" /\ u.finish = "length" => said.frames = <<>>
         /\ \A i \in 1..Len(said.frames) : i = Len(said.frames)
         /\ p # "responses" => \E i \in 1..Len(said.frames) : endOf(p, said.frames[i])
<1>1. /\ said.up = [u EXCEPT !.phase = "ended"]
      /\ \/ said.frames = <<>>
         \/ p # "anthropic" /\ said.frames = <<Done>>
         \/ p = "anthropic" /\ said.frames = <<MessageStop>>
      /\ p = "responses" /\ u.finish = "length" => said.frames = <<>>
  <2>1. CASE p = "chat"
    BY <2>1 DEF Terminates, says
  <2>2. CASE p = "anthropic"
    BY <2>2 DEF Terminates, says
  <2>3. CASE p = "responses"
    BY <2>3 DEF Terminates, says
  <2> QED  BY <2>1, <2>2, <2>3 DEF Dialects
<1> DEFINE w == [u EXCEPT !.phase = "ended"]
<1>2. /\ DOMAIN w = DOMAIN u /\ w.phase = "ended" /\ w.pieces = u.pieces
      /\ w.text = u.text /\ w.thinking = u.thinking
      /\ w.args = u.args /\ w.open = u.open /\ w.finish = u.finish
  BY DEF isUp
<1>3. said.up = w
  BY <1>1
<1> HIDE DEF w
<1>4. isUp(p, w)
  <2>1. w.finish \in Reasons(w)
    BY <1>2 DEF isUp, Reasons, toolsOf
  <2> QED  BY <1>2, <2>1 DEF isUp, toolsOf
<1>5. /\ p # "anthropic" => mild(p, Done) /\ ~finishes(p, Done) /\ ~donesCall(Done)
      /\ p = "anthropic" => mild(p, MessageStop) /\ ~finishes(p, MessageStop) /\ ~donesCall(MessageStop)
  <2>1. CASE p = "chat"
    BY <2>1 DEF Done, mild, known, silent, textOf, thinkingOf, showsCall, finishes,
              donesCall
  <2>2. CASE p = "responses"
    BY <2>2 DEF Done, mild, known, silent, textOf, thinkingOf, showsCall, finishes,
              donesCall
  <2>3. CASE p = "anthropic"
    BY <2>3 DEF MessageStop, mild, known, silent, textOf, thinkingOf, showsCall, finishes,
              donesCall
  <2> QED  BY <2>1, <2>2, <2>3 DEF Dialects
<1>6. /\ isSeq(said.frames)
      /\ \A i \in 1..Len(said.frames) :
           mild(p, said.frames[i]) /\ ~finishes(p, said.frames[i]) /\ ~donesCall(said.frames[i])
  <2>1. CASE said.frames = <<>>
    <3>1. isSeq(<<>>) /\ Len(<<>>) = 0
      BY SequencesGrow
    <3> QED  BY <2>1, <3>1
  <2>2. ASSUME NEW f, said.frames = <<f>>, mild(p, f), ~finishes(p, f) /\ ~donesCall(f)
        PROVE  /\ isSeq(said.frames)
               /\ \A i \in 1..Len(said.frames) :
                    mild(p, said.frames[i]) /\ ~finishes(p, said.frames[i]) /\ ~donesCall(said.frames[i])
    <3>1. isSeq(said.frames) /\ Len(said.frames) = 1 /\ said.frames[1] = f
      BY <2>2, Single
    <3>2. \A i \in 1..Len(said.frames) : said.frames[i] = f
      BY <3>1
    <3> QED  BY <2>2, <3>1, <3>2
  <2> QED  BY <1>1, <1>5, <2>1, <2>2
<1>7. carries(p, said.frames, None, None)
  BY <1>6, MildCarries
<1>8. w.text = append(u.text, None) /\ w.thinking = append(u.thinking, None)
  BY <1>2 DEF append
<1>9. \A i \in 1..Len(said.frames) : i = Len(said.frames)
  <2>1. Len(said.frames) \in {0, 1}
    <3>1. Len(<<>>) = 0 /\ \A e : Len(<<e>>) = 1
      BY Single, SequencesGrow
    <3> QED  BY <1>1, <3>1
  <2>2. \A n \in {0, 1} : \A i \in 1..n : i = n
    OBVIOUS
  <2> QED  BY <2>1, <2>2
<1>10. p # "responses" => \E i \in 1..Len(said.frames) : endOf(p, said.frames[i])
  <2> SUFFICES ASSUME p # "responses" PROVE \E i \in 1..Len(said.frames) : endOf(p, said.frames[i])
    OBVIOUS
  <2>1. PICK f : said.frames = <<f>> /\ endOf(p, f)
    <3>1. CASE p = "chat"
      <4>1. said.frames = <<Done>>
        BY <3>1 DEF Terminates, says
      <4>2. endOf(p, Done)
        BY <3>1 DEF endOf, Done
      <4> QED  BY <4>1, <4>2
    <3>2. CASE p = "anthropic"
      <4>1. said.frames = <<MessageStop>>
        BY <3>2 DEF Terminates, says
      <4>2. endOf(p, MessageStop)
        BY <3>2 DEF endOf, MessageStop
      <4> QED  BY <4>1, <4>2
    <3> QED  BY <3>1, <3>2 DEF Dialects
  <2>2. Len(said.frames) = 1 /\ said.frames[1] = f
    BY <2>1, Single
  <2>3. 1 \in 1..1
    OBVIOUS
  <2> QED  BY <2>1, <2>2, <2>3
<1> QED  BY <1>1, <1>2, <1>3, <1>4, <1>6, <1>7, <1>8, <1>9, <1>10
         DEF spoke, sameCalls, toolsOf, mild
-----------------------------------------------------------------------------
(* The tool blocks of the translator to Anthropic, and the orders a range  *)
(* over them takes.                                                        *)

hasBlocks(s) ==
  /\ {"MessageStarted", "TextStarted", "ReasoningStarted", "ToolBlocks",
      "PendingFinish", "PendingUsage", "out"} \subseteq DOMAIN s
  /\ IsFiniteSet(s.ToolBlocks)

LEMMA BlocksChange ==
  ASSUME NEW s, hasBlocks(s), NEW x
  PROVE  /\ hasBlocks(emit(s, x)) /\ hasBlocks(s)
         /\ hasBlocks([s EXCEPT !.MessageStarted = x])
         /\ hasBlocks([s EXCEPT !.TextStarted = x])
         /\ hasBlocks([s EXCEPT !.ReasoningStarted = x])
         /\ hasBlocks([s EXCEPT !.PendingFinish = x])
         /\ hasBlocks([s EXCEPT !.PendingUsage = x])
         /\ hasBlocks([s EXCEPT !.out = x])
         /\ hasBlocks([s EXCEPT !.ToolBlocks = @ \union {x}])
         /\ hasBlocks([s EXCEPT !.ToolBlocks = {}])
<1>1. IsFiniteSet(s.ToolBlocks \union {x}) /\ IsFiniteSet({})
  BY FS_AddElement, FS_EmptySet DEF hasBlocks
<1> QED  BY <1>1 DEF hasBlocks, emit

LEMMA StepsKeepBlocks ==
  ASSUME NEW s, hasBlocks(s), NEW piece, NEW call
  PROVE  /\ hasBlocks(ensureStart(s)) /\ hasBlocks(startText(s))
         /\ hasBlocks(stopText(s)) /\ hasBlocks(stopThinking(s))
         /\ hasBlocks(fromReasoning(s, piece)) /\ hasBlocks(fromContent(s, piece))
         /\ hasBlocks(fromToolCall(s, call))
<1>1. \A t, e : hasBlocks(t) => hasBlocks(emit(t, e))
  BY BlocksChange
<1>2. \A c, t, e : hasBlocks(t) => hasBlocks(emitIf(c, t, e))
  BY <1>1 DEF emitIf
<1>3. \A t : hasBlocks(t) => hasBlocks(ensureStart(t)) /\ hasBlocks(startText(t))
  BY <1>2, BlocksChange DEF ensureStart, startText
<1>4. \A t : hasBlocks(t) => hasBlocks(stopText(t)) /\ hasBlocks(stopThinking(t))
  BY <1>2, BlocksChange DEF stopText, stopThinking
<1>5. hasBlocks(fromReasoning(s, piece))
  <2> DEFINE x == emitIf(~s.ReasoningStarted, s, BlockStart(1, "thinking", None))
             y == [x EXCEPT !.ReasoningStarted = TRUE]
  <2>1. hasBlocks(x)
    BY <1>2
  <2> HIDE DEF x
  <2>2. hasBlocks(y)
    BY <2>1, BlocksChange
  <2>3. fromReasoning(s, piece) = IF piece = None THEN s
                                  ELSE emit(y, BlockDelta(1, "thinking", piece))
    BY DEF fromReasoning, x
  <2> HIDE DEF y
  <2> QED  BY <1>1, <2>2, <2>3
<1>6. hasBlocks(fromContent(s, piece))
  BY <1>1, <1>3, <1>4 DEF fromContent
<1>7. hasBlocks(fromToolCall(s, call))
  <2> DEFINE x == emitIf(call.index \notin s.ToolBlocks, s,
                         BlockStart(call.index + 2, "tool_use", call.id))
             y == [x EXCEPT !.ToolBlocks = @ \union {call.index}]
  <2>1. hasBlocks(x)
    BY <1>2
  <2> HIDE DEF x
  <2>2. hasBlocks(y)
    BY <2>1, BlocksChange
  <2>3. fromToolCall(s, call) =
          emitIf(call.args # None, y,
                 BlockDelta(call.index + 2, "tool_use", call.args))
    BY DEF fromToolCall, x
  <2> HIDE DEF y
  <2> QED  BY <1>2, <2>2, <2>3
<1> QED  BY <1>3, <1>4, <1>5, <1>6, <1>7

LEMMA FlushKeepsBlocks ==
  ASSUME NEW s, hasBlocks(s), NEW order, isSeq(order)
  PROVE  hasBlocks(flushAnthropicFinish(s, order))
<1> DEFINE x1 == stopThinking(stopText(s))
           x2 == stopTools(x1, order)
           x3 == [x2 EXCEPT !.ToolBlocks = {}]
           pending == s.PendingFinish # "" \/ s.PendingUsage # NoUsage
           delta == MessageDelta(anthropicStopReasonFromChatFinish(s.PendingFinish),
                                 s.PendingUsage)
           x4 == emitIf(pending, x3, delta)
           x5 == [x4 EXCEPT !.PendingFinish = ""]
           x6 == [x5 EXCEPT !.PendingUsage = NoUsage]
<1>1. flushAnthropicFinish(s, order) =
        emit([x4 EXCEPT !.PendingFinish = "", !.PendingUsage = NoUsage], MessageStop)
  BY DEF flushAnthropicFinish
<1>2. hasBlocks(x1)
  BY StepsKeepBlocks
<1> HIDE DEF x1
<1>3. hasBlocks(x2)
  <2>1. x2 = StopToolFold!fold(x1, order)
    BY DEF stopTools, StopToolFold!fold, FoldLeft, StopToolFold!FoldLeft,
           MapThenFoldSet, StopToolFold!MapThenFoldSet, Max, StopToolFold!Max
  <2>2. PICK E : order \in Seq(E)
    BY DEF isSeq
  <2> DEFINE Z == {t \in Seq(E) : hasBlocks(StopToolFold!fold(x1, t))}
  <2>3. <<>> \in Z
    BY <1>2, StopToolFold!FoldEmpty
  <2>4. ASSUME NEW t \in Z, NEW index \in E
        PROVE  Append(t, index) \in Z
    <3>1. StopToolFold!fold(x1, Append(t, index)) = stopTool(StopToolFold!fold(x1, t), index)
      BY StopToolFold!FoldAppend
    <3>2. hasBlocks(stopTool(StopToolFold!fold(x1, t), index))
      BY BlocksChange DEF stopTool
    <3> QED  BY <3>1, <3>2
  <2>5. Seq(E) \subseteq Z
    <3> HIDE DEF Z
    <3> QED  BY <2>3, <2>4, StopToolFold!SeqSetInduction
  <2> QED  BY <2>1, <2>2, <2>5
<1> HIDE DEF x2
<1>4. hasBlocks(x3)
  BY <1>3, BlocksChange
<1> HIDE DEF x3
<1>5. hasBlocks(x4)
  BY <1>4, BlocksChange DEF emitIf
<1> HIDE DEF x4
<1>6. hasBlocks(x5)
  BY <1>5, BlocksChange
<1>7. [x4 EXCEPT !.PendingFinish = "", !.PendingUsage = NoUsage] = x6
  OBVIOUS
<1> HIDE DEF x5
<1>8. hasBlocks(x6)
  BY <1>6, BlocksChange
<1> QED  BY <1>1, <1>7, <1>8, BlocksChange

LEMMA TranslatorsKeepBlocks ==
  ASSUME NEW s, hasBlocks(s), NEW f, NEW order, isSeq(order)
  PROVE  /\ fewTools(f) => hasBlocks(AnthropicFramesFromChatChunk(s, f))
         /\ known("responses", f) =>
              hasBlocks(AnthropicEventsFromResponsesFrame(s, f, order))
<1>1. ASSUME fewTools(f)
      PROVE  hasBlocks(AnthropicFramesFromChatChunk(s, f))
  <2> DEFINE x1 == fromContent(fromReasoning(ensureStart(s), f.reasoning), f.content)
             x2 == fromToolCalls(x1, f.tools)
             x3 == IF f.finish = "" THEN x2 ELSE [x2 EXCEPT !.PendingFinish = f.finish]
  <2>1. AnthropicFramesFromChatChunk(s, f) =
          IF f.usage = NoUsage THEN x3 ELSE [x3 EXCEPT !.PendingUsage = f.usage]
    BY DEF AnthropicFramesFromChatChunk
  <2>2. hasBlocks(x1)
    BY StepsKeepBlocks
  <2> HIDE DEF x1
  <2>3. hasBlocks(x2)
    <3>1. \A t : fromToolCalls(x1, t) = ToolCallFold!fold(x1, t)
      BY DEF fromToolCalls, ToolCallFold!fold, FoldLeft, ToolCallFold!FoldLeft,
             MapThenFoldSet, ToolCallFold!MapThenFoldSet, Max, ToolCallFold!Max
    <3>2. CASE f.tools = <<>>
      BY <2>2, <3>1, <3>2, ToolCallFold!FoldEmpty
    <3>3. ASSUME NEW call, f.tools = <<call>>
          PROVE  hasBlocks(x2)
      BY <2>2, <3>1, <3>3, ToolCallFold!FoldOne, StepsKeepBlocks
    <3> QED  BY <1>1, <3>2, <3>3 DEF fewTools
  <2> HIDE DEF x2
  <2>4. hasBlocks(x3)
    BY <2>3, BlocksChange
  <2> HIDE DEF x3
  <2> QED  BY <2>1, <2>4, BlocksChange
<1>2. ASSUME known("responses", f)
      PROVE  hasBlocks(AnthropicEventsFromResponsesFrame(s, f, order))
  <2> DEFINE t == AnthropicEventsFromResponsesFrame(s, f, order)
  <2>1. CASE f.event = "[DONE]"
    <3>1. t = flushAnthropicFinish(s, order)
      BY <2>1 DEF AnthropicEventsFromResponsesFrame
    <3> QED  BY <3>1, FlushKeepsBlocks
  <2>2. CASE f.event = "response.completed"
    <3> DEFINE x == [s EXCEPT !.PendingFinish = IF @ = "" THEN "stop" ELSE @]
               y == [x EXCEPT !.PendingUsage = f.usage]
    <3>1. t = flushAnthropicFinish(y, order)
      BY <2>2 DEF AnthropicEventsFromResponsesFrame
    <3>2. hasBlocks(x)
      BY BlocksChange
    <3> HIDE DEF x
    <3>3. hasBlocks(y)
      BY <3>2, BlocksChange
    <3> QED  BY <3>1, <3>3, FlushKeepsBlocks
  <2>3. CASE f.event = "response.output_item.added"
    <3> DEFINE x == ensureStart(s)
               y == emit(x, BlockStart(f.index + 2, "tool_use", f.id))
               z == [y EXCEPT !.ToolBlocks = @ \union {f.index}]
    <3>1. t = itemAdded(s, f)
      BY <2>3 DEF AnthropicEventsFromResponsesFrame
    <3>2. hasBlocks(x)
      BY StepsKeepBlocks
    <3>3. t = startText(x) \/ t = z \/ t = x
      BY <3>1 DEF itemAdded
    <3> HIDE DEF x
    <3>4. hasBlocks(y) /\ hasBlocks(startText(x))
      BY <3>2, BlocksChange, StepsKeepBlocks
    <3> HIDE DEF y
    <3>5. hasBlocks(z)
      BY <3>4, BlocksChange
    <3> QED  BY <3>2, <3>3, <3>4, <3>5
  <2>4. CASE f.event = "response.output_text.delta"
    <3>1. t = emit(startText(ensureStart(s)), BlockDelta(0, "text", f.piece))
      BY <2>4 DEF AnthropicEventsFromResponsesFrame
    <3> QED  BY <3>1, StepsKeepBlocks, BlocksChange
  <2>5. CASE f.event = "response.function_call_arguments.delta"
    <3>1. t = emit(ensureStart(s), BlockDelta(f.index + 2, "tool_use", f.piece))
      BY <2>5 DEF AnthropicEventsFromResponsesFrame
    <3> QED  BY <3>1, StepsKeepBlocks, BlocksChange
  <2>6. CASE f.event = "response.output_item.done"
    <3>1. t = s \/ t = [s EXCEPT !.PendingFinish = "tool_calls"]
      BY <2>6 DEF AnthropicEventsFromResponsesFrame
    <3> QED  BY <3>1, BlocksChange
  <2>7. CASE f.event \in {"response.created", "response.reasoning_summary_text.delta",
                          "response.incomplete"}
    <3>1. t = s
      BY <2>7 DEF AnthropicEventsFromResponsesFrame
    <3> QED  BY <3>1
  <2>8. f.event \in {"[DONE]", "response.created", "response.output_item.added",
                     "response.output_item.done", "response.output_text.delta",
                     "response.reasoning_summary_text.delta",
                     "response.function_call_arguments.delta",
                     "response.completed", "response.incomplete"}
    BY <1>2 DEF known, Done
  <2> QED  BY <2>1, <2>2, <2>3, <2>4, <2>5, <2>6, <2>7, <2>8
<1> QED  BY <1>1, <1>2

LEMMA OrdersAreSequences ==
  ASSUME NEW s, hasBlocks(s)
  PROVE  \A order \in ToolOrders(s) : isSeq(order)
<1>1. Cardinality(s.ToolBlocks) \in Nat
  BY FS_CardinalityType DEF hasBlocks
<1>2. PICK n \in Nat : n = Cardinality(s.ToolBlocks)
  BY <1>1
<1>3. \A order \in ToolOrders(s) : order \in [1..n -> s.ToolBlocks]
  BY <1>2 DEF ToolOrders, SetToSeqs
<1> QED  BY <1>3, FunctionIsSeq
-----------------------------------------------------------------------------
(* What a turn of a translating handler tells its client.                  *)

NoReason == ""

\* A translator that still reads, with nothing to write.
atWork(r, s) ==
  /\ "out" \in DOMAIN s /\ s.out = <<>>
  /\ r = <<"chat", "anthropic">> => inbound(s) /\ s.done = FALSE
  /\ r = <<"chat", "responses">> => watching(s) /\ s.done = FALSE
  /\ r = <<"responses", "anthropic">> => numbering(s) /\ s.done = FALSE
  /\ r = <<"responses", "chat">> => assembling(s)
  /\ r \in {<<"anthropic", "chat">>, <<"anthropic", "responses">>} => hasBlocks(s)

\* The state a handler keeps, and what its client hears of a frame.
kept(u) == [u.codec EXCEPT !.out = <<>>]
passed(f) == IF carriesThinking THEN thinkingOf(upstream, f) ELSE None

\* What a turn does: the reason is told, and the end if it ends.
turn(c, f, u, reason, ends) ==
  /\ hears(c, receiveAll(c, u.codec.out), textOf(upstream, f), passed(f), reason, ends)
  /\ u.returns \in BOOLEAN
  /\ u.returns = FALSE => atWork(route, kept(u))
  /\ u.returns = TRUE => ends

LEMMA TurnChatFromAnthropic ==
  ASSUME route = <<"chat", "anthropic">>, atWork(route, codec), NEW c, isView(c),
         NEW f, known("anthropic", f), NEW order, NEW u, u = translate(f, order)
  PROVE  turn(c, f, u, finishSeen(f), endOf("anthropic", f))
<1>1. /\ clientDialect = "chat" /\ upstream = "anthropic" /\ carriesThinking
  BY DEF clientDialect, upstream, carriesThinking
<1>2. PICK s : s = codec
  OBVIOUS
<1>t. PICK t : t = ChatChunksFromAnthropicFrame(s, f)
  OBVIOUS
<1>u. u = chatDone(t)
  BY <1>2, <1>t DEF translate, handleChatFromAnthropicStreamResponse
<1>3. inbound(s) /\ s.done = FALSE /\ s.out = <<>>
  BY <1>2 DEF atWork
<1>4. /\ hears(c, ChatReads(c, u.codec.out), textOf("anthropic", f),
               thinkingOf("anthropic", f), finishSeen(f), endOf("anthropic", f))
      /\ inbound(u.codec) /\ u.codec.done = u.returns
      /\ u.returns = endOf("anthropic", f)
  BY <1>t, <1>u, <1>3, ChatFromAnthropicTells, ZenonT(30) DEF toldFromAnthropic
<1>5. receiveAll(c, u.codec.out) = ChatReads(c, u.codec.out)
  BY <1>1 DEF receiveAll
<1>6. passed(f) = thinkingOf("anthropic", f)
  BY <1>1 DEF passed
<1>7. u.returns = FALSE => atWork(route, kept(u))
  BY <1>4 DEF atWork, kept, inbound
<1>8. u.returns \in BOOLEAN
  BY <1>4 DEF endOf
<1> QED  BY <1>1, <1>4, <1>5, <1>6, <1>7, <1>8 DEF turn

LEMMA TurnChatFromResponses ==
  ASSUME route = <<"chat", "responses">>, atWork(route, codec), NEW c, isView(c),
         NEW f, known("responses", f), NEW order, NEW u, u = translate(f, order)
  PROVE  /\ turn(c, f, u, finishSummed(codec, f), endOf("responses", f))
         /\ remembersCall(codec, f, kept(u))
<1>1. clientDialect = "chat" /\ upstream = "responses"
  BY DEF clientDialect, upstream
<1>2. PICK s : s = codec
  OBVIOUS
<1>t. PICK t : t = ChatChunksFromResponsesFrame(s, f)
  OBVIOUS
<1>u. u = chatDone(t)
  BY <1>2, <1>t DEF translate, handleChatFromResponsesStreamResponse
<1>3. watching(s) /\ s.done = FALSE /\ s.out = <<>>
  BY <1>2 DEF atWork
<1>4. /\ hears(c, ChatReads(c, u.codec.out), textOf("responses", f), None,
               finishSummed(s, f), endOf("responses", f))
      /\ watching(u.codec) /\ u.codec.done = u.returns
      /\ u.returns = endOf("responses", f)
      /\ remembersCall(s, f, u.codec)
  BY <1>t, <1>u, <1>3, ChatFromResponsesTells DEF toldFromResponses
<1>5. receiveAll(c, u.codec.out) = ChatReads(c, u.codec.out)
  BY <1>1 DEF receiveAll
<1>6. passed(f) = None
  BY <1>1 DEF passed, thinkingOf
<1>7. u.returns = FALSE => atWork(route, kept(u))
  BY <1>4 DEF atWork, kept, watching
<1>8. kept(u).SawToolCall = u.codec.SawToolCall
  BY <1>4 DEF kept, watching
<1>9. remembersCall(codec, f, kept(u))
  BY <1>2, <1>4, <1>8 DEF remembersCall
<1>10. u.returns \in BOOLEAN
  BY <1>4 DEF endOf
<1> QED  BY <1>1, <1>2, <1>4, <1>5, <1>6, <1>7, <1>9, <1>10 DEF turn

LEMMA TurnResponsesFromAnthropic ==
  ASSUME route = <<"responses", "anthropic">>, atWork(route, codec), NEW c, isView(c),
         NEW f, known("anthropic", f), NEW order, NEW u, u = translate(f, order)
  PROVE  turn(c, f, u, NoReason, endOf("anthropic", f))
<1>1. /\ clientDialect = "responses" /\ upstream = "anthropic" /\ ~carriesThinking
  BY DEF clientDialect, upstream, carriesThinking
<1>2. PICK t : t = ResponsesEventsFromAnthropicFrame(codec, f)
  OBVIOUS
<1>3. u = IF t.done THEN handled(writeResponsesStreamDone(t, <<>>), TRUE)
          ELSE handled(t, FALSE)
  BY <1>2 DEF translate, handleResponsesFromAnthropicStreamResponse
<1>4. "out" \in DOMAIN codec /\ numbering(codec) /\ codec.done = FALSE /\ codec.out = <<>>
  BY DEF atWork
<1>5. /\ hears(c, ResponsesReads(c, u.codec.out), textOf("anthropic", f), None, "",
               endOf("anthropic", f))
      /\ numbering(u.codec) /\ "out" \in DOMAIN u.codec
      /\ u.returns = endOf("anthropic", f)
      /\ ~u.returns => u.codec.done = FALSE
  BY <1>2, <1>3, <1>4, ResponsesFromAnthropicTells, ZenonT(30)
<1>6. receiveAll(c, u.codec.out) = ResponsesReads(c, u.codec.out)
  BY <1>1 DEF receiveAll
<1>7. passed(f) = None
  BY <1>1 DEF passed
<1>8. u.returns = FALSE => atWork(route, kept(u))
  BY <1>5 DEF atWork, kept, numbering
<1>9. u.returns \in BOOLEAN
  BY <1>5 DEF endOf
<1> QED  BY <1>1, <1>5, <1>6, <1>7, <1>8, <1>9 DEF turn, NoReason

LEMMA TurnResponsesFromChat ==
  ASSUME route = <<"responses", "chat">>, atWork(route, codec), NEW c, isView(c),
         NEW f, known("chat", f), NEW order, NEW u, u = translate(f, order)
  PROVE  turn(c, f, u, NoReason, endOf("chat", f))
<1>1. /\ clientDialect = "responses" /\ upstream = "chat" /\ ~carriesThinking
  BY DEF clientDialect, upstream, carriesThinking
<1>2. u = handleResponsesStreamResponse(f)
  BY DEF translate
<1>3. "out" \in DOMAIN codec /\ assembling(codec) /\ codec.out = <<>>
  BY DEF atWork
<1>4. /\ hears(c, ResponsesReads(c, u.codec.out), textOf("chat", f), None, "",
               endOf("chat", f))
      /\ assembling(u.codec) /\ "out" \in DOMAIN u.codec
  BY <1>2, <1>3, ResponsesFromChatTells DEF handleResponsesStreamResponse
<1>5. receiveAll(c, u.codec.out) = ResponsesReads(c, u.codec.out)
  BY <1>1 DEF receiveAll
<1>6. passed(f) = None
  BY <1>1 DEF passed
<1>7. u.returns = FALSE => atWork(route, kept(u))
  BY <1>4 DEF atWork, kept, assembling
<1>8. u.returns = FALSE
  BY <1>2 DEF handleResponsesStreamResponse, handled
<1> QED  BY <1>1, <1>4, <1>5, <1>6, <1>7, <1>8 DEF turn, NoReason

keepsReason(s, f, t) ==
  t.PendingFinish = IF f.finish = "" THEN s.PendingFinish ELSE f.finish

LEMMA TurnAnthropicFromChat ==
  ASSUME route = <<"anthropic", "chat">>, atWork(route, codec), NEW c, isView(c),
         NEW f, known("chat", f), NEW order \in mapOrders,
         NEW u, u = translate(f, order)
  PROVE  /\ turn(c, f, u, IF f = Done THEN reasonPending(codec) ELSE NoReason,
                 endOf("chat", f))
         /\ f # Done => keepsReason(codec, f, kept(u))
         /\ f = Done => u.returns = TRUE
<1>1. /\ clientDialect = "anthropic" /\ upstream = "chat" /\ carriesThinking /\ translated
  BY DEF clientDialect, upstream, carriesThinking, translated, Aggregated
<1>2. hasBlocks(codec) /\ codec.out = <<>> /\ outbound(codec)
  BY SequencesGrow DEF atWork, hasBlocks, outbound
<1>3. isSeq(order)
  BY <1>1, <1>2, OrdersAreSequences DEF mapOrders
<1>4. seen(c, codec) = c
  BY <1>2, ReadsShort DEF seen
<1>5. receiveAll(c, u.codec.out) = AnthropicReads(c, u.codec.out)
  BY <1>1 DEF receiveAll
<1>6. passed(f) = thinkingOf("chat", f)
  BY <1>1 DEF passed
<1>7. CASE f = Done
  <2> DEFINE t == flushAnthropicFinish(codec, order)
  <2>1. u.codec = t /\ u.returns = TRUE
    BY <1>7 DEF translate, handleAnthropicFromChatStreamResponse, handled
  <2>2. hears(seen(c, codec), seen(c, t), None, None, reasonPending(codec), TRUE)
    BY <1>2, <1>3, <1>4, FlushTells
  <2>3. /\ textOf("chat", f) = None /\ thinkingOf("chat", f) = None
        /\ endOf("chat", f) = TRUE
    BY <1>7 DEF Done, textOf, thinkingOf, endOf
  <2>4. (IF f = Done THEN reasonPending(codec) ELSE NoReason) = reasonPending(codec)
    BY <1>7
  <2> HIDE DEF t
  <2>5. seen(c, t) = receiveAll(c, u.codec.out)
    BY <1>5, <2>1 DEF seen
  <2> QED  BY <1>1, <1>4, <1>6, <1>7, <2>1, <2>2, <2>3, <2>4, <2>5 DEF turn
<1>8. CASE f # Done
  <2> DEFINE t == AnthropicFramesFromChatChunk(codec, f)
  <2>1. u.codec = t /\ u.returns = FALSE
    BY <1>8 DEF translate, handleAnthropicFromChatStreamResponse, handled
  <2>2. /\ outbound(t)
        /\ hears(seen(c, codec), seen(c, t), f.content, f.reasoning, "", FALSE)
        /\ keepsReason(codec, f, t)
    BY <1>2, <1>4, <1>8, FromChatChunkTells DEF keepsReason
  <2>3. f.event = "chunk" /\ fewTools(f)
    BY <1>8 DEF known
  <2>4. /\ textOf("chat", f) = f.content /\ thinkingOf("chat", f) = f.reasoning
        /\ endOf("chat", f) = FALSE
    BY <2>3 DEF textOf, thinkingOf, endOf
  <2>5. hasBlocks(t)
    BY <1>2, <1>3, <2>3, TranslatorsKeepBlocks
  <2> HIDE DEF t
  <2>6. seen(c, t) = receiveAll(c, u.codec.out)
    BY <1>5, <2>1 DEF seen
  <2>7. hasBlocks(kept(u)) /\ kept(u).out = <<>>
    BY <2>1, <2>2, <2>5, BlocksChange DEF kept, outbound
  <2>8. atWork(route, kept(u))
    BY <2>7 DEF atWork, hasBlocks
  <2>9. kept(u).PendingFinish = t.PendingFinish
    BY <2>1, <2>2 DEF kept, outbound
  <2>10. (IF f = Done THEN reasonPending(codec) ELSE NoReason) = ""
    BY <1>8 DEF NoReason
  <2>11. keepsReason(codec, f, kept(u))
    BY <2>2, <2>9 DEF keepsReason
  <2>12. turn(c, f, u, IF f = Done THEN reasonPending(codec) ELSE NoReason,
              endOf("chat", f))
    BY <1>1, <1>4, <1>6, <2>1, <2>2, <2>4, <2>6, <2>8, <2>10 DEF turn
  <2> QED  BY <1>8, <2>11, <2>12
<1> QED  BY <1>7, <1>8

LEMMA TurnAnthropicFromResponses ==
  ASSUME route = <<"anthropic", "responses">>, atWork(route, codec), NEW c, isView(c),
         NEW f, known("responses", f), NEW order \in mapOrders,
         NEW u, u = translate(f, order)
  PROVE  /\ turn(c, f, u, reasonClosing(codec, f), closesResponse(f))
         /\ u.returns = FALSE
         /\ remembersPending(codec, f, kept(u))
<1>1. /\ clientDialect = "anthropic" /\ upstream = "responses" /\ ~carriesThinking
      /\ translated
  BY DEF clientDialect, upstream, carriesThinking, translated, Aggregated
<1>2. hasBlocks(codec) /\ codec.out = <<>> /\ outbound(codec)
  BY SequencesGrow DEF atWork, hasBlocks, outbound
<1>3. isSeq(order)
  BY <1>1, <1>2, OrdersAreSequences DEF mapOrders
<1>4. seen(c, codec) = c
  BY <1>2, ReadsShort DEF seen
<1>5. receiveAll(c, u.codec.out) = AnthropicReads(c, u.codec.out)
  BY <1>1 DEF receiveAll
<1>6. passed(f) = None
  BY <1>1 DEF passed
<1> DEFINE t == AnthropicEventsFromResponsesFrame(codec, f, order)
<1>7. u.codec = t /\ u.returns = FALSE
  BY DEF translate, handleAnthropicFromResponsesStreamResponse, handled
<1>s. PICK s : s = codec
  OBVIOUS
<1>t. PICK x : x = t
  OBVIOUS
<1>i. outbound(s) /\ isView(seen(c, s)) /\ x = AnthropicEventsFromResponsesFrame(s, f, order)
  BY <1>2, <1>4, <1>s, <1>t
<1>8. /\ outbound(t)
      /\ hears(seen(c, codec), seen(c, t), textOf("responses", f), None,
               reasonClosing(codec, f), closesResponse(f))
      /\ remembersPending(codec, f, t)
  <2> HIDE DEF t
  <2>1. outbound(x)
    BY ONLY <1>i, <1>3, known("responses", f), FromResponsesFrameTells
  <2>2. hears(seen(c, s), seen(c, x), textOf("responses", f), None,
               reasonClosing(s, f), closesResponse(f))
    BY ONLY <1>i, <1>3, known("responses", f), FromResponsesFrameTells
  <2>3. remembersPending(s, f, x)
    BY ONLY <1>i, <1>3, known("responses", f), FromResponsesFrameTells
  <2> QED  BY <2>1, <2>2, <2>3, <1>s, <1>t
<1>9. hasBlocks(t)
  BY <1>2, <1>3, TranslatorsKeepBlocks
<1> HIDE DEF t
<1>10. seen(c, t) = receiveAll(c, u.codec.out)
  BY <1>5, <1>7 DEF seen
<1>11. hasBlocks(kept(u)) /\ kept(u).out = <<>>
  BY <1>7, <1>8, <1>9, BlocksChange DEF kept, outbound
<1>12. atWork(route, kept(u))
  BY <1>11 DEF atWork, hasBlocks
<1>13. /\ kept(u).PendingFinish = t.PendingFinish
       /\ kept(u).PendingUsage = t.PendingUsage
  BY <1>7, <1>8 DEF kept, outbound
<1>14. turn(c, f, u, reasonClosing(codec, f), closesResponse(f))
  BY <1>1, <1>7, <1>4, <1>6, <1>8, <1>10, <1>12 DEF turn
<1>15. remembersPending(codec, f, kept(u))
  BY <1>8, <1>13 DEF remembersPending
<1> QED  BY <1>7, <1>14, <1>15
-----------------------------------------------------------------------------
(* The inductive invariant.                                                *)

connected == connection = "open"
healthy == connected \/ up.phase = "ended"
final == up.phase \in {"finished", "ended"}
pendingText == IF wire = <<>> THEN None ELSE textOf(upstream, Last(wire))
pendingThinking == IF wire = <<>> THEN None ELSE thinkingOf(upstream, Last(wire))

\* The frames underway are those a provider sends, and their reader is ready.
ReaderInv ==
  /\ isUp(upstream, up) /\ isSeq(wire)
  /\ \A i \in 1..Len(wire) : known(upstream, wire[i])
  /\ isView(client)
  /\ pc = "reading" /\ translated => atWork(route, codec)

\* Only the request that is not streamed is sent a second time.
RequestsInv ==
  /\ pc = "reading" => requests = 1
  /\ pc = "fallback" => route = Aggregated
  /\ requests = 2 => route = Aggregated

\* What the provider said is with the client or in the last frame underway.
WordsInv ==
  /\ \A i \in 1..Len(wire) : i < Len(wire) => silent(upstream, wire[i])
  /\ client.text \in Seq(Nat) /\ client.thinking \in Seq(Nat)
  /\ IsPrefix(client.text, up.text) /\ IsPrefix(client.thinking, up.thinking)
  /\ healthy /\ ~left =>
       /\ up.text = append(client.text, pendingText)
       /\ carriesThinking => up.thinking = append(client.thinking, pendingThinking)

\* Nothing is said after the end, and nobody hears of an end before it.
EndInv ==
  /\ final => \A i \in 1..Len(wire) : silent(upstream, wire[i])
  /\ \A i \in 1..Len(wire) : closes(wire[i]) => final /\ i = Len(wire)
  /\ reportedFailure => \A i \in 1..Len(wire) : ~closes(wire[i])
  /\ client.ended > 0 => final /\ client.text = up.text /\ ~reportedFailure

\* A loud chunk says something of the answer.
loud(f) ==
  f.event = "chunk" /\ (f.content # None \/ f.reasoning # None \/ f.tools # <<>>)

\* Of an answer that is to be aggregated, something is always kept.
\* While the forced stream is read its client has nothing; what was said of
\* the answer is loggable or underway.
AggregateInv ==
  /\ pc # "returned" => client = NewClient
  /\ codec.loggable \in BOOLEAN
  /\ connection = "error" => up.phase # "ended"
  /\ healthy /\ (hasAnswer \/ up.thinking # <<>>) =>
       codec.loggable = TRUE \/ \E i \in 1..Len(wire) : loud(wire[i])
  /\ requests = 2 => FallbackOnlyUnanswered

\* Where the finish reason is: underway, with the translator or told.
due == \E i \in 1..Len(wire) : finishes(upstream, wire[i])
untold == ~left => client.finish = <<>> /\ client.ended = 0
told == ~left => client.finish = <<toldReason(up.finish)>>
callsKnown(b) == b <=> toolsOf(up) # {}

talkingInv ==
  /\ untold
  /\ \A i \in 1..Len(wire) : calm(upstream, wire[i])
  /\ route = <<"anthropic", "responses">> =>
       codec.PendingFinish = NoReason /\ codec.PendingUsage = NoUsage

dueInv ==
  /\ untold
  /\ finishesOnce(upstream, wire, up.finish)
  /\ \A i \in 1..Len(wire) : closes(wire[i]) => upstream = "responses"
  /\ route = <<"anthropic", "responses">> =>
       /\ codec.PendingFinish \in {NoReason, "tool_calls"}
       /\ callsKnown(\/ codec.PendingFinish = "tool_calls"
                     \/ \E i \in 1..Len(wire) : donesCall(wire[i]))

toldInv ==
  /\ IF route = <<"anthropic", "chat">>
     THEN untold /\ codec.PendingFinish = up.finish ELSE told
  /\ route = <<"anthropic", "responses">> =>
       /\ codec.PendingFinish = NoReason /\ codec.PendingUsage = NoUsage
       /\ \A i \in 1..Len(wire) : ~donesCall(wire[i])

callsInv ==
  route = <<"chat", "responses">> =>
    /\ codec.SawToolCall \in BOOLEAN
    /\ callsKnown(codec.SawToolCall = TRUE \/
                  \E i \in 1..Len(wire) : showsCall(wire[i]))

FinishInv ==
  /\ client.ended > 0 => client.finish = <<toldReason(up.finish)>>
  /\ pc = "reading" /\ connected =>
       /\ callsInv
       /\ ~final => talkingInv
       /\ final /\ ~reportedFailure => IF due THEN dueInv ELSE toldInv

StreamInv ==
  /\ StreamTypeOK /\ ReaderInv /\ RequestsInv
  /\ streamed => WordsInv /\ EndInv
  /\ streamed /\ clientDialect # "responses" => FinishInv
  /\ ~streamed => AggregateInv
-----------------------------------------------------------------------------
(* A frame read, on any route that is streamed.                            *)

\* The reason the client is told with a frame, and whether it hears the end.
heardReason(f) ==
  CASE route = <<"chat", "anthropic">> -> finishSeen(f)
    [] route = <<"chat", "responses">> -> finishSummed(codec, f)
    [] route = <<"anthropic", "chat">> ->
         IF f = Done THEN reasonPending(codec) ELSE NoReason
    [] route = <<"anthropic", "responses">> -> reasonClosing(codec, f)
    [] translated /\ clientDialect = "responses" -> NoReason
    [] OTHER -> reasonOf(upstream, f)

heardEnd(f) ==
  IF route = <<"anthropic", "responses">> THEN closesResponse(f)
  ELSE endOf(upstream, f)

frameTold(f) ==
  /\ pc = "reading" /\ wire # <<>> /\ f = Head(wire) /\ wire' = Tail(wire)
  /\ route' = route /\ up' = up /\ connection' = connection /\ left' = left
  /\ requests' = requests /\ pc' \in {"reading", "returned"}
  /\ IF left THEN client' = client
     ELSE hears(client, client', textOf(upstream, f), passed(f), heardReason(f),
                heardEnd(f))
  /\ pc' = "reading" /\ translated => atWork(route, codec')
  /\ pc' = "returned" => heardEnd(f)

LEMMA RoutesAre ==
  ASSUME route \in Routes \union {Aggregated}
  PROVE  /\ translated => route \in {<<"chat", "anthropic">>, <<"chat", "responses">>,
                                     <<"responses", "anthropic">>,
                                     <<"responses", "chat">>,
                                     <<"anthropic", "chat">>,
                                     <<"anthropic", "responses">>}
         /\ streamed /\ ~translated => clientDialect = upstream /\ clientDialect \in Dialects
         /\ upstream \in Dialects
<1>1. CASE route = Aggregated
  BY <1>1 DEF translated, streamed, Aggregated, upstream, Dialects
<1>2. CASE route \in Routes
  <2>1. PICK a \in Dialects, b \in Dialects : route = <<a, b>>
    BY <1>2 DEF Routes
  <2>2. clientDialect = a /\ upstream = b
    BY <2>1 DEF clientDialect, upstream
  <2>3. translated => a # b
    BY <2>2 DEF translated
  <2>4. streamed /\ ~translated => a = b
    BY <2>2 DEF translated, streamed
  <2> QED  BY <2>1, <2>2, <2>3, <2>4 DEF Dialects
<1> QED  BY <1>1, <1>2

LEMMA HeadAndTail ==
  ASSUME NEW s, isSeq(s), s # <<>>
  PROVE  /\ isSeq(Tail(s)) /\ Len(s) \in Nat /\ Len(s) >= 1 /\ Len(Tail(s)) = Len(s) - 1
         /\ Head(s) = s[1] /\ 1 \in 1..Len(s) /\ Len(Tail(s)) \in Nat
         /\ \A i \in 1..Len(Tail(s)) : i + 1 \in 1..Len(s) /\ Tail(s)[i] = s[i + 1]
         /\ \A i \in 1..Len(s) : i = 1 \/ (i - 1 \in 1..Len(Tail(s)) /\ Tail(s)[i - 1] = s[i])
         /\ Tail(s) = <<>> <=> Len(s) = 1
         /\ Tail(s) # <<>> => Last(Tail(s)) = Last(s)
         /\ Last(s) = s[Len(s)]
<1>1. PICK S : s \in Seq(S)
  BY DEF isSeq
<1>2. Tail(s) \in Seq(S) /\ Len(s) \in Nat /\ Len(s) >= 1 /\ Len(Tail(s)) = Len(s) - 1
  BY <1>1
<1>3. \A i \in 1..Len(Tail(s)) : Tail(s)[i] = s[i + 1]
  BY <1>1, <1>2
<1>4. Head(s) = s[1] /\ Last(s) = s[Len(s)] /\ Last(Tail(s)) = Tail(s)[Len(Tail(s))]
  BY <1>1 DEF Last
<1>a. Len(Tail(s)) \in Nat
  BY <1>2
<1>5. Tail(s) = <<>> <=> Len(s) = 1
  <2>1. Len(Tail(s)) = 0 <=> Len(s) = 1
    BY <1>2
  <2>2. PICK t \in Seq(S) : t = Tail(s)
    BY <1>2
  <2>3. t = <<>> <=> Len(t) = 0
    BY ONLY t \in Seq(S)
  <2> QED  BY <2>1, <2>2, <2>3
<1>6. Tail(s) # <<>> => Last(Tail(s)) = Last(s)
  <2>1. PICK n \in Nat : n = Len(Tail(s)) /\ Len(s) = n + 1
    <3>1. Len(s) = Len(Tail(s)) + 1
      BY <1>2
    <3> QED  BY <1>a, <3>1
  <2>2. Tail(s) # <<>> => n \in 1..Len(Tail(s))
    BY <1>5, <2>1
  <2>3. Tail(s) # <<>> => Tail(s)[n] = s[n + 1]
    BY <1>3, <2>2
  <2> QED  BY <1>4, <2>1, <2>3
<1>7. isSeq(Tail(s))
  BY <1>2 DEF isSeq
<1>8. \A i \in 1..Len(Tail(s)) : i + 1 \in 1..Len(s)
  BY <1>2
<1>9. \A i \in 1..Len(s) : i = 1 \/ (i - 1 \in 1..Len(Tail(s)) /\ Tail(s)[i - 1] = s[i])
  <2> TAKE i \in 1..Len(s)
  <2>1. i \in Nat /\ i - 1 \in Int /\ (i - 1) + 1 = i
    BY <1>2
  <2>2. i # 1 => i - 1 \in 1..Len(Tail(s))
    BY <1>2, <2>1
  <2> QED  BY <1>3, <2>1, <2>2
<1> QED  BY <1>a, <1>2, <1>3, <1>4, <1>5, <1>6, <1>7, <1>8, <1>9

\* What the translator remembers of the frame, on the routes where it decides
\* the finish reason.
frameKept(f) ==
  /\ route = <<"chat", "responses">> /\ pc' = "reading" => remembersCall(codec, f, codec')
  /\ route = <<"anthropic", "chat">> =>
       IF f = Done THEN pc' = "returned" ELSE keepsReason(codec, f, codec')
  /\ route = <<"anthropic", "responses">> => remembersPending(codec, f, codec')

LEMMA TranslatedTold ==
  ASSUME StreamTypeOK, ReaderInv, RelayTranslated
  PROVE  frameTold(Head(wire)) /\ frameKept(Head(wire)) /\ translated
<1>1. /\ translated /\ pc = "reading" /\ wire # <<>> /\ wire' = Tail(wire)
      /\ route' = route /\ up' = up /\ connection' = connection /\ left' = left
      /\ requests' = requests
  BY DEF RelayTranslated, frameRead
<1>2. PICK order \in mapOrders :
        /\ codec' = [translate(Head(wire), order).codec EXCEPT !.out = <<>>]
        /\ client' = written(translate(Head(wire), order).codec.out)
        /\ pc' = IF translate(Head(wire), order).returns THEN "returned" ELSE pc
  BY DEF RelayTranslated
<1>3. PICK f : f = Head(wire)
  OBVIOUS
<1>4. PICK u : u = translate(f, order)
  OBVIOUS
<1>5. /\ codec' = kept(u) /\ client' = written(u.codec.out)
      /\ pc' = IF u.returns THEN "returned" ELSE pc
  BY <1>2, <1>3, <1>4 DEF kept
<1>6. known(upstream, f) /\ isView(client) /\ atWork(route, codec)
  BY <1>1, <1>3, HeadAndTail DEF ReaderInv
<1>7. ASSUME turn(client, f, u, heardReason(f), heardEnd(f))
      PROVE  frameTold(f)
  <2>1. /\ hears(client, receiveAll(client, u.codec.out), textOf(upstream, f), passed(f),
                 heardReason(f), heardEnd(f))
        /\ u.returns \in BOOLEAN
        /\ u.returns = FALSE => atWork(route, kept(u))
        /\ u.returns = TRUE => heardEnd(f)
    BY <1>7 DEF turn
  <2>2. client' = IF left THEN client ELSE receiveAll(client, u.codec.out)
    BY <1>5 DEF written
  <2>3. pc' = (IF u.returns THEN "returned" ELSE "reading")
    BY <1>1, <1>5
  <2>4. /\ pc' \in {"reading", "returned"}
        /\ pc' = "reading" => u.returns = FALSE
        /\ pc' = "returned" => u.returns = TRUE
    BY <2>1, <2>3
  <2> QED  BY <1>1, <1>3, <1>5, <2>1, <2>2, <2>4 DEF frameTold
<1>8. route \in {<<"chat", "anthropic">>, <<"chat", "responses">>,
                 <<"responses", "anthropic">>, <<"responses", "chat">>,
                 <<"anthropic", "chat">>, <<"anthropic", "responses">>}
  BY <1>1, RoutesAre DEF StreamTypeOK
<1>a. CASE route = <<"chat", "anthropic">>
  <2>1. upstream = "anthropic" /\ clientDialect = "chat"
    BY <1>a DEF upstream, clientDialect
  <2>2. turn(client, f, u, finishSeen(f), endOf("anthropic", f))
    BY <1>a, <1>4, <1>6, <2>1, TurnChatFromAnthropic
  <2>3. heardReason(f) = finishSeen(f) /\ heardEnd(f) = endOf("anthropic", f)
    BY <1>a, <2>1 DEF heardReason, heardEnd
  <2>4. frameKept(f)
    BY <1>a DEF frameKept
  <2> QED  BY <1>1, <1>3, <1>7, <2>2, <2>3, <2>4
<1>b. CASE route = <<"chat", "responses">>
  <2>1. upstream = "responses" /\ clientDialect = "chat"
    BY <1>b DEF upstream, clientDialect
  <2>2. /\ turn(client, f, u, finishSummed(codec, f), endOf("responses", f))
        /\ remembersCall(codec, f, kept(u))
    BY <1>b, <1>4, <1>6, <2>1, TurnChatFromResponses
  <2>3. heardReason(f) = finishSummed(codec, f) /\ heardEnd(f) = endOf("responses", f)
    BY <1>b, <2>1 DEF heardReason, heardEnd
  <2>4. frameKept(f)
    BY <1>b, <1>5, <2>2 DEF frameKept
  <2> QED  BY <1>1, <1>3, <1>7, <2>2, <2>3, <2>4
<1>c. CASE route = <<"responses", "anthropic">>
  <2>1. upstream = "anthropic" /\ clientDialect = "responses"
    BY <1>c DEF upstream, clientDialect
  <2>2. turn(client, f, u, NoReason, endOf("anthropic", f))
    BY <1>c, <1>4, <1>6, <2>1, TurnResponsesFromAnthropic
  <2>3. heardReason(f) = NoReason /\ heardEnd(f) = endOf("anthropic", f)
    BY <1>1, <1>c, <2>1 DEF heardReason, heardEnd
  <2>4. frameKept(f)
    BY <1>c DEF frameKept
  <2> QED  BY <1>1, <1>3, <1>7, <2>2, <2>3, <2>4
<1>d. CASE route = <<"responses", "chat">>
  <2>1. upstream = "chat" /\ clientDialect = "responses"
    BY <1>d DEF upstream, clientDialect
  <2>2. turn(client, f, u, NoReason, endOf("chat", f))
    BY <1>d, <1>4, <1>6, <2>1, TurnResponsesFromChat
  <2>3. heardReason(f) = NoReason /\ heardEnd(f) = endOf("chat", f)
    BY <1>1, <1>d, <2>1 DEF heardReason, heardEnd
  <2>4. frameKept(f)
    BY <1>d DEF frameKept
  <2> QED  BY <1>1, <1>3, <1>7, <2>2, <2>3, <2>4
<1>e. CASE route = <<"anthropic", "chat">>
  <2>1. upstream = "chat" /\ clientDialect = "anthropic"
    BY <1>e DEF upstream, clientDialect
  <2>2. /\ turn(client, f, u, IF f = Done THEN reasonPending(codec) ELSE NoReason,
                endOf("chat", f))
        /\ f # Done => keepsReason(codec, f, kept(u))
        /\ f = Done => u.returns = TRUE
    BY <1>e, <1>4, <1>6, <2>1, TurnAnthropicFromChat
  <2>3. /\ heardReason(f) = (IF f = Done THEN reasonPending(codec) ELSE NoReason)
        /\ heardEnd(f) = endOf("chat", f)
    BY <1>e, <2>1 DEF heardReason, heardEnd
  <2>4. frameKept(f)
    BY <1>e, <1>5, <2>2 DEF frameKept
  <2> QED  BY <1>1, <1>3, <1>7, <2>2, <2>3, <2>4
<1>f. CASE route = <<"anthropic", "responses">>
  <2>1. upstream = "responses" /\ clientDialect = "anthropic"
    BY <1>f DEF upstream, clientDialect
  <2>2. /\ turn(client, f, u, reasonClosing(codec, f), closesResponse(f))
        /\ remembersPending(codec, f, kept(u))
    BY <1>f, <1>4, <1>6, <2>1, TurnAnthropicFromResponses
  <2>3. heardReason(f) = reasonClosing(codec, f) /\ heardEnd(f) = closesResponse(f)
    BY <1>f, <2>1 DEF heardReason, heardEnd
  <2>4. frameKept(f)
    BY <1>f, <1>5, <2>2 DEF frameKept
  <2> QED  BY <1>1, <1>3, <1>7, <2>2, <2>3, <2>4
<1> QED  BY <1>8, <1>a, <1>b, <1>c, <1>d, <1>e, <1>f

LEMMA UnchangedTold ==
  ASSUME StreamTypeOK, ReaderInv, RelayUnchanged
  PROVE  frameTold(Head(wire)) /\ frameKept(Head(wire)) /\ streamed /\ ~translated
<1>1. /\ ~translated /\ streamed /\ pc = "reading" /\ wire # <<>> /\ wire' = Tail(wire)
      /\ route' = route /\ up' = up /\ connection' = connection /\ left' = left
      /\ requests' = requests /\ pc' = pc
      /\ client' = written(<<Head(wire)>>)
  BY DEF RelayUnchanged, frameRead, streamed
<1>2. clientDialect = upstream /\ clientDialect \in Dialects
  BY <1>1, RoutesAre DEF StreamTypeOK
<1>3. PICK f : f = Head(wire)
  OBVIOUS
<1>4. known(upstream, f) /\ isView(client)
  BY <1>1, <1>3, HeadAndTail DEF ReaderInv
<1>5. \A a, b \in Dialects : a # b => route # <<a, b>>
  BY <1>2 DEF clientDialect, upstream
<1>6. /\ route # <<"chat", "anthropic">> /\ route # <<"chat", "responses">>
      /\ route # <<"anthropic", "chat">> /\ route # <<"anthropic", "responses">>
  BY <1>5 DEF Dialects
<1>7. heardReason(f) = reasonOf(upstream, f) /\ heardEnd(f) = endOf(upstream, f)
  BY <1>1, <1>6 DEF heardReason, heardEnd
<1>8. frameKept(f)
  BY <1>6 DEF frameKept
<1>9. hears(client, receiveAll(client, <<f>>), textOf(upstream, f),
            thinkingOf(upstream, f), reasonOf(upstream, f), endOf(upstream, f))
  <2>1. CASE clientDialect = "anthropic"
    <3>1. hears(client, AnthropicClient(client, f), textOf("anthropic", f),
                thinkingOf("anthropic", f), reasonOf("anthropic", f),
                endOf("anthropic", f))
      BY <1>2, <1>4, <2>1, AnthropicHears DEF known
    <3>2. receiveAll(client, <<f>>) = AnthropicClient(client, f)
      BY <2>1, ReadsShort DEF receiveAll
    <3> QED  BY <1>2, <2>1, <3>1, <3>2
  <2>2. CASE clientDialect = "chat"
    <3>1. hears(client, ChatClient(client, f), textOf("chat", f),
                thinkingOf("chat", f), reasonOf("chat", f), endOf("chat", f))
      BY <1>2, <1>4, <2>2, ChatHears
    <3>2. receiveAll(client, <<f>>) = ChatClient(client, f)
      BY <2>2, ReadsShort DEF receiveAll
    <3> QED  BY <1>2, <2>2, <3>1, <3>2
  <2>3. CASE clientDialect = "responses"
    <3>1. hears(client, ResponsesClient(client, f), textOf("responses", f),
                thinkingOf("responses", f), reasonOf("responses", f),
                endOf("responses", f))
      <4>1. /\ f.event = "response.output_text.delta" => f.piece # None /\ f.kind = "text"
            /\ f.event = "response.function_call_arguments.delta" =>
                 f.kind = "function_call" /\ f.piece # None
        BY <1>2, <1>4, <2>3 DEF known, Done
      <4> QED  BY <1>4, <4>1, ResponsesHears
    <3>2. receiveAll(client, <<f>>) = ResponsesClient(client, f)
      BY <2>3, ReadsShort DEF receiveAll
    <3> QED  BY <1>2, <2>3, <3>1, <3>2
  <2> QED  BY <1>2, <2>1, <2>2, <2>3 DEF Dialects
<1>10. passed(f) = thinkingOf(upstream, f)
  BY <1>2 DEF passed, carriesThinking, thinkingOf, Dialects
<1>11. client' = IF left THEN client ELSE receiveAll(client, <<f>>)
  BY <1>1, <1>3 DEF written
<1>12. frameTold(f)
  BY <1>1, <1>3, <1>7, <1>9, <1>10, <1>11 DEF frameTold
<1> QED  BY <1>1, <1>3, <1>8, <1>12

LEMMA EndCloses ==
  ASSUME NEW f
  PROVE  /\ heardEnd(f) => closes(f)
         /\ heardEnd(f) \in BOOLEAN
<1>1. CASE route = <<"anthropic", "responses">>
  <2>1. heardEnd(f) <=> f.event = "[DONE]" \/ f.event = "response.completed"
    BY <1>1 DEF heardEnd, closesResponse
  <2>2. heardEnd(f) \in BOOLEAN
    BY <1>1 DEF heardEnd, closesResponse
  <2> QED  BY <2>1, <2>2 DEF closes
<1>2. CASE route # <<"anthropic", "responses">>
  <2>1. heardEnd(f) = (f.event = "message_stop") \/ heardEnd(f) = (f.event = "[DONE]")
    BY <1>2 DEF heardEnd, endOf
  <2> QED  BY <2>1 DEF closes
<1> QED  BY <1>1, <1>2
-----------------------------------------------------------------------------
(* A step of the provider.                                                 *)

callsSame == toolsOf(up') = toolsOf(up)
nothingShown == \A i \in 1..Len(wire') : ~showsCall(wire'[i])

talkedOn ==
  /\ up.phase \in {"new", "talking"} /\ up'.phase = "talking"
  /\ allCalm(upstream, wire')
  /\ \/ callsSame /\ nothingShown
     \/ callsSame /\ toolsOf(up) # {}
     \/ /\ toolsOf(up') # {} /\ wire' # <<>>
        /\ upstream = "responses" => showsCall(Last(wire'))
        /\ upstream = "chat" => Last(wire').event = "chunk" /\ Last(wire').tools # <<>>

finishedNow(text, thinking) ==
  /\ up.phase = "talking" /\ up'.phase = "finished"
  /\ text = None /\ thinking = None /\ callsSame /\ nothingShown
  /\ \A i \in 1..Len(wire') :
       closes(wire'[i]) => upstream = "responses" /\ i = Len(wire')
  /\ upstream # "responses" => finishesOnce(upstream, wire', up'.finish)
  /\ upstream = "responses" =>
       IF up'.finish = "length" THEN \A i \in 1..Len(wire') : ~closes(wire'[i])
       ELSE completes(up, wire')

terminatedNow(text, thinking) ==
  /\ up.phase = "finished" /\ up'.phase = "ended" /\ up'.finish = up.finish
  /\ text = None /\ thinking = None /\ callsSame /\ nothingShown
  /\ \A i \in 1..Len(wire') :
       ~finishes(upstream, wire'[i]) /\ ~donesCall(wire'[i]) /\ i = Len(wire')
  /\ upstream = "responses" /\ up.finish = "length" => wire' = <<>>
  /\ upstream # "responses" => \E i \in 1..Len(wire') : endOf(upstream, wire'[i])

providerSaid(text, thinking) ==
  /\ connected /\ pc = "reading" /\ wire = <<>>
  /\ route' = route /\ connection' = connection /\ codec' = codec
  /\ client' = client /\ left' = left /\ reqLog' = reqLog /\ pc' = pc
  /\ requests' = requests
  /\ isUp(upstream, up')
  /\ up'.text = append(up.text, text) /\ up'.thinking = append(up.thinking, thinking)
  /\ carries(upstream, wire', text, IF upstream = "responses" THEN None ELSE thinking)
  /\ talkedOn \/ finishedNow(text, thinking) \/ terminatedNow(text, thinking)

Speaking ==
  \/ UpstreamBegins \/ UpstreamSaysText \/ UpstreamThinks \/ UpstreamCallsTool
  \/ UpstreamSaysArguments \/ UpstreamFinishes \/ UpstreamTerminates

LEMMA ProviderSpeaks ==
  ASSUME StreamTypeOK, ReaderInv, Speaking
  PROVE  \E text, thinking : providerSaid(text, thinking)
<1>0. upstream \in Dialects /\ isUp(upstream, up)
  BY RoutesAre DEF StreamTypeOK, ReaderInv
<1>1. ASSUME NEW said, listening, sends(said), NEW text, NEW thinking,
             spoke(upstream, up, said, text, thinking),
             talkedOn \/ finishedNow(text, thinking) \/ terminatedNow(text, thinking)
      PROVE  \E t, q : providerSaid(t, q)
  <2>1. providerSaid(text, thinking)
    BY <1>1 DEF listening, sends, spoke, providerSaid, connected
  <2> QED  BY <2>1
<1>2. \A said : sends(said) => up' = said.up /\ wire' = said.frames
  BY DEF sends
<1>3. \A v : sameCalls(up, v) <=> toolsOf(v) = toolsOf(up)
  BY DEF sameCalls
<1>a. CASE UpstreamBegins
  <2>1. PICK said : said = Begins(upstream, up)
    OBVIOUS
  <2>2. listening /\ up.phase = "new" /\ sends(said)
    BY <1>a, <2>1 DEF UpstreamBegins
  <2>3. /\ spoke(upstream, up, said, None, None) /\ allCalm(upstream, said.frames)
        /\ sameCalls(up, said.up) /\ said.up.phase = "talking"
        /\ \A i \in 1..Len(said.frames) : ~showsCall(said.frames[i])
    BY <1>0, <2>1, <2>2, BeginsSpeaks
  <2>4. talkedOn
    BY <1>2, <1>3, <2>2, <2>3 DEF talkedOn, callsSame, nothingShown
  <2> QED  BY <1>1, <2>2, <2>3, <2>4
<1>b. CASE UpstreamSaysText
  <2>1. PICK said : said = SaysText(upstream, up)
    OBVIOUS
  <2>2. listening /\ up.phase = "talking" /\ sends(said)
    BY <1>b, <2>1 DEF UpstreamSaysText, talking
  <2>3. /\ spoke(upstream, up, said, up.pieces + 1, None) /\ allCalm(upstream, said.frames)
        /\ sameCalls(up, said.up) /\ said.up.phase = "talking"
        /\ \A i \in 1..Len(said.frames) : ~showsCall(said.frames[i])
    BY <1>0, <2>1, <2>2, SaysTextSpeaks
  <2>4. talkedOn
    BY <1>2, <1>3, <2>2, <2>3 DEF talkedOn, callsSame, nothingShown
  <2> QED  BY <1>1, <2>2, <2>3, <2>4
<1>c. CASE UpstreamThinks
  <2>1. PICK said : said = Thinks(upstream, up)
    OBVIOUS
  <2>2. listening /\ up.phase = "talking" /\ sends(said)
    BY <1>c, <2>1 DEF UpstreamThinks, talking
  <2>3. /\ spoke(upstream, up, said, None, up.pieces + 1) /\ allCalm(upstream, said.frames)
        /\ sameCalls(up, said.up) /\ said.up.phase = "talking"
        /\ \A i \in 1..Len(said.frames) : ~showsCall(said.frames[i])
    BY <1>0, <2>1, <2>2, ThinksSpeaks
  <2>4. talkedOn
    BY <1>2, <1>3, <2>2, <2>3 DEF talkedOn, callsSame, nothingShown
  <2> QED  BY <1>1, <2>2, <2>3, <2>4
<1>d. CASE UpstreamCallsTool
  <2>1. PICK said : said = CallsTool(upstream, up)
    OBVIOUS
  <2>2. listening /\ up.phase = "talking" /\ sends(said)
    BY <1>d, <2>1 DEF UpstreamCallsTool, talking
  <2>3. /\ spoke(upstream, up, said, None, None) /\ allCalm(upstream, said.frames)
        /\ toolsOf(said.up) # {} /\ said.up.phase = "talking"
        /\ said.frames # <<>>
        /\ upstream = "responses" => showsCall(Last(said.frames))
        /\ upstream = "chat" => Last(said.frames).event = "chunk" /\
                                Last(said.frames).tools # <<>>
    BY <1>0, <2>1, <2>2, CallsToolSpeaks
  <2>4. talkedOn
    BY <1>2, <2>2, <2>3 DEF talkedOn
  <2> QED  BY <1>1, <2>2, <2>3, <2>4
<1>e. CASE UpstreamSaysArguments
  <2>1. PICK id \in takesArguments(upstream, up) : sends(SaysArguments(upstream, up, id))
    BY <1>e DEF UpstreamSaysArguments
  <2>2. PICK said : said = SaysArguments(upstream, up, id)
    OBVIOUS
  <2>3. listening /\ up.phase = "talking" /\ sends(said) /\ id \in toolsOf(up)
    BY <1>e, <2>1, <2>2 DEF UpstreamSaysArguments, talking, takesArguments
  <2>4. /\ spoke(upstream, up, said, None, None) /\ allCalm(upstream, said.frames)
        /\ sameCalls(up, said.up) /\ said.up.phase = "talking"
    BY <1>0, <2>2, <2>3, SaysArgumentsSpeaks
  <2>5. talkedOn
    BY <1>2, <1>3, <2>3, <2>4 DEF talkedOn, callsSame
  <2> QED  BY <1>1, <2>3, <2>4, <2>5
<1>f. CASE UpstreamFinishes
  <2>1. PICK said \in Finishes(upstream, up) : sends(said)
    BY <1>f DEF UpstreamFinishes
  <2>2. listening /\ up.phase = "talking"
    BY <1>f DEF UpstreamFinishes, talking
  <2>3. /\ spoke(upstream, up, said, None, None) /\ said.up.phase = "finished"
        /\ sameCalls(up, said.up)
        /\ \A i \in 1..Len(said.frames) : ~showsCall(said.frames[i])
        /\ \A i \in 1..Len(said.frames) :
             closes(said.frames[i]) => upstream = "responses" /\ i = Len(said.frames)
        /\ upstream # "responses" => finishesOnce(upstream, said.frames, said.up.finish)
        /\ upstream = "responses" =>
             IF said.up.finish = "length"
             THEN \A i \in 1..Len(said.frames) : ~closes(said.frames[i])
             ELSE completes(up, said.frames)
    BY <1>0, <2>2, FinishesSpeaks
  <2>4. finishedNow(None, None)
    BY <1>2, <1>3, <2>1, <2>2, <2>3 DEF finishedNow, callsSame, nothingShown
  <2> QED  BY <1>1, <2>1, <2>2, <2>3, <2>4
<1>g. CASE UpstreamTerminates
  <2>1. PICK said \in Terminates(upstream, up) : sends(said)
    BY <1>g DEF UpstreamTerminates
  <2>2. listening /\ up.phase = "finished"
    BY <1>g DEF UpstreamTerminates
  <2>3. /\ spoke(upstream, up, said, None, None) /\ said.up.phase = "ended"
        /\ sameCalls(up, said.up) /\ said.up.finish = up.finish
        /\ \A i \in 1..Len(said.frames) :
             /\ ~showsCall(said.frames[i]) /\ ~finishes(upstream, said.frames[i])
             /\ ~donesCall(said.frames[i])
        /\ upstream = "responses" /\ up.finish = "length" => said.frames = <<>>
        /\ \A i \in 1..Len(said.frames) : i = Len(said.frames)
        /\ upstream # "responses" =>
             \E i \in 1..Len(said.frames) : endOf(upstream, said.frames[i])
    BY <1>0, <2>1, <2>2, TerminatesSpeaks
  <2>6. terminatedNow(None, None)
    BY <1>2, <1>3, <2>1, <2>2, <2>3 DEF terminatedNow, callsSame, nothingShown
  <2> QED  BY <1>1, <2>1, <2>2, <2>3, <2>6
<1> QED  BY <1>a, <1>b, <1>c, <1>d, <1>e, <1>f, <1>g DEF Speaking
-----------------------------------------------------------------------------
(* Types, the frames underway and the requests.                            *)

BasicInv == StreamTypeOK /\ ReaderInv /\ RequestsInv

LEMMA SilentIsUp ==
  ASSUME NEW p
  PROVE  isUp(p, Silent)
<1>1. toolsOf(Silent) = {}
  BY DEF toolsOf, Silent
<1>2. IsFiniteSet({})
  BY FS_EmptySet
<1>3. <<>> \in Seq(Nat)
  OBVIOUS
<1>4. /\ {"phase", "pieces", "text", "thinking", "args", "index", "open", "next",
          "finish", "usage", "usageApart"} \subseteq DOMAIN Silent
      /\ Silent.phase = "new" /\ Silent.pieces = 0 /\ Silent.text = <<>>
      /\ Silent.thinking = <<>> /\ Silent.open = NoBlock
  BY DEF Silent
<1>5. NoBlock.kind # "function_call"
  BY DEF NoBlock
<1> QED  BY <1>1, <1>2, <1>3, <1>4, <1>5 DEF isUp

LEMMA NewClientIsView == isView(NewClient)
BY DEF isView, NewClient

LEMMA NewCodecAtWork ==
  ASSUME route \in Routes \union {Aggregated}, translated
  PROVE  atWork(route, newCodec(route))
<1>1. route \in {<<"chat", "anthropic">>, <<"chat", "responses">>,
                 <<"responses", "anthropic">>, <<"responses", "chat">>,
                 <<"anthropic", "chat">>, <<"anthropic", "responses">>}
  BY RoutesAre
<1>a. CASE route = <<"chat", "anthropic">>
  BY <1>a DEF newCodec, atWork, AnthropicInboundState, inbound
<1>b. CASE route = <<"chat", "responses">>
  BY <1>b DEF newCodec, atWork, ResponsesStreamState, watching
<1>c. CASE route = <<"responses", "anthropic">>
  BY <1>c DEF newCodec, atWork, AnthropicToResponsesState, numbering
<1>d. CASE route = <<"responses", "chat">>
  BY <1>d DEF newCodec, atWork, ChatToResponsesStreamState, assembling
<1>e. CASE route \in {<<"anthropic", "chat">>, <<"anthropic", "responses">>}
  <2>1. newCodec(route) = AnthropicOutboundState
    BY <1>e DEF newCodec
  <2>2. IsFiniteSet({})
    BY FS_EmptySet
  <2>3. /\ hasBlocks(AnthropicOutboundState) /\ "out" \in DOMAIN AnthropicOutboundState
        /\ AnthropicOutboundState.out = <<>>
    BY <2>2 DEF hasBlocks, AnthropicOutboundState
  <2> QED  BY <1>e, <2>1, <2>3 DEF atWork
<1> QED  BY <1>1, <1>a, <1>b, <1>c, <1>d, <1>e

LEMMA InitBasic == Init => BasicInv
<1> SUFFICES ASSUME Init PROVE BasicInv
  OBVIOUS
<1>1. StreamTypeOK
  <2>1. Silent.phase = "new"
    BY DEF Silent
  <2>2. /\ route \in Routes \union {Aggregated} /\ up = Silent /\ wire = <<>>
        /\ connection = "open" /\ left = FALSE /\ pc = "reading" /\ requests = 1
    BY DEF Init
  <2>3. up.phase = "new"
    BY <2>1, <2>2
  <2>4. left \in BOOLEAN
    BY <2>2
  <2>5. requests \in 1..2
    BY <2>2
  <2>6. up.phase \in {"new", "talking", "finished", "ended"}
    BY <2>3
  <2> QED  BY <2>2, <2>4, <2>5, <2>6 DEF StreamTypeOK
<1>2. isSeq(wire) /\ Len(wire) = 0
  BY SequencesGrow DEF Init
<1>3. translated => atWork(route, codec)
  BY NewCodecAtWork DEF Init
<1>4. ReaderInv
  BY <1>2, <1>3, SilentIsUp, NewClientIsView DEF Init, ReaderInv
<1>5. RequestsInv
  BY DEF Init, RequestsInv
<1> QED  BY <1>1, <1>4, <1>5 DEF BasicInv

\* What a reader's step leaves is its tail.
LEMMA FramesReadKept ==
  ASSUME BasicInv, NEW f, frameTold(f)
  PROVE  BasicInv'
<1>1. /\ pc = "reading" /\ wire # <<>> /\ f = Head(wire) /\ wire' = Tail(wire)
      /\ route' = route /\ up' = up /\ connection' = connection /\ left' = left
      /\ requests' = requests /\ pc' \in {"reading", "returned"}
      /\ pc' = "reading" /\ translated => atWork(route, codec')
  BY DEF frameTold
<1>2. StreamTypeOK'
  BY <1>1 DEF BasicInv, StreamTypeOK
<1>3. isSeq(wire') /\ \A i \in 1..Len(wire') : known(upstream, wire'[i])
  <2>1. isSeq(wire) /\ \A i \in 1..Len(wire) : known(upstream, wire[i])
    BY DEF BasicInv, ReaderInv
  <2> QED  BY <1>1, <2>1, HeadAndTail
<1>4. isView(client')
  BY DEF frameTold, hears, BasicInv, ReaderInv
<1>5. upstream' = upstream /\ (translated' <=> translated)
  BY <1>1 DEF upstream, translated, clientDialect
<1>6. ReaderInv'
  BY <1>1, <1>3, <1>4, <1>5 DEF BasicInv, ReaderInv
<1>7. RequestsInv'
  BY <1>1 DEF BasicInv, RequestsInv
<1> QED  BY <1>2, <1>6, <1>7 DEF BasicInv

LEMMA NextBasic == BasicInv /\ [Next]_vars => BasicInv'
<1> SUFFICES ASSUME BasicInv, [Next]_vars PROVE BasicInv'
  OBVIOUS
<1>0. StreamTypeOK /\ ReaderInv /\ RequestsInv
  BY DEF BasicInv
<1>1. CASE Speaking
  <2>1. PICK text, thinking : providerSaid(text, thinking)
    BY <1>0, <1>1, ProviderSpeaks
  <2>2. /\ connected /\ pc = "reading" /\ route' = route /\ connection' = connection
        /\ codec' = codec /\ client' = client /\ left' = left /\ pc' = pc
        /\ requests' = requests /\ isUp(upstream, up')
        /\ isSeq(wire') /\ \A i \in 1..Len(wire') : known(upstream, wire'[i])
    BY <2>1 DEF providerSaid, carries
  <2>3. upstream' = upstream /\ (translated' <=> translated)
    BY <2>2 DEF upstream, translated, clientDialect
  <2>4. up'.phase \in {"new", "talking", "finished", "ended"}
    BY <2>2 DEF isUp
  <2>5. StreamTypeOK'
    BY <1>0, <2>2, <2>4 DEF StreamTypeOK, connected
  <2>6. ReaderInv'
    BY <1>0, <2>2, <2>3 DEF ReaderInv
  <2>7. RequestsInv'
    BY <1>0, <2>2 DEF RequestsInv
  <2> QED  BY <2>5, <2>6, <2>7 DEF BasicInv
<1>2. CASE ConnectionCloses
  <2>1. /\ pc = "reading" /\ connection' \in {"eof", "error"} /\ wire' = <<>>
        /\ route' = route /\ up' = up /\ codec' = codec /\ client' = client
        /\ left' = left /\ pc' = pc /\ requests' = requests
    BY <1>2 DEF ConnectionCloses
  <2>2. upstream' = upstream /\ (translated' <=> translated)
    BY <2>1 DEF upstream, translated, clientDialect
  <2>3. isSeq(wire') /\ Len(wire') = 0
    BY <2>1, SequencesGrow
  <2>4. StreamTypeOK'
    BY <1>0, <2>1 DEF StreamTypeOK
  <2>5. ReaderInv'
    BY <1>0, <2>1, <2>2, <2>3 DEF ReaderInv
  <2>6. RequestsInv'
    BY <1>0, <2>1 DEF RequestsInv
  <2> QED  BY <2>4, <2>5, <2>6 DEF BasicInv
<1>3. CASE RelayTranslated
  BY <1>0, <1>3, TranslatedTold, FramesReadKept
<1>4. CASE RelayUnchanged
  BY <1>0, <1>4, UnchangedTold, FramesReadKept
<1>5. CASE ReadForAggregate
  <2>1. /\ route = Aggregated /\ pc = "reading" /\ wire # <<>> /\ wire' = Tail(wire)
        /\ route' = route /\ up' = up /\ connection' = connection /\ client' = client
        /\ left' = left /\ pc' = pc /\ requests' = requests
    BY <1>5 DEF ReadForAggregate, frameRead
  <2>2. upstream' = upstream /\ ~translated'
    BY <2>1 DEF upstream, translated
  <2>3. isSeq(wire') /\ \A i \in 1..Len(wire') : known(upstream, wire'[i])
    BY <1>0, <2>1, HeadAndTail DEF ReaderInv
  <2>4. StreamTypeOK'
    BY <1>0, <2>1 DEF StreamTypeOK
  <2>5. ReaderInv'
    BY <1>0, <2>1, <2>2, <2>3 DEF ReaderInv
  <2>6. RequestsInv'
    BY <1>0, <2>1 DEF RequestsInv
  <2> QED  BY <2>4, <2>5, <2>6 DEF BasicInv
<1>6. CASE StreamExhausted \/ AnswerAggregate \/ FallBack \/ FallbackAnswered
  <2>1. /\ wire' = wire /\ connection' = connection /\ route' = route /\ up' = up
        /\ codec' = codec /\ left' = left /\ pc' \in {"fallback", "returned"}
        /\ pc' = "fallback" => route = Aggregated
        /\ requests' = requests \/ (requests' = requests + 1 /\ pc = "reading" /\
                                    route = Aggregated)
    BY <1>6 DEF StreamExhausted, AnswerAggregate, FallBack, FallbackAnswered, exhausted
  <2>2. isView(client')
    <3>1. \A a : isView(wholeAnswer(a))
      BY DEF isView, wholeAnswer, NewClient
    <3>2. \/ client' = client
          \/ \E a : client' = wholeAnswer(a)
          \/ client' = [client EXCEPT !.ended = 1]
      BY <1>6 DEF StreamExhausted, AnswerAggregate, FallBack, FallbackAnswered
    <3>3. isView([client EXCEPT !.ended = 1])
      BY <1>0 DEF ReaderInv, isView
    <3> QED  BY <1>0, <3>1, <3>2, <3>3 DEF ReaderInv
  <2>3. upstream' = upstream
    BY <2>1 DEF upstream
  <2>4. requests' \in 1..2 /\ (requests' = 2 => route = Aggregated)
    BY <1>0, <2>1 DEF RequestsInv, StreamTypeOK
  <2>5. StreamTypeOK'
    BY <1>0, <2>1, <2>4 DEF StreamTypeOK
  <2>6. ReaderInv'
    BY <1>0, <2>1, <2>2, <2>3 DEF ReaderInv
  <2>7. RequestsInv'
    BY <2>1, <2>4 DEF RequestsInv
  <2> QED  BY <2>5, <2>6, <2>7 DEF BasicInv
<1>7. CASE ClientLeaves
  <2>1. /\ wire' = wire /\ connection' = connection /\ route' = route /\ up' = up
        /\ codec' = codec /\ left' = TRUE /\ pc' = pc /\ client' = client
        /\ requests' = requests
    BY <1>7 DEF ClientLeaves
  <2>2. upstream' = upstream /\ (translated' <=> translated)
    BY <2>1 DEF upstream, translated, clientDialect
  <2>3. StreamTypeOK'
    BY <1>0, <2>1 DEF StreamTypeOK
  <2>4. ReaderInv' /\ RequestsInv'
    BY <1>0, <2>1, <2>2 DEF ReaderInv, RequestsInv
  <2> QED  BY <2>3, <2>4 DEF BasicInv
<1>8. CASE UNCHANGED vars
  BY <1>0, <1>8 DEF vars, BasicInv, StreamTypeOK, ReaderInv, RequestsInv, upstream,
                    translated, clientDialect
<1> QED  BY <1>1, <1>2, <1>3, <1>4, <1>5, <1>6, <1>7, <1>8
         DEF Next, Upstream, Handler, Finished, Speaking

-----------------------------------------------------------------------------
(* The request that is not streamed.                                       *)

LEMMA InitAggregate == Init /\ ~streamed => AggregateInv
<1> SUFFICES ASSUME Init, ~streamed PROVE AggregateInv
  OBVIOUS
<1>1. route = Aggregated
  BY DEF streamed
<1>2. codec = Aggregate
  <2>1. newCodec(Aggregated) = Aggregate
    BY DEF newCodec, Aggregated
  <2> QED  BY <1>1, <2>1 DEF Init
<1>3. codec.loggable = FALSE
  BY <1>2 DEF Aggregate
<1>4. up = Silent /\ pc = "reading" /\ client = NewClient /\ requests = 1
      /\ connection = "open"
  BY DEF Init
<1>5. ~hasAnswer /\ up.thinking = <<>>
  <2>1. toolsOf(Silent) = {} /\ Silent.text = <<>> /\ Silent.thinking = <<>>
    BY DEF toolsOf, Silent
  <2>2. up = Silent
    BY <1>4
  <2> QED  BY <2>1, <2>2 DEF hasAnswer
<1>6. codec.loggable \in BOOLEAN
  BY <1>3
<1> QED  BY <1>4, <1>5, <1>6 DEF AggregateInv

\* A frame with text or thinking is loud, and so is the last of such frames.
LEMMA LastIsLoud ==
  ASSUME NEW s, NEW text, NEW thinking, carries("chat", s, text, thinking)
  PROVE  /\ text # None \/ thinking # None => s # <<>> /\ loud(Last(s))
         /\ s # <<>> => Len(s) \in 1..Len(s) /\ Last(s) = s[Len(s)]
<1>1. s # <<>> => textOf("chat", Last(s)) = text /\ thinkingOf("chat", Last(s)) = thinking
  BY DEF carries
<1>2. s = <<>> => text = None /\ thinking = None
  BY DEF carries
<1>3. \A f : textOf("chat", f) # None \/ thinkingOf("chat", f) # None => loud(f)
  BY DEF textOf, thinkingOf, loud
<1>4. s # <<>> => Len(s) \in Nat /\ Len(s) >= 1 /\ Last(s) = s[Len(s)]
  BY HeadAndTail DEF carries
<1> QED  BY <1>1, <1>2, <1>3, <1>4

LEMMA NextAggregate ==
  BasicInv /\ ~streamed /\ AggregateInv /\ [Next]_vars => AggregateInv'
<1> SUFFICES ASSUME BasicInv, ~streamed, AggregateInv, [Next]_vars PROVE AggregateInv'
  OBVIOUS
<1> DEFINE said == hasAnswer \/ up.thinking # <<>>
           somewhere == codec.loggable = TRUE \/ \E i \in 1..Len(wire) : loud(wire[i])
<1>0. StreamTypeOK /\ ReaderInv /\ RequestsInv
  BY DEF BasicInv
<1>r. /\ route = Aggregated /\ upstream = "chat" /\ ~translated
  BY DEF streamed, upstream, Aggregated, translated
<1>i. /\ pc # "returned" => client = NewClient
      /\ codec.loggable \in BOOLEAN
      /\ connection = "error" => up.phase # "ended"
      /\ healthy /\ said => somewhere
      /\ requests = 2 => FallbackOnlyUnanswered
  BY DEF AggregateInv
<1>n. pc = "reading" => requests # 2
  BY <1>0 DEF RequestsInv
<1>1. CASE Speaking
  <2>1. PICK text, thinking : providerSaid(text, thinking)
    BY <1>0, <1>1, ProviderSpeaks
  <2>2. /\ connected /\ pc = "reading" /\ wire = <<>> /\ connection' = connection
        /\ codec' = codec /\ client' = client /\ pc' = pc /\ requests' = requests
        /\ up'.text = append(up.text, text) /\ up'.thinking = append(up.thinking, thinking)
        /\ carries("chat", wire', text, thinking)
    BY <1>r, <2>1 DEF providerSaid
  <2>3. said' => somewhere'
    <3>1. CASE text # None \/ thinking # None
      <4>1. PICK k : k = Len(wire')
        OBVIOUS
      <4>2. k \in 1..Len(wire') /\ loud(wire'[k])
        BY <2>2, <3>1, <4>1, LastIsLoud
      <4> QED  BY <4>2
    <3>2. CASE text = None /\ thinking = None /\ callsSame
      <4>1. up'.text = up.text /\ up'.thinking = up.thinking /\ toolsOf(up') = toolsOf(up)
        BY <2>2, <3>2 DEF append, callsSame
      <4>2. said' => said
        BY <4>1 DEF hasAnswer
      <4>3. Len(<<>>) = 0
        BY SequencesGrow
      <4>4. said => codec.loggable = TRUE
        BY <1>i, <2>2, <4>3 DEF healthy
      <4> QED  BY <2>2, <4>2, <4>4
    <3>3. CASE ~callsSame
      <4>1. wire' # <<>> /\ loud(Last(wire'))
        BY <1>r, <2>1, <3>3 DEF providerSaid, talkedOn, finishedNow, terminatedNow, loud
      <4>2. PICK k : k = Len(wire')
        OBVIOUS
      <4>3. k \in 1..Len(wire') /\ loud(wire'[k])
        BY <2>2, <4>1, <4>2, LastIsLoud
      <4> QED  BY <4>3
    <3> QED  BY <3>1, <3>2, <3>3
  <2> QED  BY <1>i, <1>n, <2>2, <2>3 DEF AggregateInv, connected
<1>2. CASE ConnectionCloses
  <2>1. /\ connected /\ pc = "reading" /\ connection' \in {"eof", "error"} /\ wire' = <<>>
        /\ up.phase = "ended" => wire = <<>> /\ connection' = "eof"
        /\ up' = up /\ codec' = codec /\ client' = client /\ pc' = pc
        /\ requests' = requests
    BY <1>2 DEF ConnectionCloses, connected
  <2>2. healthy' => up.phase = "ended"
    BY <2>1 DEF healthy, connected
  <2>3. healthy' /\ said' => somewhere'
    <3>1. said' => said
      BY <2>1 DEF hasAnswer
    <3>2. Len(<<>>) = 0
      BY SequencesGrow
    <3>3. healthy' /\ said => codec.loggable = TRUE
      BY <1>i, <2>1, <2>2, <3>2 DEF healthy
    <3> QED  BY <2>1, <3>1, <3>3
  <2> QED  BY <1>i, <1>n, <2>1, <2>3 DEF AggregateInv
<1>3. CASE RelayTranslated
  BY <1>3, <1>r DEF RelayTranslated
<1>4. CASE RelayUnchanged
  BY <1>4, <1>r DEF RelayUnchanged
<1>5. CASE ReadForAggregate
  <2>1. /\ pc = "reading" /\ wire # <<>> /\ wire' = Tail(wire)
        /\ codec' = aggregateChunk(codec, Head(wire)) /\ up' = up
        /\ connection' = connection /\ client' = client /\ pc' = pc /\ requests' = requests
    BY <1>5 DEF ReadForAggregate, frameRead
  <2>2. PICK f : f = Head(wire)
    OBVIOUS
  <2>3. /\ codec'.loggable \in BOOLEAN /\ (codec.loggable = TRUE => codec'.loggable = TRUE)
        /\ loud(f) => codec'.loggable = TRUE
    BY <1>i, <2>1, <2>2 DEF aggregateChunk, loud
  <2>4. somewhere => somewhere'
    <3>1. ASSUME NEW i \in 1..Len(wire), loud(wire[i])
          PROVE  somewhere'
      <4>1. i = 1 \/ (i - 1 \in 1..Len(wire') /\ wire'[i - 1] = wire[i])
        BY <1>0, <2>1, HeadAndTail DEF ReaderInv
      <4>2. wire[1] = f
        BY <1>0, <2>1, <2>2, HeadAndTail DEF ReaderInv
      <4> QED  BY <2>3, <3>1, <4>1, <4>2
    <3> QED  BY <2>3, <3>1
  <2>5. (healthy /\ said)' => healthy /\ said
    BY <2>1 DEF healthy, connected, hasAnswer
  <2> QED  BY <1>i, <1>n, <2>1, <2>3, <2>4, <2>5 DEF AggregateInv
<1>6. CASE StreamExhausted
  BY <1>6, <1>r DEF StreamExhausted
<1>7. CASE AnswerAggregate \/ FallbackAnswered \/ ClientLeaves \/ UNCHANGED vars
  <2>1. /\ wire' = wire /\ up' = up /\ codec' = codec /\ connection' = connection
        /\ requests' = requests
        /\ pc' = "returned" \/ (pc' = pc /\ client' = client)
    BY <1>7 DEF AnswerAggregate, FallbackAnswered, ClientLeaves, vars
  <2>2. (healthy /\ said => somewhere)'
    BY <1>i, <2>1 DEF healthy, connected, hasAnswer
  <2>3. requests = 2 => FallbackOnlyUnanswered'
    BY <1>i, <2>1 DEF FallbackOnlyUnanswered, hasAnswer
  <2> QED  BY <1>i, <2>1, <2>2, <2>3 DEF AggregateInv
<1>8. CASE FallBack
  <2>1. /\ pc = "reading" /\ wire = <<>> /\ wire' = wire /\ up' = up /\ codec' = codec
        /\ connection' = connection /\ client' = client /\ pc' = "fallback"
        /\ connection = "error" \/ ~codec.loggable
    BY <1>8 DEF FallBack, exhausted
  <2>2. (healthy /\ said => somewhere)'
    BY <1>i, <2>1 DEF healthy, connected, hasAnswer
  <2>3. Len(<<>>) = 0
    BY SequencesGrow
  <2>4. up.phase = "ended" => ~said
    BY <1>i, <2>1, <2>3 DEF healthy
  <2>5. FallbackOnlyUnanswered'
    BY <1>i, <2>1, <2>4 DEF FallbackOnlyUnanswered, hasAnswer
  <2> QED  BY <1>i, <2>1, <2>2, <2>5 DEF AggregateInv
<1> QED  BY <1>1, <1>2, <1>3, <1>4, <1>5, <1>6, <1>7, <1>8
         DEF Next, Upstream, Handler, Finished, Speaking

-----------------------------------------------------------------------------
(* Every step of a streamed request: the provider speaks, the connection   *)
(* closes, a frame is handled, or nothing of the answer moves.             *)

LEMMA RouteStays ==
  ASSUME [Next]_vars
  PROVE  /\ route' = route
         /\ (streamed' <=> streamed) /\ (translated' <=> translated)
         /\ (carriesThinking' <=> carriesThinking)
         /\ upstream' = upstream /\ clientDialect' = clientDialect
<1>1. route' = route
  BY DEF Next, Upstream, Handler, Finished, vars, UpstreamBegins,
         UpstreamSaysText, UpstreamThinks, UpstreamCallsTool, UpstreamSaysArguments,
         UpstreamFinishes, UpstreamTerminates, sends, ConnectionCloses,
         RelayTranslated, RelayUnchanged, ReadForAggregate, StreamExhausted,
         AnswerAggregate, FallBack, FallbackAnswered, ClientLeaves
<1>2. upstream' = upstream /\ clientDialect' = clientDialect
  BY <1>1 DEF upstream, clientDialect
<1> QED  BY <1>1, <1>2 DEF streamed, translated, carriesThinking

closed ==
  /\ connected /\ pc = "reading" /\ ~connected' /\ wire' = <<>>
  /\ up.phase = "ended" => wire = <<>>
  /\ up' = up /\ codec' = codec /\ client' = client /\ left' = left /\ pc' = pc

idle ==
  /\ up' = up /\ wire' = wire /\ connection' = connection /\ client' = client
  /\ codec' = codec
  /\ left' = left \/ left' = TRUE
  /\ pc' = pc \/ pc' = "returned"

LEMMA StreamedSteps ==
  ASSUME BasicInv, streamed, [Next]_vars
  PROVE  \/ \E text, thinking : providerSaid(text, thinking)
         \/ closed
         \/ frameTold(Head(wire)) /\ frameKept(Head(wire))
         \/ idle
<1>0. StreamTypeOK /\ ReaderInv /\ RequestsInv /\ route # Aggregated
  BY DEF BasicInv, streamed
<1>1. CASE Speaking
  BY <1>0, <1>1, ProviderSpeaks
<1>2. CASE ConnectionCloses
  BY <1>2 DEF ConnectionCloses, closed, connected
<1>3. CASE RelayTranslated
  BY <1>0, <1>3, TranslatedTold
<1>4. CASE RelayUnchanged
  BY <1>0, <1>4, UnchangedTold
<1>5. CASE ReadForAggregate \/ AnswerAggregate \/ FallBack \/ FallbackAnswered
  BY <1>0, <1>5 DEF ReadForAggregate, AnswerAggregate, FallBack, FallbackAnswered,
                    RequestsInv
<1>6. CASE StreamExhausted \/ ClientLeaves \/ UNCHANGED vars
  BY <1>6 DEF StreamExhausted, ClientLeaves, vars, idle
<1> QED  BY <1>1, <1>2, <1>3, <1>4, <1>5, <1>6
         DEF Next, Upstream, Handler, Finished, Speaking
-----------------------------------------------------------------------------
(* The words of the answer.                                                *)

LEMMA PrefixGrows ==
  /\ \A s \in Seq(Nat) : IsPrefix(s, s) /\ IsPrefix(<<>>, s)
  /\ \A s, t \in Seq(Nat) : \A e : IsPrefix(s, t) => IsPrefix(s, Append(t, e))
<1>1. ASSUME NEW s \in Seq(Nat)
      PROVE  IsPrefix(s, s) /\ IsPrefix(<<>>, s)
  BY DEF IsPrefix
<1>2. ASSUME NEW s \in Seq(Nat), NEW t \in Seq(Nat), NEW e, IsPrefix(s, t)
      PROVE  IsPrefix(s, Append(t, e))
  <2>1. t \in Seq(Nat \union {e}) /\ Append(t, e) \in Seq(Nat \union {e})
    BY SequencesGrow
  <2>2. Len(s) \in Nat /\ Len(t) \in Nat /\ Len(s) <= Len(t)
        /\ SubSeq(s, 1, Len(s)) = SubSeq(t, 1, Len(s))
    BY <1>2 DEF IsPrefix
  <2>3. Len(Append(t, e)) = Len(t) + 1
    BY <2>1
  <2>4. \A i \in 1..Len(s) : Append(t, e)[i] = t[i]
    BY <2>1, <2>2
  <2>5. SubSeq(Append(t, e), 1, Len(s)) = SubSeq(t, 1, Len(s))
    BY <2>1, <2>2, <2>3, <2>4
  <2> QED  BY <2>2, <2>3, <2>5 DEF IsPrefix
<1> QED  BY <1>1, <1>2
LEMMA InitWords == Init => WordsInv
<1> SUFFICES ASSUME Init PROVE WordsInv
  OBVIOUS
<1>1. /\ up = Silent /\ wire = <<>> /\ client = NewClient
  BY DEF Init
<1>2. Silent.text = <<>> /\ Silent.thinking = <<>>
  BY DEF Silent
<1>3. NewClient.text = <<>> /\ NewClient.thinking = <<>>
  BY DEF NewClient
<1>4. <<>> \in Seq(Nat) /\ IsPrefix(<<>>, <<>>)
  <2>1. <<>> \in Seq(Nat)
    OBVIOUS
  <2> QED  BY <2>1, PrefixGrows
<1>5. Len(wire) = 0
  BY <1>1, SequencesGrow
<1>6. pendingText = None /\ pendingThinking = None
  BY <1>1 DEF pendingText, pendingThinking
<1> QED  BY <1>1, <1>2, <1>3, <1>4, <1>5, <1>6 DEF WordsInv, append

LEMMA NextWords ==
  BasicInv /\ streamed /\ WordsInv /\ [Next]_vars => WordsInv'
<1> SUFFICES ASSUME BasicInv, streamed, WordsInv, [Next]_vars PROVE WordsInv'
  OBVIOUS
<1>r. upstream' = upstream /\ (carriesThinking' <=> carriesThinking)
  BY RouteStays
<1>u. up.text \in Seq(Nat) /\ up.thinking \in Seq(Nat) /\ isSeq(wire)
  BY DEF BasicInv, ReaderInv, isUp
<1>o. wire # <<>> => connected
  BY DEF BasicInv, StreamTypeOK, connected
<1>i. /\ \A i \in 1..Len(wire) : i < Len(wire) => silent(upstream, wire[i])
      /\ client.text \in Seq(Nat) /\ client.thinking \in Seq(Nat)
      /\ IsPrefix(client.text, up.text) /\ IsPrefix(client.thinking, up.thinking)
      /\ healthy /\ ~left => /\ up.text = append(client.text, pendingText)
                             /\ carriesThinking =>
                                  up.thinking = append(client.thinking, pendingThinking)
  BY DEF WordsInv
<1>a. \A x : append(x, None) = x
  BY DEF append
<1>p. \A x, y \in Seq(Nat) : \A e :
        IsPrefix(x, y) => IsPrefix(x, append(y, e))
  BY PrefixGrows DEF append
<1>e. wire = <<>> => pendingText = None /\ pendingThinking = None
  BY DEF pendingText, pendingThinking
<1>1. ASSUME NEW text, NEW thinking, providerSaid(text, thinking)
      PROVE  WordsInv'
  <2>1. /\ connected /\ wire = <<>> /\ connection' = connection /\ client' = client
        /\ left' = left
        /\ up'.text = append(up.text, text)
        /\ up'.thinking = append(up.thinking, thinking)
        /\ carries(upstream, wire', text,
                   IF upstream = "responses" THEN None ELSE thinking)
    BY <1>1 DEF providerSaid
  <2>2. \A i \in 1..Len(wire') : i < Len(wire') => silent(upstream, wire'[i])
    BY <2>1 DEF carries
  <2>3. pendingText' = text
    BY <1>r, <2>1 DEF carries, pendingText
  <2>4. carriesThinking => pendingThinking' = thinking
    BY <1>r, <2>1 DEF carries, pendingThinking, carriesThinking
  <2>5. ~left => /\ up.text = client.text
                 /\ carriesThinking => up.thinking = client.thinking
    BY <1>i, <1>a, <1>e, <2>1 DEF healthy
  <2>6. IsPrefix(client.text, up'.text) /\ IsPrefix(client.thinking, up'.thinking)
    BY <1>i, <1>u, <1>p, <2>1
  <2> QED  BY <1>i, <1>r, <2>1, <2>2, <2>3, <2>4, <2>5, <2>6 DEF WordsInv
<1>2. CASE closed
  <2>1. /\ wire' = <<>> /\ up' = up /\ client' = client /\ left' = left
        /\ ~connected' /\ connected
        /\ up.phase = "ended" => wire = <<>>
    BY <1>2 DEF closed
  <2>2. Len(wire') = 0
    BY <2>1, SequencesGrow
  <2>3. pendingText' = None /\ pendingThinking' = None
    BY <2>1 DEF pendingText, pendingThinking
  <2>4. healthy' => wire = <<>> /\ healthy
    BY <2>1 DEF healthy
  <2>5. (healthy /\ ~left)' => /\ up.text = append(client.text, None)
                               /\ carriesThinking =>
                                    up.thinking = append(client.thinking, None)
    BY <1>i, <1>e, <2>1, <2>4
  <2> QED  BY <1>i, <1>r, <2>1, <2>2, <2>3, <2>5 DEF WordsInv
<1>3. CASE frameTold(Head(wire)) /\ frameKept(Head(wire))
  <2>1. PICK f : f = Head(wire)
    OBVIOUS
  <2>2. /\ wire # <<>> /\ wire' = Tail(wire) /\ up' = up /\ connection' = connection
        /\ left' = left
        /\ IF left THEN client' = client
           ELSE hears(client, client', textOf(upstream, f), passed(f), heardReason(f),
                      heardEnd(f))
    BY <1>3, <2>1 DEF frameTold
  <2>3. /\ f = wire[1] /\ Len(wire) \in Nat /\ Len(wire) >= 1
        /\ Len(wire') \in Nat /\ Len(wire') = Len(wire) - 1
        /\ \A i \in 1..Len(wire') : i + 1 \in 1..Len(wire) /\ wire'[i] = wire[i + 1]
        /\ wire' = <<>> <=> Len(wire) = 1
        /\ wire' # <<>> => Last(wire') = Last(wire)
        /\ Last(wire) = wire[Len(wire)]
    BY <1>u, <2>1, <2>2, HeadAndTail
  <2>4. healthy /\ (healthy' <=> healthy)
    BY <1>o, <2>2 DEF healthy, connected
  <2>5. \A i \in 1..Len(wire') : i < Len(wire') => silent(upstream, wire'[i])
    <3> TAKE i \in 1..Len(wire')
    <3>1. i < Len(wire') => i + 1 < Len(wire)
      BY <2>3
    <3> QED  BY <1>i, <2>3, <3>1
  <2>6. /\ wire' # <<>> => pendingText' = pendingText /\ pendingThinking' = pendingThinking
        /\ wire' = <<>> => pendingText' = None /\ pendingThinking' = None
    BY <1>r, <2>2, <2>3 DEF pendingText, pendingThinking
  <2>7. CASE left
    BY <1>i, <1>r, <2>2, <2>5, <2>7 DEF WordsInv
  <2>8. CASE ~left
    <3>1. /\ client'.text = append(client.text, textOf(upstream, f))
          /\ client'.thinking = append(client.thinking, passed(f))
      BY <2>2, <2>8 DEF hears
    <3>2. wire' # <<>> => textOf(upstream, f) = None /\ thinkingOf(upstream, f) = None
      BY <1>i, <2>3 DEF silent
    <3>3. wire' = <<>> => /\ textOf(upstream, f) = pendingText
                          /\ thinkingOf(upstream, f) = pendingThinking
      BY <2>2, <2>3 DEF pendingText, pendingThinking
    <3>4. passed(f) = None \/ (carriesThinking /\ passed(f) = thinkingOf(upstream, f))
      BY DEF passed
    <3>5. carriesThinking => passed(f) = thinkingOf(upstream, f)
      BY DEF passed
    <3>6. up.text = append(client'.text, pendingText')
      BY <1>i, <1>a, <2>4, <2>6, <2>8, <3>1, <3>2, <3>3
    <3>7. carriesThinking => up.thinking = append(client'.thinking, pendingThinking')
      BY <1>i, <1>a, <2>4, <2>6, <2>8, <3>1, <3>2, <3>3, <3>5
    <3>8. client'.text = client.text \/ client'.text = up.text
      BY <1>i, <1>a, <2>4, <2>8, <3>1, <3>2, <3>3
    <3>9. client'.thinking = client.thinking \/ client'.thinking = up.thinking
      BY <1>i, <1>a, <2>4, <2>8, <3>1, <3>2, <3>3, <3>4
    <3>10. /\ client'.text \in Seq(Nat) /\ client'.thinking \in Seq(Nat)
           /\ IsPrefix(client'.text, up.text) /\ IsPrefix(client'.thinking, up.thinking)
      BY <1>i, <1>u, <3>8, <3>9, PrefixGrows
    <3> QED  BY <1>r, <2>2, <2>5, <3>6, <3>7, <3>10 DEF WordsInv
  <2> QED  BY <2>7, <2>8
<1>4. CASE idle
  <2>1. /\ wire' = wire /\ up' = up /\ client' = client /\ connection' = connection
        /\ left' = left \/ left' = TRUE
    BY <1>4 DEF idle
  <2>2. pendingText' = pendingText /\ pendingThinking' = pendingThinking
        /\ (healthy' <=> healthy)
    BY <1>r, <2>1 DEF pendingText, pendingThinking, healthy, connected
  <2> QED  BY <1>i, <1>r, <2>1, <2>2 DEF WordsInv
<1> QED  BY <1>1, <1>2, <1>3, <1>4, StreamedSteps

-----------------------------------------------------------------------------
(* The end of the answer.                                                  *)

LEMMA InitEnd == Init => EndInv
<1> SUFFICES ASSUME Init PROVE EndInv
  OBVIOUS
<1>1. up = Silent /\ wire = <<>> /\ client = NewClient
  BY DEF Init
<1>2. Silent.phase = "new" /\ NewClient.ended = 0
  BY DEF Silent, NewClient
<1>3. Len(wire) = 0
  BY <1>1, SequencesGrow
<1> QED  BY <1>1, <1>2, <1>3 DEF EndInv, final

LEMMA NextEnd ==
  BasicInv /\ streamed /\ WordsInv /\ EndInv /\ [Next]_vars => EndInv'
<1> SUFFICES ASSUME BasicInv, streamed, WordsInv, EndInv, [Next]_vars PROVE EndInv'
  OBVIOUS
<1>r. upstream' = upstream
  BY RouteStays
<1>w. WordsInv'
  BY NextWords
<1>u. isSeq(wire) /\ isView(client)
  BY DEF BasicInv, ReaderInv
<1>o. wire # <<>> => connected
  BY DEF BasicInv, StreamTypeOK, connected
<1>i. /\ final => \A i \in 1..Len(wire) : silent(upstream, wire[i])
      /\ \A i \in 1..Len(wire) : closes(wire[i]) => final /\ i = Len(wire)
      /\ reportedFailure => \A i \in 1..Len(wire) : ~closes(wire[i])
      /\ client.ended > 0 => final /\ client.text = up.text /\ ~reportedFailure
  BY DEF EndInv
<1>a. \A x : append(x, None) = x
  BY DEF append
<1>1. ASSUME NEW text, NEW thinking, providerSaid(text, thinking)
      PROVE  EndInv'
  <2>1. /\ client' = client /\ up'.text = append(up.text, text)
        /\ carries(upstream, wire', text,
                   IF upstream = "responses" THEN None ELSE thinking)
        /\ talkedOn \/ finishedNow(text, thinking) \/ terminatedNow(text, thinking)
    BY <1>1 DEF providerSaid
  <2>2. text = None /\ thinking = None =>
          \A i \in 1..Len(wire') : silent(upstream, wire'[i])
    <3> SUFFICES ASSUME text = None, thinking = None, NEW i \in 1..Len(wire')
                 PROVE  silent(upstream, wire'[i])
      OBVIOUS
    <3>1. isSeq(wire') /\ Len(wire') \in Nat /\ wire' # <<>> /\ Last(wire') = wire'[Len(wire')]
      <4>1. isSeq(wire')
        BY <2>1 DEF carries
      <4>2. wire' # <<>>
        BY SequencesGrow
      <4> QED  BY <4>1, <4>2, HeadAndTail
    <3>2. carries(upstream, wire', None, None)
      BY <2>1
    <3>3. silent(upstream, Last(wire'))
      BY <3>1, <3>2 DEF carries, silent
    <3>4. i < Len(wire') \/ i = Len(wire')
      BY <3>1
    <3> QED  BY <3>1, <3>2, <3>3, <3>4 DEF carries
  <2>3. CASE talkedOn
    <3>1. ~final /\ ~final' /\ \A i \in 1..Len(wire') : ~closes(wire'[i])
      BY <2>3 DEF talkedOn, final, allCalm, calm
    <3> QED  BY <1>i, <2>1, <3>1 DEF EndInv
  <2>4. CASE finishedNow(text, thinking)
    <3>1. ~final /\ final' /\ text = None /\ thinking = None
      BY <2>4 DEF finishedNow, final
    <3>2. \A i \in 1..Len(wire') : closes(wire'[i]) => i = Len(wire')
      BY <2>4 DEF finishedNow
    <3>3. reportedFailure' => \A i \in 1..Len(wire') : ~closes(wire'[i])
      BY <1>r, <2>4 DEF finishedNow, reportedFailure
    <3> QED  BY <1>i, <1>r, <2>1, <2>2, <3>1, <3>2, <3>3 DEF EndInv
  <2>5. CASE terminatedNow(text, thinking)
    <3>1. /\ final' /\ text = None /\ thinking = None
          /\ (reportedFailure' <=> reportedFailure)
      BY <1>r, <2>5 DEF terminatedNow, final, reportedFailure
    <3>2. \A i \in 1..Len(wire') : i = Len(wire')
      BY <2>5 DEF terminatedNow
    <3>3. reportedFailure => wire' = <<>>
      BY <2>5 DEF terminatedNow, reportedFailure
    <3>4. Len(<<>>) = 0
      BY SequencesGrow
    <3>5. reportedFailure => \A i \in 1..Len(wire') : ~closes(wire'[i])
      BY <3>3, <3>4
    <3> QED  BY <1>a, <1>i, <1>r, <2>1, <2>2, <3>1, <3>2, <3>5 DEF EndInv
  <2> QED  BY <2>1, <2>3, <2>4, <2>5
<1>2. CASE closed
  <2>1. wire' = <<>> /\ up' = up /\ client' = client
    BY <1>2 DEF closed
  <2>2. Len(wire') = 0
    BY <2>1, SequencesGrow
  <2> QED  BY <1>i, <1>r, <2>1, <2>2 DEF EndInv, final, reportedFailure
<1>3. CASE frameTold(Head(wire)) /\ frameKept(Head(wire))
  <2>1. PICK f : f = Head(wire)
    OBVIOUS
  <2>2. /\ wire # <<>> /\ wire' = Tail(wire) /\ up' = up /\ connection' = connection
        /\ left' = left
        /\ IF left THEN client' = client
           ELSE hears(client, client', textOf(upstream, f), passed(f), heardReason(f),
                      heardEnd(f))
    BY <1>3, <2>1 DEF frameTold
  <2>3. /\ f = wire[1] /\ Len(wire) \in Nat /\ Len(wire) >= 1 /\ 1 \in 1..Len(wire)
        /\ Len(wire') \in Nat /\ Len(wire') = Len(wire) - 1
        /\ \A i \in 1..Len(wire') : i + 1 \in 1..Len(wire) /\ wire'[i] = wire[i + 1]
        /\ wire' = <<>> <=> Len(wire) = 1
    BY <1>u, <2>1, <2>2, HeadAndTail
  <2>4. (final' <=> final) /\ (reportedFailure' <=> reportedFailure)
    BY <1>r, <2>2 DEF final, reportedFailure
  <2>5. \A i \in 1..Len(wire') :
          /\ final => silent(upstream, wire'[i])
          /\ closes(wire'[i]) => final /\ i = Len(wire')
          /\ reportedFailure => ~closes(wire'[i])
    <3> TAKE i \in 1..Len(wire')
    <3>1. i + 1 = Len(wire) => i = Len(wire')
      BY <2>3
    <3> QED  BY <1>i, <2>3, <3>1
  <2>6. CASE left
    BY <1>i, <1>r, <2>2, <2>4, <2>5, <2>6 DEF EndInv
  <2>7. CASE ~left /\ heardEnd(f)
    <3>1. closes(f)
      BY <2>7, EndCloses
    <3>2. final /\ wire' = <<>> /\ ~reportedFailure
      BY <1>i, <2>3, <3>1
    <3>3. healthy' /\ ~left'
      BY <1>o, <2>2, <2>7 DEF healthy, connected
    <3>4. up'.text = append(client'.text, pendingText')
      BY <1>w, <3>3 DEF WordsInv
    <3>5. pendingText' = None
      BY <3>2 DEF pendingText
    <3>6. client'.text = up'.text
      BY <1>a, <3>4, <3>5
    <3> QED  BY <1>r, <2>4, <2>5, <3>2, <3>6 DEF EndInv
  <2>8. CASE ~left /\ ~heardEnd(f)
    <3>1. client'.ended = client.ended /\ client'.text = append(client.text, textOf(upstream, f))
      BY <2>2, <2>8 DEF hears
    <3>2. final => textOf(upstream, f) = None
      BY <1>i, <2>3 DEF silent
    <3> QED  BY <1>a, <1>i, <1>r, <2>2, <2>4, <2>5, <3>1, <3>2 DEF EndInv
  <2> QED  BY <2>6, <2>7, <2>8, EndCloses
<1>4. CASE idle
  <2>1. wire' = wire /\ up' = up /\ client' = client
    BY <1>4 DEF idle
  <2> QED  BY <1>i, <1>r, <2>1 DEF EndInv, final, reportedFailure
<1> QED  BY <1>1, <1>2, <1>3, <1>4, StreamedSteps
-----------------------------------------------------------------------------
(* The finish reason.                                                      *)

LEMMA ReasonsAre ==
  /\ \A reason \in {"length", "stop", "tool_calls", "tool_use", "max_tokens", "end_turn"} :
       reason # NoReason
  /\ \A u : \A reason \in Reasons(u) :
       /\ reason \in {"length", "stop", "tool_calls"}
       /\ reason # "length" => (reason = "tool_calls" <=> toolsOf(u) # {})
<1>1. \A reason \in {"length", "stop", "tool_calls", "tool_use", "max_tokens", "end_turn"} :
        reason # NoReason
  BY Zenon DEF NoReason
<1>2. ASSUME NEW u, NEW reason \in Reasons(u)
      PROVE  /\ reason \in {"length", "stop", "tool_calls"}
             /\ reason # "length" => (reason = "tool_calls" <=> toolsOf(u) # {})
  BY DEF Reasons
<1> QED  BY <1>1, <1>2

LEMMA StopReasons ==
  ASSUME NEW reason \in {"length", "stop", "tool_calls"}
  PROVE  /\ anthropicStopReasonToChatFinish(anthropicStopReasonFromChatFinish(reason)) =
              reason
         /\ anthropicStopReasonFromChatFinish(reason) \in {"tool_use", "max_tokens", "end_turn"}
         /\ anthropicStopReasonFromChatFinish("tool_calls") = "tool_use"
         /\ anthropicStopReasonFromChatFinish("stop") = "end_turn"
BY DEF anthropicStopReasonFromChatFinish, anthropicStopReasonToChatFinish

LEMMA HeardReason ==
  ASSUME NEW c, NEW d, NEW text, NEW thinking, NEW reason, NEW ends,
         hears(c, d, text, thinking, reason, ends)
  PROVE  /\ reason = NoReason => d.finish = c.finish
         /\ reason # NoReason => d.finish = Append(c.finish, reason)
<1>1. d.finish = IF reason = NoReason THEN c.finish ELSE Append(c.finish, reason)
  BY Zenon DEF hears, NoReason
<1> QED  BY <1>1

LEMMA PendingReasons ==
  ASSUME NEW s, NEW f, NEW t
  PROVE  /\ s.PendingFinish = NoReason /\ s.PendingUsage = NoUsage =>
              reasonPending(s) = NoReason
         /\ s.PendingFinish # NoReason =>
              reasonPending(s) = anthropicStopReasonFromChatFinish(s.PendingFinish)
         /\ f.event = "[DONE]" => reasonClosing(s, f) = reasonPending(s)
         /\ f.event = "response.completed" =>
              reasonClosing(s, f) =
                IF s.PendingFinish = NoReason THEN "end_turn"
                ELSE anthropicStopReasonFromChatFinish(s.PendingFinish)
         /\ ~closesResponse(f) => reasonClosing(s, f) = NoReason
         /\ remembersPending(s, f, t) /\ closesResponse(f) =>
              t.PendingFinish = NoReason /\ t.PendingUsage = NoUsage
         /\ remembersPending(s, f, t) /\ ~closesResponse(f) =>
              /\ t.PendingUsage = s.PendingUsage
              /\ t.PendingFinish = IF donesCall(f) THEN "tool_calls" ELSE s.PendingFinish
<1>1. reasonPending(s) = IF s.PendingFinish # NoReason \/ s.PendingUsage # NoUsage
                         THEN anthropicStopReasonFromChatFinish(s.PendingFinish)
                         ELSE NoReason
  BY Zenon DEF reasonPending, NoReason
<1>2. reasonClosing(s, f) =
        CASE f.event = "[DONE]" -> reasonPending(s)
          [] f.event = "response.completed" ->
               IF s.PendingFinish = NoReason THEN "end_turn"
               ELSE anthropicStopReasonFromChatFinish(s.PendingFinish)
          [] OTHER -> NoReason
  BY Zenon DEF reasonClosing, NoReason
<1>3. closesResponse(f) <=> f.event = "[DONE]" \/ f.event = "response.completed"
  BY DEF closesResponse
<1>4. remembersPending(s, f, t) =>
        IF closesResponse(f) THEN t.PendingFinish = NoReason /\ t.PendingUsage = NoUsage
        ELSE /\ t.PendingUsage = s.PendingUsage
             /\ t.PendingFinish = IF donesCall(f) THEN "tool_calls" ELSE s.PendingFinish
  BY Zenon DEF remembersPending, NoReason, donesCall
<1>5. f.event = "[DONE]" => f.event # "response.completed"
  OBVIOUS
<1> QED  BY <1>1, <1>2, <1>3, <1>4, <1>5

LEMMA FrameReasons ==
  ASSUME NEW s, NEW f, NEW t
  PROVE  /\ finishSeen(f) = IF f.event = "message_delta"
                            THEN anthropicStopReasonToChatFinish(f.reason) ELSE NoReason
         /\ finishSummed(s, f) = IF f.event = "response.completed"
                                 THEN IF s.SawToolCall THEN "tool_calls" ELSE "stop"
                                 ELSE NoReason
         /\ reasonOf("chat", f) = IF f.event = "chunk" THEN f.finish ELSE NoReason
         /\ reasonOf("anthropic", f) = IF f.event = "message_delta" THEN f.reason ELSE NoReason
         /\ finishes("chat", f) <=> f.event = "chunk" /\ f.finish # NoReason
         /\ finishes("responses", f) <=> f.event = "response.completed"
         /\ finishes("anthropic", f) <=> f.event = "message_delta"
         /\ keepsReason(s, f, t) =>
              t.PendingFinish = IF f.finish = NoReason THEN s.PendingFinish ELSE f.finish
<1>1. finishSeen(f) = IF f.event = "message_delta"
                      THEN anthropicStopReasonToChatFinish(f.reason) ELSE NoReason
  BY Zenon DEF finishSeen, NoReason
<1>2. finishSummed(s, f) = IF f.event = "response.completed"
                           THEN IF s.SawToolCall THEN "tool_calls" ELSE "stop"
                           ELSE NoReason
  BY Zenon DEF finishSummed, NoReason
<1>3. reasonOf("chat", f) = IF f.event = "chunk" THEN f.finish ELSE NoReason
  BY Zenon DEF reasonOf, NoReason
<1>4. reasonOf("anthropic", f) = IF f.event = "message_delta" THEN f.reason ELSE NoReason
  BY Zenon DEF reasonOf, NoReason
<1>5. finishes("chat", f) <=> f.event = "chunk" /\ f.finish # NoReason
  BY Zenon DEF finishes, NoReason
<1>6. finishes("responses", f) <=> f.event = "response.completed"
  BY Zenon DEF finishes
<1>7. finishes("anthropic", f) <=> f.event = "message_delta"
  BY Zenon DEF finishes
<1>8. keepsReason(s, f, t) =>
        t.PendingFinish = IF f.finish = NoReason THEN s.PendingFinish ELSE f.finish
  BY Zenon DEF keepsReason, NoReason
<1> QED  BY <1>1, <1>2, <1>3, <1>4, <1>5, <1>6, <1>7, <1>8

onRoute(c, u, f, reason) ==
  route = <<c, u>> /\ clientDialect = c /\ upstream = u /\ heardReason(f) = reason

LEMMA FinishRoutes ==
  ASSUME route \in Routes, clientDialect # "responses", NEW f
  PROVE  \/ onRoute("chat", "chat", f, reasonOf("chat", f))
         \/ onRoute("anthropic", "anthropic", f, reasonOf("anthropic", f))
         \/ onRoute("chat", "anthropic", f, finishSeen(f))
         \/ onRoute("chat", "responses", f, finishSummed(codec, f))
         \/ onRoute("anthropic", "chat", f,
                    IF f = Done THEN reasonPending(codec) ELSE NoReason)
         \/ onRoute("anthropic", "responses", f, reasonClosing(codec, f))
<1>1. PICK a \in Dialects, b \in Dialects : route = <<a, b>>
  BY DEF Routes
<1>2. clientDialect = a /\ upstream = b /\ (translated => a # b)
  BY <1>1 DEF clientDialect, upstream, translated
<1>3. CASE a = b
  BY <1>1, <1>2, <1>3 DEF heardReason, onRoute, Dialects
<1>4. CASE a # b
  <2>1. CASE a = "chat" /\ b = "anthropic"
    BY <1>1, <1>2, <2>1 DEF heardReason, onRoute
  <2>2. CASE a = "chat" /\ b = "responses"
    BY <1>1, <1>2, <2>2 DEF heardReason, onRoute
  <2>3. CASE a = "anthropic" /\ b = "chat"
    BY <1>1, <1>2, <2>3 DEF heardReason, onRoute
  <2>4. CASE a = "anthropic" /\ b = "responses"
    BY <1>1, <1>2, <2>4 DEF heardReason, onRoute
  <2> QED  BY <1>2, <1>4, <2>1, <2>2, <2>3, <2>4 DEF Dialects
<1> QED  BY <1>3, <1>4

\* A frame that neither finishes nor closes tells no reason.
LEMMA QuietFrame ==
  ASSUME route \in Routes, clientDialect # "responses",
         NEW f, ~finishes(upstream, f), ~closes(f)
  PROVE  heardReason(f) = NoReason
<1>1. f # Done /\ ~closesResponse(f)
  BY DEF closes, closesResponse, Done
<1>2. reasonClosing(codec, f) = NoReason
  BY <1>1, PendingReasons
<1> QED  BY <1>1, <1>2, FinishRoutes, FrameReasons DEF onRoute

\* What a handler says of the frame that finishes, or of the one that closes
\* when it has kept the reason.
LEMMA ReasonTold ==
  ASSUME route \in Routes, clientDialect # "responses",
         isUp(upstream, up), final, ~reportedFailure,
         NEW f, tellsReason(upstream, f, up.finish),
         route = <<"chat", "responses">> =>
           codec.SawToolCall \in BOOLEAN /\ callsKnown(codec.SawToolCall = TRUE),
         route = <<"anthropic", "responses">> =>
           /\ codec.PendingFinish \in {NoReason, "tool_calls"}
           /\ callsKnown(codec.PendingFinish = "tool_calls"),
         route # <<"anthropic", "chat">>
  PROVE  heardReason(f) = toldReason(up.finish)
<1>1. up.finish \in Reasons(up)
  BY DEF isUp, final
<1>2. /\ up.finish \in {"length", "stop", "tool_calls"}
      /\ up.finish # "length" => (up.finish = "tool_calls" <=> toolsOf(up) # {})
      /\ NoReason # "tool_calls"
  BY <1>1, ReasonsAre
<1>3. upstream = "responses" => up.finish # "length"
  BY DEF reportedFailure
<1>4. /\ clientDialect = "anthropic" =>
           toldReason(up.finish) = anthropicStopReasonFromChatFinish(up.finish)
      /\ clientDialect # "anthropic" => toldReason(up.finish) = up.finish
  BY DEF toldReason
<1>5. CASE onRoute("chat", "chat", f, reasonOf("chat", f))
  <2>1. f.event = "chunk" /\ f.finish = up.finish
    BY <1>5 DEF onRoute, tellsReason
  <2> QED  BY <1>4, <1>5, <2>1, FrameReasons DEF onRoute
<1>6. CASE onRoute("anthropic", "anthropic", f, reasonOf("anthropic", f))
  <2>1. f.event = "message_delta" /\ f.reason = anthropicStopReasonFromChatFinish(up.finish)
    BY <1>6 DEF onRoute, tellsReason
  <2> QED  BY <1>4, <1>6, <2>1, FrameReasons DEF onRoute
<1>7. CASE onRoute("chat", "anthropic", f, finishSeen(f))
  <2>1. f.event = "message_delta" /\ f.reason = anthropicStopReasonFromChatFinish(up.finish)
    BY <1>7 DEF onRoute, tellsReason
  <2> QED  BY <1>2, <1>4, <1>7, <2>1, FrameReasons, StopReasons DEF onRoute
<1>8. CASE onRoute("chat", "responses", f, finishSummed(codec, f))
  <2>1. f.event = "response.completed"
    BY <1>8 DEF onRoute, tellsReason
  <2>2. codec.SawToolCall \in BOOLEAN /\ (codec.SawToolCall = TRUE <=> toolsOf(up) # {})
    BY <1>8 DEF onRoute, callsKnown
  <2>3. finishSummed(codec, f) = IF codec.SawToolCall THEN "tool_calls" ELSE "stop"
    BY <2>1, FrameReasons
  <2>4. finishSummed(codec, f) = up.finish
    BY <1>2, <1>3, <1>8, <2>2, <2>3 DEF onRoute
  <2> QED  BY <1>4, <1>8, <2>4 DEF onRoute
<1>9. CASE onRoute("anthropic", "responses", f, reasonClosing(codec, f))
  <2>1. f.event = "response.completed"
    BY <1>9 DEF onRoute, tellsReason
  <2>2. /\ codec.PendingFinish \in {NoReason, "tool_calls"}
        /\ codec.PendingFinish = "tool_calls" <=> toolsOf(up) # {}
    BY <1>9 DEF onRoute, callsKnown
  <2>3. reasonClosing(codec, f) =
          IF codec.PendingFinish = NoReason THEN "end_turn"
          ELSE anthropicStopReasonFromChatFinish(codec.PendingFinish)
    BY <2>1, PendingReasons
  <2>4. reasonClosing(codec, f) = anthropicStopReasonFromChatFinish(up.finish)
    BY <1>2, <1>3, <1>9, <2>2, <2>3, StopReasons DEF onRoute
  <2> QED  BY <1>4, <1>9, <2>4 DEF onRoute
<1>10. ~onRoute("anthropic", "chat", f, IF f = Done THEN reasonPending(codec) ELSE NoReason)
  BY DEF onRoute
<1> QED  BY <1>5, <1>6, <1>7, <1>8, <1>9, <1>10, FinishRoutes

\* Once the reason is told, no frame tells one again.
LEMMA LateFrame ==
  ASSUME route \in Routes, clientDialect # "responses", NEW f,
         ~finishes(upstream, f), route # <<"anthropic", "chat">>,
         route = <<"anthropic", "responses">> =>
           codec.PendingFinish = NoReason /\ codec.PendingUsage = NoUsage
  PROVE  heardReason(f) = NoReason
<1>1. CASE onRoute("anthropic", "responses", f, reasonClosing(codec, f))
  <2>1. f.event # "response.completed" /\ reasonPending(codec) = NoReason
    BY <1>1, FrameReasons, PendingReasons DEF onRoute
  <2>2. CASE f.event = "[DONE]"
    BY <1>1, <2>1, <2>2, PendingReasons DEF onRoute
  <2>3. CASE f.event # "[DONE]"
    BY <1>1, <2>1, <2>3, PendingReasons DEF onRoute, closesResponse
  <2> QED  BY <2>2, <2>3
<1> QED  BY <1>1, FinishRoutes, FrameReasons DEF onRoute

\* The frame that finishes, when it is read.
LEMMA HeadFinishes ==
  ASSUME finishesOnce(upstream, wire, up.finish), isSeq(wire), wire # <<>>,
         NEW f, f = Head(wire), wire' = Tail(wire), upstream' = upstream,
         up.finish # NoReason
  PROVE  /\ finishes(upstream, f) => tellsReason(upstream, f, up.finish) /\ ~due'
         /\ ~finishes(upstream, f) => due' /\ finishesOnce(upstream, wire', up.finish)
<1>1. /\ f = wire[1] /\ Len(wire) \in Nat /\ Len(wire) >= 1 /\ 1 \in 1..Len(wire)
      /\ Len(wire') \in Nat /\ Len(wire') = Len(wire) - 1
      /\ \A i \in 1..Len(wire') : i + 1 \in 1..Len(wire) /\ wire'[i] = wire[i + 1]
      /\ \A i \in 1..Len(wire) :
           i = 1 \/ (i - 1 \in 1..Len(wire') /\ wire'[i - 1] = wire[i])
  BY HeadAndTail
<1>2. PICK k \in 1..Len(wire) :
        /\ tellsReason(upstream, wire[k], up.finish)
        /\ \A i \in 1..Len(wire) \ {k} : ~finishes(upstream, wire[i])
  BY DEF finishesOnce
<1>3. CASE finishes(upstream, f)
  <2>1. k = 1
    BY <1>1, <1>2, <1>3
  <2>2. \A i \in 1..Len(wire') : ~finishes(upstream, wire'[i])
    <3> TAKE i \in 1..Len(wire')
    <3>1. i + 1 # 1
      BY <1>1
    <3> QED  BY <1>1, <1>2, <2>1, <3>1
  <2> QED  BY <1>1, <1>2, <1>3, <2>1, <2>2 DEF due
<1>4. CASE ~finishes(upstream, f)
  <2>0. \A g : tellsReason(upstream, g, up.finish) => finishes(upstream, g)
    <3> TAKE g
    <3>1. upstream = "chat" => (finishes(upstream, g) <=> g.event = "chunk" /\ g.finish # NoReason)
      BY FrameReasons
    <3>2. CASE upstream = "chat"
      BY <3>1, <3>2 DEF tellsReason
    <3>3. CASE upstream # "chat"
      BY <3>3 DEF tellsReason, finishes
    <3> QED  BY <3>2, <3>3
  <2>1. k # 1
    BY <1>1, <1>2, <1>4, <2>0
  <2>2. PICK j : j = k - 1
    OBVIOUS
  <2>3. j \in 1..Len(wire') /\ wire'[j] = wire[k]
    BY <1>1, <2>1, <2>2
  <2>4. \A i \in 1..Len(wire') \ {j} : ~finishes(upstream, wire'[i])
    <3> TAKE i \in 1..Len(wire') \ {j}
    <3>1. i + 1 # k
      BY <2>2, <2>3, <1>1
    <3> QED  BY <1>1, <1>2, <3>1
  <2>5. tellsReason(upstream, wire'[j], up.finish) /\ finishes(upstream, wire'[j])
    BY <1>2, <2>0, <2>3
  <2>6. due'
    BY <2>3, <2>5 DEF due
  <2>7. finishesOnce(upstream, wire', up.finish)
    BY <2>3, <2>4, <2>5 DEF finishesOnce
  <2> QED  BY <1>4, <2>6, <2>7
<1> QED  BY <1>3, <1>4

\* The frame that is read takes the finish reason to its next place.
LEMMA FrameFinish ==
  ASSUME BasicInv, streamed, EndInv, FinishInv, clientDialect # "responses",
         NEW f, f = Head(wire), frameTold(f), frameKept(f),
         upstream' = upstream, clientDialect' = clientDialect
  PROVE  FinishInv'
<1>0. /\ StreamTypeOK /\ ReaderInv /\ route \in Routes /\ isUp(upstream, up)
      /\ isSeq(wire) /\ \A i \in 1..Len(wire) : known(upstream, wire[i])
      /\ client.ended \in Nat
  BY DEF BasicInv, StreamTypeOK, ReaderInv, streamed, isView
<1>1. /\ pc = "reading" /\ wire # <<>> /\ wire' = Tail(wire)
      /\ route' = route /\ up' = up /\ connection' = connection /\ left' = left
      /\ pc' = "reading" \/ pc' = "returned"
      /\ IF left THEN client' = client
         ELSE hears(client, client', textOf(upstream, f), passed(f), heardReason(f),
                    heardEnd(f))
  BY DEF frameTold
<1>2. connected
  BY <1>0, <1>1 DEF StreamTypeOK, connected
<1>3. /\ f = wire[1] /\ Len(wire) \in Nat /\ Len(wire) >= 1 /\ 1 \in 1..Len(wire)
      /\ Len(wire') \in Nat /\ Len(wire') = Len(wire) - 1
      /\ \A i \in 1..Len(wire') : i + 1 \in 1..Len(wire) /\ wire'[i] = wire[i + 1]
      /\ \A i \in 1..Len(wire) :
           i = 1 \/ (i - 1 \in 1..Len(wire') /\ wire'[i - 1] = wire[i])
      /\ wire' = <<>> <=> Len(wire) = 1
  BY <1>0, <1>1, HeadAndTail
<1>f. known(upstream, f)
  BY <1>0, <1>3
<1>4. /\ (final' <=> final) /\ (reportedFailure' <=> reportedFailure)
      /\ toldReason(up.finish)' = toldReason(up.finish)
  BY <1>1 DEF final, reportedFailure, toldReason
<1>5. closes(f) => final /\ Len(wire) = 1 /\ wire' = <<>> /\ ~reportedFailure
  BY <1>3 DEF EndInv
<1>6. ~left => /\ heardReason(f) = NoReason => client'.finish = client.finish
               /\ heardReason(f) # NoReason =>
                    client'.finish = Append(client.finish, heardReason(f))
               /\ client'.ended = IF heardEnd(f) THEN client.ended + 1 ELSE client.ended
  <2> SUFFICES ASSUME ~left
               PROVE  /\ heardReason(f) = NoReason => client'.finish = client.finish
                      /\ heardReason(f) # NoReason =>
                           client'.finish = Append(client.finish, heardReason(f))
                      /\ client'.ended =
                           IF heardEnd(f) THEN client.ended + 1 ELSE client.ended
    OBVIOUS
  <2>1. hears(client, client', textOf(upstream, f), passed(f), heardReason(f), heardEnd(f))
    BY <1>1
  <2>2. client'.ended = IF heardEnd(f) THEN client.ended + 1 ELSE client.ended
    BY <2>1 DEF hears
  <2> QED  BY <2>1, <2>2, HeardReason
<1>7. /\ client.ended > 0 => client.finish = <<toldReason(up.finish)>>
      /\ callsInv
      /\ ~final => talkingInv
      /\ final /\ ~reportedFailure => IF due THEN dueInv ELSE toldInv
  BY <1>1, <1>2 DEF FinishInv
<1>8. final => /\ up.finish \in {"length", "stop", "tool_calls"} /\ up.finish # NoReason
               /\ toldReason(up.finish) # NoReason
  <2> SUFFICES ASSUME final
               PROVE  /\ up.finish \in {"length", "stop", "tool_calls"}
                      /\ up.finish # NoReason /\ toldReason(up.finish) # NoReason
    OBVIOUS
  <2>1. up.finish \in {"length", "stop", "tool_calls"}
    BY <1>0, ReasonsAre DEF isUp, final
  <2>2. up.finish # NoReason
    BY <2>1, ReasonsAre
  <2>3. anthropicStopReasonFromChatFinish(up.finish) # NoReason
    BY <2>1, StopReasons, ReasonsAre
  <2> QED  BY <2>1, <2>2, <2>3 DEF toldReason
<1>9. \A e : Append(<<>>, e) = <<e>>
  BY EmitsFirst
<1>10. heardEnd(f) => closes(f)
  BY EndCloses
<1>11. route = <<"chat", "responses">> \/ route = <<"anthropic", "chat">> =>
         (heardEnd(f) => f.event = "[DONE]")
  BY DEF heardEnd, endOf, upstream
<1>c. pc' = "reading" => callsInv'
  <2> SUFFICES ASSUME pc' = "reading", route = <<"chat", "responses">> PROVE callsInv'
    BY <1>1 DEF callsInv
  <2>1. /\ codec.SawToolCall \in BOOLEAN
        /\ callsKnown(codec.SawToolCall = TRUE \/ \E i \in 1..Len(wire) : showsCall(wire[i]))
    BY <1>7 DEF callsInv
  <2>2. codec'.SawToolCall = IF showsCall(f) THEN TRUE ELSE codec.SawToolCall
    BY DEF frameKept, remembersCall
  <2>3. (\E i \in 1..Len(wire) : showsCall(wire[i])) <=>
          showsCall(f) \/ \E i \in 1..Len(wire') : showsCall(wire'[i])
    BY <1>3
  <2>4. codec'.SawToolCall \in BOOLEAN
    BY <2>1, <2>2
  <2> QED  BY <1>1, <2>1, <2>2, <2>3, <2>4 DEF callsInv, callsKnown
<1>12. CASE ~final
  <2>1. talkingInv /\ calm(upstream, f)
    BY <1>3, <1>7, <1>12 DEF talkingInv
  <2>2. ~finishes(upstream, f) /\ ~closes(f) /\ ~donesCall(f) /\ ~closesResponse(f)
    BY <2>1 DEF calm, closes, closesResponse
  <2>3. heardReason(f) = NoReason /\ ~heardEnd(f)
    BY <1>0, <1>10, <2>2, QuietFrame
  <2>4. untold' /\ (~left => client'.ended = 0) /\ (left => client' = client)
    BY <1>1, <1>6, <2>1, <2>3 DEF talkingInv, untold
  <2>5. route = <<"anthropic", "responses">> =>
          codec'.PendingFinish = NoReason /\ codec'.PendingUsage = NoUsage
    BY <2>1, <2>2, PendingReasons DEF talkingInv, frameKept
  <2>6. talkingInv'
    BY <1>1, <1>3, <2>1, <2>4, <2>5 DEF talkingInv
  <2>7. client'.ended > 0 => client'.finish = <<toldReason(up.finish)>>
    BY <1>7, <2>4
  <2> QED  BY <1>4, <1>c, <1>12, <2>6, <2>7 DEF FinishInv
<1>13. CASE final /\ reportedFailure
  <2>1. client.ended = 0 /\ ~heardEnd(f)
    BY <1>0, <1>5, <1>10, <1>13 DEF EndInv
  <2>2. client'.ended = 0
    BY <1>1, <1>6, <2>1
  <2> QED  BY <1>4, <1>c, <1>13, <2>2 DEF FinishInv
<1>14. CASE final /\ ~reportedFailure /\ due
  <2>1. /\ dueInv /\ untold /\ finishesOnce(upstream, wire, up.finish)
        /\ \A i \in 1..Len(wire) : closes(wire[i]) => upstream = "responses"
    BY <1>7, <1>14 DEF dueInv
  <2>2. /\ finishes(upstream, f) => tellsReason(upstream, f, up.finish) /\ ~due'
        /\ ~finishes(upstream, f) => due' /\ finishesOnce(upstream, wire', up.finish)
    BY <1>0, <1>1, <1>8, <1>14, <2>1, HeadFinishes
  <2>3. ~left => client.finish = <<>> /\ client.ended = 0
    BY <2>1 DEF untold
  <2>4. route = <<"anthropic", "responses">> =>
          /\ codec.PendingFinish \in {NoReason, "tool_calls"}
          /\ callsKnown(\/ codec.PendingFinish = "tool_calls"
                        \/ \E i \in 1..Len(wire) : donesCall(wire[i]))
    BY <2>1 DEF dueInv
  <2>5. CASE finishes(upstream, f) /\ route = <<"anthropic", "chat">>
    <3>1. upstream = "chat" /\ clientDialect = "anthropic"
      BY <2>5 DEF upstream, clientDialect
    <3>2. f.event = "chunk" /\ f.finish = up.finish /\ f # Done
      BY <2>2, <2>5, <3>1 DEF tellsReason, Done
    <3>3. heardReason(f) = NoReason /\ ~heardEnd(f)
      BY <1>11, <2>5, <3>2 DEF heardReason
    <3>4. codec'.PendingFinish = up.finish
      BY <1>8, <1>14, <2>5, <3>2, FrameReasons DEF frameKept
    <3>5. untold' /\ (~(client'.ended > 0) \/ left)
      BY <1>1, <1>6, <2>3, <3>3 DEF untold
    <3>6. untold' /\ (client'.ended > 0 => client'.finish = <<toldReason(up.finish)>>)
      BY <1>1, <1>7, <3>5 DEF untold
    <3>7. toldInv'
      BY <1>1, <2>5, <3>4, <3>6 DEF toldInv
    <3> QED  BY <1>4, <1>c, <1>14, <2>2, <2>5, <3>6, <3>7 DEF FinishInv
  <2>6. CASE finishes(upstream, f) /\ route # <<"anthropic", "chat">>
    <3>1. upstream = "responses" => Len(wire) = 1 /\ wire' = <<>> /\ closesResponse(f)
                                    /\ ~donesCall(f) /\ ~showsCall(f)
      <4>1. upstream = "responses" => f.event = "response.completed"
        BY <2>6, FrameReasons
      <4> QED  BY <1>5, <4>1 DEF closes, closesResponse, donesCall, showsCall
    <3>2. route = <<"chat", "responses">> =>
            codec.SawToolCall \in BOOLEAN /\ callsKnown(codec.SawToolCall = TRUE)
      <4> SUFFICES ASSUME route = <<"chat", "responses">>
                   PROVE  codec.SawToolCall \in BOOLEAN /\ callsKnown(codec.SawToolCall = TRUE)
        OBVIOUS
      <4>0. upstream = "responses"
        BY DEF upstream
      <4>1. \A i \in 1..Len(wire) : ~showsCall(wire[i])
        <5> TAKE i \in 1..Len(wire)
        <5>1. i = 1 /\ ~showsCall(f)
          BY <3>1, <4>0
        <5> QED  BY <1>3, <5>1
      <4> QED  BY <1>7, <4>1 DEF callsInv, callsKnown
    <3>3. route = <<"anthropic", "responses">> =>
            /\ codec.PendingFinish \in {NoReason, "tool_calls"}
            /\ callsKnown(codec.PendingFinish = "tool_calls")
      <4> SUFFICES ASSUME route = <<"anthropic", "responses">>
                   PROVE  /\ codec.PendingFinish \in {NoReason, "tool_calls"}
                          /\ callsKnown(codec.PendingFinish = "tool_calls")
        OBVIOUS
      <4>0. upstream = "responses"
        BY DEF upstream
      <4>1. \A i \in 1..Len(wire) : ~donesCall(wire[i])
        <5> TAKE i \in 1..Len(wire)
        <5>1. i = 1 /\ ~donesCall(f)
          BY <3>1, <4>0
        <5> QED  BY <1>3, <5>1
      <4> QED  BY <2>4, <4>1 DEF callsKnown
    <3>4. heardReason(f) = toldReason(up.finish)
      BY <1>0, <1>14, <2>2, <2>6, <3>2, <3>3, ReasonTold
    <3>5. ~left => client'.finish = <<toldReason(up.finish)>>
      BY <1>6, <1>8, <1>9, <1>14, <2>3, <3>4
    <3>6. told' /\ (client'.ended > 0 => client'.finish = <<toldReason(up.finish)>>)
      BY <1>1, <1>4, <1>7, <3>5 DEF told
    <3>7. route = <<"anthropic", "responses">> =>
            /\ codec'.PendingFinish = NoReason /\ codec'.PendingUsage = NoUsage
            /\ wire' = <<>>
      BY <3>1, PendingReasons DEF frameKept, upstream
    <3>8. route = <<"anthropic", "responses">> =>
            \A i \in 1..Len(wire') : ~donesCall(wire'[i])
      <4>1. Len(<<>>) = 0
        BY SequencesGrow
      <4>2. wire' = <<>> => \A i \in 1..Len(wire') : ~donesCall(wire'[i])
        BY <4>1
      <4> QED  BY <3>7, <4>2
    <3>9. toldInv'
      BY <1>1, <2>6, <3>6, <3>7, <3>8 DEF toldInv
    <3> QED  BY <1>4, <1>c, <1>14, <2>2, <2>6, <3>6, <3>9 DEF FinishInv
  <2>7. CASE ~finishes(upstream, f)
    <3>1. ~closes(f)
      <4>1. due => \E i \in 1..Len(wire) : finishes(upstream, wire[i])
        BY DEF due
      <4>2. Len(wire) = 1 => finishes(upstream, wire[1])
        BY <1>14, <4>1
      <4> QED  BY <1>3, <1>5, <2>7, <4>2
    <3>2. heardReason(f) = NoReason /\ ~heardEnd(f) /\ ~closesResponse(f)
      BY <1>0, <1>10, <2>7, <3>1, QuietFrame DEF closes, closesResponse
    <3>3. untold' /\ (client'.ended > 0 => client'.finish = <<toldReason(up.finish)>>)
      BY <1>1, <1>6, <1>7, <2>3, <3>2 DEF untold
    <3>4. route = <<"anthropic", "responses">> =>
            codec'.PendingFinish = IF donesCall(f) THEN "tool_calls" ELSE codec.PendingFinish
      BY <3>2, PendingReasons DEF frameKept
    <3>5. (\E i \in 1..Len(wire) : donesCall(wire[i])) <=>
            donesCall(f) \/ \E i \in 1..Len(wire') : donesCall(wire'[i])
      BY <1>3
    <3>6. route = <<"anthropic", "responses">> =>
            /\ codec'.PendingFinish \in {NoReason, "tool_calls"}
            /\ callsKnown(\/ codec.PendingFinish = "tool_calls"
                          \/ \E i \in 1..Len(wire) : donesCall(wire[i]))'
      BY <1>1, <2>4, <3>4, <3>5 DEF callsKnown
    <3>7. \A i \in 1..Len(wire') : closes(wire'[i]) => upstream = "responses"
      BY <1>3, <2>1
    <3>8. dueInv'
      BY <1>1, <2>2, <2>7, <3>3, <3>6, <3>7 DEF dueInv
    <3> QED  BY <1>4, <1>c, <1>14, <2>2, <2>7, <3>3, <3>8 DEF FinishInv
  <2> QED  BY <2>5, <2>6, <2>7
<1>15. CASE final /\ ~reportedFailure /\ ~due
  <2>1. toldInv /\ ~finishes(upstream, f) /\ ~due'
    BY <1>1, <1>3, <1>7, <1>15 DEF due
  <2>2. CASE route = <<"anthropic", "chat">>
    <3>1. upstream = "chat" /\ clientDialect = "anthropic"
      BY <2>2 DEF upstream, clientDialect
    <3>2. untold /\ codec.PendingFinish = up.finish
      BY <2>1, <2>2 DEF toldInv
    <3>3. ~left => client.finish = <<>> /\ client.ended = 0
      BY <3>2 DEF untold
    <3>4. CASE f = Done
      <4>1. pc' = "returned"
        BY <2>2, <3>4 DEF frameKept
      <4>2. heardReason(f) = reasonPending(codec)
        BY <2>2, <3>4 DEF heardReason
      <4>3. heardReason(f) = toldReason(up.finish)
        BY <1>8, <1>15, <3>1, <3>2, <4>2, PendingReasons DEF toldReason
      <4>4. client'.ended > 0 => client'.finish = <<toldReason(up.finish)>>
        BY <1>1, <1>6, <1>7, <1>8, <1>9, <1>15, <3>3, <4>3
      <4> QED  BY <1>4, <4>1, <4>4 DEF FinishInv
    <3>5. CASE f # Done
      <4>1. f.event = "chunk" /\ f.finish = NoReason
        BY <1>f, <2>1, <3>1, <3>5, FrameReasons DEF known
      <4>2. heardReason(f) = NoReason /\ ~heardEnd(f)
        BY <1>11, <2>2, <3>5, <4>1 DEF heardReason
      <4>3. codec'.PendingFinish = up.finish
        BY <2>2, <3>2, <3>5, <4>1, FrameReasons DEF frameKept
      <4>4. untold' /\ (client'.ended > 0 => client'.finish = <<toldReason(up.finish)>>)
        BY <1>1, <1>6, <1>7, <3>3, <4>2 DEF untold
      <4>5. toldInv'
        BY <1>1, <2>2, <4>3, <4>4 DEF toldInv
      <4> QED  BY <1>4, <1>c, <1>15, <2>1, <4>4, <4>5 DEF FinishInv
    <3> QED  BY <3>4, <3>5
  <2>3. CASE route # <<"anthropic", "chat">>
    <3>1. /\ told
          /\ route = <<"anthropic", "responses">> =>
               /\ codec.PendingFinish = NoReason /\ codec.PendingUsage = NoUsage
               /\ \A i \in 1..Len(wire) : ~donesCall(wire[i])
      BY <2>1, <2>3 DEF toldInv
    <3>2. heardReason(f) = NoReason
      BY <1>0, <2>1, <2>3, <3>1, LateFrame
    <3>3. ~left => client'.finish = <<toldReason(up.finish)>>
      BY <1>6, <3>1, <3>2 DEF told
    <3>4. told' /\ (client'.ended > 0 => client'.finish = <<toldReason(up.finish)>>)
      BY <1>1, <1>4, <1>7, <3>3 DEF told
    <3>5. route = <<"anthropic", "responses">> =>
            /\ codec'.PendingFinish = NoReason /\ codec'.PendingUsage = NoUsage
            /\ \A i \in 1..Len(wire') : ~donesCall(wire'[i])
      <4> SUFFICES ASSUME route = <<"anthropic", "responses">>
                   PROVE  /\ codec'.PendingFinish = NoReason
                          /\ codec'.PendingUsage = NoUsage
                          /\ \A i \in 1..Len(wire') : ~donesCall(wire'[i])
        OBVIOUS
      <4>1. remembersPending(codec, f, codec') /\ ~donesCall(f)
        BY <1>3, <3>1 DEF frameKept
      <4> QED  BY <1>3, <3>1, <4>1, PendingReasons
    <3>6. toldInv'
      BY <1>1, <2>3, <3>4, <3>5 DEF toldInv
    <3> QED  BY <1>4, <1>c, <1>15, <2>1, <3>4, <3>6 DEF FinishInv
  <2> QED  BY <2>2, <2>3
<1> QED  BY <1>12, <1>13, <1>14, <1>15

LEMMA InitFinish == Init => FinishInv
<1> SUFFICES ASSUME Init PROVE FinishInv
  OBVIOUS
<1>1. /\ up = Silent /\ wire = <<>> /\ client = NewClient /\ codec = newCodec(route)
      /\ route \in Routes \union {Aggregated}
  BY DEF Init
<1>2. Silent.phase = "new" /\ toolsOf(Silent) = {}
  BY DEF Silent, toolsOf
<1>3. NewClient.ended = 0 /\ NewClient.finish = <<>>
  BY DEF NewClient
<1>4. Len(wire) = 0
  BY <1>1, SequencesGrow
<1>5. route = <<"anthropic", "responses">> =>
        codec.PendingFinish = NoReason /\ codec.PendingUsage = NoUsage
  <2>1. route = <<"anthropic", "responses">> => codec = AnthropicOutboundState
    BY <1>1 DEF newCodec
  <2>2. AnthropicOutboundState.PendingFinish = NoReason
    BY Zenon DEF AnthropicOutboundState, NoReason
  <2>3. AnthropicOutboundState.PendingUsage = NoUsage
    BY Zenon DEF AnthropicOutboundState
  <2> QED  BY <2>1, <2>2, <2>3
<1>6. route = <<"chat", "responses">> => codec.SawToolCall = FALSE
  <2>1. route = <<"chat", "responses">> => codec = ResponsesStreamState
    BY <1>1 DEF newCodec
  <2>2. ResponsesStreamState.SawToolCall = FALSE
    BY DEF ResponsesStreamState
  <2> QED  BY <2>1, <2>2
<1>7. talkingInv
  BY <1>1, <1>3, <1>4, <1>5 DEF talkingInv, untold
<1>8. callsInv
  <2>1. toolsOf(up) = {}
    BY <1>1, <1>2
  <2>2. ~\E i \in 1..Len(wire) : showsCall(wire[i])
    BY <1>4
  <2>3. route = <<"chat", "responses">> =>
          /\ codec.SawToolCall \in BOOLEAN
          /\ ~(codec.SawToolCall = TRUE \/ \E i \in 1..Len(wire) : showsCall(wire[i]))
    BY <1>6, <2>2
  <2> QED  BY <2>1, <2>3 DEF callsInv, callsKnown
<1>9. ~final /\ client.ended = 0
  BY <1>1, <1>2, <1>3 DEF final
<1> QED  BY <1>7, <1>8, <1>9 DEF FinishInv

LEMMA TellingFinishes ==
  ASSUME NEW p, NEW f, NEW reason, reason # NoReason, tellsReason(p, f, reason)
  PROVE  finishes(p, f)
<1>1. p = "chat" => (finishes(p, f) <=> f.event = "chunk" /\ f.finish # NoReason)
  BY FrameReasons
<1>2. CASE p = "chat"
  BY <1>1, <1>2 DEF tellsReason
<1>3. CASE p # "chat"
  BY <1>3 DEF tellsReason, finishes
<1> QED  BY <1>2, <1>3

\* The provider's finish reason is on its way once it was said.
LEMMA FinishSaid ==
  ASSUME BasicInv, EndInv, FinishInv, streamed, clientDialect # "responses",
         NEW text, NEW thinking, providerSaid(text, thinking),
         upstream' = upstream, clientDialect' = clientDialect
  PROVE  FinishInv'
<1>1. /\ connected /\ pc = "reading" /\ wire = <<>> /\ route' = route
      /\ connection' = connection /\ codec' = codec /\ client' = client /\ left' = left
      /\ pc' = pc /\ isUp(upstream, up') /\ isSeq(wire')
      /\ talkedOn \/ finishedNow(text, thinking) \/ terminatedNow(text, thinking)
  BY DEF providerSaid, carries
<1>2. /\ client.ended > 0 => final /\ client.finish = <<toldReason(up.finish)>>
      /\ callsInv
      /\ ~final => talkingInv
      /\ final /\ ~reportedFailure => IF due THEN dueInv ELSE toldInv
  BY <1>1 DEF FinishInv, EndInv
<1>3. Len(wire) = 0
  BY <1>1, SequencesGrow
<1>4. wire' # <<>> => /\ Len(wire') \in Nat /\ Len(wire') \in 1..Len(wire')
                      /\ Last(wire') = wire'[Len(wire')]
  <2> SUFFICES ASSUME wire' # <<>>
               PROVE  /\ Len(wire') \in Nat /\ Len(wire') \in 1..Len(wire')
                      /\ Last(wire') = wire'[Len(wire')]
    OBVIOUS
  <2>1. Len(wire') \in Nat /\ Len(wire') >= 1 /\ Last(wire') = wire'[Len(wire')]
    BY <1>1, HeadAndTail
  <2> QED  BY <2>1
<1>5. callsInv'
  <2> SUFFICES ASSUME route = <<"chat", "responses">> PROVE callsInv'
    BY <1>1 DEF callsInv
  <2>1. codec.SawToolCall \in BOOLEAN /\ (codec.SawToolCall = TRUE <=> toolsOf(up) # {})
    BY <1>2, <1>3 DEF callsInv, callsKnown
  <2>2. upstream = "responses"
    BY DEF upstream
  <2>3. CASE callsSame /\ nothingShown
    BY <1>1, <2>1, <2>3 DEF callsInv, callsKnown, callsSame, nothingShown
  <2>4. CASE callsSame /\ toolsOf(up) # {}
    BY <1>1, <2>1, <2>4 DEF callsInv, callsKnown, callsSame
  <2>5. CASE toolsOf(up') # {} /\ wire' # <<>> /\ showsCall(Last(wire'))
    BY <1>1, <1>4, <2>1, <2>5 DEF callsInv, callsKnown
  <2> QED  BY <1>1, <2>2, <2>3, <2>4, <2>5 DEF talkedOn, finishedNow, terminatedNow
<1>6. CASE talkedOn
  <2>1. ~final /\ ~final' /\ \A i \in 1..Len(wire') : calm(upstream, wire'[i])
    BY <1>6 DEF talkedOn, final, allCalm
  <2>2. talkingInv'
    BY <1>1, <1>2, <2>1 DEF talkingInv, untold
  <2> QED  BY <1>1, <1>2, <1>5, <2>1, <2>2 DEF FinishInv
<1>7. CASE finishedNow(text, thinking)
  <2>1. ~final /\ final' /\ toolsOf(up') = toolsOf(up)
    BY <1>7 DEF finishedNow, final, callsSame
  <2>2. talkingInv /\ ~(client.ended > 0)
    BY <1>2, <2>1
  <2>3. up'.finish # NoReason
    <3>1. up'.finish \in Reasons(up')
      BY <1>1, <1>7 DEF isUp, finishedNow
    <3> QED  BY <3>1, ReasonsAre
  <2>4. CASE upstream # "responses"
    <3>1. finishesOnce(upstream, wire', up'.finish)
      BY <1>7, <2>4 DEF finishedNow
    <3>2. due'
      BY <1>1, <2>3, <3>1, TellingFinishes DEF finishesOnce, due
    <3>3. \A i \in 1..Len(wire') : ~closes(wire'[i])
      BY <1>7, <2>4 DEF finishedNow
    <3>4. route # <<"anthropic", "responses">>
      BY <2>4 DEF upstream
    <3>5. dueInv'
      BY <1>1, <2>2, <3>1, <3>3, <3>4 DEF dueInv, talkingInv, untold
    <3> QED  BY <1>1, <1>5, <2>1, <2>2, <3>2, <3>5 DEF FinishInv
  <2>5. CASE upstream = "responses" /\ up'.finish = "length"
    <3>1. reportedFailure'
      BY <2>5 DEF reportedFailure
    <3> QED  BY <1>1, <1>5, <2>1, <2>2, <3>1 DEF FinishInv
  <2>6. CASE upstream = "responses" /\ up'.finish # "length"
    <3>1. /\ completes(up, wire')
          /\ \A i \in 1..Len(wire') : closes(wire'[i]) => i = Len(wire')
      BY <1>7, <2>6 DEF finishedNow
    <3>2. PICK k : k = Len(wire')
      OBVIOUS
    <3>3. k \in 1..Len(wire') /\ wire'[k].event = "response.completed"
      BY <1>4, <3>1, <3>2 DEF completes
    <3>4. due'
      BY <2>6, <3>3, FrameReasons DEF due
    <3>5. tellsReason(upstream, wire'[k], up'.finish)
      BY <2>6, <3>3 DEF tellsReason
    <3>6. \A i \in 1..Len(wire') \ {k} : ~finishes(upstream, wire'[i])
      <4> TAKE i \in 1..Len(wire') \ {k}
      <4>1. wire'[i].event # "response.completed"
        BY <3>1, <3>2 DEF closes
      <4> QED  BY <2>6, <4>1, FrameReasons
    <3>7. finishesOnce(upstream, wire', up'.finish)
      BY <3>3, <3>5, <3>6 DEF finishesOnce
    <3>8. route = <<"anthropic", "responses">> =>
            /\ codec.PendingFinish = NoReason
            /\ callsKnown(\/ codec.PendingFinish = "tool_calls"
                          \/ \E i \in 1..Len(wire) : donesCall(wire[i]))'
      <4>1. NoReason # "tool_calls"
        BY ReasonsAre
      <4>2. (\E i \in 1..Len(wire') : donesCall(wire'[i])) <=> toolsOf(up') # {}
        BY <2>1, <3>1 DEF completes
      <4> QED  BY <1>1, <2>2, <4>1, <4>2 DEF talkingInv, callsKnown
    <3>9. dueInv'
      BY <1>1, <2>2, <2>6, <3>7, <3>8 DEF dueInv, talkingInv, untold
    <3> QED  BY <1>1, <1>5, <2>1, <2>2, <3>4, <3>9 DEF FinishInv
  <2> QED  BY <2>4, <2>5, <2>6
<1>8. CASE terminatedNow(text, thinking)
  <2>1. /\ final /\ final' /\ up'.finish = up.finish
        /\ \A i \in 1..Len(wire') : ~finishes(upstream, wire'[i]) /\ ~donesCall(wire'[i])
    BY <1>8 DEF terminatedNow, final
  <2>2. (reportedFailure' <=> reportedFailure) /\ toldReason(up.finish)' = toldReason(up.finish)
    BY <2>1 DEF reportedFailure, toldReason
  <2>3. ~due /\ ~due'
    BY <1>3, <2>1 DEF due
  <2>4. toldInv => toldInv'
    BY <1>1, <2>1, <2>2 DEF toldInv, untold, told
  <2> QED  BY <1>1, <1>2, <1>5, <2>1, <2>2, <2>3, <2>4 DEF FinishInv
<1> QED  BY <1>1, <1>6, <1>7, <1>8

LEMMA NextFinish ==
  BasicInv /\ streamed /\ EndInv /\ clientDialect # "responses" /\ FinishInv /\ [Next]_vars
    => FinishInv'
<1> SUFFICES ASSUME BasicInv, streamed, EndInv, clientDialect # "responses", FinishInv,
                    [Next]_vars
             PROVE  FinishInv'
  OBVIOUS
<1>r. route' = route /\ upstream' = upstream /\ clientDialect' = clientDialect
  BY RouteStays
<1>1. ASSUME NEW text, NEW thinking, providerSaid(text, thinking)
      PROVE  FinishInv'
  BY <1>1, <1>r, FinishSaid
<1>2. CASE closed
  <2>1. ~connected' /\ up' = up /\ client' = client
    BY <1>2 DEF closed
  <2>2. toldReason(up.finish)' = toldReason(up.finish)
    BY <1>r, <2>1 DEF toldReason
  <2> QED  BY <2>1, <2>2 DEF FinishInv
<1>3. CASE frameTold(Head(wire)) /\ frameKept(Head(wire))
  <2>1. PICK f : f = Head(wire)
    OBVIOUS
  <2> QED  BY <1>3, <1>r, <2>1, FrameFinish
<1>4. CASE idle
  <2>1. /\ up' = up /\ wire' = wire /\ connection' = connection /\ client' = client
        /\ codec' = codec
        /\ left' = left \/ left' = TRUE
        /\ pc' = pc \/ pc' = "returned"
    BY <1>4 DEF idle
  <2>2. /\ toldReason(up.finish)' = toldReason(up.finish) /\ (due' <=> due)
        /\ (reportedFailure' <=> reportedFailure) /\ (final' <=> final)
        /\ (connected' <=> connected)
    BY <1>r, <2>1 DEF toldReason, due, reportedFailure, final, connected
  <2>3. (untold => untold') /\ (told => told')
    BY <2>1, <2>2 DEF untold, told
  <2>4. talkingInv => talkingInv'
    BY <1>r, <2>1, <2>3 DEF talkingInv
  <2>5. dueInv => dueInv'
    BY <1>r, <2>1, <2>3 DEF dueInv, callsKnown
  <2>6. toldInv => toldInv'
    BY <1>r, <2>1, <2>3 DEF toldInv
  <2>7. callsInv => callsInv'
    BY <1>r, <2>1 DEF callsInv, callsKnown
  <2> QED  BY <2>1, <2>2, <2>4, <2>5, <2>6, <2>7 DEF FinishInv
<1> QED  BY <1>1, <1>2, <1>3, <1>4, StreamedSteps

\* Every part of the state of a request, streamed or not, keeps its promise.
THEOREM StreamInvariant == Spec => []StreamInv
<1>1. Init => StreamInv
  BY InitBasic, InitWords, InitEnd, InitFinish, InitAggregate DEF StreamInv, BasicInv
<1>2. StreamInv /\ [Next]_vars => StreamInv'
  <2> SUFFICES ASSUME StreamInv, [Next]_vars PROVE StreamInv'
    OBVIOUS
  <2>1. BasicInv /\ BasicInv'
    BY NextBasic DEF StreamInv, BasicInv
  <2>2. (streamed' <=> streamed) /\ clientDialect' = clientDialect
    BY RouteStays
  <2>3. streamed => WordsInv' /\ EndInv'
    BY <2>1, NextWords, NextEnd DEF StreamInv
  <2>4. streamed /\ clientDialect # "responses" => FinishInv'
    BY <2>1, NextFinish DEF StreamInv
  <2>5. ~streamed => AggregateInv'
    BY <2>1, NextAggregate DEF StreamInv
  <2> QED  BY <2>1, <2>2, <2>3, <2>4, <2>5 DEF StreamInv, BasicInv
<1> QED  BY <1>1, <1>2, PTL DEF Spec

\* A streamed answer that was cut short never looks complete: the client told
\* of the end has the whole text, the provider had finished, and the finish
\* reason is the provider's, put in the client's words.
THEOREM EndsOnlyComplete == Spec => []CleanEndMeansComplete
<1>1. StreamInv => CleanEndMeansComplete
  BY DEF StreamInv, EndInv, FinishInv, CleanEndMeansComplete, final
<1> QED  BY <1>1, StreamInvariant, PTL

\* The types of the relay's state hold in every reachable state.
THEOREM StreamTypeCorrect == Spec => []StreamTypeOK
<1>1. StreamInv => StreamTypeOK
  BY DEF StreamInv
<1> QED  BY <1>1, StreamInvariant, PTL

\* A prompt is sent a second time only when the client was sent nothing, and
\* never when the first answer came in full.
THEOREM FallbackSendsOnce == Spec => []FallbackOnlyUnanswered
<1>1. StreamInv => FallbackOnlyUnanswered
  <2> SUFFICES ASSUME StreamInv PROVE FallbackOnlyUnanswered
    OBVIOUS
  <2>1. requests = 2 => ~streamed
    BY DEF StreamInv, RequestsInv, streamed
  <2> QED  BY <2>1 DEF StreamInv, AggregateInv, FallbackOnlyUnanswered
<1> QED  BY <1>1, StreamInvariant, PTL

\* Whatever the route and wherever the stream is cut, a client has a prefix of
\* the provider's text and thinking, and all of it when nothing is underway.
THEOREM WordsArriveInOrder == Spec => []WordsFaithful
<1>1. StreamInv => WordsFaithful
  <2> SUFFICES ASSUME StreamInv, streamed PROVE WordsFaithful
    BY DEF WordsFaithful
  <2>1. delivered => wire = <<>> /\ healthy
    BY DEF delivered, healthy, connected
  <2>2. wire = <<>> => pendingText = None /\ pendingThinking = None
    BY DEF pendingText, pendingThinking
  <2>3. \A x : append(x, None) = x
    BY DEF append
  <2>4. /\ IsPrefix(client.text, up.text) /\ IsPrefix(client.thinking, up.thinking)
        /\ healthy /\ ~left => /\ up.text = append(client.text, pendingText)
                               /\ carriesThinking =>
                                    up.thinking = append(client.thinking, pendingThinking)
    BY DEF StreamInv, WordsInv
  <2> QED  BY <2>1, <2>2, <2>3, <2>4 DEF WordsFaithful
<1> QED  BY <1>1, StreamInvariant, PTL
-----------------------------------------------------------------------------
(* What the log holds.  Most routes log every event as they write it; the   *)
(* chat stream copied as it is and the forced stream are put together from  *)
(* their chunks and logged at the end.                                      *)

running == streamed /\ route \notin {<<"responses", "chat">>, <<"chat", "chat">>}
collected == route \in {<<"chat", "chat">>, Aggregated}

\* The log hears everything, the client until it leaves.
RunningInv ==
  /\ isView(reqLog) /\ reqLog.text \in Seq(Nat)
  /\ IsPrefix(client.text, reqLog.text)
  /\ ~left => reqLog = client
  /\ healthy => up.text = append(reqLog.text, pendingText)

\* So does what is put together.
putTogether ==
  /\ codec.loggable \in BOOLEAN
  /\ codec.loggable = FALSE => codec.content = <<>> /\ codec.reasoning = <<>>
  /\ codec.content \in Seq(Nat) /\ codec.reasoning \in Seq(Nat)
  /\ client.text \in Seq(Nat)
  /\ IsPrefix(codec.content, up.text) /\ IsPrefix(codec.reasoning, up.thinking)
  /\ IsPrefix(client.text, codec.content)
  /\ streamed /\ ~left => client.text = codec.content
  /\ healthy => /\ up.text = append(codec.content, pendingText)
                /\ up.thinking = append(codec.reasoning, pendingThinking)

CollectedInv ==
  /\ \A i \in 1..Len(wire) : i < Len(wire) => silent("chat", wire[i])
  /\ pc = "reading" => putTogether /\ reqLog = NewClient
  /\ pc = "fallback" => requests = 2
  /\ pc = "returned" => LogKeepsWords /\ AggregateKeepsWords

KeptInv ==
  /\ running => RunningInv
  /\ collected => CollectedInv

LEMMA PrefixKept ==
  /\ \A x \in Seq(Nat) : IsPrefix(x, x)
  /\ \A x, y \in Seq(Nat) : \A e : IsPrefix(x, y) => IsPrefix(x, append(y, e))
BY PrefixGrows DEF append

\* A view hears the words of a frame.
hearsWords(c, d, f) == isView(d) /\ d.text = append(c.text, textOf(upstream, f))

LEMMA TurnHearsWords ==
  ASSUME StreamTypeOK, translated, route # <<"responses", "chat">>,
         atWork(route, codec), NEW c, isView(c), NEW f, known(upstream, f),
         NEW order \in mapOrders, NEW u, u = translate(f, order)
  PROVE  hearsWords(c, receiveAll(c, u.codec.out), f)
<1>1. SUFFICES \E reason, ends : turn(c, f, u, reason, ends)
  BY DEF turn, hears, hearsWords
<1>2. route \in {<<"chat", "anthropic">>, <<"chat", "responses">>,
                 <<"responses", "anthropic">>,
                 <<"anthropic", "chat">>, <<"anthropic", "responses">>}
  BY RoutesAre DEF StreamTypeOK
<1>a. CASE route = <<"chat", "anthropic">>
  <2>1. upstream = "anthropic"
    BY <1>a DEF upstream
  <2>2. turn(c, f, u, finishSeen(f), endOf("anthropic", f))
    BY <1>a, <2>1, TurnChatFromAnthropic
  <2> QED  BY <2>2
<1>b. CASE route = <<"chat", "responses">>
  <2>1. upstream = "responses"
    BY <1>b DEF upstream
  <2>2. turn(c, f, u, finishSummed(codec, f), endOf("responses", f))
    BY <1>b, <2>1, TurnChatFromResponses
  <2> QED  BY <2>2
<1>c. CASE route = <<"responses", "anthropic">>
  <2>1. upstream = "anthropic"
    BY <1>c DEF upstream
  <2>2. turn(c, f, u, NoReason, endOf("anthropic", f))
    BY <1>c, <2>1, TurnResponsesFromAnthropic
  <2> QED  BY <2>2
<1>d. CASE route = <<"anthropic", "chat">>
  <2>1. upstream = "chat"
    BY <1>d DEF upstream
  <2>2. turn(c, f, u, IF f = Done THEN reasonPending(codec) ELSE NoReason,
             endOf("chat", f))
    BY <1>d, <2>1, TurnAnthropicFromChat
  <2> QED  BY <2>2
<1>e. CASE route = <<"anthropic", "responses">>
  <2>1. upstream = "responses"
    BY <1>e DEF upstream
  <2>2. turn(c, f, u, reasonClosing(codec, f), closesResponse(f))
    BY <1>e, <2>1, TurnAnthropicFromResponses
  <2> QED  BY <2>2
<1> QED  BY <1>2, <1>a, <1>b, <1>c, <1>d, <1>e

\* A frame copied as it is is heard as it is.
LEMMA CopyHearsWords ==
  ASSUME clientDialect = upstream, clientDialect \in Dialects, NEW c, isView(c),
         NEW f, known(upstream, f)
  PROVE  hearsWords(c, receiveAll(c, <<f>>), f)
<1>1. CASE clientDialect = "anthropic"
  <2>1. hears(c, AnthropicClient(c, f), textOf("anthropic", f), thinkingOf("anthropic", f),
              reasonOf("anthropic", f), endOf("anthropic", f))
    BY <1>1, AnthropicHears DEF known
  <2>2. receiveAll(c, <<f>>) = AnthropicClient(c, f)
    BY <1>1, ReadsShort DEF receiveAll
  <2> QED  BY <1>1, <2>1, <2>2 DEF hears, hearsWords
<1>2. CASE clientDialect = "chat"
  <2>1. hears(c, ChatClient(c, f), textOf("chat", f), thinkingOf("chat", f),
              reasonOf("chat", f), endOf("chat", f))
    BY <1>2, ChatHears
  <2>2. receiveAll(c, <<f>>) = ChatClient(c, f)
    BY <1>2, ReadsShort DEF receiveAll
  <2> QED  BY <1>2, <2>1, <2>2 DEF hears, hearsWords
<1>3. CASE clientDialect = "responses"
  <2>1. /\ f.event = "response.output_text.delta" => f.piece # None /\ f.kind = "text"
        /\ f.event = "response.function_call_arguments.delta" =>
             f.kind = "function_call" /\ f.piece # None
    BY <1>3 DEF known, Done
  <2>2. hears(c, ResponsesClient(c, f), textOf("responses", f), thinkingOf("responses", f),
              reasonOf("responses", f), endOf("responses", f))
    BY <2>1, ResponsesHears
  <2>3. receiveAll(c, <<f>>) = ResponsesClient(c, f)
    BY <1>3, ReadsShort DEF receiveAll
  <2> QED  BY <1>3, <2>2, <2>3 DEF hears, hearsWords
<1> QED  BY <1>1, <1>2, <1>3 DEF Dialects

\* A frame read: the log hears it, the client the same unless it left.
frameLogged(f) ==
  /\ wire # <<>> /\ f = Head(wire) /\ wire' = Tail(wire)
  /\ up' = up /\ connection' = connection /\ left' = left
  /\ hearsWords(reqLog, reqLog', f)
  /\ IF left THEN client' = client ELSE reqLog = client => reqLog' = client'

LEMMA RunningLogged ==
  ASSUME StreamTypeOK, ReaderInv, running, isView(reqLog),
         RelayTranslated \/ RelayUnchanged
  PROVE  frameLogged(Head(wire))
<1>0. streamed /\ route # <<"responses", "chat">> /\ route # <<"chat", "chat">>
  BY DEF running
<1>1. /\ pc = "reading" /\ wire # <<>> /\ wire' = Tail(wire)
      /\ up' = up /\ connection' = connection /\ left' = left
  BY DEF RelayTranslated, RelayUnchanged, frameRead
<1>2. PICK f : f = Head(wire)
  OBVIOUS
<1>3. known(upstream, f)
  BY <1>1, <1>2, HeadAndTail DEF ReaderInv
<1>4. ASSUME NEW events, client' = written(events), reqLog' = logged(events),
             hearsWords(reqLog, receiveAll(reqLog, events), f)
      PROVE  frameLogged(f)
  BY <1>1, <1>2, <1>4 DEF frameLogged, written, logged
<1>5. CASE RelayTranslated
  <2>1. translated
    BY <1>5 DEF RelayTranslated
  <2>2. PICK order \in mapOrders :
          /\ client' = written(translate(Head(wire), order).codec.out)
          /\ reqLog' = logged(translate(Head(wire), order).codec.out)
    BY <1>0, <1>5 DEF RelayTranslated
  <2>3. PICK u : u = translate(f, order)
    OBVIOUS
  <2>4. client' = written(u.codec.out) /\ reqLog' = logged(u.codec.out)
    BY <1>2, <2>2, <2>3
  <2>5. atWork(route, codec)
    BY <1>1, <2>1 DEF ReaderInv
  <2>6. hearsWords(reqLog, receiveAll(reqLog, u.codec.out), f)
    BY <1>0, <1>3, <2>1, <2>3, <2>5, TurnHearsWords
  <2> QED  BY <1>2, <1>4, <2>4, <2>6
<1>6. CASE RelayUnchanged
  <2>1. ~translated
    BY <1>6 DEF RelayUnchanged
  <2>2. clientDialect = upstream /\ clientDialect \in Dialects
    BY <1>0, <2>1, RoutesAre DEF StreamTypeOK
  <2>3. clientDialect # "chat"
    <3>1. route \in Routes
      BY <1>0 DEF StreamTypeOK, streamed
    <3>2. PICK a \in Dialects, b \in Dialects : route = <<a, b>>
      BY <3>1 DEF Routes
    <3> QED  BY <1>0, <2>2, <3>2 DEF clientDialect, upstream
  <2>4. client' = written(<<f>>) /\ reqLog' = logged(<<f>>)
    BY <1>2, <1>6, <2>3 DEF RelayUnchanged
  <2>5. hearsWords(reqLog, receiveAll(reqLog, <<f>>), f)
    BY <1>3, <2>2, CopyHearsWords
  <2> QED  BY <1>2, <1>4, <2>4, <2>5
<1> QED  BY <1>2, <1>5, <1>6

\* Words read or still underway are those before, in the same order.
LEMMA WordsRead ==
  ASSUME ReaderInv, \A i \in 1..Len(wire) : i < Len(wire) => silent(upstream, wire[i]),
         wire # <<>>, wire' = Tail(wire), upstream' = upstream
  PROVE  /\ \A i \in 1..Len(wire') : i < Len(wire') => silent(upstream, wire'[i])
         /\ wire' # <<>> => /\ textOf(upstream, Head(wire)) = None
                            /\ thinkingOf(upstream, Head(wire)) = None
                            /\ pendingText' = pendingText
                            /\ pendingThinking' = pendingThinking
         /\ wire' = <<>> => /\ textOf(upstream, Head(wire)) = pendingText
                            /\ thinkingOf(upstream, Head(wire)) = pendingThinking
                            /\ pendingText' = None /\ pendingThinking' = None
<1>1. isSeq(wire)
  BY DEF ReaderInv
<1>2. PICK f : f = Head(wire)
  OBVIOUS
<1>3. /\ f = wire[1] /\ Len(wire) \in Nat /\ Len(wire) >= 1
      /\ Len(wire') \in Nat /\ Len(wire') = Len(wire) - 1
      /\ \A i \in 1..Len(wire') : i + 1 \in 1..Len(wire) /\ wire'[i] = wire[i + 1]
      /\ wire' = <<>> <=> Len(wire) = 1
      /\ wire' # <<>> => Last(wire') = Last(wire)
      /\ Last(wire) = wire[Len(wire)]
  BY <1>1, <1>2, HeadAndTail
<1>4. \A i \in 1..Len(wire') : i < Len(wire') => silent(upstream, wire'[i])
  <2> TAKE i \in 1..Len(wire')
  <2>1. i < Len(wire') => i + 1 < Len(wire)
    BY <1>3
  <2> QED  BY <1>3, <2>1
<1>5. wire' # <<>> => textOf(upstream, f) = None /\ thinkingOf(upstream, f) = None
  BY <1>3 DEF silent
<1>6. wire' = <<>> => textOf(upstream, f) = pendingText /\ thinkingOf(upstream, f) = pendingThinking
  BY <1>3 DEF pendingText, pendingThinking
<1>7. /\ wire' # <<>> => pendingText' = pendingText /\ pendingThinking' = pendingThinking
      /\ wire' = <<>> => pendingText' = None /\ pendingThinking' = None
  BY <1>3 DEF pendingText, pendingThinking
<1> QED  BY <1>2, <1>4, <1>5, <1>6, <1>7

LEMMA InitKept == Init => KeptInv
<1> SUFFICES ASSUME Init PROVE KeptInv
  OBVIOUS
<1>1. /\ up = Silent /\ wire = <<>> /\ client = NewClient /\ reqLog = NewClient
      /\ pc = "reading" /\ codec = newCodec(route)
  BY DEF Init
<1>2. up.text = <<>> /\ up.thinking = <<>>
  BY <1>1 DEF Silent
<1>3. NewClient.text = <<>> /\ NewClient.thinking = <<>>
  BY DEF NewClient
<1>4. <<>> \in Seq(Nat) /\ IsPrefix(<<>>, <<>>)
  <2>1. <<>> \in Seq(Nat)
    OBVIOUS
  <2> QED  BY <2>1, PrefixGrows
<1>5. Len(wire) = 0
  BY <1>1, SequencesGrow
<1>6. pendingText = None /\ pendingThinking = None
  BY <1>1 DEF pendingText, pendingThinking
<1>7. RunningInv
  BY <1>1, <1>2, <1>3, <1>4, <1>6, NewClientIsView DEF RunningInv, append
<1>8. collected => codec = Aggregate
  <2>1. route = <<"chat", "chat">> \/ route = Aggregated => newCodec(route) = Aggregate
    <3>1. CASE route = <<"chat", "chat">>
      <4>1. route[1] = "chat" /\ route[2] = "chat"
        BY <3>1
      <4> QED  BY <4>1 DEF newCodec
    <3>2. CASE route = Aggregated
      <4>1. route[1] = "aggregate" /\ route[2] = "chat"
        BY <3>2 DEF Aggregated
      <4> QED  BY <4>1 DEF newCodec
    <3> QED  BY <3>1, <3>2
  <2> QED  BY <1>1, <2>1 DEF collected
<1>9. collected => putTogether
  <2>1. Aggregate.content = <<>> /\ Aggregate.reasoning = <<>> /\ Aggregate.loggable = FALSE
    BY Zenon DEF Aggregate
  <2> QED  BY <1>1, <1>2, <1>3, <1>4, <1>6, <1>8, <2>1 DEF putTogether, append
<1>10. collected => CollectedInv
  BY <1>1, <1>5, <1>9 DEF CollectedInv
<1> QED  BY <1>7, <1>10 DEF KeptInv

LEMMA NextRunning ==
  BasicInv /\ WordsInv /\ running /\ RunningInv /\ [Next]_vars => RunningInv'
<1> SUFFICES ASSUME BasicInv, WordsInv, running, RunningInv, [Next]_vars
             PROVE  RunningInv'
  OBVIOUS
<1>0. StreamTypeOK /\ ReaderInv /\ RequestsInv /\ streamed /\ route # Aggregated
  BY DEF BasicInv, running, streamed
<1>i. /\ isView(reqLog) /\ reqLog.text \in Seq(Nat)
      /\ IsPrefix(client.text, reqLog.text)
      /\ ~left => reqLog = client
      /\ healthy => up.text = append(reqLog.text, pendingText)
  BY DEF RunningInv
<1>u. up.text \in Seq(Nat) /\ client.text \in Seq(Nat)
  BY <1>0 DEF ReaderInv, isUp, WordsInv
<1>a. \A x : append(x, None) = x
  BY DEF append
<1>r. upstream' = upstream
  BY RouteStays
<1>1. CASE Speaking
  <2>1. PICK text, thinking : providerSaid(text, thinking)
    BY <1>0, <1>1, ProviderSpeaks
  <2>2. /\ connected /\ wire = <<>> /\ connection' = connection /\ client' = client
        /\ left' = left /\ reqLog' = reqLog
        /\ up'.text = append(up.text, text)
        /\ carries(upstream, wire', text,
                   IF upstream = "responses" THEN None ELSE thinking)
    BY <2>1 DEF providerSaid
  <2>3. pendingText' = text
    BY <1>r, <2>2 DEF carries, pendingText
  <2>4. up.text = reqLog.text
    BY <1>i, <1>a, <2>2 DEF healthy, pendingText
  <2> QED  BY <1>i, <2>2, <2>3, <2>4 DEF RunningInv
<1>2. CASE ConnectionCloses
  <2>1. /\ connected /\ connection' \in {"eof", "error"} /\ wire' = <<>>
        /\ up.phase = "ended" => wire = <<>>
        /\ up' = up /\ client' = client /\ left' = left /\ reqLog' = reqLog
    BY <1>2 DEF ConnectionCloses, connected
  <2>2. healthy' => healthy /\ pendingText = None /\ pendingText' = None
    BY <2>1 DEF healthy, connected, pendingText
  <2> QED  BY <1>i, <2>1, <2>2 DEF RunningInv
<1>3. CASE RelayTranslated \/ RelayUnchanged
  <2>1. PICK f : f = Head(wire)
    OBVIOUS
  <2>2. frameLogged(f)
    BY <1>0, <1>3, <1>i, <2>1, RunningLogged
  <2>3. /\ wire # <<>> /\ wire' = Tail(wire) /\ up' = up /\ connection' = connection
        /\ left' = left /\ isView(reqLog')
        /\ reqLog'.text = append(reqLog.text, textOf(upstream, f))
        /\ IF left THEN client' = client ELSE reqLog = client => reqLog' = client'
    BY <2>2 DEF frameLogged, hearsWords
  <2>4. healthy /\ (healthy' <=> healthy)
    BY <1>0, <2>3 DEF StreamTypeOK, healthy, connected
  <2>5. /\ wire' # <<>> => textOf(upstream, f) = None /\ pendingText' = pendingText
        /\ wire' = <<>> => textOf(upstream, f) = pendingText /\ pendingText' = None
    BY <1>0, <1>r, <2>1, <2>3, WordsRead DEF WordsInv
  <2>6. up.text = append(reqLog'.text, pendingText')
    BY <1>i, <1>a, <2>3, <2>4, <2>5
  <2>7. reqLog'.text = reqLog.text \/ reqLog'.text = up.text
    BY <1>i, <1>a, <2>3, <2>4, <2>5
  <2>8. reqLog'.text \in Seq(Nat)
    BY <1>i, <1>u, <2>7
  <2>9. IsPrefix(client'.text, reqLog'.text)
    <3>1. CASE left
      <4>1. PICK x, y, e : x = client.text /\ y = reqLog.text /\ e = textOf(upstream, f)
        OBVIOUS
      <4>2. x \in Seq(Nat) /\ y \in Seq(Nat) /\ IsPrefix(x, y)
        BY <1>i, <1>u, <4>1
      <4>3. IsPrefix(x, append(y, e))
        BY <4>2, PrefixKept
      <4> QED  BY <2>3, <3>1, <4>1, <4>3
    <3>2. CASE ~left
      <4>1. client'.text = reqLog'.text
        BY <1>i, <2>3, <3>2
      <4>2. PICK x : x = reqLog'.text
        OBVIOUS
      <4>3. IsPrefix(x, x)
        BY <2>8, <4>2, PrefixKept
      <4> QED  BY <4>1, <4>2, <4>3
    <3> QED  BY <3>1, <3>2
  <2> QED  BY <1>i, <2>3, <2>4, <2>6, <2>8, <2>9 DEF RunningInv
<1>4. CASE ReadForAggregate \/ AnswerAggregate \/ FallBack \/ FallbackAnswered
  BY <1>0, <1>4 DEF ReadForAggregate, AnswerAggregate, FallBack, FallbackAnswered,
                    RequestsInv
<1>5. CASE StreamExhausted \/ ClientLeaves \/ UNCHANGED vars
  <2>1. /\ wire' = wire /\ up' = up /\ client' = client /\ connection' = connection
        /\ reqLog' = reqLog /\ (left' = left \/ left' = TRUE)
    BY <1>5 DEF StreamExhausted, ClientLeaves, vars, running
  <2>2. pendingText' = pendingText /\ (healthy' <=> healthy)
    BY <1>r, <2>1 DEF pendingText, healthy, connected
  <2> QED  BY <1>i, <2>1, <2>2 DEF RunningInv
<1> QED  BY <1>1, <1>2, <1>3, <1>4, <1>5
         DEF Next, Upstream, Handler, Finished, Speaking

\* What one chunk adds.
LEMMA ChunkCollected ==
  ASSUME NEW a, NEW f
  PROVE  LET b == aggregateChunk(a, f) IN
           /\ b.content = append(a.content, textOf("chat", f))
           /\ b.reasoning = append(a.reasoning, thinkingOf("chat", f))
           /\ a.loggable \in BOOLEAN => b.loggable \in BOOLEAN
           /\ a.loggable \in BOOLEAN /\ b.loggable = FALSE =>
                /\ a.loggable = FALSE
                /\ textOf("chat", f) = None /\ thinkingOf("chat", f) = None
<1>1. CASE f.event # "chunk"
  BY <1>1 DEF aggregateChunk, textOf, thinkingOf, append
<1>2. CASE f.event = "chunk"
  <2>1. PICK b : b = aggregateChunk(a, f)
    OBVIOUS
  <2>2. textOf("chat", f) = f.content /\ thinkingOf("chat", f) = f.reasoning
    BY <1>2 DEF textOf, thinkingOf
  <2>3. /\ b.content = append(a.content, f.content)
        /\ b.reasoning = append(a.reasoning, f.reasoning)
        /\ b.loggable = (a.loggable \/ f.content # None \/ f.reasoning # None
                           \/ f.tools # <<>>)
    BY <1>2, <2>1, Zenon DEF aggregateChunk
  <2>4. a.loggable \in BOOLEAN =>
          /\ b.loggable \in BOOLEAN
          /\ b.loggable = FALSE =>
               a.loggable = FALSE /\ f.content = None /\ f.reasoning = None
    BY <2>3
  <2> QED  BY <2>1, <2>2, <2>3, <2>4
<1> QED  BY <1>1, <1>2

\* A chunk of a stream to be put together was read.
LEMMA ChunkPutTogether ==
  ASSUME BasicInv, collected, CollectedInv, [Next]_vars,
         RelayUnchanged \/ ReadForAggregate
  PROVE  CollectedInv'
<1>0. StreamTypeOK /\ ReaderInv
  BY DEF BasicInv
<1>r. upstream = "chat" /\ upstream' = upstream /\ (streamed' <=> streamed)
  BY RouteStays DEF collected, upstream, Aggregated
<1>1. PICK f : f = Head(wire)
  OBVIOUS
<1>2. /\ pc = "reading" /\ pc' = pc /\ wire # <<>> /\ wire' = Tail(wire) /\ up' = up
      /\ connection' = connection /\ left' = left /\ reqLog' = reqLog
      /\ codec' = aggregateChunk(codec, f)
      /\ streamed => client' = written(<<f>>)
      /\ ~streamed => client' = client
  <2>1. CASE RelayUnchanged
    <3>1. route = <<"chat", "chat">> /\ clientDialect = "chat" /\ streamed
      BY <2>1 DEF RelayUnchanged, collected, clientDialect, streamed
    <3> QED  BY <1>1, <2>1, <3>1 DEF RelayUnchanged, frameRead
  <2>2. CASE ReadForAggregate
    BY <1>1, <2>2 DEF ReadForAggregate, frameRead, streamed
  <2> QED  BY <2>1, <2>2
<1>3. PICK a, b, text, thinking : /\ a = codec /\ b = codec'
                                  /\ text = textOf("chat", f)
                                  /\ thinking = thinkingOf("chat", f)
  OBVIOUS
<1>4. /\ b.content = append(a.content, text)
      /\ b.reasoning = append(a.reasoning, thinking)
      /\ a.loggable \in BOOLEAN => b.loggable \in BOOLEAN
      /\ a.loggable \in BOOLEAN /\ b.loggable = FALSE =>
           a.loggable = FALSE /\ text = None /\ thinking = None
  BY <1>2, <1>3, ChunkCollected
<1>i. putTogether /\ reqLog = NewClient
      /\ \A i \in 1..Len(wire) : i < Len(wire) => silent(upstream, wire[i])
  BY <1>r, <1>2 DEF CollectedInv
<1>j. /\ a.loggable \in BOOLEAN
      /\ a.loggable = FALSE => a.content = <<>> /\ a.reasoning = <<>>
      /\ a.content \in Seq(Nat) /\ a.reasoning \in Seq(Nat) /\ client.text \in Seq(Nat)
      /\ IsPrefix(a.content, up.text) /\ IsPrefix(a.reasoning, up.thinking)
      /\ IsPrefix(client.text, a.content)
      /\ streamed /\ ~left => client.text = a.content
      /\ healthy => /\ up.text = append(a.content, pendingText)
                    /\ up.thinking = append(a.reasoning, pendingThinking)
  BY <1>i, <1>3 DEF putTogether
<1>k. healthy /\ (healthy' <=> healthy)
  BY <1>0, <1>2 DEF StreamTypeOK, healthy, connected
<1>u. up.text \in Seq(Nat) /\ up.thinking \in Seq(Nat)
  BY <1>0 DEF ReaderInv, isUp
<1>a. \A x : append(x, None) = x
  BY DEF append
<1>5. /\ \A i \in 1..Len(wire') : i < Len(wire') => silent(upstream, wire'[i])
      /\ wire' # <<>> => /\ text = None /\ thinking = None
                         /\ pendingText' = pendingText
                         /\ pendingThinking' = pendingThinking
      /\ wire' = <<>> => /\ text = pendingText /\ thinking = pendingThinking
                         /\ pendingText' = None /\ pendingThinking' = None
  BY <1>0, <1>1, <1>2, <1>3, <1>i, <1>r, WordsRead
<1>6. /\ up.text = append(b.content, pendingText')
      /\ up.thinking = append(b.reasoning, pendingThinking')
  BY <1>a, <1>j, <1>k, <1>4, <1>5
<1>7. /\ b.content = a.content \/ b.content = up.text
      /\ b.reasoning = a.reasoning \/ b.reasoning = up.thinking
  BY <1>a, <1>j, <1>k, <1>4, <1>5
<1>8. /\ b.content \in Seq(Nat) /\ b.reasoning \in Seq(Nat)
      /\ IsPrefix(b.content, up.text) /\ IsPrefix(b.reasoning, up.thinking)
  BY <1>j, <1>u, <1>7, PrefixGrows
<1>9. /\ b.loggable \in BOOLEAN
      /\ b.loggable = FALSE => b.content = <<>> /\ b.reasoning = <<>>
  BY <1>a, <1>j, <1>4
<1>10. streamed /\ ~left => client'.text = b.content
  <2> SUFFICES ASSUME streamed, ~left PROVE client'.text = b.content
    OBVIOUS
  <2>1. clientDialect = "chat" /\ clientDialect \in Dialects
    BY DEF collected, streamed, clientDialect, Dialects
  <2>2. isView(client) /\ known(upstream, f)
    BY <1>0, <1>1, <1>2, HeadAndTail DEF ReaderInv
  <2>3. hearsWords(client, receiveAll(client, <<f>>), f)
    BY <1>r, <2>1, <2>2, CopyHearsWords
  <2>4. client' = receiveAll(client, <<f>>)
    BY <1>2 DEF written
  <2> QED  BY <1>3, <1>4, <1>j, <1>r, <2>3, <2>4 DEF hearsWords
<1>11. IsPrefix(client'.text, b.content)
  <2>1. CASE streamed /\ ~left
    BY <1>8, <1>10, <2>1, PrefixGrows
  <2>2. CASE ~(streamed /\ ~left)
    <3>1. PICK x : x = client.text
      OBVIOUS
    <3>2. client' = client
      BY <1>2, <2>2 DEF written
    <3>3. x \in Seq(Nat) /\ a.content \in Seq(Nat) /\ IsPrefix(x, a.content)
      BY <1>j, <3>1
    <3>4. IsPrefix(x, append(a.content, text))
      BY <3>3, PrefixKept
    <3> QED  BY <1>4, <3>1, <3>2, <3>4
  <2> QED  BY <2>1, <2>2
<1>12. client'.text \in Seq(Nat)
  <2>1. CASE streamed /\ ~left
    BY <1>8, <1>10, <2>1
  <2>2. CASE ~(streamed /\ ~left)
    BY <1>2, <1>j, <2>2 DEF written
  <2> QED  BY <2>1, <2>2
<1>13. putTogether'
  BY <1>2, <1>3, <1>6, <1>8, <1>9, <1>10, <1>11, <1>12, <1>r DEF putTogether
<1> QED  BY <1>2, <1>5, <1>13, <1>i, <1>r DEF CollectedInv

LEMMA NextCollected ==
  BasicInv /\ collected /\ CollectedInv /\ (~streamed => AggregateInv) /\ [Next]_vars
    => CollectedInv'
<1> SUFFICES ASSUME BasicInv, collected, CollectedInv, ~streamed => AggregateInv,
                    [Next]_vars
             PROVE  CollectedInv'
  OBVIOUS
<1>0. StreamTypeOK /\ ReaderInv /\ RequestsInv
  BY DEF BasicInv
<1>r. /\ route' = route /\ upstream = "chat" /\ upstream' = upstream
      /\ (streamed' <=> streamed)
  BY RouteStays DEF collected, upstream, Aggregated
<1>t. ~translated /\ ~translated'
  BY <1>r DEF collected, translated, clientDialect, upstream, Aggregated
<1>i. /\ \A i \in 1..Len(wire) : i < Len(wire) => silent("chat", wire[i])
      /\ pc = "reading" => putTogether /\ reqLog = NewClient
      /\ pc = "fallback" => requests = 2
      /\ pc = "returned" => LogKeepsWords /\ AggregateKeepsWords
  BY DEF CollectedInv
<1>u. up.text \in Seq(Nat) /\ up.thinking \in Seq(Nat)
  BY <1>0 DEF ReaderInv, isUp
<1>a. \A x : append(x, None) = x
  BY DEF append
<1>e. wire = <<>> => pendingText = None /\ pendingThinking = None
  BY DEF pendingText, pendingThinking
<1>l. Len(<<>>) = 0
  BY SequencesGrow
<1>1. CASE Speaking
  <2>1. PICK text, thinking : providerSaid(text, thinking)
    BY <1>0, <1>1, ProviderSpeaks
  <2>2. /\ connected /\ pc = "reading" /\ wire = <<>> /\ connection' = connection
        /\ codec' = codec /\ client' = client /\ pc' = pc /\ left' = left
        /\ reqLog' = reqLog
        /\ up'.text = append(up.text, text) /\ up'.thinking = append(up.thinking, thinking)
        /\ carries("chat", wire', text, thinking)
    BY <1>r, <2>1 DEF providerSaid
  <2>3. /\ \A i \in 1..Len(wire') : i < Len(wire') => silent("chat", wire'[i])
        /\ pendingText' = text /\ pendingThinking' = thinking
    BY <1>r, <2>2 DEF carries, pendingText, pendingThinking
  <2>4. up.text = codec.content /\ up.thinking = codec.reasoning
    BY <1>i, <1>a, <1>e, <2>2 DEF putTogether, healthy
  <2>5. IsPrefix(codec.content, up'.text) /\ IsPrefix(codec.reasoning, up'.thinking)
    <3>1. PICK x, y : x = up.text /\ y = up.thinking
      OBVIOUS
    <3>2. x \in Seq(Nat) /\ y \in Seq(Nat)
      BY <1>u, <3>1
    <3>3. IsPrefix(x, append(x, text)) /\ IsPrefix(y, append(y, thinking))
      BY <3>2, PrefixKept
    <3> QED  BY <2>2, <2>4, <3>1, <3>3
  <2>6. putTogether'
    BY <1>i, <1>r, <2>2, <2>3, <2>4, <2>5 DEF putTogether
  <2> QED  BY <1>i, <2>2, <2>3, <2>6 DEF CollectedInv
<1>2. CASE ConnectionCloses
  <2>1. /\ connected /\ pc = "reading" /\ connection' \in {"eof", "error"} /\ wire' = <<>>
        /\ up.phase = "ended" => wire = <<>>
        /\ up' = up /\ codec' = codec /\ client' = client /\ pc' = pc
        /\ left' = left /\ reqLog' = reqLog
    BY <1>2 DEF ConnectionCloses, connected
  <2>2. healthy' => healthy /\ wire = <<>>
    BY <2>1 DEF healthy, connected
  <2>3. pendingText' = None /\ pendingThinking' = None
    BY <2>1 DEF pendingText, pendingThinking
  <2>4. putTogether'
    BY <1>i, <1>r, <1>e, <2>1, <2>2, <2>3 DEF putTogether
  <2> QED  BY <1>i, <1>l, <2>1, <2>4 DEF CollectedInv
<1>3. CASE RelayTranslated
  BY <1>3, <1>t DEF RelayTranslated
<1>4. CASE RelayUnchanged \/ ReadForAggregate
  BY <1>4, ChunkPutTogether
<1>5. ASSUME exhausted, up' = up, wire' = wire, connection' = connection, left' = left,
             requests' = requests, pc' = "returned", LogKeepsWords', AggregateKeepsWords'
      PROVE  CollectedInv'
  BY <1>i, <1>5 DEF CollectedInv
<1>w. ASSUME exhausted
      PROVE  /\ pc = "reading" /\ wire = <<>> /\ putTogether /\ reqLog = NewClient
             /\ delivered => up.text = codec.content /\ up.thinking = codec.reasoning
  BY <1>i, <1>a, <1>e, <1>w DEF exhausted, putTogether, delivered, healthy, connected
<1>v. /\ {"text", "thinking"} \subseteq DOMAIN NewClient
      /\ NewClient.text = <<>> /\ NewClient.thinking = <<>>
  BY Zenon DEF NewClient
<1>6. CASE StreamExhausted
  <2>1. /\ exhausted /\ streamed /\ pc' = "returned" /\ up' = up /\ wire' = wire
        /\ connection' = connection /\ left' = left /\ requests' = requests
        /\ client' = client
    BY <1>6 DEF StreamExhausted, streamed
  <2>2. route = <<"chat", "chat">>
    BY <2>1 DEF collected, streamed
  <2>3. reqLog'.text = codec.content
    <3>1. CASE codec.loggable
      <4>1. PICK order : reqLog' = wholeAnswer(buildOpenAIStreamLogResponse(codec, order))
        BY <1>6, <2>2, <3>1 DEF StreamExhausted
      <4>2. buildOpenAIStreamLogResponse(codec, order).content = codec.content
        BY Zenon DEF buildOpenAIStreamLogResponse
      <4>3. \A w : wholeAnswer(w).text = w.content
        BY <1>v, Zenon DEF wholeAnswer
      <4> QED  BY <4>1, <4>2, <4>3
    <3>2. CASE ~codec.loggable
      <4>1. reqLog' = reqLog
        BY <1>6, <3>2 DEF StreamExhausted
      <4> QED  BY <1>v, <1>w, <2>1, <3>2, <4>1 DEF putTogether
    <3> QED  BY <3>1, <3>2
  <2>4. delivered' => delivered
    BY <2>1 DEF delivered
  <2>5. LogKeepsWords'
    BY <1>t, <1>w, <2>1, <2>3, <2>4 DEF LogKeepsWords, logWritten, putTogether
  <2>6. AggregateKeepsWords'
    BY <1>r, <2>1 DEF AggregateKeepsWords, answerPutTogether, streamed
  <2> QED  BY <1>5, <2>1, <2>5, <2>6
<1>7. CASE AnswerAggregate
  <2>1. /\ exhausted /\ ~streamed /\ pc' = "returned" /\ up' = up /\ wire' = wire
        /\ connection' = connection /\ left' = left /\ requests' = requests
    BY <1>7 DEF AnswerAggregate, streamed
  <2>2. PICK answer : /\ client' = (IF left THEN client ELSE answer)
                      /\ reqLog' = answer
                      /\ answer.text = codec.content
                      /\ answer.thinking = codec.reasoning
    <3>1. PICK order :
            /\ client' = IF left THEN client
                         ELSE wholeAnswer(buildOpenAIStreamLogResponse(codec, order))
            /\ reqLog' = wholeAnswer(buildOpenAIStreamLogResponse(codec, order))
      BY <1>7 DEF AnswerAggregate
    <3>2. /\ buildOpenAIStreamLogResponse(codec, order).content = codec.content
          /\ buildOpenAIStreamLogResponse(codec, order).reasoning = codec.reasoning
      BY Zenon DEF buildOpenAIStreamLogResponse
    <3>3. \A w : wholeAnswer(w).text = w.content /\ wholeAnswer(w).thinking = w.reasoning
      BY <1>v, Zenon DEF wholeAnswer
    <3> QED  BY <3>1, <3>2, <3>3
  <2>3. client = NewClient
    BY <1>w, <2>1 DEF AggregateInv
  <2>4. delivered' => delivered
    BY <2>1 DEF delivered
  <2>5. \A x \in Seq(Nat) : IsPrefix(<<>>, x) /\ IsPrefix(x, x)
    BY PrefixGrows
  <2>6. /\ codec.content \in Seq(Nat) /\ codec.reasoning \in Seq(Nat)
        /\ IsPrefix(codec.content, up.text) /\ IsPrefix(codec.reasoning, up.thinking)
    BY <1>w, <2>1 DEF putTogether
  <2>7. LogKeepsWords'
    <3>1. IsPrefix(client'.text, reqLog'.text)
      <4>1. IsPrefix(<<>>, codec.content) /\ IsPrefix(codec.content, codec.content)
        BY <2>5, <2>6
      <4>2. client'.text = <<>> \/ client'.text = codec.content
        BY <1>v, <2>2, <2>3
      <4> QED  BY <2>2, <4>1, <4>2
    <3> QED  BY <1>t, <1>w, <2>1, <2>2, <2>4, <3>1 DEF LogKeepsWords, logWritten
  <2>8. AggregateKeepsWords'
    <3>1. IsPrefix(client'.text, up.text) /\ IsPrefix(client'.thinking, up.thinking)
      <4>1. IsPrefix(<<>>, up.text) /\ IsPrefix(<<>>, up.thinking)
        BY <1>u, <2>5
      <4>2. \/ client'.text = <<>> /\ client'.thinking = <<>>
            \/ client'.text = codec.content /\ client'.thinking = codec.reasoning
        BY <1>v, <2>2, <2>3
      <4> QED  BY <2>6, <4>1, <4>2
    <3> QED  BY <1>w, <2>1, <2>2, <2>4, <3>1 DEF AggregateKeepsWords, answerPutTogether
  <2> QED  BY <1>5, <2>1, <2>7, <2>8
<1>8. CASE FallBack
  <2>1. /\ pc = "reading" /\ pc' = "fallback" /\ requests' = requests + 1 /\ wire' = wire
    BY <1>8 DEF FallBack, exhausted
  <2>2. requests = 1
    BY <1>0, <2>1 DEF RequestsInv
  <2> QED  BY <1>i, <2>1, <2>2 DEF CollectedInv
<1>9. CASE FallbackAnswered
  <2>1. pc = "fallback" /\ pc' = "returned" /\ requests' = requests /\ wire' = wire
    BY <1>9 DEF FallbackAnswered
  <2>2. requests' # 1
    BY <1>i, <2>1
  <2>3. LogKeepsWords' /\ AggregateKeepsWords'
    BY <2>2 DEF LogKeepsWords, logWritten, AggregateKeepsWords, answerPutTogether
  <2> QED  BY <1>i, <2>1, <2>3 DEF CollectedInv
<1>10. CASE ClientLeaves \/ UNCHANGED vars
  <2>1. /\ route' = route /\ up' = up /\ wire' = wire /\ connection' = connection
        /\ codec' = codec /\ client' = client /\ reqLog' = reqLog /\ pc' = pc
        /\ requests' = requests
        /\ left' = left \/ (left' = TRUE /\ pc # "returned")
    BY <1>10 DEF ClientLeaves, vars
  <2>2. /\ (healthy' <=> healthy) /\ (delivered' <=> delivered)
        /\ pendingText' = pendingText /\ pendingThinking' = pendingThinking
    BY <1>r, <2>1 DEF healthy, connected, delivered, pendingText, pendingThinking
  <2>3. pc = "reading" => putTogether'
    BY <1>i, <1>r, <2>1, <2>2 DEF putTogether
  <2>4. pc = "returned" => LogKeepsWords' /\ AggregateKeepsWords'
    BY <1>i, <1>t, <2>1, <2>2 DEF LogKeepsWords, logWritten, AggregateKeepsWords, answerPutTogether
  <2> QED  BY <1>i, <2>1, <2>3, <2>4 DEF CollectedInv
<1> QED  BY <1>1, <1>2, <1>3, <1>4, <1>6, <1>7, <1>8, <1>9, <1>10
         DEF Next, Upstream, Handler, Finished, Speaking

THEOREM KeptInvariant == Spec => [](StreamInv /\ KeptInv)
<1>1. StreamInv /\ KeptInv /\ [Next]_vars => KeptInv'
  <2> SUFFICES ASSUME StreamInv, KeptInv, [Next]_vars PROVE KeptInv'
    OBVIOUS
  <2>1. BasicInv
    BY DEF StreamInv, BasicInv
  <2>2. (running' <=> running) /\ (collected' <=> collected)
    BY RouteStays DEF running, collected
  <2>3. running => RunningInv'
    BY <2>1, NextRunning DEF KeptInv, StreamInv, running
  <2>4. collected => CollectedInv'
    BY <2>1, NextCollected DEF KeptInv, StreamInv
  <2> QED  BY <2>2, <2>3, <2>4 DEF KeptInv
<1> QED  BY <1>1, InitKept, StreamInvariant, PTL DEF Spec

\* What the log entry keeps of the words: everything the client was sent, the
\* whole text if all was delivered, also after the client left half-way; and a
\* translating handler logs exactly what a client that stays has heard.
THEOREM LogKeepsTheWords == Spec => []LogKeepsWords
<1>1. StreamInv /\ KeptInv => LogKeepsWords
  <2> SUFFICES ASSUME StreamInv, KeptInv, pc = "returned",
                      route # <<"responses", "chat">>
               PROVE  LogKeepsWords
    BY DEF LogKeepsWords, logWritten
  <2>1. CASE collected
    BY <2>1 DEF KeptInv, CollectedInv
  <2>2. CASE ~collected
    <3>1. RunningInv
      BY <2>2 DEF KeptInv, running, collected, streamed
    <3>2. delivered => healthy /\ pendingText = None
      BY DEF delivered, healthy, connected, pendingText
    <3>3. \A x : append(x, None) = x
      BY DEF append
    <3> QED  BY <3>1, <3>2, <3>3 DEF RunningInv, LogKeepsWords, logWritten
  <2> QED  BY <2>1, <2>2
<1> QED  BY <1>1, KeptInvariant, PTL

\* The words of the answer put together from a forced stream are the
\* provider's, all of them when the stream was complete.
THEOREM AggregateKeepsTheWords == Spec => []AggregateKeepsWords
<1>1. KeptInv => AggregateKeepsWords
  BY DEF KeptInv, collected, CollectedInv, AggregateKeepsWords, answerPutTogether
<1> QED  BY <1>1, KeptInvariant, PTL
-----------------------------------------------------------------------------
(* A complete stream is told to end.                                       *)

\* Has the provider sent the frame with which the stream is closed?
closingSent == IF upstream = "responses" THEN final ELSE up.phase = "ended"

\* A handler returns on that frame, the last one, or when all are read; until
\* then the end is told or underway.  A chat client knows it by the reason.
ToldEndInv ==
  /\ translated /\ pc = "returned" => wire = <<>>
  /\ translated /\ clientDialect # "chat" /\ ~left /\ healthy /\ ~reportedFailure
     /\ closingSent =>
       client.ended > 0 \/ \E i \in 1..Len(wire) : heardEnd(wire[i])
  /\ translated /\ clientDialect = "chat" /\ ~left /\ ~reportedFailure
     /\ up.phase = "ended" /\ (pc = "returned" \/ ~connected) =>
       client.finish # <<>>

LEMMA InitToldEnd == Init => ToldEndInv
<1>1. Silent.phase = "new"
  BY Zenon DEF Silent
<1>2. Init => pc = "reading" /\ up.phase = "new"
  BY <1>1 DEF Init
<1> QED  BY <1>2 DEF ToldEndInv, closingSent, final

LEMMA NextToldEnd ==
  /\ BasicInv /\ streamed /\ EndInv /\ (clientDialect = "chat" => FinishInv /\ FinishInv')
  /\ ToldEndInv /\ [Next]_vars
  => ToldEndInv'
<1> SUFFICES ASSUME BasicInv, streamed, EndInv, ToldEndInv, [Next]_vars,
                    clientDialect = "chat" => FinishInv /\ FinishInv'
             PROVE  ToldEndInv'
  OBVIOUS
<1>0. /\ StreamTypeOK /\ isSeq(wire) /\ isView(client) /\ client.ended \in Nat
  BY DEF BasicInv, ReaderInv, isView
<1>r. /\ route' = route /\ upstream' = upstream /\ clientDialect' = clientDialect
      /\ (translated' <=> translated)
      /\ \A f : heardEnd(f)' <=> heardEnd(f)
  BY RouteStays DEF heardEnd, closesResponse, endOf
<1>l. Len(<<>>) = 0
  BY SequencesGrow
<1>i. /\ translated /\ pc = "returned" => wire = <<>>
      /\ translated /\ clientDialect # "chat" /\ ~left /\ healthy /\ ~reportedFailure
         /\ closingSent =>
           client.ended > 0 \/ \E i \in 1..Len(wire) : heardEnd(wire[i])
      /\ translated /\ clientDialect = "chat" /\ ~left /\ ~reportedFailure
         /\ up.phase = "ended" /\ (pc = "returned" \/ ~connected) =>
           client.finish # <<>>
  BY DEF ToldEndInv
<1>t. translated => route \in {<<"chat", "anthropic">>, <<"chat", "responses">>,
                               <<"responses", "anthropic">>, <<"responses", "chat">>,
                               <<"anthropic", "chat">>, <<"anthropic", "responses">>}
  BY <1>0, RoutesAre DEF StreamTypeOK
<1>1. ASSUME NEW text, NEW thinking, providerSaid(text, thinking)
      PROVE  ToldEndInv'
  <2>1. /\ connected /\ pc = "reading" /\ wire = <<>> /\ connection' = connection
        /\ client' = client /\ left' = left /\ pc' = pc /\ isSeq(wire')
        /\ talkedOn \/ finishedNow(text, thinking) \/ terminatedNow(text, thinking)
    BY <1>1 DEF providerSaid, carries
  <2>2. connected' /\ healthy /\ pc' # "returned"
    BY <2>1 DEF connected, healthy
  <2>3. ASSUME translated, clientDialect # "chat", ~left, ~reportedFailure', closingSent'
        PROVE  client.ended > 0 \/ \E i \in 1..Len(wire') : heardEnd(wire'[i])
    <3>1. CASE upstream = "responses"
      <4>1. route = <<"anthropic", "responses">>
        BY <1>t, <2>3, <3>1 DEF upstream, clientDialect
      <4>2. final'
        BY <1>r, <2>3, <3>1 DEF closingSent
      <4>3. ~talkedOn
        BY <4>2 DEF talkedOn, final
      <4>4. CASE finishedNow(text, thinking)
        <5>1. up'.finish # "length"
          BY <1>r, <2>3, <3>1 DEF reportedFailure
        <5>2. wire' # <<>> /\ Last(wire').event = "response.completed"
          BY <3>1, <4>4, <5>1 DEF finishedNow, completes
        <5>3. Len(wire') \in 1..Len(wire') /\ Last(wire') = wire'[Len(wire')]
          BY <2>1, <5>2, HeadAndTail
        <5>4. heardEnd(Last(wire'))
          BY <4>1, <5>2 DEF heardEnd, closesResponse
        <5> QED  BY <5>3, <5>4
      <4>5. CASE terminatedNow(text, thinking)
        <5>1. closingSent /\ ~reportedFailure
          BY <1>r, <2>3, <3>1, <4>5 DEF terminatedNow, closingSent, final, reportedFailure
        <5> QED  BY <1>i, <1>l, <2>1, <2>2, <2>3, <5>1
      <4> QED  BY <2>1, <4>3, <4>4, <4>5
    <3>2. CASE upstream # "responses"
      <4>1. up'.phase = "ended"
        BY <1>r, <2>3, <3>2 DEF closingSent
      <4>2. terminatedNow(text, thinking)
        BY <2>1, <4>1 DEF talkedOn, finishedNow
      <4>3. PICK i \in 1..Len(wire') : endOf(upstream, wire'[i])
        BY <3>2, <4>2 DEF terminatedNow
      <4>4. route # <<"anthropic", "responses">>
        BY <3>2 DEF upstream
      <4>5. heardEnd(wire'[i])
        BY <4>3, <4>4 DEF heardEnd
      <4> QED  BY <4>5
    <3> QED  BY <3>1, <3>2
  <2>4. (\E i \in 1..Len(wire') : heardEnd(wire'[i])) =>
           (\E i \in 1..Len(wire) : heardEnd(wire[i]))'
    BY <1>r DEF heardEnd, closesResponse, endOf
  <2> QED  BY <1>r, <2>1, <2>2, <2>3, <2>4 DEF ToldEndInv
<1>2. CASE closed
  <2>1. /\ connected /\ pc = "reading" /\ ~connected' /\ wire' = <<>>
        /\ up.phase = "ended" => wire = <<>>
        /\ up' = up /\ client' = client /\ left' = left /\ pc' = pc
    BY <1>2 DEF closed
  <2>2. /\ (reportedFailure' <=> reportedFailure) /\ (closingSent' <=> closingSent)
        /\ healthy' => healthy /\ up.phase = "ended"
    BY <1>r, <2>1 DEF reportedFailure, closingSent, final, healthy
  <2>3. ASSUME translated, clientDialect # "chat", ~left, healthy', ~reportedFailure,
               closingSent
        PROVE  client.ended > 0
    BY <1>i, <1>l, <2>1, <2>2, <2>3
  <2>4. ASSUME translated, clientDialect = "chat", ~left, ~reportedFailure,
               up.phase = "ended"
        PROVE  client.finish # <<>>
    <3>1. final /\ ~due /\ FinishInv
      BY <1>l, <2>1, <2>4 DEF final, due
    <3>2. toldInv
      BY <2>1, <2>4, <3>1 DEF FinishInv
    <3>3. route # <<"anthropic", "chat">>
      BY <2>4 DEF clientDialect
    <3>4. client.finish = <<toldReason(up.finish)>>
      BY <2>4, <3>2, <3>3 DEF toldInv, told
    <3> QED  BY <3>4
  <2> QED  BY <1>r, <2>1, <2>2, <2>3, <2>4 DEF ToldEndInv
<1>3. CASE frameTold(Head(wire)) /\ frameKept(Head(wire))
  <2>1. PICK f : f = Head(wire)
    OBVIOUS
  <2>2. /\ pc = "reading" /\ wire # <<>> /\ wire' = Tail(wire) /\ up' = up
        /\ connection' = connection /\ left' = left
        /\ pc' = "returned" => heardEnd(f)
        /\ IF left THEN client' = client
           ELSE hears(client, client', textOf(upstream, f), passed(f), heardReason(f),
                      heardEnd(f))
    BY <1>3, <2>1 DEF frameTold
  <2>3. /\ f = wire[1] /\ Len(wire) \in Nat /\ Len(wire) >= 1 /\ 1 \in 1..Len(wire)
        /\ \A i \in 1..Len(wire) :
             i = 1 \/ (i - 1 \in 1..Len(wire') /\ wire'[i - 1] = wire[i])
        /\ wire' = <<>> <=> Len(wire) = 1
    BY <1>0, <2>1, <2>2, HeadAndTail
  <2>4. /\ (reportedFailure' <=> reportedFailure) /\ (closingSent' <=> closingSent)
        /\ connected /\ (connected' <=> connected) /\ healthy
    BY <1>0, <1>r, <2>2 DEF reportedFailure, closingSent, final, healthy, connected,
                            StreamTypeOK
  <2>5. heardEnd(f) => wire' = <<>>
    BY <2>3, EndCloses DEF EndInv
  <2>6. ~left => /\ heardEnd(f) => client'.ended > 0
                 /\ client.ended > 0 => client'.ended > 0
    <3>1. ~left => client'.ended = IF heardEnd(f) THEN client.ended + 1 ELSE client.ended
      BY <2>2 DEF hears
    <3> QED  BY <1>0, <3>1
  <2>7. ASSUME translated, clientDialect # "chat", ~left, ~reportedFailure, closingSent
        PROVE  client'.ended > 0 \/ \E i \in 1..Len(wire') : heardEnd(wire'[i])
    <3>1. CASE client.ended > 0
      BY <2>6, <2>7, <3>1
    <3>2. ASSUME NEW i \in 1..Len(wire), heardEnd(wire[i])
          PROVE  client'.ended > 0 \/ \E j \in 1..Len(wire') : heardEnd(wire'[j])
      <4>1. CASE i = 1
        BY <2>3, <2>6, <2>7, <3>2, <4>1
      <4>2. CASE i # 1
        BY <2>3, <3>2, <4>2
      <4> QED  BY <4>1, <4>2
    <3> QED  BY <1>i, <2>4, <2>7, <3>1, <3>2
  <2>8. (\E i \in 1..Len(wire') : heardEnd(wire'[i])) =>
           (\E i \in 1..Len(wire) : heardEnd(wire[i]))'
    BY <1>r DEF heardEnd, closesResponse, endOf
  <2>9. ASSUME clientDialect = "chat", ~left, pc' = "returned"
        PROVE  client'.finish # <<>>
    <3>1. client'.ended > 0 /\ FinishInv'
      BY <2>2, <2>6, <2>9
    <3>2. client'.finish = <<toldReason(up.finish)>>'
      BY <3>1 DEF FinishInv
    <3> QED  BY <3>2
  <2>10. pc' = "returned" => wire' = <<>>
    BY <2>2, <2>5
  <2> QED  BY <1>r, <2>2, <2>4, <2>7, <2>8, <2>9, <2>10 DEF ToldEndInv
<1>4. CASE StreamExhausted \/ ClientLeaves \/ UNCHANGED vars
  <2>1. /\ up' = up /\ wire' = wire /\ connection' = connection /\ client' = client
        /\ left' = left \/ left' = TRUE
        /\ pc' = pc \/ (pc' = "returned" /\ wire = <<>> /\ ~connected)
    BY <1>4 DEF StreamExhausted, exhausted, connected, ClientLeaves, vars
  <2>2. /\ (reportedFailure' <=> reportedFailure) /\ (closingSent' <=> closingSent)
        /\ (connected' <=> connected) /\ (healthy' <=> healthy)
    BY <1>r, <2>1 DEF reportedFailure, closingSent, final, healthy, connected
  <2>3. (\E i \in 1..Len(wire) : heardEnd(wire[i])) =>
           (\E i \in 1..Len(wire) : heardEnd(wire[i]))'
    BY <1>r, <2>1 DEF heardEnd, closesResponse, endOf
  <2> QED  BY <1>i, <1>r, <2>1, <2>2, <2>3 DEF ToldEndInv
<1>5. CASE ReadForAggregate \/ AnswerAggregate \/ FallBack \/ FallbackAnswered
  BY <1>5 DEF ReadForAggregate, AnswerAggregate, FallBack, FallbackAnswered,
              BasicInv, RequestsInv, streamed
<1>6. CASE Speaking
  BY <1>0, <1>1, <1>6, ProviderSpeaks DEF BasicInv
<1>7. CASE ConnectionCloses
  BY <1>2, <1>7 DEF ConnectionCloses, closed, connected
<1>8. CASE RelayTranslated \/ RelayUnchanged
  BY <1>3, <1>8, TranslatedTold, UnchangedTold DEF BasicInv
<1> QED  BY <1>4, <1>5, <1>6, <1>7, <1>8
         DEF Next, Upstream, Handler, Finished, Speaking

\* The client of a translating handler that returned after a complete stream
\* was told of the end: no translator swallows it, whichever frame closes the
\* provider's stream, and none returns before.
THEOREM CompleteStreamsEnd == Spec => []CompleteStreamIsEnded
<1>1. StreamInv /\ StreamInv' /\ (streamed => ToldEndInv) /\ [Next]_vars =>
        (streamed => ToldEndInv)'
  <2> SUFFICES ASSUME StreamInv, StreamInv', streamed, ToldEndInv, [Next]_vars
               PROVE  ToldEndInv'
    BY RouteStays
  <2>1. BasicInv /\ EndInv
    BY DEF StreamInv, BasicInv
  <2>2. clientDialect = "chat" => FinishInv /\ FinishInv'
    BY RouteStays DEF StreamInv
  <2> QED  BY <2>1, <2>2, NextToldEnd
<1>2. StreamInv /\ (streamed => ToldEndInv) => CompleteStreamIsEnded
  BY DEF ToldEndInv, CompleteStreamIsEnded, handledInFull, endTold, translated, streamed, healthy,
         closingSent, final, StreamInv, BasicInv
<1> QED  BY <1>1, <1>2, InitToldEnd, StreamInvariant, PTL DEF Spec
=============================================================================
