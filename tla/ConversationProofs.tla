------------------------- MODULE ConversationProofs -------------------------
(***************************************************************************)
(* Proofs about Conversation: the types of its state, what the log keeps   *)
(* of an answer, that a backend is sent nothing beyond what its config     *)
(* says it can do, that the client reads the answer the model meant, and   *)
(* that the backend reads what the client's conversation says, shows and   *)
(* called, for any backends, settings, answers and lengths.                *)
(***************************************************************************)
EXTENDS Conversation, SequenceTheorems, TLAPS
-----------------------------------------------------------------------------
(* Bodies.  Their forms tell them apart.                                   *)

LEMMA BodiesDiffer ==
  NoBody.form = "none" /\ Empty.form = "empty" /\ Failed.form = "error"
<1>1. /\ \E d, x : NoBody = Body("none", FALSE, d, x)
      /\ \E d, x : Empty = Body("empty", FALSE, d, x)
      /\ \E d, x : Failed = Body("error", FALSE, d, x)
  BY Zenon DEF NoBody, Empty, Failed
<1>2. ASSUME NEW b, NEW form, \E d, x : b = Body(form, FALSE, d, x)
      PROVE  b.form = form
  BY <1>2 DEF Body
<1> QED  BY <1>1, <1>2, Zenon

isBody(b) ==
  \E form \in {"json", "malformed", "empty"} :
    \E gzip, d, a : b = Body(form, gzip, d, a)

\* What is logged of what the client receives.
keptInLog(received, logged) ==
  IF received # Empty
  THEN Plain(logged) = Plain(received) /\ (logged.gzip => received.gzip)
  ELSE logged = NoBody

LEMMA SameIsKept == \A b : b # Empty => keptInLog(b, b)
BY DEF keptInLog

LEMMA PlainIsKept ==
  \A form, gzip, d, a :
    LET b == Body(form, gzip, d, a) IN b # Empty => keptInLog(b, Plain(b))
<1> TAKE form, gzip, d, a
<1>1. /\ Plain(Body(form, gzip, d, a)) = Body(form, FALSE, d, a)
      /\ Plain(Body(form, FALSE, d, a)) = Body(form, FALSE, d, a)
  BY DEF Plain, Body
<1>2. Body(form, FALSE, d, a).gzip = FALSE
  BY DEF Body
<1> QED  BY <1>1, <1>2, Zenon DEF keptInLog

LEMMA AnswersWritten ==
  ASSUME NEW d, NEW from, NEW b, isBody(b), NEW result,
         result = writeProtocolResponse(d, from, b)
  PROVE  result.got # NoBody /\ keptInLog(result.got, result.log)
<1>1. PICK form \in {"json", "malformed", "empty"} :
        \E gzip, e, a : b = Body(form, gzip, e, a)
  BY DEF isBody
<1>2. b # NoBody /\ b.form = form
  <2>1. b.form = form
    BY <1>1 DEF Body
  <2> QED  BY <2>1, BodiesDiffer
<1>3. ASSUME NEW x, NEW y, NEW z
      PROVE  Body("json", x, y, z) # NoBody /\ Body("json", x, y, z) # Empty
  <2>1. Body("json", x, y, z).form = "json"
    BY DEF Body
  <2> QED  BY <2>1, BodiesDiffer
<1>4. \A x, y : delivered(x, y).got = x /\ delivered(x, y).log = y
  BY DEF delivered
<1>5. CASE b = Empty
  <2>1. result = delivered(Empty, NoBody)
    BY <1>5 DEF writeProtocolResponse
  <2>2. Empty # NoBody
    BY BodiesDiffer
  <2> QED  BY <1>4, <2>1, <2>2 DEF keptInLog
<1>6. CASE b # Empty
  <2>1. keptInLog(b, b) /\ keptInLog(b, Plain(b))
    BY <1>1, <1>6, SameIsKept, PlainIsKept
  <2>2. \A x, y : convertedNonStreamResponse(x, y, b).got # NoBody /\
                  keptInLog(convertedNonStreamResponse(x, y, b).got,
                            convertedNonStreamResponse(x, y, b).log)
    <3> TAKE x, y
    <3>1. CASE b.form # "json"
      <4>1. convertedNonStreamResponse(x, y, b) = delivered(b, Plain(b))
        BY <3>1 DEF convertedNonStreamResponse
      <4> QED  BY <1>2, <1>4, <2>1, <4>1
    <3>2. CASE b.form = "json"
      <4>1. PICK other : /\ other = Body("json", FALSE, x, convert(x, y, b.answer))
                          /\ convertedNonStreamResponse(x, y, b) = delivered(other, other)
        BY <3>2 DEF convertedNonStreamResponse
      <4>2. other # NoBody /\ other # Empty
        BY <1>3, <4>1
      <4> QED  BY <1>4, <4>1, <4>2, SameIsKept
    <3> QED  BY <3>1, <3>2
  <2>3. \/ result = delivered(b, b)
        \/ \E x, y : result = convertedNonStreamResponse(x, y, b)
    BY <1>6 DEF writeProtocolResponse, passthroughNonStreamResponse,
                handleNonStreamResponse, handleResponsesNonStreamResponse
  <2> QED  BY <1>2, <1>4, <2>1, <2>2, <2>3
<1> QED  BY <1>5, <1>6
-----------------------------------------------------------------------------
(* The stages of a request.                                                *)

LEMMA SentIsSent ==
  ASSUME NEW b, NEW u \in Dialects, NEW q
  PROVE  [backend |-> b, upstream |-> u, request |-> q] # NotSent
<1>1. NotSent.upstream \notin Dialects
  BY Zenon DEF NotSent, Dialects
<1>2. [backend |-> b, upstream |-> u, request |-> q].upstream = u
  OBVIOUS
<1> QED  BY <1>1, <1>2

LEMMA InitConversation == Init => ConversationTypeOK /\ AnswerLogged
<1> SUFFICES ASSUME Init PROVE ConversationTypeOK /\ AnswerLogged
  OBVIOUS
<1>1. /\ dialect \in Dialects /\ pool \in Pools /\ settings \in Settings
      /\ requests = 0 /\ phase = "writing" /\ tried = {} /\ sent = NotSent
      /\ body = NoBody /\ got = NoBody /\ log = NoBody
  BY DEF Init
<1>2. 0 \in 0..MaxRequests
  BY ConversationAssumption
<1>3. ~isSent
  BY <1>1 DEF isSent
<1> QED  BY <1>1, <1>2, <1>3 DEF ConversationTypeOK, AnswerLogged

LEMMA WritesKeepsTypes ==
  ASSUME ConversationTypeOK, canWrite, requests' = requests + 1, NEW messages,
         writes(messages)
  PROVE  ConversationTypeOK' /\ AnswerLogged'
<1>1. /\ phase' = "dispatching" /\ tried' = {} /\ sent' = NotSent
      /\ body' = NoBody /\ got' = NoBody /\ log' = NoBody
      /\ dialect' = dialect /\ pool' = pool /\ settings' = settings
  BY DEF writes
<1>2. requests' \in 0..MaxRequests
  BY ConversationAssumption DEF ConversationTypeOK, canWrite
<1>3. ~isSent'
  BY <1>1 DEF isSent
<1> QED  BY <1>1, <1>2, <1>3 DEF ConversationTypeOK, AnswerLogged

LEMMA NextConversation ==
  ConversationTypeOK /\ AnswerLogged /\ [Next]_vars => (ConversationTypeOK /\ AnswerLogged)'
<1> SUFFICES ASSUME ConversationTypeOK, AnswerLogged, [Next]_vars
             PROVE  (ConversationTypeOK /\ AnswerLogged)'
  OBVIOUS
<1>0. /\ dialect \in Dialects /\ pool \in Pools /\ settings \in Settings
      /\ requests \in 0..MaxRequests
      /\ phase \in {"writing", "dispatching", "sent", "received", "over"}
      /\ tried \subseteq Backends
      /\ isSent => sent.backend \in Backends /\ sent.upstream \in Dialects
      /\ phase = "sent" => isSent /\ sent.backend \notin tried
      /\ phase = "received" <=> body # NoBody
      /\ got # NoBody <=> phase \in {"received", "over"}
      /\ log # NoBody => phase = "received"
  BY DEF ConversationTypeOK
<1>1. ASSUME NEW form, ask(form) \/ answerCalls(form)
      PROVE  (ConversationTypeOK /\ AnswerLogged)'
  BY <1>1, WritesKeepsTypes DEF ask, answerCalls
<1>2. CASE reject \/ bodyBreaksOff
  <2>1. /\ phase \in {"dispatching", "sent"} /\ phase' = "over" /\ got' = Failed
        /\ dialect' = dialect /\ pool' = pool /\ settings' = settings
        /\ requests' = requests /\ tried' = tried /\ sent' = sent /\ body' = body
        /\ log' = log
    BY <1>2 DEF reject, bodyBreaksOff
  <2>2. Failed # NoBody
    BY BodiesDiffer
  <2>3. isSent' <=> isSent
    BY <2>1 DEF isSent
  <2> QED  BY <1>0, <2>1, <2>2, <2>3 DEF ConversationTypeOK, AnswerLogged
<1>3. ASSUME NEW b \in Backends, send(b)
      PROVE  (ConversationTypeOK /\ AnswerLogged)'
  <2>1. PICK q : sent' = [backend |-> b, upstream |-> pool[b].upstream, request |-> q]
    BY <1>3 DEF send
  <2>2. /\ phase = "dispatching" /\ b \notin tried /\ phase' = "sent" /\ got' = got
        /\ dialect' = dialect /\ pool' = pool /\ settings' = settings
        /\ requests' = requests /\ tried' = tried /\ body' = body /\ log' = log
    BY <1>3 DEF send, untried
  <2>3. pool[b].upstream \in Dialects
    BY <1>0, ConversationAssumption
  <2>4. isSent' /\ sent'.backend = b /\ sent'.upstream \in Dialects
    BY <2>1, <2>3, SentIsSent DEF isSent
  <2> QED  BY <1>0, <2>2, <2>4 DEF ConversationTypeOK, AnswerLogged
<1>4. CASE attemptFails
  <2>1. /\ phase = "sent" /\ phase' = "dispatching" /\ got' = got
        /\ dialect' = dialect /\ pool' = pool /\ settings' = settings
        /\ requests' = requests /\ tried' = tried \union {sent.backend} /\ sent' = sent
        /\ body' = body /\ log' = log
    BY <1>4 DEF attemptFails
  <2>2. isSent' <=> isSent
    BY <2>1 DEF isSent
  <2> QED  BY <1>0, <2>1, <2>2 DEF ConversationTypeOK, AnswerLogged
<1>5. ASSUME NEW b, NEW m, isBody(b), responds(b, m)
      PROVE  (ConversationTypeOK /\ AnswerLogged)'
  <2>1. PICK result : result = writeProtocolResponse(dialect, sent.upstream, b)
    OBVIOUS
  <2>2. /\ phase = "sent" /\ phase' = "received" /\ body' = b
        /\ got' = result.got /\ log' = result.log
        /\ dialect' = dialect /\ pool' = pool /\ settings' = settings
        /\ requests' = requests /\ tried' = tried /\ sent' = sent
    BY <1>5, <2>1 DEF responds
  <2>3. result.got # NoBody /\ keptInLog(result.got, result.log)
    BY <1>5, <2>1, AnswersWritten
  <2>4. b # NoBody
    <3>1. b.form \in {"json", "malformed", "empty"}
      BY <1>5 DEF isBody, Body
    <3> QED  BY <3>1, BodiesDiffer
  <2>5. isSent' <=> isSent
    BY <2>2 DEF isSent
  <2>6. ConversationTypeOK'
    BY <1>0, <2>2, <2>3, <2>4, <2>5 DEF ConversationTypeOK
  <2>7. AnswerLogged'
    BY <2>2, <2>3 DEF AnswerLogged, keptInLog
  <2> QED  BY <2>6, <2>7
<1>6. ASSUME NEW a, NEW gzip, answer(a, gzip)
      PROVE  \E b, m : isBody(b) /\ responds(b, m)
  BY <1>6 DEF answer, isBody
<1>7. ASSUME NEW gzip, answerUnreadable(gzip)
      PROVE  \E b, m : isBody(b) /\ responds(b, m)
  <2>1. PICK d, x : responds(Body("malformed", gzip, d, x), NoAnswer)
    BY <1>7, Zenon DEF answerUnreadable
  <2> QED  BY <2>1 DEF isBody
<1>8. CASE answerEmpty
  <2>1. isBody(Empty)
    <3>1. PICK d, x : Empty = Body("empty", FALSE, d, x)
      BY Zenon DEF Empty
    <3> QED  BY <3>1 DEF isBody
  <2>2. responds(Empty, NoAnswer)
    BY <1>8 DEF answerEmpty
  <2> QED  BY <1>5, <2>1, <2>2
<1>9. CASE UNCHANGED vars
  BY <1>9 DEF ConversationTypeOK, AnswerLogged, vars, isSent
<1> QED  BY <1>1, <1>2, <1>3, <1>4, <1>5, <1>6, <1>7, <1>8, <1>9 DEF Next

\* The types of the conversation's state, and what each stage of a request
\* has of it, in every reachable state.
THEOREM ConversationTypeCorrect == Spec => []ConversationTypeOK
<1> QED  BY InitConversation, NextConversation, PTL DEF Spec

\* Every answer the client received is in the log, decompressed if it was
\* looked into, and only those.
THEOREM LogHoldsAnswer == Spec => []AnswerLogged
<1> QED  BY InitConversation, NextConversation, PTL DEF Spec
-----------------------------------------------------------------------------
(* Sequences put together from others.                                     *)

\* What the codecs and the readers make of one element of a sequence that
\* they join, each under a name.
textIn(p) == IF p.type \in TextTypes THEN p.text ELSE <<>>
callIn(p) == IF p.type = "tool_call" THEN <<p.id>> ELSE <<>>
reasoningIn(p) == IF p.type = "reasoning" THEN <<p>> ELSE <<>>
textOut(p) ==
  CASE p.type \in {"text", "output_text"} /\ p.text # <<>> ->
         <<Part("output_text", p.text, None)>>
    [] p.type \in {"image", "file"} -> <<encodeRawOrFallbackPart(p, p.type)>>
    [] OTHER -> <<>>
itemOut(p) ==
  CASE p.type = "tool_call" -> <<CallItem(p.id)>>
    [] p.type = "reasoning" -> <<ReasoningItem(p.text)>>
    [] OTHER -> <<>>
blockOut(p) ==
  CASE p.type \in {"text", "output_text"} /\ p.text # <<>> ->
         <<Part("text", p.text, None)>>
    [] p.type = "image" -> <<encodeRawOrFallbackPart(p, "image")>>
    [] p.type = "file" -> <<encodeRawOrFallbackPart(p, "document")>>
    [] p.type = "tool_call" -> <<ToolUse(p.id)>>
    [] p.type = "reasoning" -> <<Thinking(p.text)>>
    [] OTHER -> <<>>
messageBlocks(m) == joined(m.content, LAMBDA p : blockOut(p))
blockIn(p) ==
  IF p.type = "thinking" THEN <<reasoningPart(p.text)>> ELSE decodeAnthropicBlock(p)
thinkingOfItem(i) == IF i.type = "reasoning" THEN i.text ELSE <<>>
textOfItem(i) == encodeTextContent(i.content.parts)
callOfItem(i) == IF i.type = "function_call" THEN <<i.id>> ELSE <<>>
thinkingOfBlock(p) == IF p.type = "thinking" THEN p.text ELSE <<>>
callOfBlock(p) == IF p.type = "tool_use" THEN <<p.id>> ELSE <<>>
untaggedIn(p) == IF p > 0 THEN <<p>> ELSE <<>>
taggedIn(p) == IF p < 0 THEN <<-p>> ELSE <<>>

\* A client's message in the form between; none of the system's.
fromChat(m) ==
  IF m.role \in SystemRoles THEN <<>>
  ELSE <<IRMessage(m.role, decodeGenericContent(m.content) \o each(m.calls, toolCall),
                   m.callId)>>
\* The system's instructions in a chat message.
systemOf(m) ==
  IF m.role \in SystemRoles
  THEN encodeTextContent(decodeGenericContent(m.content) \o each(m.calls, toolCall))
  ELSE <<>>
\* Whether textLost excepts a message of d on its way to u.
lostTo(d, u, m) ==
  CASE d = "chat" -> FALSE
    [] d = "responses" ->
         \/ m.type = Absent
         \/ m.type = "message" /\ ~m.content.list
         \/ m.type = "message" /\ m.role = "assistant" /\ u = "anthropic"
    [] d = "anthropic" ->
         \/ ~m.content.list
         \/ \E i \in DOMAIN m.content.parts : m.content.parts[i].type = "tool_result"
keptOf(d, u, m) == IF lostTo(d, u, m) THEN <<>> ELSE <<m>>
ofKind(kind, e) == IF e.kind \in {kind} THEN <<e>> ELSE <<>>
\* A part in the words of one dialect, and of an assistant's message.
partOut(textType, imageType, fileType, p) ==
  CASE p.type \in TextTypes -> <<Part(textType, p.text, None)>>
    [] p.type = "image" -> <<encodeRawOrFallbackPart(p, imageType)>>
    [] p.type = "file" -> <<encodeRawOrFallbackPart(p, fileType)>>
    [] OTHER -> <<>>
assistantPartOut(p) ==
  CASE p.type = "text" -> <<Part("text", p.text, None)>>
    [] p.type = "image" -> <<encodeRawOrFallbackPart(p, "image")>>
    [] p.type = "file" -> <<encodeRawOrFallbackPart(p, "document")>>
    [] p.type = "tool_call" -> <<ToolUse(p.id)>>
    [] OTHER -> <<>>
resultBlock(p) == IF p.type = "tool_result" THEN <<p>> ELSE <<>>

through(name, e) ==
  CASE name = "text" -> textIn(e)
    [] name = "call" -> callIn(e)
    [] name = "reasoning" -> reasoningIn(e)
    [] name = "textOut" -> textOut(e)
    [] name = "itemsOut" -> itemOut(e)
    [] name = "blockOut" -> blockOut(e)
    [] name = "messageBlocks" -> messageBlocks(e)
    [] name = "messageOut" -> encodeResponsesOutputMessage(e)
    [] name = "blockIn" -> blockIn(e)
    [] name = "itemIn" -> decodeResponsesOutputItem(e)
    [] name = "itemThinking" -> thinkingOfItem(e)
    [] name = "itemText" -> textOfItem(e)
    [] name = "itemCalls" -> callOfItem(e)
    [] name = "blockThinking" -> thinkingOfBlock(e)
    [] name = "blockCalls" -> callOfBlock(e)
    [] name = "untagged" -> untaggedIn(e)
    [] name = "tagged" -> taggedIn(e)
    [] name = "fromChat" -> fromChat(e)
    [] name = "systemOf" -> systemOf(e)
    [] name = "fromResponses" -> decodeResponsesItem(e)
    [] name = "fromAnthropic" -> <<decodeAnthropicMessage(e)>>
    [] name = "toChat" -> <<encodeOpenAIChatMessage(e)>>
    [] name = "toResponses" -> encodeResponsesMessage(e)
    [] name = "toAnthropic" -> <<encodeAnthropicMessage(e)>>
    [] name = "readChat" -> readMessage("chat", e)
    [] name = "readResponses" -> readMessage("responses", e)
    [] name = "readAnthropic" -> readMessage("anthropic", e)
    [] name = "allOfChat" -> keptOf("chat", "chat", e)
    [] name = "someOfResponses" -> keptOf("responses", "chat", e)
    [] name = "fewerOfResponses" -> keptOf("responses", "anthropic", e)
    [] name = "someOfAnthropic" -> keptOf("anthropic", "chat", e)
    [] name = "said" -> ofKind("said", e)
    [] name = "shown" -> ofKind("shown", e)
    [] name = "called" -> ofKind("call", e)
    [] name = "returned" -> ofKind("result", e)
    [] name = "readUser" -> readPart("user", e)
    [] name = "readAssistant" -> readPart("assistant", e)
    [] name = "readSystem" -> readPart("system", e)
    [] name = "chatPart" -> partOut("text", "image_url", "input_file", e)
    [] name = "responsesPart" -> partOut("input_text", "input_image", "input_file", e)
    [] name = "anthropicPart" -> partOut("text", "image", "document", e)
    [] name = "assistantPart" -> assistantPartOut(e)
    [] name = "block" -> decodeAnthropicBlock(e)
    [] name = "resultBlock" -> resultBlock(e)
Joins == INSTANCE FoldInduction WITH Op <- through

LEMMA ThroughPart ==
  \A e : /\ through("text", e) = textIn(e) /\ through("call", e) = callIn(e)
         /\ through("reasoning", e) = reasoningIn(e)
         /\ through("textOut", e) = textOut(e) /\ through("itemsOut", e) = itemOut(e)
         /\ through("blockOut", e) = blockOut(e) /\ through("blockIn", e) = blockIn(e)
BY DEF through
LEMMA ThroughAnswer ==
  \A e : /\ through("messageBlocks", e) = messageBlocks(e)
         /\ through("messageOut", e) = encodeResponsesOutputMessage(e)
         /\ through("itemIn", e) = decodeResponsesOutputItem(e)
         /\ through("itemThinking", e) = thinkingOfItem(e)
         /\ through("itemText", e) = textOfItem(e)
         /\ through("itemCalls", e) = callOfItem(e)
         /\ through("blockThinking", e) = thinkingOfBlock(e)
         /\ through("blockCalls", e) = callOfBlock(e)
         /\ through("untagged", e) = untaggedIn(e) /\ through("tagged", e) = taggedIn(e)
BY DEF through
LEMMA ThroughMessage ==
  \A e : /\ through("fromChat", e) = fromChat(e)
         /\ through("systemOf", e) = systemOf(e)
         /\ through("fromResponses", e) = decodeResponsesItem(e)
         /\ through("fromAnthropic", e) = <<decodeAnthropicMessage(e)>>
         /\ through("toChat", e) = <<encodeOpenAIChatMessage(e)>>
         /\ through("toResponses", e) = encodeResponsesMessage(e)
         /\ through("toAnthropic", e) = <<encodeAnthropicMessage(e)>>
         /\ through("readChat", e) = readMessage("chat", e)
         /\ through("readResponses", e) = readMessage("responses", e)
         /\ through("readAnthropic", e) = readMessage("anthropic", e)
BY DEF through
LEMMA ThroughKept ==
  \A e : /\ through("allOfChat", e) = keptOf("chat", "chat", e)
         /\ through("someOfResponses", e) = keptOf("responses", "chat", e)
         /\ through("fewerOfResponses", e) = keptOf("responses", "anthropic", e)
         /\ through("someOfAnthropic", e) = keptOf("anthropic", "chat", e)
BY Zenon DEF through
LEMMA ThroughKinds ==
  \A e : /\ through("said", e) = ofKind("said", e)
         /\ through("shown", e) = ofKind("shown", e)
         /\ through("called", e) = ofKind("call", e)
         /\ through("returned", e) = ofKind("result", e)
         /\ through("readUser", e) = readPart("user", e)
         /\ through("readAssistant", e) = readPart("assistant", e)
         /\ through("readSystem", e) = readPart("system", e)
BY DEF through
LEMMA ThroughRequestPart ==
  \A e : /\ through("chatPart", e) = partOut("text", "image_url", "input_file", e)
         /\ through("responsesPart", e) = partOut("input_text", "input_image", "input_file", e)
         /\ through("anthropicPart", e) = partOut("text", "image", "document", e)
         /\ through("assistantPart", e) = assistantPartOut(e)
         /\ through("block", e) = decodeAnthropicBlock(e)
         /\ through("resultBlock", e) = resultBlock(e)
BY DEF through

LEMMA JoinOfEach ==
  \A name, s : Joins!join(name, s) = FlattenSeq([i \in DOMAIN s |-> through(name, s[i])])
BY Zenon DEF Joins!join, Joins!FlattenSeq, FlattenSeq

isSeq(s) == \E S : s \in Seq(S)

LEMMA ShortSeqs == isSeq(<<>>) /\ \A x : isSeq(<<x>>)
<1>1. <<>> \in Seq({})
  OBVIOUS
<1>2. \A x : <<x>> \in Seq({x})
  OBVIOUS
<1> QED  BY <1>1, <1>2 DEF isSeq

\* A sequence's elements through an operator.
LEMMA EachIsSeq ==
  ASSUME NEW s, isSeq(s), NEW t, t = [i \in DOMAIN s |-> t[i]]
  PROVE  isSeq(t)
<1>1. PICK S : s \in Seq(S)
  BY DEF isSeq
<1>2. Len(s) \in Nat /\ DOMAIN s = 1..Len(s)
  BY <1>1
<1> DEFINE E == {t[i] : i \in DOMAIN s}
<1>3. t \in [1..Len(s) -> E]
  BY <1>2
<1> HIDE DEF E
<1>4. t \in Seq(E)
  BY <1>2, <1>3
<1> QED  BY <1>4 DEF isSeq

\* What is joined from the results of an operator on a sequence's elements.
LEMMA JoinedElements ==
  ASSUME NEW s, isSeq(s), NEW t, t = [i \in DOMAIN s |-> t[i]],
         \A i \in DOMAIN s : isSeq(t[i])
  PROVE  /\ isSeq(FlattenSeq(t))
         /\ \A k \in DOMAIN FlattenSeq(t) :
              \E i \in DOMAIN s : \E j \in DOMAIN t[i] : FlattenSeq(t)[k] = t[i][j]
<1>1. PICK T : t \in Seq(T)
  BY EachIsSeq DEF isSeq
<1>2. DOMAIN t = DOMAIN s
  OBVIOUS
<1>3. \A i \in DOMAIN t : \E S : t[i] \in Seq(S)
  BY <1>2 DEF isSeq
<1>4. Joins!joins(t, FlattenSeq(t))
  <2>1. Joins!joins(t, Joins!FlattenSeq(t))
    BY <1>1, <1>3, Joins!FlattenElements
  <2>2. Joins!FlattenSeq(t) = FlattenSeq(t)
    BY Zenon DEF Joins!FlattenSeq, FlattenSeq
  <2> QED  BY <2>1, <2>2
<1> QED  BY <1>2, <1>4 DEF isSeq, Joins!joins

LEMMA ConcatElements ==
  ASSUME NEW s, NEW t, isSeq(s), isSeq(t)
  PROVE  /\ isSeq(s \o t)
         /\ \A k \in DOMAIN (s \o t) : \/ \E i \in DOMAIN s : (s \o t)[k] = s[i]
                                       \/ \E i \in DOMAIN t : (s \o t)[k] = t[i]
<1>1. PICK S, T : s \in Seq(S) /\ t \in Seq(T)
  BY DEF isSeq
<1>2. s \in Seq(S \union T) /\ t \in Seq(S \union T)
  BY <1>1
<1>3. s \o t \in Seq(S \union T)
  BY <1>2
<1>4. ASSUME NEW k \in DOMAIN (s \o t)
      PROVE  \/ \E i \in DOMAIN s : (s \o t)[k] = s[i]
             \/ \E i \in DOMAIN t : (s \o t)[k] = t[i]
  <2>1. /\ Len(s) \in Nat /\ Len(t) \in Nat /\ k \in 1..Len(s) + Len(t)
        /\ DOMAIN s = 1..Len(s) /\ DOMAIN t = 1..Len(t)
    BY <1>2
  <2>2. CASE k <= Len(s)
    <3>1. k \in DOMAIN s /\ (s \o t)[k] = s[k]
      BY <1>2, <2>1, <2>2
    <3> QED  BY <3>1
  <2>3. CASE k > Len(s)
    <3>1. k - Len(s) \in DOMAIN t /\ (s \o t)[k] = t[k - Len(s)]
      BY <1>2, <2>1, <2>3
    <3> QED  BY <3>1
  <2> QED  BY <2>1, <2>2, <2>3
<1> QED  BY <1>3, <1>4 DEF isSeq
-----------------------------------------------------------------------------
(* Messages without media, and how they are read.                          *)

MediaTypes == ImageTypes \union FileTypes

plain(p) == p.type \notin MediaTypes /\ (p.type \in TextTypes => isSeq(p.text))
plainParts(parts) == isSeq(parts) /\ \A i \in DOMAIN parts : plain(parts[i])
plainMessage(d, m) == plainParts(m.content.parts) /\ (d = "chat" => isSeq(m.calls))
plainMessages(d, ms) == isSeq(ms) /\ \A i \in DOMAIN ms : plainMessage(d, ms[i])

\* It shows nothing.
quiet(entries) ==
  isSeq(entries) /\ \A i \in DOMAIN entries : entries[i].kind # "shown"

LEMMA QuietEntry ==
  ASSUME NEW kind, kind # "shown", NEW side, NEW id, NEW text
  PROVE  quiet(<<Entry(kind, side, id, text)>>)
<1>1. Entry(kind, side, id, text).kind # "shown"
  BY DEF Entry
<1> QED  BY <1>1, ShortSeqs DEF quiet

LEMMA QuietNothing == quiet(<<>>)
BY ShortSeqs DEF quiet

LEMMA QuietConcat == ASSUME NEW s, NEW t, quiet(s), quiet(t) PROVE quiet(s \o t)
<1>1. isSeq(s) /\ isSeq(t)
  BY DEF quiet
<1>2. /\ isSeq(s \o t)
      /\ \A k \in DOMAIN (s \o t) : \/ \E i \in DOMAIN s : (s \o t)[k] = s[i]
                                    \/ \E i \in DOMAIN t : (s \o t)[k] = t[i]
  BY <1>1, ConcatElements
<1> QED  BY <1>2 DEF quiet

LEMMA QuietJoined ==
  ASSUME NEW s, isSeq(s), NEW t, t = [i \in DOMAIN s |-> t[i]],
         \A i \in DOMAIN s : quiet(t[i])
  PROVE  quiet(FlattenSeq(t))
<1>1. \A i \in DOMAIN s : isSeq(t[i])
  BY DEF quiet
<1> QED  BY <1>1, JoinedElements DEF quiet

LEMMA PartIsQuiet == ASSUME NEW side, NEW p, plain(p) PROVE quiet(readPart(side, p))
<1>1. CASE p.type \in TextTypes
  <2> DEFINE t == [i \in DOMAIN p.text |-> Entry("said", side, p.text[i], <<>>)]
  <2>1. readPart(side, p) = t
    BY <1>1 DEF readPart, said, each, TextTypes, ImageTypes, FileTypes
  <2>2. isSeq(t)
    BY <1>1, EachIsSeq DEF plain
  <2>3. \A i \in DOMAIN t : t[i].kind # "shown"
    BY DEF Entry
  <2> QED  BY <2>1, <2>2, <2>3 DEF quiet
<1>2. CASE p.type \notin TextTypes
  <2>1. \/ readPart(side, p) = <<Entry("call", side, p.id, <<>>)>>
        \/ readPart(side, p) = <<Entry("result", side, p.id, p.text)>>
        \/ readPart(side, p) = <<>>
    BY <1>2 DEF readPart, plain, MediaTypes
  <2> QED  BY <2>1, QuietEntry, QuietNothing
<1> QED  BY <1>1, <1>2

LEMMA ContentIsQuiet ==
  ASSUME NEW side, NEW content, plainParts(content.parts)
  PROVE  quiet(readContent(side, content))
<1> DEFINE t == [i \in DOMAIN content.parts |-> readPart(side, content.parts[i])]
<1>1. readContent(side, content) = FlattenSeq(t)
  BY DEF readContent, joined, each
<1>2. \A i \in DOMAIN content.parts : quiet(t[i])
  BY PartIsQuiet DEF plainParts
<1> QED  BY <1>1, <1>2, QuietJoined DEF plainParts

LEMMA CallsAreQuiet == ASSUME NEW ids, isSeq(ids) PROVE quiet(readCalls(ids))
<1> DEFINE t == [i \in DOMAIN ids |-> Entry("call", "assistant", ids[i], <<>>)]
<1>1. readCalls(ids) = t
  BY DEF readCalls, each
<1>2. isSeq(t)
  BY EachIsSeq
<1>3. \A i \in DOMAIN t : t[i].kind # "shown"
  BY DEF Entry
<1> QED  BY <1>1, <1>2, <1>3 DEF quiet

LEMMA MessageIsQuiet ==
  ASSUME NEW d \in Dialects, NEW m, plainMessage(d, m)
  PROVE  quiet(readMessage(d, m))
<1>1. \A side : quiet(readContent(side, m.content))
  BY ContentIsQuiet DEF plainMessage
<1>2. CASE d = "chat"
  <2>1. quiet(readCalls(m.calls))
    BY <1>2, CallsAreQuiet DEF plainMessage
  <2>2. quiet(readChatMessage(m))
    BY <1>1, <2>1, QuietEntry, QuietConcat DEF readChatMessage
  <2> QED  BY <1>2, <2>2 DEF readMessage
<1>3. CASE d = "responses"
  <2>1. \A id : quiet(readCalls(<<id>>))
    BY CallsAreQuiet, ShortSeqs
  <2>2. quiet(readItem(m))
    BY <1>1, <2>1, QuietEntry, QuietNothing DEF readItem
  <2> QED  BY <1>3, <2>2 DEF readMessage
<1>4. CASE d = "anthropic"
  BY <1>1, <1>4 DEF readMessage
<1> QED  BY <1>2, <1>3, <1>4 DEF Dialects

\* A request without media shows nothing.
LEMMA RequestIsQuiet ==
  ASSUME NEW d \in Dialects, NEW q, plainParts(q.system.parts),
         plainMessages(d, q.messages)
  PROVE  quiet(readRequest(d, q))
<1> DEFINE t == [i \in DOMAIN q.messages |-> readMessage(d, q.messages[i])]
<1>1. readRequest(d, q) = readContent("system", q.system) \o FlattenSeq(t)
  BY DEF readRequest, joined, each
<1>2. \A i \in DOMAIN q.messages : quiet(t[i])
  BY MessageIsQuiet DEF plainMessages
<1>3. quiet(FlattenSeq(t))
  <2>1. isSeq(q.messages)
    BY DEF plainMessages
  <2> QED  BY <1>2, <2>1, QuietJoined
<1>4. quiet(readContent("system", q.system))
  BY ContentIsQuiet
<1> QED  BY <1>1, <1>3, <1>4, QuietConcat
-----------------------------------------------------------------------------
(* Parts without media stay so in the form between.                        *)

plainIRs(ms) == isSeq(ms) /\ \A i \in DOMAIN ms : plainParts(ms[i].content)

LEMMA PlainShort == plainParts(<<>>) /\ \A p : plain(p) => plainParts(<<p>>)
BY ShortSeqs DEF plainParts

LEMMA PlainConcat ==
  ASSUME NEW s, NEW t, plainParts(s), plainParts(t) PROVE plainParts(s \o t)
<1>1. isSeq(s) /\ isSeq(t)
  BY DEF plainParts
<1>2. /\ isSeq(s \o t)
      /\ \A k \in DOMAIN (s \o t) : \/ \E i \in DOMAIN s : (s \o t)[k] = s[i]
                                    \/ \E i \in DOMAIN t : (s \o t)[k] = t[i]
  BY <1>1, ConcatElements
<1> QED  BY <1>2 DEF plainParts

LEMMA PlainJoined ==
  ASSUME NEW s, isSeq(s), NEW t, t = [i \in DOMAIN s |-> t[i]],
         \A i \in DOMAIN s : plainParts(t[i])
  PROVE  plainParts(FlattenSeq(t))
<1>1. \A i \in DOMAIN s : isSeq(t[i])
  BY DEF plainParts
<1> QED  BY <1>1, JoinedElements DEF plainParts

LEMMA PlainPart ==
  ASSUME NEW text, NEW id, NEW type
  PROVE  /\ type \notin MediaTypes /\ (type \in TextTypes => isSeq(text)) =>
              plain(Part(type, text, id)) /\ \A raw : plain(IRPart(type, text, id, raw))
         /\ plain(toolCall(id)) /\ plain(toolResult(text)) /\ plain(reasoningPart(text))
<1>1. Part(type, text, id).type = type /\ Part(type, text, id).text = text
  BY DEF Part
<1>2. \A ty, raw : /\ IRPart(ty, text, id, raw).type = ty
                   /\ IRPart(ty, text, id, raw).text = text
  BY DEF IRPart
<1>3. \A ty \in {"tool_call", "tool_result", "reasoning"} :
        ty \notin MediaTypes \union TextTypes
  BY DEF MediaTypes, ImageTypes, FileTypes, TextTypes
<1>4. toolCall(id).type = "tool_call"
  BY DEF toolCall, IRPart
<1>5. toolResult(text).type = "tool_result"
  BY DEF toolResult, IRPart
<1>6. reasoningPart(text).type = "reasoning"
  BY DEF reasoningPart, IRPart
<1> QED  BY <1>1, <1>2, <1>3, <1>4, <1>5, <1>6 DEF plain

LEMMA PlainDecoded ==
  ASSUME NEW content, plainParts(content.parts)
  PROVE  plainParts(decodeGenericContent(content)) /\ plainParts(listContent(content))
<1> DEFINE t == [i \in DOMAIN content.parts |-> fromRaw(content.parts[i])]
<1>1. decodeGenericContent(content) = t
  BY DEF decodeGenericContent, each
<1>2. isSeq(t)
  BY EachIsSeq DEF plainParts
<1>3. ASSUME NEW p, plain(p) PROVE plain(fromRaw(p))
  <2>1. normalizeIRPartType(p.type) = p.type
    BY <1>3 DEF plain, MediaTypes, normalizeIRPartType
  <2>2. fromRaw(p) = IRPart(p.type, p.text, p.id, p.type)
    BY <2>1 DEF fromRaw
  <2> QED  BY <1>3, <2>2, PlainPart DEF plain
<1>4. plainParts(t)
  BY <1>2, <1>3 DEF plainParts
<1> QED  BY <1>1, <1>4, PlainShort DEF listContent

LEMMA PlainCalls ==
  ASSUME NEW ids, isSeq(ids) PROVE plainParts(each(ids, toolCall))
<1> DEFINE t == [i \in DOMAIN ids |-> toolCall(ids[i])]
<1>1. each(ids, toolCall) = t
  BY DEF each
<1>2. isSeq(t)
  BY EachIsSeq
<1> QED  BY <1>1, <1>2, PlainPart DEF plainParts

LEMMA TextIsSeq ==
  ASSUME NEW parts, plainParts(parts) PROVE isSeq(encodeTextContent(parts))
<1> DEFINE t == [i \in DOMAIN parts |->
                   IF parts[i].type \in TextTypes THEN parts[i].text ELSE <<>>]
<1>1. encodeTextContent(parts) = FlattenSeq(t)
  BY DEF encodeTextContent, joined, each
<1>2. \A i \in DOMAIN parts : isSeq(t[i])
  BY ShortSeqs DEF plainParts, plain
<1> QED  BY <1>1, <1>2, JoinedElements DEF plainParts

LEMMA CallsAreSeq ==
  ASSUME NEW parts, isSeq(parts) PROVE isSeq(encodeToolCalls(parts))
<1> DEFINE t == [i \in DOMAIN parts |->
                   IF parts[i].type = "tool_call" THEN <<parts[i].id>> ELSE <<>>]
<1>1. encodeToolCalls(parts) = FlattenSeq(t)
  BY DEF encodeToolCalls, joined, each
<1>2. \A i \in DOMAIN parts : isSeq(t[i])
  BY ShortSeqs
<1> QED  BY <1>1, <1>2, JoinedElements, ZenonT(30)

LEMMA PlainString ==
  ASSUME NEW text, isSeq(text) PROVE plainParts(String(text).parts)
<1>1. String(text).parts = <<Part("text", text, None)>>
  BY DEF String
<1>2. "text" \notin MediaTypes
  BY DEF MediaTypes, ImageTypes, FileTypes
<1> QED  BY <1>1, <1>2, PlainPart, PlainShort

LEMMA ListParts == \A parts : List(parts).parts = parts
BY DEF List

\* What is taken for an image or a file is not without media.
LEMMA PlainTypes ==
  ASSUME NEW p, plain(p) PROVE p.type # "image" /\ p.type # "file"
BY DEF plain, MediaTypes, ImageTypes, FileTypes

LEMMA PlainEncoded ==
  ASSUME NEW parts, plainParts(parts)
  PROVE  /\ plainParts(encodeOpenAIContent(parts).parts)
         /\ plainParts(encodeResponsesContent(parts))
         /\ plainParts(encodeAnthropicContentParts(parts))
         /\ plainParts(encodeAnthropicAssistant(parts))
<1>1. plainParts(encodeOpenAIContent(parts).parts)
  <2>1. ~hasNonTextParts(parts)
    BY PlainTypes DEF hasNonTextParts, plainParts
  <2>2. encodeOpenAIContent(parts) = String(encodeTextContent(parts))
    BY <2>1 DEF encodeOpenAIContent
  <2> QED  BY <2>2, TextIsSeq, PlainString
<1>2. ASSUME NEW textType \in {"text", "input_text"}, NEW imageType, NEW fileType
      PROVE  plainParts(encodeContent(parts, textType, imageType, fileType))
  <2> DEFINE t == [i \in DOMAIN parts |->
        CASE parts[i].type \in TextTypes -> <<Part(textType, parts[i].text, None)>>
          [] parts[i].type = "image" -> <<encodeRawOrFallbackPart(parts[i], imageType)>>
          [] parts[i].type = "file" -> <<encodeRawOrFallbackPart(parts[i], fileType)>>
          [] OTHER -> <<>>]
  <2>1. encodeContent(parts, textType, imageType, fileType) = FlattenSeq(t)
    BY DEF encodeContent, joined, each
  <2>2. textType \notin MediaTypes
    BY DEF MediaTypes, ImageTypes, FileTypes
  <2>3. ASSUME NEW i \in DOMAIN parts PROVE plainParts(t[i])
    <3>1. plain(parts[i])
      BY DEF plainParts
    <3>2. CASE parts[i].type \in TextTypes
      <4>1. t[i] = <<Part(textType, parts[i].text, None)>>
        BY <3>2 DEF TextTypes
      <4>2. isSeq(parts[i].text)
        BY <3>1, <3>2 DEF plain
      <4> QED  BY <2>2, <4>1, <4>2, PlainPart, PlainShort
    <3>3. CASE parts[i].type \notin TextTypes
      <4>1. t[i] = <<>>
        BY <3>1, <3>3, PlainTypes
      <4> QED  BY <4>1, PlainShort
    <3> QED  BY <3>2, <3>3
  <2>4. isSeq(parts)
    BY DEF plainParts
  <2>5. PICK u : u = t
    OBVIOUS
  <2>6. u = [i \in DOMAIN parts |-> u[i]] /\ \A i \in DOMAIN parts : plainParts(u[i])
    BY <2>3, <2>5
  <2>7. encodeContent(parts, textType, imageType, fileType) = FlattenSeq(u)
    BY <2>1, <2>5
  <2> HIDE DEF t
  <2> QED  BY <2>4, <2>6, <2>7, PlainJoined
<1>3. plainParts(encodeAnthropicAssistant(parts))
  <2> DEFINE t == [i \in DOMAIN parts |->
        CASE parts[i].type = "text" -> <<Part("text", parts[i].text, None)>>
          [] parts[i].type = "image" -> <<encodeRawOrFallbackPart(parts[i], "image")>>
          [] parts[i].type = "file" -> <<encodeRawOrFallbackPart(parts[i], "document")>>
          [] parts[i].type = "tool_call" -> <<ToolUse(parts[i].id)>>
          [] OTHER -> <<>>]
  <2>1. encodeAnthropicAssistant(parts) = FlattenSeq(t)
    BY DEF encodeAnthropicAssistant, joined, each
  <2>2. /\ "text" \notin MediaTypes /\ "text" \in TextTypes
        /\ "tool_use" \notin MediaTypes /\ "tool_use" \notin TextTypes
    BY DEF MediaTypes, ImageTypes, FileTypes, TextTypes
  <2>3. ASSUME NEW i \in DOMAIN parts PROVE plainParts(t[i])
    <3>1. plain(parts[i])
      BY DEF plainParts
    <3>2. \/ t[i] = <<Part("text", parts[i].text, None)>> /\ parts[i].type = "text"
          \/ t[i] = <<ToolUse(parts[i].id)>>
          \/ t[i] = <<>>
      BY <3>1, PlainTypes
    <3>3. \A id : plain(ToolUse(id))
      BY <2>2, PlainPart DEF ToolUse
    <3>4. parts[i].type = "text" => plain(Part("text", parts[i].text, None))
      BY <2>2, <3>1, PlainPart DEF plain
    <3> QED  BY <3>2, <3>3, <3>4, PlainShort
  <2>4. isSeq(parts)
    BY DEF plainParts
  <2> QED  BY <2>1, <2>3, <2>4, PlainJoined
<1> QED  BY <1>1, <1>2, <1>3 DEF encodeResponsesContent, encodeAnthropicContentParts
-----------------------------------------------------------------------------
(* Requests without media stay so in every dialect.                        *)

RequestFields == {"system", "messages", "tools", "choice", "parallel", "schema",
                  "reasoning", "maxTokens"}
isRequest(q) == RequestFields \subseteq DOMAIN q

plainRequest(d, q) == plainParts(q.system.parts) /\ plainMessages(d, q.messages)
plainIR(ir) == isSeq(ir.system) /\ plainIRs(ir.messages)

\* The fields a codec writes, and those it leaves.
rewritten(q, x, y, z) == [q EXCEPT !.system = x, !.messages = y, !.tools = z]
leftAlone(r, q) ==
  r.schema = q.schema /\ r.reasoning = q.reasoning /\ r.maxTokens = q.maxTokens
isRewritten(r, q, x, y, z) ==
  /\ isRequest(r) /\ r.system = x /\ r.messages = y /\ r.tools = z
  /\ r.choice = q.choice /\ r.parallel = q.parallel /\ leftAlone(r, q)

LEMMA WrittenFields ==
  ASSUME NEW q, isRequest(q), NEW x, NEW y, NEW z
  PROVE  isRewritten(rewritten(q, x, y, z), q, x, y, z)
<1>1. PICK r : r = rewritten(q, x, y, z)
  OBVIOUS
<1>2. /\ isRequest(r) /\ r.system = x /\ r.messages = y /\ r.tools = z
      /\ r.choice = q.choice /\ r.parallel = q.parallel /\ r.schema = q.schema
      /\ r.reasoning = q.reasoning /\ r.maxTokens = q.maxTokens
  BY <1>1 DEF rewritten, isRequest, RequestFields
<1> QED  BY <1>1, <1>2 DEF isRewritten, leftAlone

isConfigured(r, q, hadTools) ==
  /\ isRequest(r) /\ r.system = q.system /\ r.messages = q.messages
  /\ r.tools = q.tools /\ leftAlone(r, q)
  /\ IF hadTools /\ q.tools = {} THEN r.choice = NoChoice /\ r.parallel = "absent"
     ELSE r.choice = q.choice /\ r.parallel = q.parallel

LEMMA ToolConfigFields ==
  ASSUME NEW q, isRequest(q), NEW hadTools
  PROVE  isConfigured(normalizeIRToolConfig(q, hadTools), q, hadTools)
<1>0. PICK r : r = normalizeIRToolConfig(q, hadTools)
  OBVIOUS
<1>1. CASE hadTools /\ q.tools = {}
  <2>1. r = [q EXCEPT !.choice = NoChoice, !.parallel = "absent"]
    BY <1>0, <1>1 DEF normalizeIRToolConfig
  <2>2. /\ isRequest(r) /\ r.system = q.system /\ r.messages = q.messages
        /\ r.tools = q.tools /\ r.schema = q.schema /\ r.reasoning = q.reasoning
        /\ r.maxTokens = q.maxTokens /\ r.choice = NoChoice /\ r.parallel = "absent"
    BY <2>1 DEF isRequest, RequestFields
  <2> QED  BY <1>0, <1>1, <2>2 DEF isConfigured, leftAlone
<1>2. CASE ~(hadTools /\ q.tools = {})
  <2>1. r = q
    BY <1>0, <1>2 DEF normalizeIRToolConfig
  <2> QED  BY <1>0, <1>2, <2>1 DEF isConfigured, leftAlone
<1> QED  BY <1>1, <1>2

LEMMA IRMessageFields ==
  \A role, content, id : /\ IRMessage(role, content, id).role = role
                         /\ IRMessage(role, content, id).content = content
                         /\ IRMessage(role, content, id).callId = id
BY DEF IRMessage

LEMMA ChatDecoded ==
  ASSUME NEW ms, plainMessages("chat", ms)
  PROVE  LET split == splitSystemInstruction(decodeOpenAIChatMessages(ms))
         IN isSeq(split.system) /\ plainIRs(split.others)
<1> DEFINE decoded(m) == IRMessage(m.role, decodeGenericContent(m.content)
                                             \o each(m.calls, toolCall), m.callId)
           irs == [i \in DOMAIN ms |-> decoded(ms[i])]
           texts == [i \in DOMAIN irs |->
                       IF irs[i].role \in SystemRoles
                       THEN encodeTextContent(irs[i].content) ELSE <<>>]
           others == [i \in DOMAIN irs |->
                        IF irs[i].role \in SystemRoles THEN <<>> ELSE <<irs[i]>>]
<1>1. decodeOpenAIChatMessages(ms) = irs
  BY DEF decodeOpenAIChatMessages, each
<1>2. plainIRs(irs)
  <2>1. ASSUME NEW i \in DOMAIN ms PROVE plainParts(irs[i].content)
    <3>1. plainParts(ms[i].content.parts) /\ isSeq(ms[i].calls)
      BY DEF plainMessages, plainMessage
    <3>2. plainParts(decodeGenericContent(ms[i].content) \o each(ms[i].calls, toolCall))
      BY <3>1, PlainDecoded, PlainCalls, PlainConcat
    <3> QED  BY <3>2, IRMessageFields
  <2>2. isSeq(irs)
    <3>1. isSeq(ms)
      BY DEF plainMessages
    <3> HIDE DEF decoded
    <3> QED  BY <3>1, EachIsSeq
  <2> QED  BY <2>1, <2>2 DEF plainIRs
<1> HIDE DEF irs
<1>3. splitSystemInstruction(irs).system = FlattenSeq(texts)
  BY DEF splitSystemInstruction, joined, each
<1>4. splitSystemInstruction(irs).others = FlattenSeq(others)
  BY DEF splitSystemInstruction, joined, each
<1>5. isSeq(FlattenSeq(texts))
  <2>1. \A i \in DOMAIN irs : isSeq(texts[i])
    BY <1>2, TextIsSeq, ShortSeqs DEF plainIRs
  <2> QED  BY <1>2, <2>1, JoinedElements DEF plainIRs
<1>6. plainIRs(FlattenSeq(others))
  <2>1. \A i \in DOMAIN irs : isSeq(others[i])
    BY ShortSeqs
  <2>2. \A i \in DOMAIN irs : \A j \in DOMAIN others[i] : others[i][j] = irs[i]
    OBVIOUS
  <2>3. others = [i \in DOMAIN irs |-> others[i]] /\ isSeq(irs)
    BY <1>2 DEF plainIRs
  <2> HIDE DEF others
  <2>4. /\ isSeq(FlattenSeq(others))
        /\ \A k \in DOMAIN FlattenSeq(others) :
             \E i \in DOMAIN irs : \E j \in DOMAIN others[i] :
               FlattenSeq(others)[k] = others[i][j]
    BY <2>1, <2>3, JoinedElements
  <2> QED  BY <1>2, <2>2, <2>4 DEF plainIRs
<1> QED  BY <1>1, <1>3, <1>4, <1>5, <1>6

LEMMA ResponsesDecoded ==
  ASSUME NEW ms, plainMessages("responses", ms)
  PROVE  plainIRs(decodeResponsesInput(ms))
<1> DEFINE irs == [i \in DOMAIN ms |-> decodeResponsesItem(ms[i])]
<1>1. decodeResponsesInput(ms) = FlattenSeq(irs)
  BY DEF decodeResponsesInput, joined, each
<1>2. ASSUME NEW i \in DOMAIN ms
      PROVE  irs[i] = <<>> \/ \E m : irs[i] = <<m>> /\ plainParts(m.content)
  <2>1. plainParts(ms[i].content.parts)
    BY DEF plainMessages, plainMessage
  <2>2. /\ plainParts(decodeGenericContent(ms[i].content))
        /\ plainParts(listContent(ms[i].content))
    BY <2>1, PlainDecoded
  <2>3. plainParts(<<toolCall(ms[i].id)>>) /\ plainParts(<<toolResult(ms[i].text)>>)
    BY PlainPart, PlainShort
  <2>4. \/ irs[i] = <<IRMessage("user", decodeGenericContent(ms[i].content), None)>>
        \/ irs[i] = <<IRMessage(ms[i].role, listContent(ms[i].content), None)>>
        \/ irs[i] = <<IRMessage("assistant", <<toolCall(ms[i].id)>>, None)>>
        \/ irs[i] = <<IRMessage("tool", <<toolResult(ms[i].text)>>, ms[i].id)>>
        \/ irs[i] = <<>>
    BY DEF decodeResponsesItem
  <2> QED  BY <2>2, <2>3, <2>4, IRMessageFields
<1> HIDE DEF irs
<1>3. \A i \in DOMAIN ms : isSeq(irs[i])
  BY <1>2, ShortSeqs
<1>4. irs = [i \in DOMAIN ms |-> irs[i]] /\ isSeq(ms)
  BY DEF irs, plainMessages
<1>5. /\ isSeq(FlattenSeq(irs))
      /\ \A k \in DOMAIN FlattenSeq(irs) :
           \E i \in DOMAIN ms : \E j \in DOMAIN irs[i] : FlattenSeq(irs)[k] = irs[i][j]
  BY <1>3, <1>4, JoinedElements
<1>6. ASSUME NEW i \in DOMAIN ms, NEW j \in DOMAIN irs[i]
      PROVE  plainParts(irs[i][j].content)
  BY <1>2
<1> QED  BY <1>1, <1>5, <1>6 DEF plainIRs

LEMMA PlainItems ==
  /\ \A id : plainMessage("responses", CallItem(id))
  /\ \A id, text : plainMessage("responses", OutputItem(id, text))
  /\ \A text : plainMessage("responses", ReasoningItem(text))
  /\ \A role, content : plainParts(content.parts) =>
       plainMessage("responses", MessageItem(role, content))
<1>1. \A type, role, content, id, text :
        Item(type, role, content, id, text).content = content
  BY DEF Item
<1>2. plainParts(List(<<>>).parts)
  BY PlainShort, ListParts
<1>3. \A id : CallItem(id).content = List(<<>>)
  BY <1>1 DEF CallItem
<1>4. \A id, text : OutputItem(id, text).content = List(<<>>)
  BY <1>1 DEF OutputItem
<1>5. \A text : ReasoningItem(text).content = List(<<>>)
  BY <1>1 DEF ReasoningItem
<1>6. \A role, content : MessageItem(role, content).content = content
  BY <1>1 DEF MessageItem
<1> QED  BY <1>2, <1>3, <1>4, <1>5, <1>6 DEF plainMessage

\* Lists of messages.
LEMMA ConcatLists ==
  ASSUME NEW d, NEW s, NEW t, plainMessages(d, s), plainMessages(d, t)
  PROVE  plainMessages(d, s \o t)
<1>1. isSeq(s) /\ isSeq(t)
  BY DEF plainMessages
<1>2. /\ isSeq(s \o t)
      /\ \A k \in DOMAIN (s \o t) : \/ \E i \in DOMAIN s : (s \o t)[k] = s[i]
                                    \/ \E i \in DOMAIN t : (s \o t)[k] = t[i]
  BY <1>1, ConcatElements
<1> QED  BY <1>2 DEF plainMessages

LEMMA PlainLists ==
  ASSUME NEW d
  PROVE  /\ plainMessages(d, <<>>)
         /\ \A m : plainMessage(d, m) => plainMessages(d, <<m>>)
         /\ \A s, t : plainMessages(d, s) /\ plainMessages(d, t) => plainMessages(d, s \o t)
<1>1. plainMessages(d, <<>>) /\ \A m : plainMessage(d, m) => plainMessages(d, <<m>>)
  BY ShortSeqs DEF plainMessages
<1> QED  BY <1>1, ConcatLists

LEMMA PlainListJoined ==
  ASSUME NEW d, NEW s, isSeq(s), NEW t, t = [i \in DOMAIN s |-> t[i]],
         \A i \in DOMAIN s : plainMessages(d, t[i])
  PROVE  plainMessages(d, FlattenSeq(t))
<1>1. \A i \in DOMAIN s : isSeq(t[i])
  BY DEF plainMessages
<1>2. /\ isSeq(FlattenSeq(t))
      /\ \A k \in DOMAIN FlattenSeq(t) :
           \E i \in DOMAIN s : \E j \in DOMAIN t[i] : FlattenSeq(t)[k] = t[i][j]
  BY <1>1, JoinedElements
<1> QED  BY <1>2 DEF plainMessages

LEMMA ChatEncoded ==
  ASSUME NEW ir, plainIR(ir)
  PROVE  plainMessages("chat", encodeOpenAIChatMessages(ir))
<1>1. \A role, content, calls, id :
        /\ ChatMessage(role, content, calls, id).content = content
        /\ ChatMessage(role, content, calls, id).calls = calls
  BY DEF ChatMessage
<1>2. ASSUME NEW m, plainParts(m.content)
      PROVE  plainMessage("chat", encodeOpenAIChatMessage(m))
  <2>1. isSeq(encodeToolCalls(m.content)) /\ isSeq(<<>>)
    BY <1>2, CallsAreSeq, ShortSeqs DEF plainParts
  <2>2. plainParts(encodeOpenAIContent(m.content).parts)
    BY <1>2, PlainEncoded
  <2>3. \/ encodeOpenAIChatMessage(m) =
             ChatMessage("tool", encodeOpenAIContent(m.content), <<>>, m.callId)
        \/ encodeOpenAIChatMessage(m) =
             ChatMessage(m.role, encodeOpenAIContent(m.content),
                         encodeToolCalls(m.content), None)
    BY DEF encodeOpenAIChatMessage
  <2> QED  BY <1>1, <2>1, <2>2, <2>3 DEF plainMessage
<1> DEFINE t == [i \in DOMAIN ir.messages |-> encodeOpenAIChatMessage(ir.messages[i])]
<1>3. plainMessages("chat", t)
  <2>1. isSeq(ir.messages)
    BY DEF plainIR, plainIRs
  <2>2. isSeq(t)
    BY <2>1, EachIsSeq
  <2> QED  BY <1>2, <2>2 DEF plainIR, plainIRs, plainMessages
<1>4. plainMessage("chat", ChatMessage("system", String(ir.system), <<>>, None))
  BY <1>1, ShortSeqs, PlainString DEF plainMessage, plainIR
<1>5. \/ encodeOpenAIChatMessages(ir) = <<>> \o t
      \/ encodeOpenAIChatMessages(ir) =
           <<ChatMessage("system", String(ir.system), <<>>, None)>> \o t
  BY DEF encodeOpenAIChatMessages, each
<1> HIDE DEF t
<1> QED  BY <1>3, <1>4, <1>5, PlainLists

LEMMA ResponsesEncoded ==
  ASSUME NEW ms, plainIRs(ms)
  PROVE  plainMessages("responses", encodeResponsesInput(ms))
<1>1. ASSUME NEW m, plainParts(m.content)
      PROVE  plainMessages("responses", encodeResponsesMessage(m))
  <2>1. ASSUME NEW calls, isSeq(calls) PROVE plainMessages("responses", each(calls, CallItem))
    <3> DEFINE t == [i \in DOMAIN calls |-> CallItem(calls[i])]
    <3>1. isSeq(t)
      BY <2>1, EachIsSeq
    <3>2. each(calls, CallItem) = t
      BY DEF each
    <3> QED  BY <3>1, <3>2, PlainItems DEF plainMessages
  <2>2. isSeq(encodeToolCalls(m.content)) /\ isSeq(<<>>)
    BY <1>1, CallsAreSeq, ShortSeqs DEF plainParts
  <2>3. plainMessages("responses", <<OutputItem(m.callId, toolOutput(m))>>)
    BY PlainItems, PlainLists
  <2>4. PICK calls : /\ calls = IF m.role = "assistant"
                                THEN encodeToolCalls(m.content) ELSE <<>>
                     /\ isSeq(calls)
    BY <2>2
  <2>5. PICK shown : /\ shown = encodeResponsesContent(m.content)
                     /\ plainParts(shown)
    BY <1>1, PlainEncoded
  <2>6. plainMessages("responses", <<MessageItem(m.role, List(shown))>>)
    BY <2>5, PlainItems, PlainLists, ListParts
  <2>7. \/ encodeResponsesMessage(m) = <<OutputItem(m.callId, toolOutput(m))>>
        \/ encodeResponsesMessage(m) = each(calls, CallItem) \o <<>>
        \/ encodeResponsesMessage(m) =
             each(calls, CallItem) \o <<MessageItem(m.role, List(shown))>>
    BY <2>4, <2>5 DEF encodeResponsesMessage
  <2>8. plainMessages("responses", each(calls, CallItem))
    BY <2>1, <2>4
  <2> QED  BY <2>3, <2>6, <2>7, <2>8, PlainLists
<1> DEFINE t == [i \in DOMAIN ms |-> encodeResponsesMessage(ms[i])]
<1>2. encodeResponsesInput(ms) = FlattenSeq(t)
  BY DEF encodeResponsesInput, joined, each
<1>3. isSeq(ms) /\ \A i \in DOMAIN ms : plainMessages("responses", t[i])
  BY <1>1 DEF plainIRs
<1> QED  BY <1>2, <1>3, PlainListJoined

LEMMA AnthropicEncoded ==
  ASSUME NEW ms, plainIRs(ms)
  PROVE  plainMessages("anthropic", encodeAnthropicMessages(ms))
<1>1. \A role, content : AnthropicMessage(role, content).content = content
  BY DEF AnthropicMessage
<1>2. ASSUME NEW m, plainParts(m.content)
      PROVE  plainMessage("anthropic", encodeAnthropicMessage(m))
  <2>1. \A id, text : plain(Result(id, text))
    <3>1. "tool_result" \notin MediaTypes /\ "tool_result" \notin TextTypes
      BY DEF MediaTypes, ImageTypes, FileTypes, TextTypes
    <3> QED  BY <3>1, PlainPart DEF Result
  <2>2. PICK parts : /\ plainParts(parts)
                     /\ \E role : encodeAnthropicMessage(m) = AnthropicMessage(role, List(parts))
    <3>1. \/ encodeAnthropicMessage(m) =
               AnthropicMessage("user", List(<<Result(m.callId, toolOutput(m))>>))
          \/ encodeAnthropicMessage(m) =
               AnthropicMessage("assistant", List(encodeAnthropicAssistant(m.content)))
          \/ encodeAnthropicMessage(m) =
               AnthropicMessage(m.role, List(encodeAnthropicContentParts(m.content)))
      BY DEF encodeAnthropicMessage
    <3>2. plainParts(<<Result(m.callId, toolOutput(m))>>)
      BY <2>1, PlainShort
    <3> QED  BY <1>2, <3>1, <3>2, PlainEncoded
  <2>3. encodeAnthropicMessage(m).content = List(parts)
    BY <1>1, <2>2
  <2> QED  BY <2>2, <2>3, ListParts DEF plainMessage
<1> DEFINE t == [i \in DOMAIN ms |-> encodeAnthropicMessage(ms[i])]
<1>3. encodeAnthropicMessages(ms) = t
  BY DEF encodeAnthropicMessages, each
<1>4. isSeq(ms)
  BY DEF plainIRs
<1>5. isSeq(t)
  BY <1>4, EachIsSeq
<1> QED  BY <1>2, <1>3, <1>5 DEF plainMessages, plainIRs
-----------------------------------------------------------------------------
(* What a backend is sent of the fields beside the messages.               *)

\* Of the tools and the choice among them all that is left, or nothing.
sameTools(r, q, parallel) ==
  /\ r.tools # {} => q.tools # {} /\ r.choice = q.choice /\ r.parallel = parallel
  /\ r.choice = q.choice \/ r.choice = NoChoice
  /\ r.parallel = parallel \/ r.parallel = "absent"
  /\ r.tools = {} /\ q.tools # {} => r.choice = NoChoice /\ r.parallel = "absent"

decodedFrom(ir, q) ==
  /\ isRequest(ir)
  /\ sameTools(ir, q, q.parallel)
  /\ ir.schema = q.schema /\ ir.reasoning = q.reasoning /\ ir.maxTokens = q.maxTokens

fitted(u, r, q) ==
  /\ sameTools(r, q, IF u = "anthropic" THEN "absent" ELSE q.parallel)
  /\ r.reasoning # Absent => q.reasoning # Absent
  /\ r.schema = q.schema \/ r.schema = Absent
  /\ u = "anthropic" /\ q.maxTokens \in Nat => r.maxTokens > 0

LEMMA FieldsDecoded ==
  ASSUME NEW d \in Dialects, NEW q, isRequest(q)
  PROVE  decodedFrom(DecodeRequest(d, q), q)
<1>1. ASSUME NEW x, NEW y, NEW z, z # {} => q.tools # {}
      PROVE  decodedFrom(normalizeIRToolConfig(rewritten(q, x, y, z), q.tools # {}), q)
  <2>1. PICK r : r = rewritten(q, x, y, z) /\ isRewritten(r, q, x, y, z)
    BY WrittenFields
  <2>2. PICK had : had = (q.tools # {})
    OBVIOUS
  <2>3. PICK ir : ir = normalizeIRToolConfig(r, had) /\ isConfigured(ir, r, had)
    <3>1. isRequest(r)
      BY <2>1 DEF isRewritten
    <3> QED  BY <3>1, ToolConfigFields
  <2>4. decodedFrom(ir, q)
    BY <1>1, <2>1, <2>2, <2>3
       DEF decodedFrom, sameTools, isRewritten, isConfigured, leftAlone
  <2> QED  BY <2>1, <2>2, <2>3, <2>4
<1>2. CASE d = "chat"
  <2>1. PICK x, y : DecodeRequest(d, q) =
          normalizeIRToolConfig(rewritten(q, x, y, decodeOpenAIChatTools(q.tools)),
                                q.tools # {})
    BY <1>2, Zenon DEF DecodeRequest, DecodeOpenAIChatRequest, rewritten
  <2>2. decodeOpenAIChatTools(q.tools) # {} => q.tools # {}
    BY DEF decodeOpenAIChatTools
  <2> QED  BY <1>1, <2>1, <2>2
<1>3. CASE d = "responses"
  <2>1. PICK x, y : DecodeRequest(d, q) =
          normalizeIRToolConfig(rewritten(q, x, y, decodeResponsesTools(q.tools)),
                                q.tools # {})
    BY <1>3, Zenon DEF DecodeRequest, DecodeResponsesRequest, rewritten
  <2>2. decodeResponsesTools(q.tools) # {} => q.tools # {}
    BY DEF decodeResponsesTools
  <2> QED  BY <1>1, <2>1, <2>2
<1>4. CASE d = "anthropic"
  <2>1. PICK x, y : DecodeRequest(d, q) = rewritten(q, x, y, decodeAnthropicTools(q.tools))
    BY <1>4, Zenon DEF DecodeRequest, DecodeAnthropicRequest, rewritten
  <2>2. decodeAnthropicTools(q.tools) # {} <=> q.tools # {}
    BY DEF decodeAnthropicTools
  <2>3. isRewritten(DecodeRequest(d, q), q, x, y, decodeAnthropicTools(q.tools))
    BY <2>1, WrittenFields
  <2> QED  BY <2>2, <2>3 DEF decodedFrom, sameTools, isRewritten, leftAlone
<1> QED  BY <1>2, <1>3, <1>4 DEF Dialects

LEMMA FieldsEncoded ==
  ASSUME NEW u \in Dialects, NEW q, NEW ir, decodedFrom(ir, q)
  PROVE  fitted(u, EncodeRequest(u, ir), q)
<1>1. CASE u \in {"chat", "responses"}
  <2>1. PICK x, y : EncodeRequest(u, ir) = [ir EXCEPT !.system = x, !.messages = y]
    BY <1>1 DEF EncodeRequest, EncodeOpenAIChatRequest, EncodeResponsesRequest
  <2>2. PICK r : r = EncodeRequest(u, ir)
    OBVIOUS
  <2>3. /\ r.tools = ir.tools /\ r.choice = ir.choice /\ r.parallel = ir.parallel
        /\ r.schema = ir.schema /\ r.reasoning = ir.reasoning
    BY <2>1, <2>2 DEF decodedFrom, isRequest, RequestFields
  <2> QED  BY <1>1, <2>2, <2>3 DEF fitted, decodedFrom, sameTools
<1>2. CASE u = "anthropic"
  <2>1. PICK x, y, z : /\ EncodeRequest(u, ir) =
                            [ir EXCEPT !.system = x, !.messages = y, !.parallel = "absent",
                                       !.schema = Absent, !.maxTokens = z]
                       /\ z = IF ir.maxTokens = 0 THEN DefaultMaxTokens ELSE ir.maxTokens
    BY <1>2 DEF EncodeRequest, EncodeAnthropicRequest
  <2>2. PICK r : r = EncodeRequest(u, ir)
    OBVIOUS
  <2>3. /\ r.tools = ir.tools /\ r.choice = ir.choice /\ r.parallel = "absent"
        /\ r.schema = Absent /\ r.reasoning = ir.reasoning /\ r.maxTokens = z
    BY <2>1, <2>2 DEF decodedFrom, isRequest, RequestFields
  <2>4. q.maxTokens \in Nat => r.maxTokens > 0
    BY <2>1, <2>3 DEF decodedFrom, DefaultMaxTokens
  <2> QED  BY <1>2, <2>2, <2>3, <2>4 DEF fitted, decodedFrom, sameTools
<1> QED  BY <1>1, <1>2 DEF Dialects

LEMMA SentFitted ==
  ASSUME NEW d \in Dialects, NEW u \in Dialects, NEW q, isRequest(q),
         d = "anthropic" => q.parallel = "absent"
  PROVE  fitted(u, sendProtocolRequest(d, u, q), q)
<1>1. CASE d = "chat" /\ u = "chat"
  <2>1. sendProtocolRequest(d, u, q) = buildProviderRequestBody(q)
    BY <1>1 DEF sendProtocolRequest
  <2>2. PICK r : r = buildProviderRequestBody(q)
    OBVIOUS
  <2>3. /\ r.tools = q.tools /\ r.choice = q.choice /\ r.parallel = q.parallel
        /\ r.schema = q.schema /\ (r.reasoning # Absent => q.reasoning # Absent)
    BY <2>2 DEF buildProviderRequestBody, isRequest, RequestFields
  <2> QED  BY <1>1, <2>1, <2>2, <2>3 DEF fitted, sameTools
<1>2. CASE d = "responses" /\ u = "responses"
  <2>1. sendProtocolRequest(d, u, q) = q
    BY <1>2 DEF sendProtocolRequest
  <2> QED  BY <1>2, <2>1 DEF fitted, sameTools
<1>3. CASE ~(d = "chat" /\ u = "chat") /\ ~(d = "responses" /\ u = "responses")
  <2>1. sendProtocolRequest(d, u, q) = EncodeRequest(u, DecodeRequest(d, q))
    BY <1>3 DEF sendProtocolRequest, sendAnthropicRequest, EncodeRequest, DecodeRequest
  <2> QED  BY <2>1, FieldsDecoded, FieldsEncoded
<1> QED  BY <1>1, <1>2, <1>3
-----------------------------------------------------------------------------
(* What a backend is sent of a request without media shows nothing.        *)

LEMMA PlainRequestDecoded ==
  ASSUME NEW d \in {"chat", "responses"}, NEW q, isRequest(q), plainRequest(d, q)
  PROVE  plainIR(DecodeRequest(d, q))
<1>1. ASSUME NEW x, NEW y, NEW z, isSeq(x), plainIRs(y)
      PROVE  plainIR(normalizeIRToolConfig(rewritten(q, x, y, z), q.tools # {}))
  <2>1. PICK r : r = rewritten(q, x, y, z) /\ isRewritten(r, q, x, y, z)
    BY WrittenFields
  <2>2. PICK had : had = (q.tools # {})
    OBVIOUS
  <2>3. PICK ir : ir = normalizeIRToolConfig(r, had) /\ isConfigured(ir, r, had)
    <3>1. isRequest(r)
      BY <2>1 DEF isRewritten
    <3> QED  BY <3>1, ToolConfigFields
  <2>4. plainIR(ir)
    BY <1>1, <2>1, <2>3 DEF plainIR, isRewritten, isConfigured
  <2> QED  BY <2>1, <2>2, <2>3, <2>4
<1>2. CASE d = "chat"
  <2>1. PICK split : split = splitSystemInstruction(decodeOpenAIChatMessages(q.messages))
    OBVIOUS
  <2>2. isSeq(split.system) /\ plainIRs(split.others)
    BY <1>2, <2>1, ChatDecoded DEF plainRequest
  <2>3. DecodeRequest(d, q) =
          normalizeIRToolConfig(rewritten(q, split.system, split.others,
                                          decodeOpenAIChatTools(q.tools)),
                                q.tools # {})
    BY <1>2, <2>1, Zenon DEF DecodeRequest, DecodeOpenAIChatRequest, rewritten
  <2> QED  BY <1>1, <2>2, <2>3
<1>3. CASE d = "responses"
  <2>1. DecodeRequest(d, q) =
          normalizeIRToolConfig(rewritten(q, encodeTextContent(q.system.parts),
                                          decodeResponsesInput(q.messages),
                                          decodeResponsesTools(q.tools)),
                                q.tools # {})
    BY <1>3, Zenon DEF DecodeRequest, DecodeResponsesRequest, rewritten
  <2>2. isSeq(encodeTextContent(q.system.parts))
    BY TextIsSeq DEF plainRequest
  <2>3. plainIRs(decodeResponsesInput(q.messages))
    BY <1>3, ResponsesDecoded DEF plainRequest
  <2> QED  BY <1>1, <2>1, <2>2, <2>3
<1> QED  BY <1>2, <1>3

LEMMA PlainRequestEncoded ==
  ASSUME NEW u \in Dialects, NEW ir, isRequest(ir), plainIR(ir)
  PROVE  plainRequest(u, EncodeRequest(u, ir))
<1>1. PICK r : r = EncodeRequest(u, ir)
  OBVIOUS
<1>2. isSeq(ir.system) /\ plainIRs(ir.messages)
  BY DEF plainIR
<1>3. plainParts(String(ir.system).parts) /\ plainParts(String(<<>>).parts)
  BY <1>2, PlainString, ShortSeqs
<1>4. CASE u = "chat"
  <2>1. r = [ir EXCEPT !.system = String(<<>>), !.messages = encodeOpenAIChatMessages(ir)]
    BY <1>1, <1>4, Zenon DEF EncodeRequest, EncodeOpenAIChatRequest
  <2>2. r.system = String(<<>>) /\ r.messages = encodeOpenAIChatMessages(ir)
    BY <2>1 DEF isRequest, RequestFields
  <2>3. plainMessages("chat", r.messages)
    BY <2>2, ChatEncoded
  <2> QED  BY <1>1, <1>3, <1>4, <2>2, <2>3 DEF plainRequest
<1>5. CASE u = "responses"
  <2>1. r = [ir EXCEPT !.system = String(ir.system),
                       !.messages = encodeResponsesInput(ir.messages)]
    BY <1>1, <1>5, Zenon DEF EncodeRequest, EncodeResponsesRequest
  <2>2. r.system = String(ir.system) /\ r.messages = encodeResponsesInput(ir.messages)
    BY <2>1 DEF isRequest, RequestFields
  <2>3. plainMessages("responses", r.messages)
    BY <1>2, <2>2, ResponsesEncoded
  <2> QED  BY <1>1, <1>3, <1>5, <2>2, <2>3 DEF plainRequest
<1>6. CASE u = "anthropic"
  <2>1. PICK z : r = [ir EXCEPT !.system = String(ir.system),
                                !.messages = encodeAnthropicMessages(ir.messages),
                                !.parallel = "absent", !.schema = Absent,
                                !.maxTokens = z]
    BY <1>1, <1>6, Zenon DEF EncodeRequest, EncodeAnthropicRequest
  <2>2. r.system = String(ir.system) /\ r.messages = encodeAnthropicMessages(ir.messages)
    BY <2>1 DEF isRequest, RequestFields
  <2>3. plainMessages("anthropic", r.messages)
    BY <1>2, <2>2, AnthropicEncoded
  <2> QED  BY <1>1, <1>3, <1>6, <2>2, <2>3 DEF plainRequest
<1> QED  BY <1>4, <1>5, <1>6 DEF Dialects

LEMMA PlainRequestSent ==
  ASSUME NEW d \in {"chat", "responses"}, NEW u \in Dialects, NEW q, isRequest(q),
         plainRequest(d, q)
  PROVE  quiet(readRequest(u, sendProtocolRequest(d, u, q)))
<1>1. plainRequest(u, sendProtocolRequest(d, u, q))
  <2>1. CASE d = "chat" /\ u = "chat"
    <3>1. sendProtocolRequest(d, u, q) = buildProviderRequestBody(q)
      BY <2>1 DEF sendProtocolRequest
    <3>2. PICK r : r = buildProviderRequestBody(q)
      OBVIOUS
    <3>3. r.system = q.system /\ r.messages = q.messages
      BY <3>2 DEF buildProviderRequestBody, isRequest, RequestFields
    <3>4. plainRequest(u, r)
      BY <2>1, <3>3 DEF plainRequest
    <3> QED  BY <3>1, <3>2, <3>4
  <2>2. CASE d = "responses" /\ u = "responses"
    <3>1. sendProtocolRequest(d, u, q) = q
      BY <2>2 DEF sendProtocolRequest
    <3> QED  BY <2>2, <3>1
  <2>3. CASE d # u
    <3>1. sendProtocolRequest(d, u, q) = EncodeRequest(u, DecodeRequest(d, q))
      BY <2>3 DEF sendProtocolRequest
    <3>2. isRequest(DecodeRequest(d, q))
      BY FieldsDecoded DEF decodedFrom, Dialects
    <3> QED  BY <3>1, <3>2, PlainRequestDecoded, PlainRequestEncoded
  <2> QED  BY <2>1, <2>2, <2>3
<1> QED  BY <1>1, RequestIsQuiet DEF plainRequest
-----------------------------------------------------------------------------
(* Answers have no media, whichever dialect they come from.                *)

plainChoice(c) == isSeq(c.text) /\ isSeq(c.calls)
plainAnswer(d, a) ==
  CASE d = "chat" -> isSeq(a.choices) /\ a.choices # <<>>
                     /\ \A i \in DOMAIN a.choices : plainChoice(a.choices[i])
    [] d = "responses" -> plainMessages("responses", a.output)
    [] d = "anthropic" -> plainParts(a.content)

LEMMA ChoiceFields ==
  \A text, reasoning, calls, finish :
    isSeq(text) /\ isSeq(calls) => plainChoice(Choice(text, reasoning, calls, finish))
BY DEF Choice, plainChoice

LEMMA OneChoice ==
  ASSUME NEW a, NEW c, plainChoice(c), a.choices = <<c>>
  PROVE  plainAnswer("chat", a)
BY ShortSeqs DEF plainAnswer

LEMMA MeaningIsSeq ==
  ASSUME NEW a, a.calls \in Nat, NEW m, m = meaning(a)
  PROVE  isSeq(m.thinking) /\ isSeq(m.text) /\ isSeq(m.calls)
<1>1. isSeq(m.thinking) /\ isSeq(m.text)
  <2>1. /\ m.thinking = <<>> \/ m.thinking = <<piece(requests, 2)>>
        /\ m.text = <<>> \/ m.text = <<piece(requests, 3)>>
    BY DEF meaning
  <2> QED  BY <2>1, ShortSeqs
<1>2. m.calls = [i \in 1..a.calls |-> piece(requests, 3 + i)]
  BY DEF meaning
<1>3. isSeq(m.calls)
  <2> DEFINE E == {piece(requests, 3 + i) : i \in 1..a.calls}
  <2>1. m.calls \in [1..a.calls -> E]
    BY <1>2
  <2> HIDE DEF E
  <2>2. m.calls \in Seq(E)
    BY <2>1
  <2> QED  BY <2>2 DEF isSeq
<1> QED  BY <1>1, <1>3

LEMMA PlainAnswered ==
  ASSUME NEW u \in Dialects, NEW a, a.calls \in Nat
  PROVE  plainAnswer(u, answered(u, a))
<1>1. PICK m : /\ m = meaning(a)
               /\ isSeq(m.thinking) /\ isSeq(m.text) /\ isSeq(m.calls)
  BY MeaningIsSeq
<1>2. CASE u = "chat"
  <2> DEFINE t == [i \in DOMAIN m.thinking |-> -m.thinking[i]]
  <2>1. isSeq(t)
    BY <1>1, EachIsSeq
  <2>2. PICK head : head = (IF a.tagged THEN t ELSE <<>>)
    OBVIOUS
  <2>3. PICK reasoning : reasoning = IF a.tagged THEN <<>> ELSE m.thinking
    OBVIOUS
  <2>4. answered(u, a).choices = <<Choice(head \o m.text, reasoning, m.calls, m.finish)>>
    BY <1>1, <1>2, <2>2, <2>3 DEF answered, each
  <2> HIDE DEF t
  <2>5. isSeq(head \o m.text)
    BY <1>1, <2>1, <2>2, ShortSeqs, ConcatElements
  <2>6. plainChoice(Choice(head \o m.text, reasoning, m.calls, m.finish))
    BY <1>1, <2>5, ChoiceFields
  <2> QED  BY <1>2, <2>4, <2>6, OneChoice
<1>3. CASE u = "responses"
  <2>1. PICK first : /\ first = IF a.thinking THEN <<ReasoningItem(m.thinking)>> ELSE <<>>
                     /\ plainMessages("responses", first)
    BY PlainItems, PlainLists
  <2>2. PICK next : /\ next = IF a.text THEN <<MessageItem("assistant",
                                  List(<<Part("output_text", m.text, None)>>))>> ELSE <<>>
                    /\ plainMessages("responses", next)
    <3>1. "output_text" \notin MediaTypes
      BY DEF MediaTypes, ImageTypes, FileTypes
    <3>2. plainParts(<<Part("output_text", m.text, None)>>)
      BY <1>1, <3>1, PlainPart, PlainShort
    <3> QED  BY <3>2, ListParts, PlainItems, PlainLists
  <2>3. plainMessages("responses", each(m.calls, CallItem))
    <3> DEFINE t == [i \in DOMAIN m.calls |-> CallItem(m.calls[i])]
    <3>1. isSeq(t)
      BY <1>1, EachIsSeq
    <3>2. each(m.calls, CallItem) = t
      BY DEF each
    <3> QED  BY <3>1, <3>2, PlainItems DEF plainMessages
  <2>4. answered(u, a).output = first \o next \o each(m.calls, CallItem)
    BY <1>1, <1>3, <2>1, <2>2 DEF answered
  <2> QED  BY <1>3, <2>1, <2>2, <2>3, <2>4, PlainLists DEF plainAnswer
<1>4. CASE u = "anthropic"
  <2>0. /\ "thinking" \notin MediaTypes \union TextTypes
        /\ "tool_use" \notin MediaTypes \union TextTypes
        /\ "text" \notin MediaTypes
    BY DEF MediaTypes, ImageTypes, FileTypes, TextTypes
  <2>1. PICK first : /\ first = IF a.thinking THEN <<Thinking(m.thinking)>> ELSE <<>>
                     /\ plainParts(first)
    BY <2>0, PlainPart, PlainShort DEF Thinking
  <2>2. PICK next : /\ next = IF a.text THEN <<Part("text", m.text, None)>> ELSE <<>>
                    /\ plainParts(next)
    BY <1>1, <2>0, PlainPart, PlainShort
  <2>3. plainParts(each(m.calls, ToolUse))
    <3> DEFINE t == [i \in DOMAIN m.calls |-> ToolUse(m.calls[i])]
    <3>1. isSeq(t)
      BY <1>1, EachIsSeq
    <3>2. each(m.calls, ToolUse) = t
      BY DEF each
    <3>3. \A id : plain(ToolUse(id))
      BY <2>0, PlainPart DEF ToolUse
    <3> QED  BY <3>1, <3>2, <3>3 DEF plainParts
  <2>4. answered(u, a).content = first \o next \o each(m.calls, ToolUse)
    BY <1>1, <1>4, <2>1, <2>2 DEF answered
  <2> QED  BY <1>4, <2>1, <2>2, <2>3, <2>4, PlainConcat DEF plainAnswer
<1> QED  BY <1>2, <1>3, <1>4 DEF Dialects

LEMMA PlainIRLists ==
  /\ plainIRs(<<>>)
  /\ \A role, content, id : plainParts(content) => plainIRs(<<IRMessage(role, content, id)>>)
BY ShortSeqs, IRMessageFields DEF plainIRs

LEMMA PlainIRsJoined ==
  ASSUME NEW s, isSeq(s), NEW t, t = [i \in DOMAIN s |-> t[i]],
         \A i \in DOMAIN s : plainIRs(t[i])
  PROVE  plainIRs(FlattenSeq(t))
<1>1. \A i \in DOMAIN s : isSeq(t[i])
  BY DEF plainIRs
<1>2. /\ isSeq(FlattenSeq(t))
      /\ \A k \in DOMAIN FlattenSeq(t) :
           \E i \in DOMAIN s : \E j \in DOMAIN t[i] : FlattenSeq(t)[k] = t[i][j]
  BY <1>1, JoinedElements
<1> QED  BY <1>2 DEF plainIRs

LEMMA TaggedIsSeq ==
  ASSUME NEW text, isSeq(text)
  PROVE  isSeq(stripThinkTaggedText(text).text)
<1> DEFINE t == [i \in DOMAIN text |-> IF text[i] > 0 THEN <<text[i]>> ELSE <<>>]
<1>1. stripThinkTaggedText(text).text = FlattenSeq(t)
  BY DEF stripThinkTaggedText, joined, each
<1>2. PICK u : u = t
  OBVIOUS
<1>3. u = [i \in DOMAIN text |-> u[i]] /\ \A i \in DOMAIN text : isSeq(u[i])
  BY <1>2, ShortSeqs
<1>4. stripThinkTaggedText(text).text = FlattenSeq(u)
  BY <1>1, <1>2
<1> HIDE DEF t
<1> QED  BY <1>3, <1>4, JoinedElements

LEMMA ChoiceDecoded ==
  ASSUME NEW c, plainChoice(c)
  PROVE  plainParts(decodeOpenAIChatChoice(c).content)
<1>1. PICK first : first = decodeOpenAIChatMessageContent(c.text) /\ plainParts(first)
  <2>1. PICK stripped : stripped = stripThinkTaggedText(c.text).text /\ isSeq(stripped)
    BY TaggedIsSeq DEF plainChoice
  <2>2. \/ decodeOpenAIChatMessageContent(c.text) = <<>>
        \/ decodeOpenAIChatMessageContent(c.text) =
             <<IRPart("text", stripped, None, Absent)>>
    BY <2>1 DEF decodeOpenAIChatMessageContent
  <2>3. "text" \notin MediaTypes
    BY DEF MediaTypes, ImageTypes, FileTypes
  <2>4. plain(IRPart("text", stripped, None, Absent))
    BY <2>1, <2>3, PlainPart
  <2> QED  BY <2>2, <2>4, PlainShort
<1>2. PICK next : /\ plainParts(next)
                  /\ decodeOpenAIChatChoice(c) =
                       IRMessage("assistant", first \o next \o each(c.calls, toolCall), None)
  <2>1. PICK r : r = firstNonEmpty(c.reasoning, stripThinkTaggedText(c.text).reasoning)
    OBVIOUS
  <2>2. PICK next : next = IF r = <<>> THEN <<>> ELSE <<reasoningPart(r)>>
    OBVIOUS
  <2>3. plainParts(next)
    BY <2>2, PlainPart, PlainShort
  <2>4. decodeOpenAIChatChoice(c) =
          IRMessage("assistant", first \o next \o each(c.calls, toolCall), None)
    BY <1>1, <2>1, <2>2 DEF decodeOpenAIChatChoice
  <2> QED  BY <2>3, <2>4
<1>3. plainParts(each(c.calls, toolCall))
  BY PlainCalls DEF plainChoice
<1> QED  BY <1>1, <1>2, <1>3, PlainConcat, IRMessageFields

LEMMA BlockDecoded ==
  ASSUME NEW p, plain(p) PROVE plainParts(decodeAnthropicBlock(p))
<1>1. CASE p.type = "text"
  <2>1. normalizeIRPartType(p.type) = p.type
    BY <1>1 DEF normalizeIRPartType, ImageTypes, FileTypes
  <2>2. decodeAnthropicBlock(p) = <<IRPart(p.type, p.text, p.id, p.type)>>
    BY <1>1, <2>1 DEF decodeAnthropicBlock, fromRaw
  <2> QED  BY <2>2, PlainPart, PlainShort DEF plain
<1>2. CASE p.type # "text"
  <2>1. \/ decodeAnthropicBlock(p) = <<toolCall(p.id)>>
        \/ decodeAnthropicBlock(p) = <<toolResult(p.text)>>
        \/ decodeAnthropicBlock(p) = <<>>
    BY <1>2 DEF decodeAnthropicBlock, plain, MediaTypes, ImageTypes, FileTypes
  <2> QED  BY <2>1, PlainPart, PlainShort
<1> QED  BY <1>1, <1>2

LEMMA PlainAnswerDecoded ==
  ASSUME NEW u \in Dialects, NEW a, plainAnswer(u, a)
  PROVE  plainIRs(DecodeResponse(u, a).items)
<1>1. CASE u = "chat"
  <2> DEFINE t == [i \in DOMAIN a.choices |-> decodeOpenAIChatChoice(a.choices[i])]
  <2>1. DecodeResponse(u, a).items = t
    BY <1>1 DEF DecodeResponse, DecodeOpenAIChatResponse, IRAnswer, each
  <2>2. isSeq(a.choices)
    BY <1>1 DEF plainAnswer
  <2>3. isSeq(t)
    BY <2>2, EachIsSeq
  <2>4. \A i \in DOMAIN a.choices : plainParts(t[i].content)
    BY <1>1, ChoiceDecoded DEF plainAnswer
  <2> QED  BY <2>1, <2>3, <2>4 DEF plainIRs
<1>2. CASE u = "responses"
  <2> DEFINE t == [i \in DOMAIN a.output |-> decodeResponsesOutputItem(a.output[i])]
  <2>1. DecodeResponse(u, a).items = FlattenSeq(t)
    BY <1>2 DEF DecodeResponse, DecodeResponsesResponse, decodeResponsesOutput, joined, each
  <2>2. isSeq(a.output) /\ \A i \in DOMAIN a.output : plainMessage("responses", a.output[i])
    BY <1>2 DEF plainAnswer, plainMessages
  <2>3. ASSUME NEW i \in DOMAIN a.output PROVE plainIRs(t[i])
    <3>1. plainParts(listContent(a.output[i].content))
      BY <2>2, PlainDecoded DEF plainMessage
    <3>2. /\ plainParts(<<toolCall(a.output[i].id)>>)
          /\ plainParts(<<reasoningPart(a.output[i].text)>>)
      BY PlainPart, PlainShort
    <3>3. \/ t[i] = <<IRMessage("assistant", listContent(a.output[i].content), None)>>
          \/ t[i] = <<IRMessage("assistant", <<toolCall(a.output[i].id)>>, None)>>
          \/ t[i] = <<IRMessage("assistant", <<reasoningPart(a.output[i].text)>>, None)>>
          \/ t[i] = <<>>
      BY DEF decodeResponsesOutputItem
    <3> QED  BY <3>1, <3>2, <3>3, PlainIRLists
  <2>4. PICK v : v = t
    OBVIOUS
  <2>5. v = [i \in DOMAIN a.output |-> v[i]] /\ \A i \in DOMAIN a.output : plainIRs(v[i])
    BY <2>3, <2>4
  <2>6. DecodeResponse(u, a).items = FlattenSeq(v)
    BY <2>1, <2>4
  <2> HIDE DEF t
  <2> QED  BY <2>2, <2>5, <2>6, PlainIRsJoined
<1>3. CASE u = "anthropic"
  <2> DEFINE t == [i \in DOMAIN a.content |->
                     IF a.content[i].type = "thinking"
                     THEN <<reasoningPart(a.content[i].text)>>
                     ELSE decodeAnthropicBlock(a.content[i])]
  <2>1. \/ DecodeResponse(u, a).items = <<>>
        \/ DecodeResponse(u, a).items = <<IRMessage("assistant", FlattenSeq(t), None)>>
    BY <1>3 DEF DecodeResponse, DecodeAnthropicResponse, decodeAnthropicContent, joined, each
  <2>2. isSeq(a.content) /\ \A i \in DOMAIN a.content : plain(a.content[i])
    BY <1>3 DEF plainAnswer, plainParts
  <2>3. \A i \in DOMAIN a.content : plainParts(t[i])
    BY <2>2, BlockDecoded, PlainPart, PlainShort
  <2>4. plainParts(FlattenSeq(t))
    BY <2>2, <2>3, PlainJoined
  <2> QED  BY <2>1, <2>4, PlainIRLists
<1> QED  BY <1>1, <1>2, <1>3 DEF Dialects

LEMMA OutputContentEncoded ==
  ASSUME NEW parts, plainParts(parts) PROVE plainParts(encodeResponsesOutputContent(parts))
<1> DEFINE t == [i \in DOMAIN parts |->
      CASE parts[i].type \in {"text", "output_text"} /\ parts[i].text # <<>> ->
             <<Part("output_text", parts[i].text, None)>>
        [] parts[i].type \in {"image", "file"} ->
             <<encodeRawOrFallbackPart(parts[i], parts[i].type)>>
        [] OTHER -> <<>>]
<1>1. encodeResponsesOutputContent(parts) = FlattenSeq(t)
  BY DEF encodeResponsesOutputContent, joined, each
<1>2. "output_text" \notin MediaTypes /\ {"text", "output_text"} \subseteq TextTypes
  BY DEF MediaTypes, ImageTypes, FileTypes, TextTypes
<1>3. ASSUME NEW i \in DOMAIN parts PROVE plainParts(t[i])
  <2>1. plain(parts[i])
    BY DEF plainParts
  <2>2. \/ /\ t[i] = <<Part("output_text", parts[i].text, None)>>
           /\ parts[i].type \in {"text", "output_text"}
        \/ t[i] = <<>>
    BY <2>1, PlainTypes
  <2>3. parts[i].type \in {"text", "output_text"} => isSeq(parts[i].text)
    BY <1>2, <2>1 DEF plain
  <2>4. isSeq(parts[i].text) => plain(Part("output_text", parts[i].text, None))
    BY <1>2, PlainPart
  <2> QED  BY <2>2, <2>3, <2>4, PlainShort
<1>4. isSeq(parts)
  BY DEF plainParts
<1> QED  BY <1>1, <1>3, <1>4, PlainJoined

LEMMA PlainAnswerEncoded ==
  ASSUME NEW d \in {"chat", "responses"}, NEW ir, plainIRs(ir.items)
  PROVE  plainAnswer(d, EncodeResponse(d, ir))
<1>1. CASE d = "chat"
  <2>1. PICK content : /\ content = IF ir.items = <<>> THEN <<>> ELSE ir.items[1].content
                       /\ plainParts(content)
    <3>1. CASE ir.items = <<>>
      BY <3>1, PlainShort
    <3>2. CASE ir.items # <<>>
      <4>1. PICK S : ir.items \in Seq(S)
        BY DEF plainIRs, isSeq
      <4>2. 1 \in DOMAIN ir.items
        BY <3>2, <4>1
      <4> QED  BY <3>2, <4>2 DEF plainIRs
    <3> QED  BY <3>1, <3>2
  <2>2. PICK reasoning, finish :
          EncodeResponse(d, ir).choices =
            <<Choice(encodeTextContent(content), reasoning, encodeToolCalls(content), finish)>>
    BY <1>1, <2>1, Zenon DEF EncodeResponse, EncodeOpenAIChatResponse, encodeOpenAIChatChoices
  <2>3. isSeq(encodeTextContent(content)) /\ isSeq(encodeToolCalls(content))
    BY <2>1, TextIsSeq, CallsAreSeq DEF plainParts
  <2> QED  BY <1>1, <2>2, <2>3, ChoiceFields, OneChoice
<1>2. CASE d = "responses"
  <2>1. ASSUME NEW m, plainParts(m.content)
        PROVE  plainMessages("responses", encodeResponsesOutputMessage(m))
    <3> DEFINE t == [i \in DOMAIN m.content |->
                       CASE m.content[i].type = "tool_call" -> <<CallItem(m.content[i].id)>>
                         [] m.content[i].type = "reasoning" ->
                              <<ReasoningItem(m.content[i].text)>>
                         [] OTHER -> <<>>]
    <3>1. PICK first : /\ plainMessages("responses", first)
                       /\ encodeResponsesOutputMessage(m) = first \o FlattenSeq(t)
      <4>1. PICK first : first =
              IF encodeTextContent(m.content) # <<>> \/ hasNonTextParts(m.content)
              THEN <<MessageItem("assistant", List(encodeResponsesOutputContent(m.content)))>>
              ELSE <<>>
        OBVIOUS
      <4>2. plainMessages("responses", first)
        BY <2>1, <4>1, OutputContentEncoded, ListParts, PlainItems, PlainLists
      <4>3. encodeResponsesOutputMessage(m) = first \o FlattenSeq(t)
        BY <4>1 DEF encodeResponsesOutputMessage, joined, each
      <4> QED  BY <4>2, <4>3
    <3>2. \A i \in DOMAIN m.content : plainMessages("responses", t[i])
      <4> TAKE i \in DOMAIN m.content
      <4>1. \/ t[i] = <<CallItem(m.content[i].id)>>
            \/ t[i] = <<ReasoningItem(m.content[i].text)>>
            \/ t[i] = <<>>
        OBVIOUS
      <4> QED  BY <4>1, PlainItems, PlainLists
    <3>3. isSeq(m.content)
      BY <2>1 DEF plainParts
    <3>4. plainMessages("responses", FlattenSeq(t))
      BY <3>2, <3>3, PlainListJoined
    <3> QED  BY <3>1, <3>4, PlainLists
  <2> DEFINE u == [i \in DOMAIN ir.items |-> encodeResponsesOutputMessage(ir.items[i])]
  <2>2. EncodeResponse(d, ir).output = FlattenSeq(u)
    BY <1>2 DEF EncodeResponse, EncodeResponsesResponse, encodeResponsesOutput, joined, each
  <2>3. isSeq(ir.items) /\ \A i \in DOMAIN ir.items : plainMessages("responses", u[i])
    BY <2>1 DEF plainIRs
  <2>4. plainMessages("responses", FlattenSeq(u))
    BY <2>3, PlainListJoined
  <2> QED  BY <1>2, <2>2, <2>4 DEF plainAnswer
<1> QED  BY <1>1, <1>2
-----------------------------------------------------------------------------
(* What the client of a chat or responses conversation has written.        *)

\* A content with media is a list, and no part of it a document.
clientPart(m, p) ==
  /\ p.type \in TextTypes => isSeq(p.text)
  /\ p.type \in MediaTypes => m.content.list /\ p.type # "document"
clientMessage(d, m) ==
  /\ isSeq(m.content.parts) /\ (d = "chat" => isSeq(m.calls))
  /\ \A i \in DOMAIN m.content.parts : clientPart(m, m.content.parts[i])
clientMessages(d, ms) == isSeq(ms) /\ \A i \in DOMAIN ms : clientMessage(d, ms[i])

LEMMA PlainIsClients ==
  ASSUME NEW d
  PROVE  /\ \A m : plainMessage(d, m) => clientMessage(d, m)
         /\ \A ms : plainMessages(d, ms) => clientMessages(d, ms)
<1>1. \A m : plainMessage(d, m) => clientMessage(d, m)
  BY DEF plainMessage, plainParts, plain, clientMessage, clientPart
<1> QED  BY <1>1 DEF plainMessages, clientMessages

LEMMA ConcatClientLists ==
  ASSUME NEW d, NEW s, NEW t, clientMessages(d, s), clientMessages(d, t)
  PROVE  clientMessages(d, s \o t)
<1>1. isSeq(s) /\ isSeq(t)
  BY DEF clientMessages
<1>2. /\ isSeq(s \o t)
      /\ \A k \in DOMAIN (s \o t) : \/ \E i \in DOMAIN s : (s \o t)[k] = s[i]
                                    \/ \E i \in DOMAIN t : (s \o t)[k] = t[i]
  BY <1>1, ConcatElements
<1> QED  BY <1>2 DEF clientMessages

\* A request the guard finds no image or file in has none.
LEMMA NoVisionIsPlain ==
  ASSUME NEW d, NEW q, clientMessages(d, q.messages), ~requestUsesVision(q)
  PROVE  plainMessages(d, q.messages)
<1>1. ASSUME NEW i \in DOMAIN q.messages PROVE plainMessage(d, q.messages[i])
  <2>1. PICK m : m = q.messages[i]
    OBVIOUS
  <2>2. clientMessage(d, m) /\ ~usesVision(m.content)
    BY <2>1 DEF clientMessages, requestUsesVision
  <2>3. ASSUME NEW j \in DOMAIN m.content.parts PROVE plain(m.content.parts[j])
    <3>1. clientPart(m, m.content.parts[j])
      BY <2>2 DEF clientMessage
    <3>2. ~(m.content.list /\ m.content.parts[j].type \in MediaTypes \ {"document"})
      BY <2>2 DEF usesVision, MediaTypes
    <3> QED  BY <3>1, <3>2 DEF clientPart, plain
  <2> QED  BY <2>1, <2>2, <2>3 DEF plainMessage, plainParts, clientMessage
<1> QED  BY <1>1 DEF plainMessages, clientMessages

\* The request as it is written, and what it is written from.
RequestInv ==
  /\ isRequest(written) /\ plainParts(written.system.parts) /\ written.maxTokens \in Nat
  /\ {"form", "parallel"} \subseteq DOMAIN written.choice
  /\ dialect = "anthropic" => written.parallel = "absent"
  /\ dialect # "anthropic" => /\ written.choice.form # "anthropic"
                              /\ clientMessages(dialect, written.messages)

ReceivedInv ==
  phase = "received" /\ got.form = "json" /\ got.dialect = dialect
    /\ dialect # "anthropic" => plainAnswer(dialect, got.answer)

\* What was sent is the request, converted for a backend that can do what it
\* needs.
SentInv ==
  isSent =>
    /\ sent.backend \in candidates
    /\ sent.upstream = pool[sent.backend].upstream
    /\ sent.request = sendProtocolRequest(dialect, sent.upstream,
                        normalizeEnvelopeForConfig(written, pool[sent.backend], dialect))

ConversationInv ==
  ConversationTypeOK /\ AnswerLogged /\ RequestInv /\ ReceivedInv /\ SentInv
-----------------------------------------------------------------------------
(* What is sent is acceptable.                                             *)

LEMMA CandidateSupports ==
  ASSUME NEW b \in candidates
  PROVE  /\ written.tools # {} => "tools" \in pool[b].supports
         /\ written.reasoning # Absent => "reasoning" \in pool[b].supports
         /\ written.schema = "json_schema" => "json_schema" \in pool[b].supports
         /\ requestUsesVision(written) => "vision" \in pool[b].supports
<1>1. deriveCapabilityRequirements(dialect, written) \subseteq pool[b].supports
  BY DEF candidates, filterConfigsByCapabilities
<1>2. {"tools", "reasoning", "json_schema", "vision"} \subseteq Features
  BY DEF Features
<1>3. written.tools # {} => "tools" \in deriveCapabilityRequirements(dialect, written)
  BY <1>2 DEF deriveCapabilityRequirements, requestUsesTools
<1>4. written.reasoning # Absent =>
        "reasoning" \in deriveCapabilityRequirements(dialect, written)
  BY <1>2 DEF deriveCapabilityRequirements, requestUsesReasoning
<1>5. written.schema = "json_schema" =>
        "json_schema" \in deriveCapabilityRequirements(dialect, written)
  BY <1>2 DEF deriveCapabilityRequirements, requestUsesJSONSchema
<1>6. requestUsesVision(written) => "vision" \in deriveCapabilityRequirements(dialect, written)
  BY <1>2 DEF deriveCapabilityRequirements
<1> QED  BY <1>1, <1>3, <1>4, <1>5, <1>6

LEMMA AbsentIsNone == Absent # "json_schema" /\ Absent # "anthropic"
BY Zenon DEF Absent

LEMMA NoChoiceFields ==
  NoChoice.form = Absent /\ NoChoice.parallel = "absent" /\ DOMAIN NoChoice = {"form", "parallel"}
BY DEF NoChoice

\* The request made fit for a backend.
LEMMA NormalizedFields ==
  ASSUME RequestInv, dialect \in Dialects, NEW config, NEW q,
         q = normalizeEnvelopeForConfig(written, config, dialect)
  PROVE  /\ isRequest(q) /\ q.system = written.system /\ q.messages = written.messages
         /\ q.tools = written.tools /\ leftAlone(q, written)
         /\ dialect = "anthropic" => q.parallel = "absent"
         /\ "parallel_tool_calls" \in config.supports => q = written
         /\ "parallel_tool_calls" \notin config.supports =>
              /\ q.parallel # "on"
              /\ q.choice.form = "anthropic" => q.choice.parallel = "off"
<1>1. CASE "parallel_tool_calls" \in config.supports
  <2>1. q = written
    BY <1>1 DEF normalizeEnvelopeForConfig
  <2> QED  BY <1>1, <2>1 DEF RequestInv, leftAlone
<1>2. CASE "parallel_tool_calls" \notin config.supports
  <2>1. q = normalizeParallelToolCallsRawBody(written, dialect)
    BY <1>2 DEF normalizeEnvelopeForConfig
  <2>2. CASE dialect = "anthropic" /\ written.choice # NoChoice
    <3>1. q = [written EXCEPT !.choice.parallel = "off"]
      BY <2>1, <2>2 DEF normalizeParallelToolCallsRawBody
    <3>2. /\ isRequest(q) /\ q.system = written.system /\ q.messages = written.messages
          /\ q.tools = written.tools /\ q.schema = written.schema
          /\ q.reasoning = written.reasoning /\ q.maxTokens = written.maxTokens
          /\ q.parallel = written.parallel
          /\ q.choice = [written.choice EXCEPT !.parallel = "off"]
      BY <3>1 DEF RequestInv, isRequest, RequestFields
    <3>3. q.choice.parallel = "off"
      BY <3>2 DEF RequestInv
    <3> QED  BY <1>2, <2>2, <3>2, <3>3 DEF RequestInv, leftAlone
  <2>3. CASE dialect # "anthropic" /\ written.parallel # "absent"
    <3>1. q = [written EXCEPT !.parallel = "off"]
      BY <2>1, <2>3 DEF normalizeParallelToolCallsRawBody
    <3>2. /\ isRequest(q) /\ q.system = written.system /\ q.messages = written.messages
          /\ q.tools = written.tools /\ q.schema = written.schema
          /\ q.reasoning = written.reasoning /\ q.maxTokens = written.maxTokens
          /\ q.parallel = "off" /\ q.choice = written.choice
      BY <3>1 DEF RequestInv, isRequest, RequestFields
    <3> QED  BY <1>2, <2>3, <3>2 DEF RequestInv, leftAlone
  <2>4. CASE /\ ~(dialect = "anthropic" /\ written.choice # NoChoice)
             /\ ~(dialect # "anthropic" /\ written.parallel # "absent")
    <3>1. q = written
      BY <2>1, <2>4 DEF normalizeParallelToolCallsRawBody
    <3>2. q.parallel = "absent" /\ q.choice.form # "anthropic"
      BY <2>4, <3>1, AbsentIsNone, NoChoiceFields DEF RequestInv
    <3> QED  BY <1>2, <3>1, <3>2 DEF RequestInv, leftAlone
  <2> QED  BY <2>2, <2>3, <2>4
<1> QED  BY <1>1, <1>2

LEMMA InvImpliesAcceptable == ConversationInv => SentAcceptable
<1> SUFFICES ASSUME ConversationInv, isSent PROVE SentAcceptable
  BY DEF SentAcceptable
<1>1. PICK b, u, r : b = sent.backend /\ u = sent.upstream /\ r = sent.request
  OBVIOUS
<1>2. dialect \in Dialects /\ u \in Dialects /\ RequestInv
  BY <1>1 DEF ConversationInv, ConversationTypeOK
<1>3. PICK q : q = normalizeEnvelopeForConfig(written, pool[b], dialect)
  OBVIOUS
<1>4. b \in candidates /\ r = sendProtocolRequest(dialect, u, q)
  BY <1>1, <1>3 DEF ConversationInv, SentInv
<1>5. /\ isRequest(q) /\ q.system = written.system /\ q.messages = written.messages
      /\ q.tools = written.tools /\ leftAlone(q, written)
      /\ dialect = "anthropic" => q.parallel = "absent"
      /\ "parallel_tool_calls" \in pool[b].supports => q = written
      /\ "parallel_tool_calls" \notin pool[b].supports =>
           /\ q.parallel # "on"
           /\ q.choice.form = "anthropic" => q.choice.parallel = "off"
  BY <1>2, <1>3, NormalizedFields
<1>6. fitted(u, r, q)
  BY <1>2, <1>4, <1>5, SentFitted
<1>7. /\ written.tools # {} => "tools" \in pool[b].supports
      /\ written.reasoning # Absent => "reasoning" \in pool[b].supports
      /\ written.schema = "json_schema" => "json_schema" \in pool[b].supports
      /\ requestUsesVision(written) => "vision" \in pool[b].supports
  BY <1>4, CandidateSupports
<1>8. /\ r.tools # {} => "tools" \in pool[b].supports
      /\ r.reasoning # Absent => "reasoning" \in pool[b].supports
      /\ r.schema = "json_schema" => "json_schema" \in pool[b].supports
  BY <1>5, <1>6, <1>7, AbsentIsNone DEF fitted, sameTools, leftAlone
<1>9. ASSUME \E i \in DOMAIN told : told[i].kind = "shown", "vision" \notin pool[b].supports
      PROVE  dialect = "anthropic" /\ ~requestUsesVision(written)
  <2>1. ~requestUsesVision(written)
    BY <1>7, <1>9
  <2>2. ASSUME dialect # "anthropic" PROVE FALSE
    <3>1. dialect \in {"chat", "responses"}
      BY <1>2, <2>2 DEF Dialects
    <3>2. plainMessages(dialect, written.messages)
      BY <1>2, <2>1, <2>2, NoVisionIsPlain DEF RequestInv
    <3>3. plainRequest(dialect, q)
      BY <1>2, <1>5, <3>2 DEF plainRequest, RequestInv
    <3>4. quiet(readRequest(u, r))
      BY <1>2, <1>4, <1>5, <3>1, <3>3, PlainRequestSent
    <3>5. told = readRequest(u, r)
      BY <1>1 DEF told
    <3> QED  BY <1>9, <3>4, <3>5 DEF quiet
  <2> QED  BY <2>1, <2>2
<1>10. ASSUME "parallel_tool_calls" \notin pool[b].supports
       PROVE  /\ r.parallel # "on"
              /\ r.choice.form = "anthropic" => r.choice.parallel = "off"
  BY <1>5, <1>6, <1>10, AbsentIsNone, NoChoiceFields DEF fitted, sameTools
<1>11. ASSUME "parallel_tool_calls" \in pool[b].supports, r.tools # {}
       PROVE  /\ r.choice = written.choice
              /\ u # "anthropic" => r.parallel = written.parallel
  BY <1>5, <1>6, <1>11 DEF fitted, sameTools
<1>12. r.tools = {} /\ written.tools # {} => r.choice = NoChoice /\ r.parallel = "absent"
  BY <1>5, <1>6 DEF fitted, sameTools
<1>13. u = "anthropic" => r.maxTokens > 0
  BY <1>2, <1>5, <1>6 DEF fitted, leftAlone, RequestInv
<1> QED  BY <1>1, <1>8, <1>9, <1>10, <1>11, <1>12, <1>13 DEF SentAcceptable
-----------------------------------------------------------------------------
(* The client's messages, and how they come about.                         *)

LEMMA ClientLists ==
  ASSUME NEW d
  PROVE  /\ clientMessages(d, <<>>)
         /\ \A m : clientMessage(d, m) => clientMessages(d, <<m>>)
BY ShortSeqs DEF clientMessages

LEMMA ChatMessageFields ==
  \A role, content, calls, id :
    /\ ChatMessage(role, content, calls, id).content = content
    /\ ChatMessage(role, content, calls, id).calls = calls
BY DEF ChatMessage

LEMMA ItemFields ==
  \A type, role, content, id, text : Item(type, role, content, id, text).content = content
BY DEF Item

LEMMA PlainTextList ==
  ASSUME NEW text, isSeq(text), NEW type \in {"text", "input_text"}
  PROVE  plain(Part(type, text, None)) /\ plainParts(List(<<Part(type, text, None)>>).parts)
<1>1. type \notin MediaTypes
  BY DEF MediaTypes, ImageTypes, FileTypes
<1> QED  BY <1>1, PlainPart, PlainShort, ListParts

LEMMA FirstWrittenFields ==
  ASSUME NEW d \in Dialects, NEW s \in Settings, NEW q, q = firstWritten(d, s)
  PROVE  /\ isRequest(q) /\ plainParts(q.system.parts) /\ q.maxTokens \in Nat
         /\ {"form", "parallel"} \subseteq DOMAIN q.choice
         /\ d = "anthropic" => q.parallel = "absent"
         /\ d # "anthropic" => q.choice.form # "anthropic" /\ clientMessages(d, q.messages)
<1>1. s.system \in {"none", "string", "list"} /\ s.maxTokens \in Nat
  BY ConversationAssumption
<1>2. isSeq(SystemText) /\ isSeq(<<>>)
  BY ShortSeqs DEF SystemText
<1>3. /\ plainParts(String(<<>>).parts) /\ plainParts(String(SystemText).parts)
      /\ plainParts(List(<<Part("text", SystemText, None)>>).parts)
  BY <1>2, PlainString, PlainTextList
<1>4. isRequest(q)
  BY DEF firstWritten, isRequest, RequestFields
<1>5. plainParts(q.system.parts)
  <2>1. q.system = String(<<>>) \/ q.system = systemContent(s.system)
    BY DEF firstWritten
  <2>2. \/ systemContent(s.system) = String(<<>>)
        \/ systemContent(s.system) = String(SystemText)
        \/ systemContent(s.system) = List(<<Part("text", SystemText, None)>>)
    BY <1>1 DEF systemContent
  <2> QED  BY <1>3, <2>1, <2>2
<1>6. q.maxTokens \in Nat
  BY <1>1 DEF firstWritten
<1>7. \/ q.choice = NoChoice
      \/ \E wish : q.choice = [form |-> d, parallel |-> wish]
  BY DEF firstWritten
<1>8. {"form", "parallel"} \subseteq DOMAIN q.choice
  BY <1>7, NoChoiceFields
<1>9. d # "anthropic" => q.choice.form # "anthropic"
  <2>1. q.choice = NoChoice => q.choice.form = Absent
    BY NoChoiceFields
  <2>2. ASSUME NEW wish, q.choice = [form |-> d, parallel |-> wish]
        PROVE  q.choice.form = d
    BY <2>2
  <2> QED  BY <1>7, <2>1, <2>2, AbsentIsNone
<1>10. d = "anthropic" => q.parallel = "absent"
  BY DEF firstWritten
<1>11. plainMessages(d, q.messages)
  <2>1. q.messages = <<>> \/ (d = "chat" /\ q.messages = systemMessage(s.system))
    BY DEF firstWritten
  <2>2. \/ systemMessage(s.system) = <<>>
        \/ systemMessage(s.system) = <<ChatMessage("system", String(SystemText), <<>>, None)>>
        \/ systemMessage(s.system) =
             <<ChatMessage("developer", List(<<Part("text", SystemText, None)>>), <<>>, None)>>
    BY <1>1 DEF systemMessage
  <2>3. /\ plainMessage("chat", ChatMessage("system", String(SystemText), <<>>, None))
        /\ plainMessage("chat", ChatMessage("developer",
                                  List(<<Part("text", SystemText, None)>>), <<>>, None))
    BY <1>2, <1>3, ChatMessageFields DEF plainMessage
  <2> QED  BY <2>1, <2>2, <2>3, PlainLists
<1> QED  BY <1>4, <1>5, <1>6, <1>8, <1>9, <1>10, <1>11, PlainIsClients

LEMMA QuestionIsClients ==
  ASSUME NEW form \in AskForms, dialect \in {"chat", "responses"}
  PROVE  clientMessage(dialect, question(form))
<1>1. PICK p : p = piece(requests + 1, 1)
  OBVIOUS
<1>2. PICK content : content = askedContent(form, p)
  OBVIOUS
<1>3. TextType(dialect) \in {"text", "input_text"}
  BY DEF TextType
<1>4. PICK text : text = Part(TextType(dialect), <<p>>, None) /\ plain(text)
  BY <1>3, PlainTextList, ShortSeqs
<1>5. ASSUME NEW m, m.content = content, isSeq(m.calls) \/ dialect # "chat"
      PROVE  clientMessage(dialect, m)
  <2>1. CASE form \in {"string", "untyped"}
    <3>1. content = String(<<p>>)
      BY <1>2, <2>1 DEF askedContent
    <3>2. plainParts(m.content.parts)
      BY <1>5, <3>1, PlainString, ShortSeqs
    <3> QED  BY <1>5, <3>2, PlainIsClients DEF plainMessage
  <2>2. CASE form = "list"
    <3>1. content = List(<<text>>)
      BY <1>2, <1>4, <2>2 DEF askedContent
    <3>2. plainParts(m.content.parts)
      BY <1>4, <1>5, <3>1, PlainShort, ListParts
    <3> QED  BY <1>5, <3>2, PlainIsClients DEF plainMessage
  <2>3. CASE form \in {"image", "file"}
    <3>1. PICK media : media = Part(MediaType(dialect, form), <<>>, p)
      OBVIOUS
    <3>2. content = List(<<text, media>>)
      BY <1>2, <1>4, <2>3, <3>1 DEF askedContent
    <3>3. content.list /\ content.parts = <<text, media>>
      BY <3>2 DEF List
    <3>4. isSeq(<<text, media>>)
      <4>1. <<text, media>> \in Seq({text, media})
        OBVIOUS
      <4> QED  BY <4>1 DEF isSeq
    <3>5. media.type = MediaType(dialect, form) /\ media.text = <<>>
      BY <3>1 DEF Part
    <3>6. media.type # "document"
      BY <2>3, <3>5 DEF MediaType
    <3>7. clientPart(m, media)
      BY <1>5, <3>3, <3>5, <3>6, ShortSeqs DEF clientPart
    <3>8. clientPart(m, text)
      BY <1>4 DEF clientPart, plain
    <3> QED  BY <1>5, <3>3, <3>4, <3>7, <3>8 DEF clientMessage
  <2> QED  BY <2>1, <2>2, <2>3 DEF AskForms
<1>6. CASE dialect = "chat"
  <2>1. question(form) = ChatMessage("user", content, <<>>, None)
    BY <1>1, <1>2, <1>6 DEF question
  <2>2. question(form).content = content /\ question(form).calls = <<>>
    BY <2>1, ChatMessageFields
  <2> QED  BY <1>5, <2>2, ShortSeqs
<1>7. CASE dialect = "responses"
  <2>1. \E type : question(form) = Item(type, "user", content, None, <<>>)
    BY <1>1, <1>2, <1>7, Zenon DEF question
  <2>2. question(form).content = content
    BY <2>1, ItemFields
  <2> QED  BY <1>5, <1>7, <2>2
<1> QED  BY <1>6, <1>7

LEMMA AdoptedIsClients ==
  ASSUME dialect \in {"chat", "responses"}, plainAnswer(dialect, got.answer)
  PROVE  clientMessages(dialect, adopted)
<1>1. CASE dialect = "chat"
  <2>1. PICK choice : choice = got.answer.choices[1] /\ plainChoice(choice)
    <3>1. PICK S : got.answer.choices \in Seq(S)
      BY <1>1 DEF plainAnswer, isSeq
    <3>2. 1 \in DOMAIN got.answer.choices
      BY <1>1, <3>1 DEF plainAnswer
    <3> QED  BY <1>1, <3>2 DEF plainAnswer
  <2>2. adopted = <<ChatMessage("assistant", String(choice.text), choice.calls, None)>>
    BY <1>1, <2>1 DEF adopted
  <2>3. plainMessage("chat", ChatMessage("assistant", String(choice.text), choice.calls, None))
    BY <2>1, ChatMessageFields, PlainString DEF plainMessage, plainChoice
  <2> QED  BY <1>1, <2>2, <2>3, PlainLists, PlainIsClients
<1>2. CASE dialect = "responses"
  <2>1. adopted = got.answer.output
    BY <1>2 DEF adopted
  <2> QED  BY <1>2, <2>1, PlainIsClients DEF plainAnswer
<1> QED  BY <1>1, <1>2

LEMMA OpenCallsIsSeq ==
  ASSUME dialect \in {"chat", "responses"},
         phase = "received" => plainAnswer(dialect, got.answer)
  PROVE  isSeq(openCalls)
<1>1. CASE phase # "received"
  BY <1>1, ShortSeqs DEF openCalls
<1>2. CASE phase = "received" /\ dialect = "chat"
  <2>1. openCalls = got.answer.choices[1].calls
    BY <1>2 DEF openCalls, readAnswer, Answer
  <2>2. PICK S : got.answer.choices \in Seq(S)
    BY <1>2 DEF plainAnswer, isSeq
  <2>3. 1 \in DOMAIN got.answer.choices
    BY <1>2, <2>2 DEF plainAnswer
  <2> QED  BY <1>2, <2>1, <2>3 DEF plainAnswer, plainChoice
<1>3. CASE phase = "received" /\ dialect = "responses"
  <2> DEFINE t == [i \in DOMAIN got.answer.output |->
                     IF got.answer.output[i].type = "function_call"
                     THEN <<got.answer.output[i].id>> ELSE <<>>]
  <2>1. openCalls = FlattenSeq(t)
    BY <1>3 DEF openCalls, readAnswer, readOutput, Answer, joined, each
  <2>2. isSeq(got.answer.output)
    BY <1>3 DEF plainAnswer, plainMessages
  <2>3. \A i \in DOMAIN got.answer.output : isSeq(t[i])
    BY ShortSeqs
  <2> QED  BY <2>1, <2>2, <2>3, JoinedElements
<1> QED  BY <1>1, <1>2, <1>3

LEMMA ReplyIsClients ==
  ASSUME NEW form, dialect \in {"chat", "responses"}, isSeq(openCalls)
  PROVE  clientMessages(dialect, reply(form))
<1>1. CASE dialect = "chat"
  <2> DEFINE t == [i \in DOMAIN openCalls |->
                     ChatMessage("tool", String(resultText(openCalls[i])), <<>>, openCalls[i])]
  <2>1. reply(form) = t
    BY <1>1 DEF reply, each
  <2>2. isSeq(t)
    BY EachIsSeq
  <2>3. \A id : isSeq(resultText(id))
    BY ShortSeqs DEF resultText
  <2>4. \A id : plainMessage("chat", ChatMessage("tool", String(resultText(id)), <<>>, id))
    BY <2>3, ChatMessageFields, PlainString, ShortSeqs DEF plainMessage
  <2>5. plainMessages("chat", t)
    BY <2>2, <2>4 DEF plainMessages
  <2> QED  BY <1>1, <2>1, <2>5, PlainIsClients
<1>2. CASE dialect = "responses"
  <2> DEFINE t == [i \in DOMAIN openCalls |-> OutputItem(openCalls[i], resultText(openCalls[i]))]
  <2>1. reply(form) = t
    BY <1>2 DEF reply, each
  <2>2. isSeq(t)
    BY EachIsSeq
  <2>3. plainMessages("responses", t)
    BY <2>2, PlainItems DEF plainMessages
  <2> QED  BY <1>2, <2>1, <2>3, PlainIsClients
<1> QED  BY <1>1, <1>2
-----------------------------------------------------------------------------
(* The invariant.                                                          *)

\* What the client receives of an answer it can read.
LEMMA ReceivedIsPlain ==
  ASSUME NEW d \in {"chat", "responses"}, NEW u \in Dialects, NEW b, isBody(b),
         b.form = "json" => b.dialect = u /\ plainAnswer(u, b.answer),
         NEW received, received = writeProtocolResponse(d, u, b).got,
         received.form = "json", received.dialect = d
  PROVE  plainAnswer(d, received.answer)
<1>1. \A x, y : delivered(x, y).got = x
  BY DEF delivered
<1>2. ASSUME b.form = "json" PROVE plainAnswer(d, convertResponse(d, u, b.answer))
  BY <1>2, PlainAnswerDecoded, PlainAnswerEncoded DEF convertResponse
<1>3. \A x : Body("json", FALSE, d, x).answer = x
  BY DEF Body
<1>4. Empty.form # "json"
  BY BodiesDiffer
<1>5. ASSUME received = b PROVE plainAnswer(d, received.answer)
  BY <1>5
<1>6. ASSUME NEW v, received = convertedNonStreamResponse(d, v, b).got, v = u
      PROVE  plainAnswer(d, received.answer)
  <2>1. CASE b.form # "json"
    <3>1. convertedNonStreamResponse(d, v, b) = delivered(b, Plain(b))
      BY <2>1 DEF convertedNonStreamResponse
    <3> QED  BY <1>1, <1>6, <2>1, <3>1
  <2>2. CASE b.form = "json"
    <3>1. PICK x : x = Body("json", FALSE, d, convert(d, u, b.answer))
      OBVIOUS
    <3>2. convertedNonStreamResponse(d, v, b) = delivered(x, x)
      BY <1>6, <2>2, <3>1 DEF convertedNonStreamResponse
    <3>3. received.answer = convert(d, u, b.answer)
      <4>1. received = x
        BY <1>1, <1>6, <3>2
      <4>2. x.answer = convert(d, u, b.answer)
        BY <1>3, <3>1
      <4> QED  BY <4>1, <4>2
    <3>4. convert(d, u, b.answer) = convertResponse(d, u, b.answer)
      BY DEF convert
    <3> QED  BY <1>2, <2>2, <3>3, <3>4
  <2> QED  BY <2>1, <2>2
<1>7. CASE b = Empty
  BY <1>1, <1>4, <1>7 DEF writeProtocolResponse
<1>8. CASE b # Empty
  <2>1. CASE d = u /\ d # "chat"
    <3>1. writeProtocolResponse(d, u, b) = delivered(b, b)
      BY <1>8, <2>1 DEF writeProtocolResponse, passthroughNonStreamResponse
    <3> QED  BY <1>1, <1>5, <3>1
  <2>2. CASE d = "chat" /\ u = "chat"
    <3>1. writeProtocolResponse(d, u, b) = convertedNonStreamResponse(d, u, b)
      BY <1>8, <2>2 DEF writeProtocolResponse, handleNonStreamResponse
    <3> QED  BY <1>6, <3>1
  <2>3. CASE d = "responses" /\ u = "chat"
    <3>1. \/ writeProtocolResponse(d, u, b) = convertedNonStreamResponse(d, u, b)
          \/ writeProtocolResponse(d, u, b) = delivered(b, b)
      BY <1>8, <2>3 DEF writeProtocolResponse, handleResponsesNonStreamResponse
    <3> QED  BY <1>1, <1>5, <1>6, <3>1
  <2>4. CASE ~(d = u /\ d # "chat") /\ ~(d = "chat" /\ u = "chat")
             /\ ~(d = "responses" /\ u = "chat")
    <3>1. writeProtocolResponse(d, u, b) = convertedNonStreamResponse(d, u, b)
      BY <1>8, <2>4 DEF writeProtocolResponse
    <3> QED  BY <1>6, <3>1
  <2> QED  BY <2>1, <2>2, <2>3, <2>4
<1> QED  BY <1>7, <1>8

LEMMA InitInv == Init => ConversationInv
<1> SUFFICES ASSUME Init PROVE ConversationInv
  OBVIOUS
<1>1. ConversationTypeOK /\ AnswerLogged
  BY InitConversation
<1>2. /\ dialect \in Dialects /\ settings \in Settings /\ phase = "writing"
      /\ written = firstWritten(dialect, settings) /\ sent = NotSent
  BY DEF Init
<1>3. RequestInv
  <2>1. PICK q : q = firstWritten(dialect, settings)
    OBVIOUS
  <2>2. /\ isRequest(q) /\ plainParts(q.system.parts) /\ q.maxTokens \in Nat
        /\ {"form", "parallel"} \subseteq DOMAIN q.choice
        /\ dialect = "anthropic" => q.parallel = "absent"
        /\ dialect # "anthropic" =>
             q.choice.form # "anthropic" /\ clientMessages(dialect, q.messages)
    BY <1>2, <2>1, FirstWrittenFields
  <2>3. written = q
    BY <1>2, <2>1
  <2> QED  BY <2>2, <2>3 DEF RequestInv
<1>4. ReceivedInv
  BY <1>2 DEF ReceivedInv
<1>5. SentInv
  BY <1>2 DEF SentInv, isSent
<1> QED  BY <1>1, <1>3, <1>4, <1>5 DEF ConversationInv

\* The client writes its next message.
LEMMA WritesKeepsInv ==
  ASSUME ConversationInv, canWrite, NEW messages, writes(messages),
         dialect # "anthropic" => clientMessages(dialect, messages)
  PROVE  RequestInv' /\ ReceivedInv' /\ SentInv'
<1>1. /\ written' = [written EXCEPT !.messages = messages] /\ phase' = "dispatching"
      /\ sent' = NotSent /\ dialect' = dialect
  BY DEF writes
<1>2. RequestInv
  BY DEF ConversationInv
<1>3. PICK q, w : q = written' /\ w = written
  OBVIOUS
<1>4. /\ isRequest(q) /\ q.system = w.system /\ q.maxTokens = w.maxTokens
      /\ q.choice = w.choice /\ q.parallel = w.parallel /\ q.messages = messages
  BY <1>1, <1>2, <1>3 DEF RequestInv, isRequest, RequestFields
<1>5. RequestInv'
  BY <1>1, <1>2, <1>3, <1>4 DEF RequestInv
<1>6. ReceivedInv'
  BY <1>1 DEF ReceivedInv
<1>7. SentInv'
  BY <1>1 DEF SentInv, isSent
<1> QED  BY <1>5, <1>6, <1>7

LEMMA HistoryIsClients ==
  ASSUME ConversationInv, canWrite, dialect # "anthropic"
  PROVE  /\ clientMessages(dialect, history)
         /\ isSeq(openCalls)
         /\ dialect \in {"chat", "responses"}
<1>1. dialect \in {"chat", "responses"}
  BY DEF ConversationInv, ConversationTypeOK, Dialects
<1>2. clientMessages(dialect, written.messages)
  BY DEF ConversationInv, RequestInv
<1>3. phase # "writing" => phase = "received" /\ plainAnswer(dialect, got.answer)
  BY DEF ConversationInv, ReceivedInv, canWrite
<1>4. clientMessages(dialect, history)
  <2>1. CASE phase = "writing"
    BY <1>2, <2>1 DEF history
  <2>2. CASE phase # "writing"
    <3>1. clientMessages(dialect, adopted)
      BY <1>1, <1>3, <2>2, AdoptedIsClients
    <3> QED  BY <1>2, <2>2, <3>1, ConcatClientLists DEF history
  <2> QED  BY <2>1, <2>2
<1>5. isSeq(openCalls)
  BY <1>1, <1>3, OpenCallsIsSeq
<1> QED  BY <1>1, <1>4, <1>5

LEMMA AppendIsClients ==
  ASSUME NEW d, NEW s, clientMessages(d, s), NEW m, clientMessage(d, m)
  PROVE  clientMessages(d, Append(s, m))
<1>1. PICK S : s \in Seq(S)
  BY DEF clientMessages, isSeq
<1>2. s \in Seq(S \union {m})
  BY <1>1
<1>3. Append(s, m) = s \o <<m>>
  BY <1>2
<1> QED  BY <1>3, ClientLists, ConcatClientLists

\* Steps that leave the request, and what was sent of it.
LEMMA KeptWithWritten ==
  ASSUME ConversationInv,
         UNCHANGED <<dialect, pool, written>>, UNCHANGED sent
  PROVE  RequestInv' /\ SentInv'
<1>1. RequestInv'
  BY DEF ConversationInv, RequestInv
<1>2. candidates' = candidates
  BY DEF candidates
<1>3. SentInv'
  BY <1>2 DEF ConversationInv, SentInv, isSent
<1> QED  BY <1>1, <1>3

LEMMA RespondsKeepsReceived ==
  ASSUME ConversationInv, NEW b, NEW m, responds(b, m), isBody(b),
         b.form = "json" => b.dialect = sent.upstream /\ plainAnswer(sent.upstream, b.answer)
  PROVE  RequestInv' /\ ReceivedInv' /\ SentInv'
<1>1. PICK result : result = writeProtocolResponse(dialect, sent.upstream, b)
  OBVIOUS
<1>2. /\ phase = "sent" /\ got' = result.got /\ dialect' = dialect
      /\ UNCHANGED <<dialect, pool, written>> /\ UNCHANGED sent
  BY <1>1 DEF responds
<1>3. dialect \in Dialects /\ sent.upstream \in Dialects
  BY <1>2 DEF ConversationInv, ConversationTypeOK
<1>4. ReceivedInv'
  <2> SUFFICES ASSUME got'.form = "json", got'.dialect = dialect, dialect # "anthropic"
               PROVE  plainAnswer(dialect, got'.answer)
    BY <1>2 DEF ReceivedInv
  <2>1. dialect \in {"chat", "responses"}
    BY <1>3 DEF Dialects
  <2> QED  BY <1>1, <1>2, <1>3, <2>1, ReceivedIsPlain
<1> QED  BY <1>2, <1>4, KeptWithWritten

LEMMA NextInv == ConversationInv /\ [Next]_vars => ConversationInv'
<1> SUFFICES ASSUME ConversationInv, [Next]_vars
             PROVE  RequestInv' /\ ReceivedInv' /\ SentInv'
  BY NextConversation DEF ConversationInv
<1>1. ASSUME NEW form \in AskForms, ask(form)
      PROVE  RequestInv' /\ ReceivedInv' /\ SentInv'
  <2>1. PICK messages : messages = Append(history, question(form))
    OBVIOUS
  <2>2. canWrite /\ writes(messages)
    BY <1>1, <2>1 DEF ask
  <2>3. dialect # "anthropic" => clientMessages(dialect, messages)
    BY <2>1, <2>2, HistoryIsClients, QuestionIsClients, AppendIsClients
  <2> QED  BY <2>2, <2>3, WritesKeepsInv
<1>2. ASSUME NEW form \in ReplyForms, answerCalls(form)
      PROVE  RequestInv' /\ ReceivedInv' /\ SentInv'
  <2>1. PICK messages : messages = history \o reply(form)
    OBVIOUS
  <2>2. canWrite /\ writes(messages)
    BY <1>2, <2>1 DEF answerCalls
  <2>3. dialect # "anthropic" => clientMessages(dialect, messages)
    BY <2>1, <2>2, HistoryIsClients, ReplyIsClients, ConcatClientLists
  <2> QED  BY <2>2, <2>3, WritesKeepsInv
<1>3. CASE reject \/ bodyBreaksOff \/ attemptFails
  <2>1. /\ UNCHANGED <<dialect, pool, written>> /\ UNCHANGED sent
        /\ phase' \in {"over", "dispatching"}
    BY <1>3 DEF reject, bodyBreaksOff, attemptFails
  <2>2. ReceivedInv'
    BY <2>1 DEF ReceivedInv
  <2> QED  BY <2>1, <2>2, KeptWithWritten
<1>4. ASSUME NEW b \in Backends, send(b)
      PROVE  RequestInv' /\ ReceivedInv' /\ SentInv'
  <2>1. PICK q : /\ q = sendProtocolRequest(dialect, pool[b].upstream,
                          normalizeEnvelopeForConfig(written, pool[b], dialect))
                 /\ sent' = [backend |-> b, upstream |-> pool[b].upstream, request |-> q]
    BY <1>4 DEF send
  <2>2. /\ b \in candidates /\ phase' = "sent"
        /\ dialect' = dialect /\ pool' = pool /\ written' = written
    BY <1>4 DEF send, untried
  <2>3. candidates' = candidates
    BY <2>2 DEF candidates
  <2>4. sent'.backend = b /\ sent'.upstream = pool[b].upstream /\ sent'.request = q
    BY <2>1
  <2>5. SentInv'
    BY <2>1, <2>2, <2>3, <2>4 DEF SentInv
  <2>6. RequestInv'
    BY <2>2 DEF ConversationInv, RequestInv
  <2>7. ReceivedInv'
    BY <2>2 DEF ReceivedInv
  <2> QED  BY <2>5, <2>6, <2>7
<1>5. ASSUME NEW a \in Answers, NEW gzip \in BOOLEAN, answer(a, gzip)
      PROVE  RequestInv' /\ ReceivedInv' /\ SentInv'
  <2>1. PICK b : b = Body("json", gzip, sent.upstream, answered(sent.upstream, a))
    OBVIOUS
  <2>2. phase = "sent" /\ responds(b, meaning(a))
    BY <1>5, <2>1 DEF answer
  <2>3. sent.upstream \in Dialects /\ a.calls \in Nat
    BY <2>2, ConversationAssumption DEF ConversationInv, ConversationTypeOK
  <2>4. b.dialect = sent.upstream /\ b.answer = answered(sent.upstream, a)
    BY <2>1 DEF Body
  <2>5. isBody(b)
    BY <2>1 DEF isBody
  <2>6. plainAnswer(sent.upstream, b.answer)
    BY <2>3, <2>4, PlainAnswered
  <2> QED  BY <2>2, <2>4, <2>5, <2>6, RespondsKeepsReceived
<1>6. ASSUME NEW gzip \in BOOLEAN, answerUnreadable(gzip)
      PROVE  RequestInv' /\ ReceivedInv' /\ SentInv'
  <2>1. PICK d, x : responds(Body("malformed", gzip, d, x), NoAnswer)
    BY <1>6, Zenon DEF answerUnreadable
  <2>2. PICK b : b = Body("malformed", gzip, d, x)
    OBVIOUS
  <2>3. b.form # "json" /\ isBody(b)
    BY <2>2 DEF Body, isBody
  <2> QED  BY <2>1, <2>2, <2>3, RespondsKeepsReceived
<1>7. CASE answerEmpty
  <2>1. Empty.form # "json"
    BY BodiesDiffer
  <2>2. isBody(Empty)
    <3>1. PICK d, x : Empty = Body("empty", FALSE, d, x)
      BY Zenon DEF Empty
    <3> QED  BY <3>1 DEF isBody
  <2>3. responds(Empty, NoAnswer)
    BY <1>7 DEF answerEmpty
  <2> QED  BY <2>1, <2>2, <2>3, RespondsKeepsReceived
<1>8. CASE UNCHANGED vars
  <2>1. UNCHANGED <<dialect, pool, written>> /\ UNCHANGED sent /\ UNCHANGED <<phase, got>>
    BY <1>8 DEF vars
  <2>2. ReceivedInv'
    BY <2>1 DEF ConversationInv, ReceivedInv
  <2> QED  BY <2>1, <2>2, KeptWithWritten
<1> QED  BY <1>1, <1>2, <1>3, <1>4, <1>5, <1>6, <1>7, <1>8 DEF Next

\* What a backend is sent stays, for every client and backend dialect and in
\* every reachable state, within what its config says it can do.
THEOREM SentIsAcceptable == Spec => []SentAcceptable
<1> QED  BY InitInv, NextInv, InvImpliesAcceptable, PTL DEF Spec
-----------------------------------------------------------------------------
(* What the codecs and the readers join from the parts of an answer: each  *)
(* operator by itself, and that the codec's definition is its join.        *)

LEMMA TextsJoin == \A s : encodeTextContent(s) = Joins!join("text", s)
<1> TAKE s
<1>1. [i \in DOMAIN s |-> textIn(s[i])] = [i \in DOMAIN s |-> through("text", s[i])]
  BY ThroughPart, Zenon
<1> QED  BY <1>1, JoinOfEach, Zenon DEF encodeTextContent, joined, each, textIn

LEMMA CallsJoin == \A s : encodeToolCalls(s) = Joins!join("call", s)
<1> TAKE s
<1>1. [i \in DOMAIN s |-> callIn(s[i])] = [i \in DOMAIN s |-> through("call", s[i])]
  BY ThroughPart, Zenon
<1> QED  BY <1>1, JoinOfEach, Zenon DEF encodeToolCalls, joined, each, callIn

LEMMA ReasoningsJoin ==
  \A s : encodeReasoningContent(s) =
           IF Joins!join("reasoning", s) = <<>> THEN <<>>
           ELSE Joins!join("reasoning", s)[1].text
<1> TAKE s
<1>1. [i \in DOMAIN s |-> reasoningIn(s[i])] = [i \in DOMAIN s |-> through("reasoning", s[i])]
  BY ThroughPart, Zenon
<1> QED  BY <1>1, JoinOfEach, Zenon
         DEF encodeReasoningContent, chosen, joined, each, reasoningIn

LEMMA TextsOutJoin ==
  \A s : encodeResponsesOutputContent(s) = Joins!join("textOut", s)
<1> TAKE s
<1>1. [i \in DOMAIN s |-> textOut(s[i])] = [i \in DOMAIN s |-> through("textOut", s[i])]
  BY ThroughPart, Zenon
<1> QED  BY <1>1, JoinOfEach, Zenon
         DEF encodeResponsesOutputContent, joined, each, textOut

LEMMA MessageOutJoin ==
  \A m : encodeResponsesOutputMessage(m) =
           (IF encodeTextContent(m.content) # <<>> \/ hasNonTextParts(m.content)
            THEN <<MessageItem("assistant",
                     List(encodeResponsesOutputContent(m.content)))>>
            ELSE <<>>) \o Joins!join("itemsOut", m.content)
<1> TAKE m
<1> DEFINE s == m.content
<1>1. [i \in DOMAIN s |-> itemOut(s[i])] = [i \in DOMAIN s |-> through("itemsOut", s[i])]
  BY ThroughPart, Zenon
<1> QED  BY <1>1, JoinOfEach, Zenon
         DEF encodeResponsesOutputMessage, joined, each, itemOut

LEMMA MessageBlocksJoin == \A m : messageBlocks(m) = Joins!join("blockOut", m.content)
<1> TAKE m
<1> DEFINE s == m.content
<1>1. [i \in DOMAIN s |-> blockOut(s[i])] = [i \in DOMAIN s |-> through("blockOut", s[i])]
  BY ThroughPart, Zenon
<1> QED  BY <1>1, JoinOfEach, Zenon DEF messageBlocks, joined, each

LEMMA BlocksOutJoin ==
  \A s : encodeAnthropicContent(s) = Joins!join("messageBlocks", s)
<1> TAKE s
<1>1. [i \in DOMAIN s |-> messageBlocks(s[i])]
        = [i \in DOMAIN s |-> through("messageBlocks", s[i])]
  BY ThroughAnswer, Zenon
<1> QED  BY <1>1, JoinOfEach, Zenon
         DEF encodeAnthropicContent, joined, each, messageBlocks, blockOut

LEMMA BlocksInJoin ==
  \A s : decodeAnthropicContent(s) =
           IF Joins!join("blockIn", s) = <<>> THEN <<>>
           ELSE <<IRMessage("assistant", Joins!join("blockIn", s), None)>>
<1> TAKE s
<1>1. [i \in DOMAIN s |-> blockIn(s[i])] = [i \in DOMAIN s |-> through("blockIn", s[i])]
  BY ThroughPart, Zenon
<1> QED  BY <1>1, JoinOfEach, Zenon DEF decodeAnthropicContent, joined, each, blockIn

LEMMA ItemsInJoin == \A s : decodeResponsesOutput(s) = Joins!join("itemIn", s)
<1> TAKE s
<1>1. [i \in DOMAIN s |-> decodeResponsesOutputItem(s[i])]
        = [i \in DOMAIN s |-> through("itemIn", s[i])]
  BY ThroughAnswer, Zenon
<1> QED  BY <1>1, JoinOfEach, Zenon DEF decodeResponsesOutput, joined, each

LEMMA MessagesOutJoin == \A s : encodeResponsesOutput(s) = Joins!join("messageOut", s)
<1> TAKE s
<1>1. [i \in DOMAIN s |-> encodeResponsesOutputMessage(s[i])]
        = [i \in DOMAIN s |-> through("messageOut", s[i])]
  BY ThroughAnswer, Zenon
<1> QED  BY <1>1, JoinOfEach, Zenon DEF encodeResponsesOutput, joined, each

\* What a client reads in an output, and in blocks, of one kind.
LEMMA ItemsReadJoin ==
  \A s : readOutput(s) = Answer(Joins!join("itemThinking", s), Joins!join("itemText", s),
                                Joins!join("itemCalls", s))
<1> TAKE s
<1>1. /\ [i \in DOMAIN s |-> thinkingOfItem(s[i])]
           = [i \in DOMAIN s |-> through("itemThinking", s[i])]
      /\ [i \in DOMAIN s |-> textOfItem(s[i])]
           = [i \in DOMAIN s |-> through("itemText", s[i])]
      /\ [i \in DOMAIN s |-> callOfItem(s[i])]
           = [i \in DOMAIN s |-> through("itemCalls", s[i])]
  BY ThroughAnswer, Zenon
<1> QED  BY <1>1, JoinOfEach, Zenon
         DEF readOutput, joined, each, thinkingOfItem, textOfItem, callOfItem

LEMMA BlocksReadJoin ==
  \A s : readBlocks(s) = Answer(Joins!join("blockThinking", s), encodeTextContent(s),
                                Joins!join("blockCalls", s))
<1> TAKE s
<1>1. /\ [i \in DOMAIN s |-> thinkingOfBlock(s[i])]
           = [i \in DOMAIN s |-> through("blockThinking", s[i])]
      /\ [i \in DOMAIN s |-> callOfBlock(s[i])]
           = [i \in DOMAIN s |-> through("blockCalls", s[i])]
  BY ThroughAnswer, Zenon
<1> QED  BY <1>1, JoinOfEach, Zenon
         DEF readBlocks, joined, each, thinkingOfBlock, callOfBlock
-----------------------------------------------------------------------------
(* The parts an answer has in the form between, and what is joined from    *)
(* each.  Thinking and text come in either order, the calls after them.    *)

irText(text, raw, type) ==
  IF text = <<>> THEN <<>> ELSE <<IRPart(type, text, None, raw)>>
irThinking(thinking) == IF thinking = <<>> THEN <<>> ELSE <<reasoningPart(thinking)>>
irCalls(calls) == each(calls, toolCall)
callItems(calls) == each(calls, CallItem)
toolUses(calls) == each(calls, ToolUse)

itemsOfThinking(thinking) == IF thinking = <<>> THEN <<>> ELSE <<ReasoningItem(thinking)>>
itemsOfText(text) ==
  IF text = <<>> THEN <<>>
  ELSE <<MessageItem("assistant", List(<<Part("output_text", text, None)>>))>>
blocksOfThinking(thinking) == IF thinking = <<>> THEN <<>> ELSE <<Thinking(thinking)>>
blocksOfText(text) == IF text = <<>> THEN <<>> ELSE <<Part("text", text, None)>>
outOfText(text) == IF text = <<>> THEN <<>> ELSE <<Part("output_text", text, None)>>

LEMMA EachOf ==
  ASSUME NEW s, isSeq(s), NEW t, t = [i \in DOMAIN s |-> t[i]]
  PROVE  isSeq(t) /\ DOMAIN t = DOMAIN s
BY EachIsSeq

\* Every operator on a part of text.
textJoins(a, text) ==
  /\ Joins!joinsTo("text", a, text) /\ Joins!joinsTo("call", a, <<>>)
  /\ Joins!joinsTo("reasoning", a, <<>>) /\ Joins!joinsTo("textOut", a, outOfText(text))
  /\ Joins!joinsTo("itemsOut", a, <<>>) /\ Joins!joinsTo("blockOut", a, blocksOfText(text))

LEMMA TextPartJoins ==
  ASSUME NEW text, isSeq(text), NEW raw, NEW type \in {"text", "output_text"}
  PROVE  textJoins(irText(text, raw, type), text)
<1>1. CASE text = <<>>
  <2>1. irText(text, raw, type) = <<>> /\ outOfText(text) = <<>> /\ blocksOfText(text) = <<>>
    BY <1>1 DEF irText, outOfText, blocksOfText
  <2> QED  BY <1>1, <2>1, Joins!JoinsNothing
           DEF textJoins
<1>2. CASE text # <<>>
  <2>p. PICK p : p = IRPart(type, text, None, raw)
    OBVIOUS
  <2>1. p.type = type /\ p.text = text
    BY <2>p DEF IRPart
  <2>2. /\ irText(text, raw, type) = <<p>>
        /\ outOfText(text) = <<Part("output_text", text, None)>>
        /\ blocksOfText(text) = <<Part("text", text, None)>>
    BY <1>2, <2>p DEF irText, outOfText, blocksOfText
  <2>3. /\ through("text", p) = text /\ through("call", p) = <<>> /\ through("reasoning", p) = <<>>
        /\ through("textOut", p) = <<Part("output_text", text, None)>>
        /\ through("itemsOut", p) = <<>>
        /\ through("blockOut", p) = <<Part("text", text, None)>>
    BY <1>2, <2>1, ThroughPart
       DEF textIn, callIn, reasoningIn, textOut, itemOut, blockOut, TextTypes
  <2>4. isSeq(<<>>) /\ \A x : isSeq(<<x>>)
    BY ShortSeqs
  <2>5. Joins!joinsTo("text", <<p>>, text)
    BY <2>3, Joins!JoinsOne DEF isSeq, Joins!isSeq
  <2>6. Joins!joinsTo("call", <<p>>, <<>>)
    BY <2>3, <2>4, Joins!JoinsOne DEF isSeq, Joins!isSeq
  <2>7. Joins!joinsTo("reasoning", <<p>>, <<>>)
    BY <2>3, <2>4, Joins!JoinsOne DEF isSeq, Joins!isSeq
  <2>8. Joins!joinsTo("textOut", <<p>>, <<Part("output_text", text, None)>>)
    BY <2>3, <2>4, Joins!JoinsOne DEF isSeq, Joins!isSeq
  <2>9. Joins!joinsTo("itemsOut", <<p>>, <<>>)
    BY <2>3, <2>4, Joins!JoinsOne DEF isSeq, Joins!isSeq
  <2>10. Joins!joinsTo("blockOut", <<p>>, <<Part("text", text, None)>>)
    BY <2>3, <2>4, Joins!JoinsOne DEF isSeq, Joins!isSeq
  <2> QED  BY <2>2, <2>5, <2>6, <2>7, <2>8, <2>9, <2>10 DEF textJoins
<1> QED  BY <1>1, <1>2

\* On a part of thinking.
thinkingJoins(a, thinking) ==
  /\ Joins!joinsTo("text", a, <<>>) /\ Joins!joinsTo("call", a, <<>>)
  /\ Joins!joinsTo("reasoning", a, irThinking(thinking)) /\ Joins!joinsTo("textOut", a, <<>>)
  /\ Joins!joinsTo("itemsOut", a, itemsOfThinking(thinking))
  /\ Joins!joinsTo("blockOut", a, blocksOfThinking(thinking))

LEMMA ThinkingPartJoins ==
  ASSUME NEW thinking
  PROVE  thinkingJoins(irThinking(thinking), thinking)
<1>1. CASE thinking = <<>>
  <2>1. /\ irThinking(thinking) = <<>> /\ itemsOfThinking(thinking) = <<>>
        /\ blocksOfThinking(thinking) = <<>>
    BY <1>1 DEF irThinking, itemsOfThinking, blocksOfThinking
  <2> QED  BY <1>1, <2>1, Joins!JoinsNothing
           DEF thinkingJoins
<1>2. CASE thinking # <<>>
  <2>p. PICK p : p = reasoningPart(thinking)
    OBVIOUS
  <2>1. p.type = "reasoning" /\ p.text = thinking
    BY <2>p DEF reasoningPart, IRPart
  <2>2. /\ irThinking(thinking) = <<p>> /\ itemsOfThinking(thinking) = <<ReasoningItem(thinking)>>
        /\ blocksOfThinking(thinking) = <<Thinking(thinking)>>
    BY <1>2, <2>p DEF irThinking, itemsOfThinking, blocksOfThinking
  <2>3. /\ through("text", p) = <<>> /\ through("call", p) = <<>> /\ through("reasoning", p) = <<p>>
        /\ through("textOut", p) = <<>> /\ through("itemsOut", p) = <<ReasoningItem(thinking)>>
        /\ through("blockOut", p) = <<Thinking(thinking)>>
    BY <2>1, ThroughPart DEF textIn, callIn, reasoningIn, textOut, itemOut, blockOut, TextTypes
  <2>4. isSeq(<<>>) /\ \A x : isSeq(<<x>>)
    BY ShortSeqs
  <2>5. Joins!joinsTo("text", <<p>>, <<>>)
    BY <2>3, <2>4, Joins!JoinsOne DEF isSeq, Joins!isSeq
  <2>6. Joins!joinsTo("call", <<p>>, <<>>)
    BY <2>3, <2>4, Joins!JoinsOne DEF isSeq, Joins!isSeq
  <2>7. Joins!joinsTo("reasoning", <<p>>, <<p>>)
    BY <2>3, <2>4, Joins!JoinsOne DEF isSeq, Joins!isSeq
  <2>8. Joins!joinsTo("textOut", <<p>>, <<>>)
    BY <2>3, <2>4, Joins!JoinsOne DEF isSeq, Joins!isSeq
  <2>9. Joins!joinsTo("itemsOut", <<p>>, <<ReasoningItem(thinking)>>)
    BY <2>3, <2>4, Joins!JoinsOne DEF isSeq, Joins!isSeq
  <2>10. Joins!joinsTo("blockOut", <<p>>, <<Thinking(thinking)>>)
    BY <2>3, <2>4, Joins!JoinsOne DEF isSeq, Joins!isSeq
  <2> QED  BY <2>2, <2>5, <2>6, <2>7, <2>8, <2>9, <2>10 DEF thinkingJoins
<1> QED  BY <1>1, <1>2

\* On the calls.
callJoins(a, calls) ==
  /\ Joins!joinsTo("text", a, <<>>) /\ Joins!joinsTo("call", a, calls)
  /\ Joins!joinsTo("reasoning", a, <<>>) /\ Joins!joinsTo("textOut", a, <<>>)
  /\ Joins!joinsTo("itemsOut", a, callItems(calls))
  /\ Joins!joinsTo("blockOut", a, toolUses(calls))

LEMMA CallPartsJoin ==
  ASSUME NEW calls, isSeq(calls)
  PROVE  callJoins(irCalls(calls), calls)
<1>s. PICK s : s = irCalls(calls)
  OBVIOUS
<1>i. PICK items : items = callItems(calls)
  OBVIOUS
<1>b. PICK blocks : blocks = toolUses(calls)
  OBVIOUS
<1>1. /\ s = [i \in DOMAIN calls |-> s[i]] /\ items = [i \in DOMAIN calls |-> items[i]]
      /\ blocks = [i \in DOMAIN calls |-> blocks[i]]
  BY <1>s, <1>i, <1>b DEF irCalls, each, callItems, toolUses
<1>2. /\ isSeq(s) /\ DOMAIN s = DOMAIN calls /\ isSeq(items) /\ DOMAIN items = DOMAIN calls
      /\ isSeq(blocks) /\ DOMAIN blocks = DOMAIN calls
  BY <1>1, EachOf
<1>3. \A i \in DOMAIN s : /\ s[i] = toolCall(calls[i]) /\ items[i] = CallItem(calls[i])
                          /\ blocks[i] = ToolUse(calls[i])
  BY <1>2, <1>s, <1>i, <1>b DEF irCalls, each, callItems, toolUses
<1>4. \A id : /\ through("text", toolCall(id)) = <<>> /\ through("call", toolCall(id)) = <<id>>
              /\ through("reasoning", toolCall(id)) = <<>>
              /\ through("textOut", toolCall(id)) = <<>>
              /\ through("itemsOut", toolCall(id)) = <<CallItem(id)>>
              /\ through("blockOut", toolCall(id)) = <<ToolUse(id)>>
  <2> TAKE id
  <2>p. PICK p : p = toolCall(id)
    OBVIOUS
  <2>1. p.type = "tool_call" /\ p.id = id
    BY <2>p DEF toolCall, IRPart
  <2>2. /\ through("text", p) = <<>> /\ through("call", p) = <<id>>
        /\ through("reasoning", p) = <<>>
        /\ through("textOut", p) = <<>> /\ through("itemsOut", p) = <<CallItem(id)>>
        /\ through("blockOut", p) = <<ToolUse(id)>>
    BY <2>1, ThroughPart DEF textIn, callIn, reasoningIn, textOut, itemOut, blockOut, TextTypes
  <2> QED  BY <2>p, <2>2
<1>5. \A i \in DOMAIN s :
        /\ through("text", s[i]) = <<>> /\ through("call", s[i]) = <<calls[i]>>
        /\ through("reasoning", s[i]) = <<>> /\ through("textOut", s[i]) = <<>>
        /\ through("itemsOut", s[i]) = <<items[i]>> /\ through("blockOut", s[i]) = <<blocks[i]>>
  BY <1>3, <1>4
<1>6. Joins!joinsTo("text", s, <<>>)
  BY <1>2, <1>5, Joins!JoinsNone DEF isSeq, Joins!isSeq
<1>7. Joins!joinsTo("call", s, calls)
  BY <1>2, <1>5, Joins!JoinsSingles DEF isSeq, Joins!isSeq
<1>8. Joins!joinsTo("reasoning", s, <<>>)
  BY <1>2, <1>5, Joins!JoinsNone DEF isSeq, Joins!isSeq
<1>9. Joins!joinsTo("textOut", s, <<>>)
  BY <1>2, <1>5, Joins!JoinsNone DEF isSeq, Joins!isSeq
<1>10. Joins!joinsTo("itemsOut", s, items)
  BY <1>2, <1>5, Joins!JoinsSingles DEF isSeq, Joins!isSeq
<1>11. Joins!joinsTo("blockOut", s, blocks)
  BY <1>2, <1>5, Joins!JoinsSingles DEF isSeq, Joins!isSeq
<1> QED  BY <1>s, <1>i, <1>b, <1>6, <1>7, <1>8, <1>9, <1>10, <1>11 DEF callJoins

LEMMA EmptyConcat == \A x : isSeq(x) => x \o <<>> = x /\ <<>> \o x = x
<1> TAKE x
<1> HAVE isSeq(x)
<1>1. PICK S : x \in Seq(S)
  BY DEF isSeq
<1> QED  BY <1>1

\* What carries an answer's thinking, text and calls.
carries(parts, thinking, text, calls) ==
  \E raw : \E type \in {"text", "output_text"} :
    \/ parts = (irText(text, raw, type) \o irThinking(thinking)) \o irCalls(calls)
    \/ parts = (irThinking(thinking) \o irText(text, raw, type)) \o irCalls(calls)

bothOrders(s, a, b, c) == s = (a \o b) \o c \/ s = (b \o a) \o c

LEMMA CarriedHasNoMedia ==
  ASSUME NEW parts, NEW thinking, NEW text, NEW calls, isSeq(text), isSeq(calls),
         carries(parts, thinking, text, calls)
  PROVE  ~hasNonTextParts(parts)
<1>1. /\ "text" \notin MediaTypes /\ "output_text" \notin MediaTypes
      /\ "reasoning" \notin MediaTypes \union TextTypes
      /\ "tool_call" \notin MediaTypes \union TextTypes
      /\ "image" \in MediaTypes /\ "file" \in MediaTypes
  BY DEF MediaTypes, ImageTypes, FileTypes, TextTypes
<1>2. PICK raw : \E type \in {"text", "output_text"} :
        \/ parts = (irText(text, raw, type) \o irThinking(thinking)) \o irCalls(calls)
        \/ parts = (irThinking(thinking) \o irText(text, raw, type)) \o irCalls(calls)
  BY DEF carries
<1>3. PICK type \in {"text", "output_text"} :
        bothOrders(parts, irText(text, raw, type), irThinking(thinking), irCalls(calls))
  BY <1>2 DEF bothOrders
<1>4. plainParts(irText(text, raw, type))
  <2>p. PICK p : p = IRPart(type, text, None, raw)
    OBVIOUS
  <2>1. p.type = type /\ p.text = text
    BY <2>p DEF IRPart
  <2>2. plain(p)
    BY <1>1, <2>1 DEF plain
  <2>3. irText(text, raw, type) = <<>> \/ irText(text, raw, type) = <<p>>
    BY <2>p DEF irText
  <2> QED  BY <2>2, <2>3, PlainShort
<1>5. plainParts(irThinking(thinking))
  <2>p. PICK p : p = reasoningPart(thinking)
    OBVIOUS
  <2>1. p.type = "reasoning"
    BY <2>p DEF reasoningPart, IRPart
  <2>2. plain(p)
    BY <1>1, <2>1 DEF plain
  <2>3. irThinking(thinking) = <<>> \/ irThinking(thinking) = <<p>>
    BY <2>p DEF irThinking
  <2> QED  BY <2>2, <2>3, PlainShort
<1>6. plainParts(irCalls(calls))
  <2>c. PICK t : t = irCalls(calls)
    OBVIOUS
  <2>1. t = [i \in DOMAIN calls |-> t[i]]
    BY <2>c DEF irCalls, each
  <2>2. isSeq(t) /\ DOMAIN t = DOMAIN calls
    BY <2>1, EachOf
  <2>3. \A i \in DOMAIN t : t[i].type = "tool_call"
    BY <2>2, <2>c DEF irCalls, each, toolCall, IRPart
  <2>4. plainParts(t)
    BY <1>1, <2>2, <2>3 DEF plainParts, plain
  <2> QED  BY <2>c, <2>4
<1>7. plainParts(parts)
  BY <1>3, <1>4, <1>5, <1>6, PlainConcat DEF bothOrders
<1> QED  BY <1>1, <1>7 DEF plainParts, plain, hasNonTextParts

\* How the codecs write it.
LEMMA CarriedIsWritten ==
  ASSUME NEW parts, NEW thinking, NEW text, NEW calls, isSeq(text), isSeq(calls),
         carries(parts, thinking, text, calls)
  PROVE  /\ encodeTextContent(parts) = text
         /\ encodeToolCalls(parts) = calls
         /\ encodeReasoningContent(parts) = thinking
         /\ encodeResponsesOutputContent(parts) = outOfText(text)
         /\ Joins!join("itemsOut", parts) = itemsOfThinking(thinking) \o callItems(calls)
         /\ bothOrders(Joins!join("blockOut", parts), blocksOfText(text),
                       blocksOfThinking(thinking), toolUses(calls))
<1>1. PICK raw : \E type \in {"text", "output_text"} :
        \/ parts = (irText(text, raw, type) \o irThinking(thinking)) \o irCalls(calls)
        \/ parts = (irThinking(thinking) \o irText(text, raw, type)) \o irCalls(calls)
  BY DEF carries
<1>t. PICK t : t = irThinking(thinking) /\ thinkingJoins(t, thinking)
  BY ThinkingPartJoins
<1>c. PICK c : c = irCalls(calls) /\ callJoins(c, calls)
  BY CallPartsJoin
<1>2. PICK type \in {"text", "output_text"} : bothOrders(parts, irText(text, raw, type), t, c)
  BY <1>1, <1>t, <1>c DEF bothOrders
<1>x. PICK x : x = irText(text, raw, type) /\ textJoins(x, text)
  BY TextPartJoins
<1>3. parts = (x \o t) \o c \/ parts = (t \o x) \o c
  BY <1>2, <1>x DEF bothOrders
<1>4. /\ isSeq(text) /\ isSeq(calls) /\ isSeq(<<>>)
      /\ isSeq(irThinking(thinking)) /\ isSeq(outOfText(text))
      /\ isSeq(itemsOfThinking(thinking)) /\ isSeq(callItems(calls))
  <2>c. PICK e : e = callItems(calls)
    OBVIOUS
  <2>1. e = [i \in DOMAIN calls |-> e[i]]
    BY <2>c DEF each, callItems
  <2>2. isSeq(callItems(calls))
    BY <2>1, <2>c, EachOf
  <2> QED  BY <2>2, ShortSeqs DEF irThinking, outOfText, itemsOfThinking
<1>5. encodeTextContent(parts) = text
  <2>1. /\ Joins!joinsTo("text", x, text)
        /\ Joins!joinsTo("text", t, <<>>)
        /\ Joins!joinsTo("text", c, <<>>)
    BY <1>t, <1>x, <1>c DEF thinkingJoins, textJoins, callJoins
  <2>2. \/ Joins!joinsTo("text", parts, (text \o <<>>) \o <<>>)
        \/ Joins!joinsTo("text", parts, (<<>> \o text) \o <<>>)
    BY <1>3, <2>1, Joins!JoinsThree
  <2>3. Joins!joinsTo("text", parts, text)
    BY <1>4, <2>2, EmptyConcat
  <2> QED  BY <2>3, TextsJoin DEF Joins!joinsTo
<1>6. encodeToolCalls(parts) = calls
  <2>1. /\ Joins!joinsTo("call", x, <<>>)
        /\ Joins!joinsTo("call", t, <<>>)
        /\ Joins!joinsTo("call", c, calls)
    BY <1>t, <1>x, <1>c DEF thinkingJoins, textJoins, callJoins
  <2>2. Joins!joinsTo("call", parts, (<<>> \o <<>>) \o calls)
    BY <1>3, <2>1, Joins!JoinsThree
  <2>3. Joins!joinsTo("call", parts, calls)
    BY <1>4, <2>2, EmptyConcat
  <2> QED  BY <2>3, CallsJoin DEF Joins!joinsTo
<1>7. encodeReasoningContent(parts) = thinking
  <2>1. /\ Joins!joinsTo("reasoning", x, <<>>)
        /\ Joins!joinsTo("reasoning", t, irThinking(thinking))
        /\ Joins!joinsTo("reasoning", c, <<>>)
    BY <1>t, <1>x, <1>c DEF thinkingJoins, textJoins, callJoins
  <2>2. \/ Joins!joinsTo("reasoning", parts, (<<>> \o irThinking(thinking)) \o <<>>)
        \/ Joins!joinsTo("reasoning", parts, (irThinking(thinking) \o <<>>) \o <<>>)
    BY <1>3, <2>1, Joins!JoinsThree
  <2>3. Joins!joinsTo("reasoning", parts, irThinking(thinking))
    BY <1>4, <2>2, EmptyConcat
  <2>4. Joins!join("reasoning", parts) = irThinking(thinking)
    BY <2>3 DEF Joins!joinsTo
  <2>5. reasoningPart(thinking).text = thinking
    BY DEF reasoningPart, IRPart
  <2>6. irThinking(thinking) = IF thinking = <<>> THEN <<>> ELSE <<reasoningPart(thinking)>>
    BY DEF irThinking
  <2>7. \A p : <<p>> # <<>> /\ <<p>>[1] = p
    OBVIOUS
  <2> QED  BY <2>4, <2>5, <2>6, <2>7, ReasoningsJoin
<1>8. encodeResponsesOutputContent(parts) = outOfText(text)
  <2>1. /\ Joins!joinsTo("textOut", x, outOfText(text)) /\ Joins!joinsTo("textOut", t, <<>>)
        /\ Joins!joinsTo("textOut", c, <<>>)
    BY <1>t, <1>x, <1>c DEF thinkingJoins, textJoins, callJoins
  <2>2. \/ Joins!joinsTo("textOut", parts, (outOfText(text) \o <<>>) \o <<>>)
        \/ Joins!joinsTo("textOut", parts, (<<>> \o outOfText(text)) \o <<>>)
    BY <1>3, <2>1, Joins!JoinsThree
  <2>3. Joins!joinsTo("textOut", parts, outOfText(text))
    BY <1>4, <2>2, EmptyConcat
  <2> QED  BY <2>3, TextsOutJoin DEF Joins!joinsTo
<1>9. Joins!join("itemsOut", parts) = itemsOfThinking(thinking) \o callItems(calls)
  <2>1. /\ Joins!joinsTo("itemsOut", x, <<>>)
        /\ Joins!joinsTo("itemsOut", t, itemsOfThinking(thinking))
        /\ Joins!joinsTo("itemsOut", c, callItems(calls))
    BY <1>t, <1>x, <1>c DEF thinkingJoins, textJoins, callJoins
  <2>2. \/ Joins!joinsTo("itemsOut", parts,
             (<<>> \o itemsOfThinking(thinking)) \o callItems(calls))
        \/ Joins!joinsTo("itemsOut", parts,
             (itemsOfThinking(thinking) \o <<>>) \o callItems(calls))
    BY <1>3, <2>1, Joins!JoinsThree
  <2>3. Joins!joinsTo("itemsOut", parts, itemsOfThinking(thinking) \o callItems(calls))
    BY <1>4, <2>2, EmptyConcat
  <2> QED  BY <2>3 DEF Joins!joinsTo
<1>10. bothOrders(Joins!join("blockOut", parts), blocksOfText(text),
                  blocksOfThinking(thinking), toolUses(calls))
  <2>1. /\ Joins!joinsTo("blockOut", x, blocksOfText(text))
        /\ Joins!joinsTo("blockOut", t, blocksOfThinking(thinking))
        /\ Joins!joinsTo("blockOut", c, toolUses(calls))
    BY <1>t, <1>x, <1>c DEF thinkingJoins, textJoins, callJoins
  <2>2. \/ Joins!joinsTo("blockOut", parts,
             (blocksOfText(text) \o blocksOfThinking(thinking)) \o toolUses(calls))
        \/ Joins!joinsTo("blockOut", parts,
             (blocksOfThinking(thinking) \o blocksOfText(text)) \o toolUses(calls))
    BY <1>3, <2>1, Joins!JoinsThree
  <2> QED  BY <2>2 DEF Joins!joinsTo, bothOrders
<1> QED  BY <1>5, <1>6, <1>7, <1>8, <1>9, <1>10
-----------------------------------------------------------------------------
(* How a client reads the items and blocks of an answer, and how the       *)
(* codecs decode them.                                                     *)

LEMMA EachMade ==
  ASSUME NEW calls, isSeq(calls), NEW s, s = [i \in DOMAIN calls |-> s[i]]
  PROVE  isSeq(s) /\ DOMAIN calls = DOMAIN s
BY EachOf

\* An item as it is read.
readsItem(i, thinking, text, calls) ==
  /\ through("itemThinking", i) = thinking /\ through("itemText", i) = text
  /\ through("itemCalls", i) = calls

readsItems(s, thinking, text, calls) ==
  /\ Joins!joinsTo("itemThinking", s, thinking) /\ Joins!joinsTo("itemText", s, text)
  /\ Joins!joinsTo("itemCalls", s, calls)

LEMMA NothingRead == readsItems(<<>>, <<>>, <<>>, <<>>)
BY Joins!JoinsNothing DEF readsItems

LEMMA OneItemRead ==
  ASSUME NEW i, NEW thinking, NEW text, NEW calls, isSeq(thinking), isSeq(text),
         isSeq(calls), readsItem(i, thinking, text, calls)
  PROVE  readsItems(<<i>>, thinking, text, calls)
BY Joins!JoinsOne DEF readsItem, readsItems, isSeq, Joins!isSeq

LEMMA TextsOfNone == encodeTextContent(<<>>) = <<>>
BY TextsJoin, Joins!JoinEmpty

LEMMA TextsOfOne ==
  ASSUME NEW p, p.type \in TextTypes
  PROVE  encodeTextContent(<<p>>) = p.text
<1>1. Joins!join("text", <<p>>) = through("text", p)
  BY Joins!JoinOne
<1> QED  BY <1>1, TextsJoin, ThroughPart DEF textIn

LEMMA ItemReads ==
  /\ \A thinking : readsItem(ReasoningItem(thinking), thinking, <<>>, <<>>)
  /\ \A text : readsItem(MessageItem("assistant", List(<<Part("output_text", text, None)>>)),
                         <<>>, text, <<>>)
  /\ \A id : readsItem(CallItem(id), <<>>, <<>>, <<id>>)
<1>1. ASSUME NEW i, NEW type, NEW parts, i.type = type, i.content.parts = parts
      PROVE  /\ through("itemThinking", i) = IF type = "reasoning" THEN i.text ELSE <<>>
             /\ through("itemText", i) = encodeTextContent(parts)
             /\ through("itemCalls", i) = IF type = "function_call" THEN <<i.id>> ELSE <<>>
  BY <1>1, ThroughAnswer DEF thinkingOfItem, textOfItem, callOfItem
<1>2. ASSUME NEW thinking
      PROVE  readsItem(ReasoningItem(thinking), thinking, <<>>, <<>>)
  <2>i. PICK i : i = ReasoningItem(thinking)
    OBVIOUS
  <2>1. i.type = "reasoning" /\ i.content.parts = <<>> /\ i.text = thinking
    BY <2>i DEF ReasoningItem, Item, List
  <2> QED  BY <1>1, <2>1, <2>i, TextsOfNone DEF readsItem
<1>3. ASSUME NEW text
      PROVE  readsItem(MessageItem("assistant", List(<<Part("output_text", text, None)>>)),
                       <<>>, text, <<>>)
  <2>p. PICK p : p = Part("output_text", text, None)
    OBVIOUS
  <2>1. p.type \in TextTypes /\ p.text = text
    BY <2>p DEF Part, TextTypes
  <2>i. PICK i : i = MessageItem("assistant", List(<<p>>))
    OBVIOUS
  <2>2. i.type = "message" /\ i.content.parts = <<p>>
    BY <2>i DEF MessageItem, Item, List
  <2>3. encodeTextContent(<<p>>) = text
    BY <2>1, TextsOfOne
  <2> QED  BY <1>1, <2>2, <2>3, <2>i, <2>p DEF readsItem
<1>4. ASSUME NEW id
      PROVE  readsItem(CallItem(id), <<>>, <<>>, <<id>>)
  <2>i. PICK i : i = CallItem(id)
    OBVIOUS
  <2>1. i.type = "function_call" /\ i.content.parts = <<>> /\ i.id = id
    BY <2>i DEF CallItem, Item, List
  <2> QED  BY <1>1, <2>1, <2>i, TextsOfNone DEF readsItem
<1> QED  BY <1>2, <1>3, <1>4

LEMMA CallItemsRead ==
  ASSUME NEW calls, isSeq(calls)
  PROVE  readsItems(callItems(calls), <<>>, <<>>, calls)
<1>s. PICK s : s = callItems(calls)
  OBVIOUS
<1>1. s = [i \in DOMAIN calls |-> s[i]]
  BY <1>s DEF each, callItems
<1>2. isSeq(s) /\ DOMAIN calls = DOMAIN s
  BY <1>1, EachMade
<1>3. \A i \in DOMAIN s : s[i] = CallItem(calls[i])
  BY <1>2, <1>s DEF each, callItems
<1>4. \A i \in DOMAIN s : readsItem(s[i], <<>>, <<>>, <<calls[i]>>)
  BY <1>3, ItemReads
<1>5. \A i \in DOMAIN s : /\ through("itemThinking", s[i]) = <<>>
                          /\ through("itemText", s[i]) = <<>>
                          /\ through("itemCalls", s[i]) = <<calls[i]>>
  BY <1>4 DEF readsItem
<1>6. Joins!isSeq(s) /\ Joins!isSeq(calls)
  BY <1>2 DEF isSeq, Joins!isSeq
<1>7. Joins!joinsTo("itemThinking", s, <<>>) /\ Joins!joinsTo("itemText", s, <<>>)
  BY <1>5, <1>6, Joins!JoinsNone
<1>8. Joins!joinsTo("itemCalls", s, calls)
  BY <1>2, <1>5, <1>6, Joins!JoinsSingles
<1> QED  BY <1>s, <1>7, <1>8 DEF readsItems

LEMMA ItemsAreRead ==
  ASSUME NEW thinking, NEW text, NEW calls, isSeq(thinking), isSeq(text), isSeq(calls),
         NEW s, bothOrders(s, itemsOfText(text), itemsOfThinking(thinking),
                           callItems(calls))
  PROVE  readOutput(s) = Answer(thinking, text, calls)
<1>0. isSeq(<<>>)
  BY ShortSeqs
<1>1. readsItems(itemsOfText(text), <<>>, text, <<>>)
  <2>1. CASE text = <<>>
    BY <2>1, NothingRead DEF itemsOfText
  <2>2. CASE text # <<>>
    BY <1>0, <2>2, OneItemRead, ItemReads DEF itemsOfText
  <2> QED  BY <2>1, <2>2
<1>2. readsItems(itemsOfThinking(thinking), thinking, <<>>, <<>>)
  <2>1. CASE thinking = <<>>
    BY <2>1, NothingRead DEF itemsOfThinking
  <2>2. CASE thinking # <<>>
    BY <1>0, <2>2, OneItemRead, ItemReads DEF itemsOfThinking
  <2> QED  BY <2>1, <2>2
<1>3. readsItems(callItems(calls), <<>>, <<>>, calls)
  BY CallItemsRead
<1>4. \/ s = (itemsOfText(text) \o itemsOfThinking(thinking)) \o callItems(calls)
      \/ s = (itemsOfThinking(thinking) \o itemsOfText(text)) \o callItems(calls)
  BY DEF bothOrders
<1>5. \/ Joins!joinsTo("itemThinking", s, (<<>> \o thinking) \o <<>>)
      \/ Joins!joinsTo("itemThinking", s, (thinking \o <<>>) \o <<>>)
  BY <1>1, <1>2, <1>3, <1>4, Joins!JoinsThree DEF readsItems
<1>6. \/ Joins!joinsTo("itemText", s, (<<>> \o text) \o <<>>)
      \/ Joins!joinsTo("itemText", s, (text \o <<>>) \o <<>>)
  BY <1>1, <1>2, <1>3, <1>4, Joins!JoinsThree DEF readsItems
<1>7. Joins!joinsTo("itemCalls", s, (<<>> \o <<>>) \o calls)
  BY <1>1, <1>2, <1>3, <1>4, Joins!JoinsThree DEF readsItems
<1>8. /\ Joins!join("itemThinking", s) = thinking /\ Joins!join("itemText", s) = text
      /\ Joins!join("itemCalls", s) = calls
  BY <1>0, <1>5, <1>6, <1>7, EmptyConcat DEF Joins!joinsTo
<1> QED  BY <1>8, ItemsReadJoin

readsBlocks(s, thinking, text, calls) ==
  /\ Joins!joinsTo("blockThinking", s, thinking) /\ Joins!joinsTo("text", s, text)
  /\ Joins!joinsTo("blockCalls", s, calls)

\* A block as it is read, and as it is decoded.
readsBlock(p, thinking, text, calls, part) ==
  /\ through("blockThinking", p) = thinking /\ through("text", p) = text
  /\ through("blockCalls", p) = calls /\ through("blockIn", p) = <<part>>

LEMMA BlockReads ==
  /\ \A thinking : readsBlock(Thinking(thinking), thinking, <<>>, <<>>,
                              reasoningPart(thinking))
  /\ \A text : readsBlock(Part("text", text, None), <<>>, text, <<>>,
                          IRPart("text", text, None, "text"))
  /\ \A id : readsBlock(ToolUse(id), <<>>, <<>>, <<id>>, toolCall(id))
<1>1. ASSUME NEW thinking
      PROVE  readsBlock(Thinking(thinking), thinking, <<>>, <<>>, reasoningPart(thinking))
  <2>p. PICK p : p = Thinking(thinking)
    OBVIOUS
  <2>1. p.type = "thinking" /\ p.text = thinking
    BY <2>p DEF Thinking, Part
  <2> QED  BY <2>1, <2>p, ThroughPart, ThroughAnswer
          DEF readsBlock, thinkingOfBlock, callOfBlock, textIn, blockIn, TextTypes
<1>2. ASSUME NEW text
      PROVE  readsBlock(Part("text", text, None), <<>>, text, <<>>,
                        IRPart("text", text, None, "text"))
  <2>p. PICK p : p = Part("text", text, None)
    OBVIOUS
  <2>1. p.type = "text" /\ p.text = text /\ p.id = None
    BY <2>p DEF Part
  <2>2. normalizeIRPartType("text") = "text"
    BY DEF normalizeIRPartType, ImageTypes, FileTypes
  <2>3. through("blockIn", p) = <<IRPart("text", text, None, "text")>>
    BY <2>1, <2>2, ThroughPart DEF blockIn, decodeAnthropicBlock, fromRaw
  <2> QED  BY <2>1, <2>3, <2>p, ThroughPart, ThroughAnswer
          DEF readsBlock, thinkingOfBlock, callOfBlock, textIn, TextTypes
<1>3. ASSUME NEW id
      PROVE  readsBlock(ToolUse(id), <<>>, <<>>, <<id>>, toolCall(id))
  <2>p. PICK p : p = ToolUse(id)
    OBVIOUS
  <2>1. p.type = "tool_use" /\ p.id = id
    BY <2>p DEF ToolUse, Part
  <2>2. through("blockIn", p) = <<toolCall(id)>>
    BY <2>1, ThroughPart DEF blockIn, decodeAnthropicBlock
  <2> QED  BY <2>1, <2>2, <2>p, ThroughPart, ThroughAnswer
          DEF readsBlock, thinkingOfBlock, callOfBlock, textIn, TextTypes
<1> QED  BY <1>1, <1>2, <1>3

LEMMA NoBlocksRead ==
  readsBlocks(<<>>, <<>>, <<>>, <<>>) /\ Joins!joinsTo("blockIn", <<>>, <<>>)
BY Joins!JoinsNothing DEF readsBlocks

LEMMA OneBlockRead ==
  ASSUME NEW p, NEW thinking, NEW text, NEW calls, isSeq(thinking), isSeq(text),
         isSeq(calls), NEW part, readsBlock(p, thinking, text, calls, part)
  PROVE  readsBlocks(<<p>>, thinking, text, calls) /\ Joins!joinsTo("blockIn", <<p>>, <<part>>)
<1>1. isSeq(<<part>>)
  BY ShortSeqs
<1>2. Joins!joinsTo("blockThinking", <<p>>, thinking) /\ Joins!joinsTo("blockCalls", <<p>>, calls)
  BY Joins!JoinsOne DEF readsBlock, isSeq, Joins!isSeq
<1>3. Joins!joinsTo("text", <<p>>, text)
  BY Joins!JoinsOne DEF readsBlock, isSeq, Joins!isSeq
<1>4. Joins!joinsTo("blockIn", <<p>>, <<part>>)
  BY <1>1, Joins!JoinsOne DEF readsBlock, isSeq, Joins!isSeq
<1> QED  BY <1>2, <1>3, <1>4 DEF readsBlocks

LEMMA CallBlocksRead ==
  ASSUME NEW calls, isSeq(calls)
  PROVE  /\ readsBlocks(toolUses(calls), <<>>, <<>>, calls)
         /\ Joins!joinsTo("blockIn", toolUses(calls), irCalls(calls))
<1>s. PICK s : s = toolUses(calls)
  OBVIOUS
<1>t. PICK t : t = irCalls(calls)
  OBVIOUS
<1>1. s = [i \in DOMAIN calls |-> s[i]] /\ t = [i \in DOMAIN calls |-> t[i]]
  BY <1>s, <1>t DEF each, toolUses, irCalls
<1>2. isSeq(s) /\ DOMAIN calls = DOMAIN s /\ isSeq(t) /\ DOMAIN t = DOMAIN s
  BY <1>1, EachMade
<1>3. \A i \in DOMAIN s : s[i] = ToolUse(calls[i]) /\ t[i] = toolCall(calls[i])
  BY <1>2, <1>s, <1>t DEF each, toolUses, irCalls
<1>4. \A i \in DOMAIN s : readsBlock(s[i], <<>>, <<>>, <<calls[i]>>, t[i])
  BY <1>3, BlockReads
<1>5. \A i \in DOMAIN s : /\ through("blockThinking", s[i]) = <<>> /\ through("text", s[i]) = <<>>
                          /\ through("blockCalls", s[i]) = <<calls[i]>>
                          /\ through("blockIn", s[i]) = <<t[i]>>
  BY <1>4 DEF readsBlock
<1>6. Joins!joinsTo("blockThinking", s, <<>>)
  BY <1>2, <1>5, Joins!JoinsNone DEF isSeq, Joins!isSeq
<1>7. Joins!joinsTo("blockCalls", s, calls)
  BY <1>2, <1>5, Joins!JoinsSingles DEF isSeq, Joins!isSeq
<1>8. Joins!joinsTo("text", s, <<>>)
  BY <1>2, <1>5, Joins!JoinsNone DEF isSeq, Joins!isSeq
<1>9. Joins!joinsTo("blockIn", s, t)
  BY <1>2, <1>5, Joins!JoinsSingles DEF isSeq, Joins!isSeq
<1> QED  BY <1>s, <1>t, <1>6, <1>7, <1>8, <1>9 DEF readsBlocks

LEMMA BlocksAreRead ==
  ASSUME NEW thinking, NEW text, NEW calls, isSeq(thinking), isSeq(text), isSeq(calls),
         NEW s, bothOrders(s, blocksOfText(text), blocksOfThinking(thinking),
                           toolUses(calls))
  PROVE  /\ readBlocks(s) = Answer(thinking, text, calls)
         /\ bothOrders(Joins!join("blockIn", s), irText(text, "text", "text"),
                       irThinking(thinking), irCalls(calls))
<1>0. isSeq(<<>>)
  BY ShortSeqs
<1>1. /\ readsBlocks(blocksOfText(text), <<>>, text, <<>>)
      /\ Joins!joinsTo("blockIn", blocksOfText(text), irText(text, "text", "text"))
  <2>1. CASE text = <<>>
    BY <2>1, NoBlocksRead DEF blocksOfText, irText
  <2>2. CASE text # <<>>
    BY <1>0, <2>2, OneBlockRead, BlockReads DEF blocksOfText, irText
  <2> QED  BY <2>1, <2>2
<1>2. /\ readsBlocks(blocksOfThinking(thinking), thinking, <<>>, <<>>)
      /\ Joins!joinsTo("blockIn", blocksOfThinking(thinking), irThinking(thinking))
  <2>1. CASE thinking = <<>>
    BY <2>1, NoBlocksRead DEF blocksOfThinking, irThinking
  <2>2. CASE thinking # <<>>
    BY <1>0, <2>2, OneBlockRead, BlockReads DEF blocksOfThinking, irThinking
  <2> QED  BY <2>1, <2>2
<1>3. /\ readsBlocks(toolUses(calls), <<>>, <<>>, calls)
      /\ Joins!joinsTo("blockIn", toolUses(calls), irCalls(calls))
  BY CallBlocksRead
<1>4. \/ s = (blocksOfText(text) \o blocksOfThinking(thinking)) \o toolUses(calls)
      \/ s = (blocksOfThinking(thinking) \o blocksOfText(text)) \o toolUses(calls)
  BY DEF bothOrders
<1>5. \/ Joins!joinsTo("blockThinking", s, (<<>> \o thinking) \o <<>>)
      \/ Joins!joinsTo("blockThinking", s, (thinking \o <<>>) \o <<>>)
  BY <1>1, <1>2, <1>3, <1>4, Joins!JoinsThree DEF readsBlocks
<1>6. \/ Joins!joinsTo("text", s, (<<>> \o text) \o <<>>)
      \/ Joins!joinsTo("text", s, (text \o <<>>) \o <<>>)
  BY <1>1, <1>2, <1>3, <1>4, Joins!JoinsThree DEF readsBlocks
<1>7. Joins!joinsTo("blockCalls", s, (<<>> \o <<>>) \o calls)
  BY <1>1, <1>2, <1>3, <1>4, Joins!JoinsThree DEF readsBlocks
<1>8. /\ Joins!join("blockThinking", s) = thinking /\ Joins!join("text", s) = text
      /\ Joins!join("blockCalls", s) = calls
  BY <1>0, <1>5, <1>6, <1>7, EmptyConcat DEF Joins!joinsTo
<1>9. \/ Joins!joinsTo("blockIn", s,
           (irText(text, "text", "text") \o irThinking(thinking)) \o irCalls(calls))
      \/ Joins!joinsTo("blockIn", s,
           (irThinking(thinking) \o irText(text, "text", "text")) \o irCalls(calls))
  BY <1>1, <1>2, <1>3, <1>4, Joins!JoinsThree
<1>10. bothOrders(Joins!join("blockIn", s), irText(text, "text", "text"),
                  irThinking(thinking), irCalls(calls))
  BY <1>9 DEF Joins!joinsTo, bothOrders
<1> QED  BY <1>8, <1>10, BlocksReadJoin, TextsJoin
-----------------------------------------------------------------------------
(* An answer in each dialect that tells thinking, text and calls, and what *)
(* the codecs make of it.                                                  *)

numbered(s) == isSeq(s) /\ \A i \in DOMAIN s : s[i] \in Nat \ {0}

LEMMA StrippedJoin ==
  \A s : /\ stripThinkTaggedText(s).text = Joins!join("untagged", s)
         /\ stripThinkTaggedText(s).reasoning = Joins!join("tagged", s)
<1> TAKE s
<1>1. /\ [i \in DOMAIN s |-> untaggedIn(s[i])]
           = [i \in DOMAIN s |-> through("untagged", s[i])]
      /\ [i \in DOMAIN s |-> taggedIn(s[i])] = [i \in DOMAIN s |-> through("tagged", s[i])]
  BY ThroughAnswer, Zenon
<1>2. \A x, y : /\ [text |-> x, reasoning |-> y].text = x
                /\ [text |-> x, reasoning |-> y].reasoning = y
  OBVIOUS
<1> QED  BY <1>1, <1>2, JoinOfEach, Zenon
         DEF stripThinkTaggedText, joined, each, untaggedIn, taggedIn

tagged(thinking) == each(thinking, LAMBDA p : -p)

\* Text without tagged thinking, and text after it.
LEMMA TaggedIsStripped ==
  ASSUME NEW thinking, NEW text, numbered(thinking), numbered(text)
  PROVE  /\ stripThinkTaggedText(text) = [text |-> text, reasoning |-> <<>>]
         /\ stripThinkTaggedText(tagged(thinking) \o text)
              = [text |-> text, reasoning |-> thinking]
<1>e. PICK e : e = tagged(thinking)
  OBVIOUS
<1>1. isSeq(thinking) /\ isSeq(text) /\ isSeq(<<>>)
  BY ShortSeqs DEF numbered
<1>2. e = [i \in DOMAIN thinking |-> e[i]]
  BY <1>e DEF tagged, each
<1>3. isSeq(e) /\ DOMAIN thinking = DOMAIN e
  BY <1>1, <1>2, EachMade
<1>4. \A i \in DOMAIN e : e[i] = -thinking[i] /\ thinking[i] \in Nat \ {0}
  BY <1>3, <1>e DEF tagged, each, numbered
<1>5. \A i \in DOMAIN e : /\ through("untagged", e[i]) = <<>>
                          /\ through("tagged", e[i]) = <<thinking[i]>>
  <2>1. \A i \in DOMAIN e : untaggedIn(e[i]) = <<>> /\ taggedIn(e[i]) = <<thinking[i]>>
    BY <1>4 DEF untaggedIn, taggedIn
  <2> QED  BY <2>1, ThroughAnswer, Zenon
<1>6. \A i \in DOMAIN text : /\ through("untagged", text[i]) = <<text[i]>>
                             /\ through("tagged", text[i]) = <<>>
  <2>1. \A i \in DOMAIN text : untaggedIn(text[i]) = <<text[i]>> /\ taggedIn(text[i]) = <<>>
    BY DEF numbered, untaggedIn, taggedIn
  <2> QED  BY <2>1, ThroughAnswer, Zenon
<1>7. Joins!joinsTo("untagged", e, <<>>)
  BY <1>3, <1>5, Joins!JoinsNone DEF isSeq, Joins!isSeq
<1>8. Joins!joinsTo("untagged", text, text)
  BY <1>1, <1>6, Joins!JoinsSingles DEF isSeq, Joins!isSeq
<1>9. Joins!joinsTo("tagged", e, thinking)
  BY <1>1, <1>3, <1>5, Joins!JoinsSingles DEF isSeq, Joins!isSeq
<1>10. Joins!joinsTo("tagged", text, <<>>)
  BY <1>1, <1>6, Joins!JoinsNone DEF isSeq, Joins!isSeq
<1>11. /\ Joins!joinsTo("untagged", e \o text, <<>> \o text)
       /\ Joins!joinsTo("tagged", e \o text, thinking \o <<>>)
  BY <1>7, <1>8, <1>9, <1>10, Joins!JoinsConcat
<1>12. /\ Joins!join("untagged", e \o text) = text /\ Joins!join("tagged", e \o text) = thinking
       /\ Joins!join("untagged", text) = text /\ Joins!join("tagged", text) = <<>>
  BY <1>1, <1>8, <1>10, <1>11, EmptyConcat DEF Joins!joinsTo
<1>13. \A s, x, y : stripThinkTaggedText(s).text = x /\ stripThinkTaggedText(s).reasoning = y
                      => stripThinkTaggedText(s) = [text |-> x, reasoning |-> y]
  BY DEF stripThinkTaggedText
<1>14. stripThinkTaggedText(text) = [text |-> text, reasoning |-> <<>>]
  BY <1>12, <1>13, StrippedJoin
<1>15. stripThinkTaggedText(e \o text) = [text |-> text, reasoning |-> thinking]
  BY <1>12, <1>13, StrippedJoin
<1> QED  BY <1>e, <1>14, <1>15

choiceTells(c, thinking, text, calls) ==
  /\ c.calls = calls /\ stripThinkTaggedText(c.text).text = text
  /\ firstNonEmpty(c.reasoning, stripThinkTaggedText(c.text).reasoning) = thinking
outputTells(output, thinking, text, calls) ==
  bothOrders(output, itemsOfText(text), itemsOfThinking(thinking), callItems(calls))
contentTells(content, thinking, text, calls) ==
  bothOrders(content, blocksOfText(text), blocksOfThinking(thinking), toolUses(calls))

LEMMA PlainChoiceTells ==
  ASSUME NEW thinking, NEW text, NEW calls, NEW finish, numbered(thinking), numbered(text)
  PROVE  choiceTells(Choice(text, thinking, calls, finish), thinking, text, calls)
<1>c. PICK c : c = Choice(text, thinking, calls, finish)
  OBVIOUS
<1>1. c.text = text /\ c.reasoning = thinking /\ c.calls = calls
  BY <1>c DEF Choice
<1>2. stripThinkTaggedText(text).text = text /\ stripThinkTaggedText(text).reasoning = <<>>
  BY TaggedIsStripped
<1>3. firstNonEmpty(thinking, <<>>) = thinking
  BY DEF firstNonEmpty
<1> QED  BY <1>c, <1>1, <1>2, <1>3 DEF choiceTells

LEMMA ChoiceIsDecoded ==
  ASSUME NEW c, NEW thinking, NEW text, NEW calls, choiceTells(c, thinking, text, calls)
  PROVE  \E parts : /\ decodeOpenAIChatChoice(c) = IRMessage("assistant", parts, None)
                    /\ carries(parts, thinking, text, calls)
<1>1. decodeOpenAIChatMessageContent(c.text) = irText(text, Absent, "text")
  BY Zenon DEF choiceTells, decodeOpenAIChatMessageContent, irText
<1>2. decodeOpenAIChatChoice(c) = IRMessage("assistant",
        (irText(text, Absent, "text") \o irThinking(thinking)) \o irCalls(calls), None)
  BY <1>1, Zenon DEF choiceTells, decodeOpenAIChatChoice, irThinking, irCalls
<1>3. "text" \in {"text", "output_text"}
  OBVIOUS
<1>4. carries((irText(text, Absent, "text") \o irThinking(thinking)) \o irCalls(calls),
              thinking, text, calls)
  BY <1>3, Zenon DEF carries
<1> QED  BY <1>2, <1>4

\* The form between: one message or none, and the first of several.
irTells(ir, thinking, text, calls) ==
  \/ /\ ir.items = <<>> /\ thinking = <<>> /\ text = <<>> /\ calls = <<>>
  \/ \E parts : /\ ir.items = <<IRMessage("assistant", parts, None)>>
                /\ carries(parts, thinking, text, calls)
irLeads(ir, thinking, text, calls) ==
  carries(IF ir.items = <<>> THEN <<>> ELSE ir.items[1].content, thinking, text, calls)

LEMMA NothingCarried == carries(<<>>, <<>>, <<>>, <<>>)
<1>1. irText(<<>>, Absent, "text") = <<>> /\ irThinking(<<>>) = <<>>
  BY DEF irText, irThinking
<1>2. irCalls(<<>>) = <<>>
  <2>1. [i \in DOMAIN <<>> |-> toolCall(<<>>[i])] = <<>>
    OBVIOUS
  <2> QED  BY <2>1 DEF irCalls, each
<1>3. (<<>> \o <<>>) \o <<>> = <<>>
  BY ShortSeqs, EmptyConcat
<1>4. "text" \in {"text", "output_text"}
  OBVIOUS
<1> QED  BY <1>1, <1>2, <1>3, <1>4, Zenon DEF carries

LEMMA TellsLeads ==
  ASSUME NEW ir, NEW thinking, NEW text, NEW calls, irTells(ir, thinking, text, calls)
  PROVE  irLeads(ir, thinking, text, calls)
<1>1. CASE ir.items = <<>> /\ thinking = <<>> /\ text = <<>> /\ calls = <<>>
  BY <1>1, NothingCarried DEF irLeads
<1>2. ASSUME NEW parts, ir.items = <<IRMessage("assistant", parts, None)>>,
             carries(parts, thinking, text, calls)
      PROVE  irLeads(ir, thinking, text, calls)
  <2>1. ir.items # <<>> /\ ir.items[1] = IRMessage("assistant", parts, None)
    BY <1>2
  <2>2. IRMessage("assistant", parts, None).content = parts
    BY IRMessageFields
  <2> QED  BY <1>2, <2>1, <2>2 DEF irLeads
<1> QED  BY <1>1, <1>2 DEF irTells

LEMMA IRAnswerFields ==
  ASSUME NEW items, NEW finish, NEW usage, NEW ir, ir = IRAnswer(items, finish, usage)
  PROVE  ir.items = items /\ ir.finish = finish /\ ir.usage = usage
BY DEF IRAnswer

LEMMA ChatAnswerDecoded ==
  ASSUME NEW a, NEW c, a.choices = <<c>>, NEW thinking, NEW text, NEW calls,
         choiceTells(c, thinking, text, calls), NEW ir, ir = DecodeResponse("chat", a)
  PROVE  irTells(ir, thinking, text, calls) /\ ir.finish = c.finish /\ ir.usage = a.usage
<1>1. ir = IRAnswer(each(<<c>>, decodeOpenAIChatChoice), Last(<<c>>).finish, a.usage)
  <2>1. ir = IRAnswer(each(a.choices, decodeOpenAIChatChoice), Last(a.choices).finish, a.usage)
    BY DEF DecodeResponse, DecodeOpenAIChatResponse
  <2> QED  BY <2>1, Zenon
<1>2. each(<<c>>, decodeOpenAIChatChoice) = <<decodeOpenAIChatChoice(c)>>
  BY DEF each
<1>3. Last(<<c>>) = c
  BY DEF Last
<1>4. ir = IRAnswer(<<decodeOpenAIChatChoice(c)>>, c.finish, a.usage)
  BY <1>1, <1>2, <1>3, Zenon
<1>6. /\ ir.items = <<decodeOpenAIChatChoice(c)>> /\ ir.finish = c.finish
      /\ ir.usage = a.usage
  BY <1>4, IRAnswerFields
<1>7. PICK parts : /\ decodeOpenAIChatChoice(c) = IRMessage("assistant", parts, None)
                   /\ carries(parts, thinking, text, calls)
  BY ChoiceIsDecoded
<1>8. ir.items = <<IRMessage("assistant", parts, None)>>
  BY <1>6, <1>7
<1> QED  BY <1>6, <1>7, <1>8, Zenon DEF irTells

LEMMA AnthropicAnswerDecoded ==
  ASSUME NEW a, NEW thinking, NEW text, NEW calls, isSeq(thinking), isSeq(text),
         isSeq(calls), contentTells(a.content, thinking, text, calls),
         NEW ir, ir = DecodeResponse("anthropic", a)
  PROVE  /\ irTells(ir, thinking, text, calls)
         /\ ir.finish = Events!anthropicStopReasonToChatFinish(a.stop)
         /\ ir.usage = normalizeAnthropicUsage(a.usage)
<1>1. /\ ir.items = decodeAnthropicContent(a.content)
      /\ ir.finish = Events!anthropicStopReasonToChatFinish(a.stop)
      /\ ir.usage = normalizeAnthropicUsage(a.usage)
  BY DEF DecodeResponse, DecodeAnthropicResponse
<1>p. PICK parts : parts = Joins!join("blockIn", a.content)
  OBVIOUS
<1>2. bothOrders(parts, irText(text, "text", "text"), irThinking(thinking), irCalls(calls))
  BY <1>p, BlocksAreRead DEF contentTells
<1>3. carries(parts, thinking, text, calls)
  <2>1. "text" \in {"text", "output_text"}
    OBVIOUS
  <2> QED  BY <1>2, <2>1, Zenon DEF carries, bothOrders
<1>4. CASE parts # <<>>
  <2>1. ir.items = <<IRMessage("assistant", parts, None)>>
    BY <1>1, <1>p, <1>4, BlocksInJoin
  <2> QED  BY <1>1, <1>3, <2>1 DEF irTells
<1>5. CASE parts = <<>>
  <2>1. ir.items = <<>>
    BY <1>1, <1>p, <1>5, BlocksInJoin
  <2>2. encodeTextContent(parts) = <<>> /\ encodeToolCalls(parts) = <<>>
        /\ encodeReasoningContent(parts) = <<>>
    BY <1>5, TextsOfNone, CallsJoin, Joins!JoinEmpty, ReasoningsJoin, Joins!JoinEmpty
  <2>3. thinking = <<>> /\ text = <<>> /\ calls = <<>>
    BY <1>3, <2>2, CarriedIsWritten
  <2> QED  BY <1>1, <2>1, <2>3 DEF irTells
<1> QED  BY <1>4, <1>5

\* Of a responses answer each item becomes a message of its own.
LEMMA AloneCarries ==
  /\ \A thinking : thinking # <<>> => carries(<<reasoningPart(thinking)>>, thinking, <<>>, <<>>)
  /\ \A text : text # <<>> =>
       carries(<<IRPart("output_text", text, None, "output_text")>>, <<>>, text, <<>>)
  /\ \A id : carries(<<toolCall(id)>>, <<>>, <<>>, <<id>>)
<1>1. irText(<<>>, Absent, "text") = <<>> /\ irThinking(<<>>) = <<>>
  BY DEF irText, irThinking
<1>2. irCalls(<<>>) = <<>>
  <2>1. [i \in DOMAIN <<>> |-> toolCall(<<>>[i])] = <<>>
    OBVIOUS
  <2> QED  BY <2>1 DEF irCalls, each
<1>3. \A x : (<<>> \o <<x>>) \o <<>> = <<x>> /\ (<<x>> \o <<>>) \o <<>> = <<x>>
             /\ (<<>> \o <<>>) \o <<x>> = <<x>>
  BY ShortSeqs, EmptyConcat
<1>4. "text" \in {"text", "output_text"} /\ "output_text" \in {"text", "output_text"}
  OBVIOUS
<1>5. ASSUME NEW thinking, thinking # <<>>
      PROVE  carries(<<reasoningPart(thinking)>>, thinking, <<>>, <<>>)
  <2>1. irThinking(thinking) = <<reasoningPart(thinking)>>
    BY <1>5 DEF irThinking
  <2>2. <<reasoningPart(thinking)>>
          = (irText(<<>>, Absent, "text") \o irThinking(thinking)) \o irCalls(<<>>)
    BY <1>1, <1>2, <1>3, <2>1
  <2> QED  BY <1>4, <2>2, Zenon DEF carries
<1>6. ASSUME NEW text, text # <<>>
      PROVE  carries(<<IRPart("output_text", text, None, "output_text")>>, <<>>, text, <<>>)
  <2>1. irText(text, "output_text", "output_text")
          = <<IRPart("output_text", text, None, "output_text")>>
    BY <1>6 DEF irText
  <2>2. <<IRPart("output_text", text, None, "output_text")>>
          = (irText(text, "output_text", "output_text") \o irThinking(<<>>)) \o irCalls(<<>>)
    BY <1>1, <1>2, <1>3, <2>1
  <2> QED  BY <1>4, <2>2, Zenon DEF carries
<1>7. ASSUME NEW id
      PROVE  carries(<<toolCall(id)>>, <<>>, <<>>, <<id>>)
  <2>1. irCalls(<<id>>) = <<toolCall(id)>>
    BY DEF irCalls, each
  <2>2. <<toolCall(id)>>
          = (irText(<<>>, Absent, "text") \o irThinking(<<>>)) \o irCalls(<<id>>)
    BY <1>1, <1>3, <2>1
  <2> QED  BY <1>4, <2>2, Zenon DEF carries
<1> QED  BY <1>5, <1>6, <1>7

messageOfCall(id) == IRMessage("assistant", <<toolCall(id)>>, None)
callMessages(calls) == each(calls, messageOfCall)
messagesOfThinking(thinking) ==
  IF thinking = <<>> THEN <<>>
  ELSE <<IRMessage("assistant", <<reasoningPart(thinking)>>, None)>>
messagesOfText(text) ==
  IF text = <<>> THEN <<>>
  ELSE <<IRMessage("assistant",
           <<IRPart("output_text", text, None, "output_text")>>, None)>>

LEMMA ItemsIn1 ==
  /\ \A thinking : through("itemIn", ReasoningItem(thinking))
                     = <<IRMessage("assistant", <<reasoningPart(thinking)>>, None)>>
  /\ \A text : through("itemIn", MessageItem("assistant", List(<<Part("output_text", text, None)>>)))
                 = <<IRMessage("assistant",
                       <<IRPart("output_text", text, None, "output_text")>>, None)>>
  /\ \A id : through("itemIn", CallItem(id)) = <<messageOfCall(id)>>
<1>1. ASSUME NEW thinking
      PROVE  through("itemIn", ReasoningItem(thinking))
               = <<IRMessage("assistant", <<reasoningPart(thinking)>>, None)>>
  <2>i. PICK i : i = ReasoningItem(thinking)
    OBVIOUS
  <2>1. i.type = "reasoning" /\ i.text = thinking
    BY <2>i DEF ReasoningItem, Item
  <2>2. through("itemIn", i) = <<IRMessage("assistant", <<reasoningPart(thinking)>>, None)>>
    BY <2>1, ThroughAnswer DEF decodeResponsesOutputItem
  <2> QED  BY <2>i, <2>2
<1>2. ASSUME NEW text
      PROVE  through("itemIn", MessageItem("assistant", List(<<Part("output_text", text, None)>>)))
               = <<IRMessage("assistant",
                     <<IRPart("output_text", text, None, "output_text")>>, None)>>
  <2>p. PICK p : p = Part("output_text", text, None)
    OBVIOUS
  <2>1. p.type = "output_text" /\ p.text = text /\ p.id = None
    BY <2>p DEF Part
  <2>2. normalizeIRPartType("output_text") = "output_text"
    BY DEF normalizeIRPartType, ImageTypes, FileTypes
  <2>3. fromRaw(p) = IRPart("output_text", text, None, "output_text")
    BY <2>1, <2>2 DEF fromRaw
  <2>c. PICK c : c = List(<<p>>)
    OBVIOUS
  <2>4. c.list = TRUE /\ c.parts = <<p>>
    BY <2>c DEF List
  <2>5. listContent(c) = each(<<p>>, fromRaw)
    BY <2>4 DEF listContent, decodeGenericContent
  <2>6. each(<<p>>, fromRaw) = <<fromRaw(p)>>
    BY DEF each
  <2>i. PICK i : i = MessageItem("assistant", c)
    OBVIOUS
  <2>7. i.type = "message" /\ i.content = c
    BY <2>i DEF MessageItem, Item
  <2>8. through("itemIn", i) = <<IRMessage("assistant", listContent(c), None)>>
    BY <2>7, ThroughAnswer DEF decodeResponsesOutputItem
  <2> QED  BY <2>3, <2>5, <2>6, <2>8, <2>i, <2>c, <2>p, Zenon
<1>3. ASSUME NEW id
      PROVE  through("itemIn", CallItem(id)) = <<messageOfCall(id)>>
  <2>i. PICK i : i = CallItem(id)
    OBVIOUS
  <2>1. i.type = "function_call" /\ i.id = id
    BY <2>i DEF CallItem, Item
  <2>2. through("itemIn", i) = <<messageOfCall(id)>>
    BY <2>1, ThroughAnswer DEF decodeResponsesOutputItem, messageOfCall
  <2> QED  BY <2>i, <2>2
<1> QED  BY <1>1, <1>2, <1>3

LEMMA OutputIsDecoded ==
  ASSUME NEW thinking, NEW text, NEW calls, isSeq(calls)
  PROVE  decodeResponsesOutput(
           (itemsOfThinking(thinking) \o itemsOfText(text)) \o callItems(calls))
           = (messagesOfThinking(thinking) \o messagesOfText(text)) \o callMessages(calls)
<1>0. \A x : Joins!isSeq(<<x>>)
  BY ShortSeqs DEF isSeq, Joins!isSeq
<1>1. Joins!joinsTo("itemIn", itemsOfThinking(thinking), messagesOfThinking(thinking))
  <2>1. CASE thinking = <<>>
    BY <2>1, Joins!JoinsNothing DEF itemsOfThinking, messagesOfThinking
  <2>2. CASE thinking # <<>>
    BY <1>0, <2>2, ItemsIn1, Joins!JoinsOne DEF itemsOfThinking, messagesOfThinking
  <2> QED  BY <2>1, <2>2
<1>2. Joins!joinsTo("itemIn", itemsOfText(text), messagesOfText(text))
  <2>1. CASE text = <<>>
    BY <2>1, Joins!JoinsNothing DEF itemsOfText, messagesOfText
  <2>2. CASE text # <<>>
    BY <1>0, <2>2, ItemsIn1, Joins!JoinsOne DEF itemsOfText, messagesOfText
  <2> QED  BY <2>1, <2>2
<1>3. Joins!joinsTo("itemIn", callItems(calls), callMessages(calls))
  <2>s. PICK x : x = callItems(calls)
    OBVIOUS
  <2>t. PICK t : t = callMessages(calls)
    OBVIOUS
  <2>1. x = [i \in DOMAIN calls |-> x[i]] /\ t = [i \in DOMAIN calls |-> t[i]]
    BY <2>s, <2>t DEF each, callItems, callMessages
  <2>2. isSeq(x) /\ DOMAIN calls = DOMAIN x /\ isSeq(t) /\ DOMAIN t = DOMAIN x
    BY <2>1, EachMade
  <2>3. \A i \in DOMAIN x : x[i] = CallItem(calls[i]) /\ t[i] = messageOfCall(calls[i])
    BY <2>2, <2>s, <2>t DEF each, callItems, callMessages
  <2>4. \A i \in DOMAIN x : through("itemIn", x[i]) = <<t[i]>>
    BY <2>3, ItemsIn1
  <2>5. Joins!joinsTo("itemIn", x, t)
    BY <2>2, <2>4, Joins!JoinsSingles DEF isSeq, Joins!isSeq
  <2> QED  BY <2>s, <2>t, <2>5
<1>s. PICK s : s = (itemsOfThinking(thinking) \o itemsOfText(text)) \o callItems(calls)
  OBVIOUS
<1>4. Joins!joinsTo("itemIn", s, (messagesOfThinking(thinking) \o messagesOfText(text))
                              \o callMessages(calls))
  BY <1>s, <1>1, <1>2, <1>3, Joins!JoinsThree
<1> QED  BY <1>s, <1>4, ItemsInJoin DEF Joins!joinsTo

LEMMA FirstInFront ==
  ASSUME NEW x, NEW b, NEW c, isSeq(b), isSeq(c), NEW s, s = (<<x>> \o b) \o c
  PROVE  s # <<>> /\ s[1] = x
<1>1. PICK B, C : b \in Seq(B) /\ c \in Seq(C)
  BY DEF isSeq
<1>2. PICK S : S = {x} \union B \union C
  OBVIOUS
<1>3. <<x>> \in Seq(S) /\ b \in Seq(S) /\ c \in Seq(S)
  BY <1>1, <1>2
<1>t. PICK t : t = <<x>> \o b
  OBVIOUS
<1>4. t \in Seq(S) /\ Len(t) >= 1 /\ t[1] = x
  BY <1>3, <1>t
<1>5. s = t \o c
  BY <1>t
<1>6. Len(s) >= 1 /\ s[1] = x
  BY <1>3, <1>4, <1>5
<1> QED  BY <1>6

LEMMA CallsOfMessage ==
  /\ \A thinking : thinking # <<>> => encodeToolCalls(<<reasoningPart(thinking)>>) = <<>>
  /\ \A text : isSeq(text) /\ text # <<>> =>
       encodeToolCalls(<<IRPart("output_text", text, None, "output_text")>>) = <<>>
  /\ \A id : encodeToolCalls(<<toolCall(id)>>) = <<id>>
<1>1. \A p : encodeToolCalls(<<p>>) = through("call", p)
  BY CallsJoin, Joins!JoinOne
<1>2. ASSUME NEW thinking PROVE through("call", reasoningPart(thinking)) = <<>>
  BY ThroughPart DEF callIn, reasoningPart, IRPart
<1>3. ASSUME NEW text, NEW raw PROVE through("call", IRPart("output_text", text, None, raw)) = <<>>
  BY ThroughPart DEF callIn, IRPart
<1>4. ASSUME NEW id PROVE through("call", toolCall(id)) = <<id>>
  <2>1. toolCall(id).type = "tool_call" /\ toolCall(id).id = id
    BY DEF toolCall, IRPart
  <2> QED  BY <2>1, ThroughPart DEF callIn
<1> QED  BY <1>1, <1>2, <1>3, <1>4

callsNothing(items) ==
  isSeq(items) /\ \A i \in DOMAIN items : encodeToolCalls(items[i].content) = <<>>

LEMMA MessagesAlone ==
  ASSUME NEW thinking, NEW text, isSeq(text)
  PROVE  callsNothing(messagesOfThinking(thinking)) /\ callsNothing(messagesOfText(text))
<1>1. \A x : <<x>> = [i \in {1} |-> x] /\ DOMAIN <<x>> = {1} /\ <<x>>[1] = x
  OBVIOUS
<1>2. \A m : encodeToolCalls(m.content) = <<>> => callsNothing(<<m>>)
  BY <1>1, ShortSeqs DEF callsNothing
<1>3. callsNothing(<<>>)
  BY ShortSeqs DEF callsNothing
<1>4. \A parts : IRMessage("assistant", parts, None).content = parts
  BY IRMessageFields
<1>5. callsNothing(messagesOfThinking(thinking))
  BY <1>2, <1>3, <1>4, CallsOfMessage DEF messagesOfThinking
<1>6. callsNothing(messagesOfText(text))
  BY <1>2, <1>3, <1>4, CallsOfMessage DEF messagesOfText
<1> QED  BY <1>5, <1>6

LEMMA CallingFinish ==
  ASSUME NEW a, NEW b, NEW calls, callsNothing(a), callsNothing(b), isSeq(calls),
         NEW items, items = (a \o b) \o callMessages(calls)
  PROVE  inferFinishReasonFromMessages(items)
           = IF calls # <<>> THEN "tool_calls" ELSE "stop"
<1>s. PICK s : s = callMessages(calls)
  OBVIOUS
<1>1. s = [i \in DOMAIN calls |-> s[i]]
  BY <1>s DEF each, callMessages
<1>2. isSeq(s) /\ DOMAIN s = DOMAIN calls
  BY <1>1, EachMade
<1>3. \A i \in DOMAIN s : s[i] = messageOfCall(calls[i])
  BY <1>2, <1>s DEF each, callMessages
<1>4. \A id : encodeToolCalls(messageOfCall(id).content) = <<id>>
  BY CallsOfMessage, IRMessageFields DEF messageOfCall
<1>5. isSeq(a) /\ isSeq(b)
  BY DEF callsNothing
<1>6. CASE calls # <<>>
  <2>1. PICK A, B, S, C : a \in Seq(A) /\ b \in Seq(B) /\ s \in Seq(S) /\ calls \in Seq(C)
    BY <1>2, <1>5 DEF isSeq
  <2>2. PICK T : T = A \union B \union S
    OBVIOUS
  <2>3. a \in Seq(T) /\ b \in Seq(T) /\ s \in Seq(T)
    BY <2>1, <2>2
  <2>t. PICK t : t = a \o b
    OBVIOUS
  <2>4. t \in Seq(T) /\ Len(t) \in Nat
    BY <2>3, <2>t
  <2>5. 1 \in DOMAIN calls
    BY <1>6, <2>1
  <2>6. Len(t) + 1 \in DOMAIN (t \o s) /\ (t \o s)[Len(t) + 1] = s[1]
    BY <1>2, <2>3, <2>4, <2>5
  <2>7. encodeToolCalls(s[1].content) = <<calls[1]>>
    BY <1>2, <1>3, <1>4, <2>5
  <2>8. <<calls[1]>> # <<>>
    OBVIOUS
  <2>9. \E i \in DOMAIN items : encodeToolCalls(items[i].content) # <<>>
    BY <1>s, <2>t, <2>6, <2>7, <2>8
  <2> QED  BY <1>6, <2>9 DEF inferFinishReasonFromMessages
<1>7. CASE calls = <<>>
  <2>1. s = <<>>
    <3>1. DOMAIN <<>> = {}
      OBVIOUS
    <3>2. PICK S : s \in Seq(S) /\ DOMAIN s = {}
      BY <1>2, <1>7, <3>1 DEF isSeq
    <3> QED  BY <3>2
  <2>2. items = a \o b
    <3>1. isSeq(a \o b)
      BY <1>5, ConcatElements
    <3> QED  BY <1>s, <2>1, <3>1, EmptyConcat
  <2>3. \A i \in DOMAIN items : encodeToolCalls(items[i].content) = <<>>
    BY <1>5, <2>2, ConcatElements DEF callsNothing
  <2> QED  BY <1>7, <2>3 DEF inferFinishReasonFromMessages
<1> QED  BY <1>6, <1>7

LEMMA FirstMessageLeads ==
  ASSUME NEW m, isSeq(m.text), isSeq(m.calls), NEW f, f = firstOf(m), NEW items,
         items = (messagesOfThinking(m.thinking) \o messagesOfText(m.text))
                   \o callMessages(m.calls)
  PROVE  carries(IF items = <<>> THEN <<>> ELSE items[1].content, f.thinking, f.text, f.calls)
<1>0. \A x, y, z : /\ Answer(x, y, z).thinking = x /\ Answer(x, y, z).text = y
                   /\ Answer(x, y, z).calls = z
  BY DEF Answer
<1>s. PICK s : s = callMessages(m.calls)
  OBVIOUS
<1>1. s = [i \in DOMAIN m.calls |-> s[i]]
  BY <1>s DEF each, callMessages
<1>2. isSeq(s) /\ DOMAIN s = DOMAIN m.calls
  BY <1>1, EachMade
<1>3. \A parts : IRMessage("assistant", parts, None).content = parts
  BY IRMessageFields
<1>4. isSeq(messagesOfText(m.text)) /\ isSeq(<<>>)
  BY ShortSeqs DEF messagesOfText
<1>5. CASE m.thinking # <<>>
  <2>1. f.thinking = m.thinking /\ f.text = <<>> /\ f.calls = <<>>
    BY <1>0, <1>5 DEF firstOf
  <2>2. messagesOfThinking(m.thinking)
          = <<IRMessage("assistant", <<reasoningPart(m.thinking)>>, None)>>
    BY <1>5 DEF messagesOfThinking
  <2>3. items # <<>> /\ items[1] = IRMessage("assistant", <<reasoningPart(m.thinking)>>, None)
    BY <1>s, <1>2, <1>4, <2>2, FirstInFront
  <2> QED  BY <1>3, <1>5, <2>1, <2>3, AloneCarries
<1>6. CASE m.thinking = <<>> /\ m.text # <<>>
  <2>1. f.thinking = <<>> /\ f.text = m.text /\ f.calls = <<>>
    BY <1>0, <1>6 DEF firstOf
  <2>p. PICK p : p = IRMessage("assistant",
                       <<IRPart("output_text", m.text, None, "output_text")>>, None)
    OBVIOUS
  <2>2. messagesOfThinking(m.thinking) = <<>> /\ messagesOfText(m.text) = <<p>>
    BY <1>6, <2>p DEF messagesOfThinking, messagesOfText
  <2>3. <<>> \o <<p>> = <<p>> \o <<>>
    BY ShortSeqs, EmptyConcat
  <2>4. items = (<<p>> \o <<>>) \o s
    BY <1>s, <2>2, <2>3
  <2>5. items # <<>> /\ items[1] = p
    BY <1>2, <1>4, <2>4, FirstInFront
  <2> QED  BY <1>3, <1>6, <2>p, <2>1, <2>5, AloneCarries
<1>7. CASE m.thinking = <<>> /\ m.text = <<>>
  <2>1. f.thinking = <<>> /\ f.text = <<>>
        /\ f.calls = IF m.calls = <<>> THEN <<>> ELSE <<m.calls[1]>>
    BY <1>0, <1>7 DEF firstOf
  <2>2. messagesOfThinking(m.thinking) = <<>> /\ messagesOfText(m.text) = <<>>
    BY <1>7 DEF messagesOfThinking, messagesOfText
  <2>3. items = s
    BY <1>s, <1>2, <1>4, <2>2, EmptyConcat
  <2>4. PICK S, C : s \in Seq(S) /\ m.calls \in Seq(C) /\ DOMAIN s = DOMAIN m.calls
    BY <1>2 DEF isSeq
  <2>5. CASE m.calls = <<>>
    <3>1. items = <<>>
      BY <2>3, <2>4, <2>5
    <3> QED  BY <2>1, <2>5, <3>1, NothingCarried
  <2>6. CASE m.calls # <<>>
    <3>1. items # <<>> /\ 1 \in DOMAIN m.calls
      BY <2>3, <2>4, <2>6
    <3>2. items[1] = messageOfCall(m.calls[1])
      BY <1>s, <2>3, <3>1 DEF each, callMessages
    <3> QED  BY <1>3, <2>1, <2>6, <3>1, <3>2, AloneCarries DEF messageOfCall
  <2> QED  BY <2>5, <2>6
<1> QED  BY <1>5, <1>6, <1>7

LEMMA ResponsesAnswerDecoded ==
  ASSUME NEW m, isSeq(m.text), isSeq(m.calls), NEW f, f = firstOf(m), NEW a,
         a.output = (itemsOfThinking(m.thinking) \o itemsOfText(m.text))
                      \o callItems(m.calls),
         NEW ir, ir = DecodeResponse("responses", a)
  PROVE  /\ irLeads(ir, f.thinking, f.text, f.calls)
         /\ ir.finish = IF m.calls # <<>> THEN "tool_calls" ELSE "stop"
         /\ ir.usage = a.usage
<1>i. PICK items : items = decodeResponsesOutput(a.output)
  OBVIOUS
<1>1. ir = [items |-> items, finish |-> inferFinishReasonFromMessages(items),
            usage |-> a.usage]
  BY <1>i DEF DecodeResponse, DecodeResponsesResponse
<1>2. /\ ir.items = items /\ ir.finish = inferFinishReasonFromMessages(items)
      /\ ir.usage = a.usage
  BY <1>1
<1>m. PICK thinking, text, calls :
        thinking = m.thinking /\ text = m.text /\ calls = m.calls
  OBVIOUS
<1>o. PICK output : output = a.output
  OBVIOUS
<1>3. items = (messagesOfThinking(m.thinking) \o messagesOfText(m.text))
                \o callMessages(m.calls)
  <2>1. output = (itemsOfThinking(thinking) \o itemsOfText(text)) \o callItems(calls)
    BY <1>m, <1>o
  <2>2. isSeq(calls)
    BY <1>m
  <2>3. items = (messagesOfThinking(thinking) \o messagesOfText(text)) \o callMessages(calls)
    BY <1>i, <1>o, <2>1, <2>2, OutputIsDecoded
  <2> QED  BY <1>m, <2>3
<1>4. ir.finish = IF m.calls # <<>> THEN "tool_calls" ELSE "stop"
  <2>1. isSeq(text) /\ isSeq(calls)
    BY <1>m
  <2>2. PICK x, y : x = messagesOfThinking(thinking) /\ y = messagesOfText(text)
    OBVIOUS
  <2>3. callsNothing(x) /\ callsNothing(y)
    BY <2>1, <2>2, MessagesAlone
  <2>4. items = (x \o y) \o callMessages(calls)
    BY <1>3, <1>m, <2>2
  <2>5. inferFinishReasonFromMessages(items) = IF calls # <<>> THEN "tool_calls" ELSE "stop"
    BY <2>1, <2>3, <2>4, CallingFinish
  <2> QED  BY <1>2, <1>m, <2>5
<1>5. irLeads(ir, f.thinking, f.text, f.calls)
  BY <1>2, <1>3, FirstMessageLeads DEF irLeads
<1> QED  BY <1>2, <1>4, <1>5
-----------------------------------------------------------------------------
(* What the codecs write for the client, and how it reads it.              *)

LEMMA ChatIsRead ==
  ASSUME NEW thinking, NEW text, NEW calls, NEW finish, NEW a,
         a.choices = <<Choice(text, thinking, calls, finish)>>
  PROVE  readAnswer("chat", a) = Answer(thinking, text, calls) /\ finishOf("chat", a) = finish
<1>c. PICK c : c = Choice(text, thinking, calls, finish)
  OBVIOUS
<1>1. c.text = text /\ c.reasoning = thinking /\ c.calls = calls /\ c.finish = finish
  BY <1>c DEF Choice
<1>2. a.choices[1] = c
  BY <1>c
<1>3. readAnswer("chat", a) = Answer(a.choices[1].reasoning, a.choices[1].text,
                                     a.choices[1].calls)
  BY DEF readAnswer
<1>4. finishOf("chat", a) = a.choices[1].finish
  BY DEF finishOf
<1> QED  BY <1>1, <1>2, <1>3, <1>4

Finishes == {"stop", "length", "tool_calls"}
LEMMA FinishIsGiven == Absent \notin Finishes
BY Zenon DEF Absent, Finishes

LEMMA ChatAnswerEncoded ==
  ASSUME NEW thinking, NEW text, NEW calls, isSeq(text), isSeq(calls), NEW ir,
         irLeads(ir, thinking, text, calls), ir.finish \in Finishes,
         NEW r, r = EncodeResponse("chat", ir)
  PROVE  /\ r.choices = <<Choice(text, thinking, calls, ir.finish)>>
         /\ r.usage = ir.usage
<1>p. PICK parts : parts = IF ir.items = <<>> THEN <<>> ELSE ir.items[1].content
  OBVIOUS
<1>1. /\ encodeTextContent(parts) = text /\ encodeToolCalls(parts) = calls
      /\ encodeReasoningContent(parts) = thinking
  BY <1>p, CarriedIsWritten DEF irLeads
<1>f. PICK finish : finish = IF ir.finish # Absent THEN ir.finish
                             ELSE inferFinishReasonFromMessages(ir.items)
  OBVIOUS
<1>2. finish = ir.finish
  BY <1>f, FinishIsGiven
<1>3. encodeOpenAIChatChoices(ir) = <<Choice(encodeTextContent(parts),
        encodeReasoningContent(parts), encodeToolCalls(parts), finish)>>
  BY <1>p, <1>f, Zenon DEF encodeOpenAIChatChoices
<1>4. r = [choices |-> encodeOpenAIChatChoices(ir), usage |-> ir.usage]
  BY DEF EncodeResponse, EncodeOpenAIChatResponse
<1>5. r.choices = encodeOpenAIChatChoices(ir) /\ r.usage = ir.usage
  BY <1>4
<1> QED  BY <1>1, <1>2, <1>3, <1>5

LEMMA ConcatTwice ==
  ASSUME NEW a, NEW b, NEW c, isSeq(a), isSeq(b), isSeq(c)
  PROVE  (a \o b) \o c = a \o (b \o c)
<1>1. PICK A, B, C : a \in Seq(A) /\ b \in Seq(B) /\ c \in Seq(C)
  BY DEF isSeq
<1>2. PICK S : S = A \union B \union C
  OBVIOUS
<1>3. a \in Seq(S) /\ b \in Seq(S) /\ c \in Seq(S)
  BY <1>1, <1>2
<1> QED  BY <1>3, ConcatAssociative

LEMMA NothingTold ==
  /\ outputTells(<<>>, <<>>, <<>>, <<>>) /\ contentTells(<<>>, <<>>, <<>>, <<>>)
<1>1. /\ itemsOfText(<<>>) = <<>> /\ itemsOfThinking(<<>>) = <<>>
      /\ blocksOfText(<<>>) = <<>> /\ blocksOfThinking(<<>>) = <<>>
  BY DEF itemsOfText, itemsOfThinking, blocksOfText, blocksOfThinking
<1>2. callItems(<<>>) = <<>> /\ toolUses(<<>>) = <<>>
  <2>1. [i \in DOMAIN <<>> |-> CallItem(<<>>[i])] = <<>>
        /\ [i \in DOMAIN <<>> |-> ToolUse(<<>>[i])] = <<>>
    OBVIOUS
  <2> QED  BY <2>1 DEF callItems, toolUses, each
<1>3. <<>> \o <<>> = <<>>
  BY ShortSeqs, EmptyConcat
<1> QED  BY <1>1, <1>2, <1>3 DEF outputTells, contentTells, bothOrders

LEMMA MessageTold ==
  ASSUME NEW thinking, NEW text, NEW calls, isSeq(text), isSeq(calls), NEW parts,
         carries(parts, thinking, text, calls), NEW m, m.content = parts
  PROVE  /\ outputTells(encodeResponsesOutputMessage(m), thinking, text, calls)
         /\ contentTells(through("messageBlocks", m), thinking, text, calls)
<1>1. /\ encodeTextContent(parts) = text
      /\ encodeResponsesOutputContent(parts) = outOfText(text)
      /\ Joins!join("itemsOut", parts) = itemsOfThinking(thinking) \o callItems(calls)
      /\ bothOrders(Joins!join("blockOut", parts), blocksOfText(text),
                    blocksOfThinking(thinking), toolUses(calls))
  BY CarriedIsWritten
<1>2. ~hasNonTextParts(parts)
  BY CarriedHasNoMedia
<1>3. PICK head : head = IF encodeTextContent(parts) # <<>> \/ hasNonTextParts(parts)
                         THEN <<MessageItem("assistant",
                                  List(encodeResponsesOutputContent(parts)))>>
                         ELSE <<>>
  OBVIOUS
<1>4. head = itemsOfText(text)
  BY <1>1, <1>2, <1>3 DEF itemsOfText, outOfText
<1>5. encodeResponsesOutputMessage(m)
        = itemsOfText(text) \o (itemsOfThinking(thinking) \o callItems(calls))
  BY <1>1, <1>3, <1>4, MessageOutJoin
<1>6. isSeq(itemsOfText(text)) /\ isSeq(itemsOfThinking(thinking)) /\ isSeq(callItems(calls))
  <2>c. PICK e : e = callItems(calls)
    OBVIOUS
  <2>1. e = [i \in DOMAIN calls |-> e[i]]
    BY <2>c DEF each, callItems
  <2> QED  BY <2>1, <2>c, EachOf, ShortSeqs DEF itemsOfText, itemsOfThinking
<1>7. encodeResponsesOutputMessage(m)
        = (itemsOfText(text) \o itemsOfThinking(thinking)) \o callItems(calls)
  BY <1>5, <1>6, ConcatTwice
<1>8. through("messageBlocks", m) = Joins!join("blockOut", parts)
  BY MessageBlocksJoin, ThroughAnswer
<1> QED  BY <1>1, <1>7, <1>8 DEF outputTells, contentTells, bothOrders

LEMMA AnswerEncoded ==
  ASSUME NEW thinking, NEW text, NEW calls, isSeq(text), isSeq(calls), NEW ir,
         irTells(ir, thinking, text, calls)
  PROVE  /\ outputTells(encodeResponsesOutput(ir.items), thinking, text, calls)
         /\ contentTells(encodeAnthropicContent(ir.items), thinking, text, calls)
<1>1. CASE ir.items = <<>> /\ thinking = <<>> /\ text = <<>> /\ calls = <<>>
  <2>1. encodeResponsesOutput(ir.items) = <<>> /\ encodeAnthropicContent(ir.items) = <<>>
    BY <1>1, MessagesOutJoin, Joins!JoinEmpty, BlocksOutJoin, Joins!JoinEmpty
  <2> QED  BY <1>1, <2>1, NothingTold
<1>2. ASSUME NEW parts, ir.items = <<IRMessage("assistant", parts, None)>>,
             carries(parts, thinking, text, calls)
      PROVE  /\ outputTells(encodeResponsesOutput(ir.items), thinking, text, calls)
             /\ contentTells(encodeAnthropicContent(ir.items), thinking, text, calls)
  <2>m. PICK m : m = IRMessage("assistant", parts, None)
    OBVIOUS
  <2>1. m.content = parts
    BY <2>m, IRMessageFields
  <2>2. /\ Joins!join("messageOut", <<m>>) = through("messageOut", m)
        /\ Joins!join("messageBlocks", <<m>>) = through("messageBlocks", m)
    BY Joins!JoinOne
  <2>3. /\ encodeResponsesOutput(ir.items) = encodeResponsesOutputMessage(m)
        /\ encodeAnthropicContent(ir.items) = through("messageBlocks", m)
    BY <1>2, <2>m, <2>2, MessagesOutJoin, BlocksOutJoin, ThroughAnswer
  <2>4. /\ outputTells(encodeResponsesOutputMessage(m), thinking, text, calls)
        /\ contentTells(through("messageBlocks", m), thinking, text, calls)
    BY <1>2, <2>1, MessageTold
  <2> QED  BY <2>3, <2>4
<1> QED  BY <1>1, <1>2 DEF irTells

\* An answer as the codecs write it and providers do.
formed(d, x) ==
  \E thinking, text, calls :
    /\ isSeq(thinking) /\ isSeq(text) /\ isSeq(calls)
    /\ d = "chat" => \E finish : x.choices = <<Choice(text, thinking, calls, finish)>>
    /\ d = "responses" => bothOrders(x.output, itemsOfText(text),
                                     itemsOfThinking(thinking), callItems(calls))
    /\ d = "anthropic" => contentTells(x.content, thinking, text, calls)

\* A client reads thinking, text and calls, why the answer ended, and the usage.
reads(d, x, read, finish, usage) ==
  /\ readAnswer(d, x) = read /\ finishOf(d, x) = finish /\ x.usage = usage
  /\ formed(d, x)

callingFinish(calls) == IF calls # <<>> THEN "tool_calls" ELSE "stop"
LEMMA OutputFinish ==
  ASSUME NEW x, NEW thinking, NEW text, NEW calls,
         readOutput(x.output) = Answer(thinking, text, calls)
  PROVE  /\ readAnswer("responses", x) = Answer(thinking, text, calls)
         /\ finishOf("responses", x) = IF calls # <<>> THEN "tool_calls"
                                       ELSE IF x.status = "incomplete" THEN "length"
                                       ELSE "stop"
<1>o. PICK o : o = readOutput(x.output)
  OBVIOUS
<1>1. o.calls = calls
  BY <1>o DEF Answer
<1>2. readAnswer("responses", x) = readOutput(x.output)
  BY DEF readAnswer
<1>3. finishOf("responses", x) = IF o.calls # <<>> THEN "tool_calls"
                                 ELSE IF x.status = "incomplete" THEN "length"
                                 ELSE "stop"
  BY <1>o DEF finishOf
<1> QED  BY <1>o, <1>1, <1>2, <1>3

LEMMA ResponsesAnswerEncoded ==
  ASSUME NEW thinking, NEW text, NEW calls, isSeq(thinking), isSeq(text), isSeq(calls),
         NEW ir, irTells(ir, thinking, text, calls)
  PROVE  reads("responses", EncodeResponse("responses", ir), Answer(thinking, text, calls),
               callingFinish(calls), ir.usage)
<1>r. PICK r : r = EncodeResponse("responses", ir)
  OBVIOUS
<1>1. r = [status |-> "completed", output |-> encodeResponsesOutput(ir.items),
           usage |-> ir.usage]
  BY <1>r DEF EncodeResponse, EncodeResponsesResponse
<1>2. /\ r.status = "completed" /\ r.output = encodeResponsesOutput(ir.items)
      /\ r.usage = ir.usage
  BY <1>1
<1>3. outputTells(r.output, thinking, text, calls)
  BY <1>2, AnswerEncoded
<1>4. readOutput(r.output) = Answer(thinking, text, calls)
  BY <1>3, ItemsAreRead DEF outputTells
<1>5. /\ readAnswer("responses", r) = Answer(thinking, text, calls)
      /\ finishOf("responses", r) = callingFinish(calls)
  BY <1>2, <1>4, OutputFinish DEF callingFinish
<1>6. formed("responses", r)
  BY <1>3 DEF formed, outputTells
<1> QED  BY <1>r, <1>2, <1>5, <1>6 DEF reads

LEMMA AnthropicAnswerEncoded ==
  ASSUME NEW thinking, NEW text, NEW calls, isSeq(thinking), isSeq(text), isSeq(calls),
         NEW ir, irTells(ir, thinking, text, calls)
  PROVE  reads("anthropic", EncodeResponse("anthropic", ir), Answer(thinking, text, calls),
               Events!anthropicStopReasonFromChatFinish(ir.finish),
               denormalizeAnthropicUsage(ir.usage))
<1>r. PICK r : r = EncodeResponse("anthropic", ir)
  OBVIOUS
<1>1. /\ r.content = encodeAnthropicContent(ir.items)
      /\ r.stop = Events!anthropicStopReasonFromChatFinish(ir.finish)
      /\ r.usage = denormalizeAnthropicUsage(ir.usage)
  BY <1>r DEF EncodeResponse, EncodeAnthropicResponse
<1>2. contentTells(r.content, thinking, text, calls)
  BY <1>1, AnswerEncoded
<1>3. readBlocks(r.content) = Answer(thinking, text, calls)
  BY <1>2, BlocksAreRead DEF contentTells
<1>4. readAnswer("anthropic", r) = readBlocks(r.content) /\ finishOf("anthropic", r) = r.stop
  BY DEF readAnswer, finishOf
<1>5. formed("anthropic", r)
  BY <1>2 DEF formed
<1> QED  BY <1>r, <1>1, <1>3, <1>4, <1>5 DEF reads
-----------------------------------------------------------------------------
(* What a provider answers, and what becomes of it.                        *)

means(m) ==
  /\ numbered(m.thinking) /\ numbered(m.text) /\ isSeq(m.calls)
  /\ m.finish \in Finishes /\ (m.finish = "tool_calls" <=> m.calls # <<>>)

tellsMeaning(u, x, m) ==
  CASE u = "chat" -> /\ \E c : /\ x.choices = <<c>> /\ c.finish = m.finish
                               /\ choiceTells(c, m.thinking, m.text, m.calls)
                     /\ x.usage = counted(ChatNames)
    [] u = "responses" ->
         /\ x.output = (itemsOfThinking(m.thinking) \o itemsOfText(m.text)) \o callItems(m.calls)
         /\ x.status = IF m.finish = "length" THEN "incomplete" ELSE "completed"
         /\ x.usage = counted(TokenNames)
    [] u = "anthropic" ->
         /\ contentTells(x.content, m.thinking, m.text, m.calls)
         /\ x.stop = Events!anthropicStopReasonFromChatFinish(m.finish)
         /\ x.usage = counted(TokenNames)

LEMMA MeaningMeans ==
  ASSUME requests \in Nat, NEW a \in Answers, NEW m, m = meaning(a)
  PROVE  /\ means(m)
         /\ m.thinking = <<>> <=> ~a.thinking
         /\ m.text = <<>> <=> ~a.text
<1>1. a.calls \in Nat /\ a.finish \in {"stop", "length"}
  BY ConversationAssumption
<1>2. isSeq(m.thinking) /\ isSeq(m.text) /\ isSeq(m.calls)
  BY <1>1, MeaningIsSeq
<1>3. /\ m.thinking = IF a.thinking THEN <<piece(requests, 2)>> ELSE <<>>
      /\ m.text = IF a.text THEN <<piece(requests, 3)>> ELSE <<>>
      /\ m.calls = [i \in 1..a.calls |-> piece(requests, 3 + i)]
      /\ m.finish = IF a.calls > 0 THEN "tool_calls" ELSE a.finish
  BY DEF meaning
<1>4. piece(requests, 2) \in Nat \ {0} /\ piece(requests, 3) \in Nat \ {0}
  BY DEF piece
<1>5. numbered(m.thinking) /\ numbered(m.text)
  <2>1. \A x \in Nat \ {0} : \A i \in DOMAIN <<x>> : <<x>>[i] \in Nat \ {0}
    OBVIOUS
  <2> QED  BY <1>2, <1>3, <1>4, <2>1 DEF numbered
<1>6. m.calls = <<>> <=> a.calls = 0
  BY <1>1, <1>3
<1>7. m.finish \in Finishes /\ (m.finish = "tool_calls" <=> m.calls # <<>>)
  BY <1>1, <1>3, <1>6 DEF Finishes
<1>8. \A x : <<x>> # <<>>
  OBVIOUS
<1> QED  BY <1>2, <1>3, <1>5, <1>7, <1>8 DEF means

LEMMA TaggedChoiceTells ==
  ASSUME NEW thinking, NEW text, NEW calls, NEW finish, numbered(thinking), numbered(text)
  PROVE  choiceTells(Choice(tagged(thinking) \o text, <<>>, calls, finish),
                     thinking, text, calls)
<1>t. PICK t : t = tagged(thinking) \o text
  OBVIOUS
<1>c. PICK c : c = Choice(t, <<>>, calls, finish)
  OBVIOUS
<1>1. c.text = t /\ c.reasoning = <<>> /\ c.calls = calls
  BY <1>c DEF Choice
<1>s. PICK r : r = stripThinkTaggedText(t) /\ r = [text |-> text, reasoning |-> thinking]
  BY <1>t, TaggedIsStripped
<1>2. r.text = text /\ r.reasoning = thinking
  BY <1>s
<1>3. firstNonEmpty(<<>>, thinking) = thinking
  BY DEF firstNonEmpty
<1> QED  BY <1>t, <1>c, <1>1, <1>s, <1>2, <1>3 DEF choiceTells

LEMMA AnsweredTells ==
  ASSUME requests \in Nat, NEW a \in Answers, NEW u \in Dialects
  PROVE  tellsMeaning(u, answered(u, a), meaning(a))
<1>m. PICK m : m = meaning(a)
  OBVIOUS
<1>x. PICK x : x = answered(u, a)
  OBVIOUS
<1>1. means(m) /\ (m.thinking = <<>> <=> ~a.thinking) /\ (m.text = <<>> <=> ~a.text)
  BY <1>m, MeaningMeans
<1>2. numbered(m.thinking) /\ numbered(m.text) /\ isSeq(m.text) /\ isSeq(m.calls)
  BY <1>1 DEF means, numbered
<1>3. CASE u = "chat"
  <2>0. PICK head : head = IF a.tagged THEN each(m.thinking, LAMBDA p : -p) ELSE <<>>
    OBVIOUS
  <2>h. head = IF a.tagged THEN tagged(m.thinking) ELSE <<>>
    BY <2>0 DEF tagged
  <2>r. PICK reasoning : reasoning = IF a.tagged THEN <<>> ELSE m.thinking
    OBVIOUS
  <2>c. PICK c : c = Choice(head \o m.text, reasoning, m.calls, m.finish)
    OBVIOUS
  <2>1. x.choices = <<c>> /\ x.usage = counted(ChatNames)
    BY <1>3, <1>m, <1>x, <2>0, <2>r, <2>c DEF answered
  <2>2. c.finish = m.finish
    BY <2>c DEF Choice
  <2>3. choiceTells(c, m.thinking, m.text, m.calls)
    <3>1. CASE a.tagged
      <4>1. c = Choice(tagged(m.thinking) \o m.text, <<>>, m.calls, m.finish)
        BY <2>h, <2>r, <2>c, <3>1, Zenon
      <4> QED  BY <1>2, <4>1, TaggedChoiceTells, Zenon
    <3>2. CASE ~a.tagged
      <4>1. <<>> \o m.text = m.text
        BY <1>2, EmptyConcat, Zenon
      <4>2. c = Choice(m.text, m.thinking, m.calls, m.finish)
        BY <2>h, <2>r, <2>c, <3>2, <4>1, Zenon
      <4> QED  BY <1>2, <4>2, PlainChoiceTells, Zenon
    <3> QED  BY <3>1, <3>2
  <2>4. tellsMeaning("chat", x, m)
    BY <2>1, <2>2, <2>3, Zenon DEF tellsMeaning
  <2> QED  BY <1>3, <1>m, <1>x, <2>4
<1>4. CASE u = "responses"
  <2>1. /\ x.output = (IF a.thinking THEN <<ReasoningItem(m.thinking)>> ELSE <<>>)
                        \o (IF a.text THEN <<MessageItem("assistant",
                              List(<<Part("output_text", m.text, None)>>))>> ELSE <<>>)
                        \o callItems(m.calls)
        /\ x.status = IF m.finish = "length" THEN "incomplete" ELSE "completed"
        /\ x.usage = counted(TokenNames)
    BY <1>4, <1>m, <1>x DEF answered, callItems
  <2>2. /\ itemsOfThinking(m.thinking)
             = IF a.thinking THEN <<ReasoningItem(m.thinking)>> ELSE <<>>
        /\ itemsOfText(m.text) = IF a.text THEN <<MessageItem("assistant",
                              List(<<Part("output_text", m.text, None)>>))>> ELSE <<>>
    BY <1>1 DEF itemsOfThinking, itemsOfText
  <2>3. tellsMeaning("responses", x, m)
    BY <2>1, <2>2, Zenon DEF tellsMeaning
  <2> QED  BY <1>4, <1>m, <1>x, <2>3
<1>5. CASE u = "anthropic"
  <2>1. /\ x.content = (IF a.thinking THEN <<Thinking(m.thinking)>> ELSE <<>>)
                         \o (IF a.text THEN <<Part("text", m.text, None)>> ELSE <<>>)
                         \o toolUses(m.calls)
        /\ x.stop = Events!anthropicStopReasonFromChatFinish(m.finish)
        /\ x.usage = counted(TokenNames)
    BY <1>5, <1>m, <1>x DEF answered, toolUses
  <2>2. /\ blocksOfThinking(m.thinking)
             = IF a.thinking THEN <<Thinking(m.thinking)>> ELSE <<>>
        /\ blocksOfText(m.text) = IF a.text THEN <<Part("text", m.text, None)>> ELSE <<>>
    BY <1>1 DEF blocksOfThinking, blocksOfText
  <2>3. contentTells(x.content, m.thinking, m.text, m.calls)
    BY <2>1, <2>2, Zenon DEF contentTells, bothOrders
  <2>4. tellsMeaning("anthropic", x, m)
    BY <2>1, <2>3, Zenon DEF tellsMeaning
  <2> QED  BY <1>5, <1>m, <1>x, <2>4
<1> QED  BY <1>3, <1>4, <1>5 DEF Dialects

LEMMA DecodesMeaning ==
  ASSUME NEW m, means(m), NEW x, NEW u, tellsMeaning(u, x, m)
  PROVE  /\ u = "chat" =>
              /\ irTells(DecodeResponse("chat", x), m.thinking, m.text, m.calls)
              /\ DecodeResponse("chat", x).finish = m.finish
              /\ DecodeResponse("chat", x).usage = counted(ChatNames)
         /\ u = "anthropic" =>
              /\ irTells(DecodeResponse("anthropic", x), m.thinking, m.text, m.calls)
              /\ DecodeResponse("anthropic", x).finish = m.finish
              /\ DecodeResponse("anthropic", x).usage = counted(ChatNames)
         /\ u = "responses" =>
              /\ irLeads(DecodeResponse("responses", x), firstOf(m).thinking,
                         firstOf(m).text, firstOf(m).calls)
              /\ DecodeResponse("responses", x).finish = callingFinish(m.calls)
              /\ DecodeResponse("responses", x).usage = counted(TokenNames)
<1>m. PICK thinking, text, calls, finish :
        thinking = m.thinking /\ text = m.text /\ calls = m.calls /\ finish = m.finish
  OBVIOUS
<1>0. isSeq(thinking) /\ isSeq(text) /\ isSeq(calls) /\ finish \in Finishes
  BY <1>m DEF means, numbered
<1>1. ASSUME u = "chat"
      PROVE  /\ irTells(DecodeResponse("chat", x), thinking, text, calls)
             /\ DecodeResponse("chat", x).finish = finish
             /\ DecodeResponse("chat", x).usage = counted(ChatNames)
  <2>1. /\ x.usage = counted(ChatNames)
        /\ \E c : /\ x.choices = <<c>> /\ c.finish = finish
                  /\ choiceTells(c, thinking, text, calls)
    BY <1>1, <1>m DEF tellsMeaning
  <2>2. PICK c : x.choices = <<c>> /\ c.finish = finish /\ choiceTells(c, thinking, text, calls)
    BY <2>1
  <2> QED  BY <2>1, <2>2, ChatAnswerDecoded
<1>2. ASSUME u = "anthropic"
      PROVE  /\ irTells(DecodeResponse("anthropic", x), thinking, text, calls)
             /\ DecodeResponse("anthropic", x).finish = finish
             /\ DecodeResponse("anthropic", x).usage = counted(ChatNames)
  <2>1. /\ contentTells(x.content, thinking, text, calls)
        /\ x.stop = Events!anthropicStopReasonFromChatFinish(finish)
        /\ x.usage = counted(TokenNames)
    BY <1>2, <1>m DEF tellsMeaning
  <2>2. /\ irTells(DecodeResponse("anthropic", x), thinking, text, calls)
        /\ DecodeResponse("anthropic", x).finish
             = Events!anthropicStopReasonToChatFinish(x.stop)
        /\ DecodeResponse("anthropic", x).usage = normalizeAnthropicUsage(x.usage)
    BY <1>0, <2>1, AnthropicAnswerDecoded
  <2>3. Events!anthropicStopReasonToChatFinish(
          Events!anthropicStopReasonFromChatFinish(finish)) = finish
    BY <1>0 DEF Finishes, Events!anthropicStopReasonToChatFinish,
                Events!anthropicStopReasonFromChatFinish
  <2>4. normalizeAnthropicUsage(counted(TokenNames)) = counted(ChatNames)
    BY DEF normalizeAnthropicUsage, renamedUsage, counted, Usage
  <2> QED  BY <2>1, <2>2, <2>3, <2>4
<1>3. ASSUME u = "responses"
      PROVE  /\ irLeads(DecodeResponse("responses", x), firstOf(m).thinking,
                        firstOf(m).text, firstOf(m).calls)
             /\ DecodeResponse("responses", x).finish = callingFinish(m.calls)
             /\ DecodeResponse("responses", x).usage = counted(TokenNames)
  <2>1. /\ x.output = (itemsOfThinking(m.thinking) \o itemsOfText(m.text))
                        \o callItems(m.calls)
        /\ x.usage = counted(TokenNames)
    BY <1>3 DEF tellsMeaning
  <2>2. isSeq(m.text) /\ isSeq(m.calls)
    BY <1>0, <1>m
  <2> QED  BY <2>1, <2>2, ResponsesAnswerDecoded DEF callingFinish
<1> QED  BY <1>m, <1>1, <1>2, <1>3

\* What AnswerKept says of an answer from u to a client of d.
kept(d, u, m, x) ==
  LET crossed == u # d
      reason == IF crossed /\ "responses" \in {d, u} /\ ~(m.finish = "tool_calls")
                THEN "stop" ELSE m.finish
  IN reads(d, x,
           IF crossed /\ u = "responses" THEN firstOf(m)
           ELSE Answer(m.thinking, m.text, m.calls),
           IF d = "anthropic"
           THEN Events!anthropicStopReasonFromChatFinish(reason) ELSE reason,
           IF d = "anthropic" /\ u = "responses" THEN Usage(TokenNames, 0, 0)
           ELSE counted(IF d = "anthropic" \/ u = "responses" THEN TokenNames
                        ELSE ChatNames))

LEMMA FirstOfMeans ==
  ASSUME NEW m, means(m), NEW f, f = firstOf(m)
  PROVE  /\ numbered(f.thinking) /\ numbered(f.text) /\ isSeq(f.calls)
         /\ f = Answer(f.thinking, f.text, f.calls)
<1>0. numbered(<<>>) /\ isSeq(<<>>) /\ \A x : isSeq(<<x>>)
  BY ShortSeqs DEF numbered
<1>1. ASSUME NEW x, NEW y, NEW z, f = Answer(x, y, z)
      PROVE  /\ f.thinking = x /\ f.text = y /\ f.calls = z
             /\ f = Answer(f.thinking, f.text, f.calls)
  BY <1>1 DEF Answer
<1>2. CASE m.thinking # <<>>
  BY <1>0, <1>1, <1>2 DEF firstOf, means
<1>3. CASE m.thinking = <<>> /\ m.text # <<>>
  BY <1>0, <1>1, <1>3 DEF firstOf, means
<1>4. CASE m.thinking = <<>> /\ m.text = <<>>
  BY <1>0, <1>1, <1>4 DEF firstOf, means
<1> QED  BY <1>2, <1>3, <1>4

LEMMA ReadsChat ==
  ASSUME NEW thinking, NEW text, NEW calls, isSeq(thinking), isSeq(text), isSeq(calls),
         NEW ir, irLeads(ir, thinking, text, calls), ir.finish \in Finishes
  PROVE  reads("chat", EncodeResponse("chat", ir), Answer(thinking, text, calls),
               ir.finish, ir.usage)
<1>r. PICK r : r = EncodeResponse("chat", ir)
  OBVIOUS
<1>1. r.choices = <<Choice(text, thinking, calls, ir.finish)>> /\ r.usage = ir.usage
  BY <1>r, ChatAnswerEncoded
<1>2. formed("chat", r)
  BY <1>1 DEF formed
<1> QED  BY <1>r, <1>1, <1>2, ChatIsRead DEF reads

\* One conversion from u to d, as convertResponse makes it.
LEMMA ConvertedKept ==
  ASSUME NEW d \in Dialects, NEW u \in Dialects, NEW m, means(m), NEW x,
         tellsMeaning(u, x, m), d = "chat" \/ (u # "responses" /\ u # d)
  PROVE  kept(d, u, m, convertResponse(d, u, x))
<1>i. PICK ir : ir = DecodeResponse(u, x)
  OBVIOUS
<1>y. PICK y : y = EncodeResponse(d, ir)
  OBVIOUS
<1>0. convertResponse(d, u, x) = y
  BY <1>i, <1>y DEF convertResponse
<1>m. PICK thinking, text, calls, finish :
        thinking = m.thinking /\ text = m.text /\ calls = m.calls /\ finish = m.finish
  OBVIOUS
<1>1. isSeq(thinking) /\ isSeq(text) /\ isSeq(calls) /\ finish \in Finishes
      /\ (finish = "tool_calls" <=> calls # <<>>)
  BY <1>m DEF means, numbered
<1>2. CASE u # "responses"
  <2>1. /\ irTells(ir, thinking, text, calls) /\ ir.finish = finish
        /\ ir.usage = counted(ChatNames)
    BY <1>2, <1>i, <1>m, DecodesMeaning DEF Dialects
  <2>2. CASE d = "chat"
    <3>1. reads(d, y, Answer(thinking, text, calls), finish, counted(ChatNames))
      BY <1>1, <1>y, <2>1, <2>2, TellsLeads, ReadsChat
    <3> QED  BY <1>0, <1>2, <1>m, <2>2, <3>1 DEF kept, Dialects
  <2>3. CASE d = "responses"
    <3>1. reads(d, y, Answer(thinking, text, calls), callingFinish(calls), counted(ChatNames))
      BY <1>1, <1>y, <2>1, <2>3, ResponsesAnswerEncoded
    <3>2. u # d
      BY <2>3
    <3>3. callingFinish(calls) = IF ~(finish = "tool_calls") THEN "stop" ELSE finish
      BY <1>1 DEF callingFinish
    <3> QED  BY <1>0, <1>2, <1>m, <2>3, <3>1, <3>2, <3>3 DEF kept
  <2>4. CASE d = "anthropic"
    <3>1. reads(d, y, Answer(thinking, text, calls),
                Events!anthropicStopReasonFromChatFinish(finish),
                denormalizeAnthropicUsage(counted(ChatNames)))
      BY <1>1, <1>y, <2>1, <2>4, AnthropicAnswerEncoded
    <3>2. denormalizeAnthropicUsage(counted(ChatNames)) = counted(TokenNames)
      BY DEF denormalizeAnthropicUsage, renamedUsage, counted, Usage
    <3> QED  BY <1>0, <1>2, <1>m, <2>4, <3>1, <3>2 DEF kept
  <2> QED  BY <2>2, <2>3, <2>4 DEF Dialects
<1>3. CASE u = "responses"
  <2>1. PICK f : f = firstOf(m) /\ isSeq(f.thinking) /\ isSeq(f.text) /\ isSeq(f.calls)
                 /\ f = Answer(f.thinking, f.text, f.calls)
    BY FirstOfMeans DEF numbered
  <2>2. /\ irLeads(ir, f.thinking, f.text, f.calls) /\ ir.finish = callingFinish(calls)
        /\ ir.usage = counted(TokenNames)
    BY <1>3, <1>i, <1>m, <2>1, DecodesMeaning
  <2>3. ir.finish \in Finishes
    BY <2>2 DEF Finishes, callingFinish
  <2>4. d = "chat"
    BY <1>3
  <2>5. reads(d, y, f, callingFinish(calls), counted(TokenNames))
    BY <1>y, <2>1, <2>2, <2>3, <2>4, ReadsChat
  <2>6. callingFinish(calls) = IF ~(finish = "tool_calls") THEN "stop" ELSE finish
    BY <1>1 DEF callingFinish
  <2> QED  BY <1>0, <1>3, <1>m, <2>1, <2>4, <2>5, <2>6 DEF kept
<1> QED  BY <1>2, <1>3

\* From a responses backend to an Anthropic client through chat.
LEMMA TwiceConvertedKept ==
  ASSUME NEW m, means(m), NEW x, tellsMeaning("responses", x, m)
  PROVE  kept("anthropic", "responses", m,
              convertResponse("anthropic", "chat", convertResponse("chat", "responses", x)))
<1>m. PICK calls, finish : calls = m.calls /\ finish = m.finish
  OBVIOUS
<1>0. finish = "tool_calls" <=> calls # <<>>
  BY <1>m DEF means
<1>1. PICK f : /\ f = firstOf(m) /\ numbered(f.thinking) /\ numbered(f.text)
               /\ isSeq(f.calls) /\ f = Answer(f.thinking, f.text, f.calls)
  BY FirstOfMeans
<1>f. PICK fThinking, fText, fCalls :
        fThinking = f.thinking /\ fText = f.text /\ fCalls = f.calls
  OBVIOUS
<1>s. isSeq(fThinking) /\ isSeq(fText) /\ isSeq(fCalls)
  BY <1>1, <1>f DEF numbered
<1>i. PICK ir : ir = DecodeResponse("responses", x)
  OBVIOUS
<1>2. /\ irLeads(ir, fThinking, fText, fCalls) /\ ir.finish = callingFinish(calls)
      /\ ir.usage = counted(TokenNames)
  BY <1>i, <1>m, <1>f, <1>1, DecodesMeaning
<1>3. ir.finish \in Finishes
  BY <1>2 DEF Finishes, callingFinish
<1>y. PICK y : y = EncodeResponse("chat", ir)
  OBVIOUS
<1>c. PICK c : c = Choice(fText, fThinking, fCalls, ir.finish)
  OBVIOUS
<1>4. y.choices = <<c>> /\ y.usage = counted(TokenNames)
  BY <1>s, <1>c, <1>y, <1>2, <1>3, ChatAnswerEncoded
<1>5. choiceTells(c, fThinking, fText, fCalls)
  BY <1>1, <1>f, <1>c, PlainChoiceTells
<1>6. c.finish = callingFinish(calls)
  BY <1>2, <1>c DEF Choice
<1>j. PICK jr : jr = DecodeResponse("chat", y)
  OBVIOUS
<1>7. /\ irTells(jr, fThinking, fText, fCalls) /\ jr.finish = callingFinish(calls)
      /\ jr.usage = counted(TokenNames)
  BY <1>4, <1>5, <1>6, <1>j, ChatAnswerDecoded
<1>8. reads("anthropic", EncodeResponse("anthropic", jr), Answer(fThinking, fText, fCalls),
            Events!anthropicStopReasonFromChatFinish(callingFinish(calls)),
            denormalizeAnthropicUsage(counted(TokenNames)))
  BY <1>s, <1>7, AnthropicAnswerEncoded
<1>9. denormalizeAnthropicUsage(counted(TokenNames)) = Usage(TokenNames, 0, 0)
  BY DEF denormalizeAnthropicUsage, renamedUsage, counted, Usage, TokenNames, ChatNames
<1>10. callingFinish(calls) = IF ~(finish = "tool_calls") THEN "stop" ELSE finish
  BY <1>0 DEF callingFinish
<1>11. convertResponse("anthropic", "chat", convertResponse("chat", "responses", x))
         = EncodeResponse("anthropic", jr)
  BY <1>i, <1>y, <1>j DEF convertResponse
<1> QED  BY <1>1, <1>m, <1>f, <1>8, <1>9, <1>10, <1>11 DEF kept

\* Handed on as it is.
LEMMA UnconvertedKept ==
  ASSUME NEW d \in {"responses", "anthropic"}, NEW m, means(m), NEW x, tellsMeaning(d, x, m)
  PROVE  kept(d, d, m, x)
<1>m. PICK thinking, text, calls, finish :
        thinking = m.thinking /\ text = m.text /\ calls = m.calls /\ finish = m.finish
  OBVIOUS
<1>1. isSeq(thinking) /\ isSeq(text) /\ isSeq(calls) /\ finish \in Finishes
      /\ (finish = "tool_calls" <=> calls # <<>>)
  BY <1>m DEF means, numbered
<1>2. CASE d = "responses"
  <2>1. /\ x.output = (itemsOfThinking(thinking) \o itemsOfText(text)) \o callItems(calls)
        /\ x.status = IF finish = "length" THEN "incomplete" ELSE "completed"
        /\ x.usage = counted(TokenNames)
    BY <1>2, <1>m DEF tellsMeaning
  <2>2. readOutput(x.output) = Answer(thinking, text, calls)
    BY <1>1, <2>1, ItemsAreRead DEF bothOrders
  <2>3. /\ readAnswer("responses", x) = Answer(thinking, text, calls)
        /\ finishOf("responses", x) = IF calls # <<>> THEN "tool_calls"
                                      ELSE IF x.status = "incomplete" THEN "length"
                                      ELSE "stop"
    BY <2>2, OutputFinish
  <2>4. finishOf("responses", x) = finish
    BY <1>1, <2>1, <2>3 DEF Finishes
  <2>5. formed("responses", x)
    BY <1>1, <2>1 DEF formed, bothOrders
  <2> QED  BY <1>2, <1>m, <2>1, <2>3, <2>4, <2>5 DEF kept, reads
<1>3. CASE d = "anthropic"
  <2>1. /\ contentTells(x.content, thinking, text, calls)
        /\ x.stop = Events!anthropicStopReasonFromChatFinish(finish)
        /\ x.usage = counted(TokenNames)
    BY <1>3, <1>m DEF tellsMeaning
  <2>2. readBlocks(x.content) = Answer(thinking, text, calls)
    BY <1>1, <2>1, BlocksAreRead DEF contentTells
  <2>3. readAnswer("anthropic", x) = readBlocks(x.content) /\ finishOf("anthropic", x) = x.stop
    BY DEF readAnswer, finishOf
  <2>4. formed("anthropic", x)
    BY <1>1, <2>1 DEF formed
  <2> QED  BY <1>3, <1>m, <2>1, <2>2, <2>3, <2>4 DEF kept, reads
<1> QED  BY <1>2, <1>3

LEMMA DeliveredKept ==
  ASSUME NEW d \in Dialects, NEW u \in Dialects, NEW m, means(m), NEW x,
         tellsMeaning(u, x, m), NEW gzip, d = "responses" /\ u = "chat" => gzip,
         NEW b, b = Body("json", gzip, u, x), NEW g, g = writeProtocolResponse(d, u, b).got
  PROVE  g.dialect = d /\ kept(d, u, m, g.answer)
<1>1. b.form = "json" /\ b.gzip = gzip /\ b.dialect = u /\ b.answer = x
  BY DEF Body
<1>2. b # Empty
  BY <1>1, BodiesDiffer
<1>3. \A p, q : delivered(p, q).got = p
  BY DEF delivered
<1>4. ASSUME NEW e, NEW y, g = Body("json", FALSE, e, y)
      PROVE  g.dialect = e /\ g.answer = y
  BY <1>4 DEF Body
<1>5. ASSUME NEW e \in Dialects, NEW v \in Dialects
      PROVE  convertedNonStreamResponse(e, v, b).got = Body("json", FALSE, e, convert(e, v, x))
  BY <1>1, <1>3 DEF convertedNonStreamResponse
<1>6. CASE d = u /\ d # "chat"
  <2>1. writeProtocolResponse(d, u, b) = delivered(b, b)
    BY <1>2, <1>6 DEF writeProtocolResponse, passthroughNonStreamResponse
  <2>2. g.dialect = d /\ g.answer = x
    BY <1>1, <1>3, <1>6, <2>1
  <2> QED  BY <1>6, <2>2, UnconvertedKept DEF Dialects
<1>7. CASE ~(d = u /\ d # "chat")
  <2>1. writeProtocolResponse(d, u, b) = convertedNonStreamResponse(d, u, b)
    <3>1. CASE d = "chat" /\ u = "chat"
      BY <1>2, <1>7, <3>1, Zenon DEF writeProtocolResponse, handleNonStreamResponse
    <3>2. CASE d = "responses" /\ u = "chat"
      BY <1>1, <1>2, <3>2 DEF writeProtocolResponse, handleResponsesNonStreamResponse
    <3>3. CASE ~(d = "chat" /\ u = "chat") /\ ~(d = "responses" /\ u = "chat")
      BY <1>2, <1>7, <3>3 DEF writeProtocolResponse
    <3> QED  BY <3>1, <3>2, <3>3
  <2>2. g.dialect = d /\ g.answer = convert(d, u, x)
    <3>1. PICK y : y = convert(d, u, x)
      OBVIOUS
    <3>2. convertedNonStreamResponse(d, u, b).got = Body("json", FALSE, d, y)
      BY <1>5, <3>1
    <3>3. g = Body("json", FALSE, d, y)
      BY <2>1, <3>2, Zenon
    <3> QED  BY <3>1, <3>3, <1>4
  <2>3. CASE d = "anthropic" /\ u = "responses"
    <3>1. convert(d, u, x) = convertResponse("anthropic", "chat",
                               convertResponse("chat", "responses", x))
      BY <2>3 DEF convert
    <3> QED  BY <2>2, <2>3, <3>1, TwiceConvertedKept
  <2>4. CASE ~(d = "anthropic" /\ u = "responses")
    <3>1. convert(d, u, x) = convertResponse(d, u, x)
      BY <2>4 DEF convert
    <3>2. d = "chat" \/ (u # "responses" /\ u # d)
      BY <1>7, <2>4 DEF Dialects
    <3>3. kept(d, u, m, convertResponse(d, u, x))
      BY <3>2, ConvertedKept
    <3> QED  BY <2>2, <3>1, <3>3
  <2> QED  BY <2>3, <2>4
<1> QED  BY <1>6, <1>7

LEMMA NextAnswerKept ==
  ConversationTypeOK /\ AnswerKept /\ [Next]_vars => AnswerKept'
<1> SUFFICES ASSUME ConversationTypeOK, AnswerKept, [Next]_vars PROVE AnswerKept'
  OBVIOUS
<1>1. ASSUME NEW a \in Answers, NEW gzip \in BOOLEAN, answer(a, gzip)
      PROVE  AnswerKept'
  <2>1. PICK b : b = Body("json", gzip, sent.upstream, answered(sent.upstream, a))
    OBVIOUS
  <2>2. PICK m : m = meaning(a)
    OBVIOUS
  <2>3. PICK g : g = writeProtocolResponse(dialect, sent.upstream, b).got
    OBVIOUS
  <2>4. /\ phase = "sent" /\ meant' = m /\ body' = b /\ got' = g
        /\ dialect' = dialect /\ sent' = sent
    BY <1>1, <2>1, <2>2, <2>3 DEF answer, responds
  <2>5. dialect \in Dialects /\ sent.upstream \in Dialects /\ requests \in Nat
    BY <2>4, ConversationAssumption DEF ConversationTypeOK
  <2>6. means(m)
    BY <2>2, <2>5, MeaningMeans
  <2>7. tellsMeaning(sent.upstream, answered(sent.upstream, a), m)
    BY <2>2, <2>5, AnsweredTells
  <2>8. body'.gzip = gzip
    BY <2>1, <2>4 DEF Body
  <2>9. CASE dialect = "responses" /\ sent.upstream = "chat" /\ ~gzip
    BY <2>4, <2>8, <2>9 DEF AnswerKept, unconverted
  <2>10. CASE dialect = "responses" /\ sent.upstream = "chat" => gzip
    <3>1. g.dialect = dialect /\ kept(dialect, sent.upstream, m, g.answer)
      BY <2>1, <2>3, <2>5, <2>6, <2>7, <2>10, DeliveredKept
    <3>2. got'.dialect = dialect' /\ kept(dialect', sent'.upstream, meant', got'.answer)
      BY <2>4, <3>1
    <3> QED  BY <3>2 DEF AnswerKept, kept, reads
  <2> QED  BY <2>9, <2>10
<1>2. ASSUME NEW b, NEW m, responds(b, m), b.form # "json"
      PROVE  AnswerKept'
  BY <1>2 DEF responds, AnswerKept
<1>3. ASSUME NEW gzip \in BOOLEAN, answerUnreadable(gzip)
      PROVE  AnswerKept'
  <2>1. PICK d, x : responds(Body("malformed", gzip, d, x), NoAnswer)
    BY <1>3, Zenon DEF answerUnreadable
  <2>2. Body("malformed", gzip, d, x).form # "json"
    BY DEF Body
  <2> QED  BY <1>2, <2>1, <2>2
<1>4. CASE answerEmpty
  <2>1. responds(Empty, NoAnswer)
    BY <1>4 DEF answerEmpty
  <2> QED  BY <1>2, <2>1, BodiesDiffer
<1>5. ASSUME phase' # "received"
      PROVE  AnswerKept'
  BY <1>5 DEF AnswerKept
<1>6. ASSUME NEW form, ask(form) \/ answerCalls(form)
      PROVE  AnswerKept'
  BY <1>5, <1>6 DEF ask, answerCalls, writes
<1>7. CASE reject \/ bodyBreaksOff \/ attemptFails \/ \E b \in Backends : send(b)
  BY <1>5, <1>7 DEF reject, bodyBreaksOff, attemptFails, send
<1>8. CASE UNCHANGED vars
  BY <1>8 DEF vars, AnswerKept, unconverted
<1> QED  BY <1>1, <1>3, <1>4, <1>6, <1>7, <1>8 DEF Next

\* Whatever the dialects of client and backend, the client reads the thinking,
\* text and calls the model meant, why the answer ended and what it cost, but
\* for what AnswerKept names, in every reachable state.
THEOREM AnswersAreKept == Spec => []AnswerKept
<1>1. Init => AnswerKept
  BY DEF Init, AnswerKept
<1> QED  BY <1>1, InitConversation, NextConversation, NextAnswerKept, PTL DEF Spec
-----------------------------------------------------------------------------
(* What of a request's messages is told to a backend: the entries of each  *)
(* kind that the provider reads of what becomes of them.                   *)

from(d) == CASE d = "chat" -> "fromChat"
             [] d = "responses" -> "fromResponses"
             [] d = "anthropic" -> "fromAnthropic"
to(u) == CASE u = "chat" -> "toChat"
           [] u = "responses" -> "toResponses"
           [] u = "anthropic" -> "toAnthropic"
reading(d) == CASE d = "chat" -> "readChat"
                [] d = "responses" -> "readResponses"
                [] d = "anthropic" -> "readAnthropic"
keeping(d, u) ==
  CASE d = "chat" -> "allOfChat"
    [] d = "responses" /\ u # "anthropic" -> "someOfResponses"
    [] d = "responses" /\ u = "anthropic" -> "fewerOfResponses"
    [] d = "anthropic" -> "someOfAnthropic"

LEMMA ThroughReading ==
  ASSUME NEW d \in Dialects, NEW m
  PROVE  through(reading(d), m) = readMessage(d, m)
BY ThroughMessage DEF reading, Dialects

LEMMA ThroughKeeping ==
  ASSUME NEW d \in Dialects, NEW u \in Dialects, NEW m
  PROVE  through(keeping(d, u), m) = keptOf(d, u, m)
<1>1. /\ d = "chat" => keeping(d, u) = "allOfChat"
      /\ d = "responses" /\ u # "anthropic" => keeping(d, u) = "someOfResponses"
      /\ d = "responses" /\ u = "anthropic" => keeping(d, u) = "fewerOfResponses"
      /\ d = "anthropic" => keeping(d, u) = "someOfAnthropic"
  BY DEF keeping
<1>2. /\ keptOf("chat", "chat", m) = keptOf("chat", u, m)
      /\ keptOf("anthropic", "chat", m) = keptOf("anthropic", u, m)
      /\ u # "anthropic" => keptOf("responses", "chat", m) = keptOf("responses", u, m)
  <2>1. /\ lostTo("chat", "chat", m) = lostTo("chat", u, m)
        /\ lostTo("anthropic", "chat", m) = lostTo("anthropic", u, m)
        /\ u # "anthropic" => lostTo("responses", "chat", m) = lostTo("responses", u, m)
    <3> HIDE DEF Absent
    <3> QED  BY DEF lostTo
  <2> QED  BY <2>1, Zenon DEF keptOf
<1>3. d = "chat" \/ d = "responses" \/ d = "anthropic"
  BY DEF Dialects
<1> QED  BY <1>1, <1>2, <1>3, ThroughKept, Zenon

LEMMA SameSeqs == \A s : isSeq(s) <=> Joins!isSeq(s)
BY DEF isSeq, Joins!isSeq

\* Entries tell what is said, shown and called.
tells(e, s, h, c) ==
  /\ Joins!joinsTo("said", e, s) /\ Joins!joinsTo("shown", e, h)
  /\ Joins!joinsTo("called", e, c)
\* Messages of d are read so, and messages in the form between become such of u.
readsAs(d, ms, s, h, c) ==
  \E e : Joins!joinsTo(reading(d), ms, e) /\ tells(e, s, h, c)
becomes(u, irs, s, h, c) ==
  \E w : Joins!joinsTo(to(u), irs, w) /\ readsAs(u, w, s, h, c)
\* What a client of d wrote reaches a backend of u, but for the texts lost.
reaches(d, u, ms) ==
  \E irs, left, s, h, c, x, y, z :
    /\ Joins!joinsTo(from(d), ms, irs) /\ becomes(u, irs, s, h, c)
    /\ Joins!joinsTo(keeping(d, u), ms, left) /\ readsAs(d, left, s, h, x)
    /\ readsAs(d, ms, y, z, c)

LEMMA TellsConcat ==
  ASSUME NEW e, NEW s, NEW h, NEW c, tells(e, s, h, c),
         NEW f, NEW t, NEW i, NEW k, tells(f, t, i, k)
  PROVE  tells(e \o f, s \o t, h \o i, c \o k)
BY Joins!JoinsConcat DEF tells

LEMMA ReadsConcat ==
  ASSUME NEW d, NEW ms, NEW s, NEW h, NEW c, readsAs(d, ms, s, h, c),
         NEW ns, NEW t, NEW i, NEW k, readsAs(d, ns, t, i, k)
  PROVE  readsAs(d, ms \o ns, s \o t, h \o i, c \o k)
<1>1. PICK e : Joins!joinsTo(reading(d), ms, e) /\ tells(e, s, h, c)
  BY DEF readsAs
<1>2. PICK f : Joins!joinsTo(reading(d), ns, f) /\ tells(f, t, i, k)
  BY DEF readsAs
<1>3. Joins!joinsTo(reading(d), ms \o ns, e \o f)
  BY <1>1, <1>2, Joins!JoinsConcat
<1>4. tells(e \o f, s \o t, h \o i, c \o k)
  BY <1>1, <1>2, TellsConcat
<1> QED  BY <1>3, <1>4, Zenon DEF readsAs

LEMMA BecomesConcat ==
  ASSUME NEW u, NEW ms, NEW s, NEW h, NEW c, becomes(u, ms, s, h, c),
         NEW ns, NEW t, NEW i, NEW k, becomes(u, ns, t, i, k)
  PROVE  becomes(u, ms \o ns, s \o t, h \o i, c \o k)
<1>1. PICK w : Joins!joinsTo(to(u), ms, w) /\ readsAs(u, w, s, h, c)
  BY DEF becomes
<1>2. PICK v : Joins!joinsTo(to(u), ns, v) /\ readsAs(u, v, t, i, k)
  BY DEF becomes
<1>3. Joins!joinsTo(to(u), ms \o ns, w \o v)
  BY <1>1, <1>2, Joins!JoinsConcat
<1>4. readsAs(u, w \o v, s \o t, h \o i, c \o k)
  BY <1>1, <1>2, ReadsConcat
<1> QED  BY <1>3, <1>4, Zenon DEF becomes

LEMMA ReachesConcat ==
  ASSUME NEW d, NEW u, NEW ms, reaches(d, u, ms), NEW ns, reaches(d, u, ns)
  PROVE  reaches(d, u, ms \o ns)
<1>1. PICK irs, left, s, h, c, x, y, z :
        /\ Joins!joinsTo(from(d), ms, irs) /\ becomes(u, irs, s, h, c)
        /\ Joins!joinsTo(keeping(d, u), ms, left) /\ readsAs(d, left, s, h, x)
        /\ readsAs(d, ms, y, z, c)
  BY DEF reaches
<1>2. PICK irs2, left2, s2, h2, c2, x2, y2, z2 :
        /\ Joins!joinsTo(from(d), ns, irs2) /\ becomes(u, irs2, s2, h2, c2)
        /\ Joins!joinsTo(keeping(d, u), ns, left2) /\ readsAs(d, left2, s2, h2, x2)
        /\ readsAs(d, ns, y2, z2, c2)
  BY DEF reaches
<1>3. Joins!joinsTo(from(d), ms \o ns, irs \o irs2)
  BY <1>1, <1>2, Joins!JoinsConcat
<1>4. becomes(u, irs \o irs2, s \o s2, h \o h2, c \o c2)
  BY <1>1, <1>2, BecomesConcat
<1>5. Joins!joinsTo(keeping(d, u), ms \o ns, left \o left2)
  BY <1>1, <1>2, Joins!JoinsConcat
<1>6. readsAs(d, left \o left2, s \o s2, h \o h2, x \o x2)
  BY <1>1, <1>2, ReadsConcat
<1>7. readsAs(d, ms \o ns, y \o y2, z \o z2, c \o c2)
  BY <1>1, <1>2, ReadsConcat
<1> QED  BY <1>3, <1>4, <1>5, <1>6, <1>7, Zenon DEF reaches

LEMMA NothingTells == tells(<<>>, <<>>, <<>>, <<>>)
BY Joins!JoinsNothing DEF tells

LEMMA NothingReads ==
  \A d : readsAs(d, <<>>, <<>>, <<>>, <<>>) /\ becomes(d, <<>>, <<>>, <<>>, <<>>)
BY Joins!JoinsNothing, NothingTells DEF readsAs, becomes

LEMMA NothingReaches == \A d, u : reaches(d, u, <<>>)
BY Joins!JoinsNothing, NothingReads DEF reaches

LEMMA TellsSeq == ASSUME NEW e, NEW s, NEW h, NEW c, tells(e, s, h, c) PROVE isSeq(e)
BY SameSeqs DEF tells, Joins!joinsTo, Joins!givesFrom

LEMMA MessageReads ==
  ASSUME NEW d \in Dialects, NEW m, NEW s, NEW h, NEW c,
         tells(readMessage(d, m), s, h, c)
  PROVE  readsAs(d, <<m>>, s, h, c)
<1>1. PICK e : e = readMessage(d, m)
  OBVIOUS
<1>2. Joins!isSeq(e)
  BY <1>1, TellsSeq, SameSeqs
<1>3. through(reading(d), m) = e
  BY <1>1, ThroughReading
<1>4. Joins!joinsTo(reading(d), <<m>>, e)
  BY <1>2, <1>3, Joins!JoinsOne
<1> QED  BY <1>1, <1>4, Zenon DEF readsAs

\* One message of the form between, through the reader of what it becomes.
LEMMA OneBecomes ==
  ASSUME NEW u, NEW m, NEW w, through(to(u), m) = w, isSeq(w),
         NEW s, NEW h, NEW c, readsAs(u, w, s, h, c)
  PROVE  becomes(u, <<m>>, s, h, c)
<1>1. Joins!joinsTo(to(u), <<m>>, w)
  BY SameSeqs, Joins!JoinsOne
<1> QED  BY <1>1, Zenon DEF becomes

\* One message of a client.
LEMMA OneReaches ==
  ASSUME NEW d \in Dialects, NEW u \in Dialects, NEW m,
         NEW irs, through(from(d), m) = irs, isSeq(irs),
         NEW s, NEW h, NEW c, becomes(u, irs, s, h, c),
         NEW t, NEW i, tells(readMessage(d, m), t, i, c),
         IF lostTo(d, u, m) THEN s = <<>> /\ h = <<>> ELSE s = t /\ h = i
  PROVE  reaches(d, u, <<m>>)
<1>1. Joins!joinsTo(from(d), <<m>>, irs)
  BY SameSeqs, Joins!JoinsOne
<1>2. readsAs(d, <<m>>, t, i, c)
  BY MessageReads
<1>3. through(keeping(d, u), m) = keptOf(d, u, m)
  BY ThroughKeeping
<1>4. isSeq(<<>>) /\ isSeq(<<m>>)
  BY ShortSeqs
<1>5. CASE lostTo(d, u, m)
  <2>1. keptOf(d, u, m) = <<>>
    BY <1>5 DEF keptOf
  <2>2. Joins!joinsTo(keeping(d, u), <<m>>, <<>>)
    BY <1>3, <1>4, <2>1, SameSeqs, Joins!JoinsOne
  <2>3. readsAs(d, <<>>, s, h, <<>>)
    BY <1>5, NothingReads
  <2> QED  BY <1>1, <1>2, <2>2, <2>3, Zenon DEF reaches
<1>6. CASE ~lostTo(d, u, m)
  <2>1. keptOf(d, u, m) = <<m>>
    BY <1>6 DEF keptOf
  <2>2. Joins!joinsTo(keeping(d, u), <<m>>, <<m>>)
    BY <1>3, <1>4, <2>1, SameSeqs, Joins!JoinsOne
  <2>3. readsAs(d, <<m>>, s, h, c)
    BY <1>2, <1>6
  <2> QED  BY <1>1, <1>2, <2>2, <2>3, Zenon DEF reaches
<1> QED  BY <1>5, <1>6

\* Messages of which each reaches the backend reach it.
LEMMA AllReach ==
  ASSUME NEW d, NEW u, NEW ms, isSeq(ms),
         \A i \in DOMAIN ms : reaches(d, u, <<ms[i]>>)
  PROVE  reaches(d, u, ms)
<1> DEFINE E == {ms[i] : i \in DOMAIN ms}
           Z == {t \in Seq(E) : reaches(d, u, t)}
<1>1. ms \in Seq(E)
  <2>1. PICK S : ms \in Seq(S)
    BY DEF isSeq
  <2>2. Len(ms) \in Nat /\ DOMAIN ms = 1..Len(ms) /\ ms = [i \in 1..Len(ms) |-> ms[i]]
    BY <2>1
  <2>3. ms \in [1..Len(ms) -> E]
    BY <2>2
  <2> QED  BY <2>2, <2>3
<1>2. \A e \in E : reaches(d, u, <<e>>)
  OBVIOUS
<1> HIDE DEF E
<1>3. <<>> \in Z
  BY NothingReaches
<1>4. ASSUME NEW t \in Seq(E), NEW e \in E, t \in Z
      PROVE  Append(t, e) \in Z
  <2>1. reaches(d, u, t) /\ reaches(d, u, <<e>>)
    BY <1>2, <1>4
  <2>2. reaches(d, u, t \o <<e>>)
    BY <2>1, ReachesConcat
  <2>3. t \o <<e>> = Append(t, e) /\ Append(t, e) \in Seq(E)
    OBVIOUS
  <2> QED  BY <2>2, <2>3
<1>5. Seq(E) \subseteq Z
  <2> HIDE DEF Z
  <2> QED  BY <1>3, <1>4, Joins!SeqSetInduction
<1> QED  BY <1>1, <1>5
-----------------------------------------------------------------------------
(* The kinds of the entries that texts, media, calls and results give.     *)

LEMMA EntryOfKind ==
  ASSUME NEW kind, NEW k, NEW side, NEW id, NEW text
  PROVE  ofKind(k, Entry(kind, side, id, text)) =
           IF kind = k THEN <<Entry(kind, side, id, text)>> ELSE <<>>
<1>1. Entry(kind, side, id, text).kind = kind
  BY DEF Entry
<1> QED  BY <1>1 DEF ofKind

\* Entries of one kind.
LEMMA OfOneKind ==
  ASSUME NEW kind \in {"said", "shown", "call", "result"}, NEW e, isSeq(e),
         \A i \in DOMAIN e : \E side, id, text : e[i] = Entry(kind, side, id, text)
  PROVE  tells(e, IF kind = "said" THEN e ELSE <<>>, IF kind = "shown" THEN e ELSE <<>>,
               IF kind = "call" THEN e ELSE <<>>)
<1>1. ASSUME NEW k PROVE \A i \in DOMAIN e : ofKind(k, e[i]) = IF kind = k THEN <<e[i]>> ELSE <<>>
  BY EntryOfKind
<1>2. \A i \in DOMAIN e :
        /\ through("said", e[i]) = IF kind = "said" THEN <<e[i]>> ELSE <<>>
        /\ through("shown", e[i]) = IF kind = "shown" THEN <<e[i]>> ELSE <<>>
        /\ through("called", e[i]) = IF kind = "call" THEN <<e[i]>> ELSE <<>>
  BY <1>1, ThroughKinds
<1>3. Joins!isSeq(e)
  BY SameSeqs
<1>4. Joins!joinsTo("said", e, IF kind = "said" THEN e ELSE <<>>)
  <2>1. CASE kind = "said"
    BY <1>2, <1>3, <2>1, Joins!JoinsSingles
  <2>2. CASE kind # "said"
    BY <1>2, <1>3, <2>2, Joins!JoinsNone
  <2> QED  BY <2>1, <2>2
<1>5. Joins!joinsTo("shown", e, IF kind = "shown" THEN e ELSE <<>>)
  <2>1. CASE kind = "shown"
    BY <1>2, <1>3, <2>1, Joins!JoinsSingles
  <2>2. CASE kind # "shown"
    BY <1>2, <1>3, <2>2, Joins!JoinsNone
  <2> QED  BY <2>1, <2>2
<1>6. Joins!joinsTo("called", e, IF kind = "call" THEN e ELSE <<>>)
  <2>1. CASE kind = "call"
    BY <1>2, <1>3, <2>1, Joins!JoinsSingles
  <2>2. CASE kind # "call"
    BY <1>2, <1>3, <2>2, Joins!JoinsNone
  <2> QED  BY <2>1, <2>2
<1> QED  BY <1>4, <1>5, <1>6 DEF tells

LEMMA SaidTells ==
  ASSUME NEW side, NEW text, isSeq(text)
  PROVE  tells(said(side, text), said(side, text), <<>>, <<>>)
<1>1. PICK e : e = said(side, text)
  OBVIOUS
<1>2. e = [i \in DOMAIN text |-> Entry("said", side, text[i], <<>>)]
  BY <1>1 DEF said, each
<1>3. isSeq(e)
  BY <1>2, EachOf
<1>4. \A i \in DOMAIN e : \E d, id, x : e[i] = Entry("said", d, id, x)
  BY <1>2
<1>5. tells(e, e, <<>>, <<>>)
  BY <1>3, <1>4, OfOneKind
<1> QED  BY <1>1, <1>5

LEMMA CallsTell ==
  ASSUME NEW ids, isSeq(ids)
  PROVE  tells(readCalls(ids), <<>>, <<>>, readCalls(ids))
<1>1. PICK e : e = readCalls(ids)
  OBVIOUS
<1>2. e = [i \in DOMAIN ids |-> Entry("call", "assistant", ids[i], <<>>)]
  BY <1>1 DEF readCalls, each
<1>3. isSeq(e)
  BY <1>2, EachOf
<1>4. \A i \in DOMAIN e : \E d, id, x : e[i] = Entry("call", d, id, x)
  BY <1>2
<1>5. tells(e, <<>>, <<>>, e)
  BY <1>3, <1>4, OfOneKind
<1> QED  BY <1>1, <1>5

LEMMA OneTells ==
  ASSUME NEW kind \in {"shown", "result"}, NEW side, NEW id, NEW text,
         NEW e, e = <<Entry(kind, side, id, text)>>
  PROVE  tells(e, <<>>, IF kind = "shown" THEN e ELSE <<>>, <<>>)
<1>1. isSeq(e)
  BY ShortSeqs
<1>2. \A i \in DOMAIN e : \E d, n, x : e[i] = Entry(kind, d, n, x)
  OBVIOUS
<1> QED  BY <1>1, <1>2, OfOneKind

\* Nothing is said twice by being joined with nothing.
LEMMA TellsAnd ==
  ASSUME NEW e, NEW s, NEW h, NEW c, tells(e, s, h, c)
  PROVE  isSeq(s) /\ isSeq(h) /\ isSeq(c)
BY SameSeqs DEF tells, Joins!joinsTo

Sides == {"user", "assistant", "system"}
readBy(side) == CASE side = "user" -> "readUser"
                  [] side = "assistant" -> "readAssistant"
                  [] side = "system" -> "readSystem"

LEMMA ThroughSide ==
  ASSUME NEW side \in Sides, NEW p
  PROVE  through(readBy(side), p) = readPart(side, p)
BY ThroughKinds DEF readBy, Sides

LEMMA ContentReads ==
  ASSUME NEW side \in Sides, NEW content, NEW e,
         Joins!joinsTo(readBy(side), content.parts, e)
  PROVE  readContent(side, content) = e
<1> DEFINE s == content.parts
<1>1. [i \in DOMAIN s |-> readPart(side, s[i])]
        = [i \in DOMAIN s |-> through(readBy(side), s[i])]
  BY ThroughSide
<1>2. readContent(side, content) = Joins!join(readBy(side), s)
  BY <1>1, JoinOfEach, Zenon DEF readContent, joined, each
<1> QED  BY <1>2 DEF Joins!joinsTo

LEMMA PartReads ==
  ASSUME NEW side, NEW p
  PROVE  /\ p.type \in TextTypes => readPart(side, p) = said(side, p.text)
         /\ p.type \in MediaTypes => readPart(side, p) = <<Entry("shown", side, p.id, <<>>)>>
         /\ p.type = "tool_use" => readPart(side, p) = <<Entry("call", side, p.id, <<>>)>>
         /\ p.type = "tool_result" =>
              readPart(side, p) = <<Entry("result", side, p.id, p.text)>>
         /\ p.type = "thinking" => readPart(side, p) = <<>>
BY DEF readPart, TextTypes, MediaTypes, ImageTypes, FileTypes

LEMMA SaidIsSeq == ASSUME NEW side, NEW t, isSeq(t) PROVE isSeq(said(side, t))
BY SaidTells, TellsSeq

LEMMA TextReads ==
  ASSUME NEW side \in Sides, NEW p, p.type \in TextTypes, isSeq(p.text)
  PROVE  Joins!joinsTo(readBy(side), <<p>>, said(side, p.text))
<1>1. through(readBy(side), p) = said(side, p.text)
  BY ThroughSide, PartReads
<1> QED  BY <1>1, SaidIsSeq, SameSeqs, Joins!JoinsOne

LEMMA MediumReads ==
  ASSUME NEW side \in Sides, NEW p, p.type \in MediaTypes
  PROVE  Joins!joinsTo(readBy(side), <<p>>, <<Entry("shown", side, p.id, <<>>)>>)
<1>1. through(readBy(side), p) = <<Entry("shown", side, p.id, <<>>)>>
  BY ThroughSide, PartReads
<1>2. isSeq(<<Entry("shown", side, p.id, <<>>)>>)
  BY ShortSeqs
<1> QED  BY <1>1, <1>2, SameSeqs, Joins!JoinsOne

LEMMA StringReads ==
  ASSUME NEW side \in Sides, NEW t, isSeq(t)
  PROVE  readContent(side, String(t)) = said(side, t)
<1>p. PICK p : p = Part("text", t, None)
  OBVIOUS
<1>1. p.type \in TextTypes /\ p.text = t
  BY <1>p DEF Part, TextTypes
<1>2. String(t).parts = <<p>>
  BY <1>p DEF String
<1>3. Joins!joinsTo(readBy(side), String(t).parts, said(side, t))
  BY <1>1, <1>2, TextReads
<1> QED  BY <1>3, ContentReads

LEMMA SaidNothing == \A side : said(side, <<>>) = <<>>
<1>1. \A side : [i \in DOMAIN <<>> |-> Entry("said", side, <<>>[i], <<>>)] = <<>>
  OBVIOUS
<1> QED  BY <1>1 DEF said, each

LEMMA NoCallsRead == readCalls(<<>>) = <<>>
<1>1. [i \in DOMAIN <<>> |-> Entry("call", "assistant", <<>>[i], <<>>)] = <<>>
  OBVIOUS
<1> QED  BY <1>1 DEF readCalls, each

LEMMA ToolUsesReadAsCalls ==
  ASSUME NEW ids, isSeq(ids)
  PROVE  Joins!joinsTo("readAssistant", toolUses(ids), readCalls(ids))
<1>s. PICK s : s = toolUses(ids)
  OBVIOUS
<1>e. PICK e : e = readCalls(ids)
  OBVIOUS
<1>1. s = [i \in DOMAIN ids |-> ToolUse(ids[i])]
  BY <1>s DEF toolUses, each
<1>2. e = [i \in DOMAIN ids |-> Entry("call", "assistant", ids[i], <<>>)]
  BY <1>e DEF readCalls, each
<1>3. isSeq(s) /\ isSeq(e) /\ DOMAIN s = DOMAIN ids /\ DOMAIN e = DOMAIN ids
  BY <1>1, <1>2, EachOf
<1>4. ASSUME NEW i \in DOMAIN s PROVE through("readAssistant", s[i]) = <<e[i]>>
  <2>p. PICK p : p = ToolUse(ids[i])
    OBVIOUS
  <2>1. p.type = "tool_use" /\ p.id = ids[i] /\ s[i] = p
    BY <1>1, <1>3, <2>p DEF ToolUse, Part
  <2>2. readPart("assistant", p) = <<Entry("call", "assistant", ids[i], <<>>)>>
    BY <2>1, PartReads
  <2>3. e[i] = Entry("call", "assistant", ids[i], <<>>)
    BY <1>2, <1>3
  <2> QED  BY <2>1, <2>2, <2>3, ThroughKinds
<1>5. Joins!joinsTo("readAssistant", s, e)
  BY <1>3, <1>4, SameSeqs, Joins!JoinsSingles
<1> QED  BY <1>s, <1>e, <1>5
-----------------------------------------------------------------------------
(* What a message of the form between becomes in each dialect.             *)

\* A user's content: nothing, a text, or a text and a medium.
userContent(content, t, h) ==
  \/ content = <<>> /\ t = <<>> /\ h = <<>>
  \/ \E p : content = <<p>> /\ p.type \in TextTypes /\ p.text = t /\ h = <<>>
  \/ \E p, q : /\ content = <<p>> \o <<q>>
               /\ p.type \in TextTypes /\ p.text = t
               /\ q.type \in {"image", "file"} /\ q.raw \in MediaTypes
               /\ h = <<Entry("shown", "user", q.id, <<>>)>>

LEMMA MediumOut ==
  ASSUME NEW q, q.raw \in MediaTypes, NEW fallback
  PROVE  encodeRawOrFallbackPart(q, fallback) = Part(q.raw, q.text, q.id)
<1>1. Absent \notin MediaTypes
  BY Zenon DEF Absent, MediaTypes, ImageTypes, FileTypes
<1> QED  BY <1>1, Zenon DEF encodeRawOrFallbackPart

LEMMA PartFields ==
  \A type, text, id : /\ Part(type, text, id).type = type
                      /\ Part(type, text, id).text = text
                      /\ Part(type, text, id).id = id
BY DEF Part

LEMMA TextOut ==
  ASSUME NEW tt, NEW it, NEW ft, NEW p, p.type \in TextTypes
  PROVE  partOut(tt, it, ft, p) = <<Part(tt, p.text, None)>>
BY DEF partOut, TextTypes

LEMMA UserContentOut ==
  ASSUME NEW tt \in TextTypes, NEW it, NEW ft, NEW name,
         \A p : through(name, p) = partOut(tt, it, ft, p),
         NEW content, NEW t, NEW h, userContent(content, t, h), isSeq(t)
  PROVE  \E out : /\ Joins!joinsTo(name, content, out)
                  /\ Joins!joinsTo("readUser", out, said("user", t) \o h)
<1>0. readBy("user") = "readUser" /\ "user" \in Sides
  BY DEF readBy, Sides
<1>s. isSeq(said("user", t)) /\ \A x : isSeq(<<x>>)
  BY SaidIsSeq, ShortSeqs
<1>1. CASE content = <<>> /\ t = <<>> /\ h = <<>>
  <2>1. said("user", t) \o h = <<>>
    BY <1>1, SaidNothing
  <2> QED  BY <1>1, <2>1, Joins!JoinsNothing
<1>2. ASSUME NEW p, p.type \in TextTypes, p.text = t
      PROVE  /\ Joins!joinsTo(name, <<p>>, <<Part(tt, t, None)>>)
             /\ Joins!joinsTo("readUser", <<Part(tt, t, None)>>, said("user", t))
  <2>1. through(name, p) = <<Part(tt, t, None)>>
    BY <1>2, TextOut, Zenon
  <2>2. Joins!joinsTo(name, <<p>>, <<Part(tt, t, None)>>)
    BY <1>s, <2>1, SameSeqs, Joins!JoinsOne
  <2>r. PICK r : r = Part(tt, t, None)
    OBVIOUS
  <2>3. r.type \in TextTypes /\ r.text = t
    BY <2>r, PartFields
  <2>4. Joins!joinsTo("readUser", <<r>>, said("user", t))
    BY <1>0, <2>3, TextReads
  <2> QED  BY <2>2, <2>4, <2>r
<1>3. CASE \E p : content = <<p>> /\ p.type \in TextTypes /\ p.text = t /\ h = <<>>
  <2>1. PICK p : content = <<p>> /\ p.type \in TextTypes /\ p.text = t /\ h = <<>>
    BY <1>3
  <2>2. said("user", t) \o h = said("user", t)
    BY <1>s, <2>1, EmptyConcat
  <2> QED  BY <1>2, <2>1, <2>2
<1>4. CASE \E p, q : /\ content = <<p>> \o <<q>>
                     /\ p.type \in TextTypes /\ p.text = t
                     /\ q.type \in {"image", "file"} /\ q.raw \in MediaTypes
                     /\ h = <<Entry("shown", "user", q.id, <<>>)>>
  <2>1. PICK p, q : /\ content = <<p>> \o <<q>>
                    /\ p.type \in TextTypes /\ p.text = t
                    /\ q.type \in {"image", "file"} /\ q.raw \in MediaTypes
                    /\ h = <<Entry("shown", "user", q.id, <<>>)>>
    BY <1>4
  <2>r. PICK r : r = Part(q.raw, q.text, q.id)
    OBVIOUS
  <2>2. r.type = q.raw /\ r.id = q.id
    BY <2>r, PartFields
  <2>3. through(name, q) = <<r>>
    BY <2>1, <2>r, MediumOut DEF partOut, TextTypes
  <2>4. Joins!joinsTo(name, <<q>>, <<r>>)
    BY <1>s, <2>3, SameSeqs, Joins!JoinsOne
  <2>5. Joins!joinsTo("readUser", <<r>>, h)
    BY <1>0, <2>1, <2>2, MediumReads
  <2>6. Joins!joinsTo(name, content, <<Part(tt, t, None)>> \o <<r>>)
    BY <1>2, <2>1, <2>4, Joins!JoinsConcat
  <2>7. Joins!joinsTo("readUser", <<Part(tt, t, None)>> \o <<r>>, said("user", t) \o h)
    BY <1>2, <2>1, <2>5, Joins!JoinsConcat
  <2> QED  BY <2>6, <2>7
<1> QED  BY <1>1, <1>3, <1>4 DEF userContent

\* What is said and shown, told.
LEMMA UserTells ==
  ASSUME NEW t, isSeq(t), NEW h, h = <<>> \/ \E n : h = <<Entry("shown", "user", n, <<>>)>>
  PROVE  tells(said("user", t) \o h, said("user", t), h, <<>>)
<1>1. tells(said("user", t), said("user", t), <<>>, <<>>)
  BY SaidTells
<1>2. tells(h, <<>>, h, <<>>)
  <2>1. CASE h = <<>>
    BY <2>1, NothingTells
  <2>2. CASE \E n : h = <<Entry("shown", "user", n, <<>>)>>
    <3>1. PICK n : h = <<Entry("shown", "user", n, <<>>)>>
      BY <2>2
    <3> QED  BY <3>1, OneTells
  <2> QED  BY <2>1, <2>2
<1>3. tells(said("user", t) \o h, said("user", t) \o <<>>, <<>> \o h, <<>> \o <<>>)
  BY <1>1, <1>2, TellsConcat
<1>4. isSeq(said("user", t)) /\ isSeq(h) /\ isSeq(<<>>)
  BY <1>1, <1>2, TellsAnd
<1> QED  BY <1>3, <1>4, EmptyConcat

LEMMA ContentOutJoin ==
  \A s : /\ encodeContent(s, "text", "image_url", "input_file") = Joins!join("chatPart", s)
         /\ encodeResponsesContent(s) = Joins!join("responsesPart", s)
         /\ encodeAnthropicContentParts(s) = Joins!join("anthropicPart", s)
         /\ encodeAnthropicAssistant(s) = Joins!join("assistantPart", s)
<1> TAKE s
<1>1. /\ [i \in DOMAIN s |-> partOut("text", "image_url", "input_file", s[i])]
           = [i \in DOMAIN s |-> through("chatPart", s[i])]
      /\ [i \in DOMAIN s |-> partOut("input_text", "input_image", "input_file", s[i])]
           = [i \in DOMAIN s |-> through("responsesPart", s[i])]
      /\ [i \in DOMAIN s |-> partOut("text", "image", "document", s[i])]
           = [i \in DOMAIN s |-> through("anthropicPart", s[i])]
      /\ [i \in DOMAIN s |-> assistantPartOut(s[i])]
           = [i \in DOMAIN s |-> through("assistantPart", s[i])]
  BY ThroughRequestPart
<1>2. ASSUME NEW tt, NEW it, NEW ft
      PROVE  encodeContent(s, tt, it, ft)
               = FlattenSeq([i \in DOMAIN s |-> partOut(tt, it, ft, s[i])])
  BY Zenon DEF encodeContent, joined, each, partOut
<1>3. encodeAnthropicAssistant(s) = FlattenSeq([i \in DOMAIN s |-> assistantPartOut(s[i])])
  BY Zenon DEF encodeAnthropicAssistant, joined, each, assistantPartOut
<1>4. /\ Joins!join("chatPart", s) = FlattenSeq([i \in DOMAIN s |-> through("chatPart", s[i])])
      /\ Joins!join("responsesPart", s)
           = FlattenSeq([i \in DOMAIN s |-> through("responsesPart", s[i])])
      /\ Joins!join("anthropicPart", s)
           = FlattenSeq([i \in DOMAIN s |-> through("anthropicPart", s[i])])
      /\ Joins!join("assistantPart", s)
           = FlattenSeq([i \in DOMAIN s |-> through("assistantPart", s[i])])
  BY JoinOfEach
<1>5. /\ encodeContent(s, "text", "image_url", "input_file") = Joins!join("chatPart", s)
      /\ encodeContent(s, "input_text", "input_image", "input_file")
           = Joins!join("responsesPart", s)
      /\ encodeContent(s, "text", "image", "document") = Joins!join("anthropicPart", s)
      /\ encodeAnthropicAssistant(s) = Joins!join("assistantPart", s)
  BY <1>1, <1>2, <1>3, <1>4
<1> QED  BY <1>5 DEF encodeResponsesContent, encodeAnthropicContentParts

LEMMA MessageFields ==
  /\ \A role, content, calls, id :
       LET m == ChatMessage(role, content, calls, id)
       IN m.role = role /\ m.content = content /\ m.calls = calls /\ m.callId = id
  /\ \A type, role, content, id, text :
       LET m == Item(type, role, content, id, text)
       IN /\ m.type = type /\ m.role = role /\ m.content = content
          /\ m.id = id /\ m.text = text
  /\ \A role, content :
       LET m == AnthropicMessage(role, content) IN m.role = role /\ m.content = content
  /\ \A parts : List(parts).parts = parts /\ List(parts).list = TRUE
  /\ \A text : String(text).list = FALSE
BY DEF ChatMessage, Item, AnthropicMessage, List, String

\* How a message of each dialect is read.
LEMMA ChatMessageReads ==
  ASSUME NEW role \in {"user", "assistant"}, NEW content, NEW calls, NEW id
  PROVE  readMessage("chat", ChatMessage(role, content, calls, id))
           = readContent(role, content) \o readCalls(calls)
<1>m. PICK m : m = ChatMessage(role, content, calls, id)
  OBVIOUS
<1>1. m.role = role /\ m.content = content /\ m.calls = calls
  BY <1>m, MessageFields
<1>2. readChatMessage(m) = readContent(role, content) \o readCalls(calls)
  BY <1>1 DEF readChatMessage
<1> QED  BY <1>m, <1>2, Zenon DEF readMessage

LEMMA MessageItemReads ==
  ASSUME NEW type, type \notin {"function_call", "function_call_output", "reasoning"},
         NEW role, NEW content, NEW id, NEW text
  PROVE  readMessage("responses", Item(type, role, content, id, text))
           = readContent(role, content)
<1>m. PICK m : m = Item(type, role, content, id, text)
  OBVIOUS
<1>1. m.type = type /\ m.role = role /\ m.content = content
  BY <1>m, MessageFields
<1>2. readItem(m) = readContent(role, content)
  BY <1>1 DEF readItem
<1> QED  BY <1>m, <1>2 DEF readMessage

LEMMA AnthropicMessageReads ==
  \A role, content :
    readMessage("anthropic", AnthropicMessage(role, content)) = readContent(role, content)
<1> TAKE role, content
<1>m. PICK m : m = AnthropicMessage(role, content)
  OBVIOUS
<1>1. m.role = role /\ m.content = content
  BY <1>m, MessageFields
<1> QED  BY <1>m, <1>1 DEF readMessage

LEMMA UserBecomesAnthropic ==
  ASSUME NEW m, m.role = "user", NEW t, isSeq(t), NEW h, userContent(m.content, t, h)
  PROVE  becomes("anthropic", <<m>>, said("user", t), h, <<>>)
<1>1. \A p : through("anthropicPart", p) = partOut("text", "image", "document", p)
  BY ThroughRequestPart
<1>2. "text" \in TextTypes
  BY DEF TextTypes
<1>3. PICK out : /\ Joins!joinsTo("anthropicPart", m.content, out)
                 /\ Joins!joinsTo("readUser", out, said("user", t) \o h)
  BY <1>1, <1>2, UserContentOut
<1>4. encodeAnthropicContentParts(m.content) = out
  BY <1>3, ContentOutJoin DEF Joins!joinsTo
<1>c. PICK c : c = List(out)
  OBVIOUS
<1>w. PICK w : w = AnthropicMessage("user", c)
  OBVIOUS
<1>5. encodeAnthropicMessage(m) = w
  BY <1>4, <1>c, <1>w DEF encodeAnthropicMessage
<1>6. through(to("anthropic"), m) = <<w>>
  BY <1>5, ThroughMessage DEF to
<1>7. readContent("user", c) = said("user", t) \o h
  <2>1. c.parts = out
    BY <1>c, MessageFields
  <2>2. readBy("user") = "readUser" /\ "user" \in Sides
    BY DEF readBy, Sides
  <2> QED  BY <1>3, <2>1, <2>2, ContentReads
<1>8. readMessage("anthropic", w) = said("user", t) \o h
  BY <1>7, <1>w, AnthropicMessageReads
<1>9. tells(said("user", t) \o h, said("user", t), h, <<>>)
  BY UserTells DEF userContent
<1>10. readsAs("anthropic", <<w>>, said("user", t), h, <<>>)
  BY <1>8, <1>9, MessageReads DEF Dialects
<1> QED  BY <1>6, <1>10, ShortSeqs, OneBecomes

LEMMA ResponsesMessageOut ==
  ASSUME NEW m, m.role # "tool"
  PROVE  LET out == encodeResponsesContent(m.content)
         IN /\ m.role # "assistant" =>
                 encodeResponsesMessage(m)
                   = callItems(<<>>) \o <<MessageItem(m.role, List(out))>>
            /\ m.role = "assistant" =>
                 encodeResponsesMessage(m)
                   = callItems(encodeToolCalls(m.content))
                       \o (IF out = <<>> THEN <<>>
                           ELSE <<MessageItem("assistant", List(out))>>)
BY Zenon DEF encodeResponsesMessage, callItems, each

LEMMA NoCallItems == callItems(<<>>) = <<>>
<1>1. [i \in DOMAIN <<>> |-> CallItem(<<>>[i])] = <<>>
  OBVIOUS
<1> QED  BY <1>1, Zenon DEF callItems, each

LEMMA UserBecomesResponses ==
  ASSUME NEW m, m.role = "user", NEW t, isSeq(t), NEW h, userContent(m.content, t, h)
  PROVE  becomes("responses", <<m>>, said("user", t), h, <<>>)
<1>1. \A p : through("responsesPart", p) = partOut("input_text", "input_image", "input_file", p)
  BY ThroughRequestPart
<1>2. "input_text" \in TextTypes
  BY DEF TextTypes
<1>3. PICK out : /\ Joins!joinsTo("responsesPart", m.content, out)
                 /\ Joins!joinsTo("readUser", out, said("user", t) \o h)
  BY <1>1, <1>2, UserContentOut
<1>4. encodeResponsesContent(m.content) = out
  BY <1>3, ContentOutJoin DEF Joins!joinsTo
<1>c. PICK c : c = List(out)
  OBVIOUS
<1>w. PICK w : w = MessageItem("user", c)
  OBVIOUS
<1>5. encodeResponsesMessage(m) = callItems(<<>>) \o <<w>>
  BY <1>4, <1>c, <1>w, ResponsesMessageOut
<1>6. callItems(<<>>) \o <<w>> = <<w>>
  BY NoCallItems, ShortSeqs, EmptyConcat
<1>7. through(to("responses"), m) = <<w>>
  BY <1>5, <1>6, ThroughMessage DEF to
<1>8. readContent("user", c) = said("user", t) \o h
  <2>1. c.parts = out
    BY <1>c, MessageFields
  <2>2. readBy("user") = "readUser" /\ "user" \in Sides
    BY DEF readBy, Sides
  <2> QED  BY <1>3, <2>1, <2>2, ContentReads
<1>9. readMessage("responses", w) = said("user", t) \o h
  BY <1>8, <1>w, MessageItemReads DEF MessageItem
<1>10. tells(said("user", t) \o h, said("user", t), h, <<>>)
  BY UserTells DEF userContent
<1>11. readsAs("responses", <<w>>, said("user", t), h, <<>>)
  BY <1>9, <1>10, MessageReads DEF Dialects
<1> QED  BY <1>7, <1>11, ShortSeqs, OneBecomes

LEMMA NoToolCalls ==
  ASSUME NEW content, isSeq(content), \A i \in DOMAIN content : content[i].type # "tool_call"
  PROVE  encodeToolCalls(content) = <<>>
<1>1. \A i \in DOMAIN content : through("call", content[i]) = <<>>
  BY ThroughPart DEF callIn
<1>2. Joins!joinsTo("call", content, <<>>)
  BY <1>1, SameSeqs, Joins!JoinsNone
<1> QED  BY <1>2, CallsJoin DEF Joins!joinsTo

LEMMA TypesDiffer ==
  /\ \A type \in TextTypes : type \notin {"tool_call", "image", "file", "tool_result",
                                          "tool_use", "thinking"} \union MediaTypes
  /\ \A type \in MediaTypes : type \notin {"tool_call", "tool_result", "tool_use"}
BY DEF TextTypes, MediaTypes, ImageTypes, FileTypes

LEMMA UserContentCalls ==
  ASSUME NEW content, NEW t, NEW h, userContent(content, t, h)
  PROVE  /\ isSeq(content) /\ \A i \in DOMAIN content : content[i].type # "tool_call"
         /\ hasNonTextParts(content) \/ (encodeTextContent(content) = t /\ h = <<>>)
         /\ h # <<>> => hasNonTextParts(content)
<1>1. CASE content = <<>> /\ t = <<>> /\ h = <<>>
  BY <1>1, ShortSeqs, TextsOfNone
<1>2. CASE \E p : content = <<p>> /\ p.type \in TextTypes /\ p.text = t /\ h = <<>>
  <2>1. PICK p : content = <<p>> /\ p.type \in TextTypes /\ p.text = t /\ h = <<>>
    BY <1>2
  <2>2. encodeTextContent(content) = t
    BY <2>1, TextsOfOne
  <2> QED  BY <2>1, <2>2, ShortSeqs, TypesDiffer
<1>3. CASE \E p, q : /\ content = <<p>> \o <<q>>
                     /\ p.type \in TextTypes /\ p.text = t
                     /\ q.type \in {"image", "file"} /\ q.raw \in MediaTypes
                     /\ h = <<Entry("shown", "user", q.id, <<>>)>>
  <2>1. PICK p, q : /\ content = <<p>> \o <<q>> /\ p.type \in TextTypes
                    /\ q.type \in {"image", "file"}
    BY <1>3
  <2>x. PICK x, y : x = <<p>> /\ y = <<q>>
    OBVIOUS
  <2>y. /\ x \in Seq({p, q}) /\ Len(x) = 1 /\ x[1] = p
        /\ y \in Seq({p, q}) /\ Len(y) = 1 /\ y[1] = q
    BY <2>x
  <2>2. content \in Seq({p, q}) /\ Len(content) = 2
    BY <2>1, <2>x, <2>y
  <2>3. 2 \in DOMAIN content /\ content[2] = q
    BY <2>1, <2>2, <2>x, <2>y
  <2>4. hasNonTextParts(content)
    BY <2>1, <2>3 DEF hasNonTextParts
  <2>5. isSeq(content)
    BY <2>2 DEF isSeq
  <2>6. \A i \in DOMAIN content : content[i] = p \/ content[i] = q
    BY <2>2
  <2> QED  BY <2>1, <2>4, <2>5, <2>6, TypesDiffer
<1> QED  BY <1>1, <1>2, <1>3 DEF userContent

LEMMA ChatMessageOut ==
  ASSUME NEW m, m.role # "tool"
  PROVE  encodeOpenAIChatMessage(m)
           = ChatMessage(m.role, encodeOpenAIContent(m.content),
                         encodeToolCalls(m.content), None)
BY DEF encodeOpenAIChatMessage

LEMMA UserBecomesChat ==
  ASSUME NEW m, m.role = "user", NEW t, isSeq(t), NEW h, userContent(m.content, t, h)
  PROVE  becomes("chat", <<m>>, said("user", t), h, <<>>)
<1>0. readBy("user") = "readUser" /\ "user" \in Sides
  BY DEF readBy, Sides
<1>1. encodeToolCalls(m.content) = <<>>
  BY UserContentCalls, NoToolCalls
<1>c. PICK c : c = encodeOpenAIContent(m.content)
  OBVIOUS
<1>w. PICK w : w = ChatMessage("user", c, <<>>, None)
  OBVIOUS
<1>2. through(to("chat"), m) = <<w>>
  BY <1>1, <1>c, <1>w, ChatMessageOut, ThroughMessage DEF to
<1>3. readContent("user", c) = said("user", t) \o h
  <2>1. CASE hasNonTextParts(m.content)
    <3>1. \A p : through("chatPart", p) = partOut("text", "image_url", "input_file", p)
      BY ThroughRequestPart
    <3>2. "text" \in TextTypes
      BY DEF TextTypes
    <3>3. PICK out : /\ Joins!joinsTo("chatPart", m.content, out)
                     /\ Joins!joinsTo("readUser", out, said("user", t) \o h)
      BY <3>1, <3>2, UserContentOut
    <3>4. encodeContent(m.content, "text", "image_url", "input_file") = out
      BY <3>3, ContentOutJoin DEF Joins!joinsTo
    <3>5. c = List(out)
      BY <1>c, <2>1, <3>4 DEF encodeOpenAIContent
    <3>6. c.parts = out
      BY <3>5, MessageFields
    <3> QED  BY <1>0, <3>3, <3>6, ContentReads
  <2>2. CASE ~hasNonTextParts(m.content)
    <3>1. encodeTextContent(m.content) = t /\ h = <<>>
      BY <2>2, UserContentCalls
    <3>2. c = String(t)
      BY <1>c, <2>2, <3>1 DEF encodeOpenAIContent
    <3>3. readContent("user", c) = said("user", t)
      BY <1>0, <3>2, StringReads
    <3>4. said("user", t) \o <<>> = said("user", t)
      BY SaidIsSeq, EmptyConcat
    <3> QED  BY <3>1, <3>3, <3>4
  <2> QED  BY <2>1, <2>2
<1>4. isSeq(said("user", t)) /\ isSeq(h)
  BY UserTells, TellsAnd, SaidIsSeq, ShortSeqs DEF userContent
<1>e. PICK e : e = said("user", t) \o h
  OBVIOUS
<1>u. "user" \in {"user", "assistant"}
  OBVIOUS
<1>5. readMessage("chat", w) = e \o <<>>
  <2>1. readMessage("chat", w) = readContent("user", c) \o readCalls(<<>>)
    BY <1>w, <1>u, ChatMessageReads, Zenon
  <2> QED  BY <1>3, <1>e, <2>1, NoCallsRead, Zenon
<1>6. isSeq(said("user", t) \o h)
  BY <1>4, ConcatElements
<1>7. readMessage("chat", w) = said("user", t) \o h
  BY <1>5, <1>6, <1>e, EmptyConcat
<1>8. tells(said("user", t) \o h, said("user", t), h, <<>>)
  BY UserTells DEF userContent
<1>9. readsAs("chat", <<w>>, said("user", t), h, <<>>)
  BY <1>7, <1>8, MessageReads DEF Dialects
<1> QED  BY <1>2, <1>9, ShortSeqs, OneBecomes

LEMMA UserBecomes ==
  ASSUME NEW u \in Dialects, NEW m, m.role = "user", NEW t, isSeq(t), NEW h,
         userContent(m.content, t, h)
  PROVE  becomes(u, <<m>>, said("user", t), h, <<>>)
BY UserBecomesAnthropic, UserBecomesResponses, UserBecomesChat DEF Dialects

\* The message of a tool says, shows and calls nothing.
LEMMA ResultTells ==
  ASSUME NEW d \in Dialects, NEW w, NEW id, NEW text,
         readMessage(d, w) = <<Entry("result", "user", id, text)>>
  PROVE  readsAs(d, <<w>>, <<>>, <<>>, <<>>)
<1>1. "result" \in {"shown", "result"} /\ "result" # "shown"
  OBVIOUS
<1>2. PICK e : e = <<Entry("result", "user", id, text)>>
  OBVIOUS
<1>3. tells(e, <<>>, <<>>, <<>>)
  BY <1>1, <1>2, OneTells
<1> QED  BY <1>2, <1>3, MessageReads

LEMMA ToolBecomes ==
  ASSUME NEW u \in Dialects, NEW m, m.role = "tool"
  PROVE  becomes(u, <<m>>, <<>>, <<>>, <<>>)
<1>1. CASE u = "chat"
  <2>w. PICK c, w : /\ c = encodeOpenAIContent(m.content)
                    /\ w = ChatMessage("tool", c, <<>>, m.callId)
    OBVIOUS
  <2>1. through(to(u), m) = <<w>>
    BY <1>1, <2>w, ThroughMessage DEF to, encodeOpenAIChatMessage
  <2>2. w.role = "tool"
    BY <2>w, MessageFields
  <2>3. \E text : readChatMessage(w) = <<Entry("result", "user", w.callId, text)>>
    BY <2>2 DEF readChatMessage
  <2>4. readsAs(u, <<w>>, <<>>, <<>>, <<>>)
    BY <1>1, <2>3, ResultTells DEF readMessage
  <2> QED  BY <2>1, <2>4, ShortSeqs, OneBecomes
<1>2. CASE u = "responses"
  <2>w. PICK w : w = OutputItem(m.callId, toolOutput(m))
    OBVIOUS
  <2>1. through(to(u), m) = <<w>>
    BY <1>2, <2>w, ThroughMessage DEF to, encodeResponsesMessage
  <2>2. w.type = "function_call_output"
    BY <2>w, MessageFields DEF OutputItem
  <2>3. readItem(w) = <<Entry("result", "user", w.id, w.text)>>
    BY <2>2 DEF readItem
  <2>4. readsAs(u, <<w>>, <<>>, <<>>, <<>>)
    BY <1>2, <2>3, ResultTells DEF readMessage
  <2> QED  BY <2>1, <2>4, ShortSeqs, OneBecomes
<1>3. CASE u = "anthropic"
  <2>p. PICK p : p = Result(m.callId, toolOutput(m))
    OBVIOUS
  <2>w. PICK c, w : c = List(<<p>>) /\ w = AnthropicMessage("user", c)
    OBVIOUS
  <2>1. through(to(u), m) = <<w>>
    BY <1>3, <2>p, <2>w, ThroughMessage DEF to, encodeAnthropicMessage
  <2>2. p.type = "tool_result"
    BY <2>p, PartFields DEF Result
  <2>3. readPart("user", p) = <<Entry("result", "user", p.id, p.text)>>
    BY <2>2, PartReads
  <2>4. readBy("user") = "readUser" /\ "user" \in Sides
    BY DEF readBy, Sides
  <2>5. Joins!joinsTo("readUser", <<p>>, readPart("user", p))
    BY <2>3, ThroughKinds, ShortSeqs, SameSeqs, Joins!JoinsOne
  <2>6. c.parts = <<p>>
    BY <2>w, MessageFields
  <2>7. readContent("user", c) = <<Entry("result", "user", p.id, p.text)>>
    BY <2>3, <2>4, <2>5, <2>6, ContentReads
  <2>8. readMessage(u, w) = <<Entry("result", "user", p.id, p.text)>>
    BY <1>3, <2>7, <2>w, AnthropicMessageReads
  <2>9. readsAs(u, <<w>>, <<>>, <<>>, <<>>)
    BY <2>8, ResultTells
  <2> QED  BY <2>1, <2>9, ShortSeqs, OneBecomes
<1> QED  BY <1>1, <1>2, <1>3 DEF Dialects

LEMMA SeqOfFunction ==
  ASSUME NEW n \in Nat, NEW E, NEW f \in [1..n -> E]
  PROVE  f \in Seq(E) /\ Len(f) = n
<1>1. f \in Seq(E)
  OBVIOUS
<1>2. DOMAIN f = 1..n
  OBVIOUS
<1> QED  BY <1>1, <1>2

LEMMA SeqIsFunction ==
  ASSUME NEW E, NEW f \in Seq(E)
  PROVE  f = [i \in 1..Len(f) |-> f[i]]
OBVIOUS

LEMMA ConcatFacts ==
  ASSUME NEW E, NEW f \in Seq(E), NEW g \in Seq(E)
  PROVE  /\ f \o g \in Seq(E) /\ Len(f \o g) = Len(f) + Len(g)
         /\ DOMAIN (f \o g) = 1..Len(f) + Len(g)
         /\ \A i \in 1..Len(f) : (f \o g)[i] = f[i]
         /\ \A i \in 1..Len(f) + Len(g) : i > Len(f) => (f \o g)[i] = g[i - Len(f)]
<1>1. f \o g \in Seq(E)
  OBVIOUS
<1>2. Len(f \o g) = Len(f) + Len(g)
  OBVIOUS
<1>3. DOMAIN (f \o g) = 1..Len(f) + Len(g)
  OBVIOUS
<1>4. \A i \in 1..Len(f) : (f \o g)[i] = f[i]
  OBVIOUS
<1>5. \A i \in 1..Len(f) + Len(g) : i > Len(f) => (f \o g)[i] = g[i - Len(f)]
  OBVIOUS
<1> QED  BY <1>1, <1>2, <1>3, <1>4, <1>5

imaged(F, s) == [i \in DOMAIN s |-> F[s[i]]]
LEMMA EachConcat ==
  ASSUME NEW S, NEW s \in Seq(S), NEW t \in Seq(S), NEW F
  PROVE  imaged(F, s \o t) = imaged(F, s) \o imaged(F, t)
<1>r. PICK r, m, n : r = s \o t /\ m = Len(s) /\ n = Len(t)
  OBVIOUS
<1>1. /\ m \in Nat /\ n \in Nat
      /\ DOMAIN s = 1..m /\ DOMAIN t = 1..n /\ DOMAIN r = 1..m + n
      /\ \A i \in 1..m : r[i] = s[i]
      /\ \A i \in 1..m + n : i > m => r[i] = t[i - m]
  BY <1>r, ConcatFacts
<1>2. PICK f, g, h : /\ f = [i \in 1..m |-> F[s[i]]] /\ g = [i \in 1..n |-> F[t[i]]]
                     /\ h = [i \in 1..m + n |-> F[r[i]]]
  OBVIOUS
<1>3. PICK E : E = {F[s[i]] : i \in 1..m} \union {F[t[i]] : i \in 1..n}
  OBVIOUS
<1>4. f \in [1..m -> E] /\ g \in [1..n -> E]
  BY <1>2, <1>3
<1>5. ASSUME NEW i \in 1..m + n
      PROVE  h[i] = IF i <= m THEN f[i] ELSE g[i - m]
  <2>1. CASE i <= m
    <3>1. i \in 1..m
      BY <1>1, <2>1
    <3> QED  BY <1>1, <1>2, <2>1, <3>1
  <2>2. CASE i > m
    <3>1. i - m \in 1..n /\ r[i] = t[i - m] /\ ~(i <= m)
      BY <1>1, <2>2
    <3> QED  BY <1>2, <3>1
  <2> QED  BY <1>1, <2>1, <2>2
<1>6. h \in [1..m + n -> E]
  <2>1. \A i \in 1..m + n : h[i] \in E
    <3> TAKE i \in 1..m + n
    <3>1. CASE i <= m
      BY <1>1, <1>4, <1>5, <3>1
    <3>2. CASE i > m
      <4>1. i - m \in 1..n /\ ~(i <= m)
        BY <1>1, <3>2
      <4> QED  BY <1>4, <1>5, <4>1
    <3> QED  BY <1>1, <3>1, <3>2
  <2> QED  BY <1>2, <2>1
<1>7. /\ f \in Seq(E) /\ Len(f) = m /\ g \in Seq(E) /\ Len(g) = n
      /\ h \in Seq(E) /\ Len(h) = m + n
  <2>1. m + n \in Nat
    BY <1>1
  <2> QED  BY <1>1, <1>4, <1>6, <2>1, SeqOfFunction
<1>8. PICK fg : fg = f \o g
  OBVIOUS
<1>9. /\ fg \in Seq(E) /\ Len(fg) = m + n
      /\ \A i \in 1..m : fg[i] = f[i]
      /\ \A i \in 1..m + n : i > m => fg[i] = g[i - m]
  BY <1>7, <1>8, ConcatFacts
<1>10. \A i \in 1..m + n : h[i] = fg[i]
  BY <1>1, <1>5, <1>9
<1>11. h = fg
  <2>1. PICK k : k = m + n
    OBVIOUS
  <2>2. Len(h) = k /\ Len(fg) = k
    BY <1>7, <1>9, <2>1
  <2>3. h = [i \in 1..k |-> h[i]] /\ fg = [i \in 1..k |-> fg[i]]
    BY <1>7, <1>9, <2>2, SeqIsFunction, Zenon
  <2>4. \A i \in 1..k : h[i] = fg[i]
    BY <1>10, <2>1
  <2> QED  BY <2>3, <2>4
<1>12. f = imaged(F, s) /\ g = imaged(F, t) /\ h = imaged(F, r)
  BY <1>1, <1>2 DEF imaged
<1> QED  BY <1>8, <1>11, <1>12, <1>r

LEMMA SaidConcat ==
  ASSUME NEW side, NEW s, NEW t, isSeq(s), isSeq(t)
  PROVE  /\ said(side, s \o t) = said(side, s) \o said(side, t)
         /\ readCalls(s \o t) = readCalls(s) \o readCalls(t)
<1>1. PICK S : s \in Seq(S) /\ t \in Seq(S) /\ s \o t \in Seq(S)
  <2>1. PICK U, V : s \in Seq(U) /\ t \in Seq(V)
    BY DEF isSeq
  <2>2. s \in Seq(U \union V) /\ t \in Seq(U \union V)
    BY <2>1
  <2> QED  BY <2>2
<1>2. ASSUME NEW kind, NEW by
      PROVE  [i \in DOMAIN (s \o t) |-> Entry(kind, by, (s \o t)[i], <<>>)]
               = [i \in DOMAIN s |-> Entry(kind, by, s[i], <<>>)]
                   \o [i \in DOMAIN t |-> Entry(kind, by, t[i], <<>>)]
  <2>1. PICK F : F = [x \in S |-> Entry(kind, by, x, <<>>)]
    OBVIOUS
  <2>2. \A r : r \in Seq(S) =>
          imaged(F, r) = [i \in DOMAIN r |-> Entry(kind, by, r[i], <<>>)]
    BY <2>1 DEF imaged
  <2>3. imaged(F, s \o t) = imaged(F, s) \o imaged(F, t)
    BY <1>1, EachConcat
  <2> QED  BY <1>1, <2>2, <2>3, Zenon
<1> QED  BY <1>2, Zenon DEF said, readCalls, each
-----------------------------------------------------------------------------
(* An assistant's message: its texts and its calls.                        *)

speaks(content, t, ids) ==
  /\ isSeq(t) /\ isSeq(ids) /\ isSeq(content)
  /\ \A i \in DOMAIN content : content[i].type \notin {"image", "file"}
  /\ Joins!joinsTo("text", content, t) /\ Joins!joinsTo("call", content, ids)
  /\ \E out : /\ Joins!joinsTo("responsesPart", content, out)
              /\ Joins!joinsTo("readAssistant", out, said("assistant", t))
\* As Anthropic's blocks,
inBlocks(content, t, ids) ==
  \E out, e : /\ Joins!joinsTo("assistantPart", content, out)
              /\ Joins!joinsTo("readAssistant", out, e)
              /\ tells(e, said("assistant", t), <<>>, readCalls(ids))
\* and as taken from such blocks.
ofBlocks(blocks, t, ids) ==
  /\ isSeq(blocks) /\ \A k \in DOMAIN blocks : blocks[k].type # "tool_result"
  /\ Joins!joinsTo("resultBlock", blocks, <<>>)
  /\ \E content : /\ Joins!joinsTo("block", blocks, content)
                  /\ speaks(content, t, ids) /\ inBlocks(content, t, ids)
  /\ \E e : /\ Joins!joinsTo("readAssistant", blocks, e)
            /\ tells(e, said("assistant", t), <<>>, readCalls(ids))

LEMMA SpeaksConcat ==
  ASSUME NEW c, NEW t, NEW ids, speaks(c, t, ids), NEW d, NEW x, NEW n, speaks(d, x, n)
  PROVE  speaks(c \o d, t \o x, ids \o n)
<1>1. PICK out : /\ Joins!joinsTo("responsesPart", c, out)
                 /\ Joins!joinsTo("readAssistant", out, said("assistant", t))
  BY DEF speaks
<1>2. PICK new : /\ Joins!joinsTo("responsesPart", d, new)
                 /\ Joins!joinsTo("readAssistant", new, said("assistant", x))
  BY DEF speaks
<1>3. said("assistant", t \o x) = said("assistant", t) \o said("assistant", x)
  BY SaidConcat DEF speaks
<1>4. /\ Joins!joinsTo("responsesPart", c \o d, out \o new)
      /\ Joins!joinsTo("readAssistant", out \o new, said("assistant", t \o x))
  BY <1>1, <1>2, <1>3, Joins!JoinsConcat
<1>5. Joins!joinsTo("text", c \o d, t \o x) /\ Joins!joinsTo("call", c \o d, ids \o n)
  BY Joins!JoinsConcat DEF speaks
<1>6. isSeq(t \o x) /\ isSeq(ids \o n) /\ isSeq(c \o d)
  BY ConcatElements DEF speaks
<1>7. \A i \in DOMAIN (c \o d) : (c \o d)[i].type \notin {"image", "file"}
  BY ConcatElements DEF speaks
<1> QED  BY <1>4, <1>5, <1>6, <1>7, Zenon DEF speaks

LEMMA SpokenTells ==
  ASSUME NEW t, isSeq(t), NEW x, isSeq(x), NEW ids, isSeq(ids), NEW n, isSeq(n),
         NEW e, tells(e, said("assistant", t), <<>>, readCalls(ids)),
         NEW f, tells(f, said("assistant", x), <<>>, readCalls(n))
  PROVE  tells(e \o f, said("assistant", t \o x), <<>>, readCalls(ids \o n))
<1>1. tells(e \o f, said("assistant", t) \o said("assistant", x), <<>> \o <<>>,
            readCalls(ids) \o readCalls(n))
  BY TellsConcat
<1>2. <<>> \o <<>> = <<>>
  OBVIOUS
<1>3. /\ said("assistant", t \o x) = said("assistant", t) \o said("assistant", x)
      /\ readCalls(ids \o n) = readCalls(ids) \o readCalls(n)
  BY SaidConcat
<1> QED  BY <1>1, <1>2, <1>3, Zenon

LEMMA InBlocksConcat ==
  ASSUME NEW c, NEW t, NEW ids, inBlocks(c, t, ids), NEW d, NEW x, NEW n, inBlocks(d, x, n),
         isSeq(t), isSeq(x), isSeq(ids), isSeq(n)
  PROVE  inBlocks(c \o d, t \o x, ids \o n)
<1>1. PICK out, e : /\ Joins!joinsTo("assistantPart", c, out)
                    /\ Joins!joinsTo("readAssistant", out, e)
                    /\ tells(e, said("assistant", t), <<>>, readCalls(ids))
  BY DEF inBlocks
<1>2. PICK new, f : /\ Joins!joinsTo("assistantPart", d, new)
                    /\ Joins!joinsTo("readAssistant", new, f)
                    /\ tells(f, said("assistant", x), <<>>, readCalls(n))
  BY DEF inBlocks
<1>3. tells(e \o f, said("assistant", t \o x), <<>>, readCalls(ids \o n))
  BY <1>1, <1>2, SpokenTells
<1>4. /\ Joins!joinsTo("assistantPart", c \o d, out \o new)
      /\ Joins!joinsTo("readAssistant", out \o new, e \o f)
  BY <1>1, <1>2, Joins!JoinsConcat
<1> QED  BY <1>3, <1>4, Zenon DEF inBlocks

LEMMA OfBlocksConcat ==
  ASSUME NEW b, NEW t, NEW ids, ofBlocks(b, t, ids), NEW d, NEW x, NEW n, ofBlocks(d, x, n)
  PROVE  ofBlocks(b \o d, t \o x, ids \o n)
<1>1. PICK content, e : /\ Joins!joinsTo("block", b, content)
                        /\ speaks(content, t, ids) /\ inBlocks(content, t, ids)
                        /\ Joins!joinsTo("readAssistant", b, e)
                        /\ tells(e, said("assistant", t), <<>>, readCalls(ids))
  BY DEF ofBlocks
<1>2. PICK new, f : /\ Joins!joinsTo("block", d, new)
                    /\ speaks(new, x, n) /\ inBlocks(new, x, n)
                    /\ Joins!joinsTo("readAssistant", d, f)
                    /\ tells(f, said("assistant", x), <<>>, readCalls(n))
  BY DEF ofBlocks
<1>3. isSeq(t) /\ isSeq(x) /\ isSeq(ids) /\ isSeq(n)
  BY <1>1, <1>2 DEF speaks
<1>4. /\ speaks(content \o new, t \o x, ids \o n)
      /\ inBlocks(content \o new, t \o x, ids \o n)
  BY <1>1, <1>2, <1>3, SpeaksConcat, InBlocksConcat
<1>5. <<>> \o <<>> = <<>>
  OBVIOUS
<1>6. tells(e \o f, said("assistant", t \o x), <<>>, readCalls(ids \o n))
  BY <1>1, <1>2, <1>3, SpokenTells
<1>7. /\ Joins!joinsTo("block", b \o d, content \o new)
      /\ Joins!joinsTo("readAssistant", b \o d, e \o f)
  BY <1>1, <1>2, Joins!JoinsConcat
<1>8. Joins!joinsTo("resultBlock", b \o d, <<>>)
  <2>1. Joins!joinsTo("resultBlock", b, <<>>) /\ Joins!joinsTo("resultBlock", d, <<>>)
    BY DEF ofBlocks
  <2> QED  BY <1>5, <2>1, Joins!JoinsConcat
<1>9. isSeq(b \o d) /\ \A k \in DOMAIN (b \o d) : (b \o d)[k].type # "tool_result"
  <2>1. \A k \in DOMAIN (b \o d) : \/ \E i \in DOMAIN b : (b \o d)[k] = b[i]
                                 \/ \E i \in DOMAIN d : (b \o d)[k] = d[i]
    BY ConcatElements DEF ofBlocks
  <2> QED  BY <2>1, ConcatElements DEF ofBlocks
<1> QED  BY <1>4, <1>6, <1>7, <1>8, <1>9, Zenon DEF ofBlocks

LEMMA NothingSpeaks == speaks(<<>>, <<>>, <<>>) /\ inBlocks(<<>>, <<>>, <<>>)
<1>1. said("assistant", <<>>) = <<>> /\ readCalls(<<>>) = <<>>
  BY SaidNothing, NoCallsRead
<1>2. speaks(<<>>, <<>>, <<>>)
  BY <1>1, ShortSeqs, Joins!JoinsNothing DEF speaks
<1>3. inBlocks(<<>>, <<>>, <<>>)
  BY <1>1, NothingTells, Joins!JoinsNothing DEF inBlocks
<1> QED  BY <1>2, <1>3

LEMMA TextSpeaks ==
  ASSUME NEW p, p.type \in TextTypes, isSeq(p.text)
  PROVE  /\ speaks(<<p>>, p.text, <<>>)
         /\ p.type = "text" => inBlocks(<<p>>, p.text, <<>>)
<1>0. readBy("assistant") = "readAssistant" /\ "assistant" \in Sides
  BY DEF readBy, Sides
<1>s. isSeq(<<>>) /\ \A x : isSeq(<<x>>)
  BY ShortSeqs
<1>t. PICK t : t = p.text
  OBVIOUS
<1>1. Joins!joinsTo("text", <<p>>, t) /\ Joins!joinsTo("call", <<p>>, <<>>)
  <2>1. through("text", p) = t /\ through("call", p) = <<>>
    BY <1>t, ThroughPart, TypesDiffer DEF textIn, callIn
  <2> QED  BY <1>s, <1>t, <2>1, SameSeqs, Joins!JoinsOne
<1>2. ASSUME NEW tt \in TextTypes
      PROVE  Joins!joinsTo("readAssistant", <<Part(tt, t, None)>>, said("assistant", t))
  <2>r. PICK r : r = Part(tt, t, None)
    OBVIOUS
  <2>1. r.type \in TextTypes /\ r.text = t
    BY <2>r, PartFields
  <2> QED  BY <1>0, <1>t, <2>r, <2>1, TextReads
<1>3. Joins!joinsTo("responsesPart", <<p>>, <<Part("input_text", t, None)>>)
  <2>1. partOut("input_text", "input_image", "input_file", p) = <<Part("input_text", t, None)>>
    BY <1>t, TextOut
  <2>2. through("responsesPart", p) = <<Part("input_text", t, None)>>
    BY <2>1, ThroughRequestPart, Zenon
  <2> QED  BY <1>s, <2>2, SameSeqs, Joins!JoinsOne
<1>4. "input_text" \in TextTypes /\ "text" \in TextTypes
  BY DEF TextTypes
<1>5. \A i \in DOMAIN <<p>> : <<p>>[i].type \notin {"image", "file"}
  <2>1. p.type \notin {"image", "file"}
    BY TypesDiffer
  <2> QED  BY <2>1
<1>6. speaks(<<p>>, t, <<>>)
  BY <1>s, <1>t, <1>1, <1>2, <1>3, <1>4, <1>5, Zenon DEF speaks
<1>7. ASSUME p.type = "text" PROVE inBlocks(<<p>>, t, <<>>)
  <2>1. assistantPartOut(p) = <<Part("text", t, None)>>
    BY <1>7, <1>t DEF assistantPartOut
  <2>2. through("assistantPart", p) = <<Part("text", t, None)>>
    BY <2>1, ThroughRequestPart, Zenon
  <2>3. Joins!joinsTo("assistantPart", <<p>>, <<Part("text", t, None)>>)
    BY <1>s, <2>2, SameSeqs, Joins!JoinsOne
  <2>4. tells(said("assistant", t), said("assistant", t), <<>>, readCalls(<<>>))
    BY <1>t, SaidTells, NoCallsRead
  <2> QED  BY <1>2, <1>4, <2>3, <2>4, Zenon DEF inBlocks
<1> QED  BY <1>6, <1>7, <1>t

LEMMA CallsSpeak ==
  ASSUME NEW ids, isSeq(ids)
  PROVE  speaks(irCalls(ids), <<>>, ids) /\ inBlocks(irCalls(ids), <<>>, ids)
<1>s. PICK s : s = irCalls(ids)
  OBVIOUS
<1>u. PICK uses : uses = toolUses(ids)
  OBVIOUS
<1>1. /\ s = [i \in DOMAIN ids |-> toolCall(ids[i])]
      /\ uses = [i \in DOMAIN ids |-> ToolUse(ids[i])]
  BY <1>s, <1>u DEF irCalls, toolUses, each
<1>2. /\ isSeq(s) /\ isSeq(uses) /\ DOMAIN s = DOMAIN ids /\ DOMAIN uses = DOMAIN ids
  BY <1>1, EachOf
<1>3. ASSUME NEW i \in DOMAIN s
      PROVE  /\ s[i].type = "tool_call" /\ s[i].id = ids[i]
             /\ uses[i] = ToolUse(ids[i])
  BY <1>1, <1>2 DEF toolCall, IRPart
<1>4. ASSUME NEW i \in DOMAIN s
      PROVE  /\ textIn(s[i]) = <<>> /\ callIn(s[i]) = <<ids[i]>>
             /\ partOut("input_text", "input_image", "input_file", s[i]) = <<>>
             /\ assistantPartOut(s[i]) = <<uses[i]>>
  BY <1>3 DEF textIn, callIn, partOut, assistantPartOut, TextTypes
<1>5. \A i \in DOMAIN s : /\ through("text", s[i]) = <<>>
                          /\ through("call", s[i]) = <<ids[i]>>
                          /\ through("responsesPart", s[i]) = <<>>
                          /\ through("assistantPart", s[i]) = <<uses[i]>>
  BY <1>4, ThroughPart, ThroughRequestPart, Zenon
<1>6. /\ Joins!joinsTo("text", s, <<>>) /\ Joins!joinsTo("call", s, ids)
      /\ Joins!joinsTo("responsesPart", s, <<>>)
      /\ Joins!joinsTo("assistantPart", s, uses)
  BY <1>2, <1>5, SameSeqs, Joins!JoinsNone, Joins!JoinsSingles
<1>7. Joins!joinsTo("readAssistant", <<>>, said("assistant", <<>>))
  BY SaidNothing, Joins!JoinsNothing
<1>8. speaks(s, <<>>, ids)
  <2>1. \A i \in DOMAIN s : s[i].type \notin {"image", "file"}
    BY <1>3
  <2> QED  BY <1>2, <1>6, <1>7, <2>1, ShortSeqs, Zenon DEF speaks
<1>9. inBlocks(s, <<>>, ids)
  <2>1. tells(readCalls(ids), said("assistant", <<>>), <<>>, readCalls(ids))
    BY CallsTell, SaidNothing
  <2>2. Joins!joinsTo("readAssistant", uses, readCalls(ids))
    BY <1>u, ToolUsesReadAsCalls
  <2> QED  BY <1>6, <2>1, <2>2, Zenon DEF inBlocks
<1> QED  BY <1>8, <1>9, <1>s

LEMMA OneCallRead ==
  \A id : readCalls(<<id>>) = <<Entry("call", "assistant", id, <<>>)>>
<1>1. \A id : [i \in DOMAIN <<id>> |-> Entry("call", "assistant", <<id>>[i], <<>>)]
                = <<Entry("call", "assistant", id, <<>>)>>
  OBVIOUS
<1> QED  BY <1>1, Zenon DEF readCalls, each

LEMMA SpokenThenCalled ==
  ASSUME NEW t, isSeq(t), NEW ids, isSeq(ids), NEW side
  PROVE  tells(said(side, t) \o readCalls(ids), said(side, t), <<>>, readCalls(ids))
<1>1. tells(said(side, t), said(side, t), <<>>, <<>>)
  BY SaidTells
<1>2. tells(readCalls(ids), <<>>, <<>>, readCalls(ids))
  BY CallsTell
<1>3. tells(said(side, t) \o readCalls(ids), said(side, t) \o <<>>, <<>> \o <<>>,
            <<>> \o readCalls(ids))
  BY <1>1, <1>2, TellsConcat
<1>4. isSeq(said(side, t)) /\ isSeq(readCalls(ids)) /\ isSeq(<<>>)
  BY <1>1, <1>2, TellsAnd
<1> QED  BY <1>3, <1>4, EmptyConcat

LEMMA AssistantBecomesChat ==
  ASSUME NEW m, m.role = "assistant", NEW t, NEW ids, speaks(m.content, t, ids)
  PROVE  becomes("chat", <<m>>, said("assistant", t), <<>>, readCalls(ids))
<1>0. readBy("assistant") = "readAssistant" /\ "assistant" \in Sides
  BY DEF readBy, Sides
<1>1. encodeToolCalls(m.content) = ids /\ encodeTextContent(m.content) = t
  BY CallsJoin, TextsJoin DEF speaks, Joins!joinsTo
<1>2. encodeOpenAIContent(m.content) = String(t)
  BY <1>1 DEF encodeOpenAIContent, hasNonTextParts, speaks
<1>w. PICK w : w = ChatMessage("assistant", String(t), ids, None)
  OBVIOUS
<1>3. through(to("chat"), m) = <<w>>
  BY <1>1, <1>2, <1>w, ChatMessageOut, ThroughMessage DEF to
<1>4. readContent("assistant", String(t)) = said("assistant", t)
  BY <1>0, StringReads DEF speaks
<1>5. readMessage("chat", w) = said("assistant", t) \o readCalls(ids)
  <2>1. "assistant" \in {"user", "assistant"}
    OBVIOUS
  <2>2. readMessage("chat", w) = readContent("assistant", String(t)) \o readCalls(ids)
    BY <1>w, <2>1, ChatMessageReads, Zenon
  <2> QED  BY <1>4, <2>2
<1>6. tells(said("assistant", t) \o readCalls(ids), said("assistant", t), <<>>, readCalls(ids))
  BY SpokenThenCalled DEF speaks
<1>7. readsAs("chat", <<w>>, said("assistant", t), <<>>, readCalls(ids))
  BY <1>5, <1>6, MessageReads DEF Dialects
<1> QED  BY <1>3, <1>7, ShortSeqs, OneBecomes

LEMMA AssistantBecomesAnthropic ==
  ASSUME NEW m, m.role = "assistant", NEW t, NEW ids, inBlocks(m.content, t, ids)
  PROVE  becomes("anthropic", <<m>>, said("assistant", t), <<>>, readCalls(ids))
<1>0. readBy("assistant") = "readAssistant" /\ "assistant" \in Sides
  BY DEF readBy, Sides
<1>1. PICK out, e : /\ Joins!joinsTo("assistantPart", m.content, out)
                    /\ Joins!joinsTo("readAssistant", out, e)
                    /\ tells(e, said("assistant", t), <<>>, readCalls(ids))
  BY DEF inBlocks
<1>2. encodeAnthropicAssistant(m.content) = out
  BY <1>1, ContentOutJoin DEF Joins!joinsTo
<1>c. PICK c : c = List(out)
  OBVIOUS
<1>w. PICK w : w = AnthropicMessage("assistant", c)
  OBVIOUS
<1>3. through(to("anthropic"), m) = <<w>>
  <2>1. encodeAnthropicMessage(m) = w
    BY <1>2, <1>c, <1>w DEF encodeAnthropicMessage
  <2> QED  BY <2>1, ThroughMessage DEF to
<1>4. c.parts = out
  BY <1>c, MessageFields
<1>5. readMessage("anthropic", w) = e
  <2>1. readContent("assistant", c) = e
    BY <1>0, <1>1, <1>4, ContentReads
  <2> QED  BY <1>w, <2>1, AnthropicMessageReads
<1>6. readsAs("anthropic", <<w>>, said("assistant", t), <<>>, readCalls(ids))
  BY <1>1, <1>5, MessageReads DEF Dialects
<1> QED  BY <1>3, <1>6, ShortSeqs, OneBecomes

\* The calls as items, and how they are read.
LEMMA CallItemsReadAsCalls ==
  ASSUME NEW ids, isSeq(ids)
  PROVE  /\ isSeq(callItems(ids))
         /\ readsAs("responses", callItems(ids), <<>>, <<>>, readCalls(ids))
<1>s. PICK s : s = callItems(ids)
  OBVIOUS
<1>e. PICK e : e = readCalls(ids)
  OBVIOUS
<1>1. s = [i \in DOMAIN ids |-> CallItem(ids[i])]
  BY <1>s DEF callItems, each
<1>2. e = [i \in DOMAIN ids |-> Entry("call", "assistant", ids[i], <<>>)]
  BY <1>e DEF readCalls, each
<1>3. isSeq(s) /\ isSeq(e) /\ DOMAIN s = DOMAIN ids /\ DOMAIN e = DOMAIN ids
  BY <1>1, <1>2, EachOf
<1>4. ASSUME NEW i \in DOMAIN s PROVE through("readResponses", s[i]) = <<e[i]>>
  <2>m. PICK m : m = CallItem(ids[i])
    OBVIOUS
  <2>1. m.type = "function_call" /\ m.id = ids[i] /\ s[i] = m
    BY <1>1, <1>3, <2>m, MessageFields DEF CallItem
  <2>2. readItem(m) = readCalls(<<ids[i]>>)
    BY <2>1 DEF readItem
  <2>3. readCalls(<<ids[i]>>) = <<Entry("call", "assistant", ids[i], <<>>)>>
    BY OneCallRead
  <2>4. e[i] = Entry("call", "assistant", ids[i], <<>>)
    BY <1>2, <1>3
  <2>5. readMessage("responses", m) = <<e[i]>>
    BY <2>2, <2>3, <2>4, Zenon DEF readMessage
  <2> QED  BY <2>1, <2>5, ThroughMessage
<1>5. Joins!joinsTo("readResponses", s, e)
  BY <1>3, <1>4, SameSeqs, Joins!JoinsSingles
<1>6. tells(e, <<>>, <<>>, e)
  BY <1>e, CallsTell
<1>7. readsAs("responses", s, <<>>, <<>>, e)
  BY <1>5, <1>6, Zenon DEF readsAs, reading
<1> QED  BY <1>3, <1>7, <1>s, <1>e

LEMMA AssistantBecomesResponses ==
  ASSUME NEW m, m.role = "assistant", NEW t, NEW ids, speaks(m.content, t, ids)
  PROVE  becomes("responses", <<m>>, said("assistant", t), <<>>, readCalls(ids))
<1>0. /\ readBy("assistant") = "readAssistant" /\ "assistant" \in Sides
      /\ "responses" \in Dialects
  BY DEF readBy, Sides, Dialects
<1>1. PICK out : /\ Joins!joinsTo("responsesPart", m.content, out)
                 /\ Joins!joinsTo("readAssistant", out, said("assistant", t))
  BY DEF speaks
<1>2. encodeToolCalls(m.content) = ids /\ encodeResponsesContent(m.content) = out
  BY <1>1, CallsJoin, ContentOutJoin DEF speaks, Joins!joinsTo
<1>3. isSeq(t) /\ isSeq(ids)
  BY DEF speaks
<1>4. /\ isSeq(callItems(ids))
      /\ readsAs("responses", callItems(ids), <<>>, <<>>, readCalls(ids))
  BY <1>3, CallItemsReadAsCalls
<1>5. \E tail : /\ encodeResponsesMessage(m) = callItems(ids) \o tail /\ isSeq(tail)
                /\ readsAs("responses", tail, said("assistant", t), <<>>, <<>>)
  <2>1. CASE out = <<>>
    <3>1. encodeResponsesMessage(m) = callItems(ids) \o <<>>
      BY <1>2, <2>1, ResponsesMessageOut
    <3>2. said("assistant", t) = <<>>
      BY <1>1, <2>1, Joins!JoinEmpty DEF Joins!joinsTo
    <3> QED  BY <3>1, <3>2, NothingReads, ShortSeqs
  <2>2. CASE out # <<>>
    <3>c. PICK c : c = List(out)
      OBVIOUS
    <3>w. PICK w : w = MessageItem("assistant", c)
      OBVIOUS
    <3>1. encodeResponsesMessage(m) = callItems(ids) \o <<w>>
      BY <1>2, <2>2, <3>c, <3>w, ResponsesMessageOut
    <3>2. readContent("assistant", c) = said("assistant", t)
      <4>1. c.parts = out
        BY <3>c, MessageFields
      <4> QED  BY <1>0, <1>1, <4>1, ContentReads
    <3>3. readMessage("responses", w) = said("assistant", t)
      BY <3>2, <3>w, MessageItemReads DEF MessageItem
    <3>4. tells(said("assistant", t), said("assistant", t), <<>>, <<>>)
      BY <1>3, SaidTells
    <3>5. readsAs("responses", <<w>>, said("assistant", t), <<>>, <<>>)
      BY <1>0, <3>3, <3>4, MessageReads
    <3> QED  BY <3>1, <3>5, ShortSeqs
  <2> QED  BY <2>1, <2>2
<1>6. PICK tail : /\ encodeResponsesMessage(m) = callItems(ids) \o tail /\ isSeq(tail)
                  /\ readsAs("responses", tail, said("assistant", t), <<>>, <<>>)
  BY <1>5
<1>w. PICK w : w = callItems(ids) \o tail
  OBVIOUS
<1>7. readsAs("responses", w, <<>> \o said("assistant", t), <<>> \o <<>>,
              readCalls(ids) \o <<>>)
  BY <1>4, <1>6, <1>w, ReadsConcat
<1>8. isSeq(said("assistant", t)) /\ isSeq(readCalls(ids)) /\ isSeq(<<>>)
  BY <1>3, SaidIsSeq, CallsTell, TellsSeq, ShortSeqs
<1>9. readsAs("responses", w, said("assistant", t), <<>>, readCalls(ids))
  BY <1>7, <1>8, EmptyConcat
<1>10. through(to("responses"), m) = w
  BY <1>6, <1>w, ThroughMessage DEF to
<1>11. isSeq(w)
  BY <1>4, <1>6, <1>w, ConcatElements
<1> QED  BY <1>9, <1>10, <1>11, OneBecomes

LEMMA AssistantBecomes ==
  ASSUME NEW u \in Dialects, NEW m, m.role = "assistant", NEW t, NEW ids,
         speaks(m.content, t, ids), u = "anthropic" => inBlocks(m.content, t, ids)
  PROVE  becomes(u, <<m>>, said("assistant", t), <<>>, readCalls(ids))
BY AssistantBecomesChat, AssistantBecomesResponses, AssistantBecomesAnthropic DEF Dialects
-----------------------------------------------------------------------------
(* What the messages of a client become.                                   *)

\* A content of a client, taken over.
LEMMA TextTakenOver ==
  ASSUME NEW content, NEW r, content.parts = <<r>>, r.type \in TextTypes
  PROVE  \E p : decodeGenericContent(content) = <<p>> /\ p.type = r.type /\ p.text = r.text
<1>q. PICK p : p = fromRaw(r)
  OBVIOUS
<1>1. decodeGenericContent(content) = <<p>>
  <2>1. [i \in DOMAIN <<r>> |-> fromRaw(<<r>>[i])] = <<fromRaw(r)>>
    OBVIOUS
  <2> QED  BY <1>q, <2>1, Zenon DEF decodeGenericContent, each
<1>2. normalizeIRPartType(r.type) = r.type
  BY TypesDiffer DEF normalizeIRPartType, MediaTypes
<1>3. p.type = r.type /\ p.text = r.text
  BY <1>2, <1>q DEF fromRaw, IRPart
<1> QED  BY <1>1, <1>3

LEMMA TwoConcat == \A p, q : <<p, q>> = <<p>> \o <<q>>
<1> TAKE p, q
<1>1. PICK x, y, z, E : x = <<p>> /\ y = <<q>> /\ z = <<p, q>> /\ E = {p, q}
  OBVIOUS
<1>2. /\ x \in Seq(E) /\ Len(x) = 1 /\ x[1] = p
      /\ y \in Seq(E) /\ Len(y) = 1 /\ y[1] = q
      /\ z \in Seq(E) /\ Len(z) = 2 /\ z[1] = p /\ z[2] = q
  BY <1>1
<1>w. PICK w : w = x \o y
  OBVIOUS
<1>3. w \in Seq(E) /\ Len(w) = 2 /\ w[1] = p /\ w[2] = q
  <2>1. /\ w \in Seq(E) /\ Len(w) = Len(x) + Len(y)
        /\ \A i \in 1..Len(x) : w[i] = x[i]
        /\ \A i \in 1..Len(x) + Len(y) : i > Len(x) => w[i] = y[i - Len(x)]
    <3>1. x \in Seq(E) /\ y \in Seq(E)
      BY <1>2
    <3> QED  BY <1>w, <3>1, ConcatFacts
  <2>2. Len(w) = 2 /\ \A i \in 1..1 : w[i] = x[i]
    BY <1>2, <2>1
  <2>3. w[2] = y[1]
    <3>1. 2 \in 1..Len(x) + Len(y) /\ 2 > Len(x) /\ 2 - Len(x) = 1
      BY <1>2
    <3> QED  BY <2>1, <3>1
  <2> QED  BY <1>2, <2>1, <2>2, <2>3
<1>4. w = [i \in 1..2 |-> w[i]] /\ z = [i \in 1..2 |-> z[i]]
  BY <1>2, <1>3, SeqIsFunction, Zenon
<1>5. \A i \in 1..2 : w[i] = z[i]
  BY <1>2, <1>3
<1> QED  BY <1>1, <1>4, <1>5, <1>w

mediumTaken(taken, text, media, id) ==
  \E p, q : /\ taken = <<p>> \o <<q>> /\ p.type \in TextTypes /\ p.text = text
            /\ q.type \in {"image", "file"} /\ q.raw = media /\ q.id = id
LEMMA MediumTakenOver ==
  ASSUME NEW content, NEW r, NEW s, content.parts = <<r, s>>,
         r.type \in TextTypes, s.type \in MediaTypes
  PROVE  mediumTaken(decodeGenericContent(content), r.text, s.type, s.id)
<1>q. PICK p, q : p = fromRaw(r) /\ q = fromRaw(s)
  OBVIOUS
<1>1. decodeGenericContent(content) = <<p>> \o <<q>>
  <2>1. [i \in DOMAIN <<r, s>> |-> fromRaw(<<r, s>>[i])] = <<fromRaw(r), fromRaw(s)>>
    OBVIOUS
  <2>2. decodeGenericContent(content) = <<fromRaw(r), fromRaw(s)>>
    BY <2>1, Zenon DEF decodeGenericContent, each
  <2> QED  BY <1>q, <2>2, TwoConcat
<1>2. /\ normalizeIRPartType(r.type) = r.type
      /\ normalizeIRPartType(s.type) \in {"image", "file"}
  BY TypesDiffer DEF normalizeIRPartType, MediaTypes
<1>3. /\ p.type = r.type /\ p.text = r.text
      /\ q.type = normalizeIRPartType(s.type) /\ q.raw = s.type /\ q.id = s.id
  BY <1>2, <1>q DEF fromRaw, IRPart
<1> QED  BY <1>1, <1>2, <1>3 DEF mediumTaken

\* The content of a client's question: its text and its medium, if any.
asked(content, t, h) ==
  /\ userContent(decodeGenericContent(content), t, h)
  /\ readContent("user", content) = said("user", t) \o h
  /\ ~content.list => h = <<>>

LEMMA AskedIsTaken ==
  ASSUME NEW form \in AskForms, NEW p, NEW content, content = askedContent(form, p),
         dialect \in Dialects
  PROVE  /\ isSeq(<<p>>) /\ \E h : asked(content, <<p>>, h)
         /\ content.list <=> form \notin {"string", "untyped"}
         /\ content.list /\ dialect = "anthropic" =>
              /\ isSeq(content.parts)
              /\ \A i \in DOMAIN content.parts :
                   content.parts[i].type \in {"text", "image", "document"}
<1>0. readBy("user") = "readUser" /\ "user" \in Sides
  BY DEF readBy, Sides
<1>t. PICK t : t = <<p>>
  OBVIOUS
<1>s. isSeq(t) /\ isSeq(<<p>>) /\ isSeq(said("user", t))
  BY <1>t, ShortSeqs, SaidIsSeq
<1>y. PICK type : type = TextType(dialect)
  OBVIOUS
<1>1. type \in TextTypes /\ "text" \in TextTypes
  BY <1>y DEF TextType, TextTypes
<1>2. said("user", t) \o <<>> = said("user", t)
  BY <1>s, EmptyConcat
<1>3. CASE form \in {"string", "untyped"}
  <2>1. content = String(t)
    BY <1>3, <1>t DEF askedContent
  <2>r. PICK r : r = Part("text", t, None)
    OBVIOUS
  <2>a. content.parts = <<r>> /\ r.type = "text" /\ r.text = t
    BY <2>1, <2>r, PartFields DEF String
  <2>2. PICK q : decodeGenericContent(content) = <<q>> /\ q.type = "text" /\ q.text = t
    BY <1>1, <2>a, TextTakenOver
  <2>3. userContent(decodeGenericContent(content), t, <<>>)
    BY <1>1, <2>2 DEF userContent
  <2>4. readContent("user", content) = said("user", t) \o <<>>
    BY <1>0, <1>2, <1>s, <2>1, StringReads
  <2>5. asked(content, t, <<>>)
    BY <2>3, <2>4 DEF asked
  <2>6. content.list = FALSE
    BY <2>1, MessageFields
  <2> QED  BY <1>3, <1>s, <1>t, <2>5, <2>6
<1>4. CASE form = "list"
  <2>r. PICK r : r = Part(type, t, None)
    OBVIOUS
  <2>1. content = List(<<r>>)
    BY <1>4, <1>t, <1>y, <2>r DEF askedContent
  <2>a. content.parts = <<r>> /\ r.type = type /\ r.text = t
    BY <2>1, <2>r, PartFields, MessageFields
  <2>2. PICK q : decodeGenericContent(content) = <<q>> /\ q.type = type /\ q.text = t
    BY <1>1, <2>a, TextTakenOver
  <2>3. userContent(decodeGenericContent(content), t, <<>>)
    BY <1>1, <2>2 DEF userContent
  <2>4. r.type \in TextTypes /\ r.text = t /\ content.parts = <<r>>
    BY <1>1, <2>1, <2>r, PartFields, MessageFields
  <2>5. Joins!joinsTo("readUser", content.parts, said("user", t))
    BY <1>0, <1>s, <2>4, TextReads
  <2>6. readContent("user", content) = said("user", t) \o <<>>
    BY <1>0, <1>2, <2>5, ContentReads
  <2>7. asked(content, t, <<>>)
    BY <2>3, <2>6 DEF asked
  <2>8. dialect = "anthropic" => r.type = "text"
    BY <1>y, <2>a DEF TextType
  <2>9. content.list = TRUE /\ isSeq(content.parts)
    BY <2>1, <2>4, MessageFields, ShortSeqs
  <2> QED  BY <1>4, <1>s, <1>t, <2>4, <2>7, <2>8, <2>9
<1>5. CASE form \in {"image", "file"}
  <2>m. PICK media : media = MediaType(dialect, form)
    OBVIOUS
  <2>0. media \in MediaTypes
    BY <1>5, <2>m DEF MediaType, MediaTypes, ImageTypes, FileTypes, Dialects
  <2>r. PICK r, s : r = Part(type, t, None) /\ s = Part(media, <<>>, p)
    OBVIOUS
  <2>1. content = List(<<r, s>>)
    BY <1>5, <1>t, <1>y, <2>m, <2>r DEF askedContent
  <2>h. PICK h : h = <<Entry("shown", "user", p, <<>>)>>
    OBVIOUS
  <2>a. /\ content.parts = <<r, s>> /\ r.type = type /\ r.text = t
        /\ s.type = media /\ s.id = p
    BY <2>1, <2>r, PartFields, MessageFields
  <2>b. r.type \in TextTypes /\ s.type \in MediaTypes
    BY <1>1, <2>0, <2>a
  <2>2. mediumTaken(decodeGenericContent(content), t, media, p)
    BY <2>a, <2>b, MediumTakenOver
  <2>3. userContent(decodeGenericContent(content), t, h)
    BY <2>0, <2>2, <2>h DEF userContent, mediumTaken
  <2>4. /\ r.type \in TextTypes /\ r.text = t /\ s.type \in MediaTypes /\ s.id = p
        /\ content.parts = <<r>> \o <<s>> /\ content.list
    BY <1>1, <2>0, <2>1, <2>r, PartFields, MessageFields, TwoConcat
  <2>5. Joins!joinsTo("readUser", <<r>>, said("user", t))
    BY <1>0, <1>s, <2>4, TextReads
  <2>6. Joins!joinsTo("readUser", <<s>>, h)
    BY <1>0, <2>4, <2>h, MediumReads
  <2>7. Joins!joinsTo("readUser", content.parts, said("user", t) \o h)
    BY <2>4, <2>5, <2>6, Joins!JoinsConcat
  <2>8. readContent("user", content) = said("user", t) \o h
    BY <1>0, <2>7, ContentReads
  <2>9. asked(content, t, h)
    BY <2>3, <2>4, <2>8 DEF asked
  <2>10. dialect = "anthropic" => r.type = "text" /\ s.type \in {"image", "document"}
    BY <1>5, <1>y, <2>a, <2>m DEF TextType, MediaType
  <2>11. content.list = TRUE /\ content.parts = <<r, s>> /\ isSeq(content.parts)
    BY <2>1, <2>4, <2>a, MessageFields, ShortSeqs, ConcatElements
  <2>12. \A i \in DOMAIN content.parts : content.parts[i] = r \/ content.parts[i] = s
    BY <2>11
  <2> QED  BY <1>5, <1>s, <1>t, <2>9, <2>10, <2>11, <2>12
<1> QED  BY <1>3, <1>4, <1>5 DEF AskForms

LEMMA AskedTells ==
  ASSUME NEW content, NEW t, isSeq(t), NEW h, asked(content, t, h)
  PROVE  tells(readContent("user", content), said("user", t), h, <<>>)
BY UserTells DEF asked, userContent

LEMMA NoIRCalls == irCalls(<<>>) = <<>>
<1>1. [i \in DOMAIN <<>> |-> toolCall(<<>>[i])] = <<>>
  OBVIOUS
<1> QED  BY <1>1, Zenon DEF irCalls, each

LEMMA FromChatMessage ==
  ASSUME NEW m, m.role \notin SystemRoles
  PROVE  through("fromChat", m)
           = <<IRMessage(m.role, decodeGenericContent(m.content) \o irCalls(m.calls),
                         m.callId)>>
<1>1. fromChat(m) = <<IRMessage(m.role, decodeGenericContent(m.content) \o irCalls(m.calls),
                                m.callId)>>
  BY Zenon DEF fromChat, irCalls, each
<1> QED  BY <1>1, ThroughMessage

LEMMA ChatQuestionReaches ==
  ASSUME NEW u \in Dialects, NEW content, NEW t, isSeq(t), NEW h, asked(content, t, h)
  PROVE  reaches("chat", u, <<ChatMessage("user", content, <<>>, None)>>)
<1>m. PICK m : m = ChatMessage("user", content, <<>>, None)
  OBVIOUS
<1>1. m.role = "user" /\ m.content = content /\ m.calls = <<>> /\ m.callId = None
  BY <1>m, MessageFields
<1>c. PICK c : c = decodeGenericContent(content)
  OBVIOUS
<1>2. userContent(c, t, h)
  BY <1>c DEF asked
<1>3. c \o irCalls(<<>>) = c
  BY <1>2, UserContentCalls, NoIRCalls, EmptyConcat
<1>i. PICK i : i = IRMessage("user", c, None)
  OBVIOUS
<1>4. through(from("chat"), m) = <<i>>
  <2>1. m.role \notin SystemRoles
    BY <1>1 DEF SystemRoles
  <2> QED  BY <1>1, <1>3, <1>c, <1>i, <2>1, FromChatMessage DEF from
<1>5. becomes(u, <<i>>, said("user", t), h, <<>>)
  BY <1>2, <1>i, IRMessageFields, UserBecomes
<1>6. readMessage("chat", m) = readContent("user", content)
  <2>1. "user" \in {"user", "assistant"}
    OBVIOUS
  <2>2. readMessage("chat", m) = readContent("user", content) \o <<>>
    BY <1>m, <2>1, ChatMessageReads, NoCallsRead, Zenon
  <2> QED  BY <2>2, AskedTells, TellsSeq, EmptyConcat
<1>7. tells(readMessage("chat", m), said("user", t), h, <<>>)
  BY <1>6, AskedTells
<1>8. ~lostTo("chat", u, m) /\ "chat" \in Dialects
  BY DEF lostTo, Dialects
<1> QED  BY <1>4, <1>5, <1>7, <1>8, <1>m, ShortSeqs, OneReaches

LEMMA AbsentType ==
  Absent \notin {"string", "message", "function_call", "function_call_output", "reasoning"}
BY Zenon DEF Absent

LEMMA ItemTaken ==
  ASSUME NEW m
  PROVE  /\ m.type = "string" =>
              decodeResponsesItem(m)
                = <<IRMessage("user", decodeGenericContent(m.content), None)>>
         /\ m.type = "message" =>
              decodeResponsesItem(m) = <<IRMessage(m.role, listContent(m.content), None)>>
         /\ m.type = "function_call" =>
              decodeResponsesItem(m) = <<IRMessage("assistant", <<toolCall(m.id)>>, None)>>
         /\ m.type = "function_call_output" =>
              decodeResponsesItem(m) = <<IRMessage("tool", <<toolResult(m.text)>>, m.id)>>
         /\ m.type \notin {"string", "message", "function_call", "function_call_output"} =>
              decodeResponsesItem(m) = <<>>
BY DEF decodeResponsesItem

LEMMA LostItems ==
  ASSUME NEW u, NEW m
  PROVE  /\ m.type = Absent => lostTo("responses", u, m)
         /\ m.type = "message" /\ m.role = "user" =>
              (lostTo("responses", u, m) <=> ~m.content.list)
         /\ m.type = "message" /\ m.role = "assistant" /\ m.content.list =>
              (lostTo("responses", u, m) <=> u = "anthropic")
         /\ m.type \in {"string", "function_call", "function_call_output", "reasoning"} =>
              ~lostTo("responses", u, m)
<1> HIDE DEF Absent
<1> QED  BY AbsentType DEF lostTo

LEMMA ResponsesQuestionReaches ==
  ASSUME NEW u \in Dialects, NEW content, NEW t, isSeq(t), NEW h, asked(content, t, h),
         NEW type, type = Absent \/ type = "string" \/ type = "message"
  PROVE  reaches("responses", u, <<Item(type, "user", content, None, <<>>)>>)
<1>m. PICK m : m = Item(type, "user", content, None, <<>>)
  OBVIOUS
<1>1. m.type = type /\ m.role = "user" /\ m.content = content
  BY <1>m, MessageFields
<1>2. readMessage("responses", m) = readContent("user", content)
  <2>1. type \notin {"function_call", "function_call_output", "reasoning"}
    BY AbsentType
  <2> QED  BY <1>m, <2>1, MessageItemReads
<1>3. tells(readMessage("responses", m), said("user", t), h, <<>>)
  BY <1>2, AskedTells
<1>4. "responses" \in Dialects /\ through(from("responses"), m) = decodeResponsesItem(m)
  BY ThroughMessage DEF Dialects, from
<1>c. PICK c : c = decodeGenericContent(content)
  OBVIOUS
<1>i. PICK i : i = IRMessage("user", c, None)
  OBVIOUS
<1>n. PICK n : n = IRMessage("user", <<>>, None)
  OBVIOUS
<1>5. becomes(u, <<i>>, said("user", t), h, <<>>)
  BY <1>c, <1>i, IRMessageFields, UserBecomes DEF asked
<1>6. becomes(u, <<n>>, <<>>, <<>>, <<>>)
  <2>1. userContent(<<>>, <<>>, <<>>)
    BY DEF userContent
  <2>2. becomes(u, <<n>>, said("user", <<>>), <<>>, <<>>)
    BY <1>n, <2>1, IRMessageFields, ShortSeqs, UserBecomes
  <2> QED  BY <2>2, SaidNothing
<1>7. CASE type = Absent
  <2>1. decodeResponsesItem(m) = <<>>
    BY <1>1, <1>7, AbsentType, ItemTaken
  <2>2. lostTo("responses", u, m)
    BY <1>1, <1>7, LostItems
  <2> QED  BY <1>3, <1>4, <1>m, <2>1, <2>2, ShortSeqs, NothingReads, OneReaches
<1>8. CASE type = "string"
  <2>1. decodeResponsesItem(m) = <<i>>
    BY <1>1, <1>8, <1>c, <1>i, ItemTaken
  <2>2. ~lostTo("responses", u, m)
    BY <1>1, <1>8, LostItems
  <2> QED  BY <1>3, <1>4, <1>5, <1>m, <2>1, <2>2, ShortSeqs, OneReaches
<1>9. CASE type = "message" /\ content.list
  <2>1. decodeResponsesItem(m) = <<i>>
    BY <1>1, <1>9, <1>c, <1>i, ItemTaken DEF listContent
  <2>2. ~lostTo("responses", u, m)
    BY <1>1, <1>9, LostItems
  <2> QED  BY <1>3, <1>4, <1>5, <1>m, <2>1, <2>2, ShortSeqs, OneReaches
<1>10. CASE type = "message" /\ ~content.list
  <2>1. decodeResponsesItem(m) = <<n>>
    BY <1>1, <1>10, <1>n, ItemTaken DEF listContent
  <2>2. lostTo("responses", u, m)
    BY <1>1, <1>10, LostItems
  <2> QED  BY <1>3, <1>4, <1>6, <1>m, <2>1, <2>2, ShortSeqs, OneReaches
<1> QED  BY <1>7, <1>8, <1>9, <1>10

LEMMA ResultsJoin ==
  \A s : chosen(s, LAMBDA p : p.type = "tool_result") = Joins!join("resultBlock", s)
<1> TAKE s
<1>1. [i \in DOMAIN s |-> resultBlock(s[i])] = [i \in DOMAIN s |-> through("resultBlock", s[i])]
  BY ThroughRequestPart, Zenon
<1> QED  BY <1>1, JoinOfEach, Zenon DEF chosen, joined, each, resultBlock

LEMMA BlocksJoin == \A s : joined(s, decodeAnthropicBlock) = Joins!join("block", s)
<1> TAKE s
<1>1. [i \in DOMAIN s |-> decodeAnthropicBlock(s[i])]
        = [i \in DOMAIN s |-> through("block", s[i])]
  BY ThroughRequestPart, Zenon
<1> QED  BY <1>1, JoinOfEach, Zenon DEF joined, each

\* A message of an Anthropic client, taken over.
blocksOf(content) == IF content.list THEN content.parts ELSE <<>>
LEMMA AnthropicTaken ==
  ASSUME NEW m, NEW found, NEW content,
         Joins!joinsTo("resultBlock", blocksOf(m.content), found),
         Joins!joinsTo("block", blocksOf(m.content), content)
  PROVE  /\ found = <<>> => decodeAnthropicMessage(m) = IRMessage(m.role, content, None)
         /\ found # <<>> =>
              decodeAnthropicMessage(m) = IRMessage("tool", content, Last(found).id)
<1>b. PICK b : b = blocksOf(m.content)
  OBVIOUS
<1>1. joined(b, decodeAnthropicBlock) = content
  BY <1>b, BlocksJoin DEF Joins!joinsTo
<1>2. chosen(b, LAMBDA p : p.type = "tool_result") = found
  BY <1>b, ResultsJoin DEF Joins!joinsTo
<1>3. decodeAnthropicMessage(m)
        = IF chosen(b, LAMBDA p : p.type = "tool_result") = <<>>
          THEN IRMessage(m.role, joined(b, decodeAnthropicBlock), None)
          ELSE IRMessage("tool", joined(b, decodeAnthropicBlock),
                         Last(chosen(b, LAMBDA p : p.type = "tool_result")).id)
  BY <1>b, Zenon DEF decodeAnthropicMessage, blocksOf
<1> QED  BY <1>1, <1>2, <1>3

LEMMA AnthropicQuestionReaches ==
  ASSUME NEW u \in Dialects, NEW content, NEW t, isSeq(t), NEW h, asked(content, t, h),
         content.list =>
           /\ isSeq(content.parts)
           /\ \A k \in DOMAIN content.parts :
                content.parts[k].type \in {"text", "image", "document"}
  PROVE  reaches("anthropic", u, <<AnthropicMessage("user", content)>>)
<1>m. PICK m : m = AnthropicMessage("user", content)
  OBVIOUS
<1>1. m.role = "user" /\ m.content = content
  BY <1>m, MessageFields
<1>2. tells(readMessage("anthropic", m), said("user", t), h, <<>>)
  BY <1>m, AnthropicMessageReads, AskedTells
<1>3. /\ "anthropic" \in Dialects
      /\ through(from("anthropic"), m) = <<decodeAnthropicMessage(m)>>
  BY ThroughMessage DEF Dialects, from
<1>4. lostTo("anthropic", u, m) <=>
        \/ ~content.list
        \/ \E k \in DOMAIN content.parts : content.parts[k].type = "tool_result"
  BY <1>1 DEF lostTo
<1>5. CASE ~content.list
  <2>1. blocksOf(m.content) = <<>>
    BY <1>1, <1>5 DEF blocksOf
  <2>n. PICK n : n = IRMessage("user", <<>>, None)
    OBVIOUS
  <2>2. decodeAnthropicMessage(m) = n
    BY <1>1, <2>1, <2>n, AnthropicTaken, Joins!JoinsNothing
  <2>3. userContent(<<>>, <<>>, <<>>)
    BY DEF userContent
  <2>4. becomes(u, <<n>>, said("user", <<>>), <<>>, <<>>)
    BY <2>3, <2>n, IRMessageFields, ShortSeqs, UserBecomes
  <2>5. becomes(u, <<n>>, <<>>, <<>>, <<>>)
    BY <2>4, SaidNothing
  <2> QED  BY <1>2, <1>3, <1>4, <1>5, <1>m, <2>2, <2>5, ShortSeqs, OneReaches
<1>6. CASE content.list
  <2>c. PICK c : c = decodeGenericContent(content)
    OBVIOUS
  <2>b. PICK b : b = content.parts
    OBVIOUS
  <2>1. c = [k \in DOMAIN b |-> fromRaw(b[k])]
    BY <2>b, <2>c, Zenon DEF decodeGenericContent, each
  <2>2. isSeq(b) /\ isSeq(c) /\ DOMAIN c = DOMAIN b
    BY <1>6, <2>1, <2>b, EachOf
  <2>3. ASSUME NEW k \in DOMAIN b
        PROVE  /\ through("block", b[k]) = <<c[k]>>
               /\ through("resultBlock", b[k]) = <<>>
    <3>1. b[k].type \in {"text", "image", "document"}
      BY <1>6, <2>b
    <3>2. decodeAnthropicBlock(b[k]) = <<c[k]>> /\ resultBlock(b[k]) = <<>>
      BY <2>1, <3>1 DEF decodeAnthropicBlock, resultBlock
    <3> QED  BY <3>2, ThroughRequestPart, Zenon
  <2>4. Joins!joinsTo("block", b, c) /\ Joins!joinsTo("resultBlock", b, <<>>)
    BY <2>2, <2>3, SameSeqs, Joins!JoinsSingles, Joins!JoinsNone
  <2>5. blocksOf(m.content) = b
    BY <1>1, <1>6, <2>b DEF blocksOf
  <2>i. PICK i : i = IRMessage("user", c, None)
    OBVIOUS
  <2>6. decodeAnthropicMessage(m) = i
    BY <1>1, <2>4, <2>5, <2>i, AnthropicTaken
  <2>7. becomes(u, <<i>>, said("user", t), h, <<>>)
    BY <2>c, <2>i, IRMessageFields, UserBecomes DEF asked
  <2>8. ~lostTo("anthropic", u, m)
    BY <1>4, <1>6
  <2> QED  BY <1>2, <1>3, <1>m, <2>6, <2>7, <2>8, ShortSeqs, OneReaches
<1> QED  BY <1>5, <1>6

LEMMA QuestionReaches ==
  ASSUME dialect \in Dialects, NEW u \in Dialects, NEW form \in AskForms
  PROVE  reaches(dialect, u, <<question(form)>>)
<1>p. PICK p : p = piece(requests + 1, 1)
  OBVIOUS
<1>c. PICK content : content = askedContent(form, p)
  OBVIOUS
<1>1. PICK t, h : isSeq(t) /\ asked(content, t, h)
  BY <1>c, AskedIsTaken
<1>2. content.list /\ dialect = "anthropic" =>
        /\ isSeq(content.parts)
        /\ \A i \in DOMAIN content.parts :
             content.parts[i].type \in {"text", "image", "document"}
  BY <1>c, AskedIsTaken
<1>3. CASE dialect = "chat"
  <2>1. question(form) = ChatMessage("user", content, <<>>, None)
    BY <1>3, <1>c, <1>p DEF question
  <2> QED  BY <1>1, <1>3, <2>1, ChatQuestionReaches
<1>4. CASE dialect = "responses"
  <2>1. PICK type : /\ question(form) = Item(type, "user", content, None, <<>>)
                    /\ type = Absent \/ type = "string" \/ type = "message"
    <3> HIDE DEF Absent
    <3>1. PICK type : type = CASE form = "untyped" -> Absent
                               [] form = "string" /\ phase = "writing" -> "string"
                               [] OTHER -> "message"
      OBVIOUS
    <3>2. type = Absent \/ type = "string" \/ type = "message"
      BY <3>1
    <3>3. question(form) = Item(type, "user", content, None, <<>>)
      BY <1>4, <1>c, <1>p, <3>1, Zenon DEF question
    <3> QED  BY <3>2, <3>3
  <2> QED  BY <1>1, <1>4, <2>1, ResponsesQuestionReaches
<1>5. CASE dialect = "anthropic"
  <2>1. question(form) = AnthropicMessage("user", content)
    BY <1>5, <1>c, <1>p DEF question
  <2> QED  BY <1>1, <1>2, <1>5, <2>1, AnthropicQuestionReaches
<1> QED  BY <1>3, <1>4, <1>5 DEF Dialects

\* The results of a client's calls.
LEMMA ChatResultReaches ==
  ASSUME NEW u \in Dialects, NEW content, NEW id
  PROVE  reaches("chat", u, <<ChatMessage("tool", content, <<>>, id)>>)
<1>m. PICK m : m = ChatMessage("tool", content, <<>>, id)
  OBVIOUS
<1>1. m.role = "tool" /\ m.content = content /\ m.calls = <<>> /\ m.callId = id
  BY <1>m, MessageFields
<1>i. PICK i : i = IRMessage(m.role, decodeGenericContent(m.content) \o irCalls(m.calls),
                             m.callId)
  OBVIOUS
<1>2. through(from("chat"), m) = <<i>>
  <2>1. m.role \notin SystemRoles
    BY <1>1 DEF SystemRoles
  <2> QED  BY <1>i, <2>1, FromChatMessage DEF from
<1>3. becomes(u, <<i>>, <<>>, <<>>, <<>>)
  BY <1>1, <1>i, IRMessageFields, ToolBecomes
<1>4. ~lostTo("chat", u, m) /\ "chat" \in Dialects
  BY DEF lostTo, Dialects
<1>5. tells(readMessage("chat", m), <<>>, <<>>, <<>>)
  <2>1. \E text : readMessage("chat", m) = <<Entry("result", "user", id, text)>>
    BY <1>1 DEF readMessage, readChatMessage
  <2>2. PICK text, e : /\ readMessage("chat", m) = e
                       /\ e = <<Entry("result", "user", id, text)>>
    BY <2>1
  <2>3. "result" \in {"shown", "result"} /\ "result" # "shown"
    OBVIOUS
  <2> QED  BY <2>2, <2>3, OneTells
<1> QED  BY <1>2, <1>3, <1>4, <1>5, <1>m, ShortSeqs, OneReaches

LEMMA ResponsesResultReaches ==
  ASSUME NEW u \in Dialects, NEW id, NEW text
  PROVE  reaches("responses", u, <<OutputItem(id, text)>>)
<1>m. PICK m : m = OutputItem(id, text)
  OBVIOUS
<1>1. m.type = "function_call_output" /\ m.id = id /\ m.text = text
  BY <1>m, MessageFields DEF OutputItem
<1>i. PICK i : i = IRMessage("tool", <<toolResult(m.text)>>, m.id)
  OBVIOUS
<1>2. through(from("responses"), m) = <<i>>
  BY <1>1, <1>i, ItemTaken, ThroughMessage DEF from
<1>3. becomes(u, <<i>>, <<>>, <<>>, <<>>)
  BY <1>i, IRMessageFields, ToolBecomes
<1>4. ~lostTo("responses", u, m) /\ "responses" \in Dialects
  BY <1>1, LostItems DEF Dialects
<1>5. tells(readMessage("responses", m), <<>>, <<>>, <<>>)
  <2>1. readItem(m) = <<Entry("result", "user", id, text)>>
    BY <1>1 DEF readItem
  <2>2. PICK e : readMessage("responses", m) = e /\ e = <<Entry("result", "user", id, text)>>
    BY <2>1 DEF readMessage
  <2>3. "result" \in {"shown", "result"} /\ "result" # "shown"
    OBVIOUS
  <2> QED  BY <2>2, <2>3, OneTells
<1> QED  BY <1>2, <1>3, <1>4, <1>5, <1>m, ShortSeqs, OneReaches

\* The blocks of an Anthropic client's message with results.
resultBlocks(b, s) ==
  \E found, c, e : /\ Joins!joinsTo("resultBlock", b, found) /\ found # <<>>
                   /\ Joins!joinsTo("block", b, c)
                   /\ Joins!joinsTo("readUser", b, e) /\ tells(e, s, <<>>, <<>>)

LEMMA ResultBlocksReach ==
  ASSUME NEW u \in Dialects, NEW b, NEW s, resultBlocks(b, s)
  PROVE  reaches("anthropic", u, <<AnthropicMessage("user", List(b))>>)
<1>0. readBy("user") = "readUser" /\ "user" \in Sides
  BY DEF readBy, Sides
<1>c. PICK content : content = List(b)
  OBVIOUS
<1>m. PICK m : m = AnthropicMessage("user", content)
  OBVIOUS
<1>1. m.content = content /\ content.list = TRUE /\ content.parts = b
  BY <1>c, <1>m, MessageFields
<1>2. PICK found, c, e :
        /\ Joins!joinsTo("resultBlock", b, found) /\ found # <<>>
        /\ Joins!joinsTo("block", b, c)
        /\ Joins!joinsTo("readUser", b, e) /\ tells(e, s, <<>>, <<>>)
  BY DEF resultBlocks
<1>i. PICK i : i = IRMessage("tool", c, Last(found).id)
  OBVIOUS
<1>3. through(from("anthropic"), m) = <<i>>
  <2>1. blocksOf(m.content) = b
    BY <1>1 DEF blocksOf
  <2>2. decodeAnthropicMessage(m) = i
    BY <1>2, <1>i, <2>1, AnthropicTaken
  <2> QED  BY <2>2, ThroughMessage DEF from
<1>4. becomes(u, <<i>>, <<>>, <<>>, <<>>)
  BY <1>i, IRMessageFields, ToolBecomes
<1>5. lostTo("anthropic", u, m) /\ "anthropic" \in Dialects
  <2>1. \E k \in DOMAIN b : b[k].type = "tool_result"
    <3> SUFFICES ASSUME \A k \in DOMAIN b : b[k].type # "tool_result" PROVE FALSE
      OBVIOUS
    <3>1. \A k \in DOMAIN b : resultBlock(b[k]) = <<>>
      BY DEF resultBlock
    <3>2. \A k \in DOMAIN b : through("resultBlock", b[k]) = <<>>
      BY <3>1, ThroughRequestPart, Zenon
    <3>3. Joins!isSeq(b)
      BY <1>2 DEF Joins!joinsTo, Joins!givesFrom
    <3>4. Joins!joinsTo("resultBlock", b, <<>>)
      BY <3>2, <3>3, Joins!JoinsNone
    <3> QED  BY <1>2, <3>4 DEF Joins!joinsTo
  <2> QED  BY <1>1, <2>1 DEF lostTo, Dialects
<1>6. readMessage("anthropic", m) = e
  <2>1. readContent("user", content) = e
    BY <1>0, <1>1, <1>2, ContentReads
  <2> QED  BY <1>m, <2>1, AnthropicMessageReads
<1>7. tells(readMessage("anthropic", m), s, <<>>, <<>>)
  BY <1>2, <1>6
<1> QED  BY <1>3, <1>4, <1>5, <1>7, <1>c, <1>m, ShortSeqs, OneReaches

LEMMA ResultsAreBlocks ==
  ASSUME NEW b, isSeq(b), b # <<>>, \A k \in DOMAIN b : b[k].type = "tool_result"
  PROVE  resultBlocks(b, <<>>)
<1>1. PICK c, e : /\ c = [k \in DOMAIN b |-> toolResult(b[k].text)]
                  /\ e = [k \in DOMAIN b |-> Entry("result", "user", b[k].id, b[k].text)]
  OBVIOUS
<1>2. isSeq(c) /\ isSeq(e) /\ DOMAIN c = DOMAIN b /\ DOMAIN e = DOMAIN b
  BY <1>1, EachOf
<1>3. ASSUME NEW k \in DOMAIN b
      PROVE  /\ through("resultBlock", b[k]) = <<b[k]>>
             /\ through("block", b[k]) = <<c[k]>>
             /\ through("readUser", b[k]) = <<e[k]>>
  <2>1. resultBlock(b[k]) = <<b[k]>> /\ decodeAnthropicBlock(b[k]) = <<c[k]>>
    BY <1>1 DEF resultBlock, decodeAnthropicBlock
  <2>2. readPart("user", b[k]) = <<e[k]>>
    BY <1>1, PartReads
  <2> QED  BY <2>1, <2>2, ThroughRequestPart, ThroughKinds, Zenon
<1>4. /\ Joins!joinsTo("resultBlock", b, b) /\ Joins!joinsTo("block", b, c)
      /\ Joins!joinsTo("readUser", b, e)
  BY <1>2, <1>3, SameSeqs, Joins!JoinsSingles
<1>5. tells(e, <<>>, <<>>, <<>>)
  <2>1. \A k \in DOMAIN e : \E d, n, x : e[k] = Entry("result", d, n, x)
    BY <1>1
  <2>2. "result" \in {"said", "shown", "call", "result"}
    OBVIOUS
  <2> QED  BY <1>2, <2>1, <2>2, OfOneKind
<1> QED  BY <1>4, <1>5 DEF resultBlocks

\* With a comment.
LEMMA ResultsAndText ==
  ASSUME NEW b, resultBlocks(b, <<>>), NEW p, p.type = "text", isSeq(p.text)
  PROVE  resultBlocks(b \o <<p>>, said("user", p.text))
<1>0. readBy("user") = "readUser" /\ "user" \in Sides /\ "text" \in TextTypes
  BY DEF readBy, Sides, TextTypes
<1>1. PICK found, c, e :
        /\ Joins!joinsTo("resultBlock", b, found) /\ found # <<>>
        /\ Joins!joinsTo("block", b, c)
        /\ Joins!joinsTo("readUser", b, e) /\ tells(e, <<>>, <<>>, <<>>)
  BY DEF resultBlocks
<1>t. PICK t : t = said("user", p.text)
  OBVIOUS
<1>q. PICK q : q = fromRaw(p)
  OBVIOUS
<1>2. resultBlock(p) = <<>> /\ decodeAnthropicBlock(p) = <<q>>
  BY <1>q DEF resultBlock, decodeAnthropicBlock
<1>3. /\ Joins!joinsTo("resultBlock", <<p>>, <<>>) /\ Joins!joinsTo("block", <<p>>, <<q>>)
  BY <1>2, ThroughRequestPart, ShortSeqs, SameSeqs, Joins!JoinsOne
<1>4. Joins!joinsTo("readUser", <<p>>, t)
  BY <1>0, <1>t, TextReads
<1>5. tells(t, t, <<>>, <<>>)
  BY <1>t, SaidTells
<1>6. tells(e \o t, <<>> \o t, <<>> \o <<>>, <<>> \o <<>>)
  BY <1>1, <1>5, TellsConcat
<1>7. isSeq(<<>>) /\ isSeq(t) /\ isSeq(found)
  BY <1>1, <1>5, TellsAnd, SameSeqs DEF Joins!joinsTo
<1>8. <<>> \o t = t /\ <<>> \o <<>> = <<>> /\ found \o <<>> = found
  BY <1>7, EmptyConcat
<1>9. /\ Joins!joinsTo("resultBlock", b \o <<p>>, found \o <<>>)
      /\ Joins!joinsTo("block", b \o <<p>>, c \o <<q>>)
      /\ Joins!joinsTo("readUser", b \o <<p>>, e \o t)
  BY <1>1, <1>3, <1>4, Joins!JoinsConcat
<1>10. tells(e \o t, t, <<>>, <<>>) /\ Joins!joinsTo("resultBlock", b \o <<p>>, found)
  BY <1>6, <1>8, <1>9
<1> QED  BY <1>1, <1>9, <1>10, <1>t, Zenon DEF resultBlocks
\* The client answers its open calls.
LEMMA ReplyReaches ==
  ASSUME dialect \in Dialects, isSeq(openCalls), openCalls # <<>>, NEW u \in Dialects,
         NEW form
  PROVE  reaches(dialect, u, reply(form))
<1>c. PICK calls : calls = openCalls
  OBVIOUS
<1>s. isSeq(calls) /\ calls # <<>>
  BY <1>c
<1>1. CASE dialect = "chat"
  <2>m. PICK ms : ms = [i \in DOMAIN calls |->
                          ChatMessage("tool", String(resultText(calls[i])), <<>>, calls[i])]
    OBVIOUS
  <2>1. reply(form) = ms
    BY <1>1, <1>c, <2>m DEF reply, each
  <2>2. isSeq(ms) /\ DOMAIN ms = DOMAIN calls
    BY <1>s, <2>m, EachOf
  <2>3. \A i \in DOMAIN ms : reaches("chat", u, <<ms[i]>>)
    BY <2>m, ChatResultReaches
  <2> QED  BY <1>1, <2>1, <2>2, <2>3, AllReach
<1>2. CASE dialect = "responses"
  <2>m. PICK ms : ms = [i \in DOMAIN calls |-> OutputItem(calls[i], resultText(calls[i]))]
    OBVIOUS
  <2>1. reply(form) = ms
    BY <1>2, <1>c, <2>m DEF reply, each
  <2>2. isSeq(ms) /\ DOMAIN ms = DOMAIN calls
    BY <1>s, <2>m, EachOf
  <2>3. \A i \in DOMAIN ms : reaches("responses", u, <<ms[i]>>)
    BY <2>m, ResponsesResultReaches
  <2> QED  BY <1>2, <2>1, <2>2, <2>3, AllReach
<1>3. CASE dialect = "anthropic"
  <2>r. PICK rs : rs = [i \in DOMAIN calls |-> Result(calls[i], resultText(calls[i]))]
    OBVIOUS
  <2>1. isSeq(rs) /\ DOMAIN rs = DOMAIN calls
    BY <1>s, <2>r, EachOf
  <2>2. \A i \in DOMAIN rs : rs[i].type = "tool_result"
    BY <2>r, PartFields DEF Result
  <2>3. rs # <<>>
    BY <1>s, <2>1
  <2>k. PICK comment : comment = IF form = "commented"
                                 THEN <<Part("text", <<piece(requests + 1, 1)>>, None)>>
                                 ELSE <<>>
    OBVIOUS
  <2>4. CASE form = "apart"
    <3>m. PICK ms : ms = [i \in DOMAIN rs |-> AnthropicMessage("user", List(<<rs[i]>>))]
      OBVIOUS
    <3>1. reply(form) = ms
      BY <1>3, <1>c, <2>r, <2>4, <3>m DEF reply, each
    <3>2. isSeq(ms) /\ DOMAIN ms = DOMAIN rs
      BY <2>1, <3>m, EachOf
    <3>3. ASSUME NEW i \in DOMAIN ms PROVE reaches("anthropic", u, <<ms[i]>>)
      <4>b. PICK b : b = <<rs[i]>>
        OBVIOUS
      <4>1. isSeq(b) /\ b # <<>> /\ \A k \in DOMAIN b : b[k].type = "tool_result"
        BY <2>2, <3>2, <4>b, ShortSeqs
      <4>2. reaches("anthropic", u, <<AnthropicMessage("user", List(b))>>)
        BY <4>1, ResultsAreBlocks, ResultBlocksReach
      <4> QED  BY <3>2, <3>m, <4>2, <4>b
    <3> QED  BY <1>3, <3>1, <3>2, <3>3, AllReach
  <2>5. CASE form # "apart"
    <3>1. reply(form) = <<AnthropicMessage("user", List(rs \o comment))>>
      BY <1>3, <1>c, <2>r, <2>k, <2>5 DEF reply, each
    <3>2. resultBlocks(rs, <<>>)
      BY <2>1, <2>2, <2>3, ResultsAreBlocks
    <3>3. \E s : resultBlocks(rs \o comment, s)
      <4>1. CASE form = "commented"
        <5>p. PICK p, t : p = Part("text", t, None) /\ t = <<piece(requests + 1, 1)>>
          OBVIOUS
        <5>1. p.type = "text" /\ isSeq(p.text) /\ comment = <<p>>
          BY <2>k, <4>1, <5>p, PartFields, ShortSeqs
        <5> QED  BY <3>2, <5>1, ResultsAndText
      <4>2. CASE form # "commented"
        <5>1. rs \o comment = rs
          BY <2>1, <2>k, <4>2, EmptyConcat
        <5> QED  BY <3>2, <5>1
      <4> QED  BY <4>1, <4>2
    <3> QED  BY <1>3, <3>1, <3>3, ResultBlocksReach
  <2> QED  BY <2>4, <2>5
<1> QED  BY <1>1, <1>2, <1>3 DEF Dialects
-----------------------------------------------------------------------------
(* What a client takes over of an answer into its history.                 *)

LEMMA ChatAnswerReaches ==
  ASSUME NEW u \in Dialects, NEW text, isSeq(text), NEW calls, isSeq(calls)
  PROVE  reaches("chat", u, <<ChatMessage("assistant", String(text), calls, None)>>)
<1>0. readBy("assistant") = "readAssistant" /\ "assistant" \in Sides
  BY DEF readBy, Sides
<1>s. PICK content : content = String(text)
  OBVIOUS
<1>m. PICK m : m = ChatMessage("assistant", content, calls, None)
  OBVIOUS
<1>1. m.role = "assistant" /\ m.content = content /\ m.calls = calls /\ m.callId = None
  BY <1>m, MessageFields
<1>r. PICK r : r = Part("text", text, None)
  OBVIOUS
<1>2. content.parts = <<r>> /\ r.type = "text" /\ r.text = text /\ r.type \in TextTypes
  BY <1>s, <1>r, PartFields DEF String, TextTypes
<1>3. PICK p : decodeGenericContent(content) = <<p>> /\ p.type = "text" /\ p.text = text
  BY <1>2, TextTakenOver
<1>t. p.type \in TextTypes
  BY <1>2, <1>3
<1>c. PICK c : c = <<p>> \o irCalls(calls)
  OBVIOUS
<1>4. speaks(c, text, calls) /\ inBlocks(c, text, calls)
  <2>1. speaks(<<p>>, text, <<>>) /\ inBlocks(<<p>>, text, <<>>)
    BY <1>3, <1>t, TextSpeaks
  <2>2. speaks(irCalls(calls), <<>>, calls) /\ inBlocks(irCalls(calls), <<>>, calls)
    BY CallsSpeak
  <2>3. text \o <<>> = text /\ <<>> \o calls = calls
    BY EmptyConcat
  <2>4. /\ speaks(c, text \o <<>>, <<>> \o calls)
        /\ inBlocks(c, text \o <<>>, <<>> \o calls)
    BY <1>c, <2>1, <2>2, ShortSeqs, SpeaksConcat, InBlocksConcat
  <2> QED  BY <2>3, <2>4
<1>i. PICK i : i = IRMessage("assistant", c, None)
  OBVIOUS
<1>5. through(from("chat"), m) = <<i>>
  <2>1. m.role \notin SystemRoles
    BY <1>1 DEF SystemRoles
  <2> QED  BY <1>1, <1>3, <1>c, <1>i, <2>1, FromChatMessage DEF from
<1>6. becomes(u, <<i>>, said("assistant", text), <<>>, readCalls(calls))
  BY <1>4, <1>i, IRMessageFields, AssistantBecomes
<1>7. tells(readMessage("chat", m), said("assistant", text), <<>>, readCalls(calls))
  <2>1. "assistant" \in {"user", "assistant"}
    OBVIOUS
  <2>2. readMessage("chat", m) = readContent("assistant", content) \o readCalls(calls)
    BY <1>m, <2>1, ChatMessageReads, Zenon
  <2>3. readContent("assistant", content) = said("assistant", text)
    BY <1>0, <1>s, StringReads
  <2> QED  BY <2>2, <2>3, SpokenThenCalled
<1>8. ~lostTo("chat", u, m) /\ "chat" \in Dialects
  BY DEF lostTo, Dialects
<1> QED  BY <1>5, <1>6, <1>7, <1>8, <1>m, <1>s, ShortSeqs, OneReaches

\* The items of a responses answer.
LEMMA CallItemReaches ==
  ASSUME NEW u \in Dialects, NEW id
  PROVE  reaches("responses", u, <<CallItem(id)>>)
<1>m. PICK m : m = CallItem(id)
  OBVIOUS
<1>1. m.type = "function_call" /\ m.id = id
  BY <1>m, MessageFields DEF CallItem
<1>n. PICK ids : ids = <<id>> /\ isSeq(ids)
  BY ShortSeqs
<1>i. PICK i : i = IRMessage("assistant", <<toolCall(id)>>, None)
  OBVIOUS
<1>2. through(from("responses"), m) = <<i>>
  BY <1>1, <1>i, ItemTaken, ThroughMessage DEF from
<1>3. i.role = "assistant" /\ i.content = irCalls(ids)
  <2>1. [k \in DOMAIN <<id>> |-> toolCall(<<id>>[k])] = <<toolCall(id)>>
    OBVIOUS
  <2>2. irCalls(ids) = <<toolCall(id)>>
    BY <1>n, <2>1, Zenon DEF irCalls, each
  <2> QED  BY <1>i, <2>2, IRMessageFields
<1>4. becomes(u, <<i>>, <<>>, <<>>, readCalls(ids))
  <2>1. speaks(i.content, <<>>, ids) /\ inBlocks(i.content, <<>>, ids)
    BY <1>3, <1>n, CallsSpeak
  <2>2. becomes(u, <<i>>, said("assistant", <<>>), <<>>, readCalls(ids))
    BY <1>3, <2>1, AssistantBecomes
  <2> QED  BY <2>2, SaidNothing
<1>5. tells(readMessage("responses", m), <<>>, <<>>, readCalls(ids))
  <2>1. readItem(m) = readCalls(ids)
    BY <1>1, <1>n DEF readItem
  <2>2. readMessage("responses", m) = readCalls(ids)
    BY <2>1 DEF readMessage
  <2> QED  BY <1>n, <2>2, CallsTell
<1>6. ~lostTo("responses", u, m) /\ "responses" \in Dialects
  BY <1>1, LostItems DEF Dialects
<1> QED  BY <1>2, <1>4, <1>5, <1>6, <1>m, ShortSeqs, OneReaches

LEMMA ReasoningReaches ==
  ASSUME NEW u \in Dialects, NEW text
  PROVE  reaches("responses", u, <<ReasoningItem(text)>>)
<1>m. PICK m : m = ReasoningItem(text)
  OBVIOUS
<1>1. m.type = "reasoning"
  BY <1>m, MessageFields DEF ReasoningItem
<1>2. through(from("responses"), m) = <<>>
  BY <1>1, ItemTaken, ThroughMessage DEF from
<1>3. tells(readMessage("responses", m), <<>>, <<>>, <<>>)
  <2>1. readItem(m) = <<>>
    BY <1>1 DEF readItem
  <2> QED  BY <2>1, NothingTells DEF readMessage
<1>4. ~lostTo("responses", u, m) /\ "responses" \in Dialects
  BY <1>1, LostItems DEF Dialects
<1> QED  BY <1>2, <1>3, <1>4, <1>m, ShortSeqs, NothingReads, OneReaches

\* For Anthropic its text is lost.
LEMMA TextItemReaches ==
  ASSUME NEW u \in Dialects, NEW text, isSeq(text)
  PROVE  reaches("responses", u,
           <<MessageItem("assistant", List(<<Part("output_text", text, None)>>))>>)
<1>0. readBy("assistant") = "readAssistant" /\ "assistant" \in Sides
  BY DEF readBy, Sides
<1>r. PICK r : r = Part("output_text", text, None)
  OBVIOUS
<1>c. PICK content : content = List(<<r>>)
  OBVIOUS
<1>m. PICK m : m = MessageItem("assistant", content)
  OBVIOUS
<1>1. /\ m.type = "message" /\ m.role = "assistant" /\ m.content = content
      /\ content.list = TRUE /\ content.parts = <<r>>
      /\ r.type = "output_text" /\ r.text = text /\ r.type \in TextTypes
  BY <1>r, <1>c, <1>m, MessageFields, PartFields DEF MessageItem, TextTypes
<1>2. PICK p : /\ decodeGenericContent(content) = <<p>> /\ p.type = "output_text"
               /\ p.text = text
  BY <1>1, TextTakenOver
<1>i. PICK i : i = IRMessage("assistant", <<p>>, None)
  OBVIOUS
<1>3. through(from("responses"), m) = <<i>>
  <2>1. listContent(content) = <<p>>
    BY <1>1, <1>2 DEF listContent
  <2>2. decodeResponsesItem(m) = <<i>>
    BY <1>1, <1>i, <2>1, ItemTaken
  <2> QED  BY <2>2, ThroughMessage DEF from
<1>4. i.role = "assistant" /\ i.content = <<p>>
  BY <1>i, IRMessageFields
<1>5. tells(readMessage("responses", m), said("assistant", text), <<>>, <<>>)
  <2>1. Joins!joinsTo("readAssistant", content.parts, said("assistant", text))
    BY <1>0, <1>1, TextReads
  <2>2. readContent("assistant", content) = said("assistant", text)
    BY <1>0, <2>1, ContentReads
  <2>3. readMessage("responses", m) = said("assistant", text)
    BY <1>m, <2>2, MessageItemReads DEF MessageItem
  <2> QED  BY <2>3, SaidTells
<1>6. "responses" \in Dialects /\ (lostTo("responses", u, m) <=> u = "anthropic")
  BY <1>1, LostItems DEF Dialects
<1>7. CASE u # "anthropic"
  <2>1. p.type \in TextTypes
    BY <1>1, <1>2
  <2>2. speaks(<<p>>, text, <<>>)
    BY <1>2, <2>1, TextSpeaks
  <2>3. becomes(u, <<i>>, said("assistant", text), <<>>, readCalls(<<>>))
    BY <1>4, <1>7, <2>2, AssistantBecomes
  <2>4. becomes(u, <<i>>, said("assistant", text), <<>>, <<>>)
    BY <2>3, NoCallsRead
  <2> QED  BY <1>3, <1>5, <1>6, <1>7, <1>c, <1>m, <1>r, <2>4, ShortSeqs, OneReaches
<1>8. CASE u = "anthropic"
  <2>1. assistantPartOut(p) = <<>>
    BY <1>2 DEF assistantPartOut
  <2>2. Joins!joinsTo("assistantPart", <<p>>, <<>>)
    BY <2>1, ThroughRequestPart, ShortSeqs, SameSeqs, Joins!JoinsOne
  <2>3. tells(<<>>, said("assistant", <<>>), <<>>, readCalls(<<>>))
    BY NothingTells, SaidNothing, NoCallsRead
  <2>4. inBlocks(<<p>>, <<>>, <<>>)
    BY <2>2, <2>3, Joins!JoinsNothing DEF inBlocks
  <2>5. becomes("anthropic", <<i>>, said("assistant", <<>>), <<>>, readCalls(<<>>))
    BY <1>4, <2>4, AssistantBecomesAnthropic
  <2>6. becomes(u, <<i>>, <<>>, <<>>, <<>>)
    BY <1>8, <2>5, SaidNothing, NoCallsRead
  <2> QED  BY <1>3, <1>5, <1>6, <1>8, <1>c, <1>m, <1>r, <2>6, ShortSeqs, OneReaches
<1> QED  BY <1>7, <1>8

LEMMA OutputReaches ==
  ASSUME NEW u \in Dialects, NEW thinking, NEW text, isSeq(text), NEW calls, isSeq(calls),
         NEW output, bothOrders(output, itemsOfText(text), itemsOfThinking(thinking),
                                callItems(calls))
  PROVE  reaches("responses", u, output)
<1>1. reaches("responses", u, itemsOfText(text))
  BY TextItemReaches, NothingReaches DEF itemsOfText
<1>2. reaches("responses", u, itemsOfThinking(thinking))
  BY ReasoningReaches, NothingReaches DEF itemsOfThinking
<1>3. reaches("responses", u, callItems(calls))
  <2>s. PICK s : s = callItems(calls) /\ isSeq(s)
    BY CallItemsReadAsCalls
  <2>1. s = [i \in DOMAIN calls |-> CallItem(calls[i])]
    BY <2>s DEF callItems, each
  <2>2. \A i \in DOMAIN s : reaches("responses", u, <<s[i]>>)
    BY <2>1, CallItemReaches
  <2> QED  BY <2>s, <2>2, AllReach
<1> QED  BY <1>1, <1>2, <1>3, ReachesConcat DEF bothOrders

\* The blocks of an Anthropic answer.
LEMMA TextBlock ==
  ASSUME NEW text, isSeq(text)
  PROVE  ofBlocks(blocksOfText(text), text, <<>>)
<1>0. readBy("assistant") = "readAssistant" /\ "assistant" \in Sides /\ "text" \in TextTypes
  BY DEF readBy, Sides, TextTypes
<1>1. CASE text = <<>>
  <2>1. blocksOfText(text) = <<>>
    BY <1>1 DEF blocksOfText
  <2>2. tells(<<>>, said("assistant", <<>>), <<>>, readCalls(<<>>))
    BY NothingTells, SaidNothing, NoCallsRead
  <2> QED  BY <1>1, <2>1, <2>2, NothingSpeaks, ShortSeqs, Joins!JoinsNothing DEF ofBlocks
<1>2. CASE text # <<>>
  <2>p. PICK p : p = Part("text", text, None)
    OBVIOUS
  <2>b. PICK b : b = <<p>>
    OBVIOUS
  <2>1. p.type = "text" /\ p.text = text /\ blocksOfText(text) = b
    BY <1>2, <2>p, <2>b, PartFields DEF blocksOfText
  <2>q. PICK q : q = fromRaw(p)
    OBVIOUS
  <2>2. q.type = "text" /\ q.text = text
    <3>1. normalizeIRPartType("text") = "text"
      BY DEF normalizeIRPartType, ImageTypes, FileTypes
    <3> QED  BY <2>1, <2>q, <3>1 DEF fromRaw, IRPart
  <2>3. resultBlock(p) = <<>> /\ decodeAnthropicBlock(p) = <<q>>
    BY <2>1, <2>q DEF resultBlock, decodeAnthropicBlock
  <2>4. Joins!joinsTo("resultBlock", b, <<>>) /\ Joins!joinsTo("block", b, <<q>>)
    BY <2>3, <2>b, ThroughRequestPart, ShortSeqs, SameSeqs, Joins!JoinsOne
  <2>5. speaks(<<q>>, text, <<>>) /\ inBlocks(<<q>>, text, <<>>)
    BY <1>0, <2>2, TextSpeaks
  <2>6. Joins!joinsTo("readAssistant", b, said("assistant", text))
    BY <1>0, <2>1, <2>b, TextReads
  <2>7. tells(said("assistant", text), said("assistant", text), <<>>, readCalls(<<>>))
    BY SaidTells, NoCallsRead
  <2>8. isSeq(b) /\ \A k \in DOMAIN b : b[k].type # "tool_result"
    BY <2>1, <2>b, ShortSeqs
  <2> QED  BY <2>1, <2>4, <2>5, <2>6, <2>7, <2>8, Zenon DEF ofBlocks
<1> QED  BY <1>1, <1>2

LEMMA ThinkingBlock ==
  ASSUME NEW thinking
  PROVE  ofBlocks(blocksOfThinking(thinking), <<>>, <<>>)
<1>0. readBy("assistant") = "readAssistant" /\ "assistant" \in Sides
  BY DEF readBy, Sides
<1>t. tells(<<>>, said("assistant", <<>>), <<>>, readCalls(<<>>))
  BY NothingTells, SaidNothing, NoCallsRead
<1>1. CASE thinking = <<>>
  <2>1. blocksOfThinking(thinking) = <<>>
    BY <1>1 DEF blocksOfThinking
  <2> QED  BY <1>t, <2>1, NothingSpeaks, ShortSeqs, Joins!JoinsNothing DEF ofBlocks
<1>2. CASE thinking # <<>>
  <2>p. PICK p : p = Thinking(thinking)
    OBVIOUS
  <2>b. PICK b : b = <<p>>
    OBVIOUS
  <2>1. p.type = "thinking" /\ blocksOfThinking(thinking) = b
    BY <1>2, <2>p, <2>b, PartFields DEF blocksOfThinking, Thinking
  <2>2. resultBlock(p) = <<>> /\ decodeAnthropicBlock(p) = <<>>
    BY <2>1 DEF resultBlock, decodeAnthropicBlock
  <2>3. through("readAssistant", p) = <<>>
    BY <2>1, PartReads, ThroughKinds
  <2>4. /\ Joins!joinsTo("resultBlock", b, <<>>) /\ Joins!joinsTo("block", b, <<>>)
        /\ Joins!joinsTo("readAssistant", b, <<>>)
    BY <2>2, <2>3, <2>b, ThroughRequestPart, ShortSeqs, SameSeqs, Joins!JoinsOne
  <2>5. isSeq(b) /\ \A k \in DOMAIN b : b[k].type # "tool_result"
    BY <2>1, <2>b, ShortSeqs
  <2> QED  BY <1>t, <2>1, <2>4, <2>5, NothingSpeaks, Zenon DEF ofBlocks
<1> QED  BY <1>1, <1>2

LEMMA CallBlocks ==
  ASSUME NEW calls, isSeq(calls)
  PROVE  ofBlocks(toolUses(calls), <<>>, calls)
<1>u. PICK uses, irs : uses = toolUses(calls) /\ irs = irCalls(calls)
  OBVIOUS
<1>1. /\ uses = [i \in DOMAIN calls |-> ToolUse(calls[i])]
      /\ irs = [i \in DOMAIN calls |-> toolCall(calls[i])]
  BY <1>u DEF toolUses, irCalls, each
<1>2. /\ isSeq(uses) /\ isSeq(irs) /\ DOMAIN uses = DOMAIN calls /\ DOMAIN irs = DOMAIN calls
  BY <1>1, EachOf
<1>3. ASSUME NEW i \in DOMAIN uses
      PROVE  /\ uses[i].type = "tool_use" /\ uses[i].id = calls[i]
             /\ irs[i] = toolCall(calls[i])
  BY <1>1, <1>2, PartFields DEF ToolUse
<1>4. ASSUME NEW i \in DOMAIN uses
      PROVE  /\ through("block", uses[i]) = <<irs[i]>>
             /\ through("resultBlock", uses[i]) = <<>>
  <2>1. resultBlock(uses[i]) = <<>> /\ decodeAnthropicBlock(uses[i]) = <<irs[i]>>
    BY <1>3 DEF resultBlock, decodeAnthropicBlock
  <2> QED  BY <2>1, ThroughRequestPart, Zenon
<1>5. /\ Joins!joinsTo("block", uses, irs) /\ Joins!joinsTo("resultBlock", uses, <<>>)
  BY <1>2, <1>4, SameSeqs, Joins!JoinsSingles, Joins!JoinsNone
<1>6. speaks(irs, <<>>, calls) /\ inBlocks(irs, <<>>, calls)
  BY <1>u, CallsSpeak
<1>7. Joins!joinsTo("readAssistant", uses, readCalls(calls))
  BY <1>u, ToolUsesReadAsCalls
<1>8. tells(readCalls(calls), said("assistant", <<>>), <<>>, readCalls(calls))
  BY CallsTell, SaidNothing
<1>9. \A k \in DOMAIN uses : uses[k].type # "tool_result"
  BY <1>3
<1> QED  BY <1>2, <1>5, <1>6, <1>7, <1>8, <1>9, <1>u, Zenon DEF ofBlocks

LEMMA AnthropicAnswerReaches ==
  ASSUME NEW u \in Dialects, NEW b, NEW t, NEW ids, ofBlocks(b, t, ids)
  PROVE  reaches("anthropic", u, <<AnthropicMessage("assistant", List(b))>>)
<1>0. readBy("assistant") = "readAssistant" /\ "assistant" \in Sides
  BY DEF readBy, Sides
<1>c. PICK content : content = List(b)
  OBVIOUS
<1>m. PICK m : m = AnthropicMessage("assistant", content)
  OBVIOUS
<1>1. /\ m.role = "assistant" /\ m.content = content
      /\ content.list = TRUE /\ content.parts = b
  BY <1>c, <1>m, MessageFields
<1>2. PICK c, e : /\ Joins!joinsTo("block", b, c)
                  /\ speaks(c, t, ids) /\ inBlocks(c, t, ids)
                  /\ Joins!joinsTo("readAssistant", b, e)
                  /\ tells(e, said("assistant", t), <<>>, readCalls(ids))
  BY DEF ofBlocks
<1>i. PICK i : i = IRMessage("assistant", c, None)
  OBVIOUS
<1>3. through(from("anthropic"), m) = <<i>>
  <2>1. blocksOf(m.content) = b
    BY <1>1 DEF blocksOf
  <2>2. Joins!joinsTo("resultBlock", b, <<>>)
    BY DEF ofBlocks
  <2>3. decodeAnthropicMessage(m) = i
    BY <1>1, <1>2, <1>i, <2>1, <2>2, AnthropicTaken
  <2> QED  BY <2>3, ThroughMessage DEF from
<1>4. becomes(u, <<i>>, said("assistant", t), <<>>, readCalls(ids))
  BY <1>2, <1>i, IRMessageFields, AssistantBecomes
<1>5. tells(readMessage("anthropic", m), said("assistant", t), <<>>, readCalls(ids))
  <2>1. readContent("assistant", content) = e
    BY <1>0, <1>1, <1>2, ContentReads
  <2> QED  BY <1>2, <1>m, <2>1, AnthropicMessageReads
<1>6. ~lostTo("anthropic", u, m) /\ "anthropic" \in Dialects
  <2>1. ~lostTo("anthropic", u, m) <=>
          m.content.list /\ \A k \in DOMAIN m.content.parts :
                              m.content.parts[k].type # "tool_result"
    BY DEF lostTo
  <2> QED  BY <1>1, <2>1 DEF ofBlocks, Dialects
<1> QED  BY <1>3, <1>4, <1>5, <1>6, <1>c, <1>m, ShortSeqs, OneReaches

LEMMA ContentReaches ==
  ASSUME NEW u \in Dialects, NEW thinking, NEW text, isSeq(text), NEW calls, isSeq(calls),
         NEW content, contentTells(content, thinking, text, calls)
  PROVE  reaches("anthropic", u, <<AnthropicMessage("assistant", List(content))>>)
<1>1. /\ ofBlocks(blocksOfText(text), text, <<>>)
      /\ ofBlocks(blocksOfThinking(thinking), <<>>, <<>>)
      /\ ofBlocks(toolUses(calls), <<>>, calls)
  BY TextBlock, ThinkingBlock, CallBlocks
<1>2. \E t, ids : ofBlocks(content, t, ids)
  <2>k. PICK x, y, z : /\ x = blocksOfText(text) /\ y = blocksOfThinking(thinking)
                       /\ z = toolUses(calls)
    OBVIOUS
  <2>1. /\ ofBlocks(x \o y, text \o <<>>, <<>> \o <<>>)
        /\ ofBlocks(y \o x, <<>> \o text, <<>> \o <<>>)
    BY <1>1, <2>k, OfBlocksConcat
  <2>2. /\ ofBlocks((x \o y) \o z, (text \o <<>>) \o <<>>, (<<>> \o <<>>) \o calls)
        /\ ofBlocks((y \o x) \o z, (<<>> \o text) \o <<>>, (<<>> \o <<>>) \o calls)
    BY <1>1, <2>1, <2>k, OfBlocksConcat
  <2>3. content = (x \o y) \o z \/ content = (y \o x) \o z
    BY <2>k, Zenon DEF contentTells, bothOrders
  <2> QED  BY <2>2, <2>3, Zenon
<1> QED  BY <1>2, AnthropicAnswerReaches

LEMMA AdoptedReaches ==
  ASSUME dialect \in Dialects, NEW u \in Dialects, formed(dialect, got.answer)
  PROVE  reaches(dialect, u, adopted)
<1>x. PICK x : x = got.answer
  OBVIOUS
<1>1. PICK thinking, text, calls :
        /\ isSeq(thinking) /\ isSeq(text) /\ isSeq(calls)
        /\ dialect = "chat" => \E finish : x.choices = <<Choice(text, thinking, calls, finish)>>
        /\ dialect = "responses" => bothOrders(x.output, itemsOfText(text),
                                               itemsOfThinking(thinking), callItems(calls))
        /\ dialect = "anthropic" => contentTells(x.content, thinking, text, calls)
  BY <1>x, Zenon DEF formed
<1>2. CASE dialect = "chat"
  <2>1. PICK finish : x.choices = <<Choice(text, thinking, calls, finish)>>
    BY <1>1, <1>2
  <2>2. x.choices[1].text = text /\ x.choices[1].calls = calls
    BY <2>1 DEF Choice
  <2>3. adopted = <<ChatMessage("assistant", String(text), calls, None)>>
    BY <1>2, <1>x, <2>2 DEF adopted
  <2> QED  BY <1>1, <1>2, <2>3, ChatAnswerReaches
<1>3. CASE dialect = "responses"
  <2>1. adopted = x.output
    BY <1>3, <1>x DEF adopted
  <2> QED  BY <1>1, <1>3, <2>1, OutputReaches
<1>4. CASE dialect = "anthropic"
  <2>1. adopted = <<AnthropicMessage("assistant", List(x.content))>>
    BY <1>4, <1>x DEF adopted
  <2> QED  BY <1>1, <1>4, <2>1, ContentReaches
<1> QED  BY <1>2, <1>3, <1>4 DEF Dialects

\* The calls of an answer.
LEMMA FormedCalls ==
  ASSUME NEW d \in Dialects, NEW x, formed(d, x)
  PROVE  isSeq(readAnswer(d, x).calls)
<1>1. PICK thinking, text, calls :
        /\ isSeq(thinking) /\ isSeq(text) /\ isSeq(calls)
        /\ d = "chat" => \E finish : x.choices = <<Choice(text, thinking, calls, finish)>>
        /\ d = "responses" => bothOrders(x.output, itemsOfText(text),
                                         itemsOfThinking(thinking), callItems(calls))
        /\ d = "anthropic" => contentTells(x.content, thinking, text, calls)
  BY Zenon DEF formed
<1>2. readAnswer(d, x) = Answer(thinking, text, calls)
  <2>1. CASE d = "chat"
    <3>1. PICK finish : x.choices = <<Choice(text, thinking, calls, finish)>>
      BY <1>1, <2>1
    <3> QED  BY <2>1, <3>1 DEF readAnswer, Choice
  <2>2. CASE d = "responses"
    <3>1. readOutput(x.output) = Answer(thinking, text, calls)
      BY <1>1, <2>2, ItemsAreRead
    <3> QED  BY <2>2, <3>1 DEF readAnswer
  <2>3. CASE d = "anthropic"
    <3>1. readBlocks(x.content) = Answer(thinking, text, calls)
      BY <1>1, <2>3, BlocksAreRead DEF contentTells
    <3> QED  BY <2>3, <3>1 DEF readAnswer
  <2> QED  BY <2>1, <2>2, <2>3 DEF Dialects
<1>3. Answer(thinking, text, calls).calls = calls
  BY DEF Answer
<1> QED  BY <1>1, <1>2, <1>3
-----------------------------------------------------------------------------
(* The conversation's history reaches whoever is sent it.                  *)

\* An answer the client can read has the form its dialect gives it.
FormedInv ==
  phase = "received" /\ got.form = "json" /\ got.dialect = dialect =>
    formed(dialect, got.answer)

\* What cannot be read is handed on as it is.
LEMMA UnreadableHandedOn ==
  ASSUME NEW d, NEW u, NEW b, b.form # "json", NEW g, g = writeProtocolResponse(d, u, b).got
  PROVE  g.form # "json"
<1>1. \A x, y : delivered(x, y).got = x
  BY DEF delivered
<1>2. Empty.form # "json"
  BY BodiesDiffer
<1>3. \A x, y : convertedNonStreamResponse(x, y, b) = delivered(b, Plain(b))
  BY DEF convertedNonStreamResponse
<1>4. \/ writeProtocolResponse(d, u, b) = delivered(Empty, NoBody)
      \/ writeProtocolResponse(d, u, b) = delivered(b, b)
      \/ writeProtocolResponse(d, u, b) = delivered(b, Plain(b))
  BY <1>3 DEF writeProtocolResponse, passthroughNonStreamResponse,
              handleNonStreamResponse, handleResponsesNonStreamResponse
<1>5. g = Empty \/ g = b
  BY <1>1, <1>4
<1> QED  BY <1>2, <1>5

LEMMA NextFormed ==
  ConversationTypeOK /\ FormedInv /\ [Next]_vars => FormedInv'
<1> SUFFICES ASSUME ConversationTypeOK, FormedInv, [Next]_vars PROVE FormedInv'
  OBVIOUS
<1>1. ASSUME NEW a \in Answers, NEW gzip \in BOOLEAN, answer(a, gzip)
      PROVE  FormedInv'
  <2>1. PICK b : b = Body("json", gzip, sent.upstream, answered(sent.upstream, a))
    OBVIOUS
  <2>2. PICK m : m = meaning(a)
    OBVIOUS
  <2>3. PICK result : result = writeProtocolResponse(dialect, sent.upstream, b)
    OBVIOUS
  <2>g. PICK g : g = result.got
    OBVIOUS
  <2>4. phase = "sent" /\ got' = g /\ dialect' = dialect
    BY <1>1, <2>1, <2>3, <2>g DEF answer, responds
  <2>5. dialect \in Dialects /\ sent.upstream \in Dialects /\ requests \in Nat
    BY <2>4, ConversationAssumption DEF ConversationTypeOK
  <2>6. means(m)
    BY <2>2, <2>5, MeaningMeans
  <2>7. tellsMeaning(sent.upstream, answered(sent.upstream, a), m)
    BY <2>2, <2>5, AnsweredTells
  <2>8. CASE dialect = "responses" /\ sent.upstream = "chat" /\ ~gzip
    <3>1. b.gzip = gzip /\ b.dialect = "chat" /\ b.form = "json"
      BY <2>1, <2>8 DEF Body
    <3>2. b # Empty
      BY <3>1, BodiesDiffer
    <3>3. result = delivered(b, b)
      BY <2>3, <2>8, <3>1, <3>2 DEF writeProtocolResponse, handleResponsesNonStreamResponse
    <3>4. g = b
      BY <2>g, <3>3 DEF delivered
    <3>5. got'.dialect # dialect'
      BY <2>4, <2>8, <3>1, <3>4
    <3> QED  BY <3>5 DEF FormedInv
  <2>9. CASE dialect = "responses" /\ sent.upstream = "chat" => gzip
    <3>1. kept(dialect, sent.upstream, m, g.answer)
      BY <2>1, <2>3, <2>g, <2>5, <2>6, <2>7, <2>9, DeliveredKept
    <3>2. formed(dialect, g.answer)
      BY <3>1, Zenon DEF kept, reads
    <3>3. formed(dialect', got'.answer)
      BY <2>4, <3>2
    <3> QED  BY <3>3 DEF FormedInv
  <2> QED  BY <2>8, <2>9
<1>2. ASSUME NEW b, NEW m, responds(b, m), b.form # "json"
      PROVE  FormedInv'
  <2>1. PICK g : g = writeProtocolResponse(dialect, sent.upstream, b).got
    OBVIOUS
  <2>2. got' = g
    BY <1>2, <2>1 DEF responds
  <2>3. got'.form # "json"
    BY <1>2, <2>1, <2>2, UnreadableHandedOn
  <2> QED  BY <2>3 DEF FormedInv
<1>3. ASSUME NEW gzip \in BOOLEAN, answerUnreadable(gzip)
      PROVE  FormedInv'
  <2>1. PICK d, x : responds(Body("malformed", gzip, d, x), NoAnswer)
    BY <1>3, Zenon DEF answerUnreadable
  <2>2. Body("malformed", gzip, d, x).form # "json"
    BY DEF Body
  <2> QED  BY <1>2, <2>1, <2>2
<1>4. CASE answerEmpty
  <2>1. responds(Empty, NoAnswer)
    BY <1>4 DEF answerEmpty
  <2> QED  BY <1>2, <2>1, BodiesDiffer
<1>5. ASSUME phase' # "received"
      PROVE  FormedInv'
  BY <1>5 DEF FormedInv
<1>6. ASSUME NEW form, ask(form) \/ answerCalls(form)
      PROVE  FormedInv'
  BY <1>5, <1>6 DEF ask, answerCalls, writes
<1>7. CASE reject \/ bodyBreaksOff \/ attemptFails \/ \E b \in Backends : send(b)
  BY <1>5, <1>7 DEF reject, bodyBreaksOff, attemptFails, send
<1>8. CASE UNCHANGED vars
  BY <1>8 DEF vars, FormedInv
<1> QED  BY <1>1, <1>3, <1>4, <1>6, <1>7, <1>8 DEF Next

\* The system's instructions as the client wrote them, and after them messages
\* that reach every backend.
firstMessages == IF dialect = "chat" THEN systemMessage(settings.system) ELSE <<>>
noneOfSystem(ms) == \A i \in DOMAIN ms : ms[i].role \notin SystemRoles
goesOn(d, ms) ==
  (d = "chat" => noneOfSystem(ms)) /\ \A u \in Dialects : reaches(d, u, ms)
toldOn(messages) == \E rest : messages = firstMessages \o rest /\ goesOn(dialect, rest)
HistoryInv ==
  written.system = firstWritten(dialect, settings).system /\ toldOn(written.messages)

LEMMA SystemMessageIsSeq ==
  \A form : form \in {"none", "string", "list"} => isSeq(systemMessage(form))
BY ShortSeqs, Zenon DEF systemMessage

LEMMA ReachesSeq == ASSUME NEW d, NEW u, NEW ms, reaches(d, u, ms) PROVE isSeq(ms)
BY SameSeqs DEF reaches, Joins!joinsTo, Joins!givesFrom

LEMMA GoesOnSeq == ASSUME NEW d, NEW ms, goesOn(d, ms) PROVE isSeq(ms)
BY ReachesSeq DEF goesOn, Dialects

LEMMA GoesOnConcat ==
  ASSUME NEW d, NEW ms, goesOn(d, ms), NEW ns, goesOn(d, ns)
  PROVE  goesOn(d, ms \o ns)
<1>1. isSeq(ms) /\ isSeq(ns)
  BY GoesOnSeq
<1>2. d = "chat" => noneOfSystem(ms \o ns)
  <2>1. PICK w : w = ms \o ns
    OBVIOUS
  <2>2. \A k \in DOMAIN w : \/ \E i \in DOMAIN ms : w[k] = ms[i]
                            \/ \E i \in DOMAIN ns : w[k] = ns[i]
    BY <1>1, <2>1, ConcatElements
  <2>3. d = "chat" => noneOfSystem(w)
    BY <2>2 DEF goesOn, noneOfSystem
  <2> QED  BY <2>1, <2>3
<1>3. \A u \in Dialects : reaches(d, u, ms \o ns)
  BY ReachesConcat DEF goesOn
<1> QED  BY <1>2, <1>3 DEF goesOn

LEMMA ToldOnMore ==
  ASSUME dialect \in Dialects, settings.system \in {"none", "string", "list"},
         NEW messages, toldOn(messages), NEW more,
         goesOn(dialect, more)
  PROVE  toldOn(messages \o more)
<1>1. PICK rest : messages = firstMessages \o rest /\ goesOn(dialect, rest)
  BY Zenon DEF toldOn
<1>2. goesOn(dialect, rest \o more)
  BY <1>1, GoesOnConcat
<1>3. isSeq(firstMessages) /\ isSeq(rest) /\ isSeq(more)
  BY <1>1, SystemMessageIsSeq, ShortSeqs, GoesOnSeq DEF firstMessages
<1>4. messages \o more = firstMessages \o (rest \o more)
  BY <1>1, <1>3, ConcatTwice
<1> QED  BY <1>2, <1>4, Zenon DEF toldOn

LEMMA InitHistory == Init => HistoryInv
<1> SUFFICES ASSUME Init PROVE HistoryInv
  OBVIOUS
<1>1. dialect \in Dialects /\ written = firstWritten(dialect, settings)
      /\ settings.system \in {"none", "string", "list"}
  BY ConversationAssumption DEF Init
<1>2. written.messages = firstMessages
  BY <1>1 DEF firstWritten, firstMessages
<1>3. firstMessages \o <<>> = firstMessages
  BY <1>1, SystemMessageIsSeq, ShortSeqs, EmptyConcat DEF firstMessages
<1>4. goesOn(dialect, <<>>)
  BY NothingReaches DEF goesOn, noneOfSystem
<1>5. toldOn(written.messages)
  BY <1>2, <1>3, <1>4, Zenon DEF toldOn
<1> QED  BY <1>1, <1>5 DEF HistoryInv

\* What the client adds to its history.
LEMMA QuestionGoesOn ==
  ASSUME dialect \in Dialects, NEW form \in AskForms
  PROVE  goesOn(dialect, <<question(form)>>)
<1>1. ASSUME dialect = "chat" PROVE noneOfSystem(<<question(form)>>)
  <2>1. PICK content : question(form) = ChatMessage("user", content, <<>>, None)
    BY <1>1 DEF question
  <2>2. question(form).role = "user"
    BY <2>1, MessageFields
  <2> QED  BY <2>2 DEF noneOfSystem, SystemRoles
<1> QED  BY <1>1, QuestionReaches DEF goesOn

LEMMA ReplyGoesOn ==
  ASSUME dialect \in Dialects, isSeq(openCalls), openCalls # <<>>, NEW form
  PROVE  goesOn(dialect, reply(form))
<1>1. ASSUME dialect = "chat" PROVE noneOfSystem(reply(form))
  <2>1. reply(form) = [i \in DOMAIN openCalls |->
                         ChatMessage("tool", String(resultText(openCalls[i])), <<>>,
                                     openCalls[i])]
    BY <1>1 DEF reply, each
  <2>2. ASSUME NEW i \in DOMAIN reply(form) PROVE reply(form)[i].role = "tool"
    BY <2>1, MessageFields
  <2> QED  BY <2>2 DEF noneOfSystem, SystemRoles
<1> QED  BY <1>1, ReplyReaches DEF goesOn

LEMMA AdoptedGoesOn ==
  ASSUME dialect \in Dialects, formed(dialect, got.answer)
  PROVE  goesOn(dialect, adopted)
<1>1. ASSUME dialect = "chat" PROVE noneOfSystem(adopted)
  <2>1. PICK m : adopted = <<m>> /\ \E content, calls :
                   m = ChatMessage("assistant", content, calls, None)
    BY <1>1 DEF adopted
  <2>2. m.role = "assistant"
    BY <2>1, MessageFields
  <2> QED  BY <2>1, <2>2 DEF noneOfSystem, SystemRoles
<1> QED  BY <1>1, AdoptedReaches DEF goesOn

LEMMA HistoryIsTold ==
  ASSUME ConversationTypeOK, HistoryInv, FormedInv, canWrite
  PROVE  /\ dialect \in Dialects /\ settings.system \in {"none", "string", "list"}
         /\ toldOn(history) /\ isSeq(openCalls)
<1>1. dialect \in Dialects /\ settings.system \in {"none", "string", "list"}
  BY ConversationAssumption DEF ConversationTypeOK
<1>2. CASE phase = "writing"
  <2>1. history = written.messages /\ openCalls = <<>>
    BY <1>2 DEF history, openCalls
  <2> QED  BY <1>1, <2>1, ShortSeqs DEF HistoryInv
<1>3. CASE phase # "writing"
  <2>1. phase = "received" /\ formed(dialect, got.answer)
    BY <1>3 DEF canWrite, FormedInv
  <2>2. goesOn(dialect, adopted)
    BY <1>1, <2>1, AdoptedGoesOn
  <2>3. history = written.messages \o adopted
    BY <1>3 DEF history
  <2>4. toldOn(history)
    BY <1>1, <2>2, <2>3, ToldOnMore DEF HistoryInv
  <2>5. isSeq(openCalls)
    BY <1>1, <2>1, FormedCalls DEF openCalls
  <2> QED  BY <1>1, <2>4, <2>5
<1> QED  BY <1>2, <1>3

LEMMA WritesToldOn ==
  ASSUME RequestInv, HistoryInv, NEW messages, writes(messages), toldOn(messages)
  PROVE  HistoryInv'
<1>1. /\ written' = [written EXCEPT !.messages = messages]
      /\ dialect' = dialect /\ settings' = settings
  BY DEF writes
<1>2. written'.system = written.system /\ written'.messages = messages
  BY <1>1 DEF RequestInv, isRequest, RequestFields
<1>3. toldOn(messages)'
  BY <1>1, Zenon DEF toldOn, firstMessages
<1> QED  BY <1>1, <1>2, <1>3 DEF HistoryInv, toldOn, firstMessages

LEMMA NextHistory ==
  ConversationInv /\ FormedInv /\ HistoryInv /\ [Next]_vars => HistoryInv'
<1> SUFFICES ASSUME ConversationInv, FormedInv, HistoryInv, [Next]_vars PROVE HistoryInv'
  OBVIOUS
<1>0. ConversationTypeOK /\ RequestInv
  BY DEF ConversationInv
<1>1. ASSUME NEW form \in AskForms, ask(form)
      PROVE  HistoryInv'
  <2>1. PICK messages : messages = Append(history, question(form))
    OBVIOUS
  <2>2. canWrite /\ writes(messages)
    BY <1>1, <2>1 DEF ask
  <2>3. /\ dialect \in Dialects /\ settings.system \in {"none", "string", "list"}
        /\ toldOn(history)
    BY <1>0, <2>2, HistoryIsTold
  <2>4. isSeq(history)
    <3>1. PICK rest : history = firstMessages \o rest /\ goesOn(dialect, rest)
      BY <2>3 DEF toldOn
    <3>2. isSeq(rest) /\ isSeq(firstMessages)
      BY <2>3, <3>1, GoesOnSeq, SystemMessageIsSeq, ShortSeqs DEF firstMessages
    <3> QED  BY <3>1, <3>2, ConcatElements
  <2>5. messages = history \o <<question(form)>>
    <3>1. PICK S : history \in Seq(S)
      BY <2>4 DEF isSeq
    <3>2. history \in Seq(S \union {question(form)})
      BY <3>1
    <3> QED  BY <2>1, <3>2
  <2>6. toldOn(messages)
    BY <2>3, <2>5, QuestionGoesOn, ToldOnMore
  <2> QED  BY <1>0, <2>2, <2>6, WritesToldOn
<1>2. ASSUME NEW form \in ReplyForms, answerCalls(form)
      PROVE  HistoryInv'
  <2>1. PICK messages : messages = history \o reply(form)
    OBVIOUS
  <2>2. canWrite /\ writes(messages) /\ openCalls # <<>>
    BY <1>2, <2>1 DEF answerCalls
  <2>3. /\ dialect \in Dialects /\ settings.system \in {"none", "string", "list"}
        /\ toldOn(history) /\ isSeq(openCalls)
    BY <1>0, <2>2, HistoryIsTold
  <2>4. toldOn(messages)
    BY <2>1, <2>2, <2>3, ReplyGoesOn, ToldOnMore
  <2> QED  BY <1>0, <2>2, <2>4, WritesToldOn
<1>3. ASSUME UNCHANGED <<dialect, settings, written>>
      PROVE  HistoryInv'
  BY <1>3 DEF HistoryInv, toldOn, firstMessages
<1>4. CASE reject \/ bodyBreaksOff \/ attemptFails \/ \E b \in Backends : send(b)
  BY <1>3, <1>4 DEF reject, bodyBreaksOff, attemptFails, send
<1>5. ASSUME NEW b, NEW m, responds(b, m)
      PROVE  HistoryInv'
  BY <1>3, <1>5 DEF responds
<1>6. CASE \E a \in Answers, gzip \in BOOLEAN : answer(a, gzip)
  BY <1>5, <1>6 DEF answer
<1>7. CASE answerEmpty \/ \E gzip \in BOOLEAN : answerUnreadable(gzip)
  BY <1>5, <1>7, Zenon DEF answerEmpty, answerUnreadable
<1>8. CASE UNCHANGED vars
  BY <1>3, <1>8 DEF vars
<1> QED  BY <1>1, <1>2, <1>4, <1>6, <1>7, <1>8 DEF Next
-----------------------------------------------------------------------------
(* What a request says, shows and calls.                                   *)

LEMMA KindsTold ==
  ASSUME NEW e, NEW s, NEW h, NEW c, tells(e, s, h, c)
  PROVE  /\ ofKinds(e, {"said"}) = s /\ ofKinds(e, {"shown"}) = h
         /\ ofKinds(e, {"call"}) = c
<1>1. ASSUME NEW name, NEW kind, \A x : through(name, x) = ofKind(kind, x)
      PROVE  ofKinds(e, {kind}) = Joins!join(name, e)
  <2>1. [i \in DOMAIN e |-> ofKind(kind, e[i])] = [i \in DOMAIN e |-> through(name, e[i])]
    BY <1>1, Zenon
  <2> QED  BY <2>1, JoinOfEach, Zenon DEF ofKinds, chosen, joined, each, ofKind
<1>2. /\ ofKinds(e, {"said"}) = Joins!join("said", e)
      /\ ofKinds(e, {"shown"}) = Joins!join("shown", e)
      /\ ofKinds(e, {"call"}) = Joins!join("called", e)
  BY <1>1, ThroughKinds
<1> QED  BY <1>2 DEF tells, Joins!joinsTo

LEMMA MessagesRead ==
  ASSUME NEW d \in Dialects, NEW ms
  PROVE  joined(ms, LAMBDA m : readMessage(d, m)) = Joins!join(reading(d), ms)
<1>1. [i \in DOMAIN ms |-> readMessage(d, ms[i])]
        = [i \in DOMAIN ms |-> through(reading(d), ms[i])]
  BY ThroughReading, Zenon
<1> QED  BY <1>1, JoinOfEach, Zenon DEF joined, each

LEMMA RequestTells ==
  ASSUME NEW d \in Dialects, NEW q, NEW t, isSeq(t),
         readContent("system", q.system) = said("system", t),
         NEW s, NEW h, NEW c, readsAs(d, q.messages, s, h, c)
  PROVE  tells(readRequest(d, q), said("system", t) \o s, h, c)
<1>1. PICK e : Joins!joinsTo(reading(d), q.messages, e) /\ tells(e, s, h, c)
  BY DEF readsAs
<1>2. readRequest(d, q) = said("system", t) \o e
  <2>1. joined(q.messages, LAMBDA m : readMessage(d, m)) = e
    BY <1>1, MessagesRead DEF Joins!joinsTo
  <2>2. readRequest(d, q) = readContent("system", q.system)
                              \o joined(q.messages, LAMBDA m : readMessage(d, m))
    BY Zenon DEF readRequest
  <2> QED  BY <2>1, <2>2
<1>3. tells(said("system", t) \o e, said("system", t) \o s, <<>> \o h, <<>> \o c)
  BY <1>1, SaidTells, TellsConcat
<1>4. <<>> \o h = h /\ <<>> \o c = c
  BY <1>1, TellsAnd, EmptyConcat
<1> QED  BY <1>2, <1>3, <1>4

\* What of the system's instructions goes beyond the dialect.
systemSaid(d, form) ==
  IF form = "string" \/ (form = "list" /\ d = "chat") THEN SystemText ELSE <<>>
SystemForms == {"none", "string", "list"}

LEMMA SystemSaidIsSeq == \A d, form : isSeq(systemSaid(d, form))
BY ShortSeqs DEF systemSaid, SystemText

LEMMA NoTextReads == readContent("system", String(<<>>)) = <<>>
BY StringReads, SaidNothing, ShortSeqs DEF Sides

\* The chat dialect's message of the system.
LEMMA SystemReads ==
  ASSUME NEW form \in {"string", "list"}, NEW m, systemMessage(form) = <<m>>
  PROVE  /\ m.role \in SystemRoles /\ m.calls = <<>>
         /\ readMessage("chat", m) = said("system", SystemText)
         /\ systemOf(m) = SystemText
<1>p. PICK p : p = Part("text", SystemText, None)
  OBVIOUS
<1>1. p.type = "text" /\ p.text = SystemText /\ p.id = None
  BY <1>p, PartFields
<1>2. /\ m.role \in SystemRoles /\ m.calls = <<>> /\ m.content.parts = <<p>>
      /\ readContent("system", m.content) = readContent("system", String(SystemText))
  <2>1. CASE form = "string"
    <3>1. m = ChatMessage("system", String(SystemText), <<>>, None)
      BY <2>1 DEF systemMessage
    <3>2. m.role = "system" /\ m.calls = <<>> /\ m.content = String(SystemText)
      BY <3>1, MessageFields
    <3> QED  BY <3>2, <1>p DEF SystemRoles, String
  <2>2. CASE form = "list"
    <3>1. m = ChatMessage("developer", List(<<p>>), <<>>, None)
      BY <2>2, <1>p DEF systemMessage
    <3>2. m.role = "developer" /\ m.calls = <<>> /\ m.content = List(<<p>>)
      BY <3>1, MessageFields
    <3>3. List(<<p>>).parts = <<p>> /\ String(SystemText).parts = <<p>>
      BY <1>p DEF String, List
    <3> QED  BY <3>2, <3>3 DEF SystemRoles, readContent
  <2> QED  BY <2>1, <2>2
<1>t. isSeq(SystemText)
  BY ShortSeqs DEF SystemText
<1>3. readMessage("chat", m) = said("system", SystemText)
  <2>1. readContent("system", m.content) = said("system", SystemText)
    BY <1>2, <1>t, StringReads DEF Sides
  <2>2. readChatMessage(m) = readContent("system", m.content) \o readCalls(<<>>)
    BY <1>2 DEF readChatMessage, SystemRoles
  <2>3. readChatMessage(m) = said("system", SystemText)
    BY <2>1, <2>2, <1>t, NoCallsRead, SaidIsSeq, EmptyConcat
  <2> QED  BY <2>3, Zenon DEF readMessage
<1>4. systemOf(m) = SystemText
  <2>1. PICK r : r = fromRaw(p)
    OBVIOUS
  <2>2. r.type = "text" /\ r.text = SystemText
    BY <1>1, <2>1 DEF fromRaw, IRPart, normalizeIRPartType, ImageTypes, FileTypes
  <2>3. decodeGenericContent(m.content) = <<r>>
    <3>1. [i \in DOMAIN <<p>> |-> fromRaw(<<p>>[i])] = <<r>>
      BY <2>1
    <3> QED  BY <1>2, <3>1 DEF decodeGenericContent, each
  <2>4. each(m.calls, toolCall) = <<>>
    BY <1>2, NoIRCalls, Zenon DEF irCalls
  <2>5. <<r>> \o <<>> = <<r>>
    BY ShortSeqs, EmptyConcat
  <2>6. encodeTextContent(<<r>>) = SystemText
    <3>1. textIn(r) = SystemText
      BY <2>2 DEF textIn, TextTypes
    <3>2. through("text", r) = SystemText
      BY <3>1, ThroughPart, Zenon
    <3> QED  BY <3>2, TextsJoin, Joins!JoinOne
  <2>7. systemOf(m) = encodeTextContent(decodeGenericContent(m.content)
                                          \o each(m.calls, toolCall))
    BY <1>2, Zenon DEF systemOf
  <2> QED  BY <2>3, <2>4, <2>5, <2>6, <2>7
<1> QED  BY <1>2, <1>3, <1>4

\* The system's message before the others, and messages without.
LEMMA SystemFirst ==
  ASSUME NEW form \in SystemForms, NEW first, first = systemMessage(form),
         NEW t, t = systemSaid("chat", form), NEW u \in Dialects
  PROVE  /\ Joins!joinsTo("systemOf", first, t)
         /\ Joins!joinsTo("fromChat", first, <<>>)
         /\ Joins!joinsTo(keeping("chat", u), first, first)
         /\ readsAs("chat", first, said("system", t), <<>>, <<>>)
<1>1. CASE form = "none"
  <2>1. first = <<>> /\ t = <<>>
    BY <1>1 DEF systemMessage, systemSaid
  <2> QED  BY <2>1, Joins!JoinsNothing, NothingReads, SaidNothing
<1>2. CASE form # "none"
  <2>1. form \in {"string", "list"} /\ t = SystemText /\ isSeq(t)
    BY <1>2, ShortSeqs DEF SystemForms, systemSaid, SystemText
  <2>2. PICK m : first = <<m>>
    <3>1. \E m : systemMessage(form) = <<m>>
      BY <2>1, Zenon DEF systemMessage
    <3> QED  BY <3>1
  <2>3. /\ m.role \in SystemRoles /\ readMessage("chat", m) = said("system", t)
        /\ systemOf(m) = t
    BY <2>1, <2>2, SystemReads
  <2>4. Joins!joinsTo("systemOf", first, t)
    BY <2>1, <2>2, <2>3, ThroughMessage, SameSeqs, Joins!JoinsOne
  <2>5. Joins!joinsTo("fromChat", first, <<>>)
    <3>1. fromChat(m) = <<>>
      BY <2>3 DEF fromChat
    <3> QED  BY <2>2, <3>1, ThroughMessage, ShortSeqs, SameSeqs, Joins!JoinsOne
  <2>6. Joins!joinsTo(keeping("chat", u), first, first)
    <3>1. keptOf("chat", u, m) = <<m>>
      <4>1. ~lostTo("chat", u, m)
        BY Zenon DEF lostTo
      <4> QED  BY <4>1 DEF keptOf
    <3>2. through(keeping("chat", u), m) = <<m>>
      BY <3>1, ThroughKeeping DEF Dialects
    <3> QED  BY <2>2, <3>2, ShortSeqs, SameSeqs, Joins!JoinsOne
  <2>7. readsAs("chat", first, said("system", t), <<>>, <<>>)
    <3>1. tells(readMessage("chat", m), said("system", t), <<>>, <<>>)
      BY <2>1, <2>3, SaidTells
    <3> QED  BY <2>2, <3>1, MessageReads DEF Dialects
  <2> QED  BY <2>4, <2>5, <2>6, <2>7
<1> QED  BY <1>1, <1>2

LEMMA NoneOfSystemJoins ==
  ASSUME NEW ms, isSeq(ms), noneOfSystem(ms)
  PROVE  Joins!joinsTo("systemOf", ms, <<>>)
<1>1. \A i \in DOMAIN ms : through("systemOf", ms[i]) = <<>>
  BY ThroughMessage DEF noneOfSystem, systemOf
<1> QED  BY <1>1, SameSeqs, Joins!JoinsNone

-----------------------------------------------------------------------------
(* What the codecs take from a request, and what they write from it.       *)

\* The chat dialect's messages without the system's, and these by themselves.
LEMMA ChatSplit ==
  ASSUME NEW ms, NEW split, split = splitSystemInstruction(decodeOpenAIChatMessages(ms))
  PROVE  /\ split.system = Joins!join("systemOf", ms)
         /\ split.others = Joins!join("fromChat", ms)
<1>i. PICK irs : irs = [i \in DOMAIN ms |->
                          IRMessage(ms[i].role, decodeGenericContent(ms[i].content)
                                      \o each(ms[i].calls, toolCall), ms[i].callId)]
  OBVIOUS
<1>1. decodeOpenAIChatMessages(ms) = irs
  BY <1>i DEF decodeOpenAIChatMessages, each
<1>2. DOMAIN irs = DOMAIN ms
  BY <1>i
<1>3. ASSUME NEW i \in DOMAIN ms
      PROVE  /\ irs[i].role = ms[i].role
             /\ irs[i].content = decodeGenericContent(ms[i].content)
                                   \o each(ms[i].calls, toolCall)
             /\ irs[i] = IRMessage(ms[i].role, decodeGenericContent(ms[i].content)
                                     \o each(ms[i].calls, toolCall), ms[i].callId)
  <2>1. PICK content : content = decodeGenericContent(ms[i].content)
                                   \o each(ms[i].calls, toolCall)
    OBVIOUS
  <2>2. irs[i] = IRMessage(ms[i].role, content, ms[i].callId)
    BY <1>i, <2>1
  <2>3. irs[i].role = ms[i].role /\ irs[i].content = content
    BY <2>2, IRMessageFields
  <2> QED  BY <2>1, <2>2, <2>3
<1>4. [i \in DOMAIN irs |-> IF irs[i].role \in SystemRoles
                            THEN encodeTextContent(irs[i].content) ELSE <<>>]
        = [i \in DOMAIN ms |-> through("systemOf", ms[i])]
  <2>1. ASSUME NEW i \in DOMAIN ms
        PROVE  (IF irs[i].role \in SystemRoles
                THEN encodeTextContent(irs[i].content) ELSE <<>>) = systemOf(ms[i])
    BY <1>3, Zenon DEF systemOf
  <2>2. [i \in DOMAIN ms |-> IF irs[i].role \in SystemRoles
                             THEN encodeTextContent(irs[i].content) ELSE <<>>]
          = [i \in DOMAIN ms |-> systemOf(ms[i])]
    BY <2>1, Zenon
  <2>3. [i \in DOMAIN ms |-> systemOf(ms[i])]
          = [i \in DOMAIN ms |-> through("systemOf", ms[i])]
    BY ThroughMessage, Zenon
  <2> QED  BY <1>2, <2>2, <2>3, Zenon
<1>5. [i \in DOMAIN irs |-> IF irs[i].role \in SystemRoles THEN <<>> ELSE <<irs[i]>>]
        = [i \in DOMAIN ms |-> through("fromChat", ms[i])]
  <2>1. ASSUME NEW i \in DOMAIN ms
        PROVE  (IF irs[i].role \in SystemRoles THEN <<>> ELSE <<irs[i]>>) = fromChat(ms[i])
    BY <1>3, Zenon DEF fromChat
  <2>2. [i \in DOMAIN ms |-> IF irs[i].role \in SystemRoles THEN <<>> ELSE <<irs[i]>>]
          = [i \in DOMAIN ms |-> fromChat(ms[i])]
    BY <2>1, Zenon
  <2>3. [i \in DOMAIN ms |-> fromChat(ms[i])]
          = [i \in DOMAIN ms |-> through("fromChat", ms[i])]
    BY ThroughMessage, Zenon
  <2> QED  BY <1>2, <2>2, <2>3, Zenon
<1>6. split.system = FlattenSeq([i \in DOMAIN irs |->
                       IF irs[i].role \in SystemRoles
                       THEN encodeTextContent(irs[i].content) ELSE <<>>])
  BY <1>1 DEF splitSystemInstruction, joined, each
<1>7. split.others = FlattenSeq([i \in DOMAIN irs |->
                       IF irs[i].role \in SystemRoles THEN <<>> ELSE <<irs[i]>>])
  BY <1>1 DEF splitSystemInstruction, joined, each
<1> QED  BY <1>4, <1>5, <1>6, <1>7, JoinOfEach

LEMMA InputJoins == \A ms : decodeResponsesInput(ms) = Joins!join("fromResponses", ms)
<1> TAKE ms
<1>1. [i \in DOMAIN ms |-> decodeResponsesItem(ms[i])]
        = [i \in DOMAIN ms |-> through("fromResponses", ms[i])]
  BY ThroughMessage, Zenon
<1> QED  BY <1>1, JoinOfEach, Zenon DEF decodeResponsesInput, joined, each

\* One message of another from each.
LEMMA JoinOfSingles ==
  ASSUME NEW name, NEW ms, NEW t, t = [i \in DOMAIN ms |-> t[i]],
         \A i \in DOMAIN ms : through(name, ms[i]) = <<t[i]>>,
         NEW x, Joins!joinsTo(name, ms, x)
  PROVE  t = x
<1>1. isSeq(ms)
  BY SameSeqs DEF Joins!joinsTo, Joins!givesFrom
<1>2. isSeq(t) /\ DOMAIN t = DOMAIN ms
  BY <1>1, EachOf
<1>3. Joins!joinsTo(name, ms, t)
  BY <1>1, <1>2, SameSeqs, Joins!JoinsSingles
<1> QED  BY <1>3 DEF Joins!joinsTo

LEMMA AnthropicJoins ==
  ASSUME NEW ms, NEW irs, Joins!joinsTo("fromAnthropic", ms, irs)
  PROVE  decodeAnthropicMessages(ms) = irs
<1>t. PICK t : t = [i \in DOMAIN ms |-> decodeAnthropicMessage(ms[i])]
  OBVIOUS
<1>1. \A i \in DOMAIN ms : through("fromAnthropic", ms[i]) = <<t[i]>>
  BY <1>t, ThroughMessage
<1>2. t = irs
  BY <1>t, <1>1, JoinOfSingles
<1> QED  BY <1>t, <1>2 DEF decodeAnthropicMessages, each

LEMMA ToChatJoins ==
  ASSUME NEW irs, NEW w, Joins!joinsTo("toChat", irs, w)
  PROVE  each(irs, encodeOpenAIChatMessage) = w
<1>t. PICK t : t = [i \in DOMAIN irs |-> encodeOpenAIChatMessage(irs[i])]
  OBVIOUS
<1>1. \A i \in DOMAIN irs : through("toChat", irs[i]) = <<t[i]>>
  BY <1>t, ThroughMessage
<1>2. t = w
  BY <1>t, <1>1, JoinOfSingles
<1> QED  BY <1>t, <1>2 DEF each

LEMMA ToAnthropicJoins ==
  ASSUME NEW irs, NEW w, Joins!joinsTo("toAnthropic", irs, w)
  PROVE  encodeAnthropicMessages(irs) = w
<1>t. PICK t : t = [i \in DOMAIN irs |-> encodeAnthropicMessage(irs[i])]
  OBVIOUS
<1>1. \A i \in DOMAIN irs : through("toAnthropic", irs[i]) = <<t[i]>>
  BY <1>t, ThroughMessage
<1>2. t = w
  BY <1>t, <1>1, JoinOfSingles
<1> QED  BY <1>t, <1>2 DEF encodeAnthropicMessages, each

LEMMA ToResponsesJoins == \A irs : encodeResponsesInput(irs) = Joins!join("toResponses", irs)
<1> TAKE irs
<1>1. [i \in DOMAIN irs |-> encodeResponsesMessage(irs[i])]
        = [i \in DOMAIN irs |-> through("toResponses", irs[i])]
  BY ThroughMessage, Zenon
<1> QED  BY <1>1, JoinOfEach, Zenon DEF encodeResponsesInput, joined, each

\* The system's instructions a codec finds.
systemFound(d, q, t) ==
  /\ d = "chat" => Joins!joinsTo("systemOf", q.messages, t)
  /\ d = "responses" => t = encodeTextContent(q.system.parts)
  /\ d = "anthropic" => t = decodeAnthropicSystem(q.system)

takenOverAs(d, q, t, irs) ==
  systemFound(d, q, t) /\ Joins!joinsTo(from(d), q.messages, irs)
decodedAs(d, q, t, irs) ==
  LET ir == DecodeRequest(d, q)
  IN isRequest(ir) /\ ir.system = t /\ ir.messages = irs

LEMMA RequestDecoded ==
  ASSUME NEW d \in Dialects, NEW q, isRequest(q), NEW t, NEW irs, takenOverAs(d, q, t, irs)
  PROVE  decodedAs(d, q, t, irs)
<1> SUFFICES ASSUME NEW ir, ir = DecodeRequest(d, q)
             PROVE  isRequest(ir) /\ ir.system = t /\ ir.messages = irs
  BY DEF decodedAs
<1>0. systemFound(d, q, t) /\ Joins!joinsTo(from(d), q.messages, irs)
  BY DEF takenOverAs
<1>1. ASSUME NEW z, ir = normalizeIRToolConfig(rewritten(q, t, irs, z), q.tools # {})
      PROVE  isRequest(ir) /\ ir.system = t /\ ir.messages = irs
  <2>1. PICK r : r = rewritten(q, t, irs, z) /\ isRewritten(r, q, t, irs, z)
    BY WrittenFields
  <2>2. PICK had : had = (q.tools # {})
    OBVIOUS
  <2>3. isRequest(r)
    BY <2>1 DEF isRewritten
  <2>4. ir = normalizeIRToolConfig(r, had) /\ isConfigured(ir, r, had)
    BY <1>1, <2>1, <2>2, <2>3, ToolConfigFields
  <2> QED  BY <2>1, <2>4 DEF isRewritten, isConfigured
<1>2. CASE d = "chat"
  <2>1. PICK split : split = splitSystemInstruction(decodeOpenAIChatMessages(q.messages))
    OBVIOUS
  <2>2. split.system = t /\ split.others = irs
    BY <1>0, <1>2, <2>1, ChatSplit DEF Joins!joinsTo, from, systemFound
  <2>3. DecodeRequest(d, q) =
          normalizeIRToolConfig(rewritten(q, split.system, split.others,
                                          decodeOpenAIChatTools(q.tools)),
                                q.tools # {})
    BY <1>2, <2>1, Zenon DEF DecodeRequest, DecodeOpenAIChatRequest, rewritten
  <2> QED  BY <1>1, <2>2, <2>3
<1>3. CASE d = "responses"
  <2>1. decodeResponsesInput(q.messages) = irs
    BY <1>0, <1>3, InputJoins DEF Joins!joinsTo, from
  <2>2. DecodeRequest(d, q) =
          normalizeIRToolConfig(rewritten(q, encodeTextContent(q.system.parts),
                                          decodeResponsesInput(q.messages),
                                          decodeResponsesTools(q.tools)),
                                q.tools # {})
    BY <1>3, Zenon DEF DecodeRequest, DecodeResponsesRequest, rewritten
  <2> QED  BY <1>0, <1>1, <1>3, <2>1, <2>2 DEF systemFound
<1>4. CASE d = "anthropic"
  <2>1. decodeAnthropicMessages(q.messages) = irs
    BY <1>0, <1>4, AnthropicJoins DEF from
  <2>2. DecodeRequest(d, q) = rewritten(q, decodeAnthropicSystem(q.system),
                                        decodeAnthropicMessages(q.messages),
                                        decodeAnthropicTools(q.tools))
    BY <1>4, Zenon DEF DecodeRequest, DecodeAnthropicRequest, rewritten
  <2>3. PICK z : ir = rewritten(q, t, irs, z)
    BY <1>0, <1>4, <2>1, <2>2 DEF systemFound
  <2>4. isRewritten(ir, q, t, irs, z)
    BY <2>3, WrittenFields
  <2> QED  BY <2>4 DEF isRewritten
<1> QED  BY <1>2, <1>3, <1>4 DEF Dialects

LEMMA RequestEncoded ==
  ASSUME NEW u \in Dialects, NEW ir, isRequest(ir), NEW t, ir.system = t, isSeq(t),
         NEW s, NEW h, NEW c, becomes(u, ir.messages, s, h, c),
         NEW r, r = EncodeRequest(u, ir)
  PROVE  tells(readRequest(u, r), said("system", t) \o s, h, c)
<1>1. PICK w : Joins!joinsTo(to(u), ir.messages, w) /\ readsAs(u, w, s, h, c)
  BY DEF becomes
<1>2. CASE u = "responses" \/ u = "anthropic"
  <2>1. r.system = String(t) /\ r.messages = w
    <3>1. CASE u = "responses"
      <4>1. r = [ir EXCEPT !.system = String(ir.system),
                           !.messages = encodeResponsesInput(ir.messages)]
        BY <3>1, Zenon DEF EncodeRequest, EncodeResponsesRequest
      <4>2. encodeResponsesInput(ir.messages) = w
        BY <1>1, <3>1, ToResponsesJoins DEF Joins!joinsTo, to
      <4> QED  BY <4>1, <4>2 DEF isRequest, RequestFields
    <3>2. CASE u = "anthropic"
      <4>1. PICK z : r = [ir EXCEPT !.system = String(ir.system),
                                    !.messages = encodeAnthropicMessages(ir.messages),
                                    !.parallel = "absent", !.schema = Absent,
                                    !.maxTokens = z]
        BY <3>2, Zenon DEF EncodeRequest, EncodeAnthropicRequest
      <4>2. encodeAnthropicMessages(ir.messages) = w
        BY <1>1, <3>2, ToAnthropicJoins DEF to
      <4> QED  BY <4>1, <4>2 DEF isRequest, RequestFields
    <3> QED  BY <1>2, <3>1, <3>2
  <2>2. readContent("system", r.system) = said("system", t)
    BY <2>1, StringReads DEF Sides
  <2> QED  BY <1>1, <2>1, <2>2, RequestTells
<1>3. CASE u = "chat"
  <2>1. r.system = String(<<>>) /\ r.messages = encodeOpenAIChatMessages(ir)
    <3>1. r = [ir EXCEPT !.system = String(<<>>), !.messages = encodeOpenAIChatMessages(ir)]
      BY <1>3, Zenon DEF EncodeRequest, EncodeOpenAIChatRequest
    <3> QED  BY <3>1 DEF isRequest, RequestFields
  <2>2. each(ir.messages, encodeOpenAIChatMessage) = w
    BY <1>1, <1>3, ToChatJoins DEF to
  <2>m. PICK m : m = ChatMessage("system", String(t), <<>>, None)
    OBVIOUS
  <2>3. r.messages = (IF t = <<>> THEN <<>> ELSE <<m>>) \o w
    BY <2>1, <2>2, <2>m DEF encodeOpenAIChatMessages
  <2>4. readsAs("chat", IF t = <<>> THEN <<>> ELSE <<m>>, said("system", t), <<>>, <<>>)
    <3>1. CASE t = <<>>
      BY <3>1, NothingReads, SaidNothing
    <3>2. CASE t # <<>>
      <4>1. m.role = "system" /\ m.content = String(t) /\ m.calls = <<>>
        BY <2>m, MessageFields
      <4>2. readChatMessage(m) = readContent("system", String(t)) \o readCalls(<<>>)
        BY <4>1 DEF readChatMessage
      <4>3. readChatMessage(m) = said("system", t)
        <5>1. PICK e : e = said("system", t) /\ isSeq(e)
          BY SaidIsSeq
        <5>2. readContent("system", String(t)) = e
          BY <5>1, StringReads DEF Sides
        <5>3. e \o <<>> = e
          BY <5>1, EmptyConcat
        <5> QED  BY <4>2, <5>1, <5>2, <5>3, NoCallsRead
      <4>4. readMessage("chat", m) = said("system", t)
        BY <4>3, Zenon DEF readMessage
      <4>5. tells(readMessage("chat", m), said("system", t), <<>>, <<>>)
        BY <4>4, SaidTells
      <4> QED  BY <3>2, <4>5, MessageReads DEF Dialects
    <3> QED  BY <3>1, <3>2
  <2>5. readsAs("chat", r.messages, said("system", t) \o s, <<>> \o h, <<>> \o c)
    BY <1>1, <1>3, <2>3, <2>4, ReadsConcat
  <2>6. isSeq(s) /\ isSeq(h) /\ isSeq(c)
    BY <1>1, TellsAnd DEF readsAs
  <2>7. readsAs("chat", r.messages, said("system", t) \o s, h, c)
    BY <2>5, <2>6, EmptyConcat
  <2>8. readContent("system", r.system) = said("system", <<>>)
    BY <2>1, NoTextReads, SaidNothing
  <2>9. tells(readRequest("chat", r), said("system", <<>>) \o (said("system", t) \o s), h, c)
    BY <2>7, <2>8, ShortSeqs, RequestTells DEF Dialects
  <2>10. said("system", <<>>) \o (said("system", t) \o s) = said("system", t) \o s
    BY <2>6, SaidNothing, SaidIsSeq, ConcatElements, EmptyConcat
  <2> QED  BY <1>3, <2>9, <2>10
<1> QED  BY <1>2, <1>3 DEF Dialects
-----------------------------------------------------------------------------
(* The request is kept.                                                    *)

\* The system's instructions beside the messages.
systemBeside(d, form) ==
  IF d = "chat" \/ (d = "responses" /\ form = "list") THEN String(<<>>)
  ELSE systemContent(form)

LEMMA SystemBeside ==
  ASSUME NEW d \in Dialects, NEW form \in SystemForms, NEW content,
         content = systemBeside(d, form)
  PROVE  /\ content = String(<<>>) \/ content = String(SystemText)
            \/ content = List(<<Part("text", SystemText, None)>>)
         /\ d = "chat" => content = String(<<>>)
         /\ d = "responses" => content = String(systemSaid(d, form))
         /\ d = "anthropic" =>
              (IF content.list THEN String(<<>>) ELSE content) = String(systemSaid(d, form))
<1>1. /\ String(<<>>).list = FALSE /\ String(SystemText).list = FALSE
      /\ List(<<Part("text", SystemText, None)>>).list = TRUE
  BY MessageFields
<1>2. CASE form = "none"
  BY <1>1, <1>2 DEF systemBeside, systemContent, systemSaid
<1>3. CASE form = "string"
  BY <1>1, <1>3 DEF systemBeside, systemContent, systemSaid
<1>4. CASE form = "list"
  BY <1>1, <1>4 DEF systemBeside, systemContent, systemSaid, Dialects
<1> QED  BY <1>2, <1>3, <1>4 DEF SystemForms

LEMMA StringText == \A t : encodeTextContent(String(t).parts) = t
<1> TAKE t
<1>p. PICK p : p = Part("text", t, None)
  OBVIOUS
<1>1. textIn(p) = t
  BY <1>p, PartFields DEF textIn, TextTypes
<1>2. through("text", p) = t
  BY <1>1, ThroughPart, Zenon
<1>3. String(t).parts = <<p>>
  BY <1>p DEF String
<1> QED  BY <1>2, <1>3, TextsJoin, Joins!JoinOne

LEMMA BesideRead ==
  ASSUME NEW d \in Dialects, NEW form \in SystemForms, NEW content,
         content = systemBeside(d, form)
  PROVE  \E t : isSeq(t) /\ readContent("system", content) = said("system", t)
<1>p. PICK p : p = Part("text", SystemText, None)
  OBVIOUS
<1>t. isSeq(SystemText) /\ isSeq(<<>>)
  BY ShortSeqs DEF SystemText
<1>1. content = String(<<>>) \/ content = String(SystemText) \/ content = List(<<p>>)
  BY <1>p, SystemBeside
<1>2. /\ readContent("system", String(<<>>)) = said("system", <<>>)
      /\ readContent("system", String(SystemText)) = said("system", SystemText)
  BY <1>t, StringReads DEF Sides
<1>3. readContent("system", List(<<p>>)) = readContent("system", String(SystemText))
  <2>1. List(<<p>>).parts = String(SystemText).parts
    BY <1>p DEF String, List
  <2> QED  BY <2>1 DEF readContent
<1> QED  BY <1>1, <1>2, <1>3, <1>t

\* A conversation of d, as its client wrote it in q, with the system's instructions
\* in their form and the messages that follow; k is what of it is taken over for u.
conversationOf(d, u, form, first, rest, q, k) ==
  /\ first = IF d = "chat" THEN systemMessage(form) ELSE <<>>
  /\ goesOn(d, rest)
  /\ isRequest(q) /\ q.system = systemBeside(d, form) /\ q.messages = first \o rest
  /\ k.system = (IF q.system.list THEN String(<<>>) ELSE q.system)
  /\ k.messages = Joins!join(keeping(d, u), q.messages)

\* What a backend of u reads in the converted q is what a reader of d finds in k.
keptOver(d, u, q, k) ==
  LET heard == readRequest(u, EncodeRequest(u, DecodeRequest(d, q)))
      taken == readRequest(d, k)
  IN  /\ ofKinds(heard, {"said"}) = ofKinds(taken, {"said"})
      /\ ofKinds(heard, {"shown"}) = ofKinds(taken, {"shown"})
      /\ ofKinds(heard, {"call"}) = ofKinds(readRequest(d, q), {"call"})

\* Converting a conversation keeps what is taken over of it.
LEMMA ConvertedIsKept ==
  ASSUME NEW d \in Dialects, NEW u \in Dialects, NEW form \in SystemForms,
         NEW first, NEW rest, NEW q, NEW k, conversationOf(d, u, form, first, rest, q, k)
  PROVE  keptOver(d, u, q, k)
<1> SUFFICES
      ASSUME first = IF d = "chat" THEN systemMessage(form) ELSE <<>>,
             goesOn(d, rest),
             isRequest(q), q.system = systemBeside(d, form), q.messages = first \o rest,
             k.system = (IF q.system.list THEN String(<<>>) ELSE q.system),
             k.messages = Joins!join(keeping(d, u), q.messages),
             NEW r, r = EncodeRequest(u, DecodeRequest(d, q)),
             NEW heard, heard = readRequest(u, r), NEW taken, taken = readRequest(d, k)
      PROVE  /\ ofKinds(heard, {"said"}) = ofKinds(taken, {"said"})
             /\ ofKinds(heard, {"shown"}) = ofKinds(taken, {"shown"})
             /\ ofKinds(heard, {"call"}) = ofKinds(readRequest(d, q), {"call"})
  BY DEF conversationOf, keptOver
<1>t. PICK t : t = systemSaid(d, form) /\ isSeq(t)
  BY SystemSaidIsSeq
<1>1. PICK irs, left, s, h, c, x, y, z :
        /\ Joins!joinsTo(from(d), rest, irs) /\ becomes(u, irs, s, h, c)
        /\ Joins!joinsTo(keeping(d, u), rest, left) /\ readsAs(d, left, s, h, x)
        /\ readsAs(d, rest, y, z, c)
  BY Zenon DEF goesOn, reaches
<1>s. /\ isSeq(s) /\ isSeq(h) /\ isSeq(c) /\ isSeq(x) /\ isSeq(y) /\ isSeq(z)
      /\ isSeq(rest) /\ isSeq(irs) /\ isSeq(left)
  BY <1>1, GoesOnSeq, TellsAnd, SameSeqs DEF readsAs, Joins!joinsTo
\* What the backend hears.
<1>2. tells(heard, said("system", t) \o s, h, c)
  <2>1. PICK ir : ir = DecodeRequest(d, q)
    OBVIOUS
  <2>m. PICK ms : ms = first \o rest /\ q.messages = ms
    OBVIOUS
  <2>2. Joins!joinsTo(from(d), ms, irs)
    <3>1. Joins!joinsTo(from(d), first, <<>>)
      <4>1. CASE d = "chat"
        BY <4>1, SystemFirst DEF from, Dialects
      <4>2. CASE d # "chat"
        BY <4>2, Joins!JoinsNothing
      <4> QED  BY <4>1, <4>2
    <3>2. Joins!joinsTo(from(d), first \o rest, <<>> \o irs)
      BY <1>1, <3>1, Joins!JoinsConcat
    <3> QED  BY <1>s, <2>m, <3>2, EmptyConcat
  <2>3. d = "chat" => Joins!joinsTo("systemOf", q.messages, t)
    <3> SUFFICES ASSUME d = "chat" PROVE Joins!joinsTo("systemOf", q.messages, t)
      OBVIOUS
    <3>1. Joins!joinsTo("systemOf", first, t)
      BY <1>t, SystemFirst
    <3>2. Joins!joinsTo("systemOf", rest, <<>>)
      BY <1>s, NoneOfSystemJoins DEF goesOn
    <3>3. Joins!joinsTo("systemOf", first \o rest, t \o <<>>)
      BY <3>1, <3>2, Joins!JoinsConcat
    <3> QED  BY <1>t, <3>3, EmptyConcat
  <2>4. d = "responses" => t = encodeTextContent(q.system.parts)
    BY <1>t, SystemBeside, StringText
  <2>5. d = "anthropic" => t = decodeAnthropicSystem(q.system)
    <3> SUFFICES ASSUME d = "anthropic" PROVE t = decodeAnthropicSystem(q.system)
      OBVIOUS
    <3>1. (IF q.system.list THEN String(<<>>) ELSE q.system) = String(t)
      BY <1>t, SystemBeside
    <3>2. CASE q.system.list
      <4>1. String(<<>>) = String(t)
        BY <3>1, <3>2
      <4>2. t = <<>>
        BY <4>1, StringText
      <4> QED  BY <3>2, <4>2 DEF decodeAnthropicSystem
    <3>3. CASE ~q.system.list
      BY <3>1, <3>3, StringText DEF decodeAnthropicSystem
    <3> QED  BY <3>2, <3>3
  <2>6. isRequest(ir) /\ ir.system = t /\ ir.messages = irs
    <3>1. systemFound(d, q, t)
      BY <2>3, <2>4, <2>5 DEF systemFound
    <3>2. takenOverAs(d, q, t, irs)
      BY <2>m, <2>2, <3>1 DEF takenOverAs
    <3>3. decodedAs(d, q, t, irs)
      BY <3>2, RequestDecoded
    <3> QED  BY <2>1, <3>3 DEF decodedAs
  <2> QED  BY <1>1, <1>t, <2>1, <2>6, RequestEncoded
\* What the client said as far as it is taken over.
<1>3. tells(taken, said("system", t) \o s, h, x)
  <2>1. CASE d = "chat"
    <3>1. Joins!joinsTo(keeping(d, u), first \o rest, first \o left)
      BY <1>1, <2>1, SystemFirst, Joins!JoinsConcat
    <3>2. k.messages = first \o left
      BY <3>1 DEF Joins!joinsTo
    <3>3. readsAs("chat", first, said("system", t), <<>>, <<>>)
      BY <1>t, <2>1, SystemFirst
    <3>4. readsAs("chat", k.messages, said("system", t) \o s, <<>> \o h, <<>> \o x)
      BY <1>1, <2>1, <3>2, <3>3, ReadsConcat
    <3>5. readsAs("chat", k.messages, said("system", t) \o s, h, x)
      BY <1>s, <3>4, EmptyConcat
    <3>6. k.system = String(<<>>)
      <4>1. q.system = String(<<>>)
        BY <2>1, SystemBeside
      <4> QED  BY <4>1
    <3>7. readContent("system", k.system) = said("system", <<>>)
      BY <3>6, NoTextReads, SaidNothing
    <3>8. tells(taken, said("system", <<>>) \o (said("system", t) \o s), h, x)
      BY <2>1, <3>5, <3>7, ShortSeqs, RequestTells
    <3>9. PICK w : w = said("system", t) \o s /\ isSeq(w)
      BY <1>s, <1>t, SaidIsSeq, ConcatElements
    <3>10. <<>> \o w = w
      BY <3>9, EmptyConcat
    <3> QED  BY <3>8, <3>9, <3>10, SaidNothing
  <2>2. CASE d # "chat"
    <3>1. first \o rest = rest
      BY <1>s, <2>2, EmptyConcat
    <3>2. k.messages = left
      BY <1>1, <3>1 DEF Joins!joinsTo
    <3>3. k.system = String(t)
      <4>1. CASE d = "anthropic"
        BY <1>t, <4>1, SystemBeside
      <4>2. CASE d = "responses"
        <5>1. q.system = String(t)
          BY <1>t, <4>2, SystemBeside
        <5>2. q.system.list = FALSE
          BY <5>1, MessageFields
        <5> QED  BY <5>1, <5>2
      <4> QED  BY <2>2, <4>1, <4>2 DEF Dialects
    <3>4. readContent("system", k.system) = said("system", t)
      BY <1>t, <3>3, StringReads DEF Sides
    <3> QED  BY <1>1, <1>t, <3>2, <3>4, RequestTells
  <2> QED  BY <2>1, <2>2
\* What it called.
<1>4. \E v, z2 : tells(readRequest(d, q), v, z2, c)
  <2>1. PICK a, b : readsAs(d, q.messages, a, b, c)
    <3>1. \E a : readsAs(d, first, a, <<>>, <<>>)
      <4>1. CASE d = "chat"
        BY <4>1, SystemFirst DEF Dialects
      <4>2. CASE d # "chat"
        BY <4>2, NothingReads
      <4> QED  BY <4>1, <4>2
    <3>2. PICK a : readsAs(d, first, a, <<>>, <<>>)
      BY <3>1
    <3>3. readsAs(d, first \o rest, a \o y, <<>> \o z, <<>> \o c)
      BY <1>1, <3>2, ReadsConcat
    <3>4. <<>> \o c = c
      BY <1>s, EmptyConcat
    <3> QED  BY <3>3, <3>4
  <2>2. PICK v : isSeq(v) /\ readContent("system", q.system) = said("system", v)
    BY BesideRead
  <2> QED  BY <2>1, <2>2, RequestTells
<1> QED  BY <1>2, <1>3, <1>4, KindsTold

LEMMA SameRead ==
  ASSUME NEW d, NEW q, NEW r, q.system = r.system, q.messages = r.messages
  PROVE  readRequest(d, q) = readRequest(d, r)
BY DEF readRequest

LEMMA LostToBackend == \A m : textLost(m) <=> lostTo(dialect, sent.upstream, m)
BY Zenon DEF textLost, lostTo

LEMMA KeptMessages ==
  ASSUME dialect \in Dialects, sent.upstream \in Dialects, NEW ms
  PROVE  chosen(ms, LAMBDA m : ~textLost(m)) = Joins!join(keeping(dialect, sent.upstream), ms)
<1>1. ASSUME NEW m
      PROVE  (IF ~textLost(m) THEN <<m>> ELSE <<>>)
               = through(keeping(dialect, sent.upstream), m)
  <2>1. (IF ~textLost(m) THEN <<m>> ELSE <<>>) = keptOf(dialect, sent.upstream, m)
    BY LostToBackend DEF keptOf
  <2> QED  BY <2>1, ThroughKeeping
<1>2. [i \in DOMAIN ms |-> IF ~textLost(ms[i]) THEN <<ms[i]>> ELSE <<>>]
        = [i \in DOMAIN ms |-> through(keeping(dialect, sent.upstream), ms[i])]
  BY <1>1, Zenon
<1> QED  BY <1>2, JoinOfEach, Zenon DEF chosen, joined, each

LEMMA InvImpliesKept == ConversationInv /\ HistoryInv => RequestKept
<1> SUFFICES ASSUME ConversationInv, HistoryInv, isSent PROVE RequestKept
  BY DEF RequestKept
<1>1. PICK d, u, r : d = dialect /\ u = sent.upstream /\ r = sent.request
  OBVIOUS
<1>2. d \in Dialects /\ u \in Dialects /\ settings.system \in SystemForms /\ RequestInv
  BY <1>1, ConversationAssumption DEF ConversationInv, ConversationTypeOK, SystemForms
<1>3. PICK q : q = normalizeEnvelopeForConfig(written, pool[sent.backend], dialect)
  OBVIOUS
<1>4. r = sendProtocolRequest(d, u, q)
  BY <1>1, <1>3 DEF ConversationInv, SentInv
<1>5. isRequest(q) /\ q.system = written.system /\ q.messages = written.messages
  BY <1>1, <1>2, <1>3, NormalizedFields
<1>6. PICK heard, taken, whole :
        /\ heard = readRequest(u, r) /\ taken = readRequest(d, takenOver)
        /\ whole = readRequest(d, written)
  OBVIOUS
<1>7. whole = readRequest(d, q)
  BY <1>5, <1>6, SameRead
<1>8. CASE toldWhole
  <2>1. u = d /\ d # "anthropic" /\ takenOver = written
    BY <1>1, <1>8 DEF toldWhole, takenOver
  <2>2. r.system = q.system /\ r.messages = q.messages
    <3>1. CASE d = "chat"
      <4>1. r = buildProviderRequestBody(q)
        BY <1>4, <2>1, <3>1 DEF sendProtocolRequest
      <4> QED  BY <1>5, <4>1 DEF buildProviderRequestBody, isRequest, RequestFields
    <3>2. CASE d = "responses"
      <4>1. r = q
        BY <1>4, <2>1, <3>2 DEF sendProtocolRequest
      <4> QED  BY <4>1
    <3> QED  BY <1>2, <2>1, <3>1, <3>2 DEF Dialects
  <2>3. heard = whole /\ taken = whole
    BY <1>6, <1>7, <2>1, <2>2, SameRead
  <2> QED  BY <1>1, <1>6, <2>3 DEF RequestKept, told
<1>9. CASE ~toldWhole
  <2>1. r = EncodeRequest(u, DecodeRequest(d, q))
    <3>1. ~(d = "chat" /\ u = "chat") /\ ~(d = "responses" /\ u = "responses")
      BY <1>1, <1>9 DEF toldWhole
    <3> QED  BY <1>4, <3>1
             DEF sendProtocolRequest, sendAnthropicRequest, EncodeRequest, DecodeRequest
  <2>2. PICK rest : written.messages = firstMessages \o rest /\ goesOn(d, rest)
    BY <1>1, Zenon DEF HistoryInv, toldOn
  <2>3. PICK first, form : /\ form = settings.system /\ first = firstMessages
                           /\ first = IF d = "chat" THEN systemMessage(form) ELSE <<>>
    BY <1>1 DEF firstMessages
  <2>4. q.system = systemBeside(d, form)
    <3>1. firstWritten(dialect, settings).system = systemBeside(d, form)
      BY <1>1, <2>3 DEF firstWritten, systemBeside
    <3> QED  BY <1>5, <3>1 DEF HistoryInv
  <2>5. PICK k : k = takenOver
    OBVIOUS
  <2>6. /\ k.system = IF q.system.list THEN String(<<>>) ELSE q.system
        /\ k.messages = Joins!join(keeping(d, u), q.messages)
    <3>1. PICK x, y : /\ x = (IF written.system.list THEN String(<<>>) ELSE written.system)
                      /\ y = chosen(written.messages, LAMBDA m : ~textLost(m))
      OBVIOUS
    <3>2. k = [written EXCEPT !.system = x, !.messages = y]
      BY <1>9, <2>5, <3>1, Zenon DEF takenOver
    <3>3. k.system = x /\ k.messages = y
      BY <1>2, <3>2 DEF RequestInv, isRequest, RequestFields
    <3>4. y = Joins!join(keeping(d, u), written.messages)
      BY <1>1, <1>2, <3>1, KeptMessages
    <3> QED  BY <1>5, <3>1, <3>3, <3>4
  <2>7. q.messages = first \o rest
    BY <1>5, <2>2, <2>3
  <2>8. taken = readRequest(d, k) /\ form \in SystemForms
    BY <1>2, <1>6, <2>3, <2>5
  <2>9. conversationOf(d, u, form, first, rest, q, k)
    BY <1>5, <2>2, <2>3, <2>4, <2>6, <2>7, Zenon DEF conversationOf
  <2>10. keptOver(d, u, q, k)
    BY <1>2, <2>8, <2>9, ConvertedIsKept
  <2>11. /\ ofKinds(heard, {"said"}) = ofKinds(taken, {"said"})
         /\ ofKinds(heard, {"shown"}) = ofKinds(taken, {"shown"})
         /\ ofKinds(heard, {"call"}) = ofKinds(whole, {"call"})
    BY <1>6, <1>7, <2>1, <2>8, <2>10 DEF keptOver
  <2> QED  BY <1>1, <1>6, <2>11 DEF RequestKept, told
<1> QED  BY <1>8, <1>9

\* Whatever the dialects of client and backend, and however long the history
\* and whoever was tried before, the backend is told every instruction, text,
\* image and call the codecs take over, once and in order, in every reachable
\* state.
THEOREM RequestIsKept == Spec => []RequestKept
<1>1. Init => ConversationInv /\ FormedInv /\ HistoryInv
  <2>1. Init => FormedInv
    BY DEF Init, FormedInv
  <2> QED  BY <2>1, InitInv, InitHistory
<1>2. ConversationInv /\ FormedInv /\ HistoryInv /\ [Next]_vars
        => (ConversationInv /\ FormedInv /\ HistoryInv)'
  BY NextInv, NextFormed, NextHistory DEF ConversationInv
<1> QED  BY <1>1, <1>2, InvImpliesKept, PTL DEF Spec
=============================================================================
