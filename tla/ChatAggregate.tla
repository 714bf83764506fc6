--------------------------- MODULE ChatAggregate ----------------------------
(***************************************************************************)
(* buildOpenAIStreamLogResponse (handlers/chat_response.go): a chat stream *)
(* put together to one answer, for the log of a streamed chat request and  *)
(* for the answer to a non-streamed request with tools.  The raw stream is *)
(* folded chunk by chunk; the calls are then listed from the map by index, *)
(* what the scan does not reach in the map's order.                        *)
(***************************************************************************)
EXTENDS StreamEvents

\* How far the scan over the indexes goes past the number of calls left.
ScanSlack == 8

Aggregate ==
  [content |-> <<>>, reasoning |-> <<>>, calls |-> <<>>, finish |-> "",
   usage |-> NoUsage, loggable |-> FALSE]

\* A slip: the arguments overwritten too.
replaceCall(calls, call) ==
  LET old == IF call.index \in DOMAIN calls THEN calls[call.index]
             ELSE [id |-> None, args |-> <<>>]
  IN put(calls, call.index, [id |-> IF call.id # None THEN call.id ELSE old.id,
                     args |-> IF call.args = None THEN old.args
                              ELSE <<call.args>>])

\* One call of a chunk: the fields present overwrite, the arguments append.
mergeCall(calls, call) ==
  LET old == IF call.index \in DOMAIN calls THEN calls[call.index]
             ELSE [id |-> None, args |-> <<>>]
      new == [id |-> IF call.id # None THEN call.id ELSE old.id,
              args |-> old.args \o (IF call.args = None THEN <<>>
                                    ELSE <<call.args>>)]
  IN put(calls, call.index, new)

mergeCalls(calls, new) == FoldLeft(mergeCall, calls, new)

append(pieces, piece) == IF piece = None THEN pieces ELSE Append(pieces, piece)

\* A slip: an answer that only calls tools counts as empty.
aggregateText(a, f) ==
  IF f.event # "chunk" THEN a
  ELSE [a EXCEPT !.content = append(@, f.content),
                 !.calls = mergeCalls(@, f.tools),
                 !.finish = IF f.finish # "" THEN f.finish ELSE @,
                 !.loggable = @ \/ f.content # None \/ f.reasoning # None]

\* One data line.  [DONE] leaves no trace.
aggregateChunk(a, f) ==
  IF f.event # "chunk" THEN a
  ELSE [content |-> append(a.content, f.content),
        reasoning |-> append(a.reasoning, f.reasoning),
        calls |-> mergeCalls(a.calls, f.tools),
        finish |-> IF f.finish # "" THEN f.finish ELSE a.finish,
        usage |-> IF f.usage # NoUsage THEN f.usage ELSE a.usage,
        loggable |-> \/ a.loggable
                     \/ f.content # None
                     \/ f.reasoning # None
                     \/ f.tools # <<>>]

\* One step of the scan: the bound shrinks with every call taken out, and a
\* scan beyond its bound has ended.
scan(s, idx) ==
  IF idx < Cardinality(s.left) + ScanSlack /\ idx \in s.left
  THEN [taken |-> Append(s.taken, idx), left |-> s.left \ {idx}] ELSE s

\* The orders in which the calls with these indexes may be listed.
callOrders(indexes) ==
  LET scanned == FoldLeft(scan, [taken |-> <<>>, left |-> indexes],
                   [i \in 1..Cardinality(indexes) + ScanSlack |-> i - 1])
  IN {scanned.taken \o rest : rest \in SetToSeqs(scanned.left)}

\* Nothing to log is an error, a missing finish reason is a stop.
buildOpenAIStreamLogResponse(a, order) ==
  [content |-> a.content, reasoning |-> a.reasoning,
   calls |-> [i \in DOMAIN order |-> a.calls[order[i]]],
   finish |-> IF a.finish = "" THEN "stop" ELSE a.finish, usage |-> a.usage]
=============================================================================
