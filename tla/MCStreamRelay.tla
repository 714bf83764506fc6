---------------------------- MODULE MCStreamRelay ---------------------------
(* StreamRelay with answers of a few pieces and up to two tool calls.       *)
EXTENDS StreamRelay
=============================================================================
