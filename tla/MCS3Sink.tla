------------------------------- MODULE MCS3Sink -------------------------------
(***************************************************************************)
(* Parts of two bytes, two threads, two connections.  A stream with one    *)
(* shard of three chunks: the second is longer than a part, so that it     *)
(* fills one in its middle and puts the ones behind it more than a buffer  *)
(* ahead.  And one with a shard of two chunks, each a part, and a          *)
(* document: three callers, so that one has to wait for a connection.      *)
(***************************************************************************)
EXTENDS S3Sink, SequencesExt
CONSTANTS wide, narrow, document
MCTogether == {{wide}, {narrow, document}}
MCPlan == [s \in Sinks |-> CASE s = wide -> <<1, 4, 1, 1>>
                             [] s = narrow -> <<2, 2, 1>>
                             [] OTHER -> <<1>>]
MCOffset == [s \in Sinks |->
               [i \in DOMAIN MCPlan[s] |-> FoldLeft(+, 0, SubSeq(MCPlan[s], 1, i - 1))]]
=============================================================================
