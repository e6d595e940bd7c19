------------------------------- MODULE MCShard -------------------------------
(***************************************************************************)
(* A shard of three chunks of different sizes, each written or skipped,    *)
(* with three tries per writer and a failure possible at every write.        *)
(***************************************************************************)
EXTENDS Shard

ChunkSizes == [i \in 0 .. 2 |-> i + 2]
=============================================================================
