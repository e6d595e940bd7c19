------------------------------ MODULE MCPyramid ------------------------------
(***************************************************************************)
(* Arrays of two to five dimensions: odd and even extents, ragged chunks   *)
(* and shards, Z halved once and twice and not at all, Z as the append     *)
(* dimension, more levels than X and Y allow, and orders of storage.       *)
(***************************************************************************)
EXTENDS Pyramid

Dim(type, size, chunk, shard) ==
    [type |-> type, size |-> size, chunk |-> chunk, shard |-> shard, scale |-> 1]
T(size, chunk, shard) == Dim("time", size, chunk, shard)
C(size, chunk, shard) == Dim("channel", size, chunk, shard)
S(size, chunk, shard) == Dim("space", size, chunk, shard)
Plain(dims) == [dims |-> dims, order |-> <<>>, maxLevels |-> 0, decimates |-> FALSE]

MCConfigs ==
    { \* YX, ragged
      Plain(<<S(5, 2, 2), S(3, 2, 1)>>),
      \* TYX, without an end; two levels below
      Plain(<<T(0, 2, 2), S(4, 1, 2), S(4, 1, 3)>>),
      \* ZYX: Z is the append dimension, without an end and with one
      Plain(<<S(0, 1, 2), S(4, 2, 1), S(3, 1, 2)>>),
      Plain(<<S(5, 1, 2), S(2, 1, 1), S(2, 1, 2)>>),
      \* TZYX: Z odd at level 0 and at level 1, and even at both
      Plain(<<T(0, 1, 2), S(5, 1, 2), S(2, 1, 1), S(2, 1, 1)>>),
      Plain(<<T(2, 1, 1), S(3, 2, 1), S(3, 2, 1), S(3, 2, 2)>>),
      Plain(<<T(0, 2, 1), S(4, 1, 3), S(2, 1, 2), S(2, 2, 1)>>),
      [Plain(<<T(0, 2, 1), S(6, 1, 2), S(4, 2, 2), S(4, 2, 1)>>)
         EXCEPT !.maxLevels = 1, !.decimates = TRUE],
      \* TCZYX: ragged chunks of C
      Plain(<<T(0, 1, 1), C(3, 2, 1), S(3, 1, 2), S(2, 1, 1), S(2, 1, 1)>>),
      Plain(<<T(0, 2, 2), C(3, 2, 2), S(2, 2, 1), S(3, 3, 1), S(1, 1, 1)>>),
      \* acquired TZCYX, stored TCZYX; and X before Y
      [dims |-> <<T(0, 1, 2), S(3, 2, 1), C(2, 1, 2), S(3, 2, 1), S(2, 1, 1)>>,
       order |-> <<1, 3, 2, 4, 5>>, maxLevels |-> 0, decimates |-> FALSE],
      [dims |-> <<T(2, 2, 1), C(3, 2, 1), S(5, 2, 1), S(3, 2, 2)>>,
       order |-> <<1, 2, 4, 3>>, maxLevels |-> 1, decimates |-> TRUE] }
=============================================================================
