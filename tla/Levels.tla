-------------------------------- MODULE Levels --------------------------------
(***************************************************************************)
(* The levels of an image pyramid: make_writer_configurations_ and         *)
(* downsample_dimension (downsampler.cpp).  The dimensions of every level  *)
(* follow from those of the array alone.  Level 1 is the code's level of   *)
(* detail 0.                                                               *)
(***************************************************************************)
EXTENDS Dimensions

Halved(size) == (size + (size % 2)) \div 2

ShardKept(d, chunks) == d.shard           \* mutant: as many chunks as above
ShardClamped(d, chunks) == Min({chunks, d.shard})

DownsampleDimension(d) ==
    LET size == Halved(d.size)
    IN  [d EXCEPT !.size = size,
                  !.shard = ShardClamped(d, Parts(size, d.chunk)),
                  !.scale = 2 * @]

\* bit_width(n - 1): how often n chunks are halved until one is left.
Divisions(d) == CHOOSE k \in 0 .. ChunksAlong(d) :
                   /\ 2^k >= ChunksAlong(d)
                   /\ k > 0 => 2^(k - 1) < ChunksAlong(d)

ZDim(Dims) == Dims[Len(Dims) - 2]

\* The number of levels below the full one: X and Y together, or Z, if that is
\* a spatial dimension.
NLevels(Dims, maxLevels) ==
    LET xy == Min({Divisions(Width(Dims)), Divisions(Height(Dims))})
        n == IF ZDim(Dims).type = "space" THEN Max({xy, Divisions(ZDim(Dims))}) ELSE xy
    IN  IF maxLevels > 0 THEN Min({n, maxLevels}) ELSE n

\* Z stays when it fits a chunk, X and Y when the smaller one fits the larger
\* chunk: a level may be as large as the one above it.
Downsampled(Dims) ==
    LET z == ZDim(Dims)  y == Height(Dims)  x == Width(Dims)
        halveZ == z.type = "space" /\ z.size > z.chunk
        halveXY == Min({y.size, x.size}) > Max({y.chunk, x.chunk})
        n == Len(Dims)
    IN  [i \in DOMAIN Dims |->
           IF (i = n - 2 /\ halveZ) \/ (i >= n - 1 /\ halveXY)
           THEN DownsampleDimension(Dims[i]) ELSE Dims[i]]

\* make_writer_configurations_.  The levels below take their frames in the
\* order they are acquired, whatever the order of level 0.
BaseLevel(dims, order) == Stored(WithSingleton(dims), order)
LevelsOf(dims, order, maxLevels) ==
    LET base == BaseLevel(dims, order)
        level[k \in Nat] == IF k = 1 THEN base ELSE Downsampled(level[k - 1])
    IN  [k \in 1 .. 1 + NLevels(base, maxLevels) |-> level[k]]
==============================================================================
