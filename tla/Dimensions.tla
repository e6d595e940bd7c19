------------------------------ MODULE Dimensions ------------------------------
(***************************************************************************)
(* ArrayDimensions (array.dimensions.cpp): where a frame goes.             *)
(*                                                                         *)
(* Dims is the sequence of an array's dimensions in storage order, the     *)
(* append dimension first, Y and X last (a 2D array has a singleton put in *)
(* front).  Everything here is computed from it.  Sizes are in tiles: a    *)
(* tile is a frame's share of one chunk.  Frames, chunks and slots count   *)
(* from 0, dimensions from 1.  Extents are small enough not to wrap.       *)
(***************************************************************************)
EXTENDS Integers, Sequences, FiniteSets, FiniteSetsExt

Product(f(_), S) ==
    MapThenFoldSet(LAMBDA a, b : a * b, 1, f, LAMBDA T : CHOOSE x \in T : TRUE, S)
Sum(f(_), S) ==
    MapThenFoldSet(LAMBDA a, b : a + b, 0, f, LAMBDA T : CHOOSE x \in T : TRUE, S)

\* An array of 2 dimensions gets a singleton in front.
Singleton == [type |-> "other", size |-> 1, chunk |-> 1, shard |-> 1, scale |-> 1]
WithSingleton(Dims) == IF Len(Dims) = 2 THEN <<Singleton>> \o Dims ELSE Dims

Parts(size, part) == (size + part - 1) \div part
ChunksAlong(d) == Parts(d.size, d.chunk)
ShardsAlong(d) == Parts(ChunksAlong(d), d.shard)

Height(Dims) == Dims[Len(Dims) - 1]
Width(Dims) == Dims[Len(Dims)]

\* The dimensions that number the frames, and those of them inside one.
FrameDims(Dims) == 1 .. Len(Dims) - 2
Inside(Dims, i) == i + 1 .. Len(Dims) - 2
FramesInside(Dims, i) == Product(LAMBDA k : Dims[k].size, Inside(Dims, i))

\* max_byte_count, in frames: 0 is an append dimension without end.
MaxFrameCount(Dims) == Dims[1].size * FramesInside(Dims, 1)
-----------------------------------------------------------------------------
(* The chunk of a frame's tile, and the place inside the chunk *)

ChunksInMemory(Dims) == Product(LAMBDA i : ChunksAlong(Dims[i]), 2 .. Len(Dims))
ChunkStride(Dims, i) == Product(LAMBDA k : ChunksAlong(Dims[k]), i + 1 .. Len(Dims))
TilesX(Dims) == ChunksAlong(Width(Dims))
Tiles(Dims) == 0 .. ChunksAlong(Height(Dims)) * TilesX(Dims) - 1

ChunkLatticeIndex(Dims, frame, i) ==
    LET inside == FramesInside(Dims, i)
    IN  IF i = 1 THEN frame \div (Dims[1].chunk * inside)
        ELSE (frame % (Dims[i].size * inside)) \div (Dims[i].chunk * inside)

TileGroupOffset(Dims, frame) ==
    Sum(LAMBDA i : ChunkLatticeIndex(Dims, frame, i) * ChunkStride(Dims, i),
        FrameDims(Dims) \ {1})

WithinChunk(Dims, frame, i) ==
    LET position == frame \div FramesInside(Dims, i)
    IN  (IF i = 1 THEN position ELSE position % Dims[i].size) % Dims[i].chunk

ChunkInternalOffset(Dims, frame) ==
    Sum(LAMBDA i : WithinChunk(Dims, frame, i)
                   * Product(LAMBDA k : Dims[k].chunk, Inside(Dims, i)),
        FrameDims(Dims))
-----------------------------------------------------------------------------
(* Layers and bands *)

FramesPerChunkLayer(Dims) == Dims[1].chunk * FramesInside(Dims, 1)

SupportsBanding(Dims, transposed) ==
    Dims[1].chunk = 1 /\ Len(Dims) >= 4 /\ ~transposed
BandCount(Dims) == ChunksAlong(Dims[2])
FramesPerBand(Dims) == Dims[2].chunk * FramesInside(Dims, 2)
ChunksPerBand(Dims) == ChunksInMemory(Dims) \div BandCount(Dims)
-----------------------------------------------------------------------------
(* The shard of a chunk, and its slot there *)

ChunksPerShard(Dims) == Product(LAMBDA i : Dims[i].shard, DOMAIN Dims)
NumberOfShards(Dims) == Product(LAMBDA i : ShardsAlong(Dims[i]), 2 .. Len(Dims))
ShardStride(Dims, i) == Product(LAMBDA k : ShardsAlong(Dims[k]), i + 1 .. Len(Dims))
SlotStride(Dims, i) == Product(LAMBDA k : Dims[k].shard, i + 1 .. Len(Dims))

\* Where chunk number c is along dimension i, the layers one after the other.
ChunkAt(Dims, c, i) ==
    IF i = 1 THEN c \div ChunkStride(Dims, 1)
    ELSE (c % ChunkStride(Dims, i - 1)) \div ChunkStride(Dims, i)

\* A shard spans all its layers: the append dimension does not count here.
ShardIndex(Dims, c) ==
    Sum(LAMBDA i : (ChunkAt(Dims, c, i) \div Dims[i].shard) * ShardStride(Dims, i),
        2 .. Len(Dims))

\* mutant: the slot is counted in the strides of the whole chunk lattice.
SlotInLattice(Dims, c, i) == (ChunkAt(Dims, c, i) % Dims[i].shard) * ChunkStride(Dims, i)
SlotAlong(Dims, c, i) == (ChunkAt(Dims, c, i) % Dims[i].shard) * SlotStride(Dims, i)
ShardInternalIndex(Dims, c) == Sum(LAMBDA i : SlotAlong(Dims, c, i), DOMAIN Dims)

ChunkIndicesForShardLayer(Dims, shard, layer) ==
    {c \in 0 .. ChunksPerShard(Dims) * NumberOfShards(Dims) - 1 :
       ShardIndex(Dims, c) = shard /\ c \div ChunksInMemory(Dims) = layer}

SkippedInternalIndices(Dims, shard, layer) ==
    LET perLayer == ChunksPerShard(Dims) \div Dims[1].shard
        used == {ShardInternalIndex(Dims, c) :
                   c \in ChunkIndicesForShardLayer(Dims, shard, layer)}
    IN  (perLayer * layer .. perLayer * layer + perLayer - 1) \ used

\* construct_data_paths: the path of shard number s, one part per dimension
\* after the first.
DataPath(Dims, s) ==
    [i \in 1 .. Len(Dims) - 1 |->
       (s \div ShardStride(Dims, i + 1)) % ShardsAlong(Dims[i + 1])]
-----------------------------------------------------------------------------
(* Frames that are acquired in one order and stored in another *)

\* order[i] is the acquisition dimension that is stored as dimension i.  The
\* first stays, Y and X are stored last.
MayStore(acquired, order) ==
    /\ order \in [DOMAIN acquired -> DOMAIN acquired]
    /\ order[1] = 1
    /\ \A i \in Len(order) - 1 .. Len(order) : acquired[order[i]].type = "space"

Stored(acquired, order) ==
    IF order = <<>> THEN acquired
    ELSE [i \in DOMAIN order |-> acquired[order[i]]]

NeedsTransposition(order) == \E i \in DOMAIN order : order[i] # i

\* frame_id_lookup, for the dimensions inside the first one: the frame's
\* coordinates in acquisition order, and their number in storage order.
TransposeFrameId(acquired, order, frame) ==
    LET stored == Stored(acquired, order)
        inner == FramesInside(acquired, 1)
        Coordinate(i) == ((frame % inner) \div FramesInside(acquired, i))
                         % acquired[i].size
    IN  IF ~NeedsTransposition(order) THEN frame
        ELSE (frame \div inner) * inner
             + Sum(LAMBDA i : Coordinate(order[i]) * FramesInside(stored, i),
                   FrameDims(stored) \ {1})
=============================================================================
