------------------------------- MODULE Pyramid -------------------------------
(***************************************************************************)
(* zarr::MultiscaleArray (multiscale.array.cpp) and its Downsampler        *)
(* (downsampler.cpp): an image pyramid written one frame at a time.        *)
(*                                                                         *)
(* The full frame goes to level 0.  The Downsampler then makes the frames  *)
(* of the levels below, each from the one above: halved in X and Y, and,   *)
(* where Z is halved too, averaged with its neighbour, for which it waits. *)
(* What is ready is then written level by level.  An array (Array.tla      *)
(* models its flushes) is what it holds at which place of which shard; the *)
(* place is computed as Dimensions says.  The value of a pixel is the set  *)
(* of the camera's pixels it was computed from: decimation takes one, the  *)
(* other methods (mean, min, max) look at all of them.                     *)
(*                                                                         *)
(* Levels count from 1 here: level 1 is the code's level of detail 0.  All *)
(* this runs on the thread that reads the frame queue, save the close.  The*)
(* array of any level may throw while it flushes, which ends the writing.  *)
(* Where X and Y alone are given, every level has a first dimension of one *)
(* plane, which the metadata of the levels below shows and its axes do not.*)
(***************************************************************************)
EXTENDS Levels, Functions, SequencesExt

CONSTANTS Configs,    \* [dims, order, maxLevels, decimates]: the dimensions in
                      \* acquisition order, <<>> or the order they are stored
                      \* in, 0 or the most levels, whether the method decimates
          MaxFrames,  \* bound: frames written
          NoFrame

\* What validate_array_settings accepts; an order that takes X or Y to another
\* place than the last two, or names a dimension twice, is accepted too, and
\* then frame_id_lookup is written outside its bounds.
ASSUME PyramidAssumption ==
    /\ MaxFrames \in Nat
    /\ \A c \in Configs :
          /\ Len(c.dims) >= 2 /\ c.maxLevels \in Nat /\ c.decimates \in BOOLEAN
          /\ \A i \in DOMAIN c.dims :
                /\ c.dims[i].size \in Nat
                /\ i > 1 \/ Len(c.dims) = 2 => c.dims[i].size > 0
                /\ {c.dims[i].chunk, c.dims[i].shard} \subseteq Nat \ {0}
          /\ c.order # <<>> => /\ Len(c.dims) > 2 /\ MayStore(c.dims, c.order)
                               /\ IsInjective(c.order)
                               /\ \A i \in FrameDims(c.dims) :
                                     c.order[i] \in FrameDims(c.dims)

VARIABLES
    config,   \* the configuration of this array
    levels,   \* writer_configurations_: the dimensions of every level
    store,    \* per level: the tile of a frame at each place written
    written,  \* per level: frames_written_
    ids,      \* array_frame_ids_
    partial,  \* per level: partial_scaled_frames_, or NoFrame
    ready,    \* per level: downsampled_frames_, or NoFrame
    count,    \* per level: level_frame_count_
    pc,       \* idle, add or take (at level lod), stopped by an exception or a
              \* failure, closed, or trapped in a division
    lod,
    current,  \* add_frame: the frame of the level above
    scales,   \* the scales in the multiscales metadata, once it is written
    refused   \* history: a frame did not fit its level, or was refused there

vars == <<config, levels, store, written, ids, partial, ready, count, pc, lod,
          current, scales, refused>>
Depth == Len(levels)
Transposed == NeedsTransposition(config.order)
FramesInOrder == \A i \in 1 .. Len(config.order) - 2 : config.order[i] = i
-----------------------------------------------------------------------------
Init ==
    /\ config \in Configs
    /\ levels = LevelsOf(config.dims, config.order, config.maxLevels)
    /\ store = [k \in 1 .. Depth |-> [p \in {} |-> NoFrame]]
    /\ written = [k \in 1 .. Depth |-> 0]
    /\ ids = [k \in 1 .. Depth |-> 0]
    /\ partial = [k \in 1 .. Depth |-> NoFrame]
    /\ ready = [k \in 1 .. Depth |-> NoFrame]
    /\ count = [k \in 1 .. Depth |-> 0]
    /\ pc = "idle" /\ lod = 1 /\ current = NoFrame
    /\ scales = <<>>
    /\ refused = FALSE
-----------------------------------------------------------------------------
(* Array::write_frame, at one level *)

\* Only level 0 knows of the order it is stored in.
FrameIdAt(k, frame) ==
    IF k = 1 THEN TransposeFrameId(WithSingleton(config.dims), config.order, frame)
    ELSE frame

\* The place of a frame's tile: the path of its shard, the slot in the shard
\* and the offset in the chunk.
Place(k, frame, tile) ==
    LET Dims == levels[k]
        id == FrameIdAt(k, frame)
        layer == frame \div FramesPerChunkLayer(Dims)
        chunk == tile + TileGroupOffset(Dims, id)
                 + (layer % Dims[1].shard) * ChunksInMemory(Dims)
    IN  <<<<layer \div Dims[1].shard>> \o DataPath(Dims, ShardIndex(Dims, chunk)),
          ShardInternalIndex(Dims, chunk),
          ChunkInternalOffset(Dims, id)>>

\* write_frame_to_chunks_, one tile: its rows, cut at the frame's edge, each at
\* its place in the chunk.
Tile(k, frame, tile) ==
    LET x == Width(levels[k])  y == Height(levels[k])
        left == (tile % TilesX(levels[k])) * x.chunk
        top == (tile \div TilesX(levels[k])) * y.chunk
        rows == 0 .. Min({y.chunk, y.size - top}) - 1
        cols == 0 .. Min({x.chunk, x.size - left}) - 1
    IN  [p \in {r * x.chunk + c : r \in rows, c \in cols} |->
           frame.pixels[(top + p \div x.chunk) * x.size + left + (p % x.chunk)]]

\* All tiles of the frame.  They count along X first.
Placed(k, frame) ==
    LET place == [t \in Tiles(levels[k]) |-> Place(k, written[k], t)]
    IN  [p \in DOMAIN store[k] \cup Range(place) |->
           IF p \in Range(place)
           THEN Tile(k, frame, CHOOSE t \in Tiles(levels[k]) : place[t] = p)
           ELSE store[k][p]]

\* make_metadata_: the extent of the append dimension once n frames are there.
AppendSize(Dims, n) ==
    FoldLeft(LAMBDA size, i : Parts(size, Dims[i].size), n,
             [j \in 1 .. Len(Dims) - 3 |-> Len(Dims) - 1 - j])

Full(k) == MaxFrameCount(levels[k]) > 0 /\ written[k] >= MaxFrameCount(levels[k])

\* Only the number of bytes is compared, not width and height.
Accepts(k, frame, id) ==
    /\ frame.width * frame.height = Width(levels[k]).size * Height(levels[k]).size
    /\ ~Full(k)
    /\ id = written[k]

Write(k, frame) ==
    /\ store' = [store EXCEPT ![k] = Placed(k, frame)]
    /\ written' = [written EXCEPT ![k] = @ + 1]
-----------------------------------------------------------------------------
(* MultiscaleArray::write_frame *)

\* The camera's frame number n, its rows one after the other.
Acquired(n) ==
    LET dims == WithSingleton(config.dims)
        width == Width(dims).size
    IN  [i \in 0 .. Height(dims).size * width - 1 |-> {<<n, i \div width, i % width>>}]

\* needs_xy_transposition
SwapsXY ==
    LET n == Len(config.order)
    IN  n > 0 /\ config.order[n] = n - 1 /\ config.order[n - 1] = n

\* transpose_frame
TransposeFrame(pixels, rows, cols) ==
    [i \in DOMAIN pixels |-> pixels[(i % rows) * cols + (i \div rows)]]

\* The frame as level 0 stores it.  The caller's frame is exchanged for the
\* transposed one, which is what the Downsampler gets, too.
Frame(n) ==
    LET rows == Width(levels[1]).size  cols == Height(levels[1]).size
    IN  [width |-> Width(levels[1]).size, height |-> Height(levels[1]).size,
         pixels |-> IF SwapsXY THEN TransposeFrame(Acquired(n), rows, cols) ELSE Acquired(n)]

\* The next frame, as it is acquired.  A frame beyond the bounds of level 0 is
\* refused there and goes no further.
WriteBase ==
    LET frame == Frame(written[1])
    IN  /\ pc = "idle" /\ written[1] < MaxFrames /\ ~Full(1)
        /\ Write(1, frame)
        /\ \/ /\ pc' = IF Depth > 1 THEN "add" ELSE "idle"
              /\ lod' = IF Depth > 1 THEN 2 ELSE 1
              /\ current' = IF Depth > 1 THEN frame ELSE NoFrame
              /\ count' = [count EXCEPT ![1] = @ + 1]
           \/ pc' = "stopped" /\ UNCHANGED <<lod, current, count>>
        /\ UNCHANGED <<config, levels, ids, partial, ready, scales, refused>>

\* decimate4 and decimate2 take the first; the others look at all.
Reduced(pixels) == IF config.decimates THEN Head(pixels) ELSE UNION Range(pixels)

RightOf(frame, col) == IF col = frame.width - 1 THEN 0 ELSE 1
Below(frame, row) == IF row = frame.height - 1 THEN 0 ELSE frame.width

\* scale_image: one pixel for every two by two, an odd edge repeated.
ScaleImage(frame) ==
    LET width == Parts(frame.width, 2)
        height == Parts(frame.height, 2)
        Pixel(row, col) ==
            LET here == row * frame.width + col
                right == RightOf(frame, col)
                down == Below(frame, row)
            IN  Reduced(<<frame.pixels[here], frame.pixels[here + right],
                          frame.pixels[here + down], frame.pixels[here + down + right]>>)
    IN  [width |-> width, height |-> height,
         pixels |-> [i \in 0 .. width * height - 1 |->
                       Pixel(2 * (i \div width), 2 * (i % width))]]

\* The level's frame is scaled if the level is smaller than the one above it.
Scaled(k, frame) ==
    IF Width(levels[k]).size < Width(levels[k - 1]).size
       \/ Height(levels[k]).size < Height(levels[k - 1]).size
    THEN ScaleImage(frame)
    ELSE frame

\* mutant: the last of an odd number of planes waits like any other.
AverageAny(k) == ZDim(levels[k]).size < ZDim(levels[k - 1]).size
\* The last of an odd number of planes has no mate at its time point.
AverageThis(k) ==
    LET planes == ZDim(levels[k - 1]).size
    IN  /\ ZDim(levels[k]).size < planes
        /\ ~(planes % 2 # 0 /\ count[k - 1] % planes = 0)

\* average_two_frames
Averaged(first, second) ==
    [first EXCEPT !.pixels = [i \in DOMAIN @ |-> Reduced(<<@[i], second.pixels[i]>>)]]

\* The end of the loop over the levels: what is ready is taken next.
Taking == pc' = "take" /\ lod' = 2 /\ current' = NoFrame

\* add_frame expects frames of the sizes the levels have.
Fits(k, frame) ==
    frame.width = Width(levels[k]).size /\ frame.height = Height(levels[k]).size

\* One turn of the loop of add_frame: the frame of level k, from the one above.
\* A frame that is ready already is not replaced.
DownsampleLevel ==
    LET k == lod
        next == Scaled(k, current)
        mate == partial[k]
        made == IF AverageThis(k) /\ mate # NoFrame THEN Averaged(mate, next) ELSE next
    IN  /\ pc = "add"
        /\ CASE ~Fits(k, next) ->
                  /\ refused' = TRUE /\ pc' = "stopped"
                  /\ UNCHANGED <<lod, current, partial, ready, count>>
             [] Fits(k, next) /\ AverageThis(k) /\ mate = NoFrame ->
                  /\ partial' = [partial EXCEPT ![k] = next]
                  /\ Taking
                  /\ UNCHANGED <<ready, count, refused>>
             [] OTHER ->
                  /\ partial' = IF AverageThis(k) THEN [partial EXCEPT ![k] = NoFrame]
                              ELSE partial
                  /\ ready' = [ready EXCEPT ![k] = IF @ = NoFrame THEN made ELSE @]
                  /\ count' = [count EXCEPT ![k] = @ + 1]
                  /\ IF k < Depth THEN lod' = k + 1 /\ current' = made /\ UNCHANGED pc
                     ELSE Taking
                  /\ UNCHANGED refused
        /\ UNCHANGED <<config, levels, store, written, ids, scales>>

NextTaken == IF lod < Depth THEN lod' = lod + 1 /\ UNCHANGED pc
             ELSE lod' = 1 /\ pc' = "idle"

\* One turn of the loop of write_multiscale_frames_: the frame of a level, if
\* it is ready, is written.  If the array refuses it, the levels below are left
\* alone, and write_frame says Ok nevertheless.
TakeFrame ==
    LET k == lod
    IN  /\ pc = "take"
        /\ ready' = [ready EXCEPT ![k] = NoFrame]
        /\ IF ready[k] = NoFrame
           THEN NextTaken /\ UNCHANGED <<store, written, ids, refused>>
           ELSE /\ ids' = [ids EXCEPT ![k] = @ + 1]
                /\ IF Accepts(k, ready[k], ids[k])
                   THEN /\ Write(k, ready[k])
                        /\ NextTaken \/ (pc' = "stopped" /\ UNCHANGED lod)
                        /\ UNCHANGED refused
                   ELSE /\ refused' = TRUE
                        /\ lod' = 1 /\ pc' = "idle"
                        /\ UNCHANGED <<store, written>>
        /\ UNCHANGED <<config, levels, partial, count, current, scales>>

-----------------------------------------------------------------------------
(* MultiscaleArray::close_ *)

\* The dimensions the metadata shows: not the plane that was added to X and Y.
Axes == IF Len(config.dims) = 2 THEN 2 .. 3 ELSE DOMAIN levels[1]

BitCeil(n) == Min({p \in {2^k : k \in 0 .. n} : p >= n})
RatioAsIs(n) == n                         \* mutant: sizes that are not powers
NextPower(n) == BitCeil(n)

\* The quotient of unsigned sizes.  Without an end the append dimension has the
\* size 0 at every level: ARM divides by zero and gets zero.
Ratio(base, down) == IF down = 0 THEN 0 ELSE Parts(base, down)

\* x86 traps, and the process ends.
DividesByZero ==
    \E k \in 2 .. Depth : \E i \in Axes :
       levels[1][i].type = "space" /\ levels[k][i].size = 0

\* make_multiscales_metadata_: the scale of a dimension at level k.
MetadataScale(k, i) ==
    levels[1][i].scale * IF k = 1 \/ levels[1][i].type # "space" THEN 1
                         ELSE NextPower(Ratio(levels[1][i].size, levels[k][i].size))

\* The levels are closed, and then the metadata is written; any of it may fail.
Close ==
    /\ pc \in {"idle", "stopped"}
    /\ \/ pc' = "stopped" /\ UNCHANGED scales
       \/ DividesByZero /\ pc' = "trapped" /\ UNCHANGED scales
       \/ /\ pc' = "closed"
          /\ scales' = [k \in 1 .. Depth |-> [i \in Axes |-> MetadataScale(k, i)]]
    /\ UNCHANGED <<config, levels, store, written, ids, partial, ready, count, lod,
                   current, refused>>

Next == WriteBase \/ DownsampleLevel \/ TakeFrame \/ Close
Spec == Init /\ [][Next]_vars
-----------------------------------------------------------------------------
(* What a reader of the finished pyramid expects, by the Zarr and NGFF *)
(* specifications and not by the code.                                 *)

\* The frame at position n of an order in which the last dimension is fastest.
CoordinatesAt(Dims, n) ==
    [i \in FrameDims(Dims) |->
       IF i = 1 THEN n \div FramesInside(Dims, 1)
       ELSE (n \div FramesInside(Dims, i)) % Dims[i].size]

\* The frame written to level k as number n, as a point of the stored array.
PointOf(k, n) ==
    IF k > 1 \/ config.order = <<>> THEN CoordinatesAt(levels[k], n)
    ELSE LET a == CoordinatesAt(config.dims, n)
         IN  [i \in FrameDims(levels[k]) |-> a[config.order[i]]]

\* Chunk keys are chunk coordinates, a shard's chunks are in row-major order,
\* so are the frames of a chunk.
ReaderPlace(k, point, tile) ==
    LET Dims == levels[k]
        n == Len(Dims)
        chunk == [i \in 1 .. n |->
                    IF i = n THEN tile % TilesX(Dims)
                    ELSE IF i = n - 1 THEN tile \div TilesX(Dims)
                    ELSE point[i] \div Dims[i].chunk]
    IN  <<[i \in 1 .. n |-> chunk[i] \div Dims[i].shard],
          FoldLeft(LAMBDA s, i : s * Dims[i].shard + (chunk[i] % Dims[i].shard), 0,
                   [i \in 1 .. n |-> i]),
          FoldLeft(LAMBDA s, i : s * Dims[i].chunk + (point[i] % Dims[i].chunk), 0,
                   [i \in 1 .. n - 2 |-> i])>>

\* The extent along dimension i of level 0 that position p of level k covers.
Extent(k, i, p) ==
    LET factor == levels[k][i].scale \div levels[1][i].scale
        all == p * factor .. p * factor + factor - 1
    IN  IF levels[1][i].size = 0 THEN all
        ELSE {q \in all : q < levels[1][i].size}

\* The camera's frames that frame n of level k stands for: the same point but
\* for Z, where it covers the planes of its extent.
Covered(k, n) ==
    LET acquired == WithSingleton(config.dims)
        zAt == Len(acquired) - 2
        point == CoordinatesAt(levels[k], n)
        AcquiredAs(i) == IF config.order = <<>> THEN i ELSE config.order[i]
        Number(z) == Sum(LAMBDA i : (IF i = zAt THEN z ELSE point[i])
                                    * FramesInside(acquired, AcquiredAs(i)),
                         FrameDims(acquired))
    IN  IF k = 1 THEN {n} ELSE {Number(z) : z \in Extent(k, zAt, point[zAt])}

\* What a pixel of frame n of level k is made of: the block that it covers, or
\* the block's first pixel.
Block(k, n, row, col) ==
    LET m == Len(levels[1])
        rows == Extent(k, m - 1, row)  cols == Extent(k, m, col)
        First(S) == IF config.decimates THEN {Min(S)} ELSE S
    IN  {IF SwapsXY THEN <<f, c, r>> ELSE <<f, r, c>> :
           f \in First(Covered(k, n)), r \in First(rows), c \in First(cols)}

\* The chunk's share of frame n: what a reader sees of it there.
ReaderTile(k, n, tile) ==
    LET x == Width(levels[k])  y == Height(levels[k])
        At(r, c) == <<(tile \div TilesX(levels[k])) * y.chunk + r,
                      (tile % TilesX(levels[k])) * x.chunk + c>>
        inside == {q \in (0 .. y.chunk - 1) \X (0 .. x.chunk - 1) :
                     At(q[1], q[2])[1] < y.size /\ At(q[1], q[2])[2] < x.size}
        Position(q) == q[1] * x.chunk + q[2]
    IN  [p \in {Position(q) : q \in inside} |->
           LET at == At(p \div x.chunk, p % x.chunk) IN Block(k, n, at[1], at[2])]

\* The frames of level k all of whose full frames have been written.
Complete(k) ==
    Cardinality({n \in 0 .. written[1] - 1 :
                   Covered(k, n) # {} /\ Max(Covered(k, n)) < written[1]})
-----------------------------------------------------------------------------
(* Properties *)

\* The levels are arrays: nothing is empty, no shard is larger than the level.
TypeOK ==
    /\ config \in Configs
    /\ \A k \in 2 .. Depth : \A i \in DOMAIN levels[k] :
          /\ i > 1 => levels[k][i].size \in Nat \ {0}
          /\ levels[k][i] # levels[k - 1][i] =>
                levels[k][i].shard \in 1 .. ChunksAlong(levels[k][i])
    /\ {written, ids, count} \subseteq [1 .. Depth -> Nat]
    /\ \A k \in 1 .. Depth : \A frame \in {partial[k], ready[k]} \ {NoFrame} :
          Fits(k, frame) /\ DOMAIN frame.pixels = 0 .. frame.width * frame.height - 1
    /\ pc \in {"idle", "add", "take", "stopped", "closed", "trapped"}
    /\ lod \in 1 .. Depth /\ (pc \in {"add", "take"} => lod > 1)
    /\ refused \in BOOLEAN

\* At every level every pixel lies where a reader looks for it, inside the shape
\* the metadata tells, and was made of exactly the camera's pixels it stands
\* for, of no other time point, channel or row; between two frames none is
\* missing.  Below level 0 this needs frames that are stored in the order they
\* are acquired: otherwise the Downsampler pairs neighbours in time, which are
\* not neighbours in Z.  The levels below take every frame they are given: it
\* has their size, it is the next one, and it is not one too many.  Nobody
\* would be told otherwise.
LevelsFaithful ==
    /\ ~refused
    /\ \A k \in 1 .. Depth : k = 1 \/ FramesInOrder =>
          /\ pc = "idle" =>
                written[k] = IF k = 1 THEN written[1] ELSE Complete(k)
          /\ DOMAIN store[k] = {ReaderPlace(k, PointOf(k, n), t) :
                                  n \in 0 .. written[k] - 1, t \in Tiles(levels[k])}
          /\ \A n \in 0 .. written[k] - 1 :
                /\ PointOf(k, n)[1] < AppendSize(levels[k], written[k])
                /\ \A t \in Tiles(levels[k]) :
                      store[k][ReaderPlace(k, PointOf(k, n), t)] = ReaderTile(k, n, t)

\* The scale the metadata gives for a level, computed from the sizes at close,
\* is that of the level's dimensions, doubled whenever they were halved; and
\* close gets as far as that, with one exception.  Where the append dimension is
\* a spatial one without an end, and there is a level below, the code divides
\* its size by the level's, zero by zero (multiscale.array.cpp:252), and the
\* process may end there with all the data written.
ScalesMatch ==
    /\ pc = "closed" =>
          \A k \in 1 .. Depth : \A i \in Axes : scales[k][i] = levels[k][i].scale
    /\ pc = "trapped" =>
          Depth > 1 /\ config.dims[1].type = "space" /\ config.dims[1].size = 0

\* In every layer of every shard the slots of the layer's chunks and the slots
\* that are skipped are the slots of that layer, each once: a shard counts down
\* to zero.  Where bands are flushed on their own, a band's frames are in the
\* band's chunks.
SlotsCovered ==
    \A k \in 1 .. Depth :
       LET Dims == levels[k]
           perLayer == ChunksPerShard(Dims) \div Dims[1].shard
       IN  /\ \A shard \in 0 .. NumberOfShards(Dims) - 1, layer \in 0 .. Dims[1].shard - 1 :
                 LET chunks == ChunkIndicesForShardLayer(Dims, shard, layer)
                     used == {ShardInternalIndex(Dims, c) : c \in chunks}
                     skipped == SkippedInternalIndices(Dims, shard, layer)
                 IN  /\ Cardinality(used) = Cardinality(chunks)
                     /\ used \cup skipped = perLayer * layer .. perLayer * (layer + 1) - 1
                     /\ used \cap skipped = {}
           /\ SupportsBanding(Dims, k = 1 /\ Transposed) =>
                 \A n \in 0 .. FramesPerChunkLayer(Dims) - 1, t \in Tiles(Dims) :
                    (t + TileGroupOffset(Dims, n)) \div ChunksPerBand(Dims)
                       = n \div FramesPerBand(Dims)
=============================================================================
