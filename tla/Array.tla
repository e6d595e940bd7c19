-------------------------------- MODULE Array --------------------------------
(***************************************************************************)
(* zarr::Array (array.cpp): how the frames of one array become chunk jobs  *)
(* of the right layer of the right shard, and how the array is closed.     *)
(*                                                                         *)
(* One thread at a time is in the array: process_frame_queue_ writes       *)
(* frames, and when the pool has been joined finalize_stream closes it.    *)
(* Chunk jobs run on the pool concurrently with it, or, where push_job is  *)
(* not asked or refuses, on its own thread.  A job is one step here: the   *)
(* interleavings inside a shard are Shard's business, those of the pool    *)
(* ThreadPool's.  What is kept of a shard is its countdown and how its     *)
(* finalization went.                                                      *)
(*                                                                         *)
(* An array's geometry is reduced to what the flush logic reads: the       *)
(* frames of a chunk layer and of a dim-1 band, the layers of a shard, the *)
(* chunk slots of a layer with their bands and shards, and the ragged      *)
(* padding slots of each shard.  A chunk's content is the set of frames    *)
(* that were copied into it.  A chunk that is all zeros is skipped and not *)
(* written; it reads back as zeros, so either way it has landed.           *)
(***************************************************************************)
EXTENDS Integers, Sequences, FiniteSets

CONSTANTS Geometries,   \* the geometries an array may have
          MaxFrames     \* bound: frames written to the array

\* What the geometry that the code computes from its dimensions guarantees: a
\* layer has chunks, every slot of it has a shard, every chunk slot a band, and
\* the frames of the bands make up the layer, the last band's perhaps fewer.
ASSUME ArrayAssumption ==
    /\ MaxFrames \in Nat
    /\ \A g \in Geometries :
          LET bands == {g.band[slot] : slot \in DOMAIN g.band}
          IN  /\ g.banding \in BOOLEAN
              /\ {g.frames_per_layer, g.frames_per_band, g.layers_per_shard}
                    \subseteq Nat \ {0}
              /\ IsFiniteSet(DOMAIN g.shard) /\ DOMAIN g.band \subseteq DOMAIN g.shard
              /\ DOMAIN g.band # {}
              /\ bands = 0 .. Cardinality(bands) - 1
              /\ g.banding => g.frames_per_layer <= Cardinality(bands) * g.frames_per_band

VARIABLES
    dims,               \* config_->dimensions
    single,             \* the pool has one thread
    accepting,          \* the pool's accepting_jobs
    error,              \* the stream's error_ is not empty
    frames_written,     \* frames_written_()
    frames_to_flush,    \* bytes_to_flush_, in frames
    chunks,             \* chunks_: per slot the frames in it, {} if null
    current_layer,      \* current_layer_
    flushed_bands,      \* flushed_band_count_
    append_chunk_index, \* append_chunk_index_: the row of shards written now
    live,               \* data_paths_ and shards_ are not empty
    shards,             \* every shard made: its countdown and its finalization
    todo,               \* the slots the flush in progress still has to dispatch
    sent,               \* the jobs made, in order, with the content taken
    pending,            \* the indices in sent of the jobs on the pool
    ended,              \* per job made: pending, landed or lost, and where it ran
    pc,                 \* where the thread in the array is
    closing,            \* close_ has begun
    result              \* what finalize_stream returned, or "none"

frameVars == <<frames_written, frames_to_flush, chunks>>
flushVars == <<current_layer, flushed_bands, append_chunk_index, live>>
jobVars == <<sent, pending, ended>>
streamVars == <<accepting, error>>
vars == <<dims, single, streamVars, frameVars, flushVars, shards, todo, jobVars,
          pc, closing, result>>

ChunkSlots == DOMAIN dims.band                 \* number_of_chunks_in_memory
PadSlots == DOMAIN dims.shard \ ChunkSlots     \* skipped_internal_indices...
Shards == {dims.shard[slot] : slot \in DOMAIN dims.shard}
SlotsOf(s) == {slot \in DOMAIN dims.shard : dims.shard[slot] = s}
ChunksPerShard(s) == Cardinality(SlotsOf(s)) * dims.layers_per_shard
Bands == Cardinality({dims.band[slot] : slot \in ChunkSlots})   \* dim1_band_count

\* tile_group_offset and the tiles: the slots a frame of a layer is copied to.
Touched(frame) ==
    {slot \in ChunkSlots :
        dims.banding => dims.band[slot] =
                          (frame % dims.frames_per_layer) \div dims.frames_per_band}

Row(frame) == frame \div (dims.frames_per_layer * dims.layers_per_shard)
Layer(frame) == (frame \div dims.frames_per_layer) % dims.layers_per_shard

Init ==
    /\ dims \in Geometries
    /\ single \in BOOLEAN
    /\ accepting = TRUE /\ error = FALSE
    /\ frames_written = 0 /\ frames_to_flush = 0
    /\ chunks = [slot \in ChunkSlots |-> {}]
    /\ current_layer = 0 /\ flushed_bands = 0
    /\ append_chunk_index = 0 /\ live = FALSE
    /\ shards = << >>
    /\ todo = {}
    /\ sent = << >> /\ pending = {} /\ ended = << >>
    /\ pc = "idle" /\ closing = FALSE /\ result = "none"
-----------------------------------------------------------------------------
(* Which slots a flush dispatches, and in which order *)

\* compress_and_flush_data_: every slot.
WholeLayer == DOMAIN dims.shard

\* compress_and_flush_band_ for bands from .. to - 1: the padding comes with
\* the last band of the layer.
BandRange(from, to) ==
    {slot \in ChunkSlots : dims.band[slot] \in from .. to - 1}
    \cup (IF to = Bands /\ from < to THEN PadSlots ELSE {})

\* Bands are dispatched one after the other, then the padding of every shard; a
\* whole layer shard after shard, the padding of a shard first.
Rank(slot) ==
    LET padding == slot \in PadSlots
    IN  IF dims.banding
        THEN IF padding THEN <<1, dims.shard[slot], slot>> ELSE <<0, slot, slot>>
        ELSE <<dims.shard[slot], IF padding THEN 0 ELSE 1, slot>>
Earlier(a, b) ==
    \E i \in 1 .. 3 : /\ Rank(a)[i] < Rank(b)[i]
                      /\ \A j \in 1 .. i - 1 : Rank(a)[j] = Rank(b)[j]

CompletedBands(frames) == (frames % dims.frames_per_layer) \div dims.frames_per_band

\* What write_frame flushes once `frames` frames are written:
\* flush_completed_bands_, or should_flush_ and compress_and_flush_data_.
LayerComplete(frames) == frames % dims.frames_per_layer = 0
BandsComplete(frames) ==
    /\ dims.banding
    /\ (frames % dims.frames_per_layer) % dims.frames_per_band = 0
ToFlush(frames) ==
    CASE LayerComplete(frames) /\ ~dims.banding -> WholeLayer
      [] LayerComplete(frames) /\ dims.banding  -> BandRange(flushed_bands, Bands)
      [] ~LayerComplete(frames) /\ BandsComplete(frames) ->
            BandRange(flushed_bands, CompletedBands(frames))
      [] OTHER -> {}

\* mutant: the array rolls over at every layer.
EveryLayer == LayerComplete(frames_written)
\* should_rollover_
ShouldRollover ==
    frames_written % (dims.frames_per_layer * dims.layers_per_shard) = 0
-----------------------------------------------------------------------------
(* The thread in the array *)

\* Where a flush begins: make_shards_ first, if there are none.
StartFlush(slots) ==
    /\ todo' = slots
    /\ pc' = IF slots = {} THEN "flushed" ELSE IF live THEN "dispatch" ELSE "make"

\* write_frame: the tiles go to their chunks, and a band or layer this
\* completes is flushed.  A frame that would exceed the array, or that is out
\* of order, never comes (Stream's NeverRefused).
WriteFrame ==
    /\ pc = "idle" /\ ~closing
    /\ frames_written < MaxFrames
    /\ chunks' = [slot \in ChunkSlots |->
                    IF slot \in Touched(frames_written)
                    THEN chunks[slot] \cup {frames_written} ELSE chunks[slot]]
    /\ frames_written' = frames_written + 1
    /\ frames_to_flush' = frames_to_flush + 1
    /\ StartFlush(ToFlush(frames_written + 1))
    /\ UNCHANGED <<dims, single, streamVars, flushVars, shards, jobVars, closing, result>>

\* make_shards_: a row of new shards.
MakeShards ==
    /\ pc = "make"
    /\ live' = TRUE
    /\ shards' = Append(shards, [s \in Shards |-> [unwritten |-> ChunksPerShard(s),
                                                   state |-> "open"]])
    /\ pc' = "dispatch"
    /\ UNCHANGED <<dims, single, streamVars, frameVars, current_layer, flushed_bands,
                   append_chunk_index, todo, jobVars, closing, result>>

\* It throws when a path or a sink cannot be made.  In write_frame the stream
\* sets its error and writes no more; close_ returns false.
MakeShardsThrows ==
    /\ pc = "make"
    /\ pc' = "failed"
    /\ error' = (error \/ ~closing)
    /\ UNCHANGED <<dims, single, accepting, frameVars, flushVars, shards, todo,
                   jobVars, closing, result>>

\* mutant: the chunk stays in its slot for the next layer to write into.
Shared(slot) == chunks
Taken(slot) == IF slot \in ChunkSlots THEN [chunks EXCEPT ![slot] = {}] ELSE chunks

OnPool == accepting /\ ~single

\* dispatch_chunk_job_ and dispatch_skip_job_: the chunk is moved out of its
\* slot and into a job, which goes to the pool or runs here and now.
DispatchJob(slot) ==
    /\ pc = "dispatch"
    /\ \A other \in todo \ {slot} : Earlier(slot, other)
    /\ todo' = todo \ {slot}
    /\ chunks' = Taken(slot)
    /\ sent' = Append(sent,
                 [row |-> append_chunk_index, layer |-> current_layer, slot |-> slot,
                  frames |-> IF slot \in ChunkSlots THEN chunks[slot] ELSE {}])
    /\ ended' = Append(ended, [how |-> "pending", inline |-> ~OnPool])
    /\ pending' = IF OnPool THEN pending \cup {Len(sent')} ELSE pending
    /\ pc' = IF OnPool THEN "dispatch" ELSE "inline"
    /\ UNCHANGED <<dims, single, streamVars, frames_written, frames_to_flush,
                   flushVars, shards, closing, result>>

\* A job tells its shard.  If its chunk lands (or there is none), the shard
\* counts down and the last one publishes it, in which a failure is the job's;
\* if it does not land (it is not compressed, or no try to write it works),
\* the job fails and the shard counts nothing.
ShardAfter(shard, landed, ok) ==
    IF ~landed THEN shard
    ELSE [unwritten |-> shard.unwritten - 1,
          state |-> IF shard.unwritten = 1 THEN (IF ok THEN "ok" ELSE "bad")
                                           ELSE shard.state]

RunJob(i, landed, ok) ==
    LET job == sent[i]
        s == dims.shard[job.slot]
    IN  /\ job.slot \in PadSlots => landed
        /\ shards' = [shards EXCEPT ![job.row + 1][s] = ShardAfter(@, landed, ok)]
        /\ ended' = [ended EXCEPT ![i].how =
                       IF landed /\ shards'[job.row + 1][s].state # "bad"
                       THEN "landed" ELSE "lost"]

\* The failure of a job that runs on this thread is logged, nothing more.
InlineJob(landed, ok) ==
    /\ pc = "inline"
    /\ RunJob(Len(sent), landed, ok)
    /\ pc' = "dispatch"
    /\ UNCHANGED <<dims, single, streamVars, frameVars, flushVars, todo, sent,
                   pending, closing, result>>

FlushEnds ==
    /\ pc = "dispatch" /\ todo = {}
    /\ pc' = "flushed"
    /\ UNCHANGED <<dims, single, streamVars, frameVars, flushVars, shards, todo,
                   jobVars, closing, result>>

\* mutant: the bands of the finished layer stay counted.
BandsKept == flushed_bands
NoBands == 0

\* mutant: the layer is not reset when the array rolls over.
LayerOn == current_layer + 1
NextLayer == IF ShouldRollover THEN 0 ELSE current_layer + 1

\* The rest of write_frame: after a complete layer, on to the next one or, in
\* rollover_, to the next row of shards, for which the array's metadata is
\* written again; after complete bands, remember them.
EndFrame(metadataOk) ==
    /\ pc = "flushed" /\ ~closing
    /\ IF LayerComplete(frames_written)
       THEN /\ frames_to_flush' = 0
            /\ flushed_bands' = NoBands
            /\ current_layer' = NextLayer
            /\ append_chunk_index' = append_chunk_index + IF ShouldRollover THEN 1 ELSE 0
            /\ live' = ~ShouldRollover
       ELSE /\ flushed_bands' = IF BandsComplete(frames_written)
                                THEN CompletedBands(frames_written) ELSE flushed_bands
            /\ UNCHANGED <<frames_to_flush, current_layer, append_chunk_index, live>>
    /\ IF LayerComplete(frames_written) /\ ShouldRollover /\ ~metadataOk
       THEN pc' = "failed" /\ error' = TRUE
       ELSE pc' = "idle" /\ UNCHANGED error
    /\ UNCHANGED <<dims, single, accepting, frames_written, chunks, shards, todo,
                   jobVars, closing, result>>
-----------------------------------------------------------------------------
(* Jobs on the pool, and shards nobody holds any more *)

\* A job fails with Fatal: the pool stops accepting and the stream has an error.
PoolJob(i, landed, ok) ==
    /\ i \in pending
    /\ pending' = pending \ {i}
    /\ RunJob(i, landed, ok)
    /\ accepting' = (accepting /\ ended'[i].how = "landed")
    /\ error' = (error \/ ended'[i].how = "lost")
    /\ UNCHANGED <<dims, single, frameVars, flushVars, todo, sent, pc, closing, result>>

Held(row, s) ==
    \/ live /\ row = append_chunk_index
    \/ \E i \in pending \cup (IF pc = "inline" THEN {Len(sent)} ELSE {}) :
          sent[i].row = row /\ dims.shard[sent[i].slot] = s

\* ~Shard, when the array and the shard's jobs have let go of it: a shard that
\* was not finalized is, and how that goes is only logged.
DestroyShard(row, s, ok) ==
    /\ shards[row + 1][s].state = "open" /\ ~Held(row, s)
    /\ shards' = [shards EXCEPT ![row + 1][s].state = IF ok THEN "ok" ELSE "bad"]
    /\ UNCHANGED <<dims, single, streamVars, frameVars, flushVars, todo, jobVars,
                   pc, closing, result>>
-----------------------------------------------------------------------------
(* finalize_stream and close_ *)

\* The pool has been joined.  With an error the arrays are not closed, and so
\* destroyed as they are; otherwise close_ flushes what is left of the layer:
\* flush_layer_remainder_, or compress_and_flush_data_.
Close ==
    /\ pc \in {"idle", "failed"} /\ ~closing
    /\ pending = {}
    /\ closing' = TRUE
    /\ accepting' = FALSE
    /\ IF error
       THEN pc' = "failed" /\ UNCHANGED todo
       ELSE StartFlush(CASE frames_to_flush = 0                 -> {}
                         [] frames_to_flush > 0 /\ dims.banding ->
                               BandRange(flushed_bands, Bands)
                         [] OTHER                               -> WholeLayer)
    /\ UNCHANGED <<dims, single, error, frameVars, flushVars, shards, jobVars, result>>

\* finalize_shards_ finalizes those whose countdown did not reach zero; then
\* the array's metadata is written and flushed, if there are frames.  `oks` are
\* the shards that land.
FinalizeShards(oks, metadataOk) ==
    /\ pc = "flushed" /\ closing
    /\ shards' = IF live
                 THEN [shards EXCEPT ![append_chunk_index + 1] =
                         [s \in Shards |->
                            IF @[s].state # "open" THEN @[s]
                            ELSE [@[s] EXCEPT !.state = IF s \in oks THEN "ok" ELSE "bad"]]]
                 ELSE shards
    /\ result' = IF /\ live => \A s \in Shards :
                                  shards'[append_chunk_index + 1][s].state = "ok"
                    /\ frames_written > 0 => metadataOk
                 THEN "Success" ELSE "IOError"
    /\ live' = FALSE
    /\ pc' = "closed"
    /\ UNCHANGED <<dims, single, streamVars, frameVars, current_layer, flushed_bands,
                   append_chunk_index, todo, jobVars, closing>>

CloseFails ==
    /\ pc = "failed" /\ closing
    /\ result' = "IOError"
    /\ live' = FALSE
    /\ pc' = "closed"
    /\ UNCHANGED <<dims, single, streamVars, frameVars, current_layer, flushed_bands,
                   append_chunk_index, shards, todo, jobVars, closing>>

Closed == pc = "closed" /\ UNCHANGED vars
-----------------------------------------------------------------------------
Next ==
    \/ WriteFrame \/ MakeShards \/ MakeShardsThrows \/ FlushEnds
    \/ \E slot \in todo : DispatchJob(slot)
    \/ \E landed, ok \in BOOLEAN : InlineJob(landed, ok)
    \/ \E ok \in BOOLEAN : EndFrame(ok)
    \/ \E i \in pending, landed, ok \in BOOLEAN : PoolJob(i, landed, ok)
    \/ \E row \in 0 .. Len(shards) - 1, s \in Shards, ok \in BOOLEAN :
          DestroyShard(row, s, ok)
    \/ Close
    \/ \E oks \in SUBSET Shards, ok \in BOOLEAN : FinalizeShards(oks, ok)
    \/ CloseFails \/ Closed

Spec == Init /\ [][Next]_vars
-----------------------------------------------------------------------------
(* Properties *)

TypeOK ==
    /\ dims \in Geometries
    /\ single \in BOOLEAN /\ accepting \in BOOLEAN /\ error \in BOOLEAN
    /\ frames_written \in 0 .. MaxFrames
    /\ frames_to_flush \in 0 .. dims.frames_per_layer
    /\ chunks \in [ChunkSlots -> SUBSET (0 .. MaxFrames)]
    /\ current_layer \in 0 .. dims.layers_per_shard - 1
    /\ flushed_bands \in 0 .. Bands
    /\ append_chunk_index \in Nat
    /\ live \in BOOLEAN /\ closing \in BOOLEAN
    /\ shards \in Seq([Shards -> [unwritten : Nat, state : {"open", "ok", "bad"}]])
    /\ \A row \in DOMAIN shards : \A s \in Shards :
          shards[row][s].unwritten <= ChunksPerShard(s)
    /\ todo \subseteq DOMAIN dims.shard
    /\ sent \in Seq([row : Nat, layer : 0 .. dims.layers_per_shard - 1,
                     slot : DOMAIN dims.shard, frames : SUBSET (0 .. MaxFrames)])
    /\ ended \in Seq([how : {"pending", "landed", "lost"}, inline : BOOLEAN])
    /\ Len(ended) = Len(sent)
    /\ pending \subseteq DOMAIN sent
    /\ pc \in {"idle", "make", "dispatch", "inline", "flushed", "failed", "closed"}
    /\ result \in {"none", "Success", "IOError"}

\* The frames written so far whose place is chunk `slot` of a layer and row.
FramesOf(row, layer, slot) ==
    {f \in 0 .. frames_written - 1 :
        Row(f) = row /\ Layer(f) = layer /\ slot \in Touched(f)}

\* Every job carries the frames of its place and no others: a chunk is not
\* taken before its last frame was copied into it (a frame written later would
\* belong to a job that has gone), nor after frames of the next layer were.
FramesInTheirPlace ==
    \A i \in DOMAIN sent :
       sent[i].slot \in ChunkSlots =>
          sent[i].frames = FramesOf(sent[i].row, sent[i].layer, sent[i].slot)

\* Every slot of every layer is dispatched at most once, and all the slots of a
\* row were when the array rolls over to the next: the countdown of each of its
\* shards can reach zero, and cannot go below.
Place(job) == [row |-> job.row, layer |-> job.layer, slot |-> job.slot]
Places(row) == [row : {row}, layer : 0 .. dims.layers_per_shard - 1,
                slot : DOMAIN dims.shard]
EachSlotOnce ==
    /\ \A i, j \in DOMAIN sent : i # j => Place(sent[i]) # Place(sent[j])
    /\ \A row \in 0 .. append_chunk_index - 1 :
          Places(row) \subseteq {Place(sent[i]) : i \in DOMAIN sent}

\* What a successful close is worth: every frame was handed to a job, no job of
\* the pool failed, and every shard in which no job failed inline has landed.
SuccessMeans ==
    result = "Success" =>
       /\ \A f \in 0 .. frames_written - 1 : \A slot \in Touched(f) :
             \E i \in DOMAIN sent : sent[i].slot = slot /\ f \in sent[i].frames
       /\ \A i \in DOMAIN sent : ~ended[i].inline => ended[i].how = "landed"
       /\ \A row \in DOMAIN shards, s \in Shards :
             \/ shards[row][s].state = "ok"
             \/ \E i \in DOMAIN sent : /\ ended[i].how = "lost" /\ ended[i].inline
                                      /\ sent[i].row = row - 1
                                      /\ dims.shard[sent[i].slot] = s

\* The array's side of what it shares with a shard: of every chunk of the shard
\* how its job stands, and of the shard whether and how it was published.
ChunksOf(s) == (0 .. dims.layers_per_shard - 1) \X SlotsOf(s)
Carries(job, row, chunk) ==
    job.row = row /\ job.layer = chunk[1] /\ job.slot = chunk[2]
JobsOf(row, s) ==
    [chunk \in ChunksOf(s) |->
       IF \E i \in DOMAIN sent : Carries(sent[i], row, chunk)
       THEN ended[CHOOSE i \in DOMAIN sent : Carries(sent[i], row, chunk)].how
       ELSE "new"]
OutcomeOf(row, s) ==
    IF row + 1 \in DOMAIN shards /\ s \in Shards THEN shards[row + 1][s].state ELSE "open"
Ledger(row, s) ==
    INSTANCE ShardLedger WITH state <- OutcomeOf(row, s), jobs <- JobsOf(row, s)
AnyShard == UNION {{g.shard[slot] : slot \in DOMAIN g.shard} : g \in Geometries}

\* To each of its shards the array is what ShardLedger says, and Shard relies
\* on: it sends a job for a chunk once, and only while the shard is open, no job
\* runs on a shard that was finalized, and none is under way when the array, or
\* the last who held the shard, finalizes it.
ShardsAreLedgers ==
    [][\A row \in 0 .. MaxFrames, s \in AnyShard :
          [Ledger(row, s)!LedgerNext]_(Ledger(row, s)!ledgerVars)]_vars

\* acquire.zarr.h:328-332 of ZarrStream_close: it "flushes all data durably to
\* storage" and "returns a status code so callers can detect a failed flush".
CloseReportsLostChunks ==
    result = "Success" => \A i \in DOMAIN sent : ended[i].how = "landed"
=============================================================================
