# acquire-zarr in TLA+

acquire-zarr writes a stream of camera frames to Zarr v3 stores, on a file
system or on S3, from C, C++ or Python. A user thread appends bytes; a job on a
thread pool takes whole frames from a queue and scatters them into chunks;
further jobs compress the chunks and write them into shards; closing the stream
flushes what is left and says whether everything landed. This directory models
that path, checks it with TLC on small instances, and proves the parts that
matter most with TLAPS. Line numbers below are of the files under
`src/streaming/` unless another path is given.

## The system

| Component | State it keeps | Operations | Talks to |
|---|---|---|---|
| Frame queue (`frame.queue.cpp`) | ring of slots, `write_pos_`, `read_pos_`, mutex | push, pop, clear, size, full, empty, bytes_used | the stream |
| Stream (`zarr.stream.cpp`) | queue, `process_frames_`, `frame_queue_processing_done_`, `error_`, per array the open partial frame and three counters | append, process_frame_queue_ (a pool job), finalize_stream, set_error_, write_custom_metadata | queue, pool, arrays |
| Thread pool (`thread.pool.cpp`) | job queue, `accepting_jobs`, threads, condition variable | push_job, execute_job, execute_job_with_retry, process_tasks_, await_stop | error handler of the stream |
| Array (`array.cpp`) | chunk slots of one layer, layer, band and row counters, the row of shards, outstanding jobs | write_frame, flush of a layer or a band, rollover_, close_ | pool, shards, metadata sink |
| Shard (`shard.cpp`) | offset/extent table, file offset, countdown of unwritten chunks, sink, result of the finalization | write_chunk, skip_chunk, finalize, destructor | sink |
| File handle pool, file sink (`file.handle.cpp`, `file.sink.cpp`) | LRU cache of handles with reference counts | get_handle, return_handle, close; write, flush_ | operating system |
| S3 sink, connection pool (`s3.sink.cpp`, `s3.connection.cpp`) | part buffer, multipart upload; free connections | write, flush_; get_connection, return_connection | S3 |
| Array dimensions (`array.dimensions.cpp`) | none | index arithmetic: chunk, slot and shard of a frame, bands, transposition | array, shard |
| Downsampler, multiscale array (`downsampler.cpp`, `multiscale.array.cpp`) | per level: a frame that waits for its neighbour, a frame that is ready, counters; the arrays of the levels | add_frame, take_frame; write_frame, multiscales metadata | array |
| Store creation (`zarr.stream.cpp`, `plate.cpp`) | arrays, groups, plates and wells of the stream; what is at the store path | validation, commit of arrays and plates, metadata of groups | file system, S3 |
| Settings (`acquire.zarr.cpp`, `settings.io.cpp`) | the caller's struct and the blocks its pointers own | create and destroy functions, load, dump, stream creation | stream |
| Logger, platform layer, Python bindings | | | |

How a frame travels:

    user thread          pool: process_frame_queue_            pool: chunk jobs
    -----------          --------------------------            ----------------
    append -> queue  ->  pop -> Array::write_frame
                          -> layer or band complete
                          -> dispatch jobs              ->   compress, Shard::write_chunk
                                                             -> sink -> last one: table, flush
    close: wait, join the pool, Array::close_ on this thread (its jobs run inline)

What is hard here, and hard to test: two condition variables and lock-free
flags between append, the frame-queue job and close; a pool that stops by
itself when a job fails while others are queued; jobs that run on the pool or,
when it refuses them, on the thread that offers them; shards that are published
by whichever chunk job comes last, retried, and dropped by their array while
jobs still hold them; counters of layers, bands and rows that decide which chunk
of which shard a frame belongs to; failures anywhere in it that close has to
report; index arithmetic that a reader has to agree with from the metadata
alone; settings that the stream writes into and somebody else frees.
`PROJECT.json` lists each of these at its line under "hazards" with the
properties that would catch it.

## Modules

| Module | Models | Checked by | Proved in |
|---|---|---|---|
| `FrameFifo` | what the queue promises: a bounded FIFO of labelled frames | | |
| `FrameQueue` | the ring buffer; one action per operation under its mutex | `MCFrameQueue` | `FrameQueue_proofs` |
| `FrameQueueObservers` | adds empty, full and size as two loads each, racing the rest | `MCFrameQueue` | `FrameQueue_proofs` |
| `Stream` | append, the frame-queue job, the workers' failures, close; composed with `FrameFifo` | `MCStream` | `Stream_proofs` |
| `JobPool` | what the pool promises: a job is run here or there, ends once, and nothing outlives a stop | | |
| `ThreadPool` | the pool, its condition variable and the inline execution | `MCThreadPool` | `ThreadPool_proofs` |
| `FileHandles` | the bounded cache of open files under the sinks that share it | `MCFileHandles` | `FileHandles_proofs` |
| `ShardLedger` | what a shard is to its array: one job per chunk, and a result that says whether all landed | | |
| `Shard` | a shard under the jobs that write its chunks | `MCShard` | `Shard_proofs` |
| `Array` | flush, rollover, dispatch and close of one array | `MCArray` | `Array_proofs` |
| `S3Sink` | the sinks of objects on S3 and the connections they share | `MCS3Sink` | `S3Sink_proofs` |
| `Dimensions` | the index arithmetic of an array, as operators | through `Pyramid` | |
| `Levels` | the dimensions of the levels of a pyramid, as operators | through `Pyramid` | |
| `Pyramid` | a multiscale array: downsampling, and where every pixel goes | `MCPyramid` | |
| `Store` | which settings are accepted and what store they ask for, as operators | through `Settings` | |
| `Settings` | the settings' life, and a stream from its creation to its close | `MCSettings` | `Settings_proofs` |

The modules divide the system at its interfaces and each keeps the part of its
neighbour's behaviour that it depends on:

* `Stream` uses the queue through its abstract specification `FrameFifo`;
  `FrameQueue` is shown to implement it, and `FrameQueueObservers` shows which
  unlocked reads of it are exact, so that the stream may read `empty()` in one
  step. A worker job is in `Stream` only something that ends, well or with an
  error.
* `ThreadPool` has the stream's job as the feeder that offers the other jobs, and
  implements `JobPool`: the pool takes a job while it accepts, otherwise the one
  who offers it runs it, and await_stop leaves none behind. That is all `Stream!Join`
  and `Array!OnPool` take from it.
* `ShardLedger` is the interface between an array and its shards: a job is sent
  for a chunk and ends, and the job that counts last fixes the shard's result.
  `Shard` implements it with its table, its countdown and its writers, which race
  (`ImplementsLedger`); `Array`, which has a job as one step, keeps one ledger for
  each shard of each row and moves it by the ledger's steps only (`ArrayKeepsLedgers`
  in `Array_proofs`). So what `Shard` shows for one shard holds for those of an
  array, and `EachSlotOnce` is what `Shard` assumes: every chunk is sent once.
* `S3Sink` and `FileHandles` are the two sinks under `Shard`. A write or a flush
  that fails there is Shard's `WriteFails` and an unsuccessful flush.
* `Dimensions` computes what `Array` takes as the constant `Geometries`:
  `SlotsCovered` says that slots, padding and bands are what `Array` assumes.
* `Settings` makes a stream of settings by the operators of `Store`, and takes it
  to its close one call at a time; what appends, jobs and failures do to it in
  between is `Stream`'s.

### FrameQueue, FrameFifo, FrameQueueObservers

`buffer`, `write_pos` and `read_pos` are the members; `out` stands for the
arguments pop returns by reference, because pop swaps the caller's vector with
the slot's. A frame is a label (array key and frame id, which the queue copies
together) and its bytes; labels have different frame sizes so that slots grow
and shrink. A frame without data is `Null`: push resizes the slot and copies
nothing. An observer is two steps, its first load and its answer, and any
push, pop or clear of the other thread may come between.

### Stream

One user thread makes the calls, as the interface requires. What runs under
`frame_queue_mutex_` up to a wait is one action; stores to the atomics outside
it are actions of their own, so `Close` (which stores `process_frames_`) and
`CloseNotify` are apart. `consumer` is where process_frame_queue_ is, `user`
where append or finalize_stream is, with what is left of the call, what it took,
and how far it moved the caller's pointer. An array here is a counter of frames
and the checks write_frame makes before it takes one. The frame queue is small;
in the code it holds 16 to 512 frames, and nothing depends on the number.

### ThreadPool

`thread[t]` is where each thread is in process_tasks_. `jobs_cv_` is the set of
threads in state "waiting": notify_one moves any one of them, notify_all all.
The failure path is three steps, as in the code: the lock is released before
the notify and the error handler. `status` follows each job and is not read by
any guard of the pool except that a job is offered once. The constructor is
`PoolSize`, with a machine of one core among the instances.

### Shard

A writer per chunk enters, claims its range, writes, counts, and if it is the
last finalizes; each is a step, because the mutex is not held between them. A
call that returns false is made again up to `Tries` times, as
Array::dispatch_chunk_job_ does. Which chunks are skipped is chosen at the
start. Close is the finalization from outside, by Array::finalize_shards_ or the
destructor, at a time when no writer is left. A skip job of the padding makes
one try only; the shard does not tell that apart from a chunk job that succeeds
or gives up. The sink is released only when its flush succeeded (sink.cpp:39-43).

### FileHandles

`refcount` is the cache: its domain is the cached files. The waits of
get_handle are two places, "get" before the file is looked up and "settle" with
a handle opened after a backoff; between them the mutex is not held, and
everything else of get_handle is one action. An attempt to open a file succeeds
or fails as it likes. A thread's call is FileSink::write or flush_: it borrows
the handle of its file and returns it. `sinks` says which files have a FileSink;
its destructor runs when no call on it is in progress, as Shard's `SinkAlive`
shows for the sinks of shards. A handle opened after a backoff is counted by
nobody while its thread waits for space, so the process may hold more files open
than the limit by one for each such thread; `WithinLimit` is about the cache.
The failure of getrlimit, which makes the limit 0 and the second get_handle wait
for ever, is excluded by `FileHandlesAssumption`. The code erases a cached file
from the LRU list through the iterator it keeps with the handle; `NotOnLru` does
it by the file's place, and `FileHandles_proofs` shows that there is one place
only.

### Array

A geometry is what the flush logic reads of the dimensions: frames per chunk
layer and per band, layers per shard, and for each chunk slot its band and its
shard, with the padding slots of ragged shards. A chunk is the set of frames
copied into it. `todo` is the set of slots the flush in progress still has to
dispatch, and `Earlier` the order in which the code takes them: bands one after
the other with the padding last, or a whole layer shard by shard with the padding
of each first. `ArrayAssumption` says which geometries there are: a layer has
chunks, bands are numbered from 0, and with banding the frames of the bands make
up the layer (array.dimensions.cpp:330-367; `SlotsCovered` compares this with the
dimensions themselves). `sent` and `ended` record the jobs and how they ended, which
the properties speak of. The flush counters are advanced in `EndFrame`, after
the last dispatch. A chunk that is empty is skipped in the code and reads back
as zeros; here it is a job that lands.

### S3Sink

A sink collects bytes in a part buffer; a full buffer is uploaded as a part, and
the flush completes the upload or, when no part was needed, puts the object
whole. A byte is its offset in the object, so that one can see where it ended
up. The writes and their ranges are constants (`Plan`, `Offset`), consecutive and
disjoint as `RangesDisjoint` of `Shard` has them; an upload's parts are kept as the
bytes they add up to. A shard's sink gets its chunks in any order, each up to
`MaxTries` times, then the table; a document's sink gets one write. `Together`
lists the sets of sinks that one stream makes.

`Shard::write_chunk` holds the shard's mutex for the claim (shard.cpp:66-69 and
86-88) but not for the write (line 91), and `S3Sink` has no lock. So every write
has a caller of its own, and callers of one sink take turns step by step; at most
`NThreads` chunks are being written, since every job runs on a thread of the pool,
or after its end on the thread that closes. Caller 0 makes the sink and finalizes
it. A call is cut where the code reads the members again: where it sets
`nbytes_buffered_` from its offset, where it copies, where it enters
`flush_part_`, and at its requests, each of which waits for a connection and is
then answered, refused or made to throw. Connections are counted: a caller holds
one, waits asleep, or the pool has it. `overlapped` has the sinks that had two
calls of write at once.

`AckedBytesLand` says where the guarantees end. It speaks of the sinks whose
writes came one at a time, in whatever order. If no part is lost, everything
acknowledged is in the object. A part that is lost leaves a gap that the parts
after it close up, and bytes that were acknowledged before are gone, but then a
call has failed and the stream has an error. A chunk that comes more than a
buffer ahead of what was uploaded is copied past the end of the buffer
(s3.sink.cpp:67 takes `nbytes_buffered_` from the offset without a bound); the
model stops that call there ("corrupt"). In the order of their offsets, without a
lost part, chunks stay inside.

Nothing in the code makes the writes come one at a time, and where two overlap
both halves fail. Without `\ overlapped` in `AckedBytesLand`, TLC finds on the
plans of `MCS3Sink`, with parts of 2 bytes:

* chunks of 1, 4 and 1 bytes, begun in order, nothing lost. Chunk 1 is
  acknowledged; chunks 2 and 3 call write one after the other before chunk 2 has
  copied anything. `nbytes_buffered_` is then 5, and the copy goes past the
  buffer's end. A chunk that begins while another one waits at
  s3.sink.cpp:152-168 does the same, as `nbytes_flushed_` advances at 184 only.
* chunks of 2 and 2 bytes, a table of 1. Chunk 2 (offset 2) and chunk 1 (offset 0)
  set `nbytes_buffered_` in this order, so both copy to the start of the buffer
  and both flush it. The object is 2, 3, 0, 1, 4: every write was acknowledged,
  the upload is complete, close reports success, and the chunks are swapped.

So the property is a guarantee where writes cannot overlap: documents, shards of
one chunk, and a pool of one thread (`AloneOnOneThread` in `S3Sink_proofs`), which
only a machine with one core has. With two, jobs overlap only while the pool is
being stopped. `ConnectionsAccounted` and `RequestsServed` hold of all sinks,
overlapping or not; so do the types, but for the bound on `nbytes_buffered_`.

### Dimensions, Levels, Pyramid

`Dimensions` and `Levels` are functions of the dimensions: chunk lattice, tile
group, offset in the chunk, bands, shard and slot, order of storage; and the
sizes of the levels below. `Pyramid` writes frames with them. A pixel's value is
the set of the camera's pixels it was computed from, a frame number with a row
and a column, so that mean, minimum and maximum are the union and decimation is
one member. `partial` and `ready` are `partial_scaled_frames_` and
`downsampled_frames_`; `store` maps a shard, a slot and a place in the chunk to
the tile that was copied there. add_frame is one step per level, as is the
writing of what is ready. `LevelsFaithful` compares the store with a reader, who
has the metadata only: chunk coordinates are quotients, shards and slots are
row-major, and the block of a pixel is what the levels' scales say.

`Close` is close_ with the scales of the metadata (`ScalesMatch`), which the code
computes from the sizes once more. For a spatial append dimension without an end
(ZYX with Z open) and with a level below, multiscale.array.cpp:250-252 computes
`(0 + 0 - 1) / 0`: undefined, and in the builds there are either a trap (x86), after
the arrays were closed and before the metadata is written, or zero (ARM), which
becomes a factor of 1. The model takes either; `ScalesMatch` names the trap as the
one way in which close does not get as far as the metadata, and says of the
scales written otherwise, that case included, that they are right. `Settings`
keeps what a metadata document is about and not its content, so its
`StreamAsAsked` says nothing of this trap. With two dimensions the code shows two
axes in the multiscales metadata, while the arrays below keep three in theirs;
`Axes` has the two, and `levels` keeps the singleton.

Frames stored in another order than they are acquired are downsampled in the
order they come, so neighbours in acquisition are averaged and not neighbours in
Z (`FramesInOrder` is the condition under which the property speaks of the lower
levels). Orders that name a dimension twice or move Y or X away from the end are
excluded by `PyramidAssumption`: the code accepts them and then indexes
`frame_id_lookup` out of its bounds. Extents do not wrap.

### Store, Settings

Settings are records; a key is a sequence of segments, with empty ones where
slashes meet. What the code finds out about a name from its characters
(numeric, reserved, plain, invalid, how YAML reads it unquoted) are constants,
so names stay members of a small set. `SettingsAssumption` gives the parts of
settings their types and says that `zarr.json` is the name of a metadata file;
`LevelsAssumption` that the numbers by which levels are named are numeric and
no names of metadata files. `Store` is validation and the tree of
nodes. `Settings` is a caller who creates the lists of a settings struct in the
order of their nesting, or again, or loads them from text (which may fail at any
field), dumps them in either format, makes a stream of them, gives them back.
A block of memory is named by the pointer it was allocated for; `live` are the
blocks allocated, `again` those freed twice. A stream is there for one caller at
a time; `CommitStore`, `ConfigureArrays`, `CommitPlates` are the stages of its
constructor, any of which the file system or S3 may fail, and `FinalizeArray`,
`WriteGroup` those of close.

Some properties state conditions, which are places where the code lets
something through:

* `Orderly`: an array declared after one below it is not noticed
  (zarr.stream.cpp:756), nor is the name of a metadata file as the first segment
  of a key (zarr.stream.cpp:741: only the segments after a slash are looked at).
* `RefusedLate`: names and acquisitions of a plate, and a first dimension of
  size zero in two dimensions, in an array or in a field of view, are found after
  the old store was removed.
* `again \subseteq keyed`: the path of a field of view is freed twice by
  ZarrStreamSettings_destroy_loaded after a stream was made of the settings
  (zarr.stream.cpp:1361 and settings.io.cpp:947). A second stream of such
  settings starts with `error_` set (`reused`).
* `HasUnused`: an acquisition that no image belongs to throws out of
  ZarrStream_close (plate.cpp:127). An image without an acquisition id reads an
  empty optional (plate.cpp:155): `UnsetIds` are values it may read as.
* `PlatesApart`: of two plates at one path only the first is written
  (zarr.stream.cpp:1375), and a plate at a well of another is written as a plate
  only, which the attempt at a proof brought to light; the settings of the run
  have both.

## Runs

| Run | Instance | Shows |
|---|---|---|
| `frame_queue` | 2 frames (3 slots), labels of 1 and 2 bytes, two byte values, one observer call at a time | FIFO, honest observers, refusals only when due |
| `frame_queue_null` | the same, without clear | violated: an append without data is not zeros |
| `stream` | 2 arrays (frames of 2 and 1 bytes, 6 and 2 bytes long), queue of 1, calls of up to 3 bytes, 2 worker jobs at once | `Accounting` (no byte lost or counted twice, the caller's bytes read once in order, frames in order), `CleanClose` (arrays closed in peace, what success means), every call returns, the queue drains |
| `stream_partial` | the same, no worker jobs | violated: a partial frame is dropped by a successful close |
| `thread_pool` | pools of 1, 2 and 3 threads, a feeder and 2 jobs, 1 retry, 2 inline tries | no job lost or run twice, await_stop drains and returns (`JobsAndStopEnd`), failures reported first; the pool is a `JobPool` (`ImplementsPool`) |
| `shard` | 3 chunks of 2, 3 and 4 bytes, each written or skipped, 3 tries | disjoint ranges, truthful table, live sink, success means published; the shard is a `ShardLedger` (`ImplementsLedger`) |
| `file_handles` | 3 threads with 2 calls each, 3 files, 2 handles, 2 attempts to open | no handle closed in use, the limit kept and no file without a sink held open (`WithinLimit`), calls end |
| `array` | a banded geometry of 2 bands with padding, and a plain ragged one, 2 layers per shard, 7 frames | every frame in its place, every slot once, what a successful close means |
| `array_loss` | the same, 3 frames | violated: a chunk lost inline is not reported by close |
| `s3` | a shard (chunks of 1, 4 and 1 bytes, a table of 1), or one of 2 chunks of 2 bytes and a document; parts of 2 bytes, 2 threads, 2 connections, 2 tries | what was acknowledged one write at a time lands or the stream is told, connections are lost only to exceptions, requests are served |
| `pyramid` | 12 arrays of 2 to 5 dimensions, up to 20 frames | every pixel of every level where a reader looks for it and made of the right pixels, scales as far as close computes them, slots and padding |
| `settings` | 24 settings: accepted, refused for one reason each, found out late, or not found out at all; 2 streams, one list created again | no two writers of a node, no store lost to a refusal, nothing leaked, dump and load keep the meaning, the stream has and describes what was asked for |

Why the bounds are enough. The queue of three slots wraps around, is full, is
empty in every rotation, and reuses a slot of either size for either size. A
stream queue of one frame makes append wait at every second frame; two arrays
make frames of different arrays alternate; a call of three bytes fills, completes
and opens partial frames of two. Two jobs and a feeder on three threads leave a
thread waiting while another requeues. Three chunks leave a writer at every
place when the last one finalizes. Two handles and three threads on three files
fill the cache with borrowed handles, with a borrowed and an unused one, and
leave one thread or two waiting for a file that is, or is not, cached; with two
attempts a thread backs off and comes back to a full cache or to its file opened
by another (the code makes three; a third only backs off once more). Seven frames pass two rows of shards in
either geometry and stop in the middle of a layer and of a band. The middle chunk of the
larger S3 shard fills a part in its middle and puts the chunk after it more than a
buffer ahead; the smaller shard's chunks are a part each; with two threads any two
of a shard's chunks overlap, and with a document beside them one of three callers
has to wait for a connection. The pyramids
have odd and even extents, ragged chunks and shards, Z halved once, twice, not
at all and as the append dimension, and two orders of storage; 20 frames are two
time points of the largest and several of the others, and the deepest has four
levels. Two streams of the same settings show what the first leaves in them.
The counters
are bounded by the arrays' sizes (`MaxArrayBytes`), by `MaxFrames` and by
`Tries`; `MaxAppend` and `MaxJobs` bound a call and the workers outstanding;
`MaxTries`, `MaxStreams` and `MaxRebuilds` bound the rest. Deadlock is not
checked in `s3`, `pyramid` and `settings`, which really stop: when every object
is closed or every connection lost, when the last frame is written, and when the
caller has no stream left to make.

### Fairness

`Stream`: weak fairness of append once called, of close once called, of the
frame-queue job and of the workers: these are threads that are scheduled and
whose locks are held for bounded sections. Nothing is assumed of the user, and
neither the timeouts (100 ms and 300 s) nor spurious wakeups are fair, so
liveness does not lean on them. `ThreadPool`: every thread goes on, except that
the feeder ends its job only once the stream stops; await_stop and jobs that
run inline go on once begun. `FileHandles`: every
thread goes on with a call it made; nobody has to make one, and calls are
bounded (`MaxCalls`), because a condition variable is not fair and a thread
could be overtaken for ever by endless calls of others. `S3Sink`: every caller
goes on with a call it made when it can, and the server answers every request,
if only by failing it; nobody has to make a call, and calls are bounded by the
plan and `MaxTries`. `FrameQueue`, `Shard`, `Array`, `Pyramid` and `Settings`
state safety only.

### Where code and documentation disagree

Three runs are expected to be violated; `PROJECT.json` quotes the lines.

* `frame_queue_null`: `ZarrStream_append` with NULL is documented to append
  zeros; push leaves the slot's old bytes.
* `stream_partial`: `ZarrStream_close` is documented to flush all data; the
  bytes of an incomplete frame are dropped in silence. `CleanClose` is what does
  hold: every frame that was queued is in its array.
* `array_loss`: `ZarrStream_close` is documented to return a status by which a
  failed flush is detected; a chunk that fails in a job run inline is logged
  only. Every flush that close itself makes is inline. `SuccessMeans` is what
  does hold.

## Proofs

All for every value of the constants that satisfies the stated assumptions.

`FrameQueue_proofs`, from `NumFramesAssumption` (at least one frame) and
`FrameAssumption` (frames are not empty, a frame is not the null pointer):
type correctness; `WindowReady` (which no run lists); `RefusedOnlyWhenDue`; and that the ring
implements `FrameFifo` under the mapping that reads the window of the ring as a
sequence. The invariant is types and `WindowReady`, without which a ready flag
could make pop refuse on a queue that is not empty. The argument is modular
arithmetic: how the size changes when a position moves on, that the slots of
the window stay where they are when the other end moves, and that the slot
written is outside it.

The same module proves the answers of empty, full and size (`ObserversHonest`) for
any capacity. What is inductive is what the first of the two loads is worth
(`FirstLoadWorth`): it is still the position, or one that the other thread has left
behind and cannot pass again during the call.

`Shard_proofs`, from `ShardAssumption` (finitely many chunks, positive sizes, at
least one try): type correctness, with the unsigned countdown never below zero;
disjoint ranges; a live sink; a truthful table; success means published; and
the finalization happens once (`FinalizedOnlyOnce`, which no run checks). None of these is inductive. `IInv` adds
`Countdown` (until the shard is finalized the counter is the number of chunks
whose job has not reported success, so the writer that takes it to zero is
alone), `Settled` (outside its own write a chunk's entry and its bytes agree),
`Published` (what the shard's result says of the table and the flush) and
`TriesLeft`. There is one lemma per action. That the shard implements `ShardLedger`
(`ShardIsLedger`) needs one more part, `Answer`: while a writer carries a result to
its caller, the ledger that the table and the writers stand for already has it.

`ThreadPool_proofs`, from `PoolAssumption` (the feeder is a job, the inline
execution tries at least once): types, `OnePlace` and `StopDrains`, for any number
of jobs and any machine. The invariant adds `Holds` (the queue lists the jobs whose
status says so, each once), `RunOnce`, `Reports` (a failure that was not reported is
with the thread that will report it) and `Draining`: as long as there is a job on
the queue some thread has not left. That thread is the one which requeued it, and
this is why a retry in a pool that is stopping is not left behind. `PoolIsJobPool`
shows that the threads, the condition variable and the inline execution implement
`JobPool`; where a job stands is read off the thread that has it (`Stands`), and
`Offering` says that the feeder offers a job that nobody has had before.

`Stream_proofs`, from `StreamAssumption` (a stream has an array,
zarr.stream.cpp:689; frames are not empty; a queue of one frame or more): types,
`Accounting` and `CleanClose`. `Accounting` speaks of states without an error, but
is not inductive that way: a worker sets the error while the consumer goes on.
`Flow` is what holds until the consumer stops; it gives the id of every frame on the
queue by the number of frames of its array in front of it, in the consumer's hands
and in the array. `Limited` bounds a call before its bytes are taken, `CallState`
says what a call has taken where, and `Stopping` who may have cleared
`process_frames_` and what the queue holds when the consumer leaves; from the last
follows that a close without an error finds the queue empty.

`FileHandles_proofs`, from `FileHandlesAssumption` (finitely many files and
threads, a limit of at least one): types, `BorrowedStaysOpen` and `WithinLimit`.
They are inductive together with `Lists` (the list has every cached file once, so
that erasing at a place takes the file off) and `CallsHaveSinks` (so that closing
a sink finds no borrow). The work is in counting borrowers: a reference count is
the cardinality of a set of threads from which each step takes one or to which it
adds one.

`S3Sink_proofs`, from `S3SinkAssumption` (writes of positive length in consecutive,
disjoint ranges, of which a document has one; positive sizes): types,
`ConnectionsAccounted`, by counting the callers that hold a connection, and
`AckedBytesLand`. The invariant has two layers. `Base` is said of every sink, whoever
is inside it: types, connections, and that the table and the flush wait for the
chunks. `SinkInv` is said of the sinks outside `overlapped` only, and is proved
inductive for them: a step either comes from the one caller inside, or puts the sink
into `overlapped`. `AckedBytesLand` is proved for those sinks and for no others;
`AloneOnOneThread` proves that with one thread all are among them.
`SinkInv` says where every byte of an acknowledged write is
(`Stored`): in a part at its offset or in the buffer as far behind the flushed
bytes. `CallState`, `Stage` and `TableLast` say how far the write in progress, the
upload and the plan have come; `Inside` and `LossIsSeen` why a write that begins in
a lost part fails where the stream sees it; `Orderly` why chunks that come in the
order of their offsets stay inside the buffer. The assumption states disjointness
and adjacency of the ranges both, because that the second implies the first is an
induction over the plan.

`Array_proofs`, from `ArrayAssumption`: types, `FramesInTheirPlace`, `EachSlotOnce`
and `SuccessMeans`, for every geometry, any number of frames, any refusal of the
pool and any order in which its jobs end. Row, layer and `bytes_to_flush_` together
tell how many frames were written, and with them which bands are flushed
(`Counters`); from that follows which slots have been dispatched when the flush in
progress ends (`Due`, `Dispatched`), that a slot not dispatched holds the frames of
the layer so far (`Filling`), and that every layer before this one was dispatched
whole (`UpToHere`). `Countdown` says that the counter of an open shard is the number
of its chunks that have not landed, so that the job which takes it to zero is the
last one to run on it (`StillOpen`) and a shard that did not land lost a job
(`BadLostOne`). `Rows`, `Jobs` and `Ending` tie the places of the array's thread to
its shards, its jobs and the error. Again one lemma per action. `ArrayKeepsLedgers`
and `LedgersKept` are the other side of `ShardLedger`: every step of the array is,
for each shard of each row, a step of that shard's ledger or leaves it alone. A
run of it takes TLC minutes on the smallest instance, so it is proved only.

`Settings_proofs`, from `SettingsAssumption` and `LevelsAssumption`: types,
`OneOwner`, `RoundTrip`, `RefusalKeepsStore`, `NodesDisjoint` and `StreamAsAsked`, for
any settings, names and tree of nodes, any number of streams and any order of the
caller's calls. `OwnerInv` says what the caller has: settings that are `Alike` those in
mind, which dumping, loading and the keys of fields preserve part by part, and a
block behind every pointer. Settings that are alike are accepted together and ask
for the same store (`AcceptsAlike`), which is `RoundTrip`. What is allocated is
listed by joining lists of lists; `LoadSlotsGood` says that all of it is freed again
and `FreedWithIs` that the destroy function of a list reaches all below it. `LateInv`
says that whatever is refused after the old store is gone was accepted before, so
that what refuses it is one of `RefusedLate` (`ThrowingArrayIsLate`, `LateFields`): an
array that throws has no chunks in memory, and a product of positive numbers is
positive (`ChunksNonzero`). `NodesInv` says that the nodes are those of the settings
in mind, and `NodesApart` that a valid structure keeps them apart. `TypeInv` adds that frames are
counted for outputs up to their levels and that metadata is at nodes.
`StreamAsAsked` needs all of these and two more. `Asked` follows the settings into
the stream: its error, once the plates are made, can only be about the key of a
field (`OnlyKeysComplain`: Plate refuses the rest), and its plates and wells are
those asked for when no two plates share a path (`WellsApart`). `Landed` says of
close that each array, then each group, is either still to be written or in the
store as it should read. No later write replaces it, since nodes are disjoint, and
no node lies below the metadata of another (`NothingBlocked`), so that only the file
system or an unused acquisition makes close fail. Joined lists
and products are folds; what they compute follows by induction over a set of
numbers (`NatInd`, `SeqInd`), where the library's theorems would need an operator.

Only model-checked:

* Liveness (`CallsReturn`, `QueueDrains`, `JobsAndStopEnd`, `CallsEnd`,
  `RequestsServed`): fairness and ENABLED are out of the prover's reach.
* `Pyramid` with `Dimensions` and `Levels`: its properties compare products and
  sums over the dimensions, which are folds, and turn on what positions and strides
  of any number of dimensions come to. `Settings_proofs` does the induction, over a
  set, for the sign of one product; for places in a lattice it is not done.
* That the sinks fit under the shard, and the geometry under the array, as told
  under "Modules" is an argument in prose; each side of it is a property or an
  assumption that is checked or proved. The links from the queue to the stream, from
  the pool to its users and from the shard to the array go through the abstract
  specifications.

RECURSIVE operators would be out of the prover's reach too; no module here
declares one.

## Plan

Done: the path every frame takes, from append to the sinks of both kinds; the
index arithmetic and the pyramid; settings, validation, creation and metadata;
proofs of the types and the safety invariants of every module on the path of a
frame (queue and observers, stream, pool, array, shard, both sinks) and of the
settings.

Next, the proofs: action properties that the invariants already imply (a result
once recorded does not change, frames written never decrease); the index arithmetic
of one dimension at a time.

Next, the model: the metadata written at a rollover against the chunks that have
landed.

## Not modelled

* The text of metadata, the grammars of YAML and JSON, tables of enumeration
  names, status texts, the logger: formatting.
* Compression, and the arithmetic of the means: data. mean4 sums in the type of
  the pixels and wraps for 32 and 64 bits (downsampler.cpp:48).
* ZarrStreamSettings_estimate_max_memory_usage: one formula without state.
* The operating system's file calls and the S3 protocol: a call succeeds or
  fails. The failure of getrlimit, and with it a limit of 0 handles.
* The Python bindings, which wrap the C interface call by call.
* The data race on the string `error_` beyond its being empty or not, and
  the races of two jobs inside one step of `S3Sink`: for the number of a part, in the
  list of parts, over bytes that are being sent or copied. They only add to what goes
  wrong in a sink whose writes overlap, of whose bytes nothing is claimed.
* Crashes: nothing is recovered from a store that a stream has left behind.
