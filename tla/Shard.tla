-------------------------------- MODULE Shard --------------------------------
(***************************************************************************)
(* zarr::Shard (shard.cpp) under the jobs that write its chunks.           *)
(*                                                                         *)
(* Every chunk of the shard has one writer: the pool job that              *)
(* Array::dispatch_chunk_job_ or dispatch_skip_job_ makes for it, which    *)
(* calls write_chunk or skip_chunk up to Tries times.  Writers run         *)
(* concurrently.  mutex_ protects the claim of a file range and the        *)
(* finalization; the chunk itself is written outside it, and the writer    *)
(* that brings unwritten_chunks_ to zero publishes the table.  The shard   *)
(* may also be finalized from outside (Array::finalize_shards_, the        *)
(* destructor) once no writer is left, with chunks that were never written.*)
(*                                                                         *)
(* A chunk is an index and a compressed size, the file is what was written *)
(* where.  Any write, of a chunk or of the table, and the final flush may  *)
(* fail.                                                                   *)
(***************************************************************************)
EXTENDS Integers, FiniteSets

CONSTANTS Chunks,        \* the internal indices of the shard's chunks
          SizeOf,        \* bytes of each chunk after compression
          Tries,         \* calls a writer makes before it gives up
          Unwritten,     \* kUnwrittenSentinel
          NoTable        \* no table was written

\* An entry of the table.
Entries == [offset : Nat \cup {Unwritten}, extent : Nat \cup {Unwritten}]

ASSUME ShardAssumption ==
    /\ IsFiniteSet(Chunks)
    /\ SizeOf \in [Chunks -> Nat \ {0}]
    /\ Tries \in Nat \ {0}
    /\ Unwritten \notin Nat
    /\ NoTable \notin [Chunks -> Entries]

VARIABLES
    offsets,          \* offsets_
    extents,          \* extents_
    file_offset,      \* file_offset_
    unwritten_chunks, \* unwritten_chunks_
    finalized,        \* finalized_
    finalize_ok,      \* finalize_ok_
    sink,             \* sink_ is not null
    stored,           \* the offset each chunk's bytes were written at
    table,            \* the table that was written, or NoTable
    durable,          \* the final flush of the sink succeeded
    pc,               \* where each chunk's writer is
    skips,            \* the chunks whose writer calls skip_chunk
    tries,            \* the calls each writer has made
    closed            \* the shard was finalized from outside

fileVars == <<stored, table, durable>>
tableVars == <<offsets, extents, file_offset>>
finalVars == <<finalized, finalize_ok, sink>>
vars == <<tableVars, unwritten_chunks, finalVars, fileVars, pc, skips, tries, closed>>

Running == {"enter", "claim", "write", "count", "finalize"}
Active == {i \in Chunks : pc[i] \in Running}

Init ==
    /\ offsets = [i \in Chunks |-> Unwritten]
    /\ extents = [i \in Chunks |-> Unwritten]
    /\ file_offset = 0
    /\ unwritten_chunks = Cardinality(Chunks)
    /\ finalized = FALSE /\ finalize_ok = FALSE /\ sink = TRUE
    /\ stored = [i \in Chunks |-> Unwritten]
    /\ table = NoTable
    /\ durable = FALSE
    /\ pc = [i \in Chunks |-> "idle"]
    /\ skips \in SUBSET Chunks
    /\ tries = [i \in Chunks |-> 0]
    /\ closed = FALSE
-----------------------------------------------------------------------------
(* The writer of one chunk: its calls of write_chunk or skip_chunk *)

Goto(i, next) == pc' = [pc EXCEPT ![i] = next]

\* The array dispatches the chunk's job, once.
Dispatch(i) ==
    /\ pc[i] = "idle" /\ ~closed
    /\ Goto(i, "enter")
    /\ UNCHANGED <<tableVars, unwritten_chunks, finalVars, fileVars, skips, tries, closed>>

\* Where a writer goes when its call returns ok or not.
AfterCall(i, ok) ==
    IF ok THEN "ok" ELSE IF tries[i] + 1 < Tries THEN "enter" ELSE "failed"
Returned(i, ok) ==
    /\ Goto(i, AfterCall(i, ok))
    /\ tries' = [tries EXCEPT ![i] = @ + 1]

NotFinalized == FALSE                     \* mutant: nobody asks
AlreadyFinalized == finalized

\* Under mutex_: a shard that was finalized has no sink any more, and the call
\* returns how that went.
Enter(i) ==
    /\ pc[i] = "enter"
    /\ IF AlreadyFinalized
       THEN Returned(i, finalize_ok)
       ELSE /\ Goto(i, IF i \in skips THEN "count" ELSE "claim")
            /\ UNCHANGED tries
    /\ UNCHANGED <<tableVars, unwritten_chunks, finalVars, fileVars, skips, closed>>

\* mutant: the offset advances by a chunk count instead of a byte count.
RangeEndByOne(i) == file_offset + 1
RangeEnd(i) == file_offset + SizeOf[i]

Unclaimed(i) == offsets[i] = Unwritten

\* First attempt: the next range of the file is claimed under mutex_.  A retry
\* keeps the range it has.
Claim(i) ==
    /\ pc[i] = "claim"
    /\ IF Unclaimed(i)
       THEN /\ extents' = [extents EXCEPT ![i] = SizeOf[i]]
            /\ offsets' = [offsets EXCEPT ![i] = file_offset]
            /\ file_offset' = RangeEnd(i)
       ELSE UNCHANGED tableVars
    /\ Goto(i, "write")
    /\ UNCHANGED <<unwritten_chunks, finalVars, fileVars, skips, tries, closed>>

\* The sink writes the chunk at its offset, outside mutex_ ...
WriteOk(i) ==
    /\ pc[i] = "write"
    /\ stored' = [stored EXCEPT ![i] = offsets[i]]
    /\ Goto(i, "count")
    /\ UNCHANGED <<tableVars, unwritten_chunks, finalVars, table, durable, skips, tries, closed>>

\* ... or fails, and the call returns false.
WriteFails(i) ==
    /\ pc[i] = "write"
    /\ Returned(i, FALSE)
    /\ UNCHANGED <<tableVars, unwritten_chunks, finalVars, fileVars, skips, closed>>

TableOnly(tableOk, flushOk) == tableOk    \* mutant: the flush is not looked at
Landed(tableOk, flushOk) == tableOk /\ flushOk

\* finalize_unlocked_, under mutex_: the first call writes the table at the end
\* of the file and flushes the sink, whatever happened to the table; any other
\* returns how that went.  finalize_sink releases a sink only if its flush
\* succeeded.
FinalizeUnlocked(tableOk, flushOk) ==
    IF AlreadyFinalized
    THEN UNCHANGED <<finalVars, fileVars>>
    ELSE /\ finalized' = TRUE
         /\ finalize_ok' = Landed(tableOk, flushOk)
         /\ table' = IF tableOk
                     THEN [i \in Chunks |-> [offset |-> offsets[i],
                                             extent |-> extents[i]]]
                     ELSE NoTable
         /\ durable' = flushOk
         /\ sink' = ~flushOk
         /\ UNCHANGED stored

\* mutant: the writer that leaves one chunk to go publishes the table.
IsLastTooEarly == unwritten_chunks <= 2
IsLast == unwritten_chunks = 1

\* fetch_sub on unwritten_chunks_, without mutex_: the last writer goes on to
\* finalize the shard, any other returns true.
Count(i) ==
    /\ pc[i] = "count"
    /\ unwritten_chunks' = unwritten_chunks - 1
    /\ IF IsLast
       THEN Goto(i, "finalize") /\ UNCHANGED tries
       ELSE Returned(i, TRUE)
    /\ UNCHANGED <<tableVars, finalVars, fileVars, skips, closed>>

\* Under mutex_ again: the call returns how the finalization went.
Finalize(i) ==
    /\ pc[i] = "finalize"
    /\ \E tableOk, flushOk \in BOOLEAN : FinalizeUnlocked(tableOk, flushOk)
    /\ Returned(i, finalize_ok')
    /\ UNCHANGED <<tableVars, unwritten_chunks, skips, closed>>
-----------------------------------------------------------------------------
AnyTime == TRUE                           \* mutant: close does not wait
NoWriter == Active = {}

\* finalize(), or the destructor: the array has waited for its jobs, or the
\* last of them has let go of the shard.
Close ==
    /\ ~closed /\ NoWriter
    /\ closed' = TRUE
    /\ \E tableOk, flushOk \in BOOLEAN : FinalizeUnlocked(tableOk, flushOk)
    /\ UNCHANGED <<tableVars, unwritten_chunks, pc, skips, tries>>

Closed == closed /\ UNCHANGED vars

Writer(i) ==
    \/ Enter(i) \/ Claim(i)
    \/ WriteOk(i) \/ WriteFails(i)
    \/ Count(i) \/ Finalize(i)

Next ==
    \/ \E i \in Chunks : Dispatch(i) \/ Writer(i)
    \/ Close
    \/ Closed

Spec == Init /\ [][Next]_vars
-----------------------------------------------------------------------------
(* Properties *)

TypeOK ==
    /\ offsets \in [Chunks -> Nat \cup {Unwritten}]
    /\ extents \in [Chunks -> Nat \cup {Unwritten}]
    /\ file_offset \in Nat
    /\ unwritten_chunks \in 0 .. Cardinality(Chunks)
    /\ finalized \in BOOLEAN /\ finalize_ok \in BOOLEAN /\ sink \in BOOLEAN
    /\ stored \in [Chunks -> Nat \cup {Unwritten}]
    /\ table \in [Chunks -> Entries] \cup {NoTable}
    /\ durable \in BOOLEAN
    /\ pc \in [Chunks -> Running \cup {"idle", "ok", "failed"}]
    /\ skips \in SUBSET Chunks
    /\ tries \in [Chunks -> 0 .. Tries]
    /\ closed \in BOOLEAN

\* The ranges that were claimed do not overlap and end where the next one, or
\* the table, will be written, however the claims and the writes interleave.
Claimed == {i \in Chunks : offsets[i] # Unwritten}
RangesDisjoint ==
    /\ \A i \in Claimed : extents[i] = SizeOf[i] /\ offsets[i] + SizeOf[i] <= file_offset
    /\ \A i, j \in Claimed : i # j => \/ offsets[i] + SizeOf[i] <= offsets[j]
                                      \/ offsets[j] + SizeOf[j] <= offsets[i]

\* No writer uses the sink after the finalization, which may release it, and
\* none takes unwritten_chunks_ below zero (the CHECKs of write_chunk and
\* skip_chunk).
SinkAlive ==
    /\ \A i \in Active : pc[i] # "enter" => sink /\ ~finalized
    /\ \A i \in Active : pc[i] \in {"claim", "write", "count"} => unwritten_chunks > 0

\* The table says where each chunk is: an entry is the range its bytes were
\* written to, or the sentinel for a chunk that was skipped or never came.
\* Only a chunk whose writer gave up may have an entry and no bytes.
TableTruthful ==
    table # NoTable =>
       \A i \in Chunks : pc[i] # "failed" =>
          /\ table[i].offset = stored[i]
          /\ table[i].extent = IF stored[i] = Unwritten THEN Unwritten ELSE SizeOf[i]

\* When every chunk's job has reported success, the shard is complete: its
\* table is in the file and the file is flushed.
SuccessIsPublished ==
    (\A i \in Chunks : pc[i] = "ok") /\ Chunks # {} =>
       finalize_ok /\ table # NoTable /\ durable

\* The array sees a job's chunk land, and the shard publish, in one step: the
\* last writer is between the two in "finalize".  A writer that has failed to
\* publish, and tries again, will only be told so once more.
JobOf(i) ==
    CASE pc[i] = "idle" -> "new"
      [] pc[i] = "ok" -> "landed"
      [] pc[i] = "failed" \/ (pc[i] = "enter" /\ finalized) -> "lost"
      [] OTHER -> "pending"
Jobs == [i \in Chunks |-> JobOf(i)]
Outcome == IF ~finalized THEN "open" ELSE IF table # NoTable /\ durable THEN "ok" ELSE "bad"
Ledger == INSTANCE ShardLedger WITH state <- Outcome, jobs <- Jobs

\* To its array the shard is a ledger of its chunks' jobs: a job that reports
\* success has landed its chunk, the last to land publishes the table and the
\* file as one step, or is the one that fails, and nothing happens afterwards.
ImplementsLedger == Ledger!LedgerSpec

\* The table is written once and the shard's result does not change.
FinalizedOnce == [][finalized => UNCHANGED <<finalVars, fileVars>>]_vars
=============================================================================
