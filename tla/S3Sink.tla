-------------------------------- MODULE S3Sink --------------------------------
(***************************************************************************)
(* zarr::S3Sink (s3.sink.cpp), its connection pool and the requests it     *)
(* makes (s3.connection.cpp).                                              *)
(*                                                                         *)
(* A sink collects the bytes of one object in a buffer of PartSize bytes.  *)
(* A full buffer becomes a part of a multipart upload; the flush at the    *)
(* end completes the upload, or puts the object whole when no part was     *)
(* needed.  A shard's sink gets the shard's chunks, in whatever order their*)
(* jobs come (Shard!Claim gave each its range), every write up to MaxTries *)
(* times, and the table after all of them have ended.  A document's sink   *)
(* gets one write.                                                         *)
(*                                                                         *)
(* Nothing is locked: Shard::write_chunk lets go of the shard's mutex      *)
(* before it calls write, so that the jobs of a shard's chunks are inside  *)
(* write of one sink at once.  Every write of the plan has a caller of its *)
(* own here, and goes on step by step between those of the others.  What a *)
(* caller does between two requests is cut where the code looks at the     *)
(* members again (the offset, the copy, flush_part_), no finer, and a part *)
(* is what the buffer holds when the server answers.  Races inside such a  *)
(* step, as for the number of a part, only add to what can happen to a     *)
(* sink whose writes overlap; `overlapped' has them, and of their bytes    *)
(* nothing is claimed.                                                     *)
(*                                                                         *)
(* The sinks of a stream share the connections of the pool.  A byte is its *)
(* offset in the object.  The server may fail any request.                 *)
(***************************************************************************)
EXTENDS Integers, Sequences, FiniteSets, FiniteSetsExt

CONSTANTS Sinks,
          Shards,        \* the sinks of shards; the others hold documents
          Together,      \* the sets of sinks one stream may make
          Plan,          \* per sink: the lengths of its writes, the table last
          Offset,        \* per sink: where they go, the range of each chunk
          PartSize,      \* max_part_size_
          NConnections,  \* n_connections: the size of the pool
          MaxTries,      \* n_retries of a chunk's job
          NThreads       \* the threads of the pool that runs the jobs

ASSUME S3SinkAssumption ==
    /\ IsFiniteSet(Sinks) /\ Shards \subseteq Sinks
    /\ Together \subseteq SUBSET Sinks
    /\ Plan \in [Sinks -> Seq(Nat \ {0}) \ {<<>>}]
    /\ \A s \in Sinks \ Shards : Len(Plan[s]) = 1
    /\ DOMAIN Offset = Sinks
    /\ \A s \in Sinks : Offset[s] \in [DOMAIN Plan[s] -> Nat] /\ Offset[s][1] = 0
    /\ \A s \in Sinks : \A i, j \in DOMAIN Plan[s] :
          /\ i < j => Offset[s][i] + Plan[s][i] <= Offset[s][j]
          /\ j = i + 1 => Offset[s][i] + Plan[s][i] = Offset[s][j]
    /\ {PartSize, NConnections, MaxTries, NThreads} \subseteq Nat \ {0}

VARIABLES
    part_buffer,  \* per sink: the bytes of the buffer
    buffered,     \* nbytes_buffered_
    flushed,      \* nbytes_flushed_
    upload,       \* multipart_upload_: none, asked for, without an upload_id
                  \* because of an exception, open
    parts,        \* the bytes of the upload's parts, one after the other
    object,       \* the object the server has
    pc,           \* per sink and caller: where it is
    left,         \* per sink and caller: the bytes left of its write
    result,       \* per sink and write: how it ended
    tries,        \* per sink and write: calls made
    outcome,      \* what finalize_sink said
    idle,         \* the number of connections in the pool
    conn,         \* per sink and caller: whether it holds a connection or
                  \* waits for one
    thrown,       \* history: requests that ended in an exception
    begun,        \* history, per sink: its writes in the order they began
    lost,         \* history: the sinks that failed to upload a part
    overlapped    \* history: the sinks that had two calls of write at once

bufferVars == <<part_buffer, buffered, flushed>>
serverVars == <<upload, parts, object>>
callVars == <<left, result, tries, outcome>>
poolVars == <<idle, conn>>
historyVars == <<thrown, begun, lost, overlapped>>
vars == <<bufferVars, serverVars, pc, callVars, poolVars, historyVars>>

Uninitialized == -1
Writes(s) == DOMAIN Plan[s]
Table(s) == Len(Plan[s])

\* The job of write i is caller i; caller 0 makes the sink and finalizes it.
Callers(s) == 0 .. Table(s)
AllCallers == UNION {{s} \X Callers(s) : s \in Sinks}

Init ==
    /\ part_buffer = [s \in Sinks |-> [b \in 1 .. PartSize |-> Uninitialized]]
    /\ buffered = [s \in Sinks |-> 0] /\ flushed = [s \in Sinks |-> 0]
    /\ upload = [s \in Sinks |-> "none"]
    /\ parts = [s \in Sinks |-> <<>>] /\ object = [s \in Sinks |-> <<>>]
    /\ \E made \in Together :
          pc = [s \in Sinks |-> [i \in Callers(s) |->
                  IF i > 0 THEN "idle" ELSE IF s \in made THEN "new" ELSE "gone"]]
    /\ left = [s \in Sinks |-> [i \in Callers(s) |-> 0]]
    /\ result = [s \in Sinks |-> [i \in Writes(s) |-> "todo"]]
    /\ tries = [s \in Sinks |-> [i \in Writes(s) |-> 0]]
    /\ outcome = [s \in Sinks |-> "open"]
    /\ idle = NConnections
    /\ conn = [s \in Sinks |-> [i \in Callers(s) |-> "none"]]
    /\ thrown = 0
    /\ begun = [s \in Sinks |-> <<>>]
    /\ lost = {} /\ overlapped = {}

Goto(s, i, next) == pc' = [pc EXCEPT ![s][i] = next]
-----------------------------------------------------------------------------
(* The pool *)

Requests == {"exists", "create", "part", "put", "complete"}
Asleep == {c \in AllCallers : conn[c[1]][c[2]] = "asleep"}
Holders == {c \in AllCallers : conn[c[1]][c[2]] = "holds"}

GetConnection(s, i) ==
    /\ pc[s][i] \in Requests /\ conn[s][i] = "none" /\ idle > 0
    /\ idle' = idle - 1
    /\ conn' = [conn EXCEPT ![s][i] = "holds"]
    /\ UNCHANGED <<bufferVars, serverVars, pc, callVars, historyVars>>

WaitForConnection(s, i) ==
    /\ pc[s][i] \in Requests /\ conn[s][i] = "none" /\ idle = 0
    /\ conn' = [conn EXCEPT ![s][i] = "asleep"]
    /\ UNCHANGED <<bufferVars, serverVars, pc, callVars, idle, historyVars>>

NobodyWoken == {{}}                       \* mutant: no notify_one
OneWoken == IF Asleep = {} THEN {{}} ELSE {{c} : c \in Asleep}

\* return_connection: one that waits tests again whether there is one.
ReturnConnection(s, i) ==
    /\ idle' = idle + 1
    /\ \E woken \in OneWoken :
          conn' = [u \in Sinks |-> [j \in Callers(u) |->
                     IF <<u, j>> \in woken \cup {<<s, i>>} THEN "none" ELSE conn[u][j]]]

\* An exception leaves the caller: the connection it holds goes with it.
DropConnection(s, i) ==
    /\ conn' = [conn EXCEPT ![s][i] = "none"]
    /\ thrown' = thrown + 1
    /\ UNCHANGED <<idle, begun, lost, overlapped>>

\* The server answers the request the caller waits for.
Answered(s, i, request) == pc[s][i] = request /\ conn[s][i] = "holds"
-----------------------------------------------------------------------------
(* Making the sink *)

\* make_s3_sink asks whether the bucket is there.
NewSink(s) ==
    /\ pc[s][0] = "new"
    /\ Goto(s, 0, "exists")
    /\ UNCHANGED <<bufferVars, serverVars, callVars, poolVars, historyVars>>

\* No sink is made without the bucket, or if the question failed.
BucketExists(s) ==
    /\ Answered(s, 0, "exists")
    /\ \E exists \in BOOLEAN : Goto(s, 0, IF exists THEN "idle" ELSE "gone")
    /\ ReturnConnection(s, 0)
    /\ UNCHANGED <<bufferVars, serverVars, callVars, historyVars>>
-----------------------------------------------------------------------------
(* write *)

\* A chunk's job tries again when a write returned false; the table, and a
\* document, is tried once.
Tries(s, i) == IF i = Table(s) THEN 1 ELSE MaxTries

\* Write i returns.
Returns(s, i, ok) ==
    /\ Goto(s, i, "idle")
    /\ left' = [left EXCEPT ![s][i] = 0]
    /\ tries' = [tries EXCEPT ![s][i] = @ + 1]
    /\ result' = [result EXCEPT ![s][i] =
                    IF ok THEN "ok"
                    ELSE IF tries[s][i] + 1 < Tries(s, i) THEN "todo" ELSE "failed"]
    /\ UNCHANGED outcome

Writing(s) == {i \in Writes(s) : pc[s][i] # "idle"}
ChunksWritten == UNION {{s} \X (Writing(s) \ {Table(s)}) : s \in Sinks}

\* A chunk's job calls write whenever a thread runs it, whoever else is inside:
\* one of the pool's, also if the job is run inline, save after the pool's end.
\* The shard writes its table when every chunk has ended.
MayWrite(s, i) ==
    /\ pc[s][0] = "idle" /\ pc[s][i] = "idle" /\ result[s][i] = "todo"
    /\ IF i = Table(s) THEN \A j \in 1 .. i - 1 : result[s][j] # "todo"
       ELSE Cardinality(ChunksWritten) < NThreads

\* mutant: behind what is buffered, whatever the offset.
AppendedAt(s, i) == buffered[s]
BufferedBefore(s, i) == Offset[s][i] - flushed[s]

\* What was uploaded already cannot be written any more; otherwise the buffer
\* counts as filled up to the offset.
Write(s, i) ==
    /\ MayWrite(s, i)
    /\ begun' = [begun EXCEPT ![s] = IF tries[s][i] = 0 THEN Append(@, i) ELSE @]
    /\ overlapped' = IF Writing(s) = {} THEN overlapped ELSE overlapped \cup {s}
    /\ IF Offset[s][i] < flushed[s]
       THEN Returns(s, i, FALSE) /\ UNCHANGED buffered
       ELSE /\ buffered' = [buffered EXCEPT ![s] = BufferedBefore(s, i)]
            /\ left' = [left EXCEPT ![s][i] = Plan[s][i]]
            /\ Goto(s, i, "copy")
            /\ UNCHANGED <<result, tries, outcome>>
    /\ UNCHANGED <<part_buffer, flushed, serverVars, poolVars, thrown, lost>>

EverythingLeft(s, i) == left[s][i]        \* mutant: the room is not looked at
BytesToWrite(s, i) == Min({left[s][i], PartSize - buffered[s]})

\* One turn of the loop: as much as fits is copied, and a full buffer is to
\* become a part.  An offset beyond the buffer makes the room wrap around, and
\* the bytes go past the buffer's end: no more is said of such a call.
Copy(s, i) ==
    LET done == Plan[s][i] - left[s][i]
        k == BytesToWrite(s, i)
        filled == buffered[s] + k
    IN  /\ pc[s][i] = "copy"
        /\ IF buffered[s] > PartSize
           THEN Goto(s, i, "corrupt") /\ UNCHANGED <<part_buffer, buffered, callVars>>
           ELSE /\ part_buffer' =
                     [part_buffer EXCEPT ![s] =
                        [b \in 1 .. PartSize |->
                           IF b \in buffered[s] + 1 .. filled
                           THEN Offset[s][i] + done + b - buffered[s] - 1
                           ELSE @[b]]]
                /\ buffered' = [buffered EXCEPT ![s] = filled]
                /\ IF filled < PartSize
                   THEN Returns(s, i, TRUE)
                   ELSE /\ Goto(s, i, "flush")
                        /\ left' = [left EXCEPT ![s][i] = @ - k]
                        /\ UNCHANGED <<result, tries, outcome>>
        /\ UNCHANGED <<flushed, serverVars, poolVars, historyVars>>

\* flush_part_ up to its first request.  The buffer may have been flushed by
\* another call meanwhile; who comes first asks for the upload.
FlushPart(s, i) ==
    /\ pc[s][i] = "flush"
    /\ upload' = [upload EXCEPT ![s] = IF buffered[s] > 0 /\ @ = "none" THEN "asked" ELSE @]
    /\ IF buffered[s] = 0 THEN Returns(s, i, FALSE)
       ELSE Goto(s, i, IF upload[s] = "none" THEN "create" ELSE "part") /\ UNCHANGED callVars
    /\ UNCHANGED <<bufferVars, parts, object, poolVars, historyVars>>

\* create_multipart_upload_: the upload has an id, or an exception ends the
\* write (of a chunk: and its job; of the table: and the shard's finalization).
CreateUpload(s, i) ==
    /\ Answered(s, i, "create")
    /\ \/ /\ upload' = [upload EXCEPT ![s] = "open"]
          /\ Goto(s, i, "part")
          /\ ReturnConnection(s, i)
          /\ UNCHANGED <<callVars, historyVars>>
       \/ /\ upload' = [upload EXCEPT ![s] = "without id"]
          /\ pc' = [pc EXCEPT ![s][i] = "idle", ![s][0] = IF i = Table(s) THEN "gone" ELSE @]
          /\ left' = [left EXCEPT ![s][i] = 0]
          /\ result' = [result EXCEPT ![s][i] = "failed"]
          /\ DropConnection(s, i)
          /\ UNCHANGED <<tries, outcome>>
    /\ UNCHANGED <<bufferVars, parts, object>>

FlushedAfterPart(s) == flushed[s] + buffered[s]

PartOk(ok) == ok

\* What a request sends of the buffer: behind its end anything.
Buffered(s) ==
    [b \in 1 .. buffered[s] |-> IF b <= PartSize THEN part_buffer[s][b] ELSE Uninitialized]

\* flush_part_: the part has the number after the last one that succeeded; the
\* bytes count as flushed also when it failed.  A write goes on with the bytes
\* that are left; the flush goes on to complete the upload.
UploadPart(s, i) ==
    /\ Answered(s, i, "part")
    /\ \E ok \in IF upload[s] = "open" THEN BOOLEAN ELSE {FALSE} :
          /\ parts' = IF ok THEN [parts EXCEPT ![s] = @ \o Buffered(s)] ELSE parts
          /\ lost' = IF ok THEN lost ELSE lost \cup {s}
          /\ CASE i = 0 ->
                    /\ Goto(s, i, IF PartOk(ok) THEN "complete" ELSE "gone")
                    /\ outcome' = IF PartOk(ok) THEN outcome
                                  ELSE [outcome EXCEPT ![s] = "failed"]
                    /\ UNCHANGED <<left, result, tries>>
               [] i # 0 /\ PartOk(ok) /\ left[s][i] > 0 ->
                    Goto(s, i, "copy") /\ UNCHANGED callVars
               [] OTHER -> Returns(s, i, PartOk(ok))
    /\ flushed' = [flushed EXCEPT ![s] = FlushedAfterPart(s)]
    /\ buffered' = [buffered EXCEPT ![s] = 0]
    /\ ReturnConnection(s, i)
    /\ UNCHANGED <<part_buffer, upload, object, thrown, begun, overlapped>>
-----------------------------------------------------------------------------
(* finalize_sink *)

\* After the last write: of a shard also if the table could not be written, of
\* a document only if it could.  flush_ uploads what is left.
Flush(s) ==
    /\ pc[s][0] = "idle" /\ result[s][Table(s)] # "todo"
    /\ s \in Shards \/ result[s][Table(s)] = "ok"
    /\ CASE upload[s] # "none" /\ buffered[s] > 0 -> Goto(s, 0, "part")
         [] upload[s] # "none" /\ buffered[s] = 0 -> Goto(s, 0, "complete")
         [] upload[s] = "none" /\ buffered[s] > 0 -> Goto(s, 0, "put")
         [] OTHER -> Goto(s, 0, "gone")
    /\ outcome' = [outcome EXCEPT ![s] =
                     IF upload[s] = "none" /\ buffered[s] = 0 THEN "ok" ELSE @]
    /\ UNCHANGED <<bufferVars, serverVars, left, result, tries, poolVars, historyVars>>

FlushEnds(s, ok) ==
    /\ Goto(s, 0, "gone")
    /\ outcome' = [outcome EXCEPT ![s] = IF ok THEN "ok" ELSE "failed"]
    /\ UNCHANGED <<left, result, tries>>

\* mutant: a put that failed keeps the connection.
ReturnIfOk(s, ok) == IF ok THEN ReturnConnection(s, 0)
                     ELSE conn' = [conn EXCEPT ![s][0] = "none"] /\ UNCHANGED idle
ReturnAnyhow(s, ok) == ReturnConnection(s, 0)

\* put_object_, whose exceptions are caught.
PutObject(s) ==
    /\ Answered(s, 0, "put")
    /\ \E ok \in BOOLEAN :
          /\ object' = IF ok THEN [object EXCEPT ![s] = Buffered(s)] ELSE object
          /\ flushed' = [flushed EXCEPT ![s] = IF ok THEN buffered[s] ELSE @]
          /\ buffered' = [buffered EXCEPT ![s] = IF ok THEN 0 ELSE @]
          /\ FlushEnds(s, ok)
          /\ ReturnAnyhow(s, ok)
    /\ UNCHANGED <<part_buffer, upload, parts, historyVars>>

\* finalize_multipart_upload_: without an id or a part it throws.
CompleteUpload(s) ==
    /\ Answered(s, 0, "complete")
    /\ IF upload[s] = "without id" \/ parts[s] = <<>>
       THEN /\ Goto(s, 0, "gone")
            /\ DropConnection(s, 0)
            /\ UNCHANGED <<object, callVars>>
       ELSE /\ \E ok \in BOOLEAN :
                  /\ object' = IF ok THEN [object EXCEPT ![s] = parts[s]]
                               ELSE object
                  /\ FlushEnds(s, ok)
            /\ ReturnConnection(s, 0)
            /\ UNCHANGED historyVars
    /\ UNCHANGED <<bufferVars, upload, parts>>
-----------------------------------------------------------------------------
Flushes(s) == Flush(s) \/ PutObject(s) \/ CompleteUpload(s)

\* What caller i does next, but for the call of write itself.
Step(s, i) ==
    \/ GetConnection(s, i) \/ WaitForConnection(s, i) \/ UploadPart(s, i)
    \/ i = 0 /\ (BucketExists(s) \/ Flushes(s))
    \/ i # 0 /\ (Copy(s, i) \/ FlushPart(s, i) \/ CreateUpload(s, i))

Next ==
    \E s \in Sinks :
       NewSink(s) \/ (\E i \in Callers(s) : Step(s, i)) \/ (\E i \in Writes(s) : Write(s, i))

\* A call that was made goes on when it can, and every request is answered.
\* Who gets a connection when several want one is left open: a call that comes
\* later may take the one that a waiting call was told of, but calls end.
Fairness == \A s \in Sinks : \A i \in Callers(s) : WF_vars(Step(s, i))

Spec == Init /\ [][Next]_vars /\ Fairness
-----------------------------------------------------------------------------
(* Properties *)

Bytes(s) == {Uninitialized} \cup 0 .. Offset[s][Table(s)] + Plan[s][Table(s)] - 1

\* The buffer is never filled beyond its end while calls come one at a time,
\* save by the step that corrupts it.
TypeOK ==
    /\ \A s \in Sinks :
          /\ part_buffer[s] \in [1 .. PartSize -> Bytes(s)]
          /\ buffered[s] \in Nat /\ flushed[s] \in Nat
          /\ s \in overlapped \/ (\E i \in Writes(s) : pc[s][i] \in {"copy", "corrupt"})
                \/ buffered[s] <= PartSize
          /\ parts[s] \in Seq(Bytes(s)) /\ object[s] \in Seq(Bytes(s))
          /\ pc[s][0] \in {"new", "exists", "idle", "part", "complete", "put", "gone"}
          /\ \A i \in Writes(s) :
                /\ pc[s][i] \in {"idle", "copy", "flush", "create", "part", "corrupt"}
                /\ left[s][i] \in 0 .. Plan[s][i]
                /\ tries[s][i] \in 0 .. Tries(s, i)
          /\ conn[s] \in [Callers(s) -> {"none", "asleep", "holds"}]
          /\ result[s] \in [Writes(s) -> {"todo", "ok", "failed"}]
          /\ begun[s] \in Seq(Writes(s))
    /\ upload \in [Sinks -> {"none", "asked", "without id", "open"}]
    /\ outcome \in [Sinks -> {"open", "ok", "failed"}]
    /\ idle \in 0 .. NConnections /\ thrown \in Nat
    /\ lost \subseteq Sinks /\ overlapped \subseteq Sinks

\* The bytes of write i are at their place in the object.
Landed(s, i) ==
    \A b \in Offset[s][i] .. Offset[s][i] + Plan[s][i] - 1 :
       b + 1 \in DOMAIN object[s] /\ object[s][b + 1] = b

InOrder(s) == \A k \in DOMAIN begun[s] : begun[s][k] = k

\* Of a sink whose writes came one at a time, in whatever order of their offsets
\* and however the parts were cut: what was acknowledged is in the object when
\* the flush has succeeded.  A part that was lost moves the ones after it to a
\* wrong place, and takes bytes of chunks that were acknowledged before; then a
\* later write or the flush has failed, so that the stream is told of it.  On
\* the way the bytes stay inside the buffer if the chunks come in the order of
\* their offsets and no part was lost.  Nothing else keeps them there: a chunk
\* that comes more than a buffer ahead of what was flushed, because another one
\* is late or stopped halfway, is copied past the end.
\*
\* The code does not make the writes come one at a time (shard.cpp:91 calls
\* write outside the shard's mutex), and where two overlap neither half holds.
\* A chunk that begins, in order, while the one before it uploads a part takes
\* nbytes_buffered_ from an nbytes_flushed_ of before the part, and is copied
\* past the end or over bytes that are being sent; acknowledged bytes are then
\* missing or misplaced in an object that was closed with success.
AckedBytesLand ==
    \A s \in Sinks \ overlapped :
       /\ outcome[s] = "ok" =>
             IF s \in lost
             THEN \E i \in Writes(s) : result[s][i] = "failed"
             ELSE \A i \in Writes(s) : result[s][i] = "ok" => Landed(s, i)
       /\ (\E i \in Writes(s) : pc[s][i] = "corrupt") =>
             ~InOrder(s) \/ s \in lost \/ upload[s] = "without id"

\* Connections are lost to the requests that throw, and to nothing else.
ConnectionsAccounted == idle + Cardinality(Holders) + thrown = NConnections

\* Every request is served, until exceptions have taken all the connections;
\* from then on every write and every flush waits for ever.
RequestsServed ==
    \A s \in Sinks : \A i \in Callers(s) :
       pc[s][i] \in Requests ~> (pc[s][i] \notin Requests \/ thrown = NConnections)
=============================================================================
