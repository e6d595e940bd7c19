------------------------------- MODULE Stream -------------------------------
(***************************************************************************)
(* ZarrStream_s (zarr.stream.cpp): the life of a stream between the thread *)
(* that appends and closes, the frame-queue job that hands frames to the   *)
(* arrays, and the worker jobs the arrays dispatch.                        *)
(*                                                                         *)
(* The user thread calls append for any array and any number of bytes and  *)
(* at some point close (finalize_stream).  The consumer is the pool job    *)
(* process_frame_queue_.  A worker is any other pool job: what it does is  *)
(* Shard's and ThreadPool's business, here it only ends, well or with the  *)
(* error that the pool hands to set_error_.                                *)
(*                                                                         *)
(* A block that runs under frame_queue_mutex_ is one action: its only      *)
(* blocking point, a wait on a condition variable, ends it.  Stores to the *)
(* atomics outside the mutex are actions of their own.  The queue is the   *)
(* bounded FIFO that FrameQueue implements, and FrameQueueObservers is why *)
(* empty() may be read in one step.  Frames have sizes and no content.     *)
(***************************************************************************)
EXTENDS Integers, Sequences, FiniteSets

CONSTANTS Keys,          \* the arrays of the stream
          FrameSize,     \* bytes per frame of each array
          MaxArrayBytes, \* max_array_size_bytes of each array, 0 for no limit
          QueueBound,    \* frames the queue holds
          MaxAppend,     \* bound: bytes of one call of append
          MaxJobs        \* bound: worker jobs outstanding at once

ASSUME StreamAssumption ==
    /\ Keys # {}
    /\ FrameSize \in [Keys -> Nat \ {0}]
    /\ MaxArrayBytes \in [Keys -> Nat]
    /\ QueueBound \in Nat \ {0}
    /\ MaxAppend \in Nat \ {0}
    /\ MaxJobs \in Nat

VARIABLES
    q,              \* the frame queue, oldest first
    out,            \* the frame the consumer popped last
    process_frames, \* process_frames_
    done,           \* frame_queue_processing_done_
    error,          \* error_ is not empty
    accepting,      \* the pool's accepting_jobs
    jobs,           \* worker jobs pushed and not yet ended
    offset,         \* frame_buffer_offset of each array
    frames_queued,  \* frames_queued of each array
    bytes_written,  \* bytes_written of each array
    written,        \* frames_written_() of each array's writer
    finalized,      \* the arrays finalize_array has closed
    user,           \* the user thread: where it is, its call's key and bytes
    consumer,       \* where the frame-queue job is
    ret             \* what the last call of the user returned

queueVars == <<q, out>>
outputVars == <<offset, frames_queued, bytes_written>>
flagVars == <<process_frames, done, error>>
poolVars == <<accepting, jobs>>
arrayVars == <<written, finalized>>
vars == <<queueVars, flagVars, poolVars, outputVars, arrayVars, user, consumer, ret>>

\* A frame is labelled with its array's key and frames_queued.
Labels == [key : Keys, id : Nat]
Fifo == INSTANCE FrameFifo
          WITH SizeOf <- [label \in Labels |-> FrameSize[label.key]],
               Bytes <- {0}, Null <- "no data", Bound <- QueueBound

Idle == [pc |-> "idle", key |-> CHOOSE k \in Keys : TRUE, left |-> 0, taken |-> 0,
         data |-> 0]
At(pc) == user.pc = pc
Goto(pc) == user' = [user EXCEPT !.pc = pc]

Init ==
    /\ Fifo!FifoInit
    /\ out = [label |-> [key |-> "none", id |-> 0], data |-> <<>>]
    /\ process_frames = TRUE
    /\ done = FALSE
    /\ error = FALSE
    /\ accepting = TRUE
    /\ jobs = 0
    /\ offset = [k \in Keys |-> 0]
    /\ frames_queued = [k \in Keys |-> 0]
    /\ bytes_written = [k \in Keys |-> 0]
    /\ written = [k \in Keys |-> 0]
    /\ finalized = {}
    /\ user = Idle
    /\ consumer = "loop"
    /\ ret = "none"
-----------------------------------------------------------------------------
(* append, on the user thread *)

Exceeds(k, bytes) == MaxArrayBytes[k] > 0 /\ bytes > MaxArrayBytes[k]

\* The checks at its head: an error the stream already has, and the size of
\* the array.
AppendCall(k, n) ==
    /\ At("idle")
    /\ CASE error ->
              ret' = "InternalError" /\ UNCHANGED user
         [] ~error /\ Exceeds(k, bytes_written[k] + n) ->
              ret' = "WriteOutOfBounds" /\ UNCHANGED user
         [] OTHER ->
              user' = [pc |-> "append", key |-> k, left |-> n, taken |-> 0,
                       data |-> 0]
              /\ UNCHANGED ret
    /\ UNCHANGED <<queueVars, flagVars, poolVars, outputVars, arrayVars, consumer>>

\* mutant: what is left of the call is copied whether it fits or not.
CopiedAll(k) == user.left
\* How much of what is left goes into the open partial frame.
Copied(k) == IF user.left < FrameSize[k] - offset[k]
             THEN user.left ELSE FrameSize[k] - offset[k]

\* mutant: the pointer is left behind when a partial frame is complete.
NotAdvanced(k) == user.data
\* How far `data` has been moved on once a partial frame has been filled.
Advanced(k) == IF offset[k] + Copied(k) = FrameSize[k] THEN user.data + Copied(k)
                                                       ELSE user.data

\* Copy into the partial frame that is open; when it is complete, push it.
FillPartial ==
    LET k == user.key
    IN  /\ At("append") /\ user.left > 0 /\ offset[k] > 0
        /\ offset' = [offset EXCEPT ![k] = @ + Copied(k)]
        /\ user' = [user EXCEPT
                      !.pc = IF offset'[k] = FrameSize[k] THEN "push" ELSE "append",
                      !.left = @ - Copied(k),
                      !.taken = @ + Copied(k),
                      !.data = Advanced(k)]
        /\ UNCHANGED <<queueVars, flagVars, poolVars, arrayVars, consumer, ret,
                       frames_queued, bytes_written>>

\* Less than a frame is left: open a partial frame with it.
BeginPartial ==
    LET k == user.key
    IN  /\ At("append") /\ user.left > 0 /\ offset[k] = 0
        /\ user.left < FrameSize[k]
        /\ offset' = [offset EXCEPT ![k] = user.left]
        /\ user' = [user EXCEPT !.left = 0, !.taken = @ + user.left]
        /\ UNCHANGED <<queueVars, flagVars, poolVars, arrayVars, consumer, ret,
                       frames_queued, bytes_written>>

\* At least a whole frame is left: it is pushed from the caller's memory.
WholeFrame ==
    /\ At("append") /\ offset[user.key] = 0
    /\ user.left >= FrameSize[user.key]
    /\ Goto("push")
    /\ UNCHANGED <<queueVars, flagVars, poolVars, outputVars, arrayVars, consumer, ret>>

NextLabel(k) == [key |-> k, id |-> frames_queued[k]]

\* mutant: frame_queue_not_empty_cv_ is not notified.
NotifyNobody == UNCHANGED consumer
\* notify_one on frame_queue_not_empty_cv_: only the consumer waits on it.
NotifyNotEmpty == consumer' = IF consumer = "waiting" THEN "check" ELSE consumer

\* The partial frame, if one was pushed, is closed.
ClosePartial(k) == offset' = [offset EXCEPT ![k] = 0]

\* The push loop, under frame_queue_mutex_.  The frame goes on the queue; the
\* bytes of a whole frame count only now, those of a partial frame did when
\* they were copied.
Pushed ==
    LET k == user.key
    IN  /\ At("push") /\ process_frames
        /\ Fifo!FifoPush(NextLabel(k), "no data")
        /\ frames_queued' = [frames_queued EXCEPT ![k] = @ + 1]
        /\ ClosePartial(k)
        /\ user' = IF offset[k] = 0
                   THEN [user EXCEPT !.pc = "append", !.left = @ - FrameSize[k],
                                     !.taken = @ + FrameSize[k],
                                     !.data = @ + FrameSize[k]]
                   ELSE [user EXCEPT !.pc = "append"]
        /\ NotifyNotEmpty
        /\ UNCHANGED <<flagVars, poolVars, arrayVars, bytes_written, ret>>

\* The queue is full: wait on frame_queue_not_full_cv_, releasing the mutex.
WaitForSpace ==
    /\ At("push") /\ process_frames
    /\ Len(q) = QueueBound
    /\ Goto("waitSpace")
    /\ UNCHANGED <<queueVars, flagVars, poolVars, outputVars, arrayVars, consumer, ret>>

\* The stream has stopped processing, and the queue was cleared with that: the
\* frame goes on the queue all the same, where nobody will take it, is counted
\* in frames_queued, and the call ends.
PushAfterStop ==
    LET k == user.key
    IN  /\ At("push") /\ ~process_frames
        /\ Fifo!FifoPush(NextLabel(k), "no data")
        /\ frames_queued' = [frames_queued EXCEPT ![k] = @ + 1]
        /\ Goto("return")
        /\ UNCHANGED <<flagVars, poolVars, arrayVars, consumer, ret, offset, bytes_written>>

\* A wait may end with no notify at all; the loop around it pushes again.
SpuriousWake ==
    /\ At("waitSpace")
    /\ Goto("push")
    /\ UNCHANGED <<queueVars, flagVars, poolVars, outputVars, arrayVars, consumer, ret>>

AppendReturn ==
    /\ At("return") \/ (At("append") /\ user.left = 0)
    /\ bytes_written' = [bytes_written EXCEPT ![user.key] = @ + user.taken]
    /\ ret' = IF user.left > 0 THEN "PartialWrite" ELSE "Success"
    /\ user' = Idle
    /\ UNCHANGED <<queueVars, flagVars, poolVars, arrayVars, consumer, offset, frames_queued>>
-----------------------------------------------------------------------------
(* process_frame_queue_, on a pool thread *)

\* The condition of its outer loop.
ConsumerLoop ==
    /\ consumer = "loop"
    /\ consumer' = IF process_frames \/ q # <<>> THEN "check" ELSE "exit"
    /\ UNCHANGED <<queueVars, flagVars, poolVars, outputVars, arrayVars, user, ret>>

\* Under frame_queue_mutex_: wait for a frame, leave if there is none and the
\* stream is stopping, or go and pop.
ConsumerCheck ==
    /\ consumer = "check"
    /\ consumer' = CASE q # <<>>                    -> "pop"
                     [] q = <<>> /\ process_frames  -> "waiting"
                     [] q = <<>> /\ ~process_frames -> "exit"
    /\ UNCHANGED <<queueVars, flagVars, poolVars, outputVars, arrayVars, user, ret>>

\* The wait has a timeout of 100 ms.
ConsumerTimeout ==
    /\ consumer = "waiting"
    /\ consumer' = "check"
    /\ UNCHANGED <<queueVars, flagVars, poolVars, outputVars, arrayVars, user, ret>>

ConsumerPop ==
    /\ consumer = "pop"
    /\ Fifo!FifoPop
    /\ consumer' = "write"
    /\ UNCHANGED <<flagVars, poolVars, outputVars, arrayVars, user, ret>>

\* The array refuses the frame before it takes any of it (write_frame's early
\* returns): its id is not the next one, or the array is full.
Refused(label) ==
    \/ label.id # written[label.key]
    \/ Exceeds(label.key, (written[label.key] + 1) * FrameSize[label.key])

\* write_frame takes the frame, and may dispatch worker jobs; with a pool that
\* has stopped accepting they run before it returns.
ConsumerWrite ==
    LET k == out.label.key
    IN  /\ consumer = "write" /\ ~Refused(out.label)
        /\ written' = [written EXCEPT ![k] = @ + 1]
        /\ jobs' \in IF accepting THEN jobs .. MaxJobs ELSE {jobs}
        /\ consumer' = "written"
        /\ UNCHANGED <<queueVars, flagVars, accepting, outputVars, finalized, user, ret>>

\* write_frame fails: refused, or an error on the way, before or after the
\* frame was counted.  set_error_ runs without the mutex.
ConsumerFail ==
    LET k == out.label.key
    IN  /\ consumer = "write"
        /\ \/ UNCHANGED written
           \/ ~Refused(out.label) /\ written' = [written EXCEPT ![k] = @ + 1]
        /\ error' = TRUE /\ done' = TRUE
        /\ consumer' = "stop"
        /\ UNCHANGED <<queueVars, process_frames, poolVars, outputVars, finalized, user, ret>>

\* notify_one or notify_all on frame_queue_not_full_cv_ and notify_all on
\* frame_queue_finished_cv_: the user thread is the only one that waits.
WakeNobody == UNCHANGED user            \* mutant of NotifyAll
NotifyNotFull == user' = IF At("waitSpace") THEN [user EXCEPT !.pc = "push"] ELSE user
NotifyAll == user' = CASE At("waitSpace")    -> [user EXCEPT !.pc = "push"]
                       [] At("waitFinished") -> [user EXCEPT !.pc = "finished?"]
                       [] OTHER              -> user

\* The error path, under the mutex: stop, drop the queue, wake everyone.
ConsumerStop ==
    /\ consumer = "stop"
    /\ process_frames' = FALSE
    /\ Fifo!FifoClear
    /\ NotifyAll
    /\ consumer' = "ended"
    /\ UNCHANGED <<done, error, poolVars, outputVars, arrayVars, ret>>

\* Under the mutex: there is space on the queue.
ConsumerWritten ==
    /\ consumer = "written"
    /\ NotifyNotFull
    /\ consumer' = "loop"
    /\ UNCHANGED <<queueVars, flagVars, poolVars, outputVars, arrayVars, ret>>

\* The end of the job: frames left over are dropped, and the finalizer woken.
ConsumerExit ==
    /\ consumer = "exit"
    /\ Fifo!FifoClear
    /\ NotifyAll
    /\ consumer' = "ended"
    /\ UNCHANGED <<flagVars, poolVars, outputVars, arrayVars, ret>>
-----------------------------------------------------------------------------
(* The worker jobs *)

JobEnds ==
    /\ jobs > 0
    /\ jobs' = jobs - 1
    /\ UNCHANGED <<queueVars, flagVars, accepting, outputVars, arrayVars, user, consumer, ret>>

\* A job ends with Fatal: the pool stops accepting and calls set_error_.
JobFails ==
    /\ jobs > 0
    /\ jobs' = jobs - 1
    /\ accepting' = FALSE
    /\ error' = TRUE /\ done' = TRUE
    /\ UNCHANGED <<queueVars, process_frames, outputVars, arrayVars, user, consumer, ret>>
-----------------------------------------------------------------------------
(* finalize_stream, on the user thread *)

\* finalize_frame_queue_ first stores process_frames_, without the mutex ...
Close ==
    /\ At("idle")
    /\ process_frames' = FALSE
    /\ Goto("notify")
    /\ UNCHANGED <<queueVars, done, error, poolVars, outputVars, arrayVars, consumer, ret>>

\* ... then wakes the consumer under it ...
CloseNotify ==
    /\ At("notify")
    /\ NotifyNotEmpty
    /\ Goto("finished?")
    /\ UNCHANGED <<queueVars, flagVars, poolVars, outputVars, arrayVars, ret>>

\* ... and waits until an error was set or the queue is empty,
CloseWait ==
    /\ At("finished?")
    /\ Goto(IF done \/ q = <<>> THEN "stopPool" ELSE "waitFinished")
    /\ UNCHANGED <<queueVars, flagVars, poolVars, outputVars, arrayVars, consumer, ret>>

\* for 300 s at most.
CloseTimeout ==
    /\ At("waitFinished")
    /\ Goto("stopPool")
    /\ UNCHANGED <<queueVars, flagVars, poolVars, outputVars, arrayVars, consumer, ret>>

\* await_stop: no job is accepted any more, and every pool thread is joined.
StopPool ==
    /\ At("stopPool")
    /\ accepting' = FALSE
    /\ Goto("join")
    /\ UNCHANGED <<queueVars, flagVars, jobs, outputVars, arrayVars, consumer, ret>>

Joined == consumer = "ended" /\ jobs = 0

Join ==
    /\ At("join") /\ Joined
    /\ Goto("report")
    /\ UNCHANGED <<queueVars, flagVars, poolVars, outputVars, arrayVars, consumer, ret>>

\* mutant: errors of the acquisition are not looked at.
ForgetError ==
    /\ At("report")
    /\ Goto("arrays")
    /\ UNCHANGED <<queueVars, flagVars, poolVars, outputVars, arrayVars, consumer, ret>>

\* An error that was set before ends the close: no array is finalized.
Report ==
    /\ At("report")
    /\ Goto(IF error THEN "closed" ELSE "arrays")
    /\ ret' = IF error THEN "IOError" ELSE ret
    /\ UNCHANGED <<queueVars, flagVars, poolVars, outputVars, arrayVars, consumer>>

\* finalize_array, one array after the other; the first failure ends the
\* close and leaves the others as they are.
FinalizeArray(k, ok) ==
    /\ At("arrays")
    /\ k \notin finalized
    /\ finalized' = finalized \cup {k}
    /\ Goto(IF ok THEN "arrays" ELSE "closed")
    /\ ret' = IF ok THEN ret ELSE "IOError"
    /\ UNCHANGED <<queueVars, flagVars, poolVars, outputVars, written, consumer>>

\* write_intermediate_metadata_ once every array is finalized.
WriteGroups(ok) ==
    /\ At("arrays")
    /\ finalized = Keys
    /\ Goto("closed")
    /\ ret' = IF ok THEN "Success" ELSE "IOError"
    /\ UNCHANGED <<queueVars, flagVars, poolVars, outputVars, arrayVars, consumer>>

\* The stream is deleted: nothing happens any more.
Closed == At("closed") /\ UNCHANGED vars
-----------------------------------------------------------------------------
AppendStep ==
    \/ FillPartial \/ BeginPartial \/ WholeFrame
    \/ Pushed \/ WaitForSpace \/ PushAfterStop \/ AppendReturn

CloseStep ==
    \/ CloseNotify \/ CloseWait \/ StopPool \/ Join \/ Report
    \/ \E k \in Keys, ok \in BOOLEAN : FinalizeArray(k, ok)
    \/ \E ok \in BOOLEAN : WriteGroups(ok)

ConsumerStep ==
    \/ ConsumerLoop \/ ConsumerCheck \/ ConsumerPop
    \/ ConsumerWrite \/ ConsumerFail \/ ConsumerStop
    \/ ConsumerWritten \/ ConsumerExit

WorkerStep == JobEnds \/ JobFails

Next ==
    \/ \E k \in Keys, n \in 1 .. MaxAppend : AppendCall(k, n)
    \/ Close
    \/ AppendStep \/ SpuriousWake
    \/ CloseStep \/ CloseTimeout
    \/ ConsumerStep \/ ConsumerTimeout
    \/ WorkerStep
    \/ Closed

\* Threads are scheduled: a call that has begun goes on, and so do the
\* consumer and the workers.  Nobody has to call append or close, and no wait
\* is assumed to time out or to wake up by itself.
Fairness == WF_vars(AppendStep) /\ WF_vars(CloseStep)
            /\ WF_vars(ConsumerStep) /\ WF_vars(WorkerStep)

Spec == Init /\ [][Next]_vars /\ Fairness
-----------------------------------------------------------------------------
(* Properties *)

TypeOK ==
    /\ \A i \in DOMAIN q : q[i].label \in Labels
    /\ process_frames \in BOOLEAN /\ done \in BOOLEAN /\ error \in BOOLEAN
    /\ accepting \in BOOLEAN /\ jobs \in 0 .. MaxJobs
    /\ \A k \in Keys : offset[k] \in 0 .. FrameSize[k]
    /\ frames_queued \in [Keys -> Nat]
    /\ bytes_written \in [Keys -> Nat]
    /\ written \in [Keys -> Nat]
    /\ finalized \subseteq Keys
    /\ user \in [pc : {"idle", "append", "push", "waitSpace", "return", "notify",
                       "finished?", "waitFinished", "stopPool", "join", "report",
                       "arrays", "closed"},
                 key : Keys, left : 0 .. MaxAppend, taken : 0 .. MaxAppend,
                 data : 0 .. MaxAppend]
    /\ consumer \in {"loop", "check", "waiting", "pop", "write", "written",
                     "stop", "exit", "ended"}
    /\ ret \in {"none", "Success", "PartialWrite", "InternalError",
                "WriteOutOfBounds", "IOError"}

QueuedOf(k) == Cardinality({i \in DOMAIN q : q[i].label.key = k})
Held(k) == IF consumer = "write" /\ out.label.key = k THEN 1 ELSE 0
Taken(k) == IF user.key = k THEN user.taken ELSE 0

\* No byte and no frame is lost or counted twice on the way: while no error
\* has been set, the bytes append took are the frames it queued and the open
\* partial frame, and every frame queued is in the array, in the consumer's
\* hands or on the queue.  append copies every byte of the caller once, in
\* order: it reads from `data` when it opens a partial frame or pushes a whole
\* one, and from data + bytes_out when it fills a partial frame, and that is
\* always the first byte it has not taken.  The consumer brings each array its
\* frames in order and never one too many: write_frame's FrameOutOfOrder and
\* OutOfBounds do not happen.
Source == IF offset[user.key] > 0 THEN user.data + user.taken ELSE user.data
Accounting ==
    /\ ~error => \A k \in Keys :
          /\ bytes_written[k] + Taken(k) = frames_queued[k] * FrameSize[k] + offset[k]
          /\ frames_queued[k] = written[k] + Held(k) + QueuedOf(k)
    /\ At("append") /\ user.left > 0 => Source = user.taken
    /\ consumer = "write" => ~Refused(out.label)

\* finalize_array closes arrays on the user thread while nothing else can be in
\* them: the consumer has ended and no worker job is left.  A close that reports
\* success had no error to report, and has finalized every array with every
\* frame that was ever queued for it.
CleanClose ==
    /\ user.pc \in {"report", "arrays", "closed"} => consumer = "ended" /\ jobs = 0
    /\ At("closed") /\ ret = "Success" =>
          /\ ~error
          /\ finalized = Keys
          /\ written = frames_queued

\* Every call of append and of close returns, without the help of a timeout.
CallsReturn == (At("append") ~> At("idle")) /\ (At("notify") ~> At("closed"))

\* The queue does not keep a frame forever, unless an error ended the stream
\* (append may leave one on the queue after the consumer has ended).
QueueDrains == q # <<>> ~> (q = <<>> \/ error)

\* acquire.zarr.h:328-329 of ZarrStream_close: it "waits for all pending
\* writes to complete, flushes all data durably to storage".
CloseFlushesAllData ==
    At("closed") /\ ret = "Success" =>
       \A k \in Keys : bytes_written[k] = written[k] * FrameSize[k]
=============================================================================
