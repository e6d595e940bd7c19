------------------------ MODULE FrameQueueObservers ------------------------
(***************************************************************************)
(* The lock-free observers of zarr::FrameQueue: empty(), full() and size() *)
(* load write_pos_ and read_pos_ one after the other without mutex_, while *)
(* the other thread may push, pop or clear in between.                     *)
(*                                                                         *)
(* The stream uses them from two threads: the consumer                     *)
(* (process_frame_queue_, which alone pops and clears) and the producer    *)
(* (append, which alone pushes, and finalize_frame_queue_ on the same      *)
(* thread).  A thread that is between its two loads does nothing else.     *)
(***************************************************************************)
EXTENDS FrameQueue

VARIABLE observing    \* the call in progress: its thread, observer, first load

Threads == {"producer", "consumer"}
Ops == {"empty", "full", "size"}
Idle == [by |-> "none", op |-> "none", first |-> 0]

ovars == <<buffer, write_pos, read_pos, out, observing>>

\* mutant: empty() loads write_pos_ first, like the other two.
FirstLoadOfWrite(op) == write_pos

\* empty() loads read_pos_ first; full() and size() load write_pos_ first.
FirstLoad(op) == IF op = "empty" THEN read_pos ELSE write_pos

\* What each returns, from its first load and a second load made now.
SaysEmpty(first) == first = write_pos
SaysFull(first) == After(first) = read_pos
SaysSize(first) == IF first >= read_pos THEN first - read_pos
                                        ELSE Capacity - (read_pos - first)
-----------------------------------------------------------------------------
\* Observers change nothing and what they return depends on the queue alone,
\* so one call at a time shows everything that two at once would.
ObserversInit == Init /\ observing = Idle

Observe(t, op) ==
    /\ observing = Idle
    /\ observing' = [by |-> t, op |-> op, first |-> FirstLoad(op)]
    /\ UNCHANGED vars

Answer ==
    /\ observing # Idle
    /\ observing' = Idle
    /\ UNCHANGED vars

ProducerStep ==
    /\ observing.by # "producer"
    /\ \E label \in Labels :
          \E frame \in Contents(SizeOf[label]) \cup {Null} : Push(label, frame)
    /\ UNCHANGED observing

ConsumerStep ==
    /\ observing.by # "consumer"
    /\ Pop \/ Clear
    /\ UNCHANGED observing

ObserversNext ==
    \/ \E t \in Threads, op \in Ops : Observe(t, op)
    \/ Answer
    \/ ProducerStep
    \/ ConsumerStep

ObserversSpec == ObserversInit /\ [][ObserversNext]_ovars
-----------------------------------------------------------------------------
ToldEmpty(t) == observing.by = t /\ observing.op = "empty"
ToldFull(t)  == observing.by = t /\ observing.op = "full"
ToldSize(t)  == observing.by = t /\ observing.op = "size"

\* The answers a thread may rely on when it gets them.  The consumer's empty()
\* and the producer's full() and size() are exact.  In the other thread an
\* answer can be stale in one direction only: TRUE from the producer's empty()
\* (finalize_frame_queue_ waits for it) or from the consumer's full() still
\* holds, and the consumer's size() never counts a frame that is not there.
\* A call may make its second load in any state it is in progress in.
ObserversHonest ==
    LET first == observing.first
    IN  /\ ToldEmpty("consumer") => (SaysEmpty(first) <=> Queued = <<>>)
        /\ ToldEmpty("producer") => (SaysEmpty(first) => Queued = <<>>)
        /\ ToldFull("consumer") => (SaysFull(first) => Len(Queued) = NumFrames)
        /\ ToldFull("producer") => (SaysFull(first) <=> Len(Queued) = NumFrames)
        /\ ToldSize("consumer") => SaysSize(first) <= Len(Queued)
        /\ ToldSize("producer") => SaysSize(first) = Len(Queued)
=============================================================================
