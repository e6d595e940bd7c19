----------------------------- MODULE FrameQueue -----------------------------
(***************************************************************************)
(* zarr::FrameQueue (frame.queue.cpp): the ring buffer through which       *)
(* ZarrStream_s::append hands frames to process_frame_queue_.              *)
(*                                                                         *)
(* The buffer has one slot more than the frames it holds, so that          *)
(* read_pos = write_pos means empty and never full.  push, pop, clear and  *)
(* bytes_used hold mutex_ throughout and are single actions here; the      *)
(* lock-free observers empty, full and size are split into their two loads *)
(* in FrameQueueObservers.                                                 *)
(*                                                                         *)
(* pop does not copy: it swaps the caller's vector with the slot's, so a   *)
(* slot keeps the caller's previous frame until it is pushed to again.     *)
(***************************************************************************)
EXTENDS Integers, Sequences

CONSTANTS NumFrames,  \* the constructor's num_frames
          Labels,     \* (key, frame id) pairs, copied and never inspected
          SizeOf,     \* the frame length of the array a label names
          Bytes,      \* values of a byte, 0 among them
          Null,       \* data() of a span that has no data
          NoLabel     \* key and frame id of a slot never written

\* The constructor EXPECTs num_frames > 0.
ASSUME NumFramesAssumption == NumFrames \in Nat \ {0}
ASSUME FrameAssumption ==
    /\ SizeOf \in [Labels -> Nat \ {0}]
    /\ 0 \in Bytes
    /\ \A label \in Labels : Null \notin [1 .. SizeOf[label] -> Bytes]

VARIABLES buffer,     \* buffer_: the slots
          write_pos,  \* write_pos_
          read_pos,   \* read_pos_
          out         \* pop's by-reference arguments, kept by the consumer

vars == <<buffer, write_pos, read_pos, out>>

Capacity == NumFrames + 1
Positions == 0 .. Capacity - 1
Contents(n) == [1 .. n -> Bytes]
Data == {<<>>} \cup UNION {Contents(SizeOf[label]) : label \in Labels}

AfterNoWrap(pos) == pos + 1            \* mutant: the modulo is dropped
After(pos) == (pos + 1) % Capacity

\* vector::resize(n, 0): the first n bytes stay, what is added is zero.
Resized(data, n) == [i \in 1 .. n |-> IF i \in DOMAIN data THEN data[i] ELSE 0]

Empty == read_pos = write_pos
FullEarly == After(After(write_pos)) = read_pos    \* mutant: one slot too soon
Full == After(write_pos) = read_pos

Size == IF write_pos >= read_pos
        THEN write_pos - read_pos
        ELSE Capacity - (read_pos - write_pos)

\* The slot of the i-th frame in the queue, and the frames themselves.
Slot == [i \in 1 .. Capacity |-> (read_pos + i - 1) % Capacity]
Queued == [i \in 1 .. Size |-> [label |-> buffer[Slot[i]].label,
                                data  |-> buffer[Slot[i]].data]]
-----------------------------------------------------------------------------
Init ==
    /\ buffer = [pos \in Positions |->
                    [label |-> NoLabel, data |-> <<>>, ready |-> FALSE]]
    /\ write_pos = 0
    /\ read_pos = 0
    /\ out = [label |-> NoLabel, data |-> <<>>]

\* push: refused (no change) when full.  A frame without data resizes the
\* slot's vector and copies nothing into it.
Push(label, frame) ==
    /\ ~Full
    /\ LET resized == Resized(buffer[write_pos].data, SizeOf[label])
       IN  buffer' = [buffer EXCEPT ![write_pos] =
                        [label |-> label,
                         data  |-> IF frame = Null THEN resized ELSE frame,
                         ready |-> TRUE]]
    /\ write_pos' = After(write_pos)
    /\ UNCHANGED <<read_pos, out>>

\* pop refuses (returns false) on an empty queue and on a slot not yet ready.
PopRefused == Empty \/ ~buffer[read_pos].ready

\* mutant: the vectors are not swapped, the caller keeps its old frame.
PopNoSwap ==
    /\ ~PopRefused
    /\ out' = [out EXCEPT !.label = buffer[read_pos].label]
    /\ buffer' = [buffer EXCEPT ![read_pos].ready = FALSE]
    /\ read_pos' = After(read_pos)
    /\ UNCHANGED write_pos

Pop ==
    /\ ~PopRefused
    /\ out' = [label |-> buffer[read_pos].label,
               data  |-> buffer[read_pos].data]
    /\ buffer' = [buffer EXCEPT ![read_pos] = [label |-> buffer[read_pos].label,
                                               data  |-> out.data,
                                               ready |-> FALSE]]
    /\ read_pos' = After(read_pos)
    /\ UNCHANGED write_pos

\* clear moves read_pos_ only: the slots it drops stay marked ready.
Clear ==
    /\ read_pos' = write_pos
    /\ UNCHANGED <<buffer, write_pos, out>>

Next ==
    \/ \E label \in Labels :
          \E frame \in Contents(SizeOf[label]) \cup {Null} : Push(label, frame)
    \/ Pop
    \/ Clear

Spec == Init /\ [][Next]_vars
-----------------------------------------------------------------------------
(* Properties *)

Frames == [label : Labels \cup {NoLabel}, data : Data]
Slots == [label : Labels \cup {NoLabel}, data : Data, ready : BOOLEAN]

TypeOK ==
    /\ buffer \in [Positions -> Slots]
    /\ write_pos \in Positions
    /\ read_pos \in Positions
    /\ out \in Frames

\* Every slot between read_pos_ and write_pos_ is ready and was filled by a
\* push, although clear leaves ready slots behind it and pop leaves the
\* consumer's old bytes in the slot it empties.
WindowReady ==
    \A i \in 1 .. Size : /\ buffer[Slot[i]].ready
                         /\ buffer[Slot[i]].label \in Labels

\* push and pop refuse only for the reason their callers assume: append waits
\* for space when push returns false, and process_frame_queue_ spins when pop
\* returns false after empty() said there was a frame.
RefusedOnlyWhenDue ==
    /\ Full => Len(Queued) = NumFrames
    /\ PopRefused => Queued = <<>>

\* The ring buffer is a bounded FIFO: frames come out in the order they went
\* in, each once, with the label and the bytes they were pushed with.
Fifo == INSTANCE FrameFifo WITH q <- Queued, Bound <- NumFrames
ImplementsFifo == Fifo!FifoSpec

\* What acquire.zarr.h:354-355 says of an append without data: the frame that
\* is queued is all zeros.
NullPushIsZeros ==
    [][\A label \in Labels :
          Push(label, Null) =>
             buffer'[write_pos].data = [i \in 1 .. SizeOf[label] |-> 0]]_vars
=============================================================================
