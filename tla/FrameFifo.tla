----------------------------- MODULE FrameFifo -----------------------------
(***************************************************************************)
(* What the frame queue between the appending thread and the array writer  *)
(* promises: a bounded first-in first-out queue of frames.  It is the      *)
(* specification that FrameQueue, the ring buffer of frame.queue.cpp,      *)
(* implements, and the queue that the stream modules are composed with.    *)
(*                                                                         *)
(* A frame is its label (the array key and the frame id, which the queue   *)
(* copies together and never looks at) and its bytes.  A frame that is     *)
(* pushed without data (a NULL pointer and a length) has some content of   *)
(* that length; which one, this specification leaves open.                 *)
(***************************************************************************)
EXTENDS Integers, Sequences

CONSTANTS Labels,     \* the (key, frame id) pairs frames are pushed under
          SizeOf,     \* the frame length of each label's array
          Bytes,      \* the values of a byte
          Null,       \* the data pointer of a push without data
          Bound       \* the number of frames the queue holds

VARIABLES q,          \* the frames in the queue, oldest first
          out         \* what the last pop returned

Contents(n) == [1 .. n -> Bytes]

FifoInit == q = <<>>

FifoPush(label, frame) ==
    /\ Len(q) < Bound
    /\ \E bytes \in Contents(SizeOf[label]) :
          /\ frame # Null => bytes = frame
          /\ q' = Append(q, [label |-> label, data |-> bytes])
    /\ UNCHANGED out

FifoPop ==
    /\ q # <<>>
    /\ out' = Head(q)
    /\ q' = Tail(q)

FifoClear ==
    /\ q' = <<>>
    /\ UNCHANGED out

FifoNext ==
    \/ \E label \in Labels :
          \E frame \in Contents(SizeOf[label]) \cup {Null} :
             FifoPush(label, frame)
    \/ FifoPop
    \/ FifoClear

FifoSpec == FifoInit /\ [][FifoNext]_<<q, out>>
=============================================================================
