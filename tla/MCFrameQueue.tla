---------------------------- MODULE MCFrameQueue ----------------------------
(***************************************************************************)
(* The frame queue and its observers on two frames (three slots), with one *)
(* array whose frames are one byte long and one whose frames are two: a    *)
(* slot is reused, wraps around, grows and shrinks.                        *)
(***************************************************************************)
EXTENDS FrameQueueObservers

CONSTANTS short, long       \* a label of each array

FrameSizes == [label \in {short, long} |-> IF label = short THEN 1 ELSE 2]

\* The acquisition before any error: clear has not been called.
NoClearSpec ==
    /\ ObserversInit
    /\ [][/\ \/ Pop
             \/ \E label \in Labels :
                   \E frame \in Contents(SizeOf[label]) \cup {Null} :
                      Push(label, frame)
          /\ UNCHANGED observing]_ovars
=============================================================================
