------------------------------ MODULE MCStream ------------------------------
(***************************************************************************)
(* A stream of two arrays, one with frames of one byte and one with frames *)
(* of two, over a queue of one frame: append splits and joins frames, waits *)
(* for space, and races the error path, the worker jobs and the close.     *)
(***************************************************************************)
EXTENDS Stream

CONSTANTS a, b

FrameSizes == [k \in {a, b} |-> IF k = a THEN 2 ELSE 1]
ArrayBytes == [k \in {a, b} |-> IF k = a THEN 6 ELSE 2]
=============================================================================
