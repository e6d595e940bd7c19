------------------------------- MODULE MCArray -------------------------------
(***************************************************************************)
(* Two geometries.  Banded: dimensions t, z, y, x with 3 planes in chunks  *)
(* of 2 (a ragged second band), shards of 2 layers and 3 chunks along z,   *)
(* of which only 2 exist.  Plain: dimensions t, y, x with chunks of 2      *)
(* frames and two tiles, each in a shard of its own, 2 layers deep.        *)
(***************************************************************************)
EXTENDS Array

Banded == [banding |-> TRUE, frames_per_layer |-> 3, frames_per_band |-> 2,
           layers_per_shard |-> 2,
           band |-> [slot \in 0 .. 1 |-> slot],
           shard |-> [slot \in 0 .. 2 |-> 0]]

Plain == [banding |-> FALSE, frames_per_layer |-> 2, frames_per_band |-> 2,
          layers_per_shard |-> 2,
          band |-> [slot \in 0 .. 1 |-> 0],
          shard |-> [slot \in 0 .. 1 |-> slot]]

TwoGeometries == {Banded, Plain}
=============================================================================
