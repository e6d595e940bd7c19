---------------------------- MODULE MCThreadPool ----------------------------
(***************************************************************************)
(* Pools of one, two and three threads, a feeder and two jobs.           *)
(***************************************************************************)
EXTENDS ThreadPool
=============================================================================
