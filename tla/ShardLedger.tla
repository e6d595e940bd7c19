----------------------------- MODULE ShardLedger -----------------------------
(***************************************************************************)
(* What an array (array.cpp) relies on of a shard (shard.cpp), and what it *)
(* owes the shard in turn.                                                 *)
(*                                                                         *)
(* Every chunk of the shard has one job.  A job that ends has landed its   *)
(* chunk or lost it.  The last of all chunks to land publishes the shard,  *)
(* in the same step as far as anybody can tell, and is lost itself if that *)
(* fails.  What lost jobs, or jobs that never came, leave open is finished *)
(* from outside, when no job is under way.  Nothing comes after.           *)
(***************************************************************************)
VARIABLES
    state,     \* open, or how the shard was published: ok, bad
    jobs       \* per chunk of the shard: its job is new, pending, landed or lost

ledgerVars == <<state, jobs>>

LedgerInit ==
    /\ state = "open"
    /\ \A i \in DOMAIN jobs : jobs[i] = "new"

Dispatched(i) ==
    /\ state = "open" /\ jobs[i] = "new"
    /\ jobs' = [jobs EXCEPT ![i] = "pending"]
    /\ UNCHANGED state

OthersLanded(i) == \A other \in DOMAIN jobs \ {i} : jobs[other] = "landed"

Lands(i) ==
    /\ state = "open" /\ jobs[i] = "pending"
    /\ ~OthersLanded(i)
    /\ jobs' = [jobs EXCEPT ![i] = "landed"]
    /\ UNCHANGED state

LandsLast(i, ok) ==
    /\ state = "open" /\ jobs[i] = "pending"
    /\ OthersLanded(i)
    /\ state' = IF ok THEN "ok" ELSE "bad"
    /\ jobs' = [jobs EXCEPT ![i] = IF ok THEN "landed" ELSE "lost"]

IsLost(i) ==
    /\ state = "open" /\ jobs[i] = "pending"
    /\ jobs' = [jobs EXCEPT ![i] = "lost"]
    /\ UNCHANGED state

Finishes(ok) ==
    /\ state = "open"
    /\ \A i \in DOMAIN jobs : jobs[i] # "pending"
    /\ state' = IF ok THEN "ok" ELSE "bad"
    /\ UNCHANGED jobs

LedgerNext ==
    \/ \E i \in DOMAIN jobs : Dispatched(i) \/ Lands(i) \/ IsLost(i)
    \/ \E i \in DOMAIN jobs, ok \in BOOLEAN : LandsLast(i, ok)
    \/ \E ok \in BOOLEAN : Finishes(ok)

LedgerSpec == LedgerInit /\ [][LedgerNext]_ledgerVars
=============================================================================
