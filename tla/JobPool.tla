------------------------------- MODULE JobPool -------------------------------
(***************************************************************************)
(* What the stream and its arrays rely on of the thread pool.              *)
(*                                                                         *)
(* A job that is offered is accepted and then held by the pool, or run by  *)
(* the one that offers it.  The latter happens only in a pool of one       *)
(* thread, after a job has failed, or once the pool is to stop.  A job     *)
(* that the pool holds succeeds or fails, and of each that failed the      *)
(* stream is told.  The pool returns from its stop when it holds no job    *)
(* any more, and nothing is left to be told.                               *)
(***************************************************************************)
CONSTANTS Jobs,    \* the jobs, each offered once
          Feeder   \* the job the pool begins with, which offers the others

VARIABLES
    single,        \* the pool has one thread
    stage,         \* running, stopping or stopped
    job            \* per job: new, held, done, failed, told, or lost by its offerer

poolVars == <<single, stage, job>>

PoolInit ==
    /\ single \in BOOLEAN
    /\ stage = "running"
    /\ job = [j \in Jobs |-> IF j = Feeder THEN "held" ELSE "new"]

Becomes(j, next) == job' = [job EXCEPT ![j] = next] /\ UNCHANGED <<single, stage>>

\* The feeder offers jobs, and the main thread when the pool has stopped.
Offered(j) ==
    /\ job[j] = "new"
    /\ job[Feeder] = "held" \/ stage = "stopped"

Refuses == \/ single \/ stage # "running"
           \/ \E j \in Jobs : job[j] \in {"failed", "told"}

Accepted(j) == Offered(j) /\ ~Refuses /\ Becomes(j, "held")
RunByOfferer(j) ==
    Offered(j) /\ Refuses /\ \E end \in {"done", "lost"} : Becomes(j, end)

Ended(j) == job[j] = "held" /\ \E end \in {"done", "failed"} : Becomes(j, end)
Told(j) == job[j] = "failed" /\ Becomes(j, "told")

Stop == stage = "running" /\ stage' = "stopping" /\ UNCHANGED <<single, job>>
StopReturns ==
    /\ stage = "stopping"
    /\ \A j \in Jobs : job[j] \notin {"held", "failed"}
    /\ stage' = "stopped"
    /\ UNCHANGED <<single, job>>

PoolNext ==
    \/ \E j \in Jobs : Accepted(j) \/ RunByOfferer(j) \/ Ended(j) \/ Told(j)
    \/ Stop \/ StopReturns

PoolSpec == PoolInit /\ [][PoolNext]_poolVars
=============================================================================
