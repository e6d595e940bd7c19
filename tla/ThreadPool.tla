----------------------------- MODULE ThreadPool -----------------------------
(***************************************************************************)
(* zarr::ThreadPool (thread.pool.cpp) as the stream uses it.               *)
(*                                                                         *)
(* One job, Feeder (the frame-queue job of init_frame_queue_), is pushed   *)
(* first and pushes the others while it runs.  At some point the main      *)
(* thread calls await_stop, and once every thread is joined it may still   *)
(* hand jobs to the pool (the arrays' last flush).  A job the pool refuses *)
(* runs on the thread that offered it, as Array::dispatch_chunk_job_ does  *)
(* with execute_job_with_retry; so does every job of a pool of one thread. *)
(*                                                                         *)
(* What runs under jobs_mutex_ is one action.  jobs_cv_ is the set of the  *)
(* threads in state "waiting"; the code never relies on a spurious wakeup. *)
(***************************************************************************)
EXTENDS Integers, Sequences, FiniteSets

CONSTANTS Jobs,          \* the jobs, each offered to the pool once
          Feeder,        \* the job that offers the others
          Requests,      \* values of the constructor's n_threads
          Hardware,      \* values of hardware_concurrency()
          MaxRetries,    \* max_retries of every job, 1 where it is not given
          InlineTries,   \* max_retries of execute_job_with_retry
          None

ASSUME PoolAssumption ==
    /\ Feeder \in Jobs
    /\ None \notin Jobs
    /\ Requests \subseteq Nat /\ Hardware \subseteq Nat
    /\ MaxRetries \in Nat /\ InlineTries \in Nat \ {0}

VARIABLES
    n_threads,       \* how many threads there are
    jobs,            \* jobs_
    accepting,       \* accepting_jobs
    thread,          \* per thread: where it is in process_tasks_, and its job
    attempt,         \* per job: the wrapper's attempt
    status,          \* per job: offered or not, where it is, how it ended
    error_messages,  \* error_messages_: the jobs whose failure was recorded
    handled,         \* the jobs whose failure error_handler_ was called with
    inline,          \* the job that runs on the offering thread, or None
    tries,           \* how often that job has been run
    main             \* the main thread: running, joining or stopped

vars == <<n_threads, jobs, accepting, thread, attempt, status, error_messages,
          handled, inline, tries, main>>

Threads == 1 .. n_threads

\* The constructor: at least two threads (one of them feeds) where there are
\* two cores, at most one per core; hardware_concurrency() may be 0.
PoolSize(requested, hardware) ==
    LET cores == IF hardware = 0 THEN 1 ELSE hardware
        atLeastTwo == IF requested < 2 THEN 2 ELSE requested
    IN  IF cores = 1 THEN 1
        ELSE IF atLeastTwo > cores THEN cores ELSE atLeastTwo

PossibleThreads == {1} \cup UNION {1 .. h : h \in Hardware}

Init ==
    /\ n_threads \in {PoolSize(r, h) : r \in Requests, h \in Hardware}
    /\ jobs = <<Feeder>>
    /\ accepting = TRUE
    /\ thread = [t \in Threads |-> [pc |-> "check", job |-> None]]
    /\ attempt = [j \in Jobs |-> 0]
    /\ status = [j \in Jobs |-> IF j = Feeder THEN "queued" ELSE "new"]
    /\ error_messages = {}
    /\ handled = {}
    /\ inline = None
    /\ tries = 0
    /\ main = "running"
-----------------------------------------------------------------------------
(* Waking threads *)

Waiting == {t \in Threads : thread[t].pc = "waiting"}
Woken(set) == [t \in Threads |->
                 IF t \in set THEN [thread[t] EXCEPT !.pc = "check"] ELSE thread[t]]

\* notify_one wakes any one of the waiting threads, if there is one.
OneWoken == IF Waiting = {} THEN {thread} ELSE {Woken({t}) : t \in Waiting}
-----------------------------------------------------------------------------
(* Offering jobs *)

\* Who may offer a job: the feeder's thread while it runs it, and the main
\* thread once the pool has stopped.  An offering thread that runs a job
\* itself offers nothing else meanwhile.
MayOffer ==
    /\ inline = None
    /\ \/ \E t \in Threads : thread[t] = [pc |-> "running", job |-> Feeder]
       \/ main = "stopped"

Accepts == n_threads > 1 /\ accepting

\* push_job, accepted.
PushJob(j) ==
    /\ MayOffer /\ status[j] = "new" /\ Accepts
    /\ jobs' = Append(jobs, j)
    /\ status' = [status EXCEPT ![j] = "queued"]
    /\ thread' \in OneWoken
    /\ UNCHANGED <<n_threads, accepting, attempt, error_messages, handled,
                   inline, tries, main>>

\* push_job, refused, or not asked: the offering thread runs the job.
RunInline(j) ==
    /\ MayOffer /\ status[j] = "new" /\ ~Accepts
    /\ inline' = j /\ tries' = 0
    /\ status' = [status EXCEPT ![j] = "running"]
    /\ UNCHANGED <<n_threads, jobs, accepting, thread, attempt, error_messages,
                   handled, main>>

\* execute_job_with_retry: Retry runs the job again while tries are left,
\* Success and Fatal end it.  Nobody is told of a failure but the caller.
InlineEnds(result) ==
    LET again == result = "Retry" /\ tries + 1 < InlineTries
    IN  /\ inline # None
        /\ tries' = IF again THEN tries + 1 ELSE 0
        /\ inline' = IF again THEN inline ELSE None
        /\ status' = IF again THEN status
                     ELSE [status EXCEPT ![inline] =
                             IF result = "Success" THEN "succeeded" ELSE "lost"]
        /\ UNCHANGED <<n_threads, jobs, accepting, thread, attempt,
                       error_messages, handled, main>>
-----------------------------------------------------------------------------
(* process_tasks_ *)

ShouldStop == ~accepting /\ jobs = <<>>

\* The top of the loop, under the lock: leave, wait, or take a job.
Leave(t) ==
    /\ thread[t].pc = "check" /\ ShouldStop
    /\ thread' = [thread EXCEPT ![t].pc = "left"]
    /\ UNCHANGED <<n_threads, jobs, accepting, attempt, status, error_messages,
                   handled, inline, tries, main>>

Wait(t) ==
    /\ thread[t].pc = "check" /\ accepting /\ jobs = <<>>
    /\ thread' = [thread EXCEPT ![t].pc = "waiting"]
    /\ UNCHANGED <<n_threads, jobs, accepting, attempt, status, error_messages,
                   handled, inline, tries, main>>

JobsPeeked == jobs                      \* mutant: the front job is not popped
JobsPopped == Tail(jobs)

Take(t) ==
    /\ thread[t].pc = "check" /\ ~ShouldStop /\ jobs # <<>>
    /\ thread' = [thread EXCEPT ![t] = [pc |-> "running", job |-> Head(jobs)]]
    /\ jobs' = JobsPopped
    /\ status' = [status EXCEPT ![Head(jobs)] = "running"]
    /\ UNCHANGED <<n_threads, accepting, attempt, error_messages, handled,
                   inline, tries, main>>

\* The feeder's thread cannot end its job while it runs another one inline.
Ending(t) ==
    /\ thread[t].pc = "running"
    /\ thread[t].job = Feeder => inline = None

Done(t) == [thread EXCEPT ![t] = [pc |-> "check", job |-> None]]

Succeed(t) ==
    /\ Ending(t)
    /\ thread' = Done(t)
    /\ status' = [status EXCEPT ![thread[t].job] = "succeeded"]
    /\ UNCHANGED <<n_threads, jobs, accepting, attempt, error_messages, handled,
                   inline, tries, main>>

\* mutant: one retry too many.
MayRetryOnceMore(t) == attempt[thread[t].job] <= MaxRetries
MayRetry(t) == attempt[thread[t].job] < MaxRetries

\* Retry with attempts left: back on the queue, even of a stopping pool; the
\* feeder's task never asks for it.
Requeue(t) ==
    LET j == thread[t].job
    IN  /\ Ending(t) /\ j # Feeder /\ MayRetry(t)
        /\ attempt' = [attempt EXCEPT ![j] = @ + 1]
        /\ jobs' = Append(jobs, j)
        /\ status' = [status EXCEPT ![j] = "queued"]
        /\ \E woken \in OneWoken :
              thread' = [woken EXCEPT ![t] = [pc |-> "check", job |-> None]]
        /\ UNCHANGED <<n_threads, accepting, error_messages, handled, inline,
                       tries, main>>

\* Fatal, or Retry with none left: under the lock the failure is recorded and
\* the pool stops accepting ...
Fail(t) ==
    /\ Ending(t)
    /\ error_messages' = error_messages \cup {thread[t].job}
    /\ accepting' = FALSE
    /\ status' = [status EXCEPT ![thread[t].job] = "failed"]
    /\ thread' = [thread EXCEPT ![t].pc = "failed"]
    /\ UNCHANGED <<n_threads, jobs, attempt, handled, inline, tries, main>>

\* ... then, without it, every waiting thread is notified ...
NotifyFailure(t) ==
    /\ thread[t].pc = "failed"
    /\ thread' = [Woken(Waiting) EXCEPT ![t].pc = "handler"]
    /\ UNCHANGED <<n_threads, jobs, accepting, attempt, status, error_messages,
                   handled, inline, tries, main>>

\* mutant: the handler is called for the first failure only.
HandleFirst(t) == IF handled = {} THEN {thread[t].job} ELSE handled
WithHandled(t) == handled \cup {thread[t].job}

\* ... and the error handler is called.
HandleError(t) ==
    /\ thread[t].pc = "handler"
    /\ handled' = WithHandled(t)
    /\ thread' = Done(t)
    /\ UNCHANGED <<n_threads, jobs, accepting, attempt, status, error_messages,
                   inline, tries, main>>
-----------------------------------------------------------------------------
(* await_stop, and the destructor *)

NobodyWoken == UNCHANGED thread         \* mutant: no notify_all
EveryoneWoken == thread' = Woken(Waiting)

AwaitStop ==
    /\ main = "running"
    /\ accepting' = FALSE
    /\ EveryoneWoken
    /\ main' = "joining"
    /\ UNCHANGED <<n_threads, jobs, attempt, status, error_messages, handled,
                   inline, tries>>

Join ==
    /\ main = "joining"
    /\ \A t \in Threads : thread[t].pc = "left"
    /\ main' = "stopped"
    /\ UNCHANGED <<n_threads, jobs, accepting, thread, attempt, status,
                   error_messages, handled, inline, tries>>

\* ~ThreadPool clears the queue and stops the (already stopped) pool.
Destroy ==
    /\ main = "stopped" /\ inline = None
    /\ jobs' = <<>>
    /\ main' = "destroyed"
    /\ UNCHANGED <<n_threads, accepting, thread, attempt, status,
                   error_messages, handled, inline, tries>>

Destroyed == main = "destroyed" /\ UNCHANGED vars
-----------------------------------------------------------------------------
ThreadStep(t) ==
    \/ Leave(t) \/ Wait(t) \/ Take(t)
    \/ Succeed(t) \/ Requeue(t) \/ Fail(t)
    \/ NotifyFailure(t) \/ HandleError(t)

Results == {"Success", "Retry", "Fatal"}
InlineStep == \E result \in Results : InlineEnds(result)

Next ==
    \/ \E j \in Jobs : PushJob(j) \/ RunInline(j)
    \/ InlineStep
    \/ \E t \in Threads : ThreadStep(t)
    \/ AwaitStop \/ Join \/ Destroy \/ Destroyed

Feeding(t) == thread[t] = [pc |-> "running", job |-> Feeder]

\* Every thread that can go on does, so every worker job that was started
\* ends; the feeder ends only when the stream is being closed.  await_stop,
\* once called, joins the threads that have left.
Fairness ==
    /\ \A t \in PossibleThreads :
          /\ WF_vars(t \in Threads /\ ~Feeding(t) /\ ThreadStep(t))
          /\ WF_vars(t \in Threads /\ main = "joining" /\ ThreadStep(t))
    /\ WF_vars(InlineStep)
    /\ WF_vars(Join)

Spec == Init /\ [][Next]_vars /\ Fairness
-----------------------------------------------------------------------------
(* Properties *)

TypeOK ==
    /\ n_threads \in Nat \ {0}
    /\ jobs \in Seq(Jobs)
    /\ accepting \in BOOLEAN
    /\ thread \in [Threads -> [pc : {"check", "waiting", "running", "failed",
                                     "handler", "left"},
                               job : Jobs \cup {None}]]
    /\ attempt \in [Jobs -> 0 .. MaxRetries]
    /\ status \in [Jobs -> {"new", "queued", "running", "succeeded", "failed",
                            "lost"}]
    /\ error_messages \subseteq Jobs
    /\ handled \subseteq Jobs
    /\ inline \in Jobs \cup {None}
    /\ tries \in 0 .. InlineTries - 1
    /\ main \in {"running", "joining", "stopped", "destroyed"}

\* A job is in one place at a time, however often it is requeued: on the queue
\* once, or with one thread, or run by its offerer; and only while its status
\* says so.
Places(j) == Cardinality({i \in DOMAIN jobs : jobs[i] = j})
             + Cardinality({t \in Threads : thread[t] = [pc |-> "running", job |-> j]})
             + (IF inline = j THEN 1 ELSE 0)
OnePlace ==
    \A j \in Jobs : Places(j) = IF status[j] \in {"queued", "running"} THEN 1 ELSE 0

\* When await_stop returns, every job the pool accepted has ended, and every
\* failure on a pool thread has been recorded and reported to the stream.
StopDrains ==
    main \in {"stopped", "destroyed"} =>
       /\ jobs = <<>>
       /\ {j \in Jobs : status[j] = "failed"} = error_messages
       /\ error_messages = handled

\* The pool as its users see it: where each job stands, and how far the stop is.
\* A job that its offerer runs is offered until it ends; of a failure they know
\* when the error handler was called.
Stands(j) ==
    IF status[j] = "new" \/ inline = j THEN "new"
    ELSE IF status[j] \in {"queued", "running"} THEN "held"
    ELSE IF status[j] = "succeeded" THEN "done"
    ELSE IF status[j] = "failed" /\ j \in handled THEN "told"
    ELSE status[j]
Standing == [j \in Jobs |-> Stands(j)]
Stage == CASE main = "running" -> "running"
           [] main = "joining" -> "stopping"
           [] main \in {"stopped", "destroyed"} -> "stopped"
Pool == INSTANCE JobPool WITH single <- n_threads = 1, stage <- Stage, job <- Standing

\* ThreadPool implements JobPool: whatever its threads do with the queue, a job
\* is run to one end and not dropped or run again after it, a job comes back to
\* its offerer only when it must, every failure is reported, and await_stop
\* returns when all of that is done.
ImplementsPool == Pool!PoolSpec

\* No wakeup is lost: with more than the feeder's thread, a job on the queue is
\* taken and ends, one way or another, before the stream is closed; and
\* await_stop returns.
JobsAndStopEnd ==
    /\ \A j \in Jobs \ {Feeder} :
          status[j] = "queued" ~> status[j] \in {"succeeded", "failed"}
    /\ main = "joining" ~> main # "joining"
=============================================================================
