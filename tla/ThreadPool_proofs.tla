-------------------------- MODULE ThreadPool_proofs --------------------------
(***************************************************************************)
(* Proofs about ThreadPool for any set of jobs, any number of threads and  *)
(* any numbers of retries: a job is in one place at a time, and when       *)
(* await_stop returns the pool is drained and every failure was reported.  *)
(*                                                                         *)
(* That the queue is empty once all threads have left needs to know, while *)
(* some are still there, why a job that is requeued by a stopping pool is  *)
(* not left behind: the thread that requeued it is still there (Draining). *)
(***************************************************************************)
EXTENDS ThreadPool, FiniteSetTheorems, SequenceTheorems, TLAPS

ThreadStates == [pc : {"check", "waiting", "running", "failed", "handler", "left"},
                 job : Jobs \cup {None}]

\* The queue holds the jobs whose status says so, each once.
Holds(queue, set) ==
    /\ queue \in Seq(Jobs)
    /\ \A i, k \in DOMAIN queue : queue[i] = queue[k] => i = k
    /\ \A j \in Jobs : j \in set <=> \E i \in DOMAIN queue : queue[i] = j

Queued == {j \in Jobs : status[j] = "queued"}

\* A job that is being run is run by one thread, or by the one that offered it.
RunOnce ==
    /\ \A t \in Threads : thread[t].pc = "running" =>
          /\ thread[t].job \in Jobs /\ status[thread[t].job] = "running"
          /\ inline # thread[t].job
          /\ \A u \in Threads \ {t} : ~(thread[u].pc = "running" /\ thread[u].job = thread[t].job)
    /\ inline # None => status[inline] = "running"
    /\ \A j \in Jobs : status[j] = "running" =>
          \/ inline = j
          \/ \E t \in Threads : thread[t].pc = "running" /\ thread[t].job = j

\* A failure is recorded when the job ends; the thread on which it did reports
\* it before it does anything else.
Reports ==
    /\ error_messages = {j \in Jobs : status[j] = "failed"}
    /\ handled \subseteq error_messages
    /\ \A t \in Threads : thread[t].pc \in {"failed", "handler"} =>
          thread[t].job \in error_messages
    /\ \A j \in error_messages \ handled :
          \E t \in Threads : thread[t].pc \in {"failed", "handler"} /\ thread[t].job = j

\* A thread leaves a pool that has stopped accepting, when its queue is empty;
\* while there is a job on the queue, there is a thread that has not left.
Draining ==
    /\ main # "running" => ~accepting
    /\ \A t \in Threads : thread[t].pc = "left" => ~accepting
    /\ jobs # <<>> => \E t \in Threads : thread[t].pc # "left"
    /\ main \in {"stopped", "destroyed"} => \A t \in Threads : thread[t].pc = "left"

IInv == TypeOK /\ Holds(jobs, Queued) /\ RunOnce /\ Reports /\ Draining
-----------------------------------------------------------------------------
(* Facts about the queue *)

LEMMA AppendFacts ==
    ASSUME NEW queue, NEW set, Holds(queue, set), NEW j \in Jobs \ set
    PROVE  Holds(Append(queue, j), set \cup {j}) /\ Append(queue, j) # <<>>
  <1> DEFINE new == Append(queue, j)
  <1>1. /\ new \in Seq(Jobs) /\ Len(new) = Len(queue) + 1 /\ Len(queue) \in Nat
        /\ DOMAIN queue = 1 .. Len(queue) /\ DOMAIN new = 1 .. Len(queue) + 1
        /\ \A i \in DOMAIN queue : new[i] = queue[i]
        /\ new[Len(queue) + 1] = j
    BY AppendProperties DEF Holds
  <1> HIDE DEF new
  <1>2. \A i \in DOMAIN queue : queue[i] # j
    BY DEF Holds
  <1>3. \A i, k \in DOMAIN new : new[i] = new[k] => i = k
    BY <1>1, <1>2 DEF Holds
  <1>4. ASSUME NEW g \in Jobs
        PROVE  g \in set \cup {j} <=> \E i \in DOMAIN new : new[i] = g
    <2>1. DOMAIN new = DOMAIN queue \cup {Len(queue) + 1}
      BY <1>1
    <2> QED
      BY <1>1, <2>1 DEF Holds
  <1>5. new # <<>>
    BY <1>1
  <1> QED
    BY <1>1, <1>3, <1>4, <1>5 DEF Holds, new

LEMMA TailFacts ==
    ASSUME NEW queue, NEW set, Holds(queue, set), queue # <<>>
    PROVE  /\ Head(queue) \in Jobs /\ Head(queue) \in set
           /\ Holds(Tail(queue), set \ {Head(queue)})
  <1> DEFINE new == Tail(queue)
  <1>1. queue \in Seq(Jobs)
    BY DEF Holds
  <1>2. /\ Len(queue) \in Nat \ {0} /\ Len(new) = Len(queue) - 1
        /\ new \in Seq(Jobs)
        /\ DOMAIN queue = 1 .. Len(queue) /\ DOMAIN new = 1 .. Len(queue) - 1
        /\ \A i \in DOMAIN new : new[i] = queue[i + 1]
        /\ Head(queue) = queue[1] /\ Head(queue) \in Jobs
    BY <1>1, HeadTailProperties, LenProperties, EmptySeq
  <1> HIDE DEF new
  <1>3. ASSUME NEW i \in DOMAIN new, NEW k \in DOMAIN new, new[i] = new[k]
        PROVE  i = k
    <2>1. i + 1 \in DOMAIN queue /\ k + 1 \in DOMAIN queue
      BY <1>2
    <2>2. queue[i + 1] = queue[k + 1]
      BY <1>2, <1>3
    <2>3. i + 1 = k + 1
      BY <2>1, <2>2 DEF Holds
    <2> QED
      BY <1>2, <2>3
  <1>4. ASSUME NEW g \in Jobs
        PROVE  g \in set \ {Head(queue)} <=> \E i \in DOMAIN new : new[i] = g
    <2>1. ASSUME g \in set, g # Head(queue) PROVE \E i \in DOMAIN new : new[i] = g
      <3>1. PICK k \in DOMAIN queue : queue[k] = g
        BY <2>1 DEF Holds
      <3>2. k # 1
        BY <1>2, <2>1, <3>1
      <3>3. k - 1 \in DOMAIN new /\ (k - 1) + 1 = k
        BY <1>2, <3>1, <3>2
      <3> QED
        BY <1>2, <3>1, <3>3
    <2>2. ASSUME NEW i \in DOMAIN new, new[i] = g PROVE g \in set /\ g # Head(queue)
      <3>1. i + 1 \in DOMAIN queue /\ 1 \in DOMAIN queue /\ i + 1 # 1
        BY <1>2
      <3>2. queue[i + 1] = g /\ queue[i + 1] # queue[1]
        BY <1>2, <2>2, <3>1 DEF Holds
      <3> QED
        BY <1>2, <3>1, <3>2 DEF Holds
    <2> QED
      BY <2>1, <2>2
  <1>5. Head(queue) \in set
    <2>1. 1 \in DOMAIN queue /\ queue[1] \in Jobs
      BY <1>2
    <2> QED
      BY <1>2, <2>1 DEF Holds
  <1> QED
    BY <1>2, <1>3, <1>4, <1>5 DEF Holds, new
-----------------------------------------------------------------------------
(* Facts about the threads *)

\* The thread is where it was, up to waking up.
Same(new, t) ==
    /\ new[t] \in ThreadStates
    /\ new[t].job = thread[t].job
    /\ \A pc \in {"running", "failed", "handler", "left"} :
          new[t].pc = pc <=> thread[t].pc = pc

\* What notifying does to the threads.
LEMMA WokenFacts ==
    ASSUME TypeOK, NEW set \in SUBSET Waiting
    PROVE  /\ Woken(set) \in [Threads -> ThreadStates]
           /\ \A t \in Threads : Same(Woken(set), t)
  <1>1. ASSUME NEW t \in Threads PROVE Same(Woken(set), t)
    <2>1. thread[t] \in ThreadStates
      BY DEF TypeOK, ThreadStates
    <2>2. CASE t \notin set
      BY <2>1, <2>2 DEF Woken, Same
    <2>3. CASE t \in set
      <3>1. thread[t].pc = "waiting"
        BY <2>3 DEF Waiting
      <3>2. Woken(set)[t] = [thread[t] EXCEPT !.pc = "check"]
        BY <2>3 DEF Woken
      <3> QED
        BY <2>1, <3>1, <3>2 DEF Same, ThreadStates
    <2> QED
      BY <2>2, <2>3
  <1>2. Woken(set) = [t \in Threads |-> Woken(set)[t]]
    BY DEF Woken
  <1> QED
    BY <1>1, <1>2 DEF Same

LEMMA OneWokenFacts ==
    ASSUME TypeOK, NEW woken \in OneWoken
    PROVE  woken \in [Threads -> ThreadStates] /\ \A t \in Threads : Same(woken, t)
  <1>1. CASE woken = thread
    BY <1>1 DEF TypeOK, ThreadStates, Same
  <1>2. CASE \E t \in Waiting : woken = Woken({t})
    BY <1>2, WokenFacts
  <1> QED
    BY <1>1, <1>2 DEF OneWoken

\* All threads are where they were, or all but t, which has gone to pc with job.
Still == /\ thread' \in [Threads -> ThreadStates]
         /\ \A t \in Threads : Same(thread', t)
Moved(t, pc, job) ==
    /\ thread' \in [Threads -> ThreadStates]
    /\ thread'[t].pc = pc /\ thread'[t].job = job
    /\ \A u \in Threads \ {t} : Same(thread', u)

LEMMA MovedFacts ==
    ASSUME TypeOK, NEW t \in Threads, NEW new \in ThreadStates, NEW woken,
           woken \in [Threads -> ThreadStates], \A u \in Threads : Same(woken, u),
           thread' = [woken EXCEPT ![t] = new]
    PROVE  Moved(t, new.pc, new.job)
  BY DEF Moved, Same

\* The thread array itself is such a woken.
LEMMA UnwokenFacts ==
    ASSUME TypeOK
    PROVE  thread \in [Threads -> ThreadStates] /\ \A u \in Threads : Same(thread, u)
  BY DEF TypeOK, ThreadStates, Same
\* A thread goes elsewhere with the job it has, or none.
LEMMA WalkedFacts ==
    ASSUME TypeOK, NEW t \in Threads,
           NEW pc \in {"check", "waiting", "running", "failed", "handler", "left"},
           thread' = [thread EXCEPT ![t].pc = pc]
    PROVE  thread' \in [Threads -> ThreadStates]
  <1> DEFINE new == [thread[t] EXCEPT !.pc = pc]
  <1>1. thread \in [Threads -> ThreadStates]
    BY UnwokenFacts
  <1>2. new \in ThreadStates
    <2>1. thread[t] \in ThreadStates
      BY <1>1
    <2> QED
      BY <2>1 DEF ThreadStates
  <1>3. thread' = [thread EXCEPT ![t] = new]
    OBVIOUS
  <1> HIDE DEF new
  <1> QED
    BY <1>1, <1>2, <1>3
-----------------------------------------------------------------------------
(* Init, and one lemma per action *)

LEMMA InitIInv == Init => IInv
  <1> SUFFICES ASSUME Init PROVE IInv
    OBVIOUS
  <1> USE DEF Init
  <1>1. n_threads \in Nat \ {0}
    BY PoolAssumption DEF PoolAssumption, PoolSize
  <1>2. TypeOK
    <2>1. attempt \in [Jobs -> 0 .. MaxRetries] /\ tries \in 0 .. InlineTries - 1
      BY PoolAssumption DEF PoolAssumption
    <2>2. jobs \in Seq(Jobs)
      BY PoolAssumption DEF PoolAssumption
    <2> QED
      BY <1>1, <2>1, <2>2 DEF TypeOK
  <1>3. Holds(jobs, Queued)
    BY PoolAssumption DEF PoolAssumption, Holds, Queued
  <1>4. RunOnce
    BY DEF RunOnce
  <1>5. Reports
    BY DEF Reports
  <1>6. Draining
    <2>1. 1 \in Threads
      BY <1>1 DEF Threads
    <2> QED
      BY <2>1 DEF Draining
  <1> QED
    BY <1>2, <1>3, <1>4, <1>5, <1>6 DEF IInv

LEMMA PushJobKeeps ==
    ASSUME IInv, NEW j \in Jobs, PushJob(j)
    PROVE  IInv'
  <1> USE DEF IInv
  <1>1. /\ status[j] = "new" /\ accepting
        /\ jobs' = Append(jobs, j)
        /\ status' = [status EXCEPT ![j] = "queued"]
        /\ UNCHANGED <<n_threads, accepting, attempt, error_messages, handled,
                       inline, tries, main>>
        /\ Threads' = Threads
    BY DEF PushJob, Accepts, Threads
  <1>2. Still
    BY OneWokenFacts DEF PushJob, Still
  <1>3. Holds(jobs, Queued)' /\ jobs' # <<>>
    <2>1. j \notin Queued /\ Queued' = Queued \cup {j}
      BY <1>1 DEF Queued, TypeOK
    <2> QED
      BY <1>1, <2>1, AppendFacts
  <1>4. TypeOK'
    BY <1>1, <1>2, <1>3 DEF TypeOK, Still, ThreadStates, Holds
  <1>5. RunOnce'
    <2>1. \A t \in Threads : /\ thread'[t].pc = "running" <=> thread[t].pc = "running"
                            /\ thread'[t].job = thread[t].job
      BY <1>2 DEF Still, Same
    <2>2. \A i \in Jobs : status'[i] = "running" <=> status[i] = "running"
      BY <1>1 DEF TypeOK
    <2>3. inline # None => status'[inline] = "running"
      BY <2>2 DEF RunOnce, TypeOK
    <2>4. \A i \in Jobs : status'[i] = "running" =>
             \/ inline = i
             \/ \E t \in Threads : thread'[t].pc = "running" /\ thread'[t].job = i
      BY <2>1, <2>2 DEF RunOnce
    <2>5. ASSUME NEW t \in Threads, thread'[t].pc = "running"
          PROVE  /\ thread'[t].job \in Jobs /\ status'[thread'[t].job] = "running"
                 /\ inline # thread'[t].job
                 /\ \A u \in Threads \ {t} :
                       ~(thread'[u].pc = "running" /\ thread'[u].job = thread'[t].job)
      BY <2>1, <2>2, <2>5 DEF RunOnce
    <2> QED
      BY <1>1, <2>3, <2>4, <2>5 DEF RunOnce
  <1>6. Reports'
    <2>1. \A t \in Threads :
             /\ thread'[t].pc \in {"failed", "handler"} <=> thread[t].pc \in {"failed", "handler"}
             /\ thread'[t].job = thread[t].job
      BY <1>2 DEF Still, Same
    <2>2. {i \in Jobs : status'[i] = "failed"} = {i \in Jobs : status[i] = "failed"}
      BY <1>1 DEF TypeOK
    <2> QED
      BY <1>1, <2>1, <2>2 DEF Reports
  <1>7. Draining'
    <2>1. \A t \in Threads : thread'[t].pc # "left"
      BY <1>1, <1>2 DEF Draining, Still, Same
    <2>2. main = "running" /\ 1 \in Threads
      BY <1>1 DEF Draining, Threads, TypeOK
    <2> QED
      BY <1>1, <2>1, <2>2 DEF Draining
  <1> QED
    BY <1>3, <1>4, <1>5, <1>6, <1>7

LEMMA RunInlineKeeps ==
    ASSUME IInv, NEW j \in Jobs, RunInline(j)
    PROVE  IInv'
  <1> USE DEF IInv
  <1>1. /\ status[j] = "new" /\ inline = None
        /\ inline' = j /\ tries' = 0
        /\ status' = [status EXCEPT ![j] = "running"]
        /\ UNCHANGED <<n_threads, jobs, accepting, thread, attempt, error_messages,
                       handled, main>>
        /\ Threads' = Threads
    BY DEF RunInline, MayOffer, Threads
  <1>2. TypeOK'
    BY <1>1, PoolAssumption DEF TypeOK, PoolAssumption
  <1>3. Holds(jobs, Queued)'
    BY <1>1 DEF Holds, Queued, TypeOK
  <1>4. RunOnce'
    <2>1. \A i \in Jobs : status'[i] = "running" <=> status[i] = "running" \/ i = j
      BY <1>1 DEF TypeOK
    <2>2. \A t \in Threads : thread[t].pc = "running" => thread[t].job # j
      BY <1>1 DEF RunOnce
    <2> QED
      BY <1>1, <2>1, <2>2, PoolAssumption DEF RunOnce, TypeOK, PoolAssumption
  <1>5. Reports'
    BY <1>1 DEF Reports, TypeOK
  <1>6. Draining'
    BY <1>1 DEF Draining
  <1> QED
    BY <1>2, <1>3, <1>4, <1>5, <1>6

LEMMA InlineEndsKeeps ==
    ASSUME IInv, NEW result, InlineEnds(result)
    PROVE  IInv'
  <1> USE DEF IInv
  <1> DEFINE again == result = "Retry" /\ tries + 1 < InlineTries
             end == IF result = "Success" THEN "succeeded" ELSE "lost"
  <1>1. /\ inline # None
        /\ tries' = IF again THEN tries + 1 ELSE 0
        /\ inline' = IF again THEN inline ELSE None
        /\ status' = IF again THEN status ELSE [status EXCEPT ![inline] = end]
        /\ UNCHANGED <<n_threads, jobs, accepting, thread, attempt, error_messages,
                       handled, main>>
        /\ Threads' = Threads
    BY DEF InlineEnds, Threads
  <1>2. inline \in Jobs /\ status[inline] = "running"
    BY <1>1 DEF RunOnce, TypeOK
  <1>3. TypeOK'
    BY <1>1, <1>2, PoolAssumption DEF TypeOK, PoolAssumption
  <1>4. Queued' = Queued /\ {j \in Jobs : status[j] = "failed"}' = {j \in Jobs : status[j] = "failed"}
    BY <1>1, <1>2 DEF Queued, TypeOK
  <1>5. Holds(jobs, Queued)'
    BY <1>1, <1>4 DEF Holds
  <1>6. RunOnce'
    BY <1>1, <1>2, PoolAssumption DEF RunOnce, TypeOK, PoolAssumption
  <1>7. Reports'
    BY <1>1, <1>4 DEF Reports
  <1>8. Draining'
    BY <1>1 DEF Draining
  <1> QED
    BY <1>3, <1>5, <1>6, <1>7, <1>8

\* Leave and Wait: a thread that has no job goes elsewhere.
LEMMA LeaveKeeps ==
    ASSUME IInv, NEW t \in Threads, Leave(t)
    PROVE  IInv'
  <1> USE DEF IInv
  <1>1. /\ thread[t].pc = "check" /\ ~accepting /\ jobs = <<>>
        /\ thread' = [thread EXCEPT ![t].pc = "left"]
        /\ UNCHANGED <<n_threads, jobs, accepting, attempt, status, error_messages,
                       handled, inline, tries, main>>
        /\ Threads' = Threads
    BY DEF Leave, ShouldStop, Threads
  <1>2. TypeOK' /\ Holds(jobs, Queued)'
    <2>1. thread' \in [Threads -> ThreadStates]
      BY <1>1, WalkedFacts
    <2>2. TypeOK'
      BY <1>1, <2>1 DEF TypeOK, ThreadStates
    <2>3. Queued' = Queued /\ jobs' = jobs
      BY <1>1 DEF Queued
    <2> QED
      BY <2>2, <2>3 DEF Holds
  <1>3. /\ thread'[t].pc = "left"
        /\ \A u \in Threads \ {t} : thread'[u] = thread[u]
    BY <1>1 DEF TypeOK
  <1>4. RunOnce'
    BY <1>1, <1>3 DEF RunOnce
  <1>5. Reports'
    BY <1>1, <1>3 DEF Reports
  <1>6. Draining'
    BY <1>1, <1>3 DEF Draining
  <1> QED
    BY <1>2, <1>4, <1>5, <1>6

LEMMA WaitKeeps ==
    ASSUME IInv, NEW t \in Threads, Wait(t)
    PROVE  IInv'
  <1> USE DEF IInv
  <1>1. /\ thread[t].pc = "check" /\ accepting /\ jobs = <<>>
        /\ thread' = [thread EXCEPT ![t].pc = "waiting"]
        /\ UNCHANGED <<n_threads, jobs, accepting, attempt, status, error_messages,
                       handled, inline, tries, main>>
        /\ Threads' = Threads
    BY DEF Wait, Threads
  <1>2. TypeOK' /\ Holds(jobs, Queued)'
    <2>1. thread' \in [Threads -> ThreadStates]
      BY <1>1, WalkedFacts
    <2>2. TypeOK'
      BY <1>1, <2>1 DEF TypeOK, ThreadStates
    <2>3. Queued' = Queued /\ jobs' = jobs
      BY <1>1 DEF Queued
    <2> QED
      BY <2>2, <2>3 DEF Holds
  <1>3. /\ thread'[t].pc = "waiting"
        /\ \A u \in Threads \ {t} : thread'[u] = thread[u]
    BY <1>1 DEF TypeOK
  <1>4. RunOnce'
    BY <1>1, <1>3 DEF RunOnce
  <1>5. Reports'
    BY <1>1, <1>3 DEF Reports
  <1>6. Draining'
    BY <1>1, <1>3 DEF Draining
  <1> QED
    BY <1>2, <1>4, <1>5, <1>6

LEMMA TakeKeeps ==
    ASSUME IInv, NEW t \in Threads, Take(t)
    PROVE  IInv'
  <1> USE DEF IInv
  <1> DEFINE j == Head(jobs)
  <1>1. /\ thread[t].pc = "check" /\ jobs # <<>>
        /\ thread' = [thread EXCEPT ![t] = [pc |-> "running", job |-> j]]
        /\ jobs' = Tail(jobs)
        /\ status' = [status EXCEPT ![j] = "running"]
        /\ UNCHANGED <<n_threads, accepting, attempt, error_messages, handled,
                       inline, tries, main>>
        /\ Threads' = Threads
    BY DEF Take, JobsPopped, Threads
  <1>2. j \in Jobs /\ j \in Queued /\ Holds(Tail(jobs), Queued \ {j})
    BY <1>1, TailFacts
  <1> HIDE DEF j
  <1>3. status[j] = "queued"
    BY <1>2 DEF Queued
  <1>4. Holds(jobs, Queued)'
    <2>1. Queued' = Queued \ {j}
      BY <1>1, <1>2 DEF Queued, TypeOK
    <2> QED
      BY <1>1, <1>2, <2>1
  <1>5. /\ thread'[t] = [pc |-> "running", job |-> j]
        /\ \A u \in Threads \ {t} : thread'[u] = thread[u]
    BY <1>1 DEF TypeOK
  <1>6. TypeOK'
    BY <1>1, <1>2, <1>4 DEF TypeOK, Holds
  <1>7. RunOnce'
    <2>1. \A i \in Jobs : status'[i] = "running" <=> status[i] = "running" \/ i = j
      BY <1>1, <1>2 DEF TypeOK
    <2>2. \A u \in Threads : thread[u].pc = "running" => thread[u].job # j
      BY <1>3 DEF RunOnce
    <2>3. inline # j
      BY <1>2, <1>3, PoolAssumption DEF RunOnce, PoolAssumption
    <2>4. /\ inline' # None => status'[inline'] = "running"
          /\ \A i \in Jobs : status'[i] = "running" =>
                \/ inline' = i
                \/ \E u \in Threads : thread'[u].pc = "running" /\ thread'[u].job = i
      BY <1>1, <1>5, <2>1 DEF RunOnce, TypeOK
    <2>5. ASSUME NEW u \in Threads, thread'[u].pc = "running"
          PROVE  /\ thread'[u].job \in Jobs /\ status'[thread'[u].job] = "running"
                 /\ inline' # thread'[u].job
                 /\ \A v \in Threads \ {u} :
                       ~(thread'[v].pc = "running" /\ thread'[v].job = thread'[u].job)
      <3>1. CASE u = t
        BY <1>1, <1>2, <1>5, <2>1, <2>2, <2>3, <3>1
      <3>2. CASE u # t
        BY <1>1, <1>5, <2>1, <2>2, <2>5, <3>2 DEF RunOnce
      <3> QED
        BY <3>1, <3>2
    <2> QED
      BY <1>1, <2>4, <2>5 DEF RunOnce
  <1>8. Reports'
    BY <1>1, <1>2, <1>3, <1>5 DEF Reports, TypeOK
  <1>9. Draining'
    BY <1>1, <1>5 DEF Draining
  <1> QED
    BY <1>4, <1>6, <1>7, <1>8, <1>9

\* A job that ended or goes back to the queue leaves its thread, and nobody
\* else runs it.
LEMMA RunEnds ==
    ASSUME IInv, NEW t \in Threads, Ending(t), NEW pc, NEW job, Moved(t, pc, job),
           pc # "running", NEW end, end # "running",
           status' = [status EXCEPT ![thread[t].job] = end],
           UNCHANGED <<n_threads, inline>>
    PROVE  RunOnce'
  <1> DEFINE j == thread[t].job
  <1>1. thread[t].pc = "running" /\ j \in Jobs /\ status[j] = "running" /\ inline # j
    BY DEF Ending, IInv, RunOnce
  <1>2. \A i \in Jobs : status'[i] = "running" <=> status[i] = "running" /\ i # j
    BY <1>1 DEF IInv, TypeOK
  <1>3. \A u \in Threads \ {t} : thread[u].pc = "running" => thread[u].job # j
    BY <1>1 DEF IInv, RunOnce
  <1>4. \A u \in Threads \ {t} : /\ thread'[u].pc = "running" <=> thread[u].pc = "running"
                                /\ thread'[u].job = thread[u].job
    BY DEF Moved, Same
  <1>5. thread'[t].pc # "running" /\ Threads' = Threads
    BY DEF Moved, Threads
  <1>6. inline # None => status'[inline] = "running"
    BY <1>1, <1>2 DEF IInv, RunOnce, TypeOK
  <1>7. ASSUME NEW i \in Jobs, status'[i] = "running", inline # i
        PROVE  \E u \in Threads : thread'[u].pc = "running" /\ thread'[u].job = i
    <2>1. PICK u \in Threads : thread[u].pc = "running" /\ thread[u].job = i
      BY <1>2, <1>7 DEF IInv, RunOnce
    <2> QED
      BY <1>2, <1>4, <1>7, <2>1
  <1>8. ASSUME NEW u \in Threads, thread'[u].pc = "running"
        PROVE  /\ thread'[u].job \in Jobs /\ status'[thread'[u].job] = "running"
               /\ inline # thread'[u].job
               /\ \A v \in Threads \ {u} :
                     ~(thread'[v].pc = "running" /\ thread'[v].job = thread'[u].job)
    BY <1>2, <1>3, <1>4, <1>5, <1>8 DEF IInv, RunOnce
  <1> QED
    BY <1>5, <1>6, <1>7, <1>8 DEF RunOnce

LEMMA SucceedKeeps ==
    ASSUME IInv, NEW t \in Threads, Succeed(t)
    PROVE  IInv'
  <1> USE DEF IInv
  <1> DEFINE j == thread[t].job
             new == [pc |-> "check", job |-> None]
  <1>1. /\ Ending(t) /\ thread' = [thread EXCEPT ![t] = new]
        /\ status' = [status EXCEPT ![j] = "succeeded"]
        /\ UNCHANGED <<n_threads, jobs, accepting, attempt, error_messages, handled,
                       inline, tries, main>>
        /\ Threads' = Threads
    BY DEF Succeed, Done, Threads
  <1>2. j \in Jobs /\ status[j] = "running" /\ thread[t].pc = "running"
    BY <1>1 DEF Ending, RunOnce
  <1>3. Moved(t, "check", None)
    <2>1. new \in ThreadStates /\ new.pc = "check" /\ new.job = None
      BY DEF ThreadStates
    <2> HIDE DEF new
    <2> QED
      BY <1>1, <2>1, MovedFacts, UnwokenFacts
  <1>4. Queued' = Queued /\ {i \in Jobs : status'[i] = "failed"} = {i \in Jobs : status[i] = "failed"}
    BY <1>1, <1>2 DEF Queued, TypeOK
  <1>5. TypeOK'
    BY <1>1, <1>2, <1>3 DEF TypeOK, Moved, ThreadStates
  <1>6. Holds(jobs, Queued)'
    BY <1>1, <1>4 DEF Holds
  <1>7. RunOnce'
    BY <1>1, <1>3, RunEnds
  <1>8. Reports'
    BY <1>1, <1>2, <1>3, <1>4 DEF Reports, Moved, Same
  <1>9. Draining'
    BY <1>1, <1>2, <1>3 DEF Draining, Moved, Same
  <1> QED
    BY <1>5, <1>6, <1>7, <1>8, <1>9

\* The job goes back to the queue, and the thread is there to take it.
LEMMA RequeueKeeps ==
    ASSUME IInv, NEW t \in Threads, Requeue(t)
    PROVE  IInv'
  <1> USE DEF IInv
  <1> DEFINE j == thread[t].job
             new == [pc |-> "check", job |-> None]
  <1>1. /\ Ending(t) /\ attempt[j] < MaxRetries
        /\ attempt' = [attempt EXCEPT ![j] = @ + 1]
        /\ jobs' = Append(jobs, j)
        /\ status' = [status EXCEPT ![j] = "queued"]
        /\ UNCHANGED <<n_threads, accepting, error_messages, handled, inline,
                       tries, main>>
        /\ Threads' = Threads
    BY DEF Requeue, MayRetry, Threads
  <1>2. j \in Jobs /\ status[j] = "running" /\ thread[t].pc = "running"
    BY <1>1 DEF Ending, RunOnce
  <1>3. Moved(t, "check", None)
    <2>1. PICK woken \in OneWoken : thread' = [woken EXCEPT ![t] = new]
      BY DEF Requeue
    <2>2. new \in ThreadStates /\ new.pc = "check" /\ new.job = None
      BY DEF ThreadStates
    <2> HIDE DEF new
    <2> QED
      BY <2>1, <2>2, MovedFacts, OneWokenFacts
  <1>4. Queued' = Queued \cup {j} /\ j \notin Queued
    BY <1>1, <1>2 DEF Queued, TypeOK
  <1>5. Holds(jobs, Queued)' /\ jobs' # <<>>
    BY <1>1, <1>2, <1>4, AppendFacts
  <1>6. TypeOK'
    <2>1. attempt' \in [Jobs -> 0 .. MaxRetries]
      BY <1>1, <1>2, PoolAssumption DEF TypeOK, PoolAssumption
    <2> QED
      BY <1>1, <1>2, <1>3, <1>5, <2>1 DEF TypeOK, Moved, ThreadStates, Holds
  <1>7. RunOnce'
    BY <1>1, <1>3, RunEnds
  <1>8. Reports'
    <2>1. {i \in Jobs : status'[i] = "failed"} = {i \in Jobs : status[i] = "failed"}
      BY <1>1, <1>2 DEF TypeOK
    <2> QED
      BY <1>1, <1>2, <1>3, <2>1 DEF Reports, Moved, Same
  <1>9. Draining'
    BY <1>1, <1>2, <1>3 DEF Draining, Moved, Same
  <1> QED
    BY <1>5, <1>6, <1>7, <1>8, <1>9

LEMMA FailKeeps ==
    ASSUME IInv, NEW t \in Threads, Fail(t)
    PROVE  IInv'
  <1> USE DEF IInv
  <1> DEFINE j == thread[t].job
             new == [thread[t] EXCEPT !.pc = "failed"]
  <1>1. /\ Ending(t) /\ thread' = [thread EXCEPT ![t] = new]
        /\ error_messages' = error_messages \cup {j} /\ ~accepting'
        /\ accepting' \in BOOLEAN
        /\ status' = [status EXCEPT ![j] = "failed"]
        /\ UNCHANGED <<n_threads, jobs, attempt, handled, inline, tries, main>>
        /\ Threads' = Threads
    BY DEF Fail, Threads
  <1>2. j \in Jobs /\ status[j] = "running" /\ thread[t].pc = "running"
    BY <1>1 DEF Ending, RunOnce
  <1>3. Moved(t, "failed", j)
    <2>1. new \in ThreadStates /\ new.pc = "failed" /\ new.job = j
      BY DEF TypeOK, ThreadStates
    <2> HIDE DEF new
    <2> QED
      BY <1>1, <2>1, MovedFacts, UnwokenFacts
  <1>4. Queued' = Queued
    BY <1>1, <1>2 DEF Queued, TypeOK
  <1>5. TypeOK'
    BY <1>1, <1>2, <1>3 DEF TypeOK, Moved, ThreadStates
  <1>6. Holds(jobs, Queued)'
    BY <1>1, <1>4 DEF Holds
  <1>7. RunOnce'
    BY <1>1, <1>3, RunEnds
  <1>8. Reports'
    <2>1. {i \in Jobs : status'[i] = "failed"} = {i \in Jobs : status[i] = "failed"} \cup {j}
      BY <1>1, <1>2 DEF TypeOK
    <2>2. thread'[t].pc = "failed" /\ thread'[t].job = j
      BY <1>3 DEF Moved
    <2>3. \A u \in Threads \ {t} :
             /\ thread'[u].pc \in {"failed", "handler"} <=> thread[u].pc \in {"failed", "handler"}
             /\ thread'[u].job = thread[u].job
      BY <1>3 DEF Moved, Same
    <2>4. thread[t].pc \notin {"failed", "handler"}
      BY <1>2
    <2> QED
      BY <1>1, <2>1, <2>2, <2>3, <2>4 DEF Reports
  <1>9. Draining'
    BY <1>1, <1>2, <1>3 DEF Draining, Moved, Same
  <1> QED
    BY <1>5, <1>6, <1>7, <1>8, <1>9

LEMMA NotifyFailureKeeps ==
    ASSUME IInv, NEW t \in Threads, NotifyFailure(t)
    PROVE  IInv'
  <1> USE DEF IInv
  <1>1. /\ thread[t].pc = "failed"
        /\ thread' = [Woken(Waiting) EXCEPT ![t].pc = "handler"]
        /\ UNCHANGED <<n_threads, jobs, accepting, attempt, status, error_messages,
                       handled, inline, tries, main>>
        /\ Threads' = Threads
    BY DEF NotifyFailure, Threads
  <1>2. Moved(t, "handler", thread[t].job)
    <2> DEFINE woken == Woken(Waiting)
               new == [woken[t] EXCEPT !.pc = "handler"]
    <2>1. woken \in [Threads -> ThreadStates] /\ \A u \in Threads : Same(woken, u)
      BY WokenFacts
    <2> HIDE DEF woken
    <2>2. new \in ThreadStates /\ new.pc = "handler" /\ new.job = thread[t].job
      BY <2>1 DEF Same, ThreadStates
    <2>3. thread' = [woken EXCEPT ![t] = new]
      BY <1>1 DEF woken
    <2> HIDE DEF new
    <2> QED
      BY <2>1, <2>2, <2>3, MovedFacts
  <1>3. TypeOK' /\ Holds(jobs, Queued)'
    BY <1>1, <1>2 DEF TypeOK, Moved, ThreadStates, Holds, Queued
  <1>4. RunOnce'
    <2>1. thread'[t].pc # "running" /\ thread[t].pc # "running"
      BY <1>1, <1>2 DEF Moved
    <2>2. \A u \in Threads : /\ thread'[u].pc = "running" <=> thread[u].pc = "running"
                            /\ thread'[u].job = thread[u].job
      BY <1>2, <2>1 DEF Moved, Same
    <2> QED
      BY <1>1, <2>2 DEF RunOnce
  <1>5. Reports'
    <2>1. \A u \in Threads :
             /\ thread'[u].pc \in {"failed", "handler"} <=> thread[u].pc \in {"failed", "handler"}
             /\ thread'[u].job = thread[u].job
      BY <1>1, <1>2 DEF Moved, Same
    <2> QED
      BY <1>1, <2>1 DEF Reports
  <1>6. Draining'
    BY <1>1, <1>2 DEF Draining, Moved, Same
  <1> QED
    BY <1>3, <1>4, <1>5, <1>6

LEMMA HandleErrorKeeps ==
    ASSUME IInv, NEW t \in Threads, HandleError(t)
    PROVE  IInv'
  <1> USE DEF IInv
  <1> DEFINE new == [pc |-> "check", job |-> None]
  <1>1. /\ thread[t].pc = "handler"
        /\ handled' = handled \cup {thread[t].job}
        /\ thread' = [thread EXCEPT ![t] = new]
        /\ UNCHANGED <<n_threads, jobs, accepting, attempt, status, error_messages,
                       inline, tries, main>>
        /\ Threads' = Threads
    BY DEF HandleError, WithHandled, Done, Threads
  <1>2. thread'[t] = new /\ \A u \in Threads \ {t} : thread'[u] = thread[u]
    BY <1>1 DEF TypeOK
  <1>3. thread[t].job \in error_messages
    BY <1>1 DEF Reports
  <1>4. TypeOK' /\ Holds(jobs, Queued)'
    BY <1>1, <1>3 DEF TypeOK, Holds, Queued
  <1>5. RunOnce'
    BY <1>1, <1>2 DEF RunOnce
  <1>6. Reports'
    BY <1>1, <1>2, <1>3 DEF Reports
  <1>7. Draining'
    BY <1>1, <1>2 DEF Draining
  <1> QED
    BY <1>4, <1>5, <1>6, <1>7

LEMMA AwaitStopKeeps ==
    ASSUME IInv, AwaitStop
    PROVE  IInv'
  <1> USE DEF IInv
  <1>1. /\ main = "running" /\ main' = "joining" /\ accepting' = FALSE
        /\ thread' = Woken(Waiting)
        /\ UNCHANGED <<n_threads, jobs, attempt, status, error_messages, handled,
                       inline, tries>>
        /\ Threads' = Threads
    BY DEF AwaitStop, EveryoneWoken, Threads
  <1>2. Still
    BY <1>1, WokenFacts DEF Still
  <1>3. TypeOK' /\ Holds(jobs, Queued)'
    BY <1>1, <1>2 DEF TypeOK, Still, ThreadStates, Holds, Queued
  <1>4. RunOnce'
    <2>1. \A u \in Threads : /\ thread'[u].pc = "running" <=> thread[u].pc = "running"
                            /\ thread'[u].job = thread[u].job
      BY <1>2 DEF Still, Same
    <2> QED
      BY <1>1, <2>1 DEF RunOnce
  <1>5. Reports'
    <2>1. \A u \in Threads :
             /\ thread'[u].pc \in {"failed", "handler"} <=> thread[u].pc \in {"failed", "handler"}
             /\ thread'[u].job = thread[u].job
      BY <1>2 DEF Still, Same
    <2> QED
      BY <1>1, <2>1 DEF Reports
  <1>6. Draining'
    BY <1>1, <1>2 DEF Draining, Still, Same
  <1> QED
    BY <1>3, <1>4, <1>5, <1>6

\* Join and Destroy change neither the threads nor what the jobs are.
LEMMA EndKeeps ==
    ASSUME IInv, Join \/ Destroy
    PROVE  IInv'
  <1> USE DEF IInv
  <1>1. /\ UNCHANGED <<n_threads, accepting, thread, attempt, status,
                       error_messages, handled, inline, tries>>
        /\ Threads' = Threads
        /\ main # "running" /\ main' \in {"stopped", "destroyed"}
        /\ \A t \in Threads : thread[t].pc = "left"
    BY DEF Join, Destroy, Threads, Draining
  <1>2. jobs' = jobs
    <2>1. jobs = <<>>
      BY <1>1 DEF Draining
    <2> QED
      BY <2>1 DEF Join, Destroy
  <1>3. TypeOK' /\ Holds(jobs, Queued)'
    BY <1>1, <1>2 DEF TypeOK, Holds, Queued
  <1>4. RunOnce' /\ Reports'
    BY <1>1 DEF RunOnce, Reports
  <1>5. Draining'
    BY <1>1, <1>2 DEF Draining
  <1> QED
    BY <1>3, <1>4, <1>5
-----------------------------------------------------------------------------
(* The theorems *)

\* Every reachable state of the pool satisfies the inductive invariant.
THEOREM Invariant == Spec => []IInv
  <1>1. ASSUME IInv, [Next]_vars PROVE IInv'
    <2>1. CASE \E j \in Jobs : PushJob(j) \/ RunInline(j)
      BY <1>1, <2>1, PushJobKeeps, RunInlineKeeps
    <2>2. CASE InlineStep
      BY <1>1, <2>2, InlineEndsKeeps DEF InlineStep
    <2>3. CASE \E t \in Threads : ThreadStep(t)
      <3>1. PICK t \in Threads : ThreadStep(t)
        BY <2>3
      <3> QED
        BY <1>1, <3>1, LeaveKeeps, WaitKeeps, TakeKeeps, SucceedKeeps, RequeueKeeps,
           FailKeeps, NotifyFailureKeeps, HandleErrorKeeps DEF ThreadStep
    <2>4. CASE AwaitStop \/ Join \/ Destroy
      BY <1>1, <2>4, AwaitStopKeeps, EndKeeps
    <2>5. CASE UNCHANGED vars
      <3>1. Threads' = Threads /\ Queued' = Queued
        BY <2>5 DEF vars, Threads, Queued
      <3> QED
        BY <1>1, <2>5, <3>1 DEF vars, IInv, TypeOK, Holds, RunOnce, Reports, Draining
    <2> QED
      BY <1>1, <2>1, <2>2, <2>3, <2>4, <2>5 DEF Next, Destroyed
  <1> QED
    BY InitIInv, <1>1, PTL DEF Spec

\* Every variable keeps to its values; no job is retried more often than its
\* max_retries.
THEOREM TypeCorrect == Spec => []TypeOK
  <1>1. IInv => TypeOK
    BY DEF IInv
  <1> QED
    BY Invariant, <1>1, PTL

\* A job is in one place at a time, on the queue, with a thread or run by its
\* offerer, whoever pushes, takes, requeues and is woken meanwhile.
THEOREM JobsInOnePlace == Spec => []OnePlace
  <1>1. ASSUME IInv PROVE OnePlace
    <2> USE <1>1 DEF IInv
    <2> SUFFICES ASSUME NEW j \in Jobs
                 PROVE  Places(j) = IF status[j] \in {"queued", "running"} THEN 1 ELSE 0
      BY DEF OnePlace
    <2> DEFINE onQueue == {i \in DOMAIN jobs : jobs[i] = j}
               with == {t \in Threads : thread[t] = [pc |-> "running", job |-> j]}
    <2>1. \A t \in Threads : t \in with <=> thread[t].pc = "running" /\ thread[t].job = j
      BY DEF TypeOK
    <2>2. Cardinality(onQueue) = IF status[j] = "queued" THEN 1 ELSE 0
      <3>1. CASE status[j] = "queued"
        <4>1. PICK i \in DOMAIN jobs : jobs[i] = j
          BY <3>1 DEF Holds, Queued
        <4>2. onQueue = {i}
          BY <4>1 DEF Holds
        <4> QED
          BY <3>1, <4>2, FS_Singleton
      <3>2. CASE status[j] # "queued"
        <4>1. onQueue = {}
          BY <3>2 DEF Holds, Queued
        <4> QED
          BY <3>2, <4>1, FS_EmptySet
      <3> QED
        BY <3>1, <3>2
    <2>3. Cardinality(with) + (IF inline = j THEN 1 ELSE 0) =
             IF status[j] = "running" THEN 1 ELSE 0
      <3>1. CASE with # {}
        <4>1. PICK t \in with : TRUE
          BY <3>1
        <4>2. thread[t].pc = "running" /\ thread[t].job = j
          BY <2>1, <4>1
        <4>3. with = {t} /\ status[j] = "running" /\ inline # j
          BY <2>1, <4>1, <4>2 DEF RunOnce
        <4>4. Cardinality({t}) = 1
          BY FS_Singleton
        <4> HIDE DEF with
        <4> QED
          BY <4>3, <4>4
      <3>2. CASE with = {}
        <4>1. status[j] = "running" <=> inline = j
          BY <2>1, <3>2, PoolAssumption DEF RunOnce, PoolAssumption
        <4> QED
          BY <3>2, <4>1, FS_EmptySet
      <3> QED
        BY <3>1, <3>2
    <2>4. Places(j) = Cardinality(onQueue) + Cardinality(with)
                      + (IF inline = j THEN 1 ELSE 0)
      BY DEF Places
    <2>5. Cardinality(onQueue) \in Nat /\ Cardinality(with) \in Nat
      <3>1. IsFiniteSet(with)
        <4>1. with \subseteq 1 .. n_threads /\ n_threads \in Nat
          BY DEF Threads, TypeOK
        <4>2. IsFiniteSet(1 .. n_threads)
          BY <4>1, FS_Interval
        <4> QED
          BY <4>1, <4>2, FS_Subset
      <3> QED
        BY <2>2, <3>1, FS_CardinalityType
    <2> HIDE DEF onQueue, with
    <2> QED
      BY <2>2, <2>3, <2>4, <2>5
  <1> QED
    BY Invariant, <1>1, PTL

\* When await_stop returns, whatever was requeued or failed meanwhile, no job
\* is left on the queue and every failure was recorded and reported.
THEOREM StopLeavesNothing == Spec => []StopDrains
  <1>1. ASSUME IInv PROVE StopDrains
    <2> USE <1>1 DEF IInv
    <2> SUFFICES ASSUME main \in {"stopped", "destroyed"}
                 PROVE  /\ jobs = <<>>
                        /\ {j \in Jobs : status[j] = "failed"} = error_messages
                        /\ error_messages = handled
      BY DEF StopDrains
    <2>1. \A t \in Threads : thread[t].pc = "left"
      BY DEF Draining
    <2>2. jobs = <<>>
      BY <2>1 DEF Draining
    <2>3. error_messages \subseteq handled
      BY <2>1 DEF Reports
    <2> QED
      BY <2>2, <2>3 DEF Reports
  <1> QED
    BY Invariant, <1>1, PTL
-----------------------------------------------------------------------------
(* The pool as its users see it *)

\* Why the pool refuses a job, and who is waiting while its offerer runs it.
Offering ==
    /\ accepting <=> main = "running" /\ error_messages = {}
    /\ status[Feeder] # "new" /\ inline # Feeder
    /\ inline # None => /\ ~Accepts
                        /\ status[Feeder] = "running" \/ main = "stopped"

LEMMA StandsIs ==
    ASSUME TypeOK, NEW j \in Jobs
    PROVE  /\ Standing[j] = Stands(j) /\ j # None
           /\ status[j] = "new" \/ inline = j => Stands(j) = "new"
           /\ status[j] \in {"queued", "running"} /\ inline # j => Stands(j) = "held"
           /\ status[j] = "succeeded" /\ inline # j => Stands(j) = "done"
           /\ status[j] = "lost" /\ inline # j => Stands(j) = "lost"
           /\ status[j] = "failed" /\ inline # j =>
                 Stands(j) = IF j \in handled THEN "told" ELSE "failed"
  <1> QED
    BY PoolAssumption DEF PoolAssumption, Standing, Stands

\* The jobs after a step that moves none, or one.
LEMMA NoneMoves ==
    ASSUME \A k \in Jobs : Stands(k)' = Stands(k)
    PROVE  Standing' = Standing
  <1> QED
    BY DEF Standing

LEMMA OneMoves ==
    ASSUME NEW j \in Jobs, \A k \in Jobs \ {j} : Stands(k)' = Stands(k), NEW next,
           Stands(j)' = next
    PROVE  Standing' = [Standing EXCEPT ![j] = next]
  <1> QED
    BY DEF Standing

\* A job that is refused is waiting to be offered until its offerer has run it.
LEMMA PushIsAccepted ==
    ASSUME IInv, Offering, NEW j \in Jobs, PushJob(j)
    PROVE  Pool!Accepted(j) /\ Offering'
  <1>1. TypeOK /\ RunOnce /\ Reports
    BY DEF IInv
  <1>2. /\ MayOffer /\ status[j] = "new" /\ n_threads > 1 /\ accepting /\ inline = None
        /\ status' = [status EXCEPT ![j] = "queued"]
        /\ UNCHANGED <<n_threads, accepting, error_messages, handled, inline, main>>
    BY DEF PushJob, MayOffer, Accepts
  <1>3. main = "running" /\ error_messages = {} /\ j # Feeder
    BY <1>2 DEF Offering
  <1>4. \E t \in Threads : thread[t].pc = "running" /\ thread[t].job = Feeder
    BY <1>2, <1>3 DEF MayOffer
  <1>5. status[Feeder] = "running"
    BY <1>1, <1>4 DEF RunOnce
  <1>6. Offering'
    <2>1. status'[Feeder] = status[Feeder]
      BY <1>1, <1>2, <1>3, PoolAssumption DEF TypeOK, PoolAssumption
    <2> QED
      BY <1>2, <2>1 DEF Offering
  <1>7. j # None /\ Feeder \in Jobs /\ Feeder # None
    BY PoolAssumption DEF PoolAssumption
  <1>8. Standing[j] = "new" /\ Standing[Feeder] = "held"
    BY <1>1, <1>2, <1>5, <1>7, StandsIs
  <1>9. ~Pool!Refuses
    <2>1. Stage = "running"
      BY <1>3 DEF Stage
    <2>2. \A k \in Jobs : Standing[k] \notin {"failed", "told"}
      <3> SUFFICES ASSUME NEW k \in Jobs PROVE Standing[k] \notin {"failed", "told"}
        OBVIOUS
      <3>1. status[k] \in {"new", "queued", "running", "succeeded", "lost"}
        BY <1>1, <1>3 DEF Reports, TypeOK
      <3>2. inline # k
        BY <1>2, PoolAssumption DEF PoolAssumption
      <3> QED
        BY <1>1, <3>1, <3>2, StandsIs
    <2>3. n_threads # 1
      BY <1>2
    <2> QED
      BY <2>1, <2>2, <2>3 DEF Pool!Refuses
  <1>10. Standing' = [Standing EXCEPT ![j] = "held"]
    <2>1. Stands(j)' = "held"
      BY <1>1, <1>2, <1>7 DEF Stands, TypeOK
    <2>2. \A k \in Jobs \ {j} : Stands(k)' = Stands(k)
      BY <1>1, <1>2 DEF Stands, TypeOK
    <2> QED
      BY <2>1, <2>2, OneMoves
  <1>11. UNCHANGED <<(n_threads = 1), Stage>>
    BY <1>2 DEF Stage
  <1> QED
    BY <1>6, <1>8, <1>9, <1>10, <1>11 DEF Pool!Accepted, Pool!Offered, Pool!Becomes

LEMMA RunInlineIsWaiting ==
    ASSUME IInv, Offering, NEW j \in Jobs, RunInline(j)
    PROVE  Standing' = Standing /\ UNCHANGED <<n_threads, Stage>> /\ Offering'
  <1>1. TypeOK /\ RunOnce
    BY DEF IInv
  <1>2. /\ MayOffer /\ status[j] = "new" /\ ~Accepts /\ inline = None /\ inline' = j
        /\ status' = [status EXCEPT ![j] = "running"]
        /\ UNCHANGED <<n_threads, accepting, error_messages, handled, main>>
    BY DEF RunInline, MayOffer
  <1>3. j # None /\ j # Feeder /\ \A k \in Jobs : k # None
    BY <1>2, PoolAssumption DEF PoolAssumption, Offering
  <1>4. status[Feeder] = "running" \/ main = "stopped"
    BY <1>1, <1>2 DEF MayOffer, RunOnce
  <1>5. status'[Feeder] = status[Feeder]
    BY <1>1, <1>2, <1>3 DEF TypeOK
  <1>6. Offering'
    BY <1>2, <1>3, <1>4, <1>5 DEF Offering, Accepts
  <1>7. \A k \in Jobs : Stands(k)' = Stands(k)
    BY <1>1, <1>2, <1>3 DEF Stands, TypeOK
  <1> QED
    BY <1>2, <1>6, <1>7, NoneMoves DEF Stage

LEMMA InlineEndsIsRunByOfferer ==
    ASSUME IInv, Offering, NEW result, InlineEnds(result)
    PROVE  /\ \/ \E j \in Jobs : Pool!RunByOfferer(j)
              \/ UNCHANGED <<n_threads, Stage, Standing>>
           /\ Offering'
  <1> DEFINE again == result = "Retry" /\ tries + 1 < InlineTries
             end == IF result = "Success" THEN "succeeded" ELSE "lost"
             next == IF result = "Success" THEN "done" ELSE "lost"
  <1>1. TypeOK /\ RunOnce /\ Reports
    BY DEF IInv
  <1>2. /\ inline # None
        /\ inline' = IF again THEN inline ELSE None
        /\ status' = IF again THEN status ELSE [status EXCEPT ![inline] = end]
        /\ UNCHANGED <<n_threads, accepting, error_messages, handled, main>>
    BY DEF InlineEnds
  <1> HIDE DEF again
  <1>3. UNCHANGED <<n_threads, Stage>>
    BY <1>2 DEF Stage
  <1>4. CASE again
    <2>1. Offering'
      BY <1>2, <1>4 DEF Offering, Accepts
    <2>2. \A k \in Jobs : Stands(k)' = Stands(k)
      BY <1>2, <1>4 DEF Stands
    <2> QED
      BY <1>3, <2>1, <2>2, NoneMoves
  <1>5. CASE ~again
    <2>1. PICK j \in Jobs : j = inline
      BY <1>1, <1>2 DEF TypeOK
    <2>2. inline' = None /\ status' = [status EXCEPT ![j] = end] /\ j # Feeder
      BY <1>2, <1>5, <2>1 DEF Offering
    <2>3. Feeder \in Jobs /\ \A k \in Jobs : k # None
      BY PoolAssumption DEF PoolAssumption
    <2>4. status'[Feeder] = status[Feeder]
      BY <1>1, <2>2, <2>3 DEF TypeOK
    <2>5. Offering'
      BY <1>2, <2>2, <2>3, <2>4 DEF Offering
    <2>6. Standing' = [Standing EXCEPT ![j] = next]
      <3>1. Stands(j)' = next
        BY <1>1, <2>2, <2>3 DEF Stands, TypeOK
      <3>2. \A k \in Jobs \ {j} : Stands(k)' = Stands(k)
        BY <1>1, <1>2, <2>1, <2>2, <2>3 DEF Stands, TypeOK
      <3> HIDE DEF next
      <3> QED
        BY <3>1, <3>2, OneMoves
    <2>7. Pool!Offered(j)
      <3>1. Standing[j] = "new"
        BY <1>1, <2>1, StandsIs
      <3>2. Standing[Feeder] = "held" \/ Stage = "stopped"
        <4>1. CASE status[Feeder] = "running"
          BY <1>1, <2>3, <4>1, StandsIs DEF Offering
        <4>2. CASE main = "stopped"
          BY <4>2 DEF Stage
        <4> QED
          BY <1>2, <4>1, <4>2 DEF Offering
      <3> QED
        BY <3>1, <3>2 DEF Pool!Offered
    <2>8. Pool!Refuses
      <3>1. CASE ~(n_threads > 1)
        BY <1>1, <3>1 DEF Pool!Refuses, TypeOK
      <3>2. CASE ~accepting
        <4>1. CASE main # "running"
          <5>1. Stage # "running"
            BY <1>1, <4>1 DEF Stage, TypeOK
          <5> QED
            BY <5>1 DEF Pool!Refuses
        <4>2. CASE error_messages # {}
          <5>1. PICK k \in Jobs : status[k] = "failed"
            BY <1>1, <4>2 DEF Reports
          <5>2. inline # k
            BY <1>1, <1>2, <5>1 DEF RunOnce
          <5>3. Standing[k] \in {"failed", "told"}
            BY <1>1, <5>1, <5>2, StandsIs
          <5> QED
            BY <5>3 DEF Pool!Refuses
        <4> QED
          BY <3>2, <4>1, <4>2 DEF Offering
      <3> QED
        BY <1>2, <3>1, <3>2 DEF Offering, Accepts
    <2>9. next \in {"done", "lost"}
      OBVIOUS
    <2> HIDE DEF next
    <2>10. Pool!RunByOfferer(j)
      BY <1>3, <2>6, <2>7, <2>8, <2>9 DEF Pool!RunByOfferer, Pool!Becomes
    <2> QED
      BY <2>5, <2>10
  <1> QED
    BY <1>4, <1>5

\* Waiting, waking, taking and putting back are the pool's own affair.
LEMMA QueueIsHidden ==
    ASSUME IInv, Offering, NEW t \in Threads,
           Leave(t) \/ Wait(t) \/ Take(t) \/ Requeue(t) \/ NotifyFailure(t)
    PROVE  UNCHANGED <<n_threads, Stage, Standing>> /\ Offering'
  <1>1. TypeOK /\ RunOnce /\ Holds(jobs, Queued)
    BY DEF IInv
  <1>2. UNCHANGED <<n_threads, accepting, error_messages, handled, inline, main>>
    BY DEF Leave, Wait, Take, Requeue, NotifyFailure
  <1>3. UNCHANGED <<n_threads, Stage>>
    BY <1>2 DEF Stage
  <1>4. CASE Leave(t) \/ Wait(t) \/ NotifyFailure(t)
    <2>1. status' = status
      BY <1>4 DEF Leave, Wait, NotifyFailure
    <2> QED
      BY <1>2, <1>3, <2>1 DEF Offering, Accepts, Standing, Stands
  <1>5. CASE Take(t) \/ Requeue(t)
    <2>1. PICK j \in Jobs :
             /\ status[j] \in {"queued", "running"} /\ inline # j
             /\ \/ status' = [status EXCEPT ![j] = "running"]
                \/ status' = [status EXCEPT ![j] = "queued"] /\ j # Feeder
      <3>1. CASE Take(t)
        <4>1. /\ jobs # <<>> /\ status' = [status EXCEPT ![Head(jobs)] = "running"]
          BY <3>1 DEF Take
        <4>2. Head(jobs) \in Jobs /\ Head(jobs) \in Queued
          BY <1>1, <4>1, TailFacts
        <4>3. status[Head(jobs)] = "queued"
          BY <4>2 DEF Queued
        <4>4. inline # Head(jobs)
          BY <1>1, <4>2, <4>3, PoolAssumption DEF RunOnce, PoolAssumption
        <4> QED
          BY <4>1, <4>2, <4>3, <4>4
      <3>2. CASE Requeue(t)
        BY <1>1, <3>2 DEF Requeue, Ending, RunOnce
      <3> QED
        BY <1>5, <3>1, <3>2
    <2>2. \A k \in Jobs : Stands(k)' = Stands(k)
      BY <1>1, <1>2, <2>1 DEF Stands, TypeOK
    <2>3. Offering'
      <3>1. status'[Feeder] \in {status[Feeder], "running"}
        BY <1>1, <2>1, PoolAssumption DEF TypeOK, PoolAssumption
      <3> QED
        BY <1>2, <3>1 DEF Offering, Accepts
    <2> QED
      BY <1>3, <2>2, <2>3, NoneMoves
  <1> QED
    BY <1>4, <1>5

\* A job on a thread ends; if it fails, the pool accepts nothing from then on.
LEMMA EndIsEnded ==
    ASSUME IInv, Offering, NEW t \in Threads, Succeed(t) \/ Fail(t)
    PROVE  (\E j \in Jobs : Pool!Ended(j)) /\ Offering'
  <1>1. TypeOK /\ RunOnce /\ Reports
    BY DEF IInv
  <1>2. /\ thread[t].pc = "running" /\ (thread[t].job = Feeder => inline = None)
        /\ UNCHANGED <<n_threads, handled, inline, main>>
    BY DEF Succeed, Fail, Ending
  <1>3. PICK j \in Jobs : /\ j = thread[t].job /\ status[j] = "running"
                          /\ inline # j /\ j \notin handled
    BY <1>1, <1>2 DEF RunOnce, Reports
  <1>4. UNCHANGED <<(n_threads = 1), Stage>>
    BY <1>2 DEF Stage
  <1>5. Standing[j] = "held"
    BY <1>1, <1>3, StandsIs
  <1>6. /\ \A k \in Jobs \ {j} : status'[k] = status[k]
        /\ status'[j] \in {"succeeded", "failed"}
    BY <1>1, <1>3 DEF Succeed, Fail, TypeOK
  <1>7. PICK end \in {"done", "failed"} : Stands(j)' = end
    BY <1>2, <1>3, <1>6 DEF Stands
  <1>8. Standing' = [Standing EXCEPT ![j] = end]
    <2>1. \A k \in Jobs \ {j} : Stands(k)' = Stands(k)
      BY <1>2, <1>6 DEF Stands
    <2> QED
      BY <1>7, <2>1, OneMoves
  <1>9. Pool!Ended(j)
    BY <1>4, <1>5, <1>8 DEF Pool!Ended, Pool!Becomes
  <1>10. Offering'
    <2>1. /\ status'[Feeder] # "new"
          /\ inline # None => status'[Feeder] = status[Feeder]
      BY <1>2, <1>3, <1>6, PoolAssumption DEF Offering, PoolAssumption
    <2>2. CASE Succeed(t)
      <3>1. UNCHANGED <<accepting, error_messages>>
        BY <2>2 DEF Succeed
      <3> QED
        BY <1>2, <2>1, <3>1 DEF Offering, Accepts
    <2>3. CASE Fail(t)
      <3>1. accepting' = FALSE /\ error_messages' # {}
        BY <2>3 DEF Fail
      <3> QED
        BY <1>2, <2>1, <3>1 DEF Offering, Accepts
    <2> QED
      BY <2>2, <2>3
  <1> QED
    BY <1>3, <1>9, <1>10

LEMMA HandleErrorIsTold ==
    ASSUME IInv, Offering, NEW t \in Threads, HandleError(t)
    PROVE  /\ \/ \E j \in Jobs : Pool!Told(j)
              \/ UNCHANGED <<n_threads, Stage, Standing>>
           /\ Offering'
  <1>1. TypeOK /\ RunOnce /\ Reports
    BY DEF IInv
  <1>2. /\ thread[t].pc = "handler" /\ handled' = handled \cup {thread[t].job}
        /\ UNCHANGED <<n_threads, accepting, status, error_messages, inline, main>>
    BY DEF HandleError, WithHandled
  <1>3. PICK j \in Jobs : j = thread[t].job /\ status[j] = "failed" /\ inline # j
    <2>1. thread[t].job \in Jobs /\ status[thread[t].job] = "failed"
      BY <1>1, <1>2 DEF Reports
    <2> QED
      BY <1>1, <2>1, PoolAssumption DEF RunOnce, PoolAssumption
  <1>4. Offering'
    BY <1>2 DEF Offering, Accepts
  <1>5. UNCHANGED <<(n_threads = 1), Stage>>
    BY <1>2 DEF Stage
  <1>6. \A k \in Jobs \ {j} : Stands(k)' = Stands(k)
    BY <1>2, <1>3 DEF Stands
  <1>7. CASE j \in handled
    <2>1. Stands(j)' = Stands(j)
      BY <1>2, <1>3, <1>7 DEF Stands
    <2> QED
      BY <1>2, <1>4, <1>5, <1>6, <2>1, NoneMoves
  <1>8. CASE j \notin handled
    <2>1. Standing[j] = "failed"
      BY <1>1, <1>3, <1>8, StandsIs
    <2>2. Stands(j)' = "told"
      BY <1>2, <1>3 DEF Stands
    <2>3. Standing' = [Standing EXCEPT ![j] = "told"]
      BY <1>3, <1>6, <2>2, OneMoves
    <2>4. Pool!Told(j)
      BY <1>5, <2>1, <2>3 DEF Pool!Told, Pool!Becomes
    <2> QED
      BY <1>3, <1>4, <2>4
  <1> QED
    BY <1>7, <1>8

\* await_stop begins and returns; what it leaves behind is nothing.
LEMMA StopIsStop ==
    ASSUME IInv, Offering, AwaitStop
    PROVE  Pool!Stop /\ Offering'
  <1>1. /\ main = "running" /\ main' = "joining" /\ accepting' = FALSE
        /\ UNCHANGED <<n_threads, status, error_messages, handled, inline>>
    BY DEF AwaitStop
  <1>2. Stage = "running" /\ Stage' = "stopping"
    BY <1>1 DEF Stage
  <1>3. Standing' = Standing
    BY <1>1 DEF Standing, Stands
  <1>4. Offering'
    BY <1>1 DEF Offering, Accepts
  <1> QED
    BY <1>1, <1>2, <1>3, <1>4 DEF Pool!Stop

LEMMA JoinIsStopReturns ==
    ASSUME IInv, Offering, Join
    PROVE  Pool!StopReturns /\ Offering'
  <1>1. TypeOK /\ RunOnce /\ Reports /\ Draining /\ Holds(jobs, Queued)
    BY DEF IInv
  <1>2. /\ main = "joining" /\ main' = "stopped" /\ \A t \in Threads : thread[t].pc = "left"
        /\ UNCHANGED <<n_threads, accepting, status, error_messages, handled, inline>>
    BY DEF Join
  <1>3. Stage = "stopping" /\ Stage' = "stopped"
    BY <1>2 DEF Stage
  <1>4. Standing' = Standing
    BY <1>2 DEF Standing, Stands
  <1>5. Offering'
    BY <1>2 DEF Offering, Accepts
  <1>6. \A j \in Jobs : Standing[j] \notin {"held", "failed"}
    <2> SUFFICES ASSUME NEW j \in Jobs, Standing[j] \in {"held", "failed"}
                 PROVE  FALSE
      OBVIOUS
    <2>1. jobs = <<>>
      BY <1>1, <1>2 DEF Draining
    <2>2. status[j] # "queued"
      BY <1>1, <2>1 DEF Holds, Queued
    <2>3. status[j] = "running" => inline = j
      BY <1>1, <1>2 DEF RunOnce
    <2>4. status[j] = "failed" => j \in handled /\ inline # j
      BY <1>1, <1>2, PoolAssumption DEF Reports, RunOnce, PoolAssumption
    <2>5. status[j] \in {"new", "queued", "running", "succeeded", "failed", "lost"}
      BY <1>1 DEF TypeOK
    <2>6. inline = j => status[j] = "running"
      BY <1>1, PoolAssumption DEF RunOnce, PoolAssumption
    <2> QED
      BY <1>1, <2>2, <2>3, <2>4, <2>5, <2>6, StandsIs
  <1> QED
    BY <1>2, <1>3, <1>4, <1>5, <1>6 DEF Pool!StopReturns

LEMMA PoolStep ==
    ASSUME IInv, Offering, [Next]_vars
    PROVE  [Pool!PoolNext]_(Pool!poolVars) /\ Offering'
  <1> USE DEF Pool!PoolNext, Pool!poolVars
  <1>1. ASSUME NEW j \in Jobs, PushJob(j)
        PROVE  Pool!PoolNext /\ Offering'
    BY <1>1, PushIsAccepted
  <1>2. ASSUME NEW j \in Jobs, RunInline(j)
        PROVE  UNCHANGED Pool!poolVars /\ Offering'
    BY <1>2, RunInlineIsWaiting
  <1>3. CASE InlineStep
    BY <1>3, InlineEndsIsRunByOfferer DEF InlineStep
  <1>4. ASSUME NEW t \in Threads, ThreadStep(t)
        PROVE  [Pool!PoolNext]_(Pool!poolVars) /\ Offering'
    <2>1. CASE Leave(t) \/ Wait(t) \/ Take(t) \/ Requeue(t) \/ NotifyFailure(t)
      BY <2>1, QueueIsHidden
    <2>2. CASE Succeed(t) \/ Fail(t)
      BY <2>2, EndIsEnded
    <2>3. CASE HandleError(t)
      BY <2>3, HandleErrorIsTold
    <2> QED
      BY <1>4, <2>1, <2>2, <2>3 DEF ThreadStep
  <1>5. CASE AwaitStop
    BY <1>5, StopIsStop
  <1>6. CASE Join
    BY <1>6, JoinIsStopReturns
  <1>7. CASE Destroy
    <2>1. /\ main = "stopped" /\ main' = "destroyed" /\ inline = None
          /\ UNCHANGED <<n_threads, accepting, status, error_messages, handled, inline>>
      BY <1>7 DEF Destroy
    <2>2. UNCHANGED <<(n_threads = 1), Stage, Standing>>
      BY <2>1 DEF Stage, Standing, Stands
    <2> QED
      BY <2>1, <2>2 DEF Offering
  <1>8. CASE Destroyed \/ UNCHANGED vars
    <2>1. UNCHANGED <<n_threads, accepting, status, error_messages, handled, inline, main>>
      BY <1>8 DEF Destroyed, vars
    <2>2. UNCHANGED <<(n_threads = 1), Stage, Standing>>
      BY <2>1 DEF Stage, Standing, Stands
    <2> QED
      BY <2>1, <2>2 DEF Offering, Accepts
  <1> QED
    BY <1>1, <1>2, <1>3, <1>4, <1>5, <1>6, <1>7, <1>8 DEF Next

\* ThreadPool implements JobPool, for any number of jobs, threads and retries:
\* a job has one end, is run by its offerer only where the pool must refuse it,
\* and when await_stop returns the pool holds none and the stream knows of every
\* one that failed.
THEOREM PoolIsJobPool == Spec => ImplementsPool
  <1>1. Init => Pool!PoolInit /\ Offering
    <2> SUFFICES ASSUME Init PROVE Pool!PoolInit /\ Offering
      OBVIOUS
    <2>1. \A j \in Jobs : j # None
      BY PoolAssumption DEF PoolAssumption
    <2>2. Standing = [j \in Jobs |-> IF j = Feeder THEN "held" ELSE "new"]
      BY <2>1 DEF Init, Standing, Stands
    <2>3. Stage = "running"
      BY DEF Init, Stage
    <2>4. Offering
      BY <2>1, PoolAssumption DEF Init, Offering, PoolAssumption
    <2> QED
      BY <2>2, <2>3, <2>4 DEF Pool!PoolInit
  <1>2. IInv /\ Offering /\ [Next]_vars => [Pool!PoolNext]_(Pool!poolVars) /\ Offering'
    BY PoolStep
  <1> QED
    BY <1>1, <1>2, Invariant, PTL DEF Spec, ImplementsPool, Pool!PoolSpec
=============================================================================
