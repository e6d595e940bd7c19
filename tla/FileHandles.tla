----------------------------- MODULE FileHandles -----------------------------
(***************************************************************************)
(* zarr::FileHandlePool (file.handle.cpp): the bounded cache of open files *)
(* that all the FileSinks of a stream share.                               *)
(*                                                                         *)
(* Threads write and flush through sinks (FileSink::write and flush_):     *)
(* each call gets the file's handle, uses it and returns it.  A file has a *)
(* sink from NewSink to CloseSink, ~FileSink, which comes after the last   *)
(* call on it; a later sink may open the file again.                       *)
(*                                                                         *)
(* What runs under mutex_ is one action: an attempt to open the file is    *)
(* made under it, the wait for the next attempt (backoff) is not.  cv_ is  *)
(* the set of threads that wait; no step relies on a spurious wakeup.      *)
(***************************************************************************)
EXTENDS Integers, SequencesExt, FiniteSets

CONSTANTS Files,
          Threads,
          MaxHandles,   \* max_active_handles_: the limit of open files
          MaxAttempts,  \* max_open_attempts
          MaxCalls,     \* bound: how many calls a thread makes
          None

\* A limit of 0 (getrlimit failed) would let one file be opened, then none.
ASSUME FileHandlesAssumption ==
    /\ MaxHandles \in Nat \ {0}
    /\ MaxAttempts \in Nat \ {0}
    /\ MaxCalls \in Nat
    /\ None \notin Files
    /\ IsFiniteSet(Files) /\ IsFiniteSet(Threads)

VARIABLES
    refcount,   \* cache_: the cached files, with the reference count of each
    lru,        \* lru_order_, the most recent first
    available,  \* cache_space_available_
    thread,     \* per thread: where it is in get_handle, and for which file
    sinks,      \* the files that have a sink
    calls       \* per thread: calls made

vars == <<refcount, lru, available, thread, sinks, calls>>

Idle == [pc |-> "idle", file |-> None, attempt |-> 0]

Init ==
    /\ refcount = [f \in {} |-> 0]
    /\ lru = <<>>
    /\ available = TRUE
    /\ thread = [t \in Threads |-> Idle]
    /\ sinks = {}
    /\ calls = [t \in Threads |-> 0]
-----------------------------------------------------------------------------
(* The cache *)

Cached == DOMAIN refcount

\* What both waits of get_handle wait for.
CanServe(f) == f \in Cached \/ available

\* A cached file is taken off the list at its place, lru_it.
Place(f) == CHOOSE i \in DOMAIN lru : lru[i] = f
NotOnLru(f) == RemoveAt(lru, Place(f))

\* mutant: a file that is used again stays where it was as well.
PushedAgain(f) == <<f>> \o lru
MovedToFront(f) == <<f>> \o NotOnLru(f)

Unused(counts) == {f \in DOMAIN counts : counts[f] = 0}

\* mutant: the least recent handle goes, borrowed or not.
LeastRecent(counts) == {lru[i] : i \in {Len(lru)} \ {0}}
\* evict_lru_: the last file of the list that nobody has borrowed, if any.
Evicted(counts) ==
    {lru[i] : i \in {k \in DOMAIN lru :
                       /\ lru[k] \in Unused(counts)
                       /\ \A l \in k + 1 .. Len(lru) : lru[l] \notin Unused(counts)}}

\* The end of every critical section that changed the cache.
CacheIs(counts, order) ==
    /\ refcount' = counts
    /\ lru' = order
    /\ available' = (Cardinality(DOMAIN counts) < MaxHandles)
-----------------------------------------------------------------------------
(* Waiting and waking: who waits for a handle *)

Waits == {"get waits", "settle waits"}
Waiting == {t \in Threads : thread[t].pc \in Waits}

\* The threads of the set go back to test what they wait for.
Awake(set) ==
    [t \in Threads |->
       IF t \notin set THEN thread[t]
       ELSE [thread[t] EXCEPT !.pc = IF @ = "get waits" THEN "get" ELSE "settle"]]

NotifyOne == IF Waiting = {} THEN {thread} ELSE {Awake({t}) : t \in Waiting}

OneTold == NotifyOne                    \* mutant: a return tells one thread
AllTold == {Awake(Waiting)}
-----------------------------------------------------------------------------
(* get_handle *)

\* A call of FileSink::write or flush_.
Call(t, f) ==
    /\ thread[t].pc = "idle" /\ f \in sinks /\ calls[t] < MaxCalls
    /\ thread' = [thread EXCEPT ![t] = [pc |-> "get", file |-> f, attempt |-> 0]]
    /\ calls' = [calls EXCEPT ![t] = @ + 1]
    /\ UNCHANGED <<refcount, lru, available, sinks>>

\* It has its handle: one waiting thread is told of the change.
Served(t, f) ==
    \E woken \in NotifyOne :
       thread' = [woken EXCEPT ![t] = [pc |-> "borrowed", file |-> f, attempt |-> 0]]

Insert(t, f) ==
    /\ CacheIs([g \in Cached \cup {f} |-> IF g = f THEN 1 ELSE refcount[g]],
               <<f>> \o lru)
    /\ Served(t, f)

\* Neither is the file in the cache nor is there space for it: at the start of
\* get_handle, or when a later attempt to open the file has succeeded.
WaitForHandle(t) ==
    /\ thread[t].pc \in {"get", "backoff", "settle"} /\ ~CanServe(thread[t].file)
    /\ thread' = [thread EXCEPT ![t].pc = IF @ = "get" THEN "get waits"
                                          ELSE "settle waits"]
    /\ UNCHANGED <<refcount, lru, available, sinks, calls>>

GetCached(t) ==
    LET f == thread[t].file
    IN  /\ thread[t].pc = "get" /\ f \in Cached
        /\ CacheIs([refcount EXCEPT ![f] = @ + 1], MovedToFront(f))
        /\ Served(t, f)
        /\ UNCHANGED <<sinks, calls>>

\* Not cached, and there is space: the first attempt to open the file.
Opens(t) ==
    /\ thread[t].pc = "get" /\ thread[t].file \notin Cached /\ available
    /\ Insert(t, thread[t].file)
    /\ UNCHANGED <<sinks, calls>>

\* An attempt fails: a null handle after the last one (the sink reports the
\* failure), otherwise the thread lets go of the mutex and tries again later.
OpenFails(t) ==
    LET attempt == thread[t].attempt + 1
    IN  /\ \/ thread[t].pc = "get" /\ thread[t].file \notin Cached /\ available
           \/ thread[t].pc = "backoff"
        /\ thread' = [thread EXCEPT ![t] =
                        IF attempt = MaxAttempts THEN Idle
                        ELSE [@ EXCEPT !.pc = "backoff", !.attempt = attempt]]
        /\ UNCHANGED <<refcount, lru, available, sinks, calls>>

\* mutant: after the backoff the handle is put into the cache, full or not.
SettlesAnyway(f) == TRUE
MaySettle(f) == CanServe(f)

\* A later attempt succeeds, now or before a wait for space: the thread takes
\* the entry another one made meanwhile (its own handle is dropped, the list
\* left as it is), or makes one.
Settle(t) ==
    LET f == thread[t].file
    IN  /\ thread[t].pc \in {"backoff", "settle"} /\ MaySettle(f)
        /\ IF f \in Cached
           THEN CacheIs([refcount EXCEPT ![f] = @ + 1], lru) /\ Served(t, f)
           ELSE Insert(t, f)
        /\ UNCHANGED <<sinks, calls>>
-----------------------------------------------------------------------------
(* return_handle and close *)

MustEvict(size) == size >= MaxHandles

\* ~BorrowedHandle: while the cache is full, an unused handle goes.
ReturnHandle(t) ==
    LET f == thread[t].file
        counts == [refcount EXCEPT ![f] = IF @ > 0 THEN @ - 1 ELSE @]
        gone == IF MustEvict(Cardinality(Cached)) THEN Evicted(counts) ELSE {}
    IN  /\ thread[t].pc = "borrowed"
        /\ IF f \notin Cached
           THEN /\ thread' = [thread EXCEPT ![t] = Idle]
                /\ UNCHANGED <<refcount, lru, available>>
           ELSE /\ \/ gone = {} /\ CacheIs(counts, lru)
                   \/ \E g \in gone :
                         CacheIs(Restrict(counts, Cached \ {g}), NotOnLru(g))
                /\ \E woken \in AllTold : thread' = [woken EXCEPT ![t] = Idle]
        /\ UNCHANGED <<sinks, calls>>

MayClose(f) == f \in Cached /\ refcount[f] = 0

NewSink(f) ==
    /\ f \notin sinks
    /\ sinks' = sinks \cup {f}
    /\ UNCHANGED <<refcount, lru, available, thread, calls>>

\* ~FileSink, when no call on the sink is in progress: close.
CloseSink(f) ==
    /\ f \in sinks /\ \A t \in Threads : thread[t].file # f
    /\ sinks' = sinks \ {f}
    /\ IF MayClose(f)
       THEN /\ CacheIs(Restrict(refcount, Cached \ {f}), NotOnLru(f))
            /\ thread' = Awake(Waiting)
       ELSE UNCHANGED <<refcount, lru, available, thread>>
    /\ UNCHANGED calls
-----------------------------------------------------------------------------
Step(t) ==
    \/ WaitForHandle(t) \/ GetCached(t) \/ Opens(t) \/ OpenFails(t)
    \/ Settle(t) \/ ReturnHandle(t)

Next ==
    \/ \E t \in Threads : Step(t) \/ (\E f \in Files : Call(t, f))
    \/ \E f \in Files : NewSink(f) \/ CloseSink(f)

\* A thread that can go on with a call does.  Nobody has to make one.
Fairness == \A t \in Threads : WF_vars(Step(t))

Spec == Init /\ [][Next]_vars /\ Fairness
-----------------------------------------------------------------------------
(* Properties *)

\* The list holds the cached files, each once.
TypeOK ==
    /\ \E cached \in SUBSET Files : refcount \in [cached -> Nat]
    /\ lru \in Seq(Files)
    /\ {lru[i] : i \in DOMAIN lru} = Cached /\ Len(lru) = Cardinality(Cached)
    /\ available \in BOOLEAN
    /\ thread \in [Threads -> [pc : {"idle", "get", "backoff", "settle",
                                     "borrowed"} \cup Waits,
                               file : Files \cup {None},
                               attempt : 0 .. MaxAttempts - 1]]
    /\ sinks \subseteq Files
    /\ calls \in [Threads -> 0 .. MaxCalls]

\* The threads that use the handle of a file.
Borrowers(f) == {t \in Threads : thread[t].pc = "borrowed" /\ thread[t].file = f}

\* No handle is closed while a thread writes through it, whatever the other
\* threads open, return and evict, and no borrow is counted twice or forgotten.
BorrowedStaysOpen ==
    /\ \A t \in Threads : thread[t].pc = "borrowed" => thread[t].file \in Cached
    /\ \A f \in Cached : refcount[f] = Cardinality(Borrowers(f))

\* The cache never holds more handles than the limit, also when a thread comes
\* back with a handle it opened after a backoff, and the flag the waits test
\* says so.  A file whose sink is gone is not held open by the pool (issue
\* #226), which takes that every borrow was returned and no late opening is
\* under way.
WithinLimit ==
    /\ Cardinality(Cached) <= MaxHandles
    /\ available = (Cardinality(Cached) < MaxHandles)
    /\ Cached \subseteq sinks

\* Every write and flush gets its handle, or is told that it cannot have one.
CallsEnd == \A t \in Threads : thread[t].pc # "idle" ~> thread[t].pc = "idle"
=============================================================================
