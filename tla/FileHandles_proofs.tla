-------------------------- MODULE FileHandles_proofs --------------------------
(***************************************************************************)
(* Proofs about FileHandles for any finite sets of files and threads and   *)
(* any limit: the list and the cache hold the same files, no handle is     *)
(* closed under a thread that writes through it, and the limit is kept.    *)
(*                                                                         *)
(* The three invariants are inductive together with two more facts: a file *)
(* is on the list once, so that its place is the only one to erase, and a  *)
(* call in progress has its sink, so that closing a sink finds no borrow.  *)
(***************************************************************************)
EXTENDS FileHandles, FiniteSetTheorems, SequenceTheorems, TLAPS

\* The sequence lists the files of the set, each once.
Lists(list, files) ==
    /\ list \in Seq(Files)
    /\ {list[i] : i \in DOMAIN list} = files
    /\ Len(list) = Cardinality(files)
    /\ \A i, j \in DOMAIN list : list[i] = list[j] => i = j

\* The file of a call in progress has a sink.
CallsHaveSinks ==
    \A t \in Threads : thread[t].pc # "idle" => thread[t].file \in sinks

IInv == /\ TypeOK /\ Lists(lru, Cached) /\ CallsHaveSinks
        /\ BorrowedStaysOpen /\ WithinLimit

ThreadStates == [pc : {"idle", "get", "backoff", "settle", "borrowed"} \cup Waits,
                 file : Files \cup {None},
                 attempt : 0 .. MaxAttempts - 1]
-----------------------------------------------------------------------------
(* Facts about the list *)

\* Erasing at a place of a list leaves the other files, in their order.
LEMMA RemoveAtFacts ==
    ASSUME NEW s \in Seq(Files), NEW p \in DOMAIN s
    PROVE  /\ RemoveAt(s, p) \in Seq(Files)
           /\ Len(RemoveAt(s, p)) = Len(s) - 1
           /\ \A i \in 1 .. Len(s) - 1 :
                 RemoveAt(s, p)[i] = IF i < p THEN s[i] ELSE s[i + 1]
  <1> DEFINE before == SubSeq(s, 1, p - 1)
             after == SubSeq(s, p + 1, Len(s))
  <1>1. p \in 1 .. Len(s) /\ Len(s) \in Nat
    OBVIOUS
  <1>2. /\ before \in Seq(Files) /\ Len(before) = p - 1
        /\ \A i \in 1 .. p - 1 : before[i] = s[i]
    BY <1>1
  <1>3. /\ after \in Seq(Files) /\ Len(after) = Len(s) - p
        /\ \A i \in 1 .. Len(s) - p : after[i] = s[p + i]
    BY <1>1
  <1> HIDE DEF before, after
  <1>4. /\ before \o after \in Seq(Files)
        /\ Len(before \o after) = Len(before) + Len(after)
        /\ \A i \in 1 .. Len(before) + Len(after) :
              (before \o after)[i] = IF i <= Len(before) THEN before[i]
                                     ELSE after[i - Len(before)]
    BY <1>2, <1>3, ConcatProperties
  <1>5. ASSUME NEW i \in 1 .. Len(s) - 1
        PROVE  (before \o after)[i] = IF i < p THEN s[i] ELSE s[i + 1]
    <2>1. CASE i < p
      <3>1. i \in 1 .. p - 1 /\ i \in 1 .. Len(before) + Len(after) /\ i <= Len(before)
        BY <1>1, <1>2, <1>3, <2>1
      <3> QED
        BY <1>2, <1>4, <2>1, <3>1
    <2>2. CASE ~(i < p)
      <3>1. (before \o after)[i] = after[i - (p - 1)]
        <4>1. Len(before) + Len(after) = Len(s) - 1 /\ ~(i <= Len(before))
          BY <1>1, <1>2, <1>3, <2>2
        <4>2. (before \o after)[i] = after[i - Len(before)]
          BY <1>4, <4>1
        <4> QED
          BY <1>2, <4>2
      <3>2. i - (p - 1) \in 1 .. Len(s) - p
        BY <1>1, <2>2
      <3>3. after[i - (p - 1)] = s[p + (i - (p - 1))]
        BY <1>3, <3>2
      <3>4. p + (i - (p - 1)) = i + 1
        BY <1>1
      <3> QED
        BY <2>2, <3>1, <3>3, <3>4
    <2> QED
      BY <2>1, <2>2
  <1>6. RemoveAt(s, p) = before \o after
    BY DEF RemoveAt, before, after
  <1>7. Len(before \o after) = Len(s) - 1
    BY <1>1, <1>2, <1>3, <1>4
  <1> QED
    BY <1>4, <1>5, <1>6, <1>7

\* A cached file has its place on the list, and without it the list is that of
\* the other cached files.
LEMMA NotOnLruFacts ==
    ASSUME NEW f \in Cached, Lists(lru, Cached), Cached \subseteq Files
    PROVE  Lists(NotOnLru(f), Cached \ {f})
  <1> DEFINE p == Place(f)
             rest == NotOnLru(f)
  <1>0. IsFiniteSet(Cached)
    BY FileHandlesAssumption, FS_Subset DEF FileHandlesAssumption
  <1>1. p \in DOMAIN lru /\ lru[p] = f
    <2>1. \E i \in DOMAIN lru : lru[i] = f
      BY DEF Lists
    <2> QED
      BY <2>1 DEF Place
  <1>2. lru \in Seq(Files)
    BY DEF Lists
  <1>3. /\ rest \in Seq(Files) /\ Len(rest) = Len(lru) - 1
        /\ \A i \in 1 .. Len(lru) - 1 : rest[i] = IF i < p THEN lru[i] ELSE lru[i + 1]
    BY <1>1, <1>2, RemoveAtFacts DEF NotOnLru
  <1> HIDE DEF p, rest
  <1>4. Len(lru) \in Nat /\ DOMAIN lru = 1 .. Len(lru) /\ DOMAIN rest = 1 .. Len(lru) - 1
    BY <1>2, <1>3
  <1>5. \A i, j \in DOMAIN lru : lru[i] = lru[j] => i = j
    BY DEF Lists
  <1>6. \A i, j \in DOMAIN rest : rest[i] = rest[j] => i = j
    BY <1>1, <1>3, <1>4, <1>5
  <1>7. ASSUME NEW i \in DOMAIN rest PROVE rest[i] \in Cached \ {f}
    <2>1. PICK k \in DOMAIN lru : rest[i] = lru[k] /\ k # p
      BY <1>1, <1>3, <1>4
    <2>2. lru[k] \in Cached
      BY DEF Lists
    <2> QED
      BY <1>1, <1>5, <2>1, <2>2
  <1>8. ASSUME NEW g \in Cached \ {f} PROVE \E i \in DOMAIN rest : rest[i] = g
    <2>1. PICK k \in DOMAIN lru : lru[k] = g
      BY DEF Lists
    <2>2. k # p
      BY <1>1, <2>1
    <2>3. CASE k < p
      BY <1>1, <1>3, <1>4, <2>1, <2>3
    <2>4. CASE k > p
      <3>1. k - 1 \in DOMAIN rest /\ ~(k - 1 < p) /\ (k - 1) + 1 = k
        BY <1>1, <1>4, <2>4
      <3>2. rest[k - 1] = lru[k]
        BY <1>3, <1>4, <3>1
      <3> QED
        BY <2>1, <3>1, <3>2
    <2> QED
      BY <1>1, <1>4, <2>2, <2>3, <2>4
  <1>9. {rest[i] : i \in DOMAIN rest} = Cached \ {f}
    BY <1>7, <1>8
  <1>10. Len(rest) = Cardinality(Cached \ {f})
    BY <1>0, <1>3, FS_RemoveElement DEF Lists
  <1> QED
    BY <1>3, <1>6, <1>9, <1>10 DEF Lists, rest

\* A file that is not on a list is put at its front.
LEMMA FrontFacts ==
    ASSUME NEW list, NEW files \in SUBSET Files, Lists(list, files),
           NEW f \in Files \ files
    PROVE  Lists(<<f>> \o list, files \cup {f})
  <1> DEFINE new == <<f>> \o list
  <1>1. list \in Seq(Files) /\ <<f>> \in Seq(Files)
    BY DEF Lists
  <1>2. /\ new \in Seq(Files) /\ Len(new) = Len(list) + 1 /\ Len(list) \in Nat
        /\ DOMAIN new = 1 .. Len(list) + 1 /\ DOMAIN list = 1 .. Len(list)
        /\ \A i \in 1 .. Len(list) + 1 : new[i] = IF i = 1 THEN f ELSE list[i - 1]
    BY <1>1
  <1> HIDE DEF new
  <1>3. \A i \in DOMAIN list : list[i] \in files
    BY DEF Lists
  <1>4. \A i, j \in DOMAIN list : list[i] = list[j] => i = j
    BY DEF Lists
  <1>5. ASSUME NEW i \in DOMAIN new, NEW j \in DOMAIN new, new[i] = new[j]
        PROVE  i = j
    <2>1. CASE i # 1 /\ j # 1
      <3>1. i - 1 \in DOMAIN list /\ j - 1 \in DOMAIN list
        BY <1>2, <2>1
      <3>2. i - 1 = j - 1
        BY <1>2, <1>4, <1>5, <2>1, <3>1
      <3> QED
        BY <1>2, <3>2
    <2>2. CASE i = 1 \/ j = 1
      <3>1. \A k \in DOMAIN new : k # 1 => new[k] \in files
        BY <1>2, <1>3
      <3> QED
        BY <1>2, <1>5, <2>2, <3>1
    <2> QED
      BY <2>1, <2>2
  <1>6. \A i \in DOMAIN new : new[i] \in files \cup {f}
    BY <1>2, <1>3
  <1>7. ASSUME NEW g \in files \cup {f} PROVE \E i \in DOMAIN new : new[i] = g
    <2>1. CASE g = f
      BY <1>2, <2>1
    <2>2. CASE g # f
      <3>1. PICK k \in DOMAIN list : list[k] = g
        BY <2>2 DEF Lists
      <3>2. k + 1 \in DOMAIN new /\ new[k + 1] = list[k]
        BY <1>2
      <3> QED
        BY <3>1, <3>2
    <2> QED
      BY <2>1, <2>2
  <1>8. {new[i] : i \in DOMAIN new} = files \cup {f}
    BY <1>6, <1>7
  <1>9. IsFiniteSet(files)
    BY FileHandlesAssumption, FS_Subset DEF FileHandlesAssumption
  <1>10. Cardinality(files \cup {f}) = Cardinality(files) + 1
    BY <1>9, FS_AddElement
  <1>11. Len(new) = Cardinality(files \cup {f})
    BY <1>2, <1>10 DEF Lists
  <1> QED
    BY <1>2, <1>5, <1>8, <1>11 DEF Lists, new
-----------------------------------------------------------------------------
(* Facts about the threads *)

\* What a step that changes only where some threads are may leave: each thread
\* of the others is where it was, waiting or not, and for the same file.
SameCall(new, t) ==
    /\ new[t] \in ThreadStates
    /\ new[t].file = thread[t].file
    /\ new[t].pc = "borrowed" <=> thread[t].pc = "borrowed"
    /\ new[t].pc = "idle" <=> thread[t].pc = "idle"

\* A woken thread is in the same call.
LEMMA AwakeFacts ==
    ASSUME TypeOK, NEW set \in SUBSET Waiting
    PROVE  /\ DOMAIN Awake(set) = Threads
           /\ Awake(set) \in [Threads -> ThreadStates]
           /\ \A t \in Threads : SameCall(Awake(set), t)
  <1>1. ASSUME NEW t \in Threads PROVE SameCall(Awake(set), t)
    <2>1. thread[t] \in ThreadStates /\ thread \in [Threads -> ThreadStates]
      BY DEF TypeOK, ThreadStates
    <2>2. CASE t \notin set
      BY <2>1, <2>2 DEF Awake, SameCall
    <2>3. CASE t \in set
      <3>1. thread[t].pc \in Waits
        BY <2>3 DEF Waiting
      <3>2. Awake(set)[t] = [thread[t] EXCEPT !.pc = IF @ = "get waits" THEN "get"
                                                     ELSE "settle"]
        BY <2>3 DEF Awake
      <3> QED
        BY <2>1, <3>1, <3>2 DEF SameCall, ThreadStates, Waits
    <2> QED
      BY <2>2, <2>3
  <1>2. Awake(set) = [t \in Threads |-> Awake(set)[t]]
    BY DEF Awake
  <1> QED
    BY <1>1, <1>2 DEF SameCall

\* Of the threads, only t has changed its call: it is now at pc for file f.
Moved(t, pc, f) ==
    /\ thread' \in [Threads -> ThreadStates]
    /\ thread'[t].pc = pc /\ thread'[t].file = f
    /\ \A u \in Threads \ {t} : SameCall(thread', u)

\* Whoever is told, a thread that gets its handle has borrowed it.
LEMMA ServedFacts ==
    ASSUME TypeOK, NEW t \in Threads, NEW f \in Files, Served(t, f)
    PROVE  Moved(t, "borrowed", f)
  <1>1. PICK woken \in NotifyOne :
           thread' = [woken EXCEPT ![t] = [pc |-> "borrowed", file |-> f, attempt |-> 0]]
    BY DEF Served
  <1>2. /\ woken \in [Threads -> ThreadStates]
        /\ \A u \in Threads : SameCall(woken, u)
    <2>1. CASE woken = thread
      BY <2>1 DEF TypeOK, ThreadStates, SameCall
    <2>2. CASE \E u \in Waiting : woken = Awake({u})
      BY <2>2, AwakeFacts
    <2> QED
      BY <1>1, <2>1, <2>2 DEF NotifyOne
  <1>3. [pc |-> "borrowed", file |-> f, attempt |-> 0] \in ThreadStates
    BY FileHandlesAssumption DEF ThreadStates, FileHandlesAssumption
  <1>4. thread' \in [Threads -> ThreadStates]
    BY <1>1, <1>2, <1>3
  <1>5. \A u \in Threads \ {t} : thread'[u] = woken[u]
    BY <1>1, <1>2
  <1>6. thread'[t] = [pc |-> "borrowed", file |-> f, attempt |-> 0]
    BY <1>1, <1>2
  <1> QED
    BY <1>2, <1>4, <1>5, <1>6 DEF Moved, SameCall

\* A thread that goes to or comes from a borrow changes the borrowers of that
\* file by one, and of no other.
LEMMA BorrowersFacts ==
    ASSUME TypeOK, NEW t \in Threads, NEW pc, NEW f, Moved(t, pc, f)
    PROVE  /\ \A g : IsFiniteSet(Borrowers(g))
           /\ \A g : Borrowers(g)' \ {t} = Borrowers(g) \ {t}
           /\ \A g : t \in Borrowers(g)' <=> pc = "borrowed" /\ f = g
           /\ \A g : t \in Borrowers(g) <=> thread[t].pc = "borrowed" /\ thread[t].file = g
  <1>1. \A g : Borrowers(g) \subseteq Threads
    BY DEF Borrowers
  <1>2. \A g : IsFiniteSet(Borrowers(g))
    BY <1>1, FS_Subset, FileHandlesAssumption DEF FileHandlesAssumption
  <1> QED
    BY <1>2 DEF Borrowers, Moved, SameCall
-----------------------------------------------------------------------------
(* Init, and one lemma per action *)

LEMMA InitIInv == Init => IInv
  <1> SUFFICES ASSUME Init PROVE IInv
    OBVIOUS
  <1> USE DEF Init
  <1>1. DOMAIN lru = {} /\ Len(lru) = 0 /\ lru \in Seq(Files) /\ Cached = {}
    BY DEF Cached
  <1>2. Cardinality(Cached) = 0
    BY <1>1, FS_EmptySet
  <1>3. Lists(lru, Cached)
    BY <1>1, <1>2 DEF Lists
  <1>4. TypeOK
    <2>1. \E cached \in SUBSET Files : refcount \in [cached -> Nat]
      <3>1. refcount \in [{} -> Nat]
        OBVIOUS
      <3> QED
        BY <3>1
    <2>2. thread \in [Threads -> [pc : {"idle", "get", "backoff", "settle",
                                        "borrowed"} \cup Waits,
                                  file : Files \cup {None},
                                  attempt : 0 .. MaxAttempts - 1]]
      BY FileHandlesAssumption DEF Idle, FileHandlesAssumption
    <2>3. calls \in [Threads -> 0 .. MaxCalls]
      BY FileHandlesAssumption DEF FileHandlesAssumption
    <2> QED
      BY <1>1, <1>2, <1>3, <2>1, <2>2, <2>3 DEF TypeOK, Lists
  <1>5. CallsHaveSinks
    BY DEF CallsHaveSinks, Idle
  <1>6. BorrowedStaysOpen
    BY <1>1 DEF BorrowedStaysOpen, Idle
  <1>7. WithinLimit
    <2>1. available = TRUE /\ 0 < MaxHandles /\ 0 <= MaxHandles
      BY FileHandlesAssumption DEF FileHandlesAssumption
    <2> QED
      BY <1>1, <1>2, <2>1 DEF WithinLimit
  <1> QED
    BY <1>3, <1>4, <1>5, <1>6, <1>7 DEF IInv

\* The cache a critical section leaves is well formed, if the new list holds
\* the newly cached files and these are within the limit.
LEMMA CacheFacts ==
    ASSUME NEW counts, NEW order, NEW files \in SUBSET Files,
           counts \in [files -> Nat], Lists(order, files), CacheIs(counts, order),
           Cardinality(files) <= MaxHandles, files \subseteq sinks', sinks' \subseteq Files,
           thread' \in [Threads -> ThreadStates], calls' \in [Threads -> 0 .. MaxCalls]
    PROVE  TypeOK' /\ Lists(lru, Cached)' /\ WithinLimit' /\ Cached' = files
  <1>1. refcount' = counts /\ lru' = order /\ Cached' = files
    BY DEF CacheIs, Cached
  <1>2. available' = (Cardinality(files) < MaxHandles)
    BY DEF CacheIs
  <1>3. Lists(lru, Cached)'
    BY <1>1 DEF Lists
  <1>4. TypeOK'
    <2>1. (\E cached \in SUBSET Files : refcount \in [cached -> Nat])'
      BY <1>1
    <2> QED
      BY <1>2, <1>3, <2>1 DEF TypeOK, Lists, ThreadStates
  <1>5. WithinLimit'
    BY <1>1, <1>2 DEF WithinLimit
  <1> QED
    BY <1>1, <1>3, <1>4, <1>5

\* A step of a call that neither takes nor gives back a handle.
LEMMA MovingKeeps ==
    ASSUME IInv, NEW t \in Threads, NEW pc, NEW f, Moved(t, pc, f),
           thread[t].pc # "borrowed", pc # "borrowed", pc # "idle" => f \in sinks,
           UNCHANGED <<refcount, lru, available, sinks>>,
           calls' \in [Threads -> 0 .. MaxCalls]
    PROVE  IInv'
  <1> USE DEF IInv
  <1>0. Cached' = Cached
    BY DEF Cached
  <1>1. TypeOK'
    BY <1>0 DEF TypeOK, Moved, ThreadStates
  <1>2. Lists(lru, Cached)' /\ WithinLimit'
    BY <1>0 DEF Lists, WithinLimit
  <1>3. CallsHaveSinks'
    BY DEF CallsHaveSinks, Moved, SameCall
  <1>4. BorrowedStaysOpen'
    <2>1. \A g : Borrowers(g)' = Borrowers(g)
      BY BorrowersFacts
    <2>2. \A u \in Threads : thread[u].pc = "borrowed" => thread[u].file \in Cached
      BY DEF BorrowedStaysOpen
    <2>3. \A u \in Threads : (thread[u].pc = "borrowed")' =>
             (thread[u].pc = "borrowed" /\ thread'[u].file = thread[u].file)
      BY DEF Moved, SameCall
    <2> QED
      BY <1>0, <2>1, <2>2, <2>3 DEF BorrowedStaysOpen
  <1> QED
    BY <1>1, <1>2, <1>3, <1>4

\* A call gets its handle: its file, cached already or put into the cache now,
\* has one more borrower.
LEMMA BorrowKeeps ==
    ASSUME IInv, NEW t \in Threads, NEW f \in Files, Served(t, f),
           thread[t].pc \notin {"idle", "borrowed"}, thread[t].file = f,
           CanServe(f), UNCHANGED <<sinks, calls>>,
           NEW order, Lists(order, Cached \cup {f}), NEW counts,
           counts = [g \in Cached \cup {f} |->
                       IF g # f THEN refcount[g]
                       ELSE IF f \in Cached THEN refcount[f] + 1 ELSE 1],
           CacheIs(counts, order)
    PROVE  IInv'
  <1> USE DEF IInv
  <1> DEFINE files == Cached \cup {f}
  <1>1. Moved(t, "borrowed", f)
    BY ServedFacts
  <1>2. Cached \subseteq Files /\ refcount \in [Cached -> Nat] /\ IsFiniteSet(Cached)
    <2>1. PICK cached \in SUBSET Files : refcount \in [cached -> Nat]
      BY DEF TypeOK
    <2> QED
      BY <2>1, FS_Subset, FileHandlesAssumption DEF Cached, FileHandlesAssumption
  <1>3. counts \in [files -> Nat]
    BY <1>2
  <1>4. files \subseteq sinks
    BY DEF CallsHaveSinks, WithinLimit
  <1>5. Cardinality(files) <= MaxHandles
    <2>1. CASE f \in Cached
      <3>1. files = Cached
        BY <2>1
      <3> QED
        BY <3>1 DEF WithinLimit
    <2>2. CASE f \notin Cached
      <3>1. Cardinality(Cached) < MaxHandles
        BY <2>2 DEF WithinLimit, CanServe
      <3>2. Cardinality(files) = Cardinality(Cached) + 1
        BY <1>2, <2>2, FS_AddElement
      <3>3. Cardinality(Cached) \in Nat /\ MaxHandles \in Nat
        BY <1>2, FS_CardinalityType, FileHandlesAssumption DEF FileHandlesAssumption
      <3> QED
        BY <3>1, <3>2, <3>3
    <2> QED
      BY <2>1, <2>2
  <1>6. TypeOK' /\ Lists(lru, Cached)' /\ WithinLimit' /\ Cached' = files
    <2>1. thread' \in [Threads -> ThreadStates] /\ calls' \in [Threads -> 0 .. MaxCalls]
      BY <1>1 DEF Moved, TypeOK
    <2>2. files \in SUBSET Files /\ sinks' \subseteq Files /\ files \subseteq sinks'
      BY <1>2, <1>4 DEF TypeOK
    <2> HIDE DEF files, IInv
    <2> QED
      BY <1>3, <1>5, <2>1, <2>2, CacheFacts DEF files
  <1>7. CallsHaveSinks'
    BY <1>1, <1>4 DEF CallsHaveSinks, Moved, SameCall
  <1>8. BorrowedStaysOpen'
    <2>1. refcount' = counts
      BY DEF CacheIs
    <2>2. \A u \in Threads : thread'[u].pc = "borrowed" => thread'[u].file \in files
      BY <1>1 DEF BorrowedStaysOpen, Moved, SameCall
    <2>3. /\ \A g : IsFiniteSet(Borrowers(g))
          /\ \A g : Borrowers(g)' = IF g = f THEN Borrowers(g) \cup {t} ELSE Borrowers(g)
          /\ t \notin Borrowers(f)
      <3>1. /\ \A g : IsFiniteSet(Borrowers(g))
            /\ \A g : Borrowers(g)' \ {t} = Borrowers(g) \ {t}
            /\ \A g : t \in Borrowers(g)' <=> f = g
            /\ \A g : t \notin Borrowers(g)
        BY <1>1, BorrowersFacts
      <3>2. ASSUME NEW g
            PROVE  Borrowers(g)' = IF g = f THEN Borrowers(g) \cup {t} ELSE Borrowers(g)
        <4>1. /\ Borrowers(g)' \ {t} = Borrowers(g) \ {t}
              /\ t \in Borrowers(g)' <=> f = g
              /\ t \notin Borrowers(g)
          BY <3>1
        <4> QED
          BY <4>1
      <3> QED
        BY <3>1, <3>2
    <2>4. ASSUME NEW g \in files PROVE counts[g] = Cardinality(Borrowers(g)')
      <3>1. CASE g # f
        BY <2>3, <3>1 DEF BorrowedStaysOpen
      <3>2. CASE g = f
        <4>1. Cardinality(Borrowers(f)') = Cardinality(Borrowers(f)) + 1
          BY <2>3, FS_AddElement
        <4>2. CASE f \in Cached
          BY <3>2, <4>1, <4>2 DEF BorrowedStaysOpen
        <4>3. CASE f \notin Cached
          <5>1. Borrowers(f) = {}
            BY <4>3 DEF BorrowedStaysOpen, Borrowers
          <5>2. Cardinality(Borrowers(f)) = 0
            BY <5>1, FS_EmptySet
          <5> QED
            BY <3>2, <4>1, <4>3, <5>2
        <4> QED
          BY <4>2, <4>3
      <3> QED
        BY <3>1, <3>2
    <2> QED
      BY <1>6, <2>1, <2>2, <2>4 DEF BorrowedStaysOpen
  <1> QED
    BY <1>6, <1>7, <1>8

LEMMA CallKeeps ==
    ASSUME IInv, NEW t \in Threads, NEW f \in Files, Call(t, f)
    PROVE  IInv'
  <1> DEFINE call == [pc |-> "get", file |-> f, attempt |-> 0]
  <1>1. /\ thread[t].pc = "idle" /\ f \in sinks /\ calls[t] < MaxCalls
        /\ thread' = [thread EXCEPT ![t] = call]
        /\ calls' = [calls EXCEPT ![t] = @ + 1]
        /\ UNCHANGED <<refcount, lru, available, sinks>>
    BY DEF Call
  <1>2. thread \in [Threads -> ThreadStates] /\ calls \in [Threads -> 0 .. MaxCalls]
    BY DEF IInv, TypeOK, ThreadStates
  <1>3. call \in ThreadStates
    BY FileHandlesAssumption DEF ThreadStates, FileHandlesAssumption
  <1>4. Moved(t, "get", f)
    BY <1>1, <1>2, <1>3 DEF Moved, SameCall
  <1>5. calls' \in [Threads -> 0 .. MaxCalls]
    BY <1>1, <1>2, FileHandlesAssumption DEF FileHandlesAssumption
  <1> QED
    BY <1>1, <1>4, <1>5, MovingKeeps

LEMMA WaitForHandleKeeps ==
    ASSUME IInv, NEW t \in Threads, WaitForHandle(t)
    PROVE  IInv'
  <1> DEFINE pc == IF thread[t].pc = "get" THEN "get waits" ELSE "settle waits"
  <1>1. /\ thread[t].pc \in {"get", "backoff", "settle"}
        /\ thread' = [thread EXCEPT ![t].pc = pc]
        /\ UNCHANGED <<refcount, lru, available, sinks, calls>>
    BY DEF WaitForHandle
  <1>2. thread \in [Threads -> ThreadStates] /\ calls \in [Threads -> 0 .. MaxCalls]
    BY DEF IInv, TypeOK, ThreadStates
  <1>3. thread[t].file \in sinks
    BY <1>1 DEF IInv, CallsHaveSinks
  <1>4. Moved(t, pc, thread[t].file)
    <2>1. [thread[t] EXCEPT !.pc = pc] \in ThreadStates
      BY <1>2 DEF ThreadStates, Waits
    <2> QED
      BY <1>1, <1>2, <2>1 DEF Moved, SameCall, ThreadStates
  <1>5. pc \notin {"borrowed", "idle"} /\ calls' \in [Threads -> 0 .. MaxCalls]
    BY <1>1, <1>2
  <1> QED
    BY <1>1, <1>3, <1>4, <1>5, MovingKeeps

LEMMA OpenFailsKeeps ==
    ASSUME IInv, NEW t \in Threads, OpenFails(t)
    PROVE  IInv'
  <1> DEFINE attempt == thread[t].attempt + 1
             next == IF attempt = MaxAttempts THEN Idle
                     ELSE [thread[t] EXCEPT !.pc = "backoff", !.attempt = attempt]
  <1>1. /\ thread[t].pc \in {"get", "backoff"}
        /\ thread' = [thread EXCEPT ![t] = next]
        /\ UNCHANGED <<refcount, lru, available, sinks, calls>>
    BY DEF OpenFails
  <1>2. thread \in [Threads -> ThreadStates] /\ calls \in [Threads -> 0 .. MaxCalls]
    BY DEF IInv, TypeOK, ThreadStates
  <1>3. thread[t].file \in sinks
    BY <1>1 DEF IInv, CallsHaveSinks
  <1>4. /\ next \in ThreadStates
        /\ next.pc \in {"idle", "backoff"}
        /\ next.pc # "idle" => next.file \in sinks
    <2>1. CASE attempt = MaxAttempts
      BY <2>1, FileHandlesAssumption DEF Idle, ThreadStates, FileHandlesAssumption
    <2>2. CASE attempt # MaxAttempts
      <3>1. attempt \in 0 .. MaxAttempts - 1
        BY <1>2, <2>2, FileHandlesAssumption DEF ThreadStates, FileHandlesAssumption
      <3>2. next = [thread[t] EXCEPT !.pc = "backoff", !.attempt = attempt]
        BY <2>2
      <3> QED
        BY <1>2, <1>3, <3>1, <3>2 DEF ThreadStates
    <2> QED
      BY <2>1, <2>2
  <1> HIDE DEF next
  <1>5. Moved(t, next.pc, next.file)
    BY <1>1, <1>2, <1>4 DEF Moved, SameCall
  <1>6. calls' \in [Threads -> 0 .. MaxCalls]
    BY <1>1, <1>2
  <1> QED
    BY <1>1, <1>4, <1>5, <1>6, MovingKeeps

LEMMA GetCachedKeeps ==
    ASSUME IInv, NEW t \in Threads, GetCached(t)
    PROVE  IInv'
  <1> DEFINE f == thread[t].file
             counts == [refcount EXCEPT ![f] = @ + 1]
  <1>1. /\ thread[t].pc = "get" /\ f \in Cached
        /\ CacheIs(counts, MovedToFront(f)) /\ Served(t, f)
        /\ UNCHANGED <<sinks, calls>>
    BY DEF GetCached
  <1>2. Cached \subseteq Files /\ refcount \in [Cached -> Nat]
    BY DEF IInv, TypeOK, Cached
  <1>3. Lists(<<f>> \o NotOnLru(f), Cached \cup {f})
    <2>1. Lists(NotOnLru(f), Cached \ {f})
      BY <1>1, <1>2, NotOnLruFacts DEF IInv
    <2>2. Lists(<<f>> \o NotOnLru(f), (Cached \ {f}) \cup {f})
      BY <1>1, <1>2, <2>1, FrontFacts
    <2>3. (Cached \ {f}) \cup {f} = Cached \cup {f}
      OBVIOUS
    <2> QED
      BY <2>2, <2>3
  <1>4. counts = [g \in Cached \cup {f} |->
                    IF g # f THEN refcount[g]
                    ELSE IF f \in Cached THEN refcount[f] + 1 ELSE 1]
    BY <1>1, <1>2
  <1>5. CanServe(f) /\ f \in Files
    BY <1>1, <1>2 DEF CanServe
  <1> HIDE DEF f, counts
  <1> QED
    BY <1>1, <1>3, <1>4, <1>5, BorrowKeeps DEF f, MovedToFront

\* What Opens and Settle share: the file is not cached, there is space, and it
\* is put into the cache.
LEMMA InsertKeeps ==
    ASSUME IInv, NEW t \in Threads, thread[t].pc \in {"get", "backoff", "settle"},
           thread[t].file \notin Cached, available, Insert(t, thread[t].file),
           UNCHANGED <<sinks, calls>>
    PROVE  IInv'
  <1> DEFINE f == thread[t].file
             counts == [g \in Cached \cup {f} |-> IF g = f THEN 1 ELSE refcount[g]]
  <1>1. Cached \subseteq Files
    BY DEF IInv, TypeOK, Cached
  <1>2. f \in Files
    BY DEF IInv, CallsHaveSinks, TypeOK
  <1>3. Lists(<<f>> \o lru, Cached \cup {f})
    BY <1>1, <1>2, FrontFacts DEF IInv
  <1>4. counts = [g \in Cached \cup {f} |->
                    IF g # f THEN refcount[g]
                    ELSE IF f \in Cached THEN refcount[f] + 1 ELSE 1]
    OBVIOUS
  <1>5. CanServe(f) /\ CacheIs(counts, <<f>> \o lru) /\ Served(t, f)
    BY DEF CanServe, Insert
  <1> HIDE DEF f, counts
  <1> QED
    BY <1>2, <1>3, <1>4, <1>5, BorrowKeeps DEF f

LEMMA OpensKeeps ==
    ASSUME IInv, NEW t \in Threads, Opens(t)
    PROVE  IInv'
  BY InsertKeeps DEF Opens

LEMMA SettleKeeps ==
    ASSUME IInv, NEW t \in Threads, Settle(t)
    PROVE  IInv'
  <1> DEFINE f == thread[t].file
             counts == [refcount EXCEPT ![f] = @ + 1]
  <1>1. /\ thread[t].pc \in {"backoff", "settle"} /\ CanServe(f)
        /\ UNCHANGED <<sinks, calls>>
    BY DEF Settle, MaySettle
  <1>2. CASE f \notin Cached
    BY <1>1, <1>2, InsertKeeps DEF Settle, CanServe
  <1>3. CASE f \in Cached
    <2>1. CacheIs(counts, lru) /\ Served(t, f)
      BY <1>3 DEF Settle
    <2>2. Cached \subseteq Files /\ refcount \in [Cached -> Nat]
      BY DEF IInv, TypeOK, Cached
    <2>3. counts = [g \in Cached \cup {f} |->
                      IF g # f THEN refcount[g]
                      ELSE IF f \in Cached THEN refcount[f] + 1 ELSE 1]
      BY <1>3, <2>2
    <2>4. Lists(lru, Cached \cup {f})
      <3>1. Cached \cup {f} = Cached
        BY <1>3
      <3> QED
        BY <3>1 DEF IInv
    <2>5. f \in Files
      BY <1>3, <2>2
    <2> HIDE DEF f, counts
    <2> QED
      BY <1>1, <2>1, <2>3, <2>4, <2>5, BorrowKeeps DEF f
  <1> QED
    BY <1>2, <1>3

\* The borrow ends, and the file that goes, if any, has no borrower left.
LEMMA ReturnHandleKeeps ==
    ASSUME IInv, NEW t \in Threads, ReturnHandle(t)
    PROVE  IInv'
  <1> USE DEF IInv
  <1> DEFINE f == thread[t].file
             counts == [refcount EXCEPT ![f] = IF @ > 0 THEN @ - 1 ELSE @]
             gone == IF MustEvict(Cardinality(Cached)) THEN Evicted(counts) ELSE {}
  <1>1. thread[t].pc = "borrowed" /\ UNCHANGED <<sinks, calls>>
    BY DEF ReturnHandle
  <1>2. f \in Cached
    BY <1>1 DEF BorrowedStaysOpen
  <1>3. /\ \/ gone = {} /\ CacheIs(counts, lru)
           \/ \E g \in gone : CacheIs(Restrict(counts, Cached \ {g}), NotOnLru(g))
        /\ thread' = [Awake(Waiting) EXCEPT ![t] = Idle]
    BY <1>2 DEF ReturnHandle, AllTold
  <1>4. Cached \subseteq Files /\ refcount \in [Cached -> Nat] /\ IsFiniteSet(Cached)
    <2>1. PICK cached \in SUBSET Files : refcount \in [cached -> Nat]
      BY DEF TypeOK
    <2> QED
      BY <2>1, FS_Subset, FileHandlesAssumption DEF Cached, FileHandlesAssumption
  <1>5. counts \in [Cached -> Nat]
    <2>1. refcount[f] \in Nat
      BY <1>2, <1>4
    <2>2. (IF refcount[f] > 0 THEN refcount[f] - 1 ELSE refcount[f]) \in Nat
      BY <2>1
    <2> QED
      BY <1>4, <2>2
  <1>6. Moved(t, "idle", None)
    <2>1. /\ Awake(Waiting) \in [Threads -> ThreadStates]
          /\ \A u \in Threads : SameCall(Awake(Waiting), u)
      BY AwakeFacts
    <2>2. Idle \in ThreadStates /\ Idle.pc = "idle" /\ Idle.file = None
      BY FileHandlesAssumption DEF Idle, ThreadStates, FileHandlesAssumption
    <2> QED
      BY <1>3, <2>1, <2>2 DEF Moved, SameCall
  <1>7. ASSUME NEW g \in Cached PROVE counts[g] = Cardinality(Borrowers(g)')
    <2>1. /\ IsFiniteSet(Borrowers(g))
          /\ Borrowers(g)' \ {t} = Borrowers(g) \ {t}
          /\ t \notin Borrowers(g)'
          /\ t \in Borrowers(g) <=> f = g
      BY <1>1, <1>6, BorrowersFacts
    <2>2. refcount[g] = Cardinality(Borrowers(g)) /\ refcount[g] \in Nat
      BY <1>4 DEF BorrowedStaysOpen
    <2>3. Borrowers(g)' = Borrowers(g) \ {t}
      BY <2>1
    <2>4. CASE f # g
      <3>1. Borrowers(g)' = Borrowers(g)
        BY <2>1, <2>3, <2>4
      <3> QED
        BY <1>4, <2>2, <2>4, <3>1
    <2>5. CASE f = g
      <3>1. Cardinality(Borrowers(g)') = Cardinality(Borrowers(g)) - 1
        BY <2>1, <2>3, <2>5, FS_RemoveElement
      <3>2. Cardinality(Borrowers(g)) # 0
        BY <2>1, <2>5, FS_EmptySet
      <3> QED
        BY <1>4, <2>2, <2>5, <3>1, <3>2
    <2> QED
      BY <2>4, <2>5
  <1>8. thread' \in [Threads -> ThreadStates] /\ calls' \in [Threads -> 0 .. MaxCalls]
    BY <1>1, <1>6 DEF Moved, TypeOK
  <1>9. sinks' \subseteq Files /\ Cached \subseteq sinks'
    BY <1>1 DEF TypeOK, WithinLimit
  <1>10. CallsHaveSinks'
    BY <1>1, <1>6 DEF CallsHaveSinks, Moved, SameCall
  \* Whether a handle goes or none does, the rest is the same.
  <1>11. ASSUME NEW files \in SUBSET Cached, NEW order, Lists(order, files),
                CacheIs(Restrict(counts, files), order),
                \A g \in Cached \ files : counts[g] = 0
         PROVE  IInv'
    <2>1. Restrict(counts, files) \in [files -> Nat]
      BY <1>5 DEF Restrict
    <2>2. Cardinality(files) <= MaxHandles
      <3>1. Cardinality(files) <= Cardinality(Cached) /\ IsFiniteSet(files)
        BY <1>4, FS_Subset
      <3>2. Cardinality(files) \in Nat /\ Cardinality(Cached) \in Nat /\ MaxHandles \in Nat
        BY <1>4, <3>1, FS_CardinalityType, FileHandlesAssumption DEF FileHandlesAssumption
      <3> QED
        BY <3>1, <3>2 DEF WithinLimit
    <2>3. TypeOK' /\ Lists(lru, Cached)' /\ WithinLimit' /\ Cached' = files
      <3>1. files \in SUBSET Files /\ files \subseteq sinks'
        BY <1>4, <1>9
      <3> HIDE DEF IInv, counts
      <3> QED
        BY <1>8, <1>9, <1>11, <2>1, <2>2, <3>1, CacheFacts
    <2>4. ASSUME NEW u \in Threads, thread'[u].pc = "borrowed"
          PROVE  thread'[u].file \in files
      <3>1. u # t /\ thread[u].pc = "borrowed" /\ thread'[u].file = thread[u].file
        BY <1>6, <2>4 DEF Moved, SameCall
      <3>2. PICK h \in Cached : h = thread[u].file
        BY <3>1 DEF BorrowedStaysOpen
      <3>3. u \in Borrowers(h)'
        BY <2>4, <3>1, <3>2 DEF Borrowers
      <3>4. IsFiniteSet(Borrowers(h)')
        <4>1. Borrowers(h)' \subseteq Threads
          BY DEF Borrowers
        <4> QED
          BY <4>1, FS_Subset, FileHandlesAssumption DEF FileHandlesAssumption
      <3>5. Cardinality(Borrowers(h)') # 0
        BY <3>3, <3>4, FS_EmptySet
      <3>6. counts[h] # 0
        BY <1>7, <3>2, <3>5
      <3> QED
        BY <1>11, <3>1, <3>2, <3>6
    <2>5. ASSUME NEW g \in files PROVE refcount'[g] = Cardinality(Borrowers(g)')
      BY <1>7, <1>11 DEF CacheIs, Restrict
    <2>6. BorrowedStaysOpen'
      BY <2>3, <2>4, <2>5 DEF BorrowedStaysOpen
    <2> QED
      BY <1>10, <2>3, <2>6
  <1>12. CASE gone = {} /\ CacheIs(counts, lru)
    <2>1. Restrict(counts, Cached) = counts
      BY <1>5 DEF Restrict
    <2> HIDE DEF counts
    <2> QED
      BY <1>11, <1>12, <2>1
  <1>13. CASE \E g \in gone : CacheIs(Restrict(counts, Cached \ {g}), NotOnLru(g))
    <2>1. PICK g \in gone : CacheIs(Restrict(counts, Cached \ {g}), NotOnLru(g))
      BY <1>13
    <2>2. g \in Cached /\ counts[g] = 0
      BY <1>5 DEF Evicted, Unused
    <2>3. Lists(NotOnLru(g), Cached \ {g})
      BY <1>4, <2>2, NotOnLruFacts
    <2> HIDE DEF counts
    <2> QED
      BY <1>11, <2>1, <2>2, <2>3
  <1> QED
    BY <1>3, <1>12, <1>13

LEMMA NewSinkKeeps ==
    ASSUME IInv, NEW f \in Files, NewSink(f)
    PROVE  IInv'
  <1> USE DEF IInv, NewSink
  <1>1. Cached' = Cached
    BY DEF Cached
  <1>2. TypeOK' /\ Lists(lru, Cached)' /\ WithinLimit'
    BY <1>1 DEF TypeOK, Lists, WithinLimit
  <1>3. CallsHaveSinks'
    BY DEF CallsHaveSinks
  <1>4. BorrowedStaysOpen'
    BY <1>1 DEF BorrowedStaysOpen, Borrowers
  <1> QED
    BY <1>2, <1>3, <1>4

\* The sink that goes takes its handle along: nobody has borrowed it.
LEMMA CloseSinkKeeps ==
    ASSUME IInv, NEW f \in Files, CloseSink(f)
    PROVE  IInv'
  <1> USE DEF IInv
  <1>1. /\ \A t \in Threads : thread[t].file # f
        /\ sinks' = sinks \ {f} /\ calls' = calls
    BY DEF CloseSink
  <1>2. Cached \subseteq Files /\ refcount \in [Cached -> Nat] /\ IsFiniteSet(Cached)
    <2>1. PICK cached \in SUBSET Files : refcount \in [cached -> Nat]
      BY DEF TypeOK
    <2> QED
      BY <2>1, FS_Subset, FileHandlesAssumption DEF Cached, FileHandlesAssumption
  <1>3. f \in Cached => refcount[f] = 0
    <2>1. Borrowers(f) = {}
      BY <1>1 DEF Borrowers
    <2> QED
      BY <2>1, FS_EmptySet DEF BorrowedStaysOpen
  <1>4. /\ thread' \in [Threads -> ThreadStates]
        /\ \A t \in Threads : SameCall(thread', t)
    <2>1. CASE MayClose(f)
      BY <2>1, AwakeFacts DEF CloseSink
    <2>2. CASE ~MayClose(f)
      BY <2>2 DEF CloseSink, TypeOK, SameCall, ThreadStates
    <2> QED
      BY <2>1, <2>2
  <1>5. CallsHaveSinks'
    BY <1>1, <1>4 DEF CallsHaveSinks, SameCall
  <1>6. \A g : Borrowers(g)' = Borrowers(g)
    BY <1>4 DEF Borrowers, SameCall
  <1>7. CASE f \notin Cached
    <2>1. UNCHANGED <<refcount, lru, available>> /\ Cached' = Cached
      BY <1>7 DEF CloseSink, MayClose, Cached
    <2>2. TypeOK' /\ Lists(lru, Cached)' /\ WithinLimit'
      BY <1>1, <1>4, <1>7, <2>1 DEF TypeOK, Lists, WithinLimit, ThreadStates
    <2>3. BorrowedStaysOpen'
      BY <1>4, <1>6, <2>1 DEF BorrowedStaysOpen, SameCall
    <2> QED
      BY <1>5, <2>2, <2>3
  <1>8. CASE f \in Cached
    <2> DEFINE files == Cached \ {f}
    <2>1. CacheIs(Restrict(refcount, files), NotOnLru(f))
      BY <1>3, <1>8 DEF CloseSink, MayClose
    <2>2. Lists(NotOnLru(f), files)
      BY <1>2, <1>8, NotOnLruFacts
    <2>3. Restrict(refcount, files) \in [files -> Nat]
      BY <1>2 DEF Restrict
    <2>4. Cardinality(files) <= MaxHandles
      <3>1. Cardinality(files) = Cardinality(Cached) - 1 /\ Cardinality(Cached) \in Nat
        BY <1>2, <1>8, FS_RemoveElement, FS_CardinalityType
      <3> QED
        BY <3>1, FileHandlesAssumption DEF WithinLimit, FileHandlesAssumption
    <2>5. /\ files \in SUBSET Files /\ files \subseteq sinks' /\ sinks' \subseteq Files
          /\ calls' \in [Threads -> 0 .. MaxCalls]
      BY <1>1, <1>2 DEF TypeOK, WithinLimit
    <2>6. TypeOK' /\ Lists(lru, Cached)' /\ WithinLimit' /\ Cached' = files
      <3> HIDE DEF files, IInv
      <3> QED
        BY <1>4, <2>1, <2>2, <2>3, <2>4, <2>5, CacheFacts
    <2>7. BorrowedStaysOpen'
      <3>1. ASSUME NEW t \in Threads, thread'[t].pc = "borrowed"
            PROVE  thread'[t].file \in files
        BY <1>1, <1>4, <3>1 DEF BorrowedStaysOpen, SameCall
      <3>2. ASSUME NEW g \in files PROVE refcount'[g] = Cardinality(Borrowers(g)')
        BY <1>6, <2>1 DEF CacheIs, Restrict, BorrowedStaysOpen
      <3> QED
        BY <2>6, <3>1, <3>2 DEF BorrowedStaysOpen
    <2> QED
      BY <1>5, <2>6, <2>7
  <1> QED
    BY <1>7, <1>8
-----------------------------------------------------------------------------
(* The theorems *)

\* Every reachable state of the pool satisfies the inductive invariant.
THEOREM Invariant == Spec => []IInv
  <1>1. ASSUME IInv, [Next]_vars PROVE IInv'
    <2>1. CASE \E t \in Threads : Step(t)
      <3>1. PICK t \in Threads : Step(t)
        BY <2>1
      <3> QED
        BY <1>1, <3>1, WaitForHandleKeeps, GetCachedKeeps, OpensKeeps, OpenFailsKeeps,
           SettleKeeps, ReturnHandleKeeps DEF Step
    <2>2. CASE \E t \in Threads, f \in Files : Call(t, f)
      BY <1>1, <2>2, CallKeeps
    <2>3. CASE \E f \in Files : NewSink(f) \/ CloseSink(f)
      BY <1>1, <2>3, NewSinkKeeps, CloseSinkKeeps
    <2>4. CASE UNCHANGED vars
      <3>1. Cached' = Cached
        BY <2>4 DEF vars, Cached
      <3>2. \A g : Borrowers(g)' = Borrowers(g)
        BY <2>4 DEF vars, Borrowers
      <3> QED
        BY <1>1, <2>4, <3>1, <3>2 DEF vars, IInv, TypeOK, Lists, CallsHaveSinks,
           BorrowedStaysOpen, WithinLimit
    <2> QED
      BY <1>1, <2>1, <2>2, <2>3, <2>4 DEF Next
  <1> QED
    BY InitIInv, <1>1, PTL DEF Spec

\* The list and the cache hold the same files, and every variable its values.
THEOREM TypeCorrect == Spec => []TypeOK
  <1>1. IInv => TypeOK
    BY DEF IInv
  <1> QED
    BY Invariant, <1>1, PTL

\* No handle is closed under a thread that writes through it, whatever the
\* others open, return and evict: get_handle and return_handle count every
\* borrow once, and evict_lru_ and close spare a handle that has one.
THEOREM HandlesStayOpen == Spec => []BorrowedStaysOpen
  <1>1. IInv => BorrowedStaysOpen
    BY DEF IInv
  <1> QED
    BY Invariant, <1>1, PTL

\* The pool never holds more handles than its limit, also when late openings
\* and waits race, and none of a file whose sink is gone (issue #226).
THEOREM LimitKept == Spec => []WithinLimit
  <1>1. IInv => WithinLimit
    BY DEF IInv
  <1> QED
    BY Invariant, <1>1, PTL
=============================================================================
