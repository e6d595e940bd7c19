---------------------------- MODULE Stream_proofs ----------------------------
(***************************************************************************)
(* Proofs about Stream for any arrays, frame sizes and limits, any bound   *)
(* of the queue and any calls of append: no byte and no frame is lost or   *)
(* counted twice on its way from append to the arrays, and a close that    *)
(* succeeds has finalized every array with every frame queued for it.      *)
(*                                                                         *)
(* Accounting says what holds while no error has been set.  What is        *)
(* inductive holds longer, until the consumer stops (Flowing), because a   *)
(* worker's error does not stop the consumer; it gives for every frame of  *)
(* the queue the id by the frames of its array in front of it (Flow), and  *)
(* bounds the bytes of a call before they are taken (Limited).             *)
(***************************************************************************)
EXTENDS Stream, FiniteSetTheorems, FunctionTheorems, SequenceTheorems, TLAPS

Entries == [label : Labels, data : UNION {[1 .. FrameSize[k] -> {0}] : k \in Keys}]

\* Which of the first n frames of a queue are of array k, and how many.
Of(queue, k, n) == {i \in 1 .. n : queue[i].label.key = k}
Before(queue, k, n) == Cardinality(Of(queue, k, n))

Calls == [pc : {"idle", "append", "push", "waitSpace", "return", "notify",
               "finished?", "waitFinished", "stopPool", "join", "report", "arrays",
               "closed"},
          key : Keys, left : 0 .. MaxAppend, taken : 0 .. MaxAppend,
          data : 0 .. MaxAppend]

Shape ==
    /\ q \in Seq(Entries)
    /\ offset \in [Keys -> Nat]
    /\ consumer = "write" => out.label \in Labels

\* What the call of append has taken and where it reads on.
CallState ==
    /\ user.left + user.taken <= MaxAppend
    /\ user.data <= user.taken
    /\ user.pc \notin {"append", "push", "waitSpace", "return"} =>
          user.left = 0 /\ user.taken = 0
    /\ At("append") /\ user.left > 0 =>
          /\ user.data = user.taken
          /\ offset[user.key] > 0 => user.taken = 0
    /\ user.pc \in {"push", "waitSpace"} =>
          /\ user.data = user.taken
          /\ \/ offset[user.key] = FrameSize[user.key]
             \/ offset[user.key] = 0 /\ user.left >= FrameSize[user.key]

Closing == user.pc \in {"notify", "finished?", "waitFinished", "stopPool", "join",
                        "report", "arrays", "closed"}

\* Frames are no longer processed when the user closes the stream, or when the
\* consumer has ended with an error.
Stopping ==
    /\ Closing => ~process_frames
    /\ ~process_frames => Closing \/ (error /\ consumer = "ended")
    /\ consumer = "stop" => error
    /\ consumer = "exit" => Closing /\ q = <<>>
    /\ consumer = "ended" => ~process_frames /\ (error \/ (Closing /\ q = <<>>))

Flowing == ~error \/ consumer \notin {"stop", "ended"}

\* Until the consumer stops: the bytes append took are the frames it queued and
\* the open partial frame, and the frames of each array are in the array, in
\* the consumer's hands or on the queue, in order.
Flow ==
    /\ \A k \in Keys :
          bytes_written[k] + Taken(k) = frames_queued[k] * FrameSize[k] + offset[k]
    /\ \A k \in Keys :
          frames_queued[k] = written[k] + Held(k) + Before(q, k, Len(q))
    /\ \A i \in 1 .. Len(q) : \A k \in Keys :
          q[i].label.key = k => q[i].label.id = written[k] + Held(k) + Before(q, k, i - 1)
    /\ consumer = "write" => out.label.id = written[out.label.key]

\* A call is only taken on when all of its bytes are within the array's limit.
Limited ==
    \A k \in Keys :
       MaxArrayBytes[k] > 0 =>
          bytes_written[k] + Taken(k) + (IF user.key = k THEN user.left ELSE 0)
             <= MaxArrayBytes[k]

\* finalize_array begins when there was no error to report.
Clean ==
    /\ user.pc \in {"report", "arrays", "closed"} => consumer = "ended" /\ jobs = 0
    /\ At("arrays") => ~error
    /\ At("closed") /\ ret = "Success" => ~error /\ finalized = Keys

IInv == /\ TypeOK /\ Shape /\ CallState /\ Stopping /\ (Flowing => Flow)
        /\ Limited /\ Clean
-----------------------------------------------------------------------------
(* Counting the frames of an array on the queue *)

LEMMA BeforeType ==
    ASSUME NEW s, NEW k, NEW n \in Nat
    PROVE  /\ IsFiniteSet(Of(s, k, n))
           /\ Before(s, k, n) \in Nat
           /\ Before(s, k, 0) = 0
  <1>1. Of(s, k, n) \subseteq 1 .. n /\ Of(s, k, 0) = {}
    BY DEF Of
  <1>2. IsFiniteSet(1 .. n)
    BY FS_Interval
  <1>3. IsFiniteSet(Of(s, k, n))
    BY <1>1, <1>2, FS_Subset
  <1> QED
    BY <1>1, <1>3, FS_CardinalityType, FS_EmptySet DEF Before

\* Counting goes by the frames counted.
LEMMA BeforeSame ==
    ASSUME NEW s, NEW t, NEW k, NEW n \in Nat, \A i \in 1 .. n : s[i] = t[i]
    PROVE  Before(s, k, n) = Before(t, k, n)
  <1>1. Of(s, k, n) = Of(t, k, n)
    BY DEF Of
  <1> QED
    BY <1>1 DEF Before

\* The next frame counts if it is of the array.
LEMMA BeforeNext ==
    ASSUME NEW s, NEW k, NEW n \in Nat
    PROVE  Before(s, k, n + 1) =
              Before(s, k, n) + (IF s[n + 1].label.key = k THEN 1 ELSE 0)
  <1>1. IsFiniteSet(Of(s, k, n)) /\ n + 1 \notin Of(s, k, n) /\ Before(s, k, n) \in Nat
    BY BeforeType DEF Of
  <1>2. CASE s[n + 1].label.key = k
    <2>1. Of(s, k, n + 1) = Of(s, k, n) \cup {n + 1}
      BY <1>2 DEF Of
    <2>2. Cardinality(Of(s, k, n + 1)) = Cardinality(Of(s, k, n)) + 1
      BY <1>1, <2>1, FS_AddElement
    <2> QED
      BY <1>2, <2>2 DEF Before
  <1>3. CASE s[n + 1].label.key # k
    <2>1. Of(s, k, n + 1) = Of(s, k, n)
      BY <1>3 DEF Of
    <2>2. Before(s, k, n + 1) = Before(s, k, n)
      BY <2>1 DEF Before
    <2> QED
      BY <1>1, <1>3, <2>2
  <1> QED
    BY <1>2, <1>3

\* With one more frame at the end, those in front count as before.
LEMMA BeforeAppend ==
    ASSUME NEW s \in Seq(Entries), NEW e \in Entries
    PROVE  /\ Append(s, e) \in Seq(Entries) /\ Append(s, e) # <<>>
           /\ Len(s) \in Nat /\ Len(Append(s, e)) = Len(s) + 1
           /\ \A i \in 1 .. Len(s) : Append(s, e)[i] = s[i]
           /\ Append(s, e)[Len(s) + 1] = e
           /\ \A k : \A n \in 0 .. Len(s) : Before(Append(s, e), k, n) = Before(s, k, n)
           /\ \A k : Before(Append(s, e), k, Len(s) + 1) =
                        Before(s, k, Len(s)) + (IF e.label.key = k THEN 1 ELSE 0)
  <1> DEFINE t == Append(s, e)
  <1>1. /\ t \in Seq(Entries) /\ Len(s) \in Nat /\ Len(t) = Len(s) + 1
        /\ \A i \in 1 .. Len(s) : t[i] = s[i]
        /\ t[Len(s) + 1] = e
    BY AppendProperties, LenProperties
  <1> HIDE DEF t
  <1>2. t # <<>>
    BY <1>1, EmptySeq
  <1>3. ASSUME NEW k, NEW n \in 0 .. Len(s)
        PROVE  Before(t, k, n) = Before(s, k, n)
    <2>1. n \in Nat /\ \A i \in 1 .. n : t[i] = s[i]
      BY <1>1
    <2> QED
      BY <2>1, BeforeSame
  <1>4. ASSUME NEW k
        PROVE  Before(t, k, Len(s) + 1) =
                  Before(s, k, Len(s)) + (IF e.label.key = k THEN 1 ELSE 0)
    <2>1. Before(t, k, Len(s) + 1) =
             Before(t, k, Len(s)) + (IF t[Len(s) + 1].label.key = k THEN 1 ELSE 0)
      BY <1>1, BeforeNext
    <2>2. Before(t, k, Len(s)) = Before(s, k, Len(s))
      BY <1>1, <1>3
    <2> QED
      BY <1>1, <2>1, <2>2
  <1> QED
    BY <1>1, <1>2, <1>3, <1>4 DEF t

\* Without its first frame, the queue has one frame of that array less.
LEMMA BeforeTail ==
    ASSUME NEW s \in Seq(Entries), s # <<>>, NEW k, NEW n \in 0 .. Len(s) - 1
    PROVE  Before(s, k, n + 1) =
              Before(Tail(s), k, n) + (IF Head(s).label.key = k THEN 1 ELSE 0)
  <1> DEFINE shifted == {i \in 2 .. n + 1 : s[i].label.key = k}
             rest == Of(Tail(s), k, n)
             all == Of(s, k, n + 1)
             shift == [i \in rest |-> i + 1]
  <1>1. /\ Len(s) \in Nat \ {0} /\ Head(s) = s[1]
        /\ \A i \in 1 .. Len(s) - 1 : Tail(s)[i] = s[i + 1]
    BY HeadTailProperties, LenProperties, EmptySeq
  <1>2. n \in Nat /\ n + 1 \in Nat /\ 1 .. n \subseteq 1 .. Len(s) - 1
    BY <1>1
  <1>3. \A i \in 1 .. n : i \in rest <=> i + 1 \in shifted
    BY <1>1, <1>2 DEF Of
  <1>4. rest \subseteq 1 .. n /\ shifted \subseteq 2 .. n + 1
    BY DEF Of
  <1>5. ASSUME NEW j \in shifted PROVE \E i \in rest : i + 1 = j
    <2>1. j - 1 \in 1 .. n /\ (j - 1) + 1 = j
      BY <1>2, <1>4
    <2>2. j - 1 \in rest
      BY <1>3, <1>5, <2>1
    <2> QED
      BY <2>1, <2>2
  <1>6. shifted = all \ {1} /\ (1 \in all <=> s[1].label.key = k)
    BY <1>2 DEF Of
  <1> HIDE DEF rest, shifted, all
  <1>7. IsFiniteSet(rest) /\ IsFiniteSet(all) /\ Cardinality(all) \in Nat
    BY <1>2, BeforeType, FS_CardinalityType DEF rest, all
  <1>8. Cardinality(shifted) = Cardinality(rest)
    <2>1. shift \in [rest -> shifted]
      BY <1>3, <1>4
    <2>2. \A a, b \in rest : shift[a] = shift[b] => a = b
      BY <1>4
    <2>3. \A j \in shifted : \E i \in rest : shift[i] = j
      BY <1>5
    <2> HIDE DEF shift
    <2>4. shift \in Bijection(rest, shifted)
      BY <2>1, <2>2, <2>3, Fun_IsBij
    <2> QED
      BY <1>7, <2>4, FS_Bijection DEF ExistsBijection
  <1>9. Cardinality(all) = Cardinality(shifted) + (IF s[1].label.key = k THEN 1 ELSE 0)
    <2>1. Cardinality(shifted) = IF 1 \in all THEN Cardinality(all) - 1 ELSE Cardinality(all)
      BY <1>6, <1>7, FS_RemoveElement
    <2> QED
      BY <1>6, <1>7, <2>1
  <1> QED
    BY <1>1, <1>8, <1>9 DEF Before, all, rest
-----------------------------------------------------------------------------
(* Facts about the steps *)

USE DEF queueVars, flagVars, poolVars, outputVars, arrayVars, At, Goto

\* A push puts the label at the end.
LEMMA PushFacts ==
    ASSUME Shape, TypeOK, NEW k \in Keys, Fifo!FifoPush(NextLabel(k), "no data")
    PROVE  /\ q' \in Seq(Entries) /\ Len(q) \in Nat /\ Len(q') = Len(q) + 1
           /\ q' # <<>> /\ out' = out
           /\ \A i \in 1 .. Len(q) : q'[i] = q[i]
           /\ q'[Len(q) + 1].label = [key |-> k, id |-> frames_queued[k]]
           /\ \A j \in Keys : \A n \in 0 .. Len(q) : Before(q', j, n) = Before(q, j, n)
           /\ \A j \in Keys : Before(q', j, Len(q')) =
                                 Before(q, j, Len(q)) + (IF j = k THEN 1 ELSE 0)
  <1>1. NextLabel(k) \in Labels
    BY DEF NextLabel, Labels, TypeOK
  <1>2. PICK bytes \in [1 .. FrameSize[k] -> {0}] :
           q' = Append(q, [label |-> NextLabel(k), data |-> bytes])
    BY <1>1 DEF Fifo!FifoPush, Fifo!Contents, NextLabel
  <1>3. PICK e \in Entries : e.label = NextLabel(k) /\ q' = Append(q, e)
    BY <1>1, <1>2 DEF Entries
  <1>4. e.label = [key |-> k, id |-> frames_queued[k]] /\ q \in Seq(Entries)
    BY <1>3 DEF NextLabel, Shape
  <1>5. out' = out
    BY DEF Fifo!FifoPush
  <1> DEFINE t == Append(q, e)
             Facts(x) ==
               /\ x \in Seq(Entries) /\ Len(q) \in Nat /\ Len(x) = Len(q) + 1
               /\ x # <<>>
               /\ \A i \in 1 .. Len(q) : x[i] = q[i]
               /\ x[Len(q) + 1].label = [key |-> k, id |-> frames_queued[k]]
               /\ \A j \in Keys : \A n \in 0 .. Len(q) : Before(x, j, n) = Before(q, j, n)
               /\ \A j \in Keys : Before(x, j, Len(x)) =
                                     Before(q, j, Len(q)) + (IF j = k THEN 1 ELSE 0)
  <1>6. Facts(t)
    <2>1. /\ t \in Seq(Entries) /\ t # <<>>
          /\ Len(q) \in Nat /\ Len(t) = Len(q) + 1
          /\ \A i \in 1 .. Len(q) : t[i] = q[i]
          /\ t[Len(q) + 1] = e
          /\ \A j : \A n \in 0 .. Len(q) : Before(t, j, n) = Before(q, j, n)
          /\ \A j : Before(t, j, Len(q) + 1) =
                       Before(q, j, Len(q)) + (IF e.label.key = j THEN 1 ELSE 0)
      BY <1>4, BeforeAppend
    <2>2. e.label.key = k
      <3>1. NextLabel(k).key = k
        BY DEF NextLabel
      <3> QED
        BY <1>3, <3>1
    <2> HIDE DEF t
    <2>3. ASSUME NEW j \in Keys
          PROVE  Before(t, j, Len(t)) = Before(q, j, Len(q)) + (IF j = k THEN 1 ELSE 0)
      <3>1. Before(t, j, Len(q) + 1) =
               Before(q, j, Len(q)) + (IF e.label.key = j THEN 1 ELSE 0)
        BY <2>1
      <3> QED
        BY <2>1, <2>2, <3>1
    <2> QED
      BY <1>4, <2>1, <2>3
  <1>7. q' = t
    BY <1>3
  <1> HIDE DEF t, Facts
  <1>8. Facts(q')
    BY <1>6, <1>7
  <1> QED
    BY <1>5, <1>8 DEF Facts

\* A pop takes the first.
LEMMA PopFacts ==
    ASSUME Shape, Fifo!FifoPop
    PROVE  /\ q' \in Seq(Entries) /\ Len(q') \in Nat /\ Len(q) = Len(q') + 1
           /\ out' = q[1] /\ out' \in Entries
           /\ \A i \in 1 .. Len(q') : q'[i] = q[i + 1]
           /\ \A j \in Keys : Before(q, j, 0) = 0
           /\ \A j \in Keys : \A n \in 0 .. Len(q') :
                 /\ Before(q', j, n) \in Nat
                 /\ Before(q, j, n + 1) =
                       Before(q', j, n) + (IF out'.label.key = j THEN 1 ELSE 0)
  <1>1. q \in Seq(Entries) /\ q # <<>> /\ q' = Tail(q) /\ out' = Head(q)
    BY DEF Shape, Fifo!FifoPop
  <1>2. /\ q' \in Seq(Entries) /\ Len(q') \in Nat /\ Len(q) = Len(q') + 1
        /\ out' = q[1] /\ out' \in Entries
        /\ \A i \in 1 .. Len(q') : q'[i] = q[i + 1]
    BY <1>1, HeadTailProperties, LenProperties, EmptySeq
  <1>3. ASSUME NEW j \in Keys, NEW n \in 0 .. Len(q')
        PROVE  /\ Before(q', j, n) \in Nat
               /\ Before(q, j, n + 1) =
                     Before(q', j, n) + (IF out'.label.key = j THEN 1 ELSE 0)
    <2>1. n \in Nat /\ n \in 0 .. Len(q) - 1
      BY <1>2
    <2> QED
      BY <1>1, <2>1, BeforeTail, BeforeType
  <1>4. \A j \in Keys : Before(q, j, 0) = 0
    BY BeforeType
  <1> QED
    BY <1>2, <1>3, <1>4

\* The user thread is in the same place of its data.
SameCall ==
    /\ user'.key = user.key /\ user'.left = user.left
    /\ user'.taken = user.taken /\ user'.data = user.data

\* A step that moves no byte and no frame.
LEMMA QuietKeeps ==
    ASSUME IInv, UNCHANGED <<q, out, outputVars, written>>, SameCall, TypeOK',
           consumer' = "write" <=> consumer = "write", Flowing' => Flowing
    PROVE  Shape' /\ (Flowing => Flow)' /\ Limited'
  <1>1. Shape'
    BY DEF IInv, Shape
  <1>2. \A k \in Keys : Taken(k)' = Taken(k) /\ Held(k)' = Held(k)
    BY DEF SameCall, Taken, Held
  <1>3. ASSUME Flowing' PROVE Flow'
    <2>1. Flow
      BY <1>3 DEF IInv
    <2>2. q' = q /\ \A k, n : Before(q, k, n)' = Before(q, k, n)
      BY DEF Before, Of
    <2> QED
      BY <1>2, <2>1, <2>2 DEF Flow
  <1>4. Limited'
    BY <1>2 DEF IInv, Limited, SameCall
  <1> QED
    BY <1>1, <1>3, <1>4

\* Notifying wakes the user thread, if it waits, where it was.
LEMMA NotifyFacts ==
    ASSUME TypeOK, NotifyAll \/ NotifyNotFull
    PROVE  /\ SameCall
           /\ user' \in Calls
           /\ \/ user' = user
              \/ user.pc = "waitSpace" /\ user'.pc = "push"
              \/ user.pc = "waitFinished" /\ user'.pc = "finished?"
  <1>1. CASE user' = user
    BY <1>1 DEF TypeOK, SameCall, Calls
  <1>2. CASE At("waitSpace") /\ user' = [user EXCEPT !.pc = "push"]
    BY <1>2 DEF TypeOK, SameCall, Calls
  <1>3. CASE At("waitFinished") /\ user' = [user EXCEPT !.pc = "finished?"]
    BY <1>3 DEF TypeOK, SameCall, Calls
  <1> QED
    BY <1>1, <1>2, <1>3 DEF NotifyAll, NotifyNotFull

LEMMA NotifyKeepsCall ==
    ASSUME TypeOK, CallState, NotifyAll \/ NotifyNotFull, UNCHANGED offset
    PROVE  CallState' /\ (Closing' <=> Closing)
  BY NotifyFacts DEF SameCall, CallState, Closing
-----------------------------------------------------------------------------
(* The initial state *)

LEMMA InitIInv == Init => IInv
  <1> SUFFICES ASSUME Init PROVE IInv
    OBVIOUS
  <1> USE StreamAssumption DEF Init
  <1>1. user = Idle /\ Idle.pc = "idle" /\ Idle.left = 0 /\ Idle.taken = 0
        /\ Idle.data = 0 /\ Idle.key \in Keys
    BY DEF Idle
  <1>2. q = <<>> /\ Len(q) = 0 /\ q \in Seq(Entries) /\ DOMAIN q = {}
    BY EmptySeq DEF Fifo!FifoInit
  <1>3. \A k \in Keys : Before(q, k, Len(q)) = 0 /\ Taken(k) = 0 /\ Held(k) = 0
    BY <1>1, <1>2, BeforeType DEF Taken, Held
  <1>4. TypeOK
    <2>1. Idle \in [pc : {"idle"}, key : Keys, left : {0}, taken : {0}, data : {0}]
      BY <1>1 DEF Idle
    <2>2. \A k \in Keys : offset[k] \in 0 .. FrameSize[k]
      OBVIOUS
    <2>3. user \in Calls
      BY <1>1, <2>1 DEF Calls
    <2>4. /\ frames_queued \in [Keys -> Nat] /\ bytes_written \in [Keys -> Nat]
          /\ written \in [Keys -> Nat]
      OBVIOUS
    <2>5. jobs \in 0 .. MaxJobs
      OBVIOUS
    <2> QED
      BY <1>2, <2>2, <2>3, <2>4, <2>5 DEF TypeOK, Calls
  <1>5. Shape /\ CallState
    BY <1>1, <1>2 DEF Shape, CallState
  <1>6. Stopping /\ Clean
    BY <1>1 DEF Stopping, Clean, Closing
  <1>7. Flow
    BY <1>2, <1>3 DEF Flow
  <1>8. Limited
    BY <1>1, <1>3 DEF Limited
  <1> QED
    BY <1>4, <1>5, <1>6, <1>7, <1>8 DEF IInv
-----------------------------------------------------------------------------
(* The steps that move no frame, one by one *)

LEMMA WholeFrameKeeps ==
    ASSUME IInv, WholeFrame
    PROVE  IInv'
  <1> USE DEF WholeFrame
  <1>1. TypeOK'
    BY DEF IInv, TypeOK
  <1>2. SameCall /\ CallState'
    BY StreamAssumption DEF IInv, TypeOK, CallState, SameCall
  <1>3. Shape' /\ (Flowing => Flow)' /\ Limited'
    BY <1>1, <1>2, QuietKeeps DEF Flowing
  <1>4. Stopping' /\ Clean'
    BY DEF IInv, TypeOK, Stopping, Clean, Closing
  <1> QED
    BY <1>1, <1>2, <1>3, <1>4 DEF IInv

LEMMA WaitForSpaceKeeps ==
    ASSUME IInv, WaitForSpace
    PROVE  IInv'
  <1> USE DEF WaitForSpace
  <1>1. TypeOK'
    BY DEF IInv, TypeOK
  <1>2. SameCall /\ CallState'
    BY DEF IInv, TypeOK, CallState, SameCall
  <1>3. Shape' /\ (Flowing => Flow)' /\ Limited'
    BY <1>1, <1>2, QuietKeeps DEF Flowing
  <1>4. Stopping' /\ Clean'
    BY DEF IInv, TypeOK, Stopping, Clean, Closing
  <1> QED
    BY <1>1, <1>2, <1>3, <1>4 DEF IInv

LEMMA SpuriousWakeKeeps ==
    ASSUME IInv, SpuriousWake
    PROVE  IInv'
  <1> USE DEF SpuriousWake
  <1>1. TypeOK'
    BY DEF IInv, TypeOK
  <1>2. SameCall /\ CallState'
    BY DEF IInv, TypeOK, CallState, SameCall
  <1>3. Shape' /\ (Flowing => Flow)' /\ Limited'
    BY <1>1, <1>2, QuietKeeps DEF Flowing
  <1>4. Stopping' /\ Clean'
    BY DEF IInv, TypeOK, Stopping, Clean, Closing
  <1> QED
    BY <1>1, <1>2, <1>3, <1>4 DEF IInv

LEMMA ConsumerLoopKeeps ==
    ASSUME IInv, ConsumerLoop
    PROVE  IInv'
  <1> USE DEF ConsumerLoop
  <1>1. TypeOK'
    BY DEF IInv, TypeOK
  <1>2. SameCall /\ CallState'
    BY DEF IInv, TypeOK, CallState, SameCall
  <1>3. Shape' /\ (Flowing => Flow)' /\ Limited'
    BY <1>1, <1>2, QuietKeeps DEF Flowing
  <1>4. Stopping' /\ Clean'
    BY DEF IInv, TypeOK, Stopping, Clean, Closing
  <1> QED
    BY <1>1, <1>2, <1>3, <1>4 DEF IInv

LEMMA ConsumerCheckKeeps ==
    ASSUME IInv, ConsumerCheck
    PROVE  IInv'
  <1> USE DEF ConsumerCheck
  <1>1. TypeOK'
    BY DEF IInv, TypeOK
  <1>2. SameCall /\ CallState'
    BY DEF IInv, TypeOK, CallState, SameCall
  <1>3. Shape' /\ (Flowing => Flow)' /\ Limited'
    BY <1>1, <1>2, QuietKeeps DEF Flowing
  <1>4. Stopping' /\ Clean'
    BY DEF IInv, TypeOK, Stopping, Clean, Closing
  <1> QED
    BY <1>1, <1>2, <1>3, <1>4 DEF IInv

LEMMA ConsumerTimeoutKeeps ==
    ASSUME IInv, ConsumerTimeout
    PROVE  IInv'
  <1> USE DEF ConsumerTimeout
  <1>1. TypeOK'
    BY DEF IInv, TypeOK
  <1>2. SameCall /\ CallState'
    BY DEF IInv, TypeOK, CallState, SameCall
  <1>3. Shape' /\ (Flowing => Flow)' /\ Limited'
    BY <1>1, <1>2, QuietKeeps DEF Flowing
  <1>4. Stopping' /\ Clean'
    BY DEF IInv, TypeOK, Stopping, Clean, Closing
  <1> QED
    BY <1>1, <1>2, <1>3, <1>4 DEF IInv

LEMMA JobEndsKeeps ==
    ASSUME IInv, JobEnds
    PROVE  IInv'
  <1> USE DEF JobEnds
  <1>1. TypeOK'
    BY StreamAssumption DEF IInv, TypeOK
  <1>2. SameCall /\ CallState'
    BY DEF IInv, TypeOK, CallState, SameCall
  <1>3. Shape' /\ (Flowing => Flow)' /\ Limited'
    BY <1>1, <1>2, QuietKeeps DEF Flowing
  <1>4. Stopping' /\ Clean'
    BY DEF IInv, TypeOK, Stopping, Clean, Closing
  <1> QED
    BY <1>1, <1>2, <1>3, <1>4 DEF IInv

LEMMA JobFailsKeeps ==
    ASSUME IInv, JobFails
    PROVE  IInv'
  <1> USE DEF JobFails
  <1>1. TypeOK'
    <2>1. jobs' \in 0 .. MaxJobs
      BY StreamAssumption DEF IInv, TypeOK
    <2>2. /\ accepting' = FALSE /\ error' = TRUE /\ done' = TRUE
          /\ UNCHANGED <<queueVars, process_frames, outputVars, arrayVars, user, consumer, ret>>
      OBVIOUS
    <2>3. TypeOK
      BY DEF IInv
    <2> HIDE DEF JobFails
    <2>4. process_frames' \in BOOLEAN /\ done' \in BOOLEAN /\ error' \in BOOLEAN
              /\ accepting' \in BOOLEAN
      BY <2>2, <2>3 DEF TypeOK
    <2>5. \A i \in DOMAIN q' : q'[i].label \in Labels
      BY <2>2, <2>3 DEF TypeOK
    <2>6. UNCHANGED <<outputVars, arrayVars, user, consumer, ret>>
      BY <2>2
    <2> QED
      BY <2>1, <2>3, <2>4, <2>5, <2>6 DEF TypeOK
  <1>2. SameCall /\ CallState'
    BY DEF IInv, TypeOK, CallState, SameCall
  <1>3. Shape' /\ (Flowing => Flow)' /\ Limited'
    BY <1>1, <1>2, QuietKeeps DEF Flowing
  <1>4. Stopping' /\ Clean'
    BY DEF IInv, TypeOK, Stopping, Clean, Closing
  <1> QED
    BY <1>1, <1>2, <1>3, <1>4 DEF IInv

LEMMA CloseKeeps ==
    ASSUME IInv, Close
    PROVE  IInv'
  <1> USE DEF Close
  <1>1. TypeOK'
    BY DEF IInv, TypeOK
  <1>2. SameCall /\ CallState'
    BY DEF IInv, TypeOK, CallState, SameCall
  <1>3. Shape' /\ (Flowing => Flow)' /\ Limited'
    BY <1>1, <1>2, QuietKeeps DEF Flowing
  <1>4. Stopping' /\ Clean'
    BY DEF IInv, TypeOK, Stopping, Clean, Closing
  <1> QED
    BY <1>1, <1>2, <1>3, <1>4 DEF IInv

LEMMA CloseWaitKeeps ==
    ASSUME IInv, CloseWait
    PROVE  IInv'
  <1> USE DEF CloseWait
  <1>1. TypeOK'
    <2>1. TypeOK
      BY DEF IInv
    <2>2. user' \in Calls
      BY <2>1 DEF TypeOK, Calls
    <2>3. UNCHANGED <<queueVars, flagVars, poolVars, outputVars, arrayVars, consumer, ret>>
      OBVIOUS
    <2> HIDE DEF CloseWait
    <2> QED
      BY <2>1, <2>2, <2>3 DEF TypeOK, Calls
  <1>2. SameCall /\ CallState'
    BY DEF IInv, TypeOK, CallState, SameCall
  <1>3. Shape' /\ (Flowing => Flow)' /\ Limited'
    BY <1>1, <1>2, QuietKeeps DEF Flowing
  <1>4. Stopping' /\ Clean'
    BY DEF IInv, TypeOK, Stopping, Clean, Closing
  <1> QED
    BY <1>1, <1>2, <1>3, <1>4 DEF IInv

LEMMA CloseTimeoutKeeps ==
    ASSUME IInv, CloseTimeout
    PROVE  IInv'
  <1> USE DEF CloseTimeout
  <1>1. TypeOK'
    BY DEF IInv, TypeOK
  <1>2. SameCall /\ CallState'
    BY DEF IInv, TypeOK, CallState, SameCall
  <1>3. Shape' /\ (Flowing => Flow)' /\ Limited'
    BY <1>1, <1>2, QuietKeeps DEF Flowing
  <1>4. Stopping' /\ Clean'
    BY DEF IInv, TypeOK, Stopping, Clean, Closing
  <1> QED
    BY <1>1, <1>2, <1>3, <1>4 DEF IInv

LEMMA StopPoolKeeps ==
    ASSUME IInv, StopPool
    PROVE  IInv'
  <1> USE DEF StopPool
  <1>1. TypeOK'
    BY DEF IInv, TypeOK
  <1>2. SameCall /\ CallState'
    BY DEF IInv, TypeOK, CallState, SameCall
  <1>3. Shape' /\ (Flowing => Flow)' /\ Limited'
    BY <1>1, <1>2, QuietKeeps DEF Flowing
  <1>4. Stopping' /\ Clean'
    BY DEF IInv, TypeOK, Stopping, Clean, Closing
  <1> QED
    BY <1>1, <1>2, <1>3, <1>4 DEF IInv

LEMMA ReportKeeps ==
    ASSUME IInv, Report
    PROVE  IInv'
  <1> USE DEF Report
  <1>1. TypeOK'
    BY DEF IInv, TypeOK
  <1>2. SameCall /\ CallState'
    BY DEF IInv, TypeOK, CallState, SameCall
  <1>3. Shape' /\ (Flowing => Flow)' /\ Limited'
    BY <1>1, <1>2, QuietKeeps DEF Flowing
  <1>4. Stopping' /\ Clean'
    BY DEF IInv, TypeOK, Stopping, Clean, Closing
  <1> QED
    BY <1>1, <1>2, <1>3, <1>4 DEF IInv

LEMMA CloseNotifyKeeps ==
    ASSUME IInv, CloseNotify
    PROVE  IInv'
  <1> USE DEF CloseNotify, NotifyNotEmpty
  <1>1. TypeOK'
    BY DEF IInv, TypeOK
  <1>2. SameCall /\ CallState'
    BY DEF IInv, TypeOK, CallState, SameCall
  <1>3. Shape' /\ (Flowing => Flow)' /\ Limited'
    BY <1>1, <1>2, QuietKeeps DEF Flowing
  <1>4. Stopping' /\ Clean'
    BY DEF IInv, TypeOK, Stopping, Clean, Closing
  <1> QED
    BY <1>1, <1>2, <1>3, <1>4 DEF IInv

LEMMA JoinKeeps ==
    ASSUME IInv, Join
    PROVE  IInv'
  <1> USE DEF Join, Joined
  <1>1. TypeOK'
    BY DEF IInv, TypeOK
  <1>2. SameCall /\ CallState'
    BY DEF IInv, TypeOK, CallState, SameCall
  <1>3. Shape' /\ (Flowing => Flow)' /\ Limited'
    BY <1>1, <1>2, QuietKeeps DEF Flowing
  <1>4. Stopping' /\ Clean'
    BY DEF IInv, TypeOK, Stopping, Clean, Closing
  <1> QED
    BY <1>1, <1>2, <1>3, <1>4 DEF IInv

LEMMA FinalizeArrayKeeps ==
    ASSUME IInv, NEW k \in Keys, NEW ok \in BOOLEAN, FinalizeArray(k, ok)
    PROVE  IInv'
  <1> USE DEF FinalizeArray
  <1>1. TypeOK'
    BY DEF IInv, TypeOK
  <1>2. SameCall /\ CallState'
    BY DEF IInv, TypeOK, CallState, SameCall
  <1>3. Shape' /\ (Flowing => Flow)' /\ Limited'
    BY <1>1, <1>2, QuietKeeps DEF Flowing
  <1>4. Stopping' /\ Clean'
    BY DEF IInv, TypeOK, Stopping, Clean, Closing
  <1> QED
    BY <1>1, <1>2, <1>3, <1>4 DEF IInv

LEMMA WriteGroupsKeeps ==
    ASSUME IInv, NEW ok \in BOOLEAN, WriteGroups(ok)
    PROVE  IInv'
  <1> USE DEF WriteGroups
  <1>1. TypeOK'
    BY DEF IInv, TypeOK
  <1>2. SameCall /\ CallState'
    BY DEF IInv, TypeOK, CallState, SameCall
  <1>3. Shape' /\ (Flowing => Flow)' /\ Limited'
    BY <1>1, <1>2, QuietKeeps DEF Flowing
  <1>4. Stopping' /\ Clean'
    BY DEF IInv, TypeOK, Stopping, Clean, Closing
  <1> QED
    BY <1>1, <1>2, <1>3, <1>4 DEF IInv
-----------------------------------------------------------------------------
(* append *)

LEMMA QueueSame ==
    ASSUME UNCHANGED q
    PROVE  \A k, n : Before(q, k, n)' = Before(q, k, n)
  BY DEF Before, Of

LEMMA AppendCallKeeps ==
    ASSUME IInv, NEW k \in Keys, NEW n \in 1 .. MaxAppend, AppendCall(k, n)
    PROVE  IInv'
  <1> USE DEF AppendCall
  <1>1. TypeOK'
    <2>1. user \in Calls
      BY DEF IInv, TypeOK, Calls
    <2>2. user' \in Calls
      BY <2>1, StreamAssumption DEF Calls
    <2> QED
      BY <2>2 DEF IInv, TypeOK, Calls
  <1>2. CallState'
    BY StreamAssumption DEF IInv, TypeOK, CallState
  <1>3. Stopping' /\ Clean'
    BY DEF IInv, TypeOK, Stopping, Clean, Closing
  <1>4. Shape'
    BY DEF IInv, Shape
  <1>5. \A j \in Keys : Taken(j)' = Taken(j) /\ Held(j)' = Held(j)
    BY DEF IInv, CallState, Taken, Held
  <1>6. (Flowing => Flow)'
    <2> SUFFICES ASSUME Flowing' PROVE Flow'
      OBVIOUS
    <2>1. Flow
      BY DEF IInv, Flowing
    <2> QED
      BY <1>5, <2>1, QueueSame DEF Flow
  <1>7. Limited'
    <2>1. CASE user' = user
      BY <1>5, <2>1 DEF IInv, Limited
    <2>2. CASE /\ ~Exceeds(k, bytes_written[k] + n)
               /\ user' = [pc |-> "append", key |-> k, left |-> n, taken |-> 0, data |-> 0]
      <3>1. user.left = 0 /\ user.taken = 0
        BY DEF IInv, CallState
      <3>2. \A j \in Keys : bytes_written[j] \in Nat
        BY DEF IInv, TypeOK
      <3> QED
        BY <2>2, <3>1, <3>2, StreamAssumption DEF IInv, Limited, Exceeds, Taken
    <2> QED
      BY <2>1, <2>2
  <1> QED
    BY <1>1, <1>2, <1>3, <1>4, <1>6, <1>7 DEF IInv

\* What the call has, in numbers.
LEMMA CallFacts ==
    ASSUME IInv
    PROVE  /\ user.key \in Keys
           /\ user.left \in Nat /\ user.taken \in Nat /\ user.data \in Nat
           /\ MaxAppend \in Nat
           /\ \A k \in Keys : /\ offset[k] \in Nat /\ offset[k] <= FrameSize[k]
                              /\ FrameSize[k] \in Nat \ {0}
                              /\ bytes_written[k] \in Nat /\ frames_queued[k] \in Nat
                              /\ written[k] \in Nat
                              /\ frames_queued[k] * FrameSize[k] \in Nat
                              /\ (frames_queued[k] + 1) * FrameSize[k] =
                                    frames_queued[k] * FrameSize[k] + FrameSize[k]
                              /\ MaxArrayBytes[k] \in Nat
  BY StreamAssumption DEF IInv, TypeOK

\* Bytes that go from the caller into a partial frame.
LEMMA CopyKeeps ==
    ASSUME IInv, NEW n \in Nat, TypeOK', CallState', Stopping', Clean',
           UNCHANGED <<queueVars, flagVars, arrayVars, consumer, frames_queued,
                       bytes_written>>,
           offset' = [offset EXCEPT ![user.key] = @ + n],
           user'.key = user.key, user'.left = user.left - n,
           user'.taken = user.taken + n
    PROVE  IInv'
  <1>1. Shape'
    BY CallFacts DEF IInv, Shape
  <1>2. \A k \in Keys : /\ Taken(k) \in Nat
                        /\ Taken(k)' = Taken(k) + (IF user.key = k THEN n ELSE 0)
                        /\ offset'[k] = offset[k] + (IF user.key = k THEN n ELSE 0)
                        /\ Held(k)' = Held(k)
    BY CallFacts DEF Taken, Held, IInv, Shape
  <1>3. (Flowing => Flow)'
    <2> SUFFICES ASSUME Flowing' PROVE Flow'
      OBVIOUS
    <2>1. Flow
      BY DEF IInv, Flowing
    <2>2. ASSUME NEW k \in Keys
          PROVE  bytes_written[k] + Taken(k)' = frames_queued[k] * FrameSize[k] + offset'[k]
      <3>1. bytes_written[k] + Taken(k) = frames_queued[k] * FrameSize[k] + offset[k]
        BY <2>1 DEF Flow
      <3>2. frames_queued[k] * FrameSize[k] \in Nat /\ bytes_written[k] \in Nat
            /\ offset[k] \in Nat
        BY CallFacts
      <3> QED
        BY <1>2, <3>1, <3>2
    <2> QED
      BY <1>2, <2>1, <2>2, QueueSame DEF Flow
  <1>4. Limited'
    BY <1>2, CallFacts DEF IInv, Limited
  <1> QED
    BY <1>1, <1>3, <1>4 DEF IInv

LEMMA FillPartialKeeps ==
    ASSUME IInv, FillPartial
    PROVE  IInv'
  <1> USE DEF FillPartial
  <1> DEFINE k == user.key
             n == Copied(k)
  <1>1. /\ n \in Nat /\ n <= user.left /\ n <= FrameSize[k] - offset[k]
        /\ user.left > n => n = FrameSize[k] - offset[k]
    BY CallFacts DEF Copied
  <1>2. /\ user.left + user.taken <= MaxAppend /\ user.taken = 0 /\ user.data = 0
        /\ k \in Keys /\ offset \in [Keys -> Nat]
    BY CallFacts DEF IInv, CallState, Shape
  <1>3. offset'[k] = offset[k] + n /\ \A j \in Keys \ {k} : offset'[j] = offset[j]
    BY <1>2
  <1>4. Advanced(k) = IF offset[k] + n = FrameSize[k] THEN n ELSE 0
    BY <1>1, <1>2 DEF Advanced
  <1>5. /\ user'.pc = IF offset'[k] = FrameSize[k] THEN "push" ELSE "append"
        /\ user'.key = k /\ user'.left = user.left - n /\ user'.taken = n
        /\ user'.data = Advanced(k)
    BY <1>1, <1>2 DEF IInv, TypeOK
  <1> HIDE DEF n
  <1>6. TypeOK'
    <2>1. \A j \in Keys : offset'[j] \in 0 .. FrameSize[j]
      BY <1>1, <1>2, <1>3, CallFacts
    <2>2. /\ user.left - n \in 0 .. MaxAppend /\ n \in 0 .. MaxAppend
          /\ Advanced(k) \in 0 .. MaxAppend
      BY <1>1, <1>2, <1>4, CallFacts
    <2>3. user' \in Calls
      <3>1. user \in Calls
        BY DEF IInv, TypeOK, Calls
      <3>2. user.left - Copied(k) \in 0 .. MaxAppend /\ user.taken + Copied(k) \in 0 .. MaxAppend
        BY <1>2, <2>2, CallFacts DEF n
      <3> QED
        BY <2>2, <3>1, <3>2 DEF Calls
    <2> QED
      BY <2>1, <2>3 DEF IInv, TypeOK, Calls
  <1>7. CallState'
    BY <1>1, <1>2, <1>3, <1>4, <1>5, CallFacts DEF CallState
  <1>8. Stopping' /\ Clean'
    BY <1>5 DEF IInv, Stopping, Clean, Closing
  <1>9. offset' = [offset EXCEPT ![user.key] = @ + n] /\ user'.taken = user.taken + n
    BY <1>1, <1>2, <1>5 DEF n
  <1> QED
    BY <1>1, <1>5, <1>6, <1>7, <1>8, <1>9, CopyKeeps

LEMMA BeginPartialKeeps ==
    ASSUME IInv, BeginPartial
    PROVE  IInv'
  <1> USE DEF BeginPartial
  <1>1. user.left + user.taken <= MaxAppend /\ user.data = user.taken
    BY DEF IInv, CallState
  <1>2. user'.key = user.key /\ user'.left = 0 /\ user'.taken = user.taken + user.left
        /\ user'.pc = "append" /\ user'.data = user.data
    BY DEF IInv, TypeOK
  <1>3. offset' = [offset EXCEPT ![user.key] = @ + user.left]
    <2>1. offset[user.key] + user.left = user.left
      BY CallFacts
    <2> QED
      BY <2>1
  <1>4. TypeOK'
    <2>1. \A j \in Keys : offset'[j] \in 0 .. FrameSize[j]
      BY CallFacts DEF IInv, Shape
    <2>2. user.taken + user.left \in 0 .. MaxAppend
      BY <1>1, CallFacts
    <2>3. user' \in Calls
      <3>1. user \in Calls
        BY DEF IInv, TypeOK, Calls
      <3>2. 0 \in 0 .. MaxAppend
        BY CallFacts
      <3>3. user' = [user EXCEPT !.left = 0, !.taken = user.taken + user.left]
        BY <3>1 DEF Calls
      <3> HIDE DEF BeginPartial
      <3> QED
        BY <2>2, <3>1, <3>2, <3>3 DEF Calls
    <2> QED
      BY <2>1, <2>3 DEF IInv, TypeOK, Calls
  <1>5. CallState'
    BY <1>1, <1>2, CallFacts DEF CallState
  <1>6. Stopping' /\ Clean'
    BY <1>2 DEF IInv, Stopping, Clean, Closing
  <1>7. user'.left = user.left - user.left
    BY <1>2, CallFacts
  <1> QED
    BY <1>2, <1>3, <1>4, <1>5, <1>6, <1>7, CallFacts, CopyKeeps

\* A frame on the queue: the bytes it counts are those of the partial frame, or
\* those of the whole frame that is taken with the push.
LEMMA PushedKeeps ==
    ASSUME IInv, Pushed
    PROVE  IInv'
  <1>1. PICK k \in Keys : k = user.key
    BY CallFacts
  <1>2. PICK n \in Nat : n = IF offset[k] = 0 THEN FrameSize[k] ELSE 0
    BY <1>1, CallFacts
  <1>3. /\ TypeOK /\ Shape /\ CallState /\ Stopping /\ Clean /\ user \in Calls
        /\ frames_queued \in [Keys -> Nat] /\ offset \in [Keys -> Nat]
    BY DEF IInv, Shape, TypeOK, Calls
  <1>4. /\ user.data = user.taken /\ user.left + user.taken <= MaxAppend
        /\ offset[k] + n = FrameSize[k] /\ n <= user.left
    <2>1. /\ user.pc = "push" /\ user.data = user.taken /\ user.left + user.taken <= MaxAppend
          /\ \/ offset[k] = FrameSize[k]
             \/ offset[k] = 0 /\ user.left >= FrameSize[k]
      BY <1>1, <1>3 DEF Pushed, CallState
    <2>2. FrameSize[k] \in Nat \ {0} /\ user.left \in Nat
      BY <1>1, CallFacts
    <2> QED
      BY <1>2, <2>1, <2>2
  <1>5. /\ user' \in Calls
        /\ user'.pc = "append" /\ user'.key = k
        /\ user'.left = user.left - n /\ user'.taken = user.taken + n
        /\ user'.data = user'.taken
    <2>1. user.left - n \in 0 .. MaxAppend /\ user.taken + n \in 0 .. MaxAppend
      BY <1>4, CallFacts
    <2>2. CASE offset[k] = 0
      <3>1. n = FrameSize[k]
        BY <1>2, <2>2
      <3>2. user' = [user EXCEPT !.pc = "append", !.left = @ - FrameSize[k],
                                 !.taken = @ + FrameSize[k], !.data = @ + FrameSize[k]]
        BY <1>1, <2>2 DEF Pushed
      <3>3. user' = [pc |-> "append", key |-> k, left |-> user.left - n,
                     taken |-> user.taken + n, data |-> user.taken + n]
        BY <1>1, <1>3, <1>4, <3>1, <3>2 DEF Calls
      <3> QED
        BY <2>1, <3>3 DEF Calls
    <2>3. CASE offset[k] # 0
      <3>1. n = 0 /\ user' = [user EXCEPT !.pc = "append"]
        BY <1>1, <1>2, <2>3 DEF Pushed
      <3>2. user.left - n = user.left /\ user.taken + n = user.taken
        BY <3>1, CallFacts
      <3> QED
        BY <1>1, <1>3, <1>4, <3>1, <3>2 DEF Calls
    <2> QED
      BY <2>2, <2>3
  <1> DEFINE step == /\ process_frames /\ UNCHANGED <<flagVars, poolVars, arrayVars, bytes_written, ret>>
                     /\ Fifo!FifoPush(NextLabel(k), "no data")
                     /\ frames_queued' = [frames_queued EXCEPT ![k] = @ + 1]
                     /\ offset' = [offset EXCEPT ![k] = 0]
                     /\ consumer' = IF consumer = "waiting" THEN "check" ELSE consumer
                     /\ user.pc = "push"
  <1>6. step
    BY <1>1 DEF Pushed, ClosePartial, NotifyNotEmpty
  <1>7. \A j \in Keys :
           /\ offset'[j] = (IF j = k THEN 0 ELSE offset[j])
           /\ frames_queued'[j] = frames_queued[j] + (IF j = k THEN 1 ELSE 0)
    <2>1. /\ frames_queued' = [frames_queued EXCEPT ![k] = frames_queued[k] + 1]
          /\ offset' = [offset EXCEPT ![k] = 0]
      BY <1>6
    <2>2. frames_queued \in [Keys -> Nat] /\ offset \in [Keys -> Nat]
      BY <1>3
    <2> QED
      BY <2>1, <2>2
  <1>8. frames_queued' \in [Keys -> Nat] /\ offset' \in [Keys -> Nat]
    <2>1. /\ frames_queued' = [frames_queued EXCEPT ![k] = frames_queued[k] + 1]
          /\ offset' = [offset EXCEPT ![k] = 0]
      BY <1>6
    <2>2. frames_queued \in [Keys -> Nat] /\ offset \in [Keys -> Nat]
      BY <1>3
    <2> QED
      BY <2>1, <2>2
  <1>9. /\ q' \in Seq(Entries) /\ out' = out
        /\ Len(q) \in Nat /\ Len(q') = Len(q) + 1 /\ q' # <<>>
    BY <1>3, <1>6, PushFacts
  <1>10. Shape'
    BY <1>3, <1>6, <1>8, <1>9 DEF Shape
  <1>11. TypeOK'
    <2>1. \A j \in Keys : offset'[j] \in 0 .. FrameSize[j]
      BY <1>7, CallFacts
    <2>2. ASSUME NEW i \in DOMAIN q' PROVE q'[i].label \in Labels
      <3>1. q'[i] \in Entries
        BY <1>9
      <3> QED
        BY <3>1 DEF Entries
    <2>3. consumer' \in {"loop", "check", "waiting", "pop", "write", "written", "stop",
                         "exit", "ended"}
      BY <1>3, <1>6 DEF TypeOK
    <2> QED
      BY <1>3, <1>5, <1>6, <1>8, <2>1, <2>2, <2>3 DEF TypeOK, Calls
  <1>12. CallState'
    <2>1. user'.left + user'.taken = user.left + user.taken
      BY <1>2, <1>5, CallFacts
    <2> QED
      BY <1>4, <1>5, <1>7, <2>1 DEF CallState, Calls
  <1>13. Stopping' /\ Clean'
    BY <1>3, <1>5, <1>6 DEF Stopping, Clean, Closing
  <1>14. \A j \in Keys :
            /\ Held(j) \in Nat /\ Held(j)' = Held(j)
            /\ Taken(j) \in Nat /\ Taken(j)' = Taken(j) + (IF j = k THEN n ELSE 0)
    <2>1. \A j \in Keys : Held(j) \in Nat /\ Held(j)' = Held(j)
      BY <1>6, <1>9 DEF Held
    <2>2. \A j \in Keys : /\ Taken(j) \in Nat
                          /\ Taken(j)' = Taken(j) + (IF j = k THEN n ELSE 0)
      BY <1>1, <1>2, <1>5, CallFacts DEF Taken
    <2> QED
      BY <2>1, <2>2
  <1>15. (Flowing => Flow)'
    <2> SUFFICES ASSUME Flowing' PROVE Flow'
      OBVIOUS
    <2>1. Flow
      BY <1>6 DEF IInv, Flowing
    <2>2. PICK t : t = q'
      OBVIOUS
    <2>3. /\ Len(q) \in Nat /\ Len(t) = Len(q) + 1
          /\ \A i \in 1 .. Len(q) : t[i] = q[i]
          /\ t[Len(q) + 1].label = [key |-> k, id |-> frames_queued[k]]
          /\ \A j \in Keys : \A m \in 0 .. Len(q) : Before(t, j, m) = Before(q, j, m)
          /\ \A j \in Keys : Before(t, j, Len(t)) =
                                 Before(q, j, Len(q)) + (IF j = k THEN 1 ELSE 0)
      BY <1>3, <1>6, <2>2, PushFacts
    <2>4. \A j, m : Before(q, j, m)' = Before(t, j, m)
      BY <2>2 DEF Before, Of
    <2> HIDE DEF step
    <2>5. ASSUME NEW j \in Keys
          PROVE  bytes_written[j] + Taken(j)' = frames_queued'[j] * FrameSize[j] + offset'[j]
      <3>1. bytes_written[j] + Taken(j) = frames_queued[j] * FrameSize[j] + offset[j]
        BY <2>1 DEF Flow
      <3>2. PICK held, size, bytes, total \in Nat :
               /\ total = frames_queued[j] * FrameSize[j] /\ size = FrameSize[j]
               /\ bytes = bytes_written[j] /\ held = Taken(j)
               /\ (frames_queued[j] + 1) * FrameSize[j] = total + size
        BY <1>14, CallFacts
      <3>3. CASE j = k
        <4>1. /\ frames_queued'[j] = frames_queued[j] + 1 /\ offset'[j] = 0
              /\ Taken(j)' = held + n
          BY <1>7, <1>14, <3>2, <3>3
        <4>2. bytes + held = total + offset[k] /\ offset[k] \in Nat
          BY <3>1, <3>2, <3>3, CallFacts
        <4>3. bytes + (held + n) = (total + size) + 0
          BY <1>2, <1>4, <3>2, <3>3, <4>2
        <4> QED
          BY <3>2, <4>1, <4>3
      <3>4. CASE j # k
        <4>1. Taken(j)' = Taken(j) /\ frames_queued'[j] = frames_queued[j]
              /\ offset'[j] = offset[j]
          BY <1>7, <1>14, <3>4, CallFacts
        <4> QED
          BY <3>1, <4>1
      <3> QED
        BY <3>3, <3>4
    <2>6. ASSUME NEW j \in Keys
          PROVE  frames_queued'[j] = written[j] + Held(j)' + Before(t, j, Len(t))
      <3>1. /\ frames_queued[j] = written[j] + Held(j) + Before(q, j, Len(q))
            /\ Before(q, j, Len(q)) \in Nat /\ written[j] \in Nat
        BY <2>1, <2>3, BeforeType, CallFacts DEF Flow
      <3>2. Held(j)' = Held(j) /\ Held(j) \in Nat
        BY <1>14
      <3>3. CASE j = k
        BY <1>7, <2>3, <3>1, <3>2, <3>3
      <3>4. CASE j # k
        BY <1>7, <2>3, <3>1, <3>2, <3>4
      <3> QED
        BY <3>3, <3>4
    <2>7. ASSUME NEW i \in 1 .. Len(t), NEW j \in Keys, t[i].label.key = j
          PROVE  t[i].label.id = written[j] + Held(j)' + Before(t, j, i - 1)
      <3>1. CASE i \in 1 .. Len(q)
        <4>1. i - 1 \in 0 .. Len(q) /\ t[i] = q[i]
          BY <2>3, <3>1
        <4>2. q[i].label.id = written[j] + Held(j) + Before(q, j, i - 1)
          BY <2>1, <2>7, <3>1, <4>1 DEF Flow
        <4> QED
          BY <1>14, <2>3, <4>1, <4>2
      <3>2. CASE i = Len(q) + 1
        <4>1. i - 1 = Len(q) /\ Len(q) \in 0 .. Len(q)
          BY <2>3, <3>2
        <4>2. j = k /\ t[i].label.id = frames_queued[k]
          <5>1. t[i].label = [key |-> k, id |-> frames_queued[k]]
            BY <2>3, <3>2
          <5> QED
            BY <2>7, <5>1
        <4>3. frames_queued[k] = written[k] + Held(k) + Before(q, k, Len(q))
          BY <2>1 DEF Flow
        <4>4. Before(t, k, Len(q)) = Before(q, k, Len(q)) /\ Held(k)' = Held(k)
          BY <1>14, <2>3, <4>1
        <4> QED
          BY <4>1, <4>2, <4>3, <4>4
      <3> QED
        BY <2>3, <3>1, <3>2
    <2>8. consumer' = "write" => out'.label.id = written'[out'.label.key]
      BY <1>6, <1>9, <2>1 DEF Flow, step
    <2>9. /\ bytes_written' = bytes_written /\ written' = written
          /\ Len(q') = Len(t) /\ \A i : q'[i] = t[i]
      BY <1>6, <2>2 DEF step
    <2> QED
      BY <2>4, <2>5, <2>6, <2>7, <2>8, <2>9 DEF Flow
  <1>16. Limited'
    <2> SUFFICES ASSUME NEW j \in Keys, MaxArrayBytes[j] > 0
                 PROVE  bytes_written[j] + Taken(j)' + (IF user'.key = j THEN user'.left ELSE 0)
                           <= MaxArrayBytes[j]
      BY <1>6 DEF Limited
    <2>1. bytes_written[j] + Taken(j) + (IF user.key = j THEN user.left ELSE 0)
             <= MaxArrayBytes[j]
      BY DEF IInv, Limited
    <2> HIDE DEF step
    <2>2. CASE j = k
      <3>1. Taken(j)' = Taken(j) + n /\ user'.left = user.left - n /\ user'.key = j
            /\ user.key = j
        BY <1>1, <1>5, <1>14, <2>2
      <3> QED
        BY <1>2, <1>14, <2>1, <3>1, CallFacts
    <2>3. CASE j # k
      BY <1>1, <1>5, <1>14, <2>1, <2>3, CallFacts
    <2> QED
      BY <2>2, <2>3
  <1> QED
    BY <1>10, <1>11, <1>12, <1>13, <1>15, <1>16 DEF IInv

\* The frame nobody will take: the consumer has stopped.
LEMMA PushAfterStopKeeps ==
    ASSUME IInv, PushAfterStop
    PROVE  IInv'
  <1> USE DEF PushAfterStop
  <1>1. error /\ consumer = "ended"
    BY DEF IInv, Stopping, Closing
  <1>2. TypeOK /\ Shape /\ user.key \in Keys /\ frames_queued \in [Keys -> Nat]
    BY CallFacts DEF IInv, TypeOK
  <1>3. /\ user' = [user EXCEPT !.pc = "return"] /\ user \in Calls
        /\ frames_queued' = [frames_queued EXCEPT ![user.key] = @ + 1]
        /\ Fifo!FifoPush(NextLabel(user.key), "no data")
    BY DEF IInv, TypeOK, Calls
  <1>4. Shape'
    BY <1>1, <1>2, <1>3, PushFacts DEF Shape
  <1>5. TypeOK'
    <2>1. ASSUME NEW i \in DOMAIN q' PROVE q'[i].label \in Labels
      <3> HIDE DEF PushAfterStop
      <3>1. q'[i] \in Entries
        BY <1>4 DEF Shape
      <3> QED
        BY <3>1 DEF Entries
    <2>2. user' \in Calls
      BY <1>3 DEF Calls
    <2>3. frames_queued' \in [Keys -> Nat]
      <3> HIDE DEF PushAfterStop
      <3>1. frames_queued[user.key] + 1 \in Nat
        BY <1>2
      <3> QED
        BY <1>2, <1>3, <3>1
    <2> QED
      BY <2>1, <2>2, <2>3 DEF IInv, TypeOK, Calls
  <1>6. SameCall /\ user'.pc = "return"
    BY <1>3 DEF SameCall, Calls
  <1>7. CallState' /\ Stopping' /\ Clean' /\ ~Flowing'
    BY <1>1, <1>6 DEF IInv, SameCall, CallState, Stopping, Clean, Closing, Flowing
  <1>8. Limited'
    BY <1>6 DEF IInv, Limited, SameCall, Taken
  <1> QED
    BY <1>4, <1>5, <1>7, <1>8 DEF IInv

LEMMA AppendReturnKeeps ==
    ASSUME IInv, AppendReturn
    PROVE  IInv'
  <1> USE DEF AppendReturn
  <1>1. /\ user' \in Calls
        /\ user'.pc = "idle" /\ user'.key \in Keys /\ user'.left = 0
        /\ user'.taken = 0 /\ user'.data = 0
    <2>1. 0 \in 0 .. MaxAppend /\ Keys # {}
      BY CallFacts, StreamAssumption
    <2> QED
      BY <2>1 DEF Idle, Calls
  <1>2. bytes_written' = [bytes_written EXCEPT ![user.key] = @ + user.taken]
        /\ bytes_written \in [Keys -> Nat] /\ bytes_written' \in [Keys -> Nat]
    BY CallFacts DEF IInv, TypeOK
  <1>3. \A k \in Keys : /\ Taken(k)' = 0 /\ Held(k)' = Held(k)
                        /\ bytes_written'[k] = bytes_written[k] + Taken(k)
    BY <1>1, <1>2, CallFacts DEF Taken, Held
  <1>4. TypeOK'
    BY <1>1, <1>2 DEF IInv, TypeOK, Calls
  <1>5. Shape' /\ CallState' /\ Stopping' /\ Clean'
    BY <1>1, CallFacts DEF IInv, Shape, CallState, Stopping, Clean, Closing
  <1>6. (Flowing => Flow)'
    <2> SUFFICES ASSUME Flowing' PROVE Flow'
      OBVIOUS
    <2>1. Flow
      BY DEF IInv, Flowing
    <2>2. \A k \in Keys : bytes_written'[k] \in Nat /\ bytes_written'[k] + Taken(k)' =
                             bytes_written[k] + Taken(k)
      BY <1>2, <1>3
    <2> QED
      BY <1>3, <2>1, <2>2, QueueSame DEF Flow
  <1>7. Limited'
    <2> SUFFICES ASSUME NEW k \in Keys, MaxArrayBytes[k] > 0
                 PROVE  bytes_written'[k] + Taken(k)' + (IF user'.key = k THEN user'.left ELSE 0)
                           <= MaxArrayBytes[k]
      BY DEF Limited
    <2>1. bytes_written[k] + Taken(k) + (IF user.key = k THEN user.left ELSE 0)
             <= MaxArrayBytes[k]
      BY DEF IInv, Limited
    <2>2. Taken(k) \in Nat
      BY CallFacts DEF Taken
    <2> QED
      BY <1>1, <1>3, <2>1, <2>2, CallFacts
  <1> QED
    BY <1>4, <1>5, <1>6, <1>7 DEF IInv
-----------------------------------------------------------------------------
(* The consumer *)

\* The frame in front goes from the queue into the consumer's hands.
LEMMA ConsumerPopKeeps ==
    ASSUME IInv, ConsumerPop
    PROVE  IInv'
  <1>1. /\ consumer = "pop" /\ consumer' = "write" /\ Fifo!FifoPop
        /\ UNCHANGED <<flagVars, poolVars, outputVars, arrayVars, user, ret>>
    BY DEF ConsumerPop
  <1>2. Shape
    BY DEF IInv
  <1>3. /\ q' \in Seq(Entries) /\ Len(q') \in Nat /\ Len(q) = Len(q') + 1
        /\ out' = q[1] /\ out' \in Entries
        /\ \A i \in 1 .. Len(q') : q'[i] = q[i + 1]
        /\ \A j \in Keys : Before(q, j, 0) = 0
        /\ \A j \in Keys : \A n \in 0 .. Len(q') :
              /\ Before(q', j, n) \in Nat
              /\ Before(q, j, n + 1) =
                    Before(q', j, n) + (IF out'.label.key = j THEN 1 ELSE 0)
    BY <1>1, <1>2, PopFacts
  <1>4. out'.label \in Labels /\ out'.label.key \in Keys
    BY <1>3 DEF Entries, Labels
  <1>5. Shape'
    BY <1>1, <1>2, <1>3, <1>4 DEF Shape
  <1>6. TypeOK'
    <2>1. ASSUME NEW i \in DOMAIN q' PROVE q'[i].label \in Labels
      <3>1. q'[i] \in Entries
        BY <1>3
      <3> QED
        BY <3>1 DEF Entries
    <2> QED
      BY <1>1, <2>1 DEF IInv, TypeOK
  <1>7. CallState' /\ Stopping' /\ Clean' /\ Limited'
    BY <1>1 DEF IInv, CallState, Stopping, Clean, Closing, Limited, Taken
  <1>8. (Flowing => Flow)'
    <2>1. Flow
      BY <1>1 DEF IInv, Flowing
    <2>2. \A j \in Keys : /\ Taken(j)' = Taken(j) /\ Held(j) = 0
                          /\ Held(j)' = IF out'.label.key = j THEN 1 ELSE 0
      BY <1>1 DEF Taken, Held
    <2>3. PICK t, o : t = q' /\ o = out'
      OBVIOUS
    <2>4. \A j, m : Before(q, j, m)' = Before(t, j, m)
      BY <2>3 DEF Before, Of
    <2>5. ASSUME NEW j \in Keys
          PROVE  frames_queued[j] = written[j] + Held(j)' + Before(t, j, Len(t))
      <3>1. Before(q, j, Len(q)) = Before(t, j, Len(t)) + Held(j)'
            /\ Before(t, j, Len(t)) \in Nat /\ Held(j)' \in Nat
        BY <1>3, <2>2, <2>3
      <3>2. frames_queued[j] = written[j] + 0 + Before(q, j, Len(q)) /\ written[j] \in Nat
        BY <2>1, <2>2, CallFacts DEF Flow
      <3> QED
        BY <3>1, <3>2
    <2>6. ASSUME NEW i \in 1 .. Len(t), NEW j \in Keys, t[i].label.key = j
          PROVE  t[i].label.id = written[j] + Held(j)' + Before(t, j, i - 1)
      <3>1. i + 1 \in 1 .. Len(q) /\ t[i] = q[i + 1] /\ i - 1 \in 0 .. Len(q')
            /\ (i + 1) - 1 = i /\ (i - 1) + 1 = i
        <4>1. i \in 1 .. Len(q') /\ t[i] = q[i + 1]
          BY <1>3, <2>3
        <4>2. Len(q') \in Nat /\ Len(q) = Len(q') + 1
          BY <1>3
        <4> QED
          BY <4>1, <4>2
      <3>2. q[i + 1].label.id = written[j] + 0 + Before(q, j, i)
        <4>1. \A n \in 1 .. Len(q) : \A k \in Keys :
                 q[n].label.key = k => q[n].label.id = written[k] + Held(k) + Before(q, k, n - 1)
          BY <2>1 DEF Flow
        <4>2. PICK n \in 1 .. Len(q) : n = i + 1 /\ n - 1 = i /\ t[i] = q[n]
          BY <3>1
        <4>3. q[n].label.key = j
          BY <2>6, <4>2
        <4>4. q[n].label.id = written[j] + Held(j) + Before(q, j, n - 1)
          BY <4>1, <4>3
        <4> QED
          BY <2>2, <4>2, <4>4
      <3>3. Before(q, j, i) = Before(t, j, i - 1) + Held(j)' /\ Before(t, j, i - 1) \in Nat
            /\ Held(j)' \in Nat
        <4>1. \A k \in Keys, n \in 0 .. Len(t) :
                 Before(q, k, n + 1) = Before(t, k, n) + IF o.label.key = k THEN 1 ELSE 0
          BY <1>3, <2>3
        <4>2. \A k \in Keys, n \in 0 .. Len(t) : Before(t, k, n) \in Nat
          BY <1>3, <2>3
        <4>3. PICK n \in 0 .. Len(t) : n = i - 1 /\ n + 1 = i
          BY <2>3, <3>1
        <4>4. Held(j)' = (IF o.label.key = j THEN 1 ELSE 0) /\ Held(j)' \in Nat
          BY <2>2, <2>3
        <4> QED
          BY <4>1, <4>2, <4>3, <4>4
      <3>4. written[j] \in Nat /\ t[i].label.id = q[i + 1].label.id
        BY <3>1, CallFacts
      <3> QED
        BY <3>1, <3>2, <3>3, <3>4
    <2>7. o.label.id = written[o.label.key]
      <3>1. 1 \in 1 .. Len(q) /\ 1 - 1 = 0
        BY <1>3
      <3>2. o = q[1] /\ o.label.key \in Keys
        BY <1>3, <1>4, <2>3
      <3>3. q[1].label.id = written[o.label.key] + 0 + 0
        BY <1>3, <2>1, <2>2, <3>1, <3>2 DEF Flow
      <3> QED
        BY <3>2, <3>3, CallFacts
    <2> QED
      BY <1>1, <2>1, <2>2, <2>3, <2>4, <2>5, <2>6, <2>7 DEF Flow
  <1> QED
    BY <1>5, <1>6, <1>7, <1>8 DEF IInv

\* The frame in the consumer's hands goes into its array.
LEMMA ConsumerWriteKeeps ==
    ASSUME IInv, ConsumerWrite
    PROVE  IInv'
  <1>1. PICK k : k = out.label.key
    OBVIOUS
  <1>2. /\ consumer = "write" /\ consumer' = "written"
        /\ written' = [written EXCEPT ![k] = @ + 1]
        /\ jobs' \in IF accepting THEN jobs .. MaxJobs ELSE {jobs}
        /\ UNCHANGED <<queueVars, flagVars, accepting, outputVars, finalized, user, ret>>
    BY <1>1 DEF ConsumerWrite
  <1>3. k \in Keys /\ written \in [Keys -> Nat]
    BY <1>1, <1>2 DEF IInv, Shape, TypeOK, Labels
  <1>4. /\ written' \in [Keys -> Nat]
        /\ \A j \in Keys : written'[j] = written[j] + (IF j = k THEN 1 ELSE 0)
    <2>1. written' = [written EXCEPT ![k] = written[k] + 1]
      BY <1>2
    <2> QED
      BY <1>3, <2>1
  <1>5. TypeOK'
    <2>1. jobs' \in 0 .. MaxJobs
      BY <1>2, StreamAssumption DEF IInv, TypeOK
    <2> QED
      BY <1>2, <1>4, <2>1 DEF IInv, TypeOK
  <1>6. Shape' /\ CallState' /\ Stopping' /\ Clean' /\ Limited'
    BY <1>2 DEF IInv, Shape, CallState, Stopping, Clean, Closing, Limited, Taken
  <1>7. \A j \in Keys : /\ Taken(j)' = Taken(j)
                        /\ written'[j] + Held(j)' = written[j] + Held(j)
    BY <1>1, <1>2, <1>3, <1>4 DEF Taken, Held
  <1>8. (Flowing => Flow)'
    <2>1. Flow
      BY <1>2 DEF IInv, Flowing
    <2> QED
      BY <1>2, <1>7, <2>1, QueueSame DEF Flow
  <1> QED
    BY <1>5, <1>6, <1>8 DEF IInv

\* The error path: from here on nothing is promised of the frames.
LEMMA ConsumerFailKeeps ==
    ASSUME IInv, ConsumerFail
    PROVE  IInv'
  <1>1. PICK k : k = out.label.key
    OBVIOUS
  <1>2. /\ consumer = "write" /\ consumer' = "stop" /\ error' = TRUE /\ done' = TRUE
        /\ written' = written \/ written' = [written EXCEPT ![k] = @ + 1]
        /\ UNCHANGED <<queueVars, process_frames, poolVars, outputVars, finalized, user, ret>>
    BY <1>1 DEF ConsumerFail
  <1>3. k \in Keys /\ written \in [Keys -> Nat]
    BY <1>1, <1>2 DEF IInv, Shape, TypeOK, Labels
  <1>4. written' \in [Keys -> Nat]
    <2>1. CASE written' = written
      BY <1>3, <2>1
    <2>2. CASE written' = [written EXCEPT ![k] = written[k] + 1]
      BY <1>3, <2>2
    <2> QED
      BY <1>2, <2>1, <2>2
  <1>5. TypeOK'
    BY <1>2, <1>4 DEF IInv, TypeOK
  <1>6. Shape' /\ CallState' /\ Stopping' /\ Clean' /\ Limited' /\ ~Flowing'
    BY <1>2 DEF IInv, Shape, CallState, Stopping, Clean, Closing, Limited, Taken, Flowing
  <1> QED
    BY <1>5, <1>6 DEF IInv

LEMMA ConsumerStopKeeps ==
    ASSUME IInv, ConsumerStop
    PROVE  IInv'
  <1> USE DEF ConsumerStop
  <1>1. q' = <<>> /\ out' = out /\ q' \in Seq(Entries) /\ DOMAIN q' = {}
    BY EmptySeq DEF Fifo!FifoClear
  <1>2. user' \in Calls /\ SameCall /\ CallState' /\ (Closing' <=> Closing)
    BY NotifyFacts, NotifyKeepsCall DEF IInv
  <1>3. TypeOK'
    BY <1>1, <1>2 DEF IInv, TypeOK, Calls
  <1>4. Shape' /\ Limited'
    BY <1>1, <1>2 DEF IInv, Shape, SameCall, Limited, Taken
  <1>5. ~Flowing' /\ Stopping'
    BY <1>1, <1>2 DEF IInv, Flowing, Stopping
  <1>6. Clean'
    BY NotifyFacts DEF IInv, Clean
  <1> QED
    BY <1>2, <1>3, <1>4, <1>5, <1>6 DEF IInv

LEMMA ConsumerWrittenKeeps ==
    ASSUME IInv, ConsumerWritten
    PROVE  IInv'
  <1> USE DEF ConsumerWritten
  <1>1. user' \in Calls /\ SameCall /\ CallState' /\ (Closing' <=> Closing)
    BY NotifyFacts, NotifyKeepsCall DEF IInv
  <1>2. TypeOK'
    BY <1>1 DEF IInv, TypeOK, Calls
  <1>3. Shape' /\ (Flowing => Flow)' /\ Limited'
    BY <1>1, <1>2, QuietKeeps DEF Flowing
  <1>4. Stopping' /\ Clean'
    BY <1>1, NotifyFacts DEF IInv, Stopping, Clean
  <1> QED
    BY <1>1, <1>2, <1>3, <1>4 DEF IInv

\* No frame is left over when the consumer ends because the stream is closed.
LEMMA ConsumerExitKeeps ==
    ASSUME IInv, ConsumerExit
    PROVE  IInv'
  <1> USE DEF ConsumerExit
  <1>1. Closing /\ q = <<>> /\ q' = q /\ out' = out
    BY DEF IInv, Stopping, Fifo!FifoClear
  <1>2. user' \in Calls /\ SameCall /\ CallState' /\ (Closing' <=> Closing)
    BY NotifyFacts, NotifyKeepsCall DEF IInv
  <1>3. TypeOK'
    BY <1>1, <1>2 DEF IInv, TypeOK, Calls
  <1>4. Shape' /\ (Flowing => Flow)' /\ Limited'
    BY <1>1, <1>2, <1>3, QuietKeeps DEF Flowing
  <1>5. Stopping' /\ Clean'
    BY <1>1, <1>2, NotifyFacts DEF IInv, Stopping, Clean
  <1> QED
    BY <1>2, <1>3, <1>4, <1>5 DEF IInv

LEMMA StutterKeeps ==
    ASSUME IInv, UNCHANGED vars
    PROVE  IInv'
  <1> USE DEF vars
  <1>1. TypeOK'
    BY DEF IInv, TypeOK
  <1>2. SameCall /\ CallState'
    BY DEF IInv, CallState, SameCall
  <1>3. Shape' /\ (Flowing => Flow)' /\ Limited'
    BY <1>1, <1>2, QuietKeeps DEF Flowing
  <1>4. Stopping' /\ Clean'
    BY DEF IInv, Stopping, Clean, Closing
  <1> QED
    BY <1>1, <1>2, <1>3, <1>4 DEF IInv
-----------------------------------------------------------------------------
(* The theorems *)

\* The inductive invariant holds in every state of a stream.
THEOREM Invariant == Spec => []IInv
  <1>1. Init => IInv
    BY InitIInv
  <1>2. IInv /\ [Next]_vars => IInv'
    <2> SUFFICES ASSUME IInv, [Next]_vars
                 PROVE  IInv'
      OBVIOUS
    <2>1. CASE \E k \in Keys, n \in 1 .. MaxAppend : AppendCall(k, n)
      BY <2>1, AppendCallKeeps
    <2>2. CASE AppendStep
      BY <2>2, FillPartialKeeps, BeginPartialKeeps, WholeFrameKeeps, PushedKeeps,
         WaitForSpaceKeeps, PushAfterStopKeeps, AppendReturnKeeps DEF AppendStep
    <2>3. CASE SpuriousWake
      BY <2>3, SpuriousWakeKeeps
    <2>4. CASE Close \/ CloseTimeout
      BY <2>4, CloseKeeps, CloseTimeoutKeeps
    <2>5. CASE CloseStep
      BY <2>5, CloseNotifyKeeps, CloseWaitKeeps, StopPoolKeeps, JoinKeeps, ReportKeeps,
         FinalizeArrayKeeps, WriteGroupsKeeps DEF CloseStep
    <2>6. CASE ConsumerStep
      BY <2>6, ConsumerLoopKeeps, ConsumerCheckKeeps, ConsumerPopKeeps, ConsumerWriteKeeps,
         ConsumerFailKeeps, ConsumerStopKeeps, ConsumerWrittenKeeps, ConsumerExitKeeps
         DEF ConsumerStep
    <2>7. CASE ConsumerTimeout
      BY <2>7, ConsumerTimeoutKeeps
    <2>8. CASE WorkerStep
      BY <2>8, JobEndsKeeps, JobFailsKeeps DEF WorkerStep
    <2>9. CASE Closed \/ UNCHANGED vars
      BY <2>9, StutterKeeps DEF Closed
    <2> QED
      BY <2>1, <2>2, <2>3, <2>4, <2>5, <2>6, <2>7, <2>8, <2>9 DEF Next
  <1> QED
    BY <1>1, <1>2, PTL DEF Spec

\* The type invariant of a stream's members.
THEOREM TypeCorrect == Spec => []TypeOK
  <1>1. IInv => TypeOK
    BY DEF IInv
  <1> QED
    BY <1>1, Invariant, PTL

\* A frame that the consumer has in its hands is one more than its array has,
\* and its bytes are among those append took, which the limit of the array
\* bounds: write_frame does not refuse it.
LEMMA NotRefused ==
    ASSUME IInv, consumer = "write"
    PROVE  ~Refused(out.label)
  <1>1. PICK k \in Keys : k = out.label.key
    BY DEF IInv, Shape, Labels
  <1>2. Flow
    BY DEF IInv, Flowing
  <1>3. out.label.id = written[k]
    BY <1>1, <1>2 DEF Flow
  <1>4. ASSUME MaxArrayBytes[k] > 0
        PROVE  (written[k] + 1) * FrameSize[k] <= MaxArrayBytes[k]
    <2>1. Held(k) = 1 /\ Before(q, k, Len(q)) \in Nat
      BY <1>1, BeforeType, LenProperties DEF Held, IInv, Shape
    <2>2. frames_queued[k] = written[k] + 1 + Before(q, k, Len(q))
      BY <1>2, <2>1 DEF Flow
    <2>3. PICK n, m, s \in Nat : n = written[k] + 1 /\ m = frames_queued[k] /\ s = FrameSize[k]
      BY CallFacts
    <2>4. n <= m
      <3>1. written[k] \in Nat
        BY CallFacts
      <3> QED
        BY <2>1, <2>2, <2>3, <3>1
    <2>5. n * s <= m * s
      BY <2>4
    <2>6. m * s <= bytes_written[k] + Taken(k)
      <3>1. bytes_written[k] + Taken(k) = m * s + offset[k] /\ offset[k] \in Nat
        BY <1>2, <2>3, CallFacts DEF Flow
      <3>2. m * s \in Nat
        OBVIOUS
      <3> QED
        BY <3>1, <3>2
    <2>7. bytes_written[k] + Taken(k) <= MaxArrayBytes[k]
      <3>1. bytes_written[k] + Taken(k) + (IF user.key = k THEN user.left ELSE 0)
               <= MaxArrayBytes[k]
        BY <1>4 DEF IInv, Limited
      <3>2. Taken(k) \in Nat
        BY CallFacts DEF Taken
      <3> QED
        BY <3>1, <3>2, CallFacts
    <2>8. bytes_written[k] + Taken(k) \in Nat /\ n * s \in Nat /\ m * s \in Nat
      BY CallFacts DEF Taken
    <2> QED
      BY <2>3, <2>5, <2>6, <2>7, <2>8, CallFacts
  <1> QED
    BY <1>1, <1>3, <1>4, CallFacts DEF Refused, Exceeds

\* No byte and no frame is lost or counted twice between append and the arrays,
\* append copies every byte of the caller once and in order, and write_frame
\* never has to refuse a frame.
THEOREM AccountingHolds == Spec => []Accounting
  <1>1. IInv => Accounting
    <2> SUFFICES ASSUME IInv PROVE Accounting
      OBVIOUS
    <2>1. ASSUME ~error, NEW k \in Keys
          PROVE  /\ bytes_written[k] + Taken(k) = frames_queued[k] * FrameSize[k] + offset[k]
                 /\ frames_queued[k] = written[k] + Held(k) + QueuedOf(k)
      <3>1. Flow
        BY <2>1 DEF IInv, Flowing
      <3>2. DOMAIN q = 1 .. Len(q)
        BY LenProperties DEF IInv, Shape
      <3>3. QueuedOf(k) = Before(q, k, Len(q))
        BY <3>2 DEF QueuedOf, Before, Of
      <3> QED
        BY <3>1, <3>3 DEF Flow
    <2>2. At("append") /\ user.left > 0 => Source = user.taken
      BY CallFacts DEF IInv, CallState, Source
    <2>3. consumer = "write" => ~Refused(out.label)
      BY NotRefused
    <2> QED
      BY <2>1, <2>2, <2>3 DEF Accounting
  <1> QED
    BY <1>1, Invariant, PTL

\* finalize_array closes the arrays while nothing else is in them, and a close
\* that reports success has finalized every array with every frame queued.
THEOREM ClosesClean == Spec => []CleanClose
  <1>1. IInv => CleanClose
    <2> SUFFICES ASSUME IInv PROVE CleanClose
      OBVIOUS
    <2>1. ASSUME At("closed"), ret = "Success"
          PROVE  ~error /\ finalized = Keys /\ written = frames_queued
      <3>1. ~error /\ finalized = Keys /\ consumer = "ended"
        BY <2>1 DEF IInv, Clean
      <3>2. q = <<>> /\ Len(q) = 0 /\ Flow
        BY <3>1, EmptySeq DEF IInv, Stopping, Flowing
      <3>3. ASSUME NEW k \in Keys PROVE written[k] = frames_queued[k]
        <4>1. Held(k) = 0 /\ Before(q, k, Len(q)) = 0
          BY <3>1, <3>2, BeforeType DEF Held
        <4> QED
          BY <3>2, <4>1, CallFacts DEF Flow
      <3>4. written \in [Keys -> Nat] /\ frames_queued \in [Keys -> Nat]
        BY DEF IInv, TypeOK
      <3> QED
        BY <3>1, <3>3, <3>4
    <2> QED
      BY <2>1 DEF IInv, Clean, CleanClose
  <1> QED
    BY <1>1, Invariant, PTL
=============================================================================
