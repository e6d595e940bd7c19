-------------------------- MODULE FrameQueue_proofs --------------------------
(***************************************************************************)
(* Proofs about the ring buffer of FrameQueue for every number of frames,  *)
(* every set of labels and every frame length, and about its lock-free     *)
(* observers (FrameQueueObservers), each of which makes two loads.         *)
(***************************************************************************)
EXTENDS FrameQueueObservers, SequenceTheorems, TLAPS

\* Positions never go further than one lap: the modulo is one subtraction.
LEMMA ModuloOneLap ==
  ASSUME NEW c \in Nat \ {0}, NEW x \in 0 .. 2 * c - 1
  PROVE  x % c = IF x < c THEN x ELSE x - c
<1>1. CASE x < c
  BY <1>1
<1>2. CASE x >= c
  <2> DEFINE y == x - c
  <2>1. y \in 0 .. c - 1 /\ x = y + c
    BY <1>2
  <2>2. (y + c) % c = y
    BY <2>1
  <2> QED BY <1>2, <2>1, <2>2
<1> QED BY <1>1, <1>2

\* The window between the two positions: how many slots it has and which.
LEMMA WindowFacts ==
  ASSUME write_pos \in Positions, read_pos \in Positions
  PROVE  /\ Size \in 0 .. NumFrames
         /\ Size = 0 <=> read_pos = write_pos
         /\ \A i \in 1 .. NumFrames + 1 :
               Slot[i] = IF read_pos + i - 1 < Capacity
                         THEN read_pos + i - 1
                         ELSE read_pos + i - 1 - Capacity
         /\ \A i \in 1 .. NumFrames + 1 : Slot[i] \in Positions
<1>1. \A i \in 1 .. NumFrames + 1 : read_pos + i - 1 \in 0 .. 2 * Capacity - 1
  BY NumFramesAssumption DEF Positions, Capacity
<1>2. Capacity \in Nat \ {0}
  BY NumFramesAssumption DEF Capacity
<1>3. \A i \in 1 .. NumFrames + 1 :
         Slot[i] = IF read_pos + i - 1 < Capacity
                   THEN read_pos + i - 1
                   ELSE read_pos + i - 1 - Capacity
  <2> SUFFICES ASSUME NEW i \in 1 .. NumFrames + 1
               PROVE  Slot[i] = IF read_pos + i - 1 < Capacity
                                THEN read_pos + i - 1
                                ELSE read_pos + i - 1 - Capacity
    OBVIOUS
  <2> DEFINE x == read_pos + i - 1
  <2>1. x \in 0 .. 2 * Capacity - 1 /\ Slot[i] = x % Capacity
    BY <1>1, NumFramesAssumption DEF Slot, Capacity
  <2> HIDE DEF x
  <2>2. Slot[i] = IF x < Capacity THEN x ELSE x - Capacity
    BY <1>2, <2>1, ModuloOneLap
  <2> QED BY <2>2, NumFramesAssumption DEF x, Positions, Capacity
<1>4. \A i \in 1 .. NumFrames + 1 : Slot[i] \in Positions
  BY <1>3, NumFramesAssumption DEF Positions, Capacity
<1>5. Size \in 0 .. NumFrames /\ (Size = 0 <=> read_pos = write_pos)
  BY NumFramesAssumption DEF Size, Positions, Capacity
<1> QED BY <1>3, <1>4, <1>5

\* The next position, without the modulo.
LEMMA AfterFacts ==
  ASSUME NEW pos \in Positions
  PROVE  /\ After(pos) \in Positions
         /\ After(pos) = IF pos + 1 = Capacity THEN 0 ELSE pos + 1
<1>1. Capacity \in Nat \ {0} /\ pos + 1 \in 0 .. 2 * Capacity - 1
  BY NumFramesAssumption DEF Positions, Capacity
<1> DEFINE x == pos + 1
<1>2. x \in 0 .. 2 * Capacity - 1 /\ After(pos) = x % Capacity
  BY <1>1 DEF After
<1> HIDE DEF x
<1>3. After(pos) = IF x < Capacity THEN x ELSE x - Capacity
  BY <1>1, <1>2, ModuloOneLap
<1> QED BY <1>3, NumFramesAssumption DEF Positions, Capacity, x

\* resize leaves a frame of the length asked for.
LEMMA ResizedType ==
  ASSUME NEW data \in Data, NEW label \in Labels
  PROVE  Resized(data, SizeOf[label]) \in Contents(SizeOf[label])
<1>1. \A i \in DOMAIN data : data[i] \in Bytes
  <2>1. CASE data = <<>>
    BY <2>1
  <2>2. ASSUME NEW l \in Labels, data \in [1 .. SizeOf[l] -> Bytes]
        PROVE  \A i \in DOMAIN data : data[i] \in Bytes
    BY <2>2
  <2> QED BY <2>1, <2>2 DEF Data, Contents
<1> QED BY <1>1, FrameAssumption DEF Resized, Contents

\* Every step keeps the variables in their types: positions stay in the
\* buffer and a slot always holds the bytes of some whole frame, its own or
\* one the consumer swapped into it.
THEOREM TypeCorrect == Spec => []TypeOK
<1>1. Init => TypeOK
  BY NumFramesAssumption
     DEF Init, TypeOK, Positions, Capacity, Frames, Slots, Data
<1>2. TypeOK /\ [Next]_vars => TypeOK'
  <2> SUFFICES ASSUME TypeOK, [Next]_vars PROVE TypeOK'
    OBVIOUS
  <2> USE DEF TypeOK
  <2>1. ASSUME NEW label \in Labels,
               NEW frame \in Contents(SizeOf[label]) \cup {Null},
               Push(label, frame)
        PROVE  TypeOK'
    <3>1. buffer[write_pos].data \in Data
      BY DEF Slots
    <3> DEFINE data == IF frame = Null
                       THEN Resized(buffer[write_pos].data, SizeOf[label])
                       ELSE frame
    <3>2. data \in Data
      BY <3>1, ResizedType DEF Data
    <3>3. buffer' = [buffer EXCEPT ![write_pos] =
                        [label |-> label, data |-> data, ready |-> TRUE]]
      BY <2>1 DEF Push
    <3>4. [label |-> label, data |-> data, ready |-> TRUE] \in Slots
      BY <3>2 DEF Slots
    <3> HIDE DEF data
    <3>5. buffer' \in [Positions -> Slots]
      BY <3>3, <3>4
    <3>6. /\ write_pos' \in Positions
          /\ read_pos' \in Positions
          /\ out' \in Frames
      BY <2>1, AfterFacts DEF Push
    <3> QED BY <3>5, <3>6
  <2>2. CASE Pop
    <3>1. /\ buffer[read_pos].label \in Labels \cup {NoLabel}
          /\ buffer[read_pos].data \in Data
          /\ out.data \in Data
      BY DEF Frames, Slots
    <3> DEFINE emptied == [label |-> buffer[read_pos].label,
                           data  |-> out.data,
                           ready |-> FALSE]
    <3>2. emptied \in Slots /\ buffer' = [buffer EXCEPT ![read_pos] = emptied]
      BY <2>2, <3>1 DEF Slots, Pop
    <3> HIDE DEF emptied
    <3>3. buffer' \in [Positions -> Slots]
      BY <3>2
    <3>4. out' \in Frames
      BY <2>2, <3>1 DEF Pop, Frames
    <3>5. write_pos' \in Positions /\ read_pos' \in Positions
      BY <2>2, AfterFacts DEF Pop
    <3> QED BY <3>3, <3>4, <3>5
  <2>3. CASE Clear
    BY <2>3 DEF Clear
  <2>4. CASE UNCHANGED vars
    BY <2>4 DEF vars
  <2> QED BY <2>1, <2>2, <2>3, <2>4 DEF Next
<1> QED BY <1>1, <1>2, PTL DEF Spec
-----------------------------------------------------------------------------
\* How each step moves the window.
LEMMA PushWindow ==
  ASSUME TypeOK, ~Full, write_pos' = After(write_pos), read_pos' = read_pos
  PROVE  /\ Size < NumFrames
         /\ Size' = Size + 1
         /\ Slot[Size + 1] = write_pos
         /\ \A i \in 1 .. Size : Slot[i] # write_pos
         /\ \A i \in 1 .. NumFrames + 1 : Slot'[i] = Slot[i]
<1>1. write_pos \in Positions /\ read_pos \in Positions
  BY DEF TypeOK
<1>2. After(write_pos) = IF write_pos + 1 = Capacity THEN 0 ELSE write_pos + 1
  BY <1>1, AfterFacts
<1>3. Size < NumFrames /\ Size' = Size + 1 /\ Size \in 0 .. NumFrames
  BY <1>1, <1>2, NumFramesAssumption DEF Full, Size, Positions, Capacity
<1>4. \A i \in 1 .. NumFrames + 1 :
         Slot[i] = IF read_pos + i - 1 < Capacity
                   THEN read_pos + i - 1
                   ELSE read_pos + i - 1 - Capacity
  BY <1>1, WindowFacts
<1>5. Slot[Size + 1] = write_pos
  BY <1>1, <1>3, <1>4, NumFramesAssumption DEF Size, Positions, Capacity
<1>6. \A i \in 1 .. Size : Slot[i] # write_pos
  BY <1>1, <1>3, <1>4, NumFramesAssumption DEF Size, Positions, Capacity
<1>7. \A i \in 1 .. NumFrames + 1 : Slot'[i] = Slot[i]
  BY NumFramesAssumption DEF Slot, Capacity
<1> QED BY <1>3, <1>5, <1>6, <1>7

LEMMA PopWindow ==
  ASSUME TypeOK, ~Empty, read_pos' = After(read_pos), write_pos' = write_pos
  PROVE  /\ Size \in 1 .. NumFrames
         /\ Size' = Size - 1
         /\ Slot[1] = read_pos
         /\ \A i \in 1 .. Size - 1 : Slot'[i] = Slot[i + 1]
         /\ \A i \in 2 .. Size : Slot[i] # read_pos
<1>1. /\ write_pos \in Positions
      /\ read_pos \in Positions
      /\ write_pos' \in Positions
      /\ read_pos' \in Positions
  BY AfterFacts DEF TypeOK
<1>2. After(read_pos) = IF read_pos + 1 = Capacity THEN 0 ELSE read_pos + 1
  BY <1>1, AfterFacts
<1>3. Size \in 1 .. NumFrames /\ Size' = Size - 1
  BY <1>1, <1>2, NumFramesAssumption DEF Empty, Size, Positions, Capacity
<1>4. \A i \in 1 .. NumFrames + 1 :
         Slot[i] = IF read_pos + i - 1 < Capacity
                   THEN read_pos + i - 1
                   ELSE read_pos + i - 1 - Capacity
  BY <1>1, WindowFacts
<1>5. \A i \in 1 .. NumFrames + 1 :
         Slot'[i] = IF read_pos' + i - 1 < Capacity
                    THEN read_pos' + i - 1
                    ELSE read_pos' + i - 1 - Capacity
  <2> SUFFICES ASSUME NEW i \in 1 .. NumFrames + 1
               PROVE  Slot'[i] = IF read_pos' + i - 1 < Capacity
                                 THEN read_pos' + i - 1
                                 ELSE read_pos' + i - 1 - Capacity
    OBVIOUS
  <2> DEFINE x == read_pos' + i - 1
  <2>1. x \in 0 .. 2 * Capacity - 1 /\ Slot'[i] = x % Capacity
    BY <1>1, NumFramesAssumption DEF Slot, Positions, Capacity
  <2> HIDE DEF x
  <2>2. Capacity \in Nat \ {0}
    BY NumFramesAssumption DEF Capacity
  <2>3. Slot'[i] = IF x < Capacity THEN x ELSE x - Capacity
    BY <2>1, <2>2, ModuloOneLap
  <2> QED BY <1>1, <2>3, NumFramesAssumption DEF x, Positions, Capacity
<1>6. Slot[1] = read_pos
  BY <1>1, <1>4, NumFramesAssumption DEF Positions, Capacity
<1>7. \A i \in 1 .. Size - 1 : Slot'[i] = Slot[i + 1]
  BY <1>1, <1>2, <1>3, <1>4, <1>5, NumFramesAssumption
     DEF Positions, Capacity
<1>8. \A i \in 2 .. Size : Slot[i] # read_pos
  BY <1>1, <1>3, <1>4, NumFramesAssumption DEF Positions, Capacity
<1> QED BY <1>3, <1>6, <1>7, <1>8
-----------------------------------------------------------------------------
LEMMA ClearWindow ==
  ASSUME TypeOK, Clear
  PROVE  Size' = 0
BY NumFramesAssumption DEF TypeOK, Clear, Size, Positions, Capacity

\* A slot the consumer may pop is always a slot a push has filled: what clear
\* leaves behind read_pos_ and what pop swaps into a slot is never taken for
\* a frame.
THEOREM WindowAlwaysReady == Spec => []WindowReady
<1>1. Init => WindowReady
  BY DEF Init, WindowReady, Size
<1>2. TypeOK /\ WindowReady /\ [Next]_vars => WindowReady'
  <2> SUFFICES ASSUME TypeOK, WindowReady, [Next]_vars PROVE WindowReady'
    OBVIOUS
  <2>0. write_pos \in Positions /\ read_pos \in Positions
    BY DEF TypeOK
  <2>1. ASSUME NEW label \in Labels,
               NEW frame \in Contents(SizeOf[label]) \cup {Null},
               Push(label, frame)
        PROVE  WindowReady'
    <3>1. /\ Size < NumFrames
          /\ Size' = Size + 1
          /\ Slot[Size + 1] = write_pos
          /\ \A i \in 1 .. Size : Slot[i] # write_pos
          /\ \A i \in 1 .. NumFrames + 1 : Slot'[i] = Slot[i]
      BY <2>1, PushWindow DEF Push
    <3>2. Size \in 0 .. NumFrames /\ \A i \in 1 .. NumFrames + 1 : Slot[i] \in Positions
      BY <2>0, WindowFacts
    <3>3. /\ buffer'[write_pos].ready
          /\ buffer'[write_pos].label = label
          /\ \A pos \in Positions \ {write_pos} : buffer'[pos] = buffer[pos]
      BY <2>0, <2>1 DEF Push, TypeOK
    <3>4. ASSUME NEW i \in 1 .. Size'
          PROVE  buffer'[Slot'[i]].ready /\ buffer'[Slot'[i]].label \in Labels
      <4>1. i \in 1 .. NumFrames + 1 /\ Slot'[i] = Slot[i]
        BY <3>1, <3>2, NumFramesAssumption
      <4>2. CASE i = Size + 1
        BY <3>1, <3>3, <4>1, <4>2
      <4>3. CASE i \in 1 .. Size
        BY <3>1, <3>2, <3>3, <4>1, <4>3 DEF WindowReady
      <4> QED BY <3>1, <3>2, <4>2, <4>3
    <3> QED BY <3>4 DEF WindowReady
  <2>2. CASE Pop
    <3>1. /\ Size \in 1 .. NumFrames
          /\ Size' = Size - 1
          /\ \A i \in 1 .. Size - 1 : Slot'[i] = Slot[i + 1]
          /\ \A i \in 2 .. Size : Slot[i] # read_pos
      BY <2>2, PopWindow DEF Pop, PopRefused
    <3>2. \A i \in 1 .. NumFrames + 1 : Slot[i] \in Positions
      BY <2>0, WindowFacts
    <3>3. \A pos \in Positions \ {read_pos} : buffer'[pos] = buffer[pos]
      BY <2>0, <2>2 DEF Pop, TypeOK
    <3>4. ASSUME NEW i \in 1 .. Size'
          PROVE  buffer'[Slot'[i]].ready /\ buffer'[Slot'[i]].label \in Labels
      <4>1. Slot'[i] = Slot[i + 1] /\ i + 1 \in 2 .. Size
        BY <3>1
      <4>2. buffer'[Slot'[i]] = buffer[Slot[i + 1]]
        BY <3>1, <3>2, <3>3, <4>1, NumFramesAssumption
      <4> QED BY <3>1, <4>1, <4>2 DEF WindowReady
    <3> QED BY <3>4 DEF WindowReady
  <2>3. CASE Clear
    BY <2>3, ClearWindow DEF WindowReady
  <2>4. CASE UNCHANGED vars
    BY <2>4 DEF vars, WindowReady, Size, Slot, Capacity
  <2> QED BY <2>1, <2>2, <2>3, <2>4 DEF Next
<1> QED BY <1>1, <1>2, TypeCorrect, PTL DEF Spec

\* push and pop refuse only when the queue is full, or empty.
THEOREM RefusalsDue == Spec => []RefusedOnlyWhenDue
<1>1. TypeOK /\ WindowReady => RefusedOnlyWhenDue
  <2> SUFFICES ASSUME TypeOK, WindowReady PROVE RefusedOnlyWhenDue
    OBVIOUS
  <2>1. write_pos \in Positions /\ read_pos \in Positions
    BY DEF TypeOK
  <2>2. Size \in 0 .. NumFrames /\ (Size = 0 <=> read_pos = write_pos)
    BY <2>1, WindowFacts
  <2>3. Len(Queued) = Size
    BY <2>2 DEF Queued
  <2>4. Full => Size = NumFrames
    BY <2>1, AfterFacts, NumFramesAssumption DEF Full, Size, Positions, Capacity
  <2>5. PopRefused => Size = 0
    <3>1. Size # 0 => 1 \in 1 .. Size /\ Slot[1] = read_pos
      BY <2>1, <2>2, WindowFacts, NumFramesAssumption DEF Positions, Capacity
    <3> QED BY <2>2, <3>1 DEF PopRefused, Empty, WindowReady
  <2>6. Size = 0 => Queued = <<>>
    BY DEF Queued
  <2> QED BY <2>3, <2>4, <2>5, <2>6 DEF RefusedOnlyWhenDue
<1> QED BY <1>1, TypeCorrect, WindowAlwaysReady, PTL
-----------------------------------------------------------------------------
\* The queue as a sequence: what it is as a function.
LEMMA QueuedFacts ==
  ASSUME TypeOK
  PROVE  /\ Size \in 0 .. NumFrames
         /\ Len(Queued) = Size
         /\ DOMAIN Queued = 1 .. Size
         /\ \A i \in 1 .. Size :
               Queued[i] = [label |-> buffer[Slot[i]].label,
                            data  |-> buffer[Slot[i]].data]
         /\ \A i \in 1 .. Size : Slot[i] \in Positions
         /\ Queued \in Seq(Frames)
<1>1. write_pos \in Positions /\ read_pos \in Positions
  BY DEF TypeOK
<1>2. Size \in 0 .. NumFrames /\ \A i \in 1 .. Size : Slot[i] \in Positions
  BY <1>1, WindowFacts, NumFramesAssumption
<1>3. \A i \in 1 .. Size : [label |-> buffer[Slot[i]].label,
                             data  |-> buffer[Slot[i]].data] \in Frames
  BY <1>2 DEF TypeOK, Slots, Frames
<1> QED BY <1>2, <1>3 DEF Queued

\* A push appends the frame, whatever the slot held before.
LEMMA PushAppends ==
  ASSUME TypeOK,
         NEW label \in Labels,
         NEW frame \in Contents(SizeOf[label]) \cup {Null},
         Push(label, frame)
  PROVE  Fifo!FifoPush(label, frame)
<1> DEFINE data == IF frame = Null
                   THEN Resized(buffer[write_pos].data, SizeOf[label])
                   ELSE frame
<1>0. write_pos \in Positions
  BY DEF TypeOK
<1>1. data \in Contents(SizeOf[label])
  BY <1>0, ResizedType DEF TypeOK, Slots
<1>2. frame # Null => data = frame
  OBVIOUS
<1>3. /\ buffer' = [buffer EXCEPT ![write_pos] =
                        [label |-> label, data |-> data, ready |-> TRUE]]
      /\ out' = out
  BY DEF Push
<1> HIDE DEF data
<1>4. /\ Size < NumFrames
      /\ Size' = Size + 1
      /\ Slot[Size + 1] = write_pos
      /\ \A i \in 1 .. Size : Slot[i] # write_pos
      /\ \A i \in 1 .. NumFrames + 1 : Slot'[i] = Slot[i]
  BY PushWindow DEF Push
<1>5. Size \in 0 .. NumFrames
  BY QueuedFacts
<1>6. \A i \in 1 .. Size : buffer'[Slot'[i]] = buffer[Slot[i]]
  BY <1>0, <1>3, <1>4, <1>5, QueuedFacts, NumFramesAssumption DEF TypeOK
<1>7. buffer'[Slot'[Size + 1]] = [label |-> label, data |-> data, ready |-> TRUE]
  BY <1>0, <1>3, <1>4, <1>5, NumFramesAssumption DEF TypeOK
<1> DEFINE new == [label |-> label, data |-> data]
<1>8. Queued' = Append(Queued, new)
  <2>1. Queued' = [i \in 1 .. Size + 1 |->
                      [label |-> buffer'[Slot'[i]].label,
                       data  |-> buffer'[Slot'[i]].data]]
    BY <1>4 DEF Queued
  <2>2. \A i \in 1 .. Size : Queued'[i] = Queued[i]
    BY <1>5, <1>6, <2>1, QueuedFacts
  <2>3. Queued'[Size + 1] = new
    BY <1>5, <1>7, <2>1
  <2>4. Queued \in Seq(Frames) /\ Len(Queued) = Size /\ new \in Frames
    BY <1>1, QueuedFacts DEF Frames, Data
  <2> HIDE DEF new
  <2>5. \A i \in 1 .. Size + 1 : Queued'[i] \in Frames
    BY <1>5, <2>2, <2>3, <2>4
  <2>6. Queued' \in Seq(Frames) /\ Len(Queued') = Size + 1
    BY <1>5, <2>1, <2>5
  <2>7. /\ Append(Queued, new) \in Seq(Frames)
        /\ Len(Append(Queued, new)) = Size + 1
        /\ \A i \in 1 .. Size : Append(Queued, new)[i] = Queued[i]
        /\ Append(Queued, new)[Size + 1] = new
    BY <2>4, AppendProperties
  <2>8. \A i \in 1 .. Size + 1 : Queued'[i] = Append(Queued, new)[i]
    BY <1>5, <2>2, <2>3, <2>7
  <2> QED BY <2>6, <2>7, <2>8, SeqEqual
<1>9. Len(Queued) < NumFrames
  BY <1>4, QueuedFacts
<1> QED BY <1>1, <1>2, <1>3, <1>8, <1>9 DEF Fifo!FifoPush, Fifo!Contents, Contents

\* A pop hands over the oldest frame and leaves the others.
LEMMA PopTakesHead ==
  ASSUME TypeOK, Pop
  PROVE  Fifo!FifoPop
<1>1. /\ Size \in 1 .. NumFrames
      /\ Size' = Size - 1
      /\ Slot[1] = read_pos
      /\ \A i \in 1 .. Size - 1 : Slot'[i] = Slot[i + 1]
      /\ \A i \in 2 .. Size : Slot[i] # read_pos
  BY PopWindow DEF Pop, PopRefused
<1>2. /\ Queued \in Seq(Frames)
      /\ Len(Queued) = Size
      /\ \A i \in 1 .. Size :
            Queued[i] = [label |-> buffer[Slot[i]].label,
                         data  |-> buffer[Slot[i]].data]
      /\ \A i \in 1 .. Size : Slot[i] \in Positions
  BY QueuedFacts
<1>3. Queued # <<>> /\ out' = Head(Queued)
  BY <1>1, <1>2 DEF Pop
<1>4. \A pos \in Positions \ {read_pos} : buffer'[pos] = buffer[pos]
  BY DEF Pop, TypeOK
<1>5. Queued' = [i \in 1 .. Size - 1 |->
                    [label |-> buffer'[Slot'[i]].label,
                     data  |-> buffer'[Slot'[i]].data]]
  BY <1>1 DEF Queued
<1>6. \A i \in 1 .. Size - 1 : Queued'[i] = Queued[i + 1]
  <2> SUFFICES ASSUME NEW i \in 1 .. Size - 1
               PROVE  Queued'[i] = Queued[i + 1]
    OBVIOUS
  <2>1. i + 1 \in 2 .. Size /\ i + 1 \in 1 .. Size
    BY <1>1
  <2>2. Slot'[i] = Slot[i + 1] /\ Slot[i + 1] \in Positions \ {read_pos}
    BY <1>1, <1>2, <2>1
  <2>3. buffer'[Slot'[i]] = buffer[Slot[i + 1]]
    BY <1>4, <2>2
  <2> QED BY <1>2, <1>5, <2>1, <2>3
<1>7. /\ Tail(Queued) \in Seq(Frames)
      /\ Len(Tail(Queued)) = Size - 1
      /\ \A i \in 1 .. Size - 1 : Tail(Queued)[i] = Queued[i + 1]
  BY <1>2, <1>3, HeadTailProperties
<1>8. Queued' = Tail(Queued)
  <2>1. \A i \in 1 .. Size - 1 : Queued'[i] \in Frames
    <3>1. \A i \in 1 .. Size - 1 : i + 1 \in 1 .. Len(Queued)
      BY <1>1, <1>2
    <3> QED BY <1>2, <1>6, <3>1, ElementOfSeq
  <2>2. Queued' \in Seq(Frames) /\ Len(Queued') = Size - 1
    BY <1>1, <1>5, <2>1
  <2>3. \A i \in 1 .. Size - 1 : Queued'[i] = Tail(Queued)[i]
    BY <1>6, <1>7
  <2> QED BY <1>7, <2>2, <2>3, SeqEqual
<1> QED BY <1>3, <1>8 DEF Fifo!FifoPop

\* The ring buffer implements the bounded FIFO, whatever its capacity.
THEOREM RingIsFifo == Spec => ImplementsFifo
<1>1. Init => Fifo!FifoInit
  BY DEF Init, Fifo!FifoInit, Queued, Size
<1>2. TypeOK /\ [Next]_vars => [Fifo!FifoNext]_<<Queued, out>>
  <2> SUFFICES ASSUME TypeOK, [Next]_vars
               PROVE  [Fifo!FifoNext]_<<Queued, out>>
    OBVIOUS
  <2>1. ASSUME NEW label \in Labels,
               NEW frame \in Contents(SizeOf[label]) \cup {Null},
               Push(label, frame)
        PROVE  Fifo!FifoNext
    BY <2>1, PushAppends DEF Fifo!FifoNext, Fifo!Contents, Contents
  <2>2. CASE Pop
    BY <2>2, PopTakesHead DEF Fifo!FifoNext
  <2>3. CASE Clear
    <3>1. Queued' = <<>>
      BY <2>3, ClearWindow DEF Queued
    <3> QED BY <2>3, <3>1 DEF Clear, Fifo!FifoNext, Fifo!FifoClear
  <2>4. CASE UNCHANGED vars
    BY <2>4 DEF vars, Queued, Size, Slot, Capacity
  <2> QED BY <2>1, <2>2, <2>3, <2>4 DEF Next
<1> QED BY <1>1, <1>2, TypeCorrect, PTL DEF Spec, ImplementsFifo, Fifo!FifoSpec
-----------------------------------------------------------------------------
(* What the two threads may rely on of empty(), full() and size().  What   *)
(* is inductive is what the first load is worth while the other thread     *)
(* goes on: it is the position still, or a position that the other thread  *)
(* has left behind and cannot pass again during the call.                  *)

\* The call in progress, if any, and its first load.
ObservingType ==
    \/ observing = Idle
    \/ observing \in [by : Threads, op : Ops, first : Positions]

\* The consumer's load of read_pos_ and the producer's of write_pos_ are exact:
\* nobody else moves the position.  Of the other's position, a load that says
\* empty or full says so of the queue as it is, which the other thread cannot
\* have left; and what has been pushed since adds to the size.
FirstLoadWorth ==
    LET first == observing.first
    IN  /\ ToldEmpty("consumer") => first = read_pos
        /\ ToldEmpty("producer") => (SaysEmpty(first) => Empty)
        /\ ToldFull("consumer") => (SaysFull(first) => Full)
        /\ ToldFull("producer") => first = write_pos
        /\ ToldSize("consumer") => SaysSize(first) <= Size
        /\ ToldSize("producer") => first = write_pos

OInv == ObservingType /\ FirstLoadWorth
-----------------------------------------------------------------------------
\* What empty, full and the size are of the two positions.
LEMMA SizeFacts ==
    ASSUME TypeOK
    PROVE  /\ Full <=> Size = NumFrames
           /\ Empty <=> Size = 0
           /\ Size \in 0 .. NumFrames
           /\ SaysSize(write_pos) = Size
  <1>1. /\ write_pos \in 0 .. NumFrames /\ read_pos \in 0 .. NumFrames
        /\ NumFrames \in Nat \ {0} /\ Capacity = NumFrames + 1
    BY NumFramesAssumption DEF TypeOK, Positions, Capacity
  <1>2. After(write_pos) = IF write_pos + 1 = Capacity THEN 0 ELSE write_pos + 1
    BY AfterFacts DEF TypeOK
  <1> QED
    BY <1>1, <1>2 DEF Full, Empty, Size, SaysSize

\* Whatever the observers do, the queue takes the steps of a queue.
LEMMA ObserversRefineQueue == ObserversSpec => Spec
  <1>1. ObserversInit => Init
    BY DEF ObserversInit
  <1>2. [ObserversNext]_ovars => [Next]_vars
    BY DEF ObserversNext, ovars, vars, Observe, Answer, ProducerStep, ConsumerStep, Next
  <1> QED
    BY <1>1, <1>2, PTL DEF ObserversSpec, Spec

\* The thread that is not observing pushes: a load of read_pos_ keeps its
\* worth, and so does the consumer's load of write_pos_.
LEMMA ProducerKeeps ==
    ASSUME TypeOK, OInv, ProducerStep
    PROVE  OInv'
  <1>1. PICK label \in Labels :
           \E frame \in Contents(SizeOf[label]) \cup {Null} : Push(label, frame)
    BY DEF ProducerStep
  <1>2. /\ observing.by # "producer" /\ observing' = observing
        /\ ~Full /\ write_pos' = After(write_pos) /\ read_pos' = read_pos
    BY <1>1 DEF ProducerStep, Push
  <1>3. Size < NumFrames /\ Size' = Size + 1
    BY <1>2, PushWindow
  <1>4. Size \in 0 .. NumFrames /\ NumFrames \in Nat
    BY SizeFacts, NumFramesAssumption
  <1>5. ObservingType'
    BY <1>2 DEF OInv, ObservingType, Positions, Capacity
  <1>6. ToldEmpty("consumer")' => (observing.first = read_pos)'
    BY <1>2 DEF OInv, FirstLoadWorth, ToldEmpty
  <1>7. ~(SaysFull(observing.first) /\ ToldFull("consumer"))'
    BY <1>2 DEF OInv, FirstLoadWorth, ToldFull, SaysFull, After, Capacity
  <1>8. ToldSize("consumer")' => (SaysSize(observing.first) <= Size)'
    <2> SUFFICES ASSUME ToldSize("consumer")' PROVE (SaysSize(observing.first) <= Size)'
      OBVIOUS
    <2>1. ToldSize("consumer") /\ observing # Idle
      BY <1>2 DEF ToldSize, Idle
    <2>2. SaysSize(observing.first)' = SaysSize(observing.first)
      BY <1>2 DEF SaysSize, Capacity
    <2>3. SaysSize(observing.first) <= Size
      BY <2>1 DEF OInv, FirstLoadWorth
    <2>4. SaysSize(observing.first) \in Int
      BY <2>1, NumFramesAssumption
         DEF OInv, ObservingType, SaysSize, TypeOK, Positions, Capacity
    <2> QED
      BY <1>3, <1>4, <2>2, <2>3, <2>4
  <1>9. ~ToldEmpty("producer")' /\ ~ToldFull("producer")' /\ ~ToldSize("producer")'
    BY <1>2 DEF ToldEmpty, ToldFull, ToldSize
  <1> QED
    BY <1>5, <1>6, <1>7, <1>8, <1>9 DEF OInv, FirstLoadWorth

\* It pops or clears: a load of write_pos_ keeps its worth, and a load of
\* read_pos_ that meets write_pos_ was made of an empty queue, which it is still.
LEMMA ConsumerKeeps ==
    ASSUME TypeOK, OInv, ConsumerStep
    PROVE  OInv'
  <1>1. /\ observing.by # "consumer" /\ observing' = observing
        /\ write_pos' = write_pos
        /\ Empty => read_pos' = read_pos
    BY DEF ConsumerStep, Pop, PopRefused, Clear, Empty
  <1>2. ObservingType'
    BY <1>1 DEF OInv, ObservingType, Positions, Capacity
  <1>3. ToldEmpty("producer")' => (SaysEmpty(observing.first) => Empty)'
    BY <1>1 DEF OInv, FirstLoadWorth, ToldEmpty, SaysEmpty, Empty
  <1>4. /\ ToldFull("producer")' => (observing.first = write_pos)'
        /\ ToldSize("producer")' => (observing.first = write_pos)'
    BY <1>1 DEF OInv, FirstLoadWorth, ToldFull, ToldSize
  <1>5. ~ToldEmpty("consumer")' /\ ~ToldFull("consumer")' /\ ~ToldSize("consumer")'
    BY <1>1 DEF ToldEmpty, ToldFull, ToldSize
  <1> QED
    BY <1>2, <1>3, <1>4, <1>5 DEF OInv, FirstLoadWorth

\* The first load is made: it is one of the two positions as they are.
LEMMA ObserveKeeps ==
    ASSUME TypeOK, OInv, NEW t \in Threads, NEW op \in Ops, Observe(t, op)
    PROVE  OInv'
  <1>1. /\ observing' = [by |-> t, op |-> op, first |-> FirstLoad(op)]
        /\ UNCHANGED <<write_pos, read_pos>>
    BY DEF Observe, vars
  <1>2. ObservingType'
    BY <1>1 DEF ObservingType, FirstLoad, TypeOK, Positions, Capacity
  <1>3. op = "empty" => FirstLoad(op) = read_pos
    BY DEF FirstLoad
  <1>4. op # "empty" => FirstLoad(op) = write_pos
    BY DEF FirstLoad
  <1>5. SaysSize(write_pos) = Size /\ Size \in Int
    BY SizeFacts
  <1>6. /\ (ToldEmpty("consumer") => observing.first = read_pos)'
        /\ (ToldEmpty("producer") => (SaysEmpty(observing.first) => Empty))'
    BY <1>1, <1>3 DEF ToldEmpty, SaysEmpty, Empty
  <1>7. /\ (ToldFull("consumer") => (SaysFull(observing.first) => Full))'
        /\ (ToldFull("producer") => observing.first = write_pos)'
    BY <1>1, <1>4 DEF ToldFull, SaysFull, Full, After, Capacity
  <1>8. ToldSize("producer")' => (observing.first = write_pos)'
    BY <1>1, <1>4 DEF ToldSize
  <1>9. ToldSize("consumer")' => (SaysSize(observing.first) <= Size)'
    <2> SUFFICES ASSUME ToldSize("consumer")' PROVE (SaysSize(observing.first) <= Size)'
      OBVIOUS
    <2>1. observing'.first = write_pos
      BY <1>1, <1>4 DEF ToldSize
    <2>2. SaysSize(observing.first)' = SaysSize(write_pos) /\ Size' = Size
      BY <1>1, <2>1 DEF SaysSize, Size, Capacity
    <2> QED
      BY <1>5, <2>2
  <1> QED
    BY <1>2, <1>6, <1>7, <1>8, <1>9 DEF OInv, FirstLoadWorth

\* What the observers rely on holds of every reachable state.
THEOREM ObserversInvariant == ObserversSpec => []OInv
  <1>1. ObserversInit => OInv
    BY DEF ObserversInit, OInv, ObservingType, FirstLoadWorth, Idle, ToldEmpty, ToldFull,
       ToldSize
  <1>2. ASSUME TypeOK, OInv, [ObserversNext]_ovars PROVE OInv'
    <2>1. CASE \E t \in Threads, op \in Ops : Observe(t, op)
      BY <1>2, <2>1, ObserveKeeps
    <2>2. CASE Answer
      BY <2>2 DEF Answer, OInv, ObservingType, FirstLoadWorth, Idle, ToldEmpty, ToldFull,
         ToldSize
    <2>3. CASE ProducerStep \/ ConsumerStep
      BY <1>2, <2>3, ProducerKeeps, ConsumerKeeps
    <2>4. CASE UNCHANGED ovars
      BY <1>2, <2>4 DEF ovars, OInv, ObservingType, FirstLoadWorth, ToldEmpty, ToldFull,
         ToldSize, SaysEmpty, SaysFull, SaysSize, Empty, Full, Size, After, Positions, Capacity
    <2> QED
      BY <1>2, <2>1, <2>2, <2>3, <2>4 DEF ObserversNext
  <1> QED
    BY <1>1, <1>2, ObserversRefineQueue, TypeCorrect, PTL DEF ObserversSpec

\* append, process_frame_queue_ and finalize_frame_queue_ may rely on what the
\* observers tell them: exactly where nobody else moves the position, and in
\* one direction where somebody does.
THEOREM ObserversTellTheTruth == ObserversSpec => []ObserversHonest
  <1>1. ASSUME TypeOK, OInv PROVE ObserversHonest
    <2> DEFINE first == observing.first
    <2>1. /\ Full <=> Len(Queued) = NumFrames
          /\ Empty <=> Len(Queued) = 0
          /\ Len(Queued) = Size
          /\ SaysSize(write_pos) = Size
          /\ Queued = <<>> <=> Len(Queued) = 0
      <3>1. Len(Queued) = Size /\ DOMAIN Queued = 1 .. Size
        BY <1>1, QueuedFacts
      <3>2. Queued = <<>> <=> Size = 0
        BY <1>1, <3>1, QueuedFacts, SizeFacts, EmptySeq
      <3> QED
        BY <1>1, <3>1, <3>2, SizeFacts
    <2>2. ToldEmpty("consumer") => (SaysEmpty(first) <=> Queued = <<>>)
      BY <1>1, <2>1 DEF OInv, FirstLoadWorth, SaysEmpty, Empty
    <2>3. ToldFull("producer") => (SaysFull(first) <=> Len(Queued) = NumFrames)
      BY <1>1, <2>1 DEF OInv, FirstLoadWorth, SaysFull, Full
    <2>4. ToldSize("producer") => SaysSize(first) = Len(Queued)
      BY <1>1, <2>1 DEF OInv, FirstLoadWorth
    <2>5. ToldSize("consumer") => SaysSize(first) <= Len(Queued)
      BY <1>1, <2>1 DEF OInv, FirstLoadWorth
    <2>6. /\ ToldEmpty("producer") => (SaysEmpty(first) => Queued = <<>>)
          /\ ToldFull("consumer") => (SaysFull(first) => Len(Queued) = NumFrames)
      BY <1>1, <2>1 DEF OInv, FirstLoadWorth
    <2> QED
      BY <2>2, <2>3, <2>4, <2>5, <2>6 DEF ObserversHonest
  <1> QED
    BY <1>1, ObserversInvariant, ObserversRefineQueue, TypeCorrect, PTL
=============================================================================
