---------------------------- MODULE S3Sink_proofs ----------------------------
(***************************************************************************)
(* Proofs about S3Sink for any sinks, any writes to them, any number of    *)
(* them at once, any size of a part and of the pool.                       *)
(*                                                                         *)
(* The invariant has two layers.  Base is said of every sink, whoever is   *)
(* inside its write: what types its members have, that connections are     *)
(* lost to requests that throw and to nothing else, and that the table and *)
(* the flush wait for the chunks.  SinkInv is said of the sinks whose      *)
(* writes came one at a time so far.  Its heart is where a byte that was   *)
(* copied is: in a part, at its offset, if it was flushed, and otherwise   *)
(* in the buffer, as far behind the flushed bytes as in the object         *)
(* (Stored).  The ranges of the writes are disjoint, so a write never      *)
(* copies over another one's bytes, and the table, whose range is the      *)
(* last, leaves the buffer filled to the end of the object.  Every step of *)
(* this argument is lost where two calls overlap: the bytes flushed are no *)
(* longer those that were buffered when the offset was taken from them.    *)
(***************************************************************************)
EXTENDS S3Sink, FiniteSetTheorems, SequenceTheorems, TLAPS

OwnerAt == {"new", "exists", "idle", "part", "complete", "put", "gone"}
WriterAt == {"idle", "copy", "flush", "create", "part", "corrupt"}
Links == {"none", "asleep", "holds"}
Results == {"todo", "ok", "failed"}

GlobalTypes ==
    /\ buffered \in [Sinks -> Nat] /\ flushed \in [Sinks -> Nat]
    /\ DOMAIN part_buffer = Sinks /\ DOMAIN parts = Sinks /\ DOMAIN object = Sinks
    /\ DOMAIN pc = Sinks /\ DOMAIN left = Sinks /\ DOMAIN result = Sinks
    /\ DOMAIN tries = Sinks /\ DOMAIN begun = Sinks /\ DOMAIN conn = Sinks
    /\ upload \in [Sinks -> {"none", "asked", "without id", "open"}]
    /\ outcome \in [Sinks -> {"open", "ok", "failed"}]
    /\ idle \in Nat /\ thrown \in Nat
    /\ \A u \in Sinks : conn[u] \in [Callers(u) -> Links]
    /\ lost \subseteq Sinks /\ overlapped \subseteq Sinks

BufferTypes(s) ==
    /\ part_buffer[s] \in [1 .. PartSize -> Bytes(s)]
    /\ parts[s] \in Seq(Bytes(s)) /\ object[s] \in Seq(Bytes(s))

CallerTypes(s) ==
    /\ pc[s] \in [Callers(s) -> OwnerAt \cup WriterAt] /\ pc[s][0] \in OwnerAt
    /\ \A i \in Writes(s) : pc[s][i] \in WriterAt
    /\ left[s] \in [Callers(s) -> Nat] /\ \A i \in Writes(s) : left[s][i] <= Plan[s][i]
    /\ result[s] \in [Writes(s) -> Results] /\ tries[s] \in [Writes(s) -> Nat]
    /\ \A i \in Writes(s) : tries[s][i] <= Tries(s, i)
    /\ begun[s] \in Seq(Writes(s))

\* A write may be under way: the sink is there, the job's write is to be done,
\* and for the table all others are.
Open(s, i) ==
    /\ pc[s][0] = "idle" /\ result[s][i] = "todo"
    /\ i = Table(s) => \A j \in 1 .. Table(s) - 1 : result[s][j] # "todo"

Control(s) ==
    /\ \A i \in Writes(s) : pc[s][i] # "idle" => Open(s, i)
    /\ \A i \in Writes(s) : result[s][i] = "todo" => tries[s][i] < Tries(s, i)
    /\ result[s][Table(s)] # "todo" => \A j \in Writes(s) : result[s][j] # "todo"

\* Who holds a connection, or waits for one, has a request to make.
Connected == \A s \in Sinks : \A i \in Callers(s) : conn[s][i] # "none" => pc[s][i] \in Requests

PoolInv == GlobalTypes /\ Connected /\ ConnectionsAccounted /\ IsFiniteSet(Holders)

Base == PoolInv /\ \A s \in Sinks : BufferTypes(s) /\ CallerTypes(s) /\ Control(s)

\* Of a sink whose writes come one at a time: the caller that is inside, or the
\* owner, where it is, and what is left of its write.
Cur(s) == IF Writing(s) = {} THEN 0 ELSE CHOOSE i \in Writes(s) : pc[s][i] # "idle"
At(s) == pc[s][Cur(s)]
Left(s) == left[s][Cur(s)]
OneCaller(s) == \A i, j \in Writes(s) : pc[s][i] # "idle" /\ pc[s][j] # "idle" => i = j

End(s, i) == Offset[s][i] + Plan[s][i]
Working(s) == Cur(s) # 0
Flushing(s) == At(s) \in {"put", "complete"} \/ (At(s) = "part" /\ ~Working(s))
\* The offset behind the last byte that was copied.
Reached(s) == flushed[s] + buffered[s]

\* How far the write in progress has come.
CallState(s) ==
    Working(s) => /\ At(s) = "copy" => Left(s) > 0
                  /\ Reached(s) = End(s, Cur(s)) - Left(s)

\* What the place of the caller says of the buffer and the upload.
Stage(s) ==
    /\ At(s) \notin {"copy", "corrupt"} => buffered[s] <= PartSize
    /\ At(s) \in {"flush", "create", "part"} /\ Working(s) => buffered[s] = PartSize
    /\ At(s) = "complete" => buffered[s] = 0
    /\ At(s) \in {"part", "complete"} => upload[s] \notin {"none", "asked"}
    /\ At(s) = "put" => upload[s] = "none"
    /\ At(s) = "create" <=> upload[s] = "asked"
    /\ upload[s] \in {"none", "asked"} /\ outcome[s] = "open" =>
          flushed[s] = 0 /\ parts[s] = <<>>
    /\ s \in lost => upload[s] \notin {"none", "asked"}
    /\ outcome[s] # "open" => At(s) = "gone"
    /\ Flushing(s) => result[s][Table(s)] # "todo"

\* The table is written last, and with it the object ends.
TableLast(s) ==
    /\ result[s][Table(s)] = "todo" /\ Cur(s) # Table(s) =>
          flushed[s] <= Offset[s][Table(s)]
    /\ result[s][Table(s)] = "ok" /\ outcome[s] = "open" => Reached(s) = End(s, Table(s))
    /\ result[s][Table(s)] = "failed" => s \in lost \/ upload[s] = "without id"

\* A write that is acknowledged did not fill the buffer.
Inside(s) == \A j \in Writes(s) : result[s][j] = "ok" => End(s, j) < flushed[s] + PartSize

\* A write that begins in a part that was lost can only fail.
Doomed(s, j) ==
    \/ result[s][j] = "failed"
    \/ result[s][j] = "todo" /\ Cur(s) # j /\ Offset[s][j] < flushed[s]
LossIsSeen(s) == s \in lost /\ outcome[s] # "failed" => \E j \in Writes(s) : Doomed(s, j)

Sound(s) == s \notin lost /\ upload[s] # "without id"

\* The byte of an offset is where it belongs, in a part or in the buffer.
Stored(s, p) ==
    \/ p < flushed[s] /\ parts[s][p + 1] = p
    \/ /\ p >= flushed[s] /\ p - flushed[s] < PartSize
       /\ part_buffer[s][p - flushed[s] + 1] = p

Content(s) ==
    Sound(s) /\ outcome[s] = "open" =>
       /\ Len(parts[s]) = flushed[s]
       /\ \A j \in Writes(s) : result[s][j] = "ok" =>
             \A p \in Offset[s][j] .. End(s, j) - 1 : Stored(s, p)
       /\ Working(s) => \A p \in Offset[s][Cur(s)] .. Reached(s) - 1 : Stored(s, p)

\* As long as the writes begin in order they succeed one after the other, and
\* none begins more than a buffer ahead.
Orderly(s) ==
    InOrder(s) /\ Sound(s) =>
       /\ \A j \in Writes(s) :
             /\ j <= Len(begun[s]) /\ Cur(s) # j => result[s][j] = "ok"
             /\ j > Len(begun[s]) => /\ result[s][j] = "todo" /\ tries[s][j] = 0
                                     /\ flushed[s] <= Offset[s][j]
       /\ Working(s) => Cur(s) = Len(begun[s])
       /\ At(s) = "copy" => buffered[s] <= PartSize
       /\ At(s) # "corrupt"

\* What a successful flush leaves.
Final(s) ==
    outcome[s] = "ok" =>
       /\ \A j \in Writes(s) : result[s][j] # "todo"
       /\ s \notin lost => \A j \in Writes(s) : result[s][j] = "ok" => Landed(s, j)

SinkInv(s) == /\ OneCaller(s) /\ CallState(s) /\ Stage(s) /\ TableLast(s) /\ Inside(s)
              /\ LossIsSeen(s) /\ Content(s) /\ Orderly(s) /\ Final(s)

IInv == Base /\ \A s \in Sinks \ overlapped : SinkInv(s)
-----------------------------------------------------------------------------
(* Facts about the plan and about what a step leaves alone *)

LEMMA PlanFacts ==
    ASSUME NEW s \in Sinks
    PROVE  /\ Table(s) \in Nat \ {0} /\ Writes(s) = 1 .. Table(s) /\ Table(s) \in Writes(s)
           /\ \A i \in Writes(s) : /\ Plan[s][i] \in Nat \ {0} /\ Offset[s][i] \in Nat
                                   /\ End(s, i) \in Nat /\ Offset[s][i] < End(s, i)
                                   /\ End(s, i) <= End(s, Table(s))
                                   /\ Tries(s, i) \in Nat \ {0}
           /\ \A i, j \in Writes(s) : /\ i < j => End(s, i) <= Offset[s][j]
                                      /\ j = i + 1 => End(s, i) = Offset[s][j]
           /\ Offset[s][1] = 0
           /\ PartSize \in Nat \ {0} /\ MaxTries \in Nat \ {0} /\ NConnections \in Nat \ {0}
  <1>1. Plan[s] \in Seq(Nat \ {0}) /\ Plan[s] # <<>> /\ Table(s) = Len(Plan[s])
    BY S3SinkAssumption DEF Table
  <1>2. Table(s) \in Nat \ {0} /\ Writes(s) = 1 .. Table(s) /\ Table(s) \in Writes(s)
        /\ \A i \in Writes(s) : Plan[s][i] \in Nat \ {0}
    BY <1>1, LenProperties, EmptySeq DEF Writes
  <1>3. /\ \A i \in Writes(s) : Offset[s][i] \in Nat
        /\ Offset[s][1] = 0
        /\ \A i, j \in Writes(s) : /\ i < j => End(s, i) <= Offset[s][j]
                                   /\ j = i + 1 => End(s, i) = Offset[s][j]
    BY S3SinkAssumption DEF Writes, End
  <1>4. \A i \in Writes(s) : End(s, i) \in Nat /\ Offset[s][i] < End(s, i)
    BY <1>2, <1>3 DEF End
  <1>5. \A i \in Writes(s) : End(s, i) <= End(s, Table(s))
    <2> SUFFICES ASSUME NEW i \in Writes(s) PROVE End(s, i) <= End(s, Table(s))
      OBVIOUS
    <2>1. CASE i = Table(s)
      BY <1>4, <2>1
    <2>2. CASE i < Table(s)
      <3>1. End(s, i) <= Offset[s][Table(s)] /\ Offset[s][Table(s)] < End(s, Table(s))
        BY <1>2, <1>3, <1>4, <2>2
      <3> QED
        BY <1>2, <1>3, <1>4, <3>1
    <2> QED
      BY <1>2, <2>1, <2>2
  <1>6. PartSize \in Nat \ {0} /\ MaxTries \in Nat \ {0} /\ NConnections \in Nat \ {0}
    BY S3SinkAssumption
  <1>7. \A i \in Writes(s) : Tries(s, i) \in Nat \ {0}
    BY <1>6 DEF Tries
  <1> QED
    BY <1>2, <1>3, <1>4, <1>5, <1>6, <1>7

\* The numbers of one write.
LEMMA WriteNumbers ==
    ASSUME NEW s \in Sinks, NEW i \in Writes(s)
    PROVE  /\ i \in Nat \ {0} /\ Offset[s][i] \in Nat /\ Plan[s][i] \in Nat \ {0}
           /\ End(s, i) \in Nat /\ End(s, i) = Offset[s][i] + Plan[s][i]
           /\ PartSize \in Nat
  <1>1. Writes(s) = 1 .. Table(s) /\ Table(s) \in Nat
    BY PlanFacts
  <1>2. i \in Nat \ {0}
    BY <1>1
  <1> QED
    BY <1>2, PlanFacts DEF End

LEMMA MinFacts ==
    ASSUME NEW a \in Int, NEW b \in Int
    PROVE  Min({a, b}) = IF a <= b THEN a ELSE b
  <1> DEFINE m == IF a <= b THEN a ELSE b
  <1>1. m \in {a, b} /\ \A y \in {a, b} : m <= y
    OBVIOUS
  <1>2. \A x \in {a, b} : (\A y \in {a, b} : x <= y) => x = m
    OBVIOUS
  <1> HIDE DEF m
  <1>3. Min({a, b}) = m
    BY <1>1, <1>2 DEF Min
  <1> QED
    BY <1>3 DEF m

LEMMA CallerFacts ==
    ASSUME NEW s \in Sinks
    PROVE  /\ Callers(s) = {0} \cup Writes(s) /\ 0 \notin Writes(s)
           /\ 0 \in Callers(s) /\ \A i \in Writes(s) : i \in Callers(s) /\ i # 0
           /\ \A i \in Callers(s) : i # 0 => i \in Writes(s)
  <1>1. Table(s) \in Nat \ {0} /\ Writes(s) = 1 .. Table(s)
    BY PlanFacts
  <1> QED
    BY <1>1 DEF Callers

\* What an update of one caller's entry leaves.
LEMMA Updated ==
    ASSUME NEW f, DOMAIN f = Sinks, NEW s \in Sinks, NEW C, NEW R, f[s] \in [C -> R],
           NEW i \in C, NEW v \in R, NEW g, g = [f EXCEPT ![s][i] = v]
    PROVE  /\ DOMAIN g = Sinks /\ g[s] \in [C -> R] /\ g[s][i] = v
           /\ \A j \in C : j # i => g[s][j] = f[s][j]
           /\ \A u \in Sinks : u # s => g[u] = f[u]
  <1>1. g[s] = [f[s] EXCEPT ![i] = v] /\ DOMAIN g = Sinks
        /\ \A u \in Sinks : u # s => g[u] = f[u]
    OBVIOUS
  <1> QED
    BY <1>1

\* Everything the invariant says of a sink u, save of its connections, is as it
\* was.
Same(u) ==
    /\ part_buffer'[u] = part_buffer[u] /\ buffered'[u] = buffered[u]
    /\ flushed'[u] = flushed[u] /\ upload'[u] = upload[u] /\ parts'[u] = parts[u]
    /\ object'[u] = object[u] /\ pc'[u] = pc[u] /\ left'[u] = left[u]
    /\ result'[u] = result[u] /\ tries'[u] = tries[u] /\ outcome'[u] = outcome[u]
    /\ begun'[u] = begun[u] /\ (u \in lost' <=> u \in lost)
    /\ (u \in overlapped' <=> u \in overlapped)

LEMMA SameBase ==
    ASSUME NEW u \in Sinks, Same(u), BufferTypes(u), CallerTypes(u), Control(u)
    PROVE  BufferTypes(u)' /\ CallerTypes(u)' /\ Control(u)'
  <1>1. BufferTypes(u)' /\ CallerTypes(u)'
    BY DEF Same, BufferTypes, CallerTypes
  <1>2. \A i : Open(u, i)' <=> Open(u, i)
    BY DEF Same, Open
  <1>3. Control(u)'
    BY <1>2 DEF Same, Control
  <1> QED
    BY <1>1, <1>3

LEMMA SameKeeps ==
    ASSUME NEW u \in Sinks, Same(u), SinkInv(u)
    PROVE  SinkInv(u)'
  <1> USE DEF Same
  <1>1. Cur(u)' = Cur(u) /\ At(u)' = At(u) /\ Left(u)' = Left(u)
    <2>1. Cur(u)' = Cur(u)
      BY DEF Cur, Writing
    <2> QED
      BY <2>1 DEF At, Left
  <1>2. Reached(u)' = Reached(u) /\ (Working(u)' <=> Working(u))
        /\ (Sound(u)' <=> Sound(u)) /\ (InOrder(u)' <=> InOrder(u))
        /\ (Flushing(u)' <=> Flushing(u))
    BY <1>1 DEF Reached, Working, Sound, InOrder, Flushing
  <1>3. (\A p : Stored(u, p)' <=> Stored(u, p)) /\ (\A j : Landed(u, j)' <=> Landed(u, j))
        /\ (\A j : Doomed(u, j)' <=> Doomed(u, j))
    BY <1>1 DEF Stored, Landed, Doomed
  <1>4. OneCaller(u)' /\ CallState(u)'
    BY <1>1, <1>2 DEF SinkInv, CallState, OneCaller
  <1>5. Stage(u)'
    BY <1>1, <1>2 DEF SinkInv, Stage
  <1>6. TableLast(u)'
    BY <1>1, <1>2 DEF SinkInv, TableLast
  <1>7. Inside(u)' /\ LossIsSeen(u)'
    BY <1>3 DEF SinkInv, Inside, LossIsSeen
  <1>8. Content(u)'
    BY <1>1, <1>2, <1>3 DEF SinkInv, Content
  <1>9. Orderly(u)' /\ Final(u)'
    BY <1>1, <1>2, <1>3 DEF SinkInv, Orderly, Final
  <1> QED
    BY <1>4, <1>5, <1>6, <1>7, <1>8, <1>9 DEF SinkInv

\* The step of sink s keeps Base when it keeps what is said of the pool and of s.
LEMMA StepKeepsBase ==
    ASSUME Base, NEW s \in Sinks, PoolInv', \A u \in Sinks \ {s} : Same(u),
           BufferTypes(s)', CallerTypes(s)', Control(s)'
    PROVE  Base'
  <1>1. \A u \in Sinks : BufferTypes(u)' /\ CallerTypes(u)' /\ Control(u)'
    BY SameBase DEF Base
  <1> QED
    BY <1>1 DEF Base

LEMMA StepKeeps ==
    ASSUME IInv, NEW s \in Sinks, Base', \A u \in Sinks \ {s} : Same(u),
           s \notin overlapped' => SinkInv(s)'
    PROVE  IInv'
  <1>1. ASSUME NEW u \in Sinks, u \notin overlapped' PROVE SinkInv(u)'
    <2>1. CASE u # s
      <3>1. Same(u) /\ u \notin overlapped
        BY <1>1, <2>1 DEF Same
      <3>2. SinkInv(u)
        BY <3>1 DEF IInv
      <3> QED
        BY <3>1, <3>2, SameKeeps
    <2> QED
      BY <1>1, <2>1
  <1> QED
    BY <1>1 DEF IInv
-----------------------------------------------------------------------------
(* The pool *)

\* A step at which no connection changes hands: who has one, or waits for one,
\* stays where it is.
LEMMA PoolStays ==
    ASSUME PoolInv, GlobalTypes', UNCHANGED <<poolVars, thrown>>,
           \A u \in Sinks : \A j \in Callers(u) : conn[u][j] # "none" => pc'[u][j] = pc[u][j]
    PROVE  PoolInv'
  <1>1. Holders' = Holders
    BY DEF Holders, poolVars
  <1>2. Connected'
    BY DEF PoolInv, Connected, poolVars
  <1> QED
    BY <1>1, <1>2 DEF PoolInv, ConnectionsAccounted, poolVars

\* A caller's connection is no longer with it: back in the pool, or gone with an
\* exception.
Leaves(s, i) ==
    /\ conn[s][i] = "holds" /\ conn'[s][i] = "none"
    /\ \A u \in Sinks : \A j \in Callers(u) :
          ~(u = s /\ j = i) => /\ conn'[u][j] \in {conn[u][j], "none"}
                               /\ conn[u][j] = "holds" => conn'[u][j] = "holds"
    /\ \/ idle' = idle + 1 /\ thrown' = thrown
       \/ idle' = idle /\ thrown' = thrown + 1

LEMMA ConnectionLeft ==
    ASSUME PoolInv, NEW s \in Sinks, NEW i \in Callers(s), Leaves(s, i), GlobalTypes',
           \A u \in Sinks : \A j \in Callers(u) :
              ~(u = s /\ j = i) /\ conn[u][j] # "none" => pc'[u][j] = pc[u][j]
    PROVE  PoolInv'
  <1>1. Holders' = Holders \ {<<s, i>>} /\ <<s, i>> \in Holders
    <2>1. <<s, i>> \in Holders /\ <<s, i>> \notin Holders'
      BY DEF Holders, AllCallers, Leaves
    <2>2. ASSUME NEW u \in Sinks, NEW j \in Callers(u), ~(u = s /\ j = i)
          PROVE  conn'[u][j] = "holds" <=> conn[u][j] = "holds"
      BY <2>2 DEF Leaves
    <2>3. ASSUME NEW c \in AllCallers, c # <<s, i>> PROVE c \in Holders' <=> c \in Holders
      <3>1. PICK u \in Sinks : c \in {u} \X Callers(u)
        BY DEF AllCallers
      <3>2. PICK j \in Callers(u) : c = <<u, j>>
        BY <3>1
      <3> QED
        BY <2>2, <2>3, <3>2 DEF Holders
    <2>4. Holders \subseteq AllCallers /\ Holders' \subseteq AllCallers
      BY DEF Holders, AllCallers
    <2> QED
      BY <2>1, <2>3, <2>4
  <1>2. PICK before, after : before = Holders /\ after = Holders'
    OBVIOUS
  <1>3. IsFiniteSet(before)
    BY <1>2 DEF PoolInv
  <1>4. IsFiniteSet(after) /\ Cardinality(after) = Cardinality(before) - 1
    BY <1>1, <1>2, <1>3, FS_RemoveElement
  <1>5. Cardinality(before) \in Nat
    BY <1>3, FS_CardinalityType
  <1>6. idle + Cardinality(before) + thrown = NConnections /\ idle \in Nat /\ thrown \in Nat
    BY <1>2 DEF PoolInv, ConnectionsAccounted, GlobalTypes
  <1>7. ConnectionsAccounted'
    <2>1. idle' + Cardinality(after) + thrown' = NConnections
      BY <1>4, <1>5, <1>6 DEF Leaves
    <2> QED
      BY <1>2, <2>1 DEF ConnectionsAccounted
  <1>8. Connected'
    BY DEF PoolInv, Connected, Leaves
  <1> QED
    BY <1>2, <1>4, <1>7, <1>8 DEF PoolInv

LEMMA ReturnLeaves ==
    ASSUME GlobalTypes, NEW s \in Sinks, NEW i \in Callers(s), conn[s][i] = "holds",
           ReturnConnection(s, i), thrown' = thrown
    PROVE  /\ Leaves(s, i) /\ idle' \in Nat /\ DOMAIN conn' = Sinks
           /\ \A u \in Sinks : conn'[u] \in [Callers(u) -> Links]
  <1>1. PICK woken \in OneWoken :
           conn' = [u \in Sinks |-> [j \in Callers(u) |->
                      IF <<u, j>> \in woken \cup {<<s, i>>} THEN "none" ELSE conn[u][j]]]
    BY DEF ReturnConnection
  <1>2. \A u \in Sinks : \A j \in Callers(u) : <<u, j>> \in woken => conn[u][j] = "asleep"
    <2>1. \A c \in woken : conn[c[1]][c[2]] = "asleep"
      BY DEF OneWoken, Asleep
    <2> QED
      BY <2>1
  <1>3. \A u \in Sinks : \A j \in Callers(u) :
           conn'[u][j] = IF <<u, j>> \in woken \cup {<<s, i>>} THEN "none" ELSE conn[u][j]
    BY <1>1
  <1>4. \A u \in Sinks : conn'[u] \in [Callers(u) -> Links]
    <2>1. \A u \in Sinks : conn[u] \in [Callers(u) -> Links]
      BY DEF GlobalTypes
    <2>2. ASSUME NEW u \in Sinks PROVE conn'[u] \in [Callers(u) -> Links]
      <3>1. conn'[u] = [j \in Callers(u) |->
                          IF <<u, j>> \in woken \cup {<<s, i>>} THEN "none" ELSE conn[u][j]]
        BY <1>1
      <3> QED
        BY <2>1, <3>1 DEF Links
    <2> QED
      BY <2>2
  <1>5. Leaves(s, i)
    <2>1. conn'[s][i] = "none"
      BY <1>3
    <2>2. idle' = idle + 1
      BY DEF ReturnConnection
    <2>3. ASSUME NEW u \in Sinks, NEW j \in Callers(u), ~(u = s /\ j = i)
          PROVE  /\ conn'[u][j] \in {conn[u][j], "none"}
                 /\ conn[u][j] = "holds" => conn'[u][j] = "holds"
      <3>1. <<u, j>> # <<s, i>>
        BY <2>3
      <3> QED
        BY <1>2, <1>3, <3>1
    <2> QED
      BY <2>1, <2>2, <2>3 DEF Leaves
  <1>6. idle' \in Nat
    <2>1. idle' = idle + 1
      BY DEF ReturnConnection
    <2>2. idle \in Nat
      BY DEF GlobalTypes
    <2> QED
      BY <2>1, <2>2
  <1>7. DOMAIN conn' = Sinks
    BY <1>1
  <1> QED
    BY <1>4, <1>5, <1>6, <1>7

LEMMA DropLeaves ==
    ASSUME GlobalTypes, NEW s \in Sinks, NEW i \in Callers(s), conn[s][i] = "holds",
           DropConnection(s, i)
    PROVE  /\ Leaves(s, i) /\ idle' \in Nat /\ thrown' \in Nat /\ DOMAIN conn' = Sinks
           /\ \A u \in Sinks : conn'[u] \in [Callers(u) -> Links]
  <1>1. /\ conn' = [conn EXCEPT ![s][i] = "none"] /\ thrown' = thrown + 1 /\ idle' = idle
        /\ DOMAIN conn = Sinks /\ \A u \in Sinks : conn[u] \in [Callers(u) -> Links]
        /\ idle \in Nat /\ thrown \in Nat
    BY DEF DropConnection, GlobalTypes
  <1>2. /\ DOMAIN conn' = Sinks /\ conn'[s] \in [Callers(s) -> Links] /\ conn'[s][i] = "none"
        /\ \A j \in Callers(s) : j # i => conn'[s][j] = conn[s][j]
        /\ \A u \in Sinks : u # s => conn'[u] = conn[u]
    <2>1. "none" \in Links
      BY DEF Links
    <2> QED
      BY <1>1, <2>1, Updated
  <1>3. Leaves(s, i)
    BY <1>1, <1>2 DEF Leaves
  <1> QED
    BY <1>1, <1>2, <1>3
-----------------------------------------------------------------------------
(* The initial state *)

LEMMA InitBase == Init => Base
  <1> SUFFICES ASSUME Init PROVE Base
    OBVIOUS
  <1>1. PICK made \in Together :
           pc = [s \in Sinks |-> [i \in Callers(s) |->
                  IF i > 0 THEN "idle" ELSE IF s \in made THEN "new" ELSE "gone"]]
    BY DEF Init
  <1>2. GlobalTypes
    <2>1. NConnections \in Nat
      BY S3SinkAssumption
    <2> QED
      BY <1>1, <2>1 DEF Init, GlobalTypes, Links
  <1>3. \A s \in Sinks : \A i \in Callers(s) : conn[s][i] = "none"
    BY DEF Init
  <1>4. Connected
    BY <1>3 DEF Connected
  <1>5. Holders = {}
    <2>1. ASSUME NEW c \in Holders PROVE FALSE
      <3>1. PICK u \in Sinks : c \in {u} \X Callers(u)
        BY DEF Holders, AllCallers
      <3>2. PICK j \in Callers(u) : c = <<u, j>>
        BY <3>1
      <3>3. conn[u][j] = "holds"
        BY <3>2 DEF Holders
      <3> QED
        BY <1>3, <3>3
    <2> QED
      BY <2>1
  <1>6. ConnectionsAccounted /\ IsFiniteSet(Holders)
    <2>1. IsFiniteSet(Holders) /\ Cardinality(Holders) = 0
      BY <1>5, FS_EmptySet
    <2> QED
      BY <2>1, S3SinkAssumption DEF Init, ConnectionsAccounted
  <1>7. ASSUME NEW s \in Sinks PROVE BufferTypes(s) /\ CallerTypes(s) /\ Control(s)
    <2>1. /\ part_buffer[s] = [b \in 1 .. PartSize |-> Uninitialized]
          /\ parts[s] = <<>> /\ object[s] = <<>>
          /\ pc[s] = [i \in Callers(s) |->
                        IF i > 0 THEN "idle" ELSE IF s \in made THEN "new" ELSE "gone"]
          /\ left[s] = [i \in Callers(s) |-> 0]
          /\ result[s] = [i \in Writes(s) |-> "todo"] /\ tries[s] = [i \in Writes(s) |-> 0]
          /\ begun[s] = <<>>
      BY <1>1 DEF Init
    <2>2. \A i \in Writes(s) : i \in Callers(s) /\ i > 0
      BY CallerFacts, WriteNumbers
    <2>3. \A i \in Writes(s) : pc[s][i] = "idle" /\ left[s][i] = 0
      BY <2>1, <2>2
    <2>4. pc[s][0] \in {"new", "gone"}
      <3>1. pc[s][0] = IF 0 > 0 THEN "idle" ELSE IF s \in made THEN "new" ELSE "gone"
        BY <2>1, CallerFacts
      <3> QED
        BY <3>1
    <2>5. BufferTypes(s)
      BY <2>1 DEF BufferTypes, Bytes
    <2>6. CallerTypes(s)
      <3>1. pc[s] \in [Callers(s) -> OwnerAt \cup WriterAt]
        BY <2>1 DEF OwnerAt, WriterAt
      <3>2. \A i \in Writes(s) : tries[s][i] <= Tries(s, i) /\ left[s][i] <= Plan[s][i]
        <4>1. ASSUME NEW i \in Writes(s)
              PROVE  tries[s][i] <= Tries(s, i) /\ left[s][i] <= Plan[s][i]
          <5>1. tries[s][i] = 0 /\ left[s][i] = 0
            BY <2>1, <2>3
          <5>2. Tries(s, i) \in Nat /\ Plan[s][i] \in Nat
            BY PlanFacts
          <5> QED
            BY <5>1, <5>2
        <4> QED
          BY <4>1
      <3> QED
        BY <2>1, <2>3, <2>4, <3>1, <3>2 DEF CallerTypes, OwnerAt, WriterAt, Results
    <2>7. Control(s)
      BY <2>1, <2>3, PlanFacts DEF Control
    <2> QED
      BY <2>5, <2>6, <2>7
  <1> QED
    BY <1>2, <1>4, <1>6, <1>7 DEF Base, PoolInv

LEMMA InitIInv == Init => IInv
  <1> SUFFICES ASSUME Init PROVE IInv
    OBVIOUS
  <1>1. Base
    BY InitBase
  <1>2. ASSUME NEW s \in Sinks PROVE SinkInv(s)
    <2>1. PICK made \in Together :
             pc = [u \in Sinks |-> [i \in Callers(u) |->
                    IF i > 0 THEN "idle" ELSE IF u \in made THEN "new" ELSE "gone"]]
      BY DEF Init
    <2>2. /\ buffered[s] = 0 /\ flushed[s] = 0 /\ upload[s] = "none" /\ parts[s] = <<>>
          /\ outcome[s] = "open" /\ begun[s] = <<>> /\ lost = {}
          /\ result[s] = [i \in Writes(s) |-> "todo"] /\ tries[s] = [i \in Writes(s) |-> 0]
      BY DEF Init
    <2>3. \A i \in Writes(s) : pc[s][i] = "idle"
      <3>1. \A i \in Writes(s) : i \in Callers(s) /\ i > 0
        BY CallerFacts, WriteNumbers
      <3> QED
        BY <2>1, <3>1
    <2>4. pc[s][0] \in {"new", "gone"}
      <3>1. pc[s][0] = IF 0 > 0 THEN "idle" ELSE IF s \in made THEN "new" ELSE "gone"
        BY <2>1, CallerFacts
      <3> QED
        BY <3>1
    <2>5. Cur(s) = 0 /\ At(s) = pc[s][0] /\ ~Working(s)
      BY <2>3 DEF Cur, Writing, At, Working
    <2>6. OneCaller(s) /\ CallState(s)
      BY <2>3, <2>5 DEF OneCaller, CallState
    <2>7. Stage(s) /\ Inside(s) /\ LossIsSeen(s) /\ Final(s)
      BY <2>2, <2>4, <2>5, PlanFacts DEF Stage, Flushing, Inside, LossIsSeen, Final
    <2>8. TableLast(s) /\ Content(s) /\ Orderly(s)
      BY <2>2, <2>4, <2>5, PlanFacts DEF TableLast, Content, Orderly
    <2> QED
      BY <2>6, <2>7, <2>8 DEF SinkInv
  <1> QED
    BY <1>1, <1>2 DEF IInv
-----------------------------------------------------------------------------
(* What the callers of a sink do to it *)

LEMMA BaseFacts ==
    ASSUME Base, NEW s \in Sinks
    PROVE  /\ GlobalTypes /\ PoolInv /\ BufferTypes(s) /\ CallerTypes(s) /\ Control(s)
           /\ buffered[s] \in Nat /\ flushed[s] \in Nat /\ idle \in Nat /\ thrown \in Nat
           /\ \A i \in Callers(s) : left[s][i] \in Nat
           /\ \A u \in Sinks : \A j \in Callers(u) : conn[u][j] # "none" => pc[u][j] \in Requests
  <1>1. GlobalTypes /\ PoolInv /\ BufferTypes(s) /\ CallerTypes(s) /\ Control(s)
    BY DEF Base, PoolInv
  <1>2. buffered[s] \in Nat /\ flushed[s] \in Nat /\ idle \in Nat /\ thrown \in Nat
    BY <1>1 DEF GlobalTypes
  <1>3. \A i \in Callers(s) : left[s][i] \in Nat
    BY <1>1 DEF CallerTypes
  <1>4. \A u \in Sinks : \A j \in Callers(u) : conn[u][j] # "none" => pc[u][j] \in Requests
    BY <1>1 DEF PoolInv, Connected
  <1> QED
    BY <1>1, <1>2, <1>3, <1>4

PcMoves(s, i, next) ==
    /\ DOMAIN pc' = Sinks /\ pc'[s] \in [Callers(s) -> OwnerAt \cup WriterAt]
    /\ pc'[s][i] = next
    /\ \A j \in Callers(s) : j # i => pc'[s][j] = pc[s][j]
    /\ \A u \in Sinks : u # s => pc'[u] = pc[u]

LEMMA GotoMoves ==
    ASSUME Base, NEW s \in Sinks, NEW i \in Callers(s), NEW next \in OwnerAt \cup WriterAt,
           Goto(s, i, next)
    PROVE  PcMoves(s, i, next)
  <1>1. DOMAIN pc = Sinks /\ pc[s] \in [Callers(s) -> OwnerAt \cup WriterAt]
        /\ pc' = [pc EXCEPT ![s][i] = next]
    BY BaseFacts DEF GlobalTypes, CallerTypes, Goto
  <1>2. PICK places : places = OwnerAt \cup WriterAt
    OBVIOUS
  <1>3. DOMAIN pc' = Sinks /\ pc'[s] \in [Callers(s) -> places] /\ pc'[s][i] = next
        /\ (\A j \in Callers(s) : j # i => pc'[s][j] = pc[s][j])
        /\ (\A u \in Sinks : u # s => pc'[u] = pc[u])
    BY <1>1, <1>2, Updated
  <1> QED
    BY <1>2, <1>3 DEF PcMoves

LeftMoves(s, i, rest) ==
    /\ DOMAIN left' = Sinks /\ left'[s] \in [Callers(s) -> Nat] /\ left'[s][i] = rest
    /\ \A j \in Callers(s) : j # i => left'[s][j] = left[s][j]
    /\ \A u \in Sinks : u # s => left'[u] = left[u]

LEMMA LeftSet ==
    ASSUME Base, NEW s \in Sinks, NEW i \in Callers(s), NEW rest \in Nat,
           left' = [left EXCEPT ![s][i] = rest]
    PROVE  LeftMoves(s, i, rest)
  <1>1. DOMAIN left = Sinks /\ left[s] \in [Callers(s) -> Nat]
    BY BaseFacts DEF GlobalTypes, CallerTypes
  <1> QED
    BY <1>1, Updated DEF LeftMoves

LEMMA LeftStays ==
    ASSUME Base, NEW s \in Sinks, NEW i \in Callers(s), UNCHANGED left
    PROVE  LeftMoves(s, i, left[s][i])
  BY BaseFacts DEF GlobalTypes, CallerTypes, LeftMoves

\* While the owner makes or flushes the sink, and once the table has been
\* written, nobody is inside write.
LEMMA WritersIdle ==
    ASSUME Base, NEW s \in Sinks, pc[s][0] # "idle" \/ result[s][Table(s)] # "todo"
    PROVE  \A i \in Writes(s) : pc[s][i] = "idle"
  <1>1. Control(s)
    BY BaseFacts
  <1> QED
    BY <1>1 DEF Control, Open

LEMMA WriterMovesOn ==
    ASSUME Base, NEW s \in Sinks, NEW i \in Writes(s), Open(s, i), NEW next \in WriterAt,
           PcMoves(s, i, next), NEW rest \in Nat, LeftMoves(s, i, rest), rest <= Plan[s][i],
           UNCHANGED <<result, tries>>, begun'[s] \in Seq(Writes(s))
    PROVE  CallerTypes(s)' /\ Control(s)'
  <1>1. CallerTypes(s) /\ Control(s)
    BY BaseFacts
  <1>2. i \in Callers(s) /\ i # 0 /\ 0 \in Callers(s) /\ \A j \in Writes(s) : j \in Callers(s)
    BY CallerFacts
  <1>3. pc'[s][0] = "idle" /\ \A j : Open(s, j)' <=> Open(s, j)
    BY <1>2 DEF PcMoves, Open
  <1>4. \A j \in Writes(s) : pc'[s][j] \in WriterAt /\ left'[s][j] <= Plan[s][j]
    BY <1>1, <1>2 DEF CallerTypes, PcMoves, LeftMoves
  <1>5. CallerTypes(s)'
    BY <1>1, <1>3, <1>4 DEF CallerTypes, PcMoves, LeftMoves, OwnerAt
  <1>6. \A j \in Writes(s) : pc'[s][j] # "idle" => Open(s, j)
    BY <1>1, <1>2 DEF Control, PcMoves
  <1>7. Control(s)'
    BY <1>1, <1>3, <1>6 DEF Control
  <1> QED
    BY <1>5, <1>7

\* How a write returns: acknowledged, to be tried again, or failed.
Returned(s, i, ok) ==
    /\ PcMoves(s, i, "idle") /\ LeftMoves(s, i, 0) /\ outcome' = outcome
    /\ \A u \in Sinks : u # s => result'[u] = result[u] /\ tries'[u] = tries[u]
    /\ \A j \in Writes(s) : j # i => result'[s][j] = result[s][j] /\ tries'[s][j] = tries[s][j]
    /\ ok => result'[s][i] = "ok"
    /\ ~ok => result'[s][i] \in {"todo", "failed"}
    /\ ~ok /\ i = Table(s) => result'[s][i] = "failed"
    /\ result'[s][i] = "todo" => tries'[s][i] < Tries(s, i)
    /\ tries'[s][i] <= Tries(s, i)
    /\ result'[s] \in [Writes(s) -> Results] /\ tries'[s] \in [Writes(s) -> Nat]
    /\ DOMAIN result' = Sinks /\ DOMAIN tries' = Sinks

LEMMA ReturnsFacts ==
    ASSUME Base, NEW s \in Sinks, NEW i \in Writes(s), result[s][i] = "todo",
           NEW ok \in BOOLEAN, Returns(s, i, ok)
    PROVE  Returned(s, i, ok)
  <1> DEFINE r == IF ok THEN "ok"
                  ELSE IF tries[s][i] + 1 < Tries(s, i) THEN "todo" ELSE "failed"
             n == tries[s][i] + 1
  <1>1. /\ tries[s] \in [Writes(s) -> Nat] /\ Tries(s, i) \in Nat
        /\ result[s] \in [Writes(s) -> Results] /\ tries[s][i] < Tries(s, i)
        /\ DOMAIN result = Sinks /\ DOMAIN tries = Sinks
    BY BaseFacts, PlanFacts DEF CallerTypes, Control, GlobalTypes
  <1>2. /\ tries' = [tries EXCEPT ![s][i] = n] /\ result' = [result EXCEPT ![s][i] = r]
        /\ Goto(s, i, "idle") /\ left' = [left EXCEPT ![s][i] = 0]
        /\ outcome' = outcome
    BY <1>1 DEF Returns
  <1>3. n \in Nat /\ n <= Tries(s, i) /\ r \in Results
        /\ (ok => r = "ok") /\ (~ok => r \in {"todo", "failed"})
        /\ (r = "todo" => n < Tries(s, i))
    BY <1>1 DEF Results
  <1>4. ~ok /\ i = Table(s) => r = "failed"
    BY <1>1 DEF Tries
  <1> HIDE DEF r, n
  <1>5. /\ DOMAIN result' = Sinks /\ result'[s] \in [Writes(s) -> Results]
        /\ result'[s][i] = r /\ \A j \in Writes(s) : j # i => result'[s][j] = result[s][j]
        /\ \A u \in Sinks : u # s => result'[u] = result[u]
    BY <1>1, <1>2, <1>3, Updated
  <1>6. /\ DOMAIN tries' = Sinks /\ tries'[s] \in [Writes(s) -> Nat]
        /\ tries'[s][i] = n /\ \A j \in Writes(s) : j # i => tries'[s][j] = tries[s][j]
        /\ \A u \in Sinks : u # s => tries'[u] = tries[u]
    BY <1>1, <1>2, <1>3, Updated
  <1>7. PcMoves(s, i, "idle") /\ LeftMoves(s, i, 0)
    <2>1. i \in Callers(s) /\ "idle" \in OwnerAt \cup WriterAt
      BY CallerFacts DEF OwnerAt
    <2> QED
      BY <1>2, <2>1, GotoMoves, LeftSet
  <1> QED
    BY <1>2, <1>3, <1>4, <1>5, <1>6, <1>7 DEF Returned

LEMMA WriterReturns ==
    ASSUME Base, NEW s \in Sinks, NEW i \in Writes(s), Open(s, i),
           NEW ok \in BOOLEAN, Returned(s, i, ok), begun'[s] \in Seq(Writes(s))
    PROVE  CallerTypes(s)' /\ Control(s)'
  <1>1. CallerTypes(s) /\ Control(s)
    BY BaseFacts
  <1>2. i \in Callers(s) /\ i # 0 /\ 0 \in Callers(s) /\ \A j \in Writes(s) : j \in Callers(s)
    BY CallerFacts
  <1>3. /\ pc'[s][0] = "idle" /\ pc'[s][i] = "idle" /\ left'[s][i] = 0
        /\ \A j \in Writes(s) : j # i =>
              /\ pc'[s][j] = pc[s][j] /\ left'[s][j] = left[s][j]
              /\ result'[s][j] = result[s][j] /\ tries'[s][j] = tries[s][j]
    BY <1>2 DEF Open, Returned, PcMoves, LeftMoves
  <1>4. \A j \in Writes(s) : /\ pc'[s][j] \in WriterAt /\ left'[s][j] <= Plan[s][j]
                             /\ tries'[s][j] <= Tries(s, j)
    <2>1. Plan[s][i] \in Nat /\ tries'[s][i] <= Tries(s, i)
      BY PlanFacts DEF Returned
    <2>2. pc'[s][i] \in WriterAt /\ left'[s][i] <= Plan[s][i]
      BY <1>3, <2>1 DEF WriterAt
    <2> QED
      BY <1>1, <1>3, <2>1, <2>2 DEF CallerTypes
  <1>5. CallerTypes(s)'
    BY <1>3, <1>4 DEF CallerTypes, Returned, PcMoves, LeftMoves, OwnerAt
  <1>6. Table(s) \in Writes(s) /\ Writes(s) = 1 .. Table(s) /\ Table(s) \in Nat
    BY PlanFacts
  <1>7. result'[s][Table(s)] # "todo" => \A j \in Writes(s) : result'[s][j] # "todo"
    <2>1. CASE i = Table(s)
      <3>1. \A j \in Writes(s) : j # i => j \in 1 .. Table(s) - 1
        BY <1>6, <2>1
      <3> QED
        BY <1>3, <2>1, <3>1 DEF Open
    <2>2. CASE i # Table(s)
      <3>1. result[s][Table(s)] = "todo"
        BY <1>1 DEF Control, Open
      <3> QED
        BY <1>3, <1>6, <2>2, <3>1
    <2> QED
      BY <2>1, <2>2
  <1>8. ASSUME NEW j \in Writes(s), pc'[s][j] # "idle" PROVE Open(s, j)'
    <2>1. j # i /\ Open(s, j)
      BY <1>1, <1>3, <1>8 DEF Control
    <2>2. j # Table(s)
      <3>1. ASSUME j = Table(s) PROVE FALSE
        <4>1. i \in 1 .. Table(s) - 1
          BY <1>6, <2>1, <3>1
        <4> QED
          BY <2>1, <3>1, <4>1 DEF Open
      <3> QED
        BY <3>1
    <2> QED
      BY <1>3, <2>1, <2>2 DEF Open
  <1>9. Control(s)'
    <2>1. \A j \in Writes(s) : result'[s][j] = "todo" => tries'[s][j] < Tries(s, j)
      BY <1>1, <1>3 DEF Control, Returned
    <2> QED
      BY <1>7, <1>8, <2>1 DEF Control
  <1> QED
    BY <1>5, <1>9

LEMMA OwnerMoves ==
    ASSUME Base, NEW s \in Sinks, NEW next \in OwnerAt, PcMoves(s, 0, next),
           pc[s][0] # "idle" \/ result[s][Table(s)] # "todo",
           UNCHANGED <<left, result, tries, begun>>
    PROVE  CallerTypes(s)' /\ Control(s)'
  <1>1. CallerTypes(s) /\ Control(s)
    BY BaseFacts
  <1>2. \A j \in Writes(s) : pc'[s][j] = "idle"
    BY WritersIdle, CallerFacts DEF PcMoves
  <1>3. CallerTypes(s)'
    BY <1>1, <1>2 DEF CallerTypes, PcMoves, WriterAt
  <1>4. Control(s)'
    BY <1>1, <1>2 DEF Control
  <1> QED
    BY <1>3, <1>4
-----------------------------------------------------------------------------
(* Of a sink whose writes come one at a time: who is inside *)

LEMMA OwnerInside ==
    ASSUME NEW s \in Sinks, \A j \in Writes(s) : pc[s][j] = "idle"
    PROVE  Cur(s) = 0 /\ At(s) = pc[s][0] /\ ~Working(s) /\ OneCaller(s)
  <1>1. Writing(s) = {}
    BY DEF Writing
  <1>2. Cur(s) = 0
    BY <1>1 DEF Cur
  <1> QED
    BY <1>2 DEF At, Working, OneCaller

LEMMA OwnerInsideNext ==
    ASSUME NEW s \in Sinks, \A j \in Writes(s) : pc'[s][j] = "idle"
    PROVE  Cur(s)' = 0 /\ At(s)' = pc'[s][0] /\ ~Working(s)' /\ OneCaller(s)'
  <1>1. Writing(s)' = {}
    BY DEF Writing
  <1>2. Cur(s)' = 0
    BY <1>1 DEF Cur
  <1> QED
    BY <1>2 DEF At, Working, OneCaller

LEMMA WriterInside ==
    ASSUME NEW s \in Sinks, NEW i \in Writes(s), pc[s][i] # "idle",
           \A j \in Writes(s) : j # i => pc[s][j] = "idle"
    PROVE  Cur(s) = i /\ At(s) = pc[s][i] /\ Left(s) = left[s][i] /\ Working(s) /\ OneCaller(s)
  <1>1. Writing(s) # {}
    BY DEF Writing
  <1>2. (CHOOSE j \in Writes(s) : pc[s][j] # "idle") = i
    OBVIOUS
  <1>3. Cur(s) = i
    BY <1>1, <1>2 DEF Cur
  <1> QED
    BY <1>3, CallerFacts DEF At, Left, Working, OneCaller

LEMMA WriterInsideNext ==
    ASSUME NEW s \in Sinks, NEW i \in Writes(s), pc'[s][i] # "idle",
           \A j \in Writes(s) : j # i => pc'[s][j] = "idle"
    PROVE  /\ Cur(s)' = i /\ At(s)' = pc'[s][i] /\ Left(s)' = left'[s][i]
           /\ Working(s)' /\ OneCaller(s)'
  <1>1. Writing(s)' # {}
    BY DEF Writing
  <1>2. (CHOOSE j \in Writes(s) : pc'[s][j] # "idle") = i
    OBVIOUS
  <1>3. Cur(s)' = i
    BY <1>1, <1>2 DEF Cur
  <1> QED
    BY <1>3, CallerFacts DEF At, Left, Working, OneCaller

LEMMA SinkFacts ==
    ASSUME IInv, NEW s \in Sinks
    PROVE  /\ Base /\ GlobalTypes /\ PoolInv /\ BufferTypes(s) /\ CallerTypes(s) /\ Control(s)
           /\ buffered[s] \in Nat /\ flushed[s] \in Nat /\ Reached(s) \in Nat
           /\ s \notin overlapped => SinkInv(s)
  <1>1. Base /\ (s \notin overlapped => SinkInv(s))
    BY DEF IInv
  <1> QED
    BY <1>1, BaseFacts DEF Reached

\* The write in progress.
InCall(s, i) ==
    /\ Cur(s) = i /\ At(s) = pc[s][i] /\ Left(s) = left[s][i] /\ Working(s) /\ i # 0
    /\ At(s) \in WriterAt \ {"idle"} /\ Left(s) \in Nat /\ Left(s) <= Plan[s][i]
    /\ \A j \in Writes(s) : j # i => pc[s][j] = "idle"
    /\ pc[s][0] = "idle" /\ result[s][i] = "todo" /\ tries[s][i] < Tries(s, i)
    /\ i = Table(s) => \A j \in Writes(s) \ {i} : result[s][j] # "todo"
    /\ Reached(s) = End(s, i) - Left(s)
    /\ outcome[s] = "open" /\ result[s][Table(s)] = "todo"

LEMMA CallFacts ==
    ASSUME IInv, NEW s \in Sinks, s \notin overlapped, NEW i \in Writes(s), pc[s][i] # "idle"
    PROVE  InCall(s, i)
  <1>1. SinkInv(s) /\ CallerTypes(s) /\ Control(s)
    BY SinkFacts
  <1>2. \A j \in Writes(s) : j # i => pc[s][j] = "idle"
    BY <1>1 DEF SinkInv, OneCaller
  <1>3. Cur(s) = i /\ At(s) = pc[s][i] /\ Left(s) = left[s][i] /\ Working(s)
    BY <1>2, WriterInside
  <1>4. i \in Callers(s) /\ i # 0
    BY CallerFacts
  <1>5. At(s) \in WriterAt \ {"idle"} /\ Left(s) \in Nat /\ Left(s) <= Plan[s][i]
    BY <1>1, <1>3, <1>4 DEF CallerTypes
  <1>6. Open(s, i)
    BY <1>1 DEF Control
  <1>7. pc[s][0] = "idle" /\ result[s][i] = "todo" /\ tries[s][i] < Tries(s, i)
    BY <1>1, <1>6 DEF Control, Open
  <1>8. i = Table(s) => \A j \in Writes(s) \ {i} : result[s][j] # "todo"
    <2>1. Writes(s) = 1 .. Table(s) /\ Table(s) \in Nat
      BY PlanFacts
    <2> QED
      BY <1>6, <2>1 DEF Open
  <1>9. Reached(s) = End(s, i) - Left(s)
    BY <1>1, <1>3 DEF SinkInv, CallState
  <1>10. outcome[s] = "open"
    BY <1>1, <1>3, <1>5 DEF SinkInv, Stage, WriterAt
  <1>11. result[s][Table(s)] = "todo"
    BY <1>1, <1>7 DEF Control
  <1> QED
    BY <1>2, <1>3, <1>4, <1>5, <1>7, <1>8, <1>9, <1>10, <1>11 DEF InCall
-----------------------------------------------------------------------------
(* The steps at the pool *)

LEMMA GetConnectionKeeps ==
    ASSUME IInv, NEW s \in Sinks, NEW i \in Callers(s), GetConnection(s, i)
    PROVE  IInv'
  <1>1. /\ pc[s][i] \in Requests /\ conn[s][i] = "none" /\ idle > 0 /\ idle' = idle - 1
        /\ conn' = [conn EXCEPT ![s][i] = "holds"]
        /\ UNCHANGED <<bufferVars, serverVars, pc, callVars, historyVars>>
    BY DEF GetConnection
  <1> USE DEF bufferVars, serverVars, callVars, historyVars
  <1>2. GlobalTypes /\ PoolInv /\ Base /\ Connected /\ ConnectionsAccounted
        /\ idle \in Nat /\ thrown \in Nat /\ IsFiniteSet(Holders)
    BY SinkFacts, BaseFacts DEF PoolInv
  <1>3. /\ DOMAIN conn' = Sinks /\ conn'[s] \in [Callers(s) -> Links] /\ conn'[s][i] = "holds"
        /\ \A j \in Callers(s) : j # i => conn'[s][j] = conn[s][j]
        /\ \A u \in Sinks : u # s => conn'[u] = conn[u]
    <2>1. "holds" \in Links /\ DOMAIN conn = Sinks /\ conn[s] \in [Callers(s) -> Links]
      BY <1>2 DEF Links, GlobalTypes
    <2> QED
      BY <1>1, <2>1, Updated
  <1>4. GlobalTypes'
    <2>1. \A u \in Sinks : conn'[u] \in [Callers(u) -> Links]
      BY <1>2, <1>3 DEF GlobalTypes
    <2>2. idle' \in Nat
      BY <1>1, <1>2
    <2> QED
      BY <1>1, <1>2, <1>3, <2>1, <2>2 DEF GlobalTypes
  <1>5. Holders' = Holders \cup {<<s, i>>} /\ <<s, i>> \notin Holders
    <2>1. <<s, i>> \in Holders' /\ <<s, i>> \notin Holders
      BY <1>1, <1>3 DEF Holders, AllCallers
    <2>2. ASSUME NEW c \in AllCallers, c # <<s, i>> PROVE c \in Holders' <=> c \in Holders
      <3>1. PICK u \in Sinks : c \in {u} \X Callers(u)
        BY DEF AllCallers
      <3>2. PICK j \in Callers(u) : c = <<u, j>>
        BY <3>1
      <3> QED
        BY <1>3, <2>2, <3>2 DEF Holders
    <2>3. Holders \subseteq AllCallers /\ Holders' \subseteq AllCallers
      BY DEF Holders, AllCallers
    <2> QED
      BY <2>1, <2>2, <2>3
  <1>6. PICK before, after : before = Holders /\ after = Holders'
    OBVIOUS
  <1>7. IsFiniteSet(after) /\ Cardinality(after) = Cardinality(before) + 1
        /\ Cardinality(before) \in Nat
    BY <1>2, <1>5, <1>6, FS_AddElement, FS_CardinalityType
  <1>8. ConnectionsAccounted'
    <2>1. idle + Cardinality(before) + thrown = NConnections
      BY <1>2, <1>6 DEF ConnectionsAccounted
    <2>2. idle' + Cardinality(after) + thrown' = NConnections
      BY <1>1, <1>2, <1>7, <2>1
    <2> QED
      BY <1>6, <2>2 DEF ConnectionsAccounted
  <1>9. Connected'
    BY <1>1, <1>2, <1>3 DEF Connected
  <1>10. PoolInv'
    BY <1>4, <1>6, <1>7, <1>8, <1>9 DEF PoolInv
  <1>11. \A u \in Sinks : Same(u)
    BY <1>1 DEF Same
  <1>12. Base'
    BY <1>2, <1>10, <1>11, SameBase, StepKeepsBase, BaseFacts
  <1> QED
    BY <1>11, <1>12, SameKeeps, StepKeeps, SinkFacts DEF Same

LEMMA WaitForConnectionKeeps ==
    ASSUME IInv, NEW s \in Sinks, NEW i \in Callers(s), WaitForConnection(s, i)
    PROVE  IInv'
  <1>1. /\ pc[s][i] \in Requests /\ conn[s][i] = "none"
        /\ conn' = [conn EXCEPT ![s][i] = "asleep"]
        /\ UNCHANGED <<bufferVars, serverVars, pc, callVars, idle, historyVars>>
    BY DEF WaitForConnection
  <1> USE DEF bufferVars, serverVars, callVars, historyVars
  <1>2. GlobalTypes /\ PoolInv /\ Base
    BY SinkFacts
  <1>3. /\ DOMAIN conn' = Sinks /\ conn'[s] \in [Callers(s) -> Links] /\ conn'[s][i] = "asleep"
        /\ \A j \in Callers(s) : j # i => conn'[s][j] = conn[s][j]
        /\ \A u \in Sinks : u # s => conn'[u] = conn[u]
    <2>1. "asleep" \in Links /\ DOMAIN conn = Sinks /\ conn[s] \in [Callers(s) -> Links]
      BY <1>2 DEF Links, GlobalTypes
    <2> QED
      BY <1>1, <2>1, Updated
  <1>4. GlobalTypes'
    <2>1. \A u \in Sinks : conn'[u] \in [Callers(u) -> Links]
      BY <1>2, <1>3 DEF GlobalTypes
    <2> QED
      BY <1>1, <1>2, <1>3, <2>1 DEF GlobalTypes
  <1>5. Holders' = Holders
    <2>1. ASSUME NEW c \in AllCallers PROVE c \in Holders' <=> c \in Holders
      <3>1. PICK u \in Sinks : c \in {u} \X Callers(u)
        BY DEF AllCallers
      <3>2. PICK j \in Callers(u) : c = <<u, j>>
        BY <3>1
      <3> QED
        BY <1>1, <1>3, <2>1, <3>2 DEF Holders
    <2>2. Holders \subseteq AllCallers /\ Holders' \subseteq AllCallers
      BY DEF Holders, AllCallers
    <2> QED
      BY <2>1, <2>2
  <1>6. Connected' /\ ConnectionsAccounted' /\ IsFiniteSet(Holders)'
    <2>1. Connected'
      BY <1>1, <1>2, <1>3 DEF PoolInv, Connected
    <2> QED
      BY <1>1, <1>2, <1>5, <2>1 DEF PoolInv, ConnectionsAccounted
  <1>7. PoolInv'
    BY <1>4, <1>6 DEF PoolInv
  <1>8. \A u \in Sinks : Same(u)
    BY <1>1 DEF Same
  <1>9. Base'
    BY <1>2, <1>7, <1>8, SameBase, StepKeepsBase, BaseFacts
  <1> QED
    BY <1>8, <1>9, SameKeeps, StepKeeps, SinkFacts DEF Same
-----------------------------------------------------------------------------
(* Making the sink *)

\* A step that only moves the owner on, between places where no write is in
\* progress and no flush has begun.
LEMMA MovedKeeps ==
    ASSUME IInv, NEW s \in Sinks, PoolInv', NEW next \in {"exists", "idle", "gone"},
           pc[s][0] \in {"new", "exists"}, PcMoves(s, 0, next),
           UNCHANGED <<bufferVars, serverVars, callVars, historyVars>>
    PROVE  IInv'
  <1> USE DEF bufferVars, serverVars, callVars, historyVars
  <1>1. Base /\ BufferTypes(s) /\ CallerTypes(s) /\ (s \notin overlapped => SinkInv(s))
    BY SinkFacts
  <1>2. \A u \in Sinks \ {s} : Same(u)
    BY DEF Same, PcMoves
  <1>3. CallerTypes(s)' /\ Control(s)'
    BY <1>1, OwnerMoves DEF OwnerAt
  <1>4. BufferTypes(s)'
    BY <1>1 DEF BufferTypes
  <1>5. Base'
    BY <1>1, <1>2, <1>3, <1>4, StepKeepsBase
  <1>6. \A j \in Writes(s) : pc[s][j] = "idle" /\ pc'[s][j] = "idle"
    BY <1>1, WritersIdle, CallerFacts DEF PcMoves
  <1>7. /\ Cur(s) = 0 /\ At(s) = pc[s][0] /\ ~Working(s)
        /\ Cur(s)' = 0 /\ At(s)' = next /\ ~Working(s)' /\ OneCaller(s)'
    BY <1>6, OwnerInside, OwnerInsideNext DEF PcMoves
  <1>8. ASSUME s \notin overlapped PROVE SinkInv(s)'
    <2>1. SinkInv(s)
      BY <1>1, <1>8
    <2>2. /\ Reached(s)' = Reached(s) /\ (Sound(s)' <=> Sound(s))
          /\ (InOrder(s)' <=> InOrder(s)) /\ outcome[s] = "open" /\ outcome'[s] = "open"
      BY <1>7, <2>1 DEF Reached, Sound, InOrder, SinkInv, Stage
    <2>3. CallState(s)' /\ Stage(s)'
      BY <1>7, <2>1, <2>2 DEF SinkInv, CallState, Stage, Flushing
    <2>4. TableLast(s)' /\ Inside(s)' /\ LossIsSeen(s)'
      BY <1>7, <2>1, <2>2 DEF SinkInv, TableLast, Inside, LossIsSeen, Doomed
    <2>5. Content(s)'
      BY <1>7, <2>1, <2>2 DEF SinkInv, Content, Stored
    <2>6. Orderly(s)' /\ Final(s)'
      BY <1>7, <2>1, <2>2 DEF SinkInv, Orderly, Final
    <2> QED
      BY <1>7, <2>3, <2>4, <2>5, <2>6 DEF SinkInv
  <1> QED
    BY <1>2, <1>5, <1>8, StepKeeps

LEMMA NewSinkKeeps ==
    ASSUME IInv, NEW s \in Sinks, NewSink(s)
    PROVE  IInv'
  <1>1. /\ pc[s][0] = "new" /\ Goto(s, 0, "exists")
        /\ UNCHANGED <<bufferVars, serverVars, callVars, poolVars, historyVars>>
    BY DEF NewSink
  <1>2. Base /\ GlobalTypes /\ PoolInv
    BY SinkFacts
  <1>3. PcMoves(s, 0, "exists")
    BY <1>1, <1>2, CallerFacts, GotoMoves DEF OwnerAt
  <1>4. GlobalTypes'
    BY <1>1, <1>2, <1>3 DEF GlobalTypes, bufferVars, serverVars, callVars, poolVars,
                            historyVars, PcMoves
  <1>5. conn[s][0] = "none"
    BY <1>1, <1>2, BaseFacts, CallerFacts DEF Requests
  <1>6. PoolInv'
    BY <1>1, <1>2, <1>3, <1>4, <1>5, PoolStays DEF PcMoves, historyVars
  <1> QED
    BY <1>1, <1>3, <1>6, MovedKeeps

LEMMA BucketExistsKeeps ==
    ASSUME IInv, NEW s \in Sinks, BucketExists(s)
    PROVE  IInv'
  <1>1. PICK next \in {"idle", "gone"} : Goto(s, 0, next)
    BY DEF BucketExists
  <1>2. /\ pc[s][0] = "exists" /\ conn[s][0] = "holds" /\ ReturnConnection(s, 0)
        /\ UNCHANGED <<bufferVars, serverVars, callVars, historyVars>>
    BY DEF BucketExists, Answered
  <1>3. Base /\ GlobalTypes /\ PoolInv
    BY SinkFacts
  <1>4. PcMoves(s, 0, next)
    BY <1>1, <1>3, CallerFacts, GotoMoves DEF OwnerAt
  <1>5. /\ Leaves(s, 0) /\ idle' \in Nat /\ DOMAIN conn' = Sinks
        /\ \A u \in Sinks : conn'[u] \in [Callers(u) -> Links]
    BY <1>2, <1>3, CallerFacts, ReturnLeaves DEF historyVars
  <1>6. GlobalTypes'
    BY <1>2, <1>3, <1>4, <1>5
       DEF GlobalTypes, bufferVars, serverVars, callVars, historyVars, PcMoves
  <1>7. PoolInv'
    BY <1>3, <1>4, <1>5, <1>6, CallerFacts, ConnectionLeft DEF PcMoves
  <1> QED
    BY <1>1, <1>2, <1>4, <1>7, MovedKeeps
-----------------------------------------------------------------------------
(* write *)

\* A write is noted when it is called for the first time.
Noted(s, i) ==
    /\ tries[s][i] = 0 => begun'[s] = Append(begun[s], i)
    /\ tries[s][i] # 0 => begun'[s] = begun[s]

\* Of every sink, whoever else is inside: what a call of write does.
LEMMA WriteKeepsBase ==
    ASSUME Base, NEW s \in Sinks, NEW i \in Writes(s), Write(s, i)
    PROVE  /\ Base' /\ \A u \in Sinks \ {s} : Same(u)
           /\ pc[s][0] = "idle" /\ pc[s][i] = "idle" /\ result[s][i] = "todo" /\ Open(s, i)
           /\ Noted(s, i)
           /\ UNCHANGED <<part_buffer, flushed, serverVars, poolVars, thrown, lost>>
           /\ s \notin overlapped' =>
                 s \notin overlapped /\ \A j \in Writes(s) : pc[s][j] = "idle"
           /\ Offset[s][i] < flushed[s] => Returned(s, i, FALSE) /\ UNCHANGED buffered
           /\ ~(Offset[s][i] < flushed[s]) =>
                 /\ buffered' = [buffered EXCEPT ![s] = Offset[s][i] - flushed[s]]
                 /\ PcMoves(s, i, "copy") /\ LeftMoves(s, i, Plan[s][i])
                 /\ UNCHANGED <<result, tries, outcome>>
  <1> USE DEF serverVars, poolVars
  <1>1. /\ MayWrite(s, i)
        /\ begun' = [begun EXCEPT ![s] = IF tries[s][i] = 0 THEN Append(@, i) ELSE @]
        /\ overlapped' = IF Writing(s) = {} THEN overlapped ELSE overlapped \cup {s}
        /\ UNCHANGED <<part_buffer, flushed, serverVars, poolVars, thrown, lost>>
    BY DEF Write
  <1>2. /\ GlobalTypes /\ PoolInv /\ BufferTypes(s) /\ CallerTypes(s) /\ Control(s)
        /\ flushed[s] \in Nat
    BY BaseFacts
  <1>3. i \in Callers(s) /\ Plan[s][i] \in Nat /\ Offset[s][i] \in Nat
    BY CallerFacts, PlanFacts
  <1>4. pc[s][0] = "idle" /\ pc[s][i] = "idle" /\ result[s][i] = "todo" /\ Open(s, i)
    BY <1>1 DEF MayWrite, Open
  <1>5. /\ Noted(s, i)
        /\ begun'[s] \in Seq(Writes(s)) /\ DOMAIN begun' = Sinks
        /\ \A u \in Sinks \ {s} : begun'[u] = begun[u]
    <2>1. begun[s] \in Seq(Writes(s)) /\ Append(begun[s], i) \in Seq(Writes(s))
          /\ DOMAIN begun = Sinks
      BY <1>2, AppendProperties DEF CallerTypes, GlobalTypes
    <2>2. begun'[s] = IF tries[s][i] = 0 THEN Append(begun[s], i) ELSE begun[s]
      BY <1>1, <2>1
    <2> QED
      BY <1>1, <2>1, <2>2 DEF Noted
  <1>6. /\ overlapped' \subseteq Sinks /\ \A u \in Sinks \ {s} : u \in overlapped' <=> u \in overlapped
        /\ s \notin overlapped' => s \notin overlapped /\ \A j \in Writes(s) : pc[s][j] = "idle"
    BY <1>1, <1>2 DEF GlobalTypes, Writing
  <1>7. CASE Offset[s][i] < flushed[s]
    <2>1. Returned(s, i, FALSE) /\ UNCHANGED buffered
      BY <1>4, <1>7, ReturnsFacts DEF Write
    <2>2. CallerTypes(s)' /\ Control(s)'
      BY <1>4, <1>5, <2>1, WriterReturns
    <2>3. GlobalTypes'
      BY <1>1, <1>2, <1>5, <1>6, <2>1 DEF GlobalTypes, Returned, PcMoves, LeftMoves
    <2>4. PoolInv'
      <3>1. conn[s][i] = "none"
        BY <1>3, <1>4, BaseFacts DEF Requests
      <3> QED
        BY <1>1, <1>2, <2>1, <2>3, <3>1, PoolStays DEF Returned, PcMoves
    <2>5. \A u \in Sinks \ {s} : Same(u)
      BY <1>1, <1>5, <1>6, <2>1 DEF Same, Returned, PcMoves, LeftMoves
    <2>6. BufferTypes(s)'
      BY <1>1, <1>2 DEF BufferTypes
    <2>7. Base'
      BY <2>2, <2>4, <2>5, <2>6, StepKeepsBase
    <2> QED
      BY <1>1, <1>4, <1>5, <1>6, <1>7, <2>1, <2>5, <2>7
  <1>8. CASE ~(Offset[s][i] < flushed[s])
    <2>1. /\ buffered' = [buffered EXCEPT ![s] = Offset[s][i] - flushed[s]]
          /\ left' = [left EXCEPT ![s][i] = Plan[s][i]] /\ Goto(s, i, "copy")
          /\ UNCHANGED <<result, tries, outcome>>
      BY <1>8 DEF Write, BufferedBefore
    <2>2. PcMoves(s, i, "copy")
      BY <1>3, <2>1, GotoMoves DEF WriterAt
    <2>3. LeftMoves(s, i, Plan[s][i])
      BY <1>3, <2>1, LeftSet
    <2>4. CallerTypes(s)' /\ Control(s)'
      <3>1. Plan[s][i] <= Plan[s][i] /\ "copy" \in WriterAt
        BY <1>3 DEF WriterAt
      <3> QED
        BY <1>3, <1>4, <1>5, <2>1, <2>2, <2>3, <3>1, WriterMovesOn
    <2>5. buffered' \in [Sinks -> Nat] /\ \A u \in Sinks \ {s} : buffered'[u] = buffered[u]
      <3>1. Offset[s][i] - flushed[s] \in Nat
        BY <1>2, <1>3, <1>8
      <3> QED
        BY <1>2, <2>1, <3>1 DEF GlobalTypes
    <2>6. GlobalTypes'
      BY <1>1, <1>2, <1>5, <1>6, <2>1, <2>2, <2>3, <2>5 DEF GlobalTypes, PcMoves, LeftMoves
    <2>7. PoolInv'
      <3>1. conn[s][i] = "none"
        BY <1>3, <1>4, BaseFacts DEF Requests
      <3> QED
        BY <1>1, <1>2, <2>2, <2>6, <3>1, PoolStays DEF PcMoves
    <2>8. \A u \in Sinks \ {s} : Same(u)
      BY <1>1, <1>5, <1>6, <2>1, <2>2, <2>3, <2>5 DEF Same, PcMoves, LeftMoves
    <2>9. BufferTypes(s)'
      BY <1>1, <1>2 DEF BufferTypes
    <2>10. Base'
      BY <2>4, <2>7, <2>8, <2>9, StepKeepsBase
    <2> QED
      BY <1>1, <1>4, <1>5, <1>6, <1>8, <2>1, <2>2, <2>3, <2>8, <2>10
  <1> QED
    BY <1>7, <1>8

\* A write that begins in order begins at most a buffer ahead, with the next
\* write of the plan.
LEMMA BeginsInOrder ==
    ASSUME IInv, NEW s \in Sinks, NEW i \in Writes(s), Write(s, i), s \notin overlapped',
           InOrder(s)', Sound(s)
    PROVE  /\ i = Len(begun[s]) + 1 /\ InOrder(s) /\ begun'[s] = Append(begun[s], i)
           /\ Len(begun[s]) \in Nat /\ Len(begun'[s]) = i
           /\ flushed[s] <= Offset[s][i] /\ Offset[s][i] - flushed[s] <= PartSize
  <1>0. Base
    BY SinkFacts
  <1>2. /\ pc[s][0] = "idle" /\ result[s][i] = "todo" /\ s \notin overlapped
        /\ \A j \in Writes(s) : pc[s][j] = "idle"
        /\ tries[s][i] = 0 => begun'[s] = Append(begun[s], i)
        /\ tries[s][i] # 0 => begun'[s] = begun[s]
    <2>1. pc[s][0] = "idle" /\ result[s][i] = "todo"
      BY <1>0, WriteKeepsBase
    <2>2. s \notin overlapped' =>
             s \notin overlapped /\ \A j \in Writes(s) : pc[s][j] = "idle"
      BY <1>0, WriteKeepsBase
    <2>3. Noted(s, i)
      BY <1>0, WriteKeepsBase
    <2> QED
      BY <2>1, <2>2, <2>3 DEF Noted
  <1>1. CallerTypes(s) /\ SinkInv(s) /\ flushed[s] \in Nat
    BY <1>2, SinkFacts
  <1>3. /\ begun[s] \in Seq(Writes(s))
        /\ Len(begun[s]) \in Nat /\ DOMAIN begun[s] = 1 .. Len(begun[s])
    BY <1>1, LenProperties DEF CallerTypes
  <1>4. Append(begun[s], i) \in Seq(Writes(s)) /\ Len(Append(begun[s], i)) = Len(begun[s]) + 1
        /\ DOMAIN Append(begun[s], i) = 1 .. Len(begun[s]) + 1
        /\ Append(begun[s], i)[Len(begun[s]) + 1] = i
        /\ \A k \in 1 .. Len(begun[s]) : Append(begun[s], i)[k] = begun[s][k]
    BY <1>3, AppendProperties, LenProperties
  <1>6. InOrder(s)
    <2> SUFFICES ASSUME NEW k \in 1 .. Len(begun[s]) PROVE begun[s][k] = k
      BY <1>3 DEF InOrder
    <2>1. k \in DOMAIN begun'[s] /\ begun'[s][k] = begun[s][k]
      BY <1>2, <1>3, <1>4
    <2> QED
      BY <2>1 DEF InOrder
  <1>7. Cur(s) = 0
    BY <1>2, OwnerInside
  <1>8. /\ \A j \in Writes(s) :
             /\ j <= Len(begun[s]) /\ Cur(s) # j => result[s][j] = "ok"
             /\ j > Len(begun[s]) => /\ result[s][j] = "todo" /\ tries[s][j] = 0
                                     /\ flushed[s] <= Offset[s][j]
    BY <1>1, <1>6 DEF SinkInv, Orderly
  <1>9. i \in Nat \ {0} /\ Writes(s) = 1 .. Table(s)
    BY PlanFacts
  <1>10. i > Len(begun[s]) /\ tries[s][i] = 0 /\ flushed[s] <= Offset[s][i]
    BY <1>2, <1>3, <1>7, <1>8, <1>9
  <1>11. begun'[s] = Append(begun[s], i) /\ i = Len(begun[s]) + 1
    <2>1. begun'[s] = Append(begun[s], i)
      BY <1>2, <1>10
    <2>2. Len(begun[s]) + 1 \in DOMAIN begun'[s] /\ begun'[s][Len(begun[s]) + 1] = i
      BY <1>3, <1>4, <2>1
    <2> QED
      BY <2>1, <2>2 DEF InOrder
  <1>12. Offset[s][i] - flushed[s] <= PartSize
    <2>1. CASE i = 1
      <3>1. Offset[s][i] = 0 /\ PartSize \in Nat
        BY <2>1, PlanFacts
      <3> QED
        BY <1>1, <3>1
    <2>2. CASE i # 1
      <3>1. PICK j \in Writes(s) : i = j + 1
        BY <1>9, <2>2, PlanFacts
      <3>2. result[s][j] = "ok"
        BY <1>3, <1>7, <1>8, <1>9, <1>11, <3>1
      <3>3. End(s, j) < flushed[s] + PartSize /\ End(s, j) = Offset[s][i]
        BY <1>1, <3>1, <3>2, PlanFacts DEF SinkInv, Inside
      <3> QED
        BY <1>1, <3>3, WriteNumbers
    <2> QED
      BY <2>1, <2>2
  <1> QED
    BY <1>3, <1>4, <1>6, <1>10, <1>11, <1>12

\* The write begins where nothing was flushed yet: its bytes will be copied.
LEMMA WriteBegins ==
    ASSUME IInv, NEW s \in Sinks, NEW i \in Writes(s), Write(s, i), s \notin overlapped',
           ~(Offset[s][i] < flushed[s])
    PROVE  SinkInv(s)'
  <1>0. Base
    BY SinkFacts
  <1>1. /\ pc[s][0] = "idle" /\ result[s][i] = "todo" /\ s \notin overlapped
        /\ \A j \in Writes(s) : pc[s][j] = "idle"
        /\ buffered' = [buffered EXCEPT ![s] = Offset[s][i] - flushed[s]]
        /\ PcMoves(s, i, "copy") /\ LeftMoves(s, i, Plan[s][i])
        /\ UNCHANGED <<result, tries, outcome>>
        /\ UNCHANGED <<part_buffer, flushed, serverVars, poolVars, thrown, lost>>
    <2>1. /\ pc[s][0] = "idle" /\ result[s][i] = "todo"
          /\ s \notin overlapped' =>
                s \notin overlapped /\ \A j \in Writes(s) : pc[s][j] = "idle"
          /\ UNCHANGED <<part_buffer, flushed, serverVars, poolVars, thrown, lost>>
      BY <1>0, WriteKeepsBase
    <2>2. ~(Offset[s][i] < flushed[s]) =>
             /\ buffered' = [buffered EXCEPT ![s] = Offset[s][i] - flushed[s]]
             /\ PcMoves(s, i, "copy") /\ LeftMoves(s, i, Plan[s][i])
             /\ UNCHANGED <<result, tries, outcome>>
      BY <1>0, WriteKeepsBase
    <2> QED
      BY <2>1, <2>2
  <1> USE DEF serverVars
  <1>2. /\ SinkInv(s) /\ flushed[s] \in Nat /\ ~Working(s) /\ Cur(s) = 0 /\ At(s) = "idle"
        /\ outcome[s] = "open"
    BY <1>1, SinkFacts, OwnerInside DEF SinkInv, Stage
  <1>3. /\ Plan[s][i] \in Nat \ {0} /\ Offset[s][i] \in Nat /\ i \in Nat \ {0}
        /\ Offset[s][i] - flushed[s] \in Nat
        /\ End(s, i) = Offset[s][i] + Plan[s][i]
    BY <1>2, WriteNumbers
  <1>4. /\ buffered'[s] = Offset[s][i] - flushed[s]
        /\ Cur(s)' = i /\ At(s)' = "copy" /\ Left(s)' = Plan[s][i] /\ Working(s)'
        /\ OneCaller(s)'
    <2>1. buffered'[s] = Offset[s][i] - flushed[s]
      BY <1>0, <1>1, BaseFacts DEF GlobalTypes
    <2>2. pc'[s][i] = "copy" /\ left'[s][i] = Plan[s][i]
          /\ \A j \in Writes(s) : j # i => pc'[s][j] = "idle"
      BY <1>1, CallerFacts DEF PcMoves, LeftMoves
    <2> QED
      BY <2>1, <2>2, WriterInsideNext
  <1>10. /\ Reached(s)' = Offset[s][i] /\ ~Flushing(s)' /\ (Sound(s)' <=> Sound(s))
    BY <1>1, <1>2, <1>3, <1>4 DEF Reached, Sound, Flushing
  <1>11. CallState(s)'
    <2>1. Reached(s)' = End(s, i) - Plan[s][i] /\ Plan[s][i] > 0
      BY <1>3, <1>10
    <2> QED
      BY <1>4, <2>1 DEF CallState
  <1>12. Stage(s)'
    BY <1>1, <1>2, <1>4, <1>10 DEF SinkInv, Stage
  <1>13. TableLast(s)'
    <2>1. /\ result[s][Table(s)] = "todo" => flushed[s] <= Offset[s][Table(s)]
          /\ result[s][Table(s)] = "failed" => s \in lost \/ upload[s] = "without id"
      BY <1>2, PlanFacts DEF SinkInv, TableLast
    <2>2. result[s][Table(s)] = "todo"
      BY <1>0, <1>1, BaseFacts DEF Control
    <2> QED
      BY <1>1, <2>1, <2>2 DEF TableLast
  <1>14. Inside(s)'
    BY <1>1, <1>2 DEF SinkInv, Inside
  <1>15. LossIsSeen(s)'
    BY <1>1, <1>2, <1>3, <1>4 DEF SinkInv, LossIsSeen, Doomed
  <1>16. Content(s)'
    <2>1. \A p : Stored(s, p)' <=> Stored(s, p)
      BY <1>1 DEF Stored
    <2>2. Offset[s][i] .. Reached(s)' - 1 = {}
      BY <1>3, <1>10
    <2> QED
      BY <1>1, <1>2, <1>4, <1>10, <2>1, <2>2 DEF SinkInv, Content
  <1>17. Orderly(s)'
    <2> SUFFICES ASSUME InOrder(s)', Sound(s)'
                 PROVE  /\ \A j \in Writes(s) :
                             /\ j <= Len(begun'[s]) /\ i # j => result[s][j] = "ok"
                             /\ j > Len(begun'[s]) => /\ result[s][j] = "todo" /\ tries[s][j] = 0
                                                     /\ flushed[s] <= Offset[s][j]
                        /\ i = Len(begun'[s]) /\ buffered'[s] <= PartSize
      BY <1>1, <1>4 DEF Orderly
    <2>1. /\ i = Len(begun[s]) + 1 /\ InOrder(s) /\ Len(begun[s]) \in Nat
          /\ Len(begun'[s]) = i /\ Offset[s][i] - flushed[s] <= PartSize
      BY <1>10, BeginsInOrder
    <2>2. \A j \in Writes(s) :
             /\ j <= Len(begun[s]) => result[s][j] = "ok"
             /\ j > Len(begun[s]) => /\ result[s][j] = "todo" /\ tries[s][j] = 0
                                     /\ flushed[s] <= Offset[s][j]
      <3>1. \A j \in Writes(s) :
               /\ j <= Len(begun[s]) /\ Cur(s) # j => result[s][j] = "ok"
               /\ j > Len(begun[s]) => /\ result[s][j] = "todo" /\ tries[s][j] = 0
                                       /\ flushed[s] <= Offset[s][j]
        BY <1>2, <1>10, <2>1 DEF SinkInv, Orderly
      <3>2. \A j \in Writes(s) : Cur(s) # j
        BY <1>2, CallerFacts
      <3> QED
        BY <3>1, <3>2
    <2>3. PICK n \in Nat : n = Len(begun[s])
      BY <2>1
    <2>4. ASSUME NEW j \in Writes(s)
          PROVE  /\ j <= i /\ i # j => result[s][j] = "ok"
                 /\ j > i => /\ result[s][j] = "todo" /\ tries[s][j] = 0
                             /\ flushed[s] <= Offset[s][j]
      <3>1. j \in Nat /\ i = n + 1
        BY <2>1, <2>3, WriteNumbers
      <3>2. (j <= i /\ i # j => j <= n) /\ (j > i => j > n)
        BY <3>1
      <3> QED
        BY <2>2, <2>3, <3>2
    <2> QED
      BY <1>4, <2>1, <2>4
  <1>18. Final(s)'
    BY <1>1, <1>2 DEF Final
  <1> QED
    BY <1>4, <1>11, <1>12, <1>13, <1>14, <1>15, <1>16, <1>17, <1>18 DEF SinkInv

\* What was uploaded already cannot be written: the write returns false.
LEMMA WriteRefused ==
    ASSUME IInv, NEW s \in Sinks, NEW i \in Writes(s), Write(s, i), s \notin overlapped',
           Offset[s][i] < flushed[s]
    PROVE  SinkInv(s)'
  <1>0. Base
    BY SinkFacts
  <1>1. /\ pc[s][0] = "idle" /\ result[s][i] = "todo" /\ s \notin overlapped
        /\ \A j \in Writes(s) : pc[s][j] = "idle"
        /\ Returned(s, i, FALSE) /\ UNCHANGED buffered
        /\ UNCHANGED <<part_buffer, flushed, serverVars, poolVars, thrown, lost>>
    BY <1>0, WriteKeepsBase
  <1> USE DEF serverVars
  <1>2. /\ SinkInv(s) /\ flushed[s] \in Nat /\ ~Working(s) /\ Cur(s) = 0 /\ At(s) = "idle"
        /\ outcome[s] = "open"
    BY <1>1, SinkFacts, OwnerInside DEF SinkInv, Stage
  <1>3. i # Table(s) /\ i \in Nat /\ Offset[s][i] \in Nat /\ Table(s) \in Writes(s) /\ i # 0
    <2>1. Table(s) \in Nat \ {0} /\ Table(s) \in Writes(s) /\ i \in Nat /\ Offset[s][i] \in Nat
          /\ i # 0
      BY PlanFacts, CallerFacts
    <2>2. ASSUME i = Table(s) PROVE FALSE
      <3>1. flushed[s] <= Offset[s][i]
        BY <1>1, <1>2, <2>1, <2>2 DEF SinkInv, TableLast
      <3> QED
        BY <1>2, <2>1, <3>1
    <2> QED
      BY <2>1, <2>2
  <1>4. /\ outcome' = outcome
        /\ \A j \in Writes(s) \ {i} : /\ result'[s][j] = result[s][j]
                                      /\ tries'[s][j] = tries[s][j]
        /\ result'[s][i] \in {"todo", "failed"}
    BY <1>1 DEF Returned
  <1>5. /\ Cur(s)' = 0 /\ At(s)' = "idle" /\ ~Working(s)' /\ OneCaller(s)'
    <2>1. pc'[s][0] = "idle" /\ \A j \in Writes(s) : pc'[s][j] = "idle"
      BY <1>1, CallerFacts DEF Returned, PcMoves
    <2> QED
      BY <2>1, OwnerInsideNext
  <1>10. ~Flushing(s)' /\ Reached(s)' = Reached(s) /\ (Sound(s)' <=> Sound(s))
    BY <1>1, <1>5 DEF Reached, Sound, Flushing
  <1>11. CallState(s)'
    BY <1>5 DEF CallState
  <1>12. Stage(s)'
    BY <1>1, <1>2, <1>4, <1>5, <1>10 DEF SinkInv, Stage
  <1>13. TableLast(s)'
    BY <1>1, <1>2, <1>3, <1>4, <1>5, <1>10 DEF SinkInv, TableLast
  <1>14. Inside(s)'
    BY <1>1, <1>2, <1>4 DEF SinkInv, Inside
  <1>15. LossIsSeen(s)'
    BY <1>1, <1>2, <1>3, <1>4, <1>5 DEF SinkInv, LossIsSeen, Doomed
  <1>16. Content(s)'
    <2>1. \A p : Stored(s, p)' <=> Stored(s, p)
      BY <1>1 DEF Stored
    <2> QED
      BY <1>1, <1>2, <1>4, <1>5, <1>10, <2>1 DEF SinkInv, Content
  <1>17. Orderly(s)'
    BY <1>2, <1>3, <1>10, BeginsInOrder DEF Orderly
  <1>18. Final(s)'
    BY <1>2, <1>4 DEF Final
  <1> QED
    BY <1>5, <1>11, <1>12, <1>13, <1>14, <1>15, <1>16, <1>17, <1>18 DEF SinkInv

LEMMA WriteKeeps ==
    ASSUME IInv, NEW s \in Sinks, NEW i \in Writes(s), Write(s, i)
    PROVE  IInv'
  <1>1. Base' /\ \A u \in Sinks \ {s} : Same(u)
    BY SinkFacts, WriteKeepsBase
  <1> QED
    BY <1>1, WriteBegins, WriteRefused, StepKeeps
-----------------------------------------------------------------------------
(* The loop of write *)

\* An offset beyond the buffer: the bytes go past its end.
LEMMA CopyPastEndKeeps ==
    ASSUME IInv, NEW s \in Sinks, NEW i \in Writes(s), Copy(s, i), buffered[s] > PartSize
    PROVE  IInv'
  <1>1. /\ pc[s][i] = "copy" /\ Goto(s, i, "corrupt")
        /\ UNCHANGED <<part_buffer, buffered, callVars>>
        /\ UNCHANGED <<flushed, serverVars, poolVars, historyVars>>
    BY DEF Copy
  <1> USE DEF callVars, serverVars, historyVars
  <1>2. Base /\ GlobalTypes /\ PoolInv /\ BufferTypes(s) /\ CallerTypes(s) /\ Control(s)
    BY SinkFacts
  <1>3. i \in Callers(s) /\ i # 0 /\ \A j \in Writes(s) : j \in Callers(s)
    BY CallerFacts
  <1>4. PcMoves(s, i, "corrupt")
    BY <1>1, <1>2, <1>3, GotoMoves DEF WriterAt
  <1>5. LeftMoves(s, i, left[s][i]) /\ left[s][i] \in Nat /\ left[s][i] <= Plan[s][i]
    BY <1>1, <1>2, <1>3, LeftStays DEF CallerTypes
  <1>6. Open(s, i)
    BY <1>1, <1>2 DEF Control
  <1>7. CallerTypes(s)' /\ Control(s)'
    <2>1. "corrupt" \in WriterAt /\ begun'[s] \in Seq(Writes(s))
      BY <1>1, <1>2 DEF WriterAt, CallerTypes
    <2>2. UNCHANGED <<result, tries>>
      BY <1>1
    <2> QED
      BY <1>2, <1>4, <1>5, <1>6, <2>1, <2>2, WriterMovesOn
  <1>8. GlobalTypes'
    BY <1>1, <1>2, <1>4 DEF GlobalTypes, PcMoves, poolVars
  <1>9. PoolInv'
    <2>1. conn[s][i] = "none"
      BY <1>1, <1>2, <1>3, BaseFacts DEF Requests
    <2> QED
      BY <1>1, <1>2, <1>4, <1>8, <2>1, PoolStays DEF PcMoves
  <1>10. \A u \in Sinks \ {s} : Same(u)
    BY <1>1, <1>4 DEF Same, PcMoves
  <1>11. Base'
    <2>1. BufferTypes(s)'
      BY <1>1, <1>2 DEF BufferTypes
    <2> QED
      BY <1>2, <1>7, <1>9, <1>10, <2>1, StepKeepsBase
  <1>12. ASSUME s \notin overlapped PROVE SinkInv(s)'
    <2>1. SinkInv(s) /\ InCall(s, i)
      BY <1>1, <1>12, SinkFacts, CallFacts
    <2>2. /\ Cur(s)' = i /\ At(s)' = "corrupt" /\ Left(s)' = Left(s) /\ Working(s)'
          /\ OneCaller(s)' /\ Cur(s) = i /\ At(s) = "copy" /\ Working(s) /\ i # 0
          /\ outcome[s] = "open"
      <3>1. \A j \in Writes(s) : j # i => pc'[s][j] = "idle"
        BY <1>3, <1>4, <2>1 DEF InCall, PcMoves
      <3>2. pc'[s][i] = "corrupt" /\ left'[s][i] = left[s][i]
        BY <1>1, <1>4 DEF PcMoves
      <3>3. Cur(s) = i /\ At(s) = pc[s][i] /\ Left(s) = left[s][i] /\ Working(s) /\ i # 0
            /\ outcome[s] = "open"
        BY <2>1 DEF InCall
      <3> QED
        BY <1>1, <3>1, <3>2, <3>3, WriterInsideNext
    <2>3. ~Flushing(s)' /\ Reached(s)' = Reached(s)
          /\ (Sound(s)' <=> Sound(s)) /\ (InOrder(s)' <=> InOrder(s))
      BY <1>1, <2>2 DEF Reached, Sound, Flushing, InOrder
    <2>4. CallState(s)' /\ Stage(s)'
      BY <1>1, <2>1, <2>2, <2>3 DEF SinkInv, CallState, Stage
    <2>5. TableLast(s)' /\ Inside(s)' /\ LossIsSeen(s)'
      BY <1>1, <2>1, <2>2, <2>3 DEF SinkInv, TableLast, Inside, LossIsSeen, Doomed
    <2>6. Content(s)'
      BY <1>1, <2>1, <2>2, <2>3 DEF SinkInv, Content, Stored
    <2>7. Orderly(s)'
      <3>1. ~(InOrder(s) /\ Sound(s))
        <4>1. InOrder(s) /\ Sound(s) => buffered[s] <= PartSize
          BY <2>1, <2>2 DEF SinkInv, Orderly
        <4> QED
          BY <4>1, SinkFacts, PlanFacts
      <3> QED
        BY <2>3, <3>1 DEF Orderly
    <2>8. Final(s)'
      BY <1>1, <2>2 DEF Final
    <2> QED
      BY <2>2, <2>4, <2>5, <2>6, <2>7, <2>8 DEF SinkInv
  <1> QED
    BY <1>1, <1>10, <1>11, <1>12, StepKeeps

\* One turn of the loop copies the next k bytes behind those in the buffer.  The
\* buffer is full then, and is to become a part, or the write is done.
Copied(s, i, k) ==
    /\ k <= left[s][i] /\ buffered[s] + k <= PartSize
    /\ k = left[s][i] \/ buffered[s] + k = PartSize
    /\ buffered' = [buffered EXCEPT ![s] = buffered[s] + k]
    /\ \A u \in Sinks \ {s} : part_buffer'[u] = part_buffer[u]
    /\ DOMAIN part_buffer' = Sinks
    /\ part_buffer'[s] \in [1 .. PartSize -> Bytes(s)]
    /\ \A b \in 1 .. PartSize :
          part_buffer'[s][b] = IF b \in buffered[s] + 1 .. buffered[s] + k
                               THEN End(s, i) - left[s][i] + b - buffered[s] - 1
                               ELSE part_buffer[s][b]
    /\ buffered[s] + k < PartSize => Returned(s, i, TRUE)
    /\ ~(buffered[s] + k < PartSize) =>
          /\ PcMoves(s, i, "flush") /\ LeftMoves(s, i, left[s][i] - k)
          /\ UNCHANGED <<result, tries, outcome>>
    /\ UNCHANGED <<flushed, serverVars, poolVars, historyVars>>

LEMMA CopyFacts ==
    ASSUME Base, NEW s \in Sinks, NEW i \in Writes(s), Copy(s, i), buffered[s] <= PartSize
    PROVE  \E k \in Nat : Copied(s, i, k)
  <1>1. PICK rest, done, full : /\ rest = left[s][i]
                                /\ done = Plan[s][i] - rest /\ full = buffered[s]
    OBVIOUS
  <1>2. /\ GlobalTypes /\ BufferTypes(s) /\ CallerTypes(s) /\ Control(s)
        /\ full \in Nat /\ rest \in Nat /\ rest <= Plan[s][i] /\ full <= PartSize
        /\ i \in Callers(s) /\ Open(s, i)
    <2>1. GlobalTypes /\ BufferTypes(s) /\ CallerTypes(s) /\ Control(s) /\ i \in Callers(s)
      BY BaseFacts, CallerFacts
    <2>2. left[s][i] \in Nat /\ left[s][i] <= Plan[s][i] /\ buffered[s] \in Nat
      BY <2>1, BaseFacts DEF CallerTypes
    <2>3. Open(s, i)
      BY <2>1 DEF Copy, Control
    <2> QED
      BY <1>1, <2>1, <2>2, <2>3
  <1>3. /\ Plan[s][i] \in Nat /\ Offset[s][i] \in Nat /\ PartSize \in Nat /\ done \in Nat
        /\ End(s, i) <= End(s, Table(s)) /\ End(s, Table(s)) \in Nat /\ End(s, i) \in Nat
        /\ Offset[s][i] + done = End(s, i) - rest
    <2>1. /\ Plan[s][i] \in Nat /\ Offset[s][i] \in Nat /\ PartSize \in Nat
          /\ End(s, i) <= End(s, Table(s)) /\ End(s, Table(s)) \in Nat /\ End(s, i) \in Nat
          /\ Table(s) \in Writes(s)
      BY PlanFacts
    <2>2. done \in Nat
      BY <1>1, <1>2, <2>1
    <2>3. Offset[s][i] + done = End(s, i) - rest
      BY <1>1, <1>2, <2>1 DEF End
    <2> QED
      BY <2>1, <2>2, <2>3
  <1>4. PICK k : k = BytesToWrite(s, i)
    OBVIOUS
  <1>5. k = IF rest <= PartSize - full THEN rest ELSE PartSize - full
    BY <1>1, <1>2, <1>3, <1>4, MinFacts DEF BytesToWrite
  <1>6. /\ k \in Nat /\ k <= rest /\ full + k <= PartSize
        /\ k = rest \/ full + k = PartSize
    BY <1>2, <1>3, <1>5
  <1>7. ~(buffered[s] > PartSize)
    BY <1>1, <1>2, <1>3
  <1>8. part_buffer' = [part_buffer EXCEPT ![s] =
                          [b \in 1 .. PartSize |->
                             IF b \in full + 1 .. full + k
                             THEN Offset[s][i] + done + b - full - 1
                             ELSE @[b]]]
    BY <1>1, <1>4, <1>7 DEF Copy
  <1>9. /\ buffered' = [buffered EXCEPT ![s] = full + k]
        /\ IF full + k < PartSize
           THEN Returns(s, i, TRUE)
           ELSE /\ Goto(s, i, "flush")
                /\ left' = [left EXCEPT ![s][i] = @ - k]
                /\ UNCHANGED <<result, tries, outcome>>
        /\ UNCHANGED <<flushed, serverVars, poolVars, historyVars>>
    BY <1>1, <1>4, <1>7 DEF Copy
  <1>10. DOMAIN part_buffer' = Sinks /\ \A u \in Sinks \ {s} : part_buffer'[u] = part_buffer[u]
    BY <1>2, <1>8 DEF GlobalTypes
  <1>11. part_buffer'[s] = [b \in 1 .. PartSize |->
                              IF b \in full + 1 .. full + k
                              THEN Offset[s][i] + done + b - full - 1
                              ELSE part_buffer[s][b]]
    BY <1>2, <1>8 DEF GlobalTypes
  <1>12. PICK from \in Nat : from = Offset[s][i] + done
    BY <1>3
  <1>13. \A b \in 1 .. PartSize :
            part_buffer'[s][b] = IF b \in full + 1 .. full + k
                                 THEN from + b - full - 1 ELSE part_buffer[s][b]
    BY <1>11, <1>12
  <1>14. part_buffer'[s] \in [1 .. PartSize -> Bytes(s)]
    <2>1. \A b \in full + 1 .. full + k : from + b - full - 1 \in Bytes(s)
      <3>1. Bytes(s) = {Uninitialized} \cup 0 .. End(s, Table(s)) - 1
        <4>1. /\ Offset[s][Table(s)] \in Nat /\ Plan[s][Table(s)] \in Nat
              /\ End(s, Table(s)) = Offset[s][Table(s)] + Plan[s][Table(s)]
          BY PlanFacts DEF End
        <4>2. Offset[s][Table(s)] + Plan[s][Table(s)] - 1 = End(s, Table(s)) - 1
          BY <4>1
        <4> QED
          BY <4>2 DEF Bytes
      <3>2. from + k <= End(s, Table(s))
        BY <1>2, <1>3, <1>6, <1>12
      <3>3. ASSUME NEW b \in full + 1 .. full + k
            PROVE  from + b - full - 1 \in 0 .. End(s, Table(s)) - 1
        BY <1>2, <1>3, <1>6, <3>2
      <3> QED
        BY <3>1, <3>3
    <2>2. \A b \in 1 .. PartSize : part_buffer[s][b] \in Bytes(s)
      BY <1>2 DEF BufferTypes
    <2>3. \A b \in 1 .. PartSize : part_buffer'[s][b] \in Bytes(s)
      BY <1>13, <2>1, <2>2
    <2> QED
      BY <1>11, <2>3
  <1>15. \A b \in 1 .. PartSize :
            part_buffer'[s][b] = IF b \in buffered[s] + 1 .. buffered[s] + k
                                 THEN End(s, i) - left[s][i] + b - buffered[s] - 1
                                 ELSE part_buffer[s][b]
    <2>1. from = End(s, i) - left[s][i]
      BY <1>1, <1>3, <1>12
    <2> QED
      BY <1>1, <1>13, <2>1
  <1>16. buffered[s] + k < PartSize => Returned(s, i, TRUE)
    <2>1. result[s][i] = "todo"
      BY <1>2 DEF Open
    <2>2. buffered[s] + k < PartSize => Returns(s, i, TRUE)
      BY <1>1, <1>9
    <2> QED
      BY <2>1, <2>2, ReturnsFacts
  <1>17. ~(buffered[s] + k < PartSize) =>
            /\ PcMoves(s, i, "flush") /\ LeftMoves(s, i, left[s][i] - k)
            /\ UNCHANGED <<result, tries, outcome>>
    <2> SUFFICES ASSUME ~(buffered[s] + k < PartSize)
                 PROVE  /\ PcMoves(s, i, "flush") /\ LeftMoves(s, i, left[s][i] - k)
                        /\ UNCHANGED <<result, tries, outcome>>
      OBVIOUS
    <2>1. /\ Goto(s, i, "flush") /\ UNCHANGED <<result, tries, outcome>>
          /\ left' = [left EXCEPT ![s][i] = @ - k]
      BY <1>1, <1>9
    <2>2. PcMoves(s, i, "flush")
      BY <1>2, <2>1, GotoMoves DEF WriterAt
    <2>3. PICK less \in Nat : less = rest - k
      BY <1>2, <1>6
    <2>4. left' = [left EXCEPT ![s][i] = less]
      BY <1>1, <1>2, <2>1, <2>3 DEF GlobalTypes, CallerTypes
    <2>5. LeftMoves(s, i, less)
      BY <1>2, <2>4, LeftSet
    <2> QED
      BY <1>1, <2>1, <2>2, <2>3, <2>5
  <1> QED
    BY <1>1, <1>6, <1>9, <1>10, <1>14, <1>15, <1>16, <1>17 DEF Copied

\* Of every sink, whoever else is inside.
LEMMA CopiedKeepsBase ==
    ASSUME Base, NEW s \in Sinks, NEW i \in Writes(s), pc[s][i] = "copy", NEW k \in Nat,
           Copied(s, i, k)
    PROVE  Base' /\ \A u \in Sinks \ {s} : Same(u)
  <1> USE DEF serverVars, historyVars
  <1>1. /\ GlobalTypes /\ PoolInv /\ BufferTypes(s) /\ CallerTypes(s) /\ Control(s)
        /\ i \in Callers(s) /\ buffered[s] \in Nat /\ left[s][i] \in Nat /\ Open(s, i)
        /\ left[s][i] <= Plan[s][i] /\ Plan[s][i] \in Nat
    <2>1. GlobalTypes /\ PoolInv /\ BufferTypes(s) /\ CallerTypes(s) /\ Control(s)
          /\ i \in Callers(s) /\ buffered[s] \in Nat /\ Plan[s][i] \in Nat
      BY BaseFacts, CallerFacts, PlanFacts
    <2> QED
      BY <2>1 DEF CallerTypes, Control
  <1>2. /\ buffered' \in [Sinks -> Nat] /\ \A u \in Sinks \ {s} : buffered'[u] = buffered[u]
    <2>1. PICK all \in Nat : all = buffered[s] + k
      BY <1>1
    <2>2. buffered \in [Sinks -> Nat]
      BY <1>1 DEF GlobalTypes
    <2>3. buffered' = [buffered EXCEPT ![s] = all]
      BY <2>1 DEF Copied
    <2> QED
      BY <2>2, <2>3
  <1>3. /\ \A u \in Sinks \ {s} : part_buffer'[u] = part_buffer[u]
        /\ DOMAIN part_buffer' = Sinks /\ part_buffer'[s] \in [1 .. PartSize -> Bytes(s)]
        /\ UNCHANGED <<flushed, serverVars, poolVars, historyVars>>
        /\ k <= left[s][i]
    BY DEF Copied
  <1>4. BufferTypes(s)' /\ begun'[s] \in Seq(Writes(s))
    BY <1>1, <1>3 DEF BufferTypes, CallerTypes
  <1>5. conn[s][i] = "none"
    BY <1>1, BaseFacts DEF Requests
  <1>6. CASE buffered[s] + k < PartSize
    <2>1. Returned(s, i, TRUE)
      BY <1>6 DEF Copied
    <2>2. CallerTypes(s)' /\ Control(s)'
      BY <1>1, <1>4, <2>1, WriterReturns
    <2>3. GlobalTypes'
      BY <1>1, <1>2, <1>3, <2>1 DEF GlobalTypes, Returned, PcMoves, LeftMoves, poolVars
    <2>4. PoolInv'
      BY <1>1, <1>3, <1>5, <2>1, <2>3, PoolStays DEF Returned, PcMoves
    <2>5. \A u \in Sinks \ {s} : Same(u)
      BY <1>2, <1>3, <2>1 DEF Same, Returned, PcMoves, LeftMoves
    <2> QED
      BY <1>4, <2>2, <2>4, <2>5, StepKeepsBase
  <1>7. CASE ~(buffered[s] + k < PartSize)
    <2>1. /\ PcMoves(s, i, "flush") /\ LeftMoves(s, i, left[s][i] - k)
          /\ UNCHANGED <<result, tries, outcome>>
      BY <1>7 DEF Copied
    <2>2. CallerTypes(s)' /\ Control(s)'
      <3>1. left[s][i] - k \in Nat /\ left[s][i] - k <= Plan[s][i] /\ "flush" \in WriterAt
        BY <1>1, <1>3 DEF WriterAt
      <3> QED
        BY <1>1, <1>4, <2>1, <3>1, WriterMovesOn
    <2>3. GlobalTypes'
      BY <1>1, <1>2, <1>3, <2>1 DEF GlobalTypes, PcMoves, LeftMoves, poolVars
    <2>4. PoolInv'
      BY <1>1, <1>3, <1>5, <2>1, <2>3, PoolStays DEF PcMoves
    <2>5. \A u \in Sinks \ {s} : Same(u)
      BY <1>2, <1>3, <2>1 DEF Same, PcMoves, LeftMoves
    <2> QED
      BY <1>4, <2>2, <2>4, <2>5, StepKeepsBase
  <1> QED
    BY <1>6, <1>7

\* What was stored stays where it is, and so do the bytes of the call.
LEMMA CopyStores ==
    ASSUME IInv, NEW s \in Sinks, s \notin overlapped, NEW i \in Writes(s), pc[s][i] = "copy",
           NEW k \in Nat, Copied(s, i, k), Sound(s), outcome[s] = "open"
    PROVE  /\ Len(parts'[s]) = flushed'[s]
           /\ \A j \in Writes(s) : result[s][j] = "ok" =>
                 \A p \in Offset[s][j] .. End(s, j) - 1 : Stored(s, p)'
           /\ \A p \in Offset[s][i] .. (Reached(s) + k) - 1 : Stored(s, p)'
  <1>1. InCall(s, i)
    BY CallFacts
  <1>2. /\ SinkInv(s) /\ buffered[s] \in Nat /\ flushed[s] \in Nat /\ Working(s)
        /\ Cur(s) = i /\ result[s][i] = "todo" /\ left[s][i] \in Nat
        /\ Reached(s) = End(s, i) - left[s][i] /\ left[s][i] <= Plan[s][i]
    BY <1>1, SinkFacts DEF InCall
  <1>3. /\ \A j \in Writes(s) : result[s][j] = "ok" =>
              \A p \in Offset[s][j] .. End(s, j) - 1 : Stored(s, p)
        /\ \A p \in Offset[s][i] .. Reached(s) - 1 : Stored(s, p)
        /\ Len(parts[s]) = flushed[s]
    BY <1>2 DEF SinkInv, Content
  <1>11. /\ Reached(s) = flushed[s] + buffered[s] /\ End(s, i) = Offset[s][i] + Plan[s][i]
         /\ Offset[s][i] \in Nat /\ Plan[s][i] \in Nat /\ End(s, i) \in Nat /\ PartSize \in Nat
    BY PlanFacts DEF Reached, End
  <1>4. /\ k <= left[s][i] /\ buffered[s] + k <= PartSize
        /\ flushed' = flushed /\ parts' = parts
        /\ \A b \in 1 .. PartSize :
              part_buffer'[s][b] = IF b \in buffered[s] + 1 .. buffered[s] + k
                                   THEN flushed[s] + b - 1 ELSE part_buffer[s][b]
    <2>1. /\ k <= left[s][i] /\ buffered[s] + k <= PartSize
          /\ flushed' = flushed /\ parts' = parts
      BY DEF Copied, serverVars
    <2>2. \A b \in 1 .. PartSize :
              part_buffer'[s][b] = IF b \in buffered[s] + 1 .. buffered[s] + k
                                   THEN End(s, i) - left[s][i] + b - buffered[s] - 1
                                   ELSE part_buffer[s][b]
      BY DEF Copied
    <2>3. PICK f \in Nat, full \in Nat, e \in Nat, rest \in Nat :
             f = flushed[s] /\ full = buffered[s] /\ e = End(s, i) /\ rest = left[s][i]
      BY <1>2, <1>11
    <2>4. e - rest = f + full
      BY <1>2, <1>11, <2>3
    <2>5. \A b \in 1 .. PartSize : e - rest + b - full - 1 = f + b - 1
      BY <1>11, <2>4
    <2> QED
      BY <2>1, <2>2, <2>3, <2>5
  <1>5. /\ Reached(s) + k <= End(s, i) /\ Offset[s][i] <= Reached(s) /\ Reached(s) \in Nat
    BY <1>2, <1>4, <1>11
  <1>6. ASSUME NEW p \in Reached(s) .. (Reached(s) + k) - 1
        PROVE  Stored(s, p)'
    <2>1. PICK f \in Nat, full \in Nat, room \in Nat :
             f = flushed[s] /\ full = buffered[s] /\ room = PartSize
      BY <1>2, <1>11
    <2>2. /\ p \in Int /\ p >= f + full /\ p < f + full + k /\ full + k <= room
      BY <1>4, <1>5, <1>11, <2>1
    <2>3. PICK b \in Nat : b = p - f + 1
      BY <2>2
    <2>4. /\ p >= f /\ p - f < room /\ b \in 1 .. room /\ b \in full + 1 .. full + k
          /\ f + b - 1 = p
      BY <2>2, <2>3
    <2>5. part_buffer'[s][b] = p
      BY <1>4, <2>1, <2>4
    <2> QED
      BY <1>4, <2>1, <2>3, <2>4, <2>5 DEF Stored
  <1>7. ASSUME NEW p \in Int, Stored(s, p), p \notin Reached(s) .. (Reached(s) + k) - 1
        PROVE  Stored(s, p)'
    <2>1. CASE p < flushed[s] /\ parts[s][p + 1] = p
      BY <1>4, <2>1 DEF Stored
    <2>2. CASE /\ p >= flushed[s] /\ p - flushed[s] < PartSize
               /\ part_buffer[s][p - flushed[s] + 1] = p
      <3>1. /\ p - flushed[s] + 1 \in 1 .. PartSize
            /\ p - flushed[s] + 1 \notin buffered[s] + 1 .. buffered[s] + k
        BY <1>2, <1>4, <1>5, <1>7, <1>11, <2>2
      <3> QED
        BY <1>4, <2>2, <3>1 DEF Stored
    <2> QED
      BY <1>7, <2>1, <2>2 DEF Stored
  <1>8. ASSUME NEW j \in Writes(s), result[s][j] = "ok",
               NEW p \in Offset[s][j] .. End(s, j) - 1
        PROVE  Stored(s, p)'
    <2>1. Stored(s, p) /\ j # i
      BY <1>2, <1>3, <1>8
    <2>2. /\ Offset[s][j] \in Nat /\ End(s, j) \in Nat /\ p \in Int
          /\ p >= Offset[s][j] /\ p < End(s, j)
      BY PlanFacts
    <2>3. End(s, j) <= Offset[s][i] \/ End(s, i) <= Offset[s][j]
      <3>1. i \in Nat /\ j \in Nat
        BY WriteNumbers
      <3>2. j < i \/ i < j
        BY <2>1, <3>1
      <3> QED
        BY <1>2, <3>2, PlanFacts
    <2>4. p \notin Reached(s) .. (Reached(s) + k) - 1
      <3>1. PICK r \in Nat, e \in Nat : r = Reached(s) /\ e = End(s, i)
        BY <1>5, <1>11
      <3>2. r + k <= e /\ Offset[s][i] <= r
        BY <1>5, <3>1
      <3>3. p \notin r .. (r + k) - 1
        BY <1>11, <2>2, <2>3, <3>1, <3>2
      <3> QED
        BY <3>1, <3>3
    <2> QED
      BY <1>7, <2>1, <2>2, <2>4
  <1>9. ASSUME NEW p \in Offset[s][i] .. (Reached(s) + k) - 1
        PROVE  Stored(s, p)'
    <2>1. p \in Int /\ (p \in Offset[s][i] .. Reached(s) - 1 \/ p \in Reached(s) .. (Reached(s) + k) - 1)
      BY <1>5, <1>11
    <2> QED
      BY <1>3, <1>6, <1>7, <2>1
  <1> QED
    BY <1>3, <1>4, <1>8, <1>9

\* All of the write is in the buffer, and the buffer is not full: acknowledged.
LEMMA CopyAcknowledgedKeeps ==
    ASSUME IInv, NEW s \in Sinks, s \notin overlapped, NEW i \in Writes(s), pc[s][i] = "copy",
           NEW k \in Nat, Copied(s, i, k), buffered[s] + k < PartSize
    PROVE  SinkInv(s)'
  <1>1. /\ Base /\ GlobalTypes /\ SinkInv(s) /\ InCall(s, i)
        /\ buffered[s] \in Nat /\ flushed[s] \in Nat /\ left[s][i] \in Nat
    BY SinkFacts, CallFacts DEF InCall
  <1>2. /\ Cur(s) = i /\ At(s) = "copy" /\ Left(s) = left[s][i] /\ Working(s) /\ i # 0
        /\ outcome[s] = "open" /\ result[s][i] = "todo" /\ result[s][Table(s)] = "todo"
    BY <1>1 DEF InCall
  <1>3. PICK full \in Nat, before \in Nat, rest \in Nat :
           full = buffered[s] /\ before = flushed[s] /\ rest = left[s][i]
    BY <1>1
  <1>4. PICK end \in Nat, room \in Nat : end = End(s, i) /\ room = PartSize
    BY PlanFacts
  <1>5. /\ k = rest /\ end = before + (full + k) /\ full + k < room
        /\ Reached(s) = before + full
    <2>1. k = left[s][i] \/ buffered[s] + k = PartSize
      BY DEF Copied
    <2>2. Reached(s) = End(s, i) - left[s][i]
      BY <1>1 DEF InCall
    <2>3. k = rest \/ full + k = room
      BY <1>3, <1>4, <2>1
    <2>4. Reached(s) = end - rest
      BY <1>3, <1>4, <2>2
    <2>5. full + k < room
      BY <1>3, <1>4
    <2>6. Reached(s) = before + full
      BY <1>3 DEF Reached
    <2> QED
      BY <2>3, <2>4, <2>5, <2>6
  <1>6. /\ Returned(s, i, TRUE)
        /\ buffered' = [buffered EXCEPT ![s] = buffered[s] + k]
        /\ UNCHANGED <<flushed, serverVars, poolVars, historyVars>>
    BY DEF Copied
  <1> USE DEF serverVars, historyVars
  <1>8. /\ outcome' = outcome
        /\ \A j \in Writes(s) \ {i} : /\ result'[s][j] = result[s][j]
                                      /\ tries'[s][j] = tries[s][j]
        /\ result'[s][i] = "ok"
    BY <1>6 DEF Returned
  <1>9. buffered'[s] = full + k
    BY <1>1, <1>3, <1>6 DEF GlobalTypes
  <1>14. /\ Cur(s)' = 0 /\ At(s)' = "idle" /\ ~Working(s)' /\ OneCaller(s)' /\ ~Flushing(s)'
    <2>1. pc'[s][0] = "idle" /\ \A j \in Writes(s) : pc'[s][j] = "idle"
      BY <1>1, <1>6, CallerFacts DEF Returned, PcMoves, InCall
    <2>2. Cur(s)' = 0 /\ At(s)' = "idle" /\ ~Working(s)' /\ OneCaller(s)'
      BY <2>1, OwnerInsideNext
    <2> QED
      BY <2>2 DEF Flushing
  <1>15. (Sound(s)' <=> Sound(s)) /\ (InOrder(s)' <=> InOrder(s))
    BY <1>6 DEF Sound, InOrder
  <1>16. Reached(s)' = end
    <2>1. flushed'[s] = before
      BY <1>3, <1>6
    <2> QED
      BY <1>5, <1>9, <2>1 DEF Reached
  <1>17. CallState(s)'
    BY <1>14 DEF CallState
  <1>18. Stage(s)'
    <2>1. buffered'[s] <= PartSize
      BY <1>4, <1>5, <1>9
    <2> QED
      BY <1>1, <1>2, <1>6, <1>8, <1>14, <2>1 DEF SinkInv, Stage
  <1>19. TableLast(s)'
    <2>1. CASE i = Table(s)
      BY <1>4, <1>8, <1>16, <2>1 DEF TableLast
    <2>2. CASE i # Table(s)
      <3>1. result[s][Table(s)] = "todo" /\ result'[s][Table(s)] = "todo"
        BY <1>2, <1>8, <2>2, PlanFacts
      <3>2. flushed[s] <= Offset[s][Table(s)]
        BY <1>1, <1>2, <2>2, <3>1 DEF SinkInv, TableLast
      <3> QED
        BY <1>6, <3>1, <3>2 DEF TableLast
    <2> QED
      BY <2>1, <2>2
  <1>20. Inside(s)'
    <2>1. End(s, i) < flushed'[s] + PartSize
      BY <1>3, <1>4, <1>5, <1>6
    <2> QED
      BY <1>1, <1>6, <1>8, <2>1 DEF SinkInv, Inside
  <1>21. LossIsSeen(s)'
    <2>1. ASSUME NEW j \in Writes(s), Doomed(s, j) PROVE Doomed(s, j)'
      <3>1. j # i
        BY <1>2, <2>1 DEF Doomed
      <3>2. result'[s][j] = result[s][j] /\ flushed' = flushed
        BY <1>6, <1>8, <3>1
      <3>3. j # 0
        BY CallerFacts
      <3> QED
        BY <1>14, <2>1, <3>2, <3>3 DEF Doomed
    <2> QED
      BY <1>1, <1>6, <1>8, <2>1 DEF SinkInv, LossIsSeen
  <1>22. Content(s)'
    <2> SUFFICES ASSUME Sound(s)
                 PROVE  /\ Len(parts'[s]) = flushed'[s]
                        /\ \A j \in Writes(s) : result'[s][j] = "ok" =>
                              \A p \in Offset[s][j] .. End(s, j) - 1 : Stored(s, p)'
      BY <1>14, <1>15 DEF Content
    <2>1. /\ Len(parts'[s]) = flushed'[s]
          /\ \A j \in Writes(s) : result[s][j] = "ok" =>
                \A p \in Offset[s][j] .. End(s, j) - 1 : Stored(s, p)'
          /\ \A p \in Offset[s][i] .. (Reached(s) + k) - 1 : Stored(s, p)'
      BY <1>2, CopyStores
    <2>2. \A p \in Offset[s][i] .. end - 1 : Stored(s, p)'
      <3>1. (Reached(s) + k) - 1 = end - 1
        BY <1>5
      <3> QED
        BY <2>1, <3>1
    <2> QED
      BY <1>4, <1>8, <2>1, <2>2
  <1>23. Orderly(s)'
    <2> SUFFICES ASSUME InOrder(s), Sound(s)
                 PROVE  \A j \in Writes(s) :
                           /\ j <= Len(begun[s]) => result'[s][j] = "ok"
                           /\ j > Len(begun[s]) => /\ result'[s][j] = "todo"
                                                   /\ tries'[s][j] = 0
                                                   /\ flushed[s] <= Offset[s][j]
      BY <1>6, <1>14, <1>15 DEF Orderly
    <2>1. /\ \A j \in Writes(s) :
                /\ j <= Len(begun[s]) /\ i # j => result[s][j] = "ok"
                /\ j > Len(begun[s]) => /\ result[s][j] = "todo" /\ tries[s][j] = 0
                                        /\ flushed[s] <= Offset[s][j]
          /\ i = Len(begun[s])
      BY <1>1, <1>2 DEF SinkInv, Orderly
    <2> SUFFICES ASSUME NEW j \in Writes(s)
                 PROVE  /\ j <= i => result'[s][j] = "ok"
                        /\ j > i => /\ result'[s][j] = "todo" /\ tries'[s][j] = 0
                                    /\ flushed[s] <= Offset[s][j]
      BY <2>1
    <2>2. i \in Nat /\ j \in Nat
      BY WriteNumbers
    <2>3. CASE j = i
      BY <1>8, <2>2, <2>3
    <2>4. CASE j # i
      BY <1>8, <2>1, <2>4
    <2> QED
      BY <2>3, <2>4
  <1>24. Final(s)'
    BY <1>2, <1>8 DEF Final
  <1> QED
    BY <1>14, <1>17, <1>18, <1>19, <1>20, <1>21, <1>22, <1>23, <1>24 DEF SinkInv

\* The buffer is full: it goes on to be a part.
LEMMA CopyFullKeeps ==
    ASSUME IInv, NEW s \in Sinks, s \notin overlapped, NEW i \in Writes(s), pc[s][i] = "copy",
           NEW k \in Nat, Copied(s, i, k), ~(buffered[s] + k < PartSize)
    PROVE  SinkInv(s)'
  <1>1. /\ Base /\ GlobalTypes /\ SinkInv(s) /\ InCall(s, i)
        /\ buffered[s] \in Nat /\ flushed[s] \in Nat /\ left[s][i] \in Nat
    BY SinkFacts, CallFacts DEF InCall
  <1>2. /\ Cur(s) = i /\ At(s) = "copy" /\ Left(s) = left[s][i] /\ Working(s) /\ i # 0
        /\ outcome[s] = "open" /\ result[s][i] = "todo" /\ result[s][Table(s)] = "todo"
    BY <1>1 DEF InCall
  <1>3. PICK full \in Nat, before \in Nat, rest \in Nat :
           full = buffered[s] /\ before = flushed[s] /\ rest = left[s][i]
    BY <1>1
  <1>4. PICK end \in Nat, room \in Nat : end = End(s, i) /\ room = PartSize
    BY PlanFacts
  <1>5. /\ rest - k \in Nat /\ full + k = room /\ before + room = end - (rest - k)
        /\ Reached(s) = before + full
    <2>1. k <= rest /\ full + k <= room
      BY <1>3, <1>4 DEF Copied
    <2>2. Reached(s) = end - rest
      BY <1>1, <1>3, <1>4 DEF InCall
    <2>3. ~(full + k < room)
      BY <1>3, <1>4
    <2>4. Reached(s) = before + full
      BY <1>3 DEF Reached
    <2> QED
      BY <2>1, <2>2, <2>3, <2>4
  <1>6. /\ PcMoves(s, i, "flush") /\ LeftMoves(s, i, rest - k)
        /\ buffered' = [buffered EXCEPT ![s] = full + k]
        /\ UNCHANGED <<result, tries, outcome>>
        /\ UNCHANGED <<flushed, serverVars, poolVars, historyVars>>
    BY <1>3 DEF Copied
  <1> USE DEF serverVars, historyVars
  <1>7. buffered'[s] = PartSize
    BY <1>1, <1>4, <1>5, <1>6 DEF GlobalTypes
  <1>8. /\ Cur(s)' = i /\ At(s)' = "flush" /\ Left(s)' = rest - k /\ Working(s)'
        /\ OneCaller(s)' /\ ~Flushing(s)'
    <2>1. /\ pc'[s][i] = "flush" /\ left'[s][i] = rest - k
          /\ \A j \in Writes(s) : j # i => pc'[s][j] = "idle"
      BY <1>1, <1>6, CallerFacts DEF PcMoves, LeftMoves, InCall
    <2>2. Cur(s)' = i /\ At(s)' = "flush" /\ Left(s)' = rest - k /\ Working(s)' /\ OneCaller(s)'
      BY <2>1, WriterInsideNext
    <2> QED
      BY <2>2 DEF Flushing
  <1>16. (Sound(s)' <=> Sound(s)) /\ (InOrder(s)' <=> InOrder(s))
    BY <1>6 DEF Sound, InOrder
  <1>17. Reached(s)' = end - (rest - k) /\ Reached(s)' = Reached(s) + k
    <2>1. flushed'[s] = before
      BY <1>3, <1>6
    <2>2. Reached(s)' = before + room
      BY <1>4, <1>7, <2>1 DEF Reached
    <2> QED
      BY <1>5, <2>2
  <1>18. CallState(s)'
    BY <1>4, <1>8, <1>17 DEF CallState
  <1>19. Stage(s)'
    <2>1. buffered'[s] <= PartSize
      BY <1>4, <1>7
    <2> QED
      BY <1>1, <1>2, <1>6, <1>7, <1>8, <2>1 DEF SinkInv, Stage
  <1>20. TableLast(s)'
    BY <1>1, <1>2, <1>6, <1>8 DEF SinkInv, TableLast
  <1>21. Inside(s)'
    BY <1>1, <1>6 DEF SinkInv, Inside
  <1>22. LossIsSeen(s)'
    BY <1>1, <1>2, <1>6, <1>8 DEF SinkInv, LossIsSeen, Doomed
  <1>23. Content(s)'
    <2> SUFFICES ASSUME Sound(s)
                 PROVE  /\ Len(parts'[s]) = flushed'[s]
                        /\ \A j \in Writes(s) : result[s][j] = "ok" =>
                              \A p \in Offset[s][j] .. End(s, j) - 1 : Stored(s, p)'
                        /\ \A p \in Offset[s][i] .. Reached(s)' - 1 : Stored(s, p)'
      BY <1>6, <1>8, <1>16 DEF Content
    <2>1. /\ Len(parts'[s]) = flushed'[s]
          /\ \A j \in Writes(s) : result[s][j] = "ok" =>
                \A p \in Offset[s][j] .. End(s, j) - 1 : Stored(s, p)'
          /\ \A p \in Offset[s][i] .. (Reached(s) + k) - 1 : Stored(s, p)'
      BY <1>2, CopyStores
    <2>2. \A p \in Offset[s][i] .. Reached(s)' - 1 : Stored(s, p)'
      BY <1>17, <2>1
    <2> QED
      BY <2>1, <2>2
  <1>24. Orderly(s)'
    BY <1>1, <1>2, <1>6, <1>8, <1>16 DEF SinkInv, Orderly
  <1>25. Final(s)'
    BY <1>2, <1>6 DEF Final
  <1> QED
    BY <1>8, <1>18, <1>19, <1>20, <1>21, <1>22, <1>23, <1>24, <1>25 DEF SinkInv

LEMMA CopyKeeps ==
    ASSUME IInv, NEW s \in Sinks, NEW i \in Writes(s), Copy(s, i)
    PROVE  IInv'
  <1>1. pc[s][i] = "copy"
    BY DEF Copy
  <1>2. CASE buffered[s] > PartSize
    BY <1>2, CopyPastEndKeeps
  <1>3. CASE buffered[s] <= PartSize
    <2>1. PICK k \in Nat : Copied(s, i, k)
      BY <1>3, CopyFacts, SinkFacts
    <2>2. Base' /\ \A u \in Sinks \ {s} : Same(u)
      BY <1>1, <2>1, CopiedKeepsBase, SinkFacts
    <2>3. s \notin overlapped' => SinkInv(s)'
      <3>1. overlapped' = overlapped
        BY <2>1 DEF Copied, historyVars
      <3> QED
        BY <1>1, <2>1, <3>1, CopyAcknowledgedKeeps, CopyFullKeeps
    <2> QED
      BY <2>2, <2>3, StepKeeps
  <1> QED
    BY <1>2, <1>3, SinkFacts, PlanFacts
-----------------------------------------------------------------------------
(* Asking for the upload *)

\* Of every sink, whoever else is inside.
LEMMA FlushPartKeepsBase ==
    ASSUME Base, NEW s \in Sinks, NEW i \in Writes(s), FlushPart(s, i)
    PROVE  /\ Base' /\ \A u \in Sinks \ {s} : Same(u)
           /\ pc[s][i] = "flush"
           /\ UNCHANGED <<bufferVars, parts, object, poolVars, historyVars>>
           /\ buffered[s] > 0 =>
                 /\ PcMoves(s, i, IF upload[s] = "none" THEN "create" ELSE "part")
                 /\ upload'[s] = IF upload[s] = "none" THEN "asked" ELSE upload[s]
                 /\ UNCHANGED callVars
  <1> USE DEF bufferVars, historyVars, callVars
  <1>1. /\ pc[s][i] = "flush"
        /\ upload' = [upload EXCEPT ![s] = IF buffered[s] > 0 /\ @ = "none" THEN "asked" ELSE @]
        /\ UNCHANGED <<bufferVars, parts, object, poolVars, historyVars>>
    BY DEF FlushPart
  <1>2. /\ GlobalTypes /\ PoolInv /\ BufferTypes(s) /\ CallerTypes(s) /\ Control(s)
        /\ i \in Callers(s) /\ Open(s, i) /\ buffered[s] \in Nat
        /\ left[s][i] \in Nat /\ left[s][i] <= Plan[s][i]
    <2>1. GlobalTypes /\ PoolInv /\ BufferTypes(s) /\ CallerTypes(s) /\ Control(s)
          /\ i \in Callers(s) /\ buffered[s] \in Nat
      BY BaseFacts, CallerFacts
    <2> QED
      BY <1>1, <2>1 DEF CallerTypes, Control
  <1>3. /\ upload' \in [Sinks -> {"none", "asked", "without id", "open"}]
        /\ upload'[s] = IF buffered[s] > 0 /\ upload[s] = "none" THEN "asked" ELSE upload[s]
        /\ \A u \in Sinks \ {s} : upload'[u] = upload[u]
    <2>1. upload \in [Sinks -> {"none", "asked", "without id", "open"}]
      BY <1>2 DEF GlobalTypes
    <2> QED
      BY <1>1, <2>1
  <1>4. BufferTypes(s)' /\ begun'[s] \in Seq(Writes(s))
    BY <1>1, <1>2 DEF BufferTypes, CallerTypes
  <1>5. conn[s][i] = "none"
    BY <1>1, <1>2, BaseFacts DEF Requests
  <1>6. CASE buffered[s] = 0
    <2>1. Returned(s, i, FALSE)
      <3>1. Returns(s, i, FALSE) /\ result[s][i] = "todo"
        BY <1>2, <1>6 DEF FlushPart, Open
      <3> QED
        BY <3>1, ReturnsFacts
    <2>2. CallerTypes(s)' /\ Control(s)'
      BY <1>2, <1>4, <2>1, WriterReturns
    <2>3. GlobalTypes'
      BY <1>1, <1>2, <1>3, <2>1 DEF GlobalTypes, Returned, PcMoves, LeftMoves, poolVars
    <2>4. PoolInv'
      BY <1>1, <1>2, <1>5, <2>1, <2>3, PoolStays DEF Returned, PcMoves
    <2>5. \A u \in Sinks \ {s} : Same(u)
      BY <1>1, <1>3, <2>1 DEF Same, Returned, PcMoves, LeftMoves
    <2>6. Base'
      BY <1>4, <2>2, <2>4, <2>5, StepKeepsBase
    <2> QED
      BY <1>1, <1>6, <2>5, <2>6
  <1>7. CASE buffered[s] # 0
    <2>1. PICK next \in {"create", "part"} :
             next = IF upload[s] = "none" THEN "create" ELSE "part"
      OBVIOUS
    <2>2. Goto(s, i, next) /\ UNCHANGED callVars
      BY <1>7, <2>1 DEF FlushPart
    <2>3. PcMoves(s, i, next)
      BY <1>2, <2>2, GotoMoves DEF WriterAt
    <2>4. LeftMoves(s, i, left[s][i])
      BY <1>2, <2>2, LeftStays
    <2>5. CallerTypes(s)' /\ Control(s)'
      <3>1. next \in WriterAt
        BY DEF WriterAt
      <3> QED
        BY <1>2, <1>4, <2>2, <2>3, <2>4, <3>1, WriterMovesOn
    <2>6. GlobalTypes'
      BY <1>1, <1>2, <1>3, <2>2, <2>3 DEF GlobalTypes, PcMoves, poolVars
    <2>7. PoolInv'
      BY <1>1, <1>2, <1>5, <2>3, <2>6, PoolStays DEF PcMoves
    <2>8. \A u \in Sinks \ {s} : Same(u)
      BY <1>1, <1>3, <2>2, <2>3 DEF Same, PcMoves
    <2>9. Base'
      BY <1>4, <2>5, <2>7, <2>8, StepKeepsBase
    <2> QED
      BY <1>1, <1>3, <2>1, <2>2, <2>3, <2>8, <2>9
  <1> QED
    BY <1>6, <1>7

LEMMA FlushPartKeeps ==
    ASSUME IInv, NEW s \in Sinks, NEW i \in Writes(s), FlushPart(s, i)
    PROVE  IInv'
  <1> USE DEF bufferVars, historyVars, callVars
  <1>1. Base' /\ \A u \in Sinks \ {s} : Same(u)
    BY SinkFacts, FlushPartKeepsBase
  <1>2. /\ pc[s][i] = "flush"
        /\ UNCHANGED <<bufferVars, parts, object, poolVars, historyVars>>
    BY SinkFacts, FlushPartKeepsBase
  <1>3. buffered[s] > 0 =>
           /\ PcMoves(s, i, IF upload[s] = "none" THEN "create" ELSE "part")
           /\ upload'[s] = IF upload[s] = "none" THEN "asked" ELSE upload[s]
           /\ UNCHANGED callVars
    BY SinkFacts, FlushPartKeepsBase
  <1>4. ASSUME s \notin overlapped PROVE SinkInv(s)'
    <2>1. SinkInv(s) /\ InCall(s, i)
      BY <1>2, <1>4, SinkFacts, CallFacts
    <2>2. /\ Cur(s) = i /\ At(s) = "flush" /\ Left(s) = left[s][i] /\ Working(s) /\ i # 0
          /\ outcome[s] = "open"
      BY <1>2, <2>1 DEF InCall
    <2>3. buffered[s] = PartSize /\ upload[s] # "asked"
      BY <2>1, <2>2 DEF SinkInv, Stage
    <2>4. PICK next \in {"create", "part"} :
             next = IF upload[s] = "none" THEN "create" ELSE "part"
      OBVIOUS
    <2>5. /\ PcMoves(s, i, next) /\ UNCHANGED callVars
          /\ upload'[s] = IF upload[s] = "none" THEN "asked" ELSE upload[s]
      BY <1>3, <2>3, <2>4, PlanFacts
    <2>6. /\ Cur(s)' = i /\ At(s)' = next /\ Left(s)' = Left(s) /\ Working(s)' /\ OneCaller(s)'
      <3>1. /\ pc'[s][i] = next /\ left'[s][i] = left[s][i]
            /\ \A j \in Writes(s) : j # i => pc'[s][j] = "idle"
        BY <2>1, <2>5, CallerFacts DEF PcMoves, InCall
      <3> QED
        BY <2>2, <2>4, <3>1, WriterInsideNext
    <2>7. ~Flushing(s)' /\ Reached(s)' = Reached(s)
          /\ (Sound(s)' <=> Sound(s)) /\ (InOrder(s)' <=> InOrder(s))
      BY <1>2, <2>4, <2>5, <2>6 DEF Reached, Sound, Flushing, InOrder
    <2>8. CallState(s)'
      BY <2>1, <2>2, <2>4, <2>6, <2>7 DEF SinkInv, CallState
    <2>9. Stage(s)'
      BY <1>2, <2>1, <2>2, <2>3, <2>4, <2>5, <2>6, <2>7 DEF SinkInv, Stage
    <2>10. TableLast(s)' /\ Inside(s)' /\ LossIsSeen(s)'
      BY <1>2, <2>1, <2>2, <2>5, <2>6, <2>7
         DEF SinkInv, TableLast, Inside, LossIsSeen, Doomed
    <2>11. Content(s)'
      BY <1>2, <2>1, <2>2, <2>5, <2>6, <2>7 DEF SinkInv, Content, Stored
    <2>12. Orderly(s)'
      BY <1>2, <2>1, <2>2, <2>4, <2>5, <2>6, <2>7 DEF SinkInv, Orderly
    <2>13. Final(s)'
      BY <2>2, <2>5 DEF Final
    <2> QED
      BY <2>6, <2>8, <2>9, <2>10, <2>11, <2>12, <2>13 DEF SinkInv
  <1> QED
    BY <1>1, <1>2, <1>4, StepKeeps

\* The server has the upload.
Created(s, i) ==
    /\ Answered(s, i, "create")
    /\ upload' = [upload EXCEPT ![s] = "open"]
    /\ Goto(s, i, "part")
    /\ ReturnConnection(s, i)
    /\ UNCHANGED <<callVars, historyVars>>
    /\ UNCHANGED <<bufferVars, parts, object>>

LEMMA UploadCreatedKeeps ==
    ASSUME IInv, NEW s \in Sinks, NEW i \in Writes(s), Created(s, i)
    PROVE  IInv'
  <1> USE DEF callVars, historyVars, bufferVars
  <1>1. /\ pc[s][i] = "create" /\ conn[s][i] = "holds" /\ Goto(s, i, "part")
        /\ upload' = [upload EXCEPT ![s] = "open"] /\ ReturnConnection(s, i)
        /\ UNCHANGED <<callVars, historyVars>> /\ UNCHANGED <<bufferVars, parts, object>>
    BY DEF Created, Answered
  <1>2. /\ Base /\ GlobalTypes /\ PoolInv /\ BufferTypes(s) /\ CallerTypes(s) /\ Control(s)
        /\ i \in Callers(s) /\ Open(s, i) /\ left[s][i] \in Nat /\ left[s][i] <= Plan[s][i]
    <2>1. /\ Base /\ GlobalTypes /\ PoolInv /\ BufferTypes(s) /\ CallerTypes(s) /\ Control(s)
          /\ i \in Callers(s)
      BY SinkFacts, CallerFacts
    <2> QED
      BY <1>1, <2>1 DEF CallerTypes, Control
  <1>3. /\ upload' \in [Sinks -> {"none", "asked", "without id", "open"}]
        /\ upload'[s] = "open" /\ \A u \in Sinks \ {s} : upload'[u] = upload[u]
    <2>1. upload \in [Sinks -> {"none", "asked", "without id", "open"}]
      BY <1>2 DEF GlobalTypes
    <2> QED
      BY <1>1, <2>1
  <1>4. PcMoves(s, i, "part") /\ LeftMoves(s, i, left[s][i])
    BY <1>1, <1>2, GotoMoves, LeftStays DEF WriterAt
  <1>5. /\ Leaves(s, i) /\ idle' \in Nat /\ DOMAIN conn' = Sinks
        /\ \A u \in Sinks : conn'[u] \in [Callers(u) -> Links]
    BY <1>1, <1>2, ReturnLeaves
  <1>6. GlobalTypes'
    BY <1>1, <1>2, <1>3, <1>4, <1>5 DEF GlobalTypes, PcMoves
  <1>7. PoolInv'
    BY <1>2, <1>4, <1>5, <1>6, ConnectionLeft DEF PcMoves
  <1>8. \A u \in Sinks \ {s} : Same(u)
    BY <1>1, <1>3, <1>4 DEF Same, PcMoves
  <1>9. Base'
    <2>1. BufferTypes(s)' /\ begun'[s] \in Seq(Writes(s)) /\ "part" \in WriterAt
      BY <1>1, <1>2 DEF BufferTypes, CallerTypes, WriterAt
    <2>2. CallerTypes(s)' /\ Control(s)'
      BY <1>1, <1>2, <1>4, <2>1, WriterMovesOn
    <2> QED
      BY <1>2, <1>7, <1>8, <2>1, <2>2, StepKeepsBase
  <1>10. ASSUME s \notin overlapped PROVE SinkInv(s)'
    <2>1. SinkInv(s) /\ InCall(s, i)
      BY <1>1, <1>10, SinkFacts, CallFacts
    <2>2. /\ Cur(s) = i /\ At(s) = "create" /\ Left(s) = left[s][i] /\ Working(s) /\ i # 0
          /\ outcome[s] = "open" /\ ~(s \in lost) /\ upload[s] = "asked"
      <3>1. /\ Cur(s) = i /\ At(s) = "create" /\ Left(s) = left[s][i] /\ Working(s) /\ i # 0
            /\ outcome[s] = "open"
        BY <1>1, <2>1 DEF InCall
      <3> QED
        BY <2>1, <3>1 DEF SinkInv, Stage
    <2>3. /\ Cur(s)' = i /\ At(s)' = "part" /\ Left(s)' = Left(s) /\ Working(s)' /\ OneCaller(s)'
      <3>1. /\ pc'[s][i] = "part" /\ left'[s][i] = left[s][i]
            /\ \A j \in Writes(s) : j # i => pc'[s][j] = "idle"
        BY <1>1, <1>4, <2>1, CallerFacts DEF PcMoves, InCall
      <3> QED
        BY <2>2, <3>1, WriterInsideNext
    <2>4. ~Flushing(s)' /\ Reached(s)' = Reached(s)
          /\ Sound(s)' /\ Sound(s) /\ (InOrder(s)' <=> InOrder(s))
      BY <1>1, <1>3, <2>2, <2>3 DEF Reached, Sound, Flushing, InOrder
    <2>5. CallState(s)'
      BY <2>1, <2>2, <2>3, <2>4 DEF SinkInv, CallState
    <2>6. Stage(s)'
      BY <1>1, <1>3, <2>1, <2>2, <2>3, <2>4 DEF SinkInv, Stage
    <2>7. TableLast(s)' /\ Inside(s)' /\ LossIsSeen(s)'
      BY <1>1, <1>3, <2>1, <2>2, <2>3, <2>4 DEF SinkInv, TableLast, Inside, LossIsSeen
    <2>8. Content(s)'
      BY <1>1, <2>1, <2>2, <2>3, <2>4 DEF SinkInv, Content, Stored
    <2>9. Orderly(s)' /\ Final(s)'
      BY <1>1, <2>1, <2>2, <2>3, <2>4 DEF SinkInv, Orderly, Final
    <2> QED
      BY <2>3, <2>5, <2>6, <2>7, <2>8, <2>9 DEF SinkInv
  <1> QED
    BY <1>1, <1>8, <1>9, <1>10, StepKeeps

\* The exception ends the write for good: nothing was lost, but without an id
\* nothing will be uploaded.
CreateThrows(s, i) ==
    /\ Answered(s, i, "create")
    /\ upload' = [upload EXCEPT ![s] = "without id"]
    /\ pc' = [pc EXCEPT ![s][i] = "idle", ![s][0] = IF i = Table(s) THEN "gone" ELSE @]
    /\ left' = [left EXCEPT ![s][i] = 0]
    /\ result' = [result EXCEPT ![s][i] = "failed"]
    /\ DropConnection(s, i)
    /\ UNCHANGED <<tries, outcome>>
    /\ UNCHANGED <<bufferVars, parts, object>>

LEMMA CreateThrowsKeeps ==
    ASSUME IInv, NEW s \in Sinks, NEW i \in Writes(s), CreateThrows(s, i)
    PROVE  IInv'
  <1> USE DEF bufferVars
  <1>1. /\ pc[s][i] = "create" /\ conn[s][i] = "holds"
        /\ upload' = [upload EXCEPT ![s] = "without id"]
        /\ left' = [left EXCEPT ![s][i] = 0]
        /\ result' = [result EXCEPT ![s][i] = "failed"]
        /\ DropConnection(s, i) /\ UNCHANGED <<tries, outcome>>
        /\ UNCHANGED <<bufferVars, parts, object, begun, lost, overlapped>>
    BY DEF CreateThrows, Answered, DropConnection
  <1>2. /\ Base /\ GlobalTypes /\ PoolInv /\ BufferTypes(s) /\ CallerTypes(s) /\ Control(s)
        /\ i \in Callers(s) /\ i # 0 /\ 0 \in Callers(s) /\ Open(s, i)
        /\ \A j \in Writes(s) : j \in Callers(s) /\ j # 0
    <2>1. /\ Base /\ GlobalTypes /\ PoolInv /\ BufferTypes(s) /\ CallerTypes(s) /\ Control(s)
          /\ i \in Callers(s) /\ i # 0 /\ 0 \in Callers(s)
          /\ \A j \in Writes(s) : j \in Callers(s) /\ j # 0
      BY SinkFacts, CallerFacts
    <2> QED
      BY <1>1, <2>1 DEF Control
  <1>3. /\ upload' \in [Sinks -> {"none", "asked", "without id", "open"}]
        /\ upload'[s] = "without id" /\ \A u \in Sinks \ {s} : upload'[u] = upload[u]
    <2>1. upload \in [Sinks -> {"none", "asked", "without id", "open"}]
      BY <1>2 DEF GlobalTypes
    <2> QED
      BY <1>1, <2>1
  <1>4. PICK next \in {"idle", "gone"} : next = IF i = Table(s) THEN "gone" ELSE "idle"
    OBVIOUS
  <1>5. /\ DOMAIN pc' = Sinks /\ pc'[s] \in [Callers(s) -> OwnerAt \cup WriterAt]
        /\ pc'[s][i] = "idle" /\ pc'[s][0] = next
        /\ \A j \in Callers(s) : j # i /\ j # 0 => pc'[s][j] = pc[s][j]
        /\ \A u \in Sinks : u # s => pc'[u] = pc[u]
    <2>1. DOMAIN pc = Sinks /\ pc[s] \in [Callers(s) -> OwnerAt \cup WriterAt]
          /\ pc[s][0] = "idle"
      BY <1>2 DEF GlobalTypes, CallerTypes, Open
    <2>2. pc' = [pc EXCEPT ![s][i] = "idle", ![s][0] = IF i = Table(s) THEN "gone" ELSE @]
      BY DEF CreateThrows
    <2>3. pc'[s] = [pc[s] EXCEPT ![i] = "idle", ![0] = next] /\ DOMAIN pc' = Sinks
          /\ \A u \in Sinks : u # s => pc'[u] = pc[u]
      BY <1>2, <1>4, <2>1, <2>2
    <2>4. "idle" \in OwnerAt /\ next \in OwnerAt
      BY DEF OwnerAt
    <2> QED
      BY <1>2, <2>1, <2>3, <2>4
  <1>6. LeftMoves(s, i, 0)
    BY <1>1, <1>2, LeftSet
  <1>7. /\ DOMAIN result' = Sinks /\ result'[s] \in [Writes(s) -> Results]
        /\ result'[s][i] = "failed" /\ \A j \in Writes(s) : j # i => result'[s][j] = result[s][j]
        /\ \A u \in Sinks : u # s => result'[u] = result[u]
    <2>1. DOMAIN result = Sinks /\ result[s] \in [Writes(s) -> Results] /\ "failed" \in Results
      BY <1>2 DEF GlobalTypes, CallerTypes, Results
    <2> QED
      BY <1>1, <2>1, Updated
  <1>8. /\ Leaves(s, i) /\ idle' \in Nat /\ thrown' \in Nat /\ DOMAIN conn' = Sinks
        /\ \A u \in Sinks : conn'[u] \in [Callers(u) -> Links]
    BY <1>1, <1>2, DropLeaves
  <1>9. GlobalTypes'
    BY <1>1, <1>2, <1>3, <1>5, <1>6, <1>7, <1>8 DEF GlobalTypes, LeftMoves
  <1>10. PoolInv'
    <2>1. conn[s][0] = "none"
      BY <1>2, BaseFacts DEF Open, Requests
    <2> QED
      BY <1>2, <1>5, <1>8, <1>9, <2>1, ConnectionLeft
  <1>11. \A u \in Sinks \ {s} : Same(u)
    BY <1>1, <1>3, <1>5, <1>6, <1>7 DEF Same, LeftMoves
  <1>12. CallerTypes(s)'
    <2>1. \A j \in Writes(s) : pc'[s][j] \in WriterAt /\ left'[s][j] <= Plan[s][j]
      <3>1. Plan[s][i] \in Nat
        BY PlanFacts
      <3>2. pc'[s][i] \in WriterAt /\ left'[s][i] <= Plan[s][i]
        BY <1>5, <1>6, <3>1 DEF WriterAt, LeftMoves
      <3> QED
        BY <1>2, <1>5, <1>6, <3>2 DEF CallerTypes, LeftMoves
    <2> QED
      BY <1>1, <1>2, <1>5, <1>6, <1>7, <2>1 DEF CallerTypes, LeftMoves, OwnerAt
  <1>13. i # Table(s) => result[s][Table(s)] = "todo" /\ result'[s][Table(s)] = "todo"
    BY <1>2, <1>7, PlanFacts DEF Control, Open
  <1>14. i = Table(s) => \A j \in Writes(s) : result'[s][j] # "todo" /\ pc'[s][j] = "idle"
    <2> SUFFICES ASSUME i = Table(s), NEW j \in Writes(s)
                 PROVE  result'[s][j] # "todo" /\ pc'[s][j] = "idle"
      OBVIOUS
    <2>1. CASE j = i
      BY <1>5, <1>7, <2>1
    <2>2. CASE j # i
      <3>1. j \in 1 .. Table(s) - 1
        BY <2>2, PlanFacts
      <3>2. result[s][j] # "todo"
        BY <1>2, <3>1 DEF Open
      <3>3. pc[s][j] = "idle"
        BY <1>2, <3>2 DEF Control, Open
      <3> QED
        BY <1>2, <1>5, <1>7, <2>2, <3>2, <3>3
    <2> QED
      BY <2>1, <2>2
  <1>15. Control(s)'
    <2>1. ASSUME NEW j \in Writes(s), pc'[s][j] # "idle" PROVE Open(s, j)'
      <3>1. i # Table(s) /\ j # i /\ pc'[s][0] = "idle"
        BY <1>4, <1>5, <1>14, <2>1
      <3>2. Open(s, j)
        BY <1>2, <1>5, <2>1, <3>1 DEF Control
      <3>3. j # Table(s)
        <4>1. ASSUME j = Table(s) PROVE FALSE
          <5>1. i \in 1 .. Table(s) - 1
            BY <3>1, PlanFacts
          <5> QED
            BY <1>2, <3>2, <4>1, <5>1 DEF Open
        <4> QED
          BY <4>1
      <3> QED
        BY <1>7, <3>1, <3>2, <3>3 DEF Open
    <2>2. \A j \in Writes(s) : result'[s][j] = "todo" => tries'[s][j] < Tries(s, j)
      BY <1>1, <1>2, <1>7 DEF Control
    <2> QED
      BY <1>13, <1>14, <2>1, <2>2 DEF Control
  <1>16. Base'
    <2>1. BufferTypes(s)'
      BY <1>1, <1>2 DEF BufferTypes
    <2> QED
      BY <1>2, <1>10, <1>11, <1>12, <1>15, <2>1, StepKeepsBase
  <1>17. ASSUME s \notin overlapped PROVE SinkInv(s)'
    <2>1. SinkInv(s) /\ InCall(s, i)
      BY <1>1, <1>17, SinkFacts, CallFacts
    <2>2. /\ Cur(s) = i /\ At(s) = "create" /\ Working(s) /\ outcome[s] = "open"
          /\ result[s][i] = "todo" /\ result[s][Table(s)] = "todo"
      BY <1>1, <2>1 DEF InCall
    <2>3. /\ Cur(s)' = 0 /\ At(s)' = next /\ ~Working(s)' /\ OneCaller(s)' /\ ~Flushing(s)'
      <3>1. \A j \in Writes(s) : pc'[s][j] = "idle"
        BY <1>2, <1>5, <2>1 DEF InCall
      <3>2. Cur(s)' = 0 /\ At(s)' = next /\ ~Working(s)' /\ OneCaller(s)'
        BY <1>5, <3>1, OwnerInsideNext
      <3> QED
        BY <3>2 DEF Flushing
    <2>4. Reached(s)' = Reached(s) /\ ~Sound(s)' /\ (s \in lost' <=> s \in lost)
          /\ buffered[s] = PartSize /\ s \notin lost
      BY <1>1, <1>3, <2>1, <2>2 DEF Reached, Sound, SinkInv, Stage
    <2>5. CallState(s)'
      BY <2>3 DEF CallState
    <2>6. Stage(s)'
      <3>1. buffered'[s] <= PartSize
        <4>1. buffered'[s] = PartSize
          BY <1>1, <2>4
        <4>2. PartSize \in Nat
          BY PlanFacts
        <4> QED
          BY <4>1, <4>2
      <3> QED
        BY <1>1, <1>3, <2>1, <2>2, <2>3, <2>4, <3>1 DEF SinkInv, Stage
    <2>7. TableLast(s)'
      <3>1. CASE i = Table(s)
        BY <1>3, <1>7, <3>1 DEF TableLast
      <3>2. CASE i # Table(s)
        <4>1. flushed'[s] <= Offset[s][Table(s)]
          BY <1>1, <2>1, <2>2, <3>2 DEF SinkInv, TableLast
        <4> QED
          BY <1>13, <3>2, <4>1 DEF TableLast
      <3> QED
        BY <3>1, <3>2
    <2>8. Inside(s)'
      BY <1>1, <1>7, <2>1 DEF SinkInv, Inside
    <2>9. LossIsSeen(s)' /\ Content(s)' /\ Orderly(s)'
      BY <2>4 DEF LossIsSeen, Content, Orderly
    <2>10. Final(s)'
      BY <1>1, <2>2 DEF Final
    <2> QED
      BY <2>3, <2>5, <2>6, <2>7, <2>8, <2>9, <2>10 DEF SinkInv
  <1> QED
    BY <1>1, <1>11, <1>16, <1>17, StepKeeps

LEMMA CreateUploadKeeps ==
    ASSUME IInv, NEW s \in Sinks, NEW i \in Writes(s), CreateUpload(s, i)
    PROVE  IInv'
  <1>1. Created(s, i) \/ CreateThrows(s, i)
    BY DEF CreateUpload, Created, CreateThrows
  <1> QED
    BY <1>1, UploadCreatedKeeps, CreateThrowsKeeps
-----------------------------------------------------------------------------
(* Uploading parts *)

\* What a request sends of the buffer.
LEMMA BufferedFacts ==
    ASSUME Base, NEW s \in Sinks
    PROVE  /\ Buffered(s) \in Seq(Bytes(s)) /\ Len(Buffered(s)) = buffered[s]
           /\ DOMAIN Buffered(s) = 1 .. buffered[s]
           /\ buffered[s] <= PartSize =>
                 \A b \in 1 .. buffered[s] : Buffered(s)[b] = part_buffer[s][b]
  <1>0. PICK full \in Nat, room \in Nat : full = buffered[s] /\ room = PartSize
    BY BaseFacts, PlanFacts
  <1>1. PICK bytes, buffer, sent :
           bytes = Bytes(s) /\ buffer = part_buffer[s] /\ sent = Buffered(s)
    OBVIOUS
  <1>2. buffer \in [1 .. room -> bytes] /\ Uninitialized \in bytes
    BY <1>0, <1>1, BaseFacts DEF BufferTypes, Bytes
  <1>3. sent = [b \in 1 .. full |-> IF b <= room THEN buffer[b] ELSE Uninitialized]
    BY <1>0, <1>1 DEF Buffered
  <1>4. sent \in [1 .. full -> bytes]
    <2>1. \A b \in 1 .. full : (IF b <= room THEN buffer[b] ELSE Uninitialized) \in bytes
      <3> SUFFICES ASSUME NEW b \in 1 .. full, b <= room PROVE buffer[b] \in bytes
        BY <1>2
      <3>1. b \in 1 .. room
        OBVIOUS
      <3> QED
        BY <1>2, <3>1
    <2> QED
      BY <1>3, <2>1
  <1>5. sent \in Seq(bytes)
    BY <1>4, SeqDef
  <1>6. Len(sent) \in Nat /\ DOMAIN sent = 1 .. Len(sent)
    BY <1>5, LenProperties
  <1>7. Len(sent) = full
    <2>1. PICK n \in Nat : n = Len(sent)
      BY <1>6
    <2>2. 1 .. n = 1 .. full
      BY <1>4, <1>6, <2>1
    <2>3. n = full
      <3>1. n >= 1 => n \in 1 .. full
        BY <2>2
      <3>2. full >= 1 => full \in 1 .. n
        BY <2>2
      <3> QED
        BY <3>1, <3>2
    <2> QED
      BY <2>1, <2>3
  <1>8. full <= room => \A b \in 1 .. full : sent[b] = buffer[b]
    BY <1>3
  <1> QED
    BY <1>0, <1>1, <1>4, <1>5, <1>7, <1>8

\* The server took the part, or not; what it does to the buffer and the upload.
Uploaded(s, i, ok) ==
    /\ Answered(s, i, "part") /\ (ok => upload[s] = "open")
    /\ parts' = IF ok THEN [parts EXCEPT ![s] = @ \o Buffered(s)] ELSE parts
    /\ lost' = IF ok THEN lost ELSE lost \cup {s}
    /\ flushed' = [flushed EXCEPT ![s] = FlushedAfterPart(s)]
    /\ buffered' = [buffered EXCEPT ![s] = 0]
    /\ ReturnConnection(s, i)
    /\ UNCHANGED <<part_buffer, upload, object, thrown, begun, overlapped>>

\* The same of every sink, whoever else is inside.
Sent(s, i, ok) ==
    /\ pc[s][i] = "part" /\ conn[s][i] = "holds"
    /\ flushed' \in [Sinks -> Nat] /\ buffered' \in [Sinks -> Nat]
    /\ flushed'[s] = Reached(s) /\ buffered'[s] = 0
    /\ DOMAIN parts' = Sinks /\ parts'[s] \in Seq(Bytes(s))
    /\ parts'[s] = IF ok THEN parts[s] \o Buffered(s) ELSE parts[s]
    /\ \A u \in Sinks \ {s} : /\ flushed'[u] = flushed[u] /\ buffered'[u] = buffered[u]
                              /\ parts'[u] = parts[u] /\ (u \in lost' <=> u \in lost)
    /\ lost' \subseteq Sinks /\ (s \in lost' <=> (s \in lost \/ ~ok))
    /\ Leaves(s, i) /\ idle' \in Nat /\ DOMAIN conn' = Sinks
    /\ \A u \in Sinks : conn'[u] \in [Callers(u) -> Links]
    /\ UNCHANGED <<part_buffer, upload, object, thrown, begun, overlapped>>

LEMMA PartIsSent ==
    ASSUME Base, NEW s \in Sinks, NEW i \in Callers(s), NEW ok \in BOOLEAN, Uploaded(s, i, ok)
    PROVE  Sent(s, i, ok)
  <1>1. /\ GlobalTypes /\ BufferTypes(s) /\ buffered[s] \in Nat /\ flushed[s] \in Nat
        /\ pc[s][i] = "part" /\ conn[s][i] = "holds"
    BY BaseFacts DEF Uploaded, Answered
  <1>2. PICK all \in Nat : all = Reached(s)
    BY <1>1 DEF Reached
  <1>3. /\ flushed' \in [Sinks -> Nat] /\ flushed'[s] = all
        /\ \A u \in Sinks \ {s} : flushed'[u] = flushed[u]
    <2>1. flushed \in [Sinks -> Nat]
      BY <1>1 DEF GlobalTypes
    <2>2. flushed' = [flushed EXCEPT ![s] = all]
      BY <1>2 DEF Uploaded, FlushedAfterPart, Reached
    <2> QED
      BY <2>1, <2>2
  <1>4. /\ buffered' \in [Sinks -> Nat] /\ buffered'[s] = 0
        /\ \A u \in Sinks \ {s} : buffered'[u] = buffered[u]
    <2>1. buffered \in [Sinks -> Nat]
      BY <1>1 DEF GlobalTypes
    <2>2. buffered' = [buffered EXCEPT ![s] = 0]
      BY DEF Uploaded
    <2> QED
      BY <2>1, <2>2
  <1>5. PICK bytes, old, new : bytes = Bytes(s) /\ old = parts[s] /\ new = Buffered(s)
    OBVIOUS
  <1>6. old \in Seq(bytes) /\ new \in Seq(bytes) /\ DOMAIN parts = Sinks
    BY <1>1, <1>5, BufferedFacts DEF BufferTypes, GlobalTypes
  <1>7. old \o new \in Seq(bytes)
    BY <1>6, ConcatProperties
  <1>8. /\ DOMAIN parts' = Sinks /\ parts'[s] = IF ok THEN old \o new ELSE old
        /\ \A u \in Sinks \ {s} : parts'[u] = parts[u]
    <2>1. parts' = IF ok THEN [parts EXCEPT ![s] = old \o new] ELSE parts
      BY <1>5 DEF Uploaded
    <2> QED
      BY <1>5, <1>6, <2>1
  <1>9. parts'[s] \in Seq(bytes)
    BY <1>6, <1>7, <1>8
  <1>10. /\ lost' \subseteq Sinks /\ (s \in lost' <=> (s \in lost \/ ~ok))
         /\ \A u \in Sinks \ {s} : u \in lost' <=> u \in lost
    BY <1>1 DEF Uploaded, GlobalTypes
  <1>11. /\ Leaves(s, i) /\ idle' \in Nat /\ DOMAIN conn' = Sinks
         /\ \A u \in Sinks : conn'[u] \in [Callers(u) -> Links]
    BY <1>1, ReturnLeaves DEF Uploaded
  <1>12. UNCHANGED <<part_buffer, upload, object, thrown, begun, overlapped>>
    BY DEF Uploaded
  <1> QED
    BY <1>1, <1>2, <1>3, <1>4, <1>5, <1>8, <1>9, <1>10, <1>11, <1>12 DEF Sent

\* The step's effect on what a caller alone reads and writes.
CallerMoves(s, i) ==
    /\ DOMAIN pc' = Sinks /\ DOMAIN left' = Sinks /\ DOMAIN result' = Sinks
    /\ DOMAIN tries' = Sinks /\ outcome' \in [Sinks -> {"open", "ok", "failed"}]
    /\ \A j \in Callers(s) : j # i => pc'[s][j] = pc[s][j]
    /\ \A u \in Sinks \ {s} : /\ pc'[u] = pc[u] /\ left'[u] = left[u]
                              /\ result'[u] = result[u] /\ tries'[u] = tries[u]
                              /\ outcome'[u] = outcome[u]

LEMMA PartKeepsBase ==
    ASSUME Base, NEW s \in Sinks, NEW i \in Callers(s), NEW ok \in BOOLEAN, Sent(s, i, ok),
           CallerMoves(s, i), CallerTypes(s)', Control(s)'
    PROVE  Base' /\ \A u \in Sinks \ {s} : Same(u)
  <1>1. /\ GlobalTypes /\ PoolInv /\ BufferTypes(s)
        /\ UNCHANGED <<part_buffer, upload, object, thrown, begun, overlapped>>
    BY BaseFacts DEF Sent
  <1>2. GlobalTypes'
    BY <1>1 DEF GlobalTypes, Sent, CallerMoves
  <1>3. PoolInv'
    <2>1. \A u \in Sinks : \A j \in Callers(u) :
             ~(u = s /\ j = i) /\ conn[u][j] # "none" => pc'[u][j] = pc[u][j]
      BY DEF CallerMoves
    <2>2. Leaves(s, i)
      BY DEF Sent
    <2> QED
      BY <1>1, <1>2, <2>1, <2>2, ConnectionLeft
  <1>4. \A u \in Sinks \ {s} : Same(u)
    BY <1>1 DEF Same, Sent, CallerMoves
  <1>5. BufferTypes(s)'
    BY <1>1 DEF BufferTypes, Sent
  <1> QED
    BY <1>3, <1>4, <1>5, StepKeepsBase

\* All that was copied is flushed, and what was stored in the buffer is stored
\* in the part.
PartFlushed(s, ok) ==
    /\ flushed'[s] = Reached(s) /\ buffered'[s] = 0 /\ Reached(s)' = Reached(s)
    /\ flushed[s] <= flushed'[s] /\ 0 <= PartSize /\ Reached(s) \in Nat /\ flushed[s] \in Nat
    /\ (s \in lost' <=> (s \in lost \/ ~ok))
    /\ (Sound(s)' <=> Sound(s) /\ ok) /\ (InOrder(s)' <=> InOrder(s))
    /\ outcome[s] = "open" /\ ok /\ Sound(s) =>
          /\ Len(parts'[s]) = flushed'[s]
          /\ \A p \in Nat : Stored(s, p) /\ p < Reached(s) => Stored(s, p)'
    /\ UNCHANGED <<upload, begun>>

LEMMA PartFacts ==
    ASSUME IInv, NEW s \in Sinks, s \notin overlapped, NEW i \in Callers(s),
           NEW ok \in BOOLEAN, Sent(s, i, ok), buffered[s] <= PartSize
    PROVE  PartFlushed(s, ok)
  <1>1. /\ Base /\ GlobalTypes /\ BufferTypes(s) /\ SinkInv(s)
        /\ UNCHANGED <<part_buffer, upload, object, thrown, begun, overlapped>>
    BY SinkFacts DEF Sent
  <1>2. PICK full \in Nat, before \in Nat, room \in Nat :
           full = buffered[s] /\ before = flushed[s] /\ room = PartSize
    BY SinkFacts, PlanFacts
  <1>3. full <= room /\ Reached(s) = before + full /\ before + full \in Nat
    BY <1>2 DEF Reached
  <1>4. flushed'[s] = before + full /\ buffered'[s] = 0
    BY <1>3 DEF Sent
  <1>5. Reached(s)' = before + full
    BY <1>4 DEF Reached
  <1>6. PICK bytes, old, new : bytes = Bytes(s) /\ old = parts[s] /\ new = Buffered(s)
    OBVIOUS
  <1>7. /\ new \in Seq(bytes) /\ Len(new) = full
        /\ \A b \in 1 .. full : new[b] = part_buffer[s][b]
    BY <1>1, <1>2, <1>6, BufferedFacts
  <1>8. old \in Seq(bytes) /\ Len(old) \in Nat
    BY <1>1, <1>6, LenProperties DEF BufferTypes
  <1>9. /\ Len(old \o new) = Len(old) + full
        /\ \A b \in 1 .. Len(old) + full :
              (old \o new)[b] = IF b <= Len(old) THEN old[b] ELSE new[b - Len(old)]
    BY <1>7, <1>8, ConcatProperties
  <1>10. parts'[s] = IF ok THEN old \o new ELSE old
    BY <1>6 DEF Sent
  <1>11. s \in lost' <=> (s \in lost \/ ~ok)
    BY DEF Sent
  <1>12. (Sound(s)' <=> Sound(s) /\ ok) /\ (InOrder(s)' <=> InOrder(s))
    BY <1>1, <1>11 DEF Sound, InOrder
  <1>13. ASSUME outcome[s] = "open", ok, Sound(s)
         PROVE  /\ Len(parts'[s]) = flushed'[s]
                /\ \A p \in Nat : Stored(s, p) /\ p < Reached(s) => Stored(s, p)'
    <2>1. Len(old) = before
      BY <1>1, <1>2, <1>6, <1>13 DEF SinkInv, Content
    <2>2. Len(parts'[s]) = flushed'[s]
      BY <1>4, <1>9, <1>10, <1>13, <2>1
    <2>3. ASSUME NEW p \in Nat, Stored(s, p), p < before + full
          PROVE  parts'[s][p + 1] = p
      <3>1. p + 1 \in 1 .. before + full
        BY <1>3, <2>3
      <3>2. parts'[s][p + 1] = IF p + 1 <= before THEN old[p + 1] ELSE new[p + 1 - before]
        BY <1>9, <1>10, <1>13, <2>1, <3>1
      <3>3. CASE p < before
        <4>1. parts[s][p + 1] = p
          BY <1>2, <2>3, <3>3 DEF Stored
        <4> QED
          BY <1>6, <3>2, <3>3, <4>1
      <3>4. CASE ~(p < before)
        <4>1. part_buffer[s][p - before + 1] = p
          BY <1>2, <2>3, <3>4 DEF Stored
        <4>2. p + 1 - before \in 1 .. full /\ p + 1 - before = p - before + 1
              /\ ~(p + 1 <= before)
          BY <2>3, <3>4
        <4>3. new[p + 1 - before] = part_buffer[s][p - before + 1]
          BY <1>7, <4>2
        <4> QED
          BY <3>2, <4>1, <4>2, <4>3
      <3> QED
        BY <3>3, <3>4
    <2> QED
      BY <1>3, <1>4, <2>2, <2>3 DEF Stored
  <1> QED
    BY <1>1, <1>2, <1>3, <1>4, <1>5, <1>11, <1>12, <1>13 DEF PartFlushed

\* Every write that is acknowledged has been copied to before the flushed bytes
\* end: in the middle of a write the buffer is full, and at the flush the table
\* is behind them all.
LEMMA AckedIsFlushed ==
    ASSUME IInv, NEW s \in Sinks, s \notin overlapped, At(s) \in {"part", "put", "complete"},
           Sound(s), outcome[s] = "open", NEW j \in Writes(s), result[s][j] = "ok"
    PROVE  End(s, j) <= Reached(s)
  <1>1. SinkInv(s) /\ buffered[s] \in Nat /\ flushed[s] \in Nat /\ CallerTypes(s)
    BY SinkFacts
  <1>2. /\ End(s, j) \in Nat /\ End(s, Table(s)) \in Nat /\ End(s, j) <= End(s, Table(s))
        /\ PartSize \in Nat /\ Table(s) \in Writes(s)
    BY PlanFacts
  <1>3. CASE Working(s)
    <2>1. Cur(s) \in Writes(s) /\ pc[s][Cur(s)] # "idle"
      <3>1. \E i \in Writes(s) : pc[s][i] # "idle"
        BY <1>3 DEF Working, Cur, Writing
      <3>2. PICK i \in Writes(s) : pc[s][i] # "idle"
        BY <3>1
      <3>3. \A k \in Writes(s) : k # i => pc[s][k] = "idle"
        BY <1>1, <3>2 DEF SinkInv, OneCaller
      <3> QED
        BY <3>2, <3>3, WriterInside
    <2>2. At(s) = "part"
      BY <1>1, <2>1 DEF At, CallerTypes, WriterAt
    <2>3. End(s, j) < flushed[s] + PartSize /\ buffered[s] = PartSize
      BY <1>1, <1>3, <2>2 DEF SinkInv, Inside, Stage
    <2> QED
      BY <1>1, <1>2, <2>3 DEF Reached
  <1>4. CASE ~Working(s)
    <2>1. result[s][Table(s)] # "todo"
      BY <1>1, <1>4 DEF SinkInv, Stage, Flushing
    <2>2. result[s][Table(s)] # "failed"
      BY <1>1 DEF SinkInv, TableLast, Sound
    <2>3. result[s][Table(s)] = "ok"
      BY <1>1, <1>2, <2>1, <2>2 DEF CallerTypes, Results
    <2>4. Reached(s) = End(s, Table(s))
      BY <1>1, <2>3 DEF SinkInv, TableLast
    <2> QED
      BY <1>2, <2>4
  <1> QED
    BY <1>3, <1>4

LEMMA PartStores ==
    ASSUME IInv, NEW s \in Sinks, s \notin overlapped, NEW ok \in BOOLEAN, At(s) = "part",
           outcome[s] = "open", PartFlushed(s, ok), Sound(s), ok
    PROVE  /\ Len(parts'[s]) = flushed'[s]
           /\ \A j \in Writes(s) : result[s][j] = "ok" =>
                 \A p \in Offset[s][j] .. End(s, j) - 1 : Stored(s, p)'
           /\ \A i \in Writes(s) : Working(s) /\ Cur(s) = i =>
                 \A p \in Offset[s][i] .. Reached(s) - 1 : Stored(s, p)'
  <1>1. /\ Len(parts'[s]) = flushed'[s]
        /\ \A p \in Nat : Stored(s, p) /\ p < Reached(s) => Stored(s, p)'
    BY DEF PartFlushed
  <1>2. SinkInv(s) /\ Reached(s) \in Nat
    BY SinkFacts
  <1>3. ASSUME NEW j \in Writes(s), result[s][j] = "ok",
               NEW p \in Offset[s][j] .. End(s, j) - 1
        PROVE  Stored(s, p)'
    <2>1. Offset[s][j] \in Nat /\ End(s, j) \in Nat
      BY PlanFacts
    <2>2. Stored(s, p)
      BY <1>2, <1>3 DEF SinkInv, Content
    <2>3. End(s, j) <= Reached(s)
      BY <1>3, AckedIsFlushed
    <2>4. p \in Nat /\ p < Reached(s)
      BY <1>2, <2>1, <2>3
    <2> QED
      BY <1>1, <2>2, <2>4
  <1>4. ASSUME NEW i \in Writes(s), Working(s), Cur(s) = i,
               NEW p \in Offset[s][i] .. Reached(s) - 1
        PROVE  Stored(s, p)'
    <2>1. Offset[s][i] \in Nat
      BY PlanFacts
    <2>2. Stored(s, p)
      BY <1>2, <1>4 DEF SinkInv, Content
    <2>3. p \in Nat /\ p < Reached(s)
      BY <1>2, <1>4, <2>1
    <2> QED
      BY <1>1, <2>2, <2>3
  <1> QED
    BY <1>1, <1>3, <1>4

\* The flush has uploaded its last part, or has failed to.
LEMMA LastPartKeeps ==
    ASSUME IInv, NEW s \in Sinks, NEW ok \in BOOLEAN, Uploaded(s, 0, ok),
           Goto(s, 0, IF ok THEN "complete" ELSE "gone"),
           outcome' = IF ok THEN outcome ELSE [outcome EXCEPT ![s] = "failed"],
           UNCHANGED <<left, result, tries>>
    PROVE  IInv'
  <1>1. /\ Base /\ GlobalTypes /\ CallerTypes(s) /\ 0 \in Callers(s)
        /\ \A j \in Writes(s) : j \in Callers(s) /\ j # 0
    BY SinkFacts, CallerFacts
  <1>2. Sent(s, 0, ok) /\ pc[s][0] = "part"
    BY <1>1, PartIsSent DEF Sent
  <1>3. UNCHANGED <<part_buffer, upload, object, thrown, begun, overlapped>>
    BY <1>2 DEF Sent
  <1>4. PICK next \in {"complete", "gone"} : next = IF ok THEN "complete" ELSE "gone"
    OBVIOUS
  <1>5. PcMoves(s, 0, next)
    <2>1. next \in OwnerAt \cup WriterAt /\ Goto(s, 0, next)
      BY <1>4 DEF OwnerAt
    <2> QED
      BY <1>1, <2>1, GotoMoves
  <1>6. /\ outcome' \in [Sinks -> {"open", "ok", "failed"}]
        /\ outcome'[s] = IF ok THEN outcome[s] ELSE "failed"
        /\ \A u \in Sinks \ {s} : outcome'[u] = outcome[u]
    <2>1. outcome \in [Sinks -> {"open", "ok", "failed"}]
      BY <1>1 DEF GlobalTypes
    <2> QED
      BY <2>1
  <1>7. CallerMoves(s, 0)
    BY <1>1, <1>5, <1>6 DEF CallerMoves, PcMoves, GlobalTypes
  <1>8. CallerTypes(s)' /\ Control(s)'
    BY <1>1, <1>2, <1>3, <1>5, OwnerMoves DEF OwnerAt
  <1>9. Base' /\ \A u \in Sinks \ {s} : Same(u)
    BY <1>1, <1>2, <1>7, <1>8, PartKeepsBase
  <1>10. \A j \in Writes(s) : pc[s][j] = "idle" /\ pc'[s][j] = "idle"
    <2>1. \A j \in Writes(s) : pc[s][j] = "idle"
      BY <1>1, <1>2, WritersIdle
    <2> QED
      BY <1>1, <1>5, <2>1 DEF PcMoves
  <1>11. /\ Cur(s) = 0 /\ At(s) = "part" /\ ~Working(s)
         /\ Cur(s)' = 0 /\ At(s)' = next /\ ~Working(s)' /\ OneCaller(s)'
    BY <1>2, <1>5, <1>10, OwnerInside, OwnerInsideNext DEF PcMoves
  <1>12. ASSUME s \notin overlapped PROVE SinkInv(s)'
    <2>1. SinkInv(s) /\ Control(s) /\ PartSize \in Nat /\ flushed[s] \in Nat
          /\ \A j \in Writes(s) : End(s, j) \in Nat
      BY <1>12, SinkFacts, PlanFacts
    <2>2. /\ outcome[s] = "open" /\ result[s][Table(s)] # "todo" /\ buffered[s] <= PartSize
          /\ upload[s] \notin {"none", "asked"}
      BY <1>11, <2>1 DEF SinkInv, Stage, Flushing
    <2>3. \A j \in Writes(s) : result[s][j] # "todo"
      BY <2>1, <2>2 DEF Control
    <2>4. PartFlushed(s, ok)
      BY <1>1, <1>2, <1>12, <2>2, PartFacts
    <2>5. /\ flushed'[s] = Reached(s) /\ buffered'[s] = 0 /\ Reached(s)' = Reached(s)
          /\ flushed[s] <= flushed'[s] /\ 0 <= PartSize /\ Reached(s) \in Nat
          /\ (s \in lost' <=> (s \in lost \/ ~ok)) /\ (Sound(s)' <=> Sound(s) /\ ok)
          /\ (InOrder(s)' <=> InOrder(s))
      BY <2>4 DEF PartFlushed
    <2>6. CallState(s)'
      BY <1>11 DEF CallState
    <2>7. Stage(s)'
      BY <1>3, <1>4, <1>6, <1>11, <2>2, <2>5 DEF Stage, Flushing
    <2>8. TableLast(s)'
      BY <1>3, <1>6, <2>1, <2>2, <2>5 DEF SinkInv, TableLast
    <2>9. Inside(s)'
      <3>1. ASSUME NEW j \in Writes(s), result[s][j] = "ok"
            PROVE  End(s, j) < flushed'[s] + PartSize
        <4>1. End(s, j) < flushed[s] + PartSize
          BY <2>1, <3>1 DEF SinkInv, Inside
        <4> QED
          BY <2>1, <2>5, <4>1
      <3> QED
        BY <3>1 DEF Inside
    <2>10. LossIsSeen(s)'
      <3>1. CASE ok
        <4>1. s \in lost => \E j \in Writes(s) : result[s][j] = "failed"
          BY <2>1, <2>2, <2>3 DEF SinkInv, LossIsSeen, Doomed
        <4> QED
          BY <2>5, <3>1, <4>1 DEF LossIsSeen, Doomed
      <3>2. CASE ~ok
        BY <1>6, <3>2 DEF LossIsSeen
      <3> QED
        BY <3>1, <3>2
    <2>11. Content(s)'
      <3> SUFFICES ASSUME Sound(s), ok
                   PROVE  /\ Len(parts'[s]) = flushed'[s]
                          /\ \A j \in Writes(s) : result[s][j] = "ok" =>
                                \A p \in Offset[s][j] .. End(s, j) - 1 : Stored(s, p)'
        BY <1>11, <2>5 DEF Content
      <3> QED
        BY <1>11, <1>12, <2>2, <2>4, PartStores
    <2>12. Orderly(s)'
      <3> SUFFICES ASSUME InOrder(s), Sound(s)
                   PROVE  \A j \in Writes(s) :
                            /\ j <= Len(begun[s]) => result[s][j] = "ok"
                            /\ j > Len(begun[s]) => FALSE
        BY <1>3, <1>4, <1>11, <2>5 DEF Orderly
      <3>1. \A j \in Writes(s) :
              /\ j <= Len(begun[s]) /\ Cur(s) # j => result[s][j] = "ok"
              /\ j > Len(begun[s]) => result[s][j] = "todo"
        BY <2>1 DEF SinkInv, Orderly
      <3> QED
        BY <1>1, <1>11, <2>3, <3>1
    <2>13. Final(s)'
      BY <1>6, <2>2 DEF Final
    <2> QED
      BY <1>11, <2>6, <2>7, <2>8, <2>9, <2>10, <2>11, <2>12, <2>13 DEF SinkInv
  <1> QED
    BY <1>3, <1>9, <1>12, StepKeeps

\* What a write has reached is before whatever comes after it in the plan.
LEMMA ReachedIsBefore ==
    ASSUME IInv, NEW s \in Sinks, NEW i \in Writes(s), InCall(s, i)
    PROVE  /\ Reached(s) \in Nat /\ Left(s) = 0 => Reached(s) = End(s, i)
           /\ Reached(s) >= Offset[s][i]
           /\ \A j \in Writes(s) : j > i => Reached(s) <= Offset[s][j]
  <1>1. PICK end \in Nat, rest \in Nat : end = End(s, i) /\ rest = Left(s)
    BY PlanFacts DEF InCall
  <1>2. Reached(s) = end - rest /\ Reached(s) \in Nat
    BY <1>1, SinkFacts DEF InCall
  <1>3. Reached(s) >= Offset[s][i]
    <2>1. PICK offset \in Nat, length \in Nat : offset = Offset[s][i] /\ length = Plan[s][i]
      BY PlanFacts
    <2>2. end = offset + length /\ rest <= length
      BY <1>1, <2>1 DEF End, InCall
    <2> QED
      BY <1>2, <2>1, <2>2
  <1>4. ASSUME NEW j \in Writes(s), j > i PROVE Reached(s) <= Offset[s][j]
    <2>1. /\ \A m, n \in Writes(s) : m < n => End(s, m) <= Offset[s][n]
          /\ Writes(s) = 1 .. Table(s) /\ Table(s) \in Nat /\ Offset[s][j] \in Nat
      BY PlanFacts
    <2>2. i < j
      BY <1>4, <2>1
    <2>3. end <= Offset[s][j]
      BY <1>1, <2>1, <2>2
    <2> QED
      BY <1>2, <2>1, <2>3
  <1> QED
    BY <1>1, <1>2, <1>3, <1>4

\* The write goes on with an empty buffer.
LEMMA WriteGoesOnKeeps ==
    ASSUME IInv, NEW s \in Sinks, NEW i \in Writes(s), Uploaded(s, i, TRUE),
           left[s][i] > 0, Goto(s, i, "copy"), UNCHANGED callVars
    PROVE  IInv'
  <1>1. /\ Base /\ GlobalTypes /\ CallerTypes(s) /\ Control(s) /\ i \in Callers(s) /\ i # 0
        /\ left[s][i] \in Nat /\ left[s][i] <= Plan[s][i]
        /\ UNCHANGED <<left, result, tries, outcome>>
    <2>1. Base /\ GlobalTypes /\ CallerTypes(s) /\ Control(s) /\ i \in Callers(s) /\ i # 0
      BY SinkFacts, CallerFacts
    <2> QED
      BY <2>1 DEF CallerTypes, callVars
  <1>2. Sent(s, i, TRUE) /\ pc[s][i] = "part"
    BY <1>1, PartIsSent DEF Sent
  <1>3. UNCHANGED <<part_buffer, upload, object, thrown, begun, overlapped>>
    BY <1>2 DEF Sent
  <1>4. Open(s, i) /\ begun'[s] \in Seq(Writes(s))
    BY <1>1, <1>2, <1>3 DEF Control, CallerTypes
  <1>5. PcMoves(s, i, "copy") /\ LeftMoves(s, i, left[s][i])
    BY <1>1, GotoMoves, LeftStays DEF WriterAt
  <1>6. CallerMoves(s, i)
    BY <1>1, <1>5 DEF CallerMoves, PcMoves, GlobalTypes
  <1>7. CallerTypes(s)' /\ Control(s)'
    BY <1>1, <1>4, <1>5, WriterMovesOn DEF WriterAt
  <1>8. Base' /\ \A u \in Sinks \ {s} : Same(u)
    BY <1>1, <1>2, <1>6, <1>7, PartKeepsBase
  <1>9. ASSUME s \notin overlapped PROVE SinkInv(s)'
    <2>1. SinkInv(s) /\ InCall(s, i) /\ PartSize \in Nat /\ flushed[s] \in Nat
          /\ \A j \in Writes(s) : End(s, j) \in Nat /\ Offset[s][j] \in Nat
      BY <1>2, <1>9, SinkFacts, CallFacts, PlanFacts
    <2>2. /\ Cur(s) = i /\ At(s) = "part" /\ Left(s) = left[s][i] /\ Working(s)
          /\ outcome[s] = "open" /\ result[s][i] = "todo" /\ result[s][Table(s)] = "todo"
      BY <1>2, <2>1 DEF InCall
    <2>3. buffered[s] <= PartSize /\ upload[s] \notin {"none", "asked"}
      BY <2>1, <2>2 DEF SinkInv, Stage
    <2>4. PartFlushed(s, TRUE)
      BY <1>1, <1>2, <1>9, <2>3, PartFacts
    <2>5. /\ flushed'[s] = Reached(s) /\ buffered'[s] = 0 /\ Reached(s)' = Reached(s)
          /\ flushed[s] <= flushed'[s] /\ 0 <= PartSize /\ Reached(s) \in Nat
          /\ (s \in lost' <=> s \in lost) /\ (Sound(s)' <=> Sound(s))
          /\ (InOrder(s)' <=> InOrder(s))
      BY <2>4 DEF PartFlushed
    <2>6. /\ Cur(s)' = i /\ At(s)' = "copy" /\ Left(s)' = left[s][i] /\ Working(s)'
          /\ OneCaller(s)' /\ ~Flushing(s)'
      <3>1. /\ pc'[s][i] = "copy" /\ left'[s][i] = left[s][i]
            /\ \A j \in Writes(s) : j # i => pc'[s][j] = "idle"
        BY <1>1, <1>5, <2>1, CallerFacts DEF PcMoves, InCall
      <3>2. /\ Cur(s)' = i /\ At(s)' = "copy" /\ Left(s)' = left[s][i] /\ Working(s)'
            /\ OneCaller(s)'
        BY <3>1, WriterInsideNext
      <3> QED
        BY <3>2 DEF Flushing
    <2>7. \A j \in Writes(s) : j > i => flushed'[s] <= Offset[s][j]
      BY <2>1, <2>5, ReachedIsBefore
    <2>8. CallState(s)'
      BY <2>1, <2>2, <2>5, <2>6 DEF SinkInv, CallState
    <2>9. Stage(s)'
      BY <1>1, <1>3, <2>2, <2>3, <2>5, <2>6 DEF Stage
    <2>10. TableLast(s)'
      <3>1. CASE i = Table(s)
        BY <1>1, <2>2, <2>6, <3>1 DEF TableLast
      <3>2. CASE i # Table(s)
        <4>1. Table(s) \in Writes(s) /\ Table(s) > i
          BY <3>2, PlanFacts
        <4> QED
          BY <1>1, <2>2, <2>7, <4>1 DEF TableLast
      <3> QED
        BY <3>1, <3>2
    <2>11. Inside(s)'
      <3>1. ASSUME NEW j \in Writes(s), result[s][j] = "ok"
            PROVE  End(s, j) < flushed'[s] + PartSize
        <4>1. End(s, j) < flushed[s] + PartSize
          BY <2>1, <3>1 DEF SinkInv, Inside
        <4> QED
          BY <2>1, <2>5, <4>1
      <3> QED
        BY <1>1, <3>1 DEF Inside
    <2>12. LossIsSeen(s)'
      <3>1. ASSUME NEW j \in Writes(s), Doomed(s, j) PROVE Doomed(s, j)'
        <4>1. Offset[s][j] < flushed[s] => Offset[s][j] < flushed'[s]
          BY <2>1, <2>5
        <4> QED
          BY <1>1, <2>2, <2>6, <3>1, <4>1 DEF Doomed
      <3> QED
        BY <1>1, <2>1, <2>5, <3>1 DEF SinkInv, LossIsSeen
    <2>13. Content(s)'
      <3> SUFFICES ASSUME Sound(s)
                   PROVE  /\ Len(parts'[s]) = flushed'[s]
                          /\ \A j \in Writes(s) : result[s][j] = "ok" =>
                                \A p \in Offset[s][j] .. End(s, j) - 1 : Stored(s, p)'
                          /\ \A p \in Offset[s][i] .. Reached(s) - 1 : Stored(s, p)'
        BY <1>1, <2>5, <2>6 DEF Content
      <3> QED
        BY <1>9, <2>2, <2>4, PartStores
    <2>14. Orderly(s)'
      <3> SUFFICES ASSUME InOrder(s), Sound(s)
                   PROVE  /\ \A j \in Writes(s) :
                               /\ j <= Len(begun[s]) /\ i # j => result[s][j] = "ok"
                               /\ j > Len(begun[s]) => /\ result[s][j] = "todo"
                                                       /\ tries[s][j] = 0
                                                       /\ flushed'[s] <= Offset[s][j]
                          /\ i = Len(begun[s])
        BY <1>1, <1>3, <2>5, <2>6 DEF Orderly
      <3>1. /\ \A j \in Writes(s) :
                 /\ j <= Len(begun[s]) /\ i # j => result[s][j] = "ok"
                 /\ j > Len(begun[s]) => result[s][j] = "todo" /\ tries[s][j] = 0
            /\ i = Len(begun[s])
        BY <2>1, <2>2 DEF SinkInv, Orderly
      <3> QED
        BY <2>7, <3>1
    <2>15. Final(s)'
      BY <1>1, <2>2 DEF Final
    <2> QED
      BY <2>6, <2>8, <2>9, <2>10, <2>11, <2>12, <2>13, <2>14, <2>15 DEF SinkInv
  <1> QED
    BY <1>3, <1>8, <1>9, StepKeeps

\* A part that was lost took the beginning of its write with it, or else the end
\* of the write before, which filled the part and was not acknowledged.
LEMMA PartLossIsSeen ==
    ASSUME IInv, NEW s \in Sinks, s \notin overlapped, NEW i \in Writes(s), InCall(s, i),
           pc[s][i] = "part", flushed'[s] = Reached(s), Returned(s, i, FALSE)
    PROVE  \E j \in Writes(s) : result'[s][j] = "failed"
                                \/ (result'[s][j] = "todo" /\ Offset[s][j] < flushed'[s])
  <1>1. /\ SinkInv(s) /\ CallerTypes(s) /\ flushed[s] \in Nat /\ Reached(s) \in Nat
        /\ Reached(s) >= Offset[s][i] /\ Offset[s][i] \in Nat /\ PartSize \in Nat \ {0}
    BY SinkFacts, ReachedIsBefore, PlanFacts
  <1>2. /\ result'[s][i] \in {"todo", "failed"}
        /\ \A j \in Writes(s) : j # i => result'[s][j] = result[s][j]
    BY DEF Returned
  <1>3. CASE Offset[s][i] < flushed'[s]
    BY <1>2, <1>3
  <1>4. CASE ~(Offset[s][i] < flushed'[s])
    <2>1. flushed'[s] = Offset[s][i]
      BY <1>1, <1>4
    <2>2. Reached(s) = flushed[s] + PartSize
      <3>1. At(s) = "part" /\ Working(s)
        BY DEF InCall
      <3> QED
        BY <1>1, <3>1 DEF SinkInv, Stage, Reached
    <2>3. Offset[s][1] = 0 /\ Writes(s) = 1 .. Table(s) /\ Table(s) \in Nat
      BY PlanFacts
    <2>4. PICK before \in Nat, room \in Nat \ {0}, offset \in Nat :
             before = flushed[s] /\ room = PartSize /\ offset = Offset[s][i]
      BY <1>1
    <2>5. offset = before + room
      BY <2>1, <2>2, <2>4
    <2>6. i # 1
      <3>1. offset # 0
        BY <2>5
      <3> QED
        BY <2>3, <2>4, <3>1
    <2>7. PICK j \in Writes(s) : i = j + 1
      <3>1. i \in Nat /\ i >= 1 /\ i <= Table(s)
        BY <2>3
      <3>2. i - 1 \in 1 .. Table(s) /\ i = (i - 1) + 1
        BY <2>3, <2>6, <3>1
      <3> QED
        BY <2>3, <3>2
    <2>8. End(s, j) = Offset[s][i] /\ Offset[s][j] < End(s, j)
          /\ Offset[s][j] \in Nat /\ End(s, j) \in Nat
      BY <2>7, PlanFacts
    <2>9. j # i
      BY <2>8
    <2>10. result[s][j] # "ok"
      <3>1. ~(End(s, j) < flushed[s] + PartSize)
        <4>1. ~(offset < before + room)
          BY <2>5
        <4> QED
          BY <2>4, <2>8, <4>1
      <3> QED
        BY <1>1, <3>1 DEF SinkInv, Inside
    <2>11. result'[s][j] \in {"todo", "failed"}
      BY <1>1, <1>2, <2>9, <2>10 DEF CallerTypes, Results
    <2>12. Offset[s][j] < flushed'[s]
      BY <2>1, <2>8
    <2> QED
      BY <2>11, <2>12
  <1> QED
    BY <1>3, <1>4

\* The write ends with the part.
LEMMA WriteEndsKeeps ==
    ASSUME IInv, NEW s \in Sinks, NEW i \in Writes(s), NEW ok \in BOOLEAN,
           Uploaded(s, i, ok), ok => left[s][i] = 0, Returns(s, i, ok)
    PROVE  IInv'
  <1>1. /\ Base /\ GlobalTypes /\ CallerTypes(s) /\ Control(s) /\ i \in Callers(s) /\ i # 0
    BY SinkFacts, CallerFacts
  <1>2. Sent(s, i, ok) /\ pc[s][i] = "part"
    BY <1>1, PartIsSent DEF Sent
  <1>3. UNCHANGED <<part_buffer, upload, object, thrown, begun, overlapped>>
    BY <1>2 DEF Sent
  <1>4. Open(s, i) /\ begun'[s] \in Seq(Writes(s))
    BY <1>1, <1>2, <1>3 DEF Control, CallerTypes
  <1>5. Returned(s, i, ok)
    BY <1>1, <1>4, ReturnsFacts DEF Open
  <1>6. /\ PcMoves(s, i, "idle") /\ LeftMoves(s, i, 0) /\ outcome' = outcome
        /\ DOMAIN result' = Sinks /\ DOMAIN tries' = Sinks
        /\ \A u \in Sinks : u # s => result'[u] = result[u] /\ tries'[u] = tries[u]
        /\ \A j \in Writes(s) : j # i => result'[s][j] = result[s][j] /\ tries'[s][j] = tries[s][j]
        /\ ok => result'[s][i] = "ok"
        /\ ~ok => result'[s][i] \in {"todo", "failed"}
        /\ ~ok /\ i = Table(s) => result'[s][i] = "failed"
    BY <1>5 DEF Returned
  <1>7. CallerMoves(s, i)
    BY <1>1, <1>6 DEF CallerMoves, PcMoves, LeftMoves, GlobalTypes
  <1>8. CallerTypes(s)' /\ Control(s)'
    BY <1>1, <1>4, <1>5, WriterReturns
  <1>9. Base' /\ \A u \in Sinks \ {s} : Same(u)
    BY <1>1, <1>2, <1>7, <1>8, PartKeepsBase
  <1>10. ASSUME s \notin overlapped PROVE SinkInv(s)'
    <2>1. SinkInv(s) /\ InCall(s, i) /\ PartSize \in Nat \ {0} /\ flushed[s] \in Nat
          /\ \A j \in Writes(s) : End(s, j) \in Nat /\ Offset[s][j] \in Nat /\ j # 0
      BY <1>2, <1>10, SinkFacts, CallFacts, PlanFacts, CallerFacts
    <2>2. /\ Cur(s) = i /\ At(s) = "part" /\ Left(s) = left[s][i] /\ Working(s)
          /\ outcome[s] = "open" /\ result[s][i] = "todo" /\ result[s][Table(s)] = "todo"
      BY <1>2, <2>1 DEF InCall
    <2>3. buffered[s] <= PartSize /\ upload[s] \notin {"none", "asked"}
      BY <2>1, <2>2 DEF SinkInv, Stage
    <2>4. PartFlushed(s, ok)
      BY <1>1, <1>2, <1>10, <2>3, PartFacts
    <2>5. /\ flushed'[s] = Reached(s) /\ buffered'[s] = 0 /\ Reached(s)' = Reached(s)
          /\ flushed[s] <= flushed'[s] /\ 0 <= PartSize /\ Reached(s) \in Nat
          /\ (s \in lost' <=> (s \in lost \/ ~ok)) /\ (Sound(s)' <=> Sound(s) /\ ok)
          /\ (InOrder(s)' <=> InOrder(s))
      BY <2>4 DEF PartFlushed
    <2>6. /\ Cur(s)' = 0 /\ At(s)' = "idle" /\ ~Working(s)' /\ OneCaller(s)' /\ ~Flushing(s)'
      <3>1. pc'[s][0] = "idle" /\ \A j \in Writes(s) : pc'[s][j] = "idle"
        BY <1>6, <2>1, CallerFacts DEF PcMoves, InCall
      <3>2. Cur(s)' = 0 /\ At(s)' = "idle" /\ ~Working(s)' /\ OneCaller(s)'
        BY <3>1, OwnerInsideNext
      <3> QED
        BY <3>2 DEF Flushing
    <2>7. /\ \A j \in Writes(s) : j > i => flushed'[s] <= Offset[s][j]
          /\ ok => Reached(s) = End(s, i)
      BY <2>1, <2>2, <2>5, ReachedIsBefore
    <2>8. CallState(s)'
      BY <2>6 DEF CallState
    <2>9. Stage(s)'
      BY <1>3, <1>6, <2>2, <2>3, <2>5, <2>6 DEF Stage
    <2>10. TableLast(s)'
      <3>1. CASE i = Table(s)
        <4>1. result'[s][Table(s)] = "ok" => ok
          BY <1>6, <3>1
        <4>2. result'[s][Table(s)] # "todo"
          BY <1>6, <3>1
        <4> QED
          BY <2>5, <2>7, <3>1, <4>1, <4>2, <1>6 DEF TableLast
      <3>2. CASE i # Table(s)
        <4>1. Table(s) \in Writes(s) /\ Table(s) > i
          BY <3>2, PlanFacts
        <4>2. result'[s][Table(s)] = "todo"
          BY <1>6, <2>2, <3>2, <4>1
        <4> QED
          BY <2>7, <4>1, <4>2 DEF TableLast
      <3> QED
        BY <3>1, <3>2
    <2>11. Inside(s)'
      <3>1. ASSUME NEW j \in Writes(s), result'[s][j] = "ok"
            PROVE  End(s, j) < flushed'[s] + PartSize
        <4>1. CASE j = i
          <5>1. flushed'[s] = End(s, i)
            BY <1>6, <2>5, <2>7, <3>1, <4>1
          <5>2. PICK end \in Nat, room \in Nat \ {0} : end = End(s, i) /\ room = PartSize
            BY <2>1
          <5>3. end < end + room
            OBVIOUS
          <5> QED
            BY <4>1, <5>1, <5>2, <5>3
        <4>2. CASE j # i
          <5>1. End(s, j) < flushed[s] + PartSize
            BY <1>6, <2>1, <3>1, <4>2 DEF SinkInv, Inside
          <5> QED
            BY <2>1, <2>5, <5>1
        <4> QED
          BY <4>1, <4>2
      <3> QED
        BY <3>1 DEF Inside
    <2>12. LossIsSeen(s)'
      <3>1. CASE ok
        <4>1. ASSUME NEW j \in Writes(s), Doomed(s, j) PROVE Doomed(s, j)'
          <5>1. Offset[s][j] < flushed[s] => Offset[s][j] < flushed'[s]
            BY <2>1, <2>5
          <5>2. j # i /\ j # 0
            BY <2>1, <2>2, <4>1 DEF Doomed
          <5> QED
            BY <1>6, <2>6, <4>1, <5>1, <5>2 DEF Doomed
        <4> QED
          BY <1>6, <2>1, <2>5, <3>1, <4>1 DEF SinkInv, LossIsSeen
      <3>2. CASE ~ok
        <4>1. \E j \in Writes(s) : result'[s][j] = "failed"
                                   \/ (result'[s][j] = "todo" /\ Offset[s][j] < flushed'[s])
          <5>1. Returned(s, i, FALSE)
            BY <1>5, <3>2
          <5> QED
            BY <1>2, <1>10, <2>1, <2>5, <5>1, PartLossIsSeen
        <4> QED
          BY <2>1, <2>6, <4>1 DEF LossIsSeen, Doomed
      <3> QED
        BY <3>1, <3>2
    <2>13. Content(s)'
      <3> SUFFICES ASSUME Sound(s), ok
                   PROVE  /\ Len(parts'[s]) = flushed'[s]
                          /\ \A j \in Writes(s) : result'[s][j] = "ok" =>
                                \A p \in Offset[s][j] .. End(s, j) - 1 : Stored(s, p)'
        BY <2>5, <2>6 DEF Content
      <3>1. /\ Len(parts'[s]) = flushed'[s]
            /\ \A j \in Writes(s) : result[s][j] = "ok" =>
                  \A p \in Offset[s][j] .. End(s, j) - 1 : Stored(s, p)'
            /\ \A p \in Offset[s][i] .. Reached(s) - 1 : Stored(s, p)'
        BY <1>10, <2>2, <2>4, PartStores
      <3>2. \A p \in Offset[s][i] .. End(s, i) - 1 : Stored(s, p)'
        BY <2>7, <3>1
      <3> QED
        BY <1>6, <3>1, <3>2
    <2>14. Orderly(s)'
      <3> SUFFICES ASSUME InOrder(s), Sound(s), ok
                   PROVE  \A j \in Writes(s) :
                             /\ j <= Len(begun[s]) => result'[s][j] = "ok"
                             /\ j > Len(begun[s]) => /\ result'[s][j] = "todo"
                                                     /\ tries'[s][j] = 0
                                                     /\ flushed'[s] <= Offset[s][j]
        BY <1>3, <2>1, <2>5, <2>6 DEF Orderly
      <3>1. /\ \A j \in Writes(s) :
                 /\ j <= Len(begun[s]) /\ i # j => result[s][j] = "ok"
                 /\ j > Len(begun[s]) => result[s][j] = "todo" /\ tries[s][j] = 0
            /\ i = Len(begun[s])
        BY <2>1, <2>2 DEF SinkInv, Orderly
      <3> SUFFICES ASSUME NEW j \in Writes(s)
                   PROVE  /\ j <= i => result'[s][j] = "ok"
                          /\ j > i => /\ result'[s][j] = "todo" /\ tries'[s][j] = 0
                                      /\ flushed'[s] <= Offset[s][j]
        BY <3>1
      <3>2. i \in Nat /\ j \in Nat
        BY WriteNumbers
      <3>3. CASE j = i
        BY <1>6, <3>2, <3>3
      <3>4. CASE j # i
        BY <1>6, <2>7, <3>1, <3>4
      <3> QED
        BY <3>3, <3>4
    <2>15. Final(s)'
      BY <1>6, <2>2 DEF Final
    <2> QED
      BY <2>6, <2>8, <2>9, <2>10, <2>11, <2>12, <2>13, <2>14, <2>15 DEF SinkInv
  <1> QED
    BY <1>3, <1>9, <1>10, StepKeeps

LEMMA UploadPartKeeps ==
    ASSUME IInv, NEW s \in Sinks, NEW i \in Callers(s), UploadPart(s, i)
    PROVE  IInv'
  <1>1. PICK ok \in IF upload[s] = "open" THEN BOOLEAN ELSE {FALSE} :
           /\ parts' = IF ok THEN [parts EXCEPT ![s] = @ \o Buffered(s)] ELSE parts
           /\ lost' = IF ok THEN lost ELSE lost \cup {s}
           /\ CASE i = 0 ->
                     /\ Goto(s, i, IF PartOk(ok) THEN "complete" ELSE "gone")
                     /\ outcome' = IF PartOk(ok) THEN outcome
                                   ELSE [outcome EXCEPT ![s] = "failed"]
                     /\ UNCHANGED <<left, result, tries>>
                [] i # 0 /\ PartOk(ok) /\ left[s][i] > 0 ->
                     Goto(s, i, "copy") /\ UNCHANGED callVars
                [] OTHER -> Returns(s, i, PartOk(ok))
    BY DEF UploadPart
  <1>2. ok \in BOOLEAN /\ Uploaded(s, i, ok)
    BY <1>1 DEF UploadPart, Uploaded
  <1>3. CASE i = 0
    <2>1. /\ Goto(s, 0, IF ok THEN "complete" ELSE "gone")
          /\ outcome' = IF ok THEN outcome ELSE [outcome EXCEPT ![s] = "failed"]
          /\ UNCHANGED <<left, result, tries>>
      BY <1>1, <1>3 DEF PartOk
    <2> QED
      BY <1>2, <1>3, <2>1, LastPartKeeps
  <1>4. CASE i # 0 /\ ok /\ left[s][i] > 0
    <2>1. Goto(s, i, "copy") /\ UNCHANGED callVars
      BY <1>1, <1>4 DEF PartOk
    <2>2. Uploaded(s, i, TRUE) /\ i \in Writes(s)
      BY <1>2, <1>4, CallerFacts
    <2> QED
      BY <1>4, <2>1, <2>2, WriteGoesOnKeeps
  <1>5. CASE i # 0 /\ ~(ok /\ left[s][i] > 0)
    <2>1. Returns(s, i, ok) /\ i \in Writes(s)
      BY <1>1, <1>5, CallerFacts DEF PartOk
    <2>2. ok => left[s][i] = 0
      <3>1. left[s][i] \in Nat
        BY SinkFacts, BaseFacts
      <3> QED
        BY <1>5, <3>1
    <2> QED
      BY <1>2, <2>1, <2>2, WriteEndsKeeps
  <1> QED
    BY <1>3, <1>4, <1>5
-----------------------------------------------------------------------------
(* finalize_sink *)

\* Nothing is buffered and nothing was uploaded only if the table failed without
\* a trace, which it does not.
LEMMA SomethingToFlush ==
    ASSUME IInv, NEW s \in Sinks, s \notin overlapped, outcome[s] = "open",
           result[s][Table(s)] # "todo", upload[s] = "none"
    PROVE  buffered[s] > 0
  <1>1. /\ SinkInv(s) /\ CallerTypes(s) /\ buffered[s] \in Nat /\ flushed[s] = 0
        /\ s \notin lost /\ Table(s) \in Writes(s)
    BY SinkFacts, PlanFacts DEF SinkInv, Stage
  <1>2. result[s][Table(s)] = "ok"
    BY <1>1 DEF SinkInv, TableLast, CallerTypes, Results
  <1>3. Reached(s) = End(s, Table(s)) /\ End(s, Table(s)) > 0
    <2>1. /\ End(s, Table(s)) \in Nat /\ Offset[s][Table(s)] \in Nat
          /\ Offset[s][Table(s)] < End(s, Table(s))
      BY PlanFacts
    <2> QED
      BY <1>1, <1>2, <2>1 DEF SinkInv, TableLast
  <1> QED
    BY <1>1, <1>3 DEF Reached

LEMMA FlushKeeps ==
    ASSUME IInv, NEW s \in Sinks, Flush(s)
    PROVE  IInv'
  <1>1. /\ pc[s][0] = "idle" /\ result[s][Table(s)] # "todo"
        /\ UNCHANGED <<bufferVars, serverVars, left, result, tries, poolVars, historyVars>>
    BY DEF Flush
  <1>2. /\ Base /\ GlobalTypes /\ PoolInv /\ BufferTypes(s) /\ CallerTypes(s)
        /\ 0 \in Callers(s) /\ \A j \in Writes(s) : j \in Callers(s) /\ j # 0
        /\ buffered[s] \in Nat /\ flushed[s] \in Nat
    BY SinkFacts, CallerFacts
  <1>3. PICK next \in {"part", "complete", "put", "gone"} :
           /\ Goto(s, 0, next)
           /\ next = "complete" => buffered[s] = 0
           /\ next \in {"part", "complete"} => upload[s] # "none"
           /\ next = "put" => upload[s] = "none"
           /\ next = "gone" => upload[s] = "none" /\ buffered[s] = 0
    <2>1. CASE upload[s] # "none" /\ buffered[s] > 0
      <3>1. Goto(s, 0, "part")
        BY <1>2, <2>1 DEF Flush
      <3> QED
        BY <2>1, <3>1
    <2>2. CASE upload[s] # "none" /\ ~(buffered[s] > 0)
      <3>1. Goto(s, 0, "complete") /\ buffered[s] = 0
        BY <1>2, <2>2 DEF Flush
      <3> QED
        BY <2>2, <3>1
    <2>3. CASE upload[s] = "none" /\ buffered[s] > 0
      <3>1. Goto(s, 0, "put")
        BY <1>2, <2>3 DEF Flush
      <3> QED
        BY <2>3, <3>1
    <2>4. CASE upload[s] = "none" /\ ~(buffered[s] > 0)
      <3>1. buffered[s] = 0
        BY <1>2, <2>4
      <3>2. Goto(s, 0, "gone")
        BY <2>4, <3>1 DEF Flush
      <3> QED
        BY <2>4, <3>1, <3>2
    <2> QED
      BY <2>1, <2>2, <2>3, <2>4
  <1>4. /\ outcome' \in [Sinks -> {"open", "ok", "failed"}]
        /\ ~(upload[s] = "none" /\ buffered[s] = 0) => outcome'[s] = outcome[s]
        /\ \A u \in Sinks \ {s} : outcome'[u] = outcome[u]
    <2>1. outcome \in [Sinks -> {"open", "ok", "failed"}]
      BY <1>2 DEF GlobalTypes
    <2>2. outcome' = [outcome EXCEPT ![s] =
                        IF upload[s] = "none" /\ buffered[s] = 0 THEN "ok" ELSE @]
      BY DEF Flush
    <2> QED
      BY <2>1, <2>2
  <1> USE DEF bufferVars, serverVars, historyVars
  <1>5. PcMoves(s, 0, next)
    BY <1>2, <1>3, GotoMoves DEF OwnerAt
  <1>6. CallerTypes(s)' /\ Control(s)'
    BY <1>1, <1>2, <1>5, OwnerMoves DEF OwnerAt
  <1>7. GlobalTypes'
    BY <1>1, <1>2, <1>4, <1>5 DEF GlobalTypes, PcMoves, poolVars
  <1>8. PoolInv'
    <2>1. conn[s][0] = "none"
      BY <1>1, <1>2, BaseFacts DEF Requests
    <2> QED
      BY <1>1, <1>2, <1>5, <1>7, <2>1, PoolStays DEF PcMoves
  <1>9. \A u \in Sinks \ {s} : Same(u)
    BY <1>1, <1>4, <1>5 DEF Same, PcMoves
  <1>10. Base'
    <2>1. BufferTypes(s)'
      BY <1>1, <1>2 DEF BufferTypes
    <2> QED
      BY <1>2, <1>6, <1>8, <1>9, <2>1, StepKeepsBase
  <1>11. \A j \in Writes(s) : pc[s][j] = "idle" /\ pc'[s][j] = "idle"
    <2>1. \A j \in Writes(s) : pc[s][j] = "idle"
      BY <1>1, <1>2, WritersIdle
    <2> QED
      BY <1>2, <1>5, <2>1 DEF PcMoves
  <1>12. /\ Cur(s) = 0 /\ At(s) = "idle" /\ ~Working(s)
         /\ Cur(s)' = 0 /\ At(s)' = next /\ ~Working(s)' /\ OneCaller(s)'
    BY <1>1, <1>5, <1>11, OwnerInside, OwnerInsideNext DEF PcMoves
  <1>13. ASSUME s \notin overlapped PROVE SinkInv(s)'
    <2>1. SinkInv(s)
      BY <1>13, SinkFacts
    <2>2. outcome[s] = "open" /\ upload[s] # "asked" /\ buffered[s] <= PartSize
      BY <1>12, <2>1 DEF SinkInv, Stage
    <2>3. ~(upload[s] = "none" /\ buffered[s] = 0)
      <3>1. upload[s] = "none" => buffered[s] > 0
        BY <1>1, <1>13, <2>2, SomethingToFlush
      <3> QED
        BY <1>2, <3>1
    <2>4. outcome'[s] = outcome[s] /\ next # "gone"
      BY <1>3, <1>4, <2>3
    <2>5. /\ Reached(s)' = Reached(s) /\ (Sound(s)' <=> Sound(s))
          /\ (InOrder(s)' <=> InOrder(s))
      BY <1>1 DEF Reached, Sound, InOrder
    <2>6. CallState(s)'
      BY <1>12 DEF CallState
    <2>7. Stage(s)'
      BY <1>1, <1>3, <1>12, <2>1, <2>2, <2>4 DEF SinkInv, Stage, Flushing
    <2>8. TableLast(s)' /\ Inside(s)' /\ LossIsSeen(s)'
      BY <1>1, <1>12, <2>1, <2>4, <2>5 DEF SinkInv, TableLast, Inside, LossIsSeen, Doomed
    <2>9. Content(s)'
      BY <1>1, <1>12, <2>1, <2>4, <2>5 DEF SinkInv, Content, Stored
    <2>10. Orderly(s)'
      BY <1>1, <1>12, <2>1, <2>5 DEF SinkInv, Orderly
    <2>11. Final(s)'
      BY <2>2, <2>4 DEF Final
    <2> QED
      BY <1>12, <2>6, <2>7, <2>8, <2>9, <2>10, <2>11 DEF SinkInv
  <1> QED
    BY <1>1, <1>9, <1>10, <1>13, StepKeeps

\* The flush ends in one request, whatever it leaves of the buffer: of a sink
\* that has ended not much is said any more.
LEMMA FlushEndsKeeps ==
    ASSUME IInv, NEW s \in Sinks, NEW answer \in {"open", "ok", "failed"},
           pc[s][0] \in {"put", "complete"}, PoolInv', PcMoves(s, 0, "gone"),
           s \notin overlapped => outcome[s] = "open", outcome'[s] = answer,
           \A u \in Sinks \ {s} : Same(u),
           \/ buffered'[s] = buffered[s] /\ flushed'[s] = flushed[s]
           \/ buffered'[s] = 0 /\ (s \notin overlapped => flushed'[s] = Reached(s))
              /\ answer # "open",
           object'[s] \in Seq(Bytes(s)),
           s \notin overlapped /\ answer = "ok" /\ s \notin lost =>
              \A j \in Writes(s) : result[s][j] = "ok" => Landed(s, j)',
           UNCHANGED <<part_buffer, upload, parts, left, result, tries, begun, lost, overlapped>>
    PROVE  IInv'
  <1>1. /\ Base /\ BufferTypes(s) /\ CallerTypes(s) /\ Control(s)
        /\ 0 \in Callers(s) /\ \A j \in Writes(s) : j \in Callers(s) /\ j # 0
        /\ buffered[s] \in Nat /\ flushed[s] \in Nat /\ Reached(s) \in Nat
    BY SinkFacts, CallerFacts
  <1>2. CallerTypes(s)' /\ Control(s)'
    BY <1>1, OwnerMoves DEF OwnerAt
  <1>3. Base'
    <2>1. BufferTypes(s)'
      BY <1>1 DEF BufferTypes
    <2> QED
      BY <1>1, <1>2, <2>1, StepKeepsBase
  <1>4. \A j \in Writes(s) : pc[s][j] = "idle" /\ pc'[s][j] = "idle"
    <2>1. \A j \in Writes(s) : pc[s][j] = "idle"
      BY <1>1, WritersIdle
    <2> QED
      BY <1>1, <2>1 DEF PcMoves
  <1>5. /\ Cur(s) = 0 /\ At(s) = pc[s][0] /\ ~Working(s)
        /\ Cur(s)' = 0 /\ At(s)' = "gone" /\ ~Working(s)' /\ OneCaller(s)'
    BY <1>4, OwnerInside, OwnerInsideNext DEF PcMoves
  <1>6. ASSUME s \notin overlapped PROVE SinkInv(s)'
    <2>1. SinkInv(s) /\ outcome[s] = "open" /\ PartSize \in Nat
          /\ \A j \in Writes(s) : End(s, j) \in Nat
      BY <1>6, SinkFacts, PlanFacts
    <2>2. /\ result[s][Table(s)] # "todo" /\ buffered[s] <= PartSize /\ upload[s] # "asked"
          /\ ~Flushing(s)' /\ (Sound(s)' <=> Sound(s)) /\ (InOrder(s)' <=> InOrder(s))
      BY <1>5, <2>1 DEF SinkInv, Stage, Sound, Flushing, InOrder
    <2>3. \A j \in Writes(s) : result[s][j] # "todo"
      BY <1>1, <2>2 DEF Control
    <2>4. /\ flushed'[s] \in Nat /\ buffered'[s] \in Nat /\ flushed[s] <= flushed'[s]
          /\ buffered'[s] <= buffered[s] /\ Reached(s)' = Reached(s)
      <3>1. CASE buffered'[s] = buffered[s] /\ flushed'[s] = flushed[s]
        BY <1>1, <3>1 DEF Reached
      <3>2. CASE buffered'[s] = 0 /\ flushed'[s] = Reached(s)
        BY <1>1, <3>2 DEF Reached
      <3> QED
        BY <1>6, <3>1, <3>2
    <2>5. buffered'[s] <= PartSize
      BY <1>1, <2>1, <2>2, <2>4
    <2>6. CallState(s)'
      BY <1>5 DEF CallState
    <2>7. Stage(s)'
      <3>1. answer = "open" => flushed'[s] = flushed[s]
        OBVIOUS
      <3> QED
        BY <1>5, <2>1, <2>2, <2>5, <3>1 DEF SinkInv, Stage
    <2>8. TableLast(s)'
      BY <2>1, <2>2, <2>4 DEF SinkInv, TableLast
    <2>9. Inside(s)'
      <3>1. ASSUME NEW j \in Writes(s), result[s][j] = "ok"
            PROVE  End(s, j) < flushed'[s] + PartSize
        <4>1. End(s, j) < flushed[s] + PartSize
          BY <2>1, <3>1 DEF SinkInv, Inside
        <4> QED
          BY <1>1, <2>1, <2>4, <4>1
      <3> QED
        BY <3>1 DEF Inside
    <2>10. LossIsSeen(s)'
      <3>1. s \in lost => \E j \in Writes(s) : result[s][j] = "failed"
        BY <2>1, <2>3 DEF SinkInv, LossIsSeen, Doomed
      <3> QED
        BY <3>1 DEF LossIsSeen, Doomed
    <2>11. Content(s)'
      <3>1. answer = "open" => flushed'[s] = flushed[s] /\ buffered'[s] = buffered[s]
        OBVIOUS
      <3> QED
        BY <1>5, <2>1, <2>2, <3>1 DEF SinkInv, Content, Stored
    <2>12. Orderly(s)'
      <3> SUFFICES ASSUME InOrder(s), Sound(s)
                   PROVE  \A j \in Writes(s) :
                            /\ j <= Len(begun[s]) => result[s][j] = "ok"
                            /\ j > Len(begun[s]) => FALSE
        BY <1>5, <2>2 DEF Orderly
      <3>1. \A j \in Writes(s) :
              /\ j <= Len(begun[s]) /\ Cur(s) # j => result[s][j] = "ok"
              /\ j > Len(begun[s]) => result[s][j] = "todo"
        BY <2>1 DEF SinkInv, Orderly
      <3> QED
        BY <1>1, <1>5, <2>3, <3>1
    <2>13. Final(s)'
      BY <1>6, <2>3 DEF Final
    <2> QED
      BY <1>5, <2>6, <2>7, <2>8, <2>9, <2>10, <2>11, <2>12, <2>13 DEF SinkInv
  <1> QED
    BY <1>3, <1>6, StepKeeps

\* What a flush that succeeds leaves in the object.
LEMMA FlushedLands ==
    ASSUME IInv, NEW s \in Sinks, s \notin overlapped, At(s) \in {"put", "complete"},
           Sound(s), outcome[s] = "open", NEW all \in Nat, all = Reached(s),
           DOMAIN object'[s] = 1 .. all,
           \A p \in Nat : p < all /\ Stored(s, p) => object'[s][p + 1] = p
    PROVE  \A j \in Writes(s) : result[s][j] = "ok" => Landed(s, j)'
  <1> SUFFICES ASSUME NEW j \in Writes(s), result[s][j] = "ok" PROVE Landed(s, j)'
    OBVIOUS
  <1>1. Offset[s][j] \in Nat /\ End(s, j) \in Nat /\ Plan[s][j] \in Nat
        /\ End(s, j) = Offset[s][j] + Plan[s][j]
    BY PlanFacts DEF End
  <1>2. End(s, j) <= all
    BY AckedIsFlushed
  <1>3. SinkInv(s)
    BY SinkFacts
  <1>4. ASSUME NEW p \in Offset[s][j] .. End(s, j) - 1
        PROVE  p + 1 \in DOMAIN object'[s] /\ object'[s][p + 1] = p
    <2>1. p \in Nat /\ p < all /\ p + 1 \in 1 .. all
      BY <1>1, <1>2
    <2>2. Stored(s, p)
      BY <1>3 DEF SinkInv, Content
    <2> QED
      BY <2>1, <2>2
  <1> QED
    BY <1>1, <1>4 DEF Landed

LEMMA PutObjectKeeps ==
    ASSUME IInv, NEW s \in Sinks, PutObject(s)
    PROVE  IInv'
  <1>1. /\ Base /\ GlobalTypes /\ PoolInv /\ BufferTypes(s) /\ CallerTypes(s) /\ 0 \in Callers(s)
        /\ \A j \in Writes(s) : j \in Callers(s) /\ j # 0
        /\ buffered[s] \in Nat /\ flushed[s] \in Nat
    BY SinkFacts, CallerFacts
  <1>2. /\ pc[s][0] = "put" /\ conn[s][0] = "holds"
        /\ UNCHANGED <<part_buffer, upload, parts>>
        /\ UNCHANGED <<thrown, begun, lost, overlapped>>
    BY DEF PutObject, Answered, historyVars
  <1>3. PICK ok \in BOOLEAN :
          /\ object' = IF ok THEN [object EXCEPT ![s] = Buffered(s)] ELSE object
          /\ flushed' = [flushed EXCEPT ![s] = IF ok THEN buffered[s] ELSE @]
          /\ buffered' = [buffered EXCEPT ![s] = IF ok THEN 0 ELSE @]
          /\ FlushEnds(s, ok)
          /\ ReturnAnyhow(s, ok)
    BY DEF PutObject
  <1>4. PICK answer \in {"ok", "failed"} : answer = IF ok THEN "ok" ELSE "failed"
    OBVIOUS
  <1>5. PICK bytes, whole : bytes = Bytes(s) /\ whole = Buffered(s)
    OBVIOUS
  <1>6. /\ whole \in Seq(bytes) /\ DOMAIN whole = 1 .. buffered[s]
        /\ buffered[s] <= PartSize =>
              \A b \in 1 .. buffered[s] : whole[b] = part_buffer[s][b]
    BY <1>1, <1>5, BufferedFacts
  <1>7. /\ flushed' \in [Sinks -> Nat] /\ buffered' \in [Sinks -> Nat]
        /\ flushed'[s] = IF ok THEN buffered[s] ELSE flushed[s]
        /\ buffered'[s] = IF ok THEN 0 ELSE buffered[s]
        /\ \A u \in Sinks \ {s} : flushed'[u] = flushed[u] /\ buffered'[u] = buffered[u]
    <2>1. flushed \in [Sinks -> Nat] /\ buffered \in [Sinks -> Nat]
      BY <1>1 DEF GlobalTypes
    <2>2. PICK f \in Nat, b \in Nat : /\ f = IF ok THEN buffered[s] ELSE flushed[s]
                                      /\ b = IF ok THEN 0 ELSE buffered[s]
      BY <1>1
    <2>3. flushed' = [flushed EXCEPT ![s] = f] /\ buffered' = [buffered EXCEPT ![s] = b]
      BY <1>3, <2>2
    <2> QED
      BY <2>1, <2>2, <2>3
  <1>8. /\ DOMAIN object' = Sinks /\ object'[s] = IF ok THEN whole ELSE object[s]
        /\ \A u \in Sinks \ {s} : object'[u] = object[u]
    <2>1. DOMAIN object = Sinks
      BY <1>1 DEF GlobalTypes
    <2>2. object' = IF ok THEN [object EXCEPT ![s] = whole] ELSE object
      BY <1>3, <1>5
    <2> QED
      BY <2>1, <2>2
  <1>9. /\ PcMoves(s, 0, "gone") /\ UNCHANGED <<left, result, tries>>
        /\ outcome' \in [Sinks -> {"open", "ok", "failed"}] /\ outcome'[s] = answer
        /\ \A u \in Sinks \ {s} : outcome'[u] = outcome[u]
    <2>1. /\ Goto(s, 0, "gone") /\ UNCHANGED <<left, result, tries>>
          /\ outcome' = [outcome EXCEPT ![s] = answer]
      BY <1>3, <1>4 DEF FlushEnds
    <2>2. PcMoves(s, 0, "gone")
      BY <1>1, <2>1, GotoMoves DEF OwnerAt
    <2>3. outcome \in [Sinks -> {"open", "ok", "failed"}]
      BY <1>1 DEF GlobalTypes
    <2> QED
      BY <2>1, <2>2, <2>3
  <1>10. PoolInv'
    <2>1. ReturnConnection(s, 0)
      BY <1>3 DEF ReturnAnyhow
    <2>2. /\ Leaves(s, 0) /\ idle' \in Nat /\ DOMAIN conn' = Sinks
          /\ \A u \in Sinks : conn'[u] \in [Callers(u) -> Links]
      BY <1>1, <1>2, <2>1, ReturnLeaves
    <2>3. GlobalTypes'
      BY <1>1, <1>2, <1>7, <1>8, <1>9, <2>2 DEF GlobalTypes, PcMoves
    <2> QED
      BY <1>1, <1>9, <2>2, <2>3, ConnectionLeft DEF PcMoves
  <1>11. \A u \in Sinks \ {s} : Same(u)
    BY <1>2, <1>7, <1>8, <1>9 DEF Same, PcMoves
  <1>12. ASSUME s \notin overlapped
         PROVE  /\ outcome[s] = "open" /\ flushed[s] = 0 /\ At(s) = "put" /\ Sound(s)
                /\ buffered[s] <= PartSize /\ Reached(s) = buffered[s]
    <2>1. SinkInv(s)
      BY <1>12, SinkFacts
    <2>2. \A j \in Writes(s) : pc[s][j] = "idle"
      BY <1>1, <1>2, WritersIdle
    <2>3. At(s) = "put"
      BY <1>2, <2>2, OwnerInside
    <2>4. /\ outcome[s] = "open" /\ upload[s] = "none" /\ buffered[s] <= PartSize
          /\ s \notin lost
      BY <2>1, <2>3 DEF SinkInv, Stage
    <2>5. flushed[s] = 0
      BY <2>1, <2>4 DEF SinkInv, Stage
    <2> QED
      BY <1>1, <2>3, <2>4, <2>5 DEF Sound, Reached
  <1>13. ASSUME s \notin overlapped, answer = "ok"
         PROVE  \A j \in Writes(s) : result[s][j] = "ok" => Landed(s, j)'
    <2>1. PICK all \in Nat : all = buffered[s]
      BY <1>1
    <2>2. ok /\ object'[s] = whole /\ DOMAIN object'[s] = 1 .. all /\ all = Reached(s)
      BY <1>4, <1>6, <1>8, <1>12, <1>13, <2>1
    <2>3. ASSUME NEW p \in Nat, p < all, Stored(s, p) PROVE object'[s][p + 1] = p
      <3>1. p + 1 \in 1 .. all
        BY <2>3
      <3>2. part_buffer[s][p + 1] = p
        <4>1. flushed[s] = 0 /\ ~(p < 0) /\ p - 0 + 1 = p + 1
          BY <1>12, <1>13
        <4> QED
          BY <2>3, <4>1 DEF Stored
      <3>3. whole[p + 1] = part_buffer[s][p + 1]
        BY <1>6, <1>12, <1>13, <2>1, <3>1
      <3> QED
        BY <2>2, <3>2, <3>3
    <2> QED
      BY <1>12, <1>13, <2>2, <2>3, FlushedLands
  <1>14. object'[s] \in Seq(Bytes(s))
    BY <1>1, <1>5, <1>6, <1>8 DEF BufferTypes
  <1>15. \/ buffered'[s] = buffered[s] /\ flushed'[s] = flushed[s]
         \/ buffered'[s] = 0 /\ (s \notin overlapped => flushed'[s] = Reached(s))
            /\ answer # "open"
    BY <1>4, <1>7, <1>12
  <1>16. s \notin overlapped => outcome[s] = "open"
    BY <1>12
  <1>17. s \notin overlapped /\ answer = "ok" /\ s \notin lost =>
            \A j \in Writes(s) : result[s][j] = "ok" => Landed(s, j)'
    BY <1>13
  <1> QED
    BY <1>2, <1>9, <1>10, <1>11, <1>14, <1>15, <1>16, <1>17, FlushEndsKeeps

LEMMA CompleteUploadKeeps ==
    ASSUME IInv, NEW s \in Sinks, CompleteUpload(s)
    PROVE  IInv'
  <1>1. /\ Base /\ GlobalTypes /\ PoolInv /\ BufferTypes(s) /\ CallerTypes(s) /\ 0 \in Callers(s)
        /\ \A j \in Writes(s) : j \in Callers(s) /\ j # 0
        /\ buffered[s] \in Nat /\ flushed[s] \in Nat
    BY SinkFacts, CallerFacts
  <1>2. /\ pc[s][0] = "complete" /\ conn[s][0] = "holds"
        /\ UNCHANGED <<part_buffer, buffered, flushed, upload, parts>>
    BY DEF CompleteUpload, Answered, bufferVars
  <1>3. PICK answer \in {"open", "ok", "failed"} :
           /\ Goto(s, 0, "gone")
           /\ answer = "open" => UNCHANGED outcome
           /\ answer # "open" => outcome' = [outcome EXCEPT ![s] = answer]
           /\ object' = IF answer = "ok" THEN [object EXCEPT ![s] = parts[s]] ELSE object
           /\ answer = "ok" => upload[s] # "without id"
           /\ DropConnection(s, 0) \/ (ReturnConnection(s, 0) /\ thrown' = thrown)
           /\ UNCHANGED <<left, result, tries, begun, lost, overlapped>>
    <2>1. CASE upload[s] = "without id" \/ parts[s] = <<>>
      <3>1. Goto(s, 0, "gone") /\ DropConnection(s, 0) /\ UNCHANGED <<object, callVars>>
        BY <2>1 DEF CompleteUpload
      <3> QED
        BY <3>1 DEF callVars, DropConnection
    <2>2. CASE ~(upload[s] = "without id" \/ parts[s] = <<>>)
      <3>1. PICK ok \in BOOLEAN : /\ object' = IF ok THEN [object EXCEPT ![s] = parts[s]]
                                               ELSE object
                                  /\ FlushEnds(s, ok)
        BY <2>2 DEF CompleteUpload
      <3>2. ReturnConnection(s, 0) /\ UNCHANGED historyVars
        BY <2>2 DEF CompleteUpload
      <3>3. PICK a \in {"ok", "failed"} : a = IF ok THEN "ok" ELSE "failed"
        OBVIOUS
      <3> QED
        BY <2>2, <3>1, <3>2, <3>3 DEF FlushEnds, historyVars
    <2> QED
      BY <2>1, <2>2
  <1>4. PcMoves(s, 0, "gone")
    BY <1>1, <1>3, GotoMoves DEF OwnerAt
  <1>5. /\ outcome' \in [Sinks -> {"open", "ok", "failed"}]
        /\ outcome'[s] = IF answer = "open" THEN outcome[s] ELSE answer
        /\ \A u \in Sinks \ {s} : outcome'[u] = outcome[u]
    <2>1. outcome \in [Sinks -> {"open", "ok", "failed"}]
      BY <1>1 DEF GlobalTypes
    <2> QED
      BY <1>3, <2>1
  <1>6. /\ DOMAIN object' = Sinks
        /\ object'[s] = IF answer = "ok" THEN parts[s] ELSE object[s]
        /\ \A u \in Sinks \ {s} : object'[u] = object[u]
    <2>1. DOMAIN object = Sinks
      BY <1>1 DEF GlobalTypes
    <2> QED
      BY <1>3, <2>1
  <1>7. /\ Leaves(s, 0) /\ idle' \in Nat /\ thrown' \in Nat /\ DOMAIN conn' = Sinks
        /\ \A u \in Sinks : conn'[u] \in [Callers(u) -> Links]
    <2>1. CASE DropConnection(s, 0)
      BY <1>1, <1>2, <2>1, DropLeaves
    <2>2. CASE ReturnConnection(s, 0) /\ thrown' = thrown
      <3>1. thrown \in Nat
        BY <1>1, BaseFacts
      <3> QED
        BY <1>1, <1>2, <2>2, <3>1, ReturnLeaves
    <2> QED
      BY <1>3, <2>1, <2>2
  <1>8. PoolInv'
    <2>1. GlobalTypes'
      BY <1>1, <1>2, <1>3, <1>4, <1>5, <1>6, <1>7 DEF GlobalTypes, PcMoves
    <2> QED
      BY <1>1, <1>4, <1>7, <2>1, ConnectionLeft DEF PcMoves
  <1>9. \A u \in Sinks \ {s} : Same(u)
    BY <1>2, <1>3, <1>4, <1>5, <1>6 DEF Same, PcMoves
  <1>10. ASSUME s \notin overlapped
         PROVE  outcome[s] = "open" /\ buffered[s] = 0 /\ At(s) = "complete" /\ SinkInv(s)
    <2>1. SinkInv(s)
      BY <1>10, SinkFacts
    <2>2. \A j \in Writes(s) : pc[s][j] = "idle"
      BY <1>1, <1>2, WritersIdle
    <2>3. At(s) = "complete"
      BY <1>2, <2>2, OwnerInside
    <2> QED
      BY <2>1, <2>3 DEF SinkInv, Stage
  <1>11. ASSUME s \notin overlapped, answer = "ok", s \notin lost
         PROVE  \A j \in Writes(s) : result[s][j] = "ok" => Landed(s, j)'
    <2>1. Sound(s)
      BY <1>3, <1>11 DEF Sound
    <2>2. PICK all \in Nat : all = flushed[s]
      BY <1>1
    <2>3. all = Reached(s)
      BY <1>1, <1>10, <1>11, <2>2 DEF Reached
    <2>4. object'[s] = parts[s] /\ DOMAIN object'[s] = 1 .. all
      <3>1. Len(parts[s]) = all /\ parts[s] \in Seq(Bytes(s))
        BY <1>1, <1>10, <1>11, <2>1, <2>2 DEF SinkInv, Content, BufferTypes
      <3>2. DOMAIN parts[s] = 1 .. all
        BY <3>1, LenProperties
      <3> QED
        BY <1>6, <1>11, <3>2
    <2>5. \A p \in Nat : p < all /\ Stored(s, p) => object'[s][p + 1] = p
      BY <2>2, <2>4 DEF Stored
    <2> QED
      BY <1>10, <1>11, <2>1, <2>3, <2>4, <2>5, FlushedLands
  <1>12. object'[s] \in Seq(Bytes(s))
    BY <1>1, <1>6 DEF BufferTypes
  <1>13. PICK final \in {"open", "ok", "failed"} :
            /\ final = outcome'[s]
            /\ s \notin overlapped /\ final = "ok" /\ s \notin lost =>
                  \A j \in Writes(s) : result[s][j] = "ok" => Landed(s, j)'
    BY <1>5, <1>10, <1>11
  <1>14. s \notin overlapped => outcome[s] = "open"
    BY <1>10
  <1> QED
    BY <1>2, <1>3, <1>4, <1>8, <1>9, <1>12, <1>13, <1>14, FlushEndsKeeps
-----------------------------------------------------------------------------
(* The theorems *)

LEMMA StutterKeeps ==
    ASSUME IInv, UNCHANGED vars
    PROVE  IInv'
  <1> USE DEF vars, bufferVars, serverVars, callVars, poolVars, historyVars
  <1>1. \A u \in Sinks : Same(u)
    BY DEF Same
  <1>2. PoolInv'
    <2>1. PoolInv
      BY DEF IInv, Base
    <2>2. GlobalTypes'
      BY <2>1 DEF PoolInv, GlobalTypes
    <2> QED
      BY <2>1, <2>2, PoolStays
  <1>3. \A u \in Sinks : BufferTypes(u)' /\ CallerTypes(u)' /\ Control(u)'
    BY <1>1, SameBase DEF IInv, Base
  <1>4. \A u \in Sinks \ overlapped : SinkInv(u)'
    BY <1>1, SameKeeps DEF IInv
  <1> QED
    BY <1>2, <1>3, <1>4 DEF IInv, Base

LEMMA NextKeeps == IInv /\ [Next]_vars => IInv'
  <1> SUFFICES ASSUME IInv, [Next]_vars
               PROVE  IInv'
    OBVIOUS
  <1>1. CASE UNCHANGED vars
    BY <1>1, StutterKeeps
  <1>2. ASSUME NEW s \in Sinks, NewSink(s)
        PROVE  IInv'
    BY <1>2, NewSinkKeeps
  <1>3. ASSUME NEW s \in Sinks, NEW i \in Callers(s), Step(s, i)
        PROVE  IInv'
    <2>1. CASE GetConnection(s, i)
      BY <2>1, GetConnectionKeeps
    <2>2. CASE WaitForConnection(s, i)
      BY <2>2, WaitForConnectionKeeps
    <2>3. CASE UploadPart(s, i)
      BY <2>3, UploadPartKeeps
    <2>4. CASE BucketExists(s)
      BY <2>4, BucketExistsKeeps
    <2>5. CASE Flush(s)
      BY <2>5, FlushKeeps
    <2>6. CASE PutObject(s)
      BY <2>6, PutObjectKeeps
    <2>7. CASE CompleteUpload(s)
      BY <2>7, CompleteUploadKeeps
    <2>8. ASSUME i # 0 PROVE i \in Writes(s)
      BY <2>8, CallerFacts
    <2>9. CASE i # 0 /\ Copy(s, i)
      BY <2>8, <2>9, CopyKeeps
    <2>10. CASE i # 0 /\ FlushPart(s, i)
      BY <2>8, <2>10, FlushPartKeeps
    <2>11. CASE i # 0 /\ CreateUpload(s, i)
      BY <2>8, <2>11, CreateUploadKeeps
    <2> QED
      BY <1>3, <2>1, <2>2, <2>3, <2>4, <2>5, <2>6, <2>7, <2>9, <2>10, <2>11
         DEF Step, Flushes
  <1>4. ASSUME NEW s \in Sinks, NEW i \in Writes(s), Write(s, i)
        PROVE  IInv'
    BY <1>4, WriteKeeps
  <1> QED
    BY <1>1, <1>2, <1>3, <1>4 DEF Next

\* The inductive invariant holds throughout: of every sink what its callers and
\* the connections are doing, and where every byte is that was copied as long as
\* its writes came one at a time.
THEOREM Invariant == Spec => []IInv
  <1>1. Init => IInv
    BY InitIInv
  <1> QED
    BY <1>1, NextKeeps, PTL DEF Spec

\* Every value has its type; no write is tried more often than its job tries;
\* and the buffer is never filled beyond its end while the writes come one at a
\* time, save by the write that corrupts it (S3Sink::write, flush_part_ and
\* put_object_ of s3.sink.cpp).
THEOREM TypeCorrect == Spec => []TypeOK
  <1>1. IInv => TypeOK
    <2> SUFFICES ASSUME IInv PROVE TypeOK
      OBVIOUS
    <2>1. Base /\ PoolInv /\ GlobalTypes /\ ConnectionsAccounted /\ IsFiniteSet(Holders)
      BY DEF IInv, Base, PoolInv
    <2>2. ASSUME NEW s \in Sinks
          PROVE  /\ part_buffer[s] \in [1 .. PartSize -> Bytes(s)]
                 /\ buffered[s] \in Nat /\ flushed[s] \in Nat
                 /\ parts[s] \in Seq(Bytes(s)) /\ object[s] \in Seq(Bytes(s))
                 /\ pc[s][0] \in {"new", "exists", "idle", "part", "complete", "put", "gone"}
                 /\ conn[s] \in [Callers(s) -> {"none", "asleep", "holds"}]
                 /\ result[s] \in [Writes(s) -> {"todo", "ok", "failed"}]
                 /\ begun[s] \in Seq(Writes(s))
      <3>1. BufferTypes(s) /\ CallerTypes(s) /\ buffered[s] \in Nat /\ flushed[s] \in Nat
        BY SinkFacts
      <3> QED
        BY <2>1, <3>1 DEF BufferTypes, CallerTypes, GlobalTypes, OwnerAt, Results, Links
    <2>3. ASSUME NEW s \in Sinks
          PROVE  s \in overlapped \/ (\E i \in Writes(s) : pc[s][i] \in {"copy", "corrupt"})
                    \/ buffered[s] <= PartSize
      <3>1. SUFFICES ASSUME s \notin overlapped,
                            \A i \in Writes(s) : pc[s][i] \notin {"copy", "corrupt"}
                     PROVE  buffered[s] <= PartSize
        OBVIOUS
      <3>2. SinkInv(s) /\ CallerTypes(s)
        BY <3>1, SinkFacts
      <3>3. At(s) \notin {"copy", "corrupt"}
        <4>1. CASE \E i \in Writes(s) : pc[s][i] # "idle"
          <5>1. PICK i \in Writes(s) : pc[s][i] # "idle"
            BY <4>1
          <5>2. At(s) = pc[s][i]
            BY <3>1, <5>1, CallFacts DEF InCall
          <5> QED
            BY <3>1, <5>2
        <4>2. CASE \A i \in Writes(s) : pc[s][i] = "idle"
          <5>1. At(s) = pc[s][0]
            BY <4>2, OwnerInside
          <5> QED
            BY <3>2, <5>1 DEF CallerTypes, OwnerAt
        <4> QED
          BY <4>1, <4>2
      <3> QED
        BY <3>2, <3>3 DEF SinkInv, Stage
    <2>4. ASSUME NEW s \in Sinks, NEW i \in Writes(s)
          PROVE  /\ pc[s][i] \in {"idle", "copy", "flush", "create", "part", "corrupt"}
                 /\ left[s][i] \in 0 .. Plan[s][i]
                 /\ tries[s][i] \in 0 .. Tries(s, i)
      <3>1. CallerTypes(s) /\ i \in Callers(s)
        BY SinkFacts, CallerFacts
      <3>2. /\ left[s][i] \in Nat /\ left[s][i] <= Plan[s][i]
            /\ tries[s][i] \in Nat /\ tries[s][i] <= Tries(s, i)
            /\ pc[s][i] \in WriterAt
        BY <3>1 DEF CallerTypes
      <3>3. Plan[s][i] \in Nat /\ Tries(s, i) \in Nat
        BY PlanFacts
      <3> QED
        BY <3>2, <3>3 DEF WriterAt
    <2>5. idle \in 0 .. NConnections
      <3>1. idle \in Nat /\ thrown \in Nat
        BY <2>1 DEF GlobalTypes
      <3>2. PICK held \in Nat : held = Cardinality(Holders)
        BY <2>1, FS_CardinalityType
      <3>3. NConnections \in Nat /\ idle + held + thrown = NConnections
        BY <2>1, <3>2, S3SinkAssumption DEF ConnectionsAccounted
      <3> QED
        BY <3>1, <3>3
    <2>6. /\ upload \in [Sinks -> {"none", "asked", "without id", "open"}]
          /\ outcome \in [Sinks -> {"open", "ok", "failed"}]
          /\ thrown \in Nat /\ lost \subseteq Sinks /\ overlapped \subseteq Sinks
      BY <2>1 DEF GlobalTypes
    <2> QED
      BY <2>2, <2>3, <2>4, <2>5, <2>6 DEF TypeOK
  <1> QED
    BY <1>1, Invariant, PTL

\* Every connection of the pool is idle, with a caller that makes a request, or
\* lost to a request that threw, whatever overlaps (S3ConnectionPool, and the
\* callers that do not return a connection when an exception leaves them).
THEOREM ConnectionsKept == Spec => []ConnectionsAccounted
  <1>1. IInv => ConnectionsAccounted
    BY DEF IInv, Base, PoolInv
  <1> QED
    BY <1>1, Invariant, PTL

\* Of a sink whose writes came one at a time: what was acknowledged is at its
\* place in the object when finalize_sink says that the object is complete, or a
\* write has failed where the stream sees it; and as long as the chunks come in
\* the order of their offsets and no part is lost, S3Sink::write stays inside
\* its buffer.  Of the others nothing is claimed.
THEOREM AckedBytesInPlace == Spec => []AckedBytesLand
  <1>1. IInv => AckedBytesLand
    <2> SUFFICES ASSUME IInv, NEW s \in Sinks \ overlapped
                 PROVE  /\ outcome[s] = "ok" =>
                              IF s \in lost
                              THEN \E i \in Writes(s) : result[s][i] = "failed"
                              ELSE \A i \in Writes(s) : result[s][i] = "ok" => Landed(s, i)
                        /\ (\E i \in Writes(s) : pc[s][i] = "corrupt") =>
                              ~InOrder(s) \/ s \in lost \/ upload[s] = "without id"
      BY DEF AckedBytesLand
    <2>1. SinkInv(s)
      BY SinkFacts
    <2>2. ASSUME outcome[s] = "ok", s \in lost
          PROVE  \E i \in Writes(s) : result[s][i] = "failed"
      <3>1. \E i \in Writes(s) : Doomed(s, i)
        BY <2>1, <2>2 DEF SinkInv, LossIsSeen
      <3>2. \A i \in Writes(s) : result[s][i] # "todo"
        BY <2>1, <2>2 DEF SinkInv, Final
      <3> QED
        BY <3>1, <3>2 DEF Doomed
    <2>3. ASSUME outcome[s] = "ok", s \notin lost
          PROVE  \A i \in Writes(s) : result[s][i] = "ok" => Landed(s, i)
      BY <2>1, <2>3 DEF SinkInv, Final
    <2>4. ASSUME NEW i \in Writes(s), pc[s][i] = "corrupt"
          PROVE  ~InOrder(s) \/ s \in lost \/ upload[s] = "without id"
      <3>1. At(s) = "corrupt"
        BY <2>4, CallFacts DEF InCall
      <3> QED
        BY <2>1, <3>1 DEF SinkInv, Orderly, Sound
    <2> QED
      BY <2>2, <2>3, <2>4
  <1> QED
    BY <1>1, Invariant, PTL

Alone == overlapped = {}

\* On one thread no two calls of write overlap: the one that a chunk's job makes
\* is the only one, and the table waits for them all (the thread pool has one
\* thread on a machine with one core, and Array::dispatch_chunk_job_ then runs
\* every chunk's job inline).
THEOREM AloneOnOneThread ==
    ASSUME NThreads = 1
    PROVE  Spec => []Alone
  <1>1. Init => Alone
    BY DEF Init, Alone
  <1>2. IsFiniteSet(ChunksWritten)
    <2>1. ASSUME NEW s \in Sinks PROVE IsFiniteSet({s} \X (Writing(s) \ {Table(s)}))
      <3>1. IsFiniteSet(Writes(s))
        <4>1. Writes(s) = 1 .. Table(s) /\ Table(s) \in Nat
          BY PlanFacts
        <4> QED
          BY <4>1, FS_Interval
      <3>2. Writing(s) \ {Table(s)} \subseteq Writes(s)
        BY DEF Writing
      <3>3. IsFiniteSet(Writing(s) \ {Table(s)})
        BY <3>1, <3>2, FS_Subset
      <3> QED
        BY <3>3, FS_Singleton, FS_Product
    <2> DEFINE f == [s \in Sinks |-> {s} \X (Writing(s) \ {Table(s)})]
               all == {f[s] : s \in Sinks}
    <2>2. f \in Surjection(Sinks, all)
      BY DEF Surjection
    <2>3. IsFiniteSet(all)
      BY <2>2, S3SinkAssumption, FS_Surjection
    <2>4. \A T \in all : IsFiniteSet(T)
      BY <2>1
    <2>5. ChunksWritten = UNION all
      BY DEF ChunksWritten
    <2> HIDE DEF all
    <2> QED
      BY <2>3, <2>4, <2>5, FS_UNION
  <1>3. IInv /\ Alone /\ [Next]_vars => Alone'
    <2>1. ASSUME IInv, overlapped = {}, NEW s \in Sinks, NEW i \in Writes(s), Write(s, i)
          PROVE  overlapped' = {}
      <3>1. MayWrite(s, i) /\ overlapped' = IF Writing(s) = {} THEN overlapped ELSE overlapped \cup {s}
        BY <2>1 DEF Write
      <3>2. Control(s) /\ Writes(s) = 1 .. Table(s) /\ Table(s) \in Nat
        BY <2>1, SinkFacts, PlanFacts
      <3>3. ASSUME NEW j \in Writes(s), pc[s][j] # "idle" PROVE FALSE
        <4>1. Open(s, j)
          BY <3>2, <3>3 DEF Control
        <4>2. CASE i = Table(s)
          <5>1. j \in 1 .. i - 1 \/ j = i
            BY <3>2, <4>2
          <5> QED
            BY <3>1, <3>3, <4>1, <4>2, <5>1 DEF MayWrite, Open
        <4>3. CASE i # Table(s)
          <5>1. Cardinality(ChunksWritten) = 0
            <6>1. PICK n \in Nat : n = Cardinality(ChunksWritten)
              BY <1>2, FS_CardinalityType
            <6>2. n < 1
              BY <3>1, <4>3, <6>1 DEF MayWrite
            <6> QED
              BY <6>1, <6>2
          <5>2. ChunksWritten = {}
            BY <1>2, <5>1, FS_EmptySet
          <5>3. j = Table(s)
            <6>1. ASSUME j # Table(s) PROVE FALSE
              <7>1. j \in Writing(s) \ {Table(s)}
                BY <3>3, <6>1 DEF Writing
              <7>2. <<s, j>> \in ChunksWritten
                BY <2>1, <7>1 DEF ChunksWritten
              <7> QED
                BY <5>2, <7>2
            <6> QED
              BY <6>1
          <5>4. i \in 1 .. Table(s) - 1
            BY <2>1, <3>2, <4>3
          <5> QED
            BY <3>1, <4>1, <5>3, <5>4 DEF MayWrite, Open
        <4> QED
          BY <4>2, <4>3
      <3>4. Writing(s) = {}
        BY <3>3 DEF Writing
      <3> QED
        BY <2>1, <3>1, <3>4
    <2>2. ASSUME overlapped = {}, NEW s \in Sinks, NewSink(s) PROVE overlapped' = {}
      BY <2>2 DEF NewSink, historyVars
    <2>3. ASSUME overlapped = {}, NEW s \in Sinks, NEW i \in Callers(s), Step(s, i)
          PROVE  overlapped' = {}
      BY <2>3 DEF Step, Flushes, GetConnection, WaitForConnection, UploadPart, BucketExists,
                  Flush, PutObject, CompleteUpload, Copy, FlushPart, CreateUpload,
                  DropConnection, historyVars
    <2>4. ASSUME overlapped = {}, UNCHANGED vars PROVE overlapped' = {}
      BY <2>4 DEF vars, historyVars
    <2> QED
      BY <2>1, <2>2, <2>3, <2>4 DEF Next, Alone
  <1> QED
    BY <1>1, <1>3, Invariant, PTL DEF Spec
=============================================================================
