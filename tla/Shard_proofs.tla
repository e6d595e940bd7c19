---------------------------- MODULE Shard_proofs ----------------------------
(***************************************************************************)
(* Proofs about Shard for any finite set of chunks, any sizes and any      *)
(* number of tries: the countdown is right, so the sink outlives every     *)
(* writer, the claimed ranges are disjoint, the table tells the truth, and *)
(* a shard whose chunks all reported success is published.                 *)
(*                                                                         *)
(* The invariants that are checked are not inductive.  What they need to   *)
(* know is what unwritten_chunks_ counts (Countdown) and which chunks have *)
(* settled, that is, have their entry and their bytes agree (Settled).     *)
(***************************************************************************)
EXTENDS Shard, FiniteSetTheorems, TLAPS

\* The chunks whose writer has not reported success.
NotOk == {i \in Chunks : pc[i] # "ok"}

\* Until the shard is finalized, unwritten_chunks_ counts the chunks whose
\* writer has not reported success, and there is one; it reaches zero with the
\* one writer that goes on to finalize.  Afterwards no writer is past "enter".
Countdown ==
    /\ ~finalized => sink
    /\ closed => finalized
    /\ ~finalized /\ (\A i \in Chunks : pc[i] # "finalize") =>
          unwritten_chunks = Cardinality(NotOk)
    /\ ~finalized /\ Chunks # {} => NotOk # {}
    /\ \A i \in Chunks : pc[i] = "finalize" =>
          /\ ~finalized /\ unwritten_chunks = 0
          /\ \A j \in Chunks \ {i} : pc[j] = "ok"
    /\ finalized => \A i \in Chunks : \/ pc[i] \in {"enter", "ok", "failed"}
                                      \/ closed /\ pc[i] = "idle"

\* A chunk has an extent when it has an offset, and no chunk that is skipped has
\* either; until the shard is finalized, a chunk whose writer has its call
\* behind it, or has not begun, has its bytes where its offset says.
Settled ==
    \A i \in Chunks :
       /\ extents[i] = IF offsets[i] = Unwritten THEN Unwritten ELSE SizeOf[i]
       /\ i \in skips => /\ offsets[i] = Unwritten /\ stored[i] = Unwritten
                         /\ pc[i] \notin {"claim", "write"}
       /\ ~finalized /\ pc[i] \in {"idle", "count", "finalize", "ok"} =>
             stored[i] = offsets[i]

\* A shard that was finalized well has a table and is durable; one that was not
\* has a chunk whose writer did not report success.
Published ==
    /\ finalize_ok => finalized /\ table # NoTable /\ durable
    /\ finalized /\ ~finalize_ok /\ Chunks # {} => NotOk # {}
    /\ table # NoTable => finalized

\* A writer that is not done has a try left.
TriesLeft ==
    \A i \in Chunks : pc[i] \in Running \cup {"idle"} => tries[i] < Tries

IInv == /\ TypeOK /\ Countdown /\ Settled /\ TriesLeft
        /\ RangesDisjoint /\ TableTruthful /\ Published
-----------------------------------------------------------------------------
(* Facts about the countdown *)

\* The chunks not yet reported are finitely many, and none if and only if
\* their number is zero.
LEMMA NotOkFinite ==
    /\ IsFiniteSet(NotOk)
    /\ Cardinality(NotOk) \in Nat
    /\ Cardinality(NotOk) = 0 <=> NotOk = {}
  <1>1. NotOk \subseteq Chunks
    BY DEF NotOk
  <1>2. IsFiniteSet(NotOk)
    BY <1>1, ShardAssumption, FS_Subset
  <1> QED
    BY <1>2, FS_CardinalityType, FS_EmptySet

\* A writer that is using the sink is counted, and the shard is not finalized:
\* this is SinkAlive, and what every step of a writer relies on.
LEMMA WriterCounted ==
    ASSUME TypeOK, Countdown, NEW i \in Chunks,
           pc[i] \in {"claim", "write", "count"}
    PROVE  /\ ~finalized /\ sink /\ ~closed
           /\ \A j \in Chunks : pc[j] # "finalize"
           /\ unwritten_chunks = Cardinality(NotOk)
           /\ unwritten_chunks > 0
  <1>1. ~finalized
    BY DEF Countdown
  <1>2. \A j \in Chunks : pc[j] # "finalize"
    BY DEF Countdown
  <1>3. unwritten_chunks = Cardinality(NotOk)
    BY <1>1, <1>2 DEF Countdown
  <1>4. i \in NotOk
    BY DEF NotOk
  <1>5. Cardinality(NotOk) \in Nat /\ Cardinality(NotOk) # 0
    BY <1>4, NotOkFinite
  <1>6. sink /\ ~closed
    BY <1>1 DEF Countdown
  <1>7. unwritten_chunks > 0
    BY <1>3, <1>5
  <1> QED
    BY <1>1, <1>2, <1>3, <1>6, <1>7

\* The invariant gives the sink to every writer that is past "enter".
LEMMA SinkStaysAlive == IInv => SinkAlive
  <1> SUFFICES ASSUME IInv PROVE SinkAlive
    OBVIOUS
  <1> USE DEF IInv
  <1>1. ASSUME NEW i \in Active, pc[i] # "enter" PROVE sink /\ ~finalized
    BY <1>1 DEF Active, Running, Countdown
  <1>2. ASSUME NEW i \in Active, pc[i] \in {"claim", "write", "count"}
        PROVE  unwritten_chunks > 0
    BY <1>2, WriterCounted DEF Active
  <1> QED
    BY <1>1, <1>2 DEF SinkAlive
-----------------------------------------------------------------------------
(* Init, and one lemma per action *)

\* Nothing has happened: every chunk is counted and none has a range.
LEMMA InitIInv == Init => IInv
  <1> SUFFICES ASSUME Init PROVE IInv
    OBVIOUS
  <1>0. NotOk = Chunks
    BY DEF Init, NotOk
  <1>1. Cardinality(Chunks) \in Nat
    BY ShardAssumption, FS_CardinalityType
  <1>2. TypeOK
    <2>1. unwritten_chunks \in 0 .. Cardinality(Chunks)
      BY <1>1 DEF Init
    <2>2. tries \in [Chunks -> 0 .. Tries]
      BY ShardAssumption DEF Init
    <2> QED
      BY <2>1, <2>2 DEF Init, TypeOK
  <1>3. Countdown
    <2>1. ~closed /\ ~finalized
      BY DEF Init
    <2>3. ~finalized => sink
      BY DEF Init
    <2>2. \A i \in Chunks : pc[i] = "idle"
      BY DEF Init
    <2> QED
      BY <1>0, <2>1, <2>2, <2>3 DEF Init, Countdown
  <1>4. Settled
    BY DEF Init, Settled
  <1>5. RangesDisjoint
    BY DEF Init, RangesDisjoint, Claimed
  <1>6. TableTruthful /\ Published
    BY DEF Init, TableTruthful, Published
  <1>7. TriesLeft
    BY ShardAssumption DEF Init, TriesLeft
  <1> QED
    BY <1>2, <1>3, <1>4, <1>5, <1>6, <1>7 DEF IInv

\* A call that returns ok is the writer's last, one that does not is either
\* tried again or given up.
LEMMA ReturnedFacts ==
    ASSUME TypeOK, TriesLeft, NEW i \in Chunks, pc[i] \in Running,
           NEW ok \in BOOLEAN, Returned(i, ok)
    PROVE  /\ pc'[i] = "ok" <=> ok
           /\ pc'[i] \in {"ok", "enter", "failed"}
           /\ \A j \in Chunks \ {i} : pc'[j] = pc[j]
           /\ pc' \in [Chunks -> Running \cup {"idle", "ok", "failed"}]
           /\ tries' \in [Chunks -> 0 .. Tries]
           /\ TriesLeft'
  <1> USE DEF Returned, Goto, AfterCall, TypeOK, TriesLeft, Running
  <1>1. tries[i] \in 0 .. Tries /\ tries[i] < Tries /\ Tries \in Nat
    BY ShardAssumption
  <1>2. tries' = [tries EXCEPT ![i] = tries[i] + 1]
    OBVIOUS
  <1>3. tries' \in [Chunks -> 0 .. Tries]
    BY <1>1, <1>2
  <1>4. /\ pc'[i] = "ok" <=> ok
        /\ pc'[i] \in {"ok", "enter", "failed"}
        /\ pc'[i] = "enter" => tries[i] + 1 < Tries
        /\ \A j \in Chunks \ {i} : pc'[j] = pc[j]
        /\ pc' \in [Chunks -> Running \cup {"idle", "ok", "failed"}]
    OBVIOUS
  <1>5. TriesLeft'
    BY <1>1, <1>2, <1>4
  <1> QED
    BY <1>3, <1>4, <1>5

\* A dispatched chunk is one not yet reported, as before.
LEMMA DispatchKeeps ==
    ASSUME IInv, NEW i \in Chunks, Dispatch(i) PROVE IInv'
  <1> USE DEF IInv, Dispatch, Goto
  <1>0. NotOk' = NotOk
    BY DEF NotOk, TypeOK
  <1>1. TypeOK'
    BY DEF TypeOK, Running, tableVars, finalVars, fileVars
  <1>2. Countdown'
    BY <1>0 DEF Countdown, TypeOK, tableVars, finalVars, fileVars
  <1>3. Settled'
    BY DEF Settled, TypeOK, tableVars, finalVars, fileVars
  <1>4. RangesDisjoint'
    BY DEF RangesDisjoint, Claimed, tableVars
  <1>5. TableTruthful'
    BY DEF TableTruthful, TypeOK, fileVars
  <1>6. Published'
    BY <1>0 DEF Published, finalVars, fileVars
  <1>7. TriesLeft'
    BY DEF TriesLeft, TypeOK, Running
  <1> QED
    BY <1>1, <1>2, <1>3, <1>4, <1>5, <1>6, <1>7

\* Entering changes the count of nobody: a shard already finalized answers with
\* its result, which is ok only if it is published.
LEMMA EnterKeeps ==
    ASSUME IInv, NEW i \in Chunks, Enter(i) PROVE IInv'
  <1> USE DEF IInv
  <1>1. CASE finalized
    <2>1. Returned(i, finalize_ok)
      BY <1>1 DEF Enter, AlreadyFinalized
    <2>2. finalize_ok \in BOOLEAN /\ pc[i] = "enter" /\ pc[i] \in Running
      BY DEF TypeOK, Enter, Running
    <2>3. /\ pc'[i] = "ok" <=> finalize_ok
          /\ pc'[i] \in {"ok", "enter", "failed"}
          /\ \A j \in Chunks \ {i} : pc'[j] = pc[j]
          /\ pc' \in [Chunks -> Running \cup {"idle", "ok", "failed"}]
          /\ tries' \in [Chunks -> 0 .. Tries]
          /\ TriesLeft'
      BY <2>1, <2>2, ReturnedFacts
    <2>4. UNCHANGED <<tableVars, unwritten_chunks, finalVars, fileVars, skips, closed>>
      BY DEF Enter
    <2> QED
      <3> USE DEF tableVars, finalVars, fileVars
      <3>1. TypeOK'
        BY <2>3, <2>4 DEF TypeOK
      <3>2. Countdown'
        BY <1>1, <2>2, <2>3, <2>4 DEF Countdown
      <3>3. Settled'
        BY <1>1, <2>2, <2>3, <2>4 DEF Settled, Published
      <3>4. RangesDisjoint'
        BY <2>4 DEF RangesDisjoint, Claimed
      <3>5. TableTruthful'
        BY <2>2, <2>3, <2>4 DEF TableTruthful
      <3>6. Published'
        BY <2>2, <2>3, <2>4 DEF Published, NotOk
      <3> QED
        BY <2>3, <3>1, <3>2, <3>3, <3>4, <3>5, <3>6
  <1>2. CASE ~finalized
    <2> DEFINE next == IF i \in skips THEN "count" ELSE "claim"
    <2>1. pc[i] = "enter" /\ pc' = [pc EXCEPT ![i] = next]
      BY <1>2 DEF Enter, AlreadyFinalized, Goto
    <2>2. UNCHANGED <<tableVars, unwritten_chunks, finalVars, fileVars, skips, tries, closed>>
      BY <1>2 DEF Enter, AlreadyFinalized
    <2>3. NotOk' = NotOk
      BY <2>1 DEF NotOk, TypeOK
    <2> USE DEF tableVars, finalVars, fileVars
    <2>4. TypeOK'
      BY <2>1, <2>2 DEF TypeOK, Running
    <2>5. Countdown'
      BY <1>2, <2>1, <2>2, <2>3 DEF Countdown, TypeOK
    <2>6. Settled'
      BY <2>1, <2>2 DEF Settled, TypeOK
    <2>7. RangesDisjoint'
      BY <2>2 DEF RangesDisjoint, Claimed
    <2>8. TableTruthful'
      BY <2>1, <2>2 DEF TableTruthful, TypeOK
    <2>9. Published'
      BY <2>2, <2>3 DEF Published
    <2>10. TriesLeft'
      BY <2>1, <2>2 DEF TriesLeft, TypeOK, Running
    <2> QED
      BY <2>4, <2>5, <2>6, <2>7, <2>8, <2>9, <2>10
  <1> QED
    BY <1>1, <1>2 DEF TypeOK

\* A chunk claims the range from file_offset_ on, where no other range reaches,
\* or has claimed one before.
LEMMA ClaimKeeps ==
    ASSUME IInv, NEW i \in Chunks, Claim(i) PROVE IInv'
  <1> USE DEF IInv, Goto
  <1>1. pc[i] = "claim" /\ pc' = [pc EXCEPT ![i] = "write"]
    BY DEF Claim
  <1>2. UNCHANGED <<unwritten_chunks, finalVars, fileVars, skips, tries, closed>>
    BY DEF Claim
  <1>3. ~finalized /\ i \notin skips
    BY <1>1, WriterCounted DEF Settled
  <1>4. NotOk' = NotOk
    BY <1>1 DEF NotOk, TypeOK
  <1>5. SizeOf[i] \in Nat \ {0}
    BY ShardAssumption
  <1>6. \/ /\ offsets[i] = Unwritten
           /\ extents' = [extents EXCEPT ![i] = SizeOf[i]]
           /\ offsets' = [offsets EXCEPT ![i] = file_offset]
           /\ file_offset' = file_offset + SizeOf[i]
        \/ offsets[i] # Unwritten /\ UNCHANGED <<offsets, extents, file_offset>>
    BY DEF Claim, Unclaimed, RangeEnd, tableVars
  <1> USE DEF finalVars, fileVars
  <1>7. TypeOK'
    <2>1. /\ offsets' \in [Chunks -> Nat \cup {Unwritten}]
          /\ extents' \in [Chunks -> Nat \cup {Unwritten}]
          /\ file_offset' \in Nat
      BY <1>5, <1>6 DEF TypeOK
    <2> QED
      BY <1>1, <1>2, <2>1 DEF TypeOK, Running
  <1>8. Countdown'
    BY <1>1, <1>2, <1>3, <1>4 DEF Countdown, TypeOK
  <1>9. Settled'
    BY <1>1, <1>2, <1>3, <1>6, ShardAssumption DEF Settled, TypeOK
  <1>10. RangesDisjoint'
    <2>1. \A j \in Chunks : offsets[j] # Unwritten =>
             /\ offsets[j] \in Nat /\ extents[j] = SizeOf[j] /\ SizeOf[j] \in Nat
             /\ offsets[j] + SizeOf[j] <= file_offset
      BY ShardAssumption DEF TypeOK, RangesDisjoint, Claimed
    <2>2. CASE offsets[i] # Unwritten
      BY <1>6, <2>2 DEF RangesDisjoint, Claimed
    <2>3. CASE offsets[i] = Unwritten
      <3>1. /\ offsets'[i] = file_offset /\ extents'[i] = SizeOf[i]
            /\ file_offset' = file_offset + SizeOf[i] /\ file_offset \in Nat
            /\ \A j \in Chunks \ {i} : offsets'[j] = offsets[j] /\ extents'[j] = extents[j]
        BY <1>6, <2>3 DEF TypeOK
      <3>2. \A j \in Chunks : offsets'[j] # Unwritten =>
               extents'[j] = SizeOf[j] /\ offsets'[j] + SizeOf[j] <= file_offset'
        BY <1>5, <2>1, <3>1
      <3>3. \A j, k \in Chunks : offsets'[j] # Unwritten /\ offsets'[k] # Unwritten /\ j # k =>
               offsets'[j] + SizeOf[j] <= offsets'[k] \/ offsets'[k] + SizeOf[k] <= offsets'[j]
        BY <2>1, <3>1 DEF RangesDisjoint, Claimed
      <3> QED
        BY <3>2, <3>3 DEF RangesDisjoint, Claimed
    <2> QED
      BY <2>2, <2>3
  <1>11. TableTruthful'
    BY <1>2, <1>3 DEF TableTruthful, Published
  <1>12. Published'
    BY <1>2, <1>4 DEF Published
  <1>13. TriesLeft'
    BY <1>1, <1>2 DEF TriesLeft, TypeOK, Running
  <1> QED
    BY <1>7, <1>8, <1>9, <1>10, <1>11, <1>12, <1>13

\* The bytes land where the chunk's entry says.
LEMMA WriteOkKeeps ==
    ASSUME IInv, NEW i \in Chunks, WriteOk(i) PROVE IInv'
  <1> USE DEF IInv, Goto
  <1>1. /\ pc[i] = "write" /\ pc' = [pc EXCEPT ![i] = "count"]
        /\ stored' = [stored EXCEPT ![i] = offsets[i]]
    BY DEF WriteOk
  <1>2. UNCHANGED <<tableVars, unwritten_chunks, finalVars, table, durable, skips,
                    tries, closed>>
    BY DEF WriteOk
  <1>3. ~finalized /\ i \notin skips
    BY <1>1, WriterCounted DEF Settled
  <1>4. NotOk' = NotOk
    BY <1>1 DEF NotOk, TypeOK
  <1> USE DEF tableVars, finalVars
  <1>5. TypeOK'
    BY <1>1, <1>2 DEF TypeOK, Running
  <1>6. Countdown'
    BY <1>1, <1>2, <1>3, <1>4 DEF Countdown, TypeOK
  <1>7. Settled'
    BY <1>1, <1>2, <1>3 DEF Settled, TypeOK
  <1>8. RangesDisjoint'
    BY <1>2 DEF RangesDisjoint, Claimed
  <1>9. TableTruthful'
    BY <1>2, <1>3 DEF TableTruthful, Published
  <1>10. Published'
    BY <1>2, <1>4 DEF Published
  <1>11. TriesLeft'
    BY <1>1, <1>2 DEF TriesLeft, TypeOK, Running
  <1> QED
    BY <1>5, <1>6, <1>7, <1>8, <1>9, <1>10, <1>11

\* A failed write counts nothing: the chunk stays among those not reported.
LEMMA WriteFailsKeeps ==
    ASSUME IInv, NEW i \in Chunks, WriteFails(i) PROVE IInv'
  <1> USE DEF IInv
  <1>1. pc[i] = "write" /\ Returned(i, FALSE)
    BY DEF WriteFails
  <1>2. UNCHANGED <<tableVars, unwritten_chunks, finalVars, fileVars, skips, closed>>
    BY DEF WriteFails
  <1>3. ~finalized /\ i \notin skips
    BY <1>1, WriterCounted DEF Settled
  <1>4. /\ pc'[i] \in {"enter", "failed"}
        /\ \A j \in Chunks \ {i} : pc'[j] = pc[j]
        /\ pc' \in [Chunks -> Running \cup {"idle", "ok", "failed"}]
        /\ tries' \in [Chunks -> 0 .. Tries]
        /\ TriesLeft'
    <2>1. pc[i] \in Running /\ FALSE \in BOOLEAN
      BY <1>1 DEF Running
    <2> QED
      BY <1>1, <2>1, ReturnedFacts
  <1>5. NotOk' = NotOk
    BY <1>1, <1>4 DEF NotOk
  <1> USE DEF tableVars, finalVars, fileVars
  <1>6. TypeOK'
    BY <1>2, <1>4 DEF TypeOK
  <1>7. Countdown'
    BY <1>1, <1>2, <1>3, <1>4, <1>5 DEF Countdown
  <1>8. Settled'
    BY <1>2, <1>3, <1>4 DEF Settled
  <1>9. RangesDisjoint'
    BY <1>2 DEF RangesDisjoint, Claimed
  <1>10. TableTruthful'
    BY <1>2, <1>3 DEF TableTruthful, Published
  <1>11. Published'
    BY <1>2, <1>5 DEF Published
  <1> QED
    BY <1>4, <1>6, <1>7, <1>8, <1>9, <1>10, <1>11

\* The count goes down by the one chunk that is reported; when the chunk is the
\* last one, it is not reported yet but sent to finalize.
LEMMA CountKeeps ==
    ASSUME IInv, NEW i \in Chunks, Count(i) PROVE IInv'
  <1> USE DEF IInv
  <1>1. /\ pc[i] = "count" /\ unwritten_chunks' = unwritten_chunks - 1
        /\ UNCHANGED <<tableVars, finalVars, fileVars, skips, closed>>
    BY DEF Count
  <1>2. /\ ~finalized /\ ~closed
        /\ \A j \in Chunks : pc[j] # "finalize"
        /\ unwritten_chunks = Cardinality(NotOk) /\ unwritten_chunks > 0
    BY <1>1, WriterCounted
  <1>3. i \in NotOk /\ IsFiniteSet(NotOk) /\ Cardinality(NotOk) \in Nat
    BY <1>1, NotOkFinite DEF NotOk
  <1>4. unwritten_chunks' \in 0 .. Cardinality(Chunks)
    BY <1>1, <1>2, <1>3, ShardAssumption, FS_CardinalityType DEF TypeOK
  <1>5. IsFiniteSet(NotOk \ {i}) /\ Cardinality(NotOk \ {i}) = unwritten_chunks - 1
    BY <1>2, <1>3, FS_RemoveElement
  <1> USE DEF tableVars, finalVars, fileVars
  <1>6. RangesDisjoint'
    BY <1>1 DEF RangesDisjoint, Claimed
  <1>7. TableTruthful'
    BY <1>1, <1>2 DEF TableTruthful, Published
  <1>8. CASE IsLast
    <2>1. pc' = [pc EXCEPT ![i] = "finalize"] /\ tries' = tries
      BY <1>8 DEF Count, Goto
    <2>2. unwritten_chunks' = 0 /\ NotOk \ {i} = {}
      BY <1>1, <1>3, <1>5, <1>8, FS_EmptySet DEF IsLast
    <2>3. NotOk' = NotOk
      BY <1>1, <2>1 DEF NotOk, TypeOK
    <2>4. TypeOK'
      BY <1>1, <1>4, <2>1 DEF TypeOK, Running
    <2>5. \A j \in Chunks \ {i} : pc'[j] = "ok"
      BY <2>1, <2>2 DEF NotOk, TypeOK
    <2>6. Countdown'
      BY <1>1, <1>2, <2>1, <2>2, <2>3, <2>5 DEF Countdown, TypeOK
    <2>7. Settled'
      BY <1>1, <2>1 DEF Settled, TypeOK
    <2>8. Published'
      BY <1>1, <2>3 DEF Published
    <2>9. TriesLeft'
      BY <1>1, <2>1 DEF TriesLeft, TypeOK, Running
    <2> QED
      BY <1>6, <1>7, <2>4, <2>6, <2>7, <2>8, <2>9
  <1>9. CASE ~IsLast
    <2>1. Returned(i, TRUE) /\ pc[i] \in Running /\ TRUE \in BOOLEAN
      BY <1>1, <1>9 DEF Count, Running
    <2>2. /\ pc'[i] = "ok"
          /\ \A j \in Chunks \ {i} : pc'[j] = pc[j]
          /\ pc' \in [Chunks -> Running \cup {"idle", "ok", "failed"}]
          /\ tries' \in [Chunks -> 0 .. Tries]
          /\ TriesLeft'
      BY <2>1, ReturnedFacts
    <2>3. NotOk' = NotOk \ {i}
      BY <2>2 DEF NotOk
    <2>4. unwritten_chunks' = Cardinality(NotOk') /\ NotOk' # {}
      <3>1. unwritten_chunks - 1 # 0
        BY <1>9 DEF IsLast, TypeOK
      <3> QED
        BY <1>1, <1>5, <2>3, <3>1, FS_EmptySet
    <2>5. TypeOK'
      BY <1>1, <1>4, <2>2 DEF TypeOK
    <2>6. Countdown'
      BY <1>1, <1>2, <2>2, <2>4 DEF Countdown
    <2>7. Settled'
      BY <1>1, <2>2 DEF Settled
    <2>8. Published'
      BY <1>1, <1>2 DEF Published
    <2> QED
      BY <1>6, <1>7, <2>2, <2>5, <2>6, <2>7, <2>8
  <1> QED
    BY <1>8, <1>9

\* The first finalization, made when no writer is between its claim and its
\* count: what it publishes is where the bytes are.
LEMMA FinalizationFacts ==
    ASSUME TypeOK, Settled, ~finalized,
           \A i \in Chunks : pc[i] \in {"idle", "ok", "failed", "finalize"},
           NEW tableOk \in BOOLEAN, NEW flushOk \in BOOLEAN,
           FinalizeUnlocked(tableOk, flushOk)
    PROVE  /\ finalized' = TRUE /\ sink' \in BOOLEAN /\ stored' = stored
           /\ finalize_ok' \in BOOLEAN /\ durable' \in BOOLEAN
           /\ table' \in [Chunks -> Entries] \cup {NoTable}
           /\ finalize_ok' => table' # NoTable /\ durable'
           /\ table' # NoTable =>
                 \A i \in Chunks : pc[i] # "failed" =>
                    /\ table'[i].offset = stored'[i]
                    /\ table'[i].extent = IF stored'[i] = Unwritten THEN Unwritten
                                          ELSE SizeOf[i]
  <1> DEFINE entries == [i \in Chunks |-> [offset |-> offsets[i], extent |-> extents[i]]]
  <1>1. /\ finalized' = TRUE /\ sink' \in BOOLEAN /\ stored' = stored
        /\ finalize_ok' = (tableOk /\ flushOk)
        /\ table' = IF tableOk THEN entries ELSE NoTable
        /\ durable' = flushOk
    BY DEF FinalizeUnlocked, AlreadyFinalized, Landed
  <1>2. entries \in [Chunks -> Entries]
    BY DEF TypeOK, Entries
  <1>3. entries # NoTable
    BY <1>2, ShardAssumption
  <1>4. \A i \in Chunks : pc[i] # "failed" =>
           /\ entries[i].offset = stored[i]
           /\ entries[i].extent = IF stored[i] = Unwritten THEN Unwritten ELSE SizeOf[i]
    BY DEF Settled
  <1> HIDE DEF entries
  <1>5. finalize_ok' \in BOOLEAN /\ durable' \in BOOLEAN
    BY <1>1
  <1>6. finalize_ok' => table' # NoTable /\ durable'
    BY <1>1, <1>3
  <1>7. CASE tableOk
    BY <1>1, <1>2, <1>4, <1>5, <1>6, <1>7
  <1>8. CASE ~tableOk
    BY <1>1, <1>5, <1>6, <1>8
  <1> QED
    BY <1>7, <1>8

\* The last writer: every other chunk has been reported, so if the finalization
\* fails it is this one that is not.
LEMMA FinalizeKeeps ==
    ASSUME IInv, NEW i \in Chunks, Finalize(i) PROVE IInv'
  <1> USE DEF IInv
  <1>1. /\ pc[i] = "finalize" /\ pc[i] \in Running
        /\ UNCHANGED <<tableVars, unwritten_chunks, skips, closed>>
    BY DEF Finalize, Running
  <1>2. ~finalized /\ ~closed /\ \A j \in Chunks \ {i} : pc[j] = "ok"
    BY <1>1 DEF Countdown
  <1>3. \A j \in Chunks : pc[j] \in {"idle", "ok", "failed", "finalize"}
    BY <1>1, <1>2
  <1>4. PICK tableOk \in BOOLEAN, flushOk \in BOOLEAN : FinalizeUnlocked(tableOk, flushOk)
    BY DEF Finalize
  <1>5. /\ finalized' = TRUE /\ sink' \in BOOLEAN /\ stored' = stored
        /\ finalize_ok' \in BOOLEAN /\ durable' \in BOOLEAN
        /\ table' \in [Chunks -> Entries] \cup {NoTable}
        /\ finalize_ok' => table' # NoTable /\ durable'
        /\ table' # NoTable =>
              \A j \in Chunks : pc[j] # "failed" =>
                 /\ table'[j].offset = stored'[j]
                 /\ table'[j].extent = IF stored'[j] = Unwritten THEN Unwritten
                                       ELSE SizeOf[j]
    BY <1>2, <1>3, <1>4, FinalizationFacts
  <1>6. /\ pc'[i] = "ok" <=> finalize_ok'
        /\ pc'[i] \in {"ok", "enter", "failed"}
        /\ \A j \in Chunks \ {i} : pc'[j] = pc[j]
        /\ pc' \in [Chunks -> Running \cup {"idle", "ok", "failed"}]
        /\ tries' \in [Chunks -> 0 .. Tries]
        /\ TriesLeft'
    <2>1. Returned(i, finalize_ok')
      BY DEF Finalize
    <2> QED
      BY <1>1, <1>5, <2>1, ReturnedFacts
  <1> USE DEF tableVars
  <1>7. TypeOK'
    BY <1>1, <1>5, <1>6 DEF TypeOK
  <1>8. Countdown'
    <2>1. ~finalized' => sink'
      BY <1>5
    <2> QED
      BY <1>1, <1>2, <1>5, <1>6, <2>1 DEF Countdown
  <1>9. Settled'
    BY <1>1, <1>2, <1>5, <1>6 DEF Settled
  <1>10. RangesDisjoint'
    BY <1>1 DEF RangesDisjoint, Claimed
  <1>11. TableTruthful'
    BY <1>1, <1>2, <1>5, <1>6 DEF TableTruthful
  <1>12. Published'
    BY <1>5, <1>6 DEF Published, NotOk
  <1> QED
    BY <1>6, <1>7, <1>8, <1>9, <1>10, <1>11, <1>12

\* Finalization from outside: no writer runs, and a shard that was not finalized
\* has a chunk that was never reported.
LEMMA CloseKeeps ==
    ASSUME IInv, Close PROVE IInv'
  <1> USE DEF IInv
  <1>1. /\ closed' = TRUE
        /\ UNCHANGED <<tableVars, unwritten_chunks, pc, skips, tries>>
    BY DEF Close
  <1>2. \A i \in Chunks : pc[i] \in {"idle", "ok", "failed"}
    BY DEF Close, NoWriter, Active, TypeOK
  <1>3. NotOk' = NotOk
    BY <1>1 DEF NotOk
  <1>4. PICK tableOk \in BOOLEAN, flushOk \in BOOLEAN : FinalizeUnlocked(tableOk, flushOk)
    BY DEF Close
  <1> USE DEF tableVars
  <1>5. RangesDisjoint'
    BY <1>1 DEF RangesDisjoint, Claimed
  <1>6. TriesLeft'
    BY <1>1 DEF TriesLeft
  <1>7. CASE finalized
    <2>1. UNCHANGED <<finalVars, fileVars>>
      BY <1>4, <1>7 DEF FinalizeUnlocked, AlreadyFinalized
    <2> USE DEF finalVars, fileVars
    <2>2. TypeOK'
      BY <1>1, <2>1 DEF TypeOK
    <2>3. Countdown'
      BY <1>1, <1>2, <1>7, <2>1 DEF Countdown
    <2>4. Settled'
      BY <1>1, <2>1 DEF Settled
    <2>5. TableTruthful'
      BY <1>1, <2>1 DEF TableTruthful
    <2>6. Published'
      BY <1>3, <2>1 DEF Published
    <2> QED
      BY <1>5, <1>6, <2>2, <2>3, <2>4, <2>5, <2>6
  <1>8. CASE ~finalized
    <2>1. /\ finalized' = TRUE /\ sink' \in BOOLEAN /\ stored' = stored
          /\ finalize_ok' \in BOOLEAN /\ durable' \in BOOLEAN
          /\ table' \in [Chunks -> Entries] \cup {NoTable}
          /\ finalize_ok' => table' # NoTable /\ durable'
          /\ table' # NoTable =>
                \A j \in Chunks : pc[j] # "failed" =>
                   /\ table'[j].offset = stored'[j]
                   /\ table'[j].extent = IF stored'[j] = Unwritten THEN Unwritten
                                         ELSE SizeOf[j]
      BY <1>2, <1>4, <1>8, FinalizationFacts
    <2>2. TypeOK'
      BY <1>1, <2>1 DEF TypeOK
    <2>3. Countdown'
      <3>1. ~finalized' => sink'
        BY <2>1
      <3> QED
        BY <1>1, <1>2, <2>1, <3>1 DEF Countdown
    <2>4. Settled'
      BY <1>1, <2>1 DEF Settled
    <2>5. TableTruthful'
      BY <1>1, <2>1 DEF TableTruthful
    <2>6. Published'
      BY <1>3, <1>8, <2>1 DEF Published, Countdown
    <2> QED
      BY <1>5, <1>6, <2>2, <2>3, <2>4, <2>5, <2>6
  <1> QED
    BY <1>7, <1>8
-----------------------------------------------------------------------------
(* The theorems *)

\* Every step preserves the invariant.
LEMMA StepKeeps == IInv /\ [Next]_vars => IInv'
  <1> SUFFICES ASSUME IInv, [Next]_vars PROVE IInv'
    OBVIOUS
  <1>1. ASSUME NEW i \in Chunks, Dispatch(i) \/ Writer(i) PROVE IInv'
    BY <1>1, DispatchKeeps, EnterKeeps, ClaimKeeps, WriteOkKeeps, WriteFailsKeeps,
       CountKeeps, FinalizeKeeps DEF Writer
  <1>2. CASE Close
    BY <1>2, CloseKeeps
  <1>3. CASE Closed \/ UNCHANGED vars
    <2>1. UNCHANGED vars
      BY <1>3 DEF Closed
    <2> QED
      BY <2>1 DEF vars, tableVars, finalVars, fileVars, IInv, TypeOK, Countdown,
                  Settled, TriesLeft, RangesDisjoint, Claimed, TableTruthful,
                  Published, NotOk
  <1> QED
    BY <1>1, <1>2, <1>3 DEF Next

\* The inductive invariant holds throughout.
THEOREM Invariant == Spec => []IInv
  <1> QED
    BY InitIInv, StepKeeps, PTL DEF Spec

\* Type correctness; unwritten_chunks_, an unsigned counter in the code, never
\* goes below zero.
THEOREM TypeCorrect == Spec => []TypeOK
  <1>1. IInv => TypeOK
    BY DEF IInv
  <1> QED
    BY <1>1, Invariant, PTL

\* No two chunks of a shard, nor a chunk and the table, are given the same bytes
\* of the file.
THEOREM RangesAlwaysDisjoint == Spec => []RangesDisjoint
  <1>1. IInv => RangesDisjoint
    BY DEF IInv
  <1> QED
    BY <1>1, Invariant, PTL

\* No writer finds the sink released under it (shard.cpp:63-71 is enough).
THEOREM SinkAlwaysAlive == Spec => []SinkAlive
  <1> QED
    BY SinkStaysAlive, Invariant, PTL

\* A table that was written never lies about a chunk whose job did not fail.
THEOREM TableAlwaysTruthful == Spec => []TableTruthful
  <1>1. IInv => TableTruthful
    BY DEF IInv
  <1> QED
    BY <1>1, Invariant, PTL

\* When every chunk's job has reported success the shard is published.
THEOREM SuccessAlwaysPublished == Spec => []SuccessIsPublished
  <1>1. IInv => SuccessIsPublished
    <2> SUFFICES ASSUME IInv, \A i \in Chunks : pc[i] = "ok", Chunks # {}
                 PROVE  finalize_ok /\ table # NoTable /\ durable
      BY DEF SuccessIsPublished
    <2>1. NotOk = {}
      BY DEF NotOk
    <2>2. finalized
      BY <2>1 DEF IInv, Countdown
    <2> QED
      BY <2>1, <2>2 DEF IInv, Published
  <1> QED
    BY <1>1, Invariant, PTL

\* A shard is finalized at most once: what was published stays.
THEOREM FinalizedOnlyOnce == Spec => FinalizedOnce
  <1>1. IInv /\ [Next]_vars => [finalized => UNCHANGED <<finalVars, fileVars>>]_vars
    <2> SUFFICES ASSUME IInv, [Next]_vars, finalized
                 PROVE  UNCHANGED <<finalVars, fileVars>>
      OBVIOUS
    <2>1. ASSUME NEW i \in Chunks, Dispatch(i) \/ Enter(i) \/ Claim(i) \/ WriteFails(i) \/ Count(i)
          PROVE  UNCHANGED <<finalVars, fileVars>>
      BY <2>1 DEF Dispatch, Enter, Claim, WriteFails, Count
    <2>2. ASSUME NEW i \in Chunks, WriteOk(i) PROVE UNCHANGED <<finalVars, fileVars>>
      BY <2>2 DEF WriteOk, IInv, Countdown
    <2>3. ASSUME NEW i \in Chunks, Finalize(i) PROVE UNCHANGED <<finalVars, fileVars>>
      BY <2>3 DEF Finalize, FinalizeUnlocked, AlreadyFinalized
    <2>4. CASE Close
      BY <2>4 DEF Close, FinalizeUnlocked, AlreadyFinalized
    <2>5. CASE Closed \/ UNCHANGED vars
      BY <2>5 DEF Closed, vars
    <2> QED
      BY <2>1, <2>2, <2>3, <2>4, <2>5 DEF Next, Writer
  <1> QED
    BY <1>1, Invariant, PTL DEF Spec, FinalizedOnce
-----------------------------------------------------------------------------
(* The shard is a ledger of its chunks' jobs *)

\* What a shard that is finalized answers is what it published, and a writer
\* that enters then enters one that failed.
Answer ==
    finalized => /\ finalize_ok = (table # NoTable /\ durable)
                 /\ \A i \in Chunks : pc[i] = "enter" => ~finalize_ok

\* A job of the ledger, by where its writer is.
LEMMA JobIs ==
    ASSUME TypeOK, NEW i \in Chunks
    PROVE  /\ Jobs[i] = JobOf(i) /\ DOMAIN Jobs = Chunks
           /\ pc[i] = "idle" => JobOf(i) = "new"
           /\ pc[i] = "ok" => JobOf(i) = "landed"
           /\ pc[i] = "failed" => JobOf(i) = "lost"
           /\ pc[i] = "enter" /\ finalized => JobOf(i) = "lost"
           /\ pc[i] = "enter" /\ ~finalized => JobOf(i) = "pending"
           /\ pc[i] \in {"claim", "write", "count", "finalize"} => JobOf(i) = "pending"
  <1> QED
    BY DEF Jobs, JobOf, TypeOK, Running

\* A step that leaves the others' writers and the finalization alone changes
\* one job of the ledger.
LEMMA OneJob ==
    ASSUME TypeOK, TypeOK', NEW i \in Chunks, finalized' = finalized,
           \A j \in Chunks \ {i} : pc'[j] = pc[j]
    PROVE  Jobs' = [Jobs EXCEPT ![i] = JobOf(i)']
  <1>1. \A j \in Chunks \ {i} : JobOf(j)' = JobOf(j)
    BY DEF JobOf
  <1> QED
    BY <1>1 DEF Jobs

\* What the finalization, made once, answers.
LEMMA FinalizationAnswers ==
    ASSUME TypeOK, ~finalized, NEW tableOk \in BOOLEAN, NEW flushOk \in BOOLEAN,
           FinalizeUnlocked(tableOk, flushOk)
    PROVE  /\ finalized' = TRUE /\ finalize_ok' = (tableOk /\ flushOk)
           /\ finalize_ok' = (table' # NoTable /\ durable')
  <1> DEFINE entries == [i \in Chunks |-> [offset |-> offsets[i], extent |-> extents[i]]]
  <1>1. /\ finalized' = TRUE /\ finalize_ok' = (tableOk /\ flushOk)
        /\ table' = IF tableOk THEN entries ELSE NoTable
        /\ durable' = flushOk
    BY DEF FinalizeUnlocked, AlreadyFinalized, Landed
  <1>2. entries # NoTable
    <2>1. entries \in [Chunks -> Entries]
      BY DEF TypeOK, Entries
    <2> QED
      BY <2>1, ShardAssumption
  <1> HIDE DEF entries
  <1> QED
    BY <1>1, <1>2

\* A chunk's job begins while the shard is open.
LEMMA DispatchIsDispatched ==
    ASSUME IInv, IInv', Answer, NEW i \in Chunks, Dispatch(i)
    PROVE  Ledger!Dispatched(i) /\ Answer'
  <1> USE DEF IInv
  <1>1. /\ pc[i] = "idle" /\ ~closed /\ pc' = [pc EXCEPT ![i] = "enter"]
        /\ UNCHANGED <<tableVars, unwritten_chunks, finalVars, fileVars>>
    BY DEF Dispatch, Goto
  <1>2. ~finalized /\ ~finalized' /\ finalized' = finalized
    BY <1>1 DEF Countdown, finalVars
  <1>3. pc'[i] = "enter" /\ \A j \in Chunks \ {i} : pc'[j] = pc[j]
    BY <1>1 DEF TypeOK
  <1>4. Jobs[i] = "new" /\ JobOf(i)' = "pending"
    <2>1. Jobs[i] = "new"
      BY <1>1, JobIs
    <2>2. JobOf(i)' = "pending"
      BY <1>2, <1>3 DEF JobOf
    <2> QED
      BY <2>1, <2>2
  <1>5. Jobs' = [Jobs EXCEPT ![i] = "pending"]
    BY <1>2, <1>3, <1>4, OneJob
  <1>7. Outcome = "open" /\ Outcome' = "open"
    BY <1>2 DEF Outcome
  <1>8. Answer'
    BY <1>2 DEF Answer
  <1> QED
    BY <1>4, <1>5, <1>7, <1>8 DEF Ledger!Dispatched

\* A call that claims and writes, and one that is told of a failed finalization,
\* leave the ledger as it is.
LEMMA WritingIsStutter ==
    ASSUME IInv, IInv', Answer, NEW i \in Chunks, Enter(i) \/ Claim(i) \/ WriteOk(i)
    PROVE  Jobs' = Jobs /\ Outcome' = Outcome /\ Answer'
  <1> USE DEF IInv
  <1>1. /\ unwritten_chunks' = unwritten_chunks
        /\ UNCHANGED <<finalized, finalize_ok, table, durable>>
    BY DEF Enter, Claim, WriteOk, finalVars, fileVars
  <1>2. /\ \A j \in Chunks \ {i} : pc'[j] = pc[j]
        /\ JobOf(i)' = JobOf(i)
        /\ pc[i] # "finalize" /\ pc'[i] # "finalize"
        /\ Answer'
    <2>1. CASE Enter(i) /\ finalized
      <3>1. pc[i] = "enter" /\ Returned(i, FALSE)
        BY <2>1 DEF Enter, AlreadyFinalized, Answer, TypeOK
      <3>2. /\ pc'[i] \in {"enter", "failed"}
            /\ \A j \in Chunks \ {i} : pc'[j] = pc[j]
        BY <3>1 DEF Returned, Goto, AfterCall, TypeOK
      <3>3. JobOf(i) = "lost" /\ JobOf(i)' = "lost"
        BY <1>1, <2>1, <3>1, <3>2 DEF JobOf
      <3>4. Answer'
        BY <1>1, <3>1, <3>2 DEF Answer
      <3> QED
        BY <3>1, <3>2, <3>3, <3>4
    <2>2. CASE (Enter(i) /\ ~finalized) \/ Claim(i) \/ WriteOk(i)
      <3>1. /\ pc[i] \in {"enter", "claim", "write"}
            /\ pc'[i] \in {"claim", "write", "count"}
            /\ \A j \in Chunks \ {i} : pc'[j] = pc[j]
        BY <2>2 DEF Enter, AlreadyFinalized, Claim, WriteOk, Goto, TypeOK
      <3>2. ~finalized
        BY <2>2 DEF Claim, WriteOk, Countdown
      <3>3. JobOf(i) = "pending" /\ JobOf(i)' = "pending"
        BY <1>1, <3>1, <3>2 DEF JobOf
      <3>4. Answer'
        BY <1>1, <3>2 DEF Answer
      <3> QED
        BY <3>1, <3>3, <3>4
    <2> QED
      BY <2>1, <2>2 DEF TypeOK
  <1>3. Jobs' = Jobs
    <2>1. Jobs' = [Jobs EXCEPT ![i] = JobOf(i)']
      BY <1>1, <1>2, OneJob
    <2> QED
      BY <1>2, <2>1 DEF Jobs
  <1>5. Outcome' = Outcome
    BY <1>1 DEF Outcome
  <1> QED
    BY <1>2, <1>3, <1>5

\* A failed write loses the chunk, or is tried again.
LEMMA WriteFailsIsLost ==
    ASSUME IInv, IInv', Answer, NEW i \in Chunks, WriteFails(i)
    PROVE  /\ Ledger!IsLost(i) \/ UNCHANGED <<Outcome, Jobs>>
           /\ Answer'
  <1> USE DEF IInv
  <1>1. /\ pc[i] = "write" /\ unwritten_chunks' = unwritten_chunks
        /\ UNCHANGED <<finalized, finalize_ok, table, durable>>
    BY DEF WriteFails, finalVars, fileVars
  <1>2. ~finalized
    BY <1>1 DEF Countdown
  <1>3. /\ pc'[i] \in {"enter", "failed"}
        /\ \A j \in Chunks \ {i} : pc'[j] = pc[j]
    BY DEF WriteFails, Returned, Goto, AfterCall, TypeOK
  <1>4. Jobs[i] = "pending" /\ Jobs' = [Jobs EXCEPT ![i] = JobOf(i)']
    BY <1>1, <1>3, OneJob, JobIs
  <1>6. Outcome = "open" /\ Outcome' = "open"
    BY <1>1, <1>2 DEF Outcome
  <1>7. Answer'
    BY <1>1, <1>2 DEF Answer
  <1>8. CASE pc'[i] = "enter"
    <2>1. JobOf(i)' = "pending"
      BY <1>1, <1>2, <1>8 DEF JobOf
    <2>2. Jobs' = Jobs
      BY <1>4, <2>1 DEF Jobs
    <2> QED
      BY <1>6, <1>7, <2>2
  <1>9. CASE pc'[i] = "failed"
    <2>1. JobOf(i)' = "lost"
      BY <1>9 DEF JobOf
    <2> QED
      BY <1>4, <1>6, <1>7, <2>1 DEF Ledger!IsLost
  <1> QED
    BY <1>3, <1>8, <1>9

\* A chunk lands when it is counted, unless it is the last, which lands when it
\* has published the shard.
LEMMA CountIsLands ==
    ASSUME IInv, IInv', Answer, NEW i \in Chunks, Count(i)
    PROVE  /\ Ledger!Lands(i) \/ UNCHANGED <<Outcome, Jobs>>
           /\ Answer'
  <1> USE DEF IInv
  <1>1. /\ pc[i] = "count" /\ unwritten_chunks' = unwritten_chunks - 1
        /\ UNCHANGED <<finalized, finalize_ok, table, durable>>
    BY DEF Count, finalVars, fileVars
  <1>2. /\ ~finalized /\ \A j \in Chunks : pc[j] # "finalize"
        /\ unwritten_chunks > 0 /\ unwritten_chunks \in Int
    <2>1. unwritten_chunks \in Int
      BY NotOkFinite, <1>1, WriterCounted
    <2> QED
      BY <1>1, <2>1, WriterCounted
  <1>3. Jobs[i] = "pending"
    BY <1>1, JobIs
  <1>4. Outcome = "open" /\ Outcome' = "open"
    BY <1>1, <1>2 DEF Outcome
  <1>5. Answer'
    BY <1>1, <1>2 DEF Answer
  <1>6. CASE IsLast
    <2>1. /\ pc'[i] = "finalize"
          /\ \A j \in Chunks \ {i} : pc'[j] = pc[j]
      BY <1>6 DEF Count, Goto, TypeOK
    <2>2. Jobs' = Jobs
      <3>1. Jobs' = [Jobs EXCEPT ![i] = JobOf(i)'] /\ JobOf(i)' = "pending"
        <4>1. JobOf(i)' = "pending"
          BY <2>1 DEF JobOf
        <4> QED
          BY <1>1, <2>1, <4>1, OneJob
      <3> QED
        BY <1>3, <3>1 DEF Jobs
    <2> QED
      BY <1>4, <1>5, <2>2
  <1>7. CASE ~IsLast
    <2>1. /\ pc'[i] = "ok"
          /\ \A j \in Chunks \ {i} : pc'[j] = pc[j]
      BY <1>7 DEF Count, Returned, Goto, AfterCall, TypeOK
    <2>2. Jobs' = [Jobs EXCEPT ![i] = "landed"]
      <3>1. JobOf(i)' = "landed"
        BY <2>1 DEF JobOf
      <3> QED
        BY <1>1, <2>1, <3>1, OneJob
    <2>3. PICK other \in NotOk : other # i
      <3>1. IsFiniteSet(NotOk) /\ unwritten_chunks = Cardinality(NotOk)
        BY <1>1, NotOkFinite, WriterCounted
      <3>2. ~(NotOk \subseteq {i})
        <4>1. SUFFICES ASSUME NotOk \subseteq {i} PROVE FALSE
          OBVIOUS
        <4>2. NotOk = {i}
          BY <1>1, <4>1 DEF NotOk
        <4>3. unwritten_chunks = 1
          BY <3>1, <4>2, FS_Singleton
        <4> QED
          BY <1>7, <4>3 DEF IsLast
      <3> QED
        BY <3>2
    <2>4. Jobs[other] # "landed"
      BY <2>3 DEF NotOk, Jobs, JobOf, TypeOK
    <2>5. ~Ledger!OthersLanded(i)
      BY <2>3, <2>4, JobIs DEF Ledger!OthersLanded, NotOk
    <2> QED
      BY <1>3, <1>4, <1>5, <2>2, <2>5 DEF Ledger!Lands
  <1> QED
    BY <1>6, <1>7

\* The last chunk lands, or is lost, with the shard.
LEMMA FinalizeIsLandsLast ==
    ASSUME IInv, IInv', Answer, NEW i \in Chunks, Finalize(i)
    PROVE  /\ \E ok \in BOOLEAN : Ledger!LandsLast(i, ok)
           /\ Answer'
  <1> USE DEF IInv
  <1>1. /\ pc[i] = "finalize" /\ unwritten_chunks' = unwritten_chunks
        /\ Returned(i, finalize_ok')
    BY DEF Finalize
  <1>2. /\ ~finalized /\ unwritten_chunks = 0
        /\ \A j \in Chunks \ {i} : pc[j] = "ok"
    BY <1>1 DEF Countdown
  <1>3. PICK tableOk \in BOOLEAN, flushOk \in BOOLEAN : FinalizeUnlocked(tableOk, flushOk)
    BY DEF Finalize
  <1> DEFINE ok == tableOk /\ flushOk
  <1>4. /\ finalized' = TRUE /\ finalize_ok' = ok
        /\ finalize_ok' = (table' # NoTable /\ durable')
    BY <1>2, <1>3, FinalizationAnswers
  <1>5. /\ ok => pc'[i] = "ok"
        /\ ~ok => pc'[i] \in {"enter", "failed"}
        /\ \A j \in Chunks \ {i} : pc'[j] = pc[j]
    BY <1>1, <1>4 DEF Returned, Goto, AfterCall, TypeOK
  <1>6. /\ Jobs[i] = "pending"
        /\ \A j \in Chunks \ {i} : Jobs[j] = "landed"
    BY <1>1, <1>2, JobIs
  <1>7. Jobs' = [Jobs EXCEPT ![i] = IF ok THEN "landed" ELSE "lost"]
    <2>1. \A j \in Chunks \ {i} : JobOf(j)' = JobOf(j)
      BY <1>2, <1>5 DEF JobOf
    <2>2. ok => JobOf(i)' = "landed"
      BY <1>5 DEF JobOf
    <2>3. ~ok => JobOf(i)' = "lost"
      BY <1>4, <1>5 DEF JobOf
    <2> QED
      BY <2>1, <2>2, <2>3 DEF Jobs
  <1>8. Ledger!OthersLanded(i)
    BY <1>6, JobIs DEF Ledger!OthersLanded
  <1>9. Outcome = "open" /\ Outcome' = IF ok THEN "ok" ELSE "bad"
    BY <1>2, <1>4 DEF Outcome
  <1>10. Answer'
    BY <1>2, <1>4, <1>5 DEF Answer
  <1>11. Ledger!LandsLast(i, ok)
    BY <1>6, <1>7, <1>8, <1>9 DEF Ledger!LandsLast
  <1>12. ok \in BOOLEAN
    OBVIOUS
  <1> QED
    BY <1>10, <1>11, <1>12

\* A shard that is finalized from outside has no job under way, and one that is
\* finalized already stays as it is.
LEMMA CloseIsFinishes ==
    ASSUME IInv, IInv', Answer, Close
    PROVE  /\ (\E ok \in BOOLEAN : Ledger!Finishes(ok)) \/ UNCHANGED <<Outcome, Jobs>>
           /\ Answer'
  <1> USE DEF IInv
  <1>1. pc' = pc /\ unwritten_chunks' = unwritten_chunks
    BY DEF Close
  <1>2. \A i \in Chunks : pc[i] \in {"idle", "ok", "failed"}
    BY DEF Close, NoWriter, Active, TypeOK
  <1>3. PICK tableOk \in BOOLEAN, flushOk \in BOOLEAN : FinalizeUnlocked(tableOk, flushOk)
    BY DEF Close
  <1>4. Jobs' = Jobs
    <2>1. \A i \in Chunks : JobOf(i)' = JobOf(i)
      BY <1>1, <1>2 DEF JobOf
    <2> QED
      BY <2>1 DEF Jobs
  <1>6. CASE finalized
    <2>1. UNCHANGED <<finalized, finalize_ok, table, durable>>
      BY <1>3, <1>6 DEF FinalizeUnlocked, AlreadyFinalized, finalVars, fileVars
    <2> QED
      BY <1>1, <1>4, <2>1 DEF Outcome, Answer
  <1>7. CASE ~finalized
    <2> DEFINE ok == tableOk /\ flushOk
    <2>1. /\ finalized' = TRUE /\ finalize_ok' = ok
          /\ finalize_ok' = (table' # NoTable /\ durable')
      BY <1>3, <1>7, FinalizationAnswers
    <2>2. Outcome = "open" /\ Outcome' = IF ok THEN "ok" ELSE "bad"
      BY <1>7, <2>1 DEF Outcome
    <2>3. \A i \in DOMAIN Jobs : Jobs[i] # "pending"
      BY <1>2, JobIs DEF Jobs
    <2>4. Ledger!Finishes(ok)
      BY <1>4, <2>2, <2>3 DEF Ledger!Finishes
    <2>5. Answer' /\ ok \in BOOLEAN
      BY <1>1, <1>2, <2>1 DEF Answer
    <2> QED
      BY <2>4, <2>5
  <1> QED
    BY <1>6, <1>7 DEF TypeOK

\* Shard implements ShardLedger: whatever the interleaving of its writers, the
\* array sees each chunk land or be lost once, and the shard publish with the
\* last of them, or fail with it, or be finished from outside.
THEOREM ShardIsLedger == Spec => ImplementsLedger
  <1>1. Init => Ledger!LedgerInit /\ Answer
    <2> SUFFICES ASSUME Init PROVE Ledger!LedgerInit /\ Answer
      OBVIOUS
    <2>4. Outcome = "open" /\ Answer
      BY DEF Init, Outcome, Answer
    <2>5. Jobs = [i \in Chunks |-> "new"]
      BY DEF Init, Jobs, JobOf
    <2> QED
      BY <2>4, <2>5 DEF Ledger!LedgerInit
  <1>2. IInv /\ IInv' /\ Answer /\ [Next]_vars =>
           Answer' /\ [Ledger!LedgerNext]_(Ledger!ledgerVars)
    <2> SUFFICES ASSUME IInv, IInv', Answer, [Next]_vars
                 PROVE  Answer' /\ [Ledger!LedgerNext]_(Ledger!ledgerVars)
      OBVIOUS
    <2> USE DEF Ledger!LedgerNext, Ledger!ledgerVars
    <2>0. DOMAIN Jobs = Chunks
      BY DEF Jobs
    <2>1. ASSUME NEW i \in Chunks, Dispatch(i)
          PROVE  Answer' /\ Ledger!LedgerNext
      BY <2>0, <2>1, DispatchIsDispatched
    <2>2. ASSUME NEW i \in Chunks, Enter(i) \/ Claim(i) \/ WriteOk(i)
          PROVE  Answer' /\ UNCHANGED <<Outcome, Jobs>>
      BY <2>2, WritingIsStutter
    <2>3. ASSUME NEW i \in Chunks, WriteFails(i)
          PROVE  Answer' /\ [Ledger!LedgerNext]_(Ledger!ledgerVars)
      BY <2>0, <2>3, WriteFailsIsLost
    <2>4. ASSUME NEW i \in Chunks, Count(i)
          PROVE  Answer' /\ [Ledger!LedgerNext]_(Ledger!ledgerVars)
      BY <2>0, <2>4, CountIsLands
    <2>5. ASSUME NEW i \in Chunks, Finalize(i)
          PROVE  Answer' /\ Ledger!LedgerNext
      BY <2>0, <2>5, FinalizeIsLandsLast
    <2>6. CASE Close
      BY <2>6, CloseIsFinishes
    <2>7. CASE Closed \/ UNCHANGED vars
      <3>1. UNCHANGED <<pc, unwritten_chunks, finalized, finalize_ok, table, durable>>
        BY <2>7 DEF Closed, vars, finalVars, fileVars
      <3>2. Outcome' = Outcome /\ Answer'
        BY <3>1 DEF Outcome, Answer
      <3>3. Jobs' = Jobs
        BY <3>1 DEF Jobs, JobOf
      <3> QED
        BY <3>2, <3>3
    <2> QED
      BY <2>1, <2>2, <2>3, <2>4, <2>5, <2>6, <2>7 DEF Next, Writer
  <1> QED
    BY <1>1, <1>2, Invariant, PTL DEF Spec, ImplementsLedger, Ledger!LedgerSpec
=============================================================================
