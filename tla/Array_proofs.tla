---------------------------- MODULE Array_proofs ----------------------------
(***************************************************************************)
(* Proofs about Array for any geometry that the dimensions can give: every *)
(* frame is in the chunk of the layer and row it belongs to, every slot is *)
(* dispatched once, and a close that reports success is worth what         *)
(* SuccessMeans says.                                                      *)
(*                                                                         *)
(* Row, layer and bytes_to_flush_ together tell how many frames were       *)
(* written (Counters), and they and flushed_band_count_ which slots of the *)
(* layer have been dispatched (Due).  From that follow which frames are in *)
(* a chunk that is still in its slot (Filling), that the frame written     *)
(* next belongs to no job made before, and that a row is complete when the *)
(* array rolls over.  The countdown of a shard that is open is the number  *)
(* of its chunks that have not landed (Countdown), so that the job which   *)
(* takes it to zero is the last to run on it (StillOpen).                  *)
(***************************************************************************)
EXTENDS Array, FiniteSetTheorems, SequenceTheorems, TLAPS

Flushing == pc \in {"make", "dispatch", "inline", "flushed"}
Slots == DOMAIN dims.shard
Layers == 0 .. dims.layers_per_shard - 1

SentTo(row, layer, slot) ==
    \E i \in DOMAIN sent : sent[i].row = row /\ sent[i].layer = layer /\ sent[i].slot = slot
Gone(slot) == SentTo(append_chunk_index, current_layer, slot)
Running == pending \cup (IF pc = "inline" THEN {Len(sent)} ELSE {})
ShardOf(i) == shards[sent[i].row + 1][dims.shard[sent[i].slot]]

\* How many frames there are, and which bands of the layer are flushed.
LayersBefore == append_chunk_index * dims.layers_per_shard + current_layer
Counters ==
    /\ frames_written = LayersBefore * dims.frames_per_layer + frames_to_flush
    /\ pc = "idle" \/ (Flushing /\ closing) => frames_to_flush < dims.frames_per_layer
    /\ Flushing /\ ~closing => frames_to_flush > 0
    /\ pc = "idle" \/ Flushing =>
          flushed_bands =
             IF ~dims.banding THEN 0
             ELSE (IF Flushing /\ ~closing THEN frames_to_flush - 1 ELSE frames_to_flush)
                     \div dims.frames_per_band

\* The slots of the layer that are dispatched when the flush in progress ends.
Due == IF closing THEN IF frames_to_flush = 0 THEN {} ELSE Slots
       ELSE IF frames_to_flush = dims.frames_per_layer THEN Slots
       ELSE IF dims.banding
       THEN {slot \in ChunkSlots :
                dims.band[slot] < frames_to_flush \div dims.frames_per_band}
       ELSE {}
Dispatched ==
    /\ pc = "idle" \/ Flushing =>
          \A slot \in Slots : /\ slot \in Due <=> slot \in todo \/ Gone(slot)
                              /\ ~(slot \in todo /\ Gone(slot))
    /\ pc \in {"idle", "flushed"} => todo = {}

\* A slot that was not dispatched has the frames of the layer so far.
Filling ==
    pc = "idle" \/ Flushing =>
       \A slot \in ChunkSlots :
          chunks[slot] = IF Gone(slot) THEN {}
                         ELSE FramesOf(append_chunk_index, current_layer, slot)

\* Everything before the current layer was dispatched, and nothing after it.
UpToHere ==
    /\ \A i \in DOMAIN sent :
          \/ sent[i].row < append_chunk_index
          \/ sent[i].row = append_chunk_index /\ sent[i].layer <= current_layer
    /\ \A row \in 0 .. append_chunk_index, layer \in Layers, slot \in Slots :
          row < append_chunk_index \/ layer < current_layer => SentTo(row, layer, slot)
    /\ \A i, j \in DOMAIN sent : i # j => Place(sent[i]) # Place(sent[j])

\* The row being written has its shards while they are live.
Rows ==
    /\ IF live THEN Len(shards) = append_chunk_index + 1
       ELSE \/ Len(shards) = append_chunk_index
            \/ pc = "closed" /\ Len(shards) = append_chunk_index + 1
    /\ live => pc # "closed"
    /\ pc = "make" => ~live
    /\ pc \in {"dispatch", "inline"} => live
    /\ \A i \in DOMAIN sent : sent[i].row < Len(shards)

\* Where the jobs are, and who was told of those that failed.
Jobs ==
    /\ \A i \in DOMAIN sent : ended[i].how = "pending" <=> i \in Running
    /\ pc = "inline" => Len(sent) \in DOMAIN sent \ pending /\ ended[Len(sent)].inline
    /\ \A i \in pending : ~ended[i].inline
    /\ \A i \in DOMAIN sent : ended[i].how = "lost" /\ ~ended[i].inline => error

Ending ==
    /\ pc = "failed" => error \/ closing
    /\ closing => ~accepting /\ pending = {} /\ pc # "idle"
    /\ closing /\ Flushing => ~error
    /\ pc = "closed" <=> result # "none"
    /\ pc = "closed" => closing
    /\ result = "Success" => ~error

\* The chunks of a shard that have not landed.
Owing(row, s) ==
    {p \in Layers \X SlotsOf(s) :
       ~\E i \in DOMAIN sent : /\ sent[i].row = row /\ sent[i].layer = p[1]
                               /\ sent[i].slot = p[2] /\ ended[i].how = "landed"}
Countdown ==
    \A r \in DOMAIN shards : \A s \in Shards :
       shards[r][s].state = "open" =>
          /\ shards[r][s].unwritten = Cardinality(Owing(r - 1, s))
          /\ shards[r][s].unwritten > 0

\* No job runs on a shard that was finalized, and none is still to come.
StillOpen ==
    /\ \A i \in Running : ShardOf(i).state = "open"
    /\ live => \A s \in Shards :
          shards[append_chunk_index + 1][s].state # "open" =>
             \A layer \in Layers, slot \in SlotsOf(s) :
                SentTo(append_chunk_index, layer, slot)

\* Until the array is closed, a shard that did not land lost one of its jobs.
LostOne(r, s) ==
    \E i \in DOMAIN sent : /\ sent[i].row = r - 1 /\ dims.shard[sent[i].slot] = s
                           /\ ended[i].how = "lost"
BadLostOne ==
    pc # "closed" =>
       \A r \in DOMAIN shards : \A s \in Shards :
          shards[r][s].state = "bad" => LostOne(r, s)

IInv ==
    /\ TypeOK /\ Counters /\ Dispatched /\ Filling /\ UpToHere /\ FramesInTheirPlace
    /\ Rows /\ Jobs /\ Ending /\ Countdown /\ StillOpen /\ BadLostOne /\ SuccessMeans
-----------------------------------------------------------------------------
(* Division *)

\* A number is given by its quotient and its remainder.
LEMMA DivisionUnique ==
    ASSUME NEW d \in Nat \ {0}, NEW q \in Nat, NEW r \in 0 .. d - 1
    PROVE  (q * d + r) \div d = q /\ (q * d + r) % d = r
  <1>1. q * d \in Nat /\ q * d + r \in Nat
    OBVIOUS
  <1>2. PICK n \in Nat : n = q * d + r
    BY <1>1
  <1>3. PICK m \in Nat : m = n \div d
    OBVIOUS
  <1>4. n = m * d + (n % d) /\ n % d \in 0 .. d - 1
    BY <1>3
  <1>5. m = q
    <2>1. CASE m < q
      <3>1. m + 1 <= q
        BY <2>1
      <3>2. (m + 1) * d <= q * d /\ (m + 1) * d = m * d + d
        BY <3>1
      <3> QED
        BY <1>1, <1>2, <1>4, <3>2
    <2>2. CASE m > q
      <3>1. q + 1 <= m
        BY <2>2
      <3>2. (q + 1) * d <= m * d /\ (q + 1) * d = q * d + d
        BY <3>1
      <3> QED
        BY <1>1, <1>2, <1>4, <3>2
    <2> QED
      BY <2>1, <2>2
  <1>6. n % d = r
    BY <1>1, <1>2, <1>4, <1>5
  <1> QED
    BY <1>2, <1>3, <1>5, <1>6

LEMMA Division ==
    ASSUME NEW n \in Nat, NEW d \in Nat \ {0}
    PROVE  /\ n \div d \in Nat /\ n % d \in 0 .. d - 1
           /\ n = (n \div d) * d + (n % d)
  OBVIOUS

\* Quotients grow with their numbers, and a quotient below b is that of a
\* number below b * d.
LEMMA DivisionGrows ==
    ASSUME NEW d \in Nat \ {0}, NEW m \in Nat, NEW n \in Nat, m <= n
    PROVE  m \div d <= n \div d
  <1>1. PICK p, q \in Nat : p = m \div d /\ q = n \div d
    OBVIOUS
  <1>2. m = p * d + (m % d) /\ n = q * d + (n % d) /\ m % d \in Nat /\ n % d < d
    BY <1>1, Division
  <1>3. ~(p > q)
    <2> SUFFICES ASSUME p > q PROVE FALSE
      OBVIOUS
    <2>1. q + 1 <= p
      OBVIOUS
    <2>2. (q + 1) * d <= p * d /\ (q + 1) * d = q * d + d /\ p * d \in Nat /\ q * d \in Nat
      BY <2>1
    <2> QED
      BY <1>2, <2>2
  <1> QED
    BY <1>1, <1>3

LEMMA DivisionBelow ==
    ASSUME NEW d \in Nat \ {0}, NEW b \in Nat, NEW n \in Nat, n < b * d
    PROVE  n \div d < b
  <1>1. PICK q \in Nat : q = n \div d
    OBVIOUS
  <1>2. n = q * d + (n % d) /\ n % d \in Nat
    BY <1>1, Division
  <1>3. ~(q >= b)
    <2> SUFFICES ASSUME q >= b PROVE FALSE
      OBVIOUS
    <2>1. b * d <= q * d /\ q * d \in Nat /\ b * d \in Nat
      OBVIOUS
    <2> QED
      BY <1>2, <2>1
  <1> QED
    BY <1>1, <1>3

\* One more: the quotient grows exactly where the next number is a multiple.
LEMMA DivisionNext ==
    ASSUME NEW d \in Nat \ {0}, NEW n \in Nat
    PROVE  (n + 1) % d # 0 => (n + 1) \div d = n \div d
  <1>1. PICK q \in Nat : q = (n + 1) \div d
    OBVIOUS
  <1>2. PICK r \in 0 .. d - 1 : r = (n + 1) % d
    BY Division
  <1>3. n + 1 = q * d + r /\ q * d \in Nat
    BY <1>1, <1>2, Division
  <1>4. SUFFICES ASSUME r # 0 PROVE n \div d = q
    BY <1>1, <1>2
  <1>5. r - 1 \in 0 .. d - 1 /\ n = q * d + (r - 1)
    BY <1>3, <1>4
  <1> QED
    BY <1>5, DivisionUnique
-----------------------------------------------------------------------------
(* Geometries, rows and layers *)

\* What the assumption says of the geometry of the array.
LEMMA GeometryFacts ==
    ASSUME dims \in Geometries
    PROVE  /\ dims.banding \in BOOLEAN
           /\ dims.frames_per_layer \in Nat \ {0}
           /\ dims.frames_per_band \in Nat \ {0}
           /\ dims.layers_per_shard \in Nat \ {0}
           /\ ChunkSlots \subseteq Slots /\ ChunkSlots # {} /\ IsFiniteSet(Slots)
           /\ Bands \in Nat
           /\ \A slot \in ChunkSlots : dims.band[slot] \in 0 .. Bands - 1
           /\ dims.banding => dims.frames_per_layer <= Bands * dims.frames_per_band
  <1> DEFINE bands == {dims.band[slot] : slot \in ChunkSlots}
  <1>1. /\ dims.banding \in BOOLEAN
        /\ {dims.frames_per_layer, dims.frames_per_band, dims.layers_per_shard}
              \subseteq Nat \ {0}
        /\ IsFiniteSet(Slots) /\ ChunkSlots \subseteq Slots /\ ChunkSlots # {}
        /\ bands = 0 .. Cardinality(bands) - 1
        /\ dims.banding => dims.frames_per_layer <= Cardinality(bands) * dims.frames_per_band
    BY ArrayAssumption DEF ArrayAssumption, ChunkSlots, Slots
  <1>2. Bands = Cardinality(bands)
    BY DEF Bands
  <1>3. \A slot \in ChunkSlots : dims.band[slot] \in bands
    OBVIOUS
  <1>4. Bands \in Nat
    <2>1. IsFiniteSet(ChunkSlots)
      BY <1>1, FS_Subset
    <2>2. PICK f : f = [slot \in ChunkSlots |-> dims.band[slot]]
      OBVIOUS
    <2>3. f \in Surjection(ChunkSlots, bands)
      BY <2>2 DEF Surjection
    <2> HIDE DEF bands
    <2>4. IsFiniteSet(bands)
      BY <2>1, <2>3, FS_Surjection
    <2> QED
      BY <1>2, <2>4, FS_CardinalityType
  <1> HIDE DEF bands
  <1> QED
    BY <1>1, <1>2, <1>3, <1>4

\* Pairs of a row and a layer are ordered as the layers are counted through.
LEMMA LayerOrder ==
    ASSUME NEW n \in Nat \ {0}, NEW a \in Nat, NEW b \in Nat,
           NEW x \in 0 .. n - 1, NEW y \in 0 .. n - 1
    PROVE  /\ a * n + x = b * n + y <=> a = b /\ x = y
           /\ a * n + x < b * n + y <=> a < b \/ (a = b /\ x < y)
  <1>1. a * n \in Nat /\ b * n \in Nat
    OBVIOUS
  <1>2. CASE a < b
    <2>1. (a + 1) * n <= b * n /\ (a + 1) * n = a * n + n
      BY <1>2
    <2> QED
      BY <1>1, <1>2, <2>1
  <1>3. CASE b < a
    <2>1. (b + 1) * n <= a * n /\ (b + 1) * n = b * n + n
      BY <1>3
    <2> QED
      BY <1>1, <1>3, <2>1
  <1>4. CASE a = b
    BY <1>1, <1>4
  <1> QED
    BY <1>2, <1>3, <1>4

\* The layers counted through up to a frame are its row and its layer.
LEMMA FrameLayer ==
    ASSUME dims \in Geometries, NEW f \in Nat
    PROVE  /\ Row(f) \in Nat /\ Layer(f) \in Layers
           /\ f \div dims.frames_per_layer = Row(f) * dims.layers_per_shard + Layer(f)
  <1>1. PICK n, d \in Nat \ {0} : n = dims.layers_per_shard /\ d = dims.frames_per_layer
    BY GeometryFacts
  <1>2. PICK l \in Nat, r \in 0 .. d - 1 : l = f \div d /\ f = l * d + r
    BY Division
  <1>3. PICK a \in Nat, k \in 0 .. n - 1 : a = l \div n /\ k = l % n /\ l = a * n + k
    BY Division
  <1>4. f = a * (d * n) + (k * d + r)
    <2>1. l * d = (a * n) * d + k * d
      BY <1>3
    <2>3. (a * n) * d = a * (d * n)
      OBVIOUS
    <2>2. a * (d * n) \in Nat /\ k * d \in Nat
      OBVIOUS
    <2> QED
      BY <1>2, <2>1, <2>2, <2>3
  <1>5. k * d + r \in 0 .. d * n - 1 /\ d * n \in Nat \ {0}
    <2>1. (k + 1) * d <= n * d /\ (k + 1) * d = k * d + d /\ n * d = d * n
      OBVIOUS
    <2>2. k * d \in Nat /\ d * n \in Nat /\ d * n # 0
      OBVIOUS
    <2> QED
      BY <2>1, <2>2
  <1>6. PICK dn \in Nat \ {0} : dn = d * n
    BY <1>5
  <1>9. PICK rest \in 0 .. dn - 1 : rest = k * d + r
    BY <1>5, <1>6
  <1>7. f \div dn = a
    BY <1>4, <1>6, <1>9, DivisionUnique
  <1>8. Row(f) = a /\ Layer(f) = k
    BY <1>1, <1>2, <1>3, <1>6, <1>7 DEF Row, Layer
  <1> QED
    BY <1>1, <1>2, <1>3, <1>8 DEF Layers

\* The frame that is k frames into the current layer.
LEMMA FrameInLayer ==
    ASSUME dims \in Geometries, append_chunk_index \in Nat, current_layer \in Layers,
           NEW k \in Nat, k < dims.frames_per_layer,
           NEW f, f = LayersBefore * dims.frames_per_layer + k
    PROVE  /\ f \in Nat /\ f % dims.frames_per_layer = k
           /\ Row(f) = append_chunk_index /\ Layer(f) = current_layer
  <1>1. PICK n, d \in Nat \ {0} : n = dims.layers_per_shard /\ d = dims.frames_per_layer
    BY GeometryFacts
  <1>2. PICK l \in Nat : l = LayersBefore
    BY <1>1 DEF LayersBefore, Layers
  <1>3. f \in Nat /\ f = l * d + k /\ k \in 0 .. d - 1
    BY <1>1, <1>2
  <1>4. f \div d = l /\ f % d = k
    BY <1>3, DivisionUnique
  <1>5. Row(f) \in Nat /\ Layer(f) \in 0 .. n - 1 /\ l = Row(f) * n + Layer(f)
    BY <1>1, <1>3, <1>4, FrameLayer DEF Layers
  <1>6. l = append_chunk_index * n + current_layer /\ current_layer \in 0 .. n - 1
    BY <1>1, <1>2 DEF LayersBefore, Layers
  <1>7. Row(f) = append_chunk_index /\ Layer(f) = current_layer
    BY <1>5, <1>6, LayerOrder
  <1> QED
    BY <1>1, <1>3, <1>4, <1>7

\* The number of frames when the last frame of the current layer is written.
LEMMA LayerEnds ==
    ASSUME dims \in Geometries, append_chunk_index \in Nat, current_layer \in Layers,
           NEW f, f = LayersBefore * dims.frames_per_layer + dims.frames_per_layer
    PROVE  /\ f \in Nat /\ f % dims.frames_per_layer = 0
           /\ f % (dims.frames_per_layer * dims.layers_per_shard) = 0 <=>
                 current_layer = dims.layers_per_shard - 1
  <1>1. PICK n, d \in Nat \ {0} : n = dims.layers_per_shard /\ d = dims.frames_per_layer
    BY GeometryFacts
  <1>2. PICK a \in Nat, c \in 0 .. n - 1 : a = append_chunk_index /\ c = current_layer
    BY <1>1 DEF Layers
  <1>3. f = (a * n + c) * d + d
    BY <1>1, <1>2 DEF LayersBefore
  <1>4. f % d = 0 /\ f \in Nat
    <2>1. PICK q \in Nat : q = a * n + c + 1
      OBVIOUS
    <2>2. f = q * d + 0 /\ 0 \in 0 .. d - 1 /\ q * d \in Nat
      BY <1>3, <2>1
    <2>3. (q * d + 0) % d = 0
      BY <2>2, DivisionUnique
    <2> QED
      BY <2>2, <2>3
  <1>5. d * n \in Nat \ {0}
    OBVIOUS
  <1>6. PICK dn \in Nat \ {0} : dn = d * n
    BY <1>5
  <1>7. f = a * dn + (c + 1) * d
    BY <1>3, <1>6
  <1>8. CASE c = n - 1
    <2>1. PICK q \in Nat : q = a + 1
      OBVIOUS
    <2>2. f = q * dn + 0 /\ 0 \in 0 .. dn - 1
      BY <1>6, <1>7, <1>8, <2>1
    <2>3. f % dn = 0
      BY <2>2, DivisionUnique
    <2> QED
      BY <1>1, <1>2, <1>4, <1>6, <1>8, <2>3
  <1>9. CASE c # n - 1
    <2>1. (c + 2) * d <= n * d /\ (c + 2) * d = (c + 1) * d + d /\ (c + 1) * d = c * d + d
          /\ c * d \in Nat
      BY <1>9
    <2>2. PICK rest \in 0 .. dn - 1 : rest = (c + 1) * d /\ rest > 0
      BY <1>6, <2>1
    <2>3. f % dn = rest
      BY <1>7, <2>2, DivisionUnique
    <2> QED
      BY <1>1, <1>2, <1>4, <1>6, <1>9, <2>2, <2>3
  <1> QED
    BY <1>8, <1>9

\* A frame written before is in a row or a layer before, or in this one if it
\* has frames.
LEMMA PastFrames ==
    ASSUME TypeOK, Counters, NEW f \in 0 .. frames_written - 1
    PROVE  /\ Row(f) \in Nat /\ Layer(f) \in Layers
           /\ \/ Row(f) < append_chunk_index
              \/ Row(f) = append_chunk_index /\ Layer(f) < current_layer
              \/ /\ Row(f) = append_chunk_index /\ Layer(f) = current_layer
                 /\ frames_to_flush > 0
  <1>1. dims \in Geometries /\ append_chunk_index \in Nat /\ current_layer \in Layers
        /\ frames_to_flush \in 0 .. dims.frames_per_layer /\ frames_written \in Nat
    BY ArrayAssumption DEF TypeOK, Layers, ArrayAssumption
  <1>2. PICK n, d \in Nat \ {0} : n = dims.layers_per_shard /\ d = dims.frames_per_layer
    BY <1>1, GeometryFacts
  <1>3. PICK l \in Nat : l = LayersBefore
    BY <1>1, <1>2 DEF LayersBefore, Layers
  <1>4. PICK k \in 0 .. d : k = frames_to_flush
    BY <1>1, <1>2
  <1>5. f \in Nat /\ l * d \in Nat /\ f < l * d + k
    <2>1. frames_written = l * d + k
      BY <1>2, <1>3, <1>4 DEF Counters
    <2>2. l * d \in Nat
      OBVIOUS
    <2> QED
      BY <1>1, <2>1, <2>2
  <1>6. f \div d \in Nat /\ f \div d <= l /\ (k = 0 => f \div d < l)
    <2>1. CASE k = 0
      <3>1. f \in Nat /\ f < l * d
        BY <1>5, <2>1
      <3>2. f \div d < l /\ f \div d \in Nat
        BY <3>1, DivisionBelow, Division
      <3> QED
        BY <3>2
    <2>2. CASE k > 0
      <3>1. PICK m \in Nat : m = l * d + (k - 1) /\ f <= m
        BY <1>5, <2>2
      <3>2. m \div d = l
        <4>1. k - 1 \in 0 .. d - 1
          BY <2>2
        <4> QED
          BY <3>1, <4>1, DivisionUnique
      <3>3. f \div d <= m \div d /\ f \div d \in Nat
        BY <1>5, <3>1, DivisionGrows, Division
      <3> QED
        BY <2>2, <3>2, <3>3
    <2> QED
      BY <2>1, <2>2
  <1>7. Row(f) \in Nat /\ Layer(f) \in 0 .. n - 1 /\ f \div d = Row(f) * n + Layer(f)
    BY <1>1, <1>2, <1>5, FrameLayer DEF Layers
  <1>8. PICK a, b \in Nat, x, y \in 0 .. n - 1 : /\ a = Row(f) /\ x = Layer(f)
                                                 /\ b = append_chunk_index /\ y = current_layer
    BY <1>1, <1>2, <1>7 DEF Layers
  <1>9. l = b * n + y /\ f \div d = a * n + x
    BY <1>2, <1>3, <1>7, <1>8 DEF LayersBefore
  <1>10. /\ a * n + x = b * n + y <=> a = b /\ x = y
         /\ a * n + x < b * n + y <=> a < b \/ (a = b /\ x < y)
    BY LayerOrder
  <1>11. a * n + x < b * n + y \/ (a * n + x = b * n + y /\ k > 0)
    BY <1>6, <1>9
  <1> QED
    BY <1>2, <1>4, <1>8, <1>10, <1>11 DEF Layers
-----------------------------------------------------------------------------
(* Init, and the steps in which no job is made or run *)

LEMMA InitIInv == Init => IInv
  <1> SUFFICES ASSUME Init PROVE IInv
    OBVIOUS
  <1> USE DEF Init
  <1>1. PICK n, d, b \in Nat \ {0} : /\ n = dims.layers_per_shard /\ d = dims.frames_per_layer
                                     /\ b = dims.frames_per_band
    BY GeometryFacts
  <1>2. /\ sent = << >> /\ ended = << >> /\ shards = << >>
        /\ DOMAIN sent = {} /\ DOMAIN shards = {} /\ Len(sent) = 0 /\ Len(shards) = 0
    OBVIOUS
  <1>3. \A row, layer, slot : ~SentTo(row, layer, slot)
    BY <1>2 DEF SentTo
  <1>4. TypeOK
    <2>1. dims \in Geometries /\ Bands \in Nat /\ MaxFrames \in Nat
      BY GeometryFacts, ArrayAssumption DEF ArrayAssumption
    <2>2. current_layer \in 0 .. dims.layers_per_shard - 1 /\ flushed_bands \in 0 .. Bands
          /\ frames_to_flush \in 0 .. dims.frames_per_layer /\ frames_written \in 0 .. MaxFrames
      BY <1>1, <2>1
    <2>3. chunks \in [ChunkSlots -> SUBSET (0 .. MaxFrames)]
      OBVIOUS
    <2>4. \A S : << >> \in Seq(S)
      OBVIOUS
    <2> QED
      BY <1>2, <2>1, <2>2, <2>3, <2>4 DEF TypeOK
  <1>5. 0 \div b = 0
    OBVIOUS
  <1>6. Counters
    BY <1>1, <1>5 DEF Counters, LayersBefore, Flushing
  <1>7. Dispatched
    <2>1. Due = {}
      BY <1>1, <1>5, GeometryFacts DEF Due
    <2> QED
      BY <1>3, <2>1 DEF Dispatched, Gone, Flushing
  <1>8. Filling
    <2>1. \A slot \in ChunkSlots : FramesOf(append_chunk_index, current_layer, slot) = {}
      BY DEF FramesOf
    <2> QED
      BY <2>1 DEF Filling
  <1>9. UpToHere /\ FramesInTheirPlace /\ Countdown
    <2>1. \A row \in 0 .. append_chunk_index, layer \in Layers :
             ~(row < append_chunk_index \/ layer < current_layer)
      BY <1>1 DEF Layers
    <2> QED
      BY <1>2, <2>1 DEF UpToHere, FramesInTheirPlace, Countdown
  <1>10. Rows /\ Jobs /\ Ending /\ BadLostOne /\ SuccessMeans
    BY <1>2 DEF Rows, Jobs, Ending, BadLostOne, SuccessMeans, Running, Flushing
  <1>11. StillOpen
    BY <1>2 DEF StillOpen, Running
  <1> QED
    BY <1>4, <1>6, <1>7, <1>8, <1>9, <1>10, <1>11 DEF IInv

\* What such a step does not disturb.
LEMMA QuietKeeps ==
    ASSUME IInv, UNCHANGED <<dims, shards, jobVars, append_chunk_index, current_layer, live>>,
           pc \notin {"inline", "closed"}, pc' \notin {"inline", "closed"},
           result' = result, error => error'
    PROVE  /\ UpToHere' /\ Jobs' /\ Countdown' /\ StillOpen' /\ BadLostOne' /\ SuccessMeans'
           /\ \A row, layer, slot : SentTo(row, layer, slot)' <=> SentTo(row, layer, slot)
           /\ \A slot : Gone(slot)' <=> Gone(slot)
  <1> USE DEF jobVars
  <1>1. Slots' = Slots /\ Layers' = Layers /\ Shards' = Shards /\ Running' = Running
        /\ \A s : SlotsOf(s)' = SlotsOf(s)
    BY DEF Slots, Layers, Shards, Running, SlotsOf
  <1>2. \A row, layer, slot : SentTo(row, layer, slot)' <=> SentTo(row, layer, slot)
    BY DEF SentTo
  <1>3. \A slot : Gone(slot)' <=> Gone(slot)
    BY <1>2 DEF Gone
  <1>4. UpToHere'
    BY <1>1, <1>2 DEF IInv, UpToHere, Place
  <1>5. Jobs'
    BY <1>1 DEF IInv, Jobs
  <1>6. Countdown'
    <2>1. \A row, s : Owing(row, s)' = Owing(row, s)
      BY <1>1 DEF Owing
    <2> QED
      BY <1>1, <2>1 DEF IInv, Countdown
  <1>7. StillOpen'
    <2>1. \A i : ShardOf(i)' = ShardOf(i)
      BY DEF ShardOf
    <2> QED
      BY <1>1, <1>2, <2>1 DEF IInv, StillOpen
  <1>8. BadLostOne'
    BY <1>1 DEF IInv, BadLostOne, LostOne
  <1>9. SuccessMeans'
    BY DEF IInv, Ending, SuccessMeans
  <1> QED
    BY <1>2, <1>3, <1>4, <1>5, <1>6, <1>7, <1>8, <1>9

\* What a job and a shard are.
LEMMA JobTypes ==
    ASSUME TypeOK, NEW i \in DOMAIN sent
    PROVE  /\ i \in Nat \ {0} /\ i <= Len(sent) /\ DOMAIN ended = DOMAIN sent
           /\ sent[i].row \in Nat /\ sent[i].layer \in Layers /\ sent[i].slot \in Slots
           /\ sent[i].frames \subseteq 0 .. MaxFrames
           /\ dims.shard[sent[i].slot] \in Shards
           /\ sent[i].slot \in SlotsOf(dims.shard[sent[i].slot])
           /\ ended[i].how \in {"pending", "landed", "lost"} /\ ended[i].inline \in BOOLEAN
           /\ ended[i] = [how |-> ended[i].how, inline |-> ended[i].inline]
  <1> DEFINE JobSet == [row : Nat, layer : Layers, slot : Slots, frames : SUBSET (0 .. MaxFrames)]
             EndSet == [how : {"pending", "landed", "lost"}, inline : BOOLEAN]
  <1>1. sent \in Seq(JobSet) /\ ended \in Seq(EndSet) /\ Len(ended) = Len(sent)
    BY DEF TypeOK, Layers, Slots
  <1>2. DOMAIN sent = 1 .. Len(sent) /\ DOMAIN ended = 1 .. Len(sent) /\ Len(sent) \in Nat
    BY <1>1
  <1> HIDE DEF JobSet, EndSet
  <1>3. sent[i] \in JobSet /\ ended[i] \in EndSet
    BY <1>1, <1>2
  <1> QED
    BY <1>2, <1>3 DEF Shards, SlotsOf, Slots, JobSet, EndSet

LEMMA ShardTypes ==
    ASSUME TypeOK, NEW r \in DOMAIN shards, NEW s \in Shards
    PROVE  /\ r \in Nat \ {0} /\ r <= Len(shards) /\ Len(shards) \in Nat
           /\ DOMAIN shards = 1 .. Len(shards)
           /\ shards[r] \in [Shards -> [unwritten : Nat, state : {"open", "ok", "bad"}]]
           /\ shards[r][s] \in [unwritten : Nat, state : {"open", "ok", "bad"}]
           /\ shards[r][s].unwritten \in Nat
           /\ shards[r][s].state \in {"open", "ok", "bad"}
  <1> DEFINE RowSet == [Shards -> [unwritten : Nat, state : {"open", "ok", "bad"}]]
  <1>1. shards \in Seq(RowSet)
    BY DEF TypeOK
  <1>2. DOMAIN shards = 1 .. Len(shards) /\ Len(shards) \in Nat
    BY <1>1
  <1>3. shards[r] \in RowSet
    BY <1>1, <1>2
  <1> QED
    BY <1>2, <1>3

\* What a written frame completes.
LEMMA ToFlushIs ==
    ASSUME TypeOK, Counters, pc = "idle", ~closing
    PROVE  LET k == frames_to_flush
           IN  ToFlush(frames_written + 1) =
                  IF k + 1 = dims.frames_per_layer
                  THEN IF dims.banding
                       THEN {slot \in ChunkSlots :
                                dims.band[slot] >= k \div dims.frames_per_band} \cup PadSlots
                       ELSE Slots
                  ELSE IF dims.banding
                  THEN {slot \in ChunkSlots :
                          /\ dims.band[slot] >= k \div dims.frames_per_band
                          /\ dims.band[slot] < (k + 1) \div dims.frames_per_band}
                  ELSE {}
  <1>1. dims \in Geometries /\ append_chunk_index \in Nat /\ current_layer \in Layers
    BY DEF TypeOK, Layers
  <1>2. PICK d, b \in Nat \ {0} : d = dims.frames_per_layer /\ b = dims.frames_per_band
    BY <1>1, GeometryFacts
  <1>3. PICK k \in Nat : k = frames_to_flush /\ k < d
    BY <1>2 DEF TypeOK, Counters
  <1>4. PICK w \in Nat : w = frames_written + 1
    BY ArrayAssumption DEF TypeOK, ArrayAssumption
  <1>5. LayersBefore \in Nat /\ w = LayersBefore * d + (k + 1)
    <2>1. PICK n \in Nat \ {0} : n = dims.layers_per_shard
      BY <1>1, GeometryFacts
    <2>2. LayersBefore \in Nat
      BY <1>1, <2>1 DEF LayersBefore, Layers
    <2>3. LayersBefore * d \in Nat
      BY <2>2
    <2>4. frames_written = LayersBefore * d + k
      BY <1>2, <1>3 DEF Counters
    <2> QED
      BY <1>4, <2>2, <2>3, <2>4
  <1>6. dims.banding => flushed_bands = k \div b
    BY <1>2, <1>3, GeometryFacts DEF Counters, Flushing
  <1>7. k \div b \in Nat /\ (k + 1) \div b \in Nat /\ k \div b <= (k + 1) \div b
    BY DivisionGrows, Division
  <1>8. Bands \in Nat /\ \A slot \in ChunkSlots : dims.band[slot] \in 0 .. Bands - 1
    BY <1>1, GeometryFacts
  <1>9. CASE k + 1 = d
    <2>1. LayerComplete(w)
      BY <1>1, <1>2, <1>5, <1>9, LayerEnds DEF LayerComplete
    <2>2. ToFlush(w) = IF dims.banding THEN BandRange(flushed_bands, Bands) ELSE WholeLayer
      BY <1>1, <2>1, GeometryFacts DEF ToFlush
    <2>3. ASSUME dims.banding
          PROVE  BandRange(flushed_bands, Bands) =
                    {slot \in ChunkSlots : dims.band[slot] >= k \div b} \cup PadSlots
      <3>1. k < Bands * b
        BY <1>1, <1>2, <1>3, <2>3, GeometryFacts
      <3>2. k \div b < Bands
        BY <1>8, <3>1, DivisionBelow
      <3> QED
        BY <1>6, <1>7, <1>8, <2>3, <3>2 DEF BandRange
    <2> QED
      BY <1>2, <1>3, <1>4, <1>9, <2>2, <2>3 DEF WholeLayer, Slots
  <1>10. CASE k + 1 # d
    <2>1. w % d = k + 1
      <3>1. PICK m \in Nat : m = k + 1 /\ m < d
        BY <1>3, <1>10
      <3>2. w = LayersBefore * dims.frames_per_layer + m
        BY <1>2, <1>5, <3>1
      <3> QED
        BY <1>1, <1>2, <3>1, <3>2, FrameInLayer
    <2>2. ~LayerComplete(w)
      BY <1>2, <2>1 DEF LayerComplete
    <2>3. ToFlush(w) = IF dims.banding /\ (k + 1) % b = 0
                       THEN BandRange(flushed_bands, (k + 1) \div b) ELSE {}
      BY <1>1, <1>2, <2>1, <2>2, GeometryFacts DEF ToFlush, BandsComplete, CompletedBands
    <2>4. ASSUME dims.banding
          PROVE  BandRange(flushed_bands, (k + 1) \div b) =
                    {slot \in ChunkSlots : /\ dims.band[slot] >= k \div b
                                           /\ dims.band[slot] < (k + 1) \div b}
      <3>1. k + 1 < Bands * b
        BY <1>1, <1>2, <1>3, <1>10, <2>4, GeometryFacts
      <3>2. (k + 1) \div b < Bands
        BY <1>8, <3>1, DivisionBelow
      <3> QED
        BY <1>6, <1>7, <1>8, <2>4, <3>2 DEF BandRange
    <2>5. ASSUME (k + 1) % b # 0
          PROVE  {slot \in ChunkSlots : /\ dims.band[slot] >= k \div b
                                        /\ dims.band[slot] < (k + 1) \div b} = {}
      <3>1. (k + 1) \div b = k \div b
        BY <2>5, DivisionNext
      <3> QED
        BY <1>7, <1>8, <3>1
    <2> QED
      BY <1>2, <1>3, <1>4, <1>10, <2>3, <2>4, <2>5
  <1> QED
    BY <1>9, <1>10

\* A frame belongs to no job made before, and lands in chunks still in their slots.
LEMMA WriteFrameKeeps ==
    ASSUME IInv, WriteFrame
    PROVE  IInv'
  <1>1. TypeOK /\ Counters /\ Dispatched /\ Filling /\ UpToHere /\ FramesInTheirPlace
        /\ Rows /\ Ending
    BY DEF IInv
  <1>2. /\ pc = "idle" /\ ~closing /\ frames_written < MaxFrames
        /\ chunks' = [slot \in ChunkSlots |->
                        IF slot \in Touched(frames_written)
                        THEN chunks[slot] \cup {frames_written} ELSE chunks[slot]]
        /\ frames_written' = frames_written + 1
        /\ frames_to_flush' = frames_to_flush + 1
        /\ todo' = ToFlush(frames_written + 1)
        /\ pc' = IF todo' = {} THEN "flushed" ELSE IF live THEN "dispatch" ELSE "make"
        /\ UNCHANGED <<dims, single, streamVars, flushVars, shards, jobVars, closing, result>>
    BY DEF WriteFrame, StartFlush
  <1>3. /\ append_chunk_index' = append_chunk_index /\ current_layer' = current_layer
        /\ flushed_bands' = flushed_bands /\ live' = live /\ error' = error
        /\ accepting' = accepting /\ sent' = sent /\ pending' = pending /\ ended' = ended
    BY <1>2 DEF flushVars, streamVars, jobVars
  <1>4. /\ Flushing' /\ ~closing' /\ pc' # "inline" /\ result = "none"
        /\ ChunkSlots' = ChunkSlots /\ PadSlots' = PadSlots /\ Slots' = Slots
        /\ LayersBefore' = LayersBefore
    BY <1>1, <1>2, <1>3
       DEF Flushing, Ending, ChunkSlots, PadSlots, Slots, LayersBefore
  <1>5. UpToHere' /\ Jobs' /\ Countdown' /\ StillOpen' /\ BadLostOne' /\ SuccessMeans'
        /\ \A slot : Gone(slot)' <=> Gone(slot)
    BY <1>2, <1>3, <1>4, QuietKeeps DEF Flushing
  <1>6. PICK d, b \in Nat \ {0} : d = dims.frames_per_layer /\ b = dims.frames_per_band
    BY <1>1, GeometryFacts DEF TypeOK
  <1>7. PICK k \in Nat : k = frames_to_flush /\ k < d
    BY <1>1, <1>2, <1>6 DEF TypeOK, Counters
  <1>8. PICK n \in Nat : n = frames_written /\ n < MaxFrames /\ n \in 0 .. MaxFrames
    BY <1>1, <1>2, ArrayAssumption DEF TypeOK, ArrayAssumption
  <1>9. dims \in Geometries /\ append_chunk_index \in Nat /\ current_layer \in Layers
    BY <1>1 DEF TypeOK, Layers
  <1>10. n % d = k /\ Row(n) = append_chunk_index /\ Layer(n) = current_layer
    <2>1. n = LayersBefore * dims.frames_per_layer + k
      BY <1>1, <1>7, <1>8 DEF Counters
    <2> QED
      BY <1>6, <1>7, <1>9, <2>1, FrameInLayer
  <1>11. /\ \A slot \in ChunkSlots : dims.band[slot] \in 0 .. Bands - 1
         /\ Bands \in Nat /\ ChunkSlots \subseteq Slots /\ dims.banding \in BOOLEAN
    BY <1>9, GeometryFacts
  <1>12. k \div b \in Nat /\ (k + 1) \div b \in Nat /\ k \div b <= (k + 1) \div b
    BY DivisionGrows, Division
  <1>13. \A slot \in Slots :
            Gone(slot) <=> dims.banding /\ slot \in ChunkSlots /\ dims.band[slot] < k \div b
    BY <1>1, <1>2, <1>6, <1>7 DEF Dispatched, Due
  <1>14. todo' = IF k + 1 = d
                 THEN IF dims.banding
                      THEN {slot \in ChunkSlots : dims.band[slot] >= k \div b} \cup PadSlots
                      ELSE Slots
                 ELSE IF dims.banding
                 THEN {slot \in ChunkSlots : /\ dims.band[slot] >= k \div b
                                             /\ dims.band[slot] < (k + 1) \div b}
                 ELSE {}
    BY <1>1, <1>2, <1>6, <1>7, ToFlushIs
  <1>15. \A slot \in ChunkSlots : slot \in Touched(n) => ~Gone(slot)
    <2> SUFFICES ASSUME NEW slot \in ChunkSlots, slot \in Touched(n), Gone(slot)
                 PROVE  FALSE
      OBVIOUS
    <2>1. dims.banding /\ dims.band[slot] < k \div b
      BY <1>11, <1>13
    <2>2. dims.band[slot] = k \div b
      BY <1>6, <1>10, <2>1 DEF Touched
    <2> QED
      BY <1>11, <1>12, <2>1, <2>2
  <1>16. TypeOK'
    <2>1. todo' \subseteq Slots
      BY <1>11, <1>14 DEF PadSlots, Slots
    <2>2. chunks' \in [ChunkSlots -> SUBSET (0 .. MaxFrames)]
      BY <1>1, <1>2, <1>8 DEF TypeOK
    <2>3. frames_written' \in 0 .. MaxFrames /\ frames_to_flush' \in 0 .. d
      BY <1>2, <1>7, <1>8, ArrayAssumption DEF ArrayAssumption
    <2>4. Bands' = Bands /\ Shards' = Shards /\ \A s : ChunksPerShard(s)' = ChunksPerShard(s)
      BY <1>2 DEF Bands, Shards, ChunksPerShard, SlotsOf, ChunkSlots
    <2>5. pc' \in {"idle", "make", "dispatch", "inline", "flushed", "failed", "closed"}
      BY <1>2
    <2> QED
      BY <1>1, <1>2, <1>3, <1>4, <1>6, <2>1, <2>2, <2>3, <2>4, <2>5 DEF TypeOK, Slots
  <1>17. Counters'
    <2>1. frames_written' = LayersBefore * d + frames_to_flush'
      <3>1. LayersBefore * d \in Nat
        BY <1>6, <1>9, GeometryFacts DEF LayersBefore, Layers
      <3> QED
        BY <1>1, <1>2, <1>6, <1>7, <1>8, <3>1 DEF Counters
    <2>2. flushed_bands = IF ~dims.banding THEN 0 ELSE k \div b
      BY <1>1, <1>2, <1>6, <1>7 DEF Counters, Flushing
    <2>3. frames_to_flush' - 1 = k /\ frames_to_flush' > 0
      BY <1>2, <1>7
    <2> QED
      BY <1>2, <1>3, <1>4, <1>6, <2>1, <2>2, <2>3 DEF Counters
  <1>18. Dispatched'
    <2>1. Due' = IF k + 1 = d THEN Slots
                 ELSE IF dims.banding
                 THEN {slot \in ChunkSlots : dims.band[slot] < (k + 1) \div b} ELSE {}
      BY <1>2, <1>4, <1>6, <1>7 DEF Due
    <2>2. ASSUME NEW slot \in Slots
          PROVE  /\ slot \in Due' <=> slot \in todo' \/ Gone(slot)
                 /\ ~(slot \in todo' /\ Gone(slot))
      <3>1. CASE slot \in ChunkSlots
        <4>1. PICK x \in Nat : x = dims.band[slot]
          BY <1>11, <3>1
        <4> QED
          BY <1>11, <1>12, <1>13, <1>14, <2>1, <3>1, <4>1 DEF PadSlots, Slots
      <3>2. CASE slot \notin ChunkSlots
        BY <1>13, <1>14, <2>1, <3>2 DEF PadSlots, Slots
      <3> QED
        BY <3>1, <3>2
    <2>3. pc' \in {"idle", "flushed"} => todo' = {}
      BY <1>2
    <2> QED
      BY <1>4, <1>5, <2>2, <2>3 DEF Dispatched
  <1>19. ASSUME NEW row, NEW layer, NEW slot
         PROVE  FramesOf(row, layer, slot)' =
                   FramesOf(row, layer, slot)
                   \cup (IF /\ row = append_chunk_index /\ layer = current_layer
                            /\ slot \in Touched(n)
                         THEN {n} ELSE {})
    <2>1. \A f : Row(f)' = Row(f) /\ Layer(f)' = Layer(f) /\ Touched(f)' = Touched(f)
      BY <1>2, <1>4 DEF Row, Layer, Touched
    <2>2. 0 .. frames_written' - 1 = (0 .. frames_written - 1) \cup {n}
      BY <1>2, <1>8
    <2> QED
      BY <1>10, <2>1, <2>2 DEF FramesOf
  <1>20. Filling'
    <2> SUFFICES ASSUME NEW slot \in ChunkSlots
                 PROVE  chunks'[slot] =
                           IF Gone(slot) THEN {}
                           ELSE FramesOf(append_chunk_index, current_layer, slot)'
      BY <1>3, <1>4, <1>5 DEF Filling
    <2>1. chunks[slot] = IF Gone(slot) THEN {}
                         ELSE FramesOf(append_chunk_index, current_layer, slot)
      BY <1>1, <1>2 DEF Filling
    <2>2. chunks'[slot] = IF slot \in Touched(n) THEN chunks[slot] \cup {n} ELSE chunks[slot]
      BY <1>2, <1>8
    <2>3. FramesOf(append_chunk_index, current_layer, slot)' =
             FramesOf(append_chunk_index, current_layer, slot)
             \cup (IF slot \in Touched(n) THEN {n} ELSE {})
      BY <1>3, <1>19
    <2> QED
      BY <1>15, <2>1, <2>2, <2>3
  <1>21. FramesInTheirPlace'
    <2> SUFFICES ASSUME NEW i \in DOMAIN sent, sent[i].slot \in ChunkSlots
                 PROVE  sent[i].frames =
                           FramesOf(sent[i].row, sent[i].layer, sent[i].slot)'
      BY <1>3, <1>4 DEF FramesInTheirPlace
    <2>1. sent[i].frames = FramesOf(sent[i].row, sent[i].layer, sent[i].slot)
      BY <1>1 DEF FramesInTheirPlace
    <2>2. sent[i].row = append_chunk_index /\ sent[i].layer = current_layer
             => sent[i].slot \notin Touched(n)
      BY <1>15 DEF Gone, SentTo
    <2> QED
      BY <1>3, <1>19, <2>1, <2>2
  <1>22. Rows' /\ Ending'
    BY <1>1, <1>2, <1>3, <1>4 DEF Rows, Ending
  <1> QED
    BY <1>5, <1>16, <1>17, <1>18, <1>20, <1>21, <1>22 DEF IInv

\* A step that leaves the frames and the flush alone keeps what is known of
\* them, on the way through a flush or out of it.
LEMMA FlushKeeps ==
    ASSUME IInv, UNCHANGED <<dims, frameVars, flushed_bands, append_chunk_index, current_layer,
                             sent, todo, closing>>,
           pc' = "idle" => pc = "idle", Flushing' => Flushing, pc' = "flushed" => todo = {}
    PROVE  /\ Counters' /\ Dispatched' /\ Filling' /\ FramesInTheirPlace'
           /\ \A row, layer, slot : SentTo(row, layer, slot)' <=> SentTo(row, layer, slot)
           /\ \A slot : Gone(slot)' <=> Gone(slot)
  <1>1. /\ frames_written' = frames_written /\ frames_to_flush' = frames_to_flush
        /\ chunks' = chunks
        /\ Slots' = Slots /\ ChunkSlots' = ChunkSlots /\ LayersBefore' = LayersBefore
        /\ Due' = Due
    BY DEF frameVars, Slots, ChunkSlots, LayersBefore, Due
  <1>2. \A row, layer, slot : FramesOf(row, layer, slot)' = FramesOf(row, layer, slot)
    <2>1. \A f : Row(f)' = Row(f) /\ Layer(f)' = Layer(f) /\ Touched(f)' = Touched(f)
      BY <1>1 DEF Row, Layer, Touched
    <2> QED
      BY <1>1, <2>1 DEF FramesOf
  <1>3. \A row, layer, slot : SentTo(row, layer, slot)' <=> SentTo(row, layer, slot)
    BY DEF SentTo
  <1>4. \A slot : Gone(slot)' <=> Gone(slot)
    BY <1>3 DEF Gone
  <1>5. Counters'
    <2>1. Flushing => pc # "idle"
      BY DEF Flushing
    <2>2. Flushing' => pc' # "idle"
      BY DEF Flushing
    <2>3. Counters
      BY DEF IInv
    <2> QED
      BY <1>1, <2>1, <2>2, <2>3 DEF Counters
  <1>6. Dispatched'
    BY <1>1, <1>4 DEF IInv, Dispatched
  <1>7. Filling'
    BY <1>1, <1>2, <1>4 DEF IInv, Filling
  <1>8. FramesInTheirPlace'
    BY <1>1, <1>2 DEF IInv, FramesInTheirPlace
  <1> QED
    BY <1>3, <1>4, <1>5, <1>6, <1>7, <1>8

\* The chunks of a row of new shards are all owed, and that is how many the
\* countdown of each begins with.
LEMMA NewRowOwes ==
    ASSUME TypeOK, NEW row, \A i \in DOMAIN sent : sent[i].row # row, NEW s \in Shards
    PROVE  /\ ChunksPerShard(s) \in Nat \ {0}
           /\ Cardinality(Owing(row, s)) = ChunksPerShard(s)
  <1>1. IsFiniteSet(Slots) /\ SlotsOf(s) \subseteq Slots /\ SlotsOf(s) # {}
    BY GeometryFacts DEF TypeOK, SlotsOf, Slots, Shards
  <1>2. IsFiniteSet(SlotsOf(s))
    BY <1>1, FS_Subset
  <1>3. PICK m \in Nat : m = Cardinality(SlotsOf(s)) /\ m # 0
    BY <1>1, <1>2, FS_CardinalityType, FS_EmptySet
  <1>4. PICK n \in Nat \ {0} : n = dims.layers_per_shard
    BY GeometryFacts DEF TypeOK
  <1>5. IsFiniteSet(Layers) /\ Cardinality(Layers) = n
    <2>1. 0 \in Int /\ n - 1 \in Int /\ ~(0 > n - 1) /\ (n - 1) - 0 + 1 = n
      OBVIOUS
    <2> QED
      BY <1>4, <2>1, FS_Interval DEF Layers
  <1>6. Owing(row, s) = Layers \X SlotsOf(s)
    BY DEF Owing
  <1>7. Cardinality(Owing(row, s)) = n * m
    BY <1>2, <1>3, <1>5, <1>6, FS_Product
  <1>8. ChunksPerShard(s) = m * n
    BY <1>3, <1>4 DEF ChunksPerShard
  <1>9. n * m = m * n /\ m * n \in Nat \ {0}
    BY <1>3
  <1> QED
    BY <1>7, <1>8, <1>9

LEMMA MakeShardsKeeps ==
    ASSUME IInv, MakeShards
    PROVE  IInv'
  <1> DEFINE row == [s \in Shards |-> [unwritten |-> ChunksPerShard(s), state |-> "open"]]
             here == append_chunk_index
  <1>1. TypeOK /\ UpToHere /\ Rows /\ Jobs /\ Ending /\ Countdown /\ StillOpen /\ BadLostOne
    BY DEF IInv
  <1>2. /\ pc = "make" /\ live' = TRUE /\ pc' = "dispatch" /\ shards' = Append(shards, row)
        /\ UNCHANGED <<dims, single, streamVars, frameVars, current_layer, flushed_bands,
                       append_chunk_index, todo, jobVars, closing, result>>
    BY DEF MakeShards
  <1>3. /\ sent' = sent /\ ended' = ended /\ pending' = pending
        /\ accepting' = accepting /\ error' = error
    BY <1>2 DEF jobVars, streamVars
  <1>4. /\ Slots' = Slots /\ Layers' = Layers /\ Shards' = Shards /\ Running' = Running
        /\ \A s : SlotsOf(s)' = SlotsOf(s) /\ ChunksPerShard(s)' = ChunksPerShard(s)
    BY <1>2, <1>3 DEF Slots, Layers, Shards, Running, SlotsOf, ChunksPerShard
  <1>5. /\ Counters' /\ Dispatched' /\ Filling' /\ FramesInTheirPlace'
        /\ \A r, layer, slot : SentTo(r, layer, slot)' <=> SentTo(r, layer, slot)
    BY <1>2, <1>3, FlushKeeps DEF Flushing
  <1>6. /\ here \in Nat /\ Len(shards) = here /\ ~live
        /\ \A i \in DOMAIN sent : sent[i].row < here /\ sent[i].row \in Nat
                                  /\ dims.shard[sent[i].slot] \in Shards
    <2>1. here \in Nat /\ Len(shards) = here /\ ~live
      BY <1>1, <1>2 DEF Rows, TypeOK
    <2>2. \A i \in DOMAIN sent : sent[i].row \in Nat /\ dims.shard[sent[i].slot] \in Shards
      BY <1>1, JobTypes
    <2> QED
      BY <1>1, <2>1, <2>2 DEF Rows
  <1>7. /\ DOMAIN shards' = 1 .. here + 1 /\ DOMAIN shards = 1 .. here
        /\ Len(shards') = here + 1
        /\ \A r \in 1 .. here : shards'[r] = shards[r]
        /\ shards'[here + 1] = row
    BY <1>1, <1>2, <1>6 DEF TypeOK
  <1>8. \A s \in Shards : /\ ChunksPerShard(s) \in Nat \ {0}
                          /\ Cardinality(Owing(here, s)) = ChunksPerShard(s)
    BY <1>1, <1>6, NewRowOwes
  <1>9. TypeOK'
    <2>1. row \in [Shards -> [unwritten : Nat, state : {"open", "ok", "bad"}]]
      BY <1>8
    <2> HIDE DEF row
    <2>2. shards' \in Seq([Shards -> [unwritten : Nat, state : {"open", "ok", "bad"}]])
      BY <1>1, <1>2, <2>1 DEF TypeOK
    <2>3. \A r \in DOMAIN shards', s \in Shards : shards'[r][s].unwritten <= ChunksPerShard(s)
      <3> SUFFICES ASSUME NEW r \in DOMAIN shards', NEW s \in Shards
                   PROVE  shards'[r][s].unwritten <= ChunksPerShard(s)
        OBVIOUS
      <3>1. CASE r \in 1 .. here
        BY <1>1, <1>7, <3>1 DEF TypeOK
      <3>2. CASE r = here + 1
        <4>1. shards'[r][s].unwritten = ChunksPerShard(s)
          BY <1>7, <3>2 DEF row
        <4> QED
          BY <1>8, <4>1
      <3> QED
        BY <1>6, <1>7, <3>1, <3>2
    <2>4. Bands' = Bands /\ ChunkSlots' = ChunkSlots
      BY <1>2 DEF Bands, ChunkSlots
    <2>5. UNCHANGED <<frames_written, frames_to_flush, chunks>>
      BY <1>2 DEF frameVars
    <2> QED
      BY <1>1, <1>2, <1>3, <1>4, <2>2, <2>3, <2>4, <2>5 DEF TypeOK
  <1>10. UpToHere'
    BY <1>1, <1>2, <1>3, <1>4, <1>5 DEF UpToHere, Place
  <1>11. Rows'
    BY <1>2, <1>3, <1>6, <1>7 DEF Rows
  <1>12. Jobs' /\ Ending' /\ SuccessMeans'
    BY <1>1, <1>2, <1>3, <1>4 DEF Jobs, Ending, SuccessMeans, Flushing
  <1>13. Countdown'
    <2>1. \A r, s : Owing(r, s)' = Owing(r, s)
      BY <1>3, <1>4 DEF Owing
    <2>2. (here + 1) - 1 = here
      BY <1>6
    <2> SUFFICES ASSUME NEW r \in DOMAIN shards', NEW s \in Shards,
                        shards'[r][s].state = "open"
                 PROVE  /\ shards'[r][s].unwritten = Cardinality(Owing(r - 1, s))
                        /\ shards'[r][s].unwritten > 0
      BY <1>4, <2>1 DEF Countdown
    <2>3. CASE r \in 1 .. here
      BY <1>1, <1>7, <2>3 DEF Countdown
    <2>4. CASE r = here + 1
      BY <1>7, <1>8, <2>2, <2>4
    <2> QED
      BY <1>6, <1>7, <2>3, <2>4
  <1>14. StillOpen'
    <2>1. ASSUME NEW i \in Running
          PROVE  ShardOf(i)'.state = "open"
      <3>1. i \in DOMAIN sent
        BY <1>1, <1>2 DEF Running, TypeOK
      <3>2. sent[i].row + 1 \in 1 .. here
        BY <1>6, <3>1
      <3> QED
        BY <1>1, <1>2, <1>3, <1>7, <2>1, <3>2 DEF StillOpen, ShardOf
    <2>2. \A s \in Shards : shards'[here + 1][s].state = "open"
      BY <1>7
    <2> QED
      BY <1>2, <1>4, <2>1, <2>2 DEF StillOpen
  <1>15. BadLostOne'
    <2>1. \A r, s : LostOne(r, s)' <=> LostOne(r, s)
      BY <1>2, <1>3 DEF LostOne
    <2> SUFFICES ASSUME NEW r \in DOMAIN shards', NEW s \in Shards,
                        shards'[r][s].state = "bad"
                 PROVE  LostOne(r, s)
      BY <1>4, <2>1 DEF BadLostOne
    <2>2. r # here + 1
      BY <1>7
    <2>3. r \in 1 .. here
      BY <1>6, <1>7, <2>2
    <2> QED
      BY <1>1, <1>2, <1>7, <2>3 DEF BadLostOne
  <1> QED
    BY <1>5, <1>9, <1>10, <1>11, <1>12, <1>13, <1>14, <1>15 DEF IInv

LEMMA MakeShardsThrowsKeeps ==
    ASSUME IInv, MakeShardsThrows
    PROVE  IInv'
  <1>1. /\ pc = "make" /\ pc' = "failed" /\ error' = (error \/ ~closing)
        /\ UNCHANGED <<dims, single, accepting, frameVars, flushVars, shards, todo,
                       jobVars, closing, result>>
    BY DEF MakeShardsThrows
  <1>2. /\ UNCHANGED <<flushed_bands, append_chunk_index, current_layer, live, sent, ended,
                       pending, frames_written, frames_to_flush, chunks>>
        /\ (error => error')
    BY <1>1 DEF flushVars, jobVars, frameVars
  <1>3. Counters' /\ Dispatched' /\ Filling' /\ FramesInTheirPlace'
    BY <1>1, <1>2, FlushKeeps DEF Flushing
  <1>4. UpToHere' /\ Jobs' /\ Countdown' /\ StillOpen' /\ BadLostOne' /\ SuccessMeans'
    BY <1>1, <1>2, QuietKeeps
  <1>5. TypeOK'
    <2>1. TypeOK
      BY DEF IInv
    <2>2. /\ Bands' = Bands /\ ChunkSlots' = ChunkSlots /\ Shards' = Shards
          /\ \A s : ChunksPerShard(s)' = ChunksPerShard(s)
      BY <1>1 DEF Bands, ChunkSlots, Shards, ChunksPerShard, SlotsOf
    <2>3. error' \in BOOLEAN
      BY <1>1, <2>1 DEF TypeOK
    <2> QED
      BY <1>1, <1>2, <2>1, <2>2, <2>3 DEF TypeOK
  <1>6. Rows' /\ Ending'
    BY <1>1, <1>2 DEF IInv, Rows, Ending, Flushing
  <1> QED
    BY <1>3, <1>4, <1>5, <1>6 DEF IInv

LEMMA FlushEndsKeeps ==
    ASSUME IInv, FlushEnds
    PROVE  IInv'
  <1>1. /\ pc = "dispatch" /\ todo = {} /\ pc' = "flushed"
        /\ UNCHANGED <<dims, single, streamVars, frameVars, flushVars, shards, todo,
                       jobVars, closing, result>>
    BY DEF FlushEnds
  <1>2. UNCHANGED <<flushed_bands, append_chunk_index, current_layer, live, sent, ended, pending,
                    frames_written, frames_to_flush, chunks, error, accepting>>
    BY <1>1 DEF flushVars, jobVars, frameVars, streamVars
  <1>3. Counters' /\ Dispatched' /\ Filling' /\ FramesInTheirPlace'
    BY <1>1, <1>2, FlushKeeps DEF Flushing
  <1>4. UpToHere' /\ Jobs' /\ Countdown' /\ StillOpen' /\ BadLostOne' /\ SuccessMeans'
    BY <1>1, <1>2, QuietKeeps
  <1>5. TypeOK'
    <2>1. TypeOK
      BY DEF IInv
    <2>2. /\ Bands' = Bands /\ ChunkSlots' = ChunkSlots /\ Shards' = Shards
          /\ \A s : ChunksPerShard(s)' = ChunksPerShard(s)
      BY <1>1 DEF Bands, ChunkSlots, Shards, ChunksPerShard, SlotsOf
    <2> QED
      BY <1>1, <1>2, <2>1, <2>2 DEF TypeOK
  <1>6. Rows' /\ Ending'
    BY <1>1, <1>2 DEF IInv, Rows, Ending, Flushing
  <1> QED
    BY <1>3, <1>4, <1>5, <1>6 DEF IInv

LEMMA DispatchJobKeeps ==
    ASSUME IInv, NEW slot \in todo, DispatchJob(slot)
    PROVE  IInv'
  <1> DEFINE here == append_chunk_index
             n == Len(sent) + 1
             load == IF slot \in ChunkSlots THEN chunks[slot] ELSE {}
             job == [row |-> here, layer |-> current_layer, slot |-> slot, frames |-> load]
             mark == [how |-> "pending", inline |-> ~OnPool]
  <1>1. TypeOK /\ Counters /\ Dispatched /\ Filling /\ UpToHere /\ FramesInTheirPlace
        /\ Rows /\ Jobs /\ Ending /\ Countdown /\ StillOpen /\ BadLostOne
    BY DEF IInv
  <1>2. /\ pc = "dispatch" /\ todo' = todo \ {slot} /\ chunks' = Taken(slot)
        /\ sent' = Append(sent, job) /\ ended' = Append(ended, mark)
        /\ pending' = (IF OnPool THEN pending \cup {Len(sent')} ELSE pending)
        /\ pc' = (IF OnPool THEN "dispatch" ELSE "inline")
        /\ UNCHANGED <<dims, single, streamVars, frames_written, frames_to_flush,
                       flushVars, shards, closing, result>>
    BY DEF DispatchJob
  <1>3. /\ append_chunk_index' = here /\ current_layer' = current_layer
        /\ flushed_bands' = flushed_bands /\ live' = live
        /\ error' = error /\ accepting' = accepting
    BY <1>2 DEF flushVars, streamVars
  <1>4. /\ Slots' = Slots /\ ChunkSlots' = ChunkSlots /\ Layers' = Layers /\ Shards' = Shards
        /\ Bands' = Bands /\ LayersBefore' = LayersBefore /\ Due' = Due
        /\ Flushing /\ Flushing' /\ pc' # "closed" /\ pc' # "idle" /\ pc' # "failed"
        /\ \A s : SlotsOf(s)' = SlotsOf(s) /\ ChunksPerShard(s)' = ChunksPerShard(s)
    BY <1>2, <1>3 DEF Slots, ChunkSlots, Layers, Shards, Bands, LayersBefore, Due, Flushing,
                      SlotsOf, ChunksPerShard
  <1>5. /\ slot \in Slots /\ ~Gone(slot) /\ live /\ here \in Nat /\ current_layer \in Layers
        /\ Len(shards) = here + 1 /\ dims \in Geometries /\ result = "none"
        /\ dims.shard[slot] \in Shards /\ slot \in SlotsOf(dims.shard[slot])
    BY <1>1, <1>2, <1>4
       DEF TypeOK, Slots, Layers, Dispatched, Rows, Ending, Shards, SlotsOf
  <1>6. load \subseteq 0 .. MaxFrames /\ (slot \in ChunkSlots => load = chunks[slot])
    BY <1>1 DEF TypeOK
  <1> HIDE DEF load
  <1>7. /\ job \in [row : Nat, layer : Layers, slot : Slots, frames : SUBSET (0 .. MaxFrames)]
        /\ mark \in [how : {"pending", "landed", "lost"}, inline : BOOLEAN]
    BY <1>1, <1>5, <1>6 DEF OnPool, TypeOK
  <1> HIDE DEF job, mark
  <1>8. /\ Len(sent) \in Nat /\ n \in Nat /\ n \notin DOMAIN sent
        /\ DOMAIN sent = 1 .. Len(sent) /\ DOMAIN sent' = DOMAIN sent \cup {n}
        /\ Len(sent') = n /\ Len(ended') = n
        /\ sent'[n] = job /\ ended'[n] = mark
        /\ \A i \in DOMAIN sent : sent'[i] = sent[i] /\ ended'[i] = ended[i]
    BY <1>1, <1>2 DEF TypeOK
  <1>9. /\ job.row = here /\ job.layer = current_layer /\ job.slot = slot /\ job.frames = load
        /\ mark.how = "pending" /\ mark.inline = ~OnPool
    BY DEF job, mark
  <1> HIDE DEF n
  <1>10. \A r, layer, x : SentTo(r, layer, x)' <=>
            SentTo(r, layer, x) \/ (r = here /\ layer = current_layer /\ x = slot)
    BY <1>8, <1>9 DEF SentTo
  <1>11. \A x : Gone(x)' <=> Gone(x) \/ x = slot
    BY <1>3, <1>10 DEF Gone
  <1>12. TypeOK'
    <2>1. sent' \in Seq([row : Nat, layer : Layers, slot : Slots,
                         frames : SUBSET (0 .. MaxFrames)])
      BY <1>1, <1>2, <1>7 DEF TypeOK, Layers, Slots
    <2>2. ended' \in Seq([how : {"pending", "landed", "lost"}, inline : BOOLEAN])
      BY <1>1, <1>2, <1>7 DEF TypeOK
    <2>3. chunks' \in [ChunkSlots -> SUBSET (0 .. MaxFrames)]
      BY <1>1, <1>2 DEF TypeOK, Taken
    <2>4. pending' \subseteq DOMAIN sent' /\ todo' \subseteq Slots /\ Len(ended') = Len(sent')
      BY <1>1, <1>2, <1>8 DEF TypeOK, Slots
    <2>5. pc' \in {"idle", "make", "dispatch", "inline", "flushed", "failed", "closed"}
      BY <1>2
    <2> QED
      BY <1>1, <1>2, <1>3, <1>4, <2>1, <2>2, <2>3, <2>4, <2>5 DEF TypeOK, Layers, Slots
  <1>13. Counters'
    BY <1>1, <1>2, <1>3, <1>4 DEF Counters
  <1>14. Dispatched'
    <2>1. \A x \in Slots : /\ x \in Due <=> x \in todo \/ Gone(x)
                           /\ ~(x \in todo /\ Gone(x))
      BY <1>1, <1>4 DEF Dispatched
    <2>2. pc' \notin {"idle", "flushed"}
      BY <1>2
    <2> QED
      BY <1>2, <1>4, <1>11, <2>1, <2>2 DEF Dispatched
  <1>15. \A r, layer, x : FramesOf(r, layer, x)' = FramesOf(r, layer, x)
    <2>1. \A f : Row(f)' = Row(f) /\ Layer(f)' = Layer(f) /\ Touched(f)' = Touched(f)
      BY <1>2, <1>4 DEF Row, Layer, Touched
    <2> QED
      BY <1>2, <2>1 DEF FramesOf
  <1>16. Filling'
    <2> SUFFICES ASSUME NEW x \in ChunkSlots
                 PROVE  chunks'[x] = IF Gone(x)' THEN {}
                                     ELSE FramesOf(here, current_layer, x)
      BY <1>3, <1>4, <1>15 DEF Filling
    <2>1. chunks[x] = IF Gone(x) THEN {} ELSE FramesOf(here, current_layer, x)
      BY <1>1, <1>4 DEF Filling
    <2>2. chunks'[x] = IF x = slot THEN {} ELSE chunks[x]
      BY <1>1, <1>2 DEF Taken, TypeOK
    <2> QED
      BY <1>11, <2>1, <2>2
  <1>17. UpToHere'
    <2>1. \A i \in DOMAIN sent' :
             \/ sent'[i].row < here
             \/ sent'[i].row = here /\ sent'[i].layer <= current_layer
      <3>1. current_layer <= current_layer
        BY <1>5 DEF Layers
      <3> QED
        BY <1>1, <1>8, <1>9, <3>1 DEF UpToHere
    <2>2. \A r \in 0 .. here, layer \in Layers, x \in Slots :
             r < here \/ layer < current_layer => SentTo(r, layer, x)'
      BY <1>1, <1>10 DEF UpToHere
    <2>3. ASSUME NEW i \in DOMAIN sent', NEW j \in DOMAIN sent', i # j
          PROVE  Place(sent'[i]) # Place(sent'[j])
      <3>1. \A k \in DOMAIN sent : Place(sent[k]) # Place(job)
        BY <1>5, <1>9 DEF Place, Gone, SentTo
      <3> QED
        BY <1>1, <1>8, <2>3, <3>1 DEF UpToHere
    <2> QED
      BY <1>3, <1>4, <2>1, <2>2, <2>3 DEF UpToHere, Place
  <1>18. FramesInTheirPlace'
    <2> SUFFICES ASSUME NEW i \in DOMAIN sent', sent'[i].slot \in ChunkSlots
                 PROVE  sent'[i].frames =
                           FramesOf(sent'[i].row, sent'[i].layer, sent'[i].slot)
      BY <1>4, <1>15 DEF FramesInTheirPlace
    <2>1. CASE i \in DOMAIN sent
      BY <1>1, <1>8, <2>1 DEF FramesInTheirPlace
    <2>2. CASE i = n
      BY <1>1, <1>4, <1>5, <1>6, <1>8, <1>9, <2>2 DEF Filling
    <2> QED
      BY <1>8, <2>1, <2>2
  <1>19. Rows'
    <2>1. \A i \in DOMAIN sent' : sent'[i].row < Len(shards)
      <3>1. here < Len(shards)
        BY <1>5
      <3> QED
        BY <1>1, <1>8, <1>9, <3>1 DEF Rows
    <2>2. pc' \in {"dispatch", "inline"}
      BY <1>2
    <2> QED
      BY <1>2, <1>3, <1>5, <2>1, <2>2 DEF Rows
  <1>20. Running' = Running \cup {n} /\ Running = pending /\ pending \subseteq DOMAIN sent
    BY <1>1, <1>2, <1>8 DEF Running, TypeOK
  <1>21. Jobs'
    <2>1. \A i \in DOMAIN sent' : ended'[i].how = "pending" <=> i \in Running'
      BY <1>1, <1>8, <1>9, <1>20 DEF Jobs
    <2>2. pc' = "inline" => n \in DOMAIN sent' \ pending' /\ ended'[n].inline
      BY <1>2, <1>8, <1>9, <1>20
    <2>3. ASSUME NEW i \in pending'
          PROVE  ~ended'[i].inline
      <3>1. CASE i \in pending
        BY <1>1, <1>8, <1>20, <3>1 DEF Jobs
      <3>2. CASE i \notin pending
        BY <1>2, <1>8, <1>9, <2>3, <3>2
      <3> QED
        BY <3>1, <3>2
    <2>4. \A i \in DOMAIN sent' : ended'[i].how = "lost" /\ ~ended'[i].inline => error
      BY <1>1, <1>8, <1>9 DEF Jobs
    <2> QED
      BY <1>3, <1>8, <2>1, <2>2, <2>3, <2>4 DEF Jobs
  <1>22. Ending'
    <2>1. closing => pending' = {}
      BY <1>1, <1>2 DEF Ending, OnPool
    <2> QED
      BY <1>1, <1>2, <1>3, <1>4, <1>5, <2>1 DEF Ending
  <1>23. Countdown'
    <2>1. ASSUME NEW r, NEW s
          PROVE  Owing(r, s)' = Owing(r, s)
      <3>1. \A p : (\E i \in DOMAIN sent' : /\ sent'[i].row = r /\ sent'[i].layer = p[1]
                                            /\ sent'[i].slot = p[2] /\ ended'[i].how = "landed")
                   <=> (\E i \in DOMAIN sent : /\ sent[i].row = r /\ sent[i].layer = p[1]
                                               /\ sent[i].slot = p[2]
                                               /\ ended[i].how = "landed")
        BY <1>8, <1>9
      <3> QED
        BY <1>4, <3>1 DEF Owing
    <2> QED
      BY <1>1, <1>2, <1>4, <2>1 DEF Countdown
  <1>24. StillOpen'
    <2>1. shards[here + 1][dims.shard[slot]].state = "open"
      BY <1>1, <1>5 DEF StillOpen, Gone
    <2>4. shards' = shards /\ dims' = dims
      BY <1>2
    <2>2. ASSUME NEW i \in Running'
          PROVE  ShardOf(i)'.state = "open"
      <3>1. CASE i = n
        <4>1. sent'[i].row = here /\ sent'[i].slot = slot
          BY <1>8, <1>9, <3>1
        <4> QED
          BY <2>1, <2>4, <4>1 DEF ShardOf
      <3>2. CASE i \in Running
        <4>1. sent'[i] = sent[i]
          BY <1>8, <1>20, <3>2
        <4>2. ShardOf(i)' = ShardOf(i)
          BY <2>4, <4>1 DEF ShardOf
        <4> QED
          BY <1>1, <3>2, <4>2 DEF StillOpen
      <3> QED
        BY <1>20, <3>1, <3>2
    <2>3. ASSUME NEW s \in Shards, shards[here + 1][s].state # "open"
          PROVE  \A layer \in Layers, x \in SlotsOf(s) : SentTo(here, layer, x)'
      <3>1. \A layer \in Layers, x \in SlotsOf(s) : SentTo(here, layer, x)
        BY <1>1, <1>5, <2>3 DEF StillOpen
      <3> QED
        BY <1>3, <1>8, <3>1 DEF SentTo
    <2> QED
      BY <1>2, <1>3, <1>4, <2>2, <2>3 DEF StillOpen
  <1>25. BadLostOne'
    <2>1. \A r, s : LostOne(r, s) => LostOne(r, s)'
      BY <1>2, <1>8 DEF LostOne
    <2> QED
      BY <1>1, <1>2, <1>4, <2>1 DEF BadLostOne
  <1>26. SuccessMeans'
    BY <1>2, <1>5 DEF SuccessMeans
  <1> QED
    BY <1>12, <1>13, <1>14, <1>16, <1>17, <1>18, <1>19, <1>21, <1>22, <1>23, <1>24, <1>25,
       <1>26 DEF IInv
-----------------------------------------------------------------------------
(* Jobs that run *)

\* A job that runs is on a shard that is open and owed its chunk, the countdown
\* of that shard counts what it is owed, and a job that takes it to zero is the
\* last one.
LEMMA RunningJob ==
    ASSUME IInv, NEW i \in Running
    PROVE  /\ i \in DOMAIN sent /\ pc # "closed" /\ ended[i].how = "pending"
           /\ sent[i].row + 1 \in DOMAIN shards /\ sent[i].row \in Nat
           /\ dims.shard[sent[i].slot] \in Shards
           /\ ShardOf(i) \in [unwritten : Nat, state : {"open", "ok", "bad"}]
           /\ ShardOf(i).state = "open" /\ ShardOf(i).unwritten > 0
           /\ LET owed == Owing(sent[i].row, dims.shard[sent[i].slot])
                  own == <<sent[i].layer, sent[i].slot>>
              IN  /\ IsFiniteSet(owed) /\ own \in owed
                  /\ ShardOf(i).unwritten = Cardinality(owed)
                  /\ ShardOf(i).unwritten = 1 => owed = {own}
  <1> DEFINE s == dims.shard[sent[i].slot]
             owed == Owing(sent[i].row, s)
             own == <<sent[i].layer, sent[i].slot>>
  <1>1. TypeOK /\ UpToHere /\ Rows /\ Jobs /\ Ending /\ Countdown /\ StillOpen
    BY DEF IInv
  <1>2. i \in DOMAIN sent /\ pc # "closed"
    <2>1. CASE i \in pending
      BY <1>1, <2>1 DEF TypeOK, Ending
    <2>2. CASE pc = "inline" /\ i = Len(sent)
      BY <1>1, <2>2 DEF Jobs
    <2> QED
      BY <2>1, <2>2 DEF Running
  <1>3. ended[i].how = "pending"
    BY <1>1, <1>2 DEF Jobs
  <1>4. /\ sent[i].row \in Nat /\ sent[i].layer \in Layers /\ sent[i].slot \in Slots
        /\ s \in Shards /\ sent[i].slot \in SlotsOf(s)
    BY <1>1, <1>2, JobTypes
  <1>5. sent[i].row + 1 \in DOMAIN shards
    <2>1. sent[i].row < Len(shards)
      BY <1>1, <1>2 DEF Rows
    <2>2. DOMAIN shards = 1 .. Len(shards) /\ Len(shards) \in Nat
      BY <1>1 DEF TypeOK
    <2> QED
      BY <1>4, <2>1, <2>2
  <1>6. ShardOf(i) \in [unwritten : Nat, state : {"open", "ok", "bad"}]
    BY <1>1, <1>4, <1>5, ShardTypes DEF ShardOf
  <1>7. ShardOf(i).state = "open"
    BY <1>1 DEF StillOpen
  <1>8. ShardOf(i).unwritten = Cardinality(owed) /\ ShardOf(i).unwritten > 0
    <2>1. (sent[i].row + 1) - 1 = sent[i].row
      BY <1>4
    <2> QED
      BY <1>1, <1>4, <1>5, <1>7, <2>1 DEF Countdown, ShardOf
  <1>9. IsFiniteSet(owed)
    <2>1. IsFiniteSet(Layers \X SlotsOf(s))
      <3>1. IsFiniteSet(SlotsOf(s))
        BY <1>1, GeometryFacts, FS_Subset DEF SlotsOf, Slots, TypeOK
      <3>2. dims.layers_per_shard \in Nat \ {0}
        BY <1>1, GeometryFacts DEF TypeOK
      <3>3. 0 \in Int /\ dims.layers_per_shard - 1 \in Int
        BY <3>2
      <3>4. IsFiniteSet(Layers)
        BY <3>3, FS_Interval DEF Layers
      <3> QED
        BY <3>1, <3>4, FS_Product
    <2>2. owed \subseteq Layers \X SlotsOf(s)
      BY DEF Owing
    <2> QED
      BY <2>1, <2>2, FS_Subset
  <1>10. own \in owed
    <2>1. ASSUME NEW j \in DOMAIN sent, sent[j].row = sent[i].row,
                 sent[j].layer = sent[i].layer, sent[j].slot = sent[i].slot
          PROVE  ended[j].how # "landed"
      <3>1. Place(sent[j]) = Place(sent[i])
        BY <2>1 DEF Place
      <3>2. j = i
        BY <1>1, <1>2, <3>1 DEF UpToHere
      <3> QED
        BY <1>3, <3>2
    <2>2. own \in Layers \X SlotsOf(s) /\ own[1] = sent[i].layer /\ own[2] = sent[i].slot
      BY <1>4
    <2> QED
      BY <2>1, <2>2 DEF Owing
  <1>11. ShardOf(i).unwritten = 1 => owed = {own}
    <2> HIDE DEF owed, own
    <2>1. ASSUME Cardinality(owed) = 1 PROVE owed = {own}
      <3>1. PICK x : owed = {x}
        BY <1>9, <2>1, FS_Singleton
      <3> QED
        BY <1>10, <3>1
    <2> QED
      BY <1>8, <2>1
  <1> QED
    BY <1>2, <1>3, <1>4, <1>5, <1>6, <1>7, <1>8, <1>9, <1>10, <1>11

\* What a job does to its shard, and how it ends.
JobShard(i) == dims.shard[sent[i].slot]
After(i, landed, ok) == ShardAfter(ShardOf(i), landed, ok)
How(i, landed, ok) ==
    IF landed /\ After(i, landed, ok).state # "bad" THEN "landed" ELSE "lost"

LEMMA RunJobDoes ==
    ASSUME IInv, NEW i \in Running, NEW landed \in BOOLEAN, NEW ok \in BOOLEAN,
           RunJob(i, landed, ok)
    PROVE  /\ shards' \in Seq([Shards -> [unwritten : Nat, state : {"open", "ok", "bad"}]])
           /\ Len(shards') = Len(shards) /\ DOMAIN shards' = DOMAIN shards
           /\ \A q \in DOMAIN shards, t \in Shards :
                 shards'[q][t] = IF q = sent[i].row + 1 /\ t = JobShard(i)
                                 THEN After(i, landed, ok) ELSE shards[q][t]
           /\ After(i, landed, ok).unwritten \in Nat
           /\ After(i, landed, ok).unwritten <= ShardOf(i).unwritten
           /\ ended' \in Seq([how : {"pending", "landed", "lost"}, inline : BOOLEAN])
           /\ Len(ended') = Len(ended)
           /\ ended'[i].how = How(i, landed, ok) /\ ended'[i].inline = ended[i].inline
           /\ \A j \in DOMAIN sent \ {i} : ended'[j] = ended[j]
  <1> DEFINE r == sent[i].row + 1
             s == JobShard(i)
             after == After(i, landed, ok)
             ShardSet == [unwritten : Nat, state : {"open", "ok", "bad"}]
             EndSet == [how : {"pending", "landed", "lost"}, inline : BOOLEAN]
             newRow == [shards[r] EXCEPT ![s] = after]
             end == [ended[i] EXCEPT !.how = How(i, landed, ok)]
  <1>1. TypeOK
    BY DEF IInv
  <1>2. /\ i \in DOMAIN sent /\ r \in DOMAIN shards /\ s \in Shards
        /\ ShardOf(i) \in ShardSet /\ ShardOf(i).unwritten > 0 /\ ShardOf(i) = shards[r][s]
    BY RunningJob DEF JobShard, ShardOf
  <1>3. after \in ShardSet /\ after.unwritten <= ShardOf(i).unwritten
    BY <1>2 DEF ShardAfter, After
  <1>4. shards[r] \in [Shards -> ShardSet]
    BY <1>1, <1>2, ShardTypes
  <1>5. newRow \in [Shards -> ShardSet]
        /\ \A t \in Shards : newRow[t] = IF t = s THEN after ELSE shards[r][t]
    BY <1>2, <1>3, <1>4
  <1>6. shards \in Seq([Shards -> ShardSet]) /\ r \in 1 .. Len(shards)
        /\ DOMAIN shards = 1 .. Len(shards)
    <2>1. shards \in Seq([Shards -> ShardSet])
      BY <1>1 DEF TypeOK
    <2> HIDE DEF ShardSet
    <2>2. DOMAIN shards = 1 .. Len(shards)
      BY <2>1
    <2> QED
      BY <1>2, <2>1, <2>2
  <1>7. shards' = [shards EXCEPT ![r] = newRow]
    BY <1>2 DEF RunJob, After, ShardOf, JobShard
  <1> HIDE DEF newRow, after, ShardSet, r, s
  <1>8. /\ shards' \in Seq([Shards -> ShardSet]) /\ Len(shards') = Len(shards)
        /\ \A q \in 1 .. Len(shards) : shards'[q] = IF q = r THEN newRow ELSE shards[q]
    BY <1>5, <1>6, <1>7, ExceptSeq
  <1>9. DOMAIN shards' = DOMAIN shards
    BY <1>6, <1>8
  <1>10. \A q \in DOMAIN shards, t \in Shards :
            shards'[q][t] = IF q = r /\ t = s THEN after ELSE shards[q][t]
    BY <1>5, <1>6, <1>8
  <1>11. shards'[sent[i].row + 1][dims.shard[sent[i].slot]] = after
    <2>1. r \in DOMAIN shards /\ s \in Shards
      BY <1>2
    <2>2. shards'[r][s] = after
      BY <1>10, <2>1
    <2> QED
      BY <2>2 DEF r, s, JobShard
  <1>12. ended' = [ended EXCEPT ![i].how = IF landed /\ after.state # "bad"
                                           THEN "landed" ELSE "lost"]
    BY <1>11 DEF RunJob
  <1>13. ended \in Seq(EndSet) /\ i \in 1 .. Len(ended) /\ DOMAIN sent = 1 .. Len(ended)
         /\ ended[i] \in EndSet
    <2>1. ended \in Seq(EndSet) /\ Len(ended) = Len(sent)
      BY <1>1 DEF TypeOK
    <2>2. DOMAIN sent = 1 .. Len(sent)
      BY <1>1 DEF TypeOK
    <2> HIDE DEF EndSet
    <2> QED
      BY <1>2, <2>1, <2>2
  <1>14. end \in EndSet /\ end.how = How(i, landed, ok) /\ end.inline = ended[i].inline
    BY <1>13 DEF How
  <1>15. ended' = [ended EXCEPT ![i] = end]
    BY <1>12 DEF How, after
  <1> HIDE DEF end, EndSet
  <1>16. /\ ended' \in Seq(EndSet) /\ Len(ended') = Len(ended)
         /\ \A j \in 1 .. Len(ended) : ended'[j] = IF j = i THEN end ELSE ended[j]
    BY <1>13, <1>14, <1>15, ExceptSeq
  <1>17. ended'[i] = end /\ \A j \in DOMAIN sent \ {i} : ended'[j] = ended[j]
    BY <1>13, <1>16
  <1>18. after.unwritten \in Nat
    BY <1>3 DEF ShardSet
  <1> QED
    BY <1>3, <1>8, <1>9, <1>10, <1>14, <1>16, <1>17, <1>18
       DEF r, s, after, ShardSet, EndSet

\* A shard that the last of its jobs has finalized is owed nothing more, one that
\* is still open one chunk less if the chunk landed.
LEMMA JobRunsKeeps ==
    ASSUME IInv, NEW i \in Running, NEW landed \in BOOLEAN, NEW ok \in BOOLEAN,
           RunJob(i, landed, ok),
           UNCHANGED <<dims, sent, append_chunk_index, current_layer, live, result>>,
           Running' = Running \ {i}, pc' # "closed"
    PROVE  /\ UpToHere' /\ Countdown' /\ StillOpen' /\ BadLostOne' /\ SuccessMeans'
           /\ \A j \in DOMAIN sent : ended'[j].how = "pending" <=> j \in Running'
  <1> DEFINE row == sent[i].row
             s == JobShard(i)
             own == <<sent[i].layer, sent[i].slot>>
             owed == Owing(row, s)
             after == After(i, landed, ok)
             how == How(i, landed, ok)
  <1>1. TypeOK /\ UpToHere /\ Rows /\ Jobs /\ Ending /\ Countdown /\ StillOpen /\ BadLostOne
    BY DEF IInv
  <1>2. /\ DOMAIN shards' = DOMAIN shards
        /\ \A q \in DOMAIN shards, t \in Shards :
              shards'[q][t] = IF q = row + 1 /\ t = s THEN after ELSE shards[q][t]
        /\ ended'[i].how = how
        /\ \A j \in DOMAIN sent \ {i} : ended'[j] = ended[j]
    BY RunJobDoes
  <1>3. /\ i \in DOMAIN sent /\ pc # "closed" /\ ended[i].how = "pending"
        /\ row + 1 \in DOMAIN shards /\ row \in Nat /\ s \in Shards
        /\ ShardOf(i).state = "open" /\ ShardOf(i).unwritten \in Nat
        /\ ShardOf(i).unwritten > 0
    BY RunningJob DEF JobShard
  <1>4. /\ IsFiniteSet(owed) /\ own \in owed
        /\ ShardOf(i).unwritten = Cardinality(owed)
        /\ ShardOf(i).unwritten = 1 => owed = {own}
    BY RunningJob DEF JobShard
  <1>5. /\ how \in {"landed", "lost"}
        /\ ~landed => how = "lost" /\ after = ShardOf(i)
        /\ landed => /\ after.unwritten = ShardOf(i).unwritten - 1
                     /\ ShardOf(i).unwritten # 1 => after.state = "open" /\ how = "landed"
                     /\ ShardOf(i).unwritten = 1 => after.state # "open"
        /\ after.state = "bad" => how = "lost"
    BY <1>3 DEF How, After, ShardAfter
  <1>6. /\ sent' = sent /\ Slots' = Slots /\ Layers' = Layers /\ Shards' = Shards
        /\ \A t : SlotsOf(t)' = SlotsOf(t)
    BY DEF Slots, Layers, Shards, SlotsOf
  <1>7. \A q, layer, slot : SentTo(q, layer, slot)' <=> SentTo(q, layer, slot)
    BY <1>6 DEF SentTo
  <1> HIDE DEF after, how
  <1>8. ASSUME NEW q, NEW t
        PROVE  Owing(q, t)' = IF how = "landed" /\ q = row THEN Owing(q, t) \ {own}
                              ELSE Owing(q, t)
    <2>1. ASSUME NEW p \in Layers \X SlotsOf(t)
          PROVE  (\E j \in DOMAIN sent : /\ sent[j].row = q /\ sent[j].layer = p[1]
                                         /\ sent[j].slot = p[2] /\ ended'[j].how = "landed")
                 <=> \/ (\E j \in DOMAIN sent : /\ sent[j].row = q /\ sent[j].layer = p[1]
                                                /\ sent[j].slot = p[2]
                                                /\ ended[j].how = "landed")
                     \/ how = "landed" /\ q = row /\ p = own
      <3>1. p = own <=> p[1] = sent[i].layer /\ p[2] = sent[i].slot
        OBVIOUS
      <3> QED
        BY <1>2, <1>3, <3>1
    <2>2. Owing(q, t)' = {p \in Layers \X SlotsOf(t) :
             ~\E j \in DOMAIN sent : /\ sent[j].row = q /\ sent[j].layer = p[1]
                                     /\ sent[j].slot = p[2] /\ ended'[j].how = "landed"}
      BY <1>6 DEF Owing
    <2> QED
      BY <2>1, <2>2 DEF Owing
  <1>9. ASSUME NEW q, NEW t, t # s
        PROVE  Owing(q, t)' = Owing(q, t)
    <2>1. own \notin Owing(q, t)
      BY <1>9 DEF Owing, SlotsOf, JobShard
    <2> QED
      BY <1>8, <2>1
  <1>10. UpToHere'
    BY <1>1, <1>6, <1>7 DEF UpToHere, Place
  <1>11. Countdown'
    <2> SUFFICES ASSUME NEW q \in DOMAIN shards, NEW t \in Shards,
                        shards'[q][t].state = "open"
                 PROVE  /\ shards'[q][t].unwritten = Cardinality(Owing(q - 1, t)')
                        /\ shards'[q][t].unwritten > 0
      BY <1>2, <1>6 DEF Countdown
    <2>1. CASE q = row + 1 /\ t = s
      <3>1. q - 1 = row /\ shards'[q][t] = after
        BY <1>2, <1>3, <2>1
      <3>2. CASE landed
        <4>1. ShardOf(i).unwritten # 1 /\ how = "landed"
          BY <1>5, <3>1, <3>2
        <4>2. Owing(q - 1, t)' = owed \ {own}
          BY <1>8, <2>1, <3>1, <4>1
        <4> HIDE DEF own, owed
        <4>3. Cardinality(owed \ {own}) = Cardinality(owed) - 1
          BY <1>4, FS_RemoveElement
        <4>4. PICK m \in Nat : m = ShardOf(i).unwritten /\ m # 1 /\ m > 0
          BY <1>3, <4>1
        <4>5. Cardinality(Owing(q - 1, t)') = m - 1
          BY <1>4, <4>2, <4>3, <4>4
        <4>6. shards'[q][t].unwritten = m - 1
          BY <1>5, <3>1, <3>2, <4>4
        <4> QED
          BY <4>4, <4>5, <4>6
      <3>3. CASE ~landed
        <4>1. Owing(q - 1, t)' = owed
          BY <1>5, <1>8, <2>1, <3>1, <3>3
        <4> QED
          BY <1>3, <1>4, <1>5, <3>1, <3>3, <4>1
      <3> QED
        BY <3>2, <3>3
    <2>2. CASE q # row + 1
      <3>1. q \in Int /\ q - 1 # row
        <4>1. q \in Nat
          BY <1>1, ShardTypes
        <4> QED
          BY <1>3, <2>2, <4>1
      <3>2. Owing(q - 1, t)' = Owing(q - 1, t) /\ shards'[q][t] = shards[q][t]
        BY <1>2, <1>8, <2>2, <3>1
      <3> QED
        BY <1>1, <3>2 DEF Countdown
    <2>3. CASE t # s
      <3>1. Owing(q - 1, t)' = Owing(q - 1, t) /\ shards'[q][t] = shards[q][t]
        BY <1>2, <1>9, <2>3
      <3> QED
        BY <1>1, <3>1 DEF Countdown
    <2> QED
      BY <2>1, <2>2, <2>3
  <1>12. after.state # "open" => /\ ShardOf(i).unwritten = 1 /\ owed = {own}
    BY <1>3, <1>4, <1>5
  <1>13. StillOpen'
    <2>1. ASSUME NEW j \in Running'
          PROVE  ShardOf(j)'.state = "open"
      <3>1. j \in Running /\ j # i
        OBVIOUS
      <3>2. /\ j \in DOMAIN sent /\ sent[j].row + 1 \in DOMAIN shards
            /\ JobShard(j) \in Shards /\ ShardOf(j).state = "open"
            /\ <<sent[j].layer, sent[j].slot>> \in Owing(sent[j].row, JobShard(j))
            /\ sent[j].row \in Nat
        BY <3>1, RunningJob DEF JobShard
      <3>3. ShardOf(j)' = shards'[sent[j].row + 1][JobShard(j)]
        BY <1>6 DEF ShardOf, JobShard
      <3>4. CASE sent[j].row = row /\ JobShard(j) = s
        <4>1. <<sent[j].layer, sent[j].slot>> # own
          <5>1. Place(sent[j]) # Place(sent[i])
            BY <1>1, <1>3, <3>1, <3>2 DEF UpToHere
          <5> QED
            BY <3>4, <5>1 DEF Place
        <4>2. owed # {own}
          BY <3>2, <3>4, <4>1
        <4>3. after.state = "open"
          BY <1>12, <4>2
        <4> QED
          BY <1>2, <3>2, <3>3, <3>4, <4>3
      <3>5. CASE ~(sent[j].row = row /\ JobShard(j) = s)
        <4>1. ~(sent[j].row + 1 = row + 1 /\ JobShard(j) = s)
          BY <1>3, <3>2, <3>5
        <4>2. ShardOf(j)' = shards[sent[j].row + 1][JobShard(j)]
          BY <1>2, <3>2, <3>3, <4>1
        <4> QED
          BY <3>2, <4>2 DEF ShardOf, JobShard
      <3> QED
        BY <3>4, <3>5
    <2>2. ASSUME live, NEW t \in Shards, shards'[append_chunk_index + 1][t].state # "open",
                 NEW layer \in Layers, NEW slot \in SlotsOf(t)
          PROVE  SentTo(append_chunk_index, layer, slot)
      <3>1. append_chunk_index \in Nat /\ append_chunk_index + 1 \in DOMAIN shards
        BY <1>1, <2>2 DEF TypeOK, Rows
      <3>2. CASE append_chunk_index = row /\ t = s
        <4>1. shards'[append_chunk_index + 1][t] = after
          BY <1>2, <3>1, <3>2
        <4>2. owed = {own}
          BY <1>12, <2>2, <4>1
        <4>3. CASE <<layer, slot>> = own
          BY <1>3, <3>2, <4>3 DEF SentTo
        <4>4. CASE <<layer, slot>> # own
          <5>1. <<layer, slot>> \notin owed
            BY <4>2, <4>4
          <5>2. <<layer, slot>> \in Layers \X SlotsOf(s)
            BY <3>2
          <5> QED
            BY <3>2, <5>1, <5>2 DEF SentTo, Owing
        <4> QED
          BY <4>3, <4>4
      <3>3. CASE ~(append_chunk_index = row /\ t = s)
        <4>1. ~(append_chunk_index + 1 = row + 1 /\ t = s)
          BY <1>3, <3>1, <3>3
        <4>2. shards[append_chunk_index + 1][t].state # "open"
          BY <1>2, <2>2, <3>1, <4>1
        <4> QED
          BY <1>1, <2>2, <4>2 DEF StillOpen
      <3> QED
        BY <3>2, <3>3
    <2>3. live' = live /\ append_chunk_index' = append_chunk_index
      OBVIOUS
    <2>4. \A layer, slot : SentTo(append_chunk_index, layer, slot)' <=>
                           SentTo(append_chunk_index, layer, slot)
      BY <1>6, <2>3 DEF SentTo
    <2> QED
      BY <1>6, <2>1, <2>2, <2>3, <2>4 DEF StillOpen
  <1>14. BadLostOne'
    <2> SUFFICES ASSUME NEW q \in DOMAIN shards, NEW t \in Shards,
                        shards'[q][t].state = "bad"
                 PROVE  \E j \in DOMAIN sent : /\ sent[j].row = q - 1
                                               /\ dims.shard[sent[j].slot] = t
                                               /\ ended'[j].how = "lost"
      BY <1>2, <1>6 DEF BadLostOne, LostOne
    <2>1. CASE q = row + 1 /\ t = s
      <3>1. how = "lost" /\ q - 1 = row
        BY <1>2, <1>3, <1>5, <2>1
      <3> QED
        BY <1>2, <1>3, <2>1, <3>1 DEF JobShard
    <2>2. CASE ~(q = row + 1 /\ t = s)
      <3>1. shards[q][t].state = "bad"
        BY <1>2, <2>2
      <3>2. LostOne(q, t)
        BY <1>1, <1>3, <3>1 DEF BadLostOne
      <3>3. PICK j \in DOMAIN sent : /\ sent[j].row = q - 1 /\ dims.shard[sent[j].slot] = t
                                     /\ ended[j].how = "lost"
        BY <3>2 DEF LostOne
      <3>4. ended'[j].how = "lost"
        BY <1>2, <1>3, <3>3
      <3> QED
        BY <3>3, <3>4
    <2> QED
      BY <2>1, <2>2
  <1>15. SuccessMeans'
    BY <1>1, <1>3 DEF Ending, SuccessMeans
  <1>16. \A j \in DOMAIN sent : ended'[j].how = "pending" <=> j \in Running'
    BY <1>1, <1>2, <1>5 DEF Jobs
  <1> QED
    BY <1>10, <1>11, <1>13, <1>14, <1>15, <1>16

LEMMA JobRunsTypes ==
    ASSUME IInv, NEW i \in Running, NEW landed \in BOOLEAN, NEW ok \in BOOLEAN,
           RunJob(i, landed, ok),
           UNCHANGED <<dims, single, frameVars, flushVars, todo, sent, closing, result>>,
           pending' \subseteq pending, accepting' \in BOOLEAN, error' \in BOOLEAN,
           pc' = pc \/ pc' = "dispatch"
    PROVE  TypeOK'
  <1>1. TypeOK
    BY DEF IInv
  <1>2. /\ shards' \in Seq([Shards -> [unwritten : Nat, state : {"open", "ok", "bad"}]])
        /\ DOMAIN shards' = DOMAIN shards
        /\ \A q \in DOMAIN shards, t \in Shards :
              shards'[q][t] = IF q = sent[i].row + 1 /\ t = JobShard(i)
                              THEN After(i, landed, ok) ELSE shards[q][t]
        /\ After(i, landed, ok).unwritten \in Nat
        /\ After(i, landed, ok).unwritten <= ShardOf(i).unwritten
        /\ ended' \in Seq([how : {"pending", "landed", "lost"}, inline : BOOLEAN])
        /\ Len(ended') = Len(ended)
    BY RunJobDoes
  <1>3. ShardOf(i).unwritten \in Nat /\ sent[i].row + 1 \in DOMAIN shards /\ JobShard(i) \in Shards
    BY RunningJob DEF JobShard
  <1>4. \A s \in Shards : ChunksPerShard(s) \in Nat
    <2> SUFFICES ASSUME NEW s \in Shards PROVE ChunksPerShard(s) \in Nat
      OBVIOUS
    <2>1. IsFiniteSet(SlotsOf(s)) /\ dims.layers_per_shard \in Nat \ {0}
      BY <1>1, GeometryFacts, FS_Subset DEF SlotsOf, Slots, TypeOK
    <2>2. Cardinality(SlotsOf(s)) \in Nat
      BY <2>1, FS_CardinalityType
    <2> QED
      BY <2>1, <2>2 DEF ChunksPerShard
  <1>5. \A q \in DOMAIN shards, t \in Shards : shards'[q][t].unwritten <= ChunksPerShard(t)
    <2> SUFFICES ASSUME NEW q \in DOMAIN shards, NEW t \in Shards
                 PROVE  shards'[q][t].unwritten <= ChunksPerShard(t)
      OBVIOUS
    <2>1. shards[q][t].unwritten <= ChunksPerShard(t) /\ shards[q][t].unwritten \in Nat
      BY <1>1, ShardTypes DEF TypeOK
    <2>2. CASE q = sent[i].row + 1 /\ t = JobShard(i)
      <3>1. shards[q][t] = ShardOf(i)
        BY <2>2 DEF ShardOf, JobShard
      <3> QED
        BY <1>2, <1>3, <1>4, <2>1, <2>2, <3>1
    <2>3. CASE ~(q = sent[i].row + 1 /\ t = JobShard(i))
      BY <1>2, <2>1, <2>3
    <2> QED
      BY <2>2, <2>3
  <1>6. /\ Bands' = Bands /\ ChunkSlots' = ChunkSlots /\ Shards' = Shards
        /\ \A s : ChunksPerShard(s)' = ChunksPerShard(s)
    BY DEF Bands, ChunkSlots, Shards, ChunksPerShard, SlotsOf
  <1>7. UNCHANGED <<flushed_bands, append_chunk_index, current_layer, live, frames_written,
                    frames_to_flush, chunks>>
    BY DEF flushVars, frameVars
  <1> QED
    BY <1>1, <1>2, <1>5, <1>6, <1>7 DEF TypeOK

LEMMA InlineJobKeeps ==
    ASSUME IInv, NEW landed \in BOOLEAN, NEW ok \in BOOLEAN, InlineJob(landed, ok)
    PROVE  IInv'
  <1> DEFINE i == Len(sent)
  <1>1. TypeOK /\ Dispatched /\ Rows /\ Jobs /\ Ending
    BY DEF IInv
  <1>2. /\ pc = "inline" /\ RunJob(i, landed, ok) /\ pc' = "dispatch"
        /\ UNCHANGED <<dims, single, streamVars, frameVars, flushVars, todo, sent,
                       pending, closing, result>>
    BY DEF InlineJob
  <1>3. /\ UNCHANGED <<append_chunk_index, current_layer, live, flushed_bands, error, accepting>>
        /\ i \in Running /\ i \notin pending /\ i \in DOMAIN sent /\ ended[i].inline
    BY <1>1, <1>2 DEF flushVars, streamVars, Running, Jobs
  <1>4. Running' = Running \ {i}
    BY <1>2, <1>3 DEF Running
  <1> HIDE DEF i
  <1>5. /\ UpToHere' /\ Countdown' /\ StillOpen' /\ BadLostOne' /\ SuccessMeans'
        /\ \A j \in DOMAIN sent : ended'[j].how = "pending" <=> j \in Running'
    BY <1>2, <1>3, <1>4, JobRunsKeeps
  <1>6. Counters' /\ Dispatched' /\ Filling' /\ FramesInTheirPlace'
    BY <1>1, <1>2, <1>3, FlushKeeps DEF Flushing
  <1>7. TypeOK'
    <2>1. accepting' \in BOOLEAN /\ error' \in BOOLEAN /\ pending' \subseteq pending
      BY <1>1, <1>2, <1>3 DEF TypeOK
    <2> QED
      BY <1>2, <1>3, <2>1, JobRunsTypes
  <1>8. /\ Len(shards') = Len(shards) /\ ended'[i].inline = ended[i].inline
        /\ \A j \in DOMAIN sent \ {i} : ended'[j] = ended[j]
    BY <1>2, <1>3, RunJobDoes
  <1>9. Rows'
    BY <1>1, <1>2, <1>3, <1>8 DEF Rows
  <1>10. Jobs'
    <2>1. sent' = sent /\ pending' = pending /\ pc' # "inline" /\ error' = error
      BY <1>2, <1>3
    <2>2. \A j \in pending : ~ended'[j].inline
      BY <1>1, <1>3, <1>8 DEF Jobs, TypeOK
    <2>3. \A j \in DOMAIN sent : ended'[j].how = "lost" /\ ~ended'[j].inline => error
      BY <1>1, <1>3, <1>8 DEF Jobs
    <2> QED
      BY <1>5, <2>1, <2>2, <2>3 DEF Jobs
  <1>11. Ending'
    BY <1>1, <1>2, <1>3 DEF Ending, Flushing
  <1> QED
    BY <1>5, <1>6, <1>7, <1>9, <1>10, <1>11 DEF IInv

LEMMA PoolJobKeeps ==
    ASSUME IInv, NEW i \in pending, NEW landed \in BOOLEAN, NEW ok \in BOOLEAN,
           PoolJob(i, landed, ok)
    PROVE  IInv'
  <1>1. TypeOK /\ Dispatched /\ Rows /\ Jobs /\ Ending
    BY DEF IInv
  <1>2. /\ RunJob(i, landed, ok) /\ pending' = pending \ {i}
        /\ accepting' = (accepting /\ ended'[i].how = "landed")
        /\ error' = (error \/ ended'[i].how = "lost")
        /\ UNCHANGED <<dims, single, frameVars, flushVars, todo, sent, pc, closing, result>>
    BY DEF PoolJob
  <1>3. /\ UNCHANGED <<append_chunk_index, current_layer, live, flushed_bands>>
        /\ i \in Running /\ i \in DOMAIN sent /\ ~ended[i].inline /\ (error => error')
        /\ ~closing /\ pc # "closed" /\ (pc = "inline" => Len(sent) # i)
    BY <1>1, <1>2 DEF flushVars, Running, Jobs, Ending, TypeOK
  <1>4. Running' = Running \ {i}
    <2>1. Running' = (pending \ {i}) \cup (IF pc = "inline" THEN {Len(sent)} ELSE {})
      BY <1>2 DEF Running
    <2> QED
      BY <1>3, <2>1 DEF Running
  <1>5. /\ UpToHere' /\ Countdown' /\ StillOpen' /\ BadLostOne' /\ SuccessMeans'
        /\ \A j \in DOMAIN sent : ended'[j].how = "pending" <=> j \in Running'
    BY <1>2, <1>3, <1>4, JobRunsKeeps
  <1>6. Counters' /\ Dispatched' /\ Filling' /\ FramesInTheirPlace'
    <2>1. pc' = "flushed" => todo = {}
      BY <1>1, <1>2 DEF Dispatched
    <2>2. Flushing' => Flushing
      BY <1>2 DEF Flushing
    <2> QED
      BY <1>2, <1>3, <2>1, <2>2, FlushKeeps
  <1>7. TypeOK'
    <2>1. accepting' \in BOOLEAN /\ error' \in BOOLEAN /\ pending' \subseteq pending
      BY <1>1, <1>2 DEF TypeOK
    <2> QED
      BY <1>2, <1>3, <2>1, JobRunsTypes
  <1>8. /\ Len(shards') = Len(shards) /\ ended'[i].inline = ended[i].inline
        /\ \A j \in DOMAIN sent \ {i} : ended'[j] = ended[j]
    BY <1>2, <1>3, RunJobDoes
  <1>9. Rows'
    BY <1>1, <1>2, <1>3, <1>8 DEF Rows
  <1>10. Jobs'
    <2>1. sent' = sent /\ pending' = pending \ {i} /\ pc' = pc
      BY <1>2
    <2>2. \A j \in pending' : ~ended'[j].inline
      BY <1>1, <1>2, <1>8 DEF Jobs, TypeOK
    <2>3. \A j \in DOMAIN sent : ended'[j].how = "lost" /\ ~ended'[j].inline => error'
      BY <1>1, <1>2, <1>3, <1>8 DEF Jobs
    <2>4. pc = "inline" => Len(sent) \in DOMAIN sent \ pending /\ ended'[Len(sent)].inline
      BY <1>1, <1>3, <1>8 DEF Jobs
    <2> QED
      BY <1>5, <2>1, <2>2, <2>3, <2>4 DEF Jobs
  <1>11. Ending'
    <2>1. Ending /\ UNCHANGED <<pc, closing, result>> /\ ~closing /\ result # "Success"
      BY <1>1, <1>2, <1>3 DEF Ending
    <2> QED
      BY <1>3, <2>1 DEF Ending, Flushing
  <1> QED
    BY <1>5, <1>6, <1>7, <1>9, <1>10, <1>11 DEF IInv
-----------------------------------------------------------------------------
(* The rest of write_frame *)

\* The frames of the layer tell whether it is complete, and the layer whether
\* its row is.
LEMMA CompleteIs ==
    ASSUME TypeOK, Counters, frames_to_flush > 0
    PROVE  /\ LayerComplete(frames_written) <=> frames_to_flush = dims.frames_per_layer
           /\ frames_to_flush = dims.frames_per_layer =>
                 (ShouldRollover <=> current_layer = dims.layers_per_shard - 1)
           /\ frames_to_flush # dims.frames_per_layer =>
                 frames_written % dims.frames_per_layer = frames_to_flush
  <1>1. dims \in Geometries /\ append_chunk_index \in Nat /\ current_layer \in Layers
    BY DEF TypeOK, Layers
  <1>2. PICK d \in Nat \ {0} : d = dims.frames_per_layer
    BY <1>1, GeometryFacts
  <1>3. PICK k \in 0 .. d : k = frames_to_flush /\ k > 0
    BY <1>2 DEF TypeOK
  <1>4. frames_written = LayersBefore * d + k
    BY <1>2, <1>3 DEF Counters
  <1>5. CASE k = d
    BY <1>1, <1>2, <1>3, <1>4, <1>5, LayerEnds DEF LayerComplete, ShouldRollover
  <1>6. CASE k # d
    <2>1. k \in Nat /\ k < d
      BY <1>6
    <2>2. frames_written % d = k
      BY <1>1, <1>2, <1>4, <2>1, FrameInLayer
    <2> QED
      BY <1>2, <1>3, <1>6, <2>2 DEF LayerComplete
  <1> QED
    BY <1>5, <1>6

\* A band, or nothing, was completed.
LEMMA EndBandKeeps ==
    ASSUME IInv, NEW ok \in BOOLEAN, EndFrame(ok), ~LayerComplete(frames_written)
    PROVE  IInv'
  <1>1. TypeOK /\ Counters /\ Dispatched /\ Filling /\ FramesInTheirPlace /\ Rows /\ Ending
    BY DEF IInv
  <1>2. /\ pc = "flushed" /\ ~closing /\ pc' = "idle" /\ error' = error
        /\ flushed_bands' = IF BandsComplete(frames_written)
                            THEN CompletedBands(frames_written) ELSE flushed_bands
        /\ UNCHANGED <<frames_to_flush, current_layer, append_chunk_index, live>>
        /\ UNCHANGED <<dims, single, accepting, frames_written, chunks, shards, todo,
                       jobVars, closing, result>>
    BY DEF EndFrame
  <1>3. PICK d, b \in Nat \ {0} : d = dims.frames_per_layer /\ b = dims.frames_per_band
    BY <1>1, GeometryFacts DEF TypeOK
  <1>4. PICK k \in Nat : k = frames_to_flush /\ k > 0 /\ k <= d
    BY <1>1, <1>2, <1>3 DEF Counters, Flushing, TypeOK
  <1>5. k < d /\ frames_written % d = k
    BY <1>1, <1>3, <1>4, CompleteIs
  <1>6. dims.banding \in BOOLEAN /\ Bands \in Nat /\ (dims.banding => d <= Bands * b)
    BY <1>1, <1>3, GeometryFacts DEF TypeOK
  <1>7. flushed_bands = IF ~dims.banding THEN 0 ELSE (k - 1) \div b
    BY <1>1, <1>2, <1>3, <1>4 DEF Counters, Flushing
  <1>8. flushed_bands' = IF ~dims.banding THEN 0 ELSE k \div b
    <2>1. CASE dims.banding /\ (k % b) = 0
      BY <1>2, <1>3, <1>5, <2>1 DEF BandsComplete, CompletedBands
    <2>2. CASE dims.banding /\ (k % b) # 0
      <3>1. PICK m \in Nat : m = k - 1 /\ m + 1 = k
        BY <1>4
      <3>2. m \div b = k \div b
        BY <2>2, <3>1, DivisionNext
      <3> QED
        BY <1>2, <1>3, <1>5, <1>7, <2>2, <3>1, <3>2 DEF BandsComplete
    <2>3. CASE ~dims.banding
      BY <1>2, <1>7, <2>3 DEF BandsComplete
    <2> QED
      BY <2>1, <2>2, <2>3
  <1>9. flushed_bands' \in 0 .. Bands
    <2>1. CASE dims.banding
      <3>1. k < Bands * b
        BY <1>5, <1>6, <2>1
      <3>2. k \div b < Bands /\ k \div b \in Nat
        BY <1>6, <3>1, DivisionBelow, Division
      <3> QED
        BY <1>6, <1>8, <2>1, <3>2
    <2>2. CASE ~dims.banding
      BY <1>6, <1>8, <2>2
    <2> QED
      BY <2>1, <2>2
  <1>10. /\ UNCHANGED <<sent, ended, pending>>
         /\ ChunkSlots' = ChunkSlots /\ Shards' = Shards /\ Bands' = Bands /\ Slots' = Slots
         /\ LayersBefore' = LayersBefore /\ Due' = Due
         /\ \A s : ChunksPerShard(s)' = ChunksPerShard(s)
    BY <1>2 DEF jobVars, ChunkSlots, Shards, Bands, Slots, LayersBefore, Due,
                ChunksPerShard, SlotsOf
  <1>11. /\ UpToHere' /\ Jobs' /\ Countdown' /\ StillOpen' /\ BadLostOne' /\ SuccessMeans'
         /\ \A slot : Gone(slot)' <=> Gone(slot)
    BY <1>2, QuietKeeps
  <1>12. \A row, layer, slot : FramesOf(row, layer, slot)' = FramesOf(row, layer, slot)
    <2>1. \A f : Row(f)' = Row(f) /\ Layer(f)' = Layer(f) /\ Touched(f)' = Touched(f)
      BY <1>2, <1>10 DEF Row, Layer, Touched
    <2> QED
      BY <1>2, <2>1 DEF FramesOf
  <1>13. TypeOK'
    BY <1>1, <1>2, <1>9, <1>10 DEF TypeOK
  <1>14. Counters'
    <2>1. pc' = "idle" /\ ~Flushing'
      BY <1>2 DEF Flushing
    <2>2. frames_to_flush' = k /\ frames_written' = LayersBefore' * d + k
      BY <1>1, <1>2, <1>3, <1>4, <1>10 DEF Counters
    <2> QED
      BY <1>2, <1>3, <1>5, <1>8, <2>1, <2>2 DEF Counters
  <1>15. Dispatched' /\ Filling' /\ FramesInTheirPlace'
    BY <1>1, <1>2, <1>10, <1>11, <1>12
       DEF Dispatched, Filling, FramesInTheirPlace, Flushing
  <1>16. Rows' /\ Ending'
    BY <1>1, <1>2, <1>10 DEF Rows, Ending, Flushing
  <1> QED
    BY <1>11, <1>13, <1>14, <1>15, <1>16 DEF IInv

\* A layer was completed: every slot of it was dispatched, and the next layer,
\* of this row or of the next, has neither jobs nor frames yet.
LEMMA EndLayerKeeps ==
    ASSUME IInv, NEW ok \in BOOLEAN, EndFrame(ok), LayerComplete(frames_written)
    PROVE  IInv'
  <1> DEFINE here == append_chunk_index
             last == current_layer = dims.layers_per_shard - 1
  <1>1. TypeOK /\ Counters /\ Dispatched /\ Filling /\ UpToHere /\ FramesInTheirPlace
        /\ Rows /\ Jobs /\ Ending /\ Countdown /\ StillOpen /\ BadLostOne
    BY DEF IInv
  <1>2. /\ pc = "flushed" /\ ~closing
        /\ frames_to_flush' = 0 /\ flushed_bands' = 0
        /\ current_layer' = (IF ShouldRollover THEN 0 ELSE current_layer + 1)
        /\ append_chunk_index' = append_chunk_index + (IF ShouldRollover THEN 1 ELSE 0)
        /\ live' = ~ShouldRollover
        /\ \/ pc' = "failed" /\ error' = TRUE
           \/ pc' = "idle" /\ error' = error
        /\ UNCHANGED <<dims, single, accepting, frames_written, chunks, shards, todo,
                       jobVars, closing, result>>
    BY DEF EndFrame, NoBands, NextLayer
  <1>3. PICK d, n \in Nat \ {0} : d = dims.frames_per_layer /\ n = dims.layers_per_shard
    BY <1>1, GeometryFacts DEF TypeOK
  <1>4. frames_to_flush > 0 /\ frames_to_flush \in Nat
    BY <1>1, <1>2 DEF Counters, Flushing, TypeOK
  <1>5. frames_to_flush = d /\ (ShouldRollover <=> last)
    BY <1>1, <1>3, <1>4, CompleteIs
  <1>6. /\ here \in Nat /\ current_layer \in 0 .. n - 1
        /\ current_layer' = (IF last THEN 0 ELSE current_layer + 1)
        /\ append_chunk_index' = here + (IF last THEN 1 ELSE 0) /\ live' = ~last
    BY <1>1, <1>2, <1>3, <1>5 DEF TypeOK
  <1>7. /\ append_chunk_index' \in Nat /\ current_layer' \in 0 .. n - 1
        /\ last => append_chunk_index' = here + 1 /\ ~live'
        /\ ~last => append_chunk_index' = here /\ live'
    <2>1. CASE last
      <3>1. live' = FALSE /\ append_chunk_index' = here + 1 /\ current_layer' = 0
        BY <1>2, <1>5, <1>6, <2>1
      <3> QED
        BY <1>6, <2>1, <3>1
    <2>2. CASE ~last
      <3>1. append_chunk_index' = here /\ current_layer' = current_layer + 1
        BY <1>6, <2>2
      <3>2. live'
        BY <1>2, <1>5, <2>2 DEF ShouldRollover
      <3> QED
        BY <1>3, <1>6, <2>2, <3>1, <3>2
    <2> QED
      BY <2>1, <2>2
  <1>8. /\ UNCHANGED <<sent, ended, pending>> /\ (error => error') /\ ~Flushing' /\ Flushing
        /\ pc' \in {"idle", "failed"} /\ (pc' = "failed" => error') /\ error' \in BOOLEAN
        /\ result = "none" /\ todo = {}
    <2>1. UNCHANGED <<sent, ended, pending>> /\ ~Flushing' /\ Flushing
          /\ pc' \in {"idle", "failed"}
      BY <1>2 DEF jobVars, Flushing
    <2>2. error' \in BOOLEAN /\ (error => error') /\ (pc' = "failed" => error')
      <3>1. error \in BOOLEAN
        BY <1>1 DEF TypeOK
      <3>2. CASE pc' = "failed" /\ error' = TRUE
        BY <3>2
      <3>3. CASE pc' = "idle" /\ error' = error
        BY <3>1, <3>3
      <3> QED
        BY <1>2, <3>2, <3>3
    <2>3. result = "none" /\ todo = {}
      BY <1>1, <1>2 DEF Ending, Dispatched
    <2> QED
      BY <2>1, <2>2, <2>3
  <1>9. /\ ChunkSlots' = ChunkSlots /\ Shards' = Shards /\ Bands' = Bands /\ Slots' = Slots
        /\ Layers' = Layers /\ Running' = Running /\ Running = pending
        /\ \A s : SlotsOf(s)' = SlotsOf(s) /\ ChunksPerShard(s)' = ChunksPerShard(s)
        /\ Layers = 0 .. n - 1
    BY <1>2, <1>3, <1>8 DEF ChunkSlots, Shards, Bands, Slots, Layers, Running, SlotsOf,
                            ChunksPerShard
  <1>10. /\ \A row, layer, slot : SentTo(row, layer, slot)' <=> SentTo(row, layer, slot)
         /\ \A slot : Gone(slot)' <=> SentTo(append_chunk_index', current_layer', slot)
    BY <1>8 DEF SentTo, Gone
  <1>11. \A slot \in Slots : Gone(slot)
    <2>1. Due = Slots
      BY <1>2, <1>3, <1>5 DEF Due
    <2> QED
      BY <1>1, <1>8, <2>1 DEF Dispatched
  <1>12. \A slot \in Slots : ~Gone(slot)'
    <2> SUFFICES ASSUME NEW i \in DOMAIN sent, sent[i].row = append_chunk_index',
                        sent[i].layer = current_layer'
                 PROVE  FALSE
      BY <1>10 DEF SentTo
    <2>1. sent[i].row \in Nat /\ sent[i].layer \in Layers
      BY <1>1, JobTypes
    <2>2. \/ sent[i].row < here
          \/ sent[i].row = here /\ sent[i].layer <= current_layer
      BY <1>1 DEF UpToHere
    <2> QED
      BY <1>3, <1>6, <1>9, <2>1, <2>2
  <1>13. /\ live /\ Len(shards) = here + 1
         /\ \A i \in DOMAIN sent : sent[i].row < Len(shards)
    <2>1. PICK slot \in Slots : Gone(slot)
      BY <1>1, <1>11, GeometryFacts DEF TypeOK
    <2>2. PICK i \in DOMAIN sent : sent[i].row = here
      BY <2>1 DEF Gone, SentTo
    <2>3. here < Len(shards)
      BY <1>1, <2>2 DEF Rows
    <2> QED
      BY <1>1, <1>2, <1>6, <2>3 DEF Rows
  <1>14. TypeOK'
    <2>1. current_layer' \in 0 .. dims.layers_per_shard - 1 /\ flushed_bands' \in 0 .. Bands
          /\ frames_to_flush' \in 0 .. dims.frames_per_layer /\ live' \in BOOLEAN
      BY <1>1, <1>2, <1>3, <1>7, GeometryFacts DEF TypeOK
    <2> QED
      BY <1>1, <1>2, <1>7, <1>8, <1>9, <2>1 DEF TypeOK
  <1>15. Counters'
    <2>1. PICK l \in Nat : l = LayersBefore
      BY <1>3, <1>6 DEF LayersBefore
    <2>2. LayersBefore' = l + 1
      <3>1. CASE last
        <4>1. LayersBefore' = (here + 1) * n
          BY <1>2, <1>3, <1>6, <3>1 DEF LayersBefore
        <4>2. l = here * n + (n - 1)
          BY <1>3, <2>1, <3>1 DEF LayersBefore
        <4> QED
          BY <1>6, <4>1, <4>2
      <3>2. CASE ~last
        <4>1. LayersBefore' = here * n + (current_layer + 1)
          BY <1>2, <1>3, <1>6, <3>2 DEF LayersBefore
        <4>2. l = here * n + current_layer /\ here * n \in Nat
          BY <1>3, <1>6, <2>1 DEF LayersBefore
        <4> QED
          BY <1>6, <4>1, <4>2
      <3> QED
        BY <3>1, <3>2
    <2>3. frames_written = l * d + d
      BY <1>1, <1>3, <1>5, <2>1 DEF Counters
    <2>4. frames_written' = LayersBefore' * dims'.frames_per_layer + frames_to_flush'
      <3>1. (l + 1) * d = l * d + d /\ (l + 1) * d \in Nat
        OBVIOUS
      <3> QED
        BY <1>2, <1>3, <2>2, <2>3, <3>1
    <2>5. 0 \div dims.frames_per_band = 0 /\ 0 < dims.frames_per_layer
      <3>1. PICK b \in Nat \ {0} : b = dims.frames_per_band
        BY <1>1, GeometryFacts DEF TypeOK
      <3> QED
        BY <1>3, <3>1
    <2> QED
      BY <1>2, <1>8, <2>4, <2>5 DEF Counters
  <1>16. Dispatched'
    <2>1. Due' = {}
      <3>1. 0 # dims.frames_per_layer /\ 0 \div dims.frames_per_band = 0
            /\ \A slot \in ChunkSlots : ~(dims.band[slot] < 0)
        <4>1. PICK b \in Nat \ {0} : b = dims.frames_per_band
          BY <1>1, GeometryFacts DEF TypeOK
        <4>2. \A slot \in ChunkSlots : dims.band[slot] \in 0 .. Bands - 1 /\ Bands \in Nat
          BY <1>1, GeometryFacts DEF TypeOK
        <4> QED
          BY <1>3, <4>1, <4>2
      <3> QED
        BY <1>2, <1>9, <3>1 DEF Due
    <2> QED
      BY <1>2, <1>8, <1>9, <1>12, <2>1 DEF Dispatched
  <1>17. \A row, layer, slot : FramesOf(row, layer, slot)' = FramesOf(row, layer, slot)
    <2>1. \A f : Row(f)' = Row(f) /\ Layer(f)' = Layer(f) /\ Touched(f)' = Touched(f)
      BY <1>2, <1>9 DEF Row, Layer, Touched
    <2> QED
      BY <1>2, <2>1 DEF FramesOf
  <1>18. Filling'
    <2> SUFFICES ASSUME NEW slot \in ChunkSlots
                 PROVE  /\ chunks'[slot] = {} /\ ~Gone(slot)'
                        /\ FramesOf(append_chunk_index, current_layer, slot)' = {}
      BY <1>9 DEF Filling
    <2>1. slot \in Slots
      BY <1>1, GeometryFacts DEF TypeOK
    <2>2. chunks[slot] = {}
      BY <1>1, <1>8, <1>11, <2>1 DEF Filling
    <2>3. PICK r, c : r = append_chunk_index' /\ c = current_layer'
      OBVIOUS
    <2>4. FramesOf(r, c, slot) = {}
      <3> SUFFICES ASSUME NEW f \in 0 .. frames_written - 1, Row(f) = r, Layer(f) = c
                   PROVE  FALSE
        BY DEF FramesOf
      <3>1. /\ Row(f) \in Nat /\ Layer(f) \in Layers
            /\ \/ Row(f) < here
               \/ Row(f) = here /\ Layer(f) < current_layer
               \/ Row(f) = here /\ Layer(f) = current_layer
        BY <1>1, PastFrames
      <3> QED
        BY <1>3, <1>6, <1>9, <2>3, <3>1
    <2>5. FramesOf(append_chunk_index, current_layer, slot)' = {}
      <3>1. FramesOf(r, c, slot)' = {}
        BY <1>17, <2>4
      <3> QED
        BY <2>3, <3>1 DEF FramesOf
    <2> QED
      BY <1>2, <1>12, <2>1, <2>2, <2>5
  <1>19. FramesInTheirPlace'
    BY <1>1, <1>8, <1>9, <1>17 DEF FramesInTheirPlace
  <1>20. UpToHere'
    <2>1. ASSUME NEW i \in DOMAIN sent
          PROVE  \/ sent[i].row < append_chunk_index'
                 \/ sent[i].row = append_chunk_index' /\ sent[i].layer <= current_layer'
      <3>1. sent[i].row \in Nat /\ sent[i].layer \in Layers
        BY <1>1, JobTypes
      <3>2. \/ sent[i].row < here
            \/ sent[i].row = here /\ sent[i].layer <= current_layer
        BY <1>1 DEF UpToHere
      <3> QED
        BY <1>3, <1>6, <1>9, <3>1, <3>2
    <2>2. ASSUME NEW row \in 0 .. append_chunk_index', NEW layer \in Layers, NEW slot \in Slots,
                 row < append_chunk_index' \/ layer < current_layer'
          PROVE  SentTo(row, layer, slot)
      <3>1. CASE row = here /\ layer = current_layer
        BY <1>11, <3>1 DEF Gone
      <3>2. CASE ~(row = here /\ layer = current_layer)
        <4>1. row \in 0 .. here /\ (row < here \/ layer < current_layer)
          BY <1>3, <1>6, <1>9, <2>2, <3>2
        <4> QED
          BY <1>1, <4>1 DEF UpToHere
      <3> QED
        BY <3>1, <3>2
    <2> QED
      BY <1>1, <1>8, <1>9, <1>10, <2>1, <2>2 DEF UpToHere, Place
  <1>21. Rows'
    <2>1. IF live' THEN Len(shards) = append_chunk_index' + 1
          ELSE Len(shards) = append_chunk_index'
      BY <1>7, <1>13
    <2>2. pc' \notin {"closed", "make", "dispatch", "inline"}
      BY <1>8
    <2> QED
      BY <1>2, <1>8, <1>13, <2>1, <2>2 DEF Rows
  <1>22. Jobs' /\ Ending' /\ SuccessMeans'
    BY <1>1, <1>2, <1>8, <1>9 DEF Jobs, Ending, SuccessMeans
  <1>23. Countdown'
    <2>1. \A r, s : Owing(r, s)' = Owing(r, s)
      BY <1>8, <1>9 DEF Owing
    <2> QED
      BY <1>1, <1>2, <1>9, <2>1 DEF Countdown
  <1>24. StillOpen'
    <2>1. \A i \in Running : ShardOf(i)'.state = "open"
      BY <1>1, <1>2, <1>8 DEF StillOpen, ShardOf
    <2>2. live' => append_chunk_index' = here
      BY <1>7
    <2>3. ASSUME live', NEW s \in Shards, shards[here + 1][s].state # "open",
                 NEW layer \in Layers, NEW slot \in SlotsOf(s)
          PROVE  SentTo(append_chunk_index, layer, slot)'
      BY <1>1, <1>10, <1>13, <2>2, <2>3 DEF StillOpen
    <2> QED
      BY <1>2, <1>9, <2>1, <2>2, <2>3 DEF StillOpen
  <1>25. BadLostOne'
    BY <1>1, <1>2, <1>8, <1>9 DEF BadLostOne, LostOne
  <1> QED
    BY <1>14, <1>15, <1>16, <1>18, <1>19, <1>20, <1>21, <1>22, <1>23, <1>24, <1>25 DEF IInv

LEMMA EndFrameKeeps ==
    ASSUME IInv, NEW ok \in BOOLEAN, EndFrame(ok)
    PROVE  IInv'
  BY EndBandKeeps, EndLayerKeeps
-----------------------------------------------------------------------------
(* Shards nobody holds any more, and the end *)

\* A shard of a row that is complete, still open though no job runs on it, is
\* owed a chunk whose job failed.
LEMMA OpenLostOne ==
    ASSUME IInv, NEW r \in DOMAIN shards, NEW s \in Shards, shards[r][s].state = "open",
           r <= append_chunk_index,
           \A i \in Running : ~(sent[i].row = r - 1 /\ dims.shard[sent[i].slot] = s)
    PROVE  LostOne(r, s)
  <1>1. TypeOK /\ UpToHere /\ Jobs /\ Countdown
    BY DEF IInv
  <1>2. Cardinality(Owing(r - 1, s)) > 0
    BY <1>1 DEF Countdown
  <1>3. Owing(r - 1, s) # {}
    BY <1>2, FS_EmptySet
  <1>4. PICK p \in Layers \X SlotsOf(s) : p \in Owing(r - 1, s)
    BY <1>3 DEF Owing
  <1>5. r - 1 \in 0 .. append_chunk_index /\ r - 1 < append_chunk_index
    <2>1. r \in Nat \ {0}
      BY <1>1, ShardTypes
    <2>2. append_chunk_index \in Nat
      BY <1>1 DEF TypeOK
    <2> QED
      BY <2>1, <2>2
  <1>6. p[1] \in Layers /\ p[2] \in Slots /\ dims.shard[p[2]] = s
    BY <1>4 DEF SlotsOf, Slots
  <1>7. SentTo(r - 1, p[1], p[2])
    BY <1>1, <1>5, <1>6 DEF UpToHere
  <1>8. PICK i \in DOMAIN sent :
           sent[i].row = r - 1 /\ sent[i].layer = p[1] /\ sent[i].slot = p[2]
    BY <1>7 DEF SentTo
  <1>9. ended[i].how # "landed"
    BY <1>4, <1>8 DEF Owing
  <1>10. ended[i].how # "pending"
    BY <1>1, <1>6, <1>8 DEF Jobs
  <1>11. ended[i].how = "lost"
    BY <1>1, <1>9, <1>10, JobTypes
  <1> QED
    BY <1>6, <1>8, <1>11 DEF LostOne

LEMMA DestroyShardKeeps ==
    ASSUME IInv, NEW row \in 0 .. Len(shards) - 1, NEW s \in Shards, NEW ok \in BOOLEAN,
           DestroyShard(row, s, ok)
    PROVE  IInv'
  <1> DEFINE r == row + 1
             state == IF ok THEN "ok" ELSE "bad"
             ShardSet == [unwritten : Nat, state : {"open", "ok", "bad"}]
             end == [shards[r][s] EXCEPT !.state = state]
             newRow == [shards[r] EXCEPT ![s] = end]
  <1>1. TypeOK /\ Dispatched /\ UpToHere /\ Rows /\ Jobs /\ Ending /\ Countdown /\ StillOpen
        /\ BadLostOne /\ SuccessMeans
    BY DEF IInv
  <1>2. /\ shards[r][s].state = "open" /\ ~Held(row, s)
        /\ UNCHANGED <<dims, single, streamVars, frameVars, flushVars, todo, jobVars,
                       pc, closing, result>>
    BY DEF DestroyShard
  <1>3. shards' = [shards EXCEPT ![r] = newRow]
    BY DEF DestroyShard
  <1>4. UNCHANGED <<sent, ended, pending, flushed_bands, append_chunk_index, current_layer,
                    live, frames_written, frames_to_flush, chunks, accepting, error>>
    BY <1>2 DEF jobVars, flushVars, frameVars, streamVars
  <1>5. /\ shards \in Seq([Shards -> ShardSet]) /\ DOMAIN shards = 1 .. Len(shards)
        /\ Len(shards) \in Nat /\ row \in Nat /\ r \in 1 .. Len(shards) /\ r - 1 = row
    <2>1. shards \in Seq([Shards -> ShardSet])
      BY <1>1 DEF TypeOK
    <2> HIDE DEF ShardSet
    <2>2. DOMAIN shards = 1 .. Len(shards) /\ Len(shards) \in Nat
      BY <2>1
    <2> QED
      BY <2>1, <2>2
  <1>6. shards[r] \in [Shards -> ShardSet] /\ shards[r][s] \in ShardSet
    BY <1>1, <1>5, ShardTypes
  <1>7. end \in ShardSet /\ end.state = state /\ end.unwritten = shards[r][s].unwritten
    BY <1>6
  <1>8. /\ newRow \in [Shards -> ShardSet]
        /\ \A t \in Shards : newRow[t] = IF t = s THEN end ELSE shards[r][t]
    BY <1>6, <1>7
  <1> HIDE DEF end, newRow, ShardSet
  <1>9. /\ shards' \in Seq([Shards -> ShardSet]) /\ Len(shards') = Len(shards)
        /\ \A q \in 1 .. Len(shards) : shards'[q] = IF q = r THEN newRow ELSE shards[q]
    BY <1>3, <1>5, <1>8, ExceptSeq
  <1>10. /\ DOMAIN shards' = DOMAIN shards
         /\ \A q \in DOMAIN shards, t \in Shards :
               shards'[q][t] = IF q = r /\ t = s THEN end ELSE shards[q][t]
    BY <1>5, <1>8, <1>9
  <1> HIDE DEF r
  <1>11. /\ Slots' = Slots /\ Layers' = Layers /\ Shards' = Shards /\ Running' = Running
         /\ Bands' = Bands /\ ChunkSlots' = ChunkSlots
         /\ \A t : SlotsOf(t)' = SlotsOf(t) /\ ChunksPerShard(t)' = ChunksPerShard(t)
    BY <1>2, <1>4 DEF Slots, Layers, Shards, Running, Bands, ChunkSlots, SlotsOf, ChunksPerShard
  <1>12. \A i \in Running : ~(sent[i].row = row /\ dims.shard[sent[i].slot] = s)
    BY <1>2 DEF Held, Running
  <1>13. ~(live /\ row = append_chunk_index)
    BY <1>2 DEF Held
  <1>14. /\ Counters' /\ Dispatched' /\ Filling' /\ FramesInTheirPlace'
         /\ \A q, layer, slot : SentTo(q, layer, slot)' <=> SentTo(q, layer, slot)
    <2>1. pc' = "flushed" => todo = {}
      BY <1>1, <1>2 DEF Dispatched
    <2>2. Flushing' => Flushing
      BY <1>2 DEF Flushing
    <2> QED
      BY <1>2, <1>4, <2>1, <2>2, FlushKeeps
  <1>15. TypeOK'
    <2>1. \A q \in DOMAIN shards, t \in Shards : shards'[q][t].unwritten = shards[q][t].unwritten
      BY <1>7, <1>10
    <2>2. shards' \in Seq([Shards -> [unwritten : Nat, state : {"open", "ok", "bad"}]])
      BY <1>9 DEF ShardSet
    <2>3. \A q \in DOMAIN shards, t \in Shards : shards'[q][t].unwritten <= ChunksPerShard(t)
      BY <1>1, <2>1 DEF TypeOK
    <2> QED
      BY <1>1, <1>2, <1>4, <1>10, <1>11, <2>2, <2>3 DEF TypeOK
  <1>16. UpToHere' /\ Jobs' /\ Ending'
    BY <1>1, <1>2, <1>4, <1>11, <1>14 DEF UpToHere, Place, Jobs, Ending, Flushing
  <1>17. Rows'
    BY <1>1, <1>2, <1>4, <1>9 DEF Rows
  <1>18. Countdown'
    <2>1. \A q, t : Owing(q, t)' = Owing(q, t)
      BY <1>4, <1>11 DEF Owing
    <2>2. end.state # "open"
      BY <1>7
    <2> QED
      BY <1>1, <1>10, <1>11, <2>1, <2>2 DEF Countdown
  <1>19. StillOpen'
    <2>1. ASSUME NEW i \in Running
          PROVE  ShardOf(i)'.state = "open"
      <3>1. /\ sent[i].row + 1 \in DOMAIN shards /\ dims.shard[sent[i].slot] \in Shards
            /\ ShardOf(i).state = "open" /\ sent[i].row \in Nat
        BY RunningJob
      <3>2. ~(sent[i].row + 1 = r /\ dims.shard[sent[i].slot] = s)
        BY <1>5, <1>12, <3>1
      <3>3. shards'[sent[i].row + 1][dims.shard[sent[i].slot]] = ShardOf(i)
        BY <1>10, <3>1, <3>2 DEF ShardOf
      <3> QED
        BY <1>2, <1>4, <3>1, <3>3 DEF ShardOf
    <2>2. ASSUME live, NEW t \in Shards
          PROVE  shards'[append_chunk_index + 1][t] = shards[append_chunk_index + 1][t]
      <3>1. append_chunk_index \in Nat /\ append_chunk_index + 1 \in DOMAIN shards
        BY <1>1, <1>5, <2>2 DEF Rows, TypeOK
      <3>2. append_chunk_index + 1 # r
        BY <1>5, <1>13, <2>2, <3>1
      <3> QED
        BY <1>10, <3>1, <3>2
    <2>3. \A layer, slot : SentTo(append_chunk_index, layer, slot)' <=>
                           SentTo(append_chunk_index, layer, slot)
      BY <1>4 DEF SentTo
    <2> QED
      BY <1>1, <1>4, <1>11, <2>1, <2>2, <2>3 DEF StillOpen
  <1>20. BadLostOne'
    <2>1. \A q, t : LostOne(q, t)' <=> LostOne(q, t)
      BY <1>2, <1>4 DEF LostOne
    <2>2. ASSUME pc # "closed"
          PROVE  LostOne(r, s)
      <3>1. Len(shards) = append_chunk_index + 1 \/ Len(shards) = append_chunk_index
        BY <1>1, <2>2 DEF Rows
      <3>2. Len(shards) = append_chunk_index + 1 => live
        BY <1>1, <2>2 DEF Rows, TypeOK
      <3>3. append_chunk_index \in Nat
        BY <1>1 DEF TypeOK
      <3>4. r <= append_chunk_index
        <4>1. row \in 0 .. Len(shards) - 1 /\ r = row + 1
          BY DEF r
        <4>2. CASE Len(shards) = append_chunk_index
          BY <1>5, <3>3, <4>1, <4>2
        <4>3. CASE Len(shards) = append_chunk_index + 1
          <5>1. row # append_chunk_index
            BY <1>13, <3>2, <4>3
          <5> QED
            BY <1>5, <3>3, <4>1, <4>3, <5>1
        <4> QED
          BY <3>1, <4>2, <4>3
      <3> QED
        BY <1>2, <1>5, <1>12, <3>4, OpenLostOne
    <2> QED
      BY <1>1, <1>2, <1>10, <1>11, <2>1, <2>2 DEF BadLostOne
  <1>21. SuccessMeans'
    <2>1. \A f : Touched(f)' = Touched(f)
      BY <1>2, <1>11 DEF Touched
    <2> SUFFICES ASSUME result = "Success"
                 PROVE  \A q \in DOMAIN shards, t \in Shards :
                           \/ shards'[q][t].state = "ok"
                           \/ \E i \in DOMAIN sent : /\ ended[i].how = "lost" /\ ended[i].inline
                                                    /\ sent[i].row = q - 1
                                                    /\ dims.shard[sent[i].slot] = t
      BY <1>1, <1>2, <1>4, <1>10, <1>11, <2>1 DEF SuccessMeans
    <2>2. \A q \in DOMAIN shards, t \in Shards :
             \/ shards[q][t].state = "ok"
             \/ \E i \in DOMAIN sent : /\ ended[i].how = "lost" /\ ended[i].inline
                                      /\ sent[i].row = q - 1
                                      /\ dims.shard[sent[i].slot] = t
      BY <1>1 DEF SuccessMeans
    <2> QED
      BY <1>2, <1>10, <2>2
  <1> QED
    BY <1>14, <1>15, <1>16, <1>17, <1>18, <1>19, <1>20, <1>21 DEF IInv

\* Where close_ begins its flush, the slots that were not dispatched yet.
LEMMA CloseKeeps ==
    ASSUME IInv, Close
    PROVE  IInv'
  <1> DEFINE left == CASE frames_to_flush = 0                 -> {}
                       [] frames_to_flush > 0 /\ dims.banding -> BandRange(flushed_bands, Bands)
                       [] OTHER                               -> WholeLayer
  <1>1. TypeOK /\ Counters /\ Dispatched /\ Filling /\ FramesInTheirPlace /\ Rows /\ Ending
    BY DEF IInv
  <1>2. /\ pc \in {"idle", "failed"} /\ ~closing /\ pending = {} /\ closing' = TRUE
        /\ accepting' = FALSE
        /\ error => pc' = "failed" /\ todo' = todo
        /\ ~error => StartFlush(left)
        /\ UNCHANGED <<dims, single, error, frameVars, flushVars, shards, jobVars, result>>
    BY DEF Close
  <1>3. UNCHANGED <<sent, ended, pending, flushed_bands, append_chunk_index, current_layer,
                    live, frames_written, frames_to_flush, chunks>>
    BY <1>2 DEF jobVars, flushVars, frameVars
  <1>4. /\ ~error => /\ todo' = left
                     /\ pc' = IF left = {} THEN "flushed" ELSE IF live THEN "dispatch" ELSE "make"
        /\ ~error => pc = "idle"
    BY <1>1, <1>2 DEF StartFlush, Ending
  <1>5. /\ pc' \in {"flushed", "dispatch", "make", "failed"} /\ result = "none"
        /\ (pc' = "failed" <=> error) /\ error \in BOOLEAN /\ ~Flushing
        /\ (Flushing' <=> ~error)
    <2>1. error \in BOOLEAN /\ result = "none"
      BY <1>1, <1>2 DEF TypeOK, Ending
    <2>2. CASE error
      BY <1>2, <2>1, <2>2 DEF Flushing
    <2>3. CASE ~error
      BY <1>2, <1>4, <2>1, <2>3 DEF Flushing
    <2> QED
      BY <2>2, <2>3
  <1>6. /\ ChunkSlots' = ChunkSlots /\ Shards' = Shards /\ Bands' = Bands /\ Slots' = Slots
        /\ LayersBefore' = LayersBefore /\ \A s : ChunksPerShard(s)' = ChunksPerShard(s)
    BY <1>2, <1>3 DEF ChunkSlots, Shards, Bands, Slots, LayersBefore, ChunksPerShard, SlotsOf
  <1>7. UpToHere' /\ Jobs' /\ Countdown' /\ StillOpen' /\ BadLostOne' /\ SuccessMeans'
        /\ \A slot : Gone(slot)' <=> Gone(slot)
    BY <1>2, <1>3, <1>5, QuietKeeps
  <1>8. \A row, layer, slot : FramesOf(row, layer, slot)' = FramesOf(row, layer, slot)
    <2>1. \A f : Row(f)' = Row(f) /\ Layer(f)' = Layer(f) /\ Touched(f)' = Touched(f)
      BY <1>2, <1>6 DEF Row, Layer, Touched
    <2> QED
      BY <1>3, <2>1 DEF FramesOf
  <1>9. PICK d, b \in Nat \ {0} : d = dims.frames_per_layer /\ b = dims.frames_per_band
    BY <1>1, GeometryFacts DEF TypeOK
  <1>10. PICK k \in 0 .. d : k = frames_to_flush
    BY <1>1, <1>9 DEF TypeOK
  <1>11. /\ dims.banding \in BOOLEAN /\ Bands \in Nat /\ (dims.banding => d <= Bands * b)
         /\ \A slot \in ChunkSlots : dims.band[slot] \in 0 .. Bands - 1
         /\ ChunkSlots \subseteq Slots
    BY <1>1, <1>9, GeometryFacts DEF TypeOK
  <1>12. ASSUME ~error
         PROVE  k < d /\ todo = {}
                /\ flushed_bands = IF ~dims.banding THEN 0 ELSE k \div b
    BY <1>1, <1>2, <1>4, <1>5, <1>9, <1>10, <1>12 DEF Counters, Dispatched
  <1>13. ASSUME ~error
         PROVE  left = IF k = 0 THEN {}
                       ELSE IF dims.banding
                       THEN {slot \in ChunkSlots : dims.band[slot] >= k \div b} \cup PadSlots
                       ELSE Slots
    <2>1. CASE k > 0 /\ dims.banding
      <3>1. k \in Nat /\ k < Bands * b
        BY <1>10, <1>11, <1>12, <1>13, <2>1
      <3>2. k \div b < Bands /\ k \div b \in Nat
        BY <1>11, <3>1, DivisionBelow, Division
      <3>3. BandRange(k \div b, Bands) =
               {slot \in ChunkSlots : dims.band[slot] >= k \div b} \cup PadSlots
        BY <1>11, <3>2 DEF BandRange
      <3> QED
        BY <1>10, <1>12, <1>13, <2>1, <3>3
    <2>2. CASE k > 0 /\ ~dims.banding
      BY <1>10, <2>2 DEF WholeLayer, Slots
    <2>3. CASE k = 0
      BY <1>10, <2>3
    <2> QED
      BY <1>10, <1>11, <2>1, <2>2, <2>3
  <1>14. TypeOK'
    <2>1. todo' \subseteq Slots
      <3>1. CASE error
        BY <1>1, <1>2, <3>1 DEF TypeOK, Slots
      <3>2. CASE ~error
        BY <1>4, <1>11, <1>13, <3>2 DEF PadSlots, Slots
      <3> QED
        BY <3>1, <3>2
    <2>2. pc' \in {"idle", "make", "dispatch", "inline", "flushed", "failed", "closed"}
      BY <1>5
    <2> QED
      BY <1>1, <1>2, <1>3, <1>6, <2>1, <2>2 DEF TypeOK, Slots
  <1>15. Counters'
    <2>1. frames_written' = LayersBefore' * d + k /\ frames_to_flush' = k
      BY <1>1, <1>3, <1>6, <1>9, <1>10 DEF Counters
    <2>2. CASE error
      BY <1>2, <1>5, <1>9, <2>1, <2>2 DEF Counters
    <2>3. CASE ~error
      BY <1>2, <1>3, <1>5, <1>9, <1>12, <2>1, <2>3 DEF Counters
    <2> QED
      BY <2>2, <2>3
  <1>16. Dispatched'
    <2>1. CASE error
      BY <1>5, <2>1 DEF Dispatched
    <2>2. CASE ~error
      <3>1. Due' = IF k = 0 THEN {} ELSE Slots
        BY <1>2, <1>3, <1>6, <1>10 DEF Due
      <3>2. \A slot \in Slots : Gone(slot) <=> /\ dims.banding /\ slot \in ChunkSlots
                                                /\ dims.band[slot] < k \div b
        BY <1>1, <1>2, <1>4, <1>9, <1>10, <1>12, <2>2 DEF Dispatched, Due
      <3>3. k \div b \in Nat /\ (k = 0 => k \div b = 0)
        BY <1>10
      <3>4. ASSUME NEW slot \in Slots
            PROVE  /\ slot \in Due' <=> slot \in todo' \/ Gone(slot)
                   /\ ~(slot \in todo' /\ Gone(slot))
        <4>1. slot \in ChunkSlots => dims.band[slot] \in Nat
          BY <1>11
        <4>2. todo' = left
          BY <1>4, <2>2
        <4> HIDE DEF left
        <4>3. CASE slot \in ChunkSlots
          <5>1. PICK x \in Nat : x = dims.band[slot]
            BY <4>1, <4>3
          <5> QED
            BY <1>11, <1>13, <2>2, <3>1, <3>2, <3>3, <4>2, <4>3, <5>1 DEF PadSlots, Slots
        <4>4. CASE slot \notin ChunkSlots
          BY <1>13, <2>2, <3>1, <3>2, <4>2, <4>4 DEF PadSlots, Slots
        <4> QED
          BY <4>3, <4>4
      <3>5. pc' \in {"idle", "flushed"} => todo' = {}
        BY <1>4, <2>2
      <3> QED
        BY <1>6, <1>7, <3>4, <3>5 DEF Dispatched
    <2> QED
      BY <2>1, <2>2
  <1>17. Filling'
    <2>1. pc' = "idle" \/ Flushing' => pc = "idle"
      BY <1>4, <1>5
    <2> QED
      BY <1>1, <1>3, <1>6, <1>7, <1>8, <2>1 DEF Filling
  <1>18. FramesInTheirPlace'
    BY <1>1, <1>3, <1>6, <1>8 DEF FramesInTheirPlace
  <1>19. Rows'
    <2>1. pc' = "make" => ~live
      BY <1>4, <1>5
    <2>2. pc' = "dispatch" => live
      BY <1>4, <1>5
    <2> QED
      BY <1>1, <1>2, <1>3, <1>5, <2>1, <2>2 DEF Rows
  <1>20. Ending'
    BY <1>2, <1>3, <1>5 DEF Ending
  <1> QED
    BY <1>7, <1>14, <1>15, <1>16, <1>17, <1>18, <1>19, <1>20 DEF IInv

LEMMA CloseFailsKeeps ==
    ASSUME IInv, CloseFails
    PROVE  IInv'
  <1>1. TypeOK /\ UpToHere /\ Rows /\ Jobs /\ Ending /\ Countdown
    BY DEF IInv
  <1>2. /\ pc = "failed" /\ closing /\ result' = "IOError" /\ live' = FALSE /\ pc' = "closed"
        /\ UNCHANGED <<dims, single, streamVars, frameVars, current_layer, flushed_bands,
                       append_chunk_index, shards, todo, jobVars, closing>>
    BY DEF CloseFails
  <1>3. UNCHANGED <<sent, ended, pending, frames_written, frames_to_flush, chunks, accepting,
                    error>>
    BY <1>2 DEF jobVars, frameVars, streamVars
  <1>4. /\ ChunkSlots' = ChunkSlots /\ Shards' = Shards /\ Bands' = Bands /\ Slots' = Slots
        /\ Layers' = Layers /\ Running' = {} /\ Running = {}
        /\ \A s : SlotsOf(s)' = SlotsOf(s) /\ ChunksPerShard(s)' = ChunksPerShard(s)
    BY <1>1, <1>2, <1>3 DEF ChunkSlots, Shards, Bands, Slots, Layers, SlotsOf, ChunksPerShard,
                            Running, Ending
  <1>5. /\ Counters' /\ Dispatched' /\ Filling' /\ FramesInTheirPlace'
        /\ \A row, layer, slot : SentTo(row, layer, slot)' <=> SentTo(row, layer, slot)
    BY <1>2, <1>3, FlushKeeps DEF Flushing
  <1>6. TypeOK'
    BY <1>1, <1>2, <1>3, <1>4 DEF TypeOK
  <1>7. UpToHere'
    BY <1>1, <1>2, <1>3, <1>4, <1>5 DEF UpToHere, Place
  <1>8. Rows' /\ Jobs' /\ Ending'
    BY <1>1, <1>2, <1>3, <1>4 DEF Rows, Jobs, Ending, Flushing
  <1>9. Countdown'
    <2>1. \A r, s : Owing(r, s)' = Owing(r, s)
      BY <1>3, <1>4 DEF Owing
    <2> QED
      BY <1>1, <1>2, <1>4, <2>1 DEF Countdown
  <1>10. StillOpen' /\ BadLostOne' /\ SuccessMeans'
    BY <1>2, <1>4 DEF StillOpen, BadLostOne, SuccessMeans
  <1> QED
    BY <1>5, <1>6, <1>7, <1>8, <1>9, <1>10 DEF IInv

\* finalize_shards_ leaves what has landed or failed as it is.
LEMMA FinalizedShards ==
    ASSUME IInv, NEW oks \in SUBSET Shards, NEW ok \in BOOLEAN, FinalizeShards(oks, ok)
    PROVE  /\ shards' \in Seq([Shards -> [unwritten : Nat, state : {"open", "ok", "bad"}]])
           /\ Len(shards') = Len(shards) /\ DOMAIN shards' = DOMAIN shards
           /\ \A q \in DOMAIN shards, t \in Shards :
                 /\ shards'[q][t].unwritten = shards[q][t].unwritten
                 /\ shards[q][t].state # "open" \/ ~live \/ q # append_chunk_index + 1 =>
                       shards'[q][t] = shards[q][t]
                 /\ live /\ q = append_chunk_index + 1 => shards'[q][t].state # "open"
  <1> DEFINE r == append_chunk_index + 1
             ShardSet == [unwritten : Nat, state : {"open", "ok", "bad"}]
             end(s) == IF shards[r][s].state # "open" THEN shards[r][s]
                       ELSE [shards[r][s] EXCEPT !.state = IF s \in oks THEN "ok" ELSE "bad"]
             newRow == [s \in Shards |-> end(s)]
  <1>1. TypeOK /\ Rows /\ Ending
    BY DEF IInv
  <1>2. /\ pc = "flushed" /\ closing
        /\ live => shards' = [shards EXCEPT ![r] = newRow]
        /\ ~live => shards' = shards
    BY DEF FinalizeShards
  <1>3. shards \in Seq([Shards -> ShardSet])
    BY <1>1 DEF TypeOK
  <1> HIDE DEF ShardSet
  <1>4. DOMAIN shards = 1 .. Len(shards) /\ Len(shards) \in Nat
    BY <1>3
  <1>5. CASE live
    <2>1. r \in 1 .. Len(shards)
      BY <1>1, <1>4, <1>5 DEF Rows, TypeOK
    <2>2. ASSUME NEW s \in Shards
          PROVE  /\ end(s) \in ShardSet /\ end(s).unwritten = shards[r][s].unwritten
                 /\ end(s).state # "open"
                 /\ shards[r][s].state # "open" => end(s) = shards[r][s]
      <3>1. shards[r][s] \in [unwritten : Nat, state : {"open", "ok", "bad"}]
        BY <1>1, <1>4, <2>1, ShardTypes
      <3> QED
        BY <3>1 DEF ShardSet
    <2> HIDE DEF end
    <2>3. newRow \in [Shards -> ShardSet] /\ \A s \in Shards : newRow[s] = end(s)
      BY <2>2
    <2> HIDE DEF newRow, r
    <2>4. /\ shards' \in Seq([Shards -> ShardSet]) /\ Len(shards') = Len(shards)
          /\ \A q \in 1 .. Len(shards) : shards'[q] = IF q = r THEN newRow ELSE shards[q]
      BY <1>2, <1>3, <1>5, <2>1, <2>3, ExceptSeq
    <2>5. DOMAIN shards' = DOMAIN shards
      BY <1>4, <2>4
    <2>6. \A q \in DOMAIN shards, t \in Shards :
             shards'[q][t] = IF q = r THEN end(t) ELSE shards[q][t]
      BY <1>4, <2>3, <2>4
    <2> QED
      BY <1>5, <2>2, <2>4, <2>5, <2>6 DEF ShardSet, r
  <1>6. CASE ~live
    BY <1>2, <1>3, <1>6 DEF ShardSet
  <1> QED
    BY <1>5, <1>6

LEMMA FinalizeShardsKeeps ==
    ASSUME IInv, NEW oks \in SUBSET Shards, NEW ok \in BOOLEAN, FinalizeShards(oks, ok)
    PROVE  IInv'
  <1> DEFINE here == append_chunk_index
  <1>1. TypeOK /\ Counters /\ Dispatched /\ UpToHere /\ FramesInTheirPlace /\ Rows /\ Jobs
        /\ Ending /\ Countdown /\ BadLostOne
    BY DEF IInv
  <1>2. /\ pc = "flushed" /\ closing /\ live' = FALSE /\ pc' = "closed"
        /\ result' \in {"Success", "IOError"}
        /\ result' = "Success" => (live => \A s \in Shards : shards'[here + 1][s].state = "ok")
        /\ UNCHANGED <<dims, single, streamVars, frameVars, current_layer, flushed_bands,
                       append_chunk_index, todo, jobVars, closing>>
    BY DEF FinalizeShards
  <1>3. UNCHANGED <<sent, ended, pending, frames_written, frames_to_flush, chunks, accepting,
                    error>>
    BY <1>2 DEF jobVars, frameVars, streamVars
  <1>4. /\ ChunkSlots' = ChunkSlots /\ Shards' = Shards /\ Bands' = Bands /\ Slots' = Slots
        /\ Layers' = Layers /\ Running' = {} /\ Running = {}
        /\ \A s : SlotsOf(s)' = SlotsOf(s) /\ ChunksPerShard(s)' = ChunksPerShard(s)
    BY <1>1, <1>2, <1>3 DEF ChunkSlots, Shards, Bands, Slots, Layers, SlotsOf, ChunksPerShard,
                            Running, Ending
  <1>5. /\ shards' \in Seq([Shards -> [unwritten : Nat, state : {"open", "ok", "bad"}]])
        /\ Len(shards') = Len(shards) /\ DOMAIN shards' = DOMAIN shards
        /\ \A q \in DOMAIN shards, t \in Shards :
              /\ shards'[q][t].unwritten = shards[q][t].unwritten
              /\ shards[q][t].state # "open" \/ ~live \/ q # here + 1 =>
                    shards'[q][t] = shards[q][t]
              /\ live /\ q = here + 1 => shards'[q][t].state # "open"
    BY FinalizedShards
  <1>6. /\ Counters' /\ Dispatched' /\ Filling' /\ FramesInTheirPlace'
        /\ \A row, layer, slot : SentTo(row, layer, slot)' <=> SentTo(row, layer, slot)
    BY <1>2, <1>3, FlushKeeps DEF Flushing
  <1>7. ~error /\ todo = {} /\ Flushing
    BY <1>1, <1>2 DEF Ending, Dispatched, Flushing
  <1>8. TypeOK'
    <2>1. \A q \in DOMAIN shards, t \in Shards : shards'[q][t].unwritten <= ChunksPerShard(t)
      BY <1>1, <1>5 DEF TypeOK
    <2> QED
      BY <1>1, <1>2, <1>3, <1>4, <1>5, <2>1 DEF TypeOK
  <1>9. UpToHere'
    BY <1>1, <1>2, <1>3, <1>4, <1>6 DEF UpToHere, Place
  <1>10. Rows'
    <2>1. Len(shards) = here + 1 \/ Len(shards) = here
      BY <1>1, <1>2 DEF Rows
    <2> QED
      BY <1>1, <1>2, <1>3, <1>5, <2>1 DEF Rows
  <1>11. Jobs' /\ Ending'
    BY <1>1, <1>2, <1>3, <1>4, <1>7 DEF Jobs, Ending, Flushing
  <1>12. Countdown'
    <2>1. \A r, s : Owing(r, s)' = Owing(r, s)
      BY <1>3, <1>4 DEF Owing
    <2>2. ASSUME NEW q \in DOMAIN shards, NEW t \in Shards, shards'[q][t].state = "open"
          PROVE  /\ shards'[q][t].unwritten = Cardinality(Owing(q - 1, t))
                 /\ shards'[q][t].unwritten > 0
      <3>1. /\ shards[q][t].state = "open"
            /\ shards'[q][t].unwritten = shards[q][t].unwritten
        BY <1>5, <2>2
      <3> QED
        BY <1>1, <3>1 DEF Countdown
    <2> QED
      BY <1>4, <1>5, <2>1, <2>2 DEF Countdown
  <1>13. StillOpen' /\ BadLostOne'
    BY <1>2, <1>4 DEF StillOpen, BadLostOne
  <1>14. ASSUME NEW f \in 0 .. frames_written - 1, NEW slot \in Touched(f)
         PROVE  \E i \in DOMAIN sent : sent[i].slot = slot /\ f \in sent[i].frames
    <2>1. slot \in ChunkSlots /\ slot \in Slots
      BY <1>1, GeometryFacts DEF Touched, TypeOK
    <2>2. /\ Row(f) \in Nat /\ Layer(f) \in Layers
          /\ \/ Row(f) < here
             \/ Row(f) = here /\ Layer(f) < current_layer
             \/ Row(f) = here /\ Layer(f) = current_layer /\ frames_to_flush > 0
      BY <1>1, PastFrames
    <2>3. SentTo(Row(f), Layer(f), slot)
      <3>1. CASE Row(f) < here \/ (Row(f) = here /\ Layer(f) < current_layer)
        <4>1. Row(f) \in 0 .. here /\ (Row(f) < here \/ Layer(f) < current_layer)
          BY <1>1, <2>2, <3>1 DEF TypeOK
        <4> QED
          BY <1>1, <2>1, <2>2, <4>1 DEF UpToHere
      <3>2. CASE Row(f) = here /\ Layer(f) = current_layer /\ frames_to_flush > 0
        <4>1. Due = Slots
          BY <1>1, <1>2, <3>2 DEF Due, TypeOK
        <4>2. Gone(slot)
          BY <1>1, <1>7, <2>1, <4>1 DEF Dispatched
        <4> QED
          BY <3>2, <4>2 DEF Gone
      <3> QED
        BY <2>2, <3>1, <3>2
    <2>4. PICK i \in DOMAIN sent :
             sent[i].row = Row(f) /\ sent[i].layer = Layer(f) /\ sent[i].slot = slot
      BY <2>3 DEF SentTo
    <2>5. f \in sent[i].frames
      BY <1>1, <2>1, <2>4 DEF FramesInTheirPlace, FramesOf
    <2> QED
      BY <2>4, <2>5
  <1>15. ASSUME NEW i \in DOMAIN sent
         PROVE  ended[i].how = "landed" \/ (ended[i].how = "lost" /\ ended[i].inline)
    <2>1. ended[i].how \in {"pending", "landed", "lost"} /\ ended[i].inline \in BOOLEAN
      BY <1>1, JobTypes
    <2>2. ended[i].how # "pending"
      BY <1>1, <1>4 DEF Jobs
    <2>3. ended[i].how = "lost" => ended[i].inline
      BY <1>1, <1>7, <2>1 DEF Jobs
    <2> QED
      BY <2>1, <2>2, <2>3
  <1>16. ASSUME result' = "Success", NEW q \in DOMAIN shards, NEW t \in Shards
         PROVE  \/ shards'[q][t].state = "ok"
                \/ \E i \in DOMAIN sent : /\ ended[i].how = "lost" /\ ended[i].inline
                                         /\ sent[i].row = q - 1
                                         /\ dims.shard[sent[i].slot] = t
    <2>1. CASE live /\ q = here + 1
      BY <1>2, <1>16, <2>1
    <2>2. CASE ~(live /\ q = here + 1)
      <3>1. shards'[q][t] = shards[q][t]
        BY <1>5, <2>2
      <3>2. /\ q \in Nat /\ q <= Len(shards) /\ Len(shards) \in Nat /\ here \in Nat
            /\ shards[q][t].state \in {"open", "ok", "bad"}
        BY <1>1, ShardTypes DEF TypeOK
      <3>3. q <= here
        <4>1. CASE live
          BY <1>1, <2>2, <3>2, <4>1 DEF Rows
        <4>2. CASE ~live
          BY <1>1, <1>2, <3>2, <4>2 DEF Rows
        <4> QED
          BY <4>1, <4>2
      <3>4. shards[q][t].state = "ok" \/ LostOne(q, t)
        <4>1. CASE shards[q][t].state = "open"
          BY <1>4, <3>3, <4>1, OpenLostOne
        <4>2. CASE shards[q][t].state = "bad"
          BY <1>1, <1>2, <4>2 DEF BadLostOne
        <4> QED
          BY <3>2, <4>1, <4>2
      <3> QED
        BY <1>15, <3>1, <3>4 DEF LostOne
    <2> QED
      BY <2>1, <2>2
  <1>17. SuccessMeans'
    <2>1. \A f : Touched(f)' = Touched(f)
      BY <1>2, <1>4 DEF Touched
    <2>2. \A i \in DOMAIN sent : ~ended[i].inline => ended[i].how = "landed"
      BY <1>15
    <2> QED
      BY <1>2, <1>3, <1>4, <1>5, <1>14, <1>16, <2>1, <2>2 DEF SuccessMeans
  <1> QED
    BY <1>6, <1>8, <1>9, <1>10, <1>11, <1>12, <1>13, <1>17 DEF IInv
-----------------------------------------------------------------------------
(* What holds of every array *)

LEMMA UnchangedKeeps ==
    ASSUME IInv, UNCHANGED vars
    PROVE  IInv'
  <1>1. /\ UNCHANGED <<dims, single, frameVars, flushVars, shards, todo, jobVars, streamVars>>
        /\ UNCHANGED <<pc, closing, result>>
    BY DEF vars
  <1>2. UNCHANGED <<accepting, error, frames_written, frames_to_flush, chunks, current_layer,
                    flushed_bands, append_chunk_index, live, sent, pending, ended>>
    BY <1>1 DEF frameVars, flushVars, jobVars, streamVars
  <1>3. /\ ChunkSlots' = ChunkSlots /\ Shards' = Shards /\ Bands' = Bands /\ Slots' = Slots
        /\ Layers' = Layers /\ Running' = Running
        /\ \A s : SlotsOf(s)' = SlotsOf(s) /\ ChunksPerShard(s)' = ChunksPerShard(s)
    BY <1>1, <1>2 DEF ChunkSlots, Shards, Bands, Slots, Layers, SlotsOf, ChunksPerShard, Running
  <1>4. /\ Counters' /\ Dispatched' /\ Filling' /\ FramesInTheirPlace'
        /\ \A row, layer, slot : SentTo(row, layer, slot)' <=> SentTo(row, layer, slot)
    <2>1. pc' = "flushed" => todo = {}
      BY <1>1 DEF IInv, Dispatched
    <2>2. Flushing' => Flushing
      BY <1>1 DEF Flushing
    <2> QED
      BY <1>1, <1>2, <2>1, <2>2, FlushKeeps
  <1>5. TypeOK'
    BY <1>1, <1>2, <1>3 DEF IInv, TypeOK
  <1>6. UpToHere'
    BY <1>1, <1>2, <1>3, <1>4 DEF IInv, UpToHere, Place
  <1>7. Rows' /\ Jobs' /\ Ending'
    BY <1>1, <1>2, <1>3 DEF IInv, Rows, Jobs, Ending, Flushing
  <1>8. Countdown'
    <2>1. \A r, s : Owing(r, s)' = Owing(r, s)
      BY <1>2, <1>3 DEF Owing
    <2> QED
      BY <1>1, <1>3, <2>1 DEF IInv, Countdown
  <1>9. StillOpen'
    <2>1. \A i : ShardOf(i)' = ShardOf(i)
      BY <1>1, <1>2 DEF ShardOf
    <2>2. \A layer, slot : SentTo(append_chunk_index, layer, slot)' <=>
                           SentTo(append_chunk_index, layer, slot)
      BY <1>2 DEF SentTo
    <2> QED
      BY <1>1, <1>2, <1>3, <2>1, <2>2 DEF IInv, StillOpen
  <1>10. BadLostOne'
    BY <1>1, <1>2, <1>3 DEF IInv, BadLostOne, LostOne
  <1>11. SuccessMeans'
    BY <1>1, <1>2, <1>3 DEF IInv, SuccessMeans, Touched
  <1> QED
    BY <1>4, <1>5, <1>6, <1>7, <1>8, <1>9, <1>10, <1>11 DEF IInv

\* The inductive invariant holds throughout: what an array knows of its frames
\* and bands, what it has dispatched, and what its shards still wait for.
THEOREM Invariant == Spec => []IInv
  <1>1. Init => IInv
    BY InitIInv
  <1>2. IInv /\ [Next]_vars => IInv'
    <2> SUFFICES ASSUME IInv, [Next]_vars PROVE IInv'
      OBVIOUS
    <2>1. CASE WriteFrame
      BY <2>1, WriteFrameKeeps
    <2>2. CASE MakeShards
      BY <2>2, MakeShardsKeeps
    <2>3. CASE MakeShardsThrows
      BY <2>3, MakeShardsThrowsKeeps
    <2>4. CASE FlushEnds
      BY <2>4, FlushEndsKeeps
    <2>5. CASE \E slot \in todo : DispatchJob(slot)
      BY <2>5, DispatchJobKeeps
    <2>6. CASE \E landed, ok \in BOOLEAN : InlineJob(landed, ok)
      BY <2>6, InlineJobKeeps
    <2>7. CASE \E ok \in BOOLEAN : EndFrame(ok)
      BY <2>7, EndFrameKeeps
    <2>8. CASE \E i \in pending, landed, ok \in BOOLEAN : PoolJob(i, landed, ok)
      BY <2>8, PoolJobKeeps
    <2>9. CASE \E row \in 0 .. Len(shards) - 1, s \in Shards, ok \in BOOLEAN :
                  DestroyShard(row, s, ok)
      BY <2>9, DestroyShardKeeps
    <2>10. CASE Close
      BY <2>10, CloseKeeps
    <2>11. CASE \E oks \in SUBSET Shards, ok \in BOOLEAN : FinalizeShards(oks, ok)
      BY <2>11, FinalizeShardsKeeps
    <2>12. CASE CloseFails
      BY <2>12, CloseFailsKeeps
    <2>13. CASE Closed
      BY <2>13, UnchangedKeeps DEF Closed
    <2>14. CASE UNCHANGED vars
      BY <2>14, UnchangedKeeps
    <2> QED
      BY <2>1, <2>2, <2>3, <2>4, <2>5, <2>6, <2>7, <2>8, <2>9, <2>10, <2>11, <2>12, <2>13,
         <2>14 DEF Next
  <1> QED
    BY <1>1, <1>2, PTL DEF Spec

\* Every variable keeps its type: the counters stay within the layer, the row
\* and the bands of the geometry, and no countdown goes below zero.
THEOREM TypeCorrect == Spec => []TypeOK
  <1>1. IInv => TypeOK
    BY DEF IInv
  <1> QED
    BY <1>1, Invariant, PTL

\* Every chunk job that write_frame or close_ dispatches carries all the frames
\* of its slot, layer and row, and no others.
THEOREM FramesPlaced == Spec => []FramesInTheirPlace
  <1>1. IInv => FramesInTheirPlace
    BY DEF IInv
  <1> QED
    BY <1>1, Invariant, PTL

\* No chunk is dispatched twice, by whatever sequence of bands, layers and a
\* close, and the array does not roll over before all chunks of its shards were.
THEOREM SlotsOnce == Spec => []EachSlotOnce
  <1>1. IInv => EachSlotOnce
    <2> SUFFICES ASSUME IInv PROVE EachSlotOnce
      OBVIOUS
    <2>1. TypeOK /\ UpToHere
      BY DEF IInv
    <2>2. ASSUME NEW row \in 0 .. append_chunk_index - 1, NEW p \in Places(row)
          PROVE  p \in {Place(sent[i]) : i \in DOMAIN sent}
      <3>1. /\ p = [row |-> row, layer |-> p.layer, slot |-> p.slot]
            /\ p.layer \in Layers /\ p.slot \in Slots
        BY DEF Places, Layers, Slots
      <3>2. SentTo(row, p.layer, p.slot)
        <4>1. row \in 0 .. append_chunk_index /\ row < append_chunk_index
          BY <2>1 DEF TypeOK
        <4> QED
          BY <2>1, <3>1, <4>1 DEF UpToHere
      <3>3. PICK i \in DOMAIN sent : /\ sent[i].row = row /\ sent[i].layer = p.layer
                                     /\ sent[i].slot = p.slot
        BY <3>2 DEF SentTo
      <3>4. p = Place(sent[i])
        BY <3>1, <3>3 DEF Place
      <3> QED
        BY <3>4
    <2>3. \A i, j \in DOMAIN sent : i # j => Place(sent[i]) # Place(sent[j])
      BY <2>1 DEF UpToHere
    <2> QED
      BY <2>2, <2>3 DEF EachSlotOnce
  <1> QED
    BY <1>1, Invariant, PTL

\* When finalize_stream reports success every frame was handed to a job, no job
\* of the pool failed, and a shard that did not land lost a job that ran inline.
THEOREM CloseMeans == Spec => []SuccessMeans
  <1>1. IInv => SuccessMeans
    BY DEF IInv
  <1> QED
    BY <1>1, Invariant, PTL
-----------------------------------------------------------------------------
(* To each of its shards the array is a ledger *)

\* A chunk has one job.
LEMMA OneJobPerChunk ==
    ASSUME UpToHere, NEW row, NEW chunk, NEW i \in DOMAIN sent, NEW j \in DOMAIN sent,
           Carries(sent[i], row, chunk), Carries(sent[j], row, chunk)
    PROVE  i = j
  <1>1. Place(sent[i]) = Place(sent[j])
    BY DEF Carries, Place
  <1> QED
    BY <1>1 DEF UpToHere

\* How the ledger's job of a chunk stands, now and after a step.
LEMMA JobIs ==
    ASSUME UpToHere, NEW row, NEW s, NEW chunk \in ChunksOf(s)
    PROVE  /\ (\A i \in DOMAIN sent : ~Carries(sent[i], row, chunk)) =>
                 JobsOf(row, s)[chunk] = "new"
           /\ \A i \in DOMAIN sent : Carries(sent[i], row, chunk) =>
                 JobsOf(row, s)[chunk] = ended[i].how
  <1>1. ASSUME NEW i \in DOMAIN sent, Carries(sent[i], row, chunk)
        PROVE  JobsOf(row, s)[chunk] = ended[i].how
    <2> DEFINE j == CHOOSE k \in DOMAIN sent : Carries(sent[k], row, chunk)
    <2>1. j \in DOMAIN sent /\ Carries(sent[j], row, chunk)
      BY <1>1
    <2>2. j = i
      BY <1>1, <2>1, OneJobPerChunk
    <2>3. JobsOf(row, s)[chunk] = ended[j].how
      BY <1>1 DEF JobsOf
    <2> QED
      BY <2>2, <2>3
  <1> QED
    BY <1>1 DEF JobsOf

LEMMA NextJobIs ==
    ASSUME UpToHere', NEW row, NEW s, NEW chunk, chunk \in ChunksOf(s)'
    PROVE  /\ (\A i \in DOMAIN sent' : ~Carries(sent'[i], row, chunk)) =>
                 JobsOf(row, s)'[chunk] = "new"
           /\ \A i \in DOMAIN sent' : Carries(sent'[i], row, chunk) =>
                 JobsOf(row, s)'[chunk] = ended'[i].how
  <1>1. ASSUME NEW i \in DOMAIN sent', Carries(sent'[i], row, chunk)
        PROVE  JobsOf(row, s)'[chunk] = ended'[i].how
    <2> DEFINE j == CHOOSE k \in DOMAIN sent' : Carries(sent'[k], row, chunk)
    <2>1. j \in DOMAIN sent' /\ Carries(sent'[j], row, chunk)
      BY <1>1
    <2> HIDE DEF j
    <2>2. j = i
      <3>1. Place(sent'[i]) = Place(sent'[j])
        BY <1>1, <2>1 DEF Carries, Place
      <3> QED
        BY <1>1, <2>1, <3>1 DEF UpToHere
    <2>3. JobsOf(row, s)'[chunk] = ended'[j].how
      BY <1>1 DEF JobsOf, j
    <2> QED
      BY <2>2, <2>3
  <1> QED
    BY <1>1 DEF JobsOf

\* A chunk's job stands as before if it ends as before and none is made for it.
LEMMA SameJob ==
    ASSUME IInv, IInv', dims' = dims, NEW row, NEW s, NEW chunk \in ChunksOf(s),
           DOMAIN sent \subseteq DOMAIN sent',
           \A i \in DOMAIN sent : sent'[i] = sent[i],
           \A i \in DOMAIN sent' : Carries(sent'[i], row, chunk) =>
              i \in DOMAIN sent /\ ended'[i].how = ended[i].how
    PROVE  JobsOf(row, s)'[chunk] = JobsOf(row, s)[chunk]
  <1>1. UpToHere /\ UpToHere' /\ chunk \in ChunksOf(s)'
    BY DEF IInv, ChunksOf, SlotsOf
  <1>2. CASE \E i \in DOMAIN sent : Carries(sent[i], row, chunk)
    <2>1. PICK i \in DOMAIN sent : Carries(sent[i], row, chunk)
      BY <1>2
    <2>2. i \in DOMAIN sent' /\ Carries(sent'[i], row, chunk)
      BY <2>1 DEF Carries
    <2>3. JobsOf(row, s)[chunk] = ended[i].how
      BY <1>1, <2>1, JobIs
    <2>4. JobsOf(row, s)'[chunk] = ended'[i].how
      BY <1>1, <2>2, NextJobIs
    <2> QED
      BY <2>2, <2>3, <2>4
  <1>3. CASE \A i \in DOMAIN sent : ~Carries(sent[i], row, chunk)
    <2>1. \A i \in DOMAIN sent' : ~Carries(sent'[i], row, chunk)
      BY <1>3 DEF Carries
    <2> QED
      BY <1>1, <1>3, <2>1, JobIs, NextJobIs
  <1> QED
    BY <1>2, <1>3

\* The ledger after a step that leaves all jobs as they are, or one.
LEMMA SameJobs ==
    ASSUME dims' = dims, NEW row, NEW s,
           \A chunk \in ChunksOf(s) : JobsOf(row, s)'[chunk] = JobsOf(row, s)[chunk]
    PROVE  JobsOf(row, s)' = JobsOf(row, s)
  <1>1. ChunksOf(s)' = ChunksOf(s)
    BY DEF ChunksOf, SlotsOf
  <1>2. /\ JobsOf(row, s) = [chunk \in ChunksOf(s) |-> JobsOf(row, s)[chunk]]
        /\ JobsOf(row, s)' = [chunk \in ChunksOf(s)' |-> JobsOf(row, s)'[chunk]]
    BY DEF JobsOf
  <1> QED
    BY <1>1, <1>2

LEMMA OneJobChanges ==
    ASSUME dims' = dims, NEW row, NEW s, NEW own \in ChunksOf(s), NEW how,
           JobsOf(row, s)'[own] = how,
           \A chunk \in ChunksOf(s) \ {own} : JobsOf(row, s)'[chunk] = JobsOf(row, s)[chunk]
    PROVE  JobsOf(row, s)' = [JobsOf(row, s) EXCEPT ![own] = how]
  <1>1. ChunksOf(s)' = ChunksOf(s)
    BY DEF ChunksOf, SlotsOf
  <1>2. /\ JobsOf(row, s) = [chunk \in ChunksOf(s) |-> JobsOf(row, s)[chunk]]
        /\ JobsOf(row, s)' = [chunk \in ChunksOf(s)' |-> JobsOf(row, s)'[chunk]]
    BY DEF JobsOf
  <1> QED
    BY <1>1, <1>2

\* A step that makes and ends no job and finalizes no shard.
LEMMA QuietForLedger ==
    ASSUME UNCHANGED <<dims, sent, ended, shards>>, NEW row, NEW s
    PROVE  UNCHANGED Ledger(row, s)!ledgerVars
  <1>1. OutcomeOf(row, s)' = OutcomeOf(row, s)
    BY DEF OutcomeOf, Shards
  <1>2. JobsOf(row, s)' = JobsOf(row, s)
    BY DEF JobsOf, ChunksOf, SlotsOf, Carries
  <1> QED
    BY <1>1, <1>2 DEF Ledger!ledgerVars

\* A step that changes the shards alone, and this one not or from open.
LEMMA ShardsForLedger ==
    ASSUME UNCHANGED <<dims, sent, ended>>, NEW row, NEW s,
           \/ OutcomeOf(row, s)' = OutcomeOf(row, s)
           \/ /\ OutcomeOf(row, s) = "open" /\ OutcomeOf(row, s)' \in {"ok", "bad"}
              /\ \A chunk \in ChunksOf(s) : JobsOf(row, s)[chunk] # "pending"
    PROVE  [Ledger(row, s)!LedgerNext]_(Ledger(row, s)!ledgerVars)
  <1>1. JobsOf(row, s)' = JobsOf(row, s) /\ DOMAIN JobsOf(row, s) = ChunksOf(s)
    BY DEF JobsOf, ChunksOf, SlotsOf, Carries
  <1>2. CASE OutcomeOf(row, s)' = OutcomeOf(row, s)
    BY <1>1, <1>2 DEF Ledger!ledgerVars
  <1>3. CASE /\ OutcomeOf(row, s) = "open" /\ OutcomeOf(row, s)' \in {"ok", "bad"}
             /\ \A chunk \in ChunksOf(s) : JobsOf(row, s)[chunk] # "pending"
    <2>1. PICK ok \in BOOLEAN : OutcomeOf(row, s)' = IF ok THEN "ok" ELSE "bad"
      BY <1>3
    <2>2. Ledger(row, s)!Finishes(ok)
      BY <1>1, <1>3, <2>1 DEF Ledger!Finishes
    <2> QED
      BY <2>2 DEF Ledger!LedgerNext
  <1> QED
    BY <1>2, <1>3

\* A row of shards is made: they are open, as they were taken to be.
LEMMA MakeShardsForLedger ==
    ASSUME IInv, MakeShards, NEW row \in Nat, NEW s
    PROVE  [Ledger(row, s)!LedgerNext]_(Ledger(row, s)!ledgerVars)
  <1> DEFINE new == [t \in Shards |-> [unwritten |-> ChunksPerShard(t), state |-> "open"]]
  <1>1. /\ shards' = Append(shards, new)
        /\ UNCHANGED <<dims, sent, ended>>
    BY DEF MakeShards, jobVars
  <1>2. shards \in Seq([Shards -> [unwritten : Nat, state : {"open", "ok", "bad"}]])
    BY DEF IInv, TypeOK
  <1>3. /\ DOMAIN shards = 1 .. Len(shards) /\ Len(shards) \in Nat
        /\ DOMAIN shards' = 1 .. Len(shards) + 1
        /\ \A q \in DOMAIN shards : shards'[q] = shards[q]
        /\ shards'[Len(shards) + 1] = new
    BY <1>1, <1>2
  <1>4. OutcomeOf(row, s)' = OutcomeOf(row, s)
    <2>1. Shards' = Shards
      BY <1>1 DEF Shards
    <2>2. CASE row + 1 \in DOMAIN shards
      BY <1>3, <2>1, <2>2 DEF OutcomeOf
    <2>3. CASE row + 1 = Len(shards) + 1 /\ s \in Shards
      <3>1. new[s].state = "open"
        BY <2>3
      <3> HIDE DEF new
      <3> QED
        BY <1>3, <2>1, <2>3, <3>1 DEF OutcomeOf
    <2>4. CASE row + 1 \notin DOMAIN shards' \/ s \notin Shards
      BY <1>3, <2>1, <2>4 DEF OutcomeOf
    <2> QED
      BY <1>3, <2>2, <2>3, <2>4
  <1> QED
    BY <1>1, <1>4, ShardsForLedger

\* A chunk that is dispatched had no job before, and its shard is open: one that
\* is not has had all its jobs.
LEMMA DispatchForLedger ==
    ASSUME IInv, IInv', NEW slot \in todo, DispatchJob(slot), NEW row \in Nat, NEW s
    PROVE  [Ledger(row, s)!LedgerNext]_(Ledger(row, s)!ledgerVars)
  <1> DEFINE n == Len(sent) + 1
             own == <<current_layer, slot>>
             job == [row |-> append_chunk_index, layer |-> current_layer, slot |-> slot,
                     frames |-> IF slot \in ChunkSlots THEN chunks[slot] ELSE {}]
             mark == [how |-> "pending", inline |-> ~OnPool]
  <1>1. TypeOK /\ Dispatched /\ Rows /\ StillOpen /\ UpToHere /\ UpToHere'
    BY DEF IInv
  <1>2. /\ pc = "dispatch" /\ sent' = Append(sent, job) /\ ended' = Append(ended, mark)
        /\ dims' = dims /\ shards' = shards
    BY DEF DispatchJob
  <1>3. /\ job.row = append_chunk_index /\ job.layer = current_layer /\ job.slot = slot
        /\ mark.how = "pending"
    OBVIOUS
  <1> HIDE DEF job, mark
  <1>4. /\ DOMAIN sent = 1 .. Len(sent) /\ DOMAIN sent' = DOMAIN sent \cup {n}
        /\ n \notin DOMAIN sent /\ sent'[n] = job /\ ended'[n] = mark
        /\ \A i \in DOMAIN sent : sent'[i] = sent[i] /\ ended'[i] = ended[i]
    BY <1>1, <1>2 DEF TypeOK
  <1> HIDE DEF n
  <1>5. /\ live /\ slot \in Slots /\ ~Gone(slot) /\ current_layer \in Layers
        /\ append_chunk_index + 1 \in DOMAIN shards /\ append_chunk_index \in Nat
    <2>1. live /\ Len(shards) = append_chunk_index + 1
      BY <1>1, <1>2 DEF Rows
    <2>2. DOMAIN shards = 1 .. Len(shards) /\ append_chunk_index \in Nat
      BY <1>1 DEF TypeOK
    <2>3. Flushing
      BY <1>2 DEF Flushing
    <2> QED
      BY <1>1, <2>1, <2>2, <2>3 DEF TypeOK, Dispatched, Slots, Layers
  <1>6. OutcomeOf(row, s)' = OutcomeOf(row, s)
    BY <1>2 DEF OutcomeOf, Shards
  <1>7. CASE row = append_chunk_index /\ s = dims.shard[slot]
    <2>1. own \in ChunksOf(s) /\ s \in Shards /\ own[1] = current_layer /\ own[2] = slot
      BY <1>5, <1>7 DEF ChunksOf, SlotsOf, Layers, Slots, Shards
    <2>2. OutcomeOf(row, s) = "open"
      <3> SUFFICES ASSUME OutcomeOf(row, s) # "open" PROVE FALSE
        OBVIOUS
      <3>1. shards[append_chunk_index + 1][s].state # "open"
        BY <1>5, <1>7, <2>1 DEF OutcomeOf
      <3>2. SentTo(append_chunk_index, current_layer, slot)
        BY <1>1, <1>5, <2>1, <3>1 DEF StillOpen, ChunksOf
      <3> QED
        BY <1>5, <3>2 DEF Gone
    <2>3. JobsOf(row, s)[own] = "new"
      <3>1. \A i \in DOMAIN sent : ~Carries(sent[i], row, own)
        BY <1>5, <1>7, <2>1 DEF Carries, Gone, SentTo
      <3> QED
        BY <1>1, <2>1, <3>1, JobIs
    <2>4. JobsOf(row, s)'[own] = "pending"
      <3>1. Carries(sent'[n], row, own)
        BY <1>3, <1>4, <1>7, <2>1 DEF Carries
      <3>2. own \in ChunksOf(s)'
        BY <1>2, <2>1 DEF ChunksOf, SlotsOf
      <3> HIDE DEF own
      <3> QED
        BY <1>1, <1>3, <1>4, <3>1, <3>2, NextJobIs
    <2>5. \A chunk \in ChunksOf(s) \ {own} : JobsOf(row, s)'[chunk] = JobsOf(row, s)[chunk]
      <3> SUFFICES ASSUME NEW chunk \in ChunksOf(s), chunk # own
                   PROVE  JobsOf(row, s)'[chunk] = JobsOf(row, s)[chunk]
        OBVIOUS
      <3>1. chunk = <<chunk[1], chunk[2]>>
        BY DEF ChunksOf
      <3>2. ~Carries(sent'[n], row, chunk)
        BY <1>3, <1>4, <3>1 DEF Carries
      <3>3. /\ DOMAIN sent \subseteq DOMAIN sent' /\ dims' = dims
            /\ \A i \in DOMAIN sent : sent'[i] = sent[i] /\ ended'[i].how = ended[i].how
        BY <1>2, <1>4
      <3>4. \A i \in DOMAIN sent' : Carries(sent'[i], row, chunk) =>
               i \in DOMAIN sent /\ ended'[i].how = ended[i].how
        BY <1>4, <3>2, <3>3
      <3> QED
        BY <3>3, <3>4, SameJob
    <2>6. JobsOf(row, s)' = [JobsOf(row, s) EXCEPT ![own] = "pending"]
      <3> HIDE DEF own
      <3> QED
        BY <1>2, <2>1, <2>4, <2>5, OneJobChanges
    <2>7. own \in DOMAIN JobsOf(row, s)
      BY <2>1 DEF JobsOf
    <2> HIDE DEF own
    <2>8. Ledger(row, s)!Dispatched(own)
      BY <1>6, <2>2, <2>3, <2>6 DEF Ledger!Dispatched
    <2> QED
      BY <2>7, <2>8 DEF Ledger!LedgerNext
  <1>8. CASE ~(row = append_chunk_index /\ s = dims.shard[slot])
    <2>1. \A chunk \in ChunksOf(s) : JobsOf(row, s)'[chunk] = JobsOf(row, s)[chunk]
      <3> SUFFICES ASSUME NEW chunk \in ChunksOf(s)
                   PROVE  JobsOf(row, s)'[chunk] = JobsOf(row, s)[chunk]
        OBVIOUS
      <3>1. dims.shard[chunk[2]] = s
        BY DEF ChunksOf, SlotsOf
      <3>2. ~Carries(sent'[n], row, chunk)
        BY <1>3, <1>4, <1>8, <3>1 DEF Carries
      <3>3. /\ DOMAIN sent \subseteq DOMAIN sent' /\ dims' = dims
            /\ \A i \in DOMAIN sent : sent'[i] = sent[i] /\ ended'[i].how = ended[i].how
        BY <1>2, <1>4
      <3>4. \A i \in DOMAIN sent' : Carries(sent'[i], row, chunk) =>
               i \in DOMAIN sent /\ ended'[i].how = ended[i].how
        BY <1>4, <3>2, <3>3
      <3> QED
        BY <3>3, <3>4, SameJob
    <2>2. JobsOf(row, s)' = JobsOf(row, s)
      BY <1>2, <2>1, SameJobs
    <2> QED
      BY <1>6, <2>2 DEF Ledger!ledgerVars
  <1> QED
    BY <1>7, <1>8

\* A job that runs lands or is lost on a shard that is open; the countdown finds
\* the one that is the last to land.
LEMMA RunForLedger ==
    ASSUME IInv, IInv', NEW i \in Running, NEW landed \in BOOLEAN, NEW ok \in BOOLEAN,
           RunJob(i, landed, ok), UNCHANGED <<dims, sent>>, NEW row \in Nat, NEW s
    PROVE  [Ledger(row, s)!LedgerNext]_(Ledger(row, s)!ledgerVars)
  <1> DEFINE own == <<sent[i].layer, sent[i].slot>>
             owed == Owing(sent[i].row, JobShard(i))
             after == After(i, landed, ok)
             how == How(i, landed, ok)
  <1>1. TypeOK /\ UpToHere /\ UpToHere'
    BY DEF IInv
  <1>2. /\ i \in DOMAIN sent /\ ended[i].how = "pending"
        /\ sent[i].row + 1 \in DOMAIN shards /\ sent[i].row \in Nat /\ JobShard(i) \in Shards
        /\ ShardOf(i) \in [unwritten : Nat, state : {"open", "ok", "bad"}]
        /\ ShardOf(i).state = "open" /\ ShardOf(i).unwritten > 0
        /\ IsFiniteSet(owed) /\ own \in owed /\ ShardOf(i).unwritten = Cardinality(owed)
        /\ ShardOf(i).unwritten = 1 => owed = {own}
    BY RunningJob DEF JobShard
  <1>3. /\ DOMAIN shards' = DOMAIN shards
        /\ \A q \in DOMAIN shards, t \in Shards :
              shards'[q][t] = IF q = sent[i].row + 1 /\ t = JobShard(i)
                              THEN after ELSE shards[q][t]
        /\ ended'[i].how = how
        /\ \A j \in DOMAIN sent \ {i} : ended'[j] = ended[j]
    BY RunJobDoes
  <1>4. Shards' = Shards
    BY DEF Shards
  <1>5. own[1] = sent[i].layer /\ own[2] = sent[i].slot
    OBVIOUS
  <1>6. CASE row = sent[i].row /\ s = JobShard(i)
    <2>1. own \in ChunksOf(s) /\ s \in Shards
      <3>1. own \in Layers \X SlotsOf(s)
        BY <1>2, <1>6 DEF Owing
      <3> QED
        BY <1>2, <1>6, <3>1 DEF ChunksOf, Layers
    <2>2. OutcomeOf(row, s) = "open" /\ OutcomeOf(row, s)' = after.state
      <3>1. ShardOf(i) = shards[row + 1][s]
        BY <1>6 DEF ShardOf, JobShard
      <3>2. row + 1 \in DOMAIN shards /\ row + 1 \in DOMAIN shards'
        BY <1>2, <1>3, <1>6
      <3>3. shards'[row + 1][s] = after
        BY <1>3, <1>6, <2>1, <3>2
      <3> HIDE DEF after
      <3> QED
        BY <1>2, <1>4, <2>1, <3>1, <3>2, <3>3 DEF OutcomeOf
    <2>3. Carries(sent[i], row, own) /\ Carries(sent'[i], row, own)
      BY <1>2, <1>5, <1>6 DEF Carries
    <2>4. JobsOf(row, s)[own] = "pending" /\ JobsOf(row, s)'[own] = how
      <3>1. own \in ChunksOf(s)'
        BY <2>1 DEF ChunksOf, SlotsOf
      <3> HIDE DEF own, how
      <3> QED
        BY <1>1, <1>2, <1>3, <2>1, <2>3, <3>1, JobIs, NextJobIs
    <2>5. \A chunk \in ChunksOf(s) \ {own} : JobsOf(row, s)'[chunk] = JobsOf(row, s)[chunk]
      <3> SUFFICES ASSUME NEW chunk \in ChunksOf(s), chunk # own
                   PROVE  JobsOf(row, s)'[chunk] = JobsOf(row, s)[chunk]
        OBVIOUS
      <3>1. chunk = <<chunk[1], chunk[2]>>
        BY DEF ChunksOf
      <3>2. ~Carries(sent'[i], row, chunk)
        BY <3>1 DEF Carries
      <3> QED
        BY <1>3, <3>2, SameJob DEF Carries
    <2>6. JobsOf(row, s)' = [JobsOf(row, s) EXCEPT ![own] = how]
      <3> HIDE DEF own, how
      <3> QED
        BY <2>1, <2>4, <2>5, OneJobChanges
    <2>7. own \in DOMAIN JobsOf(row, s) /\ DOMAIN JobsOf(row, s) = ChunksOf(s)
      BY <2>1 DEF JobsOf
    <2>8. CASE ~landed
      <3>1. after.state = "open" /\ how = "lost"
        BY <1>2, <2>8 DEF After, ShardAfter, How
      <3> HIDE DEF own, after, how
      <3>2. Ledger(row, s)!IsLost(own)
        BY <2>2, <2>4, <2>6, <3>1 DEF Ledger!IsLost
      <3> QED
        BY <2>7, <3>2 DEF Ledger!LedgerNext
    <2>9. CASE landed /\ ShardOf(i).unwritten = 1
      <3>1. /\ after.state = IF ok THEN "ok" ELSE "bad"
            /\ how = IF ok THEN "landed" ELSE "lost"
        BY <1>2, <2>9 DEF After, ShardAfter, How
      <3>2. \A chunk \in ChunksOf(s) \ {own} : JobsOf(row, s)[chunk] = "landed"
        <4> SUFFICES ASSUME NEW chunk \in ChunksOf(s), chunk # own
                     PROVE  JobsOf(row, s)[chunk] = "landed"
          OBVIOUS
        <4>1. chunk \notin owed
          BY <1>2, <2>9
        <4>2. PICK j \in DOMAIN sent : /\ sent[j].row = row /\ sent[j].layer = chunk[1]
                                       /\ sent[j].slot = chunk[2] /\ ended[j].how = "landed"
          BY <1>6, <4>1 DEF Owing, ChunksOf, Layers
        <4>3. Carries(sent[j], row, chunk)
          BY <4>2 DEF Carries
        <4> QED
          BY <1>1, <4>2, <4>3, JobIs
      <3> HIDE DEF own, after, how
      <3>3. Ledger(row, s)!LandsLast(own, ok)
        BY <2>2, <2>4, <2>6, <2>7, <3>1, <3>2 DEF Ledger!LandsLast, Ledger!OthersLanded
      <3> QED
        BY <2>7, <3>3 DEF Ledger!LedgerNext
    <2>10. CASE landed /\ ShardOf(i).unwritten # 1
      <3>1. after.state = "open" /\ how = "landed"
        BY <1>2, <2>10 DEF After, ShardAfter, How
      <3>2. PICK other \in owed : other # own
        <4> SUFFICES ASSUME \A other \in owed : other = own PROVE FALSE
          OBVIOUS
        <4> HIDE DEF own, owed
        <4>1. owed = {own}
          BY <1>2
        <4> QED
          BY <1>2, <2>10, <4>1, FS_Singleton
      <3>3. other \in ChunksOf(s)
        BY <1>6, <3>2 DEF Owing, ChunksOf, Layers
      <3>4. JobsOf(row, s)[other] # "landed"
        <4>1. \A j \in DOMAIN sent : Carries(sent[j], row, other) => ended[j].how # "landed"
          BY <1>6, <3>2 DEF Owing, Carries
        <4> QED
          BY <1>1, <3>3, <4>1, JobIs
      <3> HIDE DEF own, after, how
      <3>5. Ledger(row, s)!Lands(own)
        BY <2>2, <2>4, <2>6, <2>7, <3>1, <3>2, <3>3, <3>4
           DEF Ledger!Lands, Ledger!OthersLanded
      <3> QED
        BY <2>7, <3>5 DEF Ledger!LedgerNext
    <2> QED
      BY <2>8, <2>9, <2>10
  <1>7. CASE ~(row = sent[i].row /\ s = JobShard(i))
    <2>1. OutcomeOf(row, s)' = OutcomeOf(row, s)
      <3>1. row + 1 = sent[i].row + 1 => row = sent[i].row
        BY <1>2
      <3> HIDE DEF after
      <3> QED
        BY <1>3, <1>4, <1>7, <3>1 DEF OutcomeOf
    <2>2. \A chunk \in ChunksOf(s) : JobsOf(row, s)'[chunk] = JobsOf(row, s)[chunk]
      <3> SUFFICES ASSUME NEW chunk \in ChunksOf(s)
                   PROVE  JobsOf(row, s)'[chunk] = JobsOf(row, s)[chunk]
        OBVIOUS
      <3>1. dims.shard[chunk[2]] = s
        BY DEF ChunksOf, SlotsOf
      <3>2. ~Carries(sent'[i], row, chunk)
        BY <1>7, <3>1 DEF Carries, JobShard
      <3> QED
        BY <1>3, <3>2, SameJob DEF Carries
    <2>3. JobsOf(row, s)' = JobsOf(row, s)
      BY <2>2, SameJobs
    <2> QED
      BY <2>1, <2>3 DEF Ledger!ledgerVars
  <1> QED
    BY <1>6, <1>7

\* A shard is destroyed, or finalized at close, when none of its jobs is under
\* way.
LEMMA NoneUnderWay ==
    ASSUME IInv, NEW row \in Nat, NEW s,
           \A i \in Running : ~(sent[i].row = row /\ dims.shard[sent[i].slot] = s)
    PROVE  \A chunk \in ChunksOf(s) : JobsOf(row, s)[chunk] # "pending"
  <1> SUFFICES ASSUME NEW chunk \in ChunksOf(s), JobsOf(row, s)[chunk] = "pending"
               PROVE  FALSE
    OBVIOUS
  <1>1. UpToHere /\ Jobs
    BY DEF IInv
  <1>2. PICK i \in DOMAIN sent : Carries(sent[i], row, chunk)
    BY <1>1, JobIs
  <1>3. ended[i].how = "pending"
    BY <1>1, <1>2, JobIs
  <1>4. i \in Running
    BY <1>1, <1>3 DEF Jobs
  <1>5. sent[i].row = row /\ dims.shard[sent[i].slot] = s
    BY <1>2 DEF Carries, ChunksOf, SlotsOf
  <1> QED
    BY <1>4, <1>5

LEMMA DestroyForLedger ==
    ASSUME IInv, NEW r \in 0 .. Len(shards) - 1, NEW t \in Shards, NEW ok \in BOOLEAN,
           DestroyShard(r, t, ok), NEW row \in Nat, NEW s
    PROVE  [Ledger(row, s)!LedgerNext]_(Ledger(row, s)!ledgerVars)
  <1> DEFINE state == IF ok THEN "ok" ELSE "bad"
             RowSet == [Shards -> [unwritten : Nat, state : {"open", "ok", "bad"}]]
             newRow == [shards[r + 1] EXCEPT ![t].state = state]
  <1>1. /\ shards[r + 1][t].state = "open" /\ ~Held(r, t)
        /\ UNCHANGED <<dims, sent, ended>>
        /\ shards' = [shards EXCEPT ![r + 1] = newRow]
    BY DEF DestroyShard, jobVars
  <1>2. shards \in Seq(RowSet)
    BY DEF IInv, TypeOK
  <1>3. r + 1 \in DOMAIN shards /\ shards[r + 1] \in RowSet /\ r \in Nat
    <2> HIDE DEF RowSet
    <2> QED
      BY <1>2
  <1>4. /\ newRow[t].state = state
        /\ \A x \in Shards \ {t} : newRow[x] = shards[r + 1][x]
    BY <1>3
  <1> HIDE DEF newRow, RowSet
  <1>5. /\ DOMAIN shards' = DOMAIN shards /\ shards'[r + 1] = newRow
        /\ \A q \in DOMAIN shards \ {r + 1} : shards'[q] = shards[q]
    BY <1>1, <1>3
  <1>6. Shards' = Shards
    BY <1>1 DEF Shards
  <1>7. CASE row = r /\ s = t
    <2>1. OutcomeOf(row, s) = "open" /\ OutcomeOf(row, s)' = state
      BY <1>1, <1>3, <1>4, <1>5, <1>6, <1>7 DEF OutcomeOf
    <2>2. \A i \in Running : ~(sent[i].row = row /\ dims.shard[sent[i].slot] = s)
      BY <1>1, <1>7 DEF Held, Running
    <2> QED
      BY <1>1, <2>1, <2>2, NoneUnderWay, ShardsForLedger
  <1>8. CASE ~(row = r /\ s = t)
    <2>1. OutcomeOf(row, s)' = OutcomeOf(row, s)
      <3>1. CASE row = r
        BY <1>3, <1>4, <1>5, <1>6, <1>8, <3>1 DEF OutcomeOf
      <3>2. CASE row + 1 # r + 1
        BY <1>5, <1>6, <3>2 DEF OutcomeOf
      <3> QED
        BY <1>3, <3>1, <3>2
    <2> QED
      BY <1>1, <2>1, ShardsForLedger
  <1> QED
    BY <1>7, <1>8

LEMMA FinalizeForLedger ==
    ASSUME IInv, NEW oks \in SUBSET Shards, NEW ok \in BOOLEAN, FinalizeShards(oks, ok),
           NEW row \in Nat, NEW s
    PROVE  [Ledger(row, s)!LedgerNext]_(Ledger(row, s)!ledgerVars)
  <1> DEFINE q == row + 1
             ShardSet == [unwritten : Nat, state : {"open", "ok", "bad"}]
  <1>1. /\ pc = "flushed" /\ closing /\ UNCHANGED <<dims, sent, ended>>
    BY DEF FinalizeShards, jobVars
  <1>2. /\ shards' \in Seq([Shards -> ShardSet]) /\ DOMAIN shards' = DOMAIN shards
        /\ \A x \in DOMAIN shards, t \in Shards :
              /\ shards[x][t].state # "open" \/ ~live \/ x # append_chunk_index + 1 =>
                    shards'[x][t] = shards[x][t]
              /\ live /\ x = append_chunk_index + 1 => shards'[x][t].state # "open"
    BY FinalizedShards
  <1>3. Shards' = Shards
    BY <1>1 DEF Shards
  <1>4. CASE q \in DOMAIN shards /\ s \in Shards
    <2>1. OutcomeOf(row, s) = shards[q][s].state /\ OutcomeOf(row, s)' = shards'[q][s].state
      BY <1>2, <1>3, <1>4 DEF OutcomeOf
    <2>2. shards'[q][s].state \in {"open", "ok", "bad"}
      <3>1. shards'[q] \in [Shards -> ShardSet]
        <4> HIDE DEF ShardSet
        <4>1. DOMAIN shards' = 1 .. Len(shards')
          BY <1>2
        <4> QED
          BY <1>2, <1>4, <4>1
      <3> QED
        BY <1>4, <3>1
    <2>3. CASE shards'[q][s] = shards[q][s]
      BY <1>1, <2>1, <2>3, ShardsForLedger
    <2>4. CASE shards'[q][s] # shards[q][s]
      <3>1. shards[q][s].state = "open" /\ shards'[q][s].state # "open"
        BY <1>2, <1>4, <2>4
      <3>2. Running = {}
        BY <1>1 DEF IInv, Ending, Running
      <3>3. \A i \in Running : ~(sent[i].row = row /\ dims.shard[sent[i].slot] = s)
        BY <3>2
      <3> QED
        BY <1>1, <2>1, <2>2, <3>1, <3>3, NoneUnderWay, ShardsForLedger
    <2> QED
      BY <2>3, <2>4
  <1>5. CASE ~(q \in DOMAIN shards /\ s \in Shards)
    <2>1. OutcomeOf(row, s)' = OutcomeOf(row, s)
      BY <1>2, <1>3, <1>5 DEF OutcomeOf
    <2> QED
      BY <1>1, <2>1, ShardsForLedger
  <1> QED
    BY <1>4, <1>5

\* Every step of the array is a step of the ledger of any of its shards.
LEMMA StepForLedger ==
    ASSUME IInv, IInv', [Next]_vars, NEW row \in Nat, NEW s
    PROVE  [Ledger(row, s)!LedgerNext]_(Ledger(row, s)!ledgerVars)
  <1>1. CASE UNCHANGED <<dims, sent, ended, shards>>
    BY <1>1, QuietForLedger
  <1>2. CASE \/ WriteFrame \/ MakeShardsThrows \/ FlushEnds
             \/ \E ok \in BOOLEAN : EndFrame(ok)
             \/ Close \/ CloseFails \/ Closed \/ UNCHANGED vars
    BY <1>1, <1>2 DEF WriteFrame, MakeShardsThrows, FlushEnds, EndFrame, Close, CloseFails,
                      Closed, vars, jobVars
  <1>3. CASE MakeShards
    BY <1>3, MakeShardsForLedger
  <1>4. CASE \E slot \in todo : DispatchJob(slot)
    BY <1>4, DispatchForLedger
  <1>5. CASE \E landed, ok \in BOOLEAN : InlineJob(landed, ok)
    <2>1. PICK landed \in BOOLEAN, ok \in BOOLEAN : InlineJob(landed, ok)
      BY <1>5
    <2>2. Len(sent) \in Running /\ RunJob(Len(sent), landed, ok) /\ UNCHANGED <<dims, sent>>
      BY <2>1 DEF InlineJob, Running
    <2> QED
      BY <2>2, RunForLedger
  <1>6. CASE \E i \in pending, landed, ok \in BOOLEAN : PoolJob(i, landed, ok)
    <2>1. PICK i \in pending, landed \in BOOLEAN, ok \in BOOLEAN : PoolJob(i, landed, ok)
      BY <1>6
    <2>2. i \in Running /\ RunJob(i, landed, ok) /\ UNCHANGED <<dims, sent>>
      BY <2>1 DEF PoolJob, Running
    <2> QED
      BY <2>2, RunForLedger
  <1>7. CASE \E r \in 0 .. Len(shards) - 1, t \in Shards, ok \in BOOLEAN :
                DestroyShard(r, t, ok)
    BY <1>7, DestroyForLedger
  <1>8. CASE \E oks \in SUBSET Shards, ok \in BOOLEAN : FinalizeShards(oks, ok)
    BY <1>8, FinalizeForLedger
  <1> QED
    BY <1>2, <1>3, <1>4, <1>5, <1>6, <1>7, <1>8 DEF Next

\* Any shard of any row is used, from its first job to its last, as ShardLedger
\* says, which is what Shard implements: array and shard fit together.
THEOREM ArrayKeepsLedgers ==
    \A row \in Nat, s \in AnyShard : Spec => Ledger(row, s)!LedgerSpec
  <1> SUFFICES ASSUME NEW row \in Nat, NEW s \in AnyShard
               PROVE  Spec => Ledger(row, s)!LedgerSpec
    OBVIOUS
  <1>1. Init => Ledger(row, s)!LedgerInit
    <2> SUFFICES ASSUME Init PROVE Ledger(row, s)!LedgerInit
      OBVIOUS
    <2>1. DOMAIN shards = {} /\ DOMAIN sent = {}
      BY DEF Init
    <2>2. OutcomeOf(row, s) = "open"
      BY <2>1 DEF OutcomeOf
    <2>3. \A chunk \in DOMAIN JobsOf(row, s) : JobsOf(row, s)[chunk] = "new"
      BY <2>1 DEF JobsOf
    <2> QED
      BY <2>2, <2>3 DEF Ledger!LedgerInit
  <1>2. IInv /\ IInv' /\ [Next]_vars =>
           [Ledger(row, s)!LedgerNext]_(Ledger(row, s)!ledgerVars)
    BY StepForLedger
  <1> QED
    BY <1>1, <1>2, Invariant, PTL DEF Spec, Ledger!LedgerSpec

\* The same of all its shards at once, in the form that can be checked.
THEOREM LedgersKept == Spec => ShardsAreLedgers
  <1> DEFINE step == \A row \in 0 .. MaxFrames, s \in AnyShard :
                        [Ledger(row, s)!LedgerNext]_(Ledger(row, s)!ledgerVars)
  <1>1. IInv /\ IInv' /\ [Next]_vars => step
    BY StepForLedger
  <1>2. IInv /\ IInv' /\ [Next]_vars => [step]_vars
    BY <1>1
  <1> QED
    BY <1>2, Invariant, PTL DEF Spec, ShardsAreLedgers
=============================================================================
