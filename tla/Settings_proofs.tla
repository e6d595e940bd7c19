----------------------------- MODULE Settings_proofs ------------------------
(***************************************************************************)
(* Proofs about Settings for any settings a caller has in mind, any        *)
(* streams made of them and any rebuilt lists.                             *)
(*                                                                         *)
(* Everything rests on what settings keep (Kept): whatever is dumped,      *)
(* loaded or given keys by a stream stays like what the caller wrote       *)
(* (Alike), part by part.  Lists of parts are joined with FlattenSeq, so   *)
(* the proofs begin with induction over it: the theorems of the library    *)
(* take an operator, sets of naturals serve instead.                       *)
(***************************************************************************)
EXTENDS Settings, SequenceTheorems, FiniteSetTheorems, WellFoundedInduction, TLAPS

-----------------------------------------------------------------------------
(* Sequences that are joined *)

\* A set of naturals that is not empty has a least element.
LEMMA LeastNatural ==
  ASSUME NEW T, T \subseteq Nat, T # {}
  PROVE  \E x \in T : \A y \in T : x =< y
<1> DEFINE R == {ss \in Nat \X Nat : ss[1] < ss[2]}
<1>1. IsWellFoundedOn(R, Nat)
  BY NatLessThanWellFounded, Zenon DEF OpToRel
<1>2. \A x, y \in Nat : x < y => <<x, y>> \in R
  OBVIOUS
<1> HIDE DEF R
<1>3. PICK x \in T : \A y \in T : ~ (<<y, x>> \in R)
  BY <1>1, WFMin
<1>4. \A y \in T : ~ (y < x)
  BY <1>2, <1>3
<1> QED
  BY <1>4

\* Induction over naturals, for a set instead of an operator.
LEMMA NatInd ==
  ASSUME NEW S, 0 \in S, \A n \in Nat : n \in S => n + 1 \in S
  PROVE  \A n \in Nat : n \in S
<1>1. SUFFICES ASSUME NEW n \in Nat, n \notin S PROVE FALSE
  OBVIOUS
<1>2. PICK x \in Nat \ S : \A y \in Nat \ S : x =< y
  BY <1>1, LeastNatural
<1>3. x # 0 /\ x - 1 \in Nat
  BY <1>2
<1>4. x - 1 \in S
  BY <1>2, <1>3
<1> QED BY <1>2, <1>3, <1>4

\* The function that FlattenSeq folds with.
Joined(a, b) == a \o b
\* Its values from the left, for the first n elements.
Folding(f, s, n) == f = [i \in 1 .. n |-> IF i = 1 THEN s[i] ELSE Joined(f[i - 1], s[i])]

LEMMA FoldingExists ==
  ASSUME NEW s, NEW n \in Nat
  PROVE  \E f : Folding(f, s, n)
<1> DEFINE S == {m \in Nat : \E f : Folding(f, s, m)}
<1>1. 0 \in S
  <2>1. Folding([i \in 1 .. 0 |-> {}], s, 0)
    BY DEF Folding
  <2> QED BY <2>1
<1>2. ASSUME NEW m \in Nat, m \in S PROVE m + 1 \in S
  <2>1. PICK f : Folding(f, s, m)
    BY <1>2
  <2> DEFINE g == [i \in 1 .. m + 1 |-> IF i = 1 THEN s[i] ELSE Joined(f[i - 1], s[i])]
  <2>2. \A i \in 1 .. m : g[i] = f[i]
    <3>1. TAKE i \in 1 .. m
    <3>2. g[i] = IF i = 1 THEN s[i] ELSE Joined(f[i - 1], s[i])
      OBVIOUS
    <3>3. f[i] = IF i = 1 THEN s[i] ELSE Joined(f[i - 1], s[i])
      BY <2>1 DEF Folding
    <3> QED BY <3>2, <3>3
  <2>3. Folding(g, s, m + 1)
    <3> HIDE DEF g
    <3>1. \A i \in 1 .. m + 1 : i # 1 => g[i - 1] = f[i - 1]
      BY <2>2
    <3> QED BY <3>1 DEF Folding, g
  <2> QED BY <2>3
<1> HIDE DEF S
<1>3. n \in S
  BY <1>1, <1>2, NatInd
<1> QED BY <1>3 DEF S

LEMMA FoldingAt ==
  ASSUME NEW f, NEW s, NEW n \in Nat, Folding(f, s, n)
  PROVE  /\ n > 0 => f[1] = s[1]
         /\ \A k \in 1 .. n : k + 1 =< n => f[k + 1] = Joined(f[k], s[k + 1])
<1>1. \A i \in 1 .. n : f[i] = IF i = 1 THEN s[i] ELSE Joined(f[i - 1], s[i])
  BY DEF Folding
<1>2. ASSUME NEW k \in 1 .. n, k + 1 =< n PROVE f[k + 1] = Joined(f[k], s[k + 1])
  <2>1. k + 1 \in 1 .. n /\ k + 1 # 1 /\ (k + 1) - 1 = k
    BY <1>2
  <2>2. f[k + 1] = Joined(f[(k + 1) - 1], s[k + 1])
    BY <1>1, <2>1
  <2> QED BY <2>1, <2>2
<1>3. n > 0 => f[1] = s[1]
  <2>1. n > 0 => 1 \in 1 .. n
    OBVIOUS
  <2> QED BY <1>1, <2>1
<1> QED BY <1>2, <1>3

\* FlattenSeq is the last of these values.
LEMMA FlattenByFolding ==
  ASSUME NEW s, Len(s) \in Nat \ {0}
  PROVE  \E f : Folding(f, s, Len(s)) /\ FlattenSeq(s) = f[Len(s)]
<1> DEFINE flatten == CHOOSE f : Folding(f, s, Len(s))
<1>1. Folding(flatten, s, Len(s))
  BY FoldingExists
<1>2. FlattenSeq(s) = flatten[Len(s)]
  BY Zenon DEF FlattenSeq, Folding, Joined
<1> QED BY <1>1, <1>2

LEMMA FlattenNone == FlattenSeq(<<>>) = <<>>
BY DEF FlattenSeq

\* FlattenSeq, one more sequence at a time.
LEMMA FlattenAppend ==
  ASSUME NEW T, NEW s \in Seq(Seq(T)), NEW x \in Seq(T)
  PROVE  FlattenSeq(Append(s, x)) = FlattenSeq(s) \o x
<1> DEFINE t == Append(s, x)
<1>1. /\ Len(t) = Len(s) + 1 /\ t[Len(s) + 1] = x
      /\ \A i \in 1 .. Len(s) : t[i] = s[i]
      /\ Len(s) \in Nat
  BY AppendProperties, LenProperties
<1> HIDE DEF t
<1>2. PICK g : Folding(g, t, Len(t)) /\ FlattenSeq(t) = g[Len(t)]
  BY <1>1, FlattenByFolding
<1>3. CASE Len(s) = 0
  <2>1. s = <<>>
    BY <1>3, EmptySeq
  <2>2. FlattenSeq(t) = x
    BY <1>1, <1>2, <1>3, FoldingAt
  <2>3. <<>> \o x = x
    BY ConcatEmptySeq
  <2> QED BY <2>1, <2>2, <2>3, FlattenNone DEF t
<1>4. CASE Len(s) # 0
  <2>1. PICK f : Folding(f, s, Len(s)) /\ FlattenSeq(s) = f[Len(s)]
    BY <1>1, <1>4, FlattenByFolding
  <2> DEFINE S == {n \in Nat : n \in 1 .. Len(s) => g[n] = f[n]}
  <2>2. 0 \in S
    OBVIOUS
  <2>3. ASSUME NEW n \in Nat, n \in S PROVE n + 1 \in S
    <3>1. SUFFICES ASSUME n + 1 =< Len(s) PROVE g[n + 1] = f[n + 1]
      OBVIOUS
    <3>2. CASE n = 0
      <4>1. g[1] = t[1] /\ f[1] = s[1] /\ t[1] = s[1]
        BY <1>1, <1>2, <1>4, <2>1, FoldingAt
      <4> QED BY <3>2, <4>1
    <3>3. CASE n # 0
      <4>1. g[n] = f[n] /\ n \in 1 .. Len(s) /\ n \in 1 .. Len(t)
            /\ n + 1 =< Len(t) /\ Len(t) \in Nat
        BY <2>3, <3>1, <3>3, <1>1
      <4>2. g[n + 1] = Joined(g[n], t[n + 1])
        BY <1>2, <4>1, FoldingAt
      <4>3. f[n + 1] = Joined(f[n], s[n + 1])
        BY <1>1, <2>1, <3>1, <4>1, FoldingAt
      <4>4. t[n + 1] = s[n + 1]
        BY <1>1, <3>1
      <4> QED BY <4>1, <4>2, <4>3, <4>4
    <3> QED BY <3>2, <3>3
  <2> HIDE DEF S
  <2>4. \A n \in Nat : n \in S
    BY <2>2, <2>3, NatInd
  <2>5. g[Len(s)] = f[Len(s)]
    BY <2>4, <1>1, <1>4 DEF S
  <2>6. g[Len(t)] = Joined(g[Len(s)], x)
    <3>1. Len(s) \in 1 .. Len(t) /\ Len(s) + 1 =< Len(t)
      BY <1>1, <1>4
    <3>2. g[Len(s) + 1] = Joined(g[Len(s)], t[Len(s) + 1])
      BY <1>1, <1>2, <3>1, FoldingAt
    <3> QED BY <3>2, <1>1
  <2> QED BY <2>1, <2>5, <2>6, <1>2 DEF t, Joined
<1> QED BY <1>3, <1>4, <1>1

\* Induction over a sequence of sequences, for a set of those that have the property.
LEMMA SeqInd ==
  ASSUME NEW T, NEW S, <<>> \in S,
         \A s \in Seq(T), x \in T : s \in S => Append(s, x) \in S
  PROVE  \A s \in Seq(T) : s \in S
<1> DEFINE N == {n \in Nat : \A s \in Seq(T) : Len(s) = n => s \in S}
<1>1. 0 \in N
  BY EmptySeq
<1>2. ASSUME NEW n \in Nat, n \in N PROVE n + 1 \in N
  <2>1. SUFFICES ASSUME NEW s \in Seq(T), Len(s) = n + 1 PROVE s \in S
    OBVIOUS
  <2>2. PICK t \in Seq(T), x \in T : s = Append(t, x)
    BY <2>1, SequenceEmptyOrAppend, EmptySeq
  <2>3. Len(t) = n
    BY <2>1, <2>2, AppendProperties, LenProperties
  <2> QED BY <1>2, <2>2, <2>3
<1> HIDE DEF N
<1>3. \A n \in Nat : n \in N
  BY <1>1, <1>2, NatInd
<1> QED BY <1>3, LenProperties DEF N

\* Flattened, sequences over a set are a sequence over it.
LEMMA FlattenType ==
  ASSUME NEW T, NEW s \in Seq(Seq(T))
  PROVE  FlattenSeq(s) \in Seq(T)
<1> DEFINE S == {t \in Seq(Seq(T)) : FlattenSeq(t) \in Seq(T)}
<1>1. <<>> \in S
  BY FlattenNone, EmptySeq
<1>2. ASSUME NEW t \in Seq(Seq(T)), NEW x \in Seq(T), t \in S PROVE Append(t, x) \in S
  BY <1>2, FlattenAppend, AppendProperties, ConcatProperties
<1> HIDE DEF S
<1> QED BY <1>1, <1>2, SeqInd DEF S

\* Two sequences of sequences that are as long, with as long elements, are flattened
\* alike: a place in the one comes from where it comes from in the other.
SameShape(s, t) == Len(s) = Len(t) /\ \A i \in 1 .. Len(s) : Len(s[i]) = Len(t[i])
SameFlat(s, t) ==
    /\ Len(FlattenSeq(s)) = Len(FlattenSeq(t))
    /\ \A n \in 1 .. Len(FlattenSeq(s)) :
          \E i \in 1 .. Len(s) : \E k \in 1 .. Len(s[i]) :
             FlattenSeq(s)[n] = s[i][k] /\ FlattenSeq(t)[n] = t[i][k]
    /\ \A i \in 1 .. Len(s) : \A k \in 1 .. Len(s[i]) :
          \E n \in 1 .. Len(FlattenSeq(s)) :
             FlattenSeq(s)[n] = s[i][k] /\ FlattenSeq(t)[n] = t[i][k]

LEMMA FlattenTogether ==
  ASSUME NEW T, NEW U, NEW s0 \in Seq(Seq(T)), NEW t0 \in Seq(Seq(U)), SameShape(s0, t0)
  PROVE  SameFlat(s0, t0)
<1> DEFINE S == {s \in Seq(Seq(T)) : \A t \in Seq(Seq(U)) : SameShape(s, t) => SameFlat(s, t)}
<1>1. <<>> \in S
  <2>1. SUFFICES ASSUME NEW t \in Seq(Seq(U)), SameShape(<<>>, t) PROVE SameFlat(<<>>, t)
    BY EmptySeq
  <2>2. t = <<>>
    BY <2>1, EmptySeq DEF SameShape
  <2> QED BY <2>2, FlattenNone DEF SameFlat
<1>2. ASSUME NEW s \in Seq(Seq(T)), NEW x \in Seq(T), s \in S PROVE Append(s, x) \in S
  <2>1. Append(s, x) \in Seq(Seq(T)) /\ Len(Append(s, x)) = Len(s) + 1 /\ Len(s) \in Nat
        /\ Append(s, x)[Len(s) + 1] = x /\ \A i \in 1 .. Len(s) : Append(s, x)[i] = s[i]
    BY AppendProperties, LenProperties
  <2>2. SUFFICES ASSUME NEW v \in Seq(Seq(U)), SameShape(Append(s, x), v)
                 PROVE  SameFlat(Append(s, x), v)
    BY <2>1
  <2>3. v # <<>>
    BY <2>1, <2>2, EmptySeq DEF SameShape
  <2>4. PICK t \in Seq(Seq(U)), y \in Seq(U) : v = Append(t, y)
    BY <2>3, SequenceEmptyOrAppend
  <2>5. Len(v) = Len(t) + 1 /\ Len(t) \in Nat
        /\ v[Len(t) + 1] = y /\ \A i \in 1 .. Len(t) : v[i] = t[i]
    BY <2>4, AppendProperties, LenProperties
  <2>6. SameShape(s, t) /\ Len(x) = Len(y) /\ Len(t) = Len(s)
    <3>1. Len(s) = Len(t) /\ \A i \in 1 .. Len(s) + 1 : Len(Append(s, x)[i]) = Len(v[i])
      BY <2>1, <2>2, <2>5 DEF SameShape
    <3>2. Len(s) + 1 \in 1 .. Len(s) + 1 /\ \A i \in 1 .. Len(s) : i \in 1 .. Len(s) + 1
      BY <2>1
    <3>3. Len(x) = Len(y)
      BY <2>1, <2>5, <3>1, <3>2
    <3>4. ASSUME NEW i \in 1 .. Len(s) PROVE Len(s[i]) = Len(t[i])
      BY <2>1, <2>5, <3>1, <3>2
    <3> QED BY <3>1, <3>3, <3>4 DEF SameShape
  <2>7. SameFlat(s, t)
    BY <2>6, <1>2
  <2> DEFINE a == FlattenSeq(s)  b == FlattenSeq(t)  ax == FlattenSeq(Append(s, x))
             by == FlattenSeq(v)
  <2>8. ax = a \o x /\ by = b \o y /\ a \in Seq(T) /\ b \in Seq(U)
    BY <2>4, FlattenAppend, FlattenType
  <2>9. /\ Len(ax) = Len(a) + Len(x) /\ Len(by) = Len(b) + Len(y)
        /\ Len(a) \in Nat /\ Len(b) \in Nat /\ Len(x) \in Nat
        /\ \A n \in 1 .. Len(a) + Len(x) :
              ax[n] = IF n =< Len(a) THEN a[n] ELSE x[n - Len(a)]
        /\ \A n \in 1 .. Len(b) + Len(y) :
              by[n] = IF n =< Len(b) THEN b[n] ELSE y[n - Len(b)]
    BY <2>8, ConcatProperties, LenProperties
  <2>10. /\ Len(a) = Len(b)
         /\ \A n \in 1 .. Len(a) : \E i \in 1 .. Len(s) : \E k \in 1 .. Len(s[i]) :
               a[n] = s[i][k] /\ b[n] = t[i][k]
         /\ \A i \in 1 .. Len(s) : \A k \in 1 .. Len(s[i]) : \E n \in 1 .. Len(a) :
               a[n] = s[i][k] /\ b[n] = t[i][k]
    BY <2>7 DEF SameFlat
  <2> HIDE DEF a, b, ax, by
  <2> DEFINE w == Append(s, x)
  <2>11. /\ Len(w) = Len(s) + 1 /\ w[Len(s) + 1] = x /\ \A i \in 1 .. Len(s) : w[i] = s[i]
         /\ v[Len(s) + 1] = y /\ \A i \in 1 .. Len(s) : v[i] = t[i]
    BY <2>1, <2>5, <2>6
  <2> HIDE DEF w
  <2>12. Len(ax) = Len(by)
    BY <2>6, <2>9, <2>10
  <2>13. ASSUME NEW n \in 1 .. Len(ax)
         PROVE  \E i \in 1 .. Len(w) : \E k \in 1 .. Len(w[i]) : ax[n] = w[i][k] /\ by[n] = v[i][k]
    <3>1. CASE n =< Len(a)
      <4>1. PICK i \in 1 .. Len(s) : \E k \in 1 .. Len(s[i]) : a[n] = s[i][k] /\ b[n] = t[i][k]
        BY <2>10, <2>9, <3>1
      <4>2. PICK k \in 1 .. Len(s[i]) : a[n] = s[i][k] /\ b[n] = t[i][k]
        BY <4>1
      <4>3. ax[n] = a[n] /\ by[n] = b[n]
        BY <2>9, <2>10, <2>6, <3>1
      <4>4. i \in 1 .. Len(w) /\ w[i] = s[i] /\ v[i] = t[i]
        BY <2>11, <2>1
      <4> QED BY <4>2, <4>3, <4>4
    <3>2. CASE ~ (n =< Len(a))
      <4>1. ax[n] = x[n - Len(a)] /\ by[n] = y[n - Len(a)] /\ n - Len(a) \in 1 .. Len(x)
        BY <2>9, <2>10, <2>6, <3>2
      <4>2. Len(s) + 1 \in 1 .. Len(w)
        BY <2>11, <2>1
      <4> QED BY <4>1, <4>2, <2>11
    <3> QED BY <3>1, <3>2
  <2>14. ASSUME NEW i \in 1 .. Len(w), NEW k \in 1 .. Len(w[i])
         PROVE  \E n \in 1 .. Len(ax) : ax[n] = w[i][k] /\ by[n] = v[i][k]
    <3>0. i \in 1 .. Len(s) + 1 /\ Len(s) \in Nat
      BY <2>11, <2>1
    <3>1. CASE i =< Len(s)
      <4>0. i \in 1 .. Len(s)
        BY <3>0, <3>1
      <4>1. w[i] = s[i] /\ v[i] = t[i] /\ i \in 1 .. Len(s)
        BY <2>11, <4>0
      <4>2. PICK n \in 1 .. Len(a) : a[n] = s[i][k] /\ b[n] = t[i][k]
        BY <2>10, <4>1
      <4>3. n \in 1 .. Len(ax) /\ ax[n] = a[n] /\ by[n] = b[n]
        <5>1. n \in 1 .. Len(a) + Len(x) /\ n =< Len(a) /\ n \in 1 .. Len(b) + Len(y) /\ n =< Len(b)
          BY <2>9, <2>10, <2>6
        <5> QED BY <2>9, <5>1
      <4> QED BY <4>1, <4>2, <4>3
    <3>2. CASE ~ (i =< Len(s))
      <4>1. i = Len(s) + 1
        BY <3>0, <3>2
      <4>2. w[i] = x /\ v[i] = y
        BY <2>11, <4>1
      <4>3. k \in 1 .. Len(x)
        BY <4>2
      <4>4. Len(a) + k \in 1 .. Len(ax) /\ ~ (Len(a) + k =< Len(a)) /\ (Len(a) + k) - Len(a) = k
        BY <2>9, <4>3
      <4>5. ax[Len(a) + k] = x[k] /\ by[Len(a) + k] = y[k]
        <5>1. Len(a) + k \in 1 .. Len(a) + Len(x) /\ Len(a) + k \in 1 .. Len(b) + Len(y)
              /\ ~ (Len(a) + k =< Len(b)) /\ (Len(a) + k) - Len(b) = k
          BY <2>9, <2>10, <2>6, <4>4
        <5> QED BY <2>9, <4>4, <5>1
      <4> QED BY <4>2, <4>4, <4>5
    <3> QED BY <3>1, <3>2
  <2> QED BY <2>12, <2>13, <2>14 DEF SameFlat, ax, by, w
<1> HIDE DEF S
<1>3. s0 \in S
  BY <1>1, <1>2, SeqInd
<1> QED BY <1>3 DEF S

-----------------------------------------------------------------------------
(* Settings that say the same *)

\* A list made element by element.
LEMMA Mapped ==
  ASSUME NEW S, NEW T, NEW s \in Seq(S), NEW f, DOMAIN f = DOMAIN s,
         f = [i \in DOMAIN f |-> f[i]], \A i \in 1 .. Len(s) : f[i] \in T
  PROVE  f \in Seq(T) /\ Len(f) = Len(s) /\ DOMAIN f = 1 .. Len(s)
<1>1. Len(s) \in Nat /\ DOMAIN s = 1 .. Len(s)
  BY LenProperties
<1>2. f \in [1 .. Len(s) -> T]
  BY <1>1
<1>3. f \in Seq(T)
  BY <1>1, <1>2, SeqDef
<1> QED BY <1>1, <1>3, LenProperties

\* Settings that ask for the same: they differ at most in the keys of arrays of
\* fields, which nothing reads, and in what only multiscale arrays need.
AlikeArray(a, b) ==
    /\ a.comp = b.comp /\ a.dims = b.dims /\ a.order = b.order /\ a.multi = b.multi
    /\ a.multi => a.method = b.method /\ a.maxLevels = b.maxLevels
AlikeImage(x, y) ==
    /\ x.path = y.path /\ x.acq = y.acq /\ AlikeArray(x.array, y.array)
    /\ x.array.key \in {y.array.key, NoKey, y.path}
AlikeWell(w, v) ==
    /\ w.row = v.row /\ w.col = v.col /\ Len(w.images) = Len(v.images)
    /\ \A k \in 1 .. Len(v.images) : AlikeImage(w.images[k], v.images[k])
AlikePlate(p, q) ==
    /\ p.path = q.path /\ p.rows = q.rows /\ p.cols = q.cols /\ p.acqs = q.acqs
    /\ Len(p.wells) = Len(q.wells)
    /\ \A j \in 1 .. Len(q.wells) : AlikeWell(p.wells[j], q.wells[j])
Alike(s, c) ==
    /\ s.overwrite = c.overwrite /\ s.s3 = c.s3
    /\ Len(s.arrays) = Len(c.arrays) /\ Len(s.plates) = Len(c.plates)
    /\ \A i \in 1 .. Len(c.arrays) :
          AlikeArray(s.arrays[i], c.arrays[i]) /\ s.arrays[i].key = c.arrays[i].key
    /\ \A i \in 1 .. Len(c.plates) : AlikePlate(s.plates[i], c.plates[i])

\* Names and keys survive the settings file: what YAML would read as something
\* else is quoted.
LEMMA RereadIs ==
  ASSUME NEW format, NEW name
  PROVE  Reread(format, name) = name
BY DEF Reread, NeedsQuotes

LEMMA RereadKeyIs ==
  ASSUME NEW format, NEW key \in Keys
  PROVE  RereadKey(format, key) = key
<1>1. CASE key # NoKey /\ Len(key) = 1
  <2>1. key \in Seq(Names)
    BY <1>1 DEF Keys
  <2>2. <<key[1]>> = key
    BY <1>1, <2>1
  <2> QED BY <1>1, <2>2, RereadIs DEF RereadKey
<1> QED BY <1>1 DEF RereadKey

LEMMA RereadAllIs ==
  ASSUME NEW format, NEW names \in Seq(Names)
  PROVE  RereadAll(format, names) = names
BY RereadIs, LenProperties DEF RereadAll

LEMMA LoadArrayIs ==
  ASSUME NEW format, NEW a \in ArraySettings, NEW hasKey
  PROVE  LoadArray(format, a, hasKey) = [a EXCEPT !.key = IF hasKey THEN a.key ELSE NoKey]
<1> DEFINE dims == [i \in DOMAIN a.dims |-> LoadDimension(format, a.dims[i])]
<1>1. dims = a.dims
  <2>1. a.dims \in Seq(DimensionSettings)
    BY DEF ArraySettings
  <2>2. \A i \in DOMAIN a.dims : dims[i] = a.dims[i]
    <3>1. TAKE i \in DOMAIN a.dims
    <3>2. a.dims[i] \in DimensionSettings
      BY <2>1, LenProperties
    <3>3. [a.dims[i] EXCEPT !.name = a.dims[i].name] = a.dims[i]
      BY <3>2 DEF DimensionSettings
    <3> QED BY <3>3, RereadIs DEF LoadDimension
  <2> QED BY <2>1, <2>2, LenProperties
<1>2. RereadKey(format, a.key) = a.key
  BY RereadKeyIs DEF ArraySettings
<1>3. LoadArray(format, a, hasKey) =
      [a EXCEPT !.key = IF hasKey THEN RereadKey(format, a.key) ELSE NoKey, !.dims = dims]
  BY DEF LoadArray
<1> HIDE DEF dims
<1> QED BY <1>1, <1>2, <1>3 DEF ArraySettings

\* An array keeps its type and what it asks for when it is dumped or loaded.
LEMMA ArrayKept ==
  ASSUME NEW format, NEW a \in ArraySettings, NEW hasKey
  PROVE  /\ LoadArray(format, a, hasKey) \in ArraySettings
         /\ DumpArray(a, hasKey) \in ArraySettings
         /\ AlikeArray(LoadArray(format, a, hasKey), a)
         /\ AlikeArray(DumpArray(a, hasKey), a)
         /\ LoadArray(format, a, hasKey).key = IF hasKey THEN a.key ELSE NoKey
         /\ DumpArray(a, hasKey).key = IF hasKey THEN a.key ELSE NoKey
<1>1. LoadArray(format, a, hasKey) = [a EXCEPT !.key = IF hasKey THEN a.key ELSE NoKey]
  BY LoadArrayIs
<1>2. NoKey \in Keys
  BY DEF Keys
<1>3. /\ LoadArray(format, a, hasKey) \in ArraySettings
      /\ AlikeArray(LoadArray(format, a, hasKey), a)
      /\ LoadArray(format, a, hasKey).key = IF hasKey THEN a.key ELSE NoKey
  BY <1>1, <1>2 DEF ArraySettings, AlikeArray
<1>4. /\ DumpArray(a, hasKey) \in ArraySettings
      /\ AlikeArray(DumpArray(a, hasKey), a)
      /\ DumpArray(a, hasKey).key = IF hasKey THEN a.key ELSE NoKey
  <2> DEFINE d == DumpArray(a, hasKey)
  <2>1. /\ d.key = (IF hasKey THEN a.key ELSE NoKey)
        /\ d.method = (IF a.multi THEN a.method ELSE "decimate")
        /\ d.maxLevels = (IF a.multi THEN a.maxLevels ELSE 0)
    BY DEF ArraySettings, DumpArray
  <2>2. d.comp = a.comp /\ d.dims = a.dims /\ d.order = a.order /\ d.multi = a.multi
    BY DEF ArraySettings, DumpArray
  <2>3. d.method \in {"decimate", "mean", "min", "max"} /\ d.maxLevels \in Nat /\ d.key \in Keys
    BY <1>2, <2>1 DEF ArraySettings
  <2>4. d = [a EXCEPT !.key = d.key, !.method = d.method, !.maxLevels = d.maxLevels]
    BY <2>1 DEF DumpArray
  <2> HIDE DEF d
  <2>5. d \in ArraySettings
    BY <2>3, <2>4 DEF ArraySettings
  <2>6. AlikeArray(d, a) /\ d.key = IF hasKey THEN a.key ELSE NoKey
    BY <2>1, <2>2 DEF AlikeArray
  <2> QED BY <2>5, <2>6 DEF d
<1> QED BY <1>3, <1>4

\* Settings stay settings, and alike, when their parts are replaced by such as
\* are alike.
LEMMA WellMapped ==
  ASSUME NEW w \in WellSettings, NEW v, AlikeWell(w, v), NEW f,
         DOMAIN f = DOMAIN w.images, f = [k \in DOMAIN f |-> f[k]],
         \A k \in 1 .. Len(w.images) : f[k] \in ImageSettings /\ AlikeImage(f[k], v.images[k])
  PROVE  /\ [w EXCEPT !.images = f] \in WellSettings
         /\ AlikeWell([w EXCEPT !.images = f], v)
<1>1. w.images \in Seq(ImageSettings)
  BY DEF WellSettings
<1>2. f \in Seq(ImageSettings) /\ Len(f) = Len(w.images)
  BY <1>1, Mapped
<1> DEFINE u == [w EXCEPT !.images = f]
<1>3. u \in WellSettings /\ u.row = w.row /\ u.col = w.col /\ u.images = f
  BY <1>2 DEF WellSettings
<1> HIDE DEF u
<1>4. AlikeWell(u, v)
  BY <1>2, <1>3 DEF AlikeWell
<1> QED BY <1>3, <1>4 DEF u

LEMMA PlateMapped ==
  ASSUME NEW p \in PlateSettings, NEW q, AlikePlate(p, q), NEW f,
         DOMAIN f = DOMAIN p.wells, f = [j \in DOMAIN f |-> f[j]],
         \A j \in 1 .. Len(p.wells) : f[j] \in WellSettings /\ AlikeWell(f[j], q.wells[j])
  PROVE  /\ [p EXCEPT !.wells = f] \in PlateSettings
         /\ AlikePlate([p EXCEPT !.wells = f], q)
<1>1. p.wells \in Seq(WellSettings)
  BY DEF PlateSettings
<1>2. f \in Seq(WellSettings) /\ Len(f) = Len(p.wells)
  BY <1>1, Mapped
<1> DEFINE u == [p EXCEPT !.wells = f]
<1>3. u \in PlateSettings /\ u.path = p.path /\ u.rows = p.rows /\ u.cols = p.cols
      /\ u.acqs = p.acqs /\ u.wells = f
  BY <1>2 DEF PlateSettings
<1> HIDE DEF u
<1>4. AlikePlate(u, q)
  BY <1>2, <1>3 DEF AlikePlate
<1> QED BY <1>3, <1>4 DEF u

LEMMA SettingsMapped ==
  ASSUME NEW s \in StreamSettings, NEW c, Alike(s, c), NEW f, NEW g,
         DOMAIN f = DOMAIN s.arrays, f = [i \in DOMAIN f |-> f[i]],
         DOMAIN g = DOMAIN s.plates, g = [i \in DOMAIN g |-> g[i]],
         \A i \in 1 .. Len(s.arrays) : /\ f[i] \in ArraySettings
                                       /\ AlikeArray(f[i], c.arrays[i])
                                       /\ f[i].key = c.arrays[i].key,
         \A i \in 1 .. Len(s.plates) : g[i] \in PlateSettings /\ AlikePlate(g[i], c.plates[i])
  PROVE  /\ [s EXCEPT !.arrays = f, !.plates = g] \in StreamSettings
         /\ Alike([s EXCEPT !.arrays = f, !.plates = g], c)
<1>1. s.arrays \in Seq(ArraySettings) /\ s.plates \in Seq(PlateSettings)
  BY DEF StreamSettings
<1>2. f \in Seq(ArraySettings) /\ Len(f) = Len(s.arrays)
  BY <1>1, Mapped
<1>3. g \in Seq(PlateSettings) /\ Len(g) = Len(s.plates)
  BY <1>1, Mapped
<1> DEFINE u == [s EXCEPT !.arrays = f, !.plates = g]
<1>4. u \in StreamSettings /\ u.overwrite = s.overwrite /\ u.s3 = s.s3
      /\ u.arrays = f /\ u.plates = g
  BY <1>2, <1>3 DEF StreamSettings
<1> HIDE DEF u
<1>5. Alike(u, c)
  BY <1>2, <1>3, <1>4 DEF Alike
<1> QED BY <1>4, <1>5 DEF u

LEMMA AlikeTrans ==
  ASSUME NEW a, NEW b, NEW c, AlikeArray(a, b), AlikeArray(b, c)
  PROVE  AlikeArray(a, c)
BY DEF AlikeArray

\* So do fields, wells, plates and settings.
LEMMA FieldKept ==
  ASSUME NEW format, NEW image \in ImageSettings, NEW y, AlikeImage(image, y)
  PROVE  /\ LoadField(format, image) \in ImageSettings
         /\ AlikeImage(LoadField(format, image), y)
         /\ DumpField(image) \in ImageSettings
         /\ AlikeImage(DumpField(image), y)
<1>1. image.array \in ArraySettings /\ image.path \in Keys
  BY DEF ImageSettings
<1> DEFINE u == LoadArray(format, image.array, FALSE)  d == DumpArray(image.array, FALSE)
<1>2. /\ u \in ArraySettings /\ d \in ArraySettings /\ u.key = NoKey /\ d.key = NoKey
      /\ AlikeArray(u, y.array) /\ AlikeArray(d, y.array)
  <2>1. AlikeArray(image.array, y.array)
    BY DEF AlikeImage
  <2>2. /\ u \in ArraySettings /\ d \in ArraySettings /\ u.key = NoKey /\ d.key = NoKey
        /\ AlikeArray(u, image.array) /\ AlikeArray(d, image.array)
    <3>1. u \in ArraySettings /\ AlikeArray(u, image.array)
          /\ u.key = (IF FALSE THEN image.array.key ELSE NoKey)
      <4>1. /\ LoadArray(format, image.array, FALSE) \in ArraySettings
            /\ AlikeArray(LoadArray(format, image.array, FALSE), image.array)
        BY <1>1, ArrayKept
      <4>2. LoadArray(format, image.array, FALSE).key = NoKey
        BY <1>1 DEF LoadArray, ArraySettings
      <4> QED BY <4>1, <4>2
    <3>2. d \in ArraySettings /\ AlikeArray(d, image.array)
          /\ d.key = (IF FALSE THEN image.array.key ELSE NoKey)
      BY <1>1, ArrayKept, Zenon
    <3> QED BY <3>1, <3>2
  <2> HIDE DEF u, d
  <2> QED BY <2>1, <2>2, AlikeTrans
<1>3. LoadField(format, image) = [image EXCEPT !.array = u]
  BY <1>1, RereadKeyIs DEF LoadField, ImageSettings
<1>4. DumpField(image) = [image EXCEPT !.array = d]
  BY DEF DumpField
<1> HIDE DEF u, d
<1>5. \A a \in ArraySettings : a.key = NoKey /\ AlikeArray(a, y.array) =>
         /\ [image EXCEPT !.array = a] \in ImageSettings
         /\ AlikeImage([image EXCEPT !.array = a], y)
  BY DEF ImageSettings, AlikeImage
<1> QED BY <1>2, <1>3, <1>4, <1>5

LEMMA WellKept ==
  ASSUME NEW format, NEW w \in WellSettings, NEW v, AlikeWell(w, v)
  PROVE  /\ LoadWell(format, w) \in WellSettings
         /\ AlikeWell(LoadWell(format, w), v)
         /\ DumpWell(w) \in WellSettings
         /\ AlikeWell(DumpWell(w), v)
<1>1. w.images \in Seq(ImageSettings)
  BY DEF WellSettings
<1>2. \A k \in 1 .. Len(w.images) : w.images[k] \in ImageSettings
                                    /\ AlikeImage(w.images[k], v.images[k])
  BY <1>1, ElementOfSeq DEF AlikeWell
<1>3. DOMAIN w.images = 1 .. Len(w.images)
  BY <1>1, LenProperties
<1> DEFINE f == [k \in DOMAIN w.images |-> LoadField(format, w.images[k])]
           g == [k \in DOMAIN w.images |-> DumpField(w.images[k])]
<1>4. LoadWell(format, w) = [w EXCEPT !.images = f]
  BY RereadIs DEF LoadWell, WellSettings
<1>5. DumpWell(w) = [w EXCEPT !.images = g]
  BY DEF DumpWell
<1>6. \A k \in 1 .. Len(w.images) : f[k] \in ImageSettings /\ AlikeImage(f[k], v.images[k])
  BY <1>2, <1>3, FieldKept
<1>7. \A k \in 1 .. Len(w.images) : g[k] \in ImageSettings /\ AlikeImage(g[k], v.images[k])
  BY <1>2, <1>3, FieldKept
<1>8. DOMAIN f = DOMAIN w.images /\ f = [k \in DOMAIN f |-> f[k]]
      /\ DOMAIN g = DOMAIN w.images /\ g = [k \in DOMAIN g |-> g[k]]
  OBVIOUS
<1> HIDE DEF f, g
<1> QED BY <1>4, <1>5, <1>6, <1>7, <1>8, WellMapped

LEMMA PlateKept ==
  ASSUME NEW format, NEW p \in PlateSettings, NEW q, AlikePlate(p, q)
  PROVE  /\ LoadPlate(format, p) \in PlateSettings
         /\ AlikePlate(LoadPlate(format, p), q)
         /\ DumpPlate(p) \in PlateSettings
         /\ AlikePlate(DumpPlate(p), q)
<1>1. p.wells \in Seq(WellSettings) /\ p.path \in Keys /\ p.rows \in Seq(Names)
      /\ p.cols \in Seq(Names)
  BY DEF PlateSettings
<1>2. \A j \in 1 .. Len(p.wells) : p.wells[j] \in WellSettings
                                   /\ AlikeWell(p.wells[j], q.wells[j])
  BY <1>1, ElementOfSeq DEF AlikePlate
<1>3. DOMAIN p.wells = 1 .. Len(p.wells)
  BY <1>1, LenProperties
<1> DEFINE f == [j \in DOMAIN p.wells |-> LoadWell(format, p.wells[j])]
           g == [j \in DOMAIN p.wells |-> DumpWell(p.wells[j])]
<1>4. LoadPlate(format, p) = [p EXCEPT !.wells = f]
  <2>1. RereadKey(format, p.path) = p.path /\ RereadAll(format, p.rows) = p.rows
        /\ RereadAll(format, p.cols) = p.cols
    BY <1>1, RereadKeyIs, RereadAllIs
  <2>2. LoadPlate(format, p) = [p EXCEPT !.path = p.path, !.rows = p.rows, !.cols = p.cols,
                                         !.wells = f]
    BY <2>1 DEF LoadPlate
  <2> HIDE DEF f
  <2> QED BY <2>2 DEF PlateSettings
<1>5. DumpPlate(p) = [p EXCEPT !.wells = g]
  BY DEF DumpPlate
<1>6. \A j \in 1 .. Len(p.wells) : f[j] \in WellSettings /\ AlikeWell(f[j], q.wells[j])
  BY <1>2, <1>3, WellKept
<1>7. \A j \in 1 .. Len(p.wells) : g[j] \in WellSettings /\ AlikeWell(g[j], q.wells[j])
  BY <1>2, <1>3, WellKept
<1>8. DOMAIN f = DOMAIN p.wells /\ f = [j \in DOMAIN f |-> f[j]]
      /\ DOMAIN g = DOMAIN p.wells /\ g = [j \in DOMAIN g |-> g[j]]
  OBVIOUS
<1> HIDE DEF f, g
<1> QED BY <1>4, <1>5, <1>6, <1>7, <1>8, PlateMapped

LEMMA SettingsKept ==
  ASSUME NEW s \in StreamSettings, NEW c, Alike(s, c), NEW format
  PROVE  /\ Dumped(s) \in StreamSettings /\ Alike(Dumped(s), c)
         /\ Loaded([of |-> s, format |-> format]) \in StreamSettings
         /\ Alike(Loaded([of |-> s, format |-> format]), c)
<1>1. s.arrays \in Seq(ArraySettings) /\ s.plates \in Seq(PlateSettings)
  BY DEF StreamSettings
<1>2. /\ DOMAIN s.arrays = 1 .. Len(s.arrays) /\ DOMAIN s.plates = 1 .. Len(s.plates)
      /\ \A i \in 1 .. Len(s.arrays) : s.arrays[i] \in ArraySettings
      /\ \A i \in 1 .. Len(s.plates) : s.plates[i] \in PlateSettings
  BY <1>1, LenProperties, ElementOfSeq
<1>3. /\ \A i \in 1 .. Len(s.arrays) : /\ AlikeArray(s.arrays[i], c.arrays[i])
                                       /\ s.arrays[i].key = c.arrays[i].key
      /\ \A i \in 1 .. Len(s.plates) : AlikePlate(s.plates[i], c.plates[i])
  BY DEF Alike
<1> DEFINE t == [of |-> s, format |-> format]
           f == [i \in DOMAIN s.arrays |-> LoadArray(format, s.arrays[i], TRUE)]
           g == [i \in DOMAIN s.plates |-> LoadPlate(format, s.plates[i])]
           h == [i \in DOMAIN s.arrays |-> DumpArray(s.arrays[i], TRUE)]
           k == [i \in DOMAIN s.plates |-> DumpPlate(s.plates[i])]
<1>4. Loaded(t) = [s EXCEPT !.arrays = f, !.plates = g]
  BY DEF Loaded
<1>5. Dumped(s) = [s EXCEPT !.arrays = h, !.plates = k]
  BY DEF Dumped
<1>6. ASSUME NEW i \in 1 .. Len(s.arrays)
      PROVE  /\ f[i] \in ArraySettings /\ AlikeArray(f[i], c.arrays[i])
             /\ f[i].key = c.arrays[i].key
             /\ h[i] \in ArraySettings /\ AlikeArray(h[i], c.arrays[i])
             /\ h[i].key = c.arrays[i].key
  <2>1. f[i] = LoadArray(format, s.arrays[i], TRUE) /\ h[i] = DumpArray(s.arrays[i], TRUE)
    BY <1>2
  <2>2. /\ f[i] \in ArraySettings /\ AlikeArray(f[i], s.arrays[i]) /\ f[i].key = s.arrays[i].key
        /\ h[i] \in ArraySettings /\ AlikeArray(h[i], s.arrays[i]) /\ h[i].key = s.arrays[i].key
    BY <1>2, <2>1, ArrayKept
  <2> HIDE DEF f, h
  <2> QED BY <1>3, <2>2, AlikeTrans
<1>7. ASSUME NEW i \in 1 .. Len(s.plates)
      PROVE  /\ g[i] \in PlateSettings /\ AlikePlate(g[i], c.plates[i])
             /\ k[i] \in PlateSettings /\ AlikePlate(k[i], c.plates[i])
  BY <1>2, <1>3, PlateKept
<1>8. /\ DOMAIN f = DOMAIN s.arrays /\ f = [i \in DOMAIN f |-> f[i]]
      /\ DOMAIN g = DOMAIN s.plates /\ g = [i \in DOMAIN g |-> g[i]]
      /\ DOMAIN h = DOMAIN s.arrays /\ h = [i \in DOMAIN h |-> h[i]]
      /\ DOMAIN k = DOMAIN s.plates /\ k = [i \in DOMAIN k |-> k[i]]
  OBVIOUS
<1> HIDE DEF f, g, h, k, t
<1>9. [s EXCEPT !.arrays = f, !.plates = g] \in StreamSettings
      /\ Alike([s EXCEPT !.arrays = f, !.plates = g], c)
  BY <1>6, <1>7, <1>8, SettingsMapped
<1>10. [s EXCEPT !.arrays = h, !.plates = k] \in StreamSettings
       /\ Alike([s EXCEPT !.arrays = h, !.plates = k], c)
  BY <1>6, <1>7, <1>8, SettingsMapped
<1> QED BY <1>4, <1>5, <1>9, <1>10 DEF t

\* commit_hcs_settings_ changes the keys of fields of view only.
LEMMA KeyFieldsKept ==
  ASSUME NEW s \in StreamSettings, NEW c, Alike(s, c), NEW fields
  PROVE  KeyFields(s, fields) \in StreamSettings /\ Alike(KeyFields(s, fields), c)
<1>1. s.arrays \in Seq(ArraySettings) /\ s.plates \in Seq(PlateSettings)
  BY DEF StreamSettings
<1>2. /\ DOMAIN s.arrays = 1 .. Len(s.arrays) /\ DOMAIN s.plates = 1 .. Len(s.plates)
      /\ \A i \in 1 .. Len(s.arrays) : s.arrays[i] \in ArraySettings
      /\ \A i \in 1 .. Len(s.plates) : s.plates[i] \in PlateSettings
  BY <1>1, LenProperties, ElementOfSeq
<1>3. /\ \A i \in 1 .. Len(s.arrays) : /\ AlikeArray(s.arrays[i], c.arrays[i])
                                       /\ s.arrays[i].key = c.arrays[i].key
      /\ \A i \in 1 .. Len(s.plates) : AlikePlate(s.plates[i], c.plates[i])
  BY DEF Alike
<1> DEFINE Field(i, j, k) ==
             LET image == s.plates[i].wells[j].images[k]
             IN  IF <<i, <<j, k>>>> \in fields
                 THEN [image EXCEPT !.array.key = image.path] ELSE image
           Images(i, j) == [k \in DOMAIN s.plates[i].wells[j].images |-> Field(i, j, k)]
           WellAt(i, j) == [s.plates[i].wells[j] EXCEPT !.images = Images(i, j)]
           Wells(i) == [j \in DOMAIN s.plates[i].wells |-> WellAt(i, j)]
           PlateAt(i) == [s.plates[i] EXCEPT !.wells = Wells(i)]
           f == [i \in DOMAIN s.plates |-> PlateAt(i)]
<1>4. KeyFields(s, fields) = [s EXCEPT !.arrays = s.arrays, !.plates = f]
  <2>1. KeyFields(s, fields) = [s EXCEPT !.plates = f]
    BY DEF KeyFields
  <2> HIDE DEF f
  <2> QED BY <2>1 DEF StreamSettings
<1>5. ASSUME NEW i \in 1 .. Len(s.plates)
      PROVE  PlateAt(i) \in PlateSettings /\ AlikePlate(PlateAt(i), c.plates[i])
  <2> DEFINE p == s.plates[i]  q == c.plates[i]
  <2>1. p \in PlateSettings /\ AlikePlate(p, q)
    BY <1>2, <1>3
  <2>2. p.wells \in Seq(WellSettings) /\ DOMAIN p.wells = 1 .. Len(p.wells)
        /\ \A j \in 1 .. Len(p.wells) : p.wells[j] \in WellSettings
                                        /\ AlikeWell(p.wells[j], q.wells[j])
    BY <2>1, LenProperties, ElementOfSeq DEF PlateSettings, AlikePlate
  <2>3. ASSUME NEW j \in 1 .. Len(p.wells)
        PROVE  WellAt(i, j) \in WellSettings /\ AlikeWell(WellAt(i, j), q.wells[j])
    <3> DEFINE w == p.wells[j]  v == q.wells[j]
    <3>1. w \in WellSettings /\ AlikeWell(w, v)
      BY <2>2
    <3>2. w.images \in Seq(ImageSettings) /\ DOMAIN w.images = 1 .. Len(w.images)
          /\ \A k \in 1 .. Len(w.images) : w.images[k] \in ImageSettings
                                           /\ AlikeImage(w.images[k], v.images[k])
      BY <3>1, LenProperties, ElementOfSeq DEF WellSettings, AlikeWell
    <3>3. ASSUME NEW k \in 1 .. Len(w.images)
          PROVE  Field(i, j, k) \in ImageSettings /\ AlikeImage(Field(i, j, k), v.images[k])
      <4> DEFINE image == w.images[k]  y == v.images[k]
      <4>1. image \in ImageSettings /\ AlikeImage(image, y)
        BY <3>2
      <4>2. Field(i, j, k) \in {image, [image EXCEPT !.array.key = image.path]}
        OBVIOUS
      <4> HIDE DEF image, y, Field
      <4>3. [image EXCEPT !.array.key = image.path] \in ImageSettings
            /\ AlikeImage([image EXCEPT !.array.key = image.path], y)
        BY <4>1 DEF ImageSettings, ArraySettings, AlikeImage, AlikeArray
      <4> QED BY <4>1, <4>2, <4>3 DEF y
    <3>4. DOMAIN Images(i, j) = DOMAIN w.images
          /\ Images(i, j) = [k \in DOMAIN Images(i, j) |-> Images(i, j)[k]]
          /\ \A k \in 1 .. Len(w.images) : Images(i, j)[k] = Field(i, j, k)
      BY <3>2
    <3> HIDE DEF w, v, Images, Field
    <3>5. [w EXCEPT !.images = Images(i, j)] \in WellSettings
          /\ AlikeWell([w EXCEPT !.images = Images(i, j)], v)
      BY <3>1, <3>3, <3>4, WellMapped
    <3> QED BY <3>5 DEF w, v
  <2>4. DOMAIN Wells(i) = DOMAIN p.wells
        /\ Wells(i) = [j \in DOMAIN Wells(i) |-> Wells(i)[j]]
        /\ \A j \in 1 .. Len(p.wells) : Wells(i)[j] = WellAt(i, j)
    BY <2>2
  <2> HIDE DEF p, q, Wells, WellAt
  <2>5. [p EXCEPT !.wells = Wells(i)] \in PlateSettings
        /\ AlikePlate([p EXCEPT !.wells = Wells(i)], q)
    BY <2>1, <2>3, <2>4, PlateMapped
  <2> QED BY <2>5 DEF p, q
<1>6. DOMAIN f = DOMAIN s.plates /\ f = [i \in DOMAIN f |-> f[i]]
      /\ s.arrays = [i \in DOMAIN s.arrays |-> s.arrays[i]]
  <2>1. DOMAIN f = DOMAIN s.plates /\ f = [i \in DOMAIN f |-> f[i]]
    OBVIOUS
  <2>2. s.arrays = [i \in DOMAIN s.arrays |-> s.arrays[i]]
    BY <1>1
  <2> QED BY <2>1, <2>2
<1>7. \A i \in 1 .. Len(s.plates) : f[i] \in PlateSettings /\ AlikePlate(f[i], c.plates[i])
  <2>1. \A i \in 1 .. Len(s.plates) : f[i] = PlateAt(i)
    BY <1>2
  <2> HIDE DEF f, PlateAt
  <2> QED BY <2>1, <1>5
<1> HIDE DEF f
<1>8. [s EXCEPT !.arrays = s.arrays, !.plates = f] \in StreamSettings
      /\ Alike([s EXCEPT !.arrays = s.arrays, !.plates = f], c)
  BY <1>2, <1>3, <1>6, <1>7, SettingsMapped
<1> QED BY <1>4, <1>8

\* Settings are like themselves.
LEMMA AlikeSelf ==
  ASSUME NEW s \in StreamSettings
  PROVE  Alike(s, s)
<1>1. s.plates \in Seq(PlateSettings)
  BY DEF StreamSettings
<1>2. ASSUME NEW i \in 1 .. Len(s.plates) PROVE AlikePlate(s.plates[i], s.plates[i])
  BY DEF AlikePlate, AlikeWell, AlikeImage, AlikeArray
<1> QED BY <1>2 DEF Alike, AlikeArray
-----------------------------------------------------------------------------
(* What is allocated *)

\* What the names of pointers are made of: destroy_loaded_settings frees all that
\* json_to_settings allocates.
SlotParts == Freed \cup Nat
GoodSlots ==
    {p \in Seq(SlotParts) :
       p # <<>> /\ p[Len(p)] \in Freed /\ (p[Len(p)] = "key" => p[1] = "arrays")}

LEMMA GoodSlotIs ==
  ASSUME NEW p \in GoodSlots
  PROVE  /\ p \in Seq(SlotParts) /\ p # <<>> /\ Last(p) \in Freed
         /\ ~ (Last(p) = "key" /\ p[1] = "plates")
<1>1. p \in Seq(SlotParts) /\ p # <<>>
  BY DEF GoodSlots
<1>2. p[Len(p)] \in Freed /\ (p[Len(p)] = "key" => p[1] = "arrays")
  BY DEF GoodSlots
<1>3. Last(p) = p[Len(p)]
  BY DEF Last
<1> QED BY <1>1, <1>2, <1>3

\* The elements of joined sequences.
LEMMA ConcatSet ==
  ASSUME NEW S, NEW s \in Seq(S), NEW t \in Seq(S)
  PROVE  s \o t \in Seq(S) /\ ToSet(s \o t) = ToSet(s) \cup ToSet(t)
<1>1. s \o t \in Seq(S) /\ Len(s \o t) = Len(s) + Len(t) /\ Len(s) \in Nat /\ Len(t) \in Nat
      /\ \A i \in 1 .. Len(s) + Len(t) :
            (s \o t)[i] = IF i <= Len(s) THEN s[i] ELSE t[i - Len(s)]
  BY ConcatProperties, LenProperties
<1>2. DOMAIN s = 1 .. Len(s) /\ DOMAIN t = 1 .. Len(t) /\ DOMAIN (s \o t) = 1 .. Len(s) + Len(t)
  BY <1>1, LenProperties
<1> DEFINE u == s \o t
<1> HIDE DEF u
<1>3. \A i \in DOMAIN s : u[i] = s[i] /\ i \in DOMAIN u
  BY <1>1, <1>2 DEF u
<1>4. ASSUME NEW i \in DOMAIN t PROVE u[Len(s) + i] = t[i] /\ Len(s) + i \in DOMAIN u
  <2>1. Len(s) + i \in 1 .. Len(s) + Len(t) /\ ~ (Len(s) + i <= Len(s)) /\ Len(s) + i - Len(s) = i
    BY <1>1, <1>2
  <2> QED BY <1>1, <1>2, <2>1 DEF u
<1>5. ASSUME NEW i \in DOMAIN u
      PROVE  \/ i \in DOMAIN s /\ u[i] = s[i]
             \/ i - Len(s) \in DOMAIN t /\ u[i] = t[i - Len(s)]
  <2>1. i \in 1 .. Len(s) + Len(t)
    BY <1>2 DEF u
  <2>2. u[i] = IF i <= Len(s) THEN s[i] ELSE t[i - Len(s)]
    BY <1>1, <2>1 DEF u
  <2>3. i \in DOMAIN s \/ (~ (i <= Len(s)) /\ i - Len(s) \in DOMAIN t)
    BY <1>1, <1>2, <2>1
  <2>4. i \in DOMAIN s => i <= Len(s)
    BY <1>1, <1>2
  <2> QED BY <2>2, <2>3, <2>4
<1>6. ToSet(u) = ToSet(s) \cup ToSet(t)
  BY <1>3, <1>4, <1>5 DEF ToSet
<1> QED BY <1>1, <1>6 DEF u

LEMMA OneOf ==
  ASSUME NEW S, NEW x \in S, NEW b
  PROVE  /\ <<x>> \in Seq(S) /\ ToSet(<<x>>) = {x}
         /\ If(b, <<x>>) \in Seq(S) /\ (b => ToSet(If(b, <<x>>)) = {x})
BY DEF If, ToSet

LEMMA ElementsIn ==
  ASSUME NEW S, NEW s \in Seq(S)
  PROVE  ToSet(s) \subseteq S
BY DEF ToSet

\* The elements of a list of sequences, joined.
LEMMA FlattenHas ==
  ASSUME NEW T, NEW s \in Seq(Seq(T))
  PROVE  \A i \in 1 .. Len(s) : ToSet(s[i]) \subseteq ToSet(FlattenSeq(s))
<1> TAKE i \in 1 .. Len(s)
<1>1. s[i] \in Seq(T) /\ FlattenSeq(s) \in Seq(T)
  BY ElementOfSeq, FlattenType
<1>2. SameFlat(s, s)
  BY FlattenTogether DEF SameShape
<1>3. SUFFICES ASSUME NEW k \in 1 .. Len(s[i]) PROVE s[i][k] \in ToSet(FlattenSeq(s))
  BY <1>1, LenProperties DEF ToSet
<1>4. PICK n \in 1 .. Len(FlattenSeq(s)) : FlattenSeq(s)[n] = s[i][k]
  BY <1>2 DEF SameFlat
<1>5. n \in DOMAIN FlattenSeq(s)
  BY <1>1, LenProperties
<1> QED BY <1>4, <1>5 DEF ToSet

LEMMA EachSlot ==
  ASSUME NEW S, NEW T, NEW s \in Seq(S), NEW f, DOMAIN f = DOMAIN s,
         f = [i \in DOMAIN f |-> f[i]], \A i \in 1 .. Len(s) : f[i] \in Seq(T)
  PROVE  /\ FlattenSeq(f) \in Seq(T)
         /\ \A i \in 1 .. Len(s) : ToSet(f[i]) \subseteq ToSet(FlattenSeq(f))
<1>1. f \in Seq(Seq(T)) /\ Len(f) = Len(s)
  BY Mapped
<1>2. FlattenSeq(f) \in Seq(T)
  BY <1>1, FlattenType
<1>3. \A i \in 1 .. Len(f) : ToSet(f[i]) \subseteq ToSet(FlattenSeq(f))
  BY <1>1, FlattenHas
<1> QED BY <1>1, <1>2, <1>3

\* What is allocated for an array, a field, a well, a plate and settings is good,
\* and fields have a block behind their path.
LEMMA SlotBelow ==
  ASSUME NEW at \in Seq(SlotParts), at # <<>>, NEW x \in Freed, x = "key" => at[1] = "arrays"
  PROVE  at \o <<x>> \in GoodSlots
<1>1. <<x>> \in Seq(SlotParts) /\ Len(<<x>>) = 1 /\ <<x>>[1] = x
  BY DEF SlotParts
<1>2. Len(at) \in Nat /\ Len(at) > 0
  BY EmptySeq, LenProperties
<1> DEFINE p == at \o <<x>>
<1>3. p \in Seq(SlotParts) /\ Len(p) = Len(at) + 1
      /\ \A i \in 1 .. Len(at) + 1 : p[i] = IF i <= Len(at) THEN at[i] ELSE <<x>>[i - Len(at)]
  BY <1>1, ConcatProperties
<1> HIDE DEF p
<1>4. p[Len(p)] = x
  BY <1>1, <1>2, <1>3
<1>5. p[1] = at[1]
  BY <1>2, <1>3
<1>6. p # <<>>
  BY <1>2, <1>3
<1> QED BY <1>3, <1>4, <1>5, <1>6 DEF GoodSlots, p

LEMMA AtBelow ==
  ASSUME NEW at \in Seq(SlotParts), at # <<>>, NEW x \in Freed, NEW k \in Nat
  PROVE  /\ at \o <<x, k>> \in Seq(SlotParts) /\ at \o <<x, k>> # <<>>
         /\ (at \o <<x, k>>)[1] = at[1]
<1>1. <<x, k>> \in Seq(SlotParts) /\ Len(<<x, k>>) = 2
  BY DEF SlotParts
<1>2. Len(at) \in Nat /\ Len(at) > 0
  BY EmptySeq, LenProperties
<1> DEFINE p == at \o <<x, k>>
<1>3. p \in Seq(SlotParts) /\ Len(p) = Len(at) + 2
      /\ \A i \in 1 .. Len(at) + 2 : p[i] = IF i <= Len(at) THEN at[i] ELSE <<x, k>>[i - Len(at)]
  BY <1>1, ConcatProperties
<1> HIDE DEF p
<1> QED BY <1>2, <1>3 DEF p

LEMMA ArraySlotsGood ==
  ASSUME NEW at \in Seq(SlotParts), at # <<>>, NEW a, NEW hasKey \in BOOLEAN,
         hasKey => at[1] = "arrays"
  PROVE  ArraySlots(at, a, hasKey) \in Seq(GoodSlots)
<1> DEFINE S == GoodSlots
           s1 == If(hasKey /\ a.key # NoKey, <<at \o <<"key">>>>)
           s2 == If(a.comp # None, <<at \o <<"comp">>>>)
           s3 == <<at \o <<"dims">>, at \o <<"names">>>>
           s4 == If(a.order # <<>>, <<at \o <<"order">>>>)
<1>1. /\ at \o <<"comp">> \in S /\ at \o <<"dims">> \in S /\ at \o <<"names">> \in S
      /\ at \o <<"order">> \in S /\ (hasKey => at \o <<"key">> \in S)
  BY SlotBelow DEF Freed
<1> HIDE DEF S
<1>2. s1 \in Seq(S)
  BY <1>1 DEF If
<1>3. s2 \in Seq(S) /\ s4 \in Seq(S)
  BY <1>1, OneOf
<1>4. s3 \in Seq(S)
  BY <1>1
<1>5. ArraySlots(at, a, hasKey) = ((s1 \o s2) \o s3) \o s4
  BY DEF ArraySlots
<1> HIDE DEF s1, s2, s3, s4
<1> QED BY <1>2, <1>3, <1>4, <1>5, ConcatSet DEF S

LEMMA ImageSlotsGood ==
  ASSUME NEW at \in Seq(SlotParts), at # <<>>, NEW image
  PROVE  /\ ImageSlots(at, image) \in Seq(GoodSlots)
         /\ at \o <<"path">> \in ToSet(ImageSlots(at, image))
<1> DEFINE s1 == <<at \o <<"path">>, at \o <<"array">>>>
           s2 == ArraySlots(at \o <<"array">>, image.array, FALSE)
<1>1. at \o <<"path">> \in GoodSlots /\ at \o <<"array">> \in GoodSlots
  BY SlotBelow DEF Freed
<1>2. s1 \in Seq(GoodSlots) /\ at \o <<"path">> \in ToSet(s1)
  BY <1>1 DEF ToSet
<1>3. s2 \in Seq(GoodSlots)
  <2>1. at \o <<"array">> \in Seq(SlotParts) /\ at \o <<"array">> # <<>>
    BY <1>1, GoodSlotIs
  <2> QED BY <2>1, ArraySlotsGood
<1>4. ImageSlots(at, image) = s1 \o s2
  BY DEF ImageSlots
<1> HIDE DEF s1, s2
<1> QED BY <1>2, <1>3, <1>4, ConcatSet

LEMMA WellSlotsGood ==
  ASSUME NEW at \in Seq(SlotParts), at # <<>>, NEW w \in WellSettings
  PROVE  /\ WellSlots(at, w) \in Seq(GoodSlots)
         /\ \A k \in 1 .. Len(w.images) :
               (at \o <<"images", k>>) \o <<"path">> \in ToSet(WellSlots(at, w))
<1> DEFINE s1 == <<at \o <<"row">>, at \o <<"col">>, at \o <<"images">>>>
           f == [k \in DOMAIN w.images |-> ImageSlots(at \o <<"images", k>>, w.images[k])]
<1>1. w.images \in Seq(ImageSettings) /\ DOMAIN w.images = 1 .. Len(w.images)
      /\ Len(w.images) \in Nat
  BY LenProperties DEF WellSettings
<1>2. at \o <<"row">> \in GoodSlots /\ at \o <<"col">> \in GoodSlots /\ at \o <<"images">> \in GoodSlots
  BY SlotBelow DEF Freed
<1>3. s1 \in Seq(GoodSlots)
  BY <1>2
<1>4. ASSUME NEW k \in 1 .. Len(w.images)
      PROVE  /\ f[k] \in Seq(GoodSlots)
             /\ (at \o <<"images", k>>) \o <<"path">> \in ToSet(f[k])
  <2>1. at \o <<"images", k>> \in Seq(SlotParts) /\ at \o <<"images", k>> # <<>>
    <3>1. k \in Nat /\ "images" \in Freed
      BY <1>1 DEF Freed
    <3> QED BY <3>1, AtBelow
  <2>2. f[k] = ImageSlots(at \o <<"images", k>>, w.images[k])
    BY <1>1
  <2> HIDE DEF f
  <2> QED BY <2>1, <2>2, ImageSlotsGood
<1>5. WellSlots(at, w) = s1 \o FlattenSeq(f)
  BY DEF WellSlots, Each
<1>6. DOMAIN f = DOMAIN w.images /\ f = [k \in DOMAIN f |-> f[k]]
  OBVIOUS
<1> HIDE DEF s1, f
<1>7. \A k \in 1 .. Len(w.images) : f[k] \in Seq(GoodSlots)
  BY <1>4
<1>8. /\ FlattenSeq(f) \in Seq(GoodSlots)
      /\ \A k \in 1 .. Len(w.images) : ToSet(f[k]) \subseteq ToSet(FlattenSeq(f))
  BY <1>1, <1>6, <1>7, EachSlot
<1> QED BY <1>3, <1>4, <1>5, <1>8, ConcatSet

LEMMA PlateSlotsGood ==
  ASSUME NEW at \in Seq(SlotParts), at # <<>>, NEW p \in PlateSettings
  PROVE  /\ PlateSlots(at, p) \in Seq(GoodSlots)
         /\ \A j \in 1 .. Len(p.wells) : \A k \in 1 .. Len(p.wells[j].images) :
               ((at \o <<"wells", j>>) \o <<"images", k>>) \o <<"path">>
                  \in ToSet(PlateSlots(at, p))
<1> DEFINE s1 == <<at \o <<"path">>, at \o <<"name">>, at \o <<"rows">>, at \o <<"cols">>,
                   at \o <<"wells">>>>
           f == [j \in DOMAIN p.wells |-> WellSlots(at \o <<"wells", j>>, p.wells[j])]
           s3 == If(p.acqs # <<>>, <<at \o <<"acqs">>, at \o <<"acqNames">>>>)
<1>1. p.wells \in Seq(WellSettings) /\ DOMAIN p.wells = 1 .. Len(p.wells)
      /\ Len(p.wells) \in Nat
  BY LenProperties DEF PlateSettings
<1>2. /\ at \o <<"path">> \in GoodSlots /\ at \o <<"name">> \in GoodSlots
      /\ at \o <<"rows">> \in GoodSlots /\ at \o <<"cols">> \in GoodSlots
      /\ at \o <<"wells">> \in GoodSlots /\ at \o <<"acqs">> \in GoodSlots
      /\ at \o <<"acqNames">> \in GoodSlots
  BY SlotBelow DEF Freed
<1>3. s1 \in Seq(GoodSlots) /\ s3 \in Seq(GoodSlots)
  BY <1>2 DEF If
<1>4. ASSUME NEW j \in 1 .. Len(p.wells)
      PROVE  /\ f[j] \in Seq(GoodSlots)
             /\ \A k \in 1 .. Len(p.wells[j].images) :
                   ((at \o <<"wells", j>>) \o <<"images", k>>) \o <<"path">> \in ToSet(f[j])
  <2>1. at \o <<"wells", j>> \in Seq(SlotParts) /\ at \o <<"wells", j>> # <<>>
    <3>1. j \in Nat /\ "wells" \in Freed
      BY <1>1 DEF Freed
    <3> QED BY <3>1, AtBelow
  <2>2. f[j] = WellSlots(at \o <<"wells", j>>, p.wells[j]) /\ p.wells[j] \in WellSettings
    BY <1>1, ElementOfSeq
  <2> HIDE DEF f
  <2> QED BY <2>1, <2>2, WellSlotsGood
<1>5. PlateSlots(at, p) = (s1 \o FlattenSeq(f)) \o s3
  BY DEF PlateSlots, Each
<1>6. DOMAIN f = DOMAIN p.wells /\ f = [j \in DOMAIN f |-> f[j]]
  OBVIOUS
<1> HIDE DEF s1, f, s3
<1>7. \A j \in 1 .. Len(p.wells) : f[j] \in Seq(GoodSlots)
  BY <1>4
<1>8. /\ FlattenSeq(f) \in Seq(GoodSlots)
      /\ \A j \in 1 .. Len(p.wells) : ToSet(f[j]) \subseteq ToSet(FlattenSeq(f))
  BY <1>1, <1>6, <1>7, EachSlot
<1> DEFINE a == s1 \o FlattenSeq(f)
<1>9. a \in Seq(GoodSlots) /\ ToSet(FlattenSeq(f)) \subseteq ToSet(a)
  BY <1>3, <1>8, ConcatSet
<1>10. PlateSlots(at, p) = a \o s3
  BY <1>5
<1> HIDE DEF a
<1>11. PlateSlots(at, p) \in Seq(GoodSlots) /\ ToSet(a) \subseteq ToSet(PlateSlots(at, p))
  BY <1>3, <1>9, <1>10, ConcatSet
<1> QED BY <1>4, <1>8, <1>9, <1>11

\* The two ways of naming the path of a field.
LEMMA FieldSlotIs ==
  ASSUME NEW i \in Nat, NEW j \in Nat, NEW k \in Nat
  PROVE  FieldSlot(<<i, <<j, k>>>>) \o <<"path">>
         = ((<<"plates", i>> \o <<"wells", j>>) \o <<"images", k>>) \o <<"path">>
<1>1. FieldSlot(<<i, <<j, k>>>>) = <<"plates", i, "wells", j, "images", k>>
  BY DEF FieldSlot
<1> DEFINE a == <<"plates", i>>  b == <<"wells", j>>  c == <<"images", k>>
           ab == <<"plates", i, "wells", j>>  abc == <<"plates", i, "wells", j, "images", k>>
<1>2. /\ a \in Seq(SlotParts) /\ b \in Seq(SlotParts) /\ c \in Seq(SlotParts) /\ ab \in Seq(SlotParts)
      /\ abc \in Seq(SlotParts)
      /\ Len(a) = 2 /\ Len(b) = 2 /\ Len(c) = 2 /\ Len(ab) = 4 /\ Len(abc) = 6
  BY DEF SlotParts, Freed
<1>3. a \o b = ab
  <2>1. a \o b \in Seq(SlotParts) /\ Len(a \o b) = 4
    BY <1>2, ConcatProperties
  <2>2. \A n \in 1 .. 4 : (a \o b)[n] = IF n <= 2 THEN a[n] ELSE b[n - 2]
    BY <1>2, ConcatProperties
  <2>3. \A n \in 1 .. 4 : ab[n] = IF n <= 2 THEN a[n] ELSE b[n - 2]
    <3>1. \A n \in 1 .. 4 : n = 1 \/ n = 2 \/ n = 3 \/ n = 4
      OBVIOUS
    <3> QED BY <3>1
  <2> HIDE DEF a, b, ab
  <2> QED BY <1>2, <2>1, <2>2, <2>3, SeqEqual
<1>4. ab \o c = abc
  <2>1. ab \o c \in Seq(SlotParts) /\ Len(ab \o c) = 6
    BY <1>2, ConcatProperties
  <2>2. \A n \in 1 .. 6 : (ab \o c)[n] = IF n <= 4 THEN ab[n] ELSE c[n - 4]
    BY <1>2, ConcatProperties
  <2>3. \A n \in 1 .. 6 : abc[n] = IF n <= 4 THEN ab[n] ELSE c[n - 4]
    <3>1. \A n \in 1 .. 6 : n = 1 \/ n = 2 \/ n = 3 \/ n = 4 \/ n = 5 \/ n = 6
      OBVIOUS
    <3> QED BY <3>1
  <2> DEFINE x == ab \o c
  <2> HIDE DEF c, ab, abc
  <2>4. /\ x \in Seq(SlotParts) /\ abc \in Seq(SlotParts) /\ Len(x) = Len(abc)
        /\ \A n \in 1 .. Len(x) : x[n] = abc[n]
    BY <1>2, <2>1, <2>2, <2>3
  <2> HIDE DEF x
  <2>5. x = abc
    BY <2>4, SeqEqual
  <2> QED BY <2>5 DEF x
<1> QED BY <1>1, <1>3, <1>4, Zenon

\* All that is allocated for settings is freed with them.
LEMMA LoadSlotsGood ==
  ASSUME NEW s \in StreamSettings
  PROVE  /\ LoadSlots(s) \in Seq(GoodSlots)
         /\ \A i \in 1 .. Len(s.plates) : \A j \in 1 .. Len(s.plates[i].wells) :
            \A k \in 1 .. Len(s.plates[i].wells[j].images) :
               FieldSlot(<<i, <<j, k>>>>) \o <<"path">> \in ToSet(LoadSlots(s))
<1> DEFINE s1 == <<<<"store">>>>
           s2 == If(s.s3 # None, <<<<"s3">>, <<"endpoint">>, <<"bucket">>>>)
           s3 == If(s.arrays # <<>>, <<<<"arrays">>>>)
           f == [i \in DOMAIN s.arrays |-> ArraySlots(<<"arrays", i>>, s.arrays[i], TRUE)]
           s5 == If(s.plates # <<>>, <<<<"hcs">>, <<"plates">>>>)
           g == [i \in DOMAIN s.plates |-> PlateSlots(<<"plates", i>>, s.plates[i])]
<1>1. /\ s.arrays \in Seq(ArraySettings) /\ DOMAIN s.arrays = 1 .. Len(s.arrays)
      /\ s.plates \in Seq(PlateSettings) /\ DOMAIN s.plates = 1 .. Len(s.plates)
      /\ Len(s.arrays) \in Nat /\ Len(s.plates) \in Nat
  BY LenProperties DEF StreamSettings
<1>2. \A x \in Freed \ {"key"} : <<x>> \in GoodSlots
  BY DEF GoodSlots, SlotParts
<1>3. /\ s1 \in Seq(GoodSlots) /\ s2 \in Seq(GoodSlots) /\ s3 \in Seq(GoodSlots)
      /\ s5 \in Seq(GoodSlots)
  BY <1>2 DEF If, Freed
<1>4. ASSUME NEW i \in 1 .. Len(s.arrays) PROVE f[i] \in Seq(GoodSlots)
  <2>1. /\ <<"arrays", i>> \in Seq(SlotParts) /\ <<"arrays", i>> # <<>>
        /\ <<"arrays", i>>[1] = "arrays" /\ TRUE \in BOOLEAN
    BY <1>1 DEF SlotParts, Freed
  <2>2. f[i] = ArraySlots(<<"arrays", i>>, s.arrays[i], TRUE)
    BY <1>1
  <2> HIDE DEF f
  <2>3. ArraySlots(<<"arrays", i>>, s.arrays[i], TRUE) \in Seq(GoodSlots)
    BY <2>1, ArraySlotsGood
  <2> QED BY <2>2, <2>3
<1>5. ASSUME NEW i \in 1 .. Len(s.plates)
      PROVE  /\ g[i] \in Seq(GoodSlots)
             /\ \A j \in 1 .. Len(s.plates[i].wells) :
                \A k \in 1 .. Len(s.plates[i].wells[j].images) :
                   ((<<"plates", i>> \o <<"wells", j>>) \o <<"images", k>>) \o <<"path">>
                      \in ToSet(g[i])
  <2>1. <<"plates", i>> \in Seq(SlotParts) /\ <<"plates", i>> # <<>>
    BY <1>1 DEF SlotParts, Freed
  <2>2. g[i] = PlateSlots(<<"plates", i>>, s.plates[i]) /\ s.plates[i] \in PlateSettings
    BY <1>1, ElementOfSeq
  <2> HIDE DEF g
  <2> QED BY <2>1, <2>2, PlateSlotsGood
<1>6. LoadSlots(s) = ((((s1 \o s2) \o s3) \o FlattenSeq(f)) \o s5) \o FlattenSeq(g)
  BY DEF LoadSlots, Each
<1>7. /\ DOMAIN f = DOMAIN s.arrays /\ f = [i \in DOMAIN f |-> f[i]]
      /\ DOMAIN g = DOMAIN s.plates /\ g = [i \in DOMAIN g |-> g[i]]
  OBVIOUS
<1> HIDE DEF s1, s2, s3, s5, f, g
<1>8. FlattenSeq(f) \in Seq(GoodSlots)
  BY <1>1, <1>4, <1>7, EachSlot
<1>9. \A i \in 1 .. Len(s.plates) : g[i] \in Seq(GoodSlots)
  BY <1>5
<1>10. /\ FlattenSeq(g) \in Seq(GoodSlots)
       /\ \A i \in 1 .. Len(s.plates) : ToSet(g[i]) \subseteq ToSet(FlattenSeq(g))
  BY <1>1, <1>7, <1>9, EachSlot
<1>11. (s1 \o s2) \o s3 \in Seq(GoodSlots)
  BY <1>3, ConcatSet
<1> DEFINE a == (((s1 \o s2) \o s3) \o FlattenSeq(f)) \o s5
<1>12. a \in Seq(GoodSlots) /\ LoadSlots(s) = a \o FlattenSeq(g)
  BY <1>3, <1>6, <1>8, <1>11, ConcatSet
<1> HIDE DEF a
<1>13. LoadSlots(s) \in Seq(GoodSlots) /\ ToSet(FlattenSeq(g)) \subseteq ToSet(LoadSlots(s))
  BY <1>10, <1>12, ConcatSet
<1>14. ASSUME NEW i \in 1 .. Len(s.plates), NEW j \in 1 .. Len(s.plates[i].wells),
              NEW k \in 1 .. Len(s.plates[i].wells[j].images)
       PROVE  FieldSlot(<<i, <<j, k>>>>) \o <<"path">> \in ToSet(LoadSlots(s))
  <2>1. ((<<"plates", i>> \o <<"wells", j>>) \o <<"images", k>>) \o <<"path">> \in ToSet(g[i])
    BY <1>5
  <2>2. i \in Nat /\ j \in Nat /\ k \in Nat
    OBVIOUS
  <2>3. FieldSlot(<<i, <<j, k>>>>) \o <<"path">> \in ToSet(g[i])
    BY <2>1, <2>2, FieldSlotIs, Zenon
  <2> QED BY <2>3, <1>10, <1>13
<1> QED BY <1>13, <1>14
-----------------------------------------------------------------------------
(* The lists that are created *)

\* The lists that create functions make: each is in reach of the destroy function
\* of the first.
Chained(p) ==
    /\ p \in Seq(SlotParts) /\ p # <<>> /\ p[1] \in {"arrays", "plates"}
    /\ \A i \in 3 .. Len(p) : i % 2 = 1 => p[i] \in Cascade[p[i - 2]]
Nested == {p \in Seq(SlotParts) : Chained(p) /\ Len(p) % 2 = 1}
NestAt(x) == {p \in Seq(SlotParts) : Chained(p) /\ Len(p) % 2 = 0 /\ p[Len(p) - 1] = x}

\* Names of elements are at odd places.
LEMMA Parity ==
  ASSUME NEW a \in Nat, NEW b \in Nat, a % 2 = 0, b % 2 = 1, a <= b
  PROVE  (b - a) % 2 = 1 /\ b # a + 2
<1>1. (b - a) % 2 = 1
  OBVIOUS
<1>2. b # a + 2
  OBVIOUS
<1> QED BY <1>1, <1>2

\* What is made for an element of a list is in reach as well.
LEMMA ChainBelow ==
  ASSUME NEW x, NEW at \in NestAt(x), NEW t \in Seq(SlotParts), t # <<>>, t[1] \in Cascade[x],
         \A i \in 3 .. Len(t) : i % 2 = 1 => t[i] \in Cascade[t[i - 2]]
  PROVE  /\ Chained(at \o t) /\ Len(at \o t) = Len(at) + Len(t)
         /\ Len(at) \in Nat /\ Len(at) % 2 = 0
         /\ \A i \in 1 .. Len(t) : (at \o t)[Len(at) + i] = t[i]
<1>1. /\ at \in Seq(SlotParts) /\ at # <<>> /\ at[1] \in {"arrays", "plates"}
      /\ \A i \in 3 .. Len(at) : i % 2 = 1 => at[i] \in Cascade[at[i - 2]]
      /\ Len(at) % 2 = 0 /\ at[Len(at) - 1] = x
  BY DEF NestAt, Chained
<1>2. Len(at) \in Nat /\ Len(at) >= 2 /\ Len(t) \in Nat /\ Len(t) >= 1
  <2>1. Len(at) \in Nat \ {0} /\ Len(t) \in Nat \ {0}
    BY <1>1, EmptySeq
  <2> QED BY <1>1, <2>1
<1> DEFINE p == at \o t
<1>3. /\ p \in Seq(SlotParts) /\ Len(p) = Len(at) + Len(t)
      /\ \A i \in 1 .. Len(at) + Len(t) : p[i] = IF i <= Len(at) THEN at[i] ELSE t[i - Len(at)]
  BY <1>1, ConcatProperties
<1> HIDE DEF p
<1>4. p[1] = at[1] /\ p # <<>>
  <2>1. 1 \in 1 .. Len(at) + Len(t) /\ 1 <= Len(at)
    BY <1>2
  <2>2. p # <<>>
    BY <1>2, <1>3, EmptySeq
  <2> QED BY <1>3, <2>1, <2>2
<1>5. ASSUME NEW i \in 1 .. Len(t) PROVE p[Len(at) + i] = t[i]
  <2>1. Len(at) + i \in 1 .. Len(at) + Len(t) /\ ~ (Len(at) + i <= Len(at))
        /\ (Len(at) + i) - Len(at) = i
    BY <1>2
  <2> QED BY <1>3, <2>1
<1>6. ASSUME NEW i \in 3 .. Len(p), i % 2 = 1 PROVE p[i] \in Cascade[p[i - 2]]
  <2>1. i \in 1 .. Len(at) + Len(t) /\ i - 2 \in 1 .. Len(at) + Len(t)
    BY <1>2, <1>3
  <2>2. CASE i <= Len(at)
    <3>1. p[i] = at[i] /\ p[i - 2] = at[i - 2]
      BY <1>3, <2>1, <2>2
    <3>2. i \in 3 .. Len(at)
      BY <1>2, <2>2
    <3> QED BY <1>1, <1>6, <3>1, <3>2
  <2>3. CASE i = Len(at) + 1
    <3>1. p[i] = t[1]
      BY <1>5, <2>3, <1>2
    <3>2. i - 2 = Len(at) - 1 /\ i - 2 <= Len(at)
      BY <1>2, <2>3
    <3>3. p[i - 2] = at[i - 2]
      BY <1>3, <2>1, <3>2
    <3> QED BY <1>1, <3>1, <3>2, <3>3
  <2>4. CASE i > Len(at) + 1
    <3> DEFINE m == i - Len(at)
    <3>1. m \in 1 .. Len(t) /\ m - 2 \in 1 .. Len(t) /\ m % 2 = 1 /\ m \in 3 .. Len(t)
          /\ Len(at) + m = i /\ Len(at) + (m - 2) = i - 2
      <4>1. i \in Nat /\ Len(at) <= i
        BY <1>2, <2>4
      <4>2. m % 2 = 1 /\ i # Len(at) + 2
        BY <1>1, <1>2, <1>6, <4>1, Parity
      <4> QED BY <4>2, <1>2, <2>1, <2>4
    <3> HIDE DEF m
    <3>2. p[i] = t[m] /\ p[i - 2] = t[m - 2]
      BY <1>5, <3>1
    <3> QED BY <3>1, <3>2
  <2> QED BY <2>1, <2>2, <2>3, <2>4, <1>2
<1>7. Chained(p)
  BY <1>1, <1>3, <1>4, <1>6 DEF Chained
<1> QED BY <1>1, <1>2, <1>3, <1>5, <1>7 DEF p

LEMMA NestBelow ==
  ASSUME NEW x, NEW at \in NestAt(x), NEW y \in Freed, y \in Cascade[x]
  PROVE  /\ at \o <<y>> \in Nested
         /\ \A k \in Nat : at \o <<y, k>> \in NestAt(y)
         /\ \A k \in Nat : \A z \in Freed : z \in Cascade[y] => at \o <<y, k, z>> \in Nested
<1>1. at \o <<y>> \in Nested
  <2>1. <<y>> \in Seq(SlotParts) /\ Len(<<y>>) = 1 /\ <<y>>[1] = y /\ <<y>> # <<>>
    BY DEF SlotParts
  <2> DEFINE t == <<y>>  p == at \o t
  <2>0. \A i \in 3 .. Len(t) : t[i] \in Cascade[t[i - 2]]
    BY <2>1
  <2> HIDE DEF t
  <2>2. Chained(p) /\ Len(p) = Len(at) + Len(t) /\ Len(at) \in Nat /\ Len(at) % 2 = 0
    BY <2>0, <2>1, ChainBelow DEF t
  <2> HIDE DEF p
  <2>3. Len(p) % 2 = 1
    BY <2>1, <2>2 DEF t
  <2>4. p \in Nested
    BY <2>2, <2>3 DEF Nested, Chained
  <2> QED BY <2>4 DEF p, t
<1>2. ASSUME NEW k \in Nat PROVE at \o <<y, k>> \in NestAt(y)
  <2>1. <<y, k>> \in Seq(SlotParts) /\ Len(<<y, k>>) = 2 /\ <<y, k>>[1] = y /\ <<y, k>> # <<>>
    BY DEF SlotParts
  <2> DEFINE t == <<y, k>>  p == at \o t
  <2>0. \A i \in 3 .. Len(t) : t[i] \in Cascade[t[i - 2]]
    BY <2>1
  <2> HIDE DEF t
  <2>2. Chained(p) /\ Len(p) = Len(at) + Len(t) /\ Len(at) \in Nat /\ Len(at) % 2 = 0
        /\ p[Len(at) + 1] = t[1]
    <3>1. 1 \in 1 .. Len(t)
      BY <2>1 DEF t
    <3>2. /\ Chained(p) /\ Len(p) = Len(at) + Len(t) /\ Len(at) \in Nat /\ Len(at) % 2 = 0
          /\ \A i \in 1 .. Len(t) : p[Len(at) + i] = t[i]
      BY <2>0, <2>1, ChainBelow DEF t
    <3> QED BY <3>1, <3>2
  <2> HIDE DEF p
  <2>3. Len(p) % 2 = 0 /\ Len(p) - 1 = Len(at) + 1
    BY <2>1, <2>2 DEF t
  <2>4. p \in NestAt(y)
    BY <2>1, <2>2, <2>3 DEF NestAt, Chained, t
  <2> QED BY <2>4 DEF p, t
<1>3. ASSUME NEW k \in Nat, NEW z \in Freed, z \in Cascade[y] PROVE at \o <<y, k, z>> \in Nested
  <2>1. /\ <<y, k, z>> \in Seq(SlotParts) /\ Len(<<y, k, z>>) = 3 /\ <<y, k, z>>[1] = y
        /\ <<y, k, z>> # <<>> /\ <<y, k, z>>[3] = z
    BY DEF SlotParts
  <2> DEFINE t == <<y, k, z>>  p == at \o t
  <2>2. \A i \in 3 .. Len(t) : t[i] \in Cascade[t[i - 2]]
    <3>1. \A i \in 3 .. Len(t) : i = 3 /\ i - 2 = 1
      BY <2>1
    <3> QED BY <1>3, <2>1, <3>1
  <2> HIDE DEF t
  <2>3. Chained(p) /\ Len(p) = Len(at) + Len(t) /\ Len(at) \in Nat /\ Len(at) % 2 = 0
    BY <2>1, <2>2, ChainBelow DEF t
  <2> HIDE DEF p
  <2>4. Len(p) % 2 = 1
    BY <2>1, <2>3 DEF t
  <2>5. p \in Nested
    BY <2>3, <2>4 DEF Nested, Chained
  <2> QED BY <2>5 DEF p, t
<1> QED BY <1>1, <1>2, <1>3

LEMMA NestStarts ==
  /\ <<"arrays">> \in Nested /\ <<"plates">> \in Nested
  /\ \A i \in Nat : <<"arrays", i>> \in NestAt("arrays") /\ <<"plates", i>> \in NestAt("plates")
  /\ \A i \in Nat : <<"arrays", i, "dims">> \in Nested
<1>1. \A x \in {"arrays", "plates"} : <<x>> \in Nested
  BY DEF Nested, Chained, SlotParts, Freed
<1>2. \A x \in {"arrays", "plates"} : \A i \in Nat : <<x, i>> \in NestAt(x)
  BY DEF NestAt, Chained, SlotParts, Freed
<1>3. ASSUME NEW i \in Nat PROVE <<"arrays", i, "dims">> \in Nested
  <2> DEFINE p == <<"arrays", i, "dims">>
  <2>1. p \in Seq(SlotParts) /\ Len(p) = 3 /\ p[1] = "arrays" /\ p[3] = "dims" /\ p # <<>>
    BY DEF SlotParts, Freed
  <2> HIDE DEF p
  <2>2. \A n \in 3 .. Len(p) : p[n] \in Cascade[p[n - 2]]
    <3>1. \A n \in 3 .. Len(p) : n = 3 /\ n - 2 = 1
      BY <2>1
    <3>2. "dims" \in Cascade["arrays"]
      BY DEF Cascade
    <3> QED BY <2>1, <3>1, <3>2
  <2>3. Chained(p)
    BY <2>1, <2>2 DEF Chained
  <2>4. Len(p) % 2 = 1
    BY <2>1
  <2>5. p \in Nested
    BY <2>1, <2>3, <2>4 DEF Nested
  <2> QED BY <2>5 DEF p
<1> QED BY <1>1, <1>2, <1>3

\* So all lists that are made for settings are.
LEMMA WellListsNested ==
  ASSUME NEW at \in NestAt("wells"), NEW w \in WellSettings
  PROVE  WellLists(at, w) \in Seq(Nested)
<1> DEFINE s1 == <<at \o <<"images">>>>
           f == [k \in DOMAIN w.images |-> <<at \o <<"images", k, "dims">>>>]
<1>1. w.images \in Seq(ImageSettings) /\ DOMAIN w.images = 1 .. Len(w.images)
      /\ Len(w.images) \in Nat
  BY LenProperties DEF WellSettings
<1>2. /\ at \o <<"images">> \in Nested
      /\ \A k \in Nat : at \o <<"images", k, "dims">> \in Nested
  <2>1. "images" \in Freed /\ "dims" \in Freed /\ "images" \in Cascade["wells"]
        /\ "dims" \in Cascade["images"]
    BY DEF Freed, Cascade
  <2> QED BY <2>1, NestBelow
<1>3. s1 \in Seq(Nested)
  BY <1>2
<1>4. \A k \in 1 .. Len(w.images) : f[k] \in Seq(Nested)
  <2>1. TAKE k \in 1 .. Len(w.images)
  <2>2. at \o <<"images", k, "dims">> \in Nested
    BY <1>1, <1>2
  <2>3. f[k] = <<at \o <<"images", k, "dims">>>>
    BY <1>1
  <2> QED BY <2>2, <2>3
<1>5. DOMAIN f = DOMAIN w.images /\ f = [k \in DOMAIN f |-> f[k]]
  OBVIOUS
<1>6. WellLists(at, w) = s1 \o FlattenSeq(f)
  BY DEF WellLists, Each
<1> HIDE DEF s1, f
<1>7. FlattenSeq(f) \in Seq(Nested)
  BY <1>1, <1>4, <1>5, EachSlot
<1> QED BY <1>3, <1>6, <1>7, ConcatSet

LEMMA PlateListsNested ==
  ASSUME NEW at \in NestAt("plates"), NEW p \in PlateSettings
  PROVE  PlateLists(at, p) \in Seq(Nested)
<1> DEFINE s1 == <<at \o <<"wells">>>>
           f == [j \in DOMAIN p.wells |-> WellLists(at \o <<"wells", j>>, p.wells[j])]
           s3 == If(p.acqs # <<>>, <<at \o <<"acqs">>>>)
           s4 == <<at \o <<"rows">>, at \o <<"cols">>>>
<1>1. p.wells \in Seq(WellSettings) /\ DOMAIN p.wells = 1 .. Len(p.wells)
      /\ Len(p.wells) \in Nat
  BY LenProperties DEF PlateSettings
<1>2. /\ \A y \in {"wells", "acqs", "rows", "cols"} : at \o <<y>> \in Nested
      /\ \A j \in Nat : at \o <<"wells", j>> \in NestAt("wells")
  <2>1. \A y \in {"wells", "acqs", "rows", "cols"} : y \in Freed /\ y \in Cascade["plates"]
    BY DEF Freed, Cascade
  <2>2. \A y \in {"wells", "acqs", "rows", "cols"} :
           at \o <<y>> \in Nested /\ \A j \in Nat : at \o <<y, j>> \in NestAt(y)
    BY <2>1, NestBelow
  <2> QED BY <2>2
<1>3. s1 \in Seq(Nested) /\ s3 \in Seq(Nested) /\ s4 \in Seq(Nested)
  BY <1>2 DEF If
<1>4. \A j \in 1 .. Len(p.wells) : f[j] \in Seq(Nested)
  <2>1. TAKE j \in 1 .. Len(p.wells)
  <2>2. at \o <<"wells", j>> \in NestAt("wells") /\ p.wells[j] \in WellSettings
    BY <1>1, <1>2, ElementOfSeq
  <2>3. f[j] = WellLists(at \o <<"wells", j>>, p.wells[j])
    BY <1>1
  <2> HIDE DEF f
  <2> QED BY <2>2, <2>3, WellListsNested
<1>5. DOMAIN f = DOMAIN p.wells /\ f = [j \in DOMAIN f |-> f[j]]
  OBVIOUS
<1>6. PlateLists(at, p) = ((s1 \o FlattenSeq(f)) \o s3) \o s4
  BY DEF PlateLists, Each
<1> HIDE DEF s1, f, s3, s4
<1>7. FlattenSeq(f) \in Seq(Nested)
  BY <1>1, <1>4, <1>5, EachSlot
<1> QED BY <1>3, <1>6, <1>7, ConcatSet

LEMMA BuildListsNested ==
  ASSUME NEW s \in StreamSettings
  PROVE  BuildLists(s) \in Seq(Nested)
<1> DEFINE s1 == If(s.arrays # <<>>, <<<<"arrays">>>>)
           f == [i \in DOMAIN s.arrays |-> <<<<"arrays", i, "dims">>>>]
           s3 == If(s.plates # <<>>, <<<<"plates">>>>)
           g == [i \in DOMAIN s.plates |-> PlateLists(<<"plates", i>>, s.plates[i])]
<1>1. /\ s.arrays \in Seq(ArraySettings) /\ DOMAIN s.arrays = 1 .. Len(s.arrays)
      /\ s.plates \in Seq(PlateSettings) /\ DOMAIN s.plates = 1 .. Len(s.plates)
      /\ Len(s.arrays) \in Nat /\ Len(s.plates) \in Nat
  BY LenProperties DEF StreamSettings
<1>2. s1 \in Seq(Nested) /\ s3 \in Seq(Nested)
  BY NestStarts DEF If
<1>3. \A i \in 1 .. Len(s.arrays) : f[i] \in Seq(Nested)
  <2>1. TAKE i \in 1 .. Len(s.arrays)
  <2>2. <<"arrays", i, "dims">> \in Nested
    BY <1>1, NestStarts
  <2>3. f[i] = <<<<"arrays", i, "dims">>>>
    BY <1>1
  <2> QED BY <2>2, <2>3
<1>4. \A i \in 1 .. Len(s.plates) : g[i] \in Seq(Nested)
  <2>1. TAKE i \in 1 .. Len(s.plates)
  <2>2. <<"plates", i>> \in NestAt("plates") /\ s.plates[i] \in PlateSettings
    <3>1. i \in Nat /\ s.plates[i] \in PlateSettings
      BY <1>1, ElementOfSeq
    <3>2. \A n \in Nat : <<"plates", n>> \in NestAt("plates")
      BY NestStarts
    <3> QED BY <3>1, <3>2
  <2>3. g[i] = PlateLists(<<"plates", i>>, s.plates[i])
    BY <1>1
  <2> HIDE DEF g
  <2> QED BY <2>2, <2>3, PlateListsNested
<1>5. /\ DOMAIN f = DOMAIN s.arrays /\ f = [i \in DOMAIN f |-> f[i]]
      /\ DOMAIN g = DOMAIN s.plates /\ g = [i \in DOMAIN g |-> g[i]]
  OBVIOUS
<1>6. BuildLists(s) = ((s1 \o FlattenSeq(f)) \o s3) \o FlattenSeq(g)
  BY DEF BuildLists, Each
<1> HIDE DEF s1, f, s3, g
<1>7. FlattenSeq(f) \in Seq(Nested)
  BY <1>1, <1>3, <1>5, EachSlot
<1>8. FlattenSeq(g) \in Seq(Nested)
  BY <1>1, <1>4, <1>5, EachSlot
<1> QED BY <1>2, <1>6, <1>7, <1>8, ConcatSet

\* A list goes with the lists below it.
LEMMA FreedWithIs ==
  ASSUME DOMAIN mem \subseteq Nested
  PROVE  /\ \A slot \in Nested : FreedWith(slot) = {p \in DOMAIN mem : IsPrefix(slot, p)}
         /\ FreedWith(<<"arrays">>) \cup FreedWith(<<"plates">>) = DOMAIN mem
<1>1. ASSUME NEW slot \in Nested, NEW p \in DOMAIN mem, IsPrefix(slot, p)
      PROVE  p \in FreedWith(slot)
  <2>1. p \in Nested /\ Len(p) \in Nat /\ Len(slot) \in Nat /\ Len(p) % 2 = 1
        /\ Len(slot) >= 1 /\ \A i \in 3 .. Len(p) : i % 2 = 1 => p[i] \in Cascade[p[i - 2]]
    <3>1. p \in Nested
      OBVIOUS
    <3>2. p \in Seq(SlotParts) /\ slot \in Seq(SlotParts) /\ slot # <<>>
      BY <3>1 DEF Nested, Chained
    <3>3. Len(slot) \in Nat \ {0} /\ Len(p) \in Nat
      BY <3>2, EmptySeq, LenProperties
    <3>4. Chained(p) /\ Len(p) % 2 = 1
      BY <3>1 DEF Nested
    <3>5. Len(slot) >= 1
      BY <3>3
    <3> QED BY <3>1, <3>3, <3>4, <3>5 DEF Chained
  <2>2. \A i \in Len(slot) + 2 .. Len(p) : i % 2 = Len(p) % 2 => p[i] \in Cascade[p[i - 2]]
    BY <2>1
  <2> QED BY <1>1, <2>2 DEF FreedWith, IsStrictPrefix
<1>2. ASSUME NEW slot \in Nested, NEW p \in FreedWith(slot)
      PROVE  p \in DOMAIN mem /\ IsPrefix(slot, p)
  <2>1. CASE p = slot
    <3>1. Len(p) \in Nat
      BY LenProperties DEF Nested
    <3> QED BY <2>1, <3>1 DEF FreedWith, IsPrefix
  <2>2. CASE p # slot
    BY <2>2 DEF FreedWith, IsStrictPrefix
  <2> QED BY <2>1, <2>2
<1>3. ASSUME NEW p \in DOMAIN mem PROVE IsPrefix(<<"arrays">>, p) \/ IsPrefix(<<"plates">>, p)
  <2>1. p \in Seq(SlotParts) /\ p # <<>> /\ p[1] \in {"arrays", "plates"}
    BY DEF Nested, Chained
  <2>2. Len(p) \in Nat \ {0}
    BY <2>1, EmptySeq
  <2>3. \A x \in {"arrays", "plates"} : p[1] = x => SubSeq(<<x>>, 1, 1) = SubSeq(p, 1, 1)
    <3>1. TAKE x \in {"arrays", "plates"}
    <3>2. SUFFICES ASSUME p[1] = x PROVE SubSeq(<<x>>, 1, 1) = SubSeq(p, 1, 1)
      OBVIOUS
    <3>3. SubSeq(p, 1, 1) = [n \in 1 .. 1 |-> p[n]] /\ SubSeq(<<x>>, 1, 1) = [n \in 1 .. 1 |-> <<x>>[n]]
      BY <2>1, <2>2
    <3> QED BY <3>2, <3>3
  <2>4. \A x \in {"arrays", "plates"} : p[1] = x => IsPrefix(<<x>>, p)
    BY <2>2, <2>3 DEF IsPrefix
  <2> QED BY <2>1, <2>4
<1>4. \A slot \in Nested : FreedWith(slot) = {p \in DOMAIN mem : IsPrefix(slot, p)}
  BY <1>1, <1>2
<1>5. <<"arrays">> \in Nested /\ <<"plates">> \in Nested
  BY NestStarts
<1> QED BY <1>3, <1>4, <1>5
-----------------------------------------------------------------------------
(* The fields of view *)

\* The fields of a plate, and of settings.
FieldIds(p) == {f \in Nat \X Nat : /\ f[1] \in 1 .. Len(p.wells)
                                   /\ f[2] \in 1 .. Len(p.wells[f[1]].images)}
AtIds(s) == {at \in Nat \X (Nat \X Nat) : /\ at[1] \in 1 .. Len(s.plates)
                                          /\ at[2] \in FieldIds(s.plates[at[1]])}

\* The lists of fields are made of them.
LEMMA FieldsOfType ==
  ASSUME NEW p \in PlateSettings
  PROVE  FieldsOf(p) \in Seq(FieldIds(p))
<1> DEFINE f == [j \in DOMAIN p.wells |-> [k \in DOMAIN p.wells[j].images |-> <<j, k>>]]
<1>1. p.wells \in Seq(WellSettings) /\ DOMAIN p.wells = 1 .. Len(p.wells)
  BY LenProperties DEF PlateSettings
<1>2. \A j \in 1 .. Len(p.wells) : f[j] \in Seq(FieldIds(p))
  <2>1. TAKE j \in 1 .. Len(p.wells)
  <2> DEFINE g == [k \in DOMAIN p.wells[j].images |-> <<j, k>>]
  <2>2. p.wells[j].images \in Seq(ImageSettings)
    <3>1. p.wells[j] \in WellSettings
      BY <1>1, ElementOfSeq
    <3> QED BY <3>1 DEF WellSettings
  <2>3. \A k \in 1 .. Len(p.wells[j].images) : <<j, k>> \in FieldIds(p)
    BY <1>1 DEF FieldIds
  <2>4. DOMAIN g = DOMAIN p.wells[j].images /\ g = [k \in DOMAIN g |-> g[k]]
    OBVIOUS
  <2>5. DOMAIN p.wells[j].images = 1 .. Len(p.wells[j].images)
    BY <2>2, LenProperties
  <2>6. \A k \in 1 .. Len(p.wells[j].images) : g[k] \in FieldIds(p)
    BY <2>3, <2>5
  <2>7. f[j] = g
    BY <1>1
  <2> HIDE DEF f, g
  <2>8. g \in Seq(FieldIds(p))
    BY <2>2, <2>4, <2>6, Mapped
  <2> QED BY <2>7, <2>8
<1>3. DOMAIN f = DOMAIN p.wells /\ f = [j \in DOMAIN f |-> f[j]]
  OBVIOUS
<1>4. FieldsOf(p) = FlattenSeq(f)
  BY DEF FieldsOf
<1> HIDE DEF f
<1> QED BY <1>1, <1>2, <1>3, <1>4, EachSlot

LEMMA AllFieldsType ==
  ASSUME NEW s \in StreamSettings
  PROVE  AllFields(s) \in Seq(AtIds(s))
<1> DEFINE f == [i \in DOMAIN s.plates |->
                   [n \in DOMAIN FieldsOf(s.plates[i]) |-> <<i, FieldsOf(s.plates[i])[n]>>]]
<1>1. s.plates \in Seq(PlateSettings) /\ DOMAIN s.plates = 1 .. Len(s.plates)
  BY LenProperties DEF StreamSettings
<1>2. \A i \in 1 .. Len(s.plates) : f[i] \in Seq(AtIds(s))
  <2>1. TAKE i \in 1 .. Len(s.plates)
  <2> DEFINE of == FieldsOf(s.plates[i])
             g == [n \in DOMAIN of |-> <<i, of[n]>>]
  <2>2. of \in Seq(FieldIds(s.plates[i]))
    BY <1>1, ElementOfSeq, FieldsOfType
  <2>3. f[i] = g
    BY <1>1
  <2>4. DOMAIN g = DOMAIN of /\ g = [n \in DOMAIN g |-> g[n]]
    OBVIOUS
  <2>5. DOMAIN of = 1 .. Len(of)
    BY <2>2, LenProperties
  <2>6. \A n \in 1 .. Len(of) : g[n] \in AtIds(s)
    <3>1. TAKE n \in 1 .. Len(of)
    <3>2. g[n] = <<i, of[n]>>
      BY <2>5
    <3>3. of[n] \in FieldIds(s.plates[i])
      BY <2>2, ElementOfSeq
    <3>4. of[n] \in Nat \X Nat
      BY <3>3 DEF FieldIds
    <3> HIDE DEF of
    <3> QED BY <3>2, <3>3, <3>4, <1>1 DEF AtIds
  <2> HIDE DEF f, g, of
  <2> QED BY <2>2, <2>3, <2>4, <2>6, Mapped
<1>3. DOMAIN f = DOMAIN s.plates /\ f = [i \in DOMAIN f |-> f[i]]
  OBVIOUS
<1>4. AllFields(s) = FlattenSeq(f)
  BY DEF AllFields
<1> HIDE DEF f
<1> QED BY <1>1, <1>2, <1>3, <1>4, EachSlot

\* The fields that commit_hcs_settings_ gets to are fields of the settings.
LEMMA FieldsTriedAre ==
  ASSUME settings \in StreamSettings, NEW unset
  PROVE  \A at \in Range(FieldsTried(unset).fields) : at \in AtIds(settings)
<1> DEFINE all == AllFields(settings)
           Throws(n) == ArrayThrows(FieldAt(settings.plates[all[n][1]], all[n][2]).array)
           Refused(n) == /\ n = Len(all) \/ all[n + 1][1] # all[n][1]
                         /\ LET p == settings.plates[all[n][1]]
                            IN  ~PlateAccepts(p, UsedBy(p, unset))
           stops == {n \in DOMAIN all : Throws(n) \/ Refused(n)}
<1>1. FieldsTried(unset).fields = IF stops = {} THEN all ELSE SubSeq(all, 1, Min(stops))
  BY DEF FieldsTried
<1>2. all \in Seq(AtIds(settings)) /\ DOMAIN all = 1 .. Len(all) /\ Len(all) \in Nat
  BY AllFieldsType, LenProperties
<1>3. stops \subseteq 1 .. Len(all)
  BY <1>2
<1> HIDE DEF all, stops
<1>4. stops # {} => Min(stops) \in stops
  <2>1. SUFFICES ASSUME stops # {} PROVE Min(stops) \in stops
    OBVIOUS
  <2>2. stops \subseteq Nat
    BY <1>3
  <2>3. \E x \in stops : \A y \in stops : x =< y
    BY <2>1, <2>2, LeastNatural
  <2> QED BY <2>3 DEF Min
<1>5. FieldsTried(unset).fields \in Seq(AtIds(settings))
  <2>1. stops # {} => SubSeq(all, 1, Min(stops)) \in Seq(AtIds(settings))
    <3>1. \A n \in 1 .. Len(all) : SubSeq(all, 1, n) \in Seq(AtIds(settings))
      <4>1. TAKE n \in 1 .. Len(all)
      <4> QED BY <1>2, SubSeqProperties
    <3> QED BY <1>3, <1>4, <3>1
  <2> QED BY <1>1, <1>2, <2>1
<1> DEFINE tried == FieldsTried(unset).fields
<1> HIDE DEF tried
<1>6. tried \in Seq(AtIds(settings))
  BY <1>5 DEF tried
<1>7. Range(tried) \subseteq AtIds(settings)
  BY <1>6, LenProperties DEF Range
<1> QED BY <1>7 DEF tried
-----------------------------------------------------------------------------
(* One owner *)

\* What the caller has is what he had in mind: settings and the settings file keep
\* their type and ask for the same.
Kept ==
    /\ config \in Configs /\ origin \in {"none", "built", "loaded"}
    /\ origin = "none" <=> settings = NoSettings
    /\ origin # "none" => settings \in StreamSettings /\ Alike(settings, config)
    /\ text = [of |-> text.of, format |-> text.format]
    /\ text.of \in StreamSettings /\ Alike(text.of, config)

\* What is behind the pointers, by where they come from.
MemNone == origin = "none" => mem = <<>>
\* Lists created are in reach of the destroy functions.
MemBuilt ==
    origin = "built" =>
        /\ DOMAIN mem \subseteq Nested
        /\ \A p \in DOMAIN mem : mem[p] \in {<<p, 0>>, <<p, 1>>}
\* Loaded settings have every block of the settings file, and a key of a field
\* points at the block of its path.
MemLoaded ==
    origin = "loaded" =>
        /\ \A p \in DOMAIN mem :
              /\ Last(p) \in Freed
              /\ mem[p] = <<p, 0>> \/ mem[p] \in keyed
              /\ Last(p) = "key" /\ p[1] = "plates" =>
                    \E q \in DOMAIN mem : Last(q) = "path" /\ mem[q] = mem[p]
        /\ \A at \in AtIds(config) : FieldSlot(at) \o <<"path">> \in DOMAIN mem
\* A stream is made of settings that the caller keeps until it is open.
Held == pc \in {"commit", "arrays", "plates"} => origin # "none"
\* The inductive invariant of what a caller has.
OwnerInv == Kept /\ MemNone /\ MemBuilt /\ MemLoaded /\ OneOwner

\* A step of the stream leaves it alone.
LEMMA CallerUnchanged ==
  ASSUME OwnerInv, UNCHANGED caller
  PROVE  OwnerInv'
<1>1. UNCHANGED <<config, settings, origin, mem, live, again, keyed, text>>
  BY DEF caller, blocks
<1>2. Kept'
  BY <1>1 DEF OwnerInv, Kept
<1>3. MemNone' /\ MemBuilt'
  BY <1>1 DEF OwnerInv, MemNone, MemBuilt
<1>4. MemLoaded'
  BY <1>1 DEF OwnerInv, MemLoaded
<1>5. OneOwner'
  BY <1>1 DEF OwnerInv, OneOwner
<1> QED BY <1>2, <1>3, <1>4, <1>5 DEF OwnerInv

\* It holds at first.
LEMMA OwnerInit == Init => OwnerInv
<1> SUFFICES ASSUME Init PROVE OwnerInv
  OBVIOUS
<1>1. config \in StreamSettings
  BY SettingsAssumption DEF Init
<1>2. Alike(config, config)
  BY <1>1, AlikeSelf
<1>3. Dumped(config) \in StreamSettings /\ Alike(Dumped(config), config)
  BY <1>1, <1>2, SettingsKept
<1>4. Kept
  BY <1>3 DEF Init, Kept
<1>5. OneOwner
  <2>1. mem = <<>> /\ live = {} /\ again = {} /\ DOMAIN mem = {}
    BY DEF Init
  <2> QED BY <2>1 DEF OneOwner, Range
<1> QED BY <1>4, <1>5 DEF OwnerInv, MemNone, MemBuilt, MemLoaded, Init

\* One lemma for each step that changes what a caller has.
LEMMA OwnerStartBuilding ==
  ASSUME OwnerInv, StartBuilding
  PROVE  OwnerInv'
<1>1. /\ UNCHANGED <<config, mem, live, again, keyed, text>>
      /\ settings' = config /\ origin = "none" /\ origin' = "built"
  BY DEF StartBuilding, blocks
<1>2. config \in StreamSettings /\ NoSettings \notin StreamSettings
  BY SettingsAssumption DEF OwnerInv, Kept
<1>3. Kept'
  BY <1>1, <1>2, AlikeSelf DEF OwnerInv, Kept
<1>4. mem = <<>>
  BY <1>1 DEF OwnerInv, MemNone
<1>5. MemNone' /\ MemBuilt' /\ MemLoaded'
  BY <1>1, <1>4 DEF MemNone, MemBuilt, MemLoaded
<1>6. OneOwner'
  BY <1>1 DEF OwnerInv, OneOwner
<1> QED BY <1>3, <1>5, <1>6 DEF OwnerInv

LEMMA OwnerCreateList ==
  ASSUME OwnerInv, NEW slot \in ToSet(BuildLists(config)), CreateList(slot)
  PROVE  OwnerInv'
<1>1. /\ UNCHANGED <<config, settings, origin, again, keyed, text>> /\ origin = "built"
  BY DEF CreateList
<1>2. slot \in Nested
  <2>1. config \in StreamSettings
    BY SettingsAssumption DEF OwnerInv, Kept
  <2> QED BY <2>1, BuildListsNested, ElementsIn
<1>3. DOMAIN mem \subseteq Nested /\ \A p \in DOMAIN mem : mem[p] \in {<<p, 0>>, <<p, 1>>}
  BY <1>1 DEF OwnerInv, MemBuilt
<1>4. live = Range(mem) /\ again \subseteq keyed
  BY DEF OwnerInv, OneOwner
<1>5. Kept'
  BY <1>1 DEF OwnerInv, Kept
<1>6. CASE slot \in DOMAIN mem
  <2> DEFINE new == <<slot, 1 - mem[slot][2]>>
             below == {p \in DOMAIN mem : IsPrefix(slot, p)}
  <2>1. live' = (live \ {mem[p] : p \in FreedWith(slot)}) \cup {new} /\ mem' = Put(Without(below), slot, new)
    BY <1>6 DEF CreateList
  <2>2. FreedWith(slot) = below
    BY <1>2, <1>3, FreedWithIs
  <2>3. new \in {<<slot, 0>>, <<slot, 1>>}
    BY <1>3, <1>6
  <2>4. DOMAIN mem' = {slot} \cup (DOMAIN mem \ below) /\ mem'[slot] = new
        /\ \A p \in DOMAIN mem \ below : p # slot => mem'[p] = mem[p]
    BY <2>1 DEF Without, Put, Override
  <2>5. slot \in below
    <3>1. Len(slot) \in Nat
      BY <1>2, LenProperties DEF Nested
    <3> QED BY <1>6, <3>1 DEF IsPrefix
  <2> HIDE DEF below, new
  <2>6. MemBuilt'
    BY <1>1, <1>2, <1>3, <2>3, <2>4 DEF MemBuilt
  <2>7. \A p, q \in DOMAIN mem : mem[p] = mem[q] => p = q
    BY <1>3
  <2>8. live' = Range(mem')
    <3>1. live = {mem[p] : p \in DOMAIN mem}
      BY <1>4 DEF Range
    <3>2. live \ {mem[p] : p \in below} = {mem[p] : p \in DOMAIN mem \ below}
      BY <3>1, <2>7 DEF below
    <3>3. Range(mem') = {mem'[p] : p \in DOMAIN mem'}
      BY DEF Range
    <3>4. {mem'[p] : p \in DOMAIN mem'} = {mem[p] : p \in DOMAIN mem \ below} \cup {new}
      BY <2>4, <2>5
    <3> QED BY <2>1, <2>2, <3>2, <3>3, <3>4
  <2> QED BY <1>1, <1>4, <1>5, <2>6, <2>8 DEF OwnerInv, OneOwner, MemNone, MemLoaded
<1>7. CASE slot \notin DOMAIN mem
  <2>1. live' = live \cup {<<slot, 0>>} /\ mem' = Put(mem, slot, <<slot, 0>>)
    BY <1>7 DEF CreateList
  <2>2. DOMAIN mem' = {slot} \cup DOMAIN mem /\ mem'[slot] = <<slot, 0>>
        /\ \A p \in DOMAIN mem : mem'[p] = mem[p]
    BY <1>7, <2>1 DEF Put, Override
  <2>3. MemBuilt'
    BY <1>1, <1>2, <1>3, <2>2 DEF MemBuilt
  <2>4. live' = Range(mem')
    BY <1>4, <2>1, <2>2 DEF Range
  <2> QED BY <1>1, <1>4, <1>5, <2>3, <2>4 DEF OwnerInv, OneOwner, MemNone, MemLoaded
<1> QED BY <1>6, <1>7

LEMMA OwnerGiveBackBuilt ==
  ASSUME OwnerInv, GiveBackBuilt
  PROVE  OwnerInv'
<1>1. /\ UNCHANGED <<config, keyed, text>> /\ origin = "built" /\ origin' = "none"
      /\ settings' = NoSettings /\ mem' = <<>>
      /\ FreePointers(FreedWith(<<"arrays">>) \cup FreedWith(<<"plates">>))
  BY DEF GiveBackBuilt
<1>2. DOMAIN mem \subseteq Nested /\ \A p \in DOMAIN mem : mem[p] \in {<<p, 0>>, <<p, 1>>}
  BY <1>1 DEF OwnerInv, MemBuilt
<1>3. FreePointers(DOMAIN mem)
  BY <1>1, <1>2, FreedWithIs
<1>4. again' = again
  BY <1>2, <1>3 DEF FreePointers
<1>5. live' = {}
  BY <1>3 DEF FreePointers, OwnerInv, OneOwner, Range
<1>6. OneOwner'
  <2>1. Range(mem') = {}
    BY <1>1 DEF Range
  <2> QED BY <1>1, <1>4, <1>5, <2>1 DEF OwnerInv, OneOwner
<1>7. Kept'
  BY <1>1 DEF OwnerInv, Kept
<1> QED BY <1>1, <1>6, <1>7 DEF OwnerInv, MemNone, MemBuilt, MemLoaded

\* Settings that are alike have the same fields.
LEMMA AlikeIds ==
  ASSUME NEW s, NEW c, Alike(s, c)
  PROVE  AtIds(s) = AtIds(c)
<1>1. \A i \in 1 .. Len(c.plates) :
         /\ Len(s.plates[i].wells) = Len(c.plates[i].wells)
         /\ \A j \in 1 .. Len(c.plates[i].wells) :
               Len(s.plates[i].wells[j].images) = Len(c.plates[i].wells[j].images)
  BY DEF Alike, AlikePlate, AlikeWell
<1>2. Len(s.plates) = Len(c.plates)
  BY DEF Alike
<1>3. \A i \in 1 .. Len(c.plates) : FieldIds(s.plates[i]) = FieldIds(c.plates[i])
  BY <1>1 DEF FieldIds
<1> QED BY <1>2, <1>3 DEF AtIds

LEMMA OwnerLoad ==
  ASSUME OwnerInv, Load
  PROVE  OwnerInv'
<1>1. /\ UNCHANGED <<config, again, keyed, text>> /\ origin = "none" /\ origin' = "loaded"
      /\ settings' = Loaded(text)
      /\ mem' = [p \in ToSet(LoadSlots(settings')) |-> <<p, 0>>]
      /\ live' = live \cup Range(mem')
  BY DEF Load
<1>2. settings' \in StreamSettings /\ Alike(settings', config)
  <2>1. text = [of |-> text.of, format |-> text.format]
        /\ text.of \in StreamSettings /\ Alike(text.of, config)
    BY DEF OwnerInv, Kept
  <2>2. Loaded([of |-> text.of, format |-> text.format]) \in StreamSettings
        /\ Alike(Loaded([of |-> text.of, format |-> text.format]), config)
    BY <2>1, SettingsKept
  <2> QED BY <1>1, <2>1, <2>2
<1>3. Kept'
  BY <1>1, <1>2, SettingsAssumption DEF OwnerInv, Kept
<1>4. /\ ToSet(LoadSlots(settings')) \subseteq GoodSlots
      /\ \A i \in 1 .. Len(settings'.plates) : \A j \in 1 .. Len(settings'.plates[i].wells) :
            \A k \in 1 .. Len(settings'.plates[i].wells[j].images) :
               FieldSlot(<<i, <<j, k>>>>) \o <<"path">> \in ToSet(LoadSlots(settings'))
  BY <1>2, LoadSlotsGood, ElementsIn
<1>5. DOMAIN mem' = ToSet(LoadSlots(settings')) /\ \A p \in DOMAIN mem' : mem'[p] = <<p, 0>>
  BY <1>1
<1>6. ASSUME NEW at \in AtIds(config) PROVE FieldSlot(at) \o <<"path">> \in DOMAIN mem'
  <2>1. at \in AtIds(settings')
    BY <1>2, AlikeIds
  <2>2. at = <<at[1], <<at[2][1], at[2][2]>>>>
        /\ at[1] \in 1 .. Len(settings'.plates)
        /\ at[2][1] \in 1 .. Len(settings'.plates[at[1]].wells)
        /\ at[2][2] \in 1 .. Len(settings'.plates[at[1]].wells[at[2][1]].images)
    BY <2>1 DEF AtIds, FieldIds
  <2>3. FieldSlot(<<at[1], <<at[2][1], at[2][2]>>>>) \o <<"path">> \in ToSet(LoadSlots(settings'))
    BY <1>4, <2>2
  <2> QED BY <1>5, <2>2, <2>3, Zenon
<1>7. MemLoaded'
  <2>1. \A p \in DOMAIN mem' : Last(p) \in Freed /\ ~ (Last(p) = "key" /\ p[1] = "plates")
    BY <1>4, <1>5, GoodSlotIs
  <2> QED BY <1>1, <1>5, <1>6, <2>1 DEF MemLoaded
<1>8. OneOwner'
  <2>1. live = {}
    <3>1. mem = <<>> /\ DOMAIN mem = {}
      BY <1>1 DEF OwnerInv, MemNone
    <3> QED BY <3>1 DEF OwnerInv, OneOwner, Range
  <2> QED BY <1>1, <2>1 DEF OwnerInv, OneOwner
<1> QED BY <1>1, <1>3, <1>7, <1>8 DEF OwnerInv, MemNone, MemBuilt

LEMMA OwnerLoadFails ==
  ASSUME OwnerInv, LoadFails
  PROVE  OwnerInv'
<1> DEFINE slots == LoadSlots(Loaded(text))
<1>1. /\ UNCHANGED <<config, settings, origin, mem, again, keyed, text>>
      /\ \E n \in DOMAIN slots :
            live' = live \cup {<<slots[i], 0>> : i \in {i \in 1 .. n : Last(slots[i]) \notin Freed}}
  BY DEF LoadFails
<1>2. slots \in Seq(GoodSlots)
  <2>1. text = [of |-> text.of, format |-> text.format]
        /\ text.of \in StreamSettings /\ Alike(text.of, config)
    BY DEF OwnerInv, Kept
  <2>2. Loaded([of |-> text.of, format |-> text.format]) \in StreamSettings
    BY <2>1, SettingsKept
  <2>3. Loaded(text) \in StreamSettings
    BY <2>1, <2>2
  <2> QED BY <2>3, LoadSlotsGood
<1> HIDE DEF slots
<1>3. DOMAIN slots = 1 .. Len(slots) /\ Len(slots) \in Nat
      /\ \A i \in 1 .. Len(slots) : Last(slots[i]) \in Freed
  BY <1>2, LenProperties, ElementOfSeq, GoodSlotIs
<1>4. live' = live
  BY <1>1, <1>3
<1>5. OneOwner'
  BY <1>1, <1>4 DEF OwnerInv, OneOwner
<1> QED BY <1>1, <1>5 DEF OwnerInv, Kept, MemNone, MemBuilt, MemLoaded

LEMMA OwnerGiveBackLoaded ==
  ASSUME OwnerInv, GiveBackLoaded
  PROVE  OwnerInv'
<1>1. /\ UNCHANGED <<config, keyed, text>> /\ origin = "loaded" /\ origin' = "none"
      /\ settings' = NoSettings /\ mem' = <<>>
      /\ FreePointers({p \in DOMAIN mem : Last(p) \in Freed})
  BY DEF GiveBackLoaded
<1>2. \A p \in DOMAIN mem : Last(p) \in Freed /\ (mem[p] = <<p, 0>> \/ mem[p] \in keyed)
  BY <1>1 DEF OwnerInv, MemLoaded
<1>3. FreePointers(DOMAIN mem)
  <2>1. {p \in DOMAIN mem : Last(p) \in Freed} = DOMAIN mem
    BY <1>2
  <2> QED BY <1>1, <2>1
<1>4. again' \subseteq keyed
  <2>1. again' = again \cup {mem[p] : p \in {p \in DOMAIN mem :
                                 \E q \in DOMAIN mem \ {p} : mem[q] = mem[p]}}
    BY <1>3 DEF FreePointers
  <2>2. ASSUME NEW p \in DOMAIN mem, NEW q \in DOMAIN mem \ {p}, mem[q] = mem[p]
        PROVE  mem[p] \in keyed
    BY <1>2, <2>2
  <2>3. again \subseteq keyed
    BY DEF OwnerInv, OneOwner
  <2> QED BY <2>1, <2>2, <2>3
<1>5. live' = {}
  BY <1>3 DEF FreePointers, OwnerInv, OneOwner, Range
<1>6. OneOwner'
  <2>1. Range(mem') = {}
    BY <1>1 DEF Range
  <2> QED BY <1>1, <1>4, <1>5, <2>1 DEF OneOwner
<1>7. Kept'
  BY <1>1 DEF OwnerInv, Kept
<1> QED BY <1>1, <1>6, <1>7 DEF OwnerInv, MemNone, MemBuilt, MemLoaded

LEMMA OwnerDump ==
  ASSUME OwnerInv, NEW format, Dump(format)
  PROVE  OwnerInv'
<1>1. /\ UNCHANGED <<config, settings, origin, mem, live, again, keyed>> /\ origin # "none"
      /\ text' = [of |-> Dumped(settings), format |-> format]
  BY DEF Dump, blocks
<1>2. settings \in StreamSettings /\ Alike(settings, config)
  BY <1>1 DEF OwnerInv, Kept
<1>3. Dumped(settings) \in StreamSettings /\ Alike(Dumped(settings), config)
  BY <1>2, SettingsKept
<1>4. text'.of = Dumped(settings) /\ text' = [of |-> text'.of, format |-> text'.format]
  BY <1>1
<1>5. Kept'
  BY <1>1, <1>3, <1>4 DEF OwnerInv, Kept
<1>6. OneOwner' /\ MemNone' /\ MemBuilt' /\ MemLoaded'
  BY <1>1 DEF OwnerInv, OneOwner, MemNone, MemBuilt, MemLoaded
<1> QED BY <1>5, <1>6 DEF OwnerInv

\* The slot of the key of a field, and the slot of its path.
LEMMA KeySlotIs ==
  ASSUME NEW at \in Nat \X (Nat \X Nat)
  PROVE  LET p == FieldSlot(at) \o <<"array", "key">>
         IN  /\ Last(p) = "key" /\ p[1] = "plates"
             /\ SubSeq(p, 1, 6) = FieldSlot(at)
             /\ Last(FieldSlot(at) \o <<"path">>) = "path"
<1> DEFINE f == FieldSlot(at)  t == <<"array", "key">>  p == f \o t
           u == <<"path">>  q == f \o u
<1>1. /\ f \in Seq(SlotParts) /\ Len(f) = 6 /\ f[1] = "plates"
      /\ t \in Seq(SlotParts) /\ Len(t) = 2 /\ t[2] = "key"
      /\ u \in Seq(SlotParts) /\ Len(u) = 1 /\ u[1] = "path"
  BY DEF FieldSlot, SlotParts, Freed
<1> HIDE DEF f, t, u
<1>2. /\ p \in Seq(SlotParts) /\ Len(p) = 8
      /\ \A i \in 1 .. 8 : p[i] = IF i <= 6 THEN f[i] ELSE t[i - 6]
  <2>1. /\ p \in Seq(SlotParts) /\ Len(p) = Len(f) + Len(t)
        /\ \A i \in 1 .. Len(f) + Len(t) : p[i] = IF i <= Len(f) THEN f[i] ELSE t[i - Len(f)]
    BY <1>1, ConcatProperties
  <2> HIDE DEF p
  <2> QED BY <1>1, <2>1
<1>3. /\ q \in Seq(SlotParts) /\ Len(q) = 7
      /\ \A i \in 1 .. 7 : q[i] = IF i <= 6 THEN f[i] ELSE u[i - 6]
  <2>1. /\ q \in Seq(SlotParts) /\ Len(q) = Len(f) + Len(u)
        /\ \A i \in 1 .. Len(f) + Len(u) : q[i] = IF i <= Len(f) THEN f[i] ELSE u[i - Len(f)]
    BY <1>1, ConcatProperties
  <2> HIDE DEF q
  <2> QED BY <1>1, <2>1
<1> HIDE DEF p, q
<1>4. Last(p) = "key" /\ p[1] = "plates" /\ Last(q) = "path"
  BY <1>1, <1>2, <1>3 DEF Last
<1>5. SubSeq(p, 1, 6) = f
  <2>1. SubSeq(p, 1, 6) \in Seq(SlotParts) /\ Len(SubSeq(p, 1, 6)) = 6
        /\ \A i \in 1 .. 6 : SubSeq(p, 1, 6)[i] = p[i]
    <3>1. \A i \in 1 .. 6 : p[i] \in SlotParts
      <4>1. p \in [1 .. Len(p) -> SlotParts] /\ Len(p) = 8
        BY <1>2, LenProperties
      <4>2. \A i \in 1 .. 6 : i \in 1 .. 8
        OBVIOUS
      <4> QED BY <4>1, <4>2
    <3>2. SubSeq(p, 1, 6) \in Seq(SlotParts)
      BY <3>1, SubSeqProperties
    <3>3. Len(SubSeq(p, 1, 6)) = 6 /\ \A i \in 1 .. 6 : SubSeq(p, 1, 6)[i] = p[i]
      BY <3>1, SubSeqProperties
    <3> QED BY <3>2, <3>3
  <2> DEFINE v == SubSeq(p, 1, 6)
  <2> HIDE DEF v
  <2>2. v \in Seq(SlotParts) /\ Len(v) = Len(f) /\ \A i \in 1 .. Len(v) : v[i] = f[i]
    BY <1>1, <1>2, <2>1 DEF v
  <2>3. v = f
    BY <1>1, <2>2, SeqEqual
  <2> QED BY <2>3 DEF v
<1> QED BY <1>4, <1>5 DEF p, q, f, t, u

LEMMA OwnerCommitPlates ==
  ASSUME OwnerInv, Held, NEW unset, CommitPlates(unset)
  PROVE  OwnerInv'
<1> DEFINE tried == FieldsTried(unset)
           path(at) == mem[FieldSlot(at) \o <<"path">>]
           new == {FieldSlot(at) \o <<"array", "key">> : at \in Range(tried.fields)}
<1>1. /\ UNCHANGED <<config, origin, live, again, text>>
      /\ settings' = KeyFields(settings, Range(tried.fields))
  BY DEF CommitPlates
<1>2. /\ origin # "loaded" => UNCHANGED <<mem, keyed>>
      /\ origin = "loaded" =>
            /\ mem' = Override([p \in new |-> mem[SubSeq(p, 1, 6) \o <<"path">>]], mem)
            /\ keyed' = keyed \cup {path(at) : at \in Range(tried.fields)}
  BY DEF CommitPlates
<1>3. origin # "none" /\ settings \in StreamSettings /\ Alike(settings, config)
  BY DEF OwnerInv, Kept, Held, CommitPlates
<1>4. Kept'
  BY <1>1, <1>3, KeyFieldsKept, SettingsAssumption DEF OwnerInv, Kept
<1>5. \A at \in Range(tried.fields) : at \in AtIds(config)
  BY <1>3, FieldsTriedAre, AlikeIds
<1> HIDE DEF tried
<1>6. CASE origin # "loaded"
  BY <1>1, <1>2, <1>4, <1>6 DEF OwnerInv, MemNone, MemBuilt, MemLoaded, OneOwner
<1>7. CASE origin = "loaded"
  <2>1. /\ \A p \in DOMAIN mem :
              /\ Last(p) \in Freed
              /\ mem[p] = <<p, 0>> \/ mem[p] \in keyed
              /\ Last(p) = "key" /\ p[1] = "plates" =>
                    \E q \in DOMAIN mem : Last(q) = "path" /\ mem[q] = mem[p]
        /\ \A at \in AtIds(config) : FieldSlot(at) \o <<"path">> \in DOMAIN mem
    BY <1>7 DEF OwnerInv, MemLoaded
  <2>2. ASSUME NEW p \in new
        PROVE  /\ Last(p) = "key" /\ p[1] = "plates"
               /\ \E at \in Range(tried.fields) :
                     /\ SubSeq(p, 1, 6) \o <<"path">> = FieldSlot(at) \o <<"path">>
                     /\ FieldSlot(at) \o <<"path">> \in DOMAIN mem
                     /\ Last(FieldSlot(at) \o <<"path">>) = "path"
    <3>1. PICK at \in Range(tried.fields) : p = FieldSlot(at) \o <<"array", "key">>
      OBVIOUS
    <3>2. at \in AtIds(config) /\ at \in Nat \X (Nat \X Nat)
      BY <1>5 DEF AtIds
    <3>3. FieldSlot(at) \o <<"path">> \in DOMAIN mem
      BY <2>1, <3>2
    <3>4. /\ Last(p) = "key" /\ p[1] = "plates" /\ SubSeq(p, 1, 6) = FieldSlot(at)
          /\ Last(FieldSlot(at) \o <<"path">>) = "path"
      BY <3>1, <3>2, KeySlotIs
    <3> QED BY <3>3, <3>4
  <2> DEFINE from(p) == SubSeq(p, 1, 6) \o <<"path">>
  <2>3. /\ DOMAIN mem' = new \cup DOMAIN mem
        /\ \A p \in new : mem'[p] = mem[from(p)]
        /\ \A p \in DOMAIN mem : p \notin new => mem'[p] = mem[p]
    BY <1>2, <1>7 DEF Override
  <2>4. \A p \in new : /\ Last(p) = "key" /\ p[1] = "plates"
                       /\ from(p) \in DOMAIN mem /\ Last(from(p)) = "path"
                       /\ mem[from(p)] \in keyed'
    <3>1. TAKE p \in new
    <3>2. PICK at \in Range(tried.fields) :
                     /\ SubSeq(p, 1, 6) \o <<"path">> = FieldSlot(at) \o <<"path">>
                     /\ FieldSlot(at) \o <<"path">> \in DOMAIN mem
                     /\ Last(FieldSlot(at) \o <<"path">>) = "path"
      BY <2>2
    <3>3. mem[from(p)] = path(at)
      BY <3>2
    <3>4. path(at) \in keyed'
      BY <1>2, <1>7
    <3> QED BY <2>2, <3>2, <3>3, <3>4
  <2>5. keyed \subseteq keyed' /\ "key" \in Freed
    BY <1>2, <1>7 DEF Freed
  <2> HIDE DEF new, from, path
  <2>6. \A q \in DOMAIN mem : Last(q) = "path" => q \in DOMAIN mem' /\ mem'[q] = mem[q]
    BY <2>3, <2>4
  <2>7. ASSUME NEW p \in DOMAIN mem'
        PROVE  /\ Last(p) \in Freed
               /\ mem'[p] = <<p, 0>> \/ mem'[p] \in keyed'
               /\ Last(p) = "key" /\ p[1] = "plates" =>
                    \E q \in DOMAIN mem' : Last(q) = "path" /\ mem'[q] = mem'[p]
    <3>1. CASE p \in new
      BY <2>3, <2>4, <2>5, <2>6, <3>1
    <3>2. CASE p \notin new
      <4>1. p \in DOMAIN mem /\ mem'[p] = mem[p]
        BY <2>3, <3>2
      <4>2. Last(p) = "key" /\ p[1] = "plates" =>
                    \E q \in DOMAIN mem : Last(q) = "path" /\ mem[q] = mem[p]
        BY <2>1, <4>1
      <4> QED BY <2>1, <2>5, <2>6, <4>1, <4>2
    <3> QED BY <3>1, <3>2
  <2>8. MemLoaded'
    <3>1. \A at \in AtIds(config) : FieldSlot(at) \o <<"path">> \in DOMAIN mem'
      BY <2>1, <2>3
    <3> QED BY <1>1, <2>7, <3>1 DEF MemLoaded
  <2>9. Range(mem') = Range(mem)
    <3>1. ASSUME NEW p \in DOMAIN mem' PROVE \E q \in DOMAIN mem : mem'[p] = mem[q]
      BY <2>3, <2>4
    <3>2. ASSUME NEW p \in DOMAIN mem PROVE \E q \in DOMAIN mem' : mem[p] = mem'[q]
      <4>1. CASE p \notin new
        BY <2>3, <4>1
      <4>2. CASE p \in new
        <5>1. PICK q \in DOMAIN mem : Last(q) = "path" /\ mem[q] = mem[p]
          BY <2>1, <2>4, <4>2
        <5> QED BY <2>6, <5>1
      <4> QED BY <4>1, <4>2
    <3> QED BY <3>1, <3>2 DEF Range
  <2>10. OneOwner'
    BY <1>1, <2>5, <2>9 DEF OwnerInv, OneOwner
  <2> QED BY <1>1, <1>4, <1>7, <2>8, <2>10 DEF OwnerInv, MemNone, MemBuilt
<1> QED BY <1>6, <1>7

\* Every step keeps it, and a stream is made while its settings are held.
LEMMA OwnerNext == OwnerInv /\ Held /\ [Next]_vars => OwnerInv' /\ Held'
<1> SUFFICES ASSUME OwnerInv, Held, [Next]_vars PROVE OwnerInv' /\ Held'
  OBVIOUS
<1> USE DEF Held
<1>0. CASE UNCHANGED vars
  BY <1>0, CallerUnchanged DEF vars, stream, made, caller
<1>1. CASE StartBuilding
  BY <1>1, OwnerStartBuilding DEF StartBuilding, NoStream, stream
<1>2. CASE GiveBackBuilt
  BY <1>2, OwnerGiveBackBuilt DEF GiveBackBuilt, Idle, stream
<1>3. ASSUME NEW slot \in ToSet(BuildLists(config)), CreateList(slot)
      PROVE  OwnerInv' /\ Held'
  BY <1>3, OwnerCreateList DEF CreateList, stream
<1>4. CASE Load
  BY <1>4, OwnerLoad DEF Load, stream
<1>5. CASE LoadFails
  BY <1>5, OwnerLoadFails DEF LoadFails, stream
<1>6. CASE GiveBackLoaded
  BY <1>6, OwnerGiveBackLoaded DEF GiveBackLoaded, Idle, stream
<1>7. ASSUME NEW format \in {"yaml", "json"}, Dump(format)
      PROVE  OwnerInv' /\ Held'
  BY <1>7, OwnerDump DEF Dump, stream
<1>8. CASE CreateStream
  BY <1>8, CallerUnchanged DEF CreateStream, Complete, Refuse, caller
<1>9. CASE CommitStore
  <2>1. UNCHANGED caller /\ pc = "commit"
    BY <1>9 DEF CommitStore
  <2> QED BY <2>1, CallerUnchanged DEF caller
<1>10. CASE ConfigureArrays
  <2>1. UNCHANGED caller /\ pc = "arrays"
    BY <1>10 DEF ConfigureArrays
  <2> QED BY <2>1, CallerUnchanged DEF caller
<1>11. ASSUME NEW unset \in UnsetIds, CommitPlates(unset)
       PROVE  OwnerInv' /\ Held'
  <2>1. UNCHANGED origin /\ pc = "plates"
    BY <1>11 DEF CommitPlates
  <2> QED BY <1>11, <2>1, OwnerCommitPlates
<1>12. ASSUME NEW o \in outputs, TakeFrames(o) \/ WriteCustomMetadata(o) \/ FinalizeArray(o)
       PROVE  OwnerInv' /\ Held'
  <2>1. UNCHANGED caller /\ pc \in {"open", "finalize"} /\ pc' \in {"open", "finalize", "closed"}
    BY <1>12 DEF TakeFrames, WriteCustomMetadata, FinalizeArray, Fail
  <2> QED BY <2>1, CallerUnchanged
<1>13. CASE Close
  <2>1. UNCHANGED caller /\ pc' \in {"finalize", "closed"}
    BY <1>13 DEF Close
  <2> QED BY <2>1, CallerUnchanged
<1>14. ASSUME NEW p \in groups, WriteGroup(p) PROVE OwnerInv' /\ Held'
  <2>1. UNCHANGED caller /\ pc' \in {"groups", "closed"}
    BY <1>14 DEF WriteGroup, Fail
  <2> QED BY <2>1, CallerUnchanged
<1>15. CASE WrittenAll
  <2>1. UNCHANGED caller /\ pc' \in {"groups", "closed"}
    BY <1>15 DEF WrittenAll
  <2> QED BY <2>1, CallerUnchanged
<1>16. CASE Gone
  <2>1. UNCHANGED caller /\ pc' = "none"
    BY <1>16 DEF Gone
  <2> QED BY <2>1, CallerUnchanged
<1> QED BY <1>0, <1>1, <1>2, <1>3, <1>4, <1>5, <1>6, <1>7, <1>8, <1>9, <1>10, <1>11, <1>12,
           <1>13, <1>14, <1>15, <1>16 DEF Next

\* However settings are built or loaded, used, dumped and given back, in any
\* order: what is allocated is what their pointers lead to, and nothing is freed
\* twice but the paths that commit_hcs_settings_ has pointed an output_key at
\* (acquire.zarr.cpp, settings.io.cpp).
THEOREM MemoryOneOwner == Spec => []OneOwner
<1>1. Init => Held
  BY DEF Init, Held
<1>2. OwnerInv => OneOwner
  BY DEF OwnerInv
<1> QED BY <1>1, <1>2, OwnerInit, OwnerNext, PTL DEF Spec
-----------------------------------------------------------------------------
(* Keys *)

\* Names that may be segments of a key.
NoGaps == Names \ {""}

\* regularize_key leaves out the empty segments and nothing else.
LEMMA RegularizeIs ==
  ASSUME NEW key \in Keys
  PROVE  /\ Regularize(key) \in Seq(NoGaps)
         /\ key \in Seq(Names) => ToSet(Regularize(key)) = ToSet(key) \ {""}
<1>1. CASE key = NoKey
  BY <1>1, EmptySeq, SettingsAssumption DEF Regularize
<1>2. CASE key # NoKey
  <2> DEFINE f == [i \in DOMAIN key |-> IF key[i] = "" THEN <<>> ELSE <<key[i]>>]
  <2>1. key \in Seq(Names) /\ DOMAIN key = 1 .. Len(key) /\ Len(key) \in Nat
        /\ \A i \in 1 .. Len(key) : key[i] \in Names
    BY <1>2, LenProperties, ElementOfSeq DEF Keys
  <2>2. Regularize(key) = FlattenSeq(f)
    BY <1>2 DEF Regularize
  <2>3. DOMAIN f = DOMAIN key /\ f = [i \in DOMAIN f |-> f[i]]
    OBVIOUS
  <2>4. \A i \in 1 .. Len(key) : f[i] = IF key[i] = "" THEN <<>> ELSE <<key[i]>>
    BY <2>1
  <2> HIDE DEF f
  <2>5. \A i \in 1 .. Len(key) : f[i] \in Seq(NoGaps)
    <3>1. TAKE i \in 1 .. Len(key)
    <3>2. CASE key[i] = ""
      BY <2>4, <3>2, EmptySeq
    <3>3. CASE key[i] # ""
      <4>1. key[i] \in NoGaps
        BY <2>1, <3>3 DEF NoGaps
      <4>2. f[i] = <<key[i]>>
        BY <2>4, <3>3
      <4> QED BY <4>1, <4>2
    <3> QED BY <3>2, <3>3
  <2>6. f \in Seq(Seq(NoGaps)) /\ Len(f) = Len(key)
    BY <2>1, <2>3, <2>5, Mapped
  <2>7. FlattenSeq(f) \in Seq(NoGaps) /\ SameFlat(f, f)
    BY <2>6, FlattenType, FlattenTogether DEF SameShape
  <2> DEFINE flat == FlattenSeq(f)
  <2>8. /\ \A n \in 1 .. Len(flat) : \E i \in 1 .. Len(f) : \E k \in 1 .. Len(f[i]) :
              flat[n] = f[i][k]
        /\ \A i \in 1 .. Len(f) : \A k \in 1 .. Len(f[i]) : \E n \in 1 .. Len(flat) :
              flat[n] = f[i][k]
        /\ DOMAIN flat = 1 .. Len(flat)
    BY <2>7, LenProperties DEF SameFlat
  <2> HIDE DEF flat
  <2>9. ASSUME NEW n \in 1 .. Len(flat) PROVE flat[n] \in ToSet(key) \ {""}
    <3>1. PICK i \in 1 .. Len(f) : \E k \in 1 .. Len(f[i]) : flat[n] = f[i][k]
      BY <2>8
    <3>2. PICK k \in 1 .. Len(f[i]) : flat[n] = f[i][k]
      BY <3>1
    <3>0. i \in 1 .. Len(key) /\ i \in DOMAIN key
      BY <2>1, <2>6
    <3>3. CASE key[i] = ""
      <4>1. f[i] = <<>>
        BY <2>4, <3>0, <3>3
      <4>2. Len(f[i]) = 0
        BY <4>1
      <4>3. k \in Int /\ 1 <= k /\ k <= Len(f[i])
        BY <2>1, <2>5, <3>0, LenProperties
      <4>4. FALSE
        BY <4>2, <4>3
      <4> QED BY <4>4
    <3>4. CASE key[i] # ""
      <4>1. f[i] = <<key[i]>>
        BY <2>4, <3>0, <3>4
      <4>2. k = 1 /\ flat[n] = key[i]
        BY <3>2, <4>1
      <4> QED BY <3>0, <3>4, <4>2 DEF ToSet
    <3> QED BY <3>3, <3>4
  <2>10. ASSUME NEW i \in 1 .. Len(key), key[i] # "" PROVE key[i] \in ToSet(flat)
    <3>1. f[i] = <<key[i]>> /\ i \in 1 .. Len(f)
      <4>1. f[i] = IF key[i] = "" THEN <<>> ELSE <<key[i]>>
        BY <2>4
      <4> QED BY <4>1, <2>6, <2>10
    <3>2. 1 \in 1 .. Len(f[i]) /\ f[i][1] = key[i]
      BY <3>1
    <3>3. PICK n \in 1 .. Len(flat) : flat[n] = f[i][1]
      BY <2>8, <3>1, <3>2
    <3>4. n \in DOMAIN flat /\ flat[n] = key[i]
      BY <2>8, <3>2, <3>3
    <3> QED BY <3>4 DEF ToSet
  <2>11. ToSet(flat) = ToSet(key) \ {""}
    <3>1. ASSUME NEW x \in ToSet(flat) PROVE x \in ToSet(key) \ {""}
      <4>1. PICK n \in 1 .. Len(flat) : x = flat[n]
        BY <2>8 DEF ToSet
      <4> QED BY <2>9, <4>1
    <3>2. ASSUME NEW x \in ToSet(key) \ {""} PROVE x \in ToSet(flat)
      <4>1. PICK i \in 1 .. Len(key) : x = key[i]
        BY <2>1 DEF ToSet
      <4> QED BY <2>10, <4>1
    <3> QED BY <3>1, <3>2
  <2> QED BY <2>2, <2>7, <2>11 DEF flat
<1> QED BY <1>1, <1>2

\* Regularized, a key is valid unless a segment of it is not.
LEMMA MayBeKeyIs ==
  ASSUME NEW key \in Seq(NoGaps)
  PROVE  MayBeKey(key) <=> ToSet(key) \cap InvalidNames = {}
<1>1. DOMAIN key = 1 .. Len(key) /\ Len(key) \in Nat /\ \A i \in 1 .. Len(key) : key[i] # ""
  <2>1. DOMAIN key = 1 .. Len(key) /\ Len(key) \in Nat
    BY LenProperties
  <2>2. \A i \in 1 .. Len(key) : key[i] \in NoGaps
    BY ElementOfSeq
  <2> QED BY <2>1, <2>2 DEF NoGaps
<1>2. CASE key = <<>>
  <2>1. ToSet(key) = {}
    BY <1>2 DEF ToSet
  <2> QED BY <1>2, <2>1 DEF MayBeKey
<1>3. CASE key # <<>>
  <2>1. Len(key) \in 1 .. Len(key)
    <3>1. Len(key) \in Nat \ {0}
      BY <1>3, EmptySeq
    <3> QED BY <3>1
  <2>2. Last(key) # ""
    BY <1>1, <2>1 DEF Last
  <2> QED BY <1>1, <1>3, <2>2 DEF MayBeKey, IsValidKey, ToSet
<1> QED BY <1>2, <1>3

LEMMA GapsWiden ==
  ASSUME NEW key \in Seq(NoGaps)
  PROVE  key \in Seq(Names) /\ key \in Keys
BY SeqMonotonic DEF NoGaps, Keys

\* Keys and paths below others have no empty segments either.
LEMMA KeyBelowIs ==
  ASSUME NEW parent \in Seq(NoGaps), NEW key \in Keys
  PROVE  /\ KeyBelow(parent, key) \in Seq(NoGaps)
         /\ ToSet(parent) \subseteq ToSet(KeyBelow(parent, key))
         /\ ToSet(KeyBelow(parent, key)) = ToSet(parent) \cup ToSet(Regularize(key))
<1> DEFINE k == Regularize(key)  both == parent \o k
<1>1. k \in Seq(NoGaps)
  BY RegularizeIs
<1> HIDE DEF k
<1>2. both \in Seq(NoGaps) /\ ToSet(both) = ToSet(parent) \cup ToSet(k)
  BY <1>1, ConcatSet
<1>3. ToSet(both) \subseteq NoGaps
  BY <1>2, ElementsIn
<1>4. KeyBelow(parent, key) = Regularize(both)
  BY DEF KeyBelow, k
<1> HIDE DEF both
<1>5. both \in Keys /\ both \in Seq(Names)
  BY <1>2, GapsWiden
<1>6. Regularize(both) \in Seq(NoGaps) /\ ToSet(Regularize(both)) = ToSet(both) \ {""}
  BY <1>5, RegularizeIs
<1> QED BY <1>2, <1>3, <1>4, <1>6 DEF k, NoGaps

LEMMA WellPathIs ==
  ASSUME NEW p \in PlateSettings, NEW w \in WellSettings
  PROVE  WellPath(p, w) \in Seq(NoGaps)
<1>1. p.path \in Keys /\ w.row \in Names /\ w.col \in Names
  BY DEF PlateSettings, WellSettings
<1>2. Regularize(p.path) \in Seq(NoGaps)
  BY <1>1, RegularizeIs
<1>3. Regularize(p.path) \in Seq(Names) /\ <<w.row, w.col>> \in Seq(Names)
  BY <1>1, <1>2, GapsWiden
<1>4. Regularize(p.path) \o <<w.row, w.col>> \in Keys
  BY <1>3, ConcatProperties DEF Keys
<1> QED BY <1>4, RegularizeIs DEF WellPath
-----------------------------------------------------------------------------
(* The arrays of settings *)

\* Fields of view are where they are, whatever the settings of their arrays.
LEMMA FieldsAlike ==
  ASSUME NEW p \in PlateSettings, NEW q \in PlateSettings, AlikePlate(p, q)
  PROVE  FieldsOf(p) = FieldsOf(q)
<1> DEFINE f(r) == [j \in DOMAIN r.wells |-> [k \in DOMAIN r.wells[j].images |-> <<j, k>>]]
<1>1. DOMAIN p.wells = DOMAIN q.wells
  BY LenProperties DEF PlateSettings, AlikePlate
<1>2. ASSUME NEW j \in DOMAIN q.wells PROVE DOMAIN p.wells[j].images = DOMAIN q.wells[j].images
  <2>1. j \in 1 .. Len(p.wells) /\ j \in 1 .. Len(q.wells)
        /\ p.wells \in Seq(WellSettings) /\ q.wells \in Seq(WellSettings)
    BY <1>1, LenProperties DEF PlateSettings
  <2>2. p.wells[j] \in WellSettings /\ q.wells[j] \in WellSettings
    BY <2>1, ElementOfSeq
  <2>3. Len(p.wells[j].images) = Len(q.wells[j].images)
    BY <2>1 DEF AlikePlate, AlikeWell
  <2>4. p.wells[j].images \in Seq(ImageSettings) /\ q.wells[j].images \in Seq(ImageSettings)
    BY <2>2 DEF WellSettings
  <2> QED BY <2>3, <2>4, LenProperties
<1>3. f(p) = f(q)
  BY <1>1, <1>2
<1>4. FieldsOf(p) = FlattenSeq(f(p)) /\ FieldsOf(q) = FlattenSeq(f(q))
  BY DEF FieldsOf
<1> HIDE DEF f
<1> QED BY <1>3, <1>4

\* A field of view of plates that are alike.
LEMMA FieldAlike ==
  ASSUME NEW p \in PlateSettings, NEW q \in PlateSettings, AlikePlate(p, q),
         NEW f \in FieldIds(q)
  PROVE  /\ FieldAt(p, f) \in ImageSettings /\ FieldAt(q, f) \in ImageSettings
         /\ AlikeImage(FieldAt(p, f), FieldAt(q, f))
         /\ p.wells[f[1]] \in WellSettings /\ q.wells[f[1]] \in WellSettings
         /\ AlikeWell(p.wells[f[1]], q.wells[f[1]])
         /\ WellPath(p, p.wells[f[1]]) = WellPath(q, q.wells[f[1]])
         /\ FieldKey(p, f) = FieldKey(q, f)
<1>1. /\ f[1] \in 1 .. Len(q.wells) /\ f[2] \in 1 .. Len(q.wells[f[1]].images)
      /\ Len(p.wells) = Len(q.wells)
      /\ AlikeWell(p.wells[f[1]], q.wells[f[1]])
  BY DEF FieldIds, AlikePlate
<1>2. p.wells[f[1]] \in WellSettings /\ q.wells[f[1]] \in WellSettings
  BY <1>1, ElementOfSeq DEF PlateSettings
<1>3. /\ Len(p.wells[f[1]].images) = Len(q.wells[f[1]].images)
      /\ AlikeImage(FieldAt(p, f), FieldAt(q, f))
      /\ p.wells[f[1]].row = q.wells[f[1]].row /\ p.wells[f[1]].col = q.wells[f[1]].col
  BY <1>1 DEF AlikeWell, FieldAt
<1>4. FieldAt(p, f) \in ImageSettings /\ FieldAt(q, f) \in ImageSettings
  <2>1. p.wells[f[1]].images \in Seq(ImageSettings) /\ q.wells[f[1]].images \in Seq(ImageSettings)
    BY <1>2 DEF WellSettings
  <2> QED BY <1>1, <1>3, <2>1, ElementOfSeq DEF FieldAt
<1>5. WellPath(p, p.wells[f[1]]) = WellPath(q, q.wells[f[1]])
  BY <1>3 DEF WellPath, AlikePlate
<1>6. FieldKey(p, f) = FieldKey(q, f)
  BY <1>3, <1>5 DEF FieldKey, AlikeImage
<1> QED BY <1>1, <1>2, <1>3, <1>4, <1>5, <1>6

\* The arrays of a stream, but for what Output and the checks do not look at.
AlikeEntry(w, v) == w.key = v.key /\ w.isHcs = v.isHcs /\ AlikeArray(w.array, v.array)
\* Lists of arrays at the same keys that ask for the same.
AlikeArrays(a, b) == Len(a) = Len(b) /\ \A n \in 1 .. Len(b) : AlikeEntry(a[n], b[n])

\* What collect_arrays gathers.
Entries == [key : Seq(NoGaps), array : ArraySettings, isHcs : BOOLEAN]

LEMMA EntryIs ==
  ASSUME NEW k \in Seq(NoGaps), NEW a \in ArraySettings
  PROVE  /\ [key |-> k, array |-> a, isHcs |-> TRUE] \in Entries
         /\ [key |-> k, array |-> a, isHcs |-> FALSE] \in Entries
<1>1. [key |-> k, array |-> a, isHcs |-> TRUE] \in Entries
  BY DEF Entries
<1>2. [key |-> k, array |-> a, isHcs |-> FALSE] \in Entries
  BY DEF Entries
<1> QED BY <1>1, <1>2

\* The keys of fields, the arrays of plates and those of settings.
LEMMA FieldKeyIs ==
  ASSUME NEW p \in PlateSettings, NEW f \in FieldIds(p)
  PROVE  FieldKey(p, f) \in Seq(NoGaps) /\ FieldAt(p, f) \in ImageSettings
         /\ p.wells[f[1]] \in WellSettings
<1>1. AlikePlate(p, p)
  BY DEF AlikePlate, AlikeWell, AlikeImage, AlikeArray
<1>2. FieldAt(p, f) \in ImageSettings /\ p.wells[f[1]] \in WellSettings
  BY <1>1, FieldAlike
<1>3. FieldAt(p, f).path \in Keys
  BY <1>2 DEF ImageSettings
<1>4. WellPath(p, p.wells[f[1]]) \in Seq(NoGaps)
  BY <1>2, WellPathIs
<1> QED BY <1>2, <1>3, <1>4, KeyBelowIs DEF FieldKey

LEMMA PlateArraysType ==
  ASSUME NEW p \in PlateSettings
  PROVE  PlateArrays(p) \in Seq(Entries) /\ Len(PlateArrays(p)) = Len(FieldsOf(p))
         /\ \A n \in 1 .. Len(FieldsOf(p)) : /\ FieldsOf(p)[n] \in FieldIds(p)
              /\ PlateArrays(p)[n] = [key |-> FieldKey(p, FieldsOf(p)[n]),
                                      array |-> FieldAt(p, FieldsOf(p)[n]).array,
                                      isHcs |-> TRUE]
<1> DEFINE fields == FieldsOf(p)
           a == [n \in DOMAIN fields |-> [key |-> FieldKey(p, fields[n]),
                                  array |-> FieldAt(p, fields[n]).array, isHcs |-> TRUE]]
<1>1. fields \in Seq(FieldIds(p)) /\ DOMAIN fields = 1 .. Len(fields)
      /\ \A n \in 1 .. Len(fields) : fields[n] \in FieldIds(p)
  BY FieldsOfType, LenProperties, ElementOfSeq
<1>2. PlateArrays(p) = a
  BY DEF PlateArrays
<1>3. DOMAIN a = DOMAIN fields /\ a = [n \in DOMAIN a |-> a[n]]
  OBVIOUS
<1>4. \A n \in 1 .. Len(fields) : a[n] = [key |-> FieldKey(p, fields[n]),
                                  array |-> FieldAt(p, fields[n]).array, isHcs |-> TRUE]
  BY <1>1
<1> HIDE DEF fields, a
<1>5. \A n \in 1 .. Len(fields) : a[n] \in Entries
  <2>1. TAKE n \in 1 .. Len(fields)
  <2>2. FieldKey(p, fields[n]) \in Seq(NoGaps) /\ FieldAt(p, fields[n]) \in ImageSettings
    BY <1>1, FieldKeyIs
  <2>3. FieldAt(p, fields[n]).array \in ArraySettings
    BY <2>2 DEF ImageSettings
  <2> QED BY <1>4, <2>2, <2>3, EntryIs
<1>6. a \in Seq(Entries) /\ Len(a) = Len(fields)
  BY <1>1, <1>3, <1>5, Mapped
<1> QED BY <1>1, <1>2, <1>4, <1>6 DEF fields

LEMMA FlatArraysType ==
  ASSUME NEW s \in StreamSettings
  PROVE  FlatArrays(s) \in Seq(Entries) /\ Len(FlatArrays(s)) = Len(s.arrays)
         /\ \A i \in 1 .. Len(s.arrays) :
               FlatArrays(s)[i] = [key |-> KeyBelow(<<>>, s.arrays[i].key),
                                   array |-> s.arrays[i], isHcs |-> FALSE]
<1> DEFINE a == [i \in DOMAIN s.arrays |-> [key |-> KeyBelow(<<>>, s.arrays[i].key),
                                            array |-> s.arrays[i], isHcs |-> FALSE]]
<1>1. s.arrays \in Seq(ArraySettings) /\ DOMAIN s.arrays = 1 .. Len(s.arrays)
      /\ \A i \in 1 .. Len(s.arrays) : s.arrays[i] \in ArraySettings
  <2>1. s.arrays \in Seq(ArraySettings)
    BY DEF StreamSettings
  <2> QED BY <2>1, LenProperties, ElementOfSeq
<1>2. FlatArrays(s) = a
  BY DEF FlatArrays
<1>3. DOMAIN a = DOMAIN s.arrays /\ a = [i \in DOMAIN a |-> a[i]]
  OBVIOUS
<1>4. \A i \in 1 .. Len(s.arrays) : a[i] = [key |-> KeyBelow(<<>>, s.arrays[i].key),
                                            array |-> s.arrays[i], isHcs |-> FALSE]
  BY <1>1
<1> HIDE DEF a
<1>5. \A i \in 1 .. Len(s.arrays) : a[i] \in Entries
  <2>1. TAKE i \in 1 .. Len(s.arrays)
  <2>2. s.arrays[i].key \in Keys
    BY <1>1 DEF ArraySettings
  <2>3. <<>> \in Seq(NoGaps)
    BY EmptySeq
  <2>4. KeyBelow(<<>>, s.arrays[i].key) \in Seq(NoGaps)
    BY <2>2, <2>3, KeyBelowIs
  <2> QED BY <1>1, <1>4, <2>4, EntryIs
<1>6. a \in Seq(Entries) /\ Len(a) = Len(s.arrays)
  BY <1>1, <1>3, <1>5, Mapped
<1> QED BY <1>2, <1>4, <1>6

\* The arrays of each plate.
OfPlates(s) == [i \in DOMAIN s.plates |-> PlateArrays(s.plates[i])]

LEMMA ArraysType ==
  ASSUME NEW s \in StreamSettings
  PROVE  /\ Arrays(s) \in Seq(Entries) /\ OfPlates(s) \in Seq(Seq(Entries))
         /\ FlattenSeq(OfPlates(s)) \in Seq(Entries)
         /\ Arrays(s) = FlatArrays(s) \o FlattenSeq(OfPlates(s))
         /\ Len(OfPlates(s)) = Len(s.plates)
         /\ \A i \in 1 .. Len(s.plates) : OfPlates(s)[i] = PlateArrays(s.plates[i])
<1>1. s.plates \in Seq(PlateSettings) /\ DOMAIN s.plates = 1 .. Len(s.plates)
      /\ \A i \in 1 .. Len(s.plates) : s.plates[i] \in PlateSettings
  <2>1. s.plates \in Seq(PlateSettings)
    BY DEF StreamSettings
  <2> QED BY <2>1, LenProperties, ElementOfSeq
<1> DEFINE f == OfPlates(s)
<1>2. DOMAIN f = DOMAIN s.plates /\ f = [i \in DOMAIN f |-> f[i]]
      /\ \A i \in 1 .. Len(s.plates) : f[i] = PlateArrays(s.plates[i])
  BY <1>1 DEF OfPlates
<1>3. Arrays(s) = FlatArrays(s) \o FlattenSeq(f)
  BY DEF Arrays, OfPlates
<1> HIDE DEF f
<1>4. \A i \in 1 .. Len(s.plates) : f[i] \in Seq(Entries)
  BY <1>1, <1>2, PlateArraysType
<1>5. f \in Seq(Seq(Entries)) /\ Len(f) = Len(s.plates)
  BY <1>1, <1>2, <1>4, Mapped
<1>6. FlattenSeq(f) \in Seq(Entries)
  BY <1>5, FlattenType
<1>7. Arrays(s) \in Seq(Entries)
  BY <1>3, <1>6, FlatArraysType, ConcatProperties
<1> QED BY <1>2, <1>3, <1>5, <1>6, <1>7 DEF f

\* Settings that are alike have the same arrays, of which the same is made.
LEMMA EntriesAlike ==
  ASSUME NEW s \in StreamSettings, NEW c \in StreamSettings, Alike(s, c)
  PROVE  AlikeArrays(Arrays(s), Arrays(c))
<1>1. AlikeArrays(FlatArrays(s), FlatArrays(c))
  <2>1. Len(s.arrays) = Len(c.arrays)
        /\ \A i \in 1 .. Len(c.arrays) :
              AlikeArray(s.arrays[i], c.arrays[i]) /\ s.arrays[i].key = c.arrays[i].key
    BY DEF Alike
  <2>2. \A t \in StreamSettings :
           /\ Len(FlatArrays(t)) = Len(t.arrays)
           /\ \A i \in 1 .. Len(t.arrays) :
                 FlatArrays(t)[i] = [key |-> KeyBelow(<<>>, t.arrays[i].key),
                                     array |-> t.arrays[i], isHcs |-> FALSE]
    BY FlatArraysType
  <2>3. ASSUME NEW i \in 1 .. Len(c.arrays)
        PROVE  AlikeEntry(FlatArrays(s)[i], FlatArrays(c)[i])
    <3>1. /\ FlatArrays(s)[i] = [key |-> KeyBelow(<<>>, s.arrays[i].key),
                                 array |-> s.arrays[i], isHcs |-> FALSE]
          /\ FlatArrays(c)[i] = [key |-> KeyBelow(<<>>, c.arrays[i].key),
                                 array |-> c.arrays[i], isHcs |-> FALSE]
      BY <2>1, <2>2
    <3>2. AlikeArray(s.arrays[i], c.arrays[i]) /\ s.arrays[i].key = c.arrays[i].key
      BY <2>1
    <3> QED BY <3>1, <3>2 DEF AlikeEntry
  <2> QED BY <2>1, <2>2, <2>3 DEF AlikeArrays
<1>2. ASSUME NEW i \in 1 .. Len(c.plates)
      PROVE  AlikeArrays(PlateArrays(s.plates[i]), PlateArrays(c.plates[i]))
  <2> DEFINE p == s.plates[i]  q == c.plates[i]
  <2>1. p \in PlateSettings /\ q \in PlateSettings /\ AlikePlate(p, q)
    <3>1. s.plates \in Seq(PlateSettings) /\ c.plates \in Seq(PlateSettings)
          /\ Len(s.plates) = Len(c.plates) /\ AlikePlate(p, q)
      BY DEF StreamSettings, Alike
    <3> QED BY <3>1, ElementOfSeq
  <2> HIDE DEF p, q
  <2>2. FieldsOf(p) = FieldsOf(q)
    BY <2>1, FieldsAlike
  <2>3. \A r \in {p, q} :
           /\ Len(PlateArrays(r)) = Len(FieldsOf(r))
           /\ \A n \in 1 .. Len(FieldsOf(r)) : /\ FieldsOf(r)[n] \in FieldIds(r)
              /\ PlateArrays(r)[n] = [key |-> FieldKey(r, FieldsOf(r)[n]),
                                      array |-> FieldAt(r, FieldsOf(r)[n]).array,
                                      isHcs |-> TRUE]
    BY <2>1, PlateArraysType
  <2>4. ASSUME NEW n \in 1 .. Len(FieldsOf(q))
        PROVE  AlikeEntry(PlateArrays(p)[n], PlateArrays(q)[n])
    <3> DEFINE f == FieldsOf(q)[n]
    <3>1. f \in FieldIds(q)
      BY <2>3
    <3>2. PlateArrays(p)[n] = [key |-> FieldKey(p, f), array |-> FieldAt(p, f).array,
                               isHcs |-> TRUE]
          /\ PlateArrays(q)[n] = [key |-> FieldKey(q, f), array |-> FieldAt(q, f).array,
                                  isHcs |-> TRUE]
      BY <2>2, <2>3
    <3> HIDE DEF f
    <3>3. AlikeImage(FieldAt(p, f), FieldAt(q, f)) /\ FieldKey(p, f) = FieldKey(q, f)
      BY <2>1, <3>1, FieldAlike
    <3> QED BY <3>2, <3>3 DEF AlikeEntry, AlikeImage
  <2>5. Len(PlateArrays(p)) = Len(PlateArrays(q)) /\ Len(PlateArrays(q)) = Len(FieldsOf(q))
    BY <2>2, <2>3
  <2> QED BY <2>4, <2>5 DEF AlikeArrays, p, q
<1> DEFINE f == OfPlates(s)  g == OfPlates(c)
<1>3. /\ f \in Seq(Seq(Entries)) /\ g \in Seq(Seq(Entries))
      /\ Len(f) = Len(c.plates) /\ Len(g) = Len(c.plates)
      /\ \A i \in 1 .. Len(c.plates) : AlikeArrays(f[i], g[i])
  <2>1. Len(s.plates) = Len(c.plates)
    BY DEF Alike
  <2>2. \A t \in StreamSettings :
           /\ OfPlates(t) \in Seq(Seq(Entries)) /\ Len(OfPlates(t)) = Len(t.plates)
           /\ \A i \in 1 .. Len(t.plates) : OfPlates(t)[i] = PlateArrays(t.plates[i])
    BY ArraysType
  <2> QED BY <1>2, <2>1, <2>2
<1> HIDE DEF f, g
<1>4. SameShape(f, g)
  BY <1>3 DEF SameShape, AlikeArrays
<1>5. SameFlat(f, g)
  BY <1>3, <1>4, FlattenTogether
<1> DEFINE a == FlattenSeq(f)  b == FlattenSeq(g)
<1>6. AlikeArrays(a, b)
  <2>1. Len(a) = Len(b)
        /\ \A n \in 1 .. Len(a) : \E i \in 1 .. Len(f) : \E k \in 1 .. Len(f[i]) :
              a[n] = f[i][k] /\ b[n] = g[i][k]
    BY <1>5 DEF SameFlat
  <2> HIDE DEF a, b
  <2>2. ASSUME NEW n \in 1 .. Len(b) PROVE AlikeEntry(a[n], b[n])
    <3>1. PICK i \in 1 .. Len(f) : \E k \in 1 .. Len(f[i]) : a[n] = f[i][k] /\ b[n] = g[i][k]
      BY <2>1
    <3>2. PICK k \in 1 .. Len(f[i]) : a[n] = f[i][k] /\ b[n] = g[i][k]
      BY <3>1
    <3>3. AlikeArrays(f[i], g[i])
      BY <1>3
    <3>4. AlikeEntry(f[i][k], g[i][k])
      BY <3>3 DEF AlikeArrays
    <3> QED BY <3>2, <3>4
  <2> QED BY <2>1, <2>2 DEF AlikeArrays
<1> DEFINE x == FlatArrays(s)  y == FlatArrays(c)
<1>7. x \in Seq(Entries) /\ y \in Seq(Entries) /\ a \in Seq(Entries) /\ b \in Seq(Entries)
      /\ Arrays(s) = x \o a /\ Arrays(c) = y \o b
  BY FlatArraysType, ArraysType DEF f, g
<1> HIDE DEF a, b, x, y
<1>8. /\ Len(x \o a) = Len(x) + Len(a) /\ Len(y \o b) = Len(y) + Len(b)
      /\ \A n \in 1 .. Len(x) + Len(a) :
            (x \o a)[n] = IF n <= Len(x) THEN x[n] ELSE a[n - Len(x)]
      /\ \A n \in 1 .. Len(y) + Len(b) :
            (y \o b)[n] = IF n <= Len(y) THEN y[n] ELSE b[n - Len(y)]
      /\ Len(x) \in Nat /\ Len(a) \in Nat
  BY <1>7, ConcatProperties, LenProperties
<1>9. Len(x) = Len(y) /\ Len(a) = Len(b)
      /\ (\A n \in 1 .. Len(x) : AlikeEntry(x[n], y[n]))
      /\ (\A n \in 1 .. Len(a) : AlikeEntry(a[n], b[n]))
  BY <1>1, <1>6 DEF AlikeArrays, x, y
<1> DEFINE u == x \o a  v == y \o b
<1> HIDE DEF u, v
<1>10. ASSUME NEW n \in 1 .. Len(x) + Len(a) PROVE AlikeEntry(u[n], v[n])
  <2>1. CASE n <= Len(x)
    <3>1. u[n] = x[n] /\ v[n] = y[n] /\ n \in 1 .. Len(x)
      BY <1>8, <1>9, <2>1 DEF u, v
    <3> QED BY <1>9, <3>1
  <2>2. CASE ~ (n <= Len(x))
    <3>1. u[n] = a[n - Len(x)] /\ v[n] = b[n - Len(x)] /\ n - Len(x) \in 1 .. Len(a)
      BY <1>8, <1>9, <2>2 DEF u, v
    <3> QED BY <1>9, <3>1
  <2> QED BY <2>1, <2>2
<1>11. Len(u) = Len(v) /\ Len(v) = Len(x) + Len(a)
  BY <1>8, <1>9 DEF u, v
<1>12. AlikeArrays(u, v)
  BY <1>10, <1>11 DEF AlikeArrays
<1> QED BY <1>7, <1>12 DEF u, v

LEMMA OutputsAlike ==
  ASSUME NEW a \in Seq(Entries), NEW b \in Seq(Entries), AlikeArrays(a, b)
  PROVE  Outputs(a) = Outputs(b)
<1>1. DOMAIN a = 1 .. Len(b) /\ DOMAIN b = 1 .. Len(b)
  BY LenProperties DEF AlikeArrays
<1>2. ASSUME NEW n \in 1 .. Len(b) PROVE Output(a[n]) = Output(b[n])
  <2>1. AlikeEntry(a[n], b[n])
    BY DEF AlikeArrays
  <2>2. b[n].array.multi \in BOOLEAN
    <3>1. b[n] \in Entries
      BY ElementOfSeq
    <3> QED BY <3>1 DEF Entries, ArraySettings
  <2> QED BY <2>1, <2>2 DEF AlikeEntry, AlikeArray, Output
<1>3. Outputs(a) = {Output(a[n]) : n \in 1 .. Len(b)}
  BY <1>1 DEF Outputs, Range
<1>4. Outputs(b) = {Output(b[n]) : n \in 1 .. Len(b)}
  BY <1>1 DEF Outputs, Range
<1> QED BY <1>2, <1>3, <1>4

LEMMA TreesAlike ==
  ASSUME NEW s, NEW c, Arrays(s) \in Seq(Entries), Arrays(c) \in Seq(Entries),
         AlikeArrays(Arrays(s), Arrays(c))
  PROVE  Tree(s) = Tree(c) /\ (ValidStructure(s) <=> ValidStructure(c))
<1> DEFINE a == Arrays(s)  b == Arrays(c)
<1>1. DOMAIN a = 1 .. Len(b) /\ DOMAIN b = 1 .. Len(b) /\ Len(b) \in Nat /\ Len(a) = Len(b)
  BY LenProperties DEF AlikeArrays
<1>2. \A n \in 1 .. Len(b) : a[n].key = b[n].key /\ Kind(a[n]) = Kind(b[n])
  BY DEF AlikeArrays, AlikeEntry, AlikeArray, Kind
<1> HIDE DEF a, b
<1>3. ASSUME NEW p PROVE NodeKind(a, p) = NodeKind(b, p)
  <2>1. {n \in DOMAIN a : a[n].key = p} = {n \in DOMAIN b : b[n].key = p}
    BY <1>1, <1>2
  <2>2. {n \in DOMAIN a : IsPrefix(p, a[n].key)} = {n \in DOMAIN b : IsPrefix(p, b[n].key)}
    BY <1>1, <1>2
  <2> DEFINE at == {n \in DOMAIN b : b[n].key = p}
             through == {n \in DOMAIN b : IsPrefix(p, b[n].key)}
             first == IF p = <<>> THEN Max(at) ELSE Min(through)
  <2>3. NodeKind(a, p) = IF at # {} /\ first \in at THEN Kind(a[first]) ELSE "directory"
    BY <2>1, <2>2 DEF NodeKind
  <2>4. NodeKind(b, p) = IF at # {} /\ first \in at THEN Kind(b[first]) ELSE "directory"
    BY DEF NodeKind
  <2>5. at \subseteq 1 .. Len(b)
    BY <1>1
  <2> HIDE DEF at, first
  <2>6. first \in at => Kind(a[first]) = Kind(b[first])
    BY <1>2, <2>5
  <2> QED BY <2>3, <2>4, <2>6
<1>4. {Prefixes(w.key) : w \in Range(a)} = {Prefixes(w.key) : w \in Range(b)}
  <2>1. Range(a) = {a[n] : n \in 1 .. Len(b)} /\ Range(b) = {b[n] : n \in 1 .. Len(b)}
    BY <1>1 DEF Range
  <2> QED BY <1>2, <2>1
<1>5. Tree(s) = Tree(c)
  <2>1. \A t : Tree(t) = [p \in {<<>>} \cup UNION {Prefixes(w.key) : w \in Range(Arrays(t))} |->
                            NodeKind(Arrays(t), p)]
    BY DEF Tree
  <2> DEFINE ps == {<<>>} \cup UNION {Prefixes(w.key) : w \in Range(b)}
  <2>2. Tree(s) = [p \in ps |-> NodeKind(a, p)]
    BY <1>4, <2>1 DEF a
  <2>3. Tree(c) = [p \in ps |-> NodeKind(b, p)]
    BY <2>1 DEF b
  <2> HIDE DEF ps
  <2> QED BY <1>3, <2>2, <2>3
<1>6. ValidStructure(s) <=> ValidStructure(c)
  <2>1. (a # <<>>) <=> (b # <<>>)
    <3>1. a # <<>> <=> Len(a) # 0
      BY EmptySeq DEF a
    <3>2. b # <<>> <=> Len(b) # 0
      BY EmptySeq DEF b
    <3> QED BY <1>1, <3>1, <3>2
  <2>2. (\A m, n \in DOMAIN a : a[m].key = a[n].key => m = n)
        <=> (\A m, n \in DOMAIN b : b[m].key = b[n].key => m = n)
    BY <1>1, <1>2
  <2>3. (\A n \in DOMAIN a : \A i \in 2 .. Len(a[n].key) : a[n].key[i] \notin MetadataNames)
        <=> (\A n \in DOMAIN b : \A i \in 2 .. Len(b[n].key) : b[n].key[i] \notin MetadataNames)
    BY <1>1, <1>2
  <2>4. ValidStructure(s) <=>
           /\ a # <<>> /\ \A m, n \in DOMAIN a : a[m].key = a[n].key => m = n
           /\ \A n \in DOMAIN a : \A i \in 2 .. Len(a[n].key) : a[n].key[i] \notin MetadataNames
           /\ \A p \in DOMAIN Tree(s) : MayHaveChildren(Tree(s), p)
    BY DEF ValidStructure, a
  <2>5. ValidStructure(c) <=>
           /\ b # <<>> /\ \A m, n \in DOMAIN b : b[m].key = b[n].key => m = n
           /\ \A n \in DOMAIN b : \A i \in 2 .. Len(b[n].key) : b[n].key[i] \notin MetadataNames
           /\ \A p \in DOMAIN Tree(c) : MayHaveChildren(Tree(c), p)
    BY DEF ValidStructure, b
  <2> QED BY <1>5, <2>1, <2>2, <2>3, <2>4, <2>5
<1> QED BY <1>5, <1>6
-----------------------------------------------------------------------------
(* What is accepted *)

\* What validate_array_settings looks at besides the key.
Sound(a) ==
    LET n == Len(a.dims)
    IN  /\ ValidCompression(a.comp)
        /\ n >= 2
        /\ a.dims[n].type = "space" /\ a.dims[n - 1].type = "space"
        /\ \A i \in 1 .. n : ValidDimension(a.dims[i], i = 1)

\* Only the key of an array depends on where it is.
LEMMA ValidArrayIs ==
  ASSUME NEW a, NEW parent
  PROVE  ValidArray(a, parent) <=> MayBeKey(KeyBelow(parent, a.key)) /\ Sound(a)
BY DEF ValidArray, Sound

\* Arrays, fields and plates that are alike are valid together, but for the keys
\* of fields.
LEMMA SoundAlike ==
  ASSUME NEW a, NEW b, AlikeArray(a, b)
  PROVE  (Sound(a) <=> Sound(b)) /\ (MakesDimensions(a) <=> MakesDimensions(b))
<1>1. a.comp = b.comp /\ a.dims = b.dims /\ a.order = b.order
  BY DEF AlikeArray
<1> QED BY <1>1 DEF Sound, MakesDimensions

LEMMA ValidFieldsAlike ==
  ASSUME NEW w \in WellSettings, NEW v \in WellSettings, AlikeWell(w, v)
  PROVE  ValidFields(w) <=> ValidFields(v)
<1>1. /\ DOMAIN w.images = 1 .. Len(v.images) /\ DOMAIN v.images = 1 .. Len(v.images)
      /\ w.images # <<>> <=> v.images # <<>>
  <2>1. w.images \in Seq(ImageSettings) /\ v.images \in Seq(ImageSettings)
        /\ Len(w.images) = Len(v.images)
    BY DEF WellSettings, AlikeWell
  <2>2. w.images # <<>> <=> Len(w.images) # 0
    BY <2>1, EmptySeq
  <2>3. v.images # <<>> <=> Len(v.images) # 0
    BY <2>1, EmptySeq
  <2> QED BY <2>1, <2>2, <2>3, LenProperties
<1>2. \A k \in 1 .. Len(v.images) : w.images[k].path = v.images[k].path
  BY DEF AlikeWell, AlikeImage
<1> QED BY <1>1, <1>2 DEF ValidFields

\* A key that commit_hcs_settings_ has given to the array of a field of view makes
\* no difference to what is accepted.
LEMMA FieldValid ==
  ASSUME NEW p \in PlateSettings, NEW q \in PlateSettings, AlikePlate(p, q),
         NEW f \in FieldIds(q), FieldAt(q, f).array.key = NoKey
  PROVE  (/\ ValidArray(FieldAt(p, f).array, WellPath(p, p.wells[f[1]]))
          /\ MayBeKey(FieldKey(p, f)) /\ MakesDimensions(FieldAt(p, f).array))
         <=> (/\ ValidArray(FieldAt(q, f).array, WellPath(q, q.wells[f[1]]))
              /\ MayBeKey(FieldKey(q, f)) /\ MakesDimensions(FieldAt(q, f).array))
<1> DEFINE x == FieldAt(p, f)  y == FieldAt(q, f)  path == WellPath(q, q.wells[f[1]])
           key == FieldKey(q, f)
<1>1. /\ x \in ImageSettings /\ y \in ImageSettings /\ AlikeImage(x, y)
      /\ WellPath(p, p.wells[f[1]]) = path /\ FieldKey(p, f) = key
      /\ q.wells[f[1]] \in WellSettings
  BY FieldAlike
<1>2. path \in Seq(NoGaps) /\ key = KeyBelow(path, y.path) /\ y.path \in Keys
  BY <1>1, WellPathIs DEF FieldKey, ImageSettings
<1> HIDE DEF path, key
<1>3. MayBeKey(key) => MayBeKey(KeyBelow(path, NoKey))
  <2>1. key \in Seq(NoGaps) /\ ToSet(path) \subseteq ToSet(key)
    BY <1>2, KeyBelowIs
  <2>2. NoKey \in Keys
    BY DEF Keys
  <2>3. /\ KeyBelow(path, NoKey) \in Seq(NoGaps)
        /\ ToSet(KeyBelow(path, NoKey)) = ToSet(path) \cup ToSet(Regularize(NoKey))
    BY <1>2, <2>2, KeyBelowIs
  <2>4. ToSet(Regularize(NoKey)) = {}
    BY DEF Regularize, ToSet
  <2>5. MayBeKey(key) <=> ToSet(key) \cap InvalidNames = {}
    BY <2>1, MayBeKeyIs
  <2>6. MayBeKey(KeyBelow(path, NoKey)) <=> ToSet(KeyBelow(path, NoKey)) \cap InvalidNames = {}
    BY <2>3, MayBeKeyIs
  <2> QED BY <2>1, <2>3, <2>4, <2>5, <2>6
<1> DEFINE a == x.array  b == y.array
<1>4. AlikeArray(a, b) /\ a.key \in {NoKey, y.path} /\ b.key = NoKey
  BY <1>1 DEF AlikeImage
<1> HIDE DEF a, b
<1>5. MayBeKey(key) => MayBeKey(KeyBelow(path, a.key)) /\ MayBeKey(KeyBelow(path, b.key))
  BY <1>2, <1>3, <1>4
<1>6. (Sound(a) <=> Sound(b)) /\ (MakesDimensions(a) <=> MakesDimensions(b))
  BY <1>4, SoundAlike
<1>7. (ValidArray(a, path) /\ MayBeKey(key) /\ MakesDimensions(a))
      <=> (ValidArray(b, path) /\ MayBeKey(key) /\ MakesDimensions(b))
  BY <1>5, <1>6, ValidArrayIs
<1> QED BY <1>1, <1>7 DEF a, b, path, key

\* ValidPlate, by what it looks at.
GoodFields(p) ==
    \A f \in Range(FieldsOf(p)) :
          /\ ValidArray(FieldAt(p, f).array, WellPath(p, p.wells[f[1]]))
          /\ MayBeKey(FieldKey(p, f))
          /\ MakesDimensions(FieldAt(p, f).array)
\* What validate_plate looks at besides the fields.
GoodWells(p) ==
    \A j \in DOMAIN p.wells :
          /\ p.wells[j].row \in Range(p.rows) /\ p.wells[j].col \in Range(p.cols)
          /\ ValidFields(p.wells[j])
GoodLists(p) ==
    /\ IsInjective(p.acqs)
    /\ p.rows # <<>> /\ p.cols # <<>>
    /\ \A n \in Range(p.rows) \cup Range(p.cols) : IsValidKey(<<n>>)
    /\ MayBeKey(Regularize(p.path))

LEMMA ValidPlateIs ==
  ASSUME NEW p
  PROVE  ValidPlate(p) <=> GoodLists(p) /\ p.wells # <<>> /\ GoodWells(p) /\ GoodFields(p)
<1>1. ValidPlate(p) => GoodLists(p) /\ p.wells # <<>>
  BY DEF ValidPlate, GoodLists
<1>2. ValidPlate(p) => GoodWells(p)
  BY DEF ValidPlate, GoodWells
<1>3. ValidPlate(p) => GoodFields(p)
  BY DEF ValidPlate, GoodFields
<1>4. GoodLists(p) /\ p.wells # <<>> /\ GoodWells(p) /\ GoodFields(p) => ValidPlate(p)
  BY DEF ValidPlate, GoodLists, GoodWells, GoodFields
<1> QED BY <1>1, <1>2, <1>3, <1>4

LEMMA ValidPlateAlike ==
  ASSUME NEW p \in PlateSettings, NEW q \in PlateSettings, AlikePlate(p, q),
         \A f \in FieldIds(q) : FieldAt(q, f).array.key = NoKey
  PROVE  ValidPlate(p) <=> ValidPlate(q)
<1>1. FieldsOf(p) = FieldsOf(q) /\ Range(FieldsOf(q)) \subseteq FieldIds(q)
  <2>1. FieldsOf(q) \in Seq(FieldIds(q))
    BY FieldsOfType
  <2> QED BY <2>1, FieldsAlike, RangeOfSeq
<1>2. GoodFields(p) <=> GoodFields(q)
  <2>1. ASSUME NEW f \in Range(FieldsOf(q))
        PROVE  (/\ ValidArray(FieldAt(p, f).array, WellPath(p, p.wells[f[1]]))
                /\ MayBeKey(FieldKey(p, f)) /\ MakesDimensions(FieldAt(p, f).array))
         <=> (/\ ValidArray(FieldAt(q, f).array, WellPath(q, q.wells[f[1]]))
              /\ MayBeKey(FieldKey(q, f)) /\ MakesDimensions(FieldAt(q, f).array))
    <3>1. f \in FieldIds(q) /\ FieldAt(q, f).array.key = NoKey
      BY <1>1
    <3> QED BY <3>1, FieldValid
  <2> QED BY <1>1, <2>1 DEF GoodFields
<1>3. /\ p.wells \in Seq(WellSettings) /\ q.wells \in Seq(WellSettings)
      /\ Len(p.wells) = Len(q.wells)
      /\ DOMAIN p.wells = 1 .. Len(q.wells) /\ DOMAIN q.wells = 1 .. Len(q.wells)
      /\ p.path = q.path /\ p.rows = q.rows /\ p.cols = q.cols /\ p.acqs = q.acqs
  <2>1. p.wells \in Seq(WellSettings) /\ q.wells \in Seq(WellSettings)
    BY DEF PlateSettings
  <2> QED BY <2>1, LenProperties DEF AlikePlate
<1>4. GoodWells(p) <=> GoodWells(q)
  <2>1. ASSUME NEW j \in 1 .. Len(q.wells)
        PROVE  /\ p.wells[j].row = q.wells[j].row /\ p.wells[j].col = q.wells[j].col
               /\ ValidFields(p.wells[j]) <=> ValidFields(q.wells[j])
    <3>1. AlikeWell(p.wells[j], q.wells[j])
      BY DEF AlikePlate
    <3>2. p.wells[j] \in WellSettings /\ q.wells[j] \in WellSettings
      BY <1>3, ElementOfSeq
    <3> QED BY <3>1, <3>2, ValidFieldsAlike DEF AlikeWell
  <2> QED BY <1>3, <2>1 DEF GoodWells
<1>5. p.wells # <<>> <=> q.wells # <<>>
  <2>1. p.wells # <<>> <=> Len(p.wells) # 0
    BY <1>3, EmptySeq
  <2>2. q.wells # <<>> <=> Len(q.wells) # 0
    BY <1>3, EmptySeq
  <2> QED BY <1>3, <2>1, <2>2
<1>6. GoodLists(p) <=> GoodLists(q)
  BY <1>3 DEF GoodLists
<1> QED BY <1>2, <1>4, <1>5, <1>6, ValidPlateIs

\* Every field of view is among those that FieldsWithKey looks through.
LEMMA FieldIsListed ==
  ASSUME NEW p \in PlateSettings, NEW f \in FieldIds(p)
  PROVE  f \in Range(FieldsOf(p))
<1> DEFINE of == FieldsOf(p)
           b == [j \in DOMAIN p.wells |-> [k \in DOMAIN p.wells[j].images |-> <<j, k>>]]
<1>01. p.wells \in Seq(WellSettings) /\ DOMAIN p.wells = 1 .. Len(p.wells)
  BY LenProperties DEF PlateSettings
<1>02. f = <<f[1], f[2]>> /\ f[1] \in 1 .. Len(p.wells) /\ f[2] \in 1 .. Len(p.wells[f[1]].images)
  BY DEF FieldIds
<1>1. ASSUME NEW j \in 1 .. Len(p.wells) PROVE b[j] \in Seq(FieldIds(p))
         /\ DOMAIN b[j] = 1 .. Len(p.wells[j].images)
  <2> DEFINE m == [k \in DOMAIN p.wells[j].images |-> <<j, k>>]
  <2>1. p.wells[j].images \in Seq(ImageSettings)
    <3>1. p.wells[j] \in WellSettings
      BY <1>01, ElementOfSeq
    <3> QED BY <3>1 DEF WellSettings
  <2>2. \A k \in 1 .. Len(p.wells[j].images) : <<j, k>> \in FieldIds(p)
    BY <1>01 DEF FieldIds
  <2>3. DOMAIN m = DOMAIN p.wells[j].images /\ m = [k \in DOMAIN m |-> m[k]]
    OBVIOUS
  <2>4. DOMAIN p.wells[j].images = 1 .. Len(p.wells[j].images)
    BY <2>1, LenProperties
  <2>5. \A k \in 1 .. Len(p.wells[j].images) : m[k] \in FieldIds(p)
    BY <2>2, <2>4
  <2>6. b[j] = m
    BY <1>01
  <2> HIDE DEF m, b
  <2>7. m \in Seq(FieldIds(p))
    BY <2>1, <2>3, <2>5, Mapped
  <2> QED BY <2>3, <2>4, <2>6, <2>7
<1>2. DOMAIN b = DOMAIN p.wells /\ b = [j \in DOMAIN b |-> b[j]]
  OBVIOUS
<1>3. of = FlattenSeq(b)
  BY DEF FieldsOf
<1>4. b[f[1]][f[2]] = f
  <2>1. f[1] \in DOMAIN p.wells
    BY <1>01, <1>02
  <2>2. f[2] \in DOMAIN b[f[1]]
    BY <1>02, <1>1
  <2>3. b[f[1]] = [k \in DOMAIN p.wells[f[1]].images |-> <<f[1], k>>]
    BY <2>1
  <2> HIDE DEF b
  <2> QED BY <1>02, <2>2, <2>3
<1> HIDE DEF b, of
<1>5. \A j \in 1 .. Len(p.wells) : b[j] \in Seq(FieldIds(p))
  BY <1>1
<1>6. \A j \in 1 .. Len(p.wells) : ToSet(b[j]) \subseteq ToSet(FlattenSeq(b))
  BY <1>01, <1>2, <1>5, EachSlot
<1>7. f \in ToSet(b[f[1]])
  <2>1. f[2] \in DOMAIN b[f[1]]
    BY <1>02, <1>1
  <2> QED BY <1>4, <2>1 DEF ToSet
<1>8. f \in ToSet(of)
  BY <1>02, <1>3, <1>6, <1>7
<1> QED BY <1>8 DEF ToSet, Range, of

\* AllFields leaves out no field.
LEMMA AllFieldsHas ==
  ASSUME NEW s \in StreamSettings, NEW i \in 1 .. Len(s.plates),
         NEW f \in FieldIds(s.plates[i])
  PROVE  <<i, f>> \in Range(AllFields(s))
<1> DEFINE p == s.plates[i]  of == FieldsOf(p)
           g == [n \in DOMAIN of |-> <<i, of[n]>>]
           a == [h \in DOMAIN s.plates |->
                   [n \in DOMAIN FieldsOf(s.plates[h]) |-> <<h, FieldsOf(s.plates[h])[n]>>]]
           b == [j \in DOMAIN p.wells |-> [k \in DOMAIN p.wells[j].images |-> <<j, k>>]]
<1>1. s.plates \in Seq(PlateSettings) /\ DOMAIN s.plates = 1 .. Len(s.plates)
      /\ \A h \in 1 .. Len(s.plates) : s.plates[h] \in PlateSettings
  <2>1. s.plates \in Seq(PlateSettings)
    BY DEF StreamSettings
  <2> QED BY <2>1, LenProperties, ElementOfSeq
<1>2. p.wells \in Seq(WellSettings) /\ DOMAIN p.wells = 1 .. Len(p.wells)
  BY <1>1, LenProperties DEF PlateSettings
<1>3. f = <<f[1], f[2]>> /\ f[1] \in 1 .. Len(p.wells) /\ f[2] \in 1 .. Len(p.wells[f[1]].images)
  BY DEF FieldIds
<1>4. f \in ToSet(of)
  BY <1>1, FieldIsListed DEF ToSet, Range
<1>5. PICK n \in DOMAIN of : f = of[n]
  BY <1>4 DEF ToSet
<1>6. <<i, f>> \in ToSet(g)
  BY <1>5 DEF ToSet
<1>7. a[i] = g /\ AllFields(s) = FlattenSeq(a)
  BY <1>1 DEF AllFields
<1>8. DOMAIN a = DOMAIN s.plates /\ a = [h \in DOMAIN a |-> a[h]]
  OBVIOUS
<1>9. \A h \in 1 .. Len(s.plates) : a[h] \in Seq(AtIds(s))
  <2>1. TAKE h \in 1 .. Len(s.plates)
  <2> DEFINE o == FieldsOf(s.plates[h])
             m == [k \in DOMAIN o |-> <<h, o[k]>>]
  <2>2. o \in Seq(FieldIds(s.plates[h]))
    BY <1>1, FieldsOfType
  <2>3. a[h] = m
    BY <1>1
  <2>4. DOMAIN m = DOMAIN o /\ m = [k \in DOMAIN m |-> m[k]]
    OBVIOUS
  <2>5. DOMAIN o = 1 .. Len(o)
    BY <2>2, LenProperties
  <2>6. \A k \in 1 .. Len(o) : m[k] \in AtIds(s)
    <3>1. TAKE k \in 1 .. Len(o)
    <3>2. m[k] = <<h, o[k]>>
      BY <2>5
    <3>3. o[k] \in FieldIds(s.plates[h])
      BY <2>2, ElementOfSeq
    <3>4. o[k] \in Nat \X Nat
      BY <3>3 DEF FieldIds
    <3> HIDE DEF o
    <3> QED BY <3>2, <3>3, <3>4, <1>1 DEF AtIds
  <2> HIDE DEF a, m, o
  <2> QED BY <2>2, <2>3, <2>4, <2>6, Mapped
<1> HIDE DEF a, g, of, p
<1>10. \A h \in 1 .. Len(s.plates) : ToSet(a[h]) \subseteq ToSet(FlattenSeq(a))
  BY <1>1, <1>8, <1>9, EachSlot
<1>11. <<i, f>> \in ToSet(AllFields(s))
  BY <1>6, <1>7, <1>10
<1> QED BY <1>11 DEF ToSet, Range
-----------------------------------------------------------------------------
(* The round trip *)

\* Settings that are alike are accepted together, and ask for the same store.
LEMMA AcceptsAlike ==
  ASSUME NEW s \in StreamSettings, NEW c \in StreamSettings, Alike(s, c),
         FieldsWithKey(c) = {}
  PROVE  Accepts(s) <=> Accepts(c)
<1>1. /\ s.arrays \in Seq(ArraySettings) /\ c.arrays \in Seq(ArraySettings)
      /\ s.plates \in Seq(PlateSettings) /\ c.plates \in Seq(PlateSettings)
      /\ Len(s.arrays) = Len(c.arrays) /\ Len(s.plates) = Len(c.plates)
  BY DEF StreamSettings, Alike
<1>2. /\ DOMAIN s.arrays = 1 .. Len(c.arrays) /\ DOMAIN c.arrays = 1 .. Len(c.arrays)
      /\ DOMAIN s.plates = 1 .. Len(c.plates) /\ DOMAIN c.plates = 1 .. Len(c.plates)
  BY <1>1, LenProperties
<1>3. ASSUME NEW i \in 1 .. Len(c.arrays)
      PROVE  ValidArray(s.arrays[i], <<>>) /\ MakesDimensions(s.arrays[i])
             <=> ValidArray(c.arrays[i], <<>>) /\ MakesDimensions(c.arrays[i])
  <2>1. AlikeArray(s.arrays[i], c.arrays[i]) /\ s.arrays[i].key = c.arrays[i].key
    BY DEF Alike
  <2>2. (Sound(s.arrays[i]) <=> Sound(c.arrays[i]))
        /\ (MakesDimensions(s.arrays[i]) <=> MakesDimensions(c.arrays[i]))
    BY <2>1, SoundAlike
  <2> QED BY <2>1, <2>2, ValidArrayIs
<1>4. ASSUME NEW i \in 1 .. Len(c.plates)
      PROVE  ValidPlate(s.plates[i]) <=> ValidPlate(c.plates[i])
  <2>1. s.plates[i] \in PlateSettings /\ c.plates[i] \in PlateSettings
        /\ AlikePlate(s.plates[i], c.plates[i])
    BY <1>1, ElementOfSeq DEF Alike
  <2>2. ASSUME NEW f \in FieldIds(c.plates[i])
        PROVE  FieldAt(c.plates[i], f).array.key = NoKey
    <3>1. <<i, f>> \in Range(AllFields(c))
      BY AllFieldsHas
    <3>2. FieldAt(c.plates[<<i, f>>[1]], <<i, f>>[2]).array.key = NoKey
      BY <3>1 DEF FieldsWithKey
    <3> QED BY <3>2
  <2> QED BY <2>1, <2>2, ValidPlateAlike
<1>5. ValidStructure(s) <=> ValidStructure(c)
  BY ArraysType, EntriesAlike, TreesAlike
<1>6. s.s3 = c.s3
  BY DEF Alike
<1>7. (\A i \in DOMAIN s.arrays : ValidArray(s.arrays[i], <<>>) /\ MakesDimensions(s.arrays[i]))
      <=> (\A i \in DOMAIN c.arrays : ValidArray(c.arrays[i], <<>>) /\ MakesDimensions(c.arrays[i]))
  BY <1>2, <1>3
<1>8. (\A i \in DOMAIN s.plates : ValidPlate(s.plates[i]))
      <=> (\A i \in DOMAIN c.plates : ValidPlate(c.plates[i]))
  BY <1>2, <1>4
<1> QED BY <1>5, <1>6, <1>7, <1>8 DEF Accepts

LEMMA AsksForTheSame ==
  ASSUME NEW s \in StreamSettings, NEW c \in StreamSettings, Alike(s, c)
  PROVE  /\ FieldsWithKey(c) = {} => (Accepts(s) <=> Accepts(c))
         /\ Outputs(Arrays(s)) = Outputs(Arrays(c))
         /\ GroupPaths(s) = GroupPaths(c)
<1>1. Outputs(Arrays(s)) = Outputs(Arrays(c))
  BY ArraysType, EntriesAlike, OutputsAlike
<1>2. Tree(s) = Tree(c)
  BY ArraysType, EntriesAlike, TreesAlike
<1>3. GroupPaths(s) = GroupPaths(c)
  BY <1>2 DEF GroupPaths
<1> QED BY <1>1, <1>3, AcceptsAlike

\* Settings that went through dump and load, any number of times and in either
\* format, and through any number of streams, ask for the same arrays and groups
\* as those the caller wrote, and are accepted when those are
\* (settings.io.cpp, zarr.stream.cpp).
THEOREM SettingsRoundTrip == Spec => []RoundTrip
<1>1. Init => Held
  BY DEF Init, Held
<1>2. OwnerInv => RoundTrip
  <2>1. SUFFICES ASSUME Kept, settings # NoSettings
                 PROVE  /\ FieldsWithKey(config) = {} => (Accepts(settings) <=> Accepts(config))
                        /\ Outputs(Arrays(settings)) = Outputs(Arrays(config))
                        /\ GroupPaths(settings) = GroupPaths(config)
    BY DEF OwnerInv, RoundTrip
  <2>2. settings \in StreamSettings /\ config \in StreamSettings /\ Alike(settings, config)
    BY <2>1, SettingsAssumption DEF Kept
  <2> QED BY <2>2, AsksForTheSame
<1> QED BY <1>1, <1>2, OwnerInit, OwnerNext, PTL DEF Spec
-----------------------------------------------------------------------------
(* Chunks in memory *)

\* Product is a fold over a set, that takes its elements as CHOOSE hands them out.
Chosen(T) == CHOOSE x \in T : TRUE
Times(a, b) == a * b
\* Sets of at most n elements.
Upto(S, n) == {T \in SUBSET S : Cardinality(T) <= n}
\* g is the product of the values at D, for every set of at most n of them.
Multiplied(g, D, S, n) ==
    g = [T \in Upto(S, n) |->
           IF T = {} THEN 1 ELSE Times(ChunksAlong(D[Chosen(T)]), g[T \ {Chosen(T)}])]

\* A set without the element that is chosen of it.
LEMMA WithoutChosen ==
  ASSUME NEW S, IsFiniteSet(S), NEW n \in Nat, NEW T \in Upto(S, n + 1), T # {}
  PROVE  Chosen(T) \in T /\ T \ {Chosen(T)} \in Upto(S, n)
<1>1. Chosen(T) \in T
  BY DEF Chosen
<1>2. IsFiniteSet(T)
  BY FS_Subset DEF Upto
<1>3. Cardinality(T \ {Chosen(T)}) = Cardinality(T) - 1 /\ Cardinality(T) \in Nat
  BY <1>1, <1>2, FS_RemoveElement, FS_CardinalityType
<1>4. Cardinality(T) <= n + 1 /\ T \subseteq S
  BY DEF Upto
<1>5. Cardinality(T \ {Chosen(T)}) <= n
  BY <1>3, <1>4
<1> QED BY <1>1, <1>4, <1>5 DEF Upto

\* There are such products, for any number of elements.
LEMMA MultipliedExists ==
  ASSUME NEW D, NEW S, IsFiniteSet(S), NEW n \in Nat
  PROVE  \E g : Multiplied(g, D, S, n)
<1> DEFINE M == {m \in Nat : \E g : Multiplied(g, D, S, m)}
<1>1. 0 \in M
  <2> DEFINE g == [T \in Upto(S, 0) |-> 1]
  <2>1. \A T \in Upto(S, 0) : T = {}
    <3>1. TAKE T \in Upto(S, 0)
    <3>2. IsFiniteSet(T) /\ Cardinality(T) <= 0
      BY FS_Subset DEF Upto
    <3>3. Cardinality(T) \in Nat
      BY <3>2, FS_CardinalityType
    <3> QED BY <3>2, <3>3, FS_EmptySet
  <2>2. Multiplied(g, D, S, 0)
    BY <2>1 DEF Multiplied
  <2> QED BY <2>2
<1>2. ASSUME NEW m \in Nat, m \in M PROVE m + 1 \in M
  <2>1. PICK g : Multiplied(g, D, S, m)
    BY <1>2
  <2> DEFINE h == [T \in Upto(S, m + 1) |->
                     IF T = {} THEN 1
                     ELSE Times(ChunksAlong(D[Chosen(T)]), g[T \ {Chosen(T)}])]
  <2>2. \A T \in Upto(S, m) : T \in Upto(S, m + 1)
    <3>1. TAKE T \in Upto(S, m)
    <3>2. IsFiniteSet(T) /\ Cardinality(T) <= m /\ T \subseteq S
      BY FS_Subset DEF Upto
    <3>3. Cardinality(T) \in Nat
      BY <3>2, FS_CardinalityType
    <3>4. Cardinality(T) <= m + 1
      BY <3>2, <3>3
    <3> QED BY <3>2, <3>4 DEF Upto
  <2>3. \A T \in Upto(S, m) : h[T] = g[T]
    <3>1. TAKE T \in Upto(S, m)
    <3>2. h[T] = IF T = {} THEN 1
                 ELSE Times(ChunksAlong(D[Chosen(T)]), g[T \ {Chosen(T)}])
      BY <2>2
    <3>3. g[T] = IF T = {} THEN 1
                 ELSE Times(ChunksAlong(D[Chosen(T)]), g[T \ {Chosen(T)}])
      BY <2>1 DEF Multiplied
    <3> QED BY <3>2, <3>3
  <2>4. \A T \in Upto(S, m + 1) : T # {} => h[T \ {Chosen(T)}] = g[T \ {Chosen(T)}]
    <3> HIDE DEF h
    <3> QED BY <2>3, WithoutChosen
  <2>5. Multiplied(h, D, S, m + 1)
    <3> HIDE DEF M
    <3> QED BY <2>4 DEF Multiplied
  <2> QED BY <2>5
<1> HIDE DEF M
<1>3. n \in M
  BY <1>1, <1>2, NatInd
<1> QED BY <1>3 DEF M

\* The count of chunks is one of them.
LEMMA ChunksByMultiplying ==
  ASSUME NEW D, Len(D) \in Nat
  PROVE  \E g : /\ Multiplied(g, D, 2 .. Len(D), Cardinality(2 .. Len(D)))
                /\ ChunksInMemory(D) = g[2 .. Len(D)]
<1> DEFINE S == 2 .. Len(D)
<1>1. IsFiniteSet(S) /\ Cardinality(S) \in Nat
  BY FS_Interval, FS_CardinalityType
<1>2. Upto(S, Cardinality(S)) = SUBSET S
  <2>1. \A T \in SUBSET S : Cardinality(T) <= Cardinality(S)
    BY <1>1, FS_Subset
  <2> QED BY <2>1 DEF Upto
<1> DEFINE Q(g) == g = [T \in SUBSET S |->
                          IF T = {} THEN 1
                          ELSE ChunksAlong(D[CHOOSE x \in T : TRUE])
                               * g[T \ {CHOOSE x \in T : TRUE}]]
           iter == CHOOSE g : Q(g)
<1>3. ChunksInMemory(D) = iter[S]
  BY DEF ChunksInMemory, Product, MapThenFoldSet
<1>4. \A g : Multiplied(g, D, S, Cardinality(S)) <=> Q(g)
  BY <1>2 DEF Multiplied, Times, Chosen
<1>5. \E g : Q(g)
  BY <1>1, <1>4, MultipliedExists
<1> HIDE DEF Q
<1>6. Q(iter)
  BY <1>5
<1> QED BY <1>3, <1>4, <1>6

\* A product of positive numbers is positive.
LEMMA ProductOfPositive ==
  ASSUME NEW a \in Nat, NEW b \in Nat, a # 0, b # 0
  PROVE  Times(a, b) \in Nat /\ Times(a, b) # 0
BY DEF Times

\* So is what is multiplied.
LEMMA PartsPositive ==
  ASSUME NEW size \in Nat, NEW part \in Nat, size # 0, part # 0
  PROVE  Parts(size, part) \in Nat /\ Parts(size, part) # 0
<1>1. (size + part - 1) >= part /\ size + part - 1 \in Nat
  OBVIOUS
<1>2. \A n \in Nat : n >= part => n \div part \in Nat /\ n \div part # 0
  OBVIOUS
<1> QED BY <1>1, <1>2 DEF Parts

\* A valid array has chunks in memory unless its first dimension of two has no
\* size: the constructor of Array looks at nothing else.
LEMMA ChunksNonzero ==
  ASSUME NEW D, Len(D) \in Nat,
         \A i \in 2 .. Len(D) : /\ D[i].size \in Nat /\ D[i].size # 0
                                /\ D[i].chunk \in Nat /\ D[i].chunk # 0
  PROVE  ChunksInMemory(D) # 0
<1> DEFINE S == 2 .. Len(D)  c == Cardinality(S)
<1>1. IsFiniteSet(S) /\ c \in Nat
  BY FS_Interval, FS_CardinalityType
<1>2. PICK g : Multiplied(g, D, S, c) /\ ChunksInMemory(D) = g[S]
  BY ChunksByMultiplying
<1>3. \A i \in S : ChunksAlong(D[i]) \in Nat /\ ChunksAlong(D[i]) # 0
  BY PartsPositive DEF ChunksAlong
<1> DEFINE M == {m \in Nat : m <= c => \A T \in Upto(S, m) : g[T] \in Nat /\ g[T] # 0}
<1> HIDE DEF S, c
<1>4. \A T \in Upto(S, c) : g[T] = IF T = {} THEN 1
                 ELSE Times(ChunksAlong(D[Chosen(T)]), g[T \ {Chosen(T)}])
  BY <1>2 DEF Multiplied
<1>5. \A m \in Nat : m <= c => \A T \in Upto(S, m) : T \in Upto(S, c)
  <2> SUFFICES ASSUME NEW m \in Nat, m <= c, NEW T \in Upto(S, m) PROVE T \in Upto(S, c)
    OBVIOUS
  <2>1. IsFiniteSet(T) /\ Cardinality(T) <= m /\ T \subseteq S
    BY <1>1, FS_Subset DEF Upto
  <2>2. Cardinality(T) \in Nat
    BY <2>1, FS_CardinalityType
  <2>3. Cardinality(T) <= c
    BY <1>1, <2>1, <2>2
  <2> QED BY <2>1, <2>3 DEF Upto
<1>6. 0 \in M
  <2> SUFFICES ASSUME NEW T \in Upto(S, 0) PROVE g[T] \in Nat /\ g[T] # 0
    OBVIOUS
  <2>1. IsFiniteSet(T) /\ Cardinality(T) <= 0
    BY <1>1, FS_Subset DEF Upto
  <2>2. T = {}
    BY <2>1, FS_CardinalityType, FS_EmptySet
  <2>3. T \in Upto(S, c)
    BY <1>1, <1>5
  <2> QED BY <1>4, <2>2, <2>3
<1>7. ASSUME NEW m \in Nat, m \in M PROVE m + 1 \in M
  <2> SUFFICES ASSUME m + 1 <= c, NEW T \in Upto(S, m + 1) PROVE g[T] \in Nat /\ g[T] # 0
    OBVIOUS
  <2>1. T \in Upto(S, c) /\ m <= c
    BY <1>1, <1>5
  <2>2. CASE T = {}
    <3>1. g[T] = 1
      BY <1>4, <2>1, <2>2
    <3> QED BY <3>1
  <2>3. CASE T # {}
    <3>1. Chosen(T) \in T /\ T \ {Chosen(T)} \in Upto(S, m) /\ T \subseteq S
      BY <1>1, <2>3, WithoutChosen DEF Upto
    <3>2. g[T \ {Chosen(T)}] \in Nat /\ g[T \ {Chosen(T)}] # 0
      BY <1>7, <2>1, <3>1
    <3>3. ChunksAlong(D[Chosen(T)]) \in Nat /\ ChunksAlong(D[Chosen(T)]) # 0
      BY <1>3, <3>1
    <3>4. g[T] = Times(ChunksAlong(D[Chosen(T)]), g[T \ {Chosen(T)}])
      BY <1>4, <2>1, <2>3
    <3> QED BY <3>2, <3>3, <3>4, ProductOfPositive
  <2> QED BY <2>2, <2>3
<1> HIDE DEF M
<1>8. c \in M
  BY <1>1, <1>6, <1>7, NatInd
<1>9. S \in Upto(S, c)
  BY <1>1 DEF Upto, c
<1> QED BY <1>1, <1>2, <1>8, <1>9 DEF M
-----------------------------------------------------------------------------
(* Arrays that throw *)

\* A dimension in front of two others.
LEMMA SingletonFirst ==
  ASSUME NEW S, NEW d \in Seq(S), Len(d) = 2, NEW x
  PROVE  /\ DOMAIN (<<x>> \o d) = 1 .. 3 /\ Len(<<x>> \o d) = 3
         /\ (<<x>> \o d)[2] = d[1] /\ (<<x>> \o d)[3] = d[2]
<1> DEFINE T == S \cup {x}  u == <<x>>
<1>1. d \in Seq(T) /\ u \in Seq(T) /\ Len(u) = 1 /\ u[1] = x
  BY SeqMonotonic
<1> HIDE DEF T, u
<1>2. u \o d \in Seq(T) /\ Len(u \o d) = Len(u) + Len(d)
      /\ \A i \in 1 .. Len(u) + Len(d) :
            (u \o d)[i] = IF i <= Len(u) THEN u[i] ELSE d[i - Len(u)]
  BY <1>1, ConcatProperties, Zenon
<1> DEFINE r == u \o d
<1> HIDE DEF r
<1>3. r \in Seq(T) /\ Len(r) = 3 /\ \A i \in 1 .. 3 : r[i] = IF i <= 1 THEN u[i] ELSE d[i - 1]
  BY <1>1, <1>2 DEF r
<1>4. r[2] = d[2 - 1] /\ r[3] = d[3 - 1]
  BY <1>3
<1>5. DOMAIN r = 1 .. 3
  BY <1>3, LenProperties
<1> QED BY <1>3, <1>4, <1>5 DEF r, u

\* An array that throws has a first dimension of no size in two dimensions.
LEMMA ThrowsWithoutSize ==
  ASSUME NEW a \in ArraySettings, Sound(a), MakesDimensions(a), ArrayThrows(a)
  PROVE  Len(a.dims) = 2 /\ a.dims[1].size = 0
<1> SUFFICES ASSUME ~(Len(a.dims) = 2 /\ a.dims[1].size = 0) PROVE FALSE
  OBVIOUS
<1> DEFINE d == a.dims  w == WithSingleton(d)  base == BaseLevel(d, a.order)
<1>1. d \in Seq(DimensionSettings) /\ Len(d) \in Nat /\ Len(d) >= 2 /\ DOMAIN d = 1 .. Len(d)
      /\ a.order \in Seq(Nat) /\ IsInjective(a.order)
  <2>1. d \in Seq(DimensionSettings) /\ a.order \in Seq(Nat) /\ IsInjective(a.order)
    BY DEF ArraySettings
  <2>2. Len(d) \in Nat /\ DOMAIN d = 1 .. Len(d)
    BY <2>1, LenProperties
  <2>3. Len(d) >= 2
    BY DEF Sound
  <2> QED BY <2>1, <2>2, <2>3
<1>2. \A i \in 1 .. Len(d) : /\ d[i].size \in Nat /\ d[i].chunk \in Nat /\ d[i].chunk # 0
                             /\ i # 1 => d[i].size # 0
  <2>1. TAKE i \in 1 .. Len(d)
  <2>2. d[i] \in DimensionSettings
    BY <1>1, ElementOfSeq
  <2>3. ValidDimension(d[i], i = 1)
    BY DEF Sound
  <2> QED BY <2>2, <2>3 DEF DimensionSettings, ValidDimension
<1> HIDE DEF d
<1>3. /\ DOMAIN w = 1 .. Len(w) /\ Len(w) \in Nat
      /\ \A i \in 2 .. Len(w) : /\ w[i].size \in Nat /\ w[i].size # 0
                                /\ w[i].chunk \in Nat /\ w[i].chunk # 0
  <2>1. CASE Len(d) = 2
    <3>1. w = <<Singleton>> \o d
      BY <2>1 DEF WithSingleton
    <3>2. DOMAIN w = 1 .. 3 /\ Len(w) = 3 /\ w[2] = d[1] /\ w[3] = d[2]
      BY <1>1, <2>1, <3>1, SingletonFirst
    <3>3. d[1].size # 0
      BY <2>1 DEF d
    <3>4. 1 \in 1 .. Len(d) /\ 2 \in 1 .. Len(d)
      BY <2>1
    <3>5. \A i \in 2 .. 3 : i = 2 \/ i = 3
      OBVIOUS
    <3> HIDE DEF w
    <3>6. /\ w[2].size \in Nat /\ w[2].size # 0 /\ w[2].chunk \in Nat /\ w[2].chunk # 0
          /\ w[3].size \in Nat /\ w[3].size # 0 /\ w[3].chunk \in Nat /\ w[3].chunk # 0
      BY <1>2, <3>2, <3>3, <3>4
    <3> QED BY <3>2, <3>5, <3>6
  <2>2. CASE Len(d) # 2
    <3>1. w = d
      BY <2>2 DEF WithSingleton
    <3> QED BY <1>1, <1>2, <3>1
  <2> QED BY <2>1, <2>2
<1> HIDE DEF w
<1>4. /\ Len(base) \in Nat
      /\ \A i \in 2 .. Len(base) : /\ base[i].size \in Nat /\ base[i].size # 0
                                   /\ base[i].chunk \in Nat /\ base[i].chunk # 0
  <2>1. CASE a.order = <<>>
    <3>1. base = w
      BY <2>1 DEF BaseLevel, Stored, w
    <3> QED BY <1>3, <3>1
  <2>2. CASE a.order # <<>>
    <3>1. base = [i \in DOMAIN a.order |-> w[a.order[i]]]
      BY <2>2 DEF BaseLevel, Stored, w
    <3>2. MayStore(w, a.order)
      BY <2>2 DEF MakesDimensions, w, d
    <3>3. a.order \in [1 .. Len(w) -> 1 .. Len(w)] /\ a.order[1] = 1
      BY <1>3, <3>2 DEF MayStore
    <3> HIDE DEF base
    <3>4. DOMAIN base = 1 .. Len(w)
      BY <3>1, <3>3
    <3>5. base \in [1 .. Len(w) -> {w[j] : j \in 1 .. Len(w)}]
      BY <3>1, <3>3
    <3>6. Len(base) = Len(w)
      BY <1>3, <3>5, SeqDef, LenProperties
    <3>7. \A i \in 2 .. Len(w) : a.order[i] \in 2 .. Len(w)
      <4>1. TAKE i \in 2 .. Len(w)
      <4>2. i \in DOMAIN a.order /\ 1 \in DOMAIN a.order /\ i # 1
        BY <1>3, <3>3
      <4>3. a.order[i] # 1
        BY <1>1, <3>3, <4>2 DEF IsInjective
      <4> QED BY <1>3, <3>3, <4>2, <4>3
    <3>8. \A i \in 2 .. Len(w) : base[i] = w[a.order[i]]
      BY <1>3, <3>1, <3>3
    <3> QED BY <1>3, <3>6, <3>7, <3>8
  <2> QED BY <2>1, <2>2
<1> HIDE DEF base
<1>5. ChunksInMemory(base) # 0
  BY <1>4, ChunksNonzero
<1> QED BY <1>5 DEF ArrayThrows, base, d

\* The array of a field, and one of settings, among all arrays.
LEMMA FieldArrayIs ==
  ASSUME NEW s \in StreamSettings, NEW at \in AtIds(s)
  PROVE  \E w \in Range(Arrays(s)) : w.array = FieldAt(s.plates[at[1]], at[2]).array
<1> DEFINE p == s.plates[at[1]]  o == OfPlates(s)
<1>1. at[1] \in 1 .. Len(s.plates) /\ at[2] \in FieldIds(p) /\ p \in PlateSettings
  <2>1. s.plates \in Seq(PlateSettings) /\ at[1] \in 1 .. Len(s.plates)
    BY DEF StreamSettings, AtIds
  <2> QED BY <2>1, ElementOfSeq DEF AtIds
<1>2. at[2] \in Range(FieldsOf(p)) /\ FieldsOf(p) \in Seq(FieldIds(p))
  BY <1>1, FieldIsListed, FieldsOfType
<1>3. PICK n \in 1 .. Len(FieldsOf(p)) : FieldsOf(p)[n] = at[2]
  <2>1. DOMAIN FieldsOf(p) = 1 .. Len(FieldsOf(p))
    BY <1>2, LenProperties
  <2> QED BY <1>2, <2>1 DEF Range
<1> HIDE DEF p
<1>4. /\ PlateArrays(p) \in Seq(Entries) /\ n \in 1 .. Len(PlateArrays(p))
      /\ PlateArrays(p)[n].array = FieldAt(p, at[2]).array
  <2>1. PlateArrays(p)[n] = [key |-> FieldKey(p, FieldsOf(p)[n]),
                             array |-> FieldAt(p, FieldsOf(p)[n]).array, isHcs |-> TRUE]
    BY <1>1, <1>3, PlateArraysType
  <2>2. PlateArrays(p) \in Seq(Entries) /\ n \in 1 .. Len(PlateArrays(p))
    BY <1>1, <1>3, PlateArraysType
  <2> QED BY <1>3, <2>1, <2>2
<1>5. /\ o \in Seq(Seq(Entries)) /\ FlatArrays(s) \in Seq(Entries)
      /\ FlattenSeq(o) \in Seq(Entries) /\ Arrays(s) = FlatArrays(s) \o FlattenSeq(o)
      /\ Len(o) = Len(s.plates) /\ o[at[1]] = PlateArrays(p)
  <2>1. \A i \in 1 .. Len(s.plates) : o[i] = PlateArrays(s.plates[i])
    BY ArraysType
  <2> QED BY <1>1, <2>1, ArraysType, FlatArraysType DEF p
<1> HIDE DEF o
<1>6. PlateArrays(p)[n] \in ToSet(PlateArrays(p))
  <2>1. DOMAIN PlateArrays(p) = 1 .. Len(PlateArrays(p))
    BY <1>4, LenProperties
  <2> QED BY <1>4, <2>1 DEF ToSet
<1>7. PlateArrays(p)[n] \in ToSet(FlattenSeq(o))
  <2>1. ToSet(o[at[1]]) \subseteq ToSet(FlattenSeq(o))
    BY <1>1, <1>5, FlattenHas
  <2> QED BY <1>5, <1>6, <2>1
<1>8. PlateArrays(p)[n] \in ToSet(Arrays(s))
  BY <1>5, <1>7, ConcatSet
<1>9. PlateArrays(p)[n] \in Range(Arrays(s))
  BY <1>8 DEF ToSet, Range
<1> QED BY <1>4, <1>9 DEF p

LEMMA FlatArrayIs ==
  ASSUME NEW s \in StreamSettings, NEW i \in 1 .. Len(s.arrays)
  PROVE  \E w \in Range(Arrays(s)) : w.array = s.arrays[i]
<1> DEFINE o == FlattenSeq(OfPlates(s))  a == FlatArrays(s)
<1>1. /\ a \in Seq(Entries) /\ o \in Seq(Entries) /\ Arrays(s) = a \o o
      /\ Len(a) = Len(s.arrays) /\ a[i].array = s.arrays[i]
  <2>1. a[i] = [key |-> KeyBelow(<<>>, s.arrays[i].key), array |-> s.arrays[i],
                isHcs |-> FALSE]
    BY FlatArraysType
  <2> QED BY <2>1, ArraysType, FlatArraysType
<1> HIDE DEF a, o
<1>2. a[i] \in ToSet(a)
  <2>1. DOMAIN a = 1 .. Len(a)
    BY <1>1, LenProperties
  <2> QED BY <1>1, <2>1 DEF ToSet
<1>3. a[i] \in ToSet(Arrays(s))
  BY <1>1, <1>2, ConcatSet
<1>4. a[i] \in Range(Arrays(s))
  BY <1>3 DEF ToSet, Range
<1> QED BY <1>1, <1>4
-----------------------------------------------------------------------------
(* Settings that are refused late *)

\* What fails after the store is made is among what RefusedLate lists: an array
\* that throws,
LEMMA ThrowingArrayIsLate ==
  ASSUME config \in StreamSettings, NEW w \in Range(Arrays(config)), NEW a \in ArraySettings,
         NEW parent, ValidArray(a, parent), MakesDimensions(a), ArrayThrows(a),
         AlikeArray(a, w.array)
  PROVE  RefusedLate
<1>1. Len(a.dims) = 2 /\ a.dims[1].size = 0
  BY ThrowsWithoutSize, ValidArrayIs
<1>2. a.dims = w.array.dims
  BY DEF AlikeArray
<1> QED BY <1>1, <1>2 DEF RefusedLate

LEMMA LateArray ==
  ASSUME NEW s \in StreamSettings, config \in StreamSettings, Alike(s, config), Accepts(s),
         NEW i \in DOMAIN s.arrays, ArrayThrows(s.arrays[i])
  PROVE  RefusedLate
<1>1. s.arrays \in Seq(ArraySettings) /\ i \in 1 .. Len(s.arrays) /\ i \in 1 .. Len(config.arrays)
  <2>1. s.arrays \in Seq(ArraySettings) /\ Len(s.arrays) = Len(config.arrays)
    BY DEF StreamSettings, Alike
  <2> QED BY <2>1, LenProperties
<1>2. s.arrays[i] \in ArraySettings
  BY <1>1, ElementOfSeq
<1>3. AlikeArray(s.arrays[i], config.arrays[i])
  BY <1>1 DEF Alike
<1>4. PICK w \in Range(Arrays(config)) : w.array = config.arrays[i]
  BY <1>1, FlatArrayIs
<1>5. ValidArray(s.arrays[i], <<>>) /\ MakesDimensions(s.arrays[i])
  BY DEF Accepts
<1> QED BY <1>2, <1>3, <1>4, <1>5, ThrowingArrayIsLate

\* a field whose acquisition is not one of the plate,
LEMMA LateField ==
  ASSUME NEW s \in StreamSettings, config \in StreamSettings, Alike(s, config), Accepts(s),
         NEW at \in AtIds(s), ArrayThrows(FieldAt(s.plates[at[1]], at[2]).array)
  PROVE  RefusedLate
<1> DEFINE p == s.plates[at[1]]  q == config.plates[at[1]]  f == at[2]
           a == FieldAt(p, f).array
<1>1. at[1] \in 1 .. Len(s.plates) /\ at[1] \in DOMAIN s.plates /\ f \in FieldIds(p)
      /\ p \in PlateSettings
  <2>1. s.plates \in Seq(PlateSettings) /\ at[1] \in 1 .. Len(s.plates)
    BY DEF StreamSettings, AtIds
  <2> QED BY <2>1, ElementOfSeq, LenProperties DEF AtIds
<1>2. at \in AtIds(config)
  BY AlikeIds
<1>3. at[1] \in 1 .. Len(config.plates) /\ f \in FieldIds(q) /\ q \in PlateSettings
  <2>1. config.plates \in Seq(PlateSettings) /\ at[1] \in 1 .. Len(config.plates)
    BY <1>2 DEF StreamSettings, AtIds
  <2> QED BY <1>2, <2>1, ElementOfSeq DEF AtIds
<1>4. AlikePlate(p, q)
  BY <1>3 DEF Alike
<1>5. ValidPlate(p)
  BY <1>1 DEF Accepts
<1> HIDE DEF p, q, f
<1>6. f \in Range(FieldsOf(p))
  BY <1>1, FieldIsListed
<1>7. ValidArray(a, WellPath(p, p.wells[f[1]])) /\ MakesDimensions(a)
  BY <1>5, <1>6 DEF ValidPlate
<1>8. FieldAt(p, f) \in ImageSettings /\ AlikeImage(FieldAt(p, f), FieldAt(q, f))
  BY <1>1, <1>3, <1>4, FieldAlike
<1>9. a \in ArraySettings /\ AlikeArray(a, FieldAt(q, f).array)
  BY <1>8 DEF ImageSettings, AlikeImage
<1>10. PICK w \in Range(Arrays(config)) : w.array = FieldAt(q, f).array
  BY <1>2, FieldArrayIs DEF q, f
<1>11. ArrayThrows(a)
  BY DEF p, f
<1> HIDE DEF a
<1> QED BY <1>7, <1>9, <1>10, <1>11, ThrowingArrayIsLate

\* a plate that Plate does not accept,
LEMMA LatePlate ==
  ASSUME NEW s \in StreamSettings, config \in StreamSettings, Alike(s, config),
         NEW i \in 1 .. Len(s.plates), NEW unset,
         ~ PlateAccepts(s.plates[i], UsedBy(s.plates[i], unset))
  PROVE  RefusedLate
<1> DEFINE p == s.plates[i]  q == config.plates[i]
<1>1. /\ p \in PlateSettings /\ q \in PlateSettings /\ AlikePlate(p, q)
      /\ q \in Range(config.plates)
  <2>1. s.plates \in Seq(PlateSettings) /\ config.plates \in Seq(PlateSettings)
        /\ i \in 1 .. Len(config.plates) /\ AlikePlate(p, q)
    BY DEF StreamSettings, Alike
  <2> QED BY <2>1, ElementOfSeq, LenProperties DEF Range
<1>2. ~ PlateAccepts(p, UsedBy(p, unset))
  OBVIOUS
<1> HIDE DEF p, q
<1>3. p.rows = q.rows /\ p.cols = q.cols /\ p.acqs = q.acqs
  BY <1>1 DEF AlikePlate
<1>4. CASE ~ (GoodNames(p.rows) /\ GoodNames(p.cols))
  BY <1>1, <1>3, <1>4 DEF RefusedLate
<1>5. CASE ~ (UsedBy(p, unset) \subseteq Range(p.acqs))
  <2>1. PICK f \in Range(FieldsOf(p)) :
           (IF FieldAt(p, f).acq = None THEN unset ELSE FieldAt(p, f).acq) \notin Range(p.acqs)
    BY <1>5 DEF UsedBy
  <2>2. FieldsOf(p) = FieldsOf(q)
    BY <1>1, FieldsAlike
  <2>3. f \in FieldIds(q)
    <3>1. FieldsOf(q) \in Seq(FieldIds(q))
      BY <1>1, FieldsOfType
    <3>2. ToSet(FieldsOf(q)) \subseteq FieldIds(q)
      BY <3>1, ElementsIn
    <3> QED BY <2>1, <2>2, <3>2 DEF ToSet, Range
  <2>4. AlikeImage(FieldAt(p, f), FieldAt(q, f))
    BY <1>1, <2>3, FieldAlike
  <2>5. FieldAt(p, f).acq = FieldAt(q, f).acq
    BY <2>4 DEF AlikeImage
  <2>6. None \notin Range(q.acqs)
    <3>1. q.acqs \in Seq(Nat)
      BY <1>1 DEF PlateSettings
    <3>2. Range(q.acqs) \subseteq Nat
      BY <3>1 DEF Range
    <3> QED BY <3>2, SettingsAssumption
  <2>7. FieldAt(q, f).acq \notin Range(q.acqs)
    BY <1>3, <2>1, <2>5, <2>6
  <2> QED BY <1>1, <2>1, <2>2, <2>7 DEF RefusedLate
<1> QED BY <1>2, <1>4, <1>5 DEF PlateAccepts

\* or a field of view that is refused.
LEMMA LateFields ==
  ASSUME settings \in StreamSettings, config \in StreamSettings, Alike(settings, config),
         Accepts(settings), NEW unset, ~ FieldsTried(unset).ok
  PROVE  RefusedLate
<1> DEFINE all == AllFields(settings)
<1>1. PICK n \in DOMAIN all :
         \/ ArrayThrows(FieldAt(settings.plates[all[n][1]], all[n][2]).array)
         \/ ~ PlateAccepts(settings.plates[all[n][1]],
                           UsedBy(settings.plates[all[n][1]], unset))
  BY Zenon DEF FieldsTried
<1>2. all \in Seq(AtIds(settings))
  BY AllFieldsType
<1> HIDE DEF all
<1>3. all[n] \in AtIds(settings)
  BY <1>2, ElementOfSeq, LenProperties
<1>4. all[n][1] \in 1 .. Len(settings.plates)
  BY <1>3 DEF AtIds
<1> QED BY <1>1, <1>3, <1>4, LateField, LatePlate

\* The inductive invariant of RefusalKeepsStore: whatever is refused after the
\* old store is gone was accepted before.
LateInv ==
    /\ pc \in {"commit", "arrays", "plates"} => Accepts(settings)
    /\ pc \in {"none", "commit"} => ~lost
    /\ RefusalKeepsStore

\* A step of the caller, or one without a refusal, keeps that.
LEMMA LateUnchanged ==
  ASSUME LateInv, UNCHANGED <<config, settings>>, UNCHANGED <<pc, lost, ioFailed>>
  PROVE  LateInv'
<1> USE DEF LateInv
<1>1. RefusedLate' <=> RefusedLate
  BY DEF RefusedLate
<1>2. Accepts(settings)' <=> Accepts(settings)
  OBVIOUS
<1> QED BY <1>1, <1>2 DEF RefusalKeepsStore

LEMMA LateIdle ==
  ASSUME LateInv, pc \in {"none", "open"}, UNCHANGED <<pc, lost, ioFailed>>
  PROVE  LateInv'
BY DEF LateInv, RefusalKeepsStore

LEMMA LateNext == OwnerInv /\ Held /\ LateInv /\ [Next]_vars => LateInv'
<1> SUFFICES ASSUME OwnerInv, Held, LateInv, [Next]_vars PROVE LateInv'
  OBVIOUS
<1>a. pc \in {"commit", "arrays", "plates"} =>
         settings \in StreamSettings /\ config \in StreamSettings /\ Alike(settings, config)
  BY SettingsAssumption DEF OwnerInv, Kept, Held
<1>b. UNCHANGED config => (RefusedLate' <=> RefusedLate)
  BY DEF RefusedLate
<1>0. CASE UNCHANGED vars
  BY <1>0, LateUnchanged DEF vars, stream, made, caller
<1>1. CASE \/ StartBuilding \/ Load \/ LoadFails \/ GiveBackBuilt \/ GiveBackLoaded
           \/ \E slot \in ToSet(BuildLists(config)) : CreateList(slot)
           \/ \E format \in {"yaml", "json"} : Dump(format)
  <2>1. pc \in {"none", "open"} /\ UNCHANGED <<pc, lost, ioFailed>>
    BY <1>1 DEF StartBuilding, Load, LoadFails, GiveBackBuilt, GiveBackLoaded, CreateList, Dump,
                NoStream, Idle, stream, made
  <2> QED BY <2>1, LateIdle
<1>2. CASE CreateStream
  <2>1. ~lost /\ ~lost' /\ UNCHANGED settings
    BY <1>2 DEF CreateStream, NoStream, LateInv, caller
  <2>2. pc' = "refused" \/ (pc' = "commit" /\ Accepts(settings))
    BY <1>2 DEF CreateStream, Refuse
  <2>3. Accepts(settings) => Accepts(settings')
    BY <2>1
  <2> QED BY <2>1, <2>2, <2>3 DEF LateInv, RefusalKeepsStore
<1>3. CASE CommitStore
  <2>1. pc = "commit" /\ ~lost /\ UNCHANGED settings /\ Accepts(settings)
    BY <1>3 DEF CommitStore, LateInv, caller
  <2>2. pc' = "arrays" \/ (pc' = "refused" /\ (ioFailed' \/ ~lost'))
    BY <1>3, <2>1 DEF CommitStore, Refuse
  <2>3. Accepts(settings')
    BY <2>1
  <2> QED BY <2>2, <2>3 DEF LateInv, RefusalKeepsStore
<1>4. CASE ConfigureArrays
  <2>1. pc = "arrays" /\ UNCHANGED <<config, settings>> /\ Accepts(settings)
    BY <1>4 DEF ConfigureArrays, LateInv, caller
  <2>2. pc' = "plates" \/ (pc' = "refused" /\ RefusedLate)
    BY <1>4, <1>a, <2>1, LateArray DEF ConfigureArrays, Refuse
  <2>3. Accepts(settings')
    BY <2>1
  <2> QED BY <1>b, <2>1, <2>2, <2>3 DEF LateInv, RefusalKeepsStore
<1>5. ASSUME NEW unset \in UnsetIds, CommitPlates(unset) PROVE LateInv'
  <2>1. pc = "plates" /\ UNCHANGED config /\ Accepts(settings)
    BY <1>5 DEF CommitPlates, LateInv
  <2>2. pc' = "open" \/ (pc' = "refused" /\ ~ FieldsTried(unset).ok)
    BY <1>5, Zenon DEF CommitPlates, Refuse
  <2>3. pc' = "open" \/ (pc' = "refused" /\ RefusedLate)
    BY <1>a, <2>1, <2>2, LateFields
  <2> QED BY <1>b, <2>1, <2>3 DEF LateInv, RefusalKeepsStore
<1>6. CASE \/ \E o \in outputs : TakeFrames(o) \/ WriteCustomMetadata(o) \/ FinalizeArray(o)
           \/ Close \/ (\E p \in groups : WriteGroup(p)) \/ WrittenAll
  <2>1. pc' \in {"open", "finalize", "groups", "closed"}
    BY <1>6 DEF TakeFrames, WriteCustomMetadata, FinalizeArray, Close, WriteGroup, WrittenAll,
                Fail
  <2> QED BY <2>1 DEF LateInv, RefusalKeepsStore
<1>7. CASE Gone
  <2>1. pc' = "none" /\ ~lost'
    BY <1>7 DEF Gone
  <2> QED BY <2>1 DEF LateInv, RefusalKeepsStore
<1> QED BY <1>0, <1>1, <1>2, <1>3, <1>4, <1>5, <1>6, <1>7 DEF Next

\* A store that was to be overwritten is lost to refused settings only when the
\* file system failed or the settings are among those that are found out late, by
\* the constructors of Array and Plate (create_store_, zarr.stream.cpp).
THEOREM RefusedSettingsKeepStore == Spec => []RefusalKeepsStore
<1>1. Init => Held /\ LateInv
  BY DEF Init, Held, LateInv, RefusalKeepsStore
<1>2. LateInv => RefusalKeepsStore
  BY DEF LateInv
<1> QED BY <1>1, <1>2, OwnerInit, OwnerNext, LateNext, PTL DEF Spec
-----------------------------------------------------------------------------
(* Nodes *)

\* Keys without empty segments.
Paths == Seq(NoGaps)

\* A path ends with its last segment.
LEMMA PathBelow ==
  ASSUME NEW S, NEW p \in Seq(S), NEW x
  PROVE  LET q == p \o <<x>>
         IN  /\ Len(q) = Len(p) + 1 /\ Last(q) = x /\ Front(q) = p /\ q # <<>>
             /\ IsPrefix(p, q) /\ q[Len(p) + 1] = x
             /\ \A i \in 1 .. Len(p) : q[i] = p[i]
<1> DEFINE T == S \cup {x}  u == <<x>>
<1>1. p \in Seq(T) /\ u \in Seq(T) /\ Len(u) = 1 /\ u[1] = x /\ Len(p) \in Nat
  BY SeqMonotonic, LenProperties
<1> HIDE DEF T, u
<1>2. p \o u \in Seq(T) /\ Len(p \o u) = Len(p) + Len(u)
      /\ \A i \in 1 .. Len(p) + Len(u) :
            (p \o u)[i] = IF i <= Len(p) THEN p[i] ELSE u[i - Len(p)]
  BY <1>1, ConcatProperties, Zenon
<1> DEFINE q == p \o u
<1> HIDE DEF q
<1>3. q \in Seq(T) /\ Len(q) = Len(p) + 1
      /\ \A i \in 1 .. Len(p) + 1 : q[i] = IF i <= Len(p) THEN p[i] ELSE u[i - Len(p)]
  BY <1>1, <1>2 DEF q
<1>4. q[Len(p) + 1] = x
  <2>1. Len(p) + 1 \in 1 .. Len(p) + 1 /\ ~(Len(p) + 1 <= Len(p)) /\ (Len(p) + 1) - Len(p) = 1
    BY <1>1
  <2>2. q[Len(p) + 1] = u[(Len(p) + 1) - Len(p)]
    BY <1>3, <2>1
  <2> QED BY <1>1, <2>1, <2>2
<1>5. \A i \in 1 .. Len(p) : q[i] = p[i]
  BY <1>1, <1>3
<1>6. Last(q) = x /\ q # <<>>
  <2>1. Last(q) = q[Len(p) + 1]
    BY <1>3 DEF Last
  <2> QED BY <1>1, <1>3, <1>4, <2>1
<1>7. SubSeq(q, 1, Len(p)) = p
  <2>1. SubSeq(q, 1, Len(p)) \in Seq(T) /\ Len(SubSeq(q, 1, Len(p))) = Len(p)
        /\ \A i \in 1 .. Len(p) : SubSeq(q, 1, Len(p))[i] = q[i]
    BY <1>1, <1>3, SubSeqProperties
  <2>2. \A i \in 1 .. Len(p) : SubSeq(q, 1, Len(p))[i] = p[i]
    BY <1>5, <2>1
  <2> QED BY <1>1, <2>1, <2>2, SeqEqual
<1>8. Front(q) = p
  <2>1. Len(q) - 1 = Len(p)
    BY <1>1, <1>3
  <2> QED BY <1>7, <2>1 DEF Front
<1>9. SubSeq(p, 1, Len(p)) = p
  BY <1>1, SubSeqFull
<1>10. IsPrefix(p, q)
  BY <1>1, <1>3, <1>7, <1>9 DEF IsPrefix
<1> QED BY <1>3, <1>4, <1>5, <1>6, <1>8, <1>10 DEF q, u

\* The first segments of a path.
LEMMA FirstOfPath ==
  ASSUME NEW S, NEW q \in Seq(S), NEW n \in 0 .. Len(q)
  PROVE  LET p == SubSeq(q, 1, n)
         IN  p \in Seq(S) /\ Len(p) = n /\ \A i \in 1 .. n : p[i] = q[i]
<1> DEFINE p == SubSeq(q, 1, n)
<1>1. Len(q) \in Nat /\ n \in Nat /\ \A i \in 1 .. n : q[i] \in S
  <2>1. Len(q) \in Nat
    BY LenProperties
  <2>2. \A i \in 1 .. n : i \in 1 .. Len(q)
    BY <2>1
  <2> QED BY <2>1, <2>2, ElementOfSeq
<1>2. /\ p \in Seq(S) /\ Len(p) = (IF 1 <= n THEN n - 1 + 1 ELSE 0)
      /\ \A i \in 1 .. n - 1 + 1 : p[i] = q[1 + i - 1]
  BY <1>1, SubSeqProperties
<1> HIDE DEF p
<1>3. Len(p) = n
  BY <1>1, <1>2
<1>4. \A i \in 1 .. n : p[i] = q[i]
  <2>1. TAKE i \in 1 .. n
  <2>2. i \in 1 .. n - 1 + 1 /\ 1 + i - 1 = i
    BY <1>1
  <2> QED BY <1>2, <2>2
<1> QED BY <1>2, <1>3, <1>4 DEF p

\* The nodes on the way to an array.
LEMMA PrefixesAre ==
  ASSUME NEW S, NEW q \in Seq(S), NEW p \in Prefixes(q)
  PROVE  /\ p \in Seq(S) /\ Len(p) <= Len(q) /\ Len(p) \in Nat /\ IsPrefix(p, q)
         /\ \A i \in 1 .. Len(p) : p[i] = q[i]
         /\ p # <<>> => Front(p) \in Prefixes(q) /\ Front(p) \in Seq(S)
<1>1. PICK n \in 0 .. Len(q) : p = SubSeq(q, 1, n)
  BY DEF Prefixes
<1>2. Len(q) \in Nat
  BY LenProperties
<1>3. p \in Seq(S) /\ Len(p) = n /\ \A i \in 1 .. n : p[i] = q[i]
  BY <1>1, FirstOfPath
<1>4. SubSeq(p, 1, Len(p)) = p
  BY <1>3, SubSeqFull
<1>5. IsPrefix(p, q)
  BY <1>1, <1>2, <1>3, <1>4 DEF IsPrefix
<1>6. ASSUME p # <<>> PROVE Front(p) \in Prefixes(q) /\ Front(p) \in Seq(S)
  <2>1. n - 1 \in 0 .. Len(q) /\ n - 1 \in 0 .. Len(p)
    <3>1. n # 0
      BY <1>3, <1>6, EmptySeq
    <3> QED BY <1>2, <1>3, <3>1
  <2>2. Front(p) = SubSeq(p, 1, n - 1)
    BY <1>3 DEF Front
  <2> DEFINE f == SubSeq(p, 1, n - 1)  g == SubSeq(q, 1, n - 1)
  <2>3. f \in Seq(S) /\ Len(f) = n - 1 /\ \A i \in 1 .. n - 1 : f[i] = p[i]
    BY <1>3, <2>1, FirstOfPath
  <2>4. g \in Seq(S) /\ Len(g) = n - 1 /\ \A i \in 1 .. n - 1 : g[i] = q[i]
    BY <2>1, FirstOfPath
  <2> HIDE DEF f, g
  <2>5. \A i \in 1 .. n - 1 : f[i] = g[i]
    <3>1. TAKE i \in 1 .. n - 1
    <3>2. i \in 1 .. n
      BY <1>2
    <3> QED BY <1>3, <2>3, <2>4, <3>2
  <2>6. f = g
    BY <2>3, <2>4, <2>5, SeqEqual
  <2> QED BY <2>1, <2>2, <2>3, <2>6 DEF f, g, Prefixes
<1> QED BY <1>2, <1>3, <1>5, <1>6

LEMMA PrefixIs ==
  ASSUME NEW S, NEW q \in Seq(S), NEW p \in Seq(S), IsPrefix(p, q)
  PROVE  p \in Prefixes(q)
<1>1. Len(p) \in 0 .. Len(q)
  BY LenProperties DEF IsPrefix
<1>2. SubSeq(p, 1, Len(p)) = p
  BY SubSeqFull
<1>3. p = SubSeq(q, 1, Len(p))
  BY <1>2 DEF IsPrefix
<1> QED BY <1>1, <1>3 DEF Prefixes

\* They begin with the root.
LEMMA PathIsPrefix ==
  ASSUME NEW S, NEW q \in Seq(S)
  PROVE  q \in Prefixes(q) /\ IsPrefix(q, q) /\ <<>> \in Prefixes(q)
<1>1. Len(q) \in Nat
  BY LenProperties
<1>2. q = SubSeq(q, 1, Len(q)) /\ <<>> = SubSeq(q, 1, 0)
  BY SubSeqFull, SubSeqEmpty
<1>3. Len(q) \in 0 .. Len(q) /\ 0 \in 0 .. Len(q) /\ Len(q) <= Len(q)
  BY <1>1
<1>4. IsPrefix(q, q)
  BY <1>3 DEF IsPrefix
<1> DEFINE f == SubSeq(q, 1, Len(q))  e == SubSeq(q, 1, 0)
<1>5. f \in Prefixes(q) /\ e \in Prefixes(q)
  BY <1>3 DEF Prefixes
<1>6. q = f /\ <<>> = e
  BY <1>2
<1> HIDE DEF f, e
<1> QED BY <1>4, <1>5, <1>6

\* The nodes of the tree are these ways, and none ends outside of it.
LEMMA TreeIs ==
  ASSUME NEW c \in StreamSettings
  PROVE  /\ Arrays(c) \in Seq(Entries) /\ DOMAIN Arrays(c) = 1 .. Len(Arrays(c))
         /\ \A n \in DOMAIN Arrays(c) : Arrays(c)[n].key \in Paths /\ n \in Nat
         /\ DOMAIN Tree(c) \subseteq Paths /\ <<>> \in DOMAIN Tree(c)
         /\ \A p \in DOMAIN Tree(c) : p # <<>> =>
               /\ Front(p) \in DOMAIN Tree(c)
               /\ \E n \in DOMAIN Arrays(c) : p \in Prefixes(Arrays(c)[n].key)
         /\ \A n \in DOMAIN Arrays(c) : \A p \in Prefixes(Arrays(c)[n].key) :
               p \in DOMAIN Tree(c)
         /\ \A p \in DOMAIN Tree(c) : Tree(c)[p] = NodeKind(Arrays(c), p)
<1> DEFINE a == Arrays(c)
<1>1. a \in Seq(Entries) /\ DOMAIN a = 1 .. Len(a)
  BY ArraysType, LenProperties
<1>2. DOMAIN Tree(c) = {<<>>} \cup UNION {Prefixes(w.key) : w \in Range(a)}
      /\ \A p \in DOMAIN Tree(c) : Tree(c)[p] = NodeKind(a, p)
  BY DEF Tree
<1> HIDE DEF a
<1>3. \A n \in DOMAIN a : a[n].key \in Paths /\ n \in Nat
  <2>1. TAKE n \in DOMAIN a
  <2>2. a[n] \in Entries /\ n \in Nat
    BY <1>1, ElementOfSeq
  <2> QED BY <2>2 DEF Entries, Paths
<1>4. \A w : w \in Range(a) <=> \E n \in DOMAIN a : w = a[n]
  BY DEF Range
<1>5. \A p \in DOMAIN Tree(c) : p # <<>> => \E n \in DOMAIN a : p \in Prefixes(a[n].key)
  BY <1>2, <1>4
<1>6. \A n \in DOMAIN a : \A p \in Prefixes(a[n].key) : p \in DOMAIN Tree(c)
  BY <1>2, <1>4
<1>7. <<>> \in DOMAIN Tree(c) /\ <<>> \in Paths
  BY <1>2, EmptySeq DEF Paths
<1>8. \A n \in DOMAIN a : \A p \in Prefixes(a[n].key) :
         p \in Paths /\ (p # <<>> => Front(p) \in Prefixes(a[n].key))
  BY <1>3, PrefixesAre DEF Paths
<1>9. DOMAIN Tree(c) \subseteq Paths
  BY <1>5, <1>7, <1>8
<1>10. \A p \in DOMAIN Tree(c) : p # <<>> => Front(p) \in DOMAIN Tree(c)
  BY <1>5, <1>6, <1>8
<1> QED BY <1>1, <1>2, <1>3, <1>5, <1>6, <1>7, <1>9, <1>10 DEF a

\* What a stream is made of when its settings are accepted.
Made == config \in StreamSettings /\ ValidStructure(config)

\* A node is an array when one has its path.
LEMMA NodeKindIs ==
  ASSUME NEW arrays, NEW p
  PROVE  /\ NodeKind(arrays, p) # "directory" => \E n \in DOMAIN arrays : arrays[n].key = p
         /\ NodeKind(arrays, p) \in {"array", "multiscale", "directory"}
<1> DEFINE at == {n \in DOMAIN arrays : arrays[n].key = p}
           first == IF p = <<>> THEN Max(at)
                   ELSE Min({n \in DOMAIN arrays : IsPrefix(p, arrays[n].key)})
<1>1. NodeKind(arrays, p) = IF at # {} /\ first \in at THEN Kind(arrays[first]) ELSE "directory"
  BY DEF NodeKind
<1>2. at # {} => \E n \in DOMAIN arrays : arrays[n].key = p
  OBVIOUS
<1> HIDE DEF at, first
<1> QED BY <1>1, <1>2 DEF Kind

LEMMA ArrayNodeKind ==
  ASSUME Made, Orderly, NEW n \in DOMAIN Arrays(config)
  PROVE  NodeKind(Arrays(config), Arrays(config)[n].key) = Kind(Arrays(config)[n])
<1> DEFINE a == Arrays(config)  p == a[n].key
           at == {m \in DOMAIN a : a[m].key = p}
           through == {m \in DOMAIN a : IsPrefix(p, a[m].key)}
           first == IF p = <<>> THEN Max(at) ELSE Min(through)
<1>1. /\ \A m \in DOMAIN a : a[m].key \in Paths /\ m \in Nat
      /\ \A m, k \in DOMAIN a : a[m].key = a[k].key => m = k
      /\ \A m, k \in DOMAIN a : m < k => ~IsStrictPrefix(a[k].key, a[m].key)
  BY TreeIs DEF Made, Orderly, ValidStructure
<1>2. n \in DOMAIN a /\ NodeKind(a, p) = IF at # {} /\ first \in at THEN Kind(a[first]) ELSE "directory"
  BY DEF NodeKind
<1> HIDE DEF a
<1>3. at = {n}
  BY <1>1, <1>2
<1>4. n \in through
  BY <1>1, <1>2, PathIsPrefix DEF Paths
<1>5. \A m \in through : n <= m /\ m \in Nat
  <2>1. SUFFICES ASSUME NEW m \in DOMAIN a, IsPrefix(p, a[m].key), ~(n <= m) PROVE FALSE
    BY <1>1
  <2>2. m < n
    BY <1>1, <1>2, <2>1
  <2>3. p # a[m].key
    BY <1>1, <1>2, <2>2
  <2> QED BY <1>1, <1>2, <2>1, <2>2, <2>3 DEF IsStrictPrefix
<1> HIDE DEF at, through, p
<1>6. n \in Nat
  BY <1>1, <1>2
<1>7. Max(at) = n
  BY <1>3, <1>6 DEF Max
<1>8. Min(through) = n
  <2>1. \A x \in through : (\A y \in through : x =< y) => x = n
    BY <1>4, <1>5, <1>6
  <2>2. \E x \in through : \A y \in through : x =< y
    BY <1>4, <1>5
  <2> QED BY <2>1, <2>2 DEF Min
<1>9. first = n
  BY <1>7, <1>8
<1> QED BY <1>2, <1>3, <1>9 DEF a, p

\* Nothing of the tree lies where a level is.
LEMMA LevelsApart ==
  ASSUME Made, Orderly, NEW n \in DOMAIN Arrays(config), NEW x \in NumericNames
  PROVE  Arrays(config)[n].key \o <<x>> \notin DOMAIN Tree(config)
<1> DEFINE a == Arrays(config)  tree == Tree(config)  k == a[n].key  q == k \o <<x>>
<1> SUFFICES ASSUME q \in DOMAIN tree PROVE FALSE
  OBVIOUS
<1>1. k \in Paths /\ k \in DOMAIN tree /\ tree[k] = NodeKind(a, k)
  <2>1. k \in Paths /\ \A p \in Prefixes(k) : p \in DOMAIN tree
    BY TreeIs DEF Made
  <2>2. k \in Prefixes(k)
    BY <2>1, PathIsPrefix DEF Paths
  <2> QED BY <2>1, <2>2, TreeIs DEF Made
<1>2. tree[k] \in {"array", "multiscale"}
  BY <1>1, ArrayNodeKind DEF Kind
<1>3. MayHaveChildren(tree, k)
  BY <1>1 DEF Made, ValidStructure
<1> HIDE DEF tree, k, a
<1>4. Len(q) = Len(k) + 1 /\ IsPrefix(k, q) /\ Last(q) = x
  BY <1>1, PathBelow DEF Paths
<1> HIDE DEF q
<1>5. q \in Below(k, tree)
  BY <1>4 DEF Below
<1> QED BY <1>2, <1>3, <1>4, <1>5 DEF MayHaveChildren

\* The outputs of a stream are those of its settings, one for each key.
LEMMA OutputsAre ==
  ASSUME Made, config \in Configs
  PROVE  /\ \A o \in Outputs(Arrays(config)) :
               /\ o.key \in Paths /\ o.key \in DOMAIN Tree(config)
               /\ \E n \in DOMAIN Arrays(config) : o.key = Arrays(config)[n].key
               /\ \A l \in DOMAIN o.levels : /\ ToString(l - 1) \in NumericNames
                                             /\ ToString(l - 1) \notin MetadataNames
                                             /\ ToString(l - 1) # ""
         /\ \A o, q \in Outputs(Arrays(config)) : o.key = q.key => o = q
         /\ \A n \in DOMAIN Arrays(config) :
               \E o \in Outputs(Arrays(config)) : o.key = Arrays(config)[n].key
<1> DEFINE a == Arrays(config)
<1>1. \A o : o \in Outputs(a) <=> \E n \in DOMAIN a : o = Output(a[n])
  BY DEF Outputs, Range
<1>2. \A w : Output(w).key = w.key
  BY DEF Output
<1>3. \A m, n \in DOMAIN a : a[m].key = a[n].key => m = n
  BY DEF Made, ValidStructure
<1>4. \A n \in DOMAIN a : a[n].key \in Paths /\ a[n].key \in DOMAIN Tree(config)
  <2>1. TAKE n \in DOMAIN a
  <2>2. a[n].key \in Paths /\ \A p \in Prefixes(a[n].key) : p \in DOMAIN Tree(config)
    BY TreeIs DEF Made
  <2> QED BY <2>2, PathIsPrefix DEF Paths
<1>5. \A o \in Outputs(a) : \A l \in DOMAIN o.levels :
         ToString(l - 1) \in NumericNames \ (MetadataNames \cup {""})
  BY LevelsAssumption
<1> HIDE DEF a
<1>6. \A o, q \in Outputs(a) : o.key = q.key => o = q
  BY <1>1, <1>2, <1>3
<1>7. \A o \in Outputs(a) : \E n \in DOMAIN a : o.key = a[n].key
  BY <1>1, <1>2
<1>8. \A n \in DOMAIN a : \E o \in Outputs(a) : o.key = a[n].key
  BY <1>1, <1>2
<1> QED BY <1>4, <1>5, <1>6, <1>7, <1>8 DEF a

\* No segment of a node is the name of a metadata file.
LEMMA TreeNodes ==
  ASSUME Made, Orderly, NEW p \in DOMAIN Tree(config)
  PROVE  \A i \in DOMAIN p : p[i] \notin MetadataNames
<1> DEFINE a == Arrays(config)
<1>1. p \in Paths /\ DOMAIN p = 1 .. Len(p)
  BY TreeIs, LenProperties DEF Made, Paths
<1>2. CASE p = <<>>
  BY <1>2
<1>3. CASE p # <<>>
  <2>1. PICK n \in DOMAIN a : p \in Prefixes(a[n].key)
    BY <1>3, TreeIs DEF Made
  <2> DEFINE k == a[n].key
  <2>2. k \in Paths
    BY <2>1, TreeIs DEF Made
  <2>3. /\ k # <<>> => Head(k) \notin MetadataNames
        /\ \A i \in 2 .. Len(k) : k[i] \notin MetadataNames
    BY <2>1 DEF Made, ValidStructure, Orderly
  <2> HIDE DEF k
  <2>4. Len(p) <= Len(k) /\ (\A i \in 1 .. Len(p) : p[i] = k[i]) /\ Len(k) \in Nat /\ Len(p) \in Nat
    <3>1. p \in Prefixes(k)
      BY <2>1 DEF k
    <3> QED BY <2>2, <3>1, PrefixesAre, LenProperties DEF Paths
  <2>5. SUFFICES ASSUME NEW i \in 1 .. Len(p) PROVE k[i] \notin MetadataNames
    BY <1>1, <2>4
  <2>6. k # <<>>
    BY <2>2, <2>4, EmptySeq DEF Paths
  <2>7. Head(k) = k[1]
    BY <2>2, <2>6 DEF Paths
  <2>8. i = 1 \/ i \in 2 .. Len(k)
    BY <2>4, <2>5
  <2> QED BY <2>3, <2>6, <2>7, <2>8
<1> QED BY <1>2, <1>3

\* Valid structures keep their nodes apart, which is NodesDisjoint.
LEMMA NodesApart ==
  ASSUME Made, Orderly, config \in Configs,
         outputs = Outputs(Arrays(config)), groups = GroupPaths(config)
  PROVE  /\ \A o \in outputs : o.key \notin groups /\ LevelPaths(o) \cap groups = {}
         /\ \A o, q \in outputs : o # q =>
               ({o.key} \cup LevelPaths(o)) \cap ({q.key} \cup LevelPaths(q)) = {}
         /\ \A p \in NodePaths : \A i \in DOMAIN p : p[i] \notin MetadataNames
         /\ \A p \in NodePaths : p # <<>> => Front(p) \in NodePaths
<1> DEFINE a == Arrays(config)  tree == Tree(config)
<1>1. \A p : p \in groups <=> p \in DOMAIN tree /\ tree[p] = "directory"
  BY DEF GroupPaths
<1>2. /\ \A o \in outputs :
            /\ o.key \in Paths /\ o.key \in DOMAIN tree
            /\ \E n \in DOMAIN a : o.key = a[n].key
            /\ \A l \in DOMAIN o.levels : /\ ToString(l - 1) \in NumericNames
                                          /\ ToString(l - 1) \notin MetadataNames
      /\ \A o, q \in outputs : o.key = q.key => o = q
      /\ \A n \in DOMAIN a : \E o \in outputs : o.key = a[n].key
  BY OutputsAre
<1>3. \A n \in DOMAIN a : \A x \in NumericNames : a[n].key \o <<x>> \notin DOMAIN tree
  BY LevelsApart
<1>4. \A n \in DOMAIN a : NodeKind(a, a[n].key) # "directory"
  BY ArrayNodeKind DEF Kind
<1>5. /\ \A p \in DOMAIN tree : tree[p] = NodeKind(a, p)
      /\ \A p \in DOMAIN tree : p # <<>> => Front(p) \in DOMAIN tree
  BY TreeIs DEF Made
<1>6. \A p \in DOMAIN tree : NodeKind(a, p) # "directory" => \E n \in DOMAIN a : a[n].key = p
  BY NodeKindIs
<1>7. \A p \in DOMAIN tree : \A i \in DOMAIN p : p[i] \notin MetadataNames
  BY TreeNodes
<1> HIDE DEF a, tree
<1>8. \A o \in outputs : \A p \in LevelPaths(o) :
         /\ p \notin DOMAIN tree /\ p # <<>> /\ Front(p) = o.key
         /\ \A i \in DOMAIN p : p[i] \notin MetadataNames
  <2> SUFFICES ASSUME NEW o \in outputs, NEW p \in LevelPaths(o)
               PROVE  /\ p \notin DOMAIN tree /\ p # <<>> /\ Front(p) = o.key
                      /\ \A i \in DOMAIN p : p[i] \notin MetadataNames
    OBVIOUS
  <2>1. PICK l \in DOMAIN o.levels : p = o.key \o <<ToString(l - 1)>>
    BY DEF LevelPaths
  <2> DEFINE x == ToString(l - 1)  k == o.key
  <2>2. x \in NumericNames /\ x \notin MetadataNames /\ k \in Paths /\ k \in DOMAIN tree
    BY <1>2
  <2>3. \A i \in DOMAIN k : k[i] \notin MetadataNames
    BY <1>7, <2>2
  <2> HIDE DEF x, k
  <2>4. p = k \o <<x>>
    BY <2>1 DEF x, k
  <2>5. /\ Len(p) = Len(k) + 1 /\ Front(p) = k /\ p # <<>>
        /\ p[Len(k) + 1] = x /\ \A i \in 1 .. Len(k) : p[i] = k[i]
    BY <2>2, <2>4, PathBelow DEF Paths
  <2>6. DOMAIN k = 1 .. Len(k) /\ Len(k) \in Nat
    BY <2>2, LenProperties DEF Paths
  <2>7. p \in Seq(NoGaps \cup {x})
    <3>1. k \in Seq(NoGaps \cup {x}) /\ <<x>> \in Seq(NoGaps \cup {x})
      BY <2>2, SeqMonotonic DEF Paths
    <3> QED BY <2>4, <3>1, ConcatProperties
  <2>8. DOMAIN p = 1 .. Len(k) + 1
    BY <2>5, <2>7, LenProperties
  <2>9. \A i \in DOMAIN p : p[i] \notin MetadataNames
    <3>1. TAKE i \in DOMAIN p
    <3>2. i \in 1 .. Len(k) \/ i = Len(k) + 1
      BY <2>6, <2>8
    <3> QED BY <2>2, <2>3, <2>5, <2>6, <3>2
  <2>10. p \notin DOMAIN tree
    <3>1. PICK n \in DOMAIN a : k = a[n].key
      BY <1>2 DEF k
    <3> QED BY <1>3, <2>2, <2>4, <3>1
  <2> QED BY <2>5, <2>9, <2>10 DEF k
<1>9. \A o \in outputs : o.key \notin groups /\ LevelPaths(o) \cap groups = {}
  BY <1>1, <1>2, <1>4, <1>5, <1>8
<1>10. \A o, q \in outputs : o # q =>
          ({o.key} \cup LevelPaths(o)) \cap ({q.key} \cup LevelPaths(q)) = {}
  <2> SUFFICES ASSUME NEW o \in outputs, NEW q \in outputs, o # q,
                      NEW p \in {o.key} \cup LevelPaths(o), p \in {q.key} \cup LevelPaths(q)
               PROVE  FALSE
    OBVIOUS
  <2>1. o.key # q.key
    BY <1>2
  <2>2. CASE p = o.key
    BY <1>2, <1>8, <2>1, <2>2
  <2>3. CASE p = q.key
    BY <1>2, <1>8, <2>1, <2>3
  <2>4. CASE p \in LevelPaths(o) /\ p \in LevelPaths(q)
    BY <1>8, <2>1, <2>4
  <2> QED BY <2>2, <2>3, <2>4
<1>11. \A p \in DOMAIN tree : p \in NodePaths
  <2> SUFFICES ASSUME NEW p \in DOMAIN tree, p \notin groups PROVE p \in NodePaths
    BY DEF NodePaths
  <2>1. PICK n \in DOMAIN a : a[n].key = p
    BY <1>1, <1>5, <1>6
  <2>2. PICK o \in outputs : o.key = p
    BY <1>2, <2>1
  <2> QED BY <2>2 DEF NodePaths
<1>12. \A p \in NodePaths : p \in DOMAIN tree \/ \E o \in outputs : p \in LevelPaths(o)
  BY <1>1, <1>2 DEF NodePaths
<1>13. \A o \in outputs : o.key \in NodePaths
  BY DEF NodePaths
<1>14. \A p \in NodePaths : \A i \in DOMAIN p : p[i] \notin MetadataNames
  BY <1>7, <1>8, <1>12
<1>15. \A p \in NodePaths : p # <<>> => Front(p) \in NodePaths
  BY <1>5, <1>8, <1>11, <1>12, <1>13
<1> QED BY <1>9, <1>10, <1>14, <1>15
-----------------------------------------------------------------------------
(* The nodes of a stream *)

\* Where the stream has all its arrays.
Streaming == {"open", "finalize", "groups", "closed"}

\* The nodes of a stream are those of the settings the caller wrote.
NodesInv ==
    /\ pc \in {"commit", "arrays", "plates"} \cup Streaming =>
          ValidStructure(config) /\ groups = GroupPaths(config)
    /\ pc \in Streaming => outputs = Outputs(Arrays(config))

LEMMA NodesUnchanged ==
  ASSUME NodesInv, UNCHANGED <<config, groups, outputs>>, pc' = pc \/ pc' = "refused"
  PROVE  NodesInv'
<1>1. ValidStructure(config) => ValidStructure(config')
  OBVIOUS
<1> QED BY <1>1 DEF NodesInv, Streaming

\* Every step keeps that.
LEMMA NodesNext == OwnerInv /\ Held /\ LateInv /\ NodesInv /\ [Next]_vars => NodesInv'
<1> SUFFICES ASSUME OwnerInv, Held, LateInv, NodesInv, [Next]_vars PROVE NodesInv'
  OBVIOUS
<1>a. origin # "none" =>
         /\ ValidStructure(settings) => ValidStructure(config)
         /\ GroupPaths(settings) = GroupPaths(config)
         /\ Outputs(Arrays(settings)) = Outputs(Arrays(config))
  <2>1. SUFFICES ASSUME origin # "none"
                 PROVE  /\ ValidStructure(settings) => ValidStructure(config)
                        /\ GroupPaths(settings) = GroupPaths(config)
                        /\ Outputs(Arrays(settings)) = Outputs(Arrays(config))
    OBVIOUS
  <2>2. settings \in StreamSettings /\ config \in StreamSettings /\ Alike(settings, config)
    BY <2>1, SettingsAssumption DEF OwnerInv, Kept
  <2>3. ValidStructure(settings) <=> ValidStructure(config)
    BY <2>2, ArraysType, EntriesAlike, TreesAlike
  <2> QED BY <2>2, <2>3, AsksForTheSame
<1>0. CASE UNCHANGED vars
  BY <1>0, NodesUnchanged DEF vars, stream, made, caller
<1>1. CASE \/ StartBuilding \/ Load \/ LoadFails \/ GiveBackBuilt \/ GiveBackLoaded
           \/ \E slot \in ToSet(BuildLists(config)) : CreateList(slot)
           \/ \E format \in {"yaml", "json"} : Dump(format)
  <2>1. UNCHANGED <<config, groups, outputs, pc>>
    BY <1>1 DEF StartBuilding, Load, LoadFails, GiveBackBuilt, GiveBackLoaded, CreateList, Dump,
                stream, made
  <2> QED BY <2>1, NodesUnchanged
<1>2. CASE CreateStream
  <2>1. Complete /\ UNCHANGED config
    BY <1>2 DEF CreateStream, caller
  <2>2. origin # "none"
    BY <2>1 DEF Complete
  <2>3. pc' = "refused" \/ (pc' = "commit" /\ Accepts(settings) /\ groups' = GroupPaths(settings))
    BY <1>2 DEF CreateStream, Refuse
  <2>4. pc' = "commit" => ValidStructure(config) /\ groups' = GroupPaths(config)
    BY <1>a, <2>2, <2>3 DEF Accepts
  <2>5. ValidStructure(config) => ValidStructure(config')
    BY <2>1
  <2> QED BY <2>1, <2>3, <2>4, <2>5 DEF NodesInv, Streaming
<1>3. CASE CommitStore \/ ConfigureArrays
  <2>1. UNCHANGED <<config, groups>> /\ pc \in {"commit", "arrays"}
        /\ pc' \in {"arrays", "plates", "refused"}
    BY <1>3 DEF CommitStore, ConfigureArrays, Refuse, caller
  <2>2. ValidStructure(config) => ValidStructure(config')
    BY <2>1
  <2> QED BY <2>1, <2>2 DEF NodesInv, Streaming
<1>4. ASSUME NEW unset \in UnsetIds, CommitPlates(unset) PROVE NodesInv'
  <2>1. UNCHANGED <<config, groups>> /\ pc = "plates"
    BY <1>4 DEF CommitPlates
  <2>2. pc' = "refused" \/ (pc' = "open" /\ outputs' = Outputs(Arrays(settings)))
    BY <1>4, Zenon DEF CommitPlates, Refuse
  <2>3. Outputs(Arrays(settings)) = Outputs(Arrays(config))
    BY <1>a, <2>1 DEF Held
  <2>4. ValidStructure(config) => ValidStructure(config')
    BY <2>1
  <2> QED BY <2>1, <2>2, <2>3, <2>4 DEF NodesInv, Streaming
<1>5. CASE \/ \E o \in outputs : TakeFrames(o) \/ WriteCustomMetadata(o) \/ FinalizeArray(o)
           \/ Close \/ (\E p \in groups : WriteGroup(p)) \/ WrittenAll
  <2>1. UNCHANGED <<config, groups, outputs>> /\ pc \in Streaming /\ pc' \in Streaming
    BY <1>5 DEF TakeFrames, WriteCustomMetadata, FinalizeArray, Close, WriteGroup, WrittenAll,
                Fail, Streaming, caller, made
  <2>2. ValidStructure(config) => ValidStructure(config')
    BY <2>1
  <2> QED BY <2>1, <2>2 DEF NodesInv, Streaming
<1>6. CASE Gone
  BY <1>6 DEF Gone, NodesInv, Streaming
<1> QED BY <1>0, <1>1, <1>2, <1>3, <1>4, <1>5, <1>6 DEF Next

LEMMA StreamNodes ==
  ASSUME OwnerInv, NodesInv, pc \in Streaming
  PROVE  /\ Made /\ config \in Configs
         /\ outputs = Outputs(Arrays(config)) /\ groups = GroupPaths(config)
BY SettingsAssumption DEF OwnerInv, Kept, NodesInv, Made

LEMMA NodesInit == Init => Held /\ LateInv /\ NodesInv
BY DEF Init, Held, LateInv, RefusalKeepsStore, NodesInv, Streaming

\* Every zarr.json of a store has one writer and no node lies where a zarr.json is
\* to be, for any settings that validate_settings_ accepts (check_array_structure,
\* zarr.stream.cpp).
THEOREM StreamNodesDisjoint == Spec => []NodesDisjoint
<1>1. OwnerInv /\ NodesInv => NodesDisjoint
  <2> SUFFICES ASSUME OwnerInv, NodesInv, Orderly, pc \in Streaming
               PROVE  NodesDisjoint
    BY DEF NodesDisjoint, Streaming
  <2> QED BY StreamNodes, NodesApart DEF NodesDisjoint
<1> QED BY <1>1, NodesInit, OwnerInit, OwnerNext, LateNext, NodesNext, PTL DEF Spec
-----------------------------------------------------------------------------
(* Types *)

\* TypeOK, with what makes it inductive.
Scalars ==
    /\ rebuilds \in 0 .. MaxRebuilds /\ streams \in 0 .. MaxStreams
    /\ pc \in {"none", "commit", "arrays", "plates", "open", "finalize", "groups",
               "closed", "refused"}
    /\ closed \in {"none", "ok", "error", "thrown"}
    /\ disk \in {"absent", "file", "old"}
    /\ lost \in BOOLEAN /\ ioFailed \in BOOLEAN /\ error \in BOOLEAN /\ reused \in BOOLEAN
\* Blocks that an output_key was pointed at are blocks of a settings file.
KeyedBlocks == \A b \in keyed : b = <<b[1], 0>>
\* Frames are counted for the outputs, up to their levels.
Counted ==
    pc \in Streaming =>
        /\ DOMAIN frames = {o.key : o \in outputs}
        /\ \A o \in outputs : /\ frames[o.key] \in Nat
                              /\ \A l \in 1 .. frames[o.key] : l \in DOMAIN o.levels
Written ==
    /\ \A o \in outputs : Regular(o.key)
    /\ \A p \in groups \cup wells \cup DOMAIN files : Regular(p)
    /\ custom \subseteq {o.key : o \in outputs}
    /\ pending \subseteq {o.key : o \in outputs} \cup groups
    /\ pc \notin Streaming => custom = {} /\ pending = {} /\ files = <<>>
TypeInv == Scalars /\ KeyedBlocks /\ Counted /\ Written

\* No segment of a key or of a level is empty.
LEMMA RegularPath ==
  ASSUME NEW p \in Paths
  PROVE  Regular(p)
<1>1. DOMAIN p = 1 .. Len(p) /\ \A i \in 1 .. Len(p) : p[i] \in NoGaps
  BY LenProperties, ElementOfSeq DEF Paths
<1> QED BY <1>1 DEF Regular, NoGaps

LEMMA LongerSeq ==
  ASSUME NEW S, NEW p \in Seq(S), NEW x
  PROVE  p \o <<x>> \in Seq(S \cup {x})
<1> DEFINE T == S \cup {x}  u == <<x>>
<1>1. p \in Seq(T) /\ u \in Seq(T)
  BY SeqMonotonic
<1> HIDE DEF T, u
<1>2. p \o u \in Seq(T)
  BY <1>1, ConcatProperties, Zenon
<1> QED BY <1>2 DEF T, u

LEMMA OneMore ==
  ASSUME NEW n \in Nat, NEW i \in 1 .. n + 1
  PROVE  i \in 1 .. n \/ i = n + 1
OBVIOUS

LEMMA RegularLevel ==
  ASSUME NEW p \in Paths, NEW x, x # ""
  PROVE  Regular(p \o <<x>>)
<1> DEFINE q == p \o <<x>>
<1>1. /\ Len(q) = Len(p) + 1 /\ q[Len(p) + 1] = x /\ \A i \in 1 .. Len(p) : q[i] = p[i]
  BY PathBelow DEF Paths
<1>2. q \in Seq(NoGaps \cup {x})
  BY LongerSeq DEF Paths
<1> HIDE DEF q
<1>3. DOMAIN q = 1 .. Len(p) + 1 /\ Len(p) \in Nat /\ DOMAIN p = 1 .. Len(p)
  BY <1>1, <1>2, LenProperties DEF Paths
<1>4. \A i \in 1 .. Len(p) : p[i] # ""
  <2>1. \A i \in DOMAIN p : p[i] # ""
    BY RegularPath DEF Regular
  <2> QED BY <1>3, <2>1
<1>5. \A i \in 1 .. Len(p) + 1 : q[i] # ""
  <2>1. Len(p) \in Nat
    BY <1>3
  <2>2. \A i \in 1 .. Len(p) + 1 : i \in 1 .. Len(p) \/ i = Len(p) + 1
    BY <2>1, OneMore, Zenon
  <2> QED BY <1>1, <1>4, <2>2
<1> QED BY <1>3, <1>5 DEF Regular, q

\* It holds at first, and every step keeps it.
LEMMA TypeInit == Init => TypeInv
<1> SUFFICES ASSUME Init PROVE TypeInv
  OBVIOUS
<1>1. /\ rebuilds = 0 /\ streams = 0 /\ disk \in Disks /\ pc = "none" /\ closed = "none"
      /\ lost = FALSE /\ ioFailed = FALSE /\ error = FALSE /\ reused = FALSE
  BY DEF Init
<1>2. Disks \subseteq {"absent", "file", "old"} /\ MaxRebuilds \in Nat /\ MaxStreams \in Nat
  BY SettingsAssumption
<1>3. rebuilds \in 0 .. MaxRebuilds /\ streams \in 0 .. MaxStreams
  BY <1>1, <1>2
<1>4. Scalars
  BY <1>1, <1>2, <1>3 DEF Scalars
<1> QED BY <1>4 DEF Init, TypeInv, KeyedBlocks, Counted, Written, Streaming

LEMMA TypeCaller ==
  ASSUME TypeInv, rebuilds' \in 0 .. MaxRebuilds, UNCHANGED <<keyed, stream>>
  PROVE  TypeInv'
<1>1. Scalars'
  BY DEF TypeInv, Scalars, stream, made, written
<1>2. KeyedBlocks' /\ Counted'
  BY DEF TypeInv, KeyedBlocks, Counted, stream, made, written
<1>3. Written'
  BY DEF TypeInv, Written, stream, made, written
<1> QED BY <1>1, <1>2, <1>3 DEF TypeInv

LEMMA TypeIdle ==
  ASSUME TypeInv, UNCHANGED <<keyed, outputs, groups, wells, frames, custom, files, pending>>,
         pc' = pc \/ (pc \in Streaming /\ pc' \in Streaming)
                  \/ (pc \notin Streaming /\ pc' \notin Streaming), Scalars'
  PROVE  TypeInv'
<1>1. KeyedBlocks' /\ Counted'
  BY DEF TypeInv, KeyedBlocks, Counted
<1>2. Written'
  BY DEF TypeInv, Written
<1> QED BY <1>1, <1>2 DEF TypeInv

LEMMA TypeCreateStream ==
  ASSUME OwnerInv, TypeInv, CreateStream
  PROVE  TypeInv'
<1>1. /\ pc = "none" /\ origin # "none" /\ UNCHANGED <<keyed, outputs, wells, frames, custom, files, pending>>
      /\ UNCHANGED <<rebuilds, closed, disk, lost>>
      /\ streams < MaxStreams /\ streams' = streams + 1 /\ reused' \in BOOLEAN
      /\ pc' \in {"commit", "refused"} /\ ioFailed' \in BOOLEAN /\ error' \in BOOLEAN
      /\ groups' = {} \/ groups' = GroupPaths(settings)
  BY DEF CreateStream, NoStream, Complete, Refuse, Complains, caller, blocks, written
<1>2. settings \in StreamSettings
  BY <1>1 DEF OwnerInv, Kept
<1>3. \A p \in GroupPaths(settings) : Regular(p)
  <2>1. GroupPaths(settings) \subseteq Paths
    BY <1>2, TreeIs DEF GroupPaths
  <2> QED BY <2>1, RegularPath
<1>4. Scalars'
  BY <1>1, SettingsAssumption DEF TypeInv, Scalars
<1>5. KeyedBlocks' /\ Counted'
  BY <1>1 DEF TypeInv, KeyedBlocks, Counted, Streaming
<1>6. Written'
  BY <1>1, <1>3 DEF TypeInv, Written, Streaming
<1> QED BY <1>4, <1>5, <1>6 DEF TypeInv

LEMMA TypeCommitStore ==
  ASSUME TypeInv, CommitStore
  PROVE  TypeInv'
<1>1. /\ pc = "commit" /\ pc' \in {"arrays", "refused"}
      /\ UNCHANGED <<keyed, outputs, groups, wells, frames, custom, files, pending>>
      /\ UNCHANGED <<rebuilds, streams, closed, reused>>
      /\ lost' = lost \/ lost' \in BOOLEAN
      /\ disk' = disk \/ disk' \in {"old", "absent"}
      /\ (error' = error /\ ioFailed' = ioFailed) \/ (error' = TRUE /\ ioFailed' \in BOOLEAN)
  BY DEF CommitStore, Refuse, caller, blocks, written
<1>2. Scalars'
  BY <1>1 DEF TypeInv, Scalars
<1> QED BY <1>1, <1>2, TypeIdle DEF Streaming

LEMMA TypeConfigureArrays ==
  ASSUME OwnerInv, Held, TypeInv, ConfigureArrays
  PROVE  TypeInv'
<1>1. /\ pc = "arrays" /\ pc' \in {"plates", "refused"}
      /\ UNCHANGED <<keyed, groups, wells, frames, custom, files, pending>>
      /\ UNCHANGED <<rebuilds, streams, closed, reused, disk, lost>>
      /\ outputs' = outputs \/ outputs' = Outputs(FlatArrays(settings))
      /\ (error' = error /\ ioFailed' = ioFailed) \/ (error' = TRUE /\ ioFailed' = FALSE)
  BY DEF ConfigureArrays, Refuse, caller, blocks, written
<1>2. settings \in StreamSettings
  BY <1>1 DEF OwnerInv, Kept, Held
<1>3. \A o \in Outputs(FlatArrays(settings)) : Regular(o.key)
  <2>1. \A w \in Range(FlatArrays(settings)) : w.key \in Paths
    <3>1. FlatArrays(settings) \in Seq(Entries)
      BY <1>2, FlatArraysType
    <3>2. ToSet(FlatArrays(settings)) \subseteq Entries
      BY <3>1, ElementsIn
    <3> QED BY <3>2 DEF ToSet, Range, Entries, Paths
  <2>2. \A o \in Outputs(FlatArrays(settings)) : o.key \in Paths
    BY <2>1 DEF Outputs, Output
  <2> QED BY <2>2, RegularPath
<1>4. Scalars'
  BY <1>1 DEF TypeInv, Scalars
<1>5. KeyedBlocks' /\ Counted'
  BY <1>1 DEF TypeInv, KeyedBlocks, Counted, Streaming
<1>6. Written'
  BY <1>1, <1>3 DEF TypeInv, Written, Streaming
<1> QED BY <1>4, <1>5, <1>6 DEF TypeInv

\* plates_.emplace keeps one plate for each path.
LEMMA FirstOfIs ==
  ASSUME NEW s \in StreamSettings, NEW i \in DOMAIN s.plates
  PROVE  /\ FirstOf(s, Regularize(s.plates[i].path)) \in Range(s.plates)
         /\ FirstOf(s, Regularize(s.plates[i].path)) \in PlateSettings
         /\ Regularize(FirstOf(s, Regularize(s.plates[i].path)).path)
               = Regularize(s.plates[i].path)
<1> DEFINE S == {h \in DOMAIN s.plates : Regularize(s.plates[h].path)
                                           = Regularize(s.plates[i].path)}
<1>1. s.plates \in Seq(PlateSettings) /\ DOMAIN s.plates = 1 .. Len(s.plates)
  BY LenProperties DEF StreamSettings
<1>2. S \subseteq Nat /\ S # {}
  BY <1>1
<1>3. FirstOf(s, Regularize(s.plates[i].path)) = s.plates[Min(S)]
  BY DEF FirstOf
<1>4. Min(S) \in S
  <2> HIDE DEF S
  <2>1. \E x \in S : \A y \in S : x =< y
    BY <1>2, LeastNatural
  <2> QED BY <2>1 DEF Min
<1>5. s.plates[Min(S)] \in PlateSettings
  BY <1>1, <1>4, ElementOfSeq
<1> QED BY <1>3, <1>4, <1>5 DEF Range

LEMMA TypeCommitPlates ==
  ASSUME OwnerInv, Held, TypeInv, NEW unset, CommitPlates(unset), NodesInv'
  PROVE  TypeInv'
<1> DEFINE paths == {Regularize(p.path) : p \in Range(settings.plates)}
           of(path) == FirstOf(settings, path)
           new == UNION {{WellPath(p, w) : w \in Range(p.wells)} :
                         p \in {FirstOf(settings, path) : path \in paths}}
<1>1. /\ pc = "plates" /\ pc' \in {"open", "refused"}
      /\ UNCHANGED <<config, rebuilds, streams, closed, reused, disk, lost>>
      /\ UNCHANGED <<groups, custom, pending, files>>
      /\ (error' = error /\ ioFailed' = ioFailed) \/ (error' = TRUE /\ ioFailed' = FALSE)
  BY Zenon DEF CommitPlates, Refuse
<1>2. \/ pc' = "refused" /\ UNCHANGED <<outputs, wells, frames>>
      \/ /\ pc' = "open" /\ outputs' = Outputs(Arrays(settings))
         /\ wells' = new
         /\ frames' = [key \in {o.key : o \in outputs'} |-> 0]
  BY Zenon DEF CommitPlates, Refuse
<1>3. \/ keyed' = keyed
      \/ /\ origin = "loaded"
         /\ keyed' = keyed \cup {mem[FieldSlot(at) \o <<"path">>] :
                                   at \in Range(FieldsTried(unset).fields)}
  BY Zenon DEF CommitPlates
<1>4. settings \in StreamSettings
  BY <1>1 DEF OwnerInv, Kept, Held
<1>5. \A p \in new : Regular(p)
  <2> SUFFICES ASSUME NEW path \in paths, NEW w \in Range(of(path).wells)
               PROVE  Regular(WellPath(of(path), w))
    OBVIOUS
  <2>1. PICK i \in DOMAIN settings.plates : path = Regularize(settings.plates[i].path)
    BY DEF Range
  <2>2. of(path) \in PlateSettings
    BY <1>4, <2>1, FirstOfIs
  <2> HIDE DEF of
  <2>3. of(path).wells \in Seq(WellSettings)
    BY <2>2 DEF PlateSettings
  <2>4. w \in WellSettings
    BY <2>3, ElementsIn DEF ToSet, Range
  <2> QED BY <2>2, <2>4, WellPathIs, RegularPath DEF Paths
<1> HIDE DEF new, paths
<1>6. \A o \in Outputs(Arrays(settings)) : Regular(o.key)
  <2>1. \A w \in Range(Arrays(settings)) : w.key \in Paths
    BY <1>4, TreeIs DEF Range
  <2>2. \A o \in Outputs(Arrays(settings)) : o.key \in Paths
    BY <2>1 DEF Outputs, Output
  <2> QED BY <2>2, RegularPath
<1>7. Scalars'
  BY <1>1 DEF TypeInv, Scalars
<1>8. KeyedBlocks'
  <2> SUFFICES ASSUME origin = "loaded", NEW at \in Range(FieldsTried(unset).fields)
               PROVE  LET b == mem[FieldSlot(at) \o <<"path">>] IN b = <<b[1], 0>>
    BY <1>3 DEF TypeInv, KeyedBlocks
  <2>1. at \in AtIds(settings) /\ AtIds(settings) = AtIds(config)
    BY <1>4, FieldsTriedAre, AlikeIds DEF OwnerInv, Kept
  <2>2. FieldSlot(at) \o <<"path">> \in DOMAIN mem
    BY <2>1 DEF OwnerInv, MemLoaded
  <2> DEFINE p == FieldSlot(at) \o <<"path">>
  <2>3. mem[p] = <<p, 0>> \/ mem[p] \in keyed
    BY <2>2 DEF OwnerInv, MemLoaded
  <2> HIDE DEF p
  <2>4. mem[p] = <<mem[p][1], 0>>
    BY <2>3 DEF TypeInv, KeyedBlocks
  <2> QED BY <2>4 DEF p
<1>9. Counted'
  BY <1>1, <1>2 DEF Counted, Streaming
<1>10. Written'
  BY <1>1, <1>2, <1>5, <1>6 DEF TypeInv, Written, Streaming
<1> QED BY <1>7, <1>8, <1>9, <1>10 DEF TypeInv

LEMMA TypeTakeFrames ==
  ASSUME OwnerInv, NodesInv, TypeInv, NEW o \in outputs, TakeFrames(o)
  PROVE  TypeInv'
<1>1. /\ pc = "open" /\ frames[o.key] + 1 \in DOMAIN o.levels
      /\ frames' = [frames EXCEPT ![o.key] = @ + 1]
      /\ UNCHANGED <<keyed, outputs, groups, wells, custom, files, pending, pc>>
      /\ UNCHANGED <<rebuilds, streams, closed, reused, disk, lost, error, ioFailed>>
  BY DEF TakeFrames, caller, blocks, made
<1>2. \A q \in outputs : q.key = o.key => q = o
  <2>1. Made /\ outputs = Outputs(Arrays(config))
    BY <1>1, StreamNodes DEF Streaming
  <2>2. config \in Configs
    BY DEF OwnerInv, Kept
  <2> QED BY <2>1, <2>2, OutputsAre
<1>3. /\ DOMAIN frames = {q.key : q \in outputs}
      /\ \A q \in outputs : /\ frames[q.key] \in Nat
                            /\ \A l \in 1 .. frames[q.key] : l \in DOMAIN q.levels
  BY <1>1 DEF TypeInv, Counted, Streaming
<1>4. DOMAIN frames' = {q.key : q \in outputs} /\ o.key \in DOMAIN frames
  BY <1>1, <1>3
<1>5. ASSUME NEW q \in outputs
      PROVE  frames'[q.key] \in Nat /\ \A l \in 1 .. frames'[q.key] : l \in DOMAIN q.levels
  <2>1. CASE q = o
    <3>1. frames'[q.key] = frames[o.key] + 1 /\ frames[o.key] \in Nat
      BY <1>1, <1>3, <1>4, <2>1
    <3>2. \A l \in 1 .. frames[o.key] + 1 : l \in 1 .. frames[o.key] \/ l = frames[o.key] + 1
      BY <3>1
    <3> QED BY <1>1, <1>3, <2>1, <3>1, <3>2
  <2>2. CASE q # o
    <3>1. frames'[q.key] = frames[q.key]
      BY <1>1, <1>2, <1>3, <2>2
    <3> QED BY <1>3, <3>1
  <2> QED BY <2>1, <2>2
<1>6. Counted'
  BY <1>1, <1>4, <1>5 DEF Counted
<1>7. Scalars' /\ KeyedBlocks' /\ Written'
  BY <1>1 DEF TypeInv, Scalars, KeyedBlocks, Written
<1> QED BY <1>6, <1>7 DEF TypeInv

\* finalize_array writes at the nodes of its array.
LEMMA FilesOfDomain ==
  ASSUME NEW o, NEW p \in DOMAIN FilesOf(o)
  PROVE  \/ p = o.key
         \/ \E l \in 1 .. frames[o.key] : p = o.key \o <<ToString(l - 1)>>
<1> DEFINE kind == IF o.grouped THEN "multiscale" ELSE "array"
           node == IF NodeWritten(o)
                   THEN Put(<<>>, o.key, [kind |-> kind, custom |-> o.key \in custom]) ELSE <<>>
           levels == [q \in {o.key \o <<ToString(l - 1)>> : l \in 1 .. frames[o.key]} |->
                        [kind |-> "array", custom |-> FALSE]]
<1>1. FilesOf(o) = IF o.grouped THEN Override(node, levels) ELSE node
  BY DEF FilesOf
<1>2. DOMAIN node \subseteq {o.key}
  BY DEF Put, Override
<1>3. DOMAIN levels = {o.key \o <<ToString(l - 1)>> : l \in 1 .. frames[o.key]}
  OBVIOUS
<1> HIDE DEF node, levels
<1>4. DOMAIN Override(node, levels) = DOMAIN node \cup DOMAIN levels
  BY DEF Override
<1> QED BY <1>1, <1>2, <1>3, <1>4

LEMMA TypeFinalizeArray ==
  ASSUME OwnerInv, NodesInv, TypeInv, NEW o \in outputs, FinalizeArray(o)
  PROVE  TypeInv'
<1>1. /\ pc = "finalize" /\ pc' \in Streaming
      /\ UNCHANGED <<keyed, outputs, groups, wells, custom, frames>>
      /\ UNCHANGED <<rebuilds, streams, reused, disk, lost, error>>
      /\ pending' \subseteq pending
      /\ (pc' = pc /\ closed' = closed) \/ (pc' = "closed" /\ closed' = "error")
      /\ ioFailed' = ioFailed \/ ioFailed' \in BOOLEAN
      /\ files' = files \/ files' = Override(FilesOf(o), files)
  BY DEF FinalizeArray, Fail, Blocked, Streaming, caller, blocks
<1>2. o.key \in Paths /\ \A l \in DOMAIN o.levels : ToString(l - 1) # ""
  BY <1>1, StreamNodes, OutputsAre DEF Streaming
<1>3. \A l \in 1 .. frames[o.key] : l \in DOMAIN o.levels
  BY <1>1 DEF TypeInv, Counted, Streaming
<1>4. \A l \in 1 .. frames[o.key] : Regular(o.key \o <<ToString(l - 1)>>)
  BY <1>2, <1>3, RegularLevel
<1>5. \A p \in DOMAIN FilesOf(o) : Regular(p)
  BY <1>2, <1>4, FilesOfDomain, RegularPath
<1>6. \A p \in DOMAIN files' : p \in DOMAIN files \/ p \in DOMAIN FilesOf(o)
  BY <1>1 DEF Override
<1>7. Scalars' /\ KeyedBlocks' /\ Counted'
  BY <1>1 DEF TypeInv, Scalars, KeyedBlocks, Counted, Streaming
<1>8. Written'
  BY <1>1, <1>5, <1>6 DEF TypeInv, Written, Streaming
<1> QED BY <1>7, <1>8 DEF TypeInv

LEMMA TypeWriteGroup ==
  ASSUME TypeInv, NEW p \in groups, WriteGroup(p)
  PROVE  TypeInv'
<1>1. /\ pc = "groups" /\ pc' \in Streaming
      /\ UNCHANGED <<keyed, outputs, groups, wells, custom, frames>>
      /\ UNCHANGED <<rebuilds, streams, reused, disk, lost>>
      /\ pending' \subseteq pending
      /\ (pc' = pc /\ closed' = closed) \/ (pc' = "closed" /\ closed' \in {"error", "thrown"})
      /\ ioFailed' = ioFailed \/ ioFailed' = TRUE
      /\ error' = error \/ error' = TRUE
      /\ files' = files \/ files' = Put(files, p, [kind |-> GroupKind(p), custom |-> FALSE])
  BY DEF WriteGroup, Fail, Streaming, caller, blocks
<1>2. \A q \in DOMAIN files' : q \in DOMAIN files \/ q = p
  BY <1>1 DEF Put, Override
<1>3. Scalars' /\ KeyedBlocks' /\ Counted'
  BY <1>1 DEF TypeInv, Scalars, KeyedBlocks, Counted, Streaming
<1>4. Written'
  BY <1>1, <1>2 DEF TypeInv, Written, Streaming
<1> QED BY <1>3, <1>4 DEF TypeInv

LEMMA TypeNext ==
  OwnerInv /\ Held /\ NodesInv /\ TypeInv /\ [Next]_vars /\ NodesInv' => TypeInv'
<1> SUFFICES ASSUME OwnerInv, Held, NodesInv, TypeInv, [Next]_vars, NodesInv' PROVE TypeInv'
  OBVIOUS
<1>a. rebuilds \in 0 .. MaxRebuilds
  BY DEF TypeInv, Scalars
<1>0. CASE UNCHANGED vars
  BY <1>0, <1>a, TypeCaller DEF vars, caller, blocks
<1>1. CASE StartBuilding \/ Load \/ LoadFails \/ GiveBackLoaded
           \/ \E format \in {"yaml", "json"} : Dump(format)
  <2>1. UNCHANGED <<keyed, stream, rebuilds>>
    BY <1>1 DEF StartBuilding, Load, LoadFails, GiveBackLoaded, Dump, blocks
  <2> QED BY <1>a, <2>1, TypeCaller
<1>2. CASE GiveBackBuilt
  <2>1. UNCHANGED <<keyed, stream>> /\ rebuilds' = 0
    BY <1>2 DEF GiveBackBuilt
  <2> QED BY <2>1, TypeCaller, SettingsAssumption
<1>3. ASSUME NEW slot \in ToSet(BuildLists(config)), CreateList(slot) PROVE TypeInv'
  <2>1. UNCHANGED <<keyed, stream>>
        /\ (rebuilds' = rebuilds \/ (rebuilds < MaxRebuilds /\ rebuilds' = rebuilds + 1))
    BY <1>3 DEF CreateList
  <2>2. rebuilds' \in 0 .. MaxRebuilds
    BY <1>a, <2>1, SettingsAssumption
  <2> QED BY <2>1, <2>2, TypeCaller
<1>4. CASE CreateStream
  BY <1>4, TypeCreateStream
<1>5. CASE CommitStore
  BY <1>5, TypeCommitStore
<1>6. CASE ConfigureArrays
  BY <1>6, TypeConfigureArrays
<1>7. ASSUME NEW unset \in UnsetIds, CommitPlates(unset) PROVE TypeInv'
  BY <1>7, TypeCommitPlates
<1>8. ASSUME NEW o \in outputs, TakeFrames(o) PROVE TypeInv'
  BY <1>8, TypeTakeFrames
<1>9. ASSUME NEW o \in outputs, WriteCustomMetadata(o) PROVE TypeInv'
  <2>1. /\ UNCHANGED <<keyed, outputs, groups, wells, frames, files, pending, pc>>
        /\ UNCHANGED <<rebuilds, streams, closed, reused, disk, lost, error, ioFailed>>
        /\ pc = "open" /\ custom' = custom \cup {o.key}
    BY <1>9 DEF WriteCustomMetadata, caller, blocks, made
  <2>2. Scalars' /\ KeyedBlocks' /\ Counted'
    BY <2>1 DEF TypeInv, Scalars, KeyedBlocks, Counted
  <2>3. Written'
    BY <2>1 DEF TypeInv, Written, Streaming
  <2> QED BY <2>2, <2>3 DEF TypeInv
<1>10. ASSUME NEW o \in outputs, FinalizeArray(o) PROVE TypeInv'
  BY <1>10, TypeFinalizeArray
<1>11. CASE Close
  <2>1. /\ UNCHANGED <<keyed, outputs, groups, wells, frames, files, custom>>
        /\ UNCHANGED <<rebuilds, streams, reused, disk, lost, error, ioFailed>>
        /\ pc = "open" /\ pc' \in {"closed", "finalize"}
        /\ pending' = pending \/ pending' = {o.key : o \in outputs}
        /\ closed' = closed \/ closed' = "error"
    BY <1>11 DEF Close, caller, blocks, made
  <2>2. Scalars' /\ KeyedBlocks' /\ Counted'
    BY <2>1 DEF TypeInv, Scalars, KeyedBlocks, Counted, Streaming
  <2>3. Written'
    BY <2>1 DEF TypeInv, Written, Streaming
  <2> QED BY <2>2, <2>3 DEF TypeInv
<1>12. ASSUME NEW p \in groups, WriteGroup(p) PROVE TypeInv'
  BY <1>12, TypeWriteGroup
<1>13. CASE WrittenAll
  <2>1. /\ UNCHANGED <<keyed, outputs, groups, wells, frames, files, custom>>
        /\ UNCHANGED <<rebuilds, streams, reused, disk, lost, error, ioFailed>>
        /\ pc \in {"finalize", "groups"} /\ pc' \in {"groups", "closed"}
        /\ pending' = pending \/ pending' = groups
        /\ closed' = closed \/ closed' = "ok"
    BY <1>13 DEF WrittenAll, caller, blocks, made
  <2>2. Scalars' /\ KeyedBlocks' /\ Counted'
    BY <2>1 DEF TypeInv, Scalars, KeyedBlocks, Counted, Streaming
  <2>3. Written'
    BY <2>1 DEF TypeInv, Written, Streaming
  <2> QED BY <2>2, <2>3 DEF TypeInv
<1>14. CASE Gone
  <2>1. Scalars' /\ KeyedBlocks' /\ Counted'
    BY <1>14 DEF Gone, TypeInv, Scalars, KeyedBlocks, Counted, Streaming, caller, blocks
  <2>2. Written'
    BY <1>14 DEF Gone, Written, Streaming
  <2> QED BY <2>1, <2>2 DEF TypeInv
<1> QED BY <1>0, <1>1, <1>2, <1>3, <1>4, <1>5, <1>6, <1>7, <1>8, <1>9, <1>10, <1>11, <1>12,
           <1>13, <1>14 DEF Next

\* Blocks are those of lists, created once or again.
LEMMA BlocksTyped ==
  ASSUME OwnerInv, KeyedBlocks
  PROVE  live \subseteq {<<b[1], g>> : b \in live, g \in 0 .. 1}
<1> SUFFICES ASSUME NEW b \in live PROVE b = <<b[1], 0>> \/ b = <<b[1], 1>>
  OBVIOUS
<1>1. b \in Range(mem)
  BY DEF OwnerInv, OneOwner
<1>2. PICK p \in DOMAIN mem : b = mem[p]
  BY <1>1 DEF Range
<1>3. CASE origin = "none"
  BY <1>2, <1>3 DEF OwnerInv, MemNone
<1>4. CASE origin = "built"
  BY <1>2, <1>4 DEF OwnerInv, MemBuilt
<1>5. CASE origin = "loaded"
  <2>1. b = <<p, 0>> \/ b \in keyed
    BY <1>2, <1>5 DEF OwnerInv, MemLoaded
  <2> QED BY <2>1 DEF KeyedBlocks
<1> QED BY <1>3, <1>4, <1>5 DEF OwnerInv, Kept

\* The types of the state: keys without empty segments, blocks behind their
\* pointers, metadata at nodes of the stream.
THEOREM SettingsTyped == Spec => []TypeOK
<1>1. OwnerInv /\ TypeInv => TypeOK
  <2> SUFFICES ASSUME OwnerInv, TypeInv PROVE TypeOK
    OBVIOUS
  <2>1. (settings = NoSettings <=> origin = "none") /\ (DOMAIN mem = {} \/ origin # "none")
    BY DEF OwnerInv, Kept, MemNone
  <2>2. live \subseteq {<<b[1], g>> : b \in live, g \in 0 .. 1}
    BY BlocksTyped DEF TypeInv
  <2>3. /\ \A p \in {o.key : o \in outputs} \cup groups \cup wells \cup DOMAIN files : Regular(p)
        /\ custom \subseteq {o.key : o \in outputs}
        /\ pending \subseteq {o.key : o \in outputs} \cup groups
    BY DEF TypeInv, Written
  <2>4. {lost, ioFailed, error, reused} \subseteq BOOLEAN
    BY Zenon DEF TypeInv, Scalars
  <2> QED BY <2>1, <2>2, <2>3, <2>4 DEF TypeOK, TypeInv, Scalars
<1> QED BY <1>1, NodesInit, TypeInit, OwnerInit, OwnerNext, LateNext, NodesNext, TypeNext,
           PTL DEF Spec
-----------------------------------------------------------------------------
(* Keys as they are named *)

\* A key without empty segments is as regularize_key leaves it.
LEMMA RegularizeSame ==
  ASSUME NEW key \in Seq(NoGaps)
  PROVE  Regularize(key) = key
<1> DEFINE Single(s) == [i \in DOMAIN s |-> <<s[i]>>]
           Flat(s) == FlattenSeq(Single(s))
           S == {s \in Seq(NoGaps) : Flat(s) = s}
<1>1. key \in Seq(Names) /\ key # NoKey
  BY GapsWiden, SettingsAssumption
<1>2. \A i \in DOMAIN key : key[i] # ""
  BY RegularPath DEF Paths, Regular
<1>3. Regularize(key) = Flat(key)
  <2> DEFINE f == [i \in DOMAIN key |-> IF key[i] = "" THEN <<>> ELSE <<key[i]>>]
  <2>1. f = Single(key)
    BY <1>2
  <2>2. Regularize(key) = FlattenSeq(f)
    BY <1>1 DEF Regularize
  <2> QED BY <2>1, <2>2
<1>4. <<>> \in S
  <2>1. Single(<<>>) = <<>>
    OBVIOUS
  <2> QED BY <2>1, EmptySeq, FlattenNone
<1>5. ASSUME NEW s \in Seq(NoGaps), NEW x \in NoGaps, s \in S
      PROVE  Append(s, x) \in S
  <2> DEFINE t == Append(s, x)
  <2>1. t \in Seq(NoGaps) /\ t = s \o <<x>> /\ Len(t) = Len(s) + 1 /\ Len(s) \in Nat
        /\ \A i \in 1 .. Len(s) : t[i] = s[i]
        /\ t[Len(s) + 1] = x /\ DOMAIN t = 1 .. Len(s) + 1 /\ DOMAIN s = 1 .. Len(s)
    BY AppendProperties, LenProperties, AppendIsConcat
  <2> HIDE DEF t
  <2>2. \A i \in 1 .. Len(s) : <<s[i]>> \in Seq(NoGaps)
    <3>1. TAKE i \in 1 .. Len(s)
    <3>2. s[i] \in NoGaps
      BY ElementOfSeq
    <3> QED BY <3>2
  <2>3. Single(s) \in Seq(Seq(NoGaps)) /\ Len(Single(s)) = Len(s)
    <3> DEFINE f == Single(s)
    <3>1. DOMAIN f = DOMAIN s /\ f = [i \in DOMAIN f |-> f[i]]
      OBVIOUS
    <3>2. \A i \in 1 .. Len(s) : f[i] \in Seq(NoGaps)
      BY <2>1, <2>2
    <3> HIDE DEF f
    <3>3. f \in Seq(Seq(NoGaps)) /\ Len(f) = Len(s)
      BY <3>1, <3>2, Mapped
    <3> QED BY <3>3 DEF f
  <2>4. Single(t) = Append(Single(s), <<x>>)
    <3> DEFINE u == Append(Single(s), <<x>>)
    <3>1. /\ DOMAIN u = 1 .. Len(s) + 1 /\ \A i \in 1 .. Len(s) : u[i] = Single(s)[i]
          /\ u[Len(s) + 1] = <<x>> /\ u = [i \in DOMAIN u |-> u[i]]
      BY <2>1, <2>3
    <3> QED BY <2>1, <3>1
  <2>5. <<x>> \in Seq(NoGaps)
    OBVIOUS
  <2>6. Flat(t) = Flat(s) \o <<x>>
    <3> HIDE DEF Single
    <3> QED BY <2>3, <2>4, <2>5, FlattenAppend
  <2> QED BY <1>5, <2>1, <2>6 DEF t
<1> HIDE DEF S
<1>6. \A s \in Seq(NoGaps) : s \in S
  BY <1>4, <1>5, SeqInd
<1> QED BY <1>3, <1>6 DEF S

\* What validate_settings_ makes sure of: every plate has wells, every well has
\* a row, a column and fields of view.
NamedWell(w) == w.row \in NoGaps /\ w.col \in NoGaps /\ 1 \in 1 .. Len(w.images)
NamedPlate(p) == 1 \in 1 .. Len(p.wells) /\ \A j \in 1 .. Len(p.wells) : NamedWell(p.wells[j])
Named(c) == \A i \in 1 .. Len(c.plates) : NamedPlate(c.plates[i])

\* A list that is not empty has a first element.
LEMMA NotEmpty ==
  ASSUME NEW S, NEW s \in Seq(S), s # <<>>
  PROVE  1 \in 1 .. Len(s)
<1>1. Len(s) \in Nat /\ Len(s) # 0
  BY EmptySeq, LenProperties
<1> QED BY <1>1

\* A name that is a valid key has no gap.
LEMMA NameOfKey ==
  ASSUME NEW x \in Names, IsValidKey(<<x>>)
  PROVE  x \in NoGaps
<1>1. Last(<<x>>) = x
  BY DEF Last
<1> QED BY <1>1 DEF IsValidKey, NoGaps

\* Settings that are accepted make sure of it for those the caller wrote.
LEMMA AcceptedNamed ==
  ASSUME NEW s \in StreamSettings, NEW c \in StreamSettings, Alike(s, c), Accepts(s)
  PROVE  Named(c)
<1> SUFFICES ASSUME NEW i \in 1 .. Len(c.plates) PROVE NamedPlate(c.plates[i])
  BY DEF Named
<1> DEFINE p == s.plates[i]  q == c.plates[i]
<1>1. i \in 1 .. Len(s.plates) /\ AlikePlate(p, q)
  BY DEF Alike
<1>2. s.plates \in Seq(PlateSettings) /\ c.plates \in Seq(PlateSettings)
  BY DEF StreamSettings
<1>3. p \in PlateSettings /\ q \in PlateSettings /\ i \in DOMAIN s.plates
  BY <1>1, <1>2, ElementOfSeq, LenProperties
<1>4. ValidPlate(p)
  BY <1>3 DEF Accepts
<1> HIDE DEF p, q
<1>5. GoodLists(p) /\ GoodWells(p) /\ p.wells # <<>>
  BY <1>4, ValidPlateIs
<1>6. /\ p.wells \in Seq(WellSettings) /\ q.wells \in Seq(WellSettings)
      /\ p.rows \in Seq(Names) /\ p.cols \in Seq(Names)
  BY <1>3 DEF PlateSettings
<1>7. Len(p.wells) = Len(q.wells) /\ 1 \in 1 .. Len(q.wells)
  BY <1>1, <1>5, <1>6, NotEmpty DEF AlikePlate
<1>8. ASSUME NEW j \in 1 .. Len(q.wells) PROVE NamedWell(q.wells[j])
  <2> DEFINE w == p.wells[j]  v == q.wells[j]
  <2>1. AlikeWell(w, v) /\ j \in DOMAIN p.wells
    BY <1>1, <1>6, <1>7, LenProperties DEF AlikePlate
  <2>2. w \in WellSettings /\ v \in WellSettings
    BY <1>6, <1>7, ElementOfSeq
  <2>3. w.row \in Range(p.rows) /\ w.col \in Range(p.cols) /\ ValidFields(w)
    BY <1>5, <2>1 DEF GoodWells
  <2> HIDE DEF w, v
  <2>4. w.row \in Names /\ w.col \in Names /\ w.images \in Seq(ImageSettings)
        /\ v.images \in Seq(ImageSettings)
    BY <2>2 DEF WellSettings
  <2>5. w.row \in NoGaps /\ w.col \in NoGaps
    BY <1>5, <2>3, <2>4, NameOfKey DEF GoodLists
  <2>6. 1 \in 1 .. Len(w.images)
    BY <2>3, <2>4, NotEmpty DEF ValidFields
  <2>7. w.row = v.row /\ w.col = v.col /\ Len(w.images) = Len(v.images)
    BY <2>1 DEF AlikeWell
  <2> QED BY <2>5, <2>6, <2>7 DEF NamedWell, v
<1> QED BY <1>7, <1>8 DEF NamedPlate, q

\* What is joined of keys without empty segments is as it is.
LEMMA KeyBelowSame ==
  ASSUME NEW parent \in Seq(NoGaps), NEW key \in Keys
  PROVE  KeyBelow(parent, key) = parent \o Regularize(key)
<1> DEFINE k == Regularize(key)
<1>1. k \in Seq(NoGaps)
  BY RegularizeIs
<1>2. KeyBelow(parent, key) = Regularize(parent \o k)
  BY DEF KeyBelow
<1> HIDE DEF k
<1>3. parent \o k \in Seq(NoGaps)
  BY <1>1, ConcatProperties
<1>4. Regularize(parent \o k) = parent \o k
  BY <1>3, RegularizeSame
<1> QED BY <1>2, <1>4 DEF k

\* So are the keys of arrays and the paths of wells.
LEMMA FlatKeySame ==
  ASSUME NEW key \in Keys
  PROVE  KeyBelow(<<>>, key) = Regularize(key)
<1>1. <<>> \in Seq(NoGaps) /\ Regularize(key) \in Seq(NoGaps)
  BY EmptySeq, RegularizeIs
<1>2. <<>> \o Regularize(key) = Regularize(key)
  BY <1>1, ConcatEmptySeq
<1> QED BY <1>1, <1>2, KeyBelowSame

LEMMA WellPathSame ==
  ASSUME NEW p \in PlateSettings, NEW w \in WellSettings, NamedWell(w)
  PROVE  WellPath(p, w) = Regularize(p.path) \o <<w.row, w.col>>
<1>1. p.path \in Keys
  BY DEF PlateSettings
<1> DEFINE k == Regularize(p.path)  u == <<w.row, w.col>>
<1>2. k \in Seq(NoGaps)
  BY <1>1, RegularizeIs
<1>3. u \in Seq(NoGaps)
  BY DEF NamedWell
<1>4. WellPath(p, w) = Regularize(k \o u)
  BY DEF WellPath
<1> HIDE DEF k, u
<1>5. k \o u \in Seq(NoGaps)
  BY <1>2, <1>3, ConcatProperties
<1>6. Regularize(k \o u) = k \o u
  BY <1>5, RegularizeSame
<1> QED BY <1>4, <1>6 DEF k, u

\* The key of a field is what get_unique_array_keys says it is.
LEMMA FieldKeySame ==
  ASSUME NEW p \in PlateSettings, NamedPlate(p), NEW f \in FieldIds(p)
  PROVE  FieldKey(p, f) = Regularize(p.path) \o <<p.wells[f[1]].row, p.wells[f[1]].col>>
                             \o Regularize(FieldAt(p, f).path)
<1> DEFINE w == p.wells[f[1]]  k == FieldAt(p, f).path
<1>1. w \in WellSettings /\ FieldAt(p, f) \in ImageSettings /\ NamedWell(w)
  BY FieldKeyIs DEF NamedPlate, FieldIds
<1>2. k \in Keys
  BY <1>1 DEF ImageSettings
<1>3. WellPath(p, w) = Regularize(p.path) \o <<w.row, w.col>>
  BY <1>1, WellPathSame
<1>4. WellPath(p, w) \in Seq(NoGaps)
  BY <1>1, WellPathIs
<1>5. FieldKey(p, f) = KeyBelow(WellPath(p, w), k)
  BY DEF FieldKey
<1>6. FieldKey(p, f) = WellPath(p, w) \o Regularize(k)
  BY <1>2, <1>4, <1>5, KeyBelowSame
<1> QED BY <1>3, <1>6

\* The key of an array among all arrays is the key of an array of the settings
\* or of a field of view.
LEMMA ArrayKeyFrom ==
  ASSUME NEW c \in StreamSettings, NEW w \in ToSet(Arrays(c))
  PROVE  \/ \E i \in 1 .. Len(c.arrays) : w.key = KeyBelow(<<>>, c.arrays[i].key)
         \/ \E i \in 1 .. Len(c.plates) : \E f \in FieldIds(c.plates[i]) :
               w.key = FieldKey(c.plates[i], f)
<1> DEFINE a == FlatArrays(c)  o == OfPlates(c)
<1>1. /\ a \in Seq(Entries) /\ o \in Seq(Seq(Entries)) /\ FlattenSeq(o) \in Seq(Entries)
      /\ Arrays(c) = a \o FlattenSeq(o)
      /\ Len(a) = Len(c.arrays) /\ Len(o) = Len(c.plates)
  BY ArraysType, FlatArraysType
<1>2. \A i \in 1 .. Len(c.arrays) : a[i] = [key |-> KeyBelow(<<>>, c.arrays[i].key),
                                           array |-> c.arrays[i], isHcs |-> FALSE]
  BY FlatArraysType
<1>3. \A i \in 1 .. Len(c.plates) : o[i] = PlateArrays(c.plates[i])
  BY ArraysType
<1> HIDE DEF a, o
<1>4. w \in ToSet(a) \/ w \in ToSet(FlattenSeq(o))
  BY <1>1, ConcatSet
<1>5. CASE w \in ToSet(a)
  <2>1. PICK i \in 1 .. Len(a) : w = a[i]
    <3>1. DOMAIN a = 1 .. Len(a)
      BY <1>1, LenProperties
    <3> QED BY <1>5, <3>1 DEF ToSet
  <2>2. i \in 1 .. Len(c.arrays)
    BY <1>1, <2>1
  <2>3. a[i] = [key |-> KeyBelow(<<>>, c.arrays[i].key), array |-> c.arrays[i],
                isHcs |-> FALSE]
    BY <1>2, <2>2
  <2>4. w.key = KeyBelow(<<>>, c.arrays[i].key)
    BY <2>1, <2>3
  <2> QED BY <2>2, <2>4
<1>6. CASE w \in ToSet(FlattenSeq(o))
  <2> DEFINE flat == FlattenSeq(o)
  <2>1. DOMAIN flat = 1 .. Len(flat) /\ SameFlat(o, o)
    BY <1>1, LenProperties, FlattenTogether DEF SameShape
  <2>2. PICK n \in 1 .. Len(flat) : w = flat[n]
    BY <1>6, <2>1 DEF ToSet
  <2>3. PICK i \in 1 .. Len(o) : \E k \in 1 .. Len(o[i]) : flat[n] = o[i][k]
    BY <2>1, <2>2 DEF SameFlat
  <2>4. PICK k \in 1 .. Len(o[i]) : flat[n] = o[i][k]
    BY <2>3
  <2> HIDE DEF flat
  <2>5. i \in 1 .. Len(c.plates) /\ o[i] = PlateArrays(c.plates[i])
    BY <1>1, <1>3
  <2> DEFINE p == c.plates[i]
  <2>6. p \in PlateSettings
    <3>1. c.plates \in Seq(PlateSettings)
      BY DEF StreamSettings
    <3> QED BY <2>5, <3>1, ElementOfSeq
  <2> HIDE DEF p
  <2>7. k \in 1 .. Len(FieldsOf(p))
    <3>1. Len(PlateArrays(p)) = Len(FieldsOf(p))
      BY <2>6, PlateArraysType
    <3> QED BY <2>5, <3>1 DEF p
  <2>8. /\ FieldsOf(p)[k] \in FieldIds(p)
        /\ PlateArrays(p)[k] = [key |-> FieldKey(p, FieldsOf(p)[k]),
                                array |-> FieldAt(p, FieldsOf(p)[k]).array,
                                isHcs |-> TRUE]
    BY <2>6, <2>7, PlateArraysType
  <2>9. w = PlateArrays(p)[k]
    BY <2>2, <2>4, <2>5 DEF p
  <2>10. w.key = FieldKey(p, FieldsOf(p)[k])
    BY <2>8, <2>9
  <2> QED BY <2>5, <2>8, <2>10 DEF p
<1> QED BY <1>4, <1>5, <1>6

\* There is an array for each of these keys.
LEMMA FlatKeyAmong ==
  ASSUME NEW c \in StreamSettings, NEW i \in 1 .. Len(c.arrays)
  PROVE  \E w \in ToSet(Arrays(c)) : w.key = KeyBelow(<<>>, c.arrays[i].key)
<1> DEFINE o == FlattenSeq(OfPlates(c))  a == FlatArrays(c)
<1>1. /\ a \in Seq(Entries) /\ o \in Seq(Entries) /\ Arrays(c) = a \o o
      /\ Len(a) = Len(c.arrays) /\ a[i].key = KeyBelow(<<>>, c.arrays[i].key)
  <2>1. a[i] = [key |-> KeyBelow(<<>>, c.arrays[i].key), array |-> c.arrays[i],
                isHcs |-> FALSE]
    BY FlatArraysType
  <2> QED BY <2>1, ArraysType, FlatArraysType
<1> HIDE DEF a, o
<1>2. a[i] \in ToSet(a)
  <2>1. DOMAIN a = 1 .. Len(a)
    BY <1>1, LenProperties
  <2> QED BY <1>1, <2>1 DEF ToSet
<1>3. a[i] \in ToSet(Arrays(c))
  BY <1>1, <1>2, ConcatSet
<1> QED BY <1>1, <1>3

LEMMA FieldKeyAmong ==
  ASSUME NEW c \in StreamSettings, NEW i \in 1 .. Len(c.plates),
         NEW f \in FieldIds(c.plates[i])
  PROVE  \E w \in ToSet(Arrays(c)) : w.key = FieldKey(c.plates[i], f)
<1> DEFINE p == c.plates[i]  o == OfPlates(c)
<1>1. p \in PlateSettings
  <2>1. c.plates \in Seq(PlateSettings)
    BY DEF StreamSettings
  <2> QED BY <2>1, ElementOfSeq
<1>2. f \in Range(FieldsOf(p)) /\ FieldsOf(p) \in Seq(FieldIds(p))
  BY <1>1, FieldIsListed, FieldsOfType
<1>3. PICK n \in 1 .. Len(FieldsOf(p)) : FieldsOf(p)[n] = f
  <2>1. DOMAIN FieldsOf(p) = 1 .. Len(FieldsOf(p))
    BY <1>2, LenProperties
  <2> QED BY <1>2, <2>1 DEF Range
<1>4. o[i] = PlateArrays(p)
  BY ArraysType
<1>5. /\ o \in Seq(Seq(Entries)) /\ FlatArrays(c) \in Seq(Entries)
      /\ FlattenSeq(o) \in Seq(Entries) /\ Arrays(c) = FlatArrays(c) \o FlattenSeq(o)
      /\ Len(o) = Len(c.plates)
  BY ArraysType, FlatArraysType
<1> HIDE DEF p, o
<1>6. /\ PlateArrays(p) \in Seq(Entries) /\ n \in 1 .. Len(PlateArrays(p))
      /\ PlateArrays(p)[n] = [key |-> FieldKey(p, FieldsOf(p)[n]),
                              array |-> FieldAt(p, FieldsOf(p)[n]).array, isHcs |-> TRUE]
  BY <1>1, <1>3, PlateArraysType
<1>7. PlateArrays(p)[n].key = FieldKey(p, f)
  BY <1>3, <1>6
<1>8. PlateArrays(p)[n] \in ToSet(PlateArrays(p))
  <2>1. DOMAIN PlateArrays(p) = 1 .. Len(PlateArrays(p))
    BY <1>6, LenProperties
  <2> QED BY <1>6, <2>1 DEF ToSet
<1>9. ToSet(o[i]) \subseteq ToSet(FlattenSeq(o))
  BY <1>5, FlattenHas
<1>10. PlateArrays(p)[n] \in ToSet(Arrays(c))
  <2>1. PlateArrays(p)[n] \in ToSet(FlattenSeq(o))
    BY <1>4, <1>8, <1>9
  <2> QED BY <1>5, <2>1, ConcatSet
<1> QED BY <1>7, <1>10 DEF p

\* The arrays of a stream are those that get_unique_array_keys names.
LEMMA KeysAsNamed ==
  ASSUME NEW c \in StreamSettings, Named(c)
  PROVE  {o.key : o \in Outputs(Arrays(c))} = UniqueKeys(c)
<1> DEFINE flat == {Regularize(c.arrays[i].key) : i \in DOMAIN c.arrays}
           Key(p, f) == Regularize(p.path) \o <<p.wells[f[1]].row, p.wells[f[1]].col>>
                           \o Regularize(FieldAt(p, f).path)
           fields == UNION {{Key(p, f) : f \in Range(FieldsOf(p))} : p \in Range(c.plates)}
<1>0. UniqueKeys(c) = flat \cup fields
  BY DEF UniqueKeys
<1>1. {o.key : o \in Outputs(Arrays(c))} = {w.key : w \in ToSet(Arrays(c))}
  <2>1. \A w : Output(w).key = w.key
    BY DEF Output
  <2>2. Outputs(Arrays(c)) = {Output(w) : w \in ToSet(Arrays(c))}
    BY DEF Outputs, ToSet, Range
  <2> QED BY <2>1, <2>2
<1>2. /\ c.arrays \in Seq(ArraySettings) /\ c.plates \in Seq(PlateSettings)
      /\ DOMAIN c.arrays = 1 .. Len(c.arrays) /\ DOMAIN c.plates = 1 .. Len(c.plates)
  BY LenProperties DEF StreamSettings
<1>3. \A i \in 1 .. Len(c.arrays) : KeyBelow(<<>>, c.arrays[i].key) = Regularize(c.arrays[i].key)
  <2>1. TAKE i \in 1 .. Len(c.arrays)
  <2>2. c.arrays[i] \in ArraySettings
    BY <1>2, ElementOfSeq
  <2>3. c.arrays[i].key \in Keys
    BY <2>2 DEF ArraySettings
  <2> QED BY <2>3, FlatKeySame
<1>4. ASSUME NEW i \in 1 .. Len(c.plates)
      PROVE  /\ \A f \in FieldIds(c.plates[i]) : FieldKey(c.plates[i], f) = Key(c.plates[i], f)
             /\ \A f \in FieldIds(c.plates[i]) : f \in Range(FieldsOf(c.plates[i]))
             /\ \A f \in Range(FieldsOf(c.plates[i])) : f \in FieldIds(c.plates[i])
  <2> DEFINE p == c.plates[i]
  <2>1. p \in PlateSettings /\ NamedPlate(p)
    BY <1>2, ElementOfSeq DEF Named
  <2> HIDE DEF p
  <2>2. \A f \in FieldIds(p) : FieldKey(p, f) = Key(p, f)
    BY <2>1, FieldKeySame
  <2>3. \A f \in FieldIds(p) : f \in Range(FieldsOf(p))
    BY <2>1, FieldIsListed
  <2>4. \A f \in Range(FieldsOf(p)) : f \in FieldIds(p)
    <3>1. FieldsOf(p) \in Seq(FieldIds(p))
      BY <2>1, FieldsOfType
    <3>2. ToSet(FieldsOf(p)) \subseteq FieldIds(p)
      BY <3>1, ElementsIn
    <3> QED BY <3>2 DEF ToSet, Range
  <2> QED BY <2>2, <2>3, <2>4 DEF p
<1> HIDE DEF Key
<1>5. ASSUME NEW w \in ToSet(Arrays(c)) PROVE w.key \in flat \cup fields
  <2>1. CASE \E i \in 1 .. Len(c.arrays) : w.key = KeyBelow(<<>>, c.arrays[i].key)
    BY <1>2, <1>3, <2>1
  <2>2. CASE \E i \in 1 .. Len(c.plates) : \E f \in FieldIds(c.plates[i]) :
               w.key = FieldKey(c.plates[i], f)
    <3>1. PICK i \in 1 .. Len(c.plates) : \E f \in FieldIds(c.plates[i]) :
               w.key = FieldKey(c.plates[i], f)
      BY <2>2
    <3>2. PICK f \in FieldIds(c.plates[i]) : w.key = FieldKey(c.plates[i], f)
      BY <3>1
    <3>3. w.key = Key(c.plates[i], f) /\ f \in Range(FieldsOf(c.plates[i]))
      BY <1>4, <3>2
    <3>4. c.plates[i] \in Range(c.plates)
      BY <1>2 DEF Range
    <3> QED BY <3>3, <3>4
  <2> QED BY <2>1, <2>2, ArrayKeyFrom
<1>6. ASSUME NEW k \in flat PROVE \E w \in ToSet(Arrays(c)) : w.key = k
  <2>1. PICK i \in 1 .. Len(c.arrays) : k = Regularize(c.arrays[i].key)
    BY <1>2, <1>6
  <2> QED BY <1>3, <2>1, FlatKeyAmong
<1>7. ASSUME NEW k \in fields PROVE \E w \in ToSet(Arrays(c)) : w.key = k
  <2>1. PICK p \in Range(c.plates) : k \in {Key(p, f) : f \in Range(FieldsOf(p))}
    BY <1>7
  <2>2. PICK f \in Range(FieldsOf(p)) : k = Key(p, f)
    BY <2>1
  <2>3. PICK i \in 1 .. Len(c.plates) : p = c.plates[i]
    BY <1>2, <2>1 DEF Range
  <2>4. f \in FieldIds(c.plates[i]) /\ k = FieldKey(c.plates[i], f)
    BY <1>4, <2>2, <2>3
  <2> QED BY <2>4, FieldKeyAmong
<1> HIDE DEF flat, fields
<1> QED BY <1>0, <1>1, <1>5, <1>6, <1>7
-----------------------------------------------------------------------------
(* Plates and wells *)

\* The last of some places.
LEMMA LastOf ==
  ASSUME NEW n \in Nat, NEW T, T \subseteq 1 .. n, T # {}
  PROVE  \E x \in T : \A y \in T : y <= x
<1> DEFINE D == {n - x : x \in T}
<1>1. D \subseteq Nat /\ D # {}
  <2>1. \A x \in T : x \in 1 .. n
    OBVIOUS
  <2>2. \A x \in T : n - x \in Nat
    BY <2>1
  <2> QED BY <2>2
<1> HIDE DEF D
<1>2. PICK d \in D : \A e \in D : d <= e
  BY <1>1, LeastNatural
<1>3. PICK x \in T : d = n - x
  BY DEF D
<1>4. \A y \in T : n - x <= n - y
  BY <1>2, <1>3 DEF D
<1>5. \A y \in T : y \in Int /\ x \in Int
  OBVIOUS
<1> QED BY <1>4, <1>5

\* A place is the last, or another follows.
LEMMA LastOrNext ==
  ASSUME NEW n \in Nat, NEW i \in 1 .. n
  PROVE  i = n \/ i + 1 \in 1 .. n
OBVIOUS

\* A stream that is made with an error has a field with a key of its own: what
\* else validate_hcs_settings complains about, Plate refuses.
LEMMA OnlyKeysComplain ==
  ASSUME settings \in StreamSettings, Named(settings), NEW unset,
         FieldsTried(unset).ok, Complains(settings)
  PROVE  FieldsWithKey(settings) # {}
<1> DEFINE all == AllFields(settings)
<1>1. PICK i \in DOMAIN settings.plates :
         LET p == settings.plates[i]
         IN  \/ ~IsInjective(p.rows) \/ ~IsInjective(p.cols)
             \/ \E f \in Range(FieldsOf(p)) : FieldAt(p, f).array.key # NoKey
  BY DEF Complains
<1> DEFINE p == settings.plates[i]
<1>2. p \in PlateSettings /\ NamedPlate(p) /\ i \in 1 .. Len(settings.plates)
  <2>1. settings.plates \in Seq(PlateSettings)
    BY DEF StreamSettings
  <2> QED BY <2>1, LenProperties, ElementOfSeq DEF Named
<1>3. \A f \in FieldIds(p) : <<i, f>> \in Range(all)
  BY <1>2, AllFieldsHas
<1>4. CASE \E f \in Range(FieldsOf(p)) : FieldAt(p, f).array.key # NoKey
  <2>1. PICK f \in Range(FieldsOf(p)) : FieldAt(p, f).array.key # NoKey
    BY <1>4
  <2>2. f \in FieldIds(p)
    <3>1. FieldsOf(p) \in Seq(FieldIds(p))
      BY <1>2, FieldsOfType
    <3>2. ToSet(FieldsOf(p)) \subseteq FieldIds(p)
      BY <3>1, ElementsIn
    <3> QED BY <3>2 DEF ToSet, Range
  <2>3. <<i, f>> \in FieldsWithKey(settings)
    BY <1>3, <2>1, <2>2 DEF FieldsWithKey
  <2> QED BY <2>3
<1>5. CASE ~IsInjective(p.rows) \/ ~IsInjective(p.cols)
  <2>1. all \in Seq(AtIds(settings)) /\ DOMAIN all = 1 .. Len(all) /\ Len(all) \in Nat
    BY AllFieldsType, LenProperties
  <2> DEFINE T == {n \in 1 .. Len(all) : all[n][1] = i}
  <2>2. <<1, 1>> \in FieldIds(p)
    BY <1>2 DEF FieldIds, NamedPlate, NamedWell
  <2>3. PICK m \in 1 .. Len(all) : all[m] = <<i, <<1, 1>>>>
    BY <1>3, <2>1, <2>2 DEF Range
  <2>4. T # {} /\ T \subseteq 1 .. Len(all)
    BY <2>3
  <2> HIDE DEF all
  <2>5. PICK n \in T : \A k \in T : k <= n
    <3> HIDE DEF T
    <3> QED BY <2>1, <2>4, LastOf
  <2>6. n = Len(all) \/ all[n + 1][1] # all[n][1]
    <3>1. n \in 1 .. Len(all) /\ all[n][1] = i
      OBVIOUS
    <3>2. CASE n + 1 \in T
      <4>1. n + 1 <= n
        BY <2>5, <3>2
      <4> QED BY <2>1, <3>1, <4>1
    <3>3. CASE n + 1 \notin T
      <4>1. n = Len(all) \/ n + 1 \in 1 .. Len(all)
        BY <2>1, <3>1, LastOrNext, Zenon
      <4> QED BY <3>1, <3>3, <4>1
    <3> QED BY <3>2, <3>3
  <2>7. ~PlateAccepts(p, UsedBy(p, unset))
    BY <1>5 DEF PlateAccepts, GoodNames
  <2>8. n \in DOMAIN all /\ settings.plates[all[n][1]] = p
    BY <2>1
  <2> HIDE DEF p, T
  <2>9. ~FieldsTried(unset).ok
    <3> DEFINE Throws(k) == ArrayThrows(FieldAt(settings.plates[all[k][1]], all[k][2]).array)
               Refused(k) == /\ k = Len(all) \/ all[k + 1][1] # all[k][1]
                             /\ LET q == settings.plates[all[k][1]]
                                IN  ~PlateAccepts(q, UsedBy(q, unset))
               stops == {k \in DOMAIN all : Throws(k) \/ Refused(k)}
    <3>1. FieldsTried(unset).ok <=> stops = {}
      BY Zenon DEF FieldsTried, all
    <3>2. Refused(n)
      BY <2>6, <2>7, <2>8
    <3> HIDE DEF Throws, Refused
    <3>3. n \in stops
      BY <2>8, <3>2
    <3> QED BY <3>1, <3>3
  <2> QED BY <2>9
<1> QED BY <1>1, <1>4, <1>5

\* Plates that are alike have the same wells.
Wells(p) == {WellPath(p, w) : w \in Range(p.wells)}

LEMMA WellsAlike ==
  ASSUME NEW p \in PlateSettings, NEW q \in PlateSettings, AlikePlate(p, q)
  PROVE  Wells(p) = Wells(q)
<1>1. /\ DOMAIN p.wells = 1 .. Len(p.wells) /\ DOMAIN q.wells = 1 .. Len(q.wells)
      /\ Len(p.wells) = Len(q.wells) /\ p.path = q.path
  BY LenProperties DEF PlateSettings, AlikePlate
<1>2. \A j \in 1 .. Len(q.wells) : WellPath(p, p.wells[j]) = WellPath(q, q.wells[j])
  BY DEF AlikePlate, AlikeWell, WellPath
<1> QED BY <1>1, <1>2 DEF Wells, Range

\* What commit_hcs_settings_ makes are the plates and wells of the settings, when
\* no two plates have the same path.
PathsOf(s) == {Regularize(p.path) : p \in Range(s.plates)}
WellsOf(s) == UNION {Wells(FirstOf(s, path)) : path \in PathsOf(s)}

\* Settings that are alike have plates at the same paths.
LEMMA PathsAlike ==
  ASSUME NEW s \in StreamSettings, NEW c \in StreamSettings, Alike(s, c)
  PROVE  PathsOf(s) = PathsOf(c)
<1>1. /\ DOMAIN s.plates = 1 .. Len(s.plates) /\ DOMAIN c.plates = 1 .. Len(c.plates)
      /\ Len(s.plates) = Len(c.plates)
  BY LenProperties DEF StreamSettings, Alike
<1>2. \A i \in 1 .. Len(c.plates) : s.plates[i].path = c.plates[i].path
  BY DEF Alike, AlikePlate
<1> QED BY <1>1, <1>2 DEF PathsOf, Range

LEMMA WellsApart ==
  ASSUME NEW s \in StreamSettings, config \in StreamSettings, Alike(s, config), PlatesApart
  PROVE  WellsOf(s) = UNION {Wells(p) : p \in Range(config.plates)}
<1> DEFINE c == config
<1>1. /\ DOMAIN s.plates = 1 .. Len(s.plates) /\ DOMAIN c.plates = 1 .. Len(c.plates)
      /\ Len(s.plates) = Len(c.plates)
      /\ s.plates \in Seq(PlateSettings) /\ c.plates \in Seq(PlateSettings)
  BY LenProperties DEF StreamSettings, Alike
<1>2. \A i \in 1 .. Len(c.plates) : s.plates[i].path = c.plates[i].path
  BY DEF Alike, AlikePlate
<1>3. \A i \in 1 .. Len(c.plates) : Wells(s.plates[i]) = Wells(c.plates[i])
  <2>1. TAKE i \in 1 .. Len(c.plates)
  <2>2. s.plates[i] \in PlateSettings /\ c.plates[i] \in PlateSettings
    BY <1>1, ElementOfSeq
  <2>3. AlikePlate(s.plates[i], c.plates[i])
    BY DEF Alike
  <2> QED BY <2>2, <2>3, WellsAlike
<1>4. \A i, j \in 1 .. Len(c.plates) :
         Regularize(s.plates[i].path) = Regularize(s.plates[j].path) => i = j
  BY <1>1, <1>2 DEF PlatesApart
<1>5. \A i \in 1 .. Len(c.plates) : FirstOf(s, Regularize(s.plates[i].path)) = s.plates[i]
  <2>1. TAKE i \in 1 .. Len(c.plates)
  <2>2. FirstOf(s, Regularize(s.plates[i].path)) \in Range(s.plates)
        /\ Regularize(FirstOf(s, Regularize(s.plates[i].path)).path)
              = Regularize(s.plates[i].path)
    BY <1>1, FirstOfIs
  <2>3. PICK j \in 1 .. Len(c.plates) : FirstOf(s, Regularize(s.plates[i].path)) = s.plates[j]
    BY <1>1, <2>2 DEF Range
  <2>4. j = i
    BY <1>4, <2>2, <2>3
  <2> QED BY <2>3, <2>4
<1> HIDE DEF c
<1>6. ASSUME NEW x \in WellsOf(s) PROVE x \in UNION {Wells(p) : p \in Range(c.plates)}
  <2>1. PICK path \in PathsOf(s) : x \in Wells(FirstOf(s, path))
    BY <1>6 DEF WellsOf
  <2>2. PICK i \in 1 .. Len(c.plates) : path = Regularize(s.plates[i].path)
    BY <1>1, <2>1 DEF PathsOf, Range
  <2>3. x \in Wells(c.plates[i])
    BY <1>3, <1>5, <2>1, <2>2
  <2>4. c.plates[i] \in Range(c.plates)
    BY <1>1 DEF Range
  <2> QED BY <2>3, <2>4
<1>7. ASSUME NEW x \in UNION {Wells(p) : p \in Range(c.plates)} PROVE x \in WellsOf(s)
  <2>1. PICK p \in Range(c.plates) : x \in Wells(p)
    BY <1>7
  <2>2. PICK i \in 1 .. Len(c.plates) : p = c.plates[i]
    BY <1>1, <2>1 DEF Range
  <2>3. x \in Wells(FirstOf(s, Regularize(s.plates[i].path)))
    BY <1>3, <1>5, <2>1, <2>2
  <2>4. Regularize(s.plates[i].path) \in PathsOf(s)
    BY <1>1 DEF PathsOf, Range
  <2> QED BY <2>3, <2>4 DEF WellsOf
<1> QED BY <1>6, <1>7 DEF c
-----------------------------------------------------------------------------
(* What a stream is asked for *)

\* What a stream keeps of the settings it is made of: its error, if any, is
\* about the key of a field, and its plates and wells are those asked for.
PlatesAsAsked ==
    /\ DOMAIN plates = PathsOf(config)
    /\ PlatesApart => wells = UNION {Wells(p) : p \in Range(config.plates)}
Asked ==
    /\ pc \in {"commit", "arrays", "plates"} =>
          /\ error => Complains(settings)
          /\ ~reused => FieldsWithKey(settings) = FieldsWithKey(config)
    /\ pc \in {"commit", "arrays", "plates"} \cup Streaming => Named(config)
    /\ pc \in Streaming => PlatesAsAsked
    /\ pc = "open" /\ error => reused \/ FieldsWithKey(config) # {}

\* The conditions are about the settings the caller has in mind.
LEMMA ConditionsSame ==
  ASSUME UNCHANGED config
  PROVE  (PlatesApart' <=> PlatesApart) /\ (Orderly' <=> Orderly)
<1>1. PlatesApart' <=> PlatesApart
  BY DEF PlatesApart
<1>2. Orderly' <=> Orderly
  BY DEF Orderly
<1> QED BY <1>1, <1>2

LEMMA PlatesSame ==
  ASSUME UNCHANGED <<config, plates, wells>>
  PROVE  (PlatesAsAsked => PlatesAsAsked') /\ (Named(config) => Named(config)')
         /\ FieldsWithKey(config)' = FieldsWithKey(config)
<1>1. PathsOf(config') = PathsOf(config) /\ (Named(config) => Named(config'))
      /\ FieldsWithKey(config') = FieldsWithKey(config)
  OBVIOUS
<1>2. UNION {Wells(p) : p \in Range(config'.plates)} = UNION {Wells(p) : p \in Range(config.plates)}
  OBVIOUS
<1> QED BY <1>1, <1>2, ConditionsSame DEF PlatesAsAsked

\* The constructor of the stream.
LEMMA AskedCreateStream ==
  ASSUME OwnerInv, Asked, CreateStream
  PROVE  Asked'
<1>1. /\ origin # "none" /\ UNCHANGED <<config, settings>>
      /\ reused' = (FieldsWithKey(settings) # FieldsWithKey(config))
  BY DEF CreateStream, Complete, caller
<1>2. \/ pc' = "refused"
      \/ pc' = "commit" /\ Accepts(settings) /\ error' = Complains(settings)
  BY DEF CreateStream, Refuse
<1>3. CASE pc' = "refused"
  BY <1>3 DEF Asked, Streaming
<1>4. CASE pc' = "commit" /\ Accepts(settings) /\ error' = Complains(settings)
  <2>1. settings \in StreamSettings /\ config \in StreamSettings /\ Alike(settings, config)
    BY <1>1, SettingsAssumption DEF OwnerInv, Kept
  <2>2. Named(config)
    BY <1>4, <2>1, AcceptedNamed
  <2>3. Named(config') /\ Complains(settings') = Complains(settings)
        /\ FieldsWithKey(config') = FieldsWithKey(config)
        /\ FieldsWithKey(settings') = FieldsWithKey(settings)
    BY <1>1, <2>2
  <2>4. error' => Complains(settings)
    BY <1>4
  <2>5. ~reused' => FieldsWithKey(settings) = FieldsWithKey(config)
    BY <1>1
  <2> QED BY <1>4, <2>3, <2>4, <2>5 DEF Asked, Streaming
<1> QED BY <1>2, <1>3, <1>4

\* The steps in which it is made.
LEMMA AskedMaking ==
  ASSUME Asked, CommitStore \/ ConfigureArrays
  PROVE  Asked'
<1>1. UNCHANGED <<config, settings, reused>> /\ pc \in {"commit", "arrays"}
      /\ \/ pc' = "refused"
         \/ pc' \in {"arrays", "plates"} /\ UNCHANGED error
  BY DEF CommitStore, ConfigureArrays, Refuse, caller
<1>2. CASE pc' = "refused"
  BY <1>2 DEF Asked, Streaming
<1>3. CASE pc' \in {"arrays", "plates"} /\ UNCHANGED error
  <2>1. Named(config') /\ Complains(settings') = Complains(settings)
        /\ FieldsWithKey(config') = FieldsWithKey(config)
        /\ FieldsWithKey(settings') = FieldsWithKey(settings)
    BY <1>1 DEF Asked
  <2> QED BY <1>1, <1>3, <2>1 DEF Asked, Streaming
<1> QED BY <1>1, <1>2, <1>3

\* commit_hcs_settings_: Plate accepts what is left of the complaints, and the
\* plates and wells are those of the settings.
LEMMA AskedCommitPlates ==
  ASSUME OwnerInv, Held, LateInv, Asked, NEW unset, CommitPlates(unset)
  PROVE  Asked'
<1> DEFINE paths == {Regularize(p.path) : p \in Range(settings.plates)}
           new == UNION {{WellPath(p, w) : w \in Range(p.wells)} :
                                      p \in {FirstOf(settings, path) : path \in paths}}
<1>1. /\ pc = "plates" /\ UNCHANGED <<config, reused>>
      /\ \/ pc' = "refused"
         \/ /\ pc' = "open" /\ FieldsTried(unset).ok /\ UNCHANGED error
            /\ DOMAIN plates' = paths /\ wells' = new
  BY Zenon DEF CommitPlates, Refuse
<1>2. CASE pc' = "refused"
  BY <1>2 DEF Asked, Streaming
<1>3. CASE /\ pc' = "open" /\ FieldsTried(unset).ok /\ UNCHANGED error
           /\ DOMAIN plates' = paths /\ wells' = new
  <2>1. settings \in StreamSettings /\ config \in StreamSettings /\ Alike(settings, config)
    BY <1>1, SettingsAssumption DEF OwnerInv, Kept, Held
  <2>2. paths = PathsOf(settings) /\ new = WellsOf(settings)
    <3>1. paths = PathsOf(settings)
      BY DEF PathsOf
    <3>2. new = WellsOf(settings)
      BY DEF WellsOf, PathsOf, Wells
    <3> QED BY <3>1, <3>2
  <2> HIDE DEF paths, new
  <2>3. PathsOf(settings) = PathsOf(config)
        /\ (PlatesApart => WellsOf(settings) = UNION {Wells(p) : p \in Range(config.plates)})
    BY <2>1, PathsAlike, WellsApart
  <2>4. PlatesAsAsked'
    <3>1. PathsOf(config') = PathsOf(config)
          /\ UNION {Wells(p) : p \in Range(config'.plates)}
                = UNION {Wells(p) : p \in Range(config.plates)}
      BY <1>1
    <3> QED BY <1>1, <1>3, <2>2, <2>3, <3>1, ConditionsSame DEF PlatesAsAsked
  <2>5. Named(config')
    BY <1>1 DEF Asked
  <2>6. error => reused \/ FieldsWithKey(config) # {}
    <3>1. SUFFICES ASSUME error, ~reused PROVE FieldsWithKey(config) # {}
      OBVIOUS
    <3>2. Complains(settings) /\ FieldsWithKey(settings) = FieldsWithKey(config)
      BY <1>1, <3>1 DEF Asked
    <3>3. Accepts(settings)
      BY <1>1 DEF LateInv
    <3>4. Named(settings)
      BY <2>1, <3>3, AlikeSelf, AcceptedNamed
    <3> QED BY <1>3, <2>1, <3>2, <3>4, OnlyKeysComplain
  <2>7. FieldsWithKey(config') = FieldsWithKey(config)
    BY <1>1
  <2> QED BY <1>1, <1>3, <2>4, <2>5, <2>6, <2>7 DEF Asked, Streaming
<1> QED BY <1>1, <1>2, <1>3

\* Every step keeps that.
LEMMA AskedNext == OwnerInv /\ Held /\ LateInv /\ Asked /\ [Next]_vars => Asked'
<1> SUFFICES ASSUME OwnerInv, Held, LateInv, Asked, [Next]_vars PROVE Asked'
  OBVIOUS
<1>1. CASE UNCHANGED vars
  <2>1. UNCHANGED <<config, settings, plates, wells, pc, error, reused>>
    BY <1>1 DEF vars, stream, made, caller
  <2>2. Complains(settings') = Complains(settings)
        /\ FieldsWithKey(settings') = FieldsWithKey(settings)
    BY <2>1
  <2> QED BY <2>1, <2>2, PlatesSame DEF Asked
<1>2. CASE \/ StartBuilding \/ Load \/ LoadFails \/ GiveBackBuilt \/ GiveBackLoaded
           \/ \E slot \in ToSet(BuildLists(config)) : CreateList(slot)
           \/ \E format \in {"yaml", "json"} : Dump(format)
  <2>1. UNCHANGED <<config, plates, wells, pc, error, reused>> /\ pc \in {"none", "open"}
    BY <1>2 DEF StartBuilding, Load, LoadFails, GiveBackBuilt, GiveBackLoaded, CreateList, Dump,
                stream, made, NoStream, Idle
  <2> QED BY <2>1, PlatesSame DEF Asked, Streaming
<1>3. CASE CreateStream
  BY <1>3, AskedCreateStream
<1>4. CASE CommitStore \/ ConfigureArrays
  BY <1>4, AskedMaking
<1>5. ASSUME NEW unset \in UnsetIds, CommitPlates(unset) PROVE Asked'
  BY <1>5, AskedCommitPlates
<1>6. CASE \/ \E o \in outputs : TakeFrames(o) \/ WriteCustomMetadata(o) \/ FinalizeArray(o)
           \/ Close \/ (\E p \in groups : WriteGroup(p)) \/ WrittenAll
  <2>1. UNCHANGED <<config, plates, wells, reused>> /\ pc \in Streaming /\ pc' \in Streaming
        /\ (pc' = "open" => pc = "open" /\ UNCHANGED error)
    BY <1>6 DEF TakeFrames, WriteCustomMetadata, FinalizeArray, Close, WriteGroup, WrittenAll,
                Fail, Streaming, caller, made
  <2> QED BY <2>1, PlatesSame DEF Asked, Streaming
<1>7. CASE Gone
  BY <1>7 DEF Gone, Asked, Streaming
<1> QED BY <1>1, <1>2, <1>3, <1>4, <1>5, <1>6, <1>7 DEF Next
-----------------------------------------------------------------------------
(* What close writes *)

\* What finalize_array writes of an array.
Level(o, l) == o.key \o <<ToString(l - 1)>>

LEMMA FilesOfAre ==
  ASSUME NEW o
  PROVE  /\ NodeWritten(o) =>
               /\ o.key \in DOMAIN FilesOf(o)
               /\ FilesOf(o)[o.key] = [kind |-> IF o.grouped THEN "multiscale" ELSE "array",
                                       custom |-> o.key \in custom]
         /\ o.grouped => \A l \in 1 .. frames[o.key] :
               /\ Level(o, l) \in DOMAIN FilesOf(o)
               /\ Level(o, l) # o.key =>
                     FilesOf(o)[Level(o, l)] = [kind |-> "array", custom |-> FALSE]
         /\ ~o.grouped => DOMAIN FilesOf(o) \subseteq {o.key}
<1> DEFINE kind == IF o.grouped THEN "multiscale" ELSE "array"
           says == [kind |-> kind, custom |-> o.key \in custom]
           node == IF NodeWritten(o) THEN Put(<<>>, o.key, says) ELSE <<>>
           levels == [q \in {Level(o, l) : l \in 1 .. frames[o.key]} |->
                        [kind |-> "array", custom |-> FALSE]]
<1>1. FilesOf(o) = IF o.grouped THEN Override(node, levels) ELSE node
  BY DEF FilesOf, Level
<1>2. /\ DOMAIN node \subseteq {o.key}
      /\ NodeWritten(o) => o.key \in DOMAIN node /\ node[o.key] = says
  <2> HIDE DEF says
  <2> QED BY DEF Put, Override
<1>3. \A l \in 1 .. frames[o.key] :
         Level(o, l) \in DOMAIN levels /\ levels[Level(o, l)] = [kind |-> "array", custom |-> FALSE]
  OBVIOUS
<1> HIDE DEF node, levels, says
<1>4. /\ DOMAIN Override(node, levels) = DOMAIN node \cup DOMAIN levels
      /\ \A x \in DOMAIN node : Override(node, levels)[x] = node[x]
      /\ \A x \in DOMAIN levels : x \notin DOMAIN node => Override(node, levels)[x] = levels[x]
  BY DEF Override
<1>5. NodeWritten(o) => o.key \in DOMAIN FilesOf(o) /\ FilesOf(o)[o.key] = says
  BY <1>1, <1>2, <1>4
<1>6. ASSUME o.grouped, NEW l \in 1 .. frames[o.key]
      PROVE  /\ Level(o, l) \in DOMAIN FilesOf(o)
             /\ Level(o, l) # o.key =>
                   FilesOf(o)[Level(o, l)] = [kind |-> "array", custom |-> FALSE]
  BY <1>1, <1>2, <1>3, <1>4, <1>6
<1>7. ~o.grouped => DOMAIN FilesOf(o) \subseteq {o.key}
  BY <1>1, <1>2
<1> QED BY <1>5, <1>6, <1>7 DEF says

\* Nothing else than the nodes of the array.
LEMMA FilesOfNodes ==
  ASSUME TypeInv, pc \in Streaming, NEW o \in outputs
  PROVE  DOMAIN FilesOf(o) \subseteq {o.key} \cup LevelPaths(o)
<1> SUFFICES ASSUME NEW p \in DOMAIN FilesOf(o), p # o.key PROVE p \in LevelPaths(o)
  OBVIOUS
<1>1. o.grouped
  BY FilesOfAre
<1>2. PICK l \in 1 .. frames[o.key] : p = o.key \o <<ToString(l - 1)>>
  BY FilesOfDomain
<1>3. l \in DOMAIN o.levels
  BY DEF TypeInv, Counted
<1> QED BY <1>1, <1>2, <1>3 DEF LevelPaths

\* It depends on the frames and the custom metadata it was given.
LEMMA FilesOfSame ==
  ASSUME UNCHANGED <<frames, custom>>, NEW o
  PROVE  FilesOf(o)' = FilesOf(o)
BY DEF FilesOf, NodeWritten

\* No node lies below the metadata of another.
LEMMA NothingBlocked ==
  ASSUME OwnerInv, NodesInv, pc \in Streaming, Orderly, NEW p \in Paths
  PROVE  ~Blocked(p)
<1> SUFFICES ASSUME NEW o \in outputs, IsPrefix(p \o <<"zarr.json">>, o.key) PROVE FALSE
  BY DEF Blocked
<1>1. Made /\ config \in Configs /\ outputs = Outputs(Arrays(config))
  BY StreamNodes
<1>2. o.key \in Paths /\ o.key \in DOMAIN Tree(config)
  BY <1>1, OutputsAre
<1>3. \A i \in DOMAIN o.key : o.key[i] \notin MetadataNames
  BY <1>1, <1>2, TreeNodes
<1> DEFINE q == p \o <<"zarr.json">>  k == o.key
<1>4. q[Len(p) + 1] = "zarr.json" /\ Len(q) = Len(p) + 1 /\ Len(p) \in Nat
  BY PathBelow, LenProperties DEF Paths
<1>5. IsPrefix(q, k)
  OBVIOUS
<1> HIDE DEF q, k
<1>6. Len(q) <= Len(k) /\ SubSeq(q, 1, Len(q)) = SubSeq(k, 1, Len(q))
  BY <1>5 DEF IsPrefix
<1>7. q \in Seq(NoGaps \cup {"zarr.json"})
  BY LongerSeq DEF Paths, q
<1>8. k \in Seq(NoGaps)
  BY <1>2 DEF k, Paths
<1>9. Len(k) \in Nat /\ DOMAIN k = 1 .. Len(k) /\ Len(q) \in 0 .. Len(k)
  BY <1>4, <1>6, <1>8, LenProperties
<1>10. \A i \in 1 .. Len(q) : SubSeq(k, 1, Len(q))[i] = k[i]
  BY <1>8, <1>9, FirstOfPath
<1>11. SubSeq(q, 1, Len(q)) = q
  BY <1>7, SubSeqFull
<1>12. Len(p) + 1 \in 1 .. Len(q)
  BY <1>4
<1>13. k[Len(p) + 1] = "zarr.json"
  BY <1>4, <1>6, <1>10, <1>11, <1>12
<1>14. Len(p) + 1 \in DOMAIN k
  BY <1>9, <1>12
<1> QED BY <1>3, <1>13, <1>14, SettingsAssumption DEF k

\* What is written stays as it was written: at close, what the arrays say is in
\* the store but for those still to be written, then what the groups say.
Closing == {"finalize", "groups", "closed"}
Lands(f) == \A p \in DOMAIN f : p \in DOMAIN files /\ files[p] = f[p]
GroupLanded(p) == p \in DOMAIN files /\ files[p] = [kind |-> GroupKind(p), custom |-> FALSE]
ArraysLanded ==
    pc \in {"finalize", "groups"} \/ (pc = "closed" /\ closed = "ok") =>
        \A o \in outputs : (pc = "finalize" /\ o.key \in pending) \/ Lands(FilesOf(o))
GroupsLanded ==
    pc = "groups" \/ (pc = "closed" /\ closed = "ok") =>
        \A p \in groups : (pc = "groups" /\ p \in pending) \/ GroupLanded(p)
\* close fails for a reason.
Excused ==
    pc = "closed" /\ closed # "ok" => ioFailed \/ error \/ \E p \in DOMAIN plates : HasUnused(p)
Landed == Orderly => ArraysLanded /\ GroupsLanded /\ Excused

\* What is to be written depends on what does not change at close.
LEMMA ContentsSame ==
  ASSUME UNCHANGED <<config, frames, custom, plates, wells>>, NEW x
  PROVE  /\ FilesOf(x)' = FilesOf(x) /\ GroupKind(x)' = GroupKind(x)
         /\ HasUnused(x)' <=> HasUnused(x)
         /\ Orderly' <=> Orderly
<1>1. GroupKind(x)' = GroupKind(x)
  BY DEF GroupKind
<1>2. HasUnused(x)' <=> HasUnused(x)
  BY DEF HasUnused
<1> QED BY <1>1, <1>2, FilesOfSame, ConditionsSame

\* Nothing is said before close.
LEMMA LandedElse ==
  ASSUME pc' \notin Closing
  PROVE  Landed'
BY DEF Closing, Landed, ArraysLanded, GroupsLanded, Excused

\* Files of one node are put over those of others.
LEMMA OverOthers ==
  ASSUME NEW f, files' = Override(f, files)
  PROVE  /\ \A p \in DOMAIN f : p \in DOMAIN files' /\ files'[p] = f[p]
         /\ \A p \in DOMAIN files : p \notin DOMAIN f => p \in DOMAIN files' /\ files'[p] = files[p]
BY DEF Override

\* finalize_array fails for a reason, and writes over no other array.
LEMMA LandedFinalize ==
  ASSUME OwnerInv, NodesInv, TypeInv, Landed, NEW o \in outputs, FinalizeArray(o)
  PROVE  Landed'
<1>1. /\ pc = "finalize" /\ pc \in Streaming /\ o.key \in pending
      /\ UNCHANGED <<config, outputs, groups, plates, wells, frames, custom>>
      /\ \/ /\ files' = Override(FilesOf(o), files) /\ pending' = pending \ {o.key}
            /\ pc' = pc
         \/ pc' = "closed" /\ closed' = "error" /\ ioFailed' = ~Blocked(o.key)
  BY DEF FinalizeArray, Fail, caller, Streaming
<1> SUFFICES ASSUME Orderly PROVE ArraysLanded' /\ GroupsLanded' /\ Excused'
  BY <1>1, ContentsSame DEF Landed
<1>2. Made /\ config \in Configs /\ outputs = Outputs(Arrays(config)) /\ groups = GroupPaths(config)
  BY <1>1, StreamNodes
<1>3. CASE pc' = "closed" /\ closed' = "error" /\ ioFailed' = ~Blocked(o.key)
  <2>1. o.key \in Paths
    BY <1>2, OutputsAre
  <2>2. ioFailed'
    BY <1>1, <1>3, <2>1, NothingBlocked
  <2> QED BY <1>3, <2>2 DEF ArraysLanded, GroupsLanded, Excused
<1>4. CASE /\ files' = Override(FilesOf(o), files) /\ pending' = pending \ {o.key}
           /\ pc' = pc
  <2>1. \A q \in outputs : (q.key \in pending) \/ Lands(FilesOf(q))
    BY <1>1 DEF Landed, ArraysLanded
  <2>2. ASSUME NEW q \in outputs
        PROVE  q.key \in pending' \/ \A p \in DOMAIN FilesOf(q) :
                                        p \in DOMAIN files' /\ files'[p] = FilesOf(q)[p]
    <3>1. CASE q = o
      BY <1>4, <3>1, OverOthers
    <3>2. CASE q # o
      <4>1. ({o.key} \cup LevelPaths(o)) \cap ({q.key} \cup LevelPaths(q)) = {}
        BY <1>2, <3>2, NodesApart
      <4>2. q.key # o.key
        BY <4>1
      <4>3. CASE q.key \in pending
        BY <1>4, <4>2, <4>3
      <4>4. CASE Lands(FilesOf(q))
        <5>1. DOMAIN FilesOf(q) \cap DOMAIN FilesOf(o) = {}
          BY <1>1, <4>1, FilesOfNodes
        <5>2. \A p \in DOMAIN FilesOf(q) : p \in DOMAIN files /\ files[p] = FilesOf(q)[p]
          BY <4>4 DEF Lands
        <5> QED BY <1>4, <5>1, <5>2, OverOthers
      <4> QED BY <2>1, <4>3, <4>4
    <3> QED BY <3>1, <3>2
  <2>3. \A q \in outputs' : q.key \in pending' \/ Lands(FilesOf(q))'
    <3>1. TAKE q \in outputs'
    <3>2. FilesOf(q)' = FilesOf(q)
      BY <1>1, ContentsSame
    <3> QED BY <1>1, <2>2, <3>1, <3>2 DEF Lands
  <2> QED BY <1>1, <1>4, <2>3 DEF ArraysLanded, GroupsLanded, Excused
<1> QED BY <1>1, <1>3, <1>4

\* Nor does the metadata of a group.
LEMMA LandedWriteGroup ==
  ASSUME OwnerInv, NodesInv, TypeInv, Landed, NEW p \in groups, WriteGroup(p)
  PROVE  Landed'
<1> DEFINE says == [kind |-> GroupKind(p), custom |-> FALSE]
<1>1. /\ pc = "groups" /\ pc \in Streaming /\ p \in pending
      /\ UNCHANGED <<config, outputs, groups, plates, wells, frames, custom>>
      /\ \/ /\ files' = Put(files, p, says) /\ pending' = pending \ {p} /\ pc' = pc
         \/ /\ pc' = "closed" /\ closed' \in {"error", "thrown"}
            /\ HasUnused(p) \/ Blocked(p) \/ ioFailed'
  BY DEF WriteGroup, Fail, caller, Streaming
<1> SUFFICES ASSUME Orderly PROVE ArraysLanded' /\ GroupsLanded' /\ Excused'
  BY <1>1, ContentsSame DEF Landed
<1>2. Made /\ config \in Configs /\ outputs = Outputs(Arrays(config)) /\ groups = GroupPaths(config)
  BY <1>1, StreamNodes
<1>3. CASE /\ pc' = "closed" /\ closed' \in {"error", "thrown"}
           /\ HasUnused(p) \/ Blocked(p) \/ ioFailed'
  <2>1. p \in Paths
    <3>1. DOMAIN Tree(config) \subseteq Paths
      BY <1>2, TreeIs DEF Made
    <3> QED BY <1>2, <3>1 DEF GroupPaths
  <2>2. HasUnused(p) \/ ioFailed'
    BY <1>1, <1>3, <2>1, NothingBlocked
  <2>3. HasUnused(p) => p \in DOMAIN plates' /\ HasUnused(p)'
    <3>1. HasUnused(p)' <=> HasUnused(p)
      BY <1>1, ContentsSame
    <3> QED BY <1>1, <3>1 DEF HasUnused
  <2>4. Excused'
    BY <2>2, <2>3 DEF Excused
  <2> QED BY <1>3, <2>4 DEF ArraysLanded, GroupsLanded
<1>4. CASE files' = Put(files, p, says) /\ pending' = pending \ {p} /\ pc' = pc
  <2> DEFINE f == [y \in {p} |-> says]
  <2>1. files' = Override(f, files) /\ DOMAIN f = {p} /\ f[p] = says
    BY <1>4 DEF Put
  <2> HIDE DEF f
  <2>2. p \in DOMAIN files' /\ files'[p] = says
        /\ \A r \in DOMAIN files : r # p => r \in DOMAIN files' /\ files'[r] = files[r]
    BY <2>1, OverOthers
  <2>3. \A q \in outputs' : Lands(FilesOf(q))'
    <3>1. TAKE q \in outputs'
    <3>2. FilesOf(q)' = FilesOf(q) /\ q \in outputs
      BY <1>1, <3>1, ContentsSame
    <3>3. Lands(FilesOf(q))
      BY <1>1, <3>2 DEF Landed, ArraysLanded
    <3>4. p \notin DOMAIN FilesOf(q)
      <4>1. q.key \notin groups /\ LevelPaths(q) \cap groups = {}
        BY <1>2, <3>2, NodesApart
      <4> QED BY <1>1, <3>2, <4>1, FilesOfNodes
    <3> QED BY <2>2, <3>2, <3>3, <3>4 DEF Lands
  <2>4. \A r \in groups' : r \in pending' \/ GroupLanded(r)'
    <3>1. TAKE r \in groups'
    <3>2. GroupKind(r)' = GroupKind(r) /\ r \in groups
      BY <1>1, <3>1, ContentsSame
    <3>3. r \in pending \/ GroupLanded(r)
      BY <1>1, <3>2 DEF Landed, GroupsLanded
    <3> QED BY <1>4, <2>2, <3>2, <3>3 DEF GroupLanded
  <2> QED BY <1>1, <1>4, <2>3, <2>4 DEF ArraysLanded, GroupsLanded, Excused
<1> QED BY <1>1, <1>3, <1>4

\* When all is written, nothing is left out.
LEMMA LandedWrittenAll ==
  ASSUME Landed, WrittenAll
  PROVE  Landed'
<1>1. /\ UNCHANGED <<config, outputs, groups, plates, wells, frames, custom, files>>
      /\ pending = {}
      /\ \/ pc = "finalize" /\ pc' = "groups" /\ pending' = groups
         \/ pc = "groups" /\ pc' = "closed" /\ closed' = "ok"
  BY DEF WrittenAll, caller, made
<1> SUFFICES ASSUME Orderly PROVE ArraysLanded' /\ GroupsLanded' /\ Excused'
  BY <1>1, ContentsSame DEF Landed
<1>2. \A q \in outputs' : Lands(FilesOf(q))'
  <2>1. TAKE q \in outputs'
  <2>2. FilesOf(q)' = FilesOf(q) /\ q \in outputs
    BY <1>1, <2>1, ContentsSame
  <2>3. Lands(FilesOf(q))
    BY <1>1, <2>2 DEF Landed, ArraysLanded
  <2> QED BY <1>1, <2>2, <2>3 DEF Lands
<1>3. ASSUME pc = "groups" PROVE \A r \in groups' : GroupLanded(r)'
  <2>1. TAKE r \in groups'
  <2>2. GroupKind(r)' = GroupKind(r) /\ r \in groups
    BY <1>1, <2>1, ContentsSame
  <2>3. GroupLanded(r)
    BY <1>1, <1>3, <2>2 DEF Landed, GroupsLanded
  <2> QED BY <1>1, <2>2, <2>3 DEF GroupLanded
<1> QED BY <1>1, <1>2, <1>3 DEF ArraysLanded, GroupsLanded, Excused

\* Every step keeps that.
LEMMA LandedNext == OwnerInv /\ NodesInv /\ TypeInv /\ Landed /\ [Next]_vars => Landed'
<1> SUFFICES ASSUME OwnerInv, NodesInv, TypeInv, Landed, [Next]_vars PROVE Landed'
  OBVIOUS
<1>1. CASE UNCHANGED vars
  <2>1. UNCHANGED <<config, outputs, groups, plates, wells, frames, custom, files, pending,
                    pc, closed, ioFailed, error>>
    BY <1>1 DEF vars, caller, stream, made, written
  <2>2. Orderly' <=> Orderly
    BY <2>1, ConditionsSame
  <2>4. ASSUME Orderly PROVE ArraysLanded'
    <3>1. ASSUME NEW q \in outputs', Lands(FilesOf(q)) PROVE Lands(FilesOf(q))'
      <4>1. FilesOf(q)' = FilesOf(q)
        BY <2>1, ContentsSame
      <4> QED BY <2>1, <3>1, <4>1 DEF Lands
    <3> QED BY <2>1, <2>4, <3>1 DEF Landed, ArraysLanded
  <2>5. ASSUME Orderly PROVE GroupsLanded'
    <3>1. ASSUME NEW r \in groups', GroupLanded(r) PROVE GroupLanded(r)'
      <4>1. GroupKind(r)' = GroupKind(r)
        BY <2>1, ContentsSame
      <4> QED BY <2>1, <3>1, <4>1 DEF GroupLanded
    <3> QED BY <2>1, <2>5, <3>1 DEF Landed, GroupsLanded
  <2>6. ASSUME Orderly PROVE Excused'
    <3>1. ASSUME NEW r, HasUnused(r) PROVE HasUnused(r)'
      BY <2>1, <3>1, ContentsSame
    <3> QED BY <2>1, <2>6, <3>1 DEF Landed, Excused
  <2> QED BY <2>2, <2>4, <2>5, <2>6 DEF Landed
<1>2. CASE \/ StartBuilding \/ Load \/ LoadFails \/ GiveBackBuilt \/ GiveBackLoaded
           \/ \E slot \in ToSet(BuildLists(config)) : CreateList(slot)
           \/ \E format \in {"yaml", "json"} : Dump(format)
  <2>1. pc' = pc /\ pc \in {"none", "open"}
    BY <1>2 DEF StartBuilding, Load, LoadFails, GiveBackBuilt, GiveBackLoaded, CreateList, Dump,
                stream, NoStream, Idle
  <2> QED BY <2>1, LandedElse DEF Closing
<1>3. CASE CreateStream \/ CommitStore \/ ConfigureArrays \/ Gone
  <2>1. pc' \in {"none", "commit", "arrays", "plates", "refused"}
    BY <1>3 DEF CreateStream, CommitStore, ConfigureArrays, Gone, Refuse
  <2> QED BY <2>1, LandedElse DEF Closing
<1>4. ASSUME NEW unset \in UnsetIds, CommitPlates(unset) PROVE Landed'
  <2>1. pc' \in {"open", "refused"}
    BY <1>4, Zenon DEF CommitPlates, Refuse
  <2> QED BY <2>1, LandedElse DEF Closing
<1>5. CASE \E o \in outputs : TakeFrames(o) \/ WriteCustomMetadata(o)
  <2>1. pc' = "open"
    BY <1>5 DEF TakeFrames, WriteCustomMetadata
  <2> QED BY <2>1, LandedElse DEF Closing
<1>6. CASE \E o \in outputs : FinalizeArray(o)
  BY <1>6, LandedFinalize
<1>7. CASE Close
  <2>1. /\ UNCHANGED <<config, outputs, error>>
        /\ \/ pc' = "closed" /\ closed' = "error" /\ error
           \/ pc' = "finalize" /\ pending' = {o.key : o \in outputs}
    BY <1>7 DEF Close, caller, made
  <2> QED BY <2>1 DEF Landed, ArraysLanded, GroupsLanded, Excused
<1>8. CASE \E p \in groups : WriteGroup(p)
  BY <1>8, LandedWriteGroup
<1>9. CASE WrittenAll
  BY <1>9, LandedWrittenAll
<1> QED BY <1>1, <1>2, <1>3, <1>4, <1>5, <1>6, <1>7, <1>8, <1>9, Zenon DEF Next
-----------------------------------------------------------------------------
(* The store describes the settings *)

\* A path that a key starts with.
LEMMA SamePrefix ==
  ASSUME NEW S, NEW q \in Seq(S), NEW b \in Seq(S), Len(b) <= Len(q),
         \A i \in 1 .. Len(b) : q[i] = b[i]
  PROVE  b \in Prefixes(q)
<1> DEFINE n == Len(b)  h == SubSeq(q, 1, Len(b))
<1>1. n \in 0 .. Len(q)
  BY LenProperties
<1>2. h \in Seq(S) /\ Len(h) = Len(b) /\ \A i \in 1 .. Len(b) : h[i] = q[i]
  BY <1>1, FirstOfPath
<1> HIDE DEF h
<1>3. h = b
  BY <1>2, SeqEqual
<1> QED BY <1>1, <1>3 DEF Prefixes, h

\* Joined sequences start with the first.
LEMMA ConcatStarts ==
  ASSUME NEW S, NEW p \in Seq(S), NEW t \in Seq(S)
  PROVE  /\ p \o t \in Seq(S) /\ Len(p) <= Len(p \o t)
         /\ Len(p) \in Nat /\ Len(p \o t) \in Nat
         /\ \A i \in 1 .. Len(p) : (p \o t)[i] = p[i]
<1>1. p \o t \in Seq(S) /\ Len(p \o t) = Len(p) + Len(t) /\ Len(p) \in Nat /\ Len(t) \in Nat
      /\ \A i \in 1 .. Len(p) + Len(t) :
            (p \o t)[i] = IF i <= Len(p) THEN p[i] ELSE t[i - Len(p)]
  BY ConcatProperties, LenProperties
<1> DEFINE u == p \o t
<1> HIDE DEF u
<1>2. \A i \in 1 .. Len(p) : u[i] = p[i]
  BY <1>1 DEF u
<1> QED BY <1>1, <1>2 DEF u

\* A key starts with the plate and with the well of its field.
LEMMA KeyStarts ==
  ASSUME NEW S, NEW p \in Seq(S), NEW t \in Seq(S), NEW u \in Seq(S)
  PROVE  p \in Prefixes((p \o t) \o u) /\ (p \o t) \in Prefixes((p \o t) \o u)
<1> DEFINE w == p \o t  q == w \o u
<1>1. /\ w \in Seq(S) /\ Len(p) <= Len(w) /\ Len(p) \in Nat /\ Len(w) \in Nat
      /\ \A i \in 1 .. Len(p) : w[i] = p[i]
  BY ConcatStarts
<1> HIDE DEF w
<1>2. /\ q \in Seq(S) /\ Len(w) <= Len(q) /\ Len(q) \in Nat
      /\ \A i \in 1 .. Len(w) : q[i] = w[i]
  BY <1>1, ConcatStarts
<1> HIDE DEF q
<1>3. \A i \in 1 .. Len(p) : q[i] = p[i]
  BY <1>1, <1>2
<1>4. Len(p) <= Len(q)
  BY <1>1, <1>2
<1>5. p \in Prefixes(q)
  BY <1>2, <1>3, <1>4, SamePrefix
<1>6. w \in Prefixes(q)
  BY <1>1, <1>2, SamePrefix
<1> QED BY <1>5, <1>6 DEF w, q

\* The plates and wells of a stream are groups of it.
LEMMA PlateNodes ==
  ASSUME Made, Named(config), PlatesApart, NEW i \in 1 .. Len(config.plates),
         NEW j \in 1 .. Len(config.plates[i].wells)
  PROVE  /\ Regularize(config.plates[i].path) \in GroupPaths(config)
         /\ WellPath(config.plates[i], config.plates[i].wells[j]) \in GroupPaths(config)
<1> DEFINE c == config  p == c.plates[i]  w == p.wells[j]  f == <<j, 1>>
           path == Regularize(p.path)  at == WellPath(p, w)
<1>1. c \in StreamSettings /\ p \in PlateSettings /\ NamedPlate(p) /\ p \in Range(c.plates)
  <2>1. c.plates \in Seq(PlateSettings) /\ DOMAIN c.plates = 1 .. Len(c.plates)
    BY LenProperties DEF Made, StreamSettings
  <2> QED BY <2>1, ElementOfSeq DEF Made, Named, Range
<1>2. w \in WellSettings /\ NamedWell(w) /\ w \in Range(p.wells) /\ j \in Nat
  <2> HIDE DEF p
  <2>1. p.wells \in Seq(WellSettings) /\ DOMAIN p.wells = 1 .. Len(p.wells)
    BY <1>1, LenProperties DEF PlateSettings
  <2>2. j \in 1 .. Len(p.wells)
    BY DEF p
  <2> QED BY <1>1, <2>1, <2>2, ElementOfSeq DEF NamedPlate, Range
<1>3. f \in FieldIds(p) /\ FieldAt(p, f) = w.images[1] /\ f[1] = j
  <2>1. f[1] = j /\ f[2] = 1
    OBVIOUS
  <2>2. 1 \in 1 .. Len(p.wells[f[1]].images) /\ f[1] \in 1 .. Len(p.wells)
    BY <1>2, <2>1 DEF NamedWell
  <2> QED BY <1>2, <2>1, <2>2 DEF FieldIds, FieldAt
<1> HIDE DEF f
<1> DEFINE image == Regularize(FieldAt(p, f).path)  names == <<w.row, w.col>>
<1>4. path \in Paths /\ image \in Paths /\ names \in Paths
  <2>1. p.path \in Keys /\ w.images \in Seq(ImageSettings)
    BY <1>1, <1>2 DEF PlateSettings, WellSettings
  <2>2. w.images[1] \in ImageSettings
    BY <1>2, <2>1, ElementOfSeq DEF NamedWell
  <2>3. w.images[1].path \in Keys
    BY <2>2 DEF ImageSettings
  <2>4. FieldAt(p, f).path \in Keys
    BY <1>3, <2>3
  <2>5. path \in Paths /\ image \in Paths
    BY <2>1, <2>4, RegularizeIs DEF Paths
  <2>6. names \in Paths
    BY <1>2 DEF NamedWell, Paths
  <2> QED BY <2>5, <2>6
<1>5. at = path \o names
  BY <1>1, <1>2, WellPathSame
<1>6. FieldKey(p, f) = (path \o names) \o image
  <2>1. FieldKey(p, f) = path \o <<p.wells[f[1]].row, p.wells[f[1]].col>> \o image
    BY <1>1, <1>3, FieldKeySame
  <2> QED BY <1>3, <2>1
<1>7. PICK n \in DOMAIN Arrays(c) : Arrays(c)[n].key = FieldKey(p, f)
  <2>1. PICK v \in ToSet(Arrays(c)) : v.key = FieldKey(p, f)
    BY <1>1, <1>3, FieldKeyAmong
  <2> QED BY <2>1 DEF ToSet
<1> HIDE DEF path, at, image, names
<1>8. path \in Prefixes(FieldKey(p, f)) /\ at \in Prefixes(FieldKey(p, f))
  BY <1>4, <1>5, <1>6, KeyStarts DEF Paths
<1>9. path \in DOMAIN Tree(c) /\ at \in DOMAIN Tree(c)
  <2>1. \A q \in Prefixes(Arrays(c)[n].key) : q \in DOMAIN Tree(c)
    BY <1>1, TreeIs
  <2> QED BY <1>7, <1>8, <2>1
<1>10. \A m \in DOMAIN Arrays(c) : Arrays(c)[m].key # path /\ Arrays(c)[m].key # at
  <2>1. TAKE m \in DOMAIN Arrays(c)
  <2>2. Arrays(c)[m] \in Range(Arrays(c))
    BY <2>1 DEF Range
  <2>3. Arrays(c)[m].key \notin {path} \cup {WellPath(p, v) : v \in Range(p.wells)}
    BY <1>1, <2>2 DEF PlatesApart, path
  <2> QED BY <1>2, <2>3 DEF at
<1>11. \A q \in DOMAIN Tree(c) : Tree(c)[q] = NodeKind(Arrays(c), q)
  BY <1>1, TreeIs
<1>12. NodeKind(Arrays(c), path) = "directory" /\ NodeKind(Arrays(c), at) = "directory"
  BY <1>10, NodeKindIs
<1> QED BY <1>9, <1>11, <1>12 DEF GroupPaths, path, at

\* The inductive invariant of a stream, with all it rests on.
StreamInv == OwnerInv /\ Held /\ LateInv /\ NodesInv /\ TypeInv /\ Asked /\ Landed

\* What the arrays wrote.
LEMMA ArraysDescribed ==
  ASSUME StreamInv, Orderly, pc = "closed", closed = "ok", NEW o \in outputs
  PROVE  /\ NodeWritten(o) => files[o.key] =
               [kind |-> IF o.grouped THEN "multiscale" ELSE "array", custom |-> o.key \in custom]
         /\ o.grouped => \A l \in 1 .. frames[o.key] :
               files[o.key \o <<ToString(l - 1)>>].kind = "array"
<1>1. Made /\ config \in Configs /\ outputs = Outputs(Arrays(config))
  BY StreamNodes DEF StreamInv, Streaming
<1>2. o.key \in Paths
  BY <1>1, OutputsAre
<1>3. Lands(FilesOf(o))
  BY DEF StreamInv, Landed, ArraysLanded
<1>4. \A l : Level(o, l) # o.key
  <2>1. TAKE l
  <2>2. Len(Level(o, l)) = Len(o.key) + 1 /\ Len(o.key) \in Nat
    BY <1>2, PathBelow, LenProperties DEF Level, Paths
  <2> QED BY <2>2
<1>5. NodeWritten(o) => files[o.key] =
         [kind |-> IF o.grouped THEN "multiscale" ELSE "array", custom |-> o.key \in custom]
  BY <1>3, FilesOfAre DEF Lands
<1>6. ASSUME o.grouped, NEW l \in 1 .. frames[o.key]
      PROVE  files[Level(o, l)].kind = "array"
  <2>1. Level(o, l) \in DOMAIN FilesOf(o)
        /\ FilesOf(o)[Level(o, l)] = [kind |-> "array", custom |-> FALSE]
    BY <1>4, <1>6, FilesOfAre
  <2>2. files[Level(o, l)] = [kind |-> "array", custom |-> FALSE]
    BY <1>3, <2>1 DEF Lands
  <2> QED BY <2>2
<1> QED BY <1>5, <1>6 DEF Level

\* What the plates and wells wrote: no plate is at a well.
LEMMA PlatesDescribed ==
  ASSUME StreamInv, Orderly, PlatesApart, pc = "closed", closed = "ok",
         NEW p \in Range(config.plates)
  PROVE  /\ files[Regularize(p.path)].kind = "plate"
         /\ \A w \in Range(p.wells) : files[WellPath(p, w)].kind = "well"
<1>1. Made /\ Named(config) /\ PlatesAsAsked /\ groups = GroupPaths(config)
  BY StreamNodes DEF StreamInv, Asked, Streaming
<1>2. \A q \in groups : files[q].kind = GroupKind(q)
  <2>1. TAKE q \in groups
  <2>2. GroupLanded(q)
    BY <2>1 DEF StreamInv, Landed, GroupsLanded
  <2>3. files[q] = [kind |-> GroupKind(q), custom |-> FALSE]
    BY <2>2 DEF GroupLanded
  <2> QED BY <2>3
<1>3. PICK i \in 1 .. Len(config.plates) : p = config.plates[i]
  <2>1. DOMAIN config.plates = 1 .. Len(config.plates)
    BY <1>1, LenProperties DEF Made, StreamSettings
  <2> QED BY <2>1 DEF Range
<1>4. p.wells \in Seq(WellSettings) /\ DOMAIN p.wells = 1 .. Len(p.wells)
      /\ 1 \in 1 .. Len(p.wells)
  <2>1. config.plates \in Seq(PlateSettings)
    BY <1>1 DEF Made, StreamSettings
  <2>2. p \in PlateSettings /\ NamedPlate(p)
    BY <1>1, <1>3, <2>1, ElementOfSeq DEF Named
  <2> QED BY <2>2, LenProperties DEF PlateSettings, NamedPlate
<1>5. Regularize(p.path) \in groups
  BY <1>1, <1>3, <1>4, PlateNodes
<1>6. Regularize(p.path) \in DOMAIN plates
  BY <1>1 DEF PlatesAsAsked, PathsOf
<1>7. ASSUME NEW w \in Range(p.wells) PROVE files[WellPath(p, w)].kind = "well"
  <2>1. PICK j \in 1 .. Len(p.wells) : w = p.wells[j]
    BY <1>4 DEF Range
  <2>2. WellPath(p, w) \in groups
    BY <1>1, <1>3, <2>1, PlateNodes
  <2>3. WellPath(p, w) \in Wells(p)
    BY DEF Wells
  <2>4. WellPath(p, w) \in wells
    BY <1>1, <2>3 DEF PlatesAsAsked
  <2>5. WellPath(p, w) \notin DOMAIN plates
    <3>1. \A q \in Range(config.plates) : Regularize(q.path) # WellPath(p, w)
      BY DEF PlatesApart
    <3> QED BY <1>1, <3>1 DEF PlatesAsAsked, PathsOf
  <2> QED BY <1>2, <2>2, <2>4, <2>5 DEF GroupKind
<1> QED BY <1>2, <1>5, <1>6, <1>7 DEF GroupKind

\* It says what StreamAsAsked says.
LEMMA DescribesSettings == StreamInv => StreamAsAsked
<1> SUFFICES ASSUME StreamInv PROVE StreamAsAsked
  OBVIOUS
<1>1. ASSUME pc = "open"
      PROVE  /\ {o.key : o \in outputs} = UniqueKeys(config)
             /\ error => reused \/ FieldsWithKey(config) # {}
  <2>1. config \in StreamSettings /\ outputs = Outputs(Arrays(config)) /\ Named(config)
    BY <1>1, StreamNodes DEF StreamInv, Asked, Streaming, Made
  <2>2. {o.key : o \in Outputs(Arrays(config))} = UniqueKeys(config)
    BY <2>1, KeysAsNamed
  <2> QED BY <1>1, <2>1, <2>2 DEF StreamInv, Asked
<1>2. ASSUME pc = "closed", Orderly, PlatesApart, closed = "ok"
      PROVE  \A p \in groups : p \in DOMAIN files
  BY <1>2 DEF StreamInv, Landed, GroupsLanded, GroupLanded
<1>3. ASSUME pc = "closed", Orderly, closed # "ok"
      PROVE  ioFailed \/ error \/ \E p \in DOMAIN plates : HasUnused(p)
  BY <1>3 DEF StreamInv, Landed, Excused
<1> QED BY <1>1, <1>2, <1>3, ArraysDescribed, PlatesDescribed DEF StreamAsAsked

LEMMA StreamInvInit == Init => StreamInv
<1>1. Init => Asked /\ Landed
  BY DEF Init, Asked, Landed, ArraysLanded, GroupsLanded, Excused, Streaming
<1> QED BY <1>1, OwnerInit, NodesInit, TypeInit DEF StreamInv

LEMMA StreamInvNext == StreamInv /\ [Next]_vars => StreamInv'
BY OwnerNext, LateNext, NodesNext, TypeNext, AskedNext, LandedNext DEF StreamInv

\* A stream has the arrays that get_unique_array_keys names for its settings.  If
\* the keys of arrays and plates are in order, ZarrStream_close that succeeds
\* leaves a store that describes every array, level, plate, well and group as
\* what it is, and close fails only for a reason (commit_hcs_settings_,
\* finalize_array, write_intermediate_metadata_).
THEOREM StreamDescribesSettings == Spec => []StreamAsAsked
BY StreamInvInit, StreamInvNext, DescribesSettings, PTL DEF Spec
=============================================================================
