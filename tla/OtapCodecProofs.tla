-------------------------- MODULE OtapCodecProofs --------------------------
(***************************************************************************)
(* As long as there are IDs each names one series; what the peer makes of  *)
(* a data point does not depend on the points before it, whatever the      *)
(* message; and a batch comes out of the peer as it went in, however its   *)
(* rows were grouped.                                                      *)
(***************************************************************************)
EXTENDS OtapCodec, FiniteSetTheorems, WellFoundedInduction, TLAPS

-----------------------------------------------------------------------------
(* Folds.                                                                  *)

\* Induction, for a set of numbers.
LEMMA Reaching ==
  ASSUME NEW T, 0 \in T, \A n \in Nat : n \in T => n + 1 \in T
  PROVE  \A n \in Nat : n \in T
<1> DEFINE S == {n \in Nat : n \notin T}
           R == OpToRel(<, Nat)
<1> SUFFICES ASSUME S # {} PROVE FALSE
  OBVIOUS
<1>1. PICK n \in S : \A m \in S : <<m, n>> \notin R
  <2>1. S \subseteq Nat /\ S # {}
    OBVIOUS
  <2> HIDE DEF S
  <2> QED
    BY <2>1, NatLessThanWellFounded, WFMin
<1>2. n \in Nat /\ n # 0 /\ n - 1 \in Nat /\ n - 1 < n
  <2>1. n \in Nat /\ n \notin T
    OBVIOUS
  <2> QED
    BY <2>1
<1>3. n - 1 \notin S
  <2>1. <<n - 1, n>> \in R
    BY <1>2 DEF OpToRel
  <2> QED
    BY <1>1, <2>1
<1>4. (n - 1) + 1 = n
  BY <1>2
<1> QED
  BY <1>1, <1>2, <1>3, <1>4

LEMMA MaxIs ==
  ASSUME NEW n \in Nat, NEW t, t \subseteq 1..n, n \in t
  PROVE  Max(t) = n
<1>1. \A y \in t : n >= y
  OBVIOUS
<1>2. \A x \in t : (\A y \in t : x >= y) => x = n
  <2> SUFFICES ASSUME NEW x \in t, \A y \in t : x >= y PROVE x = n
    OBVIOUS
  <2>1. x \in 1..n /\ x >= n
    OBVIOUS
  <2> QED
    BY <2>1
<1> QED
  BY <1>1, <1>2 DEF Max

\* The IDs of a batch are assigned row by row.
IdsByRow(base, batch) ==
  \E acc : /\ acc[0] = base
           /\ \A n \in 1..Len(batch) : acc[n] = WithId(acc[n - 1], batch[n])
           /\ FoldLeft(WithId, base, batch) = acc[Len(batch)]

LEMMA IdsFold ==
  ASSUME NEW base, NEW batch, Len(batch) \in Nat, DOMAIN batch = 1..Len(batch)
  PROVE  IdsByRow(base, batch)
<1> DEFINE Body(g, t) == IF t = {} THEN base ELSE WithId(g[t \ {Max(t)}], batch[Max(t)])
           Walks(n) == \E g : g = [t \in SUBSET (1..n) |-> Body(g, t)]
           T == {n \in Nat : Walks(n)}
<1>1. Walks(0)
  <2> DEFINE g == [t \in SUBSET (1..0) |-> base]
  <2>1. g = [t \in SUBSET (1..0) |-> Body(g, t)]
    <3>1. \A t \in SUBSET (1..0) : t = {}
      OBVIOUS
    <3> QED
      BY <3>1
  <2> QED
    BY <2>1
<1>2. ASSUME NEW n \in Nat, Walks(n)
      PROVE  Walks(n + 1)
  <2>1. PICK g : g = [t \in SUBSET (1..n) |-> Body(g, t)]
    BY <1>2
  <2> DEFINE h == [t \in SUBSET (1..n + 1) |-> IF n + 1 \in t THEN WithId(g[t \ {n + 1}], batch[n + 1])
                                               ELSE g[t]]
  <2>2. \A u \in SUBSET (1..n + 1) :
          h[u] = IF n + 1 \in u THEN WithId(g[u \ {n + 1}], batch[n + 1]) ELSE g[u]
    OBVIOUS
  <2>3. h = [t \in SUBSET (1..n + 1) |-> h[t]]
    OBVIOUS
  <2> HIDE DEF h
  <2>4. ASSUME NEW t \in SUBSET (1..n + 1)
        PROVE  h[t] = Body(h, t)
    <3>1. CASE n + 1 \in t
      <4>1. Max(t) = n + 1 /\ t # {}
        <5>1. n + 1 \in Nat /\ t \subseteq 1..n + 1
          OBVIOUS
        <5> QED
          BY <3>1, <5>1, MaxIs
      <4>2. t \ {n + 1} \in SUBSET (1..n + 1) /\ n + 1 \notin t \ {n + 1}
        OBVIOUS
      <4>3. h[t \ {n + 1}] = g[t \ {n + 1}]
        BY <2>2, <4>2
      <4>4. h[t] = WithId(g[t \ {n + 1}], batch[n + 1])
        BY <2>2, <3>1
      <4> QED
        BY <4>1, <4>3, <4>4
    <3>2. CASE n + 1 \notin t
      <4>1. t \in SUBSET (1..n) /\ t \ {Max(t)} \in SUBSET (1..n + 1) /\ n + 1 \notin t \ {Max(t)}
        <5>1. \A i \in t : i \in 1..n + 1 /\ i # n + 1
          BY <3>2
        <5>2. t \subseteq 1..n
          BY <5>1
        <5> QED
          BY <3>2, <5>2
      <4>2. h[t \ {Max(t)}] = g[t \ {Max(t)}]
        BY <2>2, <4>1
      <4>3. h[t] = g[t]
        BY <2>2, <3>2
      <4>4. g[t] = Body(g, t)
        BY <2>1, <4>1
      <4> QED
        BY <4>2, <4>3, <4>4
    <3> QED
      BY <3>1, <3>2
  <2>5. h = [t \in SUBSET (1..n + 1) |-> Body(h, t)]
    BY <2>3, <2>4
  <2> QED
    BY <2>5
<1> HIDE DEF Walks
<1>3. \A n \in Nat : Walks(n)
  <2>1. 0 \in T /\ \A n \in Nat : n \in T => n + 1 \in T
    BY <1>1, <1>2
  <2> HIDE DEF T
  <2>2. \A n \in Nat : n \in T
    BY <2>1, Reaching
  <2> QED
    BY <2>2 DEF T
<1> DEFINE iter == CHOOSE g : g = [t \in SUBSET DOMAIN batch |-> Body(g, t)]
<1>4. FoldLeft(WithId, base, batch) = iter[DOMAIN batch]
  BY ZenonT(30) DEF FoldLeft, MapThenFoldSet
<1>5. iter = [t \in SUBSET DOMAIN batch |-> Body(iter, t)]
  BY <1>3, Zenon DEF Walks
<1> HIDE DEF iter
<1> DEFINE acc == [n \in 0..Len(batch) |-> iter[1..n]]
<1>6. acc[0] = base
  <2>1. 0 \in 0..Len(batch) /\ 1..0 = {}
    OBVIOUS
  <2> QED
    BY <1>5, <2>1
<1>7. ASSUME NEW n \in 1..Len(batch)
      PROVE  acc[n] = WithId(acc[n - 1], batch[n])
  <2>1. Max(1..n) = n
    BY MaxIs
  <2>2. (1..n) \ {n} = 1..n - 1 /\ 1..n # {} /\ 1..n \in SUBSET DOMAIN batch
    <3>1. n \in Nat /\ n > 0 /\ n <= Len(batch)
      OBVIOUS
    <3>2. n \in 1..n /\ \A i \in 1..n : i \in 1..Len(batch)
      BY <3>1
    <3>3. \A i : i \in 1..n /\ i # n <=> i \in 1..n - 1
      BY <3>1
    <3> QED
      BY <3>2, <3>3
  <2>3. iter[1..n] = Body(iter, 1..n)
    BY <1>5, <2>2, Zenon
  <2>4. iter[1..n] = WithId(iter[1..n - 1], batch[n])
    BY <2>1, <2>2, <2>3
  <2> QED
    BY <2>4
<1>8. acc[Len(batch)] = iter[DOMAIN batch]
  OBVIOUS
<1> HIDE DEF acc, iter
<1>9. FoldLeft(WithId, base, batch) = acc[Len(batch)]
  BY <1>4, <1>8
<1> QED
  BY <1>6, <1>7, <1>9 DEF IdsByRow

\* The points of a message are decoded one after the other.
PointByPoint(base, items) ==
  \E acc : /\ acc[0] = base
           /\ \A n \in 1..Len(items) : acc[n] = DecodePoint(acc[n - 1], items[n])
           /\ FoldLeft(DecodePoint, base, items) = acc[Len(items)]

LEMMA PointsFold ==
  ASSUME NEW base, NEW items, Len(items) \in Nat, DOMAIN items = 1..Len(items)
  PROVE  PointByPoint(base, items)
<1> DEFINE Body(g, t) == IF t = {} THEN base ELSE DecodePoint(g[t \ {Max(t)}], items[Max(t)])
           Walks(n) == \E g : g = [t \in SUBSET (1..n) |-> Body(g, t)]
           T == {n \in Nat : Walks(n)}
<1>1. Walks(0)
  <2> DEFINE g == [t \in SUBSET (1..0) |-> base]
  <2>1. g = [t \in SUBSET (1..0) |-> Body(g, t)]
    <3>1. \A t \in SUBSET (1..0) : t = {}
      OBVIOUS
    <3> QED
      BY <3>1
  <2> QED
    BY <2>1
<1>2. ASSUME NEW n \in Nat, Walks(n)
      PROVE  Walks(n + 1)
  <2>1. PICK g : g = [t \in SUBSET (1..n) |-> Body(g, t)]
    BY <1>2
  <2> DEFINE h == [t \in SUBSET (1..n + 1) |-> IF n + 1 \in t THEN DecodePoint(g[t \ {n + 1}], items[n + 1])
                                               ELSE g[t]]
  <2>2. \A u \in SUBSET (1..n + 1) :
          h[u] = IF n + 1 \in u THEN DecodePoint(g[u \ {n + 1}], items[n + 1]) ELSE g[u]
    OBVIOUS
  <2>3. h = [t \in SUBSET (1..n + 1) |-> h[t]]
    OBVIOUS
  <2> HIDE DEF h
  <2>4. ASSUME NEW t \in SUBSET (1..n + 1)
        PROVE  h[t] = Body(h, t)
    <3>1. CASE n + 1 \in t
      <4>1. Max(t) = n + 1 /\ t # {}
        <5>1. n + 1 \in Nat /\ t \subseteq 1..n + 1
          OBVIOUS
        <5> QED
          BY <3>1, <5>1, MaxIs
      <4>2. t \ {n + 1} \in SUBSET (1..n + 1) /\ n + 1 \notin t \ {n + 1}
        OBVIOUS
      <4>3. h[t \ {n + 1}] = g[t \ {n + 1}]
        BY <2>2, <4>2
      <4>4. h[t] = DecodePoint(g[t \ {n + 1}], items[n + 1])
        BY <2>2, <3>1
      <4> QED
        BY <4>1, <4>3, <4>4
    <3>2. CASE n + 1 \notin t
      <4>1. t \in SUBSET (1..n) /\ t \ {Max(t)} \in SUBSET (1..n + 1) /\ n + 1 \notin t \ {Max(t)}
        <5>1. \A i \in t : i \in 1..n + 1 /\ i # n + 1
          BY <3>2
        <5>2. t \subseteq 1..n
          BY <5>1
        <5> QED
          BY <3>2, <5>2
      <4>2. h[t \ {Max(t)}] = g[t \ {Max(t)}]
        BY <2>2, <4>1
      <4>3. h[t] = g[t]
        BY <2>2, <3>2
      <4>4. g[t] = Body(g, t)
        BY <2>1, <4>1
      <4> QED
        BY <4>2, <4>3, <4>4
    <3> QED
      BY <3>1, <3>2
  <2>5. h = [t \in SUBSET (1..n + 1) |-> Body(h, t)]
    BY <2>3, <2>4
  <2> QED
    BY <2>5
<1> HIDE DEF Walks
<1>3. \A n \in Nat : Walks(n)
  <2>1. 0 \in T /\ \A n \in Nat : n \in T => n + 1 \in T
    BY <1>1, <1>2
  <2> HIDE DEF T
  <2>2. \A n \in Nat : n \in T
    BY <2>1, Reaching
  <2> QED
    BY <2>2 DEF T
<1> DEFINE iter == CHOOSE g : g = [t \in SUBSET DOMAIN items |-> Body(g, t)]
<1>4. FoldLeft(DecodePoint, base, items) = iter[DOMAIN items]
  BY ZenonT(30) DEF FoldLeft, MapThenFoldSet
<1>5. iter = [t \in SUBSET DOMAIN items |-> Body(iter, t)]
  BY <1>3, Zenon DEF Walks
<1> HIDE DEF iter
<1> DEFINE acc == [n \in 0..Len(items) |-> iter[1..n]]
<1>6. acc[0] = base
  <2>1. 0 \in 0..Len(items) /\ 1..0 = {}
    OBVIOUS
  <2> QED
    BY <1>5, <2>1
<1>7. ASSUME NEW n \in 1..Len(items)
      PROVE  acc[n] = DecodePoint(acc[n - 1], items[n])
  <2>1. Max(1..n) = n
    BY MaxIs
  <2>2. (1..n) \ {n} = 1..n - 1 /\ 1..n # {} /\ 1..n \in SUBSET DOMAIN items
    <3>1. n \in Nat /\ n > 0 /\ n <= Len(items)
      OBVIOUS
    <3>2. n \in 1..n /\ \A i \in 1..n : i \in 1..Len(items)
      BY <3>1
    <3>3. \A i : i \in 1..n /\ i # n <=> i \in 1..n - 1
      BY <3>1
    <3> QED
      BY <3>2, <3>3
  <2>3. iter[1..n] = Body(iter, 1..n)
    BY <1>5, <2>2, Zenon
  <2>4. iter[1..n] = DecodePoint(iter[1..n - 1], items[n])
    BY <2>1, <2>2, <2>3
  <2> QED
    BY <2>4
<1>8. acc[Len(items)] = iter[DOMAIN items]
  OBVIOUS
<1> HIDE DEF acc, iter
<1>9. FoldLeft(DecodePoint, base, items) = acc[Len(items)]
  BY <1>4, <1>8
<1> QED
  BY <1>6, <1>7, <1>9 DEF PointByPoint

-----------------------------------------------------------------------------
(* The series IDs.                                                         *)

\* The IDs are counted; until they run out, each names one series.
KnownOK(known) ==
  LET c == Cardinality(DOMAIN known.ids) IN
  /\ IsFiniteSet(DOMAIN known.ids)
  /\ known.next = IF c < MaxId THEN c + 1 ELSE MaxId
  /\ c <= MaxId => /\ \A k \in DOMAIN known.ids : known.ids[k] \in 1..c
                   /\ \A j, k \in DOMAIN known.ids : known.ids[j] = known.ids[k] => j = k

Extended(known, more) ==
  \A k \in DOMAIN known.ids : k \in DOMAIN more.ids /\ more.ids[k] = known.ids[k]

LEMMA WithIdIs ==
  ASSUME NEW known, KnownOK(known), NEW env
  PROVE  /\ KnownOK(WithId(known, env)) /\ Extended(known, WithId(known, env))
         /\ SeriesKey(env) \in DOMAIN WithId(known, env).ids
<1> DEFINE more == WithId(known, env)
           key == SeriesKey(env)
<1>1. CASE key \in DOMAIN known.ids
  <2>1. more = known
    BY <1>1 DEF WithId
  <2> QED
    BY <1>1, <2>1 DEF Extended
<1>2. CASE key \notin DOMAIN known.ids
  <2>1. /\ more.next = IF known.next = MaxId THEN MaxId ELSE known.next + 1
        /\ DOMAIN more.ids = DOMAIN known.ids \cup {key}
        /\ \A k \in DOMAIN known.ids : more.ids[k] = known.ids[k]
        /\ more.ids[key] = known.next
    BY <1>2 DEF WithId
  <2> HIDE DEF more, key
  <2> DEFINE c == Cardinality(DOMAIN known.ids)
  <2>2. c \in Nat /\ MaxId \in Nat /\ IsFiniteSet(DOMAIN known.ids)
    BY CodecAssumption, FS_CardinalityType DEF CodecAssumption, KnownOK
  <2>3. IsFiniteSet(DOMAIN more.ids) /\ Cardinality(DOMAIN more.ids) = c + 1
    BY <1>2, <2>1, <2>2, FS_AddElement
  <2>4. known.next = (IF c < MaxId THEN c + 1 ELSE MaxId)
    BY DEF KnownOK
  <2> HIDE DEF c
  <2>5. more.next = IF c + 1 < MaxId THEN (c + 1) + 1 ELSE MaxId
    <3>1. \A x, y \in Nat : (IF x < y THEN x + 1 ELSE y) = y <=> ~(x + 1 < y)
      OBVIOUS
    <3>2. known.next = MaxId <=> ~(c + 1 < MaxId)
      BY <2>2, <2>4, <3>1
    <3>3. c + 1 < MaxId => known.next = c + 1
      BY <2>2, <2>4
    <3> QED
      BY <2>1, <3>2, <3>3
  <2>6. ASSUME c + 1 <= MaxId
        PROVE  /\ \A k \in DOMAIN more.ids : more.ids[k] \in 1..c + 1
               /\ \A j, k \in DOMAIN more.ids : more.ids[j] = more.ids[k] => j = k
    <3>1. c < MaxId /\ c <= MaxId /\ known.next = c + 1
      BY <2>2, <2>4, <2>6
    <3>2. /\ \A k \in DOMAIN known.ids : known.ids[k] \in 1..c
          /\ \A j, k \in DOMAIN known.ids : known.ids[j] = known.ids[k] => j = k
      BY <3>1 DEF KnownOK, c
    <3>3. \A k \in DOMAIN known.ids : more.ids[k] \in 1..c + 1 /\ more.ids[k] # c + 1
      BY <2>1, <2>2, <3>2
    <3>4. more.ids[key] = c + 1 /\ c + 1 \in 1..c + 1
      BY <2>1, <2>2, <3>1
    <3> QED
      BY <2>1, <3>2, <3>3, <3>4
  <2>7. KnownOK(more)
    BY <2>3, <2>5, <2>6 DEF KnownOK
  <2> QED
    BY <2>1, <2>7 DEF Extended, more, key
<1> QED
  BY <1>1, <1>2

LEMMA BatchIds ==
  ASSUME NEW known, KnownOK(known), NEW batch, IsSequence(batch)
  PROVE  LET all == FoldLeft(WithId, known, batch) IN
         /\ KnownOK(all) /\ Extended(known, all)
         /\ \A n \in DOMAIN batch : SeriesKey(batch[n]) \in DOMAIN all.ids
<1>1. Len(batch) \in Nat /\ DOMAIN batch = 1..Len(batch)
  BY DEF IsSequence
<1>2. PICK acc : /\ acc[0] = known
                 /\ \A n \in 1..Len(batch) : acc[n] = WithId(acc[n - 1], batch[n])
                 /\ FoldLeft(WithId, known, batch) = acc[Len(batch)]
  <2>1. IdsByRow(known, batch)
    BY <1>1, IdsFold
  <2> QED
    BY <2>1, Zenon DEF IdsByRow
<1> DEFINE T == {n \in Nat : n <= Len(batch) =>
                   /\ KnownOK(acc[n]) /\ Extended(known, acc[n])
                   /\ \A i \in 1..n : SeriesKey(batch[i]) \in DOMAIN acc[n].ids}
<1>3. 0 \in T
  BY <1>2 DEF Extended
<1>4. ASSUME NEW n \in Nat, n \in T
      PROVE  n + 1 \in T
  <2> SUFFICES ASSUME n + 1 <= Len(batch)
               PROVE  /\ KnownOK(acc[n + 1]) /\ Extended(known, acc[n + 1])
                      /\ \A i \in 1..n + 1 : SeriesKey(batch[i]) \in DOMAIN acc[n + 1].ids
    OBVIOUS
  <2>1. n + 1 \in 1..Len(batch) /\ (n + 1) - 1 = n /\ n <= Len(batch)
    BY <1>1
  <2>2. acc[n + 1] = WithId(acc[n], batch[n + 1])
    BY <1>2, <2>1
  <2>3. /\ KnownOK(acc[n]) /\ Extended(known, acc[n])
        /\ \A i \in 1..n : SeriesKey(batch[i]) \in DOMAIN acc[n].ids
    BY <1>4, <2>1
  <2>4. /\ KnownOK(acc[n + 1]) /\ Extended(acc[n], acc[n + 1])
        /\ SeriesKey(batch[n + 1]) \in DOMAIN acc[n + 1].ids
    BY <2>2, <2>3, WithIdIs
  <2>5. \A i \in 1..n + 1 : i \in 1..n \/ i = n + 1
    OBVIOUS
  <2> QED
    BY <2>3, <2>4, <2>5 DEF Extended
<1> HIDE DEF T
<1>5. Len(batch) \in T
  BY <1>1, <1>3, <1>4, Reaching
<1> QED
  BY <1>1, <1>2, <1>5 DEF T

IdsInv ==
  /\ KnownOK(Known)
  /\ \A p \in named : SeriesKey(p[2]) \in DOMAIN seriesIds /\ p[1] = seriesIds[SeriesKey(p[2])]

LEMMA IdsFlush ==
  ASSUME IdsInv, NEW batch \in Batches, Flush(batch)
  PROVE  IdsInv'
<1> DEFINE all == FoldLeft(WithId, Known, batch)
<1>1. seriesIds' = all.ids /\ nextSeriesId' = all.next
  BY DEF Flush
<1>2. \/ named' = named \cup {<<all.ids[SeriesKey(batch[n])], batch[n]>> : n \in DOMAIN batch}
      \/ named' = named
  BY DEF Flush
<1>3. IsSequence(batch)
  BY CodecAssumption DEF CodecAssumption
<1>4. /\ KnownOK(all) /\ Extended(Known, all)
      /\ \A n \in DOMAIN batch : SeriesKey(batch[n]) \in DOMAIN all.ids
  BY <1>3, BatchIds DEF IdsInv
<1> HIDE DEF all
<1>5. KnownOK(Known)'
  BY <1>1, <1>4 DEF KnownOK, Known
<1>6. \A p \in named : SeriesKey(p[2]) \in DOMAIN all.ids /\ p[1] = all.ids[SeriesKey(p[2])]
  BY <1>4 DEF IdsInv, Extended, Known
<1>7. \A n \in DOMAIN batch :
        LET p == <<all.ids[SeriesKey(batch[n])], batch[n]>>
        IN SeriesKey(p[2]) \in DOMAIN all.ids /\ p[1] = all.ids[SeriesKey(p[2])]
  BY <1>4
<1>8. \A p \in named' : SeriesKey(p[2]) \in DOMAIN all.ids /\ p[1] = all.ids[SeriesKey(p[2])]
  BY <1>2, <1>6, <1>7
<1> QED
  BY <1>1, <1>5, <1>8 DEF IdsInv

LEMMA IdsInit == Init => IdsInv
<1> SUFFICES ASSUME Init PROVE IdsInv
  OBVIOUS
<1>1. Known.ids = <<>> /\ Known.next = 1 /\ named = {}
  BY DEF Init, Known
<1>2. MaxId \in Nat /\ MaxId > 0
  BY CodecAssumption DEF CodecAssumption
<1>3. IsFiniteSet({}) /\ Cardinality({}) = 0
  BY FS_EmptySet
<1>4. DOMAIN Known.ids = {}
  BY <1>1
<1> QED
  BY <1>1, <1>2, <1>3, <1>4 DEF IdsInv, KnownOK

\* As long as there are no more series than IDs, each ID names one series in all the
\* messages of a stream, and a series keeps its ID.  Then the counter saturates, and all
\* further series share the last.
THEOREM IdsApart ==
  Spec => [](Cardinality(DOMAIN seriesIds) <= MaxId => IdsTellSeriesApart)
<1>1. Init => IdsInv
  BY IdsInit
<1>2. IdsInv /\ [Next]_vars => IdsInv'
  <2> SUFFICES ASSUME IdsInv, [Next]_vars PROVE IdsInv'
    OBVIOUS
  <2>1. ASSUME UNCHANGED <<seriesIds, nextSeriesId, named>>
        PROVE  IdsInv'
    BY <2>1 DEF IdsInv, KnownOK, Known
  <2>2. ASSUME NEW batch \in Batches, Refused(batch)
        PROVE  IdsInv'
    BY <2>1, <2>2 DEF Refused, encoder
  <2>3. ASSUME NEW m \in Foreign, Receive(m)
        PROVE  IdsInv'
    BY <2>1, <2>3 DEF Receive, encoder
  <2>4. CASE UNCHANGED vars
    BY <2>1, <2>4 DEF vars, encoder
  <2> QED
    BY <2>2, <2>3, <2>4, IdsFlush DEF Next
<1>3. IdsInv => (Cardinality(DOMAIN seriesIds) <= MaxId => IdsTellSeriesApart)
  <2> SUFFICES ASSUME IdsInv, Cardinality(DOMAIN seriesIds) <= MaxId, NEW x \in named, NEW y \in named
               PROVE  x[1] = y[1] <=> SeriesOf(x[2]) = SeriesOf(y[2])
    BY DEF IdsTellSeriesApart
  <2>1. SeriesKey(x[2]) = SeriesKey(y[2]) <=> SeriesOf(x[2]) = SeriesOf(y[2])
    BY DEF SeriesKey, SeriesOf
  <2>2. x[1] = y[1] <=> SeriesKey(x[2]) = SeriesKey(y[2])
    BY DEF IdsInv, KnownOK, Known
  <2> QED
    BY <2>1, <2>2
<1> QED
  BY <1>1, <1>2, <1>3, PTL DEF Spec

-----------------------------------------------------------------------------
(* Sequences of sequences.                                                 *)

JoinedByOne(T, ss) ==
  \E g \in [0..Len(ss) -> Seq(T)] :
    /\ g[0] = <<>> /\ FlattenSeq(ss) = g[Len(ss)]
    /\ \A n \in 1..Len(ss) : g[n] = g[n - 1] \o ss[n]

LEMMA FlattenIs ==
  ASSUME NEW T, NEW ss \in Seq(Seq(T))
  PROVE  JoinedByOne(T, ss)
<1> DEFINE Body(f, i) == IF i = 1 THEN ss[i] ELSE f[i - 1] \o ss[i]
           Joins(n) == \E f : f = [i \in 1..n |-> Body(f, i)]
           N == {n \in Nat : Joins(n)}
<1>1. Joins(0)
  <2> DEFINE f == [i \in 1..0 |-> <<>>]
  <2>1. f = [i \in 1..0 |-> Body(f, i)]
    OBVIOUS
  <2> QED
    BY <2>1
<1>2. ASSUME NEW n \in Nat, Joins(n)
      PROVE  Joins(n + 1)
  <2>1. PICK f : f = [i \in 1..n |-> Body(f, i)]
    BY <1>2
  <2> DEFINE h == [i \in 1..n + 1 |-> IF i <= n THEN f[i] ELSE IF i = 1 THEN ss[i] ELSE f[i - 1] \o ss[i]]
  <2>2. \A i \in 1..n + 1 :
          h[i] = IF i <= n THEN f[i] ELSE IF i = 1 THEN ss[i] ELSE f[i - 1] \o ss[i]
    OBVIOUS
  <2>3. h = [i \in 1..n + 1 |-> h[i]]
    OBVIOUS
  <2> HIDE DEF h
  <2>4. ASSUME NEW i \in 1..n + 1
        PROVE  h[i] = Body(h, i)
    <3>1. i # 1 => i - 1 \in 1..n + 1 /\ i - 1 <= n /\ i - 1 \in 1..n
      OBVIOUS
    <3>2. i # 1 => h[i - 1] = f[i - 1]
      BY <2>2, <3>1
    <3>3. CASE i <= n
      <4>1. i \in 1..n
        BY <3>3
      <4>2. f[i] = Body(f, i)
        BY <2>1, <4>1
      <4> QED
        BY <2>2, <3>2, <3>3, <4>2
    <3>4. CASE ~(i <= n)
      BY <2>2, <3>2, <3>4
    <3> QED
      BY <3>3, <3>4
  <2>5. h = [i \in 1..n + 1 |-> Body(h, i)]
    BY <2>3, <2>4
  <2> QED
    BY <2>5
<1> HIDE DEF Joins
<1>3. \A n \in Nat : Joins(n)
  <2>1. 0 \in N /\ \A n \in Nat : n \in N => n + 1 \in N
    BY <1>1, <1>2
  <2> HIDE DEF N
  <2>2. \A n \in Nat : n \in N
    BY <2>1, Reaching
  <2> QED
    BY <2>2 DEF N
<1> DEFINE flatten == CHOOSE f : f = [i \in 1..Len(ss) |-> Body(f, i)]
<1>4. Len(ss) \in Nat /\ DOMAIN ss = 1..Len(ss) /\ \A n \in 1..Len(ss) : ss[n] \in Seq(T)
  OBVIOUS
<1>5. FlattenSeq(ss) = IF Len(ss) = 0 THEN ss ELSE flatten[Len(ss)]
  BY Zenon DEF FlattenSeq
<1>6. flatten = [i \in 1..Len(ss) |-> Body(flatten, i)]
  BY <1>3, <1>4, Zenon DEF Joins
<1> HIDE DEF flatten
<1> DEFINE g == [n \in 0..Len(ss) |-> IF n = 0 THEN <<>> ELSE flatten[n]]
<1>7. g[0] = <<>> /\ \A n \in 1..Len(ss) : g[n] = flatten[n]
  BY <1>4
<1>8. DOMAIN g = 0..Len(ss) /\ g = [n \in 0..Len(ss) |-> g[n]]
  OBVIOUS
<1>9. FlattenSeq(ss) = g[Len(ss)]
  <2>1. CASE Len(ss) = 0
    <3>1. ss = <<>>
      BY <2>1
    <3> QED
      BY <1>5, <1>7, <2>1, <3>1
  <2>2. CASE Len(ss) # 0
    BY <1>4, <1>5, <1>7, <2>2
  <2> QED
    BY <2>1, <2>2
<1> HIDE DEF g
<1>10. ASSUME NEW n \in 1..Len(ss), g[n - 1] \in Seq(T)
       PROVE  g[n] = g[n - 1] \o ss[n] /\ g[n] \in Seq(T)
  <2>1. flatten[n] = Body(flatten, n)
    BY <1>6
  <2>2. ss[n] \in Seq(T)
    BY <1>4
  <2>3. CASE n = 1
    <3>1. g[n - 1] = <<>> /\ g[n] = ss[n]
      BY <1>7, <2>1, <2>3
    <3> QED
      BY <2>2, <3>1
  <2>4. CASE n # 1
    <3>1. n - 1 \in 1..Len(ss)
      BY <1>4, <2>4
    <3>2. g[n] = g[n - 1] \o ss[n]
      BY <1>7, <2>1, <2>4, <3>1
    <3> QED
      BY <1>10, <2>2, <3>2
  <2> QED
    BY <2>3, <2>4
<1> DEFINE M == {n \in Nat : n <= Len(ss) => g[n] \in Seq(T)}
<1>11. \A n \in Nat : n \in M
  <2>1. 0 \in M
    <3>1. g[0] \in Seq(T)
      BY <1>7
    <3> QED
      BY <3>1
  <2>2. ASSUME NEW n \in Nat, n \in M
        PROVE  n + 1 \in M
    <3> SUFFICES ASSUME n + 1 <= Len(ss) PROVE g[n + 1] \in Seq(T)
      OBVIOUS
    <3>1. n + 1 \in 1..Len(ss) /\ (n + 1) - 1 = n /\ g[n] \in Seq(T)
      BY <1>4, <2>2
    <3> QED
      BY <1>10, <3>1
  <2> HIDE DEF M
  <2> QED
    BY <2>1, <2>2, Reaching
<1>12. \A n \in 0..Len(ss) : g[n] \in Seq(T)
  BY <1>4, <1>11
<1>13. g \in [0..Len(ss) -> Seq(T)]
  BY <1>8, <1>12
<1>14. \A n \in 1..Len(ss) : g[n] = g[n - 1] \o ss[n]
  <2> SUFFICES ASSUME NEW n \in 1..Len(ss) PROVE g[n] = g[n - 1] \o ss[n]
    OBVIOUS
  <2>1. n - 1 \in 0..Len(ss)
    BY <1>4
  <2> QED
    BY <1>10, <1>12, <2>1
<1> QED
  BY <1>7, <1>9, <1>13, <1>14 DEF JoinedByOne

LEMMA FlattenSeqIs ==
  ASSUME NEW T, NEW ss \in Seq(Seq(T))
  PROVE  FlattenSeq(ss) \in Seq(T)
<1>1. PICK g \in [0..Len(ss) -> Seq(T)] : FlattenSeq(ss) = g[Len(ss)]
  BY FlattenIs, Zenon DEF JoinedByOne
<1>2. Len(ss) \in 0..Len(ss)
  OBVIOUS
<1> QED
  BY <1>1, <1>2

\* What is joined of the first sequences is where joining them all gets to.
LEMMA FlattenFirst ==
  ASSUME NEW T, NEW ss \in Seq(Seq(T)), NEW f \in Seq(Seq(T)),
         Len(f) <= Len(ss), \A n \in 1..Len(f) : f[n] = ss[n],
         NEW g, g[0] = <<>>, \A n \in 1..Len(ss) : g[n] = g[n - 1] \o ss[n]
  PROVE  FlattenSeq(f) = g[Len(f)]
<1> DEFINE k == Len(f)
<1>1. PICK h \in [0..Len(f) -> Seq(T)] :
        /\ h[0] = <<>> /\ FlattenSeq(f) = h[Len(f)]
        /\ \A n \in 1..Len(f) : h[n] = h[n - 1] \o f[n]
  <2>1. JoinedByOne(T, f)
    BY FlattenIs
  <2> QED
    BY <2>1, Zenon DEF JoinedByOne
<1> DEFINE M == {n \in Nat : n <= k => h[n] = g[n]}
<1>2. 0 \in M
  BY <1>1
<1>3. ASSUME NEW n \in Nat, n \in M
      PROVE  n + 1 \in M
  <2> SUFFICES ASSUME n + 1 <= k PROVE h[n + 1] = g[n + 1]
    OBVIOUS
  <2>1. /\ n + 1 \in 1..k /\ n + 1 \in 1..Len(ss) /\ n + 1 \in 1..Len(f)
        /\ (n + 1) - 1 = n /\ h[n] = g[n]
    BY <1>3
  <2>2. h[n + 1] = h[n] \o f[n + 1] /\ g[n + 1] = g[n] \o ss[n + 1]
    BY <1>1, <2>1
  <2> QED
    BY <2>1, <2>2
<1>4. k \in Nat
  OBVIOUS
<1> HIDE DEF M
<1>5. k \in M
  BY <1>2, <1>3, <1>4, Reaching
<1> QED
  BY <1>1, <1>4, <1>5 DEF M

-----------------------------------------------------------------------------
(* A data point.                                                           *)

ItemOK(item) ==
  /\ item.kind \in Kinds /\ item.scope.labels \in Seq(Nat)
  /\ item.point.attributes.labels \in Seq(Nat)

AccType(O) == [scratch : Seq(Nat), out : Seq(O), failed : BOOLEAN]

Nothing == [scratch |-> <<>>, out |-> <<>>, failed |-> FALSE]

Alone(item) == DecodePoint(Nothing, item)

\* Nothing of the buffer is left.
LEMMA RelabelledIs ==
  ASSUME NEW buffer \in Seq(Nat), NEW labels \in Seq(Nat)
  PROVE  Relabelled(buffer, labels) = labels
<1> DEFINE rest == SubSeq(buffer, Len(labels) + 1, Len(buffer))
           both == labels \o rest
<1>1. Len(labels) \in Nat /\ Len(buffer) \in Nat
  OBVIOUS
<1>2. rest \in Seq(Nat)
  <2>1. \A i \in Len(labels) + 1..Len(buffer) : buffer[i] \in Nat
    BY <1>1
  <2> QED
    BY <1>1, <2>1
<1> HIDE DEF rest
<1>3. both \in Seq(Nat) /\ Len(both) = Len(labels) + Len(rest) /\ Len(rest) \in Nat
  BY <1>2
<1>4. \A i \in 1..Len(labels) : both[i] = labels[i]
  BY <1>2
<1> HIDE DEF both
<1> DEFINE cut == SubSeq(both, 1, Len(labels))
<1>5. Len(cut) = Len(labels) /\ \A i \in 1..Len(labels) : cut[i] = both[i]
  BY <1>1, <1>3
<1>6. cut \in Seq(Nat)
  BY <1>1, <1>3
<1> HIDE DEF cut
<1>7. cut = labels
  <2>1. DOMAIN cut = 1..Len(labels) /\ cut = [i \in 1..Len(cut) |-> cut[i]]
    BY <1>5, <1>6
  <2>2. labels = [i \in 1..Len(labels) |-> labels[i]]
    OBVIOUS
  <2>3. \A i \in 1..Len(labels) : cut[i] = labels[i]
    BY <1>4, <1>5
  <2> QED
    BY <1>5, <2>1, <2>2, <2>3
<1> QED
  BY <1>7 DEF Relabelled, cut, both, rest

\* What a data point adds to what was decoded is what it gives alone.
Adds(more, acc, one, O) ==
  /\ more \in AccType(O) /\ more.failed = one.failed
  /\ more.out = acc.out \o one.out

LEMMA AddsOne ==
  ASSUME NEW O, NEW acc \in AccType(O), ~acc.failed, NEW s \in Seq(Nat), NEW t, NEW o,
         NEW more, more = [acc EXCEPT !.scratch = s, !.out = Append(acc.out, o)],
         NEW one, one = [Nothing EXCEPT !.scratch = t, !.out = Append(Nothing.out, o)],
         one.out \in Seq(O)
  PROVE  Adds(more, acc, one, O)
<1>1. one.out = <<o>> /\ one.failed = FALSE
  BY DEF Nothing
<1>2. o \in O
  <2>1. 1 \in DOMAIN one.out /\ one.out[1] = o
    BY <1>1
  <2> QED
    BY <2>1
<1>3. acc.out \in Seq(O) /\ Append(acc.out, o) \in Seq(O) /\ Append(acc.out, o) = acc.out \o <<o>>
  BY <1>2 DEF AccType
<1>4. more \in AccType(O) /\ more.failed = FALSE /\ more.out = Append(acc.out, o)
  BY <1>3 DEF AccType
<1> QED
  BY <1>1, <1>3, <1>4 DEF Adds

LEMMA AddsNone ==
  ASSUME NEW O, NEW acc \in AccType(O), ~acc.failed, NEW more, NEW one,
         \/ more = acc /\ one = Nothing
         \/ more = Fails(acc) /\ one = Fails(Nothing)
  PROVE  Adds(more, acc, one, O)
<1>1. one.out = <<>> /\ acc.out \in Seq(O)
  BY DEF Nothing, Fails, AccType
<1>2. more \in AccType(O) /\ more.out = acc.out /\ more.failed = one.failed
  <2>1. acc = [scratch |-> acc.scratch, out |-> acc.out, failed |-> acc.failed]
    BY DEF AccType
  <2>2. acc.failed = FALSE
    BY DEF AccType
  <2>3. CASE more = acc /\ one = Nothing
    BY <2>2, <2>3 DEF Nothing
  <2>4. CASE more = Fails(acc) /\ one = Fails(Nothing)
    <3>1. more = [scratch |-> acc.scratch, out |-> acc.out, failed |-> TRUE]
      BY <2>1, <2>4 DEF Fails
    <3>2. one = [scratch |-> <<>>, out |-> <<>>, failed |-> TRUE]
      BY <2>4 DEF Fails, Nothing
    <3>3. acc.scratch \in Seq(Nat) /\ acc.out \in Seq(O)
      BY DEF AccType
    <3> HIDE DEF Fails
    <3>4. more.out = acc.out /\ more.failed = TRUE /\ one.failed = TRUE
      BY <3>1, <3>2
    <3>5. more \in AccType(O)
      BY <3>1, <3>3 DEF AccType
    <3> QED
      BY <3>4, <3>5
  <2> QED
    BY <2>3, <2>4
<1>3. acc.out \o <<>> = acc.out
  BY <1>1
<1> QED
  BY <1>1, <1>2, <1>3 DEF Adds

LEMMA NumberPointIs ==
  ASSUME NEW O, NEW acc \in AccType(O), ~acc.failed, NEW item, ItemOK(item),
         NumberPoint(Nothing, item).out \in Seq(O)
  PROVE  Adds(NumberPoint(acc, item), acc, NumberPoint(Nothing, item), O)
<1> DEFINE own == item.point.attributes
           type == OrElse(OrElse(own.type, item.resource.type), "Unspecified")
           labels == item.scope.labels \o own.labels
           float == Observation(item, labels, "Float", None)
           sketch == Observation(item, labels, "Envelope", CarriedEnvelope(item, type))
           more == NumberPoint(acc, item)
           one == NumberPoint(Nothing, item)
<1>1. /\ labels \in Seq(Nat) /\ Relabelled(acc.scratch, labels) = labels
      /\ Relabelled(Nothing.scratch, labels) = labels
  <2>1. labels \in Seq(Nat)
    BY DEF ItemOK
  <2>2. acc.scratch \in Seq(Nat) /\ Nothing.scratch \in Seq(Nat)
    BY DEF AccType, Nothing
  <2> HIDE DEF labels
  <2> QED
    BY <2>1, <2>2, RelabelledIs
<1>2. /\ more = IF item.point.value = None THEN acc
                ELSE IF own.payload = None
                THEN [acc EXCEPT !.scratch = labels, !.out = Append(acc.out, float)]
                ELSE IF ~KnownType(type) \/ ~ValidPayload(type, own.payload) THEN Fails(acc)
                ELSE [acc EXCEPT !.scratch = labels, !.out = Append(acc.out, sketch)]
      /\ one = IF item.point.value = None THEN Nothing
               ELSE IF own.payload = None
               THEN [Nothing EXCEPT !.scratch = labels, !.out = Append(Nothing.out, float)]
               ELSE IF ~KnownType(type) \/ ~ValidPayload(type, own.payload) THEN Fails(Nothing)
               ELSE [Nothing EXCEPT !.scratch = labels, !.out = Append(Nothing.out, sketch)]
  BY <1>1 DEF NumberPoint
<1> HIDE DEF own, type, labels, float, sketch, more, one
<1>3. one.out \in Seq(O)
  BY DEF one
<1>4. CASE item.point.value = None
  BY <1>2, <1>4, AddsNone DEF more, one
<1>5. CASE item.point.value # None /\ own.payload = None
  <2>1. /\ more = [acc EXCEPT !.scratch = labels, !.out = Append(acc.out, float)]
        /\ one = [Nothing EXCEPT !.scratch = labels, !.out = Append(Nothing.out, float)]
    BY <1>2, <1>5
  <2>2. Adds(more, acc, one, O)
    BY <1>1, <1>3, <2>1, AddsOne
  <2> QED
    BY <2>2 DEF more, one
<1>6. CASE /\ item.point.value # None /\ own.payload # None
           /\ ~KnownType(type) \/ ~ValidPayload(type, own.payload)
  BY <1>2, <1>6, AddsNone DEF more, one
<1>7. CASE /\ item.point.value # None /\ own.payload # None
           /\ ~(~KnownType(type) \/ ~ValidPayload(type, own.payload))
  <2>1. /\ more = [acc EXCEPT !.scratch = labels, !.out = Append(acc.out, sketch)]
        /\ one = [Nothing EXCEPT !.scratch = labels, !.out = Append(Nothing.out, sketch)]
    BY <1>2, <1>7
  <2>2. Adds(more, acc, one, O)
    BY <1>1, <1>3, <2>1, AddsOne
  <2> QED
    BY <2>2 DEF more, one
<1> QED
  BY <1>4, <1>5, <1>6, <1>7

LEMMA SummaryPointIs ==
  ASSUME NEW O, NEW acc \in AccType(O), ~acc.failed, NEW item,
         SummaryPoint(Nothing, item).out \in Seq(O)
  PROVE  Adds(SummaryPoint(acc, item), acc, SummaryPoint(Nothing, item), O)
<1> DEFINE more == SummaryPoint(acc, item)
           one == SummaryPoint(Nothing, item)
<1>1. \/ more = Fails(acc) /\ one = Fails(Nothing)
      \/ \E o : /\ more = [acc EXCEPT !.out = Append(acc.out, o)]
                /\ one = [Nothing EXCEPT !.out = Append(Nothing.out, o)]
  BY DEF SummaryPoint
<1>2. one.out \in Seq(O)
  OBVIOUS
<1> HIDE DEF more, one
<1>3. CASE more = Fails(acc) /\ one = Fails(Nothing)
  BY <1>3, AddsNone DEF more, one
<1>4. ASSUME NEW o,
             more = [acc EXCEPT !.out = Append(acc.out, o)],
             one = [Nothing EXCEPT !.out = Append(Nothing.out, o)]
      PROVE  Adds(more, acc, one, O)
  <2>1. acc.scratch \in Seq(Nat)
    BY DEF AccType
  <2>2. /\ more = [acc EXCEPT !.scratch = acc.scratch, !.out = Append(acc.out, o)]
        /\ one = [Nothing EXCEPT !.scratch = Nothing.scratch, !.out = Append(Nothing.out, o)]
    BY <1>4 DEF AccType, Nothing
  <2> QED
    BY <1>2, <2>1, <2>2, AddsOne
<1> QED
  BY <1>1, <1>3, <1>4 DEF more, one

\* Alone a point gives at most one observation, and none when it fails.
LEMMA AloneIs ==
  ASSUME NEW item, ItemOK(item)
  PROVE  /\ Alone(item).out = <<>> \/ \E o : Alone(item).out = <<o>>
         /\ Alone(item).failed => Alone(item).out = <<>>
<1>1. /\ Nothing.out = <<>> /\ Nothing.failed = FALSE /\ Fails(Nothing).out = <<>>
      /\ \A o : Append(Nothing.out, o) = <<o>>
  BY DEF Nothing, Fails
<1>2. CASE item.kind = "Histogram"
  BY <1>1, <1>2 DEF DecodePoint, Alone
<1>3. CASE item.kind \in {"Gauge", "Sum"}
  <2>1. Alone(item) = NumberPoint(Nothing, item)
    BY <1>1, <1>3 DEF DecodePoint, Alone
  <2>2. \/ NumberPoint(Nothing, item) = Nothing
        \/ NumberPoint(Nothing, item) = Fails(Nothing)
        \/ \E s, o : NumberPoint(Nothing, item)
                       = [Nothing EXCEPT !.scratch = s, !.out = Append(Nothing.out, o)]
    BY DEF NumberPoint
  <2>3. ASSUME NEW s, NEW o,
               Alone(item) = [Nothing EXCEPT !.scratch = s, !.out = Append(Nothing.out, o)]
        PROVE  Alone(item).out = <<o>> /\ ~Alone(item).failed
    BY <2>3 DEF Nothing
  <2>4. CASE Alone(item) = Nothing
    BY <1>1, <2>4
  <2>5. CASE Alone(item) = Fails(Nothing)
    BY <1>1, <2>5
  <2> QED
    BY <2>1, <2>2, <2>3, <2>4, <2>5
<1>4. CASE item.kind = "Summary"
  <2>1. Alone(item) = SummaryPoint(Nothing, item)
    BY <1>1, <1>4 DEF DecodePoint, Alone
  <2>2. \/ SummaryPoint(Nothing, item) = Fails(Nothing)
        \/ \E o : SummaryPoint(Nothing, item) = [Nothing EXCEPT !.out = Append(Nothing.out, o)]
    BY DEF SummaryPoint
  <2>3. ASSUME NEW o, Alone(item) = [Nothing EXCEPT !.out = Append(Nothing.out, o)]
        PROVE  Alone(item).out = <<o>> /\ ~Alone(item).failed
    BY <2>3 DEF Nothing
  <2>4. CASE Alone(item) = Fails(Nothing)
    BY <1>1, <2>4
  <2> QED
    BY <2>1, <2>2, <2>3, <2>4
<1> QED
  BY <1>2, <1>3, <1>4 DEF ItemOK, Kinds

LEMMA DecodePointIs ==
  ASSUME NEW O, NEW acc \in AccType(O), NEW item, ItemOK(item), Alone(item).out \in Seq(O)
  PROVE  /\ ~acc.failed => Adds(DecodePoint(acc, item), acc, Alone(item), O)
         /\ acc.failed => DecodePoint(acc, item) = acc
<1>1. Nothing.failed = FALSE
  BY DEF Nothing
<1>2. ASSUME acc.failed PROVE DecodePoint(acc, item) = acc
  BY <1>2 DEF DecodePoint
<1>3. ASSUME ~acc.failed PROVE Adds(DecodePoint(acc, item), acc, Alone(item), O)
  <2>1. CASE item.kind = "Histogram"
    <3>1. DecodePoint(acc, item) = acc /\ Alone(item) = Nothing
      BY <2>1 DEF DecodePoint, Alone
    <3> QED
      BY <1>3, <3>1, AddsNone
  <2>2. CASE item.kind \in {"Gauge", "Sum"}
    <3>1. DecodePoint(acc, item) = NumberPoint(acc, item) /\ Alone(item) = NumberPoint(Nothing, item)
      BY <1>1, <1>3, <2>2 DEF DecodePoint, Alone
    <3> QED
      BY <1>3, <3>1, NumberPointIs
  <2>3. CASE item.kind = "Summary"
    <3>1. DecodePoint(acc, item) = SummaryPoint(acc, item) /\ Alone(item) = SummaryPoint(Nothing, item)
      BY <1>1, <1>3, <2>3 DEF DecodePoint, Alone
    <3> QED
      BY <1>3, <3>1, SummaryPointIs
  <2> QED
    BY <2>1, <2>2, <2>3 DEF ItemOK, Kinds
<1> QED
  BY <1>2, <1>3

LEMMA DecodeOne ==
  ASSUME NEW item
  PROVE  DecodeEach(<<item>>) = Alone(item)
<1> DEFINE items == <<item>>
<1>1. Len(items) = 1 /\ items[1] = item
  OBVIOUS
<1>2. Len(items) \in Nat /\ DOMAIN items = 1..Len(items)
  OBVIOUS
<1> HIDE DEF items
<1>3. PICK acc : /\ acc[0] = Nothing
                 /\ \A n \in 1..Len(items) : acc[n] = DecodePoint(acc[n - 1], items[n])
                 /\ FoldLeft(DecodePoint, Nothing, items) = acc[Len(items)]
  <2>1. PointByPoint(Nothing, items)
    BY <1>2, PointsFold
  <2> QED
    BY <2>1, Zenon DEF PointByPoint
<1>4. acc[1] = DecodePoint(acc[0], item)
  <2>1. 1 \in 1..Len(items) /\ 1 - 1 = 0
    BY <1>1
  <2> QED
    BY <1>1, <1>3, <2>1
<1>5. DecodeEach(items) = acc[1]
  BY <1>1, <1>3 DEF DecodeEach, Nothing
<1> QED
  BY <1>3, <1>4, <1>5 DEF Alone, items

\* The first of the numbers in a set.
LEMMA FirstIn ==
  ASSUME NEW S, S \subseteq Nat, S # {}
  PROVE  \E k \in S : \A i \in S : k <= i
<1> DEFINE R == OpToRel(<, Nat)
<1>1. PICK k \in S : \A i \in S : <<i, k>> \notin R
  BY NatLessThanWellFounded, WFMin
<1>2. \A i \in S : i < k => <<i, k>> \in R
  BY DEF OpToRel
<1>3. \A i \in S : ~(i < k)
  BY <1>1, <1>2
<1>4. \A i, n \in Nat : ~(i < n) => n <= i
  OBVIOUS
<1> QED
  BY <1>3, <1>4

\* The observations of a message are those of its points before the first that fails.
LEMMA DecodeEachIs ==
  ASSUME NEW items, IsSequence(items), \A n \in DOMAIN items : ItemOK(items[n])
  PROVE  LET alone == [n \in DOMAIN items |-> DecodeEach(<<items[n]>>)]
             read == {n \in DOMAIN items : \A i \in 1..n : ~alone[i].failed}
         IN /\ DecodeEach(items).failed <=> \E n \in DOMAIN items : alone[n].failed
            /\ DecodeEach(items).out = FlattenSeq([n \in 1..Cardinality(read) |-> alone[n].out])
<1> DEFINE alone == [n \in DOMAIN items |-> DecodeEach(<<items[n]>>)]
           read == {n \in DOMAIN items : \A i \in 1..n : ~alone[i].failed}
           N == Len(items)
<1>1. N \in Nat /\ DOMAIN items = 1..N
  BY DEF IsSequence
<1>2. \A n \in 1..N : alone[n] = Alone(items[n])
  BY <1>1, DecodeOne
<1> HIDE DEF alone, N
<1>3. \A n \in 1..N : /\ alone[n].out = <<>> \/ \E o : alone[n].out = <<o>>
                      /\ alone[n].failed => alone[n].out = <<>>
  BY <1>1, <1>2, AloneIs
<1> DEFINE O == UNION {{alone[n].out[i] : i \in DOMAIN alone[n].out} : n \in 1..N}
<1>4. ASSUME NEW n \in 1..N PROVE alone[n].out \in Seq(O)
  <2>1. CASE alone[n].out = <<>>
    BY <2>1
  <2>2. ASSUME NEW o, alone[n].out = <<o>> PROVE alone[n].out \in Seq(O)
    <3>1. 1 \in DOMAIN alone[n].out /\ alone[n].out[1] = o
      BY <2>2
    <3>2. o \in O
      BY <3>1
    <3> HIDE DEF O
    <3> QED
      BY <2>2, <3>2
  <2> QED
    BY <1>3, <2>1, <2>2
<1> HIDE DEF O
<1> DEFINE ss == [n \in 1..N |-> alone[n].out]
<1>5. ss \in Seq(Seq(O)) /\ Len(ss) = N /\ \A n \in 1..N : ss[n] = alone[n].out
  BY <1>1, <1>4
<1> HIDE DEF ss
<1>6. PICK g \in [0..Len(ss) -> Seq(O)] :
        g[0] = <<>> /\ \A n \in 1..Len(ss) : g[n] = g[n - 1] \o ss[n]
  <2>1. JoinedByOne(O, ss)
    BY <1>5, FlattenIs
  <2> QED
    BY <2>1, Zenon DEF JoinedByOne
<1>7. PICK acc : /\ acc[0] = Nothing
                 /\ \A n \in 1..N : acc[n] = DecodePoint(acc[n - 1], items[n])
                 /\ FoldLeft(DecodePoint, Nothing, items) = acc[N]
  <2>1. PointByPoint(Nothing, items)
    BY <1>1, PointsFold DEF N
  <2> QED
    BY <2>1, Zenon DEF PointByPoint, N
<1>8. DecodeEach(items) = acc[N]
  BY <1>7 DEF DecodeEach, Nothing
<1> DEFINE Whole(n) == \A i \in 1..n : ~alone[i].failed
           Ok(n) == /\ acc[n] \in AccType(O)
                    /\ Whole(n) => ~acc[n].failed /\ acc[n].out = g[n]
                    /\ \A k \in 1..n : alone[k].failed /\ Whole(k - 1) =>
                                         acc[n].failed /\ acc[n].out = g[k - 1]
           T == {n \in Nat : n <= N => Ok(n)}
<1>9. Ok(0)
  <2>1. Nothing \in AccType(O) /\ Nothing.failed = FALSE /\ Nothing.out = <<>>
    BY DEF Nothing, AccType
  <2> QED
    BY <1>6, <1>7, <2>1
<1>10. ASSUME NEW n \in Nat, n + 1 <= N, Ok(n)
       PROVE  Ok(n + 1)
  <2>1. n + 1 \in 1..N /\ (n + 1) - 1 = n
    BY <1>1, <1>10
  <2>2. acc[n + 1] = DecodePoint(acc[n], items[n + 1])
    BY <1>7, <2>1
  <2>3. /\ ~acc[n].failed => Adds(acc[n + 1], acc[n], alone[n + 1], O)
        /\ acc[n].failed => acc[n + 1] = acc[n]
    <3>1. ItemOK(items[n + 1]) /\ alone[n + 1] = Alone(items[n + 1]) /\ alone[n + 1].out \in Seq(O)
      BY <1>1, <1>2, <1>4, <2>1
    <3> QED
      BY <1>10, <2>2, <3>1, DecodePointIs
  <2>4. g[n + 1] = g[n] \o alone[n + 1].out /\ g[n] \in Seq(O)
    <3>1. n + 1 \in 1..Len(ss) /\ n \in 0..Len(ss)
      BY <1>1, <1>5, <2>1
    <3> QED
      BY <1>5, <1>6, <2>1, <3>1
  <2>5. \A i : i \in 1..n + 1 <=> i \in 1..n \/ i = n + 1
    OBVIOUS
  <2>6. Whole(n + 1) <=> Whole(n) /\ ~alone[n + 1].failed
    BY <2>5
  <2>7. acc[n + 1] \in AccType(O)
    BY <1>10, <2>3 DEF Adds
  <2>8. Whole(n + 1) => ~acc[n + 1].failed /\ acc[n + 1].out = g[n + 1]
    <3> SUFFICES ASSUME Whole(n), ~alone[n + 1].failed
                 PROVE  ~acc[n + 1].failed /\ acc[n + 1].out = g[n + 1]
      BY <2>6
    <3>1. ~acc[n].failed /\ acc[n].out = g[n]
      BY <1>10
    <3>2. acc[n + 1].failed = alone[n + 1].failed /\ acc[n + 1].out = acc[n].out \o alone[n + 1].out
      BY <2>3, <3>1 DEF Adds
    <3> QED
      BY <2>4, <3>1, <3>2
  <2>9. ASSUME NEW k \in 1..n + 1, alone[k].failed, Whole(k - 1)
        PROVE  acc[n + 1].failed /\ acc[n + 1].out = g[k - 1]
    <3>1. CASE k \in 1..n
      BY <1>10, <2>3, <2>9, <3>1
    <3>2. CASE k = n + 1
      <4>1. ~acc[n].failed /\ acc[n].out = g[n]
        BY <1>10, <2>1, <2>9, <3>2
      <4>2. /\ acc[n + 1].failed = alone[n + 1].failed
            /\ acc[n + 1].out = acc[n].out \o alone[n + 1].out
        BY <2>3, <4>1 DEF Adds
      <4>3. alone[n + 1].out = <<>>
        BY <1>3, <2>1, <2>9, <3>2
      <4>4. g[n] \o <<>> = g[n]
        BY <2>4
      <4> QED
        BY <2>1, <2>9, <3>2, <4>1, <4>2, <4>3, <4>4
    <3> QED
      BY <2>5, <3>1, <3>2
  <2> QED
    BY <2>7, <2>8, <2>9
<1> HIDE DEF Ok
<1>11. Ok(N)
  <2>1. 0 \in T
    BY <1>9
  <2>2. \A n \in Nat : n \in T => n + 1 \in T
    <3> SUFFICES ASSUME NEW n \in Nat, n <= N => Ok(n), n + 1 <= N PROVE Ok(n + 1)
      OBVIOUS
    <3>1. n <= N
      BY <1>1
    <3> QED
      BY <1>10, <3>1
  <2> HIDE DEF T
  <2>3. N \in T
    BY <1>1, <2>1, <2>2, Reaching
  <2> QED
    BY <1>1, <2>3 DEF T
<1>12. ASSUME NEW k \in 0..N, read = 1..k
       PROVE  FlattenSeq([n \in 1..Cardinality(read) |-> alone[n].out]) = g[k]
  <2> DEFINE f == [n \in 1..k |-> alone[n].out]
  <2>1. Cardinality(read) = k
    <3>1. k \in Nat /\ 1 \in Int /\ k \in Int
      BY <1>1
    <3> HIDE DEF read
    <3>2. Cardinality(1..k) = IF 1 > k THEN 0 ELSE k - 1 + 1
      BY <3>1, FS_Interval
    <3> QED
      BY <1>12, <3>1, <3>2
  <2>2. \A n \in 1..k : n \in 1..N
    BY <1>1
  <2>3. f \in Seq(Seq(O)) /\ Len(f) = k /\ \A n \in 1..k : f[n] = ss[n]
    <3>1. \A n \in 1..k : alone[n].out \in Seq(O)
      BY <1>4, <2>2
    <3>2. k \in Nat
      BY <1>1
    <3> QED
      BY <1>5, <2>2, <3>1, <3>2
  <2> HIDE DEF f, read
  <2>4. Len(f) <= Len(ss) /\ ss \in Seq(Seq(O))
    BY <1>1, <1>5, <2>3
  <2>5. g[0] = <<>> /\ \A n \in 1..Len(ss) : g[n] = g[n - 1] \o ss[n]
    BY <1>6
  <2>6. FlattenSeq(f) = g[Len(f)]
    BY <2>3, <2>4, <2>5, FlattenFirst
  <2> QED
    BY <2>1, <2>3, <2>6 DEF f
<1>13. CASE Whole(N)
  <2>1. read = 1..N
    BY <1>1, <1>13
  <2>2. N \in 0..N
    BY <1>1
  <2>3. FlattenSeq([n \in 1..Cardinality(read) |-> alone[n].out]) = g[N]
    BY <1>12, <2>1, <2>2
  <2>4. ~acc[N].failed /\ acc[N].out = g[N]
    BY <1>11, <1>13 DEF Ok
  <2> QED
    BY <1>1, <1>8, <1>13, <2>3, <2>4 DEF alone
<1>14. CASE ~Whole(N)
  <2>1. PICK k \in 1..N : alone[k].failed /\ Whole(k - 1)
    <3> DEFINE S == {n \in 1..N : alone[n].failed}
    <3>1. S \subseteq Nat /\ S # {}
      BY <1>14
    <3>2. PICK k \in S : \A i \in S : k <= i
      <4> HIDE DEF S
      <4> QED
        BY <3>1, FirstIn
    <3>3. \A i \in 1..k - 1 : i \in 1..N /\ ~(k <= i)
      BY <1>1
    <3>4. Whole(k - 1)
      BY <3>2, <3>3
    <3> QED
      BY <3>4
  <2>2. acc[N].failed /\ acc[N].out = g[k - 1]
    BY <1>11, <2>1 DEF Ok
  <2>3. read = 1..k - 1
    <3>1. k \in Nat /\ k >= 1 /\ k <= N
      BY <1>1
    <3>2. ASSUME NEW n \in 1..k - 1 PROVE n \in read
      <4>1. n \in 1..N /\ \A i \in 1..n : i \in 1..k - 1
        BY <1>1, <3>1
      <4> QED
        BY <1>1, <2>1, <4>1
    <3>3. ASSUME NEW n \in read PROVE n \in 1..k - 1
      <4>1. n \in 1..N /\ k \notin 1..n
        BY <1>1, <2>1
      <4> QED
        BY <1>1, <3>1, <4>1
    <3> QED
      BY <3>2, <3>3
  <2>4. k - 1 \in 0..N
    BY <1>1
  <2>5. FlattenSeq([n \in 1..Cardinality(read) |-> alone[n].out]) = g[k - 1]
    BY <1>12, <2>3, <2>4
  <2> QED
    BY <1>1, <1>8, <2>1, <2>2, <2>5 DEF alone
<1> QED
  BY <1>13, <1>14

-----------------------------------------------------------------------------
(* The messages of the encoder.                                            *)

LEMMA RanksTaken ==
  ASSUME NEW rows \in SUBSET Nat, IsFiniteSet(rows)
  PROVE  \A n \in Nat : n < Cardinality(rows) =>
           \E i \in rows : Cardinality({j \in rows : j < i}) = n
<1> DEFINE Below(i) == {j \in rows : j < i}
           T == {n \in Nat : n < Cardinality(rows) => \E i \in rows : Cardinality(Below(i)) = n}
<1>1. 0 \in T
  <2> SUFFICES ASSUME 0 < Cardinality(rows) PROVE \E i \in rows : Cardinality(Below(i)) = 0
    OBVIOUS
  <2>1. rows # {}
    BY FS_EmptySet
  <2>2. PICK k \in rows : \A i \in rows : k <= i
    BY <2>1, FirstIn
  <2>3. \A i, n \in Nat : n <= i => ~(i < n)
    OBVIOUS
  <2>4. Below(k) = {}
    BY <2>2, <2>3
  <2> QED
    BY <2>2, <2>4, FS_EmptySet
<1>2. ASSUME NEW n \in Nat, n \in T
      PROVE  n + 1 \in T
  <2> SUFFICES ASSUME n + 1 < Cardinality(rows)
               PROVE  \E i \in rows : Cardinality(Below(i)) = n + 1
    OBVIOUS
  <2>1. Cardinality(rows) \in Nat
    BY FS_CardinalityType
  <2>2. n < Cardinality(rows)
    BY <2>1
  <2>3. PICK i \in rows : Cardinality(Below(i)) = n
    BY <1>2, <2>2
  <2>4. IsFiniteSet(Below(i)) /\ i \notin Below(i) /\ i \in Nat
    <3>1. Below(i) \subseteq rows /\ i \in Nat
      OBVIOUS
    <3>2. ~(i < i)
      BY <3>1
    <3> QED
      BY <3>1, <3>2, FS_Subset
  <2>5. Cardinality(Below(i) \cup {i}) = n + 1
    <3> HIDE DEF Below
    <3> QED
      BY <2>3, <2>4, FS_AddElement
  <2> DEFINE S == {j \in rows : i < j}
  <2>6. S # {}
    <3> SUFFICES ASSUME S = {} PROVE FALSE
      OBVIOUS
    <3>1. \A j \in rows : j < i \/ j = i
      OBVIOUS
    <3>2. rows = Below(i) \cup {i}
      BY <3>1
    <3>3. Cardinality(rows) = n + 1
      BY <2>5, <3>2
    <3> QED
      BY <2>1, <3>3
  <2>7. PICK k \in S : \A j \in S : k <= j
    <3>1. S \subseteq Nat
      OBVIOUS
    <3> HIDE DEF S
    <3> QED
      BY <2>6, <3>1, FirstIn
  <2>8. Below(k) = Below(i) \cup {i}
    <3>1. \A a, b, c \in Nat : (b < c /\ (b < a => c <= a)) => (a < c <=> a < b \/ a = b)
      OBVIOUS
    <3>2. \A j \in rows : j < k <=> j < i \/ j = i
      BY <2>4, <2>7, <3>1
    <3> QED
      BY <3>2
  <2> QED
    BY <2>5, <2>7, <2>8
<1> HIDE DEF T
<1>3. \A n \in Nat : n \in T
  BY <1>1, <1>2, Reaching
<1> QED
  BY <1>3 DEF T

LEMMA WiderSeq ==
  ASSUME NEW S, NEW T, S \subseteq T, NEW s \in Seq(S)
  PROVE  s \in Seq(T)
OBVIOUS

LEMMA SequenceIs ==
  ASSUME NEW s, NEW k \in Nat, DOMAIN s = 1..k, s = [n \in 1..k |-> s[n]]
  PROVE  IsSequence(s)
<1> DEFINE S == {s[n] : n \in 1..k}
<1>1. s \in [1..k -> S]
  OBVIOUS
<1> HIDE DEF S
<1>2. s \in Seq(S)
  BY <1>1
<1> QED
  BY <1>2 DEF IsSequence, S

LEMMA InOrderIs ==
  ASSUME NEW rows \in SUBSET Nat, IsFiniteSet(rows)
  PROVE  /\ Cardinality(rows) \in Nat /\ DOMAIN InOrder(rows) = 1..Cardinality(rows)
         /\ InOrder(rows) \in Seq(rows) /\ Len(InOrder(rows)) = Cardinality(rows)
         /\ rows # {} => 1 \in DOMAIN InOrder(rows)
<1> DEFINE k == Cardinality(rows)
           s == InOrder(rows)
<1>1. k \in Nat /\ (rows # {} => k # 0)
  BY FS_CardinalityType, FS_EmptySet
<1>2. ASSUME NEW n \in 1..k PROVE s[n] \in rows
  <2>1. n - 1 \in Nat /\ n - 1 < k
    BY <1>1
  <2>2. \E i \in rows : Cardinality({j \in rows : j < i}) = n - 1
    BY <2>1, RanksTaken
  <2> QED
    BY <2>2 DEF InOrder
<1>3. s = [n \in 1..k |-> s[n]] /\ DOMAIN s = 1..k
  <2> DEFINE Row(n) == CHOOSE i \in rows : Cardinality({j \in rows : j < i}) = n - 1
  <2>1. s = [n \in 1..k |-> Row(n)]
    BY Zenon DEF InOrder
  <2> HIDE DEF Row, s, k
  <2> QED
    BY <2>1
<1> HIDE DEF k, s
<1>4. s \in [1..k -> rows]
  BY <1>2, <1>3
<1>5. s \in Seq(rows) /\ Len(s) = k
  BY <1>1, <1>3, <1>4
<1>6. rows # {} => 1 \in 1..k
  BY <1>1
<1> QED
  BY <1>1, <1>3, <1>5, <1>6 DEF k, s

\* A group is a sequence of rows, and has a first.
LEMMA GroupedIs ==
  ASSUME NEW rows \in SUBSET Nat, IsFiniteSet(rows), NEW same, \A i \in rows : <<i, i>> \in same
  PROVE  /\ IsSequence(Grouped(rows, same))
         /\ \A g \in DOMAIN Grouped(rows, same) :
              Grouped(rows, same)[g] \in Seq(rows) /\ 1 \in DOMAIN Grouped(rows, same)[g]
<1> DEFINE F == {i \in rows : \A j \in rows : j < i => <<j, i>> \notin same}
           firsts == InOrder(F)
           Group(g) == {i \in rows : <<firsts[g], i>> \in same}
           groups == Grouped(rows, same)
<1>1. groups = [g \in DOMAIN firsts |-> InOrder(Group(g))]
  BY DEF Grouped
<1>2. F \in SUBSET Nat /\ F \subseteq rows /\ IsFiniteSet(F)
  <2>1. F \subseteq rows
    OBVIOUS
  <2> HIDE DEF F
  <2> QED
    BY <2>1, FS_Subset
<1> HIDE DEF F
<1>3. /\ Cardinality(F) \in Nat /\ DOMAIN firsts = 1..Cardinality(F) /\ firsts \in Seq(F)
      /\ Len(firsts) = Cardinality(F)
  BY <1>2, InOrderIs
<1> HIDE DEF firsts, groups
<1>4. DOMAIN groups = 1..Cardinality(F) /\ groups = [g \in 1..Cardinality(F) |-> groups[g]]
  BY <1>1, <1>3
<1>5. IsSequence(groups)
  BY <1>3, <1>4, SequenceIs
<1>6. ASSUME NEW g \in DOMAIN groups
      PROVE  groups[g] \in Seq(rows) /\ 1 \in DOMAIN groups[g]
  <2>1. g \in DOMAIN firsts
    BY <1>3, <1>4
  <2>2. firsts[g] \in rows
    <3>1. \A n \in 1..Len(firsts) : firsts[n] \in F
      BY <1>3
    <3>2. firsts[g] \in F
      BY <1>3, <2>1, <3>1
    <3> QED
      BY <1>2, <3>2
  <2>3. groups[g] = InOrder(Group(g))
    BY <1>1, <2>1
  <2> DEFINE S == Group(g)
  <2>4. S \subseteq rows /\ firsts[g] \in S
    BY <2>2
  <2> HIDE DEF S
  <2>5. S \in SUBSET Nat /\ IsFiniteSet(S) /\ S # {}
    BY <2>4, FS_Subset
  <2>6. InOrder(S) \in Seq(S) /\ 1 \in DOMAIN InOrder(S)
    BY <2>5, InOrderIs
  <2>7. InOrder(S) \in Seq(rows)
    BY <2>4, <2>6, WiderSeq
  <2> QED
    BY <2>3, <2>6, <2>7 DEF S
<1> QED
  BY <1>5, <1>6 DEF groups

ScopeOK(scope) ==
  /\ scope.kind \in Kinds /\ scope.attributes.labels \in Seq(Nat)
  /\ IsSequence(scope.points)
  /\ \A n \in DOMAIN scope.points : scope.points[n].attributes.labels \in Seq(Nat)

LEMMA ScopeIs ==
  ASSUME NEW batch \in Batches, NEW ids, NEW rows \in Seq(DOMAIN batch), 1 \in DOMAIN rows
  PROVE  ScopeOK(Scope(batch, ids, rows))
<1> DEFINE scope == Scope(batch, ids, rows)
           first == batch[rows[1]]
           kind == ValueType(first)
<1>1. first.labels \in Seq(Nat)
  BY CodecAssumption DEF CodecAssumption
<1>2. kind \in {"Gauge", "Summary"}
  BY DEF ValueType
<1>3. /\ scope.kind = kind /\ scope.attributes.labels = first.labels
      /\ scope.points = [n \in DOMAIN rows |-> DataPoint(kind, batch[rows[n]])]
  BY DEF Scope, ScopeAttributes
<1> DEFINE points == scope.points
<1>4. Len(rows) \in Nat /\ DOMAIN rows = 1..Len(rows)
  OBVIOUS
<1> HIDE DEF scope, first, kind
<1>5. DOMAIN points = 1..Len(rows) /\ points = [n \in 1..Len(rows) |-> points[n]]
  BY <1>3, <1>4
<1>6. IsSequence(points)
  <2> HIDE DEF points
  <2> QED
    BY <1>4, <1>5, SequenceIs
<1>7. ASSUME NEW n \in DOMAIN points
      PROVE  points[n].attributes.labels \in Seq(Nat)
  <2>1. points[n] = DataPoint(kind, batch[rows[n]])
    BY <1>3, <1>4, <1>5
  <2>2. DataPoint(kind, batch[rows[n]]).attributes.labels = <<>>
    BY <1>2 DEF DataPoint, NumberDataPoint, SummaryDataPoint, RowAttributes
  <2> QED
    BY <2>1, <2>2
<1> QED
  BY <1>1, <1>2, <1>3, <1>6, <1>7 DEF ScopeOK, Kinds, scope

ResourceOK(resource) ==
  IsSequence(resource.scopes) /\ \A s \in DOMAIN resource.scopes : ScopeOK(resource.scopes[s])

LEMMA ResourceIs ==
  ASSUME NEW batch \in Batches, NEW ids, NEW rows \in Seq(DOMAIN batch), 1 \in DOMAIN rows
  PROVE  ResourceOK(Resource(batch, ids, rows))
<1> DEFINE resource == Resource(batch, ids, rows)
           S == ToSet(rows)
           same == {p \in S \X S : ids[SeriesKey(batch[p[1]])] = ids[SeriesKey(batch[p[2]])]}
           groups == Grouped(S, same)
<1>1. resource.scopes = [s \in DOMAIN groups |-> Scope(batch, ids, groups[s])]
  BY DEF Resource
<1>2. Len(batch) \in Nat /\ DOMAIN batch = 1..Len(batch)
  <2>1. IsSequence(batch)
    BY CodecAssumption DEF CodecAssumption
  <2> QED
    BY <2>1 DEF IsSequence
<1>3. S \subseteq DOMAIN batch /\ S \in SUBSET Nat /\ IsFiniteSet(S)
  <2>1. S \subseteq DOMAIN batch
    BY DEF ToSet
  <2>2. IsFiniteSet(1..Len(batch))
    BY <1>2, FS_Interval
  <2>3. 1..Len(batch) \subseteq Nat
    BY <1>2
  <2> HIDE DEF S
  <2> QED
    BY <1>2, <2>1, <2>2, <2>3, FS_Subset
<1>4. \A i \in S : <<i, i>> \in same
  OBVIOUS
<1> HIDE DEF S, same
<1>5. /\ IsSequence(groups)
      /\ \A g \in DOMAIN groups : groups[g] \in Seq(S) /\ 1 \in DOMAIN groups[g]
  BY <1>3, <1>4, GroupedIs
<1> HIDE DEF resource, groups
<1>6. \A g \in DOMAIN groups : ScopeOK(Scope(batch, ids, groups[g]))
  <2> SUFFICES ASSUME NEW g \in DOMAIN groups PROVE ScopeOK(Scope(batch, ids, groups[g]))
    OBVIOUS
  <2>1. groups[g] \in Seq(DOMAIN batch) /\ 1 \in DOMAIN groups[g]
    BY <1>3, <1>5
  <2> QED
    BY <2>1, ScopeIs
<1>7. Len(groups) \in Nat /\ DOMAIN groups = 1..Len(groups)
  BY <1>5 DEF IsSequence
<1> DEFINE scopes == resource.scopes
<1>8. DOMAIN scopes = 1..Len(groups) /\ scopes = [s \in 1..Len(groups) |-> scopes[s]]
  BY <1>1, <1>7
<1>9. IsSequence(scopes)
  <2> HIDE DEF scopes
  <2> QED
    BY <1>7, <1>8, SequenceIs
<1> QED
  BY <1>1, <1>6, <1>9 DEF ResourceOK, resource

LEMMA MetricsViewIs ==
  ASSUME NEW batch \in Batches, NEW ids
  PROVE  IsMessage(MetricsView(batch, ids))
<1> DEFINE m == MetricsView(batch, ids)
           S == DOMAIN batch
           same == {p \in S \X S : SameResource(batch[p[1]], batch[p[2]])}
           groups == Grouped(S, same)
<1>1. m = [r \in DOMAIN groups |-> Resource(batch, ids, groups[r])]
  BY DEF MetricsView
<1>2. Len(batch) \in Nat /\ S = 1..Len(batch)
  <2>1. IsSequence(batch)
    BY CodecAssumption DEF CodecAssumption
  <2> QED
    BY <2>1 DEF IsSequence
<1>3. S \in SUBSET Nat /\ IsFiniteSet(S)
  <2>1. 1..Len(batch) \subseteq Nat
    BY <1>2
  <2>2. IsFiniteSet(1..Len(batch))
    BY <1>2, FS_Interval
  <2> HIDE DEF S
  <2> QED
    BY <1>2, <2>1, <2>2
<1>4. \A i \in S : <<i, i>> \in same
  BY DEF SameResource
<1> HIDE DEF same
<1>5. /\ IsSequence(groups)
      /\ \A g \in DOMAIN groups : groups[g] \in Seq(S) /\ 1 \in DOMAIN groups[g]
  <2> HIDE DEF S
  <2> QED
    BY <1>3, <1>4, GroupedIs
<1> HIDE DEF m, groups
<1>6. \A g \in DOMAIN groups : ResourceOK(Resource(batch, ids, groups[g]))
  BY <1>5, ResourceIs
<1>7. Len(groups) \in Nat /\ DOMAIN groups = 1..Len(groups)
  BY <1>5 DEF IsSequence
<1>8. DOMAIN m = 1..Len(groups) /\ m = [s \in 1..Len(groups) |-> m[s]]
  BY <1>1, <1>7
<1>9. IsSequence(m)
  BY <1>7, <1>8, SequenceIs
<1>10. \A r \in DOMAIN m : ResourceOK(m[r])
  BY <1>1, <1>6
<1> QED
  BY <1>9, <1>10 DEF IsMessage, ResourceOK, ScopeOK, m

\* The data points of a message are a sequence, of points that can be decoded.
LEMMA PointsIs ==
  ASSUME NEW m, IsMessage(m)
  PROVE  IsSequence(Points(m)) /\ \A n \in DOMAIN Points(m) : ItemOK(Points(m)[n])
<1> DEFINE OfScope(r, s) == ScopePoints(m[r], m[r].scopes[s])
           Of(r) == [s \in DOMAIN m[r].scopes |-> OfScope(r, s)]
           T == UNION {UNION {{OfScope(r, s)[n] : n \in DOMAIN OfScope(r, s)}
                              : s \in DOMAIN m[r].scopes} : r \in DOMAIN m}
<1>1. Len(m) \in Nat /\ DOMAIN m = 1..Len(m)
  BY DEF IsMessage, IsSequence
<1>2. ASSUME NEW r \in DOMAIN m
      PROVE  Len(m[r].scopes) \in Nat /\ DOMAIN m[r].scopes = 1..Len(m[r].scopes)
  BY DEF IsMessage, IsSequence
<1>3. ASSUME NEW r \in DOMAIN m, NEW s \in DOMAIN m[r].scopes
      PROVE  /\ OfScope(r, s) \in Seq(T)
             /\ \A n \in DOMAIN OfScope(r, s) : ItemOK(OfScope(r, s)[n])
  <2> DEFINE scope == m[r].scopes[s]
             points == scope.points
             items == OfScope(r, s)
  <2>1. ScopeOK(scope)
    BY DEF IsMessage, ScopeOK
  <2>2. Len(points) \in Nat /\ DOMAIN points = 1..Len(points)
    BY <2>1 DEF ScopeOK, IsSequence
  <2>3. items = [n \in DOMAIN points |->
                  [resource |-> m[r].attributes, scope |-> scope.attributes,
                   metric |-> scope.metric, kind |-> scope.kind, point |-> points[n]]]
    BY DEF ScopePoints
  <2>4. \A n \in DOMAIN items : items[n] \in T
    OBVIOUS
  <2> HIDE DEF T, items
  <2>5. items \in Seq(T)
    <3>1. items \in [1..Len(points) -> T]
      BY <2>2, <2>3, <2>4
    <3> QED
      BY <2>2, <3>1
  <2>6. \A n \in DOMAIN items : ItemOK(items[n])
    <3> SUFFICES ASSUME NEW n \in DOMAIN items PROVE ItemOK(items[n])
      OBVIOUS
    <3>1. n \in DOMAIN points
      BY <2>3
    <3>2. /\ items[n].kind = scope.kind /\ items[n].scope = scope.attributes
          /\ items[n].point = points[n]
      BY <2>3, <3>1
    <3> HIDE DEF scope, points
    <3> QED
      BY <2>1, <3>1, <3>2 DEF ScopeOK, ItemOK, points
  <2> QED
    BY <2>5, <2>6 DEF items
<1>4. ASSUME NEW t \in T PROVE ItemOK(t)
  <2> HIDE DEF OfScope
  <2>1. PICK r \in DOMAIN m : \E s \in DOMAIN m[r].scopes : \E n \in DOMAIN OfScope(r, s) :
                               t = OfScope(r, s)[n]
    OBVIOUS
  <2>2. PICK s \in DOMAIN m[r].scopes : \E n \in DOMAIN OfScope(r, s) : t = OfScope(r, s)[n]
    BY <2>1
  <2> HIDE DEF T
  <2>3. \A i \in DOMAIN OfScope(r, s) : ItemOK(OfScope(r, s)[i])
    BY <1>3
  <2> QED
    BY <2>2, <2>3
<1> HIDE DEF OfScope, T
<1>5. ASSUME NEW r \in DOMAIN m
      PROVE  ResourcePoints(m[r]) \in Seq(T)
  <2>1. Of(r) \in [1..Len(m[r].scopes) -> Seq(T)]
    <3>1. \A s \in 1..Len(m[r].scopes) : OfScope(r, s) \in Seq(T)
      BY <1>2, <1>3
    <3>2. DOMAIN m[r].scopes = 1..Len(m[r].scopes)
      BY <1>2
    <3> QED
      BY <3>1, <3>2
  <2>2. Of(r) \in Seq(Seq(T))
    <3>1. Len(m[r].scopes) \in Nat
      BY <1>2
    <3> HIDE DEF Of
    <3> QED
      BY <2>1, <3>1
  <2>3. ResourcePoints(m[r]) = FlattenSeq(Of(r))
    BY Zenon DEF ResourcePoints, OfScope
  <2> HIDE DEF Of
  <2> QED
    BY <2>2, <2>3, FlattenSeqIs
<1> DEFINE all == [r \in DOMAIN m |-> ResourcePoints(m[r])]
<1>6. Points(m) \in Seq(T)
  <2>1. all \in [1..Len(m) -> Seq(T)]
    BY <1>1, <1>5
  <2>2. all \in Seq(Seq(T))
    BY <1>1, <2>1
  <2>3. Points(m) = FlattenSeq(all)
    BY Zenon DEF Points
  <2> HIDE DEF all
  <2> QED
    BY <2>2, <2>3, FlattenSeqIs
<1> DEFINE items == Points(m)
<1> HIDE DEF items, all
<1>7. Len(items) \in Nat /\ DOMAIN items = 1..Len(items) /\ \A n \in 1..Len(items) : items[n] \in T
  BY <1>6 DEF items
<1>8. IsSequence(items)
  <2>1. items = [n \in 1..Len(items) |-> items[n]]
    BY <1>6 DEF items
  <2> QED
    BY <1>7, <2>1, SequenceIs
<1> QED
  BY <1>4, <1>7, <1>8 DEF items

\* The last message is one, and what the peer has of it is what it decodes.
DecodedInv == IsMessage(message) /\ got = DecodeEach(Points(message))

\* An observation is what its data point alone would give, whatever came before it in the
\* message, and a message is read up to its first point that fails: from the encoder or from
\* another producer, with any number of resources, scopes and points.
THEOREM PointsStandAlone == Spec => []EachPointAlone
<1>1. Init => DecodedInv
  <2> SUFFICES ASSUME Init PROVE DecodedInv
    OBVIOUS
  <2>1. message = <<>> /\ got = Nothing
    BY DEF Init, NoMessage, Nothing
  <2>2. IsMessage(<<>>)
    <3>1. IsSequence(<<>>)
      BY DEF IsSequence
    <3> QED
      BY <3>1 DEF IsMessage
  <2>3. Points(<<>>) = <<>>
    <3> DEFINE all == [r \in DOMAIN <<>> |-> ResourcePoints(<<>>[r])]
    <3>1. all = <<>>
      OBVIOUS
    <3>2. FlattenSeq(<<>>) = <<>>
      <4> DEFINE none == <<>>
      <4>1. Len(none) = 0 /\ none = <<>>
        OBVIOUS
      <4>2. none \in Seq(Seq(Nat))
        OBVIOUS
      <4> HIDE DEF none
      <4>3. PICK g \in [0..Len(none) -> Seq(Nat)] :
              g[0] = <<>> /\ FlattenSeq(none) = g[Len(none)]
        <5>1. JoinedByOne(Nat, none)
          BY <4>2, FlattenIs
        <5> QED
          BY <5>1, Zenon DEF JoinedByOne
      <4>4. FlattenSeq(none) = <<>>
        BY <4>1, <4>3
      <4> QED
        BY <4>1, <4>4
    <3>3. Points(<<>>) = FlattenSeq(all)
      BY Zenon DEF Points
    <3> HIDE DEF all
    <3> QED
      BY <3>1, <3>2, <3>3
  <2>4. DecodeEach(<<>>) = Nothing
    <3> DEFINE items == <<>>
    <3>1. Len(items) = 0 /\ Len(items) \in Nat /\ DOMAIN items = 1..Len(items)
      OBVIOUS
    <3> HIDE DEF items
    <3>2. FoldLeft(DecodePoint, Nothing, items) = Nothing
      <4>1. PointByPoint(Nothing, items)
        BY <3>1, PointsFold
      <4>2. PICK acc : acc[0] = Nothing /\ FoldLeft(DecodePoint, Nothing, items) = acc[Len(items)]
        BY <4>1, Zenon DEF PointByPoint
      <4> QED
        BY <3>1, <4>2
    <3> QED
      BY <3>2 DEF DecodeEach, Nothing, items
  <2> QED
    BY <2>1, <2>2, <2>3, <2>4 DEF DecodedInv
<1>2. DecodedInv /\ [Next]_vars => DecodedInv'
  <2> SUFFICES ASSUME DecodedInv, [Next]_vars PROVE DecodedInv'
    OBVIOUS
  <2>1. ASSUME UNCHANGED <<message, got>>
        PROVE  DecodedInv'
    BY <2>1 DEF DecodedInv
  <2>2. ASSUME NEW batch \in Batches, Flush(batch)
        PROVE  DecodedInv'
    <3> DEFINE ids == FoldLeft(WithId, Known, batch).ids
    <3>1. \/ message' = MetricsView(batch, ids) /\ got' = DecodeEach(Points(message'))
          \/ UNCHANGED <<message, got>>
      BY <2>2 DEF Flush
    <3> HIDE DEF ids
    <3>2. CASE message' = MetricsView(batch, ids) /\ got' = DecodeEach(Points(message'))
      <4>1. IsMessage(message')
        BY <3>2, MetricsViewIs
      <4> QED
        BY <3>2, <4>1 DEF DecodedInv
    <3> QED
      BY <2>1, <3>1, <3>2
  <2>3. ASSUME NEW batch \in Batches, Refused(batch)
        PROVE  DecodedInv'
    BY <2>1, <2>3 DEF Refused
  <2>4. ASSUME NEW m \in Foreign, Receive(m)
        PROVE  DecodedInv'
    <3>1. message' = m /\ got' = DecodeEach(Points(m)) /\ IsMessage(m)
      BY <2>4, CodecAssumption DEF CodecAssumption, Receive
    <3> QED
      BY <3>1 DEF DecodedInv
  <2>5. CASE UNCHANGED vars
    BY <2>1, <2>5 DEF vars
  <2> QED
    BY <2>2, <2>3, <2>4, <2>5 DEF Next
<1>3. DecodedInv => EachPointAlone
  <2> SUFFICES ASSUME DecodedInv PROVE EachPointAlone
    OBVIOUS
  <2> DEFINE items == Points(message)
  <2>1. IsSequence(items) /\ \A n \in DOMAIN items : ItemOK(items[n])
    BY PointsIs DEF DecodedInv
  <2>2. got = DecodeEach(items)
    BY DEF DecodedInv
  <2> HIDE DEF items
  <2> QED
    BY <2>1, <2>2, DecodeEachIs DEF EachPointAlone, items
<1> QED
  BY <1>1, <1>2, <1>3, PTL DEF Spec

-----------------------------------------------------------------------------
(* What is encoded comes out whole: the data points of a message are a     *)
(* walk over the rows of the batch.                                        *)

Enumerates(w, S) ==
  /\ w \in Seq(S)
  /\ \A p, q \in DOMAIN w : w[p] = w[q] => p = q
  /\ \A i \in S : \E p \in DOMAIN w : w[p] = i

\* The pairs of R come in their order.
Keeps(w, R) == \A p, q \in DOMAIN w : <<w[p], w[q]>> \in R => p < q

Ahead(rows, i) == {j \in rows : j < i}

LEMMA AheadIs ==
  ASSUME NEW rows \in SUBSET Nat, IsFiniteSet(rows)
  PROVE  /\ \A i \in rows : Cardinality(Ahead(rows, i)) \in 0..Cardinality(rows) - 1
         /\ \A i, j \in rows : i < j => Cardinality(Ahead(rows, i)) < Cardinality(Ahead(rows, j))
<1> DEFINE Rank(i) == Cardinality(Ahead(rows, i))
<1>1. ASSUME NEW i \in rows
      PROVE  /\ IsFiniteSet(Ahead(rows, i)) /\ Rank(i) \in Nat
             /\ IsFiniteSet(Ahead(rows, i) \cup {i})
             /\ Cardinality(Ahead(rows, i) \cup {i}) = Rank(i) + 1
  <2>1. Ahead(rows, i) \subseteq rows /\ i \notin Ahead(rows, i)
    BY DEF Ahead
  <2>2. IsFiniteSet(Ahead(rows, i))
    BY <2>1, FS_Subset
  <2>3. /\ IsFiniteSet(Ahead(rows, i) \cup {i})
        /\ Cardinality(Ahead(rows, i) \cup {i}) = Cardinality(Ahead(rows, i)) + 1
    BY <2>1, <2>2, FS_AddElement
  <2>4. Cardinality(Ahead(rows, i)) \in Nat
    BY <2>2, FS_CardinalityType
  <2> QED
    BY <2>2, <2>3, <2>4
<1>2. Cardinality(rows) \in Nat
  BY FS_CardinalityType
<1>3. ASSUME NEW i \in rows
      PROVE  Rank(i) \in 0..Cardinality(rows) - 1
  <2>1. Ahead(rows, i) \cup {i} \subseteq rows
    BY DEF Ahead
  <2>2. Cardinality(Ahead(rows, i) \cup {i}) <= Cardinality(rows)
    BY <2>1, FS_Subset
  <2>3. Rank(i) \in Nat /\ Rank(i) + 1 <= Cardinality(rows)
    BY <1>1, <2>2
  <2> HIDE DEF Rank
  <2> QED
    BY <1>2, <2>3
<1>4. ASSUME NEW i \in rows, NEW j \in rows, i < j
      PROVE  Rank(i) < Rank(j)
  <2>1. Ahead(rows, i) \cup {i} \subseteq Ahead(rows, j)
    <3>1. \A a, b, c \in Nat : a < b /\ b < c => a < c
      OBVIOUS
    <3>2. \A x \in rows : x < i => x < j
      BY <1>4, <3>1
    <3> QED
      BY <1>4, <3>2 DEF Ahead
  <2>2. Cardinality(Ahead(rows, i) \cup {i}) <= Cardinality(Ahead(rows, j))
    BY <1>1, <2>1, FS_Subset
  <2>3. Rank(i) + 1 <= Rank(j) /\ Rank(i) \in Nat /\ Rank(j) \in Nat
    BY <1>1, <2>2
  <2> HIDE DEF Rank
  <2> QED
    BY <2>3
<1> QED
  BY <1>3, <1>4

\* Rows in order are all of the rows, each once, in order.
LEMMA OrderIs ==
  ASSUME NEW rows \in SUBSET Nat, IsFiniteSet(rows)
  PROVE  /\ Enumerates(InOrder(rows), rows)
         /\ \A p, q \in DOMAIN InOrder(rows) : InOrder(rows)[p] < InOrder(rows)[q] => p < q
<1> DEFINE k == Cardinality(rows)
           w == InOrder(rows)
           Rank(i) == Cardinality(Ahead(rows, i))
<1>1. w \in Seq(rows) /\ DOMAIN w = 1..k /\ k \in Nat
  BY InOrderIs
<1>2. ASSUME NEW n \in 1..k PROVE w[n] \in rows /\ Rank(w[n]) = n - 1
  <2>1. n - 1 \in Nat /\ n - 1 < k
    BY <1>1
  <2>2. \E i \in rows : Cardinality({j \in rows : j < i}) = n - 1
    BY <2>1, RanksTaken
  <2>3. w[n] = CHOOSE i \in rows : Cardinality({j \in rows : j < i}) = n - 1
    BY Zenon DEF InOrder
  <2>4. w[n] \in rows /\ Cardinality({j \in rows : j < w[n]}) = n - 1
    BY <2>2, <2>3
  <2> QED
    BY <2>4 DEF Ahead
<1> HIDE DEF w
<1>3. \A i \in rows : Rank(i) \in 0..k - 1
  BY AheadIs
<1>4. \A i, j \in rows : i < j => Rank(i) < Rank(j)
  BY AheadIs
<1> HIDE DEF Rank, k
<1>5. ASSUME NEW p \in 1..k, NEW q \in 1..k, w[p] = w[q]
      PROVE  p = q
  <2>1. p - 1 = q - 1
    BY <1>2, <1>5
  <2> QED
    BY <2>1
<1>6. ASSUME NEW p \in 1..k, NEW q \in 1..k, w[p] < w[q]
      PROVE  p < q
  <2>1. p - 1 < q - 1
    BY <1>2, <1>4, <1>6
  <2> QED
    BY <2>1
<1>7. ASSUME NEW i \in rows
      PROVE  \E p \in 1..k : w[p] = i
  <2> DEFINE p == Rank(i) + 1
  <2>1. p \in 1..k /\ p - 1 = Rank(i)
    BY <1>1, <1>3
  <2> HIDE DEF p
  <2>2. w[p] \in rows /\ Rank(w[p]) = Rank(i)
    BY <1>2, <2>1
  <2>3. w[p] \in Nat /\ i \in Nat
    BY <2>2
  <2>4. ~(w[p] < i) /\ ~(i < w[p])
    <3>1. Rank(i) \in Nat
      BY <1>1, <1>3
    <3>2. ~(Rank(i) < Rank(i))
      BY <3>1
    <3> QED
      BY <1>4, <2>2, <3>2
  <2>5. w[p] = i
    BY <2>3, <2>4
  <2> QED
    BY <2>1, <2>5
<1> QED
  BY <1>1, <1>5, <1>6, <1>7 DEF Enumerates, w

\* The groups of an equivalence are its classes, each in order.
IsGrouping(groups, class, rows, same) ==
  /\ IsSequence(groups)
  /\ \A g \in DOMAIN groups :
       /\ class[g] \in SUBSET rows /\ class[g] # {}
       /\ groups[g] = InOrder(class[g])
       /\ \A i \in class[g], j \in rows : <<i, j>> \in same <=> j \in class[g]
  /\ \A i \in rows : \E g \in DOMAIN groups : i \in class[g]
  /\ \A g, h \in DOMAIN groups : \A i \in class[g] : i \in class[h] => g = h

LEMMA GroupingIs ==
  ASSUME NEW rows \in SUBSET Nat, IsFiniteSet(rows), NEW same,
         \A i \in rows : <<i, i>> \in same,
         \A i, j \in rows : <<i, j>> \in same => <<j, i>> \in same,
         \A i, j, k \in rows : <<i, j>> \in same /\ <<j, k>> \in same => <<i, k>> \in same
  PROVE  \E class : IsGrouping(Grouped(rows, same), class, rows, same)
<1> DEFINE F == {i \in rows : \A j \in rows : j < i => <<j, i>> \notin same}
           firsts == InOrder(F)
           class == [g \in DOMAIN firsts |-> {i \in rows : <<firsts[g], i>> \in same}]
           groups == Grouped(rows, same)
<1>1. groups = [g \in DOMAIN firsts |-> InOrder(class[g])]
  BY DEF Grouped
<1>2. F \in SUBSET Nat /\ F \subseteq rows /\ IsFiniteSet(F)
  <2>1. F \subseteq rows
    OBVIOUS
  <2> HIDE DEF F
  <2> QED
    BY <2>1, FS_Subset
<1>3. \A i \in F : i \in rows /\ \A j \in rows : j < i => <<j, i>> \notin same
  OBVIOUS
<1>4. \A i \in rows : (\A j \in rows : j < i => <<j, i>> \notin same) => i \in F
  OBVIOUS
<1>5. \A g \in DOMAIN firsts : class[g] = {i \in rows : <<firsts[g], i>> \in same}
  OBVIOUS
<1> HIDE DEF F
<1>6. Enumerates(firsts, F)
  BY <1>2, OrderIs
<1> HIDE DEF firsts, class, groups
<1>7. \A g \in DOMAIN firsts : firsts[g] \in F /\ firsts[g] \in rows
  <2>1. \A g \in DOMAIN firsts : firsts[g] \in F
    BY <1>6 DEF Enumerates
  <2> QED
    BY <1>2, <2>1
<1>8. IsSequence(groups) /\ DOMAIN groups = DOMAIN firsts
  <2>1. IsSequence(groups)
    BY GroupedIs DEF groups
  <2> QED
    BY <1>1, <2>1
<1>9. ASSUME NEW g \in DOMAIN firsts
      PROVE  /\ class[g] \in SUBSET rows /\ class[g] # {} /\ groups[g] = InOrder(class[g])
             /\ \A i \in class[g], j \in rows : <<i, j>> \in same <=> j \in class[g]
  <2>1. firsts[g] \in rows /\ firsts[g] \in class[g]
    BY <1>5, <1>7
  <2>2. groups[g] = InOrder(class[g])
    BY <1>1
  <2>3. ASSUME NEW i \in class[g], NEW j \in rows
        PROVE  <<i, j>> \in same <=> j \in class[g]
    <3>1. i \in rows /\ <<firsts[g], i>> \in same
      BY <1>5
    <3>2. j \in class[g] <=> <<firsts[g], j>> \in same
      BY <1>5
    <3>3. <<i, firsts[g]>> \in same
      BY <2>1, <3>1
    <3> QED
      BY <2>1, <3>1, <3>2, <3>3
  <2> QED
    BY <1>5, <2>1, <2>2, <2>3
<1>10. ASSUME NEW i \in rows
       PROVE  \E g \in DOMAIN firsts : i \in class[g]
  <2> DEFINE S == {j \in rows : <<j, i>> \in same}
  <2>1. PICK f \in S : \A j \in S : f <= j
    <3>1. S \subseteq Nat /\ i \in S
      OBVIOUS
    <3> HIDE DEF S
    <3> QED
      BY <3>1, FirstIn
  <2>2. f \in rows /\ <<f, i>> \in same
    OBVIOUS
  <2>3. ASSUME NEW j \in rows, j < f PROVE <<j, f>> \notin same
    <3> SUFFICES ASSUME <<j, f>> \in same PROVE FALSE
      OBVIOUS
    <3>1. <<j, i>> \in same
      BY <2>2
    <3>2. f <= j
      BY <2>1, <3>1
    <3>3. \A a, b \in Nat : ~(a < b /\ b <= a)
      OBVIOUS
    <3> QED
      BY <2>2, <2>3, <3>2, <3>3
  <2>4. f \in F
    BY <1>4, <2>2, <2>3
  <2>5. PICK g \in DOMAIN firsts : firsts[g] = f
    BY <1>6, <2>4 DEF Enumerates
  <2>6. i \in class[g]
    BY <1>5, <2>2, <2>5
  <2> QED
    BY <2>6
<1>11. ASSUME NEW g \in DOMAIN firsts, NEW h \in DOMAIN firsts, NEW i \in class[g], i \in class[h]
       PROVE  g = h
  <2> DEFINE a == firsts[g]
             b == firsts[h]
  <2>1. a \in F /\ b \in F /\ a \in rows /\ b \in rows
    BY <1>7
  <2>2. i \in rows /\ <<a, i>> \in same /\ <<b, i>> \in same
    BY <1>5, <1>11
  <2> HIDE DEF a, b
  <2>3. <<a, b>> \in same /\ <<b, a>> \in same
    BY <2>1, <2>2
  <2>4. ~(a < b) /\ ~(b < a)
    BY <1>3, <2>1, <2>3
  <2>5. a = b
    BY <2>1, <2>4
  <2> QED
    BY <1>6, <2>5 DEF Enumerates, a, b
<1> QED
  BY <1>8, <1>9, <1>10, <1>11 DEF IsGrouping, groups

-----------------------------------------------------------------------------
(* Joining.                                                                *)

\* Where the elements of the sequences are in what is joined of them.
IsPlacing(off, ss, w) ==
  /\ \A k \in 1..Len(ss) : \A n \in 1..Len(ss[k]) :
       off[k] \in Nat /\ off[k] + n \in 1..Len(w) /\ w[off[k] + n] = ss[k][n]
  /\ \A p \in 1..Len(w) : \E k \in 1..Len(ss) : \E n \in 1..Len(ss[k]) : p = off[k] + n

LEMMA FlattenPlaces ==
  ASSUME NEW T, NEW ss \in Seq(Seq(T))
  PROVE  \E off : IsPlacing(off, ss, FlattenSeq(ss))
<1>1. PICK g \in [0..Len(ss) -> Seq(T)] :
        /\ g[0] = <<>> /\ FlattenSeq(ss) = g[Len(ss)]
        /\ \A n \in 1..Len(ss) : g[n] = g[n - 1] \o ss[n]
  <2>1. JoinedByOne(T, ss)
    BY FlattenIs
  <2> QED
    BY <2>1, Zenon DEF JoinedByOne
<1>2. Len(ss) \in Nat
  OBVIOUS
<1> DEFINE off == [k \in 1..Len(ss) |-> Len(g[k - 1])]
<1>3. \A k \in 1..Len(ss) : /\ k - 1 \in 0..Len(ss) /\ g[k - 1] \in Seq(T)
                            /\ off[k] = Len(g[k - 1]) /\ off[k] \in Nat /\ ss[k] \in Seq(T)
  <2> SUFFICES ASSUME NEW k \in 1..Len(ss)
               PROVE  /\ k - 1 \in 0..Len(ss) /\ g[k - 1] \in Seq(T)
                      /\ off[k] = Len(g[k - 1]) /\ off[k] \in Nat /\ ss[k] \in Seq(T)
    OBVIOUS
  <2>1. k - 1 \in 0..Len(ss)
    BY <1>2
  <2>2. g[k - 1] \in Seq(T)
    BY <2>1
  <2> QED
    BY <2>1, <2>2
<1> HIDE DEF off
<1> DEFINE At(l) == /\ \A k \in 1..l : \A n \in 1..Len(ss[k]) :
                         off[k] + n \in 1..Len(g[l]) /\ g[l][off[k] + n] = ss[k][n]
                    /\ \A p \in 1..Len(g[l]) : \E k \in 1..l : \E n \in 1..Len(ss[k]) : p = off[k] + n
           S == {l \in Nat : l <= Len(ss) => At(l)}
<1>4. At(0)
  <2>1. Len(g[0]) = 0
    BY <1>1
  <2> QED
    BY <2>1
<1>5. ASSUME NEW l \in Nat, l + 1 <= Len(ss), At(l)
      PROVE  At(l + 1)
  <2>1. l + 1 \in 1..Len(ss) /\ (l + 1) - 1 = l
    BY <1>2, <1>5
  <2> DEFINE a == g[l]
             b == ss[l + 1]
             c == g[l + 1]
  <2>2. a \in Seq(T) /\ b \in Seq(T) /\ c = a \o b /\ off[l + 1] = Len(a)
    BY <1>1, <1>3, <2>1
  <2>3. /\ \A k \in 1..l : \A n \in 1..Len(ss[k]) :
             off[k] + n \in 1..Len(a) /\ a[off[k] + n] = ss[k][n]
        /\ \A p \in 1..Len(a) : \E k \in 1..l : \E n \in 1..Len(ss[k]) : p = off[k] + n
    BY <1>5
  <2> HIDE DEF a, b, c
  <2>4. /\ Len(a) \in Nat /\ Len(b) \in Nat /\ Len(c) = Len(a) + Len(b)
        /\ \A i \in 1..Len(a) : i \in 1..Len(c) /\ c[i] = a[i]
        /\ \A n \in 1..Len(b) : Len(a) + n \in 1..Len(c) /\ c[Len(a) + n] = b[n]
    BY <2>2
  <2>5. \A k : k \in 1..l + 1 <=> k \in 1..l \/ k = l + 1
    OBVIOUS
  <2>6. \A k \in 1..l : \A n \in 1..Len(ss[k]) :
          off[k] + n \in 1..Len(c) /\ c[off[k] + n] = ss[k][n]
    BY <2>3, <2>4
  <2>7. \A n \in 1..Len(ss[l + 1]) :
          off[l + 1] + n \in 1..Len(c) /\ c[off[l + 1] + n] = ss[l + 1][n]
    BY <2>2, <2>4 DEF b
  <2>8. ASSUME NEW p \in 1..Len(c)
        PROVE  \E k \in 1..l + 1 : \E n \in 1..Len(ss[k]) : p = off[k] + n
    <3>1. CASE p \in 1..Len(a)
      BY <2>3, <2>5, <3>1
    <3>2. CASE p \notin 1..Len(a)
      <4> DEFINE n == p - Len(a)
      <4>1. n \in 1..Len(b) /\ p = Len(a) + n
        BY <2>4, <3>2
      <4> HIDE DEF n
      <4>2. n \in 1..Len(ss[l + 1]) /\ p = off[l + 1] + n
        BY <2>2, <4>1 DEF b
      <4> QED
        BY <2>5, <4>2
    <3> QED
      BY <3>1, <3>2
  <2>9. \A k \in 1..l + 1 : \A n \in 1..Len(ss[k]) :
          off[k] + n \in 1..Len(c) /\ c[off[k] + n] = ss[k][n]
    BY <2>5, <2>6, <2>7
  <2> QED
    BY <2>8, <2>9 DEF c
<1> HIDE DEF At
<1>6. At(Len(ss))
  <2>1. 0 \in S
    BY <1>4
  <2>2. \A l \in Nat : l \in S => l + 1 \in S
    <3> SUFFICES ASSUME NEW l \in Nat, l <= Len(ss) => At(l), l + 1 <= Len(ss) PROVE At(l + 1)
      OBVIOUS
    <3>1. l <= Len(ss)
      BY <1>2
    <3> QED
      BY <1>5, <3>1
  <2> HIDE DEF S
  <2>3. Len(ss) \in S
    BY <1>2, <2>1, <2>2, Reaching
  <2> QED
    BY <1>2, <2>3 DEF S
<1>7. IsPlacing(off, ss, g[Len(ss)])
  <2> DEFINE w == g[Len(ss)]
  <2>1. /\ \A k \in 1..Len(ss) : \A n \in 1..Len(ss[k]) :
             off[k] + n \in 1..Len(w) /\ w[off[k] + n] = ss[k][n]
        /\ \A p \in 1..Len(w) : \E k \in 1..Len(ss) : \E n \in 1..Len(ss[k]) : p = off[k] + n
    BY <1>6, Zenon DEF At
  <2>2. \A k \in 1..Len(ss) : off[k] \in Nat
    BY <1>3
  <2> HIDE DEF w
  <2>3. IsPlacing(off, ss, w)
    BY <2>1, <2>2, Zenon DEF IsPlacing
  <2> QED
    BY <2>3 DEF w
<1> QED
  BY <1>1, <1>7

\* Walks over the parts of a set, none of whose pairs in R is in two parts.
WalkParts(ss, part, S, R) ==
  /\ \A k \in 1..Len(ss) : part[k] \subseteq S /\ Enumerates(ss[k], part[k]) /\ Keeps(ss[k], R)
  /\ \A i \in S : \E k \in 1..Len(ss) : i \in part[k]
  /\ \A k, l \in 1..Len(ss) : \A i \in part[k] : i \in part[l] => k = l
  /\ \A k, l \in 1..Len(ss) : \A i \in part[k], j \in part[l] : <<i, j>> \in R => k = l

\* What is joined of walks over parts is a walk over the whole.
LEMMA JoinedWalks ==
  ASSUME NEW S, NEW ss \in Seq(Seq(S)), NEW part, NEW R, WalkParts(ss, part, S, R)
  PROVE  Enumerates(FlattenSeq(ss), S) /\ Keeps(FlattenSeq(ss), R)
<1> DEFINE w == FlattenSeq(ss)
<1>0. /\ \A k \in 1..Len(ss) : part[k] \subseteq S /\ Enumerates(ss[k], part[k]) /\ Keeps(ss[k], R)
      /\ \A i \in S : \E k \in 1..Len(ss) : i \in part[k]
      /\ \A k, l \in 1..Len(ss) : \A i \in part[k] : i \in part[l] => k = l
      /\ \A k, l \in 1..Len(ss) : \A i \in part[k], j \in part[l] : <<i, j>> \in R => k = l
  BY Zenon DEF WalkParts
<1>1. w \in Seq(S)
  BY FlattenSeqIs
<1>2. PICK off : IsPlacing(off, ss, w)
  BY FlattenPlaces
<1> HIDE DEF w
<1>3. DOMAIN w = 1..Len(w)
  BY <1>1
<1>4. \A k \in 1..Len(ss) : \A n \in 1..Len(ss[k]) :
        off[k] \in Nat /\ off[k] + n \in 1..Len(w) /\ w[off[k] + n] = ss[k][n]
  BY <1>2, Zenon DEF IsPlacing
<1>5. \A p \in 1..Len(w) : \E k \in 1..Len(ss) : \E n \in 1..Len(ss[k]) : p = off[k] + n
  BY <1>2, Zenon DEF IsPlacing
<1>6. ASSUME NEW k \in 1..Len(ss)
      PROVE  /\ DOMAIN ss[k] = 1..Len(ss[k]) /\ \A n \in 1..Len(ss[k]) : ss[k][n] \in part[k]
             /\ \A m, n \in 1..Len(ss[k]) : /\ ss[k][m] = ss[k][n] => m = n
                                            /\ <<ss[k][m], ss[k][n]>> \in R => m < n
             /\ \A i \in part[k] : \E n \in 1..Len(ss[k]) : ss[k][n] = i
  <2> DEFINE s == ss[k]
  <2>1. Enumerates(s, part[k]) /\ Keeps(s, R)
    BY <1>0
  <2> HIDE DEF s
  <2>2. s \in Seq(part[k])
    BY <2>1 DEF Enumerates
  <2>3. DOMAIN s = 1..Len(s) /\ \A n \in 1..Len(s) : s[n] \in part[k]
    BY <2>2
  <2> QED
    BY <2>1, <2>3 DEF Enumerates, Keeps, s
<1> DEFINE Near(p, q, k, m, n) == /\ p = off[k] + m /\ q = off[k] + n /\ off[k] \in Nat
                                  /\ w[p] = ss[k][m] /\ w[q] = ss[k][n]
           Together(p, q) == \E k \in 1..Len(ss) : \E m, n \in 1..Len(ss[k]) : Near(p, q, k, m, n)
<1>7. ASSUME NEW p \in 1..Len(w), NEW q \in 1..Len(w), w[p] = w[q] \/ <<w[p], w[q]>> \in R
      PROVE  Together(p, q)
  <2>1. PICK k \in 1..Len(ss) : \E m \in 1..Len(ss[k]) : p = off[k] + m
    BY <1>5
  <2>2. PICK m \in 1..Len(ss[k]) : p = off[k] + m
    BY <2>1
  <2>3. PICK l \in 1..Len(ss) : \E n \in 1..Len(ss[l]) : q = off[l] + n
    BY <1>5
  <2>4. PICK n \in 1..Len(ss[l]) : q = off[l] + n
    BY <2>3
  <2>5. w[p] = ss[k][m] /\ w[q] = ss[l][n] /\ off[k] \in Nat
    BY <1>4, <2>2, <2>4
  <2>6. w[p] \in part[k] /\ w[q] \in part[l]
    BY <1>6, <2>5
  <2>7. k = l
    BY <1>0, <1>7, <2>6
  <2>8. Near(p, q, k, m, n)
    BY <2>2, <2>4, <2>5, <2>7
  <2> HIDE DEF Near
  <2> QED
    BY <2>4, <2>7, <2>8
<1> HIDE DEF Together
<1>8. ASSUME NEW p \in 1..Len(w), NEW q \in 1..Len(w), w[p] = w[q]
      PROVE  p = q
  <2>1. Together(p, q)
    BY <1>7, <1>8
  <2>2. PICK k \in 1..Len(ss) : \E m, n \in 1..Len(ss[k]) : Near(p, q, k, m, n)
    BY <2>1, Zenon DEF Together
  <2>3. PICK m \in 1..Len(ss[k]), n \in 1..Len(ss[k]) : Near(p, q, k, m, n)
    BY <2>2, Zenon
  <2>4. m = n
    <3>1. ss[k][m] = ss[k][n]
      BY <1>8, <2>3
    <3> DEFINE s == ss[k]
    <3>2. Enumerates(s, part[k]) /\ DOMAIN s = 1..Len(s)
      BY <1>0, <1>6
    <3> HIDE DEF s
    <3>3. \A i, j \in DOMAIN s : s[i] = s[j] => i = j
      BY <3>2 DEF Enumerates
    <3>4. s[m] = s[n] /\ m \in DOMAIN s /\ n \in DOMAIN s
      BY <3>1, <3>2 DEF s
    <3> QED
      BY <3>3, <3>4
  <2> QED
    BY <2>3, <2>4
<1>9. ASSUME NEW p \in 1..Len(w), NEW q \in 1..Len(w), <<w[p], w[q]>> \in R
      PROVE  p < q
  <2>1. Together(p, q)
    BY <1>7, <1>9
  <2>2. PICK k \in 1..Len(ss) : \E m, n \in 1..Len(ss[k]) : Near(p, q, k, m, n)
    BY <2>1, Zenon DEF Together
  <2>3. PICK m \in 1..Len(ss[k]), n \in 1..Len(ss[k]) : Near(p, q, k, m, n)
    BY <2>2, Zenon
  <2>4. m < n
    <3>1. w[p] = ss[k][m] /\ w[q] = ss[k][n]
      BY <2>3
    <3>2. <<ss[k][m], ss[k][n]>> \in R
      BY <1>9, <3>1
    <3> QED
      BY <1>6, <3>2
  <2>5. m \in Int /\ n \in Int
    OBVIOUS
  <2>6. \A a \in Nat, x, y \in Int : x < y => a + x < a + y
    OBVIOUS
  <2> QED
    BY <2>3, <2>4, <2>5, <2>6
<1>10. ASSUME NEW i \in S
       PROVE  \E p \in 1..Len(w) : w[p] = i
  <2>1. PICK k \in 1..Len(ss) : i \in part[k]
    BY <1>0
  <2>2. PICK n \in 1..Len(ss[k]) : ss[k][n] = i
    BY <1>6, <2>1
  <2>3. off[k] + n \in 1..Len(w) /\ w[off[k] + n] = i
    BY <1>4, <2>2
  <2> QED
    BY <2>3
<1> QED
  BY <1>1, <1>3, <1>8, <1>9, <1>10 DEF Enumerates, Keeps, w

-----------------------------------------------------------------------------
(* Rows and their data points.                                             *)

\* What a data point of an envelope is, wherever it is in the message.
Fits(env, item) ==
  /\ item.kind = ValueType(env) /\ item.point = DataPoint(ValueType(env), env)
  /\ item.metric = env.metric
  /\ item.resource.type = env.type /\ item.resource.agg = IntAttribute(env.agg)
  /\ item.resource.version = IntAttribute(env.version)
  /\ Sorted(item.resource.labels) = Sorted(env.res)
  /\ item.scope.labels \in Seq(Nat) /\ Sorted(item.scope.labels) = Sorted(env.labels)

\* Milliseconds survive their nanoseconds, but for saturation.
LEMMA NanosBack ==
  ASSUME NEW ms \in Nat
  PROVE  Nanos(ms) \div NanosPerMs
           = IF ms > MaxU64 \div NanosPerMs THEN MaxU64 \div NanosPerMs ELSE ms
<1> DEFINE N == NanosPerMs
           q == MaxU64 \div N
<1>1. N \in Nat /\ N > 0 /\ MaxU64 \in Nat
  BY CodecAssumption DEF CodecAssumption
<1>2. q \in Nat /\ q * N <= MaxU64 /\ MaxU64 < (q + 1) * N
  <2>1. \A x \in Nat : \A y \in Nat \ {0} : /\ x \div y \in Nat /\ (x \div y) * y <= x
                                             /\ x < (x \div y + 1) * y
    OBVIOUS
  <2> QED
    BY <1>1, <2>1
<1>3. (ms * N) \div N = ms
  <2>1. \A x \in Nat : \A y \in Nat \ {0} : (x * y) \div y = x
    OBVIOUS
  <2> QED
    BY <1>1, <2>1
<1> HIDE DEF q, N
<1>4. ms > q <=> ms * N > MaxU64
  <2>1. CASE ms > q
    <3>1. ms >= q + 1
      BY <1>2, <2>1
    <3>2. \A x, y, z \in Nat : x >= y => x * z >= y * z
      OBVIOUS
    <3>3. ms * N >= (q + 1) * N /\ ms * N \in Nat /\ (q + 1) * N \in Nat
      BY <1>1, <1>2, <3>1, <3>2
    <3> QED
      BY <1>1, <1>2, <2>1, <3>3
  <2>2. CASE ~(ms > q)
    <3>1. q >= ms
      BY <1>2, <2>2
    <3>2. \A x, y, z \in Nat : x >= y => x * z >= y * z
      OBVIOUS
    <3>3. q * N >= ms * N /\ ms * N \in Nat /\ q * N \in Nat
      BY <1>1, <1>2, <3>1, <3>2
    <3> QED
      BY <1>1, <1>2, <2>2, <3>3
  <2> QED
    BY <2>1, <2>2
<1> QED
  BY <1>3, <1>4 DEF Nanos, q, N

LEMMA AttributeBack ==
  ASSUME NEW v \in Nat
  PROVE  /\ OrElse(IntAttribute(v), 0) = IF v > MaxI64 THEN 0 ELSE v
         /\ v \in 0..MaxI64 => \A t : (v = 0 => t = 0) => OrElse(IntAttribute(v), t) = v
<1>1. None \notin Nat /\ MaxI64 \in Nat
  BY CodecAssumption DEF CodecAssumption
<1>2. v # None
  BY <1>1
<1>3. CASE v = 0 \/ v > MaxI64
  <2>1. IntAttribute(v) = None
    BY <1>3 DEF IntAttribute
  <2>2. \A t : OrElse(IntAttribute(v), t) = t
    BY <2>1 DEF OrElse
  <2>3. v \in 0..MaxI64 => v = 0
    BY <1>1, <1>3
  <2>4. (IF v > MaxI64 THEN 0 ELSE v) = 0
    BY <1>3
  <2> QED
    BY <2>2, <2>3, <2>4
<1>4. CASE ~(v = 0 \/ v > MaxI64)
  <2>1. IntAttribute(v) = v
    BY <1>4 DEF IntAttribute
  <2>2. \A t : OrElse(IntAttribute(v), t) = v
    BY <1>2, <2>1 DEF OrElse
  <2> QED
    BY <1>4, <2>2
<1> QED
  BY <1>3, <1>4

\* A row of a batch as a node makes it.
SendableRow(env) ==
  /\ {env.start, env.end, env.version} \subseteq 0..MaxI64 /\ env.agg \in Nat
  /\ env.type \notin {None, "unknown"} /\ (env.payload = None => env.value # None)
  /\ ValidPayload(env.type, env.payload)

LEMMA TimesBack ==
  ASSUME NEW env, SendableRow(env)
  PROVE  /\ OrElse(IntAttribute(env.start), Nanos(env.start) \div NanosPerMs) = env.start
         /\ OrElse(IntAttribute(env.end), Nanos(env.end) \div NanosPerMs) = env.end
         /\ OrElse(IntAttribute(env.version), 0) = env.version
         /\ OrElse(IntAttribute(env.agg), 0) = IF env.agg > MaxI64 THEN 0 ELSE env.agg
<1>1. MaxI64 \in Nat /\ NanosPerMs \in Nat \ {0} /\ MaxU64 \in Nat
  BY CodecAssumption DEF CodecAssumption
<1>2. /\ env.start \in 0..MaxI64 /\ env.end \in 0..MaxI64 /\ env.version \in 0..MaxI64
      /\ env.start \in Nat /\ env.end \in Nat /\ env.version \in Nat /\ env.agg \in Nat
  BY <1>1 DEF SendableRow
<1>3. Nanos(0) \div NanosPerMs = 0
  <2>1. MaxU64 \div NanosPerMs \in Nat
    BY <1>1
  <2>2. ~(0 > MaxU64 \div NanosPerMs)
    BY <2>1
  <2> QED
    BY <2>2, NanosBack
<1> QED
  BY <1>2, <1>3, AttributeBack

\* A data point of an envelope gives it back, alone.
LEMMA FitsGives ==
  ASSUME NEW env, SendableRow(env), NEW item, Fits(env, item)
  PROVE  /\ ~Alone(item).failed
         /\ \E o : Alone(item).out = <<o>> /\ Seen(o) = Expected(env)
<1> DEFINE own == item.point.attributes
           ms == Nanos(env.end) \div NanosPerMs
<1>1. /\ Nothing.failed = FALSE /\ Nothing.out = <<>>
      /\ \A o : Append(Nothing.out, o) = <<o>>
  BY DEF Nothing
<1>2. /\ own.payload = env.payload /\ own.labels = <<>> /\ own.agg = None
      /\ own.start = IntAttribute(env.start) /\ own.end = IntAttribute(env.end)
      /\ item.point.value = env.value /\ item.point.time = Nanos(env.end)
  BY DEF Fits, DataPoint, NumberDataPoint, SummaryDataPoint, RowAttributes
<1>3. ms = IF env.end > MaxU64 \div NanosPerMs THEN MaxU64 \div NanosPerMs ELSE env.end
  <2>1. env.end \in Nat
    <3>1. MaxI64 \in Nat
      BY CodecAssumption DEF CodecAssumption
    <3> QED
      BY <3>1 DEF SendableRow
  <2> QED
    BY <2>1, NanosBack
<1>4. item.scope.labels \o own.labels = item.scope.labels
  BY <1>2 DEF Fits
<1>5. CASE env.payload = None
  <2> DEFINE labels == Relabelled(Nothing.scratch, item.scope.labels \o own.labels)
             o == Observation(item, labels, "Float", None)
  <2>1. item.kind = "Gauge"
    BY <1>5 DEF Fits, ValueType
  <2>2. Alone(item) = NumberPoint(Nothing, item)
    BY <1>1, <2>1 DEF DecodePoint, Alone
  <2>3. item.point.value # None /\ own.payload = None
    BY <1>2, <1>5 DEF SendableRow
  <2>4. Alone(item) = [Nothing EXCEPT !.scratch = labels, !.out = Append(Nothing.out, o)]
    BY <2>2, <2>3 DEF NumberPoint
  <2>5. Alone(item).out = <<o>> /\ ~Alone(item).failed
    <3> HIDE DEF o, labels
    <3> QED
      BY <2>4 DEF Nothing
  <2>6. labels = item.scope.labels
    <3>1. Nothing.scratch \in Seq(Nat) /\ item.scope.labels \in Seq(Nat)
      BY DEF Nothing, Fits
    <3> QED
      BY <1>4, <3>1, RelabelledIs
  <2> HIDE DEF labels
  <2>7. Seen(o) = [ts |-> ms, metric |-> env.metric, res |-> Sorted(env.res),
                   labels |-> Sorted(env.labels), value |-> env.value, envelope |-> None]
    BY <1>2, <2>6 DEF Seen, Observation, Fits
  <2>8. Seen(o) = Expected(env)
    BY <1>3, <1>5, <2>7 DEF Expected
  <2> QED
    BY <2>5, <2>8
<1>6. CASE env.payload # None
  <2> DEFINE type == OrElse(item.resource.type, "Unspecified")
             envelope == [type |-> type, agg |-> OrElse(item.resource.agg, 0),
                          version |-> OrElse(item.resource.version, 0),
                          res |-> item.resource.labels,
                          start |-> OrElse(own.start, item.point.startTime \div NanosPerMs),
                          end |-> OrElse(own.end, item.point.time \div NanosPerMs),
                          payload |-> own.payload, count |-> item.point.count]
             o == Observation(item, item.scope.labels \o own.labels, "Envelope", envelope)
  <2>1. item.kind = "Summary" /\ item.point = SummaryDataPoint(env)
    BY <1>6 DEF Fits, ValueType, DataPoint
  <2>2. Alone(item) = SummaryPoint(Nothing, item)
    BY <1>1, <2>1 DEF DecodePoint, Alone
  <2>3. type = env.type
    BY DEF OrElse, Fits, SendableRow
  <2>4. own.payload # None /\ KnownType(type) /\ ValidPayload(type, own.payload)
    BY <1>2, <1>6, <2>3 DEF KnownType, SendableRow
  <2>5. Alone(item) = [Nothing EXCEPT !.out = Append(Nothing.out, o)]
    BY <2>2, <2>4 DEF SummaryPoint
  <2>6. Alone(item).out = <<o>> /\ ~Alone(item).failed
    <3> HIDE DEF o
    <3> QED
      BY <2>5 DEF Nothing
  <2>7. item.point.startTime = Nanos(env.start) /\ item.point.count = env.count
    BY <2>1 DEF SummaryDataPoint
  <2>8. envelope = [type |-> env.type, agg |-> IF env.agg > MaxI64 THEN 0 ELSE env.agg,
                    version |-> env.version, res |-> item.resource.labels, start |-> env.start,
                    end |-> env.end, payload |-> env.payload, count |-> env.count]
    <3>1. /\ OrElse(item.resource.agg, 0) = IF env.agg > MaxI64 THEN 0 ELSE env.agg
          /\ OrElse(item.resource.version, 0) = env.version
      BY TimesBack DEF Fits
    <3>2. /\ OrElse(own.start, item.point.startTime \div NanosPerMs) = env.start
          /\ OrElse(own.end, item.point.time \div NanosPerMs) = env.end
      BY <1>2, <2>7, TimesBack
    <3> QED
      BY <1>2, <2>3, <2>7, <3>1, <3>2
  <2> HIDE DEF envelope
  <2>9. Seen(o) = [ts |-> ms, metric |-> env.metric, res |-> Sorted(env.res),
                   labels |-> Sorted(env.labels), value |-> env.value,
                   envelope |-> [envelope EXCEPT !.res = Sorted(@)]]
    BY <1>2, <1>4 DEF Seen, Observation, Fits
  <2>10. [envelope EXCEPT !.res = Sorted(@)]
           = [type |-> env.type, agg |-> IF env.agg > MaxI64 THEN 0 ELSE env.agg,
              version |-> env.version, res |-> Sorted(env.res), start |-> env.start,
              end |-> env.end, payload |-> env.payload, count |-> env.count]
    BY <2>8 DEF Fits
  <2>11. Seen(o) = Expected(env)
    BY <1>3, <1>6, <2>9, <2>10 DEF Expected
  <2> QED
    BY <2>6, <2>11
<1> QED
  BY <1>5, <1>6

LEMMA SequenceIn ==
  ASSUME NEW s, IsSequence(s), NEW U, \A n \in DOMAIN s : s[n] \in U
  PROVE  s \in Seq(U)
<1> DEFINE E == {s[n] : n \in DOMAIN s}
<1>1. s \in Seq(E)
  BY DEF IsSequence
<1>2. E \subseteq U
  OBVIOUS
<1> HIDE DEF E
<1> QED
  BY <1>1, <1>2, WiderSeq

LEMMA IsOne ==
  ASSUME NEW U, NEW s \in Seq(U)
  PROVE  IsSequence(s)
<1>1. Len(s) \in Nat /\ DOMAIN s = 1..Len(s) /\ s = [n \in 1..Len(s) |-> s[n]]
  OBVIOUS
<1> QED
  BY <1>1, SequenceIs

LEMMA SortedIs ==
  ASSUME NEW labels \in Seq(Nat)
  PROVE  IsSequence(Sorted(labels))
<1> DEFINE s == Sorted(labels)
<1>1. \E f : s = [n \in DOMAIN labels |-> f[n]]
  BY Zenon DEF Sorted
<1> HIDE DEF s
<1>2. DOMAIN labels = 1..Len(labels) /\ Len(labels) \in Nat
  OBVIOUS
<1>3. DOMAIN s = 1..Len(labels) /\ s = [n \in 1..Len(labels) |-> s[n]]
  BY <1>1, <1>2
<1>4. IsSequence(s)
  BY <1>2, <1>3, SequenceIs
<1> QED
  BY <1>4 DEF s

LEMMA SameRest ==
  ASSUME NEW x, NEW y, NEW z, IsSequence(x), IsSequence(y), IsSequence(z), x \o y = x \o z
  PROVE  y = z
<1> DEFINE U == {x[n] : n \in DOMAIN x} \cup {y[n] : n \in DOMAIN y} \cup {z[n] : n \in DOMAIN z}
<1>1. x \in Seq(U) /\ y \in Seq(U) /\ z \in Seq(U)
  <2>1. /\ \A n \in DOMAIN x : x[n] \in U
        /\ \A n \in DOMAIN y : y[n] \in U
        /\ \A n \in DOMAIN z : z[n] \in U
    OBVIOUS
  <2> HIDE DEF U
  <2> QED
    BY <2>1, SequenceIn
<1> HIDE DEF U
<1> DEFINE a == x \o y
           b == x \o z
<1>2. /\ Len(x) \in Nat /\ Len(y) \in Nat /\ Len(z) \in Nat
      /\ Len(a) = Len(x) + Len(y) /\ Len(b) = Len(x) + Len(z)
      /\ \A n \in 1..Len(y) : a[Len(x) + n] = y[n]
      /\ \A n \in 1..Len(z) : b[Len(x) + n] = z[n]
  BY <1>1
<1>3. a = b
  OBVIOUS
<1> HIDE DEF a, b
<1>4. Len(y) = Len(z)
  <2>1. \A k, m, n \in Nat : k + m = k + n => m = n
    OBVIOUS
  <2> QED
    BY <1>2, <1>3, <2>1
<1>5. \A n \in 1..Len(y) : y[n] = z[n]
  BY <1>2, <1>3, <1>4
<1>6. y = [n \in 1..Len(y) |-> y[n]] /\ z = [n \in 1..Len(z) |-> z[n]]
  BY <1>1
<1> QED
  BY <1>4, <1>5, <1>6

\* A point inherits from the first rows of its scope and of its resource what it would have
\* said of itself.
LEMMA RowFits ==
  ASSUME NEW batch \in Batches, NEW i \in DOMAIN batch, NEW f \in DOMAIN batch,
         NEW g \in DOMAIN batch,
         SameResource(batch[g], batch[i]), SameResource(batch[f], batch[i]),
         SeriesKey(batch[f]) = SeriesKey(batch[i]), ValueType(batch[f]) = ValueType(batch[i]),
         NEW id, NEW item,
         item = [resource |-> ResourceAttributes(batch[g]), scope |-> ScopeAttributes(batch[f], id),
                 metric |-> batch[f].metric, kind |-> ValueType(batch[f]),
                 point |-> DataPoint(ValueType(batch[f]), batch[i])]
  PROVE  Fits(batch[i], item)
<1> DEFINE env == batch[i]
           first == batch[f]
<1>1. /\ env.res \in Seq(Nat) /\ env.labels \in Seq(Nat)
      /\ first.res \in Seq(Nat) /\ first.labels \in Seq(Nat)
  BY CodecAssumption DEF CodecAssumption
<1>2. /\ Sorted(first.res) = Sorted(env.res) /\ first.metric = env.metric
      /\ Sorted(first.res) \o Sorted(first.labels) = Sorted(env.res) \o Sorted(env.labels)
  BY DEF SameResource, SeriesKey
<1>3. Sorted(first.labels) = Sorted(env.labels)
  BY <1>1, <1>2, SortedIs, SameRest
<1>4. /\ item.resource.type = env.type /\ item.resource.agg = IntAttribute(env.agg)
      /\ item.resource.version = IntAttribute(env.version)
      /\ Sorted(item.resource.labels) = Sorted(env.res)
  BY DEF ResourceAttributes, SameResource
<1>5. item.scope.labels = first.labels
  BY DEF ScopeAttributes
<1> QED
  BY <1>1, <1>2, <1>3, <1>4, <1>5 DEF Fits

-----------------------------------------------------------------------------
(* The walk over the rows.                                                 *)

\* The data points of the rows of a walk.
Matches(batch, w, items) ==
  Len(items) = Len(w) /\ \A p \in 1..Len(w) : Fits(batch[w[p]], items[p])

LEMMA JoinedMatch ==
  ASSUME NEW T, NEW U, NEW ss \in Seq(Seq(T)), NEW tt \in Seq(Seq(U)), NEW batch,
         Len(tt) = Len(ss), \A k \in 1..Len(ss) : Matches(batch, ss[k], tt[k])
  PROVE  Matches(batch, FlattenSeq(ss), FlattenSeq(tt))
<1>1. PICK g \in [0..Len(ss) -> Seq(T)] :
        /\ g[0] = <<>> /\ FlattenSeq(ss) = g[Len(ss)]
        /\ \A n \in 1..Len(ss) : g[n] = g[n - 1] \o ss[n]
  <2>1. JoinedByOne(T, ss)
    BY FlattenIs
  <2> QED
    BY <2>1, Zenon DEF JoinedByOne
<1>2. PICK h \in [0..Len(tt) -> Seq(U)] :
        /\ h[0] = <<>> /\ FlattenSeq(tt) = h[Len(tt)]
        /\ \A n \in 1..Len(tt) : h[n] = h[n - 1] \o tt[n]
  <2>1. JoinedByOne(U, tt)
    BY FlattenIs
  <2> QED
    BY <2>1, Zenon DEF JoinedByOne
<1>3. Len(ss) \in Nat
  OBVIOUS
<1> DEFINE Meet(l) == Matches(batch, g[l], h[l])
           S == {l \in Nat : l <= Len(ss) => Meet(l)}
<1>4. Meet(0)
  <2>1. Len(g[0]) = 0 /\ Len(h[0]) = 0
    BY <1>1, <1>2
  <2> QED
    BY <2>1 DEF Matches
<1>5. ASSUME NEW l \in Nat, l + 1 <= Len(ss), Meet(l)
      PROVE  Meet(l + 1)
  <2>1. l + 1 \in 1..Len(ss) /\ (l + 1) - 1 = l /\ l \in 0..Len(ss)
    BY <1>3, <1>5
  <2> DEFINE a == g[l]
             b == ss[l + 1]
             c == g[l + 1]
             x == h[l]
             y == tt[l + 1]
             z == h[l + 1]
  <2>2. /\ a \in Seq(T) /\ b \in Seq(T) /\ c = a \o b
        /\ x \in Seq(U) /\ y \in Seq(U) /\ z = x \o y
    <3>1. /\ l \in 0..Len(tt) /\ l + 1 \in 0..Len(ss) /\ l + 1 \in 0..Len(tt)
          /\ l + 1 \in 1..Len(tt)
      BY <1>3, <2>1
    <3>2. a \in Seq(T) /\ c = a \o b
      BY <1>1, <2>1
    <3>3. x \in Seq(U) /\ z = x \o y
      BY <1>2, <2>1, <3>1
    <3>4. b \in Seq(T) /\ y \in Seq(U)
      BY <2>1, <3>1
    <3> QED
      BY <3>2, <3>3, <3>4
  <2>3. Matches(batch, a, x) /\ Matches(batch, b, y)
    BY <1>5, <2>1
  <2> HIDE DEF a, b, c, x, y, z
  <2>4. /\ Len(a) \in Nat /\ Len(b) \in Nat /\ Len(c) = Len(a) + Len(b)
        /\ \A i \in 1..Len(a) : c[i] = a[i]
        /\ \A n \in 1..Len(b) : c[Len(a) + n] = b[n]
    BY <2>2
  <2>5. /\ Len(x) = Len(a) /\ Len(y) = Len(b) /\ Len(z) = Len(x) + Len(y)
        /\ \A i \in 1..Len(a) : z[i] = x[i]
        /\ \A n \in 1..Len(b) : z[Len(a) + n] = y[n]
    <3>1. Len(x) = Len(a) /\ Len(y) = Len(b)
      BY <2>3 DEF Matches
    <3>2. /\ Len(z) = Len(x) + Len(y)
          /\ \A i \in 1..Len(x) : z[i] = x[i]
          /\ \A n \in 1..Len(y) : z[Len(x) + n] = y[n]
      BY <2>2
    <3> QED
      BY <3>1, <3>2
  <2>6. ASSUME NEW p \in 1..Len(c)
        PROVE  Fits(batch[c[p]], z[p])
    <3>1. CASE p \in 1..Len(a)
      BY <2>3, <2>4, <2>5, <3>1 DEF Matches
    <3>2. CASE p \notin 1..Len(a)
      <4> DEFINE n == p - Len(a)
      <4>1. n \in 1..Len(b) /\ p = Len(a) + n
        BY <2>4, <3>2
      <4> HIDE DEF n
      <4> QED
        BY <2>3, <2>4, <2>5, <4>1 DEF Matches
    <3> QED
      BY <3>1, <3>2
  <2>7. Len(z) = Len(c)
    BY <2>4, <2>5
  <2> QED
    BY <2>6, <2>7 DEF Matches, c, z
<1> HIDE DEF Meet
<1>6. Meet(Len(ss))
  <2>1. 0 \in S
    BY <1>4
  <2>2. \A l \in Nat : l \in S => l + 1 \in S
    <3> SUFFICES ASSUME NEW l \in Nat, l <= Len(ss) => Meet(l), l + 1 <= Len(ss)
                 PROVE  Meet(l + 1)
      OBVIOUS
    <3>1. l <= Len(ss)
      BY <1>3
    <3> QED
      BY <1>5, <3>1
  <2> HIDE DEF S
  <2>3. Len(ss) \in S
    BY <1>3, <2>1, <2>2, Reaching
  <2> QED
    BY <1>3, <2>3 DEF S
<1> QED
  BY <1>1, <1>2, <1>6 DEF Meet

\* A walk over the rows of a set that keeps the order of each series, and its data points.
Before(batch) ==
  {p \in (DOMAIN batch) \X (DOMAIN batch) : p[1] < p[2] /\ SameSeries(batch[p[1]], batch[p[2]])}

IsWalk(batch, rows, w, items) ==
  /\ Enumerates(w, rows) /\ Keeps(w, Before(batch))
  /\ IsSequence(items) /\ Matches(batch, w, items)

\* Walks over the groups of a set of rows are joined to a walk over the set.
LEMMA JoinedWalk ==
  ASSUME NEW batch, NEW rows, rows \subseteq DOMAIN batch, NEW same,
         \A i, j \in rows : SameSeries(batch[i], batch[j]) => <<i, j>> \in same,
         NEW groups, NEW class, IsGrouping(groups, class, rows, same),
         NEW ss, NEW tt, IsSequence(ss), IsSequence(tt),
         DOMAIN ss = DOMAIN groups, DOMAIN tt = DOMAIN groups,
         \A k \in DOMAIN groups : IsWalk(batch, class[k], ss[k], tt[k])
  PROVE  IsWalk(batch, rows, FlattenSeq(ss), FlattenSeq(tt))
<1> DEFINE K == DOMAIN groups
           R == Before(batch)
           U == UNION {{tt[k][n] : n \in DOMAIN tt[k]} : k \in K}
<1>1. /\ Len(ss) \in Nat /\ DOMAIN ss = 1..Len(ss) /\ Len(tt) \in Nat /\ DOMAIN tt = 1..Len(tt)
  BY DEF IsSequence
<1>2. Len(ss) = Len(tt) /\ K = 1..Len(ss)
  BY <1>1
<1>3. \A k \in K : /\ Enumerates(ss[k], class[k]) /\ Keeps(ss[k], R)
                   /\ IsSequence(tt[k]) /\ Matches(batch, ss[k], tt[k])
  BY Zenon DEF IsWalk
<1>4. \A k \in K : /\ class[k] \in SUBSET rows
                   /\ \A i \in class[k], j \in rows : <<i, j>> \in same <=> j \in class[k]
  BY DEF IsGrouping
<1>5. \A i \in rows : \E k \in K : i \in class[k]
  BY DEF IsGrouping
<1>6. \A k, l \in K : \A i \in class[k] : i \in class[l] => k = l
  BY DEF IsGrouping
<1>7. ss \in Seq(Seq(rows))
  <2>1. \A k \in K : ss[k] \in Seq(rows)
    <3> SUFFICES ASSUME NEW k \in K PROVE ss[k] \in Seq(rows)
      OBVIOUS
    <3>1. ss[k] \in Seq(class[k])
      BY <1>3 DEF Enumerates
    <3>2. class[k] \subseteq rows
      BY <1>4
    <3> QED
      BY <3>1, <3>2, WiderSeq
  <2> QED
    BY <2>1, SequenceIn
<1>8. tt \in Seq(Seq(U))
  <2>1. \A k \in K : tt[k] \in Seq(U)
    <3> SUFFICES ASSUME NEW k \in K PROVE tt[k] \in Seq(U)
      OBVIOUS
    <3>1. IsSequence(tt[k])
      BY <1>3
    <3>2. \A n \in DOMAIN tt[k] : tt[k][n] \in U
      OBVIOUS
    <3> HIDE DEF U
    <3> QED
      BY <3>1, <3>2, SequenceIn
  <2> HIDE DEF U
  <2> QED
    BY <2>1, SequenceIn
<1>9. \A k, l \in K : \A i \in class[k], j \in class[l] : <<i, j>> \in R => k = l
  <2> SUFFICES ASSUME NEW k \in K, NEW l \in K, NEW i \in class[k], NEW j \in class[l],
                      <<i, j>> \in R
               PROVE  k = l
    OBVIOUS
  <2>1. SameSeries(batch[i], batch[j])
    BY DEF Before
  <2>2. i \in rows /\ j \in rows
    BY <1>4
  <2>3. j \in class[k]
    BY <1>4, <2>1, <2>2
  <2> QED
    BY <1>6, <2>3
<1> HIDE DEF R, U, K
<1>10. Enumerates(FlattenSeq(ss), rows) /\ Keeps(FlattenSeq(ss), R)
  <2>1. \A k \in 1..Len(ss) : class[k] \subseteq rows /\ Enumerates(ss[k], class[k]) /\ Keeps(ss[k], R)
    BY <1>2, <1>3, <1>4
  <2>2. \A i \in rows : \E k \in 1..Len(ss) : i \in class[k]
    BY <1>2, <1>5
  <2>3. \A k, l \in 1..Len(ss) : \A i \in class[k] : i \in class[l] => k = l
    BY <1>2, <1>6
  <2>4. \A k, l \in 1..Len(ss) : \A i \in class[k], j \in class[l] : <<i, j>> \in R => k = l
    BY <1>2, <1>9
  <2>5. WalkParts(ss, class, rows, R)
    BY <2>1, <2>2, <2>3, <2>4, Zenon DEF WalkParts
  <2> QED
    BY <1>7, <2>5, JoinedWalks
<1>11. Matches(batch, FlattenSeq(ss), FlattenSeq(tt))
  <2>1. \A k \in 1..Len(ss) : Matches(batch, ss[k], tt[k])
    BY <1>2, <1>3
  <2> QED
    BY <1>2, <1>7, <1>8, <2>1, JoinedMatch
<1>12. IsSequence(FlattenSeq(tt))
  BY <1>8, FlattenSeqIs, IsOne
<1> QED
  BY <1>10, <1>11, <1>12 DEF IsWalk, R

\* The IDs of the rows of a batch tell their series apart.
KeysApart(batch, ids) ==
  \A i, j \in DOMAIN batch :
    ids[SeriesKey(batch[i])] = ids[SeriesKey(batch[j])] <=> SeriesKey(batch[i]) = SeriesKey(batch[j])

OneKind(batch) == \A i, j \in DOMAIN batch : ValueType(batch[i]) = ValueType(batch[j])

\* The rows of a scope.
LEMMA ScopeWalk ==
  ASSUME NEW batch \in Batches, OneKind(batch), NEW ids, NEW rows, rows \subseteq DOMAIN batch,
         rows # {}, NEW g \in DOMAIN batch,
         \A i \in rows : SameResource(batch[g], batch[i]),
         \A i, j \in rows : SameResource(batch[i], batch[j]) /\ SeriesKey(batch[i]) = SeriesKey(batch[j]),
         NEW resource, resource.attributes = ResourceAttributes(batch[g])
  PROVE  IsWalk(batch, rows, InOrder(rows), ScopePoints(resource, Scope(batch, ids, InOrder(rows))))
<1> DEFINE w == InOrder(rows)
           f == w[1]
           scope == Scope(batch, ids, w)
           id == ids[SeriesKey(batch[f])]
           kind == ValueType(batch[f])
           items == ScopePoints(resource, scope)
<1>1. DOMAIN batch = 1..Len(batch) /\ Len(batch) \in Nat
  BY CodecAssumption DEF CodecAssumption, IsSequence
<1>2. rows \in SUBSET Nat /\ IsFiniteSet(rows)
  <2>1. IsFiniteSet(1..Len(batch)) /\ 1..Len(batch) \subseteq Nat
    BY <1>1, FS_Interval
  <2> QED
    BY <1>1, <2>1, FS_Subset
<1>3. w \in Seq(rows) /\ 1 \in DOMAIN w
  BY <1>2, InOrderIs
<1>4. Enumerates(w, rows) /\ \A p, q \in DOMAIN w : w[p] < w[q] => p < q
  BY <1>2, OrderIs
<1> HIDE DEF w
<1>5. Len(w) \in Nat /\ DOMAIN w = 1..Len(w) /\ \A p \in 1..Len(w) : w[p] \in rows
  BY <1>3
<1>6. f \in rows /\ f \in DOMAIN batch
  BY <1>3, <1>5
<1>7. /\ scope.attributes = ScopeAttributes(batch[f], id) /\ scope.metric = batch[f].metric
      /\ scope.kind = kind
      /\ scope.points = [n \in DOMAIN w |-> DataPoint(kind, batch[w[n]])]
  BY DEF Scope
<1> HIDE DEF f, scope, id, kind
<1>8. items = [n \in DOMAIN w |->
                 [resource |-> resource.attributes, scope |-> scope.attributes,
                  metric |-> scope.metric, kind |-> scope.kind, point |-> scope.points[n]]]
  BY <1>7 DEF ScopePoints
<1> HIDE DEF items
<1>9. DOMAIN items = 1..Len(w) /\ items = [n \in 1..Len(w) |-> items[n]]
  BY <1>5, <1>8
<1>10. IsSequence(items) /\ Len(items) = Len(w)
  <2>1. IsSequence(items)
    BY <1>5, <1>9, SequenceIs
  <2>2. Len(items) \in Nat /\ DOMAIN items = 1..Len(items)
    BY <2>1 DEF IsSequence
  <2> QED
    BY <1>5, <1>9, <2>1, <2>2
<1>11. ASSUME NEW p \in 1..Len(w)
       PROVE  Fits(batch[w[p]], items[p])
  <2> DEFINE i == w[p]
             item == items[p]
  <2>1. i \in rows /\ i \in DOMAIN batch
    BY <1>5
  <2>2. item = [resource |-> ResourceAttributes(batch[g]), scope |-> ScopeAttributes(batch[f], id),
                metric |-> batch[f].metric, kind |-> kind, point |-> DataPoint(kind, batch[i])]
    BY <1>5, <1>7, <1>8
  <2> HIDE DEF i, item
  <2>3. /\ SameResource(batch[g], batch[i]) /\ SameResource(batch[f], batch[i])
        /\ SeriesKey(batch[f]) = SeriesKey(batch[i])
    BY <1>6, <2>1
  <2>4. ValueType(batch[f]) = ValueType(batch[i])
    BY <1>6, <2>1 DEF OneKind
  <2>5. Fits(batch[i], item)
    BY <1>6, <2>1, <2>2, <2>3, <2>4, RowFits DEF kind
  <2> QED
    BY <2>5 DEF i, item
<1>12. Keeps(w, Before(batch))
  BY <1>4 DEF Keeps, Before
<1> QED
  BY <1>4, <1>10, <1>11, <1>12 DEF IsWalk, Matches, items, scope, w

\* The rows of a resource.
LEMMA ResourceWalk ==
  ASSUME NEW batch \in Batches, OneKind(batch), NEW ids, KeysApart(batch, ids),
         NEW rows, rows \subseteq DOMAIN batch, rows # {},
         \A i, j \in rows : SameResource(batch[i], batch[j])
  PROVE  \E w : IsWalk(batch, rows, w, ResourcePoints(Resource(batch, ids, InOrder(rows))))
<1> DEFINE o == InOrder(rows)
           resource == Resource(batch, ids, o)
           g == o[1]
           same == {p \in rows \X rows : ids[SeriesKey(batch[p[1]])] = ids[SeriesKey(batch[p[2]])]}
           groups == Grouped(rows, same)
<1>1. DOMAIN batch = 1..Len(batch) /\ Len(batch) \in Nat
  BY CodecAssumption DEF CodecAssumption, IsSequence
<1>2. rows \in SUBSET Nat /\ IsFiniteSet(rows)
  <2>1. IsFiniteSet(1..Len(batch)) /\ 1..Len(batch) \subseteq Nat
    BY <1>1, FS_Interval
  <2> QED
    BY <1>1, <2>1, FS_Subset
<1>3. o \in Seq(rows) /\ 1 \in DOMAIN o
  BY <1>2, InOrderIs
<1>4. ToSet(o) = rows
  <2>1. Enumerates(o, rows)
    BY <1>2, OrderIs
  <2> HIDE DEF o
  <2> QED
    BY <2>1 DEF Enumerates, ToSet
<1>5. g \in rows /\ g \in DOMAIN batch
  <2> HIDE DEF o
  <2> QED
    BY <1>3
<1>6. /\ resource.attributes = ResourceAttributes(batch[g])
      /\ resource.scopes = [s \in DOMAIN groups |-> Scope(batch, ids, groups[s])]
  BY <1>4 DEF Resource
<1>7. \A i, j \in rows : <<i, j>> \in same <=> SeriesKey(batch[i]) = SeriesKey(batch[j])
  BY DEF KeysApart
<1> HIDE DEF same
<1>8. PICK class : IsGrouping(groups, class, rows, same)
  BY <1>2, <1>7, GroupingIs
<1> HIDE DEF groups, resource, o, g
<1> DEFINE K == DOMAIN groups
           tt == [s \in K |-> ScopePoints(resource, resource.scopes[s])]
<1>9. /\ IsSequence(groups)
      /\ \A k \in K : /\ class[k] \in SUBSET rows /\ class[k] # {} /\ groups[k] = InOrder(class[k])
                      /\ \A i \in class[k], j \in rows : <<i, j>> \in same <=> j \in class[k]
  BY <1>8 DEF IsGrouping
<1>10. Len(groups) \in Nat /\ K = 1..Len(groups)
  BY <1>9 DEF IsSequence
<1>11. IsSequence(tt) /\ DOMAIN tt = K
  <2>1. DOMAIN tt = 1..Len(groups) /\ tt = [s \in 1..Len(groups) |-> tt[s]]
    BY <1>10
  <2> HIDE DEF tt
  <2> QED
    BY <1>10, <2>1, SequenceIs
<1>12. ASSUME NEW k \in K
       PROVE  IsWalk(batch, class[k], groups[k], tt[k])
  <2> DEFINE C == class[k]
  <2>1. C \subseteq rows /\ C # {} /\ C \subseteq DOMAIN batch
    BY <1>9
  <2>2. \A i, j \in C : SameResource(batch[i], batch[j]) /\ SeriesKey(batch[i]) = SeriesKey(batch[j])
    BY <1>7, <1>9, <2>1
  <2>3. \A i \in C : SameResource(batch[g], batch[i])
    BY <1>5, <2>1
  <2>4. tt[k] = ScopePoints(resource, Scope(batch, ids, InOrder(C))) /\ groups[k] = InOrder(C)
    BY <1>6, <1>9
  <2> HIDE DEF C, tt
  <2>5. IsWalk(batch, C, InOrder(C), ScopePoints(resource, Scope(batch, ids, InOrder(C))))
    BY <1>5, <1>6, <2>1, <2>2, <2>3, ScopeWalk
  <2> QED
    BY <2>4, <2>5 DEF C
<1>13. \A i, j \in rows : SameSeries(batch[i], batch[j]) => <<i, j>> \in same
  BY <1>7 DEF SameSeries
<1>14. ResourcePoints(resource) = FlattenSeq(tt)
  BY <1>6 DEF ResourcePoints
<1> HIDE DEF tt, K
<1>15. IsWalk(batch, rows, FlattenSeq(groups), FlattenSeq(tt))
  <2>1. \A k \in DOMAIN groups : IsWalk(batch, class[k], groups[k], tt[k])
    BY <1>12 DEF K
  <2>2. DOMAIN tt = DOMAIN groups
    BY <1>11 DEF K
  <2> QED
    BY <1>8, <1>9, <1>11, <1>13, <2>1, <2>2, JoinedWalk
<1> QED
  BY <1>14, <1>15 DEF resource, o

\* The rows of a message.
LEMMA MessageWalk ==
  ASSUME NEW batch \in Batches, OneKind(batch), NEW ids, KeysApart(batch, ids)
  PROVE  \E w : IsWalk(batch, DOMAIN batch, w, Points(MetricsView(batch, ids)))
<1> DEFINE m == MetricsView(batch, ids)
           rows == DOMAIN batch
           same == {p \in rows \X rows : SameResource(batch[p[1]], batch[p[2]])}
           groups == Grouped(rows, same)
<1>1. rows = 1..Len(batch) /\ Len(batch) \in Nat
  BY CodecAssumption DEF CodecAssumption, IsSequence
<1>2. rows \in SUBSET Nat /\ IsFiniteSet(rows)
  <2>1. IsFiniteSet(1..Len(batch)) /\ 1..Len(batch) \subseteq Nat
    BY <1>1, FS_Interval
  <2> QED
    BY <1>1, <2>1
<1>3. m = [r \in DOMAIN groups |-> Resource(batch, ids, groups[r])]
  BY DEF MetricsView
<1>4. \A i, j \in rows : <<i, j>> \in same <=> SameResource(batch[i], batch[j])
  OBVIOUS
<1>5. /\ \A i \in rows : SameResource(batch[i], batch[i])
      /\ \A i, j \in rows : SameResource(batch[i], batch[j]) => SameResource(batch[j], batch[i])
      /\ \A i, j, k \in rows : SameResource(batch[i], batch[j]) /\ SameResource(batch[j], batch[k])
                               => SameResource(batch[i], batch[k])
  BY DEF SameResource
<1> HIDE DEF same
<1>6. PICK class : IsGrouping(groups, class, rows, same)
  <2>1. /\ \A i \in rows : <<i, i>> \in same
        /\ \A i, j \in rows : <<i, j>> \in same => <<j, i>> \in same
        /\ \A i, j, k \in rows : <<i, j>> \in same /\ <<j, k>> \in same => <<i, k>> \in same
    BY <1>4, <1>5
  <2> HIDE DEF rows
  <2> QED
    BY <1>2, <2>1, GroupingIs
<1> HIDE DEF groups, m
<1> DEFINE K == DOMAIN groups
           tt == [r \in K |-> ResourcePoints(m[r])]
           Walks(r, w) == IsWalk(batch, class[r], w, tt[r])
           ss == [r \in K |-> CHOOSE w : Walks(r, w)]
<1>7. /\ IsSequence(groups)
      /\ \A k \in K : /\ class[k] \in SUBSET rows /\ class[k] # {} /\ groups[k] = InOrder(class[k])
                      /\ \A i \in class[k], j \in rows : <<i, j>> \in same <=> j \in class[k]
  BY <1>6, Zenon DEF IsGrouping
<1>8. Len(groups) \in Nat /\ K = 1..Len(groups)
  BY <1>7 DEF IsSequence
<1>9. /\ DOMAIN tt = 1..Len(groups) /\ tt = [r \in 1..Len(groups) |-> tt[r]]
      /\ DOMAIN ss = 1..Len(groups) /\ ss = [r \in 1..Len(groups) |-> ss[r]]
  <2> HIDE DEF Walks
  <2> QED
    BY <1>8
<1>10. ASSUME NEW k \in K PROVE Walks(k, ss[k])
  <2> DEFINE C == class[k]
  <2>1. C \subseteq rows /\ C # {}
    BY <1>7
  <2>2. \A i, j \in C : SameResource(batch[i], batch[j])
    BY <1>4, <1>7, <2>1
  <2>3. tt[k] = ResourcePoints(Resource(batch, ids, InOrder(C)))
    BY <1>3, <1>7
  <2> HIDE DEF C, tt
  <2>4. \E w : IsWalk(batch, C, w, ResourcePoints(Resource(batch, ids, InOrder(C))))
    BY <2>1, <2>2, ResourceWalk
  <2>5. \E w : Walks(k, w)
    BY <2>3, <2>4, Zenon DEF C
  <2> HIDE DEF Walks
  <2>6. ss[k] = CHOOSE w : Walks(k, w)
    BY Zenon
  <2> QED
    BY <2>5, <2>6, Zenon
<1> HIDE DEF ss
<1>11. \A k \in K : IsWalk(batch, class[k], ss[k], tt[k])
  BY <1>10, Zenon
<1>12. Points(m) = FlattenSeq(tt)
  BY <1>3 DEF Points
<1> HIDE DEF Walks, tt, K
<1>13. /\ IsSequence(ss) /\ IsSequence(tt)
       /\ DOMAIN ss = DOMAIN groups /\ DOMAIN tt = DOMAIN groups
  <2>1. IsSequence(ss) /\ IsSequence(tt)
    BY <1>8, <1>9, SequenceIs
  <2>2. DOMAIN groups = 1..Len(groups)
    BY <1>8 DEF K
  <2> QED
    BY <1>9, <2>1, <2>2
<1>14. IsWalk(batch, rows, FlattenSeq(ss), FlattenSeq(tt))
  <2>1. \A i, j \in rows : SameSeries(batch[i], batch[j]) => <<i, j>> \in same
    BY <1>4 DEF SameSeries
  <2>2. \A k \in DOMAIN groups : IsWalk(batch, class[k], ss[k], tt[k])
    BY <1>11 DEF K
  <2>3. rows \subseteq DOMAIN batch
    OBVIOUS
  <2> HIDE DEF rows
  <2> QED
    BY <1>6, <1>13, <2>1, <2>2, <2>3, JoinedWalk
<1> QED
  BY <1>12, <1>14 DEF m

LEMMA JoinedSingles ==
  ASSUME NEW k \in Nat, NEW o, NEW ss, IsSequence(ss), DOMAIN ss = 1..k,
         \A n \in 1..k : ss[n] = <<o[n]>>
  PROVE  /\ IsSequence(FlattenSeq(ss)) /\ Len(FlattenSeq(ss)) = k
         /\ \A n \in 1..k : FlattenSeq(ss)[n] = o[n]
<1> DEFINE T == {o[n] : n \in 1..k}
<1>1. ss \in Seq(Seq(T)) /\ Len(ss) = k
  <2>1. \A n \in 1..k : o[n] \in T
    OBVIOUS
  <2> HIDE DEF T
  <2>2. \A n \in 1..k : <<o[n]>> \in Seq(T)
    BY <2>1
  <2>3. ss \in Seq(Seq(T))
    BY <2>2, SequenceIn
  <2> QED
    BY <2>3
<1>2. PICK g \in [0..Len(ss) -> Seq(T)] :
        /\ g[0] = <<>> /\ FlattenSeq(ss) = g[Len(ss)]
        /\ \A n \in 1..Len(ss) : g[n] = g[n - 1] \o ss[n]
  <2>1. JoinedByOne(T, ss)
    BY <1>1, FlattenIs
  <2> QED
    BY <2>1, Zenon DEF JoinedByOne
<1> HIDE DEF T
<1> DEFINE S == {n \in Nat : n <= k => Len(g[n]) = n /\ \A i \in 1..n : g[n][i] = o[i]}
<1>3. 0 \in S
  <2>1. Len(g[0]) = 0
    BY <1>2
  <2> QED
    BY <2>1
<1>4. ASSUME NEW n \in Nat, n \in S PROVE n + 1 \in S
  <2> SUFFICES ASSUME n + 1 <= k
               PROVE  Len(g[n + 1]) = n + 1 /\ \A i \in 1..n + 1 : g[n + 1][i] = o[i]
    OBVIOUS
  <2> DEFINE a == g[n]
             b == g[n + 1]
  <2>1. n + 1 \in 1..k /\ n \in 0..k /\ (n + 1) - 1 = n /\ n <= k
    OBVIOUS
  <2>2. a \in Seq(T) /\ b = a \o <<o[n + 1]>>
    BY <1>1, <1>2, <2>1
  <2>3. Len(a) = n /\ \A i \in 1..n : a[i] = o[i]
    BY <1>4, <2>1
  <2> HIDE DEF a, b
  <2>4. o[n + 1] \in T
    BY <2>1 DEF T
  <2>5. Len(b) = n + 1 /\ b[n + 1] = o[n + 1] /\ \A i \in 1..n : b[i] = a[i]
    <3> DEFINE x == o[n + 1]
               e == <<x>>
    <3>1. e \in Seq(T) /\ Len(e) = 1 /\ e[1] = x
      BY <2>4
    <3>2. b = a \o e
      BY <2>2
    <3> HIDE DEF e, x
    <3>3. /\ Len(b) = Len(a) + Len(e) /\ \A i \in 1..Len(a) : b[i] = a[i]
          /\ \A i \in 1..Len(e) : b[Len(a) + i] = e[i]
      BY <2>2, <3>1, <3>2
    <3>4. Len(b) = n + 1 /\ b[n + 1] = e[1] /\ \A i \in 1..n : b[i] = a[i]
      BY <2>3, <3>1, <3>3
    <3> QED
      BY <3>1, <3>4 DEF x
  <2>6. \A i \in 1..n + 1 : i \in 1..n \/ i = n + 1
    OBVIOUS
  <2> QED
    BY <2>3, <2>5, <2>6 DEF b
<1> HIDE DEF S
<1>5. k \in S
  BY <1>3, <1>4, Reaching
<1>6. FlattenSeq(ss) = g[k] /\ g[k] \in Seq(T)
  BY <1>1, <1>2
<1>7. Len(g[k]) = k /\ \A i \in 1..k : g[k][i] = o[i]
  BY <1>5 DEF S
<1>8. IsSequence(g[k])
  BY <1>6, IsOne
<1> QED
  BY <1>6, <1>7, <1>8

\* The observations of a batch: each of its rows came out whole, each once, those of a series
\* in order.
Came(batch, decoded, w) ==
  /\ Enumerates(w, DOMAIN batch) /\ Keeps(w, Before(batch))
  /\ ~decoded.failed /\ DOMAIN decoded.out = 1..Len(w) /\ Len(decoded.out) = Len(w)
  /\ \A p \in 1..Len(w) : Seen(decoded.out[p]) = Expected(batch[w[p]])

LEMMA WholeIs ==
  ASSUME NEW batch \in Batches, Sendable(batch),
         \A n \in DOMAIN batch : ValidPayload(batch[n].type, batch[n].payload),
         NEW ids, KeysApart(batch, ids)
  PROVE  \E w : Came(batch, DecodeEach(Points(MetricsView(batch, ids))), w)
<1> DEFINE m == MetricsView(batch, ids)
           items == Points(m)
           decoded == DecodeEach(items)
<1>1. \A n \in DOMAIN batch : SendableRow(batch[n])
  BY DEF Sendable, SendableRow
<1>2. OneKind(batch)
  BY DEF Sendable, OneKind, ValueType
<1>3. PICK w : IsWalk(batch, DOMAIN batch, w, items)
  BY <1>2, MessageWalk
<1>4. IsSequence(items) /\ \A n \in DOMAIN items : ItemOK(items[n])
  BY MetricsViewIs, PointsIs
<1> HIDE DEF m, items
<1>5. Enumerates(w, DOMAIN batch) /\ Keeps(w, Before(batch)) /\ Matches(batch, w, items)
  BY <1>3 DEF IsWalk
<1>6. /\ Len(w) \in Nat /\ DOMAIN w = 1..Len(w) /\ \A p \in 1..Len(w) : w[p] \in DOMAIN batch
  <2>1. w \in Seq(DOMAIN batch)
    BY <1>5 DEF Enumerates
  <2> QED
    BY <2>1
<1>7. DOMAIN items = 1..Len(w) /\ \A p \in 1..Len(w) : Fits(batch[w[p]], items[p])
  <2>1. DOMAIN items = 1..Len(items)
    BY <1>4 DEF IsSequence
  <2> QED
    BY <1>5, <2>1 DEF Matches
<1> DEFINE alone == [n \in DOMAIN items |-> DecodeEach(<<items[n]>>)]
           read == {n \in DOMAIN items : \A i \in 1..n : ~alone[i].failed}
           Gives(p, o) == alone[p].out = <<o>> /\ Seen(o) = Expected(batch[w[p]])
           o == [p \in 1..Len(w) |-> CHOOSE x : Gives(p, x)]
<1>8. /\ decoded.failed <=> \E n \in DOMAIN items : alone[n].failed
      /\ decoded.out = FlattenSeq([n \in 1..Cardinality(read) |-> alone[n].out])
  BY <1>4, DecodeEachIs
<1>9. ASSUME NEW p \in 1..Len(w)
      PROVE  ~alone[p].failed /\ \E x : Gives(p, x)
  <2>1. alone[p] = Alone(items[p])
    BY <1>7, DecodeOne
  <2>2. SendableRow(batch[w[p]]) /\ Fits(batch[w[p]], items[p])
    BY <1>1, <1>6, <1>7
  <2> HIDE DEF alone
  <2> QED
    BY <2>1, <2>2, FitsGives
<1>10. ~decoded.failed
  <2> HIDE DEF alone
  <2> QED
    BY <1>7, <1>8, <1>9
<1>11. Cardinality(read) = Len(w)
  <2> HIDE DEF alone
  <2>1. read = 1..Len(w)
    BY <1>6, <1>7, <1>9
  <2>2. Cardinality(1..Len(w)) = Len(w)
    BY <1>6, FS_Interval
  <2> QED
    BY <2>1, <2>2
<1> HIDE DEF alone, read
<1>12. ASSUME NEW p \in 1..Len(w) PROVE Gives(p, o[p])
  <2> HIDE DEF Gives
  <2>1. \E x : Gives(p, x)
    BY <1>9
  <2>2. o[p] = CHOOSE x : Gives(p, x)
    BY Zenon
  <2> QED
    BY <2>1, <2>2, Zenon
<1> HIDE DEF o
<1> DEFINE ss == [n \in 1..Len(w) |-> alone[n].out]
<1>13. decoded.out = FlattenSeq(ss)
  BY <1>8, <1>11
<1>14. /\ IsSequence(ss) /\ DOMAIN ss = 1..Len(w)
       /\ \A n \in 1..Len(w) : ss[n] = <<o[n]>>
  <2>1. DOMAIN ss = 1..Len(w) /\ ss = [n \in 1..Len(w) |-> ss[n]]
    OBVIOUS
  <2>2. \A n \in 1..Len(w) : ss[n] = <<o[n]>>
    BY <1>12
  <2> HIDE DEF ss
  <2> QED
    BY <1>6, <2>1, <2>2, SequenceIs
<1> HIDE DEF ss, Gives
<1>15. /\ IsSequence(decoded.out) /\ Len(decoded.out) = Len(w)
       /\ \A n \in 1..Len(w) : decoded.out[n] = o[n]
  <2>1. /\ IsSequence(FlattenSeq(ss)) /\ Len(FlattenSeq(ss)) = Len(w)
        /\ \A n \in 1..Len(w) : FlattenSeq(ss)[n] = o[n]
    BY <1>6, <1>14, JoinedSingles
  <2> HIDE DEF decoded
  <2> QED
    BY <1>13, <2>1
<1>16. DOMAIN decoded.out = 1..Len(w)
  BY <1>15 DEF IsSequence
<1>17. \A p \in 1..Len(w) : Seen(decoded.out[p]) = Expected(batch[w[p]])
  BY <1>12, <1>15 DEF Gives
<1> HIDE DEF decoded
<1>18. Came(batch, decoded, w)
  BY <1>5, <1>10, <1>15, <1>16, <1>17 DEF Came
<1> QED
  BY <1>18 DEF decoded, items, m

\* Two sets one to one are of the same size.
LEMMA OneToOne ==
  ASSUME NEW S, IsFiniteSet(S), NEW T, NEW w, \A p \in S : w[p] \in T,
         \A p, q \in S : w[p] = w[q] => p = q, \A i \in T : \E p \in S : w[p] = i
  PROVE  Cardinality(S) = Cardinality(T)
<1> DEFINE f == [p \in S |-> w[p]]
<1>1. f \in Injection(S, T)
  BY DEF Injection, IsInjective
<1>2. f \in Surjection(S, T)
  BY DEF Surjection
<1> HIDE DEF f
<1>3. ExistsBijection(S, T)
  BY <1>1, <1>2 DEF ExistsBijection, Bijection
<1> QED
  BY <1>3, FS_Bijection

\* What came of a batch is what was sent.
LEMMA CameWhole ==
  ASSUME IsSequence(flushed), NEW w, Came(flushed, got, w)
  PROVE  RoundTrip
<1> DEFINE sent == [n \in DOMAIN flushed |-> Expected(flushed[n])]
           seen == [n \in DOMAIN got.out |-> Seen(got.out[n])]
           At(seq, x) == {n \in DOMAIN seq : seq[n] = x}
<1>1. /\ ~got.failed /\ DOMAIN got.out = 1..Len(w) /\ Len(got.out) = Len(w)
      /\ \A p \in 1..Len(w) : Seen(got.out[p]) = Expected(flushed[w[p]])
  BY DEF Came
<1>2. /\ DOMAIN flushed = 1..Len(flushed) /\ Len(flushed) \in Nat
  BY DEF IsSequence
<1>3. /\ w \in Seq(DOMAIN flushed)
      /\ \A p, q \in DOMAIN w : w[p] = w[q] => p = q
      /\ \A i \in DOMAIN flushed : \E p \in DOMAIN w : w[p] = i
      /\ \A p, q \in DOMAIN w : <<w[p], w[q]>> \in Before(flushed) => p < q
  BY DEF Came, Enumerates, Keeps
<1>4. Len(w) \in Nat /\ DOMAIN w = 1..Len(w) /\ \A p \in 1..Len(w) : w[p] \in DOMAIN flushed
  BY <1>3
<1>5. /\ DOMAIN sent = 1..Len(flushed) /\ DOMAIN seen = 1..Len(w)
      /\ \A p \in 1..Len(w) : seen[p] = sent[w[p]]
      /\ \A n \in 1..Len(flushed) : sent[n] = Expected(flushed[n])
  BY <1>1, <1>2, <1>4
<1>6. /\ sent = [n \in 1..Len(flushed) |-> sent[n]] /\ seen = [n \in 1..Len(w) |-> seen[n]]
  BY <1>1, <1>2
<1> HIDE DEF sent, seen
<1>7. Len(w) = Len(flushed)
  <2> DEFINE S == 1..Len(w)
             T == 1..Len(flushed)
  <2>1. IsFiniteSet(S) /\ Cardinality(S) = Len(w) /\ Cardinality(T) = Len(flushed)
    <3>1. \A n \in Nat : IsFiniteSet(1..n) /\ Cardinality(1..n) = n
      BY FS_Interval
    <3> QED
      BY <1>2, <1>4, <3>1
  <2>2. /\ \A p \in S : w[p] \in T
        /\ \A p, q \in S : w[p] = w[q] => p = q
        /\ \A i \in T : \E p \in S : w[p] = i
    BY <1>2, <1>3, <1>4
  <2> HIDE DEF S, T
  <2> QED
    BY <2>1, <2>2, OneToOne
<1>8. Len(seen) = Len(sent)
  <2>1. Len(seen) = Len(w) /\ Len(sent) = Len(flushed)
    <3>1. IsSequence(seen) /\ IsSequence(sent)
      BY <1>2, <1>4, <1>5, <1>6, SequenceIs
    <3>2. /\ Len(seen) \in Nat /\ DOMAIN seen = 1..Len(seen)
          /\ Len(sent) \in Nat /\ DOMAIN sent = 1..Len(sent)
      BY <3>1 DEF IsSequence
    <3>3. \A k, l \in Nat : 1..k = 1..l => k = l
      OBVIOUS
    <3> QED
      BY <1>2, <1>4, <1>5, <3>2, <3>3
  <2> QED
    BY <1>7, <2>1
<1>9. ASSUME NEW x
      PROVE  Cardinality(At(seen, x)) = Cardinality(At(sent, x))
  <2> DEFINE S == At(seen, x)
             T == At(sent, x)
  <2>1. IsFiniteSet(S)
    <3>1. S \subseteq 1..Len(w)
      BY <1>5
    <3>2. IsFiniteSet(1..Len(w))
      BY <1>4, FS_Interval
    <3> HIDE DEF S
    <3> QED
      BY <3>1, <3>2, FS_Subset
  <2>2. \A p \in S : w[p] \in T
    BY <1>2, <1>4, <1>5
  <2>3. \A p, q \in S : w[p] = w[q] => p = q
    BY <1>3, <1>4, <1>5
  <2>4. ASSUME NEW i \in T PROVE \E p \in S : w[p] = i
    <3>1. i \in DOMAIN flushed /\ sent[i] = x
      BY <1>2, <1>5
    <3>2. PICK p \in 1..Len(w) : w[p] = i
      BY <1>3, <1>4, <3>1
    <3>3. p \in S
      BY <1>5, <3>1, <3>2
    <3> QED
      BY <3>2, <3>3
  <2> HIDE DEF S, T
  <2>5. Cardinality(S) = Cardinality(T)
    BY <2>1, <2>2, <2>3, <2>4, OneToOne
  <2> QED
    BY <2>5 DEF S, T
<1>10. ASSUME NEW i \in DOMAIN sent, NEW j \in DOMAIN sent, i < j, SameSeries(flushed[i], flushed[j])
       PROVE  \E m, n \in DOMAIN seen : m < n /\ seen[m] = sent[i] /\ seen[n] = sent[j]
  <2>1. i \in DOMAIN flushed /\ j \in DOMAIN flushed
    BY <1>2, <1>5
  <2>2. PICK m \in 1..Len(w) : w[m] = i
    BY <1>3, <1>4, <2>1
  <2>3. PICK n \in 1..Len(w) : w[n] = j
    BY <1>3, <1>4, <2>1
  <2>4. <<i, j>> \in Before(flushed)
    BY <1>10, <2>1 DEF Before
  <2>5. m < n
    BY <1>3, <1>4, <2>2, <2>3, <2>4
  <2> QED
    BY <1>5, <2>2, <2>3, <2>5
<1>11. \A x \in ToSet(sent) : Cardinality(At(seen, x)) = Cardinality(At(sent, x))
  BY <1>9
<1> QED
  BY <1>1, <1>8, <1>10, <1>11 DEF RoundTrip, sent, seen

\* The last batch was encoded with IDs that are still those of its series.
Encoded(known) ==
  /\ Extended(known, Known) /\ \A n \in DOMAIN flushed : SeriesKey(flushed[n]) \in DOMAIN known.ids
  /\ message = MetricsView(flushed, known.ids)

WholeInv ==
  /\ IdsInv
  /\ flushed # <<>> => /\ flushed \in Batches /\ got = DecodeEach(Points(message))
                       /\ \A n \in DOMAIN flushed : ValidPayload(flushed[n].type, flushed[n].payload)
                       /\ \E known : Encoded(known)

LEMMA WholeFlush ==
  ASSUME WholeInv, NEW batch \in Batches, Flush(batch)
  PROVE  WholeInv'
<1>0. PICK all : all = FoldLeft(WithId, Known, batch)
  OBVIOUS
<1>1. IdsInv'
  BY IdsFlush DEF WholeInv
<1>2. seriesIds' = all.ids /\ nextSeriesId' = all.next
  BY <1>0 DEF Flush
<1>3. IsSequence(batch)
  BY CodecAssumption DEF CodecAssumption
<1>4. Extended(Known, all) /\ \A n \in DOMAIN batch : SeriesKey(batch[n]) \in DOMAIN all.ids
  BY <1>0, <1>3, BatchIds DEF WholeInv, IdsInv
<1>5. \A n \in DOMAIN batch : ValidPayload(batch[n].type, batch[n].payload)
  BY DEF Flush
<1>6. \/ /\ flushed' = batch /\ message' = MetricsView(batch, all.ids)
         /\ got' = DecodeEach(Points(message'))
      \/ UNCHANGED <<flushed, message, got>>
  BY <1>0 DEF Flush
<1>7. Known'.ids = all.ids
  BY <1>2 DEF Known
<1>8. CASE flushed' = batch /\ message' = MetricsView(batch, all.ids) /\ got' = DecodeEach(Points(message'))
  <2>1. Extended(all, Known')
    BY <1>7 DEF Extended
  <2>2. Encoded(all)'
    BY <1>4, <1>8, <2>1 DEF Encoded
  <2>3. (\E known : Encoded(known))'
    BY <2>2
  <2> QED
    BY <1>1, <1>5, <1>8, <2>3 DEF WholeInv
<1>9. CASE UNCHANGED <<flushed, message, got>>
  <2>1. ASSUME NEW known, Encoded(known) PROVE Encoded(known)'
    <3>1. Extended(known, Known')
      BY <1>4, <1>7, <2>1 DEF Encoded, Extended
    <3> QED
      BY <1>9, <2>1, <3>1 DEF Encoded
  <2>2. (\E known : Encoded(known)) => (\E known : Encoded(known))'
    BY <2>1
  <2> QED
    BY <1>1, <1>9, <2>2 DEF WholeInv
<1> QED
  BY <1>6, <1>8, <1>9

\* Until the IDs run out, a batch as a node makes it comes out of the peer whole, however its
\* rows are grouped: each row once, with the labels, the times and the payload it went in with,
\* and those of a series in order.
THEOREM ComesOutWhole ==
  Spec => [](Cardinality(DOMAIN seriesIds) <= MaxId /\ Sendable(flushed) => RoundTrip)
<1>1. Init => WholeInv
  <2> SUFFICES ASSUME Init PROVE WholeInv
    OBVIOUS
  <2>1. flushed = <<>>
    BY DEF Init
  <2> QED
    BY <2>1, IdsInit DEF WholeInv
<1>2. WholeInv /\ [Next]_vars => WholeInv'
  <2> SUFFICES ASSUME WholeInv, [Next]_vars PROVE WholeInv'
    OBVIOUS
  <2>1. ASSUME UNCHANGED <<encoder, flushed, message, got, named>>
        PROVE  WholeInv'
    <3>1. Known' = Known /\ UNCHANGED <<seriesIds, nextSeriesId>>
      BY <2>1 DEF encoder, Known
    <3>2. IdsInv'
      BY <2>1, <3>1 DEF WholeInv, IdsInv, KnownOK
    <3>3. ASSUME NEW known, Encoded(known) PROVE Encoded(known)'
      BY <2>1, <3>1, <3>3 DEF Encoded
    <3>4. (\E known : Encoded(known)) => (\E known : Encoded(known))'
      BY <3>3
    <3> QED
      BY <2>1, <3>2, <3>4 DEF WholeInv
  <2>2. ASSUME NEW batch \in Batches, Refused(batch)
        PROVE  WholeInv'
    BY <2>1, <2>2 DEF Refused
  <2>3. ASSUME NEW m \in Foreign, Receive(m)
        PROVE  WholeInv'
    <3>1. flushed' = <<>> /\ UNCHANGED <<seriesIds, nextSeriesId, named>>
      BY <2>3 DEF Receive, encoder
    <3>2. IdsInv'
      BY <3>1 DEF WholeInv, IdsInv, KnownOK, Known
    <3> QED
      BY <3>1, <3>2 DEF WholeInv
  <2>4. CASE UNCHANGED vars
    BY <2>1, <2>4 DEF vars
  <2> QED
    BY <2>2, <2>3, <2>4, WholeFlush DEF Next
<1>3. WholeInv => (Cardinality(DOMAIN seriesIds) <= MaxId /\ Sendable(flushed) => RoundTrip)
  <2> SUFFICES ASSUME WholeInv, Cardinality(DOMAIN seriesIds) <= MaxId, Sendable(flushed),
                      flushed # <<>>
               PROVE  RoundTrip
    BY DEF RoundTrip
  <2>1. /\ flushed \in Batches /\ got = DecodeEach(Points(message))
        /\ \A n \in DOMAIN flushed : ValidPayload(flushed[n].type, flushed[n].payload)
    BY DEF WholeInv
  <2>2. PICK known : Encoded(known)
    BY DEF WholeInv
  <2>3. KeysApart(flushed, known.ids)
    <3> SUFFICES ASSUME NEW i \in DOMAIN flushed, NEW j \in DOMAIN flushed
                 PROVE  known.ids[SeriesKey(flushed[i])] = known.ids[SeriesKey(flushed[j])]
                          <=> SeriesKey(flushed[i]) = SeriesKey(flushed[j])
      BY DEF KeysApart
    <3> DEFINE x == SeriesKey(flushed[i])
               y == SeriesKey(flushed[j])
    <3>1. x \in DOMAIN known.ids /\ y \in DOMAIN known.ids
      BY <2>2 DEF Encoded
    <3> HIDE DEF x, y
    <3>2. /\ x \in DOMAIN seriesIds /\ y \in DOMAIN seriesIds
          /\ known.ids[x] = seriesIds[x] /\ known.ids[y] = seriesIds[y]
      BY <2>2, <3>1 DEF Encoded, Extended, Known
    <3>3. seriesIds[x] = seriesIds[y] => x = y
      BY <3>2 DEF WholeInv, IdsInv, KnownOK, Known
    <3>4. known.ids[x] = known.ids[y] <=> x = y
      BY <3>2, <3>3
    <3> QED
      BY <3>4 DEF x, y
  <2>4. \E w : Came(flushed, DecodeEach(Points(MetricsView(flushed, known.ids))), w)
    BY <2>1, <2>3, WholeIs
  <2>5. PICK w : Came(flushed, got, w)
    BY <2>1, <2>2, <2>4 DEF Encoded
  <2>6. IsSequence(flushed)
    BY <2>1, CodecAssumption DEF CodecAssumption
  <2> QED
    BY <2>5, <2>6, CameWhole
<1> QED
  BY <1>1, <1>2, <1>3, PTL DEF Spec
=============================================================================
