--------------------------- MODULE AnswersProofs ---------------------------
(***************************************************************************)
(* What the detectors tell is what they hold, and what                     *)
(* heavy_hitter_accuracy reports is of whole lists and once per window.    *)
(***************************************************************************)
EXTENDS Answers, FiniteSetTheorems, WellFoundedInduction, TLAPS

-----------------------------------------------------------------------------
(* The top of a window's counts.                                           *)

CountsOK(counts) ==
  IsFiniteSet(counts) /\ counts \subseteq [key : Nat, count : Nat]

LEMMA WindowIs ==
  ASSUME NEW w \in Windows
  PROVE  /\ CountsOK(w.counts) /\ w.counts # {}
         /\ w.distinct \in Nat /\ w.points \in Nat /\ w.points > 0
<1>1. IsWindow(w)
  BY AnswersAssumption DEF AnswersAssumption
<1>2. \A x \in w.counts : x \in [key : Nat, count : Nat]
  BY <1>1 DEF IsWindow
<1> QED
  BY <1>1, <1>2 DEF IsWindow, CountsOK

LEMMA RankIs ==
  ASSUME NEW counts, CountsOK(counts), NEW x \in counts
  PROVE  /\ Rank(counts, x) \in Nat /\ Rank(counts, x) > 0
         /\ IsFiniteSet({y \in counts : Ahead(y, x)})
<1> {y \in counts : Ahead(y, x)} \subseteq counts
  OBVIOUS
<1>1. IsFiniteSet({y \in counts : Ahead(y, x)})
  BY FS_Subset DEF CountsOK
<1>2. Cardinality({y \in counts : Ahead(y, x)}) \in Nat
  BY <1>1, FS_CardinalityType
<1> QED
  BY <1>1, <1>2 DEF Rank

\* Ranks go by the order.
LEMMA RankUp ==
  ASSUME NEW counts, CountsOK(counts), NEW x \in counts, NEW y \in counts, Ahead(y, x)
  PROVE  Rank(counts, y) < Rank(counts, x)
<1> DEFINE X == {z \in counts : Ahead(z, x)}
           Y == {z \in counts : Ahead(z, y)}
<1>1. \A z \in counts : z.count \in Nat /\ z.key \in Nat
  BY DEF CountsOK
<1>2. Y \subseteq X /\ y \in X /\ y \notin Y
  BY <1>1 DEF Ahead
<1>3. IsFiniteSet(X) /\ IsFiniteSet(Y)
  BY RankIs
<1>4. Cardinality(Y) <= Cardinality(X) /\ Cardinality(Y) # Cardinality(X)
  BY <1>2, <1>3, FS_Subset
<1>5. Cardinality(X) \in Nat /\ Cardinality(Y) \in Nat
  BY <1>3, FS_CardinalityType
<1>6. Rank(counts, x) = Cardinality(X) + 1 /\ Rank(counts, y) = Cardinality(Y) + 1
  BY DEF Rank
<1> HIDE DEF X, Y
<1> QED
  BY <1>4, <1>5, <1>6

\* Of two keys one is ahead of the other.
LEMMA OneAhead ==
  ASSUME NEW counts, CountsOK(counts), NEW x \in counts, NEW y \in counts, x # y
  PROVE  Ahead(x, y) \/ Ahead(y, x)
<1>1. x \in [key : Nat, count : Nat] /\ y \in [key : Nat, count : Nat]
  BY DEF CountsOK
<1>2. x.key # y.key \/ x.count # y.count
  BY <1>1
<1> QED
  BY <1>1, <1>2 DEF Ahead

\* The first of some keys.
LEMMA FirstOf ==
  ASSUME NEW counts, CountsOK(counts), NEW S, S \subseteq counts, S # {}
  PROVE  \E z \in S : \A y \in counts : Ahead(y, z) => y \notin S
<1> DEFINE R == OpToRel(<, Nat)
           ranks == {Rank(counts, y) : y \in S}
<1>1. ranks \subseteq Nat /\ ranks # {}
  BY RankIs
<1> HIDE DEF ranks
<1>2. PICK n \in ranks : \A k \in ranks : <<k, n>> \notin R
  BY <1>1, NatLessThanWellFounded, WFMin
<1>3. PICK z \in S : Rank(counts, z) = n
  BY <1>2 DEF ranks
<1>4. ASSUME NEW y \in counts, Ahead(y, z), y \in S
      PROVE  FALSE
  <2>1. Rank(counts, y) < Rank(counts, z)
    BY <1>4, RankUp
  <2>2. Rank(counts, y) \in ranks /\ Rank(counts, y) \in Nat /\ n \in Nat
    BY <1>1, <1>2, <1>4 DEF ranks
  <2>3. <<Rank(counts, y), n>> \in R
    BY <1>3, <2>1, <2>2 DEF OpToRel
  <2> QED
    BY <1>2, <2>2, <2>3
<1> QED
  BY <1>3, <1>4

\* The list of a window with a key of a rank beyond K is full, and no count of
\* the list is less than that key's.
LEMMA TopFull ==
  ASSUME NEW counts, CountsOK(counts), NEW x \in counts, Rank(counts, x) > K
  PROVE  /\ IsFiniteSet(TopK(counts)) /\ Cardinality(TopK(counts)) >= K
         /\ \A y \in TopK(counts) : y.count \in Nat /\ y.count >= x.count
<1> DEFINE T == {z \in counts : Rank(counts, z) <= K}
           f == [z \in T |-> [rank |-> Rank(counts, z), key |-> z.key, count |-> z.count]]
           top == TopK(counts)
<1>1. K \in Nat
  BY AnswersAssumption DEF AnswersAssumption
<1>2. IsFiniteSet(T) /\ Cardinality(T) \in Nat
  <2>1. T \subseteq counts
    OBVIOUS
  <2> QED
    BY <2>1, FS_Subset, FS_CardinalityType DEF CountsOK
<1>3. Cardinality(T) >= K
  <2> SUFFICES ASSUME Cardinality(T) < K PROVE FALSE
    BY <1>1, <1>2
  <2>1. x \in counts \ T
    <3>1. Rank(counts, x) \in Nat
      BY RankIs
    <3> QED
      BY <1>1, <3>1
  <2>2. PICK z \in counts \ T : \A y \in counts : Ahead(y, z) => y \notin counts \ T
    <3>1. counts \ T \subseteq counts /\ counts \ T # {}
      BY <2>1
    <3> HIDE DEF T
    <3> QED
      BY <3>1, FirstOf
  <2> DEFINE Y == {y \in counts : Ahead(y, z)}
  <2>3. Y \subseteq T
    BY <2>2
  <2>4. Rank(counts, z) = Cardinality(Y) + 1 /\ Rank(counts, z) \in Nat
    BY <2>2, RankIs DEF Rank
  <2>5. ~(Rank(counts, z) <= K)
    BY <2>2
  <2> HIDE DEF Y, T
  <2>6. Cardinality(Y) <= Cardinality(T) /\ Cardinality(Y) \in Nat
    BY <1>2, <2>3, FS_Subset, FS_CardinalityType
  <2> QED
    BY <1>1, <1>2, <2>4, <2>5, <2>6
<1>4. f \in Injection(T, top) /\ f \in Surjection(T, top)
  <2>1. f \in [T -> top] /\ \A y \in top : \E z \in T : f[z] = y
    BY DEF TopK
  <2>2. ASSUME NEW y \in T, NEW z \in T, f[y] = f[z]
        PROVE  y = z
    <3>1. y.key = z.key /\ y.count = z.count
      BY <2>2
    <3>2. y \in [key : Nat, count : Nat] /\ z \in [key : Nat, count : Nat]
      BY DEF CountsOK
    <3> QED
      BY <3>1, <3>2
  <2> HIDE DEF T, top
  <2> QED
    BY <2>1, <2>2 DEF Injection, IsInjective, Surjection
<1>5. IsFiniteSet(top) /\ Cardinality(top) = Cardinality(T)
  <2> HIDE DEF f, T, top
  <2> QED
    BY <1>2, <1>4, FS_Surjection
<1>6. ASSUME NEW y \in top
      PROVE  y.count \in Nat /\ y.count >= x.count
  <2>1. PICK z \in T : y = [rank |-> Rank(counts, z), key |-> z.key, count |-> z.count]
    BY DEF TopK
  <2>2. z \in counts /\ Rank(counts, z) <= K /\ Rank(counts, z) \in Nat /\ Rank(counts, x) \in Nat
    BY RankIs
  <2>3. ~Ahead(x, z) /\ x # z
    BY <1>1, <2>2, RankUp
  <2>4. Ahead(z, x)
    BY <2>2, <2>3, OneAhead
  <2>5. z.count \in Nat /\ x.count \in Nat
    BY <2>2 DEF CountsOK
  <2> QED
    BY <2>1, <2>4, <2>5 DEF Ahead
<1> QED
  BY <1>3, <1>5, <1>6

\* A list that is not cut short has all the keys above the threshold.
LEMMA TopTells ==
  ASSUME NEW counts, CountsOK(counts), NEW points \in Nat, ~CutShort(TopK(counts), points)
  PROVE  KeysOf({y \in TopK(counts) : Reaches(y, points)}) = Heavy(counts, points)
<1>1. K \in Nat /\ Phi \in Nat
  BY AnswersAssumption DEF AnswersAssumption
<1>2. ASSUME NEW y \in TopK(counts), Reaches(y, points)
      PROVE  \E x \in counts : Reaches(x, points) /\ x.key = y.key
  BY <1>2 DEF TopK, Reaches
<1>3. ASSUME NEW x \in counts, Reaches(x, points)
      PROVE  \E y \in TopK(counts) : Reaches(y, points) /\ y.key = x.key
  <2>1. x.count \in Nat /\ Rank(counts, x) \in Nat
    BY RankIs DEF CountsOK
  <2>2. CASE Rank(counts, x) <= K
    <3> DEFINE y == [rank |-> Rank(counts, x), key |-> x.key, count |-> x.count]
    <3>1. y \in TopK(counts) /\ y.key = x.key /\ y.count = x.count
      BY <2>2 DEF TopK
    <3> HIDE DEF y
    <3> QED
      BY <1>3, <3>1 DEF Reaches
  <2>3. CASE ~(Rank(counts, x) <= K)
    <3>1. Rank(counts, x) > K
      BY <1>1, <2>1, <2>3
    <3>2. /\ Cardinality(TopK(counts)) >= K
          /\ \A y \in TopK(counts) : y.count \in Nat /\ y.count >= x.count
      BY <3>1, TopFull
    <3>3. PICK y \in TopK(counts) : ~Reaches(y, points)
      BY <3>2 DEF CutShort
    <3> DEFINE bar == Phi * points
    <3>4. bar \in Nat
      BY <1>1
    <3>5. 100 * x.count >= bar /\ ~(100 * y.count >= bar)
      BY <1>3, <3>3 DEF Reaches
    <3> HIDE DEF bar
    <3> QED
      BY <2>1, <3>2, <3>4, <3>5
  <2> QED
    BY <2>2, <2>3
<1> QED
  BY <1>2, <1>3 DEF KeysOf, Heavy

\* The top of a window is not empty, nor are its keys other than numbers.
LEMMA TopIs ==
  ASSUME NEW counts, CountsOK(counts)
  PROVE  /\ TopK(counts) \subseteq [rank : Nat, key : Nat, count : Nat]
         /\ KeysOf(TopK(counts)) \subseteq Nat
         /\ K > 0 /\ counts # {} => TopK(counts) # {}
<1>1. ASSUME NEW y \in TopK(counts)
      PROVE  y \in [rank : Nat, key : Nat, count : Nat]
  <2>1. PICK x \in counts : y = [rank |-> Rank(counts, x), key |-> x.key, count |-> x.count]
    BY DEF TopK
  <2>2. Rank(counts, x) \in Nat /\ x.key \in Nat /\ x.count \in Nat
    BY RankIs DEF CountsOK
  <2> QED
    BY <2>1, <2>2
<1>2. KeysOf(TopK(counts)) \subseteq Nat
  BY <1>1 DEF KeysOf
<1>3. ASSUME K > 0, counts # {}
      PROVE  TopK(counts) # {}
  <2>1. PICK z \in counts : \A y \in counts : Ahead(y, z) => y \notin counts
    BY <1>3, FirstOf
  <2>2. {y \in counts : Ahead(y, z)} = {}
    BY <2>1
  <2>3. Rank(counts, z) = 1
    BY <2>2, FS_EmptySet DEF Rank
  <2>4. K \in Nat
    BY AnswersAssumption DEF AnswersAssumption
  <2>5. Rank(counts, z) <= K
    BY <1>3, <2>3, <2>4
  <2> QED
    BY <2>5 DEF TopK
<1> QED
  BY <1>1, <1>2, <1>3

-----------------------------------------------------------------------------
(* The trackers.                                                           *)

Dists == {w.dist : w \in Windows}

States == {"none", "identifier-like", "growing", "stable"}

DetectorType ==
  [next : Nat, distincts : Seq(Nat), state : States, tops : Seq(SUBSET Nat),
   baselines : Seq(Dists), drifting : BOOLEAN]

LEMMA RememberIs ==
  ASSUME NEW S, NEW h \in Seq(S), NEW x \in S, NEW n \in Nat
  PROVE  /\ Remember(h, x, n) \in Seq(S)
         /\ Len(h) <= n =>
              /\ Len(Remember(h, x, n)) <= n
              /\ n > 0 => /\ Len(Remember(h, x, n)) > 0
                          /\ Remember(h, x, n)[Len(Remember(h, x, n))] = x
              /\ \A i \in DOMAIN h : Len(h) + 1 < n + i =>
                   \E j \in DOMAIN Remember(h, x, n) :
                     Remember(h, x, n)[j] = h[i] /\ Len(Remember(h, x, n)) + i = Len(h) + 1 + j
<1> DEFINE g == Append(h, x)
<1>1. /\ g \in Seq(S) /\ Len(g) = Len(h) + 1 /\ g # <<>> /\ g[Len(g)] = x
      /\ \A i \in DOMAIN h : g[i] = h[i] /\ i \in DOMAIN g /\ i \in 1..Len(h)
      /\ Len(h) \in Nat
  OBVIOUS
<1> HIDE DEF g
<1>2. /\ Tail(g) \in Seq(S) /\ Len(Tail(g)) = Len(h)
      /\ \A i \in 1..Len(h) : Tail(g)[i] = g[i + 1] /\ i \in DOMAIN Tail(g)
  BY <1>1
<1>3. CASE Len(g) > n
  <2>1. Remember(h, x, n) = Tail(g)
    BY <1>3 DEF Remember, g
  <2>2. ASSUME Len(h) <= n, n > 0
        PROVE  Len(Tail(g)) > 0 /\ Tail(g)[Len(Tail(g))] = x
    BY <1>1, <1>2, <1>3, <2>2
  <2>3. ASSUME Len(h) <= n, NEW i \in DOMAIN h, Len(h) + 1 < n + i
        PROVE  \E j \in DOMAIN Tail(g) : Tail(g)[j] = h[i] /\ Len(Tail(g)) + i = Len(h) + 1 + j
    <3>1. Len(h) = n /\ i \in 1..Len(h) /\ i > 1
      BY <1>1, <1>3, <2>3
    <3>2. i - 1 \in 1..Len(h) /\ (i - 1) + 1 = i
      BY <3>1, <1>1
    <3>3. Tail(g)[i - 1] = h[i] /\ i - 1 \in DOMAIN Tail(g)
      BY <1>1, <1>2, <3>2
    <3>4. Len(Tail(g)) + i = Len(h) + 1 + (i - 1)
      BY <1>1, <1>2, <3>1
    <3> QED
      BY <3>3, <3>4
  <2> QED
    BY <1>2, <2>1, <2>2, <2>3
<1>4. CASE ~(Len(g) > n)
  <2>1. Remember(h, x, n) = g
    BY <1>4 DEF Remember, g
  <2>2. \A i \in DOMAIN h : g[i] = h[i] /\ i \in DOMAIN g /\ Len(g) + i = Len(h) + 1 + i
    BY <1>1
  <2>3. Len(g) <= n /\ Len(g) > 0
    BY <1>1, <1>4
  <2> QED
    BY <1>1, <2>1, <2>2, <2>3
<1> QED
  BY <1>3, <1>4

LEMMA MovedOn ==
  ASSUME NEW d \in DetectorType
  PROVE  /\ [d EXCEPT !.next = @ + 1] \in DetectorType
         /\ [d EXCEPT !.next = @ + 1].next = d.next + 1
         /\ [d EXCEPT !.next = @ + 1].drifting = d.drifting
         /\ [d EXCEPT !.next = @ + 1].state = d.state
         /\ [d EXCEPT !.next = @ + 1].tops = d.tops
<1>1. d.next + 1 \in Nat
  BY DEF DetectorType
<1>2. [d EXCEPT !.next = @ + 1] \in DetectorType
  BY <1>1 DEF DetectorType
<1>3. [d EXCEPT !.next = @ + 1].next = d.next + 1
  BY DEF DetectorType
<1>4. [d EXCEPT !.next = @ + 1].drifting = d.drifting
  BY DEF DetectorType
<1>5. [d EXCEPT !.next = @ + 1].state = d.state
  BY DEF DetectorType
<1>6. [d EXCEPT !.next = @ + 1].tops = d.tops
  BY DEF DetectorType
<1> QED
  BY <1>2, <1>3, <1>4, <1>5, <1>6

\* The detector when it has answered a window.
After(d, window) == [Observed(d, window) EXCEPT !.next = @ + 1]

LEMMA AfterIs ==
  ASSUME NEW d \in DetectorType, NEW w \in Windows
  PROVE  /\ After(d, w) \in DetectorType
         /\ After(d, w).next = d.next + 1
         /\ After(d, w).drifting = Observed(d, w).drifting /\ After(d, w).state = Observed(d, w).state
         /\ After(d, w).tops = IF TopK(w.counts) = {} THEN d.tops
                               ELSE Remember(d.tops, KeysOf(TopK(w.counts)), NoveltyWindows)
<1> DEFINE a == ObserveValues(d, w.dist, w.points)
           b == ObserveTop(a, TopK(w.counts))
           c == ObserveCardinality(b, w.distinct, w.points)
<1>1. /\ NoveltyWindows \in Nat /\ CardinalityWindows \in Nat /\ DriftWindows \in Nat
      /\ w.dist \in Dists /\ w.distinct \in Nat /\ KeysOf(TopK(w.counts)) \in SUBSET Nat
  BY WindowIs, TopIs, AnswersAssumption DEF AnswersAssumption, Dists
<1>2. a \in DetectorType /\ a.next = d.next /\ a.tops = d.tops
  <2>1. Remember(d.baselines, w.dist, DriftWindows) \in Seq(Dists)
    BY <1>1, RememberIs DEF DetectorType
  <2>2. (KsDistance(w.dist, d.baselines) > KsThreshold) \in BOOLEAN
    OBVIOUS
  <2>3. (IF Tested(d, w.points) THEN KsDistance(w.dist, d.baselines) > KsThreshold ELSE d.drifting) \in BOOLEAN
    BY <2>2 DEF DetectorType
  <2> QED
    BY <2>1, <2>3 DEF ObserveValues, DetectorType
<1> HIDE DEF a
<1>3. /\ b \in DetectorType /\ b.next = d.next
      /\ b.tops = IF TopK(w.counts) = {} THEN d.tops
                  ELSE Remember(d.tops, KeysOf(TopK(w.counts)), NoveltyWindows)
  <2>1. Remember(a.tops, KeysOf(TopK(w.counts)), NoveltyWindows) \in Seq(SUBSET Nat)
    BY <1>1, <1>2, RememberIs DEF DetectorType
  <2> QED
    BY <1>2, <2>1 DEF ObserveTop, DetectorType
<1> HIDE DEF b
<1>4. c \in DetectorType /\ c.next = b.next /\ c.tops = b.tops
  <2>1. Remember(b.distincts, w.distinct, CardinalityWindows) \in Seq(Nat)
    BY <1>1, <1>3, RememberIs DEF DetectorType
  <2>2. Classify(b.distincts, w.distinct, w.points) \in States
    BY DEF Classify, States
  <2> QED
    BY <1>3, <2>1, <2>2 DEF ObserveCardinality, DetectorType
<1>5. c = Observed(d, w)
  BY DEF Observed, a, b
<1> HIDE DEF c
<1>6. After(d, w) = [c EXCEPT !.next = @ + 1]
  BY <1>5 DEF After
<1>7. /\ After(d, w) \in DetectorType /\ After(d, w).next = c.next + 1
      /\ After(d, w).drifting = c.drifting /\ After(d, w).state = c.state /\ After(d, w).tops = c.tops
  BY <1>4, <1>6, MovedOn
<1> QED
  BY <1>3, <1>4, <1>5, <1>7

-----------------------------------------------------------------------------
(* What is told.                                                           *)

EventType ==
  [drift : Seq([end : Nat, what : BOOLEAN]), class : Seq([end : Nat, what : States]),
   novelty : SUBSET [end : Nat, what : Nat]]

\* Drift begins and ends in turn, and its state is that told last.
DriftTold(told, drifting) ==
  /\ \A i \in DOMAIN told : told[i].what = (i % 2 = 1)
  /\ drifting = (Len(told) % 2 = 1)

\* So with the class.
ClassTold(told, state) ==
  /\ \A i \in 2..Len(told) : told[i].what # told[i - 1].what
  /\ state = IF told = <<>> THEN "none" ELSE told[Len(told)].what

\* A key that was told is among the tops remembered, no further back than the
\* windows since, until NoveltyWindows of them have passed.
Remembered(d, a) ==
  a.end + NoveltyWindows >= d.next =>
    \E i \in DOMAIN d.tops : a.what \in d.tops[i] /\ Len(d.tops) + a.end + 1 <= d.next + i

KeysTold(told, d) ==
  /\ \A a \in told : a.end < d.next /\ Remembered(d, a)
  /\ \A a, b \in told : a.what = b.what /\ a.end < b.end => b.end > a.end + NoveltyWindows

LEMMA DriftGoesOn ==
  ASSUME NEW told \in Seq([end : Nat, what : BOOLEAN]), NEW d \in DetectorType,
         NEW new \in DetectorType, DriftTold(told, d.drifting)
  PROVE  /\ told \o DriftEvents(d, new, d.next) \in Seq([end : Nat, what : BOOLEAN])
         /\ DriftTold(told \o DriftEvents(d, new, d.next), new.drifting)
<1>1. d.next \in Nat /\ d.drifting \in BOOLEAN /\ new.drifting \in BOOLEAN
  BY DEF DetectorType
<1>2. CASE new.drifting = d.drifting
  <2>1. told \o DriftEvents(d, new, d.next) = told
    BY <1>2 DEF DriftEvents
  <2> QED
    BY <1>2, <2>1
<1>3. CASE new.drifting # d.drifting
  <2> DEFINE e == Event(d.next, new.drifting)
             n == Len(told)
  <2>1. e \in [end : Nat, what : BOOLEAN] /\ e.what = new.drifting
    BY <1>1 DEF Event
  <2>2. told \o DriftEvents(d, new, d.next) = told \o <<e>>
    BY <1>3 DEF DriftEvents
  <2> HIDE DEF e
  <2>3. /\ told \o <<e>> \in Seq([end : Nat, what : BOOLEAN])
        /\ Len(told \o <<e>>) = n + 1 /\ n \in Nat
        /\ \A i \in 1..n : (told \o <<e>>)[i] = told[i] /\ i \in DOMAIN told
        /\ (told \o <<e>>)[n + 1] = e
        /\ DOMAIN (told \o <<e>>) = 1..(n + 1)
    BY <2>1
  <2>4. (n + 1) % 2 = 1 <=> n % 2 # 1
    BY <2>3
  <2>5. new.drifting = ((n + 1) % 2 = 1)
    BY <1>1, <1>3, <2>4 DEF DriftTold
  <2>6. ASSUME NEW i \in 1..(n + 1)
        PROVE  (told \o <<e>>)[i].what = (i % 2 = 1)
    <3>1. CASE i = n + 1
      BY <2>1, <2>3, <2>5, <3>1
    <3>2. CASE i \in 1..n
      BY <2>3, <3>2 DEF DriftTold
    <3> QED
      BY <2>3, <3>1, <3>2
  <2> QED
    BY <2>2, <2>3, <2>5, <2>6 DEF DriftTold
<1> QED
  BY <1>2, <1>3

LEMMA ClassGoesOn ==
  ASSUME NEW told \in Seq([end : Nat, what : States]), NEW d \in DetectorType,
         NEW new \in DetectorType, ClassTold(told, d.state)
  PROVE  /\ told \o CardinalityEvents(d, new, d.next) \in Seq([end : Nat, what : States])
         /\ ClassTold(told \o CardinalityEvents(d, new, d.next), new.state)
<1>1. d.next \in Nat /\ d.state \in States /\ new.state \in States
  BY DEF DetectorType
<1>2. CASE new.state = d.state
  <2>1. told \o CardinalityEvents(d, new, d.next) = told
    BY <1>2 DEF CardinalityEvents
  <2> QED
    BY <1>2, <2>1
<1>3. CASE new.state # d.state
  <2> DEFINE e == Event(d.next, new.state)
             n == Len(told)
  <2>1. e \in [end : Nat, what : States] /\ e.what = new.state
    BY <1>1 DEF Event
  <2>2. told \o CardinalityEvents(d, new, d.next) = told \o <<e>>
    BY <1>3 DEF CardinalityEvents
  <2> HIDE DEF e
  <2>3. /\ told \o <<e>> \in Seq([end : Nat, what : States])
        /\ Len(told \o <<e>>) = n + 1 /\ n \in Nat
        /\ \A i \in 1..n : (told \o <<e>>)[i] = told[i] /\ i \in DOMAIN told
        /\ (told \o <<e>>)[n + 1] = e
        /\ told = <<>> <=> n = 0
        /\ told \o <<e>> # <<>>
    BY <2>1
  <2>4. ASSUME NEW i \in 2..(n + 1)
        PROVE  (told \o <<e>>)[i].what # (told \o <<e>>)[i - 1].what
    <3>1. CASE i = n + 1
      <4>1. n # 0 /\ i - 1 = n /\ n \in 1..n
        BY <2>3, <3>1
      <4>2. d.state = told[n].what
        BY <2>3, <4>1 DEF ClassTold
      <4> QED
        BY <1>3, <2>1, <2>3, <3>1, <4>1, <4>2
    <3>2. CASE i \in 2..n
      <4>1. i \in 1..n /\ i - 1 \in 1..n
        BY <2>3, <3>2
      <4>2. told[i].what # told[i - 1].what
        BY <3>2 DEF ClassTold
      <4> QED
        BY <2>3, <4>1, <4>2
    <3> QED
      BY <2>3, <3>1, <3>2
  <2> QED
    BY <2>1, <2>2, <2>3, <2>4 DEF ClassTold
<1> QED
  BY <1>2, <1>3

\* A window passes: what was remembered still is, and what it brings is new.
LEMMA KeysGoOn ==
  ASSUME NEW told \in SUBSET [end : Nat, what : Nat], NEW d \in DetectorType, NEW w \in Windows,
         Len(d.tops) <= NoveltyWindows, KeysTold(told, d)
  PROVE  LET keys == {Event(d.next, key) : key \in NewKeys(d, TopK(w.counts))} IN
         /\ Len(After(d, w).tops) <= NoveltyWindows
         /\ told \cup keys \in SUBSET [end : Nat, what : Nat]
         /\ KeysTold(told \cup keys, After(d, w))
         /\ KeysTold(told, After(d, w))
<1> DEFINE new == After(d, w)
           top == TopK(w.counts)
           N == NoveltyWindows
           keys == {Event(d.next, key) : key \in NewKeys(d, top)}
<1>1. /\ N \in Nat /\ d.next \in Nat /\ d.tops \in Seq(SUBSET Nat)
      /\ KeysOf(top) \in SUBSET Nat /\ Len(d.tops) \in Nat
      /\ new \in DetectorType /\ new.next = d.next + 1
      /\ new.tops = IF top = {} THEN d.tops ELSE Remember(d.tops, KeysOf(top), N)
  <2>1. N \in Nat /\ KeysOf(top) \in SUBSET Nat
    BY WindowIs, TopIs, AnswersAssumption DEF AnswersAssumption
  <2>2. d.next \in Nat /\ d.tops \in Seq(SUBSET Nat)
    BY DEF DetectorType
  <2>3. Len(d.tops) \in Nat
    BY <2>2
  <2>4. /\ new \in DetectorType /\ new.next = d.next + 1
        /\ new.tops = IF top = {} THEN d.tops ELSE Remember(d.tops, KeysOf(top), N)
    BY AfterIs
  <2> QED
    BY <2>1, <2>2, <2>3, <2>4
<1>2. \A x \in keys : x \in [end : Nat, what : Nat] /\ x.end = d.next /\ x.what \in NewKeys(d, top)
  <2>1. NewKeys(d, top) \subseteq Nat
    BY <1>1 DEF NewKeys
  <2> QED
    BY <1>1, <2>1 DEF Event
<1>3. \A a \in told : a \in [end : Nat, what : Nat] /\ a.end \in Nat /\ a.end < d.next /\ Remembered(d, a)
  BY DEF KeysTold
<1> DEFINE R == Remember(d.tops, KeysOf(top), N)
<1>4. /\ Len(R) <= N /\ Len(R) \in Nat /\ R \in Seq(SUBSET Nat)
      /\ N > 0 => Len(R) > 0 /\ R[Len(R)] = KeysOf(top)
      /\ \A i \in DOMAIN d.tops : Len(d.tops) + 1 < N + i =>
           \E j \in DOMAIN R : R[j] = d.tops[i] /\ Len(R) + i = Len(d.tops) + 1 + j
  <2> DEFINE S == SUBSET Nat
             h == d.tops
             x == KeysOf(top)
  <2>1. Len(h) <= N /\ h \in Seq(S) /\ x \in S /\ N \in Nat
    BY <1>1
  <2> HIDE DEF S, h, x, N
  <2>2. /\ R \in Seq(S) /\ Len(R) <= N
        /\ N > 0 => Len(R) > 0 /\ R[Len(R)] = x
        /\ \A i \in DOMAIN h : Len(h) + 1 < N + i =>
             \E j \in DOMAIN R : R[j] = h[i] /\ Len(R) + i = Len(h) + 1 + j
    <3>1. R = Remember(h, x, N)
      BY DEF h, x
    <3> HIDE DEF R
    <3> QED
      BY <2>1, <3>1, RememberIs
  <2> QED
    BY <2>2 DEF S, h, x
<1> HIDE DEF new, top, keys, R, N
<1>5. Len(new.tops) <= N
  BY <1>1, <1>4 DEF N, R
<1>6. ASSUME NEW a \in told
      PROVE  Remembered(new, a)
  <2> SUFFICES ASSUME a.end + N >= new.next
               PROVE  \E i \in DOMAIN new.tops : a.what \in new.tops[i] /\ Len(new.tops) + a.end + 1 <= new.next + i
    BY DEF Remembered, N
  <2>1. PICK i \in DOMAIN d.tops : a.what \in d.tops[i] /\ Len(d.tops) + a.end + 1 <= d.next + i
    BY <1>1, <1>3 DEF Remembered, N
  <2>2. i \in Nat
    BY <1>1
  <2>3. CASE top = {}
    <3>1. new.tops = d.tops
      BY <1>1, <2>3
    <3>2. Len(new.tops) + a.end + 1 <= new.next + i
      <4>1. \A l, e, f, k \in Nat : l + e + 1 <= f + k => l + e + 1 <= (f + 1) + k
        OBVIOUS
      <4>2. Len(d.tops) \in Nat /\ a.end \in Nat /\ d.next \in Nat
        BY <1>1, <1>3
      <4>3. Len(d.tops) + a.end + 1 <= (d.next + 1) + i
        BY <2>1, <2>2, <4>1, <4>2
      <4> QED
        BY <1>1, <3>1, <4>3
    <3> QED
      BY <2>1, <3>1, <3>2
  <2>4. CASE top # {}
    <3>1. Len(d.tops) + 1 < N + i
      <4>1. \A l, e, f, k, n \in Nat : l + e + 1 <= f + k /\ e + n >= f + 1 => l + 1 < n + k
        OBVIOUS
      <4>2. Len(d.tops) \in Nat /\ a.end \in Nat /\ d.next \in Nat /\ N \in Nat
        BY <1>1, <1>3
      <4>3. a.end + N >= d.next + 1
        BY <1>1
      <4> QED
        BY <2>1, <2>2, <4>1, <4>2, <4>3
    <3>2. PICK j \in DOMAIN R : R[j] = d.tops[i] /\ Len(R) + i = Len(d.tops) + 1 + j
      BY <1>4, <3>1
    <3>3. new.tops = R /\ j \in Nat
      <4>1. new.tops = R
        BY <1>1, <2>4 DEF R
      <4>2. DOMAIN R = 1..Len(R)
        BY <1>4
      <4>3. j \in 1..Len(R) /\ Len(R) \in Nat
        BY <1>4, <3>2, <4>2
      <4> QED
        BY <4>1, <4>3
    <3>4. Len(R) + a.end + 1 <= new.next + j
      <4>1. \A r, l, e, f, k, p \in Nat :
              r + k = l + 1 + p /\ l + e + 1 <= f + k => r + e + 1 <= (f + 1) + p
        OBVIOUS
      <4>2. /\ Len(R) \in Nat /\ Len(d.tops) \in Nat /\ a.end \in Nat /\ d.next \in Nat
            /\ i \in Nat /\ j \in Nat
        BY <1>1, <1>3, <1>4, <2>2, <3>3
      <4>3. Len(R) + a.end + 1 <= (d.next + 1) + j
        BY <2>1, <3>2, <4>1, <4>2
      <4> QED
        BY <1>1, <4>3
    <3> QED
      BY <2>1, <3>2, <3>3, <3>4
  <2> QED
    BY <2>3, <2>4
<1>7. ASSUME NEW x \in keys
      PROVE  Remembered(new, x)
  <2> SUFFICES ASSUME x.end + N >= new.next
               PROVE  \E i \in DOMAIN new.tops : x.what \in new.tops[i] /\ Len(new.tops) + x.end + 1 <= new.next + i
    BY DEF Remembered, N
  <2>1. N > 0
    BY <1>1, <1>2
  <2>2. x.what \in KeysOf(top)
    BY <1>2 DEF NewKeys
  <2>3. top # {}
    BY <2>2 DEF KeysOf
  <2>4. new.tops = R /\ Len(R) > 0 /\ R[Len(R)] = KeysOf(top)
    BY <1>1, <1>4, <2>1, <2>3 DEF R
  <2>5. Len(R) \in DOMAIN R /\ Len(R) + x.end + 1 <= new.next + Len(R)
    BY <1>1, <1>2, <1>4, <2>4
  <2> QED
    BY <2>2, <2>4, <2>5
<1>8. ASSUME NEW a \in told, NEW x \in keys, a.what = x.what
      PROVE  x.end > a.end + N
  <2> SUFFICES ASSUME a.end + N >= d.next PROVE FALSE
    BY <1>1, <1>2, <1>3
  <2>1. PICK i \in DOMAIN d.tops : a.what \in d.tops[i]
    BY <1>3 DEF Remembered, N
  <2> QED
    BY <1>2, <1>8, <2>1 DEF NewKeys
<1>9. KeysTold(told, new)
  <2>1. \A a \in told : a.end < new.next
    BY <1>1, <1>3
  <2> QED
    BY <1>6, <2>1 DEF KeysTold
<1>10. KeysTold(told \cup keys, new)
  <2>1. \A x \in keys : x.end < new.next
    BY <1>1, <1>2
  <2>2. ASSUME NEW a \in told \cup keys, NEW b \in told \cup keys, a.what = b.what, a.end < b.end
        PROVE  b.end > a.end + NoveltyWindows
    <3>1. CASE a \in told /\ b \in told
      BY <2>2, <3>1 DEF KeysTold
    <3>2. CASE a \in told /\ b \in keys
      BY <1>8, <2>2, <3>2 DEF N
    <3>3. CASE a \in keys
      BY <1>1, <1>2, <1>3, <2>2, <3>3
    <3> QED
      BY <2>2, <3>1, <3>2, <3>3
  <2> QED
    BY <1>6, <1>7, <1>9, <2>1, <2>2 DEF KeysTold
<1>11. told \cup keys \in SUBSET [end : Nat, what : Nat]
  BY <1>2
<1> QED
  BY <1>5, <1>9, <1>10, <1>11 DEF new, keys, top, N

DetectorInv ==
  /\ detectors \in [Methods -> DetectorType] /\ events \in [Methods -> EventType]
  /\ \A m \in Methods : /\ Len(detectors[m].tops) <= NoveltyWindows
                        /\ KeysTold(events[m].novelty, detectors[m])
  /\ \A m \in Methods \ silent : /\ DriftTold(events[m].drift, detectors[m].drifting)
                                 /\ ClassTold(events[m].class, detectors[m].state)

LEMMA DetectorInit == Init => DetectorInv
<1> SUFFICES ASSUME Init PROVE DetectorInv
  OBVIOUS
<1> DEFINE none == [drift |-> <<>>, class |-> <<>>, novelty |-> {}]
<1>1. Fresh \in DetectorType /\ none \in EventType
  BY DEF Fresh, DetectorType, EventType, States
<1>2. /\ \A m \in Methods : detectors[m] = Fresh /\ events[m] = none
      /\ detectors \in [Methods -> DetectorType] /\ events \in [Methods -> EventType]
  BY <1>1 DEF Init
<1>3. Len(Fresh.tops) <= NoveltyWindows
  BY AnswersAssumption DEF AnswersAssumption, Fresh
<1>4. KeysTold(none.novelty, Fresh)
  BY DEF KeysTold
<1>5. DriftTold(none.drift, Fresh.drifting)
  <2>1. none.drift = <<>> /\ Fresh.drifting = FALSE
    BY DEF Fresh
  <2>2. Len(<<>>) % 2 # 1 /\ DOMAIN <<>> = {}
    OBVIOUS
  <2> HIDE DEF none
  <2> QED
    BY <2>1, <2>2 DEF DriftTold
<1>6. ClassTold(none.class, Fresh.state)
  BY DEF ClassTold, Fresh
<1> HIDE DEF none
<1> QED
  BY <1>2, <1>3, <1>4, <1>5, <1>6 DEF DetectorInv

\* What an answered window does: the events are told, or are lost.
LEMMA AnswerDoes ==
  ASSUME DetectorInv, NEW m \in Methods, NEW w \in Windows, Answer(m, w)
  PROVE  /\ detectors' = [detectors EXCEPT ![m] = After(detectors[m], w)]
         /\ \/ /\ events' = [events EXCEPT ![m] =
                               Told(events[m], detectors[m], Observed(detectors[m], w), w)]
               /\ silent' = silent
            \/ events' = events /\ silent' = silent \cup {m}
<1>1. detectors' = [detectors EXCEPT ![m] = After(detectors[m], w)]
  BY DEF Answer, After
<1>2. Sent(m, detectors[m].next, w, Told(events[m], detectors[m], Observed(detectors[m], w), w))
  BY DEF Answer
<1>3. \/ /\ SendEvents(m, Told(events[m], detectors[m], Observed(detectors[m], w), w))
         /\ silent' = silent
      \/ events' = events /\ silent' = silent \cup {m}
  BY <1>2 DEF Sent
<1> QED
  BY <1>1, <1>3 DEF SendEvents

LEMMA DetectorAnswers ==
  ASSUME DetectorInv, NEW m \in Methods, NEW w \in Windows, Answer(m, w)
  PROVE  DetectorInv'
<1> DEFINE d == detectors[m]
           new == After(d, w)
           o == Observed(d, w)
           told == events[m]
           keys == {Event(d.next, key) : key \in NewKeys(d, TopK(w.counts))}
<1>1. /\ d \in DetectorType /\ told \in EventType
      /\ Len(d.tops) <= NoveltyWindows /\ KeysTold(told.novelty, d)
      /\ m \notin silent => DriftTold(told.drift, d.drifting) /\ ClassTold(told.class, d.state)
  BY DEF DetectorInv
<1>2. new \in DetectorType /\ new.drifting = o.drifting /\ new.state = o.state
  BY <1>1, AfterIs
<1>3. /\ Len(new.tops) <= NoveltyWindows
      /\ told.novelty \cup keys \in SUBSET [end : Nat, what : Nat]
      /\ KeysTold(told.novelty \cup keys, new)
      /\ KeysTold(told.novelty, new)
  <2>1. told.novelty \in SUBSET [end : Nat, what : Nat]
    BY <1>1 DEF EventType
  <2> QED
    BY <1>1, <2>1, KeysGoOn
<1> DEFINE next == Told(told, d, o, w)
<1>4. /\ next.drift = told.drift \o DriftEvents(d, new, d.next)
      /\ next.class = told.class \o CardinalityEvents(d, new, d.next)
      /\ next.novelty = told.novelty \cup keys
      /\ next = [drift |-> next.drift, class |-> next.class, novelty |-> next.novelty]
  <2> HIDE DEF new, o
  <2> QED
    BY <1>2 DEF Told, DriftEvents, CardinalityEvents
<1>5. m \notin silent => DriftTold(next.drift, new.drifting) /\ ClassTold(next.class, new.state)
  <2> HIDE DEF next, new, d, told
  <2> QED
    BY <1>1, <1>2, <1>4, DriftGoesOn, ClassGoesOn DEF EventType
<1>6. next \in EventType
  <2>1. next.drift \in Seq([end : Nat, what : BOOLEAN])
    <3>1. DriftEvents(d, new, d.next) \in Seq([end : Nat, what : BOOLEAN])
      <4>1. d.next \in Nat /\ new.drifting \in BOOLEAN
        BY <1>1, <1>2 DEF DetectorType
      <4>2. Event(d.next, new.drifting) \in [end : Nat, what : BOOLEAN]
        BY <4>1 DEF Event
      <4> DEFINE e == Event(d.next, new.drifting)
      <4> HIDE DEF d, new, e
      <4>3. <<e>> \in Seq([end : Nat, what : BOOLEAN]) /\ <<>> \in Seq([end : Nat, what : BOOLEAN])
        BY <4>2 DEF e
      <4> QED
        BY <4>3 DEF DriftEvents, e
    <3>2. told.drift \in Seq([end : Nat, what : BOOLEAN])
      BY <1>1 DEF EventType
    <3> HIDE DEF next, told, d, new
    <3> QED
      BY <1>4, <3>1, <3>2
  <2>2. next.class \in Seq([end : Nat, what : States])
    <3>1. CardinalityEvents(d, new, d.next) \in Seq([end : Nat, what : States])
      <4>1. d.next \in Nat /\ new.state \in States
        BY <1>1, <1>2 DEF DetectorType
      <4>2. Event(d.next, new.state) \in [end : Nat, what : States]
        BY <4>1 DEF Event
      <4> DEFINE e == Event(d.next, new.state)
      <4> HIDE DEF d, new, e
      <4>3. <<e>> \in Seq([end : Nat, what : States]) /\ <<>> \in Seq([end : Nat, what : States])
        BY <4>2 DEF e
      <4> QED
        BY <4>3 DEF CardinalityEvents, e
    <3>2. told.class \in Seq([end : Nat, what : States])
      BY <1>1 DEF EventType
    <3> HIDE DEF next, told, d, new
    <3> QED
      BY <1>4, <3>1, <3>2
  <2> HIDE DEF next, keys, told
  <2> QED
    BY <1>3, <1>4, <2>1, <2>2 DEF EventType
<1> HIDE DEF d, new, o, told, keys, next
<1>7. detectors' = [detectors EXCEPT ![m] = new]
  BY AnswerDoes DEF new, d
<1>8. \/ events' = [events EXCEPT ![m] = next] /\ silent' = silent
      \/ events' = events /\ silent' = silent \cup {m}
  BY AnswerDoes DEF next, told, d, o
<1>9. CASE events' = [events EXCEPT ![m] = next] /\ silent' = silent
  <2>1. events'[m] = next /\ detectors'[m] = new
    BY <1>7, <1>9 DEF DetectorInv
  <2>2. \A n \in Methods \ {m} : events'[n] = events[n] /\ detectors'[n] = detectors[n]
    BY <1>7, <1>9 DEF DetectorInv
  <2>3. detectors' \in [Methods -> DetectorType] /\ events' \in [Methods -> EventType]
    BY <1>2, <1>6, <1>7, <1>9 DEF DetectorInv
  <2>4. KeysTold(next.novelty, new)
    BY <1>3, <1>4
  <2> QED
    BY <1>3, <1>5, <1>9, <2>1, <2>2, <2>3, <2>4 DEF DetectorInv
<1>10. CASE events' = events /\ silent' = silent \cup {m}
  <2>1. events'[m] = told /\ detectors'[m] = new
    BY <1>7, <1>10 DEF DetectorInv, told
  <2>2. \A n \in Methods \ {m} : events'[n] = events[n] /\ detectors'[n] = detectors[n]
    BY <1>7, <1>10 DEF DetectorInv
  <2>3. detectors' \in [Methods -> DetectorType] /\ events' \in [Methods -> EventType]
    BY <1>2, <1>7, <1>10 DEF DetectorInv
  <2> QED
    BY <1>3, <1>10, <2>1, <2>2, <2>3 DEF DetectorInv
<1> QED
  BY <1>8, <1>9, <1>10

LEMMA DetectorMisses ==
  ASSUME DetectorInv, NEW m \in Methods, Miss(m)
  PROVE  DetectorInv'
<1> DEFINE d == detectors[m]
           new == [d EXCEPT !.next = @ + 1]
<1>1. d \in DetectorType /\ KeysTold(events[m].novelty, d) /\ events[m] \in EventType
  BY DEF DetectorInv
<1>2. /\ new \in DetectorType /\ new.next = d.next + 1
      /\ new.drifting = d.drifting /\ new.state = d.state /\ new.tops = d.tops
  BY <1>1, MovedOn
<1>3. detectors' = [detectors EXCEPT ![m] = new] /\ events' = events /\ silent' = silent
  BY DEF Miss, DetectorInv
<1> HIDE DEF new
<1>4. KeysTold(events[m].novelty, new)
  <2>1. d.next \in Nat /\ d.tops \in Seq(SUBSET Nat) /\ NoveltyWindows \in Nat
    BY <1>1, AnswersAssumption DEF DetectorType, AnswersAssumption
  <2>2. \A a \in events[m].novelty : a.end \in Nat
    BY <1>1 DEF EventType
  <2>3. ASSUME NEW a \in events[m].novelty
        PROVE  a.end < new.next /\ Remembered(new, a)
    <3>1. a.end < d.next /\ Remembered(d, a) /\ a.end \in Nat
      BY <1>1, <2>2 DEF KeysTold
    <3>2. ASSUME a.end + NoveltyWindows >= new.next
          PROVE  \E i \in DOMAIN new.tops : a.what \in new.tops[i] /\ Len(new.tops) + a.end + 1 <= new.next + i
      <4>1. a.end + NoveltyWindows >= d.next
        BY <1>2, <2>1, <3>1, <3>2
      <4>2. PICK i \in DOMAIN d.tops : a.what \in d.tops[i] /\ Len(d.tops) + a.end + 1 <= d.next + i
        BY <3>1, <4>1 DEF Remembered
      <4>3. i \in Nat /\ Len(d.tops) \in Nat
        BY <2>1
      <4> HIDE DEF d
      <4>4. Len(new.tops) + a.end + 1 <= new.next + i
        BY <1>2, <2>1, <3>1, <4>2, <4>3
      <4> QED
        BY <1>2, <4>2, <4>4
    <3>3. a.end < new.next
      BY <1>2, <2>1, <3>1
    <3> QED
      BY <3>2, <3>3 DEF Remembered
  <2> QED
    BY <1>1, <2>3 DEF KeysTold
<1>5. detectors'[m] = new /\ \A n \in Methods \ {m} : detectors'[n] = detectors[n]
  BY <1>3 DEF DetectorInv
<1>6. detectors' \in [Methods -> DetectorType]
  BY <1>2, <1>3 DEF DetectorInv
<1> QED
  BY <1>2, <1>3, <1>4, <1>5, <1>6 DEF DetectorInv

LEMMA DetectorNext == DetectorInv /\ [Next]_vars => DetectorInv'
<1> SUFFICES ASSUME DetectorInv, [Next]_vars PROVE DetectorInv'
  OBVIOUS
<1>1. ASSUME UNCHANGED <<detectors, events, silent>>
      PROVE  DetectorInv'
  BY <1>1 DEF DetectorInv
<1>2. ASSUME NEW content \in Contents, Feed(content)
      PROVE  DetectorInv'
  BY <1>1, <1>2 DEF Feed
<1>3. ASSUME NEW m \in Methods, Arrive(m)
      PROVE  DetectorInv'
  BY <1>1, <1>3 DEF Arrive
<1>4. CASE UNCHANGED vars
  BY <1>1, <1>4 DEF vars
<1> QED
  BY <1>2, <1>3, <1>4, DetectorAnswers, DetectorMisses DEF Next

\* What has been told of a series is what its tracker holds, unless events were lost;
\* and a key is told anew only when the windows with it are forgotten.
THEOREM TellsState == Spec => []EventsTellState
<1>1. DetectorInv => EventsTellState
  <2> SUFFICES ASSUME DetectorInv, NEW m \in Methods
               PROVE  LET drifts == events[m].drift
                          classes == events[m].class
                          keys == events[m].novelty
                      IN /\ m \notin silent =>
                              /\ \A i \in DOMAIN drifts : drifts[i].what = (i % 2 = 1)
                              /\ detectors[m].drifting = (Len(drifts) % 2 = 1)
                              /\ \A i \in 2..Len(classes) : classes[i].what # classes[i - 1].what
                              /\ detectors[m].state = IF classes = <<>> THEN "none"
                                                      ELSE classes[Len(classes)].what
                         /\ \A a, b \in keys :
                              a.what = b.what /\ a.end < b.end => b.end > a.end + NoveltyWindows
    BY DEF EventsTellState
  <2>1. KeysTold(events[m].novelty, detectors[m])
    BY DEF DetectorInv
  <2>2. m \notin silent => /\ DriftTold(events[m].drift, detectors[m].drifting)
                           /\ ClassTold(events[m].class, detectors[m].state)
    BY DEF DetectorInv
  <2> QED
    BY <2>1, <2>2 DEF KeysTold, DriftTold, ClassTold
<1> QED
  BY <1>1, DetectorInit, DetectorNext, PTL DEF Spec

-----------------------------------------------------------------------------
(* The messages on their way.                                              *)

RankedType == [rank : Nat, key : Nat, count : Nat]

AnswerType == [end : Nat, series : Nat, points : Nat, top : SUBSET RankedType]

AnsweredType == [end : Nat, method : Methods, window : Windows]

TopOf(window, series) == IF series = CountSeries THEN TopK(window.counts) ELSE {}

LEMMA MessageIs ==
  ASSUME NEW e \in Nat, NEW w \in Windows
  PROVE  /\ AnswersOf(e, w) \subseteq AnswerType
         /\ \A x \in AnswersOf(e, w) : x.end = e /\ x.points = w.points /\ x.top = TopOf(w, x.series)
         /\ \A x, y \in AnswersOf(e, w) : x.series = y.series => x = y
         /\ \E x \in AnswersOf(e, w) : x.series = CountSeries
<1>1. /\ w.points \in Nat /\ TopK(w.counts) \subseteq RankedType
      /\ ValueSeries \subseteq Nat \ {0}
  BY WindowIs, TopIs, AnswersAssumption DEF AnswersAssumption, RankedType
<1> DEFINE value(s) == [end |-> e, series |-> s, points |-> w.points, top |-> {}]
           counts == [end |-> e, series |-> CountSeries, points |-> w.points, top |-> TopK(w.counts)]
<1>2. AnswersOf(e, w) = {value(s) : s \in ValueSeries} \cup {counts}
  BY DEF AnswersOf
<1>3. ASSUME NEW s \in ValueSeries
      PROVE  /\ value(s) \in AnswerType /\ value(s).series = s /\ s # CountSeries
             /\ value(s).end = e /\ value(s).points = w.points /\ value(s).top = TopOf(w, s)
  BY <1>1 DEF AnswerType, TopOf, CountSeries
<1>4. /\ counts \in AnswerType /\ counts.series = CountSeries
      /\ counts.end = e /\ counts.points = w.points /\ counts.top = TopOf(w, CountSeries)
  BY <1>1 DEF AnswerType, TopOf, CountSeries
<1>5. \A x \in AnswersOf(e, w) :
        \/ \E s \in ValueSeries : x = value(s)
        \/ x = counts
  BY <1>2
<1> HIDE DEF value, counts
<1>6. \A x \in AnswersOf(e, w) :
        x \in AnswerType /\ x.end = e /\ x.points = w.points /\ x.top = TopOf(w, x.series)
  BY <1>3, <1>4, <1>5
<1>7. \A x, y \in AnswersOf(e, w) : x.series = y.series => x = y
  BY <1>3, <1>4, <1>5
<1>8. counts \in AnswersOf(e, w)
  BY <1>2
<1> QED
  BY <1>4, <1>6, <1>7, <1>8

\* The i-th message of a method is of an answered window of which none was read.
Pending(m, i) ==
  \E a \in answered : /\ a.method = m /\ <<a.end, m>> \notin read
                      /\ answers[m][i] = AnswersOf(a.end, a.window)

QueueInv ==
  /\ truth \in Seq(Contents) /\ answered \subseteq AnsweredType
  /\ \A m \in Methods : detectors[m].next > 0
  /\ \A a \in answered : /\ a.end \in DOMAIN truth /\ a.end < detectors[a.method].next
                         /\ a.method = "exact" => a.window = truth[a.end]
  /\ answers \in [Methods -> Seq(SUBSET AnswerType)]
  /\ \A m \in Methods : \A i \in DOMAIN answers[m] : Pending(m, i)
  /\ \A m \in Methods : \A i, j \in DOMAIN answers[m] : i # j =>
       \A x \in answers[m][i], y \in answers[m][j] : x.end # y.end
  /\ read \subseteq Nat \X Methods
  /\ \A e \in Nat, m \in Methods : <<e, m>> \in read => e < detectors[m].next

LEMMA QueueInit == Init => QueueInv
<1> SUFFICES ASSUME Init PROVE QueueInv
  OBVIOUS
<1>1. answers \in [Methods -> Seq(SUBSET AnswerType)] /\ \A m \in Methods : DOMAIN answers[m] = {}
  BY DEF Init
<1>2. \A m \in Methods : detectors[m].next > 0
  BY DEF Init, Fresh
<1>3. truth \in Seq(Contents) /\ answered = {} /\ read = {}
  BY DEF Init
<1> QED
  BY <1>1, <1>2, <1>3 DEF QueueInv

\* A detector answers its next window, which is before none it has answered.
LEMMA QueueAnswers ==
  ASSUME DetectorInv, QueueInv, NEW m \in Methods, NEW w \in Windows, Answer(m, w)
  PROVE  QueueInv'
<1> DEFINE e == detectors[m].next
           a == [end |-> e, method |-> m, window |-> w]
           message == AnswersOf(e, w)
<1>1. e \in Nat /\ e \in DOMAIN truth /\ (m = "exact" => w = truth[e])
  <2>1. e \in Nat /\ e > 0
    BY DEF DetectorInv, DetectorType, QueueInv
  <2>2. e <= Len(truth) /\ w \in Seen(m, e)
    BY DEF Answer
  <2>3. DOMAIN truth = 1..Len(truth) /\ Len(truth) \in Nat
    BY DEF QueueInv
  <2> QED
    BY <2>1, <2>2, <2>3 DEF Seen
<1>2. \A n \in Methods : detectors[n].next \in Nat
  BY DEF DetectorInv, DetectorType
<1>3. detectors'[m].next = e + 1 /\ \A n \in Methods \ {m} : detectors'[n] = detectors[n]
  <2>1. detectors' = [detectors EXCEPT ![m] = After(detectors[m], w)]
    BY AnswerDoes
  <2>2. After(detectors[m], w).next = e + 1
    BY AfterIs DEF DetectorInv
  <2> QED
    BY <2>1, <2>2 DEF DetectorInv
<1>4. \A n \in Methods : detectors'[n].next >= detectors[n].next /\ detectors'[n].next \in Nat
  BY <1>2, <1>3
<1>5. truth' = truth /\ read' = read
  BY DEF Answer
<1>6. \/ answers' = answers /\ answered' = answered
      \/ answers' = [answers EXCEPT ![m] = Append(@, message)] /\ answered' = answered \cup {a}
  BY DEF Answer, Sent, SendAnswers
<1>7. a \in AnsweredType /\ message \in SUBSET AnswerType /\ \A x \in message : x.end = e
  <2>1. a \in AnsweredType
    BY <1>1 DEF AnsweredType
  <2> HIDE DEF e
  <2>2. message \subseteq AnswerType /\ \A x \in message : x.end = e
    BY <1>1, MessageIs
  <2> QED
    BY <2>1, <2>2
<1>8. <<e, m>> \notin read
  <2>1. <<e, m>> \in read => e < e
    BY <1>1 DEF QueueInv
  <2> QED
    BY <1>1, <2>1
<1> HIDE DEF message
<1>9. ASSUME NEW b \in answered'
      PROVE  /\ b \in AnsweredType /\ b.end \in DOMAIN truth /\ b.end < detectors'[b.method].next
             /\ b.method = "exact" => b.window = truth[b.end]
  <2>1. CASE b \in answered
    <3>1. b \in AnsweredType /\ b.end < detectors[b.method].next
      BY <2>1 DEF QueueInv
    <3>2. b.method \in Methods /\ b.end \in Nat
      BY <3>1 DEF AnsweredType
    <3>3. b.end < detectors'[b.method].next
      BY <1>2, <1>4, <3>1, <3>2
    <3> QED
      BY <2>1, <3>1, <3>3 DEF QueueInv
  <2>2. CASE b = a
    BY <1>1, <1>3, <1>7, <2>2
  <2> QED
    BY <1>6, <2>1, <2>2
<1>10. ASSUME NEW n \in Methods
       PROVE  detectors'[n].next > 0
  <2>1. detectors[n].next > 0
    BY DEF QueueInv
  <2>2. detectors'[n].next >= detectors[n].next /\ detectors[n].next \in Nat /\ detectors'[n].next \in Nat
    BY <1>2, <1>4
  <2> HIDE DEF e
  <2> QED
    BY <2>1, <2>2
<1>11. \A k \in Nat, n \in Methods : <<k, n>> \in read' => k < detectors'[n].next
  <2> SUFFICES ASSUME NEW k \in Nat, NEW n \in Methods, <<k, n>> \in read
               PROVE  k < detectors'[n].next
    BY <1>5
  <2>1. k < detectors[n].next
    BY DEF QueueInv
  <2>2. detectors'[n].next >= detectors[n].next /\ detectors[n].next \in Nat /\ detectors'[n].next \in Nat
    BY <1>2, <1>4
  <2> HIDE DEF e
  <2> QED
    BY <2>1, <2>2
<1>12. CASE answers' = answers /\ answered' = answered
  <2>1. \A n \in Methods : \A i \in DOMAIN answers'[n] : Pending(n, i)'
    BY <1>5, <1>12 DEF QueueInv, Pending
  <2>2. /\ answers' \in [Methods -> Seq(SUBSET AnswerType)]
        /\ \A n \in Methods : \A i, j \in DOMAIN answers'[n] : i # j =>
             \A x \in answers'[n][i], y \in answers'[n][j] : x.end # y.end
        /\ truth' \in Seq(Contents) /\ read' \subseteq Nat \X Methods
    BY <1>5, <1>12 DEF QueueInv
  <2>3. answered' \subseteq AnsweredType
    BY <1>9
  <2>4. \A b \in answered' : /\ b.end \in DOMAIN truth' /\ b.end < detectors'[b.method].next
                             /\ b.method = "exact" => b.window = truth'[b.end]
    BY <1>5, <1>9
  <2> HIDE DEF a, e
  <2> QED
    BY <1>10, <1>11, <2>1, <2>2, <2>3, <2>4 DEF QueueInv
<1>13. CASE answers' = [answers EXCEPT ![m] = Append(@, message)] /\ answered' = answered \cup {a}
  <2> DEFINE q == answers[m]
  <2>1. q \in Seq(SUBSET AnswerType) /\ answers \in [Methods -> Seq(SUBSET AnswerType)]
    BY DEF QueueInv
  <2>2. answers'[m] = Append(q, message) /\ \A n \in Methods \ {m} : answers'[n] = answers[n]
    BY <1>13, <2>1
  <2>3. /\ Append(q, message) \in Seq(SUBSET AnswerType)
        /\ DOMAIN Append(q, message) = 1..(Len(q) + 1) /\ Len(q) \in Nat
        /\ \A i \in 1..Len(q) : Append(q, message)[i] = q[i] /\ i \in DOMAIN q
        /\ Append(q, message)[Len(q) + 1] = message
    BY <1>7, <2>1
  <2>4. answers' \in [Methods -> Seq(SUBSET AnswerType)]
    BY <1>13, <2>1, <2>3
  <2>5. ASSUME NEW n \in Methods, NEW i \in DOMAIN answers'[n]
        PROVE  Pending(n, i)'
    <3>1. CASE n = m /\ i = Len(q) + 1
      <4>1. answers'[n][i] = AnswersOf(a.end, a.window)
        BY <2>2, <2>3, <3>1 DEF message
      <4>2. a \in answered' /\ a.method = n /\ <<a.end, n>> \notin read'
        BY <1>5, <1>8, <1>13, <3>1
      <4> QED
        BY <4>1, <4>2 DEF Pending
    <3>2. CASE ~(n = m /\ i = Len(q) + 1)
      <4>1. i \in DOMAIN answers[n] /\ answers'[n][i] = answers[n][i]
        <5>1. CASE n # m
          BY <2>2, <5>1
        <5>2. CASE n = m
          <6>1. i \in 1..Len(q)
            BY <2>2, <2>3, <3>2, <5>2
          <6> QED
            BY <2>2, <2>3, <5>2, <6>1
        <5> QED
          BY <5>1, <5>2
      <4>2. Pending(n, i)
        BY <4>1 DEF QueueInv
      <4> QED
        BY <1>5, <1>13, <4>1, <4>2 DEF Pending
    <3> QED
      BY <3>1, <3>2
  <2>6. ASSUME NEW i \in 1..Len(q), NEW x \in q[i]
        PROVE  x.end # e
    <3>1. Pending(m, i)
      BY <2>3 DEF QueueInv
    <3>2. PICK b \in answered : b.method = m /\ q[i] = AnswersOf(b.end, b.window)
      BY <3>1 DEF Pending
    <3>3. b.end \in Nat /\ b.window \in Windows /\ b.end < e
      BY <3>2 DEF QueueInv, AnsweredType
    <3>4. x.end = b.end
      BY <3>2, <3>3, MessageIs
    <3> QED
      BY <1>1, <3>3, <3>4
  <2>7. ASSUME NEW n \in Methods, NEW i \in DOMAIN answers'[n], NEW j \in DOMAIN answers'[n], i # j,
               NEW x \in answers'[n][i], NEW y \in answers'[n][j]
        PROVE  x.end # y.end
    <3>1. CASE n # m
      BY <2>2, <2>7, <3>1 DEF QueueInv
    <3>2. CASE n = m
      <4>1. i \in 1..(Len(q) + 1) /\ j \in 1..(Len(q) + 1)
        BY <2>2, <2>3, <3>2
      <4>2. CASE i \in 1..Len(q) /\ j \in 1..Len(q)
        <5>1. x \in answers[m][i] /\ y \in answers[m][j] /\ i \in DOMAIN answers[m] /\ j \in DOMAIN answers[m]
          BY <2>2, <2>3, <3>2, <4>2
        <5> QED
          BY <2>7, <5>1 DEF QueueInv
      <4>3. CASE i = Len(q) + 1
        <5>1. j \in 1..Len(q)
          BY <2>3, <2>7, <4>1, <4>3
        <5>2. x.end = e /\ y \in q[j]
          BY <1>7, <2>2, <2>3, <3>2, <4>3, <5>1
        <5> QED
          BY <2>6, <5>1, <5>2
      <4>4. CASE j = Len(q) + 1
        <5>1. i \in 1..Len(q)
          BY <2>3, <2>7, <4>1, <4>4
        <5>2. y.end = e /\ x \in q[i]
          BY <1>7, <2>2, <2>3, <3>2, <4>4, <5>1
        <5> QED
          BY <2>6, <5>1, <5>2
      <4> QED
        BY <2>3, <4>1, <4>2, <4>3, <4>4
    <3> QED
      BY <3>1, <3>2
  <2> HIDE DEF a, e
  <2> QED
    BY <1>5, <1>9, <1>10, <1>11, <2>4, <2>5, <2>7 DEF QueueInv
<1> QED
  BY <1>6, <1>12, <1>13

LEMMA QueueMisses ==
  ASSUME DetectorInv, QueueInv, NEW m \in Methods, Miss(m)
  PROVE  QueueInv'
<1>1. \A n \in Methods : detectors[n].next \in Nat /\ detectors[n].next > 0
  BY DEF DetectorInv, DetectorType, QueueInv
<1>2. \A n \in Methods : detectors'[n].next = IF n = m THEN detectors[n].next + 1 ELSE detectors[n].next
  <2> DEFINE d == detectors[m]
             new == [d EXCEPT !.next = @ + 1]
  <2>1. detectors' = [detectors EXCEPT ![m] = new]
    BY DEF Miss, DetectorInv
  <2>2. detectors'[m] = [d EXCEPT !.next = @ + 1]
    BY <2>1 DEF DetectorInv
  <2>3. detectors'[m].next = detectors[m].next + 1
    <3>1. detectors[m] \in DetectorType
      BY DEF DetectorInv
    <3> QED
      BY <2>2, <3>1, MovedOn
  <2>4. \A n \in Methods : n # m => detectors'[n] = detectors[n]
    BY <2>1 DEF DetectorInv
  <2> QED
    BY <2>3, <2>4
<1>3. \A n \in Methods : \A e \in Nat : e < detectors[n].next => e < detectors'[n].next
  BY <1>1, <1>2
<1>4. \A n \in Methods : detectors'[n].next > 0
  BY <1>1, <1>2
<1>5. UNCHANGED <<truth, answers, answered, read>>
  BY DEF Miss
<1>6. ASSUME NEW a \in answered
      PROVE  a.end < detectors'[a.method].next
  <2>1. a.end \in Nat /\ a.method \in Methods /\ a.end < detectors[a.method].next
    BY DEF QueueInv, AnsweredType
  <2> QED
    BY <1>3, <2>1
<1>7. \A n \in Methods : \A i \in DOMAIN answers'[n] : Pending(n, i)'
  BY <1>5 DEF QueueInv, Pending
<1>8. \A e \in Nat, n \in Methods : <<e, n>> \in read => e < detectors'[n].next
  BY <1>3 DEF QueueInv
<1> QED
  BY <1>4, <1>5, <1>6, <1>7, <1>8 DEF QueueInv

LEMMA QueueFeeds ==
  ASSUME QueueInv, NEW content \in Contents, Feed(content)
  PROVE  QueueInv'
<1>1. /\ truth' \in Seq(Contents)
      /\ \A e \in DOMAIN truth : truth'[e] = truth[e] /\ e \in DOMAIN truth'
  BY DEF Feed, QueueInv
<1>2. UNCHANGED <<detectors, answers, answered, read>>
  BY DEF Feed
<1>3. \A n \in Methods : \A i \in DOMAIN answers'[n] : Pending(n, i)'
  BY <1>2 DEF QueueInv, Pending
<1> QED
  BY <1>1, <1>2, <1>3 DEF QueueInv

\* The message that arrives, and what is left.
LEMMA MessageArrives ==
  ASSUME QueueInv, NEW m \in Methods, Arrive(m)
  PROVE  \E a \in answered :
           /\ a.method = m /\ a.end \in Nat /\ a.window \in Windows /\ <<a.end, m>> \notin read
           /\ Head(answers[m]) = AnswersOf(a.end, a.window)
           /\ read' = read \cup {<<a.end, m>>}
<1> DEFINE q == answers[m]
<1>1. q \in Seq(SUBSET AnswerType) /\ q # <<>>
  BY DEF QueueInv, Arrive
<1>2. 1 \in DOMAIN q /\ Head(q) = q[1]
  BY <1>1
<1>3. PICK a \in answered : /\ a.method = m /\ <<a.end, m>> \notin read
                            /\ q[1] = AnswersOf(a.end, a.window)
  BY <1>2 DEF QueueInv, Pending
<1>4. a.end \in Nat /\ a.window \in Windows
  BY <1>3 DEF QueueInv, AnsweredType
<1>5. read' = read \cup {<<x.end, m>> : x \in AnswersOf(a.end, a.window)}
  BY <1>2, <1>3 DEF Arrive
<1>6. {<<x.end, m>> : x \in AnswersOf(a.end, a.window)} = {<<a.end, m>>}
  BY <1>4, MessageIs
<1> QED
  BY <1>2, <1>3, <1>4, <1>5, <1>6

LEMMA QueueArrives ==
  ASSUME QueueInv, NEW m \in Methods, Arrive(m)
  PROVE  QueueInv'
<1> DEFINE q == answers[m]
<1>1. q \in Seq(SUBSET AnswerType) /\ q # <<>>
  BY DEF QueueInv, Arrive
<1>2. /\ Tail(q) \in Seq(SUBSET AnswerType)
      /\ \A i \in DOMAIN Tail(q) : i + 1 \in DOMAIN q /\ Tail(q)[i] = q[i + 1] /\ i \in Nat /\ i + 1 # 1
      /\ 1 \in DOMAIN q /\ Head(q) = q[1]
  BY <1>1
<1>3. /\ answers'[m] = Tail(q) /\ \A n \in Methods \ {m} : answers'[n] = answers[n]
      /\ answers' \in [Methods -> Seq(SUBSET AnswerType)]
  BY <1>2 DEF Arrive, QueueInv
<1>4. UNCHANGED <<truth, detectors, answered>>
  BY DEF Arrive
<1>5. PICK a \in answered :
        /\ a.method = m /\ a.end \in Nat /\ a.window \in Windows /\ <<a.end, m>> \notin read
        /\ Head(q) = AnswersOf(a.end, a.window)
        /\ read' = read \cup {<<a.end, m>>}
  BY MessageArrives
<1>6. PICK x \in AnswersOf(a.end, a.window) : x.end = a.end
  BY <1>5, MessageIs
<1> HIDE DEF q
<1>7. ASSUME NEW n \in Methods, NEW i \in DOMAIN answers'[n]
      PROVE  Pending(n, i)'
  <2>1. CASE n # m
    <3>1. PICK b \in answered : /\ b.method = n /\ <<b.end, n>> \notin read
                                /\ answers[n][i] = AnswersOf(b.end, b.window)
      BY <1>3, <2>1 DEF QueueInv, Pending
    <3>2. <<b.end, n>> \notin read'
      BY <1>5, <2>1, <3>1
    <3> QED
      BY <1>3, <1>4, <2>1, <3>1, <3>2 DEF Pending
  <2>2. CASE n = m
    <3>1. i + 1 \in DOMAIN q /\ answers'[n][i] = q[i + 1] /\ i + 1 # 1
      BY <1>2, <1>3, <2>2
    <3>2. PICK b \in answered : /\ b.method = m /\ <<b.end, m>> \notin read
                                /\ q[i + 1] = AnswersOf(b.end, b.window)
      BY <3>1 DEF QueueInv, Pending, q
    <3>3. b.end \in Nat /\ b.window \in Windows
      BY <3>2 DEF QueueInv, AnsweredType
    <3>4. PICK y \in AnswersOf(b.end, b.window) : y.end = b.end
      BY <3>3, MessageIs
    <3>5. \A u \in q[1], v \in q[i + 1] : u.end # v.end
      BY <1>2, <3>1 DEF QueueInv, q
    <3>6. b.end # a.end
      BY <1>2, <1>5, <1>6, <3>2, <3>4, <3>5
    <3>7. <<b.end, m>> \notin read'
      BY <1>5, <3>2, <3>6
    <3> QED
      BY <1>4, <2>2, <3>1, <3>2, <3>7 DEF Pending
  <2> QED
    BY <2>1, <2>2
<1>8. ASSUME NEW n \in Methods, NEW i \in DOMAIN answers'[n], NEW j \in DOMAIN answers'[n], i # j,
             NEW u \in answers'[n][i], NEW v \in answers'[n][j]
      PROVE  u.end # v.end
  <2>1. CASE n # m
    BY <1>3, <1>8, <2>1 DEF QueueInv
  <2>2. CASE n = m
    <3>1. /\ i + 1 \in DOMAIN q /\ j + 1 \in DOMAIN q /\ i + 1 # j + 1
          /\ u \in q[i + 1] /\ v \in q[j + 1]
      BY <1>2, <1>3, <1>8, <2>2
    <3> QED
      BY <3>1 DEF QueueInv, q
  <2> QED
    BY <2>1, <2>2
<1>9. read' \subseteq Nat \X Methods
  BY <1>5 DEF QueueInv
<1>10. ASSUME NEW e \in Nat, NEW n \in Methods, <<e, n>> \in read'
       PROVE  e < detectors[n].next
  <2>1. CASE <<e, n>> \in read
    BY <2>1 DEF QueueInv
  <2>2. CASE e = a.end /\ n = m
    BY <1>5, <2>2 DEF QueueInv
  <2> QED
    BY <1>5, <1>10, <2>1, <2>2
<1> QED
  BY <1>3, <1>4, <1>7, <1>8, <1>9, <1>10 DEF QueueInv

-----------------------------------------------------------------------------
(* The entries of heavy_hitter_accuracy.                                   *)

EntryType ==
  [end : Nat, series : Nat, by : [Methods -> [points : Nat, top : SUBSET RankedType]]]

Given(window, series) == [points |-> window.points, top |-> TopOf(window, series)]

\* What an entry holds of a method is what that method answered, once read.
Fits(x, have) ==
  /\ \E m \in Methods : <<x.end, m>> \in have
  /\ \A m \in Methods :
       \/ x.by[m] = NoAnswer
       \/ /\ <<x.end, m>> \in have
          /\ \E a \in answered : /\ a.end = x.end /\ a.method = m
                                 /\ x.by[m] = Given(a.window, x.series)

Apart(entries) == \A x, y \in entries : x.end = y.end /\ x.series = y.series => x = y

EntryInv ==
  /\ open \subseteq EntryType /\ Apart(open)
  /\ \A x \in open : Fits(x, read) /\ ~Both(x)

\* An entry that takes an answer.
Added(x, m, b) == [x EXCEPT !.by[m] = [points |-> b.points, top |-> @.top \cup b.top]]

LEMMA AddedIs ==
  ASSUME NEW x \in EntryType, NEW m \in Methods, NEW b \in AnswerType
  PROVE  /\ Added(x, m, b) \in EntryType
         /\ Added(x, m, b).end = x.end /\ Added(x, m, b).series = x.series
         /\ Added(x, m, b).by[m] = [points |-> b.points, top |-> x.by[m].top \cup b.top]
         /\ \A n \in Methods \ {m} : Added(x, m, b).by[n] = x.by[n]
<1> DEFINE given == [points |-> b.points, top |-> x.by[m].top \cup b.top]
           by == [x.by EXCEPT ![m] = given]
<1>1. x.by \in [Methods -> [points : Nat, top : SUBSET RankedType]]
  BY DEF EntryType
<1>2. given \in [points : Nat, top : SUBSET RankedType]
  <2>1. x.by[m].top \in SUBSET RankedType /\ b.top \in SUBSET RankedType /\ b.points \in Nat
    BY <1>1 DEF AnswerType
  <2> QED
    BY <2>1
<1>3. Added(x, m, b) = [x EXCEPT !.by = by]
  BY <1>1 DEF Added, EntryType
<1> HIDE DEF given
<1>4. /\ by \in [Methods -> [points : Nat, top : SUBSET RankedType]]
      /\ by[m] = given /\ \A n \in Methods \ {m} : by[n] = x.by[n]
  BY <1>1, <1>2
<1> HIDE DEF by
<1>5. /\ Added(x, m, b) \in EntryType /\ Added(x, m, b).by = by
      /\ Added(x, m, b).end = x.end /\ Added(x, m, b).series = x.series
  BY <1>3, <1>4 DEF EntryType
<1> QED
  BY <1>4, <1>5 DEF given

\* The entry that takes an answer of a window that was not read has none of its method.
LEMMA EntryIs ==
  ASSUME EntryInv, NEW m \in Methods, NEW b \in AnswerType, <<b.end, m>> \notin read
  PROVE  /\ EntryOf(open, b) \in EntryType
         /\ EntryOf(open, b).end = b.end /\ EntryOf(open, b).series = b.series
         /\ EntryOf(open, b).by[m] = NoAnswer
         /\ \/ EntryOf(open, b) \in open
            \/ \A n \in Methods : EntryOf(open, b).by[n] = NoAnswer
         /\ \A y \in open : y.end = b.end /\ y.series = b.series => y = EntryOf(open, b)
<1> DEFINE same == {x \in open : x.end = b.end /\ x.series = b.series}
           x == EntryOf(open, b)
<1>1. CASE same # {}
  <2>1. x \in same
    <3>1. x = CHOOSE y \in same : TRUE
      BY <1>1 DEF EntryOf
    <3> QED
      BY <1>1, <3>1
  <2>2. x \in open /\ x.end = b.end /\ x.series = b.series
    BY <2>1
  <2> HIDE DEF x, same
  <2>3. x.by[m] = NoAnswer
    BY <2>2 DEF EntryInv, Fits
  <2>4. \A y \in open : y.end = b.end /\ y.series = b.series => y = x
    BY <2>2 DEF EntryInv, Apart
  <2> QED
    BY <2>2, <2>3, <2>4 DEF EntryInv, x
<1>2. CASE same = {}
  <2> DEFINE fresh == [end |-> b.end, series |-> b.series, by |-> [n \in Methods |-> NoAnswer]]
  <2>1. x = fresh
    BY <1>2 DEF EntryOf
  <2>2. NoAnswer \in [points : Nat, top : SUBSET RankedType]
    BY DEF NoAnswer
  <2>3. b.end \in Nat /\ b.series \in Nat
    BY DEF AnswerType
  <2>4. fresh \in EntryType
    BY <2>2, <2>3 DEF EntryType
  <2>5. fresh.end = b.end /\ fresh.series = b.series /\ \A n \in Methods : fresh.by[n] = NoAnswer
    OBVIOUS
  <2> HIDE DEF x, fresh
  <2>6. \A y \in open : ~(y.end = b.end /\ y.series = b.series)
    BY <1>2
  <2> QED
    BY <2>1, <2>4, <2>5, <2>6 DEF x
<1> QED
  BY <1>1, <1>2

\* What heavy_hitter_accuracy has when a message has arrived.
Seemly(m, a, have, entries) ==
  /\ entries \subseteq EntryType /\ Apart(entries)
  /\ \A x \in entries : Fits(x, have)
  /\ \A x \in entries :
       \/ x \in open
       \/ /\ x.end = a.end
          /\ \A n \in Methods \ {m} :
               \/ x.by[n] = NoAnswer
               \/ \E y \in open : y.end = x.end /\ y.series = x.series /\ y.by[n] = x.by[n]
  /\ \E x \in entries : /\ x.end = a.end /\ x.series = CountSeries
                        /\ x.by[m] = Given(a.window, CountSeries)
  /\ \A y \in open :
       \E x \in entries : /\ x.end = y.end /\ x.series = y.series
                          /\ \A n \in Methods \ {m} : x.by[n] = y.by[n]
                          /\ y.end # a.end => x = y

LEMMA ObserveIs ==
  ASSUME EntryInv, QueueInv, NEW m \in Methods, NEW a \in answered, a.method = m,
         <<a.end, m>> \notin read
  PROVE  Seemly(m, a, read \cup {<<a.end, m>>}, Observe(open, m, AnswersOf(a.end, a.window)))
<1> DEFINE message == AnswersOf(a.end, a.window)
           entries == Observe(open, m, message)
           have == read \cup {<<a.end, m>>}
           New(b) == Added(EntryOf(open, b), m, b)
           old == {x \in open : \A b \in message : x.end # b.end \/ x.series # b.series}
<1>1. a.end \in Nat /\ a.window \in Windows
  BY DEF QueueInv, AnsweredType
<1>2. /\ \A b \in message : b \in AnswerType /\ b.end = a.end /\ b.points = a.window.points
                            /\ b.top = TopOf(a.window, b.series)
      /\ \A b, c \in message : b.series = c.series => b = c
      /\ \E b \in message : b.series = CountSeries
  BY <1>1, MessageIs
<1>3. entries = old \cup {New(b) : b \in message}
  BY DEF Observe, Added
<1> HIDE DEF message, entries, New, old
<1>4. ASSUME NEW b \in message
      PROVE  /\ New(b) \in EntryType /\ New(b).end = a.end /\ New(b).series = b.series
             /\ New(b).by[m] = Given(a.window, b.series)
             /\ \A n \in Methods \ {m} : New(b).by[n] = EntryOf(open, b).by[n]
  <2>1. /\ EntryOf(open, b) \in EntryType
        /\ EntryOf(open, b).end = b.end /\ EntryOf(open, b).series = b.series
        /\ EntryOf(open, b).by[m] = NoAnswer
    BY <1>2, EntryIs
  <2>2. /\ New(b) \in EntryType /\ New(b).end = a.end /\ New(b).series = b.series
        /\ New(b).by[m] = [points |-> b.points, top |-> EntryOf(open, b).by[m].top \cup b.top]
        /\ \A n \in Methods \ {m} : New(b).by[n] = EntryOf(open, b).by[n]
    BY <1>2, <2>1, AddedIs DEF New
  <2>3. [points |-> b.points, top |-> EntryOf(open, b).by[m].top \cup b.top] = Given(a.window, b.series)
    BY <1>2, <2>1 DEF Given, NoAnswer
  <2> QED
    BY <2>2, <2>3
<1>5. ASSUME NEW b \in message, NEW n \in Methods \ {m}
      PROVE  \/ New(b).by[n] = NoAnswer
             \/ \E y \in open : /\ y.end = New(b).end /\ y.series = New(b).series
                                /\ y.by[n] = New(b).by[n]
  <2>1. /\ EntryOf(open, b).end = b.end /\ EntryOf(open, b).series = b.series
        /\ \/ EntryOf(open, b) \in open
           \/ \A k \in Methods : EntryOf(open, b).by[k] = NoAnswer
    BY <1>2, EntryIs
  <2> QED
    BY <1>2, <1>4, <2>1
<1>6. entries \subseteq EntryType
  BY <1>3, <1>4 DEF old, EntryInv
<1>7. Apart(entries)
  <2>1. ASSUME NEW x \in entries, NEW y \in entries, x.end = y.end, x.series = y.series
        PROVE  x = y
    <3>1. CASE x \in old /\ y \in old
      BY <2>1, <3>1 DEF old, EntryInv, Apart
    <3>2. ASSUME NEW b \in message, NEW z \in old
          PROVE  New(b).end # z.end \/ New(b).series # z.series
      BY <1>2, <1>4, <3>2 DEF old
    <3>3. ASSUME NEW b \in message, NEW c \in message, x = New(b), y = New(c)
          PROVE  x = y
      <4>1. b.series = c.series
        BY <1>4, <2>1, <3>3
      <4> QED
        BY <1>2, <3>3, <4>1
    <3> QED
      BY <1>3, <2>1, <3>1, <3>2, <3>3
  <2> QED
    BY <2>1 DEF Apart
<1>8. ASSUME NEW x \in entries
      PROVE  Fits(x, have)
  <2>1. CASE x \in old
    BY <2>1 DEF old, EntryInv, Fits
  <2>2. ASSUME NEW b \in message, x = New(b)
        PROVE  Fits(x, have)
    <3>1. x.end = a.end /\ x.series = b.series /\ x.by[m] = Given(a.window, x.series)
      BY <1>4, <2>2
    <3>2. <<x.end, m>> \in have
      BY <3>1
    <3>3. ASSUME NEW n \in Methods \ {m}, x.by[n] # NoAnswer
          PROVE  <<x.end, n>> \in have /\ \E c \in answered : /\ c.end = x.end /\ c.method = n
                                                              /\ x.by[n] = Given(c.window, x.series)
      <4>1. PICK y \in open : y.end = x.end /\ y.series = x.series /\ y.by[n] = x.by[n]
        BY <1>5, <2>2, <3>3
      <4>2. Fits(y, read)
        BY <4>1 DEF EntryInv
      <4> QED
        BY <3>3, <4>1, <4>2 DEF Fits
    <3> QED
      BY <3>1, <3>2, <3>3 DEF Fits
  <2> QED
    BY <1>3, <2>1, <2>2
<1>9. ASSUME NEW x \in entries, x \notin open
      PROVE  /\ x.end = a.end
             /\ \A n \in Methods \ {m} :
                  \/ x.by[n] = NoAnswer
                  \/ \E y \in open : /\ y.end = x.end /\ y.series = x.series /\ y.by[n] = x.by[n]
  <2>1. PICK b \in message : x = New(b)
    BY <1>3, <1>9 DEF old
  <2> QED
    BY <1>4, <1>5, <2>1
<1>10. \E x \in entries : /\ x.end = a.end /\ x.series = CountSeries
                          /\ x.by[m] = Given(a.window, CountSeries)
  <2>1. PICK b \in message : b.series = CountSeries
    BY <1>2
  <2>2. New(b) \in entries
    BY <1>3
  <2> QED
    BY <1>4, <2>1, <2>2
<1>11. ASSUME NEW y \in open
       PROVE  \E x \in entries : /\ x.end = y.end /\ x.series = y.series
                                 /\ \A n \in Methods \ {m} : x.by[n] = y.by[n]
                                 /\ y.end # a.end => x = y
  <2>1. CASE y \in old
    BY <1>3, <2>1
  <2>2. CASE y \notin old
    <3>1. PICK b \in message : y.end = b.end /\ y.series = b.series
      BY <2>2 DEF old
    <3>2. y = EntryOf(open, b)
      BY <1>2, <3>1, EntryIs
    <3>3. New(b) \in entries
      BY <1>3
    <3> QED
      BY <1>2, <1>4, <3>1, <3>2, <3>3
  <2> QED
    BY <2>1, <2>2
<1>12. Seemly(m, a, have, entries)
  BY <1>6, <1>7, <1>8, <1>9, <1>10, <1>11 DEF Seemly
<1> QED
  BY <1>12 DEF entries, message

\* A window that is over: it was reported, the report was lost, or it was given up.
Over(e) == <<e, CountSeries>> \in evicted \/ e \in unsent \/ \E r \in reported : r.end = e

SettledInv ==
  /\ \A r \in reported : /\ r.end \in DOMAIN truth /\ \A m \in Methods : <<r.end, m>> \in read
                         /\ r.end \notin unsent /\ <<r.end, CountSeries>> \notin evicted
  /\ \A e \in unsent : \A m \in Methods : <<e, m>> \in read
  /\ \A q, r \in reported : q.end = r.end => q = r
  /\ \A x \in open : x.series = CountSeries => /\ x.end \notin unsent
                                               /\ \A r \in reported : r.end # x.end
  /\ \A e \in Nat : <<e, CountSeries>> \in evicted =>
       \E m \in Methods :
         /\ <<e, m>> \in read
         /\ \A x \in open : x.end = e /\ x.series = CountSeries => x.by[m].top = {}

\* What was read of a window that is not over is in its entry.
HeldInv ==
  \A e \in Nat, m \in Methods : <<e, m>> \in read =>
    \/ Over(e)
    \/ \E x \in open : x.end = e /\ x.series = CountSeries /\ x.by[m].top # {}

LEMMA BothIs ==
  ASSUME NEW x \in EntryType, NEW have, Fits(x, have), Both(x)
  PROVE  /\ x.series = CountSeries /\ \A m \in Methods : <<x.end, m>> \in have /\ x.by[m].top # {}
         /\ \A m \in Methods : \E a \in answered : /\ a.end = x.end /\ a.method = m
                                                   /\ x.by[m].points = a.window.points
                                                   /\ x.by[m].top = TopK(a.window.counts)
<1>1. \A m \in Methods : x.by[m].top # {} /\ x.by[m] # NoAnswer
  <2>1. x.by["sketch"].top # {} /\ x.by["exact"].top # {}
    BY DEF Both
  <2>2. NoAnswer.top = {}
    BY DEF NoAnswer
  <2> QED
    BY <2>1, <2>2 DEF Methods
<1>2. \A m \in Methods : /\ <<x.end, m>> \in have
                         /\ \E a \in answered : /\ a.end = x.end /\ a.method = m
                                                /\ x.by[m] = Given(a.window, x.series)
  BY <1>1 DEF Fits
<1>3. x.series = CountSeries
  <2>1. PICK a \in answered : x.by["exact"] = Given(a.window, x.series)
    BY <1>2 DEF Methods
  <2>2. TopOf(a.window, x.series) # {}
    BY <1>1, <2>1 DEF Given, Methods
  <2> QED
    BY <2>2 DEF TopOf
<1>4. \A w : Given(w, CountSeries).points = w.points /\ Given(w, CountSeries).top = TopK(w.counts)
  BY DEF Given, TopOf
<1>5. ASSUME NEW m \in Methods
      PROVE  \E a \in answered : /\ a.end = x.end /\ a.method = m
                                 /\ x.by[m].points = a.window.points
                                 /\ x.by[m].top = TopK(a.window.counts)
  <2>1. PICK a \in answered : a.end = x.end /\ a.method = m /\ x.by[m] = Given(a.window, CountSeries)
    BY <1>2, <1>3
  <2>2. x.by[m].points = a.window.points /\ x.by[m].top = TopK(a.window.counts)
    BY <1>4, <2>1
  <2> QED
    BY <2>1, <2>2
<1> QED
  BY <1>1, <1>2, <1>3, <1>5

\* What goes: reports of the entries done, and those given up.
Reporting(done, waiting) ==
  /\ open' \subseteq waiting
  /\ evicted' = evicted \cup {<<x.end, x.series>> : x \in waiting \ open'}
  /\ \/ reported' = reported \cup {Accuracy(x) : x \in done} /\ unsent' = unsent
     \/ reported' = reported /\ unsent' = unsent \cup {x.end : x \in done}

LEMMA ArriveIs ==
  ASSUME EntryInv, QueueInv, NEW m \in Methods, Arrive(m)
  PROVE  \E a \in answered :
           /\ a.method = m /\ a.end \in DOMAIN truth /\ a.end \in Nat /\ a.window \in Windows
           /\ <<a.end, m>> \notin read /\ read' = read \cup {<<a.end, m>>}
           /\ \E entries : /\ Seemly(m, a, read', entries)
                           /\ Reporting({x \in entries : Both(x)}, {x \in entries : ~Both(x)})
<1>1. PICK a \in answered :
        /\ a.method = m /\ a.end \in Nat /\ a.window \in Windows /\ <<a.end, m>> \notin read
        /\ Head(answers[m]) = AnswersOf(a.end, a.window)
        /\ read' = read \cup {<<a.end, m>>}
  BY MessageArrives
<1>2. a.end \in DOMAIN truth
  BY DEF QueueInv
<1> DEFINE entries == Observe(open, m, AnswersOf(a.end, a.window))
           done == {x \in entries : Both(x)}
           waiting == {x \in entries : ~Both(x)}
<1>3. Seemly(m, a, read', entries)
  <2> HIDE DEF entries
  <2>1. read' = read \cup {<<a.end, m>>}
    BY <1>1
  <2> QED
    BY <1>1, <2>1, ObserveIs DEF entries
<1>4. entries = Observe(open, m, Head(answers[m]))
  BY <1>1
<1> HIDE DEF entries
<1>5. waiting = entries \ done
  OBVIOUS
<1>6. /\ open' = Kept(waiting)
      /\ evicted' = evicted \cup {<<x.end, x.series>> : x \in waiting \ Kept(waiting)}
      /\ Report(done)
  BY <1>4, <1>5 DEF Arrive
<1>7. Kept(waiting) \subseteq waiting
  BY DEF Kept
<1>8. \/ reported' = reported \cup {Accuracy(x) : x \in done} /\ unsent' = unsent
      \/ reported' = reported /\ unsent' = unsent \cup {x.end : x \in done}
  BY <1>6 DEF Report
<1>9. Reporting(done, waiting)
  BY <1>6, <1>7, <1>8 DEF Reporting
<1> QED
  BY <1>1, <1>2, <1>3, <1>9

LEMMA EntriesArrive ==
  ASSUME EntryInv, QueueInv, SettledInv, NEW m \in Methods, Arrive(m)
  PROVE  EntryInv' /\ SettledInv'
<1>1. PICK a \in answered :
        /\ a.method = m /\ a.end \in DOMAIN truth /\ a.end \in Nat /\ a.window \in Windows
        /\ <<a.end, m>> \notin read /\ read' = read \cup {<<a.end, m>>}
        /\ \E entries : /\ Seemly(m, a, read', entries)
                        /\ Reporting({x \in entries : Both(x)}, {x \in entries : ~Both(x)})
  BY ArriveIs
<1>2. PICK entries : /\ Seemly(m, a, read', entries)
                     /\ Reporting({x \in entries : Both(x)}, {x \in entries : ~Both(x)})
  BY <1>1
<1> DEFINE done == {x \in entries : Both(x)}
           waiting == {x \in entries : ~Both(x)}
<1>3. /\ \A x \in done : x \in entries /\ Both(x)
      /\ \A x \in waiting : x \in entries /\ ~Both(x) /\ x \notin done
      /\ Reporting(done, waiting)
  BY <1>2
<1> HIDE DEF done, waiting
<1>4. UNCHANGED <<truth, answered>>
  BY DEF Arrive
<1>5. open' \subseteq waiting
  BY <1>3 DEF Reporting
<1>6. EntryInv'
  <2>1. open' \subseteq EntryType /\ Apart(open')
    BY <1>2, <1>3, <1>5 DEF Seemly, Apart
  <2>2. ASSUME NEW x \in open'
        PROVE  Fits(x, read)' /\ ~Both(x)
    <3>1. x \in entries /\ ~Both(x)
      BY <1>3, <1>5
    <3>2. Fits(x, read')
      BY <1>2, <3>1 DEF Seemly
    <3> QED
      BY <1>4, <3>1, <3>2 DEF Fits
  <2> QED
    BY <2>1, <2>2 DEF EntryInv
\* The entries done are of the message's window, no part of which was given up.
<1>7. ASSUME NEW x \in done
      PROVE  /\ x.end = a.end /\ x.series = CountSeries /\ \A n \in Methods : <<x.end, n>> \in read'
             /\ <<x.end, CountSeries>> \notin evicted /\ x \in entries
  <2>1. x \in entries /\ Both(x)
    BY <1>3
  <2>2. x \notin open
    BY <2>1 DEF EntryInv
  <2>3. x \in EntryType /\ Fits(x, read') /\ x.end = a.end
    BY <1>2, <2>1, <2>2 DEF Seemly
  <2>4. x.series = CountSeries /\ \A n \in Methods : <<x.end, n>> \in read' /\ x.by[n].top # {}
    BY <2>1, <2>3, BothIs
  <2>5. ASSUME <<x.end, CountSeries>> \in evicted
        PROVE  FALSE
    <3>1. PICK n \in Methods :
            /\ <<x.end, n>> \in read
            /\ \A y \in open : y.end = x.end /\ y.series = CountSeries => y.by[n].top = {}
      BY <1>1, <2>3, <2>5 DEF SettledInv
    <3>2. n # m
      BY <1>1, <2>3, <3>1
    <3>3. \/ x.by[n] = NoAnswer
          \/ \E y \in open : y.end = x.end /\ y.series = x.series /\ y.by[n] = x.by[n]
      BY <1>2, <2>1, <2>2, <3>2 DEF Seemly
    <3>4. x.by[n].top = {}
      BY <2>4, <3>1, <3>3 DEF NoAnswer
    <3> QED
      BY <2>4, <3>4
  <2> QED
    BY <2>1, <2>3, <2>4, <2>5
\* Other entries of a done one's window there are none.
<1>8. ASSUME NEW x \in done, NEW y \in entries, y.end = a.end, y.series = CountSeries
      PROVE  y = x
  <2>1. Apart(entries)
    BY <1>2 DEF Seemly
  <2>2. x \in entries /\ x.end = y.end /\ x.series = y.series
    BY <1>7, <1>8
  <2> QED
    BY <2>1, <2>2 DEF Apart
<1>9. ASSUME NEW p \in evicted', p \notin evicted
      PROVE  \E x \in waiting \ open' : p = <<x.end, x.series>>
  BY <1>3, <1>9 DEF Reporting
\* The window is not over yet.
<1>10. /\ a.end \notin unsent /\ \A r \in reported : r.end # a.end
  BY <1>1 DEF SettledInv
<1>11. ASSUME NEW r \in reported', r \notin reported
       PROVE  unsent' = unsent /\ \E x \in done : r = Accuracy(x) /\ r.end = a.end
  <2>1. PICK x \in done : r = Accuracy(x) /\ unsent' = unsent
    BY <1>3, <1>11 DEF Reporting
  <2>2. r.end = x.end
    BY <2>1 DEF Accuracy
  <2> QED
    BY <1>7, <2>1, <2>2
<1>12. ASSUME NEW e \in unsent', e \notin unsent
       PROVE  e = a.end /\ reported' = reported /\ done # {}
  BY <1>3, <1>7, <1>12 DEF Reporting
<1>13. ASSUME NEW x \in waiting, x.series = CountSeries
       PROVE  /\ x.end \notin unsent' /\ \A r \in reported' : r.end # x.end
  <2>1. x \in entries /\ x \notin done
    BY <1>3
  <2>2. x.end \notin unsent /\ \A r \in reported : r.end # x.end
    <3>1. CASE x \in open
      BY <1>13, <3>1 DEF SettledInv
    <3>2. CASE x \notin open
      BY <1>2, <1>10, <2>1, <3>2 DEF Seemly
    <3> QED
      BY <3>1, <3>2
  <2>3. x.end = a.end => done = {}
    BY <1>8, <1>13, <2>1
  <2> QED
    BY <1>11, <1>12, <2>2, <2>3
<1>14. ASSUME NEW r \in reported'
       PROVE  /\ r.end \in DOMAIN truth' /\ \A n \in Methods : <<r.end, n>> \in read'
              /\ r.end \notin unsent' /\ <<r.end, CountSeries>> \notin evicted'
  <2>1. /\ r.end \in DOMAIN truth' /\ \A n \in Methods : <<r.end, n>> \in read'
    BY <1>1, <1>4, <1>7, <1>11 DEF SettledInv
  <2>2. r.end \notin unsent'
    <3>1. CASE r \in reported
      BY <1>10, <1>12, <3>1 DEF SettledInv
    <3>2. CASE r \notin reported
      BY <1>10, <1>11, <3>2
    <3> QED
      BY <3>1, <3>2
  <2>3. <<r.end, CountSeries>> \notin evicted
    BY <1>7, <1>11 DEF SettledInv
  <2>4. \A x \in waiting : ~(r.end = x.end /\ CountSeries = x.series)
    BY <1>13
  <2>5. <<r.end, CountSeries>> \notin evicted'
    BY <1>9, <2>3, <2>4
  <2> QED
    BY <2>1, <2>2, <2>5
<1>15. ASSUME NEW e \in unsent', NEW n \in Methods
       PROVE  <<e, n>> \in read'
  BY <1>1, <1>7, <1>12 DEF SettledInv
<1>16. ASSUME NEW q \in reported', NEW r \in reported', q.end = r.end
       PROVE  q = r
  <2>1. CASE q \in reported /\ r \in reported
    BY <1>16, <2>1 DEF SettledInv
  <2>2. CASE q \notin reported /\ r \notin reported
    BY <1>7, <1>8, <1>11, <2>2
  <2>3. CASE q \in reported /\ r \notin reported
    BY <1>10, <1>11, <1>16, <2>3
  <2>4. CASE q \notin reported /\ r \in reported
    BY <1>10, <1>11, <1>16, <2>4
  <2> QED
    BY <2>1, <2>2, <2>3, <2>4
<1>17. ASSUME NEW e \in Nat, <<e, CountSeries>> \in evicted'
       PROVE  \E n \in Methods :
                /\ <<e, n>> \in read'
                /\ \A x \in open' : x.end = e /\ x.series = CountSeries => x.by[n].top = {}
  <2>1. CASE <<e, CountSeries>> \in evicted
    <3>1. PICK n \in Methods :
            /\ <<e, n>> \in read
            /\ \A x \in open : x.end = e /\ x.series = CountSeries => x.by[n].top = {}
      BY <2>1 DEF SettledInv
    <3>2. ASSUME NEW x \in open', x.end = e, x.series = CountSeries
          PROVE  x.by[n].top = {}
      <4>1. CASE x \in open
        BY <3>1, <3>2, <4>1
      <4>2. CASE x \notin open
        <5>1. x \in entries /\ x.end = a.end
          BY <1>2, <1>3, <1>5, <4>2 DEF Seemly
        <5>2. n # m
          BY <1>1, <3>1, <3>2, <5>1
        <5>3. \/ x.by[n] = NoAnswer
              \/ \E y \in open : y.end = x.end /\ y.series = x.series /\ y.by[n] = x.by[n]
          BY <1>2, <4>2, <5>1, <5>2 DEF Seemly
        <5> QED
          BY <3>1, <3>2, <5>3 DEF NoAnswer
      <4> QED
        BY <4>1, <4>2
    <3> QED
      BY <1>1, <3>1, <3>2
  <2>2. CASE <<e, CountSeries>> \notin evicted
    <3>1. PICK x \in waiting \ open' : e = x.end /\ CountSeries = x.series
      BY <1>9, <1>17, <2>2
    <3>2. x \in entries /\ Fits(x, read')
      BY <1>2, <1>3, <3>1 DEF Seemly
    <3>3. PICK n \in Methods : <<e, n>> \in read'
      BY <3>1, <3>2 DEF Fits
    <3>4. \A y \in open' : ~(y.end = e /\ y.series = CountSeries)
      BY <1>2, <1>3, <1>5, <3>1, <3>2 DEF Seemly, Apart
    <3> QED
      BY <3>3, <3>4
  <2> QED
    BY <2>1, <2>2
<1>18. SettledInv'
  BY <1>5, <1>13, <1>14, <1>15, <1>16, <1>17 DEF SettledInv
<1> QED
  BY <1>6, <1>18

LEMMA HeldArrives ==
  ASSUME K > 0, EntryInv, QueueInv, SettledInv, HeldInv, NEW m \in Methods, Arrive(m)
  PROVE  HeldInv'
<1>1. PICK a \in answered :
        /\ a.method = m /\ a.end \in DOMAIN truth /\ a.end \in Nat /\ a.window \in Windows
        /\ <<a.end, m>> \notin read /\ read' = read \cup {<<a.end, m>>}
        /\ \E entries : /\ Seemly(m, a, read', entries)
                        /\ Reporting({x \in entries : Both(x)}, {x \in entries : ~Both(x)})
  BY ArriveIs
<1>2. PICK entries : /\ Seemly(m, a, read', entries)
                     /\ Reporting({x \in entries : Both(x)}, {x \in entries : ~Both(x)})
  BY <1>1
\* An entry remains, or its window is over.
<1>3. ASSUME NEW x \in entries, x.series = CountSeries
      PROVE  x \in open' \/ Over(x.end)'
  <2>1. CASE Both(x)
    <3>1. CASE reported' = reported \cup {Accuracy(y) : y \in {y \in entries : Both(y)}}
      <4>1. Accuracy(x) \in reported' /\ Accuracy(x).end = x.end
        BY <2>1, <3>1 DEF Accuracy
      <4> QED
        BY <4>1 DEF Over
    <3>2. CASE unsent' = unsent \cup {y.end : y \in {y \in entries : Both(y)}}
      <4>1. x.end \in unsent'
        BY <2>1, <3>2
      <4> QED
        BY <4>1 DEF Over
    <3> QED
      BY <1>2, <3>1, <3>2 DEF Reporting
  <2>2. CASE ~Both(x) /\ x \notin open'
    <3>1. <<x.end, x.series>> \in evicted'
      BY <1>2, <2>2 DEF Reporting
    <3> QED
      BY <1>3, <3>1 DEF Over
  <2> QED
    BY <2>1, <2>2
<1>4. \A e : Over(e) => Over(e)'
  <2>1. evicted \subseteq evicted' /\ unsent \subseteq unsent' /\ reported \subseteq reported'
    BY <1>2 DEF Reporting
  <2> QED
    BY <2>1 DEF Over
<1>5. ASSUME NEW e \in Nat, NEW n \in Methods, <<e, n>> \in read'
      PROVE  \/ Over(e)'
             \/ \E x \in open' : x.end = e /\ x.series = CountSeries /\ x.by[n].top # {}
  <2>1. CASE <<e, n>> \in read
    <3>1. CASE Over(e)
      BY <1>4, <3>1
    <3>2. CASE ~Over(e)
      <4>1. PICK y \in open : y.end = e /\ y.series = CountSeries /\ y.by[n].top # {}
        BY <2>1, <3>2 DEF HeldInv
      <4>2. PICK x \in entries : /\ x.end = y.end /\ x.series = y.series
                                 /\ \A k \in Methods \ {m} : x.by[k] = y.by[k]
                                 /\ y.end # a.end => x = y
        BY <1>2 DEF Seemly
      <4>3. x.by[n] = y.by[n]
        <5>1. CASE y.end = a.end
          <6>1. n # m
            BY <1>1, <2>1, <4>1, <5>1
          <6> QED
            BY <4>2, <6>1
        <5>2. CASE y.end # a.end
          BY <4>2, <5>2
        <5> QED
          BY <5>1, <5>2
      <4> QED
        BY <1>3, <4>1, <4>2, <4>3
    <3> QED
      BY <3>1, <3>2
  <2>2. CASE e = a.end /\ n = m
    <3>1. PICK x \in entries : /\ x.end = a.end /\ x.series = CountSeries
                               /\ x.by[m] = Given(a.window, CountSeries)
      BY <1>2 DEF Seemly
    <3>2. TopK(a.window.counts) # {}
      BY <1>1, WindowIs, TopIs
    <3>3. x.by[m].top # {}
      BY <3>1, <3>2 DEF Given, TopOf
    <3> QED
      BY <1>3, <2>2, <3>1, <3>3
  <2> QED
    BY <1>1, <1>5, <2>1, <2>2
<1> QED
  BY <1>5 DEF HeldInv

-----------------------------------------------------------------------------
(* The other steps, and the accuracies.                                    *)

LEMMA EntriesStay ==
  ASSUME UNCHANGED <<open, read, reported, unsent, evicted>>, answered \subseteq answered',
         \A e \in DOMAIN truth : e \in DOMAIN truth' /\ truth'[e] = truth[e]
  PROVE  /\ EntryInv => EntryInv'
         /\ SettledInv => SettledInv'
         /\ HeldInv => HeldInv'
<1>1. ASSUME EntryInv
      PROVE  EntryInv'
  <2>1. ASSUME NEW x \in open
        PROVE  Fits(x, read)'
    BY <1>1, <2>1 DEF EntryInv, Fits
  <2> QED
    BY <1>1, <2>1 DEF EntryInv
<1>2. ASSUME SettledInv
      PROVE  SettledInv'
  BY <1>2 DEF SettledInv
<1>3. ASSUME HeldInv
      PROVE  HeldInv'
  BY <1>3 DEF HeldInv, Over
<1> QED
  BY <1>1, <1>2, <1>3

\* A step is an arrival, or one that leaves heavy_hitter_accuracy as it is.
LEMMA Steps ==
  ASSUME QueueInv, [Next]_vars
  PROVE  \/ \E m \in Methods : Arrive(m)
         \/ /\ UNCHANGED <<open, read, reported, unsent, evicted>> /\ answered \subseteq answered'
            /\ \A e \in DOMAIN truth : e \in DOMAIN truth' /\ truth'[e] = truth[e]
<1>1. ASSUME NEW content \in Contents, Feed(content)
      PROVE  /\ UNCHANGED <<open, read, reported, unsent, evicted, answered>>
             /\ \A e \in DOMAIN truth : e \in DOMAIN truth' /\ truth'[e] = truth[e]
  BY <1>1 DEF Feed, QueueInv
<1>2. ASSUME NEW m \in Methods, Miss(m)
      PROVE  UNCHANGED <<open, read, reported, unsent, evicted, answered, truth>>
  BY <1>2 DEF Miss
<1>3. ASSUME NEW m \in Methods, NEW w \in Windows, Answer(m, w)
      PROVE  UNCHANGED <<open, read, reported, unsent, evicted, truth>> /\ answered \subseteq answered'
  <2>1. Sent(m, detectors[m].next, w, Told(events[m], detectors[m], Observed(detectors[m], w), w))
    BY <1>3 DEF Answer
  <2>2. answered \subseteq answered'
    BY <2>1 DEF Sent, SendAnswers
  <2> QED
    BY <1>3, <2>2 DEF Answer
<1>4. CASE UNCHANGED vars
  BY <1>4 DEF vars
<1> QED
  BY <1>1, <1>2, <1>3, <1>4 DEF Next

LEMMA QueueNext == DetectorInv /\ QueueInv /\ [Next]_vars => QueueInv'
<1> SUFFICES ASSUME DetectorInv, QueueInv, [Next]_vars PROVE QueueInv'
  OBVIOUS
<1>1. CASE UNCHANGED vars
  <2>1. \A m \in Methods : \A i \in DOMAIN answers'[m] : Pending(m, i)'
    BY <1>1 DEF QueueInv, Pending, vars
  <2> QED
    BY <1>1, <2>1 DEF QueueInv, vars
<1> QED
  BY <1>1, QueueFeeds, QueueMisses, QueueAnswers, QueueArrives DEF Next

AccuracyInv == DetectorInv /\ QueueInv /\ EntryInv /\ SettledInv

LEMMA AccuracyInit == Init => AccuracyInv /\ HeldInv /\ TruthWhole
<1> SUFFICES ASSUME Init PROVE AccuracyInv /\ HeldInv /\ TruthWhole
  OBVIOUS
<1>1. open = {} /\ read = {} /\ reported = {} /\ unsent = {} /\ evicted = {}
  BY DEF Init
<1>2. EntryInv /\ SettledInv /\ HeldInv /\ TruthWhole
  BY <1>1 DEF EntryInv, Apart, SettledInv, HeldInv, TruthWhole
<1> QED
  BY <1>2, DetectorInit, QueueInit DEF AccuracyInv

LEMMA AccuracyNext == AccuracyInv /\ [Next]_vars => AccuracyInv'
<1> SUFFICES ASSUME AccuracyInv, [Next]_vars PROVE AccuracyInv'
  OBVIOUS
<1>1. DetectorInv /\ QueueInv /\ EntryInv /\ SettledInv
  BY DEF AccuracyInv
<1>2. DetectorInv' /\ QueueInv'
  BY <1>1, DetectorNext, QueueNext
<1>3. EntryInv' /\ SettledInv'
  BY <1>1, Steps, EntriesStay, EntriesArrive
<1> QED
  BY <1>2, <1>3 DEF AccuracyInv

LEMMA HeldNext == K > 0 /\ AccuracyInv /\ HeldInv /\ [Next]_vars => HeldInv'
  BY Steps, EntriesStay, HeldArrives DEF AccuracyInv

\* The accuracy of an entry that both methods answered: unless a list was cut short, it
\* compares the heavy hitters of the window with those of the sketch's.
LEMMA AccuracyIs ==
  ASSUME QueueInv, NEW have, NEW x \in EntryType, Fits(x, have), Both(x), ~Accuracy(x).incomplete
  PROVE  /\ Accuracy(x).truth = Heavy(truth[x.end].counts, truth[x.end].points)
         /\ \E b \in answered : /\ b.end = x.end /\ b.method = "sketch"
                                /\ Accuracy(x).reported = Heavy(b.window.counts, truth[x.end].points)
<1> DEFINE points == x.by["exact"].points
           exact == x.by["exact"].top
           sketch == x.by["sketch"].top
<1>1. PICK a \in answered : /\ a.end = x.end /\ a.method = "exact"
                            /\ points = a.window.points /\ exact = TopK(a.window.counts)
  BY BothIs DEF Methods
<1>2. PICK b \in answered : /\ b.end = x.end /\ b.method = "sketch"
                            /\ sketch = TopK(b.window.counts)
  BY BothIs DEF Methods
<1>3. a.window = truth[x.end]
  BY <1>1 DEF QueueInv
<1>4. a.window \in Windows /\ b.window \in Windows
  BY DEF QueueInv, AnsweredType
<1>5. /\ CountsOK(a.window.counts) /\ CountsOK(b.window.counts)
      /\ a.window.points \in Nat
  BY <1>4, WindowIs
<1>6. /\ Accuracy(x).incomplete = (CutShort(exact, points) \/ CutShort(sketch, points))
      /\ Accuracy(x).truth = KeysOf({y \in exact : Reaches(y, points)})
      /\ Accuracy(x).reported = KeysOf({y \in sketch : Reaches(y, points)})
  BY DEF Accuracy
<1> HIDE DEF points, exact, sketch
<1>7. ~CutShort(exact, points) /\ ~CutShort(sketch, points)
  BY <1>6
<1>8. Accuracy(x).truth = Heavy(a.window.counts, points)
  BY <1>1, <1>5, <1>6, <1>7, TopTells
<1>9. Accuracy(x).reported = Heavy(b.window.counts, points)
  BY <1>1, <1>2, <1>5, <1>6, <1>7, TopTells
<1> QED
  BY <1>1, <1>2, <1>3, <1>8, <1>9

\* A report tells the heavy hitters of its window, and what the sketch took for them.
Whole(r) ==
  ~r.incomplete =>
    /\ r.truth = Heavy(truth[r.end].counts, truth[r.end].points)
    /\ \E a \in answered :
         /\ a.end = r.end /\ a.method = "sketch"
         /\ r.reported = Heavy(a.window.counts, truth[r.end].points)

LEMMA WholeArrives ==
  ASSUME AccuracyInv, TruthWhole, NEW m \in Methods, Arrive(m)
  PROVE  TruthWhole'
<1>1. EntryInv /\ QueueInv
  BY DEF AccuracyInv
<1>2. PICK a \in answered :
        \E entries : /\ Seemly(m, a, read', entries)
                     /\ Reporting({x \in entries : Both(x)}, {x \in entries : ~Both(x)})
  BY <1>1, ArriveIs
<1>3. PICK entries : /\ Seemly(m, a, read', entries)
                     /\ Reporting({x \in entries : Both(x)}, {x \in entries : ~Both(x)})
  BY <1>2
<1>4. UNCHANGED <<truth, answered>>
  BY DEF Arrive
<1>5. ASSUME NEW r \in reported'
      PROVE  Whole(r)
  <2>1. CASE r \in reported
    BY <2>1 DEF TruthWhole, Whole
  <2>2. CASE r \notin reported
    <3>1. PICK x \in entries : Both(x) /\ r = Accuracy(x)
      BY <1>3, <1>5, <2>2 DEF Reporting
    <3>2. x \in EntryType /\ Fits(x, read')
      BY <1>3 DEF Seemly
    <3>3. r.end = x.end
      BY <3>1 DEF Accuracy
    <3> QED
      BY <1>1, <3>1, <3>2, <3>3, AccuracyIs DEF Whole
  <2> QED
    BY <2>1, <2>2
<1>6. \A r \in reported' : Whole(r)'
  BY <1>4, <1>5 DEF Whole
<1> QED
  BY <1>6 DEF TruthWhole, Whole

LEMMA WholeNext == AccuracyInv /\ TruthWhole /\ [Next]_vars => TruthWhole'
<1> SUFFICES ASSUME AccuracyInv, TruthWhole, [Next]_vars PROVE TruthWhole'
  OBVIOUS
<1>1. QueueInv /\ SettledInv
  BY DEF AccuracyInv
<1>2. CASE /\ UNCHANGED reported /\ answered \subseteq answered'
           /\ \A e \in DOMAIN truth : truth'[e] = truth[e]
  <2>1. \A r \in reported : r.end \in DOMAIN truth
    BY <1>1 DEF SettledInv
  <2> QED
    BY <1>2, <2>1 DEF TruthWhole
<1> QED
  BY <1>1, <1>2, Steps, WholeArrives

\* An accuracy that is not marked incomplete compares all the heavy hitters of its
\* window with all the keys that the sketch takes for them.
THEOREM ComparesWhole == Spec => []TruthWhole
<1>1. AccuracyInv /\ TruthWhole /\ [Next]_vars => AccuracyInv' /\ TruthWhole'
  BY AccuracyNext, WholeNext
<1> QED
  BY <1>1, AccuracyInit, PTL DEF Spec

\* Of a window of which both methods' answers have come there is one report, unless it
\* was given up or the report was lost; K = 0 would leave every list empty.
THEOREM ReportsOnce ==
  ASSUME K > 0
  PROVE  Spec => []Paired
<1>1. AccuracyInv /\ HeldInv => Paired
  <2> SUFFICES ASSUME AccuracyInv, HeldInv, NEW e \in DOMAIN truth
               PROVE  LET reports == {r \in reported : r.end = e}
                          bothRead == \A m \in Methods : <<e, m>> \in read
                          given == <<e, CountSeries>> \in evicted
                      IN /\ Cardinality(reports) <= 1
                         /\ reports # {} => bothRead /\ ~given /\ e \notin unsent
                         /\ bothRead => reports # {} \/ given \/ e \in unsent
    BY DEF Paired
  <2> DEFINE reports == {r \in reported : r.end = e}
  <2>1. QueueInv /\ EntryInv /\ SettledInv
    BY DEF AccuracyInv
  <2>2. e \in Nat
    BY <2>1 DEF QueueInv
  <2>3. Cardinality(reports) <= 1
    <3>1. CASE reports = {}
      <4>1. Cardinality({}) = 0
        BY FS_EmptySet
      <4> HIDE DEF reports
      <4> QED
        BY <3>1, <4>1
    <3>2. CASE reports # {}
      <4>1. PICK r \in reports : TRUE
        BY <3>2
      <4>2. reports = {r}
        BY <2>1, <4>1 DEF SettledInv
      <4> HIDE DEF reports
      <4>3. Cardinality({r}) = 1
        BY FS_Singleton
      <4> QED
        BY <4>2, <4>3
    <3> QED
      BY <3>1, <3>2
  <2>4. reports # {} => /\ \A m \in Methods : <<e, m>> \in read
                        /\ <<e, CountSeries>> \notin evicted /\ e \notin unsent
    BY <2>1 DEF SettledInv
  <2>5. ASSUME \A m \in Methods : <<e, m>> \in read
        PROVE  Over(e)
    <3> SUFFICES ASSUME ~Over(e) PROVE FALSE
      OBVIOUS
    <3>1. PICK x \in open : x.end = e /\ x.series = CountSeries /\ x.by["exact"].top # {}
      BY <2>2, <2>5 DEF HeldInv, Methods
    <3>2. PICK y \in open : y.end = e /\ y.series = CountSeries /\ y.by["sketch"].top # {}
      BY <2>2, <2>5 DEF HeldInv, Methods
    <3>3. x = y
      BY <2>1, <3>1, <3>2 DEF EntryInv, Apart
    <3>4. x.by["exact"] # NoAnswer
      BY <3>1 DEF NoAnswer
    <3>5. PICK a \in answered : x.by["exact"] = Given(a.window, x.series)
      BY <2>1, <3>4 DEF EntryInv, Fits, Methods
    <3>6. a.window \in Windows
      BY <2>1 DEF QueueInv, AnsweredType
    <3>7. x.by["exact"].points > 0
      BY <3>5, <3>6, WindowIs DEF Given
    <3> QED
      BY <2>1, <3>1, <3>2, <3>3, <3>7 DEF EntryInv, Both
  <2> QED
    BY <2>3, <2>4, <2>5 DEF Over
<1>2. AccuracyInv /\ HeldInv /\ [Next]_vars => AccuracyInv' /\ HeldInv'
  BY AccuracyNext, HeldNext
<1> QED
  BY <1>1, <1>2, AccuracyInit, PTL DEF Spec
=============================================================================
