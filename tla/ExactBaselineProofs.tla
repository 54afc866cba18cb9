------------------------- MODULE ExactBaselineProofs -------------------------
(***************************************************************************)
(* The exact baseline keeps its types, conserves every point's share,      *)
(* emits windows once and in order, and a complete window is the truth.    *)
(***************************************************************************)
EXTENDS ExactBaseline, FiniteSetTheorems, WellFoundedInduction, TLAPS

-----------------------------------------------------------------------------
(* Types.                                                                  *)

Labels == STRING \X Nat

Series == UNION {SeriesOf(s, labels) : s \in Sources, labels \in SUBSET Labels}

Entries ==
  [from : Sources, no : Nat, item : Nat, end : Ends, series : Series, copy : {1, 2}]

Messages == [from : Sources, no : Nat, entries : SUBSET Entries]

Outputs == [end : Ends, series : Series, entries : SUBSET Entries]

TypeOK ==
  /\ {given, sent, emitted} \subseteq [Sources -> Nat]
  /\ {windows, merged, taken, dropped, late, lost} \subseteq SUBSET Entries
  /\ wire \subseteq Messages
  /\ emittedUntil \in Nat
  /\ messages \in [Ends -> Nat]
  /\ out \subseteq Outputs

LEMMA EndsAreNat ==
  ASSUME NEW ts \in Nat
  PROVE  EndOf(ts) \in Nat
<1> DEFINE size == IF Size = 0 THEN 1 ELSE Size
<1>1. size \in Nat /\ size > 0
  BY ConstantsAssumption DEF ConstantsAssumption
<1> HIDE DEF size
<1>2. ts \div size \in Nat
  BY <1>1
<1>3. ASSUME NEW q \in Nat PROVE q * size + size \in Nat
  BY <1>1, <1>3
<1>4. (ts \div size) * size + size \in Nat
  BY <1>2, <1>3
<1> QED
  BY <1>4 DEF EndOf, size

LEMMA ItemsTyped ==
  ASSUME NEW batch \in Batches
  PROVE  /\ Len(batch) \in Nat /\ DOMAIN batch = 1..Len(batch)
         /\ \A i \in DOMAIN batch : batch[i].ts \in Nat /\ batch[i].labels \in SUBSET Labels
<1> DEFINE Item == [kind : STRING, ts : Nat, labels : SUBSET Labels]
<1>1. batch \in Seq(Item)
  BY ConstantsAssumption DEF ConstantsAssumption, Labels
<1> HIDE DEF Item
<1>2. /\ Len(batch) \in Nat /\ DOMAIN batch = 1..Len(batch)
      /\ \A i \in DOMAIN batch : batch[i] \in Item
  BY <1>1
<1> QED
  BY <1>2 DEF Item

LEMMA EndsNat == Ends \subseteq Nat
<1>1. ASSUME NEW batch \in Batches, NEW i \in DOMAIN batch
      PROVE  EndOf(batch[i].ts) \in Nat
  BY <1>1, ItemsTyped, EndsAreNat
<1> QED
  BY <1>1 DEF Ends

\* A finite, nonempty set of naturals has a largest element: the one that the
\* fewest others exceed.
LEMMA HasMaximum ==
  ASSUME NEW S \in SUBSET Nat, IsFiniteSet(S), S # {}
  PROVE  \E m \in S : \A n \in S : n <= m
<1> DEFINE Above(m) == {n \in S : n > m}
           T == {Cardinality(Above(m)) : m \in S}
           R == OpToRel(<, Nat)
<1>1. \A m \in S : IsFiniteSet(Above(m)) /\ Cardinality(Above(m)) \in Nat
  BY FS_Subset, FS_CardinalityType
<1>2. T \subseteq Nat /\ T # {}
  BY <1>1
<1>3. PICK x \in T : \A y \in T : ~(<<y, x>> \in R)
  BY <1>2, WFMin, NatLessThanWellFounded
<1>4. PICK m \in S : x = Cardinality(Above(m))
  BY <1>3
<1>5. ASSUME NEW n \in S, ~(n <= m)
      PROVE  FALSE
  <2>0. n \in Nat /\ m \in Nat /\ n > m
    BY <1>5
  <2>1. Above(n) \subseteq Above(m) /\ n \in Above(m) /\ n \notin Above(n)
    <3>1. ASSUME NEW k \in S, k > n PROVE k > m
      <4>1. k \in Nat
        OBVIOUS
      <4> QED
        BY <2>0, <3>1, <4>1
    <3>2. Above(n) \subseteq Above(m)
      BY <3>1
    <3>3. n \in Above(m)
      BY <2>0
    <3>4. ~(n > n)
      BY <2>0
    <3> QED
      BY <3>2, <3>3, <3>4
  <2>2. Cardinality(Above(n)) <= Cardinality(Above(m)) /\ Cardinality(Above(n)) # Cardinality(Above(m))
    BY <1>1, <2>1, FS_Subset
  <2>3. Cardinality(Above(n)) \in T /\ <<Cardinality(Above(n)), x>> \in R
    <3>1. Cardinality(Above(n)) \in T
      OBVIOUS
    <3>2. Cardinality(Above(n)) < x /\ x \in Nat /\ Cardinality(Above(n)) \in Nat
      BY <1>1, <1>4, <2>2
    <3> HIDE DEF Above, T
    <3>3. <<Cardinality(Above(n)), x>> \in R
      BY <3>2 DEF OpToRel
    <3> QED
      BY <3>1, <3>3
  <2> QED
    BY <1>3, <2>3
<1> QED
  BY <1>5

\* What UpTo returns is the largest of its arguments.
LEMMA UpToMax ==
  ASSUME NEW from \in Nat, NEW entries \in SUBSET Entries
  PROVE  /\ UpTo(from, entries) \in EndsOf(entries) \cup {from}
         /\ UpTo(from, entries) \in Nat
         /\ UpTo(from, entries) >= from
         /\ \A x \in entries : UpTo(from, entries) >= x.end
<1> DEFINE S == EndsOf(entries) \cup {from}
<1>1. EndsOf(entries) \subseteq Ends
  BY DEF EndsOf, Entries
<1>2. IsFiniteSet(EndsOf(entries)) /\ S \subseteq Nat
  BY <1>1, EndsNat, EndsAssumption, FS_Subset
<1>3. IsFiniteSet(S) /\ S # {}
  BY <1>2, FS_AddElement
<1>4. \E m \in S : \A n \in S : n <= m
  BY <1>2, <1>3, HasMaximum
<1>5. UpTo(from, entries) \in S /\ \A n \in S : n <= UpTo(from, entries)
  BY <1>4 DEF UpTo
<1> QED
  BY <1>2, <1>5 DEF EndsOf

-----------------------------------------------------------------------------
(* What the steps do.                                                      *)

\* What the windows, the wire and the history say of one another.
Ordered ==
  /\ \A x \in merged : x.end > emittedUntil
  /\ \A env \in out : /\ env.end <= emittedUntil
                      /\ \A x \in env.entries : x.end = env.end /\ x.series = env.series
  /\ \A x \in windows : x.end > emitted[x.from]

Numbered == \A x \in taken : x.copy = 1 /\ x.no <= given[x.from]

Apart ==
  \A m, n \in wire : m # n => Originals(m.entries) \cap Originals(n.entries) = {}

IInv == TypeOK /\ Ordered /\ Numbered /\ Apart /\ Accounted

\* The windows that branch s closes when it has emitted up to u.
Behind(s, u) == {x \in windows : x.from = s /\ x.end <= u}

\* A step of branch s takes in `fresh`, keeps some of it and has then emitted up to u.
BranchEffect(s, fresh, kept, u) ==
  /\ kept \subseteq fresh
  /\ \A x \in fresh : x.from = s /\ x.no = given[s] + 1 /\ x.copy = 1
  /\ \A x \in kept : x.end > u
  /\ \A x \in fresh \ kept : x.end <= u
  /\ u >= emitted[s] /\ emitted' = [emitted EXCEPT ![s] = u]
  /\ given' = [given EXCEPT ![s] = @ + 1] \/ (given' = given /\ fresh = {})
  /\ taken' = taken \cup fresh
  /\ dropped' = dropped \cup (fresh \ kept)
  /\ windows' = (windows \ Behind(s, u)) \cup kept
  /\ \/ /\ sent' = [sent EXCEPT ![s] = @ + 1]
        /\ wire' = wire \cup {[from |-> s, no |-> sent[s] + 1, entries |-> Behind(s, u)]}
        /\ UNCHANGED lost
     \/ UNCHANGED <<sent, wire>> /\ lost' = lost \cup Behind(s, u)
  /\ UNCHANGED <<merger, repeated>>

LEMMA ClosedBehind ==
  ASSUME TypeOK, Ordered, NEW s \in Sources, NEW closed,
         closed = {} \/ \E until \in Nat : closed = Closed(s, until)
  PROVE  LET u == UpTo(emitted[s], closed) IN
         closed = Behind(s, u) /\ u \in Nat /\ u >= emitted[s]
<1> DEFINE u == UpTo(emitted[s], closed)
<1>1. emitted[s] \in Nat /\ closed \in SUBSET Entries /\ closed \subseteq windows
  BY DEF TypeOK, Closed
<1>2. /\ u \in EndsOf(closed) \cup {emitted[s]} /\ u \in Nat /\ u >= emitted[s]
      /\ \A x \in closed : u >= x.end
  BY <1>1, UpToMax
<1> HIDE DEF u
<1>3. \A x \in windows : x.end \in Nat /\ x.end > emitted[x.from]
  BY EndsNat DEF TypeOK, Entries, Ordered
<1>4. ASSUME NEW x \in closed PROVE x \in Behind(s, u)
  BY <1>1, <1>2, <1>3 DEF Closed, Behind
<1>5. ASSUME NEW x \in Behind(s, u) PROVE x \in closed
  <2>1. x \in windows /\ x.from = s /\ x.end <= u /\ x.end \in Nat /\ x.end > emitted[s]
    BY <1>3 DEF Behind
  <2>2. u \in EndsOf(closed)
    BY <1>1, <1>2, <2>1
  <2>3. PICK y \in closed : u = y.end
    BY <2>2 DEF EndsOf
  <2>4. PICK until \in Nat : closed = Closed(s, until)
    BY <2>3
  <2> QED
    BY <1>2, <2>1, <2>3, <2>4 DEF Closed
<1> QED
  BY <1>2, <1>4, <1>5 DEF u

\* A batch becomes entries of its branch, all with the number of the batch.
LEMMA EntriesFresh ==
  ASSUME TypeOK, NEW s \in Sources, NEW batch \in Batches, NEW n \in 0..Len(batch)
  PROVE  /\ EntriesOf(s, batch, n) \subseteq Entries
         /\ \A x \in EntriesOf(s, batch, n) : x.from = s /\ x.no = given[s] + 1 /\ x.copy = 1
<1> SUFFICES ASSUME NEW x \in EntriesOf(s, batch, n)
             PROVE  x \in Entries /\ x.from = s /\ x.no = given[s] + 1 /\ x.copy = 1
  OBVIOUS
<1>1. PICK i \in 1..n : \E name \in SeriesOf(s, batch[i].labels) :
        x = [from |-> s, no |-> given[s] + 1, item |-> i, end |-> EndOf(batch[i].ts),
             series |-> name, copy |-> 1]
  BY DEF EntriesOf
<1>2. PICK name \in SeriesOf(s, batch[i].labels) :
        x = [from |-> s, no |-> given[s] + 1, item |-> i, end |-> EndOf(batch[i].ts),
             series |-> name, copy |-> 1]
  BY <1>1
<1>3. i \in DOMAIN batch /\ i \in Nat /\ given[s] + 1 \in Nat
  BY ItemsTyped DEF TypeOK
<1>4. batch[i].labels \in SUBSET Labels /\ EndOf(batch[i].ts) \in Ends
  BY <1>3, ItemsTyped DEF Ends
<1>5. name \in Series
  BY <1>2, <1>4 DEF Series
<1> QED
  BY <1>2, <1>3, <1>4, <1>5 DEF Entries

LEMMA BranchSends ==
  ASSUME TypeOK, NEW s \in Sources, NEW closed, NEW fresh, NEW kept,
         closed = Behind(s, UpTo(emitted[s], closed)), Send(s, closed),
         windows' = (windows \ closed) \cup kept
  PROVE  LET u == UpTo(emitted[s], closed) IN
         /\ emitted' = [emitted EXCEPT ![s] = u]
         /\ windows' = (windows \ Behind(s, u)) \cup kept
         /\ \/ /\ sent' = [sent EXCEPT ![s] = @ + 1]
               /\ wire' = wire \cup {[from |-> s, no |-> sent[s] + 1, entries |-> Behind(s, u)]}
               /\ UNCHANGED lost
            \/ UNCHANGED <<sent, wire>> /\ lost' = lost \cup Behind(s, u)
<1> DEFINE u == UpTo(emitted[s], closed)
<1>1. closed = Behind(s, u)
  OBVIOUS
<1> HIDE DEF u
<1>2. CASE closed = {}
  BY <1>1, <1>2 DEF Send, u
<1>3. CASE closed # {}
  <2>1. emitted' = [emitted EXCEPT ![s] = u]
    BY DEF Send, u
  <2>2. \/ /\ sent' = [sent EXCEPT ![s] = @ + 1]
           /\ wire' = wire \cup {[from |-> s, no |-> sent[s] + 1, entries |-> closed]}
           /\ UNCHANGED lost
        \/ UNCHANGED <<sent, wire>> /\ lost' = lost \cup closed
    BY <1>3 DEF Send
  <2>3. windows' = (windows \ Behind(s, u)) \cup kept
    BY <1>1
  <2> QED
    BY <1>1, <2>1, <2>2, <2>3 DEF u
<1> QED
  BY <1>2, <1>3

LEMMA BranchPDataEffect ==
  ASSUME TypeOK, Ordered, NEW s \in Sources, NEW batch \in Batches, NEW n \in 0..Len(batch),
         BranchPData(s, batch, n)
  PROVE  \E fresh, kept \in SUBSET Entries, u \in Nat : BranchEffect(s, fresh, kept, u)
<1> DEFINE fresh == EntriesOf(s, batch, n)
           closed == IF n = 0 THEN {} ELSE Closed(s, batch[1].ts)
           u == UpTo(emitted[s], closed)
           kept == Observed(s, fresh, closed)
<1>1. closed = {} \/ \E until \in Nat : closed = Closed(s, until)
  <2>1. ASSUME n # 0 PROVE batch[1].ts \in Nat
    BY <2>1, ItemsTyped
  <2> QED
    BY <2>1
<1>2. fresh \in SUBSET Entries /\ \A x \in fresh : x.from = s /\ x.no = given[s] + 1 /\ x.copy = 1
  BY EntriesFresh
<1>3. /\ given' = [given EXCEPT ![s] = @ + 1]
      /\ taken' = taken \cup fresh
      /\ dropped' = dropped \cup (fresh \ kept)
      /\ windows' = (windows \ closed) \cup kept
      /\ Send(s, closed)
      /\ UNCHANGED <<merger, repeated>>
  BY DEF BranchPData
<1> HIDE DEF fresh, closed
<1>4. closed = Behind(s, u) /\ u \in Nat /\ u >= emitted[s]
  BY <1>1, ClosedBehind
<1>5. kept \subseteq fresh /\ (\A x \in kept : x.end > u) /\ \A x \in fresh \ kept : x.end <= u
  <2>1. \A x \in fresh : x.end \in Nat
    BY <1>2, EndsNat DEF Entries
  <2> QED
    BY <1>4, <2>1 DEF Observed
<1> HIDE DEF kept
<1>6. /\ emitted' = [emitted EXCEPT ![s] = u]
      /\ windows' = (windows \ Behind(s, u)) \cup kept
      /\ \/ /\ sent' = [sent EXCEPT ![s] = @ + 1]
            /\ wire' = wire \cup {[from |-> s, no |-> sent[s] + 1, entries |-> Behind(s, u)]}
            /\ UNCHANGED lost
         \/ UNCHANGED <<sent, wire>> /\ lost' = lost \cup Behind(s, u)
  BY <1>3, <1>4, BranchSends
<1> HIDE DEF u
<1>7. BranchEffect(s, fresh, kept, u)
  BY <1>2, <1>3, <1>4, <1>5, <1>6 DEF BranchEffect
<1> QED
  BY <1>2, <1>4, <1>5, <1>7

LEMMA BranchCloseEffect ==
  ASSUME TypeOK, Ordered, NEW s \in Sources, NEW until \in Nat, BranchClose(s, until)
  PROVE  \E u \in Nat : BranchEffect(s, {}, {}, u)
<1> DEFINE closed == Closed(s, until)
           u == UpTo(emitted[s], closed)
<1>1. closed = Behind(s, u) /\ u \in Nat /\ u >= emitted[s]
  BY ClosedBehind
<1>2. /\ windows' = (windows \ closed) \cup {}
      /\ Send(s, closed)
      /\ UNCHANGED <<given, taken, dropped, merger, repeated>>
  BY DEF BranchClose
<1> HIDE DEF closed
<1>3. /\ emitted' = [emitted EXCEPT ![s] = u]
      /\ windows' = (windows \ Behind(s, u)) \cup {}
      /\ \/ /\ sent' = [sent EXCEPT ![s] = @ + 1]
            /\ wire' = wire \cup {[from |-> s, no |-> sent[s] + 1, entries |-> Behind(s, u)]}
            /\ UNCHANGED lost
         \/ UNCHANGED <<sent, wire>> /\ lost' = lost \cup Behind(s, u)
  BY <1>1, <1>2, BranchSends
<1> HIDE DEF u
<1>4. /\ taken' = taken \cup {} /\ dropped' = dropped \cup ({} \ {}) /\ given' = given
      /\ UNCHANGED <<merger, repeated>>
  BY <1>2
<1>5. BranchEffect(s, {}, {}, u)
  BY <1>1, <1>3, <1>4 DEF BranchEffect
<1> QED
  BY <1>1, <1>5

-----------------------------------------------------------------------------
(* What the merge does.                                                    *)

DownClosed(closing) == \A e \in closing, f \in Ends : f <= e => f \in closing

Ready(closing, pool) == {x \in pool : x.end \in closing}

\* A step of the merge closes windows of a pool, and with each all earlier ones;
\* what it takes out of the pool is sent or lost.
Closes(closing, pool, counts) ==
  LET ready == Ready(closing, pool) IN
  /\ merged' = pool \ ready
  /\ messages' = [e \in Ends |-> IF e \in closing THEN 0 ELSE counts[e]]
  /\ emittedUntil' \in Nat /\ emittedUntil' >= emittedUntil
  /\ \A x \in pool \ ready : x.end > emittedUntil'
  /\ \A x \in ready : x.end <= emittedUntil'
  /\ \/ out' = out \cup Envelopes(ready) /\ Unsent(closing, pool) = {}
     \/ out' = out /\ Unsent(closing, pool) = ready

LEMMA EmitCloses ==
  ASSUME TypeOK, Ordered,
         NEW closing \in SUBSET Ends, DownClosed(closing),
         NEW pool \in SUBSET Entries, \A x \in pool : x.end > emittedUntil,
         NEW arrivals, NEW counts,
         Emit(closing, pool, arrivals, counts)
  PROVE  Closes(closing, pool, counts)
<1> DEFINE ready == Ready(closing, pool)
<1>1. Ready(closing, pool) = {x \in pool : x.end \in closing}
  BY DEF Ready
<1>2. ready \in SUBSET Entries /\ emittedUntil \in Nat
  BY DEF Ready, TypeOK
<1>3. /\ merged' = pool \ ready
      /\ messages' = [e \in Ends |-> IF e \in closing THEN 0 ELSE counts[e]]
      /\ emittedUntil' = UpTo(emittedUntil, ready)
      /\ ready = {} => out' = out
      /\ out' = out \cup Envelopes(ready) \/ out' = out
  BY <1>1 DEF Emit
<1>4. Unsent(closing, pool) = IF out' = out THEN ready ELSE {}
  BY <1>1 DEF Unsent
<1> HIDE DEF ready
<1>5. /\ emittedUntil' \in EndsOf(ready) \cup {emittedUntil}
      /\ emittedUntil' \in Nat /\ emittedUntil' >= emittedUntil
      /\ \A x \in ready : x.end <= emittedUntil'
  <2>1. \A x \in ready : x.end \in Nat
    BY <1>2, EndsNat DEF Entries
  <2> QED
    BY <1>2, <1>3, <2>1, UpToMax
<1>6. ASSUME NEW x \in pool \ ready PROVE x.end > emittedUntil'
  <2>1. x.end \in Ends /\ x.end \in Nat /\ x.end > emittedUntil /\ x.end \notin closing
    BY EndsNat DEF Entries, ready, Ready
  <2>2. CASE emittedUntil' = emittedUntil
    BY <2>1, <2>2
  <2>3. ASSUME NEW y \in ready, emittedUntil' = y.end PROVE x.end > emittedUntil'
    <3>1. y.end \in closing /\ y.end \in Nat
      BY EndsNat DEF ready, Ready
    <3> QED
      BY <2>1, <2>3, <3>1 DEF DownClosed
  <2> QED
    BY <1>5, <2>2, <2>3 DEF EndsOf
<1>7. \/ out' = out \cup Envelopes(ready) /\ Unsent(closing, pool) = {}
      \/ out' = out /\ Unsent(closing, pool) = ready
  BY <1>3, <1>4
<1> QED
  BY <1>3, <1>5, <1>6, <1>7 DEF Closes, ready

\* A message, if one came, leaves the wire or comes again, and may count.
WireEffect(gone, counts) ==
  \/ gone = {} /\ counts = messages /\ UNCHANGED <<wire, repeated>>
  \/ \E s \in Sources : \E msg \in NextOf(s) :
       /\ gone = msg.entries /\ counts \in {messages, Carried(EndsOf(gone))} /\ Take(msg)

\* A step that is no branch's takes entries off the wire: some go to a window of
\* the merge, some to a failure, and some come too late.
MergeEffect(kept, refused, tardy, closing, counts) ==
  /\ kept \cap refused = {} /\ kept \cap tardy = {} /\ refused \cap tardy = {}
  /\ \A x \in kept : x.end > emittedUntil
  /\ \A x \in tardy : x.end <= emittedUntil
  /\ WireEffect(kept \cup refused \cup tardy, counts)
  /\ Closes(closing, merged \cup kept, counts)
  /\ late' = late \cup tardy
  /\ lost' = lost \cup refused \cup Unsent(closing, merged \cup kept)
  /\ timedOut' = timedOut \cup (EndsOf(merged \cup kept) \cap (closing \ Complete(counts)))
  /\ UNCHANGED branches

LEMMA Closings ==
  /\ \A now \in Times : GraceOver(now) \in SUBSET Ends /\ DownClosed(GraceOver(now))
  /\ \A counts : Complete(counts) \in SUBSET Ends /\ DownClosed(Complete(counts))
  /\ Ends \in SUBSET Ends /\ DownClosed(Ends)
  /\ {} \in SUBSET Ends /\ DownClosed({})
<1>1. Grace \in Nat /\ Times \subseteq Nat
  BY ConstantsAssumption DEF ConstantsAssumption
<1>2. ASSUME NEW now \in Times
      PROVE  GraceOver(now) \in SUBSET Ends /\ DownClosed(GraceOver(now))
  BY <1>1, EndsNat DEF GraceOver, DownClosed
<1>3. ASSUME NEW counts
      PROVE  Complete(counts) \in SUBSET Ends /\ DownClosed(Complete(counts))
  <2>1. ASSUME NEW e \in Complete(counts), NEW f \in Ends, f <= e
        PROVE  f \in Complete(counts)
    <3>1. PICK c \in Ends : e <= c /\ Quorum > 0 /\ counts[c] >= Quorum
      BY DEF Complete
    <3>2. f <= c
      BY <2>1, <3>1, EndsNat DEF Complete
    <3> QED
      BY <3>1, <3>2 DEF Complete
  <2> QED
    BY <2>1 DEF Complete, DownClosed
<1> QED
  BY <1>2, <1>3 DEF DownClosed

LEMMA DownClosedUnion ==
  ASSUME NEW a \in SUBSET Ends, NEW b \in SUBSET Ends, DownClosed(a), DownClosed(b)
  PROVE  a \cup b \in SUBSET Ends /\ DownClosed(a \cup b)
BY DEF DownClosed

LEMMA MessageEntries ==
  ASSUME TypeOK, NEW s \in Sources, NEW msg \in NextOf(s)
  PROVE  msg \in wire /\ msg \in Messages /\ msg.from = s /\ msg.entries \in SUBSET Entries
BY DEF TypeOK, NextOf, Messages

LEMMA CarriedType ==
  ASSUME TypeOK, NEW ends
  PROVE  Carried(ends) \in [Ends -> Nat]
BY DEF TypeOK, Carried

LEMMA PoolEnds ==
  ASSUME TypeOK, Ordered, NEW kept \in SUBSET Entries, \A x \in kept : x.end > emittedUntil
  PROVE  merged \cup kept \in SUBSET Entries /\ \A x \in merged \cup kept : x.end > emittedUntil
BY DEF TypeOK, Ordered

LEMMA MergePDataEffect ==
  ASSUME TypeOK, Ordered, NEW s \in Sources, NEW msg \in NextOf(s), NEW now \in Times,
         NEW bad \in SUBSET Envelopes(msg.entries), MergePData(msg, bad, now)
  PROVE  \E kept, refused, tardy \in SUBSET Entries, closing \in SUBSET Ends,
            counts \in [Ends -> Nat] : MergeEffect(kept, refused, tardy, closing, counts)
<1> DEFINE all == msg.entries
           kept == NotLate(all) \ Undecoded(bad)
           refused == NotLate(all) \cap Undecoded(bad)
           tardy == all \ NotLate(all)
           counts == Carried(EndsOf(all))
           closing == GraceOver(now) \cup Complete(counts)
<1>1. all \in SUBSET Entries
  BY MessageEntries
<1>2. /\ kept \in SUBSET Entries /\ refused \in SUBSET Entries /\ tardy \in SUBSET Entries
      /\ kept \cup refused \cup tardy = all
      /\ kept \cap refused = {} /\ kept \cap tardy = {} /\ refused \cap tardy = {}
  BY <1>1 DEF NotLate
<1>3. (\A x \in kept : x.end > emittedUntil) /\ \A x \in tardy : x.end <= emittedUntil
  <2>1. emittedUntil \in Nat /\ \A x \in all : x.end \in Nat
    BY <1>1, EndsNat DEF Entries, TypeOK
  <2> QED
    BY <2>1 DEF NotLate
<1>4. closing \in SUBSET Ends /\ DownClosed(closing) /\ counts \in [Ends -> Nat]
  BY Closings, DownClosedUnion, CarriedType
<1>5. /\ Take(msg)
      /\ late' = late \cup tardy
      /\ \E arrivals : Emit(closing, merged \cup kept, arrivals, counts)
      /\ lost' = lost \cup refused \cup Unsent(closing, merged \cup kept)
      /\ timedOut' = timedOut \cup (EndsOf(merged \cup kept) \cap (closing \ Complete(counts)))
      /\ UNCHANGED branches
  BY DEF MergePData, Merged
<1> HIDE DEF kept, refused, tardy, closing
<1>6. Closes(closing, merged \cup kept, counts)
  BY <1>2, <1>3, <1>4, <1>5, PoolEnds, EmitCloses
<1>7. WireEffect(kept \cup refused \cup tardy, counts)
  BY <1>2, <1>5 DEF WireEffect
<1>8. MergeEffect(kept, refused, tardy, closing, counts)
  BY <1>2, <1>3, <1>5, <1>6, <1>7 DEF MergeEffect
<1> QED
  BY <1>2, <1>4, <1>8

\* The steps in which all that comes is refused, and windows may close.
LEMMA RefusingEffect ==
  ASSUME TypeOK, Ordered, NEW gone \in SUBSET Entries,
         NEW closing \in SUBSET Ends, DownClosed(closing), NEW arrivals,
         Emit(closing, merged, arrivals, messages),
         WireEffect(gone, messages),
         late' = late, lost' = lost \cup gone \cup Unsent(closing, merged),
         timedOut' = timedOut \cup (EndsOf(merged) \cap (closing \ Complete(messages))),
         UNCHANGED branches
  PROVE  MergeEffect({}, gone, {}, closing, messages)
<1>1. merged \cup {} = merged /\ {} \cup gone \cup {} = gone
  OBVIOUS
<1>2. Closes(closing, merged \cup {}, messages)
  <2>1. merged \in SUBSET Entries /\ \A x \in merged : x.end > emittedUntil
    BY DEF TypeOK, Ordered
  <2>2. Closes(closing, merged, messages)
    BY <2>1, EmitCloses
  <2> QED
    BY <1>1, <2>2
<1>3. late' = late \cup {}
  OBVIOUS
<1> QED
  BY <1>1, <1>2, <1>3 DEF MergeEffect

\* The steps in which the merge does nothing but may lose a message.
LEMMA IdleEffect ==
  ASSUME TypeOK, Ordered, NEW gone \in SUBSET Entries,
         WireEffect(gone, messages),
         UNCHANGED <<branches, merger>>, lost' = lost \cup gone
  PROVE  MergeEffect({}, gone, {}, {}, messages)
<1>1. merged \cup {} = merged /\ {} \cup gone \cup {} = gone /\ Ready({}, merged) = {}
  BY DEF Ready
<1>2. UNCHANGED <<merged, emittedUntil, messages, out, late, timedOut>>
  BY DEF merger
<1>3. Unsent({}, merged) = {}
  BY DEF Unsent
<1>4. messages = [e \in Ends |-> messages[e]]
  BY DEF TypeOK
<1>5. Closes({}, merged, messages)
  <2>1. messages' = [e \in Ends |-> IF e \in {} THEN 0 ELSE messages[e]]
    BY <1>2, <1>4
  <2>2. emittedUntil' \in Nat /\ emittedUntil' >= emittedUntil
    BY <1>2 DEF TypeOK
  <2>3. \A x \in merged : x.end > emittedUntil'
    BY <1>2 DEF Ordered
  <2> QED
    BY <1>1, <1>2, <1>3, <2>1, <2>2, <2>3 DEF Closes
<1>6. timedOut' = timedOut \cup (EndsOf(merged) \cap ({} \ Complete(messages)))
  BY <1>2
<1>7. late' = late \cup {} /\ lost' = lost \cup gone \cup {}
  BY <1>2
<1> QED
  BY <1>1, <1>3, <1>5, <1>6, <1>7 DEF MergeEffect

\* Every step is a branch's, in the sense of BranchEffect, or a step of the
\* transport or the merge, in the sense of MergeEffect.
LEMMA StepEffect ==
  ASSUME TypeOK, Ordered, Next
  PROVE  \/ \E s \in Sources : \E fresh, kept \in SUBSET Entries, u \in Nat :
              BranchEffect(s, fresh, kept, u)
         \/ \E kept, refused, tardy \in SUBSET Entries, closing \in SUBSET Ends,
               counts \in [Ends -> Nat] : MergeEffect(kept, refused, tardy, closing, counts)
<1> DEFINE ByBranch == \E s \in Sources : \E fresh, kept \in SUBSET Entries, u \in Nat :
                         BranchEffect(s, fresh, kept, u)
           ByMerge == \E kept, refused, tardy \in SUBSET Entries, closing \in SUBSET Ends,
                        counts \in [Ends -> Nat] :
                        MergeEffect(kept, refused, tardy, closing, counts)
<1>0. messages \in [Ends -> Nat] /\ {} \in SUBSET Entries /\ {} \in SUBSET Ends
  BY DEF TypeOK
<1>1. ASSUME NEW s \in Sources, NEW batch \in Batches, NEW n \in 0..Len(batch),
             BranchPData(s, batch, n)
      PROVE  ByBranch
  BY <1>1, BranchPDataEffect
<1>2. ASSUME NEW s \in Sources, NEW until \in Nat, BranchClose(s, until)
      PROVE  ByBranch
  BY <1>0, <1>2, BranchCloseEffect
<1>3. ASSUME NEW s \in Sources, NEW now \in Times, BranchTick(s, now)
      PROVE  ByBranch
  <2>1. (IF now < IdleGrace THEN 0 ELSE now - IdleGrace) \in Nat
    BY ConstantsAssumption DEF ConstantsAssumption
  <2> QED
    BY <1>2, <1>3, <2>1 DEF BranchTick
<1>4. ASSUME NEW s \in Sources, BranchShutdown(s)
      PROVE  ByBranch
  BY <1>2, <1>4, EndsNat DEF BranchShutdown
<1>5. ASSUME NEW s \in Sources, NEW now \in Times, Deliver(s, now)
      PROVE  ByMerge
  BY <1>5, MergePDataEffect DEF Deliver
<1> HIDE DEF ByBranch
<1>6. ASSUME NEW gone \in SUBSET Entries, WireEffect(gone, messages),
             UNCHANGED <<branches, merger>>, lost' = lost \cup gone
      PROVE  ByMerge
  BY <1>0, <1>6, IdleEffect
<1>7. ASSUME NEW gone \in SUBSET Entries,
             NEW closing \in SUBSET Ends, DownClosed(closing), NEW arrivals,
             Emit(closing, merged, arrivals, messages),
             WireEffect(gone, messages),
             late' = late, lost' = lost \cup gone \cup Unsent(closing, merged),
             timedOut' = timedOut \cup (EndsOf(merged) \cap (closing \ Complete(messages))),
             UNCHANGED branches
      PROVE  ByMerge
  BY <1>0, <1>7, RefusingEffect
<1> HIDE DEF ByMerge
<1>8. WireEffect({}, messages) \/ ~(UNCHANGED <<wire, repeated>>)
  BY DEF WireEffect
<1>9. ASSUME NEW s \in Sources, NEW msg \in NextOf(s), wire' = wire \ {msg}, UNCHANGED repeated
      PROVE  msg.entries \in SUBSET Entries /\ WireEffect(msg.entries, messages)
  <2>1. Take(msg)
    BY <1>9 DEF Take
  <2> QED
    BY <2>1, MessageEntries DEF WireEffect
<1>10. ASSUME UNCHANGED <<branches, merger, wire, repeated, lost>>
       PROVE  ByMerge
  BY <1>6, <1>8, <1>10
<1>11. ASSUME NEW s \in Sources, BranchNoAck(s)
       PROVE  ByMerge
  BY <1>10, <1>11 DEF BranchNoAck
<1>12. ASSUME NEW n \in Sources \cup {Merge}, OtherControl(n)
       PROVE  ByMerge
  BY <1>10, <1>12 DEF OtherControl
<1>13. ASSUME NEW s \in Sources, NEW msg \in NextOf(s), Lose(msg) \/ MergeNoAck(msg)
       PROVE  ByMerge
  <2>1. wire' = wire \ {msg} /\ UNCHANGED repeated /\ lost' = lost \cup msg.entries
        /\ UNCHANGED <<branches, merger>>
    BY <1>13 DEF Lose, MergeNoAck
  <2> QED
    BY <1>6, <1>9, <2>1
<1>14. ASSUME NEW closing \in SUBSET Ends, DownClosed(closing), MergeClose(closing)
       PROVE  ByMerge
  <2>1. lost' = lost \cup {} \cup Unsent(closing, merged)
    BY <1>14 DEF MergeClose
  <2>2. WireEffect({}, messages) /\ late' = late /\ UNCHANGED branches
    BY <1>8, <1>14 DEF MergeClose
  <2>3. Emit(closing, merged, arrived, messages)
        /\ timedOut' = timedOut \cup (EndsOf(merged) \cap (closing \ Complete(messages)))
    BY <1>14 DEF MergeClose
  <2> QED
    BY <1>7, <1>14, <2>1, <2>2, <2>3
<1>15. ASSUME NEW s \in Sources, NEW msg \in NextOf(s), NEW now \in Times,
              MergeUndecodable(msg, now)
       PROVE  ByMerge
  <2> DEFINE closing == GraceOver(now) \cup Complete(messages)
  <2>1. closing \in SUBSET Ends /\ DownClosed(closing)
    BY Closings, DownClosedUnion
  <2>2. /\ wire' = wire \ {msg} /\ UNCHANGED repeated
        /\ Emit(closing, merged, arrived, messages)
        /\ lost' = lost \cup msg.entries \cup Unsent(closing, merged)
        /\ timedOut' = timedOut \cup (EndsOf(merged) \cap (closing \ Complete(messages)))
        /\ late' = late /\ UNCHANGED branches
    BY <1>15 DEF MergeUndecodable
  <2> HIDE DEF closing
  <2> QED
    BY <1>7, <1>9, <2>1, <2>2
<1>16. ASSUME NEW now \in Times, MergeTick(now)
       PROVE  ByMerge
  BY <1>14, <1>16, Closings, DownClosedUnion DEF MergeTick
<1>17. ASSUME MergeShutdown
       PROVE  ByMerge
  BY <1>14, <1>17, Closings DEF MergeShutdown
<1>18. ByBranch \/ ByMerge
  BY <1>1, <1>3, <1>4, <1>5, <1>11, <1>12, <1>13, <1>15, <1>16, <1>17 DEF Next
<1> QED
  BY <1>18 DEF ByBranch, ByMerge

-----------------------------------------------------------------------------
(* The types are kept.                                                     *)

LEMMA EnvelopesTyped ==
  ASSUME NEW entries \in SUBSET Entries
  PROVE  /\ Envelopes(entries) \subseteq Outputs
         /\ \A env \in Envelopes(entries) :
              /\ env.entries = {y \in entries : y.end = env.end /\ y.series = env.series}
              /\ \E x \in entries : env.end = x.end /\ env.series = x.series
<1> SUFFICES ASSUME NEW env \in Envelopes(entries)
             PROVE  /\ env \in Outputs
                    /\ env.entries = {y \in entries : y.end = env.end /\ y.series = env.series}
                    /\ \E x \in entries : env.end = x.end /\ env.series = x.series
  OBVIOUS
<1>1. PICK x \in entries :
        env = [end |-> x.end, series |-> x.series,
               entries |-> {y \in entries : y.end = x.end /\ y.series = x.series}]
  BY DEF Envelopes
<1> QED
  BY <1>1 DEF Entries, Outputs

\* What a delivery does to the wire: the message goes, or its copy takes its place.
LEMMA TakeTyped ==
  ASSUME TypeOK, NEW s \in Sources, NEW msg \in NextOf(s), Take(msg)
  PROVE  /\ wire' \subseteq Messages
         /\ \A m \in wire' :
              \/ m \in wire \ {msg}
              \/ /\ m.from = s /\ m.no = msg.no
                 /\ m.entries = Second(msg.entries)
                 /\ repeated' = repeated \cup EndsOf(msg.entries)
         /\ wire \ {msg} \subseteq wire'
         /\ \A x \in Second(msg.entries) :
              /\ x \in Entries /\ x.copy = 2
              /\ \E y \in msg.entries : x.from = y.from /\ x.end = y.end
<1>1. msg \in wire /\ msg \in Messages /\ msg.from = s /\ msg.entries \in SUBSET Entries
  BY MessageEntries
<1>2. ASSUME NEW x \in Second(msg.entries)
      PROVE  /\ x \in Entries /\ x.copy = 2
             /\ \E y \in msg.entries : x.from = y.from /\ x.end = y.end
  <2>1. PICK y \in msg.entries : x = [y EXCEPT !.copy = 2]
    BY DEF Second
  <2>2. y \in Entries
    BY <1>1
  <2>3. x \in Entries /\ x.copy = 2 /\ x.from = y.from /\ x.end = y.end
    BY <2>1, <2>2 DEF Entries
  <2> QED
    BY <2>3
<1> DEFINE copy == [msg EXCEPT !.entries = Second(@)]
<1>3. copy \in Messages /\ copy.from = s /\ copy.no = msg.no /\ copy.entries = Second(msg.entries)
  BY <1>1, <1>2 DEF Messages
<1> HIDE DEF copy
<1>4. \/ wire' = wire \ {msg}
      \/ wire' = (wire \ {msg}) \cup {copy} /\ repeated' = repeated \cup EndsOf(msg.entries)
  BY DEF Take, copy
<1> QED
  BY <1>1, <1>2, <1>3, <1>4 DEF TypeOK

LEMMA BranchTypes ==
  ASSUME TypeOK, NEW s \in Sources, NEW fresh \in SUBSET Entries, NEW kept \in SUBSET Entries,
         NEW u \in Nat, BranchEffect(s, fresh, kept, u)
  PROVE  TypeOK'
<1>1. given' \in [Sources -> Nat] /\ emitted' \in [Sources -> Nat] /\ sent' \in [Sources -> Nat]
  BY DEF BranchEffect, TypeOK
<1>2. Behind(s, u) \in SUBSET Entries
  BY DEF Behind, TypeOK
<1>3. {windows, taken, dropped, lost}' \subseteq SUBSET Entries
  BY <1>2 DEF BranchEffect, TypeOK
<1>4. wire' \subseteq Messages
  <2>1. [from |-> s, no |-> sent[s] + 1, entries |-> Behind(s, u)] \in Messages
    BY <1>2 DEF Messages, TypeOK
  <2> QED
    BY <2>1 DEF BranchEffect, TypeOK
<1>5. UNCHANGED <<merged, late, emittedUntil, messages, out>>
  BY DEF BranchEffect, merger
<1> QED
  BY <1>1, <1>3, <1>4, <1>5 DEF TypeOK

LEMMA MergeTypes ==
  ASSUME TypeOK, NEW kept \in SUBSET Entries, NEW refused \in SUBSET Entries,
         NEW tardy \in SUBSET Entries, NEW closing \in SUBSET Ends, NEW counts \in [Ends -> Nat],
         MergeEffect(kept, refused, tardy, closing, counts)
  PROVE  TypeOK'
<1> DEFINE pool == merged \cup kept
           ready == Ready(closing, pool)
<1>1. Closes(closing, pool, counts)
  BY DEF MergeEffect
<1>2. pool \in SUBSET Entries /\ ready \in SUBSET Entries
  BY DEF Ready, TypeOK
<1>3. Unsent(closing, pool) \in SUBSET Entries
  BY <1>1, <1>2 DEF Closes
<1>4. lost' \in SUBSET Entries /\ late' \in SUBSET Entries /\ merged' \in SUBSET Entries
  BY <1>1, <1>2, <1>3 DEF MergeEffect, Closes, TypeOK
<1>5. messages' \in [Ends -> Nat] /\ emittedUntil' \in Nat
  BY <1>1 DEF Closes
<1>6. out' \subseteq Outputs
  BY <1>1, <1>2, EnvelopesTyped DEF Closes, TypeOK
<1>7. wire' \subseteq Messages
  BY TakeTyped DEF MergeEffect, WireEffect, TypeOK
<1>8. UNCHANGED <<given, sent, emitted, windows, taken, dropped>>
  BY DEF MergeEffect, branches
<1> QED
  BY <1>4, <1>5, <1>6, <1>7, <1>8 DEF TypeOK

-----------------------------------------------------------------------------
(* Windows come out once and in order.                                     *)

LEMMA BranchOrder ==
  ASSUME TypeOK, Ordered,
         NEW s \in Sources, NEW fresh \in SUBSET Entries, NEW kept \in SUBSET Entries,
         NEW u \in Nat, BranchEffect(s, fresh, kept, u)
  PROVE  Ordered'
<1>1. UNCHANGED <<merged, emittedUntil, out>>
  BY DEF BranchEffect, merger
<1>2. ASSUME NEW x \in windows'
      PROVE  x.end > emitted'[x.from]
  <2>1. emitted \in [Sources -> Nat] /\ emitted' = [emitted EXCEPT ![s] = u]
    BY DEF BranchEffect, TypeOK
  <2>2. CASE x \in kept
    <3>1. x.from = s /\ x.end > u
      BY <2>2 DEF BranchEffect
    <3> QED
      BY <2>1, <3>1
  <2>3. CASE x \in windows /\ x \notin Behind(s, u)
    <3>1. x.end \in Nat /\ x.from \in Sources /\ x.end > emitted[x.from]
      BY <2>3, EndsNat DEF Ordered, TypeOK, Entries
    <3>2. x.from = s => x.end > u
      BY <2>3, <3>1 DEF Behind
    <3> QED
      BY <2>1, <3>1, <3>2
  <2> QED
    BY <2>2, <2>3 DEF BranchEffect
<1> QED
  BY <1>1, <1>2 DEF Ordered

LEMMA MergeOrder ==
  ASSUME TypeOK, Ordered, NEW kept \in SUBSET Entries, NEW refused \in SUBSET Entries,
         NEW tardy \in SUBSET Entries, NEW closing \in SUBSET Ends, NEW counts \in [Ends -> Nat],
         MergeEffect(kept, refused, tardy, closing, counts)
  PROVE  /\ Ordered'
         /\ \A env \in out' \ out : env.end > emittedUntil /\ \A old \in out : env.end > old.end
         /\ out \subseteq out'
<1> DEFINE pool == merged \cup kept
           ready == Ready(closing, pool)
<1>1. Closes(closing, pool, counts)
  BY DEF MergeEffect
<1>2. ready \in SUBSET Entries /\ ready \subseteq pool /\ \A x \in pool : x.end > emittedUntil
  BY DEF MergeEffect, Ordered, Ready, TypeOK
<1>3. /\ emittedUntil' \in Nat /\ emittedUntil \in Nat /\ emittedUntil' >= emittedUntil
      /\ merged' = pool \ ready
      /\ \A x \in merged' : x.end > emittedUntil'
      /\ \A x \in ready : x.end <= emittedUntil'
      /\ out' = out \cup Envelopes(ready) \/ out' = out
  BY <1>1 DEF Closes, TypeOK
<1> HIDE DEF ready, pool
<1>4. \A env \in out : env.end \in Nat /\ env.end <= emittedUntil
  BY EndsNat DEF Ordered, TypeOK, Outputs
<1>5. ASSUME NEW env \in Envelopes(ready)
      PROVE  /\ env.end \in Nat /\ env.end <= emittedUntil' /\ env.end > emittedUntil
             /\ \A x \in env.entries : x.end = env.end /\ x.series = env.series
  <2>1. env \in Outputs
        /\ env.entries = {y \in ready : y.end = env.end /\ y.series = env.series}
    BY <1>2, EnvelopesTyped
  <2>2. PICK x \in ready : env.end = x.end
    BY <1>2, EnvelopesTyped
  <2> QED
    BY <1>2, <1>3, <2>1, <2>2, EndsNat DEF Outputs
<1>6. \A env \in out' : /\ env.end <= emittedUntil'
                        /\ \A x \in env.entries : x.end = env.end /\ x.series = env.series
  <2>1. ASSUME NEW env \in out
        PROVE  /\ env.end <= emittedUntil'
               /\ \A x \in env.entries : x.end = env.end /\ x.series = env.series
    BY <1>3, <1>4 DEF Ordered
  <2> QED
    BY <1>3, <1>5, <2>1
<1>7. ASSUME NEW env \in out' \ out
      PROVE  env.end > emittedUntil /\ \A old \in out : env.end > old.end
  BY <1>3, <1>4, <1>5
<1>8. UNCHANGED <<windows, emitted>>
  BY DEF MergeEffect, branches
<1>9. \A x \in windows' : x.end > emitted'[x.from]
  BY <1>8 DEF Ordered
<1> QED
  BY <1>3, <1>6, <1>7, <1>9 DEF Ordered

LEMMA OrderInit == Init => TypeOK /\ Ordered
<1> SUFFICES ASSUME Init PROVE TypeOK /\ Ordered
  OBVIOUS
<1>1. TypeOK
  BY DEF Init, TypeOK
<1> QED
  BY <1>1 DEF Init, Ordered

LEMMA OrderStep == TypeOK /\ Ordered /\ [Next]_vars =>
                     /\ TypeOK' /\ Ordered'
                     /\ \A env \in out' \ out : \A old \in out : env.end > old.end
<1> SUFFICES ASSUME TypeOK, Ordered, [Next]_vars
             PROVE  /\ TypeOK' /\ Ordered'
                    /\ \A env \in out' \ out : \A old \in out : env.end > old.end
  OBVIOUS
<1>1. CASE UNCHANGED vars
  <2>1. UNCHANGED <<given, sent, emitted, windows, merged, taken, dropped, late, lost, wire,
                    emittedUntil, messages, out>>
    BY <1>1 DEF vars, branches, merger
  <2>2. TypeOK'
    BY <2>1 DEF TypeOK
  <2>3. Ordered'
    BY <2>1 DEF Ordered
  <2> QED
    BY <2>1, <2>2, <2>3
<1>2. ASSUME NEW s \in Sources, NEW fresh \in SUBSET Entries, NEW kept \in SUBSET Entries,
             NEW u \in Nat, BranchEffect(s, fresh, kept, u)
      PROVE  /\ TypeOK' /\ Ordered'
             /\ \A env \in out' \ out : \A old \in out : env.end > old.end
  <2>1. out' = out
    BY <1>2 DEF BranchEffect, merger
  <2> QED
    BY <1>2, <2>1, BranchTypes, BranchOrder
<1>3. ASSUME NEW kept \in SUBSET Entries, NEW refused \in SUBSET Entries,
             NEW tardy \in SUBSET Entries, NEW closing \in SUBSET Ends,
             NEW counts \in [Ends -> Nat], MergeEffect(kept, refused, tardy, closing, counts)
      PROVE  /\ TypeOK' /\ Ordered'
             /\ \A env \in out' \ out : \A old \in out : env.end > old.end
  BY <1>3, MergeTypes, MergeOrder
<1> QED
  BY <1>1, <1>2, <1>3, StepEffect

\* However late, often or broken the branches' messages come, and whatever the
\* clock reads, the merge emits a window once, and windows in order (due,
\* baseline_nodes.rs:347).
THEOREM TruthInOrder == Spec => WindowsInOrder
<1>1. TypeOK /\ Ordered /\ [Next]_vars =>
        [\A env \in out' \ out : \A old \in out : env.end > old.end]_vars
  BY OrderStep
<1> QED
  BY <1>1, OrderInit, OrderStep, PTL DEF Spec, WindowsInOrder

-----------------------------------------------------------------------------
(* Every entry is in one place.                                            *)

\* t is split into the seven places.
Split(t, w, n, m, s, d, l, x) ==
  /\ t = w \cup n \cup m \cup s \cup d \cup l \cup x
  /\ w \cap n = {} /\ w \cap m = {} /\ w \cap s = {} /\ w \cap d = {} /\ w \cap l = {} /\ w \cap x = {}
  /\ n \cap m = {} /\ n \cap s = {} /\ n \cap d = {} /\ n \cap l = {} /\ n \cap x = {}
  /\ m \cap s = {} /\ m \cap d = {} /\ m \cap l = {} /\ m \cap x = {}
  /\ s \cap d = {} /\ s \cap l = {} /\ s \cap x = {}
  /\ d \cap l = {} /\ d \cap x = {}
  /\ l \cap x = {}

LEMMA SplitPlaces ==
  ASSUME NEW t, NEW w, NEW n, NEW m, NEW s, NEW d, NEW l, NEW x
  PROVE  LET places == <<w, n, m, s, d, l, x>> IN
         /\ t = UNION {places[i] : i \in 1..7}
         /\ \A i, j \in 1..7 : i # j => places[i] \cap places[j] = {}
         <=> Split(t, w, n, m, s, d, l, x)
<1> DEFINE places == <<w, n, m, s, d, l, x>>
<1>1. /\ places[1] = w /\ places[2] = n /\ places[3] = m /\ places[4] = s
      /\ places[5] = d /\ places[6] = l /\ places[7] = x
  OBVIOUS
<1>2. 1..7 = {1, 2, 3, 4, 5, 6, 7}
  OBVIOUS
<1> HIDE DEF places
<1>3. UNION {places[i] : i \in 1..7} = w \cup n \cup m \cup s \cup d \cup l \cup x
  BY <1>1, <1>2
<1>4. (\A i, j \in 1..7 : i # j => places[i] \cap places[j] = {}) =>
        (t = w \cup n \cup m \cup s \cup d \cup l \cup x => Split(t, w, n, m, s, d, l, x))
  BY <1>1, <1>2 DEF Split
<1>5. ASSUME Split(t, w, n, m, s, d, l, x), NEW i \in 1..7, NEW j \in 1..7, i # j
      PROVE  places[i] \cap places[j] = {}
  <2>1. i \in {1, 2, 3, 4, 5, 6, 7} /\ j \in {1, 2, 3, 4, 5, 6, 7}
    BY <1>2
  <2> QED
    BY <1>1, <1>5, <2>1 DEF Split
<1>6. Split(t, w, n, m, s, d, l, x) => t = w \cup n \cup m \cup s \cup d \cup l \cup x
  BY DEF Split
<1> QED
  BY <1>3, <1>4, <1>5, <1>6 DEF places

OutApart == \A e, f \in out : e # f => e.entries \cap f.entries = {}

SplitNow ==
  Split(taken, windows, Originals(OnWire), Originals(merged), Originals(Sent), dropped,
        Originals(late), Originals(lost))

LEMMA AccountedIsSplit == Accounted <=> SplitNow /\ OutApart
BY SplitPlaces DEF Accounted, SplitNow, OutApart

\* A branch takes in what was nowhere, and hands on or loses what it closes.
LEMMA SplitAtBranch ==
  ASSUME NEW t, NEW w, NEW n, NEW m, NEW s, NEW d, NEW l, NEW x, Split(t, w, n, m, s, d, l, x),
         NEW fresh, NEW kept \in SUBSET fresh, NEW closed \in SUBSET w, fresh \cap t = {}
  PROVE  /\ Split(t \cup fresh, (w \ closed) \cup kept, n \cup closed, m, s,
                  d \cup (fresh \ kept), l, x)
         /\ Split(t \cup fresh, (w \ closed) \cup kept, n, m, s,
                  d \cup (fresh \ kept), l, x \cup closed)
BY SMTT(60) DEF Split

\* The merge takes from the wire, and sends or loses what it closes.
LEMMA SplitAtMerge ==
  ASSUME NEW t, NEW w, NEW n, NEW m, NEW s, NEW d, NEW l, NEW x, Split(t, w, n, m, s, d, l, x),
         NEW kept \in SUBSET n, NEW refused \in SUBSET n, NEW tardy \in SUBSET n,
         kept \cap refused = {}, kept \cap tardy = {}, refused \cap tardy = {},
         NEW ready \in SUBSET (m \cup kept)
  PROVE  /\ Split(t, w, n \ (kept \cup refused \cup tardy), (m \cup kept) \ ready, s \cup ready,
                  d, l \cup tardy, x \cup refused)
         /\ Split(t, w, n \ (kept \cup refused \cup tardy), (m \cup kept) \ ready, s,
                  d, l \cup tardy, x \cup refused \cup ready)
BY SMTT(60) DEF Split

LEMMA OriginalsOf ==
  /\ \A a, b : Originals(a \cup b) = Originals(a) \cup Originals(b)
  /\ \A a, b : Originals(a \ b) = Originals(a) \ Originals(b)
  /\ \A a : (\A x \in a : x.copy = 1) => Originals(a) = a
  /\ \A a, b : a \subseteq b => Originals(a) \subseteq Originals(b)
  /\ \A a : Originals(a) \subseteq a
BY DEF Originals

LEMMA BranchAccounts ==
  ASSUME IInv, NEW s \in Sources, NEW fresh \in SUBSET Entries, NEW kept \in SUBSET Entries,
         NEW u \in Nat, BranchEffect(s, fresh, kept, u)
  PROVE  Numbered' /\ Apart' /\ Accounted'
<1> DEFINE closed == Behind(s, u)
<1>1. /\ TypeOK /\ Numbered /\ Apart /\ SplitNow /\ OutApart
      /\ given \in [Sources -> Nat]
  BY AccountedIsSplit DEF IInv, TypeOK
<1>2. closed \in SUBSET windows /\ windows \subseteq taken /\ taken \subseteq Entries
  BY <1>1 DEF Behind, SplitNow, Split, TypeOK
<1>3. fresh \cap taken = {}
  <2>1. ASSUME NEW x \in fresh, x \in taken PROVE FALSE
    <3>1. x.from = s /\ x.no = given[s] + 1 /\ given[s] \in Nat
      BY <1>1 DEF BranchEffect
    <3>2. x.no <= given[s]
      BY <1>1, <2>1, <3>1 DEF Numbered
    <3> QED
      BY <3>1, <3>2
  <2> QED
    BY <2>1
<1>4. Originals(closed) = closed
  BY <1>1, <1>2, OriginalsOf DEF Numbered
<1>5. Numbered'
  <2>1. /\ taken' = taken \cup fresh
        /\ given' = [given EXCEPT ![s] = @ + 1] \/ (given' = given /\ fresh = {})
        /\ \A x \in fresh : x.from = s /\ x.no = given[s] + 1 /\ x.copy = 1
    BY DEF BranchEffect
  <2>2. ASSUME NEW x \in taken PROVE x.copy = 1 /\ x.no <= given'[x.from]
    <3>1. x.from \in Sources /\ x.no \in Nat /\ x.copy = 1 /\ x.no <= given[x.from]
      BY <1>1, <1>2 DEF Numbered, Entries
    <3> QED
      BY <1>1, <2>1, <3>1
  <2>3. ASSUME NEW x \in fresh PROVE x.copy = 1 /\ x.no <= given'[x.from]
    BY <1>1, <2>1, <2>3
  <2> QED
    BY <2>1, <2>2, <2>3 DEF Numbered
<1>6. closed \cap Originals(OnWire) = {}
  BY <1>1, <1>2 DEF SplitNow, Split
<1> HIDE DEF closed
<1>7. /\ taken' = taken \cup fresh
      /\ windows' = (windows \ closed) \cup kept
      /\ dropped' = dropped \cup (fresh \ kept)
      /\ kept \in SUBSET fresh
      /\ UNCHANGED <<merged, out, late>>
      /\ \/ /\ wire' = wire \cup {[from |-> s, no |-> sent[s] + 1, entries |-> closed]}
            /\ UNCHANGED lost
         \/ UNCHANGED wire /\ lost' = lost \cup closed
  BY DEF BranchEffect, merger, closed
<1>8. /\ Originals(merged') = Originals(merged)
      /\ Originals(Sent') = Originals(Sent)
      /\ Originals(late') = Originals(late)
  BY <1>7 DEF Sent
<1>9. OutApart'
  BY <1>1, <1>7 DEF OutApart
<1>10. CASE /\ wire' = wire \cup {[from |-> s, no |-> sent[s] + 1, entries |-> closed]}
            /\ UNCHANGED lost
  <2> DEFINE msg == [from |-> s, no |-> sent[s] + 1, entries |-> closed]
  <2>1. msg.entries = closed /\ wire' = wire \cup {msg}
    BY <1>10
  <2> HIDE DEF msg
  <2>2. OnWire' = OnWire \cup closed
    BY <2>1 DEF OnWire
  <2>3. Originals(OnWire') = Originals(OnWire) \cup closed
    BY <1>4, <2>2, OriginalsOf
  <2>4. SplitNow'
    <3>1. Split(taken \cup fresh, (windows \ closed) \cup kept, Originals(OnWire) \cup closed,
                Originals(merged), Originals(Sent), dropped \cup (fresh \ kept),
                Originals(late), Originals(lost))
      BY <1>1, <1>2, <1>3, <1>7, SplitAtBranch DEF SplitNow
    <3>2. Originals(lost') = Originals(lost)
      BY <1>10
    <3> QED
      BY <1>7, <1>8, <2>3, <3>1, <3>2, Zenon DEF SplitNow
  <2>5. Apart'
    <3>1. \A m \in wire : Originals(m.entries) \cap closed = {}
      BY <1>6 DEF OnWire, Originals
    <3>2. Originals(msg.entries) = closed
      BY <1>4, <2>1
    <3> QED
      BY <1>1, <2>1, <3>1, <3>2 DEF Apart
  <2> QED
    BY <1>5, <1>9, <2>4, <2>5, AccountedIsSplit, PTL
<1>11. CASE UNCHANGED wire /\ lost' = lost \cup closed
  <2>1. Originals(OnWire') = Originals(OnWire)
    BY <1>11 DEF OnWire
  <2>2. Originals(lost') = Originals(lost) \cup closed
    BY <1>4, <1>11, OriginalsOf
  <2>3. SplitNow'
    <3>1. Split(taken \cup fresh, (windows \ closed) \cup kept, Originals(OnWire),
                Originals(merged), Originals(Sent), dropped \cup (fresh \ kept),
                Originals(late), Originals(lost) \cup closed)
      BY <1>1, <1>2, <1>3, <1>7, SplitAtBranch DEF SplitNow
    <3> QED
      BY <1>7, <1>8, <2>1, <2>2, <3>1, Zenon DEF SplitNow
  <2>4. Apart'
    BY <1>1, <1>11 DEF Apart
  <2> QED
    BY <1>5, <1>9, <2>3, <2>4, AccountedIsSplit, PTL
<1> QED
  BY <1>7, <1>10, <1>11

\* An output is told by its three fields.
LEMMA OutputsEqual ==
  ASSUME NEW e \in Outputs, NEW f \in Outputs,
         e.end = f.end, e.series = f.series, e.entries = f.entries
  PROVE  e = f
BY DEF Outputs

LEMMA EnvelopesPart ==
  ASSUME NEW entries \in SUBSET Entries
  PROVE  /\ UNION {env.entries : env \in Envelopes(entries)} = entries
         /\ \A e, f \in Envelopes(entries) : e # f => e.entries \cap f.entries = {}
<1>1. ASSUME NEW x \in entries
      PROVE  \E env \in Envelopes(entries) : x \in env.entries
  <2> DEFINE env == [end |-> x.end, series |-> x.series,
                     entries |-> {y \in entries : y.end = x.end /\ y.series = x.series}]
  <2>1. env \in Envelopes(entries) /\ x \in env.entries
    BY DEF Envelopes
  <2> QED
    BY <2>1
<1>2. \A env \in Envelopes(entries) :
        /\ env \in Outputs
        /\ env.entries = {y \in entries : y.end = env.end /\ y.series = env.series}
  BY EnvelopesTyped
<1>3. ASSUME NEW e \in Envelopes(entries), NEW f \in Envelopes(entries),
             NEW x \in e.entries \cap f.entries
      PROVE  e = f
  <2>1. /\ e.entries = {y \in entries : y.end = e.end /\ y.series = e.series}
        /\ f.entries = {y \in entries : y.end = f.end /\ y.series = f.series}
        /\ e \in Outputs /\ f \in Outputs
    BY <1>2
  <2>2. e.end = f.end /\ e.series = f.series
    BY <1>3, <2>1
  <2>3. e.entries = f.entries
    BY <2>1, <2>2
  <2> QED
    BY <2>1, <2>2, <2>3, OutputsEqual
<1> QED
  BY <1>1, <1>2, <1>3

\* What a delivery leaves of the wire's original entries.
LEMMA WireGives ==
  ASSUME IInv, NEW gone \in SUBSET Entries, NEW counts, WireEffect(gone, counts)
  PROVE  /\ Apart'
         /\ Originals(gone) \subseteq Originals(OnWire)
         /\ Originals(OnWire') = Originals(OnWire) \ Originals(gone)
<1>1. CASE gone = {} /\ UNCHANGED <<wire, repeated>>
  BY <1>1 DEF OnWire, Originals, Apart, IInv
<1>2. ASSUME NEW s \in Sources, NEW msg \in NextOf(s), gone = msg.entries, Take(msg)
      PROVE  /\ Apart'
             /\ Originals(gone) \subseteq Originals(OnWire)
             /\ Originals(OnWire') = Originals(OnWire) \ Originals(gone)
  <2>1. TypeOK /\ Apart /\ msg \in wire
    BY MessageEntries DEF IInv
  <2>2. /\ \A m \in wire' : m \in wire \ {msg} \/ m.entries = Second(msg.entries)
        /\ wire \ {msg} \subseteq wire'
        /\ \A x \in Second(msg.entries) : x.copy = 2
    BY <1>2, <2>1, TakeTyped
  <2>3. Originals(Second(msg.entries)) = {}
    BY <2>2 DEF Originals
  <2>4. Apart'
    <3> SUFFICES ASSUME NEW m \in wire', NEW n \in wire', m # n
                 PROVE  Originals(m.entries) \cap Originals(n.entries) = {}
      BY DEF Apart
    <3>1. CASE m \in wire /\ n \in wire
      BY <2>1, <3>1 DEF Apart
    <3>2. CASE m.entries = Second(msg.entries) \/ n.entries = Second(msg.entries)
      BY <2>3, <3>2
    <3> QED
      BY <2>2, <3>1, <3>2
  <2>5. Originals(gone) \subseteq Originals(OnWire)
    BY <1>2, <2>1 DEF OnWire, Originals
  <2>6. ASSUME NEW x \in Originals(OnWire')
        PROVE  x \in Originals(OnWire) \ Originals(gone)
    <3>1. PICK m \in wire' : x \in m.entries /\ x.copy = 1
      BY DEF OnWire, Originals
    <3>2. m \in wire \ {msg}
      BY <2>2, <3>1
    <3>3. x \in Originals(m.entries) /\ x \in Originals(OnWire)
      BY <3>1, <3>2 DEF OnWire, Originals
    <3>4. x \notin Originals(msg.entries)
      BY <2>1, <3>2, <3>3 DEF Apart
    <3> QED
      BY <1>2, <3>3, <3>4
  <2>7. ASSUME NEW x \in Originals(OnWire) \ Originals(gone)
        PROVE  x \in Originals(OnWire')
    <3>1. PICK m \in wire : x \in m.entries /\ x.copy = 1
      BY DEF OnWire, Originals
    <3>2. m # msg
      BY <1>2, <3>1, <2>7 DEF Originals
    <3>3. m \in wire'
      BY <2>2, <3>1, <3>2
    <3> QED
      BY <3>1, <3>3 DEF OnWire, Originals
  <2> QED
    BY <2>4, <2>5, <2>6, <2>7
<1> QED
  BY <1>1, <1>2 DEF WireEffect

LEMMA MergeAccounts ==
  ASSUME IInv, NEW kept \in SUBSET Entries, NEW refused \in SUBSET Entries,
         NEW tardy \in SUBSET Entries, NEW closing \in SUBSET Ends, NEW counts \in [Ends -> Nat],
         MergeEffect(kept, refused, tardy, closing, counts)
  PROVE  Numbered' /\ Apart' /\ Accounted'
<1> DEFINE pool == merged \cup kept
           ready == Ready(closing, pool)
           gone == kept \cup refused \cup tardy
<1>1. /\ TypeOK /\ Ordered /\ Numbered /\ Apart /\ SplitNow /\ OutApart
  BY AccountedIsSplit DEF IInv
<1>2. Closes(closing, pool, counts) /\ WireEffect(gone, counts)
  BY DEF MergeEffect
<1>3. Numbered' /\ UNCHANGED <<taken, windows, dropped>>
  BY <1>1 DEF MergeEffect, branches, Numbered
<1>4. /\ Apart'
      /\ Originals(gone) \subseteq Originals(OnWire)
      /\ Originals(OnWire') = Originals(OnWire) \ Originals(gone)
  BY <1>2, WireGives
<1>5. ready \in SUBSET Entries /\ ready \subseteq pool
  BY <1>1 DEF Ready, TypeOK
<1>6. /\ merged' = pool \ ready
      /\ late' = late \cup tardy
      /\ \/ out' = out \cup Envelopes(ready) /\ lost' = lost \cup refused \cup {}
         \/ out' = out /\ lost' = lost \cup refused \cup ready
  BY <1>2 DEF MergeEffect, Closes
<1> HIDE DEF ready
<1> DEFINE k == Originals(kept)
           r == Originals(refused)
           y == Originals(tardy)
           go == Originals(ready)
<1>7. /\ Originals(gone) = k \cup r \cup y
      /\ k \cap r = {} /\ k \cap y = {} /\ r \cap y = {}
      /\ go \subseteq Originals(merged) \cup k
      /\ Originals(merged') = (Originals(merged) \cup k) \ go
      /\ Originals(late') = Originals(late) \cup y
  <2>1. kept \cap refused = {} /\ kept \cap tardy = {} /\ refused \cap tardy = {}
    BY DEF MergeEffect
  <2>2. k \cap r = {} /\ k \cap y = {} /\ r \cap y = {}
    BY <2>1, OriginalsOf
  <2>3. Originals(gone) = k \cup r \cup y
    BY DEF Originals
  <2>4. Originals(pool) = Originals(merged) \cup k
    BY OriginalsOf
  <2>5. go \subseteq Originals(pool)
    BY <1>5, OriginalsOf, Zenon
  <2>6. Originals(merged') = Originals(pool) \ go
    BY <1>6, OriginalsOf, Zenon
  <2>7. Originals(late') = Originals(late) \cup y
    BY <1>6, OriginalsOf, Zenon
  <2> QED
    BY <2>2, <2>3, <2>4, <2>5, <2>6, <2>7
<1>8. k \in SUBSET Originals(OnWire) /\ r \in SUBSET Originals(OnWire) /\ y \in SUBSET Originals(OnWire)
  BY <1>4, <1>7
<1>9. Originals(OnWire') = Originals(OnWire) \ (k \cup r \cup y)
  BY <1>4, <1>7
<1> HIDE DEF k, r, y, go, gone, pool
<1>10. CASE out' = out \cup Envelopes(ready) /\ lost' = lost \cup refused \cup {}
  <2>1. Sent' = Sent \cup ready
    BY <1>5, <1>10, EnvelopesPart DEF Sent
  <2>2. Originals(Sent') = Originals(Sent) \cup go /\ Originals(lost') = Originals(lost) \cup r
    BY <1>10, <2>1, OriginalsOf DEF go, r
  <2>3. SplitNow'
    <3>1. Split(taken, windows, Originals(OnWire) \ (k \cup r \cup y),
                (Originals(merged) \cup k) \ go, Originals(Sent) \cup go, dropped,
                Originals(late) \cup y, Originals(lost) \cup r)
      BY <1>1, <1>7, <1>8, SplitAtMerge DEF SplitNow
    <3> QED
      BY <1>3, <1>7, <1>9, <2>2, <3>1, Zenon DEF SplitNow
  <2>4. OutApart'
    <3> SUFFICES ASSUME NEW e \in out', NEW f \in out', NEW x \in e.entries \cap f.entries
                 PROVE  e = f
      BY DEF OutApart
    <3>1. e.end = f.end
      <4>1. Ordered'
        BY <1>1, MergeOrder
      <4> QED
        BY <4>1 DEF Ordered
    <3>2. \A new \in out' \ out : \A old \in out : new.end > old.end
      BY <1>1, MergeOrder
    <3>3. \A env \in out : env.end \in Nat
      BY <1>1, EndsNat DEF TypeOK, Outputs
    <3>4. CASE e \in out /\ f \in out
      BY <1>1, <3>4 DEF OutApart
    <3>5. CASE e \notin out /\ f \notin out
      <4>1. e \in Envelopes(ready) /\ f \in Envelopes(ready)
        BY <1>10, <3>5
      <4> QED
        BY <1>5, <4>1, EnvelopesPart
    <3> QED
      BY <3>1, <3>2, <3>3, <3>4, <3>5
  <2> QED
    BY <1>3, <1>4, <2>3, <2>4, AccountedIsSplit, PTL
<1>11. CASE out' = out /\ lost' = lost \cup refused \cup ready
  <2>1. Originals(Sent') = Originals(Sent)
    BY <1>11 DEF Sent
  <2>2. Originals(lost') = Originals(lost) \cup r \cup go
    BY <1>11 DEF Originals, go, r
  <2>3. SplitNow'
    <3>1. Split(taken, windows, Originals(OnWire) \ (k \cup r \cup y),
                (Originals(merged) \cup k) \ go, Originals(Sent), dropped,
                Originals(late) \cup y, Originals(lost) \cup r \cup go)
      BY <1>1, <1>7, <1>8, SplitAtMerge DEF SplitNow
    <3> QED
      BY <1>3, <1>7, <1>9, <2>1, <2>2, <3>1, Zenon DEF SplitNow
  <2>4. OutApart'
    BY <1>1, <1>11 DEF OutApart
  <2> QED
    BY <1>3, <1>4, <2>3, <2>4, AccountedIsSplit, PTL
<1> QED
  BY <1>6, <1>10, <1>11

LEMMA IInvInit == Init => IInv
<1> SUFFICES ASSUME Init PROVE IInv
  OBVIOUS
<1>1. TypeOK /\ Ordered
  BY OrderInit
<1>2. Numbered /\ Apart /\ OutApart
  BY DEF Init, Numbered, Apart, OutApart
<1>3. OnWire = {} /\ Sent = {} /\ Originals({}) = {}
  BY DEF Init, OnWire, Sent, Originals
<1>4. SplitNow
  BY <1>3 DEF Init, SplitNow, Split
<1> QED
  BY <1>1, <1>2, <1>4, AccountedIsSplit DEF IInv

LEMMA IInvStep == IInv /\ [Next]_vars => IInv'
<1> SUFFICES ASSUME IInv, [Next]_vars PROVE IInv'
  OBVIOUS
<1>1. TypeOK /\ Ordered /\ TypeOK' /\ Ordered'
  BY OrderStep DEF IInv
<1>2. CASE UNCHANGED vars
  <2>1. UNCHANGED <<given, windows, merged, taken, dropped, late, lost, wire, out>>
    BY <1>2 DEF vars, branches, merger
  <2>2. Numbered' /\ Apart'
    BY <2>1 DEF IInv, Numbered, Apart
  <2>3. Accounted'
    BY <2>1 DEF IInv, Accounted, Originals, OnWire, Sent
  <2> QED
    BY <1>1, <2>2, <2>3 DEF IInv
<1>3. ASSUME NEW s \in Sources, NEW fresh \in SUBSET Entries, NEW kept \in SUBSET Entries,
             NEW u \in Nat, BranchEffect(s, fresh, kept, u)
      PROVE  IInv'
  BY <1>1, <1>3, BranchAccounts DEF IInv
<1>4. ASSUME NEW kept \in SUBSET Entries, NEW refused \in SUBSET Entries,
             NEW tardy \in SUBSET Entries, NEW closing \in SUBSET Ends,
             NEW counts \in [Ends -> Nat], MergeEffect(kept, refused, tardy, closing, counts)
      PROVE  IInv'
  BY <1>1, <1>4, MergeAccounts DEF IInv
<1> QED
  BY <1>1, <1>2, <1>3, <1>4, StepEffect

\* Every point is, in every series it belongs to, in one place from the branch to
\* the merge's envelopes or among what was dropped, late or lost, whatever the
\* transport and the nodes do (ExactBranch::process, ExactMerge::process).
THEOREM SharesConserved == Spec => []Accounted
<1>1. IInv => Accounted
  BY DEF IInv
<1> QED
  BY <1>1, IInvInit, IInvStep, PTL DEF Spec

-----------------------------------------------------------------------------
(* A complete window is the truth.                                         *)

\* The messages on the wire are in the order sent, of the windows their source has
\* emitted, and a copy is of a window that came twice.
Traced ==
  /\ \A msg \in wire :
       /\ msg.no <= sent[msg.from]
       /\ \A x \in msg.entries : /\ x.from = msg.from /\ x.end <= emitted[x.from]
                                 /\ x.copy = 2 => x.end \in repeated
  /\ \A m, n \in wire :
       /\ m.from = n.from /\ m.no = n.no => m = n
       /\ m.from = n.from /\ m.no < n.no =>
            \A x \in m.entries, y \in n.entries : x.end < y.end
  /\ \A x \in merged : x.copy = 2 => x.end \in repeated
  /\ \A env \in out : \A x \in env.entries : x.copy = 2 => x.end \in repeated
  /\ \A x \in late : x.end <= emittedUntil

\* The sources that have emitted window c and have none of it on the wire.
Past(c) ==
  {s \in Sources : /\ emitted[s] >= c
                   /\ \A msg \in wire : msg.from = s => \A x \in msg.entries : x.end > c}

\* A window that no message brought twice is counted once per source at most.
Counted == \A c \in Ends \ repeated : messages[c] <= Cardinality(Past(c))

\* When a window came out complete, every source was past it.
Settled ==
  Quorum = Cardinality(Sources) =>
    \A env \in out :
      env.end \notin timedOut /\ (\A e \in repeated : e < env.end) =>
        Past(env.end) = Sources /\ \A x \in late : x.end # env.end

Single == \A e, f \in out : e.end = f.end /\ e.series = f.series => e = f

TInv == IInv /\ Traced /\ Counted /\ Settled /\ Single

LEMMA SubsetCounts ==
  ASSUME NEW a \in SUBSET Sources, NEW b \in SUBSET Sources, a \subseteq b
  PROVE  /\ Cardinality(a) \in Nat /\ Cardinality(b) \in Nat /\ Cardinality(a) <= Cardinality(b)
         /\ \A s \in b \ a : Cardinality(a) + 1 <= Cardinality(b)
         /\ Cardinality(b) >= Cardinality(Sources) => b = Sources
<1>1. IsFiniteSet(Sources)
  BY ConstantsAssumption DEF ConstantsAssumption
<1>2. IsFiniteSet(a) /\ IsFiniteSet(b) /\ Cardinality(b) <= Cardinality(Sources)
      /\ (Cardinality(Sources) = Cardinality(b) => Sources = b)
  BY <1>1, FS_Subset
<1>3. Cardinality(a) \in Nat /\ Cardinality(b) \in Nat /\ Cardinality(Sources) \in Nat
  BY <1>1, <1>2, FS_CardinalityType
<1>4. Cardinality(a) <= Cardinality(b)
  BY <1>2, FS_Subset
<1>5. ASSUME NEW s \in b \ a PROVE Cardinality(a) + 1 <= Cardinality(b)
  <2>1. Cardinality(a \cup {s}) = Cardinality(a) + 1
    BY <1>2, <1>5, FS_AddElement
  <2>2. Cardinality(a \cup {s}) <= Cardinality(b)
    BY <1>2, <1>5, FS_Subset
  <2> QED
    BY <2>1, <2>2
<1> QED
  BY <1>2, <1>3, <1>4, <1>5

\* Every message on the wire after a delivery stands for one that was there before.
LEMMA WireImage ==
  ASSUME TypeOK, NEW gone, NEW counts, WireEffect(gone, counts), NEW m \in wire'
  PROVE  \E o \in wire :
           /\ o.from = m.from /\ o.no = m.no
           /\ \A x \in m.entries : \E y \in o.entries : x.from = y.from /\ x.end = y.end
<1>1. CASE m \in wire
  BY <1>1
<1>2. ASSUME m \notin wire, NEW s \in Sources, NEW msg \in NextOf(s), Take(msg)
      PROVE  /\ msg \in wire
             /\ msg.from = m.from /\ msg.no = m.no
             /\ \A x \in m.entries : \E y \in msg.entries : x.from = y.from /\ x.end = y.end
  BY <1>2, TakeTyped, MessageEntries
<1> QED
  BY <1>1, <1>2 DEF WireEffect

\* Once past a window, a source stays past it.
LEMMA BranchPast ==
  ASSUME TInv, NEW s \in Sources, NEW fresh \in SUBSET Entries, NEW kept \in SUBSET Entries,
         NEW u \in Nat, BranchEffect(s, fresh, kept, u), NEW c \in Ends
  PROVE  Past(c) \subseteq Past(c)'
<1> SUFFICES ASSUME NEW t \in Past(c) PROVE t \in Past(c)'
  OBVIOUS
<1>1. t \in Sources /\ emitted[t] >= c
      /\ \A msg \in wire : msg.from = t => \A x \in msg.entries : x.end > c
  BY DEF Past
<1>2. /\ emitted \in [Sources -> Nat] /\ c \in Nat /\ windows \subseteq Entries
      /\ \A x \in windows : x.end > emitted[x.from]
  BY EndsNat DEF TInv, IInv, TypeOK, Ordered
<1>3. emitted'[t] \in Nat /\ emitted'[t] >= emitted[t] /\ emitted[t] \in Nat
  BY <1>1, <1>2 DEF BranchEffect
<1>4. \A m \in wire' : m \in wire \/ (m.from = s /\ m.entries = Behind(s, u))
  BY DEF BranchEffect
<1>5. ASSUME t = s, NEW x \in Behind(s, u) PROVE x.end > c
  <2>1. x.end \in Nat /\ x.end > emitted[s]
    BY <1>2, <1>5, EndsNat DEF Behind, Entries
  <2> QED
    BY <1>1, <1>2, <1>3, <1>5, <2>1
<1>6. \A m \in wire' : m.from = t => \A x \in m.entries : x.end > c
  BY <1>1, <1>4, <1>5
<1>7. emitted'[t] >= c
  BY <1>1, <1>2, <1>3
<1> QED
  BY <1>1, <1>6, <1>7 DEF Past

LEMMA MergePast ==
  ASSUME TInv, NEW gone, NEW counts, WireEffect(gone, counts), UNCHANGED branches, NEW c \in Ends
  PROVE  Past(c) \subseteq Past(c)'
<1> SUFFICES ASSUME NEW t \in Past(c) PROVE t \in Past(c)'
  OBVIOUS
<1>1. t \in Sources /\ emitted[t] >= c
      /\ \A msg \in wire : msg.from = t => \A x \in msg.entries : x.end > c
  BY DEF Past
<1>2. TypeOK /\ emitted' = emitted
  BY DEF TInv, IInv, branches
<1>3. ASSUME NEW m \in wire', m.from = t, NEW x \in m.entries PROVE x.end > c
  <2>1. PICK o \in wire : o.from = m.from /\ \E y \in o.entries : x.end = y.end
    BY <1>2, WireImage
  <2> QED
    BY <1>1, <1>3, <2>1
<1> QED
  BY <1>1, <1>2, <1>3 DEF Past

\* A message that brings a window nothing brought before takes its source past it.
LEMMA DeliveryCounts ==
  ASSUME TInv, NEW s \in Sources, NEW msg \in NextOf(s), Take(msg), UNCHANGED branches,
         NEW c \in EndsOf(msg.entries), c \notin repeated'
  PROVE  s \notin Past(c) /\ s \in Past(c)'
<1>1. TypeOK /\ Traced /\ emitted' = emitted
  BY DEF TInv, IInv, branches
<1>2. msg \in wire /\ msg \in Messages /\ msg.from = s /\ msg.entries \in SUBSET Entries
  BY <1>1, MessageEntries
<1>3. PICK x \in msg.entries : x.end = c
  BY DEF EndsOf
<1>4. x.from = s /\ c <= emitted[s] /\ c \in Nat /\ emitted[s] \in Nat
  BY <1>1, <1>2, <1>3, EndsNat DEF Traced, Entries, TypeOK
<1>5. s \notin Past(c)
  BY <1>2, <1>3, <1>4 DEF Past
<1>6. ASSUME NEW m \in wire', m.from = s, NEW y \in m.entries PROVE y.end > c
  <2>1. m \in wire \ {msg}
    BY <1>1, TakeTyped
  <2>2. m.no \in Nat /\ msg.no \in Nat /\ msg.no <= m.no /\ m.no # msg.no
    BY <1>1, <1>2, <1>6, <2>1 DEF NextOf, Traced, TypeOK, Messages
  <2>3. c < y.end
    BY <1>1, <1>2, <1>3, <1>6, <2>1, <2>2 DEF Traced
  <2>4. y.end \in Nat
    BY <1>1, <2>1, EndsNat DEF TypeOK, Messages, Entries
  <2> QED
    BY <1>4, <2>3, <2>4
<1>7. s \in Past(c)'
  BY <1>1, <1>4, <1>6 DEF Past
<1> QED
  BY <1>5, <1>7

LEMMA MergeCounts ==
  ASSUME TInv, NEW gone, NEW counts \in [Ends -> Nat], WireEffect(gone, counts), UNCHANGED branches,
         NEW c \in Ends, c \notin repeated'
  PROVE  counts[c] <= Cardinality(Past(c)')
<1>1. TypeOK /\ Counted /\ repeated \subseteq repeated'
  BY DEF TInv, IInv, WireEffect, Take
<1>2. Past(c) \in SUBSET Sources /\ Past(c)' \in SUBSET Sources /\ Past(c) \subseteq Past(c)'
  <2>1. Past(c) \subseteq Past(c)'
    BY MergePast
  <2> QED
    BY <2>1 DEF Past
<1>3. messages[c] \in Nat /\ messages[c] <= Cardinality(Past(c))
  BY <1>1 DEF Counted, TypeOK
<1>4. /\ Cardinality(Past(c)) \in Nat /\ Cardinality(Past(c)') \in Nat
      /\ Cardinality(Past(c)) <= Cardinality(Past(c)')
      /\ \A s \in Past(c)' \ Past(c) : Cardinality(Past(c)) + 1 <= Cardinality(Past(c)')
  BY <1>2, SubsetCounts
<1>5. CASE counts[c] = messages[c]
  BY <1>3, <1>4, <1>5
<1>6. ASSUME NEW s \in Sources, NEW msg \in NextOf(s), counts = Carried(EndsOf(msg.entries)),
             Take(msg), counts[c] # messages[c]
      PROVE  counts[c] <= Cardinality(Past(c)')
  <2>1. counts[c] = messages[c] + 1 /\ c \in EndsOf(msg.entries)
    BY <1>6 DEF Carried
  <2>2. s \in Past(c)' \ Past(c)
    BY <1>6, <2>1, DeliveryCounts
  <2> QED
    BY <1>3, <1>4, <2>1, <2>2
<1> QED
  BY <1>5, <1>6 DEF WireEffect

\* What the counts say is complete, every source is past.
LEMMA CompletePast ==
  ASSUME TInv, NEW gone, NEW counts \in [Ends -> Nat], WireEffect(gone, counts), UNCHANGED branches,
         Quorum = Cardinality(Sources), NEW e \in Complete(counts), \A r \in repeated' : r < e
  PROVE  Past(e)' = Sources
<1>1. PICK c \in Ends : e <= c /\ counts[c] >= Quorum
  BY DEF Complete
<1>2. e \in Nat /\ c \in Nat /\ counts[c] \in Nat
  BY <1>1, EndsNat DEF Complete
<1>3. c \notin repeated'
  BY <1>1, <1>2
<1>4. counts[c] <= Cardinality(Past(c)')
  BY <1>3, MergeCounts
<1>5. Past(c)' \in SUBSET Sources
  BY DEF Past
<1>6. Cardinality(Past(c)') \in Nat /\ Cardinality(Sources) \in Nat
  <2>1. Sources \in SUBSET Sources
    OBVIOUS
  <2> QED
    BY <1>5, <2>1, SubsetCounts
<1>7. Past(c)' = Sources
  BY <1>1, <1>2, <1>4, <1>5, <1>6, SubsetCounts
<1>8. TypeOK /\ emitted' = emitted
  BY DEF TInv, IInv, branches
<1>9. ASSUME NEW t \in Sources PROVE t \in Past(e)'
  <2>1. emitted'[t] >= c /\ emitted'[t] \in Nat
    BY <1>7, <1>8 DEF Past, TypeOK
  <2>2. ASSUME NEW m \in wire', m.from = t, NEW x \in m.entries PROVE x.end > e
    <3>1. x.end > c
      BY <1>7, <2>2 DEF Past
    <3>2. PICK o \in wire : \E y \in o.entries : x.end = y.end
      BY <1>8, <2>2, WireImage
    <3>3. x.end \in Nat
      BY <1>8, <3>2, EndsNat DEF TypeOK, Messages, Entries
    <3> QED
      BY <1>1, <1>2, <3>1, <3>3
  <2> QED
    BY <1>1, <1>2, <2>1, <2>2 DEF Past
<1>10. Past(e)' \subseteq Sources
  BY DEF Past
<1> QED
  BY <1>9, <1>10

LEMMA BranchTraced ==
  ASSUME TInv, NEW s \in Sources, NEW fresh \in SUBSET Entries, NEW kept \in SUBSET Entries,
         NEW u \in Nat, BranchEffect(s, fresh, kept, u)
  PROVE  Traced'
<1>1. /\ TypeOK /\ Ordered /\ Traced
      /\ \A x \in windows : x.copy = 1
  <2>1. windows \subseteq taken /\ Numbered
    BY AccountedIsSplit DEF TInv, IInv, SplitNow, Split
  <2> QED
    BY <2>1 DEF TInv, IInv, Numbered
<1>2. /\ emitted \in [Sources -> Nat] /\ sent \in [Sources -> Nat] /\ wire \subseteq Messages
      /\ windows \in SUBSET Entries
  BY <1>1 DEF TypeOK
<1>3. /\ emitted' = [emitted EXCEPT ![s] = u] /\ u >= emitted[s]
      /\ UNCHANGED <<merged, out, late, emittedUntil, repeated>>
  BY DEF BranchEffect, merger
<1>4. \A t \in Sources : emitted'[t] >= emitted[t] /\ emitted'[t] \in Nat /\ emitted[t] \in Nat
  BY <1>2, <1>3
<1>5. ASSUME NEW x \in Behind(s, u)
      PROVE  x.from = s /\ x.end <= emitted'[s] /\ x.copy # 2 /\ x.end > emitted[s] /\ x.end \in Nat
  <2>1. x \in windows /\ x.from = s /\ x.end <= u
    BY DEF Behind
  <2>2. x.end \in Nat /\ x.copy = 1 /\ x.end > emitted[s]
    BY <1>1, <1>2, <2>1, EndsNat DEF Ordered, Entries
  <2>3. emitted'[s] = u
    BY <1>2, <1>3
  <2> QED
    BY <2>1, <2>2, <2>3
<1>6. ASSUME NEW m \in wire
      PROVE  /\ m.no \in Nat /\ m.from \in Sources /\ sent[m.from] \in Nat /\ m.no <= sent[m.from]
             /\ \A x \in m.entries : /\ x.from = m.from /\ x.end \in Nat
                                     /\ x.end <= emitted[x.from] /\ x.end <= emitted'[x.from]
                                     /\ x.copy = 2 => x.end \in repeated'
  <2>1. m \in Messages /\ m.entries \in SUBSET Entries
    BY <1>2 DEF Messages
  <2>2. m.no \in Nat /\ m.from \in Sources /\ sent[m.from] \in Nat /\ m.no <= sent[m.from]
    BY <1>1, <1>2, <2>1 DEF Messages, Traced
  <2>3. ASSUME NEW x \in m.entries
        PROVE  /\ x.from = m.from /\ x.end \in Nat
               /\ x.end <= emitted[x.from] /\ x.end <= emitted'[x.from]
               /\ x.copy = 2 => x.end \in repeated'
    <3>1. x.end \in Nat /\ x.from = m.from /\ x.end <= emitted[x.from] /\ (x.copy = 2 => x.end \in repeated)
      BY <1>1, <2>1, EndsNat DEF Traced, Entries
    <3> QED
      BY <1>3, <1>4, <2>2, <3>1
  <2> QED
    BY <2>2, <2>3
<1>7. /\ \A x \in merged' : x.copy = 2 => x.end \in repeated'
      /\ \A env \in out' : \A x \in env.entries : x.copy = 2 => x.end \in repeated'
      /\ \A x \in late' : x.end <= emittedUntil'
  BY <1>1, <1>3 DEF Traced
<1>8. CASE UNCHANGED <<sent, wire>>
  BY <1>1, <1>6, <1>7, <1>8 DEF Traced
<1>9. ASSUME sent' = [sent EXCEPT ![s] = @ + 1],
             wire' = wire \cup {[from |-> s, no |-> sent[s] + 1, entries |-> Behind(s, u)]}
      PROVE  Traced'
  <2> DEFINE new == [from |-> s, no |-> sent[s] + 1, entries |-> Behind(s, u)]
  <2>1. new.from = s /\ new.no = sent[s] + 1 /\ new.entries = Behind(s, u) /\ wire' = wire \cup {new}
    BY <1>9
  <2> HIDE DEF new
  <2>2. \A t \in Sources : sent'[t] \in Nat /\ sent[t] \in Nat /\ sent'[t] >= sent[t]
    BY <1>2, <1>9
  <2>3. sent'[s] = sent[s] + 1
    BY <1>2, <1>9
  <2>4. \A m \in wire' :
          /\ m.no <= sent'[m.from]
          /\ \A x \in m.entries : /\ x.from = m.from /\ x.end <= emitted'[x.from]
                                  /\ x.copy = 2 => x.end \in repeated'
    <3>1. ASSUME NEW m \in wire PROVE m.no <= sent'[m.from]
      BY <1>6, <2>2
    <3>2. new.no <= sent'[new.from]
      BY <2>1, <2>2, <2>3
    <3>3. \A x \in new.entries : /\ x.from = new.from /\ x.end <= emitted'[x.from]
                                 /\ x.copy = 2 => x.end \in repeated'
      BY <1>5, <2>1
    <3> QED
      BY <1>6, <2>1, <3>1, <3>2, <3>3
  <2>5. ASSUME NEW m \in wire, m.from = s
        PROVE  /\ m.no < new.no /\ ~(new.no < m.no) /\ m.no # new.no
               /\ \A x \in m.entries, y \in new.entries : x.end < y.end
    <3>1. m.no < new.no /\ ~(new.no < m.no) /\ m.no # new.no
      BY <1>6, <2>1, <2>2, <2>5
    <3>2. \A x \in m.entries, y \in new.entries : x.end < y.end
      BY <1>2, <1>5, <1>6, <2>1, <2>5
    <3> QED
      BY <3>1, <3>2
  <2>6. ~(new.no < new.no)
    BY <2>1, <2>2
  <2>7. ASSUME NEW m \in wire', NEW n \in wire'
        PROVE  /\ m.from = n.from /\ m.no = n.no => m = n
               /\ m.from = n.from /\ m.no < n.no =>
                    \A x \in m.entries, y \in n.entries : x.end < y.end
    <3>1. CASE m \in wire /\ n \in wire
      BY <1>1, <3>1 DEF Traced
    <3>2. CASE m \in wire /\ n = new
      BY <2>1, <2>5, <3>2
    <3>3. CASE m = new /\ n \in wire
      BY <2>1, <2>5, <3>3
    <3>4. CASE m = new /\ n = new
      BY <2>6, <3>4
    <3> QED
      BY <2>1, <3>1, <3>2, <3>3, <3>4
  <2> QED
    BY <1>7, <2>4, <2>7 DEF Traced
<1> QED
  BY <1>8, <1>9 DEF BranchEffect

LEMMA MergeTraced ==
  ASSUME TInv, NEW kept \in SUBSET Entries, NEW refused \in SUBSET Entries,
         NEW tardy \in SUBSET Entries, NEW closing \in SUBSET Ends, NEW counts \in [Ends -> Nat],
         MergeEffect(kept, refused, tardy, closing, counts)
  PROVE  Traced'
<1> DEFINE gone == kept \cup refused \cup tardy
<1>1. /\ TypeOK /\ Traced /\ WireEffect(gone, counts) /\ Closes(closing, merged \cup kept, counts)
      /\ UNCHANGED <<sent, emitted>> /\ late' = late \cup tardy
      /\ \A x \in tardy : x.end <= emittedUntil
  BY DEF TInv, IInv, MergeEffect, branches
<1>2. repeated \subseteq repeated'
  BY <1>1 DEF WireEffect, Take
<1>3. \A x \in gone : x.copy = 2 => x.end \in repeated
  BY <1>1, MessageEntries DEF WireEffect, Traced
<1>4. \A x \in merged' : x.copy = 2 => x.end \in repeated'
  BY <1>1, <1>2, <1>3 DEF Closes, Traced
<1>5. ASSUME NEW x \in late' PROVE x.end <= emittedUntil'
  <2>1. x.end <= emittedUntil /\ x.end \in Nat
    BY <1>1, EndsNat DEF Traced, TypeOK, Entries
  <2>2. emittedUntil' >= emittedUntil /\ emittedUntil' \in Nat /\ emittedUntil \in Nat
    BY <1>1 DEF Closes, TypeOK
  <2> QED
    BY <2>1, <2>2
<1>6. ASSUME NEW m \in wire' PROVE m.no <= sent'[m.from]
  BY <1>1, WireImage DEF Traced
<1>7. ASSUME NEW m \in wire', NEW x \in m.entries
      PROVE  x.from = m.from /\ x.end <= emitted'[x.from]
  BY <1>1, <1>7, WireImage DEF Traced
<1>8. ASSUME NEW m \in wire', NEW x \in m.entries, x.copy = 2
      PROVE  x.end \in repeated'
  <2>1. CASE m \in wire
    BY <1>1, <1>2, <1>8, <2>1 DEF Traced
  <2>2. ASSUME m \notin wire, NEW s \in Sources, NEW msg \in NextOf(s), Take(msg)
        PROVE  x.end \in repeated'
    BY <1>1, <1>8, <2>2, TakeTyped DEF EndsOf
  <2> QED
    BY <1>1, <2>1, <2>2 DEF WireEffect
<1>9. ASSUME NEW m \in wire', NEW n \in wire', m.from = n.from, m.no < n.no,
             NEW x \in m.entries, NEW y \in n.entries
      PROVE  x.end < y.end
  <2>1. PICK o \in wire : /\ o.from = m.from /\ o.no = m.no
                          /\ \E v \in o.entries : x.end = v.end
    BY <1>1, <1>9, WireImage
  <2>2. PICK q \in wire : /\ q.from = n.from /\ q.no = n.no
                          /\ \E v \in q.entries : y.end = v.end
    BY <1>1, <1>9, WireImage
  <2> QED
    BY <1>1, <1>9, <2>1, <2>2 DEF Traced
<1>10. ASSUME NEW m \in wire', NEW n \in wire', m.from = n.from, m.no = n.no
       PROVE  m = n
  <2>1. CASE m \in wire /\ n \in wire
    BY <1>1, <1>10, <2>1 DEF Traced
  <2>2. ASSUME NEW s \in Sources, NEW msg \in NextOf(s), Take(msg)
        PROVE  m = n
    <3>1. msg \in wire /\ msg.from = s
      BY <1>1, <2>2, MessageEntries
    <3>2. /\ \A o \in wire' : o \in wire \ {msg} \/ (o.from = s /\ o.no = msg.no /\ o.entries = Second(msg.entries))
          /\ wire' \subseteq Messages
      BY <1>1, <2>2, TakeTyped
    <3>3. ASSUME NEW o \in wire \ {msg} PROVE ~(o.from = s /\ o.no = msg.no)
      BY <1>1, <3>1, <3>3 DEF Traced
    <3>4. CASE m.entries = Second(msg.entries) /\ n.entries = Second(msg.entries)
      BY <1>10, <3>2, <3>4 DEF Messages
    <3> QED
      BY <1>10, <2>1, <3>2, <3>3, <3>4
  <2> QED
    BY <1>1, <2>1, <2>2 DEF WireEffect
<1>11. ASSUME NEW env \in out', NEW x \in env.entries, x.copy = 2
       PROVE  x.end \in repeated'
  <2>1. CASE env \in out
    BY <1>1, <1>2, <1>11, <2>1 DEF Traced
  <2>2. CASE env \in Envelopes(Ready(closing, merged \cup kept))
    <3> DEFINE ready == Ready(closing, merged \cup kept)
    <3>1. ready \in SUBSET Entries /\ \A z \in ready : z.copy = 2 => z.end \in repeated
      BY <1>1, <1>3 DEF Ready, TypeOK, Traced
    <3>2. env \in Envelopes(ready)
      BY <2>2
    <3> HIDE DEF ready
    <3>3. env.entries \subseteq ready
      BY <3>1, <3>2, EnvelopesTyped
    <3> QED
      BY <1>2, <1>11, <3>1, <3>3
  <2> QED
    BY <1>1, <2>1, <2>2 DEF Closes
<1> QED
  BY <1>4, <1>5, <1>6, <1>7, <1>8, <1>9, <1>10, <1>11 DEF Traced

LEMMA BranchTruth ==
  ASSUME TInv, NEW s \in Sources, NEW fresh \in SUBSET Entries, NEW kept \in SUBSET Entries,
         NEW u \in Nat, BranchEffect(s, fresh, kept, u)
  PROVE  Counted' /\ Settled' /\ Single'
<1>1. UNCHANGED <<messages, out, timedOut, late, repeated>>
  BY DEF BranchEffect, merger
<1>2. Counted /\ Settled /\ Single /\ TypeOK
  BY DEF TInv, IInv
<1>3. \A c \in Ends : Past(c) \subseteq Past(c)' /\ Past(c)' \subseteq Sources
  <2>1. ASSUME NEW c \in Ends PROVE Past(c) \subseteq Past(c)'
    BY BranchPast
  <2> QED
    BY <2>1 DEF Past
<1>4. Counted'
  <2> SUFFICES ASSUME NEW c \in Ends, c \notin repeated'
               PROVE  messages'[c] <= Cardinality(Past(c)')
    BY DEF Counted
  <2>1. messages[c] \in Nat /\ messages[c] <= Cardinality(Past(c))
    BY <1>1, <1>2 DEF Counted, TypeOK
  <2>2. Past(c) \in SUBSET Sources /\ Past(c)' \in SUBSET Sources /\ Past(c) \subseteq Past(c)'
    BY <1>3 DEF Past
  <2>3. /\ Cardinality(Past(c)) \in Nat /\ Cardinality(Past(c)') \in Nat
        /\ Cardinality(Past(c)) <= Cardinality(Past(c)')
    BY <2>2, SubsetCounts
  <2> QED
    BY <1>1, <2>1, <2>3
<1>5. Settled'
  <2> SUFFICES ASSUME Quorum = Cardinality(Sources), NEW env \in out',
                      env.end \notin timedOut', \A e \in repeated' : e < env.end
               PROVE  Past(env.end)' = Sources /\ \A x \in late' : x.end # env.end
    BY DEF Settled
  <2>1. Past(env.end) = Sources /\ \A x \in late : x.end # env.end
    BY <1>1, <1>2 DEF Settled
  <2>2. env.end \in Ends
    BY <1>1, <1>2 DEF TypeOK, Outputs
  <2> QED
    BY <1>1, <1>3, <2>1, <2>2
<1>6. Single'
  BY <1>1, <1>2 DEF Single
<1> QED
  BY <1>4, <1>5, <1>6

LEMMA MergeTruth ==
  ASSUME TInv, NEW kept \in SUBSET Entries, NEW refused \in SUBSET Entries,
         NEW tardy \in SUBSET Entries, NEW closing \in SUBSET Ends, NEW counts \in [Ends -> Nat],
         MergeEffect(kept, refused, tardy, closing, counts)
  PROVE  Counted' /\ Settled' /\ Single'
<1> DEFINE gone == kept \cup refused \cup tardy
           pool == merged \cup kept
           ready == Ready(closing, pool)
<1>1. /\ TypeOK /\ Ordered /\ Traced /\ Settled /\ Single
      /\ WireEffect(gone, counts) /\ Closes(closing, pool, counts)
      /\ UNCHANGED branches /\ late' = late \cup tardy
      /\ \A x \in tardy : x.end <= emittedUntil
      /\ timedOut' = timedOut \cup (EndsOf(pool) \cap (closing \ Complete(counts)))
  BY DEF TInv, IInv, MergeEffect
<1>2. \A c \in Ends : Past(c) \subseteq Past(c)' /\ Past(c)' \subseteq Sources
  <2>1. ASSUME NEW c \in Ends PROVE Past(c) \subseteq Past(c)'
    BY <1>1, MergePast
  <2> QED
    BY <2>1 DEF Past
<1>3. Counted'
  <2> SUFFICES ASSUME NEW c \in Ends, c \notin repeated'
               PROVE  messages'[c] <= Cardinality(Past(c)')
    BY DEF Counted
  <2>1. counts[c] <= Cardinality(Past(c)')
    BY <1>1, MergeCounts
  <2>2. Cardinality(Past(c)') \in Nat
    <3>1. Past(c)' \in SUBSET Sources
      BY <1>2
    <3> QED
      BY <3>1, SubsetCounts
  <2>3. messages'[c] = IF c \in closing THEN 0 ELSE counts[c]
    BY <1>1 DEF Closes
  <2> QED
    BY <2>1, <2>2, <2>3
<1>4. ready \in SUBSET Entries /\ ready \subseteq pool
  BY <1>1 DEF Ready, TypeOK
<1>5. \A env \in out' : env \in out \/ env \in Envelopes(ready)
  BY <1>1 DEF Closes
<1>6. \A env \in out' \ out : env.end > emittedUntil /\ \A old \in out : env.end > old.end
  BY <1>1, MergeOrder
<1> HIDE DEF ready
<1>7. \A env \in Envelopes(ready) :
        /\ env \in Outputs
        /\ env.entries = {y \in ready : y.end = env.end /\ y.series = env.series}
        /\ \E x \in ready : env.end = x.end
  BY <1>4, EnvelopesTyped
<1>8. Settled'
  <2> SUFFICES ASSUME Quorum = Cardinality(Sources), NEW env \in out',
                      env.end \notin timedOut', \A e \in repeated' : e < env.end
               PROVE  Past(env.end)' = Sources /\ \A x \in late' : x.end # env.end
    BY DEF Settled
  <2>1. repeated \subseteq repeated' /\ timedOut \subseteq timedOut'
    BY <1>1 DEF WireEffect, Take
  <2>2. CASE env \in out
    <3>1. Past(env.end) = Sources /\ \A x \in late : x.end # env.end
      BY <1>1, <2>1, <2>2 DEF Settled
    <3>2. env.end \in Ends /\ env.end \in Nat
      BY <1>1, <2>2, EndsNat DEF TypeOK, Outputs
    <3>3. Past(env.end)' = Sources
      BY <1>2, <3>1, <3>2
    <3>4. ASSUME NEW x \in tardy PROVE x.end # env.end
      <4>1. PICK s \in Sources : \E msg \in NextOf(s) : gone = msg.entries
        BY <1>1 DEF WireEffect
      <4>2. PICK msg \in NextOf(s) : gone = msg.entries
        BY <4>1
      <4>3. msg \in wire /\ msg.from = s /\ x \in msg.entries
        BY <1>1, <4>2, MessageEntries
      <4>4. x.end > env.end
        BY <3>1, <4>3 DEF Past
      <4> QED
        BY <3>2, <4>4, EndsNat DEF Entries
    <3> QED
      BY <1>1, <3>1, <3>3, <3>4
  <2>3. CASE env \notin out
    <3>1. env.end > emittedUntil /\ env \in Envelopes(ready)
      BY <1>5, <1>6, <2>3
    <3>2. PICK x \in ready : env.end = x.end
      BY <1>7, <3>1
    <3>3. env.end \in closing /\ env.end \in EndsOf(pool)
      BY <1>4, <3>2 DEF ready, Ready, EndsOf
    <3>4. env.end \in Complete(counts)
      BY <1>1, <3>3
    <3>5. Past(env.end)' = Sources
      BY <1>1, <3>4, CompletePast
    <3>6. \A y \in late' : y.end <= emittedUntil /\ y.end \in Nat
      BY <1>1, EndsNat DEF Traced, TypeOK, Entries
    <3>7. emittedUntil \in Nat /\ env.end \in Nat
      BY <1>1, <3>4, EndsNat DEF TypeOK, Complete
    <3> QED
      BY <3>1, <3>5, <3>6, <3>7
  <2> QED
    BY <2>2, <2>3
<1>9. Single'
  <2> SUFFICES ASSUME NEW e \in out', NEW f \in out', e.end = f.end, e.series = f.series
               PROVE  e = f
    BY DEF Single
  <2>1. CASE e \in out /\ f \in out
    BY <1>1, <2>1 DEF Single
  <2>2. CASE e \notin out /\ f \notin out
    <3>1. /\ e.entries = {y \in ready : y.end = e.end /\ y.series = e.series}
          /\ f.entries = {y \in ready : y.end = f.end /\ y.series = f.series}
          /\ e \in Outputs /\ f \in Outputs
      BY <1>5, <1>7, <2>2
    <3>2. e.entries = f.entries
      BY <3>1
    <3> QED
      BY <3>1, <3>2, OutputsEqual
  <2>3. \A env \in out : env.end \in Nat
    BY <1>1, EndsNat DEF TypeOK, Outputs
  <2> QED
    BY <1>6, <2>1, <2>2, <2>3
<1> QED
  BY <1>3, <1>8, <1>9

LEMMA TInvInit == Init => TInv
<1> SUFFICES ASSUME Init PROVE TInv
  OBVIOUS
<1>1. IInv
  BY IInvInit
<1>2. Traced /\ Settled /\ Single
  BY DEF Init, Traced, Settled, Single
<1>3. Counted
  <2>1. ASSUME NEW c \in Ends PROVE messages[c] <= Cardinality(Past(c))
    <3>1. Past(c) \in SUBSET Sources
      BY DEF Past
    <3>2. Cardinality(Past(c)) \in Nat
      BY <3>1, SubsetCounts
    <3> QED
      BY <3>2 DEF Init
  <2> QED
    BY <2>1 DEF Counted
<1> QED
  BY <1>1, <1>2, <1>3 DEF TInv

LEMMA TInvStep == TInv /\ [Next]_vars => TInv'
<1> SUFFICES ASSUME TInv, [Next]_vars PROVE TInv'
  OBVIOUS
<1>1. IInv' /\ TypeOK /\ Ordered
  BY IInvStep DEF TInv, IInv
<1>2. CASE UNCHANGED vars
  <2>1. UNCHANGED <<emitted, sent, wire, merged, late, emittedUntil, repeated, messages, out, timedOut>>
    BY <1>2 DEF vars, branches, merger
  <2>2. Traced'
    BY <2>1 DEF TInv, Traced
  <2>3. \A c : Past(c)' = Past(c)
    BY <2>1 DEF Past
  <2>4. Counted' /\ Settled' /\ Single'
    BY <2>1, <2>3 DEF TInv, Counted, Settled, Single
  <2> QED
    BY <1>1, <2>2, <2>4 DEF TInv
<1>3. ASSUME NEW s \in Sources, NEW fresh \in SUBSET Entries, NEW kept \in SUBSET Entries,
             NEW u \in Nat, BranchEffect(s, fresh, kept, u)
      PROVE  TInv'
  <2>1. Traced'
    BY <1>3, BranchTraced
  <2>2. Counted' /\ Settled' /\ Single'
    BY <1>3, BranchTruth
  <2> QED
    BY <1>1, <2>1, <2>2 DEF TInv
<1>4. ASSUME NEW kept \in SUBSET Entries, NEW refused \in SUBSET Entries,
             NEW tardy \in SUBSET Entries, NEW closing \in SUBSET Ends,
             NEW counts \in [Ends -> Nat], MergeEffect(kept, refused, tardy, closing, counts)
      PROVE  TInv'
  <2>1. Traced'
    BY <1>4, MergeTraced
  <2>2. Counted' /\ Settled' /\ Single'
    BY <1>4, MergeTruth
  <2> QED
    BY <1>1, <2>1, <2>2 DEF TInv
<1> QED
  BY <1>1, <1>2, <1>3, <1>4, StepEffect

\* A window that every source is past holds all that was taken in for it and not
\* dropped or lost, once.
LEMMA SettledIsTruth == TInv => GroundTruth
<1> SUFFICES ASSUME TInv, Quorum = Cardinality(Sources), NEW env \in out,
                    env.end \notin timedOut, \A e \in repeated : e < env.end
             PROVE  /\ \A s \in Sources : emitted[s] >= env.end
                    /\ env.entries =
                         {x \in taken : x.end = env.end /\ x.series = env.series} \ (dropped \cup lost)
  BY DEF GroundTruth
<1>1. TypeOK /\ Ordered /\ Numbered /\ Traced /\ Single /\ SplitNow
  BY AccountedIsSplit DEF TInv, IInv
<1>2. Past(env.end) = Sources /\ \A x \in late : x.end # env.end
  BY DEF TInv, Settled
<1>3. \A s \in Sources : emitted[s] >= env.end
  BY <1>2 DEF Past
<1>4. env \in Outputs /\ env.end \in Nat /\ env.end <= emittedUntil /\ emittedUntil \in Nat
  BY <1>1, EndsNat DEF TypeOK, Ordered, Outputs
<1>5. ASSUME NEW x \in taken, x.end = env.end, x.series = env.series, x \notin dropped, x \notin lost
      PROVE  x \in env.entries
  <2>1. x \in Entries /\ x.copy = 1 /\ x.end \in Nat /\ x.from \in Sources
    BY <1>1, EndsNat DEF TypeOK, Numbered, Entries
  <2>2. x \notin windows
    BY <1>1, <1>3, <1>4, <1>5, <2>1 DEF Ordered, TypeOK
  <2>3. x \notin OnWire
    <3>1. ASSUME NEW msg \in wire, x \in msg.entries PROVE FALSE
      <4>1. msg.from \in Sources
        BY <1>1 DEF TypeOK, Messages
      <4>2. x.end > env.end
        BY <1>2, <3>1, <4>1 DEF Past
      <4> QED
        BY <1>4, <1>5, <4>2
    <3> QED
      BY <3>1 DEF OnWire
  <2>4. x \notin merged
    BY <1>1, <1>4, <1>5 DEF Ordered
  <2>5. x \notin late
    BY <1>2, <1>5
  <2>6. x \in Originals(Sent)
    <3>1. Originals(OnWire) \subseteq OnWire /\ Originals(merged) \subseteq merged
          /\ Originals(late) \subseteq late /\ Originals(lost) \subseteq lost
      BY OriginalsOf
    <3> QED
      BY <1>1, <1>5, <2>2, <2>3, <2>4, <2>5, <3>1 DEF SplitNow, Split
  <2>7. PICK other \in out : x \in other.entries
    BY <2>6 DEF Originals, Sent
  <2>8. other.end = env.end /\ other.series = env.series
    BY <1>1, <1>5, <2>7 DEF Ordered
  <2> QED
    BY <1>1, <2>7, <2>8 DEF Single
<1>6. ASSUME NEW x \in env.entries
      PROVE  x \in {y \in taken : y.end = env.end /\ y.series = env.series} \ (dropped \cup lost)
  <2>1. x \in Entries /\ x.end = env.end /\ x.series = env.series
    BY <1>1, <1>4 DEF Ordered, Outputs
  <2>2. x.copy = 1
    <3>1. x.end \notin repeated
      BY <1>4, <2>1
    <3>2. x.copy # 2 /\ x.copy \in {1, 2}
      BY <1>1, <2>1, <3>1 DEF Traced, Entries
    <3> QED
      BY <3>2
  <2>3. x \in Originals(Sent)
    BY <2>2 DEF Originals, Sent
  <2>4. x \in taken /\ x \notin dropped /\ x \notin Originals(lost)
    BY <1>1, <2>3 DEF SplitNow, Split
  <2> QED
    BY <2>1, <2>2, <2>4 DEF Originals
<1> QED
  BY <1>3, <1>5, <1>6

\* With a quorum of all branches, a window that no clock closed and no repeat
\* completed holds every point of its series that was taken in and not dropped or
\* lost, and none twice, whatever order the branches' messages come in (due and
\* carried, baseline_nodes.rs:350-408).
THEOREM CompleteIsTrue == Spec => []GroundTruth
BY TInvInit, TInvStep, SettledIsTruth, PTL DEF Spec

=============================================================================
