------------------------- MODULE RawPipelineProofs -------------------------
(***************************************************************************)
(* The generator keeps to its scenario and the raw sink loses track of no  *)
(* point; its reports are whole and tell when the last point was stored.   *)
(*                                                                         *)
(* Every handler of the sink but one ends in Due.  What comes before it    *)
(* leaves a set of open windows and of messages in flight that are not the *)
(* sink's state yet; the parts of the invariant are therefore operators on *)
(* such sets, kept first by what a handler does to them and then by Due.   *)
(***************************************************************************)
EXTENDS RawPipeline, FiniteSetTheorems, WellFoundedInduction, TLAPS

-----------------------------------------------------------------------------
(* Arithmetic.                                                             *)

LEMMA DivMod ==
  ASSUME NEW a \in Nat, NEW b \in Nat, b > 0
  PROVE  /\ a \div b \in Nat /\ a % b \in 0..b - 1
         /\ a = (a \div b) * b + (a % b)
  OBVIOUS

\* A quotient is what its multiples say it is.
LEMMA DivIs ==
  ASSUME NEW a \in Nat, NEW b \in Nat, b > 0, NEW q \in Nat, q * b <= a, a < q * b + b
  PROVE  a \div b = q
<1> DEFINE d == a \div b
           r == a % b
<1>1. d \in Nat /\ r \in 0..b - 1 /\ a = d * b + r
  BY DivMod
<1> HIDE DEF d, r
<1>2. ASSUME NEW x \in Nat, NEW y \in Nat, x < y PROVE x * b + b <= y * b
  <2>1. PICK k \in Nat : y = x + 1 + k
    <3>1. y - x - 1 \in Nat /\ y = x + 1 + (y - x - 1)
      BY <1>2
    <3> QED
      BY <3>1
  <2>2. y * b = x * b + b + k * b
    BY <2>1
  <2>3. k * b \in Nat /\ x * b \in Nat
    OBVIOUS
  <2> QED
    BY <2>2, <2>3
<1>3. q * b \in Nat /\ d * b \in Nat
  BY <1>1
<1>4. ~(d < q)
  BY <1>1, <1>2, <1>3
<1>5. ~(q < d)
  BY <1>1, <1>2, <1>3
<1>6. d = q
  BY <1>1, <1>4, <1>5
<1> QED
  BY <1>6 DEF d

LEMMA DivMono ==
  ASSUME NEW a \in Nat, NEW c \in Nat, a <= c, NEW b \in Nat, b > 0
  PROVE  a \div b <= c \div b
<1> DEFINE x == a \div b
           y == c \div b
<1>1. /\ x \in Nat /\ y \in Nat /\ x * b \in Nat /\ y * b \in Nat
      /\ x * b <= a /\ c < y * b + b
  <2>1. /\ x \in Nat /\ a % b \in 0..b - 1 /\ a = x * b + (a % b)
        /\ y \in Nat /\ c % b \in 0..b - 1 /\ c = y * b + (c % b)
    BY DivMod
  <2> HIDE DEF x, y
  <2>2. x * b \in Nat /\ y * b \in Nat
    BY <2>1
  <2> QED
    BY <2>1, <2>2
<1> HIDE DEF x, y
<1>2. CASE x <= y
  BY <1>2 DEF x, y
<1>3. CASE x > y
  <2>1. x - y - 1 \in Nat
    BY <1>1, <1>3
  <2>2. x * b = y * b + b + (x - y - 1) * b /\ (x - y - 1) * b \in Nat
    BY <1>1, <2>1
  <2> QED
    BY <1>1, <2>2
<1> QED
  BY <1>1, <1>2, <1>3

\* The windows are half open and in the order of the times in them.
LEMMA EndOfBounds ==
  ASSUME NEW ts \in Nat
  PROVE  EndOf(ts) \in Nat /\ EndOf(ts) > ts /\ EndOf(ts) > 0
<1> DEFINE q == ts \div Window
<1>1. q \in Nat /\ ts % Window \in 0..Window - 1 /\ ts = q * Window + (ts % Window)
  BY DivMod, SinkAssumption DEF SinkAssumption
<1> HIDE DEF q
<1>2. q * Window \in Nat
  BY <1>1, SinkAssumption DEF SinkAssumption
<1>3. EndOf(ts) = q * Window + Window
  BY DEF EndOf, q
<1> QED
  BY <1>1, <1>2, <1>3, SinkAssumption DEF SinkAssumption

LEMMA EndOfMono ==
  ASSUME NEW s \in Nat, NEW t \in Nat, s <= t
  PROVE  EndOf(s) <= EndOf(t)
<1> DEFINE x == s \div Window
           y == t \div Window
<1>1. x \in Nat /\ y \in Nat /\ x <= y
  BY DivMod, DivMono, SinkAssumption DEF SinkAssumption
<1>2. EndOf(s) = x * Window + Window /\ EndOf(t) = y * Window + Window
  BY DEF EndOf
<1> HIDE DEF x, y
<1>3. y - x \in Nat
  BY <1>1
<1>4. y * Window = x * Window + (y - x) * Window /\ (y - x) * Window \in Nat /\ x * Window \in Nat
  BY <1>1, <1>3, SinkAssumption DEF SinkAssumption
<1> QED
  BY <1>2, <1>4, SinkAssumption DEF SinkAssumption

\* A finite, nonempty set of naturals has a largest element: the one that the
\* fewest others exceed.
LEMMA Largest ==
  ASSUME NEW S \in SUBSET Nat, IsFiniteSet(S), S # {}
  PROVE  /\ Max(S) \in S
         /\ \A n \in S : n <= Max(S)
<1> DEFINE Above(m) == {n \in S : n > m}
           T == {Cardinality(Above(m)) : m \in S}
           R == OpToRel(<, Nat)
<1>1. \A m \in S : IsFiniteSet(Above(m)) /\ Cardinality(Above(m)) \in Nat
  BY FS_Subset, FS_CardinalityType
<1>2. T \subseteq Nat /\ T # {}
  BY <1>1
<1>3. PICK x \in T : \A y \in T : ~(<<y, x>> \in R)
  BY <1>2, WFMin, NatLessThanWellFounded
<1>4. PICK m \in S : x = Cardinality(Above(m))
  BY <1>3
<1>5. ASSUME NEW n \in S, ~(m >= n)
      PROVE  FALSE
  <2>1. n \in Nat /\ m \in Nat /\ n > m
    BY <1>5
  <2>2. Above(n) \subseteq Above(m) /\ n \in Above(m) /\ n \notin Above(n)
    <3>1. ASSUME NEW k \in S, k > n PROVE k > m
      <4>1. k \in Nat
        OBVIOUS
      <4> QED
        BY <2>1, <3>1, <4>1
    <3>2. n \in Above(m) /\ ~(n > n)
      BY <2>1
    <3> QED
      BY <3>1, <3>2
  <2>3. Cardinality(Above(n)) <= Cardinality(Above(m)) /\ Cardinality(Above(n)) # Cardinality(Above(m))
    BY <1>1, <2>2, FS_Subset
  <2>4. Cardinality(Above(n)) < x /\ x \in Nat /\ Cardinality(Above(n)) \in Nat
    BY <1>1, <1>4, <2>3
  <2>5. Cardinality(Above(n)) \in T
    OBVIOUS
  <2> HIDE DEF Above, T
  <2>6. <<Cardinality(Above(n)), x>> \in R
    BY <2>4 DEF OpToRel
  <2> QED
    BY <1>3, <2>5, <2>6
<1>6. \A y \in S : m >= y
  BY <1>5
<1>7. Max(S) \in S /\ \A y \in S : Max(S) >= y
  BY <1>6 DEF Max
<1> QED
  BY <1>7

\* A function takes finitely many values on a finite set, as many as it has
\* arguments if it tells them apart.
LEMMA ImageFinite ==
  ASSUME NEW S, IsFiniteSet(S), NEW f, DOMAIN f = S
  PROVE  LET T == {f[x] : x \in S} IN
         /\ IsFiniteSet(T)
         /\ (\A x, y \in S : x # y => f[x] # f[y]) => Cardinality(T) = Cardinality(S)
<1> DEFINE T == {f[x] : x \in S}
           g == [x \in S |-> f[x]]
<1>1. g \in [S -> T] /\ \A t \in T : \E x \in S : g[x] = t
  OBVIOUS
<1>2. g \in Surjection(S, T)
  BY <1>1 DEF Surjection
<1>3. IsFiniteSet(T) /\ (Cardinality(T) = Cardinality(S) <=> g \in Injection(S, T))
  BY <1>2, FS_Surjection
<1>4. ASSUME \A x, y \in S : x # y => f[x] # f[y]
      PROVE  g \in Injection(S, T)
  <2>1. \A x, y \in S : g[x] = g[y] => x = y
    BY <1>4
  <2> QED
    BY <1>1, <2>1 DEF Injection, IsInjective
<1> QED
  BY <1>3, <1>4

-----------------------------------------------------------------------------
(* The parts of the invariant of the sink.                                 *)

WindowType == [end : Nat, lastAck : Nat, stored : SUBSET generated, failed : SUBSET generated,
               inFlight : Nat]
PartType == [id : Nat, end : Nat, points : SUBSET generated]
ReportType == [end : Nat, stored : SUBSET generated, failed : SUBSET generated,
               unacknowledged : SUBSET generated, complete : Nat]

\* What waits for the store of the window that ends at e.
Waiting(e, fly) == {part \in fly : part.end = e}
Answers(w) == w.stored \cup w.failed
HeldIn(w, fly) == Answers(w) \cup UNION {part.points : part \in Waiting(w.end, fly)}
Held(win, fly) == UNION {HeldIn(w, fly) : w \in win}
Told(reps) == UNION {Reported(r) : r \in reps}
Coming(queue) == UNION {queue[i] : i \in DOMAIN queue}

\* Windows and messages in flight fit together.
Sorted(win, fly, next) ==
  /\ win \subseteq WindowType /\ IsFiniteSet(win)
  /\ fly \subseteq PartType /\ IsFiniteSet(fly) /\ next \in Nat
  /\ \A v, w \in win : v.end = w.end => v = w
  /\ \A a, b \in fly : a.id = b.id /\ a.end = b.end => a = b
  /\ \A part \in fly : part.id < next /\ part.points # {}
  /\ \A part \in fly : \A p \in part.points : EndOf(p.ts) = part.end
  /\ \A w \in win : \A p \in Answers(w) : EndOf(p.ts) = w.end
  /\ \A w \in win : w.inFlight = Cardinality(Waiting(w.end, fly))
  /\ \A a, b \in fly : a # b => a.points \cap b.points = {}
  /\ \A w \in win, part \in fly : Answers(w) \cap part.points = {}

\* What has been reported is over.
Settled(win, fly, emit, reps) ==
  /\ emit \in Nat /\ reps \subseteq ReportType
  /\ \A part \in fly : part.end > emit => \E w \in win : w.end = part.end
  /\ \A r \in reps : r.end <= emit
  /\ \A w \in win, r \in reps : w.end # r.end
  /\ \A q, r \in reps : q # r => q.end # r.end
  /\ \A r \in reps : \A p \in Reported(r) : EndOf(p.ts) = r.end
  /\ \A r \in reps, part \in fly : r.stored \cap part.points = {}

\* Every point is in one place.
Placed(coming, win, fly, reps, ign, los) ==
  /\ generated = coming \cup Held(win, fly) \cup Told(reps) \cup ign \cup los
  /\ coming \cap (Held(win, fly) \cup Told(reps) \cup ign \cup los) = {}
  /\ Held(win, fly) \cap (Told(reps) \cup ign \cup los) = {}
  /\ Told(reps) \cap (ign \cup los) = {}
  /\ ign \cap los = {}
  /\ \A part \in fly : part.points \cap coming = {}

\* The time is that of the last of the points to be stored.
Latest(time, points, answers) ==
  /\ \E a \in answers : a[1] \in points /\ a[2] = time
  /\ \A a \in answers : a[1] \in points => a[2] <= time

Timed(coming, win, fly, reps, answers) ==
  /\ answers \subseteq generated \X Nat
  /\ \A a \in answers : a[1] \notin coming /\ \A part \in fly : a[1] \notin part.points
  /\ \A w \in win : IF w.stored = {} THEN w.lastAck = 0 ELSE Latest(w.lastAck, w.stored, answers)
  /\ \A r \in reps : r.stored # {} /\ r.unacknowledged = {} => Latest(r.complete, r.stored, answers)

\* Points come in time order, and the sink is behind those to come.
InOrder(coming, win, emit, until, reps, ign, los, hur) ==
  /\ until \in Nat
  /\ \A p \in coming : p.ts >= until
  /\ \A w \in win : \E t \in 0..until : w.end = EndOf(t)
  /\ emit = 0 \/ \E t \in 0..until : emit = EndOf(t)
  /\ emit \in hur \/ emit <= until
  /\ \A p \in ign : EndOf(p.ts) \in hur
  /\ \A r \in reps : r.end \notin hur =>
       /\ r.end <= until /\ r.unacknowledged = {}
       /\ Reported(r) = {p \in generated : EndOf(p.ts) = r.end} \ los

\* The messages on their way are of different points, in the order of their times.
Queued(queue) ==
  /\ queue \in Seq(SUBSET generated)
  /\ \A i, j \in DOMAIN queue : i < j =>
       \A p \in queue[i], q \in queue[j] : p # q /\ p.ts <= q.ts

PointsOK == IsFiniteSet(generated) /\ \A p \in generated : p.ts \in Nat

\* All of it, but for what Due alone changes.
Steady(coming, win, fly, next, until, ign, los, answers) ==
  /\ Sorted(win, fly, next)
  /\ Settled(win, fly, emittedUntil, reports)
  /\ Placed(coming, win, fly, reports, ign, los)
  /\ Timed(coming, win, fly, reports, answers)
  /\ InOrder(coming, win, emittedUntil, until, reports, ign, los, hurried)

SinkInv ==
  /\ PointsOK /\ Queued(pdata)
  /\ Steady(Coming(pdata), windows, inFlight, nextId, sentUntil, ignored, lost, acks)
  /\ sentUntil = 0 \/ \E p \in generated : p.ts = sentUntil

-----------------------------------------------------------------------------
(* Due.                                                                    *)

\* Some windows go, each into a report of its own.
Closes(ready, win, fly, until, now) ==
  /\ ready \subseteq win /\ windows' = win \ ready
  /\ emittedUntil' \in {emittedUntil} \cup {w.end : w \in ready}
  /\ emittedUntil' \in Nat /\ emittedUntil' >= emittedUntil
  /\ \A w \in ready : w.end <= emittedUntil'
  /\ reports' = reports \cup {Report(w, fly, now) : w \in ready}
  /\ hurried \subseteq hurried'
  /\ \A w \in ready : w.end \in hurried' \/ (w.end <= until /\ w.inFlight = 0)

LEMMA DueCloses ==
  ASSUME NEW win, NEW fly, NEW next, NEW until \in Nat, NEW now \in Nat, NEW closing \in BOOLEAN,
         Sorted(win, fly, next), emittedUntil \in Nat, Due(win, fly, until, now, closing)
  PROVE  \E ready \in SUBSET win : Closes(ready, win, fly, until, now)
<1> DEFINE ready == {w \in win : closing \/ (Passed(w, until, now) /\ (w.inFlight = 0 \/ TooLate(w, now)))}
           ends == {w.end : w \in ready}
<1>1. /\ windows' = win \ ready
      /\ emittedUntil' = Max({emittedUntil} \cup ends)
      /\ hurried' = hurried \cup {w.end : w \in {w \in ready : w.end > until \/ w.inFlight > 0}}
      /\ reports' = reports \cup {Report(w, fly, now) : w \in ready}
  BY DEF Due
<1>2. ready \subseteq win
  OBVIOUS
<1> HIDE DEF ready
<1>3. \A w \in ready : w.end \in Nat /\ w.inFlight \in Nat
  BY <1>2 DEF Sorted, WindowType
<1>4. IsFiniteSet(ends) /\ ends \subseteq Nat
  <2>1. IsFiniteSet(ready)
    BY <1>2, FS_Subset DEF Sorted
  <2>2. IsFiniteSet(ends)
    <3> DEFINE f == [w \in ready |-> w.end]
    <3>1. {f[w] : w \in ready} = ends
      OBVIOUS
    <3>2. IsFiniteSet({f[w] : w \in ready})
      BY <2>1, ImageFinite
    <3> QED
      BY <3>1, <3>2
  <2> QED
    BY <1>3, <2>2
<1>5. /\ emittedUntil' \in {emittedUntil} \cup ends
      /\ \A n \in {emittedUntil} \cup ends : n <= emittedUntil'
  <2> HIDE DEF ends
  <2>1. IsFiniteSet({emittedUntil} \cup ends)
    <3>1. IsFiniteSet(ends \cup {emittedUntil})
      BY <1>4, FS_AddElement, Zenon
    <3>2. {emittedUntil} \cup ends = ends \cup {emittedUntil}
      OBVIOUS
    <3> QED
      BY <3>1, <3>2
  <2> QED
    BY <1>1, <1>4, <2>1, Largest
<1>6. \A w \in ready : w.end \in hurried' \/ (w.end <= until /\ w.inFlight = 0)
  <2> SUFFICES ASSUME NEW w \in ready, w.end \notin hurried'
               PROVE  w.end <= until /\ w.inFlight = 0
    OBVIOUS
  <2>1. ~(w.end > until \/ w.inFlight > 0)
    BY <1>1
  <2> QED
    BY <1>3, <2>1
<1>7. emittedUntil' \in Nat /\ emittedUntil' >= emittedUntil
  BY <1>4, <1>5
<1>8. \A w \in ready : w.end <= emittedUntil'
  BY <1>5
<1>9. hurried \subseteq hurried'
  BY <1>1
<1> QED
  BY <1>1, <1>2, <1>5, <1>6, <1>7, <1>8, <1>9 DEF Closes

\* A report tells of what its window held.
LEMMA ReportOf ==
  ASSUME NEW win, NEW fly, NEW next, Sorted(win, fly, next), NEW w \in win, NEW now \in Nat
  PROVE  /\ Report(w, fly, now) \in ReportType
         /\ Report(w, fly, now).end = w.end
         /\ Reported(Report(w, fly, now)) = HeldIn(w, fly)
         /\ HeldIn(w, fly) \subseteq generated
         /\ \A p \in HeldIn(w, fly) : EndOf(p.ts) = w.end
<1> DEFINE wait == UNION {part.points : part \in Waiting(w.end, fly)}
           r == Report(w, fly, now)
<1>1. r = [end |-> w.end, stored |-> w.stored, failed |-> w.failed, unacknowledged |-> wait,
           complete |-> IF wait # {} THEN now ELSE w.lastAck]
  BY DEF Report, Waiting
<1>2. wait \subseteq generated /\ \A p \in wait : EndOf(p.ts) = w.end
  BY DEF Sorted, PartType, Waiting
<1>3. w \in WindowType /\ \A p \in Answers(w) : EndOf(p.ts) = w.end
  BY DEF Sorted
<1>4. HeldIn(w, fly) = w.stored \cup w.failed \cup wait
  BY DEF HeldIn, Answers
<1> HIDE DEF wait, r
<1>5. r \in ReportType
  BY <1>1, <1>2, <1>3 DEF ReportType, WindowType
<1>6. Reported(r) = HeldIn(w, fly) /\ r.end = w.end
  BY <1>1, <1>4 DEF Reported
<1>7. HeldIn(w, fly) \subseteq generated
  BY <1>2, <1>3, <1>4 DEF WindowType
<1>8. \A p \in HeldIn(w, fly) : EndOf(p.ts) = w.end
  BY <1>2, <1>3, <1>4 DEF Answers
<1> QED
  BY <1>5, <1>6, <1>7, <1>8 DEF r

LEMMA DueSorted ==
  ASSUME NEW win, NEW fly, NEW next, NEW ready, NEW until, NEW now,
         Sorted(win, fly, next), Closes(ready, win, fly, until, now)
  PROVE  Sorted(windows', fly, next)
<1>1. windows' \subseteq win
  BY DEF Closes
<1>2. IsFiniteSet(windows')
  BY <1>1, FS_Subset DEF Sorted
<1> QED
  BY <1>1, <1>2 DEF Sorted

LEMMA DueSettled ==
  ASSUME NEW win, NEW fly, NEW next, NEW ready, NEW until, NEW now \in Nat,
         Sorted(win, fly, next), Settled(win, fly, emittedUntil, reports),
         Closes(ready, win, fly, until, now)
  PROVE  Settled(windows', fly, emittedUntil', reports')
<1> DEFINE R(w) == Report(w, fly, now)
<1>1. \A w \in win : /\ R(w) \in ReportType /\ R(w).end = w.end /\ R(w).stored = w.stored
                     /\ \A p \in Reported(R(w)) : EndOf(p.ts) = w.end
  BY ReportOf DEF Report
<1> HIDE DEF R
<1>2. \A r \in reports' : r \in reports \/ \E w \in ready : r = R(w)
  BY DEF Closes, R
<1>3. ready \subseteq win /\ windows' = win \ ready
  BY DEF Closes
<1>4. \A w \in win : w.end \in Nat
  BY DEF Sorted, WindowType
<1>5. reports' \subseteq ReportType
  BY <1>1, <1>2, <1>3 DEF Settled
<1>6. ASSUME NEW part \in fly, part.end > emittedUntil'
      PROVE  \E w \in windows' : w.end = part.end
  <2>1. part.end \in Nat /\ emittedUntil \in Nat /\ emittedUntil' \in Nat /\ emittedUntil' >= emittedUntil
    BY DEF Sorted, PartType, Settled, Closes
  <2>2. PICK w \in win : w.end = part.end
    BY <1>6, <2>1 DEF Settled
  <2>3. ASSUME w \in ready PROVE FALSE
    BY <1>4, <1>6, <2>1, <2>2, <2>3 DEF Closes
  <2> QED
    BY <1>3, <2>2, <2>3
<1>7. \A r \in reports' : r.end <= emittedUntil'
  <2>1. \A r \in reports : r.end \in Nat
    BY DEF Settled, ReportType
  <2>2. \A r \in reports : r.end <= emittedUntil'
    BY <2>1 DEF Settled, Closes
  <2>3. \A w \in ready : R(w).end <= emittedUntil'
    BY <1>1, <1>3 DEF Closes
  <2> QED
    BY <1>2, <2>2, <2>3
<1>8. \A v \in win, w \in win : v.end = w.end => v = w
  BY DEF Sorted
<1>9. \A w \in windows', r \in reports' : w.end # r.end
  BY <1>1, <1>2, <1>3, <1>8 DEF Settled
<1>10. \A q, r \in reports' : q # r => q.end # r.end
  BY <1>1, <1>2, <1>3, <1>8 DEF Settled
<1>11. \A r \in reports' : \A p \in Reported(r) : EndOf(p.ts) = r.end
  <2> TAKE r \in reports'
  <2>1. CASE r \in reports
    BY <2>1 DEF Settled
  <2>2. CASE \E w \in ready : r = R(w)
    BY <1>1, <1>3, <2>2
  <2> QED
    BY <1>2, <2>1, <2>2
<1>12. \A r \in reports', part \in fly : r.stored \cap part.points = {}
  <2>1. \A w \in win, part \in fly : R(w).stored \cap part.points = {}
    BY <1>1 DEF Sorted, Answers
  <2> QED
    BY <1>2, <1>3, <2>1 DEF Settled
<1> QED
  BY <1>5, <1>6, <1>7, <1>9, <1>10, <1>11, <1>12 DEF Settled, Closes

\* Due moves points from the windows to the reports.
LEMMA DuePlaced ==
  ASSUME NEW win, NEW fly, NEW next, NEW ready, NEW until, NEW now \in Nat,
         NEW coming, NEW ign, NEW los,
         Sorted(win, fly, next), Settled(win, fly, emittedUntil, reports),
         Placed(coming, win, fly, reports, ign, los), Closes(ready, win, fly, until, now)
  PROVE  Placed(coming, windows', fly, reports', ign, los)
<1> DEFINE moved == UNION {HeldIn(w, fly) : w \in ready}
<1>1. ready \subseteq win /\ windows' = win \ ready
  BY DEF Closes
<1>2. Held(win, fly) = Held(windows', fly) \cup moved
  BY <1>1 DEF Held
<1>3. Told(reports') = Told(reports) \cup moved
  <2>1. \A w \in ready : Reported(Report(w, fly, now)) = HeldIn(w, fly)
    BY <1>1, ReportOf
  <2>2. reports' = reports \cup {Report(w, fly, now) : w \in ready}
    BY DEF Closes
  <2>3. Told(reports') = Told(reports) \cup UNION {Reported(Report(w, fly, now)) : w \in ready}
    BY <2>2 DEF Told
  <2>4. {Reported(Report(w, fly, now)) : w \in ready} = {HeldIn(w, fly) : w \in ready}
    BY <2>1
  <2> QED
    BY <2>3, <2>4
<1>4. Held(windows', fly) \cap moved = {}
  <2> SUFFICES ASSUME NEW w \in windows', NEW p \in HeldIn(w, fly), NEW v \in ready, p \in HeldIn(v, fly)
               PROVE  FALSE
    BY DEF Held
  <2>1. w \in win /\ v \in win /\ v # w
    BY <1>1
  <2>2. EndOf(p.ts) = w.end /\ EndOf(p.ts) = v.end
    <3>1. 0 \in Nat
      OBVIOUS
    <3> QED
      BY <2>1, <3>1, ReportOf
  <2> QED
    BY <2>1, <2>2 DEF Sorted
<1> HIDE DEF moved
<1> QED
  BY <1>2, <1>3, <1>4 DEF Placed

LEMMA DueTimed ==
  ASSUME NEW win, NEW fly, NEW next, NEW ready, NEW until, NEW now \in Nat,
         NEW coming, NEW answers,
         Sorted(win, fly, next), Timed(coming, win, fly, reports, answers),
         Closes(ready, win, fly, until, now)
  PROVE  Timed(coming, windows', fly, reports', answers)
<1>1. ready \subseteq win /\ windows' \subseteq win
  BY DEF Closes
<1>2. \A r \in reports' : r \in reports \/ \E w \in ready : r = Report(w, fly, now)
  BY DEF Closes
<1>3. ASSUME NEW w \in ready, NEW r, r = Report(w, fly, now), r.stored # {}, r.unacknowledged = {}
      PROVE  Latest(r.complete, r.stored, answers)
  <2>1. r.stored = w.stored /\ r.complete = w.lastAck
    BY <1>3 DEF Report
  <2> QED
    BY <1>1, <1>3, <2>1 DEF Timed
<1>4. \A r \in reports' : r.stored # {} /\ r.unacknowledged = {} => Latest(r.complete, r.stored, answers)
  BY <1>2, <1>3 DEF Timed
<1> QED
  BY <1>1, <1>4 DEF Timed

\* What is in order stays so: a window closed in the order of its points has all of
\* them, since those to come are of later windows.
LEMMA DueInOrder ==
  ASSUME NEW win, NEW fly, NEW next, NEW ready, NEW until, NEW now \in Nat,
         NEW coming, NEW ign, NEW los,
         PointsOK, Sorted(win, fly, next), Settled(win, fly, emittedUntil, reports),
         Placed(coming, win, fly, reports, ign, los),
         InOrder(coming, win, emittedUntil, until, reports, ign, los, hurried),
         Closes(ready, win, fly, until, now)
  PROVE  InOrder(coming, windows', emittedUntil', until, reports', ign, los, hurried')
<1>1. /\ ready \subseteq win /\ windows' \subseteq win /\ hurried \subseteq hurried'
      /\ \A w \in ready : w.end \in hurried' \/ (w.end <= until /\ w.inFlight = 0)
      /\ \A r \in reports' : r \in reports \/ \E w \in ready : r = Report(w, fly, now)
  BY DEF Closes
<1>2. emittedUntil' = emittedUntil \/ \E w \in ready : emittedUntil' = w.end
  BY DEF Closes
<1>3. emittedUntil' = 0 \/ \E t \in 0..until : emittedUntil' = EndOf(t)
  BY <1>1, <1>2 DEF InOrder
<1>4. emittedUntil' \in hurried' \/ emittedUntil' <= until
  BY <1>1, <1>2 DEF InOrder
<1>5. \A p \in ign : EndOf(p.ts) \in hurried'
  BY <1>1 DEF InOrder
<1>6. ASSUME NEW w \in ready, w.end \notin hurried'
      PROVE  /\ w.end <= until /\ Waiting(w.end, fly) = {}
             /\ HeldIn(w, fly) = {p \in generated : EndOf(p.ts) = w.end} \ los
  <2>1. w \in win /\ w.end <= until /\ w.inFlight = 0 /\ w.end \in Nat /\ until \in Nat
    BY <1>1, <1>6 DEF Sorted, WindowType, InOrder
  <2>2. Waiting(w.end, fly) = {}
    <3>1. IsFiniteSet(Waiting(w.end, fly))
      BY FS_Subset DEF Sorted, Waiting
    <3>2. Cardinality(Waiting(w.end, fly)) = 0
      BY <2>1 DEF Sorted
    <3> QED
      BY <3>1, <3>2, FS_EmptySet
  <2>3. HeldIn(w, fly) \subseteq generated /\ \A p \in HeldIn(w, fly) : EndOf(p.ts) = w.end
    BY <2>1, ReportOf
  <2>4. HeldIn(w, fly) \subseteq Held(win, fly)
    BY <2>1 DEF Held
  <2>5. HeldIn(w, fly) \cap los = {}
    BY <2>4 DEF Placed
  <2>6. ASSUME NEW p \in generated, EndOf(p.ts) = w.end, p \notin los
        PROVE  p \in HeldIn(w, fly)
    <3>1. p \notin coming
      <4> SUFFICES ASSUME p \in coming PROVE FALSE
        OBVIOUS
      <4>1. p.ts \in Nat /\ p.ts >= until
        BY DEF PointsOK, InOrder
      <4>2. EndOf(p.ts) > p.ts /\ EndOf(p.ts) \in Nat
        BY <4>1, EndOfBounds
      <4> QED
        BY <2>1, <2>6, <4>1, <4>2
    <3>2. p \notin ign
      BY <1>5, <1>6, <2>6
    <3>3. p \notin Told(reports)
      <4> SUFFICES ASSUME NEW r \in reports, p \in Reported(r) PROVE FALSE
        BY DEF Told
      <4>1. EndOf(p.ts) = r.end
        BY DEF Settled
      <4> QED
        BY <2>1, <2>6, <4>1 DEF Settled
    <3>4. p \in Held(win, fly)
      BY <2>6, <3>1, <3>2, <3>3 DEF Placed
    <3>5. PICK v \in win : p \in HeldIn(v, fly)
      BY <3>4 DEF Held
    <3>6. EndOf(p.ts) = v.end
      <4>1. 0 \in Nat
        OBVIOUS
      <4> QED
        BY <3>5, <4>1, ReportOf
    <3>7. v = w
      BY <2>1, <2>6, <3>6 DEF Sorted
    <3> QED
      BY <3>5, <3>7
  <2> QED
    BY <2>1, <2>2, <2>3, <2>5, <2>6
<1>7. ASSUME NEW r \in reports', r.end \notin hurried'
      PROVE  /\ r.end <= until /\ r.unacknowledged = {}
             /\ Reported(r) = {p \in generated : EndOf(p.ts) = r.end} \ los
  <2>1. CASE r \in reports
    BY <1>1, <1>7, <2>1 DEF InOrder
  <2>2. ASSUME NEW w \in ready, r = Report(w, fly, now)
        PROVE  /\ r.end <= until /\ r.unacknowledged = {}
               /\ Reported(r) = {p \in generated : EndOf(p.ts) = r.end} \ los
    <3>1. r.end = w.end /\ Reported(r) = HeldIn(w, fly)
      BY <1>1, <2>2, ReportOf
    <3>2. r.unacknowledged = UNION {part.points : part \in Waiting(w.end, fly)}
      BY <2>2 DEF Report, Waiting
    <3>3. /\ w.end <= until /\ Waiting(w.end, fly) = {}
          /\ HeldIn(w, fly) = {p \in generated : EndOf(p.ts) = w.end} \ los
      BY <1>6, <1>7, <3>1
    <3> QED
      BY <3>1, <3>2, <3>3
  <2> QED
    BY <1>1, <2>1, <2>2
<1>8. \A w \in windows' : \E t \in 0..until : w.end = EndOf(t)
  BY <1>1 DEF InOrder
<1> QED
  BY <1>3, <1>4, <1>5, <1>7, <1>8 DEF InOrder

LEMMA DueSteady ==
  ASSUME NEW coming, NEW win, NEW fly, NEW next, NEW until, NEW ign, NEW los, NEW answers,
         NEW now \in Nat, NEW closing \in BOOLEAN,
         PointsOK, Steady(coming, win, fly, next, until, ign, los, answers),
         Due(win, fly, until, now, closing), UNCHANGED generated,
         inFlight' = fly, nextId' = next, sentUntil' = until, ignored' = ign, lost' = los,
         acks' = answers, Coming(pdata)' = coming
  PROVE  Steady(Coming(pdata), windows, inFlight, nextId, sentUntil, ignored, lost, acks)'
<1>1. /\ Sorted(win, fly, next) /\ Settled(win, fly, emittedUntil, reports)
      /\ Placed(coming, win, fly, reports, ign, los) /\ Timed(coming, win, fly, reports, answers)
      /\ InOrder(coming, win, emittedUntil, until, reports, ign, los, hurried)
  BY DEF Steady
<1>2. until \in Nat /\ emittedUntil \in Nat
  BY <1>1 DEF InOrder, Settled
<1>3. PICK ready \in SUBSET win : Closes(ready, win, fly, until, now)
  BY <1>1, <1>2, DueCloses
<1>4. Sorted(windows', fly, next)
  BY <1>1, <1>3, DueSorted
<1>5. Settled(windows', fly, emittedUntil', reports')
  BY <1>1, <1>3, DueSettled
<1>6. Placed(coming, windows', fly, reports', ign, los)
  BY <1>1, <1>3, DuePlaced
<1>7. Timed(coming, windows', fly, reports', answers)
  BY <1>1, <1>3, DueTimed
<1>8. InOrder(coming, windows', emittedUntil', until, reports', ign, los, hurried')
  BY <1>1, <1>2, <1>3, DueInOrder
<1>9. Sorted(windows, inFlight, nextId)'
  BY <1>4 DEF Sorted, WindowType, PartType
<1>10. Settled(windows, inFlight, emittedUntil, reports)'
  BY <1>5 DEF Settled, ReportType
<1>11. Placed(Coming(pdata), windows, inFlight, reports, ignored, lost)'
  BY <1>6 DEF Placed
<1>12. Timed(Coming(pdata), windows, inFlight, reports, acks)'
  BY <1>7 DEF Timed
<1>13. InOrder(Coming(pdata), windows, emittedUntil, sentUntil, reports, ignored, lost, hurried)'
  BY <1>8 DEF InOrder
<1> QED
  BY <1>9, <1>10, <1>11, <1>12, <1>13 DEF Steady

-----------------------------------------------------------------------------
(* A message of points.                                                    *)

\* The first message is of other points than the rest, none of them later.
LEMMA QueueHead ==
  ASSUME Queued(pdata), pdata # <<>>
  PROVE  /\ Head(pdata) \subseteq generated /\ Queued(Tail(pdata))
         /\ Coming(pdata) = Head(pdata) \cup Coming(Tail(pdata))
         /\ Head(pdata) \cap Coming(Tail(pdata)) = {}
         /\ \A p \in Head(pdata), q \in Coming(Tail(pdata)) : p.ts <= q.ts
<1>1. pdata \in Seq(SUBSET generated)
  BY DEF Queued
<1>2. Len(pdata) \in Nat /\ Len(pdata) > 0 /\ DOMAIN pdata = 1..Len(pdata)
  BY <1>1
<1>3. /\ Tail(pdata) \in Seq(SUBSET generated) /\ Len(Tail(pdata)) = Len(pdata) - 1
      /\ DOMAIN Tail(pdata) = 1..Len(pdata) - 1
      /\ \A i \in 1..Len(pdata) - 1 : Tail(pdata)[i] = pdata[i + 1]
  BY <1>1, <1>2
<1>4. Head(pdata) = pdata[1] /\ 1 \in DOMAIN pdata
  BY <1>1, <1>2
<1>5. Head(pdata) \subseteq generated
  BY <1>1, <1>4
<1>6. Queued(Tail(pdata))
  <2>1. ASSUME NEW i \in DOMAIN Tail(pdata), NEW j \in DOMAIN Tail(pdata), i < j
        PROVE  \A p \in Tail(pdata)[i], q \in Tail(pdata)[j] : p # q /\ p.ts <= q.ts
    <3>1. i + 1 \in DOMAIN pdata /\ j + 1 \in DOMAIN pdata /\ i + 1 < j + 1
      BY <1>2, <1>3, <2>1
    <3>2. Tail(pdata)[i] = pdata[i + 1] /\ Tail(pdata)[j] = pdata[j + 1]
      BY <1>3
    <3> QED
      BY <3>1, <3>2 DEF Queued
  <2> QED
    BY <1>3, <2>1 DEF Queued
<1>7. \A q \in Coming(Tail(pdata)) : \E j \in DOMAIN pdata : j > 1 /\ q \in pdata[j]
  <2> TAKE q \in Coming(Tail(pdata))
  <2>1. PICK i \in DOMAIN Tail(pdata) : q \in Tail(pdata)[i]
    BY DEF Coming
  <2>2. i + 1 \in DOMAIN pdata /\ i + 1 > 1 /\ q \in pdata[i + 1]
    BY <1>2, <1>3, <2>1
  <2> QED
    BY <2>2
<1>8. /\ Head(pdata) \cap Coming(Tail(pdata)) = {}
      /\ \A p \in Head(pdata), q \in Coming(Tail(pdata)) : p.ts <= q.ts
  BY <1>4, <1>7 DEF Queued
<1>9. Coming(pdata) = Head(pdata) \cup Coming(Tail(pdata))
  <2>1. Coming(Tail(pdata)) \subseteq Coming(pdata)
    BY <1>7 DEF Coming
  <2>2. Head(pdata) \subseteq Coming(pdata)
    BY <1>4 DEF Coming
  <2>3. ASSUME NEW q \in Coming(pdata), q \notin Head(pdata) PROVE q \in Coming(Tail(pdata))
    <3>1. PICK j \in DOMAIN pdata : q \in pdata[j]
      BY DEF Coming
    <3>2. j - 1 \in DOMAIN Tail(pdata) /\ Tail(pdata)[j - 1] = pdata[j]
      BY <1>2, <1>3, <1>4, <2>3, <3>1
    <3> QED
      BY <3>1, <3>2 DEF Coming
  <2> QED
    BY <2>1, <2>2, <2>3
<1> QED
  BY <1>5, <1>6, <1>8, <1>9

\* What is known of the parts of a message.
LEMMA PartsOf ==
  ASSUME SinkInv, NEW points \in SUBSET generated
  PROVE  LET parts == ByWindow(nextId, points) IN
         /\ parts \subseteq PartType /\ IsFiniteSet(parts)
         /\ \A part \in parts :
              /\ part.id = nextId /\ part.end > emittedUntil /\ part.points # {}
              /\ part.points = {p \in points : EndOf(p.ts) = part.end}
         /\ \A a, b \in parts : a.end = b.end => a = b
         /\ \A p \in points : EndOf(p.ts) > emittedUntil =>
              \E part \in parts : part.end = EndOf(p.ts) /\ p \in part.points
<1> DEFINE parts == ByWindow(nextId, points)
           ends == {EndOf(p.ts) : p \in points}
           open == {e \in ends : e > emittedUntil}
           P(e) == [id |-> nextId, end |-> e, points |-> {p \in points : EndOf(p.ts) = e}]
<1>1. parts = {P(e) : e \in open}
  BY DEF ByWindow
<1>2. \A p \in points : EndOf(p.ts) \in Nat
  BY EndOfBounds DEF SinkInv, PointsOK
<1>3. nextId \in Nat
  BY DEF SinkInv, Steady, Sorted
<1>4. \A e \in ends : P(e) \in PartType /\ P(e).points # {}
  BY <1>2, <1>3 DEF PartType
<1>5. IsFiniteSet(parts)
  <2>1. IsFiniteSet(points)
    BY FS_Subset DEF SinkInv, PointsOK
  <2>2. IsFiniteSet(ends)
    <3> DEFINE f == [p \in points |-> EndOf(p.ts)]
    <3>1. {f[p] : p \in points} = ends
      OBVIOUS
    <3>2. IsFiniteSet({f[p] : p \in points})
      BY <2>1, ImageFinite
    <3> QED
      BY <3>1, <3>2
  <2>3. IsFiniteSet(open)
    BY <2>2, FS_Subset
  <2> DEFINE g == [e \in open |-> P(e)]
  <2> HIDE DEF P, open, parts
  <2>4. DOMAIN g = open /\ {g[e] : e \in open} = parts
    BY <1>1
  <2> HIDE DEF g
  <2>5. IsFiniteSet({g[e] : e \in open})
    BY <2>3, <2>4, ImageFinite
  <2> QED
    BY <2>4, <2>5
<1>6. ASSUME NEW part \in parts
      PROVE  /\ part.id = nextId /\ part.end > emittedUntil /\ part.points # {}
             /\ part.points = {p \in points : EndOf(p.ts) = part.end}
             /\ part = P(part.end) /\ part \in PartType
  <2>1. PICK e \in open : part = P(e)
    BY <1>1
  <2> QED
    BY <1>4, <2>1
<1>7. \A a, b \in parts : a.end = b.end => a = b
  BY <1>6
<1>8. ASSUME NEW p \in points, EndOf(p.ts) > emittedUntil
      PROVE  \E part \in parts : part.end = EndOf(p.ts) /\ p \in part.points
  <2>1. EndOf(p.ts) \in open
    BY <1>8
  <2>2. P(EndOf(p.ts)) \in parts
    BY <1>1, <2>1
  <2>3. P(EndOf(p.ts)).end = EndOf(p.ts) /\ p \in P(EndOf(p.ts)).points
    OBVIOUS
  <2> QED
    BY <2>2, <2>3
<1> HIDE DEF parts
<1>9. parts \subseteq PartType
  BY <1>6
<1> QED
  BY <1>5, <1>6, <1>7, <1>8, <1>9 DEF parts

\* The window a part is registered in, as it was before: an open one, or an empty
\* one if none is open.
LEMMA OldWindow ==
  ASSUME SinkInv, NEW points \in SUBSET generated, NEW part \in ByWindow(nextId, points)
  PROVE  LET o == OpenWindow(part.end) IN
         /\ o \in WindowType /\ o.end = part.end
         /\ o.inFlight = Cardinality(Waiting(part.end, inFlight))
         /\ \A p \in Answers(o) : EndOf(p.ts) = part.end
         /\ \A a \in inFlight : Answers(o) \cap a.points = {}
         /\ IF o.stored = {} THEN o.lastAck = 0 ELSE Latest(o.lastAck, o.stored, acks)
         /\ HeldIn(o, inFlight) \subseteq Held(windows, inFlight)
         /\ \A w \in windows : w.end = part.end => o = w
<1> DEFINE o == OpenWindow(part.end)
           new == [end |-> part.end, lastAck |-> 0, stored |-> {}, failed |-> {}, inFlight |-> 0]
<1>1. part \in PartType /\ part.end > emittedUntil
  BY PartsOf
<1>2. /\ Sorted(windows, inFlight, nextId) /\ Settled(windows, inFlight, emittedUntil, reports)
      /\ Timed(Coming(pdata), windows, inFlight, reports, acks)
  BY DEF SinkInv, Steady
<1>3. CASE \E w \in windows : w.end = part.end
  <2>1. o \in windows /\ o.end = part.end
    BY <1>3 DEF OpenWindow
  <2>2. HeldIn(o, inFlight) \subseteq Held(windows, inFlight)
    BY <2>1 DEF Held
  <2> HIDE DEF o
  <2>3. \A w \in windows : w.end = part.end => o = w
    BY <1>2, <2>1 DEF Sorted
  <2>4. /\ o \in WindowType /\ o.inFlight = Cardinality(Waiting(part.end, inFlight))
        /\ \A p \in Answers(o) : EndOf(p.ts) = part.end
        /\ \A a \in inFlight : Answers(o) \cap a.points = {}
    BY <1>2, <2>1 DEF Sorted
  <2>5. IF o.stored = {} THEN o.lastAck = 0 ELSE Latest(o.lastAck, o.stored, acks)
    BY <1>2, <2>1 DEF Timed
  <2> QED
    BY <2>1, <2>2, <2>3, <2>4, <2>5 DEF o
<1>4. CASE ~\E w \in windows : w.end = part.end
  <2>1. o = new
    BY <1>4 DEF OpenWindow
  <2>2. Waiting(part.end, inFlight) = {}
    BY <1>1, <1>2, <1>4 DEF Settled, Waiting
  <2>3. Cardinality(Waiting(part.end, inFlight)) = 0
    BY <2>2, FS_EmptySet
  <2> HIDE DEF o
  <2>4. /\ o \in WindowType /\ o.end = part.end /\ o.inFlight = 0
        /\ o.stored = {} /\ o.failed = {} /\ o.lastAck = 0
    BY <1>1, <2>1 DEF WindowType, PartType
  <2>5. Answers(o) = {} /\ HeldIn(o, inFlight) = {}
    BY <2>2, <2>4 DEF Answers, HeldIn
  <2> QED
    BY <1>4, <2>3, <2>4, <2>5 DEF o
<1> QED
  BY <1>3, <1>4

\* A window with one more part to wait for.
Grown(w, part, fly) ==
  LET o == OpenWindow(part.end) IN
  /\ w \in WindowType /\ w.end = part.end /\ w.lastAck = o.lastAck
  /\ w.stored = o.stored /\ w.failed = o.failed /\ w.inFlight = o.inFlight + 1
  /\ w = [o EXCEPT !.inFlight = @ + 1]
  /\ Waiting(w.end, fly) = Waiting(w.end, inFlight) \cup {part}
  /\ part \notin Waiting(w.end, inFlight)

\* The windows once a message is registered: those of its parts have one more part
\* to wait for, the others are as they were.
LEMMA NewWindows ==
  ASSUME SinkInv, NEW points \in SUBSET generated
  PROVE  LET parts == ByWindow(nextId, points)
             fly == inFlight \cup parts
         IN
         /\ \A part \in parts : \E w \in Registered(parts) : w.end = part.end
         /\ \A w \in Registered(parts) :
              \/ /\ w \in windows /\ Waiting(w.end, parts) = {}
                 /\ Waiting(w.end, fly) = Waiting(w.end, inFlight)
              \/ \E part \in parts : Grown(w, part, fly)
<1> DEFINE parts == ByWindow(nextId, points)
           fly == inFlight \cup parts
           N(part) == [OpenWindow(part.end) EXCEPT !.inFlight = @ + 1]
<1>1. \A w \in Registered(parts) : \/ w \in windows /\ \A part \in parts : part.end # w.end
                                   \/ \E part \in parts : w = N(part)
  BY DEF Registered
<1>2. \A part \in parts : N(part) \in Registered(parts)
  BY DEF Registered
<1>3. ASSUME NEW part \in parts
      PROVE  LET o == OpenWindow(part.end)
                 w == N(part)
             IN /\ w \in WindowType /\ w.end = part.end /\ w.lastAck = o.lastAck
                /\ w.stored = o.stored /\ w.failed = o.failed /\ w.inFlight = o.inFlight + 1
  <2> DEFINE o == OpenWindow(part.end)
  <2>1. o \in WindowType /\ o.end = part.end
    BY <1>3, OldWindow
  <2> HIDE DEF o
  <2> DEFINE w == [o EXCEPT !.inFlight = @ + 1]
  <2>2. o.inFlight + 1 \in Nat
    BY <2>1 DEF WindowType
  <2>3. /\ w \in WindowType /\ w.end = part.end /\ w.lastAck = o.lastAck
        /\ w.stored = o.stored /\ w.failed = o.failed /\ w.inFlight = o.inFlight + 1
    BY <2>1, <2>2 DEF WindowType
  <2> QED
    BY <2>3 DEF o
<1>4. /\ \A part \in parts : part.id = nextId
      /\ \A a, b \in parts : a.end = b.end => a = b
  BY PartsOf
<1>5. nextId \in Nat /\ \A part \in inFlight : part.id < nextId /\ part.id \in Nat
  BY DEF SinkInv, Steady, Sorted, PartType
<1> HIDE DEF parts, N
<1>6. \A part \in parts : part \notin inFlight
  BY <1>4, <1>5
<1>7. \A part \in parts : /\ Waiting(part.end, fly) = Waiting(part.end, inFlight) \cup {part}
                          /\ part \notin Waiting(part.end, inFlight)
  BY <1>4, <1>6 DEF Waiting
<1>8. \A w \in windows : (\A part \in parts : part.end # w.end) =>
        Waiting(w.end, parts) = {} /\ Waiting(w.end, fly) = Waiting(w.end, inFlight)
  BY DEF Waiting
<1>9. \A part \in parts : \E w \in Registered(parts) : w.end = part.end
  BY <1>2, <1>3
<1>10. ASSUME NEW w \in Registered(parts)
       PROVE  \/ /\ w \in windows /\ Waiting(w.end, parts) = {}
                 /\ Waiting(w.end, fly) = Waiting(w.end, inFlight)
              \/ \E part \in parts : Grown(w, part, fly)
  <2>1. CASE w \in windows /\ \A part \in parts : part.end # w.end
    BY <1>8, <2>1
  <2>2. ASSUME NEW part \in parts, w = N(part)
        PROVE  Grown(w, part, fly)
    BY <1>3, <1>7, <2>2 DEF Grown, N
  <2> QED
    BY <1>1, <2>1, <2>2
<1> QED
  BY <1>9, <1>10 DEF parts

\* What a message of points leaves behind in the sink, before Due.
LEMMA NewSorted ==
  ASSUME SinkInv, pdata # <<>>
  PROVE  LET parts == ByWindow(nextId, Head(pdata)) IN
         Sorted(Registered(parts), inFlight \cup parts, nextId + 1)
<1> DEFINE points == Head(pdata)
           parts == ByWindow(nextId, points)
           fly == inFlight \cup parts
           win == Registered(parts)
<1>1. points \subseteq generated /\ points \subseteq Coming(pdata)
  BY QueueHead DEF SinkInv
<1>2. /\ Sorted(windows, inFlight, nextId)
      /\ Placed(Coming(pdata), windows, inFlight, reports, ignored, lost)
  BY DEF SinkInv, Steady
<1> HIDE DEF points
<1>3. /\ parts \subseteq PartType /\ IsFiniteSet(parts)
      /\ \A part \in parts :
           /\ part.id = nextId /\ part.end > emittedUntil /\ part.points # {}
           /\ part.points = {p \in points : EndOf(p.ts) = part.end}
      /\ \A a, b \in parts : a.end = b.end => a = b
  BY <1>1, PartsOf
<1>4. \A part \in parts :
        LET o == OpenWindow(part.end) IN
        /\ o \in WindowType /\ o.end = part.end
        /\ o.inFlight = Cardinality(Waiting(part.end, inFlight))
        /\ \A p \in Answers(o) : EndOf(p.ts) = part.end
        /\ \A a \in inFlight : Answers(o) \cap a.points = {}
        /\ HeldIn(o, inFlight) \subseteq Held(windows, inFlight)
  BY <1>1, OldWindow
<1>5. \A w \in win :
        \/ w \in windows /\ Waiting(w.end, parts) = {} /\ Waiting(w.end, fly) = Waiting(w.end, inFlight)
        \/ \E part \in parts : Grown(w, part, fly)
  BY <1>1, NewWindows
<1>6. IsFiniteSet(win)
  <2> DEFINE f == [part \in parts |-> [OpenWindow(part.end) EXCEPT !.inFlight = @ + 1]]
             old == {w \in windows : \A part \in parts : part.end # w.end}
  <2>1. IsFiniteSet(old)
    BY <1>2, FS_Subset DEF Sorted
  <2>2. win = old \cup {f[part] : part \in parts} /\ DOMAIN f = parts
    BY DEF Registered
  <2> HIDE DEF f, old
  <2>3. IsFiniteSet({f[part] : part \in parts})
    BY <1>3, <2>2, ImageFinite
  <2> QED
    BY <2>1, <2>2, <2>3, FS_Union
<1>7. IsFiniteSet(fly)
  BY <1>2, <1>3, FS_Union DEF Sorted
<1> HIDE DEF parts, win
<1>8. win \subseteq WindowType /\ fly \subseteq PartType /\ nextId + 1 \in Nat
  BY <1>2, <1>3, <1>5 DEF Sorted, Grown
<1>9. ASSUME NEW v \in win, NEW w \in win, v.end = w.end
      PROVE  v = w
  <2>1. CASE v \in windows /\ w \in windows
    BY <1>2, <1>9, <2>1 DEF Sorted
  <2>2. CASE Waiting(v.end, parts) = {} \/ Waiting(w.end, parts) = {}
    <3>1. \A part \in parts : part.end # v.end
      BY <1>9, <2>2 DEF Waiting
    <3>2. \A a \in parts : ~Grown(v, a, fly) /\ ~Grown(w, a, fly)
      BY <1>9, <3>1 DEF Grown
    <3> QED
      BY <1>5, <2>1, <3>2
  <2>3. ASSUME NEW a \in parts, NEW b \in parts, Grown(v, a, fly), Grown(w, b, fly)
        PROVE  v = w
    BY <1>9, <2>3 DEF Grown
  <2> QED
    BY <1>5, <2>2, <2>3
<1>10. ASSUME NEW a \in fly, NEW b \in fly
       PROVE  /\ a.id = b.id /\ a.end = b.end => a = b
              /\ a # b => a.points \cap b.points = {}
  <2>1. \A part \in inFlight : part.id # nextId /\ part.points \cap points = {}
    <3>1. \A part \in inFlight : part.id < nextId /\ part.id \in Nat
      BY <1>2 DEF Sorted, PartType
    <3> QED
      BY <1>1, <1>2, <3>1 DEF Placed
  <2>2. \A part \in parts : part.id = nextId /\ part.points \subseteq points
    BY <1>3
  <2>3. CASE a \in inFlight /\ b \in inFlight
    BY <1>2, <2>3 DEF Sorted
  <2>4. CASE a \in parts /\ b \in parts
    BY <1>3, <2>4
  <2>5. CASE a \in inFlight /\ b \in parts
    BY <2>1, <2>2, <2>5
  <2>6. CASE a \in parts /\ b \in inFlight
    BY <2>1, <2>2, <2>6
  <2> QED
    BY <2>3, <2>4, <2>5, <2>6
<1>11. \A part \in fly : part.id < nextId + 1 /\ part.points # {}
  <2>1. \A part \in inFlight : part.id < nextId /\ part.id \in Nat /\ part.points # {} /\ nextId \in Nat
    BY <1>2 DEF Sorted, PartType
  <2>2. \A part \in parts : part.id = nextId /\ nextId \in Nat /\ part.points # {}
    BY <1>2, <1>3 DEF Sorted
  <2> QED
    BY <2>1, <2>2
<1>12. \A part \in fly : \A p \in part.points : EndOf(p.ts) = part.end
  BY <1>2, <1>3 DEF Sorted
<1>13. ASSUME NEW w \in win
       PROVE  /\ \A p \in Answers(w) : EndOf(p.ts) = w.end
              /\ w.inFlight = Cardinality(Waiting(w.end, fly))
              /\ \A part \in fly : Answers(w) \cap part.points = {}
  <2>1. \A part \in parts : part.points \subseteq Coming(pdata)
    BY <1>1, <1>3
  <2>2. Coming(pdata) \cap Held(windows, inFlight) = {}
    BY <1>2 DEF Placed
  <2>3. CASE w \in windows /\ Waiting(w.end, fly) = Waiting(w.end, inFlight)
    <3>1. Answers(w) \subseteq Held(windows, inFlight)
      BY <2>3 DEF Held, HeldIn
    <3>2. \A part \in parts : Answers(w) \cap part.points = {}
      BY <2>1, <2>2, <3>1
    <3> QED
      BY <1>2, <2>3, <3>2 DEF Sorted
  <2>4. ASSUME NEW part \in parts, Grown(w, part, fly)
        PROVE  /\ \A p \in Answers(w) : EndOf(p.ts) = w.end
               /\ w.inFlight = Cardinality(Waiting(w.end, fly))
               /\ \A a \in fly : Answers(w) \cap a.points = {}
    <3> DEFINE o == OpenWindow(part.end)
    <3>0. /\ w.end = part.end /\ w.inFlight = o.inFlight + 1
          /\ Waiting(w.end, fly) = Waiting(w.end, inFlight) \cup {part}
          /\ part \notin Waiting(w.end, inFlight)
      BY <2>4 DEF Grown
    <3>1. Answers(w) = Answers(o) /\ o.inFlight = Cardinality(Waiting(part.end, inFlight))
      BY <1>4, <2>4 DEF Answers, Grown
    <3>2. /\ \A p \in Answers(w) : EndOf(p.ts) = w.end
          /\ \A a \in inFlight : Answers(w) \cap a.points = {}
      BY <1>4, <3>0, <3>1
    <3>3. Answers(o) \subseteq Held(windows, inFlight)
      BY <1>4 DEF HeldIn
    <3>4. \A a \in parts : Answers(w) \cap a.points = {}
      BY <2>1, <2>2, <3>1, <3>3
    <3>5. IsFiniteSet(Waiting(w.end, inFlight))
      BY <1>2, FS_Subset DEF Sorted, Waiting
    <3>6. Cardinality(Waiting(w.end, fly)) = Cardinality(Waiting(w.end, inFlight)) + 1
      BY <3>0, <3>5, FS_AddElement
    <3> QED
      BY <3>0, <3>1, <3>2, <3>4, <3>6
  <2> QED
    BY <1>5, <2>3, <2>4
<1> QED
  BY <1>6, <1>7, <1>8, <1>9, <1>10, <1>11, <1>12, <1>13 DEF Sorted, parts, win, points

LEMMA NewSettled ==
  ASSUME SinkInv, pdata # <<>>
  PROVE  LET parts == ByWindow(nextId, Head(pdata)) IN
         Settled(Registered(parts), inFlight \cup parts, emittedUntil, reports)
<1> DEFINE points == Head(pdata)
           parts == ByWindow(nextId, points)
           win == Registered(parts)
<1>1. points \subseteq generated /\ points \subseteq Coming(pdata)
  BY QueueHead DEF SinkInv
<1>2. /\ Sorted(windows, inFlight, nextId) /\ Settled(windows, inFlight, emittedUntil, reports)
      /\ Placed(Coming(pdata), windows, inFlight, reports, ignored, lost)
  BY DEF SinkInv, Steady
<1> HIDE DEF points
<1>3. /\ parts \subseteq PartType
      /\ \A part \in parts : part.end > emittedUntil /\ part.points \subseteq points
  BY <1>1, PartsOf
<1>4. /\ \A part \in parts : \E w \in win : w.end = part.end
      /\ \A w \in win : w \in windows \/ \E part \in parts : w.end = part.end
  <2>1. /\ \A part \in parts : \E w \in win : w.end = part.end
        /\ \A w \in win : w \in windows \/ \E part \in parts : Grown(w, part, inFlight \cup parts)
    BY <1>1, NewWindows
  <2> QED
    BY <2>1 DEF Grown
<1>5. \A part \in parts : \A w \in windows : w.end = part.end => \E v \in win : v.end = w.end
  BY <1>4
<1>6. ASSUME NEW part \in inFlight, part.end > emittedUntil
      PROVE  \E w \in win : w.end = part.end
  <2>1. PICK w \in windows : w.end = part.end
    BY <1>2, <1>6 DEF Settled
  <2>2. w \in win \/ \E a \in parts : a.end = w.end
    BY DEF Registered
  <2> QED
    BY <1>4, <2>1, <2>2
<1>7. ASSUME NEW w \in win, NEW r \in reports
      PROVE  w.end # r.end
  <2>1. r.end <= emittedUntil /\ r.end \in Nat /\ emittedUntil \in Nat
    BY <1>2 DEF Settled, ReportType
  <2>2. \A part \in parts : part.end > r.end /\ part.end \in Nat
    BY <1>3, <2>1 DEF PartType
  <2>3. \A part \in parts : part.end # r.end
    BY <2>1, <2>2
  <2> QED
    BY <1>2, <1>4, <2>3 DEF Settled
<1>8. ASSUME NEW r \in reports, NEW part \in parts
      PROVE  r.stored \cap part.points = {}
  <2>1. r.stored \subseteq Told(reports)
    BY DEF Told, Reported
  <2>2. Coming(pdata) \cap Told(reports) = {}
    BY <1>2 DEF Placed
  <2> QED
    BY <1>1, <1>3, <2>1, <2>2
<1> HIDE DEF parts, win
<1> QED
  BY <1>2, <1>4, <1>6, <1>7, <1>8 DEF Settled, parts, win, points

LEMMA NewPlaced ==
  ASSUME SinkInv, pdata # <<>>
  PROVE  LET parts == ByWindow(nextId, Head(pdata)) IN
         Placed(Coming(Tail(pdata)), Registered(parts), inFlight \cup parts, reports,
                ignored \cup (Head(pdata) \ UNION {part.points : part \in parts}), lost)
<1> DEFINE points == Head(pdata)
           parts == ByWindow(nextId, points)
           fly == inFlight \cup parts
           win == Registered(parts)
           taken == UNION {part.points : part \in parts}
           rest == Coming(Tail(pdata))
<1>1. /\ points \subseteq generated /\ Coming(pdata) = points \cup rest /\ points \cap rest = {}
  BY QueueHead DEF SinkInv
<1>2. Placed(Coming(pdata), windows, inFlight, reports, ignored, lost)
  BY DEF SinkInv, Steady
<1> HIDE DEF points, rest
<1>3. \A part \in parts : part.points \subseteq points
  BY <1>1, PartsOf
<1>4. Held(win, fly) \subseteq Held(windows, inFlight) \cup taken
  <2> SUFFICES ASSUME NEW w \in win PROVE HeldIn(w, fly) \subseteq Held(windows, inFlight) \cup taken
    BY DEF Held
  <2>1. CASE w \in windows /\ Waiting(w.end, fly) = Waiting(w.end, inFlight)
    BY <2>1 DEF HeldIn, Held
  <2>2. ASSUME NEW part \in parts, Grown(w, part, fly)
        PROVE  HeldIn(w, fly) \subseteq Held(windows, inFlight) \cup taken
    <3> DEFINE o == OpenWindow(part.end)
    <3>1. o.end = part.end /\ HeldIn(o, inFlight) \subseteq Held(windows, inFlight)
      BY <1>1, OldWindow
    <3>2. /\ Answers(w) = Answers(o) /\ w.end = part.end
          /\ Waiting(w.end, fly) = Waiting(w.end, inFlight) \cup {part}
      BY <2>2 DEF Answers, Grown
    <3>3. HeldIn(w, fly) = HeldIn(o, inFlight) \cup part.points
      BY <3>1, <3>2 DEF HeldIn
    <3> QED
      BY <3>1, <3>3
  <2> QED
    BY <1>1, <2>1, <2>2, NewWindows
<1>5. Held(windows, inFlight) \subseteq Held(win, fly)
  <2> SUFFICES ASSUME NEW w \in windows PROVE HeldIn(w, inFlight) \subseteq Held(win, fly)
    BY DEF Held
  <2>1. CASE w \in win
    <3>1. HeldIn(w, inFlight) \subseteq HeldIn(w, fly)
      BY DEF HeldIn, Waiting
    <3> QED
      BY <2>1, <3>1 DEF Held
  <2>2. ASSUME NEW part \in parts, part.end = w.end PROVE HeldIn(w, inFlight) \subseteq Held(win, fly)
    <3> DEFINE o == OpenWindow(part.end)
               v == [o EXCEPT !.inFlight = @ + 1]
    <3>1. o = w /\ o \in WindowType
      BY <1>1, <2>2, OldWindow
    <3>2. v \in win
      BY DEF Registered
    <3>3. v.end = w.end /\ v.stored = w.stored /\ v.failed = w.failed
      BY <3>1 DEF WindowType
    <3> HIDE DEF v, o
    <3>4. HeldIn(w, inFlight) \subseteq HeldIn(v, fly)
      BY <3>3 DEF HeldIn, Waiting, Answers
    <3> QED
      BY <3>2, <3>4 DEF Held
  <2> QED
    BY <2>1, <2>2 DEF Registered
<1>6. taken \subseteq Held(win, fly)
  <2> SUFFICES ASSUME NEW part \in parts PROVE part.points \subseteq Held(win, fly)
    OBVIOUS
  <2>1. PICK w \in win : w.end = part.end
    BY <1>1, NewWindows
  <2>2. part.points \subseteq HeldIn(w, fly)
    BY <2>1 DEF HeldIn, Waiting
  <2> QED
    BY <2>2 DEF Held
<1>7. Held(win, fly) = Held(windows, inFlight) \cup taken /\ taken \subseteq points
  BY <1>3, <1>4, <1>5, <1>6
<1>8. \A part \in fly : part.points \cap rest = {}
  BY <1>1, <1>2, <1>3 DEF Placed
<1> HIDE DEF taken, win, fly
<1>9. Placed(rest, win, fly, reports, ignored \cup (points \ taken), lost)
  BY <1>1, <1>2, <1>7, <1>8 DEF Placed
<1> QED
  BY <1>9 DEF rest, win, fly, points, taken

LEMMA NewTimed ==
  ASSUME SinkInv, pdata # <<>>
  PROVE  LET parts == ByWindow(nextId, Head(pdata)) IN
         Timed(Coming(Tail(pdata)), Registered(parts), inFlight \cup parts, reports, acks)
<1> DEFINE points == Head(pdata)
           parts == ByWindow(nextId, points)
           win == Registered(parts)
           rest == Coming(Tail(pdata))
<1>1. points \subseteq generated /\ Coming(pdata) = points \cup rest
  BY QueueHead DEF SinkInv
<1>2. Timed(Coming(pdata), windows, inFlight, reports, acks)
  BY DEF SinkInv, Steady
<1> HIDE DEF points, rest
<1>3. \A part \in parts : part.points \subseteq points
  BY <1>1, PartsOf
<1>4. \A a \in acks : a[1] \notin rest /\ \A part \in inFlight \cup parts : a[1] \notin part.points
  BY <1>1, <1>2, <1>3 DEF Timed
<1>5. ASSUME NEW w \in win
      PROVE  IF w.stored = {} THEN w.lastAck = 0 ELSE Latest(w.lastAck, w.stored, acks)
  <2>1. w \in windows \/ \E part \in parts : Grown(w, part, inFlight \cup parts)
    BY <1>1, NewWindows
  <2>2. CASE w \in windows
    BY <1>2, <2>2 DEF Timed
  <2>3. ASSUME NEW part \in parts, Grown(w, part, inFlight \cup parts)
        PROVE  IF w.stored = {} THEN w.lastAck = 0 ELSE Latest(w.lastAck, w.stored, acks)
    <3>1. w.lastAck = OpenWindow(part.end).lastAck /\ w.stored = OpenWindow(part.end).stored
      BY <2>3 DEF Grown
    <3> QED
      BY <1>1, <3>1, OldWindow
  <2> QED
    BY <2>1, <2>2, <2>3
<1> HIDE DEF win, parts
<1> QED
  BY <1>2, <1>4, <1>5 DEF Timed, rest, points, win, parts

\* The latest time is that of a point, or what it was.
LEMMA SentUntilIs ==
  ASSUME SinkInv, NEW points \in SUBSET generated
  PROVE  /\ SentUntil(points) \in Nat /\ SentUntil(points) >= sentUntil
         /\ \A p \in points : p.ts <= SentUntil(points)
         /\ SentUntil(points) = sentUntil \/ \E p \in points : p.ts = SentUntil(points)
<1> DEFINE times == {p.ts : p \in points}
<1>1. sentUntil \in Nat /\ \A p \in points : p.ts \in Nat
  BY DEF SinkInv, Steady, InOrder, PointsOK
<1>2. IsFiniteSet(times)
  <2> DEFINE f == [p \in points |-> p.ts]
  <2>1. IsFiniteSet(points)
    BY FS_Subset DEF SinkInv, PointsOK
  <2>2. {f[p] : p \in points} = times /\ DOMAIN f = points
    OBVIOUS
  <2> HIDE DEF f, times
  <2>3. IsFiniteSet({f[p] : p \in points})
    BY <2>1, <2>2, ImageFinite
  <2> QED
    BY <2>2, <2>3
<1> DEFINE all == {sentUntil} \cup times
<1>3. IsFiniteSet(all) /\ all \subseteq Nat /\ all # {}
  BY <1>1, <1>2, FS_AddElement
<1>4. SentUntil(points) = Max(all)
  BY DEF SentUntil
<1>5. sentUntil \in all /\ \A p \in points : p.ts \in all
  OBVIOUS
<1>6. \A t \in all : t = sentUntil \/ \E p \in points : p.ts = t
  OBVIOUS
<1> HIDE DEF all
<1>7. Max(all) \in all /\ \A t \in all : t <= Max(all)
  BY <1>3, Largest
<1> QED
  BY <1>1, <1>3, <1>4, <1>5, <1>6, <1>7

LEMMA NewInOrder ==
  ASSUME SinkInv, pdata # <<>>
  PROVE  LET parts == ByWindow(nextId, Head(pdata)) IN
         InOrder(Coming(Tail(pdata)), Registered(parts), emittedUntil, SentUntil(Head(pdata)), reports,
                 ignored \cup (Head(pdata) \ UNION {part.points : part \in parts}), lost, hurried)
<1> DEFINE points == Head(pdata)
           parts == ByWindow(nextId, points)
           win == Registered(parts)
           until == SentUntil(points)
           late == points \ UNION {part.points : part \in parts}
           rest == Coming(Tail(pdata))
<1>1. /\ points \subseteq generated /\ Coming(pdata) = points \cup rest
      /\ \A p \in points, q \in rest : p.ts <= q.ts
  BY QueueHead DEF SinkInv
<1>2. /\ InOrder(Coming(pdata), windows, emittedUntil, sentUntil, reports, ignored, lost, hurried)
      /\ PointsOK /\ emittedUntil \in Nat /\ sentUntil \in Nat /\ reports \subseteq ReportType
  BY DEF SinkInv, Steady, Settled, InOrder
<1> HIDE DEF points, rest
<1>3. /\ until \in Nat /\ until >= sentUntil /\ \A p \in points : p.ts <= until
      /\ until = sentUntil \/ \E p \in points : p.ts = until
  BY <1>1, SentUntilIs
<1>4. \A p \in points : p.ts \in Nat /\ p.ts >= sentUntil
  BY <1>1, <1>2 DEF PointsOK, InOrder
<1>5. /\ \A part \in parts : part.points # {} /\ part.points = {p \in points : EndOf(p.ts) = part.end}
      /\ \A p \in points : EndOf(p.ts) > emittedUntil => \E part \in parts : p \in part.points
  BY <1>1, PartsOf
<1>6. \A w \in win : w \in windows \/ \E part \in parts : w.end = part.end
  <2>1. \A w \in win : w \in windows \/ \E part \in parts : Grown(w, part, inFlight \cup parts)
    BY <1>1, NewWindows
  <2> QED
    BY <2>1 DEF Grown
<1> HIDE DEF parts, win, until
<1>7. \A q \in rest : q.ts >= until
  BY <1>1, <1>2, <1>3 DEF InOrder
<1>8. 0..sentUntil \subseteq 0..until
  BY <1>2, <1>3
<1>9. \A w \in win : \E t \in 0..until : w.end = EndOf(t)
  <2> TAKE w \in win
  <2>1. CASE w \in windows
    BY <1>2, <1>8, <2>1 DEF InOrder
  <2>2. ASSUME NEW part \in parts, w.end = part.end PROVE \E t \in 0..until : w.end = EndOf(t)
    <3>1. PICK p \in points : EndOf(p.ts) = part.end
      BY <1>5
    <3>2. p.ts \in 0..until
      BY <1>3, <1>4
    <3> QED
      BY <2>2, <3>1, <3>2
  <2> QED
    BY <1>6, <2>1, <2>2
<1>10. emittedUntil = 0 \/ \E t \in 0..until : emittedUntil = EndOf(t)
  BY <1>2, <1>8 DEF InOrder
<1>11. emittedUntil \in hurried \/ emittedUntil <= until
  BY <1>2, <1>3 DEF InOrder
<1>12. ASSUME NEW p \in late PROVE EndOf(p.ts) \in hurried
  <2>1. p \in points /\ p.ts \in Nat /\ p.ts >= sentUntil /\ ~(EndOf(p.ts) > emittedUntil)
    BY <1>4, <1>5
  <2>2. EndOf(p.ts) \in Nat /\ EndOf(p.ts) > p.ts /\ EndOf(p.ts) > 0
    BY <2>1, EndOfBounds
  <2>3. emittedUntil # 0 /\ EndOf(p.ts) <= emittedUntil
    BY <1>2, <2>1, <2>2
  <2>4. PICK t \in 0..sentUntil : emittedUntil = EndOf(t)
    BY <1>2, <2>3 DEF InOrder
  <2>5. t \in Nat /\ t <= p.ts
    BY <1>2, <2>1
  <2>6. EndOf(t) <= EndOf(p.ts)
    BY <2>1, <2>5, EndOfMono
  <2>7. EndOf(p.ts) = emittedUntil
    BY <1>2, <2>2, <2>3, <2>4, <2>6
  <2>8. ~(emittedUntil <= sentUntil)
    BY <1>2, <2>1, <2>2, <2>7
  <2> QED
    BY <1>2, <2>7, <2>8 DEF InOrder
<1>13. \A q \in ignored \cup late : EndOf(q.ts) \in hurried
  BY <1>2, <1>12 DEF InOrder
<1>14. \A r \in reports : r.end \notin hurried =>
         /\ r.end <= until /\ r.unacknowledged = {}
         /\ Reported(r) = {p \in generated : EndOf(p.ts) = r.end} \ lost
  <2>1. \A r \in reports : r.end \in Nat
    BY <1>2 DEF ReportType
  <2> QED
    BY <1>2, <1>3, <2>1 DEF InOrder
<1> HIDE DEF late
<1> QED
  BY <1>3, <1>7, <1>9, <1>10, <1>11, <1>13, <1>14 DEF InOrder, late, parts, win, until, points, rest

LEMMA PDataSteady ==
  ASSUME SinkInv, pdata # <<>>
  PROVE  LET parts == ByWindow(nextId, Head(pdata)) IN
         Steady(Coming(Tail(pdata)), Registered(parts), inFlight \cup parts, nextId + 1,
                SentUntil(Head(pdata)),
                ignored \cup (Head(pdata) \ UNION {part.points : part \in parts}), lost, acks)
BY NewSorted, NewSettled, NewPlaced, NewTimed, NewInOrder DEF Steady

-----------------------------------------------------------------------------
(* An answer of the store.                                                 *)

\* What an answer makes of a window: it holds what it held, with one part less to
\* wait for.
After(v, w, fly) ==
  /\ v \in WindowType /\ v.end = w.end
  /\ HeldIn(v, fly) = HeldIn(w, inFlight)
  /\ v.inFlight = Cardinality(Waiting(v.end, fly))

\* It holds the part with the answers of its kind.
Served(v, w, part, now, isStored) ==
  /\ v = Answered(w, part, now, isStored)
  /\ v.stored = (IF isStored THEN w.stored \cup part.points ELSE w.stored)
  /\ v.failed = (IF isStored THEN w.failed ELSE w.failed \cup part.points)
  /\ v.lastAck = (IF isStored /\ now > w.lastAck THEN now ELSE w.lastAck)

\* The windows no part is for are as they were.
Outcome(v, w, parts, now, isStored) ==
  \/ v = w /\ \A part \in parts : part.end # w.end
  \/ \E part \in parts : part.end = w.end /\ Served(v, w, part, now, isStored)

LEMMA AnsweredIs ==
  ASSUME SinkInv, NEW id, NEW isStored \in BOOLEAN, NEW now \in Nat,
         NEW w \in windows, NEW part \in inFlight, part.id = id, part.end = w.end
  PROVE  LET v == Answered(w, part, now, isStored)
             fly == inFlight \ {a \in inFlight : a.id = id}
         IN After(v, w, fly) /\ Served(v, w, part, now, isStored)
<1> DEFINE v == Answered(w, part, now, isStored)
           fly == inFlight \ {a \in inFlight : a.id = id}
<1>1. Sorted(windows, inFlight, nextId)
  BY DEF SinkInv, Steady
<1>2. w \in WindowType /\ part \in PartType /\ w.inFlight = Cardinality(Waiting(w.end, inFlight))
  BY <1>1 DEF Sorted
<1>3. Waiting(w.end, fly) = Waiting(w.end, inFlight) \ {part} /\ part \in Waiting(w.end, inFlight)
  BY <1>1 DEF Sorted, Waiting
<1>4. IsFiniteSet(Waiting(w.end, inFlight))
  <2>1. IsFiniteSet(inFlight) /\ Waiting(w.end, inFlight) \subseteq inFlight
    BY <1>1 DEF Sorted, Waiting
  <2> QED
    BY <2>1, FS_Subset
<1>5. Cardinality(Waiting(w.end, fly)) = Cardinality(Waiting(w.end, inFlight)) - 1
  <2> DEFINE S == Waiting(w.end, inFlight)
  <2>1. IsFiniteSet(S) /\ part \in S /\ Waiting(w.end, fly) = S \ {part}
    BY <1>3, <1>4
  <2> HIDE DEF S
  <2>2. Cardinality(S \ {part}) = Cardinality(S) - 1
    BY <2>1, FS_RemoveElement
  <2> QED
    BY <2>1, <2>2 DEF S
<1>6. Cardinality(Waiting(w.end, fly)) \in Nat
  BY <1>3, <1>4, FS_Subset, FS_CardinalityType
<1>7. w.inFlight # 0 /\ w.inFlight - 1 = Cardinality(Waiting(w.end, fly)) /\ w.inFlight \in Nat
  BY <1>2, <1>5, <1>6 DEF WindowType
<1> HIDE DEF fly
<1>8. /\ v.end = w.end /\ v.inFlight = w.inFlight - 1
      /\ v.stored = (IF isStored THEN w.stored \cup part.points ELSE w.stored)
      /\ v.failed = (IF isStored THEN w.failed ELSE w.failed \cup part.points)
      /\ v.lastAck = (IF isStored /\ now > w.lastAck THEN now ELSE w.lastAck)
      /\ v = [end |-> v.end, lastAck |-> v.lastAck, stored |-> v.stored, failed |-> v.failed,
              inFlight |-> v.inFlight]
  <2>1. CASE isStored
    BY <1>2, <1>7, <2>1 DEF Answered, WindowType
  <2>2. CASE ~isStored
    BY <1>2, <1>7, <2>2 DEF Answered, WindowType
  <2> QED
    BY <2>1, <2>2
<1> HIDE DEF v
<1>9. v \in WindowType
  <2>1. /\ v.end \in Nat /\ v.lastAck \in Nat /\ v.inFlight \in Nat
        /\ v.stored \subseteq generated /\ v.failed \subseteq generated
    BY <1>2, <1>6, <1>7, <1>8 DEF WindowType, PartType
  <2> QED
    BY <1>8, <2>1 DEF WindowType
<1>10. HeldIn(v, fly) = HeldIn(w, inFlight)
  <2>1. Answers(v) = Answers(w) \cup part.points
    BY <1>8 DEF Answers
  <2> QED
    BY <1>3, <1>8, <2>1 DEF HeldIn
<1>11. v.inFlight = Cardinality(Waiting(v.end, fly))
  BY <1>7, <1>8
<1> QED
  BY <1>8, <1>9, <1>10, <1>11 DEF After, Served, v, fly

LEMMA AnswerWindows ==
  ASSUME SinkInv, NEW id, NEW isStored \in BOOLEAN, NEW now \in Nat
  PROVE  LET parts == {part \in inFlight : part.id = id}
             fly == inFlight \ parts
             win == AfterAnswer(parts, now, isStored)
         IN
         /\ \A w \in windows : \E v \in win : After(v, w, fly)
         /\ \A v \in win : \E w \in windows :
              After(v, w, fly) /\ Outcome(v, w, parts, now, isStored)
<1> DEFINE parts == {part \in inFlight : part.id = id}
           fly == inFlight \ parts
           win == AfterAnswer(parts, now, isStored)
           V(w, part) == Answered(w, part, now, isStored)
<1>1. Sorted(windows, inFlight, nextId)
  BY DEF SinkInv, Steady
<1>2. ASSUME NEW w \in windows, \A part \in parts : part.end # w.end
      PROVE  After(w, w, fly)
  <2>1. Waiting(w.end, fly) = Waiting(w.end, inFlight)
    BY <1>2 DEF Waiting
  <2> QED
    BY <1>1, <2>1 DEF After, HeldIn, Sorted
<1>3. \A w \in windows, part \in parts : part.end = w.end =>
        After(V(w, part), w, fly) /\ Served(V(w, part), w, part, now, isStored)
  BY AnsweredIs
<1>4. \A v \in win : \/ v \in windows /\ \A part \in parts : part.end # v.end
                     \/ \E part \in parts : \E w \in windows : w.end = part.end /\ v = V(w, part)
  BY DEF AfterAnswer
<1>5. /\ \A w \in windows : (\A part \in parts : part.end # w.end) => w \in win
      /\ \A part \in parts, w \in windows : w.end = part.end => V(w, part) \in win
  BY DEF AfterAnswer
<1> HIDE DEF parts, win, V, fly
<1>6. ASSUME NEW w \in windows PROVE \E v \in win : After(v, w, fly)
  <2>1. CASE \A part \in parts : part.end # w.end
    BY <1>2, <1>5, <2>1
  <2>2. ASSUME NEW part \in parts, part.end = w.end PROVE \E v \in win : After(v, w, fly)
    BY <1>3, <1>5, <2>2
  <2> QED
    BY <2>1, <2>2
<1>7. ASSUME NEW v \in win
      PROVE  \E w \in windows : After(v, w, fly) /\ Outcome(v, w, parts, now, isStored)
  <2>1. CASE v \in windows /\ \A part \in parts : part.end # v.end
    BY <1>2, <2>1 DEF Outcome
  <2>2. ASSUME NEW part \in parts, NEW w \in windows, w.end = part.end, v = V(w, part)
        PROVE  After(v, w, fly) /\ Outcome(v, w, parts, now, isStored)
    BY <1>3, <2>2 DEF Outcome
  <2> QED
    BY <1>4, <2>1, <2>2
<1> QED
  BY <1>6, <1>7 DEF parts, win, V, fly

LEMMA AnswerSorted ==
  ASSUME SinkInv, NEW id, NEW isStored \in BOOLEAN, NEW now \in Nat
  PROVE  LET parts == {part \in inFlight : part.id = id} IN
         Sorted(AfterAnswer(parts, now, isStored), inFlight \ parts, nextId)
<1> DEFINE parts == {part \in inFlight : part.id = id}
           fly == inFlight \ parts
           win == AfterAnswer(parts, now, isStored)
<1>1. Sorted(windows, inFlight, nextId)
  BY DEF SinkInv, Steady
<1>2. \A v \in win : \E w \in windows :
        After(v, w, fly) /\ Outcome(v, w, parts, now, isStored)
  BY AnswerWindows
<1>3. fly \subseteq inFlight /\ IsFiniteSet(fly)
  BY <1>1, FS_Subset DEF Sorted
<1>4. parts \subseteq inFlight /\ \A part \in parts : part.id = id
  OBVIOUS
<1>5. IsFiniteSet(win)
  <2> DEFINE f == [x \in windows \X parts |-> Answered(x[1], x[2], now, isStored)]
             T == {f[x] : x \in windows \X parts}
  <2>1. IsFiniteSet(windows \X parts)
    BY <1>1, FS_Subset, FS_Product DEF Sorted
  <2>2. win \subseteq windows \cup T /\ DOMAIN f = windows \X parts
    <3>1. ASSUME NEW part \in parts, NEW w \in windows
          PROVE  Answered(w, part, now, isStored) \in T
      <4>1. <<w, part>> \in windows \X parts
        OBVIOUS
      <4>2. f[<<w, part>>] = Answered(w, part, now, isStored)
        BY <4>1
      <4> QED
        BY <4>1, <4>2
    <3> QED
      BY <3>1 DEF AfterAnswer
  <2> HIDE DEF f
  <2>3. IsFiniteSet(T)
    BY <2>1, <2>2, ImageFinite
  <2>4. IsFiniteSet(windows \cup T)
    BY <1>1, <2>3, FS_Union DEF Sorted
  <2> QED
    BY <2>2, <2>4, FS_Subset
<1> HIDE DEF win, fly, parts
<1>6. win \subseteq WindowType
  BY <1>2 DEF After
<1>7. ASSUME NEW v \in win, NEW u \in win, v.end = u.end
      PROVE  v = u
  <2>1. PICK w \in windows : After(v, w, fly) /\ Outcome(v, w, parts, now, isStored)
    BY <1>2
  <2>2. PICK x \in windows : After(u, x, fly) /\ Outcome(u, x, parts, now, isStored)
    BY <1>2
  <2>3. w = x
    <3>1. v.end = w.end /\ u.end = x.end
      BY <2>1, <2>2 DEF After
    <3>2. \A y, z \in windows : y.end = z.end => y = z
      BY <1>1 DEF Sorted
    <3> QED
      BY <1>7, <3>1, <3>2
  <2>4. \A a, b \in parts : a.end = b.end => a = b
    BY <1>1, <1>4 DEF Sorted
  <2>5. /\ (v = w /\ u = w) \/ \E a \in parts : a.end = w.end /\ v = Answered(w, a, now, isStored)
        /\ (v = w /\ u = w) \/ \E a \in parts : a.end = w.end /\ u = Answered(w, a, now, isStored)
    <3>1. /\ (v = w /\ \A a \in parts : a.end # w.end)
             \/ \E a \in parts : a.end = w.end /\ v = Answered(w, a, now, isStored)
          /\ (u = w /\ \A a \in parts : a.end # w.end)
             \/ \E a \in parts : a.end = w.end /\ u = Answered(w, a, now, isStored)
      BY <2>1, <2>2, <2>3 DEF Outcome, Served
    <3> QED
      BY <3>1
  <2> QED
    BY <2>4, <2>5
<1>8. ASSUME NEW v \in win
      PROVE  /\ \A p \in Answers(v) : EndOf(p.ts) = v.end
             /\ v.inFlight = Cardinality(Waiting(v.end, fly))
             /\ \A a \in fly : Answers(v) \cap a.points = {}
  <2>1. PICK w \in windows : After(v, w, fly) /\ Outcome(v, w, parts, now, isStored)
    BY <1>2
  <2>2. v.end = w.end /\ v.inFlight = Cardinality(Waiting(v.end, fly))
    BY <2>1 DEF After
  <2>3. CASE v = w
    BY <1>1, <1>3, <2>2, <2>3 DEF Sorted
  <2>4. ASSUME NEW part \in parts, part.end = w.end, Served(v, w, part, now, isStored)
        PROVE  /\ \A p \in Answers(v) : EndOf(p.ts) = v.end
               /\ \A a \in fly : Answers(v) \cap a.points = {}
    <3>1. part \in inFlight /\ part.id = id
      BY <1>4
    <3>2. /\ v.stored = (IF isStored THEN w.stored \cup part.points ELSE w.stored)
          /\ v.failed = (IF isStored THEN w.failed ELSE w.failed \cup part.points)
      BY <2>4 DEF Served
    <3>3. Answers(v) = Answers(w) \cup part.points
      BY <3>2 DEF Answers
    <3>4. \A a \in fly : a \in inFlight /\ a # part
      BY <2>4, <3>1 DEF fly, parts
    <3>5. /\ \A p \in Answers(w) : EndOf(p.ts) = w.end
          /\ \A p \in part.points : EndOf(p.ts) = part.end
          /\ \A a \in fly : Answers(w) \cap a.points = {} /\ part.points \cap a.points = {}
      BY <1>1, <3>1, <3>4 DEF Sorted
    <3> QED
      BY <2>2, <2>4, <3>3, <3>5
  <2> QED
    BY <2>1, <2>2, <2>3, <2>4 DEF Outcome
<1>9. \A a, b \in fly : /\ a.id = b.id /\ a.end = b.end => a = b
                        /\ a # b => a.points \cap b.points = {}
  BY <1>1, <1>3 DEF Sorted
<1>10. \A part \in fly : /\ part \in PartType /\ part.id < nextId /\ part.points # {}
                         /\ \A p \in part.points : EndOf(p.ts) = part.end
  BY <1>1, <1>3 DEF Sorted
<1>11. nextId \in Nat
  BY <1>1 DEF Sorted
<1> QED
  BY <1>3, <1>5, <1>6, <1>7, <1>8, <1>9, <1>10, <1>11 DEF Sorted, win, fly, parts

LEMMA AnswerTimed ==
  ASSUME SinkInv, NEW id, NEW isStored \in BOOLEAN, NEW now \in Nat
  PROVE  LET parts == {part \in inFlight : part.id = id} IN
         Timed(Coming(pdata), AfterAnswer(parts, now, isStored), inFlight \ parts, reports,
               IF isStored THEN acks \cup {<<p, now>> : p \in UNION {part.points : part \in parts}}
                           ELSE acks)
<1> DEFINE parts == {part \in inFlight : part.id = id}
           fly == inFlight \ parts
           win == AfterAnswer(parts, now, isStored)
           new == IF isStored THEN {<<p, now>> : p \in UNION {part.points : part \in parts}} ELSE {}
           answers == acks \cup new
<1>1. /\ Sorted(windows, inFlight, nextId) /\ Settled(windows, inFlight, emittedUntil, reports)
      /\ Placed(Coming(pdata), windows, inFlight, reports, ignored, lost)
      /\ Timed(Coming(pdata), windows, inFlight, reports, acks)
  BY DEF SinkInv, Steady
<1>2. \A v \in win : \E w \in windows :
        After(v, w, fly) /\ Outcome(v, w, parts, now, isStored)
  BY AnswerWindows
<1>3. parts \subseteq inFlight /\ fly \subseteq inFlight /\ \A part \in parts : part.id = id /\ part \notin fly
  OBVIOUS
<1>4. /\ \A a \in new : isStored /\ a[2] = now /\ \E part \in parts : a[1] \in part.points
      /\ isStored => \A part \in parts : \A p \in part.points : <<p, now>> \in new
  OBVIOUS
<1>5. new \subseteq generated \X Nat
  <2>1. \A part \in parts : part.points \subseteq generated
    BY <1>1 DEF Sorted, PartType
  <2> QED
    BY <2>1
<1> HIDE DEF new, parts, fly, win
<1>6. answers \subseteq generated \X Nat
  BY <1>1, <1>5 DEF Timed
<1>7. \A a \in answers : a[1] \notin Coming(pdata) /\ \A part \in fly : a[1] \notin part.points
  <2>1. \A a \in acks : a[1] \notin Coming(pdata) /\ \A part \in fly : a[1] \notin part.points
    BY <1>1, <1>3 DEF Timed
  <2>2. ASSUME NEW a \in new PROVE a[1] \notin Coming(pdata) /\ \A part \in fly : a[1] \notin part.points
    <3>1. PICK part \in parts : a[1] \in part.points
      BY <1>4
    <3>2. part \in inFlight /\ part.points \cap Coming(pdata) = {}
      BY <1>1, <1>3 DEF Placed
    <3>3. \A b \in fly : b.points \cap part.points = {}
      BY <1>1, <1>3, <3>1 DEF Sorted
    <3> QED
      BY <3>1, <3>2, <3>3
  <2> QED
    BY <2>1, <2>2
<1>8. ASSUME NEW v \in win
      PROVE  IF v.stored = {} THEN v.lastAck = 0 ELSE Latest(v.lastAck, v.stored, answers)
  <2>1. PICK w \in windows : Outcome(v, w, parts, now, isStored)
    BY <1>2
  <2>2. IF w.stored = {} THEN w.lastAck = 0 ELSE Latest(w.lastAck, w.stored, acks)
    BY <1>1 DEF Timed
  <2>3. \A a \in new : a[1] \notin w.stored
    BY <1>1, <1>3, <1>4 DEF Sorted, Answers
  <2>4. w.stored # {} => Latest(w.lastAck, w.stored, answers)
    BY <2>2, <2>3 DEF Latest
  <2>5. CASE v = w
    BY <2>2, <2>4, <2>5
  <2>6. ASSUME NEW part \in parts, part.end = w.end, Served(v, w, part, now, isStored)
        PROVE  IF v.stored = {} THEN v.lastAck = 0 ELSE Latest(v.lastAck, v.stored, answers)
    <3>1. /\ v.stored = (IF isStored THEN w.stored \cup part.points ELSE w.stored)
          /\ v.lastAck = (IF isStored /\ now > w.lastAck THEN now ELSE w.lastAck)
      BY <2>6 DEF Served
    <3>2. CASE ~isStored
      BY <2>2, <2>4, <3>1, <3>2
    <3>3. CASE isStored
      <4>1. w.lastAck \in Nat /\ part.points # {}
        BY <1>1, <1>3 DEF Sorted, WindowType
      <4>2. PICK p \in part.points : TRUE
        BY <4>1
      <4>3. <<p, now>> \in new /\ p \in v.stored /\ v.stored # {}
        BY <1>4, <3>1, <3>3, <4>2
      <4>4. \A a \in acks : a[1] \notin part.points
        BY <1>1, <1>3 DEF Timed
      <4>5. \A a \in answers : a[2] \in Nat
        BY <1>6
      <4>6. v.lastAck \in Nat /\ now <= v.lastAck /\ w.lastAck <= v.lastAck
        BY <3>1, <3>3, <4>1
      <4>7. \A a \in answers : a[1] \in v.stored => a[2] <= v.lastAck
        <5> TAKE a \in answers
        <5>1. CASE a \in new
          BY <1>4, <4>6, <5>1
        <5>2. CASE a \in acks
          <6>1. a[1] \in v.stored => a[1] \in w.stored
            BY <3>1, <4>4, <5>2
          <6>2. a[1] \in w.stored => a[2] <= w.lastAck
            BY <2>2, <5>2 DEF Latest
          <6> QED
            BY <4>1, <4>5, <4>6, <6>1, <6>2
        <5> QED
          BY <5>1, <5>2
      <4>8. \E a \in answers : a[1] \in v.stored /\ a[2] = v.lastAck
        <5>1. CASE v.lastAck = now
          BY <4>3, <5>1
        <5>2. CASE v.lastAck # now
          <6>1. v.lastAck = w.lastAck /\ w.lastAck # 0
            BY <3>1, <3>3, <4>1, <5>2
          <6>2. PICK a \in acks : a[1] \in w.stored /\ a[2] = w.lastAck
            BY <2>2, <6>1 DEF Latest
          <6> QED
            BY <3>1, <3>3, <6>1, <6>2
        <5> QED
          BY <5>1, <5>2
      <4> QED
        BY <4>3, <4>7, <4>8 DEF Latest
    <3> QED
      BY <3>2, <3>3
  <2> QED
    BY <2>1, <2>5, <2>6 DEF Outcome
<1>9. ASSUME NEW r \in reports, r.stored # {}, r.unacknowledged = {}
      PROVE  Latest(r.complete, r.stored, answers)
  <2>1. Latest(r.complete, r.stored, acks)
    BY <1>1, <1>9 DEF Timed
  <2>2. \A a \in new : a[1] \notin r.stored
    BY <1>1, <1>3, <1>4 DEF Settled
  <2> QED
    BY <2>1, <2>2 DEF Latest
<1>10. answers = IF isStored THEN acks \cup {<<p, now>> : p \in UNION {part.points : part \in parts}}
                             ELSE acks
  BY DEF new
<1> HIDE DEF answers
<1> QED
  BY <1>6, <1>7, <1>8, <1>9, <1>10 DEF Timed, win, fly, parts

LEMMA AnswerSteady ==
  ASSUME SinkInv, NEW id, NEW isStored \in BOOLEAN, NEW now \in Nat
  PROVE  LET parts == {part \in inFlight : part.id = id} IN
         Steady(Coming(pdata), AfterAnswer(parts, now, isStored), inFlight \ parts, nextId, sentUntil,
                ignored, lost,
                IF isStored THEN acks \cup {<<p, now>> : p \in UNION {part.points : part \in parts}}
                            ELSE acks)
<1> DEFINE parts == {part \in inFlight : part.id = id}
           fly == inFlight \ parts
           win == AfterAnswer(parts, now, isStored)
<1>1. /\ Settled(windows, inFlight, emittedUntil, reports)
      /\ Placed(Coming(pdata), windows, inFlight, reports, ignored, lost)
      /\ InOrder(Coming(pdata), windows, emittedUntil, sentUntil, reports, ignored, lost, hurried)
  BY DEF SinkInv, Steady
<1>2. /\ \A w \in windows : \E v \in win : After(v, w, fly)
      /\ \A v \in win : \E w \in windows : After(v, w, fly)
  BY AnswerWindows
<1>3. fly \subseteq inFlight
  OBVIOUS
<1>4. Sorted(win, fly, nextId)
  BY AnswerSorted
<1>5. Timed(Coming(pdata), win, fly, reports,
            IF isStored THEN acks \cup {<<p, now>> : p \in UNION {part.points : part \in parts}}
                        ELSE acks)
  BY AnswerTimed
<1> HIDE DEF win, fly
<1>6. /\ \A w \in windows : \E v \in win : v.end = w.end
      /\ \A v \in win : \E w \in windows : v.end = w.end
  BY <1>2 DEF After
<1>7. Settled(win, fly, emittedUntil, reports)
  BY <1>1, <1>3, <1>6 DEF Settled
<1>8. Held(win, fly) = Held(windows, inFlight)
  BY <1>2 DEF Held, After
<1>9. Placed(Coming(pdata), win, fly, reports, ignored, lost)
  BY <1>1, <1>3, <1>8 DEF Placed
<1>10. InOrder(Coming(pdata), win, emittedUntil, sentUntil, reports, ignored, lost, hurried)
  BY <1>1, <1>6 DEF InOrder
<1> QED
  BY <1>4, <1>5, <1>7, <1>9, <1>10 DEF Steady, win, fly

-----------------------------------------------------------------------------
(* A message that is lost.                                                 *)

LEMMA UnreadSteady ==
  ASSUME SinkInv, pdata # <<>>
  PROVE  Steady(Coming(Tail(pdata)), windows, inFlight, nextId, sentUntil, ignored,
                lost \cup Head(pdata), acks)
<1> DEFINE points == Head(pdata)
           rest == Coming(Tail(pdata))
<1>1. /\ points \subseteq generated /\ Coming(pdata) = points \cup rest /\ points \cap rest = {}
  BY QueueHead DEF SinkInv
<1>2. /\ Sorted(windows, inFlight, nextId) /\ Settled(windows, inFlight, emittedUntil, reports)
      /\ Placed(Coming(pdata), windows, inFlight, reports, ignored, lost)
      /\ Timed(Coming(pdata), windows, inFlight, reports, acks)
      /\ InOrder(Coming(pdata), windows, emittedUntil, sentUntil, reports, ignored, lost, hurried)
  BY DEF SinkInv, Steady
<1> HIDE DEF points, rest
<1>3. Placed(rest, windows, inFlight, reports, ignored, lost \cup points)
  BY <1>1, <1>2 DEF Placed
<1>4. Timed(rest, windows, inFlight, reports, acks)
  BY <1>1, <1>2 DEF Timed
<1>5. \A r \in reports : Reported(r) \cap points = {}
  <2>1. Told(reports) \cap points = {}
    BY <1>1, <1>2 DEF Placed
  <2> QED
    BY <2>1 DEF Told
<1>6. \A r \in reports : r.end \notin hurried =>
        Reported(r) = {p \in generated : EndOf(p.ts) = r.end} \ (lost \cup points)
  BY <1>2, <1>5 DEF InOrder
<1>7. InOrder(rest, windows, emittedUntil, sentUntil, reports, ignored, lost \cup points, hurried)
  BY <1>1, <1>2, <1>6 DEF InOrder
<1> QED
  BY <1>2, <1>3, <1>4, <1>7 DEF Steady, points, rest

-----------------------------------------------------------------------------
(* The steps of the sink.                                                  *)

LEMMA StepSteady ==
  ASSUME NEW coming, NEW win, NEW fly, NEW next, NEW until, NEW ign, NEW los, NEW answers,
         Steady(coming, win, fly, next, until, ign, los, answers),
         UNCHANGED <<generated, emittedUntil, reports, hurried>>,
         windows' = win, inFlight' = fly, nextId' = next, sentUntil' = until, ignored' = ign,
         lost' = los, acks' = answers, Coming(pdata)' = coming
  PROVE  Steady(Coming(pdata), windows, inFlight, nextId, sentUntil, ignored, lost, acks)'
<1>1. Sorted(windows, inFlight, nextId)'
  BY DEF Steady, Sorted, WindowType, PartType
<1>2. Settled(windows, inFlight, emittedUntil, reports)'
  BY DEF Steady, Settled, ReportType
<1>3. Placed(Coming(pdata), windows, inFlight, reports, ignored, lost)'
  BY DEF Steady, Placed
<1>4. Timed(Coming(pdata), windows, inFlight, reports, acks)'
  BY DEF Steady, Timed
<1>5. InOrder(Coming(pdata), windows, emittedUntil, sentUntil, reports, ignored, lost, hurried)'
  BY DEF Steady, InOrder
<1> QED
  BY <1>1, <1>2, <1>3, <1>4, <1>5 DEF Steady

\* What else the sink's invariant asks of a step that generates nothing.
LEMMA StepRest ==
  ASSUME SinkInv, UNCHANGED generated, pdata' = pdata \/ (pdata # <<>> /\ pdata' = Tail(pdata)),
         sentUntil' = sentUntil \/ (pdata # <<>> /\ sentUntil' = SentUntil(Head(pdata))),
         Steady(Coming(pdata), windows, inFlight, nextId, sentUntil, ignored, lost, acks)'
  PROVE  SinkInv'
<1>1. PointsOK'
  BY DEF SinkInv, PointsOK
<1>2. Queued(pdata)'
  <2>1. Queued(pdata')
    BY QueueHead DEF SinkInv
  <2> QED
    BY <2>1 DEF Queued
<1>3. (sentUntil = 0 \/ \E p \in generated : p.ts = sentUntil)'
  <2>1. CASE sentUntil' = sentUntil
    BY <2>1 DEF SinkInv
  <2>2. CASE pdata # <<>> /\ sentUntil' = SentUntil(Head(pdata))
    <3>1. Head(pdata) \subseteq generated
      BY <2>2, QueueHead DEF SinkInv
    <3>2. SentUntil(Head(pdata)) = sentUntil \/ \E p \in Head(pdata) : p.ts = SentUntil(Head(pdata))
      BY <3>1, SentUntilIs
    <3> QED
      BY <2>2, <3>1, <3>2 DEF SinkInv
  <2> QED
    BY <2>1, <2>2
<1> QED
  BY <1>1, <1>2, <1>3 DEF SinkInv

LEMMA SinkStep ==
  ASSUME SinkInv,
         \/ SendFails
         \/ \E now \in Times :
              \/ PData(now) \/ Unread(now) \/ TimerTick(now) \/ Shutdown(now)
              \/ \E id \in 0..nextId, isStored \in BOOLEAN : Answer(id, isStored, now)
         \/ UNCHANGED vars
  PROVE  SinkInv'
<1>1. /\ Steady(Coming(pdata), windows, inFlight, nextId, sentUntil, ignored, lost, acks)
      /\ PointsOK /\ TRUE \in BOOLEAN /\ FALSE \in BOOLEAN /\ Times \subseteq Nat
  BY SinkAssumption DEF SinkInv, SinkAssumption
<1>2. CASE SendFails
  <2>1. /\ pdata # <<>> /\ pdata' = Tail(pdata) /\ sentUntil' = SentUntil(Head(pdata))
        /\ UNCHANGED <<generated, emittedUntil, reports, hurried>>
        /\ Coming(pdata)' = Coming(Tail(pdata))
    BY <1>2 DEF SendFails
  <2>2. Steady(Coming(pdata), windows, inFlight, nextId, sentUntil, ignored, lost, acks)'
    <3> DEFINE parts == ByWindow(nextId, Head(pdata))
    <3>1. /\ windows' = Registered(parts) /\ inFlight' = inFlight \cup parts /\ nextId' = nextId + 1
          /\ ignored' = ignored \cup (Head(pdata) \ UNION {part.points : part \in parts})
          /\ lost' = lost /\ acks' = acks
      BY <1>2 DEF SendFails
    <3> QED
      BY <2>1, <3>1, PDataSteady, StepSteady
  <2> QED
    BY <2>1, <2>2, StepRest
<1>3. ASSUME NEW now \in Times, PData(now) PROVE SinkInv'
  <2>1. /\ pdata # <<>> /\ pdata' = Tail(pdata) /\ sentUntil' = SentUntil(Head(pdata))
        /\ UNCHANGED generated /\ Coming(pdata)' = Coming(Tail(pdata))
    BY <1>3 DEF PData
  <2>2. Steady(Coming(pdata), windows, inFlight, nextId, sentUntil, ignored, lost, acks)'
    <3> DEFINE parts == ByWindow(nextId, Head(pdata))
    <3>1. /\ Due(Registered(parts), inFlight \cup parts, SentUntil(Head(pdata)), now, FALSE)
          /\ inFlight' = inFlight \cup parts /\ nextId' = nextId + 1
          /\ ignored' = ignored \cup (Head(pdata) \ UNION {part.points : part \in parts})
          /\ lost' = lost /\ acks' = acks
      BY <1>3 DEF PData
    <3> QED
      BY <1>1, <2>1, <3>1, PDataSteady, DueSteady
  <2> QED
    BY <2>1, <2>2, StepRest
<1>4. ASSUME NEW now \in Times, Unread(now) PROVE SinkInv'
  <2>1. /\ pdata # <<>> /\ pdata' = Tail(pdata) /\ sentUntil' = sentUntil
        /\ UNCHANGED generated /\ Coming(pdata)' = Coming(Tail(pdata))
        /\ UNCHANGED <<inFlight, nextId, acks, ignored>> /\ lost' = lost \cup Head(pdata)
        /\ \/ UNCHANGED <<windows, emittedUntil, reports, hurried>>
           \/ Due(windows, inFlight, sentUntil, now, FALSE)
    BY <1>4 DEF Unread
  <2>2. Steady(Coming(Tail(pdata)), windows, inFlight, nextId, sentUntil, ignored,
               lost \cup Head(pdata), acks)
    BY <2>1, UnreadSteady
  <2>3. CASE UNCHANGED <<windows, emittedUntil, reports, hurried>>
    <3>1. Steady(Coming(pdata), windows, inFlight, nextId, sentUntil, ignored, lost, acks)'
      BY <2>1, <2>2, <2>3, StepSteady
    <3> QED
      BY <2>1, <3>1, StepRest
  <2>4. CASE Due(windows, inFlight, sentUntil, now, FALSE)
    <3>1. Steady(Coming(pdata), windows, inFlight, nextId, sentUntil, ignored, lost, acks)'
      BY <1>1, <2>1, <2>2, <2>4, DueSteady
    <3> QED
      BY <2>1, <3>1, StepRest
  <2> QED
    BY <2>1, <2>3, <2>4
<1>5. ASSUME NEW now \in Times, NEW closing \in BOOLEAN, Due(windows, inFlight, sentUntil, now, closing),
             UNCHANGED <<generator, inFlight, nextId, sentUntil, acks, ignored, lost>>
      PROVE  SinkInv'
  <2>1. UNCHANGED <<generated, pdata>> /\ Coming(pdata)' = Coming(pdata)
    BY <1>5 DEF generator
  <2>2. Steady(Coming(pdata), windows, inFlight, nextId, sentUntil, ignored, lost, acks)'
    BY <1>1, <1>5, <2>1, DueSteady
  <2> QED
    BY <1>5, <2>1, <2>2, StepRest
<1>6. ASSUME NEW now \in Times, NEW id \in 0..nextId, NEW isStored \in BOOLEAN, Answer(id, isStored, now)
      PROVE  SinkInv'
  <2> DEFINE parts == {part \in inFlight : part.id = id}
  <2>1. /\ UNCHANGED <<generated, pdata, sentUntil>> /\ Coming(pdata)' = Coming(pdata)
        /\ Due(AfterAnswer(parts, now, isStored), inFlight \ parts, sentUntil, now, FALSE)
        /\ inFlight' = inFlight \ parts /\ UNCHANGED <<nextId, ignored, lost>>
        /\ acks' = IF isStored THEN acks \cup {<<p, now>> : p \in UNION {part.points : part \in parts}}
                               ELSE acks
    BY <1>6 DEF Answer, generator
  <2>2. Steady(Coming(pdata), AfterAnswer(parts, now, isStored), inFlight \ parts, nextId, sentUntil,
               ignored, lost,
               IF isStored THEN acks \cup {<<p, now>> : p \in UNION {part.points : part \in parts}}
                           ELSE acks)
    BY <1>1, AnswerSteady
  <2> HIDE DEF parts
  <2>3. Steady(Coming(pdata), windows, inFlight, nextId, sentUntil, ignored, lost, acks)'
    BY <1>1, <2>1, <2>2, DueSteady
  <2> QED
    BY <2>1, <2>3, StepRest
<1>7. CASE UNCHANGED vars
  <2>1. /\ UNCHANGED <<generated, pdata, windows, inFlight, nextId, emittedUntil, sentUntil, reports, acks,
                      ignored, lost, hurried>>
        /\ Coming(pdata)' = Coming(pdata)
    BY <1>7 DEF vars, generator, sink, history
  <2>2. Steady(Coming(pdata), windows, inFlight, nextId, sentUntil, ignored, lost, acks)'
    BY <1>1, <2>1, StepSteady
  <2> QED
    BY <2>1, <2>2, StepRest
<1>8. ASSUME NEW now \in Times, TimerTick(now) \/ Shutdown(now) PROVE SinkInv'
  BY <1>1, <1>5, <1>8 DEF TimerTick, Shutdown
<1> QED
  BY <1>2, <1>3, <1>4, <1>6, <1>7, <1>8

\* New points, none of them before one there is.
LEMMA GenerateSteady ==
  ASSUME SinkInv, NEW points, IsFiniteSet(points), points \cap generated = {},
         \A p \in points : p.ts \in Nat /\ \A q \in generated : q.ts <= p.ts,
         generated' = generated \cup points,
         pdata' = Append(pdata, points) \/ (pdata' = pdata /\ points = {}),
         UNCHANGED <<sink, history>>
  PROVE  SinkInv'
<1>1. /\ UNCHANGED <<windows, inFlight, nextId, emittedUntil, sentUntil, reports, acks, ignored, lost,
                     hurried>>
      /\ generated \subseteq generated'
  BY DEF sink, history
<1>2. /\ Sorted(windows, inFlight, nextId) /\ Settled(windows, inFlight, emittedUntil, reports)
      /\ Placed(Coming(pdata), windows, inFlight, reports, ignored, lost)
      /\ Timed(Coming(pdata), windows, inFlight, reports, acks)
      /\ InOrder(Coming(pdata), windows, emittedUntil, sentUntil, reports, ignored, lost, hurried)
      /\ PointsOK /\ Queued(pdata)
      /\ sentUntil = 0 \/ \E p \in generated : p.ts = sentUntil
  BY DEF SinkInv, Steady
<1>3. PointsOK'
  <2>1. IsFiniteSet(generated')
    BY <1>2, FS_Union DEF PointsOK
  <2> QED
    BY <1>2, <2>1 DEF PointsOK
<1>4. pdata \in Seq(SUBSET generated) /\ DOMAIN pdata = 1..Len(pdata) /\ Len(pdata) \in Nat
  <2>1. pdata \in Seq(SUBSET generated)
    BY <1>2 DEF Queued
  <2> QED
    BY <2>1
<1>5. \A i \in DOMAIN pdata : pdata[i] \subseteq generated
  BY <1>4
<1>6. pdata \in Seq(SUBSET generated')
  <2>1. SUBSET generated \subseteq SUBSET generated'
    BY <1>1
  <2> QED
    BY <1>4, <2>1
<1>7. Queued(pdata)' /\ Coming(pdata)' = Coming(pdata) \cup points
  <2>1. CASE pdata' = pdata /\ points = {}
    BY <1>2, <1>6, <2>1 DEF Queued, Coming
  <2>2. CASE pdata' = Append(pdata, points)
    <3>1. points \in SUBSET generated'
      OBVIOUS
    <3>2. /\ pdata' \in Seq(SUBSET generated') /\ DOMAIN pdata' = 1..Len(pdata) + 1
          /\ \A i \in 1..Len(pdata) : pdata'[i] = pdata[i]
          /\ pdata'[Len(pdata) + 1] = points
      BY <1>4, <1>6, <2>2, <3>1
    <3>3. ASSUME NEW i \in DOMAIN pdata', NEW j \in DOMAIN pdata', i < j
          PROVE  \A p \in pdata'[i], q \in pdata'[j] : p # q /\ p.ts <= q.ts
      <4>1. i \in DOMAIN pdata /\ pdata'[i] = pdata[i]
        BY <1>4, <3>2, <3>3
      <4>2. CASE j \in DOMAIN pdata
        BY <1>2, <1>4, <3>2, <3>3, <4>1, <4>2 DEF Queued
      <4>3. CASE j = Len(pdata) + 1
        BY <1>5, <3>2, <4>1, <4>3
      <4> QED
        BY <1>4, <3>2, <4>2, <4>3
    <3>4. Coming(pdata)' = Coming(pdata) \cup points
      <4>1. \A p : p \in Coming(pdata)' <=> \E i \in 1..Len(pdata) + 1 : p \in pdata'[i]
        BY <3>2 DEF Coming
      <4>2. \A p : p \in Coming(pdata) <=> \E i \in 1..Len(pdata) : p \in pdata[i]
        BY <1>4 DEF Coming
      <4>3. \A i : i \in 1..Len(pdata) + 1 <=> i \in 1..Len(pdata) \/ i = Len(pdata) + 1
        BY <1>4
      <4>4. \A p : p \in Coming(pdata)' <=> p \in Coming(pdata) \/ p \in points
        BY <3>2, <4>1, <4>2, <4>3
      <4> QED
        BY <4>4
    <3> QED
      BY <3>2, <3>3, <3>4 DEF Queued
  <2> QED
    BY <2>1, <2>2
<1>8. \A p \in points : p.ts >= sentUntil
  <2>1. sentUntil \in Nat
    BY <1>2 DEF InOrder
  <2> QED
    BY <1>2, <2>1
<1>9. Sorted(windows, inFlight, nextId)'
  <2>1. windows' \subseteq WindowType' /\ inFlight' \subseteq PartType'
    BY <1>1, <1>2 DEF Sorted, WindowType, PartType
  <2> QED
    BY <1>1, <1>2, <2>1 DEF Sorted
<1>10. Settled(windows, inFlight, emittedUntil, reports)'
  <2>1. reports' \subseteq ReportType'
    BY <1>1, <1>2 DEF Settled, ReportType
  <2> QED
    BY <1>1, <1>2, <2>1 DEF Settled
<1>11. /\ Held(windows, inFlight) \subseteq generated /\ Told(reports) \subseteq generated
       /\ ignored \subseteq generated /\ lost \subseteq generated /\ Coming(pdata) \subseteq generated
       /\ \A part \in inFlight : part.points \subseteq generated
  BY <1>2 DEF Placed, Sorted, PartType
<1>12. Placed(Coming(pdata), windows, inFlight, reports, ignored, lost)'
  <2>1. UNCHANGED <<Held(windows, inFlight), Told(reports)>>
    BY <1>1 DEF Held, Told, HeldIn, Answers, Waiting, Reported
  <2> QED
    BY <1>1, <1>2, <1>7, <1>11, <2>1 DEF Placed
<1>13. Timed(Coming(pdata), windows, inFlight, reports, acks)'
  BY <1>1, <1>2, <1>7 DEF Timed
<1>14. \A r \in reports : r.end \notin hurried =>
         {p \in generated' : EndOf(p.ts) = r.end} = {p \in generated : EndOf(p.ts) = r.end}
  <2> SUFFICES ASSUME NEW r \in reports, r.end \notin hurried, NEW p \in points PROVE EndOf(p.ts) # r.end
    OBVIOUS
  <2>1. r.end <= sentUntil /\ r.end \in Nat /\ sentUntil \in Nat
    BY <1>2 DEF InOrder, Settled, ReportType
  <2>2. p.ts \in Nat /\ EndOf(p.ts) \in Nat /\ EndOf(p.ts) > p.ts
    BY EndOfBounds
  <2> QED
    BY <1>8, <2>1, <2>2
<1>15. InOrder(Coming(pdata), windows, emittedUntil, sentUntil, reports, ignored, lost, hurried)'
  <2>1. \A p \in Coming(pdata)' : p.ts >= sentUntil
    BY <1>2, <1>7, <1>8 DEF InOrder
  <2>2. \A r \in reports : r.end \notin hurried =>
          /\ r.end <= sentUntil /\ r.unacknowledged = {}
          /\ Reported(r) = {p \in generated' : EndOf(p.ts) = r.end} \ lost
    BY <1>2, <1>14 DEF InOrder
  <2> QED
    BY <1>1, <1>2, <2>1, <2>2 DEF InOrder
<1> QED
  BY <1>1, <1>2, <1>3, <1>7, <1>9, <1>10, <1>12, <1>13, <1>15 DEF SinkInv, Steady

-----------------------------------------------------------------------------
(* The scenario: rates, batches and times.                                 *)

LEMMA ConfigIs ==
  ASSUME NEW cfg \in Configs
  PROVE  /\ cfg # None /\ cfg.rate \in Nat /\ cfg.maxBatch \in Nat
         /\ Len(cfg.changes) \in Nat /\ DOMAIN cfg.changes = 1..Len(cfg.changes)
         /\ Len(cfg.attributes) \in Nat /\ DOMAIN cfg.attributes = 1..Len(cfg.attributes)
         /\ IsFiniteSet(DOMAIN cfg.changes) /\ DOMAIN cfg.changes \subseteq Nat
         /\ IsFiniteSet(DOMAIN cfg.attributes) /\ DOMAIN cfg.attributes \subseteq Nat
         /\ \A i \in DOMAIN cfg.attributes :
              cfg.attributes[i].cardinality \in Nat /\ cfg.attributes[i].growth \in Nat
         /\ \A c \in DOMAIN cfg.changes :
              /\ cfg.changes[c].after \in Nat /\ cfg.changes[c].share \in Nat
              /\ cfg.changes[c].rate \in Nat \cup {None}
              /\ cfg.changes[c].cardinality \in Nat \cup {None}
<1>1. ConfigOK(cfg) /\ cfg # None
  BY GeneratorAssumption DEF GeneratorAssumption
<1>2. /\ Len(cfg.changes) \in Nat /\ DOMAIN cfg.changes = 1..Len(cfg.changes)
      /\ Len(cfg.attributes) \in Nat /\ DOMAIN cfg.attributes = 1..Len(cfg.attributes)
  BY <1>1 DEF ConfigOK, IsSequence
<1>3. IsFiniteSet(DOMAIN cfg.changes) /\ IsFiniteSet(DOMAIN cfg.attributes)
  <2>1. \A n \in Nat : IsFiniteSet(1..n)
    BY FS_Interval
  <2> QED
    BY <1>2, <2>1
<1>4. DOMAIN cfg.changes \subseteq Nat /\ DOMAIN cfg.attributes \subseteq Nat
  BY <1>2
<1>5. \A c \in DOMAIN cfg.changes :
        cfg.changes[c].rate \in Nat \cup {None} /\ cfg.changes[c].cardinality \in Nat \cup {None}
  BY <1>1 DEF ConfigOK
<1> QED
  BY <1>1, <1>2, <1>3, <1>4, <1>5 DEF ConfigOK

\* Of the changes that have begun one is the last.
LEMMA LastBegunIs ==
  ASSUME NEW cfg \in Configs, NEW begun \in SUBSET DOMAIN cfg.changes, begun # {}
  PROVE  LastBegun(cfg, begun) \in begun
<1> DEFINE f == [c \in begun |-> cfg.changes[c].after]
           times == {f[c] : c \in begun}
           m == Max(times)
           latest == {c \in begun : f[c] = m}
           k == Max(latest)
<1>1. IsFiniteSet(begun) /\ begun \subseteq Nat
  BY ConfigIs, FS_Subset
<1>2. \A c \in begun : f[c] \in Nat /\ f[c] = cfg.changes[c].after
  BY ConfigIs
<1>3. IsFiniteSet(times) /\ times \subseteq Nat /\ times # {}
  <2>1. DOMAIN f = begun
    OBVIOUS
  <2>2. times \subseteq Nat /\ times # {}
    BY <1>2
  <2> HIDE DEF f
  <2> QED
    BY <1>1, <2>1, <2>2, ImageFinite
<1> HIDE DEF f
<1>4. m \in times /\ \A t \in times : t <= m
  BY <1>3, Largest
<1> HIDE DEF m
<1>5. IsFiniteSet(latest) /\ latest \subseteq Nat /\ latest # {}
  BY <1>1, <1>4, FS_Subset
<1>6. k \in latest /\ \A c \in latest : c <= k
  BY <1>5, Largest
<1> HIDE DEF k
<1>7. \A d \in begun : \/ cfg.changes[k].after > cfg.changes[d].after
                       \/ cfg.changes[k].after = cfg.changes[d].after /\ k >= d
  <2> TAKE d \in begun
  <2>1. k \in begun /\ f[k] = m /\ f[d] <= m /\ f[d] \in Nat /\ m \in Nat /\ k \in Nat /\ d \in Nat
    BY <1>1, <1>2, <1>4, <1>6
  <2>2. f[d] = m => d <= k
    BY <1>6
  <2> QED
    BY <1>2, <2>1, <2>2
<1>8. k \in begun
  BY <1>6
<1> QED
  BY <1>7, <1>8 DEF LastBegun

LEMMA RateIs ==
  ASSUME NEW cfg \in Configs, Valid(cfg), NEW second
  PROVE  /\ MaxRate(cfg) \in Nat /\ MaxRate(cfg) > 0
         /\ RateAt(cfg, second) \in Nat /\ RateAt(cfg, second) <= MaxRate(cfg)
<1> DEFINE f == [c \in RateChanges(cfg) |-> cfg.changes[c].rate]
           rates == {f[c] : c \in RateChanges(cfg)}
           all == {cfg.rate} \cup rates
<1>1. cfg.rate \in Nat /\ cfg.rate > 0
  BY ConfigIs DEF Valid
<1>2. RateChanges(cfg) \subseteq DOMAIN cfg.changes
  BY DEF RateChanges
<1>3. \A c \in RateChanges(cfg) : cfg.changes[c].rate \in Nat
  BY ConfigIs DEF RateChanges
<1>4. IsFiniteSet(RateChanges(cfg))
  BY <1>2, ConfigIs, FS_Subset
<1>5. IsFiniteSet(rates) /\ rates \subseteq Nat
  <2>1. DOMAIN f = RateChanges(cfg)
    OBVIOUS
  <2>2. rates \subseteq Nat
    BY <1>3
  <2> HIDE DEF f
  <2> QED
    BY <1>4, <2>1, <2>2, ImageFinite
<1>6. IsFiniteSet(all) /\ all \subseteq Nat /\ all # {}
  <2> HIDE DEF rates
  <2>1. IsFiniteSet(all)
    BY <1>5, FS_AddElement
  <2> QED
    BY <1>1, <1>5, <2>1
<1>7. MaxRate(cfg) = Max(all)
  <2>1. rates = {cfg.changes[c].rate : c \in RateChanges(cfg)}
    OBVIOUS
  <2> QED
    BY <2>1 DEF MaxRate
<1>8. Max(all) \in all /\ \A r \in all : r <= Max(all)
  BY <1>6, Largest
<1>9. RateAt(cfg, second) \in all
  <2> DEFINE begun == RateChanges(cfg) \cap Begun(cfg, second)
  <2>1. CASE begun = {}
    BY <2>1 DEF RateAt
  <2>2. CASE begun # {}
    <3>1. LastBegun(cfg, begun) \in begun
      BY <1>2, <2>2, LastBegunIs
    <3>2. RateAt(cfg, second) = cfg.changes[LastBegun(cfg, begun)].rate
      BY <2>2 DEF RateAt
    <3> HIDE DEF begun
    <3>3. LastBegun(cfg, begun) \in RateChanges(cfg)
      BY <3>1 DEF begun
    <3> QED
      BY <3>2, <3>3
  <2> QED
    BY <2>1, <2>2
<1>10. cfg.rate \in all
  OBVIOUS
<1> HIDE DEF all
<1>11. MaxRate(cfg) \in Nat /\ cfg.rate <= MaxRate(cfg)
  BY <1>6, <1>7, <1>8, <1>10
<1>12. RateAt(cfg, second) \in Nat /\ RateAt(cfg, second) <= MaxRate(cfg)
  BY <1>6, <1>7, <1>8, <1>9
<1> QED
  BY <1>1, <1>11, <1>12

\* There are as many batches as the highest rate needs.
LEMMA SlotsIs ==
  ASSUME NEW cfg \in Configs, Valid(cfg)
  PROVE  /\ BatchesPerSecond(cfg) \in Nat /\ BatchesPerSecond(cfg) > 0
         /\ MaxRate(cfg) <= BatchesPerSecond(cfg) * cfg.maxBatch
<1> DEFINE m == MaxRate(cfg)
           b == cfg.maxBatch
           s == BatchesPerSecond(cfg)
<1>1. m \in Nat /\ m > 0 /\ b \in Nat /\ b > 0
  BY ConfigIs, RateIs DEF Valid
<1>2. s = (m + b - 1) \div b
  BY DEF BatchesPerSecond
<1> HIDE DEF m, b, s
<1>3. m + b - 1 \in Nat
  BY <1>1
<1>4. s \in Nat /\ (m + b - 1) % b \in 0..b - 1 /\ m + b - 1 = s * b + ((m + b - 1) % b)
  BY <1>1, <1>2, <1>3, DivMod
<1>5. s * b \in Nat
  BY <1>1, <1>4
<1>6. m <= s * b
  BY <1>1, <1>4, <1>5
<1>7. s # 0
  BY <1>1, <1>6
<1> QED
  BY <1>4, <1>6, <1>7 DEF m, b, s

\* The batches of a second share out its points, each at most as many as it may have.
LEMMA RangesAre ==
  ASSUME NEW cfg \in Configs, Valid(cfg), NEW second
  PROVE  LET First(i) == BatchRange(cfg, second, i).first
             count(i) == BatchRange(cfg, second, i).count
         IN /\ First(0) = 0 /\ First(BatchesPerSecond(cfg)) = RateAt(cfg, second)
            /\ \A i \in Nat : /\ First(i) \in Nat /\ count(i) \in Nat /\ count(i) <= cfg.maxBatch
                              /\ First(i + 1) = First(i) + count(i)
            /\ \A i, j \in Nat : i <= j => First(i) <= First(j)
<1> DEFINE r == RateAt(cfg, second)
           s == BatchesPerSecond(cfg)
           b == cfg.maxBatch
           First(i) == BatchRange(cfg, second, i).first
           count(i) == BatchRange(cfg, second, i).count
           F(i) == (i * r) \div s
<1>1. /\ r \in Nat /\ s \in Nat /\ s > 0 /\ b \in Nat /\ r <= s * b /\ s * b \in Nat
  <2>1. /\ r \in Nat /\ s \in Nat /\ s > 0 /\ b \in Nat
        /\ r <= MaxRate(cfg) /\ MaxRate(cfg) \in Nat /\ MaxRate(cfg) <= s * b
    BY ConfigIs, RateIs, SlotsIs
  <2> HIDE DEF r, s, b
  <2>2. s * b \in Nat
    BY <2>1
  <2> QED
    BY <2>1, <2>2
<1>2. \A i : First(i) = F(i) /\ count(i) = F(i + 1) - F(i)
  BY DEF BatchRange
<1> HIDE DEF r, s, b, First, count
<1>3. \A i \in Nat : i * r \in Nat /\ F(i) \in Nat
  <2> TAKE i \in Nat
  <2>1. i * r \in Nat
    BY <1>1
  <2> QED
    BY <1>1, <2>1, DivMod
<1>4. \A i, j \in Nat : i <= j => F(i) <= F(j)
  <2> TAKE i, j \in Nat
  <2> HAVE i <= j
  <2>1. j - i \in Nat /\ j = i + (j - i)
    OBVIOUS
  <2>2. j * r = i * r + (j - i) * r /\ (j - i) * r \in Nat
    BY <1>1, <2>1
  <2>3. i * r <= j * r /\ i * r \in Nat /\ j * r \in Nat
    BY <1>3, <2>2
  <2> QED
    BY <1>1, <2>3, DivMono
<1>5. \A i \in Nat : F(i + 1) <= F(i) + b
  <2> TAKE i \in Nat
  <2> DEFINE a == i * r
             q == F(i)
  <2>1. a \in Nat /\ q \in Nat /\ a % s \in 0..s - 1 /\ a = q * s + (a % s)
    BY <1>1, <1>3, DivMod
  <2>2. (i + 1) * r = a + r
    BY <1>1
  <2> HIDE DEF q
  <2> DEFINE n == a + s * b
  <2>3. (q + b) * s = q * s + s * b /\ q * s \in Nat
    BY <1>1, <2>1
  <2> HIDE DEF a
  <2>4. n \in Nat /\ (q + b) * s <= n /\ n < (q + b) * s + s /\ q + b \in Nat
    BY <1>1, <2>1, <2>3
  <2>5. n \div s = q + b
    BY <1>1, <2>4, DivIs
  <2>6. a + r \in Nat /\ a + r <= n
    BY <1>1, <2>1
  <2>7. (a + r) \div s <= n \div s
    BY <1>1, <2>4, <2>6, DivMono
  <2> QED
    BY <2>2, <2>5, <2>7 DEF q
<1>6. F(0) = 0
  <2>1. 0 * r = 0 /\ 0 * s = 0
    BY <1>1
  <2>2. 0 \div s = 0
    BY <1>1, <2>1, DivIs
  <2> QED
    BY <2>1, <2>2
<1>7. F(s) = r
  <2>1. s * r = r * s /\ s * r \in Nat
    BY <1>1
  <2> QED
    BY <1>1, <2>1, DivIs
<1> HIDE DEF F
<1>8. \A i \in Nat : /\ First(i) \in Nat /\ count(i) \in Nat /\ count(i) <= b
                     /\ First(i + 1) = First(i) + count(i)
  <2> TAKE i \in Nat
  <2>1. i + 1 \in Nat /\ i <= i + 1
    OBVIOUS
  <2>2. F(i) \in Nat /\ F(i + 1) \in Nat /\ F(i) <= F(i + 1) /\ F(i + 1) <= F(i) + b
    BY <1>3, <1>4, <1>5, <2>1
  <2> QED
    BY <1>1, <1>2, <2>2
<1> QED
  BY <1>2, <1>4, <1>6, <1>7, <1>8 DEF r, s, b, First, count

\* The time of a batch goes by its number.
LEMMA StampMono ==
  ASSUME NEW cfg \in Configs, Valid(cfg), NEW a \in Nat, NEW b \in Nat, a <= b
  PROVE  LET S(n) == Stamp(cfg, n \div BatchesPerSecond(cfg), n % BatchesPerSecond(cfg)) IN
         S(a) \in Nat /\ S(a) <= S(b)
<1> DEFINE s == BatchesPerSecond(cfg)
           S(n) == Stamp(cfg, n \div s, n % s)
           x == a \div s
           i == a % s
           y == b \div s
           j == b % s
           U == Second
           p == (i * U) \div s
           q == (j * U) \div s
<1>1. s \in Nat /\ s > 0 /\ U \in Nat /\ U > 0
  BY SlotsIs, GeneratorAssumption DEF GeneratorAssumption
<1>2. S(a) = x * U + p /\ S(b) = y * U + q
  BY DEF Stamp
<1> HIDE DEF s, S, U
<1>3. /\ x \in Nat /\ i \in 0..s - 1 /\ a = x * s + i
      /\ y \in Nat /\ j \in 0..s - 1 /\ b = y * s + j
  BY <1>1, DivMod
<1>4. x <= y
  BY <1>1, DivMono
<1> HIDE DEF x, y, i, j
<1>5. i \in Nat /\ j \in Nat /\ i < s /\ j < s /\ i * U \in Nat /\ j * U \in Nat
  BY <1>1, <1>3
<1>6. p \in Nat /\ q \in Nat /\ (i * U) % s \in 0..s - 1 /\ i * U = p * s + ((i * U) % s)
  BY <1>1, <1>5, DivMod
<1> HIDE DEF q
<1> DEFINE A == x * U
           B == y * U
<1>7. A \in Nat /\ B \in Nat /\ S(a) = A + p /\ S(b) = B + q
  BY <1>1, <1>2, <1>3 DEF q
<1> HIDE DEF A, B
<1>8. ASSUME x = y PROVE S(a) <= S(b)
  <2>1. i <= j
    <3>1. x * s \in Nat
      BY <1>1, <1>3
    <3> QED
      BY <1>3, <1>5, <1>8, <3>1
  <2>2. j - i \in Nat
    BY <1>5, <2>1
  <2>3. j * U = i * U + (j - i) * U /\ (j - i) * U \in Nat
    BY <1>1, <1>5, <2>2
  <2>4. i * U <= j * U
    BY <1>5, <2>3
  <2>5. p <= q
    BY <1>1, <1>5, <2>4, DivMono DEF q
  <2>6. A = B
    BY <1>8 DEF A, B
  <2> HIDE DEF p
  <2> QED
    BY <1>6, <1>7, <2>5, <2>6
<1>9. ASSUME x < y PROVE S(a) <= S(b)
  <2>1. p < U
    <3> SUFFICES ASSUME p >= U PROVE FALSE
      BY <1>1, <1>6
    <3> HIDE DEF p
    <3>1. p - U \in Nat /\ s - i - 1 \in Nat
      BY <1>1, <1>5, <1>6
    <3>2. p * s = U * s + (p - U) * s /\ (p - U) * s \in Nat
      BY <1>1, <1>6, <3>1
    <3>3. s * U = i * U + U + (s - i - 1) * U /\ (s - i - 1) * U \in Nat
      BY <1>1, <1>5, <3>1
    <3>4. U * s = s * U /\ U * s \in Nat
      BY <1>1
    <3> QED
      BY <1>1, <1>5, <1>6, <3>2, <3>3, <3>4
  <2> HIDE DEF p
  <2>2. y - x - 1 \in Nat
    BY <1>3, <1>9
  <2>3. B = A + U + (y - x - 1) * U /\ (y - x - 1) * U \in Nat
    BY <1>1, <1>3, <2>2 DEF A, B
  <2> QED
    BY <1>1, <1>6, <1>7, <2>1, <2>3
<1> HIDE DEF p
<1>10. S(a) \in Nat
  BY <1>6, <1>7
<1>11. S(a) <= S(b)
  BY <1>3, <1>4, <1>8, <1>9
<1> QED
  BY <1>10, <1>11 DEF S, s

-----------------------------------------------------------------------------
(* The points of a batch.                                                  *)

\* Scheduled and Injectable, of any configuration.
ScheduledIn(cfg, second) == {c \in DOMAIN cfg.changes : second >= cfg.changes[c].after}
InjectableIn(cfg, second, i) ==
  {cfg.changes[c].inject : c \in {c \in ScheduledIn(cfg, second) : Changes(cfg, c, i)}} \ {None}

\* Before a change begins a point does not show it.
Waits(cfg, p) ==
  /\ p.value \in {cfg.value} \cup {cfg.changes[c].value : c \in ScheduledIn(cfg, p.second)}
  /\ \A i \in DOMAIN cfg.attributes \ UniqueAttributes(cfg) :
       \/ p.values[i] \in InjectableIn(cfg, p.second, i)
       \/ \E size \in {cfg.attributes[i].cardinality}
                        \cup {cfg.changes[c].cardinality :
                                c \in CardinalityChanges(cfg, i) \cap ScheduledIn(cfg, p.second)} :
            p.values[i] \in 0..size + cfg.attributes[i].growth - 1

\* A unique value is the count of its place, or injected.
Counted(cfg, p) ==
  \A i \in UniqueAttributes(cfg) :
    \/ p.values[i] = UniqueValue(cfg, p.second, p.index, p.n, i)
    \/ p.values[i] \in InjectableIn(cfg, p.second, i)

\* What is known of a point.
PointFits(cfg, p) ==
  /\ p.second \in Nat /\ p.index \in Nat /\ p.n \in Nat
  /\ p.n \in 1..BatchRange(cfg, p.second, p.index).count
  /\ p.ts = Stamp(cfg, p.second, p.index)
  /\ Waits(cfg, p) /\ Counted(cfg, p)

LEMMA BegunIs ==
  ASSUME NEW cfg \in Configs, NEW second \in Nat
  PROVE  Begun(cfg, second) = ScheduledIn(cfg, second)
BY ConfigIs DEF Begun, ScheduledIn

\* The last of some changes.
LEMMA LastOf ==
  ASSUME NEW cfg \in Configs, NEW some \in SUBSET DOMAIN cfg.changes, some # {}
  PROVE  Max(some) \in some
<1>1. IsFiniteSet(some) /\ some \subseteq Nat
  BY ConfigIs, FS_Subset
<1> QED
  BY <1>1, Largest

LEMMA DrawsAre ==
  ASSUME NEW cfg \in Configs, NEW second \in Nat, NEW d \in Draws(cfg, second)
  PROVE  /\ d.hits \subseteq ScheduledIn(cfg, second)
         /\ \A c \in d.hits : cfg.changes[c].inject # None
         /\ \A i \in DOMAIN cfg.attributes \ UniqueAttributes(cfg) : d.values[i] \in Drawable(cfg, i, second)
BY BegunIs DEF Draws

LEMMA ValueIs ==
  ASSUME NEW cfg \in Configs, NEW second \in Nat, NEW d \in Draws(cfg, second),
         NEW i, NEW value, NEW last
  PROVE  \/ ValueAfter(cfg, i, value, d.hits, last) = value
         \/ ValueAfter(cfg, i, value, d.hits, last) \in InjectableIn(cfg, second, i)
<1> DEFINE mine == {c \in d.hits : c <= last /\ Changes(cfg, c, i)}
<1>1. d.hits \subseteq ScheduledIn(cfg, second) /\ \A c \in d.hits : cfg.changes[c].inject # None
  BY DrawsAre
<1>2. CASE mine = {}
  BY <1>2 DEF ValueAfter
<1>3. CASE mine # {}
  <2>1. mine \subseteq DOMAIN cfg.changes
    BY <1>1 DEF ScheduledIn
  <2>2. ValueAfter(cfg, i, value, d.hits, last) = cfg.changes[Max(mine)].inject
    BY <1>3 DEF ValueAfter
  <2>3. \A c \in mine : /\ c \in ScheduledIn(cfg, second) /\ Changes(cfg, c, i)
                        /\ cfg.changes[c].inject # None
    BY <1>1
  <2> HIDE DEF mine
  <2>4. Max(mine) \in mine
    BY <1>3, <2>1, LastOf
  <2> QED
    BY <2>2, <2>3, <2>4 DEF InjectableIn
<1> QED
  BY <1>2, <1>3

LEMMA DrawableIs ==
  ASSUME NEW cfg \in Configs, NEW second \in Nat, NEW i \in DOMAIN cfg.attributes,
         NEW v \in Drawable(cfg, i, second)
  PROVE  \E size \in {cfg.attributes[i].cardinality}
                       \cup {cfg.changes[c].cardinality :
                               c \in CardinalityChanges(cfg, i) \cap ScheduledIn(cfg, second)} :
           v \in 0..size + cfg.attributes[i].growth - 1
<1> DEFINE size == CardinalityAt(cfg, i, second)
           begun == CardinalityChanges(cfg, i) \cap Begun(cfg, second)
           sizes == {cfg.attributes[i].cardinality} \cup {cfg.changes[c].cardinality : c \in begun}
           more == IF <<i, size>> \in Tables(cfg) \/ second = 0 THEN 0 ELSE cfg.attributes[i].growth
<1>1. size \in sizes
  <2>1. CASE begun = {}
    BY <2>1 DEF CardinalityAt
  <2>2. CASE begun # {}
    <3>1. begun \subseteq DOMAIN cfg.changes
      BY DEF CardinalityChanges
    <3>2. size = cfg.changes[LastBegun(cfg, begun)].cardinality
      BY <2>2 DEF CardinalityAt
    <3> HIDE DEF begun, size
    <3>3. LastBegun(cfg, begun) \in begun
      BY <2>2, <3>1, LastBegunIs
    <3> QED
      BY <3>2, <3>3
  <2> QED
    BY <2>1, <2>2
<1>2. size \in Nat
  <2>1. \A c \in begun : cfg.changes[c].cardinality \in Nat
    BY ConfigIs DEF CardinalityChanges
  <2>2. cfg.attributes[i].cardinality \in Nat
    BY ConfigIs
  <2> HIDE DEF begun, size
  <2> QED
    BY <1>1, <2>1, <2>2
<1>3. more \in Nat /\ more <= cfg.attributes[i].growth /\ cfg.attributes[i].growth \in Nat
  <2>1. cfg.attributes[i].growth \in Nat
    BY ConfigIs
  <2> QED
    BY <2>1
<1>4. v \in 0..size - 1 + more
  BY DEF Drawable
<1>5. begun = CardinalityChanges(cfg, i) \cap ScheduledIn(cfg, second)
  BY BegunIs
<1> HIDE DEF size, begun, more
<1>6. v \in 0..size + cfg.attributes[i].growth - 1
  BY <1>2, <1>3, <1>4
<1> QED
  BY <1>1, <1>5, <1>6

LEMMA DistributionIs ==
  ASSUME NEW cfg \in Configs, NEW second \in Nat, NEW values, NEW hits
  PROVE  DistributionOf(cfg, second, values, hits) \in
           {cfg.value} \cup {cfg.changes[c].value : c \in ScheduledIn(cfg, second)}
<1> DEFINE Matches(c, i) == /\ Changes(cfg, c, i)
                            /\ cfg.changes[c].equals \in {None, ValueAfter(cfg, i, values[i], hits, c)}
           matching == {c \in Begun(cfg, second) : /\ cfg.changes[c].value # None
                                                   /\ \E i \in DOMAIN cfg.attributes : Matches(c, i)}
<1>1. matching \subseteq ScheduledIn(cfg, second) /\ matching \subseteq DOMAIN cfg.changes
  BY BegunIs DEF Begun
<1>2. DistributionOf(cfg, second, values, hits) =
        IF matching = {} THEN cfg.value ELSE cfg.changes[Max(matching)].value
  BY DEF DistributionOf
<1> HIDE DEF matching
<1>3. matching # {} => Max(matching) \in matching
  BY <1>1, LastOf
<1> QED
  BY <1>1, <1>2, <1>3

LEMMA BatchIs ==
  ASSUME NEW cfg \in Configs, Valid(cfg), NEW second \in Nat, NEW index \in Nat,
         NEW draws \in [1..BatchRange(cfg, second, index).count -> Draws(cfg, second)]
  PROVE  LET points == BatchOf(cfg, second, index, draws) IN
         /\ IsFiniteSet(points) /\ Cardinality(points) = BatchRange(cfg, second, index).count
         /\ \A p \in points : p.second = second /\ p.index = index /\ PointFits(cfg, p)
         /\ \A p, q \in points : p.n = q.n => p = q
<1> DEFINE count == BatchRange(cfg, second, index).count
           Values(n) == [i \in DOMAIN cfg.attributes |->
                           IF i \in UniqueAttributes(cfg) THEN UniqueValue(cfg, second, index, n, i)
                                                          ELSE draws[n].values[i]]
           Point(n) == [second |-> second, index |-> index, n |-> n, ts |-> Stamp(cfg, second, index),
                        values |-> [i \in DOMAIN cfg.attributes |->
                                      ValueAfter(cfg, i, Values(n)[i], draws[n].hits, Len(cfg.changes))],
                        value |-> DistributionOf(cfg, second, Values(n), draws[n].hits)]
           f == [n \in 1..count |-> Point(n)]
           points == BatchOf(cfg, second, index, draws)
<1>1. DOMAIN draws = 1..count /\ \A n \in 1..count : draws[n] \in Draws(cfg, second)
  OBVIOUS
<1>2. points = {Point(n) : n \in 1..count}
  BY <1>1 DEF BatchOf
<1>3. \A n : Point(n).n = n /\ Point(n).second = second /\ Point(n).index = index
  OBVIOUS
<1>4. ASSUME NEW n \in 1..count
      PROVE  PointFits(cfg, Point(n))
  <2> DEFINE d == draws[n]
             p == Point(n)
  <2>1. d \in Draws(cfg, second)
    BY <1>1
  <2>2. p.second = second /\ p.index = index /\ p.n = n /\ p.ts = Stamp(cfg, second, index)
    OBVIOUS
  <2>3. p.value \in {cfg.value} \cup {cfg.changes[c].value : c \in ScheduledIn(cfg, second)}
    BY DistributionIs
  <2>4. ASSUME NEW i \in DOMAIN cfg.attributes
        PROVE  p.values[i] = Values(n)[i] \/ p.values[i] \in InjectableIn(cfg, second, i)
    <3>1. p.values[i] = ValueAfter(cfg, i, Values(n)[i], d.hits, Len(cfg.changes))
      OBVIOUS
    <3> HIDE DEF p, Values, d
    <3> QED
      BY <2>1, <3>1, ValueIs
  <2>5. \A i \in UniqueAttributes(cfg) :
          i \in DOMAIN cfg.attributes /\ Values(n)[i] = UniqueValue(cfg, second, index, n, i)
    BY DEF UniqueAttributes
  <2>6. \A i \in DOMAIN cfg.attributes \ UniqueAttributes(cfg) :
          Values(n)[i] \in Drawable(cfg, i, second)
    <3>1. \A i \in DOMAIN cfg.attributes \ UniqueAttributes(cfg) : Values(n)[i] = d.values[i]
      OBVIOUS
    <3> HIDE DEF d, Values
    <3> QED
      BY <2>1, <3>1, DrawsAre
  <2> HIDE DEF p, Values, d
  <2>7. Counted(cfg, p)
    BY <2>2, <2>4, <2>5 DEF Counted
  <2>8. Waits(cfg, p)
    <3> SUFFICES ASSUME NEW i \in DOMAIN cfg.attributes \ UniqueAttributes(cfg),
                        p.values[i] \notin InjectableIn(cfg, second, i)
                 PROVE  \E size \in {cfg.attributes[i].cardinality}
                                      \cup {cfg.changes[c].cardinality :
                                              c \in CardinalityChanges(cfg, i) \cap ScheduledIn(cfg, second)} :
                          p.values[i] \in 0..size + cfg.attributes[i].growth - 1
      BY <2>2, <2>3 DEF Waits
    <3>1. p.values[i] \in Drawable(cfg, i, second)
      BY <2>4, <2>6
    <3> QED
      BY <3>1, DrawableIs
  <2>9. n \in Nat /\ n \in 1..BatchRange(cfg, second, index).count
    OBVIOUS
  <2>10. PointFits(cfg, p)
    BY <2>2, <2>7, <2>8, <2>9 DEF PointFits
  <2> QED
    BY <2>10 DEF p
<1>5. count \in Nat
  BY RangesAre
<1>6. IsFiniteSet(1..count) /\ Cardinality(1..count) = count
  BY <1>5, FS_Interval
<1> HIDE DEF Point, points, count
<1>7. points = {f[n] : n \in 1..count} /\ DOMAIN f = 1..count
  BY <1>2
<1>8. \A x, y \in 1..count : x # y => f[x] # f[y]
  BY <1>3
<1> HIDE DEF f
<1>9. IsFiniteSet(points) /\ Cardinality(points) = count
  <2> DEFINE D == 1..count
             T == {f[n] : n \in D}
  <2>1. /\ IsFiniteSet(D) /\ Cardinality(D) = count /\ DOMAIN f = D /\ points = T
        /\ \A x, y \in D : x # y => f[x] # f[y]
    BY <1>6, <1>7, <1>8
  <2> HIDE DEF D
  <2>2. IsFiniteSet(T) /\ Cardinality(T) = Cardinality(D)
    BY <2>1, ImageFinite
  <2> QED
    BY <2>1, <2>2
<1>10. \A p \in points : p.second = second /\ p.index = index /\ PointFits(cfg, p)
  BY <1>2, <1>3, <1>4
<1>11. \A p, q \in points : p.n = q.n => p = q
  BY <1>2, <1>3
<1> QED
  BY <1>9, <1>10, <1>11 DEF points, count

-----------------------------------------------------------------------------
(* The invariant of the generator.                                         *)

\* A point is of the batch of a number.
At(cfg, p, b) == p.second = b \div BatchesPerSecond(cfg) /\ p.index = b % BatchesPerSecond(cfg)

\* Every point is of a batch that has been passed, and a batch that was not
\* skipped has all of its points.
GenOK(cfg, gen, next, skip) ==
  /\ next \in Nat
  /\ \A p \in gen : PointFits(cfg, p) /\ \E b \in 0..next - 1 : At(cfg, p, b)
  /\ \A p, q \in gen : p.second = q.second /\ p.index = q.index /\ p.n = q.n => p = q
  /\ \A b \in 0..next - 1 : b \notin skip =>
       Cardinality({p \in gen : At(cfg, p, b)}) =
         BatchRange(cfg, b \div BatchesPerSecond(cfg), b % BatchesPerSecond(cfg)).count

GenInv ==
  IF scenario = None
  THEN generated = {} /\ pdata = <<>>
  ELSE /\ scenario \in Configs /\ Valid(scenario)
       /\ GenOK(scenario, generated, nextBatch, skipped)
       /\ \A i \in DOMAIN pdata : Cardinality(pdata[i]) <= scenario.maxBatch

LEMMA AtOne ==
  ASSUME NEW cfg \in Configs, Valid(cfg), NEW a \in Nat, NEW b \in Nat, NEW p, At(cfg, p, a), At(cfg, p, b)
  PROVE  a = b
<1> DEFINE s == BatchesPerSecond(cfg)
<1>1. s \in Nat /\ s > 0
  BY SlotsIs
<1> HIDE DEF s
<1>2. a = (a \div s) * s + (a % s) /\ b = (b \div s) * s + (b % s)
  BY <1>1, DivMod
<1>3. a \div s = b \div s /\ a % s = b % s
  BY DEF At, s
<1> QED
  BY <1>2, <1>3

LEMMA AtIs ==
  ASSUME NEW cfg \in Configs, Valid(cfg), NEW second \in Nat, NEW index \in Nat,
         index < BatchesPerSecond(cfg)
  PROVE  LET b == second * BatchesPerSecond(cfg) + index IN
         /\ b \in Nat /\ b \div BatchesPerSecond(cfg) = second /\ b % BatchesPerSecond(cfg) = index
         /\ \A p : At(cfg, p, b) <=> p.second = second /\ p.index = index
<1> DEFINE s == BatchesPerSecond(cfg)
           b == second * s + index
<1>1. s \in Nat /\ s > 0 /\ index < s
  BY SlotsIs
<1> HIDE DEF s
<1>2. second * s \in Nat /\ b \in Nat
  BY <1>1
<1>3. b \div s = second
  BY <1>1, <1>2, DivIs
<1>4. b = (b \div s) * s + (b % s) /\ b % s \in 0..s - 1
  BY <1>1, <1>2, DivMod
<1>5. b % s = index
  BY <1>1, <1>2, <1>3, <1>4
<1> QED
  BY <1>2, <1>3, <1>5 DEF At, s

\* A batch, perhaps after skipped ones.
LEMMA BatchOK ==
  ASSUME NEW cfg \in Configs, Valid(cfg), NEW gen, NEW next, NEW skip, GenOK(cfg, gen, next, skip),
         NEW batch \in Nat, batch >= next,
         NEW draws \in [1..BatchRange(cfg, batch \div BatchesPerSecond(cfg),
                                           batch % BatchesPerSecond(cfg)).count
                          -> Draws(cfg, batch \div BatchesPerSecond(cfg))]
  PROVE  LET points == BatchOf(cfg, batch \div BatchesPerSecond(cfg), batch % BatchesPerSecond(cfg), draws) IN
         /\ GenOK(cfg, gen \cup points, batch + 1, skip \cup (next..batch - 1))
         /\ points \cap gen = {}
         /\ \A p \in points : p.ts \in Nat /\ \A q \in gen : q.ts <= p.ts
<1> DEFINE s == BatchesPerSecond(cfg)
           points == BatchOf(cfg, batch \div s, batch % s, draws)
<1>1. s \in Nat /\ s > 0 /\ next \in Nat
  BY SlotsIs DEF GenOK
<1>2. batch \div s \in Nat /\ batch % s \in Nat
  <2> HIDE DEF s
  <2>1. batch \div s \in Nat /\ batch % s \in 0..s - 1
    BY <1>1, DivMod
  <2> QED
    BY <1>1, <2>1
<1>3. /\ IsFiniteSet(points) /\ Cardinality(points) = BatchRange(cfg, batch \div s, batch % s).count
      /\ \A p \in points : p.second = batch \div s /\ p.index = batch % s /\ PointFits(cfg, p)
      /\ \A p, q \in points : p.n = q.n => p = q
  BY <1>2, BatchIs
<1> HIDE DEF points
<1>4. \A p \in points : At(cfg, p, batch)
  BY <1>3 DEF At
<1>5. \A p \in gen : \E b \in 0..next - 1 : At(cfg, p, b)
  BY DEF GenOK
<1>6. \A p \in gen : ~At(cfg, p, batch)
  <2> TAKE p \in gen
  <2>1. PICK b \in 0..next - 1 : At(cfg, p, b)
    BY <1>5
  <2>2. b \in Nat /\ b # batch
    BY <1>1
  <2> QED
    BY <2>1, <2>2, AtOne
<1>7. points \cap gen = {}
  BY <1>4, <1>6
<1>8. ASSUME NEW p \in points, NEW q \in gen
      PROVE  p.ts \in Nat /\ q.ts <= p.ts
  <2>1. PICK b \in 0..next - 1 : At(cfg, q, b)
    BY <1>5
  <2>2. b \in Nat /\ b <= batch
    BY <1>1, <2>1
  <2>3. q.ts = Stamp(cfg, b \div s, b % s) /\ p.ts = Stamp(cfg, batch \div s, batch % s)
    BY <1>3, <2>1 DEF At, GenOK, PointFits
  <2>4. batch <= batch
    OBVIOUS
  <2>5. /\ Stamp(cfg, batch \div s, batch % s) \in Nat
        /\ Stamp(cfg, b \div s, b % s) <= Stamp(cfg, batch \div s, batch % s)
    BY <2>2, <2>4, StampMono
  <2> QED
    BY <2>3, <2>5
<1>9. \A p \in points : p.ts \in Nat
  <2> TAKE p \in points
  <2>1. p.ts = Stamp(cfg, batch \div s, batch % s)
    BY <1>3 DEF PointFits
  <2>2. batch <= batch
    OBVIOUS
  <2> QED
    BY <2>1, <2>2, StampMono
<1>10. \A p \in gen \cup points : PointFits(cfg, p) /\ \E b \in 0..(batch + 1) - 1 : At(cfg, p, b)
  <2>1. batch \in 0..(batch + 1) - 1 /\ 0..next - 1 \subseteq 0..(batch + 1) - 1
    BY <1>1
  <2> QED
    BY <1>3, <1>4, <1>5, <2>1 DEF GenOK
<1>11. ASSUME NEW p \in gen \cup points, NEW q \in gen \cup points,
              p.second = q.second, p.index = q.index, p.n = q.n
       PROVE  p = q
  <2>1. At(cfg, p, batch) <=> At(cfg, q, batch)
    BY <1>11 DEF At
  <2>2. CASE p \in gen /\ q \in gen
    BY <1>11, <2>2 DEF GenOK
  <2>3. CASE p \in points /\ q \in points
    BY <1>3, <1>11, <2>3
  <2> QED
    BY <1>4, <1>6, <2>1, <2>2, <2>3
<1>12. ASSUME NEW b \in 0..(batch + 1) - 1, b \notin skip \cup (next..batch - 1)
       PROVE  Cardinality({p \in gen \cup points : At(cfg, p, b)}) = BatchRange(cfg, b \div s, b % s).count
  <2>1. CASE b = batch
    <3>1. {p \in gen \cup points : At(cfg, p, b)} = points
      BY <1>4, <1>6, <2>1
    <3> QED
      BY <1>3, <2>1, <3>1
  <2>2. CASE b # batch
    <3>1. b \in 0..next - 1 /\ b \notin skip /\ b \in Nat
      BY <1>1, <1>12, <2>2
    <3>2. {p \in gen \cup points : At(cfg, p, b)} = {p \in gen : At(cfg, p, b)}
      BY <1>4, <2>2, <3>1, AtOne
    <3> QED
      BY <3>1, <3>2 DEF GenOK
  <2> QED
    BY <2>1, <2>2
<1>13. batch + 1 \in Nat
  OBVIOUS
<1>14. GenOK(cfg, gen \cup points, batch + 1, skip \cup (next..batch - 1))
  BY <1>10, <1>11, <1>12, <1>13 DEF GenOK
<1> QED
  BY <1>7, <1>8, <1>9, <1>14 DEF points

\* The steps of the generator, as the sink sees them too.
LEMMA TickStep ==
  ASSUME SinkInv, GenInv, scenario # None, NEW batch \in Nat, Tick(batch), UNCHANGED <<sink, history>>
  PROVE  SinkInv' /\ GenInv'
<1> DEFINE s == BatchesPerSecond(scenario)
           second == batch \div s
           index == batch % s
           count == BatchRange(scenario, second, index).count
<1>1. /\ scenario \in Configs /\ Valid(scenario) /\ GenOK(scenario, generated, nextBatch, skipped)
      /\ \A i \in DOMAIN pdata : Cardinality(pdata[i]) <= scenario.maxBatch
  BY DEF GenInv
<1>2. nextBatch \in Nat /\ batch >= nextBatch /\ nextBatch' = batch + 1 /\ scenario' = scenario
  BY <1>1 DEF Tick, GenOK
<1>3. ASSUME NEW draws \in [1..count -> Draws(scenario, second)],
             pdata' = (IF count = 0 THEN pdata ELSE Append(pdata, BatchOf(scenario, second, index, draws))),
             generated' = generated \cup BatchOf(scenario, second, index, draws),
             skipped' = skipped \cup (nextBatch..batch - 1)
      PROVE  SinkInv' /\ GenInv'
  <2> DEFINE points == BatchOf(scenario, second, index, draws)
  <2>1. /\ GenOK(scenario, generated \cup points, batch + 1, skipped \cup (nextBatch..batch - 1))
        /\ points \cap generated = {}
        /\ \A p \in points : p.ts \in Nat /\ \A q \in generated : q.ts <= p.ts
    BY <1>1, <1>2, BatchOK
  <2>2. second \in Nat /\ index \in Nat
    <3>1. s \in Nat /\ s > 0
      BY <1>1, SlotsIs
    <3> HIDE DEF s
    <3>2. second \in Nat /\ index \in 0..s - 1
      BY <3>1, DivMod
    <3> QED
      BY <3>1, <3>2
  <2>3. IsFiniteSet(points) /\ Cardinality(points) = count
    BY <1>1, <2>2, BatchIs
  <2>4. count \in Nat /\ count <= scenario.maxBatch
    BY <1>1, <2>2, RangesAre
  <2> HIDE DEF points, count
  <2>5. count = 0 => points = {}
    BY <2>3, FS_EmptySet
  <2>6. pdata' = Append(pdata, points) \/ (pdata' = pdata /\ points = {})
    BY <1>3, <2>5 DEF points
  <2>7. SinkInv'
    BY <1>3, <2>1, <2>3, <2>6, GenerateSteady DEF points
  <2>8. \A i \in DOMAIN pdata' : Cardinality(pdata'[i]) <= scenario.maxBatch
    <3>1. pdata \in Seq(SUBSET generated)
      BY DEF SinkInv, Queued
    <3>2. CASE pdata' = pdata
      BY <1>1, <3>2
    <3>3. CASE pdata' = Append(pdata, points)
      <4>1. \A i \in DOMAIN pdata' : (i \in DOMAIN pdata /\ pdata'[i] = pdata[i]) \/ pdata'[i] = points
        BY <3>1, <3>3
      <4> QED
        BY <1>1, <2>3, <2>4, <4>1
    <3> QED
      BY <2>6, <3>2, <3>3
  <2>9. GenOK(scenario, generated, nextBatch, skipped)'
    BY <1>2, <1>3, <2>1 DEF points
  <2> QED
    BY <1>1, <1>2, <2>7, <2>8, <2>9 DEF GenInv
<1>4. ASSUME UNCHANGED <<pdata, generated>>, skipped' = skipped \cup (nextBatch..batch)
      PROVE  SinkInv' /\ GenInv'
  <2>1. 0..nextBatch - 1 \subseteq 0..(batch + 1) - 1 /\ batch + 1 \in Nat
    BY <1>2
  <2>2. \A b \in 0..(batch + 1) - 1 : b \notin skipped' => b \in 0..nextBatch - 1 /\ b \notin skipped
    BY <1>2, <1>4
  <2>3. GenOK(scenario, generated, batch + 1, skipped')
    BY <1>1, <2>1, <2>2 DEF GenOK
  <2>4. GenOK(scenario, generated, nextBatch, skipped)'
    BY <1>2, <1>4, <2>3
  <2>5. GenInv'
    BY <1>1, <1>2, <1>4, <2>4 DEF GenInv
  <2>6. UNCHANGED <<windows, inFlight, nextId, emittedUntil, sentUntil, reports, acks, ignored, lost, hurried>>
    BY DEF sink, history
  <2>7. Coming(pdata)' = Coming(pdata)
    BY <1>4
  <2>8. Steady(Coming(pdata), windows, inFlight, nextId, sentUntil, ignored, lost, acks)'
    BY <1>4, <2>6, <2>7, StepSteady DEF SinkInv
  <2>9. SinkInv'
    BY <1>4, <2>6, <2>8, StepRest
  <2> QED
    BY <2>5, <2>9
<1> QED
  BY <1>3, <1>4 DEF Tick

LEMMA GeneratorStep ==
  ASSUME SinkInv, GenInv, NextGenerator, UNCHANGED <<sink, history>>
  PROVE  SinkInv' /\ GenInv'
<1>1. ASSUME UNCHANGED <<pdata, generated>>
      PROVE  SinkInv'
  <2>1. UNCHANGED <<windows, inFlight, nextId, emittedUntil, sentUntil, reports, acks, ignored, lost, hurried>>
    BY DEF sink, history
  <2>2. Coming(pdata)' = Coming(pdata)
    BY <1>1
  <2>3. Steady(Coming(pdata), windows, inFlight, nextId, sentUntil, ignored, lost, acks)'
    BY <1>1, <2>1, <2>2, StepSteady DEF SinkInv
  <2> QED
    BY <1>1, <2>1, <2>3, StepRest
<1>2. ASSUME NEW cfg \in Configs, NEW late \in Starts, Start(cfg, late)
      PROVE  SinkInv' /\ GenInv'
  <2>1. /\ scenario = None /\ Valid(cfg) /\ Period(cfg) > 0 /\ scenario' = cfg
        /\ nextBatch' = (late + Period(cfg) - 1) \div Period(cfg) /\ skipped' = 0..nextBatch' - 1
        /\ UNCHANGED <<pdata, generated>>
    BY <1>2 DEF Start
  <2>2. generated = {} /\ pdata = <<>>
    BY <2>1 DEF GenInv
  <2>3. late \in Nat /\ Second \in Nat
    BY GeneratorAssumption DEF GeneratorAssumption
  <2>4. Period(cfg) \in Nat
    <3>1. BatchesPerSecond(cfg) \in Nat /\ BatchesPerSecond(cfg) > 0
      BY <2>1, SlotsIs
    <3> QED
      BY <2>3, <3>1, DivMod DEF Period
  <2>5. nextBatch' \in Nat
    <3> DEFINE p == Period(cfg)
    <3>1. late + p - 1 \in Nat /\ p \in Nat /\ p > 0
      BY <2>1, <2>3, <2>4
    <3> QED
      BY <2>1, <3>1, DivMod
  <2>6. GenOK(cfg, {}, nextBatch', skipped')
    BY <2>1, <2>5 DEF GenOK
  <2>7. GenInv'
    <3>1. cfg # None
      BY ConfigIs
    <3>2. GenOK(scenario, generated, nextBatch, skipped)'
      BY <2>1, <2>2, <2>6
    <3> QED
      BY <2>1, <2>2, <3>1, <3>2 DEF GenInv
  <2> QED
    BY <1>1, <2>1, <2>7
<1>3. ASSUME scenario # None, TickNext
      PROVE  SinkInv' /\ GenInv'
  <2>1. PICK second \in 0..MaxSeconds - 1, index \in 0..BatchesPerSecond(scenario) - 1 :
          Tick(second * BatchesPerSecond(scenario) + index)
    BY <1>3 DEF TickNext
  <2>2. BatchesPerSecond(scenario) \in Nat
    BY <1>3, SlotsIs DEF GenInv
  <2>3. second \in Nat /\ index \in Nat
    BY <2>2, GeneratorAssumption DEF GeneratorAssumption
  <2>4. second * BatchesPerSecond(scenario) + index \in Nat
    BY <2>2, <2>3
  <2> QED
    BY <1>3, <2>1, <2>4, TickStep
<1>4. CASE End
  <2>1. UNCHANGED <<scenario, nextBatch, pdata, generated, skipped>>
    BY <1>4 DEF End
  <2>2. GenInv'
    BY <2>1 DEF GenInv
  <2> QED
    BY <1>1, <2>1, <2>2
<1> QED
  BY <1>2, <1>3, <1>4 DEF NextGenerator

\* The rest only takes messages.
LEMMA GeneratorKept ==
  ASSUME SinkInv, GenInv, UNCHANGED <<scenario, nextBatch, generated, skipped>>,
         pdata' = pdata \/ (pdata # <<>> /\ pdata' = Tail(pdata))
  PROVE  GenInv'
<1>1. CASE scenario = None
  BY <1>1 DEF GenInv
<1>2. CASE scenario # None
  <2>1. /\ scenario \in Configs /\ Valid(scenario) /\ GenOK(scenario, generated, nextBatch, skipped)
        /\ \A i \in DOMAIN pdata : Cardinality(pdata[i]) <= scenario.maxBatch
    BY <1>2 DEF GenInv
  <2>2. GenOK(scenario, generated, nextBatch, skipped)'
    BY <2>1
  <2>3. \A i \in DOMAIN pdata' : Cardinality(pdata'[i]) <= scenario.maxBatch
    <3>1. pdata \in Seq(SUBSET generated)
      BY DEF SinkInv, Queued
    <3>2. CASE pdata' = pdata
      BY <2>1, <3>2
    <3>3. CASE pdata # <<>> /\ pdata' = Tail(pdata)
      <4>1. \A i \in DOMAIN pdata' : i + 1 \in DOMAIN pdata /\ pdata'[i] = pdata[i + 1]
        BY <3>1, <3>3
      <4> QED
        BY <2>1, <4>1
    <3> QED
      BY <3>2, <3>3
  <2> QED
    BY <1>2, <2>1, <2>2, <2>3 DEF GenInv
<1> QED
  BY <1>1, <1>2

LEMMA InitInv == Init => SinkInv /\ GenInv
<1> SUFFICES ASSUME Init PROVE SinkInv /\ GenInv
  OBVIOUS
<1>1. /\ generated = {} /\ pdata = <<>> /\ windows = {} /\ inFlight = {} /\ nextId = 0
      /\ emittedUntil = 0 /\ sentUntil = 0 /\ reports = {} /\ acks = {} /\ ignored = {} /\ lost = {}
      /\ hurried = {} /\ scenario = None
  BY DEF Init, InitGenerator
<1>2. IsFiniteSet({}) /\ Cardinality({}) = 0
  BY FS_EmptySet
<1>3. Coming(pdata) = {} /\ Held(windows, inFlight) = {} /\ Told(reports) = {}
  BY <1>1 DEF Coming, Held, Told
<1>4. PointsOK /\ Queued(pdata)
  BY <1>1, <1>2 DEF PointsOK, Queued
<1>5. Sorted(windows, inFlight, nextId)
  BY <1>1, <1>2 DEF Sorted
<1>6. Settled(windows, inFlight, emittedUntil, reports)
  BY <1>1 DEF Settled
<1>7. Placed(Coming(pdata), windows, inFlight, reports, ignored, lost)
  BY <1>1, <1>3 DEF Placed
<1>8. Timed(Coming(pdata), windows, inFlight, reports, acks)
  BY <1>1 DEF Timed
<1>9. InOrder(Coming(pdata), windows, emittedUntil, sentUntil, reports, ignored, lost, hurried)
  BY <1>1, <1>3 DEF InOrder
<1>10. SinkInv
  BY <1>1, <1>4, <1>5, <1>6, <1>7, <1>8, <1>9 DEF SinkInv, Steady
<1>11. GenInv
  BY <1>1 DEF GenInv
<1> QED
  BY <1>10, <1>11

LEMMA NextInv == SinkInv /\ GenInv /\ [Next]_vars => (SinkInv /\ GenInv)'
<1> SUFFICES ASSUME SinkInv, GenInv, [Next]_vars PROVE SinkInv' /\ GenInv'
  OBVIOUS
<1>1. CASE NextGenerator /\ UNCHANGED <<sink, history>>
  BY <1>1, GeneratorStep
<1>2. ASSUME \/ SendFails
             \/ \E now \in Times :
                  \/ PData(now) \/ Unread(now) \/ TimerTick(now) \/ Shutdown(now)
                  \/ \E id \in 0..nextId, isStored \in BOOLEAN : Answer(id, isStored, now)
             \/ UNCHANGED vars
      PROVE  SinkInv' /\ GenInv'
  <2>1. SinkInv'
    BY <1>2, SinkStep
  <2>2. /\ UNCHANGED <<scenario, nextBatch, generated, skipped>>
        /\ pdata' = pdata \/ (pdata # <<>> /\ pdata' = Tail(pdata))
    <3>1. CASE SendFails
      BY <3>1 DEF SendFails
    <3>2. ASSUME NEW now \in Times, PData(now) \/ Unread(now)
          PROVE  /\ UNCHANGED <<scenario, nextBatch, generated, skipped>>
                 /\ pdata # <<>> /\ pdata' = Tail(pdata)
      BY <3>2 DEF PData, Unread
    <3>3. ASSUME NEW now \in Times, \/ TimerTick(now) \/ Shutdown(now)
                                    \/ \E id \in 0..nextId, isStored \in BOOLEAN : Answer(id, isStored, now)
          PROVE  UNCHANGED generator
      BY <3>3 DEF TimerTick, Shutdown, Answer
    <3>4. CASE UNCHANGED vars
      BY <3>4 DEF vars, generator
    <3> QED
      BY <1>2, <3>1, <3>2, <3>3, <3>4 DEF generator
  <2> QED
    BY <2>1, <2>2, GeneratorKept
<1> QED
  BY <1>1, <1>2 DEF Next

\* The invariant holds of every state.
THEOREM RawInvariant == Spec => [](SinkInv /\ GenInv)
BY InitInv, NextInv, PTL DEF Spec

-----------------------------------------------------------------------------
(* What follows of the sink.                                               *)

LEMMA DisjointSum ==
  ASSUME NEW S, NEW T, IsFiniteSet(S), IsFiniteSet(T), S \cap T = {}
  PROVE  IsFiniteSet(S \cup T) /\ Cardinality(S \cup T) = Cardinality(S) + Cardinality(T)
<1>1. /\ IsFiniteSet(S \cup T)
      /\ Cardinality(S \cup T) = Cardinality(S) + Cardinality(T) - Cardinality(S \cap T)
  BY FS_Union
<1>2. Cardinality(S \cap T) = 0 /\ Cardinality(S) \in Nat /\ Cardinality(T) \in Nat
  BY FS_EmptySet, FS_CardinalityType
<1> QED
  BY <1>1, <1>2

\* Every point sent is in one place, every window waits for as many messages as it
\* counts, and is reported once.
THEOREM RawPointsAccounted == Spec => []PointsAccounted
<1>1. SinkInv => PointsAccounted
  <2> SUFFICES ASSUME SinkInv PROVE PointsAccounted
    OBVIOUS
  <2> DEFINE A == Coming(pdata)
             B == Held(windows, inFlight)
             C == Told(reports)
  <2>1. /\ Sorted(windows, inFlight, nextId) /\ Settled(windows, inFlight, emittedUntil, reports)
        /\ Placed(A, windows, inFlight, reports, ignored, lost) /\ IsFiniteSet(generated)
    BY DEF SinkInv, Steady, PointsOK
  <2>2. /\ A = UNION {pdata[i] : i \in DOMAIN pdata}
        /\ B = UNION {w.stored \cup w.failed
                        \cup UNION {part.points : part \in {part \in inFlight : part.end = w.end}} :
                        w \in windows}
        /\ C = UNION {Reported(r) : r \in reports}
    BY DEF Coming, Held, HeldIn, Answers, Waiting, Told
  <2>3. /\ generated = A \cup B \cup C \cup ignored \cup lost
        /\ A \cap (B \cup C \cup ignored \cup lost) = {}
        /\ B \cap (C \cup ignored \cup lost) = {}
        /\ C \cap (ignored \cup lost) = {}
        /\ ignored \cap lost = {}
    BY <2>1 DEF Placed
  <2> HIDE DEF A, B, C
  <2>4. /\ IsFiniteSet(A) /\ IsFiniteSet(B) /\ IsFiniteSet(C) /\ IsFiniteSet(ignored) /\ IsFiniteSet(lost)
    <3>1. /\ A \subseteq generated /\ B \subseteq generated /\ C \subseteq generated
          /\ ignored \subseteq generated /\ lost \subseteq generated
      BY <2>3
    <3> QED
      BY <2>1, <3>1, FS_Subset
  <2>5. Cardinality(generated) =
          Cardinality(A) + Cardinality(B) + Cardinality(C) + Cardinality(ignored) + Cardinality(lost)
    <3> DEFINE D == ignored \cup lost
               E == C \cup D
               F == B \cup E
    <3>1. IsFiniteSet(D) /\ Cardinality(D) = Cardinality(ignored) + Cardinality(lost)
      BY <2>3, <2>4, DisjointSum
    <3>2. C \cap D = {} /\ B \cap E = {} /\ A \cap F = {} /\ generated = A \cup F
      BY <2>3
    <3> HIDE DEF D
    <3>3. IsFiniteSet(E) /\ Cardinality(E) = Cardinality(C) + Cardinality(D)
      BY <2>4, <3>1, <3>2, DisjointSum
    <3> HIDE DEF E
    <3>4. IsFiniteSet(F) /\ Cardinality(F) = Cardinality(B) + Cardinality(E)
      BY <2>4, <3>2, <3>3, DisjointSum
    <3> HIDE DEF F
    <3>5. Cardinality(generated) = Cardinality(A) + Cardinality(F)
      BY <2>4, <3>2, <3>4, DisjointSum
    <3>6. /\ Cardinality(A) \in Nat /\ Cardinality(B) \in Nat /\ Cardinality(C) \in Nat
          /\ Cardinality(ignored) \in Nat /\ Cardinality(lost) \in Nat
      BY <2>4, FS_CardinalityType
    <3> QED
      BY <3>1, <3>3, <3>4, <3>5, <3>6
  <2>6. generated = UNION {A, B, C, ignored, lost}
    BY <2>3
  <2>7. \A w \in windows : w.inFlight = Cardinality({part \in inFlight : part.end = w.end})
    BY <2>1 DEF Sorted, Waiting
  <2>8. \A r, q \in reports : r # q => r.end # q.end
    BY <2>1 DEF Settled
  <2> QED
    BY <2>2, <2>5, <2>6, <2>7, <2>8 DEF PointsAccounted
<1> QED
  BY <1>1, RawInvariant, PTL

\* A report that was not hurried tells of every point of its window but the lost ones.
THEOREM RawReportWhole == Spec => []ReportWhole
<1>1. SinkInv => ReportWhole
  BY DEF SinkInv, Steady, InOrder, ReportWhole
<1> QED
  BY <1>1, RawInvariant, PTL

\* A report's time is that of the last of its points to be stored.
THEOREM RawReportTells == Spec => []ReportTells
<1>1. SinkInv => ReportTells
  <2> SUFFICES ASSUME SinkInv, NEW r \in reports, r.unacknowledged = {}, r.stored # {}
               PROVE  r.complete = Max({a[2] : a \in {a \in acks : a[1] \in r.stored}})
    BY DEF ReportTells
  <2> DEFINE S == {a[2] : a \in {a \in acks : a[1] \in r.stored}}
             m == r.complete
  <2>1. Latest(m, r.stored, acks) /\ acks \subseteq generated \X Nat
    BY DEF SinkInv, Steady, Timed
  <2>2. \A t \in S : t \in Nat
    BY <2>1
  <2>3. m \in S /\ \A t \in S : t <= m
    BY <2>1 DEF Latest
  <2> HIDE DEF S, m
  <2>4. \A x \in S : (\A t \in S : x >= t) => x = m
    BY <2>2, <2>3
  <2>5. \A t \in S : m >= t
    BY <2>2, <2>3
  <2>6. Max(S) = m
    BY <2>3, <2>4, <2>5 DEF Max
  <2> QED
    BY <2>6 DEF S, m
<1> QED
  BY <1>1, RawInvariant, PTL

-----------------------------------------------------------------------------
(* What follows of the generator.                                          *)

\* By induction over the batches of a second: its points are those of its batches.
LEMMA SecondCount ==
  ASSUME NEW cfg \in Configs, Valid(cfg), NEW gen, IsFiniteSet(gen), NEW next, NEW skip,
         GenOK(cfg, gen, next, skip), NEW second \in Nat,
         \A i \in 0..BatchesPerSecond(cfg) - 1 :
           /\ second * BatchesPerSecond(cfg) + i \in 0..next - 1
           /\ second * BatchesPerSecond(cfg) + i \notin skip
  PROVE  Cardinality({p \in gen : p.second = second}) = RateAt(cfg, second)
<1> DEFINE s == BatchesPerSecond(cfg)
           First(i) == BatchRange(cfg, second, i).first
           count(i) == BatchRange(cfg, second, i).count
           Upto(i) == {p \in gen : p.second = second /\ p.index < i}
           Of(i) == {p \in gen : p.second = second /\ p.index = i}
           Bad == {i \in 0..s : Cardinality(Upto(i)) # First(i)}
           R == OpToRel(<, Nat)
<1>1. s \in Nat /\ s > 0
  BY SlotsIs
<1>2. /\ First(0) = 0 /\ First(s) = RateAt(cfg, second)
      /\ \A i \in Nat : First(i) \in Nat /\ count(i) \in Nat /\ First(i + 1) = First(i) + count(i)
  BY RangesAre
<1>3. \A p \in gen : p.index \in Nat
  BY DEF GenOK, PointFits
<1>4. \A i \in 0..s - 1 : Cardinality(Of(i)) = count(i)
  <2> TAKE i \in 0..s - 1
  <2> DEFINE b == second * s + i
  <2>1. i \in Nat /\ i < s
    BY <1>1
  <2>2. /\ b \in Nat /\ b \div s = second /\ b % s = i
        /\ \A p : At(cfg, p, b) <=> p.second = second /\ p.index = i
    BY <2>1, AtIs
  <2>3. b \in 0..next - 1 /\ b \notin skip
    OBVIOUS
  <2> HIDE DEF b, count
  <2>4. Cardinality({p \in gen : At(cfg, p, b)}) = BatchRange(cfg, b \div s, b % s).count
    BY <2>3 DEF GenOK
  <2>5. {p \in gen : At(cfg, p, b)} = Of(i)
    BY <2>2
  <2> QED
    BY <2>2, <2>4, <2>5 DEF count
<1>5. \A i : IsFiniteSet(Upto(i)) /\ IsFiniteSet(Of(i))
  BY FS_Subset
<1>6. \A p \in gen : p.second = second => p.index < s
  <2> TAKE p \in gen
  <2>1. PICK b \in 0..next - 1 : At(cfg, p, b)
    BY DEF GenOK
  <2>2. b \in Nat
    OBVIOUS
  <2> HIDE DEF s
  <2>3. b % s \in 0..s - 1
    BY <1>1, <2>2, DivMod
  <2> QED
    BY <1>1, <2>1, <2>3 DEF At, s
<1>7. Upto(s) = {p \in gen : p.second = second}
  BY <1>6
<1>8. Upto(0) = {}
  BY <1>3
<1>9. \A i \in Nat : Upto(i + 1) = Upto(i) \cup Of(i) /\ Upto(i) \cap Of(i) = {}
  <2> TAKE i \in Nat
  <2>1. \A k \in Nat : (k < i + 1 <=> k < i \/ k = i) /\ ~(k < i /\ k = i)
    OBVIOUS
  <2> QED
    BY <1>3, <2>1
<1> HIDE DEF s, First, count, Upto, Of
<1>10. Bad = {}
  <2> SUFFICES ASSUME Bad # {} PROVE FALSE
    OBVIOUS
  <2>1. Bad \subseteq Nat
    BY <1>1
  <2>2. PICK m \in Bad : \A y \in Bad : ~(<<y, m>> \in R)
    BY <2>1, WFMin, NatLessThanWellFounded
  <2>3. m \in Nat /\ m \in 0..s
    BY <2>1, <2>2
  <2>4. m # 0
    <3>1. Cardinality(Upto(0)) = 0
      BY <1>8, FS_EmptySet
    <3> QED
      BY <1>2, <2>2, <3>1
  <2>5. m - 1 \in 0..s - 1 /\ m - 1 \in Nat /\ m - 1 \in 0..s /\ (m - 1) + 1 = m
    BY <1>1, <2>3, <2>4
  <2>6. m - 1 \notin Bad
    <3>1. <<m - 1, m>> \in R
      BY <2>3, <2>5 DEF OpToRel
    <3> QED
      BY <2>2, <3>1
  <2>7. Cardinality(Upto(m - 1)) = First(m - 1)
    BY <2>5, <2>6
  <2>8. Cardinality(Upto(m)) = Cardinality(Upto(m - 1)) + Cardinality(Of(m - 1))
    <3>1. Upto(m) = Upto(m - 1) \cup Of(m - 1) /\ Upto(m - 1) \cap Of(m - 1) = {}
      BY <1>9, <2>5
    <3> QED
      BY <1>5, <3>1, DisjointSum
  <2>9. First(m) = First(m - 1) + count(m - 1) /\ Cardinality(Of(m - 1)) = count(m - 1)
    BY <1>2, <1>4, <2>5
  <2> QED
    BY <2>2, <2>7, <2>8, <2>9
<1>11. Cardinality(Upto(s)) = First(s)
  BY <1>1, <1>10
<1> QED
  BY <1>2, <1>7, <1>11

\* A second none of whose batches was skipped has the points of its rate, no message
\* is too large, and no change shows before its time.
THEOREM RawScheduleKept == Spec => []ScheduleKept
<1>1. SinkInv /\ GenInv => ScheduleKept
  <2> SUFFICES ASSUME SinkInv, GenInv, scenario # None PROVE RateKept /\ ChangesWait
    BY DEF ScheduleKept
  <2>1. /\ scenario \in Configs /\ Valid(scenario) /\ GenOK(scenario, generated, nextBatch, skipped)
        /\ \A i \in DOMAIN pdata : Cardinality(pdata[i]) <= scenario.maxBatch
        /\ IsFiniteSet(generated)
    BY DEF GenInv, SinkInv, PointsOK
  <2>2. ASSUME NEW second \in 0..MaxSeconds - 1,
               LET size == BatchesPerSecond(scenario)
               IN (second * size)..(second * size + size - 1) \subseteq (0..nextBatch - 1) \ skipped
        PROVE  Cardinality({p \in generated : p.second = second}) = RateAt(scenario, second)
    <3> DEFINE size == BatchesPerSecond(scenario)
    <3>1. size \in Nat /\ size > 0 /\ second \in Nat
      BY <2>1, SlotsIs, GeneratorAssumption DEF GeneratorAssumption
    <3>2. \A i \in 0..size - 1 : second * size + i \in (second * size)..(second * size + size - 1)
      <4> HIDE DEF size
      <4>1. second * size \in Nat
        BY <3>1
      <4> QED
        BY <3>1, <4>1
    <3>3. \A i \in 0..size - 1 : second * size + i \in 0..nextBatch - 1 /\ second * size + i \notin skipped
      BY <2>2, <3>2
    <3> QED
      BY <2>1, <3>1, <3>3, SecondCount
  <2>3. RateKept
    BY <2>1, <2>2 DEF RateKept
  <2>4. ASSUME NEW p \in generated
        PROVE  /\ p.value \in {scenario.value} \cup {scenario.changes[c].value : c \in Scheduled(p.second)}
               /\ \A i \in DOMAIN scenario.attributes \ UniqueAttributes(scenario) :
                    \/ p.values[i] \in Injectable(p.second, i)
                    \/ \E size \in {scenario.attributes[i].cardinality}
                                     \cup {scenario.changes[c].cardinality :
                                             c \in CardinalityChanges(scenario, i) \cap Scheduled(p.second)} :
                         p.values[i] \in 0..size + scenario.attributes[i].growth - 1
    <3>1. Waits(scenario, p)
      BY <2>1 DEF GenOK, PointFits
    <3>2. Scheduled(p.second) = ScheduledIn(scenario, p.second)
      BY DEF Scheduled, ScheduledIn
    <3>3. \A i : Injectable(p.second, i) = InjectableIn(scenario, p.second, i)
      BY <3>2 DEF Injectable, InjectableIn
    <3> QED
      BY <3>1, <3>2, <3>3 DEF Waits
  <2>5. ChangesWait
    BY <2>4 DEF ChangesWait
  <2> QED
    BY <2>3, <2>5
<1> QED
  BY <1>1, RawInvariant, PTL

\* With one unique attribute its values are the numbers of the points, in the order
\* of the batches: the counter that is set anew for each does not meet another's.
LEMMA CountIs ==
  ASSUME NEW cfg \in Configs, Valid(cfg), Cardinality(UniqueAttributes(cfg)) <= 1,
         NEW i \in UniqueAttributes(cfg), NEW second \in Nat, NEW index \in Nat, NEW n \in Nat
  PROVE  /\ BatchRange(cfg, second, index).first \in Nat /\ MaxRate(cfg) \in Nat
         /\ UniqueValue(cfg, second, index, n, i) =
              second * MaxRate(cfg) + BatchRange(cfg, second, index).first + n
<1> DEFINE first == BatchRange(cfg, second, index).first
           U == UniqueAttributes(cfg)
           some == {j \in U : j <= i}
<1>1. first \in Nat /\ MaxRate(cfg) \in Nat /\ second * MaxRate(cfg) \in Nat
  <2>1. first \in Nat /\ MaxRate(cfg) \in Nat
    BY RangesAre, RateIs
  <2> HIDE DEF first
  <2> QED
    BY <2>1
<1>2. IsFiniteSet(U) /\ U \subseteq Nat
  <2>1. U \subseteq DOMAIN cfg.attributes
    BY DEF UniqueAttributes
  <2> QED
    BY <2>1, ConfigIs, FS_Subset
<1>3. Cardinality(U) = 1 /\ some = U
  <2>1. Cardinality({i}) = 1 /\ IsFiniteSet({i}) /\ {i} \subseteq U
    BY FS_Singleton
  <2>2. Cardinality({i}) <= Cardinality(U) /\ Cardinality(U) \in Nat
    BY <1>2, <2>1, FS_Subset, FS_CardinalityType
  <2>3. Cardinality(U) = 1
    BY <2>1, <2>2
  <2>4. U = {i}
    BY <1>2, <2>1, <2>3, FS_Subset
  <2>5. i <= i
    BY <1>2
  <2> QED
    BY <2>3, <2>4, <2>5
<1>4. UniqueValue(cfg, second, index, n, i) =
        second * MaxRate(cfg) + first + (n - 1) * Cardinality(U) + Cardinality(some)
  BY DEF UniqueValue, CounterOf
<1> HIDE DEF first, U, some
<1>5. UniqueValue(cfg, second, index, n, i) = second * MaxRate(cfg) + first + (n - 1) * 1 + 1
  BY <1>3, <1>4
<1>6. UniqueValue(cfg, second, index, n, i) = second * MaxRate(cfg) + first + n
  BY <1>1, <1>5
<1> QED
  BY <1>1, <1>6 DEF first

LEMMA CountsApart ==
  ASSUME NEW cfg \in Configs, Valid(cfg), Cardinality(UniqueAttributes(cfg)) <= 1,
         NEW i \in UniqueAttributes(cfg), NEW p, NEW q, PointFits(cfg, p), PointFits(cfg, q),
         p.index < BatchesPerSecond(cfg), q.index < BatchesPerSecond(cfg),
         \/ p.second < q.second
         \/ p.second = q.second /\ p.index < q.index
         \/ p.second = q.second /\ p.index = q.index /\ p.n < q.n
  PROVE  UniqueValue(cfg, p.second, p.index, p.n, i) # UniqueValue(cfg, q.second, q.index, q.n, i)
<1> DEFINE M == MaxRate(cfg)
           s == BatchesPerSecond(cfg)
           F(x, j) == BatchRange(cfg, x, j).first
<1>1. /\ p.second \in Nat /\ p.index \in Nat /\ p.n \in Nat
      /\ q.second \in Nat /\ q.index \in Nat /\ q.n \in Nat
      /\ p.n \in 1..BatchRange(cfg, p.second, p.index).count
      /\ q.n \in 1..BatchRange(cfg, q.second, q.index).count
  BY DEF PointFits
<1>2. /\ M \in Nat /\ F(p.second, p.index) \in Nat /\ F(q.second, q.index) \in Nat
      /\ UniqueValue(cfg, p.second, p.index, p.n, i) = p.second * M + F(p.second, p.index) + p.n
      /\ UniqueValue(cfg, q.second, q.index, q.n, i) = q.second * M + F(q.second, q.index) + q.n
  <2>1. \A x, j, n \in Nat :
          /\ BatchRange(cfg, x, j).first \in Nat /\ MaxRate(cfg) \in Nat
          /\ UniqueValue(cfg, x, j, n, i) = x * MaxRate(cfg) + BatchRange(cfg, x, j).first + n
    BY CountIs
  <2> DEFINE V(x, j, n) == x * M + F(x, j) + n
  <2>2. \A x, j, n \in Nat : /\ F(x, j) \in Nat /\ M \in Nat
                             /\ UniqueValue(cfg, x, j, n, i) = V(x, j, n)
    BY <2>1, Zenon
  <2>3. /\ p.second \in Nat /\ p.index \in Nat /\ p.n \in Nat
        /\ q.second \in Nat /\ q.index \in Nat /\ q.n \in Nat
    BY <1>1
  <2> HIDE DEF M, F, V
  <2>4. M \in Nat /\ F(p.second, p.index) \in Nat /\ F(q.second, q.index) \in Nat
    BY <2>2, <2>3
  <2>5. UniqueValue(cfg, p.second, p.index, p.n, i) = V(p.second, p.index, p.n)
    BY <2>2, <2>3
  <2>6. UniqueValue(cfg, q.second, q.index, q.n, i) = V(q.second, q.index, q.n)
    BY <2>2, <2>3
  <2> QED
    BY <2>4, <2>5, <2>6 DEF V
<1>3. p.index + 1 \in Nat /\ p.index + 1 <= s /\ s \in Nat
  BY <1>1, SlotsIs
<1>4. /\ F(p.second, p.index + 1) \in Nat
      /\ F(p.second, p.index + 1) = F(p.second, p.index) + BatchRange(cfg, p.second, p.index).count
      /\ BatchRange(cfg, p.second, p.index).count \in Nat
      /\ F(p.second, p.index + 1) <= F(p.second, s) /\ F(p.second, s) = RateAt(cfg, p.second)
      /\ \A j \in Nat : p.index + 1 <= j => F(p.second, p.index + 1) <= F(p.second, j)
  BY <1>1, <1>3, RangesAre
<1>5. RateAt(cfg, p.second) \in Nat /\ RateAt(cfg, p.second) <= M
  BY RateIs
<1> HIDE DEF M, s, F
<1>6. F(p.second, p.index) + p.n <= F(p.second, p.index + 1) /\ F(p.second, p.index + 1) <= M
  BY <1>1, <1>2, <1>4, <1>5
<1> DEFINE A == p.second * M
           B == q.second * M
<1>7. A \in Nat /\ B \in Nat
  BY <1>1, <1>2
<1>8. CASE p.second < q.second
  <2>1. q.second - p.second - 1 \in Nat
    BY <1>1, <1>8
  <2>2. B = A + M + (q.second - p.second - 1) * M /\ (q.second - p.second - 1) * M \in Nat
    BY <1>1, <1>2, <2>1
  <2> HIDE DEF A, B
  <2>3. A + M <= B
    BY <1>2, <1>7, <2>2
  <2> QED
    BY <1>1, <1>2, <1>4, <1>6, <1>7, <2>3 DEF A, B
<1>9. CASE p.second = q.second /\ p.index < q.index
  <2>1. p.index + 1 <= q.index
    BY <1>1, <1>9
  <2>2. F(p.second, p.index + 1) <= F(q.second, q.index) /\ A = B
    <3>1. F(p.second, p.index + 1) <= F(p.second, q.index)
      BY <1>1, <1>4, <2>1
    <3> QED
      BY <1>9, <3>1, Zenon
  <2> QED
    BY <1>1, <1>2, <1>4, <1>6, <1>7, <2>2
<1>10. CASE p.second = q.second /\ p.index = q.index /\ p.n < q.n
  <2>1. A = B /\ F(p.second, p.index) = F(q.second, q.index)
    BY <1>10
  <2> QED
    BY <1>1, <1>2, <1>7, <1>10, <2>1
<1> QED
  BY <1>8, <1>9, <1>10

\* What a configuration must keep to for its unique values to be unique: a point
\* takes one count, and no injected value reads like one.
CountsOnce(cfg) ==
  /\ Cardinality(UniqueAttributes(cfg)) <= 1
  /\ \A i \in UniqueAttributes(cfg), c \in DOMAIN cfg.changes :
       Changes(cfg, c, i) => cfg.changes[c].inject \notin Nat

\* Two points share a unique value only if it was injected into both.
THEOREM RawUniqueValues ==
  ASSUME \A cfg \in Configs : CountsOnce(cfg)
  PROVE  Spec => []UniqueValues
<1>1. SinkInv /\ GenInv => UniqueValues
  <2> SUFFICES ASSUME SinkInv, GenInv, NEW p \in generated, NEW q \in generated, p # q,
                      NEW i \in UniqueAttributes(scenario), p.values[i] = q.values[i]
               PROVE  p.values[i] \in Injectable(p.second, i) \cap Injectable(q.second, i)
    BY DEF UniqueValues
  <2>1. /\ scenario \in Configs /\ Valid(scenario) /\ GenOK(scenario, generated, nextBatch, skipped)
    BY DEF GenInv
  <2>2. CountsOnce(scenario)
    BY <2>1
  <2>3. \A second : Injectable(second, i) = InjectableIn(scenario, second, i)
    BY DEF Injectable, InjectableIn, Scheduled, ScheduledIn
  <2>4. \A second : \A v \in InjectableIn(scenario, second, i) : v \notin Nat
    BY <2>2 DEF InjectableIn, ScheduledIn, CountsOnce
  <2> DEFINE V(r) == UniqueValue(scenario, r.second, r.index, r.n, i)
  <2>5. \A r \in generated :
          /\ PointFits(scenario, r) /\ r.index < BatchesPerSecond(scenario)
          /\ r.values[i] = V(r) \/ r.values[i] \in InjectableIn(scenario, r.second, i)
          /\ V(r) \in Nat
    <3> TAKE r \in generated
    <3>1. PointFits(scenario, r)
      BY <2>1 DEF GenOK
    <3>2. r.values[i] = V(r) \/ r.values[i] \in InjectableIn(scenario, r.second, i)
      BY <3>1 DEF PointFits, Counted
    <3>3. r.index < BatchesPerSecond(scenario)
      <4> DEFINE s == BatchesPerSecond(scenario)
      <4>1. PICK b \in 0..nextBatch - 1 : r.index = b % s
        BY <2>1 DEF GenOK, At
      <4>2. b \in Nat /\ s \in Nat /\ s > 0
        BY <2>1, SlotsIs
      <4> HIDE DEF s
      <4>3. b % s \in 0..s - 1
        BY <4>2, DivMod
      <4>4. r.index < s
        BY <4>1, <4>2, <4>3
      <4> QED
        BY <4>4 DEF s
    <3>4. V(r) \in Nat
      <4>1. r.second \in Nat /\ r.index \in Nat /\ r.n \in Nat
        BY <3>1 DEF PointFits
      <4>2. /\ BatchRange(scenario, r.second, r.index).first \in Nat /\ MaxRate(scenario) \in Nat
            /\ V(r) = r.second * MaxRate(scenario) + BatchRange(scenario, r.second, r.index).first + r.n
        BY <2>1, <2>2, <4>1, CountIs DEF CountsOnce
      <4> HIDE DEF V
      <4>3. r.second * MaxRate(scenario) \in Nat
        BY <4>1, <4>2
      <4> QED
        BY <4>1, <4>2, <4>3
    <3> QED
      BY <3>1, <3>2, <3>3, <3>4
  <2>6. V(p) # V(q)
    <3>1. p.second # q.second \/ p.index # q.index \/ p.n # q.n
      BY <2>1 DEF GenOK
    <3>2. /\ p.second \in Nat /\ p.index \in Nat /\ p.n \in Nat
          /\ q.second \in Nat /\ q.index \in Nat /\ q.n \in Nat
      BY <2>5 DEF PointFits
    <3> DEFINE Before(a, b) == \/ a.second < b.second
                               \/ a.second = b.second /\ a.index < b.index
                               \/ a.second = b.second /\ a.index = b.index /\ a.n < b.n
    <3>3. Before(p, q) \/ Before(q, p)
      BY <3>1, <3>2
    <3>4. \A a, b \in generated : Before(a, b) => V(a) # V(b)
      BY <2>1, <2>2, <2>5, CountsApart DEF CountsOnce
    <3> HIDE DEF Before, V
    <3> QED
      BY <3>3, <3>4
  <2> HIDE DEF V
  <2> QED
    BY <2>3, <2>4, <2>5, <2>6
<1> QED
  BY <1>1, RawInvariant, PTL
=============================================================================
