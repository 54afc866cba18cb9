------------------------ MODULE AsapProcessorProofs ------------------------
(***************************************************************************)
(* Proofs about AsapProcessor, for every value of its constants: the       *)
(* precompute runs as configured, every point is in one place, and scalars *)
(* leave in the window of their time.                                      *)
(***************************************************************************)
EXTENDS AsapProcessor, SequenceTheorems, TLAPS

-----------------------------------------------------------------------------
(* Values.                                                                 *)

Input == [id : Nat, obs : Offered]

\* A record of the form the map of series keeps, of inputs only.
EntryOK(e) ==
  /\ e = [res |-> e.res, labels |-> e.labels, seen |-> e.seen, count |-> e.count,
          sketch |-> e.sketch]
  /\ e.sketch \subseteq Input

MessageOK ==
  /\ msg = [at |-> "batch", todo |-> msg.todo, first |-> msg.first, ready |-> msg.ready]
  /\ msg.todo \in Seq(Input)
  /\ msg.first \subseteq Nat
  /\ msg.first = {} => msg.ready = {}

WindowOK ==
  /\ activeStart \in Nat /\ activeEnd \in Nat /\ initialized \in BOOLEAN
  /\ \A k \in DOMAIN series : EntryOK(series[k])

ConfigOK ==
  /\ plugin \in Plugins /\ Resolves(plugin)
  /\ \E q \in Plugins : Resolves(q) /\ running = Resolve(q)

TypeInv ==
  /\ points \in Nat /\ passed \in Nat
  /\ stopped \in BOOLEAN /\ orderly \in BOOLEAN
  /\ ConfigOK
  /\ WindowOK
  /\ msg # NoBatch => MessageOK
  /\ stopped => msg = NoBatch

LEMMA InputFields ==
  ASSUME NEW in \in Input
  PROVE  in.id \in Nat /\ in.obs \in Offered /\ in.obs.ts \in Nat /\ in.obs.good \in BOOLEAN
  BY ConstantsAssumption DEF Input, PointType

LEMMA PluginFields ==
  ASSUME NEW q \in Plugins
  PROVE  q.size \in Nat /\ q.params \in Nat /\ q.agg \in Nat
  BY ConstantsAssumption DEF PluginType

LEMMA RunningFields ==
  ASSUME TypeInv
  PROVE  /\ running.size \in Nat /\ running.size > 0
         /\ running.lateness = 0 /\ running.maxSeries = 0
<1>1. PICK q \in Plugins : Resolves(q) /\ running = Resolve(q)
  BY DEF TypeInv, ConfigOK
<1>. QED
  BY <1>1, PluginFields DEF Resolves, Resolve

LEMMA NoCap == ASSUME TypeInv PROVE ~AtCap(running) /\ \A in : ~IsLate(in, running)
  BY RunningFields DEF AtCap, IsLate

LEMMA BucketFacts ==
  ASSUME NEW t \in Nat, NEW size \in Nat, size > 0
  PROVE  /\ Bucket(t, size) \in Nat
         /\ Bucket(t, size) <= t /\ t < Bucket(t, size) + size
         /\ \E q \in Nat : Bucket(t, size) = q * size
<1>1. /\ t \div size \in Nat
      /\ t = (t \div size) * size + (t % size)
      /\ t % size \in 0..(size - 1)
  OBVIOUS
<1>2. Bucket(t, size) = (t \div size) * size
  BY DEF Bucket
<1>3. (t \div size) * size \in Nat
  BY <1>1
<1>. QED
  BY <1>1, <1>2, <1>3

\* Multiples of a size less than one size apart, either way, are equal.
LEMMA MultiplesMeet ==
  ASSUME NEW size \in Nat, size > 0, NEW p \in Nat, NEW q \in Nat,
         p * size < q * size + size, q * size < p * size + size
  PROVE  p = q
<1>1. \A a, b \in Nat : a < b => a * size + size <= b * size
  <2>1. SUFFICES ASSUME NEW a \in Nat, NEW b \in Nat, a < b
                 PROVE  a * size + size <= b * size
    OBVIOUS
  <2>2. PICK d \in Nat : b = a + 1 + d
    <3>1. b - a - 1 \in Nat /\ b = a + 1 + (b - a - 1)
      BY <2>1
    <3>. QED
      BY <3>1
  <2>3. b * size = a * size + size + d * size
    BY <2>2
  <2>4. d * size \in Nat /\ a * size \in Nat
    OBVIOUS
  <2>. QED
    BY <2>3, <2>4
<1>2. p * size \in Nat /\ q * size \in Nat
  OBVIOUS
<1>3. ~(p < q) /\ ~(q < p)
  BY <1>1, <1>2
<1>. QED
  BY <1>3

LEMMA BatchIsNone ==
  ASSUME NEW a, NEW b, NEW c
  PROVE  [at |-> "batch", todo |-> a, first |-> b, ready |-> c] # NoBatch
  BY DEF NoBatch

-----------------------------------------------------------------------------
(* What observing a point does to the window.                              *)

SketchOf(k) == IF k \in DOMAIN series THEN series[k].sketch ELSE {}

\* The series of key k has taken the point, if it is good.
Takes(k, in) ==
  /\ DOMAIN series' = DOMAIN series \cup {k}
  /\ \A j \in DOMAIN series : j # k => series'[j] = series[j]
  /\ EntryOK(series'[k])
  /\ series'[k].sketch = SketchOf(k) \cup (IF in.obs.good THEN {in} ELSE {})

LEMMA AbsorbOK ==
  ASSUME NEW e, EntryOK(e), NEW in \in Input, NEW n
  PROVE  EntryOK(Absorb(e, in, n)) /\ Absorb(e, in, n).sketch = e.sketch \cup {in}
<1> DEFINE s == e.sketch \cup {in}
           m == e.count + n
           a == [res |-> e.res, labels |-> e.labels, seen |-> e.seen, count |-> m, sketch |-> s]
<1>1. Absorb(e, in, n) = [e EXCEPT !.sketch = s, !.count = m]
  BY DEF Absorb
<1>2. s \subseteq Input
  BY DEF EntryOK
<1>3. Absorb(e, in, n) = a
  <2> HIDE DEF s, m
  <2>. QED BY <1>1 DEF EntryOK
<1>4. a.sketch = s /\ EntryOK(a)
  <2> HIDE DEF s, m
  <2>. QED BY <1>2 DEF EntryOK
<1>. QED
  BY <1>3, <1>4

LEMMA TouchOK ==
  ASSUME NEW e, EntryOK(e), NEW ts
  PROVE  EntryOK(Touch(e, ts)) /\ Touch(e, ts).sketch = e.sketch
  BY DEF Touch, EntryOK

LEMMA NewEntryOK ==
  ASSUME NEW res, NEW labels, NEW ts
  PROVE  EntryOK(NewEntry(res, labels, ts)) /\ NewEntry(res, labels, ts).sketch = {}
  BY DEF NewEntry, EntryOK

LEMMA PutTakes ==
  ASSUME NEW k, NEW e, NEW in, series' = Put(k, e), EntryOK(e),
         e.sketch = SketchOf(k) \cup (IF in.obs.good THEN {in} ELSE {})
  PROVE  Takes(k, in)
<1>1. /\ DOMAIN series' = DOMAIN series \cup {k}
      /\ series'[k] = e
      /\ \A j \in DOMAIN series : j # k => series'[j] = series[j]
  BY DEF Put
<1>. QED
  BY <1>1 DEF Takes

LEMMA KnownTakes ==
  ASSUME TypeInv, NEW in \in Input, ObserveKnown(in, running)
  PROVE  InitWindow(in.obs.ts, running) /\ \E k : Takes(k, in)
<1> DEFINE k == KeyOf(in, running)
           t == Touch(series[k], in.obs.ts)
           e == IF in.obs.good THEN Absorb(t, in, 1) ELSE t
<1>1. k \in DOMAIN series /\ EntryOK(series[k]) /\ SketchOf(k) = series[k].sketch
  BY DEF ObserveKnown, TypeInv, WindowOK, SketchOf
<1>2. EntryOK(t) /\ t.sketch = series[k].sketch
  <2> HIDE DEF k
  <2>. QED BY <1>1, TouchOK
<1>3. EntryOK(Absorb(t, in, 1)) /\ Absorb(t, in, 1).sketch = t.sketch \cup {in}
  <2> HIDE DEF t
  <2>. QED BY <1>2, AbsorbOK
<1>4. EntryOK(e) /\ e.sketch = SketchOf(k) \cup (IF in.obs.good THEN {in} ELSE {})
  <2> HIDE DEF k, t
  <2>. QED BY <1>1, <1>2, <1>3
<1>5. series' = Put(k, e) /\ InitWindow(in.obs.ts, running)
  BY DEF ObserveKnown
<1>6. Takes(k, in)
  <2> HIDE DEF k, e
  <2>. QED BY <1>4, <1>5, PutTakes
<1>. QED
  BY <1>5, <1>6

LEMMA NewTakes ==
  ASSUME TypeInv, NEW in \in Input, ObserveNew(in, running)
  PROVE  InitWindow(in.obs.ts, running) /\ \E k : Takes(k, in)
<1> DEFINE k == KeyOf(in, running)
           n == NewEntry(StrippedResource(running, in.obs.res),
                         StrippedLabels(running, in.obs.labels), in.obs.ts)
           e == FirstEntry(in, running)
<1>1. EntryOK(n) /\ n.sketch = {}
  BY NewEntryOK
<1>2. EntryOK(Absorb(n, in, 1)) /\ Absorb(n, in, 1).sketch = n.sketch \cup {in}
  <2> HIDE DEF n
  <2>. QED BY <1>1, AbsorbOK
<1>3. e = IF in.obs.good THEN Absorb(n, in, 1) ELSE n
  BY DEF FirstEntry
<1>4. SketchOf(k) = {}
  BY DEF ObserveNew, SketchOf
<1>5. EntryOK(e) /\ e.sketch = SketchOf(k) \cup (IF in.obs.good THEN {in} ELSE {})
  <2> HIDE DEF k, n, e
  <2>. QED BY <1>1, <1>2, <1>3, <1>4
<1>6. series' = Put(k, e) /\ InitWindow(in.obs.ts, running)
  BY DEF ObserveNew
<1>7. Takes(k, in)
  <2> HIDE DEF k, e
  <2>. QED BY <1>5, <1>6, PutTakes
<1>. QED
  BY <1>6, <1>7

LEMMA MergeTakes ==
  ASSUME TypeInv, NEW in \in Input, MergeInto(in, running)
  PROVE  InitWindow(in.obs.ts, running) /\ \E k : Takes(k, in)
<1> DEFINE k == KeyOf(in, running)
           b == IF k \in DOMAIN series THEN series[k]
                ELSE NewEntry(in.obs.res, in.obs.labels, in.obs.ts)
           e == IF in.obs.good THEN Absorb(b, in, in.obs.count) ELSE b
<1>1. EntryOK(b) /\ b.sketch = SketchOf(k)
  <2> HIDE DEF k
  <2>. QED BY NewEntryOK DEF TypeInv, WindowOK, SketchOf
<1>2. /\ EntryOK(Absorb(b, in, in.obs.count))
      /\ Absorb(b, in, in.obs.count).sketch = b.sketch \cup {in}
  <2> HIDE DEF b
  <2>. QED BY <1>1, AbsorbOK
<1>3. EntryOK(e) /\ e.sketch = SketchOf(k) \cup (IF in.obs.good THEN {in} ELSE {})
  <2> HIDE DEF k, b
  <2>. QED BY <1>1, <1>2
<1>4. series' = Put(k, e) /\ InitWindow(in.obs.ts, running)
  BY DEF MergeInto
<1>5. Takes(k, in)
  <2> HIDE DEF k, e
  <2>. QED BY <1>3, <1>4, PutTakes
<1>. QED
  BY <1>4, <1>5

\* A handler observes the point, or refuses its sketch without a look at the window.
ObservesPoint ==
  /\ InitWindow(Point.obs.ts, running)
  /\ \E k : Takes(k, Point)
  /\ refused' = IF Point.obs.good THEN refused ELSE refused \cup {Point}

LEMMA TailOfMessage ==
  ASSUME MessageOK, msg # NoBatch, msg.todo # <<>>
  PROVE  /\ Point \in Input
         /\ Tail(msg.todo) \in Seq(Input)
         /\ msg' = [msg EXCEPT !.todo = Tail(@)]
            => /\ msg' # NoBatch /\ MessageOK'
               /\ msg'.todo = Tail(msg.todo)
               /\ msg'.first = msg.first /\ msg'.ready = msg.ready
<1>1. Point \in Input /\ Tail(msg.todo) \in Seq(Input)
  BY DEF MessageOK, Point
<1>2. ASSUME msg' = [msg EXCEPT !.todo = Tail(@)]
      PROVE  msg' # NoBatch /\ MessageOK' /\ msg'.todo = Tail(msg.todo)
             /\ msg'.first = msg.first /\ msg'.ready = msg.ready
  <2> DEFINE t == Tail(msg.todo)
  <2>1. t \in Seq(Input) /\ msg' = [msg EXCEPT !.todo = t]
    BY <1>1, <1>2
  <2> HIDE DEF t
  <2>2. msg' = [at |-> "batch", todo |-> t, first |-> msg.first, ready |-> msg.ready]
    BY <2>1 DEF MessageOK
  <2>3. msg'.todo = t /\ msg'.first = msg.first /\ msg'.ready = msg.ready /\ msg' # NoBatch
    BY <2>2, BatchIsNone
  <2>4. MessageOK'
    BY <2>1, <2>2, <2>3 DEF MessageOK
  <2>. QED
    BY <2>3, <2>4 DEF t
<1>. QED
  BY <1>1, <1>2

LEMMA ObserveEffect ==
  ASSUME TypeInv, ObserveScalar \/ ObserveEnvelope
  PROVE  /\ msg # NoBatch /\ MessageOK /\ msg.todo # <<>> /\ Point \in Input
         /\ msg' # NoBatch /\ MessageOK'
         /\ msg'.todo = Tail(msg.todo) /\ msg'.first = msg.first /\ msg'.ready = msg.ready
         /\ UNCHANGED <<setup, stopped, points, updates, out, lost>>
         /\ \/ ObservesPoint
            \/ UNCHANGED window /\ refused' = refused \cup {Point} /\ Point.obs.kind = "envelope"
<1>1. /\ msg # NoBatch /\ MessageOK /\ msg.todo # <<>>
      /\ msg' = [msg EXCEPT !.todo = Tail(@)]
      /\ UNCHANGED <<setup, stopped, points, updates, out, lost>>
  BY DEF ObserveScalar, ObserveEnvelope, TypeInv
<1>2. Point \in Input
  BY <1>1, TailOfMessage
<1>3. CASE ObserveScalar
  <2>1. ObserveKnown(Point, running) \/ ObserveNew(Point, running)
    BY <1>3 DEF ObserveScalar
  <2>2. InitWindow(Point.obs.ts, running) /\ \E k : Takes(k, Point)
    BY <1>2, <2>1, KnownTakes, NewTakes
  <2>. QED
    BY <1>1, <1>2, <1>3, <2>2, TailOfMessage DEF ObserveScalar, ObservesPoint
<1>4. CASE ObserveEnvelope
  <2>1. CASE Mergeable(Point.obs)
    <3>1. MergeInto(Point, running)
      BY <1>4, <2>1 DEF ObserveEnvelope
    <3>2. InitWindow(Point.obs.ts, running) /\ \E k : Takes(k, Point)
      BY <1>2, <3>1, MergeTakes
    <3>3. refused' = IF Point.obs.good THEN refused ELSE refused \cup {Point}
      BY <1>2, <1>4, <2>1, InputFields DEF ObserveEnvelope
    <3>. QED
      BY <1>1, <1>2, <3>2, <3>3, TailOfMessage DEF ObservesPoint
  <2>2. CASE ~Mergeable(Point.obs)
    BY <1>1, <1>2, <1>4, <2>2, TailOfMessage DEF ObserveEnvelope
  <2>. QED
    BY <2>1, <2>2
<1>. QED
  BY <1>3, <1>4

-----------------------------------------------------------------------------
(* What closing the window does.                                           *)

\* A window that has been closed for a time it was due by.
Moves(now) ==
  /\ initialized /\ series' = <<>> /\ initialized' = initialized
  /\ activeStart' = NextStart(now, running)
  /\ activeEnd' = NextStart(now, running) + running.size

LEMMA RotateMoves ==
  ASSUME TypeInv, initialized, NEW now \in Nat, RotateWindow(now, running)
  PROVE  Moves(now) /\ WindowOK'
<1>1. Moves(now)
  BY DEF RotateWindow, AdvanceWindow, Moves
<1>2. NextStart(now, running) \in Nat
  BY RunningFields, BucketFacts DEF NextStart, TypeInv, WindowOK
<1>3. DOMAIN series' = {}
  BY <1>1 DEF Moves
<1>. QED
  BY <1>1, <1>2, <1>3, RunningFields DEF Moves, WindowOK, TypeInv

\* The window is closed when event or wall time has come so far, or left alone.
LEMMA TickEffect ==
  ASSUME TypeInv, NEW now \in Nat, TickWindow(now)
  PROVE  /\ WindowOK'
         /\ \/ Moves(now) /\ now >= activeEnd /\ Ticked(now) = Closed
            \/ /\ UNCHANGED window /\ Ticked(now) = {}
               /\ initialized => now < activeEnd
<1>1. CASE RotationDue(now, running)
  BY <1>1, RotateMoves, RunningFields DEF TickWindow, Ticked, RotationDue
<1>2. CASE ~RotationDue(now, running)
  BY <1>2, RunningFields DEF TickWindow, Ticked, RotationDue, TypeInv, WindowOK, window, windowVars
<1>. QED
  BY <1>1, <1>2

LEMMA DrainEffect ==
  ASSUME TypeInv, DrainWindow
  PROVE  /\ WindowOK'
         /\ \/ DrainDue /\ Moves(activeEnd) /\ Drained = Closed
            \/ ~DrainDue /\ UNCHANGED window /\ Drained = {}
<1>1. CASE DrainDue
  BY <1>1, RotateMoves DEF DrainWindow, Drained, DrainDue, TypeInv, WindowOK
<1>2. CASE ~DrainDue
  BY <1>2 DEF DrainWindow, Drained, TypeInv, WindowOK, window, windowVars
<1>. QED
  BY <1>1, <1>2

\* What is closed is sent, but for a part that is given up.
Shares(closing) ==
  \E sent \in SUBSET closing :
    /\ out' = out \cup sent
    /\ lost' = lost \cup PointsOf(closing \ sent)

LEMMA SendShares ==
  ASSUME NEW closing, Send(closing) \/ SendFails(closing)
  PROVE  Shares(closing)
<1>1. CASE Send(closing)
  BY <1>1 DEF Send, Shares
<1>2. CASE SendFails(closing)
  <2>1. out' = out \cup {} /\ lost' = lost \cup PointsOf(closing \ {})
    <3>1. closing \ {} = closing
      OBVIOUS
    <3>. QED
      BY <1>2, <3>1 DEF SendFails
  <2>. QED
    BY <2>1 DEF Shares
<1>. QED
  BY <1>1, <1>2

LEMMA EmitShares ==
  ASSUME NEW closing, Emit(closing)
  PROVE  Shares(closing) /\ (stopped' = stopped \/ stopped' = TRUE)
<1>1. Shares(closing)
  BY SendShares DEF Emit
<1>2. stopped' = stopped \/ stopped' = TRUE
  BY DEF Emit, SendFails
<1>. QED
  BY <1>1, <1>2

LEMMA NewWindowOK == ASSUME NewWindow PROVE WindowOK'
<1>1. DOMAIN series' = {}
  BY DEF NewWindow
<1>. QED
  BY <1>1 DEF NewWindow, WindowOK

-----------------------------------------------------------------------------
(* What a new configuration does.                                          *)

\* The configuration q has taken the place of the old one, but for a timer that
\* could not be started.
Installed(q) ==
  /\ stopped' = stopped \/ stopped' = TRUE
  /\ plugin' = plugin \/ plugin' = q
  /\ ~stopped' => plugin' = q /\ period' = TimerPeriod(q)

LEMMA InstallEffect == ASSUME NEW q, Install(q) PROVE Installed(q)
  BY DEF Install, Installed

Rebuilt(q) ==
  /\ Installed(q) /\ running' = Resolve(q) /\ built' = Factory(q)
  /\ NewWindow /\ Shares(Drained) /\ orderly' = orderly

Updated(q) ==
  /\ Installed(q) /\ running' = Resolve(q) /\ built' = built
  /\ UNCHANGED <<window, out, lost>>
  /\ ~RequiresRebuild(plugin, q)
  /\ orderly' = (orderly /\ q.size = plugin.size)

NotRebuilt ==
  /\ stopped' = TRUE
  /\ UNCHANGED <<plugin, running, built, period, orderly>>
  /\ DrainWindow /\ Shares(Drained)

LEMMA ConfigEffect ==
  ASSUME NEW q, Config(q)
  PROVE  /\ Idle /\ Resolves(q)
         /\ UNCHANGED <<msg, points, refused, passed>>
         /\ Rebuilt(q) \/ Updated(q) \/ NotRebuilt
<1>1. CASE RequiresRebuild(plugin, q)
  <2>1. Rebuild(q) /\ orderly' = orderly
    BY <1>1 DEF Config
  <2>2. CASE Send(Drained) /\ NewWindow /\ running' = Resolve(q) /\ built' = Factory(q) /\ Install(q)
    BY <2>1, <2>2, InstallEffect, SendShares DEF Config, Rebuilt
  <2>3. CASE SendFails(Drained) /\ DrainWindow /\ UNCHANGED <<plugin, running, built, period>>
    BY <2>1, <2>3, SendShares DEF Config, NotRebuilt, SendFails
  <2>. QED
    BY <2>1, <2>2, <2>3 DEF Rebuild
<1>2. CASE ~RequiresRebuild(plugin, q)
  BY <1>2, InstallEffect DEF Config, Update, Updated
<1>. QED
  BY <1>1, <1>2

-----------------------------------------------------------------------------
(* Types, step by step.                                                    *)

LEMMA TypeInit == Init => TypeInv
<1>1. SUFFICES ASSUME Init PROVE TypeInv
  OBVIOUS
<1>2. ConfigOK
  BY <1>1, ConstantsAssumption DEF Init, ConfigOK
<1>3. WindowOK
  <2>1. DOMAIN series = {}
    BY <1>1 DEF Init, WindowInit
  <2>. QED
    BY <1>1, <2>1 DEF Init, WindowInit, WindowOK
<1>. QED
  BY <1>1, <1>2, <1>3 DEF Init, TypeInv

LEMMA ClockTypes ==
  ASSUME TypeInv, NEW t \in Nat
  PROVE  Greater(passed, t) \in Nat /\ IdleTime(t) \in Nat /\ Minus(t, Grace) \in Nat
  BY ConstantsAssumption DEF TypeInv, Greater, IdleTime, Minus

\* The points of a received batch.
LEMMA InputsType ==
  ASSUME TypeInv, NEW b \in Batches
  PROVE  /\ Inputs(b) \in Seq(Input)
         /\ Len(b) \in Nat /\ DOMAIN b = 1..Len(b) /\ DOMAIN Inputs(b) = 1..Len(b)
         /\ \A i \in 1..Len(b) : Inputs(b)[i] = [id |-> points + i, obs |-> b[i]]
<1>1. b \in Seq(Offered)
  BY ConstantsAssumption
<1>2. Len(b) \in Nat /\ DOMAIN b = 1..Len(b) /\ \A i \in 1..Len(b) : b[i] \in Offered
  BY <1>1
<1>3. Inputs(b) = [i \in 1..Len(b) |-> [id |-> points + i, obs |-> b[i]]]
  BY <1>2 DEF Inputs
<1>4. \A i \in 1..Len(b) : [id |-> points + i, obs |-> b[i]] \in Input
  BY <1>2 DEF Input, TypeInv
<1>5. Inputs(b) \in [1..Len(b) -> Input]
  BY <1>3, <1>4
<1>. QED
  BY <1>2, <1>3, <1>5, SeqDef

LEMMA ReceiveType ==
  ASSUME TypeInv, NEW b \in Batches, Receive(b)
  PROVE  TypeInv'
<1>1. /\ Idle /\ points' = points + Len(b) /\ Len(b) \in Nat
      /\ UNCHANGED <<window, plugin, running, passed, orderly>>
  BY InputsType DEF Receive
<1>2. ConfigOK' /\ WindowOK'
  BY <1>1 DEF TypeInv, ConfigOK, WindowOK, window, windowVars
<1>3. CASE UNCHANGED stopped /\ msg' = [at |-> "batch", todo |-> Inputs(b), first |-> {}, ready |-> {}]
  <2> DEFINE t == Inputs(b)
  <2>1. t \in Seq(Input) /\ msg' = [at |-> "batch", todo |-> t, first |-> {}, ready |-> {}]
    BY <1>3, InputsType
  <2> HIDE DEF t
  <2>2. MessageOK'
    BY <2>1 DEF MessageOK
  <2>. QED
    BY <1>1, <1>2, <1>3, <2>2 DEF TypeInv, Idle
<1>4. CASE stopped' = TRUE /\ UNCHANGED msg
  BY <1>1, <1>2, <1>4 DEF TypeInv, Idle
<1>. QED
  BY <1>3, <1>4 DEF Receive

LEMMA TickFirstEffect ==
  ASSUME TypeInv, TickFirst
  PROVE  /\ msg # NoBatch /\ MessageOK /\ msg.todo # <<>> /\ Point \in Input
         /\ Point.obs.kind = "scalar" /\ msg.first = {} /\ msg.ready = {}
         /\ TickWindow(Point.obs.ts) /\ WindowOK'
         /\ msg' # NoBatch /\ MessageOK' /\ msg'.todo = msg.todo
         /\ msg'.first = {Point.obs.ts} /\ msg'.ready = Ticked(Point.obs.ts)
         /\ passed' = Greater(passed, Point.obs.ts)
         /\ UNCHANGED <<setup, stopped, points, updates, out, lost, refused, orderly>>
<1>1. msg # NoBatch /\ MessageOK /\ msg.todo # <<>> /\ Point \in Input
  BY TailOfMessage DEF TickFirst, TypeInv
<1>2. Point.obs.ts \in Nat
  BY <1>1, InputFields
<1>3. WindowOK'
  BY <1>2, TickEffect DEF TickFirst
<1>4. msg' # NoBatch /\ MessageOK' /\ msg'.todo = msg.todo
      /\ msg'.first = {Point.obs.ts} /\ msg'.ready = Ticked(Point.obs.ts)
  <2> DEFINE f == {Point.obs.ts}
             r == Ticked(Point.obs.ts)
  <2>1. msg' = [msg EXCEPT !.first = f, !.ready = r] /\ f \subseteq Nat /\ f # {}
    BY <1>2 DEF TickFirst
  <2> HIDE DEF f, r
  <2>2. msg' = [at |-> "batch", todo |-> msg.todo, first |-> f, ready |-> r]
    <3>1. msg = [at |-> "batch", todo |-> msg.todo, first |-> msg.first, ready |-> msg.ready]
      BY <1>1 DEF MessageOK
    <3> DEFINE t == msg.todo
               g == msg.first
               q == msg.ready
    <3>2. msg = [at |-> "batch", todo |-> t, first |-> g, ready |-> q]
      BY <3>1
    <3> HIDE DEF t, g, q
    <3>3. msg' = [at |-> "batch", todo |-> t, first |-> f, ready |-> r]
      BY <2>1, <3>2
    <3>. QED
      BY <3>3 DEF t
  <2>3. msg' # NoBatch
    BY <2>2, BatchIsNone
  <2>4. MessageOK'
    BY <1>1, <2>1, <2>2 DEF MessageOK
  <2>. QED
    BY <2>2, <2>3, <2>4 DEF f, r
<1>. QED
  BY <1>1, <1>3, <1>4 DEF TickFirst, MessageOK

LEMMA UndecodableEffect ==
  ASSUME TypeInv, Undecodable
  PROVE  /\ msg # NoBatch /\ MessageOK /\ msg' # NoBatch /\ MessageOK'
         /\ msg'.todo = <<>> /\ msg'.first = msg.first /\ msg'.ready = msg.ready
<1>1. msg # NoBatch /\ MessageOK /\ msg' = [msg EXCEPT !.todo = <<>>]
  BY DEF Undecodable, TypeInv
<1>2. msg' = [at |-> "batch", todo |-> <<>>, first |-> msg.first, ready |-> msg.ready]
  BY <1>1 DEF MessageOK
<1>3. msg' # NoBatch
  BY <1>2, BatchIsNone
<1>4. MessageOK'
  BY <1>1, <1>2 DEF MessageOK
<1>. QED
  BY <1>1, <1>2, <1>3, <1>4

LEMMA ConfigType ==
  ASSUME TypeInv, NEW q \in Plugins, Config(q)
  PROVE  TypeInv'
<1>1. Idle /\ Resolves(q) /\ UNCHANGED <<msg, points, passed>>
  BY ConfigEffect
<1>2. CASE Rebuilt(q)
  BY <1>1, <1>2, NewWindowOK DEF Rebuilt, Installed, TypeInv, ConfigOK, Idle
<1>3. CASE Updated(q)
  BY <1>1, <1>3 DEF Updated, Installed, TypeInv, ConfigOK, WindowOK, window, windowVars, Idle
<1>4. CASE NotRebuilt
  BY <1>1, <1>4, DrainEffect DEF NotRebuilt, TypeInv, ConfigOK, Idle
<1>. QED
  BY <1>2, <1>3, <1>4, ConfigEffect

LEMMA TypeStep == TypeInv /\ [Next]_vars => TypeInv'
<1>1. SUFFICES ASSUME TypeInv, [Next]_vars PROVE TypeInv'
  OBVIOUS
<1>2. ASSUME NEW b \in Batches, Receive(b) PROVE TypeInv'
  BY <1>1, <1>2, ReceiveType
<1>3. CASE TickFirst
  <2>1. Greater(passed, Point.obs.ts) \in Nat
    BY <1>1, <1>3, TickFirstEffect, InputFields, ClockTypes
  <2>. QED
    BY <1>1, <1>3, <2>1, TickFirstEffect DEF TypeInv, ConfigOK, setup
<1>4. CASE ObserveScalar \/ ObserveEnvelope
  <2>1. /\ Point \in Input /\ msg' # NoBatch /\ msg # NoBatch /\ MessageOK'
        /\ UNCHANGED <<setup, stopped, points>>
        /\ ObservesPoint \/ UNCHANGED window
    BY <1>1, <1>4, ObserveEffect
  <2>2. WindowOK'
    <3>1. CASE UNCHANGED window
      BY <1>1, <3>1 DEF TypeInv, WindowOK, window, windowVars
    <3>2. CASE ObservesPoint
      <4>1. PICK k : Takes(k, Point)
        BY <3>2 DEF ObservesPoint
      <4>2. \A j \in DOMAIN series' : EntryOK(series'[j])
        BY <1>1, <4>1 DEF Takes, TypeInv, WindowOK
      <4>3. activeStart' \in Nat /\ activeEnd' \in Nat /\ initialized' \in BOOLEAN
        <5>1. Bucket(Point.obs.ts, running.size) \in Nat /\ running.size \in Nat
          BY <1>1, <2>1, InputFields, BucketFacts, RunningFields
        <5>. QED
          BY <1>1, <5>1, <3>2
             DEF ObservesPoint, InitWindow, OpenStart, OpenEnd, TypeInv, WindowOK
      <4>. QED
        BY <4>2, <4>3 DEF WindowOK
    <3>. QED
      BY <2>1, <3>1, <3>2
  <2>3. passed' \in Nat
    BY <1>1, <1>4, <2>1, InputFields, ClockTypes DEF ObserveScalar, ObserveEnvelope, TypeInv
  <2>4. orderly' \in BOOLEAN
    BY <1>1, <1>4 DEF ObserveScalar, ObserveEnvelope, TypeInv
  <2>. QED
    BY <1>1, <2>1, <2>2, <2>3, <2>4 DEF TypeInv, ConfigOK, setup
<1>5. CASE Undecodable
  BY <1>1, <1>5, UndecodableEffect
     DEF Undecodable, TypeInv, ConfigOK, WindowOK, setup, window, windowVars
<1>6. CASE Finish
  BY <1>1, <1>6, EmitShares DEF Finish, TypeInv, ConfigOK, WindowOK, setup, window, windowVars
<1>7. ASSUME NEW now \in Times, TimerTick(now) PROVE TypeInv'
  <2>1. now \in Nat /\ IdleTime(now) \in Nat /\ Greater(passed, Minus(now, Grace)) \in Nat
    BY <1>1, ConstantsAssumption, ClockTypes
  <2>. QED
    BY <1>1, <1>7, <2>1, TickEffect, EmitShares DEF TimerTick, TypeInv, ConfigOK, setup, Idle
<1>8. CASE Shutdown
  <2>1. orderly' \in BOOLEAN
    BY <1>8 DEF Shutdown
  <2>. QED
    BY <1>1, <1>8, <2>1, DrainEffect, EmitShares DEF Shutdown, TypeInv, ConfigOK, Idle
<1>9. CASE OtherControl
  BY <1>1, <1>9 DEF OtherControl, TypeInv, ConfigOK, WindowOK, MessageOK, window, windowVars, history
<1>10. ASSUME NEW q \in Plugins, Config(q) PROVE TypeInv'
  BY <1>1, <1>10, ConfigType
<1>11. CASE UNCHANGED vars
  BY <1>1, <1>11
     DEF vars, TypeInv, ConfigOK, WindowOK, MessageOK, window, windowVars, setup, history
<1>. QED
  BY <1>1, <1>2, <1>3, <1>4, <1>5, <1>6, <1>7, <1>8, <1>9, <1>10, <1>11 DEF Next, BatchStep

-----------------------------------------------------------------------------
(* The precompute runs as configured.                                      *)

OneType(envelopes) == \A e \in envelopes : e.type = e.made.type

\* Whatever has stopped the processor, it is RunsAsConfigured until then; type and
\* factory change together, so that no window is closed with one of each.
SetupInv ==
  /\ ~stopped => /\ running = Resolve(plugin) /\ built = Factory(plugin)
                 /\ period = TimerPeriod(plugin)
  /\ running.type = built.type
  /\ OneType(out)
  /\ msg # NoBatch => OneType(msg.ready)

LEMMA ClosedFields ==
  ASSUME NEW e \in Closed
  PROVE  /\ e.type = running.type /\ e.made = built /\ e.range = ActiveRange
         /\ \E k \in DOMAIN series : e.sketch = series[k].sketch
  BY DEF Closed, ActiveEntries

LEMMA ClosedOneType == SetupInv => OneType(Closed) /\ OneType({})
  BY ClosedFields DEF SetupInv, OneType

LEMMA SharesOneType ==
  ASSUME NEW closing, OneType(out), OneType(closing), Shares(closing)
  PROVE  OneType(out')
  BY DEF Shares, OneType

\* What need not be rebuilt is what q describes already.
LEMMA SameFactory ==
  ASSUME NEW p, NEW q, ~RequiresRebuild(p, q)
  PROVE  Factory(p) = Factory(q)
  BY DEF RequiresRebuild, Factory

LEMMA SetupConfig ==
  ASSUME SetupInv, NEW q, Config(q)
  PROVE  SetupInv'
<1>1. Idle /\ UNCHANGED msg /\ (Rebuilt(q) \/ Updated(q) \/ NotRebuilt)
  BY ConfigEffect
<1>2. OneType(Drained)
  BY ClosedOneType DEF Drained
<1>3. CASE Rebuilt(q)
  <2>1. OneType(out')
    BY <1>2, <1>3, SharesOneType DEF Rebuilt, SetupInv
  <2>2. running'.type = built'.type
    BY <1>3 DEF Rebuilt, Resolve, Factory
  <2>. QED
    BY <1>1, <1>3, <2>1, <2>2 DEF Rebuilt, Installed, SetupInv, Idle
<1>4. CASE Updated(q)
  <2>1. built = Factory(q)
    BY <1>1, <1>4, SameFactory DEF Updated, SetupInv, Idle
  <2>2. running'.type = built'.type
    BY <1>4, <2>1 DEF Updated, Resolve, Factory
  <2>. QED
    BY <1>1, <1>4, <2>1, <2>2 DEF Updated, Installed, SetupInv, Idle
<1>5. CASE NotRebuilt
  <2>1. OneType(out')
    BY <1>2, <1>5, SharesOneType DEF NotRebuilt, SetupInv
  <2>. QED
    BY <1>1, <1>5, <2>1 DEF NotRebuilt, SetupInv, Idle
<1>. QED
  BY <1>1, <1>3, <1>4, <1>5

LEMMA SetupStep == TypeInv /\ SetupInv /\ [Next]_vars => SetupInv'
<1>1. SUFFICES ASSUME TypeInv, SetupInv, [Next]_vars PROVE SetupInv'
  OBVIOUS
<1>2. OneType(Closed) /\ OneType({})
  BY <1>1, ClosedOneType
<1>3. ASSUME NEW b \in Batches, Receive(b) PROVE SetupInv'
  <2>1. msg' # NoBatch => OneType(msg'.ready)
    <3>1. CASE msg' = [at |-> "batch", todo |-> Inputs(b), first |-> {}, ready |-> {}]
      BY <1>2, <3>1
    <3>2. CASE UNCHANGED msg
      BY <1>1, <3>2 DEF SetupInv
    <3>. QED
      BY <1>3, <3>1, <3>2 DEF Receive
  <2>2. Idle /\ UNCHANGED <<plugin, running, built, period, out>>
    BY <1>3 DEF Receive
  <2>. QED
    BY <1>1, <2>1, <2>2 DEF SetupInv, Idle
<1>4. CASE TickFirst
  <2>1. OneType(Ticked(Point.obs.ts))
    BY <1>2 DEF Ticked
  <2>. QED
    BY <1>1, <1>4, <2>1, TickFirstEffect DEF SetupInv, setup
<1>5. CASE ObserveScalar \/ ObserveEnvelope
  BY <1>1, <1>5, ObserveEffect DEF SetupInv, setup
<1>6. CASE Undecodable
  BY <1>1, <1>6, UndecodableEffect DEF Undecodable, SetupInv, setup
<1>7. CASE Finish
  <2>1. msg # NoBatch /\ Shares(msg.ready) /\ (stopped' = stopped \/ stopped' = TRUE)
    BY <1>7, EmitShares DEF Finish
  <2>2. OneType(out')
    BY <1>1, <2>1, SharesOneType DEF SetupInv
  <2>. QED
    BY <1>1, <1>7, <2>1, <2>2 DEF Finish, SetupInv, setup
<1>8. ASSUME NEW now \in Times, TimerTick(now) PROVE SetupInv'
  <2>1. Shares(Ticked(IdleTime(now))) /\ (stopped' = stopped \/ stopped' = TRUE)
    BY <1>8, EmitShares DEF TimerTick
  <2>2. OneType(Ticked(IdleTime(now)))
    BY <1>2 DEF Ticked
  <2>3. OneType(out')
    BY <1>1, <2>1, <2>2, SharesOneType DEF SetupInv
  <2>. QED
    BY <1>1, <1>8, <2>1, <2>3 DEF TimerTick, SetupInv, setup
<1>9. CASE Shutdown
  <2>1. Shares(Drained) /\ (stopped' = stopped \/ stopped' = TRUE)
    BY <1>9, EmitShares DEF Shutdown
  <2>2. OneType(Drained)
    BY <1>2 DEF Drained
  <2>3. OneType(out')
    BY <1>1, <2>1, <2>2, SharesOneType DEF SetupInv
  <2>. QED
    BY <1>1, <1>9, <2>1, <2>3 DEF Shutdown, SetupInv
<1>10. CASE OtherControl
  BY <1>1, <1>10 DEF OtherControl, SetupInv, history
<1>11. ASSUME NEW q \in Plugins, Config(q) PROVE SetupInv'
  BY <1>1, <1>11, SetupConfig
<1>12. CASE UNCHANGED vars
  BY <1>1, <1>12 DEF vars, SetupInv, setup, history
<1>. QED
  BY <1>1, <1>3, <1>4, <1>5, <1>6, <1>7, <1>8, <1>9, <1>10, <1>11, <1>12 DEF Next, BatchStep

LEMMA SetupInit == Init => SetupInv
  BY DEF Init, SetupInv, OneType, Resolve, Factory

LEMMA SetupAlways == Spec => [](TypeInv /\ SetupInv)
<1>1. Init => TypeInv /\ SetupInv
  BY TypeInit, SetupInit
<1>2. TypeInv /\ SetupInv /\ [Next]_vars => (TypeInv /\ SetupInv)'
  BY TypeStep, SetupStep
<1>. QED
  BY <1>1, <1>2, PTL DEF Spec

\* Whatever configurations are pushed, in whatever order, and whatever fails: the
\* precompute between two messages is what the last one installed describes,
\* its sketch factory and default key included, and its timer has that one's
\* period; and no sketch of one type leaves in an envelope of another.
THEOREM AsConfigured == Spec => []RunsAsConfigured
<1>1. TypeInv /\ SetupInv => RunsAsConfigured
  BY DEF SetupInv, RunsAsConfigured, OneType, Idle
<1>. QED
  BY <1>1, SetupAlways, PTL

-----------------------------------------------------------------------------
(* Scalars leave in their own window.                                      *)

Within(sketch, range) ==
  \A in \in sketch : in.obs.kind = "scalar" => range[1] <= in.obs.ts /\ in.obs.ts < range[2]

AllWithin(envelopes) == \A e \in envelopes : Within(e.sketch, e.range)

\* An open window is a bucket that begins at a time passed, and holds its scalars.
Aligned ==
  /\ initialized => /\ \E q \in Nat : activeStart = q * running.size
                    /\ activeEnd = activeStart + running.size
                    /\ activeStart <= passed
  /\ \A k \in DOMAIN series : Within(series[k].sketch, ActiveRange)

\* The first time of a batch is passed, and its window is open unless the scalar
\* it was read from is still to be observed.
FirstOK ==
  /\ \A t \in msg.first : t <= passed
  /\ msg.first # {} /\ ~initialized /\ msg.todo # <<>>
       => Point.obs.kind = "scalar" /\ Point.obs.ts \in msg.first
  /\ initialized /\ orderly => \A t \in msg.first : t < activeEnd

OwnInv ==
  /\ ~initialized => DOMAIN series = {}
  /\ msg # NoBatch => FirstOK
  /\ orderly => /\ AllWithin(out)
                /\ msg # NoBatch => AllWithin(msg.ready)
                /\ ~stopped => Aligned

LEMMA ClosedWithin == Aligned => AllWithin(Closed) /\ AllWithin({})
<1>1. SUFFICES ASSUME Aligned, NEW e \in Closed PROVE Within(e.sketch, e.range)
  BY DEF AllWithin
<1>. QED
  BY <1>1, ClosedFields DEF Aligned

LEMMA SharesWithin ==
  ASSUME NEW closing, AllWithin(out), AllWithin(closing), Shares(closing)
  PROVE  AllWithin(out')
  BY DEF Shares, AllWithin

LEMMA RangeFields == ActiveRange[1] = activeStart /\ ActiveRange[2] = activeEnd
  BY DEF ActiveRange

\* The window that follows is a bucket too, and begins by the time that closed it.
LEMMA MovesAligned ==
  ASSUME TypeInv, Aligned, NEW now \in Nat, Moves(now), now >= activeEnd,
         running' = running, passed' = Greater(passed, now)
  PROVE  Aligned' /\ now < activeEnd'
<1> DEFINE s == running.size
<1>1. s \in Nat /\ s > 0 /\ activeStart \in Nat /\ activeEnd \in Nat /\ passed \in Nat
  BY RunningFields DEF TypeInv, WindowOK
<1>2. /\ Bucket(now, s) \in Nat /\ Bucket(now, s) <= now /\ now < Bucket(now, s) + s
      /\ \E q \in Nat : Bucket(now, s) = q * s
  BY <1>1, BucketFacts
<1>3. activeEnd = activeStart + s
  BY DEF Moves, Aligned
<1>4. ~(Bucket(now, s) <= activeStart)
  BY <1>1, <1>2, <1>3
<1>5. activeStart' = Bucket(now, s) /\ activeEnd' = Bucket(now, s) + s
  BY <1>4 DEF Moves, NextStart
<1>6. now <= passed'
  BY <1>1 DEF Greater
<1>7. DOMAIN series' = {}
  BY DEF Moves
<1>8. activeStart' <= passed' /\ activeEnd' = activeStart' + s
  <2>1. passed' \in Nat
    BY <1>1 DEF Greater
  <2>. QED
    BY <1>2, <1>5, <1>6, <2>1
<1>. QED
  BY <1>2, <1>5, <1>7, <1>8 DEF Aligned

LEMMA PassedGrows ==
  ASSUME TypeInv, NEW t \in Nat
  PROVE  Greater(passed, t) \in Nat /\ passed <= Greater(passed, t) /\ t <= Greater(passed, t)
  BY DEF TypeInv, Greater

\* A tick at a time, whatever it is read from.
LEMMA TickAligned ==
  ASSUME TypeInv, Aligned, NEW now \in Nat, TickWindow(now),
         running' = running, passed' = Greater(passed, now)
  PROVE  /\ Aligned' /\ AllWithin(Ticked(now))
         /\ initialized' => now < activeEnd'
<1>1. CASE Moves(now) /\ now >= activeEnd /\ Ticked(now) = Closed
  BY <1>1, MovesAligned, ClosedWithin
<1>2. CASE UNCHANGED window /\ Ticked(now) = {} /\ (initialized => now < activeEnd)
  <2>1. passed \in Nat /\ activeStart \in Nat /\ passed <= passed' /\ passed' \in Nat
    BY PassedGrows DEF TypeInv, WindowOK
  <2>. QED
    BY <1>2, <2>1, ClosedWithin DEF Aligned, ActiveRange, window, windowVars
<1>. QED
  BY <1>1, <1>2, TickEffect

\* Whether the window is open and whether it is empty, over a tick.
LEMMA TickInitialized ==
  ASSUME TypeInv, OwnInv, NEW now \in Nat, TickWindow(now)
  PROVE  initialized' = initialized /\ (~initialized' => DOMAIN series' = {})
  BY TickEffect DEF OwnInv, Moves, window, windowVars

\* A scalar in order is in the window that is open, or opens it.
LEMMA OpensOwn ==
  ASSUME TypeInv, Aligned, FirstOK, orderly, MessageOK, msg.first # {}, msg.todo # <<>>,
         Point \in Input, InOrder(Point), InitWindow(Point.obs.ts, running),
         running' = running, passed' = passed
  PROVE  /\ activeStart' <= Point.obs.ts /\ Point.obs.ts < activeEnd'
         /\ \E q \in Nat : activeStart' = q * running.size
         /\ activeEnd' = activeStart' + running.size
         /\ activeStart' <= passed
         /\ \A t \in msg.first : t < activeEnd'
<1> DEFINE s == running.size
           ts == Point.obs.ts
<1>1. s \in Nat /\ s > 0 /\ activeStart \in Nat /\ activeEnd \in Nat /\ passed \in Nat /\ ts \in Nat
  BY RunningFields, InputFields DEF TypeInv, WindowOK
<1>2. /\ Bucket(ts, s) \in Nat /\ Bucket(ts, s) <= ts /\ ts < Bucket(ts, s) + s
      /\ \E q \in Nat : Bucket(ts, s) = q * s
  BY <1>1, BucketFacts
<1>3. \A t \in msg.first : t \in Nat /\ Bucket(t, s) = Bucket(ts, s) /\ t < Bucket(ts, s) + s
  <2>1. SUFFICES ASSUME NEW t \in msg.first
                 PROVE  t \in Nat /\ Bucket(t, s) = Bucket(ts, s) /\ t < Bucket(ts, s) + s
    OBVIOUS
  <2>2. t \in Nat /\ Bucket(ts, s) = Bucket(t, s)
    BY <2>1 DEF MessageOK, InOrder
  <2>. QED
    BY <1>1, <2>2, BucketFacts
<1>4. Bucket(ts, s) + s > passed
  BY DEF InOrder
<1>5. CASE ~initialized
  <2>1. activeStart' = Bucket(ts, s) /\ activeEnd' = Bucket(ts, s) + s
    BY <1>5 DEF InitWindow, OpenStart, OpenEnd
  <2>2. ts <= passed
    BY <1>5 DEF FirstOK
  <2> HIDE DEF s, ts
  <2>3. activeStart' <= passed
    BY <1>1, <1>2, <2>1, <2>2
  <2>. QED
    BY <1>1, <1>2, <1>3, <2>1, <2>3 DEF s, ts
<1>6. CASE initialized
  <2>1. activeStart' = activeStart /\ activeEnd' = activeEnd
    BY <1>6 DEF InitWindow, OpenStart, OpenEnd
  <2>2. PICK q \in Nat : activeStart = q * s
    BY <1>6 DEF Aligned
  <2>3. activeEnd = activeStart + s /\ activeStart <= passed
    BY <1>6 DEF Aligned
  <2>4. PICK t \in msg.first : t < activeEnd
    BY <1>6 DEF FirstOK
  <2>5. PICK p \in Nat : Bucket(ts, s) = p * s
    BY <1>2
  <2>6. Bucket(ts, s) < activeStart + s
    <3>1. t \in Nat /\ Bucket(t, s) = Bucket(ts, s) /\ Bucket(t, s) <= t
      BY <1>1, <1>3, BucketFacts
    <3> HIDE DEF s, ts
    <3>. QED
      BY <1>1, <1>2, <2>3, <2>4, <3>1
  <2>7. activeStart < Bucket(ts, s) + s
    <3> HIDE DEF s, ts
    <3>. QED
      BY <1>1, <1>2, <1>4, <2>3
  <2>8. p = q
    <3> HIDE DEF s, ts
    <3>. QED
      BY <1>1, <2>2, <2>5, <2>6, <2>7, MultiplesMeet
  <2>9. activeStart = Bucket(ts, s)
    BY <2>2, <2>5, <2>8
  <2>. QED
    BY <1>2, <1>3, <2>1, <2>2, <2>3, <2>9
<1>. QED
  BY <1>5, <1>6

LEMMA OwnTickFirst ==
  ASSUME TypeInv, OwnInv, TickFirst
  PROVE  OwnInv'
<1> DEFINE ts == Point.obs.ts
<1>1. /\ msg # NoBatch /\ msg.todo # <<>> /\ ts \in Nat /\ Point.obs.kind = "scalar"
      /\ TickWindow(ts) /\ ~stopped
      /\ msg' # NoBatch /\ msg'.todo = msg.todo /\ msg'.first = {ts} /\ msg'.ready = Ticked(ts)
      /\ passed' = Greater(passed, ts)
      /\ UNCHANGED <<setup, stopped, out, orderly>>
  BY TickFirstEffect, InputFields DEF TypeInv
<1>2. Point' = Point
  BY <1>1 DEF Point
<1>3. ts <= passed'
  BY <1>1, PassedGrows
<1>4. initialized' = initialized /\ (~initialized' => DOMAIN series' = {})
  BY <1>1, TickInitialized
<1>5. CASE orderly
  <2>1. Aligned' /\ AllWithin(Ticked(ts)) /\ (initialized' => ts < activeEnd')
    BY <1>1, <1>5, TickAligned DEF OwnInv, setup
  <2>2. FirstOK'
    BY <1>1, <1>2, <1>3, <2>1 DEF FirstOK
  <2>. QED
    BY <1>1, <1>4, <1>5, <2>1, <2>2 DEF OwnInv
<1>6. CASE ~orderly
  <2>1. FirstOK'
    BY <1>1, <1>2, <1>3, <1>6 DEF FirstOK
  <2>. QED
    BY <1>1, <1>4, <1>6, <2>1 DEF OwnInv
<1>. QED
  BY <1>5, <1>6

\* Aligned once a point has been taken, if the window it is in or opens is aligned.
LEMMA TakesAligned ==
  ASSUME TypeInv, OwnInv, Aligned, NEW k, Takes(k, Point), running' = running,
         \E q \in Nat : activeStart' = q * running.size,
         activeEnd' = activeStart' + running.size, activeStart' <= passed',
         Point.obs.kind = "scalar" => activeStart' <= Point.obs.ts /\ Point.obs.ts < activeEnd',
         initialized => activeStart' = activeStart /\ activeEnd' = activeEnd
  PROVE  Aligned'
<1>1. ASSUME NEW j \in DOMAIN series, NEW in \in series[j].sketch, in.obs.kind = "scalar"
      PROVE  activeStart' <= in.obs.ts /\ in.obs.ts < activeEnd'
  <2>1. initialized
    BY <1>1 DEF OwnInv
  <2>2. activeStart <= in.obs.ts /\ in.obs.ts < activeEnd
    BY <1>1, RangeFields DEF Aligned, Within
  <2>. QED
    BY <2>1, <2>2
<1>2. ASSUME NEW j \in DOMAIN series', NEW in \in series'[j].sketch, in.obs.kind = "scalar"
      PROVE  activeStart' <= in.obs.ts /\ in.obs.ts < activeEnd'
  <2>1. in = Point \/ (j \in DOMAIN series /\ in \in series[j].sketch)
    BY <1>2 DEF Takes, SketchOf
  <2>. QED
    BY <1>1, <1>2, <2>1
<1>3. ActiveRange'[1] = activeStart' /\ ActiveRange'[2] = activeEnd'
  BY DEF ActiveRange
<1>4. \A j \in DOMAIN series' : Within(series'[j].sketch, ActiveRange')
  BY <1>2, <1>3 DEF Within
<1>. QED
  BY <1>4 DEF Aligned

LEMMA OwnScalar ==
  ASSUME TypeInv, OwnInv, ObserveScalar
  PROVE  OwnInv'
<1>1. /\ msg # NoBatch /\ MessageOK /\ msg.todo # <<>> /\ Point \in Input /\ msg' # NoBatch
      /\ msg'.first = msg.first /\ msg'.ready = msg.ready /\ msg.first # {}
      /\ Point.obs.kind = "scalar" /\ ObservesPoint /\ ~stopped
      /\ orderly' = (orderly /\ InOrder(Point))
      /\ UNCHANGED <<setup, stopped, out, passed>>
  BY ObserveEffect DEF ObserveScalar, TypeInv
<1>2. initialized' = TRUE
  BY <1>1 DEF ObservesPoint, InitWindow
<1>3. CASE orderly /\ InOrder(Point)
  <2>1. Aligned /\ FirstOK /\ running' = running /\ passed' = passed
    BY <1>1, <1>3 DEF OwnInv, setup
  <2>2. /\ activeStart' <= Point.obs.ts /\ Point.obs.ts < activeEnd'
        /\ \E q \in Nat : activeStart' = q * running.size
        /\ activeEnd' = activeStart' + running.size
        /\ activeStart' <= passed
        /\ \A t \in msg.first : t < activeEnd'
    BY <1>1, <1>3, <2>1, OpensOwn DEF ObservesPoint
  <2>3. initialized => activeStart' = activeStart /\ activeEnd' = activeEnd
    BY <1>1 DEF ObservesPoint, InitWindow, OpenStart, OpenEnd
  <2>4. Aligned'
    <3>1. PICK k : Takes(k, Point)
      BY <1>1 DEF ObservesPoint
    <3>. QED
      BY <2>1, <2>2, <2>3, <3>1, TakesAligned
  <2>5. FirstOK'
    BY <1>1, <1>2, <2>1, <2>2 DEF FirstOK
  <2>. QED
    BY <1>1, <1>2, <1>3, <2>4, <2>5 DEF OwnInv
<1>4. CASE ~(orderly /\ InOrder(Point))
  <2>1. ~orderly'
    BY <1>1, <1>4
  <2>2. FirstOK'
    BY <1>1, <1>2, <2>1 DEF FirstOK, OwnInv
  <2>. QED
    BY <1>2, <2>1, <2>2 DEF OwnInv
<1>. QED
  BY <1>3, <1>4

LEMMA OwnEnvelope ==
  ASSUME TypeInv, OwnInv, ObserveEnvelope
  PROVE  OwnInv'
<1> DEFINE s == running.size
           ts == Point.obs.ts
<1>1. /\ msg # NoBatch /\ MessageOK /\ msg.todo # <<>> /\ Point \in Input /\ msg' # NoBatch
      /\ msg'.first = msg.first /\ msg'.ready = msg.ready
      /\ Point.obs.kind = "envelope" /\ (ObservesPoint \/ UNCHANGED window)
      /\ passed' = IF initialized THEN passed ELSE Greater(passed, ts)
      /\ UNCHANGED <<setup, stopped, out, orderly>> /\ ~stopped
  BY ObserveEffect DEF ObserveEnvelope, TypeInv
<1>2. /\ passed \in Nat /\ ts \in Nat /\ passed' \in Nat /\ passed <= passed'
      /\ s \in Nat /\ s > 0 /\ activeStart \in Nat /\ activeEnd \in Nat
      /\ ~initialized => ts <= passed'
  <2>1. /\ passed \in Nat /\ ts \in Nat
        /\ s \in Nat /\ s > 0 /\ activeStart \in Nat /\ activeEnd \in Nat
    BY <1>1, InputFields, RunningFields DEF TypeInv, WindowOK
  <2>2. Greater(passed, ts) \in Nat /\ passed <= Greater(passed, ts) /\ ts <= Greater(passed, ts)
    BY <2>1, PassedGrows
  <2> HIDE DEF s, ts
  <2>. QED
    BY <1>1, <2>1, <2>2
<1>3. msg.first = {} \/ initialized
  BY <1>1 DEF OwnInv, FirstOK
<1>4. \A t \in msg.first : t \in Nat /\ t <= passed'
  <2> HIDE DEF s, ts
  <2>1. \A t \in msg.first : t \in Nat /\ t <= passed
    BY <1>1 DEF MessageOK, OwnInv, FirstOK
  <2>. QED
    BY <1>2, <2>1
<1>5. CASE UNCHANGED window
  <2>1. FirstOK'
    BY <1>1, <1>3, <1>4, <1>5 DEF OwnInv, FirstOK, window, windowVars
  <2>2. orderly => Aligned'
    <3>1. activeStart <= passed => activeStart <= passed'
      <4> HIDE DEF s, ts
      <4>. QED BY <1>2
    <3>. QED
      BY <1>1, <1>5, <3>1 DEF OwnInv, Aligned, ActiveRange, window, windowVars, setup
  <2>. QED
    BY <1>1, <1>5, <2>1, <2>2 DEF OwnInv, window, windowVars
<1>6. CASE ObservesPoint
  <2>1. /\ initialized' = TRUE
        /\ activeStart' = OpenStart(ts, running) /\ activeEnd' = OpenEnd(ts, running)
    BY <1>6 DEF ObservesPoint, InitWindow
  <2>2. initialized => activeStart' = activeStart /\ activeEnd' = activeEnd
    BY <2>1 DEF OpenStart, OpenEnd
  <2>3. FirstOK'
    BY <1>1, <1>3, <1>4, <2>1, <2>2 DEF OwnInv, FirstOK
  <2>4. ASSUME orderly PROVE Aligned'
    <3>1. Aligned
      BY <1>1, <2>4 DEF OwnInv
    <3>2. /\ \E q \in Nat : activeStart' = q * s
          /\ activeEnd' = activeStart' + s /\ activeStart' <= passed'
      <4>1. CASE initialized
        <5>1. \E q \in Nat : activeStart = q * s
          BY <3>1, <4>1 DEF Aligned
        <5>2. activeEnd = activeStart + s /\ activeStart <= passed
          BY <3>1, <4>1 DEF Aligned
        <5> HIDE DEF s, ts
        <5>. QED
          BY <1>2, <2>2, <4>1, <5>1, <5>2
      <4>2. CASE ~initialized
        <5>1. activeStart' = Bucket(ts, s) /\ activeEnd' = Bucket(ts, s) + s
          BY <2>1, <4>2 DEF OpenStart, OpenEnd
        <5> HIDE DEF s, ts
        <5>2. /\ Bucket(ts, s) \in Nat /\ Bucket(ts, s) <= ts
              /\ \E q \in Nat : Bucket(ts, s) = q * s
          BY <1>2, BucketFacts
        <5>. QED
          BY <1>2, <4>2, <5>1, <5>2
      <4>. QED
        BY <4>1, <4>2
    <3>3. PICK k : Takes(k, Point)
      BY <1>6 DEF ObservesPoint
    <3>4. Point.obs.kind # "scalar" /\ running' = running
      BY <1>1 DEF setup
    <3>. QED
      BY <2>2, <3>1, <3>2, <3>3, <3>4, TakesAligned
  <2>. QED
    BY <1>1, <2>1, <2>3, <2>4 DEF OwnInv
<1>. QED
  BY <1>1, <1>5, <1>6

LEMMA OwnTimer ==
  ASSUME TypeInv, OwnInv, NEW now \in Times, TimerTick(now)
  PROVE  OwnInv'
<1> DEFINE t == IdleTime(now)
<1>1. /\ msg = NoBatch /\ msg' = msg /\ ~stopped /\ t \in Nat
      /\ TickWindow(t) /\ Shares(Ticked(t)) /\ passed' = Greater(passed, t)
      /\ UNCHANGED <<setup, orderly>>
  BY ConstantsAssumption, ClockTypes, EmitShares DEF TimerTick, IdleTime, Idle
<1>2. initialized' = initialized /\ (~initialized' => DOMAIN series' = {})
  BY <1>1, TickInitialized
<1>3. ASSUME orderly PROVE Aligned' /\ AllWithin(out')
  <2>1. Aligned /\ AllWithin(out) /\ running' = running
    BY <1>1, <1>3 DEF OwnInv, setup
  <2>2. Aligned' /\ AllWithin(Ticked(t))
    BY <1>1, <2>1, TickAligned
  <2>. QED
    BY <1>1, <2>1, <2>2, SharesWithin
<1>. QED
  BY <1>1, <1>2, <1>3 DEF OwnInv

\* What a drain hands over is in its own window, whatever follows.
LEMMA DrainedWithin ==
  ASSUME OwnInv, Idle, orderly, Shares(Drained)
  PROVE  AllWithin(out')
<1>1. Aligned /\ AllWithin(out)
  BY DEF OwnInv, Idle
<1>2. AllWithin(Drained)
  BY <1>1, ClosedWithin DEF Drained
<1>. QED
  BY <1>1, <1>2, SharesWithin

LEMMA DrainInitialized ==
  ASSUME TypeInv, OwnInv, DrainWindow
  PROVE  ~initialized' => DOMAIN series' = {}
  BY DrainEffect DEF OwnInv, Moves, window, windowVars

LEMMA OwnConfig ==
  ASSUME TypeInv, SetupInv, OwnInv, NEW q \in Plugins, Config(q)
  PROVE  OwnInv'
<1>1. /\ Idle /\ msg = NoBatch /\ msg' = msg /\ passed' = passed
      /\ Rebuilt(q) \/ Updated(q) \/ NotRebuilt
  BY ConfigEffect DEF Idle
<1>2. CASE Rebuilt(q)
  <2>1. initialized' = FALSE /\ DOMAIN series' = {} /\ orderly' = orderly
    BY <1>2 DEF Rebuilt, NewWindow
  <2>2. orderly => AllWithin(out')
    BY <1>1, <1>2, DrainedWithin DEF Rebuilt
  <2>3. Aligned'
    BY <2>1 DEF Aligned
  <2>. QED
    BY <1>1, <2>1, <2>2, <2>3 DEF OwnInv
<1>3. CASE Updated(q)
  <2>1. UNCHANGED <<window, out>> /\ orderly' = (orderly /\ q.size = plugin.size)
    BY <1>3 DEF Updated
  <2>2. ASSUME orderly' PROVE Aligned'
    <3>1. running'.size = running.size
      <4>1. orderly /\ q.size = plugin.size
        BY <2>1, <2>2
      <4>2. running' = Resolve(q) /\ running = Resolve(plugin)
        BY <1>1, <1>3 DEF Updated, SetupInv, Idle
      <4>. QED
        BY <4>1, <4>2 DEF Resolve
    <3>2. Aligned
      BY <1>1, <2>1, <2>2 DEF OwnInv, Idle
    <3>. QED
      BY <1>1, <2>1, <3>1, <3>2 DEF Aligned, ActiveRange, window, windowVars
  <2>. QED
    BY <1>1, <2>1, <2>2 DEF OwnInv, window, windowVars
<1>4. CASE NotRebuilt
  <2>1. stopped' = TRUE /\ orderly' = orderly
    BY <1>4 DEF NotRebuilt
  <2>2. orderly => AllWithin(out')
    BY <1>1, <1>4, DrainedWithin DEF NotRebuilt
  <2>3. ~initialized' => DOMAIN series' = {}
    BY <1>4, DrainInitialized DEF NotRebuilt
  <2>. QED
    BY <1>1, <2>1, <2>2, <2>3 DEF OwnInv
<1>. QED
  BY <1>1, <1>2, <1>3, <1>4

LEMMA OwnStep == TypeInv /\ SetupInv /\ OwnInv /\ [Next]_vars => OwnInv'
<1>1. SUFFICES ASSUME TypeInv, SetupInv, OwnInv, [Next]_vars PROVE OwnInv'
  OBVIOUS
<1>2. AllWithin({})
  BY DEF AllWithin
<1>3. ASSUME NEW b \in Batches, Receive(b) PROVE OwnInv'
  <2>1. UNCHANGED <<window, running, out, passed, orderly>> /\ Idle
    BY <1>3 DEF Receive
  <2>2. orderly /\ ~stopped' => Aligned'
    BY <1>1, <2>1 DEF OwnInv, Idle, Aligned, ActiveRange, window, windowVars
  <2>3. msg' # NoBatch => msg'.first = {} /\ msg'.ready = {}
    <3>1. CASE msg' = [at |-> "batch", todo |-> Inputs(b), first |-> {}, ready |-> {}]
      BY <3>1
    <3>2. CASE UNCHANGED msg
      BY <2>1, <3>2 DEF Idle
    <3>. QED
      BY <1>3, <3>1, <3>2 DEF Receive
  <2>4. msg' # NoBatch => FirstOK'
    BY <2>3 DEF FirstOK
  <2>. QED
    BY <1>1, <1>2, <2>1, <2>2, <2>3, <2>4 DEF OwnInv, window, windowVars
<1>4. CASE TickFirst
  BY <1>1, <1>4, OwnTickFirst
<1>5. CASE ObserveScalar
  BY <1>1, <1>5, OwnScalar
<1>6. CASE ObserveEnvelope
  BY <1>1, <1>6, OwnEnvelope
<1>7. CASE Undecodable
  <2>1. /\ msg # NoBatch /\ msg' # NoBatch
        /\ msg'.todo = <<>> /\ msg'.first = msg.first /\ msg'.ready = msg.ready
        /\ UNCHANGED <<window, running, stopped, out, passed, orderly>>
    BY <1>1, <1>7, UndecodableEffect DEF Undecodable, setup
  <2>2. FirstOK'
    BY <1>1, <2>1 DEF OwnInv, FirstOK, window, windowVars
  <2>3. orderly /\ ~stopped => Aligned'
    BY <1>1, <2>1 DEF OwnInv, Aligned, ActiveRange, window, windowVars
  <2>. QED
    BY <1>1, <2>1, <2>2, <2>3 DEF OwnInv, window, windowVars
<1>8. CASE Finish
  <2>1. /\ msg # NoBatch /\ msg' = NoBatch /\ Shares(msg.ready)
        /\ UNCHANGED <<window, running, passed, orderly>> /\ ~stopped
    BY <1>1, <1>8, EmitShares DEF Finish, setup, TypeInv
  <2>2. orderly => AllWithin(out')
    BY <1>1, <2>1, SharesWithin DEF OwnInv
  <2>3. orderly => Aligned'
    BY <1>1, <2>1 DEF OwnInv, Aligned, ActiveRange, window, windowVars
  <2>. QED
    BY <1>1, <2>1, <2>2, <2>3 DEF OwnInv, window, windowVars
<1>9. ASSUME NEW now \in Times, TimerTick(now) PROVE OwnInv'
  BY <1>1, <1>9, OwnTimer
<1>10. CASE Shutdown
  <2>1. /\ Idle /\ msg = NoBatch /\ msg' = msg /\ DrainWindow /\ Shares(Drained)
        /\ UNCHANGED <<running, passed>>
        /\ orderly' = (orderly /\ ~DrainDue)
    BY <1>10, EmitShares DEF Shutdown, Idle
  <2>2. orderly => AllWithin(out')
    BY <1>1, <2>1, DrainedWithin
  <2>3. ASSUME orderly' PROVE Aligned'
    <3>1. orderly /\ UNCHANGED window
      BY <2>1, <2>3 DEF DrainWindow
    <3>. QED
      BY <1>1, <2>1, <3>1 DEF OwnInv, Idle, Aligned, ActiveRange, window, windowVars
  <2>4. ~initialized' => DOMAIN series' = {}
    BY <1>1, <2>1, DrainInitialized
  <2>. QED
    BY <2>1, <2>2, <2>3, <2>4 DEF OwnInv
<1>11. CASE OtherControl
  <2>1. UNCHANGED <<window, running, msg, stopped, out, passed, orderly>> /\ msg = NoBatch
    BY <1>11 DEF OtherControl, history, Idle
  <2>. QED
    BY <1>1, <2>1 DEF OwnInv, Aligned, ActiveRange, window, windowVars
<1>12. ASSUME NEW q \in Plugins, Config(q) PROVE OwnInv'
  BY <1>1, <1>12, OwnConfig
<1>13. CASE UNCHANGED vars
  <2>1. UNCHANGED <<window, running, msg, stopped, out, passed, orderly>>
    BY <1>13 DEF vars, setup, history
  <2>2. Point' = Point
    BY <2>1 DEF Point
  <2>3. msg # NoBatch => FirstOK'
    BY <1>1, <2>1, <2>2 DEF OwnInv, FirstOK, window, windowVars
  <2>4. orderly /\ ~stopped => Aligned'
    BY <1>1, <2>1 DEF OwnInv, Aligned, ActiveRange, window, windowVars
  <2>. QED
    BY <1>1, <2>1, <2>3, <2>4 DEF OwnInv, window, windowVars
<1>. QED
  BY <1>1, <1>3, <1>4, <1>5, <1>6, <1>7, <1>8, <1>9, <1>10, <1>11, <1>12, <1>13
     DEF Next, BatchStep

LEMMA OwnInit == Init => OwnInv
<1>1. SUFFICES ASSUME Init PROVE OwnInv
  OBVIOUS
<1>2. DOMAIN series = {} /\ initialized = FALSE /\ msg = NoBatch /\ out = {}
  BY <1>1 DEF Init, WindowInit
<1>. QED
  BY <1>2 DEF OwnInv, Aligned, AllWithin

\* While points come window by window, every scalar leaves in the envelope of the
\* window its time is in, whatever window sizes and grace there are: the window
\* that is open never begins after the latest time one may have been closed for,
\* so that a batch behind it is told from one that is in it.
THEOREM InOwnWindow == Spec => []OwnWindow
<1>1. Init => TypeInv /\ SetupInv /\ OwnInv
  BY TypeInit, SetupInit, OwnInit
<1>2. TypeInv /\ SetupInv /\ OwnInv /\ [Next]_vars => (TypeInv /\ SetupInv /\ OwnInv)'
  BY TypeStep, SetupStep, OwnStep
<1>3. OwnInv => OwnWindow
  BY DEF OwnInv, AllWithin, Within, OwnWindow, Scalars
<1>. QED
  BY <1>1, <1>2, <1>3, PTL DEF Spec

-----------------------------------------------------------------------------
(* Every point is in one place.                                            *)

Parted(a, b, c, d, e, f) ==
  /\ a \cap b = {} /\ a \cap c = {} /\ a \cap d = {} /\ a \cap e = {} /\ a \cap f = {}
  /\ b \cap c = {} /\ b \cap d = {} /\ b \cap e = {} /\ b \cap f = {}
  /\ c \cap d = {} /\ c \cap e = {} /\ c \cap f = {}
  /\ d \cap e = {} /\ d \cap f = {}
  /\ e \cap f = {}

Apart(envelopes) == \A e, f \in envelopes : e # f => e.sketch \cap f.sketch = {}

SeriesApart ==
  \A j, k \in DOMAIN series : j # k => series[j].sketch \cap series[k].sketch = {}

\* No point is in the message twice.
Distinct(q) == \A i, j \in DOMAIN q : q[i] = q[j] => i = j

Everything == InMessage \cup InWindow \cup InReady \cup PointsOf(out) \cup refused \cup lost

Divided == Parted(InMessage, InWindow, InReady, PointsOf(out), refused, lost)

\* Accounted, with what keeps the points of a window, a message and a batch of
\* envelopes apart.
AcctInv ==
  /\ {in.id : in \in Everything} = 1..points
  /\ Divided
  /\ Apart(out)
  /\ SeriesApart
  /\ msg # NoBatch => Apart(msg.ready) /\ Distinct(msg.todo)

LEMMA NothingIn == PointsOf({}) = {} /\ Elements(<<>>) = {} /\ Apart({})
  BY DEF PointsOf, Elements, Apart

LEMMA PointsOfBoth ==
  ASSUME NEW a, NEW b
  PROVE  PointsOf(a \cup b) = PointsOf(a) \cup PointsOf(b)
  BY DEF PointsOf

LEMMA WindowPoints == InWindow = UNION {series[k].sketch : k \in DOMAIN series}
  BY DEF InWindow, PointsOf, ActiveEntries

LEMMA ClosedPoints ==
  ASSUME SeriesApart
  PROVE  PointsOf(Closed) = InWindow /\ Apart(Closed)
<1> DEFINE Env(k) == [range |-> ActiveRange, agg |-> running.agg, type |-> running.type,
                      made |-> built, sketch |-> series[k].sketch]
<1>1. Closed = {Env(k) : k \in {x \in DOMAIN series : series[x].sketch # {}}}
  BY DEF Closed, ActiveEntries
<1>2. \A k : Env(k).sketch = series[k].sketch
  OBVIOUS
<1> HIDE DEF Env
<1>3. Apart(Closed)
  BY <1>1, <1>2 DEF SeriesApart, Apart
<1>4. PointsOf(Closed) = InWindow
  BY <1>1, <1>2, WindowPoints DEF PointsOf
<1>. QED
  BY <1>3, <1>4

\* Sent and given up are two parts of what was closed.
LEMMA SharesSplit ==
  ASSUME NEW closing, Apart(closing), Apart(out), PointsOf(closing) \cap PointsOf(out) = {},
         Shares(closing)
  PROVE  /\ Apart(out')
         /\ \E s, t : /\ s \cup t = PointsOf(closing) /\ s \cap t = {}
                     /\ PointsOf(out') = PointsOf(out) \cup s /\ lost' = lost \cup t
<1>1. PICK sent \in SUBSET closing :
        out' = out \cup sent /\ lost' = lost \cup PointsOf(closing \ sent)
  BY DEF Shares
<1>2. PointsOf(out') = PointsOf(out) \cup PointsOf(sent)
  BY <1>1, PointsOfBoth
<1>3. PointsOf(sent) \cup PointsOf(closing \ sent) = PointsOf(closing)
  <2>1. sent \cup (closing \ sent) = closing
    BY <1>1
  <2>. QED
    BY <2>1, PointsOfBoth
<1>4. PointsOf(sent) \cap PointsOf(closing \ sent) = {}
  <2>1. \A e \in sent, f \in closing \ sent : e.sketch \cap f.sketch = {}
    BY <1>1 DEF Apart
  <2>. QED
    BY <2>1 DEF PointsOf
<1>5. Apart(out')
  <2>1. \A e \in out, f \in sent : e.sketch \cap f.sketch = {}
    BY <1>1 DEF PointsOf
  <2>. QED
    BY <1>1, <2>1 DEF Apart
<1>. QED
  BY <1>1, <1>2, <1>3, <1>4, <1>5

\* The moves a point makes, as facts about six sets.
LEMMA WindowSent ==
  ASSUME NEW a, NEW b, NEW c, NEW d, NEW e, NEW f, Parted(a, b, c, d, e, f),
         NEW s, NEW t, s \cup t = b, s \cap t = {}
  PROVE  /\ Parted(a, {}, c, d \cup s, e, f \cup t)
         /\ a \cup {} \cup c \cup (d \cup s) \cup e \cup (f \cup t)
            = a \cup b \cup c \cup d \cup e \cup f
  BY DEF Parted

LEMMA ReadySent ==
  ASSUME NEW a, NEW b, NEW c, NEW d, NEW e, NEW f, Parted(a, b, c, d, e, f), a = {},
         NEW s, NEW t, s \cup t = c, s \cap t = {}
  PROVE  /\ Parted(a, b, {}, d \cup s, e, f \cup t)
         /\ a \cup b \cup {} \cup (d \cup s) \cup e \cup (f \cup t)
            = a \cup b \cup c \cup d \cup e \cup f
  BY DEF Parted

LEMMA WindowReady ==
  ASSUME NEW a, NEW b, NEW c, NEW d, NEW e, NEW f, Parted(a, b, c, d, e, f), c = {}
  PROVE  /\ Parted(a, {}, b, d, e, f)
         /\ a \cup {} \cup b \cup d \cup e \cup f = a \cup b \cup c \cup d \cup e \cup f
  BY DEF Parted

LEMMA PointTaken ==
  ASSUME NEW a, NEW b, NEW c, NEW d, NEW e, NEW f, Parted(a, b, c, d, e, f), NEW p \in a
  PROVE  /\ Parted(a \ {p}, b \cup {p}, c, d, e, f)
         /\ (a \ {p}) \cup (b \cup {p}) \cup c \cup d \cup e \cup f
            = a \cup b \cup c \cup d \cup e \cup f
  BY DEF Parted

LEMMA PointRefused ==
  ASSUME NEW a, NEW b, NEW c, NEW d, NEW e, NEW f, Parted(a, b, c, d, e, f), NEW p \in a
  PROVE  /\ Parted(a \ {p}, b, c, d, e \cup {p}, f)
         /\ (a \ {p}) \cup b \cup c \cup d \cup (e \cup {p}) \cup f
            = a \cup b \cup c \cup d \cup e \cup f
  BY DEF Parted

LEMMA MessageLost ==
  ASSUME NEW a, NEW b, NEW c, NEW d, NEW e, NEW f, Parted(a, b, c, d, e, f)
  PROVE  /\ Parted({}, b, c, d, e, f \cup a)
         /\ {} \cup b \cup c \cup d \cup e \cup (f \cup a)
            = a \cup b \cup c \cup d \cup e \cup f
  BY DEF Parted

\* The rest of a message is all but its first point.
LEMMA TailElements ==
  ASSUME NEW q \in Seq(Input), q # <<>>, Distinct(q)
  PROVE  /\ Head(q) \in Elements(q)
         /\ Elements(Tail(q)) = Elements(q) \ {Head(q)}
         /\ Distinct(Tail(q))
<1> DEFINE n == Len(q)
<1>1. n \in Nat /\ n >= 1 /\ DOMAIN q = 1..n /\ Head(q) = q[1]
  OBVIOUS
<1>2. /\ DOMAIN Tail(q) = 1..(n - 1)
      /\ \A i \in 1..(n - 1) : Tail(q)[i] = q[i + 1]
  OBVIOUS
<1> HIDE DEF n
<1>3. Head(q) \in Elements(q)
  BY <1>1 DEF Elements
<1>4. Distinct(Tail(q))
  BY <1>1, <1>2 DEF Distinct
<1>5. ASSUME NEW x \in Elements(Tail(q)) PROVE x \in Elements(q) /\ x # Head(q)
  <2>1. PICK i \in 1..(n - 1) : x = q[i + 1]
    BY <1>2, <1>5 DEF Elements
  <2>2. i + 1 \in 1..n /\ 1 \in 1..n /\ i + 1 # 1
    BY <1>1
  <2>. QED
    BY <1>1, <2>1, <2>2 DEF Elements, Distinct
<1>6. ASSUME NEW x \in Elements(q), x # Head(q) PROVE x \in Elements(Tail(q))
  <2>1. PICK i \in 1..n : x = q[i]
    BY <1>1, <1>6 DEF Elements
  <2>2. i - 1 \in 1..(n - 1) /\ (i - 1) + 1 = i
    BY <1>1, <1>6, <2>1
  <2>. QED
    BY <1>2, <2>1, <2>2 DEF Elements
<1>. QED
  BY <1>3, <1>4, <1>5, <1>6

LEMMA SameIds ==
  ASSUME {in.id : in \in Everything} = 1..points, Everything' = Everything, points' = points
  PROVE  {in.id : in \in Everything'} = 1..points'
  OBVIOUS

\* The window is handed over, whole.
LEMMA TickPoints ==
  ASSUME TypeInv, AcctInv, NEW now \in Nat, TickWindow(now)
  PROVE  /\ SeriesApart' /\ Apart(Ticked(now))
         /\ \/ InWindow' = {} /\ PointsOf(Ticked(now)) = InWindow
            \/ InWindow' = InWindow /\ Ticked(now) = {}
<1>1. CASE Moves(now) /\ Ticked(now) = Closed
  <2>1. DOMAIN series' = {}
    BY <1>1 DEF Moves
  <2>2. SeriesApart' /\ InWindow' = {}
    BY <2>1, WindowPoints DEF SeriesApart, InWindow, PointsOf, ActiveEntries
  <2>. QED
    BY <1>1, <2>2, ClosedPoints DEF AcctInv
<1>2. CASE UNCHANGED window /\ Ticked(now) = {}
  <2>1. series' = series
    BY <1>2 DEF window, windowVars
  <2>2. SeriesApart' /\ InWindow' = InWindow
    BY <2>1 DEF AcctInv, SeriesApart, InWindow, PointsOf, ActiveEntries
  <2>. QED
    BY <1>2, <2>2, NothingIn
<1>. QED
  BY <1>1, <1>2, TickEffect

LEMMA DrainedPoints ==
  ASSUME OwnInv, AcctInv
  PROVE  PointsOf(Drained) = InWindow /\ Apart(Drained)
<1>1. CASE DrainDue
  BY <1>1, ClosedPoints DEF Drained, AcctInv
<1>2. CASE ~DrainDue
  <2>1. DOMAIN series = {}
    BY <1>2 DEF DrainDue, OwnInv
  <2>2. InWindow = {}
    BY <2>1, WindowPoints
  <2>. QED
    BY <1>2, <2>2, NothingIn DEF Drained
<1>. QED
  BY <1>1, <1>2

LEMMA DrainEmpties ==
  ASSUME TypeInv, OwnInv, DrainWindow \/ NewWindow
  PROVE  SeriesApart' /\ InWindow' = {}
<1>1. DOMAIN series' = {}
  <2>1. CASE DrainWindow
    BY <2>1, DrainEffect DEF Moves, DrainDue, OwnInv, window, windowVars
  <2>2. CASE NewWindow
    BY <2>2 DEF NewWindow
  <2>. QED
    BY <2>1, <2>2
<1>. QED
  BY <1>1 DEF SeriesApart, InWindow, PointsOf, ActiveEntries

\* A handler without a batch that sends the window it has closed.
LEMMA WindowLeaves ==
  ASSUME AcctInv, msg = NoBatch, msg' = msg, NEW closing, Apart(closing), Shares(closing),
         SeriesApart',
         \/ InWindow' = {} /\ PointsOf(closing) = InWindow
         \/ InWindow' = InWindow /\ PointsOf(closing) = {},
         points' = points, refused' = refused
  PROVE  AcctInv'
<1>1. InMessage' = InMessage /\ InReady' = InReady
  BY DEF InMessage, InReady
<1>2. PointsOf(closing) \cap PointsOf(out) = {}
  BY DEF AcctInv, Divided, Parted
<1>3. Apart(out)
  BY DEF AcctInv
<1>4. Apart(out')
  BY <1>2, <1>3, SharesSplit
<1>5. PICK s, t : /\ s \cup t = PointsOf(closing) /\ s \cap t = {}
                  /\ PointsOf(out') = PointsOf(out) \cup s /\ lost' = lost \cup t
  BY <1>2, <1>3, SharesSplit
<1>6. Divided' /\ Everything' = Everything
  <2>1. CASE InWindow' = {} /\ PointsOf(closing) = InWindow
    <3>1. /\ Parted(InMessage, {}, InReady, PointsOf(out) \cup s, refused, lost \cup t)
          /\ InMessage \cup {} \cup InReady \cup (PointsOf(out) \cup s) \cup refused \cup (lost \cup t)
             = InMessage \cup InWindow \cup InReady \cup PointsOf(out) \cup refused \cup lost
      BY <1>5, <2>1, WindowSent DEF AcctInv, Divided
    <3>. QED
      BY <1>1, <1>5, <2>1, <3>1 DEF Divided, Everything
  <2>2. CASE InWindow' = InWindow /\ PointsOf(closing) = {}
    <3>1. PointsOf(out') = PointsOf(out) /\ lost' = lost
      BY <1>5, <2>2
    <3>. QED
      BY <1>1, <2>2, <3>1 DEF AcctInv, Divided, Everything
  <2>. QED
    BY <2>1, <2>2
<1>7. {in.id : in \in Everything'} = 1..points'
  BY <1>6, SameIds DEF AcctInv
<1>. QED
  BY <1>4, <1>6, <1>7 DEF AcctInv

LEMMA AcctTickFirst ==
  ASSUME TypeInv, AcctInv, TickFirst
  PROVE  AcctInv'
<1> DEFINE ts == Point.obs.ts
<1>1. /\ msg # NoBatch /\ msg' # NoBatch /\ msg'.todo = msg.todo /\ msg.ready = {}
      /\ msg'.ready = Ticked(ts) /\ TickWindow(ts) /\ ts \in Nat
      /\ UNCHANGED <<points, out, lost, refused>>
  BY TickFirstEffect, InputFields
<1> HIDE DEF ts
<1>2. InMessage' = InMessage /\ InReady = {} /\ InReady' = PointsOf(Ticked(ts))
      /\ PointsOf(out)' = PointsOf(out)
  BY <1>1, NothingIn DEF InMessage, InReady
<1>3. /\ SeriesApart' /\ Apart(Ticked(ts))
      /\ \/ InWindow' = {} /\ PointsOf(Ticked(ts)) = InWindow
         \/ InWindow' = InWindow /\ Ticked(ts) = {}
  BY <1>1, TickPoints
<1>4. Divided' /\ Everything' = Everything
  <2>1. CASE InWindow' = {} /\ PointsOf(Ticked(ts)) = InWindow
    <3>1. /\ Parted(InMessage, {}, InWindow, PointsOf(out), refused, lost)
          /\ InMessage \cup {} \cup InWindow \cup PointsOf(out) \cup refused \cup lost
             = InMessage \cup InWindow \cup InReady \cup PointsOf(out) \cup refused \cup lost
      BY <1>2, WindowReady DEF AcctInv, Divided
    <3>. QED
      BY <1>1, <1>2, <2>1, <3>1 DEF Divided, Everything
  <2>2. CASE InWindow' = InWindow /\ Ticked(ts) = {}
    BY <1>1, <1>2, <2>2, NothingIn DEF AcctInv, Divided, Everything
  <2>. QED
    BY <1>3, <2>1, <2>2
<1>5. {in.id : in \in Everything'} = 1..points'
  BY <1>1, <1>4, SameIds DEF AcctInv
<1>. QED
  BY <1>1, <1>3, <1>4, <1>5 DEF AcctInv

LEMMA TakesPoints ==
  ASSUME AcctInv, NEW k, Takes(k, Point), Point \in InMessage
  PROVE  /\ SeriesApart'
         /\ InWindow' = InWindow \cup (IF Point.obs.good THEN {Point} ELSE {})
<1> DEFINE more == IF Point.obs.good THEN {Point} ELSE {}
<1>1. /\ DOMAIN series' = DOMAIN series \cup {k}
      /\ \A j \in DOMAIN series : j # k => series'[j].sketch = series[j].sketch
      /\ series'[k].sketch = SketchOf(k) \cup more
  BY DEF Takes
<1>2. more \cap InWindow = {}
  BY DEF AcctInv, Divided, Parted
<1>3. \A j \in DOMAIN series : series[j].sketch \subseteq InWindow
  BY WindowPoints
<1>4. \A j \in DOMAIN series : j # k => series[j].sketch \cap SketchOf(k) = {}
  BY DEF SketchOf, AcctInv, SeriesApart
<1> HIDE DEF more
<1>5. \A j \in DOMAIN series' : j # k => series'[j].sketch \cap series'[k].sketch = {}
  BY <1>1, <1>2, <1>3, <1>4
<1>6. SeriesApart'
  <2>1. SUFFICES ASSUME NEW i \in DOMAIN series', NEW j \in DOMAIN series', i # j
                 PROVE  series'[i].sketch \cap series'[j].sketch = {}
    BY DEF SeriesApart
  <2>2. CASE i = k \/ j = k
    BY <1>5, <2>1, <2>2
  <2>3. CASE i # k /\ j # k
    BY <1>1, <2>1, <2>3 DEF AcctInv, SeriesApart
  <2>. QED
    BY <2>2, <2>3
<1>7. InWindow' = InWindow \cup more
  <2>1. InWindow' = UNION {series'[j].sketch : j \in DOMAIN series'}
    BY DEF InWindow, PointsOf, ActiveEntries
  <2>2. SketchOf(k) \subseteq InWindow
    BY <1>3 DEF SketchOf
  <2>3. ASSUME NEW x \in InWindow' PROVE x \in InWindow \cup more
    BY <1>1, <1>3, <2>1, <2>2
  <2>4. ASSUME NEW x \in InWindow PROVE x \in InWindow'
    <3>1. PICK j \in DOMAIN series : x \in series[j].sketch
      BY WindowPoints
    <3>2. j \in DOMAIN series' /\ x \in series'[j].sketch
      BY <1>1, <3>1 DEF SketchOf
    <3>. QED
      BY <2>1, <3>2
  <2>5. more \subseteq InWindow'
    BY <1>1, <2>1
  <2>. QED
    BY <2>3, <2>4, <2>5
<1>. QED
  BY <1>6, <1>7 DEF more

LEMMA AcctObserve ==
  ASSUME TypeInv, AcctInv, ObserveScalar \/ ObserveEnvelope
  PROVE  AcctInv'
<1>1. /\ msg # NoBatch /\ MessageOK /\ msg.todo # <<>> /\ Point \in Input /\ msg' # NoBatch
      /\ msg'.todo = Tail(msg.todo) /\ msg'.ready = msg.ready
      /\ UNCHANGED <<points, out, lost>>
      /\ \/ ObservesPoint
         \/ UNCHANGED window /\ refused' = refused \cup {Point}
  BY ObserveEffect
<1>2. msg.todo \in Seq(Input) /\ Distinct(msg.todo) /\ Apart(msg.ready)
  BY <1>1 DEF MessageOK, AcctInv
<1>3. /\ Point \in InMessage /\ InMessage' = InMessage \ {Point} /\ Distinct(msg'.todo)
      /\ InReady' = InReady /\ PointsOf(out)' = PointsOf(out)
  BY <1>1, <1>2, TailElements DEF InMessage, InReady, Point
<1>4. SeriesApart' /\ Divided' /\ Everything' = Everything
  <2>1. CASE ObservesPoint /\ Point.obs.good
    <3>1. SeriesApart' /\ InWindow' = InWindow \cup {Point} /\ refused' = refused
      BY <1>3, <2>1, TakesPoints DEF ObservesPoint
    <3>2. /\ Parted(InMessage \ {Point}, InWindow \cup {Point}, InReady, PointsOf(out), refused, lost)
          /\ (InMessage \ {Point}) \cup (InWindow \cup {Point}) \cup InReady
                \cup PointsOf(out) \cup refused \cup lost
             = InMessage \cup InWindow \cup InReady \cup PointsOf(out) \cup refused \cup lost
      BY <1>3, PointTaken DEF AcctInv, Divided
    <3>. QED
      BY <1>1, <1>3, <3>1, <3>2 DEF Divided, Everything
  <2>2. CASE (ObservesPoint /\ ~Point.obs.good) \/ (UNCHANGED window /\ refused' = refused \cup {Point})
    <3>1. SeriesApart' /\ InWindow' = InWindow /\ refused' = refused \cup {Point}
      <4>1. CASE ObservesPoint /\ ~Point.obs.good
        BY <1>3, <4>1, TakesPoints DEF ObservesPoint
      <4>2. CASE UNCHANGED window /\ refused' = refused \cup {Point}
        BY <4>2 DEF window, windowVars, AcctInv, SeriesApart, InWindow, PointsOf, ActiveEntries
      <4>. QED
        BY <2>2, <4>1, <4>2
    <3>2. /\ Parted(InMessage \ {Point}, InWindow, InReady, PointsOf(out), refused \cup {Point}, lost)
          /\ (InMessage \ {Point}) \cup InWindow \cup InReady
                \cup PointsOf(out) \cup (refused \cup {Point}) \cup lost
             = InMessage \cup InWindow \cup InReady \cup PointsOf(out) \cup refused \cup lost
      BY <1>3, PointRefused DEF AcctInv, Divided
    <3>. QED
      BY <1>1, <1>3, <3>1, <3>2 DEF Divided, Everything
  <2>. QED
    BY <1>1, <2>1, <2>2
<1>5. {in.id : in \in Everything'} = 1..points'
  BY <1>1, <1>4, SameIds DEF AcctInv
<1>. QED
  BY <1>1, <1>2, <1>3, <1>4, <1>5 DEF AcctInv

\* The points of a batch are new.
LEMMA InputsNew ==
  ASSUME TypeInv, AcctInv, NEW b \in Batches, points' = points + Len(b)
  PROVE  /\ Elements(Inputs(b)) \cap Everything = {}
         /\ {in.id : in \in Everything \cup Elements(Inputs(b))} = 1..points'
         /\ Distinct(Inputs(b))
<1> DEFINE n == Len(b)
           q == Inputs(b)
<1>1. /\ n \in Nat /\ points \in Nat /\ DOMAIN q = 1..n
      /\ \A i \in 1..n : q[i].id = points + i
  <2>1. /\ n \in Nat /\ points \in Nat /\ DOMAIN q = 1..n
        /\ \A i \in 1..n : q[i] = [id |-> points + i, obs |-> b[i]]
    BY InputsType DEF TypeInv
  <2> HIDE DEF n, q
  <2>. QED
    BY <2>1
<1> HIDE DEF n, q
<1>2. Distinct(q)
  BY <1>1 DEF Distinct
<1>3. {in.id : in \in Everything} = 1..points
  BY DEF AcctInv
<1>4. {in.id : in \in Elements(q)} = (points + 1)..(points + n)
  <2>1. ASSUME NEW x \in (points + 1)..(points + n) PROVE \E in \in Elements(q) : in.id = x
    <3>1. x - points \in 1..n /\ points + (x - points) = x
      BY <1>1
    <3>. QED
      BY <1>1, <3>1 DEF Elements
  <2>2. ASSUME NEW in \in Elements(q) PROVE in.id \in (points + 1)..(points + n)
    BY <1>1 DEF Elements
  <2>. QED
    BY <2>1, <2>2
<1>5. Elements(q) \cap Everything = {}
  <2>1. \A in \in Elements(q) : in.id \notin 1..points
    <3>1. \A in \in Elements(q) : in.id \in (points + 1)..(points + n)
      BY <1>4
    <3>. QED
      BY <1>1, <3>1
  <2>2. \A in \in Everything : in.id \in 1..points
    BY <1>3
  <2>. QED
    BY <2>1, <2>2
<1>6. {in.id : in \in Everything \cup Elements(q)} = (1..points) \cup ((points + 1)..(points + n))
  <2> HIDE DEF Everything, Elements
  <2>1. {in.id : in \in Everything \cup Elements(q)}
        = {in.id : in \in Everything} \cup {in.id : in \in Elements(q)}
    OBVIOUS
  <2>. QED
    BY <1>3, <1>4, <2>1
<1>7. (1..points) \cup ((points + 1)..(points + n)) = 1..(points + n)
  BY <1>1
<1>. QED
  BY <1>2, <1>5, <1>6, <1>7 DEF n, q

LEMMA AcctReceive ==
  ASSUME TypeInv, AcctInv, NEW b \in Batches, Receive(b)
  PROVE  AcctInv'
<1> DEFINE new == Elements(Inputs(b))
<1>1. /\ msg = NoBatch /\ points' = points + Len(b)
      /\ UNCHANGED <<window, out, refused>>
  BY DEF Receive, Idle
<1>2. /\ new \cap Everything = {} /\ Distinct(Inputs(b))
      /\ {in.id : in \in Everything \cup new} = 1..points'
  BY <1>1, InputsNew
<1>3. /\ InMessage = {} /\ InReady = {} /\ PointsOf(out)' = PointsOf(out)
      /\ SeriesApart' /\ InWindow' = InWindow
  BY <1>1 DEF InMessage, InReady, window, windowVars, AcctInv, SeriesApart, InWindow, PointsOf, ActiveEntries
<1>4. CASE /\ msg' = [at |-> "batch", todo |-> Inputs(b), first |-> {}, ready |-> {}]
           /\ UNCHANGED lost
  <2>1. msg' # NoBatch /\ msg'.todo = Inputs(b) /\ msg'.ready = {}
    <3> DEFINE t == Inputs(b)
    <3>1. msg' = [at |-> "batch", todo |-> t, first |-> {}, ready |-> {}]
      BY <1>4
    <3> HIDE DEF t
    <3>2. msg' # NoBatch /\ msg'.todo = t /\ msg'.ready = {}
      BY <3>1, BatchIsNone
    <3>. QED
      BY <3>2 DEF t
  <2>2. InMessage' = new /\ InReady' = {}
    BY <2>1, NothingIn DEF InMessage, InReady
  <2>3. Divided' /\ Everything' = Everything \cup new
    BY <1>1, <1>2, <1>3, <1>4, <2>2 DEF Divided, Parted, Everything, AcctInv
  <2>4. {in.id : in \in Everything'} = 1..points'
    BY <1>2, <2>3
  <2>. QED
    BY <1>1, <1>2, <1>3, <2>1, <2>3, <2>4, NothingIn DEF AcctInv
<1>5. CASE UNCHANGED msg /\ lost' = lost \cup new
  <2>1. InMessage' = {} /\ InReady' = {}
    BY <1>1, <1>5 DEF InMessage, InReady
  <2>2. Divided' /\ Everything' = Everything \cup new
    BY <1>1, <1>2, <1>3, <1>5, <2>1 DEF Divided, Parted, Everything, AcctInv
  <2>3. {in.id : in \in Everything'} = 1..points'
    BY <1>2, <2>2
  <2>. QED
    BY <1>1, <1>3, <1>5, <2>2, <2>3 DEF AcctInv
<1>. QED
  BY <1>4, <1>5 DEF Receive

LEMMA AcctUndecodable ==
  ASSUME TypeInv, AcctInv, Undecodable
  PROVE  AcctInv'
<1>1. /\ msg # NoBatch /\ msg' # NoBatch /\ msg'.todo = <<>> /\ msg'.ready = msg.ready
      /\ lost' = lost \cup Elements(msg.todo)
      /\ UNCHANGED <<window, points, out, refused>>
  BY UndecodableEffect DEF Undecodable
<1>2. /\ InMessage = Elements(msg.todo) /\ InMessage' = {} /\ InReady' = InReady
      /\ PointsOf(out)' = PointsOf(out) /\ SeriesApart' /\ InWindow' = InWindow
  <2>1. InMessage = Elements(msg.todo) /\ InMessage' = {} /\ InReady' = InReady
    BY <1>1, NothingIn DEF InMessage, InReady
  <2>. QED
    BY <1>1, <2>1 DEF window, windowVars, AcctInv, SeriesApart, InWindow, PointsOf, ActiveEntries
<1>3. /\ Parted({}, InWindow, InReady, PointsOf(out), refused, lost \cup InMessage)
      /\ {} \cup InWindow \cup InReady \cup PointsOf(out) \cup refused \cup (lost \cup InMessage)
         = InMessage \cup InWindow \cup InReady \cup PointsOf(out) \cup refused \cup lost
  BY MessageLost DEF AcctInv, Divided
<1>4. Divided' /\ Everything' = Everything
  BY <1>1, <1>2, <1>3 DEF Divided, Everything
<1>5. {in.id : in \in Everything'} = 1..points'
  BY <1>1, <1>4, SameIds DEF AcctInv
<1>6. Distinct(msg'.todo)
  BY <1>1 DEF Distinct
<1>. QED
  BY <1>1, <1>2, <1>4, <1>5, <1>6 DEF AcctInv

LEMMA AcctFinish ==
  ASSUME TypeInv, AcctInv, Finish
  PROVE  AcctInv'
<1>1. /\ msg # NoBatch /\ msg.todo = <<>> /\ msg' = NoBatch /\ Shares(msg.ready)
      /\ UNCHANGED <<window, points, refused>>
  BY EmitShares DEF Finish
<1>2. /\ InMessage = {} /\ InMessage' = {} /\ InReady = PointsOf(msg.ready) /\ InReady' = {}
  BY <1>1, NothingIn DEF InMessage, InReady
<1>3. SeriesApart' /\ InWindow' = InWindow
  BY <1>1 DEF window, windowVars, AcctInv, SeriesApart, InWindow, PointsOf, ActiveEntries
<1>4. Apart(msg.ready) /\ Apart(out) /\ PointsOf(msg.ready) \cap PointsOf(out) = {}
  BY <1>1, <1>2 DEF AcctInv, Divided, Parted
<1>5. Apart(out')
  BY <1>1, <1>4, SharesSplit
<1>6. PICK s, t : /\ s \cup t = InReady /\ s \cap t = {}
                  /\ PointsOf(out') = PointsOf(out) \cup s /\ lost' = lost \cup t
  BY <1>1, <1>2, <1>4, SharesSplit
<1>7. /\ Parted(InMessage, InWindow, {}, PointsOf(out) \cup s, refused, lost \cup t)
      /\ InMessage \cup InWindow \cup {} \cup (PointsOf(out) \cup s) \cup refused \cup (lost \cup t)
         = InMessage \cup InWindow \cup InReady \cup PointsOf(out) \cup refused \cup lost
  BY <1>2, <1>6, ReadySent DEF AcctInv, Divided
<1>8. Divided' /\ Everything' = Everything
  BY <1>1, <1>2, <1>3, <1>6, <1>7 DEF Divided, Everything
<1>9. {in.id : in \in Everything'} = 1..points'
  BY <1>1, <1>8, SameIds DEF AcctInv
<1>. QED
  BY <1>1, <1>3, <1>5, <1>8, <1>9 DEF AcctInv

LEMMA AcctConfig ==
  ASSUME TypeInv, OwnInv, AcctInv, NEW q \in Plugins, Config(q)
  PROVE  AcctInv'
<1>1. /\ msg = NoBatch /\ msg' = msg /\ points' = points /\ refused' = refused
      /\ Rebuilt(q) \/ Updated(q) \/ NotRebuilt
  BY ConfigEffect DEF Idle
<1>2. CASE Rebuilt(q) \/ NotRebuilt
  <2>1. Shares(Drained) /\ (DrainWindow \/ NewWindow)
    BY <1>2 DEF Rebuilt, NotRebuilt
  <2>2. PointsOf(Drained) = InWindow /\ Apart(Drained)
    BY DrainedPoints
  <2>3. SeriesApart' /\ InWindow' = {}
    BY <2>1, DrainEmpties
  <2>. QED
    BY <1>1, <2>1, <2>2, <2>3, WindowLeaves
<1>3. CASE Updated(q)
  BY <1>1, <1>3
     DEF Updated, window, windowVars, AcctInv, Divided, Everything, SeriesApart,
         InMessage, InWindow, InReady, PointsOf, ActiveEntries
<1>. QED
  BY <1>1, <1>2, <1>3

LEMMA AcctStep == TypeInv /\ OwnInv /\ AcctInv /\ [Next]_vars => AcctInv'
<1>1. SUFFICES ASSUME TypeInv, OwnInv, AcctInv, [Next]_vars PROVE AcctInv'
  OBVIOUS
<1>2. ASSUME NEW b \in Batches, Receive(b) PROVE AcctInv'
  BY <1>1, <1>2, AcctReceive
<1>3. CASE TickFirst
  BY <1>1, <1>3, AcctTickFirst
<1>4. CASE ObserveScalar \/ ObserveEnvelope
  BY <1>1, <1>4, AcctObserve
<1>5. CASE Undecodable
  BY <1>1, <1>5, AcctUndecodable
<1>6. CASE Finish
  BY <1>1, <1>6, AcctFinish
<1>7. ASSUME NEW now \in Times, TimerTick(now) PROVE AcctInv'
  <2> DEFINE t == IdleTime(now)
  <2>1. /\ msg = NoBatch /\ msg' = msg /\ t \in Nat /\ points' = points /\ refused' = refused
        /\ TickWindow(t) /\ Shares(Ticked(t))
    BY <1>1, <1>7, ConstantsAssumption, ClockTypes, EmitShares DEF TimerTick, Idle
  <2> HIDE DEF t
  <2>2. /\ SeriesApart' /\ Apart(Ticked(t))
        /\ \/ InWindow' = {} /\ PointsOf(Ticked(t)) = InWindow
           \/ InWindow' = InWindow /\ PointsOf(Ticked(t)) = {}
    BY <1>1, <2>1, TickPoints, NothingIn
  <2>. QED
    BY <1>1, <2>1, <2>2, WindowLeaves
<1>8. CASE Shutdown
  <2>1. /\ msg = NoBatch /\ msg' = msg /\ points' = points /\ refused' = refused
        /\ DrainWindow /\ Shares(Drained)
    BY <1>8, EmitShares DEF Shutdown, Idle
  <2>. QED
    BY <1>1, <2>1, DrainedPoints, DrainEmpties, WindowLeaves
<1>9. CASE OtherControl
  BY <1>1, <1>9
     DEF OtherControl, history, window, windowVars, AcctInv, Divided, Everything, SeriesApart,
         InMessage, InWindow, InReady, PointsOf, ActiveEntries
<1>10. ASSUME NEW q \in Plugins, Config(q) PROVE AcctInv'
  BY <1>1, <1>10, AcctConfig
<1>11. CASE UNCHANGED vars
  BY <1>1, <1>11
     DEF vars, history, window, windowVars, AcctInv, Divided, Everything, SeriesApart,
         InMessage, InWindow, InReady, PointsOf, ActiveEntries
<1>. QED
  BY <1>1, <1>2, <1>3, <1>4, <1>5, <1>6, <1>7, <1>8, <1>9, <1>10, <1>11 DEF Next, BatchStep

LEMMA AcctInit == Init => AcctInv
<1>1. SUFFICES ASSUME Init PROVE AcctInv
  OBVIOUS
<1>2. /\ DOMAIN series = {} /\ msg = NoBatch /\ out = {} /\ refused = {} /\ lost = {} /\ points = 0
  BY <1>1 DEF Init, WindowInit
<1>3. InMessage = {} /\ InReady = {} /\ InWindow = {} /\ PointsOf(out) = {}
  BY <1>2, WindowPoints, NothingIn DEF InMessage, InReady
<1>4. Everything = {} /\ Divided
  BY <1>2, <1>3 DEF Everything, Divided, Parted
<1>5. {in.id : in \in Everything} = 1..points
  BY <1>2, <1>4
<1>. QED
  BY <1>2, <1>4, <1>5, NothingIn DEF AcctInv, SeriesApart

\* The six places as the tuple that Accounted speaks of.
LEMMA AccountedFlat == AcctInv => Accounted
<1>1. SUFFICES ASSUME AcctInv PROVE Accounted
  OBVIOUS
<1> DEFINE Places == <<InMessage, InWindow, InReady, PointsOf(out), refused, lost>>
<1>2. /\ DOMAIN Places = 1..6
      /\ Places[1] = InMessage /\ Places[2] = InWindow /\ Places[3] = InReady
      /\ Places[4] = PointsOf(out) /\ Places[5] = refused /\ Places[6] = lost
  OBVIOUS
<1> HIDE DEF Places
<1>3. \A i \in 1..6 : i = 1 \/ i = 2 \/ i = 3 \/ i = 4 \/ i = 5 \/ i = 6
  OBVIOUS
<1>4. UNION Elements(Places) = Everything
  <2>1. ASSUME NEW x \in UNION Elements(Places) PROVE x \in Everything
    <3>1. PICK i \in 1..6 : x \in Places[i]
      BY <1>2, <2>1 DEF Elements
    <3>. QED
      BY <1>2, <1>3, <3>1 DEF Everything
  <2>2. ASSUME NEW x \in Everything PROVE x \in UNION Elements(Places)
    <3>1. \A i \in 1..6 : Places[i] \in Elements(Places)
      BY <1>2 DEF Elements
    <3>2. \E i \in 1..6 : x \in Places[i]
      BY <1>2, <2>2 DEF Everything
    <3>. QED
      BY <3>1, <3>2
  <2>. QED
    BY <2>1, <2>2
<1>5. \A i, j \in DOMAIN Places : i # j => Places[i] \cap Places[j] = {}
  <2>1. \A i, j \in 1..6 : i < j => Places[i] \cap Places[j] = {}
    <3>1. SUFFICES ASSUME NEW i \in 1..6, NEW j \in 1..6, i < j
                   PROVE  Places[i] \cap Places[j] = {}
      OBVIOUS
    <3>2. CASE i = 1
      BY <1>1, <1>2, <1>3, <3>1, <3>2 DEF AcctInv, Divided, Parted
    <3>3. CASE i = 2
      BY <1>1, <1>2, <1>3, <3>1, <3>3 DEF AcctInv, Divided, Parted
    <3>4. CASE i = 3
      BY <1>1, <1>2, <1>3, <3>1, <3>4 DEF AcctInv, Divided, Parted
    <3>5. CASE i = 4 \/ i = 5
      BY <1>1, <1>2, <1>3, <3>1, <3>5 DEF AcctInv, Divided, Parted
    <3>. QED
      BY <1>3, <3>1, <3>2, <3>3, <3>4, <3>5
  <2>2. \A i, j \in 1..6 : i # j => i < j \/ j < i
    OBVIOUS
  <2>. QED
    BY <1>2, <2>1, <2>2
<1>. QED
  BY <1>1, <1>4, <1>5 DEF Accounted, AcctInv, Apart, Places

\* However many points come, in whatever batches, and whatever ticks, drains,
\* rebuilds and failures come between: each is in one place, once.
THEOREM InOnePlace == Spec => []Accounted
<1>1. Init => TypeInv /\ SetupInv /\ OwnInv /\ AcctInv
  BY TypeInit, SetupInit, OwnInit, AcctInit
<1>2. /\ TypeInv /\ SetupInv /\ OwnInv /\ AcctInv
      /\ [Next]_vars
      => (TypeInv /\ SetupInv /\ OwnInv /\ AcctInv)'
  BY TypeStep, SetupStep, OwnStep, AcctStep
<1>. QED
  BY <1>1, <1>2, AccountedFlat, PTL DEF Spec

=============================================================================
