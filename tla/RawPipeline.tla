---------------------------- MODULE RawPipeline ----------------------------
(***************************************************************************)
(* The raw pipeline: the generator's points go to the raw_sink of          *)
(* asap-precompute-rs/src/otap/baseline_nodes.rs, which writes each        *)
(* message to a store and watches what the store answers, to report when a *)
(* window was stored.  The store answers in any order, or never.           *)
(***************************************************************************)
EXTENDS ScenarioGenerator

CONSTANTS
  Window,     \* config.window, a millisecond if it is less
  Grace,      \* config.grace
  Deadline,   \* graces after which a window is reported in any case: 10
  Times,      \* the readings of the clock
  TimersFail  \* whether starting the timer may fail

ASSUME SinkAssumption ==
  /\ Window \in Nat \ {0} /\ {Grace, Deadline} \subseteq Nat
  /\ Times \subseteq Nat /\ TimersFail \in BOOLEAN

VARIABLES
  windows,       \* the open windows: a set of [end, lastAck, stored, failed, inFlight]
  inFlight,      \* the points by window of each message not answered, by id
  nextId,        \* next_id
  emittedUntil,  \* emitted_until
  sentUntil,     \* sent_until_ms
  timer,         \* timer_started
  stopped,       \* ended by an error
  reports,       \* history: the reports made
  acks,          \* history: when the store acknowledged points, as <<point, time>>
  ignored,       \* history: points of windows reported before they came
  lost,          \* history: points of messages that could not be read or encoded
  hurried        \* history: windows reported before the source was past them, or
                 \* before the store had answered

sink == <<windows, inFlight, nextId, emittedUntil, sentUntil, timer, stopped>>
history == <<reports, acks, ignored, lost, hurried>>
vars == <<generator, sink, history>>

Init ==
  /\ InitGenerator
  /\ windows = {} /\ inFlight = {} /\ nextId = 0 /\ emittedUntil = 0 /\ sentUntil = 0
  /\ timer = FALSE /\ stopped = FALSE
  /\ reports = {} /\ acks = {} /\ ignored = {} /\ lost = {} /\ hurried = {}

-----------------------------------------------------------------------------
(* Parts of the handlers.                                                  *)

EndOf(ts) == (ts \div Window) * Window + Window

StartTimer == timer' \in IF timer \/ ~TimersFail THEN {TRUE} ELSE BOOLEAN

\* Mutant, for ReportWhole: the windows of the points are past, not their times.
SentUntilEnd(points) == Max({sentUntil} \cup {EndOf(p.ts) : p \in points})

\* The latest event time the source has sent, after a message of points.
SentUntil(points) == Max({sentUntil} \cup {p.ts : p \in points})

\* The points of a message by window, but those of windows already reported.
ByWindow(id, points) ==
  {[id |-> id, end |-> e, points |-> {p \in points : EndOf(p.ts) = e}] :
     e \in {e \in {EndOf(p.ts) : p \in points} : e > emittedUntil}}

OpenWindow(e) ==
  IF \E w \in windows : w.end = e
  THEN CHOOSE w \in windows : w.end = e
  ELSE [end |-> e, lastAck |-> 0, stored |-> {}, failed |-> {}, inFlight |-> 0]

\* send: the windows with one more message in flight.
Registered(parts) ==
  {w \in windows : \A part \in parts : part.end # w.end}
    \cup {[OpenWindow(part.end) EXCEPT !.inFlight = @ + 1] : part \in parts}

\* Mutant, for ReportTells: the last answer is taken for the latest.
AnsweredLast(w, part, now, isStored) ==
  IF isStored
  THEN [w EXCEPT !.inFlight = @ - 1, !.stored = @ \cup part.points, !.lastAck = now]
  ELSE [w EXCEPT !.inFlight = @ - 1, !.failed = @ \cup part.points]

\* Mutant, for PointsAccounted: the points the store refused are not counted.
AnsweredStored(w, part, now, isStored) ==
  [w EXCEPT !.inFlight = IF @ = 0 THEN 0 ELSE @ - 1,
            !.stored = IF isStored THEN @ \cup part.points ELSE @,
            !.lastAck = IF isStored /\ now > @ THEN now ELSE @]

\* What an answer makes of a window that waits for it.
Answered(w, part, now, isStored) ==
  IF isStored
  THEN [w EXCEPT !.inFlight = IF @ = 0 THEN 0 ELSE @ - 1, !.stored = @ \cup part.points,
                 !.lastAck = IF now > @ THEN now ELSE @]
  ELSE [w EXCEPT !.inFlight = IF @ = 0 THEN 0 ELSE @ - 1, !.failed = @ \cup part.points]

\* answered: a window reported meanwhile is passed over.
AfterAnswer(parts, now, isStored) ==
  {w \in windows : \A part \in parts : part.end # w.end}
    \cup UNION {{Answered(w, part, now, isStored) : w \in {w \in windows : w.end = part.end}} :
                  part \in parts}

\* The source is past a window: a later point, or the grace.
Passed(w, until, now) == w.end <= until \/ w.end + Grace <= now

\* Mutant, for AllReported: only the store's answers close a window.
NoDeadline(w, now) == FALSE

\* The time is up for the store.
TooLate(w, now) == w.end + Deadline * Grace <= now

\* The gauges of a window: what was stored and refused, the points still in
\* flight, and when the last was stored, or the time of the report.
Report(w, flying, now) ==
  LET waiting == UNION {part.points : part \in {part \in flying : part.end = w.end}} IN
  [end |-> w.end, stored |-> w.stored, failed |-> w.failed, unacknowledged |-> waiting,
   complete |-> IF waiting # {} THEN now ELSE w.lastAck]

\* due and the send of its gauges: a batch of gauges that fails to be encoded is
\* gone; one that fails to be sent is an error.
Due(open, flying, until, now, closing) ==
  LET ready == {w \in open : closing \/ (Passed(w, until, now) /\ (w.inFlight = 0 \/ TooLate(w, now)))}
  IN
  /\ windows' = open \ ready
  /\ emittedUntil' = Max({emittedUntil} \cup {w.end : w \in ready})
  /\ hurried' = hurried \cup {w.end : w \in {w \in ready : w.end > until \/ w.inFlight > 0}}
  /\ reports' = reports \cup {Report(w, flying, now) : w \in ready}
  /\ stopped' \in {stopped} \cup (IF Failures /\ ready # {} THEN {TRUE} ELSE {})

-----------------------------------------------------------------------------
(* The handlers of raw_sink.                                               *)

\* A message of points goes to the store; the window parts that wait for its
\* answer are registered first.
PData(now) ==
  LET points == Head(pdata)
      parts == ByWindow(nextId, points)
      until == SentUntil(points)
  IN
  /\ ~stopped /\ pdata # <<>>
  /\ StartTimer
  /\ pdata' = Tail(pdata)
  /\ nextId' = nextId + 1
  /\ sentUntil' = until
  /\ inFlight' = inFlight \cup parts
  /\ ignored' = ignored \cup (points \ UNION {part.points : part \in parts})
  /\ Due(Registered(parts), inFlight \cup parts, until, now, FALSE)
  /\ UNCHANGED <<scenario, nextBatch, running, generated, skipped, acks, lost>>

\* The send to the store fails, which is an error: the message stays registered.
SendFails ==
  LET points == Head(pdata)
      parts == ByWindow(nextId, points)
  IN
  /\ Failures /\ ~stopped /\ pdata # <<>>
  /\ StartTimer
  /\ pdata' = Tail(pdata)
  /\ nextId' = nextId + 1
  /\ sentUntil' = SentUntil(points)
  /\ inFlight' = inFlight \cup parts
  /\ windows' = Registered(parts)
  /\ ignored' = ignored \cup (points \ UNION {part.points : part \in parts})
  /\ stopped' = TRUE
  /\ UNCHANGED <<scenario, nextBatch, running, generated, skipped, emittedUntil, reports, acks,
                 lost, hurried>>

\* A message that cannot be acknowledged, which is an error, or read, or encoded
\* as logs; after the last the windows are looked at all the same.
Unread(now) ==
  /\ Failures /\ ~stopped /\ pdata # <<>>
  /\ StartTimer
  /\ pdata' = Tail(pdata)
  /\ lost' = lost \cup Head(pdata)
  /\ \/ stopped' \in BOOLEAN /\ UNCHANGED <<windows, emittedUntil, reports, hurried>>
     \/ Due(windows, inFlight, sentUntil, now, FALSE)
  /\ UNCHANGED <<scenario, nextBatch, running, generated, skipped, inFlight, nextId, sentUntil,
                 acks, ignored>>

\* The store stored a message, or refused it: Ack or Nack.
Answer(id, isStored, now) ==
  LET parts == {part \in inFlight : part.id = id} IN
  /\ ~stopped /\ parts # {}
  /\ StartTimer
  /\ inFlight' = inFlight \ parts
  /\ acks' = IF isStored THEN acks \cup {<<p, now>> : p \in UNION {part.points : part \in parts}}
                         ELSE acks
  /\ Due(AfterAnswer(parts, now, isStored), inFlight \ parts, sentUntil, now, FALSE)
  /\ UNCHANGED <<generator, nextId, sentUntil, ignored, lost>>

\* A tick of the timer, or an answer that names no message.
TimerTick(now) ==
  /\ ~stopped
  /\ StartTimer
  /\ Due(windows, inFlight, sentUntil, now, FALSE)
  /\ UNCHANGED <<generator, inFlight, nextId, sentUntil, acks, ignored, lost>>

\* Shutdown reports every window, as of the real time.
Shutdown(now) ==
  /\ ~stopped
  /\ StartTimer
  /\ Due(windows, inFlight, sentUntil, now, TRUE)
  /\ UNCHANGED <<generator, inFlight, nextId, sentUntil, acks, ignored, lost>>

Next ==
  \/ NextGenerator /\ UNCHANGED <<sink, history>>
  \/ SendFails
  \/ \E now \in Times :
       \/ PData(now) \/ Unread(now) \/ TimerTick(now) \/ Shutdown(now)
       \/ \E id \in 0..nextId, isStored \in BOOLEAN : Answer(id, isStored, now)

Spec == Init /\ [][Next]_vars

\* The engine keeps the timer ticking, and the clock gets past the deadline of
\* every window; nothing is assumed of the store.
LastEnd == EndOf(MaxSeconds * Second - 1)

LiveSpec ==
  Spec /\ WF_vars(\E now \in Times : now >= LastEnd + Deadline * Grace /\ timer /\ TimerTick(now))

-----------------------------------------------------------------------------
(* Properties.                                                             *)

Reported(r) == r.stored \cup r.failed \cup r.unacknowledged

\* Every point sent is on its way, or in one place of the sink: waiting for the
\* store in an open window, answered there, in one report, ignored or lost.  The
\* count of a window is that of the messages that wait for it.
PointsAccounted ==
  LET coming == UNION {pdata[i] : i \in DOMAIN pdata}
      Waiting(w) == {part \in inFlight : part.end = w.end}
      Held(w) == w.stored \cup w.failed \cup UNION {part.points : part \in Waiting(w)}
      held == UNION {Held(w) : w \in windows}
      told == UNION {Reported(r) : r \in reports}
  IN
  /\ generated = UNION {coming, held, told, ignored, lost}
  /\ Cardinality(generated) =
       Cardinality(coming) + Cardinality(held) + Cardinality(told) + Cardinality(ignored)
         + Cardinality(lost)
  /\ \A w \in windows : w.inFlight = Cardinality(Waiting(w))
  /\ \A r, s \in reports : r # s => r.end # s.end

\* A report made because the source is past the window and the store has answered
\* tells of every point generated in the window but the lost ones: in time order,
\* nothing is left for later.
ReportWhole ==
  \A r \in reports : r.end \notin hurried =>
    /\ r.unacknowledged = {}
    /\ Reported(r) = {p \in generated : EndOf(p.ts) = r.end} \ lost

\* Its time is that of the last of its points to be stored, in whatever order the
\* answers came and whatever the clock read.
ReportTells ==
  \A r \in reports : r.unacknowledged = {} /\ r.stored # {} =>
    r.complete = Max({a[2] : a \in {a \in acks : a[1] \in r.stored}})

\* Every window is reported, even when the store never answers.
AllReported ==
  \A e \in {EndOf(ts) : ts \in 0..MaxSeconds * Second - 1} :
    (\E w \in windows : w.end = e) ~> ((\A w \in windows : w.end # e) \/ stopped)

=============================================================================
