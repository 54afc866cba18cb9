--------------------------- MODULE AsapProcessor ---------------------------
(***************************************************************************)
(* The asap_sketches processor of asap-precompute-rs/src/otap/processor.rs *)
(* around a tumbling PrecomputeImpl, whose window is WindowState's.  The   *)
(* processor is an actor: it handles one message at a time.  The handler   *)
(* of a batch of points is cut into the steps it takes for each point, and *)
(* nothing else runs between them; any other handler is one action.        *)
(* A configuration resolves to no cap, no lateness and no matchers, so of  *)
(* WindowState's branches those for known and new series remain.  Left out *)
(* are sliding windows (see KllRolling), per-attribute series, and         *)
(* estimates sent in place of sketches.                                    *)
(*                                                                         *)
(* Definitions marked "Mutant" are no part of the model, as in WindowState.*)
(***************************************************************************)
EXTENDS WindowState, Sequences

CONSTANTS
  Resources, Labels, \* the resource attributes and label sets in play
  Plugins,     \* the plugin configurations in play
  Initial,     \* the one the processor is created with
  Offered,     \* the points the host may send
  Batches,     \* the messages it sends them in: sequences of points
  Times,       \* the readings of the wall clock
  Grace,       \* IDLE_CLOSE_GRACE
  MaxPeriod,   \* the timer's period at most: a second
  Failures,    \* whether acknowledging, decoding, serialising and sending may fail
  TimersFail,  \* whether starting the timer may fail
  MaxPoints,   \* bound on the number of points
  MaxUpdates   \* bound on the number of configurations pushed

\* key is default_key, "none" for None; params stands for sketch_params; strip
\* for the two parity flags, as in WindowState.
PluginType ==
  [type : STRING, params : Nat, metric : STRING, key : STRING, agg : Nat, size : Nat,
   by : SUBSET STRING, strip : {"none", "resource", "all"}]

\* A decoded point: a scalar or an upstream sketch, whose ts is the end of its
\* window; good says whether the sketch takes it.
PointType ==
  [kind : {"scalar", "envelope"}, ts : Nat, res : Resources, labels : Labels,
   good : BOOLEAN, agg : Nat, type : STRING, count : Nat]

\* What the processor is created with, and what a push of anything else leaves.
Resolves(p) == p.size > 0

ASSUME ConstantsAssumption ==
  /\ Plugins \subseteq PluginType
  /\ Initial \in Plugins /\ Resolves(Initial)
  /\ NoResource \in Resources /\ NoLabels \in Labels
  /\ Offered \subseteq PointType
  /\ Batches \subseteq Seq(Offered) \ {<<>>}
  /\ Times \subseteq Nat
  /\ Grace \in Nat /\ MaxPeriod \in Nat \ {0}
  /\ {Failures, TimersFail} \subseteq BOOLEAN
  /\ MaxPoints \in Nat /\ MaxUpdates \in Nat

VARIABLES
  plugin,      \* plugin_config
  running,     \* the configuration of the precompute
  built,       \* what its sketch factory and observer were constructed with
  timer,       \* whether the timer runs
  period,      \* its period: the field window_size
  msg,         \* the batch being handled
  stopped,     \* a handler has returned an error, which ends the processor
  points,      \* number of points received: the next point's id
  updates,     \* number of configurations pushed
  out,         \* history: the envelopes sent
  lost,        \* history: points in messages and windows given up
  refused,     \* history: points no sketch took
  passed,      \* history: the latest time a window may have been closed for
  orderly      \* history: the points have come window by window

setup == <<plugin, running, built, timer, period>>
window == <<windowVars, accepted, discarded>>
history == <<out, lost, refused, passed, orderly>>
vars == <<window, setup, msg, stopped, points, updates, history>>

Smaller(a, b) == IF a <= b THEN a ELSE b
Greater(a, b) == IF a <= b THEN b ELSE a

Minus(a, b) == IF a >= b THEN a - b ELSE 0

-----------------------------------------------------------------------------
(* What a plugin configuration describes.                                  *)

\* The configuration of its precompute.
Resolve(p) ==
  [agg |-> p.agg, type |-> p.type, params |-> p.params, size |-> p.size, by |-> p.by,
   strip |-> p.strip, lateness |-> 0, maxSeries |-> 0, overflow |-> "Drop"]

\* What the sketches and the observer are constructed with: only the CountSketch
\* observer has a key for points without one, by default the metric's name.
Factory(p) ==
  [type |-> p.type, params |-> p.params,
   key |-> IF p.type # "countsketch" THEN "none"
           ELSE IF p.key = "none" THEN p.metric ELSE p.key]

TimerPeriod(p) == Smaller(p.size, MaxPeriod)

\* Mutant, for RunsAsConfigured: the default key is not thought of.
RebuildButForName(p, q) ==
  \/ p.type # q.type \/ p.params # q.params \/ p.key # q.key
  \/ p.agg # q.agg \/ p.strip # q.strip

\* Whether q needs a new precompute in place of p's.
RequiresRebuild(p, q) ==
  \/ p.type # q.type \/ p.params # q.params \/ p.key # q.key
  \/ p.agg # q.agg \/ p.strip # q.strip
  \/ p.type = "countsketch" /\ p.key = "none" /\ p.metric # q.metric

NoBatch == [at |-> "idle"]

Init ==
  /\ WindowInit
  /\ plugin = Initial
  /\ running = Resolve(plugin) /\ built = Factory(plugin)
  /\ timer = FALSE /\ period = TimerPeriod(plugin)
  /\ msg = NoBatch /\ stopped = FALSE /\ points = 0 /\ updates = 0
  /\ out = {} /\ lost = {} /\ refused = {} /\ passed = 0 /\ orderly = TRUE

-----------------------------------------------------------------------------
(* Steps the handlers share.                                               *)

\* A handler runs when no batch is being handled.
Idle == msg = NoBatch /\ ~stopped

\* Every message first starts the timer, unless it runs; the next one tries again.
StartTimer == timer' \in IF timer \/ ~TimersFail THEN {TRUE} ELSE BOOLEAN

\* What the precompute's tick and drain return: an envelope for each sketch
\* of the active window that is not empty.
Closed ==
  {[range |-> ActiveRange, agg |-> running.agg, type |-> running.type, made |-> built,
    sketch |-> e.sketch] : e \in {x \in ActiveEntries : x.sketch # {}}}

Ticked(now) == IF RotationDue(now, running) THEN Closed ELSE {}

TickWindow(now) ==
  IF RotationDue(now, running) THEN RotateWindow(now, running) ELSE UNCHANGED window

Drained == IF DrainDue THEN Closed ELSE {}

DrainWindow ==
  IF DrainDue THEN RotateWindow(activeEnd, running) ELSE UNCHANGED window

PointsOf(envelopes) == UNION {e.sketch : e \in envelopes}

\* emit_envelopes: what the precompute failed to serialise it has skipped, and
\* a window that does not encode is dropped as a whole.
Send(closing) ==
  \E sent \in IF Failures THEN SUBSET closing ELSE {closing} :
    /\ out' = out \cup sent
    /\ lost' = lost \cup PointsOf(closing \ sent)

SendFails(closing) ==
  /\ Failures /\ closing # {}
  /\ lost' = lost \cup PointsOf(closing)
  /\ stopped' = TRUE
  /\ UNCHANGED out

Emit(closing) ==
  \/ Send(closing) /\ UNCHANGED stopped
  \/ SendFails(closing)

-----------------------------------------------------------------------------
(* PData                                                                   *)

\* The points of batch b once received.
Inputs(b) == [i \in DOMAIN b |-> [id |-> points + i, obs |-> b[i]]]

Elements(q) == {q[i] : i \in DOMAIN q}

\* The batch is acknowledged before anything else.
Receive(b) ==
  /\ Idle
  /\ points + Len(b) <= MaxPoints
  /\ StartTimer
  /\ points' = points + Len(b)
  /\ \/ /\ msg' = [at |-> "batch", todo |-> Inputs(b), first |-> {}, ready |-> {}]
        /\ UNCHANGED <<stopped, lost>>
     \/ /\ Failures
        /\ stopped' = TRUE
        /\ lost' = lost \cup Elements(Inputs(b))
        /\ UNCHANGED msg
  /\ UNCHANGED <<window, plugin, running, built, period, updates, out, refused, passed, orderly>>

\* The point being observed.
Point == Head(msg.todo)

\* The first scalar of the batch ticks the precompute with its event time.
TickFirst ==
  /\ msg # NoBatch /\ msg.todo # <<>>
  /\ Point.obs.kind = "scalar" /\ msg.first = {}
  /\ TickWindow(Point.obs.ts)
  /\ msg' = [msg EXCEPT !.first = {Point.obs.ts}, !.ready = Ticked(Point.obs.ts)]
  /\ passed' = Greater(passed, Point.obs.ts)
  /\ UNCHANGED <<setup, stopped, points, updates, out, lost, refused, orderly>>

\* A scalar is in order when its window is that of the batch's first one and
\* has not been passed.
InOrder(in) ==
  /\ \A t \in msg.first : Bucket(in.obs.ts, running.size) = Bucket(t, running.size)
  /\ Bucket(in.obs.ts, running.size) + running.size > passed

ObserveScalar ==
  /\ msg # NoBatch /\ msg.todo # <<>>
  /\ Point.obs.kind = "scalar" /\ msg.first # {}
  /\ ObserveKnown(Point, running) \/ ObserveNew(Point, running)
  /\ refused' = IF Point.obs.good THEN refused ELSE refused \cup {Point}
  /\ msg' = [msg EXCEPT !.todo = Tail(@)]
  /\ orderly' = (orderly /\ InOrder(Point))
  /\ UNCHANGED <<setup, stopped, points, updates, out, lost, passed>>

Mergeable(o) ==
  /\ o.agg \in {0, running.agg} \/ running.agg = 0
  /\ o.type \in {"Unspecified", running.type}

\* The precompute refuses a sketch of another aggregation or type; one that
\* does not merge leaves its series behind.
ObserveEnvelope ==
  /\ msg # NoBatch /\ msg.todo # <<>>
  /\ Point.obs.kind = "envelope"
  /\ \/ Mergeable(Point.obs) /\ MergeInto(Point, running)
     \/ ~Mergeable(Point.obs) /\ UNCHANGED window
  /\ refused' = IF Point.obs.good /\ Mergeable(Point.obs) THEN refused ELSE refused \cup {Point}
  /\ msg' = [msg EXCEPT !.todo = Tail(@)]
  /\ passed' = IF initialized THEN passed ELSE Greater(passed, Point.obs.ts)
  /\ UNCHANGED <<setup, stopped, points, updates, out, lost, orderly>>

\* A point that does not decode ends the batch; those before it stay observed.
Undecodable ==
  /\ Failures
  /\ msg # NoBatch /\ msg.todo # <<>>
  /\ msg' = [msg EXCEPT !.todo = <<>>]
  /\ lost' = lost \cup Elements(msg.todo)
  /\ UNCHANGED <<window, setup, stopped, points, updates, out, refused, passed, orderly>>

\* The window the batch closed is sent once its points are in the next one.
Finish ==
  /\ msg # NoBatch /\ msg.todo = <<>>
  /\ Emit(msg.ready)
  /\ msg' = NoBatch
  /\ UNCHANGED <<window, setup, points, updates, refused, passed, orderly>>

-----------------------------------------------------------------------------
(* TimerTick, Shutdown and Config                                          *)

\* Mutant, for OwnWindow: no grace for points still queued upstream.
IdleAtOnce(now) == now

\* The time an idle window is closed by.
IdleTime(now) == Minus(now, Grace)

TimerTick(now) ==
  /\ Idle
  /\ timer
  /\ TickWindow(IdleTime(now))
  /\ Emit(Ticked(IdleTime(now)))
  /\ passed' = Greater(passed, Minus(now, Grace))
  /\ UNCHANGED <<setup, msg, points, updates, refused, orderly>>

\* The window moves on under points still to come.
Shutdown ==
  /\ Idle
  /\ StartTimer
  /\ DrainWindow
  /\ Emit(Drained)
  /\ orderly' = (orderly /\ ~DrainDue)
  /\ UNCHANGED <<plugin, running, built, period, msg, points, updates, refused, passed>>

\* Any other control message, or a configuration that does not parse or resolve.
OtherControl ==
  /\ Idle
  /\ StartTimer
  /\ UNCHANGED <<window, plugin, running, built, period, msg, stopped, points, updates, history>>

\* Mutant, for IdleWindowsClose: the timer is cancelled and left to the next message.
InstallCancelling(q) ==
  \/ /\ TimerPeriod(q) = period
     /\ StartTimer
     /\ plugin' = q
     /\ UNCHANGED <<period, stopped>>
  \/ /\ TimerPeriod(q) # period
     /\ timer' = FALSE /\ period' = TimerPeriod(q)
     /\ plugin' = q
     /\ UNCHANGED stopped

\* The timer is replaced when q's period differs; q is installed only then.
Install(q) ==
  \/ /\ TimerPeriod(q) = period
     /\ StartTimer
     /\ plugin' = q
     /\ UNCHANGED <<period, stopped>>
  \/ /\ TimerPeriod(q) # period
     /\ timer' = TRUE /\ period' = TimerPeriod(q)
     /\ plugin' = q
     /\ UNCHANGED stopped
  \/ /\ TimerPeriod(q) # period /\ TimersFail
     /\ timer' = FALSE /\ stopped' = TRUE
     /\ UNCHANGED <<plugin, period>>

\* The window of a new precompute.
NewWindow ==
  /\ series' = <<>>
  /\ activeStart' = 0 /\ activeEnd' = 0
  /\ initialized' = FALSE
  /\ activeSeries' = 0
  /\ UNCHANGED <<accepted, discarded>>

\* Mutant, for Accounted: the old precompute is not drained.
RebuildUndrained(q) ==
  /\ NewWindow
  /\ running' = Resolve(q) /\ built' = Factory(q)
  /\ Install(q)
  /\ UNCHANGED <<out, lost>>

\* The old precompute's window is sent before the new one takes its place; a
\* failed send leaves the old one, drained.
Rebuild(q) ==
  \/ /\ Send(Drained)
     /\ NewWindow
     /\ running' = Resolve(q) /\ built' = Factory(q)
     /\ Install(q)
  \/ /\ SendFails(Drained)
     /\ DrainWindow
     /\ StartTimer
     /\ UNCHANGED <<plugin, running, built, period>>

\* update_config keeps the window that is open, whatever the new size.
Update(q) ==
  /\ running' = Resolve(q)
  /\ Install(q)
  /\ UNCHANGED <<window, built, out, lost>>

Config(q) ==
  /\ Idle
  /\ updates < MaxUpdates
  /\ updates' = updates + 1
  /\ Resolves(q)
  /\ \/ RequiresRebuild(plugin, q) /\ Rebuild(q) /\ UNCHANGED orderly
     \/ ~RequiresRebuild(plugin, q) /\ Update(q) /\ orderly' = (orderly /\ q.size = plugin.size)
  /\ UNCHANGED <<msg, points, refused, passed>>

BatchStep == TickFirst \/ ObserveScalar \/ ObserveEnvelope \/ Undecodable \/ Finish

Next ==
  \/ \E b \in Batches : Receive(b)
  \/ BatchStep
  \/ \E now \in Times : TimerTick(now)
  \/ Shutdown
  \/ \E q \in Plugins : Config(q)
  \/ OtherControl

Spec == Init /\ [][Next]_vars

\* The last of the times there are stands for the wall clock far ahead.
LastTime == CHOOSE t \in Times : \A u \in Times : u <= t

\* A batch that was begun is finished, and a timer that runs keeps ticking.
FairSpec ==
  /\ Spec
  /\ WF_vars(BatchStep)
  /\ WF_vars(TimerTick(LastTime))

-----------------------------------------------------------------------------
(* Properties                                                              *)

Received == [id : 1..MaxPoints, obs : Offered]

InMessage == IF msg = NoBatch THEN {} ELSE Elements(msg.todo)
InWindow == PointsOf(ActiveEntries)
InReady == IF msg = NoBatch THEN {} ELSE PointsOf(msg.ready)

\* Every point received is in one place and one only: still in its batch, in the
\* window, in an envelope the handler of the batch holds, in one that was sent,
\* refused, or given up with a failed message or window.  No tick, rebuild,
\* shutdown or early return loses one silently or sends it twice.
Accounted ==
  LET Places == <<InMessage, InWindow, InReady, PointsOf(out), refused, lost>>
  IN  /\ {in.id : in \in UNION Elements(Places)} = 1..points
      /\ \A i, j \in DOMAIN Places : i # j => Places[i] \cap Places[j] = {}
      /\ \A e, f \in out : e # f => e.sketch \cap f.sketch = {}

Scalars(e) == {in \in e.sketch : in.obs.kind = "scalar"}

\* As long as the points come window by window (each batch of one window, none
\* behind a window that event time or the timer, less its grace, has passed,
\* and neither a shutdown nor a new size in between), every scalar leaves in the
\* envelope of the window its time is in: neither the timer, nor the tick by
\* the first point, nor a rebuild moves it to another one.
OwnWindow ==
  orderly => \A e \in out : \A in \in Scalars(e) :
               e.range[1] <= in.obs.ts /\ in.obs.ts < e.range[2]

\* Between messages the precompute is what the configuration describes, sketch
\* factory and default key included, and the timer has its period, whatever
\* the configurations were before; and no envelope carries the type of one
\* configuration and a sketch of another's.
RunsAsConfigured ==
  /\ Idle => /\ running = Resolve(plugin)
             /\ built = Factory(plugin)
             /\ period = TimerPeriod(plugin)
  /\ \A e \in out : e.type = e.made.type

\* Once a timer could be started, a window that event time no longer closes is
\* closed by it, through any change of its period: what the window holds is sent
\* or given up in the end, unless the processor has stopped.
IdleWindowsClose ==
  \A n \in 1..MaxPoints :
    ( /\ timer \/ ~TimersFail
      /\ activeEnd + Grace <= LastTime
      /\ \E in \in InWindow : in.id = n )
    ~> (stopped \/ \E in \in PointsOf(out) \cup lost : in.id = n)

=============================================================================
