---------------------------- MODULE WindowMerge ----------------------------
(***************************************************************************)
(* The window_merge processor of                                           *)
(* asap-precompute-rs/src/otap/window_merge.rs: sketches of many sources   *)
(* are merged by the window they describe, and a window is emitted when    *)
(* enough messages carried it or Grace after its end.  The processor is    *)
(* single-threaded: an action is a whole message handler.  The sources     *)
(* send windows in order, each over a channel that loses or repeats        *)
(* messages.                                                               *)
(*                                                                         *)
(* Definitions marked "Mutant" are no part of the model, as in WindowState.*)
(***************************************************************************)
EXTENDS Naturals, FiniteSets

CONSTANTS
  Sources,      \* the upstream branches
  Ends,         \* the ends of the windows they send
  Keys,         \* the series keys in play
  Contents,     \* the contents of a message
  Times,        \* the readings of this host's clock
  Grace,        \* config.grace
  Quorum,       \* config.sources; 0 waits the full grace
  Repeats,      \* whether a source may send a window twice
  Failures,     \* whether decoding, merging, serialising and sending may fail
  TimersFail,   \* whether starting the timer may fail
  MaxMessages   \* bound on the messages of a source

\* What a message carries: sketches of windows, and perhaps scalars.
ContentType == [sketches : SUBSET (Ends \X Keys), scalars : BOOLEAN]

ASSUME ConstantsAssumption ==
  /\ Ends \subseteq Nat \ {0}
  /\ IsFiniteSet(Ends) /\ IsFiniteSet(Sources)
  /\ Contents \subseteq ContentType
  /\ Times \subseteq Nat
  /\ Grace \in Nat /\ Quorum \in Nat /\ MaxMessages \in Nat
  /\ {Repeats, Failures, TimersFail} \subseteq BOOLEAN

VARIABLES
  open,          \* the keys of `windows`: ends of the windows waiting for sources
  held,          \* the sketches merged in them
  emittedUntil,  \* the last window end emitted
  late,          \* the sketches counted as late
  arrived,       \* the keys of the arrival times
  messages,      \* per window, the messages that carried it
  timer,         \* timer_started
  stopped,       \* ended by an error
  sent,          \* per source, what it has sent so far
  received,      \* history: the sketches that arrived
  out,           \* history: the envelopes emitted
  lost,          \* history: sketches refused, skipped or in a batch not sent
  scalars,       \* history: the messages that carried scalars
  passed,        \* history: those whose scalars were passed on
  timedOut,      \* history: the windows the grace closed
  repeated       \* history: some source has sent a window twice

merger == <<open, held, emittedUntil, late, arrived, messages>>
vars == <<merger, timer, stopped, sent, received, out, lost, scalars, passed, timedOut, repeated>>

\* A sketch is named by its source, the number of its message, its window's end
\* and its series key.
Sketches == [from : Sources, no : 1..MaxMessages, end : Ends, key : Keys]

EndsOf(sketches) == {x.end : x \in sketches}

Init ==
  /\ open = {} /\ held = {} /\ emittedUntil = 0 /\ late = {} /\ arrived = {}
  /\ messages = [e \in Ends |-> 0]
  /\ timer = FALSE /\ stopped = FALSE
  /\ sent = [s \in Sources |-> [count |-> 0, last |-> 0]]
  /\ received = {} /\ out = {} /\ lost = {} /\ scalars = {} /\ passed = {} /\ timedOut = {}
  /\ repeated = FALSE

-----------------------------------------------------------------------------
(* What the sources do.                                                    *)

\* A source sends windows in order; a repeat sends its last window again.
InOrder(s, ends) ==
  \A e \in ends : e > sent[s].last \/ (Repeats /\ e = sent[s].last)

New(s, content) ==
  {[from |-> s, no |-> sent[s].count + 1, end |-> p[1], key |-> p[2]] : p \in content.sketches}

\* Source s sends its next message.
Send(s, content) ==
  LET ends == EndsOf(New(s, content)) IN
  /\ sent[s].count < MaxMessages
  /\ InOrder(s, ends)
  /\ \E last \in ends \cup {sent[s].last} :
       /\ \A e \in ends \cup {sent[s].last} : e <= last
       /\ sent' = [sent EXCEPT ![s] = [count |-> sent[s].count + 1, last |-> last]]
  /\ received' = received \cup New(s, content)
  /\ repeated' = (repeated \/ sent[s].last \in ends)
  /\ scalars' = IF content.scalars THEN scalars \cup {<<s, sent[s].count + 1>>} ELSE scalars

-----------------------------------------------------------------------------
(* The steps of a handler.                                                 *)

\* Every message first starts the timer, unless it runs.
StartTimer == timer' \in IF timer \/ ~TimersFail THEN {TRUE} ELSE BOOLEAN

\* Mutant, for WindowsInOrder: the window emitted last still takes sketches.
LateAfterOnly(x) == x.end < emittedUntil

Late(x) == x.end <= emittedUntil

\* The counts after a message that carried windows.
Carried(windows) ==
  [e \in Ends |-> IF e \in windows /\ e > emittedUntil THEN messages[e] + 1 ELSE messages[e]]

\* Mutant, for WindowsClose: the grace is for when no quorum is configured.
GraceWithoutQuorum(now) == {e \in Ends : Quorum = 0 /\ e + Grace <= now}

\* The windows the clock closes at now.
GraceOver(now) == {e \in Ends : e + Grace <= now}

\* Mutant, for EverySourceIn: what completes a window completes the later ones.
CompleteAll(counts) == {e \in Ends : \E c \in Ends : Quorum > 0 /\ counts[c] >= Quorum}

\* Mutant, for LateHasACause: one source short.
CompleteBut1(counts) ==
  {e \in Ends : \E c \in Ends : e <= c /\ Quorum > 0 /\ counts[c] + 1 >= Quorum}

\* Those that enough messages carried, and every earlier one.
Complete(counts) ==
  {e \in Ends : \E c \in Ends : e <= c /\ Quorum > 0 /\ counts[c] >= Quorum}

\* Mutant, for Accounted: a source's sketch replaces the other's.
MergedOne(sketches) ==
  {[end |-> x.end, key |-> x.key,
    sketches |-> {CHOOSE y \in sketches : y.end = x.end /\ y.key = x.key}] : x \in sketches}

\* One envelope per window and series, of all the sketches held for it.
Merged(sketches) ==
  {[end |-> x.end, key |-> x.key,
    sketches |-> {y \in sketches : y.end = x.end /\ y.key = x.key}] : x \in sketches}

SketchesOf(envelopes) == UNION {env.sketches : env \in envelopes}

\* A decoded scalar is a value without an envelope; an envelope without a payload
\* would be passed on, but the codec makes none.
DecodedKind(item) == IF item = "sketch" THEN "Envelope" ELSE "Float"

PassThrough(id) ==
  IF DecodedKind("scalar") = "Envelope" THEN passed \cup {id} ELSE passed

\* due and emit: close the windows of `closing` among `windows`, which hold
\* `pool`.  An envelope that fails to serialise is skipped, and a batch that fails
\* to be encoded or sent is gone.  A batch or timing gauges that fail to be sent
\* are an error, and a batch that fails to be sent leaves its arrival times behind.
Emit(closing, windows, pool, arrivals, counts, refused) ==
  LET ready == Merged({x \in pool : x.end \in closing})
      ends == windows \cap closing
  IN
  /\ open' = windows \ closing
  /\ held' = {x \in pool : x.end \notin closing}
  /\ messages' = [e \in Ends |-> IF e \in closing THEN 0 ELSE counts[e]]
  /\ emittedUntil' \in ends \cup {emittedUntil}
  /\ \A e \in ends \cup {emittedUntil} : e <= emittedUntil'
  /\ \E skipped \in IF Failures THEN SUBSET ready ELSE {{}} :
       LET batch == ready \ skipped
           timed == /\ arrived' = arrivals \ {env.end : env \in batch}
                    /\ stopped' \in {stopped, stopped \/ (Failures /\ batch # {})}
       IN \/ /\ out' = out \cup batch
             /\ lost' = lost \cup refused \cup SketchesOf(skipped)
             /\ timed
          \/ /\ Failures /\ batch # {}
             /\ out' = out
             /\ lost' = lost \cup refused \cup SketchesOf(ready)
             /\ timed \/ (arrived' = arrivals /\ stopped' = TRUE)

-----------------------------------------------------------------------------
(* The handlers.                                                           *)

\* A message of source s at time now.  A sketch that refuses to be merged opens
\* its window all the same.
PData(s, content, now) ==
  LET new == New(s, content)
      kept == {x \in new : ~Late(x)}
      windows == open \cup EndsOf(kept)
      counts == Carried(EndsOf(new))
  IN
  /\ ~stopped
  /\ Send(s, content)
  /\ StartTimer
  /\ late' = late \cup (new \ kept)
  /\ passed' = PassThrough(<<s, sent[s].count + 1>>)
  /\ timedOut' = timedOut \cup (windows \cap (GraceOver(now) \ Complete(counts)))
  /\ \E refused \in IF Failures THEN SUBSET kept ELSE {{}} :
       Emit(GraceOver(now) \cup Complete(counts), windows, held \cup (kept \ refused),
            arrived \cup EndsOf(kept), counts, refused)

\* A message that cannot be acknowledged, which is an error, or be decoded.
Unread(s, content) ==
  /\ ~stopped /\ Failures
  /\ Send(s, content)
  /\ StartTimer
  /\ lost' = lost \cup New(s, content)
  /\ stopped' \in BOOLEAN
  /\ UNCHANGED <<merger, out, passed, timedOut>>

\* Close windows, and take nothing in.
CloseOnly(closing) ==
  /\ Emit(closing, open, held, arrived, messages, {})
  /\ UNCHANGED <<late, sent, received, scalars, passed, repeated>>

TimerTick(now) ==
  /\ ~stopped /\ timer
  /\ StartTimer
  /\ timedOut' = timedOut \cup (open \cap (GraceOver(now) \ Complete(messages)))
  /\ CloseOnly(GraceOver(now) \cup Complete(messages))

\* Everything goes, due at the largest time.
Shutdown ==
  /\ ~stopped
  /\ StartTimer
  /\ timedOut' = timedOut \cup open
  /\ CloseOnly(Ends)

\* Any other control message.
OtherControl ==
  /\ ~stopped
  /\ StartTimer
  /\ UNCHANGED <<merger, stopped, sent, received, out, lost, scalars, passed, timedOut, repeated>>

Next ==
  \/ \E now \in Times :
       \/ \E s \in Sources, content \in Contents : PData(s, content, now)
       \/ TimerTick(now)
  \/ \E s \in Sources, content \in Contents : Unread(s, content)
  \/ Shutdown
  \/ OtherControl

Spec == Init /\ [][Next]_vars

\* The engine keeps the timer ticking and the clock gets past every window's
\* grace.
TickAfterAll == \E now \in Times : GraceOver(now) = Ends /\ TimerTick(now)

LiveSpec == Spec /\ WF_vars(TickAfterAll)

-----------------------------------------------------------------------------
(* Properties.                                                             *)

Messages == Sources \X (1..MaxMessages)

Envelopes == [end : Ends, key : Keys, sketches : SUBSET Sketches]

TypeOK ==
  /\ open \subseteq Ends /\ held \subseteq Sketches
  /\ emittedUntil \in Nat
  /\ {late, lost, received} \subseteq SUBSET Sketches
  /\ arrived \subseteq Ends
  /\ messages \in [Ends -> Nat]
  /\ timer \in BOOLEAN /\ stopped \in BOOLEAN /\ repeated \in BOOLEAN
  /\ sent \in [Sources -> [count : Nat, last : Nat]]
  /\ out \subseteq Envelopes
  /\ scalars \subseteq Messages /\ passed \subseteq Messages
  /\ timedOut \subseteq Ends

\* A window is emitted once, and windows in order: whatever comes out now ends
\* after everything that came out before, however late or often a source sent.
WindowsInOrder ==
  [][\A env \in out' \ out : \A old \in out : env.end > old.end]_vars

\* Every sketch that arrived is held in an open window, or in one envelope, or
\* was counted as late or lost to a failure, and only one of these: a window that
\* closes while others stay open loses none and leaves none behind.
Accounted ==
  /\ received = held \cup SketchesOf(out) \cup late \cup lost
  /\ late \cap lost = {}
  /\ held \cap (SketchesOf(out) \cup late \cup lost) = {}
  /\ SketchesOf(out) \cap (late \cup lost) = {}
  /\ \A e, f \in out : e # f => e.sketches \cap f.sketches = {}
  /\ EndsOf(held) \subseteq open

\* If the quorum is every source and none sends a window twice, a window that the
\* grace (or the shutdown) did not close is emitted when every source has sent
\* it, or a later one.
EverySourceIn ==
  Quorum = Cardinality(Sources) /\ ~repeated =>
    \A env \in out : env.end \notin timedOut => \A s \in Sources : sent[s].last >= env.end

\* Then nothing is late, but for the grace or a repeat.
LateHasACause ==
  Quorum = Cardinality(Sources) /\ late # {} => repeated \/ timedOut # {}

\* An open window does not stay open: a missing source, or one whose messages
\* cannot be read, delays it until the grace is over.
WindowsClose ==
  \A e \in Ends : e \in open ~> (e \notin open \/ stopped)

=============================================================================
