------------------------------ MODULE Answers ------------------------------
(***************************************************************************)
(* The answers of asap-precompute-rs/src/answers.rs and the nodes that     *)
(* give them: a sketch_detector and an exact_detector (otap/               *)
(* answer_nodes.rs and baseline_nodes.rs) each answer the merged windows   *)
(* of their pipeline and tell what changed, and heavy_hitter_accuracy      *)
(* (otap/hh_accuracy.rs) sets the two side by side.  The pipelines are not *)
(* in step, and each may miss windows.                                     *)
(*                                                                         *)
(* A window holds series of values, all of one distribution, and a series  *)
(* of counts of an attribute's values.  Ratios are in percent.             *)
(*                                                                         *)
(* Definitions marked "Mutant" are no part of the model: each is a         *)
(* plausible mistake in the definition after it.                           *)
(***************************************************************************)
EXTENDS Naturals, Sequences, Functions, FiniteSets

CONSTANTS
  Contents,           \* what a window may hold
  Sketched,           \* for each content, what the sketches may make of it
  ValueSeries,        \* the series of values, numbered in the order of their labels
  K,                  \* config.k of the detectors and of heavy_hitter_accuracy
  Phi,                \* config.phi
  MinHistory,         \* windows before there is a baseline: 3
  CardinalityWindows, \* cardinality.baseline_windows
  MinPoints,          \* cardinality.min_points
  IdentifierRatio,    \* cardinality.identifier_ratio
  Growth,             \* cardinality.growth
  NoveltyWindows,     \* config.novelty_windows
  DriftWindows,       \* drift.baseline_windows
  DriftPoints,        \* drift.min_points
  KsThreshold,        \* drift.ks_threshold
  MaxOpen,            \* MAX_OPEN_WINDOWS
  MaxWindows,         \* bound on the windows
  MaxFaults           \* bound on the windows missed and the messages lost

\* What a window is: the distribution of the values, the counts of the keys, how
\* many keys there are and how many points.  A window is never empty.
IsWindow(w) ==
  /\ w = [dist |-> w.dist, counts |-> w.counts, distinct |-> w.distinct, points |-> w.points]
  /\ IsFiniteSet(w.counts) /\ w.counts # {}
  /\ \A x \in w.counts : x = [key |-> x.key, count |-> x.count] /\ {x.key, x.count} \subseteq Nat
  /\ w.distinct \in Nat /\ w.points \in Nat \ {0}

Windows == Contents \cup UNION {Sketched[c] : c \in Contents}

ASSUME AnswersAssumption ==
  /\ \A w \in Windows : IsWindow(w)
  /\ ValueSeries \subseteq Nat \ {0}
  /\ {K, Phi, NoveltyWindows, CardinalityWindows, DriftWindows} \subseteq Nat

VARIABLES
  truth,      \* the windows so far, one after the other
  detectors,  \* per method, the detector: see Fresh
  answers,    \* per method, the messages on their way to heavy_hitter_accuracy
  open,       \* its entries: the answers of one window and series
  events,     \* history, per method: the events told, those of new keys as a set
  answered,   \* history: the answers given, by window and method
  read,       \* history: the windows and methods whose answers have arrived
  reported,   \* history: the accuracies reported
  unsent,     \* history: windows whose accuracy could not be encoded
  evicted,    \* history: windows and series given up
  faults,     \* the faults so far
  silent      \* history: the methods that lost events

vars == <<truth, detectors, answers, open, events, answered, read, reported, unsent, evicted,
          faults, silent>>

Methods == {"sketch", "exact"}

\* The labels of the counts come before those of any series of values.
CountSeries == 0

\* A detector: the next window, and what its trackers remember.
Fresh ==
  [next |-> 1,
   distincts |-> <<>>, state |-> "none",
   tops |-> <<>>,
   baselines |-> <<>>, drifting |-> FALSE]

Init ==
  /\ truth = <<>>
  /\ detectors = [m \in Methods |-> Fresh]
  /\ answers = [m \in Methods |-> <<>>]
  /\ open = {}
  /\ events = [m \in Methods |-> [drift |-> <<>>, class |-> <<>>, novelty |-> {}]]
  /\ answered = {} /\ read = {} /\ reported = {} /\ unsent = {} /\ evicted = {}
  /\ faults = 0 /\ silent = {}

-----------------------------------------------------------------------------
(* The answers of a window.                                                *)

\* Keys are ranked by count.
Ahead(x, y) == x.count > y.count \/ (x.count = y.count /\ x.key < y.key)

Rank(counts, x) == Cardinality({y \in counts : Ahead(y, x)}) + 1

\* The first K of them.
TopK(counts) ==
  {[rank |-> Rank(counts, x), key |-> x.key, count |-> x.count] :
     x \in {x \in counts : Rank(counts, x) <= K}}

KeysOf(top) == {x.key : x \in top}

\* What a tracker remembers after a window: at most n windows.
Remember(history, x, n) ==
  LET longer == Append(history, x) IN IF Len(longer) > n THEN Tail(longer) ELSE longer

\* CardinalityClassifier: the class of a window against its own recent windows.
Classify(distincts, distinct, points) ==
  LET total == FoldFunction(+, 0, distincts) IN
  CASE 100 * distinct >= IdentifierRatio * points -> "identifier-like"
    [] 100 * distinct < IdentifierRatio * points
         /\ Len(distincts) >= MinHistory
         /\ 100 * distinct * Len(distincts) > total * (100 + Growth) -> "growing"
    [] OTHER -> "stable"

\* CardinalityClassifier::observe
ObserveCardinality(d, distinct, points) ==
  IF points < MinPoints THEN d
  ELSE [d EXCEPT !.state = Classify(d.distincts, distinct, points),
                 !.distincts = Remember(@, distinct, CardinalityWindows)]

\* NoveltyTracker::observe: the keys that no remembered window has in its top.
NewKeys(d, top) ==
  IF Len(d.tops) < MinHistory THEN {}
  ELSE {key \in KeysOf(top) : \A i \in DOMAIN d.tops : key \notin d.tops[i]}

ObserveTop(d, top) ==
  IF top = {} THEN d ELSE [d EXCEPT !.tops = Remember(@, KeysOf(top), NoveltyWindows)]

\* The distance of a distribution from the merge of others.  Each is a point
\* mass, and all windows weigh the same.
KsDistance(current, baselines) ==
  (100 * Cardinality({i \in DOMAIN baselines : baselines[i] # current})) \div Len(baselines)

Tested(d, points) == Len(d.baselines) >= MinHistory /\ points >= DriftPoints

\* drift and DriftTracker::observe: the baseline takes every window, drifted or not.
ObserveValues(d, current, points) ==
  [d EXCEPT !.drifting = IF Tested(d, points) THEN KsDistance(current, d.baselines) > KsThreshold ELSE @,
            !.baselines = Remember(@, current, DriftWindows)]

Event(end, what) == [end |-> end, what |-> what]

\* Mutant, for EventsTellState: every drifted window is told.
DriftEventsAlways(d, new, end) == IF new.drifting THEN <<Event(end, TRUE)>> ELSE <<>>

\* A series starts or stops drifting.
DriftEvents(d, new, end) ==
  IF new.drifting # d.drifting THEN <<Event(end, new.drifting)>> ELSE <<>>

CardinalityEvents(d, new, end) ==
  IF new.state # d.state THEN <<Event(end, new.state)>> ELSE <<>>

\* The answers of a window, as heavy_hitter_accuracy reads them: the points of
\* every series, and the top of the counts.
AnswersOf(end, window) ==
  {[end |-> end, series |-> s, points |-> window.points, top |-> {}] : s \in ValueSeries}
    \cup {[end |-> end, series |-> CountSeries, points |-> window.points,
           top |-> TopK(window.counts)]}

-----------------------------------------------------------------------------
(* The detectors.                                                          *)

\* The next window ends.
Feed(content) ==
  /\ Len(truth) < MaxWindows
  /\ truth' = Append(truth, content)
  /\ UNCHANGED <<detectors, answers, open, events, answered, read, reported, unsent, evicted,
                 faults, silent>>

\* A detector's pipeline has lost its next window, or it cannot be read.
Miss(m) ==
  /\ faults < MaxFaults /\ detectors[m].next <= Len(truth)
  /\ detectors' = [detectors EXCEPT ![m].next = @ + 1]
  /\ faults' = faults + 1
  /\ UNCHANGED <<truth, answers, open, events, answered, read, reported, unsent, evicted, silent>>

\* What a detector may see of a window: itself, or what the sketches make of it.
Seen(m, end) == IF m = "exact" THEN {truth[end]} ELSE Sketched[truth[end]]

\* The detector when it has tracked a window: drift, novelty, cardinality.
Observed(d, window) ==
  ObserveCardinality(
    ObserveTop(ObserveValues(d, window.dist, window.points), TopK(window.counts)),
    window.distinct, window.points)

\* The events told so far, and those of a window.
Told(told, d, new, window) ==
  [drift |-> told.drift \o DriftEvents(d, new, d.next),
   class |-> told.class \o CardinalityEvents(d, new, d.next),
   novelty |-> told.novelty \cup {Event(d.next, key) : key \in NewKeys(d, TopK(window.counts))}]

SendAnswers(m, end, window) ==
  /\ answers' = [answers EXCEPT ![m] = Append(@, AnswersOf(end, window))]
  /\ answered' = answered \cup {[end |-> end, method |-> m, window |-> window]}

SendEvents(m, told) == events' = [events EXCEPT ![m] = told]

\* emit, of the answers and then of the events: either may fail to be encoded.
Sent(m, end, window, told) ==
  \/ SendAnswers(m, end, window) /\ SendEvents(m, told) /\ UNCHANGED <<faults, silent>>
  \/ /\ faults < MaxFaults /\ faults' = faults + 1
     /\ \/ SendEvents(m, told) /\ UNCHANGED <<answers, answered, silent>>
        \/ /\ SendAnswers(m, end, window) /\ UNCHANGED events
           /\ silent' = silent \cup {m}

\* A detector answers its next window.  The trackers move on whether or not the
\* answers are sent.  A failed send to the next node ends the detector, which is
\* as if it missed every later window.
Answer(m, window) ==
  LET d == detectors[m]
      new == Observed(d, window)
  IN
  /\ d.next <= Len(truth)
  /\ window \in Seen(m, d.next)
  /\ detectors' = [detectors EXCEPT ![m] = [new EXCEPT !.next = @ + 1]]
  /\ Sent(m, d.next, window, Told(events[m], d, new, window))
  /\ UNCHANGED <<truth, open, read, reported, unsent, evicted>>

-----------------------------------------------------------------------------
(* heavy_hitter_accuracy.                                                  *)

NoAnswer == [points |-> 0, top |-> {}]

\* The entry of an answer's window and series.
EntryOf(entries, a) ==
  LET same == {x \in entries : x.end = a.end /\ x.series = a.series}
  IN IF same # {} THEN CHOOSE x \in same : TRUE
     ELSE [end |-> a.end, series |-> a.series, by |-> [m \in Methods |-> NoAnswer]]

\* observe, of each answer of a message: it is added to its entry.  A message has
\* one answer of a window and series.
Observe(entries, m, message) ==
  {x \in entries : \A a \in message : x.end # a.end \/ x.series # a.series}
    \cup {[EntryOf(entries, a) EXCEPT !.by[m] = [points |-> a.points, top |-> @.top \cup a.top]] :
            a \in message}

\* Mutant, for Paired: the exact answers do not wait for the sketch's.
ExactOnly(x) == x.by["exact"].points > 0 /\ x.by["exact"].top # {}

\* Both methods have answered.
Both(x) == x.by["exact"].points > 0 /\ x.by["sketch"].top # {} /\ x.by["exact"].top # {}

Reaches(x, points) == 100 * x.count >= Phi * points

\* Mutant, for TruthWhole: a full list whose last count is the threshold is whole.
CutShortAbove(top, points) ==
  Cardinality(top) >= K /\ \A x \in top : 100 * x.count > Phi * points

\* A full list, all of it above the threshold, may hide heavy hitters.
CutShort(top, points) == Cardinality(top) >= K /\ \A x \in top : Reaches(x, points)

\* heavy_hitter_accuracy: how many of the heavy hitters the sketch reports.
Accuracy(x) ==
  LET points == x.by["exact"].points
      heavy == {y \in x.by["exact"].top : Reaches(y, points)}
      listed == {y \in x.by["sketch"].top : Reaches(y, points)}
  IN [end |-> x.end, series |-> x.series,
      incomplete |-> CutShort(x.by["exact"].top, points) \/ CutShort(x.by["sketch"].top, points),
      truth |-> KeysOf(heavy), reported |-> KeysOf(listed),
      truePositives |-> KeysOf(heavy) \cap KeysOf(listed)]

\* The entries in order of window, then series.
Before(x, y) == x.end < y.end \/ (x.end = y.end /\ x.series < y.series)

\* ready: the oldest entries go when there are too many.
Kept(entries) ==
  {x \in entries : Cardinality({y \in entries : Before(x, y)}) < MaxOpen}

\* The accuracies of the entries that are complete.  A report that fails to be
\* encoded is gone, and the entries with it.
Report(done) ==
  \/ reported' = reported \cup {Accuracy(x) : x \in done} /\ UNCHANGED <<unsent, faults>>
  \/ /\ done # {} /\ faults < MaxFaults /\ faults' = faults + 1
     /\ unsent' = unsent \cup {x.end : x \in done} /\ UNCHANGED reported

\* The next message of a detector arrives.
Arrive(m) ==
  LET message == Head(answers[m])
      entries == Observe(open, m, message)
      done == {x \in entries : Both(x)}
      waiting == entries \ done
  IN
  /\ answers[m] # <<>>
  /\ answers' = [answers EXCEPT ![m] = Tail(@)]
  /\ read' = read \cup {<<a.end, m>> : a \in message}
  /\ open' = Kept(waiting)
  /\ evicted' = evicted \cup {<<x.end, x.series>> : x \in waiting \ Kept(waiting)}
  /\ Report(done)
  /\ UNCHANGED <<truth, detectors, events, answered, silent>>

Next ==
  \/ \E content \in Contents : Feed(content)
  \/ \E m \in Methods :
       \/ Miss(m)
       \/ \E window \in Windows : Answer(m, window)
       \/ Arrive(m)

Spec == Init /\ [][Next]_vars

-----------------------------------------------------------------------------
(* Properties.                                                             *)

Heavy(counts, points) == KeysOf({x \in counts : Reaches(x, points)})

\* An accuracy is reported only if the lists, of at most K keys, hold all there is
\* to compare: every heavy hitter of the window, and every key that the sketch
\* takes for one.
TruthWhole ==
  \A r \in reported : ~r.incomplete =>
    /\ r.truth = Heavy(truth[r.end].counts, truth[r.end].points)
    /\ \E a \in answered :
         /\ a.end = r.end /\ a.method = "sketch"
         /\ r.reported = Heavy(a.window.counts, truth[r.end].points)

\* When both methods' answers for a window have come, in whatever order and
\* however far apart, it is reported once, unless it was given up or the report
\* was lost; before, it is not.
Paired ==
  \A e \in DOMAIN truth :
    LET reports == {r \in reported : r.end = e}
        bothRead == \A m \in Methods : <<e, m>> \in read
        given == <<e, CountSeries>> \in evicted
    IN /\ Cardinality(reports) <= 1
       /\ reports # {} => bothRead /\ ~given /\ e \notin unsent
       /\ bothRead => reports # {} \/ given \/ e \in unsent

\* What has been told of a series is what its tracker holds: drift begins and ends
\* in turn, a class is told when it changes and the last one told is the current
\* one, and a key is not told as new again while windows with it are remembered.
EventsTellState ==
  \A m \in Methods :
    LET drifts == events[m].drift
        classes == events[m].class
        keys == events[m].novelty
    IN /\ m \notin silent =>
            /\ \A i \in DOMAIN drifts : drifts[i].what = (i % 2 = 1)
            /\ detectors[m].drifting = (Len(drifts) % 2 = 1)
            /\ \A i \in 2..Len(classes) : classes[i].what # classes[i - 1].what
            /\ detectors[m].state = IF classes = <<>> THEN "none" ELSE classes[Len(classes)].what
       /\ \A a, b \in keys :
            a.what = b.what /\ a.end < b.end => b.end > a.end + NoveltyWindows
=============================================================================
