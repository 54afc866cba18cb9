---------------------------- MODULE WindowState ----------------------------
(***************************************************************************)
(* The general tumbling-window manager of asap-precompute-rs/src/window.rs *)
(* together with the series keys of config.rs and matchers.rs: one active  *)
(* window [activeStart, activeEnd) and one sketch per series.              *)
(*                                                                         *)
(* The operations are actions of this module's variables; a module that    *)
(* owns a window, like Precompute, conjoins them with its own steps.       *)
(* A sketch is abstracted to the set of inputs it summarises, an input     *)
(* being a record [id, obs]; timestamps and sizes are naturals (u64        *)
(* milliseconds, far from overflow).                                       *)
(*                                                                         *)
(* Definitions marked "Mutant" are no part of the model: each is a wrong   *)
(* variant of the definition after it, and the property it names must      *)
(* fail when it takes that definition's place.                             *)
(***************************************************************************)
EXTENDS Integers, FiniteSets

CONSTANT NoResource   \* the empty list of resource attributes

VARIABLES
  series,         \* the active window's series: key -> entry
  activeStart,    \* inclusive lower bound of the active window
  activeEnd,      \* exclusive upper bound of the active window
  initialized,    \* whether the bounds have been set
  activeSeries,   \* StatsSnapshot.active_series
  accepted,       \* history: the inputs some sketch has absorbed
  discarded       \* history: absorbed inputs that were given up again

windowVars == <<series, activeStart, activeEnd, initialized, activeSeries>>

NoLabels == <<>>

WindowInit ==
  /\ series = <<>>
  /\ activeStart = 0
  /\ activeEnd = 0
  /\ initialized = FALSE
  /\ activeSeries = 0
  /\ accepted = {}
  /\ discarded = {}

-----------------------------------------------------------------------------
(* Series identity.  A label set is a function from label names to values; *)
(* c.by is aggregate_by (empty: every label).  c.strip says which of the   *)
(* parity flags is set: "all" is global_aggregation, "resource" is         *)
(* omit_resource_attrs, "none" is neither.                                 *)

SeriesAttrs(labels, by) ==
  IF by = {} THEN labels ELSE [n \in DOMAIN labels \cap by |-> labels[n]]

StrippedResource(c, res) == IF c.strip = "none" THEN res ELSE NoResource

StrippedLabels(c, labels) == IF c.strip = "all" THEN NoLabels ELSE labels

\* Mutant, for SeriesPure: the resource does not take part in the key.
KeyWithoutResource(c, res, labels) ==
  <<c.agg, SeriesAttrs(StrippedLabels(c, labels), c.by)>>

SeriesKey(c, res, labels) ==
  <<c.agg, StrippedResource(c, res), SeriesAttrs(StrippedLabels(c, labels), c.by)>>

KeyOf(in, c) == SeriesKey(c, in.obs.res, in.obs.labels)

-----------------------------------------------------------------------------
(* Window bounds.                                                          *)

\* Mutant, for TypeOK: one bucket too early, below zero for the first.
BucketBefore(t, size) == IF size = 0 THEN t ELSE (t \div size - 1) * size

Bucket(t, size) == IF size = 0 THEN t ELSE (t \div size) * size

\* The bounds that init_window leaves: unchanged once they are set.
OpenStart(ref, c) == IF initialized THEN activeStart ELSE Bucket(ref, c.size)

\* Mutant, for WindowsDisjoint: the end is not aligned.
UnalignedEnd(ref, c) == IF initialized THEN activeEnd ELSE ref + c.size

OpenEnd(ref, c) == IF initialized THEN activeEnd ELSE Bucket(ref, c.size) + c.size

InitWindow(ref, c) ==
  /\ activeStart' = OpenStart(ref, c)
  /\ activeEnd' = OpenEnd(ref, c)
  /\ initialized' = TRUE

\* Mutant, for WindowsMoveOn: no check that the bucket lies ahead.
NextBucket(now, c) == Bucket(now, c.size)

\* The start of the window that follows: the bucket that holds now, or the
\* old end when that would not move forward.  Unsized windows follow now.
NextStart(now, c) ==
  IF c.size > 0 /\ Bucket(now, c.size) <= activeStart
  THEN activeEnd ELSE Bucket(now, c.size)

AdvanceWindow(now, c) ==
  /\ activeStart' = NextStart(now, c)
  /\ activeEnd' = NextStart(now, c) + c.size
  /\ UNCHANGED initialized

-----------------------------------------------------------------------------
(* Entries.                                                                *)

\* The series once entry e is stored under key k.
Put(k, e) == [j \in DOMAIN series \cup {k} |-> IF j = k THEN e ELSE series[j]]

\* Mutant, for NothingLost: the entry starts over.
StartOver(e, in, n) == [e EXCEPT !.sketch = {in}, !.count = n]

Absorb(e, in, n) == [e EXCEPT !.sketch = @ \cup {in}, !.count = @ + n]

NewEntry(res, labels, ts) ==
  [res |-> res, labels |-> labels, seen |-> ts, count |-> 0, sketch |-> {}]

Touch(e, ts) == [e EXCEPT !.seen = IF ts > @ THEN ts ELSE @]

\* Mutant, for LatenessHonoured: measured against the input's own bucket.
LateInOwnBucket(in, c) ==
  c.lateness > 0 /\ in.obs.ts + c.lateness < Bucket(in.obs.ts, c.size)

IsLate(in, c) == c.lateness > 0 /\ in.obs.ts + c.lateness < OpenStart(in.obs.ts, c)

\* Mutant, for CapHonoured: one series too many.
PastCap(c) == c.maxSeries > 0 /\ Cardinality(DOMAIN series) > c.maxSeries

AtCap(c) == c.maxSeries > 0 /\ Cardinality(DOMAIN series) >= c.maxSeries

\* The series an eviction may pick: the map's order decides between ties.
Oldest == {k \in DOMAIN series : \A j \in DOMAIN series : series[k].seen <= series[j].seen}

-----------------------------------------------------------------------------
(* observe: a scalar observation.                                          *)

ObserveLate(in, c) ==
  /\ IsLate(in, c)
  /\ InitWindow(in.obs.ts, c)
  /\ UNCHANGED <<series, activeSeries, accepted, discarded>>

\* A sketch that refuses the value (in.obs.good is false) keeps its content,
\* but the entry has been touched by then.
ObserveKnown(in, c) ==
  LET k == KeyOf(in, c)
      e == Touch(series[k], in.obs.ts)
  IN  /\ ~IsLate(in, c)
      /\ k \in DOMAIN series
      /\ InitWindow(in.obs.ts, c)
      /\ series' = Put(k, IF in.obs.good THEN Absorb(e, in, 1) ELSE e)
      /\ accepted' = IF in.obs.good THEN accepted \cup {in} ELSE accepted
      /\ UNCHANGED <<activeSeries, discarded>>

ObserveOverflow(in, c) ==
  /\ ~IsLate(in, c)
  /\ KeyOf(in, c) \notin DOMAIN series
  /\ AtCap(c)
  /\ c.overflow \in {"Drop", "Block"}
  /\ InitWindow(in.obs.ts, c)
  /\ UNCHANGED <<series, activeSeries, accepted, discarded>>

\* A new series; a refused value leaves the entry behind, empty.
FirstEntry(in, c) ==
  LET e == NewEntry(StrippedResource(c, in.obs.res), StrippedLabels(c, in.obs.labels), in.obs.ts)
  IN  IF in.obs.good THEN Absorb(e, in, 1) ELSE e

ObserveNew(in, c) ==
  /\ ~IsLate(in, c)
  /\ KeyOf(in, c) \notin DOMAIN series
  /\ ~AtCap(c)
  /\ InitWindow(in.obs.ts, c)
  /\ series' = Put(KeyOf(in, c), FirstEntry(in, c))
  /\ activeSeries' = activeSeries + 1
  /\ accepted' = IF in.obs.good THEN accepted \cup {in} ELSE accepted
  /\ UNCHANGED discarded

ObserveEvicting(in, c) ==
  LET k == KeyOf(in, c)
  IN  /\ ~IsLate(in, c)
      /\ k \notin DOMAIN series
      /\ AtCap(c)
      /\ c.overflow = "EvictOldest"
      /\ InitWindow(in.obs.ts, c)
      /\ \E old \in Oldest :
           /\ series' = [j \in (DOMAIN series \ {old}) \cup {k} |->
                           IF j = k THEN FirstEntry(in, c) ELSE series[j]]
           /\ discarded' = discarded \cup series[old].sketch
      /\ accepted' = IF in.obs.good THEN accepted \cup {in} ELSE accepted
      /\ UNCHANGED activeSeries     \* one removed, one added

-----------------------------------------------------------------------------
(* observe_envelope: a sketch to merge.  Its window end is the reference   *)
(* time obs.ts; there is no lateness check, the labels are kept as they    *)
(* come, and only Drop and Block guard the cap.                            *)

MergeOverflow(in, c) ==
  /\ KeyOf(in, c) \notin DOMAIN series
  /\ AtCap(c)
  /\ c.overflow \in {"Drop", "Block"}
  /\ InitWindow(in.obs.ts, c)
  /\ UNCHANGED <<series, activeSeries, accepted, discarded>>

\* A payload that does not merge (obs.good is false) leaves the entry as it was.
MergeInto(in, c) ==
  LET k == KeyOf(in, c)
      known == k \in DOMAIN series
      e == IF known THEN series[k] ELSE NewEntry(in.obs.res, in.obs.labels, in.obs.ts)
  IN  /\ known \/ ~AtCap(c) \/ c.overflow = "EvictOldest"
      /\ InitWindow(in.obs.ts, c)
      /\ series' = Put(k, IF in.obs.good THEN Absorb(e, in, in.obs.count) ELSE e)
      /\ activeSeries' = IF known THEN activeSeries ELSE activeSeries + 1
      /\ accepted' = IF in.obs.good THEN accepted \cup {in} ELSE accepted
      /\ UNCHANGED discarded

-----------------------------------------------------------------------------
(* rotate and drain.  Both hand over the entries and the bounds of the     *)
(* window they close, and move the window on.                              *)

\* Mutant, for EventuallyOut: a window is not due at its very end.
DueAfterEnd(now, c) == initialized /\ (c.size > 0 => now > activeEnd)

RotationDue(now, c) == initialized /\ (c.size > 0 => now >= activeEnd)

DrainDue == initialized /\ series # <<>>

ActiveRange == <<activeStart, activeEnd>>
ActiveEntries == {series[k] : k \in DOMAIN series}

\* Mutant, for NothingTwice and AbstractSpec: the entries are copied out, not taken.
RotateKeeping(now, c) ==
  /\ AdvanceWindow(now, c)
  /\ UNCHANGED <<series, activeSeries, accepted, discarded>>

\* Mutant, for OneEnvelopePerSeries: the window stays where it is.
RotateInPlace(now, c) ==
  /\ series' = <<>>
  /\ UNCHANGED <<activeStart, activeEnd, initialized, activeSeries, accepted, discarded>>

\* active_series is not touched.
RotateWindow(now, c) ==
  /\ series' = <<>>
  /\ AdvanceWindow(now, c)
  /\ UNCHANGED <<activeSeries, accepted, discarded>>

=============================================================================
