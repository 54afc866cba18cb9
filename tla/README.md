# Verification of the ASAP collector's precompute runtime

TLA+ models of `asap-precompute-rs`, the windowed sketch aggregation library of
the ASAP collector and its OTAP dataflow nodes, with TLC runs and TLAPS proofs.
Paths such as `window.rs:127` are relative to `asap-precompute-rs/src/`.

## 1. The system

The collector turns streams of observations (scalars with labels, a resource
and an event timestamp) into sketches (KLL, DDSketch, HLL, Count-Min, Count
Sketch), one per series and per time window, and sends these on as *envelopes*.
Later stages merge the envelopes of several collectors per window, compute
answers and detect drift, novelty and cardinality changes.

| Component | State | Operations | Hard behaviours |
|---|---|---|---|
| `precompute.rs` PrecomputeImpl | active config, window + counters under one mutex, `closed` flag | observe, observe_envelope, tick, drain, update_config, shutdown, from any thread | a call spans several critical sections: stale configuration, two tickers, rotation against observers |
| `window.rs` WindowState | one window: bounds, series map | observe, observe_envelope, rotate, drain, advance_window | cap and eviction, lateness, idle jumps, size changes |
| `config.rs`, `matchers.rs` | none | series keys, matchers, validation | keys must agree between scalars and envelopes |
| `kll_windows.rs` KllWindowStore, KllRollingPrecompute | panes (start -> series -> KLL), `closed_until`; last emit, upstream completeness | advance, observe, merge_pane, query; tick | retention edge, several upstreams, event time against wall clock, silent errors |
| `otap/processor.rs` AsapSketchesProcessor | the precompute, the plugin config, a timer | one message at a time: PData, TimerTick, Config, Shutdown | event-time closing, idle closing, rebuild on reconfiguration |
| `otap/window_merge.rs` WindowMerger | pending windows, `emitted_until`, arrivals, message counts | add, message_carried, take_arrival, due | late envelopes, missing sources, emission order |
| `otap/baseline_nodes.rs` | exact windows; raw points in flight | ExactBranch, ExactMerge, ExactDetector, RawSink | acknowledgements lost or late, deadlines, one report per window |
| `otap/answer_nodes.rs`, `answers.rs`, `otap/hh_accuracy.rs` | per-series history | drift, novelty, cardinality state machines, accuracy of heavy hitters | baselines built over several windows, hysteresis, eviction of open windows |
| `otap/codec.rs` | series IDs that outlive a message; the decoder's scratch observation | encode and decode of envelopes and observations as OTAP record batches | rows grouped by what they share, a buffer reused for every point, failures in mid-message |
| `otap/scenario_generator.rs` | the next batch | the load: batches by the clock, unique and drawn values, scheduled changes | a late start, skipped batches, integer division of a second |
| `sketches/*`, `otap/config.rs`, `bin/*` | - | wrappers of the sketch library, configuration, programs and benchmarks | - |

How they interact: a source node feeds OTAP batches to an AsapSketchesProcessor,
which decodes them (codec), observes each point in its precompute, ticks it and
sends the encoded envelopes downstream; a WindowMerge node collects the
envelopes of several sources and emits each window once; detectors read the
merged windows. The nodes are actors, one message at a time; only the precompute
itself is shared between threads (its trait is `Send + Sync`).

What makes each component correct:

* precompute and window: an absorbed value leaves in exactly one envelope, of
  its own series, in a window that overlaps no other; caps and lateness hold; it
  does leave if ticks keep coming.
* KLL windows: a query is over exactly the panes of its range, or refused; each
  boundary is emitted at most once and in order.
* window merge: each window is emitted once, in order, with everything that came
  before its emission; what came after it is counted as late.
* processor: what it observed is emitted before it shuts down; a window is not
  closed before its points are in.
* exact nodes: every point's share is conserved up to the merge, a window comes
  out once and in order, and a complete one is the truth.
* raw sink: points are conserved whatever the store answers; a window is reported
  once, with everything in it, and eventually.
* detectors: the events tell what the trackers hold; an accuracy is computed from
  whole lists only, and once per window.
* codec: what is encoded is decoded whole, each point by itself; an ID names one
  series.
* generator: no two points share a unique value, and a second has the points its
  rate says.

## 2. The plan

In the order of what matters most to the program:

1. `WindowState`, `Precompute`, `Aggregator` with proofs: done.
2. `WindowMerge` with proofs: done.
3. `KllRolling`, the panes and the rolling estimator on top, with proofs: done.
4. `AsapProcessor`, the OTAP actor around a tumbling window, with proofs: done.
5. `OtapCodec`, the encoder and the peer's decoder, with proofs: done.
6. `ExactBaseline`, branches, transport and merge end to end, with proofs: done.
7. `ScenarioGenerator` and `RawPipeline`, the generator in front of the raw sink and
   its store, with proofs: done.
8. `Answers`, two detectors and the node that compares them, with proofs: done.

The runs are kept to a dozen, so that all of them can be checked in minutes:
claims of smaller weight are in the list of section 4 without a run.  What would
come next: processors with clocks of their own in front of `WindowMerge`, in place
of its assumption that sources send windows in order, and sliding windows inside
`AsapProcessor`.

Abstract specifications: the aggregator (`Aggregator`), which Precompute is proved
to implement. That a node emits each window once and in order is stated of
WindowMerge and of ExactMerge as an action property of each and proved of both.
Theorems still worth proving: conservation in the raw pipeline, and that it reports
a window once and whole.

## 3. Modules

### WindowState

The variables of `WindowState` (window.rs:51) and one action per branch of its
operations. The module has no specification of its own: `Precompute` conjoins
its actions with its own steps, so that whoever owns a window uses the same
definitions.

* A sketch is the *set of inputs it summarises*; an input is `[id, obs]` with an
  id of its own, so that set equality is conservation. `accepted` and
  `discarded` are history: what some sketch absorbed, and what was given up
  afterwards (evicted, or skipped when its window was serialised).
* `observe` (window.rs:127-206) is one of ObserveLate, ObserveKnown, ObserveNew,
  ObserveEvicting, ObserveOverflow; each begins with `init_window`, as the code
  does, so a late or refused observation can still open the first window. A
  value the sketch refuses (`good` is FALSE) still touches or creates its entry.
* `observe_envelope` is MergeInto or MergeOverflow: no lateness check, labels
  kept as they come, EvictOldest evicting nothing.
* `rotate`/`drain` are RotationDue, DrainDue and RotateWindow, with NextStart for
  `advance_window`.

### Precompute

Threads run calls; `call[th]` is the call a thread is in and what its local
variables hold. Each action is one critical section (one lock, or the code
between two):

| code | actions |
|---|---|
| observe | BeginObserve (closed, config) -> Observe (state lock), or -> CountEnvelope -> AdmitEnvelope -> MergeEnvelope |
| observe_envelope | BeginObserveEnvelope -> AdmitEnvelope (closed, config, checks) -> MergeEnvelope (state lock) |
| tick | BeginTick (config) -> Rotate (state lock) -> Serialize (config again, no lock) -> Publish (state lock) |
| drain | BeginDrain -> Drain -> Serialize -> Publish |
| update_config, shutdown | UpdateConfig, Shutdown |

Abstractions: the read of `closed` and that of the configuration are one step
(nothing done between them depends on their order); matchers are the set of
label sets they admit (`match`); labels are functions, so duplicate keys do not
occur; `metric_name`, temporality and the window statistics follow the
configuration as `agg` does and are left out; whether a snapshot fails is a
choice (`SnapshotsFail`); an envelope's reference time is its `ts`; milliseconds
are small naturals and do not wrap; a call that is refused without changing
anything is not repeated.

### Aggregator

What a windowed aggregator promises whatever its windows, threads and
configurations: an input goes from pending to delivered or dropped, once.
`Precompute!AbstractSpec` maps pending to what the window and the calls hold.

### WindowMerge

The window_merge processor (otap/window_merge.rs), one message handler per
action, and in front of it the sources.

| code | model |
|---|---|
| `windows` | `open` (its keys) and `held` (the source sketches in it) |
| `emitted_until`, `late`, `arrived`, `messages`, `timer_started` | `emittedUntil`, `late`, `arrived`, `messages`, `timer` |
| `process` PData: add, message_carried, due, emit | PData; Unread when the acknowledgement or the decoding fails |
| `process` TimerTick, Shutdown, others | TimerTick, Shutdown, OtherControl |
| `due` | GraceOver, Complete, Emit |

A sketch is `[from, no, end, key]`: who sent it, in which message, for which
window and series. An envelope is the set of sketches merged into it, so a
replaced or doubled sketch shows. Payloads that do not decode or merge, snapshots
that fail, batches that fail to be encoded and sends that fail are choices when
`Failures`; a failed send, of the batch or of the timing gauges after it, ends the
handler with its error. The series key's text, counts and what the gauges say are
left out.

The sources are not in src/: they are modelled from what the module's doc says
of them. Each sends its windows in order, in messages of one or several series;
a message may be lost (a source may skip a window) or repeated (`Repeats`). The
clock that `due` reads is any of `Times` at any moment, also going back.

### KllRolling

KllWindowStore and KllRollingPrecompute (kll_windows.rs). Every public call
holds the instance's mutex throughout, hence one action per call; the exception,
an envelope inside `observe`, is handed on to `observe_envelope` after the lock
is released and is an ObserveEnvelope of its own.

| code | model |
|---|---|
| `panes` | `held`: the inputs in the retained panes; `Pane(at)` is the pane |
| `closed_until`, `last_emit`, `upstream_complete_until` | `closedUntil`, `lastEmit`, `completeUntil` (None is 0) |
| advance | Watermark, Unexpired |
| observe, merge_pane, admit | Late, Misfit, AtCap, Absorb |
| query | Answerable, InRange |
| observe, observe_envelope, tick, update_config, shutdown | Observe, ObserveEnvelope, Tick / IdleTick, UpdateConfig, Shutdown |

The histories `admitted`, `late`, `overflowed`, `emitted` and `missed` record what
was done with each input, which ranges came out and which boundaries a tick
found not answerable. `emissions` numbers the ranges, so one that comes again is
another element of `emitted`, even when nothing in it has changed. A redelivered pane is an input with another id: the code
requires delivery to be exactly-once (kll_windows.rs:31).

### AsapProcessor

The processor (otap/processor.rs) with a tumbling window, on the variables and
actions of `WindowState`. A processor is the only caller of its precompute, so a
call is one step here; what `Precompute` shows of concurrent calls is not asked
again. A batch is handled point by point, since what a point meets depends on
those before it; no other handler runs in between.

| code | model |
|---|---|
| `plugin_config`, `window_size`, `timer` | `plugin`, `period`, `timer` |
| `precompute` | `running` (its configuration), `built` (its sketch factory and observer), the window |
| PData: acknowledge; per point tick, observe; emit; report | Receive; TickFirst, ObserveScalar or ObserveEnvelope, Undecodable; Finish |
| `closed` of the PData handler | `msg.first` (whether there was a tick), `msg.ready` (what it returned) |
| TimerTick, Shutdown, other control messages | TimerTick, Shutdown, OtherControl |
| Config | Config: Rebuild or Update, each with Install; OtherControl if it does not resolve |
| `resolve`, `build_dispatch` (otap/config.rs) | Resolve, Factory |

Every call that may fail does so by choice (`Failures`, `TimersFail`): the
acknowledgement and a send end the handler with an error, and with it the
processor (`stopped`, an assumption on the engine); a point that does not decode
ends its batch; a sketch that does not serialise is skipped; a window that does
not encode is dropped. `orderly` and `passed` record whether the points have come
window by window, which is when they can be asked to leave in their own window.

### OtapCodec

The encoder and the decoder of otap/codec.rs, back to back. A flush is encoded, with
the state that outlives its message, the series IDs, and the peer decodes what was
encoded (Flush), or a payload that is not what its type says refuses it (Refused); and
the peer decodes messages of other producers (Receive, `Foreign`), with kinds, types and
attributes the encoder would not write. `Sendable` are the batches a node makes: sketches
or estimates, not both, with times and versions that an i64 holds.

| code | model |
|---|---|
| `series_ids`, `next_series_id` | `seriesIds`, `nextSeriesId` |
| from_envelopes, the view types | Grouped, Resource, Scope, DataPoint and what they use: the rows under the first row of their resource, then of their series; InOrder, which is how the code's loop over the rows meets them |
| decode_each and its callback | DecodeEach, over the points in order: DecodePoint, SummaryPoint, NumberPoint |
| the scratch observation | `got.scratch`, which a point finds as the one before left it |

A label is a number; a payload is the kind of sketch its bytes decode as and which
sketch it is. Integers keep their width: u64 fields are read back as i64, start and
end times are multiplied into nanoseconds.

### ExactBaseline

exact_branch and exact_merge (otap/baseline_nodes.rs), one handler per action, and
the transport between them, which keeps a branch's messages in order and may lose or
repeat one. An entry is a point's share in one series of its window, which is what
is conserved.

| code | model |
|---|---|
| branch: `windows`, `emitted_until` | `windows`, `emitted` |
| PData, TimerTick, Shutdown; a failed acknowledgement | BranchPData, BranchTick, BranchShutdown; BranchNoAck |
| merge: `windows`, `emitted_until`, `arrived`, `messages` | `merged`, `emittedUntil`, `arrived`, `messages` |
| PData (add, carried, due, send), TimerTick, Shutdown | MergePData, MergeTick, MergeShutdown; MergeUndecodable and MergeNoAck |

### ScenarioGenerator and RawPipeline

The load generator (otap/scenario_generator.rs) and, behind it, the raw sink
(otap/baseline_nodes.rs:540-805) with a store that answers any message at any time,
by an Ack or a Nack, or never.

| code | model |
|---|---|
| Scenario::new, rate_at, cardinality_at, batches_per_second, batch_range | Valid and Tables, RateAt, CardinalityAt, BatchesPerSecond, BatchRange |
| batch: attribute_value; the changes made to a point | BatchOf: UniqueValue, Drawable; Draws (what hits a point), ValueAfter, DistributionOf |
| the receiver's loop: start, tick, the end | Start, Tick, End |
| sink: `windows`, `in_flight`, `next_id`, `emitted_until`, `sent_until_ms` | `windows`, `inFlight`, `nextId`, `emittedUntil`, `sentUntil` |
| PData; Ack and Nack; TimerTick; Shutdown | PData, SendFails, Unread; Answer; TimerTick; Shutdown |
| `due` | Due, in every handler, as in the code |

A draw is any value it may give, so what holds of the model holds for every seed;
how often a value comes (Zipf, the share of an injection) is left out, as is the
metric's number, of which the model keeps the distribution. Two points of the code
show in `DistributionOf`: the changes of values apply in the order they are listed,
where those of rates and of distinct values go by their time; and `equals` looks at
the attribute as the changes listed before have left it. More batches a second than the
clock has nanoseconds give ticks a period of 0, by which `start` divides: the model does
not start then.

### Answers

The detectors (otap/answer_nodes.rs, the detector of otap/baseline_nodes.rs) with
the trackers of answers.rs, and heavy_hitter_accuracy (otap/hh_accuracy.rs).

| code | model |
|---|---|
| DriftTracker, NoveltyTracker, CardinalityClassifier | `detectors[m]`: baselines and `drifting`, `tops`, `distincts` and `state` |
| process of a detector | Answer: Observed (the trackers), Told (the events), Sent (emit) |
| the events sent | `events[m]`: of drift and of classes in order, of new keys as a set |
| `open`, observe, ready, process | `open`, EntryOf and Observe, Both and Kept, Arrive |

What a sketch reports of a window is one of the contents `Sketched` allows for it,
so that estimates may be wrong; the exact detector sees the window itself. The two
pipelines are not in step, and either may miss windows.

### The MC modules

`MC<module>` holds the instance of a module for TLC; `MCPrecomputeClaims` has a
property that a comment states and the code does not keep.

### The proof modules

`PrecomputeProofs`, `WindowMergeProofs`,
`KllRollingProofs`, `AsapProcessorProofs`, `ExactBaselineProofs`,
`OtapCodecProofs`, `RawPipelineProofs` and `AnswersProofs`, see section 5.

### Mutants

Definitions whose comment starts with "Mutant" are no part of the model. Each is
a wrong variant of the definition that follows it, of the kind a slip in the code
would be; put in that definition's place it must make TLC find the named
property violated. So each property is known to be able to fail.

## 4. Runs

| run | what it asks | bounds |
|---|---|---|
| precompute_core | conservation, once-only, disjoint windows, pure series, one envelope per series, cap and lateness, under concurrent calls | 2 threads, 3 inputs from 4 offers (three series, one envelope, one refused value), window size 2 or none, no cap or a cap of one that evicts or drops, lateness 0 or 1, ticks at 2 and 5 |
| precompute_live | delivery, windows that move on, and refinement of Aggregator, while the configuration changes and snapshots fail | 2 threads, 2 inputs, sizes 2 and 3, evicting at a cap of one, two agg ids and output modes, ticks at 1 and 6 |
| window_merge | once and in order, complete, all accounted for, and closed in the end | 2 sources, 2 messages each, windows ending at 2 and 4, 2 series, grace 1, quorum 2, clock 1, 3 or 5, repeats and failures |
| kll | retention, whole and final ranges, each later than the last | 4 inputs from 3 scalars and 3 panes of 2 series, pane 2 and retention 4 (and a reconfiguration to 4), cap 1 or none, clock 1 to 9 |
| processor | every point accounted for, in its own window, under the configuration pushed last, and idle windows closed | 3 points from 4 batches (in two of them a sketch or a refused value before a scalar), 6 configurations of which two are pushed, clock 4 or 6, grace 2, failures |
| codec | whole round trip, points independent of one another, IDs of one series | 2 messages: flushes of up to 3 of 10 envelopes, or foreign messages of up to 2 of 7 points in 4 kinds; u64 up to 63, i64 up to 31 |
| exact_baseline | shares conserved, complete windows the truth, once and in order, nothing held for ever | 2 branches (2 messages and 1) of 3 batches, windows ending at 2 and 4, clocks 3 or 5, grace 1, quorum 2, one fault of any kind |
| raw_pipeline | unique values, rates and changes at their time, points accounted for, whole and true reports, every window reported | 2 seconds of 4 units, 2 batches a second, rates 1 to 3 and changes of them, or 1 batch a second with values injected, more of them and a distribution for one, a late start or none, clock 2, 5, 6 or 10, window 4, grace 1, failures |
| answers | accuracies from whole lists, once per window, and events that tell the state | 2 detectors, 4 windows of 3 contents, k 2, histories of 1 and 2 windows, 3 open entries, one fault |
| claim_quantiles, claim_batch, claim_unique | one comment each that the code does not keep | small instances of the same modules |

Why the bounds are enough. *Precompute*: two threads are the smallest number with
which every pair of critical sections can interleave; three inputs put two into
one sketch with a third in another series or window; the ticks are one inside and
one past the windows the inputs open, so that early, exact and idle-jump
rotations all occur. The threads are interchangeable (SYMMETRY in the runs without
liveness). *WindowMerge*: two sources and two windows are the least with which a
window can be complete while an earlier one waits, and be repeated, skipped or
late; the clock has a reading before, between and after the two graces.
*KllRolling*: four inputs suffice for three panes, one of them expired, and a
repeat; the clock's readings lie within, behind and far ahead of the event times;
a third configuration is one that is rejected.
*AsapProcessor*: three points make a batch of two and one before or after it, in
one, two or three windows; the clock's readings less the grace are the ends of the
first two windows; two pushes give every pair of an update and a rebuild, and the
configurations differ in the type, the metric that is the default key, the flags
and the size, one with another timer period.
*OtapCodec*: three envelopes are the least that put a row between two it shares a
resource or a metric with; two messages show what outlives one; the envelopes differ
from the first in one field each, with ends and IDs past what an i64 holds.
*ExactBaseline*: two windows and two branches as for WindowMerge; batches in order, out
of order and with an envelope first; one fault at any place, as any two faults of this
size meet in no handler that one does not reach.
*RawPipeline*: two seconds with a change of rate between them, each cut into two
batches, or one batch with changes of the values drawn; the clock reads before a window's end, past its grace and past its deadline.
*Answers*: four windows fill a history of two and drop two from it; the three contents
differ in distribution, in their top keys and in being identifier-like; three open
entries make the fourth evict.

Deadlock is checked in the runs of Precompute and KllRolling. In the others it is
not: a node that has shut down or failed really stops, and a stream of messages
really ends.

Fairness. `FairSpec` of Precompute: each step of a call that has begun is weakly
fair, since a thread that runs a call runs it to its end; ticks at the latest time
are strongly fair, since the host's timer keeps firing and a thread that is now
and then free will run it. Nothing is assumed of observers, drains,
reconfiguration or shutdown, and delivery is claimed of windows that end by the
latest tick time. `LiveSpec` of WindowMerge: a timer tick at a clock past every
window's grace is weakly fair, since the engine's periodic timer fires every
second and the clock advances. That the timer starts is assumed
(`TimersFail = FALSE`): if its start fails the code tries again at the next
message, and there may be none. Nothing is assumed of the sources. `FairSpec` of
AsapProcessor: the steps of a batch are weakly fair, since the handler runs to its
end, and so are timer ticks at the latest time, since the engine's timer is
periodic. There a start of the timer may fail, and the property speaks of what
happens once it has succeeded. `LiveSpec` of ExactBaseline: the timer ticks of the
branches and of the merge at a clock past every window are weakly fair, and so is the
delivery of a message that is not lost; `LiveSpec` of RawPipeline: timer ticks past
the last deadline, and nothing of the store or of the generator. Both suppose that
the timers start (`TimersFail = FALSE`), as for WindowMerge.

The claim runs, each a counterexample TLC finds:

* `claim_quantiles`: `transmit_sketch = false` with no quantiles emits nothing
  (config.rs:222-224).
* `claim_batch`: of a batch that spans the end of a window the later points land
  in the earlier window (otap/processor.rs:462-463): only the first one ticks.
* `claim_unique`: with two unique attributes the values of one batch come again in
  the next (otap/scenario_generator.rs:112, 319, 346).

Further comments met that say more than the code does, without a run: the gauge
`active_series` is not reset by rotation (precompute.rs:284), a series that an
envelope opened keeps its resource under `omit_resource_attrs`
(config.rs:265-268; window.rs:242), Block
drops (config.rs:68; window.rs:160-163 says so), shutdown does not flush
(precompute.rs:266; 647-648 defers it), an empty tick is not recorded
(precompute.rs:292-295), no lateness check with a zero allowance
(config.rs:98-100), arrival times are not of open windows only
(otap/window_merge.rs:82), envelopes pass max_series under EvictOldest
(config.rs:228; window.rs:232), window_merge drops the scalars it says it passes
through (otap/window_merge.rs:15, 263), boundaries are dropped while a source is a
pane ahead of this host's clock, whose refused query becomes an empty result
(kll_windows.rs:343, 448), MAX_OPEN_WINDOWS counts entries, those of series without a
top-k included (otap/hh_accuracy.rs:46, 137), a Summary without an envelope is an error
that ends the decoding and not a point skipped and counted (otap/codec.rs:38-41, 1166;
1520), a list all *at* the threshold is incomplete too (otap/hh_accuracy.rs:9-11;
answers.rs:431 compares with `>=`). Further behaviours a reader may not
expect: a history of fewer than three windows (`baseline_windows`) turns drift, growth
and novelty off without a word; a raw window all of whose points were refused reports
a delay of 0; exact_branch closes windows by the time of a message's first point only,
and leaves the metric out of the key of a series; the codec's series key does not tell
a label of the resource from one of the series.

## 5. Proofs

Checked by TLAPS for every value of the constants that satisfies the module's
`ConstantsAssumption` (types of the constants, and that the sets of sources and
ends are finite; `GeneratorAssumption` and `SinkAssumption` for the raw pipeline;
`AnswersAssumption`: a window has points and finitely many keys, one at least;
`CodecAssumption`: batches and messages are sequences, labels of them sequences of
numbers, an ID and a nanosecond are not zero).

| theorem | says |
|---|---|
| PrecomputeProofs!TypeCorrect | the types, and that a call finds a configuration when it reads it again |
| PrecomputeProofs!Safety, NoneForgotten | NothingTwice, NothingLost |
| PrecomputeProofs!Implements | Precompute implements Aggregator |
| PrecomputeProofs!StartsMoveOn, ClosedApart | WindowsMoveOn, WindowsDisjoint |
| PrecomputeProofs!Pure, Punctual | SeriesPure, LatenessHonoured |
| PrecomputeProofs!OnePerWindow, Capped | OneEnvelopePerSeries, CapHonoured |
| WindowMergeProofs!OnceInOrder | WindowsInOrder |
| WindowMergeProofs!WindowsComplete, LateExplained | EverySourceIn, LateHasACause |
| WindowMergeProofs!NoneAstray | Accounted |
| KllRollingProofs!RollingSafe, PanesExpire | the types, CapHonoured and RangesFinal; Retained |
| KllRollingProofs!EmitsWholeRanges, EmitsOnce | RangesWhole, RangesMoveOn |
| AsapProcessorProofs!AsConfigured | RunsAsConfigured |
| AsapProcessorProofs!InOwnWindow, InOnePlace | OwnWindow, Accounted |
| ExactBaselineProofs!TruthInOrder, SharesConserved | WindowsInOrder, Accounted |
| ExactBaselineProofs!CompleteIsTrue | GroundTruth |
| OtapCodecProofs!ComesOutWhole | RoundTrip, of batches as a node makes them, until the IDs run out |
| OtapCodecProofs!PointsStandAlone | EachPointAlone |
| OtapCodecProofs!IdsApart | IdsTellSeriesApart, until the IDs run out |
| RawPipelineProofs!RawInvariant | the invariant of the sink, between its reports too, and of the generator |
| RawPipelineProofs!RawPointsAccounted | PointsAccounted |
| RawPipelineProofs!RawReportWhole, RawReportTells | ReportWhole, ReportTells |
| RawPipelineProofs!RawScheduleKept, RawUniqueValues | ScheduleKept, UniqueValues |
| AnswersProofs!TellsState | EventsTellState |
| AnswersProofs!ComparesWhole, ReportsOnce | TruthWhole, Paired |

**Precompute.** Conservation alone is not inductive: an input could be absorbed a
second time by another call. `Fresh` adds that what a call carries towards the
window was absorbed by no sketch and is carried by no other call, which follows
from the numbering of inputs. Each step is then described by what it does to four
sets (window, calls, delivered, discarded): an observation adds one fresh input,
a rotation moves the window's sketches into the call, serialisation gives some
up, publication delivers the rest. The same description gives the refinement.

For the windows, a step leaves the bounds as they are, opens a window or closes the
active one, and what a call carries or has sent keeps the bounds it was closed with.
`WindowsMoveOn` adds that a window is not empty of time, `WindowsDisjoint` that, under
one size, every bound lies on the size's grid, so that an idle jump or a drain in
mid-window ends where the next window may start. For the series, the invariant
follows an input from the window into a call and out: a stored sketch holds inputs of
the key it is stored under, none too old for the active start, which only moves when
the sketches have left; and as a call takes the series map whole, two envelopes of a
window have different keys. The cap needs that a call that refuses or evicts counts
the series under the same lock that adds one.

**WindowMerge.** The invariant says that every envelope sent ends by
`emittedUntil`, what is held ends after it and lies in an open window. A close
takes *every* window up to the largest one that is due, so what stays open ends
later than what goes. Completeness needs a counting argument: without repeats, the
number of messages that carried a window is at most the number of sources that
have got as far as its end, so a count that reaches the number of sources means
that all of them have.

**KllRolling.** The invariant adds to the properties that everything admitted whose
pane is not behind the cutoff is held (`Whole`), and that the watermark, the
upstream's mark and every emitted end are boundaries of panes, the ends not beyond
the watermark or the last emission (`Behind`). Then a range that can be answered
is whole, since it starts at the cutoff or later; and a scalar that is not late
lies in a pane at or after the watermark, hence behind no emitted end.

**AsapProcessor.** Type and factory are replaced together, and a push that needs no
rebuild describes the factory there is, default key included; so the precompute is as
configured as long as the processor runs, in mid-batch too. For `OwnWindow` the open
window is shown to be a bucket that begins at or before `passed`, the latest time one
may have been closed for. A batch in order lies in a bucket that ends after `passed`,
and its first point's tick leaves a window that ends after that point: both are
multiples of the size less than a size apart, so they are the same. An upstream sketch
may open the window between the two, but only before the batch's first scalar. For
`Accounted` each step is described by the move it makes between six sets, and the
sketches of a window stay apart because a point is taken by one series.

**ExactBaseline.** Every step is one of two: a branch takes in entries nobody has and
hands on all of its windows up to some end, or the merge takes entries off the wire
and closes all windows up to some end. From that description come order and
conservation. For `GroundTruth` the wire is described as well: a branch's messages
are in the order sent, each of later windows than the one before, and copies are of
windows recorded as repeated. Then a window that nothing brought twice has been
counted at most once per branch that is past it, with nothing of it on the wire; so
a full count leaves no entry of it anywhere but in the merge, and none comes later.

**OtapCodec.** The model folds over sequences, so its lemmas are inductions over their
lengths, each stated of a set of numbers that holds 0 and, with a number, the next one
(`Reaching`, from the order of the numbers being well-founded): what a fold over a batch
or over data points does row by row (`IdsFold`, `PointsFold`), and what joining sequences
does (`FlattenIs`, `FlattenPlaces`).
The IDs are counted (`IdsInv`): the next one is one more than there are series, until it
reaches u32::MAX and stays there. So `IdsApart` and `ComesOutWhole` speak of streams with
no more series than that; further series share the last ID, as in the code.
`PointsStandAlone` needs no more than that a message is well formed: what is written over
the buffer and cut off at its own length leaves nothing of what was there
(`RelabelledIs`), so a point adds to the observations what it gives alone, until one
fails.
`ComesOutWhole` reads a message as a walk over the rows of its batch (`IsWalk`): each row
once, the rows of a series in their order, and with each the data point it became. Rows
in order are a walk over a scope, walks over the groups of an equivalence join to one
over the whole, twice (`ResourceWalk`, `MessageWalk`), as rows of one series are in one
group. A point inherits from the first rows of its scope and of its resource, which agree
with its own row in all that it inherits (`RowFits`): the series key does not tell labels
of the resource from others, but the rows of a resource have the same ones. And the point
then gives back its row (`FitsGives`), with times that survive their nanoseconds but for
saturation (`NanosBack`). Between flushes the invariant (`WholeInv`) keeps that the IDs
the last batch was encoded with are still those of its series.

**RawPipeline.** Every handler of the sink changes the windows, the answers awaited or
the points sent, and then reports what is due. The invariant (`SinkInv`) is therefore
stated of sets, so that it can be said of the state within a step too, before the
reports: parts of messages have numbers of their own and wait for a window that is open
or reported, every point sent lies in exactly one place, the times of the answers bear
out each report, and in time order nothing is reported that has points still to come. A
report of the due windows keeps it: it takes windows out of the open ones, so none is
reported twice, and those it leaves behind an overtaking one stay open for their answers,
while what comes for a window that is neither open nor to come is ignored.
The generator's half (`GenInv`) says that each point fits the batch it is of, and that
each batch ever passed was skipped or has all of its points. The points of a second's
first batches are as many as where the next one starts (an induction over the batches, by
way of a least counterexample), and the last one ends at the rate; so a second without a
skipped batch has its rate, whatever the other seconds did. For `UniqueValues` a batch's
counts lie after `second * MaxRate` plus where it starts in its second, and end no later
than those of the next batch begin, since no second's rate is above `MaxRate`. The theorem
has a hypothesis, `CountsOnce`: no configuration has two unique attributes, and none
injects into one a value that is a number. The first half is what the finding
`claim_unique` lacks; the configurations of `raw_pipeline` that are valid keep to both.

**Answers.** What is told of drift and of classes follows the tracker step by step. Of new
keys the invariant (`KeysTold`) says that whatever was told of late is still remembered: a
key told for a window is among the tops of each later history that reaches back to it, as
only windows with a top enter a history and it holds `NoveltyWindows` of them; so the key
is not new again before that many windows have passed.
`TruthWhole` rests on the lists. Ranks are a count of the keys ahead, and of keys past rank
K a least one exists, so a list that leaves a key out is full and all of it has as large a
count (`TopFull`); if one of the list is below the threshold, the key left out is too. The
rest follows the answers to their entry: a message on its way is of an answered window of
which nothing was read (`QueueInv`), and what an entry holds of a method is what that method
answered (`EntryInv`).
`Paired` needs to know what is *not* there any more: a window that was reported or whose
report was lost has no entry again, as both its messages have been read; one that was given
up may have one, but without the answer that went with the first (`SettledInv`), so it is
never complete. What was read of a window that is not over is in its entry (`HeldInv`), so
two answers are in the same one and make it complete. The theorem supposes K > 0: `k` is
not checked, and lists of no key would never complete an entry.

Only model-checked: liveness (EventuallyOut, WindowsClose, IdleWindowsClose,
EntriesLeave, AllReported), which the prover does not reach.

## 6. What is not modelled

* Overflow of the u64 milliseconds and counters: times are small naturals, and
  real ones are far from 2^64.
* Estimates and error bounds of the sketches, and the layout of what is encoded:
  a sketch is the set of what it summarises.
* Crashes: nothing is persisted, and the code promises nothing across restarts.
* Of the processor: sliding windows (their precompute is KllRolling), per-attribute
  series, estimates sent in place of sketches.
* Of the codec: describe_pdata_protocol, which prints a message, and the accessors of
  the OTAP views that are always empty.
* Of the answers: error bounds, delays, timing gauges and the text of events.
* Of the generator: how often a drawn value comes, and the seed.
* The programs and benchmarks under bin/: they keep no state another component
  relies on.
