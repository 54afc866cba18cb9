----------------------------- MODULE Precompute -----------------------------
(***************************************************************************)
(* PrecomputeImpl of asap-precompute-rs/src/precompute.rs for tumbling and *)
(* unsized windows: threads of the host call observe, observe_envelope,    *)
(* tick, drain, update_config and shutdown concurrently.  Two mutexes and  *)
(* an atomic flag are all they share: the configuration (cfg), the window  *)
(* with its counters, and closed.  A call is a sequence of steps, one per  *)
(* critical section, so that a configuration read in one step may be stale *)
(* in the next.                                                            *)
(***************************************************************************)
EXTENDS WindowState, Sequences

CONSTANTS
  Threads,        \* the host's threads
  Labels,         \* the label sets in play
  Configs,        \* the PrecomputeConfigs in play
  NoConfig,       \* the None of an unconfigured instance
  InitialConfigs, \* what the constructor may be given
  ConfigSets,     \* the non-empty config lists update_config may be given
  Offered,        \* the observations and envelopes the host may offer
  Times,          \* the values of now_ms that tick may be given
  SnapshotsFail,  \* whether serialising a sketch may fail
  MaxInputs       \* bound on the number of inputs offered

VARIABLES
  cfg,            \* the active configuration
  closed,         \* set by shutdown
  counters,       \* the other fields of StatsSnapshot
  call,           \* per thread: the call it is in, and how far
  offered,        \* number of inputs offered so far: the next input's id
  emitted         \* history: the envelopes tick and drain have returned

vars == <<windowVars, accepted, discarded, cfg, closed, counters, call, offered, emitted>>

Resources == {o.res : o \in Offered} \cup {NoResource}

(* An observation is a scalar or carries an envelope; good says whether    *)
(* the sketch takes it (the value has its kind, the payload decodes and    *)
(* merges), count is the observation count an envelope declares.           *)
ObservationType ==
  [kind : {"scalar", "envelope"}, ts : Nat, res : Resources, labels : Labels,
   good : BOOLEAN, agg : Nat, type : {"Unspecified", "KLL", "HLL"}, count : Nat]

\* transmit: sketch bytes on the wire, or else `points` scalar estimates.
ConfigType ==
  [agg : Nat, type : {"Unspecified", "KLL", "HLL"}, size : Nat, lateness : Nat,
   maxSeries : Nat, overflow : {"Drop", "Block", "EvictOldest"},
   strip : {"none", "resource", "all"}, by : SUBSET STRING,
   match : SUBSET Labels, transmit : BOOLEAN, points : Nat]

ASSUME ConstantsAssumption ==
  /\ Configs \subseteq ConfigType
  /\ NoLabels \in Labels
  /\ \A labels \in Labels, c \in Configs : SeriesAttrs(labels, c.by) \in Labels
  /\ NoConfig \notin Configs
  /\ InitialConfigs \subseteq Configs \cup {NoConfig}
  /\ ConfigSets \subseteq Seq(Configs) \ {<<>>}
  /\ Offered \subseteq ObservationType
  /\ Times \subseteq Nat
  /\ SnapshotsFail \in BOOLEAN
  /\ MaxInputs \in Nat

Inputs == [id : 1..MaxInputs, obs : Offered]

Idle == [at |-> "idle"]

Counters ==
  {"input_observations", "input_envelopes", "output_envelopes", "dropped_overflow",
   "dropped_late", "last_tick_ms", "last_emitted_envelopes"}

\* Thread th moves on to step `to` of its call.
Go(th, to) == call' = [call EXCEPT ![th] = to]

Bump(names) ==
  counters' = [n \in Counters |-> IF n \in names THEN counters[n] + 1 ELSE counters[n]]

Init ==
  /\ WindowInit
  /\ cfg \in InitialConfigs
  /\ closed = FALSE
  /\ counters = [n \in Counters |-> 0]
  /\ call = [th \in Threads |-> Idle]
  /\ offered = 0
  /\ emitted = {}

-----------------------------------------------------------------------------
(* observe                                                                 *)

\* The check of closed and the read of the configuration.  An envelope goes
\* the way of CountEnvelope.  Calls refused here change nothing.
BeginObserve(th) ==
  /\ call[th] = Idle
  /\ ~closed /\ cfg # NoConfig
  /\ offered < MaxInputs
  /\ \E o \in Offered :
       Go(th, [at    |-> IF o.kind = "scalar" THEN "observe" ELSE "count",
               input |-> [id |-> offered + 1, obs |-> o],
               cfg   |-> cfg])
  /\ offered' = offered + 1
  /\ UNCHANGED <<windowVars, accepted, discarded, cfg, closed, counters, emitted>>

\* The rest of observe, under the state lock.
Observe(th) ==
  /\ call[th].at = "observe"
  /\ LET in == call[th].input
         c  == call[th].cfg
         matches == in.obs.labels \in c.match
     IN  \/ /\ ~matches
            /\ Bump({"input_observations"})
            /\ UNCHANGED <<windowVars, accepted, discarded>>
         \/ matches /\ ObserveLate(in, c) /\ Bump({"input_observations", "dropped_late"})
         \/ matches /\ ObserveKnown(in, c) /\ Bump({"input_observations"})
         \/ matches /\ ObserveNew(in, c) /\ Bump({"input_observations"})
         \/ matches /\ ObserveEvicting(in, c) /\ Bump({"input_observations"})
         \/ matches /\ ObserveOverflow(in, c) /\ Bump({"input_observations", "dropped_overflow"})
  /\ Go(th, Idle)
  /\ UNCHANGED <<cfg, closed, offered, emitted>>

-----------------------------------------------------------------------------
(* observe_envelope, called by the host or by observe                      *)

\* observe counts an envelope-valued observation in a critical section of
\* its own, before it calls observe_envelope.
CountEnvelope(th) ==
  /\ call[th].at = "count"
  /\ Bump({"input_observations"})
  /\ Go(th, [at |-> "admit", input |-> call[th].input])
  /\ UNCHANGED <<windowVars, accepted, discarded, cfg, closed, offered, emitted>>

\* A direct call of observe_envelope.
BeginObserveEnvelope(th) ==
  /\ call[th] = Idle
  /\ offered < MaxInputs
  /\ \E o \in {x \in Offered : x.kind = "envelope"} :
       Go(th, [at |-> "admit", input |-> [id |-> offered + 1, obs |-> o]])
  /\ offered' = offered + 1
  /\ UNCHANGED <<windowVars, accepted, discarded, cfg, closed, counters, emitted>>

AggIdMismatch(o, c) == c.agg # 0 /\ o.agg # 0 /\ o.agg # c.agg

SketchTypeMismatch(o, c) ==
  c.type # "Unspecified" /\ o.type # "Unspecified" /\ o.type # c.type

\* The checks before the lock; an envelope they refuse leaves no trace.
AdmitEnvelope(th) ==
  /\ call[th].at = "admit"
  /\ LET o == call[th].input.obs
         refused == \/ closed
                    \/ cfg = NoConfig
                    \/ AggIdMismatch(o, cfg)
                    \/ SketchTypeMismatch(o, cfg)
     IN  Go(th, IF refused THEN Idle
                ELSE [at |-> "merge", input |-> call[th].input, cfg |-> cfg])
  /\ UNCHANGED <<windowVars, accepted, discarded, cfg, closed, counters, offered, emitted>>

MergeEnvelope(th) ==
  /\ call[th].at = "merge"
  /\ LET in == call[th].input
         c  == call[th].cfg
     IN  \/ MergeInto(in, c) /\ Bump({"input_envelopes"})
         \/ MergeOverflow(in, c) /\ Bump({"input_envelopes", "dropped_overflow"})
  /\ Go(th, Idle)
  /\ UNCHANGED <<cfg, closed, offered, emitted>>

-----------------------------------------------------------------------------
(* tick and drain: snapshot the configuration, close the window under the  *)
(* lock, serialise what it held under the configuration of that moment,    *)
(* then count the output under the lock and return it.                     *)

BeginTick(th, now) ==
  /\ call[th] = Idle
  /\ cfg # NoConfig
  /\ Go(th, [at |-> "rotate", now |-> now, cfg |-> cfg])
  /\ UNCHANGED <<windowVars, accepted, discarded, cfg, closed, counters, offered, emitted>>

BeginDrain(th) ==
  /\ call[th] = Idle
  /\ cfg # NoConfig
  /\ Go(th, [at |-> "drain", cfg |-> cfg])
  /\ UNCHANGED <<windowVars, accepted, discarded, cfg, closed, counters, offered, emitted>>

\* A rotation that closes no series ends the call with nothing returned.
HandOver(th, now) ==
  Go(th, IF series = <<>> THEN Idle
         ELSE [at |-> "serialize", now |-> now, range |-> ActiveRange, entries |-> ActiveEntries])

Rotate(th) ==
  /\ call[th].at = "rotate"
  /\ LET now == call[th].now
         c   == call[th].cfg
     IN  \/ /\ RotationDue(now, c)
            /\ RotateWindow(now, c)
            /\ HandOver(th, now)
         \/ /\ ~RotationDue(now, c)
            /\ Go(th, Idle)
            /\ UNCHANGED <<windowVars, accepted, discarded>>
  /\ UNCHANGED <<cfg, closed, counters, offered, emitted>>

Drain(th) ==
  /\ call[th].at = "drain"
  /\ \/ /\ DrainDue
        /\ RotateWindow(activeEnd, call[th].cfg)
        /\ HandOver(th, activeEnd)
     \/ /\ ~DrainDue
        /\ Go(th, Idle)
        /\ UNCHANGED <<windowVars, accepted, discarded>>
  /\ UNCHANGED <<cfg, closed, counters, offered, emitted>>

\* The envelopes one series becomes.  An empty sketch becomes none.
RowsPerSeries(c) == IF c.transmit THEN 1 ELSE c.points

Envelope(e, c, range) ==
  [range |-> range, agg |-> c.agg, type |-> c.type, res |-> e.res,
   labels |-> SeriesAttrs(e.labels, c.by), count |-> e.count, sketch |-> e.sketch]

\* finish_rotate: cfg is read again; it cannot be None any more.  Entries
\* that fail to serialise (the library's choice) are skipped.
Serialize(th) ==
  /\ call[th].at = "serialize"
  /\ \E failed \in IF SnapshotsFail THEN SUBSET call[th].entries ELSE {{}} :
       LET sent == {e \in call[th].entries \ failed : e.sketch # {} /\ RowsPerSeries(cfg) > 0}
       IN  /\ Go(th, [at    |-> "publish", now |-> call[th].now,
                      batch |-> {Envelope(e, cfg, call[th].range) : e \in sent},
                      rows  |-> RowsPerSeries(cfg) * Cardinality(sent)])
           /\ discarded' = discarded \cup UNION {e.sketch : e \in call[th].entries \ sent}
  /\ UNCHANGED <<windowVars, accepted, cfg, closed, counters, offered, emitted>>

Publish(th) ==
  /\ call[th].at = "publish"
  /\ counters' = [counters EXCEPT !["output_envelopes"] = @ + call[th].rows,
                                  !["last_tick_ms"] = call[th].now,
                                  !["last_emitted_envelopes"] = call[th].rows]
  /\ emitted' = emitted \cup call[th].batch
  /\ Go(th, Idle)
  /\ UNCHANGED <<windowVars, accepted, discarded, cfg, closed, offered>>

-----------------------------------------------------------------------------
(* update_config and shutdown: one critical section each                   *)

\* The position of the first config with the active agg id, or else 1.
Chosen(cs, i) ==
  LET same == {j \in DOMAIN cs : cfg # NoConfig /\ cs[j].agg = cfg.agg}
  IN  IF same = {} THEN i = 1 ELSE i \in same /\ \A j \in same : i <= j

UpdateConfig ==
  /\ \E cs \in ConfigSets : \E i \in DOMAIN cs : Chosen(cs, i) /\ cfg' = cs[i]
  /\ UNCHANGED <<windowVars, accepted, discarded, closed, counters, call, offered, emitted>>

Shutdown ==
  /\ closed' = TRUE
  /\ UNCHANGED <<windowVars, accepted, discarded, cfg, counters, call, offered, emitted>>

CallStep(th) ==
  \/ BeginObserve(th) \/ Observe(th)
  \/ CountEnvelope(th) \/ BeginObserveEnvelope(th) \/ AdmitEnvelope(th) \/ MergeEnvelope(th)
  \/ \E now \in Times : BeginTick(th, now)
  \/ BeginDrain(th) \/ Rotate(th) \/ Drain(th) \/ Serialize(th) \/ Publish(th)

Next ==
  \/ \E th \in Threads : CallStep(th)
  \/ UpdateConfig
  \/ Shutdown

Spec == Init /\ [][Next]_vars

\* The last of the times there are stands for the wall clock far ahead.
LastTime == CHOOSE t \in Times : \A u \in Times : u <= t

\* The host runs every call it has begun to its end, and keeps ticking with
\* times past every window's end.
FairSpec ==
  /\ Spec
  /\ \A th \in Threads :
       /\ WF_vars(Observe(th)) /\ WF_vars(CountEnvelope(th)) /\ WF_vars(AdmitEnvelope(th))
       /\ WF_vars(MergeEnvelope(th)) /\ WF_vars(Rotate(th)) /\ WF_vars(Drain(th))
       /\ WF_vars(Serialize(th)) /\ WF_vars(Publish(th))
  /\ SF_vars(\E th \in Threads : BeginTick(th, LastTime))

-----------------------------------------------------------------------------
(* Properties                                                              *)

Entries ==
  [res : Resources, labels : Labels, seen : Nat, count : Nat, sketch : SUBSET Inputs]

Envelopes ==
  [range : Nat \X Nat, agg : Nat, type : {"Unspecified", "KLL", "HLL"}, res : Resources,
   labels : Labels, count : Nat, sketch : SUBSET Inputs]

FiniteSubsets(S) == {T \in SUBSET S : IsFiniteSet(T)}

Calls ==
       {Idle}
  \cup [at : {"observe", "merge"}, input : Inputs, cfg : Configs]
  \cup [at : {"count"}, input : Inputs, cfg : Configs]
  \cup [at : {"admit"}, input : Inputs]
  \cup [at : {"rotate"}, now : Nat, cfg : Configs]
  \cup [at : {"drain"}, cfg : Configs]
  \cup [at : {"serialize"}, now : Nat, range : Nat \X Nat, entries : FiniteSubsets(Entries)]
  \cup [at : {"publish"}, now : Nat, batch : SUBSET Envelopes, rows : Nat]

TypeOK ==
  /\ IsFiniteSet(DOMAIN series)
  /\ series \in [DOMAIN series -> Entries]
  /\ activeStart \in Nat /\ activeEnd \in Nat
  /\ initialized \in BOOLEAN
  /\ activeSeries \in Int
  /\ accepted \subseteq Inputs /\ discarded \subseteq Inputs
  /\ cfg \in Configs \cup {NoConfig}
  /\ closed \in BOOLEAN
  /\ counters \in [Counters -> Nat]
  /\ call \in [Threads -> Calls]
  /\ offered \in Nat
  /\ emitted \subseteq Envelopes

\* A call that read a configuration finds one when it reads it again.
Configured ==
  \A th \in Threads : call[th].at \notin {"idle", "admit"} => cfg # NoConfig

InWindow == UNION {series[k].sketch : k \in DOMAIN series}

\* The entries or envelopes a call holds between closing a window and returning.
Held(th) ==
  CASE call[th].at = "serialize" -> call[th].entries
    [] call[th].at = "publish"   -> call[th].batch
    [] OTHER                     -> {}

InCall(th) == UNION {e.sketch : e \in Held(th)}

InCalls == UNION {InCall(th) : th \in Threads}

Delivered == UNION {e.sketch : e \in emitted}

\* Every input a sketch absorbed is in the window, in the hands of a call that
\* closed it, in an envelope that was returned, or was given up (its series
\* evicted, or its entry skipped by the serialisation): rotation, however it
\* interleaves with observers, other tickers and reconfigurations, loses none.
NothingLost == accepted = InWindow \cup InCalls \cup Delivered \cup discarded

\* And it is in one of them only, in one sketch: no input is counted twice, by
\* a merge into the next window, by two tickers or by a tick and a drain.
NothingTwice ==
  /\ \A j, k \in DOMAIN series : j # k => series[j].sketch \cap series[k].sketch = {}
  /\ \A th \in Threads : \A e, f \in Held(th) : e # f => e.sketch \cap f.sketch = {}
  /\ \A t, u \in Threads : t # u => InCall(t) \cap InCall(u) = {}
  /\ \A e, f \in emitted : e # f => e.sketch \cap f.sketch = {}
  /\ InWindow \cap (InCalls \cup Delivered \cup discarded) = {}
  /\ InCalls \cap (Delivered \cup discarded) = {}
  /\ Delivered \cap discarded = {}

\* The bounds of the windows closed so far with something in them.
ClosedRanges ==
       {e.range : e \in emitted}
  \cup {call[th].range : th \in {t \in Threads : call[t].at = "serialize"}}
  \cup UNION {{e.range : e \in call[th].batch} : th \in {t \in Threads : call[t].at = "publish"}}

AllSized == \A c \in Configs : c.size > 0

\* Whatever reconfigurations do to the window size, every closed window starts
\* before the active one, so no window start is emitted twice.
WindowsMoveOn == AllSized => \A r \in ClosedRanges : r[1] < activeStart

\* The configuration the instance starts with is the one it keeps.
FixedConfig == ConfigSets = {} /\ cfg # NoConfig

\* While the size stays the same, a closed window lies wholly before the active
\* one: emitted windows never overlap, also after the idle jump of
\* advance_window and after a drain in mid-window.
WindowsDisjoint == FixedConfig /\ cfg.size > 0 => \A r \in ClosedRanges : r[2] <= activeStart

\* A scalar that a sketch absorbed was not older than its window's start by more
\* than the allowed lateness, although the configuration was read before the
\* lock was taken and the window may have rotated in between.
LatenessHonoured ==
  FixedConfig /\ cfg.lateness > 0 =>
    \A e \in emitted : \A in \in e.sketch :
      in.obs.kind = "scalar" => in.obs.ts + cfg.lateness >= e.range[1]

\* Every input of an envelope has the envelope's series attributes: two series
\* never share a sketch, whether they came as scalars or as envelopes.
SeriesPure ==
  FixedConfig /\ cfg.strip = "none" =>
    \A e \in emitted : \A in \in e.sketch :
      in.obs.res = e.res /\ SeriesAttrs(in.obs.labels, cfg.by) = e.labels

\* A window has one envelope per series.
OneEnvelopePerSeries ==
  FixedConfig /\ cfg.size > 0 =>
    \A e, f \in emitted : e.range = f.range /\ e.res = f.res /\ e.labels = f.labels => e = f

\* The cap on series holds: with Drop and Block always, with EvictOldest as
\* long as only scalars come.
CapHonoured ==
  /\ FixedConfig /\ cfg.maxSeries > 0
  /\ cfg.overflow = "EvictOldest" => counters["input_envelopes"] = 0
  => Cardinality(DOMAIN series) <= cfg.maxSeries

\* What a sketch absorbed into a window that ends by LastTime is delivered or
\* given up in the end: no interleaving leaves it in the window or in a call.
EventuallyOut ==
  \A n \in 1..MaxInputs :
    (activeEnd <= LastTime /\ \E in \in InWindow : in.id = n)
      ~> (\E in \in Delivered \cup discarded : in.id = n)

\* The abstract aggregator this implements.
Abstract == INSTANCE Aggregator WITH
  pending <- InWindow \cup InCalls, delivered <- Delivered, dropped <- discarded

AbstractSpec == Abstract!Spec

=============================================================================
