----------------------------- MODULE KllRolling -----------------------------
(***************************************************************************)
(* asap-precompute-rs/src/kll_windows.rs: KllWindowStore keeps KLL panes   *)
(* behind a watermark for as long as the retention, and                    *)
(* KllRollingPrecompute emits the sliding range that ends at the latest    *)
(* boundary.  Every call holds one mutex throughout, so it is one action.  *)
(* A pane's sketches are the set of inputs they absorbed: scalars, and     *)
(* full panes of an upstream stage.                                        *)
(*                                                                         *)
(* Definitions marked "Mutant" are no part of the model, as in WindowState.*)
(***************************************************************************)
EXTENDS Naturals, FiniteSets

CONSTANTS
  Configs,     \* the configurations in play
  Offered,     \* the scalars and envelopes the host may offer
  Times,       \* the values of now_ms that tick may be given
  MaxInputs,   \* bound on the number of inputs
  MaxUpdates   \* bound on the number of effective update_config calls

\* The pane is the slide, the retention the size.
ConfigType == [agg : Nat, pane : Nat, retention : Nat, maxSeries : Nat]

\* A configuration that the constructors do not reject.
Valid(c) ==
  /\ c.pane # 0
  /\ c.retention >= c.pane
  /\ c.retention % c.pane = 0

\* A scalar at time `at`, or an envelope that starts at `at` and is `width` wide.
ObservationType ==
  [kind : {"scalar", "envelope"}, at : Nat, width : Nat, agg : Nat, series : STRING]

ASSUME ConstantsAssumption ==
  /\ Configs \subseteq ConfigType
  /\ Offered \subseteq ObservationType
  /\ Times \subseteq Nat
  /\ MaxInputs \in Nat /\ MaxUpdates \in Nat

VARIABLES
  cfg,            \* the configuration
  closedUntil,    \* the watermark: panes that end by it are closed
  held,           \* the inputs in the retained panes
  lastEmit,       \* end of the last range emitted, 0 for None
  completeUntil,  \* upstream_complete_until, 0 for None
  closed,         \* set by shutdown
  offered,        \* number of inputs offered: the next input's id
  updates,        \* number of effective updates
  admitted,       \* history: the inputs absorbed under this configuration
  late,           \* history: those counted as dropped_late
  overflowed,     \* history: those counted as dropped_overflow
  emitted,        \* history: the ranges emitted under this configuration
  emissions,      \* history: how many, to tell a range emitted again
  missed          \* history: the boundaries whose data a tick failed to emit

store == <<closedUntil, held>>
vars == <<cfg, store, lastEmit, completeUntil, closed, offered, updates,
          admitted, late, overflowed, emitted, emissions, missed>>

Inputs == [id : 1..MaxInputs, obs : Offered]

Init ==
  /\ cfg \in {c \in Configs : Valid(c)}
  /\ closedUntil = 0 /\ held = {} /\ lastEmit = 0 /\ completeUntil = 0
  /\ closed = FALSE /\ offered = 0 /\ updates = 0
  /\ admitted = {} /\ late = {} /\ overflowed = {}
  /\ emitted = {} /\ emissions = 0 /\ missed = {}

-----------------------------------------------------------------------------
(* The store.                                                              *)

Larger(a, b) == IF a >= b THEN a ELSE b

Smaller(a, b) == IF a <= b THEN a ELSE b

Minus(a, b) == IF a >= b THEN a - b ELSE 0

\* The start of the pane that holds t.
Pane(t) == (t \div cfg.pane) * cfg.pane

\* Mutant, for Retained: the watermark follows the clock back.
WatermarkBack(t) == Pane(t)

\* The watermark after an advance to t.
Watermark(t) == Larger(closedUntil, Pane(t))

\* The oldest pane retained at a watermark.
Cutoff(mark) == Minus(mark, cfg.retention)

\* The inputs that an advance to t keeps.
Unexpired(t) == {in \in held : Pane(in.obs.at) >= Cutoff(Watermark(t))}

SeriesOf(inputs) == {in.obs.series : in \in inputs}

\* The pool, with in's series one too many.
AtCap(in, pool) ==
  /\ cfg.maxSeries > 0
  /\ in.obs.series \notin SeriesOf(pool)
  /\ Cardinality(SeriesOf(pool)) >= cfg.maxSeries

\* Absorb an input that came in time, once the watermark is at t: it fails at the
\* cap, after the watermark has moved.
Absorb(in, t) ==
  /\ closedUntil' = Watermark(t)
  /\ \/ /\ ~AtCap(in, Unexpired(t))
        /\ held' = Unexpired(t) \cup {in}
        /\ admitted' = admitted \cup {in}
        /\ UNCHANGED overflowed
     \/ /\ AtCap(in, Unexpired(t))
        /\ held' = Unexpired(t)
        /\ overflowed' = overflowed \cup {in}
        /\ UNCHANGED admitted

\* The inputs of the panes from start until end.
InRange(pool, start, end) ==
  {in \in pool : Pane(in.obs.at) >= start /\ Pane(in.obs.at) < end}

\* Mutant, for RangesWhole: the retention is not checked.
AnswerableExpired(start, end, mark) == end <= mark

\* Whether a query finds all its panes closed and retained.
Answerable(start, end, mark) == end <= mark /\ start >= Cutoff(mark)

-----------------------------------------------------------------------------
(* The calls.                                                              *)

Offer(in) ==
  /\ ~closed
  /\ in.id = offered + 1
  /\ offered' = offered + 1
  /\ UNCHANGED <<cfg, lastEmit, closed, updates, emitted, emissions, missed>>

\* Mutant, for RangesFinal: scalars, too, are late only once their pane expired.
LateOnceExpired(in) == in.obs.at < Cutoff(closedUntil)

Late(in) ==
  IF in.obs.kind = "scalar" THEN in.obs.at < closedUntil ELSE in.obs.at < Cutoff(closedUntil)

\* An envelope of another aggregation, or that is not one aligned pane.
Misfit(obs) ==
  \/ cfg.agg # 0 /\ obs.agg # cfg.agg
  \/ obs.at % cfg.pane # 0
  \/ obs.width # cfg.pane

Observe(in) ==
  /\ in.obs.kind = "scalar"
  /\ Offer(in)
  /\ UNCHANGED completeUntil
  /\ \/ /\ Late(in)
        /\ late' = late \cup {in}
        /\ UNCHANGED <<store, admitted, overflowed>>
     \/ /\ ~Late(in)
        /\ Absorb(in, in.obs.at)
        /\ UNCHANGED late

\* Also what observe does of a carried envelope, once it has released the lock.
ObserveEnvelope(in) ==
  /\ in.obs.kind = "envelope"
  /\ Offer(in)
  /\ \/ /\ Misfit(in.obs)
        /\ UNCHANGED <<store, completeUntil, admitted, late, overflowed>>
     \/ /\ ~Misfit(in.obs) /\ Late(in)
        /\ late' = late \cup {in}
        /\ UNCHANGED <<store, completeUntil, admitted, overflowed>>
     \/ /\ ~Misfit(in.obs) /\ ~Late(in)
        /\ Absorb(in, in.obs.at + in.obs.width)
        /\ completeUntil' = IF in \in admitted'
                            THEN Larger(completeUntil, in.obs.at + in.obs.width)
                            ELSE completeUntil
        /\ UNCHANGED late

\* The boundary a tick would emit: what the clock and the upstream have completed.
Boundary(now) == IF completeUntil = 0 THEN Pane(now) ELSE Smaller(completeUntil, Pane(now))

\* Mutant, for RangesMoveOn: the last boundary again.
EmittedLater(end) == lastEmit # 0 /\ end < lastEmit

AlreadyEmitted(end) == lastEmit # 0 /\ end <= lastEmit

\* Nothing to do at this boundary.
IdleTick(now) ==
  /\ closed \/ AlreadyEmitted(Boundary(now)) \/ Boundary(now) = 0
  /\ UNCHANGED vars

\* The watermark follows the clock, unless an upstream stage drives it; a query
\* that fails, like one that finds nothing, leaves the boundary to later ticks.
Tick(now) ==
  LET end == Boundary(now)
      start == Minus(end, cfg.retention)
      found == InRange(held', start, end)
  IN
  /\ ~closed /\ ~AlreadyEmitted(end) /\ end # 0
  /\ \/ /\ completeUntil = 0
        /\ closedUntil' = Watermark(now)
        /\ held' = Unexpired(now)
     \/ /\ completeUntil # 0
        /\ UNCHANGED store
  /\ \/ /\ Answerable(start, end, closedUntil') /\ found # {}
        /\ emissions' = emissions + 1
        /\ emitted' = emitted \cup
             {[no |-> emissions', start |-> start, end |-> end, inputs |-> found]}
        /\ lastEmit' = end
        /\ UNCHANGED missed
     \/ /\ Answerable(start, end, closedUntil') /\ found = {}
        /\ UNCHANGED <<emitted, emissions, lastEmit, missed>>
     \/ /\ ~Answerable(start, end, closedUntil')
        /\ missed' = IF found = {} THEN missed ELSE missed \cup {end}
        /\ UNCHANGED <<emitted, emissions, lastEmit>>
  /\ UNCHANGED <<cfg, completeUntil, closed, offered, updates, admitted, late, overflowed>>

\* A new configuration of this aggregation starts over with an empty store,
\* unless it is rejected.
UpdateConfig(c) ==
  /\ updates < MaxUpdates
  /\ c.agg = cfg.agg /\ c # cfg /\ Valid(c)
  /\ cfg' = c
  /\ closedUntil' = 0 /\ held' = {} /\ lastEmit' = 0 /\ completeUntil' = 0
  /\ updates' = updates + 1
  /\ admitted' = {} /\ emitted' = {} /\ emissions' = 0 /\ missed' = {}
  /\ UNCHANGED <<closed, offered, late, overflowed>>

Shutdown ==
  /\ closed' = TRUE
  /\ UNCHANGED <<cfg, store, lastEmit, completeUntil, offered, updates,
                 admitted, late, overflowed, emitted, emissions, missed>>

Next ==
  \/ \E in \in Inputs : Observe(in) \/ ObserveEnvelope(in)
  \/ \E now \in Times : Tick(now) \/ IdleTick(now)
  \/ \E c \in Configs : UpdateConfig(c)
  \/ Shutdown

Spec == Init /\ [][Next]_vars

-----------------------------------------------------------------------------
(* Properties.                                                             *)

Ranges == [no : Nat, start : Nat, end : Nat, inputs : SUBSET Inputs]

TypeOK ==
  /\ cfg \in Configs /\ Valid(cfg)
  /\ {closedUntil, lastEmit, completeUntil, offered, updates, emissions} \subseteq Nat
  /\ {held, admitted, late, overflowed} \subseteq SUBSET Inputs
  /\ closed \in BOOLEAN
  /\ emitted \subseteq Ranges
  /\ missed \subseteq Nat

\* Storage is bounded: every pane held lies within the retention behind the
\* watermark or is the one that starts at it, whatever event times, clock
\* readings and upstream panes drove the watermark.
Retained ==
  \A in \in held :
    Pane(in.obs.at) >= Cutoff(closedUntil) /\ Pane(in.obs.at) <= closedUntil

\* The cap is on the series of all retained panes together, also right after
\* some of them expired.
CapHonoured == cfg.maxSeries > 0 => Cardinality(SeriesOf(held)) <= cfg.maxSeries

\* An emitted range is the union of everything absorbed in its panes, not of
\* what had not yet expired when it was put together.
RangesWhole ==
  [][\A r \in emitted' \ emitted : r.inputs = InRange(admitted, r.start, r.end)]_vars

\* No scalar joins a pane that an emitted range has already covered: what was
\* emitted for it is final, however the clock and event times disagree.
RangesFinal ==
  \A r \in emitted : \A in \in InRange(admitted, r.start, r.end) :
    in.obs.kind = "scalar" => in \in r.inputs

\* Under one configuration ranges move on: a boundary is emitted once, also when
\* the clock goes back or the upstream repeats itself.
RangesMoveOn ==
  [][\A r \in emitted' \ emitted : \A old \in emitted : r.end > old.end]_vars

=============================================================================
