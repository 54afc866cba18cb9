---------------------------- MODULE MCPrecompute ----------------------------
(* Small instances of Precompute. *)
EXTENDS Precompute, TLC

CONSTANTS r1, r2

la == [job |-> "a"]
lb == [job |-> "b"]
lax == [job |-> "a", pod |-> "x"]
lay == [job |-> "a", pod |-> "y"]
LabelsInPlay == {la, lb, lax, lay, NoLabels}

Scalar(ts, res, labels) ==
  [kind |-> "scalar", ts |-> ts, res |-> res, labels |-> labels,
   good |-> TRUE, agg |-> 0, type |-> "Unspecified", count |-> 1]

Bad(o) == [o EXCEPT !.good = FALSE]

Sketch(ts, res, labels, agg, type) ==
  [Scalar(ts, res, labels) EXCEPT !.kind = "envelope", !.agg = agg, !.type = type, !.count = 2]

Plain ==
  [agg |-> 1, type |-> "KLL", size |-> 2, lateness |-> 0, maxSeries |-> 0,
   overflow |-> "Drop", strip |-> "none", by |-> {}, match |-> LabelsInPlay,
   transmit |-> TRUE, points |-> 1]

\* The threads are interchangeable.
ThreadSymmetry == Permutations(Threads)

\* Unchanging configurations: one without limits, and two with a cap of one
\* series, evicting (unsized windows, matchers, aggregate_by) or dropping (sized
\* windows, a lateness allowance).  Scalars and envelopes of three series.
CoreConfigs ==
  {Plain,
   [Plain EXCEPT !.size = 0, !.maxSeries = 1, !.overflow = "EvictOldest",
                 !.by = {"job"}, !.match = {la, lax, lb}],
   [Plain EXCEPT !.maxSeries = 1, !.lateness = 1]}
NoSets == {}
CoreOffered ==
  {Scalar(1, r1, la), Scalar(4, r2, lax), Bad(Scalar(4, r1, lay)), Sketch(3, r1, lb, 1, "KLL")}
CoreTimes == {2, 5}

\* An update of the size, the agg id and the output mode, and a tick that keeps
\* coming, for liveness and for the abstract aggregator.
Evicting == [Plain EXCEPT !.maxSeries = 1, !.overflow = "EvictOldest"]
Wider == [Plain EXCEPT !.size = 3, !.agg = 2, !.transmit = FALSE]
TickConfigs == {Evicting, Wider}
TickSets == {<<Wider>>}
TickInitial == {Evicting}
TickOffered == {Scalar(1, r1, la), Scalar(2, r1, lb), Sketch(4, r1, la, 1, "KLL")}
TickTimes == {1, 6}
=============================================================================
