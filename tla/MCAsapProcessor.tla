-------------------------- MODULE MCAsapProcessor --------------------------
(* Small instances of AsapProcessor. *)
EXTENDS AsapProcessor, TLC

CONSTANTS r1

la == [job |-> "a"]
lb == [job |-> "b"]
MCLabels == {la, lb, NoLabels}
MCResources == {r1, NoResource}

Scalar(ts, labels) ==
  [kind |-> "scalar", ts |-> ts, res |-> r1, labels |-> labels, good |-> TRUE, agg |-> 0,
   type |-> "Unspecified", count |-> 1]

Bad(o) == [o EXCEPT !.good = FALSE]

Sketch(ts, type) ==
  [Scalar(ts, la) EXCEPT !.kind = "envelope", !.agg = 1, !.type = type, !.count = 2]

Kll ==
  [type |-> "kll", params |-> 0, metric |-> "m", key |-> "none", agg |-> 1, size |-> 2,
   by |-> {}, strip |-> "none"]

\* Its default key is the name of the metric.
Keyless == [Kll EXCEPT !.type = "countsketch"]

\* Rebuilt for its type, its metric's name or its flags, or updated to another
\* size; the last one does not resolve.
MCPlugins ==
  {Kll, [Kll EXCEPT !.size = 4], Keyless, [Keyless EXCEPT !.metric = "n"],
   [Kll EXCEPT !.strip = "all"], [Kll EXCEPT !.size = 0]}

MCOffered ==
  {Scalar(1, la), Scalar(3, la), Scalar(3, lb), Scalar(4, la), Scalar(5, la), Bad(Scalar(2, la)),
   Sketch(2, "kll")}
MCBatches ==
  {<<Scalar(1, la)>>, <<Scalar(3, lb)>>, <<Sketch(2, "kll"), Scalar(3, lb)>>,
   <<Bad(Scalar(2, la)), Scalar(5, la)>>}
MCTimes == {4, 6}

\* A batch that spans two windows.
SpanPlugins == {Kll}
SpanBatches == {<<Scalar(1, la)>>, <<Scalar(1, la), Scalar(3, la)>>, <<Scalar(4, la)>>}

\* "A tumbling window closes as soon as a point's event time passes its end, so
\* no point lands in an earlier window" (processor.rs:462).  Only the first point
\* of a batch closes it.
NoneInEarlierWindow ==
  \A e \in out : \A in \in Scalars(e) : in.obs.ts < e.range[2]
=============================================================================
