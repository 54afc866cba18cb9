-------------------------- MODULE MCExactBaseline --------------------------
(* A small instance of ExactBaseline. *)
EXTENDS ExactBaseline, TLC

CONSTANTS a, b

\* One point of a route, and an envelope, which is no point.
Point(ts) == [kind |-> "Float", ts |-> ts, labels |-> {<<"route", 1>>}]
Sketch(ts) == [kind |-> "Envelope", ts |-> ts, labels |-> {}]

\* Windows 2 and 4: in order, out of order, and with an envelope first.
MCBatches == {<<Point(1)>>, <<Point(3), Point(1)>>, <<Sketch(2), Point(3)>>}

\* Branch b also counts the values of every attribute.
MCGroupBy == [s \in {a, b} |-> {"route"}]
MCPerAttribute == [s \in {a, b} |-> IF s = b THEN {"*"} ELSE {}]

\* Branch a is given two messages, and b one.
MCMaxBatches == [s \in {a, b} |-> IF s = a THEN 2 ELSE 1]

\* After the grace of window 2, and after that of window 4.
MCTimes == {3, 5}
=============================================================================
