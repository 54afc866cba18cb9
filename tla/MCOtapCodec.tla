--------------------------- MODULE MCOtapCodec ---------------------------
(* Small instances of OtapCodec: flushes of up to three envelopes, and the *)
(* messages of other producers.                                            *)
EXTENDS OtapCodec

Payload(type) == [type |-> type, no |-> 1]

\* A KLL sketch of one series.
Kll ==
  [type |-> "KLL", agg |-> 1, version |-> 1, metric |-> "m", res |-> <<1>>, labels |-> <<2, 3>>,
   start |-> 0, end |-> 2, payload |-> Payload("KLL"), count |-> 5, value |-> 0]

\* Its next window; with its labels the other way around; with one of the
\* labels on the resource; of another type, plan or metric; estimates; exact
\* windows; far ends and IDs; a payload that is not what its type says.
MCEnvelopes ==
  {Kll, [Kll EXCEPT !.start = 2, !.end = 4], [Kll EXCEPT !.labels = <<3, 2>>, !.count = 6],
   [Kll EXCEPT !.res = <<>>, !.labels = <<1, 2, 3>>], [Kll EXCEPT !.type = "HLL", !.payload = Payload("HLL")],
   [Kll EXCEPT !.agg = 0, !.metric = "n"],
   [Kll EXCEPT !.type = "Unspecified", !.payload = None, !.count = 0, !.value = 7],
   [Kll EXCEPT !.type = "Unspecified", !.payload = None, !.count = 0, !.value = 8, !.start = 2,
               !.end = 4, !.labels = <<2>>],
   [Kll EXCEPT !.type = "Exact", !.payload = [type |-> "json", no |-> 1], !.end = 20, !.agg = 40],
   [Kll EXCEPT !.payload = Payload("HLL")]}

MCBatches ==
  {batch \in UNION {[1..n -> MCEnvelopes] : n \in 1..3} :
     Sendable(batch) /\ \A i, j \in DOMAIN batch : i # j => batch[i] # batch[j]}

Plain(labels) ==
  [attributes |-> [payload |-> None, type |-> None, agg |-> None, version |-> None,
                   labels |-> labels, start |-> None, end |-> None],
   startTime |-> 0, time |-> 8, value |-> 3, count |-> 0]

Carrier(type) ==
  [Plain(<<1>>) EXCEPT !.attributes.payload = Payload("KLL"), !.attributes.type = type,
                       !.attributes.agg = 2, !.attributes.end = 4]

MCPoints ==
  {Plain(<<>>), Plain(<<1>>), Plain(<<3, 1>>), [Plain(<<2>>) EXCEPT !.value = None],
   Carrier("KLL"), Carrier("unknown"), Carrier(None)}

Sends(type, kind, points) ==
  <<[attributes |-> [type |-> type, agg |-> None, version |-> None, labels |-> <<>>],
     scopes |-> <<[attributes |-> [id |-> None, labels |-> <<2>>],
                   metric |-> "m", kind |-> kind, points |-> points],
                  [attributes |-> [id |-> None, labels |-> <<>>],
                   metric |-> "n", kind |-> "Gauge", points |-> <<Plain(<<>>)>>]>>]>>

MCForeign ==
  {Sends(type, kind, points) :
     type \in {None, "KLL"}, kind \in {"Gauge", "Sum", "Summary", "Histogram"},
     points \in UNION {[1..n -> MCPoints] : n \in 1..2}}
=============================================================================
