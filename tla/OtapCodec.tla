----------------------------- MODULE OtapCodec -----------------------------
(***************************************************************************)
(* asap-precompute-rs/src/otap/codec.rs: envelopes become the rows of an   *)
(* OTAP metrics message, joined under resources (SCHEMA) and scopes        *)
(* (DICTIONARY), and the peer makes observations of them again.  The       *)
(* encoder lives as long as its output: it keeps the series IDs.           *)
(*                                                                         *)
(* A label is a number, in the order in which the encoder sorts labels.    *)
(* Integers are u64 up to MaxU64; attributes are read as i64.              *)
(*                                                                         *)
(* Definitions marked "Mutant" are no part of the model: each is a         *)
(* plausible mistake in the definition after it.                           *)
(***************************************************************************)
EXTENDS Naturals, Sequences, SequencesExt, FiniteSets, TLC

CONSTANTS
  Batches,     \* the flushes a node may encode: sequences of envelopes
  Foreign,     \* the messages of other producers
  None,        \* an absent value
  MaxU64,      \* u64::MAX
  MaxI64,      \* i64::MAX
  NanosPerMs,  \* 1_000_000
  MaxId,       \* u32::MAX
  Failures,    \* whether building the OTAP batch may fail
  MaxMessages  \* bound on the messages

\* The kinds of a metric.
Kinds == {"Gauge", "Sum", "Summary", "Histogram"}

IsSequence(s) == s \in Seq({s[n] : n \in DOMAIN s})

\* A message: resources of scopes of points.
IsMessage(m) ==
  /\ IsSequence(m)
  /\ \A r \in DOMAIN m :
       /\ IsSequence(m[r].scopes)
       /\ \A s \in DOMAIN m[r].scopes :
            LET scope == m[r].scopes[s] IN
            /\ scope.kind \in Kinds /\ scope.attributes.labels \in Seq(Nat)
            /\ IsSequence(scope.points)
            /\ \A n \in DOMAIN scope.points : scope.points[n].attributes.labels \in Seq(Nat)

ASSUME CodecAssumption ==
  /\ \A batch \in Batches : /\ IsSequence(batch)
                            /\ \A n \in DOMAIN batch : {batch[n].res, batch[n].labels} \subseteq Seq(Nat)
  /\ \A m \in Foreign : IsMessage(m)
  /\ {MaxId, NanosPerMs} \subseteq Nat \ {0} /\ {MaxU64, MaxI64} \subseteq Nat
  /\ None \notin Nat

VARIABLES
  seriesIds,     \* series_ids: the ID of each series key
  nextSeriesId,  \* next_series_id
  flushed,       \* the last batch encoded; empty when the last message is foreign
  message,       \* the last message
  got,           \* the observations the peer decoded from it, and whether it failed
  named,         \* history: the IDs under which envelopes were sent
  count          \* the messages so far

encoder == <<seriesIds, nextSeriesId>>
vars == <<encoder, flushed, message, got, named, count>>

NoMessage == <<>>

Init ==
  /\ seriesIds = <<>> /\ nextSeriesId = 1
  /\ flushed = <<>> /\ message = NoMessage
  /\ got = [scratch |-> <<>>, out |-> <<>>, failed |-> FALSE]
  /\ named = {} /\ count = 0

-----------------------------------------------------------------------------
(* Encoding.                                                               *)

\* A payload is the kind of sketch its bytes decode as and which sketch it is.
ValidPayload(type, payload) ==
  \/ payload = None
  \/ type # "Unspecified" /\ (type = "Exact" \/ payload.type = type)

\* The labels of a row, sorted.
Sorted(labels) == LET s == SortSeq(labels, <) IN [n \in DOMAIN labels |-> s[n]]

\* The key of a series: lengths keep its strings apart, but nothing keeps the
\* labels of the resource from those of the series.
SeriesKey(env) == <<env.agg, env.metric, Sorted(env.res) \o Sorted(env.labels)>>

\* series_id_for, for the next row: a known series keeps its ID.
WithId(known, env) ==
  IF SeriesKey(env) \in DOMAIN known.ids
  THEN known
  ELSE [ids |-> [key \in DOMAIN known.ids \cup {SeriesKey(env)} |->
                   IF key \in DOMAIN known.ids THEN known.ids[key] ELSE known.next],
        next |-> IF known.next = MaxId THEN MaxId ELSE known.next + 1]

\* Mutant, for RoundTrip: the sketch type of the first row is that of the plan.
SamePlan(env, other) ==
  env.agg = other.agg /\ env.version = other.version /\ Sorted(env.res) = Sorted(other.res)

SameResource(env, other) ==
  /\ env.agg = other.agg /\ env.type = other.type /\ env.version = other.version
  /\ Sorted(env.res) = Sorted(other.res)

\* The rows of a set in order.
InOrder(rows) ==
  [n \in 1..Cardinality(rows) |->
     CHOOSE i \in rows : Cardinality({j \in rows : j < i}) = n - 1]

\* A set of rows in groups, each of the rows that are the same as its first, the
\* groups in the order of their first rows.
Grouped(rows, same) ==
  LET firsts == InOrder({i \in rows : \A j \in rows : j < i => <<j, i>> \notin same})
  IN [g \in DOMAIN firsts |-> InOrder({i \in rows : <<firsts[g], i>> \in same})]

\* Milliseconds to nanoseconds: saturating_mul.
Nanos(ms) == IF ms * NanosPerMs > MaxU64 THEN MaxU64 ELSE ms * NanosPerMs

\* An integer attribute as a peer reads it: zeros are elided, and what turns
\* negative as an i64 is ignored.
IntAttribute(v) == IF v = 0 \/ v > MaxI64 THEN None ELSE v

\* The attributes of a row, of which the sketch is one.
RowAttributes(env) ==
  [payload |-> env.payload, type |-> None, agg |-> None, version |-> None, labels |-> <<>>,
   start |-> IntAttribute(env.start), end |-> IntAttribute(env.end)]

\* A sketch is a Summary data point,
SummaryDataPoint(env) ==
  [attributes |-> RowAttributes(env), startTime |-> Nanos(env.start), time |-> Nanos(env.end),
   value |-> env.value, count |-> env.count]

\* and an estimate a Gauge data point, with no start and no count.
NumberDataPoint(env) ==
  [attributes |-> RowAttributes(env), startTime |-> 0, time |-> Nanos(env.end),
   value |-> env.value, count |-> 0]

\* The kind of a metric is that of its first row.
ValueType(first) == IF first.payload = None THEN "Gauge" ELSE "Summary"

DataPoint(kind, env) ==
  IF kind = "Gauge" THEN NumberDataPoint(env) ELSE SummaryDataPoint(env)

\* The attributes of a scope are its series: the ID and the labels.
ScopeAttributes(first, id) == [id |-> id, labels |-> first.labels]

\* A scope has one metric.
Scope(batch, ids, rows) ==
  LET first == batch[rows[1]]
      kind == ValueType(first)
  IN [attributes |-> ScopeAttributes(first, ids[SeriesKey(first)]),
      metric |-> first.metric, kind |-> kind,
      points |-> [n \in DOMAIN rows |-> DataPoint(kind, batch[rows[n]])]]

\* The attributes of a resource are its labels and the schema of its sketches.
ResourceAttributes(first) ==
  [type |-> first.type, agg |-> IntAttribute(first.agg),
   version |-> IntAttribute(first.version), labels |-> first.res]

Resource(batch, ids, rows) ==
  LET same == {p \in ToSet(rows) \X ToSet(rows) :
                 ids[SeriesKey(batch[p[1]])] = ids[SeriesKey(batch[p[2]])]}
      scopes == Grouped(ToSet(rows), same)
  IN [attributes |-> ResourceAttributes(batch[rows[1]]),
      scopes |-> [s \in DOMAIN scopes |-> Scope(batch, ids, scopes[s])]]

\* Resources, scopes and rows in the order in which each is first seen.
MetricsView(batch, ids) ==
  LET same == {p \in (DOMAIN batch) \X (DOMAIN batch) : SameResource(batch[p[1]], batch[p[2]])}
      resources == Grouped(DOMAIN batch, same)
  IN [r \in DOMAIN resources |-> Resource(batch, ids, resources[r])]

-----------------------------------------------------------------------------
(* Decoding.                                                               *)

\* The data points of a message in order, each with what it inherits.
ScopePoints(resource, scope) ==
  [n \in DOMAIN scope.points |->
     [resource |-> resource.attributes, scope |-> scope.attributes, metric |-> scope.metric,
      kind |-> scope.kind, point |-> scope.points[n]]]

ResourcePoints(resource) ==
  FlattenSeq([s \in DOMAIN resource.scopes |-> ScopePoints(resource, resource.scopes[s])])

Points(m) == FlattenSeq([r \in DOMAIN m |-> ResourcePoints(m[r])])

OrElse(v, default) == IF v = None THEN default ELSE v

\* parse_sketch_type: an absent type is Unspecified, an unknown one an error.
KnownType(type) == type # "unknown"

Fails(acc) == [acc EXCEPT !.failed = TRUE]

Observation(item, labels, kind, envelope) ==
  [kind |-> kind, ts |-> item.point.time \div NanosPerMs, metric |-> item.metric,
   res |-> item.resource.labels, labels |-> labels, value |-> item.point.value,
   envelope |-> envelope]

\* push_summary_data_point
SummaryPoint(acc, item) ==
  LET p == item.point
      own == p.attributes
      type == OrElse(item.resource.type, "Unspecified")
  IN IF own.payload = None \/ ~KnownType(type) \/ ~ValidPayload(type, own.payload)
     THEN Fails(acc)
     ELSE [acc EXCEPT !.out = Append(@,
             Observation(item, item.scope.labels \o own.labels, "Envelope",
               [type |-> type, agg |-> OrElse(item.resource.agg, 0),
                version |-> OrElse(item.resource.version, 0), res |-> item.resource.labels,
                start |-> OrElse(own.start, p.startTime \div NanosPerMs),
                end |-> OrElse(own.end, p.time \div NanosPerMs),
                payload |-> own.payload, count |-> p.count]))]

\* Mutant, for EachPointAlone: the labels of the last point are not cut off.
RelabelledOver(buffer, labels) ==
  labels \o SubSeq(buffer, Len(labels) + 1, Len(buffer))

\* set_label and truncate: the labels are written over those of the last point.
Relabelled(buffer, labels) ==
  SubSeq(labels \o SubSeq(buffer, Len(labels) + 1, Len(buffer)), 1, Len(labels))

\* The envelope of a Gauge or Sum point: its attributes override the resource's,
\* and there is no other place for the window.
CarriedEnvelope(item, type) ==
  LET own == item.point.attributes IN
  [type |-> type, agg |-> OrElse(OrElse(own.agg, item.resource.agg), 0),
   version |-> OrElse(OrElse(own.version, item.resource.version), 0), res |-> <<>>,
   start |-> OrElse(own.start, 0), end |-> OrElse(own.end, 0),
   payload |-> own.payload, count |-> 0]

\* push_data_point: a point without a value is passed over.
NumberPoint(acc, item) ==
  LET own == item.point.attributes
      type == OrElse(OrElse(own.type, item.resource.type), "Unspecified")
      labels == Relabelled(acc.scratch, item.scope.labels \o own.labels)
  IN IF item.point.value = None THEN acc
     ELSE IF own.payload = None
     THEN [acc EXCEPT !.scratch = labels,
                      !.out = Append(@, Observation(item, labels, "Float", None))]
     ELSE IF ~KnownType(type) \/ ~ValidPayload(type, own.payload) THEN Fails(acc)
     ELSE [acc EXCEPT !.scratch = labels,
                      !.out = Append(@, Observation(item, labels, "Envelope",
                                                    CarriedEnvelope(item, type)))]

\* Histograms are skipped; the first point that fails ends the walk, and what
\* came before it has been passed on.
DecodePoint(acc, item) ==
  CASE acc.failed \/ item.kind = "Histogram" -> acc
    [] ~acc.failed /\ item.kind \in {"Gauge", "Sum"} -> NumberPoint(acc, item)
    [] ~acc.failed /\ item.kind = "Summary" -> SummaryPoint(acc, item)

DecodeEach(items) ==
  FoldLeft(DecodePoint, [scratch |-> <<>>, out |-> <<>>, failed |-> FALSE], items)

-----------------------------------------------------------------------------
(* The actions.                                                            *)

\* Mutant, for IdsTellSeriesApart: every flush counts from 1.
KnownPerFlush == [ids |-> <<>>, next |-> 1]

Known == [ids |-> seriesIds, next |-> nextSeriesId]

\* encode, and the peer's decode_each.  The IDs are assigned once every payload
\* is found valid, also when the batch then fails to be built.
Flush(batch) ==
  LET known == FoldLeft(WithId, Known, batch) IN
  /\ count < MaxMessages /\ count' = count + 1
  /\ \A n \in DOMAIN batch : ValidPayload(batch[n].type, batch[n].payload)
  /\ seriesIds' = known.ids /\ nextSeriesId' = known.next
  /\ \/ /\ flushed' = batch
        /\ message' = MetricsView(batch, known.ids)
        /\ got' = DecodeEach(Points(message'))
        /\ named' = named \cup {<<known.ids[SeriesKey(batch[n])], batch[n]>> : n \in DOMAIN batch}
     \/ Failures /\ UNCHANGED <<flushed, message, got, named>>

\* A payload that is not the sketch its type says fails the batch.
Refused(batch) ==
  /\ count < MaxMessages /\ count' = count + 1
  /\ \E n \in DOMAIN batch : ~ValidPayload(batch[n].type, batch[n].payload)
  /\ UNCHANGED <<encoder, flushed, message, got, named>>

\* A message of another producer.
Receive(m) ==
  /\ count < MaxMessages /\ count' = count + 1
  /\ flushed' = <<>>
  /\ message' = m
  /\ got' = DecodeEach(Points(m))
  /\ UNCHANGED <<encoder, named>>

Next ==
  \/ \E batch \in Batches : Flush(batch) \/ Refused(batch)
  \/ \E m \in Foreign : Receive(m)

Spec == Init /\ [][Next]_vars

-----------------------------------------------------------------------------
(* Properties.                                                             *)

\* A batch as a node makes it: of sketches or of estimates, never of both, the windows
\* and versions in reach of an i64.
Sendable(batch) ==
  /\ \A n \in DOMAIN batch : LET env == batch[n] IN
       /\ {env.start, env.end, env.version} \subseteq 0..MaxI64 /\ env.agg \in Nat
       /\ env.type \notin {None, "unknown"} /\ (env.payload = None => env.value # None)
  /\ (\E n \in DOMAIN batch : batch[n].payload = None) =>
       \A n \in DOMAIN batch : batch[n].payload = None

\* What should come out for an envelope: a sketch, or the value of an estimate.
\* Times past u64::MAX nanoseconds and IDs past i64::MAX do not survive.
Expected(env) ==
  [ts |-> IF env.end > MaxU64 \div NanosPerMs THEN MaxU64 \div NanosPerMs ELSE env.end,
   metric |-> env.metric, res |-> Sorted(env.res), labels |-> Sorted(env.labels),
   value |-> env.value,
   envelope |-> IF env.payload = None THEN None
                ELSE [type |-> env.type, agg |-> IF env.agg > MaxI64 THEN 0 ELSE env.agg,
                      version |-> env.version, res |-> Sorted(env.res), start |-> env.start,
                      end |-> env.end, payload |-> env.payload, count |-> env.count]]

Seen(obs) ==
  [ts |-> obs.ts, metric |-> obs.metric, res |-> Sorted(obs.res), labels |-> Sorted(obs.labels),
   value |-> obs.value,
   envelope |-> IF obs.kind = "Float" THEN None ELSE [obs.envelope EXCEPT !.res = Sorted(@)]]

SameSeries(env, other) == SameResource(env, other) /\ SeriesKey(env) = SeriesKey(other)

\* A flush of envelopes comes out of the peer whole, each as it went in whatever
\* it was grouped with, and the rows of a series in their order.
RoundTrip ==
  LET sent == [n \in DOMAIN flushed |-> Expected(flushed[n])]
      seen == [n \in DOMAIN got.out |-> Seen(got.out[n])]
      Times(seq, x) == Cardinality({n \in DOMAIN seq : seq[n] = x})
  IN flushed # <<>> =>
       /\ ~got.failed /\ Len(seen) = Len(sent)
       /\ \A x \in ToSet(sent) : Times(seen, x) = Times(sent, x)
       /\ \A i, j \in DOMAIN sent : i < j /\ SameSeries(flushed[i], flushed[j]) =>
            \E m, n \in DOMAIN seen : m < n /\ seen[m] = sent[i] /\ seen[n] = sent[j]

\* Whatever came before it in the message, an observation is what its data point
\* alone would give: the buffer that is written anew for each point leaks nothing.
EachPointAlone ==
  LET items == Points(message)
      alone == [n \in DOMAIN items |-> DecodeEach(<<items[n]>>)]
      read == {n \in DOMAIN items : \A i \in 1..n : ~alone[i].failed}
  IN /\ got.failed <=> \E n \in DOMAIN items : alone[n].failed
     /\ got.out = FlattenSeq([n \in 1..Cardinality(read) |-> alone[n].out])

SeriesOf(env) ==
  [agg |-> env.agg, metric |-> env.metric, labels |-> Sorted(env.res) \o Sorted(env.labels)]

\* An ID names one series, of one metric and one list of labels, in all the
\* messages of a stream, and a series keeps its ID from flush to flush.
IdsTellSeriesApart ==
  \A x, y \in named : x[1] = y[1] <=> SeriesOf(x[2]) = SeriesOf(y[2])
=============================================================================
