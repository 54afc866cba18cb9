--------------------------- MODULE ExactBaseline ---------------------------
(***************************************************************************)
(* The exact baseline of asap-precompute-rs/src/otap/baseline_nodes.rs: an *)
(* exact_branch per source keeps the raw points of its event-time windows, *)
(* and exact_merge adds up the windows of all sources.  What comes out is  *)
(* the truth that the sketches are measured against.                       *)
(*                                                                         *)
(* Each node handles one message at a time; a branch's messages reach the  *)
(* merge in order, over a transport that may lose or repeat one.  An entry *)
(* is a point's share in one series of its window.                         *)
(*                                                                         *)
(* Definitions marked "Mutant" are no part of the model: each is a         *)
(* plausible mistake in the definition after it.                           *)
(***************************************************************************)
EXTENDS Naturals, Sequences, FiniteSets

CONSTANTS
  Sources,       \* the branches
  Merge,         \* the merging node
  Size,          \* config.window of the branches
  GroupBy,       \* per branch, config.group_by
  PerAttribute,  \* per branch, config.per_attribute
  Batches,       \* the messages a branch may be given: sequences of items
  Times,         \* the readings of a clock
  IdleGrace,     \* IDLE_CLOSE_GRACE
  Grace,         \* config.grace of the merge
  Quorum,        \* config.sources of the merge; 0 waits the full grace
  TimersFail,    \* whether starting a timer may fail
  MaxBatches,    \* per branch, bound on the messages it is given
  MaxFaults      \* bound on the failures, lost and repeated messages

\* The entry of per_attribute that stands for every key.
AllKeys == "*"

ASSUME ConstantsAssumption ==
  /\ IsFiniteSet(Sources) /\ Merge \notin Sources
  /\ Size \in Nat /\ Times \subseteq Nat
  /\ {IdleGrace, Grace, Quorum, MaxFaults} \subseteq Nat
  /\ Batches \subseteq Seq([kind : STRING, ts : Nat, labels : SUBSET (STRING \X Nat)])
  /\ TimersFail \in BOOLEAN

VARIABLES
  given,         \* per branch, the messages it was given
  windows,       \* the entries in the branches' open windows
  emitted,       \* emitted_until of each branch
  sent,          \* per branch, the messages it has sent
  wire,          \* the messages on their way
  merged,        \* the entries in the merge's open windows
  emittedUntil,  \* emitted_until of the merge
  arrived,       \* the windows with an arrival time
  messages,      \* per window, the messages that carried it
  timers,        \* the nodes whose timer runs
  stopped,       \* the nodes ended by an error
  faults,        \* the failures so far
  taken,         \* history: the entries of all points decoded
  dropped,       \* history: those whose window the branch had emitted
  out,           \* history: the envelopes that left the merge
  late,          \* history: the entries the merge dropped as late
  lost,          \* history: those a failure lost
  timedOut,      \* history: the windows the merge closed incomplete
  repeated       \* history: the windows of the messages that came twice

branches == <<given, windows, emitted, sent, taken, dropped>>
merger == <<merged, emittedUntil, arrived, messages, out, late, timedOut>>
vars == <<branches, wire, merger, timers, stopped, faults, lost, repeated>>

\* The end of the window of a point; a window has at least a millisecond.
EndOf(ts) == LET size == IF Size = 0 THEN 1 ELSE Size IN (ts \div size) * size + size

Ends == UNION {{EndOf(batch[i].ts) : i \in DOMAIN batch} : batch \in Batches}

EndsOf(entries) == {x.end : x \in entries}

\* The points of a run lie in finitely many windows.
ASSUME EndsAssumption == IsFiniteSet(Ends)

Init ==
  /\ given = [s \in Sources |-> 0] /\ sent = [s \in Sources |-> 0]
  /\ windows = {} /\ emitted = [s \in Sources |-> 0]
  /\ wire = {}
  /\ merged = {} /\ emittedUntil = 0 /\ arrived = {} /\ messages = [e \in Ends |-> 0]
  /\ timers = {} /\ stopped = {} /\ faults = 0
  /\ taken = {} /\ dropped = {} /\ out = {} /\ late = {} /\ lost = {}
  /\ timedOut = {} /\ repeated = {}

-----------------------------------------------------------------------------
(* Parts of the handlers.                                                  *)

\* Something may fail, be lost or come twice, in at most MaxFaults steps.
MayFail == faults < MaxFaults

Count(failed) == faults' = IF failed THEN faults + 1 ELSE faults

Fault == MayFail /\ Count(TRUE)

\* Every message first starts the node's timer, unless it runs.
StartTimer(n) ==
  timers' \in {timers \cup {n}} \cup (IF n \in timers \/ ~TimersFail THEN {} ELSE {timers})

\* The largest end of a set of entries that is above `from`, or `from`.
UpTo(from, entries) ==
  CHOOSE e \in EndsOf(entries) \cup {from} : \A f \in EndsOf(entries) \cup {from} : f <= e

\* Mutant, for Accounted: windows that close together become one.
SeriesEnvelopes(entries) ==
  {[end |-> x.end, series |-> x.series, entries |-> {y \in entries : y.series = x.series}] :
     x \in entries}

\* The envelopes of a set of entries: one per window and series.
Envelopes(entries) ==
  {[end |-> x.end, series |-> x.series,
    entries |-> {y \in entries : y.end = x.end /\ y.series = x.series}] : x \in entries}

-----------------------------------------------------------------------------
(* exact_branch.                                                           *)

\* The series a point belongs to: one of values, by the labels in group_by, and
\* one of counts per attribute key kept.  The metric is no part of it.
SeriesOf(s, labels) ==
  {<<"q", {l \in labels : l[1] \in GroupBy[s]}>> : k \in GroupBy[s]}
    \cup {<<"a", l[1]>> : l \in {l \in labels : PerAttribute[s] \cap {AllKeys, l[1]} # {}}}

\* The entries of the first n items of a message; only plain values are observed.
EntriesOf(s, batch, n) ==
  UNION {{[from |-> s, no |-> given[s] + 1, item |-> i, end |-> EndOf(batch[i].ts),
           series |-> x, copy |-> 1] : x \in SeriesOf(s, batch[i].labels)} :
           i \in {i \in 1..n : batch[i].kind = "Float"}}

\* Mutant, for EntriesLeave: a window that ends at `until` stays open.
ClosedBefore(s, until) == {x \in windows : x.from = s /\ x.end < until}

\* The entries that leave the branch when its windows close.
Closed(s, until) == {x \in windows : x.from = s /\ x.end <= until}

\* close and send: a message with all of them, unless encoding or sending fails;
\* a failed send is an error.
Send(s, closed) ==
  /\ emitted' = [emitted EXCEPT ![s] = UpTo(emitted[s], closed)]
  /\ IF closed = {}
       THEN UNCHANGED <<wire, sent, lost, stopped>>
       ELSE \/ /\ sent' = [sent EXCEPT ![s] = @ + 1]
               /\ wire' = wire \cup {[from |-> s, no |-> sent[s] + 1, entries |-> closed]}
               /\ UNCHANGED <<lost, stopped>>
            \/ /\ MayFail
               /\ lost' = lost \cup closed
               /\ stopped' \in {stopped, stopped \cup {s}}
               /\ UNCHANGED <<wire, sent>>

\* The entries whose window has not been emitted.
Observed(s, entries, closed) == {x \in entries : x.end > UpTo(emitted[s], closed)}

\* A message of n decodable items: the time of the first, whatever it is, closes
\* windows; then every point is observed.
BranchPData(s, batch, n) ==
  LET closed == IF n = 0 THEN {} ELSE Closed(s, batch[1].ts)
      entries == EntriesOf(s, batch, n)
      observed == Observed(s, entries, closed)
  IN
  /\ s \notin stopped /\ given[s] < MaxBatches[s]
  /\ n = Len(batch) \/ MayFail
  /\ StartTimer(s)
  /\ given' = [given EXCEPT ![s] = @ + 1]
  /\ taken' = taken \cup entries
  /\ dropped' = dropped \cup (entries \ observed)
  /\ windows' = (windows \ closed) \cup observed
  /\ Send(s, closed)
  /\ Count(n < Len(batch) \/ lost' # lost)
  /\ UNCHANGED <<merger, repeated>>

\* The message cannot be acknowledged, which is an error.
BranchNoAck(s) ==
  /\ s \notin stopped /\ Fault
  /\ StartTimer(s)
  /\ stopped' = stopped \cup {s}
  /\ UNCHANGED <<branches, wire, merger, lost, repeated>>

\* Close the windows up to `until`, and take nothing in.
BranchClose(s, until) ==
  /\ s \notin stopped
  /\ StartTimer(s)
  /\ windows' = windows \ Closed(s, until)
  /\ Send(s, Closed(s, until))
  /\ Count(lost' # lost)
  /\ UNCHANGED <<given, taken, dropped, merger, repeated>>

\* An idle branch closes IdleGrace after a window's end.
BranchTick(s, now) ==
  /\ s \in timers
  /\ BranchClose(s, IF now < IdleGrace THEN 0 ELSE now - IdleGrace)

\* Everything goes: no window ends after the last end there is.
BranchShutdown(s) == \E last \in Ends : (\A e \in Ends : e <= last) /\ BranchClose(s, last)

-----------------------------------------------------------------------------
(* The transport.                                                          *)

\* The next message of a source, in the order sent.
NextOf(s) ==
  {msg \in wire : msg.from = s /\ \A other \in wire : other.from = s => msg.no <= other.no}

Lose(msg) ==
  /\ Fault
  /\ wire' = wire \ {msg} /\ lost' = lost \cup msg.entries
  /\ UNCHANGED <<branches, merger, timers, stopped, repeated>>

Second(entries) == {[x EXCEPT !.copy = 2] : x \in entries}

\* A message delivered is gone, or comes again as a copy.
Take(msg) ==
  \/ wire' = wire \ {msg} /\ UNCHANGED repeated
  \/ /\ MayFail /\ \A x \in msg.entries : x.copy = 1
     /\ wire' = (wire \ {msg}) \cup {[msg EXCEPT !.entries = Second(@)]}
     /\ repeated' = repeated \cup EndsOf(msg.entries)

-----------------------------------------------------------------------------
(* exact_merge.                                                            *)

\* The counts after a message that carried windows not emitted yet.
Carried(ends) ==
  [e \in Ends |-> IF e \in ends /\ e > emittedUntil THEN messages[e] + 1 ELSE messages[e]]

\* Mutant, for GroundTruth: one source short.
CompleteBut1(counts) ==
  {e \in Ends : \E c \in Ends : e <= c /\ Quorum > 0 /\ counts[c] + 1 >= Quorum}

\* The windows that enough messages carried, and all earlier ones.
Complete(counts) ==
  {e \in Ends : \E c \in Ends : e <= c /\ Quorum > 0 /\ counts[c] >= Quorum}

\* The windows the clock closes.
GraceOver(now) == {e \in Ends : e + Grace <= now}

\* due, send and the timing gauges.  A batch that cannot be encoded is gone; a
\* batch or gauges that cannot be sent are an error, and a batch that cannot be
\* sent leaves its arrival times behind.
Emit(closing, held, arrivals, counts) ==
  LET ready == {x \in held : x.end \in closing} IN
  /\ merged' = held \ ready
  /\ messages' = [e \in Ends |-> IF e \in closing THEN 0 ELSE counts[e]]
  /\ emittedUntil' = UpTo(emittedUntil, ready)
  /\ IF ready = {}
       THEN arrived' = arrivals /\ UNCHANGED <<out, stopped>>
       ELSE \/ /\ out' = out \cup Envelopes(ready) \/ (MayFail /\ UNCHANGED out)
               /\ arrived' = arrivals \ EndsOf(ready)
               /\ stopped' \in {stopped} \cup (IF MayFail THEN {stopped \cup {Merge}} ELSE {})
            \/ /\ MayFail /\ UNCHANGED out
               /\ arrived' = arrivals /\ stopped' = stopped \cup {Merge}

\* The entries of a batch that Emit did not send.
Unsent(closing, held) ==
  IF out' = out THEN {x \in held : x.end \in closing} ELSE {}

\* A message that something happened to counts as one fault.
Failed == Count(lost' # lost \/ stopped' # stopped \/ wire' \ wire # {})

\* Mutant, for WindowsInOrder: the window emitted last still takes entries.
NotBefore(entries) == {x \in entries : x.end >= emittedUntil}

\* The entries of a message that are not late.
NotLate(entries) == {x \in entries : x.end > emittedUntil}

\* The entries of the envelopes that fail to decode.
Undecoded(bad) == UNION {env.entries : env \in bad}

\* A window holds its own entries and those merged into it.
Merged(kept) == merged \cup kept

\* A message of a branch at time now; `bad` are the envelopes that fail to
\* decode, whose windows count all the same.
MergePData(msg, bad, now) ==
  LET refused == Undecoded(bad)
      kept == NotLate(msg.entries) \ refused
      counts == Carried(EndsOf(msg.entries))
      closing == GraceOver(now) \cup Complete(counts)
  IN
  /\ Merge \notin stopped /\ StartTimer(Merge)
  /\ bad = {} \/ MayFail
  /\ Take(msg)
  /\ late' = late \cup (msg.entries \ NotLate(msg.entries))
  /\ Emit(closing, Merged(kept), arrived \cup EndsOf(kept), counts)
  /\ lost' = lost \cup (NotLate(msg.entries) \cap refused) \cup Unsent(closing, Merged(kept))
  /\ timedOut' = timedOut \cup (EndsOf(Merged(kept)) \cap (closing \ Complete(counts)))
  /\ Failed
  /\ UNCHANGED branches

\* Close windows, and take nothing in.
MergeClose(closing) ==
  /\ Merge \notin stopped /\ StartTimer(Merge)
  /\ Emit(closing, merged, arrived, messages)
  /\ lost' = lost \cup Unsent(closing, merged)
  /\ timedOut' = timedOut \cup (EndsOf(merged) \cap (closing \ Complete(messages)))
  /\ UNCHANGED <<branches, wire, late, repeated>>

\* A message that cannot be decoded: nothing is taken in or counted.
MergeUndecodable(msg, now) ==
  LET closing == GraceOver(now) \cup Complete(messages) IN
  /\ Merge \notin stopped /\ StartTimer(Merge) /\ Fault
  /\ wire' = wire \ {msg}
  /\ Emit(closing, merged, arrived, messages)
  /\ lost' = lost \cup msg.entries \cup Unsent(closing, merged)
  /\ timedOut' = timedOut \cup (EndsOf(merged) \cap (closing \ Complete(messages)))
  /\ UNCHANGED <<branches, late, repeated>>

\* A message that cannot be acknowledged, which is an error.
MergeNoAck(msg) ==
  /\ Merge \notin stopped /\ StartTimer(Merge) /\ Fault
  /\ wire' = wire \ {msg} /\ lost' = lost \cup msg.entries
  /\ stopped' = stopped \cup {Merge}
  /\ UNCHANGED <<branches, merger, repeated>>

MergeTick(now) ==
  /\ Merge \in timers
  /\ MergeClose(GraceOver(now) \cup Complete(messages))
  /\ Failed

MergeShutdown == MergeClose(Ends) /\ Failed

\* Any other control message.
OtherControl(n) ==
  /\ n \notin stopped /\ StartTimer(n)
  /\ UNCHANGED <<branches, wire, merger, stopped, faults, lost, repeated>>

Deliver(s, now) ==
  \E msg \in NextOf(s) : \E bad \in SUBSET Envelopes(msg.entries) : MergePData(msg, bad, now)

Next ==
  \/ \E s \in Sources :
       \/ \E batch \in Batches : \E n \in 0..Len(batch) : BranchPData(s, batch, n)
       \/ BranchNoAck(s)
       \/ \E now \in Times : BranchTick(s, now)
       \/ BranchShutdown(s)
       \/ \E now \in Times : Deliver(s, now)
       \/ \E msg \in NextOf(s) :
            Lose(msg) \/ MergeNoAck(msg) \/ \E now \in Times : MergeUndecodable(msg, now)
  \/ \E now \in Times : MergeTick(now)
  \/ MergeShutdown
  \/ \E n \in Sources \cup {Merge} : OtherControl(n)

Spec == Init /\ [][Next]_vars

\* The engine keeps the timers ticking and the clocks get past every window; the
\* transport delivers, or loses, what is sent.
Late == {now \in Times : \A e \in Ends : e + Grace <= now /\ e + IdleGrace <= now}

LiveSpec ==
  /\ Spec
  /\ WF_vars(\E now \in Late : MergeTick(now))
  /\ \A s \in Sources :
       /\ WF_vars(\E now \in Late : BranchTick(s, now))
       /\ WF_vars(\E now \in Times : Deliver(s, now))

-----------------------------------------------------------------------------
(* Properties.                                                             *)

Originals(entries) == {x \in entries : x.copy = 1}

OnWire == UNION {msg.entries : msg \in wire}

Sent == UNION {env.entries : env \in out}

\* Every point is, in every series it belongs to, in exactly one place: an open
\* window of the branch, a message, an open window of the merge, one envelope, or
\* what was dropped, late or lost; none of the hand-overs on the way loses it or
\* leaves it behind as well.
Accounted ==
  LET places == <<windows, Originals(OnWire), Originals(merged), Originals(Sent), dropped,
                  Originals(late), Originals(lost)>>
  IN
  /\ taken = UNION {places[i] : i \in 1..7}
  /\ \A i, j \in 1..7 : i # j => places[i] \cap places[j] = {}
  /\ \A e, f \in out : e # f => e.entries \cap f.entries = {}

\* With a quorum of all branches, a window that no clock closed and no repeat of
\* its own or a later window completed is the truth: every branch is past it, and
\* it holds each point of its series but those the branch dropped as late or a
\* failure lost, and none twice.
GroundTruth ==
  Quorum = Cardinality(Sources) =>
    \A env \in out :
      env.end \notin timedOut /\ (\A e \in repeated : e < env.end) =>
        /\ \A s \in Sources : emitted[s] >= env.end
        /\ env.entries =
             {x \in taken : x.end = env.end /\ x.series = env.series} \ (dropped \cup lost)

\* The merge emits a window once, and windows in order, however late, often or
\* broken a branch's messages come.
WindowsInOrder ==
  [][\A env \in out' \ out : \A old \in out : env.end > old.end]_vars

\* A point does not stay in a window, of a branch or of the merge, or on its way,
\* unless a node has ended with an error.
EntriesLeave ==
  \A e \in Ends :
    e \in EndsOf(windows \cup merged \cup OnWire)
      ~> (e \notin EndsOf(windows \cup merged \cup OnWire) \/ stopped # {})

=============================================================================
