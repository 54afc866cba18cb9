----------------------------- MODULE Aggregator -----------------------------
(***************************************************************************)
(* What a windowed aggregator promises its callers, whatever windows,      *)
(* threads and configurations it has: an input it has taken is pending     *)
(* until it is delivered, once, or dropped, once; delivered and dropped    *)
(* inputs stay so.                                                         *)
(***************************************************************************)
CONSTANT Inputs

VARIABLES pending, delivered, dropped

vars == <<pending, delivered, dropped>>

Init == pending = {} /\ delivered = {} /\ dropped = {}

\* Take an input, and give up some others to make room.
Accept(in, evicted) ==
  /\ in \notin pending \cup delivered \cup dropped
  /\ pending' = (pending \ evicted) \cup {in}
  /\ dropped' = dropped \cup evicted
  /\ UNCHANGED delivered

Drop(lost) ==
  /\ pending' = pending \ lost
  /\ dropped' = dropped \cup lost
  /\ UNCHANGED delivered

Deliver(batch) ==
  /\ pending' = pending \ batch
  /\ delivered' = delivered \cup batch
  /\ UNCHANGED dropped

Next ==
  \E some \in SUBSET pending :
    \/ \E in \in Inputs : Accept(in, some)
    \/ Drop(some)
    \/ Deliver(some)

Spec == Init /\ [][Next]_vars

=============================================================================
