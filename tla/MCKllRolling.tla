---------------------------- MODULE MCKllRolling ----------------------------
(* Small instances of KllRolling. *)
EXTENDS KllRolling

Scalar(at, series) ==
  [kind |-> "scalar", at |-> at, width |-> 0, agg |-> 0, series |-> series]

Upstream(at, series) ==
  [kind |-> "envelope", at |-> at, width |-> 2, agg |-> 1, series |-> series]

\* Panes of 2 retained for 2 panes, and a reconfiguration to wider ones.
Narrow == [agg |-> 1, pane |-> 2, retention |-> 4, maxSeries |-> 1]
MCConfigs ==
  {Narrow, [Narrow EXCEPT !.pane = 4, !.maxSeries = 0], [Narrow EXCEPT !.retention = 3]}
MCOffered ==
  {Scalar(1, "p"), Scalar(3, "q"), Scalar(5, "p"), Upstream(0, "p"), Upstream(2, "q"),
   Upstream(4, "q")}
MCTimes == {1, 2, 4, 7, 9}

=============================================================================
