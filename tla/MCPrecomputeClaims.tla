------------------------- MODULE MCPrecomputeClaims -------------------------
(***************************************************************************)
(* What the comments of precompute.rs and config.rs say of PrecomputeImpl  *)
(* and the code does otherwise.  Each is the one property of a run in      *)
(* which TLC finds a counterexample.                                       *)
(***************************************************************************)
EXTENDS MCPrecompute

\* With transmit_sketch false, an empty list of quantiles "means always emit
\* envelope" (config.rs:222-224).  The window's sketches are thrown away.
NoQuantilesStillEmits ==
  ~SnapshotsFail /\ (\A c \in Configs : c.overflow # "EvictOldest") => discarded = {}

NoQuantilesConfigs == {[Plain EXCEPT !.transmit = FALSE, !.points = 0]}
ClaimOffered ==
  {Scalar(0, r1, la), Scalar(4, r2, lb), Sketch(3, r1, lb, 1, "KLL"), Sketch(5, r2, la, 1, "KLL")}
ClaimTimes == {1, 4, 7}
=============================================================================
