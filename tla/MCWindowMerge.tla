--------------------------- MODULE MCWindowMerge ---------------------------
(* Small instances of WindowMerge. *)
EXTENDS WindowMerge, TLC

CONSTANTS k1, k2

Just(sketches) == [sketches |-> sketches, scalars |-> FALSE]

\* Windows 2 and 4; messages of one or two series, of both windows.
MCKeys == {k1, k2}
MCEnds == {2, 4}
MCContents ==
  {Just({<<2, k1>>}), Just({<<4, k1>>}), Just({<<2, k1>>, <<2, k2>>}), Just({<<2, k2>>, <<4, k1>>})}
MCTimes == {1, 3, 5}

=============================================================================
