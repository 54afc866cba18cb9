----------------------------- MODULE MCAnswers -----------------------------
(* Small instances of Answers. *)
EXTENDS Answers, TLC

\* A window's content: a distribution, and counts of the keys 1, 2, 3.
Content(dist, c1, c2, c3) ==
  LET all == {[key |-> 1, count |-> c1], [key |-> 2, count |-> c2], [key |-> 3, count |-> c3]}
      counts == {x \in all : x.count > 0}
  IN [dist |-> dist, counts |-> counts, distinct |-> Cardinality(counts), points |-> c1 + c2 + c3]

Usual == Content(1, 6, 2, 0)
Shifted == Content(2, 2, 0, 2)
Spread == Content(1, 2, 2, 4)

\* The sketch counts key 2 too often.
Over(content, key) ==
  [content EXCEPT !.counts = {IF x.key = key THEN [x EXCEPT !.count = @ + 2] ELSE x : x \in @}]

MCContents == {Usual, Shifted, Spread}
MCSketched == [c \in MCContents |-> IF c = Usual THEN {Over(c, 2)} ELSE {c}]
=============================================================================
