--------------------------- MODULE MCRawPipeline ---------------------------
(* A small instance of RawPipeline. *)
EXTENDS RawPipeline, TLC

CONSTANTS Hot, Base, Slow  \* an injected value, and the distributions

Attribute(key) == [key |-> key, cardinality |-> 1, zipf |-> FALSE, unique |-> FALSE, growth |-> 0]
Unique(key) == [Attribute(key) EXCEPT !.unique = TRUE]

Change(after) ==
  [after |-> after, rate |-> None, attribute |-> None, cardinality |-> None, equals |-> None,
   value |-> None, inject |-> None, share |-> 0]
RateFrom(after, rate) == [Change(after) EXCEPT !.rate = rate]
ChangeOf(after, key) == [Change(after) EXCEPT !.attribute = key]

Config(rate, maxBatch, attributes, changes) ==
  [rate |-> rate, maxBatch |-> maxBatch, value |-> Base, attributes |-> attributes, changes |-> changes]

User == <<Unique("user"), Attribute("route")>>

\* Two batches a second: a rate that falls; two changes at one time of which the
\* last counts.  One batch a second: values that are injected, also for a unique
\* attribute, that grow in number, by a change and by themselves, and that have a
\* distribution of their own.  And what is refused: a change of no attribute, and
\* growth of values that have a popularity.
MCConfigs ==
  {Config(3, 2, User, <<RateFrom(1, 1)>>),
   Config(1, 2, User, <<RateFrom(1, 2), RateFrom(1, 3), ChangeOf(0, "route")>>),
   Config(1, 2, <<Unique("user"), [Attribute("route") EXCEPT !.zipf = TRUE],
                  [Attribute("pod") EXCEPT !.growth = 1]>>,
          <<[ChangeOf(0, "user") EXCEPT !.inject = Hot, !.share = 50],
            [ChangeOf(1, "route") EXCEPT !.cardinality = 2],
            [ChangeOf(1, "route") EXCEPT !.equals = 1, !.value = Slow],
            [ChangeOf(1, "pod") EXCEPT !.inject = Hot, !.share = 100]>>),
   Config(1, 1, User, <<ChangeOf(0, "host")>>),
   Config(1, 1, <<[Attribute("pod") EXCEPT !.growth = 1, !.zipf = TRUE]>>, <<>>)}

\* Both attributes unique.
TwoUnique == {Config(4, 2, <<Unique("user"), Unique("trace")>>, <<>>)}

\* On time, or three quarters of a second late.
MCStarts == {0, 3}

\* Before a window's end, past its grace, and past its deadline.
MCTimes == {2, 5, 6, 10}
=============================================================================
