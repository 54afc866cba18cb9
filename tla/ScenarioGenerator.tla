------------------------- MODULE ScenarioGenerator -------------------------
(***************************************************************************)
(* asap-precompute-rs/src/otap/scenario_generator.rs: the receiver that    *)
(* generates the load, the same for every pipeline.  A second is cut into  *)
(* as many batches as the highest rate needs; a tick sends the batch of    *)
(* its time, and a generator that falls behind skips batches.  A draw is   *)
(* any value it may give: how often each comes is left out.  A point is   *)
(* its second, its batch, its number in it, its event time, its attribute  *)
(* values and the distribution its metric value is of.  An attribute value *)
(* is the number that is drawn or counted, or a value that was injected.   *)
(*                                                                         *)
(* Definitions marked "Mutant" are no part of the model: each is a         *)
(* plausible mistake in the definition after it.                           *)
(***************************************************************************)
EXTENDS Naturals, Sequences, FiniteSetsExt

CONSTANTS
  Configs,    \* the configurations a generator may be given
  Second,     \* a second, in units of event time
  Starts,     \* how far into the scenario a generator may start
  None,       \* an absent value
  MaxSeconds, \* bound on the length of the scenario
  Failures    \* whether encoding a batch may fail

IsSequence(s) == Len(s) \in Nat /\ DOMAIN s = 1..Len(s)

\* The types of a configuration's fields.
ConfigOK(cfg) ==
  /\ cfg.rate \in Nat /\ cfg.maxBatch \in Nat
  /\ IsSequence(cfg.attributes) /\ IsSequence(cfg.changes)
  /\ \A i \in DOMAIN cfg.attributes :
       /\ cfg.attributes[i].cardinality \in Nat /\ cfg.attributes[i].growth \in Nat
       /\ cfg.attributes[i].unique \in BOOLEAN /\ cfg.attributes[i].zipf \in BOOLEAN
  /\ \A c \in DOMAIN cfg.changes :
       /\ cfg.changes[c].after \in Nat /\ cfg.changes[c].share \in Nat
       /\ {cfg.changes[c].rate, cfg.changes[c].cardinality} \subseteq Nat \cup {None}

ASSUME GeneratorAssumption ==
  /\ None \notin Configs /\ None \notin Nat
  /\ \A cfg \in Configs : ConfigOK(cfg)
  /\ Second \in Nat \ {0} /\ Starts \subseteq Nat
  /\ MaxSeconds \in Nat /\ Failures \in BOOLEAN

VARIABLES
  scenario,   \* the configuration, once it is found valid
  nextBatch,  \* the number of the first batch not passed yet
  running,    \* the receiver's loop
  pdata,      \* the messages on their way to the next node
  generated,  \* history: the points sent
  skipped     \* history: the batches passed over or not sent

generator == <<scenario, nextBatch, running, pdata, generated, skipped>>

InitGenerator ==
  /\ scenario = None /\ nextBatch = 0 /\ running = FALSE
  /\ pdata = <<>> /\ generated = {} /\ skipped = {}

-----------------------------------------------------------------------------
(* Scenario.                                                               *)

Keys(cfg) == {cfg.attributes[i].key : i \in DOMAIN cfg.attributes}

\* Scenario::new: what a configuration must be.  A change is of the rate or of
\* an attribute there is; only values drawn uniformly may grow in number.
Valid(cfg) ==
  /\ cfg.rate > 0 /\ cfg.maxBatch > 0
  /\ \A c \in DOMAIN cfg.changes :
       /\ cfg.changes[c].rate # 0 /\ cfg.changes[c].cardinality # 0
       /\ \/ cfg.changes[c].rate # None /\ cfg.changes[c].attribute = None
          \/ cfg.changes[c].attribute \in Keys(cfg)
  /\ \A i \in DOMAIN cfg.attributes :
       /\ cfg.attributes[i].cardinality > 0
       /\ ~(cfg.attributes[i].zipf /\ cfg.attributes[i].growth # 0)

RateChanges(cfg) == {c \in DOMAIN cfg.changes : cfg.changes[c].rate # None}

\* The changes of an attribute's number of distinct values.
CardinalityChanges(cfg, i) ==
  {c \in DOMAIN cfg.changes : /\ cfg.changes[c].attribute = cfg.attributes[i].key
                              /\ cfg.changes[c].cardinality # None}

\* Where Scenario::new makes a table of the popularity of values: for every
\* number of distinct values the attribute will ever have.
Tables(cfg) ==
  UNION {{<<i, cfg.attributes[i].cardinality>>}
           \cup {<<i, cfg.changes[c].cardinality>> : c \in CardinalityChanges(cfg, i)} :
           i \in {i \in DOMAIN cfg.attributes : cfg.attributes[i].zipf}}

\* Mutant, for ScheduleKept: changes begin a second early.
BegunEarly(cfg, second) == {c \in DOMAIN cfg.changes : cfg.changes[c].after <= second + 1}

Begun(cfg, second) == {c \in DOMAIN cfg.changes : cfg.changes[c].after <= second}

\* max_by_key: the change that began last, of those at the same time the last listed.
LastBegun(cfg, begun) ==
  CHOOSE c \in begun : \A d \in begun :
    \/ cfg.changes[c].after > cfg.changes[d].after
    \/ cfg.changes[c].after = cfg.changes[d].after /\ c >= d

RateAt(cfg, second) ==
  LET begun == RateChanges(cfg) \cap Begun(cfg, second)
  IN IF begun = {} THEN cfg.rate ELSE cfg.changes[LastBegun(cfg, begun)].rate

CardinalityAt(cfg, i, second) ==
  LET begun == CardinalityChanges(cfg, i) \cap Begun(cfg, second)
  IN IF begun = {} THEN cfg.attributes[i].cardinality ELSE cfg.changes[LastBegun(cfg, begun)].cardinality

MaxRate(cfg) == Max({cfg.rate} \cup {cfg.changes[c].rate : c \in RateChanges(cfg)})

BatchesPerSecond(cfg) == (MaxRate(cfg) + cfg.maxBatch - 1) \div cfg.maxBatch

\* The first point and the number of points of a batch.
BatchRange(cfg, second, index) ==
  LET First(i) == (i * RateAt(cfg, second)) \div BatchesPerSecond(cfg)
  IN [first |-> First(index), count |-> First(index + 1) - First(index)]

\* Mutant, for UniqueValues: the counter goes by the second's own rate.
CounterByRate(cfg, second, index) == second * RateAt(cfg, second) + BatchRange(cfg, second, index).first

\* Where the counter of unique values is set for a batch.
CounterOf(cfg, second, index) == second * MaxRate(cfg) + BatchRange(cfg, second, index).first

UniqueAttributes(cfg) == {i \in DOMAIN cfg.attributes : cfg.attributes[i].unique}

\* attribute_value of a unique attribute: each takes the next count.  The seed,
\* which keeps sources apart, is that of one source here.
UniqueValue(cfg, second, index, n, i) ==
  CounterOf(cfg, second, index) + (n - 1) * Cardinality(UniqueAttributes(cfg))
    + Cardinality({j \in UniqueAttributes(cfg) : j <= i})

\* attribute_value of another: below its number of distinct values, and without
\* a table what its growth, any number up to "growth", has added since the start.
Drawable(cfg, i, second) ==
  LET size == CardinalityAt(cfg, i, second) IN
  0..size - 1 + (IF <<i, size>> \in Tables(cfg) \/ second = 0 THEN 0 ELSE cfg.attributes[i].growth)

\* What is drawn for a point: a value of each attribute that is not unique, and
\* which of the injections that have begun hit it; share is in percent.
Draws(cfg, second) ==
  LET shared == DOMAIN cfg.attributes \ UniqueAttributes(cfg)
      Shares(least) == {c \in Begun(cfg, second) : /\ cfg.changes[c].inject # None
                                                   /\ cfg.changes[c].attribute # None
                                                   /\ cfg.changes[c].share >= least}
  IN [values : {f \in [shared -> UNION {Drawable(cfg, i, second) : i \in shared}] :
                  \A i \in shared : f[i] \in Drawable(cfg, i, second)},
      hits : {hits \in SUBSET Shares(1) : Shares(100) \subseteq hits}]

\* A change is of the first attribute of its key.
Changes(cfg, c, i) ==
  /\ cfg.attributes[i].key = cfg.changes[c].attribute
  /\ \A j \in 1..i - 1 : cfg.attributes[j].key # cfg.attributes[i].key

\* The value of an attribute once the changes up to last are made.
ValueAfter(cfg, i, value, hits, last) ==
  LET mine == {c \in hits : c <= last /\ Changes(cfg, c, i)}
  IN IF mine = {} THEN value ELSE cfg.changes[Max(mine)].inject

\* A point's distribution is that of the last listed change it matches, by the
\* attribute's value when the turn of that change comes.
DistributionOf(cfg, second, values, hits) ==
  LET Matches(c, i) == /\ Changes(cfg, c, i)
                       /\ cfg.changes[c].equals \in {None, ValueAfter(cfg, i, values[i], hits, c)}
      matching == {c \in Begun(cfg, second) : /\ cfg.changes[c].value # None
                                              /\ \E i \in DOMAIN cfg.attributes : Matches(c, i)}
  IN IF matching = {} THEN cfg.value ELSE cfg.changes[Max(matching)].value

\* The event time of a batch.
Stamp(cfg, second, index) == second * Second + (index * Second) \div BatchesPerSecond(cfg)

\* batch: a message of points, all of one event time.
BatchOf(cfg, second, index, draws) ==
  LET Values(n) == [i \in DOMAIN cfg.attributes |->
                      IF i \in UniqueAttributes(cfg) THEN UniqueValue(cfg, second, index, n, i)
                                                     ELSE draws[n].values[i]]
  IN {[second |-> second, index |-> index, n |-> n, ts |-> Stamp(cfg, second, index),
       values |-> [i \in DOMAIN cfg.attributes |->
                     ValueAfter(cfg, i, Values(n)[i], draws[n].hits, Len(cfg.changes))],
       value |-> DistributionOf(cfg, second, Values(n), draws[n].hits)] : n \in DOMAIN draws}

-----------------------------------------------------------------------------
(* The receiver.                                                           *)

\* The time between two ticks; the division truncates.
Period(cfg) == Second \div BatchesPerSecond(cfg)

\* start: a late generator begins with the first batch that is still to come.  A
\* period that truncates to 0 ends the receiver by a division by zero.
Start(cfg, late) ==
  /\ scenario = None /\ Valid(cfg) /\ Period(cfg) > 0
  /\ scenario' = cfg /\ running' = TRUE
  /\ nextBatch' = (late + Period(cfg) - 1) \div Period(cfg)
  /\ skipped' = 0..nextBatch' - 1
  /\ UNCHANGED <<pdata, generated>>

\* A tick, perhaps after skipped ones, sends the batch of its time; a batch
\* without points is not sent, and one that fails to be encoded ends the receiver.
Tick(batch) ==
  LET second == batch \div BatchesPerSecond(scenario)
      index == batch % BatchesPerSecond(scenario)
      count == BatchRange(scenario, second, index).count
  IN
  /\ running /\ batch >= nextBatch /\ second < MaxSeconds
  /\ nextBatch' = batch + 1
  /\ \/ /\ \E draws \in [1..count -> Draws(scenario, second)] :
             LET points == BatchOf(scenario, second, index, draws) IN
             /\ pdata' = IF count = 0 THEN pdata ELSE Append(pdata, points)
             /\ generated' = generated \cup points
        /\ skipped' = skipped \cup (nextBatch..batch - 1)
        /\ UNCHANGED running
     \/ /\ Failures /\ count > 0
        /\ running' = FALSE
        /\ skipped' = skipped \cup (nextBatch..batch)
        /\ UNCHANGED <<pdata, generated>>
  /\ UNCHANGED scenario

\* DrainIngress or Shutdown.
End ==
  /\ running /\ running' = FALSE
  /\ UNCHANGED <<scenario, nextBatch, pdata, generated, skipped>>

TickNext == \E second \in 0..MaxSeconds - 1 :
              \E index \in 0..BatchesPerSecond(scenario) - 1 :
                Tick(second * BatchesPerSecond(scenario) + index)

NextGenerator ==
  \/ \E cfg \in Configs, late \in Starts : Start(cfg, late)
  \/ scenario # None /\ TickNext
  \/ End

-----------------------------------------------------------------------------
(* Properties.                                                             *)

\* The changes whose time has come.
Scheduled(second) == {c \in DOMAIN scenario.changes : second >= scenario.changes[c].after}

\* What they may have put in the place of a value.
Injectable(second, i) ==
  {scenario.changes[c].inject : c \in {c \in Scheduled(second) : Changes(scenario, c, i)}} \ {None}

\* Every point has new values of the unique attributes but for what is injected,
\* whatever the rate changes to and whatever is skipped: counters restart with
\* each batch and must not meet.
UniqueValues ==
  \A p, q \in generated : p # q =>
    \A i \in UniqueAttributes(scenario) :
      p.values[i] = q.values[i] => p.values[i] \in Injectable(p.second, i) \cap Injectable(q.second, i)

\* A second none of whose batches was passed over has as many points as its rate
\* says, and no message is larger than it may be.
RateKept ==
  /\ \A i \in DOMAIN pdata : Cardinality(pdata[i]) <= scenario.maxBatch
  /\ \A second \in 0..MaxSeconds - 1 :
       LET size == BatchesPerSecond(scenario)
           batches == (second * size)..(second * size + size - 1)
       IN batches \subseteq (0..nextBatch - 1) \ skipped =>
            Cardinality({p \in generated : p.second = second}) = RateAt(scenario, second)

\* Before a change begins no point shows it: not its injected value, not its
\* distribution, not a value beyond the numbers of distinct values there were.
ChangesWait ==
  \A p \in generated :
    /\ p.value \in {scenario.value} \cup {scenario.changes[c].value : c \in Scheduled(p.second)}
    /\ \A i \in DOMAIN scenario.attributes \ UniqueAttributes(scenario) :
         \/ p.values[i] \in Injectable(p.second, i)
         \/ \E size \in {scenario.attributes[i].cardinality}
                          \cup {scenario.changes[c].cardinality :
                                  c \in CardinalityChanges(scenario, i) \cap Scheduled(p.second)} :
              p.values[i] \in 0..size + scenario.attributes[i].growth - 1

\* The scenario is kept to, at whatever time the generator starts and whatever it
\* skips: seconds have the points of their rate, and changes wait for their time.
ScheduleKept == scenario # None => RateKept /\ ChangesWait
=============================================================================
