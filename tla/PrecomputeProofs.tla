-------------------------- MODULE PrecomputeProofs --------------------------
(***************************************************************************)
(* Precompute keeps its types; no input is lost and none is counted twice, *)
(* whatever the threads, the configurations and the inputs; and Precompute *)
(* implements Aggregator.  Closed windows move on, and while the           *)
(* configuration stays they do not overlap; each envelope is of one        *)
(* series, a window has one per series, no scalar in it was late, and the  *)
(* cap on series was kept.                                                 *)
(*                                                                         *)
(* Conservation is proved by what a step does to the sets of inputs: an    *)
(* observation adds one fresh input to the window and gives some up        *)
(* (AbsorbSets), a rotation moves the window into a call (RotateSets),     *)
(* serialisation gives some up (SerializeSets), publication delivers the   *)
(* rest (PublishSets); every other step leaves them alone (QuietSets).     *)
(*                                                                         *)
(* A step does one of three things to the bounds (BoundsStep): nothing, an *)
(* init_window, or an advance_window that closes the active range.  The    *)
(* invariants of the bounds then follow from the arithmetic of buckets;    *)
(* that of the series follows the entries of a window on their way out:    *)
(* stored under their key (Stored), in the hands of a call (Handed),       *)
(* returned (Sent), and never two windows with the same range (Apart).     *)
(***************************************************************************)
EXTENDS Precompute, FiniteSetTheorems, TLAPS

-----------------------------------------------------------------------------
(* Types                                                                   *)

LEMMA BucketType == ASSUME NEW t \in Nat, NEW size \in Nat PROVE Bucket(t, size) \in Nat
  BY DEF Bucket

LEMMA ConfigFields ==
  ASSUME NEW c \in Configs
  PROVE  /\ c.agg \in Nat /\ c.size \in Nat /\ c.lateness \in Nat
         /\ c.maxSeries \in Nat /\ c.points \in Nat
         /\ c.type \in {"Unspecified", "KLL", "HLL"}
         /\ c.overflow \in {"Drop", "Block", "EvictOldest"}
  BY ConstantsAssumption DEF ConfigType

LEMMA InputFields ==
  ASSUME NEW in \in Inputs
  PROVE  /\ in.id \in 1..MaxInputs
         /\ in.obs \in Offered
         /\ in.obs.ts \in Nat /\ in.obs.count \in Nat
         /\ in.obs.res \in Resources /\ in.obs.labels \in Labels
         /\ in.obs.good \in BOOLEAN
  BY ConstantsAssumption DEF Inputs, ObservationType

LEMMA AbsorbType ==
  ASSUME NEW e \in Entries, NEW in \in Inputs, NEW n \in Nat
  PROVE  /\ Absorb(e, in, n) \in Entries
         /\ Absorb(e, in, n).sketch = e.sketch \cup {in}
<1>1. e.count + n \in Nat /\ e.sketch \cup {in} \in SUBSET Inputs
  BY DEF Entries
<1>. QED
  BY <1>1 DEF Absorb, Entries

LEMMA TouchType ==
  ASSUME NEW e \in Entries, NEW ts \in Nat
  PROVE  /\ Touch(e, ts) \in Entries
         /\ Touch(e, ts).sketch = e.sketch
  BY DEF Touch, Entries

LEMMA NewEntryType ==
  ASSUME NEW res \in Resources, NEW labels \in Labels, NEW ts \in Nat
  PROVE  /\ NewEntry(res, labels, ts) \in Entries
         /\ NewEntry(res, labels, ts).sketch = {}
  BY DEF NewEntry, Entries

LEMMA FirstEntryType ==
  ASSUME NEW in \in Inputs, NEW c \in Configs
  PROVE  /\ FirstEntry(in, c) \in Entries
         /\ FirstEntry(in, c).sketch = IF in.obs.good THEN {in} ELSE {}
<1> DEFINE res == StrippedResource(c, in.obs.res)
           labels == StrippedLabels(c, in.obs.labels)
           e == NewEntry(res, labels, in.obs.ts)
<1>1. res \in Resources /\ labels \in Labels /\ in.obs.ts \in Nat
  BY InputFields, ConstantsAssumption DEF StrippedResource, StrippedLabels, Resources
<1>2. e \in Entries /\ e.sketch = {}
  BY <1>1, NewEntryType
<1>3. Absorb(e, in, 1) \in Entries /\ Absorb(e, in, 1).sketch = {in}
  BY <1>2, AbsorbType
<1>. QED
  BY <1>2, <1>3 DEF FirstEntry

LEMMA InitWindowType ==
  ASSUME TypeOK, NEW ref \in Nat, NEW c \in Configs, InitWindow(ref, c)
  PROVE  activeStart' \in Nat /\ activeEnd' \in Nat /\ initialized' \in BOOLEAN
<1>1. c.size \in Nat /\ Bucket(ref, c.size) \in Nat
  BY ConfigFields, BucketType
<1>2. activeStart' \in Nat /\ activeEnd' \in Nat
  BY <1>1 DEF InitWindow, OpenStart, OpenEnd, TypeOK
<1>. QED
  BY <1>2 DEF InitWindow

LEMMA AdvanceWindowType ==
  ASSUME TypeOK, NEW now \in Nat, NEW c \in Configs, AdvanceWindow(now, c)
  PROVE  activeStart' \in Nat /\ activeEnd' \in Nat /\ initialized' \in BOOLEAN
<1>1. c.size \in Nat /\ Bucket(now, c.size) \in Nat
  BY ConfigFields, BucketType
<1>2. activeStart' \in Nat /\ activeEnd' \in Nat
  BY <1>1 DEF AdvanceWindow, NextStart, TypeOK
<1>. QED
  BY <1>2 DEF AdvanceWindow, TypeOK

LEMMA EmptySeries ==
  ASSUME NEW S
  PROVE  DOMAIN <<>> = {} /\ <<>> \in [DOMAIN <<>> -> S]
  OBVIOUS

LEMMA TypeInit == Init => TypeOK
<1>. SUFFICES ASSUME Init PROVE TypeOK
  OBVIOUS
<1>1. series \in [DOMAIN series -> Entries] /\ IsFiniteSet(DOMAIN series)
  BY EmptySeries, FS_EmptySet DEF Init, WindowInit
<1>2. counters \in [Counters -> Nat]
  BY DEF Init
<1>3. call \in [Threads -> Calls]
  BY DEF Init, Calls
<1>4. InitialConfigs \subseteq Configs \cup {NoConfig}
  BY ConstantsAssumption
<1>5. closed \in BOOLEAN /\ initialized \in BOOLEAN
  BY Zenon DEF Init, WindowInit
<1>. QED
  BY <1>1, <1>2, <1>3, <1>4, <1>5 DEF Init, WindowInit, TypeOK

-----------------------------------------------------------------------------
(* What an observation does to the window, in one shape: it is absorbed by *)
(* at most one series while some others are given up.                      *)

SketchOf(k) == IF k \in DOMAIN series THEN series[k].sketch ELSE {}

\* The step gives up the series in `gone` and has series k absorb `some`.
Absorbs(k, some, gone) ==
  /\ DOMAIN series' = (DOMAIN series \ gone) \cup {k}
  /\ \A j \in DOMAIN series \ gone : j # k => series'[j] = series[j]
  /\ series' \in [DOMAIN series' -> Entries]
  /\ series'[k].sketch = SketchOf(k) \cup some
  /\ accepted' = accepted \cup some
  /\ discarded' = discarded \cup UNION {series[j].sketch : j \in gone}

WindowEffect(in) ==
  \/ UNCHANGED <<series, accepted, discarded>>
  \/ \E k : \E some \in SUBSET {in}, gone \in SUBSET (DOMAIN series \ {k}) : Absorbs(k, some, gone)

LEMMA EffectType ==
  ASSUME TypeOK, NEW in \in Inputs, WindowEffect(in)
  PROVE  /\ series' \in [DOMAIN series' -> Entries] /\ IsFiniteSet(DOMAIN series')
         /\ accepted' \subseteq Inputs /\ discarded' \subseteq Inputs
<1>1. CASE UNCHANGED <<series, accepted, discarded>>
  BY <1>1 DEF TypeOK
<1>2. ASSUME NEW k, NEW some \in SUBSET {in}, NEW gone \in SUBSET (DOMAIN series \ {k}),
             Absorbs(k, some, gone)
      PROVE  /\ series' \in [DOMAIN series' -> Entries] /\ IsFiniteSet(DOMAIN series')
             /\ accepted' \subseteq Inputs /\ discarded' \subseteq Inputs
  <2>1. series' \in [DOMAIN series' -> Entries] /\ IsFiniteSet(DOMAIN series')
    <3>1. IsFiniteSet(DOMAIN series \ gone)
      BY FS_Subset DEF TypeOK
    <3>2. IsFiniteSet((DOMAIN series \ gone) \cup {k})
      BY <3>1, FS_AddElement
    <3>. QED
      BY <1>2, <3>2 DEF Absorbs
  <2>2. accepted' \subseteq Inputs
    BY <1>2 DEF Absorbs, TypeOK
  <2>3. \A j \in gone : series[j].sketch \subseteq Inputs
    BY DEF TypeOK, Entries
  <2>4. discarded' \subseteq Inputs
    BY <1>2, <2>3 DEF Absorbs, TypeOK
  <2>. QED
    BY <2>1, <2>2, <2>4
<1>. QED
  BY <1>1, <1>2 DEF WindowEffect

LEMMA PutEffect ==
  ASSUME TypeOK, NEW k, NEW e \in Entries, NEW some, series' = Put(k, e),
         e.sketch = SketchOf(k) \cup some,
         accepted' = accepted \cup some, discarded' = discarded
  PROVE  Absorbs(k, some, {})
<1>1. /\ DOMAIN series' = DOMAIN series \cup {k}
      /\ series'[k] = e
      /\ \A j \in DOMAIN series : j # k => series'[j] = series[j]
      /\ series' \in [DOMAIN series' -> Entries]
  BY DEF Put, TypeOK
<1>. QED
  BY <1>1 DEF Absorbs

LEMMA KnownEffect ==
  ASSUME TypeOK, NEW in \in Inputs, NEW c \in Configs, ObserveKnown(in, c)
  PROVE  WindowEffect(in)
<1> DEFINE k == KeyOf(in, c)
           t == Touch(series[k], in.obs.ts)
           e == IF in.obs.good THEN Absorb(t, in, 1) ELSE t
           some == IF in.obs.good THEN {in} ELSE {}
<1>1. k \in DOMAIN series /\ series[k] \in Entries /\ in.obs.ts \in Nat
  BY InputFields DEF ObserveKnown, TypeOK
<1>2. t \in Entries /\ t.sketch = series[k].sketch
  BY <1>1, TouchType
<1>3. Absorb(t, in, 1) \in Entries /\ Absorb(t, in, 1).sketch = t.sketch \cup {in}
  BY <1>2, AbsorbType
<1>4. e \in Entries /\ e.sketch = SketchOf(k) \cup some
  BY <1>1, <1>2, <1>3 DEF SketchOf
<1>5. series' = Put(k, e) /\ accepted' = accepted \cup some /\ discarded' = discarded
  BY DEF ObserveKnown
<1>6. Absorbs(k, some, {})
  <2> HIDE DEF k, e, some
  <2>. QED BY <1>4, <1>5, PutEffect
<1>7. some \in SUBSET {in} /\ {} \in SUBSET (DOMAIN series \ {k})
  OBVIOUS
<1>. QED
  BY <1>6, <1>7 DEF WindowEffect

LEMMA NewEffect ==
  ASSUME TypeOK, NEW in \in Inputs, NEW c \in Configs, ObserveNew(in, c)
  PROVE  WindowEffect(in)
<1> DEFINE k == KeyOf(in, c)
           e == FirstEntry(in, c)
           some == IF in.obs.good THEN {in} ELSE {}
<1>1. e \in Entries /\ e.sketch = SketchOf(k) \cup some
  BY FirstEntryType DEF SketchOf, ObserveNew
<1>2. series' = Put(k, e) /\ accepted' = accepted \cup some /\ discarded' = discarded
  BY DEF ObserveNew
<1>3. Absorbs(k, some, {})
  <2> HIDE DEF k, e, some
  <2>. QED BY <1>1, <1>2, PutEffect
<1>4. some \in SUBSET {in} /\ {} \in SUBSET (DOMAIN series \ {k})
  OBVIOUS
<1>. QED
  BY <1>3, <1>4 DEF WindowEffect

LEMMA EvictingEffect ==
  ASSUME TypeOK, NEW in \in Inputs, NEW c \in Configs, ObserveEvicting(in, c)
  PROVE  WindowEffect(in)
<1> DEFINE k == KeyOf(in, c)
           e == FirstEntry(in, c)
           some == IF in.obs.good THEN {in} ELSE {}
<1>1. PICK old \in Oldest :
        /\ series' = [j \in (DOMAIN series \ {old}) \cup {k} |-> IF j = k THEN e ELSE series[j]]
        /\ discarded' = discarded \cup series[old].sketch
  BY DEF ObserveEvicting
<1>2. old \in DOMAIN series /\ k \notin DOMAIN series
  BY DEF Oldest, ObserveEvicting
<1>3. e \in Entries /\ e.sketch = SketchOf(k) \cup some
  BY <1>2, FirstEntryType DEF SketchOf
<1>4. accepted' = accepted \cup some
  BY DEF ObserveEvicting
<1>5. discarded' = discarded \cup UNION {series[j].sketch : j \in {old}}
  BY <1>1
<1>6. Absorbs(k, some, {old})
  <2> HIDE DEF k, e, some
  <2>1. series' \in [DOMAIN series' -> Entries]
    BY <1>1, <1>3 DEF TypeOK
  <2>. QED BY <1>1, <1>3, <1>4, <1>5, <2>1 DEF Absorbs
<1>7. some \in SUBSET {in} /\ {old} \in SUBSET (DOMAIN series \ {k})
  BY <1>2
<1>. QED
  BY <1>6, <1>7 DEF WindowEffect

LEMMA MergeEffect ==
  ASSUME TypeOK, NEW in \in Inputs, NEW c \in Configs, MergeInto(in, c)
  PROVE  WindowEffect(in)
<1> DEFINE k == KeyOf(in, c)
           b == IF k \in DOMAIN series THEN series[k]
                ELSE NewEntry(in.obs.res, in.obs.labels, in.obs.ts)
           e == IF in.obs.good THEN Absorb(b, in, in.obs.count) ELSE b
           some == IF in.obs.good THEN {in} ELSE {}
<1>1. b \in Entries /\ b.sketch = SketchOf(k)
  BY InputFields, NewEntryType DEF SketchOf, TypeOK
<1>2. /\ Absorb(b, in, in.obs.count) \in Entries
      /\ Absorb(b, in, in.obs.count).sketch = b.sketch \cup {in}
  BY <1>1, InputFields, AbsorbType
<1>3. e \in Entries /\ e.sketch = SketchOf(k) \cup some
  BY <1>1, <1>2
<1>4. series' = Put(k, e) /\ accepted' = accepted \cup some /\ discarded' = discarded
  BY DEF MergeInto
<1>5. Absorbs(k, some, {})
  <2> HIDE DEF k, b, e, some
  <2>. QED BY <1>3, <1>4, PutEffect
<1>6. some \in SUBSET {in} /\ {} \in SUBSET (DOMAIN series \ {k})
  OBVIOUS
<1>. QED
  BY <1>5, <1>6 DEF WindowEffect

LEMMA ObserveEffect ==
  ASSUME TypeOK, NEW in \in Inputs, NEW c \in Configs,
         \/ ObserveLate(in, c) \/ ObserveKnown(in, c) \/ ObserveNew(in, c)
         \/ ObserveEvicting(in, c) \/ ObserveOverflow(in, c)
         \/ MergeInto(in, c) \/ MergeOverflow(in, c)
  PROVE  /\ WindowEffect(in)
         /\ InitWindow(in.obs.ts, c)
         /\ activeSeries' \in Int
<1>1. WindowEffect(in)
  <2>1. CASE ObserveLate(in, c) \/ ObserveOverflow(in, c) \/ MergeOverflow(in, c)
    BY <2>1 DEF ObserveLate, ObserveOverflow, MergeOverflow, WindowEffect
  <2>. QED
    BY <2>1, KnownEffect, NewEffect, EvictingEffect, MergeEffect
<1>2. InitWindow(in.obs.ts, c)
  BY DEF ObserveLate, ObserveKnown, ObserveNew, ObserveEvicting, ObserveOverflow,
         MergeInto, MergeOverflow
<1>3. activeSeries' = activeSeries \/ activeSeries' = activeSeries + 1
  BY DEF ObserveLate, ObserveKnown, ObserveNew, ObserveEvicting, ObserveOverflow,
         MergeInto, MergeOverflow
<1>. QED
  BY <1>1, <1>2, <1>3 DEF TypeOK

-----------------------------------------------------------------------------
(* TypeOK and Configured, step by step.                                    *)

LEMMA GoEffect ==
  ASSUME TypeOK, NEW th \in Threads, NEW x, Go(th, x)
  PROVE  /\ call'[th] = x
         /\ \A t \in Threads \ {th} : call'[t] = call[t]
         /\ x \in Calls => call' \in [Threads -> Calls]
  BY DEF Go, TypeOK

LEMMA CallFields ==
  ASSUME TypeOK, NEW th \in Threads
  PROVE  /\ call[th].at \in {"observe", "count", "admit", "merge"} => call[th].input \in Inputs
         /\ call[th].at \in {"observe", "count", "merge", "rotate", "drain"} => call[th].cfg \in Configs
         /\ call[th].at \in {"rotate", "serialize", "publish"} => call[th].now \in Nat
         /\ call[th].at = "serialize" =>
              call[th].range \in Nat \X Nat /\ call[th].entries \in FiniteSubsets(Entries)
         /\ call[th].at = "publish" =>
              call[th].batch \subseteq Envelopes /\ call[th].rows \in Nat
<1>1. call[th] \in Calls
  BY DEF TypeOK
<1>. QED
  BY <1>1 DEF Calls, Idle

LEMMA BumpType ==
  ASSUME TypeOK, NEW names, Bump(names)
  PROVE  counters' \in [Counters -> Nat]
  BY DEF TypeOK, Bump

LEMMA BeginObserveType ==
  ASSUME TypeOK, NEW th \in Threads, BeginObserve(th)
  PROVE  TypeOK'
<1>1. PICK o \in Offered :
       Go(th, [at    |-> IF o.kind = "scalar" THEN "observe" ELSE "count",
               input |-> [id |-> offered + 1, obs |-> o],
               cfg   |-> cfg])
  BY DEF BeginObserve
<1>2. [id |-> offered + 1, obs |-> o] \in Inputs /\ cfg \in Configs
  BY ConstantsAssumption DEF Inputs, BeginObserve, TypeOK
<1>3. call' \in [Threads -> Calls]
  BY <1>1, <1>2, GoEffect DEF Calls
<1>. QED
  BY <1>3 DEF BeginObserve, TypeOK, windowVars

LEMMA ObserveType ==
  ASSUME TypeOK, NEW th \in Threads, Observe(th)
  PROVE  TypeOK'
<1> DEFINE in == call[th].input
           c == call[th].cfg
<1>1. in \in Inputs /\ c \in Configs
  BY CallFields DEF Observe
<1>2. call' \in [Threads -> Calls]
  BY GoEffect DEF Observe, Calls
<1>3. counters' \in [Counters -> Nat]
  BY BumpType DEF Observe
<1>4. /\ series' \in [DOMAIN series' -> Entries] /\ IsFiniteSet(DOMAIN series')
      /\ accepted' \subseteq Inputs /\ discarded' \subseteq Inputs
      /\ activeStart' \in Nat /\ activeEnd' \in Nat /\ initialized' \in BOOLEAN
      /\ activeSeries' \in Int
  <2>1. CASE UNCHANGED <<windowVars, accepted, discarded>>
    BY <2>1 DEF TypeOK, windowVars
  <2>2. CASE \/ ObserveLate(in, c) \/ ObserveKnown(in, c) \/ ObserveNew(in, c)
             \/ ObserveEvicting(in, c) \/ ObserveOverflow(in, c)
    BY <1>1, <2>2, ObserveEffect, EffectType, InitWindowType, InputFields
  <2>. QED
    BY <2>1, <2>2 DEF Observe
<1>. QED
  BY <1>2, <1>3, <1>4 DEF Observe, TypeOK

LEMMA RotateWindowType ==
  ASSUME TypeOK, NEW now \in Nat, NEW c \in Configs, RotateWindow(now, c)
  PROVE  /\ series' \in [DOMAIN series' -> Entries] /\ IsFiniteSet(DOMAIN series')
         /\ accepted' \subseteq Inputs /\ discarded' \subseteq Inputs
         /\ activeStart' \in Nat /\ activeEnd' \in Nat /\ initialized' \in BOOLEAN
         /\ activeSeries' \in Int
<1>1. series' \in [DOMAIN series' -> Entries] /\ IsFiniteSet(DOMAIN series')
  BY EmptySeries, FS_EmptySet DEF RotateWindow
<1>2. activeStart' \in Nat /\ activeEnd' \in Nat /\ initialized' \in BOOLEAN
  BY AdvanceWindowType DEF RotateWindow
<1>. QED
  BY <1>1, <1>2 DEF RotateWindow, TypeOK

LEMMA HandOverType ==
  ASSUME TypeOK, NEW th \in Threads, NEW now \in Nat, HandOver(th, now)
  PROVE  call' \in [Threads -> Calls]
<1>1. ActiveRange \in Nat \X Nat
  BY DEF ActiveRange, TypeOK
<1>2. series \in Surjection(DOMAIN series, ActiveEntries) /\ ActiveEntries \subseteq Entries
  BY DEF Surjection, ActiveEntries, TypeOK
<1>3. ActiveEntries \in FiniteSubsets(Entries)
  BY <1>2, FS_Surjection DEF FiniteSubsets, TypeOK
<1>. QED
  BY <1>1, <1>3, GoEffect DEF HandOver, Calls

LEMMA RotateType ==
  ASSUME TypeOK, NEW th \in Threads, Rotate(th) \/ Drain(th)
  PROVE  TypeOK'
<1>1. /\ call[th].cfg \in Configs
      /\ call[th].at = "rotate" => call[th].now \in Nat
      /\ activeEnd \in Nat
  BY CallFields DEF Rotate, Drain, TypeOK
<1>2. CASE \E now \in Nat : RotateWindow(now, call[th].cfg) /\ HandOver(th, now)
  BY <1>1, <1>2, RotateWindowType, HandOverType DEF Rotate, Drain, TypeOK
<1>3. CASE Go(th, Idle) /\ UNCHANGED <<windowVars, accepted, discarded>>
  <2>1. call' \in [Threads -> Calls]
    BY <1>3, GoEffect DEF Calls
  <2>. QED
    BY <1>3, <2>1 DEF Rotate, Drain, TypeOK, windowVars
<1>. QED
  BY <1>1, <1>2, <1>3 DEF Rotate, Drain


LEMMA SerializeType ==
  ASSUME TypeOK, Configured, NEW th \in Threads, Serialize(th)
  PROVE  TypeOK'
<1> DEFINE entries == call[th].entries
           range == call[th].range
<1>1. entries \in FiniteSubsets(Entries) /\ range \in Nat \X Nat /\ call[th].now \in Nat
  BY CallFields DEF Serialize
<1>2. PICK sent \in SUBSET entries :
        /\ Go(th, [at    |-> "publish", now |-> call[th].now,
                   batch |-> {Envelope(e, cfg, range) : e \in sent},
                   rows  |-> RowsPerSeries(cfg) * Cardinality(sent)])
        /\ discarded' = discarded \cup UNION {e.sketch : e \in entries \ sent}
  BY DEF Serialize
<1>3. cfg \in Configs
  BY DEF Serialize, TypeOK, Configured
<1>4. RowsPerSeries(cfg) * Cardinality(sent) \in Nat
  <2>1. Cardinality(sent) \in Nat
    BY <1>1, FS_Subset, FS_CardinalityType DEF FiniteSubsets
  <2>2. RowsPerSeries(cfg) \in Nat
    BY <1>3, ConfigFields DEF RowsPerSeries
  <2>. QED
    BY <2>1, <2>2
<1>5. \A e \in sent : Envelope(e, cfg, range) \in Envelopes
  <2>1. \A e \in sent : e \in Entries /\ SeriesAttrs(e.labels, cfg.by) \in Labels
    BY <1>1, <1>3, ConstantsAssumption DEF Entries, FiniteSubsets
  <2>. QED
    BY <1>1, <1>3, <2>1, ConfigFields DEF Envelope, Envelopes, Entries
<1>6. call' \in [Threads -> Calls]
  BY <1>1, <1>2, <1>4, <1>5, GoEffect DEF Calls
<1>7. discarded' \subseteq Inputs
  BY <1>1, <1>2 DEF TypeOK, Entries, FiniteSubsets
<1>. QED
  BY <1>6, <1>7 DEF Serialize, TypeOK, windowVars

LEMMA PublishType ==
  ASSUME TypeOK, NEW th \in Threads, Publish(th)
  PROVE  TypeOK'
<1>1. /\ call[th].batch \subseteq Envelopes
      /\ call[th].rows \in Nat /\ call[th].now \in Nat
  BY CallFields DEF Publish
<1>2. counters' \in [Counters -> Nat]
  BY <1>1 DEF Publish, TypeOK, Counters
<1>3. call' \in [Threads -> Calls]
  BY GoEffect DEF Publish, Calls
<1>. QED
  BY <1>1, <1>2, <1>3 DEF Publish, TypeOK, windowVars

\* The steps of a call that change nothing but the call, a counter or `offered`.
LEMMA EnvelopeCallType ==
  ASSUME TypeOK, NEW th \in Threads,
         \/ CountEnvelope(th) \/ BeginObserveEnvelope(th) \/ AdmitEnvelope(th)
  PROVE  TypeOK'
<1>1. CASE CountEnvelope(th)
  <2>1. call[th].input \in Inputs /\ counters' \in [Counters -> Nat]
    BY <1>1, CallFields, BumpType DEF CountEnvelope
  <2>2. call' \in [Threads -> Calls]
    BY <1>1, <2>1, GoEffect DEF CountEnvelope, Calls
  <2>. QED
    BY <1>1, <2>1, <2>2 DEF CountEnvelope, TypeOK, windowVars
<1>2. CASE BeginObserveEnvelope(th)
  <2>1. PICK o \in Offered : Go(th, [at |-> "admit", input |-> [id |-> offered + 1, obs |-> o]])
    BY <1>2 DEF BeginObserveEnvelope
  <2>2. [id |-> offered + 1, obs |-> o] \in Inputs
    BY <1>2, ConstantsAssumption DEF Inputs, BeginObserveEnvelope, TypeOK
  <2>3. call' \in [Threads -> Calls]
    BY <2>1, <2>2, GoEffect DEF Calls
  <2>. QED
    BY <1>2, <2>3 DEF BeginObserveEnvelope, TypeOK, windowVars
<1>3. CASE AdmitEnvelope(th)
  <2>1. call[th].input \in Inputs
    BY <1>3, CallFields DEF AdmitEnvelope
  <2>2. \/ Go(th, Idle)
        \/ cfg \in Configs /\ Go(th, [at |-> "merge", input |-> call[th].input, cfg |-> cfg])
    BY <1>3 DEF AdmitEnvelope, TypeOK
  <2>3. call' \in [Threads -> Calls]
    BY <2>1, <2>2, GoEffect DEF Calls
  <2>. QED
    BY <1>3, <2>3 DEF AdmitEnvelope, TypeOK, windowVars
<1>. QED
  BY <1>1, <1>2, <1>3

LEMMA MergeEnvelopeType ==
  ASSUME TypeOK, NEW th \in Threads, MergeEnvelope(th)
  PROVE  TypeOK'
<1> DEFINE in == call[th].input
           c == call[th].cfg
<1>1. in \in Inputs /\ c \in Configs
  BY CallFields DEF MergeEnvelope
<1>2. call' \in [Threads -> Calls]
  BY GoEffect DEF MergeEnvelope, Calls
<1>3. counters' \in [Counters -> Nat]
  BY BumpType DEF MergeEnvelope
<1>4. /\ series' \in [DOMAIN series' -> Entries] /\ IsFiniteSet(DOMAIN series')
      /\ accepted' \subseteq Inputs /\ discarded' \subseteq Inputs
      /\ activeStart' \in Nat /\ activeEnd' \in Nat /\ initialized' \in BOOLEAN
      /\ activeSeries' \in Int
  <2>1. MergeInto(in, c) \/ MergeOverflow(in, c)
    BY DEF MergeEnvelope
  <2>. QED
    BY <1>1, <2>1, ObserveEffect, EffectType, InitWindowType, InputFields
<1>. QED
  BY <1>2, <1>3, <1>4 DEF MergeEnvelope, TypeOK

LEMMA BeginTickType ==
  ASSUME TypeOK, NEW th \in Threads,
         BeginDrain(th) \/ \E now \in Times : BeginTick(th, now)
  PROVE  TypeOK'
<1>1. cfg \in Configs /\ Times \subseteq Nat
  BY ConstantsAssumption DEF BeginDrain, BeginTick, TypeOK
<1>2. \/ Go(th, [at |-> "drain", cfg |-> cfg])
      \/ \E now \in Nat : Go(th, [at |-> "rotate", now |-> now, cfg |-> cfg])
  BY <1>1 DEF BeginDrain, BeginTick
<1>3. [at |-> "drain", cfg |-> cfg] \in Calls
  BY <1>1 DEF Calls
<1>4. \A now \in Nat : [at |-> "rotate", now |-> now, cfg |-> cfg] \in Calls
  BY <1>1 DEF Calls
<1>5. call' \in [Threads -> Calls]
  BY <1>2, <1>3, <1>4, GoEffect
<1>. QED
  BY <1>5 DEF BeginDrain, BeginTick, TypeOK, windowVars

LEMMA UpdateConfigType ==
  ASSUME TypeOK, UpdateConfig
  PROVE  TypeOK' /\ cfg' \in Configs
<1>1. PICK cs \in ConfigSets : \E i \in DOMAIN cs : cfg' = cs[i]
  BY DEF UpdateConfig
<1>2. cs \in Seq(Configs)
  BY ConstantsAssumption
<1>3. cfg' \in Configs
  BY <1>1, <1>2
<1>. QED
  BY <1>3 DEF UpdateConfig, TypeOK, windowVars

\* A step of a call goes past the first check only with a configuration there.
LEMMA CallStepGoes ==
  ASSUME TypeOK, NEW th \in Threads, CallStep(th)
  PROVE  /\ \E x : /\ Go(th, x)
                  /\ \/ x.at \in {"idle", "admit"}
                     \/ cfg # NoConfig
                     \/ call[th].at \notin {"idle", "admit"}
         /\ cfg' = cfg
<1>1. CASE \/ Observe(th) \/ CountEnvelope(th) \/ BeginObserveEnvelope(th) \/ MergeEnvelope(th) \/ Publish(th)
  <2>1. CASE Observe(th) \/ MergeEnvelope(th) \/ Publish(th)
    <3>1. Go(th, Idle) /\ cfg' = cfg
      BY <2>1 DEF Observe, MergeEnvelope, Publish
    <3>. QED
      BY <3>1 DEF Idle
  <2>2. CASE CountEnvelope(th)
    BY <2>2 DEF CountEnvelope
  <2>3. CASE BeginObserveEnvelope(th)
    BY <2>3 DEF BeginObserveEnvelope
  <2>. QED
    BY <1>1, <2>1, <2>2, <2>3
<1>2. CASE \/ BeginObserve(th) \/ BeginDrain(th) \/ \E now \in Times : BeginTick(th, now)
  BY <1>2 DEF BeginObserve, BeginDrain, BeginTick
<1>3. CASE Rotate(th) \/ Drain(th) \/ Serialize(th)
  BY <1>3 DEF Rotate, Drain, Serialize, HandOver
<1>4. CASE AdmitEnvelope(th)
  <2>1. Go(th, Idle) \/ (cfg # NoConfig /\ \E x : Go(th, x))
    BY <1>4 DEF AdmitEnvelope
  <2>. QED
    BY <1>4, <2>1 DEF AdmitEnvelope, Idle
<1>. QED
  BY <1>1, <1>2, <1>3, <1>4 DEF CallStep

LEMMA ConfiguredStep ==
  ASSUME TypeOK, Configured, [Next]_vars
  PROVE  Configured'
<1>0. NoConfig \notin Configs /\ cfg \in Configs \cup {NoConfig}
  BY ConstantsAssumption DEF TypeOK
<1>1. ASSUME NEW th \in Threads, CallStep(th)
      PROVE  Configured'
  <2>1. PICK x : /\ Go(th, x)
                 /\ \/ x.at \in {"idle", "admit"}
                    \/ cfg # NoConfig
                    \/ call[th].at \notin {"idle", "admit"}
    BY <1>1, CallStepGoes
  <2>2. cfg' = cfg
    BY <1>1, CallStepGoes
  <2>3. call'[th] = x /\ \A t \in Threads \ {th} : call'[t] = call[t]
    BY <2>1, GoEffect
  <2>. QED
    BY <2>1, <2>2, <2>3 DEF Configured
<1>2. CASE UpdateConfig
  BY <1>0, <1>2, UpdateConfigType DEF UpdateConfig, Configured
<1>3. CASE Shutdown \/ UNCHANGED vars
  BY <1>3 DEF Shutdown, vars, Configured
<1>. QED
  BY <1>1, <1>2, <1>3 DEF Next

LEMMA TypeStep ==
  ASSUME TypeOK, Configured, [Next]_vars
  PROVE  TypeOK'
<1>1. ASSUME NEW th \in Threads, CallStep(th)
      PROVE  TypeOK'
  BY <1>1, BeginObserveType, ObserveType, EnvelopeCallType, MergeEnvelopeType, BeginTickType,
     RotateType, SerializeType, PublishType DEF CallStep
<1>2. CASE UpdateConfig
  BY <1>2, UpdateConfigType
<1>3. CASE Shutdown
  <2>1. closed' \in BOOLEAN
    BY <1>3, Zenon DEF Shutdown
  <2>. QED
    BY <1>3, <2>1 DEF Shutdown, TypeOK, windowVars
<1>4. CASE UNCHANGED vars
  BY <1>4 DEF vars, windowVars, TypeOK
<1>. QED
  BY <1>1, <1>2, <1>3, <1>4 DEF Next

LEMMA ConfiguredInit == Init => Configured
  BY DEF Init, Configured, Idle

\* Every variable stays in its type, and a call past its first check keeps
\* finding a configuration: the counters stay naturals, what a call holds stays
\* finite, and Serialize never meets the None of an unconfigured instance
\* on its second read of it (precompute.rs:400-403).
THEOREM TypeCorrect == Spec => [](TypeOK /\ Configured)
<1>1. Init => TypeOK /\ Configured
  BY TypeInit, ConfiguredInit
<1>2. TypeOK /\ Configured /\ [Next]_vars => (TypeOK /\ Configured)'
  BY TypeStep, ConfiguredStep
<1>. QED
  BY <1>1, <1>2, PTL DEF Spec

-----------------------------------------------------------------------------
(* Conservation and refinement.                                            *)

\* The calls hold what they held.
Keeps == \A t \in Threads : Held(t)' = Held(t)

\* The inputs a call carries towards the window.
Carried(th) ==
  IF call[th].at \in {"observe", "count", "admit", "merge"} THEN {call[th].input} ELSE {}

\* Every input is offered once: what a call carries has been absorbed by no
\* sketch and is carried by no other call.
Fresh ==
  /\ \A in \in accepted : in.id <= offered
  /\ \A th \in Threads : \A in \in Carried(th) :
       in.id <= offered /\ \A a \in accepted : a.id # in.id
  /\ \A t, u \in Threads : t # u => \A i \in Carried(t), j \in Carried(u) : i.id # j.id

LEMMA HeldFields ==
  ASSUME TypeOK, NEW th \in Threads, NEW e \in Held(th)
  PROVE  e.sketch \subseteq Inputs
  BY CallFields DEF Held, Entries, Envelopes, FiniteSubsets

LEMMA QuietSets ==
  ASSUME UNCHANGED <<series, emitted>>, Keeps
  PROVE  InWindow' = InWindow /\ InCalls' = InCalls /\ Delivered' = Delivered
         /\ \A t \in Threads : InCall(t)' = InCall(t)
<1>1. \A t \in Threads : InCall(t)' = InCall(t)
  BY DEF InCall, Keeps
<1>. QED
  BY <1>1 DEF InWindow, InCalls, Delivered

LEMMA QuietStep ==
  ASSUME NothingLost, NothingTwice, UNCHANGED <<series, accepted, discarded, emitted>>, Keeps
  PROVE  NothingLost' /\ NothingTwice'
<1>1. NothingLost'
  BY QuietSets DEF NothingLost
<1>2. NothingTwice'
  BY QuietSets DEF NothingTwice, Keeps
<1>. QED
  BY <1>1, <1>2

\* What a step that absorbs does to the sets of inputs.
LEMMA AbsorbSets ==
  ASSUME NothingTwice, NEW k, NEW some, NEW gone \in SUBSET (DOMAIN series \ {k}),
         Absorbs(k, some, gone)
  PROVE  LET lost == UNION {series[j].sketch : j \in gone}
         IN  /\ lost \subseteq InWindow
             /\ InWindow' = (InWindow \ lost) \cup some
             /\ accepted' = accepted \cup some
             /\ discarded' = discarded \cup lost
<1> DEFINE lost == UNION {series[j].sketch : j \in gone}
           rest == UNION {series[j].sketch : j \in DOMAIN series \ gone}
<1>1. InWindow = lost \cup rest /\ lost \cap rest = {}
  BY DEF InWindow, NothingTwice
<1>2. InWindow' = rest \cup some
  <2>1. /\ DOMAIN series' = (DOMAIN series \ gone) \cup {k}
        /\ \A j \in DOMAIN series \ gone : j # k => series'[j] = series[j]
        /\ series'[k].sketch = SketchOf(k) \cup some
    BY DEF Absorbs
  <2>2. CASE k \in DOMAIN series
    <3>1. series'[k].sketch = series[k].sketch \cup some /\ k \in DOMAIN series \ gone
      BY <2>1, <2>2 DEF SketchOf
    <3>. QED
      BY <2>1, <3>1 DEF InWindow
  <2>3. CASE k \notin DOMAIN series
    <3>1. series'[k].sketch = some
      BY <2>1, <2>3 DEF SketchOf
    <3>. QED
      BY <2>1, <2>3, <3>1 DEF InWindow
  <2>. QED
    BY <2>2, <2>3
<1>. QED
  BY <1>1, <1>2 DEF Absorbs

LEMMA AbsorbStep ==
  ASSUME TypeOK, NothingLost, NothingTwice, Keeps, UNCHANGED emitted,
         NEW in, in \notin accepted, WindowEffect(in)
  PROVE  NothingLost' /\ NothingTwice'
<1>1. CASE UNCHANGED <<series, accepted, discarded>>
  BY <1>1, QuietStep
<1>2. ASSUME NEW k, NEW some \in SUBSET {in}, NEW gone \in SUBSET (DOMAIN series \ {k}),
             Absorbs(k, some, gone)
      PROVE  NothingLost' /\ NothingTwice'
  <2> DEFINE lost == UNION {series[j].sketch : j \in gone}
  <2>1. /\ lost \subseteq InWindow
        /\ InWindow' = (InWindow \ lost) \cup some
        /\ accepted' = accepted \cup some
        /\ discarded' = discarded \cup lost
    BY <1>2, AbsorbSets
  <2>2. InCalls' = InCalls /\ Delivered' = Delivered /\ \A t \in Threads : InCall(t)' = InCall(t)
    BY DEF Keeps, InCall, InCalls, Delivered
  <2>3. some \cap (InWindow \cup InCalls \cup Delivered \cup discarded) = {}
    BY DEF NothingLost
  <2>4. NothingLost'
    <3> HIDE DEF lost
    <3>. QED BY <2>1, <2>2 DEF NothingLost
  <2>5. \A i, j \in DOMAIN series' : i # j => series'[i].sketch \cap series'[j].sketch = {}
    <3>1. \A j \in DOMAIN series : series[j].sketch \subseteq InWindow
      BY DEF InWindow
    <3>2. \A j \in DOMAIN series' \ {k} :
            j \in DOMAIN series /\ series'[j] = series[j]
      BY <1>2 DEF Absorbs
    <3>3. \A j \in DOMAIN series' \ {k} : series'[k].sketch \cap series'[j].sketch = {}
      BY <1>2, <2>3, <3>1, <3>2 DEF Absorbs, SketchOf, NothingTwice
    <3>. QED
      BY <3>2, <3>3 DEF NothingTwice
  <2>6. NothingTwice'
    <3> HIDE DEF lost
    <3>1. /\ InWindow' \cap (InCalls' \cup Delivered' \cup discarded') = {}
          /\ InCalls' \cap (Delivered' \cup discarded') = {}
          /\ Delivered' \cap discarded' = {}
      BY <2>1, <2>2, <2>3 DEF NothingTwice
    <3>. QED
      BY <2>2, <2>5, <3>1 DEF NothingTwice, Keeps
  <2>. QED
    BY <2>4, <2>6
<1>. QED
  BY <1>1, <1>2 DEF WindowEffect

-----------------------------------------------------------------------------
(* Rotation, serialisation, publication.                                   *)

\* Rotation moves what the window holds into the hands of the call.
LEMMA RotateSets ==
  ASSUME TypeOK, NothingTwice, NEW th \in Threads, NEW now, Held(th) = {},
         series' = <<>>, UNCHANGED emitted, HandOver(th, now)
  PROVE  /\ Held(th)' = {series[k] : k \in DOMAIN series}
         /\ \A t \in Threads \ {th} : Held(t)' = Held(t)
         /\ InWindow' = {} /\ InCall(th)' = InWindow
         /\ InCalls' = InCalls \cup InWindow /\ Delivered' = Delivered
<1>1. \A t \in Threads \ {th} : call'[t] = call[t]
  BY GoEffect DEF HandOver
<1>2. \A t \in Threads \ {th} : Held(t)' = Held(t)
  BY <1>1 DEF Held
<1>3. InWindow' = {} /\ Delivered' = Delivered
  BY EmptySeries DEF InWindow, Delivered
<1>4. Held(th)' = {series[k] : k \in DOMAIN series}
  <2>1. CASE series = <<>>
    <3>1. call'[th] = Idle /\ DOMAIN series = {}
      BY <2>1, GoEffect, EmptySeries DEF HandOver
    <3>. QED
      BY <3>1 DEF Held, Idle
  <2>2. CASE series # <<>>
    <3>1. call'[th] = [at |-> "serialize", now |-> now, range |-> ActiveRange, entries |-> ActiveEntries]
      BY <2>2, GoEffect DEF HandOver
    <3>. QED
      BY <3>1 DEF Held, ActiveEntries
  <2>. QED
    BY <2>1, <2>2
<1>5. InCall(th)' = InWindow
  BY <1>4 DEF InCall, InWindow
<1>6. InCall(th) = {}
  BY DEF InCall
<1>7. InCalls' = InCalls \cup InWindow
  BY <1>2, <1>5, <1>6 DEF InCalls, InCall
<1>. QED
  BY <1>2, <1>3, <1>4, <1>5, <1>7

LEMMA RotateStep ==
  ASSUME TypeOK, NothingLost, NothingTwice, NEW th \in Threads, Rotate(th) \/ Drain(th)
  PROVE  NothingLost' /\ NothingTwice'
<1>1. Held(th) = {}
  BY DEF Rotate, Drain, Held
<1>2. CASE Go(th, Idle) /\ UNCHANGED <<windowVars, accepted, discarded>>
  <2>1. Keeps
    <3>1. call'[th] = Idle /\ \A t \in Threads \ {th} : call'[t] = call[t]
      BY <1>2, GoEffect
    <3>2. Held(th)' = {}
      BY <3>1 DEF Held, Idle
    <3>3. \A t \in Threads \ {th} : Held(t)' = Held(t)
      BY <3>1 DEF Held
    <3>. QED
      BY <1>1, <3>2, <3>3 DEF Keeps
  <2>. QED
    BY <1>2, <2>1, QuietStep DEF Rotate, Drain, windowVars
<1>3. ASSUME NEW now, RotateWindow(now, call[th].cfg), HandOver(th, now)
      PROVE  NothingLost' /\ NothingTwice'
  <2>1. series' = <<>> /\ UNCHANGED <<accepted, discarded, emitted>>
    BY <1>3 DEF RotateWindow, Rotate, Drain
  <2>2. /\ Held(th)' = {series[k] : k \in DOMAIN series}
        /\ \A t \in Threads \ {th} : Held(t)' = Held(t)
        /\ InWindow' = {} /\ InCall(th)' = InWindow
        /\ InCalls' = InCalls \cup InWindow /\ Delivered' = Delivered
    BY <1>1, <1>3, <2>1, RotateSets
  <2>3. \A t \in Threads \ {th} : InCall(t)' = InCall(t) /\ InCall(t) \subseteq InCalls
    BY <2>2 DEF InCall, InCalls
  <2>4. NothingLost'
    BY <2>1, <2>2 DEF NothingLost
  <2>5. \A t \in Threads : \A e, f \in Held(t)' : e # f => e.sketch \cap f.sketch = {}
    BY <2>2 DEF NothingTwice
  <2>6. \A t, u \in Threads : t # u => InCall(t)' \cap InCall(u)' = {}
    BY <2>2, <2>3 DEF NothingTwice
  <2>7. \A i, j \in DOMAIN series' : i # j => series'[i].sketch \cap series'[j].sketch = {}
    BY <2>1, EmptySeries
  <2>. QED
    BY <2>1, <2>2, <2>4, <2>5, <2>6, <2>7 DEF NothingTwice
<1>. QED
  BY <1>2, <1>3 DEF Rotate, Drain

\* Serialisation turns the entries a call holds into envelopes of the same
\* sketches, and gives up the others.
LEMMA SerializeSets ==
  ASSUME TypeOK, NothingTwice, NEW th \in Threads, Serialize(th)
  PROVE  \E sent \in SUBSET Held(th) :
           LET lost == UNION {e.sketch : e \in Held(th) \ sent}
           IN  /\ Held(th)' = {Envelope(e, cfg, call[th].range) : e \in sent}
               /\ \A t \in Threads \ {th} : Held(t)' = Held(t)
               /\ InCall(th) = InCall(th)' \cup lost
               /\ InCall(th)' \cap lost = {}
               /\ discarded' = discarded \cup lost
<1>1. Held(th) = call[th].entries
  BY DEF Serialize, Held
<1>2. PICK sent \in SUBSET Held(th) :
        /\ Go(th, [at    |-> "publish", now |-> call[th].now,
                   batch |-> {Envelope(e, cfg, call[th].range) : e \in sent},
                   rows  |-> RowsPerSeries(cfg) * Cardinality(sent)])
        /\ discarded' = discarded \cup UNION {e.sketch : e \in Held(th) \ sent}
  BY <1>1 DEF Serialize
<1> DEFINE lost == UNION {e.sketch : e \in Held(th) \ sent}
<1>3. /\ Held(th)' = {Envelope(e, cfg, call[th].range) : e \in sent}
      /\ \A t \in Threads \ {th} : Held(t)' = Held(t)
  BY <1>2, GoEffect DEF Held
<1>4. InCall(th)' = UNION {e.sketch : e \in sent}
  <2>1. \A e : Envelope(e, cfg, call[th].range).sketch = e.sketch
    BY DEF Envelope
  <2>. QED
    BY <1>3, <2>1 DEF InCall
<1>5. InCall(th) = InCall(th)' \cup lost /\ InCall(th)' \cap lost = {}
  BY <1>4 DEF InCall, NothingTwice
<1>. QED
  BY <1>2, <1>3, <1>5

LEMMA SerializeStep ==
  ASSUME TypeOK, NothingLost, NothingTwice, NEW th \in Threads, Serialize(th)
  PROVE  NothingLost' /\ NothingTwice'
<1>1. PICK sent \in SUBSET Held(th) :
           LET lost == UNION {e.sketch : e \in Held(th) \ sent}
           IN  /\ Held(th)' = {Envelope(e, cfg, call[th].range) : e \in sent}
               /\ \A t \in Threads \ {th} : Held(t)' = Held(t)
               /\ InCall(th) = InCall(th)' \cup lost
               /\ InCall(th)' \cap lost = {}
               /\ discarded' = discarded \cup lost
  BY SerializeSets
<1> DEFINE lost == UNION {e.sketch : e \in Held(th) \ sent}
<1>2. \A t \in Threads \ {th} : InCall(t)' = InCall(t)
  BY <1>1 DEF InCall
<1>3. /\ InWindow' = InWindow /\ Delivered' = Delivered
      /\ UNCHANGED <<series, emitted, accepted>>
  BY DEF Serialize, windowVars, InWindow, Delivered
<1>4. InCall(th) = InCall(th)' \cup lost /\ InCall(th)' \cap lost = {} /\ discarded' = discarded \cup lost
  BY <1>1
<1>. HIDE DEF lost
<1>5. InCalls = InCalls' \cup lost /\ InCalls' \cap lost = {}
  BY <1>2, <1>4 DEF InCalls, NothingTwice
<1>6. NothingLost'
  BY <1>3, <1>4, <1>5 DEF NothingLost
<1>7. \A e, f \in Held(th)' : e # f => e.sketch \cap f.sketch = {}
  BY <1>1 DEF NothingTwice, Envelope
<1>8. \A t \in Threads : \A e, f \in Held(t)' : e # f => e.sketch \cap f.sketch = {}
  BY <1>1, <1>7 DEF NothingTwice
<1>9. \A t, u \in Threads : t # u => InCall(t)' \cap InCall(u)' = {}
  BY <1>2, <1>4 DEF NothingTwice
<1>10. /\ InWindow' \cap (InCalls' \cup Delivered' \cup discarded') = {}
       /\ InCalls' \cap (Delivered' \cup discarded') = {}
       /\ Delivered' \cap discarded' = {}
  BY <1>3, <1>4, <1>5 DEF NothingTwice
<1>11. NothingTwice'
  BY <1>3, <1>8, <1>9, <1>10 DEF NothingTwice
<1>. QED
  BY <1>6, <1>11

\* Publication delivers what the call holds.
LEMMA PublishSets ==
  ASSUME TypeOK, NothingTwice, NEW th \in Threads, Publish(th)
  PROVE  /\ Held(th)' = {} /\ InCall(th)' = {}
         /\ emitted' = emitted \cup Held(th)
         /\ \A t \in Threads \ {th} : Held(t)' = Held(t) /\ InCall(t)' = InCall(t)
         /\ InWindow' = InWindow
         /\ InCalls' = InCalls \ InCall(th)
         /\ Delivered' = Delivered \cup InCall(th)
<1>1. /\ call'[th] = Idle
      /\ \A t \in Threads \ {th} : call'[t] = call[t]
      /\ Held(th) = call[th].batch
  BY GoEffect DEF Publish, Held
<1>2. /\ Held(th)' = {}
      /\ \A t \in Threads \ {th} : Held(t)' = Held(t)
      /\ emitted' = emitted \cup Held(th)
  BY <1>1 DEF Held, Idle, Publish
<1>3. /\ InCall(th)' = {}
      /\ \A t \in Threads \ {th} : InCall(t)' = InCall(t)
  BY <1>2 DEF InCall
<1>4. InCalls' = InCalls \ InCall(th)
  BY <1>3 DEF InCalls, NothingTwice
<1>5. Delivered' = Delivered \cup InCall(th)
  BY <1>2 DEF Delivered, InCall
<1>. QED
  BY <1>2, <1>3, <1>4, <1>5 DEF Publish, windowVars, InWindow

LEMMA PublishStep ==
  ASSUME TypeOK, NothingLost, NothingTwice, NEW th \in Threads, Publish(th)
  PROVE  NothingLost' /\ NothingTwice'
<1>1. /\ Held(th)' = {} /\ InCall(th)' = {}
      /\ emitted' = emitted \cup Held(th)
      /\ \A t \in Threads \ {th} : Held(t)' = Held(t) /\ InCall(t)' = InCall(t)
      /\ InWindow' = InWindow
      /\ InCalls' = InCalls \ InCall(th)
      /\ Delivered' = Delivered \cup InCall(th)
  BY PublishSets
<1>2. UNCHANGED <<series, accepted, discarded>>
  BY DEF Publish, windowVars
<1>3. InCall(th) \subseteq InCalls
  BY DEF InCalls
<1>4. NothingLost'
  BY <1>1, <1>2, <1>3 DEF NothingLost
<1>5. \A e, f \in emitted' : e # f => e.sketch \cap f.sketch = {}
  <2>1. \A e \in Held(th) : e.sketch \subseteq InCall(th)
    BY DEF InCall
  <2>2. \A e \in emitted : e.sketch \subseteq Delivered
    BY DEF Delivered
  <2>3. InCall(th) \cap Delivered = {}
    BY <1>3 DEF NothingTwice
  <2>. QED
    BY <1>1, <2>1, <2>2, <2>3 DEF NothingTwice
<1>6. \A t, u \in Threads : t # u => InCall(t)' \cap InCall(u)' = {}
  BY <1>1 DEF NothingTwice
<1>7. \A t \in Threads : \A e, f \in Held(t)' : e # f => e.sketch \cap f.sketch = {}
  BY <1>1 DEF NothingTwice
<1>8. /\ InWindow' \cap (InCalls' \cup Delivered' \cup discarded') = {}
      /\ InCalls' \cap (Delivered' \cup discarded') = {}
      /\ Delivered' \cap discarded' = {}
  BY <1>1, <1>2, <1>3 DEF NothingTwice
<1>9. NothingTwice'
  BY <1>2, <1>5, <1>6, <1>7, <1>8 DEF NothingTwice
<1>. QED
  BY <1>4, <1>9

-----------------------------------------------------------------------------
(* Every step.                                                             *)

\* A step that offers nothing new: calls carry what they carried, and what a
\* sketch absorbs was carried by a call that lets go of it.
LEMMA FreshShrinks ==
  ASSUME TypeOK, Fresh, offered' = offered, NEW th \in Threads,
         \A t \in Threads : Carried(t)' \subseteq Carried(t),
         \/ accepted' = accepted
         \/ Carried(th)' = {} /\ accepted' \subseteq accepted \cup Carried(th)
  PROVE  Fresh'
<1>1. \A in \in accepted' : in.id <= offered'
  BY DEF Fresh
<1>2. \A t \in Threads : \A in \in Carried(t)' : in.id <= offered'
  BY DEF Fresh
<1>3. ASSUME NEW t \in Threads, NEW in \in Carried(t)', NEW a \in accepted'
      PROVE  a.id # in.id
  <2>1. in \in Carried(t)
    OBVIOUS
  <2>2. CASE a \in accepted
    BY <2>1, <2>2 DEF Fresh
  <2>3. CASE a \in Carried(th) /\ t # th
    BY <2>1, <2>3 DEF Fresh
  <2>. QED
    BY <1>3, <2>2, <2>3
<1>4. \A t, u \in Threads : t # u => \A i \in Carried(t)', j \in Carried(u)' : i.id # j.id
  BY DEF Fresh
<1>. QED
  BY <1>1, <1>2, <1>3, <1>4 DEF Fresh

LEMMA FreshOffer ==
  ASSUME TypeOK, Fresh, NEW th \in Threads, NEW o, NEW x,
         Go(th, x), x.input = [id |-> offered + 1, obs |-> o],
         offered' = offered + 1, accepted' = accepted
  PROVE  Fresh'
<1>1. /\ call'[th] = x
      /\ \A t \in Threads \ {th} : call'[t] = call[t]
  BY GoEffect
<1>2. \A in \in Carried(th)' : in.id = offered + 1
  BY <1>1 DEF Carried
<1>3. \A t \in Threads \ {th} : Carried(t)' = Carried(t)
  BY <1>1 DEF Carried
<1>4. offered \in Nat /\ (\A in \in accepted : in.id \in Nat)
      /\ \A t \in Threads : \A in \in Carried(t) : in.id \in Nat
  BY CallFields, InputFields DEF TypeOK, Carried
<1>5. \A in \in accepted' : in.id <= offered'
  BY <1>4 DEF Fresh
<1>6. \A t \in Threads : \A in \in Carried(t)' : in.id <= offered' /\ \A a \in accepted' : a.id # in.id
  BY <1>2, <1>3, <1>4 DEF Fresh
<1>7. \A t, u \in Threads : t # u => \A i \in Carried(t)', j \in Carried(u)' : i.id # j.id
  BY <1>2, <1>3, <1>4 DEF Fresh
<1>. QED
  BY <1>5, <1>6, <1>7 DEF Fresh

\* What a call that moves to x holds and carries.
LEMMA GoCarries ==
  ASSUME TypeOK, NEW th \in Threads, NEW x, Go(th, x), x.at \notin {"serialize", "publish"}
  PROVE  /\ Held(th)' = {}
         /\ \A t \in Threads \ {th} : Held(t)' = Held(t) /\ Carried(t)' = Carried(t)
         /\ x.at \notin {"observe", "count", "admit", "merge"} => Carried(th)' = {}
         /\ x.at \in {"observe", "count", "admit", "merge"} => Carried(th)' = {x.input}
<1>1. call'[th] = x /\ \A t \in Threads \ {th} : call'[t] = call[t]
  BY GoEffect
<1>. QED
  BY <1>1 DEF Held, Carried

LEMMA IdleHolds ==
  ASSUME NEW th \in Threads, call[th] = Idle
  PROVE  Held(th) = {} /\ Carried(th) = {} /\ InCall(th) = {}
<1>1. call[th].at = "idle"
  BY DEF Idle
<1>2. Held(th) = {} /\ Carried(th) = {}
  BY <1>1 DEF Held, Carried
<1>. QED
  BY <1>2 DEF InCall

\* The inductive invariant.
IInv == TypeOK /\ Configured /\ Fresh /\ NothingLost /\ NothingTwice

\* The steps that take an input over the window's threshold, or do not.
LEMMA AbsorbingEffect ==
  ASSUME IInv, NEW th \in Threads, Observe(th) \/ MergeEnvelope(th)
  PROVE  LET in == call[th].input
         IN  /\ in \in Inputs /\ in \notin accepted /\ Carried(th) = {in}
             /\ WindowEffect(in)
             /\ Keeps /\ Carried(th)' = {}
             /\ \A t \in Threads \ {th} : Carried(t)' = Carried(t)
             /\ offered' = offered /\ emitted' = emitted
<1> DEFINE in == call[th].input
           c == call[th].cfg
<1>1. in \in Inputs /\ c \in Configs /\ Carried(th) = {in} /\ Held(th) = {}
  BY CallFields DEF IInv, Observe, MergeEnvelope, Carried, Held
<1>2. Go(th, Idle) /\ offered' = offered /\ emitted' = emitted
  BY DEF Observe, MergeEnvelope
<1>3. Keeps /\ Carried(th)' = {} /\ \A t \in Threads \ {th} : Carried(t)' = Carried(t)
  BY <1>1, <1>2, GoCarries DEF Idle, Keeps, IInv
<1>4. WindowEffect(in)
  <2>1. CASE UNCHANGED <<windowVars, accepted, discarded>>
    BY <2>1 DEF windowVars, WindowEffect
  <2>2. CASE \/ ObserveLate(in, c) \/ ObserveKnown(in, c) \/ ObserveNew(in, c)
             \/ ObserveEvicting(in, c) \/ ObserveOverflow(in, c)
             \/ MergeInto(in, c) \/ MergeOverflow(in, c)
    BY <1>1, <2>2, ObserveEffect DEF IInv
  <2>. QED
    BY <2>1, <2>2 DEF Observe, MergeEnvelope
<1>5. in \notin accepted
  BY <1>1 DEF IInv, Fresh
<1>. QED
  BY <1>1, <1>2, <1>3, <1>4, <1>5

LEMMA AbsorbingStep ==
  ASSUME IInv, NEW th \in Threads, Observe(th) \/ MergeEnvelope(th)
  PROVE  Fresh' /\ NothingLost' /\ NothingTwice'
<1> DEFINE in == call[th].input
<1>1. /\ in \in Inputs /\ in \notin accepted /\ Carried(th) = {in}
      /\ WindowEffect(in)
      /\ Keeps /\ Carried(th)' = {}
      /\ \A t \in Threads \ {th} : Carried(t)' = Carried(t)
      /\ offered' = offered /\ emitted' = emitted
  BY AbsorbingEffect
<1>2. NothingLost' /\ NothingTwice'
  BY <1>1, AbsorbStep DEF IInv
<1>3. accepted' \subseteq accepted \cup Carried(th)
  BY <1>1 DEF WindowEffect, Absorbs
<1>4. Fresh'
  BY <1>1, <1>3, FreshShrinks DEF IInv
<1>. QED
  BY <1>2, <1>4

\* The steps that move a call on and touch neither window nor output.
LEMMA MovingStep ==
  ASSUME IInv, NEW th \in Threads,
         \/ BeginObserve(th) \/ CountEnvelope(th) \/ BeginObserveEnvelope(th) \/ AdmitEnvelope(th)
         \/ BeginDrain(th) \/ \E now \in Times : BeginTick(th, now)
  PROVE  /\ UNCHANGED <<series, accepted, discarded, emitted>> /\ Keeps
         /\ Fresh' /\ NothingLost' /\ NothingTwice'
<1>1. UNCHANGED <<series, accepted, discarded, emitted>> /\ Held(th) = {}
  <2>1. UNCHANGED <<series, accepted, discarded, emitted>>
    BY DEF BeginObserve, CountEnvelope, BeginObserveEnvelope, AdmitEnvelope, BeginTick, BeginDrain,
           windowVars
  <2>2. call[th] = Idle \/ call[th].at \in {"count", "admit"}
    BY DEF BeginObserve, CountEnvelope, BeginObserveEnvelope, AdmitEnvelope, BeginTick, BeginDrain
  <2>3. Held(th) = {}
    BY <2>2, IdleHolds DEF Held
  <2>. QED
    BY <2>1, <2>3
<1>2. CASE BeginObserve(th) \/ BeginObserveEnvelope(th)
  <2>1. PICK o, x : /\ Go(th, x)
                    /\ x.input = [id |-> offered + 1, obs |-> o]
                    /\ x.at \in {"observe", "count", "admit"}
    <3>1. CASE BeginObserve(th)
      BY <3>1 DEF BeginObserve
    <3>2. CASE BeginObserveEnvelope(th)
      <4>1. PICK o \in Offered : Go(th, [at |-> "admit", input |-> [id |-> offered + 1, obs |-> o]])
        BY <3>2 DEF BeginObserveEnvelope
      <4> DEFINE x == [at |-> "admit", input |-> [id |-> offered + 1, obs |-> o]]
      <4>2. x.at = "admit" /\ x.input = [id |-> offered + 1, obs |-> o]
        OBVIOUS
      <4>. HIDE DEF x
      <4>3. Go(th, x)
        BY <4>1 DEF x
      <4>. QED
        BY <4>2, <4>3
    <3>. QED
      BY <1>2, <3>1, <3>2
  <2>2. offered' = offered + 1
    BY <1>2 DEF BeginObserve, BeginObserveEnvelope
  <2>3. Fresh'
    BY <1>1, <2>1, <2>2, FreshOffer DEF IInv
  <2>4. Keeps
    BY <1>1, <2>1, GoCarries DEF Keeps, IInv
  <2>. QED
    BY <1>1, <2>3, <2>4, QuietStep DEF IInv
<1>3. CASE CountEnvelope(th) \/ AdmitEnvelope(th)
  <2>1. offered' = offered /\ Carried(th) = {call[th].input}
    BY <1>3 DEF CountEnvelope, AdmitEnvelope, Carried
  <2>2. \/ Go(th, Idle)
        \/ Go(th, [at |-> "admit", input |-> call[th].input])
        \/ Go(th, [at |-> "merge", input |-> call[th].input, cfg |-> cfg])
    BY <1>3 DEF CountEnvelope, AdmitEnvelope
  <2>3. Keeps /\ \A t \in Threads : Carried(t)' \subseteq Carried(t)
    <3>1. CASE Go(th, Idle)
      BY <1>1, <3>1, GoCarries DEF Idle, Keeps, IInv
    <3>2. CASE Go(th, [at |-> "admit", input |-> call[th].input])
      <4> DEFINE x == [at |-> "admit", input |-> call[th].input]
      <4>1. x.at = "admit" /\ x.input = call[th].input
        OBVIOUS
      <4>. HIDE DEF x
      <4>2. TypeOK /\ Go(th, x)
        BY <3>2 DEF IInv, x
      <4>. QED
        BY <1>1, <2>1, <4>1, <4>2, GoCarries DEF Keeps
    <3>3. CASE Go(th, [at |-> "merge", input |-> call[th].input, cfg |-> cfg])
      BY <1>1, <2>1, <3>3, GoCarries DEF Keeps, IInv
    <3>. QED
      BY <2>2, <3>1, <3>2, <3>3
  <2>4. Fresh'
    BY <1>1, <2>1, <2>3, FreshShrinks DEF IInv
  <2>. QED
    BY <1>1, <2>3, <2>4, QuietStep DEF IInv
<1>4. CASE BeginDrain(th) \/ \E now \in Times : BeginTick(th, now)
  <2>1. PICK x : Go(th, x) /\ x.at \in {"rotate", "drain"}
    <3>1. CASE BeginDrain(th)
      BY <3>1 DEF BeginDrain
    <3>2. CASE \E now \in Times : BeginTick(th, now)
      BY <3>2 DEF BeginTick
    <3>. QED
      BY <1>4, <3>1, <3>2
  <2>2. offered' = offered
    BY <1>4 DEF BeginDrain, BeginTick
  <2>3. Keeps /\ \A t \in Threads : Carried(t)' \subseteq Carried(t)
    BY <1>1, <2>1, GoCarries DEF Keeps, IInv
  <2>4. Fresh'
    BY <1>1, <2>2, <2>3, FreshShrinks DEF IInv
  <2>. QED
    BY <1>1, <2>3, <2>4, QuietStep DEF IInv
<1>. QED
  BY <1>2, <1>3, <1>4

\* The steps of a tick or a drain carry nothing.
LEMMA ClosingFresh ==
  ASSUME IInv, NEW th \in Threads, Rotate(th) \/ Drain(th) \/ Serialize(th) \/ Publish(th)
  PROVE  Fresh'
<1>1. PICK x : Go(th, x) /\ x.at \in {"idle", "serialize", "publish"}
  <2>1. CASE Rotate(th) \/ Drain(th)
    <3>1. Go(th, Idle) \/ \E x : Go(th, x) /\ x.at = "serialize"
      BY <2>1 DEF Rotate, Drain, HandOver
    <3>. QED
      BY <3>1 DEF Idle
  <2>2. CASE Serialize(th)
    BY <2>2 DEF Serialize
  <2>3. CASE Publish(th)
    BY <2>3 DEF Publish, Idle
  <2>. QED
    BY <2>1, <2>2, <2>3
<1>2. call'[th] = x /\ \A t \in Threads \ {th} : call'[t] = call[t]
  BY <1>1, GoEffect DEF IInv
<1>3. \A t \in Threads : Carried(t)' \subseteq Carried(t)
  BY <1>1, <1>2 DEF Carried
<1>4. offered' = offered /\ accepted' = accepted
  BY DEF Rotate, Drain, Serialize, Publish, RotateWindow
<1>. QED
  BY <1>3, <1>4, FreshShrinks DEF IInv

LEMMA SafetyStep ==
  ASSUME IInv, [Next]_vars
  PROVE  IInv'
<1>1. TypeOK' /\ Configured'
  BY TypeStep, ConfiguredStep DEF IInv
<1>2. ASSUME NEW th \in Threads, CallStep(th)
      PROVE  Fresh' /\ NothingLost' /\ NothingTwice'
  BY <1>2, AbsorbingStep, MovingStep, ClosingFresh, RotateStep, SerializeStep, PublishStep
     DEF CallStep, IInv
<1>3. ASSUME UpdateConfig \/ Shutdown \/ UNCHANGED vars
      PROVE  Fresh' /\ NothingLost' /\ NothingTwice'
  <2>1. UNCHANGED <<series, accepted, discarded, call, offered, emitted>>
    BY <1>3 DEF UpdateConfig, Shutdown, vars, windowVars
  <2>2. Keeps /\ \A t \in Threads : Carried(t)' = Carried(t)
    BY <2>1 DEF Keeps, Held, Carried
  <2>3. Fresh'
    BY <2>1, <2>2 DEF IInv, Fresh
  <2>. QED
    BY <2>1, <2>2, <2>3, QuietStep DEF IInv
<1>4. Fresh' /\ NothingLost' /\ NothingTwice'
  BY <1>2, <1>3 DEF Next
<1>. QED
  BY <1>1, <1>4 DEF IInv

LEMMA SafetyInit == Init => IInv
<1> SUFFICES ASSUME Init PROVE IInv
  OBVIOUS
<1>1. /\ DOMAIN series = {} /\ accepted = {} /\ discarded = {} /\ emitted = {}
      /\ \A th \in Threads : Held(th) = {} /\ Carried(th) = {}
  <2>1. \A th \in Threads : call[th] = Idle
    BY DEF Init
  <2>. QED
    BY <2>1, IdleHolds, EmptySeries DEF Init, WindowInit
<1>2. InWindow = {} /\ InCalls = {} /\ Delivered = {} /\ \A th \in Threads : InCall(th) = {}
  BY <1>1 DEF InWindow, InCalls, Delivered, InCall
<1>3. NothingLost
  BY <1>1, <1>2 DEF NothingLost
<1>4. NothingTwice
  BY <1>1, <1>2 DEF NothingTwice
<1>5. Fresh
  BY <1>1 DEF Fresh
<1>. QED
  BY <1>3, <1>4, <1>5, TypeInit, ConfiguredInit DEF IInv

\* The invariant holds of every state.
LEMMA Invariant == Spec => []IInv
  BY SafetyInit, SafetyStep, PTL DEF Spec

\* An input that a sketch absorbed is in one place at most: the window, one call's
\* hands, one envelope, or what was given up.  This is what the state lock and
\* mem::take in rotate_locked are for (window.rs:305-322).
THEOREM Safety == Spec => []NothingTwice
<1>1. IInv => NothingTwice
  BY DEF IInv
<1>. QED
  BY <1>1, Invariant, PTL

\* What is absorbed is never forgotten: neither rotation, which takes the series
\* map away from under the lock, nor serialisation, which runs without it, loses a
\* sketch that it does not record as given up (window.rs:305, precompute.rs:422).
THEOREM NoneForgotten == Spec => []NothingLost
<1>1. IInv => NothingLost
  BY DEF IInv
<1>. QED
  BY <1>1, Invariant, PTL

-----------------------------------------------------------------------------
(* Precompute implements Aggregator.                                       *)

AbsVars == <<InWindow \cup InCalls, Delivered, discarded>>

LEMMA AbsorbingImplements ==
  ASSUME IInv, NEW in \in Inputs, in \notin accepted, Keeps, UNCHANGED emitted, WindowEffect(in)
  PROVE  Abstract!Next \/ UNCHANGED AbsVars
<1>1. InCalls' = InCalls /\ Delivered' = Delivered
  BY DEF Keeps, InCall, InCalls, Delivered
<1>2. CASE UNCHANGED <<series, accepted, discarded>>
  BY <1>1, <1>2 DEF AbsVars, InWindow
<1>3. ASSUME NEW k, NEW some \in SUBSET {in}, NEW gone \in SUBSET (DOMAIN series \ {k}),
             Absorbs(k, some, gone)
      PROVE  Abstract!Next
  <2> DEFINE lost == UNION {series[j].sketch : j \in gone}
             pending == InWindow \cup InCalls
  <2>1. /\ lost \subseteq InWindow
        /\ InWindow' = (InWindow \ lost) \cup some
        /\ discarded' = discarded \cup lost
    BY <1>3, AbsorbSets DEF IInv
  <2>. HIDE DEF lost
  <2>2. pending' = (pending \ lost) \cup some /\ lost \in SUBSET pending
    BY <1>1, <2>1 DEF IInv, NothingTwice
  <2>3. in \notin pending \cup Delivered \cup discarded
    BY DEF IInv, NothingLost
  <2>4. CASE some = {in}
    BY <1>1, <2>1, <2>2, <2>3, <2>4 DEF Abstract!Next, Abstract!Accept
  <2>5. CASE some = {}
    BY <1>1, <2>1, <2>2, <2>5 DEF Abstract!Next, Abstract!Drop
  <2>. QED
    BY <2>4, <2>5
<1>. QED
  BY <1>2, <1>3 DEF WindowEffect

LEMMA StepImplements ==
  ASSUME IInv, [Next]_vars
  PROVE  Abstract!Next \/ UNCHANGED AbsVars
<1>1. ASSUME NEW th \in Threads, Observe(th) \/ MergeEnvelope(th)
      PROVE  Abstract!Next \/ UNCHANGED AbsVars
  <2>1. /\ call[th].input \in Inputs /\ call[th].input \notin accepted
        /\ WindowEffect(call[th].input) /\ Keeps /\ emitted' = emitted
    BY <1>1, AbsorbingEffect
  <2>. QED
    BY <2>1, AbsorbingImplements
<1>2. ASSUME NEW th \in Threads,
         \/ BeginObserve(th) \/ CountEnvelope(th) \/ BeginObserveEnvelope(th) \/ AdmitEnvelope(th)
         \/ BeginDrain(th) \/ \E now \in Times : BeginTick(th, now)
      PROVE  UNCHANGED AbsVars
  BY <1>2, MovingStep, QuietSets DEF AbsVars
<1>3. ASSUME NEW th \in Threads, Rotate(th) \/ Drain(th)
      PROVE  UNCHANGED AbsVars
  <2>1. Held(th) = {} /\ UNCHANGED <<discarded, emitted>>
    BY <1>3 DEF Rotate, Drain, Held, RotateWindow
  <2>2. CASE Go(th, Idle) /\ UNCHANGED <<windowVars, accepted, discarded>>
    <3>1. Keeps
      BY <2>1, <2>2, GoCarries DEF Idle, Keeps, IInv
    <3>. QED
      BY <2>1, <2>2, <3>1, QuietSets DEF AbsVars, windowVars
  <2>3. ASSUME NEW now, RotateWindow(now, call[th].cfg), HandOver(th, now)
        PROVE  UNCHANGED AbsVars
    BY <2>1, <2>3, RotateSets DEF AbsVars, IInv, RotateWindow
  <2>. QED
    BY <1>3, <2>2, <2>3 DEF Rotate, Drain
<1>4. ASSUME NEW th \in Threads, Serialize(th)
      PROVE  Abstract!Next
  <2>1. PICK lost : /\ InCall(th) = InCall(th)' \cup lost
                    /\ InCall(th)' \cap lost = {}
                    /\ discarded' = discarded \cup lost
                    /\ \A t \in Threads \ {th} : Held(t)' = Held(t)
    BY <1>4, SerializeSets DEF IInv
  <2>2. InWindow' = InWindow /\ Delivered' = Delivered
    BY <1>4 DEF Serialize, windowVars, InWindow, Delivered
  <2>3. \A t \in Threads \ {th} : InCall(t)' = InCall(t)
    BY <2>1 DEF InCall
  <2>4. InCalls = InCalls' \cup lost /\ InCalls' \cap lost = {}
    BY <2>1, <2>3 DEF InCalls, IInv, NothingTwice
  <2>5. lost \in SUBSET (InWindow \cup InCalls) /\ InWindow \cap lost = {}
    BY <2>4 DEF IInv, NothingTwice
  <2>6. (InWindow \cup InCalls)' = (InWindow \cup InCalls) \ lost
    BY <2>2, <2>4, <2>5
  <2>. QED
    BY <2>1, <2>2, <2>5, <2>6 DEF Abstract!Next, Abstract!Drop
<1>5. ASSUME NEW th \in Threads, Publish(th)
      PROVE  Abstract!Next
  <2>1. /\ InWindow' = InWindow
        /\ InCalls' = InCalls \ InCall(th)
        /\ Delivered' = Delivered \cup InCall(th)
        /\ discarded' = discarded
    BY <1>5, PublishSets DEF IInv, Publish
  <2>2. InCall(th) \in SUBSET (InWindow \cup InCalls) /\ InWindow \cap InCall(th) = {}
    BY DEF InCalls, IInv, NothingTwice
  <2>3. (InWindow \cup InCalls)' = (InWindow \cup InCalls) \ InCall(th)
    BY <2>1, <2>2
  <2>. QED
    BY <2>1, <2>2, <2>3 DEF Abstract!Next, Abstract!Deliver
<1>6. ASSUME UpdateConfig \/ Shutdown \/ UNCHANGED vars
      PROVE  UNCHANGED AbsVars
  <2>1. UNCHANGED <<series, discarded, call, emitted>>
    BY <1>6 DEF UpdateConfig, Shutdown, vars, windowVars
  <2>2. Keeps
    BY <2>1 DEF Keeps, Held
  <2>. QED
    BY <2>1, <2>2, QuietSets DEF AbsVars
<1>. QED
  BY <1>1, <1>2, <1>3, <1>4, <1>5, <1>6 DEF Next, CallStep

\* An input goes from pending to delivered or dropped, once, whatever happens
\* between the critical sections of the calls: what a host that counts on the
\* trait Precompute (precompute.rs:216-269) may rely on.
THEOREM Implements == Spec => AbstractSpec
<1>1. Init => Abstract!Init
  <2> SUFFICES ASSUME Init PROVE Abstract!Init
    OBVIOUS
  <2>1. DOMAIN series = {} /\ discarded = {} /\ emitted = {} /\ \A th \in Threads : call[th] = Idle
    BY EmptySeries DEF Init, WindowInit
  <2>2. InWindow = {} /\ InCalls = {} /\ Delivered = {}
    BY <2>1, IdleHolds DEF InWindow, InCalls, Delivered
  <2>. QED
    BY <2>1, <2>2 DEF Abstract!Init
<1>2. IInv /\ [Next]_vars => [Abstract!Next]_(Abstract!vars)
  BY StepImplements DEF AbsVars, Abstract!vars
<1>3. Spec => []IInv
  BY SafetyInit, SafetyStep, PTL DEF Spec
<1>. QED
  BY <1>1, <1>2, <1>3, PTL DEF Spec, AbstractSpec, Abstract!Spec

-----------------------------------------------------------------------------
(* Buckets.                                                                *)

LEMMA BucketAligned ==
  ASSUME NEW t \in Nat, NEW size \in Nat \ {0}
  PROVE  \E q \in Nat : Bucket(t, size) = q * size
  BY DEF Bucket

\* Of two boundaries the later is at least a window behind the earlier.
LEMMA BucketApart ==
  ASSUME NEW p \in Nat, NEW q \in Nat, NEW size \in Nat \ {0}, p * size < q * size
  PROVE  (p * size) + size <= q * size
<1>1. \A a, b \in Nat : a <= b => a * size <= b * size
  OBVIOUS
<1>2. p < q
  <2>1. CASE q <= p
    <3>1. q * size <= p * size
      BY <1>1, <2>1
    <3>2. p * size \in Nat /\ q * size \in Nat
      OBVIOUS
    <3>. QED
      BY <3>1, <3>2
  <2>. QED
    BY <2>1
<1>3. (p + 1) * size <= q * size
  BY <1>1, <1>2
<1>4. (p + 1) * size = (p * size) + size
  OBVIOUS
<1>. QED
  BY <1>3, <1>4

\* The bounds of the window lie on the grid of its size.
OnGrid(size) == activeEnd = activeStart + size /\ \E q \in Nat : activeStart = q * size

LEMMA InitOnGrid ==
  ASSUME TypeOK, NEW ref \in Nat, NEW c \in Configs, c.size > 0, InitWindow(ref, c),
         initialized => OnGrid(c.size)
  PROVE  OnGrid(c.size)'
<1>1. CASE initialized
  BY <1>1 DEF InitWindow, OpenStart, OpenEnd, OnGrid
<1>2. CASE ~initialized
  <2>1. c.size \in Nat \ {0}
    BY ConfigFields
  <2>2. PICK q \in Nat : Bucket(ref, c.size) = q * c.size
    BY <2>1, BucketAligned
  <2>3. activeStart' = Bucket(ref, c.size) /\ activeEnd' = Bucket(ref, c.size) + c.size
    BY <1>2 DEF InitWindow, OpenStart, OpenEnd
  <2>. QED
    BY <2>2, <2>3 DEF OnGrid
<1>. QED
  BY <1>1, <1>2

LEMMA AdvanceOnGrid ==
  ASSUME TypeOK, NEW now \in Nat, NEW c \in Configs, c.size > 0, AdvanceWindow(now, c),
         OnGrid(c.size)
  PROVE  OnGrid(c.size)' /\ activeStart' >= activeEnd
<1>1. c.size \in Nat \ {0} /\ activeStart \in Nat /\ activeEnd \in Nat
  BY ConfigFields DEF TypeOK
<1>2. PICK p \in Nat : activeStart = p * c.size
  BY DEF OnGrid
<1>3. PICK q \in Nat : Bucket(now, c.size) = q * c.size
  BY <1>1, BucketAligned
<1>4. activeEnd = activeStart + c.size
  BY DEF OnGrid
<1>5. (p + 1) * c.size = (p * c.size) + c.size
  BY <1>1
<1>6. activeStart' = NextStart(now, c) /\ activeEnd' = activeStart' + c.size
  BY DEF AdvanceWindow
<1>7. CASE Bucket(now, c.size) <= activeStart
  <2>1. activeStart' = activeEnd
    BY <1>6, <1>7 DEF NextStart
  <2>2. activeStart' = (p + 1) * c.size
    BY <1>2, <1>4, <1>5, <2>1
  <2>. QED
    BY <1>1, <1>6, <2>1, <2>2 DEF OnGrid
<1>8. CASE ~(Bucket(now, c.size) <= activeStart)
  <2>1. activeStart' = Bucket(now, c.size)
    BY <1>6, <1>8 DEF NextStart
  <2>2. p * c.size < q * c.size
    BY <1>1, <1>2, <1>3, <1>8
  <2>3. activeStart + c.size <= Bucket(now, c.size)
    BY <1>1, <1>2, <1>3, <2>2, BucketApart
  <2>. QED
    BY <1>3, <1>4, <1>6, <2>1, <2>3 DEF OnGrid
<1>. QED
  BY <1>7, <1>8

-----------------------------------------------------------------------------
(* What a step does to the bounds and to the ranges that are closed.       *)

RangesOf(th) ==
  CASE call[th].at = "serialize" -> {call[th].range}
    [] call[th].at = "publish"   -> {e.range : e \in call[th].batch}
    [] OTHER                     -> {}

EmittedRanges == {e.range : e \in emitted}

LEMMA RangesSplit == ClosedRanges = EmittedRanges \cup UNION {RangesOf(th) : th \in Threads}
  BY DEF ClosedRanges, RangesOf, EmittedRanges

LEMMA RangeTypes ==
  ASSUME TypeOK, NEW r \in ClosedRanges
  PROVE  r \in Nat \X Nat
<1>1. \A e \in Envelopes : e.range \in Nat \X Nat
  BY DEF Envelopes
<1>2. \A th \in Threads : RangesOf(th) \subseteq Nat \X Nat
  BY <1>1, CallFields DEF RangesOf
<1>3. EmittedRanges \subseteq Nat \X Nat
  BY <1>1 DEF EmittedRanges, TypeOK
<1>. QED
  BY <1>2, <1>3, RangesSplit

\* A step of one call that adds no more than `new` to what it and the output hold.
LEMMA RangesGrow ==
  ASSUME TypeOK, NEW th \in Threads, NEW x, Go(th, x), NEW new,
         RangesOf(th)' \subseteq RangesOf(th) \cup new,
         EmittedRanges' \subseteq EmittedRanges \cup RangesOf(th)
  PROVE  ClosedRanges' \subseteq ClosedRanges \cup new
<1>1. \A t \in Threads \ {th} : RangesOf(t)' = RangesOf(t)
  BY GoEffect DEF RangesOf
<1>2. ClosedRanges' = EmittedRanges' \cup UNION {RangesOf(t)' : t \in Threads}
  BY DEF ClosedRanges, RangesOf, EmittedRanges
<1>. QED
  BY <1>1, <1>2, RangesSplit

\* A step of a call to x, with nothing in its hands.
LEMMA GoHoldsNothing ==
  ASSUME TypeOK, NEW th \in Threads, NEW x, Go(th, x), x.at \notin {"serialize", "publish"}
  PROVE  RangesOf(th)' = {}
<1>1. call'[th] = x
  BY GoEffect
<1>. QED
  BY <1>1 DEF RangesOf

LEMMA GoShrinks ==
  ASSUME TypeOK, NEW th \in Threads, NEW x, Go(th, x), x.at \notin {"serialize", "publish"},
         emitted' = emitted
  PROVE  ClosedRanges' \subseteq ClosedRanges
<1>1. EmittedRanges' = EmittedRanges
  BY DEF EmittedRanges
<1>. QED
  BY <1>1, GoHoldsNothing, RangesGrow

Bounds == <<activeStart, activeEnd, initialized>>

\* The three things a step of a call may do.
StaysPut == UNCHANGED Bounds /\ ClosedRanges' \subseteq ClosedRanges

Opens(th) ==
  /\ call[th].at \in {"observe", "merge"} /\ call[th].cfg \in Configs
  /\ \E ref \in Nat : InitWindow(ref, call[th].cfg)
  /\ ClosedRanges' \subseteq ClosedRanges

Closes(th) ==
  /\ call[th].at \in {"rotate", "drain"} /\ call[th].cfg \in Configs
  /\ initialized
  /\ \E now \in Nat : AdvanceWindow(now, call[th].cfg)
  /\ ClosedRanges' \subseteq ClosedRanges \cup {ActiveRange}

\* The steps that begin a call, or move it on, take no window in its hands.
LEMMA MovesOn ==
  ASSUME TypeOK, NEW th \in Threads,
         \/ BeginObserve(th) \/ CountEnvelope(th) \/ BeginObserveEnvelope(th) \/ AdmitEnvelope(th)
         \/ BeginDrain(th) \/ \E now \in Times : BeginTick(th, now)
  PROVE  \E x : Go(th, x) /\ x.at \notin {"serialize", "publish"}
<1>1. CASE BeginObserve(th)
  BY <1>1 DEF BeginObserve
<1>2. CASE CountEnvelope(th)
  BY <1>2 DEF CountEnvelope
<1>3. CASE BeginObserveEnvelope(th)
  BY <1>3 DEF BeginObserveEnvelope
<1>4. CASE AdmitEnvelope(th)
  BY <1>4 DEF AdmitEnvelope, Idle
<1>5. CASE BeginDrain(th)
  BY <1>5 DEF BeginDrain
<1>6. ASSUME NEW now \in Times, BeginTick(th, now)
      PROVE  \E x : Go(th, x) /\ x.at \notin {"serialize", "publish"}
  BY <1>6 DEF BeginTick
<1>. QED
  BY <1>1, <1>2, <1>3, <1>4, <1>5, <1>6

LEMMA MovingBounds ==
  ASSUME TypeOK, NEW th \in Threads,
         \/ BeginObserve(th) \/ CountEnvelope(th) \/ BeginObserveEnvelope(th) \/ AdmitEnvelope(th)
         \/ BeginDrain(th) \/ \E now \in Times : BeginTick(th, now)
  PROVE  StaysPut
<1>1. UNCHANGED Bounds /\ emitted' = emitted
  BY DEF BeginObserve, CountEnvelope, BeginObserveEnvelope, AdmitEnvelope, BeginDrain, BeginTick,
         windowVars, Bounds
<1>2. \E x : Go(th, x) /\ x.at \notin {"serialize", "publish"}
  BY MovesOn
<1>. QED
  BY <1>1, <1>2, GoShrinks DEF StaysPut

LEMMA AbsorbingBounds ==
  ASSUME TypeOK, NEW th \in Threads, Observe(th) \/ MergeEnvelope(th)
  PROVE  StaysPut \/ Opens(th)
<1> DEFINE in == call[th].input
           c == call[th].cfg
<1>1. in \in Inputs /\ c \in Configs /\ in.obs.ts \in Nat
  BY CallFields, InputFields DEF Observe, MergeEnvelope
<1>2. ClosedRanges' \subseteq ClosedRanges
  BY GoShrinks DEF Observe, MergeEnvelope, Idle
<1>3. CASE UNCHANGED windowVars
  BY <1>2, <1>3 DEF StaysPut, Bounds, windowVars
<1>4. CASE InitWindow(in.obs.ts, c)
  BY <1>1, <1>2, <1>4 DEF Opens, Observe, MergeEnvelope
<1>5. UNCHANGED windowVars \/ InitWindow(in.obs.ts, c)
  BY DEF Observe, MergeEnvelope, ObserveLate, ObserveKnown, ObserveNew, ObserveEvicting,
         ObserveOverflow, MergeInto, MergeOverflow
<1>. QED
  BY <1>3, <1>4, <1>5

LEMMA RotatingBounds ==
  ASSUME TypeOK, NEW th \in Threads, Rotate(th) \/ Drain(th)
  PROVE  StaysPut \/ Closes(th)
<1>1. /\ call[th].cfg \in Configs
      /\ call[th].at = "rotate" => call[th].now \in Nat
      /\ activeEnd \in Nat /\ emitted' = emitted
  BY CallFields DEF Rotate, Drain, TypeOK
<1>2. CASE Go(th, Idle) /\ UNCHANGED <<windowVars, accepted, discarded>>
  BY <1>1, <1>2, GoShrinks DEF StaysPut, Bounds, windowVars, Idle
<1>3. ASSUME NEW now \in Nat, initialized, RotateWindow(now, call[th].cfg), HandOver(th, now)
      PROVE  Closes(th)
  <2>1. ClosedRanges' \subseteq ClosedRanges \cup {ActiveRange}
    <3>1. EmittedRanges' = EmittedRanges
      BY <1>1 DEF EmittedRanges
    <3>2. PICK x : Go(th, x) /\ (x.at = "idle" \/ (x.at = "serialize" /\ x.range = ActiveRange))
      BY <1>3 DEF HandOver, Idle
    <3>3. RangesOf(th)' \subseteq {ActiveRange}
      <4>1. call'[th] = x
        BY <3>2, GoEffect
      <4>. QED
        BY <3>2, <4>1 DEF RangesOf
    <3>. QED
      BY <3>1, <3>2, <3>3, RangesGrow
  <2>. QED
    BY <1>1, <1>3, <2>1 DEF Closes, RotateWindow, Rotate, Drain
<1>4. \/ Go(th, Idle) /\ UNCHANGED <<windowVars, accepted, discarded>>
      \/ \E now \in Nat : initialized /\ RotateWindow(now, call[th].cfg) /\ HandOver(th, now)
  BY <1>1 DEF Rotate, Drain, RotationDue, DrainDue
<1>. QED
  BY <1>2, <1>3, <1>4

LEMMA HandingBounds ==
  ASSUME TypeOK, NEW th \in Threads, Serialize(th) \/ Publish(th)
  PROVE  StaysPut
<1>1. UNCHANGED Bounds
  BY DEF Serialize, Publish, windowVars, Bounds
<1>2. CASE Serialize(th)
  <2>1. PICK sent, rows :
          Go(th, [at    |-> "publish", now |-> call[th].now,
                  batch |-> {Envelope(e, cfg, call[th].range) : e \in sent}, rows |-> rows])
    BY <1>2 DEF Serialize
  <2>2. call'[th].at = "publish"
        /\ call'[th].batch = {Envelope(e, cfg, call[th].range) : e \in sent}
    BY <2>1, GoEffect
  <2>3. RangesOf(th) = {call[th].range}
    BY <1>2 DEF Serialize, RangesOf
  <2>4. RangesOf(th)' \subseteq {call[th].range}
    BY <2>2 DEF RangesOf, Envelope
  <2>5. EmittedRanges' = EmittedRanges
    BY <1>2 DEF EmittedRanges, Serialize
  <2>6. ClosedRanges' \subseteq ClosedRanges \cup {}
    BY <2>1, <2>3, <2>4, <2>5, RangesGrow
  <2>. QED
    BY <1>1, <2>6 DEF StaysPut
<1>3. CASE Publish(th)
  <2>1. Go(th, Idle) /\ emitted' = emitted \cup call[th].batch
    BY <1>3 DEF Publish
  <2>2. RangesOf(th)' = {}
    BY <2>1, GoHoldsNothing DEF Idle
  <2>3. RangesOf(th) = {e.range : e \in call[th].batch}
    BY <1>3 DEF Publish, RangesOf
  <2>4. EmittedRanges' = EmittedRanges \cup RangesOf(th)
    BY <2>1, <2>3 DEF EmittedRanges
  <2>5. ClosedRanges' \subseteq ClosedRanges \cup {}
    BY <2>1, <2>2, <2>4, RangesGrow
  <2>. QED
    BY <1>1, <2>5 DEF StaysPut
<1>. QED
  BY <1>2, <1>3

LEMMA BoundsStep ==
  ASSUME TypeOK, NEW th \in Threads, CallStep(th)
  PROVE  StaysPut \/ Opens(th) \/ Closes(th)
  BY MovingBounds, AbsorbingBounds, RotatingBounds, HandingBounds DEF CallStep

\* The other steps leave windows and calls alone.
LEMMA OtherSteps ==
  ASSUME UpdateConfig \/ Shutdown \/ UNCHANGED vars
  PROVE  UNCHANGED Bounds /\ UNCHANGED <<call, emitted>> /\ ClosedRanges' = ClosedRanges
<1>1. UNCHANGED <<Bounds, call, emitted>>
  BY DEF UpdateConfig, Shutdown, vars, windowVars, Bounds
<1>. QED
  BY <1>1 DEF ClosedRanges

-----------------------------------------------------------------------------
(* The windows move on.                                                    *)

MoveInv ==
  /\ TypeOK /\ Configured
  /\ ClosedRanges # {} => initialized
  /\ AllSized => (initialized => activeStart < activeEnd) /\ \A r \in ClosedRanges : r[1] < activeStart

LEMMA MoveOpens ==
  ASSUME MoveInv, NEW ref \in Nat, NEW c \in Configs, InitWindow(ref, c),
         ClosedRanges' \subseteq ClosedRanges
  PROVE  /\ ClosedRanges' # {} => initialized'
         /\ AllSized => (initialized' => activeStart' < activeEnd')
                        /\ \A r \in ClosedRanges' : r[1] < activeStart'
<1>1. initialized' = TRUE
  BY DEF InitWindow
<1>2. CASE initialized
  BY <1>1, <1>2 DEF InitWindow, OpenStart, OpenEnd, MoveInv
<1>3. CASE ~initialized
  <2>1. ClosedRanges' = {}
    BY <1>3 DEF MoveInv
  <2>2. AllSized => activeStart' < activeEnd'
    <3>1. c.size \in Nat /\ Bucket(ref, c.size) \in Nat
      BY ConfigFields, BucketType
    <3>. QED
      BY <1>3, <3>1 DEF InitWindow, OpenStart, OpenEnd, AllSized
  <2>. QED
    BY <2>1, <2>2
<1>. QED
  BY <1>2, <1>3

LEMMA MoveCloses ==
  ASSUME MoveInv, NEW now \in Nat, NEW c \in Configs, initialized, AdvanceWindow(now, c),
         ClosedRanges' \subseteq ClosedRanges \cup {ActiveRange}
  PROVE  /\ ClosedRanges' # {} => initialized'
         /\ AllSized => (initialized' => activeStart' < activeEnd')
                        /\ \A r \in ClosedRanges' : r[1] < activeStart'
<1>1. initialized'
  BY DEF AdvanceWindow
<1>2. ASSUME AllSized
      PROVE  activeStart' < activeEnd' /\ \A r \in ClosedRanges' : r[1] < activeStart'
  <2>1. c.size \in Nat /\ c.size > 0 /\ Bucket(now, c.size) \in Nat
    BY <1>2, ConfigFields, BucketType DEF AllSized
  <2>2. activeStart \in Nat /\ activeEnd \in Nat /\ activeStart < activeEnd
    BY <1>2 DEF MoveInv, TypeOK
  <2>3. activeStart' \in Nat /\ activeStart < activeStart' /\ activeEnd' = activeStart' + c.size
    BY <2>1, <2>2 DEF AdvanceWindow, NextStart
  <2>4. \A r \in ClosedRanges : r \in Nat \X Nat
    BY RangeTypes DEF MoveInv
  <2>5. \A r \in ClosedRanges : r[1] < activeStart'
    BY <1>2, <2>2, <2>3, <2>4 DEF MoveInv
  <2>6. ActiveRange[1] < activeStart'
    BY <2>3 DEF ActiveRange
  <2>. QED
    BY <2>1, <2>3, <2>5, <2>6
<1>. QED
  BY <1>1, <1>2

LEMMA MoveStep ==
  ASSUME MoveInv, [Next]_vars
  PROVE  MoveInv'
<1>1. TypeOK' /\ Configured'
  BY TypeStep, ConfiguredStep DEF MoveInv
<1>2. ASSUME NEW th \in Threads, CallStep(th)
      PROVE  MoveInv'
  <2>1. StaysPut \/ Opens(th) \/ Closes(th)
    BY <1>2, BoundsStep DEF MoveInv
  <2>2. CASE StaysPut
    BY <1>1, <2>2 DEF StaysPut, Bounds, MoveInv
  <2>3. CASE Opens(th)
    BY <1>1, <2>3, MoveOpens DEF Opens, MoveInv
  <2>4. CASE Closes(th)
    BY <1>1, <2>4, MoveCloses DEF Closes, MoveInv
  <2>. QED
    BY <2>1, <2>2, <2>3, <2>4
<1>3. CASE UpdateConfig \/ Shutdown \/ UNCHANGED vars
  BY <1>1, <1>3, OtherSteps DEF MoveInv, Bounds
<1>. QED
  BY <1>2, <1>3 DEF Next

LEMMA InitRanges == Init => ClosedRanges = {} /\ ~initialized
  BY DEF Init, WindowInit, ClosedRanges, Idle

\* Every window that was closed starts before the active one, whatever sizes
\* update_config installs while calls are under way with the old one.
THEOREM StartsMoveOn == Spec => []WindowsMoveOn
<1>1. Init => MoveInv
  BY TypeInit, ConfiguredInit, InitRanges DEF MoveInv
<1>2. MoveInv /\ [Next]_vars => MoveInv'
  BY MoveStep
<1>3. MoveInv => WindowsMoveOn
  BY DEF MoveInv, WindowsMoveOn
<1>. QED
  BY <1>1, <1>2, <1>3, PTL DEF Spec

-----------------------------------------------------------------------------
(* With one configuration the windows do not overlap.                      *)

\* Every call works with the configuration there is.
Steady ==
  \A th \in Threads :
    call[th].at \in {"observe", "count", "merge", "rotate", "drain"} => call[th].cfg = cfg

LEMMA FixedStays ==
  ASSUME TypeOK, [Next]_vars, FixedConfig'
  PROVE  FixedConfig /\ cfg' = cfg
<1>1. cfg' = cfg
  <2>1. ASSUME NEW th \in Threads, CallStep(th)
        PROVE  cfg' = cfg
    BY <2>1, CallStepGoes
  <2>2. CASE UpdateConfig
    BY <2>2 DEF UpdateConfig, FixedConfig
  <2>3. CASE Shutdown \/ UNCHANGED vars
    BY <2>3 DEF Shutdown, vars
  <2>. QED
    BY <2>1, <2>2, <2>3 DEF Next
<1>. QED
  BY <1>1 DEF FixedConfig

LEMMA SteadyGo ==
  ASSUME TypeOK, Steady, cfg' = cfg, NEW th \in Threads, NEW x, Go(th, x),
         x.at \in {"observe", "count", "merge", "rotate", "drain"} => x.cfg = cfg
  PROVE  Steady'
<1>1. call'[th] = x /\ \A t \in Threads \ {th} : call'[t] = call[t]
  BY GoEffect
<1>. QED
  BY <1>1 DEF Steady

LEMMA SteadyStep ==
  ASSUME TypeOK, Steady, NEW th \in Threads, CallStep(th)
  PROVE  Steady'
<1>1. cfg' = cfg
  BY CallStepGoes
<1>2. \E x : Go(th, x) /\ (x.at \in {"observe", "count", "merge", "rotate", "drain"} => x.cfg = cfg)
  <2>1. CASE BeginObserve(th)
    BY <2>1 DEF BeginObserve
  <2>2. CASE CountEnvelope(th)
    BY <2>2 DEF CountEnvelope
  <2>3. CASE BeginObserveEnvelope(th)
    BY <2>3 DEF BeginObserveEnvelope
  <2>4. CASE AdmitEnvelope(th)
    BY <2>4 DEF AdmitEnvelope, Idle
  <2>5. CASE Observe(th) \/ MergeEnvelope(th) \/ Publish(th)
    BY <2>5 DEF Observe, MergeEnvelope, Publish, Idle
  <2>6. CASE BeginDrain(th)
    BY <2>6 DEF BeginDrain
  <2>7. ASSUME NEW now \in Times, BeginTick(th, now)
        PROVE  \E x : Go(th, x) /\ (x.at \in {"observe", "count", "merge", "rotate", "drain"} => x.cfg = cfg)
    BY <2>7 DEF BeginTick
  <2>8. CASE Rotate(th) \/ Drain(th)
    BY <2>8 DEF Rotate, Drain, HandOver, Idle
  <2>9. CASE Serialize(th)
    BY <2>9 DEF Serialize
  <2>. QED
    BY <2>1, <2>2, <2>3, <2>4, <2>5, <2>6, <2>7, <2>8, <2>9 DEF CallStep
<1>. QED
  BY <1>1, <1>2, SteadyGo

\* The invariant of an instance whose configuration stays.
GridInv ==
  /\ initialized => OnGrid(cfg.size)
  /\ \A r \in ClosedRanges : r[2] <= activeStart

FixedInv ==
  /\ TypeOK /\ Configured
  /\ ClosedRanges # {} => initialized
  /\ FixedConfig => Steady /\ (cfg.size > 0 => GridInv)

LEMMA GridOpens ==
  ASSUME TypeOK, ClosedRanges # {} => initialized, cfg \in Configs, cfg' = cfg, cfg.size > 0,
         GridInv, NEW ref \in Nat, InitWindow(ref, cfg), ClosedRanges' \subseteq ClosedRanges
  PROVE  GridInv'
<1>1. OnGrid(cfg.size)'
  <2>1. initialized => OnGrid(cfg.size)
    BY DEF GridInv
  <2>2. OnGrid(cfg.size)'
    BY <2>1, InitOnGrid
  <2>. QED
    BY <2>2
<1>2. \A r \in ClosedRanges' : r[2] <= activeStart'
  BY DEF InitWindow, OpenStart, GridInv
<1>. QED
  BY <1>1, <1>2 DEF GridInv

LEMMA GridCloses ==
  ASSUME TypeOK, cfg \in Configs, cfg' = cfg, cfg.size > 0, initialized,
         GridInv, NEW now \in Nat, AdvanceWindow(now, cfg),
         ClosedRanges' \subseteq ClosedRanges \cup {ActiveRange}
  PROVE  GridInv'
<1>1. OnGrid(cfg.size)' /\ activeStart' >= activeEnd
  BY AdvanceOnGrid DEF GridInv
<1>2. /\ activeStart \in Nat /\ activeEnd \in Nat /\ activeStart' \in Nat
      /\ activeStart <= activeEnd
  BY AdvanceWindowType, ConfigFields DEF TypeOK, GridInv, OnGrid
<1>3. \A r \in ClosedRanges : r[2] \in Nat /\ r[2] <= activeStart
  BY RangeTypes DEF GridInv
<1>4. \A r \in ClosedRanges' : r[2] <= activeStart'
  BY <1>1, <1>2, <1>3 DEF ActiveRange
<1>. QED
  BY <1>1, <1>4 DEF GridInv

LEMMA FixedStep ==
  ASSUME FixedInv, [Next]_vars
  PROVE  FixedInv'
<1>1. TypeOK' /\ Configured'
  BY TypeStep, ConfiguredStep DEF FixedInv
<1>2. ASSUME NEW th \in Threads, CallStep(th)
      PROVE  FixedInv'
  <2>1. StaysPut \/ Opens(th) \/ Closes(th)
    BY <1>2, BoundsStep DEF FixedInv
  <2>2. ClosedRanges' # {} => initialized'
    BY <2>1 DEF StaysPut, Opens, Closes, Bounds, InitWindow, AdvanceWindow, FixedInv
  <2>3. ASSUME FixedConfig'
        PROVE  Steady' /\ (cfg'.size > 0 => GridInv')
    <3>1. FixedConfig /\ cfg' = cfg /\ cfg \in Configs
      BY <2>3, FixedStays DEF FixedInv, FixedConfig, TypeOK
    <3>2. Steady'
      BY <1>2, <3>1, SteadyStep DEF FixedInv
    <3>3. ASSUME cfg.size > 0
          PROVE  GridInv'
      <4>1. GridInv
        BY <3>1, <3>3 DEF FixedInv
      <4>2. CASE StaysPut
        BY <3>1, <4>1, <4>2 DEF StaysPut, Bounds, GridInv, OnGrid
      <4>3. CASE Opens(th)
        <5>1. call[th].cfg = cfg
          BY <3>1, <4>3 DEF Opens, FixedInv, Steady
        <5>. QED
          BY <3>1, <3>3, <4>1, <4>3, <5>1, GridOpens DEF Opens, FixedInv
      <4>4. CASE Closes(th)
        <5>1. call[th].cfg = cfg
          BY <3>1, <4>4 DEF Closes, FixedInv, Steady
        <5>. QED
          BY <3>1, <3>3, <4>1, <4>4, <5>1, GridCloses DEF Closes, FixedInv
      <4>. QED
        BY <2>1, <4>2, <4>3, <4>4
    <3>. QED
      BY <3>1, <3>2, <3>3
  <2>. QED
    BY <1>1, <2>2, <2>3 DEF FixedInv
<1>3. CASE UpdateConfig \/ Shutdown \/ UNCHANGED vars
  <2>1. UNCHANGED Bounds /\ UNCHANGED <<call, emitted>> /\ ClosedRanges' = ClosedRanges
    BY <1>3, OtherSteps
  <2>2. FixedConfig' => FixedConfig /\ cfg' = cfg
    BY FixedStays DEF FixedInv
  <2>. QED
    BY <1>1, <2>1, <2>2 DEF FixedInv, Bounds, Steady, GridInv, OnGrid
<1>. QED
  BY <1>2, <1>3 DEF Next

LEMMA FixedInit == Init => FixedInv
<1>1. Init => TypeOK /\ Configured /\ ClosedRanges = {} /\ ~initialized
  BY TypeInit, ConfiguredInit, InitRanges
<1>2. Init => Steady
  BY DEF Init, Idle, Steady
<1>. QED
  BY <1>1, <1>2 DEF FixedInv, GridInv

LEMMA FixedAlways == Spec => []FixedInv
  BY FixedInit, FixedStep, PTL DEF Spec

\* Closed windows lie before the active one, also after the idle jump of
\* advance_window and after a drain in mid-window.
THEOREM ClosedApart == Spec => []WindowsDisjoint
<1>1. FixedInv => WindowsDisjoint
  BY DEF FixedInv, GridInv, WindowsDisjoint
<1>. QED
  BY <1>1, FixedAlways, PTL

-----------------------------------------------------------------------------
(* Entries and envelopes.                                                  *)

\* The key that entry e has under configuration c.
KeyAt(c, e) == SeriesKey(c, e.res, e.labels)

\* The scalars of x were not too old for a window that starts at `start`.
InTime(c, x, start) ==
  c.lateness > 0 =>
    \A in \in x.sketch : in.obs.kind = "scalar" => in.obs.ts + c.lateness >= start

EntryOK(c, e, start) ==
  /\ \A in \in e.sketch : KeyOf(in, c) = KeyAt(c, e)
  /\ InTime(c, e, start)

EnvelopeOK(c, v) ==
  /\ c.strip = "none" =>
       \A in \in v.sketch : in.obs.res = v.res /\ SeriesAttrs(in.obs.labels, c.by) = v.labels
  /\ InTime(c, v, v.range[1])

OnePerSeries(B) ==
  \A v, w \in B : v.range = w.range /\ v.res = w.res /\ v.labels = w.labels => v = w

LEMMA AbsorbOK ==
  ASSUME NEW c \in Configs, NEW e \in Entries, NEW in \in Inputs, NEW n \in Nat, NEW start \in Nat,
         EntryOK(c, e, start), KeyOf(in, c) = KeyAt(c, e),
         in.obs.kind = "scalar" /\ c.lateness > 0 => in.obs.ts + c.lateness >= start
  PROVE  /\ KeyAt(c, Absorb(e, in, n)) = KeyAt(c, e)
         /\ EntryOK(c, Absorb(e, in, n), start)
<1>1. /\ Absorb(e, in, n).res = e.res /\ Absorb(e, in, n).labels = e.labels
      /\ Absorb(e, in, n).sketch = e.sketch \cup {in}
  BY DEF Absorb, Entries
<1>2. KeyAt(c, Absorb(e, in, n)) = KeyAt(c, e)
  BY <1>1 DEF KeyAt
<1>. HIDE DEF Absorb
<1>3. EntryOK(c, Absorb(e, in, n), start)
  BY <1>1, <1>2 DEF EntryOK, InTime
<1>. QED
  BY <1>2, <1>3

LEMMA TouchOK ==
  ASSUME NEW c \in Configs, NEW e \in Entries, NEW ts \in Nat, NEW start \in Nat,
         EntryOK(c, e, start)
  PROVE  KeyAt(c, Touch(e, ts)) = KeyAt(c, e) /\ EntryOK(c, Touch(e, ts), start)
<1>1. /\ Touch(e, ts).res = e.res /\ Touch(e, ts).labels = e.labels
      /\ Touch(e, ts).sketch = e.sketch
  BY DEF Touch, Entries
<1>. QED
  BY <1>1 DEF KeyAt, EntryOK, InTime

LEMMA NewEntryOK ==
  ASSUME NEW c \in Configs, NEW res, NEW labels, NEW ts, NEW start
  PROVE  /\ KeyAt(c, NewEntry(res, labels, ts)) = SeriesKey(c, res, labels)
         /\ EntryOK(c, NewEntry(res, labels, ts), start)
  BY DEF NewEntry, KeyAt, EntryOK, InTime

\* Stripping twice is stripping once.
LEMMA StrippedKey ==
  ASSUME NEW c, NEW in
  PROVE  SeriesKey(c, StrippedResource(c, in.obs.res), StrippedLabels(c, in.obs.labels))
           = KeyOf(in, c)
  BY DEF SeriesKey, KeyOf, StrippedResource, StrippedLabels

LEMMA FirstEntryOK ==
  ASSUME NEW c \in Configs, NEW in \in Inputs, NEW start \in Nat,
         in.obs.kind = "scalar" /\ c.lateness > 0 => in.obs.ts + c.lateness >= start
  PROVE  KeyAt(c, FirstEntry(in, c)) = KeyOf(in, c) /\ EntryOK(c, FirstEntry(in, c), start)
<1> DEFINE res == StrippedResource(c, in.obs.res)
           labels == StrippedLabels(c, in.obs.labels)
           e == NewEntry(res, labels, in.obs.ts)
<1>1. res \in Resources /\ labels \in Labels /\ in.obs.ts \in Nat
  BY InputFields, ConstantsAssumption DEF StrippedResource, StrippedLabels, Resources
<1>2. e \in Entries /\ KeyAt(c, e) = KeyOf(in, c) /\ EntryOK(c, e, start)
  BY <1>1, NewEntryType, NewEntryOK, StrippedKey
<1>3. KeyAt(c, Absorb(e, in, 1)) = KeyOf(in, c) /\ EntryOK(c, Absorb(e, in, 1), start)
  <2>. HIDE DEF e
  <2>. QED BY <1>2, AbsorbOK
<1>. QED
  BY <1>2, <1>3 DEF FirstEntry

\* The envelope of an entry, and when two of them are of the same series.
LEMMA EnvelopeOfEntry ==
  ASSUME NEW c, NEW e, NEW range, EntryOK(c, e, range[1])
  PROVE  EnvelopeOK(c, Envelope(e, c, range))
<1>1. /\ Envelope(e, c, range).range = range /\ Envelope(e, c, range).res = e.res
      /\ Envelope(e, c, range).labels = SeriesAttrs(e.labels, c.by)
      /\ Envelope(e, c, range).sketch = e.sketch
  BY DEF Envelope
<1>2. ASSUME c.strip = "none", NEW in \in e.sketch
      PROVE  in.obs.res = e.res /\ SeriesAttrs(in.obs.labels, c.by) = SeriesAttrs(e.labels, c.by)
  BY <1>2 DEF EntryOK, KeyOf, KeyAt, SeriesKey, StrippedResource, StrippedLabels
<1>. QED
  BY <1>1, <1>2 DEF EnvelopeOK, EntryOK, InTime

LEMMA SameEnvelopeSeries ==
  ASSUME NEW c, NEW e, NEW f, NEW range,
         Envelope(e, c, range).res = Envelope(f, c, range).res,
         Envelope(e, c, range).labels = Envelope(f, c, range).labels
  PROVE  KeyAt(c, e) = KeyAt(c, f)
<1>1. e.res = f.res /\ SeriesAttrs(e.labels, c.by) = SeriesAttrs(f.labels, c.by)
  BY DEF Envelope
<1>. QED
  BY <1>1 DEF KeyAt, SeriesKey, StrippedResource, StrippedLabels

-----------------------------------------------------------------------------
(* The invariant.                                                          *)

Stored ==
  \A k \in DOMAIN series : KeyAt(cfg, series[k]) = k /\ EntryOK(cfg, series[k], activeStart)

Handed(th) ==
  /\ call[th].at = "serialize" =>
       /\ \A e \in call[th].entries : EntryOK(cfg, e, call[th].range[1])
       /\ \A e, f \in call[th].entries : KeyAt(cfg, e) = KeyAt(cfg, f) => e = f
  /\ call[th].at = "publish" =>
       OnePerSeries(call[th].batch) /\ \A v \in call[th].batch : EnvelopeOK(cfg, v)

AllHanded == \A th \in Threads : Handed(th)

Sent == \A v \in emitted : EnvelopeOK(cfg, v)

\* No two calls, nor a call and the output, have a window of the same range.
Apart ==
  /\ OnePerSeries(emitted)
  /\ \A t, u \in Threads : t # u => RangesOf(t) \cap RangesOf(u) = {}
  /\ \A t \in Threads : RangesOf(t) \cap EmittedRanges = {}

\* Only envelopes go to observe_envelope.
Merging ==
  \A th \in Threads :
    call[th].at \in {"count", "admit", "merge"} => call[th].input.obs.kind = "envelope"

SInv ==
  /\ FixedInv /\ Merging
  /\ ~initialized => DOMAIN series = {}
  /\ FixedConfig => Stored /\ AllHanded /\ Sent /\ (cfg.size > 0 => Apart)

\* A call that moves to a step with no window in its hands.
LEMMA GoKeeps ==
  ASSUME TypeOK, AllHanded, Sent, NEW th \in Threads, NEW x, Go(th, x),
         x.at \notin {"serialize", "publish"}, cfg' = cfg, emitted' = emitted
  PROVE  AllHanded' /\ Sent' /\ (Apart => Apart')
<1>1. call'[th] = x /\ \A t \in Threads \ {th} : call'[t] = call[t]
  BY GoEffect
<1>2. AllHanded' /\ Sent'
  BY <1>1 DEF AllHanded, Handed, Sent
<1>3. RangesOf(th)' = {} /\ \A t \in Threads \ {th} : RangesOf(t)' = RangesOf(t)
  BY <1>1 DEF RangesOf
<1>4. Apart => Apart'
  BY <1>3 DEF Apart, EmittedRanges
<1>. QED
  BY <1>2, <1>4

LEMMA MergingGo ==
  ASSUME TypeOK, Merging, NEW th \in Threads, NEW x, Go(th, x),
         x.at \in {"count", "admit", "merge"} => x.input.obs.kind = "envelope"
  PROVE  Merging'
<1>1. call'[th] = x /\ \A t \in Threads \ {th} : call'[t] = call[t]
  BY GoEffect
<1>. QED
  BY <1>1 DEF Merging

-----------------------------------------------------------------------------
(* Observing and merging.                                                  *)

\* At most one entry is new, and it is as it should be.
StoresOne(start) ==
  \/ series' = series
  \/ \E k : \E e \in Entries :
       /\ KeyAt(cfg, e) = k /\ EntryOK(cfg, e, start)
       /\ k \in DOMAIN series' /\ series'[k] = e
       /\ \A j \in DOMAIN series' \ {k} : j \in DOMAIN series /\ series'[j] = series[j]

LEMMA StoresPut ==
  ASSUME NEW k, NEW e \in Entries, NEW start, series' = Put(k, e),
         KeyAt(cfg, e) = k, EntryOK(cfg, e, start)
  PROVE  StoresOne(start)
<1>1. /\ k \in DOMAIN series' /\ series'[k] = e
      /\ \A j \in DOMAIN series' \ {k} : j \in DOMAIN series /\ series'[j] = series[j]
  BY DEF Put
<1>. QED
  BY <1>1 DEF StoresOne

LEMMA NotLate ==
  ASSUME TypeOK, NEW in \in Inputs, NEW c \in Configs, ~IsLate(in, c)
  PROVE  /\ OpenStart(in.obs.ts, c) \in Nat
         /\ c.lateness > 0 => in.obs.ts + c.lateness >= OpenStart(in.obs.ts, c)
<1>1. /\ in.obs.ts \in Nat /\ c.lateness \in Nat /\ c.size \in Nat
      /\ Bucket(in.obs.ts, c.size) \in Nat /\ activeStart \in Nat
  BY InputFields, ConfigFields, BucketType DEF TypeOK
<1>2. OpenStart(in.obs.ts, c) \in Nat
  BY <1>1 DEF OpenStart
<1>. QED
  BY <1>1, <1>2 DEF IsLate

\* The entries that stay are in time for the window that init_window leaves.
LEMMA StoredOpen ==
  ASSUME TypeOK, Stored, ~initialized => DOMAIN series = {}, NEW ref, NEW c
  PROVE  \A k \in DOMAIN series :
           KeyAt(cfg, series[k]) = k /\ EntryOK(cfg, series[k], OpenStart(ref, c))
<1>1. initialized => OpenStart(ref, c) = activeStart
  BY DEF OpenStart
<1>. QED
  BY <1>1 DEF Stored

LEMMA ObserveStores ==
  ASSUME TypeOK, cfg \in Configs, Stored, ~initialized => DOMAIN series = {}, NEW in \in Inputs,
         ObserveKnown(in, cfg) \/ ObserveNew(in, cfg) \/ ObserveEvicting(in, cfg)
  PROVE  StoresOne(OpenStart(in.obs.ts, cfg))
<1> DEFINE start == OpenStart(in.obs.ts, cfg)
           k == KeyOf(in, cfg)
<1>1. start \in Nat /\ (cfg.lateness > 0 => in.obs.ts + cfg.lateness >= start) /\ in.obs.ts \in Nat
  BY NotLate, InputFields DEF ObserveKnown, ObserveNew, ObserveEvicting
<1>2. \A j \in DOMAIN series : KeyAt(cfg, series[j]) = j /\ EntryOK(cfg, series[j], start)
  BY StoredOpen
<1>3. CASE ObserveKnown(in, cfg)
  <2> DEFINE t == Touch(series[k], in.obs.ts)
             e == IF in.obs.good THEN Absorb(t, in, 1) ELSE t
  <2>1. k \in DOMAIN series /\ series[k] \in Entries
    BY <1>3 DEF ObserveKnown, TypeOK
  <2>2. t \in Entries /\ KeyAt(cfg, t) = k /\ EntryOK(cfg, t, start)
    <3>. HIDE DEF start, k
    <3>. QED BY <1>1, <1>2, <2>1, TouchOK, TouchType
  <2>3. /\ Absorb(t, in, 1) \in Entries
        /\ KeyAt(cfg, Absorb(t, in, 1)) = k /\ EntryOK(cfg, Absorb(t, in, 1), start)
    <3>. HIDE DEF start, t
    <3>. QED BY <1>1, <2>2, AbsorbOK, AbsorbType
  <2>4. series' = Put(k, e)
    BY <1>3 DEF ObserveKnown
  <2>5. e \in Entries /\ KeyAt(cfg, e) = k /\ EntryOK(cfg, e, start)
    BY <2>2, <2>3
  <2>. HIDE DEF start, k, e
  <2>6. StoresOne(start)
    BY <2>4, <2>5, StoresPut
  <2>. QED
    BY <2>6 DEF start
<1>4. FirstEntry(in, cfg) \in Entries /\ KeyAt(cfg, FirstEntry(in, cfg)) = k
      /\ EntryOK(cfg, FirstEntry(in, cfg), start)
  BY <1>1, FirstEntryOK, FirstEntryType
<1>5. CASE ObserveNew(in, cfg)
  BY <1>4, <1>5, StoresPut DEF ObserveNew
<1>6. CASE ObserveEvicting(in, cfg)
  <2>1. PICK old \in Oldest :
          series' = [j \in (DOMAIN series \ {old}) \cup {k} |->
                       IF j = k THEN FirstEntry(in, cfg) ELSE series[j]]
    BY <1>6 DEF ObserveEvicting
  <2>. HIDE DEF start, k
  <2>2. /\ k \in DOMAIN series' /\ series'[k] = FirstEntry(in, cfg)
        /\ \A j \in DOMAIN series' \ {k} : j \in DOMAIN series /\ series'[j] = series[j]
    BY <2>1
  <2>3. StoresOne(start)
    BY <1>4, <2>2 DEF StoresOne
  <2>. QED
    BY <2>3 DEF start
<1>. QED
  BY <1>3, <1>5, <1>6

LEMMA MergeStores ==
  ASSUME TypeOK, cfg \in Configs, Stored, ~initialized => DOMAIN series = {}, NEW in \in Inputs,
         in.obs.kind = "envelope", MergeInto(in, cfg)
  PROVE  StoresOne(OpenStart(in.obs.ts, cfg))
<1> DEFINE start == OpenStart(in.obs.ts, cfg)
           k == KeyOf(in, cfg)
           b == IF k \in DOMAIN series THEN series[k]
                ELSE NewEntry(in.obs.res, in.obs.labels, in.obs.ts)
           e == IF in.obs.good THEN Absorb(b, in, in.obs.count) ELSE b
<1>1. start \in Nat /\ in.obs.ts \in Nat /\ in.obs.count \in Nat
  BY InputFields, ConfigFields, BucketType DEF OpenStart, TypeOK
<1>2. \A j \in DOMAIN series : KeyAt(cfg, series[j]) = j /\ EntryOK(cfg, series[j], start)
  BY StoredOpen
<1>3. b \in Entries /\ KeyAt(cfg, b) = k /\ EntryOK(cfg, b, start)
  <2>1. CASE k \in DOMAIN series
    BY <1>2, <2>1 DEF TypeOK
  <2>2. CASE k \notin DOMAIN series
    <3>1. NewEntry(in.obs.res, in.obs.labels, in.obs.ts) \in Entries
      BY InputFields, NewEntryType
    <3>. QED
      BY <2>2, <3>1, NewEntryOK DEF KeyOf
  <2>. QED
    BY <2>1, <2>2
<1>4. /\ Absorb(b, in, in.obs.count) \in Entries
      /\ KeyAt(cfg, Absorb(b, in, in.obs.count)) = k
      /\ EntryOK(cfg, Absorb(b, in, in.obs.count), start)
  <2>. HIDE DEF start, b
  <2>. QED BY <1>1, <1>3, AbsorbOK, AbsorbType
<1>5. series' = Put(k, e)
  BY DEF MergeInto
<1>6. e \in Entries /\ KeyAt(cfg, e) = k /\ EntryOK(cfg, e, start)
  BY <1>3, <1>4
<1>. HIDE DEF start, k, e
<1>7. StoresOne(start)
  BY <1>5, <1>6, StoresPut
<1>. QED
  BY <1>7 DEF start

LEMMA AbsorbingSeries ==
  ASSUME SInv, FixedConfig, cfg' = cfg, NEW th \in Threads, Observe(th) \/ MergeEnvelope(th)
  PROVE  Stored'
<1> DEFINE in == call[th].input
<1>1. /\ TypeOK /\ cfg \in Configs /\ in \in Inputs /\ call[th].cfg = cfg
      /\ Stored /\ (~initialized => DOMAIN series = {})
  BY CallFields DEF SInv, FixedInv, FixedConfig, TypeOK, Steady, Observe, MergeEnvelope
<1>2. CASE UNCHANGED windowVars
  BY <1>1, <1>2 DEF windowVars, Stored
<1>3. ASSUME InitWindow(in.obs.ts, cfg), StoresOne(OpenStart(in.obs.ts, cfg))
      PROVE  Stored'
  <2>1. activeStart' = OpenStart(in.obs.ts, cfg)
    BY <1>3 DEF InitWindow
  <2>2. \A k \in DOMAIN series : KeyAt(cfg, series[k]) = k /\ EntryOK(cfg, series[k], activeStart')
    BY <1>1, <2>1, StoredOpen
  <2>. QED
    BY <1>3, <2>1, <2>2 DEF StoresOne, Stored
<1>4. \/ InitWindow(in.obs.ts, cfg) /\ StoresOne(OpenStart(in.obs.ts, cfg))
      \/ UNCHANGED windowVars
  <2>1. CASE Observe(th)
    <3>1. \/ UNCHANGED windowVars
          \/ ObserveLate(in, cfg) \/ ObserveOverflow(in, cfg)
          \/ ObserveKnown(in, cfg) \/ ObserveNew(in, cfg) \/ ObserveEvicting(in, cfg)
      BY <1>1, <2>1 DEF Observe
    <3>2. CASE ObserveLate(in, cfg) \/ ObserveOverflow(in, cfg)
      BY <3>2 DEF ObserveLate, ObserveOverflow, StoresOne
    <3>3. CASE ObserveKnown(in, cfg) \/ ObserveNew(in, cfg) \/ ObserveEvicting(in, cfg)
      <4>1. InitWindow(in.obs.ts, cfg)
        BY <3>3 DEF ObserveKnown, ObserveNew, ObserveEvicting
      <4>2. StoresOne(OpenStart(in.obs.ts, cfg))
        BY <1>1, <3>3, ObserveStores
      <4>. QED
        BY <4>1, <4>2
    <3>. QED
      BY <3>1, <3>2, <3>3
  <2>2. CASE MergeEnvelope(th)
    <3>1. in.obs.kind = "envelope"
      BY <2>2 DEF MergeEnvelope, SInv, Merging
    <3>2. MergeInto(in, cfg) \/ MergeOverflow(in, cfg)
      BY <1>1, <2>2 DEF MergeEnvelope
    <3>3. CASE MergeOverflow(in, cfg)
      BY <3>3 DEF MergeOverflow, StoresOne
    <3>4. CASE MergeInto(in, cfg)
      <4>1. InitWindow(in.obs.ts, cfg)
        BY <3>4 DEF MergeInto
      <4>. QED
        BY <1>1, <3>1, <3>4, <4>1, MergeStores
    <3>. QED
      BY <3>2, <3>3, <3>4
  <2>. QED
    BY <2>1, <2>2
<1>. QED
  BY <1>2, <1>3, <1>4

-----------------------------------------------------------------------------
(* Closing, serialising, returning.                                        *)

\* The range that is closed is that of no window closed before.
LEMMA NewRange ==
  ASSUME FixedInv, FixedConfig, cfg.size > 0, initialized
  PROVE  ActiveRange \notin ClosedRanges
<1>1. cfg.size \in Nat /\ activeStart \in Nat /\ activeEnd = activeStart + cfg.size
  BY ConfigFields DEF FixedInv, FixedConfig, GridInv, OnGrid, TypeOK
<1>2. \A r \in ClosedRanges : r[2] <= activeStart
  BY DEF FixedInv, GridInv
<1>. QED
  BY <1>1, <1>2 DEF ActiveRange

LEMMA RotatingSeries ==
  ASSUME SInv, FixedConfig, cfg' = cfg, NEW th \in Threads, Rotate(th) \/ Drain(th)
  PROVE  Stored' /\ AllHanded' /\ Sent' /\ (cfg.size > 0 => Apart')
<1>1. TypeOK /\ Stored /\ AllHanded /\ Sent /\ (cfg.size > 0 => Apart) /\ emitted' = emitted
  BY DEF SInv, FixedInv, Rotate, Drain
<1>2. CASE Go(th, Idle) /\ UNCHANGED <<windowVars, accepted, discarded>>
  <2>1. Stored'
    BY <1>1, <1>2 DEF Stored, windowVars
  <2>2. AllHanded' /\ Sent' /\ (Apart => Apart')
    <3>1. Idle.at \notin {"serialize", "publish"}
      BY DEF Idle
    <3>. HIDE DEF Idle
    <3>. QED BY <1>1, <1>2, <3>1, GoKeeps
  <2>. QED
    BY <1>1, <2>1, <2>2
<1>3. ASSUME NEW now, initialized, RotateWindow(now, call[th].cfg), HandOver(th, now)
      PROVE  Stored' /\ AllHanded' /\ Sent' /\ (cfg.size > 0 => Apart')
  <2>1. series' = <<>>
    BY <1>3 DEF RotateWindow
  <2>2. Stored'
    BY <2>1, EmptySeries DEF Stored
  <2>3. PICK x : /\ Go(th, x)
                 /\ \/ x = Idle
                    \/ x = [at |-> "serialize", now |-> now, range |-> ActiveRange,
                            entries |-> ActiveEntries]
    BY <1>3 DEF HandOver
  <2>4. call'[th] = x /\ \A t \in Threads \ {th} : call'[t] = call[t]
    BY <1>1, <2>3, GoEffect
  <2>5. Handed(th)'
    <3>1. CASE x = Idle
      BY <2>4, <3>1 DEF Handed, Idle
    <3>2. CASE x = [at |-> "serialize", now |-> now, range |-> ActiveRange, entries |-> ActiveEntries]
      <4>1. call'[th].at = "serialize" /\ call'[th].range[1] = activeStart
            /\ call'[th].entries = ActiveEntries
        BY <2>4, <3>2 DEF ActiveRange
      <4>2. \A e \in ActiveEntries : EntryOK(cfg, e, activeStart)
        BY <1>1 DEF Stored, ActiveEntries
      <4>3. \A e, f \in ActiveEntries : KeyAt(cfg, e) = KeyAt(cfg, f) => e = f
        BY <1>1 DEF Stored, ActiveEntries
      <4>. QED
        BY <4>1, <4>2, <4>3 DEF Handed
    <3>. QED
      BY <2>3, <3>1, <3>2
  <2>6. AllHanded' /\ Sent'
    BY <1>1, <2>4, <2>5 DEF AllHanded, Handed, Sent
  <2>7. ASSUME cfg.size > 0
        PROVE  Apart'
    <3>1. ActiveRange \notin ClosedRanges
      BY <1>3, <2>7, NewRange DEF SInv
    <3>2. RangesOf(th)' \subseteq {ActiveRange}
      BY <2>3, <2>4 DEF RangesOf, Idle
    <3>3. \A t \in Threads \ {th} : RangesOf(t)' = RangesOf(t) /\ ActiveRange \notin RangesOf(t)
      BY <2>4, <3>1, RangesSplit DEF RangesOf
    <3>4. ActiveRange \notin EmittedRanges /\ EmittedRanges' = EmittedRanges
      BY <1>1, <3>1, RangesSplit DEF EmittedRanges
    <3>. QED
      BY <1>1, <2>7, <3>2, <3>3, <3>4 DEF Apart
  <2>. QED
    BY <2>2, <2>6, <2>7
<1>4. \/ Go(th, Idle) /\ UNCHANGED <<windowVars, accepted, discarded>>
      \/ \E now : initialized /\ RotateWindow(now, call[th].cfg) /\ HandOver(th, now)
  BY DEF Rotate, Drain, RotationDue, DrainDue
<1>. QED
  BY <1>2, <1>3, <1>4

LEMMA SerializingSeries ==
  ASSUME SInv, FixedConfig, cfg' = cfg, NEW th \in Threads, Serialize(th)
  PROVE  Stored' /\ AllHanded' /\ Sent' /\ (cfg.size > 0 => Apart')
<1> DEFINE range == call[th].range
<1>1. TypeOK /\ Stored /\ AllHanded /\ Sent /\ (cfg.size > 0 => Apart)
      /\ UNCHANGED <<emitted, series, activeStart>>
  BY DEF SInv, FixedInv, Serialize, windowVars
<1>2. PICK sent \in SUBSET call[th].entries : \E rows :
        Go(th, [at    |-> "publish", now |-> call[th].now,
                batch |-> {Envelope(e, cfg, range) : e \in sent}, rows |-> rows])
  BY DEF Serialize
<1>3. /\ call'[th].at = "publish" /\ call'[th].batch = {Envelope(e, cfg, range) : e \in sent}
      /\ \A t \in Threads \ {th} : call'[t] = call[t]
  BY <1>1, <1>2, GoEffect
<1>4. /\ \A e \in sent : EntryOK(cfg, e, range[1])
      /\ \A e, f \in sent : KeyAt(cfg, e) = KeyAt(cfg, f) => e = f
  BY <1>1 DEF AllHanded, Handed, Serialize
<1>5. \A v \in call'[th].batch : EnvelopeOK(cfg, v) /\ v.range = range
  <2>1. \A e \in sent : EnvelopeOK(cfg, Envelope(e, cfg, range))
    BY <1>4, EnvelopeOfEntry
  <2>2. \A e \in sent : Envelope(e, cfg, range).range = range
    BY DEF Envelope
  <2>. QED
    BY <1>3, <2>1, <2>2
<1>6. OnePerSeries(call'[th].batch)
  <2>1. ASSUME NEW e \in sent, NEW f \in sent,
               Envelope(e, cfg, range).res = Envelope(f, cfg, range).res,
               Envelope(e, cfg, range).labels = Envelope(f, cfg, range).labels
        PROVE  Envelope(e, cfg, range) = Envelope(f, cfg, range)
    <3>1. KeyAt(cfg, e) = KeyAt(cfg, f)
      BY <2>1, SameEnvelopeSeries
    <3>. QED
      BY <1>4, <3>1
  <2>. QED
    BY <1>3, <2>1 DEF OnePerSeries
<1>7. AllHanded' /\ Sent' /\ Stored'
  BY <1>1, <1>3, <1>5, <1>6 DEF AllHanded, Handed, Sent, Stored
<1>8. ASSUME cfg.size > 0
      PROVE  Apart'
  <2>1. RangesOf(th)' \subseteq RangesOf(th)
    BY <1>3, <1>5 DEF RangesOf, Serialize
  <2>2. \A t \in Threads \ {th} : RangesOf(t)' = RangesOf(t)
    BY <1>3 DEF RangesOf
  <2>3. EmittedRanges' = EmittedRanges
    BY <1>1 DEF EmittedRanges
  <2>4. \A t, u \in Threads : t # u => RangesOf(t)' \cap RangesOf(u)' = {}
    BY <1>1, <1>8, <2>1, <2>2 DEF Apart
  <2>5. \A t \in Threads : RangesOf(t)' \cap EmittedRanges' = {}
    BY <1>1, <1>8, <2>1, <2>2, <2>3 DEF Apart
  <2>. QED
    BY <1>1, <1>8, <2>4, <2>5 DEF Apart
<1>. QED
  BY <1>7, <1>8

LEMMA PublishingSeries ==
  ASSUME SInv, FixedConfig, cfg' = cfg, NEW th \in Threads, Publish(th)
  PROVE  Stored' /\ AllHanded' /\ Sent' /\ (cfg.size > 0 => Apart')
<1>1. TypeOK /\ Stored /\ AllHanded /\ Sent /\ (cfg.size > 0 => Apart)
      /\ UNCHANGED <<series, activeStart>>
  BY DEF SInv, FixedInv, Publish, windowVars
<1>2. /\ call'[th] = Idle /\ \A t \in Threads \ {th} : call'[t] = call[t]
      /\ emitted' = emitted \cup call[th].batch /\ call[th].at = "publish"
  BY <1>1, GoEffect DEF Publish
<1>3. OnePerSeries(call[th].batch) /\ \A v \in call[th].batch : EnvelopeOK(cfg, v)
  BY <1>1, <1>2 DEF AllHanded, Handed
<1>4. AllHanded' /\ Sent' /\ Stored'
  <2>1. Handed(th)'
    BY <1>2 DEF Handed, Idle
  <2>. QED
    BY <1>1, <1>2, <1>3, <2>1 DEF AllHanded, Handed, Sent, Stored
<1>5. ASSUME cfg.size > 0
      PROVE  Apart'
  <2>1. RangesOf(th) = {e.range : e \in call[th].batch} /\ RangesOf(th)' = {}
    BY <1>2 DEF RangesOf, Idle
  <2>2. \A t \in Threads \ {th} : RangesOf(t)' = RangesOf(t)
    BY <1>2 DEF RangesOf
  <2>3. EmittedRanges' = EmittedRanges \cup RangesOf(th)
    BY <1>2, <2>1 DEF EmittedRanges
  <2>4. OnePerSeries(emitted')
    <3>1. \A v \in emitted, w \in call[th].batch : v.range # w.range
      BY <1>1, <1>5, <2>1 DEF Apart, EmittedRanges
    <3>. QED
      BY <1>1, <1>2, <1>3, <1>5, <3>1 DEF OnePerSeries, Apart
  <2>5. \A t, u \in Threads : t # u => RangesOf(t)' \cap RangesOf(u)' = {}
    BY <1>1, <1>5, <2>1, <2>2 DEF Apart
  <2>6. \A t \in Threads : RangesOf(t)' \cap EmittedRanges' = {}
    BY <1>1, <1>5, <2>1, <2>2, <2>3 DEF Apart
  <2>. QED
    BY <2>4, <2>5, <2>6 DEF Apart
<1>. QED
  BY <1>4, <1>5

-----------------------------------------------------------------------------
(* Every step.                                                             *)

LEMMA MovingSeries ==
  ASSUME SInv, FixedConfig, cfg' = cfg, NEW th \in Threads,
         \/ BeginObserve(th) \/ CountEnvelope(th) \/ BeginObserveEnvelope(th) \/ AdmitEnvelope(th)
         \/ BeginDrain(th) \/ \E now \in Times : BeginTick(th, now)
  PROVE  Stored' /\ AllHanded' /\ Sent' /\ (cfg.size > 0 => Apart')
<1>1. TypeOK /\ Stored /\ AllHanded /\ Sent /\ (cfg.size > 0 => Apart)
  BY DEF SInv, FixedInv
<1>2. UNCHANGED <<series, activeStart, emitted>>
  BY DEF BeginObserve, CountEnvelope, BeginObserveEnvelope, AdmitEnvelope, BeginDrain, BeginTick,
         windowVars
<1>3. PICK x : Go(th, x) /\ x.at \notin {"serialize", "publish"}
  BY <1>1, MovesOn
<1>4. AllHanded' /\ Sent' /\ (Apart => Apart')
  BY <1>1, <1>2, <1>3, GoKeeps
<1>. QED
  BY <1>1, <1>2, <1>4 DEF Stored

LEMMA MergingStep ==
  ASSUME TypeOK, Merging, NEW th \in Threads, CallStep(th)
  PROVE  Merging'
<1>1. \E x : Go(th, x) /\ (x.at \in {"count", "admit", "merge"} => x.input.obs.kind = "envelope")
  <2>1. CASE BeginObserve(th)
    <3>1. PICK o \in Offered :
            Go(th, [at    |-> IF o.kind = "scalar" THEN "observe" ELSE "count",
                    input |-> [id |-> offered + 1, obs |-> o], cfg |-> cfg])
      BY <2>1 DEF BeginObserve
    <3>2. o.kind \in {"scalar", "envelope"}
      BY ConstantsAssumption DEF ObservationType
    <3>. QED
      BY <3>1, <3>2
  <2>2. CASE CountEnvelope(th)
    BY <2>2 DEF CountEnvelope, Merging
  <2>3. CASE BeginObserveEnvelope(th)
    BY <2>3 DEF BeginObserveEnvelope
  <2>4. CASE AdmitEnvelope(th)
    BY <2>4 DEF AdmitEnvelope, Idle, Merging
  <2>5. CASE Observe(th) \/ MergeEnvelope(th) \/ Publish(th)
    BY <2>5 DEF Observe, MergeEnvelope, Publish, Idle
  <2>6. CASE BeginDrain(th)
    BY <2>6 DEF BeginDrain
  <2>7. ASSUME NEW now \in Times, BeginTick(th, now)
        PROVE  \E x : /\ Go(th, x)
                      /\ x.at \in {"count", "admit", "merge"} => x.input.obs.kind = "envelope"
    BY <2>7 DEF BeginTick
  <2>8. CASE Rotate(th) \/ Drain(th)
    BY <2>8 DEF Rotate, Drain, HandOver, Idle
  <2>9. CASE Serialize(th)
    BY <2>9 DEF Serialize
  <2>. QED
    BY <2>1, <2>2, <2>3, <2>4, <2>5, <2>6, <2>7, <2>8, <2>9 DEF CallStep
<1>. QED
  BY <1>1, MergingGo

\* Before the first input there is no series.
LEMMA UnsetStep ==
  ASSUME ~initialized => DOMAIN series = {}, NEW th \in Threads, CallStep(th), ~initialized'
  PROVE  DOMAIN series' = {}
<1>1. \/ UNCHANGED windowVars
      \/ \E ref, c : InitWindow(ref, c)
      \/ \E now, c : RotateWindow(now, c)
  BY DEF CallStep, BeginObserve, Observe, CountEnvelope, BeginObserveEnvelope, AdmitEnvelope,
         MergeEnvelope, BeginTick, BeginDrain, Rotate, Drain, Serialize, Publish,
         ObserveLate, ObserveKnown, ObserveNew, ObserveEvicting, ObserveOverflow,
         MergeInto, MergeOverflow
<1>2. CASE UNCHANGED windowVars
  BY <1>2 DEF windowVars
<1>3. CASE \E ref, c : InitWindow(ref, c)
  BY <1>3 DEF InitWindow
<1>4. CASE \E now, c : RotateWindow(now, c)
  BY <1>4, EmptySeries DEF RotateWindow
<1>. QED
  BY <1>1, <1>2, <1>3, <1>4

LEMMA SeriesStep ==
  ASSUME SInv, [Next]_vars
  PROVE  SInv'
<1>1. FixedInv'
  BY FixedStep DEF SInv
<1>2. TypeOK
  BY DEF SInv, FixedInv
<1>3. ASSUME NEW th \in Threads, CallStep(th)
      PROVE  SInv'
  <2>1. Merging' /\ (~initialized' => DOMAIN series' = {})
    BY <1>2, <1>3, MergingStep, UnsetStep DEF SInv
  <2>2. ASSUME FixedConfig'
        PROVE  Stored' /\ AllHanded' /\ Sent' /\ (cfg'.size > 0 => Apart')
    <3>1. FixedConfig /\ cfg' = cfg
      BY <1>2, <2>2, FixedStays
    <3>2. CASE Observe(th) \/ MergeEnvelope(th)
      <4>1. Stored'
        BY <3>1, <3>2, AbsorbingSeries
      <4>2. Go(th, Idle) /\ emitted' = emitted
        BY <3>2 DEF Observe, MergeEnvelope
      <4>3. AllHanded /\ Sent /\ (cfg.size > 0 => Apart)
        BY <3>1 DEF SInv
      <4>4. AllHanded' /\ Sent' /\ (Apart => Apart')
        <5>1. Idle.at \notin {"serialize", "publish"}
          BY DEF Idle
        <5>. HIDE DEF Idle
        <5>. QED BY <1>2, <3>1, <4>2, <4>3, <5>1, GoKeeps
      <4>. QED
        BY <3>1, <4>1, <4>3, <4>4
    <3>3. Stored' /\ AllHanded' /\ Sent' /\ (cfg.size > 0 => Apart')
      BY <1>3, <3>1, <3>2, MovingSeries, RotatingSeries, SerializingSeries, PublishingSeries
         DEF CallStep
    <3>. QED
      BY <3>1, <3>3
  <2>. QED
    BY <1>1, <2>1, <2>2 DEF SInv
<1>4. CASE UpdateConfig \/ Shutdown \/ UNCHANGED vars
  <2>1. UNCHANGED <<series, activeStart, initialized, call, emitted>>
    BY <1>4 DEF UpdateConfig, Shutdown, vars, windowVars
  <2>2. FixedConfig' => FixedConfig /\ cfg' = cfg
    BY <1>2, FixedStays
  <2>3. Merging' /\ (~initialized' => DOMAIN series' = {})
    BY <2>1 DEF SInv, Merging
  <2>4. ASSUME FixedConfig'
        PROVE  Stored' /\ AllHanded' /\ Sent' /\ (cfg'.size > 0 => Apart')
    <3>1. Stored /\ AllHanded /\ Sent /\ (cfg.size > 0 => Apart) /\ cfg' = cfg
      BY <2>2, <2>4 DEF SInv
    <3>. QED
      BY <2>1, <3>1 DEF Stored, AllHanded, Handed, Sent, Apart, RangesOf, EmittedRanges
  <2>. QED
    BY <1>1, <2>3, <2>4 DEF SInv
<1>. QED
  BY <1>3, <1>4 DEF Next

LEMMA SeriesInit == Init => SInv
<1>. SUFFICES ASSUME Init PROVE SInv
  OBVIOUS
<1>1. FixedInv
  BY FixedInit
<1>2. /\ DOMAIN series = {} /\ emitted = {} /\ \A th \in Threads : call[th].at = "idle"
  BY EmptySeries DEF Init, WindowInit, Idle
<1>3. \A th \in Threads : RangesOf(th) = {}
  BY <1>2 DEF RangesOf
<1>. QED
  BY <1>1, <1>2, <1>3 DEF SInv, Merging, Stored, AllHanded, Handed, Sent, Apart, OnePerSeries

LEMMA SeriesAlways == Spec => []SInv
  BY SeriesInit, SeriesStep, PTL DEF Spec

\* Two series never share a sketch: the inputs of an envelope have its resource
\* and its labels, whether they came as scalars or as envelopes.
THEOREM Pure == Spec => []SeriesPure
<1>1. SInv => SeriesPure
  BY DEF SInv, Sent, EnvelopeOK, SeriesPure
<1>. QED
  BY <1>1, SeriesAlways, PTL

\* No scalar is in a window that starts more than the allowed lateness after it,
\* although the window may rotate between the read of the configuration and the
\* lock of the state.
THEOREM Punctual == Spec => []LatenessHonoured
<1>1. SInv => LatenessHonoured
  BY DEF SInv, Sent, EnvelopeOK, InTime, LatenessHonoured
<1>. QED
  BY <1>1, SeriesAlways, PTL

\* A window gives one envelope per series.
THEOREM OnePerWindow == Spec => []OneEnvelopePerSeries
<1>1. SInv => OneEnvelopePerSeries
  BY DEF SInv, Apart, OnePerSeries, OneEnvelopePerSeries
<1>. QED
  BY <1>1, SeriesAlways, PTL

-----------------------------------------------------------------------------
(* The cap on series.                                                      *)

\* One series more, or another in the place of one.
LEMMA OneMore ==
  ASSUME NEW S, IsFiniteSet(S), NEW k, k \notin S
  PROVE  IsFiniteSet(S \cup {k}) /\ Cardinality(S) \in Nat
         /\ Cardinality(S \cup {k}) = Cardinality(S) + 1
  BY FS_AddElement, FS_CardinalityType

LEMMA Replaced ==
  ASSUME NEW S, IsFiniteSet(S), NEW old \in S, NEW k, k \notin S
  PROVE  Cardinality((S \ {old}) \cup {k}) = Cardinality(S)
<1>1. IsFiniteSet(S \ {old}) /\ Cardinality(S \ {old}) = Cardinality(S) - 1
  BY FS_RemoveElement
<1>2. k \notin S \ {old} /\ Cardinality(S) \in Nat
  BY FS_CardinalityType
<1>3. Cardinality((S \ {old}) \cup {k}) = Cardinality(S \ {old}) + 1
  BY <1>1, <1>2, OneMore
<1>. QED
  BY <1>1, <1>2, <1>3

CapInv == FixedInv /\ CapHonoured

LEMMA FixedObserve ==
  ASSUME FixedInv, FixedConfig, NEW th \in Threads, Observe(th) \/ MergeEnvelope(th)
  PROVE  /\ TypeOK /\ cfg \in Configs /\ call[th].cfg = cfg
         /\ IsFiniteSet(DOMAIN series) /\ Cardinality(DOMAIN series) \in Nat
         /\ cfg.maxSeries \in Nat
  BY FS_CardinalityType, ConfigFields
     DEF FixedInv, FixedConfig, Steady, TypeOK, Observe, MergeEnvelope

LEMMA CapObserve ==
  ASSUME CapInv, FixedConfig, cfg' = cfg, NEW th \in Threads, Observe(th)
  PROVE  CapHonoured'
<1> DEFINE in == call[th].input
           k == KeyOf(in, cfg)
<1>1. /\ TypeOK /\ cfg \in Configs /\ call[th].cfg = cfg
      /\ IsFiniteSet(DOMAIN series) /\ Cardinality(DOMAIN series) \in Nat
      /\ cfg.maxSeries \in Nat
  BY FixedObserve DEF CapInv
<1>2. counters'["input_envelopes"] = counters["input_envelopes"]
  BY <1>1 DEF Observe, Bump, Counters, TypeOK
<1>3. ASSUME cfg.maxSeries > 0, Cardinality(DOMAIN series) <= cfg.maxSeries
      PROVE  Cardinality(DOMAIN series') <= cfg.maxSeries
  <2>1. CASE \/ UNCHANGED windowVars \/ ObserveLate(in, cfg) \/ ObserveOverflow(in, cfg)
    BY <1>3, <2>1 DEF windowVars, ObserveLate, ObserveOverflow
  <2>2. CASE ObserveKnown(in, cfg)
    <3>1. DOMAIN series' = DOMAIN series
      BY <2>2 DEF ObserveKnown, Put
    <3>. QED
      BY <1>3, <3>1
  <2>3. CASE ObserveNew(in, cfg)
    <3>1. DOMAIN series' = DOMAIN series \cup {k} /\ k \notin DOMAIN series
      BY <2>3 DEF ObserveNew, Put
    <3>2. Cardinality(DOMAIN series) < cfg.maxSeries
      BY <1>1, <1>3, <2>3 DEF ObserveNew, AtCap
    <3>3. Cardinality(DOMAIN series') = Cardinality(DOMAIN series) + 1
      <4>. HIDE DEF k
      <4>. QED BY <1>1, <3>1, OneMore
    <3>. QED
      BY <1>1, <3>2, <3>3
  <2>4. CASE ObserveEvicting(in, cfg)
    <3>1. PICK old \in Oldest : DOMAIN series' = (DOMAIN series \ {old}) \cup {k}
      BY <2>4 DEF ObserveEvicting
    <3>2. old \in DOMAIN series /\ k \notin DOMAIN series
      BY <2>4 DEF Oldest, ObserveEvicting
    <3>3. Cardinality(DOMAIN series') = Cardinality(DOMAIN series)
      <4>. HIDE DEF k
      <4>. QED BY <1>1, <3>1, <3>2, Replaced
    <3>. QED
      BY <1>3, <3>3
  <2>. QED
    BY <1>1, <2>1, <2>2, <2>3, <2>4 DEF Observe
<1>. QED
  BY <1>1, <1>2, <1>3 DEF CapInv, CapHonoured, FixedConfig

LEMMA CapMerge ==
  ASSUME CapInv, FixedConfig, cfg' = cfg, NEW th \in Threads, MergeEnvelope(th)
  PROVE  CapHonoured'
<1> DEFINE in == call[th].input
           k == KeyOf(in, cfg)
<1>1. /\ TypeOK /\ cfg \in Configs /\ call[th].cfg = cfg
      /\ IsFiniteSet(DOMAIN series) /\ Cardinality(DOMAIN series) \in Nat
      /\ cfg.maxSeries \in Nat
  BY FixedObserve DEF CapInv
<1>2. counters["input_envelopes"] \in Nat
      /\ counters'["input_envelopes"] = counters["input_envelopes"] + 1
  BY <1>1 DEF MergeEnvelope, Bump, Counters, TypeOK
<1>3. CASE cfg.overflow = "EvictOldest"
  <2>1. counters'["input_envelopes"] # 0
    BY <1>2
  <2>. QED
    BY <1>3, <2>1 DEF CapHonoured
<1>4. ASSUME cfg.overflow # "EvictOldest", cfg.maxSeries > 0,
             Cardinality(DOMAIN series) <= cfg.maxSeries
      PROVE  Cardinality(DOMAIN series') <= cfg.maxSeries
  <2>1. MergeInto(in, cfg) \/ MergeOverflow(in, cfg)
    BY <1>1 DEF MergeEnvelope
  <2>2. CASE MergeOverflow(in, cfg)
    BY <1>4, <2>2 DEF MergeOverflow
  <2>3. CASE MergeInto(in, cfg)
    <3>1. DOMAIN series' = DOMAIN series \cup {k} /\ (k \in DOMAIN series \/ ~AtCap(cfg))
      BY <1>4, <2>3 DEF MergeInto, Put
    <3>2. CASE k \in DOMAIN series
      <4>1. DOMAIN series' = DOMAIN series
        BY <3>1, <3>2
      <4>. QED
        BY <1>4, <4>1
    <3>3. CASE k \notin DOMAIN series
      <4>1. Cardinality(DOMAIN series) < cfg.maxSeries
        BY <1>1, <1>4, <3>1, <3>3 DEF AtCap
      <4>2. Cardinality(DOMAIN series') = Cardinality(DOMAIN series) + 1
        <5>. HIDE DEF k
        <5>. QED BY <1>1, <3>1, <3>3, OneMore
      <4>. QED
        BY <1>1, <4>1, <4>2
    <3>. QED
      BY <3>2, <3>3
  <2>. QED
    BY <2>1, <2>2, <2>3
<1>5. CASE cfg.overflow # "EvictOldest"
  BY <1>4, <1>5 DEF CapInv, CapHonoured, FixedConfig
<1>. QED
  BY <1>3, <1>5

LEMMA CapStep ==
  ASSUME CapInv, [Next]_vars
  PROVE  CapInv'
<1>1. FixedInv' /\ TypeOK
  BY FixedStep DEF CapInv, FixedInv
<1>2. ASSUME FixedConfig'
      PROVE  CapHonoured'
  <2>1. FixedConfig /\ cfg' = cfg
    BY <1>1, <1>2, FixedStays
  <2>2. ASSUME NEW th \in Threads, CallStep(th)
        PROVE  CapHonoured'
    <3>1. CASE Observe(th) \/ MergeEnvelope(th)
      BY <2>1, <3>1, CapObserve, CapMerge
    <3>2. CASE Rotate(th) \/ Drain(th)
      <4>1. counters' = counters /\ (series' = series \/ series' = <<>>)
        BY <3>2 DEF Rotate, Drain, RotateWindow, windowVars
      <4>2. series' = <<>> => Cardinality(DOMAIN series') = 0
        BY EmptySeries, FS_EmptySet
      <4>3. cfg.maxSeries \in Nat
        BY <1>1, <2>1, ConfigFields DEF FixedConfig, TypeOK
      <4>. QED
        BY <2>1, <4>1, <4>2, <4>3 DEF CapInv, CapHonoured, FixedConfig
    <3>3. CASE \/ BeginObserve(th) \/ CountEnvelope(th) \/ BeginObserveEnvelope(th)
               \/ AdmitEnvelope(th) \/ BeginDrain(th) \/ (\E now \in Times : BeginTick(th, now))
               \/ Serialize(th) \/ Publish(th)
      <4>1. series' = series
        BY <3>3 DEF BeginObserve, CountEnvelope, BeginObserveEnvelope, AdmitEnvelope, BeginDrain,
                    BeginTick, Serialize, Publish, windowVars
      <4>2. counters'["input_envelopes"] = counters["input_envelopes"]
        BY <1>1, <3>3 DEF BeginObserve, CountEnvelope, BeginObserveEnvelope, AdmitEnvelope,
                          BeginDrain, BeginTick, Serialize, Publish, Bump, Counters, TypeOK
      <4>. QED
        BY <2>1, <4>1, <4>2 DEF CapInv, CapHonoured, FixedConfig
    <3>. QED
      BY <2>2, <3>1, <3>2, <3>3 DEF CallStep
  <2>3. CASE UpdateConfig \/ Shutdown \/ UNCHANGED vars
    <3>1. UNCHANGED <<series, counters>>
      BY <2>3 DEF UpdateConfig, Shutdown, vars, windowVars
    <3>. QED
      BY <2>1, <3>1 DEF CapInv, CapHonoured, FixedConfig
  <2>. QED
    BY <2>2, <2>3 DEF Next
<1>3. CapHonoured'
  BY <1>2 DEF CapHonoured
<1>. QED
  BY <1>1, <1>3 DEF CapInv

LEMMA CapInit == Init => CapInv
<1>. SUFFICES ASSUME Init PROVE CapInv
  OBVIOUS
<1>1. Cardinality(DOMAIN series) = 0
  BY EmptySeries, FS_EmptySet DEF Init, WindowInit
<1>2. cfg # NoConfig => cfg.maxSeries \in Nat
  BY TypeInit, ConfigFields DEF TypeOK
<1>. QED
  BY <1>1, <1>2, FixedInit DEF CapInv, CapHonoured, FixedConfig

\* The cap on series holds: always with Drop and Block, and with EvictOldest as
\* long as no envelope was merged.
THEOREM Capped == Spec => []CapHonoured
<1>1. CapInv => CapHonoured
  BY DEF CapInv
<1>. QED
  BY <1>1, CapInit, CapStep, PTL DEF Spec

=============================================================================
