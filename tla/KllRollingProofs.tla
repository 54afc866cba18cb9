-------------------------- MODULE KllRollingProofs --------------------------
(***************************************************************************)
(* The rolling estimator stays within its bounds and emits whole ranges,   *)
(* each later than the last, that take no further scalar.                  *)
(***************************************************************************)
EXTENDS KllRolling, FiniteSetTheorems, TLAPS

-----------------------------------------------------------------------------
(* Panes.                                                                  *)

LEMMA PaneType ==
  ASSUME TypeOK, NEW t \in Nat
  PROVE  Pane(t) \in Nat /\ Pane(t) <= t
<1> cfg.pane \in Nat \ {0}
  BY ConstantsAssumption DEF ConstantsAssumption, ConfigType, TypeOK, Valid
<1> QED
  BY DEF Pane

LEMMA PaneGrows ==
  ASSUME TypeOK, NEW s \in Nat, NEW t \in Nat, s <= t
  PROVE  Pane(s) <= Pane(t)
<1> cfg.pane \in Nat \ {0}
  BY ConstantsAssumption DEF ConstantsAssumption, ConfigType, TypeOK, Valid
<1>1. s \div cfg.pane \in Nat /\ t \div cfg.pane \in Nat /\ s \div cfg.pane <= t \div cfg.pane
  OBVIOUS
<1>2. \A a, b, c \in Nat : a <= b => a * c <= b * c
  OBVIOUS
<1> QED
  BY <1>1, <1>2 DEF Pane

LEMMA CutoffType ==
  ASSUME TypeOK, NEW m \in Nat
  PROVE  /\ Cutoff(m) \in Nat /\ Cutoff(m) <= m
         /\ \A n \in Nat : m <= n => Cutoff(m) <= Cutoff(n)
<1> cfg.retention \in Nat
  BY ConstantsAssumption DEF ConstantsAssumption, ConfigType, TypeOK
<1> QED
  BY DEF Cutoff, Minus

\* The boundaries are fixed points of Pane.
Aligned(t) == Pane(t) = t

LEMMA PaneAligned ==
  ASSUME TypeOK, NEW t \in Nat
  PROVE  Aligned(Pane(t)) /\ Aligned(0)
<1> cfg.pane \in Nat \ {0}
  BY ConstantsAssumption DEF ConstantsAssumption, ConfigType, TypeOK, Valid
<1>1. \A q \in Nat, p \in Nat \ {0} : (q * p) \div p = q
  OBVIOUS
<1>2. t \div cfg.pane \in Nat
  OBVIOUS
<1>3. Aligned(Pane(t))
  BY <1>1, <1>2 DEF Aligned, Pane
<1>4. Aligned(0)
  BY DEF Aligned, Pane
<1> QED
  BY <1>3, <1>4

\* The end of an aligned pane.
LEMMA NextPane ==
  ASSUME TypeOK, NEW t \in Nat, t % cfg.pane = 0
  PROVE  Aligned(t) /\ Aligned(t + cfg.pane)
<1> cfg.pane \in Nat \ {0}
  BY ConstantsAssumption DEF ConstantsAssumption, ConfigType, TypeOK, Valid
<1>1. \A a \in Nat, p \in Nat \ {0} : a = ((a \div p) * p) + (a % p)
  OBVIOUS
<1>2. \A q \in Nat, p \in Nat \ {0} : (q * p) \div p = q
  OBVIOUS
<1>3. t = (t \div cfg.pane) * cfg.pane /\ t \div cfg.pane \in Nat
  <2>1. t = ((t \div cfg.pane) * cfg.pane) + (t % cfg.pane)
    BY <1>1
  <2>2. t \div cfg.pane \in Nat
    OBVIOUS
  <2>3. (t \div cfg.pane) * cfg.pane \in Nat
    BY <2>2
  <2> QED
    BY <2>1, <2>2, <2>3
<1>4. \A q, p \in Nat : (q + 1) * p = (q * p) + p
  OBVIOUS
<1>5. PICK q \in Nat : t + cfg.pane = q * cfg.pane
  <2>1. t + cfg.pane = ((t \div cfg.pane) + 1) * cfg.pane /\ (t \div cfg.pane) + 1 \in Nat
    BY <1>3, <1>4
  <2> QED
    BY <2>1
<1>6. Aligned(t + cfg.pane)
  <2>1. (t + cfg.pane) \div cfg.pane = q
    BY <1>2, <1>5
  <2> QED
    BY <1>5, <2>1 DEF Aligned, Pane
<1> QED
  BY <1>3, <1>6 DEF Aligned, Pane

-----------------------------------------------------------------------------
(* The inductive invariant: what is in the panes that are not expired is     *)
(* held, and what was emitted lies behind the watermark.                     *)

Whole ==
  /\ held \subseteq admitted
  /\ \A in \in admitted : Pane(in.obs.at) >= Cutoff(closedUntil) => in \in held

Behind ==
  /\ Aligned(closedUntil) /\ Aligned(completeUntil)
  /\ \A r \in emitted : r.end <= lastEmit /\ r.end <= closedUntil /\ Aligned(r.end)

RInv ==
  /\ TypeOK /\ IsFiniteSet(held)
  /\ Whole /\ Behind /\ Retained /\ CapHonoured /\ RangesFinal

\* The store after an advance: the watermark moves on along boundaries, and the
\* inputs behind its cutoff are gone.
LEMMA Advances ==
  ASSUME RInv, NEW t \in Nat
  PROVE  /\ Watermark(t) \in Nat /\ Aligned(Watermark(t))
         /\ Watermark(t) >= closedUntil /\ Watermark(t) >= Pane(t)
         /\ Watermark(t) = closedUntil \/ Watermark(t) = Pane(t)
         /\ Unexpired(t) \subseteq held /\ IsFiniteSet(Unexpired(t))
         /\ \A in \in Unexpired(t) :
              Pane(in.obs.at) >= Cutoff(Watermark(t)) /\ Pane(in.obs.at) <= Watermark(t)
         /\ \A in \in admitted :
              Pane(in.obs.at) >= Cutoff(Watermark(t)) => in \in Unexpired(t)
<1> TypeOK /\ closedUntil \in Nat
  BY DEF RInv, TypeOK
<1>1. Pane(t) \in Nat /\ Aligned(Pane(t)) /\ Aligned(closedUntil)
  BY PaneType, PaneAligned DEF RInv, Behind
<1>2. /\ Watermark(t) \in Nat /\ Watermark(t) >= closedUntil /\ Watermark(t) >= Pane(t)
      /\ Watermark(t) = closedUntil \/ Watermark(t) = Pane(t)
  BY <1>1 DEF Watermark, Larger
<1>3. Aligned(Watermark(t))
  BY <1>1, <1>2
<1>4. Unexpired(t) \subseteq held /\ IsFiniteSet(Unexpired(t))
  <2>1. Unexpired(t) \subseteq held
    BY DEF Unexpired
  <2> QED
    BY <2>1, FS_Subset DEF RInv
<1>5. Cutoff(closedUntil) <= Cutoff(Watermark(t))
      /\ Cutoff(closedUntil) \in Nat /\ Cutoff(Watermark(t)) \in Nat
  BY <1>2, CutoffType
<1>6. \A in \in admitted : Pane(in.obs.at) \in Nat
  <2>1. \A in \in admitted : in.obs.at \in Nat
    BY ConstantsAssumption DEF TypeOK, Inputs, ConstantsAssumption, ObservationType
  <2> QED
    BY <2>1, PaneType
<1>7. ASSUME NEW in \in admitted, Pane(in.obs.at) >= Cutoff(Watermark(t))
      PROVE  in \in Unexpired(t)
  <2>1. Pane(in.obs.at) >= Cutoff(closedUntil)
    BY <1>5, <1>6, <1>7
  <2>2. in \in held
    BY <2>1 DEF RInv, Whole
  <2> QED
    BY <1>7, <2>2 DEF Unexpired
<1>8. ASSUME NEW in \in Unexpired(t)
      PROVE  Pane(in.obs.at) >= Cutoff(Watermark(t)) /\ Pane(in.obs.at) <= Watermark(t)
  <2>1. in \in held /\ in \in admitted /\ Pane(in.obs.at) >= Cutoff(Watermark(t))
    BY DEF Unexpired, RInv, Whole
  <2>2. Pane(in.obs.at) <= closedUntil
    BY <2>1 DEF RInv, Retained
  <2> QED
    BY <1>2, <1>6, <2>1, <2>2
<1> QED
  BY <1>2, <1>3, <1>4, <1>7, <1>8

-----------------------------------------------------------------------------
(* Types.                                                                  *)

LEMMA InputType ==
  ASSUME NEW in \in Inputs
  PROVE  /\ in.id \in Nat /\ in.obs.at \in Nat /\ in.obs.width \in Nat
         /\ in.obs \in Offered
<1>1. in.obs \in Offered /\ in.obs \in ObservationType
  BY ConstantsAssumption DEF ConstantsAssumption, Inputs
<1> QED
  BY <1>1 DEF ObservationType, Inputs

LEMMA AbsorbTypes ==
  ASSUME TypeOK, NEW in \in Inputs, NEW t \in Nat, Absorb(in, t)
  PROVE  /\ closedUntil' \in Nat
         /\ {held', admitted', overflowed'} \subseteq SUBSET Inputs
<1>1. Watermark(t) \in Nat
  BY PaneType DEF Watermark, Larger, TypeOK
<1>2. Unexpired(t) \subseteq Inputs
  BY DEF Unexpired, TypeOK
<1> QED
  BY <1>1, <1>2 DEF Absorb, TypeOK

LEMMA BoundaryType ==
  ASSUME TypeOK, NEW now \in Nat
  PROVE  Boundary(now) \in Nat
BY PaneType DEF Boundary, Smaller, TypeOK

LEMMA TypeStep == TypeOK /\ [Next]_vars => TypeOK'
<1> SUFFICES ASSUME TypeOK, [Next]_vars
             PROVE  TypeOK'
  OBVIOUS
<1>1. ASSUME NEW in \in Inputs, Observe(in)
      PROVE  TypeOK'
  <2>1. CASE Late(in)
    BY <1>1, <2>1, InputType DEF Observe, Offer, TypeOK, store
  <2>2. CASE ~Late(in)
    <3>1. Absorb(in, in.obs.at) /\ in.obs.at \in Nat
      BY <1>1, <2>2, InputType DEF Observe
    <3>2. closedUntil' \in Nat /\ {held', admitted', overflowed'} \subseteq SUBSET Inputs
      BY <3>1, AbsorbTypes
    <3> QED
      BY <1>1, <2>2, <3>2, InputType DEF Observe, Offer, TypeOK
  <2> QED
    BY <2>1, <2>2
<1>2. ASSUME NEW in \in Inputs, ObserveEnvelope(in)
      PROVE  TypeOK'
  <2>1. CASE Misfit(in.obs) \/ Late(in)
    BY <1>2, <2>1, InputType DEF ObserveEnvelope, Offer, TypeOK, store
  <2>2. CASE ~Misfit(in.obs) /\ ~Late(in)
    <3>1. Absorb(in, in.obs.at + in.obs.width) /\ in.obs.at + in.obs.width \in Nat
      BY <1>2, <2>2, InputType DEF ObserveEnvelope
    <3>2. closedUntil' \in Nat /\ {held', admitted', overflowed'} \subseteq SUBSET Inputs
      BY <3>1, AbsorbTypes
    <3>3. completeUntil' \in Nat
      BY <1>2, <2>2, <3>1 DEF ObserveEnvelope, Larger, TypeOK
    <3> QED
      BY <1>2, <2>2, <3>2, <3>3, InputType DEF ObserveEnvelope, Offer, TypeOK
  <2> QED
    BY <2>1, <2>2
<1>3. ASSUME NEW now \in Times, Tick(now)
      PROVE  TypeOK'
  <2> DEFINE end == Boundary(now)
             start == Minus(end, cfg.retention)
             found == InRange(held', start, end)
  <2>1. now \in Nat
    BY ConstantsAssumption DEF ConstantsAssumption
  <2>2. end \in Nat /\ start \in Nat
    <3>1. cfg.retention \in Nat
      BY ConstantsAssumption DEF ConstantsAssumption, ConfigType, TypeOK
    <3> QED
      BY <2>1, <3>1, BoundaryType DEF Minus
  <2>3. closedUntil' \in Nat /\ held' \subseteq Inputs
    BY <1>3, <2>1, PaneType DEF Tick, Watermark, Larger, Unexpired, TypeOK, store
  <2>4. found \subseteq Inputs
    BY <2>3 DEF InRange
  <2>5. \A no \in Nat : [no |-> no, start |-> start, end |-> end, inputs |-> found] \in Ranges
    BY <2>2, <2>4 DEF Ranges
  <2>6. emissions' \in Nat /\ lastEmit' \in Nat /\ missed' \subseteq Nat
    <3>1. emissions \in Nat /\ lastEmit \in Nat /\ missed \subseteq Nat
      BY DEF TypeOK
    <3> HIDE DEF end, start, found
    <3>2. /\ emissions' \in {emissions, emissions + 1} /\ lastEmit' \in {lastEmit, end}
          /\ missed' \subseteq missed \cup {end}
      BY <1>3 DEF Tick, end, start, found
    <3> QED
      BY <2>2, <3>1, <3>2
  <2>7. emitted' \subseteq Ranges
    BY <1>3, <2>5, <2>6 DEF Tick, TypeOK
  <2> QED
    BY <1>3, <2>3, <2>6, <2>7 DEF Tick, TypeOK
<1>4. ASSUME NEW c \in Configs, UpdateConfig(c)
      PROVE  TypeOK'
  BY <1>4 DEF UpdateConfig, TypeOK, Valid
<1>5. CASE Shutdown
  BY <1>5 DEF Shutdown, TypeOK, Valid, store
<1>6. CASE UNCHANGED vars
  BY <1>6 DEF vars, TypeOK, Valid, store
<1>7. ASSUME NEW now \in Times, IdleTick(now)
      PROVE  TypeOK'
  BY <1>7 DEF IdleTick, vars, TypeOK, Valid, store
<1> QED
  BY <1>1, <1>2, <1>3, <1>4, <1>5, <1>6, <1>7 DEF Next

-----------------------------------------------------------------------------
(* Every call preserves the invariant.                                     *)

\* Panes do not change while the configuration does not.
LEMMA SamePanes ==
  ASSUME cfg' = cfg
  PROVE  /\ \A t : Pane(t)' = Pane(t)
         /\ \A m : Cutoff(m)' = Cutoff(m)
         /\ \A t : Aligned(t)' <=> Aligned(t)
BY DEF Pane, Cutoff, Aligned

LEMMA StartHolds ==
  ASSUME Init
  PROVE  RInv
<1>1. TypeOK
  <2>1. cfg \in Configs /\ Valid(cfg)
    BY DEF Init
  <2>2. {closedUntil, lastEmit, completeUntil, offered, updates, emissions} \subseteq Nat
        /\ {held, admitted, late, overflowed} \subseteq SUBSET Inputs
    BY DEF Init
  <2>3. closed \in BOOLEAN /\ emitted \subseteq Ranges /\ missed \subseteq Nat
    BY DEF Init
  <2> QED
    BY <2>1, <2>2, <2>3 DEF TypeOK
<1>2. Aligned(0)
  BY <1>1, PaneAligned
<1>3. IsFiniteSet(held) /\ CapHonoured
  <2>1. SeriesOf(held) = {}
    BY DEF Init, SeriesOf
  <2>2. cfg.maxSeries \in Nat
    BY <1>1, ConstantsAssumption DEF ConstantsAssumption, ConfigType, TypeOK
  <2> QED
    BY <2>1, <2>2, FS_EmptySet DEF Init, CapHonoured
<1> QED
  BY <1>1, <1>2, <1>3 DEF Init, RInv, Whole, Behind, Retained, RangesFinal

\* The series of a pool: finite, and one more with one more input at most.
LEMMA PoolSeries ==
  ASSUME NEW pool, IsFiniteSet(pool)
  PROVE  /\ IsFiniteSet(SeriesOf(pool)) /\ Cardinality(SeriesOf(pool)) \in Nat
         /\ \A part \in SUBSET pool : Cardinality(SeriesOf(part)) <= Cardinality(SeriesOf(pool))
<1> DEFINE series == [in \in pool |-> in.obs.series]
<1>1. SeriesOf(pool) = {series[in] : in \in pool}
  BY DEF SeriesOf
<1>2. IsFiniteSet(SeriesOf(pool))
  <2>1. series \in Surjection(pool, SeriesOf(pool))
    BY <1>1 DEF Surjection
  <2> QED
    BY <2>1, FS_Surjection
<1>3. ASSUME NEW part \in SUBSET pool
      PROVE  Cardinality(SeriesOf(part)) <= Cardinality(SeriesOf(pool))
  <2>1. SeriesOf(part) \subseteq SeriesOf(pool)
    BY DEF SeriesOf
  <2> QED
    BY <1>2, <2>1, FS_Subset
<1> QED
  BY <1>2, <1>3, FS_CardinalityType

\* Absorbing an input that is behind the new watermark but not expired.
LEMMA AbsorbKeeps ==
  ASSUME RInv, TypeOK', cfg' = cfg, NEW in \in Inputs, NEW t \in Nat, Absorb(in, t),
         Pane(in.obs.at) <= Watermark(t), Pane(in.obs.at) >= Cutoff(Watermark(t)),
         in.obs.kind = "scalar" => in.obs.at >= closedUntil,
         emitted' = emitted, lastEmit' = lastEmit, Aligned(completeUntil')
  PROVE  RInv'
<1> TypeOK /\ Whole /\ Behind /\ Retained /\ CapHonoured /\ RangesFinal /\ IsFiniteSet(held)
  BY DEF RInv
<1> DEFINE kept == Unexpired(t)
<1>1. /\ closedUntil' = Watermark(t) /\ Watermark(t) \in Nat
      /\ kept \subseteq held' /\ held' \subseteq kept \cup {in}
      /\ admitted \subseteq admitted' /\ admitted' \subseteq admitted \cup {in}
      /\ in \in admitted' => in \in held'
  BY Advances DEF Absorb
<1>2. IsFiniteSet(kept) /\ IsFiniteSet(held')
  <2>1. IsFiniteSet(kept) /\ IsFiniteSet(kept \cup {in})
    BY Advances, FS_AddElement
  <2> QED
    BY <1>1, <2>1, FS_Subset
<1>3. Whole'
  <2>1. held' \subseteq admitted'
    <3>1. kept \subseteq admitted
      BY Advances DEF Whole
    <3> QED
      BY <1>1, <3>1 DEF Absorb
  <2>2. ASSUME NEW x \in admitted', Pane(x.obs.at) >= Cutoff(Watermark(t))
        PROVE  x \in held'
    <3>1. CASE x \in admitted
      BY <1>1, <2>2, <3>1, Advances
    <3>2. CASE x = in
      BY <1>1, <3>2
    <3> QED
      BY <1>1, <3>1, <3>2
  <2> QED
    BY <1>1, <2>1, <2>2, SamePanes DEF Whole
<1>4. Behind'
  <2>1. Aligned(Watermark(t)) /\ Watermark(t) >= closedUntil
    BY Advances
  <2>2. \A r \in emitted : r.end \in Nat /\ r.end <= closedUntil
    BY DEF TypeOK, Ranges, Behind
  <2>3. \A r \in emitted : r.end <= Watermark(t)
    BY <1>1, <2>1, <2>2 DEF TypeOK
  <2> QED
    BY <1>1, <2>1, <2>3, SamePanes DEF Behind
<1>5. Retained'
  <2>1. \A x \in held' : Pane(x.obs.at) >= Cutoff(Watermark(t)) /\ Pane(x.obs.at) <= Watermark(t)
    BY <1>1, Advances
  <2> QED
    BY <1>1, <2>1, SamePanes DEF Retained
<1>6. CapHonoured'
  <2> SUFFICES ASSUME cfg.maxSeries > 0
               PROVE  Cardinality(SeriesOf(held')) <= cfg.maxSeries
    BY DEF CapHonoured, SeriesOf
  <2>1. cfg.maxSeries \in Nat
    BY ConstantsAssumption DEF ConstantsAssumption, ConfigType, TypeOK
  <2>2. Cardinality(SeriesOf(kept)) <= cfg.maxSeries /\ IsFiniteSet(SeriesOf(kept))
    <3>1. Cardinality(SeriesOf(kept)) <= Cardinality(SeriesOf(held))
          /\ {Cardinality(SeriesOf(kept)), Cardinality(SeriesOf(held))} \subseteq Nat
          /\ IsFiniteSet(SeriesOf(kept))
      BY <1>2, PoolSeries, Advances
    <3>2. Cardinality(SeriesOf(held)) <= cfg.maxSeries
      BY DEF CapHonoured
    <3> QED
      BY <2>1, <3>1, <3>2
  <2>3. CASE held' = kept
    BY <2>2, <2>3
  <2>4. CASE held' = kept \cup {in} /\ ~AtCap(in, kept)
    <3>1. SeriesOf(held') = SeriesOf(kept) \cup {in.obs.series}
      BY <2>4 DEF SeriesOf
    <3>2. CASE in.obs.series \in SeriesOf(kept)
      <4>1. SeriesOf(held') = SeriesOf(kept)
        BY <3>1, <3>2
      <4> QED
        BY <2>2, <4>1
    <3>3. CASE in.obs.series \notin SeriesOf(kept)
      <4>1. ~(Cardinality(SeriesOf(kept)) >= cfg.maxSeries)
        BY <2>4, <3>3 DEF AtCap
      <4>2. Cardinality(SeriesOf(held')) = Cardinality(SeriesOf(kept)) + 1
        BY <2>2, <3>1, <3>3, FS_AddElement
      <4>3. Cardinality(SeriesOf(kept)) \in Nat
        BY <2>2, FS_CardinalityType
      <4> QED
        BY <2>1, <4>1, <4>2, <4>3
    <3> QED
      BY <3>2, <3>3
  <2> QED
    BY <2>3, <2>4 DEF Absorb
<1>7. RangesFinal'
  <2> SUFFICES ASSUME NEW r \in emitted, NEW x \in admitted',
                      Pane(x.obs.at) >= r.start, Pane(x.obs.at) < r.end,
                      x.obs.kind = "scalar"
               PROVE  x \in r.inputs
    BY SamePanes DEF RangesFinal, InRange
  <2>1. CASE x \in admitted
    BY <2>1 DEF RangesFinal, InRange
  <2>2. CASE x = in
    <3>1. in.obs.at \in Nat /\ closedUntil \in Nat /\ r.end \in Nat
      BY InputType DEF TypeOK, Ranges
    <3>2. Pane(in.obs.at) >= closedUntil /\ Pane(in.obs.at) \in Nat
      BY <2>2, <3>1, PaneGrows, PaneType DEF Behind, Aligned
    <3>3. r.end <= closedUntil
      BY DEF Behind
    <3> QED
      BY <2>2, <3>1, <3>2, <3>3
  <2> QED
    BY <1>1, <2>1, <2>2
<1> QED
  BY <1>2, <1>3, <1>4, <1>5, <1>6, <1>7 DEF RInv

LEMMA ObserveKeeps ==
  ASSUME RInv, TypeOK', NEW in \in Inputs, Observe(in)
  PROVE  RInv'
<1> TypeOK
  BY DEF RInv
<1>1. cfg' = cfg /\ emitted' = emitted /\ lastEmit' = lastEmit /\ completeUntil' = completeUntil
  BY DEF Observe, Offer
<1>2. CASE Late(in)
  <2>1. UNCHANGED <<closedUntil, held, admitted>>
    BY <1>2 DEF Observe, store
  <2> QED
    BY <1>1, <2>1, SamePanes
       DEF RInv, Whole, Behind, Retained, CapHonoured, RangesFinal, InRange
<1>3. CASE ~Late(in)
  <2>1. in.obs.at \in Nat /\ closedUntil \in Nat
    BY InputType DEF TypeOK
  <2>2. Absorb(in, in.obs.at) /\ in.obs.at >= closedUntil
    BY <1>3, <2>1 DEF Observe, Late
  <2>3. Pane(in.obs.at) <= Watermark(in.obs.at)
        /\ Pane(in.obs.at) >= Cutoff(Watermark(in.obs.at))
    <3>1. Pane(in.obs.at) >= closedUntil /\ Pane(in.obs.at) \in Nat
      BY <2>1, <2>2, PaneGrows, PaneType DEF RInv, Behind, Aligned
    <3>2. Watermark(in.obs.at) = Pane(in.obs.at)
      BY <2>1, <3>1 DEF Watermark, Larger
    <3> QED
      BY <3>1, <3>2, CutoffType
  <2>4. Aligned(completeUntil')
    BY <1>1 DEF RInv, Behind
  <2> QED
    BY <1>1, <2>1, <2>2, <2>3, <2>4, AbsorbKeeps
<1> QED
  BY <1>2, <1>3

\* A pane that fits and comes in time starts and ends on a boundary, and starts at
\* the cutoff or later, wherever its end moves the watermark.
LEMMA EnvelopeKeeps ==
  ASSUME RInv, TypeOK', NEW in \in Inputs, ObserveEnvelope(in)
  PROVE  RInv'
<1> TypeOK
  BY DEF RInv
<1>1. cfg' = cfg /\ emitted' = emitted /\ lastEmit' = lastEmit
  BY DEF ObserveEnvelope, Offer
<1>2. CASE Misfit(in.obs) \/ Late(in)
  <2>1. UNCHANGED <<closedUntil, held, admitted, completeUntil>>
    BY <1>2 DEF ObserveEnvelope, store
  <2> QED
    BY <1>1, <2>1, SamePanes
       DEF RInv, Whole, Behind, Retained, CapHonoured, RangesFinal, InRange
<1>3. CASE ~Misfit(in.obs) /\ ~Late(in)
  <2> DEFINE at == in.obs.at
             end == in.obs.at + in.obs.width
  <2>1. /\ at \in Nat /\ end \in Nat /\ closedUntil \in Nat /\ completeUntil \in Nat
        /\ cfg.pane \in Nat /\ cfg.retention \in Nat /\ cfg.retention >= cfg.pane
    BY InputType, ConstantsAssumption
       DEF TypeOK, Valid, ConfigType, ConstantsAssumption
  <2>2. at % cfg.pane = 0 /\ end = at + cfg.pane
    BY <1>3 DEF Misfit
  <2>3. Aligned(at) /\ Aligned(end)
    BY <2>1, <2>2, NextPane
  <2>4. ~(at < Cutoff(closedUntil)) /\ Cutoff(closedUntil) \in Nat
    BY <1>3, <2>1, CutoffType DEF Late, ObserveEnvelope
  <2>5. Pane(at) <= Watermark(end) /\ Pane(at) >= Cutoff(Watermark(end))
    <3>1. Pane(at) = at /\ Pane(end) = end
      BY <2>3 DEF Aligned
    <3>2. CASE Watermark(end) = closedUntil
      <4>1. Watermark(end) >= end
        BY <2>1, <3>1, Advances
      <4>2. at <= closedUntil
        BY <2>1, <2>2, <3>2, <4>1
      <4>3. at >= Cutoff(closedUntil)
        BY <2>1, <2>4
      <4> QED
        BY <3>1, <3>2, <4>2, <4>3
    <3>3. CASE Watermark(end) = end
      <4>1. Cutoff(end) <= at
        BY <2>1, <2>2 DEF Cutoff, Minus
      <4>2. Cutoff(end) \in Nat
        BY <2>1, CutoffType
      <4>3. at <= end /\ at >= Cutoff(end)
        BY <2>1, <2>2, <4>1, <4>2
      <4> QED
        BY <3>1, <3>3, <4>3
    <3> QED
      BY <3>1, <3>2, <3>3 DEF Watermark, Larger
  <2>6. Absorb(in, end) /\ in.obs.kind # "scalar"
    BY <1>3 DEF ObserveEnvelope
  <2>7. Aligned(completeUntil')
    <3>1. completeUntil' = completeUntil \/ completeUntil' = Larger(completeUntil, end)
      BY <1>3 DEF ObserveEnvelope
    <3>2. completeUntil' = completeUntil \/ completeUntil' = end
      BY <3>1 DEF Larger
    <3> QED
      BY <2>3, <3>2 DEF RInv, Behind
  <2> HIDE DEF at, end
  <2> QED
    BY <1>1, <2>1, <2>5, <2>6, <2>7, AbsorbKeeps DEF at
<1> QED
  BY <1>2, <1>3

-----------------------------------------------------------------------------
(* Ticks.                                                                  *)

\* Boundaries are boundaries of panes.
LEMMA BoundaryAligned ==
  ASSUME RInv, NEW now \in Nat
  PROVE  Boundary(now) \in Nat /\ Aligned(Boundary(now))
<1> TypeOK
  BY DEF RInv
<1>1. Aligned(completeUntil) /\ Aligned(Pane(now))
  BY PaneAligned DEF RInv, Behind
<1>2. Boundary(now) = completeUntil \/ Boundary(now) = Pane(now)
  BY DEF Boundary, Smaller
<1> QED
  BY <1>1, <1>2, BoundaryType

\* Where a tick leaves the store.
LEMMA TickStore ==
  ASSUME RInv, NEW now \in Nat, Tick(now)
  PROVE  /\ cfg' = cfg /\ admitted' = admitted /\ completeUntil' = completeUntil
         /\ closedUntil' \in Nat /\ closedUntil <= closedUntil' /\ Aligned(closedUntil')
         /\ held' \subseteq held /\ IsFiniteSet(held')
         /\ \A in \in held' :
              Pane(in.obs.at) >= Cutoff(closedUntil') /\ Pane(in.obs.at) <= closedUntil'
         /\ \A in \in admitted : Pane(in.obs.at) >= Cutoff(closedUntil') => in \in held'
<1>1. cfg' = cfg /\ admitted' = admitted /\ completeUntil' = completeUntil
  BY DEF Tick
<1>2. CASE closedUntil' = Watermark(now) /\ held' = Unexpired(now)
  BY <1>1, <1>2, Advances
<1>3. CASE UNCHANGED store
  BY <1>1, <1>3 DEF store, RInv, TypeOK, Whole, Behind, Retained
<1> QED
  BY <1>2, <1>3 DEF Tick

\* What a tick emits is everything absorbed in the panes of a later range, and
\* these are closed.
LEMMA TickEmits ==
  ASSUME RInv, NEW now \in Nat, Tick(now)
  PROVE  \/ emitted' = emitted /\ lastEmit' = lastEmit
         \/ \E r : /\ emitted' = emitted \cup {r} /\ lastEmit' = r.end
                   /\ r.end \in Nat /\ Aligned(r.end) /\ r.end <= closedUntil'
                   /\ \A old \in emitted : old.end < r.end
                   /\ r.inputs = InRange(admitted, r.start, r.end)
<1> DEFINE end == Boundary(now)
           start == Minus(end, cfg.retention)
           found == InRange(held', start, end)
           r == [no |-> emissions', start |-> start, end |-> end, inputs |-> found]
<1>1. CASE emitted' = emitted /\ lastEmit' = lastEmit
  BY <1>1
<1>2. CASE ~(emitted' = emitted /\ lastEmit' = lastEmit)
  <2>1. /\ Answerable(start, end, closedUntil')
        /\ emitted' = emitted \cup {r} /\ lastEmit' = end
    BY <1>2 DEF Tick
  <2>2. end \in Nat /\ Aligned(end)
    BY BoundaryAligned
  <2>3. end <= closedUntil' /\ start >= Cutoff(closedUntil')
    BY <2>1 DEF Answerable
  <2>4. \A old \in emitted : old.end < end
    <3>1. end # 0 /\ (lastEmit = 0 \/ ~(end <= lastEmit)) /\ lastEmit \in Nat
      BY DEF Tick, AlreadyEmitted, RInv, TypeOK
    <3>2. \A old \in emitted : old.end \in Nat /\ old.end <= lastEmit
      BY DEF RInv, TypeOK, Ranges, Behind
    <3> QED
      BY <2>2, <3>1, <3>2
  <2>5. found = InRange(admitted, start, end)
    <3>1. held' \subseteq admitted
      BY TickStore DEF RInv, Whole
    <3>2. ASSUME NEW in \in admitted, Pane(in.obs.at) >= start
          PROVE  in \in held'
      <4>1. Pane(in.obs.at) \in Nat /\ start \in Nat /\ Cutoff(closedUntil') \in Nat
        <5>1. Pane(in.obs.at) \in Nat
          BY InputType, PaneType DEF RInv, TypeOK
        <5>2. cfg.retention \in Nat /\ closedUntil' \in Nat
          BY ConstantsAssumption, TickStore DEF ConstantsAssumption, ConfigType, RInv, TypeOK
        <5> QED
          BY <2>2, <5>1, <5>2 DEF Cutoff, Minus
      <4>2. Pane(in.obs.at) >= Cutoff(closedUntil')
        BY <2>3, <3>2, <4>1
      <4> QED
        BY <4>2, TickStore
    <3> QED
      BY <3>1, <3>2 DEF InRange
  <2>6. r.end = end /\ r.start = start /\ r.inputs = found
    OBVIOUS
  <2> HIDE DEF r, end, start, found
  <2> QED
    BY <2>1, <2>2, <2>3, <2>4, <2>5, <2>6
<1> QED
  BY <1>1, <1>2

LEMMA TickKeeps ==
  ASSUME RInv, TypeOK', NEW now \in Nat, Tick(now)
  PROVE  RInv'
<1> TypeOK /\ Whole /\ Behind /\ CapHonoured /\ RangesFinal /\ IsFiniteSet(held)
  BY DEF RInv
<1> cfg' = cfg
  BY TickStore
<1>1. Whole' /\ Retained' /\ IsFiniteSet(held')
  BY TickStore, SamePanes DEF Whole, Retained
<1>2. CapHonoured'
  <2>1. Cardinality(SeriesOf(held')) <= Cardinality(SeriesOf(held))
        /\ {Cardinality(SeriesOf(held')), Cardinality(SeriesOf(held))} \subseteq Nat
    BY <1>1, TickStore, PoolSeries
  <2>2. cfg.maxSeries \in Nat
    BY ConstantsAssumption DEF ConstantsAssumption, ConfigType, TypeOK
  <2>3. SeriesOf(held)' = SeriesOf(held')
    BY DEF SeriesOf
  <2> QED
    BY <2>1, <2>2, <2>3 DEF CapHonoured
<1>3. CASE emitted' = emitted /\ lastEmit' = lastEmit
  <2>1. Behind'
    <3>1. \A r \in emitted : r.end \in Nat /\ r.end <= closedUntil
      BY DEF TypeOK, Ranges, Behind
    <3>2. \A r \in emitted : r.end <= closedUntil'
      BY <3>1, TickStore DEF TypeOK
    <3> QED
      BY <1>3, <3>2, TickStore, SamePanes DEF Behind
  <2>2. RangesFinal'
    BY <1>3, TickStore, SamePanes DEF RangesFinal, InRange
  <2> QED
    BY <1>1, <1>2, <2>1, <2>2 DEF RInv
<1>4. CASE ~(emitted' = emitted /\ lastEmit' = lastEmit)
  <2>1. PICK r : /\ emitted' = emitted \cup {r} /\ lastEmit' = r.end
                 /\ r.end \in Nat /\ Aligned(r.end) /\ r.end <= closedUntil'
                 /\ \A old \in emitted : old.end < r.end
                 /\ r.inputs = InRange(admitted, r.start, r.end)
    BY <1>4, TickEmits
  <2>2. \A old \in emitted : old.end \in Nat /\ Aligned(old.end)
    BY DEF TypeOK, Ranges, Behind
  <2>3. \A old \in emitted' : old.end <= r.end /\ old.end <= closedUntil' /\ Aligned(old.end)
    BY <2>1, <2>2, TickStore
  <2>4. Behind'
    BY <2>1, <2>3, TickStore, SamePanes DEF Behind
  <2>5. RangesFinal'
    <3> SUFFICES ASSUME NEW old \in emitted', NEW in \in admitted,
                        Pane(in.obs.at) >= old.start, Pane(in.obs.at) < old.end,
                        in.obs.kind = "scalar"
                 PROVE  in \in old.inputs
      BY TickStore, SamePanes DEF RangesFinal, InRange
    <3>2. CASE old \in emitted
      BY <3>2 DEF RangesFinal, InRange
    <3>3. CASE old = r
      BY <2>1, <3>3 DEF InRange
    <3> QED
      BY <2>1, <3>2, <3>3
  <2> QED
    BY <1>1, <1>2, <2>4, <2>5 DEF RInv
<1> QED
  BY <1>3, <1>4

-----------------------------------------------------------------------------
(* The theorems.                                                           *)

LEMMA StepKeeps == RInv /\ [Next]_vars => RInv'
<1> SUFFICES ASSUME RInv, [Next]_vars
             PROVE  RInv'
  OBVIOUS
<1> TypeOK /\ TypeOK'
  BY TypeStep DEF RInv
<1>1. ASSUME NEW in \in Inputs, Observe(in) \/ ObserveEnvelope(in)
      PROVE  RInv'
  BY <1>1, ObserveKeeps, EnvelopeKeeps
<1>2. ASSUME NEW now \in Times, Tick(now)
      PROVE  RInv'
  BY <1>2, TickKeeps, ConstantsAssumption DEF ConstantsAssumption
<1>3. ASSUME NEW c \in Configs, UpdateConfig(c)
      PROVE  RInv'
  <2>1. closedUntil' = 0 /\ held' = {} /\ completeUntil' = 0 /\ admitted' = {} /\ emitted' = {}
    BY <1>3 DEF UpdateConfig
  <2>2. Aligned(0)'
    <3>1. cfg'.pane \in Nat \ {0}
      BY ConstantsAssumption DEF ConstantsAssumption, ConfigType, TypeOK, Valid
    <3> QED
      BY <3>1 DEF Aligned, Pane
  <2>3. SeriesOf(held)' = {} /\ cfg'.maxSeries \in Nat
    BY <2>1, ConstantsAssumption DEF SeriesOf, ConstantsAssumption, ConfigType, TypeOK
  <2>4. CapHonoured'
    BY <2>3, FS_EmptySet DEF CapHonoured
  <2>5. Behind'
    BY <2>1, <2>2 DEF Behind
  <2> QED
    BY <2>1, <2>4, <2>5, FS_EmptySet DEF RInv, Whole, Retained, RangesFinal
<1>4. ASSUME UNCHANGED <<cfg, closedUntil, held, lastEmit, completeUntil, admitted, emitted>>
      PROVE  RInv'
  BY <1>4, SamePanes DEF RInv, Whole, Behind, Retained, CapHonoured, RangesFinal, InRange
<1>5. ASSUME NEW now \in Times, IdleTick(now)
      PROVE  RInv'
  BY <1>4, <1>5 DEF IdleTick, vars, store
<1> QED
  BY <1>1, <1>2, <1>3, <1>4, <1>5 DEF Next, Shutdown, vars, store

LEMMA Invariant == Spec => []RInv
<1>1. Init => RInv
  BY StartHolds
<1> QED
  BY <1>1, StepKeeps, PTL DEF Spec

\* Whatever event times, clock readings and upstream panes drive the watermark, the
\* panes held are of no more series than the cap, and no scalar joins a pane that
\* an emitted range has covered.
THEOREM RollingSafe == Spec => [](TypeOK /\ CapHonoured /\ RangesFinal)
<1>1. RInv => TypeOK /\ CapHonoured /\ RangesFinal
  BY DEF RInv
<1> QED
  BY <1>1, Invariant, PTL

\* No pane outlives its retention and none is opened ahead of the watermark,
\* whoever drives it: an observation, a pane from upstream or the clock (advance,
\* kll_windows.rs:100).
THEOREM PanesExpire == Spec => []Retained
<1>1. RInv => Retained
  BY DEF RInv
<1> QED
  BY <1>1, Invariant, PTL

\* Every emitted range is the union of all that its panes absorbed.
THEOREM EmitsWholeRanges == Spec => RangesWhole
<1>1. ASSUME RInv, [Next]_vars
      PROVE  [\A r \in emitted' \ emitted : r.inputs = InRange(admitted, r.start, r.end)]_vars
  <2>1. ASSUME NEW now \in Times, Tick(now)
        PROVE  \A r \in emitted' \ emitted : r.inputs = InRange(admitted, r.start, r.end)
    BY <1>1, <2>1, TickEmits, ConstantsAssumption DEF ConstantsAssumption
  <2>2. ASSUME ~\E now \in Times : Tick(now)
        PROVE  emitted' \subseteq emitted
    BY <1>1, <2>2 DEF Next, Observe, ObserveEnvelope, Offer, IdleTick, UpdateConfig, Shutdown, vars
  <2> QED
    BY <2>1, <2>2
<1> QED
  BY <1>1, Invariant, PTL DEF Spec, RangesWhole

\* Under one configuration each range ends later than those before it.
THEOREM EmitsOnce == Spec => RangesMoveOn
<1>1. ASSUME RInv, [Next]_vars
      PROVE  [\A r \in emitted' \ emitted : \A old \in emitted : r.end > old.end]_vars
  <2>1. ASSUME NEW now \in Times, Tick(now)
        PROVE  \A r \in emitted' \ emitted : \A old \in emitted : r.end > old.end
    <3>1. \A old \in emitted : old.end \in Nat
      BY <1>1 DEF RInv, TypeOK, Ranges
    <3> QED
      BY <1>1, <2>1, <3>1, TickEmits, ConstantsAssumption DEF ConstantsAssumption
  <2>2. ASSUME ~\E now \in Times : Tick(now)
        PROVE  emitted' \subseteq emitted
    BY <1>1, <2>2 DEF Next, Observe, ObserveEnvelope, Offer, IdleTick, UpdateConfig, Shutdown, vars
  <2> QED
    BY <2>1, <2>2
<1> QED
  BY <1>1, Invariant, PTL DEF Spec, RangesMoveOn

=============================================================================
