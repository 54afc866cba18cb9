------------------------- MODULE WindowMergeProofs -------------------------
(***************************************************************************)
(* The window merger keeps its types, emits windows once and in order, and *)
(* counts sources right: what the counts say is complete, is.              *)
(***************************************************************************)
EXTENDS WindowMerge, FiniteSetTheorems, TLAPS

-----------------------------------------------------------------------------
(* What the parts of a step do.                                            *)

\* The sketches of a new message are sketches.
LEMMA NewSketches ==
  ASSUME TypeOK, NEW s \in Sources, NEW content \in Contents, sent[s].count < MaxMessages
  PROVE  /\ New(s, content) \subseteq Sketches
         /\ EndsOf(New(s, content)) \subseteq Ends
<1> sent[s].count \in Nat
  BY DEF TypeOK
<1> content.sketches \subseteq Ends \X Keys
  BY ConstantsAssumption DEF ConstantsAssumption, ContentType
<1>1. New(s, content) \subseteq Sketches
  BY ConstantsAssumption DEF ConstantsAssumption, New, Sketches
<1> QED
  BY <1>1 DEF EndsOf, Sketches

\* A source's message moves it on to the last window it carries, or leaves it.
LEMMA SendMoves ==
  ASSUME TypeOK, NEW s \in Sources, NEW content \in Contents, Send(s, content)
  PROVE  /\ New(s, content) \subseteq Sketches
         /\ EndsOf(New(s, content)) \subseteq Ends
         /\ sent' \in [Sources -> [count : Nat, last : Nat]]
         /\ \A t \in Sources : sent'[t].last >= sent[t].last
         /\ \A e \in EndsOf(New(s, content)) : sent'[s].last >= e
         /\ scalars' \subseteq Messages
         /\ received' \subseteq Sketches
         /\ repeated' \in BOOLEAN
         /\ repeated => repeated'
<1> DEFINE ends == EndsOf(New(s, content))
<1>1. New(s, content) \subseteq Sketches /\ ends \subseteq Ends
  BY NewSketches DEF Send
<1> sent[s] \in [count : Nat, last : Nat]
  BY DEF TypeOK
<1> ends \subseteq Nat
  BY <1>1, ConstantsAssumption DEF ConstantsAssumption
<1>2. PICK last \in ends \cup {sent[s].last} :
        /\ \A e \in ends \cup {sent[s].last} : e <= last
        /\ sent' = [sent EXCEPT ![s] = [count |-> sent[s].count + 1, last |-> last]]
  BY DEF Send
<1>3. last \in Nat
  BY <1>1
<1> HIDE DEF ends
<1>4. sent' \in [Sources -> [count : Nat, last : Nat]]
  BY <1>2, <1>3 DEF TypeOK
<1>5. \A t \in Sources : sent'[t].last >= sent[t].last
  BY <1>2, <1>3 DEF TypeOK
<1>6. \A e \in ends : sent'[s].last >= e
  BY <1>2, <1>3 DEF TypeOK
<1>7. scalars' \subseteq Messages
  <2>1. <<s, sent[s].count + 1>> \in Messages
    BY ConstantsAssumption DEF ConstantsAssumption, Send, Messages
  <2> QED
    BY <2>1 DEF Send, TypeOK
<1>8. received' \subseteq Sketches /\ repeated' \in BOOLEAN /\ (repeated => repeated')
  BY <1>1 DEF Send, TypeOK
<1> QED
  BY <1>1, <1>4, <1>5, <1>6, <1>7, <1>8 DEF ends

\* An envelope is of a window and of sketches that were pooled.
LEMMA MergedTypes ==
  ASSUME NEW pool \in SUBSET Sketches, NEW env \in Merged(pool)
  PROVE  /\ env \in Envelopes
         /\ env.end \in EndsOf(pool)
         /\ env.sketches \subseteq pool
BY DEF Merged, Envelopes, EndsOf, Sketches

-----------------------------------------------------------------------------
(* Windows come out once and in order.                                     *)

\* What is held is of open windows, which end after all that came out.
IInv ==
  /\ TypeOK
  /\ EndsOf(held) \subseteq open
  /\ \A e \in open : e > emittedUntil
  /\ \A env \in out : env.end <= emittedUntil

\* A handler opens `windows`, if it opens any, none of them emitted, and closes
\* those in `closing`.
Closes(closing, windows, counts) ==
  /\ open' = windows \ closing
  /\ EndsOf(held') \subseteq open'
  /\ messages' = [e \in Ends |-> IF e \in closing THEN 0 ELSE counts[e]]
  /\ emittedUntil' \in (windows \cap closing) \cup {emittedUntil}
  /\ emittedUntil' \in Nat /\ emittedUntil' >= emittedUntil
  /\ \A e \in windows \cap closing : e <= emittedUntil'
  /\ out \subseteq out' /\ out' \subseteq Envelopes
  /\ \A env \in out' \ out : env.end \in windows \cap closing
  /\ lost' \subseteq Sketches /\ arrived' \subseteq Ends /\ stopped' \in BOOLEAN
  /\ held' \subseteq Sketches

\* What an emission does.
LEMMA EmitCloses ==
  ASSUME TypeOK,
         NEW closing \in SUBSET Ends, NEW windows \in SUBSET Ends,
         NEW pool \in SUBSET Sketches, NEW arrivals \in SUBSET Ends,
         NEW counts \in [Ends -> Nat], NEW refused \in SUBSET Sketches,
         Emit(closing, windows, pool, arrivals, counts, refused),
         EndsOf(pool) \subseteq windows
  PROVE  Closes(closing, windows, counts)
<1> DEFINE ready == Merged({x \in pool : x.end \in closing})
<1>1. \A env \in ready : /\ env \in Envelopes
                         /\ env.end \in closing \cap EndsOf(pool)
                         /\ env.sketches \subseteq Sketches
  BY MergedTypes DEF EndsOf
<1>2. \A some \in SUBSET ready : SketchesOf(some) \subseteq Sketches
  BY <1>1 DEF SketchesOf
<1>3. PICK skipped \in SUBSET ready :
        LET batch == ready \ skipped
            timed == /\ arrived' = arrivals \ {env.end : env \in batch}
                     /\ stopped' \in {stopped, stopped \/ (Failures /\ batch # {})}
        IN \/ /\ out' = out \cup batch
              /\ lost' = lost \cup refused \cup SketchesOf(skipped)
              /\ timed
           \/ /\ Failures /\ batch # {}
              /\ out' = out
              /\ lost' = lost \cup refused \cup SketchesOf(ready)
              /\ timed \/ (arrived' = arrivals /\ stopped' = TRUE)
  BY DEF Emit
<1> HIDE DEF ready
<1>4. /\ out' = out \/ out' = out \cup (ready \ skipped)
      /\ lost' \subseteq Sketches /\ arrived' \subseteq Ends /\ stopped' \in BOOLEAN
  BY <1>2, <1>3 DEF TypeOK
<1>5. /\ out \subseteq out' /\ out' \subseteq Envelopes
      /\ \A env \in out' \ out : env.end \in windows \cap closing
  BY <1>1, <1>4 DEF TypeOK
<1>6. Ends \subseteq Nat /\ emittedUntil \in Nat
  BY ConstantsAssumption DEF ConstantsAssumption, TypeOK
<1>7. /\ emittedUntil' \in (windows \cap closing) \cup {emittedUntil}
      /\ emittedUntil' \in Nat /\ emittedUntil' >= emittedUntil
      /\ \A e \in windows \cap closing : e <= emittedUntil'
  BY <1>6 DEF Emit
<1>8. held' \subseteq Sketches /\ EndsOf(held') \subseteq open'
  BY DEF Emit, EndsOf
<1>9. /\ open' = windows \ closing
      /\ messages' = [e \in Ends |-> IF e \in closing THEN 0 ELSE counts[e]]
  BY DEF Emit
<1> QED
  BY <1>4, <1>5, <1>7, <1>8, <1>9 DEF Closes

\* The windows a data message may open.
Kept(s, content) == {x \in New(s, content) : ~Late(x)}

LEMMA PDataCloses ==
  ASSUME IInv, NEW s \in Sources, NEW content \in Contents, NEW now \in Times,
         PData(s, content, now)
  PROVE  LET counts == Carried(EndsOf(New(s, content)))
             windows == open \cup EndsOf(Kept(s, content))
         IN /\ windows \subseteq Ends
            /\ \A e \in windows : e > emittedUntil
            /\ counts \in [Ends -> Nat]
            /\ Closes(GraceOver(now) \cup Complete(counts), windows, counts)
<1> DEFINE new == New(s, content)
           kept == Kept(s, content)
           counts == Carried(EndsOf(new))
           windows == open \cup EndsOf(kept)
           closing == GraceOver(now) \cup Complete(counts)
<1>1. TypeOK /\ Send(s, content) /\ EndsOf(held) \subseteq open
  BY DEF IInv, PData
<1>2. new \subseteq Sketches /\ EndsOf(new) \subseteq Ends
  BY <1>1, SendMoves
<1>3. PICK refused \in SUBSET kept :
        Emit(closing, windows, held \cup (kept \ refused), arrived \cup EndsOf(kept),
             counts, refused)
  BY DEF PData, Kept
<1>4. kept \subseteq Sketches /\ \A x \in kept : ~(x.end <= emittedUntil)
  BY <1>2 DEF Kept, Late
<1>5. EndsOf(kept) \subseteq Ends /\ \A e \in EndsOf(kept) : ~(e <= emittedUntil)
  BY <1>4 DEF EndsOf, Sketches
<1>6. windows \subseteq Ends /\ \A e \in windows : e > emittedUntil
  <2>1. Ends \subseteq Nat /\ emittedUntil \in Nat /\ open \subseteq Ends
    BY <1>1, ConstantsAssumption DEF ConstantsAssumption, TypeOK
  <2>2. \A e \in open : e > emittedUntil
    BY DEF IInv
  <2>3. windows \subseteq Ends
    BY <1>5, <2>1
  <2>4. ASSUME NEW e \in EndsOf(kept) PROVE e > emittedUntil
    <3>1. e \in Nat /\ ~(e <= emittedUntil)
      BY <1>5, <2>1
    <3> QED
      BY <3>1, <2>1
  <2> QED
    BY <2>2, <2>3, <2>4
<1>7. counts \in [Ends -> Nat]
  BY <1>1 DEF TypeOK, Carried
<1>8. closing \subseteq Ends
  BY DEF GraceOver, Complete
<1>9. EndsOf(held \cup (kept \ refused)) \subseteq windows
  BY <1>1 DEF EndsOf
<1>10. held \cup (kept \ refused) \subseteq Sketches /\ arrived \cup EndsOf(kept) \subseteq Ends
       /\ refused \subseteq Sketches
  BY <1>1, <1>4, <1>5 DEF TypeOK
<1> HIDE DEF new, kept, counts, windows, closing
<1>11. Closes(closing, windows, counts)
  BY <1>1, <1>3, <1>6, <1>7, <1>8, <1>9, <1>10, EmitCloses
<1> QED
  BY <1>6, <1>7, <1>11 DEF new, kept, counts, windows, closing

LEMMA CloseOnlyCloses ==
  ASSUME IInv, NEW closing \in SUBSET Ends, CloseOnly(closing)
  PROVE  Closes(closing, open, messages)
<1> TypeOK /\ EndsOf(held) \subseteq open
  BY DEF IInv
<1> open \subseteq Ends /\ held \subseteq Sketches /\ arrived \subseteq Ends /\ messages \in [Ends -> Nat]
  BY DEF TypeOK
<1> QED
  BY EmitCloses DEF CloseOnly

\* Closing keeps windows apart: what came out ends at or before emittedUntil, what
\* stays open after it.
LEMMA ClosesApart ==
  ASSUME IInv, NEW closing \in SUBSET Ends, NEW windows \in SUBSET Ends, NEW counts \in [Ends -> Nat],
         \A e \in windows : e > emittedUntil,
         Closes(closing, windows, counts),
         \A e \in windows \ closing, c \in windows \cap closing : c < e
  PROVE  /\ \A e \in open' : e > emittedUntil'
         /\ \A env \in out' : env.end <= emittedUntil'
         /\ \A env \in out' \ out, old \in out : env.end > old.end
<1> Ends \subseteq Nat /\ emittedUntil \in Nat
  BY ConstantsAssumption DEF ConstantsAssumption, IInv, TypeOK
<1> \A env \in out \cup out' : env.end \in Nat
  BY DEF IInv, TypeOK, Envelopes, Closes
<1> QED
  BY DEF IInv, Closes

\* What is due is due with all that ends before it.
LEMMA DueIsEarlier ==
  ASSUME NEW now \in Times, NEW counts \in [Ends -> Nat]
  PROVE  LET closing == GraceOver(now) \cup Complete(counts)
         IN \A e \in Ends \ closing, c \in closing : c < e
<1> Ends \subseteq Nat /\ Times \subseteq Nat /\ Grace \in Nat
  BY ConstantsAssumption DEF ConstantsAssumption
<1> DEFINE closing == GraceOver(now) \cup Complete(counts)
<1> SUFFICES ASSUME NEW e \in Ends, NEW c \in closing, ~(c < e) PROVE e \in closing
  OBVIOUS
<1>1. c \in Nat /\ e \in Nat /\ e <= c
  BY DEF GraceOver, Complete
<1>2. CASE c \in GraceOver(now)
  <2>1. c + Grace <= now
    BY <1>2 DEF GraceOver
  <2>2. e + Grace <= now
    <3> now \in Nat
      OBVIOUS
    <3> QED
      BY <1>1, <2>1
  <2> QED
    BY <2>2 DEF GraceOver
<1>3. CASE c \in Complete(counts)
  <2>1. PICK d \in Ends : c <= d /\ Quorum > 0 /\ counts[d] >= Quorum
    BY <1>3 DEF Complete
  <2>2. e <= d
    BY <1>1, <2>1
  <2> QED
    BY <2>1, <2>2 DEF Complete
<1> QED
  BY <1>2, <1>3

\* The variables a handler leaves to its history and its timer.
RestTyped ==
  /\ {late', received'} \subseteq SUBSET Sketches
  /\ timer' \in BOOLEAN /\ repeated' \in BOOLEAN
  /\ sent' \in [Sources -> [count : Nat, last : Nat]]
  /\ scalars' \subseteq Messages /\ passed' \subseteq Messages
  /\ timedOut' \subseteq Ends

LEMMA ClosesTyped ==
  ASSUME NEW closing, NEW windows \in SUBSET Ends, NEW counts \in [Ends -> Nat],
         Closes(closing, windows, counts), RestTyped
  PROVE  TypeOK'
<1> open' \subseteq Ends /\ messages' \in [Ends -> Nat]
  BY DEF Closes
<1> QED
  BY DEF Closes, RestTyped, TypeOK, Envelopes, Messages, Sketches

LEMMA TimerTyped == TypeOK /\ StartTimer => timer' \in BOOLEAN
BY DEF StartTimer, TypeOK

LEMMA PDataRest ==
  ASSUME TypeOK, NEW s \in Sources, NEW content \in Contents, NEW now \in Times,
         PData(s, content, now)
  PROVE  RestTyped
<1>1. Send(s, content) /\ StartTimer
  BY DEF PData
<1>2. New(s, content) \subseteq Sketches /\ scalars' \subseteq Messages /\ received' \subseteq Sketches
  BY <1>1, SendMoves
<1>3. sent' \in [Sources -> [count : Nat, last : Nat]] /\ repeated' \in BOOLEAN
  BY <1>1, SendMoves
<1>4. late' \subseteq Sketches
  BY <1>2 DEF PData, TypeOK
<1>5. passed' \subseteq Messages
  BY DEF PData, PassThrough, DecodedKind, TypeOK
<1>6. timedOut' \subseteq Ends
  BY DEF PData, GraceOver, TypeOK
<1>7. timer' \in BOOLEAN
  BY <1>1, TimerTyped
<1> QED
  BY <1>2, <1>3, <1>4, <1>5, <1>6, <1>7 DEF RestTyped

LEMMA CloseOnlyRest ==
  ASSUME TypeOK, NEW closing \in SUBSET Ends, CloseOnly(closing), StartTimer, timedOut' \subseteq Ends
  PROVE  RestTyped
BY TimerTyped DEF CloseOnly, TypeOK, RestTyped

LEMMA CompleteIsEnds == ASSUME NEW counts PROVE Complete(counts) \subseteq Ends
BY DEF Complete

LEMMA GraceOverIsEnds == ASSUME NEW now PROVE GraceOver(now) \subseteq Ends
BY DEF GraceOver

\* A step keeps windows apart.
Apart == \A env \in out' \ out, old \in out : env.end > old.end

LEMMA PDataKeeps ==
  ASSUME IInv, NEW s \in Sources, NEW content \in Contents, NEW now \in Times,
         PData(s, content, now)
  PROVE  IInv' /\ Apart
<1> DEFINE counts == Carried(EndsOf(New(s, content)))
           windows == open \cup EndsOf(Kept(s, content))
           closing == GraceOver(now) \cup Complete(counts)
<1>1. /\ windows \in SUBSET Ends /\ \A e \in windows : e > emittedUntil
      /\ counts \in [Ends -> Nat] /\ Closes(closing, windows, counts)
  BY PDataCloses
<1>2. closing \in SUBSET Ends
  BY CompleteIsEnds, GraceOverIsEnds
<1>3. TypeOK'
  <2>1. RestTyped
    BY PDataRest DEF IInv
  <2> HIDE DEF counts, windows, closing
  <2> QED
    BY <1>1, <2>1, ClosesTyped
<1>4. \A e \in Ends \ closing, c \in closing : c < e
  <2>1. counts \in [Ends -> Nat]
    BY <1>1
  <2> QED
    BY <2>1, DueIsEarlier
<1> HIDE DEF counts, windows, closing
<1>5. \A e \in windows \ closing, c \in windows \cap closing : c < e
  BY <1>1, <1>4
<1>6. /\ \A e \in open' : e > emittedUntil'
      /\ \A env \in out' : env.end <= emittedUntil'
      /\ \A env \in out' \ out, old \in out : env.end > old.end
  BY <1>1, <1>2, <1>5, ClosesApart
<1>7. EndsOf(held)' \subseteq open'
  BY <1>1 DEF Closes, EndsOf
<1> QED
  BY <1>3, <1>6, <1>7 DEF IInv, Apart

LEMMA CloseOnlyKeeps ==
  ASSUME IInv, NEW closing \in SUBSET Ends, CloseOnly(closing), StartTimer, timedOut' \subseteq Ends,
         \A e \in Ends \ closing, c \in closing : c < e
  PROVE  IInv' /\ Apart
<1>1. Closes(closing, open, messages)
  BY CloseOnlyCloses
<1>2. /\ TypeOK /\ open \in SUBSET Ends /\ messages \in [Ends -> Nat]
      /\ \A e \in open : e > emittedUntil
  BY DEF IInv, TypeOK
<1>3. TypeOK'
  BY <1>1, <1>2, CloseOnlyRest, ClosesTyped
<1>4. \A e \in open \ closing, c \in open \cap closing : c < e
  BY <1>2
<1>5. /\ \A e \in open' : e > emittedUntil'
      /\ \A env \in out' : env.end <= emittedUntil'
      /\ \A env \in out' \ out, old \in out : env.end > old.end
  BY <1>1, <1>2, <1>4, ClosesApart
<1>6. EndsOf(held)' \subseteq open'
  BY <1>1 DEF Closes, EndsOf
<1> QED
  BY <1>3, <1>5, <1>6 DEF IInv, Apart

\* A step that leaves the merger and its output alone keeps them apart.
LEMMA QuietKeeps ==
  ASSUME IInv, UNCHANGED <<merger, out>>, RestTyped, lost' \subseteq Sketches, stopped' \in BOOLEAN
  PROVE  IInv' /\ Apart
<1>1. TypeOK'
  BY DEF IInv, TypeOK, RestTyped, merger, Envelopes, Messages, Sketches
<1>2. /\ EndsOf(held)' \subseteq open'
      /\ \A e \in open' : e > emittedUntil'
      /\ \A env \in out' : env.end <= emittedUntil'
  BY DEF IInv, merger, EndsOf
<1> QED
  BY <1>1, <1>2 DEF IInv, Apart

LEMMA StepKeeps == IInv /\ [Next]_vars => IInv' /\ Apart
<1> SUFFICES ASSUME IInv, [Next]_vars PROVE IInv' /\ Apart
  OBVIOUS
<1> TypeOK
  BY DEF IInv
<1>1. ASSUME NEW s \in Sources, NEW content \in Contents, NEW now \in Times, PData(s, content, now)
      PROVE  IInv' /\ Apart
  BY <1>1, PDataKeeps
<1>2. ASSUME NEW now \in Times, TimerTick(now)
      PROVE  IInv' /\ Apart
  <2> DEFINE closing == GraceOver(now) \cup Complete(messages)
  <2>1. closing \in SUBSET Ends
    BY CompleteIsEnds, GraceOverIsEnds
  <2>2. \A e \in Ends \ closing, c \in closing : c < e
    BY DueIsEarlier DEF TypeOK
  <2>3. CloseOnly(closing) /\ StartTimer /\ timedOut' \subseteq Ends
    BY <1>2 DEF TimerTick, TypeOK
  <2> HIDE DEF closing
  <2> QED
    BY <2>1, <2>2, <2>3, CloseOnlyKeeps
<1>3. ASSUME NEW s \in Sources, NEW content \in Contents, Unread(s, content)
      PROVE  IInv' /\ Apart
  <2>1. Send(s, content) /\ UNCHANGED <<merger, out, passed, timedOut>> /\ stopped' \in BOOLEAN
    BY <1>3 DEF Unread
  <2>2. /\ New(s, content) \subseteq Sketches /\ scalars' \subseteq Messages /\ received' \subseteq Sketches
        /\ sent' \in [Sources -> [count : Nat, last : Nat]] /\ repeated' \in BOOLEAN
    BY <2>1, SendMoves
  <2>3. lost' \subseteq Sketches /\ timer' \in BOOLEAN
    BY <1>3, <2>2, TimerTyped DEF Unread, TypeOK
  <2>4. RestTyped
    BY <2>1, <2>2, <2>3 DEF RestTyped, TypeOK, merger
  <2> QED
    BY <2>1, <2>3, <2>4, QuietKeeps
<1>4. ASSUME Shutdown PROVE IInv' /\ Apart
  <2>1. CloseOnly(Ends) /\ StartTimer /\ timedOut' \subseteq Ends
    BY <1>4 DEF Shutdown, TypeOK
  <2> QED
    BY <2>1, CloseOnlyKeeps
<1>5. ASSUME OtherControl PROVE IInv' /\ Apart
  <2>1. RestTyped /\ lost' \subseteq Sketches /\ stopped' \in BOOLEAN
    BY <1>5, TimerTyped DEF OtherControl, RestTyped, TypeOK, merger
  <2> QED
    BY <1>5, <2>1, QuietKeeps DEF OtherControl
<1>6. ASSUME UNCHANGED vars PROVE IInv' /\ Apart
  <2>1. RestTyped /\ lost' \subseteq Sketches /\ stopped' \in BOOLEAN
    BY <1>6 DEF vars, RestTyped, TypeOK, merger
  <2> QED
    BY <1>6, <2>1, QuietKeeps DEF vars
<1> QED
  BY <1>1, <1>2, <1>3, <1>4, <1>5, <1>6 DEF Next

LEMMA InitIInv == Init => IInv
<1> SUFFICES ASSUME Init PROVE IInv
  OBVIOUS
<1>1. /\ messages \in [Ends -> Nat]
      /\ sent \in [Sources -> [count : Nat, last : Nat]]
  BY DEF Init
<1>2. TypeOK
  BY <1>1 DEF Init, TypeOK
<1> QED
  BY <1>2 DEF Init, IInv, EndsOf

\* A window comes out once, and windows come out in order, for any sources,
\* messages, clocks and failures.
THEOREM OnceInOrder == Spec => WindowsInOrder
<1>1. IInv /\ [Next]_vars => [\A env \in out' \ out : \A old \in out : env.end > old.end]_vars
  BY StepKeeps DEF Apart
<1>2. IInv /\ [Next]_vars => IInv'
  BY StepKeeps
<1> QED
  BY InitIInv, <1>1, <1>2, PTL DEF Spec, WindowsInOrder

-----------------------------------------------------------------------------
(* The counts tell the truth: unless a source sends a window twice, no window *)
(* is counted more often than sources have got to it.                      *)

\* The sources that have sent window e or a later one, at a state of `sent`.
Reached(state, e) == {s \in Sources : state[s].last >= e}

Truthful == ~repeated => \A e \in Ends : messages[e] <= Cardinality(Reached(sent, e))

\* If only counts close windows, every source has got to the last one emitted.
AllAtEmitted ==
  Quorum = Cardinality(Sources) /\ ~repeated /\ timedOut = {} =>
    \A s \in Sources : sent[s].last >= emittedUntil

CountInv == IInv /\ Truthful /\ EverySourceIn /\ AllAtEmitted /\ LateHasACause

SentType == [Sources -> [count : Nat, last : Nat]]

LEMMA SourcesFinite == IsFiniteSet(Sources) /\ Ends \subseteq Nat
BY ConstantsAssumption DEF ConstantsAssumption

\* As many as there are: all of them.
LEMMA AllReached ==
  ASSUME NEW state, NEW e, Cardinality(Reached(state, e)) >= Cardinality(Sources)
  PROVE  \A s \in Sources : state[s].last >= e
<1>1. Reached(state, e) \in SUBSET Sources
  BY DEF Reached
<1>2. /\ IsFiniteSet(Reached(state, e))
      /\ Cardinality(Reached(state, e)) <= Cardinality(Sources)
      /\ Cardinality(Sources) = Cardinality(Reached(state, e)) => Sources = Reached(state, e)
  BY <1>1, SourcesFinite, FS_Subset
<1>3. Cardinality(Reached(state, e)) \in Nat /\ Cardinality(Sources) \in Nat
  BY <1>2, SourcesFinite, FS_CardinalityType
<1>4. Sources = Reached(state, e)
  BY <1>2, <1>3
<1> QED
  BY <1>4 DEF Reached

\* Sources only move on, so more of them reach a window.
LEMMA ReachedGrows ==
  ASSUME NEW before \in SentType, NEW after \in SentType, NEW e \in Nat,
         \A s \in Sources : after[s].last >= before[s].last
  PROVE  /\ Cardinality(Reached(before, e)) <= Cardinality(Reached(after, e))
         /\ \A s \in Reached(after, e) \ Reached(before, e) :
              Cardinality(Reached(before, e)) + 1 <= Cardinality(Reached(after, e))
<1>1. Reached(before, e) \subseteq Reached(after, e)
  BY DEF Reached, SentType
<1>2. Reached(before, e) \in SUBSET Sources /\ Reached(after, e) \in SUBSET Sources
  BY DEF Reached
<1>3. IsFiniteSet(Reached(before, e)) /\ IsFiniteSet(Reached(after, e))
  BY <1>2, SourcesFinite, FS_Subset
<1>4. Cardinality(Reached(before, e)) <= Cardinality(Reached(after, e))
  BY <1>1, <1>3, FS_Subset
<1>5. ASSUME NEW s \in Reached(after, e) \ Reached(before, e)
      PROVE  Cardinality(Reached(before, e)) + 1 <= Cardinality(Reached(after, e))
  <2>1. Reached(before, e) \cup {s} \in SUBSET Reached(after, e)
    BY <1>1
  <2>2. Cardinality(Reached(before, e) \cup {s}) = Cardinality(Reached(before, e)) + 1
    BY <1>3, FS_AddElement
  <2>3. Cardinality(Reached(before, e) \cup {s}) <= Cardinality(Reached(after, e))
    BY <1>3, <2>1, FS_Subset
  <2> QED
    BY <2>2, <2>3
<1> QED
  BY <1>4, <1>5

\* A message counts for a window its source has not sent before.
LEMMA CountsStayTrue ==
  ASSUME TypeOK, Truthful, NEW s \in Sources, NEW content \in Contents, Send(s, content), ~repeated'
  PROVE  \A e \in Ends :
           Carried(EndsOf(New(s, content)))[e] <= Cardinality(Reached(sent', e))
<1> DEFINE ends == EndsOf(New(s, content))
           counts == Carried(ends)
<1> USE SourcesFinite
<1>1. /\ sent \in SentType /\ sent' \in SentType /\ ends \subseteq Ends
      /\ \A t \in Sources : sent'[t].last >= sent[t].last
      /\ \A e \in ends : sent'[s].last >= e
  BY SendMoves DEF SentType, TypeOK
<1>2. ~repeated /\ sent[s].last \notin ends
  BY DEF Send
<1>3. \A e \in ends : e > sent[s].last
  BY <1>2 DEF Send, InOrder
<1>4. SUFFICES ASSUME NEW e \in Ends
               PROVE  counts[e] <= Cardinality(Reached(sent', e))
  OBVIOUS
<1> HIDE DEF ends
<1>5. e \in Nat /\ messages[e] \in Nat /\ messages[e] <= Cardinality(Reached(sent, e))
  BY <1>2 DEF TypeOK, Truthful
<1>6. /\ Cardinality(Reached(sent, e)) <= Cardinality(Reached(sent', e))
      /\ \A t \in Reached(sent', e) \ Reached(sent, e) :
           Cardinality(Reached(sent, e)) + 1 <= Cardinality(Reached(sent', e))
  BY <1>1, <1>5, ReachedGrows
<1>7. /\ Reached(sent, e) \in SUBSET Sources
      /\ Reached(sent', e) \in SUBSET Sources
  BY DEF Reached
<1>8. Cardinality(Reached(sent, e)) \in Nat /\ Cardinality(Reached(sent', e)) \in Nat
  BY <1>7, FS_Subset, FS_CardinalityType
<1>9. CASE e \in ends
  <2>1. sent[s].last \in Nat /\ sent'[s].last \in Nat
    BY <1>1 DEF SentType
  <2>2. s \in Reached(sent', e) \ Reached(sent, e)
    BY <1>1, <1>3, <1>5, <1>9, <2>1 DEF Reached
  <2>3. counts[e] = messages[e] + 1 \/ counts[e] = messages[e]
    BY DEF Carried
  <2> QED
    BY <1>5, <1>6, <1>8, <2>2, <2>3
<1>10. CASE e \notin ends
  <2>1. counts[e] = messages[e]
    BY <1>10 DEF Carried
  <2> QED
    BY <1>5, <1>6, <1>8, <2>1
<1> QED
  BY <1>9, <1>10

\* What a step that closes windows must know for the counts to stay true.
LEMMA ClosesTruly ==
  ASSUME CountInv, TypeOK', sent' \in SentType,
         NEW closing \in SUBSET Ends, NEW windows \in SUBSET Ends, NEW counts \in [Ends -> Nat],
         Closes(closing, windows, counts),
         timedOut \subseteq timedOut',
         windows \cap (closing \ Complete(counts)) \subseteq timedOut',
         repeated => repeated',
         \A s \in Sources : sent'[s].last >= sent[s].last,
         ~repeated' => \A e \in Ends : counts[e] <= Cardinality(Reached(sent', e))
  PROVE  Truthful' /\ EverySourceIn' /\ AllAtEmitted'
<1> USE SourcesFinite
<1> TypeOK /\ sent \in SentType /\ emittedUntil \in Nat /\ emittedUntil' \in Nat
  BY DEF CountInv, IInv, TypeOK, SentType
<1>1. Truthful'
  <2> SUFFICES ASSUME ~repeated', NEW e \in Ends
               PROVE  messages'[e] <= Cardinality(Reached(sent', e))
    BY DEF Truthful, Reached
  <2>1. Cardinality(Reached(sent', e)) \in Nat
    <3> Reached(sent', e) \in SUBSET Sources
      BY DEF Reached
    <3> QED
      BY FS_Subset, FS_CardinalityType
  <2>2. messages'[e] = 0 \/ messages'[e] = counts[e]
    BY DEF Closes
  <2>3. counts[e] <= Cardinality(Reached(sent', e))
    OBVIOUS
  <2>4. CASE messages'[e] = 0
    BY <2>1, <2>4
  <2>5. CASE messages'[e] = counts[e]
    BY <2>3, <2>5
  <2> QED
    BY <2>2, <2>4, <2>5
<1>2. ASSUME Quorum = Cardinality(Sources), ~repeated', NEW e \in Complete(counts)
      PROVE  \A s \in Sources : sent'[s].last >= e
  <2>1. e \in Ends
    BY DEF Complete
  <2>2. PICK c \in Ends : e <= c /\ counts[c] >= Quorum
    BY DEF Complete
  <2>3. counts[c] <= Cardinality(Reached(sent', c)) /\ counts[c] \in Nat
    BY <1>2
  <2>4. Cardinality(Reached(sent', c)) \in Nat /\ Cardinality(Sources) \in Nat
    <3> Reached(sent', c) \in SUBSET Sources
      BY DEF Reached
    <3> QED
      BY FS_Subset, FS_CardinalityType
  <2>5. Cardinality(Reached(sent', c)) >= Cardinality(Sources)
    BY <1>2, <2>2, <2>3, <2>4
  <2>6. \A s \in Sources : sent'[s].last >= c
    BY <2>5, AllReached
  <2> QED
    BY <2>1, <2>2, <2>6 DEF SentType
<1>3. EverySourceIn'
  <2> SUFFICES ASSUME Quorum = Cardinality(Sources), ~repeated', NEW env \in out',
                      env.end \notin timedOut', NEW s \in Sources
               PROVE  sent'[s].last >= env.end
    BY DEF EverySourceIn
  <2>1. CASE env \in out
    <3>1. sent[s].last >= env.end /\ env.end \in Nat
      BY <2>1 DEF CountInv, EverySourceIn, TypeOK, Envelopes
    <3> QED
      BY <3>1 DEF SentType
  <2>2. CASE env \notin out
    <3>1. env.end \in windows \cap closing
      BY <2>2 DEF Closes
    <3>2. env.end \in Complete(counts)
      BY <3>1
    <3> QED
      BY <1>2, <3>2
  <2> QED
    BY <2>1, <2>2
<1>4. AllAtEmitted'
  <2> SUFFICES ASSUME Quorum = Cardinality(Sources), ~repeated', timedOut' = {}, NEW s \in Sources
               PROVE  sent'[s].last >= emittedUntil'
    BY DEF AllAtEmitted
  <2>1. CASE emittedUntil' = emittedUntil
    <3>1. sent[s].last >= emittedUntil
      BY DEF CountInv, AllAtEmitted
    <3> QED
      BY <2>1, <3>1 DEF SentType
  <2>2. CASE emittedUntil' \in windows \cap closing
    <3>1. emittedUntil' \in Complete(counts)
      BY <2>2
    <3> QED
      BY <1>2, <3>1
  <2> QED
    BY <2>1, <2>2 DEF Closes
<1> QED
  BY <1>1, <1>3, <1>4

LEMMA PDataCounts ==
  ASSUME CountInv, TypeOK', NEW s \in Sources, NEW content \in Contents, NEW now \in Times,
         PData(s, content, now)
  PROVE  Truthful' /\ EverySourceIn' /\ AllAtEmitted' /\ LateHasACause'
<1> DEFINE new == New(s, content)
           counts == Carried(EndsOf(new))
           windows == open \cup EndsOf(Kept(s, content))
           closing == GraceOver(now) \cup Complete(counts)
<1> TypeOK /\ IInv /\ Send(s, content)
  BY DEF CountInv, IInv, PData
<1>1. /\ windows \in SUBSET Ends /\ counts \in [Ends -> Nat]
      /\ Closes(closing, windows, counts)
  BY PDataCloses
<1>2. closing \in SUBSET Ends
  BY CompleteIsEnds, GraceOverIsEnds
<1>3. timedOut' = timedOut \cup (windows \cap (GraceOver(now) \ Complete(counts)))
  BY DEF PData, Kept
<1>4. timedOut \subseteq timedOut' /\ windows \cap (closing \ Complete(counts)) \subseteq timedOut'
  BY <1>3
<1>5. /\ sent' \in SentType /\ (repeated => repeated')
      /\ \A t \in Sources : sent'[t].last >= sent[t].last
  BY SendMoves DEF SentType
<1>6. ~repeated' => \A e \in Ends : counts[e] <= Cardinality(Reached(sent', e))
  BY CountsStayTrue DEF CountInv
<1>7. LateHasACause'
  <2> SUFFICES ASSUME Quorum = Cardinality(Sources), late' # {}, ~repeated', timedOut' = {}
               PROVE  FALSE
    BY DEF LateHasACause
  <2>1. late = {} /\ timedOut = {} /\ ~repeated
    BY <1>4, <1>5 DEF CountInv, LateHasACause
  <2>2. PICK x \in new : x.end <= emittedUntil
    BY <2>1 DEF PData, Late
  <2>3. x.end \in EndsOf(new) /\ x.end \in Ends
    BY SendMoves DEF EndsOf
  <2>4. x.end > sent[s].last
    BY <2>3 DEF Send, InOrder
  <2>5. sent[s].last >= emittedUntil
    BY <2>1 DEF CountInv, AllAtEmitted
  <2>6. x.end \in Nat /\ sent[s].last \in Nat /\ emittedUntil \in Nat
    BY <2>3, SourcesFinite DEF TypeOK
  <2> QED
    BY <2>2, <2>4, <2>5, <2>6
<1> HIDE DEF new, counts, windows, closing
<1> QED
  BY <1>1, <1>2, <1>4, <1>5, <1>6, <1>7, ClosesTruly

LEMMA CloseOnlyCounts ==
  ASSUME CountInv, TypeOK', NEW closing \in SUBSET Ends, CloseOnly(closing),
         timedOut \subseteq timedOut',
         open \cap (closing \ Complete(messages)) \subseteq timedOut'
  PROVE  Truthful' /\ EverySourceIn' /\ AllAtEmitted' /\ LateHasACause'
<1> IInv /\ TypeOK
  BY DEF CountInv, IInv
<1>1. Closes(closing, open, messages)
  BY CloseOnlyCloses
<1>2. /\ open \in SUBSET Ends /\ messages \in [Ends -> Nat] /\ sent \in SentType
      /\ sent' = sent /\ repeated' = repeated /\ late' = late
  BY DEF CloseOnly, TypeOK, SentType
<1>3. /\ \A s \in Sources : sent'[s].last >= sent[s].last
      /\ ~repeated' => \A e \in Ends : messages[e] <= Cardinality(Reached(sent', e))
  BY <1>2 DEF SentType, CountInv, Truthful
<1>4. LateHasACause'
  BY <1>2 DEF CountInv, LateHasACause
<1> QED
  BY <1>1, <1>2, <1>3, <1>4, ClosesTruly

\* Sources that move on while the merger stays keep the counts true.
LEMMA QuietCounts ==
  ASSUME CountInv, TypeOK', UNCHANGED <<merger, out, timedOut>>, sent' \in SentType,
         repeated => repeated',
         \A s \in Sources : sent'[s].last >= sent[s].last
  PROVE  Truthful' /\ EverySourceIn' /\ AllAtEmitted' /\ LateHasACause'
<1> USE SourcesFinite
<1> TypeOK /\ sent \in SentType
  BY DEF CountInv, IInv, TypeOK, SentType
<1>1. /\ late' = late /\ emittedUntil' = emittedUntil /\ messages' = messages
      /\ out' = out /\ timedOut' = timedOut
  BY DEF merger
<1>2. Truthful'
  <2> SUFFICES ASSUME ~repeated', NEW e \in Ends
               PROVE  messages'[e] <= Cardinality(Reached(sent', e))
    BY DEF Truthful, Reached
  <2>1. messages[e] <= Cardinality(Reached(sent, e)) /\ messages[e] \in Nat
    BY DEF CountInv, Truthful, TypeOK
  <2>2. Cardinality(Reached(sent, e)) <= Cardinality(Reached(sent', e))
    BY ReachedGrows
  <2>3. Cardinality(Reached(sent, e)) \in Nat /\ Cardinality(Reached(sent', e)) \in Nat
    <3> Reached(sent, e) \in SUBSET Sources /\ Reached(sent', e) \in SUBSET Sources
      BY DEF Reached
    <3> QED
      BY FS_Subset, FS_CardinalityType
  <2> QED
    BY <1>1, <2>1, <2>2, <2>3
<1>3. EverySourceIn'
  <2> SUFFICES ASSUME Quorum = Cardinality(Sources), ~repeated', NEW env \in out',
                      env.end \notin timedOut', NEW s \in Sources
               PROVE  sent'[s].last >= env.end
    BY DEF EverySourceIn
  <2>1. sent[s].last >= env.end /\ env.end \in Nat
    BY <1>1 DEF CountInv, EverySourceIn, TypeOK, Envelopes
  <2> QED
    BY <2>1 DEF SentType
<1>4. AllAtEmitted'
  <2> SUFFICES ASSUME Quorum = Cardinality(Sources), ~repeated', timedOut' = {}, NEW s \in Sources
               PROVE  sent'[s].last >= emittedUntil'
    BY DEF AllAtEmitted
  <2>1. sent[s].last >= emittedUntil /\ emittedUntil \in Nat
    BY <1>1 DEF CountInv, AllAtEmitted, TypeOK
  <2> QED
    BY <1>1, <2>1 DEF SentType
<1>5. LateHasACause'
  BY <1>1 DEF CountInv, LateHasACause
<1> QED
  BY <1>2, <1>3, <1>4, <1>5

LEMMA StepCounts == CountInv /\ [Next]_vars => CountInv'
<1> SUFFICES ASSUME CountInv, [Next]_vars PROVE CountInv'
  OBVIOUS
<1>1. IInv' /\ TypeOK'
  BY StepKeeps DEF CountInv, IInv
<1> TypeOK /\ sent \in SentType
  BY DEF CountInv, IInv, TypeOK, SentType
<1> DEFINE Goal == Truthful' /\ EverySourceIn' /\ AllAtEmitted' /\ LateHasACause'
<1> SUFFICES Goal
  BY <1>1 DEF CountInv
<1>2. ASSUME NEW s \in Sources, NEW content \in Contents, NEW now \in Times, PData(s, content, now)
      PROVE  Goal
  BY <1>1, <1>2, PDataCounts
<1>3. ASSUME NEW now \in Times, TimerTick(now)
      PROVE  Goal
  <2> DEFINE closing == GraceOver(now) \cup Complete(messages)
  <2>1. closing \in SUBSET Ends
    BY CompleteIsEnds, GraceOverIsEnds
  <2>2. /\ CloseOnly(closing) /\ timedOut \subseteq timedOut'
        /\ open \cap (closing \ Complete(messages)) \subseteq timedOut'
    BY <1>3 DEF TimerTick
  <2> HIDE DEF closing
  <2> QED
    BY <1>1, <2>1, <2>2, CloseOnlyCounts
<1>4. ASSUME NEW s \in Sources, NEW content \in Contents, Unread(s, content)
      PROVE  Goal
  <2>1. Send(s, content) /\ UNCHANGED <<merger, out, timedOut>>
    BY <1>4 DEF Unread
  <2>2. /\ sent' \in SentType /\ (repeated => repeated')
        /\ \A t \in Sources : sent'[t].last >= sent[t].last
    BY <2>1, SendMoves DEF SentType
  <2> QED
    BY <1>1, <2>1, <2>2, QuietCounts
<1>5. ASSUME Shutdown PROVE Goal
  <2>1. /\ CloseOnly(Ends) /\ timedOut \subseteq timedOut'
        /\ open \cap (Ends \ Complete(messages)) \subseteq timedOut'
    BY <1>5 DEF Shutdown
  <2> QED
    BY <1>1, <2>1, CloseOnlyCounts
<1>6. ASSUME OtherControl \/ UNCHANGED vars PROVE Goal
  <2>1. UNCHANGED <<merger, out, timedOut, sent, repeated>>
    BY <1>6 DEF OtherControl, vars
  <2>2. \A t \in Sources : sent'[t].last >= sent[t].last
    BY <2>1 DEF SentType
  <2> QED
    BY <1>1, <2>1, <2>2, QuietCounts
<1> QED
  BY <1>2, <1>3, <1>4, <1>5, <1>6 DEF Next

LEMMA InitCounts == Init => CountInv
<1> SUFFICES ASSUME Init PROVE CountInv
  OBVIOUS
<1>1. Truthful
  <2> SUFFICES ASSUME NEW e \in Ends PROVE messages[e] <= Cardinality(Reached(sent, e))
    BY DEF Truthful
  <2>1. Reached(sent, e) \in SUBSET Sources
    BY DEF Reached
  <2>2. Cardinality(Reached(sent, e)) \in Nat
    BY <2>1, SourcesFinite, FS_Subset, FS_CardinalityType
  <2> QED
    BY <2>2 DEF Init
<1>2. EverySourceIn /\ AllAtEmitted /\ LateHasACause
  BY DEF Init, EverySourceIn, AllAtEmitted, LateHasACause
<1> QED
  BY <1>1, <1>2, InitIInv DEF CountInv

\* If the quorum is the number of sources and none sends a window twice, a window
\* that its count closed is one that every source has got to, for any number of
\* sources and windows, messages lost on the way and any clock.
THEOREM WindowsComplete == Spec => []EverySourceIn
<1>1. CountInv => EverySourceIn
  BY DEF CountInv
<1> QED
  BY InitCounts, StepCounts, <1>1, PTL DEF Spec

\* And nothing is late, unless the grace closed a window or a source repeated one.
THEOREM LateExplained == Spec => []LateHasACause
<1>1. CountInv => LateHasACause
  BY DEF CountInv
<1> QED
  BY InitCounts, StepCounts, <1>1, PTL DEF Spec
-----------------------------------------------------------------------------
(* Every sketch that arrived is in one place.                              *)

\* The merged sketches are those that were pooled, each in one envelope.
LEMMA MergedParts ==
  ASSUME NEW pool
  PROVE  /\ SketchesOf(Merged(pool)) = pool
         /\ \A e, f \in Merged(pool) : e # f => e.sketches \cap f.sketches = {}
<1>1. \A env \in Merged(pool) : env.sketches \subseteq pool
  BY DEF Merged
<1>2. ASSUME NEW x \in pool
      PROVE  \E env \in Merged(pool) : x \in env.sketches
  <2> DEFINE env == [end |-> x.end, key |-> x.key,
                     sketches |-> {y \in pool : y.end = x.end /\ y.key = x.key}]
  <2>1. env \in Merged(pool) /\ x \in env.sketches
    BY DEF Merged
  <2>. QED
    BY <2>1
<1>3. \A env \in Merged(pool) : \A x \in env.sketches :
        env = [end |-> x.end, key |-> x.key,
               sketches |-> {y \in pool : y.end = x.end /\ y.key = x.key}]
  BY DEF Merged
<1>4. ASSUME NEW e \in Merged(pool), NEW f \in Merged(pool), NEW x \in e.sketches, x \in f.sketches
      PROVE  e = f
  BY <1>3, <1>4
<1>. QED
  BY <1>1, <1>2, <1>4 DEF SketchesOf

\* An emission sends some envelopes of what it closes, and loses the others.
LEMMA EmitParts ==
  ASSUME NEW closing, NEW windows, NEW pool, NEW arrivals, NEW counts, NEW refused,
         Emit(closing, windows, pool, arrivals, counts, refused)
  PROVE  LET ready == Merged({x \in pool : x.end \in closing}) IN
         /\ held' = {x \in pool : x.end \notin closing}
         /\ \E batch \in SUBSET ready :
              /\ out' = out \cup batch
              /\ lost' = lost \cup refused \cup SketchesOf(ready \ batch)
<1> DEFINE ready == Merged({x \in pool : x.end \in closing})
<1>1. PICK skipped \in SUBSET ready :
        \/ /\ out' = out \cup (ready \ skipped)
           /\ lost' = lost \cup refused \cup SketchesOf(skipped)
        \/ out' = out /\ lost' = lost \cup refused \cup SketchesOf(ready)
  BY DEF Emit
<1>. HIDE DEF ready
<1>2. CASE out' = out \cup (ready \ skipped) /\ lost' = lost \cup refused \cup SketchesOf(skipped)
  <2>1. ready \ (ready \ skipped) = skipped /\ ready \ skipped \in SUBSET ready
    OBVIOUS
  <2>2. \E batch \in SUBSET ready : /\ out' = out \cup batch
                                   /\ lost' = lost \cup refused \cup SketchesOf(ready \ batch)
    BY <1>2, <2>1
  <2>. QED
    BY <2>2 DEF Emit, ready
<1>3. CASE out' = out /\ lost' = lost \cup refused \cup SketchesOf(ready)
  <2>1. ready \ {} = ready /\ {} \in SUBSET ready /\ out' = out \cup {}
    BY <1>3
  <2>2. \E batch \in SUBSET ready : /\ out' = out \cup batch
                                   /\ lost' = lost \cup refused \cup SketchesOf(ready \ batch)
    BY <1>3, <2>1
  <2>. QED
    BY <2>2 DEF Emit, ready
<1>. QED
  BY <1>1, <1>2, <1>3

\* A message brings `new` sketches, some of them late and some refused; the rest
\* is pooled with what is held, and some windows close.
LEMMA EmitAccounts ==
  ASSUME Accounted, NEW new, new \cap received = {}, NEW tardy \in SUBSET new,
         NEW refused \in SUBSET (new \ tardy),
         received' = received \cup new, late' = late \cup tardy,
         NEW closing, NEW windows, NEW arrivals, NEW counts,
         Emit(closing, windows, held \cup (new \ (tardy \cup refused)), arrivals, counts, refused),
         EndsOf(held') \subseteq open'
  PROVE  Accounted'
<1> DEFINE pool == held \cup (new \ (tardy \cup refused))
           taken == {x \in pool : x.end \in closing}
           ready == Merged(taken)
<1>0. /\ held' = {x \in pool : x.end \notin closing}
      /\ \E batch \in SUBSET ready :
           /\ out' = out \cup batch
           /\ lost' = lost \cup refused \cup SketchesOf(ready \ batch)
  <2>1. Emit(closing, windows, pool, arrivals, counts, refused)
    OBVIOUS
  <2>. HIDE DEF pool
  <2>. QED BY <2>1, EmitParts
<1>1. PICK batch \in SUBSET ready :
        /\ out' = out \cup batch
        /\ lost' = lost \cup refused \cup SketchesOf(ready \ batch)
  BY <1>0
<1>2. held' = {x \in pool : x.end \notin closing}
  BY <1>0
<1>3. /\ SketchesOf(ready) = taken
      /\ \A e, f \in ready : e # f => e.sketches \cap f.sketches = {}
  <2>. HIDE DEF pool, taken
  <2>. QED BY MergedParts
<1>4. held' \cup taken = pool /\ held' \cap taken = {} /\ taken \subseteq pool
  BY <1>2
<1>. HIDE DEF ready, taken
<1> DEFINE went == SketchesOf(batch)
           gone == SketchesOf(ready \ batch)
<1>5. went \cup gone = taken /\ went \cap gone = {}
  BY <1>1, <1>3 DEF SketchesOf
<1>6. SketchesOf(out') = SketchesOf(out) \cup went
  BY <1>1 DEF SketchesOf
<1>7. \A e, f \in out' : e # f => e.sketches \cap f.sketches = {}
  <2>1. \A e \in out : e.sketches \subseteq SketchesOf(out)
    BY DEF SketchesOf
  <2>2. \A e \in batch : e.sketches \subseteq pool
    BY <1>1, <1>3, <1>4 DEF SketchesOf
  <2>3. pool \cap SketchesOf(out) = {}
    BY DEF Accounted
  <2>4. \A e, f \in batch : e # f => e.sketches \cap f.sketches = {}
    BY <1>1, <1>3
  <2>. HIDE DEF pool
  <2>5. \A e \in out, f \in batch : e.sketches \cap f.sketches = {}
    BY <2>1, <2>2, <2>3
  <2>. QED
    BY <1>1, <2>4, <2>5 DEF Accounted
<1>8. lost' = lost \cup refused \cup gone
  BY <1>1
<1>. HIDE DEF went, gone
<1>9. received' = held' \cup SketchesOf(out') \cup late' \cup lost'
  BY <1>4, <1>5, <1>6, <1>8 DEF Accounted
<1>10. /\ late' \cap lost' = {}
       /\ held' \cap (SketchesOf(out') \cup late' \cup lost') = {}
       /\ SketchesOf(out') \cap (late' \cup lost') = {}
  BY <1>4, <1>5, <1>6, <1>8 DEF Accounted
<1>. QED
  BY <1>7, <1>9, <1>10 DEF Accounted, SketchesOf, EndsOf

\* A source numbers its messages, so that no sketch arrives twice.
Numbered == \A x \in received : x.no <= sent[x.from].count

AInv == IInv /\ Numbered /\ Accounted

LEMMA SendNumbers ==
  ASSUME AInv, NEW s \in Sources, NEW content \in Contents, Send(s, content)
  PROVE  /\ New(s, content) \cap received = {}
         /\ received' = received \cup New(s, content)
         /\ Numbered'
<1>1. TypeOK /\ sent[s] \in [count : Nat, last : Nat] /\ sent[s].count < MaxMessages
  BY DEF AInv, IInv, TypeOK, Send
<1>2. \A x \in New(s, content) : x.from = s /\ x.no = sent[s].count + 1
  BY DEF New
<1>3. /\ sent'[s].count = sent[s].count + 1
      /\ \A t \in Sources : t # s => sent'[t] = sent[t]
  BY <1>1 DEF Send, TypeOK
<1>4. \A x \in received : x.from \in Sources /\ x.no \in Nat /\ x.no <= sent[x.from].count
  BY <1>1 DEF AInv, Numbered, TypeOK, Sketches
<1>5. New(s, content) \cap received = {}
  BY <1>1, <1>2, <1>4
<1>6. received' = received \cup New(s, content)
  BY DEF Send
<1>7. Numbered'
  BY <1>1, <1>2, <1>3, <1>4, <1>6 DEF Numbered
<1>. QED
  BY <1>5, <1>6, <1>7

LEMMA PDataAccounts ==
  ASSUME AInv, NEW s \in Sources, NEW content \in Contents, NEW now \in Times,
         PData(s, content, now)
  PROVE  Numbered' /\ Accounted'
<1> DEFINE new == New(s, content)
           kept == Kept(s, content)
           counts == Carried(EndsOf(new))
           windows == open \cup EndsOf(kept)
           closing == GraceOver(now) \cup Complete(counts)
<1>1. new \cap received = {} /\ received' = received \cup new /\ Numbered'
  BY SendNumbers DEF PData
<1>2. PICK refused \in SUBSET kept :
        Emit(closing, windows, held \cup (kept \ refused), arrived \cup EndsOf(kept),
             counts, refused)
  BY DEF PData, Kept
<1>3. late' = late \cup (new \ kept)
  BY DEF PData, Kept
<1>4. kept \subseteq new
  BY DEF Kept
<1>5. EndsOf(held') \subseteq open'
  <2>1. IInv'
    BY PDataKeeps DEF AInv
  <2>. QED
    BY <2>1 DEF IInv, EndsOf
<1>. HIDE DEF new, kept, counts, windows, closing
<1>6. new \ ((new \ kept) \cup refused) = kept \ refused
      /\ new \ kept \in SUBSET new /\ refused \in SUBSET (new \ (new \ kept))
  BY <1>4
<1>7. Accounted'
  BY <1>1, <1>2, <1>3, <1>5, <1>6, EmitAccounts DEF AInv
<1>. QED
  BY <1>1, <1>7

LEMMA CloseOnlyAccounts ==
  ASSUME AInv, IInv', NEW closing, CloseOnly(closing)
  PROVE  Numbered' /\ Accounted'
<1>1. held \cup ({} \ ({} \cup {})) = held
  OBVIOUS
<1>2. EndsOf(held') \subseteq open'
  BY DEF IInv, EndsOf
<1>3. received' = received \cup {} /\ late' = late \cup {} /\ sent' = sent
  BY DEF CloseOnly
<1>4. Emit(closing, open, held \cup ({} \ ({} \cup {})), arrived, messages, {})
  BY <1>1 DEF CloseOnly
<1>5. Accounted'
  BY <1>2, <1>3, <1>4, EmitAccounts DEF AInv
<1>6. Numbered'
  BY <1>3 DEF AInv, Numbered
<1>. QED
  BY <1>5, <1>6

LEMMA StepAccounts == AInv /\ [Next]_vars => AInv'
<1> SUFFICES ASSUME AInv, [Next]_vars PROVE AInv'
  OBVIOUS
<1>1. IInv'
  BY StepKeeps DEF AInv
<1>2. ASSUME NEW s \in Sources, NEW content \in Contents, NEW now \in Times, PData(s, content, now)
      PROVE  AInv'
  BY <1>1, <1>2, PDataAccounts DEF AInv
<1>3. ASSUME NEW now \in Times, TimerTick(now)
      PROVE  AInv'
  BY <1>1, <1>3, CloseOnlyAccounts DEF TimerTick, AInv
<1>4. CASE Shutdown
  BY <1>1, <1>4, CloseOnlyAccounts DEF Shutdown, AInv
<1>5. ASSUME NEW s \in Sources, NEW content \in Contents, Unread(s, content)
      PROVE  AInv'
  <2>1. /\ New(s, content) \cap received = {} /\ received' = received \cup New(s, content)
        /\ Numbered'
    BY <1>5, SendNumbers DEF Unread
  <2>2. UNCHANGED <<open, held, late, out>> /\ lost' = lost \cup New(s, content)
    BY <1>5 DEF Unread, merger
  <2>3. Accounted'
    BY <2>1, <2>2 DEF AInv, Accounted, SketchesOf, EndsOf
  <2>. QED
    BY <1>1, <2>1, <2>3 DEF AInv
<1>6. CASE OtherControl \/ UNCHANGED vars
  <2>1. UNCHANGED <<open, held, late, out, lost, received, sent>>
    BY <1>6 DEF OtherControl, vars, merger
  <2>. QED
    BY <1>1, <2>1 DEF AInv, Numbered, Accounted, SketchesOf, EndsOf
<1>. QED
  BY <1>2, <1>3, <1>4, <1>5, <1>6 DEF Next

LEMMA InitAccounts == Init => AInv
<1> SUFFICES ASSUME Init PROVE AInv
  OBVIOUS
<1>1. held = {} /\ out = {} /\ late = {} /\ lost = {} /\ received = {}
  BY DEF Init
<1>2. SketchesOf(out) = {} /\ EndsOf(held) = {}
  BY <1>1 DEF SketchesOf, EndsOf
<1>. QED
  BY <1>1, <1>2, InitIInv DEF AInv, Numbered, Accounted

\* Every sketch that arrived is in an open window, in one envelope, late or lost,
\* and in one of these only, whatever fails and whatever closes.
THEOREM NoneAstray == Spec => []Accounted
<1>1. AInv => Accounted
  BY DEF AInv
<1>. QED
  BY <1>1, InitAccounts, StepAccounts, PTL DEF Spec
=============================================================================
