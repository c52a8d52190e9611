---------------------------- MODULE StepperProofs ----------------------------
(***************************************************************************)
(* The motors make exactly the steps of the blocks that are planned, for   *)
(* every size of the segment ring, every block, any number of motors, and  *)
(* every cut of the blocks into segments: PulsesMatch, EventsExact and     *)
(* BlocksKept of Stepper.                                                  *)
(***************************************************************************)
EXTENDS Stepper, FiniteSetTheorems, TLAPS

-----------------------------------------------------------------------------
(* Induction, as a statement about sets: were n the number missing, the    *)
(* successor would map what lies before it injectively into itself without *)
(* the zero.                                                               *)

LEMMA Induction ==
    ASSUME NEW T, 0 \in T, \A n \in Nat : n \in T => n + 1 \in T
    PROVE  \A n \in Nat : n \in T
<1> SUFFICES ASSUME NEW n \in Nat, n \notin T PROVE FALSE
  OBVIOUS
<1> DEFINE A == {i \in 0..n : i \in T}
           f == [x \in A |-> x + 1]
<1>1. 0 \in A /\ A \in SUBSET (0..n)
  OBVIOUS
<1>2. f \in [A -> A \ {0}]
  OBVIOUS
<1>3. ~ \E x, y \in A : x # y /\ f[x] = f[y]
  OBVIOUS
<1> HIDE DEF f, A
<1>4. IsFiniteSet(0..n)
  BY FS_Interval
<1>5. IsFiniteSet(A)
  BY <1>1, <1>4, FS_Subset
<1>6. IsFiniteSet(A \ {0}) /\ Cardinality(A \ {0}) = Cardinality(A) - 1
  BY <1>1, <1>5, FS_RemoveElement
<1>7. Cardinality(A) \in Nat
  BY <1>5, FS_CardinalityType
<1> QED
  BY <1>2, <1>3, <1>5, <1>6, <1>7, FS_PigeonHole

\* A finite set of integers has a greatest one.
LEMMA MaxIsGreatest ==
    ASSUME NEW S \in SUBSET Int, S # {}, IsFiniteSet(S)
    PROVE  Max(S) \in S /\ \A x \in S : x <= Max(S)
<1> DEFINE Has(Q) == \E x \in Q : \A y \in Q : y <= x
           T == {n \in Nat : \A Q \in SUBSET Int :
                   IsFiniteSet(Q) /\ Cardinality(Q) = n /\ Q # {} => Has(Q)}
<1>1. 0 \in T
  <2>1. \A Q \in SUBSET Int : IsFiniteSet(Q) /\ Cardinality(Q) = 0 => Q = {}
    BY FS_EmptySet
  <2> QED
    BY <2>1
<1>2. ASSUME NEW n \in Nat, n \in T PROVE n + 1 \in T
  <2> SUFFICES ASSUME NEW Q \in SUBSET Int, IsFiniteSet(Q), Cardinality(Q) = n + 1, Q # {}
               PROVE  Has(Q)
    BY <1>2
  <2>1. PICK q \in Q : TRUE
    OBVIOUS
  <2>2. IsFiniteSet(Q \ {q}) /\ Cardinality(Q \ {q}) = n /\ Q \ {q} \in SUBSET Int
    <3>1. IsFiniteSet(Q \ {q}) /\ Cardinality(Q \ {q}) = Cardinality(Q) - 1
      BY FS_RemoveElement
    <3>2. Q \ {q} \in SUBSET Int
      OBVIOUS
    <3> QED
      BY <3>1, <3>2
  <2>3. CASE Q = {q}
    BY <2>3
  <2>4. CASE Q # {q}
    <3>1. PICK x \in Q \ {q} : \A y \in Q \ {q} : y <= x
      BY <2>1, <2>2, <2>4, <1>2
    <3>2. q \in Int /\ x \in Int /\ \A y \in Q : y \in Int
      BY <2>1
    <3>3. CASE q <= x
      BY <3>1, <3>3
    <3>4. CASE x < q
      <4>1. \A y \in Q : y <= q
        BY <3>1, <3>2, <3>4
      <4> QED
        BY <4>1, <2>1
    <3> QED
      BY <3>2, <3>3, <3>4
  <2> QED
    BY <2>3, <2>4
<1>3. \A n \in Nat : n \in T
  <2> HIDE DEF T
  <2> QED BY <1>1, <1>2, Induction
<1>4. Has(S)
  BY <1>3, FS_CardinalityType
<1> QED
  BY <1>4 DEF Max

LEMMA EventsTyped ==
    ASSUME NEW b \in [Axes -> Nat]
    PROVE  /\ Events(b) \in Nat /\ \A a \in Axes : b[a] <= Events(b)
           /\ \E a \in Axes : Events(b) = b[a]
<1> DEFINE S == {b[a] : a \in Axes}
<1>0. S \in SUBSET Int /\ S # {}
  BY BlocksAssumption
<1>1. IsFiniteSet(S)
  <2>1. b \in Surjection(Axes, S)
    BY DEF Surjection
  <2> QED
    BY <2>1, BlocksAssumption, FS_Surjection
<1>2. Max(S) \in S /\ \A x \in S : x <= Max(S)
  <2> HIDE DEF S
  <2> QED BY <1>0, <1>1, MaxIsGreatest
<1> QED
  BY <1>2 DEF Events

LEMMA BlockTyped ==
    /\ NoBlock \in [Axes -> Nat] /\ Events(NoBlock) = 0 /\ NoSlot = Scaled(NoBlock)
    /\ \A b \in Blocks : b \in [Axes -> Nat] /\ Events(b) > 0
<1>1. NoBlock \in [Axes -> Nat] /\ \A a \in Axes : NoBlock[a] = 0
  BY DEF NoBlock
<1>2. Events(NoBlock) = 0
  BY <1>1, EventsTyped
<1>3. NoSlot = Scaled(NoBlock)
  BY <1>1, <1>2, SmoothingAssumption DEF NoSlot, Scaled, NoBlock
<1>4. \A b \in Blocks : b \in [Axes -> Nat] /\ Events(b) > 0
  BY EventsTyped, BlocksAssumption
<1> QED
  BY <1>1, <1>2, <1>3, <1>4

-----------------------------------------------------------------------------
(* The ring of segments and the round of the slots.                        *)

Places == 0 .. Segments - 1
Slots == 0 .. Segments - 2

\* How many slots further j is than i.
Dist(i, j) == IF i <= j THEN j - i ELSE j - i + Segments - 1

LEMMA Modulo ==
    \A n \in Nat \ {0} : \A m \in 0..n + n - 1 : m % n = IF m < n THEN m ELSE m - n
<1> SUFFICES ASSUME NEW n \in Nat \ {0}, NEW m \in 0..n + n - 1
             PROVE  m % n = IF m < n THEN m ELSE m - n
  OBVIOUS
<1> QED
  OBVIOUS

LEMMA ModSegments ==
    \A m \in 0..Segments + Segments - 1 :
        m % Segments = IF m < Segments THEN m ELSE m - Segments
<1>1. Segments \in Nat \ {0}
  BY SegmentsAssumption
<1> QED
  BY <1>1, Modulo, Zenon

\* The places between tail t and head h; how far i is behind t.
Off(i, t) == IF i >= t THEN i - t ELSE i - t + Segments
Between(t, h) == {i \in Places : Off(i, t) < Off(h, t)}

LEMMA OffsetIs ==
    ASSUME NEW i \in Places, NEW t \in Places
    PROVE  (i - t + Segments) % Segments = Off(i, t)
<1>1. PICK m \in 0..Segments + Segments - 1 : m = i - t + Segments
  BY SegmentsAssumption DEF Places
<1>2. m % Segments = IF m < Segments THEN m ELSE m - Segments
  BY ModSegments
<1> QED
  BY <1>1, <1>2, SegmentsAssumption DEF Places, Off

LEMMA NextSegmentIs ==
    ASSUME NEW i \in Places
    PROVE  /\ NextSegment(i) = IF i = Segments - 1 THEN 0 ELSE i + 1
           /\ NextSegment(i) \in Places
<1>1. i + 1 \in 0..Segments + Segments - 1
  BY SegmentsAssumption DEF Places
<1>2. (i + 1) % Segments = IF i + 1 < Segments THEN i + 1 ELSE (i + 1) - Segments
  BY <1>1, ModSegments, Zenon
<1> QED
  BY <1>1, <1>2, SegmentsAssumption DEF NextSegment, Places

LEMMA NextSlotIs ==
    ASSUME NEW i \in Slots
    PROVE  /\ NextSlot(i) = IF i = Segments - 2 THEN 0 ELSE i + 1
           /\ NextSlot(i) \in Slots /\ NextSlot(i) # i /\ Dist(i, NextSlot(i)) = 1
<1>1. i + 1 \in 0..(Segments - 1) + (Segments - 1) - 1
  BY SegmentsAssumption DEF Slots
<1>2. PICK n \in Nat \ {0} : n = Segments - 1
  BY SegmentsAssumption
<1>3. PICK m \in 0..n + n - 1 : m = i + 1
  BY <1>1, <1>2
<1>4. m % n = IF m < n THEN m ELSE m - n
  BY <1>3, Modulo, Zenon
<1>5. NextSlot(i) = m % n
  BY <1>2, <1>3 DEF NextSlot
<1>6. NextSlot(i) = IF i = Segments - 2 THEN 0 ELSE i + 1
  BY <1>2, <1>3, <1>4, <1>5, SegmentsAssumption DEF Slots
<1> QED
  BY <1>6, SegmentsAssumption DEF Slots, Dist

LEMMA Distances ==
    ASSUME NEW i \in Slots, NEW j \in Slots, NEW k \in Slots
    PROVE  /\ Dist(i, j) \in Slots /\ (Dist(i, j) = 0 <=> i = j)
           /\ Dist(i, k) <= Dist(i, j) + Dist(j, k)
           /\ NextSlot(j) = i => Dist(i, j) = Segments - 2
BY NextSlotIs, SegmentsAssumption DEF Slots, Dist

\* A smoothed event is made of whole units.
LEMMA WholeUnits ==
    ASSUME NEW d \in Smoothing \cup {1}
    PROVE  Scale \div d \in Nat \ {0} /\ d * (Scale \div d) = Scale
<1>1. d \in Nat \ {0} /\ Scale \in Nat \ {0} /\ Scale % d = 0
  BY SmoothingAssumption
<1> QED
  BY <1>1

Pointers == segHead \in Places /\ segTail \in Places

LEMMA RingIs ==
    /\ Pointers => /\ Waiting = Between(segTail, segHead)
                   /\ \A i \in Places : Offset(i) = Off(i, segTail)
    /\ Pointers' => /\ Waiting' = Between(segTail', segHead')
                    /\ \A i \in Places : Offset(i)' = Off(i, segTail')
<1>1. ASSUME Pointers PROVE \A i \in Places : Offset(i) = Off(i, segTail)
  BY <1>1, OffsetIs DEF Offset, Pointers
<1>2. ASSUME Pointers PROVE Waiting = Between(segTail, segHead)
  BY <1>1, <1>2 DEF Waiting, Between, Pointers, Places
<1>3. ASSUME Pointers' PROVE \A i \in Places : Offset(i)' = Off(i, segTail')
  BY <1>3, OffsetIs DEF Offset, Pointers
<1>4. ASSUME Pointers' PROVE Waiting' = Between(segTail', segHead')
  BY <1>3, <1>4 DEF Waiting, Between, Pointers, Places
<1> QED
  BY <1>1, <1>2, <1>3, <1>4

\* What waits lies from the tail on; the last one is before the head.
LEMMA RingOrdered ==
    ASSUME Pointers
    PROVE  /\ Waiting \subseteq Places /\ segHead \notin Waiting
           /\ segTail \in Waiting <=> segHead # segTail
           /\ Waiting = {} <=> segHead = segTail
           /\ Offset(segTail) = 0
           /\ RingFull <=> Offset(segHead) = Segments - 1
           /\ \A p \in Places : Offset(p) \in Places
           /\ \A p \in Waiting : /\ Offset(p) < Offset(segHead)
                                 /\ Offset(NextSegment(p)) = Offset(p) + 1
                                      \/ Offset(p) = Segments - 1
                                 /\ NextSegment(p) # segHead => NextSegment(p) \in Waiting
           /\ \A p, q \in Places : Offset(p) = Offset(q) => p = q
<1>1. /\ Waiting = Between(segTail, segHead)
      /\ \A i \in Places : Offset(i) = Off(i, segTail)
  BY RingIs
<1>2. /\ Waiting \subseteq Places /\ segHead \notin Waiting
      /\ segTail \in Waiting <=> segHead # segTail
      /\ Waiting = {} <=> segHead = segTail
      /\ Offset(segTail) = 0
      /\ \A p \in Places : Offset(p) \in Places
      /\ \A p \in Waiting : Offset(p) < Offset(segHead)
      /\ \A p, q \in Places : Offset(p) = Offset(q) => p = q
  <2>1. Waiting \subseteq Places /\ \A p \in Places : p \in Waiting <=> Off(p, segTail) < Off(segHead, segTail)
    BY <1>1 DEF Between
  <2>2. \A p \in Places : Off(p, segTail) \in Places /\ (Off(p, segTail) = 0 <=> p = segTail)
    BY SegmentsAssumption DEF Off, Places, Pointers
  <2>3. \A p, q \in Places : Off(p, segTail) = Off(q, segTail) => p = q
    BY SegmentsAssumption DEF Off, Places, Pointers
  <2>4. segTail \in Places /\ segHead \in Places
    BY DEF Pointers
  <2>5. segTail \in Waiting <=> segHead # segTail
    BY <2>1, <2>2, <2>4, SegmentsAssumption DEF Places
  <2>6. Waiting = {} <=> segHead = segTail
    BY <2>1, <2>2, <2>4, <2>5, SegmentsAssumption DEF Places
  <2>7. segHead \notin Waiting /\ \A p \in Waiting : Offset(p) < Offset(segHead)
    BY <1>1, <2>1, <2>2, <2>4, SegmentsAssumption DEF Places
  <2> QED
    BY <1>1, <2>1, <2>2, <2>3, <2>4, <2>5, <2>6, <2>7
<1>3. RingFull <=> Offset(segHead) = Segments - 1
  BY <1>1, NextSegmentIs, SegmentsAssumption DEF RingFull, Off, Places, Pointers
<1>4. ASSUME NEW p \in Waiting
      PROVE  /\ Offset(NextSegment(p)) = Offset(p) + 1 \/ Offset(p) = Segments - 1
             /\ NextSegment(p) # segHead => NextSegment(p) \in Waiting
  <2>1. p \in Places /\ NextSegment(p) \in Places
        /\ NextSegment(p) = IF p = Segments - 1 THEN 0 ELSE p + 1
    BY <1>2, NextSegmentIs
  <2> QED
    BY <1>1, <2>1, SegmentsAssumption DEF Between, Off, Places, Pointers
<1> QED
  BY <1>2, <1>3, <1>4

LEMMA Publishing ==
    ASSUME Pointers, ~RingFull, segHead' = NextSegment(segHead), segTail' = segTail
    PROVE  /\ Pointers' /\ Waiting' = Waiting \cup {segHead} /\ ~(Waiting' = {})
           /\ \A p \in Places : Offset(p)' = Offset(p)
           /\ \A p \in Places : NextSegment(p) = segHead' <=> p = segHead
<1>1. /\ NextSegment(segHead) \in Places /\ segHead \in Places /\ segTail \in Places
      /\ segHead' = IF segHead = Segments - 1 THEN 0 ELSE segHead + 1
      /\ segHead' # segTail
  BY NextSegmentIs DEF Pointers, RingFull
<1>2. Pointers'
  BY <1>1 DEF Pointers
<1>3. /\ Waiting = Between(segTail, segHead) /\ Waiting' = Between(segTail, segHead')
      /\ \A i \in Places : Offset(i) = Off(i, segTail) /\ Offset(i)' = Off(i, segTail)
  BY <1>2, RingIs
<1>4. Waiting' = Waiting \cup {segHead}
  BY <1>1, <1>3, SegmentsAssumption DEF Between, Off, Places
<1>5. \A p \in Places : NextSegment(p) = segHead' <=> p = segHead
  BY <1>1, NextSegmentIs, SegmentsAssumption DEF Places
<1> QED
  BY <1>2, <1>3, <1>4, <1>5

LEMMA Popping ==
    ASSUME Pointers, segHead # segTail, segTail' = NextSegment(segTail), segHead' = segHead
    PROVE  /\ Pointers' /\ Waiting' = Waiting \ {segTail} /\ ~RingFull'
           /\ \A p \in Waiting' : Offset(p)' = Offset(p) - 1
           /\ Offset(segHead)' = Offset(segHead) - 1
<1>1. /\ NextSegment(segTail) \in Places /\ segHead \in Places /\ segTail \in Places
      /\ segTail' = IF segTail = Segments - 1 THEN 0 ELSE segTail + 1
  BY NextSegmentIs DEF Pointers
<1>2. Pointers'
  BY <1>1 DEF Pointers
<1>3. /\ Waiting = Between(segTail, segHead) /\ Waiting' = Between(segTail', segHead)
      /\ \A i \in Places : Offset(i) = Off(i, segTail) /\ Offset(i)' = Off(i, segTail')
  BY <1>2, RingIs
<1>4. Waiting' = Waiting \ {segTail} /\ \A p \in Waiting' : Offset(p)' = Offset(p) - 1
  <2>1. \A p \in Places : /\ (p \in Waiting <=> Off(p, segTail) < Off(segHead, segTail))
                          /\ (p \in Waiting' <=> Off(p, segTail') < Off(segHead, segTail'))
    BY <1>3 DEF Between
  <2>2. Waiting \subseteq Places /\ Waiting' \subseteq Places
    BY <1>3 DEF Between
  <2>3. /\ Off(segTail, segTail) = 0 /\ Off(segTail, segTail') = Segments - 1
        /\ \A p \in Places : p # segTail => Off(p, segTail') = Off(p, segTail) - 1
    BY <1>1, SegmentsAssumption DEF Off, Places
  <2>4. \A p \in Places : Off(p, segTail) \in Places /\ Off(p, segTail') \in Places
    BY <1>1, SegmentsAssumption DEF Off, Places
  <2>5. ASSUME NEW p \in Places PROVE p \in Waiting' <=> p \in Waiting /\ p # segTail
    <3>1. CASE p = segTail
      <4>1. ~ (Off(p, segTail') < Off(segHead, segTail'))
        BY <1>1, <2>3, <2>4, <3>1, SegmentsAssumption DEF Places
      <4> QED
        BY <2>1, <3>1, <4>1
    <3>2. CASE p # segTail
      <4>1. Off(p, segTail') < Off(segHead, segTail') <=> Off(p, segTail) < Off(segHead, segTail)
        BY <1>1, <2>3, <2>4, <3>2, SegmentsAssumption DEF Places
      <4> QED
        BY <2>1, <3>2, <4>1
    <3> QED
      BY <3>1, <3>2
  <2> QED
    BY <1>3, <2>2, <2>3, <2>5
<1>5. Offset(segHead)' = Offset(segHead) - 1
  BY <1>1, <1>3, SegmentsAssumption DEF Off, Places
<1>6. ~RingFull'
  BY <1>1, NextSegmentIs, SegmentsAssumption DEF RingFull, Places
<1> QED
  BY <1>2, <1>4, <1>5, <1>6

LEMMA Standing ==
    ASSUME UNCHANGED <<segHead, segTail>>
    PROVE  /\ Waiting' = Waiting /\ RingFull' = RingFull /\ Pointers' = Pointers
           /\ \A p : Offset(p)' = Offset(p)
BY DEF Waiting, RingFull, Pointers, Offset

-----------------------------------------------------------------------------
(* The names of Tick's LET, for use in proofs.                             *)

Segment == segs[segTail]
Block == slots[Segment.slot]
New == ~exec /\ Begins(Segment)
Rate == IF exec THEN stride ELSE [a \in Axes |-> Block.steps[a] \div Segment.d]
Count == IF exec THEN stepCount ELSE Segment.n
Sum(a) == Rate[a] + IF New THEN CounterStart(Block.events) ELSE counter[a]
Due == {a \in Axes : Sum(a) > Block.events}
One(a) == IF a \in Due THEN 1 ELSE 0

LEMMA TickIs ==
    ASSUME Tick
    PROVE  /\ running /\ (exec \/ segHead # segTail)
           /\ execSlot' = Segment.slot
           /\ stride' = (IF Count = 1 THEN NoBlock ELSE Rate)
           /\ counter' = [a \in Axes |-> Sum(a) - One(a) * Block.events]
           /\ outbits' = Due
           /\ stepCount' = Count - 1
           /\ exec' = (Count # 1)
           /\ segTail' = (IF Count = 1 THEN NextSegment(segTail) ELSE segTail)
           /\ segs' = (IF Count = 1 THEN [segs EXCEPT ![segTail] = NoSegment] ELSE segs)
           /\ doing' = (IF New THEN [a \in Axes |-> Block.steps[a] \div Scale] ELSE doing)
           /\ ran' = (Scale \div Segment.d) + (IF New THEN 0 ELSE ran)
           /\ moved' = [a \in Axes |-> One(a) + IF New THEN 0 ELSE moved[a]]
           /\ owed' = [a \in Axes |-> owed[a] + One(a) - IF a \in outbits THEN 1 ELSE 0]
           /\ UNCHANGED <<main, segHead, running, cycleStop, killed>>
<1> DEFINE sum == [a \in Axes |-> Rate[a] + IF New THEN CounterStart(Block.events) ELSE counter[a]]
           due == {a \in Axes : sum[a] > Block.events}
           O(a) == IF a \in due THEN 1 ELSE 0
<1>1. due = Due
  BY DEF Due, Sum
<1>2. /\ counter' = [a \in Axes |-> sum[a] - O(a) * Block.events]
      /\ outbits' = due
      /\ moved' = [a \in Axes |-> O(a) + IF New THEN 0 ELSE moved[a]]
      /\ owed' = [a \in Axes |-> owed[a] + O(a) - IF a \in outbits THEN 1 ELSE 0]
  BY Zenon DEF Tick, Segment, Block, New, Rate, Count
<1>3. counter' = [a \in Axes |-> Sum(a) - One(a) * Block.events]
  BY <1>1, <1>2 DEF One, Sum
<1>4. /\ moved' = [a \in Axes |-> One(a) + IF New THEN 0 ELSE moved[a]]
      /\ owed' = [a \in Axes |-> owed[a] + One(a) - IF a \in outbits THEN 1 ELSE 0]
  BY <1>1, <1>2 DEF One
<1>5. /\ running /\ (exec \/ segHead # segTail)
      /\ execSlot' = Segment.slot
      /\ stride' = (IF Count = 1 THEN NoBlock ELSE Rate)
      /\ stepCount' = Count - 1
      /\ exec' = (Count # 1)
      /\ segTail' = (IF Count = 1 THEN NextSegment(segTail) ELSE segTail)
      /\ segs' = (IF Count = 1 THEN [segs EXCEPT ![segTail] = NoSegment] ELSE segs)
      /\ doing' = (IF New THEN [a \in Axes |-> Block.steps[a] \div Scale] ELSE doing)
      /\ ran' = (Scale \div Segment.d) + (IF New THEN 0 ELSE ran)
      /\ UNCHANGED <<main, segHead, running, cycleStop, killed>>
  BY Zenon DEF Tick, Segment, Block, New, Rate, Count
<1> QED
  BY <1>1, <1>2, <1>3, <1>4, <1>5

-----------------------------------------------------------------------------
(* Types, and what the steps need to know to keep them: what control the   *)
(* interrupt runs under, that what waits is a segment, and the pulses.     *)

Proper(segment) == segment.n > 0 /\ segment.d \in Smoothing

Control ==
  /\ running => ~cycleStop /\ control \in {"run", "hold", "end"}
  /\ control = "start" => ~cycleStop
  /\ filling => loaded /\ ~RingFull /\ Proper(segs[segHead]) /\ segs[segHead].slot = prepSlot
  /\ left > 0 /\ ~filling => loaded \/ partial

Filled ==
  /\ \A p \in Waiting : Proper(segs[p])
  /\ exec => segHead # segTail /\ stepCount > 0

\* After a kill a pulse may be missing, but there is never one too many.
Pulsed == \A a \in Axes :
  LET due == IF running /\ a \in outbits THEN 1 ELSE 0
  IN  owed[a] >= due /\ (~killed => owed[a] = due)

Bits == {filling, loaded, partial, running, cycleStop, exec, killed} \subseteq BOOLEAN
Numbers == {left, stepCount, ran} \subseteq Nat
SegmentType == [n : Nat, d : Smoothing \cup {1}, slot : Slots]
SlotType == [events : Nat, steps : [Axes -> Nat]]
PerAxis == {counter, stride, doing, moved, owed} \subseteq [Axes -> Nat]

Typed == TypeOK /\ Control /\ Filled /\ Pulsed

Types ==
  /\ control \in {"idle", "start", "run", "hold", "end", "held"}
  /\ filling \in BOOLEAN /\ loaded \in BOOLEAN /\ partial \in BOOLEAN /\ running \in BOOLEAN
  /\ cycleStop \in BOOLEAN /\ exec \in BOOLEAN /\ killed \in BOOLEAN
  /\ Pointers /\ prepSlot \in Slots /\ execSlot \in Slots
  /\ left \in Nat /\ stepCount \in Nat /\ ran \in Nat
  /\ slots \in [Slots -> SlotType] /\ segs \in [Places -> SegmentType]
  /\ counter \in [Axes -> Nat] /\ stride \in [Axes -> Nat] /\ doing \in [Axes -> Nat]
  /\ moved \in [Axes -> Nat] /\ owed \in [Axes -> Nat] /\ outbits \subseteq Axes

LEMMA TypesAre == (TypeOK <=> Types) /\ (TypeOK' <=> Types')
<1>1. TypeOK <=> Types
  BY DEF TypeOK, Types, Pointers, Places, Slots, SlotType, SegmentType
<1>2. TypeOK' <=> Types'
  BY DEF TypeOK, Types, Pointers, Places, Slots, SlotType, SegmentType
<1> QED
  BY <1>1, <1>2

LEMMA InitTyped == Init => Typed
<1> SUFFICES ASSUME Init PROVE Typed
  OBVIOUS
<1>1. NoBlock \in [Axes -> Nat] /\ NoSlot \in SlotType /\ NoSegment \in SegmentType
  BY BlockTyped, SegmentsAssumption DEF NoSlot, NoSegment, SlotType, SegmentType, Slots
<1>2. Pointers /\ 0 \in Slots
  BY SegmentsAssumption DEF Init, Pointers, Places, Slots
<1>3. slots \in [Slots -> SlotType] /\ segs \in [Places -> SegmentType]
  BY <1>1 DEF Init, Slots, Places
<1>4. TypeOK
  BY <1>1, <1>2, <1>3, TypesAre DEF Init, Types
<1>5. Waiting = {}
  BY <1>2, RingOrdered DEF Init
<1>6. Pulsed
  BY DEF Init, Pulsed, NoBlock
<1> QED
  BY <1>4, <1>5, <1>6 DEF Init, Typed, Control, Filled

LEMMA TypedLoaded == ASSUME Typed, LoadBlock PROVE Typed'
<1> USE DEF Typed, LoadBlock, Preparing
<1>1. /\ loaded' = TRUE /\ partial' = FALSE /\ ~filling
      /\ UNCHANGED <<control, filling, ring, isr, observed, cycleStop, killed>>
  OBVIOUS
<1>2. /\ prepSlot' \in Slots /\ left' \in Nat /\ slots' \in [Slots -> SlotType]
  <2>1. CASE Continues
    BY <2>1, TypesAre DEF Types
  <2>2. CASE ~Continues
    <3>1. PICK b \in Blocks : slots' = [slots EXCEPT ![prepSlot'] = Scaled(b)] /\ left' = Events(b)
      BY <2>2
    <3>2. b \in [Axes -> Nat] /\ Events(b) \in Nat
      BY BlockTyped, EventsTyped
    <3>3. Scaled(b) \in SlotType
      BY <3>2, SmoothingAssumption DEF Scaled, SlotType
    <3>4. prepSlot' \in Slots /\ slots \in [Slots -> SlotType]
      BY <2>2, TypesAre, NextSlotIs DEF Types
    <3> QED
      BY <3>1, <3>2, <3>3, <3>4
  <2> QED
    BY <2>1, <2>2
<1>3. /\ Waiting' = Waiting /\ RingFull' = RingFull /\ Pointers' = Pointers
  BY <1>1, Standing DEF ring
<1>4. TypeOK'
  <2> HIDE DEF LoadBlock, Preparing
  <2> QED
    BY <1>1, <1>2, TypesAre DEF Types, Pointers, isr, ring, observed
<1>5. Control' /\ Filled' /\ Pulsed'
  <2> HIDE DEF LoadBlock, Preparing
  <2> QED
    BY <1>1, <1>3 DEF Control, Filled, Pulsed, isr, ring, observed
<1> QED
  BY <1>4, <1>5

LEMMA TypedWritten == ASSUME Typed, WriteSegment PROVE Typed'
<1>1. PICK n \in 1..left, d \in Smoothing :
         /\ segs' = [segs EXCEPT ![segHead] = [n |-> Ticks(n, d), d |-> d, slot |-> prepSlot]]
         /\ left' = left - n
  BY DEF WriteSegment
<1>2. /\ ~filling /\ ~RingFull /\ loaded /\ filling' = TRUE
      /\ UNCHANGED <<control, loaded, partial, prepSlot, slots, segHead, segTail>>
      /\ UNCHANGED <<isr, observed, cycleStop, killed>>
  BY DEF WriteSegment, Preparing
<1>3. /\ left \in Nat /\ segs \in [Places -> SegmentType] /\ Pointers /\ prepSlot \in Slots
  BY TypesAre DEF Typed, Types
<1>4. d \in Nat /\ n \in Nat /\ n > 0 /\ d > 0 /\ left' \in Nat
  BY <1>1, <1>3, SmoothingAssumption
<1>5. Ticks(n, d) \in Nat /\ Ticks(n, d) > 0
  BY <1>4 DEF Ticks
<1>6. [n |-> Ticks(n, d), d |-> d, slot |-> prepSlot] \in SegmentType
  BY <1>3, <1>5 DEF SegmentType
<1>7. segs' \in [Places -> SegmentType]
  BY <1>1, <1>3, <1>6
<1>8. TypeOK'
  BY <1>2, <1>4, <1>7, TypesAre DEF Typed, Types, Pointers, isr, observed
<1>9. Waiting' = Waiting /\ RingFull' = RingFull
  BY <1>2, Standing
<1>10. segHead \in Places /\ segHead \notin Waiting /\ Waiting \subseteq Places
  BY <1>3, RingOrdered DEF Pointers
<1>11. /\ segs'[segHead] = [n |-> Ticks(n, d), d |-> d, slot |-> prepSlot]
       /\ \A p \in Waiting : segs'[p] = segs[p]
  BY <1>1, <1>3, <1>10
<1>12. Control'
  BY <1>2, <1>5, <1>9, <1>11 DEF Typed, Control, Proper, isr
<1>13. Filled' /\ Pulsed'
  BY <1>2, <1>9, <1>11 DEF Typed, Filled, Pulsed, Proper, isr, observed
<1> QED
  BY <1>8, <1>12, <1>13 DEF Typed

LEMMA TypedPublished == ASSUME Typed, PublishSegment PROVE Typed'
<1>1. /\ filling /\ segHead' = NextSegment(segHead) /\ filling' = FALSE /\ loaded' = (left > 0)
      /\ control' = control \/ (control = "hold" /\ control' = "end")
      /\ UNCHANGED <<partial, prepSlot, left, slots, segs, segTail>>
      /\ UNCHANGED <<isr, observed, cycleStop, killed>>
  BY DEF PublishSegment
<1>2. Pointers /\ ~RingFull /\ Proper(segs[segHead])
  BY <1>1, TypesAre DEF Typed, Types, Control
<1>3. Pointers' /\ Waiting' = Waiting \cup {segHead} /\ ~(Waiting' = {})
  BY <1>1, <1>2, Publishing
<1>4. TypeOK'
  <2>1. loaded' \in BOOLEAN /\ control' \in {"idle", "start", "run", "hold", "end", "held"}
    BY <1>1, TypesAre DEF Typed, Types
  <2>2. /\ UNCHANGED <<partial, prepSlot, left, slots, segs, isr, observed, cycleStop, killed>>
        /\ filling' = FALSE
    BY <1>1
  <2> QED
    BY <1>3, <2>1, <2>2, TypesAre DEF Typed, Types, isr, observed
<1>5. Control'
  BY <1>1 DEF Typed, Control, isr
<1>6. segHead' # segTail'
  BY <1>1, <1>2 DEF RingFull
<1>7. Filled' /\ Pulsed'
  BY <1>1, <1>2, <1>3, <1>6 DEF Typed, Filled, Pulsed, isr, observed
<1> QED
  BY <1>4, <1>5, <1>7 DEF Typed

\* The steps of the main program that leave ring and interrupt alone.
LEMMA TypedMain ==
    ASSUME Typed, HoldBails \/ Replan \/ StartHold \/ ServeCycleStop \/ CycleStart
    PROVE  Typed'
<1>1. UNCHANGED <<prepSlot, left, slots, ring, isr, observed, killed, filling>>
  BY DEF HoldBails, Replan, StartHold, ServeCycleStop, CycleStart, Preparing
<1>2. Waiting' = Waiting /\ RingFull' = RingFull /\ Pointers' = Pointers
  BY <1>1, Standing DEF ring
<1>3. /\ control' \in {"idle", "start", "run", "hold", "end", "held"}
      /\ cycleStop' \in BOOLEAN /\ loaded' \in BOOLEAN /\ partial' \in BOOLEAN
  BY TypesAre DEF Typed, Types, HoldBails, Replan, StartHold, ServeCycleStop, CycleStart, ProfileDropped
<1>4. TypeOK'
  BY <1>1, <1>2, <1>3, TypesAre DEF Typed, Types, ring, isr, observed
<1>5. Filled' /\ Pulsed'
  BY <1>1, <1>2 DEF Typed, Filled, Pulsed, ring, isr, observed
<1>6. (left > 0 /\ ~filling => loaded' \/ partial') /\ (filling => loaded')
  BY <1>1, TypesAre DEF Typed, Types, Control, HoldBails, Replan, StartHold, ServeCycleStop, CycleStart, ProfileDropped
<1>7. (running => ~cycleStop' /\ control' \in {"run", "hold", "end"}) /\ (control' = "start" => ~cycleStop')
  BY DEF Typed, Control, HoldBails, Replan, StartHold, ServeCycleStop, CycleStart
<1>8. Control'
  BY <1>1, <1>2, <1>6, <1>7 DEF Typed, Control, isr, ring
<1> QED
  BY <1>4, <1>5, <1>8 DEF Typed

LEMMA TypedWoken == ASSUME Typed, WakeUp \/ Kill PROVE Typed'
<1>1. /\ UNCHANGED <<filling, loaded, partial, prepSlot, left, slots, ring>>
      /\ UNCHANGED <<exec, execSlot, stepCount, counter, stride, observed, cycleStop>>
  BY DEF WakeUp, Kill, main, ring
<1>2. /\ control' \in {"idle", "start", "run", "hold", "end", "held"}
      /\ running' \in BOOLEAN /\ killed' \in BOOLEAN /\ outbits' \subseteq Axes
  BY TypesAre DEF Typed, Types, WakeUp, Kill, main, OutbitsAtStart
<1>3. TypeOK'
  BY <1>1, <1>2, TypesAre DEF Typed, Types, Pointers, ring, observed
<1>4. Waiting' = Waiting /\ RingFull' = RingFull
  BY <1>1, Standing DEF ring
<1>5. Control' /\ Filled'
  BY <1>1, <1>4 DEF Typed, Control, Filled, WakeUp, Kill, ring, main
<1>6. Pulsed'
  <2>1. owed \in [Axes -> Nat] /\ owed' = owed
    BY <1>1, TypesAre DEF Typed, Types, observed
  <2>2. CASE WakeUp
    <3>1. ~running /\ outbits' = {} /\ killed' = killed
      BY <2>2 DEF Typed, Control, WakeUp, OutbitsAtStart
    <3> QED
      BY <2>1, <3>1 DEF Typed, Pulsed
  <2>3. CASE Kill
    BY <2>1, <2>3 DEF Kill, Pulsed
  <2> QED
    BY <2>2, <2>3
<1> QED
  BY <1>3, <1>5, <1>6 DEF Typed

LEMMA TypedReset == ASSUME Typed, Reset PROVE Typed'
<1>1. NoBlock \in [Axes -> Nat] /\ NoSlot \in SlotType /\ NoSegment \in SegmentType
  BY BlockTyped, SegmentsAssumption DEF NoSlot, NoSegment, SlotType, SegmentType, Slots
<1>2. Pointers' /\ 0 \in Slots
  BY SegmentsAssumption DEF Reset, Pointers, Places, Slots
<1>3. slots' \in [Slots -> SlotType] /\ segs' \in [Places -> SegmentType]
  BY <1>1 DEF Reset, Slots, Places
<1>4. TypeOK'
  <2>1. filling \in BOOLEAN
    BY TypesAre DEF Typed, Types
  <2>2. /\ UNCHANGED filling /\ control' = "idle" /\ killed' = FALSE /\ cycleStop' = FALSE
        /\ loaded' = FALSE /\ partial' = FALSE /\ running' = FALSE /\ exec' = FALSE
        /\ prepSlot' = 0 /\ execSlot' = 0 /\ left' = 0 /\ stepCount' = 0 /\ ran' = 0
        /\ counter' = NoBlock /\ stride' = NoBlock /\ doing' = NoBlock /\ moved' = NoBlock
        /\ owed' = NoBlock /\ outbits' = {}
    BY DEF Reset
  <2> QED
    BY <1>1, <1>2, <1>3, <2>1, <2>2, TypesAre DEF Types
<1>5. Waiting' = {}
  BY <1>2, RingIs, SegmentsAssumption DEF Reset, Between, Off, Places
<1>6. Pulsed'
  BY DEF Reset, Pulsed, NoBlock
<1> QED
  BY <1>4, <1>5, <1>6 DEF Reset, Typed, Control, Filled

LEMMA TypedIdle == ASSUME Typed, GoIdle PROVE Typed'
<1>1. /\ running /\ ~exec /\ segHead = segTail /\ Pulse /\ running' = FALSE /\ cycleStop' = TRUE
      /\ UNCHANGED <<main, ring, exec, execSlot, stepCount, counter, stride, outbits>>
      /\ UNCHANGED <<doing, ran, moved, killed>>
  BY DEF GoIdle
<1>2. /\ owed \in [Axes -> Nat]
      /\ \A a \in Axes : owed[a] >= IF a \in outbits THEN 1 ELSE 0
      /\ \A a \in Axes : ~killed => owed[a] = IF a \in outbits THEN 1 ELSE 0
  BY <1>1, TypesAre DEF Typed, Types, Pulsed
<1>3. owed' = [a \in Axes |-> owed[a] - IF a \in outbits THEN 1 ELSE 0]
  BY <1>1 DEF Pulse
<1>4. owed' \in [Axes -> Nat] /\ Pulsed'
  BY <1>1, <1>2, <1>3 DEF Pulsed
<1>5. Waiting' = Waiting /\ RingFull' = RingFull /\ Pointers' = Pointers
  BY <1>1, Standing DEF ring
<1>6. TypeOK'
  BY <1>1, <1>4, <1>5, TypesAre DEF Typed, Types, main, ring
<1>7. control # "start"
  BY <1>1 DEF Typed, Control
<1>8. Control' /\ Filled'
  BY <1>1, <1>5, <1>7 DEF Typed, Control, Filled, main, ring
<1> QED
  BY <1>4, <1>6, <1>8 DEF Typed

\* What a tick works on.
LEMMA TickTyped ==
    ASSUME Typed, Tick
    PROVE  /\ segHead # segTail /\ segTail \in Waiting /\ Segment \in SegmentType
           /\ Proper(Segment) /\ Block \in SlotType
           /\ Count \in Nat \ {0} /\ Rate \in [Axes -> Nat]
           /\ \A a \in Axes : Sum(a) \in Nat /\ One(a) \in {0, 1}
           /\ Scale \div Segment.d \in Nat \ {0} /\ Scale \div Segment.d <= Scale
           /\ New \in BOOLEAN /\ Segment.slot \in Slots
<1>1. Types
  BY TypesAre DEF Typed
<1>2. segHead # segTail /\ segTail \in Waiting /\ segTail \in Places
  BY <1>1, TickIs, RingOrdered DEF Typed, Filled, Types, Pointers
<1>3. Segment \in SegmentType /\ Proper(Segment)
  BY <1>1, <1>2 DEF Segment, Types, Typed, Filled
<1>4. Segment.slot \in Slots /\ Segment.n \in Nat /\ Segment.d \in Smoothing
  BY <1>3 DEF SegmentType, Proper
<1>5. Block \in SlotType /\ Block.steps \in [Axes -> Nat] /\ Block.events \in Nat
  BY <1>1, <1>4 DEF Block, Types, SlotType
<1>6. Scale \div Segment.d \in Nat \ {0} /\ Segment.d * (Scale \div Segment.d) = Scale
  BY <1>4, WholeUnits
<1>7. Scale \div Segment.d <= Scale /\ Segment.d \in Nat \ {0}
  <2>1. Segment.d \in Nat \ {0}
    BY <1>4, SmoothingAssumption
  <2>2. \A i, j \in Nat \ {0} : j <= i * j
    OBVIOUS
  <2> QED
    BY <1>6, <2>1, <2>2
<1>8. Count \in Nat \ {0}
  BY <1>1, <1>3, <1>4 DEF Count, Types, Typed, Filled, Proper
<1>9. Rate \in [Axes -> Nat]
  <2>1. \A i \in Nat, j \in Nat \ {0} : i \div j \in Nat
    OBVIOUS
  <2>2. \A a \in Axes : Block.steps[a] \div Segment.d \in Nat
    BY <1>5, <1>7, <2>1
  <2> QED
    BY <1>1, <2>2 DEF Rate, Types
<1>10. \A a \in Axes : Sum(a) \in Nat
  <2>1. CounterStart(Block.events) \in Nat
    BY <1>5 DEF CounterStart
  <2>2. counter \in [Axes -> Nat]
    BY <1>1 DEF Types
  <2> QED
    BY <1>9, <2>1, <2>2 DEF Sum
<1>11. \A a \in Axes : One(a) \in {0, 1}
  BY DEF One
<1>12. New \in BOOLEAN
  BY DEF New, Begins
<1> QED
  BY <1>2, <1>3, <1>4, <1>5, <1>6, <1>7, <1>8, <1>9, <1>10, <1>11, <1>12

LEMMA TypedTicked == ASSUME Typed, Tick PROVE Typed'
<1>1. Types
  BY TypesAre DEF Typed
<1>2. counter' \in [Axes -> Nat] /\ moved' \in [Axes -> Nat] /\ doing' \in [Axes -> Nat]
  <2>1. ASSUME NEW a \in Axes PROVE Sum(a) - One(a) * Block.events \in Nat
    <3>1. Sum(a) \in Nat /\ Block.events \in Nat
      BY TickTyped DEF SlotType
    <3>2. CASE a \in Due
      BY <3>1, <3>2 DEF One, Due
    <3>3. CASE a \notin Due
      BY <3>1, <3>3 DEF One
    <3> QED
      BY <3>2, <3>3
  <2>2. counter' \in [Axes -> Nat]
    BY <2>1, TickIs
  <2>3. moved' \in [Axes -> Nat]
    BY <1>1, TickIs, TickTyped DEF Types
  <2>4. doing' \in [Axes -> Nat]
    <3>1. \A i \in Nat, j \in Nat \ {0} : i \div j \in Nat
      OBVIOUS
    <3>2. Scale \in Nat \ {0}
      BY SmoothingAssumption
    <3>3. Block.steps \in [Axes -> Nat]
      BY TickTyped DEF SlotType
    <3>4. [a \in Axes |-> Block.steps[a] \div Scale] \in [Axes -> Nat]
      BY <3>1, <3>2, <3>3
    <3> QED
      BY <1>1, <3>4, TickIs DEF Types
  <2> QED
    BY <2>2, <2>3, <2>4
<1>3. owed' \in [Axes -> Nat] /\ Pulsed'
  <2>1. /\ owed \in [Axes -> Nat] /\ running /\ running' /\ outbits' = Due /\ killed' = killed
        /\ owed' = [a \in Axes |-> owed[a] + One(a) - IF a \in outbits THEN 1 ELSE 0]
    BY <1>1, TickIs DEF Types
  <2>2. \A a \in Axes : LET due == IF a \in outbits THEN 1 ELSE 0
                        IN  owed[a] >= due /\ (~killed => owed[a] = due)
    BY <2>1 DEF Typed, Pulsed
  <2>3. \A a \in Axes : One(a) = IF a \in outbits' THEN 1 ELSE 0
    BY <2>1 DEF One
  <2>4. \A a \in Axes : owed'[a] \in Nat /\ owed'[a] >= One(a) /\ (~killed => owed'[a] = One(a))
    BY <2>1, <2>2, <2>3
  <2>5. Pulsed'
    BY <2>1, <2>3, <2>4 DEF Pulsed
  <2> QED
    BY <2>1, <2>4, <2>5
<1>4. stride' \in [Axes -> Nat] /\ stepCount' \in Nat /\ exec' \in BOOLEAN
  BY TickIs, TickTyped, BlockTyped
<1>5. ran' \in Nat /\ execSlot' \in Slots /\ outbits' \subseteq Axes
  BY <1>1, TickIs, TickTyped DEF Due, Types
<1>6. segs' \in [Places -> SegmentType]
  <2>1. NoSegment \in SegmentType
    BY SegmentsAssumption DEF NoSegment, SegmentType, Slots
  <2> QED
    BY <1>1, <2>1, TickIs DEF Types, Pointers
<1>7. /\ Pointers' /\ Waiting' \subseteq Waiting /\ (~RingFull => ~RingFull')
      /\ \A p \in Waiting' : segs'[p] = segs[p]
      /\ exec' => segHead' # segTail'
  <2>1. CASE Count = 1
    <3>1. segTail' = NextSegment(segTail) /\ segHead' = segHead /\ segHead # segTail /\ ~exec'
      BY <2>1, TickIs, TickTyped
    <3>2. Pointers' /\ Waiting' = Waiting \ {segTail} /\ ~RingFull'
      BY <1>1, <3>1, Popping DEF Types
    <3>3. \A p \in Waiting' : segs'[p] = segs[p]
      <4>1. segs' = [segs EXCEPT ![segTail] = NoSegment]
        BY <2>1, TickIs
      <4>2. Waiting' \subseteq Places
        BY <1>1, <3>2, RingOrdered DEF Types
      <4> QED
        BY <1>1, <3>2, <4>1, <4>2 DEF Types
    <3> QED
      BY <3>1, <3>2, <3>3
  <2>2. CASE Count # 1
    <3>1. UNCHANGED <<segHead, segTail, segs>> /\ segHead # segTail
      BY <2>2, TickIs, TickTyped
    <3> QED
      BY <1>1, <3>1, Standing DEF Types
  <2> QED
    BY <2>1, <2>2
<1>8. TypeOK'
  <2>1. UNCHANGED <<control, filling, loaded, partial, prepSlot, left, slots, running, cycleStop, killed>>
    BY TickIs DEF main
  <2> QED
    BY <1>1, <1>2, <1>3, <1>4, <1>5, <1>6, <1>7, <2>1, TypesAre DEF Types
<1>9. filling => segs'[segHead] = segs[segHead]
  <2>1. segHead \in Places /\ segHead # segTail
    BY <1>1, TickTyped DEF Types, Pointers
  <2> QED
    BY <1>1, <2>1, TickIs DEF Types
<1>10. Control'
  BY <1>7, <1>9, TickIs DEF Typed, Control, main
<1>11. Filled'
  <2>1. exec' => stepCount' > 0
    <3>0. exec' => Count # 1
      BY TickIs, Zenon
    <3>1. stepCount' = Count - 1
      BY TickIs
    <3>2. Count \in Nat \ {0}
      BY TickTyped
    <3> QED
      BY <3>0, <3>1, <3>2
  <2> QED
    BY <1>7, <2>1 DEF Typed, Filled
<1> QED
  BY <1>3, <1>8, <1>10, <1>11 DEF Typed

LEMMA TypedStep == Typed /\ [Next]_vars => Typed'
<1> SUFFICES ASSUME Typed, [Next]_vars PROVE Typed'
  OBVIOUS
<1>1. CASE UNCHANGED vars
  <2>1. Waiting' = Waiting /\ RingFull' = RingFull
    BY <1>1, Standing DEF vars, ring
  <2> QED
    BY <1>1, <2>1 DEF Typed, TypeOK, Control, Filled, Pulsed, vars, main, ring, isr, observed
<1>2. CASE Next
  BY <1>2, TypedLoaded, TypedWritten, TypedPublished, TypedMain, TypedWoken, TypedReset, TypedIdle,
     TypedTicked DEF Next
<1> QED
  BY <1>1, <1>2

\* Every variable keeps its type; no counter runs below zero and no segment or
\* slot outside the rings is used.
THEOREM StepperTyped == Spec => []TypeOK
<1>1. Typed => TypeOK
  BY DEF Typed
<1> QED
  BY <1>1, InitTyped, TypedStep, PTL DEF Spec

\* Every step that sys_position counts has its pulse, and none has two, when
\* the end of motion is told; at most one is outstanding on an axis before
\* (stepper.c, the step_outbits of one tick going out with the next).
THEOREM PulsesAlwaysMatch == Spec => []PulsesMatch
<1>1. Typed => PulsesMatch
  BY DEF Typed, Pulsed, PulsesMatch
<1> QED
  BY <1>1, InitTyped, TypedStep, PTL DEF Spec

-----------------------------------------------------------------------------
(***************************************************************************)
(* The blocks.  c[p] is how much of its block has run when the segment at  *)
(* p has: from segment to segment it grows until the block is complete,    *)
(* then the next segment begins another one.  A slot keeps its block as    *)
(* long as anything waits for it, because a waiting segment is at most as  *)
(* many slots behind the last one as it is segments behind.                *)
(***************************************************************************)
FromBlocks == \A i \in Slots : \E b \in [Axes -> Nat] : slots[i] = Scaled(b)

Apart == \A p, q \in Waiting :
  Offset(p) <= Offset(q) => Dist(segs[p].slot, segs[q].slot) <= Offset(q) - Offset(p)

\* What is still to be published of the block in prepSlot; r units of the
\* block in slot s are run or published, and it was the last one to be.
Rest == Scale * left + Unpublished
Ends(r, s) ==
  IF prepSlot = s THEN r + Rest = slots[s].events
  ELSE /\ r = slots[s].events /\ Rest = slots[prepSlot].events
       /\ Rest > 0 /\ NextSlot(s) = prepSlot /\ ~RingFull

Uncut(p) == segs[p].n * (Scale \div segs[p].d)

Chain(c) ==
  /\ \A p \in Waiting : c[p] <= slots[segs[p].slot].events
  /\ segHead # segTail =>
       c[segTail] = Units(segTail) + IF segs[segTail].slot = execSlot THEN ran ELSE 0
  /\ \A p \in Waiting : NextSegment(p) # segHead =>
       LET q == NextSegment(p)
       IN  IF segs[q].slot = segs[p].slot THEN c[q] = c[p] + Uncut(q)
           ELSE c[q] = Uncut(q) /\ c[p] = slots[segs[p].slot].events
  /\ \A p \in Waiting : NextSegment(p) = segHead => Ends(c[p], segs[p].slot)
  /\ segHead = segTail => Ends(ran, execSlot)

Continued == segHead = segTail \/ segs[segTail].slot = execSlot
Doing == IF Continued THEN slots[execSlot] = Scaled(doing) ELSE Finished
Striding == exec => /\ segs[segTail].slot = execSlot
                    /\ stride = [a \in Axes |-> doing[a] * (Scale \div segs[segTail].d)]

\* What the counters owe to each axis (Bresenham, from half an event on).
Total == Scale * Events(doing)
Counted == \A a \in Axes :
  /\ counter[a] <= Total
  /\ counter[a] + Total * moved[a] = Total \div 2 + doing[a] * ran

Blocked == FromBlocks /\ Apart /\ Doing /\ Striding /\ \E c \in [Places -> Nat] : Chain(c)

\* There is a last segment before the head.
LEMMA LastWaits ==
    ASSUME Pointers, segHead # segTail
    PROVE  \E l \in Waiting : NextSegment(l) = segHead /\ Offset(l) = Offset(segHead) - 1
<1> DEFINE l == IF segHead = 0 THEN Segments - 1 ELSE segHead - 1
<1>1. l \in Places /\ segHead \in Places /\ segTail \in Places
  BY SegmentsAssumption DEF Places, Pointers
<1>2. NextSegment(l) = segHead
  BY <1>1, NextSegmentIs, SegmentsAssumption DEF Places
<1>3. Off(l, segTail) = Off(segHead, segTail) - 1 /\ Off(segHead, segTail) \in Places
  BY <1>1, SegmentsAssumption DEF Places, Off
<1>4. Offset(l) = Offset(segHead) - 1
  BY <1>1, <1>3, RingIs
<1>5. l \in Waiting
  <2>1. Waiting = Between(segTail, segHead)
    BY RingIs
  <2>2. Off(l, segTail) < Off(segHead, segTail)
    BY <1>3, SegmentsAssumption DEF Places
  <2> HIDE DEF l
  <2> QED
    BY <1>1, <2>1, <2>2 DEF Between
<1> HIDE DEF l
<1> QED
  BY <1>2, <1>4, <1>5

\* The block that is being cut is the last one published, or the one behind it.
LEMMA EndsAre ==
    ASSUME Types, Apart, NEW c \in [Places -> Nat], Chain(c)
    PROVE  \E r \in Nat, s \in Slots :
             /\ Ends(r, s)
             /\ segHead = segTail => r = ran /\ s = execSlot
             /\ \A p \in Waiting :
                  /\ NextSegment(p) = segHead => r = c[p] /\ s = segs[p].slot
                  /\ Dist(segs[p].slot, s) <= Offset(segHead) - 1 - Offset(p)
<1>1. Pointers /\ Waiting \subseteq Places /\ segs \in [Places -> SegmentType]
  BY RingOrdered DEF Types
<1>2. CASE segHead = segTail
  <2>1. Waiting = {}
    BY <1>1, <1>2, RingOrdered
  <2> QED
    BY <1>2, <2>1 DEF Chain, Types
<1>3. CASE segHead # segTail
  <2>1. PICK l \in Waiting : NextSegment(l) = segHead /\ Offset(l) = Offset(segHead) - 1
    BY <1>1, <1>3, LastWaits
  <2>2. c[l] \in Nat /\ segs[l].slot \in Slots /\ Ends(c[l], segs[l].slot)
    BY <1>1, <2>1 DEF Chain, SegmentType
  <2>3. ASSUME NEW p \in Waiting, NextSegment(p) = segHead PROVE p = l
    <3>1. /\ p \in Places /\ l \in Places
          /\ NextSegment(p) = IF p = Segments - 1 THEN 0 ELSE p + 1
          /\ NextSegment(l) = IF l = Segments - 1 THEN 0 ELSE l + 1
      BY <1>1, <2>1, NextSegmentIs
    <3> QED
      BY <2>1, <2>3, <3>1, SegmentsAssumption DEF Places
  <2>4. ASSUME NEW p \in Waiting
        PROVE  Dist(segs[p].slot, segs[l].slot) <= Offset(segHead) - 1 - Offset(p)
    <3>1. Offset(p) < Offset(segHead) /\ Offset(p) \in Int /\ Offset(segHead) \in Int
      <4>1. /\ \A i \in Places : Offset(i) \in Places
            /\ \A i \in Waiting : Offset(i) < Offset(segHead)
        BY <1>1, RingOrdered
      <4> QED
        BY <1>1, <4>1 DEF Places, Pointers
    <3>2. Offset(p) <= Offset(l)
      BY <2>1, <3>1
    <3> QED
      BY <2>1, <3>2 DEF Apart
  <2> QED
    BY <1>3, <2>2, <2>3, <2>4
<1> QED
  BY <1>2, <1>3

-----------------------------------------------------------------------------
(* The steps that change nothing of this.                                  *)
LEMMA BlockedSame ==
    ASSUME Blocked, UNCHANGED <<filling, prepSlot, left, slots, segs, segHead, segTail>>,
           UNCHANGED <<exec, execSlot, stepCount, stride, doing, ran>>
    PROVE  Blocked'
<1>1. PICK c \in [Places -> Nat] : Chain(c)
  BY DEF Blocked
<1>2. Waiting' = Waiting /\ RingFull' = RingFull /\ \A p : Offset(p)' = Offset(p)
  BY Standing
<1>3. Rest' = Rest
  BY DEF Rest, Unpublished
<1>4. \A r, s : Ends(r, s) => Ends(r, s)'
  BY <1>2, <1>3 DEF Ends
<1>5. Units(segTail)' = Units(segTail) /\ \A p : Uncut(p)' = Uncut(p)
  BY DEF Units, Uncut
<1>6. Chain(c)'
  BY <1>1, <1>2, <1>4, <1>5 DEF Chain
<1>7. FromBlocks' /\ Apart' /\ Doing' /\ Striding'
  BY <1>2 DEF Blocked, FromBlocks, Apart, Doing, Continued, Finished, Striding
<1> QED
  BY <1>6, <1>7 DEF Blocked

LEMMA CountedSame ==
    Counted /\ UNCHANGED <<counter, moved, doing, ran>> => Counted'
BY DEF Counted, Total

-----------------------------------------------------------------------------
(* The next block: its slot is none that waits or is executed.             *)
LEMMA BlockedLoaded == ASSUME Typed, Blocked, LoadBlock PROVE Blocked' /\ WaitingKept
<1> Types /\ Pointers /\ Waiting \subseteq Places
  BY TypesAre, RingOrdered DEF Typed, Types
<1>1. /\ ~loaded /\ ~filling /\ ~RingFull
      /\ UNCHANGED <<control, filling, ring, isr, observed, cycleStop, killed>>
  BY DEF LoadBlock, Preparing
<1>2. /\ UNCHANGED <<filling, segs, segHead, segTail, exec, execSlot, stepCount, stride, doing, ran>>
  BY <1>1 DEF ring, isr, observed
<1>3. Waiting' = Waiting /\ RingFull' = RingFull /\ \A p : Offset(p)' = Offset(p)
  BY <1>2, Standing
<1>4. CASE Continues
  <2>1. UNCHANGED <<prepSlot, left, slots>>
    BY <1>4 DEF LoadBlock
  <2>2. Blocked'
    BY <1>2, <2>1, BlockedSame
  <2> QED
    BY <1>2, <2>1, <2>2 DEF WaitingKept
<1>5. CASE ~Continues
  <2>1. PICK b \in Blocks : slots' = [slots EXCEPT ![prepSlot'] = Scaled(b)] /\ left' = Events(b)
    BY <1>5 DEF LoadBlock
  <2>2. prepSlot' = NextSlot(prepSlot)
    BY <1>5 DEF LoadBlock
  <2>3. Rest = 0 /\ left = 0
    <3>1. left = 0
      BY <1>1, <1>5 DEF Typed, Control, Types, Continues
    <3> QED
      BY <1>1, <3>1, SmoothingAssumption DEF Rest, Unpublished
  <2>4. PICK c \in [Places -> Nat] : Chain(c)
    BY DEF Blocked
  <2>5. PICK r \in Nat, s \in Slots :
          /\ Ends(r, s)
          /\ segHead = segTail => r = ran /\ s = execSlot
          /\ \A p \in Waiting :
               /\ NextSegment(p) = segHead => r = c[p] /\ s = segs[p].slot
               /\ Dist(segs[p].slot, s) <= Offset(segHead) - 1 - Offset(p)
    BY <2>4, EndsAre DEF Blocked
  <2>6. prepSlot = s /\ r = slots[s].events
    BY <2>3, <2>5 DEF Ends
  <2>7. prepSlot' \in Slots /\ prepSlot' # s /\ NextSlot(s) = prepSlot'
    BY <2>2, <2>6, NextSlotIs
  <2>8. ASSUME NEW p \in Waiting PROVE segs[p].slot \in Slots /\ segs[p].slot # prepSlot'
    <3>1. segs[p].slot \in Slots
      BY DEF Types, SegmentType
    <3>2. Offset(p) \in Places /\ Offset(segHead) \in Places /\ Offset(segHead) # Segments - 1
      BY <1>1, RingOrdered DEF Pointers
    <3>3. Dist(segs[p].slot, s) <= Segments - 3
      <4>1. Dist(segs[p].slot, s) \in Int
        BY <3>1, Distances DEF Slots
      <4> QED
        BY <2>5, <3>2, <4>1, SegmentsAssumption DEF Places
    <3>4. NextSlot(s) = segs[p].slot => Dist(segs[p].slot, s) = Segments - 2
      BY <3>1, Distances
    <3> QED
      BY <2>7, <3>1, <3>3, <3>4, SegmentsAssumption
  <2>12. b \in [Axes -> Nat] /\ Events(b) \in Nat \ {0}
    BY BlockTyped, EventsTyped
  <2>9. slots' \in [Slots -> SlotType] /\ slots \in [Slots -> SlotType]
    <3>1. Scaled(b) \in SlotType
      BY <2>12, SmoothingAssumption DEF Scaled, SlotType
    <3> QED
      BY <2>1, <3>1 DEF Types
  <2>10. slots'[prepSlot'] = Scaled(b) /\ \A i \in Slots : i # prepSlot' => slots'[i] = slots[i]
    BY <2>1, <2>7 DEF Types
  <2>11. /\ slots'[s] = slots[s] /\ \A p \in Waiting : slots'[segs[p].slot] = slots[segs[p].slot]
    BY <2>7, <2>8, <2>10
  <2>13. Ends(r, s)'
    <3>1. Rest' = Scale * Events(b) /\ Rest' > 0
      BY <1>1, <2>1, <2>12, SmoothingAssumption DEF Rest, Unpublished
    <3>2. slots'[prepSlot'].events = Scale * Events(b)
      BY <2>10 DEF Scaled
    <3> QED
      BY <1>1, <1>3, <2>6, <2>7, <2>11, <3>1, <3>2 DEF Ends
  <2>14. Chain(c)'
    <3>1. Units(segTail)' = Units(segTail) /\ \A p : Uncut(p)' = Uncut(p)
      BY <1>2 DEF Units, Uncut
    <3>2. \A p \in Waiting : NextSegment(p) = segHead => Ends(c[p], segs[p].slot)'
      BY <1>2, <2>5, <2>13
    <3>3. segHead = segTail => Ends(ran, execSlot)'
      BY <1>2, <2>5, <2>13
    <3>4. /\ \A p \in Waiting : c[p] <= slots'[segs[p].slot].events
          /\ segHead # segTail =>
               c[segTail] = Units(segTail) + IF segs[segTail].slot = execSlot THEN ran ELSE 0
      BY <2>4, <2>11 DEF Chain
    <3>5. \A p \in Waiting : NextSegment(p) # segHead =>
            LET q == NextSegment(p)
            IN  IF segs[q].slot = segs[p].slot THEN c[q] = c[p] + Uncut(q)
                ELSE c[q] = Uncut(q) /\ c[p] = slots'[segs[p].slot].events
      BY <2>4, <2>11 DEF Chain
    <3> QED
      BY <1>2, <1>3, <3>1, <3>2, <3>3, <3>4, <3>5 DEF Chain
  <2>15. FromBlocks'
    BY <2>10, <2>12 DEF Blocked, FromBlocks
  <2>16. Apart' /\ Striding'
    BY <1>2, <1>3 DEF Blocked, Apart, Striding
  <2>17. Doing'
    <3>1. Continued' = Continued /\ Finished' = Finished
      BY <1>2 DEF Continued, Finished
    <3>2. ASSUME Continued PROVE slots'[execSlot] = slots[execSlot]
      <4>1. CASE segHead = segTail
        BY <2>5, <2>11, <4>1
      <4>2. CASE segHead # segTail
        <5>1. segTail \in Waiting
          BY <4>2, RingOrdered
        <5> QED
          BY <2>11, <3>2, <4>2, <5>1 DEF Continued
      <4> QED
        BY <4>1, <4>2
    <3> QED
      BY <1>2, <3>1, <3>2 DEF Doing, Blocked
  <2>18. Blocked'
    BY <2>4, <2>14, <2>15, <2>16, <2>17 DEF Blocked
  <2>19. WaitingKept
    BY <1>2, <2>11 DEF WaitingKept
  <2> QED
    BY <2>18, <2>19
<1> QED
  BY <1>4, <1>5

\* A segment is cut from what is left: nothing gets lost.
LEMMA BlockedWritten == ASSUME Typed, Blocked, WriteSegment PROVE Blocked' /\ WaitingKept
<1> Types /\ Pointers /\ Waiting \subseteq Places
  BY TypesAre, RingOrdered DEF Typed, Types
<1>1. PICK n \in 1..left, d \in Smoothing :
         /\ segs' = [segs EXCEPT ![segHead] = [n |-> Ticks(n, d), d |-> d, slot |-> prepSlot]]
         /\ left' = left - n
  BY DEF WriteSegment
<1>2. /\ ~filling /\ filling' /\ UNCHANGED <<prepSlot, slots, segHead, segTail>>
      /\ UNCHANGED <<isr, observed>>
  BY DEF WriteSegment, Preparing
<1>3. UNCHANGED <<exec, execSlot, stepCount, stride, doing, ran>>
  BY <1>2 DEF isr, observed
<1>4. Waiting' = Waiting /\ RingFull' = RingFull /\ \A p : Offset(p)' = Offset(p)
  BY <1>2, Standing
<1>5. /\ segHead \in Places /\ segHead \notin Waiting /\ (segHead # segTail => segTail \in Waiting)
  BY RingOrdered DEF Pointers
<1>6. /\ segs'[segHead] = [n |-> Ticks(n, d), d |-> d, slot |-> prepSlot]
      /\ \A p \in Places : p # segHead => segs'[p] = segs[p]
  BY <1>1, <1>5 DEF Types
<1>7. Rest' = Rest
  <2>1. n \in Nat /\ left \in Nat /\ Scale \in Nat /\ d \in Nat /\ left' = left - n
    BY <1>1, SmoothingAssumption DEF Types
  <2>2. PICK u \in Nat : u = Scale \div d /\ d * u = Scale
    BY WholeUnits
  <2>3. (n * d) * u = Scale * n
    <3>1. (n * d) * u = n * (d * u)
      BY <2>1, <2>2
    <3> QED
      BY <2>1, <2>2, <3>1
  <2>4. Rest' = Scale * (left - n) + (n * d) * u
    BY <1>2, <1>6, <2>1, <2>2 DEF Rest, Unpublished, Ticks
  <2>5. Rest = Scale * left
    BY <1>2, <2>1 DEF Rest, Unpublished
  <2>6. Scale * (left - n) = Scale * left - Scale * n
    BY <2>1
  <2> QED
    BY <2>1, <2>3, <2>4, <2>5, <2>6
<1>8. \A r, s : Ends(r, s) => Ends(r, s)'
  BY <1>2, <1>4, <1>7 DEF Ends
<1>9. \A p \in Waiting : segs'[p] = segs[p] /\ Uncut(p)' = Uncut(p)
  <2>1. \A p \in Waiting : segs'[p] = segs[p]
    BY <1>5, <1>6
  <2> QED
    BY <2>1 DEF Uncut
<1>10. segHead # segTail => Units(segTail)' = Units(segTail) /\ segs'[segTail] = segs[segTail]
  BY <1>2, <1>3, <1>5, <1>9 DEF Units
<1>11. \A c \in [Places -> Nat] : Chain(c) => Chain(c)'
  <2> SUFFICES ASSUME NEW c \in [Places -> Nat], Chain(c) PROVE Chain(c)'
    OBVIOUS
  <2>1. \A p \in Waiting : NextSegment(p) # segHead => NextSegment(p) \in Waiting
    BY RingOrdered
  <2>2. \A p \in Waiting : c[p] <= slots[segs'[p].slot].events
    BY <1>9 DEF Chain
  <2>3. segHead # segTail =>
          c[segTail] = Units(segTail)' + IF segs'[segTail].slot = execSlot THEN ran ELSE 0
    BY <1>10 DEF Chain
  <2>4. \A p \in Waiting : NextSegment(p) # segHead =>
          LET q == NextSegment(p)
          IN  IF segs'[q].slot = segs'[p].slot THEN c[q] = c[p] + Uncut(q)'
              ELSE c[q] = Uncut(q)' /\ c[p] = slots[segs'[p].slot].events
    BY <1>9, <2>1 DEF Chain
  <2>5. \A p \in Waiting : NextSegment(p) = segHead => Ends(c[p], segs[p].slot)'
    <3>1. \A p \in Waiting : NextSegment(p) = segHead => Ends(c[p], segs[p].slot)
      BY DEF Chain
    <3> QED
      BY <1>8, <1>9, <3>1 DEF Ends
  <2>6. segHead = segTail => Ends(ran, execSlot)'
    <3>1. segHead = segTail => Ends(ran, execSlot)
      BY DEF Chain
    <3> QED
      BY <1>3, <1>8, <3>1 DEF Ends
  <2> QED
    BY <1>2, <1>3, <1>4, <2>2, <2>3, <2>4, <2>5, <2>6 DEF Chain
<1>12. FromBlocks' /\ Apart'
  BY <1>2, <1>4, <1>9 DEF Blocked, FromBlocks, Apart
<1>13. Doing'
  BY <1>2, <1>3, <1>10 DEF Blocked, Doing, Continued, Finished
<1>14. Striding'
  BY <1>2, <1>3, <1>10 DEF Typed, Filled, Blocked, Striding
<1>15. Blocked'
  BY <1>11, <1>12, <1>13, <1>14 DEF Blocked
<1>16. WaitingKept
  BY <1>2, <1>9 DEF WaitingKept
<1> QED
  BY <1>15, <1>16

\* A segment is published: it follows the last one of its block, or is the
\* first of the next block.
LEMMA BlockedPublished == ASSUME Typed, Blocked, PublishSegment PROVE Blocked' /\ WaitingKept
<1> Types /\ Pointers /\ Waiting \subseteq Places
  BY TypesAre, RingOrdered DEF Typed, Types
<1> PICK H \in Places : H = segHead
  BY DEF Pointers
<1> DEFINE U == Uncut(segHead)
<1>1. /\ filling /\ ~filling' /\ segHead' = NextSegment(segHead) /\ filling' = FALSE
      /\ UNCHANGED <<prepSlot, left, slots, segs, segTail>>
      /\ UNCHANGED <<exec, execSlot, stepCount, stride, doing, ran>>
  BY DEF PublishSegment, isr, observed
<1>2. ~RingFull /\ Proper(segs[H]) /\ segs[H].slot = prepSlot /\ H \in Places /\ segTail \in Places
  BY <1>1, TypesAre DEF Typed, Control, Pointers
<1>3. /\ Pointers' /\ Waiting' = Waiting \cup {H}
      /\ \A p \in Places : Offset(p)' = Offset(p)
      /\ \A p \in Places : (NextSegment(p) = segHead') <=> (p = H)
  BY <1>1, <1>2, Publishing
<1>4. segHead' # segTail
  BY <1>1, <1>2 DEF RingFull
<1>5. U \in Nat /\ Rest = Scale * left + U /\ Rest' = Scale * left /\ Scale * left \in Nat
  <2>1. segs[H].n \in Nat /\ Scale \div segs[H].d \in Nat
    BY <1>2, WholeUnits DEF Types, SegmentType, Proper
  <2>2. U \in Nat
    BY <2>1 DEF Uncut
  <2>3. Scale * left \in Nat
    BY SmoothingAssumption DEF Types
  <2> QED
    BY <1>1, <2>2, <2>3 DEF Rest, Unpublished, Uncut
<1>6. H \notin Waiting /\ (\A p \in Waiting : Offset(p) < Offset(H) /\ Offset(p) \in Places)
      /\ Offset(H) \in Places /\ (segHead = segTail <=> Waiting = {})
      /\ \A p \in Waiting : NextSegment(p) # H => NextSegment(p) \in Waiting
  BY <1>2, RingOrdered
<1>7. PICK c \in [Places -> Nat] : Chain(c)
  BY DEF Blocked
<1>8. PICK r \in Nat, s \in Slots :
        /\ Ends(r, s)
        /\ segHead = segTail => r = ran /\ s = execSlot
        /\ \A p \in Waiting :
             /\ NextSegment(p) = segHead => r = c[p] /\ s = segs[p].slot
             /\ Dist(segs[p].slot, s) <= Offset(segHead) - 1 - Offset(p)
  BY <1>7, EndsAre DEF Blocked
<1>9. PICK e \in [Places -> Nat] :
         /\ e[H] = U + (IF s = prepSlot THEN r ELSE 0)
         /\ \A p \in Waiting : e[p] = c[p]
  <2> DEFINE f == [c EXCEPT ![H] = U + IF s = prepSlot THEN r ELSE 0]
  <2>1. /\ f \in [Places -> Nat] /\ f[H] = U + (IF s = prepSlot THEN r ELSE 0)
        /\ \A p \in Waiting : f[p] = c[p]
    BY <1>2, <1>5, <1>6
  <2> HIDE DEF f
  <2> QED
    BY <2>1
<1>10. IF prepSlot = s THEN r + Scale * left + U = slots[s].events
       ELSE r = slots[s].events /\ Scale * left + U = slots[prepSlot].events /\ NextSlot(s) = prepSlot
  <2> HIDE DEF U
  <2> QED
    BY <1>5, <1>8 DEF Ends
<1>11. slots[prepSlot].events \in Nat
  BY DEF Types, SlotType
<1>12. e[H] <= slots[prepSlot].events /\ e[H] + Scale * left = slots[prepSlot].events
  <2> HIDE DEF U
  <2> QED
    BY <1>5, <1>9, <1>10
<1>13. Chain(e)'
  <2>1. \A p \in Waiting' : e[p] <= slots[segs[p].slot].events
    <3>1. \A p \in Waiting : e[p] <= slots[segs[p].slot].events
      BY <1>7, <1>9 DEF Chain
    <3> QED
      BY <1>2, <1>3, <1>12, <3>1
  <2>2. e[segTail] = Units(segTail) + IF segs[segTail].slot = execSlot THEN ran ELSE 0
    <3>1. CASE segHead = segTail
      <4>1. ~exec /\ r = ran /\ s = execSlot
        BY <1>8, <3>1 DEF Typed, Filled
      <4>2. Units(segTail) = U
        BY <3>1, <4>1 DEF Units, Uncut
      <4>3. ran \in Nat
        BY DEF Types
      <4> HIDE DEF U
      <4> QED
        BY <1>2, <1>5, <1>9, <3>1, <4>1, <4>2, <4>3
    <3>2. CASE segHead # segTail
      <4>1. segTail \in Waiting
        BY <3>2, RingOrdered
      <4> QED
        BY <1>7, <1>9, <3>2, <4>1 DEF Chain
    <3> QED
      BY <3>1, <3>2
  <2>3. ASSUME NEW p \in Waiting', NextSegment(p) # segHead'
        PROVE  LET q == NextSegment(p)
               IN  IF segs[q].slot = segs[p].slot THEN e[q] = e[p] + Uncut(q)
                   ELSE e[q] = Uncut(q) /\ e[p] = slots[segs[p].slot].events
    <3>1. p \in Waiting
      BY <1>2, <1>3, <2>3
    <3>2. CASE NextSegment(p) = H
      <4>1. r = c[p] /\ s = segs[p].slot /\ e[p] = r
        BY <1>8, <1>9, <3>1, <3>2
      <4>2. CASE prepSlot = s
        <5>1. e[H] = e[p] + U
          <6> HIDE DEF U
          <6> QED
            BY <1>5, <1>9, <4>1, <4>2
        <5> QED
          BY <1>2, <3>2, <4>1, <4>2, <5>1
      <4>3. CASE prepSlot # s
        <5>1. e[H] = U
          <6> HIDE DEF U
          <6> QED
            BY <1>5, <1>9, <4>3
        <5>2. e[p] = slots[s].events
          BY <1>10, <4>1, <4>3
        <5> QED
          BY <1>2, <3>2, <4>1, <4>3, <5>1, <5>2
      <4> QED
        BY <4>2, <4>3
    <3>3. CASE NextSegment(p) # H
      <4>1. NextSegment(p) \in Waiting
        BY <1>6, <3>1, <3>3
      <4> QED
        BY <1>7, <1>9, <3>1, <3>3, <4>1 DEF Chain
    <3> QED
      BY <3>2, <3>3
  <2>4. \A p \in Waiting' : NextSegment(p) = segHead' => Ends(e[p], segs[p].slot)'
    <3>1. Ends(e[H], prepSlot)'
      BY <1>1, <1>5, <1>12 DEF Ends
    <3> QED
      BY <1>1, <1>2, <1>3, <1>6, <3>1 DEF Ends
  <2>5. Units(segTail)' = Units(segTail) /\ \A p : Uncut(p)' = Uncut(p)
    BY <1>1 DEF Units, Uncut
  <2> QED
    BY <1>1, <1>4, <2>1, <2>2, <2>3, <2>4, <2>5 DEF Chain
<1>14. Apart'
  <2>1. ASSUME NEW p \in Waiting', NEW q \in Waiting', Offset(p) <= Offset(q)
        PROVE  Dist(segs[p].slot, segs[q].slot) <= Offset(q) - Offset(p)
    <3>1. CASE p \in Waiting /\ q \in Waiting
      BY <2>1, <3>1 DEF Blocked, Apart
    <3>2. CASE p \in Waiting /\ q = H
      <4>1. segs[p].slot \in Slots /\ prepSlot \in Slots
        BY <3>2 DEF Types, SegmentType
      <4>2. Dist(segs[p].slot, s) <= Offset(H) - 1 - Offset(p)
        BY <1>8, <3>2
      <4>3. Dist(s, prepSlot) <= 1
        BY <1>10, <4>1, Distances, NextSlotIs
      <4>4. Dist(segs[p].slot, prepSlot) <= Dist(segs[p].slot, s) + Dist(s, prepSlot)
        BY <4>1, Distances
      <4>5. /\ Dist(segs[p].slot, prepSlot) \in Int /\ Dist(segs[p].slot, s) \in Int
            /\ Dist(s, prepSlot) \in Int
        <5>1. \A i, j \in Slots : Dist(i, j) \in Slots
          BY Distances
        <5>2. Slots \subseteq Int
          BY DEF Slots
        <5> QED
          BY <4>1, <5>1, <5>2
      <4>6. Offset(H) \in Int /\ Offset(p) \in Int
        BY <1>6, <3>2 DEF Places
      <4>7. Dist(segs[p].slot, prepSlot) <= Offset(H) - Offset(p)
        BY <4>2, <4>3, <4>4, <4>5, <4>6
      <4> QED
        BY <1>2, <3>2, <4>7
    <3>3. CASE p = H
      <4>1. q = H
        BY <1>3, <1>6, <2>1, <3>3 DEF Places
      <4>2. Dist(prepSlot, prepSlot) = 0
        BY Distances DEF Types
      <4>3. Offset(H) - Offset(H) = 0
        BY <1>6 DEF Places
      <4> QED
        BY <1>2, <3>3, <4>1, <4>2, <4>3
    <3> QED
      BY <1>3, <3>1, <3>2, <3>3
  <2>2. Waiting' \subseteq Places
    BY <1>2, <1>3
  <2> QED
    BY <1>1, <1>3, <2>1, <2>2 DEF Apart
<1>15. Doing'
  <2>1. Finished' = Finished /\ slots'[execSlot'] = slots[execSlot] /\ Scaled(doing)' = Scaled(doing)
    BY <1>1 DEF Finished, Scaled
  <2>2. Continued' <=> segs[segTail].slot = execSlot
    BY <1>1, <1>4 DEF Continued
  <2>3. CASE segHead # segTail
    BY <2>1, <2>2, <2>3 DEF Blocked, Doing, Continued
  <2>4. CASE segHead = segTail
    <3>1. slots[execSlot] = Scaled(doing)
      BY <2>4 DEF Blocked, Doing, Continued
    <3>2. r = ran /\ s = execSlot /\ segs[segTail].slot = prepSlot
      BY <1>2, <1>8, <2>4
    <3>3. prepSlot # execSlot => Finished
      BY <1>10, <3>1, <3>2 DEF Finished, Scaled
    <3> QED
      BY <2>1, <2>2, <3>1, <3>2, <3>3 DEF Doing
  <2> QED
    BY <2>3, <2>4
<1>16. FromBlocks' /\ Striding'
  BY <1>1, <1>4 DEF Typed, Filled, Blocked, FromBlocks, Striding
<1>17. Blocked'
  BY <1>9, <1>13, <1>14, <1>15, <1>16 DEF Blocked
<1>18. WaitingKept
  BY <1>1 DEF WaitingKept
<1> QED
  BY <1>17, <1>18

\* Nothing is planned, and nothing has run.
Fresh ==
  /\ ~filling /\ ~exec /\ segHead = 0 /\ segTail = 0
  /\ prepSlot = 0 /\ left = 0 /\ execSlot = 0 /\ ran = 0
  /\ slots = [i \in 0 .. Segments - 2 |-> NoSlot]
  /\ doing = NoBlock /\ counter = NoBlock /\ moved = NoBlock

LEMMA FreshBlocked == Fresh => Blocked /\ Counted
<1> SUFFICES ASSUME Fresh PROVE Blocked /\ Counted
  OBVIOUS
<1> DEFINE c == [p \in Places |-> 0]
<1>1. Pointers /\ 0 \in Slots /\ c \in [Places -> Nat]
  BY SegmentsAssumption DEF Fresh, Pointers, Places, Slots
<1>2. Waiting = {}
  BY <1>1, RingOrdered DEF Fresh
<1>3. /\ NoSlot = Scaled(NoBlock) /\ NoBlock \in [Axes -> Nat] /\ Events(NoBlock) = 0
      /\ NoSlot.events = 0 /\ \A i \in Slots : slots[i] = NoSlot
  BY BlockTyped DEF Fresh, Slots, NoSlot
<1>4. Rest = 0
  BY SmoothingAssumption DEF Fresh, Rest, Unpublished
<1>5. Ends(0, 0)
  <2>1. slots[0].events = 0 /\ prepSlot = 0
    BY <1>1, <1>3 DEF Fresh
  <2> QED
    BY <1>4, <2>1 DEF Ends
<1>6. Chain(c)
  <2> HIDE DEF c
  <2> QED
    BY <1>2, <1>5 DEF Chain, Fresh
<1>7. FromBlocks
  BY <1>3 DEF FromBlocks
<1>8. Apart /\ Doing /\ Striding
  BY <1>1, <1>2, <1>3 DEF Apart, Doing, Striding, Continued, Fresh
<1>9. Blocked
  <2> HIDE DEF c
  <2> QED
    BY <1>1, <1>6, <1>7, <1>8 DEF Blocked
<1>10. Counted
  BY <1>3, SmoothingAssumption DEF Counted, Total, Fresh, NoBlock
<1> QED
  BY <1>9, <1>10

LEMMA BlockedInit == Init => Blocked /\ Counted
BY FreshBlocked DEF Init, Fresh

LEMMA BlockedReset == Reset => Blocked' /\ Counted'
<1>1. Fresh => Blocked /\ Counted
  BY FreshBlocked
<1>2. Fresh' => Blocked' /\ Counted'
  BY <1>1, PTL
<1>3. Reset => Fresh'
  BY DEF Reset, Fresh, NoSlot, NoBlock
<1> QED
  BY <1>2, <1>3

-----------------------------------------------------------------------------
(* A tick: it runs a part of the segment at the tail, and of the block     *)
(* that doing then names.                                                  *)

LEMMA Divides ==
    ASSUME NEW d \in Smoothing \cup {1}, NEW x \in Nat
    PROVE  (Scale * x) \div d = x * (Scale \div d) /\ (Scale * x) \div Scale = x
<1>1. \A k \in Nat \ {0}, q \in Nat : (k * q) \div k = q
  OBVIOUS
<1>2. PICK u \in Nat : u = Scale \div d /\ d * u = Scale
  BY WholeUnits
<1>3. d \in Nat \ {0} /\ Scale \in Nat \ {0}
  BY SmoothingAssumption
<1>4. Scale * x = d * (x * u)
  <2>1. (d * u) * x = d * (x * u)
    BY <1>2, <1>3
  <2> QED
    BY <1>2, <2>1
<1>5. x * u \in Nat
  BY <1>2
<1> QED
  BY <1>1, <1>2, <1>3, <1>4, <1>5

Base == IF New THEN 0 ELSE ran
Unit == Scale \div Segment.d

LEMMA TickRuns ==
    ASSUME Typed, Blocked, Tick
    PROVE  /\ New <=> Segment.slot # execSlot
           /\ Block = Scaled(doing') /\ doing' \in [Axes -> Nat]
           /\ ~New => doing' = doing
           /\ \A a \in Axes : Rate[a] = doing'[a] * Unit
           /\ ran' = Unit + Base /\ Base \in Nat /\ Units(segTail) = Count * Unit
           /\ New => Finished
<1>1. Types /\ segTail \in Waiting /\ segHead # segTail /\ Segment \in SegmentType /\ Proper(Segment)
      /\ Segment.slot \in Slots
  BY TypesAre, TickTyped DEF Typed
<1>2. exec => Segment.slot = execSlot /\ stride = [a \in Axes |-> doing[a] * Unit]
  BY DEF Blocked, Striding, Segment, Unit
<1>3. New <=> Segment.slot # execSlot
  BY <1>2 DEF New, Begins
<1>4. PICK b \in [Axes -> Nat] : Block = Scaled(b)
  BY <1>1 DEF Blocked, FromBlocks, Block
<1>5. Continued <=> ~New
  BY <1>1, <1>3 DEF Continued, Segment
<1>6. New => Finished
  BY <1>5 DEF Blocked, Doing
<1>7. Block = Scaled(doing') /\ doing' \in [Axes -> Nat] /\ (~New => doing' = doing)
  <2>1. CASE New
    <3>1. doing' = [a \in Axes |-> Block.steps[a] \div Scale]
      BY <2>1, TickIs
    <3>2. \A a \in Axes : b[a] \in Nat /\ Block.steps[a] = Scale * b[a]
      BY <1>4 DEF Scaled
    <3>3. \A a \in Axes : (Scale * b[a]) \div Scale = b[a]
      BY <3>2, Divides
    <3>4. doing' = b
      BY <3>1, <3>2, <3>3
    <3> QED
      BY <1>4, <2>1, <3>4
  <2>2. CASE ~New
    <3>1. doing' = doing
      BY <2>2, TickIs
    <3>2. Block = Scaled(doing)
      BY <1>3, <1>5, <2>2 DEF Blocked, Doing, Block
    <3> QED
      BY <1>1, <3>1, <3>2 DEF Types
  <2> QED
    BY <2>1, <2>2
<1>8. ASSUME NEW a \in Axes PROVE Rate[a] = doing'[a] * Unit
  <2>1. CASE exec
    BY <1>2, <1>7, <2>1 DEF Rate, New
  <2>2. CASE ~exec
    <3>1. Rate[a] = Block.steps[a] \div Segment.d
      BY <2>2 DEF Rate
    <3>2. Block.steps[a] = Scale * doing'[a]
      BY <1>7 DEF Scaled
    <3>3. PICK x \in Nat : x = doing'[a]
      BY <1>7
    <3>4. (Scale * x) \div Segment.d = x * (Scale \div Segment.d)
      BY <1>1, Divides DEF Proper
    <3> QED
      BY <3>1, <3>2, <3>3, <3>4 DEF Unit
  <2> QED
    BY <2>1, <2>2
<1>9. ran' = Unit + Base /\ Base \in Nat
  BY <1>1, TickIs DEF Base, Unit, Types
<1>10. Units(segTail) = Count * Unit
  BY DEF Units, Count, Unit, Segment
<1> QED
  BY <1>3, <1>6, <1>7, <1>8, <1>9, <1>10

\* What is left of the segment and what has run make up c.
LEMMA TickLeaves ==
    ASSUME Typed, Blocked, Tick, NEW c \in [Places -> Nat], Chain(c)
    PROVE  /\ Count # 1 => c[segTail] = (Count - 1) * Unit + ran'
           /\ Count = 1 => c[segTail] = ran'
           /\ ran' <= Block.events
<1>1. segHead # segTail /\ segTail \in Waiting
  BY TickTyped
<1>2. c[segTail] = Count * Unit + Base
  <2>1. c[segTail] = Units(segTail) + IF segs[segTail].slot = execSlot THEN ran ELSE 0
    BY <1>1 DEF Chain
  <2>2. (New <=> Segment.slot # execSlot) /\ Units(segTail) = Count * Unit
    BY TickRuns
  <2> QED
    BY <2>1, <2>2 DEF Base, Segment
<1>3. ran' = Unit + Base /\ Base \in Nat /\ Unit \in Nat \ {0} /\ Count \in Nat \ {0}
  BY TickTyped, TickRuns DEF Unit
<1>4. Count * Unit = (Count - 1) * Unit + Unit /\ (Count - 1) * Unit \in Nat
  BY <1>3
<1>5. c[segTail] = (Count - 1) * Unit + ran'
  BY <1>2, <1>3, <1>4
<1>6. Count = 1 => c[segTail] = ran'
  BY <1>2, <1>3
<1>7. c[segTail] <= Block.events /\ Block.events \in Nat
  BY <1>1, TickTyped DEF Chain, Block, Segment, SlotType
<1>8. ran' <= Block.events
  <2> PICK n \in Nat, m \in Nat : n = (Count - 1) * Unit /\ m = ran'
    BY <1>3, <1>4
  <2> QED
    BY <1>5, <1>7
<1> QED
  BY <1>5, <1>6, <1>8

\* The segment goes on.
LEMMA BlockedTicked ==
    ASSUME Typed, Blocked, Tick, Count # 1
    PROVE  Blocked' /\ WaitingKept
<1> Types /\ Pointers /\ Waiting \subseteq Places
  BY TypesAre, RingOrdered DEF Typed, Types
<1>1. /\ UNCHANGED <<filling, prepSlot, left, slots, segHead, segTail, segs>>
      /\ execSlot' = Segment.slot /\ exec' /\ stride' = Rate /\ stepCount' = Count - 1
  <2>1. exec'
    BY TickIs, Zenon
  <2> QED
    BY <2>1, TickIs DEF main
<1>2. Waiting' = Waiting /\ RingFull' = RingFull /\ \A p : Offset(p)' = Offset(p)
  BY <1>1, Standing
<1>3. segHead # segTail /\ segTail \in Waiting
  BY TickTyped
<1>4. PICK c \in [Places -> Nat] : Chain(c)
  BY DEF Blocked
<1>5. c[segTail] = (Count - 1) * Unit + ran'
  BY <1>4, TickLeaves
<1>6. Units(segTail)' = (Count - 1) * Unit
  BY <1>1 DEF Units, Unit, Segment
<1>7. \A p : Uncut(p)' = Uncut(p)
  BY <1>1 DEF Uncut
<1>8. Rest' = Rest
  BY <1>1 DEF Rest, Unpublished
<1>9. \A r, s : Ends(r, s) => Ends(r, s)'
  BY <1>1, <1>2, <1>8 DEF Ends
<1>10. Chain(c)'
  <2>1. /\ \A p \in Waiting : c[p] <= slots[segs[p].slot].events
        /\ \A p \in Waiting : NextSegment(p) # segHead =>
             LET q == NextSegment(p)
             IN  IF segs[q].slot = segs[p].slot THEN c[q] = c[p] + Uncut(q)
                 ELSE c[q] = Uncut(q) /\ c[p] = slots[segs[p].slot].events
        /\ \A p \in Waiting : NextSegment(p) = segHead => Ends(c[p], segs[p].slot)
    BY <1>4 DEF Chain
  <2>2. c[segTail] = Units(segTail)' + IF segs[segTail].slot = execSlot' THEN ran' ELSE 0
    BY <1>1, <1>5, <1>6 DEF Segment
  <2>3. \A p \in Waiting : NextSegment(p) = segHead => Ends(c[p], segs[p].slot)'
    BY <1>1, <1>9, <2>1 DEF Ends
  <2> QED
    BY <1>1, <1>2, <1>3, <1>7, <2>1, <2>2, <2>3 DEF Chain
<1>11. Apart' /\ FromBlocks'
  BY <1>1, <1>2 DEF Blocked, Apart, FromBlocks
<1>12. Doing'
  <2>1. Scaled(doing)' = Scaled(doing')
    BY DEF Scaled
  <2>2. slots'[execSlot'] = Scaled(doing')
    BY <1>1, TickRuns DEF Block
  <2>3. Continued'
    BY <1>1 DEF Continued, Segment
  <2> QED
    BY <2>1, <2>2, <2>3 DEF Doing
<1>13. Striding'
  <2>1. stride' = [a \in Axes |-> doing'[a] * Unit]
    BY <1>1, TickTyped, TickRuns
  <2> QED
    BY <1>1, <2>1 DEF Striding, Segment, Unit
<1>14. WaitingKept
  BY <1>1 DEF WaitingKept
<1> QED
  BY <1>4, <1>10, <1>11, <1>12, <1>13, <1>14 DEF Blocked

\* The segment ends, and is discarded.
LEMMA BlockedPopped ==
    ASSUME Typed, Blocked, Tick, Count = 1
    PROVE  Blocked' /\ WaitingKept
<1> Types /\ Pointers /\ Waiting \subseteq Places
  BY TypesAre, RingOrdered DEF Typed, Types
<1>1. /\ UNCHANGED <<filling, prepSlot, left, slots, segHead>>
      /\ segTail' = NextSegment(segTail) /\ segs' = [segs EXCEPT ![segTail] = NoSegment]
      /\ execSlot' = Segment.slot /\ ~exec'
  BY TickIs DEF main
<1>2. segHead # segTail /\ segTail \in Waiting /\ segHead \in Places /\ segTail \in Places
  BY TickTyped DEF Pointers
<1>3. /\ Waiting' = Waiting \ {segTail} /\ ~RingFull'
      /\ \A p \in Waiting' : Offset(p)' = Offset(p) - 1
  BY <1>1, <1>2, Popping
<1>4. /\ \A p \in Waiting' : segs'[p] = segs[p] /\ Uncut(p)' = Uncut(p)
      /\ segs'[segHead] = segs[segHead]
  <2>1. \A p \in Places : p # segTail => segs'[p] = segs[p]
    BY <1>1 DEF Types
  <2>2. \A p \in Waiting' : segs'[p] = segs[p]
    BY <1>3, <2>1
  <2> QED
    BY <1>2, <2>1, <2>2 DEF Uncut
<1>5. \A p \in Waiting : NextSegment(p) # segHead => NextSegment(p) \in Waiting'
  <2> SUFFICES ASSUME NEW p \in Waiting, NextSegment(p) # segHead, NextSegment(p) = segTail
               PROVE  FALSE
    BY <1>3, RingOrdered
  <2>1. /\ Offset(segTail) = Offset(p) + 1 \/ Offset(p) = Segments - 1
        /\ Offset(p) < Offset(segHead) /\ Offset(segTail) = 0
        /\ Offset(p) \in Places /\ Offset(segHead) \in Places
    BY <1>2, RingOrdered
  <2> QED
    BY <2>1, SegmentsAssumption DEF Places
<1>6. Rest' = Rest
  BY <1>1, <1>4 DEF Rest, Unpublished
<1>7. \A r, s : Ends(r, s) => Ends(r, s)'
  BY <1>1, <1>3, <1>6 DEF Ends
<1>8. PICK c \in [Places -> Nat] : Chain(c)
  BY DEF Blocked
<1>9. c[segTail] = ran'
  BY <1>8, TickLeaves
<1>10. Chain(c)'
  <2>1. \A p \in Waiting' : c[p] <= slots'[segs'[p].slot].events
    BY <1>1, <1>3, <1>4, <1>8 DEF Chain
  <2>2. segHead # segTail' =>
          c[segTail'] = Units(segTail)' + IF segs'[segTail'].slot = execSlot' THEN ran' ELSE 0
    <3> SUFFICES ASSUME NEW q \in Waiting, q = segTail', q = NextSegment(segTail), q # segHead,
                        segs'[q] = segs[q]
                 PROVE  c[q] = Units(segTail)' + IF segs'[q].slot = execSlot' THEN ran' ELSE 0
      BY <1>1, <1>2, <1>3, <1>4, <1>5
    <3>1. IF segs[q].slot = segs[segTail].slot THEN c[q] = c[segTail] + Uncut(q)
          ELSE c[q] = Uncut(q)
      BY <1>2, <1>8 DEF Chain
    <3>2. Units(segTail)' = Uncut(q)
      BY <1>1 DEF Units, Uncut
    <3>3. Uncut(q) \in Nat /\ c[segTail] \in Nat
      <4>1. segs[q].n \in Nat /\ Scale \div segs[q].d \in Nat
        BY WholeUnits DEF Types, SegmentType
      <4> QED
        BY <1>2, <4>1 DEF Uncut
    <3> QED
      BY <1>1, <1>9, <3>1, <3>2, <3>3 DEF Segment
  <2>3. \A p \in Waiting' : NextSegment(p) # segHead =>
          LET q == NextSegment(p)
          IN  IF segs'[q].slot = segs'[p].slot THEN c[q] = c[p] + Uncut(q)'
              ELSE c[q] = Uncut(q)' /\ c[p] = slots[segs'[p].slot].events
    <3> TAKE p \in Waiting'
    <3> HAVE NextSegment(p) # segHead
    <3>1. PICK q \in Waiting' : q = NextSegment(p)
      BY <1>3, <1>5
    <3>2. /\ segs'[q] = segs[q] /\ segs'[p] = segs[p] /\ Uncut(q)' = Uncut(q) /\ p \in Waiting
      BY <1>3, <1>4
    <3>3. IF segs[q].slot = segs[p].slot THEN c[q] = c[p] + Uncut(q)
          ELSE c[q] = Uncut(q) /\ c[p] = slots[segs[p].slot].events
      BY <1>8, <3>1, <3>2 DEF Chain
    <3> QED
      BY <3>1, <3>2, <3>3
  <2>4. \A p \in Waiting' : NextSegment(p) = segHead => Ends(c[p], segs[p].slot)'
    <3> TAKE p \in Waiting'
    <3> HAVE NextSegment(p) = segHead
    <3>1. p \in Waiting /\ segs'[p] = segs[p]
      BY <1>3, <1>4
    <3>2. PICK s : s = segs[p].slot /\ Ends(c[p], s)
      BY <1>8, <3>1 DEF Chain
    <3>3. Ends(c[p], s)'
      BY <1>7, <3>2
    <3> QED
      BY <3>1, <3>2, <3>3 DEF Ends
  <2>5. segHead = segTail' => Ends(ran, execSlot)'
    <3>1. segHead = segTail' => Ends(c[segTail], Segment.slot)
      BY <1>1, <1>2, <1>8 DEF Chain, Segment
    <3> QED
      BY <1>1, <1>7, <1>9, <3>1 DEF Ends
  <2> QED
    BY <1>1, <2>1, <2>2, <2>3, <2>4, <2>5 DEF Chain
<1>11. Apart'
  <2>1. \A p \in Waiting : Offset(p) \in Int
    BY RingOrdered DEF Places
  <2>2. ASSUME NEW p \in Waiting', NEW q \in Waiting', Offset(p)' <= Offset(q)'
        PROVE  Dist(segs[p].slot, segs[q].slot) <= Offset(q)' - Offset(p)'
    <3>1. /\ p \in Waiting /\ q \in Waiting /\ Offset(p) \in Int /\ Offset(q) \in Int
          /\ Offset(p)' = Offset(p) - 1 /\ Offset(q)' = Offset(q) - 1
      BY <1>3, <2>1
    <3>2. Offset(p) <= Offset(q) /\ Offset(q)' - Offset(p)' = Offset(q) - Offset(p)
      BY <2>2, <3>1
    <3>3. Dist(segs[p].slot, segs[q].slot) <= Offset(q) - Offset(p)
      BY <3>1, <3>2 DEF Blocked, Apart
    <3> QED
      BY <3>2, <3>3
  <2> QED
    BY <1>4, <2>2 DEF Apart
<1>12. FromBlocks' /\ Striding'
  BY <1>1 DEF Blocked, FromBlocks, Striding
<1>13. Doing'
  <2>1. Scaled(doing)' = Scaled(doing') /\ (Finished' <=> ran' = Scaled(doing').events)
    BY DEF Scaled, Finished
  <2>2. slots'[execSlot'] = Scaled(doing')
    BY <1>1, TickRuns DEF Block
  <2>3. ASSUME ~Continued' PROVE ran' = Scaled(doing').events
    <3>1. segHead # NextSegment(segTail) /\ segs'[segTail'].slot # execSlot'
      BY <1>1, <2>3 DEF Continued
    <3>2. segs[NextSegment(segTail)].slot # segs[segTail].slot
      BY <1>1, <1>2, <1>4, <1>5, <3>1 DEF Segment
    <3>3. c[segTail] = slots[segs[segTail].slot].events
      BY <1>2, <1>8, <3>1, <3>2 DEF Chain
    <3> QED
      BY <1>1, <1>9, <2>2, <3>3 DEF Segment
  <2> QED
    BY <2>1, <2>2, <2>3 DEF Doing
<1>14. WaitingKept
  BY <1>1, <1>4 DEF WaitingKept
<1> QED
  BY <1>8, <1>10, <1>11, <1>12, <1>13, <1>14 DEF Blocked

\* Bresenham: a counter and the steps made keep the account of the events.
LEMMA CountedTicked == ASSUME Typed, Blocked, Counted, Tick PROVE Counted'
<1>1. doing' \in [Axes -> Nat] /\ Block = Scaled(doing') /\ Types
  BY TickRuns, TypesAre DEF Typed
<1>2. PICK N \in Nat : N = Total' /\ N = Block.events /\ (~New => N = Total)
  <2>1. Events(doing') \in Nat /\ Block.events = Scale * Events(doing')
    BY <1>1, EventsTyped DEF Scaled
  <2>2. Total' = Scale * Events(doing')
    BY DEF Total, Events
  <2>3. Block.events \in Nat
    BY <2>1, SmoothingAssumption
  <2>4. ~New => Total' = Total
    BY <2>2, TickRuns DEF Total
  <2> QED
    BY <2>1, <2>2, <2>3, <2>4
<1>3. PICK u \in Nat, r \in Nat : u = Unit /\ r = Base /\ ran' = u + r /\ u <= Scale
  BY TickTyped, TickRuns DEF Unit
<1> SUFFICES ASSUME NEW a \in Axes
             PROVE  /\ counter'[a] <= N
                    /\ counter'[a] + N * moved'[a] = N \div 2 + doing'[a] * ran'
  BY <1>2 DEF Counted
<1>4. PICK x \in Nat : x = doing'[a] /\ x * u \in Nat /\ x * u <= N
  <2>1. PICK x \in Nat, e \in Nat : x = doing'[a] /\ e = Events(doing') /\ x <= e
    BY <1>1, EventsTyped
  <2>2. N = Scale * e
    BY <1>1, <1>2, <2>1 DEF Scaled
  <2>3. x * u <= e * Scale
    <3>1. \A i, j, k, l \in Nat : i <= j /\ k <= l => i * k <= j * l
      <4> SUFFICES ASSUME NEW i \in Nat, NEW j \in Nat, NEW k \in Nat, NEW l \in Nat, i <= j, k <= l
                   PROVE  i * k <= j * l
        OBVIOUS
      <4>1. PICK m \in Nat : j = i + m
        <5>1. j - i \in Nat /\ j = i + (j - i)
          OBVIOUS
        <5> QED
          BY <5>1
      <4>2. PICK n \in Nat : l = k + n
        <5>1. l - k \in Nat /\ l = k + (l - k)
          OBVIOUS
        <5> QED
          BY <5>1
      <4>3. (i + m) * (k + n) = i * k + (i * n + m * k + m * n)
        OBVIOUS
      <4>4. i * n \in Nat /\ m * k \in Nat /\ m * n \in Nat /\ i * k \in Nat
        OBVIOUS
      <4> QED
        BY <4>1, <4>2, <4>3, <4>4
    <3> QED
      BY <1>3, <2>1, <3>1, SmoothingAssumption
  <2>4. Scale * e = e * Scale
    BY SmoothingAssumption
  <2>5. x * u \in Nat
    OBVIOUS
  <2> QED
    BY <2>1, <2>2, <2>3, <2>4, <2>5
<1>5. PICK k \in Nat, m \in Nat :
         /\ k <= N /\ k + N * m = N \div 2 + x * r
         /\ Sum(a) = x * u + k
         /\ moved'[a] = One(a) + m
  <2>1. Rate[a] = x * u
    BY <1>3, <1>4, TickRuns
  <2>2. CASE New
    <3>1. Sum(a) = x * u + (N \div 2) /\ moved'[a] = One(a) + 0 /\ r = 0
      BY <1>2, <1>3, <2>1, <2>2, TickIs DEF Sum, CounterStart, Base
    <3>2. N \div 2 \in Nat /\ N \div 2 <= N
      OBVIOUS
    <3>3. (N \div 2) + N * 0 = N \div 2 + x * 0
      OBVIOUS
    <3> QED
      BY <3>1, <3>2, <3>3
  <2>3. CASE ~New
    <3>1. Sum(a) = x * u + counter[a] /\ moved'[a] = One(a) + moved[a] /\ r = ran /\ x = doing[a]
      BY <1>3, <1>4, <2>1, <2>3, TickIs, TickRuns DEF Sum, Base
    <3>2. counter[a] \in Nat /\ moved[a] \in Nat
      BY <1>1 DEF Types
    <3>3. counter[a] <= N /\ counter[a] + N * moved[a] = N \div 2 + doing[a] * ran
      BY <1>2, <2>3 DEF Counted
    <3> QED
      BY <3>1, <3>2, <3>3
  <2> QED
    BY <2>2, <2>3
<1>6. counter'[a] = Sum(a) - One(a) * N /\ One(a) = IF Sum(a) > N THEN 1 ELSE 0
  <2>1. counter'[a] = Sum(a) - One(a) * Block.events
    BY TickIs
  <2>2. One(a) = IF Sum(a) > Block.events THEN 1 ELSE 0
    BY DEF One, Due
  <2> QED
    BY <1>2, <2>1, <2>2
<1>7. PICK v \in Nat, w \in Nat, z \in Nat : v = x * u /\ w = N * m /\ z = x * r
  OBVIOUS
<1>8. x * ran' = v + z
  <2>1. x * (u + r) = x * u + x * r
    OBVIOUS
  <2> QED
    BY <1>3, <1>7, <2>1
<1>9. CASE Sum(a) > N
  <2>1. One(a) = 1 /\ counter'[a] = v + k - N /\ moved'[a] = 1 + m
    <3>1. One(a) = 1
      BY <1>6, <1>9
    <3> QED
      BY <1>5, <1>6, <1>7, <3>1
  <2>2. N * (1 + m) = N + w
    BY <1>7
  <2>3. v + k - N + (N + w) = v + (k + w)
    OBVIOUS
  <2>4. k + w = N \div 2 + z
    BY <1>5, <1>7
  <2>5. v + (N \div 2 + z) = N \div 2 + (v + z)
    OBVIOUS
  <2>6. v + k - N <= N
    BY <1>4, <1>5, <1>7
  <2> QED
    BY <1>4, <1>8, <2>1, <2>2, <2>3, <2>4, <2>5, <2>6
<1>10. CASE ~(Sum(a) > N)
  <2>1. One(a) = 0 /\ counter'[a] = v + k /\ moved'[a] = m /\ v + k <= N
    <3>1. One(a) = 0
      BY <1>6, <1>10
    <3> QED
      BY <1>5, <1>6, <1>7, <1>10, <3>1
  <2>2. k + w = N \div 2 + z
    BY <1>5, <1>7
  <2>3. v + (N \div 2 + z) = N \div 2 + (v + z) /\ v + k + w = v + (k + w)
    OBVIOUS
  <2> QED
    BY <1>4, <1>7, <1>8, <2>1, <2>2, <2>3
<1> QED
  BY <1>9, <1>10

-----------------------------------------------------------------------------
LEMMA BlockedStep ==
    ASSUME Typed, Blocked, Counted, [Next]_vars
    PROVE  /\ Blocked' /\ Counted'
           /\ Reset \/ UNCHANGED vars \/ (WaitingKept /\ BlockInFull)
<1>1. CASE UNCHANGED vars
  <2>1. Blocked'
    BY <1>1, BlockedSame DEF vars, main, ring, isr, observed
  <2>2. Counted'
    BY <1>1, CountedSame DEF vars, isr, observed
  <2> QED
    BY <1>1, <2>1, <2>2
<1>2. CASE LoadBlock \/ WriteSegment \/ PublishSegment
  <2>1. UNCHANGED <<counter, moved, doing, ran, execSlot>>
    BY <1>2 DEF LoadBlock, WriteSegment, PublishSegment, isr, observed
  <2>2. Counted' /\ BlockInFull
    BY <2>1, CountedSame DEF BlockInFull
  <2> QED
    BY <1>2, <2>2, BlockedLoaded, BlockedWritten, BlockedPublished
<1>3. CASE HoldBails \/ Replan \/ StartHold \/ ServeCycleStop \/ CycleStart \/ WakeUp \/ Kill \/ GoIdle
  <2>1. /\ UNCHANGED <<filling, prepSlot, left, slots, segs, segHead, segTail>>
        /\ UNCHANGED <<exec, execSlot, stepCount, stride, doing, ran, counter, moved>>
    BY <1>3 DEF HoldBails, Replan, StartHold, ServeCycleStop, CycleStart, WakeUp, Kill, GoIdle,
                main, ring, isr, observed
  <2>2. Blocked'
    BY <2>1, BlockedSame
  <2>3. Counted'
    BY <2>1, CountedSame
  <2>4. WaitingKept /\ BlockInFull
    BY <2>1 DEF WaitingKept, BlockInFull
  <2> QED
    BY <2>2, <2>3, <2>4
<1>4. CASE Reset
  BY <1>4, BlockedReset
<1>5. CASE Tick
  <2>1. Blocked' /\ WaitingKept
    BY <1>5, BlockedTicked, BlockedPopped
  <2>2. Counted'
    BY <1>5, CountedTicked
  <2>3. BlockInFull
    <3>1. execSlot' = Segment.slot
      BY <1>5, TickIs
    <3>2. Segment.slot # execSlot => Finished
      BY <1>5, TickRuns
    <3> QED
      BY <3>1, <3>2 DEF BlockInFull
  <2> QED
    BY <2>1, <2>2, <2>3
<1> QED
  BY <1>1, <1>2, <1>3, <1>4, <1>5 DEF Next

Exact == Typed /\ Blocked /\ Counted

LEMMA ExactAlways == Spec => []Exact
<1>1. Init => Exact
  BY InitTyped, BlockedInit DEF Exact
<1>2. Exact /\ [Next]_vars => Exact'
  BY TypedStep, BlockedStep DEF Exact
<1> QED
  BY <1>1, <1>2, PTL DEF Spec

\* What waits or is executed is never overwritten, in either ring, and the
\* interrupt goes to another block only when it has run all of the one before
\* (stepper.c, the two rings whose sizes differ by one).
THEOREM BlocksAlwaysKept == Spec => BlocksKept
<1>1. Exact /\ [Next]_vars => [Reset \/ (WaitingKept /\ BlockInFull)]_vars
  BY BlockedStep DEF Exact
<1> QED
  BY <1>1, ExactAlways, PTL DEF Spec, BlocksKept

\* Half an event to begin with and at most one in a counter: when all events
\* have run the steps can be neither more nor fewer than the block's.
LEMMA CountedExact == Typed /\ Counted => StepsExact
<1> SUFFICES ASSUME Types, Counted, ran > 0, Finished, NEW a \in Axes PROVE moved[a] = doing[a]
  BY TypesAre DEF Typed, StepsExact, Types
<1>1. PICK e \in Nat : e = Events(doing)
  BY EventsTyped DEF Types
<1>2. PICK h \in Nat : Scale = 2 * h
  <2>1. Scale \in Nat /\ Scale % 2 = 0
    BY SmoothingAssumption
  <2>2. Scale = 2 * (Scale \div 2) /\ Scale \div 2 \in Nat
    BY <2>1
  <2> QED
    BY <2>2
<1>3. PICK g \in Nat : g = h * e /\ Total = 2 * g
  <2>1. h * e \in Nat /\ (2 * h) * e = 2 * (h * e)
    OBVIOUS
  <2> QED
    BY <1>1, <1>2, <2>1 DEF Total
<1>4. ran = 2 * g /\ g > 0 /\ (2 * g) \div 2 = g
  BY <1>3 DEF Finished, Total, Types
<1>5. PICK m \in Nat, x \in Nat, k \in Nat : m = moved[a] /\ x = doing[a] /\ k = counter[a]
  BY DEF Types
<1>6. k <= 2 * g /\ k + (2 * g) * m = g + x * (2 * g)
  BY <1>3, <1>4, <1>5 DEF Counted
<1>7. (2 * g) * m = 2 * (g * m) /\ x * (2 * g) = 2 * (g * x)
  OBVIOUS
<1>8. CASE m > x
  <2>1. PICK i \in Nat : m = x + 1 + i
    <3>1. m - x - 1 \in Nat /\ m = x + 1 + (m - x - 1)
      BY <1>8
    <3> QED
      BY <3>1
  <2>2. g * m = g * x + g + g * i /\ g * i \in Nat /\ g * x \in Nat
    BY <2>1
  <2> QED
    BY <1>4, <1>6, <1>7, <2>2
<1>9. CASE m < x
  <2>1. PICK i \in Nat : x = m + 1 + i
    <3>1. x - m - 1 \in Nat /\ x = m + 1 + (x - m - 1)
      BY <1>9
    <3> QED
      BY <3>1
  <2>2. g * x = g * m + g + g * i /\ g * i \in Nat /\ g * m \in Nat
    BY <2>1
  <2> QED
    BY <1>4, <1>6, <1>7, <2>2
<1> QED
  BY <1>5, <1>8, <1>9

-----------------------------------------------------------------------------
(* The sums of Conserved, segment by segment from the tail.                *)

LEMMA SumExists ==
    ASSUME NEW w \in [Nat -> Nat]
    PROVE  \A n \in Nat : \E h \in [0..n -> Nat] :
             h[0] = 0 /\ \A k \in 0..n : k # n => h[k + 1] = h[k] + w[k]
<1> DEFINE Sums(h, n) == h[0] = 0 /\ \A k \in 0..n : k # n => h[k + 1] = h[k] + w[k]
           T == {n \in Nat : \E h \in [0..n -> Nat] : Sums(h, n)}
<1>1. 0 \in T
  <2> DEFINE h == [k \in 0..0 |-> 0]
  <2>1. h \in [0..0 -> Nat] /\ Sums(h, 0)
    OBVIOUS
  <2> HIDE DEF h, Sums
  <2> QED
    BY <2>1
<1>2. ASSUME NEW n \in Nat, n \in T PROVE n + 1 \in T
  <2>1. PICK h \in [0..n -> Nat] : Sums(h, n)
    BY <1>2
  <2> DEFINE g == [k \in 0..n + 1 |-> IF k = n + 1 THEN h[n] + w[n] ELSE h[k]]
  <2>2. g \in [0..n + 1 -> Nat]
    <3>1. h[n] \in Nat /\ w[n] \in Nat
      BY <2>1
    <3>2. ASSUME NEW k \in 0..n + 1, k # n + 1 PROVE h[k] \in Nat
      <4>1. k \in 0..n
        BY <3>2
      <4> QED
        BY <2>1, <4>1
    <3>3. ASSUME NEW k \in 0..n + 1 PROVE (IF k = n + 1 THEN h[n] + w[n] ELSE h[k]) \in Nat
      <4>1. CASE k = n + 1
        BY <3>1, <4>1
      <4>2. CASE k # n + 1
        BY <3>2, <4>2
      <4> QED
        BY <4>1, <4>2
    <3> QED
      BY <3>3
  <2>3. g[0] = 0 /\ g[n + 1] = g[n] + w[n]
    BY <2>1
  <2>4. ASSUME NEW k \in 0..n, k # n PROVE g[k + 1] = g[k] + w[k]
    BY <2>1, <2>4
  <2>5. Sums(g, n + 1)
    <3> HIDE DEF g
    <3>1. \A k \in 0..n + 1 : k # n + 1 => k \in 0..n
      OBVIOUS
    <3> QED
      BY <2>3, <2>4, <3>1
  <2> HIDE DEF g, Sums
  <2>6. n + 1 \in Nat
    OBVIOUS
  <2> QED
    BY <2>2, <2>5, <2>6, Zenon
<1>3. \A n \in Nat : n \in T
  <2> HIDE DEF T
  <2> QED BY <1>1, <1>2, Induction
<1> QED
  BY <1>3

\* The place at a distance from the tail.
LEMMA PositionIs ==
    ASSUME Pointers
    PROVE  /\ \A k \in Places : Position(k) \in Places /\ Offset(Position(k)) = k
           /\ Position(0) = segTail /\ Position(Offset(segHead)) = segHead
           /\ \A k \in Places : k + 1 \in Places => NextSegment(Position(k)) = Position(k + 1)
           /\ \A k \in Places : k < Offset(segHead) => Position(k) \in Waiting
           /\ \A p \in Waiting : Offset(p) \in Places /\ Position(Offset(p)) = p
<1> segHead \in Places /\ segTail \in Places
  BY DEF Pointers
<1>1. ASSUME NEW k \in Places
      PROVE  /\ Position(k) = IF segTail + k < Segments THEN segTail + k ELSE segTail + k - Segments
             /\ Position(k) \in Places /\ Offset(Position(k)) = k
  <2>1. segTail + k \in 0..Segments + Segments - 1
    BY SegmentsAssumption DEF Places
  <2>2. Position(k) = IF segTail + k < Segments THEN segTail + k ELSE segTail + k - Segments
    <3>1. PICK m \in 0..Segments + Segments - 1 : m = segTail + k
      BY <2>1
    <3>2. m % Segments = IF m < Segments THEN m ELSE m - Segments
      BY ModSegments
    <3>3. Position(k) = m % Segments
      BY <3>1 DEF Position
    <3> QED
      BY <3>1, <3>2, <3>3, SegmentsAssumption DEF Places
  <2>3. Position(k) \in Places
    BY <2>2, SegmentsAssumption DEF Places
  <2>4. Off(Position(k), segTail) = k
    BY <2>2, SegmentsAssumption DEF Places, Off
  <2> QED
    BY <2>2, <2>3, <2>4, RingIs
<1>2. /\ \A p \in Places : Offset(p) \in Places
      /\ \A p, q \in Places : Offset(p) = Offset(q) => p = q
      /\ Waiting \subseteq Places
  BY RingOrdered
<1>3. \A p \in Places : Position(Offset(p)) = p
  BY <1>1, <1>2
<1>4. 0 \in Places /\ Position(0) = segTail
  BY <1>1, SegmentsAssumption DEF Places
<1>5. ASSUME NEW k \in Places, k + 1 \in Places PROVE NextSegment(Position(k)) = Position(k + 1)
  <2>1. NextSegment(Position(k)) = IF Position(k) = Segments - 1 THEN 0 ELSE Position(k) + 1
    BY <1>1, NextSegmentIs
  <2>2. /\ Position(k) = IF segTail + k < Segments THEN segTail + k ELSE segTail + k - Segments
        /\ Position(k + 1) = IF segTail + (k + 1) < Segments THEN segTail + (k + 1)
                             ELSE segTail + (k + 1) - Segments
    BY <1>1, <1>5
  <2> QED
    BY <1>5, <2>1, <2>2, SegmentsAssumption DEF Places
<1>6. ASSUME NEW k \in Places, k < Offset(segHead) PROVE Position(k) \in Waiting
  <2>1. Waiting = {i \in Places : Offset(i) < Offset(segHead)}
    BY DEF Waiting, Places
  <2> QED
    BY <1>1, <1>6, <2>1
<1> QED
  BY <1>1, <1>2, <1>3, <1>4, <1>5, <1>6

Weight(slot, k) == IF segs[Position(k)].slot = slot THEN Units(Position(k)) ELSE 0

LEMMA UnitsTyped == Types => \A p \in Places : Units(p) \in Nat /\ Uncut(p) \in Nat
<1> SUFFICES ASSUME Types, NEW p \in Places PROVE Units(p) \in Nat /\ Uncut(p) \in Nat
  OBVIOUS
<1>1. segs[p].n \in Nat /\ stepCount \in Nat
  BY DEF Types, SegmentType
<1>2. Scale \div segs[p].d \in Nat
  BY WholeUnits DEF Types, SegmentType
<1>3. \A i, j \in Nat : i * j \in Nat
  OBVIOUS
<1>4. Uncut(p) \in Nat
  BY <1>1, <1>2, <1>3 DEF Uncut
<1>5. Units(p) \in Nat
  BY <1>1, <1>2, <1>3 DEF Units
<1> QED
  BY <1>4, <1>5

\* The recursion of UnitsWaiting has a solution.
LEMMA UnitsWaitingIs ==
    ASSUME Types, NEW slot
    PROVE  \E f : /\ f[0] = 0 /\ UnitsWaiting(slot) = f[Offset(segHead)]
                  /\ \A k \in Places : f[k] \in Nat /\ f[k + 1] = f[k] + Weight(slot, k)
<1> DEFINE Fix(f) == f = [k \in 0 .. Segments |-> IF k = 0 THEN 0 ELSE f[k - 1] + Weight(slot, k - 1)]
           w == [k \in Nat |-> IF k \in Places THEN Weight(slot, k) ELSE 0]
<1>0. Pointers
  BY DEF Types
<1>1. \A k \in Places : Weight(slot, k) \in Nat
  BY <1>0, PositionIs, UnitsTyped DEF Weight
<1>2. w \in [Nat -> Nat] /\ \A k \in Places : w[k] = Weight(slot, k)
  BY <1>1, SegmentsAssumption DEF Places
<1>3. PICK h \in [0..Segments -> Nat] :
         h[0] = 0 /\ \A k \in 0..Segments : k # Segments => h[k + 1] = h[k] + w[k]
  <2> HIDE DEF w
  <2> QED
    BY <1>2, SumExists, SegmentsAssumption
<1>4. Fix(h)
  <2>1. ASSUME NEW k \in 0..Segments, k # 0 PROVE h[k] = h[k - 1] + Weight(slot, k - 1)
    <3>1. k - 1 \in Places /\ k - 1 \in 0..Segments /\ k - 1 # Segments /\ (k - 1) + 1 = k
      BY <2>1, SegmentsAssumption DEF Places
    <3> HIDE DEF w
    <3> QED
      BY <1>2, <1>3, <3>1
  <2> QED
    BY <1>3, <2>1
<1>5. UnitsWaiting(slot) = (CHOOSE f : Fix(f))[Offset(segHead)]
  BY DEF UnitsWaiting, Weight
<1>6. PICK f : Fix(f) /\ UnitsWaiting(slot) = f[Offset(segHead)]
  <2> HIDE DEF Fix
  <2> QED
    BY <1>4, <1>5
<1>7. f[0] = 0 /\ \A k \in 1..Segments : f[k] = f[k - 1] + Weight(slot, k - 1)
  BY <1>6, SegmentsAssumption
<1>8. ASSUME NEW k \in Places PROVE f[k + 1] = f[k] + Weight(slot, k)
  <2>1. k + 1 \in 1..Segments /\ (k + 1) - 1 = k
    BY SegmentsAssumption DEF Places
  <2> HIDE DEF Fix
  <2> QED
    BY <1>7, <2>1
<1>9. \A k \in Places : f[k] \in Nat
  <2> DEFINE T == {k \in Nat : k \in Places => f[k] \in Nat}
  <2> HIDE DEF Fix
  <2>1. 0 \in T
    BY <1>7
  <2>2. ASSUME NEW k \in Nat, k \in T PROVE k + 1 \in T
    <3>1. k + 1 \in Places => k \in Places
      BY SegmentsAssumption DEF Places
    <3> QED
      BY <1>1, <1>8, <2>2, <3>1
  <2>3. \A k \in Nat : k \in T
    <3> HIDE DEF T
    <3> QED BY <2>1, <2>2, Induction
  <2> QED
    BY <2>3 DEF Places
<1> HIDE DEF Fix
<1> QED
  BY <1>6, <1>7, <1>8, <1>9

\* A slot's segments lie together.
LEMMA Together ==
    ASSUME Types, Apart, NEW i \in Places, NEW j \in Places, NEW k \in Places,
           i <= j, j <= k, k < Offset(segHead),
           segs[Position(i)].slot = segs[Position(k)].slot
    PROVE  segs[Position(j)].slot = segs[Position(k)].slot
<1>1. /\ Position(i) \in Waiting /\ Position(j) \in Waiting /\ Position(k) \in Waiting
      /\ Offset(Position(i)) = i /\ Offset(Position(j)) = j /\ Offset(Position(k)) = k
  <2>1. Offset(segHead) \in Places /\ Pointers
    BY RingOrdered DEF Types, Pointers
  <2>2. i < Offset(segHead) /\ j < Offset(segHead)
    BY <2>1 DEF Places
  <2> QED
    BY <2>1, <2>2, PositionIs
<1>2. Waiting \subseteq Places
  BY RingOrdered DEF Types
<1>3. PICK x \in Slots, y \in Slots : x = segs[Position(k)].slot /\ y = segs[Position(j)].slot
  BY <1>1, <1>2 DEF Types, SegmentType
<1>4. Dist(x, y) <= j - i /\ Dist(y, x) <= k - j
  BY <1>1, <1>3 DEF Apart
<1>5. k - i <= Segments - 2
  <2>1. Offset(segHead) \in Places
    BY RingOrdered DEF Types, Pointers
  <2> QED
    BY <2>1, SegmentsAssumption DEF Places
<1>6. x # y => Dist(x, y) + Dist(y, x) = Segments - 1
  BY SegmentsAssumption DEF Dist, Slots
<1>7. Dist(x, y) \in Int /\ Dist(y, x) \in Int
  BY SegmentsAssumption DEF Dist, Slots
<1> QED
  BY <1>3, <1>4, <1>5, <1>6, <1>7, SegmentsAssumption DEF Places

\* What has run of the block in the slot.
RunOf(slot) == IF slot = execSlot /\ ~Finished THEN ran ELSE 0

LEMMA RunIs ==
    ASSUME Typed, Blocked, NEW c \in [Places -> Nat], Chain(c)
    PROVE  /\ ~Continued => \A slot : RunOf(slot) = 0
           /\ segHead # segTail /\ Continued => ~Finished
           /\ segHead # segTail =>
                LET sl == segs[segTail].slot
                IN  c[segTail] = Units(segTail) + RunOf(sl) /\ \A x : x # sl => RunOf(x) = 0
<1>1. Types /\ Pointers /\ Waiting \subseteq Places
  BY TypesAre, RingOrdered DEF Typed, Types
<1>2. ASSUME ~Continued PROVE Finished /\ \A slot : RunOf(slot) = 0
  BY <1>2 DEF Blocked, Doing, RunOf
<1>3. ASSUME segHead # segTail, Continued PROVE ~Finished /\ segs[segTail].slot = execSlot
  <2>1. segTail \in Waiting /\ segs[segTail].slot = execSlot /\ slots[execSlot] = Scaled(doing)
    BY <1>1, <1>3, RingOrdered DEF Continued, Blocked, Doing
  <2>2. c[segTail] = Units(segTail) + ran /\ c[segTail] <= Scale * Events(doing)
    BY <1>3, <2>1 DEF Chain, Scaled
  <2>3. Units(segTail) \in Nat \ {0}
    <3>1. Proper(segs[segTail]) /\ (exec => stepCount > 0)
      BY <2>1 DEF Typed, Filled
    <3>2. \A i, j \in Nat \ {0} : i * j \in Nat \ {0}
      OBVIOUS
    <3>3. Scale \div segs[segTail].d \in Nat \ {0}
      BY <3>1, WholeUnits DEF Proper
    <3>4. (IF exec /\ segTail = segTail THEN stepCount ELSE segs[segTail].n) \in Nat \ {0}
      BY <1>1, <2>1, <3>1 DEF Proper, Types, SegmentType
    <3> QED
      BY <3>2, <3>3, <3>4 DEF Units
  <2>4. ran \in Nat /\ Scale * Events(doing) \in Nat
    <3>1. Events(doing) \in Nat /\ Scale \in Nat
      BY <1>1, EventsTyped, SmoothingAssumption DEF Types
    <3> QED
      BY <1>1, <3>1 DEF Types
  <2>5. ran # Scale * Events(doing)
    BY <2>2, <2>3, <2>4
  <2> QED
    BY <2>1, <2>5 DEF Finished
<1>4. ASSUME segHead # segTail, NEW sl, sl = segs[segTail].slot
      PROVE  c[segTail] = Units(segTail) + RunOf(sl) /\ \A x : x # sl => RunOf(x) = 0
  <2>1. c[segTail] = Units(segTail) + IF sl = execSlot THEN ran ELSE 0
    BY <1>4 DEF Chain
  <2>2. CASE Continued
    BY <1>3, <1>4, <2>1, <2>2 DEF RunOf
  <2>3. CASE ~Continued
    BY <1>2, <1>4, <2>1, <2>3 DEF Continued, RunOf
  <2> QED
    BY <2>2, <2>3
<1> QED
  BY <1>2, <1>3, <1>4

\* The first n + 1 waiting segments of a slot: up to the last of them c tells
\* what they make up; when another block follows, they make up the whole block.
LEMMA PartialSums ==
    ASSUME Typed, Blocked, NEW c \in [Places -> Nat], Chain(c), NEW slot \in Slots,
           NEW f, f[0] = 0,
           \A k \in Places : f[k] \in Nat /\ f[k + 1] = f[k] + Weight(slot, k)
    PROVE  \A n \in Nat : n < Offset(segHead) =>
             IF segs[Position(n)].slot = slot THEN f[n + 1] + RunOf(slot) = c[Position(n)]
             ELSE IF \E i \in 0..n : segs[Position(i)].slot = slot
                  THEN f[n + 1] + RunOf(slot) = slots[slot].events
                  ELSE f[n + 1] = 0
<1> DEFINE Last(n) == IF segs[Position(n)].slot = slot THEN f[n + 1] + RunOf(slot) = c[Position(n)]
                      ELSE IF \E i \in 0..n : segs[Position(i)].slot = slot
                           THEN f[n + 1] + RunOf(slot) = slots[slot].events
                           ELSE f[n + 1] = 0
           T == {n \in Nat : n < Offset(segHead) => Last(n)}
<1>1. Types /\ Pointers /\ Waiting \subseteq Places /\ Offset(segHead) \in Places /\ Apart
  BY TypesAre, RingOrdered DEF Typed, Types, Pointers, Blocked
<1>2. RunOf(slot) \in Nat
  BY <1>1 DEF RunOf, Types
<1>3. 0 \in T
  <2> SUFFICES ASSUME 0 < Offset(segHead) PROVE Last(0)
    OBVIOUS
  <2>1. segHead # segTail /\ Position(0) = segTail /\ 0 \in Places
    <3>1. Offset(segTail) = 0 /\ Position(0) = segTail
      BY <1>1, RingOrdered, PositionIs
    <3> QED
      BY <1>1, <3>1, SegmentsAssumption DEF Places
  <2>2. f[1] = Weight(slot, 0)
    <3>1. f[0 + 1] = f[0] + Weight(slot, 0)
      BY <2>1
    <3>2. Weight(slot, 0) \in Nat
      BY <1>1, <2>1, UnitsTyped DEF Weight, Pointers
    <3> QED
      BY <3>1, <3>2
  <2>3. CASE segs[segTail].slot = slot
    BY <2>1, <2>2, <2>3, RunIs DEF Weight
  <2>4. CASE segs[segTail].slot # slot
    <3>1. f[0 + 1] = 0 /\ \A i \in 0..0 : segs[Position(i)].slot # slot
      BY <2>1, <2>2, <2>4 DEF Weight
    <3> QED
      BY <2>1, <2>4, <3>1
  <2> QED
    BY <2>3, <2>4
<1>4. ASSUME NEW n \in Nat, n \in T PROVE n + 1 \in T
  <2> SUFFICES ASSUME n + 1 < Offset(segHead) PROVE Last(n + 1)
    OBVIOUS
  <2>1. n \in Places /\ n + 1 \in Places /\ n < Offset(segHead)
    <3>1. PICK l \in 0..Segments - 1 : l = Offset(segHead)
      BY <1>1 DEF Places
    <3>2. n + 1 < l
      BY <3>1
    <3> QED
      BY <3>1, <3>2, SegmentsAssumption DEF Places
  <2>2. Last(n)
    BY <1>4, <2>1
  <2>3. PICK p \in Waiting, q \in Waiting :
           p = Position(n) /\ q = Position(n + 1) /\ q = NextSegment(p) /\ q # segHead /\ q # segTail
    <3>1. Position(n) \in Waiting /\ Position(n + 1) \in Waiting /\ segHead \notin Waiting
          /\ Position(n + 1) = NextSegment(Position(n))
      BY <1>1, <2>1, PositionIs, RingOrdered
    <3>2. Offset(segTail) = 0 /\ Offset(Position(n + 1)) = n + 1
      BY <1>1, <2>1, PositionIs, RingOrdered
    <3>3. Position(n + 1) # segTail
      BY <3>2
    <3> QED
      BY <3>1, <3>3
  <2>4. IF segs[q].slot = segs[p].slot THEN c[q] = c[p] + Uncut(q)
        ELSE c[q] = Uncut(q) /\ c[p] = slots[segs[p].slot].events
    BY <2>3 DEF Chain
  <2>5. Units(q) = Uncut(q) /\ Uncut(q) \in Nat /\ c[p] \in Nat
    BY <1>1, <2>3, UnitsTyped DEF Units, Uncut
  <2>6. f[n + 1] \in Nat /\ f[(n + 1) + 1] = f[n + 1] + IF segs[q].slot = slot THEN Uncut(q) ELSE 0
    BY <2>1, <2>3, <2>5 DEF Weight
  <2>7. (\E i \in 0..n + 1 : segs[Position(i)].slot = slot)
          <=> (\E i \in 0..n : segs[Position(i)].slot = slot) \/ segs[q].slot = slot
    <3>1. \A i \in 0..n + 1 : i \in 0..n \/ i = n + 1
      OBVIOUS
    <3>2. \A i \in 0..n : i \in 0..n + 1
      OBVIOUS
    <3>3. n + 1 \in 0..n + 1
      OBVIOUS
    <3> QED
      BY <2>3, <3>1, <3>2, <3>3
  <2>8. CASE segs[q].slot = slot
    <3>1. CASE segs[p].slot = slot
      <4>1. f[n + 1] + RunOf(slot) = c[p] /\ c[q] = c[p] + Uncut(q)
        BY <2>2, <2>3, <2>4, <2>8, <3>1
      <4>2. f[(n + 1) + 1] = f[n + 1] + Uncut(q)
        BY <2>6, <2>8
      <4>3. f[(n + 1) + 1] + RunOf(slot) = c[q]
        BY <1>2, <2>5, <2>6, <4>1, <4>2
      <4> QED
        BY <2>3, <2>8, <4>3
    <3>2. CASE segs[p].slot # slot
      <4>1. ASSUME NEW i \in 0..n, segs[Position(i)].slot = slot PROVE FALSE
        <5>1. i \in Places /\ i <= n /\ n <= n + 1
          BY <2>1, <4>1, SegmentsAssumption DEF Places
        <5>2. segs[Position(n)].slot = segs[Position(n + 1)].slot
          BY <1>1, <2>1, <2>3, <2>8, <4>1, <5>1, Together
        <5> QED
          BY <2>3, <2>8, <3>2, <5>2
      <4>2. f[n + 1] = 0
        BY <2>2, <2>3, <3>2, <4>1
      <4>3. RunOf(slot) = 0
        <5>1. 0 \in 0..n /\ Position(0) = segTail
          BY <1>1, PositionIs
        <5>2. segs[segTail].slot # slot
          BY <4>1, <5>1
        <5>3. segHead # segTail
          BY <1>1, <2>3, RingOrdered
        <5> QED
          BY <5>2, <5>3, RunIs
      <4>4. c[q] = Uncut(q)
        BY <2>4, <2>8, <3>2
      <4>5. f[(n + 1) + 1] + RunOf(slot) = c[q]
        BY <2>5, <2>6, <2>8, <4>2, <4>3, <4>4
      <4> QED
        BY <2>3, <2>8, <4>5
    <3> QED
      BY <3>1, <3>2
  <2>9. CASE segs[q].slot # slot
    <3>1. f[(n + 1) + 1] = f[n + 1]
      BY <2>6, <2>9
    <3>2. CASE segs[p].slot = slot
      <4>1. f[n + 1] + RunOf(slot) = slots[slot].events
        BY <2>2, <2>3, <2>4, <2>9, <3>2
      <4>2. \E i \in 0..n + 1 : segs[Position(i)].slot = slot
        <5>1. n \in 0..n
          OBVIOUS
        <5> QED
          BY <2>3, <2>7, <3>2, <5>1
      <4> QED
        BY <2>3, <2>9, <3>1, <4>1, <4>2
    <3>3. CASE segs[p].slot # slot
      <4>1. IF \E i \in 0..n : segs[Position(i)].slot = slot
            THEN f[n + 1] + RunOf(slot) = slots[slot].events
            ELSE f[n + 1] = 0
        BY <2>2, <2>3, <3>3
      <4> QED
        BY <2>3, <2>7, <2>9, <3>1, <4>1
    <3> QED
      BY <3>2, <3>3
  <2> QED
    BY <2>8, <2>9
<1>5. \A n \in Nat : n \in T
  <2> HIDE DEF T
  <2> QED BY <1>3, <1>4, Induction
<1> QED
  BY <1>5

\* With the last segment, whose end the block that is being cut follows.
LEMMA ExactConserved == Typed /\ Blocked => Conserved
<1> SUFFICES ASSUME Typed, Blocked,
                    NEW slot \in {segs[i].slot : i \in Waiting} \cup (IF left > 0 THEN {prepSlot} ELSE {})
             PROVE  slots[slot].events =
                      UnitsWaiting(slot) + RunOf(slot)
                        + (IF slot = prepSlot THEN Scale * left + Unpublished ELSE 0)
  BY DEF Conserved, RunOf
<1>1. Types /\ Pointers /\ Waiting \subseteq Places /\ Offset(segHead) \in Places /\ Apart
  BY TypesAre, RingOrdered DEF Typed, Types, Pointers, Blocked
<1>2. slot \in Slots /\ slots[slot].events \in Nat /\ RunOf(slot) \in Nat
  <2>1. slot \in Slots
    BY <1>1 DEF Types, SegmentType
  <2> QED
    BY <1>1, <2>1 DEF Types, SlotType, RunOf
<1>3. PICK c \in [Places -> Nat] : Chain(c)
  BY DEF Blocked
<1>4. PICK f : /\ f[0] = 0 /\ UnitsWaiting(slot) = f[Offset(segHead)]
               /\ \A k \in Places : f[k] \in Nat /\ f[k + 1] = f[k] + Weight(slot, k)
  BY <1>1, UnitsWaitingIs
<1>5. PICK R \in Nat : R = Rest /\ (left > 0 => R > 0)
  <2>1. Unpublished \in Nat
    BY <1>1, UnitsTyped DEF Unpublished, Uncut, Pointers
  <2>2. Scale * left \in Nat /\ (left > 0 => Scale * left > 0)
    BY <1>1, SmoothingAssumption DEF Types
  <2> QED
    BY <2>1, <2>2 DEF Rest
<1>6. f[Offset(segHead)] \in Nat
  BY <1>1, <1>4
<1>7. CASE segHead = segTail
  <2>1. Waiting = {} /\ Offset(segHead) = 0
    BY <1>1, <1>7, RingOrdered
  <2>2. slot = prepSlot /\ left > 0
    BY <2>1
  <2>3. Ends(ran, execSlot) /\ UnitsWaiting(slot) = 0
    BY <1>3, <1>4, <1>7, <2>1 DEF Chain
  <2>4. CASE prepSlot = execSlot
    <3>1. ran + R = slots[slot].events /\ ran \in Nat
      BY <1>1, <1>5, <2>2, <2>3, <2>4 DEF Ends, Types
    <3>2. slots[slot].events = Scale * Events(doing)
      BY <1>7, <2>2, <2>4 DEF Blocked, Doing, Continued, Scaled
    <3>3. ~Finished
      BY <1>2, <1>5, <2>2, <3>1, <3>2 DEF Finished
    <3> QED
      BY <1>5, <2>2, <2>3, <2>4, <3>1, <3>3 DEF RunOf, Rest
  <2>5. CASE prepSlot # execSlot
    <3>1. R = slots[slot].events /\ RunOf(slot) = 0
      BY <1>5, <2>2, <2>3, <2>5 DEF Ends, RunOf
    <3> QED
      BY <1>5, <2>2, <2>3, <3>1 DEF Rest
  <2> QED
    BY <2>4, <2>5
<1>8. CASE segHead # segTail
  <2>1. PICK l \in Waiting : NextSegment(l) = segHead /\ Offset(l) = Offset(segHead) - 1
    BY <1>1, <1>8, LastWaits
  <2>2. PICK n \in Nat : /\ n = Offset(l) /\ n + 1 = Offset(segHead) /\ n < Offset(segHead)
                         /\ Position(n) = l /\ n \in Places
    <3>1. Offset(l) \in Places /\ Position(Offset(l)) = l
      BY <1>1, PositionIs
    <3> QED
      BY <1>1, <2>1, <3>1 DEF Places
  <2>3. IF segs[l].slot = slot THEN f[n + 1] + RunOf(slot) = c[l]
        ELSE IF \E i \in 0..n : segs[Position(i)].slot = slot
             THEN f[n + 1] + RunOf(slot) = slots[slot].events
             ELSE f[n + 1] = 0
    BY <1>2, <1>3, <1>4, <2>2, PartialSums
  <2>4. UnitsWaiting(slot) = f[n + 1] /\ f[n + 1] \in Nat
    BY <1>4, <1>6, <2>2
  <2>5. Ends(c[l], segs[l].slot) /\ c[l] \in Nat
    BY <1>1, <1>3, <2>1 DEF Chain
  <2>6. CASE segs[l].slot = slot
    <3>1. f[n + 1] + RunOf(slot) = c[l]
      BY <2>3, <2>6
    <3>2. CASE slot = prepSlot
      <4>1. c[l] + R = slots[slot].events
        BY <1>5, <2>5, <2>6, <3>2 DEF Ends
      <4> QED
        BY <1>5, <2>4, <3>1, <3>2, <4>1 DEF Rest
    <3>3. CASE slot # prepSlot
      <4>1. c[l] = slots[slot].events
        BY <2>5, <2>6, <3>3 DEF Ends
      <4> QED
        BY <1>2, <2>4, <3>1, <3>3, <4>1
    <3> QED
      BY <3>2, <3>3
  <2>7. CASE segs[l].slot # slot
    <3>1. CASE \E i \in 0..n : segs[Position(i)].slot = slot
      <4>1. f[n + 1] + RunOf(slot) = slots[slot].events
        BY <2>3, <2>7, <3>1
      <4>2. slot # prepSlot
        <5> SUFFICES ASSUME slot = prepSlot PROVE FALSE
          OBVIOUS
        <5>1. NextSlot(segs[l].slot) = slot /\ ~RingFull
          BY <2>5, <2>7 DEF Ends
        <5>2. PICK i \in 0..n : segs[Position(i)].slot = slot
          BY <3>1
        <5>3. i \in Places /\ i < Offset(segHead) /\ i <= n
          <6>1. n \in 0..Segments - 1
            BY <2>2 DEF Places
          <6>2. i \in Nat /\ i <= n
            OBVIOUS
          <6> QED
            BY <2>2, <6>1, <6>2, SegmentsAssumption DEF Places
        <5>4. Position(i) \in Waiting /\ Offset(Position(i)) = i
          BY <1>1, <5>3, PositionIs
        <5>5. Dist(slot, segs[l].slot) <= n - i
          BY <1>1, <2>2, <5>2, <5>3, <5>4 DEF Apart
        <5>6. segs[l].slot \in Slots
          BY <1>1 DEF Types, SegmentType
        <5>7. Dist(slot, segs[l].slot) = Segments - 2
          BY <1>2, <5>1, <5>6, Distances
        <5>8. Offset(segHead) # Segments - 1
          BY <1>1, <5>1, RingOrdered
        <5> QED
          BY <1>1, <2>2, <5>3, <5>5, <5>7, <5>8, SegmentsAssumption DEF Places
      <4> QED
        BY <1>2, <2>4, <4>1, <4>2
    <3>2. CASE ~ \E i \in 0..n : segs[Position(i)].slot = slot
      <4>1. f[n + 1] = 0
        BY <2>3, <2>7, <3>2
      <4>2. \A p \in Waiting : segs[p].slot # slot
        <5> SUFFICES ASSUME NEW p \in Waiting, segs[p].slot = slot PROVE FALSE
          OBVIOUS
        <5>1. Offset(p) \in Places /\ Position(Offset(p)) = p /\ Offset(p) < Offset(segHead)
          BY <1>1, PositionIs, RingOrdered
        <5>2. Offset(p) \in 0..n
          BY <2>2, <5>1 DEF Places
        <5> QED
          BY <3>2, <5>1, <5>2
      <4>3. slot = prepSlot /\ left > 0
        BY <4>2
      <4>4. R = slots[slot].events
        BY <1>5, <2>5, <2>7, <4>3 DEF Ends
      <4>5. RunOf(slot) = 0
        <5>1. segTail \in Waiting
          BY <1>1, <1>8, RingOrdered
        <5>2. segs[segTail].slot # slot
          BY <4>2, <5>1
        <5> QED
          BY <1>3, <1>8, <5>2, RunIs
      <4> QED
        BY <1>5, <2>4, <4>1, <4>3, <4>4, <4>5 DEF Rest
    <3> QED
      BY <3>1, <3>2
  <2> QED
    BY <2>6, <2>7
<1> QED
  BY <1>7, <1>8

\* Every block of every job gets exactly its steps: no step event is lost or
\* cut twice between the planner and the interrupt, and when the last has run
\* each axis has made the steps of the block, whatever the segments, the
\* smoothing and the holds were (st_prep_buffer, TIMER1_COMPA).
THEOREM EventsAlwaysExact == Spec => []EventsExact
<1>1. Exact => EventsExact
  BY CountedExact, ExactConserved DEF Exact, EventsExact
<1> QED
  BY <1>1, ExactAlways, PTL
=============================================================================
