---------------------------- MODULE PlannerProofs ----------------------------
(***************************************************************************)
(* The tool can stop on the path that is left, and the stepper follows the *)
(* plan, for every size of the ring, every motion and every override.  And *)
(* without overrides every plan is the best one and the speed never jumps. *)
(***************************************************************************)
EXTENDS Planner, FiniteSetTheorems, TLAPS

-----------------------------------------------------------------------------
(* Numbers.                                                                *)

\* Induction, as a statement about sets: were n the number missing, the
\* successor would map what lies before it injectively into itself without 0.
LEMMA Induction ==
    ASSUME NEW T, 0 \in T, \A n \in Nat : n \in T => n + 1 \in T
    PROVE  \A n \in Nat : n \in T
<1> SUFFICES ASSUME NEW n \in Nat, n \notin T PROVE FALSE
  OBVIOUS
<1> DEFINE A == {i \in 0..n : i \in T}
           f == [x \in A |-> x + 1]
<1>1. 0 \in A /\ A \in SUBSET (0..n)
  OBVIOUS
<1>2. f \in [A -> A \ {0}]
  OBVIOUS
<1>3. ~ \E x, y \in A : x # y /\ f[x] = f[y]
  OBVIOUS
<1> HIDE DEF f, A
<1>4. IsFiniteSet(A)
  <2>1. IsFiniteSet(0..n)
    BY FS_Interval
  <2> QED
    BY <1>1, <2>1, FS_Subset
<1>5. /\ IsFiniteSet(A \ {0}) /\ Cardinality(A \ {0}) = Cardinality(A) - 1
      /\ Cardinality(A) \in Nat
  BY <1>1, <1>4, FS_RemoveElement, FS_CardinalityType
<1> QED
  BY <1>2, <1>3, <1>4, <1>5, FS_PigeonHole

\* A nonempty set of numbers with a bound has a greatest one.
LEMMA MaxIn ==
    ASSUME NEW m \in Nat, NEW S \in SUBSET (0..m), S # {}
    PROVE  Max(S) \in S /\ \A x \in S : x <= Max(S)
<1> DEFINE T == {n \in Nat : \A Q \in SUBSET (0..n) : Q # {} => \E x \in Q : \A y \in Q : x >= y}
<1>1. 0 \in T
  <2>1. ASSUME NEW Q \in SUBSET (0..0), Q # {} PROVE \E x \in Q : \A y \in Q : x >= y
    <3>1. \A y \in Q : y = 0
      BY <2>1
    <3>2. PICK x \in Q : TRUE
      BY <2>1
    <3> QED
      BY <3>1, <3>2
  <2> QED
    BY <2>1
<1>2. ASSUME NEW n \in Nat, n \in T PROVE n + 1 \in T
  <2> SUFFICES ASSUME NEW Q \in SUBSET (0..n + 1), Q # {} PROVE \E x \in Q : \A y \in Q : x >= y
    OBVIOUS
  <2>1. CASE n + 1 \in Q
    BY <2>1
  <2>2. CASE n + 1 \notin Q
    <3>1. Q \in SUBSET (0..n)
      BY <2>2
    <3> QED
      BY <1>2, <3>1
  <2> QED
    BY <2>1, <2>2
<1>3. m \in T
  <2> HIDE DEF T
  <2> QED
    BY <1>1, <1>2, Induction
<1> QED
  BY <1>3 DEF Max

LEMMA Modulo ==
    \A n \in Nat \ {0} : \A m \in 0..n + n - 1 : m % n = IF m < n THEN m ELSE m - n
<1> SUFFICES ASSUME NEW n \in Nat \ {0}, NEW m \in 0..n + n - 1
             PROVE  m % n = IF m < n THEN m ELSE m - n
  OBVIOUS
<1> QED
  OBVIOUS

LEMMA Products == \A a, b \in Nat : a * b \in Nat
OBVIOUS

LEMMA Quotients == \A a \in Nat, b \in Nat \ {0} : a \div b \in Nat
<1> SUFFICES ASSUME NEW a \in Nat, NEW b \in Nat \ {0} PROVE a \div b \in Nat
  OBVIOUS
<1> QED
  OBVIOUS

LEMMA SquaresGrow == \A a, b \in Nat : a <= b => a * a <= b * b
<1> SUFFICES ASSUME NEW a \in Nat, NEW b \in Nat, a <= b PROVE a * a <= b * b
  OBVIOUS
<1>1. PICK c \in Nat : b = a + c
  <2>1. b - a \in Nat /\ b = a + (b - a)
    OBVIOUS
  <2> QED
    BY <2>1
<1>2. b * b = a * a + a * c + c * a + c * c
  BY <1>1
<1> QED
  BY <1>2, Products

-----------------------------------------------------------------------------
(* The ring.                                                               *)

LEMMA RingWraps ==
    ASSUME NEW m \in Nat, m < Ring + Ring
    PROVE  m % Ring = IF m < Ring THEN m ELSE m - Ring
<1>1. Ring \in Nat \ {0} /\ m \in 0..Ring + Ring - 1
  BY RingAssumption
<1> QED
  BY <1>1, Modulo, Zenon

LEMMA NextIs ==
    ASSUME NEW i \in Slots
    PROVE  NextBlock(i) = (IF i = Ring - 1 THEN 0 ELSE i + 1) /\ NextBlock(i) \in Slots
<1>1. PICK m \in Nat : m = i + 1 /\ m < Ring + Ring
  BY RingAssumption DEF Slots
<1>2. NextBlock(i) = IF m < Ring THEN m ELSE m - Ring
  BY <1>1, RingWraps DEF NextBlock
<1> QED
  BY <1>1, <1>2, RingAssumption DEF Slots

LEMMA PrevIs ==
    ASSUME NEW i \in Slots
    PROVE  PrevBlock(i) = (IF i = 0 THEN Ring - 1 ELSE i - 1) /\ PrevBlock(i) \in Slots
<1>1. PICK m \in Nat : m = i + Ring - 1 /\ m < Ring + Ring
  BY RingAssumption DEF Slots
<1>2. PrevBlock(i) = IF m < Ring THEN m ELSE m - Ring
  BY <1>1, RingWraps DEF PrevBlock
<1> QED
  BY <1>1, <1>2, RingAssumption DEF Slots

LEMMA AheadIs ==
    ASSUME NEW i \in Slots, NEW k \in Slots
    PROVE  Ahead(i, k) = (IF i + k < Ring THEN i + k ELSE i + k - Ring) /\ Ahead(i, k) \in Slots
<1>1. PICK m \in Nat : m = i + k /\ m < Ring + Ring
  BY RingAssumption DEF Slots
<1>2. Ahead(i, k) = IF m < Ring THEN m ELSE m - Ring
  BY <1>1, RingWraps DEF Ahead
<1> QED
  BY <1>1, <1>2, RingAssumption DEF Slots

LEMMA DistanceIs ==
    ASSUME NEW i \in Slots, NEW j \in Slots
    PROVE  Distance(i, j) = (IF j >= i THEN j - i ELSE j - i + Ring) /\ Distance(i, j) \in Slots
<1>1. PICK m \in Nat : m = j - i + Ring /\ m < Ring + Ring
  BY RingAssumption DEF Slots
<1>2. Distance(i, j) = IF m < Ring THEN m ELSE m - Ring
  BY <1>1, RingWraps DEF Distance
<1> QED
  BY <1>1, <1>2, RingAssumption DEF Slots

\* One slot further, one slot back.
LEMMA Neighbours ==
    ASSUME NEW i \in Slots
    PROVE  /\ NextBlock(i) \in Slots /\ PrevBlock(i) \in Slots
           /\ NextBlock(PrevBlock(i)) = i /\ PrevBlock(NextBlock(i)) = i
           /\ NextBlock(i) # i /\ PrevBlock(i) # i
<1>1. NextBlock(i) \in Slots /\ PrevBlock(i) \in Slots
  BY NextIs, PrevIs
<1>2. /\ NextBlock(i) = (IF i = Ring - 1 THEN 0 ELSE i + 1)
      /\ PrevBlock(i) = (IF i = 0 THEN Ring - 1 ELSE i - 1)
      /\ NextBlock(PrevBlock(i)) = (IF PrevBlock(i) = Ring - 1 THEN 0 ELSE PrevBlock(i) + 1)
      /\ PrevBlock(NextBlock(i)) = (IF NextBlock(i) = 0 THEN Ring - 1 ELSE NextBlock(i) - 1)
  BY <1>1, NextIs, PrevIs
<1> QED
  BY <1>1, <1>2, RingAssumption DEF Slots

\* Distances from a slot number the others.
LEMMA Distances ==
    ASSUME NEW p \in Slots, NEW i \in Slots
    PROVE  /\ Distance(p, i) \in Slots /\ (Distance(p, i) = 0 <=> i = p)
           /\ Ahead(p, Distance(p, i)) = i
           /\ Distance(p, NextBlock(i)) = IF Distance(p, i) = Ring - 1 THEN 0 ELSE Distance(p, i) + 1
           /\ Distance(p, PrevBlock(i)) = IF Distance(p, i) = 0 THEN Ring - 1 ELSE Distance(p, i) - 1
           /\ Distance(NextBlock(p), i) = IF Distance(p, i) = 0 THEN Ring - 1 ELSE Distance(p, i) - 1
<1>1. NextBlock(i) \in Slots /\ PrevBlock(i) \in Slots /\ NextBlock(p) \in Slots
  BY Neighbours
<1>2. /\ NextBlock(i) = (IF i = Ring - 1 THEN 0 ELSE i + 1)
      /\ PrevBlock(i) = (IF i = 0 THEN Ring - 1 ELSE i - 1)
      /\ NextBlock(p) = (IF p = Ring - 1 THEN 0 ELSE p + 1)
  BY NextIs, PrevIs
<1>3. /\ Distance(p, i) = (IF i >= p THEN i - p ELSE i - p + Ring)
      /\ Distance(p, NextBlock(i)) = (IF NextBlock(i) >= p THEN NextBlock(i) - p ELSE NextBlock(i) - p + Ring)
      /\ Distance(p, PrevBlock(i)) = (IF PrevBlock(i) >= p THEN PrevBlock(i) - p ELSE PrevBlock(i) - p + Ring)
      /\ Distance(NextBlock(p), i) = (IF i >= NextBlock(p) THEN i - NextBlock(p) ELSE i - NextBlock(p) + Ring)
  BY <1>1, DistanceIs
<1>4. Distance(p, i) \in Slots
  BY DistanceIs
<1>5. Ahead(p, Distance(p, i)) = (IF p + Distance(p, i) < Ring THEN p + Distance(p, i)
                                  ELSE p + Distance(p, i) - Ring)
  BY <1>4, AheadIs
<1> QED
  BY <1>1, <1>2, <1>3, <1>4, <1>5, RingAssumption DEF Slots

LEMMA Places ==
    ASSUME NEW p \in Slots, NEW k \in Slots
    PROVE  /\ Ahead(p, k) \in Slots /\ Distance(p, Ahead(p, k)) = k
           /\ k + 1 \in Slots => NextBlock(Ahead(p, k)) = Ahead(p, k + 1)
<1>1. Ahead(p, k) = (IF p + k < Ring THEN p + k ELSE p + k - Ring) /\ Ahead(p, k) \in Slots
  BY AheadIs
<1>2. Distance(p, Ahead(p, k)) = IF Ahead(p, k) >= p THEN Ahead(p, k) - p ELSE Ahead(p, k) - p + Ring
  BY <1>1, DistanceIs
<1>3. NextBlock(Ahead(p, k)) = IF Ahead(p, k) = Ring - 1 THEN 0 ELSE Ahead(p, k) + 1
  BY <1>1, NextIs
<1>4. k + 1 \in Slots =>
        Ahead(p, k + 1) = IF p + (k + 1) < Ring THEN p + (k + 1) ELSE p + (k + 1) - Ring
  BY AheadIs
<1> QED
  BY <1>1, <1>2, <1>3, <1>4, RingAssumption DEF Slots

\* By way of another slot.
LEMMA DistancesAdd ==
    ASSUME NEW t \in Slots, NEW p \in Slots, NEW i \in Slots
    PROVE  Distance(t, i) = IF Distance(t, p) + Distance(p, i) < Ring
                            THEN Distance(t, p) + Distance(p, i)
                            ELSE Distance(t, p) + Distance(p, i) - Ring
<1>1. /\ Distance(t, i) = (IF i >= t THEN i - t ELSE i - t + Ring)
      /\ Distance(t, p) = (IF p >= t THEN p - t ELSE p - t + Ring)
      /\ Distance(p, i) = (IF i >= p THEN i - p ELSE i - p + Ring)
  BY DistanceIs
<1> QED
  BY <1>1, RingAssumption DEF Slots

-----------------------------------------------------------------------------
(* The two passes, over the places 0 .. m: the lengths of their blocks,    *)
(* their maximal entry speeds, those they had, those the reverse pass      *)
(* wants (w) and those the forward pass leaves (e).                        *)

LEMMA Downwards ==
    ASSUME NEW m \in Nat \ {0}, NEW T, m \in T, \A k \in 1..m - 1 : k + 1 \in T => k \in T
    PROVE  \A k \in 1..m : k \in T
<1> DEFINE U == {n \in Nat : n < m => m - n \in T}
<1>1. 0 \in U
  OBVIOUS
<1>2. ASSUME NEW n \in Nat, n \in U PROVE n + 1 \in U
  <2> SUFFICES ASSUME n + 1 < m PROVE m - (n + 1) \in T
    OBVIOUS
  <2>1. m - (n + 1) \in 1..m - 1 /\ (m - (n + 1)) + 1 = m - n /\ m - n \in T
    BY <1>2
  <2> QED
    BY <2>1
<1>3. \A n \in Nat : n \in U
  <2> HIDE DEF U
  <2> QED
    BY <1>1, <1>2, Induction
<1> TAKE k \in 1..m
<1>4. m - k \in Nat /\ m - k < m /\ m - (m - k) = k
  OBVIOUS
<1> QED
  BY <1>3, <1>4

LEMMA Upwards ==
    ASSUME NEW m \in Nat, NEW T, 0 \in T, \A k \in 1..m : k - 1 \in T => k \in T
    PROVE  \A k \in 0..m : k \in T
<1> DEFINE U == {n \in Nat : n <= m => n \in T}
<1>1. 0 \in U
  OBVIOUS
<1>2. ASSUME NEW n \in Nat, n \in U PROVE n + 1 \in U
  <2>1. n + 1 <= m => n + 1 \in 1..m /\ (n + 1) - 1 = n
    OBVIOUS
  <2> QED
    BY <1>2, <2>1
<1>3. \A n \in Nat : n \in U
  <2> HIDE DEF U
  <2> QED
    BY <1>1, <1>2, Induction
<1> QED
  BY <1>3

\* The speed wanted where wn is wanted of the next block.
WantedOf(w, wn, most, length, old) ==
    w = IF old = most THEN old ELSE Least(wn + length, most)

\* No less than it was, if one could slow down to the next block.
LEMMA WantStep ==
    ASSUME NEW w, NEW wn, NEW most, NEW length, NEW old, NEW oldn,
           w \in Nat, wn \in Nat, most \in Nat, length \in Nat, old \in Nat, oldn \in Nat,
           WantedOf(w, wn, most, length, old), old <= most, old <= length + oldn, wn >= oldn
    PROVE  /\ w >= old /\ w <= most /\ w <= length + wn
           /\ w = most \/ w = length + wn
BY DEF Least, WantedOf

\* No more than the way that is left.
LEMMA WantBelow ==
    ASSUME NEW w, NEW wn, NEW most, NEW length, NEW old, NEW way, NEW wayn,
           w \in Nat, wn \in Nat, most \in Nat, length \in Nat, old \in Nat, way \in Nat, wayn \in Nat,
           WantedOf(w, wn, most, length, old), old <= way, way = length + wayn, wn <= wayn
    PROVE  w <= way
BY DEF Least, WantedOf

\* The speed entered after ep: what is wanted, or less and full acceleration.
Lowered(e, w, ep, length) ==
    e <= w /\ e <= ep + length /\ (e = w \/ e = ep + length)

LEMMA EnterStep ==
    ASSUME NEW e, NEW ep, NEW w, NEW length,
           e \in Nat, ep \in Nat, w \in Nat, length \in Nat,
           e = Reached(ep, length, w)
    PROVE  Lowered(e, w, ep, length)
BY DEF Reached, Lowered

\* Where one could slow down to the next block, one still can.
LEMMA EnterShape ==
    ASSUME NEW e, NEW w, NEW most, NEW length, NEW wn, NEW en, NEW ep, NEW lengthp,
           e \in Nat, w \in Nat, most \in Nat, length \in Nat, wn \in Nat, en \in Nat, ep \in Nat, lengthp \in Nat,
           length > 0,
           Lowered(e, w, ep, lengthp), Lowered(en, wn, e, length),
           w <= length + wn, w = most \/ w = length + wn
    PROVE  e <= length + en /\ (e = most \/ e = ep + lengthp \/ e = length + en)
BY DEF Lowered

Numbers(m, f) == \A k \in 0..m : f[k] \in Nat

Wanted(m, length, most, old, w) ==
    /\ \A k \in 1..m : w[k] \in Nat
    /\ w[m] = Least(most[m], length[m])
    /\ \A k \in 1..m - 1 :
         WantedOf(w[k], w[k + 1], most[k], length[k], old[k])

Entered(m, length, old, w, e) ==
    /\ Numbers(m, e)
    /\ e[0] = old[0]
    /\ \A k \in 1..m : e[k] = Reached(e[k - 1], length[k - 1], w[k])

\* The speeds as they were: each block can slow down to the next.
Feasible(m, length, most, old) ==
    /\ \A k \in 1..m : old[k] <= most[k]
    /\ old[m] <= length[m]
    /\ \A k \in 1..m - 1 : old[k] <= length[k] + old[k + 1]

\* What the reverse pass wants is the most from which the next block can be
\* met, or the maximum, and no less than it was.
LEMMA WantedIs ==
    ASSUME NEW m \in Nat \ {0}, NEW length, Numbers(m, length), NEW most, Numbers(m, most),
           NEW old, Numbers(m, old), NEW w, Wanted(m, length, most, old, w),
           Feasible(m, length, most, old)
    PROVE  /\ \A k \in 1..m : w[k] >= old[k] /\ w[k] <= most[k]
           /\ w[m] <= length[m] /\ (w[m] = most[m] \/ w[m] = length[m])
           /\ \A k \in 1..m - 1 : /\ w[k] <= length[k] + w[k + 1]
                                  /\ w[k] = most[k] \/ w[k] = length[k] + w[k + 1]
<1> DEFINE T == {k \in 1..m : w[k] >= old[k] /\ w[k] <= most[k]}
<1>1. m \in 1..m /\ m \in 0..m
  OBVIOUS
<1>2. w[m] <= length[m] /\ (w[m] = most[m] \/ w[m] = length[m]) /\ m \in T
  <2>1. w[m] = Least(most[m], length[m]) /\ most[m] \in Nat /\ length[m] \in Nat /\ old[m] \in Nat
    BY <1>1 DEF Wanted, Numbers
  <2>2. old[m] <= most[m] /\ old[m] <= length[m]
    BY <1>1 DEF Feasible
  <2> QED
    BY <1>1, <2>1, <2>2 DEF Least
<1>3. ASSUME NEW k \in 1..m - 1, k + 1 \in T
      PROVE  /\ k \in T /\ w[k] <= length[k] + w[k + 1]
             /\ w[k] = most[k] \/ w[k] = length[k] + w[k + 1]
  <2>1. k \in 1..m /\ k \in 0..m /\ k + 1 \in 1..m /\ k + 1 \in 0..m
    OBVIOUS
  <2>2. /\ w[k] \in Nat /\ w[k + 1] \in Nat /\ most[k] \in Nat
        /\ old[k] \in Nat /\ old[k + 1] \in Nat /\ length[k] \in Nat
    BY <2>1 DEF Wanted, Numbers
  <2>3. WantedOf(w[k], w[k + 1], most[k], length[k], old[k])
    BY DEF Wanted, Numbers
  <2>4. old[k] <= most[k] /\ old[k] <= length[k] + old[k + 1] /\ w[k + 1] >= old[k + 1]
    BY <1>3, <2>1 DEF Feasible
  <2>5. /\ w[k] >= old[k] /\ w[k] <= most[k] /\ w[k] <= length[k] + w[k + 1]
        /\ w[k] = most[k] \/ w[k] = length[k] + w[k + 1]
    BY <2>2, <2>3, <2>4, WantStep
  <2> QED
    BY <2>1, <2>5
<1> HIDE DEF T
<1>4. \A k \in 1..m : k \in T
  BY <1>2, <1>3, Downwards
<1>5. \A k \in 1..m - 1 : k + 1 \in T
  BY <1>4
<1> QED
  BY <1>2, <1>3, <1>4, <1>5 DEF T

\* The forward pass leaves what is wanted, or full acceleration.
LEMMA EnteredIs ==
    ASSUME NEW m \in Nat \ {0}, NEW length, Numbers(m, length), NEW old, Numbers(m, old),
           NEW w, \A k \in 1..m : w[k] \in Nat, NEW e, Entered(m, length, old, w, e), NEW k \in 1..m
    PROVE  e[k] \in Nat /\ e[k - 1] \in Nat /\ Lowered(e[k], w[k], e[k - 1], length[k - 1])
<1>1. k \in 0..m /\ k - 1 \in 0..m
  OBVIOUS
<1>2. e[k] \in Nat /\ e[k - 1] \in Nat /\ w[k] \in Nat /\ length[k - 1] \in Nat
  BY <1>1 DEF Entered, Numbers
<1>3. e[k] = Reached(e[k - 1], length[k - 1], w[k])
  BY DEF Entered, Numbers
<1> QED
  BY <1>2, <1>3, EnterStep

\* So the plan it leaves can be followed, and cannot be improved.
LEMMA PassesPlan ==
    ASSUME NEW m \in Nat \ {0}, NEW length, Numbers(m, length), \A k \in 0..m : length[k] > 0,
           NEW most, Numbers(m, most), NEW old, Numbers(m, old), NEW w, NEW e,
           Wanted(m, length, most, old, w), Entered(m, length, old, w, e),
           Feasible(m, length, most, old)
    PROVE  /\ \A k \in 1..m : e[k] <= most[k] /\ e[k] <= e[k - 1] + length[k - 1]
           /\ e[1] >= old[1] \/ e[1] = e[0] + length[0]
           /\ e[m] <= length[m]
           /\ e[m] = most[m] \/ e[m] = e[m - 1] + length[m - 1] \/ e[m] = length[m]
           /\ \A k \in 1..m - 1 :
                /\ e[k] <= length[k] + e[k + 1]
                /\ e[k] = most[k] \/ e[k] = e[k - 1] + length[k - 1] \/ e[k] = length[k] + e[k + 1]
<1>1. \A k \in 1..m : w[k] \in Nat
  BY DEF Wanted
<1>2. \A k \in 1..m : /\ e[k] \in Nat /\ e[k - 1] \in Nat
                      /\ Lowered(e[k], w[k], e[k - 1], length[k - 1])
  BY <1>1, EnteredIs
<1>3. /\ \A k \in 1..m : w[k] >= old[k] /\ w[k] <= most[k]
      /\ w[m] <= length[m] /\ (w[m] = most[m] \/ w[m] = length[m])
      /\ \A k \in 1..m - 1 : /\ w[k] <= length[k] + w[k + 1]
                             /\ w[k] = most[k] \/ w[k] = length[k] + w[k + 1]
  BY WantedIs
<1>4. ASSUME NEW k \in 1..m PROVE e[k] <= most[k] /\ e[k] <= e[k - 1] + length[k - 1]
  <2>1. k \in 0..m
    OBVIOUS
  <2>2. w[k] \in Nat /\ most[k] \in Nat /\ w[k] <= most[k] /\ e[k] \in Nat
    BY <1>1, <1>2, <1>3, <2>1 DEF Numbers
  <2>3. Lowered(e[k], w[k], e[k - 1], length[k - 1])
    BY <1>2
  <2>4. e[k] <= w[k] /\ e[k] <= e[k - 1] + length[k - 1]
    BY <2>3 DEF Lowered
  <2> QED
    BY <2>2, <2>4
<1>5. m \in 1..m /\ m \in 0..m
  OBVIOUS
<1>6. /\ e[m] <= length[m]
      /\ e[m] = most[m] \/ e[m] = e[m - 1] + length[m - 1] \/ e[m] = length[m]
  <2>1. e[m] \in Nat /\ w[m] \in Nat /\ most[m] \in Nat /\ length[m] \in Nat
    BY <1>1, <1>2, <1>5 DEF Numbers
  <2>2. e[m] <= w[m] /\ (e[m] = w[m] \/ e[m] = e[m - 1] + length[m - 1])
    BY <1>2, <1>5 DEF Lowered
  <2> QED
    BY <1>3, <2>1, <2>2
<1>7. ASSUME NEW k \in 1..m - 1
      PROVE  /\ e[k] <= length[k] + e[k + 1]
             /\ e[k] = most[k] \/ e[k] = e[k - 1] + length[k - 1] \/ e[k] = length[k] + e[k + 1]
  <2>1. k \in 1..m /\ k + 1 \in 1..m /\ (k + 1) - 1 = k /\ k \in 0..m /\ k - 1 \in 0..m
    OBVIOUS
  <2>2. /\ length[k] \in Nat /\ length[k] > 0 /\ length[k - 1] \in Nat /\ most[k] \in Nat
        /\ w[k] \in Nat /\ w[k + 1] \in Nat
    BY <1>1, <2>1 DEF Numbers
  <2>3. w[k] <= length[k] + w[k + 1] /\ (w[k] = most[k] \/ w[k] = length[k] + w[k + 1])
    BY <1>3
  <2>4. /\ e[k] \in Nat /\ e[k + 1] \in Nat /\ e[k - 1] \in Nat
        /\ Lowered(e[k], w[k], e[k - 1], length[k - 1])
        /\ Lowered(e[k + 1], w[k + 1], e[k], length[k])
    BY <1>2, <2>1
  <2> QED
    BY <2>2, <2>3, <2>4, EnterShape
<1>8. e[1] >= old[1] \/ e[1] = e[0] + length[0]
  <2>1. 1 \in 1..m /\ 1 \in 0..m /\ 1 - 1 = 0
    OBVIOUS
  <2>2. e[1] = w[1] \/ e[1] = e[0] + length[0]
    BY <1>2, <2>1 DEF Lowered
  <2> QED
    BY <1>3, <2>1, <2>2
<1> QED
  BY <1>4, <1>6, <1>7, <1>8

\* The reverse pass wants no more than the way that is left.
LEMMA WantedWithin ==
    ASSUME NEW m \in Nat \ {0}, NEW length, Numbers(m, length), NEW most, Numbers(m, most),
           NEW old, Numbers(m, old), NEW w, Wanted(m, length, most, old, w),
           NEW way, Numbers(m, way), length[m] <= way[m],
           \A k \in 1..m - 1 : old[k] <= way[k] /\ way[k] = length[k] + way[k + 1]
    PROVE  \A k \in 1..m : w[k] <= way[k]
<1> DEFINE T == {k \in 1..m : w[k] <= way[k]}
<1>1. m \in T
  BY DEF Wanted, Numbers, Least
<1>2. ASSUME NEW k \in 1..m - 1, k + 1 \in T PROVE k \in T
  <2>1. k \in 1..m /\ k \in 0..m /\ k + 1 \in 1..m /\ k + 1 \in 0..m
    OBVIOUS
  <2>2. /\ w[k] \in Nat /\ w[k + 1] \in Nat /\ most[k] \in Nat
        /\ old[k] \in Nat /\ way[k] \in Nat /\ way[k + 1] \in Nat /\ length[k] \in Nat
    BY <2>1 DEF Wanted, Numbers
  <2>3. WantedOf(w[k], w[k + 1], most[k], length[k], old[k])
    BY DEF Wanted, Numbers
  <2>5. old[k] <= way[k] /\ way[k] = length[k] + way[k + 1] /\ w[k + 1] <= way[k + 1]
    BY <1>2
  <2>4. w[k] <= way[k]
    BY <2>2, <2>3, <2>5, WantBelow
  <2> QED
    BY <2>1, <2>4
<1> HIDE DEF T
<1>3. \A k \in 1..m : k \in T
  BY <1>1, <1>2, Downwards
<1> QED
  BY <1>3 DEF T

-----------------------------------------------------------------------------
(* planner_recalculate: its recursions have solutions.                     *)

Chain(m, a, step, f) ==
    /\ f \in [0..m -> Nat] /\ f[0] = a
    /\ \A k \in 1..m : f[k] = step[k][f[k - 1]]

LEMMA ChainExists ==
    ASSUME NEW m \in Nat, NEW a \in Nat, NEW step,
           \A k \in 1..m : \A v \in Nat : step[k][v] \in Nat
    PROVE  \E f : Chain(m, a, step, f)
<1> DEFINE T == {n \in Nat : n <= m => \E f : Chain(n, a, step, f)}
<1>1. 0 \in T
  <2>1. Chain(0, a, step, [k \in 0..0 |-> a])
    BY DEF Chain
  <2> QED
    BY <2>1
<1>2. ASSUME NEW n \in Nat, n \in T PROVE n + 1 \in T
  <2> SUFFICES ASSUME n + 1 <= m PROVE \E f : Chain(n + 1, a, step, f)
    OBVIOUS
  <2>1. PICK f : Chain(n, a, step, f)
    BY <1>2
  <2> DEFINE g == [k \in 0..n + 1 |-> IF k = n + 1 THEN step[n + 1][f[n]] ELSE f[k]]
  <2>2. n \in 0..n /\ n + 1 \in 1..m /\ f[n] \in Nat
    BY <2>1 DEF Chain
  <2>3. g \in [0..n + 1 -> Nat] /\ g[0] = a
    BY <2>1, <2>2 DEF Chain
  <2>4. ASSUME NEW k \in 1..n + 1 PROVE g[k] = step[k][g[k - 1]]
    <3>1. k \in 0..n + 1 /\ k - 1 \in 0..n + 1 /\ k - 1 # n + 1
      OBVIOUS
    <3>2. g[k - 1] = f[k - 1]
      BY <3>1
    <3>3. CASE k = n + 1
      BY <3>1, <3>2, <3>3
    <3>4. CASE k # n + 1
      <4>1. k \in 1..n /\ g[k] = f[k]
        BY <3>1, <3>4
      <4> QED
        BY <2>1, <3>2, <4>1 DEF Chain
    <3> QED
      BY <3>3, <3>4
  <2> HIDE DEF g
  <2> QED
    BY <2>3, <2>4 DEF Chain
<1> HIDE DEF T
<1>3. m \in T
  BY <1>1, <1>2, Induction
<1> QED
  BY <1>3 DEF T

Typed == [Slots -> [entry : Nat, maxEntry : Nat, junction : Nat,
                    length : Nat, rate : FeedRates \cup {Rapid}]]

\* What the passes see of the blocks b from slot p on.
LengthAt(b, p, m) == [k \in 0..m |-> b[Ahead(p, k)].length]
MostAt(b, p, m) == [k \in 0..m |-> b[Ahead(p, k)].maxEntry]
OldAt(b, p, m) == [k \in 0..m |-> b[Ahead(p, k)].entry]

LEMMA SeenTyped ==
    ASSUME NEW b \in Typed, NEW p \in Slots, NEW m \in Slots
    PROVE  /\ Numbers(m, LengthAt(b, p, m)) /\ Numbers(m, MostAt(b, p, m)) /\ Numbers(m, OldAt(b, p, m))
           /\ \A k \in 0..m : /\ k \in Slots /\ Ahead(p, k) \in Slots
                              /\ LengthAt(b, p, m)[k] = b[Ahead(p, k)].length
                              /\ MostAt(b, p, m)[k] = b[Ahead(p, k)].maxEntry
                              /\ OldAt(b, p, m)[k] = b[Ahead(p, k)].entry
<1>1. \A k \in 0..m : k \in Slots
  BY RingAssumption DEF Slots
<1>2. \A k \in 0..m : Ahead(p, k) \in Slots
  BY <1>1, Places
<1> QED
  BY <1>1, <1>2 DEF Typed, Numbers, LengthAt, MostAt, OldAt

LEMMA ReverseIs ==
    ASSUME NEW b \in Typed, NEW p \in Slots, NEW m \in Slots, m # 0
    PROVE  Wanted(m, LengthAt(b, p, m), MostAt(b, p, m), OldAt(b, p, m), Reverse(b, p, m))
<1> DEFINE length == LengthAt(b, p, m)
           most == MostAt(b, p, m)
           old == OldAt(b, p, m)
           Fix(w) == w = [k \in 1..m |->
                            IF k = m THEN LastEntry(b[Ahead(p, k)])
                            ELSE IF b[Ahead(p, k)].entry = b[Ahead(p, k)].maxEntry THEN b[Ahead(p, k)].entry
                            ELSE Least(w[k + 1] + b[Ahead(p, k)].length, b[Ahead(p, k)].maxEntry)]
           step == [j \in 1..m - 1 |-> [v \in Nat |->
                      IF old[m - j] = most[m - j] THEN old[m - j] ELSE Least(v + length[m - j], most[m - j])]]
           last == Least(most[m], length[m])
<1>0. m \in Nat \ {0} /\ m - 1 \in Nat
  BY RingAssumption DEF Slots
<1>1. /\ Numbers(m, length) /\ Numbers(m, most) /\ Numbers(m, old)
      /\ \A k \in 0..m : /\ length[k] = b[Ahead(p, k)].length /\ most[k] = b[Ahead(p, k)].maxEntry
                         /\ old[k] = b[Ahead(p, k)].entry
  BY SeenTyped
<1> HIDE DEF length, most, old
<1>2. last \in Nat
  BY <1>0, <1>1 DEF Numbers, Least
<1>3. \A j \in 1..m - 1 : \A v \in Nat : step[j][v] \in Nat
  <2> SUFFICES ASSUME NEW j \in 1..m - 1, NEW v \in Nat PROVE step[j][v] \in Nat
    OBVIOUS
  <2>1. m - j \in 0..m
    BY <1>0
  <2> QED
    BY <1>1, <2>1 DEF Numbers, Least
<1> HIDE DEF last
<1>4. PICK f : Chain(m - 1, last, step, f)
  <2> HIDE DEF step
  <2> QED
    BY <1>0, <1>2, <1>3, ChainExists
<1>4a. /\ f \in [0..m - 1 -> Nat] /\ f[0] = last
       /\ \A j \in 1..m - 1 : f[j] = step[j][f[j - 1]]
  BY <1>4 DEF Chain
<1> DEFINE w0 == [k \in 1..m |-> f[m - k]]
<1>5. Fix(w0)
  <2>1. ASSUME NEW k \in 1..m
        PROVE  w0[k] = IF k = m THEN LastEntry(b[Ahead(p, k)])
                       ELSE IF b[Ahead(p, k)].entry = b[Ahead(p, k)].maxEntry THEN b[Ahead(p, k)].entry
                       ELSE Least(w0[k + 1] + b[Ahead(p, k)].length, b[Ahead(p, k)].maxEntry)
    <3>1. /\ k \in 0..m /\ length[k] = b[Ahead(p, k)].length /\ most[k] = b[Ahead(p, k)].maxEntry
          /\ old[k] = b[Ahead(p, k)].entry
      BY <1>1
    <3>2. CASE k = m
      <4>1. w0[k] = last
        BY <1>0, <1>4a, <3>2
      <4> QED
        BY <3>1, <3>2, <4>1 DEF LastEntry, last
    <3>3. CASE k # m
      <4>1. /\ m - k \in 1..m - 1 /\ m - (m - k) = k /\ k + 1 \in 1..m /\ m - (k + 1) = (m - k) - 1
            /\ (m - k) - 1 \in 0..m - 1
        BY <1>0, <3>3
      <4>2. w0[k] = f[m - k] /\ w0[k + 1] = f[(m - k) - 1] /\ f[(m - k) - 1] \in Nat
        BY <1>4a, <4>1
      <4>3. f[m - k] = step[m - k][f[(m - k) - 1]]
        BY <1>4a, <4>1
      <4>4. step[m - k][f[(m - k) - 1]] = IF old[k] = most[k] THEN old[k]
                                          ELSE Least(f[(m - k) - 1] + length[k], most[k])
        BY <4>1, <4>2
      <4> HIDE DEF w0, step
      <4> QED
        BY <3>1, <3>3, <4>2, <4>3, <4>4
    <3> QED
      BY <3>2, <3>3
  <2> HIDE DEF step
  <2> QED
    BY <2>1
<1>6. Reverse(b, p, m) = (CHOOSE w : Fix(w))
  BY DEF Reverse
<1> HIDE DEF step, w0
<1>7. PICK w : Fix(w) /\ Reverse(b, p, m) = w
  <2> HIDE DEF Fix
  <2> QED
    BY <1>5, <1>6
<1>8. w[m] = Least(most[m], length[m])
  BY <1>0, <1>1, <1>7 DEF LastEntry
<1>9. \A k \in 1..m - 1 : WantedOf(w[k], w[k + 1], most[k], length[k], old[k])
  <2> SUFFICES ASSUME NEW k \in 1..m - 1 PROVE WantedOf(w[k], w[k + 1], most[k], length[k], old[k])
    OBVIOUS
  <2>1. k \in 1..m /\ k \in 0..m /\ k # m
    BY <1>0
  <2>2. /\ length[k] = b[Ahead(p, k)].length /\ most[k] = b[Ahead(p, k)].maxEntry
        /\ old[k] = b[Ahead(p, k)].entry
    BY <1>1, <2>1
  <2>3. w[k] = IF old[k] = most[k] THEN old[k] ELSE Least(w[k + 1] + length[k], most[k])
    BY <1>7, <2>1, <2>2
  <2> QED
    BY <2>3 DEF WantedOf
<1>10. \A k \in 1..m : w[k] \in Nat
  <2> DEFINE T == {k \in 1..m : w[k] \in Nat}
  <2> HIDE DEF Fix
  <2>1. m \in T
    BY <1>0, <1>1, <1>8 DEF Numbers, Least
  <2>2. ASSUME NEW k \in 1..m - 1, k + 1 \in T PROVE k \in T
    <3>1. k \in 0..m /\ k \in 1..m
      BY <1>0
    <3>2. w[k + 1] \in Nat /\ most[k] \in Nat /\ length[k] \in Nat /\ old[k] \in Nat
      BY <1>1, <2>2, <3>1 DEF Numbers
    <3>3. WantedOf(w[k], w[k + 1], most[k], length[k], old[k])
      BY <1>9
    <3>4. w[k] \in Nat
      BY <3>2, <3>3 DEF WantedOf, Least
    <3> QED
      BY <3>1, <3>4
  <2> HIDE DEF T
  <2>3. \A k \in 1..m : k \in T
    BY <1>0, <2>1, <2>2, Downwards
  <2> QED
    BY <2>3 DEF T
<1> HIDE DEF Fix
<1> QED
  BY <1>7, <1>8, <1>9, <1>10 DEF Wanted, length, most, old

LEMMA ForwardIs ==
    ASSUME NEW b \in Typed, NEW p \in Slots, NEW m \in Slots,
           NEW w, \A k \in 1..m : w[k] \in Nat
    PROVE  Entered(m, LengthAt(b, p, m), OldAt(b, p, m), w, Forward(b, p, m, w))
<1> DEFINE length == LengthAt(b, p, m)
           old == OldAt(b, p, m)
           Fix(e) == e = [k \in 0..m |-> IF k = 0 THEN b[p].entry
                                         ELSE Reached(e[k - 1], b[Ahead(p, k - 1)].length, w[k])]
           step == [k \in 1..m |-> [v \in Nat |-> Reached(v, length[k - 1], w[k])]]
<1>0. m \in Nat /\ 0 \in Slots
  BY RingAssumption DEF Slots
<1>1. /\ Numbers(m, length) /\ Numbers(m, old)
      /\ \A k \in 0..m : length[k] = b[Ahead(p, k)].length /\ old[k] = b[Ahead(p, k)].entry
  BY SeenTyped
<1>2. old[0] = b[p].entry /\ old[0] \in Nat
  <2>1. Ahead(p, 0) = p
    BY <1>0, AheadIs, RingAssumption DEF Slots
  <2> QED
    BY <1>0, <1>1, <2>1 DEF Numbers
<1> HIDE DEF length, old
<1>3. \A k \in 1..m : \A v \in Nat : step[k][v] \in Nat
  <2> SUFFICES ASSUME NEW k \in 1..m, NEW v \in Nat PROVE step[k][v] \in Nat
    OBVIOUS
  <2>1. k - 1 \in 0..m
    BY <1>0
  <2> QED
    BY <1>1, <2>1 DEF Numbers, Reached
<1>4. PICK f : Chain(m, old[0], step, f)
  <2> HIDE DEF step
  <2> QED
    BY <1>0, <1>2, <1>3, ChainExists
<1>4a. /\ f \in [0..m -> Nat] /\ f[0] = old[0]
       /\ \A k \in 1..m : f[k] = step[k][f[k - 1]]
  BY <1>4 DEF Chain
<1>5. Fix(f)
  <2>1. ASSUME NEW k \in 0..m, k # 0 PROVE f[k] = Reached(f[k - 1], b[Ahead(p, k - 1)].length, w[k])
    <3>1. k \in 1..m /\ k - 1 \in 0..m
      BY <1>0, <2>1
    <3>2. f[k - 1] \in Nat /\ length[k - 1] = b[Ahead(p, k - 1)].length
      BY <1>1, <1>4a, <3>1
    <3>3. f[k] = step[k][f[k - 1]]
      BY <1>4a, <3>1
    <3>4. step[k][f[k - 1]] = Reached(f[k - 1], length[k - 1], w[k])
      BY <3>1, <3>2
    <3> HIDE DEF step
    <3> QED
      BY <3>2, <3>3, <3>4
  <2> HIDE DEF step
  <2> QED
    BY <1>2, <1>4a, <2>1
<1>6. Forward(b, p, m, w) = (CHOOSE e : Fix(e))
  BY DEF Forward
<1> HIDE DEF step
<1>7. PICK e : Fix(e) /\ Forward(b, p, m, w) = e
  <2> HIDE DEF Fix
  <2> QED
    BY <1>5, <1>6
<1>8. e[0] = old[0]
  BY <1>0, <1>2, <1>7
<1>9. ASSUME NEW k \in 1..m PROVE e[k] = Reached(e[k - 1], length[k - 1], w[k])
  <2>1. k \in 0..m /\ k # 0 /\ k - 1 \in 0..m
    BY <1>0
  <2> QED
    BY <1>1, <1>7, <2>1
<1>10. Numbers(m, e)
  <2> DEFINE T == {k \in 0..m : e[k] \in Nat}
  <2> HIDE DEF Fix
  <2>1. 0 \in T
    BY <1>0, <1>2, <1>8
  <2>2. ASSUME NEW k \in 1..m, k - 1 \in T PROVE k \in T
    <3>1. k \in 0..m /\ k - 1 \in 0..m
      BY <1>0
    <3>2. e[k - 1] \in Nat /\ length[k - 1] \in Nat /\ w[k] \in Nat
      BY <1>1, <2>2, <3>1 DEF Numbers
    <3>3. e[k] = Reached(e[k - 1], length[k - 1], w[k])
      BY <1>9
    <3>4. e[k] \in Nat
      BY <3>2, <3>3 DEF Reached
    <3> QED
      BY <3>1, <3>4
  <2> HIDE DEF T
  <2>3. \A k \in 0..m : k \in T
    BY <1>0, <2>1, <2>2, Upwards
  <2> QED
    BY <2>3 DEF T, Numbers
<1> HIDE DEF Fix
<1> QED
  BY <1>7, <1>8, <1>9, <1>10 DEF Entered, length, old

\* The outcome of the passes over the blocks b from slot p on, m of them
\* after it: the speeds wanted and entered, and the place planned up to.
Passed(b, p, m, new, w, e, q) ==
    /\ Wanted(m, LengthAt(b, p, m), MostAt(b, p, m), OldAt(b, p, m), w)
    /\ Entered(m, LengthAt(b, p, m), OldAt(b, p, m), w, e)
    /\ q \in 0..m /\ new.planned = Ahead(p, q)
    /\ q # 0 => e[q] < w[q] \/ e[q] = MostAt(b, p, m)[q]
    /\ \A k \in 1..m : e[k] < w[k] \/ e[k] = MostAt(b, p, m)[k] => k <= q
    /\ new.blocks = [i \in Slots |->
                      IF Distance(p, i) \in 1..m
                      THEN [b[i] EXCEPT !.entry = e[Distance(p, i)]] ELSE b[i]]

LEMMA TailUpdated ==
    ASSUME NEW b \in Typed, tail \in Slots, speed \in Nat, loaded \in BOOLEAN
    PROVE  /\ UpdateTail(b) \in Typed
           /\ UpdateTail(UpdateTail(b)) = UpdateTail(b)
           /\ \A i \in Slots :
                /\ UpdateTail(b)[i].length = b[i].length
                /\ UpdateTail(b)[i].maxEntry = b[i].maxEntry
                /\ UpdateTail(b)[i].junction = b[i].junction
                /\ UpdateTail(b)[i].rate = b[i].rate
                /\ UpdateTail(b)[i].entry = IF loaded /\ i = tail THEN speed ELSE b[i].entry
BY DEF Typed, UpdateTail

LEMMA RecalculatedIs ==
    ASSUME NEW b \in Typed, NEW h \in Slots, NEW p \in Slots, NEW m, m = Distance(p, PrevBlock(h)), m # 0,
           tail \in Slots, speed \in Nat, loaded \in BOOLEAN,
           NEW c, c = IF p = tail THEN UpdateTail(b) ELSE b
    PROVE  /\ m \in Slots /\ m \in Nat \ {0} /\ c \in Typed
           /\ Recalculated(b, h, p).told = (p = tail)
           /\ \E w, e, q : Passed(c, p, m, Recalculated(b, h, p), w, e, q)
<1>1. m \in Slots /\ m \in Nat \ {0} /\ m > 0
  BY Neighbours, Distances, RingAssumption DEF Slots
<1>2. c \in Typed
  BY TailUpdated
<1> DEFINE w == Reverse(c, p, m)
           e == Forward(c, p, m, w)
           q == PlannedUpTo(c, p, m, w, e)
           most == MostAt(c, p, m)
<1>3. TellsStepper(m, p) <=> p = tail
  BY <1>1 DEF TellsStepper
<1>4. Recalculated(b, h, p) =
        [blocks  |-> [i \in Slots |-> IF Distance(p, i) \in 1 .. m
                                      THEN [c[i] EXCEPT !.entry = e[Distance(p, i)]]
                                      ELSE c[i]],
         planned |-> Ahead(p, q), told |-> TellsStepper(m, p)]
  BY <1>3 DEF Recalculated
<1>5. /\ Wanted(m, LengthAt(c, p, m), MostAt(c, p, m), OldAt(c, p, m), w)
      /\ Entered(m, LengthAt(c, p, m), OldAt(c, p, m), w, e)
  <2>1. Wanted(m, LengthAt(c, p, m), MostAt(c, p, m), OldAt(c, p, m), w)
    BY <1>1, <1>2, ReverseIs
  <2>2. \A k \in 1..m : w[k] \in Nat
    BY <2>1 DEF Wanted
  <2> HIDE DEF w
  <2> QED
    BY <1>1, <1>2, <2>1, <2>2, ForwardIs
<1>6. \A k \in 1..m : c[Ahead(p, k)].maxEntry = most[k]
  <2>1. \A k \in 1..m : k \in 0..m
    BY <1>1
  <2> QED
    BY <2>1 DEF MostAt
<1> HIDE DEF w, e
<1>7. q \in 0..m /\ (q # 0 => e[q] < w[q] \/ e[q] = most[q])
      /\ \A k \in 1..m : e[k] < w[k] \/ e[k] = most[k] => k <= q
  <2> DEFINE S == {0} \cup {k \in 1 .. m : e[k] < w[k] \/ e[k] = c[Ahead(p, k)].maxEntry}
  <2>1. S \in SUBSET (0..m) /\ S # {}
    BY <1>1
  <2>2. q = Max(S)
    BY DEF PlannedUpTo
  <2>3. q \in S /\ \A x \in S : x <= q
    <3> HIDE DEF S, q
    <3> QED
      BY <1>1, <2>1, <2>2, MaxIn
  <2> HIDE DEF q, most
  <2> QED
    BY <1>1, <1>6, <2>1, <2>3
<1> HIDE DEF q, most
<1>8. Passed(c, p, m, Recalculated(b, h, p), w, e, q)
  <2>1. /\ Recalculated(b, h, p).planned = Ahead(p, q)
        /\ Recalculated(b, h, p).blocks =
             [i \in Slots |-> IF Distance(p, i) \in 1 .. m
                              THEN [c[i] EXCEPT !.entry = e[Distance(p, i)]]
                              ELSE c[i]]
    BY <1>4
  <2> QED
    BY <1>5, <1>7, <2>1 DEF Passed, most
<1>9. Recalculated(b, h, p).told = (p = tail)
  BY <1>3, <1>4 DEF TellsStepper
<1>10. \E v, d, r : Passed(c, p, m, Recalculated(b, h, p), v, d, r)
  BY <1>8
<1> QED
  BY <1>1, <1>2, <1>9, <1>10

\* The passes change nothing but entry speeds.
LEMMA RecalculatedKeeps ==
    ASSUME NEW b \in Typed, NEW h \in Slots, NEW p \in Slots,
           tail \in Slots, speed \in Nat, loaded \in BOOLEAN,
           NEW new, new = Recalculated(b, h, p)
    PROVE  /\ new.blocks \in Typed /\ new.planned \in Slots /\ new.told \in BOOLEAN
           /\ \A i \in Slots : /\ new.blocks[i].length = b[i].length
                               /\ new.blocks[i].maxEntry = b[i].maxEntry
                               /\ new.blocks[i].junction = b[i].junction
                               /\ new.blocks[i].rate = b[i].rate
<1> DEFINE m == Distance(p, PrevBlock(h))
           c == IF p = tail THEN UpdateTail(b) ELSE b
<1>1. CASE m = 0
  <2>1. new = [blocks |-> b, planned |-> p, told |-> FALSE]
    BY <1>1 DEF Recalculated
  <2> QED
    BY <2>1
<1>2. CASE m # 0
  <2> HIDE DEF m, c
  <2>1. m = Distance(p, PrevBlock(h)) /\ c = IF p = tail THEN UpdateTail(b) ELSE b
    BY DEF m, c
  <2>2. /\ m \in Slots /\ m \in Nat \ {0} /\ c \in Typed /\ new.told = (p = tail)
        /\ \E w, e, q : Passed(c, p, m, new, w, e, q)
    BY <1>2, <2>1, RecalculatedIs
  <2>3. PICK w, e, q : Passed(c, p, m, new, w, e, q)
    BY <2>2
  <2>4. \A i \in Slots : /\ c[i].length = b[i].length
                         /\ c[i].maxEntry = b[i].maxEntry
                         /\ c[i].junction = b[i].junction
                         /\ c[i].rate = b[i].rate
    BY <2>1, TailUpdated
  <2>5. \A k \in 1..m : e[k] \in Nat
    BY <2>2, <2>3 DEF Passed, Entered, Numbers
  <2>6. new.blocks = [i \in Slots |-> IF Distance(p, i) \in 1..m
                         THEN [c[i] EXCEPT !.entry = e[Distance(p, i)]] ELSE c[i]]
    BY <2>3 DEF Passed
  <2>7. new.planned \in Slots
    <3>1. q \in Slots
      BY <2>2, <2>3, RingAssumption DEF Passed, Slots
    <3> QED
      BY <2>3, <3>1, Places DEF Passed
  <2>8. \A i \in Slots : \A x \in Nat :
          /\ [c[i] EXCEPT !.entry = x] \in [entry : Nat, maxEntry : Nat, junction : Nat,
                                            length : Nat, rate : FeedRates \cup {Rapid}]
          /\ [c[i] EXCEPT !.entry = x].length = c[i].length
          /\ [c[i] EXCEPT !.entry = x].maxEntry = c[i].maxEntry
          /\ [c[i] EXCEPT !.entry = x].junction = c[i].junction
          /\ [c[i] EXCEPT !.entry = x].rate = c[i].rate
    BY <2>2 DEF Typed
  <2>9. new.blocks \in Typed
    BY <2>2, <2>5, <2>6, <2>8 DEF Typed
  <2> QED
    BY <2>2, <2>4, <2>5, <2>6, <2>7, <2>8, <2>9
<1> QED
  BY <1>1, <1>2

-----------------------------------------------------------------------------
(* The contents of a ring from slot t to before slot h.                    *)

In(t, h) == {i \in Slots : Distance(t, i) < Distance(t, h)}

LEMMA InIs ==
    ASSUME NEW t \in Slots, NEW h \in Slots
    PROVE  /\ In(t, h) \subseteq Slots /\ h \notin In(t, h) /\ (t \in In(t, h) <=> t # h)
           /\ (t = h => In(t, h) = {})
           /\ \A i \in In(t, h) : /\ NextBlock(i) = h \/ NextBlock(i) \in In(t, h)
                                  /\ NextBlock(i) # t \/ h = t
                                  /\ i # t => PrevBlock(i) \in In(t, h)
<1>1. Distance(t, t) = 0 /\ Distance(t, h) \in Slots /\ (Distance(t, h) = 0 <=> h = t)
  BY Distances
<1>2. ASSUME NEW i \in In(t, h)
      PROVE  /\ NextBlock(i) = h \/ NextBlock(i) \in In(t, h)
             /\ NextBlock(i) # t
             /\ i # t => PrevBlock(i) \in In(t, h)
  <2>1. i \in Slots /\ NextBlock(i) \in Slots /\ PrevBlock(i) \in Slots
    BY Neighbours DEF In
  <2>2. /\ Distance(t, i) \in Slots /\ (Distance(t, i) = 0 <=> i = t)
        /\ Distance(t, NextBlock(i)) = (IF Distance(t, i) = Ring - 1 THEN 0 ELSE Distance(t, i) + 1)
        /\ Distance(t, PrevBlock(i)) = (IF Distance(t, i) = 0 THEN Ring - 1 ELSE Distance(t, i) - 1)
        /\ (Distance(t, NextBlock(i)) = 0 <=> NextBlock(i) = t)
    BY <2>1, Distances
  <2>3. Distance(t, i) < Distance(t, h)
    BY DEF In
  <2>4. Distance(t, i) + 1 <= Distance(t, h) /\ Distance(t, i) # Ring - 1
    BY <1>1, <2>2, <2>3, RingAssumption DEF Slots
  <2>5. NextBlock(i) # t
    BY <2>2, <2>4, RingAssumption DEF Slots
  <2>6. i # t => PrevBlock(i) \in In(t, h)
    BY <1>1, <2>1, <2>2, <2>3 DEF In, Slots
  <2>7. Distance(t, NextBlock(i)) = Distance(t, h) => NextBlock(i) = h
    BY <2>1, Distances
  <2>8. Distance(t, NextBlock(i)) # Distance(t, h) => NextBlock(i) \in In(t, h)
    BY <1>1, <2>1, <2>2, <2>4 DEF In, Slots
  <2> QED
    BY <2>5, <2>6, <2>7, <2>8
<1>3. h \notin In(t, h) /\ (t \in In(t, h) <=> t # h) /\ (t = h => In(t, h) = {})
  <2>1. \A i \in Slots : Distance(t, i) \in Slots
    BY Distances
  <2> QED
    BY <1>1, <2>1 DEF In, Slots
<1> QED
  BY <1>2, <1>3 DEF In

LEMMA InGrows ==
    ASSUME NEW t \in Slots, NEW h \in Slots, NextBlock(h) # t
    PROVE  In(t, NextBlock(h)) = In(t, h) \cup {h}
<1>1. /\ NextBlock(h) \in Slots /\ Distance(t, h) \in Slots
      /\ Distance(t, NextBlock(h)) = (IF Distance(t, h) = Ring - 1 THEN 0 ELSE Distance(t, h) + 1)
      /\ (Distance(t, NextBlock(h)) = 0 <=> NextBlock(h) = t)
  BY Neighbours, Distances
<1>2. \A i \in Slots : Distance(t, i) \in Slots /\ (Distance(t, i) = Distance(t, h) => i = h)
  BY Distances
<1>3. Distance(t, NextBlock(h)) = Distance(t, h) + 1
  BY <1>1
<1> QED
  BY <1>1, <1>2, <1>3 DEF In, Slots

LEMMA InShrinks ==
    ASSUME NEW t \in Slots, NEW h \in Slots, h # t
    PROVE  In(NextBlock(t), h) = In(t, h) \ {t}
<1>1. \A i \in Slots : /\ Distance(t, i) \in Slots /\ (Distance(t, i) = 0 <=> i = t)
                       /\ Distance(NextBlock(t), i) = IF Distance(t, i) = 0 THEN Ring - 1
                                                      ELSE Distance(t, i) - 1
  BY Distances
<1> QED
  BY <1>1, RingAssumption DEF In, Slots

\* The blocks the passes see.
LEMMA Seen ==
    ASSUME NEW t \in Slots, NEW h \in Slots, NEW p \in In(t, h), NEW m, m = Distance(p, PrevBlock(h))
    PROVE  /\ m \in Slots /\ p \in Slots /\ Ahead(p, 0) = p
           /\ \A k \in 0..m : /\ k \in Slots /\ Ahead(p, k) \in In(t, h)
                              /\ Distance(p, Ahead(p, k)) = k
                              /\ k # 0 => Ahead(p, k) # t
                              /\ k # m => NextBlock(Ahead(p, k)) = Ahead(p, k + 1)
           /\ NextBlock(Ahead(p, m)) = h
           /\ \A i \in In(t, h) : Distance(p, i) \in 1..m <=> Distance(t, i) > Distance(t, p)
           /\ Distance(t, h) = Distance(t, p) + m + 1
<1>1. p \in Slots /\ PrevBlock(h) \in Slots /\ NextBlock(PrevBlock(h)) = h
  BY Neighbours DEF In
<1>2. /\ m \in Slots /\ Ahead(p, m) = PrevBlock(h) /\ Distance(p, p) = 0 /\ Ahead(p, Distance(p, p)) = p
      /\ Distance(t, p) \in Slots /\ Distance(t, h) \in Slots
      /\ (Distance(t, h) = 0 <=> h = t)
  BY <1>1, Distances
<1>3. Distance(t, p) < Distance(t, h)
  BY DEF In
<1>4. Distance(t, PrevBlock(h)) = Distance(t, h) - 1
  <2>1. Distance(t, PrevBlock(h)) = IF Distance(t, h) = 0 THEN Ring - 1 ELSE Distance(t, h) - 1
    BY Distances
  <2> QED
    BY <1>2, <1>3, <2>1 DEF Slots
<1>5. Distance(t, p) + m = Distance(t, h) - 1
  <2>1. Distance(t, PrevBlock(h)) = IF Distance(t, p) + m < Ring THEN Distance(t, p) + m
                                    ELSE Distance(t, p) + m - Ring
    BY <1>1, DistancesAdd
  <2> QED
    BY <1>2, <1>3, <1>4, <2>1, RingAssumption DEF Slots
<1>6. ASSUME NEW k \in 0..m
      PROVE  /\ k \in Slots /\ Ahead(p, k) \in In(t, h)
             /\ Distance(p, Ahead(p, k)) = k
             /\ k # 0 => Ahead(p, k) # t
             /\ k # m => NextBlock(Ahead(p, k)) = Ahead(p, k + 1)
  <2>1. k \in Slots /\ (k # m => k + 1 \in Slots)
    BY <1>2, RingAssumption DEF Slots
  <2>2. Ahead(p, k) \in Slots /\ Distance(p, Ahead(p, k)) = k
        /\ (k # m => NextBlock(Ahead(p, k)) = Ahead(p, k + 1))
    BY <1>1, <2>1, Places
  <2>3. Distance(t, Ahead(p, k)) = IF Distance(t, p) + k < Ring THEN Distance(t, p) + k
                                   ELSE Distance(t, p) + k - Ring
    BY <1>1, <2>2, DistancesAdd
  <2>4. Distance(t, Ahead(p, k)) = Distance(t, p) + k
    BY <1>2, <1>5, <2>3, RingAssumption DEF Slots
  <2>5. Ahead(p, k) \in In(t, h)
    BY <1>2, <1>5, <2>2, <2>4, RingAssumption DEF In, Slots
  <2>6. k # 0 => Distance(t, Ahead(p, k)) # 0
    BY <1>2, <2>4 DEF Slots
  <2>7. Distance(t, t) = 0
    BY Distances
  <2> QED
    BY <2>1, <2>2, <2>5, <2>6, <2>7
<1>7. ASSUME NEW i \in In(t, h)
      PROVE  Distance(p, i) \in 1..m <=> Distance(t, i) > Distance(t, p)
  <2>1. i \in Slots /\ Distance(t, i) < Distance(t, h)
    BY DEF In
  <2>2. Distance(t, i) = IF Distance(t, p) + Distance(p, i) < Ring THEN Distance(t, p) + Distance(p, i)
                         ELSE Distance(t, p) + Distance(p, i) - Ring
    BY <1>1, <2>1, DistancesAdd
  <2>3. Distance(p, i) \in Slots /\ Distance(t, i) \in Slots
    BY <1>1, <2>1, Distances
  <2> QED
    BY <1>2, <1>5, <2>1, <2>2, <2>3, RingAssumption DEF Slots
<1>8. Distance(t, h) = Distance(t, p) + m + 1
  BY <1>2, <1>5 DEF Slots
<1> QED
  BY <1>1, <1>2, <1>6, <1>7, <1>8

-----------------------------------------------------------------------------
(* Stopping on the path that is left: its length from every slot on is a   *)
(* number for each (rest), and no block is entered faster than that; the   *)
(* entry of a tail that has been entered counts no longer.                 *)

Way(b, t, h, rest) ==
    /\ rest \in [Slots -> Nat] /\ rest[h] = 0
    /\ \A i \in In(t, h) : rest[i] = b[i].length + rest[NextBlock(i)]
Stops(b, waits, t, h, rest) ==
    \A i \in In(t, h) : i # t \/ waits => b[i].entry <= rest[i]

LEMMA RecalculatedStops ==
    ASSUME NEW b \in Typed, NEW h \in Slots, NEW p \in In(tail, h),
           tail \in Slots, speed \in Nat, loaded \in BOOLEAN,
           NEW rest, Way(b, tail, h, rest), Stops(b, ~loaded, tail, h, rest), speed <= rest[tail],
           NEW new, new = Recalculated(b, h, p)
    PROVE  /\ new.planned \in In(tail, h)
           /\ Way(new.blocks, tail, h, rest)
           /\ Stops(new.blocks, ~loaded \/ new.told, tail, h, rest)
<1> DEFINE m == Distance(p, PrevBlock(h))
           c == IF p = tail THEN UpdateTail(b) ELSE b
<1>0. p \in Slots /\ In(tail, h) \subseteq Slots
  BY DEF In
<1>1. Way(new.blocks, tail, h, rest)
  BY <1>0, RecalculatedKeeps DEF Way
<1>2. CASE m = 0
  <2>1. new = [blocks |-> b, planned |-> p, told |-> FALSE]
    BY <1>2 DEF Recalculated
  <2> QED
    BY <1>1, <2>1
<1>3. CASE m # 0
  <2> HIDE DEF m, c
  <2>1. m = Distance(p, PrevBlock(h)) /\ c = IF p = tail THEN UpdateTail(b) ELSE b
    BY DEF m, c
  <2>2. /\ m \in Slots /\ m \in Nat \ {0} /\ c \in Typed /\ new.told = (p = tail)
        /\ \E w, e, q : Passed(c, p, m, new, w, e, q)
    BY <1>0, <1>3, <2>1, RecalculatedIs
  <2>3. PICK w, e, q : Passed(c, p, m, new, w, e, q)
    BY <2>2
  <2>4. /\ \A k \in 0..m : /\ k \in Slots /\ Ahead(p, k) \in In(tail, h) /\ Distance(p, Ahead(p, k)) = k
                           /\ k # 0 => Ahead(p, k) # tail
                           /\ k # m => NextBlock(Ahead(p, k)) = Ahead(p, k + 1)
        /\ NextBlock(Ahead(p, m)) = h
    BY <2>1, Seen
  <2>5. /\ \A i \in Slots : c[i].length = b[i].length
        /\ Stops(c, ~loaded \/ new.told, tail, h, rest)
    BY <1>0, <2>1, <2>2, TailUpdated DEF Stops
  <2> DEFINE way == [k \in 0..m |-> rest[Ahead(p, k)]]
             length == LengthAt(c, p, m)
             most == MostAt(c, p, m)
             old == OldAt(c, p, m)
  <2>6. /\ Numbers(m, length) /\ Numbers(m, most) /\ Numbers(m, old)
        /\ \A k \in 0..m : length[k] = c[Ahead(p, k)].length /\ old[k] = c[Ahead(p, k)].entry
    BY <1>0, <2>2, SeenTyped
  <2>7. Numbers(m, way) /\ \A k \in 0..m : way[k] = rest[Ahead(p, k)]
    BY <1>0, <2>4 DEF Way, Numbers
  <2> HIDE DEF way, length, most, old
  <2>8. length[m] <= way[m]
    <3>1. m \in 0..m
      BY <2>2
    <3>2. way[m] = length[m] + 0
      BY <1>0, <2>4, <2>5, <2>6, <2>7, <3>1 DEF Way
    <3> QED
      BY <2>6, <3>1, <3>2 DEF Numbers
  <2>9. ASSUME NEW k \in 1..m - 1 PROVE old[k] <= way[k] /\ way[k] = length[k] + way[k + 1]
    <3>1. k \in 0..m /\ k + 1 \in 0..m /\ k # 0 /\ k # m
      BY <2>2
    <3>2. Ahead(p, k) \in In(tail, h) /\ Ahead(p, k) # tail /\ NextBlock(Ahead(p, k)) = Ahead(p, k + 1)
      BY <2>4, <3>1
    <3>3. way[k] = rest[Ahead(p, k)] /\ way[k + 1] = rest[Ahead(p, k + 1)]
          /\ length[k] = c[Ahead(p, k)].length /\ old[k] = c[Ahead(p, k)].entry
      BY <2>6, <2>7, <3>1
    <3>4. c[Ahead(p, k)].length = b[Ahead(p, k)].length
      BY <1>0, <2>5, <3>2
    <3> QED
      BY <2>5, <3>2, <3>3, <3>4 DEF Way, Stops
  <2>10. \A k \in 1..m : w[k] <= way[k]
    <3>1. Wanted(m, length, most, old, w)
      BY <2>3 DEF Passed, length, most, old
    <3> QED
      BY <2>2, <2>6, <2>7, <2>8, <2>9, <3>1, WantedWithin
  <2>11. ASSUME NEW k \in 1..m PROVE e[k] <= way[k]
    <3>1. \A j \in 1..m : w[j] \in Nat
      BY <2>3 DEF Passed, Wanted
    <3>2. Entered(m, length, old, w, e)
      BY <2>3 DEF Passed, length, old
    <3>3. e[k] \in Nat /\ Lowered(e[k], w[k], e[k - 1], length[k - 1])
      BY <2>2, <2>6, <3>1, <3>2, EnteredIs
    <3>4. e[k] <= w[k] /\ w[k] <= way[k] /\ way[k] \in Nat /\ w[k] \in Nat
      <4>1. k \in 0..m
        BY <2>2
      <4> QED
        BY <2>7, <2>10, <3>1, <3>3, <4>1 DEF Lowered, Numbers
    <3> QED
      BY <3>3, <3>4
  <2>12. new.planned \in In(tail, h)
    BY <2>3, <2>4 DEF Passed
  <2>13. Stops(new.blocks, ~loaded \/ new.told, tail, h, rest)
    <3> SUFFICES ASSUME NEW i \in In(tail, h), i # tail \/ ~loaded \/ new.told
                 PROVE  new.blocks[i].entry <= rest[i]
      BY DEF Stops
    <3>1. CASE Distance(p, i) \in 1..m
      <4>1. Ahead(p, Distance(p, i)) = i /\ Distance(p, i) \in 0..m
        BY <1>0, <2>2, <3>1, Distances
      <4>2. new.blocks[i].entry = e[Distance(p, i)]
        BY <1>0, <2>2, <2>3, <3>1 DEF Passed, Typed
      <4> QED
        BY <2>7, <2>11, <3>1, <4>1, <4>2
    <3>2. CASE Distance(p, i) \notin 1..m
      <4>1. new.blocks[i] = c[i]
        BY <1>0, <2>3, <3>2 DEF Passed
      <4> QED
        BY <2>5, <4>1 DEF Stops
    <3> QED
      BY <3>1, <3>2
  <2> QED
    BY <1>1, <2>12, <2>13
<1> QED
  BY <1>2, <1>3

\* The first block of an empty ring, wherever the planned pointer is.
LEMMA RecalculatedFirst ==
    ASSUME NEW b \in Typed, head \in Slots, tail = head, NEW p \in Slots,
           speed \in Nat, loaded \in BOOLEAN, b[head].maxEntry = 0, b[head].entry = 0,
           NEW new, new = Recalculated(b, NextBlock(head), p)
    PROVE  new.planned = head /\ new.told = FALSE /\ new.blocks[head].entry = 0
<1> DEFINE h == NextBlock(head)
           m == Distance(p, PrevBlock(h))
           c == IF p = tail THEN UpdateTail(b) ELSE b
<1>0. h \in Slots /\ PrevBlock(h) = head
  BY Neighbours
<1>1. CASE m = 0
  <2>1. new = [blocks |-> b, planned |-> p, told |-> FALSE]
    BY <1>1 DEF Recalculated
  <2>2. p = head
    BY <1>0, <1>1, Distances
  <2> QED
    BY <2>1, <2>2
<1>2. CASE m # 0
  <2>0. m = Distance(p, head)
    BY <1>0
  <2> HIDE DEF m, c, h
  <2>1. m = Distance(p, PrevBlock(h)) /\ c = IF p = tail THEN UpdateTail(b) ELSE b
    BY DEF m, c
  <2>2. /\ m \in Slots /\ m \in Nat \ {0} /\ c \in Typed /\ new.told = (p = tail)
        /\ \E w, e, q : Passed(c, p, m, new, w, e, q)
    <3>1. new = Recalculated(b, h, p)
      BY DEF h
    <3> QED
      BY <1>0, <1>2, <2>1, <3>1, RecalculatedIs
  <2>3. PICK w, e, q : Passed(c, p, m, new, w, e, q)
    BY <2>2
  <2>4. p # head /\ Ahead(p, m) = head /\ m \in 1..m
    BY <1>2, <2>0, <2>2, Distances
  <2>5. c = b
    BY <2>1, <2>4
  <2>6. MostAt(c, p, m)[m] = 0 /\ w[m] = 0 /\ e[m] = 0
    <3>1. /\ Numbers(m, LengthAt(c, p, m)) /\ Numbers(m, MostAt(c, p, m)) /\ Numbers(m, OldAt(c, p, m))
          /\ MostAt(c, p, m)[m] = c[Ahead(p, m)].maxEntry
      BY <2>2, <2>4, SeenTyped
    <3>2. w[m] = Least(MostAt(c, p, m)[m], LengthAt(c, p, m)[m]) /\ \A k \in 1..m : w[k] \in Nat
      BY <2>3 DEF Passed, Wanted
    <3>3. MostAt(c, p, m)[m] = 0
      BY <2>4, <2>5, <3>1
    <3>4. LengthAt(c, p, m)[m] \in Nat
      BY <2>2, <3>1 DEF Numbers
    <3>5. w[m] = 0
      BY <3>2, <3>3, <3>4 DEF Least
    <3>6. Entered(m, LengthAt(c, p, m), OldAt(c, p, m), w, e)
      BY <2>3 DEF Passed
    <3>7. e[m] \in Nat /\ Lowered(e[m], w[m], e[m - 1], LengthAt(c, p, m)[m - 1])
      BY <2>2, <2>4, <3>1, <3>2, <3>6, EnteredIs
    <3> QED
      BY <3>3, <3>5, <3>7 DEF Lowered
  <2>7. q = m
    BY <2>2, <2>3, <2>4, <2>6 DEF Passed
  <2>8. new.planned = head
    BY <2>3, <2>4, <2>7 DEF Passed
  <2>9. Distance(p, head) \in 1..m /\ Distance(p, head) = m
    BY <2>0, <2>4
  <2>10. new.blocks[head].entry = 0
    BY <2>2, <2>3, <2>6, <2>9 DEF Passed, Typed
  <2> QED
    BY <2>2, <2>4, <2>8, <2>10
<1> QED
  BY <1>1, <1>2

-----------------------------------------------------------------------------
(* The blocks of the ring have a length, the planned pointer is at one of  *)
(* them, a profile is computed only for a block, and none in a hold that   *)
(* is complete.                                                            *)
Contents == In(tail, head)
Occupied ==
    /\ \A i \in Contents : blocks[i].length > 0
    /\ head # tail => planned \in Contents
    /\ loaded \/ partial => head # tail
    /\ control = "held" => ~loaded

Stopping(rest) ==
    /\ Way(blocks, tail, head, rest)
    /\ Stops(blocks, ~loaded, tail, head, rest)
    /\ speed <= rest[tail]
    /\ exit <= rest[IF loaded THEN NextBlock(tail) ELSE tail]
Stoppable == \E rest : Stopping(rest)

Inv == TypeOK /\ Occupied /\ Stoppable /\ ExitAgrees

\* The steps, without the conjuncts proved of them.
Types == /\ blocks \in Typed /\ tail \in Slots /\ head \in Slots /\ planned \in Slots
         /\ prevNominal \in Nat /\ fOverride \in FeedOverrides /\ rOverride \in RapidOverrides
         /\ loaded \in BOOLEAN /\ partial \in BOOLEAN /\ decelOvr \in BOOLEAN
         /\ speed \in Nat /\ exit \in Nat /\ control \in {"run", "hold", "end", "held"}

LEMMA TypesAre == (TypeOK <=> Types) /\ (TypeOK' <=> Types')
BY DEF TypeOK, Types, Typed

LEMMA ZeroIsSlot == 0 \in Slots
BY RingAssumption DEF Slots

LEMMA NominalTyped ==
    ASSUME NEW rate \in FeedRates \cup {Rapid}, NEW b, b.rate = rate,
           NEW f \in FeedOverrides, NEW r \in RapidOverrides
    PROVE  Nominal(b, f, r) \in Nat
<1>1. /\ RapidRate \in Nat /\ r \in Nat /\ Full \in Nat \ {0} /\ rate \in Nat /\ f \in Nat
  BY MotionAssumption, OverrideAssumption DEF Rapid
<1>2. RapidRate * r \in Nat /\ rate * f \in Nat
  BY <1>1, Products
<1>3. (RapidRate * r) \div Full \in Nat /\ (rate * f) \div Full \in Nat
  BY <1>1, <1>2, Quotients
<1> QED
  BY <1>1, <1>3 DEF Nominal, Most, Least, MinRate

LEMMA MaxEntryTyped ==
    ASSUME NEW b, b.junction \in Nat, NEW n \in Nat, NEW prev \in Nat
    PROVE  MaxEntry(b, n, prev) \in Nat
<1>1. n * n \in Nat /\ prev * prev \in Nat
  BY Products
<1> QED
  BY <1>1 DEF MaxEntry, Least

LEMMA InitInv == Init => Inv
<1> SUFFICES ASSUME Init PROVE Inv
  OBVIOUS
<1>1. Types
  BY ZeroIsSlot, OverrideAssumption DEF Init, Types, Typed, NoBlock
<1>2. Contents = {}
  BY ZeroIsSlot, InIs DEF Init, Contents
<1>3. Occupied
  BY <1>2 DEF Init, Occupied
<1>4. Stopping([i \in Slots |-> 0])
  BY <1>2, ZeroIsSlot DEF Init, Stopping, Way, Stops, Contents
<1>5. ExitAgrees
  BY DEF Init, ExitAgrees
<1> QED
  BY <1>1, <1>3, <1>4, <1>5, TypesAre DEF Inv, Stoppable

\* ResetPlan: main's reset, and the jog cancel's.
LEMMA ResetInv ==
    ASSUME ResetPlan, fOverride' \in FeedOverrides, rOverride' \in RapidOverrides
    PROVE  Inv'
<1>1. Types'
  BY ZeroIsSlot DEF ResetPlan, Types, Typed, NoBlock
<1>2. Contents' = {}
  BY ZeroIsSlot, InIs DEF ResetPlan, Contents
<1>3. Occupied'
  BY <1>2 DEF ResetPlan, Occupied
<1>4. Stopping([i \in Slots |-> 0])'
  BY <1>2, ZeroIsSlot DEF ResetPlan, Stopping, Way, Stops, Contents
<1>5. ExitAgrees'
  BY DEF ResetPlan, ExitAgrees
<1> QED
  BY <1>1, <1>3, <1>4, <1>5, TypesAre DEF Inv, Stoppable

\* Speed at the end of the profile is below the way left from the tail too.
LEMMA DroppedStops ==
    ASSUME Inv, NEW rest, Stopping(rest)
    PROVE  exit <= rest[tail]
<1>0. Types
  BY TypesAre DEF Inv
<1>1. CASE ~loaded
  BY <1>1 DEF Stopping
<1>2. CASE loaded
  <2>1. /\ exit <= rest[NextBlock(tail)] /\ tail \in In(tail, head)
        /\ rest[tail] = blocks[tail].length + rest[NextBlock(tail)]
    BY <1>0, <1>2, InIs DEF Stopping, Inv, Occupied, Way, Types
  <2>2. blocks[tail].length \in Nat /\ rest[NextBlock(tail)] \in Nat /\ rest[tail] \in Nat
    BY <1>0, Neighbours DEF Types, Typed, Stopping, Way
  <2> QED
    BY <1>0, <2>1, <2>2 DEF Types
<1> QED
  BY <1>0, <1>1, <1>2 DEF Types

\* plan_cycle_reinitialize.
LEMMA ReplanAllInv ==
    ASSUME Inv, NEW b \in Typed, ReplanAll(b), UNCHANGED <<tail, head>>,
           \A i \in Slots : b[i].length = blocks[i].length /\ b[i].entry = blocks[i].entry,
           prevNominal' \in Nat, fOverride' \in FeedOverrides, rOverride' \in RapidOverrides,
           control' \in {"run", "hold", "end", "held"}
    PROVE  Inv'
<1>0. Types
  BY TypesAre DEF Inv
<1>1. PICK rest : Stopping(rest)
  BY DEF Inv, Stoppable
<1> DEFINE c == UpdateTail(b)
           new == Recalculated(c, head, tail)
<1>2. /\ c \in Typed
      /\ \A i \in Slots : /\ c[i].length = blocks[i].length
                          /\ c[i].entry = IF loaded /\ i = tail THEN speed ELSE blocks[i].entry
  BY <1>0, TailUpdated DEF Types
<1> HIDE DEF c
<1>3. /\ loaded' = FALSE /\ partial' = (partial \/ loaded) /\ decelOvr' = decelOvr
      /\ speed' = speed /\ exit' = exit /\ tail' = tail /\ head' = head
  BY DEF ReplanAll, ProfileDropped
<1>4. In(tail, head) \subseteq Slots /\ (tail # head => tail \in In(tail, head))
  BY <1>0, InIs DEF Types
<1>5. Way(b, tail, head, rest) /\ Way(c, tail, head, rest) /\ Stops(c, TRUE, tail, head, rest)
  BY <1>1, <1>2, <1>4 DEF Stopping, Way, Stops
<1>6. exit <= rest[tail]
  BY <1>1, DroppedStops
<1>7. /\ blocks' \in Typed /\ planned' \in Slots
      /\ \A i \in Slots : blocks'[i].length = blocks[i].length
      /\ head # tail => planned' \in In(tail, head)
      /\ Way(blocks', tail, head, rest) /\ Stops(blocks', TRUE, tail, head, rest)
  <2>1. CASE head = tail
    <3>1. blocks' = b /\ planned' \in Slots /\ In(tail, head) = {}
      BY <1>0, <2>1, InIs DEF ReplanAll, Types
    <3> QED
      BY <1>5, <2>1, <3>1 DEF Stops
  <2>2. CASE head # tail
    <3>1. blocks' = new.blocks /\ planned' = new.planned
      BY <2>2 DEF ReplanAll, c
    <3>2. /\ new.blocks \in Typed /\ new.planned \in Slots
          /\ \A i \in Slots : new.blocks[i].length = c[i].length
      BY <1>0, <1>2, RecalculatedKeeps DEF Types
    <3>3. Stops(c, ~loaded, tail, head, rest)
      BY <1>5 DEF Stops
    <3>4. /\ new.planned \in In(tail, head)
          /\ Way(new.blocks, tail, head, rest)
          /\ Stops(new.blocks, ~loaded \/ new.told, tail, head, rest)
      BY <1>0, <1>1, <1>2, <1>4, <1>5, <2>2, <3>3, RecalculatedStops DEF Types, Stopping
    <3>5. Stops(new.blocks, TRUE, tail, head, rest)
      <4>1. new.told => Stops(new.blocks, TRUE, tail, head, rest)
        BY <3>4 DEF Stops
      <4>2. CASE ~new.told
        <5>1. Distance(tail, PrevBlock(head)) = 0
          <6>1. Distance(tail, PrevBlock(head)) # 0 => new.told = (tail = tail)
            BY <1>0, <1>2, RecalculatedIs DEF Types
          <6> QED
            BY <4>2, <6>1
        <5>2. new.blocks = c
          BY <5>1 DEF Recalculated
        <5> QED
          BY <1>5, <5>2
      <4> QED
        BY <4>1, <4>2
    <3> HIDE DEF new
    <3> QED
      BY <1>2, <3>1, <3>2, <3>4, <3>5
  <2> QED
    BY <2>1, <2>2
<1>8. Types'
  BY <1>0, <1>3, <1>7 DEF Types
<1>9. Occupied'
  BY <1>0, <1>3, <1>4, <1>7 DEF Occupied, Contents, Inv, Types
<1>10. Stopping(rest)'
  BY <1>1, <1>3, <1>6, <1>7 DEF Stopping, Stops
<1>11. ExitAgrees'
  BY <1>3 DEF ExitAgrees
<1> QED
  BY <1>8, <1>9, <1>10, <1>11, TypesAre DEF Inv, Stoppable

\* plan_buffer_line's block, before the passes.
LEMMA BufferedIs ==
    ASSUME Types, BufferLine
    PROVE  \E b, length, rate :
             /\ b \in Typed /\ length \in Nat \ {0} /\ rate \in FeedRates \cup {Rapid}
             /\ b[head].length = length /\ b[head].entry = 0 /\ b[head].rate = rate
             /\ b[head].maxEntry <= prevNominal' * prevNominal'
             /\ b[head].maxEntry <= prevNominal * prevNominal
             /\ head = tail => b[head].maxEntry = 0
             /\ \A i \in Slots : i # head => b[i] = blocks[i]
             /\ prevNominal' = Nominal([rate |-> rate], fOverride, rOverride)
             /\ prevNominal' \in Nat
             /\ Replan(b, NextBlock(head), planned)
<1>1. PICK length \in Lengths, rate \in FeedRates \cup {Rapid}, corner \in Junctions :
        LET junction == IF head = tail THEN 0 ELSE corner
            b == [NoBlock EXCEPT !.length = length, !.rate = rate, !.junction = junction]
            nominal == Nominal(b, fOverride, rOverride)
            new == [b EXCEPT !.maxEntry = MaxEntry(b, nominal, prevNominal)]
        IN  /\ prevNominal' = nominal
            /\ Replan([blocks EXCEPT ![head] = new], NextBlock(head), planned)
  BY DEF BufferLine
<1> DEFINE junction == IF head = tail THEN 0 ELSE corner
           b0 == [NoBlock EXCEPT !.length = length, !.rate = rate, !.junction = junction]
           nominal == Nominal(b0, fOverride, rOverride)
           max == MaxEntry(b0, nominal, prevNominal)
           added == [b0 EXCEPT !.maxEntry = max]
           b == [blocks EXCEPT ![head] = added]
<1>2. prevNominal' = nominal /\ Replan(b, NextBlock(head), planned)
  BY <1>1
<1>3. length \in Nat \ {0} /\ corner \in Nat /\ junction \in Nat
  BY MotionAssumption
<1>4. b0.rate = rate /\ b0.junction = junction
  BY DEF NoBlock
<1>5. nominal \in Nat /\ nominal = Nominal([rate |-> rate], fOverride, rOverride)
  <2>1. nominal \in Nat
    BY <1>4, NominalTyped DEF Types
  <2> QED
    BY <1>4, <2>1 DEF Nominal
<1> HIDE DEF nominal, b0
<1>6. /\ max \in Nat /\ max <= nominal * nominal /\ max <= prevNominal * prevNominal
      /\ head = tail => max = 0
  <2>1. PICK s, t : s = nominal * nominal /\ t = prevNominal * prevNominal
    OBVIOUS
  <2>2. s \in Nat /\ t \in Nat
    BY <1>5, <2>1, Products DEF Types
  <2>3. max = Least(junction, Least(s, t))
    BY <1>4, <2>1 DEF MaxEntry
  <2>4. max \in Nat /\ max <= s /\ max <= t /\ (head = tail => max = 0)
    BY <1>3, <2>2, <2>3 DEF Least
  <2> QED
    BY <2>1, <2>4
<1> HIDE DEF max
<1>7. /\ added \in [entry : Nat, maxEntry : Nat, junction : Nat, length : Nat, rate : FeedRates \cup {Rapid}]
      /\ added.length = length /\ added.entry = 0 /\ added.maxEntry = max /\ added.rate = rate
  BY <1>3, <1>6 DEF NoBlock, b0
<1> HIDE DEF added
<1>8. /\ b \in Typed /\ b[head].length = length /\ b[head].entry = 0 /\ b[head].maxEntry = max
      /\ b[head].rate = rate
      /\ \A i \in Slots : i # head => b[i] = blocks[i]
  BY <1>7 DEF Types, Typed
<1> HIDE DEF b
<1>9. /\ b[head].maxEntry <= prevNominal' * prevNominal'
      /\ b[head].maxEntry <= prevNominal * prevNominal
  BY <1>2, <1>6, <1>8
<1> QED
  BY <1>2, <1>3, <1>5, <1>6, <1>8, <1>9

\* A block is added.
LEMMA BufferLineInv ==
    ASSUME Inv, BufferLine
    PROVE  Inv'
<1>0. Types
  BY TypesAre DEF Inv
<1>1. PICK rest : Stopping(rest)
  BY DEF Inv, Stoppable
<1>2. PICK b, length, rate :
        /\ b \in Typed /\ length \in Nat \ {0} /\ rate \in FeedRates \cup {Rapid}
        /\ b[head].length = length /\ b[head].entry = 0 /\ b[head].rate = rate
        /\ b[head].maxEntry <= prevNominal' * prevNominal'
        /\ b[head].maxEntry <= prevNominal * prevNominal
        /\ head = tail => b[head].maxEntry = 0
        /\ \A i \in Slots : i # head => b[i] = blocks[i]
        /\ prevNominal' = Nominal([rate |-> rate], fOverride, rOverride)
        /\ prevNominal' \in Nat
        /\ Replan(b, NextBlock(head), planned)
  BY <1>0, BufferedIs
<1> DEFINE h == NextBlock(head)
           new == Recalculated(b, h, planned)
<1>21. PICK rest2 : rest2 = [i \in Slots |-> IF i \in In(tail, head) THEN rest[i] + length
                                             ELSE IF i = head THEN length ELSE 0]
  OBVIOUS
<1>3. Replan(b, h, planned)
  BY <1>2
<1>4. /\ ~IsFull /\ control # "held" /\ head' = h
      /\ UNCHANGED <<tail, fOverride, rOverride, control>>
  BY DEF BufferLine
<1>5. length \in Nat /\ length > 0
  BY <1>2
<1>7. /\ b \in Typed /\ b[head].length = length /\ b[head].entry = 0
      /\ \A i \in Slots : i # head => b[i] = blocks[i]
  BY <1>2
<1>8. /\ h \in Slots /\ h # tail /\ h # head
      /\ In(tail, h) = In(tail, head) \cup {head} /\ head \notin In(tail, head)
      /\ In(tail, head) \subseteq Slots /\ (tail \in In(tail, head) <=> tail # head)
      /\ h \notin In(tail, h) /\ tail \in In(tail, h)
      /\ \A i \in In(tail, head) : NextBlock(i) = head \/ NextBlock(i) \in In(tail, head)
  <2>1. h \in Slots /\ h # tail /\ h # head
    BY <1>0, <1>4, Neighbours DEF IsFull, Types
  <2>2. In(tail, h) = In(tail, head) \cup {head}
    BY <1>0, <2>1, InGrows DEF Types
  <2> QED
    BY <1>0, <2>1, <2>2, InIs DEF Types
<1> HIDE DEF h
<1>9. /\ blocks' = new.blocks /\ planned' = new.planned
      /\ IF new.told THEN ProfileDropped ELSE UNCHANGED prep
  BY <1>3 DEF Replan
<1>10. /\ new.blocks \in Typed /\ new.planned \in Slots /\ new.told \in BOOLEAN
       /\ \A i \in Slots : new.blocks[i].length = b[i].length
  BY <1>0, <1>7, <1>8, RecalculatedKeeps DEF Types
<1>11. /\ rest \in [Slots -> Nat] /\ rest[head] = 0 /\ rest2 \in [Slots -> Nat]
       /\ rest2[head] = length /\ rest2[h] = 0
       /\ \A i \in In(tail, head) : rest2[i] = rest[i] + length
  BY <1>0, <1>1, <1>5, <1>8, <1>21 DEF Types, Stopping, Way
<1>12. Way(b, tail, h, rest2)
  <2>1. ASSUME NEW i \in In(tail, head) PROVE rest2[i] = b[i].length + rest2[NextBlock(i)]
    <3>1. i \in Slots /\ i # head /\ NextBlock(i) \in Slots
      BY <1>8, Neighbours
    <3>2. rest[i] = blocks[i].length + rest[NextBlock(i)]
      BY <1>1 DEF Stopping, Way
    <3>3. rest2[NextBlock(i)] = rest[NextBlock(i)] + length
      BY <1>5, <1>8, <1>11
    <3>4. rest[NextBlock(i)] \in Nat /\ blocks[i].length \in Nat
      BY <1>0, <1>11, <3>1 DEF Types, Typed
    <3> QED
      BY <1>5, <1>7, <1>11, <3>1, <3>2, <3>3, <3>4
  <2>2. rest2[head] = b[head].length + rest2[NextBlock(head)]
    BY <1>5, <1>7, <1>11 DEF h
  <2> QED
    BY <1>8, <1>11, <2>1, <2>2 DEF Way
<1>13. Stops(b, ~loaded, tail, h, rest2)
  <2> SUFFICES ASSUME NEW i \in In(tail, h), i # tail \/ ~loaded PROVE b[i].entry <= rest2[i]
    BY DEF Stops
  <2>1. CASE i = head
    BY <1>5, <1>7, <1>11, <2>1
  <2>2. CASE i # head
    <3>1. i \in In(tail, head) /\ i \in Slots /\ blocks[i].entry <= rest[i]
      BY <1>1, <1>8, <2>2 DEF Stopping, Stops
    <3>2. rest[i] \in Nat /\ blocks[i].entry \in Nat
      BY <1>0, <1>11, <3>1 DEF Types, Typed
    <3> QED
      BY <1>5, <1>7, <1>11, <2>2, <3>1, <3>2
  <2> QED
    BY <2>1, <2>2
<1>14. /\ speed <= rest2[tail] /\ exit <= rest2[tail]
       /\ loaded => head # tail /\ exit <= rest2[NextBlock(tail)]
  <2>1. CASE head = tail
    BY <1>0, <1>1, <1>5, <1>11, <2>1 DEF Inv, Occupied, Stopping, Types
  <2>2. CASE head # tail
    <3>1. tail \in In(tail, head) /\ tail \in Slots /\ NextBlock(tail) \in Slots
      BY <1>0, <1>8, <2>2, Neighbours DEF Types
    <3>2. /\ rest2[tail] = rest[tail] + length /\ rest[tail] \in Nat
          /\ rest2[NextBlock(tail)] = rest[NextBlock(tail)] + length /\ rest[NextBlock(tail)] \in Nat
          /\ rest[tail] = blocks[tail].length + rest[NextBlock(tail)] /\ blocks[tail].length \in Nat
      BY <1>0, <1>1, <1>5, <1>8, <1>11, <3>1 DEF Stopping, Way, Types, Typed
    <3>3. speed <= rest[tail] /\ exit <= rest[IF loaded THEN NextBlock(tail) ELSE tail]
      BY <1>1 DEF Stopping
    <3>4. loaded \in BOOLEAN /\ speed \in Nat /\ exit \in Nat
      BY <1>0 DEF Types
    <3> QED
      BY <1>5, <2>2, <3>2, <3>3, <3>4
  <2> QED
    BY <2>1, <2>2
<1>15. /\ new.planned \in In(tail, h)
       /\ Way(new.blocks, tail, h, rest2)
       /\ Stops(new.blocks, ~loaded \/ new.told, tail, h, rest2)
  <2>1. Way(new.blocks, tail, h, rest2)
    BY <1>0, <1>8, <1>10, <1>12 DEF Way, Types
  <2>2. CASE head = tail
    <3>1. b[head].maxEntry = 0 /\ b[head].entry = 0
      BY <1>2, <2>2
    <3>2. new.planned = head /\ new.told = FALSE /\ new.blocks[head].entry = 0
      BY <1>0, <1>7, <2>2, <3>1, RecalculatedFirst DEF Types, h
    <3>3. In(tail, h) = {head}
      BY <1>0, <1>8, <2>2, InIs DEF Types
    <3>4. 0 <= rest2[head]
      BY <1>5, <1>11
    <3> QED
      BY <2>1, <3>2, <3>3, <3>4 DEF Stops
  <2>3. CASE head # tail
    <3>1. planned \in In(tail, h)
      BY <1>8, <2>3 DEF Inv, Occupied, Contents
    <3>2. speed <= rest2[tail]
      BY <1>14
    <3> QED
      BY <1>0, <1>7, <1>8, <1>12, <1>13, <3>1, <3>2, RecalculatedStops DEF Types
  <2> QED
    BY <2>2, <2>3
<1>16. Types'
  <2>1. /\ loaded' \in BOOLEAN /\ partial' \in BOOLEAN /\ decelOvr' \in BOOLEAN
        /\ speed' \in Nat /\ exit' \in Nat
    BY <1>0, <1>9 DEF ProfileDropped, prep, Types
  <2> QED
    BY <1>0, <1>2, <1>4, <1>8, <1>9, <1>10, <2>1 DEF Types
<1>17. /\ speed' = speed /\ exit' = exit /\ loaded' = (loaded /\ ~new.told)
       /\ partial' \in BOOLEAN /\ tail' = tail
  BY <1>0, <1>4, <1>9, <1>10 DEF ProfileDropped, prep, Types
<1>18. Occupied'
  <2>1. Contents' = In(tail, h)
    BY <1>4 DEF Contents
  <2>2. ASSUME NEW i \in In(tail, h) PROVE blocks'[i].length > 0
    <3>1. i \in Slots /\ (i # head => i \in In(tail, head))
      BY <1>0, <1>8 DEF Types
    <3> QED
      BY <1>5, <1>7, <1>9, <1>10, <3>1 DEF Inv, Occupied, Contents
  <2> QED
    BY <1>4, <1>8, <1>9, <1>15, <2>1, <2>2 DEF Occupied
<1>19. Stopping(rest2)'
  <2>1. loaded' => head # tail /\ exit <= rest2[NextBlock(tail)]
    BY <1>14, <1>17
  <2>2. Stops(new.blocks, ~loaded', tail, h, rest2)
    BY <1>15, <1>17 DEF Stops
  <2>3. exit <= rest2[IF loaded' THEN NextBlock(tail) ELSE tail]
    BY <1>14, <2>1
  <2> QED
    BY <1>4, <1>9, <1>14, <1>15, <1>17, <2>2, <2>3 DEF Stopping, Stops
<1>20. ExitAgrees'
  <2> SUFFICES ASSUME loaded', control' = "run", ~decelOvr' PROVE exit' = PlannedExit'
    BY DEF ExitAgrees
  <2>1. loaded /\ ~new.told /\ control = "run" /\ decelOvr' = decelOvr /\ exit' = exit /\ tail' = tail
    BY <1>4, <1>9, <1>17 DEF ProfileDropped, prep
  <2>2. exit = PlannedExit /\ head # tail /\ planned \in In(tail, head)
    BY <2>1 DEF Inv, ExitAgrees, Occupied, Contents
  <2> DEFINE m == Distance(planned, PrevBlock(h))
  <2>3. m # 0 /\ planned \in Slots /\ planned # head
    <3>1. PrevBlock(h) = head /\ planned \in Slots
      BY <1>0, Neighbours DEF h, Types
    <3>2. planned # head
      BY <1>8, <2>2
    <3> QED
      BY <1>0, <3>1, <3>2, Distances DEF Types
  <2>4. planned # tail /\ \E w, e, q : Passed(b, planned, m, new, w, e, q)
    <3> DEFINE c == IF planned = tail THEN UpdateTail(b) ELSE b
    <3> HIDE DEF m, c
    <3>1. m = Distance(planned, PrevBlock(h)) /\ c = IF planned = tail THEN UpdateTail(b) ELSE b
      BY DEF m, c
    <3>2. /\ new.told = (planned = tail)
          /\ \E w, e, q : Passed(c, planned, m, new, w, e, q)
      BY <1>0, <1>7, <1>8, <2>3, <3>1, RecalculatedIs DEF Types
    <3> QED
      BY <2>1, <3>1, <3>2
  <2>5. PICK w, e, q : Passed(b, planned, m, new, w, e, q)
    BY <2>4
  <2>6. tail \in In(tail, head) /\ NextBlock(tail) \in Slots /\ NextBlock(tail) # head
    <3>1. NextBlock(tail) = head => In(tail, head) = {tail}
      <4>1. Distance(tail, tail) = 0 /\ (Distance(tail, head) = 0 <=> head = tail)
            /\ Distance(tail, NextBlock(tail)) = IF Distance(tail, tail) = Ring - 1 THEN 0
                                                 ELSE Distance(tail, tail) + 1
        BY <1>0, Distances DEF Types
      <4>2. \A i \in Slots : Distance(tail, i) \in Slots /\ (Distance(tail, i) = 0 <=> i = tail)
        BY <1>0, Distances DEF Types
      <4> QED
        BY <1>0, <4>1, <4>2, RingAssumption DEF In, Slots, Types
    <3> QED
      BY <1>0, <1>8, <2>2, <2>4, <3>1, Neighbours DEF Types
  <2>7. NextBlock(tail) \in In(tail, head)
    BY <1>8, <2>6
  <2>8. Distance(planned, NextBlock(tail)) \notin 1..m
    <3>1. NextBlock(tail) \in In(tail, h) /\ planned \in In(tail, h)
      BY <1>8, <2>2, <2>7
    <3>2. Distance(planned, NextBlock(tail)) \in 1..m <=>
            Distance(tail, NextBlock(tail)) > Distance(tail, planned)
      BY <1>0, <1>8, <3>1, Seen DEF Types
    <3>3. Distance(tail, NextBlock(tail)) = IF Distance(tail, tail) = Ring - 1 THEN 0
                                            ELSE Distance(tail, tail) + 1
      BY <1>0, Distances DEF Types
    <3>4. Distance(tail, planned) \in Slots /\ Distance(tail, planned) # 0 /\ Distance(tail, tail) = 0
      BY <1>0, <2>3, <2>4, Distances DEF Types
    <3> QED
      BY <3>2, <3>3, <3>4, RingAssumption DEF Slots
  <2>9. blocks'[NextBlock(tail)] = blocks[NextBlock(tail)]
    BY <1>7, <1>9, <2>5, <2>6, <2>8 DEF Passed
  <2>10. NextBlock(tail) # h
    BY <1>0, <1>8, <2>2, Neighbours DEF h, Types
  <2> QED
    BY <1>4, <2>1, <2>2, <2>6, <2>9, <2>10 DEF PlannedExit
<1> QED
  BY <1>16, <1>18, <1>19, <1>20, TypesAre DEF Inv, Stoppable

LEMMA TailLeftIs ==
    ASSUME blocks \in Typed, tail \in Slots, NEW v \in Nat, NEW length \in Nat
    PROVE  /\ TailLeft(v, length) \in Typed
           /\ TailLeft(v, length)[tail].length = length
           /\ TailLeft(v, length)[tail].maxEntry = blocks[tail].maxEntry
           /\ TailLeft(v, length)[tail].rate = blocks[tail].rate
           /\ \A i \in Slots : i # tail => TailLeft(v, length)[i] = blocks[i]
<1>1. TailLeft(v, length) =
        [i \in Slots |-> IF i = tail
                         THEN [blocks[tail] EXCEPT !.entry = IF loaded THEN blocks[tail].entry ELSE v,
                                                   !.length = length]
                         ELSE blocks[i]]
  BY DEF TailLeft, Typed
<1>2. blocks[tail] \in [entry : Nat, maxEntry : Nat, junction : Nat, length : Nat,
                        rate : FeedRates \cup {Rapid}]
  BY DEF Typed
<1>3. PICK entry \in Nat : entry = IF loaded THEN blocks[tail].entry ELSE v
  BY <1>2
<1>4. [blocks[tail] EXCEPT !.entry = entry, !.length = length]
        \in [entry : Nat, maxEntry : Nat, junction : Nat, length : Nat, rate : FeedRates \cup {Rapid}]
  BY <1>2
<1>5. /\ [blocks[tail] EXCEPT !.entry = entry, !.length = length].length = length
      /\ [blocks[tail] EXCEPT !.entry = entry, !.length = length].maxEntry = blocks[tail].maxEntry
      /\ [blocks[tail] EXCEPT !.entry = entry, !.length = length].rate = blocks[tail].rate
  BY <1>2
<1>6. PICK b : b = [blocks[tail] EXCEPT !.entry = entry, !.length = length]
  OBVIOUS
<1>7. TailLeft(v, length) = [i \in Slots |-> IF i = tail THEN b ELSE blocks[i]]
  BY <1>1, <1>3, <1>6
<1> HIDE DEF TailLeft
<1> QED
  BY <1>4, <1>5, <1>6, <1>7 DEF Typed

\* A profile for the tail, and one unit of it: the tool can stop where the
\* profile ends, and so it can after the unit.
LEMMA PreparedIs ==
    ASSUME Inv, CanPrepare, NEW rest, Stopping(rest)
    PROVE  /\ tail # head /\ NextBlock(tail) \in Slots
           /\ rest \in [Slots -> Nat] /\ rest[tail] = Tail.length + rest[NextBlock(tail)]
           /\ Tail.length \in Nat \ {0} /\ NominalSqr \in Nat
           /\ LoadSpeed \in Nat /\ LoadSpeed <= rest[tail]
           /\ LoadExit(LoadSpeed) \in Nat /\ LoadExit(LoadSpeed) <= rest[NextBlock(tail)]
           /\ ~(Holding /\ LoadSpeed = 0) =>
                /\ Advance(LoadSpeed, LoadExit(LoadSpeed)) \in Nat
                /\ Advance(LoadSpeed, LoadExit(LoadSpeed)) <= Tail.length - 1 + rest[NextBlock(tail)]
<1>0. Types
  BY TypesAre DEF Inv
<1>1. tail # head /\ tail \in Slots /\ NextBlock(tail) \in Slots /\ tail \in In(tail, head)
      /\ (NextBlock(tail) = head \/ NextBlock(tail) \in In(tail, head)) /\ NextBlock(tail) # tail
  BY <1>0, InIs, Neighbours DEF CanPrepare, Types
<1>2. /\ rest \in [Slots -> Nat] /\ rest[tail] = Tail.length + rest[NextBlock(tail)]
      /\ rest[tail] \in Nat /\ rest[NextBlock(tail)] \in Nat
  BY <1>1 DEF Stopping, Way, Tail
<1>3. Tail.length \in Nat \ {0} /\ Tail.entry \in Nat
  BY <1>0, <1>1 DEF Types, Typed, Inv, Occupied, Contents, Tail
<1>4. NominalSqr \in Nat
  <2>1. Tail.rate \in FeedRates \cup {Rapid}
    BY <1>0, <1>1 DEF Types, Typed, Tail
  <2>2. PICK n : n = Nominal(Tail, fOverride, rOverride)
    OBVIOUS
  <2>3. n \in Nat
    BY <1>0, <2>1, <2>2, NominalTyped DEF Types
  <2>4. NominalSqr = n * n
    BY <2>2 DEF NominalSqr
  <2> QED
    BY <2>3, <2>4, Products
<1>5. /\ ~loaded => Tail.entry <= rest[tail]
      /\ speed <= rest[tail] /\ exit <= rest[IF loaded THEN NextBlock(tail) ELSE tail]
      /\ speed \in Nat /\ exit \in Nat /\ loaded \in BOOLEAN
  BY <1>0, <1>1 DEF Stopping, Stops, Tail, Types
<1> DEFINE v == LoadSpeed
           x == LoadExit(v)
<1>6. v \in Nat /\ v <= rest[tail]
  BY <1>2, <1>3, <1>5 DEF LoadSpeed
<1>7. PlannedExit \in Nat /\ PlannedExit <= rest[NextBlock(tail)]
  <2>1. CASE NextBlock(tail) = head
    BY <1>2, <2>1 DEF PlannedExit
  <2>2. CASE NextBlock(tail) # head
    <3>1. NextBlock(tail) \in In(tail, head)
      BY <1>1, <2>2
    <3>2. blocks[NextBlock(tail)].entry <= rest[NextBlock(tail)]
      BY <1>1, <3>1 DEF Stopping, Stops
    <3>3. blocks[NextBlock(tail)].entry \in Nat
      BY <1>0, <1>1 DEF Types, Typed
    <3> QED
      BY <2>2, <3>2, <3>3 DEF PlannedExit
  <2> QED
    BY <2>1, <2>2
<1> HIDE DEF v
<1>8. x \in Nat /\ x <= rest[NextBlock(tail)]
  <2>1. CASE loaded
    BY <1>5, <2>1 DEF LoadExit
  <2>2. CASE ~loaded /\ Holding
    BY <1>2, <1>3, <1>6, <2>2 DEF LoadExit, Most
  <2>3. CASE ~loaded /\ ~Holding /\ SlowingThrough(v)
    BY <1>2, <1>3, <1>4, <1>6, <2>3 DEF LoadExit, SlowingThrough
  <2>4. CASE ~loaded /\ ~Holding /\ ~SlowingThrough(v)
    BY <1>7, <2>4 DEF LoadExit
  <2> QED
    BY <2>1, <2>2, <2>3, <2>4
<1> HIDE DEF x
<1>9. ~(Holding /\ v = 0) => Advance(v, x) \in Nat /\ Advance(v, x) <= Tail.length - 1 + rest[NextBlock(tail)]
  <2> HIDE DEF Tail, Holding
  <2> QED
    BY <1>2, <1>3, <1>4, <1>6, <1>8 DEF Advance
<1> QED
  BY <1>1, <1>2, <1>3, <1>4, <1>6, <1>8, <1>9 DEF v, x

LEMMA PrepareWithinInv ==
    ASSUME Inv, PrepareWithin
    PROVE  Inv'
<1>0. Types
  BY TypesAre DEF Inv
<1>1. PICK rest : Stopping(rest)
  BY DEF Inv, Stoppable
<1>2. /\ tail # head /\ NextBlock(tail) \in Slots
      /\ rest \in [Slots -> Nat] /\ rest[tail] = Tail.length + rest[NextBlock(tail)]
      /\ Tail.length \in Nat \ {0}
      /\ LoadSpeed \in Nat
      /\ LoadExit(LoadSpeed) \in Nat /\ LoadExit(LoadSpeed) <= rest[NextBlock(tail)]
      /\ ~(Holding /\ LoadSpeed = 0) =>
           /\ Advance(LoadSpeed, LoadExit(LoadSpeed)) \in Nat
           /\ Advance(LoadSpeed, LoadExit(LoadSpeed)) <= Tail.length - 1 + rest[NextBlock(tail)]
  BY <1>1, PreparedIs DEF PrepareWithin
<1>3. /\ Tail.length > 1 /\ ~(Holding /\ LoadSpeed = 0) /\ Load(LoadSpeed, LoadExit(LoadSpeed))
      /\ speed' = Advance(LoadSpeed, LoadExit(LoadSpeed))
      /\ blocks' = TailLeft(LoadSpeed, Tail.length - 1)
      /\ loaded' = TRUE
      /\ control' = (IF Holding /\ speed' = 0 THEN "end" ELSE control)
      /\ UNCHANGED <<tail, head, planned, overrides>> /\ CanPrepare
  BY DEF PrepareWithin
<1>4. /\ partial' = FALSE /\ exit' = LoadExit(LoadSpeed)
      /\ decelOvr' = IF loaded THEN decelOvr ELSE ~Holding /\ SlowingThrough(LoadSpeed)
  BY <1>3 DEF Load
<1>5. tail \in Slots /\ head \in Slots /\ tail \in In(tail, head) /\ In(tail, head) \subseteq Slots
      /\ \A i \in In(tail, head) : NextBlock(i) # tail /\ NextBlock(i) \in Slots
  BY <1>0, <1>2, InIs, Neighbours DEF Types
<1>6. /\ blocks' \in Typed
      /\ blocks'[tail].length = Tail.length - 1
      /\ \A i \in Slots : i # tail => blocks'[i] = blocks[i]
  <2>1. Tail.length - 1 \in Nat
    BY <1>2
  <2> QED
    BY <1>0, <1>2, <1>3, <2>1, TailLeftIs DEF Types
<1>7. Types'
  <2>1. decelOvr' \in BOOLEAN
    BY <1>0, <1>4 DEF Types, SlowingThrough
  <2>2. prevNominal' = prevNominal /\ fOverride' = fOverride /\ rOverride' = rOverride
    BY <1>3 DEF overrides
  <2> QED
    BY <1>0, <1>2, <1>3, <1>4, <1>6, <2>1, <2>2 DEF Types
<1>8. Occupied'
  <2>1. control' # "held" \/ ~loaded'
    BY <1>3 DEF CanPrepare
  <2>2. control' # "held"
    BY <1>3, <2>1
  <2>3. \A i \in In(tail, head) : blocks'[i].length > 0
    BY <1>2, <1>3, <1>5, <1>6 DEF Inv, Occupied, Contents
  <2> QED
    BY <1>2, <1>3, <2>2, <2>3 DEF Inv, Occupied, Contents
<1>9. PICK rest2 : rest2 = [rest EXCEPT ![tail] = Tail.length - 1 + rest[NextBlock(tail)]]
  OBVIOUS
<1>10. /\ rest2 \in [Slots -> Nat] /\ rest2[tail] = Tail.length - 1 + rest[NextBlock(tail)]
       /\ \A i \in Slots : i # tail => rest2[i] = rest[i]
  BY <1>2, <1>5, <1>9
<1>11. Stopping(rest2)'
  <2>1. Way(blocks', tail, head, rest2)
    <3>1. rest2[head] = 0
      BY <1>1, <1>2, <1>5, <1>10 DEF Stopping, Way
    <3>2. ASSUME NEW i \in In(tail, head) PROVE rest2[i] = blocks'[i].length + rest2[NextBlock(i)]
      <4>1. rest2[NextBlock(i)] = rest[NextBlock(i)]
        BY <1>5, <1>10
      <4>2. CASE i = tail
        BY <1>6, <1>10, <4>1, <4>2
      <4>3. CASE i # tail
        BY <1>1, <1>5, <1>6, <1>10, <4>1, <4>3 DEF Stopping, Way
      <4> QED
        BY <4>2, <4>3
    <3> QED
      BY <1>10, <3>1, <3>2 DEF Way
  <2>2. Stops(blocks', FALSE, tail, head, rest2)
    BY <1>1, <1>5, <1>6, <1>10 DEF Stopping, Stops
  <2>3. speed' <= rest2[tail]
    BY <1>2, <1>3, <1>10
  <2>4. exit' <= rest2[NextBlock(tail)]
    BY <1>2, <1>4, <1>5, <1>10
  <2>5. loaded' = TRUE /\ tail' = tail /\ head' = head
    BY <1>3
  <2> QED
    BY <2>1, <2>2, <2>3, <2>4, <2>5 DEF Stopping, Stops
<1>12. ExitAgrees'
  <2> SUFFICES ASSUME control' = "run", ~decelOvr' PROVE exit' = PlannedExit'
    BY DEF ExitAgrees
  <2>1. control = "run" /\ ~Holding
    BY <1>3 DEF CanPrepare, Holding
  <2>2. PlannedExit' = PlannedExit
    BY <1>2, <1>3, <1>5, <1>6 DEF PlannedExit
  <2>3. CASE loaded
    <3>1. exit' = exit /\ decelOvr' = decelOvr
      BY <1>4, <2>3 DEF LoadExit
    <3> QED
      BY <2>1, <2>2, <2>3, <3>1 DEF Inv, ExitAgrees
  <2>4. CASE ~loaded
    <3>1. ~SlowingThrough(LoadSpeed)
      BY <1>4, <2>1, <2>4
    <3>2. exit' = PlannedExit
      BY <1>4, <2>1, <2>4, <3>1 DEF LoadExit
    <3> QED
      BY <2>2, <3>2
  <2> QED
    BY <2>3, <2>4
<1> QED
  BY <1>7, <1>8, <1>11, <1>12, TypesAre DEF Inv, Stoppable

LEMMA PrepareLastInv ==
    ASSUME Inv, PrepareLast
    PROVE  Inv'
<1>0. Types
  BY TypesAre DEF Inv
<1>1. PICK rest : Stopping(rest)
  BY DEF Inv, Stoppable
<1>2. /\ tail # head /\ NextBlock(tail) \in Slots
      /\ rest \in [Slots -> Nat]
      /\ LoadExit(LoadSpeed) \in Nat /\ LoadExit(LoadSpeed) <= rest[NextBlock(tail)]
      /\ ~(Holding /\ LoadSpeed = 0) =>
           /\ Advance(LoadSpeed, LoadExit(LoadSpeed)) \in Nat
           /\ Advance(LoadSpeed, LoadExit(LoadSpeed)) <= Tail.length - 1 + rest[NextBlock(tail)]
  BY <1>1, PreparedIs DEF PrepareLast
<1>3. /\ Tail.length = 1 /\ ~(Holding /\ LoadSpeed = 0) /\ Load(LoadSpeed, LoadExit(LoadSpeed))
      /\ speed' = Advance(LoadSpeed, LoadExit(LoadSpeed))
      /\ loaded' = FALSE
      /\ blocks' = [blocks EXCEPT ![tail] = NoBlock]
      /\ tail' = NextBlock(tail)
      /\ planned' = PushedPointer
      /\ UNCHANGED <<head, overrides, control>> /\ CanPrepare
  BY DEF PrepareLast
<1>4. /\ partial' = FALSE /\ exit' = LoadExit(LoadSpeed)
      /\ decelOvr' = IF loaded THEN decelOvr ELSE ~Holding /\ SlowingThrough(LoadSpeed)
  BY <1>3 DEF Load
<1>5. /\ tail \in Slots /\ head \in Slots /\ tail \in In(tail, head) /\ In(tail, head) \subseteq Slots
      /\ In(NextBlock(tail), head) = In(tail, head) \ {tail}
      /\ \A i \in In(tail, head) : NextBlock(i) \in Slots
      /\ NextBlock(tail) = head \/ (NextBlock(tail) \in In(tail, head) /\ NextBlock(tail) # tail)
  BY <1>0, <1>2, InIs, InShrinks, Neighbours DEF Types
<1>6. /\ blocks' \in Typed
      /\ \A i \in Slots : i # tail => blocks'[i] = blocks[i]
  BY <1>0, <1>3, <1>5 DEF NoBlock, Typed, Types
<1>7. Types'
  <2>1. decelOvr' \in BOOLEAN
    BY <1>0, <1>4 DEF Types, SlowingThrough
  <2>2. prevNominal' = prevNominal /\ fOverride' = fOverride /\ rOverride' = rOverride
    BY <1>3 DEF overrides
  <2>3. planned' \in Slots
    BY <1>0, <1>2, <1>3 DEF PushedPointer, Types
  <2>4. speed' \in Nat
    BY <1>2, <1>3
  <2> QED
    BY <1>0, <1>2, <1>3, <1>4, <1>6, <2>1, <2>2, <2>3, <2>4 DEF Types
<1>8. Occupied'
  <2>1. Contents' = In(tail, head) \ {tail}
    BY <1>3, <1>5 DEF Contents
  <2>2. head' # tail' => planned' \in Contents'
    <3> SUFFICES ASSUME NextBlock(tail) # head PROVE planned' \in In(tail, head) \ {tail}
      BY <1>3, <2>1
    <3>1. planned \in In(tail, head) /\ NextBlock(tail) \in In(tail, head) \ {tail}
      BY <1>2, <1>5 DEF Inv, Occupied, Contents
    <3> QED
      BY <1>3, <3>1 DEF PushedPointer
  <2>3. \A i \in In(tail, head) \ {tail} : blocks'[i].length > 0
    BY <1>5, <1>6 DEF Inv, Occupied, Contents
  <2> QED
    BY <1>3, <1>4, <2>1, <2>2, <2>3 DEF Occupied
<1>9. Stopping(rest)'
  <2>1. Way(blocks', NextBlock(tail), head, rest)
    BY <1>1, <1>5, <1>6 DEF Stopping, Way
  <2>2. Stops(blocks', TRUE, NextBlock(tail), head, rest)
    BY <1>1, <1>5, <1>6 DEF Stopping, Stops
  <2>3. speed' <= rest[NextBlock(tail)]
    <3>1. rest[NextBlock(tail)] \in Nat
      BY <1>2
    <3> QED
      BY <1>2, <1>3, <3>1
  <2>4. exit' <= rest[NextBlock(tail)]
    BY <1>2, <1>4
  <2>5. loaded' = FALSE /\ tail' = NextBlock(tail) /\ head' = head
    BY <1>3
  <2> QED
    BY <2>1, <2>2, <2>3, <2>4, <2>5 DEF Stopping, Stops
<1>10. ExitAgrees'
  BY <1>3 DEF ExitAgrees
<1> QED
  BY <1>7, <1>8, <1>9, <1>10, TypesAre DEF Inv, Stoppable

LEMMA PrepareNothingInv ==
    ASSUME Inv, PrepareNothing
    PROVE  Inv'
<1>0. Types
  BY TypesAre DEF Inv
<1>1. PICK rest : Stopping(rest)
  BY DEF Inv, Stoppable
<1>2. /\ Holding /\ Load(0, 0) /\ speed' = 0 /\ blocks' = TailLeft(0, Tail.length)
      /\ loaded' = TRUE /\ control' = "end"
      /\ UNCHANGED <<tail, head, planned, overrides>>
  BY DEF PrepareNothing
<1>3. /\ tail # head /\ NextBlock(tail) \in Slots
      /\ rest \in [Slots -> Nat] /\ Tail.length \in Nat \ {0} /\ NominalSqr \in Nat
  BY <1>1, PreparedIs DEF PrepareNothing
<1>4. partial' = FALSE /\ exit' = 0
      /\ decelOvr' = IF loaded THEN decelOvr ELSE ~Holding /\ SlowingThrough(0)
  BY <1>2 DEF Load
<1>5. tail \in Slots /\ head \in Slots /\ In(tail, head) \subseteq Slots
  BY <1>0, InIs DEF Types
<1>6. /\ blocks' \in Typed
      /\ blocks'[tail].length = Tail.length
      /\ \A i \in Slots : i # tail => blocks'[i] = blocks[i]
  BY <1>0, <1>2, <1>3, TailLeftIs DEF Types
<1>7. Types'
  <2>1. decelOvr' \in BOOLEAN
    BY <1>0, <1>4 DEF Types, SlowingThrough
  <2>2. prevNominal' = prevNominal /\ fOverride' = fOverride /\ rOverride' = rOverride
    BY <1>2 DEF overrides
  <2> QED
    BY <1>0, <1>2, <1>4, <1>6, <2>1, <2>2 DEF Types
<1>8. \A i \in Slots : blocks'[i].length = blocks[i].length
  BY <1>6 DEF Tail
<1>9. Occupied'
  <2>1. Contents' = Contents
    BY <1>2 DEF Contents
  <2> QED
    BY <1>2, <1>3, <1>4, <1>5, <1>8, <2>1 DEF Inv, Occupied, Contents
<1>10. Stopping(rest)'
  <2>1. Way(blocks', tail, head, rest)
    BY <1>1, <1>5, <1>8 DEF Stopping, Way
  <2>2. Stops(blocks', FALSE, tail, head, rest)
    BY <1>1, <1>5, <1>6 DEF Stopping, Stops
  <2>3. 0 <= rest[tail] /\ 0 <= rest[NextBlock(tail)]
    BY <1>3, <1>5
  <2> QED
    BY <1>2, <1>4, <2>1, <2>2, <2>3 DEF Stopping, Stops
<1>11. ExitAgrees'
  BY <1>2 DEF ExitAgrees
<1> QED
  BY <1>7, <1>9, <1>10, <1>11, TypesAre DEF Inv, Stoppable

LEMMA StartHoldInv ==
    ASSUME Inv, StartHold
    PROVE  Inv'
<1>0. Types
  BY TypesAre DEF Inv
<1>1. PICK rest : Stopping(rest)
  BY DEF Inv, Stoppable
<1>2. /\ loaded' = FALSE /\ partial' = (partial \/ loaded) /\ head # tail
      /\ blocks' = UpdateTail(blocks) /\ control' = "hold"
      /\ UNCHANGED <<decelOvr, speed, exit, tail, head, planned, prevNominal, fOverride, rOverride>>
  BY DEF StartHold, ProfileDropped, overrides
<1>3. /\ blocks' \in Typed
      /\ \A i \in Slots : /\ blocks'[i].length = blocks[i].length
                          /\ blocks'[i].entry = IF loaded /\ i = tail THEN speed ELSE blocks[i].entry
  BY <1>0, <1>2, TailUpdated DEF Types
<1>4. In(tail, head) \subseteq Slots
  BY DEF In
<1>5. Types'
  BY <1>0, <1>2, <1>3 DEF Types
<1>6. Occupied'
  BY <1>2, <1>3, <1>4 DEF Inv, Occupied, Contents
<1>7. Stopping(rest)'
  <2>1. Way(blocks', tail, head, rest)
    BY <1>1, <1>3, <1>4 DEF Stopping, Way
  <2>2. Stops(blocks', TRUE, tail, head, rest)
    BY <1>1, <1>3, <1>4 DEF Stopping, Stops
  <2>3. exit <= rest[tail]
    BY <1>1, DroppedStops
  <2> QED
    BY <1>1, <1>2, <2>1, <2>2, <2>3 DEF Stopping, Stops
<1>8. ExitAgrees'
  BY <1>2 DEF ExitAgrees
<1> QED
  BY <1>5, <1>6, <1>7, <1>8, TypesAre DEF Inv, Stoppable

\* A cycle stop replans what is left.
LEMMA HoldStopInv ==
    ASSUME Inv, HoldStop
    PROVE  Inv'
<1>1. Types
  BY TypesAre DEF Inv
<1>2. ReplanAll(blocks) /\ control' = "held" /\ UNCHANGED <<tail, head>>
      /\ prevNominal' = prevNominal /\ fOverride' = fOverride /\ rOverride' = rOverride
  BY DEF HoldStop, overrides
<1> QED
  BY <1>1, <1>2, ReplanAllInv DEF Types

\* An override changes the greatest entry speeds, and replans.
LEMMA OverrideInv ==
    ASSUME Inv, Override
    PROVE  Inv'
<1>0. Types
  BY TypesAre DEF Inv
<1>1. PICK f \in FeedOverrides, r \in RapidOverrides :
        /\ fOverride' = f /\ rOverride' = r
        /\ prevNominal' = IF Count = 0 THEN Fast ELSE Nominal(blocks[PrevBlock(head)], f, r)
        /\ ReplanAll(Reprofiled(f, r))
  BY DEF Override
<1>2. UNCHANGED <<tail, head, control>>
  BY DEF Override
<1>3. \A i \in Slots : PrevBlock(i) \in Slots /\ Nominal(blocks[i], f, r) \in Nat
  <2> TAKE i \in Slots
  <2>1. blocks[i].rate \in FeedRates \cup {Rapid}
    BY <1>0 DEF Types, Typed
  <2> QED
    BY <2>1, NominalTyped, Neighbours
<1>4. Fast \in Nat
  BY FastAssumption
<1> DEFINE max(i) == MaxEntry(blocks[i], Nominal(blocks[i], f, r),
                              IF i = tail THEN Fast ELSE Nominal(blocks[PrevBlock(i)], f, r))
           b == Reprofiled(f, r)
<1>5. \A i \in Slots : max(i) \in Nat
  <2> TAKE i \in Slots
  <2>1. blocks[i].junction \in Nat
    BY <1>0 DEF Types, Typed
  <2>2. PICK prev \in Nat : prev = IF i = tail THEN Fast ELSE Nominal(blocks[PrevBlock(i)], f, r)
    BY <1>3, <1>4
  <2>3. MaxEntry(blocks[i], Nominal(blocks[i], f, r), prev) \in Nat
    BY <1>3, <2>1, MaxEntryTyped
  <2> QED
    BY <2>2, <2>3
<1>6. b = [i \in Slots |-> IF Distance(tail, i) < Count THEN [blocks[i] EXCEPT !.maxEntry = max(i)]
                           ELSE blocks[i]]
  BY DEF Reprofiled
<1> HIDE DEF max, b
<1>7. b \in Typed /\ \A i \in Slots : b[i].length = blocks[i].length /\ b[i].entry = blocks[i].entry
  BY <1>0, <1>5, <1>6 DEF Types, Typed
<1>8. prevNominal' \in Nat
  BY <1>0, <1>1, <1>3, <1>4 DEF Types
<1>9. ReplanAll(b)
  BY <1>1 DEF b
<1>10. fOverride' \in FeedOverrides /\ rOverride' \in RapidOverrides
       /\ control' \in {"run", "hold", "end", "held"}
  BY <1>0, <1>1, <1>2 DEF Types
<1> QED
  BY <1>2, <1>7, <1>8, <1>9, <1>10, ReplanAllInv

LEMMA UnchangedInv ==
    ASSUME Inv, UNCHANGED <<plan, overrides, prep>>,
           control' = control \/ (control = "held" /\ control' = "run")
    PROVE  Inv'
<1>0. Types
  BY TypesAre DEF Inv
<1>1. PICK rest : Stopping(rest)
  BY DEF Inv, Stoppable
<1>2. UNCHANGED <<blocks, tail, head, planned, prevNominal, fOverride, rOverride,
                  loaded, partial, decelOvr, speed, exit>>
  BY DEF plan, overrides, prep
<1>3. Types'
  BY <1>0, <1>2 DEF Types
<1>4. Occupied'
  BY <1>2 DEF Inv, Occupied, Contents
<1>5. Stopping(rest)'
  BY <1>1, <1>2 DEF Stopping, Way, Stops
<1>6. ExitAgrees'
  BY <1>2 DEF Inv, Occupied, ExitAgrees, PlannedExit
<1> QED
  BY <1>3, <1>4, <1>5, <1>6, TypesAre DEF Inv, Stoppable

LEMMA StepInv == Inv /\ [Next]_vars => Inv'
<1> SUFFICES ASSUME Inv, [Next]_vars PROVE Inv'
  OBVIOUS
<1>1. CASE BufferLine
  BY <1>1, BufferLineInv
<1>2. CASE PrepareWithin
  BY <1>2, PrepareWithinInv
<1>3. CASE PrepareLast
  BY <1>3, PrepareLastInv
<1>4. CASE PrepareNothing
  BY <1>4, PrepareNothingInv
<1>5. CASE StartHold
  BY <1>5, StartHoldInv
<1>6. CASE HoldStop
  BY <1>6, HoldStopInv
<1>7. CASE Resume
  BY <1>7, UnchangedInv DEF Resume
<1>8. CASE Override
  BY <1>8, OverrideInv
<1>9. CASE Reset
  BY <1>9, ResetInv, OverrideAssumption DEF Reset
<1>10. CASE Flush
  <2>1. Types
    BY TypesAre DEF Inv
  <2>2. ResetPlan /\ fOverride' = fOverride /\ rOverride' = rOverride
    BY <1>10 DEF Flush
  <2>3. fOverride' \in FeedOverrides /\ rOverride' \in RapidOverrides
    BY <2>1, <2>2 DEF Types
  <2> QED
    BY <2>2, <2>3, ResetInv
<1>11. CASE UNCHANGED vars
  <2>1. UNCHANGED <<plan, overrides, prep>> /\ control' = control
    BY <1>11 DEF vars
  <2>2. control' = control \/ (control = "held" /\ control' = "run")
    BY <2>1
  <2> QED
    BY <2>1, <2>2, UnchangedInv, Zenon
<1> QED
  BY <1>1, <1>2, <1>3, <1>4, <1>5, <1>6, <1>7, <1>8, <1>9, <1>10, <1>11 DEF Next

\* The length of the path that is left, by the certificate.
LEMMA PathLeftIs ==
    ASSUME Inv, NEW rest, Stopping(rest)
    PROVE  PathLeft = rest[tail]
<1>0. Types
  BY TypesAre DEF Inv
<1>1. Count \in Slots /\ Count \in Nat /\ Ahead(tail, Count) = head /\ Ahead(tail, 0) = tail
      /\ Distance(tail, tail) = 0
  BY <1>0, Distances, RingAssumption DEF Count, Types, Slots
<1>2. /\ rest \in [Slots -> Nat] /\ rest[head] = 0
      /\ \A i \in In(tail, head) : rest[i] = blocks[i].length + rest[NextBlock(i)]
  BY DEF Stopping, Way
<1>3. \A k \in 1..Count : /\ k - 1 \in Slots /\ Ahead(tail, k - 1) \in In(tail, head)
                          /\ Ahead(tail, k - 1) \in Slots /\ Ahead(tail, k) \in Slots
                          /\ NextBlock(Ahead(tail, k - 1)) = Ahead(tail, k)
  <2> TAKE k \in 1..Count
  <2>1. k - 1 \in Slots /\ k \in Slots /\ (k - 1) + 1 = k /\ k - 1 < Count
    BY <1>1, RingAssumption DEF Slots
  <2>2. /\ Ahead(tail, k - 1) \in Slots /\ Distance(tail, Ahead(tail, k - 1)) = k - 1
        /\ Ahead(tail, k) \in Slots
        /\ NextBlock(Ahead(tail, k - 1)) = Ahead(tail, k)
    BY <1>0, <2>1, Places DEF Types
  <2> QED
    BY <2>1, <2>2 DEF In, Count
<1> DEFINE length(k) == blocks[Ahead(tail, k - 1)].length
           Fix(f) == f = [k \in 0..Count |-> IF k = 0 THEN 0 ELSE f[k - 1] + length(k)]
           step == [k \in 1..Count |-> [v \in Nat |-> v + length(k)]]
<1>4. \A k \in 1..Count : length(k) \in Nat
  BY <1>0, <1>3 DEF Types, Typed
<1>5. PathLeft = (CHOOSE f : Fix(f))[Count]
  BY DEF PathLeft
<1> HIDE DEF length
<1>6. \A k \in 1..Count : \A v \in Nat : step[k][v] \in Nat
  BY <1>4
<1>7. PICK f : Chain(Count, 0, step, f)
  <2> HIDE DEF step
  <2> QED
    BY <1>1, <1>6, ChainExists
<1>8. Fix(f)
  <2>1. f \in [0..Count -> Nat] /\ f[0] = 0
    BY <1>7 DEF Chain
  <2>2. ASSUME NEW k \in 0..Count, k # 0 PROVE f[k] = f[k - 1] + length(k)
    <3>1. k \in 1..Count /\ k - 1 \in 0..Count
      BY <1>1, <2>2
    <3>2. f[k] = step[k][f[k - 1]] /\ f[k - 1] \in Nat
      BY <1>7, <2>1, <3>1 DEF Chain
    <3>3. step[k][f[k - 1]] = f[k - 1] + length(k)
      BY <3>1, <3>2
    <3> HIDE DEF step
    <3> QED
      BY <3>2, <3>3
  <2> QED
    BY <2>1, <2>2
<1>9. PICK left : Fix(left) /\ PathLeft = left[Count]
  <2> HIDE DEF Fix
  <2> QED
    BY <1>5, <1>8
<1> DEFINE T == {k \in 0..Count : left[k] \in Nat /\ left[k] + rest[Ahead(tail, k)] = rest[tail]}
<1>10. 0 \in T
  BY <1>0, <1>1, <1>2, <1>9 DEF Types
<1>11. ASSUME NEW k \in 1..Count, k - 1 \in T PROVE k \in T
  <2>1. k \in 0..Count /\ k # 0
    BY <1>1
  <2>2. left[k] = left[k - 1] + length(k)
    BY <1>9, <2>1
  <2>3. rest[Ahead(tail, k - 1)] = length(k) + rest[Ahead(tail, k)]
    BY <1>2, <1>3 DEF length
  <2>4. rest[Ahead(tail, k)] \in Nat /\ length(k) \in Nat
    BY <1>2, <1>3, <1>4
  <2> HIDE DEF Fix
  <2> QED
    BY <1>11, <2>1, <2>2, <2>3, <2>4
<1>12. Count \in T
  <2>1. \A k \in 0..Count : k \in T
    <3> HIDE DEF T
    <3> QED
      BY <1>1, <1>10, <1>11, Upwards
  <2> HIDE DEF T
  <2> QED
    BY <1>1, <2>1
<1> QED
  BY <1>1, <1>2, <1>9, <1>12

LEMMA InvIsEnough == Inv => TypeOK /\ PlanFollowed
<1> SUFFICES ASSUME Inv PROVE PlanFollowed
  BY DEF Inv
<1>1. PICK rest : Stopping(rest)
  BY DEF Inv, Stoppable
<1>2. speed <= rest[tail] /\ PathLeft = rest[tail]
  BY <1>1, PathLeftIs DEF Stopping
<1> QED
  BY <1>2 DEF Inv, PlanFollowed, CanAlwaysStop

-----------------------------------------------------------------------------

\* The invariant behind what follows: types, a block under the tool that stays
\* in the planner, and a certificate that the tool can stop on the rest of the
\* path, which every call of planner_recalculate renews.
THEOREM InvHolds == Spec => []Inv
<1>1. Init => Inv
  BY InitInv
<1>2. Inv /\ [Next]_vars => Inv'
  BY StepInv
<1> QED
  BY <1>1, <1>2, PTL DEF Spec

\* Every variable of the planner and of the segment generator has its type:
\* no speed is negative and the pointers stay in the ring, for every ring,
\* motion, corner and override.
THEOREM TypesHold == Spec => []TypeOK
<1>1. Inv => TypeOK
  BY InvIsEnough
<1> QED
  BY <1>1, InvHolds, PTL

\* The profile being executed ends at the speed planned for the junction,
\* though the planner goes on adding blocks (planner.c:119-193), and the tool
\* can always stop on the path that is left: in motion, in a hold, and under
\* every sequence of overrides.
THEOREM PlanIsFollowed == Spec => []PlanFollowed
<1>1. Inv => PlanFollowed
  BY InvIsEnough
<1> QED
  BY <1>1, InvHolds, PTL

-----------------------------------------------------------------------------
(* Without overrides.  The plan as it is for the tool: the tail is entered *)
(* at the speed the tool has now.  The ring is planned from there: every   *)
(* block can slow down to the next, can be reached from the one before,    *)
(* and is entered as fast as the maximum, the block before or the next     *)
(* allows; the planned one as the maximum or the block before allow.       *)

NoOverrides == FeedOverrides = {Full} /\ RapidOverrides = {Full}

LimitOf(rate) ==
    LET n == Nominal([rate |-> rate], Full, Full) IN n * n

At(b, h, i) == IF i = h THEN 0 ELSE b[i].entry
Meets(b, h, i) == b[i].entry <= b[i].length + At(b, h, NextBlock(i))
Accelerated(b, i) == b[i].entry = b[PrevBlock(i)].entry + b[PrevBlock(i)].length
Reachable(b, i) == b[i].entry <= b[PrevBlock(i)].entry + b[PrevBlock(i)].length
Fastest(b, i) == b[i].entry = b[i].maxEntry \/ Accelerated(b, i)
Tight(b, h, i) ==
    Fastest(b, i) \/ b[i].entry = b[i].length + At(b, h, NextBlock(i))

Now == [blocks EXCEPT ![tail].entry = speed]
Later == Contents \ {tail}

\* Speeds are below the limits of the blocks on both sides.
Limited ==
    /\ head # tail => /\ prevNominal * prevNominal = LimitOf(blocks[PrevBlock(head)].rate)
                      /\ speed <= LimitOf(Tail.rate)
    /\ \A i \in Later : /\ blocks[i].entry <= blocks[i].maxEntry
                        /\ blocks[i].maxEntry <= LimitOf(blocks[i].rate)
                        /\ blocks[i].maxEntry <= LimitOf(blocks[PrevBlock(i)].rate)

\* The speed of the tool, the entry of the tail and the end of its profile.
SpeedIs ==
    /\ ~decelOvr
    /\ ~loaded /\ ~partial => exit = speed
    /\ head # tail /\ ~loaded => speed <= Tail.entry
    /\ ~loaded /\ (partial \/ (head # tail /\ control \in {"run", "held"})) => Tail.entry = speed
    /\ loaded /\ control = "hold" => exit = Most(speed - Tail.length, 0)
    /\ control = "end" => speed = 0 /\ (loaded \/ partial)

Feasibly == \A i \in Contents : Meets(Now, head, i)

Tightly ==
    control \in {"run", "held"} =>
      /\ \A i \in Later : Reachable(Now, i) /\ Tight(Now, head, i)
      /\ planned \in Later => Fastest(Now, planned)

Smooth == Limited /\ SpeedIs /\ Feasibly /\ Tightly

\* planner_recalculate on blocks of which each can slow down to the next: so
\* they still can, can be reached, and are entered as fast as possible.
LEMMA RecalculatedPlans ==
    ASSUME NEW b \in Typed, NEW h \in Slots, NEW p \in In(tail, h),
           tail \in Slots, speed \in Nat, loaded \in BOOLEAN,
           \A i \in In(tail, h) : b[i].length > 0,
           \A i \in In(tail, h) \ {tail} : b[i].entry <= b[i].maxEntry /\ Meets(b, h, i),
           NEW m, m = Distance(p, PrevBlock(h)), m # 0,
           NEW c, c = IF p = tail THEN UpdateTail(b) ELSE b,
           NEW new, new = Recalculated(b, h, p)
    PROVE  /\ new.told = (p = tail)
           /\ \A i \in In(tail, h) :
                Distance(tail, i) <= Distance(tail, p) => new.blocks[i] = c[i]
           /\ \A i \in In(tail, h) :
                Distance(tail, i) > Distance(tail, p) =>
                  /\ new.blocks[i].entry <= new.blocks[i].maxEntry
                  /\ Meets(new.blocks, h, i) /\ Reachable(new.blocks, i) /\ Tight(new.blocks, h, i)
           /\ new.planned \in In(tail, h)
           /\ new.planned = p \/ (Distance(tail, new.planned) > Distance(tail, p) /\ Fastest(new.blocks, new.planned))
           /\ NextBlock(p) \in In(tail, h)
           /\ \/ new.blocks[NextBlock(p)].entry >= b[NextBlock(p)].entry
              \/ new.blocks[NextBlock(p)].entry = c[p].entry + c[p].length
<1>0. p \in Slots /\ In(tail, h) \subseteq Slots
  BY DEF In
<1>1. /\ m \in Slots /\ m \in Nat \ {0} /\ c \in Typed /\ new.told = (p = tail)
      /\ \E w, e, q : Passed(c, p, m, new, w, e, q)
  BY <1>0, RecalculatedIs
<1>2. PICK w, e, q : Passed(c, p, m, new, w, e, q)
  BY <1>1
<1>3. /\ \A k \in 0..m : /\ k \in Slots /\ Ahead(p, k) \in In(tail, h) /\ Distance(p, Ahead(p, k)) = k
                         /\ k # 0 => Ahead(p, k) # tail
                         /\ k # m => NextBlock(Ahead(p, k)) = Ahead(p, k + 1)
      /\ NextBlock(Ahead(p, m)) = h /\ Ahead(p, 0) = p
      /\ \A i \in In(tail, h) : Distance(p, i) \in 1..m <=> Distance(tail, i) > Distance(tail, p)
  BY Seen
<1>4. \A k \in 0..m : Ahead(p, k) \in Slots /\ Ahead(p, k) # h
  BY <1>0, <1>3, InIs
<1>5. \A i \in Slots : /\ c[i].length = b[i].length /\ c[i].maxEntry = b[i].maxEntry
                       /\ i # tail => c[i] = b[i]
  BY <1>0, TailUpdated DEF UpdateTail, Typed
<1> DEFINE length == LengthAt(c, p, m)
           most == MostAt(c, p, m)
           old == OldAt(c, p, m)
<1>6. /\ Numbers(m, length) /\ Numbers(m, most) /\ Numbers(m, old)
      /\ \A k \in 0..m : /\ length[k] = c[Ahead(p, k)].length /\ most[k] = c[Ahead(p, k)].maxEntry
                         /\ old[k] = c[Ahead(p, k)].entry
  BY <1>0, <1>1, SeenTyped
<1>7. Wanted(m, length, most, old, w) /\ Entered(m, length, old, w, e)
  BY <1>2 DEF Passed
<1> HIDE DEF length, most, old
<1>8. Feasible(m, length, most, old)
  <2>1. ASSUME NEW k \in 1..m
        PROVE  /\ old[k] <= most[k]
               /\ old[k] <= length[k] + (IF k = m THEN 0 ELSE old[k + 1])
    <3>1. k \in 0..m /\ k # 0 /\ (k # m => k + 1 \in 0..m /\ k + 1 # 0)
      BY <1>1
    <3>2. Ahead(p, k) \in In(tail, h) \ {tail} /\ Ahead(p, k) \in Slots
      BY <1>3, <1>4, <3>1
    <3>3. b[Ahead(p, k)].entry <= b[Ahead(p, k)].maxEntry
          /\ b[Ahead(p, k)].entry <= b[Ahead(p, k)].length + At(b, h, NextBlock(Ahead(p, k)))
      BY <3>2 DEF Meets
    <3>4. /\ length[k] = b[Ahead(p, k)].length /\ most[k] = b[Ahead(p, k)].maxEntry
          /\ old[k] = b[Ahead(p, k)].entry
      BY <1>5, <1>6, <3>1, <3>2
    <3>5. CASE k = m
      BY <1>3, <3>3, <3>4, <3>5 DEF At
    <3>6. CASE k # m
      <4>1. /\ NextBlock(Ahead(p, k)) = Ahead(p, k + 1) /\ Ahead(p, k + 1) # h
            /\ Ahead(p, k + 1) \in Slots /\ Ahead(p, k + 1) # tail
        BY <1>3, <1>4, <3>1, <3>6
      <4>2. old[k + 1] = b[Ahead(p, k + 1)].entry
        BY <1>5, <1>6, <3>1, <3>6, <4>1
      <4> QED
        BY <3>3, <3>4, <3>6, <4>1, <4>2 DEF At
    <3> QED
      BY <3>5, <3>6
  <2>2. m \in 1..m /\ old[m] <= length[m]
    <3>1. m \in 1..m /\ m \in 0..m
      BY <1>1
    <3>2. old[m] <= length[m] + 0 /\ length[m] \in Nat
      BY <1>6, <2>1, <3>1 DEF Numbers
    <3> QED
      BY <3>1, <3>2
  <2>3. \A k \in 1..m - 1 : k \in 1..m /\ k # m
    BY <1>1
  <2> QED
    BY <2>1, <2>2, <2>3 DEF Feasible
<1>9. /\ \A k \in 1..m : e[k] <= most[k] /\ e[k] <= e[k - 1] + length[k - 1]
      /\ e[1] >= old[1] \/ e[1] = e[0] + length[0]
      /\ e[m] <= length[m]
      /\ e[m] = most[m] \/ e[m] = e[m - 1] + length[m - 1] \/ e[m] = length[m]
      /\ \A k \in 1..m - 1 :
           /\ e[k] <= length[k] + e[k + 1]
           /\ e[k] = most[k] \/ e[k] = e[k - 1] + length[k - 1] \/ e[k] = length[k] + e[k + 1]
  <2>1. \A k \in 0..m : length[k] > 0
    BY <1>3, <1>4, <1>5, <1>6
  <2> QED
    BY <1>1, <1>6, <1>7, <1>8, <2>1, PassesPlan
<1>10. ASSUME NEW k \in 0..m
       PROVE  /\ e[k] \in Nat
              /\ new.blocks[Ahead(p, k)].entry = e[k]
              /\ new.blocks[Ahead(p, k)].length = length[k] /\ length[k] \in Nat
              /\ new.blocks[Ahead(p, k)].maxEntry = most[k]
  <2>1. e[k] \in Nat /\ e[0] = old[0] /\ length[k] \in Nat
    BY <1>6, <1>7 DEF Entered, Numbers
  <2>2. Distance(p, Ahead(p, k)) = k /\ Ahead(p, k) \in Slots /\ 0 \in 0..m /\ (k # 0 => k \in 1..m)
        /\ 0 \notin 1..m
    BY <1>1, <1>3, <1>4
  <2>3. CASE k = 0
    BY <1>2, <1>6, <2>1, <2>2, <2>3 DEF Passed
  <2>4. CASE k # 0
    <3>1. new.blocks[Ahead(p, k)] = [c[Ahead(p, k)] EXCEPT !.entry = e[k]]
      BY <1>2, <2>2, <2>4 DEF Passed
    <3>2. c[Ahead(p, k)] \in [entry : Nat, maxEntry : Nat, junction : Nat, length : Nat,
                              rate : FeedRates \cup {Rapid}]
      BY <1>1, <2>2 DEF Typed
    <3> QED
      BY <1>6, <2>1, <3>1, <3>2
  <2> QED
    BY <2>3, <2>4
<1>11. ASSUME NEW k \in 1..m
       PROVE  /\ k \in 0..m /\ k - 1 \in 0..m
              /\ PrevBlock(Ahead(p, k)) = Ahead(p, k - 1)
              /\ At(new.blocks, h, NextBlock(Ahead(p, k))) = IF k = m THEN 0 ELSE e[k + 1]
  <2>1. k \in 0..m /\ k - 1 \in 0..m /\ k - 1 # m /\ (k - 1) + 1 = k /\ (k # m => k + 1 \in 0..m)
    BY <1>1
  <2>2. NextBlock(Ahead(p, k - 1)) = Ahead(p, k)
    BY <1>3, <2>1
  <2>3. PrevBlock(Ahead(p, k)) = Ahead(p, k - 1)
    BY <1>4, <2>1, <2>2, Neighbours
  <2>4. At(new.blocks, h, NextBlock(Ahead(p, k))) = IF k = m THEN 0 ELSE e[k + 1]
    BY <1>3, <1>4, <1>10, <2>1 DEF At
  <2> QED
    BY <2>1, <2>3, <2>4
<1>12. ASSUME NEW k \in 1..m
       PROVE  LET i == Ahead(p, k)
              IN  /\ new.blocks[i].entry <= new.blocks[i].maxEntry
                  /\ Meets(new.blocks, h, i) /\ Reachable(new.blocks, i) /\ Tight(new.blocks, h, i)
                  /\ e[k] = most[k] \/ e[k] = e[k - 1] + length[k - 1] => Fastest(new.blocks, i)
  <2> DEFINE i == Ahead(p, k)
             j == PrevBlock(i)
             a == At(new.blocks, h, NextBlock(i))
  <2>1. k \in 0..m /\ k - 1 \in 0..m /\ j = Ahead(p, k - 1) /\ a = IF k = m THEN 0 ELSE e[k + 1]
    BY <1>11
  <2>2. /\ new.blocks[i].entry = e[k] /\ new.blocks[i].length = length[k]
        /\ new.blocks[i].maxEntry = most[k] /\ new.blocks[j].entry = e[k - 1]
        /\ new.blocks[j].length = length[k - 1] /\ length[k] \in Nat
    BY <1>10, <2>1
  <2>3. e[k] <= most[k] /\ e[k] <= e[k - 1] + length[k - 1]
    BY <1>9
  <2>4. /\ e[k] <= length[k] + a
        /\ e[k] = most[k] \/ e[k] = e[k - 1] + length[k - 1] \/ e[k] = length[k] + a
    <3>1. CASE k = m
      BY <1>9, <2>1, <2>2, <3>1
    <3>2. CASE k # m
      <4>1. k \in 1..m - 1
        BY <1>1, <3>2
      <4> QED
        BY <1>9, <2>1, <3>2, <4>1
    <3> QED
      BY <3>1, <3>2
  <2> QED
    BY <2>2, <2>3, <2>4 DEF Meets, Reachable, Tight, Fastest, Accelerated
<1>13. ASSUME NEW i \in In(tail, h), Distance(tail, i) > Distance(tail, p)
       PROVE  Distance(p, i) \in 1..m /\ Ahead(p, Distance(p, i)) = i
  BY <1>0, <1>3, <1>13, Distances
<1>14. ASSUME NEW i \in In(tail, h), Distance(tail, i) <= Distance(tail, p)
       PROVE  new.blocks[i] = c[i]
  <2>1. Distance(tail, i) \in Slots /\ Distance(tail, p) \in Slots /\ i \in Slots
    BY <1>0, Distances
  <2>2. ~(Distance(tail, i) > Distance(tail, p))
    BY <1>14, <2>1, RingAssumption DEF Slots
  <2>3. Distance(p, i) \notin 1..m
    BY <1>3, <2>2
  <2> QED
    BY <1>2, <2>1, <2>3 DEF Passed
<1>15. /\ new.planned \in In(tail, h)
       /\ new.planned = p \/ (Distance(tail, new.planned) > Distance(tail, p) /\ Fastest(new.blocks, new.planned))
  <2>1. q \in 0..m /\ new.planned = Ahead(p, q) /\ (q # 0 => e[q] < w[q] \/ e[q] = most[q])
    BY <1>2 DEF Passed, most
  <2>2. CASE q = 0
    BY <1>3, <2>1, <2>2
  <2>3. CASE q # 0
    <3>1. q \in 1..m /\ Distance(p, Ahead(p, q)) = q /\ Ahead(p, q) \in In(tail, h)
      BY <1>1, <1>3, <2>1, <2>3
    <3>2. e[q] < w[q] => e[q] = e[q - 1] + length[q - 1]
      <4>1. \A k \in 1..m : w[k] \in Nat
        BY <1>7 DEF Wanted
      <4>2. e[q] \in Nat /\ Lowered(e[q], w[q], e[q - 1], length[q - 1])
        BY <1>1, <1>6, <1>7, <3>1, <4>1, EnteredIs
      <4> QED
        BY <3>1, <4>1, <4>2 DEF Lowered
    <3>3. Fastest(new.blocks, Ahead(p, q))
      BY <1>12, <2>1, <2>3, <3>1, <3>2
    <3>4. Distance(tail, Ahead(p, q)) > Distance(tail, p)
      BY <1>3, <3>1
    <3> QED
      BY <2>1, <3>1, <3>3, <3>4
  <2> QED
    BY <2>2, <2>3
<1>16. /\ NextBlock(p) \in In(tail, h)
       /\ \/ new.blocks[NextBlock(p)].entry >= b[NextBlock(p)].entry
          \/ new.blocks[NextBlock(p)].entry = c[p].entry + c[p].length
  <2>1. 0 \in 0..m /\ 0 # m /\ 0 + 1 = 1 /\ 1 \in 0..m /\ 1 # 0
    BY <1>1
  <2>2. NextBlock(p) = Ahead(p, 1) /\ Ahead(p, 1) \in In(tail, h) /\ Ahead(p, 1) # tail /\ Ahead(p, 0) = p
        /\ Ahead(p, 1) \in Slots
    BY <1>3, <1>4, <2>1
  <2>3. /\ new.blocks[Ahead(p, 1)].entry = e[1] /\ e[0] = old[0]
        /\ old[0] = c[p].entry /\ length[0] = c[p].length /\ old[1] = c[Ahead(p, 1)].entry
    BY <1>6, <1>7, <1>10, <2>1, <2>2 DEF Entered
  <2>4. c[Ahead(p, 1)] = b[Ahead(p, 1)]
    BY <1>5, <2>2
  <2> QED
    BY <1>9, <2>2, <2>3, <2>4
<1>17. \A i \in In(tail, h) :
         Distance(tail, i) > Distance(tail, p) =>
           /\ new.blocks[i].entry <= new.blocks[i].maxEntry
           /\ Meets(new.blocks, h, i) /\ Reachable(new.blocks, i) /\ Tight(new.blocks, h, i)
  BY <1>12, <1>13
<1> QED
  BY <1>1, <1>14, <1>15, <1>16, <1>17

LEMMA LimitTyped ==
    ASSUME NEW rate \in FeedRates \cup {Rapid}
    PROVE  LimitOf(rate) \in Nat
<1> DEFINE n == Nominal([rate |-> rate], Full, Full)
<1>1. n \in Nat
  <2>1. [rate |-> rate].rate = rate
    OBVIOUS
  <2> QED
    BY <2>1, NominalTyped, OverrideAssumption
<1> HIDE DEF n
<1>2. n * n \in Nat
  BY <1>1, Products
<1> QED
  BY <1>2 DEF LimitOf, n

LEMMA NominalIs ==
    ASSUME NoOverrides, Types
    PROVE  /\ fOverride = Full /\ rOverride = Full
           /\ NominalSqr = LimitOf(Tail.rate)
           /\ \A i \in Slots : LimitOf(blocks[i].rate) \in Nat
<1>1. fOverride = Full /\ rOverride = Full
  BY DEF NoOverrides, Types
<1>2. Nominal(Tail, Full, Full) = Nominal([rate |-> Tail.rate], Full, Full)
  BY DEF Nominal
<1>3. NominalSqr = LimitOf(Tail.rate)
  BY <1>1, <1>2 DEF NominalSqr, LimitOf
<1>4. \A i \in Slots : LimitOf(blocks[i].rate) \in Nat
  BY LimitTyped DEF Types, Typed
<1> QED
  BY <1>1, <1>3, <1>4

LEMMA NowIs ==
    /\ Types => /\ Now \in Typed /\ Now[tail].entry = speed /\ Now[tail].length = blocks[tail].length
                /\ \A i \in Slots : i # tail => Now[i] = blocks[i]
                /\ \A i \in Slots : /\ Now[i].length = blocks[i].length
                                    /\ Now[i].maxEntry = blocks[i].maxEntry
                                    /\ Now[i].rate = blocks[i].rate
    /\ Types' => /\ Now' \in Typed /\ Now'[tail'].entry = speed' /\ Now'[tail'].length = blocks'[tail'].length
                 /\ \A i \in Slots : i # tail' => Now'[i] = blocks'[i]
                 /\ \A i \in Slots : /\ Now'[i].length = blocks'[i].length
                                     /\ Now'[i].maxEntry = blocks'[i].maxEntry
                                     /\ Now'[i].rate = blocks'[i].rate
BY DEF Types, Typed, Now

\* The slots of the contents and their neighbours.
LEMMA ContentsAre ==
    ASSUME Types
    PROVE  /\ tail \in Slots /\ head \in Slots /\ Contents \subseteq Slots
           /\ head \notin Contents /\ (tail \in Contents <=> tail # head)
           /\ Later \subseteq Contents /\ tail \notin Later /\ (head = tail => Contents = {})
           /\ Contents \subseteq Later \cup {tail}
           /\ \A i \in Contents : /\ NextBlock(i) \in Slots
                                  /\ NextBlock(i) = head \/ NextBlock(i) \in Later
                                  /\ NextBlock(i) # tail
                                  /\ PrevBlock(NextBlock(i)) = i
           /\ \A i \in Later : /\ PrevBlock(i) \in Contents /\ NextBlock(PrevBlock(i)) = i
                               /\ (PrevBlock(i) = tail <=> i = NextBlock(tail))
<1>1. tail \in Slots /\ head \in Slots
  BY DEF Types
<1>2. /\ Contents \subseteq Slots /\ head \notin Contents /\ (tail \in Contents <=> tail # head)
      /\ (head = tail => Contents = {})
      /\ \A i \in Contents : /\ NextBlock(i) = head \/ NextBlock(i) \in Contents
                             /\ NextBlock(i) # tail \/ head = tail
                             /\ i # tail => PrevBlock(i) \in Contents
  BY <1>1, InIs DEF Contents
<1>3. \A i \in Slots : /\ NextBlock(i) \in Slots /\ PrevBlock(i) \in Slots
                       /\ NextBlock(PrevBlock(i)) = i /\ PrevBlock(NextBlock(i)) = i
  BY Neighbours
<1>4. Later \subseteq Contents /\ tail \notin Later /\ Contents \subseteq Later \cup {tail}
  BY DEF Later
<1>5. ASSUME NEW i \in Contents
      PROVE  /\ NextBlock(i) = head \/ NextBlock(i) \in Later
             /\ NextBlock(i) # tail
  BY <1>2, <1>4 DEF Later
<1>6. ASSUME NEW i \in Later
      PROVE  /\ PrevBlock(i) \in Contents /\ NextBlock(PrevBlock(i)) = i
             /\ (PrevBlock(i) = tail <=> i = NextBlock(tail))
  BY <1>1, <1>2, <1>3, <1>4
<1> QED
  BY <1>1, <1>2, <1>3, <1>4, <1>5, <1>6

\* Nothing moves on an empty ring.
LEMMA EmptyRests ==
    ASSUME Inv, head = tail
    PROVE  speed = 0 /\ exit = 0 /\ ~loaded /\ ~partial
<1>1. Types
  BY TypesAre DEF Inv
<1>2. ~loaded /\ ~partial
  BY DEF Inv, Occupied
<1>3. PICK rest : Stopping(rest)
  BY DEF Inv, Stoppable
<1>4. speed <= 0 /\ exit <= 0
  BY <1>2, <1>3 DEF Stopping, Way
<1> QED
  BY <1>1, <1>2, <1>4 DEF Types

LEMMA SpeedLoaded ==
    ASSUME Inv, SpeedIs, CanPrepare
    PROVE  LoadSpeed = speed
BY DEF CanPrepare, SpeedIs, LoadSpeed, Holding

\* One unit of the tail, from speed v to speed s, without overrides.
LEMMA SmoothPrepared ==
    ASSUME Inv, Smooth, NoOverrides, CanPrepare, ~(Holding /\ LoadSpeed = 0),
           NEW s, s = Advance(LoadSpeed, LoadExit(LoadSpeed)),
           NEW x, x = LoadExit(LoadSpeed),
           NEW a, a = At(blocks, head, NextBlock(tail))
    PROVE  /\ LoadSpeed = speed /\ speed \in Nat /\ ~SlowingThrough(LoadSpeed)
           /\ a \in Nat /\ s \in Nat /\ x \in Nat /\ Tail.length \in Nat \ {0}
           /\ NextBlock(tail) # head =>
                a = blocks[NextBlock(tail)].entry /\ a <= blocks[NextBlock(tail)].maxEntry
           /\ s - speed \in -1..1
           /\ s <= LimitOf(Tail.rate)
           /\ s <= Tail.length - 1 + a
           /\ control = "run" =>
                /\ a <= s + Tail.length - 1
                /\ a = speed + Tail.length => a = s + Tail.length - 1
                /\ Tail.length = 1 => s = a /\ x = a
           /\ Holding => x = Most(s - (Tail.length - 1), 0) /\ s + 1 = speed
<1>0. Types
  BY TypesAre DEF Inv
<1>1. PICK rest : Stopping(rest)
  BY DEF Inv, Stoppable
<1>2. /\ tail # head /\ Tail.length \in Nat \ {0} /\ NominalSqr \in Nat
      /\ x \in Nat /\ s \in Nat
  BY <1>1, PreparedIs
<1>3. LoadSpeed = speed /\ speed \in Nat
  BY <1>0, SpeedLoaded DEF Smooth, Types
<1>4. NominalSqr = LimitOf(Tail.rate) /\ speed <= NominalSqr
  BY <1>0, <1>2, NominalIs DEF Smooth, Limited
<1>5. ~SlowingThrough(LoadSpeed)
  BY <1>2, <1>3, <1>4 DEF SlowingThrough
<1>6. /\ tail \in Slots /\ tail \in Contents /\ NextBlock(tail) \in Slots /\ NextBlock(tail) # tail
      /\ NextBlock(tail) = head \/ NextBlock(tail) \in Later
      /\ PrevBlock(NextBlock(tail)) = tail
  BY <1>0, <1>2, ContentsAre
<1>7. Now[tail].entry = speed /\ Now[tail].length = Tail.length
      /\ Now[NextBlock(tail)] = blocks[NextBlock(tail)]
  BY <1>0, <1>6, NowIs DEF Tail
<1>8. /\ a \in Nat /\ a = PlannedExit
      /\ NextBlock(tail) # head =>
           a = blocks[NextBlock(tail)].entry /\ a <= blocks[NextBlock(tail)].maxEntry
      /\ a <= NominalSqr
  <2>1. CASE NextBlock(tail) = head
    BY <1>2, <2>1 DEF At, PlannedExit
  <2>2. CASE NextBlock(tail) # head
    <3>1. /\ blocks[NextBlock(tail)].entry <= blocks[NextBlock(tail)].maxEntry
          /\ blocks[NextBlock(tail)].maxEntry <= NominalSqr
      BY <1>4, <1>6, <2>2 DEF Smooth, Limited, Tail
    <3>2. blocks[NextBlock(tail)].entry \in Nat /\ blocks[NextBlock(tail)].maxEntry \in Nat
      BY <1>0, <1>6 DEF Types, Typed
    <3> QED
      BY <1>2, <2>2, <3>1, <3>2 DEF At, PlannedExit
  <2> QED
    BY <2>1, <2>2
<1>9. speed <= Tail.length + a
  <2>1. Meets(Now, head, tail)
    BY <1>6 DEF Smooth, Feasibly
  <2> QED
    BY <1>7, <2>1 DEF Meets, At
<1>10. control = "run" => a <= speed + Tail.length
  <2>1. CASE NextBlock(tail) = head
    BY <1>2, <1>3, <2>1 DEF At
  <2>2. CASE NextBlock(tail) # head
    <3>1. control = "run" => Reachable(Now, NextBlock(tail))
      BY <1>6, <2>2 DEF Smooth, Tightly
    <3> QED
      BY <1>6, <1>7, <1>8, <2>2, <3>1 DEF Reachable
  <2> QED
    BY <2>1, <2>2
<1>11. control = "run" => ~Holding /\ x = a
  <2> SUFFICES ASSUME control = "run" PROVE x = a /\ ~Holding
    OBVIOUS
  <2>1. ~Holding
    BY DEF Holding
  <2>2. CASE loaded
    <3>1. x = exit
      BY <2>2 DEF LoadExit
    <3>2. ~decelOvr
      BY DEF Smooth, SpeedIs
    <3>3. exit = PlannedExit
      BY <2>2, <3>2 DEF Inv, ExitAgrees
    <3> QED
      BY <1>8, <2>1, <3>1, <3>3
  <2>3. CASE ~loaded
    BY <1>5, <1>8, <2>1, <2>3 DEF LoadExit
  <2>4. loaded \in BOOLEAN
    BY <1>0 DEF Types
  <2> HIDE DEF Holding
  <2> QED
    BY <2>1, <2>2, <2>3, <2>4
<1>12. Holding => x = Most(speed - Tail.length, 0) /\ speed # 0
  BY <1>3 DEF LoadExit, Holding, Smooth, SpeedIs
<1>13. control = "run" \/ Holding
  BY DEF CanPrepare, Holding
<1>14. PICK length : length = Tail.length
  OBVIOUS
<1>15. s = IF Holding THEN speed - 1
           ELSE IF length - 1 = 0 THEN x
           ELSE IF speed > NominalSqr THEN speed - 1
           ELSE IF speed < NominalSqr /\ speed < x + (length - 1) THEN speed + 1
           ELSE IF speed <= x + (length - 1) THEN speed
           ELSE speed - 1
  BY <1>3, <1>14 DEF Advance
<1> HIDE DEF Holding
<1>16. CASE Holding
  <2>1. control # "run"
    BY <1>16 DEF Holding
  <2>2. s = speed - 1 /\ x = Most(speed - length, 0) /\ speed # 0
    BY <1>12, <1>14, <1>15, <1>16
  <2>3. /\ s - speed \in -1..1 /\ s <= NominalSqr /\ s <= length - 1 + a
        /\ x = Most(s - (length - 1), 0) /\ s + 1 = speed
    BY <1>2, <1>3, <1>4, <1>8, <1>9, <1>14, <2>2 DEF Most
  <2> QED
    BY <1>2, <1>3, <1>4, <1>5, <1>8, <1>14, <2>1, <2>3
<1>17. CASE ~Holding
  <2>1. control = "run" /\ x = a /\ a <= speed + length
    BY <1>10, <1>11, <1>13, <1>14, <1>17
  <2>2. /\ s - speed \in -1..1 /\ s <= NominalSqr /\ s <= length - 1 + a
        /\ a <= s + length - 1
        /\ a = speed + length => a = s + length - 1
        /\ length = 1 => s = a /\ x = a
    BY <1>2, <1>3, <1>4, <1>8, <1>9, <1>14, <1>15, <1>17, <2>1
  <2> QED
    BY <1>2, <1>3, <1>4, <1>5, <1>8, <1>14, <1>17, <2>2
<1> QED
  BY <1>16, <1>17

\* Where the plan for the tool is as it was, it is still good.
LEMMA SameNow ==
    ASSUME Inv, Smooth, Types', tail' = tail, head' = head, planned' = planned,
           \A i \in Slots : /\ blocks'[i].length = blocks[i].length
                            /\ blocks'[i].maxEntry = blocks[i].maxEntry
                            /\ blocks'[i].rate = blocks[i].rate
                            /\ i # tail => blocks'[i].entry = blocks[i].entry,
           speed' = speed, prevNominal' = prevNominal,
           control' \in {"run", "held"} => control \in {"run", "held"}
    PROVE  Limited' /\ Feasibly' /\ Tightly'
<1>0. Types
  BY TypesAre DEF Inv
<1>1. /\ tail \in Slots /\ head \in Slots /\ Contents \subseteq Slots
      /\ head \notin Contents /\ (tail \in Contents <=> tail # head)
      /\ Later \subseteq Contents /\ tail \notin Later
      /\ \A i \in Contents : NextBlock(i) \in Slots
      /\ \A i \in Later : PrevBlock(i) \in Contents
      /\ PrevBlock(head) \in Slots
  BY <1>0, ContentsAre, Neighbours
<1>2. Contents' = Contents /\ Later' = Later
  BY DEF Contents, Later
<1>3. \A i \in Slots : /\ Now'[i].length = Now[i].length
                       /\ Now'[i].maxEntry = Now[i].maxEntry
                       /\ Now'[i].entry = Now[i].entry
  BY <1>0, NowIs
<1>4. Limited'
  <2>1. \A i \in Later : blocks'[i].entry = blocks[i].entry
    BY <1>1
  <2>2. Tail'.rate = Tail.rate
    BY <1>1 DEF Tail
  <2> QED
    BY <1>1, <1>2, <2>1, <2>2 DEF Smooth, Limited
<1>5. Feasibly'
  BY <1>1, <1>2, <1>3 DEF Smooth, Feasibly, Meets, At
<1>6. Tightly'
  <2>1. ASSUME NEW i \in Later
        PROVE  /\ Reachable(Now, i) => Reachable(Now', i)
               /\ Fastest(Now, i) => Fastest(Now', i)
               /\ Tight(Now, head, i) => Tight(Now', head, i)
    BY <1>1, <1>3 DEF Reachable, Fastest, Accelerated, Tight, At
  <2> QED
    BY <1>2, <2>1 DEF Smooth, Tightly
<1> QED
  BY <1>4, <1>5, <1>6

LEMMA EmptySmooth ==
    ASSUME Types', head' = tail', ~decelOvr', ~loaded', ~partial', exit' = speed', control' # "end"
    PROVE  Smooth'
<1>1. Contents' = {} /\ Later' = {}
  <2>1. In(tail', head') = {}
    BY InIs DEF Types
  <2> QED
    BY <2>1 DEF Contents, Later
<1>2. Limited' /\ Feasibly' /\ Tightly' /\ SpeedIs'
  BY <1>1 DEF Limited, Feasibly, Tightly, SpeedIs
<1> QED
  BY <1>2 DEF Smooth

LEMMA PrepareNothingSmooth ==
    ASSUME Inv, Smooth, NoOverrides, PrepareNothing, Inv'
    PROVE  Smooth'
<1>0. Types /\ Types'
  BY TypesAre DEF Inv
<1>1. PICK rest : Stopping(rest)
  BY DEF Inv, Stoppable
<1>2. /\ Holding /\ Load(0, 0) /\ speed' = 0 /\ blocks' = TailLeft(0, Tail.length)
      /\ loaded' = TRUE /\ control' = "end" /\ LoadSpeed = 0 /\ CanPrepare
      /\ tail' = tail /\ head' = head /\ planned' = planned /\ prevNominal' = prevNominal
  BY DEF PrepareNothing, overrides
<1>3. tail # head /\ Tail.length \in Nat
  BY <1>1, <1>2, PreparedIs
<1>4. speed = 0
  BY <1>2, SpeedLoaded DEF Smooth
<1>5. /\ blocks'[tail].length = Tail.length
      /\ blocks'[tail].maxEntry = blocks[tail].maxEntry /\ blocks'[tail].rate = blocks[tail].rate
      /\ \A i \in Slots : i # tail => blocks'[i] = blocks[i]
  BY <1>0, <1>2, <1>3, TailLeftIs DEF Types
<1>6. Limited' /\ Feasibly' /\ Tightly'
  <2>1. \A i \in Slots : /\ blocks'[i].length = blocks[i].length
                         /\ blocks'[i].maxEntry = blocks[i].maxEntry
                         /\ blocks'[i].rate = blocks[i].rate
                         /\ i # tail => blocks'[i].entry = blocks[i].entry
    BY <1>5 DEF Tail
  <2> QED
    BY <1>0, <1>2, <1>4, <2>1, SameNow
<1>7. SpeedIs'
  <2>1. ~decelOvr'
    BY <1>2 DEF Load, Smooth, SpeedIs
  <2> QED
    BY <1>2, <1>3, <2>1 DEF SpeedIs
<1> QED
  BY <1>6, <1>7 DEF Smooth

LEMMA StartHoldSmooth ==
    ASSUME Inv, Smooth, StartHold, Inv'
    PROVE  Smooth'
<1>0. Types /\ Types'
  BY TypesAre DEF Inv
<1>1. /\ loaded' = FALSE /\ partial' = (partial \/ loaded) /\ head # tail /\ control = "run"
      /\ blocks' = UpdateTail(blocks) /\ control' = "hold"
      /\ UNCHANGED <<decelOvr, speed, exit, tail, head, planned, prevNominal>>
  BY DEF StartHold, ProfileDropped, overrides
<1>2. \A i \in Slots : /\ blocks'[i].length = blocks[i].length
                       /\ blocks'[i].maxEntry = blocks[i].maxEntry
                       /\ blocks'[i].rate = blocks[i].rate
                       /\ blocks'[i].entry = IF loaded /\ i = tail THEN speed ELSE blocks[i].entry
  BY <1>0, <1>1, TailUpdated DEF Types
<1>3. Limited' /\ Feasibly' /\ Tightly'
  BY <1>0, <1>1, <1>2, SameNow
<1>4. SpeedIs'
  <2>1. blocks'[tail].entry = IF loaded THEN speed ELSE Tail.entry
    BY <1>0, <1>2 DEF Types, Tail
  <2>2. Tail'.entry = IF loaded THEN speed ELSE Tail.entry
    BY <1>1, <2>1 DEF Tail
  <2>3. loaded \in BOOLEAN /\ partial \in BOOLEAN /\ speed \in Nat
    BY <1>0 DEF Types
  <2>4. ~loaded => Tail.entry = speed
    BY <1>1 DEF Smooth, SpeedIs
  <2>5. ~decelOvr /\ (~loaded /\ ~partial => exit = speed)
    BY DEF Smooth, SpeedIs
  <2>6. Tail'.entry = speed'
    BY <1>1, <2>2, <2>4
  <2> QED
    BY <1>1, <2>3, <2>5, <2>6 DEF SpeedIs
<1> QED
  BY <1>3, <1>4 DEF Smooth

LEMMA ResumeSmooth ==
    ASSUME Inv, Smooth, Resume \/ UNCHANGED vars, Inv'
    PROVE  Smooth'
<1>0. Types /\ Types'
  BY TypesAre DEF Inv
<1>1. /\ UNCHANGED <<blocks, tail, head, planned, prevNominal, loaded, partial, decelOvr, speed, exit>>
      /\ control' = control \/ (control = "held" /\ control' = "run")
  BY DEF Resume, vars, plan, overrides, prep
<1>2. Limited' /\ Feasibly' /\ Tightly'
  BY <1>0, <1>1, SameNow
<1>3. SpeedIs'
  <2>1. control = "held" => ~loaded
    BY DEF Inv, Occupied
  <2>2. Tail' = Tail
    BY <1>1 DEF Tail
  <2> QED
    BY <1>1, <2>1, <2>2 DEF Smooth, SpeedIs
<1> QED
  BY <1>2, <1>3 DEF Smooth

LEMMA PrepareWithinSmooth ==
    ASSUME Inv, Smooth, NoOverrides, PrepareWithin, Inv'
    PROVE  Smooth'
<1>0. Types /\ Types'
  BY TypesAre DEF Inv
<1> DEFINE s == Advance(LoadSpeed, LoadExit(LoadSpeed))
           x == LoadExit(LoadSpeed)
           a == At(blocks, head, NextBlock(tail))
<1>1. /\ Tail.length > 1 /\ ~(Holding /\ LoadSpeed = 0) /\ Load(LoadSpeed, x) /\ CanPrepare
      /\ speed' = s
      /\ blocks' = TailLeft(LoadSpeed, Tail.length - 1)
      /\ loaded' = TRUE
      /\ control' = (IF Holding /\ speed' = 0 THEN "end" ELSE control)
      /\ tail' = tail /\ head' = head /\ planned' = planned /\ prevNominal' = prevNominal
  BY DEF PrepareWithin, overrides
<1>2. /\ LoadSpeed = speed /\ speed \in Nat /\ ~SlowingThrough(LoadSpeed)
      /\ a \in Nat /\ s \in Nat /\ x \in Nat /\ Tail.length \in Nat \ {0}
      /\ NextBlock(tail) # head => a = blocks[NextBlock(tail)].entry
      /\ s <= LimitOf(Tail.rate)
      /\ s <= Tail.length - 1 + a
      /\ control = "run" =>
           /\ a <= s + Tail.length - 1
           /\ a = speed + Tail.length => a = s + Tail.length - 1
      /\ Holding => x = Most(s - (Tail.length - 1), 0) /\ s + 1 = speed
  BY <1>1, SmoothPrepared
<1> HIDE DEF s, x, a
<1>3. exit' = x /\ decelOvr' = FALSE /\ partial' = FALSE
  <2>1. /\ exit' = x /\ partial' = FALSE
        /\ decelOvr' = IF loaded THEN decelOvr ELSE ~Holding /\ SlowingThrough(LoadSpeed)
    BY <1>1 DEF Load
  <2>2. decelOvr = FALSE
    BY <1>0 DEF Smooth, SpeedIs, Types
  <2>3. CASE loaded
    BY <2>1, <2>2, <2>3
  <2>4. CASE ~loaded
    <3>1. decelOvr' = (~Holding /\ SlowingThrough(LoadSpeed))
      BY <2>1, <2>4
    <3> QED
      BY <1>2, <2>1, <3>1
  <2> QED
    BY <2>3, <2>4
<1>4. /\ tail \in Slots /\ head \in Slots /\ Contents \subseteq Slots /\ tail # head
      /\ head \notin Contents /\ tail \in Contents
      /\ Later \subseteq Contents /\ tail \notin Later /\ Contents \subseteq Later \cup {tail}
      /\ \A i \in Contents : NextBlock(i) \in Slots /\ NextBlock(i) # tail
      /\ \A i \in Later : /\ PrevBlock(i) \in Contents
                          /\ (PrevBlock(i) = tail <=> i = NextBlock(tail))
      /\ PrevBlock(head) \in Slots
  <2>1. tail # head
    BY <1>1 DEF CanPrepare
  <2> QED
    BY <1>0, <2>1, ContentsAre, Neighbours
<1>5. Contents' = Contents /\ Later' = Later
  BY <1>1 DEF Contents, Later
<1>6. /\ blocks'[tail].length = Tail.length - 1 /\ blocks'[tail].rate = Tail.rate
      /\ \A i \in Slots : i # tail => blocks'[i] = blocks[i]
  <2>1. Tail.length - 1 \in Nat
    BY <1>2
  <2> QED
    BY <1>0, <1>1, <1>2, <2>1, TailLeftIs DEF Types, Tail
<1>7. \A i \in Slots : blocks'[i].rate = blocks[i].rate
  BY <1>6 DEF Tail
<1>8. /\ Now[tail].entry = speed /\ Now[tail].length = Tail.length
      /\ Now'[tail].entry = s /\ Now'[tail].length = Tail.length - 1
      /\ \A i \in Slots : i # tail => Now'[i] = Now[i] /\ Now[i] = blocks[i]
  BY <1>0, <1>1, <1>6, NowIs DEF Tail
<1>9. Limited'
  <2>1. Tail'.rate = Tail.rate
    BY <1>1, <1>6 DEF Tail
  <2>2. \A i \in Later : i \in Slots /\ i # tail /\ PrevBlock(i) \in Slots
    BY <1>4
  <2> QED
    BY <1>1, <1>2, <1>4, <1>5, <1>6, <1>7, <2>1, <2>2 DEF Smooth, Limited
<1>10. Feasibly'
  <2>1. ASSUME NEW i \in Contents PROVE Meets(Now', head, i)
    <3>1. At(Now', head, NextBlock(i)) = At(Now, head, NextBlock(i))
      BY <1>4, <1>8 DEF At
    <3>2. CASE i = tail
      <4>1. At(Now, head, NextBlock(tail)) = a
        BY <1>4, <1>8 DEF At, a
      <4> QED
        BY <1>2, <1>8, <3>1, <3>2, <4>1 DEF Meets
    <3>3. CASE i # tail
      BY <1>4, <1>8, <3>1, <3>3 DEF Meets, Smooth, Feasibly
    <3> QED
      BY <3>2, <3>3
  <2> QED
    BY <1>1, <1>5, <2>1 DEF Feasibly
<1>11. Tightly'
  <2> SUFFICES ASSUME control' \in {"run", "held"}
               PROVE  /\ \A i \in Later : Reachable(Now', i) /\ Tight(Now', head, i)
                      /\ planned \in Later => Fastest(Now', planned)
    BY <1>1, <1>5 DEF Tightly
  <2>1. control = "run"
    BY <1>1 DEF CanPrepare, Holding
  <2>2. ASSUME NEW i \in Later
        PROVE  /\ Reachable(Now, i) => Reachable(Now', i)
               /\ Fastest(Now, i) => Fastest(Now', i)
               /\ Tight(Now, head, i) => Tight(Now', head, i)
    <3>1. i \in Slots /\ i # tail /\ PrevBlock(i) \in Slots /\ NextBlock(i) # tail /\ NextBlock(i) \in Slots
      BY <1>4
    <3>2. At(Now', head, NextBlock(i)) = At(Now, head, NextBlock(i)) /\ Now'[i] = Now[i]
      BY <1>8, <3>1 DEF At
    <3>3. CASE PrevBlock(i) # tail
      <4>1. Now'[PrevBlock(i)] = Now[PrevBlock(i)]
        BY <1>8, <3>1, <3>3
      <4> QED
        BY <3>2, <4>1 DEF Reachable, Fastest, Accelerated, Tight
    <3>4. CASE PrevBlock(i) = tail
      <4>1. i = NextBlock(tail) /\ i # head
        BY <1>4, <3>4
      <4>2. Now[i].entry = a
        BY <1>2, <1>8, <3>1, <4>1
      <4>3. Reachable(Now', i) /\ (Accelerated(Now, i) => Accelerated(Now', i))
        BY <1>2, <1>8, <2>1, <3>2, <3>4, <4>2 DEF Reachable, Accelerated
      <4> QED
        BY <3>2, <4>3 DEF Fastest, Tight
    <3> QED
      BY <3>3, <3>4
  <2> QED
    BY <2>1, <2>2 DEF Smooth, Tightly
<1>12. SpeedIs'
  <2>1. Tail'.length = Tail.length - 1
    BY <1>1, <1>6 DEF Tail
  <2>2. control' = "hold" => Holding
    BY <1>1 DEF Holding
  <2>3. control' = "end" => speed' = 0
    BY <1>1 DEF CanPrepare
  <2> QED
    BY <1>1, <1>2, <1>3, <2>1, <2>2, <2>3 DEF SpeedIs
<1> QED
  BY <1>9, <1>10, <1>11, <1>12 DEF Smooth

LEMMA PrepareLastSmooth ==
    ASSUME Inv, Smooth, NoOverrides, PrepareLast, Inv'
    PROVE  Smooth'
<1>0. Types /\ Types'
  BY TypesAre DEF Inv
<1> DEFINE s == Advance(LoadSpeed, LoadExit(LoadSpeed))
           x == LoadExit(LoadSpeed)
           a == At(blocks, head, NextBlock(tail))
<1>1. /\ Tail.length = 1 /\ ~(Holding /\ LoadSpeed = 0) /\ Load(LoadSpeed, x) /\ CanPrepare
      /\ speed' = s
      /\ loaded' = FALSE
      /\ blocks' = [blocks EXCEPT ![tail] = NoBlock]
      /\ tail' = NextBlock(tail)
      /\ planned' = PushedPointer
      /\ control' = control /\ head' = head /\ prevNominal' = prevNominal
  BY DEF PrepareLast, overrides
<1>2. /\ LoadSpeed = speed /\ speed \in Nat /\ ~SlowingThrough(LoadSpeed)
      /\ a \in Nat /\ s \in Nat /\ x \in Nat
      /\ NextBlock(tail) # head =>
           a = blocks[NextBlock(tail)].entry /\ a <= blocks[NextBlock(tail)].maxEntry
      /\ s <= Tail.length - 1 + a
      /\ control = "run" => (Tail.length = 1 => s = a /\ x = a)
      /\ Holding => x = Most(s - (Tail.length - 1), 0) /\ s + 1 = speed
  BY <1>1, SmoothPrepared
<1> HIDE DEF s, x, a
<1>3. exit' = x /\ decelOvr' = FALSE /\ partial' = FALSE
  <2>1. /\ exit' = x /\ partial' = FALSE
        /\ decelOvr' = IF loaded THEN decelOvr ELSE ~Holding /\ SlowingThrough(LoadSpeed)
    BY <1>1 DEF Load
  <2>2. decelOvr = FALSE
    BY <1>0 DEF Smooth, SpeedIs, Types
  <2>3. CASE loaded
    BY <2>1, <2>2, <2>3
  <2>4. CASE ~loaded
    <3>1. decelOvr' = (~Holding /\ SlowingThrough(LoadSpeed))
      BY <2>1, <2>4
    <3> QED
      BY <1>2, <2>1, <3>1
  <2> QED
    BY <2>3, <2>4
<1>4. s <= a /\ x = s /\ (control = "run" => s = a) /\ control # "end" /\ control # "held"
  <2>1. control = "run" \/ Holding
    BY <1>1 DEF CanPrepare, Holding
  <2>2. control # "end" /\ control # "held"
    BY <1>1 DEF CanPrepare
  <2> HIDE DEF Holding
  <2>3. Holding => x = s
    BY <1>1, <1>2 DEF Most
  <2> QED
    BY <1>1, <1>2, <2>1, <2>2, <2>3
<1>5. CASE NextBlock(tail) = head
  <2>1. head' = tail' /\ ~decelOvr' /\ ~loaded' /\ ~partial' /\ exit' = speed' /\ control' # "end"
    BY <1>1, <1>3, <1>4, <1>5
  <2> QED
    BY <1>0, <2>1, EmptySmooth
<1>6. CASE NextBlock(tail) # head
  <2> DEFINE n == NextBlock(tail)
  <2>1. /\ tail \in Slots /\ head \in Slots /\ Contents \subseteq Slots /\ tail # head
        /\ head \notin Contents /\ n \in Later
        /\ Later \subseteq Contents /\ tail \notin Later
        /\ \A i \in Later : /\ NextBlock(i) = head \/ NextBlock(i) \in Later
                            /\ PrevBlock(i) \in Contents
                            /\ (PrevBlock(i) = tail <=> i = n)
        /\ \A i \in Contents : i = tail \/ i \in Later
        /\ PrevBlock(head) \in Slots /\ PrevBlock(head) # tail
    <3>1. tail # head
      BY <1>1 DEF CanPrepare
    <3>2. PrevBlock(head) \in Slots /\ PrevBlock(head) # tail
      BY <1>0, <1>6, Neighbours DEF Types
    <3>3. n \in Later
      BY <1>0, <1>6, <3>1, ContentsAre
    <3> QED
      BY <1>0, <3>1, <3>2, <3>3, ContentsAre
  <2>2. Contents' = Later /\ Later' = Later \ {n}
    <3>1. In(n, head) = In(tail, head) \ {tail}
      BY <2>1, InShrinks
    <3> QED
      BY <1>1, <3>1 DEF Contents, Later
  <2>3. \A i \in Slots : i # tail => blocks'[i] = blocks[i]
    BY <1>0, <1>1 DEF Types, Typed
  <2>4. /\ Now'[n].entry = s /\ Now'[n].length = blocks[n].length
        /\ \A i \in Later : i # n => Now'[i] = blocks[i]
        /\ \A i \in Later : Now[i] = blocks[i] /\ i \in Slots /\ i # tail /\ Now'[i].maxEntry = blocks[i].maxEntry
        /\ \A i \in Later : Now'[i].length = blocks[i].length
    <3>1. \A i \in Later : i \in Slots /\ i # tail
      BY <2>1
    <3> QED
      BY <1>0, <1>1, <2>1, <2>3, <3>1, NowIs
  <2>5. a = blocks[n].entry /\ a <= blocks[n].maxEntry
    BY <1>2, <1>6
  <2>6. Limited'
    <3>1. blocks'[PrevBlock(head)] = blocks[PrevBlock(head)]
      BY <2>1, <2>3
    <3>2. Tail'.rate = blocks[n].rate
      BY <1>1, <2>1, <2>3, <2>4 DEF Tail
    <3>3. s <= LimitOf(blocks[n].rate)
      <4>1. blocks[n].maxEntry <= LimitOf(blocks[n].rate)
        BY <2>1 DEF Smooth, Limited
      <4>2. LimitOf(blocks[n].rate) \in Nat /\ blocks[n].maxEntry \in Nat
        BY <1>0, <2>1, <2>4, NominalIs DEF Types, Typed
      <4> QED
        BY <1>2, <1>4, <2>5, <4>1, <4>2
    <3>4. \A i \in Later \ {n} : blocks'[i] = blocks[i] /\ blocks'[PrevBlock(i)] = blocks[PrevBlock(i)]
      BY <2>1, <2>3, <2>4
    <3> HIDE DEF n
    <3> QED
      BY <1>1, <2>1, <2>2, <3>1, <3>2, <3>3, <3>4 DEF Smooth, Limited
  <2>7. Feasibly'
    <3>1. ASSUME NEW i \in Later PROVE Meets(Now', head, i)
      <4>1. NextBlock(i) = head \/ (NextBlock(i) \in Later /\ NextBlock(i) # n)
        <5>1. PrevBlock(n) = tail /\ PrevBlock(NextBlock(i)) = i /\ i # tail
          BY <2>1, <2>4, Neighbours
        <5> QED
          BY <2>1, <5>1
      <4>2. At(Now', head, NextBlock(i)) = At(blocks, head, NextBlock(i))
            /\ At(Now, head, NextBlock(i)) = At(blocks, head, NextBlock(i))
        BY <2>4, <4>1 DEF At
      <4>3. Meets(Now, head, i)
        BY <2>1 DEF Smooth, Feasibly
      <4>4. blocks[i].entry <= blocks[i].length + At(blocks, head, NextBlock(i))
        BY <2>4, <4>2, <4>3 DEF Meets
      <4>5. CASE i = n
        <5>1. /\ blocks[n].length \in Nat /\ At(blocks, head, NextBlock(n)) \in Nat
          <6>1. \A j \in Slots : blocks[j].length \in Nat /\ blocks[j].entry \in Nat
            BY <1>0 DEF Types, Typed
          <6> QED
            BY <2>1, <2>4, <4>1, <4>5, <6>1 DEF At
        <5> QED
          BY <1>2, <1>4, <2>4, <2>5, <4>2, <4>4, <4>5, <5>1 DEF Meets
      <4>6. CASE i # n
        BY <2>4, <4>2, <4>4, <4>6 DEF Meets
      <4> QED
        BY <4>5, <4>6
    <3> QED
      BY <1>1, <2>2, <3>1 DEF Feasibly
  <2>8. Tightly'
    <3> SUFFICES ASSUME control = "run"
                 PROVE  /\ \A i \in Later \ {n} : Reachable(Now', i) /\ Tight(Now', head, i)
                        /\ planned' \in Later \ {n} => Fastest(Now', planned')
      BY <1>1, <1>4, <2>2 DEF Tightly
    <3>1. Now'[n].entry = blocks[n].entry
      BY <1>4, <2>4, <2>5
    <3>2. ASSUME NEW i \in Later \ {n}
          PROVE  /\ Reachable(Now, i) => Reachable(Now', i)
                 /\ Fastest(Now, i) => Fastest(Now', i)
                 /\ Tight(Now, head, i) => Tight(Now', head, i)
      <4>1. PrevBlock(i) \in Later /\ (NextBlock(i) = head \/ NextBlock(i) \in Later)
        BY <2>1
      <4>2. /\ Now'[i].entry = Now[i].entry /\ Now'[i].length = Now[i].length
            /\ Now'[i].maxEntry = Now[i].maxEntry
            /\ Now'[PrevBlock(i)].entry = Now[PrevBlock(i)].entry
            /\ Now'[PrevBlock(i)].length = Now[PrevBlock(i)].length
            /\ At(Now', head, NextBlock(i)) = At(Now, head, NextBlock(i))
        BY <2>4, <3>1, <4>1 DEF At
      <4> QED
        BY <4>2 DEF Reachable, Fastest, Accelerated, Tight
    <3>3. planned' \in Later \ {n} => planned' = planned
      BY <1>1 DEF PushedPointer
    <3> QED
      BY <3>2, <3>3 DEF Smooth, Tightly
  <2>9. SpeedIs'
    <3>1. Tail'.entry = a
      BY <1>1, <2>1, <2>3, <2>4, <2>5 DEF Tail
    <3> QED
      BY <1>1, <1>3, <1>4, <3>1 DEF SpeedIs
  <2> QED
    BY <2>6, <2>7, <2>8, <2>9 DEF Smooth
<1> QED
  BY <1>5, <1>6

\* The contents up to a block and after it.
Before(t, h, p) == {i \in In(t, h) : Distance(t, i) <= Distance(t, p)}
After(t, h, p) == {i \in In(t, h) : Distance(t, i) > Distance(t, p)}

LEMMA Around ==
    ASSUME NEW t \in Slots, NEW h \in Slots, NEW p \in In(t, h)
    PROVE  /\ t \in Before(t, h, p) /\ p \in Before(t, h, p) /\ t \notin After(t, h, p)
           /\ In(t, h) = Before(t, h, p) \cup After(t, h, p) /\ In(t, h) \subseteq Slots
           /\ \A i \in Before(t, h, p) : /\ i # p => NextBlock(i) \in Before(t, h, p)
                                         /\ i # t => PrevBlock(i) \in Before(t, h, p)
           /\ \A i \in After(t, h, p) : /\ PrevBlock(i) = p \/ PrevBlock(i) \in After(t, h, p)
                                        /\ NextBlock(i) = h \/ NextBlock(i) \in After(t, h, p)
           /\ NextBlock(p) = h \/ NextBlock(p) \in After(t, h, p)
           /\ h \notin In(t, h)
           /\ \A i \in After(t, h, p) : i \notin Before(t, h, p)
<1>1. /\ In(t, h) \subseteq Slots /\ h \notin In(t, h) /\ t \in In(t, h) /\ h # t
      /\ \A i \in In(t, h) : /\ NextBlock(i) = h \/ NextBlock(i) \in In(t, h)
                             /\ NextBlock(i) # t
                             /\ i # t => PrevBlock(i) \in In(t, h)
  <2>1. h # t
    BY InIs
  <2> QED
    BY <2>1, InIs
<1>2. \A i \in Slots : /\ Distance(t, i) \in Slots /\ (Distance(t, i) = 0 <=> i = t)
                       /\ Distance(t, NextBlock(i)) = IF Distance(t, i) = Ring - 1 THEN 0 ELSE Distance(t, i) + 1
                       /\ Distance(t, PrevBlock(i)) = IF Distance(t, i) = 0 THEN Ring - 1 ELSE Distance(t, i) - 1
                       /\ Ahead(t, Distance(t, i)) = i
                       /\ NextBlock(i) \in Slots /\ PrevBlock(i) \in Slots
  BY Distances, Neighbours
<1>3. ASSUME NEW i \in In(t, h)
      PROVE  /\ Distance(t, i) \in Nat
             /\ NextBlock(i) # h => Distance(t, NextBlock(i)) = Distance(t, i) + 1
             /\ i # t => Distance(t, PrevBlock(i)) = Distance(t, i) - 1
             /\ i # t => Distance(t, i) # 0
  <2>1. i \in Slots /\ NextBlock(i) # t
    BY <1>1
  <2>2. NextBlock(i) \in Slots /\ Distance(t, NextBlock(i)) # 0 /\ Distance(t, i) \in Nat
    BY <1>2, <2>1, RingAssumption DEF Slots
  <2> QED
    BY <1>2, <2>1, <2>2
<1>4. \A i, j \in In(t, h) : Distance(t, i) = Distance(t, j) => i = j
  BY <1>1, <1>2
<1>5. Distance(t, t) = 0 /\ Distance(t, p) \in Nat /\ p \in In(t, h)
  BY <1>2, <1>3
<1>6. ASSUME NEW i \in Before(t, h, p)
      PROVE  /\ i # p => NextBlock(i) \in Before(t, h, p)
             /\ i # t => PrevBlock(i) \in Before(t, h, p)
  <2>1. i \in In(t, h) /\ Distance(t, i) <= Distance(t, p)
    BY DEF Before
  <2>2. i # p => Distance(t, i) < Distance(t, p)
    BY <1>3, <1>4, <1>5, <2>1
  <2>3. i # p => NextBlock(i) # h
    <3> SUFFICES ASSUME i # p, NextBlock(i) = h PROVE FALSE
      OBVIOUS
    <3>1. Distance(t, h) = Distance(t, i) + 1 \/ Distance(t, h) = 0
      BY <1>1, <1>2, <2>1
    <3>2. Distance(t, p) < Distance(t, h)
      BY DEF In
    <3> QED
      BY <1>3, <1>5, <2>1, <2>2, <3>1, <3>2
  <2>4. i # p => NextBlock(i) \in Before(t, h, p)
    BY <1>1, <1>3, <1>5, <2>1, <2>2, <2>3 DEF Before
  <2>5. i # t => PrevBlock(i) \in Before(t, h, p)
    BY <1>1, <1>3, <1>5, <2>1 DEF Before
  <2> QED
    BY <2>4, <2>5
<1>7. ASSUME NEW i \in After(t, h, p)
      PROVE  /\ i # t
             /\ PrevBlock(i) = p \/ PrevBlock(i) \in After(t, h, p)
             /\ NextBlock(i) = h \/ NextBlock(i) \in After(t, h, p)
  <2>1. i \in In(t, h) /\ Distance(t, i) > Distance(t, p)
    BY DEF After
  <2>2. i # t
    BY <1>5, <2>1
  <2>3. PrevBlock(i) \in In(t, h) /\ Distance(t, PrevBlock(i)) = Distance(t, i) - 1
    BY <1>1, <1>3, <2>1, <2>2
  <2>4. Distance(t, PrevBlock(i)) = Distance(t, p) \/ Distance(t, PrevBlock(i)) > Distance(t, p)
    BY <1>3, <1>5, <2>1, <2>3
  <2>5. PrevBlock(i) = p \/ PrevBlock(i) \in After(t, h, p)
    BY <1>4, <2>3, <2>4 DEF After
  <2>6. NextBlock(i) = h \/ NextBlock(i) \in After(t, h, p)
    BY <1>1, <1>3, <1>5, <2>1 DEF After
  <2> QED
    BY <2>2, <2>5, <2>6
<1>8. NextBlock(p) = h \/ NextBlock(p) \in After(t, h, p)
  BY <1>1, <1>3, <1>5 DEF After
<1>9. In(t, h) = Before(t, h, p) \cup After(t, h, p) /\ t \in Before(t, h, p) /\ p \in Before(t, h, p)
  BY <1>1, <1>3, <1>5 DEF Before, After
<1>10. \A i \in After(t, h, p) : i \notin Before(t, h, p)
  BY <1>3, <1>5 DEF Before, After
<1> QED
  BY <1>1, <1>6, <1>7, <1>8, <1>9, <1>10

\* The passes from the planned block p on, over blocks b of a ring up to h:
\* they leave c up to p and n is as the tool takes it.
Replanning(b, h, p, m, c, new, n) ==
    /\ b \in Typed /\ h \in Slots /\ p \in In(tail, h)
    /\ m = Distance(p, PrevBlock(h)) /\ m # 0
    /\ c = IF p = tail THEN UpdateTail(b) ELSE b
    /\ new = Recalculated(b, h, p)
    /\ n = [b EXCEPT ![tail].entry = speed]
    /\ \A i \in In(tail, h) : b[i].length > 0
    /\ \A i \in In(tail, h) \ {tail} : b[i].entry <= b[i].maxEntry /\ Meets(b, h, i)

\* The plan up to p is good for the tool.
GoodBefore(h, p, c, n, running) ==
    /\ \A i \in Before(tail, h, p) : Meets(n, h, i)
    /\ c[p].entry >= n[p].entry
    /\ running =>
         /\ c[p].entry = n[p].entry
         /\ \A i \in Before(tail, h, p) \ {tail} : Reachable(n, i) /\ Tight(n, h, i)
         /\ p # tail => Fastest(n, p)

\* Then the whole plan is.
LEMMA ReplannedSmooth ==
    ASSUME Types, Types', NEW b, NEW h, NEW p, NEW m, NEW c, NEW new, NEW n,
           Replanning(b, h, p, m, c, new, n),
           GoodBefore(h, p, c, n, control' \in {"run", "held"}),
           blocks' = new.blocks, planned' = new.planned,
           head' = h, tail' = tail, speed' = speed
    PROVE  Feasibly' /\ Tightly' /\ \A i \in Later' : blocks'[i].entry <= blocks'[i].maxEntry
<1>14. /\ b \in Typed /\ h \in Slots /\ p \in In(tail, h)
       /\ m = Distance(p, PrevBlock(h)) /\ m # 0
       /\ c = IF p = tail THEN UpdateTail(b) ELSE b
       /\ new = Recalculated(b, h, p)
       /\ n = [b EXCEPT ![tail].entry = speed]
       /\ \A i \in In(tail, h) : b[i].length > 0
       /\ \A i \in In(tail, h) \ {tail} : b[i].entry <= b[i].maxEntry /\ Meets(b, h, i)
  BY DEF Replanning
<1>15. /\ \A i \in Before(tail, h, p) : Meets(n, h, i)
       /\ c[p].entry >= n[p].entry
       /\ control' \in {"run", "held"} =>
            /\ c[p].entry = n[p].entry
            /\ \A i \in Before(tail, h, p) \ {tail} : Reachable(n, i) /\ Tight(n, h, i)
            /\ p # tail => Fastest(n, p)
  BY DEF GoodBefore
<1> USE <1>14, <1>15
<1>0. tail \in Slots /\ speed \in Nat /\ loaded \in BOOLEAN
  BY DEF Types
<1>1. /\ \A i \in In(tail, h) :
           Distance(tail, i) <= Distance(tail, p) => new.blocks[i] = c[i]
      /\ \A i \in In(tail, h) :
           Distance(tail, i) > Distance(tail, p) =>
             /\ new.blocks[i].entry <= new.blocks[i].maxEntry
             /\ Meets(new.blocks, h, i) /\ Reachable(new.blocks, i) /\ Tight(new.blocks, h, i)
      /\ new.planned \in In(tail, h)
      /\ new.planned = p \/ (Distance(tail, new.planned) > Distance(tail, p) /\ Fastest(new.blocks, new.planned))
      /\ NextBlock(p) \in In(tail, h)
      /\ \/ new.blocks[NextBlock(p)].entry >= b[NextBlock(p)].entry
         \/ new.blocks[NextBlock(p)].entry = c[p].entry + c[p].length
  BY <1>0, RecalculatedPlans
<1> DEFINE before == Before(tail, h, p)
           after == After(tail, h, p)
<1>2. /\ tail \in before /\ p \in before /\ tail \notin after
      /\ In(tail, h) = before \cup after /\ In(tail, h) \subseteq Slots
      /\ \A i \in before : /\ i # p => NextBlock(i) \in before
                           /\ i # tail => PrevBlock(i) \in before
      /\ \A i \in after : /\ PrevBlock(i) = p \/ PrevBlock(i) \in after
                          /\ NextBlock(i) = h \/ NextBlock(i) \in after
      /\ NextBlock(p) = h \/ NextBlock(p) \in after
      /\ h \notin In(tail, h)
      /\ \A i \in after : i \notin before
  BY <1>0, Around
<1>3. /\ \A i \in before : new.blocks[i] = c[i]
      /\ \A i \in after : /\ new.blocks[i].entry <= new.blocks[i].maxEntry
                          /\ Meets(new.blocks, h, i) /\ Reachable(new.blocks, i) /\ Tight(new.blocks, h, i)
      /\ new.planned = p \/ (new.planned \in after /\ Fastest(new.blocks, new.planned))
      /\ NextBlock(p) \in after
  BY <1>1, <1>2 DEF Before, After
<1> HIDE DEF before, after
<1>4. /\ Now'[tail].entry = speed /\ blocks' \in Typed
      /\ \A i \in Slots : i # tail => Now'[i] = new.blocks[i]
      /\ \A i \in Slots : /\ Now'[i].length = new.blocks[i].length
                          /\ Now'[i].maxEntry = new.blocks[i].maxEntry
  BY NowIs DEF Types
<1>5. /\ n \in Typed /\ n[tail].entry = speed
      /\ \A i \in Slots : i # tail => n[i] = b[i]
      /\ \A i \in Slots : n[i].length = b[i].length /\ n[i].maxEntry = b[i].maxEntry
  BY <1>0 DEF Typed
<1>6. /\ c \in Typed
      /\ \A i \in Slots : c[i].length = b[i].length /\ c[i].maxEntry = b[i].maxEntry
      /\ \A i \in Slots : i # tail => c[i].entry = b[i].entry
  <2>1. /\ UpdateTail(b) \in Typed
        /\ \A i \in Slots : /\ UpdateTail(b)[i].length = b[i].length /\ UpdateTail(b)[i].maxEntry = b[i].maxEntry
                            /\ i # tail => UpdateTail(b)[i].entry = b[i].entry
    BY <1>0, TailUpdated
  <2> QED
    BY <2>1
<1>7. ASSUME NEW i \in before
      PROVE  /\ i \in Slots /\ i # h
             /\ Now'[i].entry = n[i].entry /\ Now'[i].length = n[i].length
             /\ Now'[i].maxEntry = n[i].maxEntry
  <2>1. i \in Slots /\ i # h /\ new.blocks[i] = c[i]
    BY <1>2, <1>3
  <2> QED
    BY <1>4, <1>5, <1>6, <2>1
<1>8. ASSUME NEW i \in after
      PROVE  i \in Slots /\ i # h /\ i # tail /\ Now'[i] = new.blocks[i]
  BY <1>2, <1>4
<1>9. /\ Now'[p].entry <= new.blocks[p].entry
      /\ Now'[p].length = new.blocks[p].length
      /\ control' \in {"run", "held"} => Now'[p].entry = new.blocks[p].entry
      /\ new.blocks[p].entry = c[p].entry /\ Now'[p].length = c[p].length
      /\ Now'[p].entry \in Nat /\ Now'[p].length \in Nat /\ c[p].entry \in Nat
  <2>1. p \in Slots /\ new.blocks[p] = c[p] /\ Now'[p].entry = n[p].entry
    BY <1>2, <1>3, <1>7
  <2>2. n[p].entry \in Nat /\ c[p].entry \in Nat /\ c[p].length \in Nat
    BY <1>5, <1>6, <2>1 DEF Typed
  <2> QED
    BY <1>4, <2>1, <2>2
<1>10. Contents' = In(tail, h) /\ Later' = In(tail, h) \ {tail}
  BY DEF Contents, Later
<1>11. ASSUME NEW i \in In(tail, h) PROVE Meets(Now', h, i)
  <2>1. CASE i \in before /\ i # p
    <3>1. NextBlock(i) \in before /\ Meets(n, h, i)
      BY <1>2, <2>1 DEF before
    <3>2. At(Now', h, NextBlock(i)) = At(n, h, NextBlock(i))
      BY <1>7, <3>1 DEF At
    <3> QED
      BY <1>7, <2>1, <3>1, <3>2 DEF Meets
  <2>2. CASE i = p
    <3>1. Meets(n, h, p) /\ NextBlock(p) \in after /\ p \in before
      BY <1>2, <1>3 DEF before
    <3>2. /\ NextBlock(p) \in Slots /\ NextBlock(p) # h /\ NextBlock(p) # tail
          /\ Now'[NextBlock(p)] = new.blocks[NextBlock(p)]
      BY <1>8, <3>1
    <3>3. At(Now', h, NextBlock(p)) = new.blocks[NextBlock(p)].entry
          /\ At(n, h, NextBlock(p)) = b[NextBlock(p)].entry
      BY <1>5, <3>2 DEF At
    <3>4. Now'[p].entry <= Now'[p].length + b[NextBlock(p)].entry
      BY <1>7, <3>1, <3>3 DEF Meets
    <3>5. b[NextBlock(p)].entry \in Nat /\ new.blocks[NextBlock(p)].entry \in Nat
      BY <1>4, <3>2 DEF Typed
    <3>6. Now'[p].entry <= Now'[p].length + new.blocks[NextBlock(p)].entry
      BY <1>1, <1>9, <3>4, <3>5
    <3> QED
      BY <2>2, <3>3, <3>6 DEF Meets
  <2>3. CASE i \in after
    <3>1. At(Now', h, NextBlock(i)) = At(new.blocks, h, NextBlock(i))
      BY <1>2, <1>8, <2>3 DEF At
    <3> QED
      BY <1>3, <1>8, <2>3, <3>1 DEF Meets
  <2> QED
    BY <1>2, <2>1, <2>2, <2>3
<1>12. ASSUME control' \in {"run", "held"}, NEW i \in In(tail, h) \ {tail}
       PROVE  /\ Reachable(Now', i) /\ Tight(Now', h, i)
              /\ i = new.planned => Fastest(Now', i)
  <2>1. CASE i \in before
    <3>1. Reachable(n, i) /\ Tight(n, h, i) /\ PrevBlock(i) \in before
      BY <1>2, <1>12, <2>1 DEF before
    <3>2. Reachable(Now', i) /\ (Fastest(n, i) => Fastest(Now', i))
      BY <1>7, <2>1, <3>1 DEF Reachable, Fastest, Accelerated
    <3>3. CASE i = p
      <4>1. Fastest(n, p)
        BY <1>12, <3>3
      <4> QED
        BY <3>2, <3>3, <4>1 DEF Tight
    <3>4. CASE i # p
      <4>1. NextBlock(i) \in before
        BY <1>2, <2>1, <3>4
      <4>2. At(Now', h, NextBlock(i)) = At(n, h, NextBlock(i))
        BY <1>7, <4>1 DEF At
      <4>3. Tight(Now', h, i)
        BY <1>7, <2>1, <3>1, <3>2, <4>2 DEF Tight
      <4>4. i # new.planned
        <5>1. i \notin after
          BY <1>2, <2>1
        <5> QED
          BY <1>3, <3>4, <5>1
      <4> QED
        BY <3>2, <4>3, <4>4
    <3> QED
      BY <3>3, <3>4
  <2>2. CASE i \in after
    <3>1. /\ Now'[i] = new.blocks[i]
          /\ Now'[PrevBlock(i)].entry = new.blocks[PrevBlock(i)].entry
          /\ Now'[PrevBlock(i)].length = new.blocks[PrevBlock(i)].length
      BY <1>2, <1>8, <1>9, <1>12, <2>2
    <3>2. At(Now', h, NextBlock(i)) = At(new.blocks, h, NextBlock(i))
      BY <1>2, <1>8, <2>2 DEF At
    <3>3. Reachable(new.blocks, i) /\ Tight(new.blocks, h, i)
      BY <1>3, <2>2
    <3>4. i = new.planned => Fastest(new.blocks, i)
      <4>1. i # p
        BY <1>2, <2>2
      <4> QED
        BY <1>3, <4>1
    <3> QED
      BY <3>1, <3>2, <3>3, <3>4 DEF Reachable, Tight, Fastest, Accelerated
  <2> QED
    BY <1>2, <2>1, <2>2
<1>13. ASSUME NEW i \in In(tail, h) \ {tail} PROVE new.blocks[i].entry <= new.blocks[i].maxEntry
  <2>1. CASE i \in before
    <3>1. new.blocks[i] = c[i] /\ i \in Slots
      BY <1>2, <1>3, <2>1
    <3> QED
      BY <1>6, <3>1
  <2>2. CASE i \in after
    BY <1>3, <2>2
  <2> QED
    BY <1>2, <2>1, <2>2
<1> QED
  BY <1>10, <1>11, <1>12, <1>13 DEF Feasibly, Tightly

\* A block is added to an empty ring.
LEMMA BufferFirstSmooth ==
    ASSUME Inv, Smooth, NoOverrides, BufferLine, Inv', head = tail
    PROVE  Smooth'
<1>0. Types /\ Types'
  BY TypesAre DEF Inv
<1>1. PICK b, length, rate :
        /\ b \in Typed /\ length \in Nat \ {0} /\ rate \in FeedRates \cup {Rapid}
        /\ b[head].length = length /\ b[head].entry = 0 /\ b[head].rate = rate
        /\ b[head].maxEntry = 0
        /\ prevNominal' = Nominal([rate |-> rate], fOverride, rOverride)
        /\ Replan(b, NextBlock(head), planned)
  BY <1>0, BufferedIs
<1> DEFINE h == NextBlock(head)
<1>14. PICK new : new = Recalculated(b, h, planned)
  OBVIOUS
<1>2. speed = 0 /\ exit = 0 /\ ~loaded /\ ~partial /\ control # "end" /\ ~decelOvr
  BY EmptyRests DEF Smooth, SpeedIs
<1>3. head' = h /\ tail' = tail /\ control' = control
  BY DEF BufferLine
<1>4. /\ h \in Slots /\ h # head /\ PrevBlock(h) = head /\ In(tail, h) = {tail}
      /\ tail \in Slots
  <2>1. In(tail, h) = In(tail, tail) \cup {tail}
    BY <1>0, InGrows, Neighbours DEF Types
  <2>2. In(tail, tail) = {}
    BY <1>0, InIs DEF Types
  <2> QED
    BY <1>0, <2>1, <2>2, Neighbours DEF Types
<1>5. new.planned = head /\ new.told = FALSE /\ new.blocks[head].entry = 0
  <2>1. /\ tail = head /\ head \in Slots /\ planned \in Slots /\ speed \in Nat /\ loaded \in BOOLEAN
        /\ b \in Typed /\ b[head].maxEntry = 0 /\ b[head].entry = 0
    BY <1>0, <1>1 DEF Types
  <2> QED
    BY <1>14, <2>1, RecalculatedFirst
<1>6. new.blocks[head].rate = rate
  BY <1>0, <1>1, <1>4, <1>14, RecalculatedKeeps DEF Types
<1>7. /\ blocks' = new.blocks
      /\ UNCHANGED <<loaded, partial, decelOvr, speed, exit>>
  BY <1>1, <1>5, <1>14 DEF Replan, prep
<1>8. prevNominal' * prevNominal' = LimitOf(rate) /\ LimitOf(rate) \in Nat
  BY <1>0, <1>1, NominalIs, LimitTyped DEF LimitOf
<1>9. Contents' = {tail} /\ Later' = {}
  BY <1>3, <1>4 DEF Contents, Later
<1>10. Limited'
  <2>1. Tail'.rate = rate
    BY <1>3, <1>6, <1>7 DEF Tail
  <2> QED
    BY <1>2, <1>3, <1>4, <1>6, <1>7, <1>8, <1>9, <2>1 DEF Limited
<1>11. SpeedIs'
  <2>1. Tail'.entry = 0
    BY <1>3, <1>5, <1>7 DEF Tail
  <2> QED
    BY <1>2, <1>3, <1>7, <2>1 DEF SpeedIs
<1>12. Feasibly'
  <2>1. Now'[tail].entry = 0 /\ Now'[tail].length \in Nat
    BY <1>0, <1>2, <1>3, <1>4, <1>7, NowIs DEF Typed
  <2>2. At(Now', h, NextBlock(tail)) = 0
    BY DEF At
  <2> QED
    BY <1>3, <1>9, <2>1, <2>2 DEF Feasibly, Meets
<1>13. Tightly'
  BY <1>9 DEF Tightly
<1> QED
  BY <1>10, <1>11, <1>12, <1>13 DEF Smooth

\* A block is added behind others.
LEMMA BufferNextSmooth ==
    ASSUME Inv, Smooth, NoOverrides, BufferLine, Inv', head # tail
    PROVE  Smooth'
<1>0. Types /\ Types'
  BY TypesAre DEF Inv
<1>1. PICK b, length, rate :
        /\ b \in Typed /\ length \in Nat \ {0} /\ rate \in FeedRates \cup {Rapid}
        /\ b[head].length = length /\ b[head].entry = 0 /\ b[head].rate = rate
        /\ b[head].maxEntry <= prevNominal' * prevNominal'
        /\ b[head].maxEntry <= prevNominal * prevNominal
        /\ \A i \in Slots : i # head => b[i] = blocks[i]
        /\ prevNominal' = Nominal([rate |-> rate], fOverride, rOverride)
        /\ Replan(b, NextBlock(head), planned)
  BY <1>0, BufferedIs
<1>2. PICK h : h = NextBlock(head)
  OBVIOUS
<1>3. /\ head' = h /\ tail' = tail /\ control' = control /\ ~IsFull
  BY <1>2 DEF BufferLine
<1>4. /\ tail \in Slots /\ head \in Slots /\ head \notin Contents /\ tail \in Contents
      /\ Contents \subseteq Slots /\ Later \subseteq Contents /\ Contents \subseteq Later \cup {tail}
      /\ tail \notin Later
      /\ \A i \in Contents : NextBlock(i) \in Slots /\ (NextBlock(i) = head \/ NextBlock(i) \in Later)
                             /\ NextBlock(i) # tail
      /\ \A i \in Later : PrevBlock(i) \in Contents
  BY <1>0, ContentsAre
<1>5. /\ h \in Slots /\ h # tail /\ h # head /\ PrevBlock(h) = head
      /\ In(tail, h) = Contents \cup {head} /\ h \notin In(tail, h)
      /\ PrevBlock(head) \in Contents
  <2>1. h \in Slots /\ h # tail /\ h # head /\ PrevBlock(h) = head
    BY <1>2, <1>3, <1>4, Neighbours DEF IsFull
  <2>2. In(tail, h) = Contents \cup {head}
    BY <1>2, <1>4, <2>1, InGrows DEF Contents
  <2>3. h \notin In(tail, h)
    BY <1>4, <2>1, InIs
  <2>4. head \in In(tail, h) /\ head # tail
    BY <1>4, <2>2
  <2>5. PrevBlock(head) \in In(tail, h) /\ PrevBlock(head) # head
    BY <1>4, <2>1, <2>4, InIs, Neighbours
  <2> QED
    BY <2>1, <2>2, <2>3, <2>5
<1>6. PICK p : p = planned
  OBVIOUS
<1>7. p \in Contents /\ p # head /\ p \in In(tail, h)
  BY <1>4, <1>5, <1>6 DEF Inv, Occupied
<1>8. PICK m : m = Distance(p, PrevBlock(h))
  OBVIOUS
<1>9. m # 0
  BY <1>4, <1>5, <1>7, <1>8, Distances
<1>10. PICK c : c = IF p = tail THEN UpdateTail(b) ELSE b
  OBVIOUS
<1>11. PICK new : new = Recalculated(b, h, p)
  OBVIOUS
<1>12. PICK n : n = [b EXCEPT ![tail].entry = speed]
  OBVIOUS
<1>13. /\ blocks' = new.blocks /\ planned' = new.planned
       /\ IF new.told THEN ProfileDropped ELSE UNCHANGED prep
  BY <1>1, <1>2, <1>6, <1>11 DEF Replan
<1>14. /\ new.told = (p = tail)
       /\ \A i \in Slots : new.blocks[i].maxEntry = b[i].maxEntry /\ new.blocks[i].rate = b[i].rate
  <2>1. p \in Slots
    BY <1>4, <1>7
  <2>2. Recalculated(b, h, p).told = (p = tail)
    BY <1>0, <1>1, <1>5, <1>8, <1>9, <1>10, <2>1, RecalculatedIs DEF Types
  <2>3. \A i \in Slots : new.blocks[i].maxEntry = b[i].maxEntry /\ new.blocks[i].rate = b[i].rate
    BY <1>0, <1>1, <1>5, <1>11, <2>1, RecalculatedKeeps DEF Types
  <2> QED
    BY <1>11, <2>2, <2>3
<1>15. /\ tail' = tail /\ speed' = speed /\ exit' = exit /\ decelOvr' = decelOvr
       /\ loaded' = (loaded /\ p # tail) /\ partial' = (partial \/ (loaded /\ p = tail))
  <2>1. CASE p = tail
    BY <1>3, <1>13, <1>14, <2>1 DEF ProfileDropped
  <2>2. CASE p # tail
    BY <1>0, <1>3, <1>13, <1>14, <2>2 DEF prep, Types
  <2> QED
    BY <2>1, <2>2
<1>16. /\ n \in Typed /\ n[tail].entry = speed /\ n[tail].length = Tail.length
       /\ n[head] = b[head] /\ \A i \in Later : n[i] = blocks[i] /\ b[i] = blocks[i] /\ i \in Slots /\ i # head
       /\ b[tail] = Tail /\ speed \in Nat
       /\ Now[tail].entry = speed /\ Now[tail].length = Tail.length
       /\ \A i \in Later : Now[i] = blocks[i]
  <2>1. speed \in Nat /\ \A i \in Later : i \in Slots /\ i # head /\ i # tail
    BY <1>0, <1>4 DEF Types
  <2>2. /\ n \in Typed /\ n[tail].entry = speed /\ n[tail].length = b[tail].length
        /\ \A i \in Slots : i # tail => n[i] = b[i]
    BY <1>1, <1>4, <1>12, <2>1 DEF Typed
  <2>3. b[tail] = Tail
    BY <1>1, <1>4 DEF Tail
  <2>4. n[head] = b[head] /\ \A i \in Later : n[i] = blocks[i] /\ b[i] = blocks[i]
    BY <1>1, <1>4, <2>1, <2>2
  <2> QED
    BY <1>0, <2>1, <2>2, <2>3, <2>4, NowIs DEF Tail
<1>17. ASSUME NEW i \in Contents
       PROVE  /\ n[i].entry = Now[i].entry /\ n[i].length = Now[i].length
              /\ i \in Later => n[i].maxEntry = Now[i].maxEntry
              /\ At(n, h, NextBlock(i)) = At(Now, head, NextBlock(i))
              /\ i # tail => At(b, h, NextBlock(i)) = At(Now, head, NextBlock(i))
              /\ i # tail => n[PrevBlock(i)].entry = Now[PrevBlock(i)].entry
                             /\ n[PrevBlock(i)].length = Now[PrevBlock(i)].length
  <2>1. \A j \in Contents : n[j].entry = Now[j].entry /\ n[j].length = Now[j].length
    BY <1>4, <1>16
  <2>2. i # tail => PrevBlock(i) \in Contents
    BY <1>4
  <2>3. CASE NextBlock(i) = head
    BY <1>1, <1>4, <1>5, <1>16, <2>1, <2>2, <2>3 DEF At
  <2>4. CASE NextBlock(i) # head
    <3>1. NextBlock(i) \in Later /\ NextBlock(i) # h
      BY <1>4, <1>5, <2>4
    <3> QED
      BY <1>16, <2>1, <2>2, <2>4, <3>1 DEF At
  <2> QED
    BY <2>3, <2>4
<1>18. ASSUME NEW i \in Contents
       PROVE  /\ Meets(n, h, i)
              /\ i # tail => Meets(b, h, i)
              /\ i # tail => /\ Reachable(Now, i) => Reachable(n, i)
                             /\ Fastest(Now, i) => Fastest(n, i)
                             /\ Tight(Now, head, i) => Tight(n, h, i)
  <2>1. Meets(Now, head, i)
    BY DEF Smooth, Feasibly
  <2>2. Meets(n, h, i)
    BY <1>17, <2>1 DEF Meets
  <2>3. CASE i = tail
    BY <2>2, <2>3
  <2>4. CASE i # tail
    <3>1. i \in Later
      BY <1>4, <2>4
    <3>2. b[i] = blocks[i] /\ Now[i] = blocks[i]
      BY <1>16, <3>1
    <3>3. Meets(b, h, i)
      BY <1>17, <2>1, <2>4, <3>2 DEF Meets
    <3> QED
      BY <1>17, <2>2, <2>4, <3>1, <3>3 DEF Reachable, Fastest, Accelerated, Tight
  <2> QED
    BY <2>3, <2>4
<1>19. /\ \A i \in In(tail, h) : b[i].length > 0
       /\ \A i \in In(tail, h) \ {tail} : b[i].entry <= b[i].maxEntry /\ Meets(b, h, i)
  <2>1. ASSUME NEW i \in Contents
        PROVE  b[i].length > 0 /\ (i # tail => b[i].entry <= b[i].maxEntry)
    <3>1. b[i] = blocks[i] /\ (i # tail => i \in Later)
      BY <1>4, <1>16 DEF Tail
    <3> QED
      BY <3>1 DEF Inv, Occupied, Smooth, Limited
  <2>2. b[head].length > 0 /\ b[head].entry <= b[head].maxEntry
    BY <1>1, <1>4 DEF Typed
  <2>3. Meets(b, h, head)
    <3>1. b[head].entry = 0 /\ b[head].length \in Nat /\ At(b, h, h) = 0
      BY <1>1 DEF At
    <3> QED
      BY <1>2, <3>1 DEF Meets
  <2> QED
    BY <1>5, <1>18, <2>1, <2>2, <2>3
<1>20. \A i \in Before(tail, h, p) : i \in Contents
  <2>1. ASSUME NEW i \in Before(tail, h, p), i = head PROVE FALSE
    <3>1. Distance(tail, head) <= Distance(tail, p)
      BY <2>1 DEF Before
    <3>2. Distance(tail, p) < Distance(tail, head)
      BY <1>7 DEF Contents, In
    <3>3. Distance(tail, p) \in Nat /\ Distance(tail, head) \in Nat
      BY <1>4, <1>7, DistanceIs, RingAssumption DEF Slots
    <3> QED
      BY <3>1, <3>2, <3>3
  <2> QED
    BY <1>5, <2>1 DEF Before
<1>21. /\ p = tail => c[tail].entry = (IF loaded THEN speed ELSE Tail.entry)
       /\ p # tail => c = b
  <2>1. UpdateTail(b)[tail].entry = IF loaded THEN speed ELSE b[tail].entry
    BY <1>0, <1>1, TailUpdated DEF Types
  <2> QED
    BY <1>10, <1>16, <2>1
<1>22. /\ ~decelOvr
       /\ ~loaded /\ ~partial => exit = speed
       /\ ~loaded => speed <= Tail.entry
       /\ ~loaded /\ (partial \/ control \in {"run", "held"}) => Tail.entry = speed
       /\ loaded /\ control = "hold" => exit = Most(speed - Tail.length, 0)
       /\ control = "end" => speed = 0 /\ (loaded \/ partial)
       /\ speed \in Nat /\ loaded \in BOOLEAN /\ partial \in BOOLEAN
  BY <1>0 DEF Smooth, SpeedIs, Types
<1>23. /\ c[p].entry >= n[p].entry
       /\ control' \in {"run", "held"} => c[p].entry = n[p].entry
  <2>1. CASE p = tail
    <3>1. c[tail].entry >= speed /\ (control \in {"run", "held"} => c[tail].entry = speed)
      BY <1>21, <1>22, <2>1
    <3> QED
      BY <1>3, <1>16, <2>1, <3>1
  <2>2. CASE p # tail
    <3>1. p \in Later
      BY <1>4, <1>7, <2>2
    <3>2. blocks[p].entry \in Nat
      BY <1>0, <1>16, <3>1 DEF Types, Typed
    <3> QED
      BY <1>16, <1>21, <2>2, <3>1, <3>2
  <2> QED
    BY <2>1, <2>2
<1>24. control' \in {"run", "held"} =>
         /\ \A i \in Before(tail, h, p) \ {tail} : Reachable(n, i) /\ Tight(n, h, i)
         /\ p # tail => Fastest(n, p)
  <2> SUFFICES ASSUME control \in {"run", "held"}
               PROVE  /\ \A i \in Before(tail, h, p) \ {tail} : Reachable(n, i) /\ Tight(n, h, i)
                      /\ p # tail => Fastest(n, p)
    BY <1>3
  <2>1. /\ \A i \in Later : Reachable(Now, i) /\ Tight(Now, head, i)
        /\ p \in Later => Fastest(Now, p)
    BY <1>6 DEF Smooth, Tightly
  <2> QED
    BY <1>4, <1>7, <1>18, <1>20, <2>1
<1>25. Feasibly' /\ Tightly' /\ \A i \in Later' : blocks'[i].entry <= blocks'[i].maxEntry
  <2>1. \A i \in Before(tail, h, p) : Meets(n, h, i)
    BY <1>18, <1>20
  <2>2. Replanning(b, h, p, m, c, new, n)
    BY <1>1, <1>5, <1>7, <1>8, <1>9, <1>10, <1>11, <1>12, <1>19 DEF Replanning
  <2>3. GoodBefore(h, p, c, n, control' \in {"run", "held"})
    BY <1>23, <1>24, <2>1 DEF GoodBefore
  <2> QED
    BY <1>0, <1>3, <1>13, <1>15, <2>2, <2>3, ReplannedSmooth
<1>26. /\ \A i \in Contents : blocks'[i].maxEntry = blocks[i].maxEntry /\ blocks'[i].rate = blocks[i].rate
       /\ blocks'[head].maxEntry = b[head].maxEntry /\ blocks'[head].rate = rate
  BY <1>1, <1>4, <1>13, <1>14
<1>27. Limited'
  <2>1. prevNominal' * prevNominal' = LimitOf(rate)
    BY <1>0, <1>1, NominalIs DEF LimitOf
  <2>2. Later' = Later \cup {head}
    BY <1>3, <1>4, <1>5 DEF Contents, Later
  <2>3. PrevBlock(head') = head /\ Tail'.rate = Tail.rate
    BY <1>3, <1>4, <1>5, <1>26 DEF Tail
  <2>4. speed <= LimitOf(Tail.rate) /\ prevNominal * prevNominal = LimitOf(blocks[PrevBlock(head)].rate)
    BY DEF Smooth, Limited
  <2>5. ASSUME NEW i \in Later
        PROVE  /\ blocks'[i].maxEntry <= LimitOf(blocks'[i].rate)
               /\ blocks'[i].maxEntry <= LimitOf(blocks'[PrevBlock(i)].rate)
    BY <1>4, <1>26 DEF Smooth, Limited
  <2>6. /\ blocks'[head].maxEntry <= LimitOf(blocks'[head].rate)
        /\ blocks'[head].maxEntry <= LimitOf(blocks'[PrevBlock(head)].rate)
    BY <1>1, <1>5, <1>26, <2>1, <2>4
  <2> QED
    BY <1>15, <1>25, <1>26, <2>1, <2>2, <2>3, <2>4, <2>5, <2>6 DEF Limited
<1>28. SpeedIs'
  <2>1. CASE p = tail
    <3>1. Tail'.entry = c[tail].entry
      <4>1. new.blocks[tail].entry = c[tail].entry
        <5>1. p \in Slots /\ c \in Typed /\ \E w, e, q : Passed(c, p, m, new, w, e, q)
          BY <1>0, <1>1, <1>4, <1>5, <1>7, <1>8, <1>9, <1>10, <1>11, RecalculatedIs DEF Types
        <5>2. Distance(p, tail) \notin 1..m
          BY <1>4, <2>1, Distances
        <5> QED
          BY <1>4, <5>1, <5>2 DEF Passed
      <4> QED
        BY <1>13, <1>15, <4>1 DEF Tail
    <3>2. /\ loaded' = FALSE /\ partial' = (partial \/ loaded)
          /\ Tail'.entry = IF loaded THEN speed ELSE Tail.entry
      BY <1>15, <1>21, <2>1, <3>1
    <3> QED
      BY <1>3, <1>15, <1>22, <3>2 DEF SpeedIs
  <2>2. CASE p # tail
    <3>1. Tail' = Tail
      <4>1. p \in Slots /\ c \in Typed /\ \E w, e, q : Passed(c, p, m, new, w, e, q)
        BY <1>0, <1>1, <1>4, <1>5, <1>7, <1>8, <1>9, <1>10, <1>11, RecalculatedIs DEF Types
      <4>2. Distance(p, tail) \notin 1..m
        <5>1. tail \in In(tail, h) /\ Distance(tail, tail) = 0 /\ Distance(tail, p) \in Nat
          BY <1>4, <1>5, <4>1, Distances, RingAssumption DEF Slots
        <5>2. Distance(p, tail) \in 1..m <=> Distance(tail, tail) > Distance(tail, p)
          BY <1>4, <1>5, <1>7, <1>8, <5>1, Seen
        <5> QED
          BY <5>1, <5>2
      <4> QED
        BY <1>4, <1>13, <1>15, <1>16, <1>21, <2>2, <4>1, <4>2 DEF Passed, Tail
    <3>2. loaded' = loaded /\ partial' = partial
      BY <1>15, <1>22, <2>2
    <3> QED
      BY <1>3, <1>15, <1>22, <3>1, <3>2 DEF SpeedIs
  <2> QED
    BY <2>1, <2>2
<1> QED
  BY <1>25, <1>27, <1>28 DEF Smooth

\* The cycle stop of a hold replans for a tool at rest.
LEMMA HoldStopSmooth ==
    ASSUME Inv, Smooth, NoOverrides, HoldStop, Inv'
    PROVE  Smooth'
<1>0. Types /\ Types'
  BY TypesAre DEF Inv
<1>1. /\ control = "end" \/ (Holding /\ head = tail)
      /\ ReplanAll(blocks) /\ control' = "held"
      /\ tail' = tail /\ head' = head /\ prevNominal' = prevNominal
  BY DEF HoldStop, overrides
<1>2. /\ loaded' = FALSE /\ partial' = (partial \/ loaded)
      /\ decelOvr' = decelOvr /\ speed' = speed /\ exit' = exit
  BY <1>1 DEF ReplanAll, ProfileDropped
<1>3. CASE head = tail
  <2>1. speed = 0 /\ exit = 0 /\ ~loaded /\ ~partial /\ ~decelOvr
    BY <1>3, EmptyRests DEF Smooth, SpeedIs
  <2> QED
    BY <1>0, <1>1, <1>2, <1>3, <2>1, EmptySmooth
<1>4. CASE head # tail
  <2>1. /\ speed = 0 /\ (loaded \/ partial) /\ ~decelOvr
        /\ ~loaded => Tail.entry = speed
    BY <1>1, <1>4 DEF Smooth, SpeedIs
  <2>2. /\ tail \in Slots /\ head \in Slots /\ Contents \subseteq Slots /\ tail \in Contents
        /\ Later \subseteq Contents /\ tail \notin Later /\ head \notin Contents
        /\ Contents \subseteq Later \cup {tail}
        /\ \A i \in Contents : NextBlock(i) \in Slots /\ (NextBlock(i) = head \/ NextBlock(i) \in Later)
                               /\ NextBlock(i) # tail
        /\ PrevBlock(head) \in Slots
    BY <1>0, <1>4, ContentsAre, Neighbours
  <2>3. PICK b : b = UpdateTail(blocks)
    OBVIOUS
  <2>4. /\ b \in Typed /\ UpdateTail(b) = b /\ b[tail].entry = 0
        /\ \A i \in Slots : /\ b[i].length = blocks[i].length /\ b[i].maxEntry = blocks[i].maxEntry
                            /\ b[i].rate = blocks[i].rate /\ (i # tail => b[i].entry = blocks[i].entry)
    BY <1>0, <2>1, <2>2, <2>3, TailUpdated DEF Types, Tail
  <2>5. PICK new : new = Recalculated(b, head, tail)
    OBVIOUS
  <2>6. blocks' = new.blocks /\ planned' = new.planned
    BY <1>1, <1>4, <2>3, <2>5 DEF ReplanAll
  <2>7. PICK m : m = Distance(tail, PrevBlock(head))
    OBVIOUS
  <2>8. PICK n : n = [b EXCEPT ![tail].entry = speed]
    OBVIOUS
  <2>9. n = b
    BY <2>1, <2>2, <2>4, <2>8 DEF Typed
  <2>10. \A i \in Later : i \in Slots /\ i # tail /\ PrevBlock(i) \in Slots
    BY <2>2, Neighbours
  <2>11. ASSUME NEW i \in Later
         PROVE  b[i].entry <= b[i].maxEntry /\ Meets(b, head, i)
    <3>1. i \in Contents /\ i \in Slots /\ i # tail
      BY <2>2
    <3>2. At(b, head, NextBlock(i)) = At(Now, head, NextBlock(i))
      <4>1. NextBlock(i) \in Slots /\ NextBlock(i) # tail
        BY <2>2, <3>1
      <4>2. Now[NextBlock(i)] = blocks[NextBlock(i)]
        BY <1>0, <4>1, NowIs
      <4> QED
        BY <2>4, <4>1, <4>2 DEF At
    <3>3. Now[i] = blocks[i] /\ Meets(Now, head, i)
      BY <1>0, <3>1, NowIs DEF Smooth, Feasibly
    <3>4. blocks[i].entry <= blocks[i].maxEntry
      BY DEF Smooth, Limited
    <3> QED
      BY <2>4, <3>1, <3>2, <3>3, <3>4 DEF Meets
  <2>12. Meets(b, head, tail)
    <3>1. b[tail].length \in Nat /\ At(b, head, NextBlock(tail)) \in Nat
      BY <2>2, <2>4 DEF At, Typed
    <3> QED
      BY <2>4, <3>1 DEF Meets
  <2>13. \A i \in Slots : /\ blocks'[i].length = blocks[i].length /\ blocks'[i].maxEntry = blocks[i].maxEntry
                          /\ blocks'[i].rate = blocks[i].rate
    BY <1>0, <2>2, <2>4, <2>5, <2>6, RecalculatedKeeps DEF Types
  <2>14. Contents' = Contents /\ Later' = Later
    BY <1>1 DEF Contents, Later
  <2>15. /\ Feasibly' /\ Tightly' /\ blocks'[tail].entry = 0
         /\ \A i \in Later : blocks'[i].entry <= blocks'[i].maxEntry
    <3>1. CASE m = 0
      <4>1. new.blocks = b
        BY <2>5, <2>7, <3>1 DEF Recalculated
      <4>2. Contents = {tail} /\ Later = {}
        <5>1. PrevBlock(head) = tail
          <6>1. Distance(tail, PrevBlock(head)) = 0 <=> PrevBlock(head) = tail
            BY <2>2, Distances
          <6> QED
            BY <2>7, <3>1, <6>1
        <5>2. NextBlock(tail) = head
          BY <2>2, <5>1, Neighbours
        <5>3. In(tail, head) = In(tail, tail) \cup {tail} /\ In(tail, tail) = {}
          BY <1>4, <2>2, <5>2, InGrows, InIs
        <5> QED
          BY <5>3 DEF Contents, Later
      <4>3. Now'[tail].entry = 0 /\ Now'[tail].length = b[tail].length
        BY <1>0, <1>1, <1>2, <2>1, <2>2, <2>6, <4>1, NowIs
      <4>4. NextBlock(tail) = head
        BY <2>2, <4>2
      <4>5. Feasibly'
        <5>1. Meets(Now', head, tail)
          BY <2>4, <2>12, <4>3, <4>4 DEF Meets, At
        <5> QED
          BY <1>1, <2>14, <4>2, <5>1 DEF Feasibly
      <4> QED
        BY <2>4, <2>6, <2>14, <4>1, <4>2, <4>5 DEF Tightly
    <3>2. CASE m # 0
      <4>1. Before(tail, head, tail) = {tail}
        <5>1. \A i \in Slots : Distance(tail, i) \in Nat /\ (Distance(tail, i) = 0 <=> i = tail)
          BY <2>2, Distances, RingAssumption DEF Slots
        <5> QED
          BY <2>2, <5>1 DEF Before, Contents, In
      <4>2. PICK p : p = tail
        OBVIOUS
      <4>3. PICK c : c = IF p = tail THEN UpdateTail(b) ELSE b
        OBVIOUS
      <4>4. c = b
        BY <2>4, <4>2, <4>3
      <4>5. /\ p \in In(tail, head) /\ m = Distance(p, PrevBlock(head)) /\ new = Recalculated(b, head, p)
        BY <2>2, <2>5, <2>7, <4>2 DEF Contents
      <4>6. /\ \A i \in In(tail, head) : b[i].length > 0
            /\ \A i \in In(tail, head) \ {tail} : b[i].entry <= b[i].maxEntry /\ Meets(b, head, i)
        <5>1. \A i \in Contents : b[i].length > 0
          BY <2>2, <2>4 DEF Inv, Occupied
        <5> QED
          BY <2>11, <5>1 DEF Contents, Later
      <4>7. /\ \A i \in Before(tail, head, p) : Meets(n, head, i)
            /\ c[p].entry = n[p].entry /\ c[p].entry >= n[p].entry
            /\ \A i \in Before(tail, head, p) \ {tail} : Reachable(n, i) /\ Tight(n, head, i)
        BY <2>4, <2>9, <2>12, <4>1, <4>2, <4>4
      <4>8. Feasibly' /\ Tightly' /\ \A i \in Later' : blocks'[i].entry <= blocks'[i].maxEntry
        <5>1. control' \in {"run", "held"} =>
                /\ c[p].entry = n[p].entry
                /\ \A i \in Before(tail, head, p) \ {tail} : Reachable(n, i) /\ Tight(n, head, i)
                /\ p # tail => Fastest(n, p)
          BY <4>2, <4>7
        <5>2. PICK h : h = head
          OBVIOUS
        <5>3. head' = h /\ tail' = tail /\ speed' = speed /\ h \in Slots
          BY <1>1, <1>2, <2>2, <5>2
        <5>4. /\ p \in In(tail, h) /\ m = Distance(p, PrevBlock(h)) /\ new = Recalculated(b, h, p)
              /\ \A i \in In(tail, h) : b[i].length > 0
              /\ \A i \in In(tail, h) \ {tail} : b[i].entry <= b[i].maxEntry /\ Meets(b, h, i)
          BY <4>5, <4>6, <5>2
        <5>5. /\ \A i \in Before(tail, h, p) : Meets(n, h, i)
              /\ c[p].entry >= n[p].entry
              /\ control' \in {"run", "held"} =>
                   /\ c[p].entry = n[p].entry
                   /\ \A i \in Before(tail, h, p) \ {tail} : Reachable(n, i) /\ Tight(n, h, i)
                   /\ p # tail => Fastest(n, p)
          BY <4>7, <5>1, <5>2
        <5>6. b \in Typed /\ blocks' = new.blocks /\ planned' = new.planned
          BY <2>4, <2>6
        <5>7. Replanning(b, h, p, m, c, new, n)
          BY <2>8, <3>2, <4>3, <5>3, <5>4, <5>6 DEF Replanning
        <5>8. GoodBefore(h, p, c, n, control' \in {"run", "held"})
          BY <5>5 DEF GoodBefore
        <5> QED
          BY <1>0, <5>3, <5>6, <5>7, <5>8, ReplannedSmooth
      <4>9. blocks'[tail].entry = 0
        <5>1. \E w, e, q : Passed(c, p, m, new, w, e, q)
          BY <1>0, <2>2, <2>4, <3>2, <4>2, <4>3, <4>5, RecalculatedIs DEF Types
        <5>2. Distance(p, tail) \notin 1..m
          BY <2>2, <4>2, Distances
        <5> QED
          BY <2>2, <2>4, <2>6, <4>4, <5>1, <5>2 DEF Passed
      <4> QED
        BY <2>14, <4>8, <4>9
    <3> QED
      BY <3>1, <3>2
  <2>16. Limited'
    <3>1. Tail'.rate = Tail.rate
      BY <1>1, <2>2, <2>13 DEF Tail
    <3> QED
      BY <1>1, <1>2, <2>2, <2>10, <2>13, <2>14, <2>15, <3>1 DEF Smooth, Limited
  <2>17. SpeedIs'
    <3>1. Tail'.entry = 0
      BY <1>1, <2>15 DEF Tail
    <3>2. loaded' = FALSE /\ partial'
      BY <1>2, <2>1
    <3> QED
      BY <1>1, <1>2, <2>1, <3>1, <3>2 DEF SpeedIs
  <2> QED
    BY <2>15, <2>16, <2>17 DEF Smooth
<1> QED
  BY <1>3, <1>4

LEMMA ResetSmooth ==
    ASSUME ResetPlan, Inv'
    PROVE  Smooth'
<1>1. Types'
  BY TypesAre DEF Inv
<1> QED
  BY <1>1, EmptySmooth DEF ResetPlan

LEMMA InitSmooth == Init => Smooth
<1> SUFFICES ASSUME Init PROVE Smooth
  OBVIOUS
<1>1. Contents = {} /\ Later = {}
  BY ZeroIsSlot, InIs DEF Init, Contents, Later
<1> QED
  BY <1>1 DEF Init, Smooth, Limited, Feasibly, Tightly, SpeedIs

LEMMA StepSmooth ==
    ASSUME Inv, Smooth, NoOverrides, [Next]_vars
    PROVE  Smooth'
<1>0. Inv'
  BY StepInv
<1>1. CASE BufferLine
  BY <1>0, <1>1, BufferFirstSmooth, BufferNextSmooth
<1>2. CASE PrepareWithin
  BY <1>0, <1>2, PrepareWithinSmooth
<1>3. CASE PrepareLast
  BY <1>0, <1>3, PrepareLastSmooth
<1>4. CASE PrepareNothing
  BY <1>0, <1>4, PrepareNothingSmooth
<1>5. CASE StartHold
  BY <1>0, <1>5, StartHoldSmooth
<1>6. CASE HoldStop
  BY <1>0, <1>6, HoldStopSmooth
<1>7. CASE Resume \/ UNCHANGED vars
  BY <1>0, <1>7, ResumeSmooth
<1>8. CASE Override
  <2>1. Types
    BY TypesAre DEF Inv
  <2>2. \A f \in FeedOverrides, r \in RapidOverrides : <<f, r>> = <<fOverride, rOverride>>
    BY <2>1 DEF NoOverrides, Types
  <2> QED
    BY <1>8, <2>2 DEF Override
<1>9. CASE Reset \/ Flush
  <2>1. ResetPlan
    BY <1>9 DEF Reset, Flush
  <2> QED
    BY <1>0, <2>1, ResetSmooth
<1> QED
  BY <1>1, <1>2, <1>3, <1>4, <1>5, <1>6, <1>7, <1>8, <1>9 DEF Next

\* One unit changes the squared speed by one at most.
LEMMA StepContinuous ==
    ASSUME Inv, Smooth, NoOverrides, [Next]_vars
    PROVE  Reset \/ speed' - speed \in -1..1
<1>0. Types
  BY TypesAre DEF Inv
<1>1. speed \in Nat
  BY <1>0 DEF Types
<1>2. CASE PrepareWithin \/ PrepareLast
  <2>1. CanPrepare /\ ~(Holding /\ LoadSpeed = 0) /\ speed' = Advance(LoadSpeed, LoadExit(LoadSpeed))
    BY <1>2 DEF PrepareWithin, PrepareLast
  <2>2. Advance(LoadSpeed, LoadExit(LoadSpeed)) - speed \in -1..1
    BY <2>1, SmoothPrepared
  <2> QED
    BY <2>1, <2>2
<1>3. CASE PrepareNothing
  <2>1. CanPrepare /\ LoadSpeed = 0 /\ speed' = 0
    BY <1>3 DEF PrepareNothing
  <2>2. speed = 0
    BY <2>1, SpeedLoaded DEF Smooth
  <2> QED
    BY <2>1, <2>2
<1>4. CASE Flush
  <2>1. speed' = 0 /\ (control = "end" \/ head = tail)
    BY <1>4 DEF Flush, ResetPlan
  <2>2. speed = 0
    BY <2>1, EmptyRests DEF Smooth, SpeedIs
  <2> QED
    BY <2>1, <2>2
<1>5. CASE BufferLine \/ StartHold \/ HoldStop \/ Resume \/ Override \/ UNCHANGED vars
  <2>1. speed' = speed
    <3>1. CASE BufferLine
      BY <3>1 DEF BufferLine, Replan, ProfileDropped, prep
    <3>2. CASE StartHold
      BY <3>2 DEF StartHold, ProfileDropped
    <3>3. CASE HoldStop \/ Override
      BY <3>3 DEF HoldStop, Override, ReplanAll, ProfileDropped
    <3>4. CASE Resume \/ UNCHANGED vars
      BY <3>4 DEF Resume, vars, prep
    <3> QED
      BY <1>5, <3>1, <3>2, <3>3, <3>4
  <2> QED
    BY <1>1, <2>1
<1> QED
  BY <1>2, <1>3, <1>4, <1>5 DEF Next

-----------------------------------------------------------------------------
(* The best plan, and that it is the plan.                                 *)

\* What the recursions of BestPlan compute, from the speeds that can be met.
Best(n, met, best) ==
    /\ \A j \in 1..n : met[j] \in Nat
    /\ met[n] = 0
    /\ \A j \in 1..n - 1 :
         met[j] = Least(blocks[Ahead(tail, j)].maxEntry, met[j + 1] + blocks[Ahead(tail, j)].length)
    /\ best[0] = StartSpeed
    /\ \A j \in 1..n - 1 :
         best[j] = Least(met[j], best[j - 1] + blocks[Ahead(tail, j - 1)].length)

LEMMA BestPlanIs ==
    ASSUME Types, NEW n, n = Count, n # 0, StartSpeed \in Nat
    PROVE  \E met : Best(n, met, BestPlan)
<1> DEFINE length == LengthAt(blocks, tail, n)
           most == MostAt(blocks, tail, n)
           FixMet(w) == w = [j \in 1..n |->
                               IF j = n THEN 0
                               ELSE Least(blocks[Ahead(tail, j)].maxEntry, w[j + 1] + blocks[Ahead(tail, j)].length)]
           step == [k \in 1..n - 1 |-> [v \in Nat |-> Least(most[n - k], v + length[n - k])]]
<1>0. n \in Nat \ {0} /\ n \in Slots /\ n - 1 \in Nat
  <2>1. Count \in Slots
    BY DistanceIs DEF Types, Count
  <2> QED
    BY <2>1, RingAssumption DEF Slots
<1>1. /\ Numbers(n, length) /\ Numbers(n, most)
      /\ \A k \in 0..n : length[k] = blocks[Ahead(tail, k)].length /\ most[k] = blocks[Ahead(tail, k)].maxEntry
  BY <1>0, SeenTyped DEF Types
<1> HIDE DEF length, most
<1>2. PICK f : Chain(n - 1, 0, step, f)
  <2>1. ASSUME NEW k \in 1..n - 1, NEW v \in Nat PROVE step[k][v] \in Nat
    <3>1. n - k \in 0..n
      BY <1>0
    <3> QED
      BY <1>1, <3>1 DEF Numbers, Least
  <2> HIDE DEF step
  <2> QED
    BY <1>0, <2>1, ChainExists
<1>3. /\ f \in [0..n - 1 -> Nat] /\ f[0] = 0
      /\ \A j \in 1..n - 1 : f[j] = step[j][f[j - 1]]
  BY <1>2 DEF Chain
<1> DEFINE w0 == [j \in 1..n |-> f[n - j]]
<1>4. FixMet(w0)
  <2>1. ASSUME NEW j \in 1..n
        PROVE  w0[j] = IF j = n THEN 0
                       ELSE Least(blocks[Ahead(tail, j)].maxEntry, w0[j + 1] + blocks[Ahead(tail, j)].length)
    <3>1. j \in 0..n /\ length[j] = blocks[Ahead(tail, j)].length /\ most[j] = blocks[Ahead(tail, j)].maxEntry
      BY <1>0, <1>1
    <3>2. CASE j = n
      BY <1>0, <1>3, <3>2
    <3>3. CASE j # n
      <4>1. /\ n - j \in 1..n - 1 /\ n - (n - j) = j /\ j + 1 \in 1..n /\ n - (j + 1) = (n - j) - 1
            /\ (n - j) - 1 \in 0..n - 1
        BY <1>0, <3>3
      <4>2. w0[j] = f[n - j] /\ w0[j + 1] = f[(n - j) - 1] /\ f[(n - j) - 1] \in Nat
        BY <1>3, <4>1
      <4>3. f[n - j] = step[n - j][f[(n - j) - 1]]
        BY <1>3, <4>1
      <4>4. step[n - j][f[(n - j) - 1]] = Least(most[j], f[(n - j) - 1] + length[j])
        BY <4>1, <4>2
      <4> HIDE DEF w0, step
      <4> QED
        BY <3>1, <3>3, <4>2, <4>3, <4>4
    <3> QED
      BY <3>2, <3>3
  <2> HIDE DEF step
  <2> QED
    BY <2>1
<1> HIDE DEF step, w0
<1>5. PICK met : met = CHOOSE w : FixMet(w)
  OBVIOUS
<1>6. FixMet(met)
  <2> HIDE DEF FixMet
  <2> QED
    BY <1>4, <1>5
<1>7. /\ met[n] = 0
      /\ \A j \in 1..n - 1 :
           met[j] = Least(blocks[Ahead(tail, j)].maxEntry, met[j + 1] + blocks[Ahead(tail, j)].length)
  <2>1. n \in 1..n
    BY <1>0
  <2>2. \A j \in 1..n - 1 : j \in 1..n /\ j # n
    BY <1>0
  <2> QED
    BY <1>6, <2>1, <2>2
<1>8. \A j \in 1..n : met[j] \in Nat
  <2> DEFINE T == {j \in 1..n : met[j] \in Nat}
  <2> HIDE DEF FixMet
  <2>1. n \in T
    BY <1>0, <1>7
  <2>2. ASSUME NEW j \in 1..n - 1, j + 1 \in T PROVE j \in T
    <3>1. j \in 0..n /\ j \in 1..n
      BY <1>0
    <3>2. /\ met[j + 1] \in Nat /\ blocks[Ahead(tail, j)].maxEntry \in Nat
          /\ blocks[Ahead(tail, j)].length \in Nat
      BY <1>1, <2>2, <3>1 DEF Numbers
    <3>3. met[j] \in Nat
      BY <1>7, <3>2 DEF Least
    <3> QED
      BY <3>1, <3>3
  <2> HIDE DEF T
  <2>3. \A j \in 1..n : j \in T
    BY <1>0, <2>1, <2>2, Downwards
  <2> QED
    BY <2>3 DEF T
<1> DEFINE FixBest(w) == w = [j \in 0..n - 1 |->
                                IF j = 0 THEN StartSpeed
                                ELSE Least(met[j], w[j - 1] + blocks[Ahead(tail, j - 1)].length)]
           up == [k \in 1..n - 1 |-> [v \in Nat |-> Least(met[k], v + length[k - 1])]]
<1>9. BestPlan = CHOOSE w : FixBest(w)
  BY <1>5 DEF BestPlan
<1>10. PICK g : Chain(n - 1, StartSpeed, up, g)
  <2>1. ASSUME NEW k \in 1..n - 1, NEW v \in Nat PROVE up[k][v] \in Nat
    <3>1. k - 1 \in 0..n /\ k \in 1..n
      BY <1>0
    <3>2. met[k] \in Nat /\ length[k - 1] \in Nat
      BY <1>1, <1>8, <3>1 DEF Numbers
    <3> QED
      BY <3>2 DEF Least
  <2> HIDE DEF up
  <2> QED
    BY <1>0, <2>1, ChainExists
<1>11. FixBest(g)
  <2>1. /\ g \in [0..n - 1 -> Nat] /\ g[0] = StartSpeed
        /\ \A k \in 1..n - 1 : g[k] = up[k][g[k - 1]]
    BY <1>10 DEF Chain
  <2>2. ASSUME NEW k \in 0..n - 1, k # 0
        PROVE  g[k] = Least(met[k], g[k - 1] + blocks[Ahead(tail, k - 1)].length)
    <3>1. k \in 1..n - 1 /\ k - 1 \in 0..n - 1 /\ k - 1 \in 0..n
      BY <1>0, <2>2
    <3>2. g[k - 1] \in Nat /\ length[k - 1] = blocks[Ahead(tail, k - 1)].length
      BY <1>1, <2>1, <3>1
    <3>3. g[k] = up[k][g[k - 1]]
      BY <2>1, <3>1
    <3>4. up[k][g[k - 1]] = Least(met[k], g[k - 1] + length[k - 1])
      BY <3>1, <3>2
    <3> HIDE DEF up
    <3> QED
      BY <3>2, <3>3, <3>4
  <2> HIDE DEF up
  <2> QED
    BY <2>1, <2>2
<1>12. FixBest(BestPlan)
  <2> HIDE DEF FixBest
  <2> QED
    BY <1>9, <1>11
<1>13. /\ BestPlan[0] = StartSpeed
       /\ \A j \in 1..n - 1 :
            BestPlan[j] = Least(met[j], BestPlan[j - 1] + blocks[Ahead(tail, j - 1)].length)
  <2>1. 0 \in 0..n - 1
    BY <1>0
  <2>2. \A j \in 1..n - 1 : j \in 0..n - 1 /\ j # 0
    BY <1>0
  <2> HIDE DEF FixMet
  <2> QED
    BY <1>12, <2>1, <2>2
<1> QED
  BY <1>7, <1>8, <1>13 DEF Best

\* An entry speed is no more than what can be met ...
LEMMA MetStep ==
    ASSUME NEW e, NEW en, NEW met, NEW metn, NEW most, NEW length,
           e \in Nat, en \in Nat, met \in Nat, metn \in Nat, most \in Nat, length \in Nat,
           met = Least(most, metn + length), e <= most, e <= length + en, en <= metn
    PROVE  e <= met
BY DEF Least

\* ... and as much, unless the block before does not allow it.
LEMMA AsMuchStep ==
    ASSUME NEW e, NEW ep, NEW en, NEW met, NEW metn, NEW most, NEW length, NEW lengthp,
           e \in Nat, ep \in Nat, en \in Nat, met \in Nat, metn \in Nat, most \in Nat, length \in Nat,
           lengthp \in Nat, length > 0,
           met = Least(most, metn + length), e <= met,
           e = most \/ e = ep + lengthp \/ e = length + en,
           en = metn \/ en = e + length
    PROVE  e = met \/ e = ep + lengthp
BY DEF Least

LEMMA SmoothOptimal ==
    ASSUME Inv, Smooth
    PROVE  PlanOptimal
<1> SUFFICES ASSUME control \in {"run", "held"}, NEW k \in 1..Count - 1
             PROVE  blocks[Ahead(tail, k)].entry = BestPlan[k]
  BY DEF PlanOptimal
<1>0. Types
  BY TypesAre DEF Inv
<1>1. PICK n : n = Count
  OBVIOUS
<1>2. n \in Slots /\ n \in Nat /\ n # 0 /\ head # tail /\ n - 1 \in Nat /\ n \in Nat \ {0}
  <2>1. Count \in Slots /\ (Count = 0 <=> head = tail)
    BY <1>0, Distances DEF Count, Types
  <2> QED
    BY <1>1, <2>1, RingAssumption DEF Slots
<1>3. StartSpeed = speed /\ speed \in Nat
  BY <1>0, <1>2 DEF StartSpeed, Smooth, SpeedIs, Types
<1>4. PICK met : Best(n, met, BestPlan)
  BY <1>0, <1>1, <1>2, <1>3, BestPlanIs
<1>5. /\ tail \in Slots /\ head \in Slots /\ Contents \subseteq Slots /\ tail \in Contents
      /\ tail \notin Later /\ head \notin Contents
  BY <1>0, <1>2, ContentsAre
<1>6. \A j \in 0..n - 1 : /\ j \in Slots /\ Ahead(tail, j) \in Contents
                          /\ NextBlock(Ahead(tail, j)) = Ahead(tail, j + 1)
                          /\ j # 0 => Ahead(tail, j) \in Later
  <2> TAKE j \in 0..n - 1
  <2>1. j \in Slots /\ j + 1 \in Slots /\ j < n
    BY <1>2, RingAssumption DEF Slots
  <2>2. /\ Ahead(tail, j) \in Slots /\ Distance(tail, Ahead(tail, j)) = j
        /\ NextBlock(Ahead(tail, j)) = Ahead(tail, j + 1)
    BY <1>5, <2>1, Places
  <2>3. Distance(tail, tail) = 0
    BY <1>5, Distances
  <2> QED
    BY <1>1, <2>1, <2>2, <2>3 DEF Contents, Later, In, Count
<1>7. Ahead(tail, n) = head /\ Ahead(tail, 0) = tail
  <2>1. Ahead(tail, Distance(tail, head)) = head /\ Ahead(tail, Distance(tail, tail)) = tail
        /\ Distance(tail, tail) = 0
    BY <1>5, Distances
  <2> QED
    BY <1>1, <2>1 DEF Count
<1> DEFINE e == [j \in 0..n |-> IF j = n THEN 0 ELSE Now[Ahead(tail, j)].entry]
           length == [j \in 0..n |-> blocks[Ahead(tail, j)].length]
           most == [j \in 0..n |-> blocks[Ahead(tail, j)].maxEntry]
<1>8. ASSUME NEW j \in 0..n - 1
      PROVE  /\ e[j] \in Nat /\ length[j] \in Nat \ {0} /\ most[j] \in Nat
             /\ e[j] = Now[Ahead(tail, j)].entry
             /\ length[j] = Now[Ahead(tail, j)].length
             /\ length[j] = blocks[Ahead(tail, j)].length
             /\ most[j] = blocks[Ahead(tail, j)].maxEntry
             /\ most[j] = Now[Ahead(tail, j)].maxEntry
             /\ j # 0 => e[j] = blocks[Ahead(tail, j)].entry
  <2>1. Ahead(tail, j) \in Contents /\ Ahead(tail, j) \in Slots /\ j \in 0..n /\ j # n
        /\ (j # 0 => Ahead(tail, j) # tail)
    <3>1. j \in 0..n /\ j # n
      BY <1>2
    <3> QED
      BY <1>5, <1>6, <3>1
  <2>2. blocks[Ahead(tail, j)].length > 0
    BY <2>1 DEF Inv, Occupied
  <2>3. Now \in Typed /\ blocks \in Typed /\ (\A i \in Slots : i # tail => Now[i] = blocks[i])
        /\ \A i \in Slots : Now[i].length = blocks[i].length /\ Now[i].maxEntry = blocks[i].maxEntry
    BY <1>0, NowIs DEF Types
  <2> QED
    BY <2>1, <2>2, <2>3 DEF Typed
<1>9. e[n] = 0 /\ e[0] = speed
  <2>1. n \in 0..n /\ 0 \in 0..n - 1
    BY <1>2
  <2>2. e[0] = Now[tail].entry
    BY <1>7, <1>8, <2>1
  <2> QED
    BY <1>0, <2>1, <2>2, NowIs
<1>10. ASSUME NEW j \in 1..n - 1
       PROVE  /\ j \in 0..n - 1 /\ j - 1 \in 0..n - 1 /\ j + 1 \in 1..n /\ j \in 1..n
              /\ e[j] <= most[j] /\ e[j] <= length[j] + e[j + 1] /\ e[j] <= e[j - 1] + length[j - 1]
              /\ e[j] = most[j] \/ e[j] = e[j - 1] + length[j - 1] \/ e[j] = length[j] + e[j + 1]
              /\ e[j + 1] \in Nat
              /\ met[j] = Least(most[j], met[j + 1] + length[j])
              /\ BestPlan[j] = Least(met[j], BestPlan[j - 1] + length[j - 1])
              /\ met[j] \in Nat /\ met[j + 1] \in Nat
  <2>1. /\ j \in 0..n - 1 /\ j # 0 /\ j - 1 \in 0..n - 1 /\ (j - 1) + 1 = j /\ j + 1 \in 1..n /\ j \in 1..n
        /\ j + 1 \in 0..n /\ (j + 1 # n => j + 1 \in 0..n - 1)
    BY <1>2
  <2> DEFINE i == Ahead(tail, j)
  <2>2. /\ i \in Later /\ i \in Contents /\ i \in Slots /\ NextBlock(i) = Ahead(tail, j + 1)
        /\ PrevBlock(i) = Ahead(tail, j - 1)
    <3>1. NextBlock(Ahead(tail, j - 1)) = i /\ Ahead(tail, j - 1) \in Slots
      BY <1>5, <1>6, <2>1
    <3> QED
      BY <1>5, <1>6, <2>1, <3>1, Neighbours
  <2>3. At(Now, head, NextBlock(i)) = e[j + 1]
    <3>1. CASE j + 1 = n
      BY <1>7, <1>9, <2>2, <3>1 DEF At
    <3>2. CASE j + 1 # n
      <4>1. e[j + 1] = Now[Ahead(tail, j + 1)].entry /\ Ahead(tail, j + 1) # head
        BY <1>5, <1>6, <1>8, <2>1, <3>2
      <4> QED
        BY <2>2, <4>1 DEF At
    <3> QED
      BY <3>1, <3>2
  <2>4. /\ blocks[i].entry <= blocks[i].maxEntry
        /\ Meets(Now, head, i) /\ Reachable(Now, i) /\ Tight(Now, head, i)
    BY <2>2 DEF Smooth, Limited, Feasibly, Tightly
  <2>5. /\ e[j] = Now[i].entry /\ length[j] = Now[i].length /\ most[j] = Now[i].maxEntry
        /\ e[j - 1] = Now[PrevBlock(i)].entry /\ length[j - 1] = Now[PrevBlock(i)].length
        /\ e[j] = blocks[i].entry /\ most[j] = blocks[i].maxEntry
    BY <1>8, <2>1, <2>2
  <2>6. e[j + 1] \in Nat
    BY <1>8, <1>9, <2>1
  <2>7. /\ met[j] = Least(blocks[i].maxEntry, met[j + 1] + blocks[i].length)
        /\ BestPlan[j] = Least(met[j], BestPlan[j - 1] + blocks[Ahead(tail, j - 1)].length)
        /\ met[j] \in Nat /\ met[j + 1] \in Nat
    BY <1>4, <2>1 DEF Best
  <2>8. length[j] = blocks[i].length /\ length[j - 1] = blocks[Ahead(tail, j - 1)].length
    BY <1>8, <2>1
  <2> HIDE DEF e, length, most, i
  <2> QED
    BY <2>1, <2>3, <2>4, <2>5, <2>6, <2>7, <2>8 DEF Meets, Reachable, Tight, Fastest, Accelerated
<1> HIDE DEF e, length, most
<1>11. \A j \in 1..n : e[j] <= met[j]
  <2> DEFINE T == {j \in 1..n : e[j] <= met[j]}
  <2>1. n \in T
    BY <1>2, <1>4, <1>9 DEF Best
  <2>2. ASSUME NEW j \in 1..n - 1, j + 1 \in T PROVE j \in T
    <3>1. e[j] \in Nat /\ most[j] \in Nat /\ length[j] \in Nat
      BY <1>8, <1>10
    <3>2. e[j + 1] <= met[j + 1]
      BY <2>2
    <3>3. e[j] <= met[j]
      BY <1>10, <3>1, <3>2, MetStep
    <3> QED
      BY <1>10, <3>3
  <2> HIDE DEF T
  <2>3. \A j \in 1..n : j \in T
    BY <1>2, <2>1, <2>2, Downwards
  <2> QED
    BY <2>3 DEF T
<1>12. \A j \in 1..n - 1 : e[j] = met[j] \/ e[j] = e[j - 1] + length[j - 1]
  <2> DEFINE T == {j \in 1..n : e[j] = met[j] \/ e[j] = e[j - 1] + length[j - 1]}
  <2>1. n \in T
    BY <1>2, <1>4, <1>9 DEF Best
  <2>2. ASSUME NEW j \in 1..n - 1, j + 1 \in T PROVE j \in T
    <3>1. /\ e[j] \in Nat /\ most[j] \in Nat /\ length[j] \in Nat /\ length[j] > 0
          /\ e[j - 1] \in Nat /\ length[j - 1] \in Nat
      BY <1>8, <1>10
    <3>2. e[j + 1] = met[j + 1] \/ e[j + 1] = e[j] + length[j]
      <4>1. (j + 1) - 1 = j
        OBVIOUS
      <4> QED
        BY <2>2, <4>1
    <3>3. e[j] = met[j] \/ e[j] = e[j - 1] + length[j - 1]
      BY <1>10, <1>11, <3>1, <3>2, AsMuchStep
    <3> QED
      BY <1>10, <3>3
  <2> HIDE DEF T
  <2>3. \A j \in 1..n : j \in T
    BY <1>2, <2>1, <2>2, Downwards
  <2>4. \A j \in 1..n - 1 : j \in 1..n
    BY <1>2
  <2> QED
    BY <2>3, <2>4 DEF T
<1>13. \A j \in 0..n - 1 : e[j] = BestPlan[j]
  <2> DEFINE T == {j \in 0..n - 1 : e[j] = BestPlan[j]}
  <2>1. 0 \in T
    BY <1>2, <1>3, <1>4, <1>9 DEF Best
  <2>2. ASSUME NEW j \in 1..n - 1, j - 1 \in T PROVE j \in T
    <3>1. e[j] \in Nat /\ e[j - 1] \in Nat /\ length[j - 1] \in Nat /\ met[j] \in Nat
      BY <1>8, <1>10
    <3>2. BestPlan[j] = Least(met[j], e[j - 1] + length[j - 1])
      <4>1. e[j - 1] = BestPlan[j - 1]
        BY <2>2
      <4> QED
        BY <1>10, <4>1
    <3>3. e[j] <= met[j] /\ e[j] <= e[j - 1] + length[j - 1]
          /\ (e[j] = met[j] \/ e[j] = e[j - 1] + length[j - 1])
      BY <1>10, <1>11, <1>12
    <3>4. e[j] = BestPlan[j]
      BY <3>1, <3>2, <3>3 DEF Least
    <3> QED
      BY <1>10, <3>4
  <2> HIDE DEF T
  <2>3. \A j \in 0..n - 1 : j \in T
    BY <1>2, <2>1, <2>2, Upwards
  <2> QED
    BY <2>3 DEF T
<1>14. k \in 0..n - 1 /\ k # 0
  BY <1>1, <1>2
<1> QED
  BY <1>8, <1>13, <1>14

-----------------------------------------------------------------------------

LEMMA SmoothHolds == ASSUME NoOverrides PROVE Spec => []Smooth
<1>1. Init => Smooth
  BY InitSmooth
<1>2. Inv /\ Smooth /\ [Next]_vars => Smooth'
  BY StepSmooth
<1> QED
  BY <1>1, <1>2, InvHolds, PTL DEF Spec

\* Where the overrides stay at 100 per cent, the real speed never jumps: not
\* at a junction, in a hold, at its end, at the resume after it or when the
\* running block is replanned (st_prep_buffer and planner_recalculate).
THEOREM SpeedIsContinuous == ASSUME NoOverrides PROVE Spec => SpeedContinuous
<1>1. Inv /\ Smooth /\ [Next]_vars => [Reset \/ speed' - speed \in -1..1]_vars
  BY StepContinuous
<1> QED
  BY <1>1, InvHolds, SmoothHolds, PTL DEF Spec, SpeedContinuous

\* And the planned pointer never makes planner_recalculate stop too early:
\* every junction has the greatest speed from which the tool can still meet
\* all later ones and that it can reach from the speed it has.
THEOREM PlanIsOptimal == ASSUME NoOverrides PROVE Spec => []PlanOptimal
<1>1. Inv /\ Smooth => PlanOptimal
  BY SmoothOptimal
<1> QED
  BY <1>1, InvHolds, SmoothHolds, PTL
=====
