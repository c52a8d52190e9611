------------------------------- MODULE Planner -------------------------------
(***************************************************************************)
(* The motion planner (planner.c) with the part of st_prep_buffer that     *)
(* executes its plan (stepper.c): the ring of blocks, the two passes of    *)
(* planner_recalculate with the planned pointer that lets them stop early, *)
(* feed holds, overrides, and the speed the steppers really have.          *)
(*                                                                         *)
(* All of it runs in the main program, one call at a time.  Speeds are     *)
(* squared (as the planner stores them) and a distance is measured by the  *)
(* change of squared speed it allows: a block of length L can lose or gain *)
(* L, which is 2*acceleration*millimeters in the code.  st_prep_buffer     *)
(* advances by one unit at a time, so a peak between two units is flat.    *)
(***************************************************************************)
EXTENDS Integers, FiniteSetsExt

CONSTANTS
  Ring,          \* BLOCK_BUFFER_SIZE
  Lengths,       \* lengths of the motions the host may ask for
  FeedRates,     \* rates of the feed motions it may ask for
  RapidRate,     \* the rate of rapids and the limit of feeds
  Junctions,     \* squared speeds the corners allow
  FeedOverrides, \* the feed overrides the operator may reach
  RapidOverrides,\* the rapid overrides
  Full,          \* the override of 100 per cent
  Fast           \* SOME_LARGE_VALUE, above every rate

ASSUME RingAssumption == Ring \in Nat /\ Ring > 2
ASSUME MotionAssumption == /\ Lengths \subseteq Nat \ {0}
                           /\ FeedRates \subseteq Nat \ {0}
                           /\ RapidRate \in Nat \ {0}
                           /\ Junctions \subseteq Nat
ASSUME OverrideAssumption == /\ Full \in FeedOverrides \cap RapidOverrides
                             /\ FeedOverrides \cup RapidOverrides \subseteq Nat \ {0}
ASSUME FastAssumption == Fast \in Nat /\ \A rate \in FeedRates \cup {RapidRate} : rate <= Fast

Rapid == 0             \* the rate of a rapid motion
MinRate == 1           \* MINIMUM_FEED_RATE
Slots == 0 .. Ring - 1

VARIABLES
  blocks,      \* block_buffer
  tail,        \* block_buffer_tail
  head,        \* block_buffer_head
  planned,     \* block_buffer_planned
  prevNominal, \* pl.previous_nominal_speed
  fOverride,   \* sys.f_override
  rOverride,   \* sys.r_override
  loaded,      \* pl_block # NULL: a profile is computed for the tail
  partial,     \* PREP_FLAG_RECALCULATE
  decelOvr,    \* PREP_FLAG_DECEL_OVERRIDE
  speed,       \* prep.current_speed, squared
  exit,        \* prep.exit_speed, squared
  control      \* sys.step_control: "run", "hold", "end" (of motion); or
               \* "held": the hold is complete and the main program waits

plan == <<blocks, tail, head, planned>>
prep == <<loaded, partial, decelOvr, speed, exit>>
overrides == <<prevNominal, fOverride, rOverride>>
vars == <<plan, overrides, prep, control>>

Least(a, b) == IF a < b THEN a ELSE b
Most(a, b)  == IF a > b THEN a ELSE b

(***************************************************************************)
(* Indices of the ring.                                                    *)
(***************************************************************************)
NextBlock(i) == (i + 1) % Ring
PrevBlock(i) == (i + Ring - 1) % Ring
Ahead(from, k) == (from + k) % Ring
Distance(from, to) == (to - from + Ring) % Ring

Count == Distance(tail, head)
IsFull == NextBlock(head) = tail           \* plan_check_full_buffer
Tail == blocks[tail]
NoBlock == [entry |-> 0, maxEntry |-> 0, junction |-> 0, length |-> 0, rate |-> Rapid]

(***************************************************************************)
(* Nominal speed of a block under the given overrides, and the greatest    *)
(* squared speed at which it may be entered.                               *)
(***************************************************************************)
Nominal(b, f, r) ==
  Most(MinRate, IF b.rate = Rapid THEN (RapidRate * r) \div Full
                                  ELSE Least(RapidRate, (b.rate * f) \div Full))

MaxEntry(b, nominal, prev) ==
  Least(b.junction, Least(nominal * nominal, prev * prev))

(***************************************************************************)
(* planner_recalculate.  The blocks from the planned one to the last are   *)
(* numbered 0 .. m.  The reverse pass gives each but the first the speed   *)
(* from which it can still slow down to the next, except that a block      *)
(* already at its maximum is skipped.  The forward pass lowers it to what  *)
(* can be reached from the block before, and moves the planned pointer to  *)
(* the last block that is entered at full acceleration or at its maximum.  *)
(* What is left in slots outside the ring's contents is forgotten; only    *)
(* the passes over an empty ring read it.                                  *)
(***************************************************************************)
(* The last block ends at rest.                                            *)
LastEntryAtFullSpeed(b) == b.maxEntry      \* faulty variant
LastEntry(b) == Least(b.maxEntry, b.length)

Reverse(b, p, m) ==
  LET block(k) == b[Ahead(p, k)]
      entry[k \in 1 .. m] ==
        IF k = m THEN LastEntry(block(k))
        ELSE IF block(k).entry = block(k).maxEntry THEN block(k).entry
        ELSE Least(entry[k + 1] + block(k).length, block(k).maxEntry)
  IN  entry

Reached(from, length, to) ==
  IF from < to /\ from + length < to THEN from + length ELSE to

Forward(b, p, m, wanted) ==
  LET entry[k \in 0 .. m] ==
        IF k = 0 THEN b[p].entry
        ELSE Reached(entry[k - 1], b[Ahead(p, k - 1)].length, wanted[k])
  IN  entry

PlannedUpToLast(b, p, m, wanted, entry) == m     \* faulty variant
PlannedUpTo(b, p, m, wanted, entry) ==
  Max({0} \cup {k \in 1 .. m : \/ entry[k] < wanted[k]
                              \/ entry[k] = b[Ahead(p, k)].maxEntry})

(* st_update_plan_block_parameters: the tail goes on from its real speed.  *)
UpdateTail(b) == IF loaded THEN [b EXCEPT ![tail].entry = speed] ELSE b

(* Is the tail replanned?  With two blocks that is noticed separately.     *)
TellsStepper(m, p) == m > 0 /\ p = tail

(* The blocks b, of which those before h count, planned up to p: the new   *)
(* blocks, the new pointer, and whether the steppers were told.            *)
Recalculated(b, h, p) ==
  LET m == Distance(p, PrevBlock(h))
      told == TellsStepper(m, p)
      c == IF told THEN UpdateTail(b) ELSE b
      wanted == Reverse(c, p, m)
      entry == Forward(c, p, m, wanted)
  IN  IF m = 0 THEN [blocks |-> b, planned |-> p, told |-> FALSE]
      ELSE [blocks  |-> [i \in Slots |->
                           IF Distance(p, i) \in 1 .. m
                           THEN [c[i] EXCEPT !.entry = entry[Distance(p, i)]]
                           ELSE c[i]],
            planned |-> Ahead(p, PlannedUpTo(c, p, m, wanted, entry)),
            told    |-> told]

(* What st_update_plan_block_parameters does to the segment generator.     *)
ProfileDropped == /\ loaded' = FALSE
                  /\ partial' = (partial \/ loaded)
                  /\ UNCHANGED <<decelOvr, speed, exit>>

Replan(b, h, p) ==
  LET new == Recalculated(b, h, p)
  IN  /\ blocks' = new.blocks
      /\ planned' = new.planned
      /\ IF new.told THEN ProfileDropped ELSE UNCHANGED prep

(* plan_cycle_reinitialize, on the blocks b.  On an empty ring the passes  *)
(* run once around it, and leave the planned pointer at any slot.          *)
ReplanAll(b) ==
  /\ ProfileDropped
  /\ IF head = tail
     THEN blocks' = b /\ planned' \in Slots
     ELSE LET new == Recalculated(UpdateTail(b), head, tail)
          IN  blocks' = new.blocks /\ planned' = new.planned

-----------------------------------------------------------------------------
Init ==
  /\ blocks = [i \in Slots |-> NoBlock]
  /\ tail = 0 /\ head = 0 /\ planned = 0
  /\ prevNominal = 0 /\ fOverride = Full /\ rOverride = Full
  /\ loaded = FALSE /\ partial = FALSE /\ decelOvr = FALSE
  /\ speed = 0 /\ exit = 0
  /\ control = "run"

(* plan_buffer_line.  A motion into an empty ring starts from rest.  The   *)
(* callers wait for room, and are suspended once a hold is complete.       *)
BufferLine ==
  /\ control # "held"
  /\ ~IsFull
  /\ \E length \in Lengths, rate \in FeedRates \cup {Rapid}, corner \in Junctions :
       LET junction == IF head = tail THEN 0 ELSE corner
           b == [NoBlock EXCEPT !.length = length, !.rate = rate, !.junction = junction]
           nominal == Nominal(b, fOverride, rOverride)
           new == [b EXCEPT !.maxEntry = MaxEntry(b, nominal, prevNominal)]
       IN  /\ prevNominal' = nominal
           /\ Replan([blocks EXCEPT ![head] = new], NextBlock(head), planned)
  /\ head' = NextBlock(head)
  /\ UNCHANGED <<tail, fOverride, rOverride, control>>

-----------------------------------------------------------------------------
(* Where planned goes when the tail is discarded.                          *)
PushedPointer == IF planned = tail THEN NextBlock(tail) ELSE planned

(***************************************************************************)
(* st_prep_buffer: load the tail or its new profile if need be, and go on  *)
(* by one unit.                                                            *)
(***************************************************************************)
Holding == control = "hold"

(* The speed at which the tail is entered or gone on with.  A block loaded *)
(* while slowing down takes the exit speed of the one before.              *)
LoadSpeedAsPlanned ==                      \* faulty variant
  IF loaded \/ partial THEN speed ELSE Tail.entry

LoadSpeed ==
  IF loaded \/ partial THEN speed
  ELSE IF Holding \/ decelOvr THEN exit
  ELSE Tail.entry

PlannedExit ==     \* plan_get_exec_block_exit_speed_sqr
  IF NextBlock(tail) = head THEN 0 ELSE blocks[NextBlock(tail)].entry

NominalSqr == LET n == Nominal(Tail, fOverride, rOverride) IN n * n

(* Too fast for the nominal speed to be reached within the block: only     *)
(* after an override.                                                      *)
SlowingThrough(v) == v > NominalSqr /\ v - NominalSqr >= Tail.length

LoadExit(v) ==
  IF loaded THEN exit
  ELSE IF Holding THEN Most(v - Tail.length, 0)
  ELSE IF SlowingThrough(v) THEN v - Tail.length
  ELSE PlannedExit

(* The speed one unit on, from speed v, to leave at speed x.               *)
Advance(v, x) ==
  LET rest == Tail.length - 1
      limit == x + rest
  IN  IF Holding THEN v - 1
      ELSE IF rest = 0 THEN x
      ELSE IF v > NominalSqr THEN v - 1
      ELSE IF v < NominalSqr /\ v < limit THEN v + 1
      ELSE IF v <= limit THEN v
      ELSE v - 1

(* A fresh profile for the tail; a flag of an earlier override is used up.  *)
Load(v, x) ==
  /\ partial' = FALSE
  /\ exit' = x
  /\ decelOvr' = IF loaded THEN decelOvr ELSE ~Holding /\ SlowingThrough(v)

TailLeft(v, length) ==
  [blocks EXCEPT ![tail].entry = IF loaded THEN @ ELSE v, ![tail].length = length]

CanPrepare == control \in {"run", "hold"} /\ head # tail

(* One unit within the block; a hold that comes to rest here ends motion.  *)
PrepareWithin ==
  /\ CanPrepare
  /\ Tail.length > 1
  /\ LET v == LoadSpeed
         x == LoadExit(v)
     IN  /\ ~(Holding /\ v = 0)
         /\ Load(v, x)
         /\ speed' = Advance(v, x)
         /\ blocks' = TailLeft(v, Tail.length - 1)
         /\ loaded' = TRUE
         /\ control' = IF Holding /\ speed' = 0 THEN "end" ELSE control
  /\ UNCHANGED <<tail, head, planned, overrides>>

(* The last unit: the block is discarded (plan_discard_current_block),     *)
(* with the planned pointer if that is where it is.                        *)
PrepareLast ==
  /\ CanPrepare
  /\ Tail.length = 1
  /\ LET v == LoadSpeed
         x == LoadExit(v)
     IN  /\ ~(Holding /\ v = 0)
         /\ Load(v, x)
         /\ speed' = Advance(v, x)
  /\ loaded' = FALSE
  /\ blocks' = [blocks EXCEPT ![tail] = NoBlock]
  /\ tail' = NextBlock(tail)
  /\ planned' = PushedPointer
  /\ UNCHANGED <<head, overrides, control>>

(* In a hold at rest: nothing is left to execute.                          *)
PrepareNothing ==
  /\ CanPrepare
  /\ Holding
  /\ LoadSpeed = 0
  /\ Load(0, 0)
  /\ speed' = 0
  /\ blocks' = TailLeft(0, Tail.length)
  /\ loaded' = TRUE
  /\ control' = "end"
  /\ UNCHANGED <<tail, head, planned, overrides>>

-----------------------------------------------------------------------------
(***************************************************************************)
(* protocol_exec_rt_system.                                                *)
(***************************************************************************)
(* A feed hold, safety door or sleep in motion.                            *)
StartHold ==
  /\ control = "run"
  /\ head # tail
  /\ ProfileDropped
  /\ blocks' = UpdateTail(blocks)
  /\ control' = "hold"
  /\ UNCHANGED <<tail, head, planned, overrides>>

(* The steppers have executed what was prepared: the cycle stop in a hold. *)
HoldStop ==
  /\ control = "end" \/ (Holding /\ head = tail)
  /\ ReplanAll(blocks)
  /\ control' = "held"
  /\ UNCHANGED <<tail, head, overrides>>

(* The cycle start that leaves a complete hold.                            *)
Resume ==
  /\ control = "held"
  /\ control' = "run"
  /\ UNCHANGED <<plan, overrides, prep>>

(* A feed or rapid override, in any state:                                 *)
(* plan_update_velocity_profile_parameters and plan_cycle_reinitialize.    *)
Reprofiled(f, r) ==
  [i \in Slots |->
    IF Distance(tail, i) < Count
    THEN [blocks[i] EXCEPT !.maxEntry =
            MaxEntry(blocks[i], Nominal(blocks[i], f, r),
                     IF i = tail THEN Fast ELSE Nominal(blocks[PrevBlock(i)], f, r))]
    ELSE blocks[i]]

Override ==
  /\ \E f \in FeedOverrides, r \in RapidOverrides :
       /\ <<f, r>> # <<fOverride, rOverride>>
       /\ fOverride' = f
       /\ rOverride' = r
       /\ prevNominal' = IF Count = 0 THEN Fast
                         ELSE Nominal(blocks[PrevBlock(head)], f, r)
       /\ ReplanAll(Reprofiled(f, r))
  /\ UNCHANGED <<tail, head, control>>

(* plan_reset and st_reset.                                                *)
ResetPlan ==
  /\ tail' = 0 /\ head' = 0 /\ planned' = 0
  /\ prevNominal' = 0
  /\ loaded' = FALSE /\ partial' = FALSE /\ decelOvr' = FALSE
  /\ speed' = 0 /\ exit' = 0
  /\ control' = "run"
  /\ blocks' = [i \in Slots |-> NoBlock]

(* main's reinitialisation, at any time.                                   *)
Reset ==
  /\ ResetPlan
  /\ fOverride' = Full /\ rOverride' = Full

(* The cycle stop of a jog cancel.                                         *)
Flush ==
  /\ control = "end" \/ (Holding /\ head = tail)
  /\ ResetPlan
  /\ UNCHANGED <<fOverride, rOverride>>

Next == \/ BufferLine
        \/ PrepareWithin \/ PrepareLast \/ PrepareNothing
        \/ StartHold \/ HoldStop \/ Resume \/ Override \/ Reset \/ Flush

Spec == Init /\ [][Next]_vars

-----------------------------------------------------------------------------
(* Every variable has its type.                                            *)
TypeOK ==
  /\ blocks \in [Slots -> [entry : Nat, maxEntry : Nat, junction : Nat,
                           length : Nat, rate : FeedRates \cup {Rapid}]]
  /\ {tail, head, planned} \subseteq Slots
  /\ prevNominal \in Nat
  /\ fOverride \in FeedOverrides /\ rOverride \in RapidOverrides
  /\ {loaded, partial, decelOvr} \subseteq BOOLEAN
  /\ {speed, exit} \subseteq Nat
  /\ control \in {"run", "hold", "end", "held"}

(* The speed at which the tool really is, or will start the tail.          *)
StartSpeed == IF loaded \/ partial THEN speed ELSE Tail.entry

(* The best plan, by the guidelines of planner.c and without a planned     *)
(* pointer: from the last block backwards, each block may be entered at    *)
(* the speed from which the next can still be met; from the tail forwards, *)
(* each is entered as fast as the one before allows.                       *)
BestPlan ==
  LET n == Count
      block(j) == blocks[Ahead(tail, j)]
      met[j \in 1 .. n] ==
        IF j = n THEN 0 ELSE Least(block(j).maxEntry, met[j + 1] + block(j).length)
      reached[j \in 0 .. n - 1] ==
        IF j = 0 THEN StartSpeed ELSE Least(met[j], reached[j - 1] + block(j - 1).length)
  IN  reached

(* An override has left the tool faster than its nominal speed.            *)
SlowingDown == decelOvr \/ (head # tail /\ StartSpeed > NominalSqr)

(* The planned pointer never makes planner_recalculate stop too early: all *)
(* junctions of the ring always have the speeds of the best plan for the   *)
(* rest of the path from the speed the tool really has (once an override   *)
(* no longer forces it to slow down).                                      *)
PlanOptimal ==
  control \in {"run", "held"} /\ ~SlowingDown =>
    LET best == BestPlan
    IN  \A k \in 1 .. Count - 1 : blocks[Ahead(tail, k)].entry = best[k]

(* The profile being executed ends at the speed planned for the junction,  *)
(* whichever blocks were added since it was computed, unless an override   *)
(* makes the tool slow down through the block.                             *)
ExitAgrees == loaded /\ control = "run" /\ ~decelOvr => exit = PlannedExit

(* The tool can always stop on the rest of the path, in a hold too.        *)
PathLeft ==
  LET left[k \in 0 .. Count] ==
        IF k = 0 THEN 0 ELSE left[k - 1] + blocks[Ahead(tail, k - 1)].length
  IN  left[Count]
CanAlwaysStop == speed <= PathLeft

(* The stepper follows the plan, and the plan ends in a stop.              *)
PlanFollowed == ExitAgrees /\ CanAlwaysStop

(* Speed never jumps: no acceleration beyond the maximum, at junctions, at *)
(* holds, resumes and replanning (a reset cuts the motion).                *)
SpeedContinuous == [][Reset \/ speed' - speed \in -1 .. 1]_vars

(* "A block entry speed cannot exceed one reverse-computed from its exit   *)
(* speed with a maximum allowable deceleration over the block travel       *)
(* distance" (planner.c:75-76).                                            *)
PlanFeasible ==
  \A k \in 1 .. Count - 1 :
    LET b == blocks[Ahead(tail, k)]
    IN  b.entry <= b.length + (IF k = Count - 1 THEN 0 ELSE blocks[Ahead(tail, k + 1)].entry)
=============================================================================
