------------------------------- MODULE Stepper -------------------------------
(***************************************************************************)
(* The step segment generator and the stepper interrupt (stepper.c).       *)
(*                                                                         *)
(* st_prep_buffer, in the main program, copies a planner block into a slot *)
(* of st_block_buffer and cuts it into segments; TIMER1_COMPA, interrupting*)
(* it anywhere, pops the segments and makes the steps of the axes with     *)
(* Bresenham counters.  Several segments share a slot, which is reused     *)
(* without either side telling the other.                                  *)
(*                                                                         *)
(* Where segments are cut, how fast they run and where a hold comes to     *)
(* rest depends on speeds and is left open.  Step counts are those of      *)
(* AMASS: every step event is Scale (8) units, and a segment smoothed by d *)
(* takes d ticks of Scale/d units for each.                                *)
(***************************************************************************)
EXTENDS Integers, FiniteSetsExt

CONSTANTS
  Segments,    \* SEGMENT_BUFFER_SIZE
  Scale,       \* 2^MAX_AMASS_LEVEL
  Smoothing,   \* 2^amass_level, for the levels there are
  Axes,        \* the motors
  Blocks       \* the planner's blocks: how many steps of each axis

ASSUME SegmentsAssumption == Segments \in Nat /\ Segments > 2
ASSUME SmoothingAssumption ==
  /\ Scale \in Nat /\ Scale % 2 = 0 /\ Scale > 0
  /\ Smoothing \subseteq Nat \ {0}
  /\ \A d \in Smoothing : Scale % d = 0
ASSUME BlocksAssumption ==
  /\ Axes # {} /\ IsFiniteSet(Axes)
  /\ Blocks \subseteq [Axes -> Nat]
  /\ \A b \in Blocks : \E a \in Axes : b[a] > 0

VARIABLES
  control,    \* "idle", "start", "run", "hold", "end" (of motion), "held"
  filling,    \* st_prep_buffer has written a segment and not yet published it
  loaded,     \* pl_block # NULL
  partial,    \* PREP_FLAG_RECALCULATE: go on with the block in st_prep_block
  prepSlot,   \* prep.st_block_index
  left,       \* prep.steps_remaining, rounded up
  slots,      \* st_block_buffer, scaled
  segs,       \* segment_buffer
  segHead,    \* segment_buffer_head
  segTail,    \* segment_buffer_tail
  running,    \* OCIE1A
  cycleStop,  \* EXEC_CYCLE_STOP
  exec,       \* st.exec_segment # NULL
  execSlot,   \* st.exec_block_index
  stepCount,  \* st.step_count
  counter,    \* st.counter_x, ...
  stride,     \* st.steps
  outbits,    \* st.step_outbits
  doing,      \* observes the block that is executed,
  ran,        \*   the units of it that have run,
  moved,      \*   and the steps made since it began;
  owed,       \* the steps counted in sys_position and not yet pulsed;
  killed      \* whether mc_reset has stopped the steppers

main == <<control, filling, loaded, partial, prepSlot, left, slots>>
ring == <<segs, segHead, segTail>>
isr == <<running, exec, execSlot, stepCount, counter, stride, outbits>>
observed == <<doing, ran, moved, owed>>
vars == <<main, ring, isr, observed, cycleStop, killed>>

NoBlock == [a \in Axes |-> 0]
NoSlot == [events |-> 0, steps |-> NoBlock]
NoSegment == [n |-> 0, d |-> 1, slot |-> 0]

(* step_event_count of a block: the steps of its dominant axis.            *)
Events(b) == Max({b[a] : a \in Axes})
Scaled(b) == [events |-> Scale * Events(b), steps |-> [a \in Axes |-> Scale * b[a]]]

NextSegment(i) == (i + 1) % Segments
NextSlotTooFew(i) == (i + 1) % (Segments - 2) \* faulty variant
NextSlot(i) == (i + 1) % (Segments - 1)       \* st_next_block_index

RingFull == segTail = NextSegment(segHead)

(* How many segments the interrupt has to execute before the i-th of the   *)
(* ring; those before the head are waiting.                                *)
Offset(i) == (i - segTail + Segments) % Segments
Waiting == {i \in 0 .. Segments - 1 : Offset(i) < Offset(segHead)}

Init ==
  /\ control = "idle" /\ filling = FALSE /\ killed = FALSE /\ cycleStop = FALSE
  /\ loaded = FALSE /\ partial = FALSE /\ prepSlot = 0 /\ left = 0
  /\ slots = [i \in 0 .. Segments - 2 |-> NoSlot]
  /\ segs = [i \in 0 .. Segments - 1 |-> NoSegment]
  /\ segHead = 0 /\ segTail = 0
  /\ running = FALSE /\ exec = FALSE /\ execSlot = 0 /\ stepCount = 0
  /\ counter = NoBlock /\ stride = NoBlock /\ outbits = {}
  /\ doing = NoBlock /\ ran = 0 /\ moved = NoBlock /\ owed = NoBlock

-----------------------------------------------------------------------------
(***************************************************************************)
(* st_prep_buffer, cut where the stepper interrupt can see a difference.   *)
(***************************************************************************)
Preparing == control \in {"start", "run", "hold"} /\ ~filling /\ ~RingFull

(* Does a load go on with the block in the slot, or take the next one?     *)
ContinuesNever == FALSE                       \* faulty variant
Continues == partial

(* A new velocity profile for the block in the slot, or the next block.    *)
LoadBlock ==
  /\ Preparing
  /\ ~loaded
  /\ loaded' = TRUE
  /\ partial' = FALSE
  /\ IF Continues
     THEN UNCHANGED <<prepSlot, slots, left>>
     ELSE /\ prepSlot' = NextSlot(prepSlot)
          /\ \E b \in Blocks : /\ slots' = [slots EXCEPT ![prepSlot'] = Scaled(b)]
                               /\ left' = Events(b)
  /\ UNCHANGED <<control, filling, ring, isr, observed, cycleStop, killed>>

(* The ticks of a segment of n step events.                                *)
Ticks(n, d) == n * d

WriteSegment ==
  /\ Preparing
  /\ loaded
  /\ \E n \in 1 .. left, d \in Smoothing :
       /\ segs' = [segs EXCEPT ![segHead] = [n |-> Ticks(n, d), d |-> d, slot |-> prepSlot]]
       /\ left' = left - n
  /\ filling' = TRUE
  /\ UNCHANGED <<control, loaded, partial, prepSlot, slots, segHead, segTail>>
  /\ UNCHANGED <<isr, observed, cycleStop, killed>>

(* The block is finished, or a hold comes to rest within it, or neither.   *)
PublishSegment ==
  /\ filling
  /\ segHead' = NextSegment(segHead)
  /\ filling' = FALSE
  /\ loaded' = (left > 0)
  /\ \/ control' = control
     \/ control = "hold" /\ left > 0 /\ control' = "end"
  /\ UNCHANGED <<partial, prepSlot, left, slots, segs, segTail>>
  /\ UNCHANGED <<isr, observed, cycleStop, killed>>

(* A hold has less than a step to go: no segment is made.                  *)
HoldBails ==
  /\ Preparing
  /\ loaded
  /\ control = "hold"
  /\ control' = "end"
  /\ UNCHANGED <<filling, loaded, partial, prepSlot, left, slots>>
  /\ UNCHANGED <<ring, isr, observed, cycleStop, killed>>

-----------------------------------------------------------------------------
(***************************************************************************)
(* The rest of the main program, where it concerns the steppers.           *)
(***************************************************************************)
ProfileDropped == loaded' = FALSE /\ partial' = (partial \/ loaded)

(* st_update_plan_block_parameters, when a new line changes the plan.      *)
Replan ==
  /\ control # "start"
  /\ ~filling /\ loaded
  /\ ProfileDropped
  /\ UNCHANGED <<control, filling, prepSlot, left, slots>>
  /\ UNCHANGED <<ring, isr, observed, cycleStop, killed>>

StartHold ==
  /\ control = "run"
  /\ ~filling
  /\ ProfileDropped
  /\ control' = "hold"
  /\ UNCHANGED <<filling, prepSlot, left, slots>>
  /\ UNCHANGED <<ring, isr, observed, cycleStop, killed>>

(* A cycle stop served in a hold, or otherwise.                            *)
ServeCycleStop ==
  /\ cycleStop /\ ~filling
  /\ cycleStop' = FALSE
  /\ IF control \in {"hold", "end"}
     THEN ProfileDropped /\ control' = "held"
     ELSE control' = "idle" /\ UNCHANGED <<loaded, partial>>
  /\ UNCHANGED <<filling, prepSlot, left, slots, ring, isr, observed, killed>>

(* A cycle start: st_prep_buffer first, st_wake_up when it returns.        *)
CycleStart ==
  /\ control \in {"idle", "held"}
  /\ ~cycleStop
  /\ control' = "start"
  /\ UNCHANGED <<filling, loaded, partial, prepSlot, left, slots>>
  /\ UNCHANGED <<ring, isr, observed, cycleStop, killed>>

OutbitsKept == outbits                        \* faulty variant
OutbitsAtStart == {}

WakeUp ==
  /\ control = "start" /\ ~filling
  /\ control' = "run"
  /\ running' = TRUE
  /\ outbits' = OutbitsAtStart
  /\ UNCHANGED <<filling, loaded, partial, prepSlot, left, slots, ring>>
  /\ UNCHANGED <<exec, execSlot, stepCount, counter, stride, observed, cycleStop, killed>>

(* st_go_idle of mc_reset, from a handler, at any time.                    *)
Kill ==
  /\ ~killed
  /\ killed' = TRUE
  /\ running' = FALSE
  /\ UNCHANGED <<main, ring, exec, execSlot, stepCount, counter, stride, outbits>>
  /\ UNCHANGED <<observed, cycleStop>>

(* st_reset, after such a stop or when a cancelled jog has come to rest.   *)
(* What slots and segments hold is forgotten: nothing reads it again.      *)
Reset ==
  /\ ~filling /\ control # "start"
  /\ killed \/ (cycleStop /\ control \in {"hold", "end"})
  /\ control' = "idle" /\ killed' = FALSE /\ cycleStop' = FALSE
  /\ loaded' = FALSE /\ partial' = FALSE /\ prepSlot' = 0 /\ left' = 0
  /\ segHead' = 0 /\ segTail' = 0
  /\ running' = FALSE /\ exec' = FALSE /\ execSlot' = 0 /\ stepCount' = 0
  /\ counter' = NoBlock /\ stride' = NoBlock /\ outbits' = {}
  /\ doing' = NoBlock /\ ran' = 0 /\ moved' = NoBlock /\ owed' = NoBlock
  /\ slots' = [i \in 0 .. Segments - 2 |-> NoSlot]
  /\ segs' = [i \in 0 .. Segments - 1 |-> NoSegment]
  /\ UNCHANGED filling

-----------------------------------------------------------------------------
(***************************************************************************)
(* TIMER1_COMPA.  The pulses of the tick before go out first.              *)
(***************************************************************************)
Pulse == owed' = [a \in Axes |-> owed[a] - IF a \in outbits THEN 1 ELSE 0]

(* Nothing is left: the motors stop and the main program is told.          *)
GoIdle ==
  /\ running
  /\ ~exec
  /\ segHead = segTail
  /\ Pulse
  /\ running' = FALSE
  /\ cycleStop' = TRUE
  /\ UNCHANGED <<main, ring, exec, execSlot, stepCount, counter, stride, outbits>>
  /\ UNCHANGED <<doing, ran, moved, killed>>

CounterStart(events) == events \div 2

(* A segment's slot differs from the last one's when a new block begins.   *)
Begins(segment) == segment.slot # execSlot

(* One tick: pop a segment if none is executed, add the axes' strides to   *)
(* their counters and step those that overflow; discard the segment after  *)
(* its last tick (what it held, and the strides, are forgotten).           *)
Tick ==
  /\ running
  /\ exec \/ segHead # segTail
  /\ LET segment == segs[segTail]
         block == slots[segment.slot]
         begins == ~exec /\ Begins(segment)
         rate == IF exec THEN stride ELSE [a \in Axes |-> block.steps[a] \div segment.d]
         count == IF exec THEN stepCount ELSE segment.n
         sum == [a \in Axes |->
                  rate[a] + IF begins THEN CounterStart(block.events) ELSE counter[a]]
         last == count = 1
         due == {a \in Axes : sum[a] > block.events}
         One(a) == IF a \in due THEN 1 ELSE 0
     IN  /\ execSlot' = segment.slot
         /\ stride' = IF last THEN NoBlock ELSE rate
         /\ counter' = [a \in Axes |-> sum[a] - One(a) * block.events]
         /\ outbits' = due
         /\ stepCount' = count - 1
         /\ exec' = ~last
         /\ segTail' = IF last THEN NextSegment(segTail) ELSE segTail
         /\ segs' = IF last THEN [segs EXCEPT ![segTail] = NoSegment] ELSE segs
         /\ doing' = IF begins THEN [a \in Axes |-> block.steps[a] \div Scale] ELSE doing
         /\ ran' = (Scale \div segment.d) + IF begins THEN 0 ELSE ran
         /\ moved' = [a \in Axes |-> One(a) + IF begins THEN 0 ELSE moved[a]]
         /\ owed' = [a \in Axes |-> owed[a] + One(a) - IF a \in outbits THEN 1 ELSE 0]
  /\ UNCHANGED <<main, segHead, running, cycleStop, killed>>

Next ==
  \/ LoadBlock \/ WriteSegment \/ PublishSegment \/ HoldBails
  \/ Replan \/ StartHold \/ ServeCycleStop \/ CycleStart \/ WakeUp \/ Kill \/ Reset
  \/ GoIdle \/ Tick

Spec == Init /\ [][Next]_vars

-----------------------------------------------------------------------------
(* Every variable has its type; a counter never leaves 0 .. events.        *)
TypeOK ==
  /\ control \in {"idle", "start", "run", "hold", "end", "held"}
  /\ {filling, loaded, partial, running, cycleStop, exec, killed} \subseteq BOOLEAN
  /\ {prepSlot, execSlot} \subseteq 0 .. Segments - 2
  /\ {segHead, segTail} \subseteq 0 .. Segments - 1
  /\ {left, stepCount, ran} \subseteq Nat
  /\ slots \in [0 .. Segments - 2 -> [events : Nat, steps : [Axes -> Nat]]]
  /\ segs \in [0 .. Segments - 1 -> [n : Nat, d : Smoothing \cup {1}, slot : 0 .. Segments - 2]]
  /\ {counter, stride, doing, moved, owed} \subseteq [Axes -> Nat]
  /\ outbits \subseteq Axes

(* A segment that waits or is executed keeps its contents and its block    *)
(* until the interrupt discards it, although neither ring asks the         *)
(* interrupt which slots are still in use.                                 *)
WaitingKept ==
  \A i \in Waiting \cap Waiting' :
    segs'[i] = segs[i] /\ slots'[segs[i].slot] = slots[segs[i].slot]

(* The block that is executed has run to its end (and its slot may be      *)
(* loaded again).                                                          *)
Finished == ran = Scale * Events(doing)

(* When the last of a block's step events has run, every axis has made     *)
(* exactly the block's steps, however the block was cut into segments,     *)
(* smoothed, and interrupted by holds and starts.                          *)
StepsExact ==
  ran > 0 /\ Finished => moved = doing

(* The interrupt leaves a block only when all of its step events have run. *)
BlockInFull == execSlot' = execSlot \/ Finished
BlocksKept == [][Reset \/ (WaitingKept /\ BlockInFull)]_vars

(* The units still to be run by a segment; by all the waiting segments of a *)
(* slot, added up from the tail; by one that is not yet published.          *)
Units(i) == (IF exec /\ i = segTail THEN stepCount ELSE segs[i].n) * (Scale \div segs[i].d)
Position(k) == (segTail + k) % Segments
UnitsWaiting(slot) ==
  LET first[k \in 0 .. Segments] ==
        IF k = 0 THEN 0
        ELSE first[k - 1] + IF segs[Position(k - 1)].slot = slot THEN Units(Position(k - 1)) ELSE 0
  IN  first[Offset(segHead)]
Unpublished == IF filling THEN segs[segHead].n * (Scale \div segs[segHead].d) ELSE 0

(* No step event of a block is lost or cut twice: those that have run,     *)
(* those in segments and those not yet cut make up the block.              *)
Conserved ==
  \A slot \in {segs[i].slot : i \in Waiting} \cup (IF left > 0 THEN {prepSlot} ELSE {}) :
    slots[slot].events =
      UnitsWaiting(slot) + (IF slot = execSlot /\ ~Finished THEN ran ELSE 0)
        + (IF slot = prepSlot THEN Scale * left + Unpublished ELSE 0)

(* Nothing is lost on the way, and nothing is missing at the end.          *)
EventsExact == StepsExact /\ Conserved

(* The motors have made every step that sys_position counts when the main  *)
(* program is told that the motion has ended, and at most one is out-      *)
(* standing on each axis before; none is pulsed twice.                     *)
PulsesMatch ==
  ~killed => \A a \in Axes :
    owed[a] = IF running /\ a \in outbits THEN 1 ELSE 0
=============================================================================
