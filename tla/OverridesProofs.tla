-------------------------- MODULE OverridesProofs --------------------------
(***************************************************************************)
(* For every range of requests and lines, every refresh count and every    *)
(* length of the planner: the plan follows the overrides, every change is  *)
(* reported soon, and between lines the coolant is as the parser believes  *)
(* it to be, unless it was toggled.                                        *)
(***************************************************************************)
EXTENDS Overrides, TLAPS

-----------------------------------------------------------------------------
(* The plan follows the overrides: inductive as it stands.                 *)

\* Nothing but ApplyMotion and M30 change an override: the one tells the
\* planner, the other comes when the planner is empty.
LEMMA PlanFollowsStep == PlanFollows /\ [Next]_vars => PlanFollows'
<1> SUFFICES ASSUME PlanFollows, [Next]_vars
             PROVE  PlanFollows'
  OBVIOUS
<1> USE DEF PlanFollows, overrides, requests, program, suspension, flood, reports, bounds
<1>1. CASE Interrupts
  BY <1>1 DEF Interrupts, RxMotion, RxAccessory, RxState, RxReset, BlockDone
<1>2. CASE ApplyMotion
  BY <1>2 DEF ApplyMotion
<1>3. CASE Abort \/ ServeState \/ CopyMotion \/ CopyAccessory \/ ApplyAccessory
  BY <1>3 DEF Abort, ServeState, CopyMotion, CopyAccessory, ApplyAccessory
<1>4. CASE Suspension
  BY <1>4 DEF Suspension, Suspend, Retract, Restore, SuspendWaits
<1>5. CASE Plan
  BY <1>5 DEF Plan
<1>6. CASE EndModes \/ EndOutputs \/ Reinitialize
  BY <1>6 DEF EndModes, EndOutputs, Reinitialize
<1>7. CASE Loop \/ TakeLine \/ SyncWaits \/ Synchronized \/ LookAtCoolant \/ SetCoolant
           \/ CheckMode
  BY <1>7 DEF Loop, TakeLine, SyncWaits, Synchronized, LookAtCoolant, SetCoolant, CheckMode
<1>8. CASE UNCHANGED vars
  BY <1>8 DEF vars
<1> QED
  BY <1>1, <1>2, <1>3, <1>4, <1>5, <1>6, <1>7, <1>8 DEF Next, Pass, Main

\* Blocks waiting in the planner are always planned for the overrides in force.
THEOREM PlanAlwaysFollows == Spec => []PlanFollows
<1>1. Init => PlanFollows
  BY DEF Init, PlanFollows
<1> QED
  BY <1>1, PlanFollowsStep, PTL DEF Spec

-----------------------------------------------------------------------------
(* Every change is reported soon: inductive as it stands.                  *)

\* Every step that changes what a report would tell sets the counter to zero.
LEMMA ReportedSoonStep == ReportedSoon /\ [Next]_vars => ReportedSoon'
<1> SUFFICES ASSUME ReportedSoon, [Next]_vars
             PROVE  ReportedSoon'
  OBVIOUS
<1> USE DEF Ending, Passing, overrides, requests, program, suspension, flood, reports, bounds
<1>1. CASE Interrupts
  BY <1>1 DEF Interrupts, RxMotion, RxAccessory, RxState, RxReset, BlockDone, ReportedSoon, Actual
<1>2. CASE ServeState
  <2>1. UNCHANGED Actual /\ "reset" \notin exec /\ "reset" \notin exec'
    BY <1>2 DEF ServeState, Actual
  <2>2. state = "check" => state' = "check"
    BY <1>2 DEF ServeState, StateServed, Leaving
  <2>5. Ending => Ending'
    BY <1>2 DEF ServeState
  <2>3. CASE "status" \in exec /\ state # "check"
    <3>1. Report
      BY <1>2, <2>3 DEF ServeState
    <3>2. CASE AfterWco > 0 /\ ovrCounter = 0
      BY <3>1, <3>2 DEF Report, AfterWco, ReportedSoon
    <3>3. CASE AfterWco > 0 /\ ovrCounter # 0
      BY <2>1, <2>3, <2>5, <3>1, <3>3 DEF Report, ReportedSoon
    <3>4. CASE ~(AfterWco > 0)
      BY <2>1, <2>5, <3>1, <3>4 DEF Report, ReportedSoon
    <3> QED
      BY <3>2, <3>3, <3>4
  <2>4. CASE "status" \notin exec
    BY <1>2, <2>1, <2>2, <2>4, <2>5 DEF ServeState, ReportedSoon
  <2> QED
    BY <2>2, <2>3, <2>4, <2>5 DEF ReportedSoon
<1>3. CASE ApplyMotion
  BY <1>3 DEF ApplyMotion, ReportedSoon, Actual
<1>4. CASE ApplyAccessory
  BY <1>4 DEF ApplyAccessory, PassEnds, ReportedSoon, Actual
<1>5. CASE Abort \/ CopyMotion \/ CopyAccessory
  BY <1>5 DEF Abort, CopyMotion, CopyAccessory, PassEnds, ReportedSoon, Actual
<1>6. CASE Suspension
  <2>1. CASE Suspend \/ SuspendWaits
    BY <2>1 DEF Suspend, SuspendWaits, ReportedSoon, Actual
  <2>2. CASE Retract
    BY <2>2 DEF Retract, ReportedSoon
  <2>3. CASE Restore
    BY <2>3 DEF Restore, Behind, ReportedSoon, Actual
  <2> QED
    BY <1>6, <2>1, <2>2, <2>3 DEF Suspension
<1>7. CASE SetCoolant \/ EndModes \/ EndOutputs \/ Reinitialize
  BY <1>7 DEF SetCoolant, EndModes, EndOutputs, Reinitialize, ReportedSoon, Actual
<1>8. CASE Plan \/ CheckMode
  BY <1>8 DEF Plan, CheckMode, ReportedSoon, Actual
<1>9. CASE Loop \/ TakeLine \/ SyncWaits \/ Synchronized \/ LookAtCoolant
  BY <1>9 DEF Loop, TakeLine, SyncWaits, Synchronized, LookAtCoolant, ReportedSoon, Actual
<1>10. CASE UNCHANGED vars
  BY <1>10 DEF vars, ReportedSoon, Actual
<1> QED
  BY <1>1, <1>2, <1>3, <1>4, <1>5, <1>6, <1>7, <1>8, <1>9, <1>10 DEF Next, Pass, Main

\* A change of the overrides or the coolant is in the next report of them.
THEOREM AlwaysReportedSoon == Spec => []ReportedSoon
<1>1. Init => ReportedSoon
  BY DEF Init, ReportedSoon, Actual
<1> QED
  BY <1>1, ReportedSoonStep, PTL DEF Spec

-----------------------------------------------------------------------------
(* Types: the overrides never leave their range, whatever wraps around on   *)
(* the way, and the counters never their refresh counts.                    *)

\* The sums wrap around in eight bits, the result is clamped.
LEMMA OverrideInRange ==
    ASSUME NEW v \in Percent, NEW asked
    PROVE  Override(v, asked) \in Percent
<1>1. Unclamped(v, asked) \in 0..255
  <2>1. PICK n \in Int : Unclamped(v, asked) = n % 256
    BY DEF Unclamped, Percent, Lowest, Highest, Default
  <2> QED
    BY <2>1
<1> QED
  BY <1>1 DEF Override, Percent, Lowest, Highest

\* A report leaves the counters below what they count from.
LEMMA ReportCounts ==
    ASSUME ovrCounter \in 0..OvrBusy, wcoCounter \in 0..WcoBusy, Report
    PROVE  ovrCounter' \in 0..OvrBusy /\ wcoCounter' \in 0..WcoBusy
<1>1. wcoCounter' \in 0..WcoBusy
  BY RefreshAssumption DEF Report
<1>2. AfterWco \in 0..OvrBusy
  BY RefreshAssumption DEF AfterWco
<1>3. ovrCounter' \in 0..OvrBusy
  BY <1>2, RefreshAssumption DEF Report
<1> QED
  BY <1>1, <1>3

\* Rapid overrides are one of three.
LEMMA RapidInRange ==
    ASSUME NEW r \in {25, 50, 100}, NEW asked
    PROVE  Rapid(r, asked) \in {25, 50, 100}
BY DEF Rapid

\* Every step keeps the overrides in their range, ...
LEMMA OverridesTypeStep == OverridesOK /\ [Next]_vars => OverridesOK'
<1> SUFFICES ASSUME OverridesOK, [Next]_vars
             PROVE  OverridesOK'
  OBVIOUS
<1> USE DEF OverridesOK, overrides, requests, program, suspension, flood, reports, bounds
<1>1. CASE ApplyMotion
  BY <1>1, OverrideInRange, RapidInRange DEF ApplyMotion
<1>2. CASE ApplyAccessory
  BY <1>2, OverrideInRange DEF ApplyAccessory
<1>3. CASE EndModes \/ EndOutputs \/ Reinitialize
  <2>1. Default \in Percent /\ Default \in {25, 50, 100}
    BY DEF Default, Percent, Lowest, Highest
  <2>2. CASE EndModes
    BY <2>1, <2>2 DEF EndModes
  <2>3. CASE EndOutputs
    BY <2>3 DEF EndOutputs
  <2>4. CASE Reinitialize
    BY <2>1, <2>4 DEF Reinitialize
  <2> QED
    BY <1>3, <2>2, <2>3, <2>4
<1>4. CASE RxMotion \/ RxAccessory \/ RxState \/ RxReset \/ BlockDone
  BY <1>4 DEF RxMotion, RxAccessory, RxState, RxReset, BlockDone
<1>5. CASE Abort \/ ServeState \/ CopyMotion \/ CopyAccessory \/ Suspend
  BY <1>5 DEF Abort, ServeState, CopyMotion, CopyAccessory, Suspend
<1>6. CASE Retract \/ Restore \/ SuspendWaits \/ Loop \/ TakeLine
  BY <1>6 DEF Retract, Restore, SuspendWaits, Loop, TakeLine
<1>7. CASE SyncWaits \/ Synchronized \/ LookAtCoolant \/ SetCoolant \/ Plan
  BY <1>7 DEF SyncWaits, Synchronized, LookAtCoolant, SetCoolant, Plan
<1>8. CASE CheckMode
  BY <1>8 DEF CheckMode
<1>9. CASE UNCHANGED vars
  BY <1>9 DEF vars
<1> QED
  BY <1>1, <1>2, <1>3, <1>4, <1>5, <1>6, <1>7, <1>8, <1>9
     DEF Next, Interrupts, Pass, Suspension, Main

\* ... the requests among those there are, ...
LEMMA RequestsTypeStep == RequestsOK /\ [Next]_vars => RequestsOK'
<1> SUFFICES ASSUME RequestsOK, [Next]_vars
             PROVE  RequestsOK'
  OBVIOUS
<1> USE DEF RequestsOK, overrides, requests, program, suspension, flood, reports, bounds
<1>1. CASE RxMotion \/ RxAccessory \/ RxState \/ RxReset \/ BlockDone
  BY <1>1 DEF RxMotion, RxAccessory, RxState, RxReset, BlockDone
<1>2. CASE Abort \/ ServeState \/ CopyMotion \/ ApplyMotion \/ CopyAccessory
  BY <1>2 DEF Abort, ServeState, CopyMotion, ApplyMotion, CopyAccessory
<1>3. CASE ApplyAccessory \/ Suspend \/ Retract \/ Restore \/ SuspendWaits
  BY <1>3 DEF ApplyAccessory, Suspend, Retract, Restore, SuspendWaits
<1>4. CASE Loop \/ TakeLine \/ SyncWaits \/ Synchronized \/ LookAtCoolant
  BY <1>4 DEF Loop, TakeLine, SyncWaits, Synchronized, LookAtCoolant
<1>5. CASE SetCoolant \/ Plan \/ EndModes \/ EndOutputs \/ CheckMode \/ Reinitialize
  BY <1>5 DEF SetCoolant, Plan, EndModes, EndOutputs, CheckMode, Reinitialize
<1>6. CASE UNCHANGED vars
  BY <1>6 DEF vars
<1> QED
  BY <1>1, <1>2, <1>3, <1>4, <1>5, <1>6
     DEF Next, Interrupts, Pass, Suspension, Main

\* ... the program where it can be, ...
LEMMA ProgramTypeStep == ProgramOK /\ [Next]_vars => ProgramOK'
<1> SUFFICES ASSUME ProgramOK, [Next]_vars
             PROVE  ProgramOK'
  OBVIOUS
<1> USE DEF ProgramOK, overrides, requests, program, suspension, flood, reports, bounds
<1>1. CASE ServeState
  <2>1. state' \in {"idle", "cycle", "hold", "door", "check"}
    BY <1>1 DEF ServeState, StateServed
  <2>2. stage' \in {"retract", "retracted", "closed", "restoring", "restored"}
    BY <1>1 DEF ServeState, StageServed
  <2> QED
    BY <1>1, <2>1, <2>2 DEF ServeState
<1>2. CASE CopyAccessory \/ ApplyAccessory
  BY <1>2 DEF CopyAccessory, ApplyAccessory, PassEnds
<1>3. CASE LookAtCoolant \/ SetCoolant
  <2>1. AfterCoolant \in {"plan", "state", "loop"}
    BY DEF AfterCoolant
  <2> QED
    BY <1>3, <2>1 DEF LookAtCoolant, SetCoolant
<1>4. CASE RxMotion \/ RxAccessory \/ RxState \/ RxReset \/ BlockDone
  BY <1>4 DEF RxMotion, RxAccessory, RxState, RxReset, BlockDone
<1>5. CASE Abort \/ CopyMotion \/ ApplyMotion \/ Suspend \/ Retract
  BY <1>5 DEF Abort, CopyMotion, ApplyMotion, Suspend, Retract
<1>6. CASE Restore \/ SuspendWaits \/ Loop \/ TakeLine \/ SyncWaits
  BY <1>6 DEF Restore, SuspendWaits, Loop, TakeLine, SyncWaits
<1>7. CASE Synchronized \/ Plan \/ EndModes \/ EndOutputs \/ CheckMode \/ Reinitialize
  BY <1>7 DEF Synchronized, Plan, EndModes, EndOutputs, CheckMode, Reinitialize
<1>8. CASE UNCHANGED vars
  BY <1>8 DEF vars
<1> QED
  BY <1>1, <1>2, <1>3, <1>4, <1>5, <1>6, <1>7, <1>8
     DEF Next, Interrupts, Pass, Suspension, Main

\* An empty planner and no line hold no coolants.
LEMMA NothingTyped ==
    /\ NoLine \in [kind : {"none"} \cup LineKinds, coolant : Coolants]
    /\ <<>> \in Seq(Coolants) /\ Len(<<>>) <= MaxBlocks
    /\ "M9" \in Coolants
<1>1. MaxBlocks \in Nat
  BY BoundsAssumption
<1> QED
  BY <1>1 DEF NoLine, Coolants

\* ... what holds coolants of its type, ...
LEMMA CoolantTypeStep == CoolantOK /\ [Next]_vars => CoolantOK'
<1> SUFFICES ASSUME CoolantOK, [Next]_vars
             PROVE  CoolantOK'
  OBVIOUS
<1> USE DEF CoolantOK, overrides, requests, program, suspension, flood, reports, bounds
<1>1. CASE ApplyAccessory
  <2>1. Taken \in BOOLEAN
    BY DEF Taken
  <2>2. toggled' \in BOOLEAN
    BY <1>1, <2>1 DEF ApplyAccessory
  <2> QED
    BY <1>1, <2>2 DEF ApplyAccessory, Other, Coolants
<1>2. CASE EndModes \/ EndOutputs \/ SetCoolant
  BY <1>2 DEF EndModes, EndOutputs, SetCoolant, Coolants
<1>3. CASE Reinitialize
  BY <1>3, NothingTyped DEF Reinitialize
<1>4. CASE TakeLine
  BY <1>4 DEF TakeLine, Coolants
<1>5. CASE RxReset \/ Retract \/ Restore
  BY <1>5 DEF RxReset, Retract, Restore, Coolants
<1>6. CASE Suspend \/ BlockDone
  <2>1. CASE Suspend
    <3>1. blocks # <<>> => Head(blocks) \in Coolants
      OBVIOUS
    <3> QED
      BY <2>1, <3>1 DEF Suspend
  <2>2. CASE BlockDone
    <3>1. blocks' \in Seq(Coolants) /\ Len(blocks') <= MaxBlocks
      BY <2>2, BoundsAssumption DEF BlockDone
    <3> QED
      BY <2>2, <3>1 DEF BlockDone
  <2> QED
    BY <1>6, <2>1, <2>2
<1>7. CASE RxMotion \/ RxAccessory \/ RxState \/ Abort \/ ServeState
  BY <1>7 DEF RxMotion, RxAccessory, RxState, Abort, ServeState
<1>8. CASE CopyMotion \/ ApplyMotion \/ CopyAccessory \/ SuspendWaits \/ Loop
  BY <1>8 DEF CopyMotion, ApplyMotion, CopyAccessory, SuspendWaits, Loop
<1>9. CASE SyncWaits \/ Synchronized \/ LookAtCoolant \/ Plan \/ CheckMode
  <2>1. CASE Plan
    <3>1. blocks' \in Seq(Coolants) /\ Len(blocks') <= MaxBlocks
      BY <2>1, BoundsAssumption DEF Plan
    <3> QED
      BY <2>1, <3>1 DEF Plan
  <2>2. CASE LookAtCoolant
    BY <2>2 DEF LookAtCoolant
  <2>3. CASE SyncWaits \/ Synchronized
    BY <2>3 DEF SyncWaits, Synchronized
  <2>4. CASE CheckMode
    BY <2>4, NothingTyped DEF CheckMode
  <2> QED
    BY <1>9, <2>1, <2>2, <2>3, <2>4
<1>10. CASE UNCHANGED vars
  BY <1>10 DEF vars
<1> QED
  BY <1>1, <1>2, <1>3, <1>4, <1>5, <1>6, <1>7, <1>8, <1>9, <1>10
     DEF Next, Interrupts, Pass, Suspension, Main

\* ... and the counters below what they count from.
LEMMA CountersTypeStep == CountersOK /\ [Next]_vars => CountersOK'
<1> SUFFICES ASSUME CountersOK, [Next]_vars
             PROVE  CountersOK'
  OBVIOUS
<1> USE DEF CountersOK, overrides, requests, program, suspension, flood, reports, bounds
<1>1. CASE ServeState
  <2>1. ovrCounter' \in 0..OvrBusy /\ wcoCounter' \in 0..WcoBusy
    BY <1>1, ReportCounts DEF ServeState
  <2> QED
    BY <1>1, <2>1 DEF ServeState
<1>2. CASE ApplyMotion \/ ApplyAccessory \/ Retract \/ Restore
  BY <1>2, RefreshAssumption DEF ApplyMotion, ApplyAccessory, Retract, Restore
<1>3. CASE SetCoolant \/ EndModes \/ EndOutputs \/ Reinitialize
  BY <1>3, RefreshAssumption DEF SetCoolant, EndModes, EndOutputs, Reinitialize
<1>4. CASE RxMotion \/ RxAccessory \/ RxState \/ RxReset
  BY <1>4, BoundsAssumption DEF RxMotion, RxAccessory, RxState, RxReset
<1>5. CASE TakeLine \/ CheckMode
  BY <1>5, BoundsAssumption DEF TakeLine, CheckMode
<1>6. CASE BlockDone \/ Abort \/ CopyMotion \/ CopyAccessory \/ Suspend
  BY <1>6 DEF BlockDone, Abort, CopyMotion, CopyAccessory, Suspend
<1>7. CASE SuspendWaits \/ Loop \/ SyncWaits \/ Synchronized \/ LookAtCoolant
  BY <1>7, RefreshAssumption DEF SuspendWaits, Loop, SyncWaits, Synchronized, LookAtCoolant
<1>8. CASE Plan
  BY <1>8 DEF Plan
<1>9. CASE UNCHANGED vars
  BY <1>9 DEF vars
<1> QED
  BY <1>1, <1>2, <1>3, <1>4, <1>5, <1>6, <1>7, <1>8, <1>9
     DEF Next, Interrupts, Pass, Suspension, Main

\* Every variable is always in its range.
THEOREM OverridesTyped == Spec => []TypeOK
<1>1. Init => TypeOK
  <2>1. Init => OverridesOK
    BY StartsAssumption DEF Init, OverridesOK, Default, Percent, Lowest, Highest
  <2>2. Init => RequestsOK /\ ProgramOK
    BY DEF Init, RequestsOK, ProgramOK
  <2>3. Init => CoolantOK
    BY NothingTyped DEF Init, CoolantOK
  <2>4. Init => CountersOK
    BY RefreshAssumption, BoundsAssumption DEF Init, CountersOK
  <2> QED
    BY <2>1, <2>2, <2>3, <2>4 DEF TypeOK
<1>2. TypeOK /\ [Next]_vars => TypeOK'
  BY OverridesTypeStep, RequestsTypeStep, ProgramTypeStep, CoolantTypeStep, CountersTypeStep
     DEF TypeOK
<1> QED
  BY <1>1, <1>2, PTL DEF Spec
-----------------------------------------------------------------------------
(* Between lines the coolant is as the parser believes.  The strengthening  *)
(* says where a hold can be in force, and follows the coolant through the   *)
(* planner, the capture at a hold, and the stages behind the door.          *)

InPass == {"state", "motion", "applyMotion", "accessory", "applyAccessory", "suspend", "reinit"}

\* A hold is only ever in force in a pass, a suspension only in a hold.
HeldOK == /\ Held \/ suspended => pc \in InPass
          /\ state # "door" => stage = "retract"
          /\ back # "reinit" /\ (pc = "reinit" => "reset" \in exec)

Normal == state # "check" /\ "reset" \notin exec

\* What was taken with the coolant differs from it only if that was toggled.
TakenOK == /\ \A i \in 1..Len(blocks) : blocks[i] = coolant \/ toggled
           /\ suspended => captured = coolant \/ toggled

\* The pin follows, but for the time behind the door and the pass of M30, after
\* which it is off.
PinOK == /\ state # "door" \/ stage = "restored" => output = coolant \/ toggled \/ Ending
         /\ Ending => coolant = "M9" \/ toggled
         /\ stage \in {"retracted", "closed", "restoring"} => output = "M9"

CoolantInv == CoolantOK /\ HeldOK /\ (Normal => TakenOK /\ PinOK)

\* Every step keeps holds within a pass.
LEMMA HeldStep == HeldOK /\ [Next]_vars => HeldOK'
<1> SUFFICES ASSUME HeldOK, [Next]_vars
             PROVE  HeldOK'
  OBVIOUS
<1> USE DEF HeldOK, Held, InPass, overrides, requests, program, suspension, flood, reports, bounds
<1>1. CASE Interrupts
  BY <1>1 DEF Interrupts, RxMotion, RxAccessory, RxState, RxReset, BlockDone
<1>2. CASE Abort \/ CopyMotion \/ ApplyMotion
  BY <1>2 DEF Abort, CopyMotion, ApplyMotion
<1>3. CASE ServeState
  BY <1>3 DEF ServeState, StateServed, StageServed, Leaving
<1>4. CASE CopyAccessory \/ ApplyAccessory
  BY <1>4 DEF CopyAccessory, ApplyAccessory, PassEnds
<1>5. CASE Suspension
  BY <1>5 DEF Suspension, Suspend, Behind, Retract, Restore, SuspendWaits
<1>6. CASE Loop \/ TakeLine \/ SyncWaits \/ Synchronized
  BY <1>6 DEF Loop, TakeLine, SyncWaits, Synchronized
<1>7. CASE LookAtCoolant \/ SetCoolant
  BY <1>7 DEF LookAtCoolant, SetCoolant, AfterCoolant
<1>8. CASE Plan \/ EndModes \/ EndOutputs \/ CheckMode \/ Reinitialize
  BY <1>8 DEF Plan, EndModes, EndOutputs, CheckMode, Reinitialize
<1>9. CASE UNCHANGED vars
  BY <1>9 DEF vars
<1> QED
  BY <1>1, <1>2, <1>3, <1>4, <1>5, <1>6, <1>7, <1>8, <1>9 DEF Next, Pass, Main

\* Every step into a normal state keeps what was taken and the pin.
LEMMA CoolantStep ==
    CoolantInv /\ [Next]_vars => (Normal' => TakenOK' /\ PinOK')
<1> SUFFICES ASSUME CoolantInv, [Next]_vars, Normal'
             PROVE  TakenOK' /\ PinOK'
  OBVIOUS
<1> USE DEF CoolantInv, Normal, Ending, Passing, overrides, requests, program, suspension, flood, reports, bounds
<1>1. CASE RxMotion \/ RxAccessory \/ RxState \/ RxReset
  BY <1>1 DEF RxMotion, RxAccessory, RxState, RxReset, TakenOK, PinOK
<1>2. CASE BlockDone
  BY <1>2 DEF BlockDone, TakenOK, PinOK, CoolantOK
<1>3. CASE Abort \/ CopyMotion \/ ApplyMotion
  BY <1>3 DEF Abort, CopyMotion, ApplyMotion, TakenOK, PinOK
<1>4. CASE ServeState
  <2>1. Normal
    BY <1>4 DEF ServeState, StateServed, Leaving
  <2>2. TakenOK'
    BY <1>4, <2>1 DEF ServeState, TakenOK
  <2>3. PinOK'
    BY <1>4, <2>1 DEF ServeState, StateServed, StageServed, Leaving, PinOK, HeldOK
  <2> QED
    BY <2>2, <2>3
<1>5. CASE CopyAccessory
  BY <1>5 DEF CopyAccessory, PassEnds, TakenOK, PinOK
<1>6. CASE ApplyAccessory
  <2>1. Normal /\ (Ending' => Ending)
    BY <1>6 DEF ApplyAccessory, PassEnds
  <2>2. CASE Toggles /\ Taken
    <3>1. toggled'
      BY <1>6, <2>2 DEF ApplyAccessory
    <3>2. UNCHANGED <<state, stage>> /\ stage = "retract"
      BY <1>6, <2>2 DEF ApplyAccessory, Toggles, HeldOK
    <3> QED
      BY <3>1, <3>2 DEF TakenOK, PinOK
  <2>3. CASE Toggles /\ ~Taken
    <3>1. blocks' = <<>> /\ ~suspended' /\ ~Ending' /\ output' = coolant'
      BY <1>6, <2>1, <2>3 DEF ApplyAccessory, PassEnds, Taken
    <3>2. UNCHANGED <<state, stage>> /\ stage = "retract"
      BY <1>6, <2>3 DEF ApplyAccessory, Toggles, HeldOK
    <3> QED
      BY <3>1, <3>2 DEF TakenOK, PinOK
  <2>4. CASE ~Toggles
    <3>1. UNCHANGED <<coolant, output, toggled, blocks, captured, state, stage>>
      BY <1>6, <2>4 DEF ApplyAccessory
    <3>2. (suspended' => suspended) /\ (Ending => Ending')
      BY <1>6 DEF ApplyAccessory, PassEnds
    <3> QED
      BY <2>1, <3>1, <3>2 DEF TakenOK, PinOK
  <2> QED
    BY <2>2, <2>3, <2>4
<1>7. CASE Suspend
  <2>1. CASE blocks = <<>>
    <3>1. captured' = coolant' /\ blocks' = <<>> /\ output' = output /\ coolant' = coolant
      BY <1>7, <2>1 DEF Suspend
    <3>2. (output # coolant \/ Ending) /\ toggled => toggled'
      BY <1>7 DEF Suspend
    <3>3. UNCHANGED <<state, stage, pc, back>> /\ Normal
      BY <1>7 DEF Suspend
    <3> QED
      BY <3>1, <3>2, <3>3 DEF TakenOK, PinOK
  <2>2. CASE blocks # <<>>
    <3>1. captured' = blocks[1] /\ 1 \in 1..Len(blocks)
      BY <1>7, <2>2 DEF Suspend, CoolantOK
    <3>2. toggled => toggled'
      BY <1>7, <2>2 DEF Suspend
    <3>3. UNCHANGED <<blocks, coolant, output, state, stage, pc, back>> /\ Normal
      BY <1>7 DEF Suspend
    <3> QED
      BY <3>1, <3>2, <3>3 DEF TakenOK, PinOK
  <2> QED
    BY <2>1, <2>2
<1>8. CASE Retract \/ SuspendWaits
  BY <1>8 DEF Retract, SuspendWaits, Behind, TakenOK, PinOK
<1>9. CASE Restore
  BY <1>9 DEF Restore, Behind, TakenOK, PinOK
<1>10. CASE Loop \/ TakeLine \/ SyncWaits \/ Synchronized
  BY <1>10 DEF Loop, TakeLine, SyncWaits, Synchronized, TakenOK, PinOK
<1>11. CASE LookAtCoolant
  BY <1>11 DEF LookAtCoolant, AfterCoolant, TakenOK, PinOK
<1>12. CASE SetCoolant \/ EndModes \/ EndOutputs
  <2>1. blocks = <<>> /\ ~suspended /\ state # "door" /\ stage = "retract"
    BY <1>12 DEF SetCoolant, EndModes, EndOutputs, HeldOK, Held, InPass
  <2>2. CASE SetCoolant
    BY <2>1, <2>2 DEF SetCoolant, AfterCoolant, TakenOK, PinOK
  <2>3. CASE EndModes
    BY <2>1, <2>3 DEF EndModes, TakenOK, PinOK
  <2>4. CASE EndOutputs
    BY <2>1, <2>4 DEF EndOutputs, TakenOK, PinOK
  <2> QED
    BY <1>12, <2>2, <2>3, <2>4
<1>13. CASE Plan
  BY <1>13 DEF Plan, TakenOK, PinOK, CoolantOK
<1>14. CASE CheckMode \/ Reinitialize
  BY <1>14 DEF CheckMode, Reinitialize, TakenOK, PinOK, HeldOK
<1>15. CASE UNCHANGED vars
  BY <1>15 DEF vars, TakenOK, PinOK
<1> QED
  BY <1>1, <1>2, <1>3, <1>4, <1>5, <1>6, <1>7, <1>8, <1>9, <1>10, <1>11, <1>12, <1>13, <1>14,
     <1>15 DEF Next, Interrupts, Pass, Suspension, Main

\* Between lines the coolant flows as the parser believes, or was toggled.
THEOREM CoolantAlwaysAgrees == Spec => []CoolantAgrees
<1>1. Init => CoolantInv
  <2>1. Init => CoolantOK
    BY NothingTyped DEF Init, CoolantOK
  <2> QED
    BY <2>1 DEF Init, CoolantInv, HeldOK, Held, TakenOK, PinOK, Ending, Passing
<1>2. CoolantInv /\ [Next]_vars => CoolantInv'
  BY CoolantTypeStep, HeldStep, CoolantStep DEF CoolantInv
<1>3. CoolantInv => CoolantAgrees
  BY DEF CoolantInv, CoolantAgrees, HeldOK, Held, InPass, PinOK, Normal, Ending, Passing
<1> QED
  BY <1>1, <1>2, <1>3, PTL DEF Spec

=============================================================================
