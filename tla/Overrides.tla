----------------------------- MODULE Overrides -----------------------------
(***************************************************************************)
(* Overrides, coolant and status reports: the override part of             *)
(* protocol_exec_rt_system, the characters of SERIAL_RX that feed it,      *)
(* coolant_control.c, the counters of report_realtime_status, and the      *)
(* lines of gcode.c that change what they work on.                         *)
(*                                                                         *)
(* Holds, the door and cycle starts are Realtime's: here a hold is         *)
(* complete at once, and a block or a suspension is what overrides and     *)
(* coolant see of it.  Speeds are percentages kept in eight bits.          *)
(***************************************************************************)
EXTENDS Integers, Sequences

CONSTANTS Starts,          \* pairs of feed and spindle overrides in force at first
          MotionRequests, AccessoryRequests,   \* characters the operator sends
          LineKinds,       \* lines that arrive
          OvrIdle, OvrBusy, WcoIdle, WcoBusy,  \* REPORT_..._REFRESH_..._COUNT
          MaxBlocks,       \* blocks the planner takes
          MaxCommands, MaxLines                \* bounds

Default == 100
Lowest == 10
Highest == 200
Percent == Lowest..Highest

ASSUME StartsAssumption == Starts # {} /\ Starts \subseteq Percent \X Percent
ASSUME RequestsAssumption ==
    /\ MotionRequests \subseteq {"reset", "+10", "-10", "+1", "-1", "full", "medium", "low"}
    /\ AccessoryRequests \subseteq {"reset", "+10", "-10", "+1", "-1", "flood"}
    /\ LineKinds \subseteq {"M8", "M9", "S", "motion", "M30", "$C"}
\* config.h: WCO refresh 2 or greater, OVR refresh 1 or greater, busy not below idle.
ASSUME RefreshAssumption ==
    /\ OvrIdle \in Nat \ {0} /\ OvrBusy \in Nat /\ OvrBusy >= OvrIdle
    /\ WcoIdle \in Nat \ {0, 1} /\ WcoBusy \in Nat /\ WcoBusy >= WcoIdle
ASSUME BoundsAssumption == {MaxBlocks, MaxCommands, MaxLines} \subseteq Nat

VARIABLES
    feed, rapid, spindle,   \* sys.f_override, r_override, spindle_speed_ovr
    planned,         \* the feed and rapid overrides of the plan (observes)
    exec,            \* sys_rt_exec_state
    motion, accessory,      \* sys_rt_exec_motion_override, _accessory_override
    copied,          \* rt_exec, the copy being served
    pc, back,        \* the main program; where it goes on after a pass
    line,            \* the line being executed, or NoLine
    blocks,          \* the planner: the coolant each block was planned with
    state,           \* "idle", "cycle", "hold", "door", "check"
    captured,        \* restore_condition
    suspended, stage, \* in protocol_exec_rt_suspend; sys.suspend behind the door
    coolant, output, \* gc_state.modal.coolant, and the coolant pin
    toggled,         \* toggled since the plan, a hold or M30 took it? (observes)
    ovrCounter, wcoCounter,  \* sys.report_ovr_counter, report_wco_counter
    told,            \* what the last report with overrides said (observes)
    commands, lines  \* what is left of the bounds

overrides == <<feed, rapid, spindle, planned>>
requests == <<exec, motion, accessory>>
program == <<pc, back, copied, line>>
suspension == <<captured, suspended, stage>>
flood == <<coolant, output, toggled>>
reports == <<ovrCounter, wcoCounter, told>>
bounds == <<commands, lines>>
vars == <<overrides, requests, program, blocks, state, suspension, flood, reports, bounds>>

NoLine == [kind |-> "none", coolant |-> "M9"]
Held == state \in {"hold", "door"}

-----------------------------------------------------------------------------
(* Interrupts.                                                             *)

RxMotion ==
    /\ commands > 0
    /\ \E m \in MotionRequests : motion' = motion \cup {m}
    /\ commands' = commands - 1
    /\ UNCHANGED <<overrides, exec, accessory, program, blocks, state, suspension, flood,
                   reports, lines>>

RxAccessory ==
    /\ commands > 0
    /\ \E a \in AccessoryRequests : accessory' = accessory \cup {a}
    /\ commands' = commands - 1
    /\ UNCHANGED <<overrides, exec, motion, program, blocks, state, suspension, flood,
                   reports, lines>>

\* '?', '!', the door and '~'.
RxState ==
    /\ commands > 0
    /\ \E e \in {"status", "hold", "door", "start"} : exec' = exec \cup {e}
    /\ commands' = commands - 1
    /\ UNCHANGED <<overrides, motion, accessory, program, blocks, state, suspension, flood,
                   reports, lines>>

\* mc_reset stops the coolant at once.
RxReset ==
    /\ commands > 0 /\ "reset" \notin exec
    /\ exec' = exec \cup {"reset"} /\ output' = "M9"
    /\ commands' = commands - 1
    /\ UNCHANGED <<overrides, motion, accessory, program, blocks, state, suspension,
                   coolant, toggled, reports, lines>>

\* The stepper interrupt and the segment generator finish a block.
BlockDone ==
    /\ state = "cycle" /\ blocks # <<>>
    /\ blocks' = Tail(blocks)
    /\ UNCHANGED <<overrides, requests, program, state, suspension, flood, reports, bounds>>

-----------------------------------------------------------------------------
(* report_realtime_status: offsets and overrides only every so often.      *)

Busy == state \in {"cycle", "hold", "door"}
Actual == [feed |-> feed, rapid |-> rapid, spindle |-> spindle, coolant |-> output]

\* A report with the offsets puts off the overrides to the next one.
AfterWco == IF wcoCounter > 0 THEN ovrCounter
            ELSE IF ovrCounter = 0 THEN 1 ELSE ovrCounter
Report ==
    /\ wcoCounter' = IF wcoCounter > 0 THEN wcoCounter - 1
                     ELSE IF Busy THEN WcoBusy - 1 ELSE WcoIdle - 1
    /\ IF AfterWco > 0
         THEN ovrCounter' = AfterWco - 1 /\ UNCHANGED told
         ELSE /\ ovrCounter' = IF Busy THEN OvrBusy - 1 ELSE OvrIdle - 1
              /\ told' = Actual

-----------------------------------------------------------------------------
(* A pass of protocol_exec_rt_system.                                      *)

Abort ==
    /\ pc = "state" /\ "reset" \in exec
    /\ pc' = "reinit"
    /\ UNCHANGED <<overrides, requests, back, copied, line, blocks, state, suspension, flood,
                   reports, bounds>>

\* A cycle start together with a hold or the door does nothing.
Starting == "start" \in exec /\ exec \cap {"hold", "door"} = {}

\* The door is left when all is restored.
Leaving == Starting /\ state = "door" /\ stage = "restored"

StateServed ==
    IF "door" \in exec /\ state # "check" THEN "door"
    ELSE IF "hold" \in exec /\ state \in {"idle", "cycle"} THEN "hold"
    ELSE IF Leaving \/ (Starting /\ state = "hold")
      THEN IF blocks = <<>> THEN "idle" ELSE "cycle"
    ELSE IF state = "cycle" /\ blocks = <<>> THEN "idle"
    ELSE IF state = "idle" /\ blocks # <<>> THEN "cycle"
    ELSE state

\* A door that opens during the restoration retracts again; one that is closed
\* and started restores.
StageServed ==
    IF "door" \in exec /\ state = "door"
      THEN CASE stage \in {"restoring", "restored"} -> "retract"
             [] stage = "closed" -> "retracted"
             [] OTHER -> stage
    ELSE IF Leaving THEN "retract"
    ELSE IF Starting /\ state = "door" /\ stage = "closed" THEN "restoring"
    ELSE stage

ServeState ==
    /\ pc = "state" /\ "reset" \notin exec
    /\ IF "status" \in exec THEN Report ELSE UNCHANGED reports
    /\ state' = StateServed
    /\ stage' = StageServed
    /\ exec' = {}
    /\ pc' = "motion"
    /\ UNCHANGED <<overrides, motion, accessory, back, copied, line, blocks, captured,
                   suspended, flood, bounds>>

\* The requests are copied, and all are cleared a moment later.
CopyMotion ==
    /\ pc = "motion"
    /\ IF motion = {} THEN pc' = "accessory" /\ UNCHANGED copied
                      ELSE pc' = "applyMotion" /\ copied' = motion
    /\ UNCHANGED <<overrides, requests, back, line, blocks, state, suspension, flood,
                   reports, bounds>>

Unclamped(v, asked) ==
    ((IF "reset" \in asked THEN Default ELSE v)
       + (IF "+10" \in asked THEN 10 ELSE 0) - (IF "-10" \in asked THEN 10 ELSE 0)
       + (IF "+1" \in asked THEN 1 ELSE 0) - (IF "-1" \in asked THEN 1 ELSE 0)) % 256

Override(v, asked) ==
    LET new == Unclamped(v, asked)
    IN  IF new > Highest THEN Highest ELSE IF new < Lowest THEN Lowest ELSE new

Rapid(v, asked) == CASE "low" \in asked -> 25
                     [] "low" \notin asked /\ "medium" \in asked -> 50
                     [] asked \cap {"low", "medium"} = {} /\ "full" \in asked -> 100
                     [] OTHER -> v

\* plan_update_velocity_profile_parameters and plan_cycle_reinitialize follow
\* a change.
ApplyMotionUnplanned ==                                 \* faulty variant
    /\ pc = "applyMotion"
    /\ motion' = {}
    /\ feed' = Override(feed, copied) /\ rapid' = Rapid(rapid, copied)
    /\ planned' = IF feed' # feed THEN <<feed', rapid'>> ELSE planned
    /\ ovrCounter' = IF feed' # feed \/ rapid' # rapid THEN 0 ELSE ovrCounter
    /\ pc' = "accessory"
    /\ UNCHANGED <<spindle, exec, accessory, back, copied, line, blocks, state, suspension,
                   flood, wcoCounter, told, bounds>>
ApplyMotion ==
    /\ pc = "applyMotion"
    /\ motion' = {}
    /\ feed' = Override(feed, copied) /\ rapid' = Rapid(rapid, copied)
    /\ IF feed' # feed \/ rapid' # rapid
         THEN planned' = <<feed', rapid'>> /\ ovrCounter' = 0
         ELSE UNCHANGED <<planned, ovrCounter>>
    /\ pc' = "accessory"
    /\ UNCHANGED <<spindle, exec, accessory, back, copied, line, blocks, state, suspension,
                   flood, wcoCounter, told, bounds>>

\* The end of a pass: into or out of protocol_exec_rt_suspend.
PassEnds == /\ pc' = IF Held THEN "suspend" ELSE back
            /\ suspended' = (suspended /\ Held)

CopyAccessory ==
    /\ pc = "accessory"
    /\ IF accessory = {} THEN PassEnds /\ UNCHANGED copied
                         ELSE pc' = "applyAccessory" /\ copied' = accessory /\ UNCHANGED suspended
    /\ UNCHANGED <<overrides, requests, back, line, blocks, state, captured, stage,
                   flood, reports, bounds>>

Toggles == "flood" \in copied /\ state \in {"idle", "cycle", "hold"}
Other(c) == IF c = "M8" THEN "M9" ELSE "M8"

\* In the pass M30 makes when it has reset the modes and not yet the outputs.
Passing == {"state", "motion", "applyMotion", "accessory", "applyAccessory", "suspend"}
Ending == pc = "syncWco" \/ (pc \in Passing /\ back = "syncWco")

\* Did the planner, a hold or M30 take the coolant, so that it may come back?
Taken == blocks # <<>> \/ suspended \/ Ending

\* coolant_set_state: blocked by an abort, which no pass goes on with.
ApplyAccessoryUntold ==                                 \* faulty variant
    /\ pc = "applyAccessory"
    /\ accessory' = {}
    /\ spindle' = Override(spindle, copied)
    /\ IF Toggles THEN coolant' = Other(coolant) /\ output' = coolant' /\ toggled' = Taken
                  ELSE UNCHANGED flood
    /\ ovrCounter' = IF Toggles THEN 0 ELSE ovrCounter
    /\ PassEnds
    /\ UNCHANGED <<feed, rapid, planned, exec, motion, back, copied, line, blocks, state,
                   captured, stage, wcoCounter, told, bounds>>
ApplyAccessory ==
    /\ pc = "applyAccessory"
    /\ accessory' = {}
    /\ spindle' = Override(spindle, copied)
    /\ IF Toggles THEN coolant' = Other(coolant) /\ output' = coolant' /\ toggled' = Taken
                  ELSE UNCHANGED flood
    /\ ovrCounter' = IF Toggles \/ spindle' # spindle THEN 0 ELSE ovrCounter
    /\ PassEnds
    /\ UNCHANGED <<feed, rapid, planned, exec, motion, back, copied, line, blocks, state,
                   captured, stage, wcoCounter, told, bounds>>

-----------------------------------------------------------------------------
(* protocol_exec_rt_suspend.                                               *)

\* What a door will restore is taken when the hold begins.
Suspend ==
    /\ pc = "suspend" /\ ~suspended
    /\ captured' = IF blocks = <<>> THEN coolant ELSE Head(blocks)
    /\ toggled' = (toggled /\ (blocks # <<>> \/ output # coolant \/ Ending))
    /\ suspended' = TRUE
    /\ UNCHANGED <<overrides, requests, program, blocks, state, stage, coolant, output, reports,
                   bounds>>

Behind(stages) == pc = "suspend" /\ suspended /\ state = "door" /\ stage \in stages

Retract ==
    /\ Behind({"retract"})
    /\ output' = "M9" /\ ovrCounter' = 0
    /\ stage' = "retracted"
    /\ pc' = "state"
    /\ UNCHANGED <<overrides, requests, back, copied, line, blocks, state, captured, suspended,
                   coolant, toggled, wcoCounter, told, bounds>>

\* The coolant is back as captured; a cycle start is raised, and until it is
\* served alone all is restored once more.
RestoreSkipped ==                                       \* faulty variant
    /\ Behind({"restoring", "restored"})
    /\ stage' = "restored" /\ exec' = exec \cup {"start"}
    /\ pc' = "state"
    /\ UNCHANGED <<overrides, motion, accessory, back, copied, line, blocks, state, captured,
                   suspended, flood, reports, bounds>>
Restore ==
    /\ Behind({"restoring", "restored"})
    /\ IF coolant # "M9" THEN output' = captured /\ ovrCounter' = 0
                         ELSE UNCHANGED <<output, ovrCounter>>
    /\ stage' = "restored" /\ exec' = exec \cup {"start"}
    /\ pc' = "state"
    /\ UNCHANGED <<overrides, motion, accessory, back, copied, line, blocks, state, captured,
                   suspended, coolant, toggled, wcoCounter, told, bounds>>

\* A pass while a hold lasts, before the door is seen closed and after, and in
\* the delay in which the spindle is restored.
SuspendWaits ==
    /\ pc = "suspend" /\ suspended
    /\ state = "door" => stage \in {"retracted", "closed", "restoring"}
    /\ stage' = IF state = "door" /\ stage = "retracted" THEN "closed" ELSE stage
    /\ pc' = "state"
    /\ UNCHANGED <<overrides, requests, back, copied, line, blocks, state, captured, suspended,
                   flood, reports, bounds>>

-----------------------------------------------------------------------------
(* Lines.                                                                  *)

\* The main loop makes a pass between lines.
Loop ==
    /\ pc = "loop"
    /\ pc' = "state" /\ back' = "loop"
    /\ UNCHANGED <<overrides, requests, copied, line, blocks, state, suspension, flood,
                   reports, bounds>>

\* A line starts from a copy of the modes, the coolant among them; S waits for
\* the planner before the coolant of the line is looked at.
TakeLine ==
    /\ pc = "loop" /\ lines > 0
    /\ \E k \in LineKinds \ {"$C"} :
          /\ line' = [kind |-> k, coolant |-> IF k \in {"M8", "M9"} THEN k ELSE coolant]
          /\ IF k = "S" /\ state # "check" THEN pc' = "state" /\ back' = "sync"
                                           ELSE pc' = "coolant" /\ UNCHANGED back
    /\ lines' = lines - 1
    /\ UNCHANGED <<overrides, requests, copied, blocks, state, suspension, flood, reports, commands>>

\* protocol_buffer_synchronize, one round.
SyncWaits ==
    /\ pc \in {"sync", "syncCoolant", "syncEnd", "syncWco"}
    /\ blocks # <<>> \/ state = "cycle"
    /\ pc' = "state" /\ back' = pc
    /\ UNCHANGED <<overrides, requests, copied, line, blocks, state, suspension, flood,
                   reports, bounds>>

\* spindle_set_state.
Synchronized ==
    /\ pc = "sync" /\ blocks = <<>> /\ state # "cycle"
    /\ ovrCounter' = 0
    /\ pc' = "coolant"
    /\ UNCHANGED <<overrides, requests, back, copied, line, blocks, state, suspension, flood,
                   wcoCounter, told, bounds>>

AfterCoolant == CASE line.kind = "motion" -> "plan"
                  [] line.kind = "M30" -> "state"
                  [] OTHER -> "loop"

\* Step 8: coolant_sync, which check mode leaves at once.
LookAtCoolant ==
    /\ pc = "coolant"
    /\ IF coolant = line.coolant
         THEN /\ pc' = AfterCoolant /\ UNCHANGED coolant
              /\ back' = IF pc' = "state" THEN "syncEnd" ELSE back
         ELSE IF state = "check"
         THEN /\ pc' = AfterCoolant /\ coolant' = line.coolant
              /\ back' = IF pc' = "state" THEN "syncEnd" ELSE back
         ELSE /\ pc' = "state" /\ back' = "syncCoolant" /\ UNCHANGED coolant
    /\ UNCHANGED <<overrides, requests, copied, line, blocks, state, suspension, output,
                   toggled, reports, bounds>>

SetCoolant ==
    /\ pc = "syncCoolant" /\ blocks = <<>> /\ state # "cycle"
    /\ coolant' = line.coolant /\ output' = line.coolant /\ ovrCounter' = 0
    /\ toggled' = FALSE
    /\ pc' = AfterCoolant
    /\ back' = IF pc' = "state" THEN "syncEnd" ELSE back
    /\ UNCHANGED <<overrides, requests, copied, line, blocks, state, suspension, wcoCounter,
                   told, bounds>>

\* mc_line: a full planner takes the motion when there is room.
Plan ==
    /\ pc = "plan"
    /\ IF state = "check" THEN pc' = "loop" /\ UNCHANGED <<blocks, planned, back>>
       ELSE IF Len(blocks) < MaxBlocks
       THEN /\ blocks' = Append(blocks, coolant)
            /\ planned' = IF blocks = <<>> THEN <<feed, rapid>> ELSE planned
            /\ pc' = "loop" /\ UNCHANGED back
       ELSE pc' = "state" /\ back' = "plan" /\ UNCHANGED <<blocks, planned>>
    /\ UNCHANGED <<feed, rapid, spindle, requests, copied, line, state, suspension, flood,
                   reports, bounds>>

\* M30: modes and overrides are restored; outside of check mode
\* system_flag_wco_change first synchronizes once more ...
EndModes ==
    /\ pc = "syncEnd" /\ blocks = <<>> /\ state # "cycle"
    /\ feed' = Default /\ rapid' = Default /\ spindle' = Default
    /\ coolant' = "M9" /\ toggled' = FALSE
    /\ IF state = "check" THEN pc' = "loop" /\ UNCHANGED back
                          ELSE pc' = "state" /\ back' = "syncWco"
    /\ UNCHANGED <<planned, requests, copied, line, blocks, state, suspension, output, reports,
                   bounds>>

\* ... before spindle and coolant stop and the counters restart.
EndOutputs ==
    /\ pc = "syncWco" /\ blocks = <<>> /\ state # "cycle"
    /\ output' = "M9" /\ ovrCounter' = 0 /\ wcoCounter' = 0
    /\ pc' = "loop"
    /\ UNCHANGED <<overrides, requests, back, copied, line, blocks, state, suspension, coolant,
                   toggled, told, bounds>>

\* $C: into check mode, and out of it by a reset.
CheckMode ==
    /\ "$C" \in LineKinds
    /\ pc = "loop" /\ lines > 0 /\ state \in {"idle", "check"}
    /\ IF state = "idle" THEN state' = "check" /\ UNCHANGED <<exec, output>>
                         ELSE exec' = exec \cup {"reset"} /\ output' = "M9" /\ UNCHANGED state
    /\ lines' = lines - 1
    /\ UNCHANGED <<overrides, motion, accessory, program, blocks, suspension, coolant, toggled,
                   reports, commands>>

\* main() after an abort: everything but the position starts afresh.
Reinitialize ==
    /\ pc = "reinit"
    /\ feed' = Default /\ rapid' = Default /\ spindle' = Default /\ UNCHANGED planned
    /\ exec' = {} /\ motion' = {} /\ accessory' = {}
    /\ blocks' = <<>> /\ state' = "idle" /\ line' = NoLine
    /\ suspended' = FALSE /\ stage' = "retract"
    /\ coolant' = "M9" /\ output' = "M9" /\ toggled' = FALSE
    /\ ovrCounter' = 0 /\ wcoCounter' = 0
    /\ pc' = "loop"
    /\ UNCHANGED <<back, copied, captured, told, bounds>>

Init ==
    /\ \E start \in Starts : feed = start[1] /\ spindle = start[2]
    /\ rapid = Default /\ planned = <<feed, rapid>>
    /\ exec = {} /\ motion = {} /\ accessory = {} /\ copied = {}
    /\ pc = "loop" /\ back = "loop" /\ line = NoLine
    /\ blocks = <<>> /\ state = "idle"
    /\ captured = "M9" /\ suspended = FALSE /\ stage = "retract"
    /\ coolant = "M9" /\ output = "M9" /\ toggled = FALSE
    /\ ovrCounter = 0 /\ wcoCounter = 0 /\ told = Actual
    /\ commands = MaxCommands /\ lines = MaxLines

Interrupts == RxMotion \/ RxAccessory \/ RxState \/ RxReset \/ BlockDone
Pass == Abort \/ ServeState \/ CopyMotion \/ ApplyMotion \/ CopyAccessory \/ ApplyAccessory
Suspension == Suspend \/ Retract \/ Restore \/ SuspendWaits
Main == \/ Loop \/ TakeLine \/ SyncWaits \/ Synchronized \/ LookAtCoolant \/ SetCoolant
        \/ Plan \/ EndModes \/ EndOutputs \/ CheckMode \/ Reinitialize

Next == Interrupts \/ Pass \/ Suspension \/ Main

Spec == Init /\ [][Next]_vars

-----------------------------------------------------------------------------
(* Properties.                                                             *)

Coolants == {"M8", "M9"}

OverridesOK == /\ feed \in Percent /\ rapid \in {25, 50, 100} /\ spindle \in Percent
               /\ planned \in Percent \X {25, 50, 100}
RequestsOK == /\ exec \subseteq {"reset", "status", "hold", "door", "start"}
              /\ motion \subseteq MotionRequests /\ accessory \subseteq AccessoryRequests
ProgramOK ==
    /\ pc \in {"loop", "state", "motion", "applyMotion", "accessory", "applyAccessory",
                "suspend", "sync", "coolant", "syncCoolant", "plan", "syncEnd", "syncWco",
                "reinit"}
    /\ back \in {"loop", "sync", "syncCoolant", "plan", "syncEnd", "syncWco"}
    /\ state \in {"idle", "cycle", "hold", "door", "check"}
    /\ suspended \in BOOLEAN
    /\ stage \in {"retract", "retracted", "closed", "restoring", "restored"}
CoolantOK ==
    /\ line \in [kind : {"none"} \cup LineKinds, coolant : Coolants]
    /\ blocks \in Seq(Coolants) /\ Len(blocks) <= MaxBlocks
    /\ coolant \in Coolants /\ output \in Coolants /\ captured \in Coolants
    /\ toggled \in BOOLEAN
CountersOK == /\ ovrCounter \in 0..OvrBusy /\ wcoCounter \in 0..WcoBusy
              /\ commands \in 0..MaxCommands /\ lines \in 0..MaxLines

\* Overrides stay in their range, the queue in its bound and the counters of
\* the reports below their refresh counts.
TypeOK == OverridesOK /\ RequestsOK /\ ProgramOK /\ CoolantOK /\ CountersOK

\* Every change of an override and of the coolant goes into the next report,
\* or the one after the offsets (report_ovr_counter = 0, "Set to report change
\* immediately"), whoever makes it and whatever the refresh counters are at;
\* except that in the pass of M30 the overrides it restored wait for its stop of
\* the coolant, which sets the counter.
ReportedSoon ==
    told # Actual => ovrCounter = 0 \/ "reset" \in exec \/ state = "check" \/ Ending

\* Blocks waiting in the planner are planned for the overrides in force.
PlanFollows == blocks # <<>> => planned = <<feed, rapid>>

\* Between lines the coolant flows as the parser believes (protocol.c: "the
\* current run state can be determined by checking the parser state"), unless
\* it was toggled behind somebody's back: while motion was planned or a hold
\* suspended, whose modes a door goes back to, or in the pass of M30, which
\* then stops what the parser believes on.
CoolantAgrees ==
    (pc = "loop" /\ state # "check" /\ "reset" \notin exec) =>
        (output = coolant \/ toggled)

\* The same without the exception.
CoolantFollows ==
    (pc = "loop" /\ state # "check" /\ "reset" \notin exec) => output = coolant

\* Only a line with M7, M8 or M9 switches the coolant: a line that waited for
\* the planner does not take back what the operator toggled in the meantime.
ToggleKept == pc = "syncCoolant" => line.kind \in {"M8", "M9"}

\* A request for less never gives more.
LowerIsLower ==
    [][ (pc = "applyMotion" /\ copied \subseteq {"-10", "-1"}) => feed' <= feed ]_vars
=============================================================================
