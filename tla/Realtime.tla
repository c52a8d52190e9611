------------------------------ MODULE Realtime ------------------------------
(***************************************************************************)
(* The realtime state machine of the firmware: grbl/protocol.c, with the   *)
(* interrupt handlers that talk to it through sys_rt_exec_state and        *)
(* sys_rt_exec_alarm (serial.c, limits.c, stepper.c), mc_reset, the calls  *)
(* that wait for motion (mc_line, protocol_buffer_synchronize), jogging    *)
(* and the reinitialisation loop of main.c.                                *)
(*                                                                         *)
(* The main program is one thread: pc says where it is, caller which loop  *)
(* called protocol_exec_rt_system, task which statement of the program     *)
(* called protocol_execute_realtime.  Interrupt handlers run between any   *)
(* two of its steps; a pass is cut into steps wherever a handler that runs *)
(* there can change what the pass does.                                    *)
(*                                                                         *)
(* Motion is counted in step segments: "planned" is what st_prep_buffer    *)
(* has still to cut from the planner's blocks, "segs" what is in the       *)
(* segment ring.  Configuration as built: no parking motion, no door       *)
(* switch, hard limits wired, soft limits off.  Homing, probing, coolant,  *)
(* speed overrides and status reports are not in this module.              *)
(***************************************************************************)
EXTENDS Naturals

CONSTANTS Commands,      \* what the operator or the machine may signal
          Lines,         \* the kinds of line the host may send
          MaxCommands,   \* bound on the number of signals
          MaxLines,      \* bound on the number of lines
          BlockSegments, \* segments st_prep_buffer cuts a block into
          BlockBuffer,   \* blocks the planner holds (BLOCK_BUFFER_SIZE-1)
          SegmentBuffer, \* segments the ring holds (SEGMENT_BUFFER_SIZE-1)
          RaceWindows,   \* may a reset or a limit switch hit the stretches
                         \* named in InRaceWindow?
          Underrun       \* may the stepper outrun st_prep_buffer?

AllCommands == {"RESET", "FEED_HOLD", "CYCLE_START", "SAFETY_DOOR",
                "JOG_CANCEL", "SPINDLE_STOP", "LIMIT"}
AllLines == {"motion", "dwell", "pause", "spindle", "jog", "unlock", "sleep",
             "check"}

ASSUME CommandAssumption == Commands \subseteq AllCommands
ASSUME LineAssumption == Lines \subseteq AllLines
ASSUME BoundAssumption == MaxCommands \in Nat /\ MaxLines \in Nat
ASSUME BufferAssumption == /\ BlockSegments \in Nat \ {0}
                           /\ BlockBuffer \in Nat \ {0}
                           /\ SegmentBuffer \in Nat \ {0}
ASSUME SwitchAssumption == RaceWindows \in BOOLEAN /\ Underrun \in BOOLEAN

States == {"IDLE", "ALARM", "CHECK", "CYCLE", "HOLD", "JOG", "DOOR", "SLEEP"}
SuspendFlags == {"HOLD_COMPLETE", "RESTART_RETRACT", "RETRACT_COMPLETE",
                 "INITIATE_RESTORE", "RESTORE_COMPLETE", "SAFETY_DOOR_AJAR",
                 "MOTION_CANCEL", "JOG_CANCEL"}
StepControlFlags == {"EXECUTE_HOLD", "END_MOTION"}
HoldFlags == {"MOTION_CANCEL", "FEED_HOLD", "SAFETY_DOOR", "SLEEP"}
ExecFlags == HoldFlags \cup {"RESET", "CYCLE_START", "CYCLE_STOP"}
Alarms == {"HARD_LIMIT", "ABORT_CYCLE"}
NoAlarm == "none"
StopOvrFlags == {"ENABLED", "INITIATE", "RESTORE", "RESTORE_CYCLE"}

VARIABLES
    state, suspend, stepControl, abort,     \* sys.state, .suspend,
                                            \* .step_control, .abort
    stopOvr,                                \* sys.spindle_stop_ovr
    rtState, rtAlarm,                       \* sys_rt_exec_state, .._alarm
    stopRequest,                            \* EXEC_SPINDLE_OVR_STOP
    rtExec,                                 \* the local copy rt_exec
    pc, caller, task, line,                 \* control of the main program
    planned, segs,                          \* motion waiting, see above
    more,                                   \* did st_prep_buffer leave work?
    stepping,                               \* OCIE1A: stepper interrupt on
    spindle, modalSpindle,                  \* output; gc_state.modal.spindle
    commands, lines,                        \* signals and lines left
    asked,      \* history: has the operator's '~' come since the last hold?
    lost        \* history: were the steppers cut while steps were left?

sys == <<state, suspend, stepControl, abort, stopOvr>>
flags == <<rtState, rtAlarm, stopRequest>>
control == <<pc, caller, task, line, rtExec>>
motion == <<planned, segs, more, stepping>>
output == <<spindle, modalSpindle>>
bounds == <<commands, lines>>
history == <<asked, lost>>
vars == <<sys, flags, control, motion, output, bounds, history>>

-----------------------------------------------------------------------------
(* The planner and the segment ring, as the state machine sees them.       *)

Capacity == BlockBuffer * BlockSegments  \* segments of a full planner

PlanFull ==            \* plan_check_full_buffer: no room for another block
    planned > (BlockBuffer - 1) * BlockSegments

MotionQueued == planned > 0              \* plan_get_current_block() # NULL

Least(m, n) == IF m < n THEN m ELSE n

RoomIgnoresRing == planned                                \* faulty variant
Room == Least(planned, SegmentBuffer - segs)

\* st_prep_buffer under step control c.  In normal operation it fills the
\* ring as far as there is motion; in a hold it stops where the deceleration
\* ends, if that is before the last block does, and sets END_MOTION.
Prep(c) ==
    /\ IF "END_MOTION" \in c \/ ~MotionQueued \/ segs = SegmentBuffer
         THEN UNCHANGED <<planned, segs>> /\ stepControl' = c
         ELSE \E n \in 0..Room :
                /\ planned' = planned - n
                /\ segs' = segs + n
                /\ \/ n = Room /\ stepControl' = c
                   \/ /\ "EXECUTE_HOLD" \in c
                      /\ planned' > 0
                      /\ stepControl' = c \cup {"END_MOTION"}
    /\ more' = (planned' > 0 /\ "END_MOTION" \notin stepControl')

\* protocol_auto_cycle_start
AutoCycleStartNever == {}                                 \* faulty variant
AutoCycleStart == IF MotionQueued THEN {"CYCLE_START"} ELSE {}

\* With homing enabled the machine powers up locked (HOMING_INIT_LOCK).
Init ==
    /\ state \in {"IDLE", "ALARM"}
    /\ suspend = {} /\ stepControl = {} /\ abort = FALSE /\ stopOvr = {}
    /\ rtState = {} /\ rtAlarm = NoAlarm
    /\ stopRequest = FALSE /\ rtExec = {}
    /\ pc = "start-up" /\ caller = "task" /\ task = "loop" /\ line = "motion"
    /\ planned = 0 /\ segs = 0 /\ more = FALSE /\ stepping = FALSE
    /\ spindle = "stopped" /\ modalSpindle = FALSE
    /\ commands = MaxCommands /\ lines = MaxLines
    /\ asked = FALSE /\ lost = FALSE

-----------------------------------------------------------------------------
(* mc_reset: called by the receive interrupt, the limit interrupt and "$C".*)

MotionToKillInCycleOnly == state \in {"CYCLE", "JOG"}     \* faulty variant
MotionToKill == state \in {"CYCLE", "JOG"} \/ "EXECUTE_HOLD" \in stepControl

McReset ==
    IF "RESET" \in rtState
      THEN UNCHANGED <<rtState, rtAlarm, spindle, stepping, lost>>
      ELSE /\ rtState' = rtState \cup {"RESET"}
           /\ spindle' = "stopped"
           /\ rtAlarm' = IF MotionToKill THEN "ABORT_CYCLE" ELSE rtAlarm
           /\ stepping' = (stepping /\ ~MotionToKill)
           /\ lost' = (lost \/ (MotionToKill /\ stepping /\ segs > 0))

(* Calls of protocol_execute_realtime and protocol_exec_rt_system.         *)

Execute(t) == task' = t /\ caller' = "task" /\ pc' = "alarm"

ExecSystem(c) == caller' = c /\ pc' = "alarm" /\ UNCHANGED task

\* Where protocol_exec_rt_system returns to: the statement after the call, the
\* suspend loop, the delay for the spindle, which makes any number of passes,
\* or the sleep loop, which only an abort leaves.
ReturnTo(aborting) ==
    CASE caller = "task" -> {IF suspend = {} THEN "returned" ELSE "suspend"}
      [] caller = "suspend" -> {"suspend"}
      [] caller = "delay" -> IF aborting \/ "RESTART_RETRACT" \in suspend
                               THEN {"restored"} ELSE {"restored", "alarm"}
      [] caller = "sleep" -> {IF aborting THEN "returned" ELSE "alarm"}

-----------------------------------------------------------------------------
(* protocol_exec_rt_system: the alarm.                                     *)

ReadAlarm ==
    /\ pc = "alarm"
    /\ rtExec' = IF rtAlarm = NoAlarm THEN {} ELSE {rtAlarm}
    /\ pc' = IF rtAlarm = NoAlarm THEN "snapshot" ELSE "enterAlarm"
    /\ UNCHANGED <<sys, flags, caller, task, line, motion, output, bounds, history>>

Critical == "HARD_LIMIT" \in rtExec

EnterAlarm ==
    /\ pc = "enterAlarm"
    /\ state' = "ALARM"
    /\ rtState' = IF Critical THEN rtState \ {"RESET"} ELSE rtState
    /\ pc' = IF Critical THEN "critical" ELSE "clearAlarm"
    /\ UNCHANGED <<suspend, stepControl, abort, stopOvr, rtAlarm, stopRequest,
                   caller, task, line, rtExec, motion, output, bounds, history>>

\* A critical alarm blocks everything until the operator resets.
LeaveCritical ==
    /\ pc = "critical"
    /\ "RESET" \in rtState
    /\ pc' = "clearAlarm"
    /\ UNCHANGED <<sys, flags, caller, task, line, rtExec, motion, output,
                   bounds, history>>

ClearAlarm ==
    /\ pc = "clearAlarm"
    /\ rtAlarm' = NoAlarm
    /\ pc' = "snapshot"
    /\ UNCHANGED <<sys, rtState, stopRequest, caller, task, line, rtExec,
                   motion, output, bounds, history>>

(* The copy of the flags, and the order in which they are served.          *)

AfterStart(f) == IF "CYCLE_STOP" \in f THEN "stop" ELSE "finish"
AfterHold(f) == IF "CYCLE_START" \in f THEN "start" ELSE AfterStart(f)
FirstService(f) == IF f \cap HoldFlags # {} THEN "hold" ELSE AfterHold(f)

\* A new stop request voids the operator's earlier '~'.  A feed hold does not
\* once the door has stopped the machine: it is ignored there.
VoidsResume(f) ==
    "SAFETY_DOOR" \in f \/ ("FEED_HOLD" \in f /\ state # "DOOR")

SnapshotForgetsAbort ==                                   \* faulty variant
    /\ pc = "snapshot"
    /\ rtExec' = rtState
    /\ pc' \in IF "RESET" \in rtState THEN ReturnTo(TRUE) ELSE {FirstService(rtState)}
    /\ asked' = (asked /\ ~VoidsResume(rtState))
    /\ UNCHANGED <<sys, flags, caller, task, line, motion, output, bounds, lost>>
Snapshot ==
    /\ pc = "snapshot"
    /\ rtExec' = rtState
    /\ abort' = (abort \/ "RESET" \in rtState)
    /\ pc' \in IF "RESET" \in rtState THEN ReturnTo(TRUE) ELSE {FirstService(rtState)}
    /\ asked' = (asked /\ ~VoidsResume(rtState))
    /\ UNCHANGED <<state, suspend, stepControl, stopOvr, flags, caller, task,
                   line, motion, output, bounds, lost>>

-----------------------------------------------------------------------------
(* The hold requests: motion cancel, feed hold, safety door, sleep.        *)

HoldsAllowed == state \notin {"ALARM", "CHECK"}

StartsHold == /\ state \in {"CYCLE", "JOG"}
              /\ suspend \cap {"MOTION_CANCEL", "JOG_CANCEL"} = {}

\* sys.suspend after the common part and the motion cancel.
SuspendOnHold(f) ==
    LET base == IF state = "IDLE" THEN {"HOLD_COMPLETE"} ELSE suspend
    IN  base \cup (IF StartsHold /\ state = "JOG" /\ "SLEEP" \notin f
                     THEN {"JOG_CANCEL"} ELSE {})
             \cup (IF "MOTION_CANCEL" \in f /\ state # "JOG"
                     THEN {"MOTION_CANCEL"} ELSE {})

StateOnFeedHold(f) ==
    IF "FEED_HOLD" \in f /\ state \notin {"DOOR", "JOG", "SLEEP"}
      THEN "HOLD" ELSE state

\* The door opens: while the machine is being restored it has to retract
\* again; while a jog is being cancelled it is only noted.
ReopenForgotten(u) == u                                   \* faulty variant
Reopen(u) ==
    IF state = "DOOR" /\ "INITIATE_RESTORE" \in u
      THEN (u \ {"RETRACT_COMPLETE", "INITIATE_RESTORE", "RESTORE_COMPLETE"})
             \cup {"RESTART_RETRACT"}
      ELSE u

SuspendOnDoor(u) ==
    (IF "JOG_CANCEL" \in u THEN u ELSE Reopen(u)) \cup {"SAFETY_DOOR_AJAR"}

StateOnDoor(s, u) == IF "JOG_CANCEL" \in u \/ s = "SLEEP" THEN s ELSE "DOOR"

Hold ==
    /\ pc = "hold"
    /\ LET door == "SAFETY_DOOR" \in rtExec
           sleep == "SLEEP" \in rtExec
           u == SuspendOnHold(rtExec)
           s == StateOnFeedHold(rtExec)
       IN  IF HoldsAllowed
             THEN /\ stepControl' = IF StartsHold THEN {"EXECUTE_HOLD"}
                                                  ELSE stepControl
                  /\ suspend' = IF door THEN SuspendOnDoor(u) ELSE u
                  /\ state' = IF sleep THEN "SLEEP"
                              ELSE IF door THEN StateOnDoor(s, u) ELSE s
             ELSE /\ UNCHANGED stepControl
                  /\ suspend' = IF sleep /\ state = "ALARM"
                                  THEN suspend \cup {"RETRACT_COMPLETE", "HOLD_COMPLETE"}
                                  ELSE suspend
                  /\ state' = IF sleep THEN "SLEEP" ELSE state
    /\ pc' = "holdClear"
    /\ UNCHANGED <<abort, stopOvr, flags, caller, task, line, rtExec, motion,
                   output, bounds, history>>

\* All four hold flags are cleared, those set since the copy included.
HoldClear ==
    /\ pc = "holdClear"
    /\ rtState' = rtState \ HoldFlags
    /\ pc' = AfterHold(rtExec)
    /\ UNCHANGED <<sys, rtAlarm, stopRequest, caller, task, line, rtExec,
                   motion, output, bounds, history>>

-----------------------------------------------------------------------------
(* Cycle start.                                                            *)

StartBlockedNever == FALSE                                \* faulty variant
StartBlocked ==
    rtExec \cap {"FEED_HOLD", "MOTION_CANCEL", "SAFETY_DOOR"} # {}

DoorClosed == state = "DOOR" /\ "SAFETY_DOOR_AJAR" \notin suspend

MayStart(s) == s = "IDLE" \/ (s = "HOLD" /\ "HOLD_COMPLETE" \in suspend)

StartClearNext == /\ pc' = "startClear"
                  /\ UNCHANGED <<flags, caller, task, line, rtExec, motion,
                                 output, bounds, history, abort>>

\* The request does not start anything.
StartIgnored ==
    /\ pc = "start"
    /\ \/ StartBlocked
       \/ ~DoorClosed /\ ~MayStart(state)
       \/ DoorClosed /\ suspend \cap {"RESTORE_COMPLETE", "RETRACT_COMPLETE"} = {}
    /\ StartClearNext
    /\ UNCHANGED <<state, suspend, stepControl, stopOvr>>

\* The door is closed and the machine retracted: begin to restore it.
StartRestore ==
    /\ pc = "start"
    /\ ~StartBlocked
    /\ DoorClosed
    /\ "RESTORE_COMPLETE" \notin suspend
    /\ "RETRACT_COMPLETE" \in suspend
    /\ suspend' = suspend \cup {"INITIATE_RESTORE"}
    /\ StartClearNext
    /\ UNCHANGED <<state, stepControl, stopOvr>>

\* The spindle was stopped during the hold: it is restored before the cycle.
StartSpindleFirst ==
    /\ pc = "start"
    /\ ~StartBlocked
    /\ state = "HOLD" /\ MayStart(state) /\ stopOvr # {}
    /\ stopOvr' = stopOvr \cup {"RESTORE_CYCLE"}
    /\ StartClearNext
    /\ UNCHANGED <<state, suspend, stepControl>>

\* Start a cycle, if motion is queued and not cancelled, or become idle.
DoorRestored == DoorClosed /\ "RESTORE_COMPLETE" \in suspend

StartCycle ==
    /\ pc = "start"
    /\ ~StartBlocked
    /\ DoorRestored \/ MayStart(state)
    /\ ~(state = "HOLD" /\ stopOvr # {})
    /\ stepControl' = {}
    /\ IF MotionQueued /\ "MOTION_CANCEL" \notin suspend
         THEN /\ pc' = "startCycle"
              /\ state' = IF DoorRestored THEN "IDLE" ELSE state
              /\ UNCHANGED suspend
         ELSE pc' = "startClear" /\ state' = "IDLE" /\ suspend' = {}
    /\ UNCHANGED <<abort, stopOvr, flags, caller, task, line, rtExec, motion,
                   output, bounds, history>>

EnterCycle ==
    /\ pc = "startCycle"
    /\ suspend' = {}
    /\ state' = "CYCLE"
    /\ Prep(stepControl)
    /\ pc' = "wake"
    /\ UNCHANGED <<abort, stopOvr, flags, caller, task, line, rtExec, stepping,
                   output, bounds, history>>

\* st_wake_up, at the end of a cycle start or of jog_execute.
WakeUp ==
    /\ pc \in {"wake", "jogWake"}
    /\ stepping' = TRUE
    /\ pc' = IF pc = "wake" THEN "startClear" ELSE "main"
    /\ UNCHANGED <<sys, flags, caller, task, line, rtExec, planned, segs, more,
                   output, bounds, history>>

\* The '~' has been served, unless the restoring of the spindle or of the
\* machine, which it began, still has to start the cycle.
HandedOver == "RESTORE_CYCLE" \in stopOvr \/ "INITIATE_RESTORE" \in suspend

StartClear ==
    /\ pc = "startClear"
    /\ rtState' = rtState \ {"CYCLE_START"}
    /\ asked' = (asked /\ HandedOver)
    /\ pc' = AfterStart(rtExec)
    /\ UNCHANGED <<sys, rtAlarm, stopRequest, caller, task, line, rtExec,
                   motion, output, bounds, lost>>

-----------------------------------------------------------------------------
(* Cycle stop: the stepper interrupt has run out of segments.              *)

StopKeepsHold ==
    state \in {"HOLD", "DOOR", "SLEEP"} /\ "JOG_CANCEL" \notin suspend

\* A feed hold is complete.
StopInHoldIncomplete ==                                   \* faulty variant
    /\ StopKeepsHold
    /\ stepControl' = stepControl \ {"EXECUTE_HOLD"}
    /\ UNCHANGED <<state, suspend, planned, segs, more, stepping>>
StopInHold ==
    /\ StopKeepsHold
    /\ suspend' = IF "EXECUTE_HOLD" \in stepControl
                    THEN suspend \cup {"HOLD_COMPLETE"} ELSE suspend
    /\ stepControl' = stepControl \ {"EXECUTE_HOLD"}
    /\ UNCHANGED <<state, planned, segs, more, stepping>>

\* A motion is complete or cancelled; a cancelled jog is flushed.
StopMotionUnflushed ==                                    \* faulty variant
    /\ ~StopKeepsHold
    /\ IF "SAFETY_DOOR_AJAR" \in suspend
         THEN /\ suspend' = (suspend \ {"JOG_CANCEL"}) \cup {"HOLD_COMPLETE"}
              /\ state' = "DOOR"
         ELSE suspend' = {} /\ state' = "IDLE"
    /\ UNCHANGED <<stepControl, planned, segs, more, stepping>>
StopMotion ==
    /\ ~StopKeepsHold
    /\ IF "JOG_CANCEL" \in suspend
         THEN /\ stepControl' = {}
              /\ planned' = 0 /\ segs' = 0
              /\ more' = FALSE /\ stepping' = FALSE
         ELSE UNCHANGED <<stepControl, planned, segs, more, stepping>>
    /\ IF "SAFETY_DOOR_AJAR" \in suspend
         THEN /\ suspend' = (suspend \ {"JOG_CANCEL"}) \cup {"HOLD_COMPLETE"}
              /\ state' = "DOOR"
         ELSE suspend' = {} /\ state' = "IDLE"

Stop ==
    /\ pc = "stop"
    /\ StopInHold \/ StopMotion
    /\ pc' = "stopClear"
    /\ UNCHANGED <<abort, stopOvr, flags, caller, task, line, rtExec, output,
                   bounds, history>>

StopClear ==
    /\ pc = "stopClear"
    /\ rtState' = rtState \ {"CYCLE_STOP"}
    /\ pc' = "finish"
    /\ UNCHANGED <<sys, rtAlarm, stopRequest, caller, task, line, rtExec,
                   motion, output, bounds, history>>

(* The end of the pass: the spindle stop override and the segment buffer.  *)

SpindleOverride ==
    /\ stopRequest' = FALSE
    /\ stopOvr' = IF stopRequest /\ state = "HOLD"
                    THEN IF stopOvr = {} THEN {"INITIATE"}
                         ELSE IF "ENABLED" \in stopOvr THEN stopOvr \cup {"RESTORE"}
                         ELSE stopOvr
                    ELSE stopOvr

Finish ==
    /\ pc = "finish"
    /\ SpindleOverride
    /\ IF state \in {"CYCLE", "HOLD", "DOOR", "SLEEP", "JOG"}
         THEN Prep(stepControl)
         ELSE UNCHANGED <<planned, segs, more, stepControl>>
    /\ pc' \in ReturnTo(FALSE)
    /\ UNCHANGED <<state, suspend, abort, rtState, rtAlarm, caller, task, line,
                   rtExec, stepping, output, bounds, history>>

ExecRtSystem ==
    \/ ReadAlarm \/ EnterAlarm \/ LeaveCritical \/ ClearAlarm \/ Snapshot
    \/ Hold \/ HoldClear
    \/ StartIgnored \/ StartRestore \/ StartSpindleFirst \/ StartCycle
    \/ EnterCycle \/ WakeUp \/ StartClear
    \/ Stop \/ StopClear \/ Finish

-----------------------------------------------------------------------------
(* protocol_exec_rt_suspend.  Every block in the planner carries the modal *)
(* spindle state, for M3 drains the planner first: restore_condition is    *)
(* modalSpindle whether a block is queued or not.                          *)

Suspended == pc = "suspend" /\ suspend # {} /\ ~abort
HoldDone == "HOLD_COMPLETE" \in suspend
Parking == state \in {"DOOR", "SLEEP"}
Retracted == "RETRACT_COMPLETE" \in suspend

SuspendEnd ==
    /\ pc = "suspend"
    /\ suspend = {} \/ abort
    /\ pc' = "returned"
    /\ UNCHANGED <<sys, flags, caller, task, line, rtExec, motion, output,
                   bounds, history>>

SuspendWait ==
    /\ Suspended
    /\ ~HoldDone
    /\ ExecSystem("suspend")
    /\ UNCHANGED <<sys, flags, line, rtExec, motion, output, bounds, history>>

RetractSpindleLeft ==                                     \* faulty variant
    /\ Suspended /\ HoldDone /\ Parking /\ ~Retracted
    /\ stopOvr' = {}
    /\ suspend' = (suspend \ {"RESTART_RETRACT"}) \cup {"RETRACT_COMPLETE"}
    /\ ExecSystem("suspend")
    /\ UNCHANGED <<state, stepControl, abort, flags, line, rtExec, motion,
                   output, bounds, history>>
Retract ==
    /\ Suspended /\ HoldDone /\ Parking /\ ~Retracted
    /\ stopOvr' = {}
    /\ spindle' = "low"
    /\ suspend' = (suspend \ {"RESTART_RETRACT"}) \cup {"RETRACT_COMPLETE"}
    /\ ExecSystem("suspend")
    /\ UNCHANGED <<state, stepControl, abort, flags, line, rtExec, motion,
                   modalSpindle, bounds, history>>

\* Sleep: everything off, and nothing but a reset is served any more.
FallAsleep ==
    /\ Suspended /\ HoldDone /\ Retracted
    /\ state = "SLEEP"
    /\ spindle' = "low"
    /\ stepping' = FALSE
    /\ ExecSystem("sleep")
    /\ UNCHANGED <<sys, flags, line, rtExec, planned, segs, more, modalSpindle,
                   bounds, history>>

\* The door counts as closed whenever it is looked at: no switch is wired.
DoorWait ==
    /\ Suspended /\ HoldDone /\ Retracted
    /\ state = "DOOR" /\ "INITIATE_RESTORE" \notin suspend
    /\ suspend' = suspend \ {"SAFETY_DOOR_AJAR"}
    /\ ExecSystem("suspend")
    /\ UNCHANGED <<state, stepControl, abort, stopOvr, flags, line, rtExec,
                   motion, output, bounds, history>>

\* Power the spindle again and give it time: delay_sec.
RestoreSpindle ==
    /\ Suspended /\ HoldDone /\ Retracted
    /\ state = "DOOR" /\ "INITIATE_RESTORE" \in suspend
    /\ suspend' = suspend \ {"SAFETY_DOOR_AJAR"}
    /\ IF modalSpindle /\ "RESTART_RETRACT" \notin suspend
         THEN spindle' = "run" /\ ExecSystem("delay")
         ELSE /\ pc' = "restored"
              /\ UNCHANGED <<spindle, caller, task>>
    /\ UNCHANGED <<state, stepControl, abort, stopOvr, flags, line, rtExec,
                   motion, modalSpindle, bounds, history>>

RestoreDone ==
    /\ pc = "restored"
    /\ IF "RESTART_RETRACT" \notin suspend
         THEN /\ suspend' = suspend \cup {"RESTORE_COMPLETE"}
              /\ rtState' = rtState \cup {"CYCLE_START"}
         ELSE UNCHANGED <<suspend, rtState>>
    /\ ExecSystem("suspend")
    /\ UNCHANGED <<state, stepControl, abort, stopOvr, rtAlarm, stopRequest,
                   line, rtExec, motion, output, bounds, history>>

\* The feed hold manager: stop the spindle during the hold, and restore it on
\* a second request or before the cycle starts again.
StopSpindle ==
    /\ "INITIATE" \in stopOvr
    /\ spindle' = IF modalSpindle THEN "low" ELSE spindle
    /\ stopOvr' = IF modalSpindle THEN {"ENABLED"} ELSE {}
    /\ UNCHANGED rtState

RestartSpindle ==
    /\ "INITIATE" \notin stopOvr
    /\ stopOvr \cap {"RESTORE", "RESTORE_CYCLE"} # {}
    /\ spindle' = IF modalSpindle THEN "run" ELSE spindle
    /\ rtState' = IF "RESTORE_CYCLE" \in stopOvr
                    THEN rtState \cup {"CYCLE_START"} ELSE rtState
    /\ stopOvr' = {}

LeaveSpindle ==
    /\ stopOvr \cap {"INITIATE", "RESTORE", "RESTORE_CYCLE"} = {}
    /\ UNCHANGED <<spindle, stopOvr, rtState>>

HoldManager ==
    /\ Suspended /\ HoldDone /\ ~Parking
    /\ StopSpindle \/ RestartSpindle \/ LeaveSpindle
    /\ ExecSystem("suspend")
    /\ UNCHANGED <<state, suspend, stepControl, abort, rtAlarm, stopRequest,
                   line, rtExec, motion, modalSpindle, bounds, history>>

ExecRtSuspend ==
    \/ SuspendEnd \/ SuspendWait \/ Retract \/ FallAsleep \/ DoorWait
    \/ RestoreSpindle \/ RestoreDone \/ HoldManager

-----------------------------------------------------------------------------
(* The main loop and what a line makes it do.                              *)

\* The serial buffer is empty: start what is queued.
NoLine ==
    /\ pc = "main"
    /\ rtState' = rtState \cup AutoCycleStart
    /\ Execute("loop")
    /\ UNCHANGED <<sys, rtAlarm, stopRequest, line, rtExec, motion, output,
                   bounds, history>>

EndOfLine(l) ==
    /\ pc = "main"
    /\ lines > 0
    /\ lines' = lines - 1
    /\ line' = l
    /\ Execute("eol")
    /\ UNCHANGED <<sys, flags, rtExec, motion, output, commands, history>>

\* protocol_execute_realtime has returned to the main loop.
LoopReturned ==
    /\ pc = "returned"
    /\ task \in {"loop", "eol"}
    /\ pc' = IF abort THEN "reinit" ELSE IF task = "eol" THEN "dispatch" ELSE "main"
    /\ UNCHANGED <<sys, flags, caller, task, line, rtExec, motion, output,
                   bounds, history>>

AtMain == pc' = "main" /\ UNCHANGED <<caller, task>>

\* The line is answered with an error, or asks for nothing: an unlock outside
\* of ALARM, G-code in check mode, M3 when the spindle runs already.
GcodeLine == line \in {"motion", "dwell", "pause", "spindle"}

Refused ==
    \/ GcodeLine /\ state \in {"ALARM", "JOG"}
    \/ line = "jog" /\ state \notin {"IDLE", "JOG"}
    \/ line = "sleep" /\ state \notin {"IDLE", "ALARM"}
    \/ line = "check" /\ state \notin {"IDLE", "CHECK"}

Idles ==
    \/ line = "unlock" /\ state # "ALARM"
    \/ line \in {"motion", "dwell"} /\ state = "CHECK"
    \/ line = "spindle" /\ modalSpindle

LineIgnored ==
    /\ pc = "dispatch"
    /\ Refused \/ Idles
    /\ AtMain
    /\ UNCHANGED <<sys, flags, line, rtExec, motion, output, bounds, history>>

\* mc_line: first a pass of protocol_execute_realtime, see LineReturned.
QueueMotion ==
    /\ pc = "dispatch"
    /\ line \in {"motion", "jog"} /\ ~Refused /\ ~Idles
    /\ Execute("full")
    /\ UNCHANGED <<sys, flags, line, rtExec, motion, output, bounds, history>>

\* protocol_buffer_synchronize, called for G4, M0 and a change of the spindle.
Synchronize ==
    /\ pc = "dispatch"
    /\ line \in {"dwell", "pause", "spindle"} /\ ~Refused /\ ~Idles
    /\ ~(line = "spindle" /\ state = "CHECK")
    /\ rtState' = rtState \cup AutoCycleStart
    /\ Execute("sync")
    /\ UNCHANGED <<sys, rtAlarm, stopRequest, line, rtExec, motion, output,
                   bounds, history>>

\* spindle_sync bails out in check mode; the parser notes the new state.
SpindleInCheckMode ==
    /\ pc = "dispatch"
    /\ line = "spindle" /\ state = "CHECK" /\ ~modalSpindle
    /\ modalSpindle' = TRUE
    /\ AtMain
    /\ UNCHANGED <<sys, flags, line, rtExec, motion, spindle, bounds, history>>

Unlock ==
    /\ pc = "dispatch"
    /\ line = "unlock" /\ state = "ALARM"
    /\ state' = "IDLE"
    /\ lost' = FALSE
    /\ AtMain
    /\ UNCHANGED <<suspend, stepControl, abort, stopOvr, flags, line, rtExec,
                   motion, output, bounds, asked>>

SleepLine ==
    /\ pc = "dispatch"
    /\ line = "sleep" /\ ~Refused
    /\ rtState' = rtState \cup {"SLEEP"}
    /\ AtMain
    /\ UNCHANGED <<sys, rtAlarm, stopRequest, line, rtExec, motion, output,
                   bounds, history>>

CheckLine ==
    /\ pc = "dispatch"
    /\ line = "check" /\ ~Refused
    /\ IF state = "CHECK"
         THEN McReset /\ UNCHANGED state
         ELSE state' = "CHECK" /\ UNCHANGED <<rtState, rtAlarm, spindle, stepping, lost>>
    /\ AtMain
    /\ UNCHANGED <<suspend, stepControl, abort, stopOvr, stopRequest, line,
                   rtExec, planned, segs, more, modalSpindle, bounds, asked>>

(* mc_line and jog_execute, once protocol_execute_realtime has returned.   *)

AfterMotion == IF line = "jog" THEN "jogStart" ELSE "main"

MotionAborted ==
    /\ pc = "returned" /\ task = "full"
    /\ abort
    /\ pc' = AfterMotion
    /\ UNCHANGED <<sys, flags, caller, task, line, rtExec, motion, output,
                   bounds, history>>

MotionWaits ==
    /\ pc = "returned" /\ task = "full"
    /\ ~abort /\ PlanFull
    /\ rtState' = rtState \cup AutoCycleStart
    /\ Execute("full")
    /\ UNCHANGED <<sys, rtAlarm, stopRequest, line, rtExec, motion, output,
                   bounds, history>>

MotionPlanned ==
    /\ pc = "returned" /\ task = "full"
    /\ ~abort /\ ~PlanFull
    /\ planned' = planned + BlockSegments
    /\ pc' = AfterMotion
    /\ UNCHANGED <<sys, flags, caller, task, line, rtExec, segs, more,
                   stepping, output, bounds, history>>

JogStart ==
    /\ pc = "jogStart"
    /\ IF state = "IDLE" /\ MotionQueued
         THEN state' = "JOG" /\ Prep(stepControl) /\ pc' = "jogWake"
         ELSE pc' = "main" /\ UNCHANGED <<state, planned, segs, more, stepControl>>
    /\ UNCHANGED <<suspend, abort, stopOvr, flags, caller, task, line, rtExec,
                   stepping, output, bounds, history>>

(* protocol_buffer_synchronize, then what the line was about.              *)

SyncEnds == ~MotionQueued /\ state # "CYCLE"

SyncWaits ==
    /\ pc = "returned" /\ task = "sync"
    /\ ~abort /\ ~SyncEnds
    /\ Execute("sync")
    /\ UNCHANGED <<sys, flags, line, rtExec, motion, output, bounds, history>>

Synchronized == pc = "returned" /\ task = "sync" /\ (abort \/ SyncEnds)

\* mc_dwell: delay_sec makes any number of passes and returns on an abort.
Dwell ==
    /\ Synchronized /\ line = "dwell"
    /\ IF abort THEN AtMain ELSE Execute("dwell")
    /\ UNCHANGED <<sys, flags, line, rtExec, motion, output, bounds, history>>

\* M0: hold the program.
Pause ==
    /\ Synchronized /\ line = "pause"
    /\ IF state = "CHECK"
         THEN AtMain /\ UNCHANGED rtState
         ELSE rtState' = rtState \cup {"FEED_HOLD"} /\ Execute("pause")
    /\ UNCHANGED <<sys, rtAlarm, stopRequest, line, rtExec, motion, output,
                   bounds, history>>

\* M3: spindle_set_state does nothing during an abort.
SetSpindle ==
    /\ Synchronized /\ line = "spindle"
    /\ spindle' = IF abort THEN spindle ELSE "run"
    /\ modalSpindle' = TRUE
    /\ AtMain
    /\ UNCHANGED <<sys, flags, line, rtExec, motion, bounds, history>>

LineReturned ==
    /\ pc = "returned"
    /\ task \in {"dwell", "pause"}
    /\ AtMain \/ (task = "dwell" /\ ~abort /\ Execute("dwell"))
    /\ UNCHANGED <<sys, flags, line, rtExec, motion, output, bounds, history>>

MainLoop ==
    \/ NoLine \/ LoopReturned \/ LineIgnored
    \/ QueueMotion \/ Synchronize \/ SpindleInCheckMode \/ Unlock \/ SleepLine
    \/ CheckLine \/ MotionAborted \/ MotionWaits \/ MotionPlanned \/ JogStart
    \/ SyncWaits \/ Dwell \/ Pause \/ SetSpindle \/ LineReturned

-----------------------------------------------------------------------------
(* main(): reinitialisation.  The state is kept, everything else cleared.  *)

ClearSystem ==
    /\ pc = "reinit"
    /\ suspend' = {} /\ stepControl' = {} /\ abort' = FALSE /\ stopOvr' = {}
    /\ rtState' = {} /\ rtAlarm' = NoAlarm /\ stopRequest' = FALSE
    /\ asked' = FALSE
    /\ pc' = "reinitSystems"
    /\ UNCHANGED <<state, caller, task, line, rtExec, motion, output, bounds, lost>>

ResetSystems ==
    /\ pc = "reinitSystems"
    /\ spindle' = "stopped" /\ modalSpindle' = FALSE
    /\ planned' = 0 /\ segs' = 0 /\ more' = FALSE /\ stepping' = FALSE
    /\ lost' = (lost \/ (stepping /\ segs > 0))
    /\ pc' = "start-up"
    /\ UNCHANGED <<sys, flags, caller, task, line, rtExec, bounds, asked>>

\* protocol_main_loop: a sleeping machine wakes up locked, and so does one
\* that stands on a limit switch.
StartUpForgetsAlarm ==                                    \* faulty variant
    /\ pc = "start-up"
    /\ state' = IF state = "SLEEP" THEN "ALARM" ELSE "IDLE"
    /\ pc' = "main"
    /\ UNCHANGED <<suspend, stepControl, abort, stopOvr, flags, caller, task,
                   line, rtExec, motion, output, bounds, history>>
StartUp ==
    /\ pc = "start-up"
    /\ state' \in IF state \in {"ALARM", "SLEEP"} THEN {"ALARM"}
                  ELSE IF "LIMIT" \in Commands THEN {"IDLE", "ALARM"} ELSE {"IDLE"}
    /\ pc' = "main"
    /\ UNCHANGED <<suspend, stepControl, abort, stopOvr, flags, caller, task,
                   line, rtExec, motion, output, bounds, history>>

Reinitialize == ClearSystem \/ ResetSystems \/ StartUp

-----------------------------------------------------------------------------
(* Interrupts.                                                             *)

\* The stretches in which a reset or a limit switch is not handled as the
\* code intends: between the reading of the alarm and of the flags, between
\* the last look at the flags and the start of motion, while a jog is queued
\* and started (but for the critical alarm, which waits for a reset), and
\* within the reinitialisation.
AboutToMove ==
    \/ pc \in {"hold", "holdClear", "start"} /\ "CYCLE_START" \in rtExec
    \/ pc \in {"startCycle", "wake"}
    \/ /\ line = "jog" /\ task \in {"eol", "full"}
       /\ pc \notin {"main", "critical"}
InRaceWindow ==
    AboutToMove \/ pc \in {"snapshot", "reinit", "reinitSystems"}

MayKill == RaceWindows \/ ~InRaceWindow

Signal(c) == c \in Commands /\ commands > 0 /\ commands' = commands - 1

RxReset ==
    /\ Signal("RESET")
    /\ MayKill
    /\ McReset
    /\ UNCHANGED <<sys, stopRequest, control, planned, segs, more,
                   modalSpindle, lines, asked>>

\* '!', '~', the door byte; a jog cancel counts only while jogging.
RxFlag(c) ==
    /\ Signal(c)
    /\ rtState' = CASE c = "JOG_CANCEL" /\ state = "JOG" -> rtState \cup {"MOTION_CANCEL"}
                    [] c = "JOG_CANCEL" /\ state # "JOG" -> rtState
                    [] OTHER -> rtState \cup {c}
    /\ asked' = (asked \/ c = "CYCLE_START")
    /\ UNCHANGED <<sys, rtAlarm, stopRequest, control, motion, output, lines, lost>>

RxSpindleStop ==
    /\ Signal("SPINDLE_STOP")
    /\ stopRequest' = TRUE
    /\ UNCHANGED <<sys, rtState, rtAlarm, control, motion, output, lines, history>>

\* A limit switch moves.
LimitSwitch ==
    /\ Signal("LIMIT")
    /\ MayKill
    /\ IF state # "ALARM" /\ rtAlarm = NoAlarm
         THEN /\ rtState' = rtState \cup {"RESET"}
              /\ rtAlarm' = "HARD_LIMIT"
              /\ spindle' = IF "RESET" \in rtState THEN spindle ELSE "stopped"
              /\ stepping' = (stepping /\ (~MotionToKill \/ "RESET" \in rtState))
              /\ lost' = (lost \/ (stepping /\ ~stepping' /\ segs > 0))
         ELSE UNCHANGED <<rtState, rtAlarm, spindle, stepping, lost>>
    /\ UNCHANGED <<sys, stopRequest, control, planned, segs, more,
                   modalSpindle, lines, asked>>

\* The main program does not let the ring run dry while there is motion to
\* cut, unless it is held up by an alarm or by the reinitialisation.
HeldUp == pc \in {"critical", "reinit", "reinitSystems", "start-up"}
MayPop == Underrun \/ HeldUp \/ ~more \/ segs > 1

\* The stepper interrupt completes a segment.  The segment sets the spindle:
\* to the modal state, or to nothing if it was queued before M3.
StepSegment ==
    /\ stepping
    /\ segs > 0
    /\ MayPop
    /\ segs' = segs - 1
    /\ spindle' \in {"stopped"} \cup (IF modalSpindle THEN {"run"} ELSE {})
    /\ UNCHANGED <<sys, flags, control, planned, more, stepping, modalSpindle,
                   bounds, history>>

\* The stepper interrupt finds no segment: st_go_idle, EXEC_CYCLE_STOP.
StepsDoneStillOn ==                                       \* faulty variant
    /\ stepping
    /\ segs = 0
    /\ rtState' = rtState \cup {"CYCLE_STOP"}
    /\ UNCHANGED <<sys, rtAlarm, stopRequest, control, motion, output, bounds,
                   history>>
StepsDone ==
    /\ stepping
    /\ segs = 0
    /\ stepping' = FALSE
    /\ rtState' = rtState \cup {"CYCLE_STOP"}
    /\ UNCHANGED <<sys, rtAlarm, stopRequest, control, planned, segs, more,
                   output, bounds, history>>

Stepper == StepSegment \/ StepsDone

-----------------------------------------------------------------------------
Main == ExecRtSystem \/ ExecRtSuspend \/ MainLoop \/ Reinitialize

Signals ==
    \/ RxReset \/ RxSpindleStop \/ LimitSwitch
    \/ \E c \in {"FEED_HOLD", "CYCLE_START", "SAFETY_DOOR", "JOG_CANCEL"} : RxFlag(c)

Next == Main \/ Stepper \/ Signals \/ \E l \in Lines : EndOfLine(l)

Spec == Init /\ [][Next]_vars

\* The main program runs and the stepper timer ticks; nobody is obliged to
\* signal anything or to send a line.
FairSpec == Spec /\ WF_vars(Main) /\ WF_vars(Stepper)

-----------------------------------------------------------------------------
SysOK ==
    /\ state \in States /\ suspend \subseteq SuspendFlags
    /\ stepControl \subseteq StepControlFlags /\ abort \in BOOLEAN
    /\ stopOvr \subseteq StopOvrFlags
FlagsOK ==
    /\ rtState \subseteq ExecFlags /\ rtAlarm \in Alarms \cup {NoAlarm}
    /\ stopRequest \in BOOLEAN
ControlOK ==
    /\ pc \in {"main", "dispatch", "returned", "jogStart", "jogWake",
              "alarm", "enterAlarm", "critical", "clearAlarm", "snapshot",
              "hold", "holdClear", "start", "startCycle", "wake", "startClear",
              "stop", "stopClear", "finish", "suspend", "restored",
              "reinit", "reinitSystems", "start-up"}
    /\ caller \in {"task", "suspend", "delay", "sleep"}
    /\ task \in {"loop", "eol", "full", "sync", "dwell", "pause"}
    /\ line \in AllLines
    /\ rtExec \subseteq ExecFlags \cup Alarms
MotionOK ==
    /\ planned \in 0..Capacity
    /\ segs \in 0..SegmentBuffer
    /\ more \in BOOLEAN /\ stepping \in BOOLEAN
OutputOK == spindle \in {"stopped", "low", "run"} /\ modalSpindle \in BOOLEAN
CountersOK ==
    /\ commands \in 0..MaxCommands /\ lines \in 0..MaxLines
    /\ asked \in BOOLEAN /\ lost \in BOOLEAN

\* Every variable keeps its type; neither the planner nor the segment ring
\* ever holds more than it has room for.
TypeOK == SysOK /\ FlagsOK /\ ControlOK /\ MotionOK /\ OutputOK /\ CountersOK

\* A machine that says it is idle, or that its hold is complete, has its
\* stepper interrupt off: the tool stands still.
AtRest == state = "IDLE" \/ HoldDone => ~stepping

\* protocol.c:333 "Ensures auto-cycle-start doesn't resume a hold without an
\* explicit user-input": once a feed hold or the door has stopped the machine,
\* it moves or becomes idle again only if the operator has sent '~' since, or
\* through a reset; the automatic cycle starts of the program never do it.
NoAutoResume ==
    [][ (state \in {"HOLD", "DOOR"} /\ state' \in {"IDLE", "CYCLE", "JOG"})
          => asked \/ pc = "start-up" ]_vars

\* The same of the door alone, while the machine is restored and the door may
\* open again.
DoorLeftWhenAsked ==
    [][ (state = "DOOR" /\ state' \in {"IDLE", "CYCLE", "JOG"})
          => asked \/ pc = "start-up" ]_vars

\* ALARM and SLEEP lock the machine through any number of resets: ALARM is
\* left only by the unlock line (or for SLEEP), SLEEP only for ALARM.
LocksHold ==
    [][ /\ state = "ALARM" => state' \in {"ALARM", "SLEEP"} \/ pc = "dispatch"
        /\ state = "SLEEP" => state' \in {"SLEEP", "ALARM"} ]_vars

\* motion_control.c:362 "If so, kills the steppers and sets the system alarm
\* to flag position lost": if the steppers were cut with steps left, the
\* machine is locked by the time the reset has been served, until unlocked.
Settled == /\ "RESET" \notin rtState /\ rtAlarm = NoAlarm /\ ~abort
           /\ pc \notin {"enterAlarm", "reinit", "reinitSystems", "start-up"}
PositionLossFlagged == lost /\ Settled => state \in {"ALARM", "SLEEP"}

\* protocol.c:220 "System alarm. Everything has shutdown by something that
\* has gone severely wrong": in the critical alarm nothing moves.
CriticalStandsStill == pc = "critical" => ~stepping

\* Neither is forgotten: a cut position, or the stop that cut it.
PositionSafe == PositionLossFlagged /\ CriticalStandsStill

\* A machine that is retracted behind the door, or asleep, has its spindle
\* off until the operator starts the restoring.
RetractedSpindleOff ==
    Retracted /\ "INITIATE_RESTORE" \notin suspend /\ state \in {"DOOR", "SLEEP"}
      => spindle # "run"

\* A jog that was asked to stop is gone when the machine answers to it: no
\* block and no segment of it is left to run when the next motion starts.
JogCancelFlushes ==
    [][ "JOG_CANCEL" \in suspend /\ "JOG_CANCEL" \notin suspend' /\ ~abort
          => planned' = 0 /\ segs' = 0 ]_vars

\* protocol.c:167 "Block until all buffered steps are executed or in a cycle
\* state. Works with feed hold during a synchronize call": when G4, M0 or M3
\* goes on, no step of an earlier line is left.
SyncMeansDone == Synchronized /\ ~abort => segs = 0

\* protocol.c:291 "Safety door differs from feed holds by stopping everything
\* no matter state": a door request is cleared only by a pass that saw it.
DoorNeverIgnored ==
    [][ "SAFETY_DOOR" \in rtState /\ "SAFETY_DOOR" \notin rtState'
          => "SAFETY_DOOR" \in rtExec \/ pc = "reinit" ]_vars

\* A reset is served, wherever the main program waits.
ResetServed == "RESET" \in rtState ~> pc \in {"reinit", "critical"}

\* A feed hold comes to rest: the steppers stop and the hold is complete.
HoldCompletes == state = "HOLD" ~> HoldDone \/ state # "HOLD"

\* A line waits in protocol_buffer_synchronize for queued motion, and its one request to
\* start it is gone.
Starved == /\ pc = "returned" /\ task = "sync" /\ ~abort
           /\ state = "IDLE" /\ MotionQueued /\ "CYCLE_START" \notin rtState

\* Queued motion is executed unless the operator or an alarm stops it.  A request to start
\* is lost for good in one place only: protocol_buffer_synchronize raises it once, and the
\* pass that serves it may find the cycle of the motion before not yet stopped.
QueuedMotionLeaves ==
    MotionQueued ~> ~MotionQueued \/ state \in {"HOLD", "DOOR", "ALARM"} \/ Starved

\* protocol.c:171 "If system is queued, ensure cycle resumes if the auto start
\* flag is present" in protocol_buffer_synchronize: a line that waits for the
\* motion before it is completed, unless a hold, the door or an alarm comes first.
LineCompletes == task = "sync" ~> task # "sync" \/ state \in {"HOLD", "DOOR", "ALARM"}

-----------------------------------------------------------------------------
(* Why NoAutoResume holds of a machine that is never sent a door request.  *)

\* Where the main program is.
Early == {"alarm", "enterAlarm", "critical", "clearAlarm", "snapshot"}
Late == {"hold", "holdClear", "start", "startCycle", "wake", "startClear",
         "stop", "stopClear", "finish"}
Outside == {"main", "dispatch", "returned", "jogStart", "jogWake",
            "reinitSystems", "start-up"}

CompleteHold == state = "HOLD" /\ HoldDone
Start == "CYCLE_START"

\* The door is never open, and nothing is restored after it.
NoDoor ==
    /\ "SAFETY_DOOR" \notin rtState /\ "SAFETY_DOOR" \notin rtExec
    /\ state # "DOOR"
    /\ "SAFETY_DOOR_AJAR" \notin suspend /\ "INITIATE_RESTORE" \notin suspend
    /\ pc # "restored" /\ caller # "delay"

\* A hold of a program is never mistaken for the cancelling of a jog.
HoldIsNoJogCancel == state \in {"CYCLE", "HOLD"} => "JOG_CANCEL" \notin suspend

\* An abort is seen by the next pass, and the rest of a pass runs without one.
AbortSeen ==
    /\ abort => "RESET" \in rtState \/ pc = "critical"
    /\ pc \in Late => ~abort

\* The program goes on only when the suspension is over or aborted.
MainUnsuspended ==
    pc \in Outside \/ (pc \in Early /\ caller = "task") => suspend = {} \/ abort

\* A request to start that a pass has not copied is the operator's.
StartCopied ==
    pc \in Late /\ Start \in rtState /\ ~asked
      => Start \in rtExec /\ pc \notin {"stop", "stopClear", "finish"}

\* So is one that waits in the suspend loop for the next pass.
StartInHold ==
    state = "HOLD" /\ Start \in rtState /\ ~asked /\ "RESET" \notin rtState
      => pc # "suspend" /\ (pc \in Early => caller = "task")

\* A pass that holds starts nothing, unless it sends the machine to sleep.
HoldBlocksStart ==
    /\ pc = "hold" => rtExec \cap HoldFlags # {}
    /\ pc = "holdClear" /\ ~StartBlocked => state = "SLEEP"

\* What is about to resume a hold was asked for.
ResumeAsked ==
    /\ pc = "start" /\ ~StartBlocked /\ CompleteHold => asked
    /\ pc = "startCycle" /\ state = "HOLD" => asked

\* So is the restoring of the spindle that ends in a resume, and it ends
\* before the flags are looked at again, unless an abort overtakes it.  (The
\* sleep loop ends in an abort, too.)
SpindleFirstAsked ==
    "RESTORE_CYCLE" \in stopOvr
      => \/ abort \/ (caller = "sleep" /\ pc \in Early \cup Late)
         \/ /\ asked /\ CompleteHold
            /\ pc \in {"startClear", "stop", "stopClear", "finish", "suspend"}

ResumeInv ==
    /\ NoDoor /\ HoldIsNoJogCancel /\ AbortSeen /\ MainUnsuspended
    /\ StartCopied /\ StartInHold /\ HoldBlocksStart /\ ResumeAsked
    /\ SpindleFirstAsked
=============================================================================
