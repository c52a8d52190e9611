--------------------------- MODULE RealtimeProofs ---------------------------
(***************************************************************************)
(* For every size of the planner and of the segment ring and any number of *)
(* signals and lines: the realtime state machine keeps its variables in    *)
(* range, and no buffer holds more than it has room for.  And a machine    *)
(* that is never sent a door request resumes a hold only when the operator *)
(* asks for it, whatever moment signals and lines come at.                 *)
(*                                                                         *)
(* The second half is about the stops and the locks: the other safety      *)
(* properties, provided that no reset and no limit switch hits the         *)
(* stretches of InRaceWindow, where PositionSafe and LocksHold fail.  That *)
(* an idle machine stands still needs the proviso for jogging only.        *)
(***************************************************************************)
EXTENDS Realtime, TLAPS

USE DEF sys, flags, control, motion, output, bounds, history
USE DEF States, SuspendFlags, StepControlFlags, HoldFlags, ExecFlags, Alarms,
        NoAlarm, StopOvrFlags, AllLines, AllCommands
USE BufferAssumption, CommandAssumption, LineAssumption, BoundAssumption

-----------------------------------------------------------------------------
(* The buffers.                                                            *)

\* The planner holds a number of segments.
LEMMA CapacityNat == Capacity \in Nat
BY DEF Capacity

\* Empty buffers are in range.
LEMMA ZeroFits == 0 \in 0..Capacity /\ 0 \in 0..SegmentBuffer
BY CapacityNat

\* If it is not full there is room for the segments of one block more.
LEMMA RoomForBlock ==
    ASSUME planned \in 0..Capacity, ~PlanFull
    PROVE  planned + BlockSegments \in 0..Capacity
BY CapacityNat DEF Capacity, PlanFull

\* st_prep_buffer moves segments from the planner to the ring within the room
\* the ring has, and may only add END_MOTION to the step control.
LEMMA PrepType ==
    ASSUME MotionOK, NEW c \in SUBSET StepControlFlags, Prep(c),
           UNCHANGED stepping
    PROVE  MotionOK' /\ stepControl' \subseteq StepControlFlags
<1>1. planned' \in 0..Capacity /\ segs' \in 0..SegmentBuffer
  <2>1. CASE "END_MOTION" \in c \/ ~MotionQueued \/ segs = SegmentBuffer
    BY <2>1 DEF Prep, MotionOK
  <2>2. CASE ~("END_MOTION" \in c \/ ~MotionQueued \/ segs = SegmentBuffer)
    <3>1. PICK n \in 0..Room : planned' = planned - n /\ segs' = segs + n
      BY <2>2 DEF Prep
    <3>2. Room <= planned /\ Room <= SegmentBuffer - segs
      BY DEF Room, Least, MotionOK
    <3>3. QED
      BY <3>1, <3>2, CapacityNat DEF MotionOK, Room, Least
  <2>3. QED
    BY <2>1, <2>2
<1>2. more' \in BOOLEAN /\ stepping' \in BOOLEAN
  BY DEF Prep, MotionOK
<1>3. stepControl' \subseteq StepControlFlags
  BY DEF Prep
<1>4. QED
  BY <1>1, <1>2, <1>3 DEF MotionOK

\* The flags that mc_reset sets are flags, and what it stops stays in range.
LEMMA McResetType ==
    ASSUME TypeOK, McReset
    PROVE  /\ rtState' \subseteq ExecFlags
           /\ rtAlarm' \in Alarms \cup {NoAlarm}
           /\ spindle' \in {"stopped", "low", "run"}
           /\ stepping' \in BOOLEAN /\ lost' \in BOOLEAN
<1>1. rtState' \subseteq ExecFlags /\ rtAlarm' \in Alarms \cup {NoAlarm}
  BY DEF McReset, TypeOK, FlagsOK
<1>2. spindle' \in {"stopped", "low", "run"}
  BY DEF McReset, TypeOK, OutputOK
<1>3. stepping' \in BOOLEAN
  BY DEF McReset, TypeOK, MotionOK
<1>4. lost' \in BOOLEAN
  BY DEF McReset, TypeOK, CountersOK
<1>5. QED
  BY <1>1, <1>2, <1>3, <1>4

-----------------------------------------------------------------------------
(* The steps.                                                              *)

\* A pass of protocol_exec_rt_system keeps the types, ...
LEMMA ExecRtSystemType == ASSUME TypeOK, ExecRtSystem PROVE TypeOK'
<1>1. CASE ReadAlarm
  BY <1>1
     DEF TypeOK, SysOK, FlagsOK, ControlOK, MotionOK, OutputOK, CountersOK,
         ReadAlarm
<1>2. CASE EnterAlarm
  BY <1>2
     DEF TypeOK, SysOK, FlagsOK, ControlOK, MotionOK, OutputOK, CountersOK,
         EnterAlarm
<1>3. CASE LeaveCritical
  BY <1>3
     DEF TypeOK, SysOK, FlagsOK, ControlOK, MotionOK, OutputOK, CountersOK,
         LeaveCritical
<1>4. CASE ClearAlarm
  BY <1>4
     DEF TypeOK, SysOK, FlagsOK, ControlOK, MotionOK, OutputOK, CountersOK,
         ClearAlarm
<1>5. CASE Snapshot
  BY <1>5
     DEF TypeOK, SysOK, FlagsOK, ControlOK, MotionOK, OutputOK, CountersOK,
         Snapshot, ReturnTo, FirstService, AfterHold, AfterStart
<1>6. CASE Hold
  <2>1. SysOK'
    <3>1. SuspendOnHold(rtExec) \subseteq SuspendFlags
      BY DEF TypeOK, SysOK, SuspendOnHold, SuspendFlags
    <3>2. SuspendOnDoor(SuspendOnHold(rtExec)) \subseteq SuspendFlags
      BY <3>1 DEF SuspendOnDoor, Reopen, SuspendFlags
    <3>3. suspend' \subseteq SuspendFlags
      BY <1>6, <3>1, <3>2 DEF TypeOK, SysOK, Hold, SuspendFlags
    <3>4. StateOnFeedHold(rtExec) \in States
      BY DEF TypeOK, SysOK, StateOnFeedHold, States
    <3>5. state' \in States
      BY <1>6, <3>4 DEF TypeOK, SysOK, Hold, StateOnDoor, States
    <3>6. stepControl' \subseteq StepControlFlags
      BY <1>6 DEF TypeOK, SysOK, Hold, StepControlFlags
    <3>7. UNCHANGED <<abort, stopOvr>>
      BY <1>6 DEF Hold
    <3> QED
      BY <3>3, <3>5, <3>6, <3>7 DEF TypeOK, SysOK
  <2>2. ControlOK'
    BY <1>6
       DEF TypeOK, ControlOK, Hold, SuspendOnHold, SuspendOnDoor, StateOnDoor,
           StateOnFeedHold, StartsHold, Reopen
  <2>3. FlagsOK' /\ MotionOK' /\ OutputOK' /\ CountersOK'
    BY <1>6 DEF TypeOK, FlagsOK, MotionOK, OutputOK, CountersOK, Hold
  <2>4. QED
    BY <2>1, <2>2, <2>3 DEF TypeOK
<1>7. CASE HoldClear
  BY <1>7
     DEF TypeOK, SysOK, FlagsOK, ControlOK, MotionOK, OutputOK, CountersOK,
         HoldClear, AfterHold, AfterStart
<1>8. CASE StartIgnored
  BY <1>8
     DEF TypeOK, SysOK, FlagsOK, ControlOK, MotionOK, OutputOK, CountersOK,
         StartIgnored, StartClearNext
<1>9. CASE StartRestore
  BY <1>9
     DEF TypeOK, SysOK, FlagsOK, ControlOK, MotionOK, OutputOK, CountersOK,
         StartRestore, StartClearNext
<1>10. CASE StartSpindleFirst
  BY <1>10
     DEF TypeOK, SysOK, FlagsOK, ControlOK, MotionOK, OutputOK, CountersOK,
         StartSpindleFirst, StartClearNext
<1>11. CASE StartCycle
  <2>1. SysOK'
    BY <1>11 DEF TypeOK, SysOK, StartCycle
  <2>2. ControlOK'
    BY <1>11 DEF TypeOK, ControlOK, StartCycle
  <2>3. FlagsOK' /\ MotionOK' /\ OutputOK' /\ CountersOK'
    BY <1>11 DEF TypeOK, FlagsOK, MotionOK, OutputOK, CountersOK, StartCycle
  <2>4. QED
    BY <2>1, <2>2, <2>3 DEF TypeOK
<1>12. CASE EnterCycle
  <2>1. SysOK' /\ FlagsOK' /\ ControlOK'
    BY <1>12, PrepType
       DEF TypeOK, SysOK, FlagsOK, ControlOK, MotionOK, EnterCycle
  <2>2. MotionOK' /\ OutputOK' /\ CountersOK'
    BY <1>12, PrepType
       DEF TypeOK, SysOK, MotionOK, OutputOK, CountersOK, EnterCycle
  <2>3. QED
    BY <2>1, <2>2 DEF TypeOK
<1>13. CASE WakeUp
  BY <1>13
     DEF TypeOK, SysOK, FlagsOK, ControlOK, MotionOK, OutputOK, CountersOK,
         WakeUp
<1>14. CASE StartClear
  BY <1>14
     DEF TypeOK, SysOK, FlagsOK, ControlOK, MotionOK, OutputOK, CountersOK,
         StartClear, AfterStart
<1>15. CASE Stop
  <2>1. SysOK'
    BY <1>15, ZeroFits DEF TypeOK, SysOK, Stop, StopInHold, StopMotion
  <2>2. ControlOK'
    BY <1>15, ZeroFits DEF TypeOK, ControlOK, Stop, StopInHold, StopMotion
  <2>3. MotionOK'
    <3>0. MotionOK
      BY DEF TypeOK
    <3>1. CASE planned' = 0 /\ segs' = 0 /\ more' = FALSE /\ stepping' = FALSE
      BY <3>1, ZeroFits DEF MotionOK
    <3>2. CASE UNCHANGED motion
      BY <3>0, <3>2 DEF MotionOK
    <3>3. QED
      BY <1>15, <3>1, <3>2 DEF Stop, StopInHold, StopMotion
  <2>4. FlagsOK' /\ OutputOK' /\ CountersOK'
    BY <1>15 DEF TypeOK, FlagsOK, OutputOK, CountersOK, Stop
  <2>5. QED
    BY <2>1, <2>2, <2>3, <2>4 DEF TypeOK
<1>16. CASE StopClear
  BY <1>16
     DEF TypeOK, SysOK, FlagsOK, ControlOK, MotionOK, OutputOK, CountersOK,
         StopClear
<1>17. CASE Finish
  <2>1. SysOK'
    BY <1>17, PrepType
       DEF TypeOK, SysOK, MotionOK, Finish, SpindleOverride, ReturnTo
  <2>2. FlagsOK'
    BY <1>17, PrepType DEF TypeOK, FlagsOK, Finish, SpindleOverride, ReturnTo
  <2>3. ControlOK'
    BY <1>17, PrepType DEF TypeOK, ControlOK, Finish, SpindleOverride, ReturnTo
  <2>4. MotionOK'
    BY <1>17, PrepType
       DEF TypeOK, MotionOK, SysOK, Finish, SpindleOverride, ReturnTo
  <2>5. OutputOK' /\ CountersOK'
    BY <1>17 DEF TypeOK, OutputOK, CountersOK, Finish
  <2>6. QED
    BY <2>1, <2>2, <2>3, <2>4, <2>5 DEF TypeOK
<1>18. QED
  BY <1>1, <1>2, <1>3, <1>4, <1>5, <1>6, <1>7, <1>8, <1>9, <1>10, <1>11,
         <1>12, <1>13, <1>14, <1>15, <1>16, <1>17 DEF ExecRtSystem

\* ... so does a round of the suspend loop, ...
LEMMA ExecRtSuspendType == ASSUME TypeOK, ExecRtSuspend PROVE TypeOK'
<1>1. CASE SuspendEnd
  BY <1>1
     DEF TypeOK, SysOK, FlagsOK, ControlOK, MotionOK, OutputOK, CountersOK,
         SuspendEnd
<1>2. CASE SuspendWait
  BY <1>2
     DEF TypeOK, SysOK, FlagsOK, ControlOK, MotionOK, OutputOK, CountersOK,
         SuspendWait, ExecSystem
<1>3. CASE Retract
  BY <1>3
     DEF TypeOK, SysOK, FlagsOK, ControlOK, MotionOK, OutputOK, CountersOK,
         Retract, ExecSystem
<1>4. CASE FallAsleep
  <2>1. SysOK' /\ FlagsOK' /\ ControlOK'
    BY <1>4
       DEF TypeOK, SysOK, FlagsOK, ControlOK, MotionOK, FallAsleep, ExecSystem
  <2>2. MotionOK' /\ OutputOK' /\ CountersOK'
    BY <1>4
       DEF TypeOK, SysOK, MotionOK, OutputOK, CountersOK, FallAsleep,
           ExecSystem
  <2>3. QED
    BY <2>1, <2>2 DEF TypeOK
<1>5. CASE DoorWait
  BY <1>5
     DEF TypeOK, SysOK, FlagsOK, ControlOK, MotionOK, OutputOK, CountersOK,
         DoorWait, ExecSystem
<1>6. CASE RestoreSpindle
  BY <1>6
     DEF TypeOK, SysOK, FlagsOK, ControlOK, MotionOK, OutputOK, CountersOK,
         RestoreSpindle, ExecSystem
<1>7. CASE RestoreDone
  <2>1. SysOK'
    BY <1>7 DEF TypeOK, SysOK, RestoreDone, ExecSystem
  <2>2. FlagsOK'
    BY <1>7 DEF TypeOK, FlagsOK, RestoreDone, ExecSystem
  <2>3. ControlOK'
    BY <1>7 DEF TypeOK, ControlOK, RestoreDone, ExecSystem
  <2>4. MotionOK' /\ OutputOK' /\ CountersOK'
    BY <1>7 DEF TypeOK, MotionOK, OutputOK, CountersOK, RestoreDone
  <2>5. QED
    BY <2>1, <2>2, <2>3, <2>4 DEF TypeOK
<1>8. CASE HoldManager
  <2>1. SysOK'
    BY <1>8
       DEF TypeOK, SysOK, HoldManager, ExecSystem, StopSpindle,
           RestartSpindle, LeaveSpindle
  <2>2. FlagsOK'
    BY <1>8
       DEF TypeOK, FlagsOK, HoldManager, ExecSystem, StopSpindle,
           RestartSpindle, LeaveSpindle
  <2>3. ControlOK'
    BY <1>8
       DEF TypeOK, ControlOK, HoldManager, ExecSystem, StopSpindle,
           RestartSpindle, LeaveSpindle
  <2>4. OutputOK'
    BY <1>8
       DEF TypeOK, OutputOK, HoldManager, ExecSystem, StopSpindle,
           RestartSpindle, LeaveSpindle
  <2>5. MotionOK' /\ CountersOK'
    BY <1>8 DEF TypeOK, MotionOK, CountersOK, HoldManager
  <2>6. QED
    BY <2>1, <2>2, <2>3, <2>4, <2>5 DEF TypeOK
<1>9. QED
  BY <1>1, <1>2, <1>3, <1>4, <1>5, <1>6, <1>7, <1>8 DEF ExecRtSuspend

\* ... what the main loop does, ...
LEMMA MainLoopType == ASSUME TypeOK, MainLoop PROVE TypeOK'
<1>1. CASE NoLine
  BY <1>1
     DEF TypeOK, SysOK, FlagsOK, ControlOK, MotionOK, OutputOK, CountersOK,
         NoLine, AutoCycleStart, Execute
<1>2. CASE LoopReturned
  BY <1>2
     DEF TypeOK, SysOK, FlagsOK, ControlOK, MotionOK, OutputOK, CountersOK,
         LoopReturned
<1>3. CASE LineIgnored
  BY <1>3
     DEF TypeOK, SysOK, FlagsOK, ControlOK, MotionOK, OutputOK, CountersOK,
         LineIgnored, AtMain
<1>4. CASE QueueMotion
  BY <1>4
     DEF TypeOK, SysOK, FlagsOK, ControlOK, MotionOK, OutputOK, CountersOK,
         QueueMotion, Execute
<1>5. CASE Synchronize
  BY <1>5
     DEF TypeOK, SysOK, FlagsOK, ControlOK, MotionOK, OutputOK, CountersOK,
         Synchronize, AutoCycleStart, Execute
<1>6. CASE SpindleInCheckMode
  BY <1>6
     DEF TypeOK, SysOK, FlagsOK, ControlOK, MotionOK, OutputOK, CountersOK,
         SpindleInCheckMode, AtMain
<1>7. CASE Unlock
  <2>1. SysOK' /\ FlagsOK' /\ ControlOK'
    BY <1>7 DEF TypeOK, SysOK, FlagsOK, ControlOK, MotionOK, Unlock, AtMain
  <2>2. MotionOK' /\ OutputOK' /\ CountersOK'
    BY <1>7 DEF TypeOK, SysOK, MotionOK, OutputOK, CountersOK, Unlock, AtMain
  <2>3. QED
    BY <2>1, <2>2 DEF TypeOK
<1>8. CASE SleepLine
  BY <1>8
     DEF TypeOK, SysOK, FlagsOK, ControlOK, MotionOK, OutputOK, CountersOK,
         SleepLine, AtMain
<1>9. CASE CheckLine
  <2>1. SysOK'
    BY <1>9, McResetType DEF TypeOK, SysOK, CheckLine, AtMain
  <2>2. FlagsOK'
    BY <1>9, McResetType DEF TypeOK, FlagsOK, CheckLine, AtMain
  <2>3. ControlOK'
    BY <1>9, McResetType DEF TypeOK, ControlOK, CheckLine, AtMain
  <2>4. MotionOK'
    BY <1>9, McResetType DEF TypeOK, MotionOK, CheckLine, AtMain
  <2>5. OutputOK'
    BY <1>9, McResetType DEF TypeOK, OutputOK, CheckLine, AtMain
  <2>6. CountersOK'
    BY <1>9, McResetType DEF TypeOK, CountersOK, CheckLine, AtMain
  <2>7. QED
    BY <2>1, <2>2, <2>3, <2>4, <2>5, <2>6 DEF TypeOK
<1>10. CASE MotionAborted
  BY <1>10
     DEF TypeOK, SysOK, FlagsOK, ControlOK, MotionOK, OutputOK, CountersOK,
         MotionAborted, AfterMotion
<1>11. CASE MotionWaits
  BY <1>11
     DEF TypeOK, SysOK, FlagsOK, ControlOK, MotionOK, OutputOK, CountersOK,
         MotionWaits, AutoCycleStart, Execute
<1>12. CASE MotionPlanned
  <2>1. SysOK' /\ FlagsOK' /\ ControlOK'
    BY <1>12, RoomForBlock
       DEF TypeOK, SysOK, FlagsOK, ControlOK, MotionOK, MotionPlanned,
           AfterMotion
  <2>2. MotionOK' /\ OutputOK' /\ CountersOK'
    BY <1>12, RoomForBlock
       DEF TypeOK, SysOK, MotionOK, OutputOK, CountersOK, MotionPlanned,
           AfterMotion
  <2>3. QED
    BY <2>1, <2>2 DEF TypeOK
<1>13. CASE JogStart
  <2>1. SysOK'
    BY <1>13, PrepType DEF TypeOK, SysOK, MotionOK, JogStart
  <2>2. ControlOK'
    BY <1>13, PrepType DEF TypeOK, ControlOK, JogStart
  <2>3. MotionOK'
    BY <1>13, PrepType DEF TypeOK, MotionOK, SysOK, JogStart
  <2>4. FlagsOK' /\ OutputOK' /\ CountersOK'
    BY <1>13 DEF TypeOK, FlagsOK, OutputOK, CountersOK, JogStart
  <2>5. QED
    BY <2>1, <2>2, <2>3, <2>4 DEF TypeOK
<1>14. CASE SyncWaits
  BY <1>14
     DEF TypeOK, SysOK, FlagsOK, ControlOK, MotionOK, OutputOK, CountersOK,
         SyncWaits, Execute
<1>15. CASE Dwell
  BY <1>15
     DEF TypeOK, SysOK, FlagsOK, ControlOK, MotionOK, OutputOK, CountersOK,
         Dwell, AtMain, Execute
<1>16. CASE Pause
  <2>1. FlagsOK'
    BY <1>16 DEF TypeOK, FlagsOK, Pause, AtMain, Execute
  <2>2. ControlOK'
    BY <1>16 DEF TypeOK, ControlOK, Pause, AtMain, Execute
  <2>3. SysOK' /\ MotionOK' /\ OutputOK' /\ CountersOK'
    BY <1>16 DEF TypeOK, SysOK, MotionOK, OutputOK, CountersOK, Pause
  <2>4. QED
    BY <2>1, <2>2, <2>3 DEF TypeOK
<1>17. CASE SetSpindle
  BY <1>17
     DEF TypeOK, SysOK, FlagsOK, ControlOK, MotionOK, OutputOK, CountersOK,
         SetSpindle, AtMain
<1>18. CASE LineReturned
  BY <1>18
     DEF TypeOK, SysOK, FlagsOK, ControlOK, MotionOK, OutputOK, CountersOK,
         LineReturned, AtMain, Execute
<1>19. QED
  BY <1>1, <1>2, <1>3, <1>4, <1>5, <1>6, <1>7, <1>8, <1>9, <1>10, <1>11,
         <1>12, <1>13, <1>14, <1>15, <1>16, <1>17, <1>18 DEF MainLoop

\* ... the reinitialisation, ...
LEMMA ReinitializeType == ASSUME TypeOK, Reinitialize PROVE TypeOK'
<1>1. CASE ClearSystem
  <2>1. SysOK' /\ FlagsOK' /\ ControlOK'
    BY <1>1 DEF TypeOK, SysOK, FlagsOK, ControlOK, MotionOK, ClearSystem
  <2>2. MotionOK' /\ OutputOK' /\ CountersOK'
    BY <1>1 DEF TypeOK, SysOK, MotionOK, OutputOK, CountersOK, ClearSystem
  <2>3. QED
    BY <2>1, <2>2 DEF TypeOK
<1>2. CASE ResetSystems
  <2>1. ControlOK'
    BY <1>2, ZeroFits DEF TypeOK, ControlOK, ResetSystems
  <2>2. MotionOK'
    BY <1>2, ZeroFits DEF MotionOK, ResetSystems
  <2>3. OutputOK'
    BY <1>2, ZeroFits DEF TypeOK, OutputOK, ResetSystems
  <2>4. CountersOK'
    BY <1>2, ZeroFits DEF TypeOK, CountersOK, ResetSystems
  <2>5. SysOK' /\ FlagsOK'
    BY <1>2 DEF TypeOK, SysOK, FlagsOK, ResetSystems
  <2>6. QED
    BY <2>1, <2>2, <2>3, <2>4, <2>5 DEF TypeOK
<1>3. CASE StartUp
  BY <1>3
     DEF TypeOK, SysOK, FlagsOK, ControlOK, MotionOK, OutputOK, CountersOK,
         StartUp
<1>4. QED
  BY <1>1, <1>2, <1>3 DEF Reinitialize

\* ... every interrupt, ...
LEMMA InterruptType == ASSUME TypeOK, Stepper \/ Signals PROVE TypeOK'
<1>1. CASE RxReset
  <2>1. FlagsOK'
    BY <1>1, McResetType DEF TypeOK, FlagsOK, RxReset, Signal
  <2>2. MotionOK'
    BY <1>1, McResetType DEF TypeOK, MotionOK, RxReset, Signal
  <2>3. OutputOK'
    BY <1>1, McResetType DEF TypeOK, OutputOK, RxReset, Signal
  <2>4. CountersOK'
    BY <1>1, McResetType DEF TypeOK, CountersOK, RxReset, Signal
  <2>5. SysOK' /\ ControlOK'
    BY <1>1 DEF TypeOK, SysOK, ControlOK, RxReset, Signal
  <2>6. QED
    BY <2>1, <2>2, <2>3, <2>4, <2>5 DEF TypeOK
<1>2. CASE RxSpindleStop
  <2>1. SysOK' /\ FlagsOK' /\ ControlOK'
    BY <1>2
       DEF TypeOK, SysOK, FlagsOK, ControlOK, MotionOK, RxSpindleStop, Signal
  <2>2. MotionOK' /\ OutputOK' /\ CountersOK'
    BY <1>2
       DEF TypeOK, SysOK, MotionOK, OutputOK, CountersOK, RxSpindleStop,
           Signal
  <2>3. QED
    BY <2>1, <2>2 DEF TypeOK
<1>3. CASE LimitSwitch
  <2>1. FlagsOK'
    BY <1>3 DEF TypeOK, FlagsOK, LimitSwitch, Signal
  <2>2. MotionOK'
    BY <1>3 DEF TypeOK, MotionOK, LimitSwitch, Signal
  <2>3. OutputOK'
    BY <1>3 DEF TypeOK, OutputOK, LimitSwitch, Signal
  <2>4. CountersOK'
    <3>1. /\ commands' \in 0..MaxCommands /\ lines' \in 0..MaxLines
          /\ asked' \in BOOLEAN
      BY <1>3 DEF TypeOK, CountersOK, LimitSwitch, Signal
    <3>2. lost' \in BOOLEAN
      BY <1>3, Zenon DEF TypeOK, CountersOK, LimitSwitch
    <3>3. QED
      BY <3>1, <3>2 DEF CountersOK
  <2>5. SysOK' /\ ControlOK'
    BY <1>3 DEF TypeOK, SysOK, ControlOK, LimitSwitch, Signal
  <2>6. QED
    BY <2>1, <2>2, <2>3, <2>4, <2>5 DEF TypeOK
<1>4. CASE StepSegment
  <2>1. SysOK' /\ FlagsOK' /\ ControlOK'
    BY <1>4 DEF TypeOK, SysOK, FlagsOK, ControlOK, MotionOK, StepSegment
  <2>2. MotionOK' /\ OutputOK' /\ CountersOK'
    BY <1>4 DEF TypeOK, SysOK, MotionOK, OutputOK, CountersOK, StepSegment
  <2>3. QED
    BY <2>1, <2>2 DEF TypeOK
<1>5. CASE StepsDone
  <2>1. SysOK' /\ FlagsOK' /\ ControlOK'
    BY <1>5 DEF TypeOK, SysOK, FlagsOK, ControlOK, MotionOK, StepsDone
  <2>2. MotionOK' /\ OutputOK' /\ CountersOK'
    BY <1>5 DEF TypeOK, SysOK, MotionOK, OutputOK, CountersOK, StepsDone
  <2>3. QED
    BY <2>1, <2>2 DEF TypeOK
<1>6. ASSUME NEW c \in {"FEED_HOLD", "CYCLE_START", "SAFETY_DOOR",
                        "JOG_CANCEL"},
             RxFlag(c)
      PROVE  TypeOK'
  <2>1. FlagsOK'
    BY <1>6 DEF TypeOK, FlagsOK, RxFlag, Signal
  <2>2. CountersOK'
    BY <1>6 DEF TypeOK, CountersOK, RxFlag, Signal
  <2>3. SysOK' /\ ControlOK' /\ MotionOK' /\ OutputOK'
    BY <1>6 DEF TypeOK, SysOK, ControlOK, MotionOK, OutputOK, RxFlag, Signal
  <2>4. QED
    BY <2>1, <2>2, <2>3 DEF TypeOK
<1>7. QED
  BY <1>1, <1>2, <1>3, <1>4, <1>5, <1>6 DEF Stepper, Signals

\* ... and the arrival of a line.
LEMMA EndOfLineType ==
    ASSUME TypeOK, NEW l \in Lines, EndOfLine(l) PROVE TypeOK'
<1>1. TypeOK'
  <2>1. SysOK' /\ FlagsOK' /\ ControlOK'
    BY DEF TypeOK, SysOK, FlagsOK, ControlOK, MotionOK, EndOfLine, Execute
  <2>2. MotionOK' /\ OutputOK' /\ CountersOK'
    BY DEF TypeOK, SysOK, MotionOK, OutputOK, CountersOK, EndOfLine, Execute
  <2>3. QED
    BY <2>1, <2>2 DEF TypeOK
<1>2. QED
  BY <1>1

-----------------------------------------------------------------------------
\* In every behaviour every variable keeps its type, and the planner and the
\* segment ring never hold more than they have room for.
THEOREM TypeCorrect == Spec => []TypeOK
<1>1. Init => TypeOK
  <2>1. Init => SysOK /\ FlagsOK
    BY DEF Init, SysOK, FlagsOK
  <2>2. Init => ControlOK /\ OutputOK
    BY DEF Init, ControlOK, OutputOK
  <2>3. Init => MotionOK
    BY ZeroFits DEF Init, MotionOK
  <2>4. Init => CountersOK
    <3>1. Init => commands \in 0..MaxCommands /\ lines \in 0..MaxLines
      BY DEF Init
    <3>2. Init => asked \in BOOLEAN /\ lost \in BOOLEAN
      BY DEF Init
    <3>3. QED
      BY <3>1, <3>2 DEF CountersOK
  <2>5. QED
    BY <2>1, <2>2, <2>3, <2>4 DEF TypeOK
<1>2. TypeOK /\ [Next]_vars => TypeOK'
  <2>1. CASE Main
    BY <2>1, ExecRtSystemType, ExecRtSuspendType, MainLoopType,
       ReinitializeType
       DEF Main
  <2>2. CASE Stepper \/ Signals
    BY <2>2, InterruptType
  <2>3. CASE \E l \in Lines : EndOfLine(l)
    BY <2>3, EndOfLineType
  <2>4. CASE UNCHANGED vars
    BY <2>4
       DEF vars, TypeOK, SysOK, FlagsOK, ControlOK, MotionOK, OutputOK,
           CountersOK
  <2>5. QED
    BY <2>1, <2>2, <2>3, <2>4 DEF Next
<1>3. QED
  BY <1>1, <1>2, PTL DEF Spec

-----------------------------------------------------------------------------
(* No hold is resumed unasked: ResumeInv of Realtime.                      *)

USE DEF sys, flags, control, motion, output, bounds, history
USE DEF Early, Late, Outside, Start, CompleteHold, HoldFlags, HoldDone,
        StartBlocked
USE DEF ResumeInv, NoDoor, HoldIsNoJogCancel, AbortSeen, MainUnsuspended,
        StartCopied, StartInHold, HoldBlocksStart, ResumeAsked,
        SpindleFirstAsked

\* A feed hold does not turn a program into a jog that is being cancelled.
LEMMA HoldKeepsNoJogCancel ==
    ASSUME SysOK, NoDoor, HoldIsNoJogCancel, Hold PROVE HoldIsNoJogCancel'
<1>1. CASE UNCHANGED <<state, suspend>>
  BY <1>1
<1>2. CASE state' = "SLEEP"
  BY <1>2
<1>3. CASE state' = StateOnFeedHold(rtExec) /\ suspend' = SuspendOnHold(rtExec)
  <2>1. CASE state = "JOG"
    BY <1>3, <2>1 DEF StateOnFeedHold
  <2>2. CASE state \in {"IDLE", "CYCLE", "HOLD"}
    BY <1>3, <2>2 DEF SuspendOnHold
  <2>3. CASE state \in {"DOOR", "SLEEP"}
    BY <1>3, <2>3 DEF StateOnFeedHold
  <2>4. CASE state \in {"ALARM", "CHECK"}
    BY <2>4 DEF Hold, HoldsAllowed
  <2>5. QED
    BY <2>1, <2>2, <2>3, <2>4 DEF SysOK, States
<1>4. QED
  BY <1>1, <1>2, <1>3 DEF Hold

\* Every step of a pass keeps the invariant, ...
LEMMA ExecRtSystemResume ==
    ASSUME SysOK, FlagsOK, ControlOK, ResumeInv, ExecRtSystem PROVE ResumeInv'
<1> USE DEF SysOK, FlagsOK, ControlOK
<1>1. CASE ReadAlarm
  BY <1>1 DEF ReadAlarm, Alarms, NoAlarm
<1>2. CASE EnterAlarm
  BY <1>2 DEF EnterAlarm, Critical
<1>3. CASE LeaveCritical
  BY <1>3 DEF LeaveCritical
<1>4. CASE ClearAlarm
  BY <1>4 DEF ClearAlarm
<1>5. CASE Snapshot
    BY <1>5 DEF Snapshot, ReturnTo, FirstService, AfterHold, AfterStart,
         VoidsResume
<1>6. CASE Hold
  <2>1. HoldIsNoJogCancel'
    BY <1>6, HoldKeepsNoJogCancel
  <2>2. NoDoor' /\ AbortSeen' /\ MainUnsuspended' /\ StartCopied'
    BY <1>6 DEF Hold, SuspendOnHold, SuspendOnDoor, StateOnDoor,
       StateOnFeedHold, StartsHold, Reopen, HoldsAllowed
  <2>3. StartInHold' /\ HoldBlocksStart' /\ ResumeAsked' /\ SpindleFirstAsked'
    BY <1>6 DEF Hold, SuspendOnHold, SuspendOnDoor, StateOnDoor,
       StateOnFeedHold, StartsHold, Reopen, HoldsAllowed
  <2>4. QED
    BY <2>1, <2>2, <2>3
<1>7. CASE HoldClear
  BY <1>7 DEF HoldClear, AfterHold, AfterStart
<1>8. CASE StartIgnored
  BY <1>8 DEF StartIgnored, StartClearNext
<1>9. CASE StartRestore
  BY <1>9 DEF StartRestore, StartClearNext, DoorClosed
<1>10. CASE StartSpindleFirst
  BY <1>10 DEF StartSpindleFirst, StartClearNext, MayStart
<1>11. CASE StartCycle
  BY <1>11 DEF StartCycle, DoorRestored, DoorClosed, MayStart
<1>12. CASE EnterCycle
  BY <1>12 DEF EnterCycle, Prep
<1>13. CASE WakeUp
  BY <1>13 DEF WakeUp
<1>14. CASE StartClear
  BY <1>14 DEF StartClear, AfterStart, HandedOver
<1>15. CASE Stop
  BY <1>15 DEF Stop, StopInHold, StopMotion, StopKeepsHold
<1>16. CASE StopClear
  BY <1>16 DEF StopClear
<1>17. CASE Finish
  BY <1>17 DEF Finish, SpindleOverride, ReturnTo, Prep
<1>18. QED
  BY <1>1, <1>2, <1>3, <1>4, <1>5, <1>6, <1>7, <1>8, <1>9, <1>10, <1>11,
     <1>12, <1>13, <1>14, <1>15, <1>16, <1>17 DEF ExecRtSystem

\* ... so does every step of the suspend loop, ...
LEMMA ExecRtSuspendResume ==
    ASSUME SysOK, FlagsOK, ControlOK, ResumeInv, ExecRtSuspend PROVE ResumeInv'
<1> USE DEF SysOK, FlagsOK, ControlOK
<1>1. CASE SuspendEnd
  BY <1>1 DEF SuspendEnd, Suspended, HoldDone, Parking, Retracted
<1>2. CASE SuspendWait
  BY <1>2 DEF SuspendWait, ExecSystem, Suspended, HoldDone, Parking, Retracted
<1>3. CASE Retract
  BY <1>3 DEF Retract, ExecSystem, Suspended, HoldDone, Parking, Retracted
<1>4. CASE FallAsleep
  BY <1>4 DEF FallAsleep, ExecSystem, Suspended, HoldDone, Parking, Retracted
<1>5. CASE DoorWait
  BY <1>5 DEF DoorWait, ExecSystem, Suspended, HoldDone, Parking, Retracted
<1>6. CASE RestoreSpindle
    BY <1>6 DEF RestoreSpindle, ExecSystem, Suspended, HoldDone, Parking,
         Retracted
<1>7. CASE RestoreDone
  BY <1>7 DEF RestoreDone, ExecSystem, Suspended, HoldDone, Parking, Retracted
<1>8. CASE HoldManager
    BY <1>8 DEF HoldManager, ExecSystem, StopSpindle, RestartSpindle,
         LeaveSpindle, Suspended, HoldDone, Parking, Retracted
<1>9. QED
  BY <1>1, <1>2, <1>3, <1>4, <1>5, <1>6, <1>7, <1>8 DEF ExecRtSuspend

\* ... of the main loop ...
LEMMA MainLoopResume ==
    ASSUME SysOK, FlagsOK, ControlOK, ResumeInv, MainLoop PROVE ResumeInv'
<1> USE DEF SysOK, FlagsOK, ControlOK
<1>1. CASE NoLine
  BY <1>1 DEF NoLine, AutoCycleStart, Execute
<1>2. CASE LoopReturned
  BY <1>2 DEF LoopReturned
<1>3. CASE LineIgnored
  BY <1>3 DEF LineIgnored, AtMain
<1>4. CASE QueueMotion
  BY <1>4 DEF QueueMotion, Execute
<1>5. CASE Synchronize
  BY <1>5 DEF Synchronize, AutoCycleStart, Execute
<1>6. CASE SpindleInCheckMode
  BY <1>6 DEF SpindleInCheckMode, AtMain
<1>7. CASE Unlock
  BY <1>7 DEF Unlock, AtMain
<1>8. CASE SleepLine
  BY <1>8 DEF SleepLine, AtMain
<1>9. CASE CheckLine
  BY <1>9 DEF CheckLine, AtMain, McReset
<1>10. CASE MotionAborted
  BY <1>10 DEF MotionAborted, AfterMotion
<1>11. CASE MotionWaits
  BY <1>11 DEF MotionWaits, AutoCycleStart, Execute
<1>12. CASE MotionPlanned
  BY <1>12 DEF MotionPlanned, AfterMotion
<1>13. CASE JogStart
  BY <1>13 DEF JogStart, Prep
<1>14. CASE SyncWaits
  BY <1>14 DEF SyncWaits, Execute
<1>15. CASE Dwell
  BY <1>15 DEF Dwell, AtMain, Execute, Synchronized
<1>16. CASE Pause
  BY <1>16 DEF Pause, AtMain, Execute, Synchronized
<1>17. CASE SetSpindle
  BY <1>17 DEF SetSpindle, AtMain, Synchronized
<1>18. CASE LineReturned
  BY <1>18 DEF LineReturned, AtMain, Execute
<1>19. QED
  BY <1>1, <1>2, <1>3, <1>4, <1>5, <1>6, <1>7, <1>8, <1>9, <1>10, <1>11,
     <1>12, <1>13, <1>14, <1>15, <1>16, <1>17, <1>18 DEF MainLoop

\* ... and of the reinitialisation.
LEMMA ReinitializeResume ==
    ASSUME SysOK, FlagsOK, ControlOK, ResumeInv, Reinitialize PROVE ResumeInv'
<1> USE DEF SysOK, FlagsOK, ControlOK
<1>1. CASE ClearSystem
  BY <1>1 DEF ClearSystem
<1>2. CASE ResetSystems
  BY <1>2 DEF ResetSystems
<1>3. CASE StartUp
  BY <1>3 DEF StartUp
<1>4. QED
  BY <1>1, <1>2, <1>3 DEF Reinitialize

\* Interrupts keep it, as long as the door is not signalled.
LEMMA InterruptResume ==
    ASSUME SysOK, FlagsOK, ControlOK, ResumeInv, Stepper \/ Signals,
           "SAFETY_DOOR" \notin Commands
    PROVE  ResumeInv'
<1> USE DEF SysOK, FlagsOK, ControlOK
<1>1. CASE RxReset
  BY <1>1 DEF RxReset, Signal, McReset
<1>2. CASE RxSpindleStop
  BY <1>2 DEF RxSpindleStop, Signal
<1>3. CASE LimitSwitch
  BY <1>3 DEF LimitSwitch, Signal
<1>4. CASE StepSegment
  BY <1>4 DEF StepSegment
<1>5. CASE StepsDone
  BY <1>5 DEF StepsDone
<1>6. ASSUME NEW c \in {"FEED_HOLD", "CYCLE_START", "SAFETY_DOOR",
                        "JOG_CANCEL"},
             RxFlag(c)
      PROVE  ResumeInv'
  <2>1. c # "SAFETY_DOOR"
    BY <1>6 DEF RxFlag, Signal
  <2>2. NoDoor' /\ HoldIsNoJogCancel' /\ AbortSeen' /\ MainUnsuspended'
    BY <1>6, <2>1 DEF RxFlag
  <2>3. StartCopied' /\ StartInHold'
    BY <1>6, <2>1 DEF RxFlag
  <2>4. HoldBlocksStart' /\ ResumeAsked' /\ SpindleFirstAsked'
    BY <1>6, <2>1 DEF RxFlag
  <2>5. QED
    BY <2>2, <2>3, <2>4
<1>7. QED
  BY <1>1, <1>2, <1>3, <1>4, <1>5, <1>6 DEF Stepper, Signals

\* A line that arrives keeps it.
LEMMA EndOfLineResume ==
    ASSUME SysOK, FlagsOK, ControlOK, ResumeInv,
           NEW l \in Lines, EndOfLine(l)
    PROVE  ResumeInv'
BY DEF SysOK, FlagsOK, ControlOK, EndOfLine, Execute

-----------------------------------------------------------------------------
\* The invariant explains every way out of a hold.
LEMMA ResumeStep ==
    ASSUME TypeOK, ResumeInv, [Next]_vars
    PROVE  state = "HOLD" /\ state' \in {"IDLE", "CYCLE", "JOG"}
             => asked \/ pc = "start-up"
<1> SUFFICES ASSUME state = "HOLD", state' \in {"IDLE", "CYCLE", "JOG"}
             PROVE  asked \/ pc = "start-up"
  OBVIOUS
<1> USE DEF TypeOK, SysOK, FlagsOK, ControlOK
<1>1. CASE ExecRtSystem
  <2>1. CASE StartCycle
    BY <2>1 DEF StartCycle, DoorRestored, DoorClosed, MayStart
  <2>2. CASE EnterCycle
    BY <2>2 DEF EnterCycle
  <2>3. CASE Stop
    BY <2>3 DEF Stop, StopInHold, StopMotion, StopKeepsHold
  <2>4. CASE Hold
    BY <2>4 DEF Hold, StateOnFeedHold, StateOnDoor
  <2>5. CASE \/ ReadAlarm \/ EnterAlarm \/ LeaveCritical \/ ClearAlarm
             \/ Snapshot \/ HoldClear \/ StartIgnored \/ StartRestore
             \/ StartSpindleFirst \/ WakeUp \/ StartClear \/ StopClear
             \/ Finish
    BY <2>5
       DEF ReadAlarm, EnterAlarm, LeaveCritical, ClearAlarm, Snapshot,
           HoldClear, StartIgnored, StartRestore, StartSpindleFirst, WakeUp,
           StartClear, StopClear, Finish, StartClearNext
  <2>6. QED
    BY <1>1, <2>1, <2>2, <2>3, <2>4, <2>5 DEF ExecRtSystem
<1>2. CASE ExecRtSuspend
  BY <1>2
     DEF ExecRtSuspend, SuspendEnd, SuspendWait, Retract, FallAsleep, DoorWait,
         RestoreSpindle, RestoreDone, HoldManager
<1>3. CASE MainLoop
  BY <1>3
     DEF MainLoop, NoLine, LoopReturned, LineIgnored, QueueMotion, Synchronize,
         SpindleInCheckMode, Unlock, SleepLine, CheckLine, MotionAborted,
         MotionWaits, MotionPlanned, JogStart, SyncWaits, Dwell, Pause,
         SetSpindle, LineReturned, Refused
<1>4. CASE Reinitialize
  BY <1>4 DEF Reinitialize, ClearSystem, ResetSystems, StartUp
<1>5. CASE Stepper \/ Signals \/ \E l \in Lines : EndOfLine(l)
  BY <1>5
     DEF Stepper, StepSegment, StepsDone, Signals, RxReset, RxFlag,
         RxSpindleStop, LimitSwitch, EndOfLine
<1>6. CASE UNCHANGED vars
  BY <1>6 DEF vars
<1>7. QED
  BY <1>1, <1>2, <1>3, <1>4, <1>5, <1>6 DEF Next, Main

HIDE DEF ResumeInv, NoDoor, HoldIsNoJogCancel, AbortSeen, MainUnsuspended,
         StartCopied, StartInHold, HoldBlocksStart, ResumeAsked,
         SpindleFirstAsked

\* protocol.c:333: no hold is resumed without an explicit user input, if there
\* is no door to restore the machine behind.
THEOREM HoldResumesWhenAsked ==
    ASSUME "SAFETY_DOOR" \notin Commands PROVE Spec => NoAutoResume
<1>1. Init => ResumeInv
  BY DEF Init, ResumeInv, NoDoor, HoldIsNoJogCancel, AbortSeen,
         MainUnsuspended, StartCopied, StartInHold, HoldBlocksStart,
         ResumeAsked, SpindleFirstAsked
<1>2. TypeOK /\ ResumeInv /\ [Next]_vars => ResumeInv'
  <2> SUFFICES ASSUME TypeOK, ResumeInv, [Next]_vars PROVE ResumeInv'
    OBVIOUS
  <2> USE DEF TypeOK
  <2>1. CASE Main
    BY <2>1, ExecRtSystemResume, ExecRtSuspendResume, MainLoopResume,
       ReinitializeResume DEF Main
  <2>2. CASE Stepper \/ Signals
    BY <2>2, InterruptResume
  <2>3. CASE \E l \in Lines : EndOfLine(l)
    BY <2>3, EndOfLineResume
  <2>4. CASE UNCHANGED vars
    BY <2>4
       DEF vars, ResumeInv, NoDoor, HoldIsNoJogCancel, AbortSeen,
           MainUnsuspended, StartCopied, StartInHold, HoldBlocksStart,
           ResumeAsked, SpindleFirstAsked
  <2>5. QED
    BY <2>1, <2>2, <2>3, <2>4 DEF Next
<1>3. TypeOK /\ ResumeInv /\ [Next]_vars
        => [(state \in {"HOLD", "DOOR"} /\ state' \in {"IDLE", "CYCLE", "JOG"})
               => asked \/ pc = "start-up" ]_vars
  BY ResumeStep DEF ResumeInv, NoDoor
<1>4. QED
  BY <1>1, <1>2, <1>3, TypeCorrect, PTL DEF Spec, NoAutoResume

HIDE DEF sys, flags, control, motion, output, bounds, history
HIDE DEF States, SuspendFlags, StepControlFlags, HoldFlags, ExecFlags, Alarms,
         NoAlarm, StopOvrFlags, AllLines, AllCommands
HIDE DEF Early, Late, Outside, Start, CompleteHold, HoldDone, StartBlocked

-----------------------------------------------------------------------------
(* The invariant of the stops: RestInv.                                    *)

\* A reset is waited for or to be served.
ResetPending == "RESET" \in rtState \/ pc = "critical"

\* An alarm comes with a reset.  The machine is in ALARM before the request
\* is cleared, and an alarm cannot arrive just before the flags are copied.
AlarmResets ==
    /\ rtAlarm # NoAlarm => ResetPending /\ pc # "snapshot"
    /\ pc = "enterAlarm" => rtAlarm # NoAlarm /\ "RESET" \in rtState
    /\ pc \in {"critical", "clearAlarm"} => state = "ALARM"
    /\ pc = "clearAlarm" => "RESET" \in rtState

\* A pass that goes on to start motion has no reset to serve, and starts it
\* from rest.
StartUndisturbed ==
    /\ pc \in {"start", "startCycle", "wake"} => Start \in rtExec
    /\ /\ pc \in {"hold", "holdClear", "start", "startCycle", "wake"}
       /\ Start \in rtExec
       => "RESET" \notin rtState
    /\ pc = "startCycle" => state \in {"IDLE", "HOLD"}
    /\ pc = "wake" => state = "CYCLE" /\ suspend = {}

\* Nor has a jog line, once the pass that every line begins with is over.
JogUndisturbed ==
    /\ pc \in {"jogStart", "jogWake"} => line = "jog" /\ task = "full"
    /\ pc = "jogWake" => state = "JOG"
    /\ line = "jog" /\ task = "full" /\ pc # "main"
         => /\ "RESET" \notin rtState
            /\ pc \notin {"enterAlarm", "critical", "clearAlarm", "reinit",
                          "reinitSystems", "start-up"}
    /\ line = "jog" /\ task = "eol" /\ pc # "main" /\ "RESET" \in rtState
         => abort \/ pc \in Early

\* Where the steppers have nothing to do.
Quiet ==
    \/ state \in {"IDLE", "CHECK", "SLEEP", "ALARM"} \/ HoldDone
    \/ pc \in {"reinit", "reinitSystems", "start-up"}

\* There they are off, and no stop of theirs is still to be served, unless a
\* reset comes before it.
QuietStill ==
    Quiet => /\ ~stepping
             /\ "CYCLE_STOP" \in rtState => pc = "stopClear" \/ ResetPending

\* The steppers have stopped when their stop is served, or a reset is; no stop
\* is served in the pass that starts them.
StopStill ==
    /\ "CYCLE_STOP" \in rtState \/ ResetPending => ~stepping
    /\ pc \in {"startCycle", "wake", "jogWake"}
         => "CYCLE_STOP" \notin rtState /\ ~stepping
    /\ pc \in Late \ {"stopClear", "finish"} /\ "CYCLE_STOP" \in rtExec
         => ~stepping /\ ~Quiet /\ pc \notin {"startCycle", "wake"}
    /\ pc = "stop" => "CYCLE_STOP" \in rtExec
    /\ pc = "stopClear" => ~stepping

\* mc_reset knows when it has steppers to cut.
SteppingControlled ==
    stepping => state \in {"CYCLE", "JOG"} \/ "EXECUTE_HOLD" \in stepControl

\* Only a jog is cancelled.
CancelOfJog ==
    /\ "MOTION_CANCEL" \in rtState
         => /\ state # "CYCLE"
            /\ pc \in {"start", "startCycle"} => state = "JOG"
    /\ pc = "hold" /\ "MOTION_CANCEL" \in rtExec => state # "CYCLE"
    /\ "JOG_CANCEL" \in suspend => state \in {"JOG", "ALARM"}
    /\ state \in {"CYCLE", "JOG"} => "MOTION_CANCEL" \notin suspend

\* A machine is sent to sleep in IDLE or ALARM, and the next pass does it.
SleepFromRest ==
    /\ "SLEEP" \in rtState
         => \/ abort
            \/ /\ pc \in {"main", "hold", "holdClear"} \cup Early
               /\ pc # "main" => caller = "task" /\ task \in {"loop", "eol"}
               /\ pc # "holdClear" => state \in {"IDLE", "ALARM"}
               /\ pc = "hold" => "SLEEP" \in rtExec
    /\ pc = "hold" /\ "SLEEP" \in rtExec => state \in {"IDLE", "ALARM"}

\* Behind the door: it counts as closed only when the hold is complete, and
\* so is the machine retracted.
Retraction ==
    /\ state = "DOOR" /\ "SAFETY_DOOR_AJAR" \notin suspend
         => HoldDone \/ pc \in {"reinitSystems", "start-up"}
    /\ Retracted => HoldDone
    /\ Retracted => state \in {"DOOR", "SLEEP", "ALARM"} \/ pc = "startCycle"

\* A reset that follows an alarm is under way.
Aborting ==
    \/ abort \/ pc = "critical"
    \/ pc \in {"clearAlarm", "snapshot"} /\ "RESET" \in rtState

\* After it a machine in ALARM runs no statement but the loop's own, is not
\* suspended, and its spindle is off.
AlarmIdle ==
    state = "ALARM" /\ ~Aborting /\ pc # "reinitSystems"
      => /\ suspend = {} /\ spindle # "run"
         /\ task \in {"loop", "eol"} \/ pc \in {"main", "start-up"}
         /\ pc \in Outside \/ (pc \in Early \cup Late /\ caller = "task")

\* What the reinitialisation leaves, and what a line finds.
Reinitialized ==
    /\ pc = "reinit" => abort
    /\ pc \in {"reinitSystems", "start-up"} => ~abort /\ suspend = {}
    /\ pc = "start-up" => spindle = "stopped"
    /\ pc = "dispatch" => ~abort /\ task = "eol"

\* A lost position is in the state, or in an alarm that will be.
LossKept ==
    lost => \/ state \in {"ALARM", "SLEEP"}
            \/ rtAlarm # NoAlarm /\ ~abort

RestInv ==
    /\ AbortSeen /\ MainUnsuspended /\ AlarmResets /\ StartUndisturbed
    /\ JogUndisturbed /\ QuietStill /\ StopStill /\ SteppingControlled
    /\ CancelOfJog /\ SleepFromRest /\ Retraction /\ AlarmIdle
    /\ Reinitialized /\ LossKept /\ RetractedSpindleOff

-----------------------------------------------------------------------------
(* The invariant of the door: DoorInv.                                     *)

Ajar == "SAFETY_DOOR_AJAR" \in suspend
Restoring == "INITIATE_RESTORE" \in suspend

\* The machine is restored because the operator asked for it; a door that
\* opens voids that, and the hold that serves it ends the restoring.
RestoreAsked ==
    /\ Restoring => state \in {"DOOR", "ALARM"} \/ pc = "startCycle"
    /\ state = "DOOR" /\ Restoring /\ ~abort
         => asked \/ (pc = "hold" /\ "SAFETY_DOOR" \in rtExec)

\* The delay for the spindle is part of it, whatever the passes in it do.
InDelay == pc = "restored" \/ (caller = "delay" /\ pc \in Early \cup Late)
DelayInRestore == state = "DOOR" /\ ~abort /\ InDelay => Ajar \/ Restoring

\* A request to start that the operator did not make is cleared while the
\* door still counts as open.
DoorStartAsked ==
    /\ state = "DOOR" /\ Start \in rtState /\ ~asked /\ ~abort
         => (Ajar /\ pc # "suspend") \/ pc \in Late
    /\ /\ state = "DOOR" /\ pc \in {"hold", "holdClear", "start"}
       /\ Start \in rtExec /\ ~StartBlocked
       => asked \/ Ajar

DoorInv == StartCopied /\ RestoreAsked /\ DelayInRestore /\ DoorStartAsked

-----------------------------------------------------------------------------
(* The invariant of a machine that does not jog: RaceInv.                  *)

\* No line of the host starts a jog.
NoJog ==
    /\ state # "JOG" /\ line # "jog"
    /\ pc \notin {"jogStart", "jogWake"}

\* An alarm comes with a reset, even if the pass misses the one or the other.
AlarmReset ==
    /\ rtAlarm # NoAlarm => ResetPending
    /\ pc = "enterAlarm" => rtAlarm # NoAlarm
    /\ pc = "clearAlarm" => "RESET" \in rtState

\* Where the steppers are off, whatever a reset has caught.
AlarmServed ==
    /\ state = "ALARM" /\ ~Aborting
    /\ pc \notin {"reinit", "reinitSystems"}
Resting == state \in {"IDLE", "CHECK"} \/ HoldDone \/ AlarmServed

\* A cycle stop that was raised in the middle of the reinitialisation waits
\* for the first pass after it, in which no motion is queued yet.
FreshPass ==
    /\ planned = 0
    /\ \/ pc \in {"start-up", "main"}
       \/ /\ caller = "task" /\ task \in {"loop", "eol"}
          /\ \/ pc \in Early \cup Late
             \/ abort /\ pc \in {"returned", "suspend", "reinit"}

RestingStill ==
    Resting => /\ ~stepping
               /\ "CYCLE_STOP" \in rtState => pc = "stopClear" \/ FreshPass

\* No stop is served in the pass that starts the steppers.
StopServed ==
    /\ "CYCLE_STOP" \in rtState => ~stepping
    /\ pc = "startCycle" => Resting
    /\ pc = "wake" => state = "CYCLE" /\ suspend = {}
    /\ pc \in {"startCycle", "wake"}
         => "CYCLE_STOP" \notin rtState \cup rtExec /\ ~stepping
    /\ pc \in Late \ {"stopClear", "finish"} /\ "CYCLE_STOP" \in rtExec
         => ~stepping /\ (Resting => planned = 0)
    /\ pc \in Late /\ "CYCLE_STOP" \in rtState /\ Resting
         => "CYCLE_STOP" \in rtExec /\ pc # "finish"
    /\ pc = "stop" => "CYCLE_STOP" \in rtExec
    /\ pc = "stopClear" => ~stepping

\* The door counts as closed only when the hold is complete.
ClosedHeld ==
    state = "DOOR" /\ "SAFETY_DOOR_AJAR" \notin suspend
      => HoldDone \/ pc \in {"reinitSystems", "start-up"}

\* What the reinitialisation leaves, and what a line finds.
FreshSystem ==
    /\ pc = "reinit" => abort
    /\ pc \in {"reinitSystems", "start-up"} => ~abort /\ suspend = {}
    /\ pc = "start-up" => ~stepping /\ planned = 0
    /\ pc = "dispatch" => ~abort /\ task = "eol"

RaceInv ==
    /\ AbortSeen /\ MainUnsuspended /\ NoJog /\ AlarmReset /\ RestingStill
    /\ StopServed /\ ClosedHeld /\ FreshSystem

-----------------------------------------------------------------------------
(* Every step keeps RestInv.                                               *)

USE DEF sys, flags, control, motion, output, bounds, history
USE DEF Early, Late, Outside, Start, HoldFlags, HoldDone, Retracted, NoAlarm,
        StartBlocked, ResetPending, Quiet, Aborting
USE DEF RestInv, AbortSeen, MainUnsuspended, AlarmResets, StartUndisturbed,
        JogUndisturbed, QuietStill, StopStill, SteppingControlled, CancelOfJog,
        SleepFromRest, Retraction, AlarmIdle, Reinitialized, LossKept,
        RetractedSpindleOff

\* Every step of a pass keeps the invariant, ...
LEMMA ExecRtSystemRest ==
    ASSUME SysOK, FlagsOK, ControlOK, RestInv, ExecRtSystem PROVE RestInv'
<1> USE DEF SysOK, FlagsOK, ControlOK
<1>1. CASE ReadAlarm
  BY <1>1 DEF ReadAlarm, Alarms, NoAlarm
<1>2. CASE EnterAlarm
  BY <1>2 DEF EnterAlarm, Critical
<1>3. CASE LeaveCritical
  BY <1>3 DEF LeaveCritical
<1>4. CASE ClearAlarm
  BY <1>4 DEF ClearAlarm
<1>5. CASE Snapshot
  <2>1. AbortSeen'
    BY <1>5
       DEF Snapshot, ReturnTo, FirstService, AfterHold, AfterStart,
           VoidsResume
  <2>2. MainUnsuspended'
    BY <1>5
       DEF Snapshot, ReturnTo, FirstService, AfterHold, AfterStart,
           VoidsResume
  <2>3. AlarmResets'
    BY <1>5
       DEF Snapshot, ReturnTo, FirstService, AfterHold, AfterStart,
           VoidsResume
  <2>4. StartUndisturbed'
    BY <1>5
       DEF Snapshot, ReturnTo, FirstService, AfterHold, AfterStart,
           VoidsResume
  <2>5. JogUndisturbed'
    BY <1>5
       DEF Snapshot, ReturnTo, FirstService, AfterHold, AfterStart,
           VoidsResume
  <2>6. QuietStill'
    BY <1>5
       DEF Snapshot, ReturnTo, FirstService, AfterHold, AfterStart,
           VoidsResume
  <2>7. StopStill'
    BY <1>5
       DEF Snapshot, ReturnTo, FirstService, AfterHold, AfterStart,
           VoidsResume
  <2>8. SteppingControlled'
    BY <1>5
       DEF Snapshot, ReturnTo, FirstService, AfterHold, AfterStart,
           VoidsResume
  <2>9. CancelOfJog'
    BY <1>5
       DEF Snapshot, ReturnTo, FirstService, AfterHold, AfterStart,
           VoidsResume
  <2>10. SleepFromRest'
    BY <1>5
       DEF Snapshot, ReturnTo, FirstService, AfterHold, AfterStart,
           VoidsResume
  <2>11. Retraction'
    BY <1>5
       DEF Snapshot, ReturnTo, FirstService, AfterHold, AfterStart,
           VoidsResume
  <2>12. AlarmIdle'
    BY <1>5
       DEF Snapshot, ReturnTo, FirstService, AfterHold, AfterStart,
           VoidsResume
  <2>13. Reinitialized'
    BY <1>5
       DEF Snapshot, ReturnTo, FirstService, AfterHold, AfterStart,
           VoidsResume
  <2>14. LossKept'
    BY <1>5
       DEF Snapshot, ReturnTo, FirstService, AfterHold, AfterStart,
           VoidsResume
  <2>15. RetractedSpindleOff'
    BY <1>5
       DEF Snapshot, ReturnTo, FirstService, AfterHold, AfterStart,
           VoidsResume
  <2>16. QED
    BY <2>1, <2>2, <2>3, <2>4, <2>5, <2>6, <2>7, <2>8, <2>9, <2>10, <2>11,
       <2>12, <2>13, <2>14, <2>15
<1>6. CASE Hold
  BY <1>6
     DEF Hold, SuspendOnHold, SuspendOnDoor, StateOnDoor, StateOnFeedHold,
         StartsHold, Reopen, HoldsAllowed
<1>7. CASE HoldClear
  BY <1>7 DEF HoldClear, AfterHold, AfterStart
<1>8. CASE StartIgnored
  BY <1>8 DEF StartIgnored, StartClearNext
<1>9. CASE StartRestore
  BY <1>9 DEF StartRestore, StartClearNext, DoorClosed
<1>10. CASE StartSpindleFirst
  BY <1>10 DEF StartSpindleFirst, StartClearNext, MayStart
<1>11. CASE StartCycle
  BY <1>11 DEF StartCycle, DoorRestored, DoorClosed, MayStart
<1>12. CASE EnterCycle
  BY <1>12 DEF EnterCycle, Prep
<1>13. CASE WakeUp
  BY <1>13 DEF WakeUp
<1>14. CASE StartClear
  BY <1>14 DEF StartClear, AfterStart, HandedOver
<1>15. CASE Stop
  BY <1>15 DEF Stop, StopInHold, StopMotion, StopKeepsHold
<1>16. CASE StopClear
  BY <1>16 DEF StopClear
<1>17. CASE Finish
  BY <1>17 DEF Finish, SpindleOverride, ReturnTo, Prep
<1>18. QED
  BY <1>1, <1>2, <1>3, <1>4, <1>5, <1>6, <1>7, <1>8, <1>9, <1>10, <1>11,
     <1>12, <1>13, <1>14, <1>15, <1>16, <1>17 DEF ExecRtSystem

\* ... so does every step of the suspend loop, ...
LEMMA ExecRtSuspendRest ==
    ASSUME SysOK, FlagsOK, ControlOK, RestInv, ExecRtSuspend PROVE RestInv'
<1> USE DEF SysOK, FlagsOK, ControlOK
<1>1. CASE SuspendEnd
  BY <1>1 DEF SuspendEnd, Suspended, HoldDone, Parking, Retracted
<1>2. CASE SuspendWait
  BY <1>2 DEF SuspendWait, ExecSystem, Suspended, HoldDone, Parking, Retracted
<1>3. CASE Retract
  BY <1>3 DEF Retract, ExecSystem, Suspended, HoldDone, Parking, Retracted
<1>4. CASE FallAsleep
  BY <1>4 DEF FallAsleep, ExecSystem, Suspended, HoldDone, Parking, Retracted
<1>5. CASE DoorWait
  BY <1>5 DEF DoorWait, ExecSystem, Suspended, HoldDone, Parking, Retracted
<1>6. CASE RestoreSpindle
    BY <1>6 DEF RestoreSpindle, ExecSystem, Suspended, HoldDone, Parking,
         Retracted
<1>7. CASE RestoreDone
  BY <1>7 DEF RestoreDone, ExecSystem, Suspended, HoldDone, Parking, Retracted
<1>8. CASE HoldManager
    BY <1>8 DEF HoldManager, ExecSystem, StopSpindle, RestartSpindle,
         LeaveSpindle, Suspended, HoldDone, Parking, Retracted
<1>9. QED
  BY <1>1, <1>2, <1>3, <1>4, <1>5, <1>6, <1>7, <1>8 DEF ExecRtSuspend

\* ... of the main loop ...
LEMMA MainLoopRest ==
    ASSUME SysOK, FlagsOK, ControlOK, RestInv, MainLoop PROVE RestInv'
<1> USE DEF SysOK, FlagsOK, ControlOK
<1>1. CASE NoLine
  BY <1>1 DEF NoLine, AutoCycleStart, Execute
<1>2. CASE LoopReturned
  BY <1>2 DEF LoopReturned
<1>3. CASE LineIgnored
  BY <1>3 DEF LineIgnored, AtMain
<1>4. CASE QueueMotion
  BY <1>4 DEF QueueMotion, Refused, Idles, GcodeLine, Execute
<1>5. CASE Synchronize
  BY <1>5 DEF Synchronize, Refused, Idles, GcodeLine, AutoCycleStart, Execute
<1>6. CASE SpindleInCheckMode
  BY <1>6 DEF SpindleInCheckMode, AtMain
<1>7. CASE Unlock
  BY <1>7 DEF Unlock, AtMain, Refused
<1>8. CASE SleepLine
  BY <1>8 DEF SleepLine, AtMain, Refused
<1>9. CASE CheckLine
  BY <1>9 DEF CheckLine, AtMain, McReset, MotionToKill, Refused
<1>10. CASE MotionAborted
  BY <1>10 DEF MotionAborted, AfterMotion
<1>11. CASE MotionWaits
  BY <1>11 DEF MotionWaits, AutoCycleStart, Execute
<1>12. CASE MotionPlanned
  BY <1>12 DEF MotionPlanned, AfterMotion
<1>13. CASE JogStart
  BY <1>13 DEF JogStart, Prep
<1>14. CASE SyncWaits
  BY <1>14 DEF SyncWaits, Execute
<1>15. CASE Dwell
  BY <1>15 DEF Dwell, AtMain, Execute, Synchronized
<1>16. CASE Pause
  BY <1>16 DEF Pause, AtMain, Execute, Synchronized
<1>17. CASE SetSpindle
  BY <1>17 DEF SetSpindle, AtMain, Synchronized
<1>18. CASE LineReturned
  BY <1>18 DEF LineReturned, AtMain, Execute
<1>19. QED
  BY <1>1, <1>2, <1>3, <1>4, <1>5, <1>6, <1>7, <1>8, <1>9, <1>10, <1>11,
     <1>12, <1>13, <1>14, <1>15, <1>16, <1>17, <1>18 DEF MainLoop

\* ... and of the reinitialisation.
LEMMA ReinitializeRest ==
    ASSUME SysOK, FlagsOK, ControlOK, RestInv, Reinitialize PROVE RestInv'
<1> USE DEF SysOK, FlagsOK, ControlOK
<1>1. CASE ClearSystem
  BY <1>1 DEF ClearSystem
<1>2. CASE ResetSystems
  BY <1>2 DEF ResetSystems
<1>3. CASE StartUp
  BY <1>3 DEF StartUp
<1>4. QED
  BY <1>1, <1>2, <1>3 DEF Reinitialize

\* Interrupts keep it, as long as none hits a race window.
LEMMA InterruptRest ==
    ASSUME SysOK, FlagsOK, ControlOK, RestInv,
           Stepper \/ Signals, ~RaceWindows
    PROVE  RestInv'
<1> USE DEF SysOK, FlagsOK, ControlOK
<1>1. CASE RxReset
  <2>1. AbortSeen'
    BY <1>1
       DEF RxReset, Signal, McReset, MotionToKill, MayKill,
           InRaceWindow, AboutToMove
  <2>2. MainUnsuspended'
    BY <1>1
       DEF RxReset, Signal, McReset, MotionToKill, MayKill,
           InRaceWindow, AboutToMove
  <2>3. AlarmResets'
    BY <1>1
       DEF RxReset, Signal, McReset, MotionToKill, MayKill,
           InRaceWindow, AboutToMove
  <2>4. StartUndisturbed'
    BY <1>1
       DEF RxReset, Signal, McReset, MotionToKill, MayKill,
           InRaceWindow, AboutToMove
  <2>5. JogUndisturbed'
    BY <1>1
       DEF RxReset, Signal, McReset, MotionToKill, MayKill,
           InRaceWindow, AboutToMove
  <2>6. QuietStill'
    BY <1>1
       DEF RxReset, Signal, McReset, MotionToKill, MayKill,
           InRaceWindow, AboutToMove
  <2>7. StopStill'
    BY <1>1
       DEF RxReset, Signal, McReset, MotionToKill, MayKill,
           InRaceWindow, AboutToMove
  <2>8. SteppingControlled'
    BY <1>1
       DEF RxReset, Signal, McReset, MotionToKill, MayKill,
           InRaceWindow, AboutToMove
  <2>9. CancelOfJog'
    BY <1>1
       DEF RxReset, Signal, McReset, MotionToKill, MayKill,
           InRaceWindow, AboutToMove
  <2>10. SleepFromRest'
    BY <1>1
       DEF RxReset, Signal, McReset, MotionToKill, MayKill,
           InRaceWindow, AboutToMove
  <2>11. Retraction'
    BY <1>1
       DEF RxReset, Signal, McReset, MotionToKill, MayKill,
           InRaceWindow, AboutToMove
  <2>12. AlarmIdle'
    BY <1>1
       DEF RxReset, Signal, McReset, MotionToKill, MayKill,
           InRaceWindow, AboutToMove
  <2>13. Reinitialized'
    BY <1>1
       DEF RxReset, Signal, McReset, MotionToKill, MayKill,
           InRaceWindow, AboutToMove
  <2>14. LossKept'
    BY <1>1
       DEF RxReset, Signal, McReset, MotionToKill, MayKill,
           InRaceWindow, AboutToMove
  <2>15. RetractedSpindleOff'
    BY <1>1
       DEF RxReset, Signal, McReset, MotionToKill, MayKill,
           InRaceWindow, AboutToMove
  <2>16. QED
    BY <2>1, <2>2, <2>3, <2>4, <2>5, <2>6, <2>7, <2>8, <2>9, <2>10, <2>11,
       <2>12, <2>13, <2>14, <2>15
<1>2. CASE RxSpindleStop
  BY <1>2 DEF RxSpindleStop, Signal
<1>3. CASE LimitSwitch
  <2>1. AbortSeen'
    BY <1>3
       DEF LimitSwitch, Signal, MotionToKill, MayKill, InRaceWindow,
           AboutToMove
  <2>2. MainUnsuspended'
    BY <1>3
       DEF LimitSwitch, Signal, MotionToKill, MayKill, InRaceWindow,
           AboutToMove
  <2>3. AlarmResets'
    BY <1>3
       DEF LimitSwitch, Signal, MotionToKill, MayKill, InRaceWindow,
           AboutToMove
  <2>4. StartUndisturbed'
    BY <1>3
       DEF LimitSwitch, Signal, MotionToKill, MayKill, InRaceWindow,
           AboutToMove
  <2>5. JogUndisturbed'
    BY <1>3
       DEF LimitSwitch, Signal, MotionToKill, MayKill, InRaceWindow,
           AboutToMove
  <2>6. QuietStill'
    BY <1>3
       DEF LimitSwitch, Signal, MotionToKill, MayKill, InRaceWindow,
           AboutToMove
  <2>7. StopStill'
    BY <1>3
       DEF LimitSwitch, Signal, MotionToKill, MayKill, InRaceWindow,
           AboutToMove
  <2>8. SteppingControlled'
    BY <1>3
       DEF LimitSwitch, Signal, MotionToKill, MayKill, InRaceWindow,
           AboutToMove
  <2>9. CancelOfJog'
    BY <1>3
       DEF LimitSwitch, Signal, MotionToKill, MayKill, InRaceWindow,
           AboutToMove
  <2>10. SleepFromRest'
    BY <1>3
       DEF LimitSwitch, Signal, MotionToKill, MayKill, InRaceWindow,
           AboutToMove
  <2>11. Retraction'
    BY <1>3
       DEF LimitSwitch, Signal, MotionToKill, MayKill, InRaceWindow,
           AboutToMove
  <2>12. AlarmIdle'
    BY <1>3
       DEF LimitSwitch, Signal, MotionToKill, MayKill, InRaceWindow,
           AboutToMove
  <2>13. Reinitialized'
    BY <1>3
       DEF LimitSwitch, Signal, MotionToKill, MayKill, InRaceWindow,
           AboutToMove
  <2>14. LossKept'
    BY <1>3
       DEF LimitSwitch, Signal, MotionToKill, MayKill, InRaceWindow,
           AboutToMove
  <2>15. RetractedSpindleOff'
    BY <1>3
       DEF LimitSwitch, Signal, MotionToKill, MayKill, InRaceWindow,
           AboutToMove
  <2>16. QED
    BY <2>1, <2>2, <2>3, <2>4, <2>5, <2>6, <2>7, <2>8, <2>9, <2>10, <2>11,
       <2>12, <2>13, <2>14, <2>15
<1>4. CASE StepSegment
  BY <1>4 DEF StepSegment
<1>5. CASE StepsDone
  BY <1>5 DEF StepsDone
<1>6. ASSUME NEW c \in {"FEED_HOLD", "CYCLE_START", "SAFETY_DOOR",
                        "JOG_CANCEL"},
             RxFlag(c)
      PROVE  RestInv'
  BY <1>6 DEF RxFlag, Signal
<1>7. QED
  BY <1>1, <1>2, <1>3, <1>4, <1>5, <1>6 DEF Stepper, Signals

\* A line that arrives keeps it.
LEMMA EndOfLineRest ==
    ASSUME SysOK, FlagsOK, ControlOK, RestInv,
           NEW l \in Lines, EndOfLine(l)
    PROVE  RestInv'
BY DEF SysOK, FlagsOK, ControlOK, EndOfLine, Execute

-----------------------------------------------------------------------------
(* Every step keeps DoorInv.                                               *)

USE DEF DoorInv, StartCopied, RestoreAsked, InDelay, DelayInRestore,
        DoorStartAsked, Ajar, Restoring

\* Every step of a pass keeps the invariant, ...
LEMMA ExecRtSystemDoor ==
    ASSUME SysOK, FlagsOK, ControlOK, RestInv, DoorInv, ExecRtSystem
    PROVE  DoorInv'
<1> USE DEF SysOK, FlagsOK, ControlOK
<1>1. CASE ReadAlarm
  BY <1>1 DEF ReadAlarm, Alarms, NoAlarm
<1>2. CASE EnterAlarm
  BY <1>2 DEF EnterAlarm, Critical
<1>3. CASE LeaveCritical
  BY <1>3 DEF LeaveCritical
<1>4. CASE ClearAlarm
  BY <1>4 DEF ClearAlarm
<1>5. CASE Snapshot
    BY <1>5 DEF Snapshot, ReturnTo, FirstService, AfterHold, AfterStart,
         VoidsResume
<1>6. CASE Hold
  <2>1. StartCopied'
    BY <1>6
       DEF Hold, SuspendOnHold, SuspendOnDoor, StateOnDoor,
           StateOnFeedHold, StartsHold, Reopen, HoldsAllowed
  <2>2. RestoreAsked'
    BY <1>6
       DEF Hold, SuspendOnHold, SuspendOnDoor, StateOnDoor,
           StateOnFeedHold, StartsHold, Reopen, HoldsAllowed
  <2>3. DelayInRestore'
    BY <1>6
       DEF Hold, SuspendOnHold, SuspendOnDoor, StateOnDoor,
           StateOnFeedHold, StartsHold, Reopen, HoldsAllowed
  <2>4. DoorStartAsked'
    BY <1>6
       DEF Hold, SuspendOnHold, SuspendOnDoor, StateOnDoor,
           StateOnFeedHold, StartsHold, Reopen, HoldsAllowed
  <2>5. QED
    BY <2>1, <2>2, <2>3, <2>4
<1>7. CASE HoldClear
  BY <1>7 DEF HoldClear, AfterHold, AfterStart
<1>8. CASE StartIgnored
  BY <1>8 DEF StartIgnored, StartClearNext
<1>9. CASE StartRestore
  BY <1>9 DEF StartRestore, StartClearNext, DoorClosed
<1>10. CASE StartSpindleFirst
  BY <1>10 DEF StartSpindleFirst, StartClearNext, MayStart
<1>11. CASE StartCycle
  BY <1>11 DEF StartCycle, DoorRestored, DoorClosed, MayStart
<1>12. CASE EnterCycle
  BY <1>12 DEF EnterCycle, Prep
<1>13. CASE WakeUp
  BY <1>13 DEF WakeUp
<1>14. CASE StartClear
  BY <1>14 DEF StartClear, AfterStart, HandedOver
<1>15. CASE Stop
  <2>1. StartCopied'
    BY <1>15 DEF Stop, StopInHold, StopMotion, StopKeepsHold
  <2>2. RestoreAsked'
    BY <1>15 DEF Stop, StopInHold, StopMotion, StopKeepsHold
  <2>3. DelayInRestore'
    BY <1>15 DEF Stop, StopInHold, StopMotion, StopKeepsHold
  <2>4. DoorStartAsked'
    BY <1>15 DEF Stop, StopInHold, StopMotion, StopKeepsHold
  <2>5. QED
    BY <2>1, <2>2, <2>3, <2>4
<1>16. CASE StopClear
  BY <1>16 DEF StopClear
<1>17. CASE Finish
  BY <1>17 DEF Finish, SpindleOverride, ReturnTo, Prep
<1>18. QED
  BY <1>1, <1>2, <1>3, <1>4, <1>5, <1>6, <1>7, <1>8, <1>9, <1>10, <1>11,
     <1>12, <1>13, <1>14, <1>15, <1>16, <1>17 DEF ExecRtSystem

\* ... so does every step of the suspend loop, ...
LEMMA ExecRtSuspendDoor ==
    ASSUME SysOK, FlagsOK, ControlOK, RestInv, DoorInv, ExecRtSuspend
    PROVE  DoorInv'
<1> USE DEF SysOK, FlagsOK, ControlOK
<1>1. CASE SuspendEnd
  BY <1>1 DEF SuspendEnd, Suspended, HoldDone, Parking, Retracted
<1>2. CASE SuspendWait
  BY <1>2 DEF SuspendWait, ExecSystem, Suspended, HoldDone, Parking, Retracted
<1>3. CASE Retract
  BY <1>3 DEF Retract, ExecSystem, Suspended, HoldDone, Parking, Retracted
<1>4. CASE FallAsleep
  BY <1>4 DEF FallAsleep, ExecSystem, Suspended, HoldDone, Parking, Retracted
<1>5. CASE DoorWait
  BY <1>5 DEF DoorWait, ExecSystem, Suspended, HoldDone, Parking, Retracted
<1>6. CASE RestoreSpindle
    BY <1>6 DEF RestoreSpindle, ExecSystem, Suspended, HoldDone, Parking,
         Retracted
<1>7. CASE RestoreDone
  BY <1>7 DEF RestoreDone, ExecSystem, Suspended, HoldDone, Parking, Retracted
<1>8. CASE HoldManager
    BY <1>8 DEF HoldManager, ExecSystem, StopSpindle, RestartSpindle,
         LeaveSpindle, Suspended, HoldDone, Parking, Retracted
<1>9. QED
  BY <1>1, <1>2, <1>3, <1>4, <1>5, <1>6, <1>7, <1>8 DEF ExecRtSuspend

\* ... of the main loop ...
LEMMA MainLoopDoor ==
    ASSUME SysOK, FlagsOK, ControlOK, RestInv, DoorInv,
           MainLoop
    PROVE  DoorInv'
<1> USE DEF SysOK, FlagsOK, ControlOK
<1>1. CASE NoLine
  BY <1>1 DEF NoLine, AutoCycleStart, Execute
<1>2. CASE LoopReturned
  BY <1>2 DEF LoopReturned
<1>3. CASE LineIgnored
  BY <1>3 DEF LineIgnored, AtMain
<1>4. CASE QueueMotion
  BY <1>4 DEF QueueMotion, Refused, Idles, GcodeLine, Execute
<1>5. CASE Synchronize
  BY <1>5 DEF Synchronize, Refused, Idles, GcodeLine, AutoCycleStart, Execute
<1>6. CASE SpindleInCheckMode
  BY <1>6 DEF SpindleInCheckMode, AtMain
<1>7. CASE Unlock
  BY <1>7 DEF Unlock, AtMain, Refused
<1>8. CASE SleepLine
  BY <1>8 DEF SleepLine, AtMain, Refused
<1>9. CASE CheckLine
  BY <1>9 DEF CheckLine, AtMain, McReset, MotionToKill, Refused
<1>10. CASE MotionAborted
  BY <1>10 DEF MotionAborted, AfterMotion
<1>11. CASE MotionWaits
  BY <1>11 DEF MotionWaits, AutoCycleStart, Execute
<1>12. CASE MotionPlanned
  BY <1>12 DEF MotionPlanned, AfterMotion
<1>13. CASE JogStart
  BY <1>13 DEF JogStart, Prep
<1>14. CASE SyncWaits
  BY <1>14 DEF SyncWaits, Execute
<1>15. CASE Dwell
  BY <1>15 DEF Dwell, AtMain, Execute, Synchronized
<1>16. CASE Pause
  BY <1>16 DEF Pause, AtMain, Execute, Synchronized
<1>17. CASE SetSpindle
  BY <1>17 DEF SetSpindle, AtMain, Synchronized
<1>18. CASE LineReturned
  BY <1>18 DEF LineReturned, AtMain, Execute
<1>19. QED
  BY <1>1, <1>2, <1>3, <1>4, <1>5, <1>6, <1>7, <1>8, <1>9, <1>10, <1>11,
     <1>12, <1>13, <1>14, <1>15, <1>16, <1>17, <1>18 DEF MainLoop

\* ... and of the reinitialisation.
LEMMA ReinitializeDoor ==
    ASSUME SysOK, FlagsOK, ControlOK, RestInv, DoorInv,
           Reinitialize
    PROVE  DoorInv'
<1> USE DEF SysOK, FlagsOK, ControlOK
<1>1. CASE ClearSystem
  BY <1>1 DEF ClearSystem
<1>2. CASE ResetSystems
  BY <1>2 DEF ResetSystems
<1>3. CASE StartUp
  BY <1>3 DEF StartUp
<1>4. QED
  BY <1>1, <1>2, <1>3 DEF Reinitialize

\* Interrupts keep it, as long as none hits a race window.
LEMMA InterruptDoor ==
    ASSUME SysOK, FlagsOK, ControlOK, RestInv, DoorInv,
           Stepper \/ Signals, ~RaceWindows
    PROVE  DoorInv'
<1> USE DEF SysOK, FlagsOK, ControlOK
<1>1. CASE RxReset
  BY <1>1
     DEF RxReset, Signal, McReset, MotionToKill, MayKill, InRaceWindow,
         AboutToMove
<1>2. CASE RxSpindleStop
  BY <1>2 DEF RxSpindleStop, Signal
<1>3. CASE LimitSwitch
  BY <1>3
     DEF LimitSwitch, Signal, MotionToKill, MayKill, InRaceWindow,
         AboutToMove
<1>4. CASE StepSegment
  BY <1>4 DEF StepSegment
<1>5. CASE StepsDone
  BY <1>5 DEF StepsDone
<1>6. ASSUME NEW c \in {"FEED_HOLD", "CYCLE_START", "SAFETY_DOOR",
                        "JOG_CANCEL"},
             RxFlag(c)
      PROVE  DoorInv'
  BY <1>6 DEF RxFlag, Signal
<1>7. QED
  BY <1>1, <1>2, <1>3, <1>4, <1>5, <1>6 DEF Stepper, Signals

\* A line that arrives keeps it.
LEMMA EndOfLineDoor ==
    ASSUME SysOK, FlagsOK, ControlOK, RestInv, DoorInv,
           NEW l \in Lines, EndOfLine(l)
    PROVE  DoorInv'
BY DEF SysOK, FlagsOK, ControlOK, EndOfLine, Execute

-----------------------------------------------------------------------------
(* Every step keeps RaceInv, if the host starts no jog.                    *)

HIDE DEF RestInv, DoorInv
USE DEF RaceInv, NoJog, AlarmReset, RestingStill, StopServed, ClosedHeld,
        FreshSystem, AlarmServed, Resting, FreshPass, MotionQueued

\* Every step of a pass keeps the invariant, ...
LEMMA ExecRtSystemRace ==
    ASSUME SysOK, FlagsOK, ControlOK, RaceInv, ExecRtSystem PROVE RaceInv'
<1> USE DEF SysOK, FlagsOK, ControlOK
<1>1. CASE ReadAlarm
  BY <1>1 DEF ReadAlarm, Alarms, NoAlarm
<1>2. CASE EnterAlarm
  BY <1>2 DEF EnterAlarm, Critical
<1>3. CASE LeaveCritical
  BY <1>3 DEF LeaveCritical
<1>4. CASE ClearAlarm
  BY <1>4 DEF ClearAlarm
<1>5. CASE Snapshot
    BY <1>5 DEF Snapshot, ReturnTo, FirstService, AfterHold, AfterStart,
         VoidsResume
<1>6. CASE Hold
  BY <1>6
     DEF Hold, SuspendOnHold, SuspendOnDoor, StateOnDoor, StateOnFeedHold,
         StartsHold, Reopen, HoldsAllowed
<1>7. CASE HoldClear
  BY <1>7 DEF HoldClear, AfterHold, AfterStart
<1>8. CASE StartIgnored
  BY <1>8 DEF StartIgnored, StartClearNext
<1>9. CASE StartRestore
  BY <1>9 DEF StartRestore, StartClearNext, DoorClosed
<1>10. CASE StartSpindleFirst
  BY <1>10 DEF StartSpindleFirst, StartClearNext, MayStart
<1>11. CASE StartCycle
  BY <1>11 DEF StartCycle, DoorRestored, DoorClosed, MayStart
<1>12. CASE EnterCycle
  BY <1>12 DEF EnterCycle, Prep
<1>13. CASE WakeUp
  BY <1>13 DEF WakeUp
<1>14. CASE StartClear
  BY <1>14 DEF StartClear, AfterStart, HandedOver
<1>15. CASE Stop
  BY <1>15 DEF Stop, StopInHold, StopMotion, StopKeepsHold
<1>16. CASE StopClear
  BY <1>16 DEF StopClear
<1>17. CASE Finish
  BY <1>17 DEF Finish, SpindleOverride, ReturnTo, Prep
<1>18. QED
  BY <1>1, <1>2, <1>3, <1>4, <1>5, <1>6, <1>7, <1>8, <1>9, <1>10, <1>11,
     <1>12, <1>13, <1>14, <1>15, <1>16, <1>17 DEF ExecRtSystem

\* ... so does every step of the suspend loop, ...
LEMMA ExecRtSuspendRace ==
    ASSUME SysOK, FlagsOK, ControlOK, RaceInv, ExecRtSuspend PROVE RaceInv'
<1> USE DEF SysOK, FlagsOK, ControlOK
<1>1. CASE SuspendEnd
  BY <1>1 DEF SuspendEnd, Suspended, HoldDone, Parking, Retracted
<1>2. CASE SuspendWait
  BY <1>2 DEF SuspendWait, ExecSystem, Suspended, HoldDone, Parking, Retracted
<1>3. CASE Retract
  BY <1>3 DEF Retract, ExecSystem, Suspended, HoldDone, Parking, Retracted
<1>4. CASE FallAsleep
  BY <1>4 DEF FallAsleep, ExecSystem, Suspended, HoldDone, Parking, Retracted
<1>5. CASE DoorWait
  BY <1>5 DEF DoorWait, ExecSystem, Suspended, HoldDone, Parking, Retracted
<1>6. CASE RestoreSpindle
    BY <1>6 DEF RestoreSpindle, ExecSystem, Suspended, HoldDone, Parking,
         Retracted
<1>7. CASE RestoreDone
  BY <1>7 DEF RestoreDone, ExecSystem, Suspended, HoldDone, Parking, Retracted
<1>8. CASE HoldManager
    BY <1>8 DEF HoldManager, ExecSystem, StopSpindle, RestartSpindle,
         LeaveSpindle, Suspended, HoldDone, Parking, Retracted
<1>9. QED
  BY <1>1, <1>2, <1>3, <1>4, <1>5, <1>6, <1>7, <1>8 DEF ExecRtSuspend

\* ... of the main loop ...
LEMMA MainLoopRace ==
    ASSUME SysOK, FlagsOK, ControlOK, RaceInv, MainLoop PROVE RaceInv'
<1> USE DEF SysOK, FlagsOK, ControlOK
<1>1. CASE NoLine
  BY <1>1 DEF NoLine, AutoCycleStart, Execute
<1>2. CASE LoopReturned
  BY <1>2 DEF LoopReturned
<1>3. CASE LineIgnored
  BY <1>3 DEF LineIgnored, AtMain
<1>4. CASE QueueMotion
  BY <1>4 DEF QueueMotion, Refused, Idles, GcodeLine, Execute
<1>5. CASE Synchronize
  BY <1>5 DEF Synchronize, Refused, Idles, GcodeLine, AutoCycleStart, Execute
<1>6. CASE SpindleInCheckMode
  BY <1>6 DEF SpindleInCheckMode, AtMain
<1>7. CASE Unlock
  BY <1>7 DEF Unlock, AtMain, Refused
<1>8. CASE SleepLine
  BY <1>8 DEF SleepLine, AtMain, Refused
<1>9. CASE CheckLine
  BY <1>9 DEF CheckLine, AtMain, McReset, MotionToKill, Refused
<1>10. CASE MotionAborted
  BY <1>10 DEF MotionAborted, AfterMotion
<1>11. CASE MotionWaits
  BY <1>11 DEF MotionWaits, AutoCycleStart, Execute
<1>12. CASE MotionPlanned
  BY <1>12 DEF MotionPlanned, AfterMotion
<1>13. CASE JogStart
  BY <1>13 DEF JogStart, Prep
<1>14. CASE SyncWaits
  BY <1>14 DEF SyncWaits, Execute
<1>15. CASE Dwell
  BY <1>15 DEF Dwell, AtMain, Execute, Synchronized
<1>16. CASE Pause
  BY <1>16 DEF Pause, AtMain, Execute, Synchronized
<1>17. CASE SetSpindle
  BY <1>17 DEF SetSpindle, AtMain, Synchronized
<1>18. CASE LineReturned
  BY <1>18 DEF LineReturned, AtMain, Execute
<1>19. QED
  BY <1>1, <1>2, <1>3, <1>4, <1>5, <1>6, <1>7, <1>8, <1>9, <1>10, <1>11,
     <1>12, <1>13, <1>14, <1>15, <1>16, <1>17, <1>18 DEF MainLoop

\* ... and of the reinitialisation.
LEMMA ReinitializeRace ==
    ASSUME SysOK, FlagsOK, ControlOK, RaceInv, Reinitialize PROVE RaceInv'
<1> USE DEF SysOK, FlagsOK, ControlOK
<1>1. CASE ClearSystem
  BY <1>1 DEF ClearSystem
<1>2. CASE ResetSystems
  BY <1>2 DEF ResetSystems
<1>3. CASE StartUp
  BY <1>3 DEF StartUp
<1>4. QED
  BY <1>1, <1>2, <1>3 DEF Reinitialize

\* Interrupts keep it, at whatever moment they come.
LEMMA InterruptRace ==
    ASSUME SysOK, FlagsOK, ControlOK, RaceInv,
           Stepper \/ Signals, "jog" \notin Lines
    PROVE  RaceInv'
<1> USE DEF SysOK, FlagsOK, ControlOK
<1>1. CASE RxReset
  <2>1. stepping' => stepping
    BY <1>1, Zenon DEF RxReset, McReset
  <2>2. /\ "CYCLE_STOP" \in rtState' <=> "CYCLE_STOP" \in rtState
        /\ "RESET" \in rtState => "RESET" \in rtState'
        /\ UNCHANGED <<sys, control, planned>>
    BY <1>1 DEF RxReset, McReset
  <2>3. /\ Resting' => Resting
        /\ FreshPass <=> FreshPass'
        /\ ResetPending => ResetPending'
    BY <2>2
  <2>4. AbortSeen'
    BY <1>1
       DEF RxReset, Signal, McReset, MotionToKill, MayKill,
           InRaceWindow, AboutToMove
  <2>5. MainUnsuspended'
    BY <1>1
       DEF RxReset, Signal, McReset, MotionToKill, MayKill,
           InRaceWindow, AboutToMove
  <2>6. NoJog'
    BY <1>1
       DEF RxReset, Signal, McReset, MotionToKill, MayKill,
           InRaceWindow, AboutToMove
  <2>7. AlarmReset'
    BY <1>1
       DEF RxReset, Signal, McReset, MotionToKill, MayKill,
           InRaceWindow, AboutToMove
  <2>8. RestingStill'
    BY <2>1, <2>2, <2>3
  <2>9. StopServed'
    BY <2>1, <2>2, <2>3
  <2>10. ClosedHeld'
    BY <1>1
       DEF RxReset, Signal, McReset, MotionToKill, MayKill,
           InRaceWindow, AboutToMove
  <2>11. FreshSystem'
    BY <1>1
       DEF RxReset, Signal, McReset, MotionToKill, MayKill,
           InRaceWindow, AboutToMove
  <2>12. QED
    BY <2>4, <2>5, <2>6, <2>7, <2>8, <2>9, <2>10, <2>11
<1>2. CASE RxSpindleStop
  BY <1>2 DEF RxSpindleStop, Signal
<1>3. CASE LimitSwitch
  <2>1. stepping' => stepping
    BY <1>3, Zenon DEF LimitSwitch, McReset
  <2>2. /\ "CYCLE_STOP" \in rtState' <=> "CYCLE_STOP" \in rtState
        /\ "RESET" \in rtState => "RESET" \in rtState'
        /\ UNCHANGED <<sys, control, planned>>
    BY <1>3 DEF LimitSwitch, McReset
  <2>3. /\ Resting' => Resting
        /\ FreshPass <=> FreshPass'
        /\ ResetPending => ResetPending'
    BY <2>2
  <2>4. AbortSeen'
    BY <1>3
       DEF LimitSwitch, Signal, MotionToKill, MayKill, InRaceWindow,
           AboutToMove
  <2>5. MainUnsuspended'
    BY <1>3
       DEF LimitSwitch, Signal, MotionToKill, MayKill, InRaceWindow,
           AboutToMove
  <2>6. NoJog'
    BY <1>3
       DEF LimitSwitch, Signal, MotionToKill, MayKill, InRaceWindow,
           AboutToMove
  <2>7. AlarmReset'
    BY <1>3
       DEF LimitSwitch, Signal, MotionToKill, MayKill, InRaceWindow,
           AboutToMove
  <2>8. RestingStill'
    BY <2>1, <2>2, <2>3
  <2>9. StopServed'
    BY <2>1, <2>2, <2>3
  <2>10. ClosedHeld'
    BY <1>3
       DEF LimitSwitch, Signal, MotionToKill, MayKill, InRaceWindow,
           AboutToMove
  <2>11. FreshSystem'
    BY <1>3
       DEF LimitSwitch, Signal, MotionToKill, MayKill, InRaceWindow,
           AboutToMove
  <2>12. QED
    BY <2>4, <2>5, <2>6, <2>7, <2>8, <2>9, <2>10, <2>11
<1>4. CASE StepSegment
  BY <1>4 DEF StepSegment
<1>5. CASE StepsDone
  BY <1>5 DEF StepsDone
<1>6. ASSUME NEW c \in {"FEED_HOLD", "CYCLE_START", "SAFETY_DOOR",
                        "JOG_CANCEL"},
             RxFlag(c)
      PROVE  RaceInv'
  BY <1>6 DEF RxFlag, Signal
<1>7. QED
  BY <1>1, <1>2, <1>3, <1>4, <1>5, <1>6 DEF Stepper, Signals

\* A line that arrives keeps it.
LEMMA EndOfLineRace ==
    ASSUME SysOK, FlagsOK, ControlOK, RaceInv,
           NEW l \in Lines, EndOfLine(l), "jog" \notin Lines
    PROVE  RaceInv'
BY DEF SysOK, FlagsOK, ControlOK, EndOfLine, Execute

-----------------------------------------------------------------------------
(* What the invariants say of a step.                                      *)

HIDE DEF RaceInv
USE DEF RestInv, DoorInv

\* The steps that change the state or sys.suspend, and the ones that do not.
LEMMA StepsThatMatter ==
    ASSUME [Next]_vars
    PROVE  \/ EnterAlarm \/ Hold \/ StartRestore \/ StartCycle \/ EnterCycle
           \/ Stop \/ Retract \/ DoorWait \/ RestoreSpindle \/ RestoreDone
           \/ Unlock \/ CheckLine \/ JogStart \/ ClearSystem \/ StartUp
           \/ UNCHANGED <<state, suspend>>
<1>1. CASE ExecRtSystem
  BY <1>1
     DEF ExecRtSystem, ReadAlarm, LeaveCritical, ClearAlarm, Snapshot,
         HoldClear, StartIgnored, StartSpindleFirst, WakeUp, StartClear,
         StopClear, Finish, StartClearNext
<1>2. CASE ExecRtSuspend
  BY <1>2
     DEF ExecRtSuspend, SuspendEnd, SuspendWait, FallAsleep, HoldManager
<1>3. CASE MainLoop
  BY <1>3
     DEF MainLoop, NoLine, LoopReturned, LineIgnored, QueueMotion, Synchronize,
         SpindleInCheckMode, SleepLine, MotionAborted, MotionWaits,
         MotionPlanned, SyncWaits, Dwell, Pause, SetSpindle, LineReturned
<1>4. CASE Reinitialize
  BY <1>4 DEF Reinitialize, ResetSystems
<1>5. CASE Stepper \/ Signals \/ \E l \in Lines : EndOfLine(l)
  BY <1>5
     DEF Stepper, StepSegment, StepsDone, Signals, RxReset, RxFlag,
         RxSpindleStop, LimitSwitch, EndOfLine
<1>6. CASE UNCHANGED vars
  BY <1>6 DEF vars
<1>7. QED
  BY <1>1, <1>2, <1>3, <1>4, <1>5, <1>6 DEF Next, Main

\* ALARM and SLEEP are left as LocksHold says: no cycle stop is served in
\* them, and no cycle is about to start.
LEMMA LockStep ==
    ASSUME RestInv, [Next]_vars
    PROVE  /\ state = "ALARM"
                => state' \in {"ALARM", "SLEEP"} \/ pc = "dispatch"
           /\ state = "SLEEP" => state' \in {"SLEEP", "ALARM"}
<1>1. CASE Hold
  BY <1>1 DEF Hold, HoldsAllowed, StateOnFeedHold, StateOnDoor
<1>2. CASE StartCycle \/ EnterCycle
  BY <1>2 DEF StartCycle, EnterCycle, DoorRestored, DoorClosed, MayStart
<1>3. CASE Stop
  BY <1>3 DEF Stop
<1>4. CASE EnterAlarm \/ StartRestore \/ Retract \/ DoorWait
           \/ RestoreSpindle \/ RestoreDone \/ ClearSystem \/ StartUp
  BY <1>4
     DEF EnterAlarm, StartRestore, Retract, DoorWait, RestoreSpindle,
         RestoreDone, ClearSystem, StartUp
<1>5. CASE Unlock \/ CheckLine \/ JogStart
  BY <1>5 DEF Unlock, CheckLine, Refused, JogStart
<1>6. CASE UNCHANGED <<state, suspend>>
  BY <1>6
<1>7. QED
  BY <1>1, <1>2, <1>3, <1>4, <1>5, <1>6, StepsThatMatter

\* The only step that ends the cancelling of a jog without an abort is the
\* one that flushes it.
LEMMA FlushStep ==
    ASSUME RestInv, [Next]_vars
    PROVE  "JOG_CANCEL" \in suspend /\ "JOG_CANCEL" \notin suspend' /\ ~abort
             => planned' = 0 /\ segs' = 0
<1> SUFFICES ASSUME "JOG_CANCEL" \in suspend, "JOG_CANCEL" \notin suspend',
                    ~abort
             PROVE  planned' = 0 /\ segs' = 0
  OBVIOUS
<1>1. CASE Stop
  BY <1>1 DEF Stop, StopInHold, StopMotion, StopKeepsHold
<1>2. CASE Hold
  BY <1>2 DEF Hold, SuspendOnHold, SuspendOnDoor, Reopen
<1>3. CASE StartCycle \/ EnterCycle
  BY <1>3 DEF StartCycle, EnterCycle, DoorRestored, DoorClosed, MayStart
<1>4. CASE EnterAlarm \/ StartRestore \/ Retract \/ DoorWait
           \/ RestoreSpindle \/ RestoreDone \/ ClearSystem \/ StartUp
  BY <1>4
     DEF EnterAlarm, StartRestore, Retract, DoorWait, RestoreSpindle,
         RestoreDone, ClearSystem, StartUp
<1>5. CASE Unlock \/ CheckLine \/ JogStart
  BY <1>5 DEF Unlock, CheckLine, JogStart
<1>6. CASE UNCHANGED <<state, suspend>>
  BY <1>6
<1>7. QED
  BY <1>1, <1>2, <1>3, <1>4, <1>5, <1>6, StepsThatMatter

\* The door is left through a start that was asked for.
LEMMA DoorStep ==
    ASSUME RestInv, DoorInv, [Next]_vars
    PROVE  state = "DOOR" /\ state' \in {"IDLE", "CYCLE", "JOG"}
             => asked \/ pc = "start-up"
<1> SUFFICES ASSUME state = "DOOR", state' \in {"IDLE", "CYCLE", "JOG"}
             PROVE  asked \/ pc = "start-up"
  OBVIOUS
<1>1. CASE StartCycle
  BY <1>1 DEF StartCycle, DoorRestored, DoorClosed, MayStart
<1>2. CASE Stop
  BY <1>2 DEF Stop, StopInHold, StopMotion, StopKeepsHold
<1>3. CASE Hold
  BY <1>3 DEF Hold, StateOnFeedHold, StateOnDoor
<1>4. CASE EnterAlarm \/ EnterCycle \/ StartRestore \/ Retract \/ DoorWait
           \/ RestoreSpindle \/ RestoreDone \/ ClearSystem \/ StartUp
  BY <1>4
     DEF EnterAlarm, EnterCycle, StartRestore, Retract, DoorWait,
         RestoreSpindle, RestoreDone, ClearSystem, StartUp
<1>5. CASE Unlock \/ CheckLine \/ JogStart
  BY <1>5 DEF Unlock, CheckLine, Refused, JogStart
<1>6. CASE UNCHANGED <<state, suspend>>
  BY <1>6
<1>7. QED
  BY <1>1, <1>2, <1>3, <1>4, <1>5, <1>6, StepsThatMatter

-----------------------------------------------------------------------------
(* The theorems.                                                           *)

HIDE DEF RestInv, DoorInv

\* Every step keeps the invariant of the stops, ...
LEMMA RestStep ==
    ASSUME ~RaceWindows, TypeOK, RestInv, [Next]_vars PROVE RestInv'
<1> USE DEF TypeOK
<1>1. CASE Main
  BY <1>1, ExecRtSystemRest, ExecRtSuspendRest, MainLoopRest, ReinitializeRest
     DEF Main
<1>2. CASE Stepper \/ Signals
  BY <1>2, InterruptRest
<1>3. CASE \E l \in Lines : EndOfLine(l)
  BY <1>3, EndOfLineRest
<1>4. CASE UNCHANGED vars
  BY <1>4 DEF vars, RestInv, RetractedSpindleOff
<1>5. QED
  BY <1>1, <1>2, <1>3, <1>4 DEF Next

\* ... which holds when the machine is switched on.
LEMMA RestAlways == ASSUME ~RaceWindows PROVE Spec => []RestInv
<1>1. Init => RestInv
  BY DEF Init, RestInv
<1>2. TypeOK /\ RestInv /\ [Next]_vars => RestInv'
  BY RestStep
<1>3. QED
  BY <1>1, <1>2, TypeCorrect, PTL DEF Spec

\* Every step keeps the invariant of the door, too.
LEMMA DoorAlways == ASSUME ~RaceWindows PROVE Spec => []DoorInv
<1>1. Init => DoorInv
  BY DEF Init, DoorInv
<1>2. TypeOK /\ RestInv /\ DoorInv /\ [Next]_vars => DoorInv'
  <2> SUFFICES ASSUME TypeOK, RestInv, DoorInv, [Next]_vars PROVE DoorInv'
    OBVIOUS
  <2> USE DEF TypeOK
  <2>1. CASE Main
    BY <2>1, ExecRtSystemDoor, ExecRtSuspendDoor, MainLoopDoor,
       ReinitializeDoor
       DEF Main
  <2>2. CASE Stepper \/ Signals
    BY <2>2, InterruptDoor
  <2>3. CASE \E l \in Lines : EndOfLine(l)
    BY <2>3, EndOfLineDoor
  <2>4. CASE UNCHANGED vars
    BY <2>4 DEF vars, DoorInv
  <2>5. QED
    BY <2>1, <2>2, <2>3, <2>4 DEF Next
<1>3. QED
  BY <1>1, <1>2, TypeCorrect, RestAlways, PTL DEF Spec

\* So does it the invariant of a machine that does not jog.
LEMMA RaceAlways == ASSUME "jog" \notin Lines PROVE Spec => []RaceInv
<1>1. Init => RaceInv
  BY DEF Init, RaceInv
<1>2. TypeOK /\ RaceInv /\ [Next]_vars => RaceInv'
  <2> SUFFICES ASSUME TypeOK, RaceInv, [Next]_vars PROVE RaceInv'
    OBVIOUS
  <2> USE DEF TypeOK
  <2>1. CASE Main
    BY <2>1, ExecRtSystemRace, ExecRtSuspendRace, MainLoopRace,
       ReinitializeRace
       DEF Main
  <2>2. CASE Stepper \/ Signals
    BY <2>2, InterruptRace
  <2>3. CASE \E l \in Lines : EndOfLine(l)
    BY <2>3, EndOfLineRace
  <2>4. CASE UNCHANGED vars
    BY <2>4 DEF vars, RaceInv
  <2>5. QED
    BY <2>1, <2>2, <2>3, <2>4 DEF Next
<1>3. QED
  BY <1>1, <1>2, TypeCorrect, PTL DEF Spec

\* protocol.c, st_go_idle: a machine that says it is idle, or that its hold is
\* complete, has its stepper interrupt off, if it does not jog, or no reset
\* hits a race window.  (A reset while a jog line waits can start the jog of a
\* machine that is being held.)
THEOREM IdleStandsStill ==
    ASSUME ~RaceWindows \/ "jog" \notin Lines PROVE Spec => []AtRest
<1>1. CASE ~RaceWindows
  <2>1. RestInv => AtRest
    BY DEF RestInv, AtRest
  <2>2. QED
    BY <1>1, <2>1, RestAlways, PTL
<1>2. CASE "jog" \notin Lines
  <2>1. RaceInv => AtRest
    BY DEF RaceInv, AtRest
  <2>2. QED
    BY <1>2, <2>1, RaceAlways, PTL
<1>3. QED
  BY <1>1, <1>2

\* motion_control.c:362, protocol.c:220: if the steppers were cut with steps
\* left, the machine is locked once the reset has been served, and in the
\* critical alarm nothing moves.
THEOREM PositionNeverSilentlyLost ==
    ASSUME ~RaceWindows PROVE Spec => []PositionSafe
<1>1. RestInv => PositionSafe
  BY DEF RestInv, PositionSafe, PositionLossFlagged, CriticalStandsStill,
         Settled
<1>2. QED
  BY <1>1, RestAlways, PTL

\* protocol_exec_rt_suspend: a machine that is retracted behind the door, or
\* asleep, has its spindle off until the operator starts the restoring.
THEOREM SpindleOffBehindDoor ==
    ASSUME ~RaceWindows PROVE Spec => []RetractedSpindleOff
<1>1. RestInv => RetractedSpindleOff
  BY DEF RestInv
<1>2. QED
  BY <1>1, RestAlways, PTL

\* protocol_main_loop, system_execute_line: ALARM is left only by the unlock
\* line or for SLEEP, SLEEP only for ALARM, whatever resets come.
THEOREM LocksAlwaysHold == ASSUME ~RaceWindows PROVE Spec => LocksHold
<1>1. RestInv /\ [Next]_vars
        => [ /\ state = "ALARM"
                  => state' \in {"ALARM", "SLEEP"} \/ pc = "dispatch"
             /\ state = "SLEEP" => state' \in {"SLEEP", "ALARM"} ]_vars
  BY LockStep
<1>2. QED
  BY <1>1, RestAlways, PTL DEF Spec, LocksHold

\* protocol_exec_rt_system: when the cancelling of a jog is over, nothing of
\* the jog is left in the planner or in the segment ring.
THEOREM CancelledJogsFlushed ==
    ASSUME ~RaceWindows PROVE Spec => JogCancelFlushes
<1>1. RestInv /\ [Next]_vars
        => [ "JOG_CANCEL" \in suspend /\ "JOG_CANCEL" \notin suspend' /\ ~abort
               => planned' = 0 /\ segs' = 0 ]_vars
  BY FlushStep
<1>2. QED
  BY <1>1, RestAlways, PTL DEF Spec, JogCancelFlushes

\* protocol.c:333: the state of the open door is left only through the
\* operator's '~' or a reset, however often the door opens while the machine
\* is restored.
THEOREM DoorLeftOnRequest ==
    ASSUME ~RaceWindows PROVE Spec => DoorLeftWhenAsked
<1>1. RestInv /\ DoorInv /\ [Next]_vars
        => [ (state = "DOOR" /\ state' \in {"IDLE", "CYCLE", "JOG"})
               => asked \/ pc = "start-up" ]_vars
  BY DoorStep
<1>2. QED
  BY <1>1, RestAlways, DoorAlways, PTL DEF Spec, DoorLeftWhenAsked
=============================================================================
