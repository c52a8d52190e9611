# A formal model of the draw-bot firmware

The repository holds a pen-plotting robot ("draw-bot"): a fork of Grbl 1.1 that
runs on an ATmega328P (`src/FIRMWARE/grbl`) and the Processing application that
drives it over a serial line (`src/CONTROLLER/drawbot_app`). This directory
holds TLA+ modules translated from that code, TLC runs that check them on small
instances, and TLAPS proofs of the most important properties for every size.

All line numbers are those of the files under `src/`.

## 1. Inventory

### 1.1 The execution model

The firmware is **one main program and a handful of interrupt handlers**. The
main program is the loop of `main.c` around `protocol_main_loop`; everything it
does (reading lines, parsing, planning, suspending) runs in one thread that
calls `protocol_execute_realtime` at many places. Interrupt handlers do not call
into it: they talk to it through the receive and transmit rings and through bit
flags (`sys_rt_exec_state`, `sys_rt_exec_alarm`, `..._motion_override`,
`..._accessory_override`), which the main program copies and serves in
`protocol_exec_rt_system`. An abort (`sys.abort`) makes every nested call return
until `main` reinitialises everything except `sys.state` and the position.

Handlers run with interrupts disabled, hence atomically, with one exception: the
stepper interrupt re-enables interrupts (`stepper.c:328`).

### 1.2 Components

| component | state | operations | concurrency and failure | what makes it correct |
|---|---|---|---|---|
| **Serial driver** `serial.c` | two rings with head and tail, UDRIE0 | `serial_read`, `serial_write`, `serial_reset_read_buffer`, the counts, SERIAL_RX, SERIAL_UDRE | lock-free rings between the main program and two handlers; a reset empties the receive ring; characters may be lost when it is full | both rings are FIFOs; a character is dropped only when the ring is full; no byte is left behind, none is sent twice; `serial_write` returns |
| **Realtime state machine** `protocol.c`, `main.c` | `sys` (state, suspend, step_control, abort, spindle_stop_ovr), the flags | `protocol_main_loop`, `protocol_execute_realtime`, `protocol_exec_rt_system`, `protocol_exec_rt_suspend`, `protocol_buffer_synchronize`, `protocol_auto_cycle_start` | every flag may be raised between any two instructions; nested loops that each serve flags; reset at any moment | stops stop, locks lock, a hold is resumed only on request, the spindle is off behind the door, position loss is never forgotten, a reset is always served |
| **Motion control, jogging** `motion_control.c`, `jog.c` | none of their own | `mc_line`, `mc_arc`, `mc_dwell`, `mc_homing_cycle`, `mc_probe_cycle`, `mc_reset`, `jog_execute` | `mc_reset` is called from two handlers and from the main program | motion is queued only when there is room; a reset kills motion in progress and flags the loss |
| **Segment generator and stepper interrupts** `stepper.c` | block slots, segment ring, Bresenham counters, `busy` | `st_prep_buffer`, `st_wake_up`, `st_go_idle`, `st_reset`, TIMER1, TIMER0 | ring between main program and handler; a block slot is shared by several segments; nested interrupts | exactly the steps of every block are issued; a slot is not reused while a segment needs it |
| **Planner** `planner.c` | block ring (head, tail, next head), planned pointer | `plan_buffer_line`, `plan_discard_current_block`, `planner_recalculate`, ... | the block being executed must not be replanned | entry speeds are reachable; no block is skipped or planned twice |
| **System commands, flags** `system.c` | `sys`, the flags | the atomic setters, `$` lines, start-up lines, soft limits | read-modify-write of flags shared with handlers | state gates of the `$` commands |
| **Limits, homing** `limits.c` | axis lock, homing phases | the limit interrupt, `limits_go_home`, `limits_soft_check` | a second loop that serves the flags | an axis called homed is where it is counted; homing ends, and a failure leaves the lock on |
| **Probe** `probe.c` | `sys_probe_state` | `probe_state_monitor` in the stepper interrupt | unprotected update of the flags | the position of the contact is recorded once; the motion stops |
| **Spindle (servo), coolant** `spindle_control.c`, `coolant_control.c` | PWM output, coolant pin | set, stop, sync | set by lines, by the operator, by the door and by resets | pen up when the machine is retracted; the pin is what the modes say |
| **G-code parser** `gcode.c` | modal state, offsets, its own position | `gc_execute_line`, `gc_init`, `gc_sync_position` | waits inside statements; records that cannot be read | a line that is refused changes nothing but damaged records; parser, planner, EEPROM and outputs agree afterwards |
| **Settings, EEPROM** `settings.c`, `eeprom.c` | the EEPROM image, the settings in RAM | read, write, restore | power loss within a write | a record nobody is writing keeps its content; RAM and EEPROM agree |
| **Reports, formatting, delays** `report.c`, `print.c`, `nuts_bolts.c` | the counters of the status report | output, `delay_sec` | a delay serves flags; fields that come only now and then | changes are reported soon |
| **Controller application** `drawbot_app` | the drawing and the line it is at, the character window, time-outs | `serialRun`, `stream`, `draw`, the buttons | answers late, refusing or unexpected; pauses, resets | the streamed lines fit into the receive ring; the drawing is finished only when it is answered; the stream ends |

Vendored, generated and exported files (`cpu_map.h`, `defaults.h`, the archive of
the controller and the `application.*` directories exported from it) are configuration or copies.

### 1.3 Interaction

```
 host --bytes--> SERIAL_RX --ring--> main program --blocks--> planner
                    |                    |   ^                   |
                    | flags              |   | flags             v st_prep_buffer
                    v                    v   |              segment ring
              sys_rt_exec_*  <--- protocol_exec_rt_system        |
                    ^                                            v
   limit switch ----+------------------ EXEC_CYCLE_STOP ---- stepper interrupt
```

### 1.4 Build configuration

The modules translate the branches that `config.h` and `cpu_map.h` select:
`COREXY`, `VARIABLE_SPINDLE` driving a servo (the spindle's "stopped" is no
pulse, "low" its least pulse), `HOMING_INIT_LOCK`, `CHECK_LIMITS_AT_INIT`;
without `PARKING_ENABLE`, without `ENABLE_SAFETY_DOOR_INPUT_PIN` (the door is
requested by its realtime byte, and always looks closed). Sizes: receive ring 128,
transmit ring 104, `BLOCK_BUFFER_SIZE` 16, `SEGMENT_BUFFER_SIZE` 6.

## 2. Modules

| module | models | extends |
|---|---|---|
| `ByteQueue` | what a ring promises: a bounded FIFO that may drop a byte on a full queue and may be emptied | - |
| `Serial` | `serial.c`, both rings with their handlers; the abort's flush | - |
| `Realtime` | `protocol.c`, `mc_reset`, `mc_line`, `mc_dwell`, `jog_execute`, the limit and stepper handlers, the reinitialisation | - |
| `Planner` | `planner.c` and the velocity profile of `st_prep_buffer`; holds, overrides | - |
| `Stepper` | the segment ring, the block slots and the stepper interrupt of `stepper.c` | - |
| `Gcode` | `gcode.c`: modes, checks and what a line does; arcs, probes, jogs, records as they leave the parser | - |
| `Homing` | `limits.c`, `mc_homing_cycle`, `$H`, soft limits, CoreXY counting | - |
| `Settings` | `settings.c`, `eeprom.c` byte by byte, the commands that read and write records | - |
| `Overrides` | the overrides, coolant and status-report part of the realtime executor | - |
| `Streamer` | the controller's stream, window, buttons and time-outs, against a reduced firmware | - |
| `RealtimeProofs`, `PlannerProofs`, `OverridesProofs`, `GcodeProofs`, `HomingProofs`, `SettingsProofs`, `StepperProofs` | theorems | the module they are about, `TLAPS` |
| `LinkProofs` | theorems about both ends of the serial line | `Serial`, `Streamer`, `TLAPS` |
| `MCRealtime`, `MCStepper`, `MCGcode`, `MCHoming`, `MCSettings`, `MCOverrides`, `MCStreamer` | the sets of signals, lines, blocks and places of the runs | the module they instantiate |

The modules cut the firmware along the interfaces at which one part sees little
of another: `Realtime` counts segments and does not know speeds; `Planner` knows
speeds and no interrupts; `Stepper` counts steps for any speed; `Gcode` executes
a line to completion, because where a line waits is in `Realtime` and
`Overrides`; `Homing`, which never calls the realtime executor while it moves,
has its own loop and needs only the start of a pass. `Streamer` composes the
controller with as much of the firmware as it can see: the ring, the line
being executed, hold, alarm, motion and the answers.

### 2.1 `Serial`

A variable per shared variable of the code (`rxBuffer`, `rxHead`, `rxTail`,
`txBuffer`, `txHead`, `txTail`, `udrie`), the main program's locals (`data`,
`headCopy`) and its place (`pc`). A function of the main program is cut at every
access of shared memory a handler can come before: `serial_read` is
`ReadCheck; ReadData; ReadTail`, the flush of `main` is `FlushCopy; FlushStore`,
and `serial_write` stores its byte, its head and the interrupt enable in
separate steps. The two handlers are one action each. The counts are operators.
`delivered`, `rxLost`, `sent` and `drained` only observe.

`ByteQueue` is instantiated twice, with the contents of the ring read from tail
to head as its queue: `RxIsFifo` and `TxIsFifo` say that each ring implements it.

`LongInterrupt` says whether a handler may keep the main program stopped for
longer than a character takes to leave (about 87 us at 115200 baud). This build can: `st_go_idle`
waits for `stepper_idle_lock_time` inside the stepper interrupt.

### 2.2 `Realtime`

`pc` is the place of the main program, `caller` the loop that called
`protocol_exec_rt_system` (the statement itself, the suspend loop, a delay, the
sleep loop) and `task` the statement that called `protocol_execute_realtime`.
A pass of `protocol_exec_rt_system` is cut into steps wherever a handler that
runs there can change the outcome: the reading of the alarm, the copy of the
flags (`Snapshot`), each group of services, and each clearing of flags are
separate, so that a flag raised in between is either lost with its group, served
late or seen, exactly as in the code. Bit sets are sets of names.

| code | actions |
|---|---|
| alarm part of `protocol_exec_rt_system` | `ReadAlarm`, `EnterAlarm`, `LeaveCritical`, `ClearAlarm` |
| the copy and the abort | `Snapshot` |
| motion cancel, feed hold, door, sleep | `Hold`, `HoldClear` |
| cycle start | `StartIgnored`, `StartRestore`, `StartSpindleFirst`, `StartCycle`, `EnterCycle`, `WakeUp`, `StartClear` |
| cycle stop | `Stop` (`StopInHold` or `StopMotion`), `StopClear` |
| overrides, refill | `Finish` |
| `protocol_exec_rt_suspend` | `SuspendEnd`, `SuspendWait`, `Retract`, `FallAsleep`, `DoorWait`, `RestoreSpindle`, `RestoreDone`, `HoldManager` |
| `protocol_main_loop` and statements | `NoLine`, `EndOfLine`, `LoopReturned`, `LineIgnored`, `QueueMotion`, `Synchronize`, `Unlock`, `SleepLine`, `CheckLine`, ... |
| `main` | `ClearSystem`, `ResetSystems`, `StartUp` |
| handlers | `RxReset`, `RxFlag`, `RxSpindleStop`, `LimitSwitch`, `StepSegment`, `StepsDone` |

Motion is counted in step segments: `planned` still in the planner's blocks,
`segs` in the segment ring, `more` whether `st_prep_buffer` left work and
`stepping` whether the stepper interrupt is on. `st_prep_buffer` in a hold may
stop at any segment, since where the deceleration ends depends on speeds the
model leaves out. `asked` (has `~` come since the last hold?) and `lost` (were
the steppers cut with steps left?) only observe.

Two switches name assumptions. `Underrun`: may the stepper empty its ring while
`st_prep_buffer` has motion left? The code's timing is chosen so that it may
not; the runs do not need the assumption. `RaceWindows`: may a
reset or a limit switch hit the stretches of `InRaceWindow` - between the
reading of the alarm and the copy of the flags, between that copy and the start
of motion, while a jog is being started, and within the reinitialisation?
Section 3.3 says what the code does there; `rt_alarm` shows that
outside of them the locks hold.

### 2.3 `Planner`

The planner depends on a motion only through three things: the speed its rate
allows, the speed its junction with the motion before allows, and the squared
speed it can lose or gain on its length (`2*acceleration*millimeters`). The
model takes them from small sets and drops the geometry that computes them.
Distance is measured by the squared speed it allows to change, so that one unit
of length changes the squared speed by at most one and all arithmetic is exact.

| code | definitions |
|---|---|
| `planner_recalculate` | `Reverse` and `Forward` (the two passes), `PlannedUpTo` (the stop-compute pointer), `TellsStepper`, `Recalculated` |
| `plan_buffer_line` | `BufferLine` |
| `st_prep_buffer` | `LoadSpeed`, `LoadExit` (the profile of a block), `Advance` (its ramps, one unit at a time); `PrepareWithin`, `PrepareLast` (with `plan_discard_current_block`), `PrepareNothing` |
| `st_update_plan_block_parameters` | `UpdateTail`, `ProfileDropped` |
| the hold, its cycle stop, resume | `StartHold`, `HoldStop` (`plan_cycle_reinitialize`), `Resume` |
| feed and rapid overrides | `Override` (`plan_update_velocity_profile_parameters` and `plan_cycle_reinitialize`) |
| resets, a cancelled jog | `Reset`, `Flush` |

`BestPlan` is the reference: the plan computed from nothing, from the tool's
real speed, by the guidelines in the comment of `planner_recalculate`, without
any pointer that stops a pass early.

Replanning an empty ring (a hold that ends exactly at the end of the last block,
an override in idle) makes the passes run once around the ring over whatever
earlier motions left there, and leaves the planned pointer at any slot, although
`planner.c:110` says it is never less than the tail. The model lets it end
anywhere; the run shows that the next motion repairs it.

### 2.4 `Stepper`

`st_prep_buffer` is cut where the interrupt can see a difference: `LoadBlock`
(the slot is written), `WriteSegment` and `PublishSegment` (the head moves).
`Tick` and `GoIdle` are the interrupt; it re-enables interrupts, but what may
nest inside it (a kill, a flag) commutes with the rest of it, and `busy` turns a
nested tick into nothing. How many step events a segment takes, its smoothing
level, and whether a hold ends in it depend on speeds and are free choices, so
that the properties hold for every speed. `doing`, `ran`, `moved` and `owed` only
observe. Steps are counted in units of `1/Scale` of a step event, as AMASS does.

### 2.5 `Gcode`

A line is what `protocol_main_loop` hands over: a set of command words and a
function from letters to values. It is executed as in the code: the modes
(`modal`) are copied into a block and changed there (`InForce`), the block is
checked, and only then executed (`Execute`). The checks come in three groups,
because between them records are read from the EEPROM: a record that cannot be
read is replaced by zeros and the line fails (`FailedReadLine`), so which
check comes first decides whether the record is repaired. `RejectedFirst`,
`RejectedSecond` and `RejectedLast` are these groups; within one the order does
not matter, since a refused line leaves nothing behind.

| code | definitions |
|---|---|
| step 2, command and value words | `Commands`, `Calls`, `Given`, `NonModal`, `AxisClaims`, `GroupViolation` |
| step 3, error checks | `FeedOf`, `ToolAxisError`, `G10Error`, `G92Error`, `Target`, `HomeTarget`, `ArcError`, `MotionError`, `JogError`, ... |
| step 4, execution | `SpeedAfter`, `SpindleAfter`, `CoolantAfter`, `ToolOffsetAfter`, `SystemAfter`, `OffsetAfter`, `EepromAfter`, `ModalAfter` |
| motion | `MotionLine`, `HomeLine`, `NoMotionLine`, `JogLine`, `ProbeRefused`, `ProbeFound`, `ProbeMissed` |
| `jog_execute`, its cancel | `JogLine`, `JogEnds`, `JogCancelled` |
| `gc_init`, `main` | `PowerUpModal`, `Init`, `Reset` |

`position` is `gc_state.position`, `plPosition` where the motion handed to the
planner ends, and `queued` what the last motion was planned with. An arc is its
target (its chords end there), a probe ends somewhere between start and target,
a cancelled jog or a reset anywhere in `Stops`. Values are whole numbers and an
inch is `MmPerInch` of them. L and P of G10 pass through eight bits, as
`int_value` does (`Byte`).

### 2.6 `Homing`

`phys` is where the tool really is, `sysPosition` the counted motor steps; with
COREXY the motors A and B move X and Y together, and `Count`/`Steps` convert as
`system.c` and `limits.c` do. `limits_go_home` is cut at its loops: `Begin`
(recount, plan, wake up), `Poll` (the switches lock motors), `check` (`Fail`,
`PulledOff`, `GoOn`), `Kill` (`st_reset` and the debounce delay), `NextPhase`, and
`CycleDone` (the declared position). `Step` counts a step for every motor of the
motion and moves the tool only along axes whose motors are all unlocked.
`mc_homing_cycle`'s last `protocol_execute_realtime` is `Finish`,
`FinishSuspended` or `FinishAborted`. Around it, the lines and interrupts that can
make the count wrong or lift the lock: `Queue`/`Run`, `LimitHit`, `SoftLimit`,
`Unlock`, `HomeWithText`, `ServeHold`, `Reinitialize`.

`Cycles` are the homing cycles. `config.h` homes Z and then X and Y together although
COREXY is on, where its own comment demands one axis per cycle. The run
checks the cycles as they are built (`AsBuilt`): X and Y move as one, the first of their switches
stops both, and only its axis is counted where it is. `HomedIsTrue` says what
homing promises then; `AllAxesTrue`, what it promises of every axis, holds with the cycles the comment
demands (`OneByOne`).

### 2.7 `Settings`

The EEPROM is a function from addresses to bytes. A record is written by
`Write`, byte after byte (`WriteByte`), the checksum last; `PowerLoss` may come
before any byte, and within one that has to be erased first. Addresses, sizes and
the checksum - whose rotation is written with the logical `||` - are computed as
in the code, on smaller numbers. Reads are at `At`, modulo the size, like the
chip's address register. What reads and heals records: `LoadSettings`
(`settings_init`), `LoadSystem` (`gc_init`), `ExecuteStartup`, `Show`,
`ShowParameters`, `SelectSystem`, `SetSystem`. `stored` remembers what was last
stored in each record, and forgets it when a write of that record begins.

### 2.8 `Overrides`

The second half of a pass of `protocol_exec_rt_system`, with the copy of the
requests and the clearing of all of them as two steps (`CopyMotion`,
`ApplyMotion`; `CopyAccessory`, `ApplyAccessory`). Percentages are computed in
eight bits (`Unclamped`). The first half is reduced to what they see: a hold is
complete at once, a door goes through `stage` (retract, retracted, closed,
restoring, restored). A block remembers the coolant it was planned with, because
that is what `protocol_exec_rt_suspend` captures and a door restores. Lines wait
in `protocol_buffer_synchronize` and in `mc_line`, with whole passes in between. M30 synchronizes twice:
before `EndModes`, which restores modes and overrides, and, in `system_flag_wco_change`, before `EndOutputs`,
which stops spindle and coolant and clears the counters; `Ending` is the time between the two.
`Report` has the two counters of `report_realtime_status`; `told`, `planned` and
`toggled` observe.

Left out: a restore that is repeated because its cycle start came together with a
hold, after which `sys.suspend` may keep a flag while the machine is in CYCLE.

### 2.9 `Streamer`

A step of the controller is a frame (`Frame`, one `draw()`: status request, one
message read, `stream()`, the time-outs) or a button. `Stream`, `Heard` and
`Fresh` are the functions of `serialStream.pde`. Messages to the firmware arrive
at once, since later the ring would only be emptier; answers wait in
`answers`. The firmware reads a line when it is free, executes it, answers; a line
that does not fit into the ring loses its end, and the next line runs into it.
The door goes through the stages of `sys.suspend` (`DoorSet`, `Suspend`): a `~` is taken only once the
machine has stopped, retracted and seen the door closed, and is dropped before (`Resumed`).
`drawn` marks lines that are streamed and not disowned by a `resetStatus()`;
`stray` remembers that an answer to another line has shortened the window.
`Arrivals` lets the messages of one step arrive one after the other; `Drawn` counts the
lines and answers that are the stream's. The definitions common to all modules (`StreamInit`,
`StreamNext`, `streamVars`...) carry the module's name because `LinkProofs` extends `Serial` too.

## 3. What is checked

Every property has a mutant in `PROJECT.json`: a plausible slip in one mapped
definition (the "faulty variant" written just before it in the module) that
makes the property fail under the run's own configuration.

### 3.1 Runs that pass

| run | shows |
|---|---|
| `serial` | Both rings implement `ByteQueue` (`RxIsFifo`, `TxIsFifo`) under every interleaving of the two handlers with the main program and the flush. `RingsSound`: the counts are exact, a character is dropped only by a full ring, the transmit interrupt is armed whenever a byte waits and nobody is about to arm it, and no stale slot is sent. `serial_write` returns. |
| `rt_hold` | Feed holds, M0 and the spindle stop against resets, automatic and explicit cycle starts: a hold is left only on the operator's `~` (`NoAutoResume`); an idle machine or one in a complete hold has its steppers off (`AtRest`); every reset is served, every hold comes to rest, and queued motion leaves the planner, but in the one state in which the code leaves it there (`QueuedMotionLeaves`, `Starved`; 3.3). |
| `rt_alarm` | Limit switches, resets, the door and jog cancels outside the race windows: position loss locks the machine and nothing moves in the critical alarm (`PositionSafe`), only `$X` unlocks it (`LocksHold`), the door is left only on request with the spindle off behind it, and a cancelled jog leaves no motion behind. |
| `planner` | Whatever is streamed in while the tool moves, holds, resumes and is overridden, every junction speed is that of the best plan from the tool's real speed (`PlanOptimal`): the planned pointer never stops a pass too early. `PlanFollowed`: the profile being executed agrees with the plan, and the tool can always stop on the rest of the path. The speed never jumps (`SpeedContinuous`). |
| `stepper` | `EventsExact`: every block makes exactly its steps, none cut twice or lost by replanning, holds and underruns; each with one pulse (`PulsesMatch`). `BlocksKept`: slots and segments are never reused early, and a block is done in full before the next begins. |
| `gcode` | After any three lines (of 44, among them every kind of error), with damaged records, cancelled jogs, probes and resets in between: the parser's position is where the planned motion ends, the active offsets are those of the EEPROM, spindle and coolant do what the modes say, and the work position that is reported means the word that set it (`WorkPositionMeansWord`). |
| `homing` | With the cycles of `config.h`: no axis called homed is nearer to its switch than it is counted, and of those homed together on the same motors one is where it is counted (`HomedIsTrue`), although later cycles move the same motors and any of them may fail; the lock is left only by homing, `$X`, or the one gap of 3.3 (`HomedOrLifted`); limits and parser are as they should be when lines are taken again (`HandedBack`); homing ends. |
| `settings` | With a power failure anywhere: a record nobody is writing keeps what was stored, with a valid checksum (`RecordsKept`); when a line is awaited, the settings and offsets in RAM are the ones the next power-up loads (`RamIsSaved`); soft limits imply homing. |
| `streamer` | While no answer to another line has shortened the window: it has an entry for every streamed line that is in the ring, executed, or answered and unread (`WindowCovers`); and if nothing else is in the ring, a line that is streamed arrives, whole (`StreamFits`). Streaming ends - finished or given up - unless it is left paused, in an alarm, or was resumed before the firmware takes a `~` (`StreamEnds`; 3.3). |
| `overrides` | A change is in the next report of the overrides (`ReportedSoon`), blocks are planned for the overrides in force (`PlanFollows`), and between lines the coolant pin is what the parser believes, unless it was toggled while motion was planned, in a hold, or in the pass M30 makes before it stops the coolant (`CoolantAgrees`). The overrides M30 restores are not yet in a report of that pass (3.3). |

### 3.2 Runs that are violated, and what they find

Each of these checks what a comment of the code says and shows that the code
does otherwise; `PROJECT.json` quotes both lines.

| run | finding |
|---|---|
| `plan_override` | The reverse pass skips a block that is at its maximum entry speed, even when an override has just lowered the next block's maximum: a rapid of length 1 is entered at a squared speed of 4 with the next junction at 1. The segment generator then jumps to the lower speed. |
| `ovr_wrap` | Increments are added in eight bits before the result is clamped: at 10%, a coarse and a fine decrease served in one pass give 255, clamped to 200%. |

### 3.3 Other disagreements

No run is spent on these. Each names what to change in a `.cfg` (and the property
to check) for TLC to show it.

Serial and realtime:

- `serial_get_rx_buffer_count` is one short once the ring has wrapped
  (`serial.c:51` uses the buffer's size where the ring has one slot more):
  `RxCountExact` under `serial.cfg`. Nothing calls the function in this build.
- With `LongInterrupt = TRUE` in `serial.cfg`, `TxNeverSendsStale` fails: a handler
  that outlasts a character between the head store and the enabling of UDRIE0
  makes SERIAL_UDRE send from an empty ring.
- The four hold flags are cleared as a group, so a door request raised while a
  feed hold is served is lost unseen: `DoorNeverIgnored` under `rt_alarm.cfg`.
- With `RaceWindows = TRUE` in `rt_alarm.cfg`, `PositionLossFlagged` fails: a reset
  between the copy of the flags and `EnterCycle` sees IDLE, neither stops the
  steppers nor raises an alarm, and the reinitialisation then cuts the motion
  (`motion_control.c:363` says it "sets the system alarm to flag position lost").
  `CriticalStandsStill` fails too (a hard limit between the reading of the alarm
  and the start of a cycle), and `LocksHold` (a cycle stop raised within the
  reinitialisation turns ALARM into IDLE). `AtRest` fails in there for jogs only: a
  reset that comes while a jog line waits behind a late jog cancel aborts the line, but
  `jog_execute` goes on (`jog.c:41`) and starts what is queued, with `HOLD_COMPLETE` still set.
- `protocol_buffer_synchronize` returns in a feed hold with steps left
  (`SyncMeansDone` under `rt_hold.cfg`; `protocol.c:167` says it blocks "until all
  buffered steps are executed"). It also waits for ever if its one cycle start
  is served, and ignored, before the stop of the motion before it: `LineCompletes`
  under `rt_hold.cfg` with a motion, a motion and a dwell. The machine is then idle with
  a block planned and nobody left to start it, though `protocol.c:171` says that the
  cycle is started if there is motion to execute. `QueuedMotionLeaves` names this state, `Starved`, as its
  only exception, and so shows that no other loop loses a start.
- The cycle start that the restore behind the door raises may resume a feed hold
  placed during the restore: `NoAutoResume` under `rt_hold.cfg` with the signals
  `SAFETY_DOOR`, `CYCLE_START`, `FEED_HOLD`, five of them, and the lines `motion`
  and `spindle` (`protocol.c:333` says a hold is not resumed "without an explicit
  user-input").

Planner (`planner.cfg`):

- `SpeedContinuous` with `Ring = 5`, `Lengths = {1, 8}`, `FeedRates = {}`, `RapidRate = 3`, `Junctions = {9}`,
  `FeedOverrides = {3}`, `RapidOverrides = {1, 3}`, `Full = 3`: a rapid override is restored between two blocks,
  while the tool still slows down for it. `st_update_plan_block_parameters` does nothing when no
  block is loaded (`stepper.c:536`), so `planner_recalculate` plans from the tail's stale entry speed.
  The short block is then entered at its real speed, too fast for the junction planned behind it, and the
  speed jumps there from 6 to 2, as squares (`stepper.c:184` says that the profiles are "continuously
  joined at block junctions").

Parser (`gcode.cfg`):

- `FeedAgrees` with `Lines <- FeedLines`: the feed rate of a line under G93 that also
  ends the program stays in force as millimetres per minute. Likewise, a line
  that goes from G93 to G94 under G20 does not convert its F, and `mc_arc` under G93
  multiplies the rate of a line and clears its flag.
- `JogMovesNamedAxes` with `Lines <- JogOnly`: `$J=F100` has no axis words, passes
  every check and jogs all axes to machine zero. The mask of `gcode.c:856` has a
  parenthesis at the wrong place, so that jogs may carry words it means to refuse.
- G10 asks for one of P and L only (`gcode.c:528`); P257 is P1. A program end
  whose record cannot be read leaves the spindle on. G92.1 with axis words moves
  by the old offset. G10, G28.1 and G30.1 write the EEPROM in check mode, and M30 in
  check mode selects G54 without loading it.

Homing (`homing.cfg`):

- `AllAxesTrue` under `homing.cfg` as it is: the cycles of `config.h` (lines 105-106) home X and Y
  together, and on its COREXY machine (line 189) the first switch reached stops both motors. The other axis is called
  homed although its switch is somewhere ahead, and is counted too near to it by that distance. `limits.c` says after
  the cycle that "The active cycle axes should now be homed", and the comment at `config.h:183` that COREXY needs
  other cycles. `AllAxesTrue` holds with `Cycles <- OneByOne` and, for the cycles of `config.h`, with `CoreXY = FALSE`.
- `HomedIsTrue` with `LocateScalar = 1`: the cycle stop of a locating approach that ran out of
  steps is still pending when the last pull-off begins, and ends it early. The comment "Must be > 1"
  at `limits.c:30` is a condition of the proof, not advice.
- `HomedOrLocked`: `$Hx` is refused after the state has become HOMING; a hold or
  the door then makes it HOLD, and a reset leaves IDLE, unlocked (`main.c:57` says
  that only homing or `$X` do that).
- `ParserAgrees` with `BackToBack = TRUE`: `$H` right behind a line with motion
  discards the motion, which the parser has already counted (`limits.c:226` asks for
  an empty planner).
- `HomedIsTrue` with `Cycles <- OneByOne`, `ClearFirst = FALSE` and `Starts <- OnSwitch`: homing X while the
  switch of Y is pressed locks the motors at once and never moves off it.
- A door request during the last debounce delay is seen only by the pass at the
  end of `mc_homing_cycle`, whose hold never completes: only a reset helps.

Settings (`settings.cfg`):

- `SettingsWhole`: a torn write of the settings may be taken for whole, as the
  checksum's `||` (`eeprom.c:133`) forgets most of the earlier bytes.
- `RecordsKept` with `StartupIndexes = {0, 1, 2}` or `{3}`: `$N` with a number that is
  too large is not refused (`system.c:262`), and writes over the build info or,
  around the end of the EEPROM, over the settings.
- `settings_restore` writes two zero bytes for a line and calls the second its
  checksum, which lies 80 bytes further on: the first reading of a wiped line fails.

Overrides (`overrides.cfg`):

- `CoolantFollows`: a coolant toggled while blocks planned before are being executed is
  taken back by a door, which restores the block's.
- `CoolantAgrees` and `ReportedSoon` without `Ending`: `system_flag_wco_change` (`gcode.c:1122`) makes a whole
  pass of the realtime loop between what M30 does to the modes and what it does to the outputs. A flood toggle
  served in there leaves the parser with M8 and the pin off, though `protocol.c:462` says that the run state can be
  determined by checking the parser state; and a `?` served in there is answered without the overrides
  just restored if the counter is not at zero.
- `ToggleKept`: a line that waits in `spindle_sync` took its copy of the coolant
  mode before, and takes a toggle back without an M word.
- Requests raised between the copy and the clearing of all requests are lost;
  M30 in check mode restores the overrides without a report.

Controller (`streamer.cfg`):

- `ResumeGoesOn` (with `StreamSpec`): once every line is answered the stream is over, though the
  machine still draws; a pause and resume then stream the drawing again from its
  first line.
- `StreamEnds` without `LeftBehindDoor`: a `~` that comes before the machine has stopped, retracted and seen the
  door closed is ignored and cleared (`protocol.c:336-346`, `367`), but the controller counts itself as resumed. The lines it
  streams fill the window and nobody answers; and as `draw()` counts time only while the machine reports idle, the
  stream stays open until PAUSE is pressed twice more (`drawbot_app.pde:146`: "TIMEOUT IF SYSTEM HANGS").
- START sends its speed line uncounted: its `ok` takes a line of the drawing off
  the window, and the ring may overflow. That is what `stray` excludes from
  `WindowCovers` and `StreamFits`. So does the line that lifts the pen, sent every
  frame once the time-out of 120 has passed.
- After a time-out of 1200 frames the window is not renewed; a later stream starts
  with it. In an alarm every line is answered with an error and the stream stalls;
  a reset while moving leaves such an alarm, and refuses the `home` that follows it.
- With `swapSpray`, the drawing's `M3S0` (pen up) is sent as pen down.

### 3.4 Bounds, and why they are enough

- **Serial.** Rings of 2+1 slots: the head is before and behind the tail, the
  rings fill up, wrap and drain, and every branch of the arithmetic is taken.
  Two bytes tell a lost, repeated or reordered one from a correct one. The proofs
  cover every size of both rings.
- **Realtime.** `MaxCommands` (3 signals in `rt_hold`, 4 in `rt_alarm`) and `MaxLines` (3 lines) are
  bounds on the environment only. Three lines are needed: two motions and a line that waits for them
  reach the state in which a start is lost (3.3). One or two segments per block, one or two blocks and a segment ring
  of one or two make both buffers fill up and drain, and let a hold end within a
  block, at its end, and in the last one. `rt_hold` and `rt_alarm` divide the signals:
  all of them together are beyond five minutes.
- **Planner.** A ring of 4 holds three blocks: the tail, a block that is reverse
  planned from its successor, and a last one planned from rest; with two lengths,
  a feed and a rapid rate, and a limiting and a free junction every combination of
  ramp, cruise and saturated junction occurs. Runs with a ring of 5 and with
  three lengths (without overrides) agree. In `planner` only rapids are
  overridden, and never below the feed rate; `plan_override` and 3.3 show why. The proofs, which
  cover every ring size, motion and corner, need no override at all for `PlanOptimal` and `SpeedContinuous`.
- **Stepper.** A segment ring of 4 and so 3 slots: the slots come round again
  while the ring still holds segments of other blocks, which a ring of 3 allows
  only for one. Blocks of one and of three step events, with an axis that steps
  in two of them, cut at every event and smoothed by 1 or 2.
- **Gcode.** Two axes, of which one is the tool axis; two systems; three lines, one to change a mode or an
  offset, one to use it, one to see what is left. Every modal group, every
  non-modal command and at least one line per check is in `AllLines`.
- **Homing.** A travel of 3 and a search of 4 steps: one start from which every
  switch is found and one from which Z is not. Four signals or lines allow a homing,
  its failure, an unlock and a second one. Both starts have X and Y at different distances from
  their switches, so that the cycle that homes them together stops them at the wrong place for one.
- **Settings.** Bytes of two bits, records of two bytes: the global
  settings, two coordinate systems with G28 and G30, two startup lines and the
  build info, without gaps, so that a record written too far or too low hits its neighbour. Three commands
  and one power failure: store, lose, look. Every run begins with an erased EEPROM.
- **Streamer.** A window and a ring of 4 characters, three lines that do not fit
  together, one of them blank before it and one refused; three buttons. The numbers of
  frames are 0 and 1 instead of 120 and 1200: only their order matters. A pause and a resume
  meet the firmware in every stage of the door.
- **Overrides.** One request of each kind that lowers, a toggle, and starting values
  at both ends of the range; refresh counts of 2 and 3; four requests and two
  lines. Six requests, three lines and two blocks agree, in a longer run.
- **Deadlock** is checked except in the runs where the system may stop: a machine in its
  critical alarm, or suspended by the door, waits for a reset that nobody is
  obliged to send, and signals, lines and button presses are bounded.

### 3.5 Fairness

- **Serial** (`WriteReturns`): a call that has begun goes on, and the transmit
  interrupt is served while enabled. Nobody is obliged to read, write or send.
- **Realtime** (`rt_hold`): weak fairness of the main program,
  one thread that never blocks, and of the stepper interrupt, a hardware timer.
  Nothing obliges the operator to signal or the host to send a line, and no
  fairness is asked of one branch of the main program against another.
- **Homing** (`HomingEnds`): weak fairness of the stepper interrupt and of the main
  program, as above; not of the operator.
- **Streamer** (`StreamEnds`): `draw()` is called again and again, which Processing
  does; the firmware's main loop takes and executes lines, its suspend loop goes from stage to stage, and motion
  ends. Nobody is obliged to press a button.

## 4. What is proved

TLAPS proves the following for every value of the constants, under the
assumptions named in the modules (sizes are positive numbers, signals and lines
come from the lists). A theorem that needs more says so with `ASSUME`; each such
hypothesis is explained below. Every inductive invariant was first given to TLC with the
constants of the component's run.

### 4.1 `Serial`

- **`TypeCorrect`** - every variable keeps its type.
- **`RxInvariant`** and **`RxImplementsFifo`** - the receive ring
  implements `ByteQueue`. The queue is the contents from tail to head, so the
  refinement needs to know that no step but the matching one changes it: that
  the slot being read stays the first of the queue until the tail moves, that
  the byte in `data` is that slot's, and that the head copied by the flush is
  still within the queue when it becomes the tail. `RxInv` says so. Lemmas about
  `Used`, `Slot` and `Contents` reduce each step to `Append`, `Tail` or a suffix.
- **`CountsAlwaysExact`** - a character is dropped only by a full ring, and
  `serial_get_rx_buffer_available` and `serial_get_tx_buffer_count` are exact
  (`Used` in their three branches, by linear arithmetic).
- **`RingsAlwaysSound`** and **`TxImplementsFifo`** - on the assumption
  `~LongInterrupt`: no handler keeps the main program stopped for longer than a
  character takes to leave. It is needed (3.3), and this build can violate it: `st_go_idle`
  waits inside the stepper interrupt. Nothing above depends on it.
  `TxInv` ties the place of the main program within `serial_write` to the ring: a byte
  that waits has its interrupt enabled or about to be, and the interrupt
  runs on an empty ring only in the gap the assumption rules out.

### 4.2 `Realtime`

- **`RealtimeProofs!TypeCorrect`** - every variable keeps its type; `planned` and
  `segs` never exceed what the buffers hold. The bound on `planned` is a product
  of two constants, so `Capacity` gets lemmas of its own and stays folded.
- **`RealtimeProofs!HoldResumesWhenAsked`** - `NoAutoResume`, on the assumption
  that no door request is ever sent (with one it fails: 3.3).
  `NoAutoResume` is not inductive: whether a start resumes a hold depends
  on flags that were copied, on where the pass is and on who called it.
  `ResumeInv` has nine conjuncts:
  `NoDoor` (nothing of the door ever happens), `HoldIsNoJogCancel`, `AbortSeen`
  (an abort is noticed by the next pass; a pass past the copy has none),
  `MainUnsuspended` (statements run only when the suspension is over),
  `StartCopied` and `StartInHold` (a start flag that was not asked for is already
  in the copy, or will be served before the suspend loop is reached),
  `HoldBlocksStart` (a pass that holds does not start), `ResumeAsked` (what is
  about to resume was asked for), `SpindleFirstAsked` (so was a restoring of the
  spindle that ends in a resume). The proof shows that every action preserves
  each conjunct.

The second half of the module proves the other safety properties of the two runs, for all buffer sizes, all
seven signals and eight kinds of lines and any number of each:

- **`PositionNeverSilentlyLost`** (`PositionSafe`), **`LocksAlwaysHold`** (`LocksHold`),
  **`SpindleOffBehindDoor`** (`RetractedSpindleOff`), **`CancelledJogsFlushed`**
  (`JogCancelFlushes`) and **`DoorLeftOnRequest`** (`DoorLeftWhenAsked`), on the assumption
  `~RaceWindows`: no reset and no limit switch hits the stretches of `InRaceWindow`. The
  first two fail without it (3.3); of the others TLC finds no counterexample without it.
- **`IdleStandsStill`** (`AtRest`), on that assumption or without it if the host starts
  no jog; the case of `rt_hold` is the second.

None of these is inductive. `RestInv` says why they hold:

- *Stops are served before anything starts.* Where the machine is at rest (`Quiet`: IDLE, CHECK, SLEEP,
  ALARM, a complete hold) the steppers are off and no cycle stop is waiting, unless a reset
  comes first (`QuietStill`); a pass that serves a stop does not start motion
  (`StopStill`). Otherwise a late `EXEC_CYCLE_STOP` would turn a running machine into IDLE.
- *A reset cuts what runs, and is served.* Whenever the steppers run, `mc_reset` sees it in
  the state or in the step control (`SteppingControlled`), so a pending reset means they are off. An alarm
  has a reset with it (`AlarmResets`), a pass or a jog that starts motion has none
  (`StartUndisturbed`, `JogUndisturbed` - this is where the assumption is used), and a lost position is
  in the state or in an alarm that is still to be entered (`LossKept`).
- *ALARM does nothing.* Once its reset is served it has no suspension, no spindle and no statement
  under way (`AlarmIdle`, `Reinitialized`).
- *Holds know what they stop.* Only a jog is cancelled (`CancelOfJog`), a machine falls asleep from
  rest (`SleepFromRest`), is retracted only in a complete hold, and
  the door counts as closed only then (`Retraction`).

`DoorInv` adds who asked: a restoring was asked for (`RestoreAsked`), the delay for the spindle belongs to one
or to a door that has opened again (`DelayInRestore`), and a start that nobody asked for is
cleared while the door still counts as open (`DoorStartAsked`). The delay runs whole passes, so a cycle can
start, and be stopped by the door again, within it; the request that `RestoreDone` then raises
is the case the last conjunct is about. `RaceInv` replaces `RestInv` where the assumption is
dropped: steppers may run in ALARM until the reinitialisation, and a cycle stop raised in the middle of that
waits for the first pass after it, when no motion is queued yet (`FreshPass`).

### 4.3 `Overrides`

- **`OverridesTyped`** - every variable keeps its type, for all
  refresh counts, starting values and bounds.
- **`PlanAlwaysFollows`** and **`AlwaysReportedSoon`** - `PlanFollows`
  and `ReportedSoon` are inductive as they stand: a change of an override replans and
  clears the counter in the same step, and a report that postpones the
  overrides leaves the counter at zero. The exception of `ReportedSoon`, the pass of M30 between its modes
  and its outputs (`Ending`), is left only by a reset or by the step that clears the counter.
- **`CoolantAlwaysAgrees`** - `CoolantAgrees` is not inductive: the
  pin may come from a block, from what a hold captured, from a line or from a
  toggle. `CoolantInv` adds that blocks and what a suspension captured
  agree with the modes unless the coolant was toggled since (`TakenOK`), that the pin is
  as the modes say but behind the door, where it is off, and in the last pass of M30, where the modes
  already say that it is off (`PinOK`), and that a hold or a
  suspension happens only within a pass of the realtime loop (`HeldOK`).

### 4.4 `Gcode`

For any of the three axes, any systems, stopping places and any set of lines that are well formed
(`LinesAssumption`: words from the lists, a value for each letter that is given).

- **`GcodeTyped`** - every variable keeps its type. `Typed` adds that the record of G54 is
  never a damaged one, since the start reads it: only then is the offset selected by a
  program end or a reset a position at all.
- **`PositionAlwaysAgrees`**, **`OutputsAlwaysAgree`**, **`WcsAlwaysAgrees`** - one lemma
  for each way a line can end (refused in one of the three groups of checks, no motion, a motion,
  a home move, a jog, a probe), one for a reset and one for the end of a jog. `WcsAgrees` has the
  delicate case: a line that selects one system and writes another, or
  the same one, before or after a damaged record was replaced by zeros.
- **`WorkPositionAlwaysMeansWord`** - an action property: the work position printed after an accepted
  line is the word it gave. The proof is the algebra of the five places where an
  offset is added or taken away (`Target`, `OffsetAfter`, `EepromAfter`,
  `ToolOffsetAfter`, `WorkPosition`), which must cancel in every mode.

### 4.5 `Homing`

For any travel, search and pull-off distance, starts and targets.

- **`HomingTyped`** - every variable keeps its type.
- **`LimitsAlwaysRearmed`** - no hypothesis: on every way out of homing the limit interrupt
  is as the settings want it. `Rearmed` follows the places of the main program where it is off.
- **`AlwaysHandedBack`** - `HandedBack`, assuming `~BackToBack`: no homing starts behind a line
  whose motion is still planned (`limits.c:226` asks for it; 3.3 shows what happens otherwise).
- **`AlwaysHomedOrLifted`** - `HomedOrLifted`, assuming `AllHomed`: between them the cycles
  home every axis. `Covered` says that the cycles completed have homed their axes, up to those
  the cycle under way homes again, and that the lock is off only with all
  axes homed, or lifted.
- **`HomedIsAlwaysTrue`** - `HomedIsTrue`, assuming `Locatable`: `LocateScalar > 1`
  (`limits.c:30`) and, on COREXY, no start on a switch and, if a cycle homes X and Y together, no other
  cycle that homes either. The cycles of `config.h` satisfy it, and so do those its comment demands.
- **`AllAxesAlwaysTrue`** - `AllAxesTrue`, every homed axis counted where it is, assuming also that on COREXY no
  cycle homes both X and Y; 3.3 shows that it fails for the cycles of `config.h`. It follows from
  `HomedIsTrue`, as each axis is then alone on its motors.

  The invariant `Search` follows each axis of the cycle through its phases (`InPhase`:
  how far it can be from its switch, with its motors locked or not, and how far the
  pull-off has still to go; of X and Y in one cycle, the one in `Front`, whose switch stops both), and adds that only motors of the cycle are under way (`Locks`), that
  none of its axes is called homed meanwhile (`Apart`), and that on COREXY no switch of
  another axis is pressed (`Clear`), which would lock the motors of the cycle. From it follows
  that each phase ends where the next one needs it, and that axes homed before stay
  where they are although their motors turn.

### 4.6 `Settings`

For any number and size of records whose layout leaves no overlaps
(`LayoutAssumption`), any bytes, images and commands, any number of commands and power failures.

- **`SettingsTyped`** - every variable keeps its type; every byte that is written lies within the EEPROM.
- **`RecordsAlwaysKept`** and **`RamIsAlwaysSaved`** - assuming `StartupsInRange`: `$Nn=` is used with
  the numbers of lines there are. `system.c:262` does not see to it, and 3.3 shows that the properties fail otherwise.
  `Kept` says of every record that is not being written that its bytes are those of `stored` with their
  checksum; `Jobs`, of every write that is under way or waiting, that it fits its record, that its record
  is marked as open, and that the bytes before its cursor are already in place (`InPlace`).
  `SettingsSaved` and `CoordSaved` say what RAM will agree with once the writes that wait are done:
  settings change RAM before the EEPROM, coordinates after. The lemmas `Zones` and `Apart` (no byte
  belongs to two records) carry the proof from the layout to the bytes: a write to one
  record leaves all others as they are.
- **`SoftAlwaysNeedsHoming`** - additionally assuming `ImagesSound`, that in the EEPROM a board begins with soft limits imply
  homing, as in an erased one. It does not use the checksum, which may take a torn write for whole: every
  flag byte ever written, and every mixture a power failure can leave, has
  the implication.

### 4.7 `Stepper`

For any size of the segment ring, any number of motors, any blocks and any levels of smoothing.

- **`StepperTyped`** and **`PulsesAlwaysMatch`** - `Typed` adds to the types which of the states of
  `control` the interrupt may run in, that every segment that waits has ticks to run, and that the
  account of counted and pulsed steps is the bits that go out next.
- **`BlocksAlwaysKept`** - no one asks the interrupt which slots are in use; the code relies on the slots being
  one fewer than the segments (`stepper.c:545`). The invariant is `Apart`: a waiting segment is at most as many
  slots behind another as it is segments behind it. The ring is not full when a
  block is loaded, so the slot taken is the first no segment can be in. The triangle
  inequality of `Dist` carries it from step to step.
- **`EventsAlwaysExact`** - both halves. `StepsExact`: `Counted` is the account of Bresenham's
  algorithm: counter and steps made, weighed with the block's events, are half an event plus what was asked
  for; whatever units a tick runs. `Conserved`: the
  invariant speaks of the ring one segment at a time, so that no step has to handle a sum. `Chain(c)`
  gives each waiting segment `c[p]`, how much of its block will have run when it has: it starts at the tail
  with what has run, grows by each segment, equals the block where the next block begins, and together with the
  rest (`Ends`) makes up the block that is being cut. `Doing` and `Striding` tie the
  interrupt's own copies to the slots. From the chain, `PartialSums` derives the sums over all
  segments of a slot, of which `Together` shows that no other block lies between them.

The last step needs induction, which the library states only for a predicate the installed
provers cannot instantiate. `Induction` states it for a set of numbers, and is proved
from the pigeonhole principle of `FiniteSetTheorems`: were `n` missing, the successor would map the numbers of the set before it
into themselves without the zero. `MaxIsGreatest` (for `Events`) and `SumExists` (for the recursive function in
`UnitsWaiting`) rest on it.

### 4.8 `Planner`

For any ring of more than two blocks, any lengths, rates and corners.

- **`TypesHold`** - pointers stay in the ring, and no speed becomes negative although the profile subtracts
  a length from it: the tool is never faster than the path can stop it.
- **`PlanIsFollowed`** - `PlanFollowed`, under every sequence of overrides and holds. `CanAlwaysStop` is not
  inductive, and with overrides not even the planned speeds can be met (`plan_override`), so that they are no
  witness for it. `Stopping(rest)` is the certificate: `rest` gives each entry
  of the ring a speed of which the path behind it can dispose, at most a length less from block to
  block (`Way`), and what the planner and the segment generator use stays below it (`Stops`). Each action renews the
  certificate; both passes of `planner_recalculate` and the new block are lemmas about functions over the ring.
- **`SpeedIsContinuous`** and **`PlanIsOptimal`** - assuming `NoOverrides`: all overrides stay at 100 per
  cent. They fail with some (3.2, 3.3). `Smooth` adds to the invariant
  that junctions and tool are within the limits of the blocks (`Limited`), how `speed`, the tail's entry and the
  end of its profile are related in each state of the segment generator (`SpeedIs`), that every block can slow
  down to the next (`Feasibly`), and that every junction can be reached from the one before and is at its maximum,
  at full acceleration or at full deceleration - the planned one not at the last (`Tightly`), which is what lets
  the passes stop there. The lemmas about `planner_recalculate` follow its two loops. `SmoothOptimal` then shows
  that a plan that is feasible and tight is the one `BestPlan` computes.

### 4.9 `Streamer`

For every drawing, any window that is no larger than the ring, any time-outs, and any number of buttons.

- **`StreamTyped`** - application, firmware and answers keep their types, `c_line` never counts more characters
  than the window, and the ring never holds more than its size.
- **`WindowAlwaysCovers`** - `WindowCovers`.
- **`StreamAlwaysFits`** - `StreamFits`. It needs only `Window <= Capacity`; the code has 127 and 128.

Neither is inductive: an answer drops the first entry of `c_line`, whichever line it answers, so
that a count of the lines says nothing about the characters of those that remain. `LinkInv` says
where the entries are: first (`ahead` of the ring) one for each streamed line that is executed, or answered and unread, then
- some entries may belong to no line, since errors are not counted as answers - one for every streamed line of the ring, in the
order of the ring, and at least as long as the line (`Covers`, by an embedding of the ring into `c_line`). A line that lost its end is
shorter than its entry. Each step is a lemma about `Covers`: a line taken moves its entry ahead, an `ok` read
removes one from ahead, a line streamed appends to both, one that was disowned needs no entry any more.
`FitsAddsUp` (numbers embedded into others add up to no more, by `Induction` on the length) turns the embedding into a bound on the characters in the ring,
and with the test of `stream()` the new line has room. `Counted`, `Arrivals` and the blank lines of `Skipped` are recursive
or chosen; `CountedIs`, `ArrivalsIs` and `SkippedIs` say what they are, also by `Induction`. The speed line of
START is not streamed: with it in the ring `StreamFits` asks nothing, and if a ring that holds streamed lines only has dropped
it, that ring is full of counted characters, so that `stream()` finds no room in the window either.

`Induction` is as in `StepperProofs`, repeated here because that module's names are those of `Serial`.

### 4.10 What is only model-checked

Every safety property of a passing run is stated by a theorem. `PlanOptimal` and `SpeedContinuous` of
`Planner` are proved for overrides that stay at 100 per cent (`NoOverrides`); with rapids overridden, but never below
the feed rate, the run `planner` checks them on its instance, and there are others where they fail (3.3), so that no theorem
can say more without a condition on the rates. Out of the prover's reach:

- everything under fairness: `WriteReturns`, `ResetServed`, `HoldCompletes`,
  `QueuedMotionLeaves`, `HomingEnds`, `StreamEnds`.

## 5. What is not modelled, and the plan

- **Text**: the assembly of lines from characters (comments, overflow), number
  formats, the letters of a line, and the wording of answers and reports.
- **Geometry and time**: unit vectors, junction angles, the chords of arcs,
  rounding of floats, step rates and timers, the servo's pulse widths.
- **Parts of interrupts**: the probe monitor's unprotected update of the flags
  (`probe.c:64`) and the pin-change handler of the control pins.
- **Options that are not built**: parking, the door's input pin, laser mode
  (a setting that is off), `ENABLE_M7`, debug reports.
- **Between modules**: the soft limit's feed hold within a cycle (`Realtime` has
  the hold, `Homing` the limit), lines that wait while the parser holds copies (`Gcode`
  executes a line at once; `Overrides` shows what waiting does to the coolant),
  range checks and units of the single settings.
- **User interface**: drawing, widgets, file dialogs, loading and conversion of files
  in the controller; the exported application archives.

Next, the most important first:

1. A module for the assembly of lines, composed with `Streamer`'s ring; the probe
   monitor cut into steps.
