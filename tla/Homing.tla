------------------------------- MODULE Homing -------------------------------
(***************************************************************************)
(* Homing and limits: limits_go_home and the limit interrupt of            *)
(* grbl/limits.c, mc_homing_cycle, the homing and soft limit parts of      *)
(* system.c, and what main() rebuilds after an abort.                      *)
(*                                                                         *)
(* A homing cycle plans a motion by itself, steps it with the stepper      *)
(* interrupt and polls switches and flags in a loop of its own.  The tool  *)
(* has a real place, phys, which nobody in the firmware can see, and a     *)
(* counted one, sysPosition, in motor steps: with COREXY the motors A and  *)
(* B move X and Y together.  The switch of an axis is pressed from 0 on in *)
(* its direction of search.  All axes have the same travel.                *)
(***************************************************************************)
EXTENDS Integers, Sequences

CONSTANTS CoreXY,       \* COREXY
          Cycles,       \* HOMING_CYCLE_0, HOMING_CYCLE_1, ...: sets of axes
          Travel,       \* settings.max_travel, as a positive number of steps
          SearchTravel, \* HOMING_AXIS_SEARCH_SCALAR * Travel
          PullOff,      \* settings.homing_pulloff
          LocateScalar, \* HOMING_AXIS_LOCATE_SCALAR
          SeekSteps,    \* steps the seek rate makes at most between two polls
          Hard, Soft,   \* are hard and soft limits on?
          Starts,       \* where the tool may be at power-up
          Targets,      \* machine positions a line may go to
          ClearFirst,   \* assumption: homing begins with no switch pressed
          BackToBack,   \* may $H arrive right behind a line with motion?
          MaxCommands   \* bound on the lines and signals of the operator

Axes == {"X", "Y", "Z"}
NoMotion == <<>>

ASSUME SwitchesAssumption == CoreXY \in BOOLEAN /\ Hard \in BOOLEAN /\ Soft \in BOOLEAN
                            /\ ClearFirst \in BOOLEAN /\ BackToBack \in BOOLEAN
ASSUME CyclesAssumption == Cycles \in Seq(SUBSET Axes) /\ Cycles # <<>>
ASSUME DistancesAssumption ==
    /\ Travel \in Nat /\ SearchTravel \in Nat /\ PullOff \in Nat
    /\ LocateScalar \in Nat /\ SeekSteps \in Nat \ {0}
ASSUME PlacesAssumption == /\ Starts # {} /\ Starts \subseteq [Axes -> Int]
                           /\ Targets \subseteq [Axes -> Int]
ASSUME MaxCommandsAssumption == MaxCommands \in Nat

VARIABLES
    phys,           \* where the tool really is
    sysPosition,    \* sys_position, by motor
    parser,         \* gc_state.position
    queued,         \* the motion in the planner, not started yet, or NoMotion
    state,          \* sys.state: "idle", "alarm", "homing", "hold", "door"
    flags,          \* sys_rt_exec_state
    alarm,          \* sys_rt_exec_alarm
    limitsOn,       \* is the limit interrupt enabled?
    pc,             \* the place of the main program
    cycle, phase,   \* which cycle, and which of its four motions
    axislock,       \* sys.homing_axis_lock: the motors that get their pulses
    left,           \* step events left in the motion
    moving,         \* is the stepper interrupt on?
    unpolled,       \* step events since the switches were polled
    homed,          \* axes homed and not lost since (observes)
    lifted,         \* what took the lock off, if not homing (observes)
    commands        \* what the operator may still send

machine == <<phys, sysPosition>>
program == <<parser, queued>>
motion == <<axislock, left, moving, unpolled>>
place == <<pc, cycle, phase>>
observed == <<homed, lifted>>
vars == <<machine, program, state, flags, alarm, limitsOn, place, motion, observed, commands>>

Motors == {"A", "B", "Z"}

\* system_convert_corexy_to_x_axis_steps and its sibling.
Count(a) == CASE ~CoreXY -> sysPosition[IF a = "X" THEN "A" ELSE IF a = "Y" THEN "B" ELSE "Z"]
              [] CoreXY /\ a = "X" -> (sysPosition["A"] + sysPosition["B"]) \div 2
              [] CoreXY /\ a = "Y" -> (sysPosition["A"] - sysPosition["B"]) \div 2
              [] CoreXY /\ a = "Z" -> sysPosition["Z"]

\* The motor positions of a place.
Steps(p) == IF CoreXY
              THEN [A |-> p["X"] + p["Y"], B |-> p["X"] - p["Y"], Z |-> p["Z"]]
              ELSE [A |-> p["X"], B |-> p["Y"], Z |-> p["Z"]]

Counted == [a \in Axes |-> Count(a)]

\* step_pin[]: with COREXY X and Y stand for both motors.
MotorsOf(a) == CASE a = "Z" -> {"Z"}
                 [] a # "Z" /\ CoreXY -> {"A", "B"}
                 [] a = "X" /\ ~CoreXY -> {"A"}
                 [] a = "Y" /\ ~CoreXY -> {"B"}

Pressed(p) == {a \in Axes : p[a] >= 0}          \* limits_get_state
Mask == Cycles[cycle]
Approach == phase \in {0, 2}
Motion == CASE phase = 0 -> SearchTravel
            [] phase = 2 -> LocateScalar * PullOff
            [] OTHER -> PullOff

-----------------------------------------------------------------------------
(* Signals: SERIAL_RX, and mc_reset, which is also called by the program.  *)

Critical == {"hardLimit", "softLimit"}

\* A reset kills motion; during homing it is an alarm of its own.
ResetRaised ==
    /\ flags' = flags \cup {"reset"}
    /\ alarm' = IF state = "homing" /\ alarm = "none" THEN "failReset" ELSE alarm
    /\ moving' = FALSE

RxReset ==
    /\ commands > 0
    /\ "reset" \notin flags
    /\ ResetRaised
    /\ commands' = commands - 1
    /\ UNCHANGED <<machine, program, state, limitsOn, place, axislock, left, unpolled, observed>>

\* The door and a feed hold; elsewhere they belong to Realtime.
RxFlag ==
    /\ commands > 0
    /\ state = "homing"
    /\ \E f \in {"door", "hold"} : flags' = flags \cup {f}
    /\ commands' = commands - 1
    /\ UNCHANGED <<machine, program, state, alarm, limitsOn, place, motion, observed>>

-----------------------------------------------------------------------------
(* The stepper interrupt.  Steps are counted whether or not the axis lock  *)
(* lets the pulses through.                                                *)

Moved(p, dir, axes) == [a \in Axes |-> IF a \in axes THEN p[a] + dir ELSE p[a]]

Step ==
    /\ moving /\ left > 0
    /\ unpolled < IF phase = 2 THEN 1 ELSE SeekSteps
    /\ LET dir == IF Approach THEN 1 ELSE -1
       IN  /\ sysPosition' = Steps(Moved(Counted, dir, Mask))
           /\ phys' = Moved(phys, dir, {a \in Mask : MotorsOf(a) \subseteq axislock})
    /\ left' = left - 1 /\ unpolled' = unpolled + 1
    /\ UNCHANGED <<program, state, flags, alarm, limitsOn, place, axislock, moving, observed, commands>>

EndOfBlockSilent ==                                     \* faulty variant
    /\ moving /\ left = 0
    /\ moving' = FALSE
    /\ UNCHANGED <<machine, program, state, flags, alarm, limitsOn, place, axislock, left,
                   unpolled, observed, commands>>
EndOfBlock ==
    /\ moving /\ left = 0
    /\ moving' = FALSE /\ flags' = flags \cup {"cycleStop"}
    /\ UNCHANGED <<machine, program, state, alarm, limitsOn, place, axislock, left,
                   unpolled, observed, commands>>

-----------------------------------------------------------------------------
(* $H.                                                                     *)

Idle == pc = "main" /\ flags = {} /\ alarm = "none"

\* system_execute_line and the head of mc_homing_cycle.
Home ==
    /\ Idle /\ commands > 0
    /\ state \in {"idle", "alarm"}
    /\ ClearFirst => Pressed(phys) = {}
    /\ BackToBack \/ queued = NoMotion
    /\ state' = "homing" /\ limitsOn' = FALSE
    /\ pc' = "begin" /\ cycle' = 1 /\ phase' = 0
    /\ commands' = commands - 1
    /\ UNCHANGED <<machine, program, flags, alarm, motion, observed>>

\* $H followed by more text is refused, after the state has been set.
HomeWithText ==
    /\ Idle /\ commands > 0
    /\ state \in {"idle", "alarm"}
    /\ state' = "homing"
    /\ commands' = commands - 1
    /\ UNCHANGED <<machine, program, flags, alarm, limitsOn, place, motion, observed>>

\* The count of the cycle's axes restarts at zero; the planned motion runs.
Begin ==
    /\ pc = "begin"
    /\ sysPosition' = Steps([a \in Axes |-> IF a \in Mask THEN 0 ELSE Count(a)])
    /\ axislock' = UNION {MotorsOf(a) : a \in Mask}
    /\ left' = Motion /\ moving' = TRUE /\ unpolled' = 0
    /\ homed' = homed \ Mask
    /\ pc' = "poll"
    /\ UNCHANGED <<phys, program, state, flags, alarm, limitsOn, cycle, phase, lifted, commands>>

\* A pressed switch locks the motors of its axis, on an approach.
Locked == UNION {MotorsOf(a) : a \in {b \in Pressed(phys) :
                                        MotorsOf(b) \cap axislock # {}}}

Poll ==
    /\ pc = "poll"
    /\ axislock' = IF Approach THEN axislock \ Locked ELSE axislock
    /\ unpolled' = 0
    /\ pc' = "check"
    /\ UNCHANGED <<machine, program, state, flags, alarm, limitsOn, cycle, phase, left,
                   moving, observed, commands>>

Seen == flags \cap {"door", "reset", "cycleStop"}

\* The alarms are set one after the other: the last one stays.
Fails ==
    /\ Seen # {}
    /\ \/ "reset" \in Seen \/ "door" \in Seen
       \/ ~Approach /\ Pressed(phys) \cap Mask # {}
       \/ Approach /\ "cycleStop" \in Seen
       \/ alarm # "none"

\* mc_reset and protocol_execute_realtime: alarm and abort; every caller
\* returns to main().
FailUnlocked ==                                         \* faulty variant
    /\ pc = "check" /\ Fails
    /\ moving' = FALSE
    /\ flags' = flags \cup {"reset"} /\ alarm' = "none"
    /\ pc' = "reinit"
    /\ UNCHANGED <<machine, program, state, limitsOn, cycle, phase, axislock, left, unpolled,
                   observed, commands>>
Fail ==
    /\ pc = "check" /\ Fails
    /\ moving' = FALSE
    /\ flags' = flags \cup {"reset"} /\ alarm' = "none"
    /\ state' = "alarm" /\ lifted' = "no"
    /\ pc' = "reinit"
    /\ UNCHANGED <<machine, program, limitsOn, cycle, phase, axislock, left, unpolled,
                   homed, commands>>

\* Not over yet, or all locked: another poll, or the end of the motion.
GoOn ==
    /\ pc = "check" /\ Seen = {}
    /\ pc' = IF axislock = {} THEN "kill" ELSE "poll"
    /\ UNCHANGED <<machine, program, state, flags, alarm, limitsOn, cycle, phase, motion,
                   observed, commands>>

PulledOff ==
    /\ pc = "check" /\ Seen # {} /\ ~Fails
    /\ flags' = flags \ {"cycleStop"}
    /\ pc' = "kill"
    /\ UNCHANGED <<machine, program, state, alarm, limitsOn, cycle, phase, motion, observed, commands>>

\* st_reset, then the debounce delay.
Kill ==
    /\ pc = "kill"
    /\ moving' = FALSE /\ left' = 0
    /\ pc' = "delay"
    /\ UNCHANGED <<machine, program, state, flags, alarm, limitsOn, cycle, phase, axislock,
                   unpolled, observed, commands>>

NextPhase ==
    /\ pc = "delay" /\ phase < 3
    /\ phase' = phase + 1
    /\ pc' = "begin"
    /\ UNCHANGED <<machine, program, state, flags, alarm, limitsOn, cycle, motion, observed, commands>>

\* The cycle's axes are declared to stand at the pull-off distance.
SetPositionOfBoth ==                                    \* faulty variant
    Steps([a \in Axes |-> IF a \in Mask \/ (CoreXY /\ a # "Z") THEN -PullOff ELSE Count(a)])
SetPosition ==
    Steps([a \in Axes |-> IF a \in Mask THEN -PullOff ELSE Count(a)])

CycleDone ==
    /\ pc = "delay" /\ phase = 3
    /\ sysPosition' = SetPosition
    /\ homed' = homed \cup Mask
    /\ IF cycle < Len(Cycles)
         THEN cycle' = cycle + 1 /\ phase' = 0 /\ pc' = "begin"
         ELSE UNCHANGED <<cycle, phase>> /\ pc' = "finish"
    /\ UNCHANGED <<phys, program, state, flags, alarm, limitsOn, motion, lifted, commands>>

\* The alarm part of protocol_exec_rt_system.
AlarmTaken ==
    /\ alarm' = "none"
    /\ state' = IF alarm # "none" THEN "alarm" ELSE state
    /\ lifted' = IF alarm # "none" THEN "no" ELSE lifted

\* protocol_execute_realtime at the end of mc_homing_cycle: aborted ...
FinishAborted ==
    /\ pc = "finish" /\ "reset" \in flags
    /\ AlarmTaken
    /\ pc' = "reinit"
    /\ UNCHANGED <<machine, program, flags, limitsOn, cycle, phase, motion, homed, commands>>

\* ... suspended by a door request, whose hold is never complete ...
FinishSuspended ==
    /\ pc = "finish" /\ "reset" \notin flags /\ "door" \in flags
    /\ state' = "door" /\ flags' = {}
    /\ pc' = "suspended"
    /\ UNCHANGED <<machine, program, alarm, limitsOn, cycle, phase, motion, observed, commands>>

\* ... or done: a feed hold makes the state HOLD for a moment and is gone.
\* The positions of parser and planner follow the machine; limits_init.
FinishForgets ==                                        \* faulty variant
    /\ pc = "finish" /\ flags \cap {"reset", "door"} = {}
    /\ flags' = {} /\ state' = "idle"
    /\ limitsOn' = Hard
    /\ pc' = "main"
    /\ UNCHANGED <<machine, program, alarm, cycle, phase, motion, observed, commands>>
Finish ==
    /\ pc = "finish" /\ flags \cap {"reset", "door"} = {}
    /\ flags' = {} /\ state' = "idle" /\ parser' = Counted
    /\ limitsOn' = Hard
    /\ pc' = "main"
    /\ UNCHANGED <<machine, queued, alarm, cycle, phase, motion, observed, commands>>

SuspendAborted ==
    /\ pc = "suspended" /\ "reset" \in flags
    /\ pc' = "reinit"
    /\ UNCHANGED <<machine, program, state, flags, alarm, limitsOn, cycle, phase, motion,
                   observed, commands>>

-----------------------------------------------------------------------------
(* The rest of the main program.                                           *)

TravelExceeded(target) ==
    Soft /\ \E a \in Axes : target[a] > 0 \/ target[a] < -Travel

\* mc_line: the motion waits in the planner while lines arrive back to back.
Queue(target) ==
    /\ Idle /\ commands > 0 /\ state = "idle" /\ queued = NoMotion
    /\ ~TravelExceeded(target)
    /\ queued' = [a \in Axes |-> target[a] - parser[a]] /\ parser' = target
    /\ commands' = commands - 1
    /\ UNCHANGED <<machine, state, flags, alarm, limitsOn, place, motion, observed>>

Reached == [a \in Axes |-> phys[a] + queued[a]]
Hits == {a \in Pressed(Reached) \ Pressed(phys) : limitsOn}

\* protocol_auto_cycle_start and the cycle ...
Run ==
    /\ Idle /\ state = "idle" /\ queued # NoMotion
    /\ Hits = {}
    /\ phys' = Reached
    /\ sysPosition' = Steps([a \in Axes |-> Count(a) + queued[a]])
    /\ queued' = NoMotion
    /\ UNCHANGED <<parser, state, flags, alarm, limitsOn, place, motion, observed, commands>>

\* ... which the limit interrupt cuts where a switch is pressed.
LimitHit ==
    /\ Idle /\ state = "idle" /\ queued # NoMotion
    /\ \E a \in Hits :
          /\ phys' = [phys EXCEPT ![a] = 0]
          /\ sysPosition' = Steps([Counted EXCEPT ![a] = @ - phys[a]])
    /\ flags' = {"reset"} /\ alarm' = "hardLimit"
    /\ homed' = {}
    /\ UNCHANGED <<program, state, limitsOn, place, motion, lifted, commands>>

\* limits_soft_check, with no motion queued before.
SoftLimit(target) ==
    /\ Idle /\ commands > 0 /\ state = "idle" /\ queued = NoMotion
    /\ TravelExceeded(target)
    /\ flags' = {"reset"} /\ alarm' = "softLimit"
    /\ commands' = commands - 1
    /\ UNCHANGED <<machine, program, state, limitsOn, place, motion, observed>>

Unlock ==
    /\ Idle /\ commands > 0 /\ state = "alarm"
    /\ state' = "idle" /\ lifted' = "unlock"
    /\ commands' = commands - 1
    /\ UNCHANGED <<machine, program, flags, alarm, limitsOn, place, motion, homed>>

\* protocol_exec_rt_system in the main loop; critical alarms wait for a reset.
Serve ==
    /\ pc = "main" /\ "reset" \in flags
    /\ IF alarm \in Critical
         THEN pc' = "critical" /\ flags' = flags \ {"reset"}
         ELSE pc' = "reinit" /\ UNCHANGED flags
    /\ AlarmTaken
    /\ UNCHANGED <<machine, program, limitsOn, cycle, phase, motion, homed, commands>>

\* A hold or the door in state HOMING, with nothing moving.
ServeHold ==
    /\ pc = "main" /\ flags \cap {"hold", "door"} # {} /\ "reset" \notin flags
    /\ flags' = {}
    /\ IF "door" \in flags THEN state' = "door" /\ pc' = "suspended"
                            ELSE state' = "hold" /\ UNCHANGED pc
    /\ lifted' = "hold"
    /\ UNCHANGED <<machine, program, alarm, limitsOn, cycle, phase, motion, homed, commands>>

CriticalEnds ==
    /\ pc = "critical" /\ "reset" \in flags
    /\ pc' = "reinit"
    /\ UNCHANGED <<machine, program, state, flags, alarm, limitsOn, cycle, phase, motion,
                   observed, commands>>

\* main() after an abort, to the main loop.
Reinitialize ==
    /\ pc = "reinit"
    /\ flags' = {} /\ alarm' = "none" /\ moving' = FALSE /\ left' = 0
    /\ axislock' = {} /\ unpolled' = 0
    /\ limitsOn' = Hard
    /\ state' = IF state = "alarm" \/ (Hard /\ Pressed(phys) # {}) THEN "alarm" ELSE "idle"
    /\ parser' = Counted /\ queued' = NoMotion
    /\ pc' = "main"
    /\ UNCHANGED <<machine, cycle, phase, observed, commands>>

\* Power-up with homing enabled: locked, the count at zero.
Init ==
    /\ phys \in Starts /\ sysPosition = Steps([a \in Axes |-> 0])
    /\ parser = [a \in Axes |-> 0] /\ queued = NoMotion
    /\ state = "alarm" /\ flags = {} /\ alarm = "none"
    /\ limitsOn = Hard
    /\ pc = "main" /\ cycle = 1 /\ phase = 0
    /\ axislock = {} /\ left = 0 /\ moving = FALSE /\ unpolled = 0
    /\ homed = {} /\ lifted = "no"
    /\ commands = MaxCommands

Stepper == Step \/ EndOfBlock
Main == \/ Begin \/ Poll \/ Fail \/ GoOn \/ PulledOff \/ Kill
        \/ NextPhase \/ CycleDone
        \/ FinishAborted \/ FinishSuspended \/ Finish \/ SuspendAborted
        \/ Run \/ LimitHit
        \/ Serve \/ ServeHold \/ CriticalEnds \/ Reinitialize
Operator == \/ RxReset \/ RxFlag
            \/ Home \/ HomeWithText \/ Unlock
            \/ \E t \in Targets : Queue(t) \/ SoftLimit(t)

Next == Stepper \/ Main \/ Operator

Spec == Init /\ [][Next]_vars
FairSpec == Spec /\ WF_vars(Stepper) /\ WF_vars(Main)

-----------------------------------------------------------------------------
(* Properties.                                                             *)

Alarms == {"none", "failReset"} \cup Critical

TypeOK ==
    /\ phys \in [Axes -> Int] /\ sysPosition \in [Motors -> Int]
    /\ parser \in [Axes -> Int] /\ queued \in [Axes -> Int] \cup {NoMotion}
    /\ state \in {"idle", "alarm", "homing", "hold", "door"}
    /\ flags \subseteq {"reset", "door", "hold", "cycleStop"} /\ alarm \in Alarms
    /\ limitsOn \in BOOLEAN
    /\ pc \in {"main", "begin", "poll", "check", "kill", "delay", "finish",
                "suspended", "critical", "reinit"}
    /\ cycle \in 1..Len(Cycles) /\ phase \in 0..3
    /\ axislock \subseteq Motors /\ left \in Nat /\ moving \in BOOLEAN
    /\ unpolled \in 0..SeekSteps
    /\ homed \subseteq Axes /\ lifted \in {"no", "unlock", "hold"}
    /\ commands \in 0..MaxCommands

\* The homed axes that went to their switches with a and on the motors of a:
\* a alone, or X and Y of a COREXY machine with one cycle for both.
Together(a) == {b \in homed : /\ MotorsOf(a) \cap MotorsOf(b) # {}
                              /\ \E i \in 1..Len(Cycles) : {a, b} \subseteq Cycles[i]}

\* What homing promises of an axis it has homed: it is not nearer to its switch
\* than it is counted, and of the axes homed together on the same motors one,
\* the one whose switch stopped them, is counted where it really is.  Homing
\* another axis, or a homing that fails, moves and recounts the same motors
\* and must not change that.
HomedIsTrue == \A a \in homed : /\ phys[a] <= Count(a)
                               /\ \E b \in Together(a) : phys[b] = Count(b)

\* What limits.c says of every axis of a cycle ("The active cycle axes should
\* now be homed and machine limits have been located"); with one cycle for X
\* and Y of a COREXY machine it is not so.
AllAxesTrue == \A a \in homed : Count(a) = phys[a]

\* Out of the lock only by homing all axes or by $X (main.c: "Only a homing
\* cycle '$H' or kill alarm locks '$X' will disable the alarm").
HomedOrLocked == (Idle /\ state = "idle") => homed = Axes \/ lifted = "unlock"

\* The same but for the one gap there is: a hold, or the door, in the state
\* HOMING that a refused $H leaves behind takes the lock off.
HomedOrLifted == (Idle /\ state = "idle") => homed = Axes \/ lifted # "no"

\* Homing turns the limit interrupt off; whichever way it ends, the interrupt
\* is on again before lines are executed.
LimitsRearmed == (Idle /\ state # "homing") => limitsOn = Hard

\* With nothing queued the parser knows where the machine has counted itself
\* to be, so that the next motion starts there (motion_control.c: "This
\* prevents incorrect buffered plans after homing").
ParserAgrees == (Idle /\ state = "idle" /\ queued = NoMotion) => parser = Counted

\* So homing hands the machine back as it found it: armed, and in agreement.
HandedBack == LimitsRearmed /\ ParserAgrees

\* Every homing comes to an end: done, aborted, or suspended by the door.
HomingEnds == (pc = "begin") ~> (pc \in {"main", "suspended"})
=============================================================================
