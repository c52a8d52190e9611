---------------------------- MODULE HomingProofs ----------------------------
(***************************************************************************)
(* For every travel, pull-off, seek rate, start, list of cycles and number *)
(* of commands: what a homing cycle hands back is armed and in agreement   *)
(* (HandedBack), and what it calls homed is homed (HomedIsTrue,            *)
(* HomedOrLifted).                                                         *)
(***************************************************************************)
EXTENDS Homing, TLAPS

-----------------------------------------------------------------------------
(* Motors, axes and the conversion between the two.                        *)

LEMMA MotorsOfAxis ==
    ASSUME NEW a \in Axes
    PROVE  MotorsOf(a) = IF a = "Z" THEN {"Z"} ELSE IF CoreXY THEN {"A", "B"}
                         ELSE IF a = "X" THEN {"A"} ELSE {"B"}
<1>1. CASE a = "Z"
  BY <1>1, Zenon DEF MotorsOf
<1>2. CASE a # "Z" /\ CoreXY
  BY <1>2, Zenon DEF MotorsOf
<1>3. CASE a = "X" /\ ~CoreXY
  BY <1>3, Zenon DEF MotorsOf
<1>4. CASE a = "Y" /\ ~CoreXY
  BY <1>4, Zenon DEF MotorsOf
<1> QED
  BY <1>1, <1>2, <1>3, <1>4 DEF Axes

\* Two axes share a motor only as X and Y of a COREXY machine.
LEMMA MotorsApart ==
    ASSUME NEW a \in Axes, NEW b \in Axes
    PROVE  /\ MotorsOf(a) # {} /\ MotorsOf(a) \subseteq Motors
           /\ (a # b /\ MotorsOf(a) \cap MotorsOf(b) # {}) => CoreXY /\ {a, b} = {"X", "Y"}
BY MotorsOfAxis DEF Axes, Motors

\* The place that motor positions stand for.
CountIn(motors) ==
    [a \in Axes |->
        IF a = "Z" THEN motors["Z"]
        ELSE IF ~CoreXY THEN motors[IF a = "X" THEN "A" ELSE "B"]
        ELSE IF a = "X" THEN (motors["A"] + motors["B"]) \div 2
        ELSE (motors["A"] - motors["B"]) \div 2]

LEMMA CountOfAxis ==
    ASSUME NEW a \in Axes
    PROVE  Count(a) = CountIn(sysPosition)[a] /\ Count(a)' = CountIn(sysPosition')[a]
<1> DEFINE at(m) == IF a = "Z" THEN m["Z"]
                    ELSE IF ~CoreXY THEN m[IF a = "X" THEN "A" ELSE "B"]
                    ELSE IF a = "X" THEN (m["A"] + m["B"]) \div 2
                    ELSE (m["A"] - m["B"]) \div 2
<1>1. Count(a) = at(sysPosition) /\ Count(a)' = at(sysPosition')
  <2>1. CASE ~CoreXY
    BY <2>1, Zenon DEF Count, Axes
  <2>2. CASE CoreXY /\ a = "X"
    BY <2>2, Zenon DEF Count
  <2>3. CASE CoreXY /\ a = "Y"
    BY <2>3, Zenon DEF Count
  <2>4. CASE CoreXY /\ a = "Z"
    BY <2>4, Zenon DEF Count
  <2> QED
    BY <2>1, <2>2, <2>3, <2>4 DEF Axes
<1> QED
  BY <1>1 DEF CountIn

LEMMA CountedIs == Counted = CountIn(sysPosition) /\ Counted' = CountIn(sysPosition')
BY CountOfAxis DEF Counted, CountIn

LEMMA StepsTyped == ASSUME NEW p \in [Axes -> Int] PROVE Steps(p) \in [Motors -> Int]
BY DEF Steps, Motors, Axes

LEMMA CountTyped ==
    ASSUME NEW motors \in [Motors -> Int] PROVE CountIn(motors) \in [Axes -> Int]
BY DEF CountIn, Motors, Axes

\* What is converted to motor steps is read back as it was.
LEMMA CountSteps == ASSUME NEW p \in [Axes -> Int] PROVE CountIn(Steps(p)) = p
<1>1. /\ p["X"] \in Int /\ p["Y"] \in Int /\ p["Z"] \in Int
  BY DEF Axes
<1>2. ASSUME NEW a \in Axes PROVE CountIn(Steps(p))[a] = p[a]
  <2>1. CASE CoreXY
    <3>1. /\ Steps(p)["A"] = p["X"] + p["Y"] /\ Steps(p)["B"] = p["X"] - p["Y"]
          /\ Steps(p)["Z"] = p["Z"]
      BY <2>1 DEF Steps
    <3> QED
      BY <1>1, <2>1, <3>1 DEF Axes, CountIn
  <2>2. CASE ~CoreXY
    <3>1. Steps(p)["A"] = p["X"] /\ Steps(p)["B"] = p["Y"] /\ Steps(p)["Z"] = p["Z"]
      BY <2>2 DEF Steps
    <3> QED
      BY <1>1, <2>2, <3>1 DEF Axes, CountIn
  <2> QED
    BY <2>1, <2>2
<1> QED
  BY <1>2 DEF CountIn

LEMMA MotionOfPhase ==
    ASSUME phase \in 0..3
    PROVE  /\ Motion \in Nat
           /\ phase \in {1, 3} => Motion = PullOff
           /\ phase = 2 => Motion = LocateScalar * PullOff
<1>1. CASE phase = 0
  <2>1. Motion = SearchTravel
    <3>1. phase # 2
      BY <1>1
    <3> QED
      BY <1>1, <3>1, Zenon DEF Motion
  <2> QED
    BY <1>1, <2>1, DistancesAssumption
<1>2. CASE phase = 2
  <2>1. Motion = LocateScalar * PullOff
    <3>1. phase # 0
      BY <1>2
    <3> QED
      BY <1>2, <3>1, Zenon DEF Motion
  <2> QED
    BY <1>2, <2>1, DistancesAssumption
<1>3. CASE phase \in {1, 3}
  <2>1. Motion = PullOff
    <3>1. phase # 0 /\ phase # 2
      BY <1>3
    <3> QED
      BY <3>1, Zenon DEF Motion
  <2> QED
    BY <1>3, <2>1, DistancesAssumption
<1> QED
  BY <1>1, <1>2, <1>3

-----------------------------------------------------------------------------
(* Types.                                                                  *)

LEMMA CyclesTyped ==
    /\ Len(Cycles) \in Nat /\ Len(Cycles) > 0
    /\ \A i \in 1..Len(Cycles) : Cycles[i] \in SUBSET Axes
BY CyclesAssumption

LEMMA CountsTyped ==
    ASSUME sysPosition \in [Motors -> Int]
    PROVE  Counted \in [Axes -> Int] /\ \A a \in Axes : Count(a) \in Int
BY CountTyped, CountedIs, CountOfAxis

\* TypeOK in three parts: where things are, what is raised, where the loop is.
PlacesTyped ==
    /\ phys \in [Axes -> Int] /\ sysPosition \in [Motors -> Int]
    /\ parser \in [Axes -> Int] /\ queued \in [Axes -> Int] \cup {NoMotion}
FlagsTyped ==
    /\ state \in {"idle", "alarm", "homing", "hold", "door"}
    /\ flags \subseteq {"reset", "door", "hold", "cycleStop"} /\ alarm \in Alarms
    /\ limitsOn \in BOOLEAN /\ moving \in BOOLEAN
    /\ lifted \in {"no", "unlock", "hold"}
LoopTyped ==
    /\ pc \in {"main", "begin", "poll", "check", "kill", "delay", "finish",
                "suspended", "critical", "reinit"}
    /\ cycle \in 1..Len(Cycles) /\ phase \in 0..3
    /\ axislock \subseteq Motors /\ left \in Nat
    /\ unpolled \in 0..SeekSteps
    /\ homed \subseteq Axes /\ commands \in 0..MaxCommands

LEMMA TypeOKParts == TypeOK <=> PlacesTyped /\ FlagsTyped /\ LoopTyped
BY DEF TypeOK, PlacesTyped, FlagsTyped, LoopTyped

LEMMA TypedInit == Init => TypeOK
<1> SUFFICES ASSUME Init PROVE PlacesTyped /\ FlagsTyped /\ LoopTyped
  BY TypeOKParts
<1>1. [a \in Axes |-> 0] \in [Axes -> Int]
  OBVIOUS
<1>2. PlacesTyped
  BY <1>1, StepsTyped, PlacesAssumption DEF Init, PlacesTyped
<1>3. FlagsTyped
  BY SwitchesAssumption DEF Init, FlagsTyped, Alarms
<1>4. LoopTyped
  BY CyclesTyped, MaxCommandsAssumption, DistancesAssumption DEF Init, LoopTyped
<1> QED
  BY <1>2, <1>3, <1>4

LEMMA PlacesStep == TypeOK /\ [Next]_vars => PlacesTyped'
<1> SUFFICES ASSUME PlacesTyped, FlagsTyped, LoopTyped, [Next]_vars PROVE PlacesTyped'
  BY TypeOKParts
<1> USE DEF machine, program, PlacesTyped
<1>1. CASE RxReset \/ RxFlag \/ EndOfBlock \/ Home \/ HomeWithText
  BY <1>1 DEF RxReset, RxFlag, ResetRaised, EndOfBlock, Home, HomeWithText
<1>2. CASE Poll \/ Fail \/ GoOn \/ PulledOff \/ Kill \/ NextPhase
  BY <1>2 DEF Poll, Fail, GoOn, PulledOff, Kill, NextPhase
<1>3. CASE FinishAborted \/ FinishSuspended \/ SuspendAborted
  BY <1>3 DEF FinishAborted, FinishSuspended, SuspendAborted, AlarmTaken
<1>4. CASE Unlock \/ Serve \/ ServeHold \/ CriticalEnds
  BY <1>4 DEF Unlock, Serve, ServeHold, CriticalEnds, AlarmTaken
<1>5. CASE Step
  <2>1. Counted \in [Axes -> Int]
    BY CountsTyped
  <2>2. ASSUME NEW p \in [Axes -> Int], NEW d \in {1, -1}, NEW S
        PROVE  Moved(p, d, S) \in [Axes -> Int]
    BY <2>2 DEF Moved
  <2>3. sysPosition' \in [Motors -> Int] /\ phys' \in [Axes -> Int]
    BY <1>5, <2>1, <2>2, StepsTyped DEF Step
  <2> QED
    BY <1>5, <2>3 DEF Step
<1>6. CASE Begin
  <2>1. [a \in Axes |-> IF a \in Mask THEN 0 ELSE Count(a)] \in [Axes -> Int]
    BY CountsTyped
  <2> QED
    BY <1>6, <2>1, StepsTyped DEF Begin
<1>7. CASE CycleDone
  <2>1. [a \in Axes |-> IF a \in Mask THEN -PullOff ELSE Count(a)] \in [Axes -> Int]
    BY CountsTyped, DistancesAssumption
  <2> QED
    BY <1>7, <2>1, StepsTyped DEF CycleDone, SetPosition
<1>8. CASE Finish \/ Reinitialize
  BY <1>8, CountsTyped DEF Finish, Reinitialize
<1>9. ASSUME NEW t \in Targets, Queue(t) \/ SoftLimit(t) PROVE PlacesTyped'
  <2>1. t \in [Axes -> Int]
    BY PlacesAssumption
  <2> QED
    BY <1>9, <2>1 DEF Queue, SoftLimit
<1>10. CASE Run
  <2>1. queued \in [Axes -> Int]
    BY <1>10 DEF Run
  <2>2. [a \in Axes |-> Count(a) + queued[a]] \in [Axes -> Int]
    BY <2>1, CountsTyped
  <2> QED
    BY <1>10, <2>1, <2>2, StepsTyped DEF Run, Reached
<1>11. CASE LimitHit
  <2>1. PICK a \in Hits : /\ phys' = [phys EXCEPT ![a] = 0]
                          /\ sysPosition' = Steps([Counted EXCEPT ![a] = @ - phys[a]])
    BY <1>11 DEF LimitHit
  <2>2. a \in Axes
    BY DEF Hits, Pressed
  <2>3. [Counted EXCEPT ![a] = @ - phys[a]] \in [Axes -> Int]
    BY <2>2, CountsTyped
  <2>4. sysPosition' \in [Motors -> Int]
    BY <2>1, <2>3, StepsTyped
  <2>5. phys' \in [Axes -> Int]
    <3>1. phys' = [phys EXCEPT ![a] = 0]
      BY <2>1, Zenon
    <3> QED
      BY <2>2, <3>1
  <2>6. parser' = parser /\ queued' = queued
    BY <1>11 DEF LimitHit
  <2> QED
    BY <2>4, <2>5, <2>6
<1>12. CASE UNCHANGED vars
  BY <1>12 DEF vars
<1> QED
  BY <1>1, <1>2, <1>3, <1>4, <1>5, <1>6, <1>7, <1>8, <1>9, <1>10, <1>11, <1>12
     DEF Next, Stepper, Main, Operator

LEMMA FlagsStep == TypeOK /\ [Next]_vars => FlagsTyped'
<1> SUFFICES ASSUME FlagsTyped, [Next]_vars PROVE FlagsTyped'
  BY TypeOKParts
<1> USE SwitchesAssumption DEF motion, observed, FlagsTyped, Alarms, Critical
<1>1. CASE RxReset \/ RxFlag \/ EndOfBlock \/ Home \/ HomeWithText
  BY <1>1 DEF RxReset, RxFlag, ResetRaised, EndOfBlock, Home, HomeWithText
<1>2. CASE Poll \/ Fail \/ GoOn \/ PulledOff \/ Kill \/ NextPhase
  BY <1>2 DEF Poll, Fail, GoOn, PulledOff, Kill, NextPhase
<1>3. CASE FinishAborted \/ FinishSuspended \/ SuspendAborted
  BY <1>3 DEF FinishAborted, FinishSuspended, SuspendAborted, AlarmTaken
<1>4. CASE Unlock \/ Serve \/ ServeHold \/ CriticalEnds
  BY <1>4 DEF Unlock, Serve, ServeHold, CriticalEnds, AlarmTaken
<1>5. CASE Step \/ Begin \/ CycleDone
  BY <1>5 DEF Step, Begin, CycleDone
<1>6. CASE Finish \/ Reinitialize
  BY <1>6 DEF Finish, Reinitialize
<1>7. ASSUME NEW t \in Targets, Queue(t) \/ SoftLimit(t) PROVE FlagsTyped'
  BY <1>7 DEF Queue, SoftLimit
<1>8. CASE Run \/ LimitHit
  BY <1>8 DEF Run, LimitHit
<1>9. CASE UNCHANGED vars
  BY <1>9 DEF vars
<1> QED
  BY <1>1, <1>2, <1>3, <1>4, <1>5, <1>6, <1>7, <1>8, <1>9 DEF Next, Stepper, Main, Operator

LEMMA LoopStep == TypeOK /\ [Next]_vars => LoopTyped'
<1> SUFFICES ASSUME LoopTyped, [Next]_vars PROVE LoopTyped'
  BY TypeOKParts
<1> USE CyclesTyped, DistancesAssumption, MaxCommandsAssumption
    DEF place, motion, observed, LoopTyped
<1>1. CASE RxReset \/ RxFlag \/ EndOfBlock \/ Home \/ HomeWithText
  BY <1>1 DEF RxReset, RxFlag, ResetRaised, EndOfBlock, Home, HomeWithText
<1>2. CASE Poll \/ Fail \/ GoOn \/ PulledOff \/ Kill \/ NextPhase
  BY <1>2 DEF Poll, Fail, GoOn, PulledOff, Kill, NextPhase
<1>3. CASE FinishAborted \/ FinishSuspended \/ SuspendAborted
  BY <1>3 DEF FinishAborted, FinishSuspended, SuspendAborted, AlarmTaken
<1>4. CASE Unlock \/ Serve \/ ServeHold \/ CriticalEnds
  BY <1>4 DEF Unlock, Serve, ServeHold, CriticalEnds, AlarmTaken
<1>5. CASE Step
  BY <1>5 DEF Step
<1>6. CASE Begin
  <2>1. UNION {MotorsOf(a) : a \in Mask} \subseteq Motors
    BY MotorsApart DEF Mask
  <2> QED
    BY <1>6, <2>1, MotionOfPhase DEF Begin
<1>7. CASE CycleDone
  BY <1>7 DEF CycleDone, Mask
<1>8. CASE Finish \/ Reinitialize
  BY <1>8 DEF Finish, Reinitialize
<1>9. ASSUME NEW t \in Targets, Queue(t) \/ SoftLimit(t) PROVE LoopTyped'
  BY <1>9 DEF Queue, SoftLimit
<1>10. CASE Run \/ LimitHit
  BY <1>10 DEF Run, LimitHit
<1>11. CASE UNCHANGED vars
  BY <1>11 DEF vars
<1> QED
  BY <1>1, <1>2, <1>3, <1>4, <1>5, <1>6, <1>7, <1>8, <1>9, <1>10, <1>11
     DEF Next, Stepper, Main, Operator

LEMMA TypedStep == TypeOK /\ [Next]_vars => TypeOK'
<1>1. TypeOK' <=> PlacesTyped' /\ FlagsTyped' /\ LoopTyped'
  BY DEF TypeOK, PlacesTyped, FlagsTyped, LoopTyped
<1> QED
  BY <1>1, PlacesStep, FlagsStep, LoopStep

\* Every variable keeps its type, for all cycles and distances.
THEOREM HomingTyped == Spec => []TypeOK
BY TypedInit, TypedStep, PTL DEF Spec
-----------------------------------------------------------------------------
(* The machine is handed back armed and in agreement.                      *)

Loop == {"begin", "poll", "check", "kill", "delay"}

\* What sys.state and the flags are where the program is: in the state HOMING
\* a reset is an alarm, and an alarm has its reset.
Control ==
    /\ pc \in Loop \cup {"finish"} => state = "homing"
    /\ pc \in {"suspended", "critical", "reinit"} => state # "homing" /\ alarm = "none"
    /\ alarm # "none" => "reset" \in flags
    /\ (state = "homing" /\ "reset" \in flags) => alarm # "none"
    /\ moving => pc \in {"poll", "check", "kill"}

LEMMA ControlStep == Control /\ [Next]_vars => Control'
<1> SUFFICES ASSUME Control, [Next]_vars PROVE Control'
  OBVIOUS
<1> USE DEF machine, program, motion, place, observed, Control, Loop
<1>1. CASE RxReset
  BY <1>1 DEF RxReset, ResetRaised
<1>2. CASE RxFlag
  BY <1>2 DEF RxFlag
<1>3. CASE Home \/ HomeWithText \/ Unlock
  BY <1>3 DEF Home, HomeWithText, Unlock, Idle
<1>4. CASE Step \/ EndOfBlock
  BY <1>4 DEF Step, EndOfBlock
<1>5. CASE Begin \/ Poll \/ GoOn \/ PulledOff \/ Kill \/ NextPhase \/ CycleDone
  BY <1>5 DEF Begin, Poll, GoOn, PulledOff, Kill, NextPhase, CycleDone
<1>6. CASE Fail
  BY <1>6 DEF Fail
<1>7. CASE FinishAborted \/ FinishSuspended \/ Finish
  BY <1>7 DEF FinishAborted, FinishSuspended, Finish, AlarmTaken
<1>8. CASE SuspendAborted \/ CriticalEnds \/ Reinitialize
  BY <1>8 DEF SuspendAborted, CriticalEnds, Reinitialize
<1>9. CASE Serve \/ ServeHold
  BY <1>9 DEF Serve, ServeHold, AlarmTaken
<1>10. CASE Run \/ LimitHit
  BY <1>10 DEF Run, LimitHit, Idle
<1>11. ASSUME NEW t \in Targets, Queue(t) \/ SoftLimit(t) PROVE Control'
  BY <1>11 DEF Queue, SoftLimit, Idle
<1>12. CASE UNCHANGED vars
  BY <1>12 DEF vars
<1> QED
  BY <1>1, <1>2, <1>3, <1>4, <1>5, <1>6, <1>7, <1>8, <1>9, <1>10, <1>11, <1>12
     DEF Next, Stepper, Main, Operator

LEMMA ControlInvariant == Spec => []Control
<1>1. Init => Control
  BY DEF Init, Control, Loop
<1> QED
  BY <1>1, ControlStep, PTL DEF Spec

\* The limit interrupt is on in the main loop, also while a refused $H or a
\* reset is pending.
Rearmed == pc = "main" => limitsOn = Hard

LEMMA RearmedStep == Rearmed /\ [Next]_vars => Rearmed'
<1> SUFFICES ASSUME Rearmed, [Next]_vars PROVE Rearmed'
  OBVIOUS
<1> USE DEF place, Rearmed
<1>1. CASE Stepper
  BY <1>1 DEF Stepper, Step, EndOfBlock
<1>2. CASE Operator
  BY <1>2 DEF Operator, RxReset, RxFlag, Home, HomeWithText, Unlock, Queue, SoftLimit
<1>3. CASE Main
  BY <1>3 DEF Main, Begin, Poll, Fail, GoOn, PulledOff, Kill, NextPhase, CycleDone,
     FinishAborted, FinishSuspended, Finish, SuspendAborted, Run, LimitHit, Serve, ServeHold,
     CriticalEnds, Reinitialize
<1>4. CASE UNCHANGED vars
  BY <1>4 DEF vars
<1> QED
  BY <1>1, <1>2, <1>3, <1>4 DEF Next

\* However homing ends, the limit interrupt is on again before lines are
\* executed.
THEOREM LimitsAlwaysRearmed == Spec => []LimitsRearmed
<1>1. Init => Rearmed
  BY DEF Init, Rearmed
<1>2. Rearmed => LimitsRearmed
  BY DEF Rearmed, LimitsRearmed, Idle
<1> QED
  BY <1>1, <1>2, RearmedStep, PTL DEF Spec

\* The parser stands where the motion queued will end, until an alarm is
\* raised that ends in the reinitialisation; homing plans on an empty queue.
Planned ==
    /\ (pc = "main" /\ alarm = "none")
         => parser = IF queued = NoMotion THEN Counted
                     ELSE [a \in Axes |-> Counted[a] + queued[a]]
    /\ pc \in Loop \cup {"finish"} => queued = NoMotion

LEMMA PlannedStep ==
    ASSUME ~BackToBack
    PROVE  TypeOK /\ Control /\ Planned /\ [Next]_vars => Planned'
<1> SUFFICES ASSUME TypeOK, Control, Planned, [Next]_vars PROVE Planned'
  OBVIOUS
<1> USE DEF machine, program, motion, place, observed, Planned, Loop
<1>0. UNCHANGED sysPosition => Counted' = Counted
  BY CountedIs
<1>1. CASE RxReset \/ RxFlag
  BY <1>0, <1>1 DEF RxReset, RxFlag, ResetRaised
<1>2. CASE Home \/ HomeWithText \/ Unlock
  BY <1>0, <1>2 DEF Home, HomeWithText, Unlock, Idle
<1>3. CASE Step \/ EndOfBlock
  BY <1>0, <1>3 DEF Step, EndOfBlock, Control
<1>4. CASE Begin \/ Poll \/ GoOn \/ PulledOff \/ Kill \/ NextPhase \/ CycleDone \/ Fail
  BY <1>4 DEF Begin, Poll, GoOn, PulledOff, Kill, NextPhase, CycleDone, Fail
<1>5. CASE FinishAborted \/ FinishSuspended \/ SuspendAborted \/ CriticalEnds
  BY <1>5 DEF FinishAborted, FinishSuspended, SuspendAborted, CriticalEnds
<1>6. CASE Finish \/ Reinitialize
  BY <1>0, <1>6 DEF Finish, Reinitialize
<1>7. CASE Serve \/ ServeHold
  BY <1>0, <1>7 DEF Serve, ServeHold, AlarmTaken, Control
<1>8. CASE Run
  <2>1. queued # NoMotion /\ parser = [a \in Axes |-> Counted[a] + queued[a]]
    BY <1>8 DEF Run, Idle
  <2>2. queued \in [Axes -> Int] /\ Counted \in [Axes -> Int]
    BY <2>1, CountsTyped DEF TypeOK
  <2>3. [a \in Axes |-> Count(a) + queued[a]] = parser
    BY <2>1 DEF Counted
  <2>4. parser \in [Axes -> Int]
    BY DEF TypeOK
  <2>5. Counted' = parser
    BY <1>8, <2>3, <2>4, CountSteps, CountedIs DEF Run
  <2> QED
    BY <1>8, <2>5 DEF Run, Idle
<1>9. CASE LimitHit
  BY <1>9 DEF LimitHit, Idle
<1>10. ASSUME NEW t \in Targets, SoftLimit(t) PROVE Planned'
  BY <1>10 DEF SoftLimit, Idle
<1>11. ASSUME NEW t \in Targets, Queue(t) PROVE Planned'
  <2>1. t \in [Axes -> Int] /\ parser \in [Axes -> Int] /\ parser = Counted
    BY <1>11, PlacesAssumption DEF Queue, Idle, TypeOK
  <2>2. parser' = t /\ queued' = [a \in Axes |-> t[a] - parser[a]] /\ Counted' = Counted
    BY <1>0, <1>11 DEF Queue
  <2>3. queued' # NoMotion
    <3>1. DOMAIN queued' = Axes /\ DOMAIN NoMotion = 1..0
      BY <2>2 DEF NoMotion
    <3>2. "X" \in Axes /\ "X" \notin 1..0
      BY DEF Axes
    <3> QED
      BY <3>1, <3>2
  <2>4. t = [a \in Axes |-> Counted[a] + queued'[a]]
    BY <2>1, <2>2
  <2>5. pc' = "main"
    BY <1>11 DEF Queue, Idle
  <2> QED
    BY <2>2, <2>3, <2>4, <2>5
<1>12. CASE UNCHANGED vars
  BY <1>0, <1>12 DEF vars
<1> QED
  BY <1>1, <1>2, <1>3, <1>4, <1>5, <1>6, <1>7, <1>8, <1>9, <1>10, <1>11, <1>12
     DEF Next, Stepper, Main, Operator

\* What homing hands back is armed, and the parser knows where it stands:
\* through homings done, failed, refused or suspended, limits hit and resets,
\* provided that $H never arrives with motion still queued.
THEOREM AlwaysHandedBack == ASSUME ~BackToBack PROVE Spec => []HandedBack
<1>1. Init => Planned
  <2> SUFFICES ASSUME Init PROVE Planned
    OBVIOUS
  <2>1. [a \in Axes |-> 0] \in [Axes -> Int]
    OBVIOUS
  <2>2. Counted = [a \in Axes |-> 0]
    BY <2>1, CountSteps, CountedIs DEF Init
  <2> QED
    BY <2>2 DEF Init, Planned, Loop
<1>2. Planned => ParserAgrees
  BY DEF Planned, ParserAgrees, Idle
<1>3. LimitsRearmed /\ ParserAgrees => HandedBack
  BY DEF HandedBack
<1> QED
  BY <1>1, <1>2, <1>3, PlannedStep, ControlInvariant, HomingTyped, LimitsAlwaysRearmed, PTL
     DEF Spec
-----------------------------------------------------------------------------
(* Out of the lock only by homing all axes, by $X or by a hold.            *)

\* The cycles done so far have homed their axes, but for those of the cycle
\* under way; the lock is off only with all axes homed, or lifted.
Covered ==
    /\ pc \in Loop => \A i \in 1..cycle - 1 : Cycles[i] \ Mask \subseteq homed
    /\ pc = "finish" => homed = Axes
    /\ (state \in {"idle", "hold", "door"} /\ alarm = "none" /\ lifted = "no")
         => homed = Axes

\* The cycles home every axis.
AllHomed == \A a \in Axes : \E i \in 1..Len(Cycles) : a \in Cycles[i]

LEMMA CoveredStep ==
    ASSUME AllHomed
    PROVE  TypeOK /\ Control /\ Covered /\ [Next]_vars => Covered'
<1> SUFFICES ASSUME TypeOK, Control, Covered, [Next]_vars PROVE Covered'
  OBVIOUS
<1> USE DEF machine, program, motion, place, observed, Covered, Loop, Mask
<1>0. cycle \in 1..Len(Cycles) /\ homed \subseteq Axes /\ phase \in 0..3
  BY DEF TypeOK
<1>1. CASE RxReset \/ RxFlag
  BY <1>1 DEF RxReset, RxFlag, ResetRaised
<1>2. CASE Home \/ HomeWithText \/ Unlock
  BY <1>2 DEF Home, HomeWithText, Unlock, Idle
<1>3. CASE Step \/ EndOfBlock
  BY <1>3 DEF Step, EndOfBlock
<1>4. CASE Begin
  BY <1>4 DEF Begin, Control
<1>5. CASE Poll \/ GoOn \/ PulledOff \/ Kill \/ NextPhase \/ Fail
  BY <1>5 DEF Poll, GoOn, PulledOff, Kill, NextPhase, Fail
<1>6. CASE CycleDone
  <2>1. /\ pc = "delay" /\ homed' = homed \cup Cycles[cycle]
        /\ UNCHANGED <<state, alarm, lifted>> /\ state = "homing"
    BY <1>6 DEF CycleDone, Control
  <2>2. \A i \in 1..cycle : Cycles[i] \subseteq homed'
    <3>1. ASSUME NEW i \in 1..cycle PROVE Cycles[i] \subseteq homed'
      <4>1. CASE i = cycle
        BY <2>1, <4>1
      <4>2. CASE i \in 1..cycle - 1
        BY <2>1, <4>2
      <4> QED
        BY <1>0, <4>1, <4>2
    <3> QED
      BY <3>1
  <2>3. CASE cycle < Len(Cycles)
    <3>1. cycle' = cycle + 1 /\ pc' = "begin"
      BY <1>6, <2>3 DEF CycleDone
    <3>2. 1..cycle' - 1 = 1..cycle
      BY <1>0, <3>1
    <3> QED
      BY <2>1, <2>2, <3>1, <3>2
  <2>4. CASE ~(cycle < Len(Cycles))
    <3>1. pc' = "finish" /\ cycle = Len(Cycles)
      BY <1>0, <1>6, <2>4, CyclesTyped DEF CycleDone
    <3>2. Axes \subseteq homed'
      BY <2>2, <3>1 DEF AllHomed
    <3>3. homed' \subseteq Axes
      BY <1>0, <2>1, CyclesTyped
    <3> QED
      BY <2>1, <3>1, <3>2, <3>3
  <2> QED
    BY <2>3, <2>4
<1>7. CASE FinishAborted \/ FinishSuspended \/ Finish
  BY <1>7 DEF FinishAborted, FinishSuspended, Finish, AlarmTaken, Control
<1>8. CASE SuspendAborted \/ CriticalEnds \/ Reinitialize
  BY <1>0, <1>8 DEF SuspendAborted, CriticalEnds, Reinitialize, Control, TypeOK
<1>9. CASE Serve \/ ServeHold
  BY <1>9 DEF Serve, ServeHold, AlarmTaken, Control
<1>10. CASE Run \/ LimitHit
  BY <1>10 DEF Run, LimitHit, Idle
<1>11. ASSUME NEW t \in Targets, Queue(t) \/ SoftLimit(t) PROVE Covered'
  BY <1>11 DEF Queue, SoftLimit, Idle
<1>12. CASE UNCHANGED vars
  BY <1>12 DEF vars
<1> QED
  BY <1>1, <1>2, <1>3, <1>4, <1>5, <1>6, <1>7, <1>8, <1>9, <1>10, <1>11, <1>12
     DEF Next, Stepper, Main, Operator

\* If the cycles cover the axes, the lock set at power-up, by failures and by
\* limits is off only with every axis homed, or when $X, or a hold in the state
\* HOMING, has taken it off.
THEOREM AlwaysHomedOrLifted == ASSUME AllHomed PROVE Spec => []HomedOrLifted
<1>1. Init => Covered
  BY DEF Init, Covered, Loop
<1>2. Covered => HomedOrLifted
  BY DEF Covered, HomedOrLifted, Idle
<1> QED
  BY <1>1, <1>2, CoveredStep, ControlInvariant, HomingTyped, PTL DEF Spec
-----------------------------------------------------------------------------
(* What is called homed is counted where it is.                            *)

\* The machine the proof is about: HOMING_AXIS_LOCATE_SCALAR is more than one
\* (limits.c:30), and a COREXY machine begins with its switches clear; if one
\* of its cycles homes X and Y (config.h:106), no other one homes either again.
Locatable ==
    /\ LocateScalar > 1
    /\ CoreXY => /\ ClearFirst
                 /\ \A i, j \in 1..Len(Cycles) :
                      ({"X", "Y"} \subseteq Cycles[i] /\ Cycles[j] \cap {"X", "Y"} # {}) => i = j

Running == pc \in {"poll", "check", "kill"}
On(a) == MotorsOf(a) \subseteq axislock
Off(a) == MotorsOf(a) \cap axislock = {}

\* X and Y of a COREXY machine in one cycle move as one: the switch that stops
\* them is the one of the axis in front.
Paired(a) == CoreXY /\ a # "Z" /\ {"X", "Y"} \subseteq Mask
Front(a) == IF Paired(a) THEN IF phys["X"] < phys["Y"] THEN phys["Y"] ELSE phys["X"]
                         ELSE phys[a]

\* What each of the four motions does to the front of an axis of the cycle.  The first one
\* ends on the switch, maybe beyond it.
Seeking(a) ==
    /\ pc \in {"poll", "check"} => On(a) \/ (Off(a) /\ Front(a) >= 0)
    /\ pc = "kill" => Off(a) /\ Front(a) >= 0
    /\ pc = "delay" => Front(a) >= 0

\* The second one ends off the switch, at most the pull-off away.
Backing(a) ==
    /\ pc = "begin" => Front(a) >= 0
    /\ Running => On(a) /\ Front(a) >= left - PullOff
    /\ pc = "kill" => Front(a) < 0
    /\ pc = "delay" => Front(a) >= -PullOff /\ Front(a) < 0

\* The third one stops at the edge of the switch, with steps to spare: it ends
\* by the switch, so that no cycle stop is left behind, unless the pull-off is
\* a single step.
Locating(a) ==
    /\ pc = "begin" => Front(a) >= -PullOff /\ Front(a) < 0
    /\ Running => /\ unpolled <= 1
                  /\ \/ Off(a) /\ Front(a) = 0
                     \/ /\ On(a) /\ Front(a) <= 0 /\ (Front(a) = 0 => unpolled = 1)
                        /\ Front(a) + left >= PullOff
    /\ pc = "poll" => axislock # {}
    /\ (pc \in {"check", "kill"} /\ axislock = {}) => left + unpolled >= PullOff
    /\ pc = "kill" => axislock = {}
    /\ pc = "delay" => Front(a) = 0
    /\ (pc \in {"kill", "delay"} /\ "cycleStop" \in flags) => PullOff <= 1

\* The last one runs to its end: the axis stands at the pull-off.
Leaving(a) ==
    /\ pc = "begin" => Front(a) = 0 /\ ("cycleStop" \in flags => PullOff <= 1)
    /\ pc \in {"poll", "check"} =>
         /\ On(a) /\ Front(a) = left - PullOff
         /\ "cycleStop" \in flags => left = 0 \/ PullOff <= 1
    /\ pc = "kill" => left = 0
    /\ pc \in {"kill", "delay"} => Front(a) = -PullOff /\ Front(a) < 0

InPhase(a) == /\ phase = 0 => Seeking(a)
              /\ phase = 1 => Backing(a)
              /\ phase = 2 => Locating(a)
              /\ phase = 3 => Leaving(a)

\* On a COREXY machine no switch of another axis is pressed, which would lock
\* the motors of the cycle; only these are under way; homed are the others.
Clear == (pc \in Loop /\ CoreXY) => \A b \in Axes \ Mask : phys[b] < 0
MaskMotors == UNION {MotorsOf(a) : a \in Mask}
Locks == Running => axislock \subseteq MaskMotors
Apart == (pc \in Loop /\ pc # "begin") => homed \cap Mask = {}
Search == Clear /\ Locks /\ Apart /\ (pc \in Loop => \A a \in Mask : InPhase(a))

\* The front of an axis, and the axis it is the place of.
LEMMA FrontOfAxis ==
    ASSUME TypeOK, NEW a \in Mask
    PROVE  /\ Front(a) \in Int
           /\ \E b \in Mask : MotorsOf(b) = MotorsOf(a) /\ phys[b] = Front(a)
           /\ \A b \in Mask : MotorsOf(b) \cap MotorsOf(a) # {} => phys[b] <= Front(a)
<1>1. Mask \subseteq Axes /\ a \in Axes /\ phys \in [Axes -> Int]
  BY CyclesTyped DEF TypeOK, Mask
<1>2. CASE Paired(a)
  <2>1. /\ a \in {"X", "Y"} /\ "X" \in Mask /\ "Y" \in Mask /\ "Z" \in Axes /\ CoreXY
        /\ phys["X"] \in Int /\ phys["Y"] \in Int
    BY <1>1, <1>2 DEF Paired, Axes
  <2>2. /\ MotorsOf("X") = {"A", "B"} /\ MotorsOf("Y") = {"A", "B"} /\ MotorsOf("Z") = {"Z"}
    BY <1>1, <2>1, MotorsOfAxis
  <2>3. Front(a) = IF phys["X"] < phys["Y"] THEN phys["Y"] ELSE phys["X"]
    BY <1>2 DEF Front
  <2>4. ASSUME NEW b \in Mask, MotorsOf(b) \cap MotorsOf(a) # {} PROVE phys[b] <= Front(a)
    <3>1. b \in {"X", "Y"}
      BY <1>1, <2>1, <2>2, <2>4 DEF Axes
    <3> QED
      BY <2>1, <2>3, <3>1
  <2> QED
    BY <2>1, <2>2, <2>3, <2>4
<1>3. CASE ~Paired(a)
  <2>1. Front(a) = phys[a] /\ phys[a] \in Int
    BY <1>1, <1>3 DEF Front
  <2>2. ASSUME NEW b \in Mask, MotorsOf(b) \cap MotorsOf(a) # {} PROVE b = a
    <3>1. b # a => CoreXY /\ {b, a} = {"X", "Y"}
      BY <1>1, <2>2, MotorsApart
    <3> QED
      BY <1>3, <2>2, <3>1 DEF Paired
  <2> QED
    BY <2>1, <2>2
<1> QED
  BY <1>2, <1>3

\* Homed axes stay counted where they are if those that stay homed move with
\* their counts, and with those they were homed together with.
LEMMA HomedMoved ==
    ASSUME TypeOK, HomedIsTrue, homed' \subseteq homed,
           \A a \in homed' : \E d \in Int : phys'[a] = phys[a] + d /\ Count(a)' = Count(a) + d,
           \A a \in homed' : Together(a) \subseteq homed'
    PROVE  HomedIsTrue'
<1>1. homed \subseteq Axes /\ phys \in [Axes -> Int] /\ \A a \in Axes : Count(a) \in Int
  BY CountsTyped DEF TypeOK
<1>2. ASSUME NEW a \in homed'
      PROVE  phys'[a] <= Count(a)' /\ \E b \in Together(a)' : phys'[b] = Count(b)'
  <2>1. phys[a] <= Count(a)
    BY <1>2 DEF HomedIsTrue
  <2>2. PICK b \in Together(a) : phys[b] = Count(b)
    BY <1>2 DEF HomedIsTrue
  <2>3. b \in homed' /\ b \in Axes /\ a \in Axes
    BY <1>1, <1>2
  <2>4. b \in Together(a)'
    BY <2>2, <2>3 DEF Together, MotorsOf
  <2>5. phys'[b] = Count(b)'
    BY <1>1, <2>2, <2>3
  <2>6. phys'[a] <= Count(a)'
    <3>1. PICK d \in Int : phys'[a] = phys[a] + d /\ Count(a)' = Count(a) + d
      BY <1>2
    <3>2. phys[a] \in Int /\ Count(a) \in Int
      BY <1>1, <2>3
    <3> QED
      BY <2>1, <3>1, <3>2
  <2> QED
    BY <2>4, <2>5, <2>6
<1> QED
  BY <1>2 DEF HomedIsTrue

LEMMA HomedKept ==
    ASSUME TypeOK, HomedIsTrue, UNCHANGED machine, homed' = homed
    PROVE  HomedIsTrue'
<1>1. homed \subseteq Axes /\ phys \in [Axes -> Int] /\ \A a \in Axes : Count(a) \in Int
  BY CountsTyped DEF TypeOK
<1>2. ASSUME NEW a \in homed' PROVE phys'[a] = phys[a] + 0 /\ Count(a)' = Count(a) + 0
  BY <1>1, <1>2, CountOfAxis DEF machine
<1>3. \A a \in homed' : Together(a) \subseteq homed'
  BY DEF Together
<1> QED
  BY <1>2, <1>3, HomedMoved

\* A step of the stepper interrupt.
LEMMA SearchStepped ==
    ASSUME TypeOK, Control, Search, HomedIsTrue, Step
    PROVE  Search' /\ HomedIsTrue'
<1> DEFINE dir == IF Approach THEN 1 ELSE -1
<1>1. /\ Running /\ pc \in Loop /\ pc # "begin" /\ left > 0
      /\ left' = left - 1 /\ unpolled' = unpolled + 1 /\ (phase = 2 => unpolled = 0)
      /\ UNCHANGED <<flags, pc, cycle, phase, axislock, homed>>
  BY DEF Step, Control, Running, Loop, place, observed, TypeOK
<1>2. /\ Mask \subseteq Axes /\ homed \subseteq Axes /\ phys \in [Axes -> Int]
      /\ left \in Nat /\ unpolled \in Nat /\ phase \in 0..3 /\ PullOff \in Nat
      /\ dir \in Int
  BY CyclesTyped, DistancesAssumption DEF TypeOK, Mask
<1>3. ASSUME NEW a \in Mask
      PROVE  /\ On(a) => Front(a)' = Front(a) + dir
             /\ Off(a) => Front(a)' = Front(a)
             /\ On(a)' = On(a) /\ Off(a)' = Off(a)
  <2>1. a \in Axes /\ Mask' = Mask
    BY <1>1, <1>2 DEF Mask
  <2>2. phys' = Moved(phys, dir, {b \in Mask : MotorsOf(b) \subseteq axislock})
    BY DEF Step
  <2>3. On(a)' = On(a) /\ Off(a)' = Off(a)
    <3>1. MotorsOf(a)' = MotorsOf(a)
      BY DEF MotorsOf
    <3> QED
      BY <1>1, <3>1 DEF On, Off
  <2>4. ASSUME NEW b \in Mask, MotorsOf(b) = MotorsOf(a)
        PROVE  /\ phys[b] \in Int
               /\ On(a) => phys'[b] = phys[b] + dir
               /\ Off(a) => phys'[b] = phys[b]
    <3>1. b \in Axes /\ MotorsOf(b) # {}
      BY <1>2, MotorsApart
    <3> QED
      BY <1>2, <2>2, <2>4, <3>1 DEF Moved, On, Off
  <2>5. CASE Paired(a)
    <3>1. Paired(a)' /\ "X" \in Mask /\ "Y" \in Mask
      BY <2>1, <2>5 DEF Paired
    <3>2. MotorsOf("X") = MotorsOf(a) /\ MotorsOf("Y") = MotorsOf(a)
      <4>1. "X" \in Axes /\ "Y" \in Axes
        BY DEF Axes
      <4> QED
        BY <2>1, <2>5, <4>1, MotorsOfAxis DEF Paired
    <3>3. /\ phys["X"] \in Int /\ phys["Y"] \in Int
          /\ On(a) => phys'["X"] = phys["X"] + dir /\ phys'["Y"] = phys["Y"] + dir
          /\ Off(a) => phys'["X"] = phys["X"] /\ phys'["Y"] = phys["Y"]
      BY <2>4, <3>1, <3>2
    <3>4. /\ Front(a) = IF phys["X"] < phys["Y"] THEN phys["Y"] ELSE phys["X"]
          /\ Front(a)' = IF phys'["X"] < phys'["Y"] THEN phys'["Y"] ELSE phys'["X"]
      BY <2>5, <3>1 DEF Front
    <3> HIDE DEF dir
    <3> QED
      BY <1>2, <2>3, <3>3, <3>4
  <2>6. CASE ~Paired(a)
    <3>1. ~Paired(a)'
      BY <2>1, <2>6 DEF Paired
    <3>2. Front(a) = phys[a] /\ Front(a)' = phys'[a]
      BY <2>6, <3>1 DEF Front
    <3> QED
      BY <2>3, <2>4, <3>2
  <2> QED
    BY <2>5, <2>6
<1>4. ASSUME NEW b \in Axes \ Mask PROVE phys'[b] = phys[b] /\ Count(b)' = Count(b)
  <2>1. phys' = Moved(phys, dir, {a \in Mask : MotorsOf(a) \subseteq axislock})
        /\ sysPosition' = Steps(Moved(Counted, dir, Mask))
    BY DEF Step
  <2>2. Counted \in [Axes -> Int]
    BY CountsTyped DEF TypeOK
  <2>3. Moved(Counted, dir, Mask) \in [Axes -> Int]
    BY <1>2, <2>2 DEF Moved
  <2>4. Counted' = Moved(Counted, dir, Mask)
    BY <2>1, <2>3, CountSteps, CountedIs
  <2>5. Count(b)' = Moved(Counted, dir, Mask)[b]
    BY <2>4, CountOfAxis, CountedIs
  <2> QED
    BY <2>1, <2>5 DEF Moved, Counted
<1>5. HomedIsTrue'
  <2>1. ASSUME NEW a \in homed PROVE phys'[a] = phys[a] + 0 /\ Count(a)' = Count(a) + 0
    <3>1. a \in Axes \ Mask /\ phys[a] \in Int /\ Count(a) \in Int
      BY <1>1, <1>2, CountsTyped DEF Search, Apart, TypeOK
    <3> QED
      BY <1>4, <3>1
  <2> QED
    BY <1>1, <2>1, HomedMoved DEF Together
<1>6. Mask' = Mask /\ Running' /\ pc' \in Loop
  BY <1>1 DEF Mask, Running
<1>7. (pc \in Loop /\ CoreXY) => \A b \in Axes \ Mask : phys'[b] < 0
  BY <1>4 DEF Search, Clear
<1>8. ASSUME NEW a \in Mask
      PROVE  InPhase(a)'
  <2>1. Front(a) \in Int
    BY FrontOfAxis
  <2>2. CASE phase = 0
    <3>1. Seeking(a) /\ dir = 1
      BY <1>1, <2>2 DEF Search, InPhase, Approach
    <3> QED
      BY <1>1, <1>3, <2>1, <2>2, <3>1 DEF InPhase, Seeking, Running
  <2>3. CASE phase = 1
    <3>1. Backing(a) /\ dir = -1
      BY <1>1, <2>3 DEF Search, InPhase, Approach
    <3> QED
      BY <1>1, <1>2, <1>3, <1>6, <2>1, <2>3, <3>1 DEF InPhase, Backing, Running
  <2>4. CASE phase = 2
    <3>1. Locating(a) /\ dir = 1
      BY <1>1, <2>4 DEF Search, InPhase, Approach
    <3> QED
      BY <1>1, <1>2, <1>3, <1>6, <2>1, <2>4, <3>1 DEF InPhase, Locating, Running
  <2>5. CASE phase = 3
    <3>1. Leaving(a) /\ dir = -1
      BY <1>1, <2>5 DEF Search, InPhase, Approach
    <3> QED
      BY <1>1, <1>2, <1>3, <1>6, <2>1, <2>5, <3>1 DEF InPhase, Leaving, Running
  <2> QED
    BY <1>1, <1>2, <2>2, <2>3, <2>4, <2>5 DEF InPhase
<1>9. MaskMotors' = MaskMotors
  BY <1>6 DEF MaskMotors, MotorsOf
<1>10. Locks' /\ Apart'
  BY <1>1, <1>6, <1>9 DEF Search, Locks, Apart, Running
<1>11. Clear'
  BY <1>1, <1>6, <1>7 DEF Clear
<1> QED
  BY <1>1, <1>5, <1>6, <1>8, <1>10, <1>11 DEF Search

\* What a poll locks: the axes of the cycle that are on their switch.
LEMMA PollLocks ==
    ASSUME TypeOK, Search, pc = "poll", NEW a \in Mask
    PROVE  /\ (On(a) /\ Front(a) >= 0) => MotorsOf(a) \subseteq Locked
           /\ Front(a) < 0 => MotorsOf(a) \cap Locked = {}
<1>1. Mask \subseteq Axes /\ a \in Axes /\ phys \in [Axes -> Int]
      /\ cycle \in 1..Len(Cycles)
  BY CyclesTyped DEF TypeOK, Mask
<1>2. ASSUME On(a), Front(a) >= 0 PROVE MotorsOf(a) \subseteq Locked
  <2>1. PICK b \in Mask : MotorsOf(b) = MotorsOf(a) /\ phys[b] = Front(a)
    BY FrontOfAxis
  <2> QED
    BY <1>1, <1>2, <2>1, MotorsApart DEF On, Locked, Pressed
<1>3. ASSUME Front(a) < 0, NEW m \in MotorsOf(a), m \in Locked PROVE FALSE
  <2>1. PICK b \in Pressed(phys) : m \in MotorsOf(b)
    BY <1>3 DEF Locked
  <2>2. b \in Axes /\ phys[b] \in Int /\ phys[b] >= 0
    BY <1>1, <2>1 DEF Pressed
  <2>3. b # a => CoreXY
    BY <1>1, <1>3, <2>1, <2>2, MotorsApart
  <2>4. b \in Mask
    BY <2>2, <2>3 DEF Search, Clear, Loop
  <2>5. phys[b] <= Front(a) /\ Front(a) \in Int
    BY <1>3, <2>1, <2>4, FrontOfAxis
  <2> QED
    BY <1>3, <2>2, <2>5
<1> QED
  BY <1>2, <1>3

LEMMA SearchPolled ==
    ASSUME TypeOK, Search, Poll
    PROVE  Search'
<1>1. /\ pc = "poll" /\ pc' = "check" /\ unpolled' = 0
      /\ axislock' = IF Approach THEN axislock \ Locked ELSE axislock
      /\ UNCHANGED <<phys, flags, cycle, phase, left, homed>>
  BY DEF Poll, machine, observed
<1>2. /\ Mask' = Mask /\ Mask \subseteq Axes /\ phys \in [Axes -> Int]
      /\ left \in Nat /\ phase \in 0..3 /\ PullOff \in Nat
  BY <1>1, CyclesTyped, DistancesAssumption DEF TypeOK, Mask
<1>3. ASSUME NEW a \in Mask
      PROVE  /\ ~Approach => (On(a) => On(a)')
             /\ (Approach /\ On(a)) => IF Front(a) >= 0 THEN Off(a)' ELSE On(a)'
             /\ Off(a) => Off(a)'
             /\ Front(a)' = Front(a)
  <2>1. MotorsOf(a)' = MotorsOf(a)
    BY DEF MotorsOf
  <2>2. Front(a) \in Int
    BY FrontOfAxis
  <2>3. Front(a)' = Front(a)
    BY <1>1, <1>2 DEF Front, Paired
  <2> QED
    BY <1>1, <2>1, <2>2, <2>3, PollLocks DEF On, Off
<1>4. ASSUME NEW a \in Mask
      PROVE  InPhase(a)'
  <2>1. Front(a) \in Int
    BY FrontOfAxis
  <2>2. CASE phase = 0
    <3>1. Seeking(a) /\ Approach
      BY <1>1, <2>2 DEF Search, InPhase, Approach, Loop
    <3> QED
      BY <1>1, <1>3, <2>1, <2>2, <3>1 DEF InPhase, Seeking
  <2>3. CASE phase = 1
    <3>1. Backing(a) /\ ~Approach
      BY <1>1, <2>3 DEF Search, InPhase, Approach, Loop
    <3> QED
      BY <1>1, <1>2, <1>3, <2>1, <2>3, <3>1 DEF InPhase, Backing, Running
  <2>4. CASE phase = 2
    <3>1. Locating(a) /\ Approach /\ Running /\ axislock # {}
      BY <1>1, <2>4 DEF Search, InPhase, Approach, Loop, Locating, Running
    <3>2. PICK m \in axislock, b \in Mask : m \in MotorsOf(b)
      BY <3>1 DEF Search, Locks, MaskMotors
    <3>3. Locating(b) /\ ~Off(b) /\ Front(b) \in Int
      BY <1>1, <2>4, <3>2, FrontOfAxis DEF Search, InPhase, Loop, Off
    <3>4. left >= PullOff
      BY <1>2, <3>1, <3>3 DEF Locating
    <3> QED
      BY <1>1, <1>2, <1>3, <2>1, <2>4, <3>1, <3>4 DEF InPhase, Locating, Running
  <2>5. CASE phase = 3
    <3>1. Leaving(a) /\ ~Approach
      BY <1>1, <2>5 DEF Search, InPhase, Approach, Loop
    <3> QED
      BY <1>1, <1>2, <1>3, <2>1, <2>5, <3>1 DEF InPhase, Leaving, Running
  <2> QED
    BY <1>1, <1>2, <2>2, <2>3, <2>4, <2>5 DEF InPhase
<1>5. MaskMotors' = MaskMotors
  BY <1>2 DEF MaskMotors, MotorsOf
<1>6. Locks' /\ Apart'
  BY <1>1, <1>2, <1>5 DEF Search, Locks, Apart, Running, Loop
<1>7. Clear'
  BY <1>1, <1>2 DEF Search, Clear, Loop
<1> QED
  BY <1>2, <1>1, <1>4, <1>6, <1>7 DEF Search, Loop

\* The start of a motion.
LEMMA SearchBegun ==
    ASSUME Locatable, TypeOK, Search, HomedIsTrue, Begin
    PROVE  Search' /\ HomedIsTrue'
<1>1. /\ pc = "begin" /\ pc' = "poll" /\ unpolled' = 0 /\ left' = Motion
      /\ axislock' = MaskMotors /\ homed' = homed \ Mask
      /\ UNCHANGED <<phys, flags, cycle, phase>>
  BY DEF Begin, MaskMotors
<1>2. /\ Mask' = Mask /\ Mask \subseteq Axes /\ phys \in [Axes -> Int] /\ phase \in 0..3
      /\ PullOff \in Nat /\ homed \subseteq Axes /\ Motion \in Nat
  BY <1>1, CyclesTyped, DistancesAssumption, MotionOfPhase DEF TypeOK, Mask
<1>3. LocateScalar * PullOff >= 2 * PullOff
  <2>1. LocateScalar \in Nat /\ LocateScalar >= 2 /\ PullOff \in Nat
    BY DistancesAssumption DEF Locatable
  <2>2. \A m, n \in Nat : m * n >= 0
    OBVIOUS
  <2>3. (LocateScalar - 2) * PullOff >= 0
    BY <2>1, <2>2
  <2>4. (LocateScalar - 2) * PullOff = LocateScalar * PullOff - 2 * PullOff
    BY <2>1
  <2>5. LocateScalar * PullOff \in Int
    BY <2>1
  <2> QED
    BY <2>1, <2>3, <2>4, <2>5
<1>4. ASSUME NEW a \in Mask
      PROVE  On(a)' /\ axislock' # {} /\ Front(a) \in Int /\ Front(a)' = Front(a)
  <2>1. a \in Axes /\ MotorsOf(a)' = MotorsOf(a)
    BY <1>2 DEF MotorsOf
  <2>2. Front(a)' = Front(a)
    BY <1>1, <1>2 DEF Front, Paired
  <2> QED
    BY <1>1, <1>2, <2>1, <2>2, FrontOfAxis, MotorsApart DEF On, MaskMotors
<1>5. ASSUME NEW a \in Mask PROVE InPhase(a)'
  <2>1. CASE phase = 0
    BY <1>1, <1>4, <2>1 DEF InPhase, Seeking
  <2>2. CASE phase = 1
    <3>1. Backing(a) /\ left' = PullOff
      BY <1>1, <2>2, MotionOfPhase DEF Search, InPhase, Loop, TypeOK
    <3> QED
      BY <1>1, <1>2, <1>4, <2>2, <3>1 DEF InPhase, Backing, Running
  <2>3. CASE phase = 2
    <3>1. Locating(a) /\ left' = LocateScalar * PullOff
      BY <1>1, <2>3, MotionOfPhase DEF Search, InPhase, Loop, TypeOK
    <3>2. left' \in Int /\ Front(a) + left' >= PullOff /\ Front(a) < 0
      BY <1>1, <1>2, <1>3, <1>4, <3>1 DEF Locating
    <3> QED
      BY <1>1, <1>2, <1>4, <2>3, <3>2 DEF InPhase, Locating, Running
  <2>4. CASE phase = 3
    <3>1. Leaving(a) /\ left' = PullOff
      BY <1>1, <2>4, MotionOfPhase DEF Search, InPhase, Loop, TypeOK
    <3> QED
      BY <1>1, <1>2, <1>4, <2>4, <3>1 DEF InPhase, Leaving, Running
  <2> QED
    BY <1>2, <2>1, <2>2, <2>3, <2>4
<1>6. MaskMotors' = MaskMotors
  BY <1>2 DEF MaskMotors, MotorsOf
<1>7. Locks' /\ Apart' /\ Clear'
  BY <1>1, <1>2, <1>6 DEF Search, Locks, Apart, Clear, Running, Loop
<1>8. ASSUME NEW a \in homed' PROVE phys'[a] = phys[a] + 0 /\ Count(a)' = Count(a) + 0
  <2>1. sysPosition' = Steps([b \in Axes |-> IF b \in Mask THEN 0 ELSE Count(b)])
    BY DEF Begin
  <2>2. [b \in Axes |-> IF b \in Mask THEN 0 ELSE Count(b)] \in [Axes -> Int]
    BY CountsTyped DEF TypeOK
  <2>3. a \in Axes \ Mask /\ phys[a] \in Int /\ Count(a) \in Int
    BY <1>1, <1>2, CountsTyped DEF TypeOK
  <2>4. Count(a)' = Count(a)
    BY <2>1, <2>2, <2>3, CountSteps, CountOfAxis
  <2> QED
    BY <1>1, <2>3, <2>4
<1>9. ASSUME NEW a \in homed', NEW b \in Together(a) PROVE b \in homed'
  <2>1. PICK i \in 1..Len(Cycles) : {a, b} \subseteq Cycles[i]
    BY DEF Together
  <2>2. /\ b \in homed /\ a \in Axes \ Mask /\ b \in Axes /\ cycle \in 1..Len(Cycles)
        /\ MotorsOf(a) \cap MotorsOf(b) # {}
    BY <1>1, <1>2 DEF Together, TypeOK
  <2>3. ASSUME b \in Mask PROVE FALSE
    <3>1. CoreXY /\ {a, b} = {"X", "Y"}
      BY <2>2, <2>3, MotorsApart
    <3>2. {"X", "Y"} \subseteq Cycles[i] /\ Cycles[cycle] \cap {"X", "Y"} # {}
      BY <2>1, <2>3, <3>1 DEF Mask
    <3>3. i = cycle
      BY <2>2, <3>1, <3>2 DEF Locatable
    <3> QED
      BY <2>1, <2>2, <3>3 DEF Mask
  <2> QED
    BY <1>1, <2>2, <2>3
<1>10. HomedIsTrue'
  BY <1>1, <1>8, <1>9, HomedMoved
<1> QED
  BY <1>1, <1>2, <1>5, <1>7, <1>10 DEF Search

\* A poll that ends nothing, or finds all axes of the cycle locked; the end of
\* a pull-off; the end of the motion; and the next one.
LEMMA SearchWentOn ==
    ASSUME TypeOK, Search, GoOn \/ PulledOff \/ Kill \/ NextPhase
    PROVE  Search'
<1>1. /\ UNCHANGED <<phys, cycle, axislock, unpolled, homed>>
      /\ pc \in Loop /\ pc' \in Loop /\ pc # "begin"
      /\ Running' => Running
  BY DEF GoOn, PulledOff, Kill, NextPhase, machine, motion, observed, Loop, Running
<1>2. /\ Mask' = Mask /\ Mask \subseteq Axes /\ phys \in [Axes -> Int] /\ phase \in 0..3
      /\ PullOff \in Nat /\ left \in Nat /\ unpolled \in Nat
  BY <1>1, CyclesTyped, DistancesAssumption DEF TypeOK, Mask
<1>3. ASSUME NEW a \in Mask
      PROVE  /\ Front(a) \in Int /\ Front(a)' = Front(a)
             /\ On(a)' = On(a) /\ Off(a)' = Off(a)
             /\ axislock = {} => ~On(a)
  <2>1. a \in Axes /\ MotorsOf(a)' = MotorsOf(a) /\ MotorsOf(a) # {}
    BY <1>2, MotorsApart DEF MotorsOf
  <2>2. Front(a)' = Front(a)
    BY <1>1, <1>2 DEF Front, Paired
  <2> QED
    BY <1>1, <2>1, <2>2, FrontOfAxis DEF On, Off
<1>4. ASSUME NEW a \in Mask PROVE InPhase(a)'
  <2>0. InPhase(a)
    BY <1>1 DEF Search
  <2>1. CASE GoOn
    <3>1. /\ pc = "check" /\ "cycleStop" \notin flags
          /\ UNCHANGED <<phase, left, flags>>
          /\ pc' = IF axislock = {} THEN "kill" ELSE "poll"
      BY <2>1 DEF GoOn, Seen, motion
    <3>2. (Seeking(a) => Seeking(a)') /\ (Backing(a) => Backing(a)')
      BY <1>1, <1>3, <3>1 DEF Seeking, Backing, Running
    <3>3. Locating(a) => Locating(a)'
      BY <1>1, <1>2, <1>3, <3>1 DEF Locating, Running
    <3>4. Leaving(a) => Leaving(a)'
      BY <1>1, <1>2, <1>3, <3>1 DEF Leaving, Running
    <3> QED
      BY <2>0, <3>1, <3>2, <3>3, <3>4 DEF InPhase
  <2>2. CASE PulledOff
    <3>1. /\ pc = "check" /\ pc' = "kill" /\ UNCHANGED <<phase, left>>
          /\ "cycleStop" \in flags /\ ~Approach /\ Pressed(phys) \cap Mask = {}
      BY <2>2 DEF PulledOff, Seen, Fails, motion
    <3>2. phase \in {1, 3} /\ Front(a) < 0
      <4>1. PICK b \in Mask : phys[b] = Front(a)
        BY FrontOfAxis
      <4> QED
        BY <1>2, <1>3, <3>1, <4>1 DEF Approach, Pressed
    <3>3. Backing(a) => Backing(a)'
      BY <1>1, <1>2, <1>3, <3>1, <3>2 DEF Backing, Running
    <3>4. Leaving(a) => Leaving(a)'
      BY <1>1, <1>2, <1>3, <3>1, <3>2 DEF Leaving, Running
    <3> QED
      BY <2>0, <3>1, <3>2, <3>3, <3>4 DEF InPhase
  <2>3. CASE Kill
    <3>1. /\ pc = "kill" /\ pc' = "delay" /\ UNCHANGED <<phase, flags>>
      BY <2>3 DEF Kill
    <3>2. (Seeking(a) => Seeking(a)') /\ (Backing(a) => Backing(a)')
      BY <1>1, <1>2, <1>3, <3>1 DEF Seeking, Backing, Running
    <3>3. Locating(a) => Locating(a)'
      BY <1>1, <1>2, <1>3, <3>1 DEF Locating, Running
    <3>4. Leaving(a) => Leaving(a)'
      BY <1>1, <1>2, <1>3, <3>1 DEF Leaving, Running
    <3> QED
      BY <2>0, <3>1, <3>2, <3>3, <3>4 DEF InPhase
  <2>4. CASE NextPhase
    <3>1. /\ pc = "delay" /\ pc' = "begin" /\ phase < 3 /\ phase' = phase + 1
          /\ UNCHANGED <<flags, left>>
      BY <2>4 DEF NextPhase, motion
    <3>2. Seeking(a) => Backing(a)'
      BY <1>1, <1>3, <3>1 DEF Seeking, Backing, Running
    <3>3. Backing(a) => Locating(a)'
      BY <1>1, <1>3, <3>1 DEF Backing, Locating, Running
    <3>4. Locating(a) => Leaving(a)'
      BY <1>1, <1>3, <3>1 DEF Locating, Leaving, Running
    <3>5. phase \in 0..2
      BY <1>2, <3>1
    <3> QED
      BY <2>0, <3>1, <3>2, <3>3, <3>4, <3>5 DEF InPhase
  <2> QED
    BY <2>1, <2>2, <2>3, <2>4
<1>5. MaskMotors' = MaskMotors
  BY <1>2 DEF MaskMotors, MotorsOf
<1>6. Locks' /\ Apart' /\ Clear'
  BY <1>1, <1>2, <1>5 DEF Search, Locks, Apart, Clear
<1> QED
  BY <1>1, <1>2, <1>4, <1>6 DEF Search

\* The end of a cycle: its axes are where they are declared to be.
LEMMA SearchDone ==
    ASSUME TypeOK, Search, HomedIsTrue, CycleDone
    PROVE  Search' /\ HomedIsTrue'
<1>1. /\ pc = "delay" /\ phase = 3 /\ phys' = phys /\ homed' = homed \cup Mask
      /\ sysPosition' = SetPosition
      /\ \/ cycle' = cycle + 1 /\ phase' = 0 /\ pc' = "begin"
         \/ pc' = "finish"
  BY DEF CycleDone
<1>2. Mask \subseteq Axes /\ homed \subseteq Axes /\ PullOff \in Nat
  BY CyclesTyped, DistancesAssumption DEF TypeOK, Mask
<1>3. ASSUME NEW a \in Mask
      PROVE  /\ phys[a] <= -PullOff /\ phys[a] < 0
             /\ \E b \in Mask : MotorsOf(b) = MotorsOf(a) /\ phys[b] = -PullOff
  <2>1. Front(a) = -PullOff /\ Front(a) < 0
    BY <1>1 DEF Search, InPhase, Leaving, Loop
  <2>2. MotorsOf(a) # {} /\ phys[a] \in Int
    BY <1>2, MotorsApart DEF TypeOK
  <2>3. phys[a] <= Front(a)
    BY <2>2, FrontOfAxis
  <2>4. phys[a] <= -PullOff /\ phys[a] < 0
    BY <1>2, <2>1, <2>2, <2>3
  <2> QED
    BY <2>1, <2>4, FrontOfAxis
<1>4. ASSUME NEW a \in Axes
      PROVE  Count(a)' = IF a \in Mask THEN -PullOff ELSE Count(a)
  <2>1. [b \in Axes |-> IF b \in Mask THEN -PullOff ELSE Count(b)] \in [Axes -> Int]
    BY <1>2, CountsTyped DEF TypeOK
  <2> QED
    BY <1>1, <2>1, CountSteps, CountOfAxis DEF SetPosition
<1>5. HomedIsTrue'
  <2>1. ASSUME NEW a \in Mask
        PROVE  phys'[a] <= Count(a)' /\ \E b \in Together(a)' : phys'[b] = Count(b)'
    <3>1. PICK b \in Mask : MotorsOf(b) = MotorsOf(a) /\ phys[b] = -PullOff
      BY <1>3
    <3>2. MotorsOf(a) # {} /\ cycle \in 1..Len(Cycles)
      BY <1>2, MotorsApart DEF TypeOK
    <3>3. b \in Together(a)'
      BY <1>1, <3>1, <3>2 DEF Together, MotorsOf, Mask
    <3> QED
      BY <1>1, <1>2, <1>3, <1>4, <3>1, <3>3
  <2>2. ASSUME NEW a \in homed
        PROVE  phys'[a] <= Count(a)' /\ \E b \in Together(a)' : phys'[b] = Count(b)'
    <3>1. PICK b \in Together(a) : phys[b] = Count(b)
      BY <2>2 DEF HomedIsTrue
    <3>2. a \in Axes \ Mask /\ b \in homed /\ b \in Axes \ Mask
      BY <1>1, <1>2, <2>2, <3>1 DEF Search, Apart, Loop, Together
    <3>3. b \in Together(a)'
      BY <1>1, <3>1, <3>2 DEF Together, MotorsOf
    <3>4. phys[a] <= Count(a)
      BY <2>2 DEF HomedIsTrue
    <3> QED
      BY <1>1, <1>4, <3>1, <3>2, <3>3, <3>4
  <2> QED
    BY <1>1, <2>1, <2>2 DEF HomedIsTrue
<1>6. CoreXY => \A b \in Axes : phys[b] < 0
  BY <1>1, <1>3 DEF Search, Clear, Loop
<1>7. Search'
  BY <1>1, <1>6 DEF Search, Clear, Locks, Apart, InPhase, Seeking, Running, Loop
<1> QED
  BY <1>5, <1>7

LEMMA SearchStep ==
    ASSUME Locatable
    PROVE  TypeOK /\ Control /\ Search /\ HomedIsTrue /\ [Next]_vars => Search' /\ HomedIsTrue'
<1> SUFFICES ASSUME TypeOK, Control, Search, HomedIsTrue, [Next]_vars
             PROVE  Search' /\ HomedIsTrue'
  OBVIOUS
<1>0. homed \subseteq Axes /\ cycle \in 1..Len(Cycles) /\ phys \in [Axes -> Int]
  BY DEF TypeOK
<1>1. ASSUME UNCHANGED <<phys, sysPosition, place, axislock, left, unpolled, homed>>,
             "cycleStop" \in flags' => "cycleStop" \in flags
      PROVE  Search' /\ HomedIsTrue'
  <2>1. Mask' = Mask /\ UNCHANGED <<phys, pc, cycle, phase, axislock, left, unpolled, homed>>
    BY <1>1 DEF place, Mask
  <2>2. ASSUME NEW a \in Mask PROVE InPhase(a) => InPhase(a)'
    <3>1. MotorsOf(a)' = MotorsOf(a)
      BY DEF MotorsOf
    <3>2. On(a)' = On(a) /\ Off(a)' = Off(a) /\ Front(a)' = Front(a)
      BY <2>1, <3>1 DEF On, Off, Front, Paired
    <3> QED
      BY <1>1, <2>1, <3>2 DEF InPhase, Seeking, Backing, Locating, Leaving, Running
  <2>3. MaskMotors' = MaskMotors
    BY <2>1 DEF MaskMotors, MotorsOf
  <2>4. Locks' /\ Apart' /\ Clear'
    BY <2>1, <2>3 DEF Search, Locks, Apart, Clear, Running
  <2> QED
    BY <1>0, <1>1, <2>1, <2>2, <2>4, HomedKept DEF Search, machine
<1>2. ASSUME pc' \notin Loop, UNCHANGED machine, homed' = homed
      PROVE  Search' /\ HomedIsTrue'
  BY <1>0, <1>2, HomedKept DEF Search, Clear, Locks, Apart, Running, Loop
<1>3. CASE RxReset \/ RxFlag
  BY <1>1, <1>3 DEF RxReset, RxFlag, ResetRaised, machine, motion, observed
<1>4. CASE Step
  BY <1>4, SearchStepped
<1>5. CASE EndOfBlock
  <2>1. /\ left = 0 /\ pc \in {"poll", "check", "kill"}
        /\ UNCHANGED <<machine, pc, cycle, phase, axislock, left, unpolled, homed>>
    BY <1>5 DEF EndOfBlock, Control, place, observed
  <2>2. Mask' = Mask /\ phys' = phys
    BY <2>1 DEF Mask, machine
  <2>3. PullOff \in Nat /\ unpolled \in Nat
    BY DistancesAssumption DEF TypeOK
  <2>4. ASSUME NEW a \in Mask PROVE InPhase(a)'
    <3>1. MotorsOf(a)' = MotorsOf(a) /\ InPhase(a)
      BY <2>1 DEF MotorsOf, Search, Loop
    <3>2. On(a)' = On(a) /\ Off(a)' = Off(a) /\ Front(a)' = Front(a)
      BY <2>1, <2>2, <3>1 DEF On, Off, Front, Paired
    <3>3. (Seeking(a) => Seeking(a)') /\ (Backing(a) => Backing(a)')
      BY <2>1, <2>2, <3>2 DEF Seeking, Backing, Running
    <3>4. (Locating(a) => Locating(a)') /\ (Leaving(a) => Leaving(a)')
      BY <2>1, <2>2, <2>3, <3>2 DEF Locating, Leaving, Running
    <3> QED
      BY <2>1, <3>1, <3>3, <3>4 DEF InPhase
  <2>5. MaskMotors' = MaskMotors
    BY <2>2 DEF MaskMotors, MotorsOf
  <2>6. Locks' /\ Apart' /\ Clear'
    BY <2>1, <2>2, <2>5 DEF Search, Locks, Apart, Clear, Running
  <2> QED
    BY <1>0, <2>1, <2>2, <2>4, <2>6, HomedKept DEF Search
<1>6. CASE Home
  <2>1. /\ pc' = "begin" /\ cycle' = 1 /\ phase' = 0 /\ UNCHANGED <<machine, homed>>
        /\ ClearFirst => Pressed(phys) = {}
    BY <1>6 DEF Home, observed
  <2>2. CoreXY => \A b \in Axes : phys'[b] < 0
    BY <1>0, <2>1 DEF Locatable, Pressed, machine
  <2> QED
    BY <1>0, <2>1, <2>2, HomedKept
       DEF Search, Clear, Locks, Apart, InPhase, Seeking, Running, Loop
<1>7. CASE HomeWithText \/ Unlock
  BY <1>1, <1>7 DEF HomeWithText, Unlock, machine, motion, observed
<1>8. CASE Begin
  BY <1>8, SearchBegun
<1>9. CASE Poll
  <2>1. UNCHANGED machine /\ homed' = homed
    BY <1>9 DEF Poll, observed
  <2> QED
    BY <1>0, <1>9, <2>1, SearchPolled, HomedKept
<1>10. CASE GoOn \/ PulledOff \/ Kill \/ NextPhase
  <2>1. UNCHANGED machine /\ homed' = homed
    BY <1>10 DEF GoOn, PulledOff, Kill, NextPhase, observed
  <2> QED
    BY <1>0, <1>10, <2>1, SearchWentOn, HomedKept
<1>11. CASE CycleDone
  BY <1>11, SearchDone
<1>12. CASE Fail \/ FinishAborted \/ FinishSuspended \/ Finish \/ SuspendAborted
  BY <1>2, <1>12 DEF Fail, FinishAborted, FinishSuspended, Finish, SuspendAborted, Loop, observed
<1>13. CASE Serve \/ ServeHold \/ CriticalEnds \/ Reinitialize
  BY <1>2, <1>13 DEF Serve, ServeHold, CriticalEnds, Reinitialize, Loop, observed
<1>14. CASE Run
  <2>1. /\ pc = "main" /\ pc' = "main" /\ homed' = homed
        /\ queued # NoMotion /\ phys' = Reached
        /\ sysPosition' = Steps([a \in Axes |-> Count(a) + queued[a]])
    BY <1>14 DEF Run, Idle, place, observed
  <2>2. queued \in [Axes -> Int]
    BY <2>1 DEF TypeOK
  <2>3. [a \in Axes |-> Count(a) + queued[a]] \in [Axes -> Int]
    BY <2>2, CountsTyped DEF TypeOK
  <2>4. ASSUME NEW a \in homed
        PROVE  queued[a] \in Int /\ phys'[a] = phys[a] + queued[a]
               /\ Count(a)' = Count(a) + queued[a]
    BY <1>0, <2>1, <2>2, <2>3, CountSteps, CountOfAxis DEF Reached
  <2>5. HomedIsTrue'
    BY <2>1, <2>4, HomedMoved DEF Together
  <2> QED
    BY <2>1, <2>5 DEF Search, Clear, Locks, Apart, Running, Loop
<1>15. CASE LimitHit
  <2>1. pc = "main" /\ pc' = "main" /\ homed' = {}
    BY <1>15 DEF LimitHit, Idle, place
  <2> QED
    BY <2>1 DEF HomedIsTrue, Search, Clear, Locks, Apart, Running, Loop
<1>16. ASSUME NEW t \in Targets, Queue(t) \/ SoftLimit(t) PROVE Search' /\ HomedIsTrue'
  <2>1. pc' \notin Loop
    BY <1>16 DEF Queue, SoftLimit, Idle, place, Loop
  <2> QED
    BY <1>2, <1>16, <2>1 DEF Queue, SoftLimit, observed
<1>17. CASE UNCHANGED vars
  BY <1>1, <1>17 DEF vars, machine, motion, observed
<1> QED
  BY <1>3, <1>4, <1>5, <1>6, <1>7, <1>8, <1>9, <1>10, <1>11, <1>12, <1>13, <1>14, <1>15, <1>16,
     <1>17 DEF Next, Stepper, Main, Operator

\* Of the axes homed together on the same motors one is counted where it is and
\* the others are not nearer to their switches than counted, whatever is homed
\* after them, moved, refused or aborted, for every list of cycles, seek rate,
\* travel and pull-off of a machine that is Locatable: with X and Y of a COREXY
\* machine in one cycle, as config.h has them, or in two.
THEOREM HomedIsAlwaysTrue == ASSUME Locatable PROVE Spec => []HomedIsTrue
<1>1. Init => Search /\ HomedIsTrue
  BY DEF Init, Search, Clear, Locks, Apart, Running, Loop, HomedIsTrue
<1> QED
  BY <1>1, SearchStep, ControlInvariant, HomingTyped, PTL DEF Spec

\* Every homed axis is counted where it is if no cycle homes both X and Y of a
\* COREXY machine (config.h: "If homing is enabled, you must reconfigure the
\* homing cycle #defines").
THEOREM AllAxesAlwaysTrue ==
    ASSUME Locatable, CoreXY => \A i \in 1..Len(Cycles) : ~({"X", "Y"} \subseteq Cycles[i])
    PROVE  Spec => []AllAxesTrue
<1>1. TypeOK /\ HomedIsTrue => AllAxesTrue
  <2> SUFFICES ASSUME TypeOK, HomedIsTrue, NEW a \in homed PROVE Count(a) = phys[a]
    BY DEF AllAxesTrue
  <2>1. PICK b \in Together(a) : phys[b] = Count(b)
    BY DEF HomedIsTrue
  <2>2. a \in Axes /\ b \in Axes
    BY DEF TypeOK, Together
  <2>3. b # a => CoreXY /\ {a, b} = {"X", "Y"}
    BY <2>1, <2>2, MotorsApart DEF Together
  <2>4. b = a
    BY <2>1, <2>3 DEF Together
  <2> QED
    BY <2>1, <2>4
<1> QED
  BY <1>1, HomedIsAlwaysTrue, HomingTyped, PTL
=============================================================================
