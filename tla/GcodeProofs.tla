---------------------------- MODULE GcodeProofs ----------------------------
(***************************************************************************)
(* For all lines, coordinate systems, EEPROM contents and any number of    *)
(* lines: the parser agrees with the planner, the EEPROM and the outputs,  *)
(* and a line that names a work coordinate makes the work position that.   *)
(***************************************************************************)
EXTENDS Gcode, TLAPS

-----------------------------------------------------------------------------
(* What a line and the records it reads are.                               *)

\* Power-up and every reset find G54 readable.
Typed == TypeOK /\ eeprom["G54"] \in Points

LEMMA SystemsAreRecords ==
    /\ Systems \subseteq Records /\ "G28" \in Records /\ "G30" \in Records
    /\ "G54" \in Systems /\ Origin \in Points /\ Damaged \notin Points
BY SystemsAssumption, DamagedAssumption DEF Records, Origin, Points

\* The word of a group is one the line calls, or the one before.
LEMMA InForceIsCalled ==
    ASSUME NEW l, NEW group, NEW before
    PROVE  \/ InForce(l, group, before) \in Calls(l, group)
           \/ Calls(l, group) = {} /\ InForce(l, group, before) = before
BY DEF InForce

LEMMA BlockTyped ==
    ASSUME TypeOK, NEW l \in Lines
    PROVE  /\ DOMAIN Block(l) = DOMAIN PowerUpModal /\ Block(l).select \in Systems
           /\ Block(l).tool \in ModalGroups.G8
<1>1. Block(l).select = InForce(l, "G12", modal.select)
  BY DEF Block
<1>2. Calls(l, "G12") \subseteq Systems
  BY LinesAssumption DEF Calls, ModalGroups
<1>3. Block(l).select \in Systems
  BY <1>1, <1>2, InForceIsCalled DEF TypeOK
<1>4. DOMAIN Block(l) = DOMAIN PowerUpModal
  BY DEF Block, PowerUpModal
<1>5. Block(l).tool = InForce(l, "G8", modal.tool)
  BY DEF Block
<1>6. Block(l).tool \in ModalGroups.G8
  BY <1>5, InForceIsCalled DEF TypeOK, Calls, ModalGroups
<1> QED
  BY <1>3, <1>4, <1>6

\* The values of a line's words, in its units.
LEMMA WordsTyped ==
    ASSUME TypeOK, line # NoLine
    PROVE  /\ line \in Lines
           /\ \A w \in Given : line.words[w] \in Int /\ Xyz(w) \in Int
           /\ \A w \in Letters : Byte(w) \in 0..255
<1>1. line \in Lines
  BY DEF TypeOK
<1>2. \A w \in Given : line.words[w] \in Int
  BY <1>1, LinesAssumption DEF Given
<1>3. \A v \in Int : Mm(v) \in Int
  BY InchAssumption DEF Mm
<1>4. \A w \in Letters : Byte(w) \in 0..255
  BY <1>2 DEF Byte
<1> QED
  BY <1>1, <1>2, <1>3, <1>4 DEF Xyz

\* What an accepted line reads from the EEPROM, and where it leads, is no
\* damaged record.
LEMMA ReadsTyped ==
    ASSUME Typed, line # NoLine, Accepted
    PROVE  /\ BlockSystem \in Points
           /\ block.select # modal.select => BlockSystem = eeprom[block.select]
           /\ block.select = modal.select => BlockSystem = coordSystem
           /\ NonModal \in {"G28", "G30"} => eeprom[NonModal] \in Points
           /\ NonModal = "G10" => G10Record \in Systems /\ eeprom[G10Record] \in Points
<1> USE SystemsAreRecords
<1>1. /\ block.select \in Systems /\ eeprom \in [Records -> Points \cup {Damaged}]
      /\ coordSystem \in Points
  BY DEF Typed, TypeOK
<1>2. FailedRead = {} /\ ~RejectedSecond
  BY DEF Accepted
<1>3. \A r \in SelectRead : eeprom[r] # Damaged
  BY <1>2 DEF FailedRead
<1>4. \A r \in DataRead : eeprom[r] # Damaged
  BY <1>2, <1>3 DEF FailedRead
<1>5. BlockSystem \in Points
  BY <1>1, <1>3 DEF BlockSystem, SelectRead
<1>6. NonModal \in {"G28", "G30"} => eeprom[NonModal] \in Points
  BY <1>1, <1>4 DEF DataRead
<1>7. ASSUME NonModal = "G10"
      PROVE  G10Record \in Systems /\ eeprom[G10Record] \in Points
  <2>1. Byte("P") \in 0..6
    BY <1>2, <1>7, WordsTyped DEF RejectedSecond, G10Error, Typed, Letters
  <2>2. CASE Byte("P") = 0
    BY <1>1, <1>4, <1>7, <2>2 DEF G10Record, DataRead
  <2>3. CASE Byte("P") # 0
    <3>1. "P" \in Given /\ Byte("P") = line.words["P"] % 256
      BY <2>3 DEF Byte
    <3>2. SystemOf(Byte("P")) \in Systems
      BY <2>1, <2>3, <3>1, WordsTyped, LinesAssumption DEF Given, Typed
    <3> QED
      BY <1>1, <1>4, <1>7, <2>3, <3>2 DEF G10Record, DataRead
  <2> QED
    BY <2>2, <2>3
<1> QED
  BY <1>5, <1>6, <1>7 DEF BlockSystem, SelectRead

LEMMA TargetsTyped ==
    ASSUME Typed, line # NoLine, Accepted
    PROVE  /\ Target \in Points
           /\ GoesHome => HomeTarget \in Points
           /\ NonModal = "G10" => G10Data \in Points
           /\ OffsetAfter \in Points
<1> USE DEF Points
<1>1. /\ position \in Points /\ coordOffset \in Points
      /\ BlockSystem \in Points /\ \A a \in Axes : ToolLength(a) \in Int
  BY ReadsTyped DEF Typed, TypeOK, ToolLength
<1>2. \A a \in Given : Xyz(a) \in Int
  BY WordsTyped DEF Typed
<1>3. Target \in Points
  BY <1>1, <1>2 DEF Target
<1>4. GoesHome => HomeTarget \in Points
  BY <1>1, ReadsTyped DEF GoesHome, HomeTarget
<1>5. NonModal = "G10" => G10Data \in Points
  BY <1>1, <1>2, ReadsTyped DEF G10Data
<1>6. G92Offset \in Points
  BY <1>1, <1>2 DEF G92Offset
<1>7. OffsetAfter \in Points
  BY <1>1, <1>6, SystemsAreRecords DEF OffsetAfter
<1> QED
  BY <1>3, <1>4, <1>5, <1>7

\* A line that names a record to write or read is in nobody else's group.
LEMMA NonModalIsCalled ==
    ASSUME NonModal # "none" PROVE NonModal \in line.commands
BY InForceIsCalled DEF NonModal, Calls

\* What an accepted line stores in the EEPROM, and what it makes of the
\* coordinates in use.
LEMMA CoordinatesTyped ==
    ASSUME Typed, line # NoLine, Accepted
    PROVE  /\ EepromAfter \in [Records -> Points \cup {Damaged}]
           /\ EepromAfter["G54"] \in Points
           /\ SystemAfter \in Points
<1> USE SystemsAreRecords
<1>1. /\ eeprom \in [Records -> Points \cup {Damaged}] /\ eeprom["G54"] \in Points
      /\ position \in Points
  BY DEF Typed, TypeOK
<1>2. "G28" # "G54" /\ "G30" # "G54"
  OBVIOUS
<1>3. CASE NonModal = "G10"
  <2>1. EepromAfter = [eeprom EXCEPT ![G10Record] = G10Data]
    BY <1>3 DEF EepromAfter
  <2>2. G10Record \in Records /\ G10Data \in Points
    BY <1>3, ReadsTyped, TargetsTyped
  <2> HIDE DEF EepromAfter
  <2>3. /\ EepromAfter \in [Records -> Points \cup {Damaged}]
        /\ EepromAfter["G54"] \in Points
    BY <1>1, <2>1, <2>2
  <2> QED
    BY <2>2, <2>3, ReadsTyped DEF SystemAfter
<1>4. CASE NonModal # "G10"
  <2>1. EepromAfter \in {eeprom, [eeprom EXCEPT !["G28"] = position],
                                 [eeprom EXCEPT !["G30"] = position]}
    BY <1>4 DEF EepromAfter
  <2>2. /\ EepromAfter \in [Records -> Points \cup {Damaged}]
        /\ EepromAfter["G54"] \in Points
    BY <1>1, <1>2, <2>1
  <2> QED
    BY <1>4, <2>2, ReadsTyped DEF SystemAfter
<1> QED
  BY <1>3, <1>4

LEMMA ModesTyped ==
    ASSUME TypeOK
    PROVE  /\ DOMAIN ModalAfter = DOMAIN PowerUpModal /\ ModalAfter.select \in Systems
           /\ ModalAfter.tool \in ModalGroups.G8
BY SystemsAssumption DEF TypeOK, ModalAfter, PowerUpModal

LEMMA FeedTyped ==
    ASSUME TypeOK PROVE FeedOf \in {"none", "mm", "inch", "perLine"}
BY DEF TypeOK, FeedOf

LEMMA ExecuteTyped ==
    ASSUME Typed, line # NoLine, Accepted, Execute, lines > 0
    PROVE  /\ (DOMAIN modal = DOMAIN PowerUpModal /\ modal.select \in Systems)'
           /\ (modal.tool \in ModalGroups.G8 /\ block.tool \in ModalGroups.G8)'
           /\ (feed \in {"none", "mm", "inch", "perLine"} /\ speed \in Int)'
           /\ (coordSystem \in Points /\ coordOffset \in Points /\ tlo \in Int)'
           /\ (eeprom \in [Records -> Points \cup {Damaged}] /\ eeprom["G54"] \in Points)'
           /\ (line \in Lines \cup {NoLine} /\ lines \in 0..MaxLines)'
           /\ (DOMAIN block = DOMAIN PowerUpModal /\ block.select \in Systems)'
<1>1. SpeedAfter \in Int
  BY WordsTyped DEF SpeedAfter, Typed, TypeOK
<1>2. ToolOffsetAfter \in Int
  <2>1. CASE AxisCommand = "tool" /\ block.tool # "G49"
    <3>1. ~ToolAxisError
      BY DEF Accepted, RejectedFirst
    <3>2. block.tool = "G43.1"
      BY <2>1 DEF Typed, TypeOK, ModalGroups
    <3>3. "Z" \in Given
      BY <2>1, <3>1, <3>2 DEF ToolAxisError, AxisWords
    <3> QED
      BY <2>1, <3>3, WordsTyped DEF ToolOffsetAfter, Typed
  <2>2. CASE ~(AxisCommand = "tool" /\ block.tool # "G49")
    BY <2>2 DEF ToolOffsetAfter, Typed, TypeOK
  <2> QED
    BY <2>1, <2>2
<1> QED
  BY <1>1, <1>2, TargetsTyped, CoordinatesTyped, ModesTyped, FeedTyped,
     MaxLinesAssumption, SystemsAssumption
     DEF Execute, Executed, Answered, Typed, TypeOK, PowerUpModal, ModalGroups

-----------------------------------------------------------------------------
(* Type correctness.                                                       *)

\* Where the motion of a line may end.
MotionOK == position \in Points /\ plPosition \in Points
QueuedOK == queued = NoMotion \/ queued.feed \in {"none", "mm", "inch", "perLine"}
StateOK == state \in {"idle", "jog", "check", "alarm"}

LEMMA McLineTyped ==
    ASSUME TypeOK, NEW target \in Points, NEW rapid, NEW perLine,
           McLine(target, Motion(rapid, perLine, FeedOf))
    PROVE  plPosition' \in Points /\ QueuedOK'
BY FeedTyped DEF TypeOK, McLine, Motion, QueuedOK

LEMMA MotionTyped ==
    ASSUME Typed, lines > 0,
           NoMotionLine \/ HomeLine \/ MotionLine \/ ProbeRefused \/ ProbeFound
             \/ ProbeMissed \/ JogLine
    PROVE  MotionOK' /\ QueuedOK' /\ StateOK'
<1> USE DEF Executing, Typed
<1>1. MotionOK /\ QueuedOK /\ StateOK /\ TypeOK
  BY DEF TypeOK, MotionOK, QueuedOK, StateOK
<1>2. CASE NoMotionLine \/ ProbeRefused
  BY <1>1, <1>2 DEF NoMotionLine, ProbeRefused, MotionOK, QueuedOK, StateOK
<1>3. CASE HomeLine
  <2>1. HomeTarget \in Points /\ position' = HomeTarget /\ state' = state
    BY <1>3, TargetsTyped DEF HomeLine
  <2> QED
    BY <1>1, <1>3, <2>1, McLineTyped DEF HomeLine, MotionOK, StateOK
<1>4. CASE MotionLine
  <2>1. Target \in Points /\ position' = Target /\ state' = state
    BY <1>4, TargetsTyped DEF MotionLine
  <2>2. PICK p : McLine(Target, Motion(block.motion = "G0", p, FeedOf))
    BY <1>4 DEF MotionLine
  <2> QED
    BY <1>1, <2>1, <2>2, McLineTyped DEF MotionOK, StateOK
<1>5. CASE ProbeFound
  <2>1. PICK p \in Between(position, Target) : position' = p /\ plPosition' = p
    BY <1>5 DEF ProbeFound
  <2>2. p \in Points
    <3>1. position \in Points /\ Target \in Points
      BY <1>1, <1>5, TargetsTyped DEF ProbeFound, Probes, MotionOK
    <3> QED
      BY <2>1, <3>1 DEF Between, Points
  <2>3. queued' = Motion(FALSE, block.feedMode = "G93", FeedOf) /\ state' = state
    BY <1>5 DEF ProbeFound
  <2> QED
    BY <1>1, <2>1, <2>2, <2>3, FeedTyped DEF MotionOK, QueuedOK, StateOK, Motion
<1>6. CASE ProbeMissed
  <2>1. Target \in Points
    BY <1>6, TargetsTyped DEF ProbeMissed, Probes
  <2> QED
    BY <1>1, <1>6, <2>1, FeedTyped DEF ProbeMissed, MotionOK, QueuedOK, StateOK, Motion
<1>7. CASE JogLine
  <2>1. Target \in Points /\ position' = Target
    BY <1>7, TargetsTyped DEF JogLine
  <2>2. McLine(Target, Motion(FALSE, FALSE, FeedOf))
    BY <1>7 DEF JogLine
  <2> QED
    BY <1>1, <1>7, <2>1, <2>2, McLineTyped DEF JogLine, MotionOK, StateOK
<1> QED
  BY <1>2, <1>3, <1>4, <1>5, <1>6, <1>7

\* A line in execution is one of the lines left.
LinesOK == line # NoLine => lines > 0

LEMMA TypedStep == Typed /\ LinesOK /\ [Next]_vars => Typed' /\ LinesOK'
<1> SUFFICES ASSUME Typed, LinesOK, [Next]_vars PROVE Typed' /\ LinesOK'
  OBVIOUS
<1> USE SystemsAreRecords, NoLineAssumption DEF LinesOK
<1>1. TypeOK
  BY DEF Typed
<1>2. ASSUME NEW l \in Lines, Receive(l) PROVE Typed' /\ LinesOK'
  BY <1>1, <1>2, BlockTyped DEF Receive, Typed, TypeOK, parser, outputs
<1>3. CASE RejectedLine
  BY <1>3 DEF RejectedLine, Answered, Typed, TypeOK, parser, outputs, PowerUpModal, ModalGroups
<1>4. CASE FailedReadLine
  <2>1. (eeprom \in [Records -> Points \cup {Damaged}] /\ eeprom["G54"] \in Points)'
    BY <1>4 DEF FailedReadLine, Restored, Typed, TypeOK
  <2> QED
    BY <1>4, <2>1 DEF FailedReadLine, Answered, Typed, TypeOK, parser, outputs,
       PowerUpModal, ModalGroups
<1>5. CASE NoMotionLine \/ HomeLine \/ MotionLine \/ ProbeRefused \/ ProbeFound \/ ProbeMissed
  <2>1. line # NoLine /\ Accepted /\ Execute
    BY <1>5 DEF NoMotionLine, HomeLine, MotionLine, ProbeRefused, ProbeFound, ProbeMissed,
       Probes, Executing
  <2>2. lines > 0 /\ MotionOK' /\ QueuedOK' /\ StateOK'
    BY <1>5, <2>1, MotionTyped
  <2>3. line' = NoLine
    BY <2>1 DEF Execute, Executed, Answered
  <2> QED
    BY <2>1, <2>2, <2>3, ExecuteTyped DEF Typed, TypeOK, MotionOK, QueuedOK, StateOK
<1>6. CASE JogLine
  <2>1. line # NoLine
    BY <1>6 DEF JogLine, Executing
  <2>2. lines > 0 /\ MotionOK' /\ QueuedOK' /\ StateOK'
    BY <1>6, <2>1, MotionTyped
  <2> QED
    BY <1>6, <2>2, MaxLinesAssumption DEF JogLine, Executed, Answered, Typed, TypeOK,
       MotionOK, QueuedOK, StateOK, PowerUpModal, ModalGroups
<1>7. CASE JogCancelled
  <2>1. position' \in Points /\ plPosition' \in Points
    BY <1>7, StopsAssumption DEF JogCancelled, Points
  <2> QED
    BY <1>7, <2>1 DEF JogCancelled, Typed, TypeOK
<1>8. CASE JogEnds \/ CheckOn \/ Unlock
  BY <1>8 DEF JogEnds, CheckOn, Unlock, Typed, TypeOK, parser, outputs
<1>9. CASE Reset
  <2>1. position' \in Points /\ plPosition' \in Points
    BY <1>9, StopsAssumption DEF Reset, Points, Typed, TypeOK
  <2> QED
    BY <1>9, <2>1 DEF Reset, Typed, TypeOK, PowerUpModal, ModalGroups
<1>10. CASE UNCHANGED vars
  BY <1>10 DEF vars, parser, outputs, Typed, TypeOK
<1> QED
  BY <1>2, <1>3, <1>4, <1>5, <1>6, <1>7, <1>8, <1>9, <1>10 DEF Next

LEMMA TypedInit == Init => Typed /\ LinesOK
<1> SUFFICES ASSUME Init PROVE Typed /\ LinesOK
  OBVIOUS
<1> USE SystemsAreRecords
<1>1. eeprom \in [Records -> Points \cup {Damaged}] /\ eeprom["G54"] \in Points
  BY StoredAssumption DEF Init, Restored, Points
<1> QED
  BY <1>1, MaxLinesAssumption DEF Init, Typed, TypeOK, LinesOK, PowerUpModal, ModalGroups

\* The parser, the records and the positions keep their types, and G54 stays
\* readable, for all lines and EEPROM contents.
THEOREM GcodeTyped == Spec => []TypeOK
<1>1. Typed => TypeOK
  BY DEF Typed
<1> QED
  BY <1>1, TypedInit, TypedStep, PTL DEF Spec

-----------------------------------------------------------------------------
(* The parser agrees with the planner, the outputs and the EEPROM.         *)

LEMMA PositionStep == PositionAgrees /\ [Next]_vars => PositionAgrees'
<1> SUFFICES ASSUME PositionAgrees, [Next]_vars PROVE PositionAgrees'
  OBVIOUS
<1> USE DEF PositionAgrees, parser, outputs
<1>1. CASE HomeLine
  <2>1. McLine(HomeTarget, Motion(TRUE, block.feedMode = "G93", FeedOf))
    BY <1>1 DEF HomeLine
  <2>2. position' = HomeTarget /\ state' = state
    BY <1>1 DEF HomeLine
  <2> QED
    BY <2>1, <2>2 DEF McLine
<1>2. CASE MotionLine
  <2>1. PICK p \in PerLine : McLine(Target, Motion(block.motion = "G0", p, FeedOf))
    BY <1>2 DEF MotionLine
  <2>2. position' = Target /\ state' = state
    BY <1>2 DEF MotionLine
  <2> QED
    BY <2>1, <2>2 DEF McLine
<1>6. CASE JogLine
  <2>1. McLine(Target, Motion(FALSE, FALSE, FeedOf))
    BY <1>6 DEF JogLine
  <2>2. position' = Target
    BY <1>6 DEF JogLine
  <2>3. state \in {"idle", "jog"}
    BY <1>6 DEF JogLine, Executing, Locked
  <2> QED
    BY <2>1, <2>2, <2>3 DEF McLine
<1>7. CASE ProbeRefused
  <2>1. state # "check" /\ UNCHANGED <<position, plPosition>>
    BY <1>7 DEF ProbeRefused, Probes
  <2> QED
    BY <2>1
<1>8. CASE ProbeFound
  <2>1. PICK p \in Between(position, Target) : position' = p /\ plPosition' = p
    BY <1>8 DEF ProbeFound
  <2> QED
    BY <2>1
<1>9. CASE ProbeMissed
  <2>1. position' = Target /\ plPosition' = Target
    BY <1>9 DEF ProbeMissed
  <2> QED
    BY <2>1
<1>3. CASE NoMotionLine \/ RejectedLine \/ FailedReadLine \/ (\E l \in Lines : Receive(l))
  BY <1>3 DEF NoMotionLine, RejectedLine, FailedReadLine, Receive
<1>4. CASE JogEnds \/ JogCancelled \/ CheckOn \/ Unlock \/ Reset
  BY <1>4 DEF JogEnds, JogCancelled, CheckOn, Unlock, Reset
<1>5. CASE UNCHANGED vars
  BY <1>5 DEF vars
<1> QED
  BY <1>1, <1>2, <1>3, <1>4, <1>5, <1>6, <1>7, <1>8, <1>9 DEF Next

\* Wherever lines, jogs, probes and resets lead, the parser's position is the
\* one the planner ends at (PositionAgrees is inductive as it stands).
THEOREM PositionAlwaysAgrees == Spec => []PositionAgrees
<1>1. Init => PositionAgrees
  BY DEF Init, PositionAgrees
<1> QED
  BY <1>1, PositionStep, PTL DEF Spec

LEMMA OutputsAfterLine ==
    ASSUME TypeOK, OutputsAgree, state # "check", Execute
    PROVE  OutputsAgree'
<1>1. /\ modal' = ModalAfter /\ speed' = SpeedAfter
      /\ spindleOut' = SpindleAfter /\ coolantOut' = CoolantAfter
  BY DEF Execute
<1>2. /\ Ends => ModalAfter.spindle = "M5" /\ ModalAfter.coolant = "M9"
      /\ ~Ends => ModalAfter = block
  BY DEF ModalAfter, TypeOK, PowerUpModal
<1>3. SpindleAfter = Turning(ModalAfter.spindle, SpeedAfter)
  BY <1>2 DEF SpindleAfter, OutputsAgree, Turning
<1>4. CoolantAfter = ModalAfter.coolant
  BY <1>2 DEF CoolantAfter
<1> QED
  BY <1>1, <1>3, <1>4 DEF OutputsAgree, Turning

LEMMA OutputsStep == TypeOK /\ OutputsAgree /\ [Next]_vars => OutputsAgree'
<1> SUFFICES ASSUME TypeOK, OutputsAgree, [Next]_vars PROVE OutputsAgree'
  OBVIOUS
<1>1. CASE NoMotionLine \/ HomeLine \/ MotionLine \/ ProbeRefused \/ ProbeFound \/ ProbeMissed
  <2>1. Execute
    BY <1>1 DEF NoMotionLine, HomeLine, MotionLine, ProbeRefused, ProbeFound, ProbeMissed
  <2>2. CASE state # "check"
    BY <2>1, <2>2, OutputsAfterLine
  <2>3. CASE state = "check"
    BY <1>1, <2>3 DEF NoMotionLine, HomeLine, MotionLine, ProbeRefused, ProbeFound,
       ProbeMissed, Probes, OutputsAgree
  <2> QED
    BY <2>2, <2>3
<1> USE DEF OutputsAgree, Turning, parser, outputs
<1>2. CASE JogLine
  BY <1>2 DEF JogLine, Executing, Locked
<1>3. CASE RejectedLine \/ FailedReadLine \/ (\E l \in Lines : Receive(l))
  BY <1>3 DEF RejectedLine, FailedReadLine, Receive
<1>4. CASE JogEnds \/ JogCancelled \/ CheckOn \/ Unlock
  BY <1>4 DEF JogEnds, JogCancelled, CheckOn, Unlock
<1>5. CASE Reset
  BY <1>5 DEF Reset, PowerUpModal, Off
<1>6. CASE UNCHANGED vars
  BY <1>6 DEF vars
<1> QED
  BY <1>1, <1>2, <1>3, <1>4, <1>5, <1>6 DEF Next

\* Spindle and coolant do what the modes say between any two lines.
THEOREM OutputsAlwaysAgree == Spec => []OutputsAgree
<1>1. Init => OutputsAgree
  BY DEF Init, OutputsAgree, Turning, Off, PowerUpModal
<1> QED
  BY <1>1, OutputsStep, GcodeTyped, PTL DEF Spec

\* After an accepted line the coordinates in use are those stored for the
\* system it leaves selected.
LEMMA WcsAfterLine ==
    ASSUME Typed, WcsAgrees, state # "check", line # NoLine, Accepted, Execute
    PROVE  WcsAgrees'
<1> USE SystemsAreRecords
<1>1. modal' = ModalAfter /\ coordSystem' = SystemAfter /\ eeprom' = EepromAfter
  BY DEF Execute
<1>2. /\ block.select \in Systems /\ coordSystem = eeprom[modal.select]
      /\ eeprom \in [Records -> Points \cup {Damaged}]
  BY DEF Typed, TypeOK, WcsAgrees
<1>3. CASE Ends
  <2>1. ModalAfter.select = "G54"
    BY <1>3 DEF ModalAfter, Typed, TypeOK, PowerUpModal
  <2>2. SystemAfter = EepromAfter["G54"]
    BY <1>3 DEF SystemAfter
  <2> QED
    BY <1>1, <2>1, <2>2 DEF WcsAgrees
<1>4. CASE ~Ends
  <2>1. ModalAfter = block /\ BlockSystem = eeprom[block.select]
    BY <1>2, <1>4, ReadsTyped DEF ModalAfter
  <2>2. SystemAfter = EepromAfter[block.select]
    <3>1. CASE NonModal = "G10"
      <4>1. EepromAfter = [eeprom EXCEPT ![G10Record] = G10Data] /\ G10Record \in Records
        BY <3>1, ReadsTyped DEF EepromAfter
      <4>2. SystemAfter = IF G10Record = block.select THEN G10Data ELSE BlockSystem
        BY <1>4, <3>1 DEF SystemAfter
      <4> QED
        BY <1>2, <2>1, <4>1, <4>2
    <3>2. CASE NonModal # "G10"
      <4>1. EepromAfter \in {eeprom, [eeprom EXCEPT !["G28"] = position],
                                     [eeprom EXCEPT !["G30"] = position]}
        BY <3>2 DEF EepromAfter
      <4>2. EepromAfter[block.select] = eeprom[block.select]
        <5>1. block.select # "G28" /\ block.select # "G30"
          BY <1>2, SystemsAssumption
        <5> QED
          BY <1>2, <4>1, <5>1
      <4>3. SystemAfter = BlockSystem
        BY <1>4, <3>2 DEF SystemAfter
      <4> QED
        BY <2>1, <4>2, <4>3
    <3> QED
      BY <3>1, <3>2
  <2> QED
    BY <1>1, <2>1, <2>2 DEF WcsAgrees
<1> QED
  BY <1>3, <1>4

LEMMA WcsStep == Typed /\ WcsAgrees /\ [Next]_vars => WcsAgrees'
<1> SUFFICES ASSUME Typed, WcsAgrees, [Next]_vars PROVE WcsAgrees'
  OBVIOUS
<1>1. CASE NoMotionLine \/ HomeLine \/ MotionLine \/ ProbeRefused \/ ProbeFound \/ ProbeMissed
  <2>1. line # NoLine /\ Accepted /\ Execute
    BY <1>1 DEF NoMotionLine, HomeLine, MotionLine, ProbeRefused, ProbeFound, ProbeMissed,
       Probes, Executing
  <2>2. CASE state # "check"
    BY <2>1, <2>2, WcsAfterLine
  <2>3. CASE state = "check"
    BY <1>1, <2>3 DEF NoMotionLine, HomeLine, MotionLine, ProbeRefused, ProbeFound,
       ProbeMissed, Probes, WcsAgrees
  <2> QED
    BY <2>2, <2>3
<1> USE DEF WcsAgrees, parser, outputs
<1>2. CASE FailedReadLine
  <2>1. modal' = modal /\ coordSystem' = coordSystem /\ state' = state
    BY <1>2 DEF FailedReadLine
  <2>2. state # "check" => eeprom[modal.select] # Damaged
    BY SystemsAreRecords DEF Typed, TypeOK
  <2>3. modal.select \in Records
    BY SystemsAreRecords DEF Typed, TypeOK
  <2> QED
    BY <1>2, <2>1, <2>2, <2>3 DEF FailedReadLine, Restored
<1>3. CASE JogLine
  BY <1>3 DEF JogLine, Executing, Locked
<1>4. CASE RejectedLine \/ \E l \in Lines : Receive(l)
  BY <1>4 DEF RejectedLine, Receive
<1>5. CASE JogEnds \/ JogCancelled \/ CheckOn \/ Unlock
  BY <1>5 DEF JogEnds, JogCancelled, CheckOn, Unlock
<1>6. CASE Reset
  BY <1>6 DEF Reset, PowerUpModal
<1>7. CASE UNCHANGED vars
  BY <1>7 DEF vars
<1> QED
  BY <1>1, <1>2, <1>3, <1>4, <1>5, <1>6, <1>7 DEF Next

\* The coordinates in use are always those the EEPROM holds for the selected
\* system: no sequence of lines, healed records and resets moves the work.
THEOREM WcsAlwaysAgrees == Spec => []WcsAgrees
<1>1. Init => WcsAgrees
  BY DEF Init, WcsAgrees, PowerUpModal
<1> QED
  BY <1>1, WcsStep, TypedInit, TypedStep, PTL DEF Spec

-----------------------------------------------------------------------------
(* A line that names a work coordinate makes the work position that.       *)

\* A word of NonModalAxis decides what the axis words are for.
LEMMA NonModalClaims ==
    ASSUME line.commands \cap NonModalAxis # {}
    PROVE  AxisCommand = "nonModal"
  BY DEF AxisCommand

\* Of the words that claim axes there is one, so a motion is no G10 or G92.
LEMMA MotionHasNoData ==
    ASSUME MovesAlong
    PROVE  AxisCommand = "motion" /\ NonModal \notin NonModalAxis
<1>1. AxisCommand = "motion"
  BY DEF MovesAlong, FinalAxisCommand
<1>2. line.commands \cap NonModalAxis = {}
  BY <1>1, NonModalClaims
<1>3. "none" \notin NonModalAxis
  BY DEF NonModalAxis
<1> QED
  BY <1>1, <1>2, <1>3, NonModalIsCalled

\* Where the position, the system, the offset and the tool length stand
\* behind a line, its words are the work position.
LEMMA WordAfterMotion ==
    ASSUME Typed, line # NoLine, Accepted, ~Ends, MovesToWord,
           NEW a \in AxisWords
    PROVE  Target[a] - SystemAfter[a] - OffsetAfter[a]
             - (IF a = "Z" THEN ToolOffsetAfter ELSE 0) = Xyz(a)
<1>1. MovesAlong /\ block.distance = "G90" /\ NonModal \notin {"G53", "G92.1"}
  BY DEF MovesToWord
<1>2. AxisCommand = "motion" /\ NonModal \notin {"G10", "G92"}
  BY <1>1, MotionHasNoData DEF NonModalAxis
<1>3. a \in Axes /\ a \in Given /\ AxisWords # {}
  BY DEF AxisWords
<1>4. SystemAfter = BlockSystem /\ OffsetAfter = coordOffset /\ ToolOffsetAfter = tlo
  BY <1>1, <1>2 DEF SystemAfter, OffsetAfter, ToolOffsetAfter
<1>5. Target[a] = Xyz(a) + BlockSystem[a] + coordOffset[a] + ToolLength(a)
  BY <1>1, <1>3 DEF Target
<1>6. /\ Xyz(a) \in Int /\ BlockSystem[a] \in Int /\ coordOffset[a] \in Int
      /\ ToolLength(a) \in Int /\ ToolLength(a) = IF a = "Z" THEN tlo ELSE 0
  BY <1>3, WordsTyped, ReadsTyped DEF Typed, TypeOK, Points, ToolLength
<1> QED
  BY <1>4, <1>5, <1>6

LEMMA WordAfterData ==
    ASSUME Typed, line # NoLine, Accepted, ~Ends, SetsOrigin,
           NEW a \in AxisWords
    PROVE  position[a] - SystemAfter[a] - OffsetAfter[a]
             - (IF a = "Z" THEN ToolOffsetAfter ELSE 0) = Xyz(a)
<1>1. a \in Axes /\ a \in Given
  BY DEF AxisWords
<1>2. NonModal \in {"G10", "G92"} /\ NonModal \in line.commands
  BY NonModalIsCalled DEF SetsOrigin
<1>3. AxisCommand = "nonModal"
  <2>1. line.commands \cap NonModalAxis # {}
    BY <1>2 DEF NonModalAxis
  <2> QED
    BY <2>1, NonModalClaims
<1>4. ToolOffsetAfter = tlo
  BY <1>3 DEF ToolOffsetAfter
<1>5. /\ Xyz(a) \in Int /\ BlockSystem[a] \in Int /\ coordOffset[a] \in Int
      /\ position[a] \in Int
      /\ ToolLength(a) \in Int /\ ToolLength(a) = IF a = "Z" THEN tlo ELSE 0
  BY <1>1, WordsTyped, ReadsTyped DEF Typed, TypeOK, Points, ToolLength
<1>6. CASE NonModal = "G92"
  <2>1. SystemAfter = BlockSystem /\ OffsetAfter = G92Offset
    BY <1>6 DEF SystemAfter, OffsetAfter
  <2>2. G92Offset[a] = position[a] - BlockSystem[a] - Xyz(a) - ToolLength(a)
    BY <1>1 DEF G92Offset
  <2> QED
    BY <1>4, <1>5, <2>1, <2>2
<1>7. CASE NonModal = "G10"
  <2>1. SystemAfter = G10Data /\ OffsetAfter = coordOffset
    BY <1>7 DEF SystemAfter, OffsetAfter, SetsOrigin
  <2>2. G10Data[a] = position[a] - coordOffset[a] - Xyz(a) - ToolLength(a)
    BY <1>1, <1>7 DEF G10Data, SetsOrigin
  <2> QED
    BY <1>4, <1>5, <2>1, <2>2
<1> QED
  BY <1>2, <1>6, <1>7

\* The step that executes the line leaves those values behind.
LEMMA WordStep ==
    ASSUME Typed, [Next]_vars, Proceeds, ~line.jog, ~Ends, SetsOrigin \/ MovesToWord
    PROVE  (\A a \in AxisWords : WorkPosition(a)' = Xyz(a)) \/ UNCHANGED vars
<1> SUFFICES ASSUME ~UNCHANGED vars, NEW a \in AxisWords
             PROVE  WorkPosition(a)' = Xyz(a)
  OBVIOUS
<1>1. line # NoLine /\ Accepted /\ ~Locked
  BY DEF Proceeds, Executing
<1>2. SetsOrigin => ~MovesAlong /\ ~GoesHome
  BY MotionHasNoData DEF SetsOrigin, GoesHome, NonModalAxis
<1>3. MovesToWord => MovesAlong /\ ~GoesHome /\ ~IsProbe(block.motion)
  BY DEF MovesToWord, MovesAlong
<1>4. \/ SetsOrigin /\ Execute /\ position' = position
      \/ MovesToWord /\ Execute /\ position' = Target
  BY <1>1, <1>2, <1>3 DEF Next, Receive, RejectedLine, FailedReadLine, NoMotionLine, HomeLine,
     MotionLine, ProbeRefused, ProbeFound, ProbeMissed, Probes, JogLine, JogEnds, JogCancelled,
     CheckOn, Unlock, Reset, Accepted
<1>5. WorkPosition(a)' = position'[a] - SystemAfter[a] - OffsetAfter[a]
                            - (IF a = "Z" THEN ToolOffsetAfter ELSE 0)
  BY <1>4 DEF WorkPosition, ToolLength, Execute
<1> QED
  BY <1>1, <1>4, <1>5, WordAfterMotion, WordAfterData

\* After a line that names a work coordinate, by moving there or by giving the
\* present place that name, the work position is the word: for every line,
\* system, offset and tool length.
THEOREM WorkPositionAlwaysMeansWord == Spec => WorkPositionMeansWord
<1>1. Typed /\ [Next]_vars =>
        [(Proceeds /\ ~line.jog /\ ~Ends /\ (SetsOrigin \/ MovesToWord))
           => \A a \in AxisWords : WorkPosition(a)' = Xyz(a)]_vars
  BY WordStep
<1> QED
  BY <1>1, TypedInit, TypedStep, PTL DEF Spec, WorkPositionMeansWord
=============================================================================
