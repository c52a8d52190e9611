------------------------------- MODULE Gcode -------------------------------
(***************************************************************************)
(* The g-code parser: grbl/gcode.c, with the parts of motion_control.c,    *)
(* jog.c and settings.c it calls.  A line is what protocol_main_loop hands *)
(* over: a set of command words and a function from the letters of its     *)
(* value words to their (whole) values.  The parser copies its modes into  *)
(* a block, changes the block, checks it as a whole and only then executes *)
(* it; reading a damaged EEPROM record on the way restores the record.     *)
(*                                                                         *)
(* Lines are executed to completion.  A reset that arrives meanwhile is a  *)
(* reset after the line: main() then builds the parser's state anew, and   *)
(* what a line leaves in the EEPROM does not depend on sys.abort.  The     *)
(* waits inside a line belong to Realtime.  Syntax errors (letters,        *)
(* numbers, repeated words) reject a line before anything else; no such    *)
(* line is in the model.  Laser mode and soft limits are off.              *)
(***************************************************************************)
EXTENDS Integers, FiniteSets

CONSTANTS Axes,       \* the axes of the instance, a part of {"X","Y","Z"}
          Lines,      \* the lines the host may send
          Systems,    \* work coordinate systems in use, a part of G54..G59
          Stored,     \* what a record may hold at power-up
          Stops,      \* where a reset or a cancelled jog may find the tool
          MmPerInch,  \* MM_PER_INCH
          MaxLines,   \* bound on the number of lines executed
          Damaged,    \* a record whose checksum does not match
          NoLine, NoMotion

ASSUME AxesAssumption == Axes \subseteq {"X", "Y", "Z"}
ASSUME SystemsAssumption == /\ "G54" \in Systems
                            /\ "G28" \notin Systems /\ "G30" \notin Systems
ASSUME StopsAssumption == Stops # {} /\ Stops \subseteq [Axes -> Int]
ASSUME StoredAssumption == Stored # {} /\ Stored \subseteq [Axes -> Int]
ASSUME InchAssumption == MmPerInch \in Int
ASSUME MaxLinesAssumption == MaxLines \in Nat
ASSUME DamagedAssumption == Damaged \notin [Axes -> Int]
ASSUME NoLineAssumption == NoLine \notin Lines

Points == [Axes -> Int]
Origin == [a \in Axes |-> 0]
Records == Systems \cup {"G28", "G30"}

VARIABLES
    modal,          \* gc_state.modal: for each modal group, the word in force
    feed,           \* what gc_state.feed_rate holds, see FeedOf
    speed,          \* gc_state.spindle_speed
    position,       \* gc_state.position, machine coordinates in mm
    coordSystem,    \* gc_state.coord_system
    coordOffset,    \* gc_state.coord_offset, the G92 offset
    tlo,            \* gc_state.tool_length_offset
    eeprom,         \* the coordinate records
    plPosition,     \* the planner's position, where queued motion ends
    queued,         \* the last motion the line handed to the planner
    spindleOut, coolantOut,     \* the outputs
    state,          \* sys.state: "idle", "jog", "check" or "alarm"
    line,           \* the line received, or NoLine
    block,          \* gc_block.modal: the modes with the line's words in force
    lines           \* lines left

parser == <<modal, feed, speed, position, coordSystem, coordOffset, tlo>>
outputs == <<spindleOut, coolantOut>>
vars == <<parser, eeprom, plPosition, queued, outputs, state, line, block, lines>>

-----------------------------------------------------------------------------
(* Steps 1 and 2: the words of a line and the block they make.             *)

ModalGroups == [
    G0  |-> {"G4", "G10", "G28", "G28.1", "G30", "G30.1", "G53", "G92", "G92.1"},
    G1  |-> {"G0", "G1", "G2", "G3", "G38.2", "G38.3", "G38.4", "G38.5", "G80"},
    G2  |-> {"G17", "G18", "G19"},
    G3  |-> {"G90", "G91"},
    G4  |-> {"G91.1"},
    G5  |-> {"G93", "G94"},
    G6  |-> {"G20", "G21"},
    G7  |-> {"G40"},
    G8  |-> {"G43.1", "G49"},
    G12 |-> {"G54", "G55", "G56", "G57", "G58", "G59"},
    G13 |-> {"G61"},
    M4  |-> {"M0", "M1", "M2", "M30"},
    M7  |-> {"M3", "M4", "M5"},
    M8  |-> {"M8", "M9"}]

Commands == UNION {ModalGroups[g] : g \in DOMAIN ModalGroups}
Letters == {"F", "I", "J", "K", "L", "N", "P", "R", "S", "T", "X", "Y", "Z"}

Calls(l, group) == l.commands \cap ModalGroups[group]

\* The word of a group in force after the line's words have been read.
InForce(l, group, before) ==
    IF Calls(l, group) = {} THEN before ELSE CHOOSE c \in Calls(l, group) : TRUE

\* gc_block.modal.  A jog is a G1 in G94 whatever the modes are.
Block(l) == [
    motion   |-> InForce(l, "G1", IF l.jog THEN "G1" ELSE modal.motion),
    feedMode |-> InForce(l, "G5", IF l.jog THEN "G94" ELSE modal.feedMode),
    plane    |-> InForce(l, "G2", modal.plane),
    distance |-> InForce(l, "G3", modal.distance),
    units    |-> InForce(l, "G6", modal.units),
    tool     |-> InForce(l, "G8", modal.tool),
    select   |-> InForce(l, "G12", modal.select),
    spindle  |-> InForce(l, "M7", modal.spindle),
    coolant  |-> InForce(l, "M8", modal.coolant)]

\* The line being executed.
Given == DOMAIN line.words
AxisWords == Given \cap Axes
NonModal == InForce(line, "G0", "none")

\* Words that claim the axis words of their line; only one may.
NonModalAxis == {"G10", "G28", "G30", "G92"}
AxisClaims == line.commands \cap (NonModalAxis \cup ModalGroups.G8
                                    \cup (ModalGroups.G1 \ {"G80"}))

AxisCommand ==
    IF line.commands \cap NonModalAxis # {} THEN "nonModal"
    ELSE IF Calls(line, "G8") # {} THEN "tool"
    ELSE IF Calls(line, "G1") \ {"G80"} # {} \/ AxisWords # {} THEN "motion"
    ELSE "none"

GroupViolation ==
    \E c, d \in line.commands :
        c # d /\ \E g \in DOMAIN ModalGroups : {c, d} \subseteq ModalGroups[g]

NegativeValue ==
    \E w \in Given \cap {"F", "N", "P", "T", "S"} : line.words[w] < 0

-----------------------------------------------------------------------------
(* Step 3: the checks, in the order of the code as far as reads of the     *)
(* EEPROM lie between them.                                                *)

IsArc(m) == m \in {"G2", "G3"}
IsProbe(m) == m \in {"G38.2", "G38.3", "G38.4", "G38.5"}

\* What the feed rate of the block is: undefined, millimetres per minute, a
\* rate for the line itself (G93) or inches per minute left unconverted.  In
\* G94 the F of a line is converted only if the line before was in G94 too.
FeedOf ==
    LET b == block
        given == "F" \in Given /\ line.words["F"] # 0
    IN  CASE line.jog -> IF given THEN "mm" ELSE "none"
          [] ~line.jog /\ b.feedMode = "G93" -> IF given THEN "perLine" ELSE "none"
          [] ~line.jog /\ b.feedMode = "G94" /\ modal.feedMode = "G94" ->
               IF "F" \notin Given THEN feed
               ELSE IF given THEN "mm" ELSE "none"
          [] OTHER -> IF ~given THEN "none"
                      ELSE IF b.units = "G20" THEN "inch" ELSE "mm"

FeedWordMissing ==
    /\ "F" \notin Given
    /\ \/ line.jog
       \/ /\ block.feedMode = "G93"
          /\ AxisCommand = "motion"
          /\ block.motion \notin {"G80", "G0"}

DwellTimeMissing == NonModal = "G4" /\ "P" \notin Given

ToolAxisError == /\ AxisCommand = "tool"
                 /\ block.tool = "G43.1"
                 /\ AxisWords # {"Z"}

Mm(v) == IF block.units = "G20" THEN v * MmPerInch ELSE v
Xyz(a) == Mm(line.words[a])

RejectedFirst ==
    \/ Cardinality(AxisClaims) > 1
    \/ GroupViolation \/ NegativeValue
    \/ FeedWordMissing \/ DwellTimeMissing \/ ToolAxisError

\* 15: a newly selected coordinate system is read from the EEPROM.
SelectRead == IF block.select # modal.select THEN {block.select} ELSE {}
BlockSystem == IF SelectRead # {} THEN eeprom[block.select] ELSE coordSystem

\* 19: G10.  P and L are cut to eight bits; a missing one reads as zero, and
\* the check for missing words fails only when both are missing.
Byte(w) == IF w \in Given THEN line.words[w] % 256 ELSE 0
SystemOf(p) == <<"G54", "G55", "G56", "G57", "G58", "G59">>[p]
G10Record == IF Byte("P") = 0 THEN block.select ELSE SystemOf(Byte("P"))

G10Error ==
    /\ NonModal = "G10"
    /\ \/ AxisWords = {}
       \/ Given \cap {"P", "L"} = {}
       \/ Byte("P") > 6
       \/ Byte("L") \notin {2, 20}
       \/ Byte("L") = 2 /\ "R" \in Given
G92Error == NonModal = "G92" /\ AxisWords = {}

RejectedSecond == G10Error \/ G92Error

DataRead == CASE NonModal = "G10" -> {G10Record}
                 [] NonModal \in {"G28", "G30"} -> {NonModal}
                 [] OTHER -> {}

\* The record whose read fails, if one does.
FailedRead ==
    IF \E r \in SelectRead : eeprom[r] = Damaged THEN SelectRead
    ELSE IF RejectedSecond THEN {}
    ELSE {r \in DataRead : eeprom[r] = Damaged}

ToolLength(a) == IF a = "Z" THEN tlo ELSE 0

\* gc_block.values.xyz as a target in machine coordinates.
Target == [a \in Axes |->
    IF AxisWords = {} THEN 0
    ELSE IF a \notin Given THEN position[a]
    ELSE IF NonModal = "G53" THEN Xyz(a)
    ELSE IF block.distance = "G90"
      THEN Xyz(a) + BlockSystem[a] + coordOffset[a] + ToolLength(a)
    ELSE Xyz(a) + position[a]]

\* The record G10 stores: L20 makes the present position read as the word.
G10Data == [a \in Axes |->
    IF a \notin Given THEN eeprom[G10Record][a]
    ELSE IF Byte("L") = 20
      THEN position[a] - coordOffset[a] - Xyz(a) - ToolLength(a)
    ELSE Xyz(a)]

\* The offset G92 sets.
G92OffsetForgetsTool == [a \in Axes |->                 \* faulty variant
    IF a \in Given THEN position[a] - BlockSystem[a] - Xyz(a)
    ELSE coordOffset[a]]
G92Offset == [a \in Axes |->
    IF a \in Given THEN position[a] - BlockSystem[a] - Xyz(a) - ToolLength(a)
    ELSE coordOffset[a]]

\* Where G28 and G30 go: the axes given, or all of them.
HomeTarget == [a \in Axes |->
    IF AxisWords # {} /\ a \notin Given THEN position[a]
    ELSE eeprom[NonModal][a]]

\* What the reading of the letters makes of a line, and the systems in use.
ASSUME LinesAssumption == \A l \in Lines :
    /\ l.jog \in BOOLEAN /\ l.commands \subseteq Commands
    /\ DOMAIN l.words \subseteq Letters
    /\ \A w \in DOMAIN l.words : l.words[w] \in Int
    /\ l.commands \cap ModalGroups.G12 \subseteq Systems
    /\ ("P" \in DOMAIN l.words /\ l.words["P"] % 256 \in 1..6)
         => SystemOf(l.words["P"] % 256) \in Systems

-----------------------------------------------------------------------------
(* 20: arcs and probes.                                                    *)

PlaneAxes(p) == CASE p = "G17" -> <<"X", "Y">>
                  [] p = "G18" -> <<"Z", "X">>
                  [] p = "G19" -> <<"Y", "Z">>
OffsetLetter(a) == CASE a = "X" -> "I" [] a = "Y" -> "J" [] a = "Z" -> "K"

Moves(a) == IF a \in Axes THEN Target[a] - position[a] ELSE 0
Centre(a) == IF OffsetLetter(a) \in Given THEN Mm(line.words[OffsetLetter(a)])
                                                ELSE 0

ArcError ==
    LET p == PlaneAxes(block.plane)
        x == Moves(p[1])
        y == Moves(p[2])
        i == Centre(p[1])
        j == Centre(p[2])
        r == Mm(line.words["R"])
    IN  \/ AxisWords \cap {p[1], p[2]} = {}
        \/ /\ "R" \in Given
           /\ Target = position \/ 4 * r * r < x * x + y * y
        \/ /\ "R" \notin Given
           /\ \/ Given \cap {OffsetLetter(p[1]), OffsetLetter(p[2])} = {}
              \/ (x - i) * (x - i) + (y - j) * (y - j) # i * i + j * j

MotionError ==
    /\ AxisCommand = "motion" /\ block.motion \notin {"G80", "G0"}
    /\ \/ FeedOf = "none"
       \/ IsArc(block.motion) /\ ArcError
       \/ /\ IsProbe(block.motion)
          /\ AxisWords = {} \/ Target = position

\* G0 and G1 without axis words move nothing, nor does G28's first leg.
FinalAxisCommand ==
    IF AxisWords = {}
         /\ \/ AxisCommand = "motion" /\ block.motion \in {"G0", "G1"}
            \/ NonModal \in {"G28", "G30"}
      THEN "none" ELSE AxisCommand

UsedWords ==
    {"N", "F"} \cup (IF line.jog THEN {} ELSE {"S", "T"})
      \cup (IF NonModal = "G4" THEN {"P"} ELSE {})
      \cup (IF NonModal = "G10" THEN {"L", "P"} ELSE {})
      \cup (IF AxisCommand = "motion" /\ IsArc(block.motion)
              THEN IF "R" \in Given THEN {"R"} ELSE {"I", "J", "K"}
              ELSE {})
      \cup (IF FinalAxisCommand # "none" THEN {"X", "Y", "Z"} ELSE {})

\* The groups a jog may use: bit(G6 | bit(G0)) is the bit of G7.
JogGroups == {"G3", "G7"}
JogError ==
    /\ line.jog
    /\ \/ \E g \in DOMAIN ModalGroups \ JogGroups : Calls(line, g) # {}
       \/ NonModal \notin {"none", "G53"}

RejectedLast ==
    \/ NonModal = "G53" /\ block.motion \notin {"G0", "G1"}
    \/ block.motion = "G80" /\ AxisWords # {}
    \/ MotionError
    \/ ~(Given \subseteq UsedWords)
    \/ JogError

Rejected == RejectedFirst \/ RejectedSecond \/ RejectedLast
Accepted == ~RejectedFirst /\ FailedRead = {} /\ ~RejectedSecond
                 /\ ~RejectedLast

-----------------------------------------------------------------------------
(* Step 4: what an accepted line leaves behind.                            *)

PowerUpModal == [motion |-> "G0", feedMode |-> "G94", plane |-> "G17",
                 distance |-> "G90", units |-> "G21", tool |-> "G49",
                 select |-> "G54", spindle |-> "M5", coolant |-> "M9"]

Ends == line.commands \cap {"M2", "M30"} # {}

\* M2 and M30 put some of the modes back.
ModalAfter ==
    IF Ends
      THEN [block EXCEPT !.motion = "G1", !.plane = "G17", !.distance = "G90",
                            !.feedMode = "G94", !.select = "G54",
                            !.spindle = "M5", !.coolant = "M9"]
      ELSE block

SpeedAfter == IF "S" \in Given THEN line.words["S"] ELSE speed

Off == <<"M5", 0>>
Turning(dir, s) == IF dir = "M5" THEN Off ELSE <<dir, s>>

\* spindle_sync: on a change of the speed while it turns or of the direction.
SpindleIgnoresSpeed ==                                  \* faulty variant
    IF state = "check" THEN spindleOut
    ELSE IF Ends THEN Off
    ELSE IF block.spindle # modal.spindle
      THEN Turning(block.spindle, SpeedAfter)
    ELSE spindleOut
SpindleAfter ==
    IF state = "check" THEN spindleOut
    ELSE IF Ends THEN Off
    ELSE IF block.spindle # modal.spindle \/ SpeedAfter # speed
      THEN Turning(block.spindle, SpeedAfter)
    ELSE spindleOut

CoolantAfter == IF state = "check" THEN coolantOut
                   ELSE IF Ends THEN "M9"
                   ELSE block.coolant

\* G43.1 and G49.
ToolOffsetAfter ==
    IF AxisCommand # "tool" THEN tlo
    ELSE IF block.tool = "G49" THEN 0 ELSE Xyz("Z")

EepromAfter ==
    CASE NonModal = "G10" -> [eeprom EXCEPT ![G10Record] = G10Data]
      [] NonModal = "G28.1" -> [eeprom EXCEPT !["G28"] = position]
      [] NonModal = "G30.1" -> [eeprom EXCEPT !["G30"] = position]
      [] OTHER -> eeprom

\* The active coordinates: a new selection, then what G10 changed, then the
\* end of the program, which in check mode selects G54 without reading it.
SystemAfterG10Ignored ==                                \* faulty variant
    IF Ends /\ state # "check" THEN EepromAfter["G54"]
    ELSE IF NonModal = "G10" /\ G10Record = modal.select THEN G10Data
    ELSE BlockSystem
SystemAfter ==
    IF Ends /\ state # "check" THEN EepromAfter["G54"]
    ELSE IF NonModal = "G10" /\ G10Record = block.select THEN G10Data
    ELSE BlockSystem

OffsetAfter == CASE NonModal = "G92" -> G92Offset
                    [] NonModal = "G92.1" -> Origin
                    [] OTHER -> coordOffset

Answered == line' = NoLine /\ block' = PowerUpModal
Executed == Answered /\ lines' = lines - 1

\* Everything but the position, the plan and sys.state.
Execute ==
    /\ modal' = ModalAfter /\ feed' = FeedOf /\ speed' = SpeedAfter
    /\ spindleOut' = SpindleAfter /\ coolantOut' = CoolantAfter
    /\ tlo' = ToolOffsetAfter
    /\ coordSystem' = SystemAfter /\ coordOffset' = OffsetAfter
    /\ eeprom' = EepromAfter
    /\ Executed

Motion(rapid, perLine, f) == [rapid |-> rapid, perLine |-> perLine, feed |-> f]

\* mc_line: check mode plans nothing.
McLine(target, motion) ==
    IF state = "check" THEN UNCHANGED <<plPosition, queued>>
    ELSE plPosition' = target /\ queued' = motion

GoesHome == NonModal \in {"G28", "G30"}
MovesAlong == ~GoesHome /\ FinalAxisCommand = "motion"

\* mc_arc cuts an arc into lines; with more than one the F of the line is
\* multiplied by their number and no longer marked as a rate for the line.
\* An arc too short to be cut remains one line.
PerLine == IF block.feedMode # "G93" THEN {FALSE}
              ELSE IF IsArc(block.motion) THEN BOOLEAN ELSE {TRUE}

Between(p, q) ==
    LET coordinates == {p[a] : a \in Axes} \cup {q[a] : a \in Axes}
        box == UNION {m..n : m \in coordinates, n \in coordinates}
    IN  {r \in [Axes -> box] : \A a \in Axes :
            r[a] \in (p[a]..q[a]) \cup (q[a]..p[a])}

-----------------------------------------------------------------------------
(* The actions.                                                            *)

\* settings_read_coord_data puts zeros into a record it cannot read.
Restored(record) == IF record = Damaged THEN Origin ELSE record

\* Power-up: gc_init loads G54, which restores a damaged record.  At most one
\* record is damaged.
Init ==
    /\ \E image \in [Records -> Stored \cup {Damaged}] :
          /\ \A r, s \in Records : (image[r] = Damaged /\ image[s] = Damaged) => r = s
          /\ eeprom = [image EXCEPT !["G54"] = Restored(@)]
    /\ modal = PowerUpModal /\ feed = "none" /\ speed = 0
    /\ position = Origin /\ plPosition = Origin /\ queued = NoMotion
    /\ coordSystem = eeprom["G54"] /\ coordOffset = Origin /\ tlo = 0
    /\ spindleOut = Off /\ coolantOut = "M9"
    /\ state \in {"idle", "alarm"}
    /\ line = NoLine /\ block = PowerUpModal /\ lines = MaxLines

Receive(l) ==
    /\ line = NoLine
    /\ lines > 0
    /\ line' = l /\ block' = Block(l) /\ queued' = NoMotion
    /\ UNCHANGED <<parser, eeprom, plPosition, outputs, state, lines>>

\* Lines are locked out in alarms and jogs, jogs in alarms and check mode.
Locked == IF line.jog THEN state \notin {"idle", "jog"}
                      ELSE state \in {"alarm", "jog"}

RejectedLine ==
    /\ line # NoLine
    /\ \/ Locked
       \/ RejectedFirst
       \/ FailedRead = {} /\ (RejectedSecond \/ RejectedLast)
    /\ Answered
    /\ UNCHANGED <<parser, eeprom, plPosition, queued, outputs, state, lines>>

FailedReadLine ==
    /\ line # NoLine
    /\ ~Locked /\ ~RejectedFirst /\ FailedRead # {}
    /\ eeprom' = [r \in Records |-> IF r \in FailedRead THEN Restored(eeprom[r])
                                    ELSE eeprom[r]]
    /\ Answered
    /\ UNCHANGED <<parser, plPosition, queued, outputs, state, lines>>

Executing == line # NoLine /\ ~Locked
Proceeds == Executing /\ Accepted

NoMotionLine ==
    /\ Executing /\ ~line.jog /\ ~GoesHome /\ ~MovesAlong /\ Accepted
    /\ Execute
    /\ UNCHANGED <<position, plPosition, queued, state>>

HomeLine ==
    /\ Executing /\ ~line.jog /\ GoesHome /\ Accepted
    /\ Execute
    /\ McLine(HomeTarget, Motion(TRUE, block.feedMode = "G93", FeedOf))
    /\ position' = HomeTarget
    /\ UNCHANGED state

MotionLineForgets ==                                       \* faulty variant
    /\ Executing /\ ~line.jog /\ MovesAlong /\ Accepted
    /\ ~IsProbe(block.motion) \/ state = "check"
    /\ Execute
    /\ \E p \in PerLine :
          McLine(Target, Motion(block.motion = "G0", p, FeedOf))
    /\ position' = IF IsArc(block.motion) THEN position ELSE Target
    /\ UNCHANGED state
MotionLine ==
    /\ Executing /\ ~line.jog /\ MovesAlong /\ Accepted
    /\ ~IsProbe(block.motion) \/ state = "check"
    /\ Execute
    /\ \E p \in PerLine :
          McLine(Target, Motion(block.motion = "G0", p, FeedOf))
    /\ position' = Target
    /\ UNCHANGED state

Probes == Executing /\ ~line.jog /\ MovesAlong
            /\ IsProbe(block.motion) /\ state # "check" /\ Accepted

\* The probe is triggered before the cycle starts: nothing moves.
ProbeRefused ==
    /\ Probes
    /\ Execute
    /\ state' = "alarm"
    /\ UNCHANGED <<position, plPosition, queued>>

\* Contact: planner and parser take over the position of the machine.
ProbeFound ==
    /\ Probes
    /\ Execute
    /\ \E p \in Between(position, Target) : position' = p /\ plPosition' = p
    /\ queued' = Motion(FALSE, block.feedMode = "G93", FeedOf)
    /\ UNCHANGED state

\* No contact: the target is reached, an alarm unless the probe says no error.
ProbeMissed ==
    /\ Probes
    /\ Execute
    /\ position' = Target /\ plPosition' = Target
    /\ queued' = Motion(FALSE, block.feedMode = "G93", FeedOf)
    /\ state' = IF block.motion \in {"G38.3", "G38.5"} THEN state ELSE "alarm"

\* A jog changes no mode, only the position.
JogLine ==
    /\ Executing /\ line.jog /\ Accepted
    /\ McLine(Target, Motion(FALSE, FALSE, FeedOf))
    /\ position' = Target
    /\ state' = IF Target # plPosition THEN "jog" ELSE state
    /\ Executed
    /\ UNCHANGED <<modal, feed, speed, coordSystem, coordOffset, tlo, eeprom, outputs>>

JogEnds ==
    /\ state = "jog" /\ line = NoLine
    /\ state' = "idle"
    /\ UNCHANGED <<parser, eeprom, plPosition, queued, outputs, line, block, lines>>

\* A cancelled jog drops the queue: both positions follow the machine.
JogCancelled ==
    /\ state = "jog" /\ line = NoLine
    /\ \E p \in Stops : position' = p /\ plPosition' = p
    /\ state' = "idle"
    /\ UNCHANGED <<modal, feed, speed, coordSystem, coordOffset, tlo, eeprom,
                   queued, outputs, line, block, lines>>

\* $C and $X.
CheckOn ==
    /\ state = "idle" /\ line = NoLine
    /\ state' = "check"
    /\ UNCHANGED <<parser, eeprom, plPosition, queued, outputs, line, block, lines>>

Unlock ==
    /\ state = "alarm" /\ line = NoLine
    /\ state' = "idle"
    /\ UNCHANGED <<parser, eeprom, plPosition, queued, outputs, line, block, lines>>

\* A reset, also the end of check mode: main() builds everything anew from
\* the EEPROM and from where the tool stands.  Motion killed is an alarm.  A
\* line not yet executed is flushed: as if it had not been sent.
Reset ==
    /\ line = NoLine
    /\ modal' = PowerUpModal /\ feed' = "none" /\ speed' = 0
    /\ coordSystem' = eeprom["G54"] /\ coordOffset' = Origin /\ tlo' = 0
    /\ \E p \in Stops \cup {plPosition} : position' = p /\ plPosition' = p
    /\ queued' = NoMotion /\ spindleOut' = Off /\ coolantOut' = "M9"
    /\ state' \in {"alarm"} \cup (IF state = "alarm" THEN {} ELSE {"idle"})
    /\ UNCHANGED <<eeprom, line, block, lines>>

Next ==
    \/ \E l \in Lines : Receive(l)
    \/ RejectedLine \/ FailedReadLine
    \/ NoMotionLine \/ HomeLine \/ MotionLine
    \/ ProbeRefused \/ ProbeFound \/ ProbeMissed
    \/ JogLine \/ JogEnds \/ JogCancelled
    \/ CheckOn \/ Unlock \/ Reset

Spec == Init /\ [][Next]_vars

-----------------------------------------------------------------------------
(* Properties.                                                             *)

\* Types; a record in use is never a damaged one.
TypeOK ==
    /\ DOMAIN modal = DOMAIN PowerUpModal /\ modal.select \in Systems
    /\ feed \in {"none", "mm", "inch", "perLine"} /\ speed \in Int
    /\ position \in Points /\ plPosition \in Points
    /\ coordSystem \in Points /\ coordOffset \in Points /\ tlo \in Int
    /\ eeprom \in [Records -> Points \cup {Damaged}]
    /\ state \in {"idle", "jog", "check", "alarm"}
    /\ queued = NoMotion \/ queued.feed \in {"none", "mm", "inch", "perLine"}
    /\ line \in Lines \cup {NoLine} /\ lines \in 0..MaxLines
    /\ DOMAIN block = DOMAIN PowerUpModal /\ block.select \in Systems
    /\ modal.tool \in ModalGroups.G8 /\ block.tool \in ModalGroups.G8

\* The parser's position is where the motion handed to the planner ends, with
\* arcs, jogs, probes, G28 and resets in any order (gcode.c: "As far as the
\* parser is concerned, the position is now == target").
PositionAgrees == state # "check" => position = plPosition

\* The coordinates in use are those the EEPROM holds for the selected system,
\* so that a reset does not move the work: G10, G54.. and M30 in any order.
WcsAgrees == state # "check" => coordSystem = eeprom[modal.select]

\* Spindle and coolant do what the modes say, after M words, S words, the end
\* of a program, check mode and resets.
OutputsAgree ==
    state # "check" => /\ spindleOut = Turning(modal.spindle, speed)
                       /\ coolantOut = modal.coolant

\* What report.c prints as WPos, once the queued motion is done.
WorkPosition(a) == position[a] - coordSystem[a] - coordOffset[a] - ToolLength(a)

SetsOrigin ==
    \/ NonModal = "G92"
    \/ /\ NonModal = "G10" /\ Byte("L") = 20
       /\ G10Record = block.select
MovesToWord ==
    /\ MovesAlong /\ ~IsProbe(block.motion) /\ block.distance = "G90"
    /\ NonModal \notin {"G53", "G92.1"}

\* After a line that names a work coordinate, by moving there or by giving the
\* present place that name (G92, G10 L20), the work position is the word.
WorkPositionMeansWord ==
    [][(Proceeds /\ ~line.jog /\ ~Ends
          /\ (SetsOrigin \/ MovesToWord))
         => \A a \in AxisWords : WorkPosition(a)' = Xyz(a)]_vars

\* Feed motion has a feed rate of the kind its block says: millimetres per
\* minute, or a rate for the line under G93 (gcode.c, "Set feed rate").
FeedAgrees ==
    (queued # NoMotion /\ ~queued.rapid)
      => queued.feed = IF queued.perLine THEN "perLine" ELSE "mm"

\* A jog leaves the axes alone that it does not name (gcode.c: "Feed rate word
\* and axis word checks have already been performed").
JogMovesNamedAxes ==
    [][(Proceeds /\ line.jog)
         => \A a \in Axes \ Given : position'[a] = position[a]]_vars
=============================================================================
