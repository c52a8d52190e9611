------------------------------ MODULE MCGcode ------------------------------
(* Gcode with the lines the runs send: every modal group, every non-modal  *)
(* command, the combinations in which one word changes what another means  *)
(* and at least one line for each check that can reject one.               *)
EXTENDS Gcode, TLC

L(c, w) == [jog |-> FALSE, commands |-> c, words |-> w]
J(c, w) == [jog |-> TRUE, commands |-> c, words |-> w]
None == [x \in {} |-> 0]
X(v) == "X" :> v
Z(v) == "Z" :> v
F == "F" :> 1
S(v) == "S" :> v
P(v) == "P" :> v
LWord(v) == "L" :> v

ModeLines ==
    {L({c}, None) : c \in {"G91", "G20", "G93", "G54", "G49", "M2"}}
      \cup {L({"M3"}, S(1)), L({"M4", "M9"}, None), L({"M8"}, S(2))}

MotionLines ==
    {L({}, X(1)), L({"G0"}, Z(1)), L({"G1"}, X(1) @@ F), L({"G53"}, X(1)),
     L({"G55"}, X(0)), L({"G18", "G2"}, X(1) @@ Z(1) @@ ("I" :> 1) @@ F),
     L({"G18", "G3"}, X(1) @@ ("R" :> 1) @@ F), L({"G94", "G1", "M30"}, X(0) @@ F),
     L({"G38.2"}, X(1) @@ F), L({"G38.3"}, X(1) @@ F)}

DataLines ==
    {L({"G92"}, X(0)), L({"G92", "G55"}, Z(1)), L({"G92.1"}, X(1)),
     L({"G43.1"}, Z(1)), L({"G28"}, None), L({"G28"}, X(1)), L({"G28.1"}, None),
     L({"G30.1", "G1"}, X(1) @@ F),
     L({"G10"}, LWord(2) @@ P(1) @@ X(1)), L({"G10"}, LWord(20) @@ Z(0)),
     L({"G10"}, LWord(258) @@ P(257) @@ X(0)),
     L({"G10", "G55"}, LWord(20) @@ P(0) @@ X(1))}

WrongLines ==
    {L({"G92", "G1"}, X(1)), L({"M3", "M4"}, None), L({}, S(-1)), L({"G4"}, None),
     L({"G43.1"}, X(1)), L({"G10"}, X(1)), L({"G2"}, X(1) @@ F),
     L({"G80", "G53"}, X(1)), L({"G4"}, P(1) @@ LWord(2))}

JogLines ==
    {J({}, X(1) @@ F), J({"G91"}, Z(1) @@ F), J({}, X(1)), J({"G53"}, X(1) @@ F)}

AllLines == ModeLines \cup MotionLines \cup DataLines \cup WrongLines \cup JogLines
FeedLines == {L({"G93", "G1", "M2"}, X(1) @@ F), L({"G1"}, X(0))}
JogOnly == {J({}, X(1) @@ F), J({}, F)}

At(x, z) == ("X" :> x) @@ ("Z" :> z)
MCStored == {At(1, 0)}
MCStops == {At(2, 0)}
MCAxes == {"X", "Z"}
=============================================================================
