------------------------------ MODULE MCHoming ------------------------------
(* Homing as config.h builds it, with one cycle for X and Y of a COREXY      *)
(* machine (AsBuilt), or as its comment asks for (OneByOne); places near and *)
(* too far from the switches, and targets inside and outside of the travel.  *)
EXTENDS Homing

At(x, y, z) == [X |-> x, Y |-> y, Z |-> z]
OneByOne == <<{"Z"}, {"X"}, {"Y"}>>
AsBuilt == <<{"Z"}, {"X", "Y"}>>
MCStarts == {At(-1, -3, -2), At(-2, -1, -5)}
OnSwitch == {At(-1, 0, -2)}
MCTargets == {At(-1, -3, -2), At(0, -2, -2), At(-4, -2, -2)}
=============================================================================
