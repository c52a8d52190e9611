------------------------------ MODULE MCStepper ------------------------------
(* Blocks of one and of two motors, of one to three step events.           *)
EXTENDS Stepper, TLC
CONSTANTS x, y

Block(i, j) == (x :> i @@ y :> j)
MCBlocks == {Block(1, 0), Block(2, 3)}
=============================================================================
