---------------------------- MODULE MCStreamer ----------------------------
(* A drawing with a blank line, a line the firmware refuses, and the pen down. *)
EXTENDS Streamer

MCDrawing == << [len |-> 2, pen |-> "on", bad |-> FALSE],
                [len |-> 0, pen |-> "same", bad |-> FALSE],
                [len |-> 3, pen |-> "same", bad |-> TRUE],
                [len |-> 1, pen |-> "same", bad |-> FALSE] >>
=============================================================================
