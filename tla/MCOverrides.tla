---------------------------- MODULE MCOverrides ----------------------------
(* Overrides at the lower end of the range and in the middle of it.          *)
EXTENDS Overrides

MCStarts == {<<100, 195>>, <<10, 15>>}
Lowered == {<<10, 100>>}
=============================================================================
