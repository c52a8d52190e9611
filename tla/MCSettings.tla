----------------------------- MODULE MCSettings -----------------------------
(* Settings with bytes of two bits and records of two bytes, laid out as in  *)
(* settings.h: behind the last startup line lies the build info, and behind  *)
(* that the end of the EEPROM.                                               *)
EXTENDS Settings

MCDefaults == [homing |-> FALSE, soft |-> FALSE, value |-> 1]
New == [a \in 0..Size - 1 |-> Erased]
MCImages == {New}
MCCoords == {<<1, 2>>, <<3, 0>>}
MCLines == {<<2, 1>>}
=============================================================================
