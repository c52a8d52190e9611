----------------------------- MODULE MCRealtime -----------------------------
(* Realtime with the sets of signals and lines that the runs use.          *)
EXTENDS Realtime

HoldSignals == {"FEED_HOLD", "CYCLE_START", "SPINDLE_STOP", "RESET"}
HoldLines == {"motion", "spindle", "pause", "dwell"}

AlarmSignals == {"SAFETY_DOOR", "CYCLE_START", "FEED_HOLD", "JOG_CANCEL", "LIMIT", "RESET"}
AlarmLines == {"motion", "unlock", "sleep", "check", "jog", "spindle"}
=============================================================================
