---------------------------- MODULE MCCoreTiming ----------------------------
(* One event type, scheduled once or looping, and the two controllers.      *)
EXTENDS CoreTiming, TLC

CONSTANTS event_type
=============================================================================
