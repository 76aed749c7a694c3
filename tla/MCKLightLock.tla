---------------------------- MODULE MCKLightLock ----------------------------
(* Three threads contend for a light lock; one of them may be terminated,   *)
(* one of them suspended for two reasons at once.                           *)
EXTENDS KLightLock

CONSTANTS a, b, c, Process, Thread

MCThreads == {a, b, c}
MCSuspensions == {<<a, Process>>, <<a, Thread>>, <<c, Process>>}
=============================================================================
