-------------------------- MODULE MCKHardwareTimer --------------------------
(* Three tasks on a clock of four ticks: ties, and times already past.      *)
EXTENDS KHardwareTimer, TLC

CONSTANTS a, b, c
=============================================================================
