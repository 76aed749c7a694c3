---------------------------- MODULE MCKScheduler ----------------------------
(* A model of KScheduler for TLC.                                          *)
EXTENDS KScheduler, TLC

CONSTANTS a, b, d

MCPreemptionPriority == [c \in Cores |-> IF c = 0 THEN 3 ELSE 63]

MCInitialPriority == [t \in Threads |-> 3]

MCOwnerProcess == [t \in Threads |-> IF t = d THEN 2 ELSE 1]
=============================================================================
