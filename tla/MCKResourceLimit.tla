-------------------------- MODULE MCKResourceLimit --------------------------
(* A model of KResourceLimit for TLC.                                      *)
EXTENDS KResourceLimit

CONSTANTS t1, t2, t3
=============================================================================
