------------------------- MODULE MCKSynchronization -------------------------
(* Two threads and an event; one wait list names an object twice.           *)
EXTENDS KSynchronization

CONSTANTS a, b, e

MCWaitLists == {<<a>>, <<b>>, <<a, e, a>>}
=============================================================================
