------------------------ MODULE MCKConditionVariable ------------------------
(* Three threads and two mutexes, so that priorities travel along a chain.  *)
EXTENDS KConditionVariable, TLC

CONSTANTS a, b, c

MCThreads == {a, b, c}
MCCreatedWith == (a :> 1) @@ (b :> 3) @@ (c :> 3)
MCEqual == [t \in MCThreads |-> 1]
=============================================================================
