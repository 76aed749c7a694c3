------------------------------- MODULE Clock -------------------------------
(***************************************************************************)
(* The clock of CoreTiming (GetGlobalTimeNs), which is the kernel's too    *)
(* (KHardwareTimer::GetTick).                                              *)
(***************************************************************************)
EXTENDS Naturals

CONSTANT MaxTime  \* bound on the clock and on task times

VARIABLE now

\* Time passes.
ClockTicks ==
    /\ now < MaxTime
    /\ now' = now + 1
=============================================================================
