----------------------------- MODULE TimerTasks -----------------------------
(***************************************************************************)
(* What the kernel's timer promises to the waits that use it: a registered *)
(* task stays registered until it is cancelled or its time has come, all   *)
(* the tasks that are due are run together, and a due task is run.         *)
(***************************************************************************)
EXTENDS Naturals

CONSTANTS
    Tasks,          \* the timer tasks: the threads
    MaxTime         \* bound on the clock and on task times

VARIABLES
    now,            \* GetTick()
    m_time          \* per task, its time; 0 when it is not registered

vars == <<now, m_time>>

Init == now = 0 /\ m_time = [t \in Tasks |-> 0]

Tick ==
    /\ now < MaxTime
    /\ now' = now + 1
    /\ UNCHANGED m_time

Register(t, time) ==
    /\ m_time[t] = 0
    /\ m_time' = [m_time EXCEPT ![t] = time]
    /\ UNCHANGED now

Cancel(t) ==
    /\ m_time' = [m_time EXCEPT ![t] = 0]
    /\ UNCHANGED now

\* Every task whose time has come, and no other.
RunDueTasks ==
    /\ \E t \in Tasks : m_time[t] \in 1..now
    /\ m_time' = [t \in Tasks |-> IF m_time[t] <= now THEN 0 ELSE m_time[t]]
    /\ UNCHANGED now

Next ==
    \/ Tick
    \/ \E t \in Tasks : Cancel(t) \/ \E time \in 1..MaxTime : Register(t, time)
    \/ RunDueTasks

SafeSpec == Init /\ [][Next]_vars

Spec == SafeSpec /\ WF_vars(RunDueTasks)
=============================================================================
