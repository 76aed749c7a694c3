--------------------------- MODULE KHardwareTimer ---------------------------
(***************************************************************************)
(* The kernel's timer (k_hardware_timer.cpp, k_hardware_timer_base.h): a   *)
(* tree of tasks ordered by time, of which the earliest is turned into one *)
(* event in CoreTiming's queue.                                            *)
(*                                                                         *)
(* Register and Cancel run under the timer's spin lock, DoTask under the   *)
(* scheduler lock and the spin lock; each is one action.  CoreTiming pops  *)
(* the event first and calls DoTask afterwards, holding neither: between   *)
(* the two (popped) threads may register and cancel.  CoreTiming's other   *)
(* events and its loop are in CoreTiming.                                  *)
(***************************************************************************)
EXTENDS Clock, Sequences, FiniteSets, SequencesExt, FiniteSetsExt

CONSTANTS
    Tasks,          \* the timer tasks: the threads
    NoTask          \* the null KTimerTask pointer

ASSUME ConstantsAssumption ==
    /\ MaxTime \in Nat
    /\ NoTask \notin Tasks

VARIABLES
    m_time,         \* per task, its time; 0 when it is not in the tree
    m_task_tree,    \* the tasks in tree order
    m_next_task,
    m_wakeup_time,
    timer_events,   \* times of the timer's events in CoreTiming's queue
    popped          \* CoreTiming has popped an event and not yet called DoTask

vars == <<now, m_time, m_task_tree, m_next_task, m_wakeup_time, timer_events, popped>>

\* std::numeric_limits<s64>::max()
Never == MaxTime + 1

TypeOK ==
    /\ now \in 0..MaxTime
    /\ m_time \in [Tasks -> 0..MaxTime]
    /\ m_task_tree \in Seq(Tasks) /\ IsInjective(m_task_tree)
    /\ m_next_task \in Tasks \cup {NoTask}
    /\ m_wakeup_time \in 1..Never
    /\ timer_events \in SUBSET (1..MaxTime)
    /\ popped \in BOOLEAN

Init ==
    /\ now = 0
    /\ m_time = [t \in Tasks |-> 0]
    /\ m_task_tree = <<>>
    /\ m_next_task = NoTask
    /\ m_wakeup_time = Never
    /\ timer_events = {}
    /\ popped = FALSE

Tick ==
    /\ ClockTicks
    /\ UNCHANGED <<m_time, m_task_tree, m_next_task, m_wakeup_time, timer_events, popped>>

\* Unschedule whatever is queued, then schedule time.
EnableInterrupt(time) ==
    /\ m_wakeup_time' = time
    /\ timer_events' = {time}

-----------------------------------------------------------------------------
(* Registering and cancelling                                              *)

\* m_task_tree.insert: in front of the first task that is later.
Insert(t, time) ==
    LET later == {i \in DOMAIN m_task_tree : m_time[m_task_tree[i]] > time}
    IN  InsertAt(m_task_tree, Min(later \cup {Len(m_task_tree) + 1}), t)

\* The result of RegisterAbsoluteTaskImpl: is this the next task?
RegisterAbsoluteTaskImpl(t, time) ==
    m_next_task = NoTask \/ time < m_time[m_next_task]

\* Mutant: the interrupt is moved only if it is off.
RegisterAbsoluteTaskIfDisabled(t, time) ==
    /\ m_time[t] = 0
    /\ m_time' = [m_time EXCEPT ![t] = time]
    /\ m_task_tree' = Insert(t, time)
    /\ IF RegisterAbsoluteTaskImpl(t, time)
       THEN /\ m_next_task' = t
            /\ IF m_wakeup_time = Never
               THEN EnableInterrupt(time)
               ELSE UNCHANGED <<m_wakeup_time, timer_events>>
       ELSE UNCHANGED <<m_next_task, m_wakeup_time, timer_events>>
    /\ UNCHANGED <<now, popped>>

\* A thread registers its task when it begins to wait, and then has none
\* (NoStaleTimer of KSynchronization).
RegisterAbsoluteTask(t, time) ==
    /\ m_time[t] = 0
    /\ m_time' = [m_time EXCEPT ![t] = time]
    /\ m_task_tree' = Insert(t, time)
    /\ IF RegisterAbsoluteTaskImpl(t, time)
       THEN /\ m_next_task' = t
            /\ IF time <= m_wakeup_time
               THEN EnableInterrupt(time)
               ELSE UNCHANGED <<m_wakeup_time, timer_events>>
       ELSE UNCHANGED <<m_next_task, m_wakeup_time, timer_events>>
    /\ UNCHANGED <<now, popped>>

\* m_task_tree.iterator_to
Position(t) == CHOOSE i \in DOMAIN m_task_tree : m_task_tree[i] = t

\* The task behind t in the tree
Successor(t) ==
    IF Position(t) < Len(m_task_tree) THEN m_task_tree[Position(t) + 1] ELSE NoTask

\* CancelTask and RemoveTaskFromTree; the interrupt stays as it is.
CancelTask(t) ==
    /\ m_time[t] > 0
    /\ m_next_task' = IF m_next_task = t THEN Successor(t) ELSE m_next_task
    /\ m_task_tree' = RemoveAt(m_task_tree, Position(t))
    /\ m_time' = [m_time EXCEPT ![t] = 0]
    /\ UNCHANGED <<now, m_wakeup_time, timer_events, popped>>

-----------------------------------------------------------------------------
(* The interrupt                                                           *)

\* CoreTiming::Advance pops the event that is due and lets go of its lock.
PopEvent ==
    /\ ~popped
    /\ \E time \in timer_events :
        /\ time <= now
        /\ timer_events' = timer_events \ {time}
    /\ popped' = TRUE
    /\ UNCHANGED <<now, m_time, m_task_tree, m_next_task, m_wakeup_time>>

\* Where the loop over the due tasks starts: at m_next_task
FirstDue ==
    IF m_next_task = NoTask
    THEN Len(m_task_tree) + 1
    ELSE Position(m_next_task)

\* Mutant: a task due in the next tick counts as due.
FirstFutureEarly ==
    LET future == {i \in FirstDue..Len(m_task_tree) : m_time[m_task_tree[i]] > now + 1}
    IN  Min(future \cup {Len(m_task_tree) + 1})

\* Where it ends: at the first task from there on that lies in the future
FirstFuture ==
    LET future == {i \in FirstDue..Len(m_task_tree) : m_time[m_task_tree[i]] > now}
    IN  Min(future \cup {Len(m_task_tree) + 1})

\* DoInterruptTaskImpl: remove and run the tasks between the two.
DoInterruptTaskImpl(due, future) ==
    /\ m_task_tree' = SubSeq(m_task_tree, 1, due - 1)
                        \o SubSeq(m_task_tree, future, Len(m_task_tree))
    /\ m_time' = [t \in Tasks |->
        IF t \in ToSet(SubSeq(m_task_tree, due, future - 1)) THEN 0 ELSE m_time[t]]
    /\ m_next_task' = IF future <= Len(m_task_tree) THEN m_task_tree[future] ELSE NoTask

\* An interrupt that was disabled meanwhile is ignored.
DoTask ==
    /\ popped
    /\ popped' = FALSE
    /\ IF m_wakeup_time = Never
       THEN UNCHANGED <<m_time, m_task_tree, m_next_task, m_wakeup_time, timer_events>>
       ELSE /\ DoInterruptTaskImpl(FirstDue, FirstFuture)
            /\ IF m_next_task' # NoTask
               THEN EnableInterrupt(m_time[m_next_task'])
               ELSE m_wakeup_time' = Never /\ UNCHANGED timer_events
    /\ UNCHANGED now

-----------------------------------------------------------------------------
Next ==
    \/ Tick
    \/ \E t \in Tasks : CancelTask(t) \/ \E time \in 1..MaxTime : RegisterAbsoluteTask(t, time)
    \/ PopEvent
    \/ DoTask

Spec == Init /\ [][Next]_vars

\* CoreTiming's thread runs what is due (DueEventsRun of CoreTiming), and the
\* callback gets the scheduler lock.
FairSpec == Spec /\ WF_vars(PopEvent) /\ WF_vars(DoTask)

-----------------------------------------------------------------------------
(* Properties                                                              *)

\* m_next_task, which register and cancel maintain by hand, is the first task
\* of the tree, and the tree is in time order and holds the registered tasks.
NextIsEarliest ==
    /\ ToSet(m_task_tree) = {t \in Tasks : m_time[t] > 0}
    /\ \A i, j \in DOMAIN m_task_tree : i < j => m_time[m_task_tree[i]] <= m_time[m_task_tree[j]]
    /\ m_next_task = IF m_task_tree = <<>> THEN NoTask ELSE Head(m_task_tree)

\* As long as there are tasks, an interrupt for the earliest of them or for an
\* earlier time is on its way: in CoreTiming's queue, or popped and about to
\* run.  Cancelling does not move the interrupt, and registering moves it only
\* forward.
InterruptCoversNextTask ==
    /\ NextIsEarliest
    /\ m_next_task # NoTask =>
        /\ m_wakeup_time <= m_time[m_next_task]
        /\ popped \/ m_wakeup_time \in timer_events

\* The refinement mapping forgets the tree, the cached next task and the
\* event in CoreTiming: what counts is which tasks are registered, and when.
Abstract == INSTANCE TimerTasks
                WITH Tasks <- Tasks, MaxTime <- MaxTime, now <- now, m_time <- m_time

\* The timer keeps the promise of TimerTasks: no task is run early, lost or
\* run apart from others that are due, and each one that is due is run.
ImplementsTimerTasks == Abstract!Spec
=============================================================================
