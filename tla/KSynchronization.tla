-------------------------- MODULE KSynchronization --------------------------
(***************************************************************************)
(* Waiting on kernel objects: KSynchronizationObject::Wait and             *)
(* NotifyAvailable, the readable event, the wait side of KThread           *)
(* (NotifyAvailable, WaitCancel, OnTimer, Sleep) and the life of a thread, *)
(* which is itself an object to wait on (Run, Exit, FinishTermination,     *)
(* Terminate, RequestTerminate).                                           *)
(*                                                                         *)
(* Every operation runs under the scheduler lock and is one action.  What  *)
(* a waiting thread does after it is woken, and the second half of         *)
(* Terminate, run after the lock was released and are actions of their     *)
(* own.  The hardware timer appears as the set of threads with a task in   *)
(* it, any of which may fire (KHardwareTimer models when).                 *)
(***************************************************************************)
EXTENDS Naturals, Sequences, FiniteSets

CONSTANTS
    Threads,        \* the guest threads
    Events,         \* the readable events
    WaitLists       \* the object sequences threads pass to Wait()

Objects == Threads \cup Events

ASSUME ConstantsAssumption ==
    /\ Threads \cap Events = {}
    /\ WaitLists \subseteq Seq(Objects)
    /\ \A t \in Threads : <<t>> \in WaitLists

VARIABLES
    m_is_signaled,              \* events, and KThread::m_signaled
    m_thread_list,              \* per object, its nodes: <<thread, index>>
    state,                      \* m_thread_state & Mask
    m_wait_queue,               \* which queue the thread waits in
    objects,                    \* the objects of its Wait(); <<t>> outside one
    m_hardware_timer_tasks,     \* the threads with a task in the timer
    m_cancellable,
    m_wait_cancelled,
    m_termination_requested,
    m_synced_index,
    m_wait_result,
    worker,                     \* threads in the exit worker's task list
    pc,                         \* where each thread is
    out                         \* result and index Wait() is returning to guest code

waitVars == <<m_thread_list, m_wait_queue, m_cancellable, m_synced_index, m_wait_result, state>>
vars == <<m_is_signaled, waitVars, objects, m_hardware_timer_tasks, m_wait_cancelled,
          m_termination_requested, worker, pc, out>>

Results == {"none", "Success", "TimedOut", "Cancelled", "TerminationRequested"}
Timeouts == {"zero", "positive", "infinite"}
Returned(result, index) == [result |-> result, index |-> index]

\* Sequence positions are 1-based here; 0 is the code's index -1.
TypeOK ==
    /\ m_is_signaled \in [Objects -> BOOLEAN]
    /\ m_thread_list \in [Objects -> SUBSET (Threads \X Nat)]
    /\ state \in [Threads -> {"Initialized", "Runnable", "Waiting", "Terminated"}]
    /\ m_wait_queue \in [Threads -> {"none", "synchronization", "sleep"}]
    /\ objects \in [Threads -> WaitLists]
    /\ m_hardware_timer_tasks \in SUBSET Threads
    /\ m_cancellable \in [Threads -> BOOLEAN]
    /\ m_wait_cancelled \in [Threads -> BOOLEAN]
    /\ m_termination_requested \in [Threads -> BOOLEAN]
    /\ m_synced_index \in [Threads -> Nat]
    /\ m_wait_result \in [Threads -> Results]
    /\ worker \in SUBSET Threads
    /\ pc \in [Threads -> {"enter", "user", "join", "wait", "sleep", "gone"}]
    /\ out \in [Threads -> [result : Results, index : Nat]]

Init ==
    /\ m_is_signaled = [o \in Objects |-> FALSE]
    /\ m_thread_list = [o \in Objects |-> {}]
    /\ state \in [Threads -> {"Initialized", "Runnable"}]
    /\ m_wait_queue = [t \in Threads |-> "none"]
    /\ objects = [t \in Threads |-> <<t>>]
    /\ m_hardware_timer_tasks = {}
    /\ m_cancellable = [t \in Threads |-> FALSE]
    /\ m_wait_cancelled = [t \in Threads |-> FALSE]
    /\ m_termination_requested = [t \in Threads |-> FALSE]
    /\ m_synced_index = [t \in Threads |-> 0]
    /\ m_wait_result = [t \in Threads |-> "none"]
    /\ worker = {}
    /\ pc = [t \in Threads |-> "enter"]
    /\ out = [t \in Threads |-> Returned("none", 0)]

\* IsTerminationRequested()
IsTerminationRequested(t) == m_termination_requested[t] \/ state[t] = "Terminated"

-----------------------------------------------------------------------------
(* Ending waits.  woken is a set of waiting threads; ends says, for each,   *)
(* with which result and index.                                             *)

\* Mutant: only the first node of a thread is unlinked.
UnlinkFirst(woken) ==
    [o \in Objects |-> {n \in m_thread_list[o] : ~(n[1] \in woken /\ n[2] = 1)}]

\* UnlinkNode for every node of every woken thread
Unlink(woken) ==
    [o \in Objects |-> {n \in m_thread_list[o] :
        ~(n[1] \in woken /\ m_wait_queue[n[1]] = "synchronization" /\ objects[n[1]][n[2]] = o)}]

\* NotifyAvailable's EndWait and CancelWait of the two wait queues: unlink the
\* nodes, clear m_cancellable, set the result, make the thread runnable, clear
\* m_wait_queue.  Only NotifyAvailable sets the synced index.
EndWaits(woken, result, index) ==
    /\ m_thread_list' = Unlink(woken)
    /\ m_cancellable' = [t \in Threads |-> m_cancellable[t] /\ t \notin woken]
    /\ m_wait_result' = [t \in Threads |-> IF t \in woken THEN result ELSE m_wait_result[t]]
    /\ m_synced_index' = [t \in Threads |-> IF t \in woken THEN index[t] ELSE m_synced_index[t]]
    /\ state' = [t \in Threads |-> IF t \in woken THEN "Runnable" ELSE state[t]]
    /\ m_wait_queue' = [t \in Threads |-> IF t \in woken THEN "none" ELSE m_wait_queue[t]]

CancelWait(t, result) == EndWaits({t} \cap {u \in Threads : state[u] = "Waiting"}, result,
                                  m_synced_index)

\* Mutant: the last position instead.
LastIndex(o, s) == CHOOSE i \in DOMAIN s : s[i] = o /\ \A j \in DOMAIN s : s[j] = o => j <= i

\* The first position of o in a sequence of objects
FirstIndex(o, s) == CHOOSE i \in DOMAIN s : s[i] = o /\ \A j \in DOMAIN s : s[j] = o => i <= j

\* Mutant: only one of the waiting threads is notified.
NotifyOne(o) ==
    LET waiting == {t \in Threads : \E n \in m_thread_list[o] : n[1] = t}
        woken == {t \in waiting : t = CHOOSE u \in waiting : TRUE}
    IN  /\ EndWaits(woken, "Success", [t \in woken |-> FirstIndex(o, objects[t])])
        /\ m_hardware_timer_tasks' = m_hardware_timer_tasks \ woken

\* KSynchronizationObject::NotifyAvailable: every waiting thread with a node
\* in the list.  A thread is only notified through its first node: by the
\* second one it no longer waits.
NotifyAvailable(o) ==
    LET woken == {t \in Threads : state[t] = "Waiting" /\ \E n \in m_thread_list[o] : n[1] = t}
    IN  /\ EndWaits(woken, "Success", [t \in woken |-> FirstIndex(o, objects[t])])
        /\ m_hardware_timer_tasks' = m_hardware_timer_tasks \ woken

-----------------------------------------------------------------------------
(* KReadableEvent                                                          *)

Signal(e) ==
    /\ ~m_is_signaled[e]
    /\ m_is_signaled' = [m_is_signaled EXCEPT ![e] = TRUE]
    /\ NotifyAvailable(e)
    /\ UNCHANGED <<objects, m_wait_cancelled, m_termination_requested, worker, pc, out>>

Reset(e) ==
    /\ m_is_signaled[e]
    /\ m_is_signaled' = [m_is_signaled EXCEPT ![e] = FALSE]
    /\ UNCHANGED <<waitVars, objects, m_hardware_timer_tasks, m_wait_cancelled,
                   m_termination_requested, worker, pc, out>>

-----------------------------------------------------------------------------
(* KSynchronizationObject::Wait                                            *)

\* What out_index still holds when Wait() returns without writing it: the 0 of
\* the supervisor call's wrapper, the first position.
Unwritten == 1

\* An early return: CancelSleep, so no task is registered.  Only a signaled
\* object's index is written.
ReturnEarly(t, result, index) ==
    /\ out' = [out EXCEPT ![t] = Returned(result, index)]
    /\ pc' = [pc EXCEPT ![t] = "enter"]
    /\ objects' = [objects EXCEPT ![t] = <<t>>]
    /\ UNCHANGED <<m_is_signaled, waitVars, m_hardware_timer_tasks, m_termination_requested,
                   worker>>

SignaledIndices(objs) == {i \in DOMAIN objs : m_is_signaled[objs[i]]}

\* Link a node per object and wait; the destructor of
\* KScopedSchedulerLockAndSleep registers the timer task.
BeginWait(t, objs, timeout) ==
    /\ m_thread_list' = [o \in Objects |-> m_thread_list[o]
                            \cup {<<t, i>> : i \in {j \in DOMAIN objs : objs[j] = o}}]
    /\ m_cancellable' = [m_cancellable EXCEPT ![t] = TRUE]
    /\ m_synced_index' = [m_synced_index EXCEPT ![t] = 0]
    /\ m_wait_queue' = [m_wait_queue EXCEPT ![t] = "synchronization"]
    /\ objects' = [objects EXCEPT ![t] = objs]
    /\ state' = [state EXCEPT ![t] = "Waiting"]
    /\ m_hardware_timer_tasks' =
        IF timeout = "positive" THEN m_hardware_timer_tasks \cup {t} ELSE m_hardware_timer_tasks
    /\ pc' = [pc EXCEPT ![t] = "wait"]
    /\ UNCHANGED <<m_is_signaled, m_wait_result, m_wait_cancelled, m_termination_requested,
                   worker, out>>

\* Mutant: Wait() does not look for a termination request.
WaitUnlessSignaled(t, objs, timeout) ==
    \/ \E i \in SignaledIndices(objs) :
            /\ \A j \in SignaledIndices(objs) : i <= j
            /\ ReturnEarly(t, "Success", i)
            /\ UNCHANGED m_wait_cancelled
    \/ SignaledIndices(objs) = {} /\ timeout # "zero" /\ BeginWait(t, objs, timeout)

\* The checks, in the order of the code.
WaitImpl(t, objs, timeout) ==
    \/ /\ IsTerminationRequested(t)
       /\ ReturnEarly(t, "TerminationRequested", Unwritten)
       /\ UNCHANGED m_wait_cancelled
    \/ /\ ~IsTerminationRequested(t)
       /\ \E i \in SignaledIndices(objs) :
            /\ \A j \in SignaledIndices(objs) : i <= j
            /\ ReturnEarly(t, "Success", i)
       /\ UNCHANGED m_wait_cancelled
    \/ /\ ~IsTerminationRequested(t) /\ SignaledIndices(objs) = {}
       /\ timeout = "zero"
       /\ ReturnEarly(t, "TimedOut", Unwritten)
       /\ UNCHANGED m_wait_cancelled
    \/ /\ ~IsTerminationRequested(t) /\ SignaledIndices(objs) = {} /\ timeout # "zero"
       /\ m_wait_cancelled[t]
       /\ ReturnEarly(t, "Cancelled", Unwritten)
       /\ m_wait_cancelled' = [m_wait_cancelled EXCEPT ![t] = FALSE]
    \/ /\ ~IsTerminationRequested(t) /\ SignaledIndices(objs) = {} /\ timeout # "zero"
       /\ ~m_wait_cancelled[t]
       /\ BeginWait(t, objs, timeout)

Wait(t) ==
    /\ pc[t] = "user" /\ state[t] = "Runnable"
    /\ \E objs \in WaitLists, timeout \in Timeouts : WaitImpl(t, objs, timeout)

\* A woken thread reads its index and its result outside the lock.
WaitReturns(t) ==
    /\ pc[t] = "wait" /\ state[t] = "Runnable"
    /\ pc' = [pc EXCEPT ![t] = "enter"]
    /\ out' = [out EXCEPT ![t] = Returned(m_wait_result[t], m_synced_index[t])]
    /\ objects' = [objects EXCEPT ![t] = <<t>>]
    /\ UNCHANGED <<m_is_signaled, waitVars, m_hardware_timer_tasks, m_wait_cancelled,
                   m_termination_requested, worker>>

\* Mutant: Sleep() does not look for a termination request.
SleepUnchecked(t) ==
    /\ pc[t] = "user" /\ state[t] = "Runnable"
    /\ state' = [state EXCEPT ![t] = "Waiting"]
    /\ m_wait_queue' = [m_wait_queue EXCEPT ![t] = "sleep"]
    /\ m_hardware_timer_tasks' = m_hardware_timer_tasks \cup {t}
    /\ pc' = [pc EXCEPT ![t] = "sleep"]
    /\ UNCHANGED <<m_is_signaled, m_thread_list, objects, m_cancellable, m_synced_index,
                   m_wait_result, m_wait_cancelled, m_termination_requested, worker, out>>

\* KThread::Sleep: a wait that nothing but the timer and termination ends.
Sleep(t) ==
    /\ pc[t] = "user" /\ state[t] = "Runnable"
    /\ ~IsTerminationRequested(t)
    /\ state' = [state EXCEPT ![t] = "Waiting"]
    /\ m_wait_queue' = [m_wait_queue EXCEPT ![t] = "sleep"]
    /\ m_hardware_timer_tasks' = m_hardware_timer_tasks \cup {t}
    /\ pc' = [pc EXCEPT ![t] = "sleep"]
    /\ UNCHANGED <<m_is_signaled, m_thread_list, objects, m_cancellable, m_synced_index,
                   m_wait_result, m_wait_cancelled, m_termination_requested, worker, out>>

SleepReturns(t) ==
    /\ pc[t] = "sleep" /\ state[t] = "Runnable"
    /\ pc' = [pc EXCEPT ![t] = "enter"]
    /\ UNCHANGED <<m_is_signaled, waitVars, objects, m_hardware_timer_tasks, m_wait_cancelled,
                   m_termination_requested, worker, out>>

-----------------------------------------------------------------------------
(* What ends a wait from outside                                           *)

\* KThread::WaitCancel
WaitCancel(t) ==
    /\ IF state[t] = "Waiting" /\ m_cancellable[t]
       THEN /\ m_wait_cancelled' = [m_wait_cancelled EXCEPT ![t] = FALSE]
            /\ CancelWait(t, "Cancelled")
            /\ m_hardware_timer_tasks' = m_hardware_timer_tasks \ {t}
       ELSE /\ m_wait_cancelled' = [m_wait_cancelled EXCEPT ![t] = TRUE]
            /\ UNCHANGED <<waitVars, m_hardware_timer_tasks>>
    /\ UNCHANGED <<m_is_signaled, objects, m_termination_requested, worker, pc, out>>

\* The timer removes the task and calls KThread::OnTimer.
OnTimer(t) ==
    /\ t \in m_hardware_timer_tasks
    /\ m_hardware_timer_tasks' = m_hardware_timer_tasks \ {t}
    /\ CancelWait(t, "TimedOut")
    /\ UNCHANGED <<m_is_signaled, objects, m_wait_cancelled, m_termination_requested, worker, pc,
                   out>>

-----------------------------------------------------------------------------
(* The life of a thread                                                    *)

Run(t) ==
    /\ ~IsTerminationRequested(t)
    /\ state[t] = "Initialized"
    /\ state' = [state EXCEPT ![t] = "Runnable"]
    /\ UNCHANGED <<m_is_signaled, m_thread_list, m_wait_queue, m_cancellable, m_synced_index,
                   m_wait_result, objects, m_hardware_timer_tasks, m_wait_cancelled,
                   m_termination_requested, worker, pc, out>>

\* KThread::Exit: the thread is handed to the exit worker.
Exit(t) ==
    /\ state' = [state EXCEPT ![t] = "Terminated"]
    /\ worker' = worker \cup {t}
    /\ pc' = [pc EXCEPT ![t] = "gone"]
    /\ UNCHANGED <<m_is_signaled, m_thread_list, m_wait_queue, m_cancellable, m_synced_index,
                   m_wait_result, objects, m_hardware_timer_tasks, m_wait_cancelled,
                   m_termination_requested, out>>

\* svcExitThread
ExitThread(t) ==
    /\ pc[t] = "user" /\ state[t] = "Runnable"
    /\ Exit(t)

\* PhysicalCore::RunThread: before it enters guest code a thread looks for its
\* terminating DPC, and it comes back here after every call and interrupt.
RunThread(t) ==
    /\ pc[t] = "enter" /\ state[t] = "Runnable"
    /\ \/ /\ IsTerminationRequested(t)
          /\ Exit(t)
       \/ /\ ~IsTerminationRequested(t)
          /\ pc' = [pc EXCEPT ![t] = "user"]
          /\ out' = [out EXCEPT ![t] = Returned("none", 0)]
          /\ UNCHANGED <<m_is_signaled, waitVars, objects, m_hardware_timer_tasks,
                         m_wait_cancelled, m_termination_requested, worker>>

\* An interrupt takes a thread out of guest code; RequestTerminate sends one.
Interrupt(t) ==
    /\ pc[t] = "user" /\ state[t] = "Runnable"
    /\ pc' = [pc EXCEPT ![t] = "enter"]
    /\ UNCHANGED <<m_is_signaled, waitVars, objects, m_hardware_timer_tasks, m_wait_cancelled,
                   m_termination_requested, worker, out>>

\* The exit worker, once the thread has left every core
FinishTermination(t) ==
    /\ t \in worker
    /\ worker' = worker \ {t}
    /\ m_is_signaled' = [m_is_signaled EXCEPT ![t] = TRUE]
    /\ NotifyAvailable(t)
    /\ UNCHANGED <<objects, m_wait_cancelled, m_termination_requested, pc, out>>

\* Mutant: a waiting thread is not woken.
RequestTerminateQuietly(t) ==
    /\ m_termination_requested' = [m_termination_requested EXCEPT ![t] = TRUE]
    /\ state' = [state EXCEPT ![t] = IF @ = "Initialized" THEN "Terminated" ELSE @]
    /\ UNCHANGED <<m_thread_list, m_wait_queue, m_cancellable, m_synced_index, m_wait_result,
                   m_hardware_timer_tasks>>

\* RequestTerminate: a thread that was never run terminates at once, a waiting
\* one is woken, a running one finds its terminating DPC.
RequestTerminate(t) ==
    /\ m_termination_requested' = [m_termination_requested EXCEPT ![t] = TRUE]
    /\ \/ /\ m_termination_requested[t]
          /\ UNCHANGED <<waitVars, m_hardware_timer_tasks>>
       \/ /\ ~m_termination_requested[t] /\ state[t] = "Initialized"
          /\ state' = [state EXCEPT ![t] = "Terminated"]
          /\ UNCHANGED <<m_thread_list, m_wait_queue, m_cancellable, m_synced_index,
                         m_wait_result, m_hardware_timer_tasks>>
       \/ /\ ~m_termination_requested[t] /\ state[t] # "Initialized"
          /\ CancelWait(t, "TerminationRequested")
          /\ m_hardware_timer_tasks' = m_hardware_timer_tasks \ {t}

\* KThread::Terminate: request it, and unless the thread has terminated wait
\* for it in a second critical section.
Terminate(t, target) ==
    /\ t # target
    /\ pc[t] = "user" /\ state[t] = "Runnable"
    /\ RequestTerminate(target)
    /\ IF state'[target] = "Terminated"
       THEN /\ pc' = [pc EXCEPT ![t] = "enter"]
            /\ UNCHANGED objects
       ELSE /\ pc' = [pc EXCEPT ![t] = "join"]
            /\ objects' = [objects EXCEPT ![t] = <<target>>]
    /\ UNCHANGED <<m_is_signaled, m_wait_cancelled, worker, out>>

Join(t) ==
    /\ pc[t] = "join" /\ state[t] = "Runnable"
    /\ WaitImpl(t, objects[t], "infinite")

-----------------------------------------------------------------------------
Next ==
    \/ \E e \in Events : Signal(e) \/ Reset(e)
    \/ \E t \in Threads :
        \/ Wait(t) \/ WaitReturns(t) \/ Sleep(t) \/ SleepReturns(t)
        \/ WaitCancel(t) \/ OnTimer(t)
        \/ Run(t) \/ RunThread(t) \/ Interrupt(t) \/ ExitThread(t) \/ FinishTermination(t)
        \/ \E target \in Threads : Terminate(t, target)
        \/ Join(t)

Spec == Init /\ [][Next]_vars

\* Runnable threads are scheduled, the timer fires, the exit worker works and
\* the interrupt that RequestTerminate sends arrives.  Nobody has to signal,
\* cancel, terminate or exit.
Fairness ==
    \A t \in Threads :
        /\ WF_vars(WaitReturns(t) \/ SleepReturns(t) \/ RunThread(t) \/ Join(t))
        /\ WF_vars(m_termination_requested[t] /\ Interrupt(t))
        /\ WF_vars(OnTimer(t))
        /\ WF_vars(FinishTermination(t))

FairSpec == Spec /\ Fairness

-----------------------------------------------------------------------------
(* Properties                                                              *)

WaitsOnObjects(t) == state[t] = "Waiting" /\ m_wait_queue[t] = "synchronization"

\* No thread sleeps on an object that is signaled: the check in Wait() and the
\* linking of the nodes cannot be split by a signal, and a signal wakes
\* everybody, also a thread that named the object twice.
NoLostWakeup ==
    \A t \in Threads : WaitsOnObjects(t) => SignaledIndices(objects[t]) = {}

\* An object's list holds exactly the nodes of the threads that wait on it
\* now.  The nodes live on those threads' stacks: one left behind by a wake,
\* a cancellation, a timeout or a termination is a dangling pointer.
NodesOnLiveStacks ==
    \A o \in Objects :
        /\ \A n \in m_thread_list[o] : /\ WaitsOnObjects(n[1])
                                       /\ n[2] \in DOMAIN objects[n[1]]
                                       /\ objects[n[1]][n[2]] = o
        /\ \A t \in Threads : WaitsOnObjects(t) =>
                \A i \in DOMAIN objects[t] : objects[t][i] = o => <<t, i>> \in m_thread_list[o]

\* A timer task belongs to the wait the thread is in: none survives a wake to
\* time out a later wait.
NoStaleTimer ==
    \A t \in m_hardware_timer_tasks : state[t] = "Waiting"

\* A cancellation is not lost and not counted twice: a thread in a cancellable
\* wait has no cancellation pending.
CancelNotPending ==
    \A t \in Threads : m_wait_cancelled[t] => ~m_cancellable[t]

\* A wait that ended, however it ended, leaves no node, no timer task and no
\* unused cancellation behind for a later wait of the thread to meet.
WaitLeavesNothing == NodesOnLiveStacks /\ NoStaleTimer /\ CancelNotPending

\* A thread asked to terminate is not, and does not become, blocked: every
\* path into a wait looks at the request under the lock that makes it.
TerminationUnblocks ==
    \A t \in Threads : m_termination_requested[t] => state[t] # "Waiting"

\* The index a thread gets is that of the first of its objects that was
\* signaled, in the step that woke it.
WakeNamesSignaledObject ==
    [][\A t \in Threads :
        WaitsOnObjects(t) /\ state'[t] = "Runnable" /\ m_wait_result'[t] = "Success" =>
            /\ m_synced_index'[t] \in DOMAIN objects[t]
            /\ m_is_signaled'[objects[t][m_synced_index'[t]]]
            /\ \A j \in DOMAIN objects[t] : j < m_synced_index'[t] => ~m_is_signaled'[objects[t][j]]
      ]_vars

\* Success comes with the position of an object; a failure with none, or with
\* the value the caller put there if the wait failed before it began.
IndexFits(returned) ==
    IF returned.result = "Success" THEN returned.index > 0
                                   ELSE returned.index \in {0, Unwritten}

\* No index of an earlier wait shows through a timeout, a cancellation or a
\* termination, and no success is reported without one.
IndexFitsResult == \A t \in Threads : IndexFits(out[t])

\* What Wait() returns tells how the wait ended: the object named was signaled
\* when the thread was woken, and a wait that failed names no object but the
\* one its caller's variable happened to name.
WaitOutcome == WakeNamesSignaledObject /\ []IndexFitsResult

\* A started thread asked to terminate comes to its end and signals it,
\* wherever in a wait, a sleep or another Terminate() the request finds it.
TerminationCompletes ==
    \A t \in Threads :
        (m_termination_requested[t] /\ state[t] \in {"Runnable", "Waiting"}) ~> m_is_signaled[t]

\* Terminate() returns, also when two threads terminate each other.
TerminateReturns ==
    \A t \in Threads : (pc[t] = "join") ~> (pc[t] \in {"enter", "gone"})
=============================================================================
