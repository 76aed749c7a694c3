----------------------- MODULE KSynchronizationProofs -----------------------
(***************************************************************************)
(* For any number of threads, events and wait lists: no wakeup is lost, no *)
(* node outlives its wait, no timer task outlives its wait, a thread asked *)
(* to terminate is not blocked, and what a wait reports is how it ended.   *)
(*                                                                         *)
(* NoLostWakeup needs NodesOnLiveStacks: a signal reaches exactly the      *)
(* threads in the object's list, so the list must hold them all.  Both     *)
(* need to know that a thread has a wait queue exactly while it waits.     *)
(* WaitOutcome needs OutcomeInv: the result of a wait is written once, by  *)
(* whoever ends it, and until then the thread has no index to report.      *)
(***************************************************************************)
EXTENDS KSynchronization, WellFoundedInduction, TLAPS

\* The part of the type invariant the argument uses
SyncType ==
    /\ m_is_signaled \in [Objects -> BOOLEAN]
    /\ m_thread_list \in [Objects -> SUBSET (Threads \X Nat)]
    /\ state \in [Threads -> {"Initialized", "Runnable", "Waiting", "Terminated"}]
    /\ m_wait_queue \in [Threads -> {"none", "synchronization", "sleep"}]
    /\ objects \in [Threads -> WaitLists]
    /\ m_hardware_timer_tasks \in SUBSET Threads
    /\ m_cancellable \in [Threads -> BOOLEAN]
    /\ m_wait_cancelled \in [Threads -> BOOLEAN]
    /\ m_termination_requested \in [Threads -> BOOLEAN]
    /\ worker \in SUBSET Threads

\* A thread is in a queue exactly while it waits, and it can be cancelled
\* exactly while it waits on objects.
QueueInv ==
    \A t \in Threads : /\ state[t] = "Waiting" <=> m_wait_queue[t] # "none"
                       /\ m_cancellable[t] <=> WaitsOnObjects(t)

SyncInv ==
    /\ SyncType /\ QueueInv /\ NodesOnLiveStacks /\ NoLostWakeup
    /\ NoStaleTimer /\ CancelNotPending /\ TerminationUnblocks

LEMMA WaitListFacts ==
    \A s \in WaitLists : DOMAIN s \subseteq Nat /\ \A i \in DOMAIN s : s[i] \in Objects
BY ConstantsAssumption

\* A step may change the wait list only of a thread that does not wait.
ObjectsOfWaitersKept ==
    /\ objects' \in [Threads -> WaitLists]
    /\ \A t \in Threads : state[t] = "Waiting" => objects'[t] = objects[t]

-----------------------------------------------------------------------------
\* What ending the waits of a set of threads leaves behind, whoever ends them.
LEMMA EndWaitsFacts ==
    ASSUME SyncInv, NEW woken \in SUBSET Threads, NEW result, NEW index,
           \A t \in woken : state[t] = "Waiting",
           EndWaits(woken, result, index), ObjectsOfWaitersKept
    PROVE  /\ m_thread_list' \in [Objects -> SUBSET (Threads \X Nat)]
           /\ state' \in [Threads -> {"Initialized", "Runnable", "Waiting", "Terminated"}]
           /\ m_wait_queue' \in [Threads -> {"none", "synchronization", "sleep"}]
           /\ m_cancellable' \in [Threads -> BOOLEAN]
           /\ \A t \in Threads : WaitsOnObjects(t)' <=> (WaitsOnObjects(t) /\ t \notin woken)
           /\ \A t \in Threads : state'[t] = "Waiting" <=> (state[t] = "Waiting" /\ t \notin woken)
           /\ QueueInv'
           /\ NodesOnLiveStacks'
<1> USE DEF SyncInv, SyncType, EndWaits
<1>1. m_thread_list' \in [Objects -> SUBSET (Threads \X Nat)]
  BY DEF Unlink
<1>2. /\ state' \in [Threads -> {"Initialized", "Runnable", "Waiting", "Terminated"}]
      /\ m_wait_queue' \in [Threads -> {"none", "synchronization", "sleep"}]
      /\ m_cancellable' \in [Threads -> BOOLEAN]
  OBVIOUS
<1>3. \A t \in Threads : state'[t] = "Waiting" <=> (state[t] = "Waiting" /\ t \notin woken)
  OBVIOUS
<1>4. \A t \in Threads : WaitsOnObjects(t)' <=> (WaitsOnObjects(t) /\ t \notin woken)
  BY DEF WaitsOnObjects
<1>5. QueueInv'
  BY DEF QueueInv, WaitsOnObjects
<1>6. NodesOnLiveStacks'
  <2>1. ASSUME NEW o \in Objects, NEW n \in m_thread_list'[o]
        PROVE  /\ WaitsOnObjects(n[1])'
               /\ n[2] \in DOMAIN objects'[n[1]]
               /\ objects'[n[1]][n[2]] = o
    <3>1. n \in m_thread_list[o]
      BY <2>1 DEF Unlink
    <3>2. /\ WaitsOnObjects(n[1]) /\ n[1] \in Threads
          /\ n[2] \in DOMAIN objects[n[1]]
          /\ objects[n[1]][n[2]] = o
      BY <3>1 DEF NodesOnLiveStacks
    <3>3. n[1] \notin woken
      BY <2>1, <3>2 DEF Unlink, WaitsOnObjects
    <3> QED
      BY <1>4, <3>2, <3>3 DEF WaitsOnObjects, ObjectsOfWaitersKept
  <2>2. ASSUME NEW o \in Objects, NEW t \in Threads, WaitsOnObjects(t)',
               NEW i \in DOMAIN objects'[t], objects'[t][i] = o
        PROVE  <<t, i>> \in m_thread_list'[o]
    <3>1. WaitsOnObjects(t) /\ t \notin woken /\ objects'[t] = objects[t]
      BY <1>4, <2>2 DEF WaitsOnObjects, ObjectsOfWaitersKept
    <3>2. <<t, i>> \in m_thread_list[o]
      BY <2>2, <3>1 DEF NodesOnLiveStacks
    <3> QED
      BY <3>1, <3>2 DEF Unlink
  <2> HIDE DEF SyncInv, SyncType, EndWaits
  <2> QED
    BY <2>1, <2>2 DEF NodesOnLiveStacks, WaitsOnObjects
<1> QED
  BY <1>1, <1>2, <1>3, <1>4, <1>5, <1>6

\* A signal leaves nobody waiting on the object it signals.
LEMMA NotifyKeeps ==
    ASSUME SyncInv, NEW o \in Objects,
           m_is_signaled' = [m_is_signaled EXCEPT ![o] = TRUE], NotifyAvailable(o),
           UNCHANGED <<objects, m_wait_cancelled, m_termination_requested>>,
           worker' \in SUBSET Threads
    PROVE  SyncInv'
<1> DEFINE woken == {t \in Threads : state[t] = "Waiting" /\ \E n \in m_thread_list[o] : n[1] = t}
<1>1. /\ EndWaits(woken, "Success", [t \in woken |-> FirstIndex(o, objects[t])])
      /\ m_hardware_timer_tasks' = m_hardware_timer_tasks \ woken
  BY DEF NotifyAvailable
<1>2. ObjectsOfWaitersKept
  BY DEF SyncInv, SyncType, ObjectsOfWaitersKept
<1>3. woken \in SUBSET Threads /\ \A t \in woken : state[t] = "Waiting"
  OBVIOUS
<1> DEFINE index == [t \in woken |-> FirstIndex(o, objects[t])]
<1>4. EndWaits(woken, "Success", index)
  BY <1>1
<1> HIDE DEF woken, index
<1>5. /\ m_thread_list' \in [Objects -> SUBSET (Threads \X Nat)]
      /\ state' \in [Threads -> {"Initialized", "Runnable", "Waiting", "Terminated"}]
      /\ m_wait_queue' \in [Threads -> {"none", "synchronization", "sleep"}]
      /\ m_cancellable' \in [Threads -> BOOLEAN]
      /\ \A t \in Threads : WaitsOnObjects(t)' <=> (WaitsOnObjects(t) /\ t \notin woken)
      /\ \A t \in Threads : state'[t] = "Waiting" <=> (state[t] = "Waiting" /\ t \notin woken)
      /\ QueueInv'
      /\ NodesOnLiveStacks'
  BY <1>2, <1>3, <1>4, EndWaitsFacts
<1>6. SyncType'
  BY <1>1, <1>5 DEF SyncInv, SyncType
<1>7. NoLostWakeup'
  <2> SUFFICES ASSUME NEW t \in Threads, WaitsOnObjects(t)', NEW i \in DOMAIN objects[t]
               PROVE  ~m_is_signaled'[objects[t][i]]
    BY DEF NoLostWakeup, SignaledIndices, WaitsOnObjects
  <2>1. WaitsOnObjects(t) /\ t \notin woken
    BY <1>5 DEF WaitsOnObjects
  <2>2. ~m_is_signaled[objects[t][i]] /\ objects[t][i] \in Objects
    BY <2>1, WaitListFacts DEF SyncInv, SyncType, NoLostWakeup, SignaledIndices
  <2>3. <<t, i>> \in m_thread_list[objects[t][i]]
    BY <2>1, <2>2 DEF SyncInv, NodesOnLiveStacks
  <2>4. objects[t][i] # o
    BY <2>1, <2>3 DEF woken, WaitsOnObjects
  <2> QED
    BY <2>2, <2>4 DEF SyncInv, SyncType
<1>8. NoStaleTimer'
  BY <1>1, <1>3, <1>5 DEF SyncInv, SyncType, NoStaleTimer
<1>9. CancelNotPending'
  <2>1. \A t \in Threads : m_cancellable'[t] => m_cancellable[t]
    BY <1>4 DEF EndWaits
  <2> QED
    BY <2>1 DEF SyncInv, CancelNotPending
<1>10. TerminationUnblocks'
  BY <1>5 DEF SyncInv, TerminationUnblocks
<1> QED
  BY <1>5, <1>6, <1>7, <1>8, <1>9, <1>10 DEF SyncInv

\* Ending one thread's wait, with its timer task gone, keeps the invariant
\* whatever becomes of its own cancellation and termination flags.
LEMMA CancelKeeps ==
    ASSUME SyncInv, NEW t \in Threads, NEW result, CancelWait(t, result), ObjectsOfWaitersKept,
           m_hardware_timer_tasks' = m_hardware_timer_tasks \ {t},
           m_wait_cancelled' \in [Threads -> BOOLEAN],
           m_termination_requested' \in [Threads -> BOOLEAN],
           \A u \in Threads \ {t} : /\ m_wait_cancelled'[u] = m_wait_cancelled[u]
                                    /\ m_termination_requested'[u] = m_termination_requested[u],
           UNCHANGED <<m_is_signaled, worker>>
    PROVE  SyncInv'
<1> DEFINE woken == {t} \cap {u \in Threads : state[u] = "Waiting"}
<1>1. EndWaits(woken, result, m_synced_index)
  BY DEF CancelWait
<1>2. woken \in SUBSET Threads /\ (\A u \in woken : state[u] = "Waiting")
      /\ \A u \in Threads : state[u] = "Waiting" => (u \in woken <=> u = t)
  OBVIOUS
<1> HIDE DEF woken
<1>3. /\ m_thread_list' \in [Objects -> SUBSET (Threads \X Nat)]
      /\ state' \in [Threads -> {"Initialized", "Runnable", "Waiting", "Terminated"}]
      /\ m_wait_queue' \in [Threads -> {"none", "synchronization", "sleep"}]
      /\ m_cancellable' \in [Threads -> BOOLEAN]
      /\ \A u \in Threads : WaitsOnObjects(u)' <=> (WaitsOnObjects(u) /\ u \notin woken)
      /\ \A u \in Threads : state'[u] = "Waiting" <=> (state[u] = "Waiting" /\ u \notin woken)
      /\ QueueInv'
      /\ NodesOnLiveStacks'
  BY <1>1, <1>2, EndWaitsFacts
<1>4. SyncType'
  BY <1>3 DEF SyncInv, SyncType, ObjectsOfWaitersKept
<1>5. NoLostWakeup'
  <2> SUFFICES ASSUME NEW u \in Threads, WaitsOnObjects(u)'
               PROVE  SignaledIndices(objects[u]) = {} /\ objects'[u] = objects[u]
    BY DEF NoLostWakeup, SignaledIndices, WaitsOnObjects
  <2>1. WaitsOnObjects(u)
    BY <1>3 DEF WaitsOnObjects
  <2> QED
    BY <2>1 DEF SyncInv, NoLostWakeup, WaitsOnObjects, ObjectsOfWaitersKept
<1>6. NoStaleTimer' /\ TerminationUnblocks'
  BY <1>2, <1>3 DEF SyncInv, SyncType, NoStaleTimer, TerminationUnblocks
<1>7. CancelNotPending'
  <2>1. ~m_cancellable'[t]
    BY <1>2, <1>3 DEF QueueInv, WaitsOnObjects
  <2>2. \A u \in Threads : m_cancellable'[u] => m_cancellable[u]
    BY <1>1 DEF EndWaits
  <2> QED
    BY <2>1, <2>2 DEF SyncInv, CancelNotPending
<1> QED
  BY <1>3, <1>4, <1>5, <1>6, <1>7 DEF SyncInv

\* A step that begins and ends no wait keeps the invariant.
LEMMA QuietKeeps ==
    ASSUME SyncInv, ObjectsOfWaitersKept,
           UNCHANGED <<m_is_signaled, m_thread_list, m_wait_queue, m_cancellable,
                       m_hardware_timer_tasks>>,
           state' \in [Threads -> {"Initialized", "Runnable", "Waiting", "Terminated"}],
           \A t \in Threads : state'[t] = "Waiting" <=> state[t] = "Waiting",
           m_wait_cancelled' \in [Threads -> BOOLEAN],
           \A t \in Threads : m_wait_cancelled'[t] => m_wait_cancelled[t] \/ ~m_cancellable[t],
           m_termination_requested' \in [Threads -> BOOLEAN],
           \A t \in Threads : m_termination_requested'[t] =>
                m_termination_requested[t] \/ state[t] # "Waiting",
           worker' \in SUBSET Threads
    PROVE  SyncInv'
<1>1. \A t \in Threads : WaitsOnObjects(t)' <=> WaitsOnObjects(t)
  BY DEF WaitsOnObjects
<1>2. SyncType'
  BY DEF SyncInv, SyncType, ObjectsOfWaitersKept
<1>3. QueueInv' /\ NoStaleTimer' /\ CancelNotPending' /\ TerminationUnblocks'
  BY DEF SyncInv, SyncType, QueueInv, NoStaleTimer, CancelNotPending, TerminationUnblocks,
         WaitsOnObjects
<1>4. NoLostWakeup'
  <2> SUFFICES ASSUME NEW u \in Threads, WaitsOnObjects(u)'
               PROVE  SignaledIndices(objects[u]) = {} /\ objects'[u] = objects[u]
    BY DEF NoLostWakeup, SignaledIndices, WaitsOnObjects
  <2> QED
    BY <1>1 DEF SyncInv, NoLostWakeup, WaitsOnObjects, ObjectsOfWaitersKept
<1>5. NodesOnLiveStacks'
  <2>1. ASSUME NEW o \in Objects, NEW n \in m_thread_list[o]
        PROVE  /\ WaitsOnObjects(n[1])'
               /\ n[2] \in DOMAIN objects'[n[1]]
               /\ objects'[n[1]][n[2]] = o
    <3>1. /\ WaitsOnObjects(n[1]) /\ n[1] \in Threads
          /\ n[2] \in DOMAIN objects[n[1]]
          /\ objects[n[1]][n[2]] = o
      BY DEF SyncInv, SyncType, NodesOnLiveStacks
    <3> QED
      BY <3>1 DEF WaitsOnObjects, ObjectsOfWaitersKept
  <2>2. ASSUME NEW t \in Threads, WaitsOnObjects(t)'
        PROVE  WaitsOnObjects(t) /\ objects'[t] = objects[t]
    BY <2>2 DEF WaitsOnObjects, ObjectsOfWaitersKept
  <2> QED
    BY <2>1, <2>2 DEF SyncInv, NodesOnLiveStacks, WaitsOnObjects
<1> QED
  BY <1>2, <1>3, <1>4, <1>5 DEF SyncInv

\* Wait() starts only when nothing it names is signaled, no cancellation is
\* pending and no termination was requested.
LEMMA BeginWaitKeeps ==
    ASSUME SyncInv, NEW t \in Threads, NEW objs \in WaitLists, NEW timeout,
           state[t] = "Runnable", ~IsTerminationRequested(t), SignaledIndices(objs) = {},
           ~m_wait_cancelled[t], BeginWait(t, objs, timeout)
    PROVE  SyncInv'
<1> USE DEF BeginWait, waitVars
<1>1. DOMAIN objs \subseteq Nat
  BY WaitListFacts
<1>2. SyncType'
  <2>1. m_thread_list' \in [Objects -> SUBSET (Threads \X Nat)]
    BY <1>1 DEF SyncInv, SyncType
  <2> QED
    BY <2>1 DEF SyncInv, SyncType
<1>3. \A u \in Threads : WaitsOnObjects(u)' <=> (u = t \/ WaitsOnObjects(u))
  BY DEF WaitsOnObjects, SyncInv, SyncType
<1>4. ~WaitsOnObjects(t)
  BY DEF WaitsOnObjects
<1>5. QueueInv' /\ CancelNotPending' /\ TerminationUnblocks'
  BY DEF SyncInv, SyncType, QueueInv, CancelNotPending, TerminationUnblocks, WaitsOnObjects,
         IsTerminationRequested
<1>6. NoStaleTimer'
  BY DEF SyncInv, SyncType, NoStaleTimer
<1>7. NoLostWakeup'
  <2> SUFFICES ASSUME NEW u \in Threads, WaitsOnObjects(u)'
               PROVE  SignaledIndices(objects'[u]) = {}
    BY DEF NoLostWakeup, SignaledIndices, WaitsOnObjects
  <2>1. CASE u = t
    BY <2>1 DEF SyncInv, SyncType
  <2>2. CASE u # t
    BY <1>3, <2>2 DEF SyncInv, SyncType, NoLostWakeup, WaitsOnObjects
  <2> QED
    BY <2>1, <2>2
<1>8. NodesOnLiveStacks'
  <2>1. ASSUME NEW o \in Objects, NEW n \in m_thread_list'[o]
        PROVE  /\ WaitsOnObjects(n[1])'
               /\ n[2] \in DOMAIN objects'[n[1]]
               /\ objects'[n[1]][n[2]] = o
    <3>1. CASE n \in m_thread_list[o]
      <4>1. /\ WaitsOnObjects(n[1]) /\ n[1] \in Threads
            /\ n[2] \in DOMAIN objects[n[1]]
            /\ objects[n[1]][n[2]] = o
        BY <3>1 DEF SyncInv, SyncType, NodesOnLiveStacks
      <4>2. n[1] # t
        BY <1>4, <4>1
      <4> QED
        BY <1>3, <4>1, <4>2 DEF SyncInv, SyncType, WaitsOnObjects
    <3>2. CASE \E i \in DOMAIN objs : objs[i] = o /\ n = <<t, i>>
      <4>1. PICK i \in DOMAIN objs : objs[i] = o /\ n = <<t, i>>
        BY <3>2
      <4>2. n[1] = t /\ n[2] = i /\ objects'[t] = objs
        BY <4>1 DEF SyncInv, SyncType
      <4> QED
        BY <1>3, <4>1, <4>2 DEF WaitsOnObjects
    <3> QED
      BY <2>1, <3>1, <3>2
  <2>2. ASSUME NEW o \in Objects, NEW u \in Threads, WaitsOnObjects(u)',
               NEW i \in DOMAIN objects'[u], objects'[u][i] = o
        PROVE  <<u, i>> \in m_thread_list'[o]
    <3>1. CASE u = t
      BY <2>2, <3>1 DEF SyncInv, SyncType
    <3>2. CASE u # t
      <4>1. WaitsOnObjects(u) /\ objects'[u] = objects[u]
        BY <1>3, <2>2, <3>2 DEF SyncInv, SyncType, WaitsOnObjects
      <4>2. <<u, i>> \in m_thread_list[o]
        BY <2>2, <4>1 DEF SyncInv, NodesOnLiveStacks
      <4> QED
        BY <4>2
    <3> QED
      BY <3>1, <3>2
  <2> HIDE DEF BeginWait
  <2> QED
    BY <2>1, <2>2 DEF NodesOnLiveStacks, WaitsOnObjects
<1> QED
  BY <1>2, <1>5, <1>6, <1>7, <1>8 DEF SyncInv

LEMMA SleepKeeps ==
    ASSUME SyncInv, NEW t \in Threads, Sleep(t)
    PROVE  SyncInv'
<1> USE DEF Sleep
<1>1. SyncType'
  BY DEF SyncInv, SyncType
<1>2. \A u \in Threads : WaitsOnObjects(u)' <=> WaitsOnObjects(u)
  BY DEF WaitsOnObjects, SyncInv, SyncType
<1>3. QueueInv' /\ NoStaleTimer' /\ CancelNotPending' /\ TerminationUnblocks'
  BY DEF SyncInv, SyncType, QueueInv, NoStaleTimer, CancelNotPending, TerminationUnblocks,
         WaitsOnObjects, IsTerminationRequested
<1>4. NoLostWakeup'
  <2> SUFFICES ASSUME NEW u \in Threads, WaitsOnObjects(u)'
               PROVE  SignaledIndices(objects[u]) = {}
    BY DEF NoLostWakeup, SignaledIndices, WaitsOnObjects
  <2>1. WaitsOnObjects(u)
    BY <1>2 DEF WaitsOnObjects
  <2> QED
    BY <2>1 DEF SyncInv, NoLostWakeup
<1>5. NodesOnLiveStacks'
  <2>1. \A o \in Objects : \A n \in m_thread_list[o] : n[1] \in Threads
    BY DEF SyncInv, SyncType
  <2>2. UNCHANGED <<m_thread_list, objects>>
    OBVIOUS
  <2> HIDE DEF Sleep
  <2> QED
    BY <1>2, <2>1, <2>2 DEF SyncInv, NodesOnLiveStacks, WaitsOnObjects
<1> QED
  BY <1>1, <1>3, <1>4, <1>5 DEF SyncInv

LEMMA WaitImplKeeps ==
    ASSUME SyncInv, NEW t \in Threads, NEW objs \in WaitLists, NEW timeout,
           state[t] = "Runnable", WaitImpl(t, objs, timeout)
    PROVE  SyncInv'
<1>1. ASSUME NEW result, NEW i, ReturnEarly(t, result, i),
             \/ UNCHANGED m_wait_cancelled
             \/ m_wait_cancelled' = [m_wait_cancelled EXCEPT ![t] = FALSE]
      PROVE  SyncInv'
  <2>1. ObjectsOfWaitersKept
    BY <1>1, ConstantsAssumption DEF ReturnEarly, SyncInv, SyncType, ObjectsOfWaitersKept
  <2>2. /\ UNCHANGED <<m_is_signaled, m_thread_list, m_wait_queue, m_cancellable, state,
                       m_hardware_timer_tasks, m_termination_requested, worker>>
        /\ m_wait_cancelled' \in [Threads -> BOOLEAN]
        /\ \A u \in Threads : m_wait_cancelled'[u] => m_wait_cancelled[u]
    BY <1>1 DEF ReturnEarly, waitVars, SyncInv, SyncType
  <2> QED
    BY <2>1, <2>2, QuietKeeps DEF SyncInv, SyncType
<1>2. ASSUME BeginWait(t, objs, timeout), ~IsTerminationRequested(t), SignaledIndices(objs) = {},
             ~m_wait_cancelled[t]
      PROVE  SyncInv'
  BY <1>2, BeginWaitKeeps
<1> QED
  BY <1>1, <1>2 DEF WaitImpl

-----------------------------------------------------------------------------
LEMMA InitSyncInv == Init => SyncInv
<1> SUFFICES ASSUME Init PROVE SyncInv
  OBVIOUS
<1>1. \A t \in Threads : state[t] # "Waiting" /\ m_wait_queue[t] = "none"
  BY DEF Init
<1>2. SyncType
  BY ConstantsAssumption DEF Init, SyncType
<1>3. QueueInv /\ NoLostWakeup
  BY <1>1 DEF Init, QueueInv, NoLostWakeup, WaitsOnObjects
<1>4. NodesOnLiveStacks
  BY <1>1 DEF Init, NodesOnLiveStacks, WaitsOnObjects
<1>5. NoStaleTimer /\ CancelNotPending /\ TerminationUnblocks
  BY <1>1 DEF Init, NoStaleTimer, CancelNotPending, TerminationUnblocks
<1> QED
  BY <1>2, <1>3, <1>4, <1>5 DEF SyncInv

LEMMA SyncInvStep == SyncInv /\ [Next]_vars => SyncInv'
<1> SUFFICES ASSUME SyncInv, [Next]_vars PROVE SyncInv'
  OBVIOUS
<1>1. ASSUME UNCHANGED objects PROVE ObjectsOfWaitersKept
  BY <1>1 DEF SyncInv, SyncType, ObjectsOfWaitersKept
<1>2. ASSUME NEW e \in Events, Signal(e) PROVE SyncInv'
  BY <1>2, NotifyKeeps DEF Signal, Objects, SyncInv, SyncType
<1>3. ASSUME NEW e \in Events, Reset(e) PROVE SyncInv'
  <2>1. /\ m_is_signaled' = [m_is_signaled EXCEPT ![e] = FALSE]
        /\ UNCHANGED <<m_thread_list, m_wait_queue, m_cancellable, state, objects,
                       m_hardware_timer_tasks, m_wait_cancelled, m_termination_requested, worker>>
    BY <1>3 DEF Reset, waitVars
  <2>2. NoLostWakeup'
    BY <2>1, WaitListFacts DEF SyncInv, SyncType, NoLostWakeup, SignaledIndices, WaitsOnObjects
  <2> QED
    BY <2>1, <2>2 DEF SyncInv, SyncType, QueueInv, NodesOnLiveStacks, NoStaleTimer,
                      CancelNotPending, TerminationUnblocks, WaitsOnObjects
<1>4. ASSUME NEW t \in Threads, Wait(t) PROVE SyncInv'
  BY <1>4, WaitImplKeeps DEF Wait
<1>5. ASSUME NEW t \in Threads, Join(t) PROVE SyncInv'
  BY <1>5, WaitImplKeeps DEF Join, SyncInv, SyncType
<1>6. ASSUME NEW t \in Threads, WaitReturns(t) PROVE SyncInv'
  <2>1. ObjectsOfWaitersKept
    BY <1>6, ConstantsAssumption DEF WaitReturns, SyncInv, SyncType, ObjectsOfWaitersKept
  <2>2. UNCHANGED <<m_is_signaled, m_thread_list, m_wait_queue, m_cancellable, state,
                    m_hardware_timer_tasks, m_wait_cancelled, m_termination_requested, worker>>
    BY <1>6 DEF WaitReturns, waitVars
  <2> QED
    BY <2>1, <2>2, QuietKeeps DEF SyncInv, SyncType
<1>7. ASSUME NEW t \in Threads, SleepReturns(t) \/ Interrupt(t) PROVE SyncInv'
  <2>1. UNCHANGED <<m_is_signaled, m_thread_list, m_wait_queue, m_cancellable, state, objects,
                    m_hardware_timer_tasks, m_wait_cancelled, m_termination_requested, worker>>
    BY <1>7 DEF SleepReturns, Interrupt, waitVars
  <2> QED
    BY <1>1, <2>1, QuietKeeps DEF SyncInv, SyncType
<1>8. ASSUME NEW t \in Threads, WaitCancel(t) PROVE SyncInv'
  <2>1. CASE state[t] = "Waiting" /\ m_cancellable[t]
    BY <1>1, <1>8, <2>1, CancelKeeps DEF WaitCancel, SyncInv, SyncType
  <2>2. CASE ~(state[t] = "Waiting" /\ m_cancellable[t])
    <3>1. ~m_cancellable[t]
      BY <2>2 DEF SyncInv, QueueInv, WaitsOnObjects
    <3>2. /\ m_wait_cancelled' = [m_wait_cancelled EXCEPT ![t] = TRUE]
          /\ UNCHANGED <<m_is_signaled, m_thread_list, m_wait_queue, m_cancellable, state, objects,
                         m_hardware_timer_tasks, m_termination_requested, worker>>
      BY <1>8, <2>2 DEF WaitCancel, waitVars
    <3> QED
      BY <1>1, <3>1, <3>2, QuietKeeps DEF SyncInv, SyncType
  <2> QED
    BY <2>1, <2>2
<1>9. ASSUME NEW t \in Threads, OnTimer(t) PROVE SyncInv'
  BY <1>1, <1>9, CancelKeeps DEF OnTimer, SyncInv, SyncType
<1>10. ASSUME NEW t \in Threads, Run(t) PROVE SyncInv'
  <2>1. /\ state' = [state EXCEPT ![t] = "Runnable"] /\ state[t] = "Initialized"
        /\ UNCHANGED <<m_is_signaled, m_thread_list, m_wait_queue, m_cancellable, objects,
                       m_hardware_timer_tasks, m_wait_cancelled, m_termination_requested, worker>>
    BY <1>10 DEF Run
  <2> QED
    BY <1>1, <2>1, QuietKeeps DEF SyncInv, SyncType
<1>11. ASSUME NEW t \in Threads, state[t] = "Runnable", Exit(t) PROVE SyncInv'
  <2>1. /\ state' = [state EXCEPT ![t] = "Terminated"]
        /\ worker' = worker \cup {t}
        /\ UNCHANGED <<m_is_signaled, m_thread_list, m_wait_queue, m_cancellable, objects,
                       m_hardware_timer_tasks, m_wait_cancelled, m_termination_requested>>
    BY <1>11 DEF Exit
  <2> QED
    BY <1>1, <1>11, <2>1, QuietKeeps DEF SyncInv, SyncType
<1>12. ASSUME NEW t \in Threads, RunThread(t) PROVE SyncInv'
  <2>1. CASE Exit(t)
    BY <1>11, <1>12, <2>1 DEF RunThread
  <2>2. CASE ~Exit(t)
    <3>1. UNCHANGED <<m_is_signaled, m_thread_list, m_wait_queue, m_cancellable, state, objects,
                      m_hardware_timer_tasks, m_wait_cancelled, m_termination_requested, worker>>
      BY <1>12, <2>2 DEF RunThread, waitVars
    <3> QED
      BY <1>1, <3>1, QuietKeeps DEF SyncInv, SyncType
  <2> QED
    BY <2>1, <2>2
<1>13. ASSUME NEW t \in Threads, FinishTermination(t) PROVE SyncInv'
  BY <1>13, NotifyKeeps DEF FinishTermination, Objects, SyncInv, SyncType
<1>14. ASSUME NEW t \in Threads, NEW target \in Threads, Terminate(t, target) PROVE SyncInv'
  <2>1. /\ RequestTerminate(target) /\ state[t] = "Runnable"
        /\ UNCHANGED <<m_is_signaled, m_wait_cancelled, worker>>
        /\ m_termination_requested' = [m_termination_requested EXCEPT ![target] = TRUE]
    BY <1>14 DEF Terminate, RequestTerminate
  <2>2. ObjectsOfWaitersKept
    BY <1>14, ConstantsAssumption DEF Terminate, SyncInv, SyncType, ObjectsOfWaitersKept
  <2>3. CASE m_termination_requested[target]
    <3>1. UNCHANGED <<m_thread_list, m_wait_queue, m_cancellable, state, m_hardware_timer_tasks>>
      BY <2>1, <2>3 DEF RequestTerminate, waitVars
    <3> QED
      BY <2>1, <2>2, <2>3, <3>1, QuietKeeps DEF SyncInv, SyncType
  <2>4. CASE ~m_termination_requested[target] /\ state[target] = "Initialized"
    <3>1. /\ state' = [state EXCEPT ![target] = "Terminated"]
          /\ UNCHANGED <<m_thread_list, m_wait_queue, m_cancellable, m_hardware_timer_tasks>>
      BY <2>1, <2>4 DEF RequestTerminate
    <3> QED
      BY <2>1, <2>2, <2>4, <3>1, QuietKeeps DEF SyncInv, SyncType
  <2>5. CASE ~m_termination_requested[target] /\ state[target] # "Initialized"
    <3>1. /\ CancelWait(target, "TerminationRequested")
          /\ m_hardware_timer_tasks' = m_hardware_timer_tasks \ {target}
      BY <2>1, <2>5 DEF RequestTerminate
    <3> QED
      BY <2>1, <2>2, <3>1, CancelKeeps DEF SyncInv, SyncType
  <2> QED
    BY <2>3, <2>4, <2>5
<1>15. CASE UNCHANGED vars
  <2>1. UNCHANGED <<m_is_signaled, m_thread_list, m_wait_queue, m_cancellable, state, objects,
                    m_hardware_timer_tasks, m_wait_cancelled, m_termination_requested, worker>>
    BY <1>15 DEF vars, waitVars
  <2> QED
    BY <1>1, <2>1, QuietKeeps DEF SyncInv, SyncType
<1> QED
  BY <1>2, <1>3, <1>4, <1>5, <1>6, <1>7, <1>8, <1>9, <1>10, <1>11, <1>12, <1>13, <1>14, <1>15,
     SleepKeeps DEF Next, ExitThread

-----------------------------------------------------------------------------
THEOREM SyncInvariant == Spec => []SyncInv
BY InitSyncInv, SyncInvStep, PTL DEF Spec

\* However many threads wait for however many objects, none waits on an
\* object that is signaled.
THEOREM WakeupsReachEveryone == Spec => []NoLostWakeup
<1>1. SyncInv => NoLostWakeup
  BY DEF SyncInv
<1> QED
  BY <1>1, SyncInvariant, PTL

\* The list of every object holds the nodes of the waiting threads and no
\* others, so none is left pointing into a stack frame that has returned; a
\* timer task never outlives the wait it was registered for; and a wait that
\* can be cancelled does not begin with a cancellation pending.
THEOREM WaitsLeaveNothingBehind == Spec => []WaitLeavesNothing
<1>1. SyncInv => WaitLeavesNothing
  BY DEF SyncInv, WaitLeavesNothing
<1> QED
  BY <1>1, SyncInvariant, PTL

\* No thread is blocked once its termination has been requested.
THEOREM TerminationIsNeverBlocked == Spec => []TerminationUnblocks
<1>1. SyncInv => TerminationUnblocks
  BY DEF SyncInv
<1> QED
  BY <1>1, SyncInvariant, PTL
-----------------------------------------------------------------------------
(* How a wait ended, and what Wait() reports                               *)

\* While a thread waits on objects it has no index; when it was woken its
\* result is Success exactly if it has one.
ThreadOutcome(t) ==
    /\ state[t] = "Initialized" => pc[t] = "enter"
    /\ state[t] = "Waiting" => pc[t] = IF m_wait_queue[t] = "synchronization" THEN "wait" ELSE "sleep"
    /\ WaitsOnObjects(t) => m_synced_index[t] = 0
    /\ pc[t] = "wait" /\ state[t] = "Runnable" => (m_wait_result[t] = "Success" <=> m_synced_index[t] > 0)

\* The rest of the type invariant
OutcomeType ==
    /\ m_synced_index \in [Threads -> Nat]
    /\ m_wait_result \in [Threads -> Results]
    /\ pc \in [Threads -> {"enter", "user", "join", "wait", "sleep", "gone"}]
    /\ out \in [Threads -> [result : Results, index : Nat]]

OutcomeInv == OutcomeType /\ IndexFitsResult /\ \A t \in Threads : ThreadOutcome(t)

LEMMA LeastMember ==
    ASSUME NEW S \in SUBSET Nat, S # {}
    PROVE  \E x \in S : \A y \in S : x <= y
<1>1. PICK x \in S : \A y \in S : ~(<<y, x>> \in OpToRel(<, Nat))
  BY NatLessThanWellFounded, WFMin
<1>2. ASSUME NEW y \in S PROVE x <= y
  <2>1. x \in Nat /\ y \in Nat /\ ~(<<y, x>> \in OpToRel(<, Nat))
    BY <1>1
  <2>2. ~(y < x)
    BY <2>1 DEF OpToRel
  <2>3. x \in Nat /\ y \in Nat
    BY <2>1
  <2> QED
    BY <2>2, <2>3
<1> QED
  BY <1>2

\* The index that a notified thread gets is that of the object's first place.
LEMMA FirstIndexFacts ==
    ASSUME NEW s \in WaitLists, NEW o, NEW k \in DOMAIN s, s[k] = o
    PROVE  /\ FirstIndex(o, s) \in DOMAIN s /\ s[FirstIndex(o, s)] = o
           /\ FirstIndex(o, s) \in Nat /\ FirstIndex(o, s) > 0
           /\ \A j \in DOMAIN s : j < FirstIndex(o, s) => s[j] # o
<1> DEFINE S == {i \in DOMAIN s : s[i] = o}
<1>1. DOMAIN s \subseteq Nat \ {0}
  BY ConstantsAssumption
<1>2. S \in SUBSET Nat /\ S # {}
  BY <1>1
<1>3. PICK x \in S : \A y \in S : x <= y
  BY <1>2, LeastMember
<1>5. \E i \in DOMAIN s : s[i] = o /\ \A j \in DOMAIN s : s[j] = o => i <= j
  BY <1>3
<1>6. /\ FirstIndex(o, s) \in DOMAIN s /\ s[FirstIndex(o, s)] = o
      /\ \A j \in DOMAIN s : s[j] = o => FirstIndex(o, s) <= j
  BY <1>5 DEF FirstIndex
<1> QED
  BY <1>1, <1>6

\* A step that wakes nobody and begins no wait.
LEMMA QuietOutcome ==
    ASSUME OutcomeInv, OutcomeType',
           UNCHANGED <<m_wait_queue, m_synced_index, m_wait_result>>,
           \A t \in Threads :
             /\ \/ state'[t] = state[t]
                \/ state'[t] = "Terminated"
                \/ state[t] = "Initialized" /\ state'[t] = "Runnable"
             /\ pc'[t] = pc[t] \/ (state'[t] \in {"Runnable", "Terminated"} /\ pc'[t] # "wait")
             /\ out'[t] = out[t] \/ IndexFits(out'[t])
    PROVE  OutcomeInv'
<1>1. IndexFitsResult'
  BY DEF OutcomeInv, IndexFitsResult
<1>2. ASSUME NEW t \in Threads PROVE ThreadOutcome(t)'
  BY DEF OutcomeInv, ThreadOutcome, WaitsOnObjects
<1> QED
  BY <1>1, <1>2 DEF OutcomeInv

\* The waits of a set of threads can be ended so: with an index for those that
\* wait on objects, or with another result than Success.
EndsAs(woken, result, index) ==
    \A t \in woken : /\ state[t] = "Waiting" /\ index[t] \in Nat
                     /\ WaitsOnObjects(t) => (result = "Success" <=> index[t] > 0)

\* Only a thread that runs changes its place, and not to that of a wait.
KeepsPlaces ==
    /\ pc' \in [Threads -> {"enter", "user", "join", "wait", "sleep", "gone"}]
    /\ \A t \in Threads : pc'[t] = pc[t] \/ (state[t] = "Runnable" /\ pc'[t] # "wait")

LEMMA EndedOutcome ==
    ASSUME OutcomeInv, NEW woken \in SUBSET Threads, NEW result \in Results, NEW index,
           EndsAs(woken, result, index), EndWaits(woken, result, index), KeepsPlaces, UNCHANGED out
    PROVE  OutcomeInv'
<1>1. IndexFitsResult'
  BY DEF OutcomeInv, IndexFitsResult
<1>2. ASSUME NEW t \in woken PROVE ThreadOutcome(t)'
  <2>1. /\ state'[t] = "Runnable" /\ m_wait_queue'[t] = "none" /\ m_wait_result'[t] = result
        /\ m_synced_index'[t] = index[t] /\ pc'[t] = pc[t] /\ state[t] = "Waiting"
    BY <1>2 DEF EndWaits, EndsAs, KeepsPlaces
  <2>2. pc[t] = "wait" => WaitsOnObjects(t)
    BY <2>1 DEF OutcomeInv, ThreadOutcome, WaitsOnObjects
  <2> QED
    BY <2>1, <2>2 DEF EndsAs, ThreadOutcome, WaitsOnObjects
<1>3. ASSUME NEW t \in Threads \ woken PROVE ThreadOutcome(t)'
  <2>1. /\ state'[t] = state[t] /\ m_wait_queue'[t] = m_wait_queue[t]
        /\ m_wait_result'[t] = m_wait_result[t] /\ m_synced_index'[t] = m_synced_index[t]
    BY <1>3 DEF EndWaits
  <2> QED
    BY <2>1 DEF OutcomeInv, ThreadOutcome, WaitsOnObjects, KeepsPlaces
<1>4. OutcomeType'
  BY DEF OutcomeInv, OutcomeType, EndWaits, EndsAs, KeepsPlaces
<1> QED
  BY <1>1, <1>2, <1>3, <1>4 DEF OutcomeInv

\* What a step may do to the outcome of a wait that it ends, as
\* WakeNamesSignaledObject says
WakeOutcome(t) ==
    WaitsOnObjects(t) /\ state'[t] = "Runnable" /\ m_wait_result'[t] = "Success" =>
        /\ m_synced_index'[t] \in DOMAIN objects[t]
        /\ m_is_signaled'[objects[t][m_synced_index'[t]]]
        /\ \A j \in DOMAIN objects[t] : j < m_synced_index'[t] => ~m_is_signaled'[objects[t][j]]

\* A notified thread gets the index of the object: the objects before it in
\* the thread's list were not signaled when it waited.
LEMMA NotifyOutcome ==
    ASSUME SyncInv, OutcomeInv, NEW o \in Objects,
           m_is_signaled' = [m_is_signaled EXCEPT ![o] = TRUE], NotifyAvailable(o),
           UNCHANGED <<pc, out>>
    PROVE  OutcomeInv' /\ \A t \in Threads : WakeOutcome(t)
<1> DEFINE woken == {t \in Threads : state[t] = "Waiting" /\ \E n \in m_thread_list[o] : n[1] = t}
           index == [t \in woken |-> FirstIndex(o, objects[t])]
<1>1. EndWaits(woken, "Success", index)
  BY DEF NotifyAvailable
<1>2. woken \in SUBSET Threads /\ "Success" \in Results
  BY DEF Results
<1>3. ASSUME NEW t \in woken
      PROVE  /\ state[t] = "Waiting" /\ WaitsOnObjects(t)
             /\ index[t] \in Nat /\ index[t] > 0 /\ index[t] \in DOMAIN objects[t]
             /\ objects[t][index[t]] = o
             /\ \A j \in DOMAIN objects[t] : j < index[t] => objects[t][j] # o
  <2>1. PICK n \in m_thread_list[o] : n[1] = t
    OBVIOUS
  <2>2. /\ WaitsOnObjects(t) /\ n[2] \in DOMAIN objects[t] /\ objects[t][n[2]] = o
        /\ objects[t] \in WaitLists
    BY <2>1 DEF SyncInv, SyncType, NodesOnLiveStacks
  <2>3. index[t] = FirstIndex(o, objects[t])
    OBVIOUS
  <2> HIDE DEF index, woken
  <2> QED
    BY <2>2, <2>3, FirstIndexFacts DEF WaitsOnObjects
<1> HIDE DEF index, woken
<1>4. OutcomeInv'
  <2>1. KeepsPlaces
    BY DEF KeepsPlaces, OutcomeInv, OutcomeType
  <2>2. EndsAs(woken, "Success", index)
    BY <1>3 DEF EndsAs
  <2> QED
    BY <1>1, <1>2, <2>1, <2>2, EndedOutcome
<1>5. ASSUME NEW t \in Threads, WaitsOnObjects(t), state'[t] = "Runnable" PROVE WakeOutcome(t)
  <2>1. t \in woken /\ m_synced_index'[t] = index[t]
    BY <1>1, <1>5 DEF EndWaits, WaitsOnObjects
  <2>2. \A j \in DOMAIN objects[t] : ~m_is_signaled[objects[t][j]] /\ objects[t][j] \in Objects
    BY <1>5, WaitListFacts DEF SyncInv, SyncType, NoLostWakeup, SignaledIndices
  <2>3. m_is_signaled'[o] /\ \A x \in Objects \ {o} : m_is_signaled'[x] = m_is_signaled[x]
    BY DEF SyncInv, SyncType
  <2> QED
    BY <1>3, <2>1, <2>2, <2>3 DEF WakeOutcome
<1> QED
  BY <1>4, <1>5 DEF WakeOutcome

\* A wait that is cancelled ends without an index, whatever cancels it.
LEMMA CancelOutcome ==
    ASSUME OutcomeInv, NEW t \in Threads, NEW result \in Results \ {"Success"},
           CancelWait(t, result), KeepsPlaces, UNCHANGED out
    PROVE  OutcomeInv' /\ \A u \in Threads : WakeOutcome(u)
<1> DEFINE woken == {t} \cap {u \in Threads : state[u] = "Waiting"}
<1>1. EndWaits(woken, result, m_synced_index)
  BY DEF CancelWait
<1>2. woken \in SUBSET Threads /\ \A u \in woken : state[u] = "Waiting"
  OBVIOUS
<1> HIDE DEF woken
<1>3. \A u \in woken : /\ m_synced_index[u] \in Nat
                       /\ WaitsOnObjects(u) => m_synced_index[u] = 0
  BY <1>2 DEF OutcomeInv, OutcomeType, ThreadOutcome
<1>4. OutcomeInv'
  <2>1. EndsAs(woken, result, m_synced_index)
    BY <1>2, <1>3 DEF EndsAs
  <2> QED
    BY <1>1, <1>2, <2>1, EndedOutcome
<1>5. ASSUME NEW u \in Threads PROVE WakeOutcome(u)
  BY <1>1 DEF EndWaits, WakeOutcome, WaitsOnObjects
<1> QED
  BY <1>4, <1>5

\* No wait ends in a step that leaves a waiting thread waiting.
LEMMA QuietWake ==
    ASSUME \A t \in Threads : state[t] = "Waiting" => state'[t] # "Runnable"
    PROVE  \A t \in Threads : WakeOutcome(t)
BY DEF WakeOutcome, WaitsOnObjects

LEMMA WaitImplOutcome ==
    ASSUME SyncInv, OutcomeInv, NEW t \in Threads, NEW objs \in WaitLists, NEW timeout,
           state[t] = "Runnable", WaitImpl(t, objs, timeout)
    PROVE  OutcomeInv' /\ \A u \in Threads : WakeOutcome(u)
<1>1. ASSUME NEW result \in Results, NEW i \in Nat, IndexFits(Returned(result, i)),
             ReturnEarly(t, result, i)
      PROVE  OutcomeInv' /\ \A u \in Threads : WakeOutcome(u)
  <2>1. /\ UNCHANGED <<m_wait_queue, m_synced_index, m_wait_result, state>>
        /\ pc' = [pc EXCEPT ![t] = "enter"]
        /\ out' = [out EXCEPT ![t] = Returned(result, i)]
    BY <1>1 DEF ReturnEarly, waitVars
  <2>2. OutcomeType'
    BY <2>1 DEF OutcomeInv, OutcomeType, Returned
  <2>3. \A u \in Threads : pc'[u] = pc[u] \/ (u = t /\ pc'[u] = "enter")
    BY <2>1 DEF OutcomeInv, OutcomeType
  <2>5. \A u \in Threads : out'[u] = out[u] \/ out'[u] = Returned(result, i)
    BY <2>1 DEF OutcomeInv, OutcomeType
  <2>4. IndexFits(Returned(result, i))
    BY <1>1
  <2> QED
    BY <2>1, <2>2, <2>3, <2>4, <2>5, QuietOutcome, QuietWake
<1>2. ASSUME BeginWait(t, objs, timeout)
      PROVE  OutcomeInv' /\ \A u \in Threads : WakeOutcome(u)
  <2>1. /\ m_synced_index' = [m_synced_index EXCEPT ![t] = 0]
        /\ m_wait_queue' = [m_wait_queue EXCEPT ![t] = "synchronization"]
        /\ state' = [state EXCEPT ![t] = "Waiting"]
        /\ pc' = [pc EXCEPT ![t] = "wait"]
        /\ UNCHANGED <<m_wait_result, out>>
    BY <1>2 DEF BeginWait
  <2>2. OutcomeType' /\ IndexFitsResult'
    BY <2>1 DEF OutcomeInv, OutcomeType, IndexFitsResult
  <2>3. ASSUME NEW u \in Threads PROVE ThreadOutcome(u)'
    <3>1. CASE u = t
      BY <2>1, <3>1 DEF SyncInv, SyncType, OutcomeInv, OutcomeType, ThreadOutcome, WaitsOnObjects
    <3>2. CASE u # t
      BY <2>1, <3>2 DEF SyncInv, SyncType, OutcomeInv, OutcomeType, ThreadOutcome, WaitsOnObjects
    <3> QED
      BY <3>1, <3>2
  <2>4. \A u \in Threads : state[u] = "Waiting" => state'[u] # "Runnable"
    BY <2>1 DEF SyncInv, SyncType
  <2> QED
    BY <2>2, <2>3, <2>4, QuietWake DEF OutcomeInv
<1>3. \A i \in SignaledIndices(objs) : i \in Nat /\ i > 0
  BY ConstantsAssumption DEF SignaledIndices
<1>4. /\ \A i \in Nat : i > 0 => IndexFits(Returned("Success", i))
      /\ \A result \in Results \ {"Success"} : IndexFits(Returned(result, Unwritten))
      /\ Unwritten \in Nat
  BY DEF IndexFits, Returned, Unwritten
<1> QED
  BY <1>1, <1>2, <1>3, <1>4 DEF WaitImpl, Results
-----------------------------------------------------------------------------
LEMMA InitOutcome == Init => OutcomeInv
<1> SUFFICES ASSUME Init PROVE OutcomeInv
  OBVIOUS
<1>1. OutcomeType
  BY DEF Init, OutcomeType, Results, Returned
<1>2. IndexFitsResult
  BY DEF Init, IndexFitsResult, IndexFits, Returned
<1>3. ASSUME NEW t \in Threads PROVE ThreadOutcome(t)
  BY DEF Init, ThreadOutcome, WaitsOnObjects
<1> QED
  BY <1>1, <1>2, <1>3 DEF OutcomeInv

LEMMA OutcomeStep == SyncInv /\ OutcomeInv /\ [Next]_vars => OutcomeInv' /\ \A u \in Threads : WakeOutcome(u)
<1> SUFFICES ASSUME SyncInv, OutcomeInv, [Next]_vars
             PROVE  OutcomeInv' /\ \A u \in Threads : WakeOutcome(u)
  OBVIOUS
<1> DEFINE Goal == OutcomeInv' /\ \A u \in Threads : WakeOutcome(u)
<1> SUFFICES Goal
  OBVIOUS
<1>1. ASSUME UNCHANGED pc PROVE KeepsPlaces
  BY <1>1 DEF KeepsPlaces, OutcomeInv, OutcomeType
<1>2. ASSUME NEW e \in Events, Signal(e) PROVE Goal
  BY <1>2, NotifyOutcome DEF Signal, Objects
<1>3. ASSUME NEW t \in Threads, FinishTermination(t) PROVE Goal
  BY <1>3, NotifyOutcome DEF FinishTermination, Objects
\* steps that neither begin nor end a wait
<1>4. ASSUME UNCHANGED <<m_wait_queue, m_synced_index, m_wait_result>>, OutcomeType',
             \A t \in Threads :
               /\ \/ state'[t] = state[t]
                  \/ state[t] # "Waiting" /\ state'[t] = "Terminated"
                  \/ state[t] = "Initialized" /\ state'[t] = "Runnable"
               /\ pc'[t] = pc[t] \/ (state'[t] \in {"Runnable", "Terminated"} /\ pc'[t] # "wait")
               /\ out'[t] = out[t] \/ IndexFits(out'[t])
      PROVE  Goal
  BY <1>4, QuietOutcome, QuietWake
<1> HIDE DEF Goal
<1>5. ASSUME NEW e \in Events, Reset(e) PROVE Goal
  BY <1>4, <1>5 DEF Reset, waitVars, OutcomeInv, OutcomeType
<1>6. ASSUME NEW t \in Threads, Wait(t) \/ Join(t) PROVE Goal
  BY <1>6, WaitImplOutcome DEF Wait, Join, SyncInv, SyncType, Goal
<1>7. ASSUME NEW t \in Threads, WaitReturns(t) PROVE Goal
  <2>1. /\ UNCHANGED <<m_wait_queue, m_synced_index, m_wait_result, state>>
        /\ pc' = [pc EXCEPT ![t] = "enter"] /\ state[t] = "Runnable"
        /\ out' = [out EXCEPT ![t] = Returned(m_wait_result[t], m_synced_index[t])]
    BY <1>7 DEF WaitReturns, waitVars
  <2>2. OutcomeType'
    BY <2>1 DEF OutcomeInv, OutcomeType, Returned
  <2>3. m_wait_result[t] = "Success" <=> m_synced_index[t] > 0
    BY <1>7 DEF WaitReturns, OutcomeInv, ThreadOutcome
  <2>6. IndexFits(Returned(m_wait_result[t], m_synced_index[t]))
    BY <2>3 DEF IndexFits, Returned, OutcomeInv, OutcomeType
  <2>4. \A u \in Threads : out'[u] = out[u] \/ IndexFits(out'[u])
    BY <2>1, <2>6 DEF OutcomeInv, OutcomeType
  <2>5. \A u \in Threads : pc'[u] = pc[u] \/ (state'[u] = "Runnable" /\ pc'[u] = "enter")
    BY <2>1 DEF OutcomeInv, OutcomeType
  <2> QED
    BY <1>4, <2>1, <2>2, <2>4, <2>5
<1>8. ASSUME NEW t \in Threads, SleepReturns(t) \/ Interrupt(t) PROVE Goal
  <2>1. /\ UNCHANGED <<m_wait_queue, m_synced_index, m_wait_result, state, out>>
        /\ pc' = [pc EXCEPT ![t] = "enter"] /\ state[t] = "Runnable"
    BY <1>8 DEF SleepReturns, Interrupt, waitVars
  <2>2. OutcomeType' /\ \A u \in Threads : pc'[u] = pc[u] \/ (state'[u] = "Runnable" /\ pc'[u] = "enter")
    BY <2>1 DEF OutcomeInv, OutcomeType
  <2> QED
    BY <1>4, <2>1, <2>2
<1>9. ASSUME NEW t \in Threads, Sleep(t) PROVE Goal
  <2>1. /\ state' = [state EXCEPT ![t] = "Waiting"] /\ state[t] = "Runnable"
        /\ m_wait_queue' = [m_wait_queue EXCEPT ![t] = "sleep"]
        /\ pc' = [pc EXCEPT ![t] = "sleep"]
        /\ UNCHANGED <<m_synced_index, m_wait_result, out>>
    BY <1>9 DEF Sleep
  <2>2. OutcomeType' /\ IndexFitsResult'
    BY <2>1 DEF OutcomeInv, OutcomeType, IndexFitsResult
  <2>3. ASSUME NEW u \in Threads PROVE ThreadOutcome(u)'
    <3>1. CASE u = t
      BY <2>1, <3>1 DEF SyncInv, SyncType, OutcomeInv, OutcomeType, ThreadOutcome, WaitsOnObjects
    <3>2. CASE u # t
      BY <2>1, <3>2 DEF SyncInv, SyncType, OutcomeInv, OutcomeType, ThreadOutcome, WaitsOnObjects
    <3> QED
      BY <3>1, <3>2
  <2>4. \A u \in Threads : state[u] = "Waiting" => state'[u] # "Runnable"
    BY <2>1 DEF SyncInv, SyncType
  <2> QED
    BY <2>2, <2>3, <2>4, QuietWake DEF OutcomeInv, Goal
<1>10. ASSUME NEW t \in Threads, WaitCancel(t) PROVE Goal
  <2>1. CASE state[t] = "Waiting" /\ m_cancellable[t]
    <3>1. CancelWait(t, "Cancelled") /\ UNCHANGED <<pc, out>> /\ "Cancelled" \in Results \ {"Success"}
      BY <1>10, <2>1 DEF WaitCancel, Results
    <3> QED
      BY <1>1, <3>1, CancelOutcome DEF Goal
  <2>2. CASE ~(state[t] = "Waiting" /\ m_cancellable[t])
    BY <1>4, <1>10, <2>2 DEF WaitCancel, waitVars, OutcomeInv, OutcomeType
  <2> QED
    BY <2>1, <2>2
<1>11. ASSUME NEW t \in Threads, OnTimer(t) PROVE Goal
  <2>1. CancelWait(t, "TimedOut") /\ UNCHANGED <<pc, out>> /\ "TimedOut" \in Results \ {"Success"}
    BY <1>11 DEF OnTimer, Results
  <2> QED
    BY <1>1, <2>1, CancelOutcome DEF Goal
<1>12. ASSUME NEW t \in Threads, Run(t) PROVE Goal
  <2>1. /\ state' = [state EXCEPT ![t] = "Runnable"] /\ state[t] = "Initialized"
        /\ UNCHANGED <<m_wait_queue, m_synced_index, m_wait_result, pc, out>>
    BY <1>12 DEF Run
  <2>2. OutcomeType' /\ \A u \in Threads : state'[u] = state[u] \/ (state[u] = "Initialized" /\ state'[u] = "Runnable")
    BY <2>1 DEF OutcomeInv, OutcomeType, SyncInv, SyncType
  <2> QED
    BY <1>4, <2>1, <2>2
<1>13. ASSUME NEW t \in Threads, state[t] = "Runnable", Exit(t) PROVE Goal
  <2>1. /\ state' = [state EXCEPT ![t] = "Terminated"]
        /\ pc' = [pc EXCEPT ![t] = "gone"]
        /\ UNCHANGED <<m_wait_queue, m_synced_index, m_wait_result, out>>
    BY <1>13 DEF Exit
  <2>2. /\ OutcomeType'
        /\ \A u \in Threads : state'[u] = state[u] \/ (state[u] # "Waiting" /\ state'[u] = "Terminated")
        /\ \A u \in Threads : pc'[u] = pc[u] \/ (state'[u] = "Terminated" /\ pc'[u] = "gone")
    BY <1>13, <2>1 DEF OutcomeInv, OutcomeType, SyncInv, SyncType
  <2> QED
    BY <1>4, <2>1, <2>2
<1>14. ASSUME NEW t \in Threads, RunThread(t) PROVE Goal
  <2>1. CASE Exit(t)
    BY <1>13, <1>14, <2>1 DEF RunThread
  <2>2. CASE ~Exit(t)
    <3>1. /\ UNCHANGED <<m_wait_queue, m_synced_index, m_wait_result, state>>
          /\ pc' = [pc EXCEPT ![t] = "user"] /\ state[t] = "Runnable"
          /\ out' = [out EXCEPT ![t] = Returned("none", 0)]
      BY <1>14, <2>2 DEF RunThread, waitVars
    <3>2. OutcomeType'
      BY <3>1 DEF OutcomeInv, OutcomeType, Returned, Results
    <3>5. IndexFits(Returned("none", 0))
      BY DEF IndexFits, Returned
    <3>3. \A u \in Threads : out'[u] = out[u] \/ IndexFits(out'[u])
      BY <3>1, <3>5 DEF OutcomeInv, OutcomeType
    <3>4. \A u \in Threads : pc'[u] = pc[u] \/ (state'[u] = "Runnable" /\ pc'[u] = "user")
      BY <3>1 DEF OutcomeInv, OutcomeType
    <3> QED
      BY <1>4, <3>1, <3>2, <3>3, <3>4
  <2> QED
    BY <2>1, <2>2
<1>15. ASSUME NEW t \in Threads, NEW target \in Threads, Terminate(t, target) PROVE Goal
  <2>1. /\ RequestTerminate(target) /\ state[t] = "Runnable" /\ t # target /\ UNCHANGED out
        /\ \E p \in {"enter", "join"} : pc' = [pc EXCEPT ![t] = p]
    BY <1>15 DEF Terminate
  <2>2. KeepsPlaces
    BY <2>1 DEF KeepsPlaces, OutcomeInv, OutcomeType
  <2>3. CASE state[target] # "Initialized" /\ ~m_termination_requested[target]
    <3>1. CancelWait(target, "TerminationRequested") /\ "TerminationRequested" \in Results \ {"Success"}
      BY <2>1, <2>3 DEF RequestTerminate, Results
    <3> QED
      BY <2>1, <2>2, <3>1, CancelOutcome DEF Goal
  <2>4. CASE state[target] = "Initialized" \/ m_termination_requested[target]
    <3>1. /\ UNCHANGED <<m_wait_queue, m_synced_index, m_wait_result>>
          /\ \/ UNCHANGED state
             \/ state[target] = "Initialized" /\ state' = [state EXCEPT ![target] = "Terminated"]
      BY <2>1, <2>4 DEF RequestTerminate, waitVars
    <3>2. OutcomeType'
      BY <2>1, <2>2, <3>1 DEF OutcomeInv, OutcomeType, KeepsPlaces
    <3>3. \A u \in Threads : state'[u] = state[u] \/ (state[u] = "Initialized" /\ state'[u] = "Terminated")
      BY <3>1 DEF SyncInv, SyncType
    <3> QED
      BY <1>4, <2>1, <2>2, <3>1, <3>2, <3>3 DEF KeepsPlaces
  <2> QED
    BY <2>3, <2>4
<1>16. CASE UNCHANGED vars
  BY <1>4, <1>16 DEF vars, waitVars, OutcomeInv, OutcomeType
<1>17. ASSUME NEW t \in Threads, ExitThread(t) PROVE Goal
  BY <1>13, <1>17 DEF ExitThread
<1> QED
  BY <1>2, <1>3, <1>5, <1>6, <1>7, <1>8, <1>9, <1>10, <1>11, <1>12, <1>14, <1>15, <1>16, <1>17 DEF Next

LEMMA OutcomeInvariant == Spec => [](SyncInv /\ OutcomeInv)
BY InitSyncInv, InitOutcome, SyncInvStep, OutcomeStep, PTL DEF Spec

\* The variables have their types: in particular the index of a wait that
\* succeeded is a position, although NotifyAvailable takes it from a search.
THEOREM TypeCorrect == Spec => []TypeOK
<1>1. SyncInv /\ OutcomeInv => TypeOK
  BY DEF SyncInv, SyncType, OutcomeInv, OutcomeType, TypeOK
<1> QED
  BY <1>1, OutcomeInvariant, PTL

\* The index a woken thread gets names a signaled object, the first of its
\* list, Wait() reports success only with an index, and a failure with none or
\* with the caller's own value, whatever signals, timeouts, cancellations and
\* termination requests raced.
THEOREM WaitsReportTheirOutcome == Spec => WaitOutcome
<1>1. SyncInv /\ OutcomeInv /\ [Next]_vars =>
        [\A t \in Threads :
           WaitsOnObjects(t) /\ state'[t] = "Runnable" /\ m_wait_result'[t] = "Success" =>
            /\ m_synced_index'[t] \in DOMAIN objects[t]
            /\ m_is_signaled'[objects[t][m_synced_index'[t]]]
            /\ \A j \in DOMAIN objects[t] : j < m_synced_index'[t] => ~m_is_signaled'[objects[t][j]]]_vars
  BY OutcomeStep DEF WakeOutcome
<1>2. SyncInv /\ OutcomeInv => IndexFitsResult
  BY DEF OutcomeInv
<1> QED
  BY <1>1, <1>2, OutcomeInvariant, PTL DEF Spec, WaitOutcome, WakeNamesSignaledObject
=============================================================================
