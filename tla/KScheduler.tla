----------------------------- MODULE KScheduler -----------------------------
(***************************************************************************)
(* The kernel's scheduler (k_scheduler.cpp, k_scheduler_lock.h): one       *)
(* priority queue and one scheduler lock for all cores, and on every core  *)
(* a switcher that runs without the lock.  Whoever releases the lock has   *)
(* chosen a thread for every core; the cores it chose anew are told with   *)
(* needs_scheduling and an interrupt, and switch by themselves.            *)
(*                                                                         *)
(* A critical section of the scheduler lock is one step, ending with the   *)
(* update that Unlock makes.  Everything a core does outside of it is one  *)
(* step per access to shared state: interrupts, needs_scheduling, the      *)
(* highest priority thread, context guards and m_current_thread.           *)
(***************************************************************************)
EXTENDS KPriorityQueue, FiniteSets

CONSTANTS Priorities,          \* priorities threads are given
          InitialPriority,     \* the priorities threads are created with
          PreemptionPriority,  \* preemption_priorities, per core
          OwnerProcess,        \* per thread, its process
          Maskable,            \* the threads whose core mask may be set
          Reprioritized,       \* the threads whose priority may be set
          Yielding,            \* the threads that yield
          Blocking             \* the threads that wait

ASSUME PrioritiesAssumption == Priorities \subseteq Nat /\ InitialPriority \in [Threads -> Priorities]
ASSUME PreemptionAssumption == PreemptionPriority \in [Cores -> Nat]
ASSUME SubsetsAssumption == Maskable \cup Reprioritized \cup Yielding \cup Blocking \subseteq Threads

HighestCoreMigrationAllowedPriority == 2

Idle == "idle"  \* a core's m_idle_thread
Host == NumCores  \* the timer's thread, which belongs to no core

ASSUME IdleAssumption == Idle \notin Threads \cup {NoThread}

VARIABLES
  sched,        \* what the lock protects: the priority queue's fields, and
                \*   highest[c]: highest_priority_thread of core c,
                \*   yielded: the threads whose yield count is their process's
                \*     scheduled count,
                \*   resched: cores_needing_scheduling, between update and unlock
  state,        \* state[t]: "Runnable" or "Waiting"
  needs,        \* the cores whose needs_scheduling is set
  interrupted,  \* the cores whose m_is_interrupted is set
  ipi,          \* ipi[a]: the cores that a still has to interrupt after its unlock
  pc,           \* pc[c]: where core c is
  current,      \* current[c]: m_current_thread of core c
  next,         \* next[c]: the thread the switcher of core c is switching to
  locked,       \* the threads whose context guard is held
  masking       \* masking[t]: the thread whose core mask t is setting

vars == <<sched, state, needs, interrupted, ipi, pc, current, next, locked, masking>>

Null == NoThread

\* Where the core's current thread owns its context.
Executing == {"run", "enable", "load"}

Init ==
  /\ sched \in [scheduled: {[c \in Cores |-> <<>>]}, suggested: {[c \in Cores |-> <<>>]},
                active_core: [Threads -> Cores], affinity: {[t \in Threads |-> Cores]},
                priority: {InitialPriority}, highest: {[c \in Cores |-> Null]},
                yielded: {{}}, resched: {{}}]
  /\ state = [t \in Threads |-> "Waiting"]
  /\ needs = {} /\ interrupted = {}
  /\ ipi = [a \in Cores \cup {Host} |-> {}]
  /\ pc = [c \in Cores |-> "run"]
  /\ current = [c \in Cores |-> Idle]
  /\ next = [c \in Cores |-> Idle]
  /\ locked = {}
  /\ masking = [t \in Threads |-> Null]

(***************************************************************************)
(* UpdateHighestPriorityThreads.                                           *)
(***************************************************************************)
\* The threads whose yield count is still right when the scheduled counts of the
\* processes of the threads ts have gone up
Uncounted(yielded, ts) ==
  {y \in yielded : \A t \in ts : OwnerProcess[y] # OwnerProcess[t]}

\* Mutant: the process's scheduled count is left alone.
CountNot(s, t) == s

\* IncrementScheduledCount
Count(s, t) == [s EXCEPT !.yielded = Uncounted(@, {t})]

UpdateHighestPriorityThread(s, c, t) ==
  IF s.highest[c] = t THEN s
  ELSE [s EXCEPT !.highest[c] = t, !.resched = @ \cup {c},
                 !.yielded = Uncounted(@, {s.highest[c]} \ {Null})]

TopThread(s, t) == IF s.active_core[t] = NoCore THEN Null ELSE s.highest[s.active_core[t]]

MayMigrateFrom(s, top) ==
  top = Null \/ s.priority[top] >= HighestCoreMigrationAllowedPriority

Migrate(s, t, c) == UpdateHighestPriorityThread(ChangeCore(s, t, c, FALSE), c, t)

\* Mutant: only threads that are not on top of another core are migrated.
MigrateToIdleCoreFirst(s, c) ==
  LET waiting == FirstOf(s.suggested[c], {x \in Threads : TopThread(s, x) # x})
  IN  IF waiting = Null \/ ~ MayMigrateFrom(s, TopThread(s, waiting)) THEN s
      ELSE Migrate(s, waiting, c)

\* An idle core takes the first suggestion that is not on top of its own core;
\* if all are, the first whose core has something else to run.
MigrateToIdleCore(s, c) ==
  LET waiting   == FirstOf(s.suggested[c], {x \in Threads : TopThread(s, x) # x})
      NextOn(x) == GetNext(s.scheduled[s.active_core[x]], x)
      candidate == FirstOf(s.suggested[c],
                           {x \in Threads : s.active_core[x] # NoCore /\ NextOn(x) # Null})
  IN  CASE waiting # Null ->
             IF MayMigrateFrom(s, TopThread(s, waiting)) THEN Migrate(s, waiting, c) ELSE s
        [] waiting = Null /\ candidate # Null ->
             Migrate(UpdateHighestPriorityThread(s, s.active_core[candidate], NextOn(candidate)),
                     candidate, c)
        [] OTHER -> s

\* The idle cores look for a thread in turn.
MigrateToIdleCores(s, idle) ==
  LET after[n \in 0 .. NumCores] ==
        IF n = 0 THEN s
        ELSE IF n - 1 \in idle THEN MigrateToIdleCore(after[n - 1], n - 1) ELSE after[n - 1]
  IN  after[NumCores]

\* Every core gets the front of its scheduled queue.
SetFronts(s) ==
  LET fronts == [c \in Cores |-> GetScheduledFront(s, c)]
      new    == {c \in Cores : s.highest[c] # fronts[c]}
  IN  [s EXCEPT !.highest = fronts, !.resched = @ \cup new,
                !.yielded = Uncounted(@, {s.highest[c] : c \in new} \ {Null})]

UpdateHighestPriorityThreads(s) ==
  MigrateToIdleCores(SetFronts(s), {c \in Cores : GetScheduledFront(s, c) = Null})

(***************************************************************************)
(* The scheduler lock.  A critical section leaves the state s behind;      *)
(* Unlock updates the cores and the unlocking core goes on to              *)
(* EnableScheduling, where it interrupts the others.                       *)
(***************************************************************************)
Unlock(a, s) ==
  /\ sched' = [s EXCEPT !.resched = {}]
  /\ needs' = needs \cup s.resched
  /\ ipi' = [ipi EXCEPT ![a] = s.resched \ {a}]
  /\ pc' = [c \in Cores |-> IF c = a THEN "enable" ELSE pc[c]]

Step(c, from, to) == pc[c] = from /\ pc' = [pc EXCEPT ![c] = to]

Running(c, t) == pc[c] = "run" /\ current[c] = t

\* The threads and the host are the ones to enter the kernel.
CanEnter(a) == IF a = Host THEN ipi[Host] = {}
                           ELSE pc[a] = "run" /\ current[a] # Idle /\ masking[current[a]] = Null

\* Interrupt, for the next of the cores.
RescheduleOtherCores(a) ==
  /\ a \in Cores => pc[a] = "enable"
  /\ ipi[a] # {}
  /\ LET c == Min(ipi[a])
     IN  /\ interrupted' = interrupted \cup {c}
         /\ ipi' = [ipi EXCEPT ![a] = @ \ {c}]
  /\ UNCHANGED <<sched, state, needs, pc, current, next, locked, masking>>

\* Mutant: only other cores are rescheduled.
RescheduleCurrentCoreNot(c) ==
  /\ ipi[c] = {} /\ Step(c, "enable", "run")
  /\ UNCHANGED <<sched, state, needs, interrupted, ipi, current, next, locked, masking>>

\* Goes on to ScheduleImpl if needed, which clears needs_scheduling first.
RescheduleCurrentCore(c) ==
  /\ ipi[c] = {}
  /\ \/ c \in needs /\ Step(c, "enable", "load")
     \/ c \notin needs /\ Step(c, "enable", "run")
  /\ needs' = needs \ {c}
  /\ UNCHANGED <<sched, state, interrupted, ipi, current, next, locked, masking>>

\* KInterruptManager::HandleInterrupt, when the guest or the idle thread sees it:
\* ClearInterrupt, RequestScheduleOnInterrupt and the start of ScheduleImpl.
HandleInterrupt(c) ==
  /\ c \in interrupted
  /\ Step(c, "run", "load")
  /\ interrupted' = interrupted \ {c}
  /\ needs' = needs \ {c}
  /\ UNCHANGED <<sched, state, ipi, current, next, locked, masking>>

(***************************************************************************)
(* ScheduleImpl and ScheduleImplFiber.  needs_scheduling is cleared by the *)
(* step before each load of the highest priority thread.  A guard is       *)
(* released with the load, and m_current_thread set with the acquisition,  *)
(* since nobody can tell them apart.                                       *)
(***************************************************************************)
\* Switch to the idle thread when there is no other.
Target(c) == IF sched.highest[c] = Null THEN Idle ELSE sched.highest[c]

\* The current thread's context is saved and its guard unlocked.
Unload(c) ==
  /\ sched.highest[c] # current[c]
  /\ Step(c, "load", "lock")
  /\ next' = [next EXCEPT ![c] = Target(c)]
  /\ locked' = locked \ {current[c]}
  /\ UNCHANGED <<sched, state, needs, interrupted, ipi, current, masking>>

ScheduleReturns(c) ==
  /\ sched.highest[c] = current[c]
  /\ Step(c, "load", "run")
  /\ UNCHANGED <<sched, state, needs, interrupted, ipi, current, next, locked, masking>>

\* Mutant: the switcher does not wait for the context.
SwitchThreadAnyway(c) ==
  /\ Step(c, "lock", "check")
  /\ locked' = locked \cup ({next[c]} \ {Idle})
  /\ current' = [current EXCEPT ![c] = next[c]]
  /\ UNCHANGED <<sched, state, needs, interrupted, ipi, next, masking>>

\* try_lock of the next thread's guard, and SwitchThread.
SwitchThread(c) ==
  /\ next[c] \notin locked
  /\ Step(c, "lock", "check")
  /\ locked' = locked \cup ({next[c]} \ {Idle})
  /\ current' = [current EXCEPT ![c] = next[c]]
  /\ UNCHANGED <<sched, state, needs, interrupted, ipi, next, masking>>

\* The guard is held: try again, or start over if the core was told to schedule.
LockFails(c) ==
  /\ next[c] \in locked /\ c \in needs
  /\ Step(c, "lock", "reload")
  /\ needs' = needs \ {c}
  /\ UNCHANGED <<sched, state, interrupted, ipi, current, next, locked, masking>>

FinishSwitch(c) ==
  /\ c \notin needs
  /\ Step(c, "check", "run")
  /\ next' = [next EXCEPT ![c] = Idle]  \* dead from here on
  /\ UNCHANGED <<sched, state, needs, interrupted, ipi, current, locked, masking>>

\* The switch failed: unlock the context again and start over.
SwitchFails(c) ==
  /\ c \in needs
  /\ Step(c, "check", "reload")
  /\ needs' = needs \ {c}
  /\ locked' = locked \ {next[c]}
  /\ UNCHANGED <<sched, state, interrupted, ipi, current, next, masking>>

\* Refresh the highest priority thread.
Reload(c) ==
  /\ Step(c, "reload", "lock")
  /\ next' = [next EXCEPT ![c] = Target(c)]
  /\ UNCHANGED <<sched, state, needs, interrupted, ipi, current, locked, masking>>

(***************************************************************************)
(* State, priority and core mask of a thread.                              *)
(***************************************************************************)
\* BeginWait of the current thread: OnThreadStateChanged.
BeginWait(c, t) ==
  /\ CanEnter(c) /\ current[c] = t
  /\ t \in Blocking /\ state[t] = "Runnable"
  /\ state' = [state EXCEPT ![t] = "Waiting"]
  /\ Unlock(c, UpdateHighestPriorityThreads(Count(RemoveMember(sched, t), t)))
  /\ UNCHANGED <<interrupted, current, next, locked, masking>>

\* EndWait or Run, by another thread or by the timer.
Wakeup(a, t) ==
  /\ state[t] = "Waiting" /\ CanEnter(a)
  /\ state' = [state EXCEPT ![t] = "Runnable"]
  /\ Unlock(a, UpdateHighestPriorityThreads(Count(PushBack(sched, t), t)))
  /\ UNCHANGED <<interrupted, current, next, locked, masking>>

\* SetBasePriority: OnThreadPriorityChanged.
SetPriority(c, t, p) ==
  /\ CanEnter(c) /\ t \in Reprioritized /\ sched.priority[t] # p
  /\ Unlock(c, IF state[t] = "Runnable"
               THEN UpdateHighestPriorityThreads(
                      Count(ChangePriority(sched, t, p, t = current[c]), t))
               ELSE [sched EXCEPT !.priority[t] = p])
  /\ UNCHANGED <<state, interrupted, current, next, locked, masking>>

\* The first critical section of SetCoreMask.  The new active core is the ideal
\* core or the last one of the mask.  The thread's m_activity_pause_lock, a light
\* lock, keeps other callers out until it returns.
SetCoreMask(c, t, mask, ideal) ==
  /\ CanEnter(c) /\ t \in Maskable
  /\ \A u \in Threads : masking[u] # t
  /\ LET prev == sched.active_core[t]
         core == IF prev = NoCore \/ prev \in mask THEN prev ELSE ideal
     IN  Unlock(c, CASE mask = sched.affinity[t] -> sched
                     [] mask # sched.affinity[t] /\ state[t] = "Runnable" ->
                          UpdateHighestPriorityThreads(
                            Count(ChangeAffinityMask(sched, t, mask, core), t))
                     [] OTHER -> [sched EXCEPT !.affinity[t] = mask, !.active_core[t] = core])
  /\ masking' = [masking EXCEPT ![current[c]] = t]
  /\ UNCHANGED <<state, interrupted, current, next, locked>>

\* The second: try again while the target is current on a core that its mask
\* excludes.  The first core found is the one that counts.
CoreMaskIsSet(c, t) ==
  /\ Running(c, t) /\ masking[t] # Null
  /\ LET on    == {x \in Cores : current[x] = masking[t]}
         retry == on # {} /\ Min(on) \notin sched.affinity[masking[t]]
     IN  masking' = IF retry THEN masking ELSE [masking EXCEPT ![t] = Null]
  /\ Unlock(c, sched)
  /\ UNCHANGED <<state, interrupted, current, next, locked>>

(***************************************************************************)
(* Yields and preemption.  The comparisons of last scheduled ticks are     *)
(* open: recent is the set of threads scheduled later than the next one.   *)
(***************************************************************************)
FrontOnItsCore(s, x) == GetScheduledFront(s, s.active_core[x])

MigrateToFront(s, x, c) == IF x = Null THEN s ELSE Count(ChangeCore(s, x, c, TRUE), x)

\* A yielding thread, unless its yield count says that nothing has changed.
CanYield(c, t) == CanEnter(c) /\ current[c] = t /\ t \in Yielding \ sched.yielded

\* A critical section that ends without an update if the yield gained nothing.
Yield(c, t, s, needed, recheck) ==
  /\ Unlock(c, CASE needed -> UpdateHighestPriorityThreads(s)
                 [] ~ needed /\ recheck -> s
                 [] OTHER -> [s EXCEPT !.yielded = @ \cup {t}])
  /\ UNCHANGED <<state, interrupted, current, next, locked, masking>>

YieldWithoutCoreMigration(c, t) ==
  /\ CanYield(c, t)
  /\ LET moved == Count(MoveToScheduledBack(sched, t), t)
     IN  Yield(c, t, moved, FrontOfPriority(moved, t) # t, FALSE)

YieldWithCoreMigration(c, t) ==
  /\ CanYield(c, t)
  /\ \E recent \in SUBSET Range(sched.suggested[sched.active_core[t]]) :
     LET core  == sched.active_core[t]
         moved == Count(MoveToScheduledBack(sched, t), t)
         front == FrontOfPriority(moved, t)
         Prefers(x) == \/ sched.priority[x] > sched.priority[t]
                       \/ sched.priority[x] = sched.priority[t] /\ front # t /\ x \in recent
         Waits(x) == TopThread(moved, x) # x
         Stops(x) == Waits(x) /\ (Prefers(x) \/ MayMigrateFrom(moved, TopThread(moved, x)))
         stop     == FirstOf(moved.suggested[core], {x \in Threads : Stops(x)})
         suggested == IF stop = Null \/ Prefers(stop) THEN Null ELSE stop
         recheck  == \E i \in 1 .. Len(moved.suggested[core]) :
                       /\ Waits(moved.suggested[core][i])
                       /\ \A j \in 1 .. i : ~ Stops(moved.suggested[core][j])
     IN  Yield(c, t, MigrateToFront(moved, suggested, core), suggested # Null \/ front # t, recheck)

YieldToAnyThread(c, t) ==
  /\ CanYield(c, t)
  /\ LET core  == sched.active_core[t]
         moved == Count(ChangeCore(sched, t, NoCore, FALSE), t)
         suggested == FirstOf(moved.suggested[core], {x \in Threads : FrontOnItsCore(moved, x) # x})
         migrated  == IF suggested = Null \/ ~ MayMigrateFrom(moved, FrontOnItsCore(moved, suggested))
                      THEN moved ELSE Count(ChangeCore(moved, suggested, core, FALSE), suggested)
     IN  IF moved.scheduled[core] = <<>> THEN Yield(c, t, migrated, suggested # t, FALSE)
                                         ELSE Yield(c, t, moved, TRUE, FALSE)

RotateScheduledQueue(s, c, p, recent) ==
  LET top    == GetFrontAt(s.scheduled[c], s.priority, p)
      moved  == IF top = Null THEN s ELSE MoveToScheduledBack(s, top)
      front  == GetFrontAt(moved.scheduled[c], s.priority, p)
      rotated == IF front = top THEN moved ELSE Count(Count(moved, top), front)
      \* a suggestion of the same priority
      Waits(r, x)    == FrontOnItsCore(r, x) # x
      MayLeave(r, x) == MayMigrateFrom(r, FrontOnItsCore(r, x))
      Prefers(x) == front # top /\ x \in recent
      same    == FirstOf(rotated.suggested[c],
                         {x \in Threads : /\ s.priority[x] = p /\ Waits(rotated, x)
                                          /\ Prefers(x) \/ MayLeave(rotated, x)})
      joined  == IF same = Null \/ Prefers(same) THEN rotated ELSE MigrateToFront(rotated, same, c)
      \* a suggestion of a higher priority than the best thread here
      best    == GetScheduledFront(joined, c)
      higher  == FirstOf(joined.suggested[c],
                         {x \in Threads : \/ s.priority[x] >= s.priority[best]
                                          \/ Waits(joined, x) /\ MayLeave(joined, x)})
  IN  IF best = Null \/ s.priority[best] < p \/ higher = Null \/ s.priority[higher] >= s.priority[best]
      THEN joined ELSE MigrateToFront(joined, higher, c)

RotateAllQueues(s, recent) ==
  LET after[n \in 0 .. NumCores] ==
        IF n = 0 THEN s
        ELSE RotateScheduledQueue(after[n - 1], n - 1, PreemptionPriority[n - 1], recent)
  IN  after[NumCores]

\* GlobalSchedulerContext::PreemptThreads, every 10 ms from the timer's thread.
PreemptThreads ==
  /\ CanEnter(Host)
  /\ \E recent \in SUBSET {x \in Threads :
                             \E c \in Cores : /\ sched.priority[x] = PreemptionPriority[c]
                                              /\ Contains(sched.suggested[c], x)} :
       Unlock(Host, UpdateHighestPriorityThreads(RotateAllQueues(sched, recent)))
  /\ UNCHANGED <<state, interrupted, current, next, locked, masking>>

(***************************************************************************)
(* The specification.                                                      *)
(***************************************************************************)
Switcher(c) ==
  \/ RescheduleCurrentCore(c) \/ HandleInterrupt(c) \/ ScheduleReturns(c) \/ Unload(c)
  \/ SwitchThread(c) \/ LockFails(c) \/ FinishSwitch(c) \/ SwitchFails(c) \/ Reload(c)

ThreadStep(c) ==
  /\ CanEnter(c)
  /\ \/ \E t \in Blocking : BeginWait(c, t)
     \/ \E t \in Yielding :
          YieldWithoutCoreMigration(c, t) \/ YieldWithCoreMigration(c, t) \/ YieldToAnyThread(c, t)
     \/ \E t \in Reprioritized, p \in Priorities : SetPriority(c, t, p)
     \/ \E t \in Maskable, mask \in SUBSET Cores \ {{}} :
          \E ideal \in mask : SetCoreMask(c, t, mask, ideal)

Next ==
  \/ \E c \in Cores : Switcher(c) \/ ThreadStep(c)
  \/ \E c \in Cores, t \in Threads : CoreMaskIsSet(c, t)
  \/ \E a \in Cores \cup {Host} : RescheduleOtherCores(a)
  \/ \E a \in Cores \cup {Host}, t \in Threads : Wakeup(a, t)
  \/ PreemptThreads

Spec == Init /\ [][Next]_vars

(***************************************************************************)
(* Properties.                                                             *)
(***************************************************************************)
TypeOK ==
  /\ state \in [Threads -> {"Runnable", "Waiting"}]
  /\ needs \subseteq Cores /\ interrupted \subseteq Cores
  /\ ipi \in [Cores \cup {Host} -> SUBSET Cores]
  /\ pc \in [Cores -> Executing \cup {"lock", "check", "reload"}]
  /\ current \in [Cores -> Threads \cup {Idle}]
  /\ next \in [Cores -> Threads \cup {Idle}]
  /\ locked \subseteq Threads
  /\ masking \in [Threads -> Threads \cup {Null}]

\* The contexts that core c owns.
Owned(c) == (CASE pc[c] \in Executing -> {current[c]}
               [] pc[c] = "check"     -> {next[c]}
               [] OTHER               -> {}) \ {Idle}

\* A thread's context guard is held exactly while one core executes it or is about
\* to, and no two cores own the same thread, although a core goes on executing a
\* thread for a while after the lock's holder has given the thread to another core.
OneOwnerPerContext ==
  /\ TypeOK
  /\ locked = UNION {Owned(c) : c \in Cores}
  /\ \A c, e \in Cores : c # e => Owned(c) \cap Owned(e) = {}

\* The queues hold every runnable thread, once on its active core and as a
\* suggestion for the others of its mask, in the order of priorities, and every
\* core's highest priority thread is the front of its queue.
QueuesAgree ==
  \A c \in Cores :
    /\ sched.highest[c] = GetScheduledFront(sched, c)
    /\ \A t \in Threads :
         /\ Contains(sched.scheduled[c], t) <=> state[t] = "Runnable" /\ sched.active_core[t] = c
         /\ Contains(sched.suggested[c], t) <=>
              state[t] = "Runnable" /\ c \in sched.affinity[t] /\ sched.active_core[t] # c
         /\ sched.active_core[t] \in sched.affinity[t] \cup {NoCore}
    /\ \A q \in {sched.scheduled[c], sched.suggested[c]} :
         \A i, j \in 1 .. Len(q) : i < j => /\ q[i] # q[j]
                                            /\ sched.priority[q[i]] <= sched.priority[q[j]]

\* "Idle cores are bad": no core is left without a thread while one that may run
\* on it waits for another core.
NoIdleCoreWithWork ==
  \A c \in Cores : sched.highest[c] = Null =>
    \A t \in Threads : state[t] = "Runnable" /\ c \in sched.affinity[t] =>
      TopThread(sched, t) = t /\ Len(sched.scheduled[sched.active_core[t]]) = 1

\* When SetCoreMask has returned, the thread executes on no core that its mask
\* excludes.
MaskTakesEffect ==
  \A c \in Cores, t \in Threads :
    /\ Running(c, t)
    /\ \A u \in Threads : masking[u] # t
    => c \in sched.affinity[t]

\* A yield that returns early because of the yield count would have found no
\* other thread of the same process and priority on the core: whatever brings one
\* there, or takes the yielding thread to it, counts for the process.  (Threads of
\* other processes come and go unnoticed.)
SkippedYieldLosesNothing ==
  \A t \in sched.yielded : state[t] = "Runnable" =>
    \A u \in Threads \ {t} :
      ~ /\ Contains(sched.scheduled[sched.active_core[t]], u)
        /\ sched.priority[u] = sched.priority[t]
        /\ OwnerProcess[u] = OwnerProcess[t]

\* A core that executes another thread than the one chosen for it has been, or is
\* about to be, interrupted: no choice made by another core is missed.
ChoiceIsNotMissed ==
  \A c \in Cores : pc[c] = "run" /\ current[c] # Target(c) =>
    c \in interrupted \/ \E a \in Cores \cup {Host} : c \in ipi[a]
=============================================================================
