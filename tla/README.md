# torzu: TLA+ models of the kernel's synchronization core

torzu is a Switch emulator (a fork of yuzu). Its high-level kernel
(`src/src/core/hle/kernel`) reimplements the Horizon kernel on top of host
threads: guest threads, a scheduler, locks, waits, timers and IPC. That kernel, the
event queue that drives it (`src/src/core/core_timing.cpp`), the loop that serves
its IPC sessions (`server_manager.cpp`) and the device that connects it with the
GPU's threads (`nvhost_ctrl.cpp`) are what this project models. It is the code
every other part of the emulator rests on, and the code in which errors are hardest
to provoke with a test.

| module | code | subject |
|---|---|---|
| `KLightLock` | `k_light_lock.cpp/.h`, suspension and termination in `k_thread.cpp` | a lock word shared by compare-exchange, and a slow path under the scheduler lock |
| `KLightLockProofs` | | mutual exclusion, no stranded waiter, only a resume stops an owner, suspensions are made up for, for any number of threads and locks |
| `KSynchronization` | `k_synchronization_object.cpp`, `k_readable_event.cpp`, `k_thread_queue.cpp`, wait/terminate/exit in `k_thread.cpp`, `physical_core.cpp` | waiting on several objects; signals, timeouts, cancellation and termination race to end a wait |
| `KSynchronizationProofs` | | no lost wakeup, a wait leaves nothing behind, termination is never blocked, a wait reports how it ended |
| `Clock` | `GetGlobalTimeNs` in `core_timing.cpp` | the time that `KHardwareTimer` and `CoreTiming` read |
| `TimerTasks` | abstract | what a timer promises |
| `KHardwareTimer` | `k_hardware_timer.cpp/.h`, `k_hardware_timer_base.h` | a tree of tasks turned into one host event; implements `TimerTasks` |
| `CoreTiming` | `core_timing.cpp/.h` | the timer thread, schedulers, unschedulers, pause and shutdown |
| `TimingProofs` (of both) | | the interrupt covers the earliest task; the timer implements the safety part of `TimerTasks`; an unscheduled event stays quiet, a paused timer runs nothing, a controller waits for no sleeping thread |
| `KConditionVariable` | `k_condition_variable.cpp`, lock ownership and priority inheritance in `k_thread.cpp` | guest mutexes and condition variables |
| `KConditionVariableProofs` | | tags, places of waiters, the has-waiter word, priority inheritance |
| `KPriorityQueue` | `k_priority_queue.h` | the queues of scheduled and suggested threads, as operators on a record |
| `KScheduler` (extends it) | `k_scheduler.cpp`, `k_scheduler_lock.h`, `k_interrupt_manager.cpp`, core masks in `k_thread.cpp` | choosing threads for all cores under the lock, switching without it |
| `KSchedulerProofs` | | one owner per context, the queues, no missed choice, no lost yield, no idle core, for any number of threads and cores |
| `KSession` | `k_session.cpp`, `k_client_session.cpp`, `k_server_session.cpp`, `k_session_request.h` | an IPC session: requests, replies, cancelled calls, closing of either side |
| `ServerManager` (extends it) | `server_manager.cpp`, `multi_wait.cpp`, `sm.cpp` | the threads that serve the session: selection, deferral, shutdown |
| `ServerManagerProofs` (of both) | | requests are accounted for, nobody is forgotten, the assertions hold, no signal is missed, for any clients, threads and requests |
| `SyncpointManager` | `syncpoint_manager.cpp/.h` | a counter with actions to run when it reaches a value |
| `NvHostCtrl` (extends it) | `nvhost_ctrl.cpp/.h`, `suspend_guard` in `core.cpp` | the events guests wait on for the GPU |
| `NvHostCtrlProofs` | | no stranded action, registered waits are served, for both modules |
| `KResourceLimit` | `k_resource_limit.cpp`, `k_light_condition_variable.cpp` | reservations that wait for releases announced before |
| `KResourceLimitProofs` | | the counters are sums of reservations, no release is missed, until a lock wait is cancelled |

The `MC*` modules give the constants of each model their values for TLC.

`PROJECT.json` maps each definition to the lines it models, lists the runs, the
mutants (a deliberately broken variant of one definition for each checked
property), the hazards, the findings and the theorems. Operators whose comment
begins with "Mutant:" are those variants; no specification uses them.

## 1. Inventory

### Components of the core

**Light lock** (`KLightLock`). State: an atomic word `m_tag`, the owner's pointer
with a low bit "somebody waits". Operations: `Lock` and `Unlock` (compare-exchange,
no lock), `LockSlowPath` and `UnlockSlowPath` (under the scheduler lock). It calls
`KThread::AddWaiter`, `RemoveWaiterByKey`, `BeginWait`, `EndWait`, `Continue` and
`TrySuspend`. Every mutable structure of the kernel is under one. Hard: the tag is
read before the scheduler lock is taken; the owner may be suspended, or the waiter
be terminated, at any moment. Correct when: holders exclude each other, no waiter is
left behind, an owner with waiters runs, a suspension that was put off happens later.

**Synchronization objects** (`KSynchronizationObject`, `KReadableEvent`, and
`KThread` as an object). State: `m_is_signaled`, a list of nodes that live on the
stacks of the waiting threads. Operations: `Wait`, `NotifyAvailable`, `Signal`,
`Clear`, `Reset`. Interactions: the wait queue's `NotifyAvailable`, `EndWait` and
`CancelWait` callbacks, the hardware timer, `WaitCancel`, `RequestTerminate`. Hard:
four parties race to end a wait. Correct when: nobody sleeps on a signaled object;
nodes and timer tasks end with their wait; the index returned is that of a signaled
object; a cancellation ends one wait.

**Threads** (`KThread`). State: thread state with suspend flags, wait queue, wait
result, base and inherited priority, lock-info list, termination flag. Operations:
begin, end and cancel a wait; suspend and resume; request and await termination;
exit; finalize; set priority. It takes part in nearly every component; the models
include the part each of them needs.

**Physical core loop** (`PhysicalCore::RunThread`): enters guest code, notices the
terminating DPC, is interrupted by `RequestTerminate`.

**Hardware timer** (`KHardwareTimer`). State: task tree, `m_next_task`,
`m_wakeup_time`. Operations: register, cancel, `DoTask`. It schedules one CoreTiming
event. Hard: CoreTiming pops that event before `DoTask` takes the timer's lock.
Correct when: it implements `TimerTasks`.

**Core timing** (`CoreTiming`). State: an ordered queue of events, `event` and
`pause_event`, the flags `paused`, `paused_set`, `wait_set`, `shutting_down`,
`pause_end_time`. Operations: schedule, unschedule (with and without waiting),
`Advance`, the thread's loop, `SyncPause`, `ClearPendingEvents`, `Reset`. Hard: the
flags are shared without a lock. Correct when: an unscheduled event stays quiet, a
paused timer runs nothing, due events run, and whoever pauses or shuts down never waits
for a timer thread that sleeps.

**Condition variables and guest mutexes** (`KConditionVariable`). State: mutex words
and has-waiter words in guest memory, the condition variable tree, lock infos and
inherited priorities. Operations: `SignalToAddress`, `WaitForAddress`, `Wait`,
`Signal`, `SignalImpl`, timer expiry, termination, priority change, finalization.
Correct when: the mutex word names the one holder, waiters are marked, a waiter is in
one place, priorities are inherited along chains, the has-waiter word covers the tree.

**Scheduler** (`KPriorityQueue`, `KScheduler`). State: one priority queue with a
scheduled and a suggested queue per core; per core the highest priority thread,
`needs_scheduling`, the interrupt flag, `m_current_thread`; per thread a context
guard, affinity, active core, yield count. Operations: the update at every release of
the scheduler lock, the interrupts it sends, `ScheduleImpl` and its switching loop,
waits and wake-ups, priorities, core masks, three kinds of yield, preemption. Hard: the
choice is made under the lock by any core, the switch happens later without it. Correct
when: no thread is executed by two cores, no choice is missed, no core idles while a
thread could run on it, a core mask has taken effect when the call returns, a yield that
is skipped had nothing to do.

**IPC sessions** (`KSession`, `KClientSession`, `KServerSession`, `KSessionRequest`).
State: the session's state (normal, client closed, server closed), the request list, the
current request, references and the client thread of every request. Operations: send
(synchronous or with an event), receive, reply, close of the client, destruction of the
server. Hard: closing tests and sets the state in two steps outside every lock, and calls
may be cancelled by termination at any time. Correct when: every request is answered once
and freed, and nobody is forgotten.

**Server manager** (`ServerManager`). State: the multi-wait, the list of holders to be
linked, deferred sessions, the wakeup and deferral events. Operations: select, process,
complete or defer a request, destroy a session, stop. Hard: one thread waits while others
put holders back. Correct when: no signal is missed, calls return, shutting down ends.

**Syncpoints and nvhost_ctrl** (`SyncpointManager`, `nvhost_ctrl`). State: a counter, the
ordered actions, per event an atomic status, a kernel event and the handle of its action.
Operations: increment (by GPU threads), register and deregister an action, wait; the
ioctls to register, unregister, wait for and clear an event. Hard: counter and status are
accessed without a common lock, and the wait of an event that failed stalls the whole
application under `suspend_guard`. Correct when: no reached action is left, who waits is
signalled, ioctls return.

**Resource limits** (`KResourceLimit`, with `KLightConditionVariable`). State: limit,
current value, hint, peak, count of waiters. Operations: reserve with a timeout, release,
hint, set the limit. Correct when: the counts agree with what is held, a release is not
missed, reserving returns.

### Components left out

Address arbiter, handle table, display buffer queue and kernel memory management are
smaller or sequential and come after what is modelled (section 7). GPU emulation and
renderers, shader recompiler, audio, input, CPU backends, file system, loaders and
crypto, frontends and the HLE services themselves transform data, wrap external
libraries or parse formats: their correctness is about program semantics, signals,
formats or drivers, which a finite-state model does not reach. They are also most of the
repository's lines. The room networking is a protocol, but over ENet and of little
weight in the program. Each has its entry in `PROJECT.json`.

## 2. How the models correspond to the code

**Atomicity.** Code under the scheduler lock, a spin lock or `basic_lock` is one
action. Every access to shared state outside a lock (the compare-exchanges of `m_tag`,
the guest's accesses to a mutex word, the flags and events of CoreTiming) is an action
of its own. In all modules but `KScheduler` the scheduler lock is thus atomicity and any
runnable thread may run. A light lock that is held across other steps (`m_lock` of the
session and of the resource limit, `m_selection_mutex`, the syncpoints' `guard`) is a
variable with its holder.

**KLightLock.** `m_tag` is a record of owner and bit. `pc` is the place in
`Lock`/`Unlock`: `cas` before the compare-exchange, `slow` before the scheduler lock of
`LockSlowPath`, `wait` after `BeginWait`, `unlock_slow`. `LockSlowPath` has its two
outcomes (the tag has moved on and the loop retries; the thread waits and continues a
suspended owner). `UnlockSlowPath` hands over to the next waiter or frees the lock, and
ends with the suspension that was put off. A spurious failure of
`compare_exchange_weak` is the same as a reload. Waiters of one lock may be chosen in
any order: their priorities are not told apart here. Nested locks are taken in
ascending order, which is the callers' discipline. `cancelled` is a history variable,
the threads whose lock wait `RequestTerminate` cancelled: because of the first
disagreement of section 6, nothing can be said of the locks after that, so exclusion,
stranding and release are stated for behaviours before it; `HolderOwnsTag` is the
property without the condition, which does not hold. `stopped`, another history
variable, holds the owners with kernel waiters that a `Resume` stopped (the second
disagreement): `OnlyResumeStopsOwners` says that nothing else stops one, and
`WaitersReleased` excepts the behaviours in which it happened. `Suspensions` are the pairs of
thread and suspend type that may be requested.

**KSynchronization.** A node is a pair of thread and index. `Wait` is the whole of
`KSynchronizationObject::Wait` with its early returns in the code's order:
termination requested, an object already signaled, zero timeout, cancellation pending.
The early failures return without writing `*out_index`; the caller finds what it put there
(`Unwritten`, 0 in the system call's wrapper), and `WaitOutcome` says so.
`NotifyAvailable` wakes every thread in the list and unlinks all the nodes of each.
`WaitImpl` is shared by the system call and by `Terminate`, which waits for its target.
`RequestTerminate` covers a thread that was never started, one that waits, and one that
runs. The hardware timer is the set of threads with a task; a timer may expire at any
time after it is set. The events are those with manual reset that the kernel uses.

**TimerTasks / KHardwareTimer.** The tree is a sequence in time order, with later
registrations after earlier ones of the same time; `m_next_task` is kept by hand as in
the code. `PopEvent` is CoreTiming's removal of the due event, `DoTask` the callback,
with anything allowed between. The refinement mapping (`Abstract`, an `INSTANCE ... WITH`)
keeps the clock and the tasks' times and forgets tree, next task and event.
`TimerTasks` has a `SafeSpec` without fairness, which is what the proofs show to be
implemented. `Finalize` is not modelled; what its race with a running `DoTask` does to
CoreTiming is in section 6.

**CoreTiming.** The heap is a sequence in (time, fifo_order) order. `Advance` is split
where it gives up `basic_lock` to run a callback. `SyncPause` and `Reset` are split at
every store, and the timer thread's loop at every load, wait and store, from the first
instruction of the thread on. Two controllers call `SyncPause`: one at a time under
`suspend_guard` (`Run`, `Pause`, `StallApplication`, `UnstallApplication`), and
`ShutdownMainProcess` (`core.cpp:408`), which does not take it. Anybody may schedule a type
at any time, its own callback included while `UnscheduleEvent` waits for it. An owner that
drops its type after that leaves an event behind whose `weak_ptr` has expired (`expired`);
`Advance` does not pop it and spins with both locks (`core_timing.cpp:219`), which is a
place of the thread, `spinning`. `disturbed`, a history variable, says that the shutdown has
begun or that the first resume was stored before the thread had come to its first pause.
Assumption: a client keeps at most one event of a type in the queue, so the type stands for
the heap handle. Where Advance's loop continues without refreshing `global_timer`, the model
takes the present time: the loop then stops at most one round later, with the same
events run. The model is of multi-core mode. Left out: the Windows branch of the sleep,
the unsynchronized `Pause` (called by tests only), `AddTicks`, `wait_set` and
`HasPendingEvents`, which alone reads it.

**KConditionVariable.** The tag is again a record. `GuestLock`, `GuestTryLock` and
`GuestUnlock` are the guest library's compare-and-swaps: they are not in this
repository and are marked external, modelled from what the kernel's code expects of
them. Guests are well-behaved: a condition variable goes with one mutex, mutexes are
taken in ascending order, a thread waits with the mutex it locked last. `Wait` returning
early on a pending termination changes nothing and is a stutter. `Signal` takes one or
all waiters in priority order. `AddWaiter`, `RemoveWaiter`, `RemoveWaiterByKey` and
`RestorePriority` are translated with their conditions, so that the recomputation of
priorities that the code skips is skipped in the model too. The loops of `Signal` and
`RestorePriority` are recursive functions of the number of rounds made; the second is
cut off after as many rounds as there are threads, and it is proved (section 5) that it
has stopped by then. A termination request raises a base priority to
`TerminatingThreadPriority`, a constant, if it is below it. A null lock owner
(finding 1) ends the program and so ends the behaviour.

**KPriorityQueue / KScheduler.** A core's queues of all priorities are one sequence in
priority order. The loops over the cores (migration to idle cores, rotation at a
preemption) are recursive functions of the core. A critical section of the scheduler lock, with the update that `Unlock`
makes, is one action; what follows (an interrupt to each chosen core, then the core's own
rescheduling) and everything the switching loop does is one action per access to shared
state. `pc` is the core's place in it: `run` (guest or kernel code of the current
thread), `enable` (`EnableScheduling`), `load`, `lock`, `check` and `reload` (the loop of
`ScheduleImplFiber`). The release of a guard is merged with the load before it and the
store of `m_current_thread` with the acquisition, since no other core can see the
difference. Threads enter the kernel from `run`; the timer's host thread (`Host`) belongs
to no core. Scheduled counts are per process (`OwnerProcess`); of a count only matters
whether a thread's yield count equals it, so the counts reduce to the set of threads whose
count is the present one of their process, and `Count` takes out those of one process.
The comparisons of last scheduled ticks are left
open. Left out: pinned threads, the interrupt task (never set runnable in the
repository), dummy threads, termination, single-core mode.

**KSession / ServerManager.** One session. Client threads send, wait, return and may be
terminated; `closer` is whoever drops the last reference to the client session,
`destroyer` whoever destroys the server session, each split at the tests and stores of
`m_state`, at `m_lock` and at each critical section. A request's record holds its thread,
whether it has an event, and its references; a freed request is used again. The server
threads are the manager's: `pc` follows `WaitSignaled`, `OnSessionEvent`,
`CompleteSyncRequest` and `OnDeferralEvent`. Three deployments are checked in one run: a
service with two threads; a service with one thread, two clients and a client that is
terminated with a synchronous and an asynchronous request behind it; and sm, one thread,
whose handler defers until the service is registered. A handler may also close its
session. Left out: ports, message contents and mappings, guests as servers, failures of
the handler (`R_ASSERT` ends the program).

**SyncpointManager / NvHostCtrl.** One host syncpoint and its actions; a handle is the
address of a list node, and a freed address is used again, as an allocator would. The
ioctls run one at a time (the service has one thread) and are split where they access the
counter or an event's status, each round of `FindFreeNvEvent` included; the action that `IocCtrlEventWait` registers runs on the
incrementing thread or, if the value is reached, in place, with or without `guard`.
Failures beyond the third count alike. The wait of an event that failed too often takes
`suspend_guard` in `StallApplication` and keeps it until the value has come, and competes
for it with the frontend's `Run` and `Pause`, of which there are at most `MaxControls`. What
happens under that guard is not modelled again: `SyncPause` is the subject of `CoreTiming`
(section 6 has a case in which it does not return), and the loop of `SuspendEmulation`
(`kernel.cpp:1213`) is taken to end. The use of a null `KEvent`, by an action whose event was
cleared and unregistered (line 203) or by clearing an event that is not registered (line
292), ends the program: `fault`. `asked`, a history variable, marks an event whose wait was
registered while it was `Waiting` and was neither signalled nor cleared since. Left out: batch unregistration, which repeats
unregistration; guest syncpoints, whose increments nothing in the model waits for; the
wrap-around of the counter.

**KResourceLimit.** One resource. `m_lock` is taken and released as in the code, inside
`KLightConditionVariable::Wait` too; the timeout is a flag that may be set at any time
during a call that has one (`forever` is a negative timeout). `MaxS64` bounds the sums, so
that the test for zero and for overflow (`k_resource_limit.cpp:107`) has its cases. `hint`
announces a release (`Release(0, v)`), as `KThread::Exit` does for its thread count.
`RequestTerminate` cancels a wait in the condition variable, and it may cancel a wait for
`m_lock`: the thread is then `let_in`, goes on without owning the lock, and its `Unlock`
frees it under whoever has it. From then on (`cancelled`) steps that the model takes as
one are no longer exclusive in the code, and all three properties stop claiming anything.

## 3. Runs

Passing runs:

| run | instance | distinct states | properties |
|---|---|---|---|
| `light_lock` | 3 threads, 1 lock, one thread terminable, 2 suspend types, fairness | 111,064 | `MutualExclusion`, `NoStrandedWaiter`, `OnlyResumeStopsOwners`, `SuspensionNotForgotten`, `WaitersReleased` |
| `synchronization` | 2 threads, 1 event, lists `<<a>>`, `<<b>>`, `<<a,e,a>>`, fairness | 192,664 | `NoLostWakeup`, `WaitLeavesNothing`, `TerminationUnblocks`, `WaitOutcome`, `TerminationCompletes`, `TerminateReturns` |
| `hardware_timer` | 3 tasks, clock to 4, fairness | 4,505 | `InterruptCoversNextTask`, `ImplementsTimerTasks` |
| `core_timing` | one type, plain or looping, two controllers, clock to 1, fairness | 728,916 | `UnscheduledStaysQuiet`, `PausedMeansQuiet`, `DueEventsRun`, `NobodyWaitsForASleeper` |
| `condition_variable` | 3 threads, 2 mutexes, 2 priorities, one thread terminable and adjustable | 824,376 | `TagNamesOwner`, `WaitsInOnePlace`, `PriorityIsInherited`, `FlagCoversWaiters` |
| `scheduler` | 2 cores, 3 threads of 2 processes, 2 priorities; one thread waits, yields and is given priorities, one is given masks | 1,894,240 | `OneOwnerPerContext`, `QueuesAgree`, `NoIdleCoreWithWork`, `SkippedYieldLosesNothing`, `ChoiceIsNotMissed` |
| `server_manager` | 2 clients, 2 server threads, 2 requests, three deployments, fairness | 129,972 | `RequestsAreAccounted`, `NobodyIsForgotten`, `AssertionsHold`, `NoMissedSignal`, `CallsReturn`, `ShutdownCompletes` |
| `nvhost_ctrl` | 2 GPU threads, 1 event, 3 increments, 1 call of the frontend, fairness | 826,840 | `NoStrandedAction`, `WaitersAreServed`, `IoctlReturns` |
| `resource_limit` | 3 threads, one mortal, values 1 and 2, limits 2 and 3, sums up to 4, fairness | 423,176 | `CountsAgree`, `NoMissedRelease`, `ReserveReturns` |

Runs that end in a violation, each showing a finding (section 6):
`condition_variable_finalize`, `scheduler_mask`, `nvhost_free`.

Why the bounds are enough for the cases the properties are about:

- *Light locks*: three threads are an owner, a waiter that is handed the lock and
  another that contends with it for the word. One thread has two suspend types, so that a
  `Resume` can leave the other. The safety properties are proved for any number of
  threads, locks and types.
- *Synchronization*: two threads can wait on each other, terminate each other and share
  an event; the list `<<a,e,a>>` names an object twice and has one that can be signaled
  before it and after it. The safety properties are proved for any lists.
- *Hardware timer*: three tasks give a head, a tie and a task behind; four ticks give
  times before, at and after the present, and a second interrupt. Safety is proved for
  any tasks and any clock.
- *Core timing*: one event that is scheduled plain or looping, and a clock of one tick: an
  event is either due or not, and a looping event comes round. Pauses and resumes are not
  bounded; one call of `ScheduleEvent` at a time has its `event.Set()` ahead of it. Safety
  is proved for any types, callers and clock.
- *Condition variables*: three threads and two mutexes are the shortest chain along
  which a priority travels through a thread that is neither the first nor the last.
  The priorities are 1 and 3 and that of terminating threads 2, so that a termination
  raises some threads and not others; thread c's priority may change, and c may time
  out, be terminated, exit and be finalized. The four properties are proved for any
  threads, mutexes and priorities.
- *Scheduler*: a thread moves between two cores while both switch, and a third thread
  waits in the queue of either. Threads a and b are of one process, d of another, so that
  a's yields are skipped or not whatever d does to the queues; a waits, yields and changes
  its priority, d is given masks, and all of them run and are woken. The preemption
  priority is 3 on core 0 and that of no thread on the other, so both branches of the
  rotation are taken. The five properties are proved for any threads and cores, one of them
  under a hypothesis (section 5). `MaskTakesEffect` is only in `scheduler_mask`, with three
  cores: that is how many a stale `m_current_thread` needs to hide the core that executes.
- *IPC*: two requests are one in service and one in the list, or one in service whose
  caller is gone and its successor. Two server threads are one that waits and one that
  processes. The four invariants are proved for any clients, threads, requests and
  deployments; the inductive invariant of that proof was also checked with a server of two
  threads that defers (369,126 states).
- *Syncpoints*: one event is waited for, cleared, waited for again and freed; three
  increments are one before a registration, one between its reads and one after; two GPU
  threads overtake each other between the counter and the lock. Three cleared waits reach
  the failing branch. With one event `FindFreeNvEvent` makes one round; two events are
  beyond TLC here, and its further rounds are covered by the proofs, which are of the two
  invariants for any number of events and threads.
- *Resource limit*: a holder, a waiter and another that takes what was released; a
  reservation of two does not fit where one of one does, and three and two exceed the
  largest sum. The two invariants are proved for any threads, values and limits.

`condition_variable` does not check for deadlock: threads that wait for a mutex whose
holder has exited without unlocking it do wait for ever, which is the guest's affair,
and a null owner ends the program. `server_manager` and `core_timing` do not either: after
shutdown nothing is left to do (and a spinning `Advance` never ends); nor does
`nvhost_ctrl`, where a fault ends the program. Every other passing run checks for deadlock and finds none.

## 4. Fairness

Only for what the code or the host obliges itself to, and weak throughout:

- `KLightLock`: a thread inside `Lock`, `Unlock` or a critical section, not suspended,
  goes on. Nobody has to call `Lock`, resume a thread or stop suspending it.
- `KSynchronization`: runnable threads run, a set timer expires, the exit worker runs
  its queue, an interrupt that was sent arrives. Nobody has to signal, cancel, exit or
  terminate.
- `KHardwareTimer`: CoreTiming pops a due event (that it does is `DueEventsRun`) and the
  callback gets its locks.
- `CoreTiming`: the timer thread runs, callbacks return, calls in progress go on. Nobody
  has to schedule, pause or shut down. That a controller is answered is stated as an
  invariant, since it is not always (section 6).
- `ServerManager`: threads in a call, in a closing and in the manager go on, the
  destructor goes on once it has begun. Nobody has to call, close, terminate, register a
  service or shut down, and no strong fairness of the locks is needed.
- `NvHostCtrl`: the GPU executes what was submitted to it, a begun ioctl goes on, and the
  frontend does not keep `suspend_guard`; a fence names submitted work, so its value is reached.
- `KResourceLimit`: threads run and time passes (weak). Of `m_lock` nothing is assumed but
  that a thread takes it if it stays free: the light lock goes to the waiter of the highest
  priority, so `ReserveReturns` is stated under the condition that the other threads do not
  take `m_lock` again and again. It is of calls with a timeout. A terminating
  reserver with a negative one would spin with `m_lock` held, which is an exception that the
  property names (no caller passes one). What is reserved need never be released.

`KConditionVariable` states no liveness: it depends on guest code. Neither does
`KScheduler`: a thread of a lower priority may starve by design, and the two spins of the
code (on a context guard and in `SetCoreMask`) end only if the host schedules the cores'
threads fairly in a strong sense that nothing in the code provides. `ChoiceIsNotMissed`
is the safety property that progress would rest on.

## 5. Proofs

The theorems are for arbitrary sets of threads, locks, cores, objects, tasks, events and
wait lists, from the named assumptions of the modules. These say that the null values are
not members of the sets, that addresses, priorities and times are numbers, that wait lists
are sequences of objects, that there is a core and a mutex; sets of threads are finite
where a count of them matters (`KConditionVariable`, `KResourceLimit`); the names that the
holders of a session's `m_lock` have in the model are different (`LockAssumption`). Every proof has the
same outline: an inductive invariant, one lemma for each action (or for what several
actions have in common), and the property as a consequence. What follows is why the
invariant is more than the property.

**KLightLockProofs.** `MutualExclusion` is not inductive. A thread that was handed the
lock in `UnlockSlowPath` owns it although it has not returned from `Lock` yet, so
exclusion between threads that have returned says too little. `LockInv` adds

- `OwnerInv`: the tag names t exactly when t owns the lock, where owning is being inside
  or being runnable at the end of a wait; a waiter waits for the thread the tag names
  and the low bit is set;
- `TagInv`: a tag without an owner is zero, and what a slow path has read has an owner;
- `WaitInv`: a thread waits exactly when it has a lock owner, and only in the slow path.

The delicate cases are `WaitForOwner` (the tag is compared again under the scheduler
lock, so the owner is the present one) and `HandOver` (all waiters of the key move with
the lock, so their owner remains the one the tag names). `OwnersKeepRunning` proves
`OnlyResumeStopsOwners` for any suspend types: it needs that the
flags in a thread's state were asked for (`FlagsInv`), so that an owner that
`LockSlowPath` or a hand-over does not find suspended needs no continuing. `SuspensionsAreMadeUpFor` adds `PutOffInv`: a
suspend request that is not yet in a thread's state was put off because others wait for
that thread, so it still has to go through `UnlockSlowPath`, which makes up for it.

**KSynchronizationProofs.** A signal reaches the threads in the object's list, so
`NoLostWakeup` needs that the list holds them all (`NodesOnLiveStacks`), and both need
`QueueInv`: a thread is in a queue exactly while it waits and cancellable exactly while
it waits on objects. `SyncInv` is their conjunction with the timer, cancellation and
termination invariants. The argument is organised by what a step does to waits
(`EndWaitsFacts`, `NotifyKeeps`, `CancelKeeps`, `BeginWaitKeeps`, `QuietKeeps`), and each
action is one of these. `WaitsReportTheirOutcome` proves the action property
`WaitOutcome`; it adds `OutcomeInv` (a thread that waits has no index yet, and once it is
over the result is success exactly if an index was written). That the search for the first
signaled object returns a position rests on every non-empty set of numbers having a least
member, which the library's well-foundedness theorem gives; with it `TypeOK` is proved.

**TimingProofs.** *The timer.* Cancelling the last task leaves the interrupt on, and a task
registered then may rely on it, so `ArmedInv` speaks of the interrupt whether or not there
is a task: if it is on, its event is queued or has been popped and `DoTask` is to come.
`TreeInv` says that the tree lists the registered tasks by time and `m_next_task` is its
first. `TimerRefinesTasks` maps each step to one of `TimerTasks` or to none: the delicate
one is `DoTask`, which must run every task that is due and no other.

*CoreTiming.* `UnscheduledStaysQuiet` needs that an event stays out of the queue
from the moment it is erased, while its callback may still be running (`QuietInv`), and
that the queue has one entry of a type, so that erasing one leaves none. `Advance` puts a
looping event back only if its sequence number is still the one it read. `PausedMeansQuiet`
rests on a handshake (`Handshake`): outside `SyncPause` `paused_set` agrees with `paused`, and the timer
thread is never between reading `paused` and answering with an answer that is out of date.
It holds from the first instruction of the thread, up to the two exceptions `disturbed`
records (section 6). `ControllersAreAnswered` needs, for every place of the two
controllers and of the thread, which of the two events is still set or will be (`WakeInv`,
`ResetInv`): whoever stored the
last `paused` sets both after it, and the thread that consumes one reads `paused` again
before it waits for the same one once more.

**KConditionVariableProofs.** That the tag names the holder is not inductive, because a
hand-over writes the name of a thread that does not know yet. `Owned` says what a tag that
names a thread means at each place of that thread, `Granted` that the kernel gave it its
mutex, `Placed` where a thread is by its state. From these a thread in the condition
variable's tree never finds itself in the tag that `Signal` looks at, which keeps it from
becoming a waiter of itself. The loop of `Signal` is a recursive function; that it exists,
and what holds after each round (`Rounds`), is shown for the least number of rounds for
which it would fail.

`PrioritiesAreInherited` is about chains of owners of any length. `RightBut(X, ...)` says
that every thread outside X has the priority its waiters give it. A round of
`RestorePriority` moves the one exception from a thread to its owner (`RestoreRoundRight`),
and the loop may stop when the priority stays as it is, for then there is no exception
left. That it stops in time needs that it meets no thread twice: `RankInv` says that a
thread that locks or waits holds only mutexes smaller than that one, which is where the
guests' order of locking enters, so the keys rise along a chain (`Rising`) and the threads
already met are all smaller. `AddRight` and `RemoveRight` show that the conditions under
which `AddWaiter`, `RemoveWaiter` and `RemoveWaiterByKey` skip the recomputation are the
right ones; in a hand-over the next owner gains the waiters left, and keeps its priority
because it was the first of them.

**KSchedulerProofs.** What a queue holds is stated as a set (`Ordered`: the sequence lists
the members of a set, each once, by priority), so that each operation of the priority
queue is a change of one thread's state, core, mask or priority (`QueueInv`), and a
critical section is a composition of them. `Good` adds the yield counts and that the
chosen threads are the fronts (`Fronts`); `Chosen` says which cores the update at the end
of a section has chosen anew. `ChoiceIsNotMissed` needs, for each core, that its choice is
the present one or that it has been told or will be (`Told`), through every place of the
switching loop; `OneOwnerPerContext` needs who holds each guard at those places
(`OwnerInv`). `NoCoreIsLeftIdle` is under `AllMigratable`: the code takes no thread from
a core whose first thread has priority 0 or 1, so an idle core may stay idle while one
waits there. For all other priorities `Busy` and `Singles` follow the loop over the idle
cores, which takes a suggested thread only from a core that keeps one.

**ServerManagerProofs.** The session and its manager have one invariant, in two halves; the
session's half needs the manager's only where a thread starts the destruction of the
session, which nobody else may have begun.

`SessionInv`: whoever is in a critical section holds `m_lock` (`LockInv`), so at most one of
the servers, the closer and the destroyer has a request in hand, and a request is in the
list, current, or in one hand (`PlaceInv`). From that its references are one for that
place and one for the call (`CallInv`, with indicator functions; that the cardinalities of
`RequestsAreAccounted` are these is `References`). `OwnInv` is the correspondence of waits
and requests, which a step that moves a request keeps (`Move`), one that gives it up
changes for its own client only (`Release`) and one that concerns another client does not touch
(`Bystander`). `CloserInv` says that the client session is destroyed after every call has
returned, and that the only request in the session without a thread is the one the closer
has seen: so its assertion holds, and a reply to such a request finds the session closed.

`ManagerInv`: the session's holder is a token (`TokenInv`), linked in one of the two lists,
deferred, with one thread or with the destroyer; so what a thread saw when it selected
the session is still true when it receives or replies (`ReadyInv`), whatever the clients do,
for they only add requests or close. `SelectInv` ties the list a thread is blocked on to
the list that is linked, through `m_selection_mutex`. `SignalInv` is `NoMissedSignal` with
what makes it inductive: a holder in the deferred list has the wakeup event signaled, or a
thread between linking and signaling, or one about to link. The order of the two steps in
`LinkToDeferredList` and of `Clear` and `LinkDeferred` in `WaitSignaled` is what it rests on.
Nothing is assumed of how many threads a server with deferral has: the code's restriction
to one is not needed for safety.

**NvHostCtrlProofs.** For `NoStrandedAction`: while an action whose value is reached is in the
list, a thread whose increment reached it has yet to go through the list (`ReachedInv`). For
`WaitersAreServed`: the action that a GPU thread runs is the first of the list and that
thread holds `guard` (`RunInv`); an event that is `Waiting` again while its last action
still runs has an ioctl that is not beyond `guard` (`WaitInv`), so a late store falls before
the registration and never takes `Waiting` from a wait that was registered with it; a
handle about to be deregistered names no action of another event, although addresses are
used again (`EraseInv`). `AskInv` puts these together for a wait from its registration to its
signal: the `KEvent` is there, since what is `Waiting` is not freed, and so is the action or
the thread that has exchanged `Waiting` for `Signalling`.

**KResourceLimitProofs.** `LockInv` says who is inside `m_lock`, which makes what a
reserver compared still true when it begins to wait; `MissingInv` says what a waiting
reserver lacks and `CountedInv` that it is counted. `CountInv` takes the sum of the
reservations as the cardinality of a set of units (`Cells`: thread and number) that does
not depend on the peak, which `SetLimitValue` lowers. All of it is under `Exclusive`, that
no wait for `m_lock` was cancelled and nobody is let in (`ExclusiveStep`).

**Only model-checked.**

- All liveness, which is beyond the prover, and so the fairness of `TimerTasks` in
  `ImplementsTimerTasks`.

## 6. Findings

1. **Finalize cancels a wait without an owner** (`condition_variable_finalize`). After a
   hand-over nothing keeps the new owner alive for its waiters; when it exits with the
   mutex and is finalized, `CancelWait` dereferences a null lock owner.
2. **SetCoreMask returns too early** (`scheduler_mask`). A core stores `m_current_thread`
   before it knows that its switch succeeds. `SetCoreMask` takes the first core whose
   current thread is its target for the one that executes it; with a stale one in front it
   returns although the thread still runs on a core that the mask excludes.
3. **A late action hides the next wait** (`nvhost_free`). Clearing an event does not wait
   for an action that is already signalling; its last store, `Signalled`, may overwrite the
   `Waiting` of the next wait before that wait has registered its action. The event then
   counts as unused, is freed although its action is registered, against `FreeNvEvent`'s
   assertion, and is not signaled when its value comes.

Further disagreements met while modelling; where a property names one as its exception, TLC
shows it once the exception is dropped:

- *A cancelled light-lock wait returns as if locked.* `RequestTerminate` cancels any wait;
  `LockSlowPath` (`k_light_lock.cpp:82`) does not look at how the wait ended and `Lock`
  returns to a thread the tag does not name. Callers assert `IsLockedByCurrentThread()`.
  Add the invariant `HolderOwnsTag` to `MCKLightLock.cfg`.
- *Resume suspends an owner with kernel waiters.* `TrySuspend` asserts that there are none;
  `Resume` with a second suspend type pending ends in `UpdateState` (`k_thread.cpp:769`),
  which does not ask. The waiters then wait until that one is resumed too: it is the
  exception of `OnlyResumeStopsOwners` and of `WaitersReleased`.
- *SyncPause takes an old answer for a new one.* If the timer thread has not come to its
  first pause when `SyncPause(false)` is called, a following `SyncPause(true)` returns while
  callbacks still start (`core_timing.cpp:101`), against "waits until paused"
  (`core_timing.h:84`). It is an exception of `PausedMeansQuiet`.
- *A SyncPause that is overtaken spins for ever.* `ShutdownMainProcess` calls
  `SyncPause(false)` without `suspend_guard` (`core.cpp:408`). If it and a
  `SyncPause(true)` under the guard store `paused` one after the other, the first spins on
  an answer that the timer thread no longer gives (`core_timing.cpp:101`). It is the
  exception `Expecting` makes in `NobodyWaitsForASleeper`.
- *An event whose type is gone stops the timer thread.* `Advance` pops an event only if its
  `weak_ptr` is alive (`core_timing.cpp:219`). `KHardwareTimer::Finalize` unschedules its
  event and drops the type; a `DoTask` that runs meanwhile may schedule it again in
  between, and `Advance` then spins with both locks. `DueEventsRun` excepts it.
- *pause_end_time is stored too late* (`core_timing.cpp:85`): the timer thread is let go
  first, so a looping event that was due during a pause may continue from the end of an
  earlier one.
- *SetLimitValue wakes nobody* (`k_resource_limit.cpp:81`): a reserver that would fit under
  a raised limit waits on until a release or its timeout. `NoMissedRelease` therefore
  speaks of the limit a reserver saw.
- *A release is missed after a cancelled lock wait*: the first item, seen from
  `KResourceLimit`. A thread that is terminated while blocked on `m_lock` in `Release` goes
  on between another's comparison and its wait. Without `~cancelled`, TLC finds
  `NoMissedRelease` violated.
- *A null `KEvent`* (`nvhost_ctrl.cpp:203` and `:292`): clearing an event that is not
  registered uses its null `KEvent`, and so does an action that exchanged `Waiting` before
  its event was cleared and unregistered.
- *A wait that is never signalled* (`nvhost_ctrl.cpp:187`): the other consequence of finding
  3, the exception that `WaitersAreServed` names.

## 7. Plan

What is left, the most important first:

1. *Object lifetime*: `KAutoObject` reference counts and `KHandleTable`, closing and
   duplicating handles from several threads; with it the thread that `OnClientClosed` drops
   while a handler works for it.
2. *`BufferQueue`* (slot states, dequeue waiting, disconnect) and *`KAddressArbiter`*.
3. *Pure algorithms*: `KPageHeap` and `KMemoryBlockManager` against a reference
   definition over small address spaces, in modules of their own (they are recursive).

## 8. Checking

In this directory, one line for each configuration and for each module of proofs:

    tlc -workers 2 -config MCKLightLock.cfg MCKLightLock
    tlapm KLightLockProofs.tla
    tlapm KSynchronizationProofs.tla
    tlapm TimingProofs.tla
    tlapm KConditionVariableProofs.tla
    tlapm KSchedulerProofs.tla
    tlapm ServerManagerProofs.tla
    tlapm NvHostCtrlProofs.tla
    tlapm KResourceLimitProofs.tla

The longest runs (`scheduler`, `resource_limit`) take about three minutes with two workers, the longest
proofs (`KSchedulerProofs`) about eight, `ServerManagerProofs` about five.
