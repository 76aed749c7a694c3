----------------------------- MODULE CoreTiming -----------------------------
(***************************************************************************)
(* CoreTiming (core_timing.cpp): a queue of timed events that one host     *)
(* thread works off (ThreadLoop, Advance), while other threads schedule    *)
(* and unschedule events and the system pauses, resumes and at last ends   *)
(* that thread.                                                            *)
(*                                                                         *)
(* Advance holds advance_lock throughout and basic_lock except while a     *)
(* callback runs, so it is atomic from one callback to the next.  The      *)
(* flags and the two Common::Events are shared without a lock: every       *)
(* access to them is an action of its own.  The queue is a sequence        *)
(* in (time, fifo_order) order.  A client keeps at most one event of a     *)
(* type in the queue, so the type stands for the heap handle, and it drops *)
(* a type, if ever, when UnscheduleEvent(Wait) has returned.               *)
(*                                                                         *)
(* Two threads may be in SyncPause at a time: one under System's           *)
(* suspend_guard (Run, Pause, StallApplication, UnstallApplication), and   *)
(* ShutdownMainProcess, which does not take it.                            *)
(* wait_set, which only HasPendingEvents reads, is left out.               *)
(***************************************************************************)
EXTENDS Clock, Sequences, FiniteSets, SequencesExt

CONSTANTS
    Types,          \* the event types
    Delays,         \* how far into the future events are scheduled
    Intervals,      \* reschedule times of looping events, and what callbacks return
    MaxCallers,     \* bound on the calls of ScheduleEvent at a time
    NoType

ASSUME TimingAssumption ==
    /\ NoType \notin Types
    /\ MaxTime \in Nat /\ MaxCallers \in Nat
    /\ Delays \subseteq Nat /\ Intervals \subseteq Nat \ {0}

VARIABLES
    event_queue,
    running,            \* the type whose callback runs, or NoType
    sequence_changed,   \* its sequence_number is not what Advance read
    pc,                 \* where the timer thread is in ThreadLoop()
    next_time,          \* what Advance returned
    event, pause_event, \* is_set of the two
    paused, paused_set, shutting_down,
    pause_end_time,
    control,            \* where each controller is in SyncPause() or Reset()
    is_paused,          \* the argument of the guarded controller's SyncPause()
    disturbed,          \* history: shutting down, or resumed before the thread's first pause
    notifying,          \* how many calls of ScheduleEvent() have event.Set() ahead of them
    unscheduling,       \* types in UnscheduleEvent(Wait) before the second lock
    unscheduled,        \* history: types it has erased, not scheduled since
    expired             \* types that are gone: their weak_ptr in the queue is null

queueVars == <<event_queue, running, sequence_changed>>
flagVars == <<event, pause_event, paused, paused_set, shutting_down>>
controlVars == <<control, is_paused, disturbed, pause_end_time>>
clientVars == <<notifying, unscheduling, unscheduled, expired>>
timingVars == <<now, queueVars, pc, next_time, flagVars, controlVars, clientVars>>

\* The two that may control the timer thread at a time
Controllers == {"guarded", "shutdown"}
SyncPausing == {"check", "set", "pause_set", "end_time", "pause_set_again", "event_set", "spin"}
Resetting == {"reset", "reset_pause_set", "reset_event_set", "join", "done"}

Event == [time : Nat, type : Types, reschedule_time : Nat]

TimingTypeOK ==
    /\ now \in 0..MaxTime
    /\ event_queue \in Seq(Event)
    /\ \A i, j \in DOMAIN event_queue : i < j =>
            /\ event_queue[i].time <= event_queue[j].time
            /\ event_queue[i].type # event_queue[j].type
    /\ running \in Types \cup {NoType}
    /\ pc \in {"outer", "inner", "resumed", "advance", "callback", "wait_for", "wait",
               "pausing", "pause_wait", "exited", "spinning"}
    /\ (pc = "callback") = (running # NoType)
    /\ next_time \in Nat
    /\ {sequence_changed, event, pause_event, paused, paused_set, shutting_down,
        is_paused, disturbed} \subseteq BOOLEAN
    /\ pause_end_time \in 0..MaxTime
    /\ control \in [Controllers -> SyncPausing \cup {"idle", "closing", "closed"} \cup Resetting]
    /\ notifying \in 0..MaxCallers
    /\ {unscheduling, unscheduled, expired} \subseteq SUBSET Types

\* After Initialize(): its Reset() has set paused and both events, and the
\* new thread is about to begin.
TimingInit ==
    /\ now = 0
    /\ event_queue = <<>> /\ running = NoType /\ sequence_changed = FALSE
    /\ pc = "outer" /\ next_time = 0
    /\ event = TRUE /\ pause_event = TRUE
    /\ paused = TRUE /\ paused_set = FALSE
    /\ shutting_down = FALSE
    /\ pause_end_time = 0 /\ disturbed = FALSE
    /\ control = [c \in Controllers |-> "idle"] /\ is_paused = TRUE
    /\ notifying = 0 /\ unscheduling = {} /\ unscheduled = {} /\ expired = {}

TimingTick ==
    /\ ClockTicks
    /\ UNCHANGED <<queueVars, pc, next_time, flagVars, controlVars, clientVars>>

-----------------------------------------------------------------------------
(* Scheduling and unscheduling, from any thread and from callbacks          *)

\* emplace: in front of the first event that is later.
Emplace(q, e) ==
    LET later == {i \in DOMAIN q : q[i].time > e.time}
    IN  InsertAt(q, Min(later \cup {Len(q) + 1}), e)

QueuedIn(q, type) == \E i \in DOMAIN q : q[i].type = type

\* erase, by their handles, the events of this type: there is at most one.
Erase(q, type) ==
    IF QueuedIn(q, type) THEN RemoveAt(q, CHOOSE i \in DOMAIN q : q[i].type = type) ELSE q

Queued(type) == QueuedIn(event_queue, type)

\* While Reset runs only callbacks are left to call in.
CallersLeft == control["shutdown"] \notin Resetting \/ pc = "callback"

\* Advance lets go of basic_lock for a callback, of advance_lock when it returns.
BasicLockFree == pc # "spinning"
AdvanceLockFree == pc \notin {"callback", "spinning"}

\* ScheduleEvent and ScheduleLoopingEvent, up to the release of basic_lock.  A
\* callback may schedule its own type, also while somebody unschedules it.
ScheduleEvent(type, delay) ==
    /\ BasicLockFree /\ CallersLeft
    /\ ~Queued(type) /\ type \notin expired
    /\ notifying < MaxCallers
    /\ \E interval \in Intervals \cup {0} :
        event_queue' = Emplace(event_queue, [time |-> now + delay, type |-> type,
                                             reschedule_time |-> interval])
    /\ notifying' = notifying + 1
    /\ unscheduled' = unscheduled \ {type}
    /\ UNCHANGED <<now, running, sequence_changed, pc, next_time, flagVars, controlVars,
                   unscheduling, expired>>

\* Mutant: the timer thread is not told.
NotifyNobody ==
    /\ notifying > 0
    /\ notifying' = notifying - 1
    /\ UNCHANGED <<now, queueVars, pc, next_time, flagVars, controlVars, unscheduling,
                   unscheduled, expired>>

\* The event.Set() that ends them.
NotifyTimerThread ==
    /\ notifying > 0
    /\ notifying' = notifying - 1
    /\ event' = TRUE
    /\ UNCHANGED <<now, queueVars, pc, next_time, pause_event, paused, paused_set, shutting_down,
                   controlVars, unscheduling, unscheduled, expired>>

\* UnscheduleEvent: erase, count sequence_number up; with Wait go on to take
\* advance_lock.  Only the owner of a type waits, so one call at a time does.
UnscheduleEvent(type, wait) ==
    /\ BasicLockFree /\ CallersLeft
    /\ type \notin expired /\ (wait => type \notin unscheduling)
    /\ event_queue' = Erase(event_queue, type)
    /\ sequence_changed' = (sequence_changed \/ type = running)
    /\ unscheduling' = IF wait THEN unscheduling \cup {type} ELSE unscheduling
    /\ unscheduled' = IF wait THEN unscheduled \cup {type} ELSE unscheduled
    /\ UNCHANGED <<now, running, pc, next_time, flagVars, controlVars, notifying, expired>>

\* It returns when advance_lock was free; the owner may drop the type now.
UnscheduleReturns(type, drop) ==
    /\ type \in unscheduling
    /\ AdvanceLockFree
    /\ unscheduling' = unscheduling \ {type}
    /\ expired' = IF drop THEN expired \cup {type} ELSE expired
    /\ UNCHANGED <<now, queueVars, pc, next_time, flagVars, controlVars, notifying, unscheduled>>

\* ClearPendingEvents, in ShutdownMainProcess: both locks are held to the end.
\* The services, which stall the application, have been closed before.
ClearPendingEvents ==
    /\ control = [guarded |-> "idle", shutdown |-> "closing"]
    /\ control' = [control EXCEPT !["shutdown"] = "closed"]
    /\ AdvanceLockFree
    /\ event_queue' = <<>>
    /\ event' = TRUE
    /\ UNCHANGED <<now, running, sequence_changed, pc, next_time, pause_event, paused, paused_set,
                   shutting_down, is_paused, disturbed, pause_end_time, clientVars>>

-----------------------------------------------------------------------------
(* Advance                                                                 *)

\* The loop, on a queue q, up to the next callback or to the return.  An event
\* that is due and whose type is gone is neither run nor popped: the loop goes
\* round and round, with both locks held.
AdvanceLoop(q) ==
    \/ /\ q # <<>> /\ Head(q).time <= now /\ Head(q).type \in expired
       /\ event_queue' = q /\ running' = NoType /\ sequence_changed' = FALSE
       /\ pc' = "spinning"
       /\ UNCHANGED next_time
    \/ /\ q # <<>> /\ Head(q).time <= now /\ Head(q).type \notin expired
       /\ event_queue' = IF Head(q).reschedule_time = 0 THEN Tail(q) ELSE q
       /\ running' = Head(q).type
       /\ sequence_changed' = FALSE
       /\ pc' = "callback"
       /\ UNCHANGED next_time
    \/ /\ q # <<>> /\ Head(q).time > now
       /\ event_queue' = q /\ running' = NoType /\ sequence_changed' = FALSE
       /\ pc' = "wait_for"
       /\ next_time' = Head(q).time
    \/ /\ q = <<>>
       /\ event_queue' = q /\ running' = NoType /\ sequence_changed' = FALSE
       /\ pc' = "wait"
       /\ UNCHANGED next_time

Advance ==
    /\ pc = "advance"
    /\ AdvanceLoop(event_queue)
    /\ UNCHANGED <<now, flagVars, controlVars, clientVars>>

\* event_queue.update for the looping event e, from the end of a pause if it
\* was due before.
Reschedule(e, interval) ==
    Emplace(Erase(event_queue, e.type),
            [time |-> interval + (IF e.time < pause_end_time THEN pause_end_time ELSE e.time),
             type |-> e.type, reschedule_time |-> interval])

\* The events the callback that is returning belongs to: the looping one, or
\* none if it was popped.
InProgress == {e \in ToSet(event_queue) : e.type = running /\ e.reschedule_time > 0}

\* Mutant: the sequence number is not compared; update() puts the event back.
CallbackReturnsUnchecked ==
    /\ pc = "callback"
    /\ \/ AdvanceLoop(event_queue)
       \/ \E interval \in Intervals :
            AdvanceLoop(Emplace(Erase(event_queue, running),
                [time |-> now + interval, type |-> running, reschedule_time |-> interval]))
    /\ UNCHANGED <<now, flagVars, controlVars, clientVars>>

\* A looping event that was unscheduled during its callback is left alone.
CallbackReturns ==
    /\ pc = "callback"
    /\ \/ /\ sequence_changed \/ InProgress = {}
          /\ AdvanceLoop(event_queue)
       \/ /\ ~sequence_changed
          /\ \E e \in InProgress, interval \in Intervals : AdvanceLoop(Reschedule(e, interval))
    /\ UNCHANGED <<now, flagVars, controlVars, clientVars>>

-----------------------------------------------------------------------------
(* ThreadLoop                                                              *)

\* next_time is of use only up to the wait.
Goto(from, to) ==
    /\ pc = from /\ pc' = to /\ next_time' = 0
    /\ UNCHANGED <<now, queueVars, controlVars, clientVars>>

CheckShutdown ==
    /\ Goto("outer", IF shutting_down THEN "exited" ELSE "inner")
    /\ UNCHANGED flagVars

CheckPaused ==
    /\ Goto("inner", IF paused THEN "pausing" ELSE "resumed")
    /\ UNCHANGED flagVars

ClearPausedSet ==
    /\ Goto("resumed", "advance")
    /\ paused_set' = FALSE
    /\ UNCHANGED <<event, pause_event, paused, shutting_down>>

\* event.WaitFor: the event is set, or the time has come (or had come before
\* the wait began).
WaitFor ==
    /\ Goto("wait_for", "inner")
    /\ \/ event /\ event' = FALSE
       \/ now >= next_time /\ UNCHANGED event
    /\ UNCHANGED <<pause_event, paused, paused_set, shutting_down>>

WaitEvent ==
    /\ Goto("wait", "inner")
    /\ event /\ event' = FALSE
    /\ UNCHANGED <<pause_event, paused, paused_set, shutting_down>>

SetPausedSet ==
    /\ Goto("pausing", "pause_wait")
    /\ paused_set' = TRUE
    /\ UNCHANGED <<event, pause_event, paused, shutting_down>>

PauseWait ==
    /\ Goto("pause_wait", "outer")
    /\ pause_event /\ pause_event' = FALSE
    /\ UNCHANGED <<event, paused, paused_set, shutting_down>>

ThreadLoop ==
    \/ CheckShutdown \/ CheckPaused \/ ClearPausedSet \/ Advance \/ CallbackReturns
    \/ WaitFor \/ WaitEvent \/ SetPausedSet \/ PauseWait

-----------------------------------------------------------------------------
(* SyncPause and Reset                                                     *)

Control(c, from, to) ==
    /\ control[c] = from /\ control' = [control EXCEPT ![c] = to]
    /\ UNCHANGED <<now, queueVars, pc, next_time, paused_set, clientVars>>

\* Where a controller is when its SyncPause has returned: ShutdownMainProcess
\* goes on to take the system down.
Returned(c) == IF c = "guarded" THEN "idle" ELSE "closing"

\* The argument of c's SyncPause: ShutdownMainProcess calls SyncPause(false).
Argument(c) == c = "guarded" /\ is_paused

\* is_paused == paused, the first half of the test for nothing to do.
SyncPause(c, b) ==
    /\ Control(c, "idle", IF b = paused THEN "check" ELSE "set")
    /\ c = "shutdown" => ~b
    /\ control["shutdown"] \notin Resetting \cup {"closed"}
    /\ is_paused' = IF c = "guarded" THEN b ELSE is_paused
    /\ disturbed' = (disturbed \/ c = "shutdown")
    /\ UNCHANGED <<event, pause_event, paused, shutting_down, pause_end_time>>

\* paused_set == paused, the second half
CheckPausedSet(c) ==
    /\ Control(c, "check", IF paused_set = paused THEN Returned(c) ELSE "set")
    /\ UNCHANGED <<event, pause_event, paused, shutting_down, is_paused, disturbed, pause_end_time>>

\* Pause: paused = is_paused
SetPaused(c) ==
    /\ Control(c, "set", "pause_set")
    /\ paused' = Argument(c)
    /\ disturbed' = (disturbed \/ (~Argument(c) /\ ~paused_set))
    /\ UNCHANGED <<event, pause_event, shutting_down, is_paused, pause_end_time>>

PauseEventSet(c) ==
    /\ Control(c, "pause_set", IF Argument(c) THEN "event_set" ELSE "end_time")
    /\ pause_event' = TRUE
    /\ UNCHANGED <<event, paused, shutting_down, is_paused, disturbed, pause_end_time>>

SetPauseEndTime(c) ==
    /\ Control(c, "end_time", "pause_set_again")
    /\ pause_end_time' = now
    /\ UNCHANGED <<event, pause_event, paused, shutting_down, is_paused, disturbed>>

PauseEventSetAgain(c) ==
    /\ Control(c, "pause_set_again", "event_set")
    /\ pause_event' = TRUE
    /\ UNCHANGED <<event, paused, shutting_down, is_paused, disturbed, pause_end_time>>

\* Mutant: only a thread that is already paused is told.
EventSetNot(c) ==
    /\ Control(c, "event_set", "spin")
    /\ UNCHANGED <<event, pause_event, paused, shutting_down, is_paused, disturbed, pause_end_time>>

EventSet(c) ==
    /\ Control(c, "event_set", "spin")
    /\ event' = TRUE
    /\ UNCHANGED <<pause_event, paused, shutting_down, is_paused, disturbed, pause_end_time>>

\* Mutant: the answer of the timer thread is not waited for.
SpinNot(c) ==
    /\ Control(c, "spin", Returned(c))
    /\ pause_end_time' = IF Argument(c) THEN pause_end_time ELSE now
    /\ UNCHANGED <<event, pause_event, paused, shutting_down, is_paused, disturbed>>

\* while (paused_set != is_paused);
Spin(c) ==
    /\ Control(c, "spin", Returned(c))
    /\ paused_set = Argument(c)
    /\ pause_end_time' = IF Argument(c) THEN pause_end_time ELSE now
    /\ UNCHANGED <<event, pause_event, paused, shutting_down, is_paused, disturbed>>

\* Reset, in the destructor: the threads that could call SyncPause are gone.
ResetPaused ==
    /\ control["guarded"] = "idle"
    /\ notifying = 0 /\ unscheduling = {}
    /\ \E from \in {"idle", "closed"} : Control("shutdown", from, "reset")
    /\ paused' = TRUE /\ disturbed' = TRUE
    /\ UNCHANGED <<event, pause_event, shutting_down, is_paused, pause_end_time>>

ResetShuttingDown ==
    /\ Control("shutdown", "reset", "reset_pause_set")
    /\ shutting_down' = TRUE
    /\ UNCHANGED <<event, pause_event, paused, is_paused, disturbed, pause_end_time>>

ResetPauseEventSet ==
    /\ Control("shutdown", "reset_pause_set", "reset_event_set")
    /\ pause_event' = TRUE
    /\ UNCHANGED <<event, paused, shutting_down, is_paused, disturbed, pause_end_time>>

ResetEventSet ==
    /\ Control("shutdown", "reset_event_set", "join")
    /\ event' = TRUE
    /\ UNCHANGED <<pause_event, paused, shutting_down, is_paused, disturbed, pause_end_time>>

Join ==
    /\ Control("shutdown", "join", "done")
    /\ pc = "exited"
    /\ UNCHANGED <<event, pause_event, paused, shutting_down, is_paused, disturbed, pause_end_time>>

SyncPauseStep(c) ==
    \/ CheckPausedSet(c) \/ SetPaused(c) \/ PauseEventSet(c) \/ SetPauseEndTime(c)
    \/ PauseEventSetAgain(c) \/ EventSet(c) \/ Spin(c)

ResetStep == ResetShuttingDown \/ ResetPauseEventSet \/ ResetEventSet \/ Join

-----------------------------------------------------------------------------
TimingNext ==
    \/ TimingTick
    \/ \E type \in Types :
        \/ \E delay \in Delays : ScheduleEvent(type, delay)
        \/ \E wait \in BOOLEAN : UnscheduleEvent(type, wait)
        \/ \E drop \in BOOLEAN : UnscheduleReturns(type, drop)
    \/ NotifyTimerThread
    \/ ClearPendingEvents
    \/ ThreadLoop
    \/ \E c \in Controllers :
        \/ \E b \in BOOLEAN : SyncPause(c, b)
        \/ SyncPauseStep(c)
    \/ ResetPaused
    \/ ResetStep

TimingSpec == TimingInit /\ [][TimingNext]_timingVars

\* The timer thread runs and its callbacks return, and calls that have begun
\* come to their end.  Nobody has to schedule, unschedule, pause, resume or
\* shut down, and no clock has to run for what is claimed below.
Fairness ==
    /\ WF_timingVars(ThreadLoop)
    /\ WF_timingVars(SyncPauseStep("guarded"))
    /\ WF_timingVars(SyncPauseStep("shutdown") \/ ResetStep)
    /\ WF_timingVars(NotifyTimerThread)

TimingFairSpec == TimingSpec /\ Fairness

-----------------------------------------------------------------------------
(* Properties                                                              *)

\* Once UnscheduleEvent(Wait) has returned, the event's callback is not
\* running and cannot run until somebody schedules it anew: its owner may be
\* destroyed.  A looping event whose callback was running is not put back.
\* (A callback that schedules its own type while UnscheduleEvent waits for it
\* has scheduled it anew.)
UnscheduledStaysQuiet ==
    \A type \in unscheduled \ unscheduling : running # type /\ ~Queued(type)

\* When SyncPause(true) has returned no callback runs, and none starts before
\* the next SyncPause(false): up to the shutdown, and if the timer thread had
\* come to its first pause when it was first resumed.
PausedMeansQuiet ==
    (~disturbed /\ control["guarded"] = "idle" /\ paused) =>
        running = NoType

Due(type) == \E i \in DOMAIN event_queue : event_queue[i].type = type /\ event_queue[i].time <= now

\* An event that is due runs unless it is unscheduled, the timer is paused, or
\* the loop has met an event whose type is gone: no call of event.Set() is
\* lost between Advance's return and the wait, even though the wait shares the
\* event with SyncPause and ClearPendingEvents.
DueEventsRun ==
    \A type \in Types :
        Due(type) ~> (running = type \/ ~Queued(type) \/ paused \/ pc = "spinning")

\* The timer thread is in the wait for one of its events and nothing ends it.
Blocked ==
    \/ pc = "wait" /\ ~event
    \/ pc = "wait_for" /\ ~event /\ now < next_time
    \/ pc = "pause_wait" /\ ~pause_event

\* c waits for an answer of the timer thread that can still come: the other
\* controller has not stored the opposite since.
Expecting(c) ==
    \/ control[c] = "spin" /\ paused = Argument(c) /\ paused_set # Argument(c)
    \/ control[c] = "join" /\ pc # "exited"

\* SyncPause() and Reset() never wait for a timer thread that itself waits:
\* when no controller has anything left to do but to wait, and one of them
\* expects an answer, the thread has been woken wherever it was, although it
\* consumes the two events without a look at the flags.
NobodyWaitsForASleeper ==
    (/\ \A c \in Controllers : control[c] \in {"idle", "closing", "spin", "join"}
     /\ \E c \in Controllers : Expecting(c))
    => ~Blocked
=============================================================================
