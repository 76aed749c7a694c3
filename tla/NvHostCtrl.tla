----------------------------- MODULE NvHostCtrl -----------------------------
(***************************************************************************)
(* nvhost_ctrl, the device whose events the guest waits on for the GPU,    *)
(* with the SyncpointManager it registers its actions with.  The ioctls    *)
(* run one after the other on the thread of the nvdrv service; the GPU's   *)
(* threads run the actions.  They share the status of an event, an atomic  *)
(* that both exchange: every access to it is a step of its own.  A use of  *)
(* an event's null KEvent is a fault, after which nothing runs.            *)
(***************************************************************************)
EXTENDS SyncpointManager

CONSTANTS NumEvents,   \* MaxNvEvents
          MaxControls  \* bound: the frontend's calls of Run and Pause

ASSUME NumEventsAssumption == NumEvents \in Nat \ {0}

ASSUME MaxControlsAssumption == MaxControls \in Nat

\* guard is held by an incrementer, by "ioctl" or by None.
ASSUME GuardAssumption == None \notin Incrementers /\ "ioctl" \notin Incrementers \cup {None}

Slots == 0..(NumEvents - 1)

FailsBound == 3  \* fails beyond 2 are alike

VARIABLES
  event,          \* event[n]: registered, status, kevent, fails, assigned, wait_handle
  ioctl,          \* where the ioctl is, and its variables
  suspend_guard,  \* the holder of System's mutex: "ioctl", "frontend" or None
  controls        \* the calls of Run and Pause the frontend has made

suspendVars == <<suspend_guard, controls>>

vars == <<syncpointVars, event, ioctl, suspendVars>>

\* target is 0 in an ioctl that is no wait; poll is a timeout of zero, found the
\* slot of FindFreeNvEvent's loop.
IdleIoctl == [pc |-> "idle", slot |-> None, target |-> 0, create |-> FALSE, poll |-> FALSE, found |-> None]

\* An InternalEvent; kevent is "none", "clear" or "signaled", assigned tells
\* whether assigned_syncpt is the syncpoint.  asked is a history variable: a wait
\* for the event was registered, and was neither signalled nor cleared since.
NewEvent == [registered |-> FALSE, status |-> "Available", kevent |-> "none", fails |-> 0,
             assigned |-> FALSE, wait_handle |-> 0, asked |-> FALSE]

Init ==
  /\ SyncpointInit
  /\ event = [n \in Slots |-> NewEvent]
  /\ ioctl = IdleIoctl
  /\ suspend_guard = None /\ controls = 0

IsBeingUsed(n) == event[n].status \in {"Waiting", "Cancelling", "Signalling"}

\* kevent->Signal(), which faults on an event that was freed and has none.
SignalKEvent(e) == IF e.kevent = "none" THEN e ELSE [e EXCEPT !.kevent = "signaled", !.asked = FALSE]

AfterSignal(e) == IF e.kevent = "none" THEN "fault" ELSE "store"

Faulted == ioctl.pc = "fault" \/ \E i \in Incrementers : inc[i].pc = "fault"

----------------------------------------------------------------------------
(* The action, on the thread of the GPU that reached its value.            *)

ActionExchange(i) ==
  /\ inc[i].pc = "action"
  /\ event' = [event EXCEPT ![inc[i].slot].status = "Signalling"]
  /\ inc' = [inc EXCEPT ![i].pc = IF event[inc[i].slot].status = "Waiting" THEN "signal" ELSE "store"]
  /\ UNCHANGED <<syncpoint, guard, action_storage, ioctl, suspendVars>>

ActionSignal(i) ==
  /\ inc[i].pc = "signal"
  /\ event' = [event EXCEPT ![inc[i].slot] = SignalKEvent(@)]
  /\ inc' = [inc EXCEPT ![i].pc = AfterSignal(event[inc[i].slot])]
  /\ UNCHANGED <<syncpoint, guard, action_storage, ioctl, suspendVars>>

ActionStore(i) ==
  /\ inc[i].pc = "store"
  /\ event' = [event EXCEPT ![inc[i].slot].status = "Signalled"]
  /\ inc' = [inc EXCEPT ![i].pc = "ran"]
  /\ UNCHANGED <<syncpoint, guard, action_storage, ioctl, suspendVars>>

----------------------------------------------------------------------------
(* IocCtrlEventRegister, IocCtrlEventUnregister                            *)

SyncpointUntouched == UNCHANGED <<syncpoint, inc, suspendVars>>

\* A registered event is freed if it is not being used ...
StartFree ==
  /\ ioctl.pc = "idle"
  /\ \E n \in Slots, create \in BOOLEAN :
       ioctl' = CASE ~event[n].registered /\ create ->
                       [IdleIoctl EXCEPT !.pc = "create", !.slot = n, !.create = TRUE]
                  [] event[n].registered /\ ~IsBeingUsed(n) ->
                       [IdleIoctl EXCEPT !.pc = "free", !.slot = n, !.create = create]
                  [] OTHER -> ioctl  \* success without an event, or busy
  /\ UNCHANGED <<guard, action_storage, event>> /\ SyncpointUntouched

\* ... as FreeNvEvent asserts again, ...
FreeNvEvent ==
  /\ ioctl.pc = "free"
  /\ event' = [event EXCEPT ![ioctl.slot] = [@ EXCEPT !.kevent = "none", !.status = "Available",
                                                    !.registered = FALSE, !.asked = FALSE]]
  /\ ioctl' = IF ioctl.create THEN [ioctl EXCEPT !.pc = "create"] ELSE IdleIoctl
  /\ UNCHANGED <<guard, action_storage>> /\ SyncpointUntouched

Create(e) == [e EXCEPT !.kevent = "clear", !.status = "Available", !.registered = TRUE,
                       !.fails = 0, !.assigned = FALSE, !.asked = FALSE]

\* ... and created again; FindFreeNvEvent goes on with the event it created.
CreateNvEvent ==
  /\ ioctl.pc = "create"
  /\ event' = [event EXCEPT ![ioctl.slot] = Create(@)]
  /\ ioctl' = IF ioctl.target = 0 THEN IdleIoctl ELSE [ioctl EXCEPT !.pc = "check"]
  /\ UNCHANGED <<guard, action_storage>> /\ SyncpointUntouched

----------------------------------------------------------------------------
(* IocCtrlEventWait                                                        *)

\* A fence that is signalled is a success; else the event is the one that was
\* named, or FindFreeNvEvent chooses one.
StartEventWait ==
  /\ ioctl.pc = "idle"
  /\ \E target \in 1..MaxValue, n \in Slots, is_allocation \in BOOLEAN, poll \in BOOLEAN :
       IF syncpoint >= target
       THEN /\ event' = IF is_allocation THEN event ELSE [event EXCEPT ![n].fails = 0]
            /\ UNCHANGED ioctl
       ELSE /\ ioctl' = [IdleIoctl EXCEPT !.pc = IF is_allocation THEN "find" ELSE "check",
                                          !.slot = IF is_allocation THEN 0 ELSE n,
                                          !.target = target, !.poll = poll]
            /\ UNCHANGED event
  /\ UNCHANGED <<guard, action_storage>> /\ SyncpointUntouched

\* An iteration of FindFreeNvEvent: an unused event that had the syncpoint is
\* taken at once; after the last, one to create, else the last that was unused.
FindFreeNvEvent ==
  /\ ioctl.pc = "find"
  /\ LET i == ioctl.slot
         unused == event[i].registered /\ ~IsBeingUsed(i)
         found == IF unused THEN i ELSE ioctl.found
         new == {n \in Slots : ~event[n].registered}
     IN ioctl' = CASE unused /\ event[i].assigned -> [ioctl EXCEPT !.pc = "check"]
                   [] ~(unused /\ event[i].assigned) /\ i + 1 \in Slots ->
                        [ioctl EXCEPT !.slot = i + 1, !.found = found]
                   [] ~(unused /\ event[i].assigned) /\ i + 1 \notin Slots /\ new # {} ->
                        [ioctl EXCEPT !.pc = "create", !.slot = Min(new)]
                   [] OTHER -> [ioctl EXCEPT !.pc = "check", !.slot = IF found = None THEN 0 ELSE found]
  /\ UNCHANGED <<guard, action_storage, event>> /\ SyncpointUntouched

\* With a timeout of zero, only an event that failed too often is waited for;
\* else one that is not registered or in use is refused.
CheckEvent ==
  /\ ioctl.pc = "check"
  /\ LET n == ioctl.slot
         refused == ~ioctl.poll /\ (~event[n].registered \/ IsBeingUsed(n))
         failing == event[n].fails > 2
     IN ioctl' = CASE refused -> IdleIoctl
                   [] ~refused /\ failing -> [ioctl EXCEPT !.pc = "stall"]
                   [] ~refused /\ ~failing /\ ioctl.poll -> IdleIoctl
                   [] OTHER -> [ioctl EXCEPT !.pc = "set_waiting"]
  /\ UNCHANGED <<guard, action_storage, event>> /\ SyncpointUntouched

\* check_failing.  StallApplication takes suspend_guard, and suspends the kernel
\* and CoreTiming before it returns with it.
StallApplication ==
  /\ ioctl.pc = "stall" /\ suspend_guard = None
  /\ suspend_guard' = "ioctl"
  /\ ioctl' = [ioctl EXCEPT !.pc = "wait_host"]
  /\ UNCHANGED <<syncpointVars, event, controls>>

\* WaitHost: the predicate is read without guard ...
WaitHost ==
  /\ ioctl.pc = "wait_host"
  /\ ioctl' = [ioctl EXCEPT !.pc = IF syncpoint >= ioctl.target THEN "unstall" ELSE "wait_lock"]
  /\ UNCHANGED <<guard, action_storage, event>> /\ SyncpointUntouched

\* ... and with it, before the condition variable is waited on.
WaitHostLocked ==
  /\ ioctl.pc = "wait_lock" /\ guard = None
  /\ ioctl' = [ioctl EXCEPT !.pc = IF syncpoint >= ioctl.target THEN "unstall" ELSE "blocked"]
  /\ UNCHANGED <<guard, action_storage, event>> /\ SyncpointUntouched

\* The application goes on unless it is paused, and suspend_guard is released.
UnstallApplication ==
  /\ ioctl.pc = "unstall"
  /\ suspend_guard' = None
  /\ ioctl' = [ioctl EXCEPT !.pc = "failed"]
  /\ UNCHANGED <<syncpointVars, event, controls>>

FailedEvent ==
  /\ ioctl.pc = "failed"
  /\ event' = [event EXCEPT ![ioctl.slot].fails = 0]
  /\ ioctl' = IdleIoctl
  /\ UNCHANGED <<guard, action_storage>> /\ SyncpointUntouched

SetWaiting ==
  /\ ioctl.pc = "set_waiting"
  /\ event' = [event EXCEPT ![ioctl.slot] = [@ EXCEPT !.status = "Waiting", !.assigned = TRUE,
                                                    !.asked = FALSE]]
  /\ ioctl' = [ioctl EXCEPT !.pc = "register"]
  /\ UNCHANGED <<guard, action_storage>> /\ SyncpointUntouched

\* RegisterAction: a value that is reached runs the action in place.
RegisterAction ==
  /\ ioctl.pc = "register"
  /\ ioctl' = [ioctl EXCEPT !.pc = IF syncpoint >= ioctl.target THEN "exchange" ELSE "register_lock"]
  /\ UNCHANGED <<guard, action_storage, event>> /\ SyncpointUntouched

\* Mutant: the value is not read again under guard.
RegisterActionLockedBlind ==
  /\ ioctl.pc = "register_lock" /\ guard = None
  /\ \E node \in FreeNodes :
       /\ action_storage' = InsertAction([expected_value |-> ioctl.target, slot |-> ioctl.slot, node |-> node])
       /\ ioctl' = [ioctl EXCEPT !.pc = "handle", !.target = node]
  /\ event' = [event EXCEPT ![ioctl.slot] = [@ EXCEPT !.asked = (event[ioctl.slot].status = "Waiting")]]
  /\ UNCHANGED guard /\ SyncpointUntouched

\* Read again under guard, it is run under guard, or the action is inserted.
RegisterActionLocked ==
  /\ ioctl.pc = "register_lock" /\ guard = None
  /\ IF syncpoint >= ioctl.target
     THEN /\ guard' = "ioctl"
          /\ ioctl' = [ioctl EXCEPT !.pc = "exchange"]
          /\ UNCHANGED <<action_storage, event>>
     ELSE /\ \E node \in FreeNodes :
               /\ action_storage' = InsertAction([expected_value |-> ioctl.target, slot |-> ioctl.slot,
                                                  node |-> node])
               /\ ioctl' = [ioctl EXCEPT !.pc = "handle", !.target = node]
          /\ event' = [event EXCEPT ![ioctl.slot] =
                         [@ EXCEPT !.asked = (event[ioctl.slot].status = "Waiting")]]
          /\ UNCHANGED guard
  /\ SyncpointUntouched

\* Mutant: the handle of the action is dropped.
SetHandleLost ==
  /\ ioctl.pc = "handle"
  /\ ioctl' = IdleIoctl
  /\ UNCHANGED <<guard, action_storage, event>> /\ SyncpointUntouched

\* wait_handle is assigned once the action can already run.
SetHandle ==
  /\ ioctl.pc = "handle"
  /\ event' = [event EXCEPT ![ioctl.slot].wait_handle = ioctl.target]
  /\ ioctl' = IdleIoctl
  /\ UNCHANGED <<guard, action_storage>> /\ SyncpointUntouched

\* The action in place: exchange, signal and store, with or without guard.
ImmediateExchange ==
  /\ ioctl.pc = "exchange"
  /\ event' = [event EXCEPT ![ioctl.slot].status = "Signalling"]
  /\ ioctl' = [ioctl EXCEPT !.pc = IF event[ioctl.slot].status = "Waiting" THEN "signal" ELSE "store"]
  /\ UNCHANGED <<guard, action_storage>> /\ SyncpointUntouched

ImmediateSignal ==
  /\ ioctl.pc = "signal"
  /\ event' = [event EXCEPT ![ioctl.slot] = SignalKEvent(@)]
  /\ ioctl' = [ioctl EXCEPT !.pc = AfterSignal(event[ioctl.slot])]
  /\ UNCHANGED <<guard, action_storage>> /\ SyncpointUntouched

ImmediateStore ==
  /\ ioctl.pc = "store"
  /\ event' = [event EXCEPT ![ioctl.slot] = [@ EXCEPT !.status = "Signalled", !.wait_handle = 0]]
  /\ guard' = IF guard = "ioctl" THEN None ELSE guard
  /\ ioctl' = IdleIoctl
  /\ UNCHANGED action_storage /\ SyncpointUntouched

----------------------------------------------------------------------------
(* IocCtrlClearEventWait                                                   *)

StartClear ==
  /\ ioctl.pc = "idle"
  /\ \E n \in Slots :
       /\ event' = [event EXCEPT ![n] = [@ EXCEPT !.status = "Cancelling", !.asked = FALSE]]
       /\ ioctl' = [IdleIoctl EXCEPT !.pc = IF event[n].status = "Waiting" THEN "deregister" ELSE "cancelled",
                                     !.slot = n]
  /\ UNCHANGED <<guard, action_storage>> /\ SyncpointUntouched

\* DeregisterHostAction
DeregisterAction ==
  /\ ioctl.pc = "deregister" /\ guard = None
  /\ action_storage' = EraseHandle(event[ioctl.slot].wait_handle)
  /\ event' = [event EXCEPT ![ioctl.slot].wait_handle = 0]
  /\ ioctl' = [ioctl EXCEPT !.pc = "cancelled"]
  /\ UNCHANGED guard /\ SyncpointUntouched

StoreCancelled ==
  /\ ioctl.pc = "cancelled"
  /\ LET e == event[ioctl.slot] IN
     event' = [event EXCEPT ![ioctl.slot] =
                 [e EXCEPT !.status = "Cancelled",
                           !.fails = IF e.fails < FailsBound THEN e.fails + 1 ELSE e.fails]]
  /\ ioctl' = [ioctl EXCEPT !.pc = "clear"]
  /\ UNCHANGED <<guard, action_storage>> /\ SyncpointUntouched

\* kevent->Clear(), whether or not the event is registered
ClearKEvent ==
  /\ ioctl.pc = "clear"
  /\ IF event[ioctl.slot].kevent = "none"
     THEN ioctl' = [ioctl EXCEPT !.pc = "fault"] /\ UNCHANGED event
     ELSE event' = [event EXCEPT ![ioctl.slot].kevent = "clear"] /\ ioctl' = IdleIoctl
  /\ UNCHANGED <<guard, action_storage>> /\ SyncpointUntouched

----------------------------------------------------------------------------
(* System::Run and System::Pause, called by the frontend                    *)

TakeSuspendGuard ==
  /\ suspend_guard = None /\ controls < MaxControls
  /\ suspend_guard' = "frontend" /\ controls' = controls + 1
  /\ UNCHANGED <<syncpointVars, event, ioctl>>

ReleaseSuspendGuard ==
  /\ suspend_guard = "frontend"
  /\ suspend_guard' = None
  /\ UNCHANGED <<syncpointVars, event, ioctl, controls>>

----------------------------------------------------------------------------
\* Mutant: notify_all is called only if an action was run.
IncrementQuietly(i) ==
  /\ ~Faulted
  /\ \/ (FetchAdd(i) \/ LockGuard(i) \/ ScanDue(i) \/ EraseAction(i)) /\ UNCHANGED <<event, ioctl, suspendVars>>
     \/ /\ EndIncrement(i) /\ UNCHANGED <<event, suspendVars>>
        /\ ioctl' = IF ioctl.pc = "blocked" /\ action_storage # <<>>
                    THEN [ioctl EXCEPT !.pc = "wait_lock"] ELSE ioctl
     \/ ActionExchange(i) \/ ActionSignal(i) \/ ActionStore(i)

\* SyncpointManager::Increment, and the wakeup of the thread in WaitHost.
Increment(i) ==
  /\ ~Faulted
  /\ \/ (FetchAdd(i) \/ LockGuard(i) \/ ScanDue(i) \/ EraseAction(i)) /\ UNCHANGED <<event, ioctl, suspendVars>>
     \/ /\ EndIncrement(i) /\ UNCHANGED <<event, suspendVars>>
        /\ ioctl' = IF ioctl.pc = "blocked" THEN [ioctl EXCEPT !.pc = "wait_lock"] ELSE ioctl
     \/ ActionExchange(i) \/ ActionSignal(i) \/ ActionStore(i)

IoctlStart == ~Faulted /\ (StartFree \/ StartEventWait \/ StartClear)

IoctlContinue ==
  /\ ~Faulted
  /\ \/ FreeNvEvent \/ CreateNvEvent
     \/ FindFreeNvEvent \/ CheckEvent
     \/ StallApplication \/ WaitHost \/ WaitHostLocked \/ UnstallApplication \/ FailedEvent
     \/ SetWaiting \/ RegisterAction \/ RegisterActionLocked \/ SetHandle
     \/ ImmediateExchange \/ ImmediateSignal \/ ImmediateStore
     \/ DeregisterAction \/ StoreCancelled \/ ClearKEvent

Frontend == ~Faulted /\ (TakeSuspendGuard \/ ReleaseSuspendGuard)

Next == (\E i \in Incrementers : Increment(i)) \/ IoctlStart \/ IoctlContinue \/ Frontend

Spec == Init /\ [][Next]_vars

\* The GPU executes what was submitted to it, an ioctl goes on, and the frontend
\* does not keep suspend_guard.  A fence names submitted work, so its value is at
\* most MaxValue.
FairSpec ==
  /\ Spec
  /\ \A i \in Incrementers : WF_vars(Increment(i))
  /\ WF_vars(IoctlContinue)
  /\ WF_vars(Frontend)

----------------------------------------------------------------------------
(* Properties                                                              *)

\* The thread that waits for the GPU is not left blocked: the value it waits
\* for is still to come, or a thread that reached it has yet to notify.
WaiterIsNotified ==
  ioctl.pc = "blocked" =>
    \/ syncpoint < ioctl.target
    \/ \E i \in Incrementers : inc[i].pc # "idle"

\* The handle of event n: the ioctl has it until it is assigned.
Handle(n) == IF ioctl.pc = "handle" /\ ioctl.slot = n THEN ioctl.target ELSE event[n].wait_handle

\* A wait for an event keeps what it needs until its KEvent is signalled or it is
\* cleared: the KEvent, and Waiting with an action that the handle finds, or the
\* thread that took Waiting and has yet to signal.  It is said of the waits whose
\* event was still Waiting when their action was registered: EventWait does not
\* see that a late action of the wait before stored Signalled between the two, and
\* such a wait is never signalled.
WaitIsServed ==
  \A n \in Slots : event[n].asked =>
    /\ event[n].kevent # "none"
    /\ \/ /\ event[n].status = "Waiting"
          /\ \E k \in DOMAIN action_storage : action_storage[k].slot = n /\ action_storage[k].node = Handle(n)
       \/ \E i \in Incrementers : inc[i].pc = "signal" /\ inc[i].slot = n

\* Whoever waits for a syncpoint, the ioctl in WaitHost or the guest for an event
\* that was Waiting at its registration, is served.
WaitersAreServed == WaiterIsNotified /\ WaitIsServed

\* Every ioctl returns, the wait for the GPU of an event that failed included,
\* unless a null KEvent was used.
IoctlReturns == (ioctl.pc # "idle") ~> (ioctl.pc = "idle" \/ Faulted)

\* What FreeNvEvent and CreateNvEvent assert: the event is not being used.
FreedEventsAreUnused ==
  ioctl.pc \in {"free", "create"} => ~IsBeingUsed(ioctl.slot)
=============================================================================
