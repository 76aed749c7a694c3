----------------------------- MODULE KLightLock -----------------------------
(***************************************************************************)
(* The kernel's internal mutex (k_light_lock.cpp) together with the part   *)
(* of KThread it leans on: the kernel waiters of a lock owner, suspension  *)
(* (RequestSuspend, TrySuspend, Resume, Continue) and termination          *)
(* (RequestTerminate).                                                     *)
(*                                                                         *)
(* m_tag is an atomic word that threads compare-and-swap without any lock; *)
(* every access is an action of its own.  The two slow paths run under the *)
(* scheduler lock, and a thread woken inside one starts running only when  *)
(* that lock is released, so each slow path is one action.                 *)
(*                                                                         *)
(* A thread whose state carries suspend flags may still take steps: the    *)
(* core that runs it stops it when the inter-processor interrupt arrives,  *)
(* which may be any time later.  A waiting thread takes none.  Which       *)
(* waiter has the highest priority is not told apart here: any may be it.  *)
(***************************************************************************)
EXTENDS Naturals, FiniteSets

CONSTANTS
    Threads,        \* the guest threads
    Locks,          \* the light locks, numbers: locks are taken in ascending order
    SuspendTypes,   \* SuspendType: Process, Thread, Debug, ...
    Suspensions,    \* who may be asked to suspend, and of which types: <<thread, type>>
    Terminable,     \* the threads somebody may ask to terminate
    NoThread        \* the null KThread pointer

ASSUME ConstantsAssumption ==
    /\ Locks \subseteq Nat
    /\ Suspensions \subseteq Threads \X SuspendTypes
    /\ Terminable \subseteq Threads
    /\ NoThread \notin Threads

VARIABLES
    m_tag,                      \* per lock: owner pointer and its low bit
    pc,                         \* where each thread is in Lock()/Unlock()
    target,                     \* the lock that call is about
    old_tag,                    \* the local of Lock(), Zero outside its scope
    held,                       \* locks each thread has returned from Lock() with
    lock_owner,                 \* GetLockOwner(): m_waiting_lock_info->GetOwner()
    state,                      \* m_thread_state & Mask
    suspended,                  \* suspend flags stored in m_thread_state
    m_suspend_request_flags,
    m_suspend_allowed,          \* m_suspend_allowed_flags: all types, or none
    m_termination_requested,
    cancelled,                  \* history: threads whose wait for a lock was cancelled
    stopped                     \* history: threads a Resume suspended while others waited

lockVars == <<m_tag, pc, target, old_tag, held>>
waitVars == <<lock_owner, state>>
suspendVars == <<suspended, m_suspend_request_flags, m_suspend_allowed>>
terminateVars == <<m_termination_requested, cancelled, stopped>>
vars == <<lockVars, waitVars, suspendVars, terminateVars>>

Tag == [owner : Threads \cup {NoThread}, wait : BOOLEAN]
Tagged(t, w) == [owner |-> t, wait |-> w]
Zero == Tagged(NoThread, FALSE)

PCs == {"run", "cas", "slow", "wait", "unlock_slow"}

TypeOK ==
    /\ m_tag \in [Locks -> Tag]
    /\ pc \in [Threads -> PCs]
    /\ target \in [Threads -> Locks]
    /\ old_tag \in [Threads -> Tag]
    /\ held \in [Threads -> SUBSET Locks]
    /\ lock_owner \in [Threads -> Threads \cup {NoThread}]
    /\ state \in [Threads -> {"Runnable", "Waiting"}]
    /\ suspended \in [Threads -> SUBSET SuspendTypes]
    /\ m_suspend_request_flags \in [Threads -> SUBSET SuspendTypes]
    /\ m_suspend_allowed \in [Threads -> BOOLEAN]
    /\ m_termination_requested \in SUBSET Threads
    /\ cancelled \in SUBSET Threads
    /\ stopped \in SUBSET Threads

Init ==
    /\ m_tag = [l \in Locks |-> Zero]
    /\ pc = [t \in Threads |-> "run"]
    /\ target \in {[t \in Threads |-> l] : l \in Locks}
    /\ old_tag = [t \in Threads |-> Zero]
    /\ held = [t \in Threads |-> {}]
    /\ lock_owner = [t \in Threads |-> NoThread]
    /\ state = [t \in Threads |-> "Runnable"]
    /\ suspended = [t \in Threads |-> {}]
    /\ m_suspend_request_flags = [t \in Threads |-> {}]
    /\ m_suspend_allowed = [t \in Threads |-> TRUE]
    /\ m_termination_requested = {}
    /\ cancelled = {}
    /\ stopped = {}

-----------------------------------------------------------------------------
(* Suspension (k_thread.h, k_thread.cpp)                                   *)

\* GetSuspendFlags()
SuspendFlags(t) == IF m_suspend_allowed[t] THEN m_suspend_request_flags[t] ELSE {}

IsSuspended(t) == SuspendFlags(t) # {}

\* GetNumKernelWaiters() > 0, where owner maps each thread to its lock owner
HasKernelWaiters(t, owner) == \E u \in Threads : owner[u] = t

\* Mutant: the test for kernel waiters is missing.
TrySuspendAlways(t, owner, flags) == flags

\* A thread with kernel waiters keeps running; it is suspended when it unlocks.
TrySuspend(t, owner, flags) == IF HasKernelWaiters(t, owner) THEN suspended[t] ELSE flags

RequestSuspend(t, type) ==
    LET requested == m_suspend_request_flags[t] \cup {type}
        flags == IF m_suspend_allowed[t] THEN requested ELSE {}
    IN  /\ m_suspend_request_flags' = [m_suspend_request_flags EXCEPT ![t] = requested]
        /\ suspended' = [suspended EXCEPT ![t] = TrySuspend(t, lock_owner, flags)]
        /\ UNCHANGED <<lockVars, waitVars, m_suspend_allowed, terminateVars>>

\* Resume ends in UpdateState(), not in TrySuspend(): it stores whatever flags
\* are left, also of a thread that others wait for.
Resume(t, type) ==
    LET requested == m_suspend_request_flags[t] \ {type}
        flags == IF m_suspend_allowed[t] THEN requested ELSE {}
    IN  /\ m_suspend_request_flags' = [m_suspend_request_flags EXCEPT ![t] = requested]
        /\ suspended' = [suspended EXCEPT ![t] = flags]
        /\ stopped' = stopped \cup {u \in {t} : HasKernelWaiters(t, lock_owner) /\ flags # {}}
        /\ UNCHANGED <<lockVars, waitVars, m_suspend_allowed, m_termination_requested, cancelled>>

-----------------------------------------------------------------------------
(* KLightLock::Lock                                                        *)

\* The load of m_tag that begins Lock(), and begins it again after a failed
\* slow path.
LoadTag(t, l) ==
    /\ pc' = [pc EXCEPT ![t] = "cas"]
    /\ target' = [target EXCEPT ![t] = l]
    /\ old_tag' = [old_tag EXCEPT ![t] = m_tag[l]]

Lock(t, l) ==
    /\ pc[t] = "run" /\ state[t] = "Runnable"
    /\ \A h \in held[t] : h < l
    /\ LoadTag(t, l)
    /\ UNCHANGED <<m_tag, held, waitVars, suspendVars, terminateVars>>

\* Mutant: a store where the compare-exchange should be.
LockStoreTag(t) ==
    LET l == target[t]
    IN  /\ pc[t] = "cas"
        /\ IF old_tag[t] = Zero
           THEN /\ m_tag' = [m_tag EXCEPT ![l] = Tagged(t, FALSE)]
                /\ held' = [held EXCEPT ![t] = @ \cup {l}]
                /\ pc' = [pc EXCEPT ![t] = "run"]
           ELSE /\ m_tag' = [m_tag EXCEPT ![l] = Tagged(@.owner, TRUE)]
                /\ pc' = [pc EXCEPT ![t] = "slow"]
                /\ UNCHANGED held
        /\ UNCHANGED <<target, old_tag, waitVars, suspendVars, terminateVars>>

\* compare_exchange_weak succeeds on a free lock: the thread is in.
TakeFreeLock(t, l) ==
    /\ m_tag[l] = old_tag[t] /\ old_tag[t] = Zero
    /\ m_tag' = [m_tag EXCEPT ![l] = Tagged(t, FALSE)]
    /\ held' = [held EXCEPT ![t] = @ \cup {l}]
    /\ pc' = [pc EXCEPT ![t] = "run"]
    /\ old_tag' = [old_tag EXCEPT ![t] = Zero]

\* It succeeds on a taken lock: the low bit now says that somebody waits.
MarkWaiters(t, l) ==
    /\ m_tag[l] = old_tag[t] /\ old_tag[t] # Zero
    /\ m_tag' = [m_tag EXCEPT ![l] = Tagged(@.owner, TRUE)]
    /\ pc' = [pc EXCEPT ![t] = "slow"]
    /\ UNCHANGED <<old_tag, held>>

\* It fails, and has reloaded old_tag.
ReloadTag(t, l) ==
    /\ m_tag[l] # old_tag[t]
    /\ old_tag' = [old_tag EXCEPT ![t] = m_tag[l]]
    /\ UNCHANGED <<m_tag, pc, held>>

LockCompareExchange(t) ==
    /\ pc[t] = "cas"
    /\ TakeFreeLock(t, target[t]) \/ MarkWaiters(t, target[t]) \/ ReloadTag(t, target[t])
    /\ UNCHANGED <<target, waitVars, suspendVars, terminateVars>>

\* Becoming a kernel waiter of owner: AddWaiter and BeginWait.
BeginWait(t, owner) ==
    /\ lock_owner' = [lock_owner EXCEPT ![t] = owner]
    /\ state' = [state EXCEPT ![t] = "Waiting"]
    /\ pc' = [pc EXCEPT ![t] = "wait"]
    /\ old_tag' = [old_tag EXCEPT ![t] = Zero]
    /\ UNCHANGED target

\* Mutant: a suspended owner is not continued.
ContinueNobody(owner) == UNCHANGED suspended

\* ContinueIfHasKernelWaiters of an owner that now has one
Continue(owner) ==
    suspended' = [suspended EXCEPT ![owner] = IF IsSuspended(owner) THEN {} ELSE @]

\* Mutant: the tag is not looked at again under the scheduler lock.
LockSlowPathUnchecked(t) ==
    /\ pc[t] = "slow"
    /\ BeginWait(t, old_tag[t].owner)
    /\ Continue(old_tag[t].owner)
    /\ UNCHANGED <<m_tag, held, m_suspend_request_flags, m_suspend_allowed, terminateVars>>

\* LockSlowPath: under the scheduler lock, either the tag has moved on and
\* Lock() starts over, or the thread becomes a kernel waiter of the owner.
RetryLock(t, l, owner) ==
    /\ m_tag[l] # Tagged(owner, TRUE)
    /\ LoadTag(t, l)
    /\ UNCHANGED <<waitVars, suspended>>

WaitForOwner(t, l, owner) ==
    /\ m_tag[l] = Tagged(owner, TRUE)
    /\ BeginWait(t, owner)
    /\ Continue(owner)

LockSlowPath(t) ==
    /\ pc[t] = "slow"
    /\ \/ RetryLock(t, target[t], old_tag[t].owner)
       \/ WaitForOwner(t, target[t], old_tag[t].owner)
    /\ UNCHANGED <<m_tag, held, m_suspend_request_flags, m_suspend_allowed, terminateVars>>

\* LockSlowPath returns true once the wait is over, however it ended.
LockReturns(t) ==
    /\ pc[t] = "wait" /\ state[t] = "Runnable"
    /\ pc' = [pc EXCEPT ![t] = "run"]
    /\ held' = [held EXCEPT ![t] = @ \cup {target[t]}]
    /\ UNCHANGED <<m_tag, target, old_tag, waitVars, suspendVars, terminateVars>>

-----------------------------------------------------------------------------
(* KLightLock::Unlock                                                      *)

\* compare_exchange_strong(cur_thread, 0)
Unlock(t, l) ==
    /\ pc[t] = "run" /\ state[t] = "Runnable"
    /\ l \in held[t]
    /\ target' = [target EXCEPT ![t] = l]
    /\ \/ /\ m_tag[l] = Tagged(t, FALSE)
          /\ m_tag' = [m_tag EXCEPT ![l] = Zero]
          /\ held' = [held EXCEPT ![t] = @ \ {l}]
          /\ UNCHANGED pc
       \/ /\ m_tag[l] # Tagged(t, FALSE)
          /\ pc' = [pc EXCEPT ![t] = "unlock_slow"]
          /\ UNCHANGED <<m_tag, held>>
    /\ UNCHANGED <<old_tag, waitVars, suspendVars, terminateVars>>

\* The waiters of the lock info that t keeps for l
Waiters(t, l) == {u \in Threads : lock_owner[u] = t /\ target[u] = l}

\* RemoveKernelWaiterByKey: next leaves the waiters of t for l, the others
\* become waiters of next.
RemoveKernelWaiterByKey(t, l, next) ==
    [u \in Threads |-> IF u = next THEN NoThread
                       ELSE IF u \in Waiters(t, l) THEN next
                       ELSE lock_owner[u]]

\* Mutant: the thread that unlocks is not suspended again.
FlagsAfterUnlockForgotten(t, next, owner) ==
    [u \in Threads |->
        IF u = next /\ IsSuspended(u) /\ HasKernelWaiters(u, owner) THEN {} ELSE suspended[u]]

\* The suspend flags UnlockSlowPath leaves: a next owner that already has
\* waiters is continued, and the thread that unlocks is suspended if asked to.
FlagsAfterUnlock(t, next, owner) ==
    [u \in Threads |->
        IF u = next /\ IsSuspended(u) /\ HasKernelWaiters(u, owner) THEN {}
        ELSE IF u = t /\ IsSuspended(u) THEN TrySuspend(u, owner, SuspendFlags(u))
        ELSE suspended[u]]

ReleaseLock(t, l) ==
    /\ Waiters(t, l) = {}
    /\ m_tag' = [m_tag EXCEPT ![l] = Zero]
    /\ suspended' = FlagsAfterUnlock(t, NoThread, lock_owner)
    /\ UNCHANGED waitVars

HandOver(t, l, next) ==
    LET owner == RemoveKernelWaiterByKey(t, l, next)
    IN  /\ m_tag' = [m_tag EXCEPT ![l] = Tagged(next, Waiters(t, l) # {next})]
        /\ lock_owner' = owner
        /\ state' = [state EXCEPT ![next] = "Runnable"]
        /\ suspended' = FlagsAfterUnlock(t, next, owner)

UnlockSlowPath(t) ==
    /\ pc[t] = "unlock_slow"
    /\ \/ ReleaseLock(t, target[t])
       \/ \E next \in Waiters(t, target[t]) : HandOver(t, target[t], next)
    /\ pc' = [pc EXCEPT ![t] = "run"]
    /\ held' = [held EXCEPT ![t] = @ \ {target[t]}]
    /\ UNCHANGED <<target, old_tag, m_suspend_request_flags, m_suspend_allowed, terminateVars>>

-----------------------------------------------------------------------------
(* KThread::RequestTerminate on a thread that may be waiting for a lock:   *)
(* suspension is revoked and the wait is cancelled through                 *)
(* ThreadQueueImplForKLightLock::CancelWait.                               *)

RequestTerminate(t) ==
    /\ t \in Terminable \ m_termination_requested
    /\ m_termination_requested' = m_termination_requested \cup {t}
    /\ m_suspend_allowed' = [m_suspend_allowed EXCEPT ![t] = @ /\ ~IsSuspended(t)]
    /\ suspended' = [suspended EXCEPT ![t] = IF IsSuspended(t) THEN {} ELSE @]
    /\ lock_owner' = [lock_owner EXCEPT ![t] = NoThread]
    /\ state' = [state EXCEPT ![t] = "Runnable"]
    /\ cancelled' = IF state[t] = "Waiting" THEN cancelled \cup {t} ELSE cancelled
    /\ UNCHANGED <<lockVars, m_suspend_request_flags, stopped>>

-----------------------------------------------------------------------------
Step(t) ==
    \/ \E l \in Locks : Lock(t, l) \/ Unlock(t, l)
    \/ LockCompareExchange(t)
    \/ LockSlowPath(t)
    \/ LockReturns(t)
    \/ UnlockSlowPath(t)

Next ==
    \E t \in Threads :
        \/ Step(t)
        \/ RequestTerminate(t)
        \/ \E type \in SuspendTypes :
              <<t, type>> \in Suspensions /\ (RequestSuspend(t, type) \/ Resume(t, type))

Spec == Init /\ [][Next]_vars

\* A thread that has entered Lock() or Unlock(), or that holds a lock, gets on
\* with it: the scheduler runs every runnable thread without suspend flags,
\* and a critical section of the kernel ends.  Nobody is obliged to call
\* Lock(), to resume a thread or to ask for anything.
Progress(t) ==
    /\ suspended[t] = {}
    /\ \/ \E l \in Locks : Unlock(t, l)
       \/ LockCompareExchange(t)
       \/ LockSlowPath(t)
       \/ LockReturns(t)
       \/ UnlockSlowPath(t)

FairSpec == Spec /\ \A t \in Threads : WF_vars(Progress(t))

-----------------------------------------------------------------------------
(* Properties                                                              *)

\* Two threads are never inside the same light lock, whatever interleaving of
\* compare-exchanges, slow paths, suspensions and termination requests led
\* there, as long as no wait for a lock was itself cancelled.
MutualExclusion ==
    cancelled = {} =>
        \A t, u \in Threads : t # u => held[t] \cap held[u] = {}

\* A waiting thread waits on the thread the tag names, and the tag's low bit
\* is set, so that thread's Unlock() cannot take the fast path and leave the
\* waiter behind.
NoStrandedWaiter ==
    cancelled = {} =>
        \A t \in Threads : state[t] = "Waiting" =>
            /\ lock_owner[t] # NoThread
            /\ m_tag[target[t]].owner = lock_owner[t]
            /\ m_tag[target[t]].wait

\* What IsLockedByCurrentThread() is asserted for all over the kernel's memory
\* manager: a thread that returned from Lock() is the owner the tag names.
HolderOwnsTag ==
    \A t \in Threads : \A l \in held[t] : m_tag[l].owner = t

\* A thread that others wait for inside the kernel is taken off its core by
\* nothing but a Resume that leaves other suspend flags standing: TrySuspend
\* leaves it running, a thread that blocks on a suspended owner continues it,
\* and so does the hand-over of a lock with its waiters to a suspended thread.
OnlyResumeStopsOwners ==
    [][\A t \in Threads :
          HasKernelWaiters(t, lock_owner') /\ suspended'[t] # {} =>
              \/ HasKernelWaiters(t, lock_owner) /\ suspended[t] # {}
              \/ \E type \in SuspendTypes : Resume(t, type)]_vars

\* Suspending the owner of a lock, before or after others queue up behind it,
\* never leaves them waiting: the owner they wait for gets to hand the lock on,
\* unless a wait for a lock is cancelled, or an owner is stopped by a Resume,
\* at some time.
WaitersReleased ==
    \A t, u \in Threads :
        (lock_owner[u] = t) ~> (lock_owner[u] # t \/ cancelled # {} \/ stopped # {})

\* A suspension that had to be put off because of kernel waiters is made up
\* for when the lock is released: a thread outside every lock that runs with
\* no waiters carries the flags it was asked to.
SuspensionNotForgotten ==
    \A t \in Threads :
        (cancelled = {} /\ held[t] = {} /\ pc[t] = "run") => suspended[t] = SuspendFlags(t)
=============================================================================
