------------------------- MODULE KConditionVariable -------------------------
(***************************************************************************)
(* Guest mutexes and condition variables (k_condition_variable.cpp) and    *)
(* the priority inheritance of KThread that they rest on.                  *)
(*                                                                         *)
(* A mutex is a word of guest memory, the tag: the owner's handle and a    *)
(* bit that says that somebody waits.  Guest code locks and unlocks it by  *)
(* compare-and-swap and calls the kernel only when that bit is involved;   *)
(* those instructions (GuestLock, GuestTryLock, GuestUnlock) are actions   *)
(* of their own.  The kernel's operations run under the scheduler lock,    *)
(* and each is one action.                                                 *)
(*                                                                         *)
(* Guests are well-behaved: a condition variable goes with one mutex,      *)
(* whose name stands for its key; mutexes are taken in ascending order;    *)
(* and a thread waits with the mutex it locked last.  Of waiters with the  *)
(* same priority any may come first.                                       *)
(***************************************************************************)
EXTENDS Naturals, FiniteSets, FiniteSetsExt, Sequences, SequencesExt

CONSTANTS
    Threads,
    Mutexes,        \* mutex addresses, numbers
    Priorities,     \* numbers; the lower one is the higher priority
    Terminable,     \* the threads that may exit or be asked to terminate
    CreatedWith,    \* per thread, the priority it is created with
    TerminatingThreadPriority,
    Adjustable,     \* the threads whose base priority may be changed
    Timeouts,       \* subset of {"zero", "positive", "infinite"}
    NoThread        \* the null pointer, and the invalid handle

ASSUME ConstantsAssumption ==
    /\ IsFiniteSet(Threads)
    /\ Mutexes \subseteq Nat /\ Mutexes # {} /\ Priorities \subseteq Nat
    /\ TerminatingThreadPriority \in Nat
    /\ Terminable \subseteq Threads /\ Adjustable \subseteq Threads
    /\ CreatedWith \in [Threads -> Priorities]
    /\ NoThread \notin Threads

VARIABLES
    tag,                    \* per mutex, the word in guest memory
    has_waiter_flag,        \* per condition variable, the word at its key
    m_priority, m_base_priority,
    lock_owner,             \* GetLockOwner()
    m_address_key,          \* the mutex a thread waits for or waits with
    m_condvar_tree,         \* threads in the condition variable tree
    m_wait_queue,           \* which queue a thread waits in
    state,
    m_wait_result,          \* "Success" again once it has been read
    m_hardware_timer_tasks, \* threads with a task in the timer
    m_termination_requested,
    pc,                     \* where each thread is
    owner_thread,           \* the owner svcArbitrateLock names, then refers to
    held,                   \* the mutexes guest code believes it holds
    finalized,              \* threads that are gone
    null_owner              \* CancelWait has dereferenced a null lock owner

priorityVars == <<m_priority, m_base_priority>>
waitVars == <<lock_owner, m_condvar_tree, m_wait_queue, state, m_wait_result,
              m_hardware_timer_tasks>>
guestVars == <<pc, owner_thread, held>>
memoryVars == <<tag, has_waiter_flag>>
lifeVars == <<m_termination_requested, finalized, null_owner>>
vars == <<memoryVars, priorityVars, waitVars, m_address_key, guestVars, lifeVars>>

Tagged(t, w) == [owner |-> t, wait |-> w]
Free == Tagged(NoThread, FALSE)

TypeOK ==
    /\ tag \in [Mutexes -> [owner : Threads \cup {NoThread}, wait : BOOLEAN]]
    /\ has_waiter_flag \in [Mutexes -> BOOLEAN]
    /\ m_priority \in [Threads -> Priorities \cup {TerminatingThreadPriority}]
    /\ m_base_priority \in [Threads -> Priorities \cup {TerminatingThreadPriority}]
    /\ lock_owner \in [Threads -> Threads \cup {NoThread}]
    /\ m_address_key \in [Threads -> Mutexes]
    /\ m_condvar_tree \in SUBSET Threads
    /\ m_wait_queue \in [Threads -> {"none", "address", "condvar"}]
    /\ state \in [Threads -> {"Runnable", "Waiting", "Terminated"}]
    /\ m_wait_result \in [Threads -> {"Success", "TimedOut", "TerminationRequested",
                                      "InvalidState"}]
    /\ m_hardware_timer_tasks \in SUBSET {t \in Threads : m_wait_queue[t] = "condvar"}
    /\ m_termination_requested \in SUBSET Threads
    /\ pc \in [Threads -> {"run", "lock", "arbitrate", "wait_address", "unlock", "wait_condvar",
                           "gone"}]
    /\ owner_thread \in [Threads -> Threads \cup {NoThread}]
    /\ held \in [Threads -> SUBSET Mutexes]
    /\ finalized \in SUBSET Threads
    /\ null_owner \in BOOLEAN

Init ==
    /\ tag = [m \in Mutexes |-> Free]
    /\ has_waiter_flag = [m \in Mutexes |-> FALSE]
    /\ m_base_priority = CreatedWith
    /\ m_priority = m_base_priority
    /\ lock_owner = [t \in Threads |-> NoThread]
    /\ m_address_key = [t \in Threads |-> Min(Mutexes)]
    /\ m_condvar_tree = {}
    /\ m_wait_queue = [t \in Threads |-> "none"]
    /\ state = [t \in Threads |-> "Runnable"]
    /\ m_wait_result = [t \in Threads |-> "Success"]
    /\ m_hardware_timer_tasks = {}
    /\ m_termination_requested = {}
    /\ pc = [t \in Threads |-> "run"]
    /\ owner_thread = [t \in Threads |-> NoThread]
    /\ held = [t \in Threads |-> {}]
    /\ finalized = {}
    /\ null_owner = FALSE

-----------------------------------------------------------------------------
(* Priority inheritance (KThread).  owner maps each thread to the thread it *)
(* waits for, prio and base to its priorities.                              *)

Inherited(t, prio, base, owner) ==
    Min({base[t]} \cup {prio[u] : u \in {v \in Threads : owner[v] = t}})

\* Mutant: only the thread itself is brought up to date.
RestoreOne(t, prio, base, owner) == [prio EXCEPT ![t] = Inherited(t, prio, base, owner)]

\* RestorePriority: up the chain of owners, until a priority stays as it is.
\* step[n] is the state of the loop after n rounds; a chain of waiting threads
\* is not longer than there are threads.
RestorePriority(t, prio, base, owner) ==
    LET step[n \in 0..Cardinality(Threads)] ==
            IF n = 0 THEN [thread |-> t, prio |-> prio]
            ELSE LET s == step[n - 1]
                     new == Inherited(s.thread, s.prio, base, owner)
                 IN  IF s.thread = NoThread \/ new = s.prio[s.thread]
                     THEN [s EXCEPT !.thread = NoThread]
                     ELSE [thread |-> owner[s.thread], prio |-> [s.prio EXCEPT ![s.thread] = new]]
    IN  step[Cardinality(Threads)].prio

\* The priorities after o->AddWaiter(t); owner already has the new waiter.
AddWaiter(o, t, prio, owner) ==
    IF prio[t] < prio[o] THEN RestorePriority(o, prio, m_base_priority, owner) ELSE prio

\* The priorities after o->RemoveWaiter(t), and after RemoveWaiterByKey whose
\* next owner is t
RemoveWaiter(o, t, prio, base, owner) ==
    IF prio[o] = prio[t] /\ prio[o] < base[o]
    THEN RestorePriority(o, prio, base, owner) ELSE prio

-----------------------------------------------------------------------------
(* Guest code: the locking protocol of its mutexes                         *)

GuestLock(t, m) ==
    /\ pc[t] = "run" /\ state[t] = "Runnable" /\ t \notin m_termination_requested
    /\ \A h \in held[t] : h < m
    /\ pc' = [pc EXCEPT ![t] = "lock"]
    /\ m_address_key' = [m_address_key EXCEPT ![t] = m]
    /\ UNCHANGED <<memoryVars, priorityVars, waitVars, owner_thread, held, lifeVars>>

\* Take the free mutex, find that the kernel has handed it over, or set the
\* wait bit and ask the kernel.
GuestTryLock(t) ==
    LET m == m_address_key[t]
    IN  /\ pc[t] = "lock" /\ state[t] = "Runnable"
        /\ IF tag[m].owner \in {NoThread, t}
           THEN /\ tag' = [tag EXCEPT ![m] = Tagged(t, @.wait)]
                /\ held' = [held EXCEPT ![t] = @ \cup {m}]
                /\ pc' = [pc EXCEPT ![t] = "run"]
                /\ UNCHANGED owner_thread
           ELSE /\ tag' = [tag EXCEPT ![m] = Tagged(@.owner, TRUE)]
                /\ owner_thread' = [owner_thread EXCEPT ![t] = tag[m].owner]
                /\ pc' = [pc EXCEPT ![t] = "arbitrate"]
                /\ UNCHANGED held
        /\ UNCHANGED <<has_waiter_flag, priorityVars, waitVars, m_address_key, lifeVars>>

\* Without waiters a swap does; with waiters it is for SignalToAddress.
GuestUnlock(t, m) ==
    /\ pc[t] = "run" /\ state[t] = "Runnable"
    /\ m \in held[t]
    /\ m_address_key' = [m_address_key EXCEPT ![t] = m]
    /\ held' = [held EXCEPT ![t] = @ \ {m}]
    /\ IF tag[m].wait
       THEN /\ pc' = [pc EXCEPT ![t] = "unlock"]
            /\ UNCHANGED tag
       ELSE /\ tag' = [tag EXCEPT ![m] = Free]
            /\ UNCHANGED pc
    /\ UNCHANGED <<has_waiter_flag, priorityVars, waitVars, owner_thread, lifeVars>>

-----------------------------------------------------------------------------
(* KConditionVariable::WaitForAddress                                      *)

\* The early returns: the thread must terminate, the tag has changed, the
\* owner's handle is closed.
ArbitrateLockReturns(t) ==
    /\ \/ /\ t \in m_termination_requested
          /\ pc' = [pc EXCEPT ![t] = "run"]
       \/ /\ t \notin m_termination_requested
          /\ tag[m_address_key[t]] # Tagged(owner_thread[t], TRUE)
          /\ pc' = [pc EXCEPT ![t] = "lock"]
       \/ /\ t \notin m_termination_requested
          /\ tag[m_address_key[t]] = Tagged(owner_thread[t], TRUE)
          /\ owner_thread[t] \in finalized
          /\ pc' = [pc EXCEPT ![t] = "run"]
    /\ owner_thread' = [owner_thread EXCEPT ![t] = NoThread]
    /\ UNCHANGED <<priorityVars, waitVars>>

\* The wait; owner_thread stays referenced until it is over.
ArbitrateLockWaits(t) ==
    LET owner == [lock_owner EXCEPT ![t] = owner_thread[t]]
    IN  /\ t \notin m_termination_requested
        /\ tag[m_address_key[t]] = Tagged(owner_thread[t], TRUE)
        /\ owner_thread[t] \notin finalized
        /\ lock_owner' = owner
        /\ m_priority' = AddWaiter(owner_thread[t], t, m_priority, owner)
        /\ state' = [state EXCEPT ![t] = "Waiting"]
        /\ m_wait_queue' = [m_wait_queue EXCEPT ![t] = "address"]
        /\ pc' = [pc EXCEPT ![t] = "wait_address"]
        /\ UNCHANGED <<m_base_priority, m_condvar_tree, m_wait_result, m_hardware_timer_tasks,
                       owner_thread>>

WaitForAddress(t) ==
    /\ pc[t] = "arbitrate" /\ state[t] = "Runnable"
    /\ ArbitrateLockReturns(t) \/ ArbitrateLockWaits(t)
    /\ UNCHANGED <<memoryVars, m_address_key, held, lifeVars>>

\* The reference to the owner is closed; guest code looks at the tag again if
\* all went well.
WaitForAddressReturns(t) ==
    /\ pc[t] = "wait_address" /\ state[t] = "Runnable"
    /\ pc' = [pc EXCEPT ![t] = IF m_wait_result[t] = "Success" THEN "lock" ELSE "run"]
    /\ owner_thread' = [owner_thread EXCEPT ![t] = NoThread]
    /\ m_wait_result' = [m_wait_result EXCEPT ![t] = "Success"]
    /\ UNCHANGED <<memoryVars, priorityVars, lock_owner, m_condvar_tree, m_wait_queue, state,
                   m_hardware_timer_tasks, m_address_key, held, lifeVars>>

-----------------------------------------------------------------------------
(* Handing a mutex over: RemoveUserWaiterByKey and what its callers do      *)

Waiters(t, m) == {u \in Threads : lock_owner[u] = t /\ m_address_key[u] = m}

\* Who may get the mutex: a waiter of the highest priority, nobody if there
\* is none.
NextOwners(t, m) ==
    IF Waiters(t, m) = {} THEN {NoThread}
    ELSE {u \in Waiters(t, m) : \A v \in Waiters(t, m) : m_priority[u] <= m_priority[v]}

TagAfter(t, m, next) == Tagged(next, Waiters(t, m) \ {next} # {})

\* The waiters that are left now wait for next.
OwnersAfter(t, m, next) ==
    [u \in Threads |-> IF u \notin Waiters(t, m) THEN lock_owner[u]
                       ELSE IF u = next THEN NoThread ELSE next]

PrioritiesAfter(t, m, next) ==
    IF next = NoThread THEN m_priority
    ELSE RemoveWaiter(t, next, m_priority, m_base_priority, OwnersAfter(t, m, next))

\* EndWait: woken is a set of waiting threads.
EndWait(woken, result) ==
    /\ m_wait_result' = [t \in Threads |-> IF t \in woken THEN result[t] ELSE m_wait_result[t]]
    /\ m_hardware_timer_tasks' = m_hardware_timer_tasks \ woken

SignalToAddress(t) ==
    LET m == m_address_key[t]
    IN  /\ pc[t] = "unlock" /\ state[t] = "Runnable"
        /\ pc' = [pc EXCEPT ![t] = "run"]
        /\ \E next \in NextOwners(t, m) :
            /\ tag' = [tag EXCEPT ![m] = TagAfter(t, m, next)]
            /\ lock_owner' = OwnersAfter(t, m, next)
            /\ m_priority' = PrioritiesAfter(t, m, next)
            /\ EndWait({next} \cap Threads, [u \in {next} |-> "Success"])
            /\ state' = [u \in Threads |-> IF u = next THEN "Runnable" ELSE state[u]]
            /\ m_wait_queue' = [u \in Threads |-> IF u = next THEN "none" ELSE m_wait_queue[u]]
        /\ UNCHANGED <<has_waiter_flag, m_base_priority, m_condvar_tree, m_address_key,
                       owner_thread, held, lifeVars>>

-----------------------------------------------------------------------------
(* KConditionVariable::Wait and Signal                                     *)

\* Wait: hand the mutex over, then join the tree unless the timeout is zero.
\* (A thread that must terminate is sent back before anything changes.)
Wait(t, m, timeout) ==
    /\ pc[t] = "run" /\ state[t] = "Runnable"
    /\ t \notin m_termination_requested
    /\ m \in held[t] /\ \A h \in held[t] : h <= m
    /\ held' = [held EXCEPT ![t] = @ \ {m}]
    /\ m_address_key' = [m_address_key EXCEPT ![t] = m]
    /\ has_waiter_flag' = [has_waiter_flag EXCEPT ![m] = TRUE]
    /\ \E next \in NextOwners(t, m) :
        LET waits == {t} \cap {u \in Threads : timeout # "zero"}
            timer == IF timeout = "positive" THEN {t} ELSE {}
            change(u, other, same) == IF u = next THEN other ELSE same
        IN  /\ tag' = [tag EXCEPT ![m] = TagAfter(t, m, next)]
            /\ lock_owner' = OwnersAfter(t, m, next)
            /\ m_priority' = PrioritiesAfter(t, m, next)
            /\ m_wait_result' = [u \in Threads |->
                    IF u = t THEN "TimedOut" ELSE change(u, "Success", m_wait_result[u])]
            /\ m_hardware_timer_tasks' = (m_hardware_timer_tasks \ {next}) \cup timer
            /\ m_condvar_tree' = m_condvar_tree \cup waits
            /\ state' = [u \in Threads |->
                    IF u \in waits THEN "Waiting" ELSE change(u, "Runnable", state[u])]
            /\ m_wait_queue' = [u \in Threads |->
                    IF u \in waits THEN "condvar" ELSE change(u, "none", m_wait_queue[u])]
    /\ pc' = [pc EXCEPT ![t] = "wait_condvar"]
    /\ UNCHANGED <<m_base_priority, owner_thread, lifeVars>>

\* A thread that was signaled has its mutex; one that timed out locks it anew.
WaitReturns(t) ==
    /\ pc[t] = "wait_condvar" /\ state[t] = "Runnable"
    /\ LET m == m_address_key[t]
       IN  CASE m_wait_result[t] = "Success" ->
                    /\ held' = [held EXCEPT ![t] = @ \cup {m}]
                    /\ pc' = [pc EXCEPT ![t] = "run"]
             [] m_wait_result[t] = "TimedOut" ->
                    pc' = [pc EXCEPT ![t] = "lock"] /\ UNCHANGED held
             [] OTHER ->
                    pc' = [pc EXCEPT ![t] = "run"] /\ UNCHANGED held
    /\ m_wait_result' = [m_wait_result EXCEPT ![t] = "Success"]
    /\ UNCHANGED <<memoryVars, priorityVars, lock_owner, m_condvar_tree, m_wait_queue, state,
                   m_hardware_timer_tasks, m_address_key, owner_thread, lifeVars>>

\* Mutant: the tag is overwritten.
SignalImplSteals(s, t) == [s EXCEPT !.tag = Tagged(t, FALSE)]

\* SignalImpl on the state s of a Signal(): the mutex is free and now t's, or
\* t becomes a waiter of its owner, or the owner is gone.
SignalImpl(s, t) ==
    LET o == s.tag.owner
        owner == [s.owner EXCEPT ![t] = o]
    IN  IF s.tag = Free
        THEN [s EXCEPT !.tag = Tagged(t, FALSE)]
        ELSE IF o \notin finalized
        THEN [tag |-> Tagged(o, TRUE), owner |-> owner, prio |-> AddWaiter(o, t, s.prio, owner)]
        ELSE [s EXCEPT !.tag = Tagged(o, TRUE)]

\* The loop of Signal() over its targets; loop[n] is the state after n of them.
SignalLoop(m, targets) ==
    LET loop[n \in 0..Len(targets)] ==
            IF n = 0 THEN [tag |-> tag[m], owner |-> lock_owner, prio |-> m_priority]
            ELSE SignalImpl(loop[n - 1], targets[n])
    IN  loop[Len(targets)]

\* The orders in which the tree may hold the threads that wait on m
TreeOrders(m) ==
    LET waiting == {u \in m_condvar_tree : m_address_key[u] = m}
    IN  {s \in SetToSeqs(waiting) :
            \A i, j \in DOMAIN s : i < j => m_priority[s[i]] <= m_priority[s[j]]}

\* Mutant: it is always cleared.
KeepsFlagNever(n, order) == FALSE

\* The has-waiter flag is cleared when nobody is left in the tree.
KeepsFlag(n, order) == n < Len(order)

\* Signal: the first count threads of the tree, all of them if count <= 0.
Signal(t, m, count) ==
    /\ pc[t] = "run" /\ state[t] = "Runnable"
    /\ \E order \in TreeOrders(m) :
        LET n == IF count <= 0 \/ count > Len(order) THEN Len(order) ELSE count
            targets == SubSeq(order, 1, n)
            s == SignalLoop(m, targets)
            woken == {u \in ToSet(targets) : s.owner[u] = NoThread}
        IN  /\ tag' = [tag EXCEPT ![m] = s.tag]
            /\ lock_owner' = s.owner
            /\ m_priority' = s.prio
            /\ m_condvar_tree' = m_condvar_tree \ ToSet(targets)
            /\ EndWait(woken, [u \in woken |-> IF s.tag.owner = u THEN "Success"
                                                ELSE "InvalidState"])
            /\ state' = [u \in Threads |-> IF u \in woken THEN "Runnable" ELSE state[u]]
            /\ m_wait_queue' = [u \in Threads |-> IF u \in woken THEN "none" ELSE m_wait_queue[u]]
            /\ has_waiter_flag' = [has_waiter_flag EXCEPT ![m] = @ /\ KeepsFlag(n, order)]
    /\ UNCHANGED <<m_base_priority, m_address_key, guestVars, lifeVars>>

-----------------------------------------------------------------------------
(* What ends a wait from outside, and the end of a thread                  *)

\* Mutant: the thread stays in the condition variable's tree.
CancelWaitInTree(t, result, prio, base) ==
    LET owner == [lock_owner EXCEPT ![t] = NoThread]
    IN  /\ lock_owner' = owner
        /\ m_priority' = IF lock_owner[t] = NoThread THEN prio
                         ELSE RemoveWaiter(lock_owner[t], t, prio, base, owner)
        /\ m_wait_queue' = [m_wait_queue EXCEPT ![t] = "none"]
        /\ state' = [state EXCEPT ![t] = "Runnable"]
        /\ m_wait_result' = [m_wait_result EXCEPT ![t] = result]
        /\ m_hardware_timer_tasks' = m_hardware_timer_tasks \ {t}
        /\ UNCHANGED m_condvar_tree

\* CancelWait of the two queues, with prio the priorities to start from.
CancelWait(t, result, prio, base) ==
    LET owner == [lock_owner EXCEPT ![t] = NoThread]
    IN  /\ lock_owner' = owner
        /\ m_priority' = IF lock_owner[t] = NoThread THEN prio
                         ELSE RemoveWaiter(lock_owner[t], t, prio, base, owner)
        /\ m_condvar_tree' = m_condvar_tree \ {t}
        /\ m_wait_queue' = [m_wait_queue EXCEPT ![t] = "none"]
        /\ state' = [state EXCEPT ![t] = "Runnable"]
        /\ m_wait_result' = [m_wait_result EXCEPT ![t] = result]
        /\ m_hardware_timer_tasks' = m_hardware_timer_tasks \ {t}

OnTimer(t) ==
    /\ t \in m_hardware_timer_tasks
    /\ CancelWait(t, "TimedOut", m_priority, m_base_priority)
    /\ UNCHANGED <<memoryVars, m_base_priority, m_address_key, guestVars, lifeVars>>

SetBasePriority(t, value) ==
    LET base == [m_base_priority EXCEPT ![t] = value]
    IN  /\ t \in Adjustable \ finalized
        /\ m_base_priority' = base
        /\ m_priority' = RestorePriority(t, m_priority, base, lock_owner)
        /\ UNCHANGED <<memoryVars, waitVars, m_address_key, guestVars, lifeVars>>

\* RequestTerminate: IncreaseBasePriority, which leaves a higher priority as it
\* is, then wake the thread.
RequestTerminate(t) ==
    LET raises == m_base_priority[t] > TerminatingThreadPriority
        base == IF raises THEN [m_base_priority EXCEPT ![t] = TerminatingThreadPriority]
                ELSE m_base_priority
        prio == IF raises THEN RestorePriority(t, m_priority, base, lock_owner) ELSE m_priority
    IN  /\ t \in Terminable \ m_termination_requested
        /\ state[t] # "Terminated"
        /\ m_termination_requested' = m_termination_requested \cup {t}
        /\ m_base_priority' = base
        /\ IF state[t] = "Waiting"
           THEN CancelWait(t, "TerminationRequested", prio, base)
           ELSE m_priority' = prio /\ UNCHANGED waitVars
        /\ UNCHANGED <<memoryVars, m_address_key, guestVars, finalized, null_owner>>

\* A thread exits by svcExitThread, or because it was asked to terminate and
\* is in guest code, with whatever mutexes it holds.
Exit(t) ==
    /\ pc[t] \in {"run", "lock"} /\ state[t] = "Runnable"
    /\ t \in Terminable
    /\ pc' = [pc EXCEPT ![t] = "gone"]
    /\ state' = [state EXCEPT ![t] = "Terminated"]
    /\ UNCHANGED <<memoryVars, priorityVars, lock_owner, m_condvar_tree, m_wait_queue,
                   m_wait_result, m_hardware_timer_tasks, m_address_key, owner_thread, held,
                   lifeVars>>

\* KThread::Finalize, when the last reference is closed: every waiter is
\* removed from the lock first and its wait cancelled afterwards.
Finalize(t) ==
    LET waiters == {u \in Threads : lock_owner[u] = t}
    IN  /\ state[t] = "Terminated" /\ t \notin finalized
        /\ \A u \in Threads : pc[u] = "wait_address" => owner_thread[u] # t
        /\ finalized' = finalized \cup {t}
        /\ null_owner' = (null_owner \/ \E u \in waiters : m_wait_queue[u] = "address")
        /\ lock_owner' = [u \in Threads |-> IF u \in waiters THEN NoThread ELSE lock_owner[u]]
        /\ EndWait(waiters, [u \in waiters |-> "InvalidState"])
        /\ m_wait_queue' = [u \in Threads |-> IF u \in waiters THEN "none" ELSE m_wait_queue[u]]
        /\ state' = [u \in Threads |-> IF u \in waiters THEN "Runnable" ELSE state[u]]
        /\ UNCHANGED <<memoryVars, priorityVars, m_condvar_tree, m_address_key, guestVars,
                       m_termination_requested>>

-----------------------------------------------------------------------------
\* The null pointer that Finalize may run into is the end of the program.
Next ==
    /\ ~null_owner
    /\ \/ \E t \in Threads, m \in Mutexes :
            \/ GuestLock(t, m) \/ GuestUnlock(t, m)
            \/ \E timeout \in Timeouts : Wait(t, m, timeout)
            \/ \E count \in 0..1 : Signal(t, m, count)
       \/ \E t \in Threads :
            \/ GuestTryLock(t)
            \/ WaitForAddress(t) \/ WaitForAddressReturns(t) \/ SignalToAddress(t)
            \/ WaitReturns(t)
            \/ OnTimer(t)
            \/ RequestTerminate(t) \/ Exit(t) \/ Finalize(t)
            \/ \E value \in Priorities : SetBasePriority(t, value)

Spec == Init /\ [][Next]_vars

-----------------------------------------------------------------------------
(* Properties                                                              *)

\* Guest mutexes exclude each other's holders: whoever believes to hold one
\* is the owner its tag names, through every hand-over by unlock, wait and
\* signal and whatever timeouts and terminations cut short.
TagNamesHolder ==
    \A t \in Threads : \A m \in held[t] : tag[m].owner = t

\* A thread that waits for a mutex waits for the thread the tag names, and
\* the wait bit is set: the owner cannot unlock without calling the kernel.
WaitersAreMarked ==
    \A t \in Threads : lock_owner[t] # NoThread =>
        tag[m_address_key[t]] = Tagged(lock_owner[t], TRUE)

\* The word in guest memory and the kernel's lists agree on who owns a mutex
\* and who waits for it.
TagNamesOwner == TagNamesHolder /\ WaitersAreMarked

\* A waiting thread is in one place from where it is woken: in the condition
\* variable's tree or among the waiters of an owner, never in both, and a
\* running one is in neither.
WaitsInOnePlace ==
    \A t \in Threads :
        (state[t] = "Waiting") <=> ((t \in m_condvar_tree) # (lock_owner[t] # NoThread))

\* A thread has the highest priority among its own and those of the threads
\* that wait for it, directly or through others, after every sequence of
\* locks, hand-overs, timeouts, terminations and priority changes.
PriorityIsInherited ==
    \A t \in Threads \ finalized :
        m_priority[t] = Inherited(t, m_priority, m_base_priority, lock_owner)

\* The word at a condition variable's key is set while threads wait on it, so
\* guest code that looks at it before it signals does not forget them.
FlagCoversWaiters ==
    \A t \in m_condvar_tree : has_waiter_flag[m_address_key[t]]

\* WaitForAddress keeps a reference to the owner, "now that the wait is over"
\* closed, and its CancelWait asks the lock owner to remove the waiter: there
\* is one whenever it is called.
CancelFindsOwner == ~null_owner
=============================================================================
