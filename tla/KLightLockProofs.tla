-------------------------- MODULE KLightLockProofs --------------------------
(***************************************************************************)
(* For any number of threads, locks and suspend types: the light lock      *)
(* excludes, loses no waiter, and a thread others wait for is suspended by *)
(* nothing but a Resume.                                                   *)
(*                                                                         *)
(* MutualExclusion is not inductive.  LockInv ties the tag to the one      *)
(* thread that owns the lock: a thread owns it from the moment it is       *)
(* handed over in UnlockSlowPath, before it has run again.                 *)
(***************************************************************************)
EXTENDS KLightLock, TLAPS

\* t owns l: it is inside, or it was made the owner while it waited.
Owns(t, l) ==
    \/ l \in held[t]
    \/ pc[t] = "wait" /\ state[t] = "Runnable" /\ target[t] = l

\* Only a thread inside LockSlowPath waits, and it has an owner to wait for.
WaitInv ==
    /\ \A t \in Threads : state[t] = "Waiting" => pc[t] = "wait"
    /\ \A t \in Threads : state[t] = "Waiting" <=> lock_owner[t] # NoThread

\* A tag without an owner is zero; the tag a slow path works with has one.
TagInv ==
    /\ \A l \in Locks : m_tag[l].owner = NoThread => m_tag[l] = Zero
    /\ \A t \in Threads : pc[t] = "cas" => (old_tag[t] = Zero \/ old_tag[t].owner \in Threads)
    /\ \A t \in Threads : pc[t] = "slow" => old_tag[t].owner \in Threads
    /\ \A t \in Threads : pc[t] = "unlock_slow" => target[t] \in held[t]

\* The tag names the owner, and its low bit is set while somebody waits.
OwnerInv ==
    cancelled = {} =>
        /\ \A t \in Threads, l \in Locks : m_tag[l].owner = t <=> Owns(t, l)
        /\ \A t \in Threads : state[t] = "Waiting" =>
                m_tag[target[t]].owner = lock_owner[t] /\ m_tag[target[t]].wait

LockInv == TypeOK /\ WaitInv /\ TagInv /\ OwnerInv

\* The flags stored in a thread's state were all asked for.
FlagsInv == \A t \in Threads : suspended[t] \subseteq SuspendFlags(t)

-----------------------------------------------------------------------------
LEMMA TagFacts ==
    /\ Zero \in Tag /\ Zero.owner = NoThread
    /\ \A t \in Threads \cup {NoThread}, w \in BOOLEAN :
            Tagged(t, w) \in Tag /\ Tagged(t, w).owner = t /\ Tagged(t, w).wait = w
    /\ \A x \in Tag : /\ x.owner \in Threads \cup {NoThread}
                      /\ x.wait \in BOOLEAN
                      /\ x = Tagged(x.owner, x.wait)
BY DEF Tag, Zero, Tagged

LEMMA TypeStep == TypeOK /\ [Next]_vars => TypeOK'
<1> SUFFICES ASSUME TypeOK, [Next]_vars PROVE TypeOK'
  OBVIOUS
<1> USE DEF TypeOK, PCs, lockVars, waitVars,
                                suspendVars, terminateVars
<1>1. ASSUME NEW t \in Threads, NEW l \in Locks, Lock(t, l) PROVE TypeOK'
  BY <1>1 DEF Lock, LoadTag
<1>2. ASSUME NEW t \in Threads, NEW l \in Locks, Unlock(t, l) PROVE TypeOK'
  <2>1. held[t] \ {l} \in SUBSET Locks /\ Zero \in Tag
    BY TagFacts
  <2>2. CASE m_tag[l] = Tagged(t, FALSE)
    BY <1>2, <2>1, <2>2 DEF Unlock
  <2>3. CASE m_tag[l] # Tagged(t, FALSE)
    BY <1>2, <2>3 DEF Unlock
  <2> QED
    BY <2>2, <2>3
<1>3. ASSUME NEW t \in Threads, LockCompareExchange(t) PROVE TypeOK'
  <2> DEFINE l == target[t]
  <2>1. held[t] \cup {l} \in SUBSET Locks
    OBVIOUS
  <2>5. Zero \in Tag /\ Tagged(t, FALSE) \in Tag /\ Tagged(m_tag[l].owner, TRUE) \in Tag
    BY TagFacts
  <2>2. CASE TakeFreeLock(t, l)
    BY <1>3, <2>1, <2>2, <2>5 DEF LockCompareExchange, TakeFreeLock
  <2>3. CASE MarkWaiters(t, l)
    BY <1>3, <2>3, <2>5 DEF LockCompareExchange, MarkWaiters
  <2>4. CASE ReloadTag(t, l)
    BY <1>3, <2>4 DEF LockCompareExchange, ReloadTag
  <2> QED
    BY <1>3, <2>2, <2>3, <2>4 DEF LockCompareExchange
<1>4. ASSUME NEW t \in Threads, LockSlowPath(t) PROVE TypeOK'
  <2>1. CASE RetryLock(t, target[t], old_tag[t].owner)
    BY <1>4, <2>1 DEF LockSlowPath, RetryLock, LoadTag
  <2>2. CASE WaitForOwner(t, target[t], old_tag[t].owner)
    <3>1. suspended' \in [Threads -> SUBSET SuspendTypes]
      BY <2>2 DEF WaitForOwner, Continue
    <3>2. Zero \in Tag /\ old_tag[t].owner \in Threads \cup {NoThread}
      BY TagFacts
    <3> QED
      BY <1>4, <2>2, <3>1, <3>2 DEF LockSlowPath, WaitForOwner, BeginWait
  <2> QED
    BY <1>4, <2>1, <2>2 DEF LockSlowPath
<1>5. ASSUME NEW t \in Threads, LockReturns(t) PROVE TypeOK'
  BY <1>5 DEF LockReturns
<1>6. ASSUME NEW t \in Threads, UnlockSlowPath(t) PROVE TypeOK'
  <2>1. \A next, owner : FlagsAfterUnlock(t, next, owner) \in [Threads -> SUBSET SuspendTypes]
    BY DEF FlagsAfterUnlock, TrySuspend, SuspendFlags
  <2>2. \A next \in Threads : RemoveKernelWaiterByKey(t, target[t], next)
                                  \in [Threads -> Threads \cup {NoThread}]
    BY DEF RemoveKernelWaiterByKey
  <2>3. Waiters(t, target[t]) \subseteq Threads /\ held[t] \ {target[t]} \in SUBSET Locks
    BY DEF Waiters
  <2>6. Zero \in Tag /\ \A u \in Threads, w \in BOOLEAN : Tagged(u, w) \in Tag
    BY TagFacts
  <2>4. CASE ReleaseLock(t, target[t])
    BY <1>6, <2>1, <2>3, <2>4, <2>6 DEF UnlockSlowPath, ReleaseLock
  <2>5. ASSUME NEW next \in Threads, HandOver(t, target[t], next) PROVE TypeOK'
    BY <1>6, <2>1, <2>2, <2>3, <2>5, <2>6 DEF UnlockSlowPath, HandOver
  <2> QED
    BY <1>6, <2>3, <2>4, <2>5 DEF UnlockSlowPath
<1>7. ASSUME NEW t \in Threads, RequestTerminate(t) PROVE TypeOK'
  BY <1>7 DEF RequestTerminate
<1>8. ASSUME NEW t \in Threads, NEW type \in SuspendTypes, RequestSuspend(t, type)
      PROVE TypeOK'
  BY <1>8 DEF RequestSuspend, TrySuspend
<1>9. ASSUME NEW t \in Threads, NEW type \in SuspendTypes, Resume(t, type) PROVE TypeOK'
  BY <1>9 DEF Resume
<1>10. CASE UNCHANGED vars
  BY <1>10 DEF vars
<1> QED
  BY <1>1, <1>2, <1>3, <1>4, <1>5, <1>6, <1>7, <1>8, <1>9, <1>10 DEF Next, Step


\* The variables keep their types: no interleaving of Lock(), Unlock(),
\* suspension and termination stores a malformed tag, owner or state.
THEOREM TypeCorrect == Spec => []TypeOK
<1>1. Init => TypeOK
  BY ConstantsAssumption, TagFacts DEF Init, TypeOK, PCs
<1> QED
  BY <1>1, TypeStep, PTL DEF Spec

-----------------------------------------------------------------------------
LEMMA InitLockInv == Init => LockInv
<1> SUFFICES ASSUME Init PROVE LockInv
  OBVIOUS
<1>1. TypeOK
  BY ConstantsAssumption, TagFacts DEF Init, TypeOK, PCs
<1>2. WaitInv /\ TagInv
  BY DEF Init, WaitInv, TagInv
<1>3. OwnerInv
  <2>1. \A l \in Locks : m_tag[l].owner = NoThread
    BY TagFacts DEF Init
  <2> QED
    BY <2>1, ConstantsAssumption DEF Init, OwnerInv, Owns
<1> QED
  BY <1>1, <1>2, <1>3 DEF LockInv

\* Lock(): entering it changes neither a tag nor a wait.
LEMMA LockStep ==
    ASSUME LockInv, NEW t \in Threads, NEW l \in Locks, Lock(t, l)
    PROVE  WaitInv' /\ TagInv' /\ OwnerInv'
<1> USE DEF LockInv, TypeOK, Lock, LoadTag, waitVars, terminateVars
<1>1. WaitInv'
  BY DEF WaitInv
<1>2. TagInv'
  <2>1. m_tag[l] = Zero \/ m_tag[l].owner \in Threads
    BY TagFacts DEF TagInv
  <2> QED
    BY <2>1 DEF TagInv
<1>3. OwnerInv'
  <2> SUFFICES ASSUME cancelled = {}, NEW u \in Threads, NEW k \in Locks
               PROVE  /\ (m_tag[k].owner = u <=> Owns(u, k))'
                      /\ state[u] = "Waiting" => target'[u] = target[u]
    BY DEF OwnerInv
  <2> QED
    BY DEF OwnerInv, Owns
<1> QED
  BY <1>1, <1>2, <1>3

\* Unlock() takes the fast path only when nobody waits for the lock.
LEMMA UnlockStep ==
    ASSUME LockInv, NEW t \in Threads, NEW l \in Locks, Unlock(t, l)
    PROVE  WaitInv' /\ TagInv' /\ OwnerInv'
<1> USE DEF LockInv, TypeOK, waitVars, terminateVars
<1>1. WaitInv'
  BY DEF WaitInv, Unlock
<1>2. TagInv'
  <2>1. Zero.owner = NoThread
    BY TagFacts
  <2>2. CASE m_tag[l] = Tagged(t, FALSE)
    BY <2>1, <2>2 DEF TagInv, Unlock
  <2>3. CASE m_tag[l] # Tagged(t, FALSE)
    BY <2>3 DEF TagInv, Unlock
  <2> QED
    BY <2>2, <2>3
<1>3. OwnerInv'
  <2> SUFFICES ASSUME cancelled = {}, NEW u \in Threads, NEW k \in Locks
               PROVE  /\ (m_tag[k].owner = u <=> Owns(u, k))'
                      /\ state[u] = "Waiting" => /\ u # t
                                                 /\ m_tag'[target[u]] = m_tag[target[u]]
    BY DEF OwnerInv, Unlock
  <2>1. CASE m_tag[l] = Tagged(t, FALSE)
    <3>1. Zero.owner = NoThread /\ m_tag[l].owner = t /\ ~m_tag[l].wait
      BY <2>1 DEF Tagged, Zero
    <3>2. /\ m_tag' = [m_tag EXCEPT ![l] = Zero]
          /\ held' = [held EXCEPT ![t] = @ \ {l}]
          /\ target' = [target EXCEPT ![t] = l]
          /\ UNCHANGED <<pc, state>>
          /\ pc[t] = "run" /\ state[t] = "Runnable"
      BY <2>1 DEF Unlock
    <3> QED
      BY <3>1, <3>2, ConstantsAssumption DEF OwnerInv, Owns
  <2>2. CASE m_tag[l] # Tagged(t, FALSE)
    <3>1. /\ target' = [target EXCEPT ![t] = l]
          /\ pc' = [pc EXCEPT ![t] = "unlock_slow"]
          /\ UNCHANGED <<m_tag, held, state>>
          /\ pc[t] = "run" /\ state[t] = "Runnable"
      BY <2>2 DEF Unlock
    <3> QED
      BY <3>1 DEF OwnerInv, Owns
  <2> QED
    BY <2>1, <2>2
<1> QED
  BY <1>1, <1>2, <1>3

\* The compare-exchange takes a lock only from nobody.
LEMMA TakeFreeLockStep ==
    ASSUME LockInv, NEW t \in Threads, LockCompareExchange(t), TakeFreeLock(t, target[t])
    PROVE  WaitInv' /\ TagInv' /\ OwnerInv'
<1> USE DEF LockInv, TypeOK, LockCompareExchange, TakeFreeLock, waitVars, terminateVars
<1>1. Tagged(t, FALSE).owner = t /\ m_tag[target[t]].owner = NoThread
  BY DEF Tagged, Zero
<1>2. WaitInv'
  BY DEF WaitInv
<1>3. TagInv'
  BY <1>1, ConstantsAssumption DEF TagInv
<1>4. OwnerInv'
  <2>1. UNCHANGED <<state, target, lock_owner, cancelled>>
    OBVIOUS
  <2>2. ASSUME cancelled = {}, NEW u \in Threads, state[u] = "Waiting"
        PROVE  m_tag'[target[u]] = m_tag[target[u]]
    <3>1. m_tag[target[u]].owner = lock_owner[u] /\ lock_owner[u] # NoThread
      BY <2>2 DEF OwnerInv, WaitInv
    <3>2. target[u] # target[t]
      BY <1>1, <3>1
    <3> QED
      BY <3>2
  <2>3. ASSUME cancelled = {}, NEW u \in Threads, NEW k \in Locks
        PROVE  (m_tag[k].owner = u <=> Owns(u, k))'
    <3>1. m_tag[k].owner = u <=> Owns(u, k)
      BY <2>3 DEF OwnerInv
    <3>2. m_tag'[k].owner = IF k = target[t] THEN t ELSE m_tag[k].owner
      BY <1>1
    <3>3. Owns(u, k)' <=> Owns(u, k) \/ (u = t /\ k = target[t])
      BY DEF Owns
    <3> QED
      BY <1>1, <3>1, <3>2, <3>3, ConstantsAssumption DEF Owns
  <2> HIDE DEF LockInv, TypeOK, LockCompareExchange, TakeFreeLock
  <2> QED
    BY <2>1, <2>2, <2>3 DEF OwnerInv, LockInv
<1> QED
  BY <1>2, <1>3, <1>4

\* Setting the low bit leaves the owner alone.
LEMMA MarkWaitersStep ==
    ASSUME LockInv, NEW t \in Threads, LockCompareExchange(t), MarkWaiters(t, target[t])
    PROVE  WaitInv' /\ TagInv' /\ OwnerInv'
<1> USE DEF LockInv, TypeOK, LockCompareExchange, MarkWaiters, waitVars, terminateVars
<1>1. Tagged(m_tag[target[t]].owner, TRUE).owner = m_tag[target[t]].owner
      /\ Tagged(m_tag[target[t]].owner, TRUE).wait
  BY DEF Tagged
<1>2. WaitInv'
  BY DEF WaitInv
<1>3. TagInv'
  <2>1. old_tag[t].owner \in Threads
    BY DEF TagInv
  <2> QED
    BY <1>1, <2>1, ConstantsAssumption DEF TagInv
<1>4. OwnerInv'
  <2> SUFFICES ASSUME cancelled = {}, NEW u \in Threads, NEW k \in Locks
               PROVE  /\ (m_tag[k].owner = u <=> Owns(u, k))'
                      /\ m_tag'[k].owner = m_tag[k].owner
                      /\ m_tag[k].wait => m_tag'[k].wait
    BY DEF OwnerInv
  <2>1. m_tag'[k].owner = m_tag[k].owner /\ (m_tag[k].wait => m_tag'[k].wait)
    BY <1>1
  <2>2. m_tag[k].owner = u <=> Owns(u, k)
    BY DEF OwnerInv
  <2>3. Owns(u, k)' <=> Owns(u, k)
    BY DEF Owns
  <2> QED
    BY <2>1, <2>2, <2>3 DEF Owns
<1> QED
  BY <1>2, <1>3, <1>4

LEMMA ReloadTagStep ==
    ASSUME LockInv, NEW t \in Threads, LockCompareExchange(t), ReloadTag(t, target[t])
    PROVE  WaitInv' /\ TagInv' /\ OwnerInv'
<1> USE DEF LockInv, TypeOK, LockCompareExchange, ReloadTag, waitVars, terminateVars
<1>1. WaitInv' /\ OwnerInv'
  BY DEF WaitInv, OwnerInv, Owns
<1>2. TagInv'
  <2>1. m_tag[target[t]] = Zero \/ m_tag[target[t]].owner \in Threads
    BY TagFacts DEF TagInv
  <2> QED
    BY <2>1 DEF TagInv
<1> QED
  BY <1>1, <1>2

LEMMA RetryLockStep ==
    ASSUME LockInv, NEW t \in Threads, LockSlowPath(t),
           RetryLock(t, target[t], old_tag[t].owner)
    PROVE  WaitInv' /\ TagInv' /\ OwnerInv'
<1> USE DEF LockInv, TypeOK, LockSlowPath, RetryLock, LoadTag, waitVars, terminateVars
<1>1. WaitInv'
  BY DEF WaitInv
<1>2. OwnerInv'
  <2> SUFFICES ASSUME cancelled = {}, NEW u \in Threads, NEW k \in Locks
               PROVE  /\ (m_tag[k].owner = u <=> Owns(u, k))'
                      /\ target'[u] = target[u]
    BY DEF OwnerInv
  <2> QED
    BY DEF OwnerInv, Owns
<1>3. TagInv'
  <2>1. m_tag[target[t]] = Zero \/ m_tag[target[t]].owner \in Threads
    BY TagFacts DEF TagInv
  <2> QED
    BY <2>1 DEF TagInv
<1> QED
  BY <1>1, <1>2, <1>3

\* A thread starts to wait only behind the owner the tag names at that moment.
LEMMA WaitForOwnerStep ==
    ASSUME LockInv, NEW t \in Threads, LockSlowPath(t),
           WaitForOwner(t, target[t], old_tag[t].owner)
    PROVE  WaitInv' /\ TagInv' /\ OwnerInv'
<1> USE DEF LockInv, TypeOK, LockSlowPath, WaitForOwner, BeginWait, terminateVars
<1>1. old_tag[t].owner \in Threads
  BY DEF TagInv
<1>2. m_tag[target[t]].owner = old_tag[t].owner /\ m_tag[target[t]].wait
  BY DEF Tagged
<1>3. WaitInv'
  BY <1>1, ConstantsAssumption DEF WaitInv
<1>4. TagInv'
  BY DEF TagInv
<1>5. OwnerInv'
  <2>1. UNCHANGED <<m_tag, target, cancelled>>
    OBVIOUS
  <2>2. ASSUME cancelled = {}, NEW u \in Threads, state'[u] = "Waiting"
        PROVE  m_tag[target[u]].owner = lock_owner'[u] /\ m_tag[target[u]].wait
    <3>1. CASE u = t
      BY <1>2, <3>1
    <3>2. CASE u # t
      BY <2>2, <3>2 DEF OwnerInv
    <3> QED
      BY <3>1, <3>2
  <2>3. ASSUME cancelled = {}, NEW u \in Threads, NEW k \in Locks
        PROVE  (m_tag[k].owner = u <=> Owns(u, k))'
    <3>1. m_tag[k].owner = u <=> Owns(u, k)
      BY <2>3 DEF OwnerInv
    <3>2. Owns(u, k)' <=> Owns(u, k)
      BY DEF Owns
    <3> QED
      BY <3>1, <3>2 DEF Owns
  <2> HIDE DEF LockInv, TypeOK, LockSlowPath, WaitForOwner, BeginWait
  <2> QED
    BY <2>1, <2>2, <2>3 DEF OwnerInv
<1> QED
  BY <1>3, <1>4, <1>5

\* A woken thread finds itself the owner it was made.
LEMMA LockReturnsStep ==
    ASSUME LockInv, NEW t \in Threads, LockReturns(t)
    PROVE  WaitInv' /\ TagInv' /\ OwnerInv'
<1> USE DEF LockInv, TypeOK, LockReturns, waitVars, terminateVars
<1>1. WaitInv' /\ TagInv'
  BY DEF WaitInv, TagInv
<1>2. OwnerInv'
  <2> SUFFICES ASSUME cancelled = {}, NEW u \in Threads, NEW k \in Locks
               PROVE  (m_tag[k].owner = u <=> Owns(u, k))'
    BY DEF OwnerInv
  <2> QED
    BY DEF OwnerInv, Owns
<1> QED
  BY <1>1, <1>2

\* In the slow path, the thread that unlocks owns the lock and everybody who
\* waits for the lock waits behind it.
LEMMA UnlockSlowPathFacts ==
    ASSUME LockInv, NEW t \in Threads, pc[t] = "unlock_slow"
    PROVE  /\ state[t] = "Runnable"
           /\ \A u \in Waiters(t, target[t]) :
                u \in Threads /\ state[u] = "Waiting" /\ pc[u] = "wait" /\ target[u] = target[t]
           /\ cancelled = {} =>
                /\ m_tag[target[t]].owner = t
                /\ \A u \in Threads : state[u] = "Waiting" /\ target[u] = target[t] =>
                        u \in Waiters(t, target[t])
<1> USE DEF LockInv, TypeOK
<1>1. state[t] = "Runnable"
  BY DEF WaitInv
<1>2. \A u \in Waiters(t, target[t]) :
         u \in Threads /\ state[u] = "Waiting" /\ pc[u] = "wait" /\ target[u] = target[t]
  BY ConstantsAssumption DEF Waiters, WaitInv
<1>3. ASSUME cancelled = {} PROVE m_tag[target[t]].owner = t
  <2>1. target[t] \in held[t] /\ target[t] \in Locks
    BY DEF TagInv
  <2> QED
    BY <1>3, <2>1 DEF OwnerInv, Owns
<1>4. ASSUME cancelled = {}, NEW u \in Threads, state[u] = "Waiting", target[u] = target[t]
      PROVE  u \in Waiters(t, target[t])
  BY <1>3, <1>4 DEF OwnerInv, Waiters
<1> QED
  BY <1>1, <1>2, <1>3, <1>4

LEMMA ReleaseLockStep ==
    ASSUME LockInv, NEW t \in Threads, UnlockSlowPath(t), ReleaseLock(t, target[t])
    PROVE  WaitInv' /\ TagInv' /\ OwnerInv'
<1> DEFINE l == target[t]
<1>1. /\ pc[t] = "unlock_slow" /\ Waiters(t, l) = {}
      /\ m_tag' = [m_tag EXCEPT ![l] = Zero]
      /\ pc' = [pc EXCEPT ![t] = "run"]
      /\ held' = [held EXCEPT ![t] = @ \ {l}]
      /\ UNCHANGED <<target, old_tag, lock_owner, state, cancelled>>
  BY DEF UnlockSlowPath, ReleaseLock, waitVars, terminateVars
<1>2. Zero.owner = NoThread
  BY DEF Zero, Tagged
<1>3. state[t] = "Runnable"
  BY <1>1, UnlockSlowPathFacts
<1>4. TypeOK /\ l \in Locks
  BY DEF LockInv, TypeOK
<1>5. WaitInv' /\ TagInv'
  BY <1>1, <1>2, <1>3, <1>4 DEF LockInv, TypeOK, WaitInv, TagInv
<1>6. ASSUME cancelled = {}, NEW u \in Threads, NEW k \in Locks
      PROVE  (m_tag[k].owner = u <=> Owns(u, k))'
  <2>1. m_tag[k].owner = u <=> Owns(u, k)
    BY <1>6 DEF LockInv, OwnerInv
  <2>2. m_tag[l].owner = t
    BY <1>1, <1>6, UnlockSlowPathFacts
  <2>3. m_tag'[k].owner = IF k = l THEN NoThread ELSE m_tag[k].owner
    BY <1>1, <1>2, <1>4 DEF TypeOK
  <2>4. Owns(u, k)' <=> Owns(u, k) /\ ~(u = t /\ k = l)
    BY <1>1, <1>4 DEF Owns, TypeOK
  <2> QED
    BY <2>1, <2>2, <2>3, <2>4, ConstantsAssumption DEF Owns
<1>7. ASSUME cancelled = {}, NEW u \in Threads, state[u] = "Waiting"
      PROVE  m_tag'[target[u]] = m_tag[target[u]]
  <2>1. target[u] # l
    BY <1>1, <1>7, UnlockSlowPathFacts
  <2> QED
    BY <1>1, <1>4, <2>1 DEF TypeOK
<1>8. OwnerInv'
  BY <1>1, <1>6, <1>7 DEF OwnerInv, LockInv
<1> QED
  BY <1>5, <1>8

LEMMA HandOverStep ==
    ASSUME LockInv, NEW t \in Threads, UnlockSlowPath(t),
           NEW next \in Waiters(t, target[t]), HandOver(t, target[t], next)
    PROVE  WaitInv' /\ TagInv' /\ OwnerInv'
<1> DEFINE l == target[t]
           rest == Waiters(t, l) # {next}
<1>1. /\ pc[t] = "unlock_slow"
      /\ m_tag' = [m_tag EXCEPT ![l] = Tagged(next, rest)]
      /\ pc' = [pc EXCEPT ![t] = "run"]
      /\ held' = [held EXCEPT ![t] = @ \ {l}]
      /\ lock_owner' = RemoveKernelWaiterByKey(t, l, next)
      /\ state' = [state EXCEPT ![next] = "Runnable"]
      /\ UNCHANGED <<target, old_tag, cancelled>>
  BY DEF UnlockSlowPath, HandOver, terminateVars
<1>2. Tagged(next, rest).owner = next /\ Tagged(next, rest).wait = rest
  BY DEF Tagged
<1>3. /\ state[t] = "Runnable" /\ next # t
      /\ next \in Threads /\ state[next] = "Waiting" /\ pc[next] = "wait" /\ target[next] = l
  BY <1>1, UnlockSlowPathFacts
<1>4. TypeOK /\ l \in Locks
  BY DEF LockInv, TypeOK
<1>5. WaitInv'
  <2> SUFFICES ASSUME NEW u \in Threads
               PROVE  /\ state'[u] = "Waiting" => pc'[u] = "wait"
                      /\ state'[u] = "Waiting" <=> lock_owner'[u] # NoThread
    BY DEF WaitInv
  <2>1. /\ state[u] = "Waiting" => pc[u] = "wait"
        /\ state[u] = "Waiting" <=> lock_owner[u] # NoThread
    BY DEF LockInv, WaitInv
  <2>2. u \in Waiters(t, l) => state[u] = "Waiting"
    BY <1>1, UnlockSlowPathFacts
  <2> QED
    BY <1>1, <1>3, <1>4, <2>1, <2>2, ConstantsAssumption DEF RemoveKernelWaiterByKey, TypeOK
<1>6. TagInv'
  BY <1>1, <1>2, <1>3, <1>4, ConstantsAssumption DEF LockInv, TypeOK, TagInv
<1>7. ASSUME cancelled = {}, NEW u \in Threads, NEW k \in Locks
      PROVE  (m_tag[k].owner = u <=> Owns(u, k))'
  <2>1. m_tag[k].owner = u <=> Owns(u, k)
    BY <1>7 DEF LockInv, OwnerInv
  <2>2. m_tag[l].owner = t
    BY <1>1, <1>7, UnlockSlowPathFacts
  <2>3. m_tag'[k].owner = IF k = l THEN next ELSE m_tag[k].owner
    BY <1>1, <1>2, <1>4 DEF TypeOK
  <2>4. Owns(u, k)' <=> (Owns(u, k) /\ ~(u = t /\ k = l)) \/ (u = next /\ k = l)
    BY <1>1, <1>3, <1>4 DEF Owns, TypeOK
  <2> QED
    BY <1>3, <2>1, <2>2, <2>3, <2>4 DEF Owns
<1>8. ASSUME cancelled = {}, NEW u \in Threads, state'[u] = "Waiting"
      PROVE  m_tag'[target[u]].owner = lock_owner'[u] /\ m_tag'[target[u]].wait
  <2>1. state[u] = "Waiting" /\ u # next
    BY <1>1, <1>3, <1>4, <1>8 DEF TypeOK
  <2>2. m_tag[target[u]].owner = lock_owner[u] /\ m_tag[target[u]].wait
    BY <1>8, <2>1 DEF LockInv, OwnerInv
  <2>3. CASE target[u] = l
    <3>1. u \in Waiters(t, l) /\ rest
      BY <1>1, <1>8, <2>1, <2>3, UnlockSlowPathFacts
    <3>2. m_tag'[l].owner = next /\ m_tag'[l].wait
      BY <1>1, <1>2, <1>4, <3>1 DEF TypeOK
    <3> QED
      BY <1>1, <2>1, <2>3, <3>1, <3>2 DEF RemoveKernelWaiterByKey
  <2>4. CASE target[u] # l
    <3>1. m_tag'[target[u]] = m_tag[target[u]] /\ u \notin Waiters(t, l)
      BY <1>1, <1>4, <2>4 DEF TypeOK, Waiters
    <3> QED
      BY <1>1, <2>1, <2>2, <3>1 DEF RemoveKernelWaiterByKey
  <2> QED
    BY <2>3, <2>4
<1>9. OwnerInv'
  BY <1>1, <1>7, <1>8 DEF OwnerInv
<1> QED
  BY <1>5, <1>6, <1>9

\* Terminating a running thread touches no wait; terminating a waiting one is
\* the cancellation that OwnerInv leaves out.
LEMMA RequestTerminateStep ==
    ASSUME LockInv, NEW t \in Threads, RequestTerminate(t)
    PROVE  WaitInv' /\ TagInv' /\ OwnerInv'
<1> USE DEF LockInv, TypeOK, RequestTerminate, lockVars
<1>1. WaitInv' /\ TagInv'
  BY ConstantsAssumption DEF WaitInv, TagInv
<1>2. CASE state[t] = "Waiting"
  BY <1>1, <1>2 DEF OwnerInv
<1>3. CASE state[t] # "Waiting"
  <2>1. UNCHANGED <<m_tag, pc, target, held, lock_owner, state, cancelled>>
    BY <1>3 DEF WaitInv
  <2> QED
    BY <1>1, <2>1 DEF OwnerInv, Owns
<1> QED
  BY <1>2, <1>3

LEMMA LockInvStep == LockInv /\ [Next]_vars => LockInv'
<1> SUFFICES ASSUME LockInv, [Next]_vars PROVE WaitInv' /\ TagInv' /\ OwnerInv'
  BY TypeStep DEF LockInv
<1>1. ASSUME NEW t \in Threads, LockCompareExchange(t) PROVE WaitInv' /\ TagInv' /\ OwnerInv'
  BY <1>1, TakeFreeLockStep, MarkWaitersStep, ReloadTagStep DEF LockCompareExchange
<1>2. ASSUME NEW t \in Threads, LockSlowPath(t) PROVE WaitInv' /\ TagInv' /\ OwnerInv'
  BY <1>2, RetryLockStep, WaitForOwnerStep DEF LockSlowPath
<1>3. ASSUME NEW t \in Threads, UnlockSlowPath(t) PROVE WaitInv' /\ TagInv' /\ OwnerInv'
  BY <1>3, ReleaseLockStep, HandOverStep DEF UnlockSlowPath
<1>4. ASSUME UNCHANGED <<lockVars, waitVars, cancelled>>
      PROVE  WaitInv' /\ TagInv' /\ OwnerInv'
  BY <1>4 DEF lockVars, waitVars, terminateVars, LockInv, WaitInv, TagInv, OwnerInv, Owns
<1>5. ASSUME NEW t \in Threads, NEW type \in SuspendTypes,
             RequestSuspend(t, type) \/ Resume(t, type)
      PROVE  WaitInv' /\ TagInv' /\ OwnerInv'
  BY <1>4, <1>5 DEF RequestSuspend, Resume, terminateVars
<1>6. CASE UNCHANGED vars
  BY <1>4, <1>6 DEF vars, terminateVars
<1> QED
  BY <1>1, <1>2, <1>3, <1>5, <1>6, LockStep, UnlockStep, LockReturnsStep,
     RequestTerminateStep DEF Next, Step

\* The tag, the holders and the waiters of every lock stay in step.
THEOREM LockInvariant == Spec => []LockInv
BY InitLockInv, LockInvStep, PTL DEF Spec

\* For any number of threads and locks, and whatever is suspended, resumed or
\* terminated meanwhile, two threads are never inside the same light lock
\* unless a wait for a lock was cancelled.
THEOREM Exclusion == Spec => []MutualExclusion
<1>1. LockInv => MutualExclusion
  <2> SUFFICES ASSUME LockInv, cancelled = {}, NEW t \in Threads, NEW u \in Threads, t # u,
                      NEW l \in held[t], l \in held[u]
               PROVE  FALSE
    BY DEF MutualExclusion
  <2>1. l \in Locks
    BY DEF LockInv, TypeOK
  <2> QED
    BY <2>1 DEF LockInv, OwnerInv, Owns
<1> QED
  BY <1>1, LockInvariant, PTL

\* For any number of threads and locks, a waiter is always behind the owner
\* the tag names with the tag's low bit set, so Unlock() finds it.
THEOREM NobodyStranded == Spec => []NoStrandedWaiter
<1>1. LockInv => NoStrandedWaiter
  BY DEF LockInv, WaitInv, OwnerInv, NoStrandedWaiter
<1> QED
  BY <1>1, LockInvariant, PTL

-----------------------------------------------------------------------------
(* Suspension                                                              *)

\* A suspension is put off only while somebody waits for the thread.
PutOffInv ==
    cancelled = {} =>
        \A t \in Threads : suspended[t] = SuspendFlags(t) \/ HasKernelWaiters(t, lock_owner)

LEMMA PutOffStep ==
    ASSUME LockInv, FlagsInv, PutOffInv, [Next]_vars
    PROVE  FlagsInv' /\ PutOffInv'
<1> USE DEF FlagsInv, PutOffInv, SuspendFlags, HasKernelWaiters, lockVars, waitVars, suspendVars,
            terminateVars
<1>1. TypeOK
  BY DEF LockInv
<1>2. ASSUME UNCHANGED <<lock_owner, suspendVars, cancelled>> PROVE FlagsInv' /\ PutOffInv'
  BY <1>2
<1>3. ASSUME NEW t \in Threads, LockSlowPath(t) PROVE FlagsInv' /\ PutOffInv'
  <2>1. CASE RetryLock(t, target[t], old_tag[t].owner)
    BY <1>2, <1>3, <2>1 DEF LockSlowPath, RetryLock
  <2>2. CASE WaitForOwner(t, target[t], old_tag[t].owner)
    <3> DEFINE owner == old_tag[t].owner
    <3>1. owner \in Threads /\ lock_owner[t] = NoThread
      BY <1>1, <1>3 DEF LockSlowPath, LockInv, TagInv, WaitInv, TypeOK
    <3>2. /\ lock_owner' = [lock_owner EXCEPT ![t] = owner]
          /\ suspended' = [suspended EXCEPT ![owner] = IF IsSuspended(owner) THEN {} ELSE @]
          /\ UNCHANGED <<m_suspend_request_flags, m_suspend_allowed, cancelled>>
      BY <1>3, <2>2 DEF LockSlowPath, WaitForOwner, BeginWait, Continue
    <3>3. HasKernelWaiters(owner, lock_owner')
      BY <1>1, <3>1, <3>2 DEF TypeOK
    <3>4. ASSUME NEW u \in Threads, u # owner
          PROVE  /\ suspended'[u] = suspended[u]
                 /\ HasKernelWaiters(u, lock_owner) => HasKernelWaiters(u, lock_owner')
      BY <1>1, <3>1, <3>2, <3>4, ConstantsAssumption DEF TypeOK
    <3>5. suspended'[owner] \subseteq suspended[owner]
      BY <1>1, <3>1, <3>2 DEF TypeOK
    <3>6. UNCHANGED <<m_suspend_request_flags, m_suspend_allowed, cancelled>>
      BY <3>2
    <3> HIDE DEF owner
    <3>7. FlagsInv'
      BY <3>4, <3>5, <3>6
    <3>8. PutOffInv'
      BY <3>3, <3>4, <3>6
    <3> QED
      BY <3>7, <3>8
  <2> QED
    BY <1>3, <2>1, <2>2 DEF LockSlowPath
<1>4. ASSUME NEW t \in Threads, UnlockSlowPath(t) PROVE FlagsInv' /\ PutOffInv'
  <2>1. pc[t] = "unlock_slow" /\ UNCHANGED <<m_suspend_request_flags, m_suspend_allowed, cancelled>>
    BY <1>4 DEF UnlockSlowPath
  <2>2. CASE ReleaseLock(t, target[t])
    <3>1. lock_owner' = lock_owner /\ suspended' = FlagsAfterUnlock(t, NoThread, lock_owner)
      BY <2>2 DEF ReleaseLock
    <3>2. \A u \in Threads : u # t => suspended'[u] = suspended[u]
      BY <3>1, ConstantsAssumption DEF FlagsAfterUnlock
    <3>3. \/ suspended'[t] = SuspendFlags(t)
          \/ HasKernelWaiters(t, lock_owner) /\ suspended'[t] = suspended[t]
      BY <3>1, ConstantsAssumption DEF FlagsAfterUnlock, TrySuspend, IsSuspended
    <3> QED
      BY <2>1, <3>1, <3>2, <3>3
  <2>3. ASSUME NEW next \in Waiters(t, target[t]), HandOver(t, target[t], next)
        PROVE  FlagsInv' /\ PutOffInv'
    <3> DEFINE owner == RemoveKernelWaiterByKey(t, target[t], next)
    <3>1. lock_owner' = owner /\ suspended' = FlagsAfterUnlock(t, next, owner)
      BY <2>3 DEF HandOver
    <3>2. next \in Threads /\ next # t /\ lock_owner[next] = t
      BY <2>1, <2>3, UnlockSlowPathFacts DEF Waiters
    <3>3. ASSUME NEW u \in Threads PROVE suspended'[u] \subseteq SuspendFlags(u)'
      BY <1>1, <2>1, <3>1 DEF FlagsAfterUnlock, TrySuspend, TypeOK
    <3>4. ASSUME NEW u \in Threads, u # t, HasKernelWaiters(u, lock_owner)
          PROVE  HasKernelWaiters(u, owner)
      <4>1. PICK w \in Threads : lock_owner[w] = u
        BY <3>4
      <4>2. w # next /\ w \notin Waiters(t, target[t])
        BY <3>2, <3>4, <4>1 DEF Waiters
      <4>3. owner[w] = u
        BY <4>1, <4>2 DEF RemoveKernelWaiterByKey
      <4> QED
        BY <4>3
    <3>5. ASSUME cancelled = {}, NEW u \in Threads
          PROVE  suspended'[u] = SuspendFlags(u) \/ HasKernelWaiters(u, owner)
      <4>1. CASE u = t
        BY <1>1, <3>1, <3>2, <4>1 DEF FlagsAfterUnlock, TrySuspend, IsSuspended
      <4>2. CASE u # t /\ ~HasKernelWaiters(u, owner)
        <5>1. suspended[u] = SuspendFlags(u)
          BY <3>4, <3>5, <4>2
        <5>2. suspended'[u] = suspended[u]
          BY <3>1, <4>2 DEF FlagsAfterUnlock
        <5> QED
          BY <5>1, <5>2
      <4> QED
        BY <4>1, <4>2
    <3> QED
      BY <2>1, <3>1, <3>3, <3>5
  <2> QED
    BY <1>4, <2>2, <2>3 DEF UnlockSlowPath
<1>5. ASSUME NEW t \in Threads, RequestTerminate(t) PROVE FlagsInv' /\ PutOffInv'
  <2>1. CASE state[t] = "Waiting"
    BY <1>1, <1>5, <2>1 DEF RequestTerminate, IsSuspended, TypeOK
  <2>2. CASE state[t] # "Waiting"
    <3>1. lock_owner' = lock_owner /\ cancelled' = cancelled
      BY <1>1, <1>5, <2>2 DEF RequestTerminate, LockInv, WaitInv, TypeOK
    <3>2. \A u \in Threads : u # t => suspended'[u] = suspended[u]
                                     /\ m_suspend_allowed'[u] = m_suspend_allowed[u]
      BY <1>1, <1>5 DEF RequestTerminate, TypeOK
    <3>3. suspended'[t] = {} /\ (m_suspend_allowed'[t] => m_suspend_request_flags[t] = {})
      BY <1>1, <1>5 DEF RequestTerminate, IsSuspended, TypeOK
    <3>4. UNCHANGED m_suspend_request_flags
      BY <1>5 DEF RequestTerminate
    <3> QED
      BY <3>1, <3>2, <3>3, <3>4
  <2> QED
    BY <2>1, <2>2
<1>6. ASSUME NEW t \in Threads, NEW type \in SuspendTypes, RequestSuspend(t, type)
      PROVE  FlagsInv' /\ PutOffInv'
  BY <1>1, <1>6 DEF RequestSuspend, TrySuspend, TypeOK
<1>7. ASSUME NEW t \in Threads, NEW type \in SuspendTypes, Resume(t, type)
      PROVE  FlagsInv' /\ PutOffInv'
  BY <1>1, <1>7 DEF Resume, TypeOK
<1>8. ASSUME NEW t \in Threads, NEW l \in Locks, Lock(t, l) \/ Unlock(t, l)
      PROVE  FlagsInv' /\ PutOffInv'
  BY <1>2, <1>8 DEF Lock, Unlock
<1>9. ASSUME NEW t \in Threads, LockCompareExchange(t) \/ LockReturns(t)
      PROVE  FlagsInv' /\ PutOffInv'
  BY <1>2, <1>9 DEF LockCompareExchange, LockReturns
<1>10. CASE UNCHANGED vars
  BY <1>2, <1>10 DEF vars
<1> QED
  BY <1>3, <1>4, <1>5, <1>6, <1>7, <1>8, <1>9, <1>10 DEF Next, Step

\* The flags in a thread's state were asked for, and those missing are put off.
THEOREM FlagsInvariant == Spec => [](FlagsInv /\ PutOffInv)
<1>1. Init => FlagsInv /\ PutOffInv
  BY DEF Init, FlagsInv, PutOffInv, SuspendFlags
<1>2. LockInv /\ (FlagsInv /\ PutOffInv) /\ [Next]_vars => (FlagsInv /\ PutOffInv)'
  BY PutOffStep
<1> QED
  BY <1>1, <1>2, LockInvariant, PTL DEF Spec

\* For any number of threads, locks and suspend types, a thread outside every
\* light lock carries the suspend flags it was asked to: what TrySuspend put
\* off because of kernel waiters, UnlockSlowPath has made up for.
THEOREM SuspensionsAreMadeUpFor == Spec => []SuspensionNotForgotten
<1>1. LockInv /\ (FlagsInv /\ PutOffInv) => SuspensionNotForgotten
  <2> SUFFICES ASSUME LockInv, PutOffInv, cancelled = {}, NEW t \in Threads, held[t] = {},
                      pc[t] = "run", NEW u \in Threads, lock_owner[u] = t
               PROVE  FALSE
    BY DEF SuspensionNotForgotten, PutOffInv, HasKernelWaiters
  <2>1. state[u] = "Waiting" /\ target[u] \in Locks
    BY ConstantsAssumption DEF LockInv, WaitInv, TypeOK
  <2>2. Owns(t, target[u])
    BY <2>1 DEF LockInv, OwnerInv
  <2> QED
    BY <2>2 DEF Owns
<1> QED
  BY <1>1, LockInvariant, FlagsInvariant, PTL

-----------------------------------------------------------------------------
\* The step that suspends a thread others wait for.
OwnerStops(t) ==
    /\ HasKernelWaiters(t, lock_owner') /\ suspended'[t] # {}
    /\ ~(HasKernelWaiters(t, lock_owner) /\ suspended[t] # {})

\* Blocking on a suspended owner continues it.
LEMMA SlowPathContinues ==
    ASSUME LockInv, FlagsInv, NEW t \in Threads, LockSlowPath(t), NEW u \in Threads
    PROVE  ~OwnerStops(u)
<1> USE DEF OwnerStops, FlagsInv, SuspendFlags, HasKernelWaiters, waitVars
<1>1. TypeOK
  BY DEF LockInv
<1>2. CASE RetryLock(t, target[t], old_tag[t].owner)
  BY <1>2 DEF LockSlowPath, RetryLock
<1>3. CASE WaitForOwner(t, target[t], old_tag[t].owner)
  <2> DEFINE owner == old_tag[t].owner
  <2>1. owner \in Threads
    BY DEF LockSlowPath, LockInv, TagInv
  <2>2. /\ lock_owner' = [lock_owner EXCEPT ![t] = owner]
        /\ suspended' = [suspended EXCEPT ![owner] = IF IsSuspended(owner) THEN {} ELSE @]
    BY <1>3 DEF LockSlowPath, WaitForOwner, BeginWait, Continue
  <2>3. suspended'[owner] = {}
    BY <1>1, <2>1, <2>2 DEF IsSuspended, TypeOK
  <2> QED
    BY <1>1, <2>1, <2>2, <2>3 DEF TypeOK
<1> QED
  BY <1>2, <1>3 DEF LockSlowPath

\* Handing the waiters of a lock to a suspended thread continues it, and the
\* thread that unlocks suspends itself only when nobody is left behind it.
LEMMA HandOverContinues ==
    ASSUME LockInv, FlagsInv, NEW t \in Threads, UnlockSlowPath(t), NEW u \in Threads
    PROVE  ~OwnerStops(u)
<1> USE DEF OwnerStops, FlagsInv, SuspendFlags, HasKernelWaiters, waitVars
<1>1. TypeOK /\ pc[t] = "unlock_slow"
  BY DEF LockInv, UnlockSlowPath
<1>2. CASE ReleaseLock(t, target[t])
  BY <1>1, <1>2, ConstantsAssumption
     DEF ReleaseLock, FlagsAfterUnlock, TrySuspend, IsSuspended, TypeOK
<1>3. ASSUME NEW next \in Waiters(t, target[t]), HandOver(t, target[t], next)
      PROVE  ~OwnerStops(u)
  <2> DEFINE owner == RemoveKernelWaiterByKey(t, target[t], next)
  <2>1. lock_owner' = owner /\ suspended' = FlagsAfterUnlock(t, next, owner)
    BY <1>3 DEF HandOver
  <2>2. next \in Threads /\ next # t
    BY <1>1, <1>3, UnlockSlowPathFacts
  <2>3. SUFFICES ASSUME HasKernelWaiters(u, owner), suspended'[u] # {}
                 PROVE  HasKernelWaiters(u, lock_owner) /\ suspended[u] # {}
    BY <2>1
  <2>4. CASE u = next
    BY <1>1, <2>1, <2>2, <2>3, <2>4 DEF FlagsAfterUnlock, IsSuspended, TypeOK
  <2>5. CASE u # next
    <3>1. HasKernelWaiters(u, lock_owner)
      BY <2>3, <2>5, ConstantsAssumption DEF RemoveKernelWaiterByKey
    <3> QED
      BY <1>1, <2>1, <2>3, <2>5, <3>1 DEF FlagsAfterUnlock, TrySuspend, TypeOK
  <2> QED
    BY <2>4, <2>5
<1> QED
  BY <1>2, <1>3 DEF UnlockSlowPath

LEMMA OnlyResumeStopsStep ==
    ASSUME LockInv, FlagsInv, [Next]_vars, NEW u \in Threads, OwnerStops(u)
    PROVE  \E type \in SuspendTypes : Resume(u, type)
<1> USE DEF OwnerStops, HasKernelWaiters, lockVars, waitVars, suspendVars
<1>1. TypeOK
  BY DEF LockInv
<1>2. ~UNCHANGED <<lock_owner, suspended>>
  OBVIOUS
<1>3. ASSUME NEW t \in Threads, RequestTerminate(t) PROVE FALSE
  BY <1>1, <1>3, ConstantsAssumption DEF RequestTerminate, IsSuspended, TypeOK
<1>4. ASSUME NEW t \in Threads, NEW type \in SuspendTypes, RequestSuspend(t, type)
      PROVE  FALSE
  BY <1>1, <1>4 DEF RequestSuspend, TrySuspend, TypeOK
<1>5. ASSUME NEW t \in Threads, NEW type \in SuspendTypes, Resume(t, type)
      PROVE  t = u
  BY <1>1, <1>5 DEF Resume, TypeOK
<1>6. ASSUME NEW t \in Threads, NEW l \in Locks, Lock(t, l) \/ Unlock(t, l) PROVE FALSE
  BY <1>2, <1>6 DEF Lock, Unlock
<1>7. ASSUME NEW t \in Threads, LockCompareExchange(t) \/ LockReturns(t) PROVE FALSE
  BY <1>2, <1>7 DEF LockCompareExchange, LockReturns
<1>8. ASSUME UNCHANGED vars PROVE FALSE
  BY <1>2, <1>8 DEF vars
<1> QED
  BY <1>3, <1>4, <1>5, <1>6, <1>7, <1>8, SlowPathContinues, HandOverContinues DEF Next, Step

\* For any number of threads, locks and suspend types: a thread that others
\* wait for inside the kernel is suspended by no step but a Resume of that
\* thread, whether the suspension or the waiters came first.
THEOREM OwnersKeepRunning == Spec => OnlyResumeStopsOwners
<1>1. LockInv /\ FlagsInv /\ [Next]_vars =>
        [\A t \in Threads :
            HasKernelWaiters(t, lock_owner') /\ suspended'[t] # {} =>
                \/ HasKernelWaiters(t, lock_owner) /\ suspended[t] # {}
                \/ \E type \in SuspendTypes : Resume(t, type)]_vars
  BY OnlyResumeStopsStep DEF OwnerStops
<1> QED
  BY <1>1, LockInvariant, FlagsInvariant, PTL DEF OnlyResumeStopsOwners, Spec
=============================================================================
