---------------------- MODULE KConditionVariableProofs ----------------------
(***************************************************************************)
(* For any threads, mutexes and priorities: the tag of a guest mutex names *)
(* its owner, a waiting thread is in one place, the word of a condition    *)
(* variable covers its waiters, a mutex goes to a waiter of the highest    *)
(* priority, and every thread has the priority its waiters give it.        *)
(*                                                                         *)
(* None of these is inductive.  For the first four, what is missing is     *)
(* what a tag that names a thread means before the thread knows (Owned):   *)
(* the kernel handed the mutex over while it waited, and no other path     *)
(* leaves its name behind; so a thread in the condition variable's tree    *)
(* never finds itself in the tag that Signal looks at.                     *)
(*                                                                         *)
(* For the last one it is that chains of owners end: a thread that waits   *)
(* holds only mutexes smaller than the one it waits for (RankInv), so the  *)
(* keys rise along a chain, RestorePriority meets no thread twice, and its *)
(* loop is over before it has made as many rounds as there are threads.    *)
(***************************************************************************)
EXTENDS KConditionVariable, FiniteSetTheorems, WellFoundedInduction, TLAPS

Pc == {"run", "lock", "arbitrate", "wait_address", "unlock", "wait_condvar", "gone"}

Word == [owner : Threads \cup {NoThread}, wait : BOOLEAN]

\* TypeOK without the priorities
TypeInv ==
    /\ tag \in [Mutexes -> Word]
    /\ has_waiter_flag \in [Mutexes -> BOOLEAN]
    /\ lock_owner \in [Threads -> Threads \cup {NoThread}]
    /\ m_address_key \in [Threads -> Mutexes]
    /\ m_condvar_tree \in SUBSET Threads
    /\ m_wait_queue \in [Threads -> {"none", "address", "condvar"}]
    /\ state \in [Threads -> {"Runnable", "Waiting", "Terminated"}]
    /\ m_wait_result \in [Threads -> {"Success", "TimedOut", "TerminationRequested",
                                      "InvalidState"}]
    /\ m_hardware_timer_tasks \in SUBSET Threads
    /\ pc \in [Threads -> Pc]
    /\ owner_thread \in [Threads -> Threads \cup {NoThread}]
    /\ held \in [Threads -> SUBSET Mutexes]
    /\ finalized \in SUBSET Threads

\* A free mutex has no waiters.
TagInv == \A m \in Mutexes : tag[m].owner = NoThread => ~tag[m].wait

\* Where a thread is, by its state
Placed(t) ==
    /\ state[t] = "Waiting" => \/ t \in m_condvar_tree /\ lock_owner[t] = NoThread
                               \/ t \notin m_condvar_tree /\ lock_owner[t] # NoThread
    /\ state[t] # "Waiting" => t \notin m_condvar_tree /\ lock_owner[t] = NoThread
    /\ m_wait_queue[t] = "none" <=> state[t] # "Waiting"
    /\ t \in m_hardware_timer_tasks => state[t] = "Waiting"
    /\ state[t] = "Waiting" => pc[t] \in {"wait_address", "wait_condvar"}
    /\ t \in m_condvar_tree => pc[t] = "wait_condvar"
    /\ t \in finalized => state[t] = "Terminated"
    /\ state[t] = "Terminated" => pc[t] = "gone"

\* The kernel gave thread t its mutex.
Granted(t) ==
    /\ pc[t] \in {"wait_address", "wait_condvar"}
    /\ state[t] = "Runnable" /\ m_wait_result[t] = "Success"

\* How the tag of m comes to name t
Owned(t, m) ==
    \/ m \in held[t]
    \/ pc[t] = "gone"
    \/ m_address_key[t] = m /\ (pc[t] \in {"lock", "unlock"} \/ Granted(t))

ThreadInv(t) ==
    /\ Placed(t)
    /\ pc[t] \notin {"run", "gone"} => m_address_key[t] \notin held[t]
    /\ pc[t] = "unlock" \/ (pc[t] = "wait_condvar" /\ Granted(t)) => tag[m_address_key[t]].owner = t
    /\ \A m \in Mutexes : m \in held[t] => tag[m].owner = t
    /\ \A m \in Mutexes : tag[m].owner = t => Owned(t, m)
    /\ lock_owner[t] # NoThread => tag[m_address_key[t]] = Tagged(lock_owner[t], TRUE)
    /\ t \in m_condvar_tree => has_waiter_flag[m_address_key[t]]

Inv == TypeInv /\ TagInv /\ \A t \in Threads : ThreadInv(t)

-----------------------------------------------------------------------------
(* Threads that a step leaves alone                                        *)

Same(u) ==
    /\ pc'[u] = pc[u] /\ m_address_key'[u] = m_address_key[u] /\ held'[u] = held[u]
    /\ lock_owner'[u] = lock_owner[u] /\ (u \in m_condvar_tree' <=> u \in m_condvar_tree)
    /\ m_wait_queue'[u] = m_wait_queue[u] /\ state'[u] = state[u]
    /\ m_wait_result'[u] = m_wait_result[u]
    /\ (u \in m_hardware_timer_tasks' <=> u \in m_hardware_timer_tasks)
    /\ (u \in finalized' <=> u \in finalized)

\* The words in memory say what they said to thread u.
WordsKept(u) ==
    /\ \A m \in Mutexes : tag'[m].owner = u <=> tag[m].owner = u
    /\ lock_owner[u] # NoThread => tag'[m_address_key[u]] = tag[m_address_key[u]]
    /\ u \in m_condvar_tree /\ has_waiter_flag[m_address_key[u]] => has_waiter_flag'[m_address_key[u]]

LEMMA SameThread ==
    ASSUME TypeInv, NEW u \in Threads, ThreadInv(u), Same(u), WordsKept(u)
    PROVE  ThreadInv(u)'
<1>0. m_address_key[u] \in Mutexes
  BY DEF TypeInv
<1>1. Placed(u)'
  BY DEF ThreadInv, Placed, Same
<1>2. Granted(u)' <=> Granted(u)
  BY DEF Granted, Same
<1>3. \A m \in Mutexes : Owned(u, m)' <=> Owned(u, m)
  BY <1>2 DEF Owned, Same
<1>4. /\ (pc[u] \notin {"run", "gone"} => m_address_key[u] \notin held[u])'
      /\ (pc[u] = "unlock" \/ (pc[u] = "wait_condvar" /\ Granted(u)) => tag[m_address_key[u]].owner = u)'
      /\ (\A m \in Mutexes : m \in held[u] => tag[m].owner = u)'
  BY <1>0, <1>2 DEF ThreadInv, Same, WordsKept
<1>5. (\A m \in Mutexes : tag[m].owner = u => Owned(u, m))'
  BY <1>3 DEF ThreadInv, WordsKept
<1>6. (lock_owner[u] # NoThread => tag[m_address_key[u]] = Tagged(lock_owner[u], TRUE))'
  BY DEF ThreadInv, Same, WordsKept, Tagged
<1>7. (u \in m_condvar_tree => has_waiter_flag[m_address_key[u]])'
  BY DEF ThreadInv, Same, WordsKept
<1> QED
  BY <1>1, <1>4, <1>5, <1>6, <1>7 DEF ThreadInv

\* A step of thread t that leaves the others alone.
LEMMA OneThread ==
    ASSUME Inv, NEW t \in Threads, TypeInv', TagInv', ThreadInv(t)',
           \A u \in Threads \ {t} : Same(u) /\ WordsKept(u)
    PROVE  Inv'
<1>1. ASSUME NEW u \in Threads, u # t PROVE ThreadInv(u)'
  BY <1>1, SameThread DEF Inv
<1> QED
  BY <1>1 DEF Inv

LEMMA Types ==
    ASSUME TypeInv, NEW t \in Threads
    PROVE  /\ m_address_key[t] \in Mutexes /\ lock_owner[t] \in Threads \cup {NoThread}
           /\ owner_thread[t] \in Threads \cup {NoThread} /\ held[t] \in SUBSET Mutexes
           /\ \A m \in Mutexes : /\ tag[m] \in Word /\ tag[m].wait \in BOOLEAN
                                 /\ tag[m].owner \in Threads \cup {NoThread}
                                 /\ tag[m] = Tagged(tag[m].owner, tag[m].wait)
BY DEF TypeInv, Word, Tagged

LEMMA TaggedWord ==
    ASSUME NEW o \in Threads \cup {NoThread}, NEW w \in BOOLEAN
    PROVE  Tagged(o, w) \in Word /\ Tagged(o, w).owner = o /\ Tagged(o, w).wait = w
BY DEF Tagged, Word

\* A thread that runs waits for nothing, and what names it is in its hands.
LEMMA Running ==
    ASSUME Inv, NEW t \in Threads, state[t] = "Runnable"
    PROVE  /\ t \notin m_condvar_tree /\ lock_owner[t] = NoThread /\ m_wait_queue[t] = "none"
           /\ t \notin m_hardware_timer_tasks /\ t \notin finalized
BY DEF Inv, ThreadInv, Placed

-----------------------------------------------------------------------------
(* Guest code                                                              *)

LEMMA GuestLockStep ==
    ASSUME Inv, NEW t \in Threads, NEW m \in Mutexes, GuestLock(t, m)
    PROVE  Inv'
<1>1. TypeInv /\ TagInv /\ ThreadInv(t)
  BY DEF Inv
<1>2. /\ pc[t] = "run" /\ state[t] = "Runnable" /\ (\A h \in held[t] : h < m)
      /\ UNCHANGED <<tag, has_waiter_flag, lock_owner, m_condvar_tree, m_wait_queue, state,
                     m_wait_result, m_hardware_timer_tasks, owner_thread, held, finalized>>
  BY DEF GuestLock, memoryVars, waitVars, lifeVars
<1>3. /\ pc' \in [Threads -> Pc] /\ pc'[t] = "lock" /\ \A u \in Threads \ {t} : pc'[u] = pc[u]
      /\ m_address_key' \in [Threads -> Mutexes] /\ m_address_key'[t] = m
      /\ \A u \in Threads \ {t} : m_address_key'[u] = m_address_key[u]
  BY <1>1 DEF GuestLock, TypeInv, Pc
<1>4. m \notin held[t]
  <2>1. m \in Nat
    BY ConstantsAssumption
  <2> QED
    BY <1>2, <2>1
<1>5. TypeInv' /\ TagInv'
  BY <1>1, <1>2, <1>3 DEF TypeInv, TagInv
<1>6. ThreadInv(t)'
  <2>1. Placed(t)'
    BY <1>1, <1>2, <1>3 DEF ThreadInv, Placed
  <2>2. \A k \in Mutexes : tag[k].owner = t => k \in held[t]
    BY <1>1, <1>2 DEF ThreadInv, Owned, Granted
  <2>3. lock_owner[t] = NoThread /\ t \notin m_condvar_tree
    BY <1>2, Running
  <2> QED
    BY <1>1, <1>2, <1>3, <1>4, <2>1, <2>2, <2>3 DEF ThreadInv, Owned
<1>7. \A u \in Threads \ {t} : Same(u) /\ WordsKept(u)
  BY <1>2, <1>3 DEF Same, WordsKept
<1> QED
  BY <1>5, <1>6, <1>7, OneThread

LEMMA GuestTryLockStep ==
    ASSUME Inv, NEW t \in Threads, GuestTryLock(t)
    PROVE  Inv'
<1> DEFINE m == m_address_key[t]
<1>1. TypeInv /\ TagInv /\ ThreadInv(t)
  BY DEF Inv
<1>2. /\ pc[t] = "lock" /\ state[t] = "Runnable"
      /\ UNCHANGED <<has_waiter_flag, lock_owner, m_condvar_tree, m_wait_queue, state,
                     m_wait_result, m_hardware_timer_tasks, m_address_key, finalized>>
  BY DEF GuestTryLock, waitVars, lifeVars
<1>3. m \in Mutexes /\ m \notin held[t]
  BY <1>1, <1>2, Types DEF ThreadInv
<1>4. lock_owner[t] = NoThread /\ t \notin m_condvar_tree
  BY <1>2, Running
<1>5. CASE tag[m].owner \in {NoThread, t}
  <2>1. /\ tag' = [tag EXCEPT ![m] = Tagged(t, tag[m].wait)]
        /\ held' = [held EXCEPT ![t] = held[t] \cup {m}]
        /\ pc' = [pc EXCEPT ![t] = "run"] /\ UNCHANGED owner_thread
    BY <1>5 DEF GuestTryLock
  <2>2. /\ tag' \in [Mutexes -> Word] /\ tag'[m].owner = t /\ tag'[m].wait = tag[m].wait
        /\ \A k \in Mutexes \ {m} : tag'[k] = tag[k]
    BY <1>1, <1>3, <2>1, Types, TaggedWord DEF TypeInv
  <2>3. /\ held' \in [Threads -> SUBSET Mutexes] /\ held'[t] = held[t] \cup {m}
        /\ pc' \in [Threads -> Pc] /\ pc'[t] = "run"
        /\ \A u \in Threads \ {t} : pc'[u] = pc[u] /\ held'[u] = held[u]
    BY <1>1, <1>3, <2>1 DEF TypeInv, Pc
  <2>4. TypeInv' /\ TagInv'
    BY <1>1, <1>2, <2>1, <2>2, <2>3, ConstantsAssumption DEF TypeInv, TagInv
  <2>5. ThreadInv(t)'
    <3>1. Placed(t)'
      BY <1>1, <1>2, <2>3 DEF ThreadInv, Placed
    <3>2. \A k \in Mutexes : tag'[k].owner = t => k \in held'[t]
      BY <1>1, <1>2, <2>2, <2>3 DEF ThreadInv, Owned, Granted
    <3>3. \A k \in Mutexes : k \in held'[t] => tag'[k].owner = t
      BY <1>1, <2>2, <2>3 DEF ThreadInv
    <3> QED
      BY <1>2, <1>4, <2>3, <3>1, <3>2, <3>3 DEF ThreadInv, Owned
  <2>6. ASSUME NEW u \in Threads \ {t} PROVE Same(u) /\ WordsKept(u)
    <3>1. Same(u)
      BY <1>2, <2>3 DEF Same
    <3>2. \A k \in Mutexes : tag'[k].owner = u <=> tag[k].owner = u
      BY <1>5, <2>2, ConstantsAssumption
    <3>3. lock_owner[u] # NoThread => tag'[m_address_key[u]] = tag[m_address_key[u]]
      <4>1. m_address_key[u] \in Mutexes /\ lock_owner[u] \in Threads \cup {NoThread}
        BY <1>1, Types
      <4>2. CASE m_address_key[u] = m /\ lock_owner[u] # NoThread
        <5>1. tag[m] = Tagged(lock_owner[u], TRUE)
          BY <4>2 DEF Inv, ThreadInv
        <5>2. tag[m].owner = lock_owner[u]
          BY <4>1, <5>1, TaggedWord
        <5>3. tag[m].owner = t
          BY <1>5, <4>2, <5>2
        <5>4. tag[m] = Tagged(t, tag[m].wait)
          BY <1>1, <1>3, <5>3, Types
        <5> QED
          BY <1>1, <1>3, <2>1, <4>2, <5>4 DEF TypeInv
      <4> QED
        BY <2>2, <4>1, <4>2
    <3> QED
      BY <1>2, <3>1, <3>2, <3>3 DEF WordsKept
  <2> QED
    BY <2>4, <2>5, <2>6, OneThread
<1>6. CASE tag[m].owner \notin {NoThread, t}
  <2>1. /\ tag' = [tag EXCEPT ![m] = Tagged(tag[m].owner, TRUE)]
        /\ owner_thread' = [owner_thread EXCEPT ![t] = tag[m].owner]
        /\ pc' = [pc EXCEPT ![t] = "arbitrate"] /\ UNCHANGED held
    BY <1>6 DEF GuestTryLock
  <2>2. /\ tag' \in [Mutexes -> Word] /\ tag'[m] = Tagged(tag[m].owner, TRUE)
        /\ tag'[m].owner = tag[m].owner
        /\ \A k \in Mutexes \ {m} : tag'[k] = tag[k]
    BY <1>1, <1>3, <2>1, Types, TaggedWord DEF TypeInv
  <2>3. /\ owner_thread' \in [Threads -> Threads \cup {NoThread}]
        /\ pc' \in [Threads -> Pc] /\ pc'[t] = "arbitrate"
        /\ \A u \in Threads \ {t} : pc'[u] = pc[u]
    BY <1>1, <1>3, <2>1, Types DEF TypeInv, Pc
  <2>4. TypeInv' /\ TagInv'
    BY <1>1, <1>2, <1>6, <2>1, <2>2, <2>3 DEF TypeInv, TagInv
  <2>5. ThreadInv(t)'
    <3>1. Placed(t)'
      BY <1>1, <1>2, <2>3 DEF ThreadInv, Placed
    <3>2. \A k \in Mutexes : tag'[k].owner = t => k \in held'[t]
      BY <1>1, <1>2, <1>6, <2>1, <2>2 DEF ThreadInv, Owned, Granted
    <3>3. \A k \in Mutexes : k \in held'[t] => tag'[k].owner = t
      BY <1>1, <2>1, <2>2 DEF ThreadInv
    <3> QED
      BY <1>2, <1>3, <1>4, <2>1, <2>3, <3>1, <3>2, <3>3 DEF ThreadInv, Owned
  <2>6. ASSUME NEW u \in Threads \ {t} PROVE Same(u) /\ WordsKept(u)
    <3>1. Same(u)
      BY <1>2, <2>1, <2>3 DEF Same
    <3>2. \A k \in Mutexes : tag'[k].owner = u <=> tag[k].owner = u
      BY <2>2
    <3>3. lock_owner[u] # NoThread => tag'[m_address_key[u]] = tag[m_address_key[u]]
      <4>1. m_address_key[u] \in Mutexes /\ lock_owner[u] \in Threads \cup {NoThread}
        BY <1>1, Types
      <4>2. CASE m_address_key[u] = m /\ lock_owner[u] # NoThread
        <5>1. tag[m] = Tagged(lock_owner[u], TRUE)
          BY <4>2 DEF Inv, ThreadInv
        <5>2. tag[m].owner = lock_owner[u]
          BY <4>1, <5>1, TaggedWord
        <5> QED
          BY <2>2, <4>2, <5>1, <5>2
      <4> QED
        BY <2>2, <4>1, <4>2
    <3> QED
      BY <1>2, <3>1, <3>2, <3>3 DEF WordsKept
  <2> QED
    BY <2>4, <2>5, <2>6, OneThread
<1> QED
  BY <1>5, <1>6

LEMMA GuestUnlockStep ==
    ASSUME Inv, NEW t \in Threads, NEW m \in Mutexes, GuestUnlock(t, m)
    PROVE  Inv'
<1>1. TypeInv /\ TagInv /\ ThreadInv(t)
  BY DEF Inv
<1>2. /\ pc[t] = "run" /\ state[t] = "Runnable" /\ m \in held[t]
      /\ UNCHANGED <<has_waiter_flag, lock_owner, m_condvar_tree, m_wait_queue, state,
                     m_wait_result, m_hardware_timer_tasks, owner_thread, finalized>>
  BY DEF GuestUnlock, waitVars, lifeVars
<1>3. /\ held' = [held EXCEPT ![t] = held[t] \ {m}]
      /\ m_address_key' = [m_address_key EXCEPT ![t] = m]
  BY DEF GuestUnlock
<1>4. /\ held' \in [Threads -> SUBSET Mutexes] /\ held'[t] = held[t] \ {m}
      /\ m_address_key' \in [Threads -> Mutexes] /\ m_address_key'[t] = m
      /\ \A u \in Threads \ {t} : m_address_key'[u] = m_address_key[u] /\ held'[u] = held[u]
  BY <1>1, <1>3 DEF TypeInv
<1>5. lock_owner[t] = NoThread /\ t \notin m_condvar_tree /\ tag[m].owner = t
  BY <1>1, <1>2, Running DEF ThreadInv
<1>6. \A k \in Mutexes : tag[k].owner = t => k \in held[t]
  BY <1>1, <1>2 DEF ThreadInv, Owned, Granted
<1>7. CASE tag[m].wait
  <2>1. pc' = [pc EXCEPT ![t] = "unlock"] /\ tag' = tag
    BY <1>7 DEF GuestUnlock
  <2>2. pc' \in [Threads -> Pc] /\ pc'[t] = "unlock" /\ \A u \in Threads \ {t} : pc'[u] = pc[u]
    BY <1>1, <2>1 DEF TypeInv, Pc
  <2>3. TypeInv' /\ TagInv'
    BY <1>1, <1>2, <1>4, <2>1, <2>2 DEF TypeInv, TagInv
  <2>4. ThreadInv(t)'
    <3>1. Placed(t)'
      BY <1>1, <1>2, <2>2 DEF ThreadInv, Placed
    <3>2. \A k \in Mutexes : tag'[k].owner = t => Owned(t, k)'
      BY <1>4, <1>6, <2>1, <2>2 DEF Owned
    <3> QED
      BY <1>1, <1>2, <1>4, <1>5, <2>1, <2>2, <3>1, <3>2 DEF ThreadInv
  <2>5. \A u \in Threads \ {t} : Same(u) /\ WordsKept(u)
    BY <1>2, <1>4, <2>1, <2>2 DEF Same, WordsKept
  <2> QED
    BY <2>3, <2>4, <2>5, OneThread
<1>8. CASE ~tag[m].wait
  <2>1. tag' = [tag EXCEPT ![m] = Free] /\ pc' = pc
    BY <1>8 DEF GuestUnlock
  <2>2. Free \in Word /\ Free.owner = NoThread /\ Free.wait = FALSE
    BY TaggedWord DEF Free
  <2>3. /\ tag' \in [Mutexes -> Word] /\ tag'[m].owner = NoThread /\ tag'[m].wait = FALSE
        /\ \A k \in Mutexes \ {m} : tag'[k] = tag[k]
    BY <1>1, <2>1, <2>2 DEF TypeInv
  <2>4. TypeInv' /\ TagInv'
    BY <1>1, <1>2, <1>4, <2>1, <2>3 DEF TypeInv, TagInv
  <2>5. ThreadInv(t)'
    <3>1. Placed(t)'
      BY <1>1, <1>2, <2>1 DEF ThreadInv, Placed
    <3>2. \A k \in Mutexes : tag'[k].owner = t => k \in held'[t]
      BY <1>4, <1>6, <2>3, ConstantsAssumption
    <3>3. \A k \in Mutexes : k \in held'[t] => tag'[k].owner = t
      BY <1>1, <1>4, <2>3 DEF ThreadInv
    <3> QED
      BY <1>2, <1>4, <1>5, <2>1, <3>1, <3>2, <3>3 DEF ThreadInv, Owned
  <2>6. ASSUME NEW u \in Threads \ {t} PROVE Same(u) /\ WordsKept(u)
    <3>1. Same(u)
      BY <1>2, <1>4, <2>1 DEF Same
    <3>2. \A k \in Mutexes : tag'[k].owner = u <=> tag[k].owner = u
      BY <1>5, <2>3, ConstantsAssumption
    <3>3. lock_owner[u] # NoThread => m_address_key[u] # m
      <4>1. lock_owner[u] # NoThread => tag[m_address_key[u]] = Tagged(lock_owner[u], TRUE)
        BY DEF Inv, ThreadInv
      <4>2. Tagged(lock_owner[u], TRUE).wait = TRUE
        BY DEF Tagged
      <4> QED
        BY <1>8, <4>1, <4>2
    <3>4. m_address_key[u] \in Mutexes
      BY <1>1, Types
    <3> QED
      BY <1>2, <2>3, <3>1, <3>2, <3>3, <3>4 DEF WordsKept
  <2> QED
    BY <2>4, <2>5, <2>6, OneThread
<1> QED
  BY <1>7, <1>8

-----------------------------------------------------------------------------
(* WaitForAddress                                                          *)

LEMMA WaitForAddressStep ==
    ASSUME Inv, NEW t \in Threads, WaitForAddress(t)
    PROVE  Inv'
<1> DEFINE m == m_address_key[t]
<1>1. TypeInv /\ TagInv /\ ThreadInv(t)
  BY DEF Inv
<1>2. /\ pc[t] = "arbitrate" /\ state[t] = "Runnable"
      /\ UNCHANGED <<tag, has_waiter_flag, m_address_key, held, finalized>>
  BY DEF WaitForAddress, memoryVars, lifeVars
<1>3. m \in Mutexes /\ m \notin held[t] /\ tag[m] \in Word
  BY <1>1, <1>2, Types DEF ThreadInv
<1>4. \A k \in Mutexes : tag[k].owner = t => k \in held[t]
  BY <1>1, <1>2 DEF ThreadInv, Owned, Granted
<1>5. CASE ArbitrateLockReturns(t)
  <2>1. /\ pc' = [pc EXCEPT ![t] = "run"] \/ pc' = [pc EXCEPT ![t] = "lock"]
        /\ owner_thread' = [owner_thread EXCEPT ![t] = NoThread]
        /\ UNCHANGED <<lock_owner, m_condvar_tree, m_wait_queue, state, m_wait_result,
                       m_hardware_timer_tasks>>
    BY <1>5 DEF ArbitrateLockReturns, waitVars
  <2>2. /\ pc' \in [Threads -> Pc] /\ pc'[t] \in {"run", "lock"}
        /\ \A u \in Threads \ {t} : pc'[u] = pc[u]
        /\ owner_thread' \in [Threads -> Threads \cup {NoThread}]
    BY <1>1, <2>1 DEF TypeInv, Pc
  <2>3. TypeInv' /\ TagInv'
    BY <1>1, <1>2, <2>1, <2>2 DEF TypeInv, TagInv
  <2>4. ThreadInv(t)'
    <3>1. Placed(t)'
      BY <1>1, <1>2, <2>1, <2>2 DEF ThreadInv, Placed
    <3> QED
      BY <1>1, <1>2, <1>3, <1>4, <2>1, <2>2, <3>1 DEF ThreadInv, Owned
  <2>5. \A u \in Threads \ {t} : Same(u) /\ WordsKept(u)
    BY <1>2, <2>1, <2>2 DEF Same, WordsKept
  <2> QED
    BY <2>3, <2>4, <2>5, OneThread
<1>6. CASE ArbitrateLockWaits(t)
  <2>1. /\ lock_owner' = [lock_owner EXCEPT ![t] = owner_thread[t]]
        /\ state' = [state EXCEPT ![t] = "Waiting"]
        /\ m_wait_queue' = [m_wait_queue EXCEPT ![t] = "address"]
        /\ pc' = [pc EXCEPT ![t] = "wait_address"]
        /\ tag[m] = Tagged(owner_thread[t], TRUE)
        /\ UNCHANGED <<m_condvar_tree, m_wait_result, m_hardware_timer_tasks, owner_thread>>
    BY <1>6 DEF ArbitrateLockWaits
  <2>2. owner_thread[t] \in Threads
    <3>1. owner_thread[t] \in Threads \cup {NoThread}
      BY <1>1, Types
    <3>2. tag[m].owner = owner_thread[t] /\ tag[m].wait
      BY <2>1, <3>1, TaggedWord
    <3> QED
      BY <1>1, <1>3, <3>1, <3>2 DEF TagInv
  <2>3. /\ lock_owner' \in [Threads -> Threads \cup {NoThread}]
        /\ state' \in [Threads -> {"Runnable", "Waiting", "Terminated"}]
        /\ m_wait_queue' \in [Threads -> {"none", "address", "condvar"}]
        /\ pc' \in [Threads -> Pc]
    BY <1>1, <2>1, <2>2 DEF TypeInv, Pc
  <2>4. /\ lock_owner'[t] = owner_thread[t] /\ state'[t] = "Waiting"
        /\ m_wait_queue'[t] = "address" /\ pc'[t] = "wait_address"
        /\ \A u \in Threads \ {t} : /\ lock_owner'[u] = lock_owner[u] /\ state'[u] = state[u]
                                    /\ m_wait_queue'[u] = m_wait_queue[u] /\ pc'[u] = pc[u]
    BY <1>1, <2>1 DEF TypeInv
  <2>5. TypeInv' /\ TagInv'
    BY <1>1, <1>2, <2>1, <2>3 DEF TypeInv, TagInv
  <2>6. ThreadInv(t)'
    <3>0. t \notin m_condvar_tree /\ t \notin m_hardware_timer_tasks /\ t \notin finalized
      BY <1>2, Running
    <3>1. Placed(t)'
      BY <1>2, <2>1, <2>2, <2>4, <3>0, ConstantsAssumption DEF Placed
    <3> QED
      BY <1>1, <1>2, <1>3, <1>4, <2>1, <2>4, <3>0, <3>1 DEF ThreadInv, Owned, Granted, Tagged
  <2>7. \A u \in Threads \ {t} : Same(u) /\ WordsKept(u)
    BY <1>2, <2>1, <2>4 DEF Same, WordsKept
  <2> QED
    BY <2>5, <2>6, <2>7, OneThread
<1> QED
  BY <1>5, <1>6 DEF WaitForAddress

LEMMA WaitForAddressReturnsStep ==
    ASSUME Inv, NEW t \in Threads, WaitForAddressReturns(t)
    PROVE  Inv'
<1>1. TypeInv /\ TagInv /\ ThreadInv(t)
  BY DEF Inv
<1>2. /\ pc[t] = "wait_address" /\ state[t] = "Runnable"
      /\ pc' = [pc EXCEPT ![t] = IF m_wait_result[t] = "Success" THEN "lock" ELSE "run"]
      /\ owner_thread' = [owner_thread EXCEPT ![t] = NoThread]
      /\ m_wait_result' = [m_wait_result EXCEPT ![t] = "Success"]
      /\ UNCHANGED <<tag, has_waiter_flag, lock_owner, m_condvar_tree, m_wait_queue, state,
                     m_hardware_timer_tasks, m_address_key, held, finalized>>
  BY DEF WaitForAddressReturns, memoryVars, lifeVars
<1>3. /\ pc' \in [Threads -> Pc] /\ owner_thread' \in [Threads -> Threads \cup {NoThread}]
      /\ m_wait_result' \in [Threads -> {"Success", "TimedOut", "TerminationRequested",
                                         "InvalidState"}]
      /\ pc'[t] = IF m_wait_result[t] = "Success" THEN "lock" ELSE "run"
      /\ m_wait_result'[t] = "Success"
      /\ \A u \in Threads \ {t} : pc'[u] = pc[u] /\ m_wait_result'[u] = m_wait_result[u]
  BY <1>1, <1>2 DEF TypeInv, Pc
<1>4. TypeInv' /\ TagInv'
  BY <1>1, <1>2, <1>3 DEF TypeInv, TagInv
<1>5. ThreadInv(t)'
  <2>1. Placed(t)'
    BY <1>1, <1>2, <1>3 DEF ThreadInv, Placed
  <2>2. (\A m \in Mutexes : tag[m].owner = t => Owned(t, m))'
    BY <1>1, <1>2, <1>3 DEF ThreadInv, Owned, Granted
  <2>3. lock_owner[t] = NoThread /\ t \notin m_condvar_tree
    BY <1>2, Running
  <2> QED
    BY <1>1, <1>2, <1>3, <2>1, <2>2, <2>3 DEF ThreadInv
<1>6. \A u \in Threads \ {t} : Same(u) /\ WordsKept(u)
  BY <1>2, <1>3 DEF Same, WordsKept
<1> QED
  BY <1>4, <1>5, <1>6, OneThread

LEMMA WaitReturnsStep ==
    ASSUME Inv, NEW t \in Threads, WaitReturns(t)
    PROVE  Inv'
<1> DEFINE m == m_address_key[t]
<1>1. TypeInv /\ TagInv /\ ThreadInv(t)
  BY DEF Inv
<1>2. /\ pc[t] = "wait_condvar" /\ state[t] = "Runnable"
      /\ m_wait_result' = [m_wait_result EXCEPT ![t] = "Success"]
      /\ UNCHANGED <<tag, has_waiter_flag, lock_owner, m_condvar_tree, m_wait_queue, state,
                     m_hardware_timer_tasks, m_address_key, owner_thread, finalized>>
  BY DEF WaitReturns, memoryVars, lifeVars
<1>3. m \in Mutexes /\ m \notin held[t]
  BY <1>1, <1>2, Types DEF ThreadInv
<1>4. \/ m_wait_result[t] = "Success" /\ held' = [held EXCEPT ![t] = held[t] \cup {m}]
                                      /\ pc' = [pc EXCEPT ![t] = "run"]
      \/ m_wait_result[t] = "TimedOut" /\ held' = held /\ pc' = [pc EXCEPT ![t] = "lock"]
      \/ m_wait_result[t] \notin {"Success", "TimedOut"} /\ held' = held
                                      /\ pc' = [pc EXCEPT ![t] = "run"]
  BY DEF WaitReturns
<1>5. /\ pc' \in [Threads -> Pc] /\ held' \in [Threads -> SUBSET Mutexes]
      /\ m_wait_result' \in [Threads -> {"Success", "TimedOut", "TerminationRequested",
                                         "InvalidState"}]
      /\ m_wait_result'[t] = "Success"
      /\ \A u \in Threads \ {t} : /\ pc'[u] = pc[u] /\ m_wait_result'[u] = m_wait_result[u]
                                  /\ held'[u] = held[u]
  BY <1>1, <1>2, <1>3, <1>4 DEF TypeInv, Pc
<1>6. \/ m_wait_result[t] = "Success" /\ held'[t] = held[t] \cup {m} /\ pc'[t] = "run"
      \/ m_wait_result[t] # "Success" /\ held'[t] = held[t] /\ pc'[t] \in {"run", "lock"}
  BY <1>1, <1>4 DEF TypeInv
<1>7. TypeInv' /\ TagInv'
  BY <1>1, <1>2, <1>5 DEF TypeInv, TagInv
<1>8. ThreadInv(t)'
  <2>1. Placed(t)'
    BY <1>1, <1>2, <1>6 DEF ThreadInv, Placed
  <2>2. m_wait_result[t] = "Success" => tag[m].owner = t
    BY <1>1, <1>2 DEF ThreadInv, Granted
  <2>3. \A k \in Mutexes : k \in held'[t] => tag[k].owner = t
    BY <1>1, <1>6, <2>2 DEF ThreadInv
  <2>4. \A k \in Mutexes : tag[k].owner = t => k \in held'[t]
    BY <1>1, <1>2, <1>6 DEF ThreadInv, Owned, Granted
  <2>5. lock_owner[t] = NoThread /\ t \notin m_condvar_tree
    BY <1>2, Running
  <2> QED
    BY <1>2, <1>3, <1>6, <2>1, <2>3, <2>4, <2>5 DEF ThreadInv, Owned
<1>9. \A u \in Threads \ {t} : Same(u) /\ WordsKept(u)
  BY <1>2, <1>5 DEF Same, WordsKept
<1> QED
  BY <1>7, <1>8, <1>9, OneThread

-----------------------------------------------------------------------------
(* What ends a wait from outside, and the end of a thread                  *)

LEMMA CancelWaitStep ==
    ASSUME Inv, NEW t \in Threads, state[t] = "Waiting", NEW prio, NEW base,
           NEW result \in {"TimedOut", "TerminationRequested"}, CancelWait(t, result, prio, base),
           UNCHANGED <<memoryVars, m_address_key, guestVars, finalized>>
    PROVE  Inv'
<1>1. TypeInv /\ TagInv /\ ThreadInv(t)
  BY DEF Inv
<1>2. /\ lock_owner' = [lock_owner EXCEPT ![t] = NoThread]
      /\ m_condvar_tree' = m_condvar_tree \ {t}
      /\ m_wait_queue' = [m_wait_queue EXCEPT ![t] = "none"]
      /\ state' = [state EXCEPT ![t] = "Runnable"]
      /\ m_wait_result' = [m_wait_result EXCEPT ![t] = result]
      /\ m_hardware_timer_tasks' = m_hardware_timer_tasks \ {t}
      /\ UNCHANGED <<tag, has_waiter_flag, m_address_key, pc, owner_thread, held, finalized>>
  BY DEF CancelWait, memoryVars, guestVars
<1>3. /\ lock_owner' \in [Threads -> Threads \cup {NoThread}] /\ lock_owner'[t] = NoThread
      /\ m_condvar_tree' \in SUBSET Threads /\ t \notin m_condvar_tree'
      /\ m_wait_queue' \in [Threads -> {"none", "address", "condvar"}] /\ m_wait_queue'[t] = "none"
      /\ state' \in [Threads -> {"Runnable", "Waiting", "Terminated"}] /\ state'[t] = "Runnable"
      /\ m_wait_result' \in [Threads -> {"Success", "TimedOut", "TerminationRequested",
                                         "InvalidState"}]
      /\ m_wait_result'[t] # "Success"
      /\ m_hardware_timer_tasks' \in SUBSET Threads /\ t \notin m_hardware_timer_tasks'
  BY <1>1, <1>2 DEF TypeInv
<1>4. TypeInv' /\ TagInv'
  BY <1>1, <1>2, <1>3 DEF TypeInv, TagInv
<1>5. ThreadInv(t)'
  <2>1. Placed(t)'
    BY <1>1, <1>2, <1>3 DEF ThreadInv, Placed
  <2>2. pc[t] \in {"wait_address", "wait_condvar"}
    BY <1>1 DEF ThreadInv, Placed
  <2>3. \A k \in Mutexes : tag[k].owner = t => k \in held[t]
    BY <1>1, <2>2 DEF ThreadInv, Owned, Granted
  <2> QED
    BY <1>1, <1>2, <1>3, <2>1, <2>2, <2>3 DEF ThreadInv, Owned, Granted
<1>6. \A u \in Threads \ {t} : Same(u) /\ WordsKept(u)
  BY <1>1, <1>2 DEF Same, WordsKept, TypeInv
<1> QED
  BY <1>4, <1>5, <1>6, OneThread

LEMMA OnTimerStep ==
    ASSUME Inv, NEW t \in Threads, OnTimer(t)
    PROVE  Inv'
<1>1. state[t] = "Waiting"
  BY DEF OnTimer, Inv, ThreadInv, Placed
<1>2. /\ CancelWait(t, "TimedOut", m_priority, m_base_priority)
      /\ UNCHANGED <<memoryVars, m_address_key, guestVars, finalized>>
  BY DEF OnTimer, lifeVars
<1> QED
  BY <1>1, <1>2, CancelWaitStep

\* A step that changes nothing but priorities and requests.
LEMMA NothingMoves ==
    ASSUME Inv, UNCHANGED <<memoryVars, waitVars, m_address_key, guestVars, finalized>>
    PROVE  Inv'
<1>1. UNCHANGED <<tag, has_waiter_flag, lock_owner, m_address_key, m_condvar_tree, m_wait_queue,
                  state, m_wait_result, m_hardware_timer_tasks, pc, owner_thread, held, finalized>>
  BY DEF memoryVars, waitVars, guestVars
<1>2. TypeInv' /\ TagInv'
  BY <1>1 DEF Inv, TypeInv, TagInv
<1>3. \A u \in Threads : Same(u) /\ WordsKept(u)
  BY <1>1 DEF Same, WordsKept
<1> QED
  BY <1>2, <1>3, SameThread DEF Inv

LEMMA SetBasePriorityStep ==
    ASSUME Inv, NEW t \in Threads, NEW value \in Priorities, SetBasePriority(t, value)
    PROVE  Inv'
<1>1. UNCHANGED <<memoryVars, waitVars, m_address_key, guestVars, finalized>>
  BY DEF SetBasePriority, lifeVars
<1> QED
  BY <1>1, NothingMoves

LEMMA RequestTerminateStep ==
    ASSUME Inv, NEW t \in Threads, RequestTerminate(t)
    PROVE  Inv'
<1> DEFINE raises == m_base_priority[t] > TerminatingThreadPriority
           base == IF raises THEN [m_base_priority EXCEPT ![t] = TerminatingThreadPriority]
                   ELSE m_base_priority
           prio == IF raises THEN RestorePriority(t, m_priority, base, lock_owner) ELSE m_priority
<1>1. UNCHANGED <<memoryVars, m_address_key, guestVars, finalized>>
  BY DEF RequestTerminate
<1>2. CASE state[t] = "Waiting"
  <2>1. CancelWait(t, "TerminationRequested", prio, base)
    BY <1>2 DEF RequestTerminate
  <2> HIDE DEF prio, base
  <2> QED
    BY <1>1, <1>2, <2>1, CancelWaitStep
<1>3. CASE state[t] # "Waiting"
  <2>1. UNCHANGED waitVars
    BY <1>3 DEF RequestTerminate
  <2> QED
    BY <1>1, <2>1, NothingMoves
<1> QED
  BY <1>2, <1>3

LEMMA ExitStep ==
    ASSUME Inv, NEW t \in Threads, Exit(t)
    PROVE  Inv'
<1>1. TypeInv /\ TagInv /\ ThreadInv(t)
  BY DEF Inv
<1>2. /\ pc[t] \in {"run", "lock"} /\ state[t] = "Runnable"
      /\ pc' = [pc EXCEPT ![t] = "gone"] /\ state' = [state EXCEPT ![t] = "Terminated"]
      /\ UNCHANGED <<tag, has_waiter_flag, lock_owner, m_condvar_tree, m_wait_queue, m_wait_result,
                     m_hardware_timer_tasks, m_address_key, owner_thread, held, finalized>>
  BY DEF Exit, memoryVars, lifeVars
<1>3. /\ pc' \in [Threads -> Pc] /\ state' \in [Threads -> {"Runnable", "Waiting", "Terminated"}]
      /\ pc'[t] = "gone" /\ state'[t] = "Terminated"
      /\ \A u \in Threads \ {t} : pc'[u] = pc[u] /\ state'[u] = state[u]
  BY <1>1, <1>2 DEF TypeInv, Pc
<1>4. TypeInv' /\ TagInv'
  BY <1>1, <1>2, <1>3 DEF TypeInv, TagInv
<1>5. ThreadInv(t)'
  <2>1. Placed(t)'
    BY <1>1, <1>2, <1>3 DEF ThreadInv, Placed
  <2>2. lock_owner[t] = NoThread /\ t \notin m_condvar_tree
    BY <1>2, Running
  <2> QED
    BY <1>1, <1>2, <1>3, <2>1, <2>2 DEF ThreadInv, Owned
<1>6. \A u \in Threads \ {t} : Same(u) /\ WordsKept(u)
  BY <1>2, <1>3 DEF Same, WordsKept
<1> QED
  BY <1>4, <1>5, <1>6, OneThread

LEMMA FinalizeStep ==
    ASSUME Inv, NEW t \in Threads, Finalize(t)
    PROVE  Inv'
<1> DEFINE waiters == {u \in Threads : lock_owner[u] = t}
<1>1. TypeInv /\ TagInv /\ \A u \in Threads : ThreadInv(u)
  BY DEF Inv
<1>2. /\ state[t] = "Terminated"
      /\ finalized' = finalized \cup {t}
      /\ lock_owner' = [u \in Threads |-> IF u \in waiters THEN NoThread ELSE lock_owner[u]]
      /\ m_wait_result' = [u \in Threads |->
                IF u \in waiters THEN [v \in waiters |-> "InvalidState"][u] ELSE m_wait_result[u]]
      /\ m_hardware_timer_tasks' = m_hardware_timer_tasks \ waiters
      /\ m_wait_queue' = [u \in Threads |-> IF u \in waiters THEN "none" ELSE m_wait_queue[u]]
      /\ state' = [u \in Threads |-> IF u \in waiters THEN "Runnable" ELSE state[u]]
      /\ UNCHANGED <<tag, has_waiter_flag, m_condvar_tree, m_address_key, pc, owner_thread, held>>
  BY DEF Finalize, EndWait, memoryVars, guestVars
<1>3. /\ finalized' \in SUBSET Threads
      /\ lock_owner' \in [Threads -> Threads \cup {NoThread}]
      /\ m_wait_queue' \in [Threads -> {"none", "address", "condvar"}]
      /\ state' \in [Threads -> {"Runnable", "Waiting", "Terminated"}]
      /\ m_hardware_timer_tasks' \in SUBSET Threads
      /\ m_wait_result' \in [Threads -> {"Success", "TimedOut", "TerminationRequested",
                                         "InvalidState"}]
  BY <1>1, <1>2 DEF TypeInv
<1>4. \A u \in waiters : /\ lock_owner'[u] = NoThread /\ m_wait_result'[u] = "InvalidState"
                         /\ u \notin m_hardware_timer_tasks' /\ m_wait_queue'[u] = "none"
                         /\ state'[u] = "Runnable"
  BY <1>2
<1>5. \A u \in Threads \ waiters :
        /\ lock_owner'[u] = lock_owner[u] /\ m_wait_result'[u] = m_wait_result[u]
        /\ (u \in m_hardware_timer_tasks' <=> u \in m_hardware_timer_tasks)
        /\ m_wait_queue'[u] = m_wait_queue[u] /\ state'[u] = state[u]
  BY <1>2
<1>6. TypeInv' /\ TagInv'
  BY <1>1, <1>2, <1>3 DEF TypeInv, TagInv
<1>7. ASSUME NEW u \in waiters PROVE ThreadInv(u)'
  <2>1. u \in Threads /\ lock_owner[u] = t /\ t # NoThread /\ ThreadInv(u)
    BY <1>1, ConstantsAssumption
  <2>2. state[u] = "Waiting" /\ u \notin m_condvar_tree /\ u \notin finalized /\ u # t
    BY <1>2, <2>1 DEF ThreadInv, Placed
  <2>3. pc[u] \in {"wait_address", "wait_condvar"}
    BY <2>1, <2>2 DEF ThreadInv, Placed
  <2>4. Placed(u)'
    BY <1>2, <1>4, <2>1, <2>2, <2>3 DEF Placed
  <2>5. \A k \in Mutexes : tag[k].owner = u => k \in held[u]
    BY <2>1, <2>2, <2>3 DEF ThreadInv, Owned, Granted
  <2> QED
    BY <1>2, <1>4, <2>1, <2>2, <2>3, <2>4, <2>5 DEF ThreadInv, Owned, Granted
<1>8. ASSUME NEW u \in Threads \ waiters, u # t PROVE ThreadInv(u)'
  <2>1. Same(u) /\ WordsKept(u)
    BY <1>2, <1>5, <1>8 DEF Same, WordsKept
  <2> QED
    BY <1>1, <2>1, SameThread
<1>9. t \notin waiters => ThreadInv(t)'
  <2> SUFFICES ASSUME t \notin waiters PROVE ThreadInv(t)'
    OBVIOUS
  <2>1. ThreadInv(t)
    BY <1>1
  <2>2. Placed(t)'
    BY <1>2, <1>5, <2>1 DEF ThreadInv, Placed
  <2> QED
    BY <1>2, <1>5, <2>1, <2>2 DEF ThreadInv, Owned, Granted
<1> QED
  BY <1>6, <1>7, <1>8, <1>9 DEF Inv

-----------------------------------------------------------------------------
(* Handing a mutex over                                                    *)

\* What a hand-over of t's mutex m to next does to the threads other than t
HandedOver(t, m, next) ==
    /\ next \in NextOwners(t, m)
    /\ tag' = [tag EXCEPT ![m] = TagAfter(t, m, next)]
    /\ lock_owner' = OwnersAfter(t, m, next)
    /\ \A k \in Mutexes : has_waiter_flag[k] => has_waiter_flag'[k]
    /\ \A u \in Threads \ {t} :
        /\ pc'[u] = pc[u] /\ m_address_key'[u] = m_address_key[u] /\ held'[u] = held[u]
        /\ (u \in m_condvar_tree' <=> u \in m_condvar_tree)
        /\ (u \in finalized' <=> u \in finalized)
        /\ u # next => /\ m_wait_queue'[u] = m_wait_queue[u] /\ state'[u] = state[u]
                       /\ m_wait_result'[u] = m_wait_result[u]
                       /\ (u \in m_hardware_timer_tasks' <=> u \in m_hardware_timer_tasks)
        /\ u = next => /\ m_wait_queue'[u] = "none" /\ state'[u] = "Runnable"
                       /\ m_wait_result'[u] = "Success" /\ u \notin m_hardware_timer_tasks'

LEMMA HandOver ==
    ASSUME Inv, NEW t \in Threads, NEW m \in Mutexes, NEW next, HandedOver(t, m, next),
           tag[m].owner = t, state[t] = "Runnable"
    PROVE  /\ tag' \in [Mutexes -> Word] /\ lock_owner' \in [Threads -> Threads \cup {NoThread}]
           /\ TagInv'
           /\ next # t /\ tag'[m].owner # t /\ (\A k \in Mutexes \ {m} : tag'[k] = tag[k])
           /\ lock_owner'[t] = NoThread
           /\ \A u \in Threads \ {t} : ThreadInv(u)'
<1> DEFINE W == Waiters(t, m)
<1>1. TypeInv /\ TagInv /\ \A u \in Threads : ThreadInv(u)
  BY DEF Inv
<1>2. lock_owner[t] = NoThread /\ t \notin W
  BY Running, ConstantsAssumption DEF Waiters
<1>3. ASSUME NEW u \in Threads, lock_owner[u] # NoThread, m_address_key[u] = m PROVE u \in W
  <2>1. tag[m] = Tagged(lock_owner[u], TRUE)
    BY <1>1, <1>3 DEF ThreadInv
  <2>2. tag[m].owner = lock_owner[u]
    BY <2>1 DEF Tagged
  <2> QED
    BY <1>3, <2>2 DEF Waiters
<1>4. W \subseteq Threads /\ \A u \in W : lock_owner[u] = t /\ m_address_key[u] = m
  BY DEF Waiters
<1>5. \/ W = {} /\ next = NoThread
      \/ next \in W /\ next \in Threads /\ next # NoThread
  BY <1>4, ConstantsAssumption DEF HandedOver, NextOwners
<1>6. next # t /\ next \in Threads \cup {NoThread}
  BY <1>2, <1>5, ConstantsAssumption
<1>7. /\ tag'[m] = Tagged(next, W \ {next} # {}) /\ (\A k \in Mutexes \ {m} : tag'[k] = tag[k])
      /\ tag' \in [Mutexes -> Word]
  <2>1. Tagged(next, W \ {next} # {}) \in Word
    BY <1>6, TaggedWord
  <2> QED
    BY <1>1, <2>1 DEF HandedOver, TagAfter, TypeInv
<1>8. tag'[m].owner = next /\ tag'[m].wait = (W \ {next} # {})
  BY <1>7 DEF Tagged
<1>9. TagInv'
  BY <1>1, <1>5, <1>7, <1>8 DEF TagInv
<1>10. /\ \A u \in Threads \ W : lock_owner'[u] = lock_owner[u]
       /\ \A u \in W \ {next} : lock_owner'[u] = next
       /\ next \in Threads => lock_owner'[next] = NoThread
       /\ lock_owner' \in [Threads -> Threads \cup {NoThread}]
  BY <1>1, <1>4, <1>5, <1>6, ConstantsAssumption DEF HandedOver, OwnersAfter, TypeInv
<1>11. ASSUME NEW u \in Threads, u # t, u \notin W PROVE ThreadInv(u)'
  <2>1. u # next
    BY <1>5, <1>11, ConstantsAssumption
  <2>2. Same(u)
    BY <1>10, <1>11, <2>1 DEF HandedOver, Same
  <2>3. \A k \in Mutexes : tag'[k].owner = u <=> tag[k].owner = u
    BY <1>7, <1>8, <1>11, <2>1
  <2>4. m_address_key[u] \in Mutexes
    BY <1>1, Types
  <2>5. lock_owner[u] # NoThread => tag'[m_address_key[u]] = tag[m_address_key[u]]
    BY <1>3, <1>7, <1>11, <2>4
  <2>6. WordsKept(u)
    BY <2>3, <2>4, <2>5 DEF WordsKept, HandedOver
  <2> QED
    BY <1>1, <2>2, <2>6, SameThread
<1>12. ASSUME NEW u \in W PROVE ThreadInv(u)'
  <2>1. /\ u \in Threads /\ u # t /\ lock_owner[u] = t /\ m_address_key[u] = m /\ ThreadInv(u)
        /\ t # NoThread
    BY <1>1, <1>2, <1>4, ConstantsAssumption
  <2>2. state[u] = "Waiting" /\ u \notin m_condvar_tree /\ u \notin finalized
    BY <2>1 DEF ThreadInv, Placed
  <2>3. pc[u] \in {"wait_address", "wait_condvar"}
    BY <2>1, <2>2 DEF ThreadInv, Placed
  <2>4. \A k \in Mutexes : tag[k].owner = u => k \in held[u]
    BY <2>1, <2>2, <2>3 DEF ThreadInv, Owned, Granted
  <2>5. /\ pc'[u] = pc[u] /\ m_address_key'[u] = m /\ held'[u] = held[u]
        /\ u \notin m_condvar_tree' /\ u \notin finalized'
    BY <2>1, <2>2 DEF HandedOver
  <2>6. m \notin held[u]
    BY <2>1, <2>3 DEF ThreadInv
  <2>7. CASE u # next
    <3>1. /\ m_wait_queue'[u] = m_wait_queue[u] /\ state'[u] = state[u]
          /\ m_wait_result'[u] = m_wait_result[u]
          /\ (u \in m_hardware_timer_tasks' <=> u \in m_hardware_timer_tasks)
      BY <2>1, <2>7 DEF HandedOver
    <3>2. lock_owner'[u] = next /\ next # NoThread
      BY <1>5, <1>10, <2>7
    <3>3. Placed(u)'
      BY <2>1, <2>2, <2>5, <3>1, <3>2 DEF ThreadInv, Placed
    <3>4. tag'[m] = Tagged(next, TRUE)
      BY <1>7, <2>7
    <3>5. \A k \in Mutexes : tag'[k].owner = u <=> tag[k].owner = u
      BY <1>7, <1>8, <2>1, <2>7
    <3>6. (\A k \in Mutexes : tag[k].owner = u => Owned(u, k))'
      BY <2>4, <2>5, <3>5 DEF Owned
    <3>7. ~(pc[u] = "unlock" \/ (pc[u] = "wait_condvar" /\ Granted(u)))'
      BY <2>2, <2>3, <2>5, <3>1 DEF Granted
    <3>8. (\A k \in Mutexes : k \in held[u] => tag[k].owner = u)'
      BY <2>1, <2>5, <3>5 DEF ThreadInv
    <3> QED
      BY <2>5, <2>6, <3>2, <3>3, <3>4, <3>6, <3>7, <3>8 DEF ThreadInv, Tagged
  <2>8. CASE u = next
    <3>1. /\ m_wait_queue'[u] = "none" /\ state'[u] = "Runnable"
          /\ m_wait_result'[u] = "Success" /\ u \notin m_hardware_timer_tasks'
      BY <2>1, <2>8 DEF HandedOver
    <3>2. lock_owner'[u] = NoThread
      BY <1>10, <2>1, <2>8
    <3>3. Placed(u)'
      BY <2>1, <2>2, <2>5, <3>1, <3>2 DEF Placed
    <3>4. (\A k \in Mutexes : tag[k].owner = u => Owned(u, k))'
      BY <1>7, <2>3, <2>4, <2>5, <3>1 DEF Owned, Granted
    <3>5. (\A k \in Mutexes : k \in held[u] => tag[k].owner = u)'
      BY <1>7, <1>8, <2>1, <2>5, <2>8 DEF ThreadInv
    <3> QED
      BY <1>8, <2>3, <2>5, <2>6, <2>8, <3>2, <3>3, <3>4, <3>5 DEF ThreadInv
  <2> QED
    BY <2>7, <2>8
<1> QED
  BY <1>2, <1>6, <1>7, <1>8, <1>9, <1>10, <1>11, <1>12

LEMMA SignalToAddressStep ==
    ASSUME Inv, NEW t \in Threads, SignalToAddress(t)
    PROVE  Inv'
<1> DEFINE m == m_address_key[t]
<1>1. TypeInv /\ TagInv /\ ThreadInv(t)
  BY DEF Inv
<1>2. /\ pc[t] = "unlock" /\ state[t] = "Runnable" /\ pc' = [pc EXCEPT ![t] = "run"]
      /\ UNCHANGED <<has_waiter_flag, m_condvar_tree, m_address_key, owner_thread, held, finalized>>
  BY DEF SignalToAddress, lifeVars
<1>3. PICK next \in NextOwners(t, m) :
        /\ tag' = [tag EXCEPT ![m] = TagAfter(t, m, next)]
        /\ lock_owner' = OwnersAfter(t, m, next)
        /\ EndWait({next} \cap Threads, [u \in {next} |-> "Success"])
        /\ state' = [u \in Threads |-> IF u = next THEN "Runnable" ELSE state[u]]
        /\ m_wait_queue' = [u \in Threads |-> IF u = next THEN "none" ELSE m_wait_queue[u]]
  BY DEF SignalToAddress
<1>4. m \in Mutexes /\ m \notin held[t] /\ tag[m].owner = t
  BY <1>1, <1>2, Types DEF ThreadInv
<1>5. /\ m_wait_result' = [u \in Threads |-> IF u = next THEN "Success" ELSE m_wait_result[u]]
      /\ m_hardware_timer_tasks' = m_hardware_timer_tasks \ ({next} \cap Threads)
  <2>1. m_wait_result' = [u \in Threads |-> IF u \in {next} \cap Threads
                            THEN [v \in {next} |-> "Success"][u] ELSE m_wait_result[u]]
    BY <1>3 DEF EndWait
  <2>2. \A u \in Threads : (IF u \in {next} \cap Threads
                            THEN [v \in {next} |-> "Success"][u] ELSE m_wait_result[u])
                           = IF u = next THEN "Success" ELSE m_wait_result[u]
    OBVIOUS
  <2> QED
    BY <1>3, <2>1, <2>2 DEF EndWait
<1>6. pc' \in [Threads -> Pc] /\ pc'[t] = "run" /\ \A u \in Threads \ {t} : pc'[u] = pc[u]
  BY <1>1, <1>2 DEF TypeInv, Pc
<1>7. HandedOver(t, m, next)
  BY <1>2, <1>3, <1>5, <1>6 DEF HandedOver
<1>8. /\ tag' \in [Mutexes -> Word] /\ lock_owner' \in [Threads -> Threads \cup {NoThread}]
      /\ TagInv'
      /\ next # t /\ tag'[m].owner # t /\ (\A k \in Mutexes \ {m} : tag'[k] = tag[k])
      /\ lock_owner'[t] = NoThread
      /\ \A u \in Threads \ {t} : ThreadInv(u)'
  BY <1>2, <1>4, <1>7, HandOver
<1>9. /\ state' \in [Threads -> {"Runnable", "Waiting", "Terminated"}] /\ state'[t] = state[t]
      /\ m_wait_queue' \in [Threads -> {"none", "address", "condvar"}]
      /\ m_wait_queue'[t] = m_wait_queue[t]
      /\ m_wait_result' \in [Threads -> {"Success", "TimedOut", "TerminationRequested",
                                         "InvalidState"}]
      /\ m_hardware_timer_tasks' \in SUBSET Threads
  BY <1>1, <1>3, <1>5, <1>8 DEF TypeInv
<1>10. TypeInv'
  BY <1>1, <1>2, <1>6, <1>8, <1>9 DEF TypeInv
<1>11. ThreadInv(t)'
  <2>1. /\ t \notin m_condvar_tree /\ m_wait_queue[t] = "none"
        /\ t \notin m_hardware_timer_tasks' /\ t \notin finalized
    BY <1>2, <1>5, Running
  <2>2. Placed(t)'
    BY <1>2, <1>6, <1>8, <1>9, <2>1 DEF Placed
  <2>3. \A k \in Mutexes : k \in held[t] => k # m /\ tag[k].owner = t
    BY <1>1, <1>4 DEF ThreadInv
  <2>4. \A k \in Mutexes : tag[k].owner = t => k \in held[t] \/ k = m
    BY <1>1, <1>2 DEF ThreadInv, Owned, Granted
  <2> QED
    BY <1>2, <1>4, <1>6, <1>8, <2>1, <2>2, <2>3, <2>4 DEF ThreadInv, Owned
<1> QED
  BY <1>8, <1>10, <1>11 DEF Inv

LEMMA WaitStep ==
    ASSUME Inv, NEW t \in Threads, NEW m \in Mutexes, NEW timeout \in Timeouts, Wait(t, m, timeout)
    PROVE  Inv'
<1> DEFINE waits == {t} \cap {u \in Threads : timeout # "zero"}
<1> DEFINE timer == IF timeout = "positive" THEN {t} ELSE {}
<1>1. TypeInv /\ TagInv /\ ThreadInv(t)
  BY DEF Inv
<1>2. /\ pc[t] = "run" /\ state[t] = "Runnable" /\ m \in held[t]
      /\ held' = [held EXCEPT ![t] = held[t] \ {m}]
      /\ m_address_key' = [m_address_key EXCEPT ![t] = m]
      /\ has_waiter_flag' = [has_waiter_flag EXCEPT ![m] = TRUE]
      /\ pc' = [pc EXCEPT ![t] = "wait_condvar"]
      /\ UNCHANGED <<owner_thread, finalized>>
  BY DEF Wait, lifeVars
<1>3. PICK next \in NextOwners(t, m) :
        /\ tag' = [tag EXCEPT ![m] = TagAfter(t, m, next)]
        /\ lock_owner' = OwnersAfter(t, m, next)
        /\ m_wait_result' = [u \in Threads |->
                IF u = t THEN "TimedOut" ELSE IF u = next THEN "Success" ELSE m_wait_result[u]]
        /\ m_hardware_timer_tasks' = (m_hardware_timer_tasks \ {next}) \cup timer
        /\ m_condvar_tree' = m_condvar_tree \cup waits
        /\ state' = [u \in Threads |-> IF u \in waits THEN "Waiting"
                                       ELSE IF u = next THEN "Runnable" ELSE state[u]]
        /\ m_wait_queue' = [u \in Threads |-> IF u \in waits THEN "condvar"
                                              ELSE IF u = next THEN "none" ELSE m_wait_queue[u]]
  BY DEF Wait
<1>4. tag[m].owner = t
  BY <1>1, <1>2 DEF ThreadInv
<1>5. /\ held' \in [Threads -> SUBSET Mutexes] /\ held'[t] = held[t] \ {m}
      /\ m_address_key' \in [Threads -> Mutexes] /\ m_address_key'[t] = m
      /\ pc' \in [Threads -> Pc] /\ pc'[t] = "wait_condvar"
      /\ has_waiter_flag' \in [Mutexes -> BOOLEAN] /\ has_waiter_flag'[m]
      /\ \A k \in Mutexes : has_waiter_flag[k] => has_waiter_flag'[k]
      /\ \A u \in Threads \ {t} : /\ m_address_key'[u] = m_address_key[u] /\ held'[u] = held[u]
                                  /\ pc'[u] = pc[u]
  BY <1>1, <1>2 DEF TypeInv, Pc
<1>6. waits \subseteq {t} /\ timer \subseteq waits
  OBVIOUS
<1> HIDE DEF waits, timer
<1>7. HandedOver(t, m, next)
  BY <1>2, <1>3, <1>5, <1>6 DEF HandedOver
<1>8. /\ tag' \in [Mutexes -> Word] /\ lock_owner' \in [Threads -> Threads \cup {NoThread}]
      /\ TagInv'
      /\ next # t /\ tag'[m].owner # t /\ (\A k \in Mutexes \ {m} : tag'[k] = tag[k])
      /\ lock_owner'[t] = NoThread
      /\ \A u \in Threads \ {t} : ThreadInv(u)'
  BY <1>2, <1>4, <1>7, HandOver
<1>9. /\ state' \in [Threads -> {"Runnable", "Waiting", "Terminated"}]
      /\ m_wait_queue' \in [Threads -> {"none", "address", "condvar"}]
      /\ m_wait_result' \in [Threads -> {"Success", "TimedOut", "TerminationRequested",
                                         "InvalidState"}]
      /\ m_hardware_timer_tasks' \in SUBSET Threads
      /\ m_condvar_tree' \in SUBSET Threads
  BY <1>1, <1>3, <1>6 DEF TypeInv
<1>10. TypeInv'
  BY <1>1, <1>2, <1>5, <1>8, <1>9 DEF TypeInv
<1>11. ThreadInv(t)'
  <2>1. /\ t \notin m_condvar_tree /\ m_wait_queue[t] = "none"
        /\ t \notin m_hardware_timer_tasks /\ t \notin finalized
    BY <1>2, Running
  <2>2. m_wait_result'[t] = "TimedOut"
    BY <1>3
  <2>3. \/ /\ t \in m_condvar_tree' /\ state'[t] = "Waiting" /\ m_wait_queue'[t] = "condvar"
        \/ /\ t \notin m_condvar_tree' /\ state'[t] = "Runnable" /\ m_wait_queue'[t] = "none"
           /\ t \notin m_hardware_timer_tasks'
    BY <1>2, <1>3, <1>6, <1>8, <2>1
  <2>4. Placed(t)'
    BY <1>2, <1>5, <1>8, <2>1, <2>3 DEF Placed
  <2>5. \A k \in Mutexes : k \in held[t] => tag[k].owner = t
    BY <1>1 DEF ThreadInv
  <2>6. \A k \in Mutexes : tag[k].owner = t => k \in held[t]
    BY <1>1, <1>2 DEF ThreadInv, Owned, Granted
  <2>7. ~(pc[t] = "unlock" \/ (pc[t] = "wait_condvar" /\ Granted(t)))'
    BY <1>5, <2>2 DEF Granted
  <2> QED
    BY <1>5, <1>8, <2>4, <2>5, <2>6, <2>7 DEF ThreadInv, Owned
<1> QED
  BY <1>8, <1>10, <1>11 DEF Inv

-----------------------------------------------------------------------------
(* The loop of Signal.  TLAPS knows a recursively defined function only as *)
(* the one that satisfies its equation; that there is one is shown first.  *)

LEMMA MinIsLeast ==
    ASSUME NEW S \in SUBSET Nat, S # {}
    PROVE  Min(S) \in S /\ \A x \in S : Min(S) <= x
<1>1. PICK x \in S : \A y \in S : ~(<<y, x>> \in OpToRel(<, Nat))
  BY NatLessThanWellFounded, WFMin
<1>2. ASSUME NEW y \in S PROVE x <= y
  <2>1. x \in Nat /\ y \in Nat /\ ~(<<y, x>> \in OpToRel(<, Nat))
    BY <1>1
  <2>2. ~(y < x)
    BY <2>1 DEF OpToRel
  <2>3. x \in Nat /\ y \in Nat
    BY <2>1
  <2> QED
    BY <2>2, <2>3
<1> QED
  BY <1>2 DEF Min

IsLoop(f, k, first, targets) ==
    f = [n \in 0..k |-> IF n = 0 THEN first ELSE SignalImpl(f[n - 1], targets[n])]

LEMMA LoopExists ==
    ASSUME NEW first, NEW targets, NEW L \in Nat
    PROVE  \E f : IsLoop(f, L, first, targets)
<1> DEFINE S == {k \in Nat : ~\E f : IsLoop(f, k, first, targets)}
<1> SUFFICES ASSUME S # {} PROVE FALSE
  OBVIOUS
<1> DEFINE k == Min(S)
<1>1. k \in S /\ \A x \in S : k <= x
  BY MinIsLeast
<1> HIDE DEF k
<1>2. k \in Nat /\ ~\E f : IsLoop(f, k, first, targets)
  BY <1>1
<1>3. k # 0
  <2>1. IsLoop([n \in 0..0 |-> first], 0, first, targets)
    <3>1. \A n \in 0..0 : n = 0
      OBVIOUS
    <3> QED
      BY <3>1 DEF IsLoop
  <2> QED
    BY <1>2, <2>1
<1>4. k - 1 \in Nat /\ k - 1 \notin S
  BY <1>1, <1>2, <1>3
<1>5. PICK f : IsLoop(f, k - 1, first, targets)
  BY <1>4
<1> DEFINE g == [n \in 0..k |-> IF n < k THEN f[n] ELSE SignalImpl(f[k - 1], targets[k])]
<1>6. \A n \in 0..(k - 1) : f[n] = IF n = 0 THEN first ELSE SignalImpl(f[n - 1], targets[n])
  BY <1>5 DEF IsLoop
<1>7. ASSUME NEW n \in 0..k PROVE g[n] = IF n = 0 THEN first ELSE SignalImpl(g[n - 1], targets[n])
  <2>1. CASE n = 0
    BY <1>2, <1>3, <1>6, <2>1
  <2>2. CASE n # 0 /\ n < k
    <3>1. n \in 0..(k - 1) /\ n - 1 \in 0..k /\ n - 1 < k
      BY <1>2, <2>2
    <3>2. g[n] = f[n] /\ g[n - 1] = f[n - 1]
      BY <2>2, <3>1
    <3> QED
      BY <1>6, <2>2, <3>1, <3>2
  <2>3. CASE n = k
    <3>1. g[k - 1] = f[k - 1] /\ g[k] = SignalImpl(f[k - 1], targets[k])
      BY <1>2, <1>3
    <3> QED
      BY <1>3, <2>3, <3>1
  <2> QED
    BY <1>2, <2>1, <2>2, <2>3
<1>8. IsLoop(g, k, first, targets)
  <2>1. g = [n \in 0..k |-> g[n]]
    OBVIOUS
  <2> HIDE DEF g
  <2> QED
    BY <1>7, <2>1 DEF IsLoop
<1> QED
  BY <1>2, <1>8

RunsAs(loop, m, targets, L) ==
    /\ SignalLoop(m, targets) = loop[L]
    /\ loop[0] = [tag |-> tag[m], owner |-> lock_owner, prio |-> m_priority]
    /\ \A n \in 1..L : loop[n] = SignalImpl(loop[n - 1], targets[n])

LEMMA LoopRuns ==
    ASSUME NEW m, NEW targets, Len(targets) \in Nat
    PROVE  \E loop : RunsAs(loop, m, targets, Len(targets))
<1> DEFINE first == [tag |-> tag[m], owner |-> lock_owner, prio |-> m_priority]
<1> DEFINE loop == CHOOSE f : IsLoop(f, Len(targets), first, targets)
<1>1. SignalLoop(m, targets) = loop[Len(targets)]
  BY DEF SignalLoop, IsLoop
<1> HIDE DEF first
<1>2. IsLoop(loop, Len(targets), first, targets)
  BY LoopExists
<1> HIDE DEF loop
<1>3. \A n \in 0..Len(targets) : loop[n] = IF n = 0 THEN first ELSE SignalImpl(loop[n - 1], targets[n])
  BY <1>2 DEF IsLoop
<1>4. loop[0] = first /\ \A n \in 1..Len(targets) : loop[n] = SignalImpl(loop[n - 1], targets[n])
  BY <1>3
<1>5. RunsAs(loop, m, targets, Len(targets))
  BY <1>1, <1>4 DEF RunsAs, first
<1> QED
  BY <1>5

LoopState(s, tg, ow) == s = [tag |-> tg, owner |-> ow, prio |-> s.prio]

\* What a round does to the tag and the lock owners
Round(u, tg, ow, tg2, ow2) ==
    /\ \A v \in Threads \ {u} : ow2[v] = ow[v]
    /\ \/ tg.owner = NoThread /\ tg2 = Tagged(u, FALSE) /\ ow2[u] = ow[u]
       \/ /\ tg.owner # NoThread /\ tg2 = Tagged(tg.owner, TRUE)
          /\ tg.owner \notin finalized /\ ow2[u] = tg.owner
       \/ /\ tg.owner # NoThread /\ tg2 = Tagged(tg.owner, TRUE)
          /\ tg.owner \in finalized /\ ow2[u] = ow[u]

\* One round, on a tag tg that has no wait bit unless somebody owns it.
LEMMA OneRound ==
    ASSUME NEW tg \in Word, NEW ow \in [Threads -> Threads \cup {NoThread}], NEW s,
           LoopState(s, tg, ow), tg.owner = NoThread => ~tg.wait, NEW u \in Threads
    PROVE  \E tg2 \in Word, ow2 \in [Threads -> Threads \cup {NoThread}] :
             LoopState(SignalImpl(s, u), tg2, ow2) /\ Round(u, tg, ow, tg2, ow2)
<1>0. PICK pr : s = [tag |-> tg, owner |-> ow, prio |-> pr]
  BY DEF LoopState
<1>1. s.tag = tg /\ s.owner = ow
  BY <1>0
<1>2. tg.owner \in Threads \cup {NoThread} /\ tg = Tagged(tg.owner, tg.wait) /\ tg.wait \in BOOLEAN
  BY DEF Word, Tagged
<1>3. tg = Free <=> tg.owner = NoThread
  BY <1>2 DEF Free, Tagged
<1>4. Tagged(u, FALSE) \in Word /\ Tagged(tg.owner, TRUE) \in Word
  BY <1>2, TaggedWord
<1>5. CASE tg.owner = NoThread
  <2>1. SignalImpl(s, u) = [s EXCEPT !.tag = Tagged(u, FALSE)]
    BY <1>1, <1>3, <1>5 DEF SignalImpl
  <2>2. SignalImpl(s, u) = [tag |-> Tagged(u, FALSE), owner |-> ow, prio |-> pr]
    BY <1>0, <2>1
  <2>3. LoopState(SignalImpl(s, u), Tagged(u, FALSE), ow)
    BY <2>2 DEF LoopState
  <2> QED
    BY <1>4, <1>5, <2>3 DEF Round
<1>6. CASE tg.owner # NoThread /\ tg.owner \notin finalized
  <2> DEFINE ow2 == [ow EXCEPT ![u] = tg.owner]
  <2>1. SignalImpl(s, u) = [tag |-> Tagged(tg.owner, TRUE), owner |-> ow2,
                            prio |-> AddWaiter(tg.owner, u, s.prio, ow2)]
    BY <1>1, <1>3, <1>6 DEF SignalImpl
  <2>2. LoopState(SignalImpl(s, u), Tagged(tg.owner, TRUE), ow2)
    BY <2>1 DEF LoopState
  <2>3. /\ ow2 \in [Threads -> Threads \cup {NoThread}] /\ ow2[u] = tg.owner
        /\ \A v \in Threads \ {u} : ow2[v] = ow[v]
    BY <1>2
  <2> HIDE DEF ow2
  <2> QED
    BY <1>4, <1>6, <2>2, <2>3 DEF Round
<1>7. CASE tg.owner # NoThread /\ tg.owner \in finalized
  <2>1. SignalImpl(s, u) = [s EXCEPT !.tag = Tagged(tg.owner, TRUE)]
    BY <1>1, <1>3, <1>7 DEF SignalImpl
  <2>2. SignalImpl(s, u) = [tag |-> Tagged(tg.owner, TRUE), owner |-> ow, prio |-> pr]
    BY <1>0, <2>1
  <2>3. LoopState(SignalImpl(s, u), Tagged(tg.owner, TRUE), ow)
    BY <2>2 DEF LoopState
  <2> QED
    BY <1>4, <1>7, <2>3 DEF Round
<1> QED
  BY <1>5, <1>6, <1>7

\* After n rounds: the first n targets have the mutex, wait for the one who
\* has it, or are turned away because that one is gone.
Rounds(m, targets, n, tg, ow) ==
    /\ tg.owner = NoThread => ~tg.wait
    /\ \A u \in Threads : (\A i \in 1..n : targets[i] # u) => ow[u] = lock_owner[u]
    /\ n = 0 => tg = tag[m]
    /\ n # 0 => tg.owner # NoThread
    /\ \A i \in 1..n : ow[targets[i]] # NoThread => tg = Tagged(ow[targets[i]], TRUE)
    /\ tag[m].owner # NoThread => tg.owner = tag[m].owner /\ (tag[m].wait => tg.wait)
    /\ tag[m].owner = NoThread /\ n # 0 => tg.owner = targets[1] /\ ow[targets[1]] = NoThread

LEMMA RoundsFollow ==
    ASSUME NEW m, NEW targets, NEW n \in Nat, NEW tg \in Word, NEW tg2 \in Word,
           NEW ow \in [Threads -> Threads \cup {NoThread}],
           NEW ow2 \in [Threads -> Threads \cup {NoThread}],
           \A i \in 1..(n + 1) : targets[i] \in Threads /\ lock_owner[targets[i]] = NoThread,
           \A i, j \in 1..(n + 1) : i # j => targets[i] # targets[j],
           Rounds(m, targets, n, tg, ow),
           NEW u, u = targets[n + 1],
           Round(u, tg, ow, tg2, ow2)
    PROVE  Rounds(m, targets, n + 1, tg2, ow2)
<1>1. n + 1 \in 1..(n + 1) /\ n + 1 # 0 /\ 1..n \subseteq 1..(n + 1)
      /\ \A i \in 1..(n + 1) : i \in 1..n \/ i = n + 1
  OBVIOUS
<1>2. u \in Threads /\ lock_owner[u] = NoThread /\ u # NoThread
  BY <1>1, ConstantsAssumption
<1>3. \A i \in 1..n : targets[i] \in Threads \ {u}
  <2> SUFFICES ASSUME NEW i \in 1..n PROVE targets[i] \in Threads \ {u}
    OBVIOUS
  <2>1. i \in 1..(n + 1) /\ i # n + 1
    OBVIOUS
  <2> QED
    BY <1>1, <2>1
<1>4. ow[u] = NoThread
  BY <1>2, <1>3 DEF Rounds
<1>5. tg2.owner = IF tg.owner = NoThread THEN u ELSE tg.owner
  BY DEF Round, Tagged
<1>6. tg.owner # NoThread => tg2.wait
  BY DEF Round, Tagged
<1>7. tg2.owner # NoThread
  BY <1>2, <1>5
<1>8. ASSUME NEW v \in Threads, \A i \in 1..(n + 1) : targets[i] # v PROVE ow2[v] = lock_owner[v]
  <2>1. v # u /\ \A i \in 1..n : targets[i] # v
    BY <1>1, <1>8
  <2> QED
    BY <2>1 DEF Round, Rounds
<1>9. ASSUME NEW i \in 1..(n + 1), ow2[targets[i]] # NoThread
      PROVE  tg2 = Tagged(ow2[targets[i]], TRUE)
  <2>1. CASE i = n + 1
    BY <1>4, <1>9, <2>1 DEF Round
  <2>2. CASE i \in 1..n
    <3>1. ow2[targets[i]] = ow[targets[i]]
      BY <1>3, <2>2 DEF Round
    <3>2. tg = Tagged(ow[targets[i]], TRUE)
      BY <1>9, <2>2, <3>1 DEF Rounds
    <3>3. tg.owner = ow[targets[i]]
      BY <3>2 DEF Tagged
    <3> QED
      BY <1>9, <3>1, <3>3 DEF Round
  <2> QED
    BY <1>1, <2>1, <2>2
<1>10. tag[m].owner # NoThread => tg2.owner = tag[m].owner /\ (tag[m].wait => tg2.wait)
  BY <1>5, <1>6 DEF Rounds
<1>11. tag[m].owner = NoThread => tg2.owner = targets[1] /\ ow2[targets[1]] = NoThread
  <2> SUFFICES ASSUME tag[m].owner = NoThread
               PROVE  tg2.owner = targets[1] /\ ow2[targets[1]] = NoThread
    OBVIOUS
  <2>1. CASE n = 0
    <3>1. tg.owner = NoThread /\ u = targets[1]
      BY <2>1 DEF Rounds
    <3> QED
      BY <1>4, <1>5, <3>1 DEF Round
  <2>2. CASE n # 0
    <3>1. 1 \in 1..n
      BY <2>2
    <3>2. tg.owner = targets[1] /\ ow[targets[1]] = NoThread /\ tg.owner # NoThread
      BY <2>2 DEF Rounds
    <3>3. ow2[targets[1]] = ow[targets[1]]
      BY <1>3, <3>1 DEF Round
    <3> QED
      BY <1>5, <3>2, <3>3
  <2> QED
    BY <2>1, <2>2
<1> QED
  BY <1>1, <1>7, <1>8, <1>9, <1>10, <1>11 DEF Rounds

\* Where the loop is after each round
LEMMA LoopRounds ==
    ASSUME Inv, NEW m \in Mutexes, NEW targets, NEW L \in Nat, NEW loop, RunsAs(loop, m, targets, L),
           \A i \in 1..L : targets[i] \in Threads /\ lock_owner[targets[i]] = NoThread,
           \A i, j \in 1..L : i # j => targets[i] # targets[j]
    PROVE  \A n \in 0..L : \E tg \in Word, ow \in [Threads -> Threads \cup {NoThread}] :
             LoopState(loop[n], tg, ow) /\ Rounds(m, targets, n, tg, ow)
<1>1. /\ loop[0] = [tag |-> tag[m], owner |-> lock_owner, prio |-> m_priority]
      /\ \A n \in 1..L : loop[n] = SignalImpl(loop[n - 1], targets[n])
  BY DEF RunsAs
<1> DEFINE Good(n) == \E tg \in Word, ow \in [Threads -> Threads \cup {NoThread}] :
                        LoopState(loop[n], tg, ow) /\ Rounds(m, targets, n, tg, ow)
<1>2. Good(0)
  <2>1. tag[m] \in Word /\ lock_owner \in [Threads -> Threads \cup {NoThread}]
    BY DEF Inv, TypeInv
  <2>2. LoopState(loop[0], tag[m], lock_owner)
    BY <1>1 DEF LoopState
  <2>3. Rounds(m, targets, 0, tag[m], lock_owner)
    <3>1. \A i \in 1..0 : FALSE
      OBVIOUS
    <3> QED
      BY <3>1 DEF Rounds, Inv, TagInv
  <2> QED
    BY <2>1, <2>2, <2>3
<1>3. ASSUME NEW n \in Nat, n + 1 \in 1..L, Good(n) PROVE Good(n + 1)
  <2>1. PICK tg \in Word, ow \in [Threads -> Threads \cup {NoThread}] :
            LoopState(loop[n], tg, ow) /\ Rounds(m, targets, n, tg, ow)
    BY <1>3
  <2> DEFINE u == targets[n + 1]
  <2>2. u \in Threads
    BY <1>3
  <2>3. loop[n + 1] = SignalImpl(loop[n], u)
    <3>1. (n + 1) - 1 = n
      OBVIOUS
    <3> QED
      BY <1>1, <1>3, <3>1
  <2>4. tg.owner = NoThread => ~tg.wait
    BY <2>1 DEF Rounds
  <2>5. PICK tg2 \in Word, ow2 \in [Threads -> Threads \cup {NoThread}] :
             LoopState(SignalImpl(loop[n], u), tg2, ow2) /\ Round(u, tg, ow, tg2, ow2)
    BY <2>1, <2>2, <2>4, OneRound
  <2>6. 1..(n + 1) \subseteq 1..L
    BY <1>3
  <2>7. /\ \A i \in 1..(n + 1) : targets[i] \in Threads /\ lock_owner[targets[i]] = NoThread
        /\ \A i, j \in 1..(n + 1) : i # j => targets[i] # targets[j]
    BY <2>6
  <2> HIDE DEF u
  <2>8. u = targets[n + 1]
    BY DEF u
  <2>9. Rounds(m, targets, n + 1, tg2, ow2)
    BY <2>1, <2>5, <2>7, <2>8, RoundsFollow
  <2> QED
    BY <2>3, <2>5, <2>9
<1> HIDE DEF Good
<1> DEFINE S == {n \in 0..L : ~Good(n)}
<1>4. S = {}
  <2> SUFFICES ASSUME S # {} PROVE FALSE
    OBVIOUS
  <2> DEFINE k == Min(S)
  <2>1. S \in SUBSET Nat
    OBVIOUS
  <2>2. k \in S /\ \A x \in S : k <= x
    BY <2>1, MinIsLeast
  <2> HIDE DEF k
  <2>3. k \in 0..L /\ ~Good(k) /\ k # 0
    BY <1>2, <2>2
  <2>4. k - 1 \in 0..L /\ k - 1 \in Nat /\ ~(k <= k - 1) /\ (k - 1) + 1 = k /\ k \in 1..L
    BY <2>3
  <2>5. Good(k - 1)
    BY <2>2, <2>4
  <2> QED
    BY <1>3, <2>3, <2>4, <2>5
<1>5. \A n \in 0..L : Good(n)
  BY <1>4
<1> QED
  BY <1>5 DEF Good

\* What the loop leaves
LEMMA LoopEnds ==
    ASSUME Inv, NEW m \in Mutexes, NEW targets, NEW L \in Nat, L = Len(targets),
           \A i \in 1..L : targets[i] \in Threads /\ lock_owner[targets[i]] = NoThread,
           \A i, j \in 1..L : i # j => targets[i] # targets[j]
    PROVE  \E tg \in Word, ow \in [Threads -> Threads \cup {NoThread}] :
             LoopState(SignalLoop(m, targets), tg, ow) /\ Rounds(m, targets, L, tg, ow)
<1>1. PICK loop : RunsAs(loop, m, targets, L)
  BY LoopRuns
<1>2. L \in 0..L /\ SignalLoop(m, targets) = loop[L]
  BY <1>1 DEF RunsAs
<1>3. \A n \in 0..L : \E tg \in Word, ow \in [Threads -> Threads \cup {NoThread}] :
        LoopState(loop[n], tg, ow) /\ Rounds(m, targets, n, tg, ow)
  BY <1>1, LoopRounds
<1> QED
  BY <1>2, <1>3

-----------------------------------------------------------------------------
(* Signal                                                                  *)

Waiting(m) == {u \in m_condvar_tree : m_address_key[u] = m}

\* An order of the tree lists every waiting thread once.
LEMMA OrderOfTree ==
    ASSUME Inv, NEW m \in Mutexes, NEW order \in TreeOrders(m)
    PROVE  /\ order \in Seq(Waiting(m)) /\ DOMAIN order = 1..Len(order) /\ Len(order) \in Nat
           /\ \A i \in 1..Len(order) : order[i] \in Waiting(m)
           /\ \A i, j \in 1..Len(order) : i # j => order[i] # order[j]
           /\ \A u \in Waiting(m) : \E i \in 1..Len(order) : order[i] = u
<1> DEFINE W == Waiting(m)
<1> DEFINE c == Cardinality(W)
<1>1. IsFiniteSet(W) /\ c \in Nat
  <2>1. W \in SUBSET Threads
    BY DEF Waiting, Inv, TypeInv
  <2> HIDE DEF W
  <2>2. IsFiniteSet(W)
    BY <2>1, FS_Subset, ConstantsAssumption
  <2> QED
    BY <2>2, FS_CardinalityType
<1>2. order \in [1..c -> W] /\ \A i, j \in 1..c : i # j => order[i] # order[j]
  BY DEF TreeOrders, SetToSeqs, Waiting
<1> HIDE DEF W
<1>3. order \in Injection(1..c, W)
  BY <1>2 DEF Injection, IsInjective
<1>4. Cardinality(1..c) = c
  BY <1>1, FS_Interval
<1>5. order \in Surjection(1..c, W)
  BY <1>1, <1>3, <1>4, FS_Injection
<1>6. \A u \in W : \E i \in 1..c : order[i] = u
  BY <1>5 DEF Surjection
<1> HIDE DEF c
<1>7. order \in Seq(W) /\ Len(order) = c /\ DOMAIN order = 1..c
  BY <1>1, <1>2
<1> QED
  BY <1>1, <1>2, <1>6, <1>7 DEF W

\* What Signal does, with T the threads it takes from the tree, tg the word
\* and ow the lock owners it leaves
Signaled(m, T, tg, ow) ==
    /\ tag' = [tag EXCEPT ![m] = tg] /\ lock_owner' = ow /\ m_condvar_tree' = m_condvar_tree \ T
    /\ tg.owner = NoThread => ~tg.wait
    /\ \A u \in Threads \ T : ow[u] = lock_owner[u]
    /\ \A u \in T : ow[u] # NoThread => tg = Tagged(ow[u], TRUE)
    /\ tag[m].owner # NoThread => tg.owner = tag[m].owner /\ (tag[m].wait => tg.wait)
    /\ tag[m].owner = NoThread => tg = tag[m] \/ (tg.owner \in T /\ ow[tg.owner] = NoThread)
    /\ \A u \in Threads :
        IF u \in T /\ ow[u] = NoThread
        THEN /\ state'[u] = "Runnable" /\ m_wait_queue'[u] = "none"
             /\ u \notin m_hardware_timer_tasks'
             /\ m_wait_result'[u] = IF tg.owner = u THEN "Success" ELSE "InvalidState"
        ELSE /\ state'[u] = state[u] /\ m_wait_queue'[u] = m_wait_queue[u]
             /\ (u \in m_hardware_timer_tasks' <=> u \in m_hardware_timer_tasks)
             /\ m_wait_result'[u] = m_wait_result[u]
    /\ \A k \in Mutexes \ {m} : has_waiter_flag'[k] = has_waiter_flag[k]
    /\ has_waiter_flag[m] /\ Waiting(m) \ T # {} => has_waiter_flag'[m]
    /\ UNCHANGED <<m_address_key, pc, owner_thread, held, finalized>>

LEMMA SignalFacts ==
    ASSUME Inv, NEW t \in Threads, NEW m \in Mutexes, NEW count \in 0..1, Signal(t, m, count)
    PROVE  /\ has_waiter_flag' \in [Mutexes -> BOOLEAN]
           /\ state' \in [Threads -> {"Runnable", "Waiting", "Terminated"}]
           /\ m_wait_queue' \in [Threads -> {"none", "address", "condvar"}]
           /\ m_wait_result' \in [Threads -> {"Success", "TimedOut", "TerminationRequested",
                                              "InvalidState"}]
           /\ m_hardware_timer_tasks' \in SUBSET Threads
           /\ \E T \in SUBSET Waiting(m), tg \in Word, ow \in [Threads -> Threads \cup {NoThread}] :
                Signaled(m, T, tg, ow)
<1> DEFINE n(order) == IF count <= 0 \/ count > Len(order) THEN Len(order) ELSE count
<1> DEFINE targets(order) == SubSeq(order, 1, n(order))
<1> DEFINE s(order) == SignalLoop(m, targets(order))
<1> DEFINE woken(order) == {u \in ToSet(targets(order)) : s(order).owner[u] = NoThread}
<1>1. TypeInv /\ TagInv
  BY DEF Inv
<1>2. PICK order \in TreeOrders(m) :
        /\ tag' = [tag EXCEPT ![m] = s(order).tag]
        /\ lock_owner' = s(order).owner
        /\ m_condvar_tree' = m_condvar_tree \ ToSet(targets(order))
        /\ EndWait(woken(order), [u \in woken(order) |->
                IF s(order).tag.owner = u THEN "Success" ELSE "InvalidState"])
        /\ state' = [u \in Threads |-> IF u \in woken(order) THEN "Runnable" ELSE state[u]]
        /\ m_wait_queue' = [u \in Threads |-> IF u \in woken(order) THEN "none" ELSE m_wait_queue[u]]
        /\ has_waiter_flag' = [has_waiter_flag EXCEPT
                                ![m] = has_waiter_flag[m] /\ KeepsFlag(n(order), order)]
  BY DEF Signal
<1>3. UNCHANGED <<m_address_key, pc, owner_thread, held, finalized>>
  BY DEF Signal, guestVars, lifeVars
<1> DEFINE L == n(order)
<1> DEFINE ts == targets(order)
<1> DEFINE T == ToSet(ts)
<1>4. /\ order \in Seq(Waiting(m)) /\ DOMAIN order = 1..Len(order) /\ Len(order) \in Nat
      /\ \A i \in 1..Len(order) : order[i] \in Waiting(m)
      /\ \A i, j \in 1..Len(order) : i # j => order[i] # order[j]
      /\ \A u \in Waiting(m) : \E i \in 1..Len(order) : order[i] = u
  BY OrderOfTree
<1>5. L \in Nat /\ L <= Len(order)
  BY <1>4
<1> HIDE DEF n
<1>6. Len(ts) = L /\ DOMAIN ts = 1..L /\ \A i \in 1..L : ts[i] = order[i] /\ i \in 1..Len(order)
  BY <1>4, <1>5
<1> HIDE DEF targets
<1>7. /\ \A i \in 1..L : ts[i] \in Waiting(m)
      /\ \A i, j \in 1..L : i # j => ts[i] # ts[j]
  BY <1>4, <1>6
<1>8. /\ \A u \in T : \E i \in 1..L : u = ts[i]
      /\ \A i \in 1..L : ts[i] \in T
      /\ T \in SUBSET Waiting(m)
  BY <1>6, <1>7 DEF ToSet
<1> HIDE DEF T
<1>9. \A u \in Waiting(m) : u \in Threads /\ lock_owner[u] = NoThread
  BY DEF Waiting, Inv, TypeInv, ThreadInv, Placed
<1>10. \A i \in 1..L : ts[i] \in Threads /\ lock_owner[ts[i]] = NoThread
  BY <1>7, <1>9
<1> HIDE DEF ts, L
<1>11. PICK tg \in Word, ow \in [Threads -> Threads \cup {NoThread}] :
         LoopState(SignalLoop(m, ts), tg, ow) /\ Rounds(m, ts, L, tg, ow)
  BY <1>5, <1>6, <1>7, <1>10, LoopEnds
<1>12. s(order).tag = tg /\ s(order).owner = ow
  <2>1. SignalLoop(m, ts) = [tag |-> tg, owner |-> ow, prio |-> SignalLoop(m, ts).prio]
    BY <1>11 DEF LoopState
  <2> QED
    BY <2>1 DEF ts
<1> DEFINE awake == {u \in T : ow[u] = NoThread}
<1>13. woken(order) = awake
  BY <1>12 DEF T, ts
<1> HIDE DEF s, woken, awake
<1>14. /\ tag' = [tag EXCEPT ![m] = tg] /\ lock_owner' = ow
       /\ m_condvar_tree' = m_condvar_tree \ T
       /\ state' = [u \in Threads |-> IF u \in awake THEN "Runnable" ELSE state[u]]
       /\ m_wait_queue' = [u \in Threads |-> IF u \in awake THEN "none" ELSE m_wait_queue[u]]
       /\ has_waiter_flag' = [has_waiter_flag EXCEPT
                                ![m] = has_waiter_flag[m] /\ KeepsFlag(L, order)]
       /\ m_hardware_timer_tasks' = m_hardware_timer_tasks \ awake
  BY <1>2, <1>12, <1>13 DEF EndWait, T, ts, L
<1>15. m_wait_result' = [u \in Threads |->
         IF u \in awake THEN [v \in awake |-> IF tg.owner = v THEN "Success" ELSE "InvalidState"][u]
         ELSE m_wait_result[u]]
  BY <1>2, <1>12, <1>13 DEF EndWait
<1>16. awake \subseteq T /\ \A u \in T : u \in awake <=> ow[u] = NoThread
  BY DEF awake
<1>17. \A u \in Threads : m_wait_result'[u] =
         IF u \in awake THEN IF tg.owner = u THEN "Success" ELSE "InvalidState" ELSE m_wait_result[u]
  BY <1>15
<1>18. m_wait_result' \in [Threads -> {"Success", "TimedOut", "TerminationRequested",
                                       "InvalidState"}]
  BY <1>1, <1>15 DEF TypeInv
<1>19. /\ has_waiter_flag' \in [Mutexes -> BOOLEAN]
       /\ state' \in [Threads -> {"Runnable", "Waiting", "Terminated"}]
       /\ m_wait_queue' \in [Threads -> {"none", "address", "condvar"}]
       /\ m_hardware_timer_tasks' \in SUBSET Threads
  BY <1>1, <1>14 DEF TypeInv, KeepsFlag
<1>20. Signaled(m, T, tg, ow)
  <2>1. \A u \in Threads \ T : ow[u] = lock_owner[u]
    BY <1>8, <1>11 DEF Rounds
  <2>2. \A u \in T : ow[u] # NoThread => tg = Tagged(ow[u], TRUE)
    BY <1>8, <1>11 DEF Rounds
  <2>3. tag[m].owner = NoThread => tg = tag[m] \/ (tg.owner \in T /\ ow[tg.owner] = NoThread)
    <3>1. CASE L = 0
      BY <1>11, <3>1 DEF Rounds
    <3>2. CASE L # 0
      <4>1. 1 \in 1..L
        BY <1>5, <3>2
      <4> QED
        BY <1>8, <1>11, <3>2, <4>1 DEF Rounds
    <3> QED
      BY <3>1, <3>2
  <2>4. ASSUME NEW u \in Threads
        PROVE  IF u \in T /\ ow[u] = NoThread
               THEN /\ state'[u] = "Runnable" /\ m_wait_queue'[u] = "none"
                    /\ u \notin m_hardware_timer_tasks'
                    /\ m_wait_result'[u] = IF tg.owner = u THEN "Success" ELSE "InvalidState"
               ELSE /\ state'[u] = state[u] /\ m_wait_queue'[u] = m_wait_queue[u]
                    /\ (u \in m_hardware_timer_tasks' <=> u \in m_hardware_timer_tasks)
                    /\ m_wait_result'[u] = m_wait_result[u]
    BY <1>14, <1>16, <1>17
  <2>5. \A k \in Mutexes \ {m} : has_waiter_flag'[k] = has_waiter_flag[k]
    BY <1>1, <1>14 DEF TypeInv
  <2>6. has_waiter_flag[m] /\ Waiting(m) \ T # {} => has_waiter_flag'[m]
    <3> SUFFICES ASSUME has_waiter_flag[m], NEW u \in Waiting(m), u \notin T PROVE has_waiter_flag'[m]
      OBVIOUS
    <3>1. PICK i \in 1..Len(order) : order[i] = u
      BY <1>4
    <3>2. i \notin 1..L
      BY <1>6, <1>8, <3>1
    <3>3. L < Len(order)
      BY <1>4, <1>5, <3>1, <3>2
    <3> QED
      BY <1>1, <1>14, <3>3 DEF TypeInv, KeepsFlag
  <2>7. /\ tg.owner = NoThread => ~tg.wait
        /\ tag[m].owner # NoThread => tg.owner = tag[m].owner /\ (tag[m].wait => tg.wait)
    BY <1>11 DEF Rounds
  <2> QED
    BY <1>3, <1>14, <2>1, <2>2, <2>3, <2>4, <2>5, <2>6, <2>7 DEF Signaled
<1> QED
  BY <1>8, <1>11, <1>18, <1>19, <1>20

LEMMA SignalStep ==
    ASSUME Inv, NEW t \in Threads, NEW m \in Mutexes, NEW count \in 0..1, Signal(t, m, count)
    PROVE  Inv'
<1>1. TypeInv /\ TagInv /\ \A u \in Threads : ThreadInv(u)
  BY DEF Inv
<1>2. /\ has_waiter_flag' \in [Mutexes -> BOOLEAN]
      /\ state' \in [Threads -> {"Runnable", "Waiting", "Terminated"}]
      /\ m_wait_queue' \in [Threads -> {"none", "address", "condvar"}]
      /\ m_wait_result' \in [Threads -> {"Success", "TimedOut", "TerminationRequested",
                                         "InvalidState"}]
      /\ m_hardware_timer_tasks' \in SUBSET Threads
  BY SignalFacts
<1>3. PICK T \in SUBSET Waiting(m), tg \in Word, ow \in [Threads -> Threads \cup {NoThread}] :
        Signaled(m, T, tg, ow)
  BY SignalFacts
<1>4. /\ tag' = [tag EXCEPT ![m] = tg] /\ lock_owner' = ow /\ m_condvar_tree' = m_condvar_tree \ T
      /\ UNCHANGED <<m_address_key, pc, owner_thread, held, finalized>>
  BY <1>3 DEF Signaled
<1>5. /\ tag' \in [Mutexes -> Word] /\ tag'[m] = tg /\ \A k \in Mutexes \ {m} : tag'[k] = tag[k]
  BY <1>1, <1>4 DEF TypeInv
<1>6. TypeInv'
  BY <1>1, <1>2, <1>4, <1>5 DEF TypeInv
<1>7. TagInv'
  BY <1>1, <1>3, <1>5 DEF TagInv, Signaled
<1>8. ASSUME NEW u \in T
      PROVE  /\ u \in Threads /\ u \in m_condvar_tree /\ m_address_key[u] = m
             /\ state[u] = "Waiting" /\ pc[u] = "wait_condvar" /\ lock_owner[u] = NoThread
             /\ u \notin finalized /\ m \notin held[u] /\ u \notin m_condvar_tree'
             /\ \A k \in Mutexes : tag[k].owner = u <=> k \in held[u]
             /\ ThreadInv(u)
  <2>1. u \in m_condvar_tree /\ m_address_key[u] = m /\ u \in Threads /\ ThreadInv(u)
    BY <1>1 DEF Waiting, TypeInv
  <2>2. /\ state[u] = "Waiting" /\ pc[u] = "wait_condvar" /\ lock_owner[u] = NoThread
        /\ u \notin finalized
    BY <2>1 DEF ThreadInv, Placed
  <2>3. m \notin held[u]
    BY <2>1, <2>2 DEF ThreadInv
  <2>4. \A k \in Mutexes : tag[k].owner = u <=> k \in held[u]
    BY <2>1, <2>2 DEF ThreadInv, Owned, Granted
  <2> QED
    BY <1>4, <2>1, <2>2, <2>3, <2>4
<1>9. ASSUME NEW u \in T, ow[u] # NoThread PROVE ThreadInv(u)'
  <2>1. /\ state'[u] = state[u] /\ m_wait_queue'[u] = m_wait_queue[u]
        /\ (u \in m_hardware_timer_tasks' <=> u \in m_hardware_timer_tasks)
        /\ m_wait_result'[u] = m_wait_result[u]
    BY <1>3, <1>8, <1>9 DEF Signaled
  <2>2. tg = Tagged(ow[u], TRUE)
    BY <1>3, <1>9 DEF Signaled
  <2>3. tg.owner # u
    <3>1. tag[m].owner # u
      BY <1>8
    <3>2. CASE tag[m].owner # NoThread
      BY <1>3, <3>1, <3>2 DEF Signaled
    <3>3. CASE tag[m].owner = NoThread
      BY <1>3, <1>9, <3>1, <3>3 DEF Signaled
    <3> QED
      BY <3>2, <3>3
  <2>4. Placed(u)'
    BY <1>4, <1>8, <1>9, <2>1 DEF Placed, ThreadInv
  <2>5. \A k \in Mutexes : tag'[k].owner = u <=> k \in held'[u]
    BY <1>4, <1>5, <1>8, <2>3
  <2> QED
    BY <1>4, <1>5, <1>8, <2>1, <2>2, <2>4, <2>5 DEF ThreadInv, Owned, Granted, Tagged
<1>10. ASSUME NEW u \in T, ow[u] = NoThread PROVE ThreadInv(u)'
  <2>1. /\ state'[u] = "Runnable" /\ m_wait_queue'[u] = "none" /\ u \notin m_hardware_timer_tasks'
        /\ m_wait_result'[u] = IF tg.owner = u THEN "Success" ELSE "InvalidState"
    BY <1>3, <1>8, <1>10 DEF Signaled
  <2>2. Placed(u)'
    BY <1>4, <1>8, <1>10, <2>1 DEF Placed
  <2>3. Granted(u)' <=> tg.owner = u
    BY <1>4, <1>8, <2>1 DEF Granted
  <2>4. \A k \in Mutexes : k \in held'[u] => tag'[k].owner = u
    BY <1>4, <1>5, <1>8
  <2>5. \A k \in Mutexes : tag'[k].owner = u => Owned(u, k)'
    BY <1>4, <1>5, <1>8, <2>3 DEF Owned
  <2>6. /\ pc'[u] = "wait_condvar" /\ m_address_key'[u] = m /\ m \notin held'[u]
        /\ lock_owner'[u] = NoThread /\ u \notin m_condvar_tree'
    BY <1>4, <1>8, <1>10
  <2>7. Granted(u)' => tag'[m].owner = u
    BY <1>5, <2>3
  <2> QED
    BY <2>2, <2>4, <2>5, <2>6, <2>7 DEF ThreadInv
<1>11. ASSUME NEW u \in Threads \ T PROVE ThreadInv(u)'
  <2>1. /\ state'[u] = state[u] /\ m_wait_queue'[u] = m_wait_queue[u]
        /\ (u \in m_hardware_timer_tasks' <=> u \in m_hardware_timer_tasks)
        /\ m_wait_result'[u] = m_wait_result[u] /\ lock_owner'[u] = lock_owner[u]
    BY <1>3, <1>4 DEF Signaled
  <2>2. Same(u)
    BY <1>4, <2>1 DEF Same
  <2>3. u # NoThread /\ m_address_key[u] \in Mutexes
    BY <1>1, Types, ConstantsAssumption
  <2>4. tg.owner = u <=> tag[m].owner = u
    BY <1>3, <2>3 DEF Signaled
  <2>5. \A k \in Mutexes : tag'[k].owner = u <=> tag[k].owner = u
    BY <1>5, <2>4
  <2>6. lock_owner[u] # NoThread => tag'[m_address_key[u]] = tag[m_address_key[u]]
    <3>1. CASE m_address_key[u] = m /\ lock_owner[u] # NoThread
      <4>1. tag[m] = Tagged(lock_owner[u], TRUE)
        BY <1>1, <3>1 DEF ThreadInv
      <4>2. tag[m].owner = lock_owner[u] /\ tag[m].wait
        BY <4>1 DEF Tagged
      <4>3. tg.owner = lock_owner[u] /\ tg.wait
        BY <1>3, <3>1, <4>2 DEF Signaled
      <4>4. tg = Tagged(lock_owner[u], TRUE)
        BY <4>3 DEF Word, Tagged
      <4> QED
        BY <1>5, <3>1, <4>1, <4>4
    <3> QED
      BY <1>5, <2>3, <3>1
  <2>7. u \in m_condvar_tree /\ has_waiter_flag[m_address_key[u]] => has_waiter_flag'[m_address_key[u]]
    BY <1>3, <2>3 DEF Signaled, Waiting
  <2>8. WordsKept(u)
    BY <2>5, <2>6, <2>7 DEF WordsKept
  <2> QED
    BY <1>1, <2>2, <2>8, SameThread
<1> QED
  BY <1>6, <1>7, <1>9, <1>10, <1>11 DEF Inv

-----------------------------------------------------------------------------
(* The invariant                                                           *)

LEMMA InitInv == Init => Inv
<1> SUFFICES ASSUME Init PROVE Inv
  OBVIOUS
<1>1. Min(Mutexes) \in Mutexes
  BY MinIsLeast, ConstantsAssumption
<1>2. Free \in Word /\ Free.owner = NoThread /\ Free.wait = FALSE
  BY TaggedWord DEF Free
<1>3. TypeInv
  BY <1>1, <1>2 DEF Init, TypeInv, Pc
<1>4. \A m \in Mutexes : tag[m].owner = NoThread /\ ~tag[m].wait
  BY <1>2 DEF Init
<1>5. ASSUME NEW t \in Threads PROVE ThreadInv(t)
  <2>1. Placed(t)
    BY DEF Init, Placed
  <2>2. pc[t] = "run" /\ lock_owner[t] = NoThread /\ t \notin m_condvar_tree /\ held[t] = {}
    BY DEF Init
  <2> QED
    BY <1>4, <2>1, <2>2, ConstantsAssumption DEF ThreadInv
<1> QED
  BY <1>3, <1>4, <1>5 DEF Inv, TagInv

LEMMA NextInv == Inv /\ [Next]_vars => Inv'
<1> SUFFICES ASSUME Inv, [Next]_vars PROVE Inv'
  OBVIOUS
<1>1. CASE UNCHANGED vars
  <2>1. UNCHANGED <<memoryVars, waitVars, m_address_key, guestVars, finalized>>
    BY <1>1 DEF vars, lifeVars
  <2> QED
    BY <2>1, NothingMoves
<1>2. ASSUME NEW t \in Threads, NEW m \in Mutexes,
             \/ GuestLock(t, m) \/ GuestUnlock(t, m)
             \/ \E timeout \in Timeouts : Wait(t, m, timeout)
             \/ \E count \in 0..1 : Signal(t, m, count)
      PROVE  Inv'
  BY <1>2, GuestLockStep, GuestUnlockStep, WaitStep, SignalStep
<1>3. ASSUME NEW t \in Threads,
             \/ GuestTryLock(t) \/ WaitForAddress(t) \/ WaitForAddressReturns(t)
             \/ SignalToAddress(t) \/ WaitReturns(t) \/ OnTimer(t)
             \/ RequestTerminate(t) \/ Exit(t) \/ Finalize(t)
             \/ \E value \in Priorities : SetBasePriority(t, value)
      PROVE  Inv'
  BY <1>3, GuestTryLockStep, WaitForAddressStep, WaitForAddressReturnsStep, SignalToAddressStep,
     WaitReturnsStep, OnTimerStep, RequestTerminateStep, ExitStep, FinalizeStep, SetBasePriorityStep
<1> QED
  BY <1>1, <1>2, <1>3 DEF Next

\* The invariant, for any threads, mutexes and priorities
THEOREM Invariant == Spec => []Inv
BY InitInv, NextInv, PTL DEF Spec

\* Whoever believes to hold a guest mutex is the owner its tag names, and a
\* thread the kernel keeps among an owner's waiters is announced in the tag by
\* that owner's handle and the wait bit: the hand-overs of SignalToAddress,
\* Wait and Signal and the cancelled waits never let memory and kernel differ.
THEOREM MemoryAndKernelAgree == Spec => []TagNamesOwner
<1>1. Inv => TagNamesOwner
  <2> SUFFICES ASSUME Inv PROVE TagNamesOwner
    OBVIOUS
  <2>1. ASSUME NEW t \in Threads, NEW m \in held[t] PROVE tag[m].owner = t
    <3>1. m \in Mutexes /\ ThreadInv(t)
      BY Types DEF Inv
    <3> QED
      BY <3>1 DEF ThreadInv
  <2>2. ASSUME NEW t \in Threads, lock_owner[t] # NoThread
        PROVE  tag[m_address_key[t]] = Tagged(lock_owner[t], TRUE)
    BY <2>2 DEF Inv, ThreadInv
  <2> QED
    BY <2>1, <2>2 DEF TagNamesOwner, TagNamesHolder, WaitersAreMarked
<1> QED
  BY <1>1, Invariant, PTL

\* A waiting thread is in the condition variable's tree or among the waiters
\* of an owner, never in both, and a running one in neither: no timeout,
\* termination, Signal or Finalize leaves a thread where nobody wakes it.
THEOREM EveryWaitHasItsPlace == Spec => []WaitsInOnePlace
<1>1. Inv => WaitsInOnePlace
  <2> SUFFICES ASSUME Inv, NEW t \in Threads
               PROVE  (state[t] = "Waiting")
                        <=> ((t \in m_condvar_tree) # (lock_owner[t] # NoThread))
    BY Zenon DEF WaitsInOnePlace
  <2>1. Placed(t)
    BY DEF Inv, ThreadInv
  <2>2. \/ state[t] = "Waiting" /\ t \in m_condvar_tree /\ lock_owner[t] = NoThread
        \/ state[t] = "Waiting" /\ t \notin m_condvar_tree /\ lock_owner[t] # NoThread
        \/ state[t] # "Waiting" /\ t \notin m_condvar_tree /\ lock_owner[t] = NoThread
    BY <2>1 DEF Placed
  <2>3. CASE state[t] = "Waiting" /\ t \in m_condvar_tree /\ lock_owner[t] = NoThread
    BY <2>3
  <2>4. CASE state[t] = "Waiting" /\ t \notin m_condvar_tree /\ lock_owner[t] # NoThread
    BY <2>4
  <2>5. CASE state[t] # "Waiting" /\ t \notin m_condvar_tree /\ lock_owner[t] = NoThread
    BY <2>5
  <2> QED
    BY <2>2, <2>3, <2>4, <2>5
<1> QED
  BY <1>1, Invariant, PTL

\* The word at a condition variable's key stays set while threads wait on it:
\* Signal clears it only when it has taken the last of them from the tree.
THEOREM FlagIsKept == Spec => []FlagCoversWaiters
<1>1. Inv => FlagCoversWaiters
  BY DEF Inv, TypeInv, ThreadInv, FlagCoversWaiters
<1> QED
  BY <1>1, Invariant, PTL

-----------------------------------------------------------------------------
(* Priority inheritance.  prio, base and owner stand for the priorities,   *)
(* the base priorities and the lock owners, now or during a step; X is a   *)
(* set of threads of which nothing is said.                                *)

Owners == [Threads -> Threads \cup {NoThread}]

Levels == Priorities \cup {TerminatingThreadPriority}

Prios == [Threads -> Levels]

\* Every thread but those in X has the priority it should.
RightBut(X, prio, base, owner) ==
    \A u \in Threads \ X : prio[u] = Inherited(u, prio, base, owner)

\* Along a chain of owners the keys rise, so it has an end.
Rising(owner, key) ==
    \A u, v \in Threads : owner[u] = v /\ owner[v] # NoThread => key[u] < key[v]

LEMMA LevelsAreNumbers == Levels \subseteq Nat
BY ConstantsAssumption DEF Levels

LEMMA InheritedFacts ==
    ASSUME NEW prio \in Prios, NEW base \in Prios, NEW owner, NEW t \in Threads
    PROVE  /\ Inherited(t, prio, base, owner) \in Levels
           /\ Inherited(t, prio, base, owner) <= base[t]
           /\ \A u \in Threads : owner[u] = t => Inherited(t, prio, base, owner) <= prio[u]
           /\ \/ Inherited(t, prio, base, owner) = base[t]
              \/ \E u \in Threads : owner[u] = t /\ Inherited(t, prio, base, owner) = prio[u]
<1> DEFINE S == {base[t]} \cup {prio[u] : u \in {v \in Threads : owner[v] = t}}
<1>1. S \in SUBSET Levels /\ base[t] \in S /\ \A u \in Threads : owner[u] = t => prio[u] \in S
  BY DEF Prios
<1>2. S \in SUBSET Nat /\ S # {}
  BY <1>1, LevelsAreNumbers
<1>3. \A x \in S : x = base[t] \/ \E u \in Threads : owner[u] = t /\ x = prio[u]
  OBVIOUS
<1>4. Inherited(t, prio, base, owner) = Min(S)
  BY DEF Inherited
<1> HIDE DEF S
<1>5. Min(S) \in S /\ \A x \in S : Min(S) <= x
  BY <1>2, MinIsLeast
<1> QED
  BY <1>1, <1>3, <1>4, <1>5

LEMMA InheritedIs ==
    ASSUME NEW prio \in Prios, NEW base \in Prios, NEW owner, NEW t \in Threads, NEW x \in Levels,
           x <= base[t], \A u \in Threads : owner[u] = t => x <= prio[u],
           x = base[t] \/ \E u \in Threads : owner[u] = t /\ x = prio[u]
    PROVE  x = Inherited(t, prio, base, owner)
<1> DEFINE y == Inherited(t, prio, base, owner)
<1>1. /\ y \in Levels /\ y <= base[t]
      /\ \A u \in Threads : owner[u] = t => y <= prio[u]
      /\ y = base[t] \/ \E u \in Threads : owner[u] = t /\ y = prio[u]
  BY InheritedFacts
<1> HIDE DEF y
<1>2. x <= y /\ y <= x
  BY <1>1
<1>3. x \in Nat /\ y \in Nat
  BY <1>1, LevelsAreNumbers
<1>4. x = y
  BY <1>2, <1>3
<1> QED
  BY <1>4 DEF y

\* What a thread inherits depends on those who wait for it.
LEMMA SameInherited ==
    ASSUME NEW prio, NEW base, NEW owner, NEW prio2, NEW base2, NEW owner2, NEW t,
           base2[t] = base[t],
           \A u \in Threads : owner2[u] = t <=> owner[u] = t,
           \A u \in Threads : owner[u] = t => prio2[u] = prio[u]
    PROVE  Inherited(t, prio2, base2, owner2) = Inherited(t, prio, base, owner)
<1> DEFINE W == {v \in Threads : owner[v] = t}
<1>1. {v \in Threads : owner2[v] = t} = W
  OBVIOUS
<1>2. {prio2[u] : u \in W} = {prio[u] : u \in W}
  OBVIOUS
<1> QED
  BY <1>1, <1>2 DEF Inherited

\* A round of RestorePriority
RestoreRound(s, base, owner) ==
    LET new == Inherited(s.thread, s.prio, base, owner)
    IN  IF s.thread = NoThread \/ new = s.prio[s.thread]
        THEN [s EXCEPT !.thread = NoThread]
        ELSE [thread |-> owner[s.thread], prio |-> [s.prio EXCEPT ![s.thread] = new]]

IsRestore(f, k, first, base, owner) ==
    f = [n \in 0..k |-> IF n = 0 THEN first ELSE RestoreRound(f[n - 1], base, owner)]

LEMMA RestoreExists ==
    ASSUME NEW first, NEW base, NEW owner, NEW L \in Nat
    PROVE  \E f : IsRestore(f, L, first, base, owner)
<1> DEFINE S == {k \in Nat : ~\E f : IsRestore(f, k, first, base, owner)}
<1> SUFFICES ASSUME S # {} PROVE FALSE
  OBVIOUS
<1> DEFINE k == Min(S)
<1>1. k \in S /\ \A x \in S : k <= x
  BY MinIsLeast
<1> HIDE DEF k
<1>2. k \in Nat /\ ~\E f : IsRestore(f, k, first, base, owner)
  BY <1>1
<1>3. k # 0
  <2>1. IsRestore([n \in 0..0 |-> first], 0, first, base, owner)
    <3>1. \A n \in 0..0 : n = 0
      OBVIOUS
    <3> QED
      BY <3>1 DEF IsRestore
  <2> QED
    BY <1>2, <2>1
<1>4. k - 1 \in Nat /\ k - 1 \notin S
  BY <1>1, <1>2, <1>3
<1>5. PICK f : IsRestore(f, k - 1, first, base, owner)
  BY <1>4
<1> DEFINE g == [n \in 0..k |-> IF n < k THEN f[n] ELSE RestoreRound(f[k - 1], base, owner)]
<1>6. \A n \in 0..(k - 1) : f[n] = IF n = 0 THEN first ELSE RestoreRound(f[n - 1], base, owner)
  BY <1>5 DEF IsRestore
<1>7. ASSUME NEW n \in 0..k PROVE g[n] = IF n = 0 THEN first ELSE RestoreRound(g[n - 1], base, owner)
  <2>1. CASE n = 0
    BY <1>2, <1>3, <1>6, <2>1
  <2>2. CASE n # 0 /\ n < k
    <3>1. n \in 0..(k - 1) /\ n - 1 \in 0..k /\ n - 1 < k
      BY <1>2, <2>2
    <3>2. g[n] = f[n] /\ g[n - 1] = f[n - 1]
      BY <2>2, <3>1
    <3> QED
      BY <1>6, <2>2, <3>1, <3>2
  <2>3. CASE n = k
    <3>1. g[k - 1] = f[k - 1] /\ g[k] = RestoreRound(f[k - 1], base, owner)
      BY <1>2, <1>3
    <3> QED
      BY <1>3, <2>3, <3>1
  <2> QED
    BY <1>2, <2>1, <2>2, <2>3
<1>8. IsRestore(g, k, first, base, owner)
  <2>1. g = [n \in 0..k |-> g[n]]
    OBVIOUS
  <2> HIDE DEF g
  <2> QED
    BY <1>7, <2>1 DEF IsRestore
<1> QED
  BY <1>2, <1>8

LEMMA RestoreRuns ==
    ASSUME NEW t, NEW prio, NEW base, NEW owner
    PROVE  \E step : /\ RestorePriority(t, prio, base, owner) = step[Cardinality(Threads)].prio
                     /\ step[0] = [thread |-> t, prio |-> prio]
                     /\ \A n \in 1..Cardinality(Threads) :
                          step[n] = RestoreRound(step[n - 1], base, owner)
<1> DEFINE first == [thread |-> t, prio |-> prio]
           K == Cardinality(Threads)
           step == CHOOSE f : IsRestore(f, K, first, base, owner)
<1>1. RestorePriority(t, prio, base, owner) = step[K].prio
  BY DEF RestorePriority, IsRestore, RestoreRound
<1>2. K \in Nat
  BY FS_CardinalityType, ConstantsAssumption
<1> HIDE DEF first, K
<1>3. IsRestore(step, K, first, base, owner)
  BY <1>2, RestoreExists
<1> HIDE DEF step
<1>4. \A n \in 0..K : step[n] = IF n = 0 THEN first ELSE RestoreRound(step[n - 1], base, owner)
  BY <1>3 DEF IsRestore
<1>5. step[0] = first /\ \A n \in 1..K : step[n] = RestoreRound(step[n - 1], base, owner)
  BY <1>2, <1>4
<1> QED
  BY <1>1, <1>5 DEF first, K

\* The loop is at thread x with priorities p: only x may be wrong, and if
\* there is an x, n threads are behind it on the chain.
RestoreAt(s, n, X, base, owner, key) ==
    \E x \in Threads \cup {NoThread}, p \in Prios :
        /\ s = [thread |-> x, prio |-> p]
        /\ RightBut(X \cup {x}, p, base, owner)
        /\ x # NoThread =>
             \E V \in SUBSET Threads :
                /\ Cardinality(V) = n /\ x \notin V
                /\ \A v \in V : owner[v] # NoThread
                /\ owner[x] # NoThread => \A v \in V : key[v] < key[x]

LEMMA RestoreRoundRight ==
    ASSUME NEW X, NEW base \in Prios, NEW owner \in Owners, NEW key \in [Threads -> Nat],
           Rising(owner, key), NEW n \in Nat, NEW s, RestoreAt(s, n, X, base, owner, key)
    PROVE  RestoreAt(RestoreRound(s, base, owner), n + 1, X, base, owner, key)
<1>1. PICK x \in Threads \cup {NoThread}, p \in Prios :
        /\ s = [thread |-> x, prio |-> p]
        /\ RightBut(X \cup {x}, p, base, owner)
        /\ x # NoThread =>
             \E V \in SUBSET Threads :
                /\ Cardinality(V) = n /\ x \notin V
                /\ \A v \in V : owner[v] # NoThread
                /\ owner[x] # NoThread => \A v \in V : key[v] < key[x]
  BY DEF RestoreAt
<1>2. s.thread = x /\ s.prio = p /\ [s EXCEPT !.thread = NoThread] = [thread |-> NoThread, prio |-> p]
  BY <1>1
<1> DEFINE new == Inherited(x, p, base, owner)
<1>3. CASE x = NoThread \/ new = p[x]
  <2>1. RestoreRound(s, base, owner) = [thread |-> NoThread, prio |-> p]
    BY <1>2, <1>3 DEF RestoreRound
  <2>2. RightBut(X \cup {NoThread}, p, base, owner)
    BY <1>1, <1>3 DEF RightBut
  <2> QED
    BY <2>1, <2>2 DEF RestoreAt
<1>4. CASE x # NoThread /\ new # p[x]
  <2> DEFINE y == owner[x]
             q == [p EXCEPT ![x] = new]
  <2>1. RestoreRound(s, base, owner) = [thread |-> y, prio |-> q]
    BY <1>2, <1>4 DEF RestoreRound
  <2>2. x \in Threads /\ y \in Threads \cup {NoThread} /\ y # x
    BY <1>4 DEF Owners, Rising
  <2>3. new \in Levels
    BY <2>2, InheritedFacts
  <2>4. q \in Prios /\ q[x] = new /\ \A u \in Threads \ {x} : q[u] = p[u]
    BY <2>2, <2>3 DEF Prios
  <2> HIDE DEF q
  <2>5. RightBut(X \cup {y}, q, base, owner)
    <3> SUFFICES ASSUME NEW u \in Threads, u \notin X, u # y
                 PROVE  q[u] = Inherited(u, q, base, owner)
      BY DEF RightBut
    <3>1. \A w \in Threads : owner[w] = u => q[w] = p[w]
      BY <2>4
    <3>2. Inherited(u, q, base, owner) = Inherited(u, p, base, owner)
      BY <3>1, SameInherited
    <3>3. CASE u = x
      BY <2>4, <3>2, <3>3
    <3>4. CASE u # x
      BY <1>1, <2>4, <3>2, <3>4 DEF RightBut
    <3> QED
      BY <3>3, <3>4
  <2>6. ASSUME y # NoThread
        PROVE  \E V \in SUBSET Threads :
                  /\ Cardinality(V) = n + 1 /\ y \notin V
                  /\ \A v \in V : owner[v] # NoThread
                  /\ owner[y] # NoThread => \A v \in V : key[v] < key[y]
    <3>1. PICK V \in SUBSET Threads :
                /\ Cardinality(V) = n /\ x \notin V
                /\ \A v \in V : owner[v] # NoThread
                /\ owner[x] # NoThread => \A v \in V : key[v] < key[x]
      BY <1>1, <1>4
    <3> DEFINE W == V \cup {x}
    <3>2. IsFiniteSet(V)
      BY FS_Subset, ConstantsAssumption
    <3>3. Cardinality(W) = n + 1
      BY <3>1, <3>2, FS_AddElement
    <3>4. W \in SUBSET Threads /\ \A v \in W : owner[v] # NoThread
      BY <2>2, <2>6, <3>1
    <3>5. ASSUME owner[y] # NoThread, NEW v \in W PROVE key[v] < key[y]
      <4>1. y \in Threads /\ v \in Threads /\ key[x] \in Nat /\ key[y] \in Nat /\ key[v] \in Nat
        BY <2>2, <2>6, <3>4
      <4>2. key[x] < key[y]
        BY <2>2, <3>5, <4>1 DEF Rising
      <4>3. v = x \/ key[v] < key[x]
        BY <2>6, <3>1
      <4> QED
        BY <4>1, <4>2, <4>3
    <3>6. y \notin W
      <4> SUFFICES ASSUME y \in W PROVE FALSE
        OBVIOUS
      <4>1. owner[y] # NoThread
        BY <3>4
      <4>2. key[y] < key[y]
        BY <3>5, <4>1
      <4>3. key[y] \in Nat
        BY <2>2, <2>6
      <4> QED
        BY <4>2, <4>3
    <3> HIDE DEF W
    <3> QED
      BY <3>3, <3>4, <3>5, <3>6
  <2> HIDE DEF y
  <2> QED
    BY <2>1, <2>2, <2>4, <2>5, <2>6 DEF RestoreAt
<1> QED
  BY <1>3, <1>4

\* RestorePriority makes good what is wrong with one thread, and with those
\* above it on the chain.
LEMMA RestoreRight ==
    ASSUME NEW X, NEW prio \in Prios, NEW base \in Prios, NEW owner \in Owners,
           NEW key \in [Threads -> Nat], Rising(owner, key), NEW t \in Threads,
           RightBut(X \cup {t}, prio, base, owner)
    PROVE  /\ RestorePriority(t, prio, base, owner) \in Prios
           /\ RightBut(X, RestorePriority(t, prio, base, owner), base, owner)
<1> DEFINE K == Cardinality(Threads)
<1>1. PICK step : /\ RestorePriority(t, prio, base, owner) = step[K].prio
                  /\ step[0] = [thread |-> t, prio |-> prio]
                  /\ \A n \in 1..K : step[n] = RestoreRound(step[n - 1], base, owner)
  BY RestoreRuns
<1>2. K \in Nat
  BY FS_CardinalityType, ConstantsAssumption
<1> HIDE DEF K
<1> DEFINE At(n) == RestoreAt(step[n], n, X, base, owner, key)
<1>3. At(0)
  <2>1. {} \in SUBSET Threads /\ Cardinality({}) = 0
    BY FS_EmptySet
  <2> QED
    BY <1>1, <2>1 DEF RestoreAt
<1>4. ASSUME NEW n \in Nat, n + 1 \in 1..K, At(n) PROVE At(n + 1)
  <2>1. (n + 1) - 1 = n
    OBVIOUS
  <2>2. step[n + 1] = RestoreRound(step[n], base, owner)
    BY <1>1, <1>4, <2>1
  <2> QED
    BY <1>4, <2>2, RestoreRoundRight
<1> HIDE DEF At
<1> DEFINE S == {n \in 0..K : ~At(n)}
<1>5. S = {}
  <2> SUFFICES ASSUME S # {} PROVE FALSE
    OBVIOUS
  <2> DEFINE k == Min(S)
  <2>1. S \in SUBSET Nat
    OBVIOUS
  <2>2. k \in S /\ \A x \in S : k <= x
    BY <2>1, MinIsLeast
  <2> HIDE DEF k
  <2>3. k \in 0..K /\ ~At(k) /\ k # 0
    BY <1>3, <2>2
  <2>4. k - 1 \in 0..K /\ k - 1 \in Nat /\ ~(k <= k - 1) /\ (k - 1) + 1 = k /\ k \in 1..K
    BY <1>2, <2>3
  <2>5. At(k - 1)
    BY <2>2, <2>4
  <2> QED
    BY <1>4, <2>3, <2>4, <2>5
<1>6. RestoreAt(step[K], K, X, base, owner, key)
  BY <1>2, <1>5 DEF At
<1>7. PICK x \in Threads \cup {NoThread}, p \in Prios :
        /\ step[K] = [thread |-> x, prio |-> p]
        /\ RightBut(X \cup {x}, p, base, owner)
        /\ x # NoThread =>
             \E V \in SUBSET Threads : Cardinality(V) = K /\ x \notin V
  BY <1>6 DEF RestoreAt
<1>8. x = NoThread
  <2> SUFFICES ASSUME x # NoThread PROVE FALSE
    OBVIOUS
  <2>1. PICK V \in SUBSET Threads : Cardinality(V) = K /\ x \notin V
    BY <1>7
  <2>2. IsFiniteSet(V) /\ IsFiniteSet(Threads)
    BY FS_Subset, ConstantsAssumption
  <2>3. V \cup {x} \in SUBSET Threads /\ Cardinality(V \cup {x}) = K + 1
    BY <2>1, <2>2, FS_AddElement
  <2>4. Cardinality(V \cup {x}) <= K
    BY <2>2, <2>3, FS_Subset DEF K
  <2> QED
    BY <1>2, <2>3, <2>4
<1>9. RightBut(X, p, base, owner)
  BY <1>7, <1>8, ConstantsAssumption DEF RightBut
<1> QED
  BY <1>1, <1>7, <1>9

\* o->AddWaiter(t): the priority that t brings is passed on.
LEMMA AddRight ==
    ASSUME NEW X, NEW prio \in Prios, m_base_priority \in Prios, NEW before \in Owners,
           NEW owner \in Owners, NEW key \in [Threads -> Nat], Rising(owner, key),
           NEW o \in Threads, NEW t \in Threads, before[t] = NoThread, owner[t] = o,
           \A u \in Threads \ {t} : owner[u] = before[u],
           RightBut(X, prio, m_base_priority, before)
    PROVE  /\ AddWaiter(o, t, prio, owner) \in Prios
           /\ RightBut(X, AddWaiter(o, t, prio, owner), m_base_priority, owner)
<1> DEFINE base == m_base_priority
<1>1. ASSUME NEW u \in Threads \ X, u # o PROVE prio[u] = Inherited(u, prio, base, owner)
  <2>1. \A w \in Threads : owner[w] = u <=> before[w] = u
    BY <1>1, ConstantsAssumption
  <2>2. Inherited(u, prio, base, owner) = Inherited(u, prio, base, before)
    BY <2>1, SameInherited
  <2> QED
    BY <1>1, <2>2 DEF RightBut
<1>2. RightBut(X \cup {o}, prio, base, owner)
  BY <1>1 DEF RightBut
<1>3. CASE prio[t] < prio[o]
  BY <1>2, <1>3, RestoreRight DEF AddWaiter
<1>4. CASE ~(prio[t] < prio[o])
  <2>1. AddWaiter(o, t, prio, owner) = prio
    BY <1>4 DEF AddWaiter
  <2>2. ASSUME o \notin X PROVE prio[o] = Inherited(o, prio, base, owner)
    <3>1. prio[o] = Inherited(o, prio, base, before)
      BY <2>2 DEF RightBut
    <3>2. /\ prio[o] <= base[o]
          /\ \A u \in Threads : before[u] = o => prio[o] <= prio[u]
          /\ prio[o] = base[o] \/ \E u \in Threads : before[u] = o /\ prio[o] = prio[u]
      BY <3>1, InheritedFacts
    <3>3. prio[o] <= prio[t]
      <4>1. prio[o] \in Nat /\ prio[t] \in Nat
        BY LevelsAreNumbers DEF Prios
      <4> QED
        BY <1>4, <4>1
    <3>4. \A u \in Threads : owner[u] = o => prio[o] <= prio[u]
      BY <3>2, <3>3
    <3>5. prio[o] = base[o] \/ \E u \in Threads : owner[u] = o /\ prio[o] = prio[u]
      BY <3>2, ConstantsAssumption
    <3>6. prio[o] \in Levels
      BY DEF Prios
    <3> QED
      BY <3>2, <3>4, <3>5, <3>6, InheritedIs
  <2> QED
    BY <1>1, <2>1, <2>2 DEF RightBut
<1> QED
  BY <1>3, <1>4

\* o->RemoveWaiter(t), or a hand-over to t: W are the waiters that o loses, t
\* the one of the highest priority among them.
LEMMA RemoveRight ==
    ASSUME NEW X, NEW prio \in Prios, NEW base \in Prios, NEW before \in Owners,
           NEW owner \in Owners, NEW key \in [Threads -> Nat], Rising(owner, key),
           NEW o \in Threads, NEW W \in SUBSET Threads, NEW t \in W,
           \A u \in W : before[u] = o /\ prio[t] <= prio[u],
           \A u \in Threads : owner[u] = o <=> before[u] = o /\ u \notin W,
           RightBut(X, prio, base, before), RightBut(X \cup {o}, prio, base, owner)
    PROVE  /\ RemoveWaiter(o, t, prio, base, owner) \in Prios
           /\ RightBut(X, RemoveWaiter(o, t, prio, base, owner), base, owner)
<1>1. CASE prio[o] = prio[t] /\ prio[o] < base[o]
  BY <1>1, RestoreRight DEF RemoveWaiter
<1>2. CASE ~(prio[o] = prio[t] /\ prio[o] < base[o])
  <2>1. RemoveWaiter(o, t, prio, base, owner) = prio
    BY <1>2 DEF RemoveWaiter
  <2>2. ASSUME o \notin X PROVE prio[o] = Inherited(o, prio, base, owner)
    <3>1. prio[o] = Inherited(o, prio, base, before)
      BY <2>2 DEF RightBut
    <3>2. /\ prio[o] <= base[o]
          /\ \A u \in Threads : before[u] = o => prio[o] <= prio[u]
          /\ prio[o] = base[o] \/ \E u \in Threads : before[u] = o /\ prio[o] = prio[u]
      BY <3>1, InheritedFacts
    <3>3. \A u \in Threads : prio[u] \in Nat /\ base[u] \in Nat /\ prio[u] \in Levels
      BY LevelsAreNumbers DEF Prios
    <3>4. prio[o] = base[o] \/ \A u \in W : prio[u] # prio[o]
      BY <1>2, <3>2, <3>3
    <3>5. prio[o] = base[o] \/ \E u \in Threads : owner[u] = o /\ prio[o] = prio[u]
      BY <3>2, <3>4
    <3>6. \A u \in Threads : owner[u] = o => prio[o] <= prio[u]
      BY <3>2
    <3> QED
      BY <3>2, <3>3, <3>5, <3>6, InheritedIs
  <2> QED
    BY <2>1, <2>2 DEF RightBut
<1> QED
  BY <1>1, <1>2

-----------------------------------------------------------------------------
(* Chains of owners end, because guests take their mutexes in order        *)

\* A thread that wants a mutex or waits with one holds only smaller ones.
RankInv ==
    \A t \in Threads : pc[t] \in {"lock", "arbitrate", "wait_address", "wait_condvar"} =>
        \A h \in held[t] : h < m_address_key[t]

LEMMA WaiterHoldsLess ==
    ASSUME Inv, RankInv, NEW t \in Threads, state[t] = "Waiting", NEW m \in Mutexes, tag[m].owner = t
    PROVE  m < m_address_key[t]
<1>1. ThreadInv(t)
  BY DEF Inv
<1>2. pc[t] \in {"wait_address", "wait_condvar"}
  BY <1>1 DEF ThreadInv, Placed
<1>3. m \in held[t]
  BY <1>1, <1>2 DEF ThreadInv, Owned, Granted
<1> QED
  BY <1>2, <1>3 DEF RankInv

LEMMA KeysRise == Inv /\ RankInv => Rising(lock_owner, m_address_key)
<1> SUFFICES ASSUME Inv, RankInv, NEW u \in Threads, NEW v \in Threads, lock_owner[u] = v,
                    lock_owner[v] # NoThread
             PROVE  m_address_key[u] < m_address_key[v]
  BY DEF Rising
<1>1. v # NoThread /\ m_address_key[u] \in Mutexes
  BY Types, ConstantsAssumption DEF Inv
<1>2. tag[m_address_key[u]].owner = v
  <2>1. tag[m_address_key[u]] = Tagged(v, TRUE)
    BY <1>1 DEF Inv, ThreadInv
  <2> QED
    BY <2>1 DEF Tagged
<1>3. state[v] = "Waiting"
  BY DEF Inv, ThreadInv, Placed
<1> QED
  BY <1>1, <1>2, <1>3, WaiterHoldsLess

LEMMA KeysRiseNext == Inv' /\ RankInv' => Rising(lock_owner, m_address_key)'
BY KeysRise, PTL

LEMMA RankStep == Inv /\ RankInv /\ [Next]_vars => RankInv'
<1> SUFFICES ASSUME Inv, RankInv, [Next]_vars PROVE RankInv'
  OBVIOUS
<1>1. TypeInv
  BY DEF Inv
<1> DEFINE Locking == {"lock", "arbitrate", "wait_address", "wait_condvar"}
<1>2. ASSUME NEW t \in Threads,
             \A u \in Threads \ {t} : /\ pc'[u] = pc[u] /\ held'[u] = held[u]
                                      /\ m_address_key'[u] = m_address_key[u],
             pc'[t] \in Locking => \A h \in held'[t] : h < m_address_key'[t]
      PROVE  RankInv'
  BY <1>2 DEF RankInv
<1>3. ASSUME NEW t \in Threads, m_address_key'[t] = m_address_key[t], held'[t] = held[t],
             pc'[t] \in Locking => pc[t] \in Locking,
             \A u \in Threads \ {t} : /\ pc'[u] = pc[u] /\ held'[u] = held[u]
                                      /\ m_address_key'[u] = m_address_key[u]
      PROVE  RankInv'
  BY <1>3 DEF RankInv
<1>4. ASSUME UNCHANGED <<m_address_key, guestVars>> PROVE RankInv'
  BY <1>4 DEF guestVars, RankInv
<1> HIDE DEF Locking
<1>5. ASSUME NEW t \in Threads, NEW m \in Mutexes, GuestLock(t, m) PROVE RankInv'
  <2>1. /\ UNCHANGED held /\ (\A h \in held[t] : h < m) /\ m_address_key'[t] = m
        /\ \A u \in Threads \ {t} : pc'[u] = pc[u] /\ m_address_key'[u] = m_address_key[u]
    BY <1>1, <1>5 DEF GuestLock, TypeInv
  <2>2. \A h \in held'[t] : h < m_address_key'[t]
    BY <2>1
  <2> QED
    BY <1>2, <2>1, <2>2
<1>6. ASSUME NEW t \in Threads, NEW m \in Mutexes, GuestUnlock(t, m) PROVE RankInv'
  <2>1. pc[t] = "run" /\ pc'[t] \in {"run", "unlock"}
    BY <1>1, <1>6 DEF GuestUnlock, TypeInv
  <2>2. \A u \in Threads \ {t} : /\ pc'[u] = pc[u] /\ held'[u] = held[u]
                                 /\ m_address_key'[u] = m_address_key[u]
    BY <1>1, <1>6 DEF GuestUnlock, TypeInv
  <2> QED
    BY <1>2, <2>1, <2>2 DEF Locking
<1>7. ASSUME NEW t \in Threads, NEW m \in Mutexes, NEW timeout \in Timeouts, Wait(t, m, timeout)
      PROVE  RankInv'
  <2>1. /\ m \in held[t] /\ (\A h \in held[t] : h <= m) /\ held[t] \in SUBSET Mutexes
        /\ held' = [held EXCEPT ![t] = held[t] \ {m}]
        /\ m_address_key' = [m_address_key EXCEPT ![t] = m]
        /\ pc' = [pc EXCEPT ![t] = "wait_condvar"]
    BY <1>1, <1>7 DEF Wait, TypeInv
  <2>2. \A h \in held'[t] : h \in Nat /\ h <= m /\ h # m
    BY <1>1, <2>1, ConstantsAssumption DEF TypeInv
  <2>3. m \in Nat /\ m_address_key'[t] = m
    BY <1>1, <2>1, ConstantsAssumption DEF TypeInv
  <2>4. \A h \in held'[t] : h < m_address_key'[t]
    BY <2>2, <2>3
  <2>5. \A u \in Threads \ {t} : /\ pc'[u] = pc[u] /\ held'[u] = held[u]
                                 /\ m_address_key'[u] = m_address_key[u]
    BY <1>1, <2>1 DEF TypeInv
  <2> QED
    BY <1>2, <2>4, <2>5
<1>8. ASSUME NEW t \in Threads, NEW m \in Mutexes, NEW count \in 0..1, Signal(t, m, count)
      PROVE  RankInv'
  BY <1>4, <1>8 DEF Signal
<1>9. ASSUME NEW t \in Threads, GuestTryLock(t) PROVE RankInv'
  <2>1. /\ pc[t] = "lock" /\ UNCHANGED m_address_key
        /\ \/ pc' = [pc EXCEPT ![t] = "run"]
              /\ held' = [held EXCEPT ![t] = held[t] \cup {m_address_key[t]}]
           \/ pc' = [pc EXCEPT ![t] = "arbitrate"] /\ UNCHANGED held
    BY <1>9 DEF GuestTryLock
  <2>2. CASE pc' = [pc EXCEPT ![t] = "run"] /\ held' = [held EXCEPT ![t] = held[t] \cup {m_address_key[t]}]
    <3>1. pc'[t] \notin Locking
      BY <1>1, <2>2 DEF TypeInv, Locking
    <3>2. \A u \in Threads \ {t} : /\ pc'[u] = pc[u] /\ held'[u] = held[u]
                                   /\ m_address_key'[u] = m_address_key[u]
      BY <1>1, <2>1, <2>2 DEF TypeInv
    <3> QED
      BY <1>2, <3>1, <3>2
  <2>3. CASE pc' = [pc EXCEPT ![t] = "arbitrate"] /\ UNCHANGED held
    BY <1>1, <1>3, <2>1, <2>3 DEF TypeInv, Locking
  <2> QED
    BY <2>1, <2>2, <2>3
<1>10. ASSUME NEW t \in Threads, WaitForAddress(t) \/ WaitForAddressReturns(t) PROVE RankInv'
  <2>1. /\ pc[t] \in Locking /\ UNCHANGED <<m_address_key, held>>
        /\ \E p \in {"run", "lock", "wait_address"} : pc' = [pc EXCEPT ![t] = p]
    BY <1>10 DEF WaitForAddress, WaitForAddressReturns, ArbitrateLockReturns, ArbitrateLockWaits, Locking
  <2>2. \A u \in Threads \ {t} : pc'[u] = pc[u]
    BY <1>1, <2>1 DEF TypeInv
  <2> QED
    BY <1>3, <2>1, <2>2
<1>11. ASSUME NEW t \in Threads, SignalToAddress(t) \/ Exit(t) PROVE RankInv'
  <2>1. /\ UNCHANGED <<m_address_key, held>>
        /\ \E p \in {"run", "gone"} : pc' = [pc EXCEPT ![t] = p]
    BY <1>11 DEF SignalToAddress, Exit
  <2>2. pc'[t] \notin Locking /\ \A u \in Threads \ {t} : pc'[u] = pc[u]
    BY <1>1, <2>1 DEF TypeInv, Locking
  <2> QED
    BY <1>3, <2>1, <2>2
<1>12. ASSUME NEW t \in Threads, WaitReturns(t) PROVE RankInv'
  <2>1. /\ pc[t] \in Locking /\ UNCHANGED m_address_key
        /\ \/ pc' = [pc EXCEPT ![t] = "run"]
              /\ held' = [held EXCEPT ![t] = held[t] \cup {m_address_key[t]}]
           \/ pc' = [pc EXCEPT ![t] = "run"] /\ UNCHANGED held
           \/ pc' = [pc EXCEPT ![t] = "lock"] /\ UNCHANGED held
    BY <1>12 DEF WaitReturns, Locking
  <2>2. CASE pc' = [pc EXCEPT ![t] = "run"]
    <3>1. pc'[t] \notin Locking
      BY <1>1, <2>2 DEF TypeInv, Locking
    <3>2. \A u \in Threads \ {t} : /\ pc'[u] = pc[u] /\ held'[u] = held[u]
                                   /\ m_address_key'[u] = m_address_key[u]
      BY <1>1, <2>1 DEF TypeInv
    <3> QED
      BY <1>2, <3>1, <3>2
  <2>3. CASE pc' = [pc EXCEPT ![t] = "lock"] /\ UNCHANGED held
    BY <1>1, <1>3, <2>1, <2>3 DEF TypeInv
  <2> QED
    BY <2>1, <2>2, <2>3
<1>13. ASSUME NEW t \in Threads,
              \/ OnTimer(t) \/ RequestTerminate(t) \/ Finalize(t)
              \/ \E value \in Priorities : SetBasePriority(t, value)
       PROVE  RankInv'
  BY <1>4, <1>13 DEF OnTimer, RequestTerminate, Finalize, SetBasePriority
<1>14. CASE UNCHANGED vars
  BY <1>4, <1>14 DEF vars
<1> QED
  BY <1>5, <1>6, <1>7, <1>8, <1>9, <1>10, <1>11, <1>12, <1>13, <1>14 DEF Next

-----------------------------------------------------------------------------
(* Every step keeps the priorities right                                   *)

InheritInv ==
    /\ m_priority \in Prios /\ m_base_priority \in Prios
    /\ RightBut(finalized, m_priority, m_base_priority, lock_owner)

LEMMA KeysAreNumbers == Inv => m_address_key \in [Threads -> Nat] /\ lock_owner \in Owners
BY ConstantsAssumption DEF Inv, TypeInv, Owners

\* During the loop of Signal the chains end as well: the owner that a target
\* comes to wait for either runs or waits for a greater mutex.
LEMMA RisingRounds ==
    ASSUME Inv, RankInv, NEW m \in Mutexes, NEW targets, NEW n \in Nat,
           \A i \in 1..n : targets[i] \in Waiting(m),
           NEW tg \in Word, NEW ow \in Owners, Rounds(m, targets, n, tg, ow)
    PROVE  Rising(ow, m_address_key)
<1> SUFFICES ASSUME NEW u \in Threads, NEW v \in Threads, ow[u] = v, ow[v] # NoThread
             PROVE  m_address_key[u] < m_address_key[v]
  BY DEF Rising
<1>0. v # NoThread /\ m_address_key[u] \in Mutexes
  BY Types, ConstantsAssumption DEF Inv
<1>1. \A w \in Waiting(m) : w \in Threads /\ state[w] = "Waiting" /\ m_address_key[w] = m
  BY DEF Waiting, Inv, TypeInv, ThreadInv, Placed
<1>2. state[v] = "Waiting"
  <2>1. CASE \E i \in 1..n : targets[i] = v
    BY <1>1, <2>1
  <2>2. CASE \A i \in 1..n : targets[i] # v
    <3>1. lock_owner[v] # NoThread
      BY <2>2 DEF Rounds
    <3> QED
      BY <3>1 DEF Inv, ThreadInv, Placed
  <2> QED
    BY <2>1, <2>2
<1>3. tag[m_address_key[u]].owner = v
  <2>1. CASE \A i \in 1..n : targets[i] # u
    <3>1. lock_owner[u] = v
      BY <2>1 DEF Rounds
    <3>2. tag[m_address_key[u]] = Tagged(v, TRUE)
      BY <1>0, <3>1 DEF Inv, ThreadInv
    <3> QED
      BY <3>2 DEF Tagged
  <2>2. CASE \E i \in 1..n : targets[i] = u
    <3>1. m_address_key[u] = m /\ n # 0
      BY <1>1, <2>2
    <3>2. tg = Tagged(v, TRUE)
      BY <1>0, <2>2 DEF Rounds
    <3>3. tg.owner = v
      BY <3>2 DEF Tagged
    <3>4. tag[m].owner # NoThread
      BY <3>1, <3>3 DEF Rounds
    <3> QED
      BY <3>1, <3>3, <3>4 DEF Rounds
  <2> QED
    BY <2>1, <2>2
<1> QED
  BY <1>0, <1>2, <1>3, WaiterHoldsLess

LEMMA LoopPriorities ==
    ASSUME Inv, RankInv, InheritInv, NEW m \in Mutexes, NEW targets, NEW L \in Nat, L = Len(targets),
           \A i \in 1..L : targets[i] \in Waiting(m),
           \A i, j \in 1..L : i # j => targets[i] # targets[j]
    PROVE  /\ SignalLoop(m, targets).prio \in Prios
           /\ RightBut(finalized, SignalLoop(m, targets).prio, m_base_priority,
                       SignalLoop(m, targets).owner)
<1>1. PICK loop : RunsAs(loop, m, targets, L)
  BY LoopRuns
<1>2. \A i \in 1..L : targets[i] \in Threads /\ lock_owner[targets[i]] = NoThread
  BY DEF Waiting, Inv, TypeInv, ThreadInv, Placed
<1>3. \A n \in 0..L : \E tg \in Word, ow \in [Threads -> Threads \cup {NoThread}] :
        LoopState(loop[n], tg, ow) /\ Rounds(m, targets, n, tg, ow)
  BY <1>1, <1>2, LoopRounds
<1>4. /\ SignalLoop(m, targets) = loop[L]
      /\ loop[0] = [tag |-> tag[m], owner |-> lock_owner, prio |-> m_priority]
      /\ \A n \in 1..L : loop[n] = SignalImpl(loop[n - 1], targets[n])
  BY <1>1 DEF RunsAs
<1> DEFINE Right(n) == /\ loop[n].prio \in Prios
                       /\ RightBut(finalized, loop[n].prio, m_base_priority, loop[n].owner)
<1>5. Right(0)
  <2>1. loop[0].prio = m_priority /\ loop[0].owner = lock_owner
    BY <1>4
  <2> QED
    BY <2>1 DEF InheritInv
<1>6. ASSUME NEW n \in Nat, n + 1 \in 1..L, Right(n) PROVE Right(n + 1)
  <2> DEFINE u == targets[n + 1]
             s == loop[n]
  <2>0. n \in 0..L /\ n + 1 \in 0..L /\ (n + 1) - 1 = n /\ 1..n \subseteq 1..L
        /\ 1..(n + 1) \subseteq 1..L /\ n + 1 \notin 1..n
    BY <1>6
  <2>1. loop[n + 1] = SignalImpl(s, u) /\ u \in Threads /\ lock_owner[u] = NoThread
    BY <1>2, <1>4, <1>6, <2>0
  <2>2. PICK tg \in Word, ow \in [Threads -> Threads \cup {NoThread}] :
          LoopState(s, tg, ow) /\ Rounds(m, targets, n, tg, ow)
    BY <1>3, <2>0
  <2>3. PICK tg2 \in Word, ow2 \in [Threads -> Threads \cup {NoThread}] :
          LoopState(loop[n + 1], tg2, ow2) /\ Rounds(m, targets, n + 1, tg2, ow2)
    BY <1>3, <2>0
  <2>4. \A i \in 1..(n + 1) : targets[i] \in Waiting(m)
    BY <2>0
  <2>5. ow2 \in Owners /\ n + 1 \in Nat
    BY DEF Owners
  <2>6. Rising(ow2, m_address_key)
    BY <2>3, <2>4, <2>5, RisingRounds
  <2>7. s = [tag |-> tg, owner |-> ow, prio |-> s.prio]
    BY <2>2 DEF LoopState
  <2>8. s.tag = tg /\ s.owner = ow
    BY <2>7
  <2>9. ow[u] = NoThread
    <3>1. \A i \in 1..n : targets[i] # u
      BY <1>6, <2>0
    <3> QED
      BY <2>1, <2>2, <3>1 DEF Rounds
  <2>10. loop[n + 1].owner = ow2
    <3>1. loop[n + 1] = [tag |-> tg2, owner |-> ow2, prio |-> loop[n + 1].prio]
      BY <2>3 DEF LoopState
    <3> QED
      BY <3>1
  <2> DEFINE o == tg.owner
             owner == [ow EXCEPT ![u] = o]
  <2>11. CASE tg # Free /\ o \notin finalized
    <3>1. loop[n + 1] = [tag |-> Tagged(o, TRUE), owner |-> owner, prio |-> AddWaiter(o, u, s.prio, owner)]
      BY <2>1, <2>8, <2>11 DEF SignalImpl
    <3>2. owner = ow2 /\ loop[n + 1].prio = AddWaiter(o, u, s.prio, owner)
      BY <2>10, <3>1
    <3>3. o \in Threads
      <4>1. tg.owner \in Threads \cup {NoThread} /\ tg = Tagged(tg.owner, tg.wait) /\ tg.wait \in BOOLEAN
        BY DEF Word, Tagged
      <4>2. tg.owner = NoThread => ~tg.wait
        BY <2>2 DEF Rounds
      <4> QED
        BY <2>11, <4>1, <4>2 DEF Free
    <3>4. /\ ow \in Owners /\ owner[u] = o
          /\ \A v \in Threads \ {u} : owner[v] = ow[v]
      BY <2>1 DEF Owners
    <3>5. s.prio \in Prios /\ RightBut(finalized, s.prio, m_base_priority, ow)
      BY <1>6, <2>8
    <3>6. m_address_key \in [Threads -> Nat] /\ m_base_priority \in Prios
      BY KeysAreNumbers DEF InheritInv
    <3> HIDE DEF owner, o, s, u
    <3>7. /\ AddWaiter(o, u, s.prio, owner) \in Prios
          /\ RightBut(finalized, AddWaiter(o, u, s.prio, owner), m_base_priority, owner)
      BY <2>1, <2>5, <2>6, <2>9, <3>2, <3>3, <3>4, <3>5, <3>6, AddRight
    <3> QED
      BY <2>10, <3>2, <3>7
  <2>12. CASE ~(tg # Free /\ o \notin finalized)
    <3>1. \E w : loop[n + 1] = [s EXCEPT !.tag = w]
      BY <2>1, <2>8, <2>12 DEF SignalImpl
    <3>2. loop[n + 1].prio = s.prio /\ loop[n + 1].owner = s.owner
      BY <2>7, <3>1
    <3> QED
      BY <1>6, <3>2
  <2> QED
    BY <2>11, <2>12
<1> HIDE DEF Right
<1> DEFINE S == {n \in 0..L : ~Right(n)}
<1>7. S = {}
  <2> SUFFICES ASSUME S # {} PROVE FALSE
    OBVIOUS
  <2> DEFINE k == Min(S)
  <2>1. S \in SUBSET Nat
    OBVIOUS
  <2>2. k \in S /\ \A x \in S : k <= x
    BY <2>1, MinIsLeast
  <2> HIDE DEF k
  <2>3. k \in 0..L /\ ~Right(k) /\ k # 0
    BY <1>5, <2>2
  <2>4. k - 1 \in 0..L /\ k - 1 \in Nat /\ ~(k <= k - 1) /\ (k - 1) + 1 = k /\ k \in 1..L
    BY <2>3
  <2>5. Right(k - 1)
    BY <2>2, <2>4
  <2> QED
    BY <1>6, <2>3, <2>4, <2>5
<1>8. Right(L)
  BY <1>7
<1> QED
  BY <1>4, <1>8 DEF Right

LEMMA SignalInherits ==
    ASSUME Inv, RankInv, InheritInv, NEW t \in Threads, NEW m \in Mutexes, NEW count \in 0..1,
           Signal(t, m, count)
    PROVE  InheritInv'
<1> DEFINE n(order) == IF count <= 0 \/ count > Len(order) THEN Len(order) ELSE count
<1> DEFINE targets(order) == SubSeq(order, 1, n(order))
<1>1. PICK order \in TreeOrders(m) :
        /\ lock_owner' = SignalLoop(m, targets(order)).owner
        /\ m_priority' = SignalLoop(m, targets(order)).prio
  BY DEF Signal
<1> DEFINE L == n(order)
           ts == targets(order)
<1>2. /\ order \in Seq(Waiting(m)) /\ Len(order) \in Nat
      /\ \A i \in 1..Len(order) : order[i] \in Waiting(m)
      /\ \A i, j \in 1..Len(order) : i # j => order[i] # order[j]
  BY OrderOfTree
<1>3. L \in Nat /\ L <= Len(order)
  BY <1>2
<1> HIDE DEF n
<1>4. Len(ts) = L /\ \A i \in 1..L : ts[i] = order[i] /\ i \in 1..Len(order)
  BY <1>2, <1>3
<1> HIDE DEF targets
<1>5. /\ \A i \in 1..L : ts[i] \in Waiting(m)
      /\ \A i, j \in 1..L : i # j => ts[i] # ts[j]
  BY <1>2, <1>4
<1>6. /\ lock_owner' = SignalLoop(m, ts).owner
      /\ m_priority' = SignalLoop(m, ts).prio
  BY <1>1
<1> HIDE DEF L, ts
<1>7. /\ SignalLoop(m, ts).prio \in Prios
      /\ RightBut(finalized, SignalLoop(m, ts).prio, m_base_priority, SignalLoop(m, ts).owner)
  BY <1>3, <1>4, <1>5, LoopPriorities
<1>8. UNCHANGED <<m_base_priority, finalized>>
  BY DEF Signal, lifeVars
<1>9. /\ m_priority' \in Prios /\ m_base_priority' \in Prios
      /\ RightBut(finalized', m_priority', m_base_priority', lock_owner')
  BY <1>6, <1>7, <1>8 DEF InheritInv
<1> QED
  BY <1>9 DEF InheritInv, RightBut, Inherited, Prios

\* What has been shown of the next values is what the invariant says of them.
LEMMA StaysRight ==
    ASSUME m_priority' \in Prios, m_base_priority' \in Prios,
           RightBut(finalized', m_priority', m_base_priority', lock_owner')
    PROVE  InheritInv'
BY DEF InheritInv, RightBut, Inherited, Prios

\* A step that moves no thread and no priority
LEMMA QuietInherits ==
    ASSUME InheritInv, UNCHANGED <<m_priority, m_base_priority, lock_owner, finalized>>
    PROVE  InheritInv'
BY StaysRight DEF InheritInv

LEMMA NextKeys ==
    ASSUME Inv', RankInv'
    PROVE  /\ m_address_key' \in [Threads -> Nat] /\ lock_owner' \in Owners
           /\ Rising(lock_owner', m_address_key')
<1>1. m_address_key' \in [Threads -> Nat] /\ lock_owner' \in Owners
  BY ConstantsAssumption DEF Inv, TypeInv, Owners
<1>2. Rising(lock_owner, m_address_key)'
  BY KeysRiseNext
<1> QED
  BY <1>1, <1>2 DEF Rising

LEMMA WaitForAddressInherits ==
    ASSUME Inv, InheritInv, Inv', RankInv', NEW t \in Threads, WaitForAddress(t)
    PROVE  InheritInv'
<1>1. CASE ArbitrateLockReturns(t)
  BY <1>1, QuietInherits DEF WaitForAddress, ArbitrateLockReturns, priorityVars, waitVars, lifeVars
<1>2. CASE ArbitrateLockWaits(t)
  <2> DEFINE o == owner_thread[t]
  <2>1. /\ state[t] = "Runnable" /\ tag[m_address_key[t]] = Tagged(o, TRUE)
        /\ lock_owner' = [lock_owner EXCEPT ![t] = o]
        /\ m_priority' = AddWaiter(o, t, m_priority, lock_owner')
        /\ UNCHANGED <<m_base_priority, finalized>>
    BY <1>2 DEF WaitForAddress, ArbitrateLockWaits, lifeVars
  <2>2. lock_owner[t] = NoThread /\ lock_owner \in Owners
    BY <2>1, Running, KeysAreNumbers
  <2>3. o \in Threads
    <3>1. m_address_key[t] \in Mutexes /\ o \in Threads \cup {NoThread}
      BY Types DEF Inv
    <3>2. tag[m_address_key[t]].owner = o /\ tag[m_address_key[t]].wait
      BY <2>1 DEF Tagged
    <3> QED
      BY <3>1, <3>2 DEF Inv, TagInv
  <2> HIDE DEF o
  <2>4. lock_owner'[t] = o /\ \A u \in Threads \ {t} : lock_owner'[u] = lock_owner[u]
    BY <2>1, <2>2 DEF Owners
  <2>5. m_priority \in Prios /\ m_base_priority \in Prios
        /\ RightBut(finalized, m_priority, m_base_priority, lock_owner)
    BY DEF InheritInv
  <2>6. /\ m_address_key' \in [Threads -> Nat] /\ lock_owner' \in Owners
        /\ Rising(lock_owner', m_address_key')
    BY NextKeys
  <2>7. /\ AddWaiter(o, t, m_priority, lock_owner') \in Prios
        /\ RightBut(finalized, AddWaiter(o, t, m_priority, lock_owner'), m_base_priority, lock_owner')
    BY <2>2, <2>3, <2>4, <2>5, <2>6, AddRight
  <2>8. RightBut(finalized', m_priority', m_base_priority', lock_owner')
    BY <2>1, <2>7
  <2> QED
    BY <2>1, <2>5, <2>7, <2>8, StaysRight
<1> QED
  BY <1>1, <1>2 DEF WaitForAddress

\* A hand-over: what t loses, the next owner gains.
LEMMA HandOverInherits ==
    ASSUME InheritInv, NEW t \in Threads, NEW m, NEW next \in NextOwners(t, m),
           lock_owner \in Owners, lock_owner[t] = NoThread, OwnersAfter(t, m, next) \in Owners,
           NEW key \in [Threads -> Nat], Rising(OwnersAfter(t, m, next), key)
    PROVE  /\ PrioritiesAfter(t, m, next) \in Prios
           /\ RightBut(finalized, PrioritiesAfter(t, m, next), m_base_priority,
                       OwnersAfter(t, m, next))
<1> DEFINE W == Waiters(t, m)
           owner == OwnersAfter(t, m, next)
<1>1. /\ m_priority \in Prios /\ m_base_priority \in Prios
      /\ RightBut(finalized, m_priority, m_base_priority, lock_owner)
  BY DEF InheritInv
<1>2. t # NoThread /\ W \in SUBSET Threads /\ \A u \in W : lock_owner[u] = t
  BY ConstantsAssumption DEF Waiters
<1>3. \A u \in Threads : owner[u] = IF u \notin W THEN lock_owner[u]
                                    ELSE IF u = next THEN NoThread ELSE next
  BY DEF OwnersAfter
<1>4. CASE next = NoThread
  <2>1. W = {}
    BY <1>2, <1>4, ConstantsAssumption DEF NextOwners
  <2>2. \A u \in Threads : owner[u] = lock_owner[u]
    BY <1>3, <2>1
  <2>3. owner = lock_owner
    BY <2>2 DEF Owners
  <2> QED
    BY <1>1, <1>4, <2>3 DEF PrioritiesAfter
<1>5. CASE next # NoThread
  <2>1. next \in W /\ \A u \in W : m_priority[next] <= m_priority[u]
    BY <1>5 DEF NextOwners
  <2>2. next \in Threads /\ next # t
    BY <1>2, <2>1
  <2> HIDE DEF W, owner
  <2>3. \A u \in Threads : owner[u] = t <=> lock_owner[u] = t /\ u \notin W
    BY <1>2, <1>3, <2>2
  <2>4. ASSUME NEW u \in Threads \ finalized, u # t
        PROVE  m_priority[u] = Inherited(u, m_priority, m_base_priority, owner)
    <3>1. m_priority[u] = Inherited(u, m_priority, m_base_priority, lock_owner)
      BY <1>1, <2>4 DEF RightBut
    <3>2. CASE u # next
      <4>1. \A v \in Threads : owner[v] = u <=> lock_owner[v] = u
        BY <1>2, <1>3, <2>4, <3>2, ConstantsAssumption
      <4> QED
        BY <3>1, <4>1, SameInherited
    <3>3. CASE u = next
      <4>1. /\ m_priority[u] <= m_base_priority[u]
            /\ \A v \in Threads : lock_owner[v] = u => m_priority[u] <= m_priority[v]
            /\ \/ m_priority[u] = m_base_priority[u]
               \/ \E v \in Threads : lock_owner[v] = u /\ m_priority[u] = m_priority[v]
        BY <1>1, <3>1, InheritedFacts
      <4>2. \A v \in Threads : owner[v] = u => m_priority[u] <= m_priority[v]
        BY <1>3, <2>1, <3>3, <4>1
      <4>3. \A v \in Threads : lock_owner[v] = u => owner[v] = u
        BY <1>2, <1>3, <2>4
      <4>4. m_priority[u] \in Levels
        BY <1>1 DEF Prios
      <4> QED
        BY <1>1, <4>1, <4>2, <4>3, <4>4, InheritedIs
    <3> QED
      BY <3>2, <3>3
  <2>5. RightBut(finalized \cup {t}, m_priority, m_base_priority, owner)
    BY <2>4 DEF RightBut
  <2>6. owner \in Owners /\ Rising(owner, key)
    BY DEF owner
  <2>7. /\ RemoveWaiter(t, next, m_priority, m_base_priority, owner) \in Prios
        /\ RightBut(finalized, RemoveWaiter(t, next, m_priority, m_base_priority, owner),
                    m_base_priority, owner)
    BY <1>1, <1>2, <2>1, <2>3, <2>5, <2>6, RemoveRight
  <2>8. PrioritiesAfter(t, m, next) = RemoveWaiter(t, next, m_priority, m_base_priority, owner)
    BY <1>5 DEF PrioritiesAfter, owner
  <2> QED
    BY <2>7, <2>8 DEF owner
<1> QED
  BY <1>4, <1>5

LEMMA UnlockInherits ==
    ASSUME Inv, InheritInv, Inv', RankInv', NEW t \in Threads,
           SignalToAddress(t) \/ \E m \in Mutexes, timeout \in Timeouts : Wait(t, m, timeout)
    PROVE  InheritInv'
<1>1. PICK m, next :
        /\ next \in NextOwners(t, m) /\ lock_owner' = OwnersAfter(t, m, next)
        /\ m_priority' = PrioritiesAfter(t, m, next)
        /\ state[t] = "Runnable" /\ UNCHANGED <<m_base_priority, finalized>>
  <2>1. CASE SignalToAddress(t)
    BY <2>1 DEF SignalToAddress, lifeVars
  <2>2. CASE \E m \in Mutexes, timeout \in Timeouts : Wait(t, m, timeout)
    BY <2>2 DEF Wait, lifeVars
  <2> QED
    BY <2>1, <2>2
<1>2. lock_owner[t] = NoThread /\ lock_owner \in Owners
  BY <1>1, Running, KeysAreNumbers
<1>3. /\ m_address_key' \in [Threads -> Nat] /\ lock_owner' \in Owners
      /\ Rising(lock_owner', m_address_key')
  BY NextKeys
<1>4. /\ PrioritiesAfter(t, m, next) \in Prios
      /\ RightBut(finalized, PrioritiesAfter(t, m, next), m_base_priority, OwnersAfter(t, m, next))
  BY <1>1, <1>2, <1>3, HandOverInherits
<1>5. m_priority' \in Prios /\ RightBut(finalized', m_priority', m_base_priority', lock_owner')
  BY <1>1, <1>4
<1> QED
  BY <1>1, <1>5, StaysRight DEF InheritInv

\* CancelWait of the address wait queue, from priorities that are right
LEMMA CancelInherits ==
    ASSUME Inv, NEW t \in Threads, NEW prio \in Prios, NEW base \in Prios, NEW result,
           RightBut(finalized, prio, base, lock_owner), CancelWait(t, result, prio, base),
           UNCHANGED <<m_address_key, finalized>>, m_base_priority' = base, Inv', RankInv'
    PROVE  InheritInv'
<1> DEFINE o == lock_owner[t]
<1>1. lock_owner \in Owners
  BY KeysAreNumbers
<1>2. /\ lock_owner' = [lock_owner EXCEPT ![t] = NoThread]
      /\ m_priority' = IF o = NoThread THEN prio ELSE RemoveWaiter(o, t, prio, base, lock_owner')
  BY DEF CancelWait
<1>3. lock_owner'[t] = NoThread /\ \A u \in Threads \ {t} : lock_owner'[u] = lock_owner[u]
  BY <1>1, <1>2 DEF Owners
<1>4. /\ m_address_key' \in [Threads -> Nat] /\ lock_owner' \in Owners
      /\ Rising(lock_owner', m_address_key')
  BY NextKeys
<1>5. CASE o = NoThread
  <2>1. lock_owner' = lock_owner
    BY <1>1, <1>2, <1>5 DEF Owners
  <2> QED
    BY <1>2, <1>5, <2>1, StaysRight
<1>6. CASE o # NoThread
  <2>1. o \in Threads
    BY <1>1, <1>6 DEF Owners
  <2> DEFINE W == {t}
  <2>2. /\ W \in SUBSET Threads /\ t \in W
        /\ \A u \in W : lock_owner[u] = o /\ prio[t] <= prio[u]
    <3>1. prio[t] \in Nat
      BY LevelsAreNumbers DEF Prios
    <3> QED
      BY <3>1
  <2>3. \A u \in Threads : lock_owner'[u] = o <=> lock_owner[u] = o /\ u \notin W
    BY <1>3, <1>6
  <2>4. RightBut(finalized \cup {o}, prio, base, lock_owner')
    <3> SUFFICES ASSUME NEW u \in Threads, u \notin finalized, u # o
                 PROVE  prio[u] = Inherited(u, prio, base, lock_owner')
      BY DEF RightBut
    <3>1. \A v \in Threads : lock_owner'[v] = u <=> lock_owner[v] = u
      BY <1>3, ConstantsAssumption
    <3>2. Inherited(u, prio, base, lock_owner') = Inherited(u, prio, base, lock_owner)
      BY <3>1, SameInherited
    <3> QED
      BY <3>2 DEF RightBut
  <2> HIDE DEF o, W
  <2>5. /\ RemoveWaiter(o, t, prio, base, lock_owner') \in Prios
        /\ RightBut(finalized, RemoveWaiter(o, t, prio, base, lock_owner'), base, lock_owner')
    BY <1>1, <1>4, <2>1, <2>2, <2>3, <2>4, RemoveRight
  <2>6. m_priority' \in Prios /\ RightBut(finalized', m_priority', m_base_priority', lock_owner')
    BY <1>2, <1>6, <2>5
  <2> QED
    BY <2>6, StaysRight
<1> QED
  BY <1>5, <1>6

LEMMA OnTimerInherits ==
    ASSUME Inv, InheritInv, Inv', RankInv', NEW t \in Threads, OnTimer(t)
    PROVE  InheritInv'
BY CancelInherits DEF OnTimer, InheritInv, lifeVars

\* A new base priority
LEMMA NewBase ==
    ASSUME Inv, RankInv, InheritInv, NEW t \in Threads, NEW value \in Levels,
           NEW base, base = [m_base_priority EXCEPT ![t] = value]
    PROVE  /\ base \in Prios
           /\ RestorePriority(t, m_priority, base, lock_owner) \in Prios
           /\ RightBut(finalized, RestorePriority(t, m_priority, base, lock_owner), base, lock_owner)
<1>1. m_priority \in Prios /\ m_base_priority \in Prios
  BY DEF InheritInv
<1>2. base \in Prios /\ \A u \in Threads \ {t} : base[u] = m_base_priority[u]
  BY <1>1 DEF Prios
<1>3. RightBut(finalized \cup {t}, m_priority, base, lock_owner)
  <2> SUFFICES ASSUME NEW u \in Threads, u \notin finalized, u # t
               PROVE  m_priority[u] = Inherited(u, m_priority, base, lock_owner)
    BY DEF RightBut
  <2>1. base[u] = m_base_priority[u]
    BY <1>2
  <2>2. Inherited(u, m_priority, base, lock_owner)
          = Inherited(u, m_priority, m_base_priority, lock_owner)
    BY <2>1 DEF Inherited
  <2> QED
    BY <2>2 DEF InheritInv, RightBut
<1>4. /\ m_address_key \in [Threads -> Nat] /\ lock_owner \in Owners
      /\ Rising(lock_owner, m_address_key)
  BY KeysAreNumbers, KeysRise
<1> QED
  BY <1>1, <1>2, <1>3, <1>4, RestoreRight

LEMMA SetBasePriorityInherits ==
    ASSUME Inv, RankInv, InheritInv, NEW t \in Threads, NEW value \in Priorities,
           SetBasePriority(t, value)
    PROVE  InheritInv'
<1> DEFINE base == [m_base_priority EXCEPT ![t] = value]
<1>1. /\ m_base_priority' = base /\ m_priority' = RestorePriority(t, m_priority, base, lock_owner)
      /\ UNCHANGED <<lock_owner, finalized>>
  BY DEF SetBasePriority, waitVars, lifeVars
<1>2. value \in Levels
  BY DEF Levels
<1> HIDE DEF base
<1>3. /\ base \in Prios
      /\ RestorePriority(t, m_priority, base, lock_owner) \in Prios
      /\ RightBut(finalized, RestorePriority(t, m_priority, base, lock_owner), base, lock_owner)
  BY <1>2, NewBase DEF base
<1>4. RightBut(finalized', m_priority', m_base_priority', lock_owner')
  BY <1>1, <1>3
<1> QED
  BY <1>1, <1>3, <1>4, StaysRight

LEMMA RequestTerminateInherits ==
    ASSUME Inv, RankInv, InheritInv, Inv', RankInv', NEW t \in Threads, RequestTerminate(t)
    PROVE  InheritInv'
<1> DEFINE raises == m_base_priority[t] > TerminatingThreadPriority
           base == IF raises THEN [m_base_priority EXCEPT ![t] = TerminatingThreadPriority]
                   ELSE m_base_priority
           prio == IF raises THEN RestorePriority(t, m_priority, base, lock_owner) ELSE m_priority
<1>1. /\ m_base_priority' = base /\ UNCHANGED <<m_address_key, finalized>>
      /\ \/ CancelWait(t, "TerminationRequested", prio, base)
         \/ m_priority' = prio /\ UNCHANGED lock_owner
  BY DEF RequestTerminate, waitVars
<1>2. TerminatingThreadPriority \in Levels
  BY DEF Levels
<1>3. base \in Prios /\ prio \in Prios /\ RightBut(finalized, prio, base, lock_owner)
  <2>1. CASE raises
    <3> DEFINE new == [m_base_priority EXCEPT ![t] = TerminatingThreadPriority]
    <3>1. base = new /\ prio = RestorePriority(t, m_priority, new, lock_owner)
      BY <2>1
    <3> HIDE DEF base, prio
    <3> QED
      BY <1>2, <3>1, NewBase DEF new
  <2>2. CASE ~raises
    BY <2>2 DEF InheritInv
  <2> QED
    BY <2>1, <2>2
<1> HIDE DEF base
<1> HIDE DEF prio
<1>4. CASE CancelWait(t, "TerminationRequested", prio, base)
  BY <1>1, <1>3, <1>4, CancelInherits
<1>5. CASE m_priority' = prio /\ UNCHANGED lock_owner
  <2>1. RightBut(finalized', m_priority', m_base_priority', lock_owner')
    BY <1>1, <1>3, <1>5
  <2> QED
    BY <1>1, <1>3, <1>5, <2>1, StaysRight
<1> QED
  BY <1>1, <1>4, <1>5

\* The waiters of a thread that is gone give nothing to anybody else.
LEMMA FinalizeInherits ==
    ASSUME Inv, InheritInv, NEW t \in Threads, Finalize(t)
    PROVE  InheritInv'
<1>1. /\ finalized' = finalized \cup {t} /\ UNCHANGED <<m_priority, m_base_priority>>
      /\ \A u \in Threads : lock_owner'[u] = IF lock_owner[u] = t THEN NoThread ELSE lock_owner[u]
  BY DEF Finalize, priorityVars
<1>2. ASSUME NEW u \in Threads \ finalized'
      PROVE  m_priority'[u] = Inherited(u, m_priority', m_base_priority', lock_owner')
  <2>1. \A v \in Threads : lock_owner'[v] = u <=> lock_owner[v] = u
    BY <1>1, <1>2, ConstantsAssumption
  <2>2. Inherited(u, m_priority', m_base_priority', lock_owner')
          = Inherited(u, m_priority, m_base_priority, lock_owner)
    BY <1>1, <2>1, SameInherited
  <2> QED
    BY <1>1, <2>2 DEF InheritInv, RightBut
<1>3. RightBut(finalized', m_priority', m_base_priority', lock_owner')
  BY <1>2 DEF RightBut
<1> QED
  BY <1>1, <1>3, StaysRight DEF InheritInv

LEMMA InheritStep ==
    ASSUME Inv, RankInv, InheritInv, Inv', RankInv', [Next]_vars
    PROVE  InheritInv'
<1>1. ASSUME NEW t \in Threads, NEW m \in Mutexes, GuestLock(t, m) \/ GuestUnlock(t, m)
      PROVE  InheritInv'
  BY <1>1, QuietInherits DEF GuestLock, GuestUnlock, priorityVars, waitVars, lifeVars
<1>2. ASSUME NEW t \in Threads,
             GuestTryLock(t) \/ WaitForAddressReturns(t) \/ WaitReturns(t) \/ Exit(t)
      PROVE  InheritInv'
  BY <1>2, QuietInherits
     DEF GuestTryLock, WaitForAddressReturns, WaitReturns, Exit, priorityVars, waitVars, lifeVars
<1>3. CASE UNCHANGED vars
  BY <1>3, QuietInherits DEF vars, priorityVars, waitVars, lifeVars
<1> QED
  BY <1>1, <1>2, <1>3, SignalInherits, WaitForAddressInherits, UnlockInherits, OnTimerInherits,
     SetBasePriorityInherits, RequestTerminateInherits, FinalizeInherits DEF Next

LEMMA InheritInit == Init => RankInv /\ InheritInv
<1> SUFFICES ASSUME Init PROVE RankInv /\ InheritInv
  OBVIOUS
<1>1. RankInv
  BY DEF Init, RankInv
<1>2. m_base_priority \in Prios /\ m_priority = m_base_priority
  BY ConstantsAssumption DEF Init, Prios, Levels
<1>3. \A u \in Threads : lock_owner[u] = NoThread
  BY DEF Init
<1>4. ASSUME NEW t \in Threads
      PROVE  m_priority[t] = Inherited(t, m_priority, m_base_priority, lock_owner)
  <2>1. m_priority[t] \in Levels /\ m_priority[t] \in Nat /\ m_priority[t] = m_base_priority[t]
    BY <1>2, LevelsAreNumbers DEF Prios
  <2>2. \A u \in Threads : lock_owner[u] # t /\ m_priority[t] <= m_base_priority[t]
    BY <1>3, <2>1, ConstantsAssumption
  <2> QED
    BY <1>2, <2>1, <2>2, InheritedIs
<1> QED
  BY <1>1, <1>2, <1>4 DEF InheritInv, RightBut

\* PriorityIsInherited: every thread that is not gone has the highest priority
\* among its own and those of its waiters, although RestorePriority is called
\* only where AddWaiter, RemoveWaiter and RemoveWaiterByKey find it necessary
\* and stops at the first owner whose priority stays as it is.
THEOREM PrioritiesAreInherited == Spec => []PriorityIsInherited
<1>1. Init => Inv /\ RankInv /\ InheritInv
  BY InitInv, InheritInit
<1>2. (Inv /\ RankInv /\ InheritInv) /\ [Next]_vars => (Inv /\ RankInv /\ InheritInv)'
  BY NextInv, RankStep, InheritStep
<1>3. InheritInv => PriorityIsInherited
  BY DEF InheritInv, RightBut, PriorityIsInherited
<1> QED
  BY <1>1, <1>2, <1>3, PTL DEF Spec
=============================================================================
