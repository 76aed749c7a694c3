---------------------------- MODULE TimingProofs ----------------------------
(***************************************************************************)
(* The kernel's timer (KHardwareTimer) and the event queue below it        *)
(* (CoreTiming), for any tasks, event types and clock.                     *)
(*                                                                         *)
(* The timer's interrupt covers its earliest task, and the timer does what *)
(* TimerTasks allows and nothing else.  InterruptCoversNextTask is not     *)
(* inductive: cancelling the last task leaves the interrupt on, and a task *)
(* registered then may rely on it.  So ArmedInv speaks of the interrupt    *)
(* whether or not there is a task.                                         *)
(*                                                                         *)
(* An event of CoreTiming that was unscheduled with Wait stays quiet, and  *)
(* so does everything while CoreTiming is paused.  The first needs that an *)
(* event stays out of the queue from the moment it is erased, while its    *)
(* callback may still run (QuietInv).  The second rests on a handshake:    *)
(* outside SyncPause paused_set agrees with paused, and the timer thread   *)
(* is never between reading paused and answering with an answer that is    *)
(* out of date (PauseInv).                                                 *)
(***************************************************************************)
EXTENDS KHardwareTimer, CoreTiming, WellFoundedInduction, TLAPS

-----------------------------------------------------------------------------
(* The timer                                                               *)

\* The interrupt that is on has its event in CoreTiming, or the event is popped.
ArmedInv == m_wakeup_time # Never => popped \/ m_wakeup_time \in timer_events

CoverInv == m_next_task # NoTask => m_wakeup_time <= m_time[m_next_task]

\* NextIsEarliest by positions
TreeInv ==
    /\ \A i \in DOMAIN m_task_tree : m_time[m_task_tree[i]] > 0
    /\ \A t \in Tasks : m_time[t] > 0 => \E i \in DOMAIN m_task_tree : m_task_tree[i] = t
    /\ \A i, j \in DOMAIN m_task_tree : i < j => m_time[m_task_tree[i]] <= m_time[m_task_tree[j]]
    /\ m_next_task = IF Len(m_task_tree) = 0 THEN NoTask ELSE m_task_tree[1]

Inv == TypeOK /\ TreeInv /\ CoverInv /\ ArmedInv

-----------------------------------------------------------------------------
(* Minima and sequences                                                    *)

LEMMA MinIsLeast ==
    ASSUME NEW S \in SUBSET Nat, S # {}
    PROVE  Min(S) \in S /\ \A x \in S : Min(S) <= x
<1>1. PICK x \in S : \A y \in S : ~(<<y, x>> \in OpToRel(<, Nat))
  BY NatLessThanWellFounded, WFMin
<1>2. ASSUME NEW y \in S PROVE x <= y
  <2>1. x \in Nat /\ y \in Nat /\ ~(<<y, x>> \in OpToRel(<, Nat))
    BY <1>1
  <2>2. ~(y < x)
    BY <2>1 DEF OpToRel
  <2>3. x \in Nat /\ y \in Nat
    BY <2>1
  <2> QED
    BY <2>2, <2>3
<1> QED
  BY <1>2 DEF Min

\* s without the entries from a to b - 1
LEMMA CutEntries ==
    ASSUME NEW T, NEW s \in Seq(T), NEW a \in 1..Len(s) + 1, NEW b \in a..Len(s) + 1
    PROVE  LET r == SubSeq(s, 1, a - 1) \o SubSeq(s, b, Len(s)) IN
           /\ r \in Seq(T) /\ Len(r) = Len(s) - (b - a)
           /\ \A i \in 1..Len(r) : r[i] = IF i < a THEN s[i] ELSE s[i + (b - a)]
<1> DEFINE p == SubSeq(s, 1, a - 1)
           q == SubSeq(s, b, Len(s))
<1>1. p \in Seq(T) /\ Len(p) = a - 1 /\ \A i \in 1..a - 1 : p[i] = s[i]
  OBVIOUS
<1>2. q \in Seq(T) /\ Len(q) = Len(s) + 1 - b /\ \A i \in 1..Len(s) + 1 - b : q[i] = s[i + b - 1]
  OBVIOUS
<1>0. Len(s) \in Nat /\ a \in Nat /\ b \in Nat /\ 1 <= a /\ a <= b /\ b <= Len(s) + 1
  OBVIOUS
<1> HIDE DEF p, q
<1>3. p \o q \in Seq(T) /\ Len(p \o q) = Len(s) - (b - a)
  <2>0. p \in Seq(T) /\ q \in Seq(T)
    BY <1>1, <1>2
  <2>1. p \o q \in Seq(T) /\ Len(p \o q) = Len(p) + Len(q)
    BY <2>0
  <2> QED
    BY <1>0, <1>1, <1>2, <2>1
<1>4. ASSUME NEW i \in 1..Len(p \o q)
      PROVE  (p \o q)[i] = IF i < a THEN s[i] ELSE s[i + (b - a)]
  <2>1. CASE i < a
    BY <1>1, <1>2, <2>1
  <2>2. CASE ~(i < a)
    <3>1. (p \o q)[i] = q[i - Len(p)]
      BY <1>1, <1>2, <1>3, <2>2
    <3> QED
      BY <1>1, <1>2, <1>3, <2>2, <3>1
  <2> QED
    BY <2>1, <2>2
<1> QED
  BY <1>3, <1>4 DEF p, q

LEMMA InsertEntry ==
    ASSUME NEW T, NEW s \in Seq(T), NEW a \in 1..Len(s) + 1, NEW e \in T
    PROVE  /\ InsertAt(s, a, e) \in Seq(T) /\ Len(InsertAt(s, a, e)) = Len(s) + 1
           /\ \A i \in 1..Len(s) + 1 :
                InsertAt(s, a, e)[i] = IF i < a THEN s[i] ELSE IF i = a THEN e ELSE s[i - 1]
<1> DEFINE p == SubSeq(s, 1, a - 1)
           q == SubSeq(s, a, Len(s))
<1>1. p \in Seq(T) /\ Len(p) = a - 1 /\ \A i \in 1..a - 1 : p[i] = s[i]
  OBVIOUS
<1>2. q \in Seq(T) /\ Len(q) = Len(s) + 1 - a /\ \A i \in 1..Len(s) + 1 - a : q[i] = s[i + a - 1]
  OBVIOUS
<1>0. Len(s) \in Nat /\ a \in Nat /\ 1 <= a /\ a <= Len(s) + 1
  OBVIOUS
<1>3. InsertAt(s, a, e) = p \o <<e>> \o q
  BY DEF InsertAt
<1> HIDE DEF p, q
<1>4. p \o <<e>> \in Seq(T) /\ Len(p \o <<e>>) = a /\ (p \o <<e>>)[a] = e
      /\ \A i \in 1..a - 1 : (p \o <<e>>)[i] = s[i]
  BY <1>1
<1> DEFINE pe == p \o <<e>>
<1> HIDE DEF pe
<1>5. pe \in Seq(T) /\ Len(pe) = a /\ pe[a] = e /\ \A i \in 1..a - 1 : pe[i] = s[i]
  BY <1>4 DEF pe
<1>6. pe \o q \in Seq(T) /\ Len(pe \o q) = Len(s) + 1
  BY <1>0, <1>2, <1>5
<1>7. ASSUME NEW i \in 1..Len(s) + 1
      PROVE  (pe \o q)[i] = IF i < a THEN s[i] ELSE IF i = a THEN e ELSE s[i - 1]
  <2>1. CASE i <= a
    BY <1>2, <1>5, <2>1
  <2>2. CASE i > a
    <3>1. (pe \o q)[i] = q[i - Len(pe)]
      BY <1>2, <1>5, <1>6, <2>2
    <3> QED
      BY <1>2, <1>5, <2>2, <3>1
  <2>3. i <= a \/ i > a
    BY <1>0
  <2> QED
    BY <2>1, <2>2, <2>3
<1> QED
  BY <1>3, <1>6, <1>7 DEF pe

-----------------------------------------------------------------------------
(* The tree                                                                *)

\* The first task later than x splits the tree.
Split(x) == Min({i \in DOMAIN m_task_tree : m_time[m_task_tree[i]] > x} \cup {Len(m_task_tree) + 1})

LEMMA TreeTypes ==
    ASSUME TypeOK
    PROVE  /\ Len(m_task_tree) \in Nat /\ DOMAIN m_task_tree = 1..Len(m_task_tree)
           /\ \A i \in 1..Len(m_task_tree) : m_task_tree[i] \in Tasks /\ m_task_tree[i] # NoTask
           /\ \A t \in Tasks : m_time[t] \in Nat /\ m_time[t] <= MaxTime
           /\ \A i, j \in 1..Len(m_task_tree) : m_task_tree[i] = m_task_tree[j] => i = j
BY ConstantsAssumption DEF TypeOK, IsInjective

LEMMA SplitTree ==
    ASSUME TypeOK, TreeInv, NEW x \in Nat
    PROVE  /\ Split(x) \in 1..Len(m_task_tree) + 1
           /\ \A i \in 1..Len(m_task_tree) : i < Split(x) => m_time[m_task_tree[i]] <= x
           /\ \A i \in 1..Len(m_task_tree) : i >= Split(x) => m_time[m_task_tree[i]] > x
<1> DEFINE S == {i \in DOMAIN m_task_tree : m_time[m_task_tree[i]] > x}
           n == Len(m_task_tree)
           a == Split(x)
<1>1. /\ n \in Nat /\ DOMAIN m_task_tree = 1..n
      /\ \A i \in 1..n : m_time[m_task_tree[i]] \in Nat
  BY TreeTypes
<1>2. S \cup {n + 1} \in SUBSET Nat /\ S \cup {n + 1} # {}
  BY <1>1
<1>3. a \in S \cup {n + 1} /\ \A i \in S \cup {n + 1} : a <= i
  BY <1>2, MinIsLeast DEF Split
<1> HIDE DEF a
<1>4. a \in 1..n + 1
  BY <1>1, <1>3
<1>5. ASSUME NEW i \in 1..n, i < a PROVE m_time[m_task_tree[i]] <= x
  <2>1. i \notin S
    BY <1>1, <1>3, <1>4, <1>5
  <2> QED
    BY <1>1, <2>1
<1>6. ASSUME NEW i \in 1..n, i >= a PROVE m_time[m_task_tree[i]] > x
  <2>1. a \in S
    BY <1>1, <1>3, <1>4, <1>6
  <2>2. m_time[m_task_tree[a]] > x /\ a \in 1..n
    BY <1>1, <2>1
  <2>3. m_time[m_task_tree[a]] <= m_time[m_task_tree[i]]
    BY <1>1, <1>6, <2>2 DEF TreeInv
  <2> QED
    BY <1>1, <2>2, <2>3
<1> QED
  BY <1>4, <1>5, <1>6 DEF a

LEMMA PositionOf ==
    ASSUME TypeOK, NEW i \in 1..Len(m_task_tree)
    PROVE  Position(m_task_tree[i]) = i
BY TreeTypes DEF Position

LEMMA RegisterTree ==
    ASSUME Inv, NEW t \in Tasks, NEW time \in 1..MaxTime, RegisterAbsoluteTask(t, time)
    PROVE  TypeOK' /\ TreeInv'
<1> DEFINE n == Len(m_task_tree)
           a == Split(time)
           r == m_task_tree'
<1>1. /\ n \in Nat /\ DOMAIN m_task_tree = 1..n
      /\ \A i \in 1..n : m_task_tree[i] \in Tasks /\ m_time[m_task_tree[i]] \in Nat
      /\ \A i, j \in 1..n : m_task_tree[i] = m_task_tree[j] => i = j
  BY TreeTypes DEF Inv
<1>2. /\ a \in 1..n + 1
      /\ \A i \in 1..n : i < a => m_time[m_task_tree[i]] <= time
      /\ \A i \in 1..n : i >= a => m_time[m_task_tree[i]] > time
  <2>1. time \in Nat
    BY ConstantsAssumption
  <2> QED
    BY <2>1, SplitTree DEF Inv
<1>3. \A i \in 1..n : m_task_tree[i] # t
  BY <1>1 DEF Inv, TreeInv, RegisterAbsoluteTask
<1>4. /\ r \in Seq(Tasks) /\ Len(r) = n + 1
      /\ \A i \in 1..n + 1 : r[i] = IF i < a THEN m_task_tree[i]
                                    ELSE IF i = a THEN t ELSE m_task_tree[i - 1]
  <2>1. r = InsertAt(m_task_tree, a, t)
    BY DEF RegisterAbsoluteTask, Insert, Split
  <2>2. m_task_tree \in Seq(Tasks)
    BY DEF Inv, TypeOK
  <2> HIDE DEF a, r
  <2>3. a \in 1..Len(m_task_tree) + 1
    BY <1>2
  <2>4. /\ InsertAt(m_task_tree, a, t) \in Seq(Tasks)
        /\ Len(InsertAt(m_task_tree, a, t)) = Len(m_task_tree) + 1
        /\ \A i \in 1..Len(m_task_tree) + 1 : InsertAt(m_task_tree, a, t)[i]
             = IF i < a THEN m_task_tree[i] ELSE IF i = a THEN t ELSE m_task_tree[i - 1]
    <3>1. PICK s, k : s = m_task_tree /\ k = a
      OBVIOUS
    <3>2. s \in Seq(Tasks) /\ k \in 1..Len(s) + 1
      BY <2>2, <2>3, <3>1
    <3>3. /\ InsertAt(s, k, t) \in Seq(Tasks) /\ Len(InsertAt(s, k, t)) = Len(s) + 1
          /\ \A i \in 1..Len(s) + 1 :
               InsertAt(s, k, t)[i] = IF i < k THEN s[i] ELSE IF i = k THEN t ELSE s[i - 1]
      BY <3>2, InsertEntry
    <3> QED
      BY <3>1, <3>3
  <2> QED
    BY <2>1, <2>4, Zenon
<1>5. m_time' = [m_time EXCEPT ![t] = time] /\ m_time \in [Tasks -> 0..MaxTime] /\ time \in Nat /\ time > 0
  BY ConstantsAssumption DEF RegisterAbsoluteTask, Inv, TypeOK
<1>6. /\ m_time'[t] = time /\ \A u \in Tasks : u # t => m_time'[u] = m_time[u]
      /\ \A i \in 1..n : m_time'[m_task_tree[i]] = m_time[m_task_tree[i]]
  BY <1>1, <1>3, <1>5
<1>7. IsInjective(r) /\ DOMAIN r = 1..n + 1
  <2> HIDE DEF a, r, n
  <2>1. DOMAIN r = 1..n + 1
    BY <1>4
  <2>2. ASSUME NEW i \in 1..n + 1, NEW j \in 1..n + 1, r[i] = r[j] PROVE i = j
    BY <1>1, <1>2, <1>3, <1>4, <2>2
  <2> QED
    BY <2>1, <2>2 DEF IsInjective
<1>8. TypeOK'
  <2>1. /\ now' = now /\ popped' = popped /\ m_next_task' \in Tasks \cup {NoTask}
        /\ m_wakeup_time' \in 1..Never /\ timer_events' \in SUBSET (1..MaxTime)
    <3>1. CASE RegisterAbsoluteTaskImpl(t, time) /\ time <= m_wakeup_time
      BY <3>1, ConstantsAssumption DEF RegisterAbsoluteTask, EnableInterrupt, Inv, TypeOK, Never
    <3>2. CASE RegisterAbsoluteTaskImpl(t, time) /\ ~(time <= m_wakeup_time)
      BY <3>2 DEF RegisterAbsoluteTask, Inv, TypeOK
    <3>3. CASE ~RegisterAbsoluteTaskImpl(t, time)
      BY <3>3 DEF RegisterAbsoluteTask, Inv, TypeOK
    <3> QED
      BY <3>1, <3>2, <3>3
  <2>2. m_time' \in [Tasks -> 0..MaxTime]
    BY <1>5
  <2> QED
    BY <1>4, <1>7, <2>1, <2>2 DEF TypeOK, Inv
<1>9. ASSUME NEW i \in 1..n + 1
      PROVE  m_time'[r[i]] = IF i < a THEN m_time[m_task_tree[i]]
                             ELSE IF i = a THEN time ELSE m_time[m_task_tree[i - 1]]
  <2> HIDE DEF a, r, n
  <2>1. CASE i < a
    BY <1>1, <1>2, <1>4, <1>6, <2>1
  <2>2. CASE i = a
    BY <1>1, <1>2, <1>4, <1>6, <2>2
  <2>3. CASE i > a
    <3>1. i - 1 \in 1..n /\ r[i] = m_task_tree[i - 1]
      BY <1>1, <1>2, <1>4, <2>3
    <3> QED
      BY <1>2, <1>6, <2>3, <3>1
  <2> QED
    BY <1>2, <2>1, <2>2, <2>3
<1>10. \A i \in 1..n + 1 : m_time'[r[i]] > 0
  <2>1. \A i \in 1..n : m_time[m_task_tree[i]] > 0
    BY <1>1 DEF Inv, TreeInv
  <2> HIDE DEF a, r, n
  <2> QED
    BY <1>1, <1>2, <1>5, <1>9, <2>1
<1>11. ASSUME NEW u \in Tasks, m_time'[u] > 0 PROVE \E i \in 1..n + 1 : r[i] = u
  <2>1. CASE u = t
    <3> HIDE DEF a, r, n
    <3>1. a \in 1..n + 1 /\ r[a] = t
      BY <1>1, <1>2, <1>4
    <3> QED
      BY <2>1, <3>1
  <2>2. CASE u # t
    <3>1. PICK i \in 1..n : m_task_tree[i] = u
      BY <1>1, <1>6, <1>11, <2>2 DEF Inv, TreeInv
    <3> HIDE DEF a, r, n
    <3>2. CASE i < a
      BY <1>1, <1>2, <1>4, <3>1, <3>2
    <3>3. CASE i >= a
      <4>1. i + 1 \in 1..n + 1 /\ ~(i + 1 < a) /\ i + 1 # a /\ (i + 1) - 1 = i
        BY <1>1, <1>2, <3>3
      <4>2. r[i + 1] = m_task_tree[i]
        BY <1>4, <4>1
      <4> QED
        BY <3>1, <4>1, <4>2
    <3> QED
      BY <1>2, <3>2, <3>3
  <2> QED
    BY <2>1, <2>2
<1>12. ASSUME NEW i \in 1..n + 1, NEW j \in 1..n + 1, i < j PROVE m_time'[r[i]] <= m_time'[r[j]]
  <2>1. \A k, l \in 1..n : k < l => m_time[m_task_tree[k]] <= m_time[m_task_tree[l]]
    BY <1>1 DEF Inv, TreeInv
  <2> HIDE DEF a, r, n
  <2>2. CASE j < a
    BY <1>1, <1>2, <1>9, <1>12, <2>1, <2>2
  <2>3. CASE j = a
    BY <1>1, <1>2, <1>9, <1>12, <2>3
  <2>4. CASE i < a /\ j > a
    <3>1. i \in 1..n /\ j - 1 \in 1..n /\ j - 1 >= a
      BY <1>1, <1>2, <2>4
    <3>2. m_time'[r[i]] = m_time[m_task_tree[i]] /\ m_time'[r[j]] = m_time[m_task_tree[j - 1]]
      BY <1>2, <1>9, <2>4
    <3> QED
      BY <1>1, <1>2, <1>5, <2>4, <3>1, <3>2
  <2>5. CASE i = a
    <3>1. j - 1 \in 1..n /\ j - 1 >= a
      BY <1>1, <1>2, <1>12, <2>5
    <3>2. m_time'[r[i]] = time /\ m_time'[r[j]] = m_time[m_task_tree[j - 1]]
      BY <1>2, <1>9, <1>12, <2>5
    <3> QED
      BY <1>1, <1>2, <1>5, <3>1, <3>2
  <2>6. CASE i > a
    <3>1. i - 1 \in 1..n /\ j - 1 \in 1..n /\ i - 1 < j - 1
      BY <1>1, <1>2, <1>12, <2>6
    <3>2. m_time'[r[i]] = m_time[m_task_tree[i - 1]] /\ m_time'[r[j]] = m_time[m_task_tree[j - 1]]
      BY <1>2, <1>9, <1>12, <2>6
    <3> QED
      BY <2>1, <3>1, <3>2
  <2> QED
    BY <1>2, <1>12, <2>2, <2>3, <2>4, <2>5, <2>6
<1>13. m_next_task' = r[1]
  <2>1. m_next_task = IF n = 0 THEN NoTask ELSE m_task_tree[1]
    BY DEF Inv, TreeInv
  <2>2. CASE RegisterAbsoluteTaskImpl(t, time)
    <3>1. m_next_task' = t
      BY <2>2 DEF RegisterAbsoluteTask
    <3>2. a = 1
      <4>1. CASE n = 0
        BY <1>2, <4>1
      <4>2. CASE n > 0
        <5>1. 1 \in 1..n /\ time < m_time[m_task_tree[1]]
          BY <1>1, <2>1, <2>2, <4>2, TreeTypes DEF RegisterAbsoluteTaskImpl, Inv
        <5> HIDE DEF a, n
        <5> QED
          BY <1>1, <1>2, <1>5, <5>1
      <4> QED
        BY <1>1, <4>1, <4>2
    <3> QED
      BY <1>1, <1>4, <3>1, <3>2
  <2>3. CASE ~RegisterAbsoluteTaskImpl(t, time)
    <3>1. m_next_task' = m_next_task /\ n > 0 /\ m_time[m_task_tree[1]] <= time
      BY <1>1, <1>5, <2>1, <2>3 DEF RegisterAbsoluteTask, RegisterAbsoluteTaskImpl
    <3> HIDE DEF a, r, n
    <3>2. 1 < a
      BY <1>1, <1>2, <1>5, <3>1
    <3> QED
      BY <1>1, <1>4, <2>1, <3>1, <3>2
  <2> QED
    BY <2>2, <2>3
<1>14. TreeInv'
  <2>1. Len(m_task_tree') = n + 1 /\ n + 1 # 0
    BY <1>1, <1>4
  <2> HIDE DEF n
  <2> QED
    BY <1>7, <1>10, <1>11, <1>12, <1>13, <2>1 DEF TreeInv
<1> QED
  BY <1>8, <1>14

\* Removing the tasks from a to b - 1, where b is the first task left or the
\* end, and clearing their times keeps the rest of the tree in order.
LEMMA CutTree ==
    ASSUME TypeOK, TreeInv, NEW a \in 1..Len(m_task_tree) + 1, NEW b \in a..Len(m_task_tree) + 1,
           m_task_tree' = SubSeq(m_task_tree, 1, a - 1)
                            \o SubSeq(m_task_tree, b, Len(m_task_tree)),
           \A i \in a..b - 1 : m_time'[m_task_tree[i]] = 0,
           \A u \in Tasks : (\A i \in a..b - 1 : m_task_tree[i] # u) => m_time'[u] = m_time[u],
           m_next_task' = IF a > 1 THEN m_next_task
                          ELSE IF b <= Len(m_task_tree) THEN m_task_tree[b] ELSE NoTask
    PROVE  TreeInv' /\ m_task_tree' \in Seq(Tasks) /\ IsInjective(m_task_tree')
<1> DEFINE n == Len(m_task_tree)
           m == n - (b - a)
           r == m_task_tree'
           old(i) == IF i < a THEN i ELSE i + (b - a)
<1>1. /\ n \in Nat /\ DOMAIN m_task_tree = 1..n
      /\ \A i \in 1..n : m_task_tree[i] \in Tasks /\ m_time[m_task_tree[i]] \in Nat
      /\ \A i, j \in 1..n : m_task_tree[i] = m_task_tree[j] => i = j
  BY TreeTypes
<1>2. a \in Nat /\ b \in Nat /\ 1 <= a /\ a <= b /\ b <= n + 1 /\ m \in Nat
  BY <1>1
<1>3. /\ r \in Seq(Tasks) /\ Len(r) = m
      /\ \A i \in 1..m : r[i] = IF i < a THEN m_task_tree[i] ELSE m_task_tree[i + (b - a)]
  <2>1. m_task_tree \in Seq(Tasks)
    BY DEF TypeOK
  <2> DEFINE c == SubSeq(m_task_tree, 1, a - 1) \o SubSeq(m_task_tree, b, Len(m_task_tree))
  <2>2. /\ c \in Seq(Tasks) /\ Len(c) = Len(m_task_tree) - (b - a)
        /\ \A i \in 1..Len(c) : c[i] = IF i < a THEN m_task_tree[i] ELSE m_task_tree[i + (b - a)]
    BY <2>1, CutEntries
  <2>3. r = c
    OBVIOUS
  <2> HIDE DEF c, r
  <2> QED
    BY <2>2, <2>3
<1>4. ASSUME NEW i \in 1..m
      PROVE  /\ old(i) \in 1..n /\ r[i] = m_task_tree[old(i)] /\ (old(i) < a \/ old(i) >= b)
             /\ m_time'[r[i]] = m_time[m_task_tree[old(i)]]
  <2>1. old(i) \in 1..n /\ r[i] = m_task_tree[old(i)] /\ (old(i) < a \/ old(i) >= b)
    <3> HIDE DEF n, r
    <3> QED
      BY <1>1, <1>2, <1>3
  <2> HIDE DEF old, r, m, n
  <2>2. \A j \in a..b - 1 : m_task_tree[j] # m_task_tree[old(i)]
    BY <1>1, <1>2, <2>1
  <2> QED
    BY <1>1, <2>1, <2>2
<1>5. \A i, j \in 1..m : i < j => old(i) < old(j)
  <2> HIDE DEF n
  <2> QED
    BY <1>1, <1>2
<1>6. DOMAIN r = 1..m
  <2> HIDE DEF r, m
  <2> QED
    BY <1>3
<1>7. IsInjective(r)
  <2> HIDE DEF r, m, n, old
  <2>1. ASSUME NEW i \in 1..m, NEW j \in 1..m, r[i] = r[j] PROVE i = j
    <3>1. old(i) = old(j) /\ old(i) \in Nat /\ old(j) \in Nat
      BY <1>1, <1>4, <2>1
    <3>2. ~(i < j) /\ ~(j < i)
      BY <1>5, <3>1
    <3>3. i \in Int /\ j \in Int
      BY <1>2
    <3> QED
      BY <3>2, <3>3
  <2> QED
    BY <1>6, <2>1 DEF IsInjective
<1>8. \A i \in 1..m : m_time'[r[i]] > 0
  BY <1>1, <1>4 DEF TreeInv
<1>9. ASSUME NEW u \in Tasks, m_time'[u] > 0 PROVE \E i \in 1..m : r[i] = u
  <2>1. \A i \in a..b - 1 : m_task_tree[i] # u
    BY <1>9
  <2>2. m_time[u] > 0
    BY <1>9, <2>1
  <2>3. PICK k \in 1..n : m_task_tree[k] = u
    BY <1>1, <2>2 DEF TreeInv
  <2>4. k < a \/ k >= b
    BY <1>1, <1>2, <2>1, <2>3
  <2>5. \E i \in 1..m : old(i) = k
    <3> HIDE DEF n
    <3>1. CASE k < a
      <4>1. k \in 1..m /\ old(k) = k
        BY <1>1, <1>2, <3>1
      <4> QED
        BY <4>1
    <3>2. CASE k >= b
      <4>1. k - (b - a) \in 1..m /\ old(k - (b - a)) = k
        BY <1>1, <1>2, <3>2
      <4> QED
        BY <4>1
    <3> QED
      BY <2>4, <3>1, <3>2
  <2> QED
    BY <1>4, <2>3, <2>5
<1>10. \A i, j \in 1..m : i < j => m_time'[r[i]] <= m_time'[r[j]]
  <2>1. \A i, j \in 1..n : i < j => m_time[m_task_tree[i]] <= m_time[m_task_tree[j]]
    BY <1>1 DEF TreeInv
  <2> HIDE DEF r, m, n, old
  <2> QED
    BY <1>4, <1>5, <2>1
<1>11. m_next_task' = IF m = 0 THEN NoTask ELSE r[1]
  <2>1. m_next_task = IF n = 0 THEN NoTask ELSE m_task_tree[1]
    BY DEF TreeInv
  <2> HIDE DEF n, r
  <2>2. CASE a > 1
    <3>1. n > 0 /\ m > 0 /\ r[1] = m_task_tree[1]
      BY <1>1, <1>2, <1>3, <2>2
    <3> QED
      BY <2>1, <2>2, <3>1
  <2>3. CASE a = 1 /\ b <= n
    <3>1. m > 0 /\ r[1] = m_task_tree[1 + (b - a)] /\ 1 + (b - a) = b
      BY <1>1, <1>2, <1>3, <2>3
    <3> QED
      BY <1>1, <2>3, <3>1 DEF n
  <2>4. CASE a = 1 /\ b > n
    <3>1. m = 0
      BY <1>1, <1>2, <2>4
    <3> QED
      BY <1>1, <1>2, <2>4, <3>1 DEF n
  <2> QED
    BY <1>1, <1>2, <2>2, <2>3, <2>4
<1>12. TreeInv'
  <2> HIDE DEF m
  <2> QED
    BY <1>3, <1>6, <1>8, <1>9, <1>10, <1>11 DEF TreeInv
<1> QED
  BY <1>3, <1>7, <1>12

LEMMA CancelTree ==
    ASSUME Inv, NEW t \in Tasks, CancelTask(t)
    PROVE  TypeOK' /\ TreeInv'
<1> DEFINE n == Len(m_task_tree)
<1>0. TypeOK /\ TreeInv
  BY DEF Inv
<1>1. /\ n \in Nat /\ DOMAIN m_task_tree = 1..n
      /\ \A i, j \in 1..n : m_task_tree[i] = m_task_tree[j] => i = j
  BY <1>0, TreeTypes
<1>2. PICK k \in 1..n : m_task_tree[k] = t
  BY <1>0, <1>1 DEF TreeInv, CancelTask
<1>3. Position(t) = k
  BY <1>0, <1>2, PositionOf
<1>4. k \in 1..n + 1 /\ k + 1 \in k..n + 1 /\ (k + 1) - 1 = k /\ k..(k + 1) - 1 = {k}
  BY <1>1
<1>5. m_task_tree' = SubSeq(m_task_tree, 1, k - 1) \o SubSeq(m_task_tree, k + 1, n)
  BY <1>3 DEF CancelTask, RemoveAt
<1>6. /\ m_time'[t] = 0 /\ \A u \in Tasks : u # t => m_time'[u] = m_time[u]
      /\ m_time' \in [Tasks -> 0..MaxTime]
  BY <1>0, ConstantsAssumption DEF CancelTask, TypeOK
<1>7. m_next_task' = IF k > 1 THEN m_next_task
                     ELSE IF k + 1 <= n THEN m_task_tree[k + 1] ELSE NoTask
  <2>1. m_next_task = m_task_tree[1]
    BY <1>0, <1>1, <1>2 DEF TreeInv
  <2>2. CASE k > 1
    BY <1>1, <1>2, <2>1, <2>2 DEF CancelTask
  <2>3. CASE k = 1
    <3>1. m_next_task' = Successor(t)
      BY <1>2, <2>1, <2>3 DEF CancelTask
    <3> QED
      BY <1>1, <1>3, <2>3, <3>1 DEF Successor
  <2> QED
    BY <1>1, <1>2, <2>2, <2>3
<1>8. TreeInv' /\ m_task_tree' \in Seq(Tasks) /\ IsInjective(m_task_tree')
  <2>1. \A i \in k..(k + 1) - 1 : m_time'[m_task_tree[i]] = 0
    BY <1>2, <1>4, <1>6
  <2>2. \A u \in Tasks : (\A i \in k..(k + 1) - 1 : m_task_tree[i] # u) => m_time'[u] = m_time[u]
    BY <1>2, <1>4, <1>6
  <2> QED
    BY <1>0, <1>4, <1>5, <1>7, <2>1, <2>2, CutTree
<1>9. m_next_task' \in Tasks \cup {NoTask}
  BY <1>0, <1>1, <1>7, TreeTypes DEF TypeOK
<1> QED
  BY <1>0, <1>6, <1>8, <1>9 DEF TypeOK, CancelTask

\* What DoTask runs is what is due: a prefix of the tree.
LEMMA RunTree ==
    ASSUME Inv, DoInterruptTaskImpl(FirstDue, FirstFuture)
    PROVE  /\ TreeInv' /\ m_task_tree' \in Seq(Tasks) /\ IsInjective(m_task_tree')
           /\ m_time' = [t \in Tasks |-> IF m_time[t] <= now THEN 0 ELSE m_time[t]]
           /\ m_next_task' \in Tasks \cup {NoTask}
           /\ m_next_task' # NoTask => m_time'[m_next_task'] = m_time[m_next_task']
                                       /\ m_time[m_next_task'] \in 1..MaxTime
<1> DEFINE n == Len(m_task_tree)
           f == Split(now)
<1>0. TypeOK /\ TreeInv /\ now \in Nat
  BY ConstantsAssumption DEF Inv, TypeOK
<1>1. /\ n \in Nat /\ DOMAIN m_task_tree = 1..n
      /\ \A i \in 1..n : /\ m_task_tree[i] \in Tasks /\ m_task_tree[i] # NoTask
                         /\ m_time[m_task_tree[i]] \in Nat
      /\ \A i, j \in 1..n : m_task_tree[i] = m_task_tree[j] => i = j
  BY <1>0, TreeTypes
<1>2. FirstDue = 1
  <2>1. m_next_task = IF n = 0 THEN NoTask ELSE m_task_tree[1]
    BY <1>0 DEF TreeInv
  <2>2. CASE n = 0
    BY <2>1, <2>2 DEF FirstDue
  <2>3. CASE n # 0
    <3>1. 1 \in 1..n /\ m_next_task # NoTask /\ m_next_task = m_task_tree[1]
      BY <1>1, <2>1, <2>3
    <3>2. Position(m_task_tree[1]) = 1
      BY <1>0, <3>1, PositionOf
    <3> QED
      BY <3>1, <3>2 DEF FirstDue
  <2> QED
    BY <2>2, <2>3
<1>3. FirstFuture = f
  BY <1>1, <1>2 DEF FirstFuture, Split
<1>4. /\ f \in 1..n + 1
      /\ \A i \in 1..n : i < f => m_time[m_task_tree[i]] <= now
      /\ \A i \in 1..n : i >= f => m_time[m_task_tree[i]] > now
  BY <1>0, SplitTree
<1>5. DoInterruptTaskImpl(1, f)
  BY <1>2, <1>3
<1> HIDE DEF f
<1>6. \A u \in Tasks : u \in ToSet(SubSeq(m_task_tree, 1, f - 1)) <=> \E i \in 1..f - 1 : m_task_tree[i] = u
  <2>1. m_task_tree \in Seq(Tasks) /\ f - 1 \in 0..n
    BY <1>0, <1>1, <1>4 DEF TypeOK
  <2> DEFINE q == SubSeq(m_task_tree, 1, f - 1)
  <2>2. DOMAIN q = 1..f - 1 /\ \A i \in 1..f - 1 : q[i] = m_task_tree[i]
    BY <1>1, <2>1
  <2> HIDE DEF q
  <2>3. \A u \in Tasks : u \in ToSet(q) <=> \E i \in 1..f - 1 : m_task_tree[i] = u
    BY <2>2 DEF ToSet
  <2> QED
    BY <2>3 DEF q
<1>7. \A u \in Tasks : (\E i \in 1..f - 1 : m_task_tree[i] = u) <=> m_time[u] > 0 /\ m_time[u] <= now
  <2>1. ASSUME NEW u \in Tasks, NEW i \in 1..f - 1, m_task_tree[i] = u
        PROVE  m_time[u] > 0 /\ m_time[u] <= now
    BY <1>0, <1>1, <1>4, <2>1 DEF TreeInv
  <2>2. ASSUME NEW u \in Tasks, m_time[u] > 0, m_time[u] <= now
        PROVE  \E i \in 1..f - 1 : m_task_tree[i] = u
    <3>1. PICK k \in 1..n : m_task_tree[k] = u
      BY <1>0, <1>1, <2>2 DEF TreeInv
    <3>2. k < f
      BY <1>0, <1>1, <1>4, <2>2, <3>1
    <3> QED
      BY <1>4, <3>1, <3>2
  <2> QED
    BY <2>1, <2>2
<1>8. \A u \in Tasks : m_time'[u] = IF \E i \in 1..f - 1 : m_task_tree[i] = u THEN 0 ELSE m_time[u]
  BY <1>5, <1>6 DEF DoInterruptTaskImpl
<1>9. m_time' = [t \in Tasks |-> IF m_time[t] <= now THEN 0 ELSE m_time[t]]
  <2>1. \A u \in Tasks : m_time'[u] = IF m_time[u] <= now THEN 0 ELSE m_time[u]
    <3>1. \A u \in Tasks : m_time[u] \in Nat
      BY <1>0, TreeTypes
    <3> QED
      BY <1>0, <1>7, <1>8, <3>1
  <2>2. m_time' = [t \in Tasks |-> m_time'[t]]
    BY <1>5 DEF DoInterruptTaskImpl
  <2> QED
    BY <2>1, <2>2
<1>10. m_next_task' = IF f <= n THEN m_task_tree[f] ELSE NoTask
  BY <1>5 DEF DoInterruptTaskImpl
<1>11. TreeInv' /\ m_task_tree' \in Seq(Tasks) /\ IsInjective(m_task_tree')
  <2>1. m_task_tree' = SubSeq(m_task_tree, 1, 1 - 1) \o SubSeq(m_task_tree, f, n)
    BY <1>5 DEF DoInterruptTaskImpl
  <2>2. 1 \in 1..n + 1 /\ f \in 1..n + 1 /\ 1..f - 1 \subseteq 1..n
    BY <1>1, <1>4
  <2>3. \A i \in 1..f - 1 : m_time'[m_task_tree[i]] = 0
    BY <1>1, <1>8, <2>2
  <2>4. \A u \in Tasks : (\A i \in 1..f - 1 : m_task_tree[i] # u) => m_time'[u] = m_time[u]
    BY <1>8
  <2>5. m_next_task' = IF 1 > 1 THEN m_next_task ELSE IF f <= n THEN m_task_tree[f] ELSE NoTask
    BY <1>10
  <2> QED
    BY <1>0, <2>1, <2>2, <2>3, <2>4, <2>5, CutTree
<1>12. m_next_task' \in Tasks \cup {NoTask}
  BY <1>1, <1>4, <1>10
<1>13. ASSUME m_next_task' # NoTask
       PROVE  m_time'[m_next_task'] = m_time[m_next_task'] /\ m_time[m_next_task'] \in 1..MaxTime
  <2>1. f \in 1..n /\ m_next_task' = m_task_tree[f] /\ m_task_tree[f] \in Tasks
    BY <1>1, <1>4, <1>10, <1>13
  <2>2. m_time[m_task_tree[f]] > now /\ m_time[m_task_tree[f]] \in 0..MaxTime
    BY <1>0, <1>1, <1>4, <2>1 DEF TypeOK
  <2> QED
    BY <1>0, <1>9, <2>1, <2>2, ConstantsAssumption
<1> QED
  BY <1>9, <1>11, <1>12, <1>13

-----------------------------------------------------------------------------
(* The interrupt                                                           *)

LEMMA InitInv == Init => Inv
<1> SUFFICES ASSUME Init PROVE Inv
  OBVIOUS
<1>1. TypeOK
  <2>1. <<>> \in Seq(Tasks) /\ IsInjective(<<>>)
    BY DEF IsInjective
  <2>2. 0 \in 0..MaxTime /\ Never \in 1..Never
    BY ConstantsAssumption DEF Never
  <2>3. m_time \in [Tasks -> 0..MaxTime]
    BY <2>2 DEF Init
  <2> QED
    BY <2>1, <2>2, <2>3 DEF Init, TypeOK
<1>2. TreeInv
  BY DEF Init, TreeInv
<1> QED
  BY <1>1, <1>2 DEF Init, Inv, CoverInv, ArmedInv

LEMMA NextInv == Inv /\ [Next]_vars => Inv'
<1> SUFFICES ASSUME Inv, [Next]_vars PROVE Inv'
  OBVIOUS
<1>0. /\ TypeOK /\ TreeInv /\ CoverInv /\ ArmedInv /\ MaxTime \in Nat /\ Never = MaxTime + 1
      /\ m_wakeup_time \in Nat /\ \A t \in Tasks : m_time[t] \in 0..MaxTime
  BY ConstantsAssumption DEF Inv, TypeOK, Never
<1>1. CASE Tick
  <2>1. TypeOK'
    BY <1>0, <1>1 DEF Tick, ClockTicks, TypeOK, Never
  <2> QED
    BY <1>0, <1>1, <2>1 DEF Tick, ClockTicks, Inv, TreeInv, CoverInv, ArmedInv, Never
<1>2. ASSUME NEW t \in Tasks, CancelTask(t) PROVE Inv'
  <2>1. TypeOK' /\ TreeInv'
    BY <1>2, CancelTree
  <2>2. CoverInv'
    <3> SUFFICES ASSUME m_next_task' # NoTask PROVE m_wakeup_time' <= m_time'[m_next_task']
      BY DEF CoverInv
    <3>1. m_next_task' \in Tasks /\ m_time'[m_next_task'] > 0
      BY <2>1 DEF TypeOK, TreeInv
    <3>2. m_next_task' # t /\ m_time'[m_next_task'] = m_time[m_next_task']
      BY <1>0, <1>2, <3>1 DEF CancelTask, TypeOK
    <3>3. m_next_task \in Tasks /\ m_time[m_next_task] <= m_time[m_next_task']
      <4>1. m_time[m_next_task'] > 0
        BY <3>1, <3>2
      <4>2. PICK i \in 1..Len(m_task_tree) : m_task_tree[i] = m_next_task'
        BY <1>0, <3>1, <4>1, TreeTypes DEF TreeInv
      <4>3. m_next_task = m_task_tree[1] /\ 1 \in 1..Len(m_task_tree) /\ Len(m_task_tree) \in Nat
        BY <1>0, <4>2, TreeTypes DEF TreeInv
      <4>4. m_next_task \in Tasks
        BY <1>0, <4>3, TreeTypes
      <4>5. CASE i = 1
        BY <1>0, <4>2, <4>3, <4>4, <4>5
      <4>6. CASE i > 1
        BY <1>0, <4>2, <4>3, <4>4, <4>6, TreeTypes DEF TreeInv
      <4> QED
        BY <4>2, <4>5, <4>6
    <3>4. m_wakeup_time <= m_time[m_next_task]
      BY <1>0, <3>3, ConstantsAssumption DEF CoverInv
    <3> QED
      BY <1>0, <1>2, <3>1, <3>2, <3>3, <3>4 DEF CancelTask
  <2>3. ArmedInv'
    BY <1>0, <1>2 DEF CancelTask, ArmedInv, Never
  <2> QED
    BY <2>1, <2>2, <2>3 DEF Inv
<1>3. ASSUME NEW t \in Tasks, NEW time \in 1..MaxTime, RegisterAbsoluteTask(t, time) PROVE Inv'
  <2>1. TypeOK' /\ TreeInv'
    BY <1>3, RegisterTree
  <2>2. m_time' = [m_time EXCEPT ![t] = time] /\ m_time \in [Tasks -> 0..MaxTime] /\ m_time[t] = 0
    BY <1>0, <1>3 DEF RegisterAbsoluteTask, TypeOK
  <2>3. CASE RegisterAbsoluteTaskImpl(t, time) /\ time <= m_wakeup_time
    <3>1. m_next_task' = t /\ m_wakeup_time' = time /\ timer_events' = {time} /\ m_time'[t] = time
      BY <1>3, <2>2, <2>3 DEF RegisterAbsoluteTask, EnableInterrupt
    <3> QED
      BY <1>0, <2>1, <3>1 DEF Inv, CoverInv, ArmedInv
  <2>4. CASE RegisterAbsoluteTaskImpl(t, time) /\ ~(time <= m_wakeup_time)
    <3>1. /\ m_next_task' = t /\ m_wakeup_time' = m_wakeup_time /\ timer_events' = timer_events
          /\ m_time'[t] = time /\ popped' = popped
      BY <1>3, <2>2, <2>4 DEF RegisterAbsoluteTask
    <3> QED
      BY <1>0, <2>1, <2>4, <3>1 DEF Inv, CoverInv, ArmedInv, Never
  <2>5. CASE ~RegisterAbsoluteTaskImpl(t, time)
    <3>1. /\ m_next_task' = m_next_task /\ m_wakeup_time' = m_wakeup_time
          /\ timer_events' = timer_events /\ popped' = popped
      BY <1>3, <2>5 DEF RegisterAbsoluteTask
    <3>2. m_next_task # t
      <4>1. m_next_task # NoTask => m_time[m_next_task] > 0
        BY <1>0, TreeTypes DEF TreeInv
      <4> QED
        BY <1>0, <2>2, <4>1, ConstantsAssumption
    <3>3. m_next_task \in Tasks => m_time'[m_next_task] = m_time[m_next_task]
      BY <2>2, <3>2
    <3>4. CoverInv'
      BY <1>0, <3>1, <3>3 DEF CoverInv, TypeOK
    <3> QED
      BY <1>0, <2>1, <3>1, <3>4 DEF Inv, ArmedInv, Never
  <2> QED
    BY <2>3, <2>4, <2>5
<1>4. CASE PopEvent
  <2>1. TypeOK'
    BY <1>0, <1>4 DEF PopEvent, TypeOK, Never
  <2> QED
    BY <1>0, <1>4, <2>1 DEF PopEvent, Inv, TreeInv, CoverInv, ArmedInv, Never
<1>5. CASE DoTask
  <2>1. CASE m_wakeup_time = Never
    <3>1. m_next_task = NoTask
      BY <1>0, <2>1 DEF CoverInv, TypeOK
    <3>2. TypeOK'
      BY <1>0, <1>5, <2>1 DEF DoTask, TypeOK, Never
    <3> QED
      BY <1>0, <1>5, <2>1, <3>1, <3>2 DEF DoTask, Inv, TreeInv, CoverInv, ArmedInv, Never
  <2>2. CASE m_wakeup_time # Never
    <3>0. now' = now /\ popped' = FALSE
      BY <1>5 DEF DoTask
    <3>1. DoInterruptTaskImpl(FirstDue, FirstFuture)
      BY <1>5, <2>2 DEF DoTask
    <3>2. /\ TreeInv' /\ m_task_tree' \in Seq(Tasks) /\ IsInjective(m_task_tree')
          /\ m_time' = [t \in Tasks |-> IF m_time[t] <= now THEN 0 ELSE m_time[t]]
          /\ m_next_task' \in Tasks \cup {NoTask}
          /\ m_next_task' # NoTask => m_time'[m_next_task'] = m_time[m_next_task']
                                      /\ m_time[m_next_task'] \in 1..MaxTime
      BY <3>1, RunTree
    <3>3. m_time' \in [Tasks -> 0..MaxTime]
      BY <1>0, <3>2
    <3>4. CASE m_next_task' # NoTask
      <4>1. m_wakeup_time' = m_time[m_next_task'] /\ timer_events' = {m_time[m_next_task']}
        BY <1>5, <2>2, <3>4 DEF DoTask, EnableInterrupt
      <4>2. TypeOK'
        <5>1. m_wakeup_time' \in 1..Never /\ timer_events' \in SUBSET (1..MaxTime)
          BY <1>0, <3>2, <3>4, <4>1
        <5> QED
          BY <1>0, <3>0, <3>2, <3>3, <5>1 DEF TypeOK, Never
      <4> QED
        BY <1>0, <3>2, <3>4, <4>1, <4>2 DEF Inv, CoverInv, ArmedInv
    <3>5. CASE m_next_task' = NoTask
      <4>1. m_wakeup_time' = Never /\ timer_events' = timer_events
        BY <1>5, <2>2, <3>5 DEF DoTask
      <4>2. TypeOK'
        <5>1. m_wakeup_time' \in 1..Never /\ timer_events' \in SUBSET (1..MaxTime)
          BY <1>0, <4>1 DEF TypeOK
        <5> QED
          BY <1>0, <3>0, <3>2, <3>3, <5>1 DEF TypeOK, Never
      <4> QED
        BY <3>2, <3>5, <4>1, <4>2 DEF Inv, CoverInv, ArmedInv, Never
    <3> QED
      BY <3>4, <3>5
  <2> QED
    BY <2>1, <2>2
<1>6. CASE UNCHANGED vars
  <2>1. TypeOK'
    BY <1>0, <1>6 DEF vars, TypeOK, Never
  <2> QED
    BY <1>0, <1>6, <2>1 DEF vars, Inv, TreeInv, CoverInv, ArmedInv, Never
<1> QED
  BY <1>1, <1>2, <1>3, <1>4, <1>5, <1>6 DEF Next

\* The inductive invariant: the tree is in order, m_next_task is its first
\* task, m_wakeup_time is not after it, and what m_wakeup_time says is on its way.
THEOREM Invariant == Spec => []Inv
BY InitInv, NextInv, PTL DEF Spec

\* However registering, cancelling and the popped event interleave, the
\* earliest task has an interrupt at its time or before, queued or popped.
THEOREM InterruptIsOnItsWay == Spec => []InterruptCoversNextTask
<1>1. Inv => InterruptCoversNextTask
  <2> SUFFICES ASSUME Inv PROVE InterruptCoversNextTask
    OBVIOUS
  <2>0. TypeOK /\ TreeInv /\ CoverInv /\ ArmedInv
    BY DEF Inv
  <2>1. ToSet(m_task_tree) = {t \in Tasks : m_time[t] > 0}
    <3>1. \A i \in DOMAIN m_task_tree : m_task_tree[i] \in Tasks
      BY <2>0, TreeTypes
    <3> QED
      BY <2>0, <3>1 DEF TreeInv, ToSet
  <2>2. m_next_task = IF m_task_tree = <<>> THEN NoTask ELSE Head(m_task_tree)
    BY <2>0 DEF TreeInv, TypeOK
  <2>3. NextIsEarliest
    BY <2>0, <2>1, <2>2 DEF TreeInv, NextIsEarliest
  <2>4. m_next_task # NoTask => m_wakeup_time # Never
    BY <2>0, ConstantsAssumption DEF CoverInv, TypeOK, Never
  <2> QED
    BY <2>0, <2>3, <2>4 DEF InterruptCoversNextTask, CoverInv, ArmedInv
<1> QED
  BY <1>1, Invariant, PTL

-----------------------------------------------------------------------------
(* The refinement                                                          *)

LEMMA StepRefines == Inv /\ [Next]_vars => [Abstract!Next]_Abstract!vars
<1> SUFFICES ASSUME Inv, [Next]_vars PROVE [Abstract!Next]_Abstract!vars
  OBVIOUS
<1>1. CASE Tick
  BY <1>1 DEF Tick, Abstract!Next, Abstract!Tick, ClockTicks
<1>2. ASSUME NEW t \in Tasks, CancelTask(t) PROVE Abstract!Next
  BY <1>2 DEF CancelTask, Abstract!Next, Abstract!Cancel
<1>3. ASSUME NEW t \in Tasks, NEW time \in 1..MaxTime, RegisterAbsoluteTask(t, time)
      PROVE  Abstract!Next
  BY <1>3 DEF RegisterAbsoluteTask, Abstract!Next, Abstract!Register
<1>4. CASE PopEvent
  BY <1>4 DEF PopEvent, Abstract!vars
<1>5. CASE DoTask
  <2>1. CASE m_wakeup_time = Never
    BY <1>5, <2>1 DEF DoTask, Abstract!vars
  <2>2. CASE m_wakeup_time # Never
    <3>1. /\ m_time' = [t \in Tasks |-> IF m_time[t] <= now THEN 0 ELSE m_time[t]]
          /\ now' = now
      BY <1>5, <2>2, RunTree DEF DoTask
    <3>2. CASE \E t \in Tasks : m_time[t] \in 1..now
      BY <3>1, <3>2 DEF Abstract!Next, Abstract!RunDueTasks
    <3>3. CASE ~\E t \in Tasks : m_time[t] \in 1..now
      <4>1. m_time \in [Tasks -> 0..MaxTime] /\ now \in Nat /\ MaxTime \in Nat
        BY ConstantsAssumption DEF Inv, TypeOK
      <4>2. \A t \in Tasks : (IF m_time[t] <= now THEN 0 ELSE m_time[t]) = m_time[t]
        BY <3>3, <4>1
      <4>3. m_time' = m_time
        BY <3>1, <4>1, <4>2
      <4> QED
        BY <3>1, <4>3 DEF Abstract!vars
    <3> QED
      BY <3>2, <3>3
  <2> QED
    BY <2>1, <2>2
<1>6. CASE UNCHANGED vars
  BY <1>6 DEF vars, Abstract!vars
<1> QED
  BY <1>1, <1>2, <1>3, <1>4, <1>5, <1>6 DEF Next

\* The timer implements the safety part of TimerTasks: a task is run or
\* cancelled and not lost, DoTask runs exactly what is due, and none early.
THEOREM TimerRefinesTasks == Spec => Abstract!SafeSpec
<1>1. Init => Abstract!Init
  BY DEF Init, Abstract!Init
<1> QED
  BY <1>1, StepRefines, Invariant, PTL DEF Spec, Abstract!SafeSpec

-----------------------------------------------------------------------------
(* CoreTiming                                                              *)

Distinct(q) == \A i, j \in DOMAIN q : q[i].type = q[j].type => i = j

QueueInv ==
    /\ event_queue \in Seq(Event) /\ Distinct(event_queue)
    /\ now \in Nat /\ pause_end_time \in Nat
    /\ running \in Types \cup {NoType}
    /\ pc = "callback" <=> running # NoType

QuietInv ==
    /\ \A type \in unscheduled : ~Queued(type)
    /\ running \in unscheduled => running \in unscheduling

\* Where the guarded controller's argument is what paused is, as long as no
\* other stores to it
Agreeing == {"idle", "check", "pause_set", "end_time", "pause_set_again", "event_set", "spin"}

\* Before the shutdown, and if the thread was not resumed before its first pause
Handshake ==
    /\ control["shutdown"] = "idle"
    /\ control["guarded"] \in Agreeing => paused = is_paused
    /\ control["guarded"] \in {"idle", "check", "set"} =>
            \/ paused_set = paused
            \/ paused /\ ~paused_set /\ pc \in {"outer", "inner", "pausing", "exited"}
    /\ paused /\ paused_set => pc # "resumed"
    /\ ~paused /\ pc = "pausing" => paused_set

FlagsInv ==
    /\ paused \in BOOLEAN /\ paused_set \in BOOLEAN /\ is_paused \in BOOLEAN
    /\ DOMAIN control = Controllers
    /\ paused_set => pc \in {"outer", "inner", "resumed", "pausing", "pause_wait", "exited"}

PauseInv == FlagsInv /\ (~disturbed => Handshake)

\* Who will set event, or pause_event, after a change of paused
Telling == {"pause_set", "end_time", "pause_set_again", "event_set",
            "reset", "reset_pause_set", "reset_event_set"}

Somewhere(S) == \E c \in Controllers : control[c] \in S

WakeInv ==
    /\ paused /\ pc \in {"resumed", "advance", "callback", "wait_for", "wait"} =>
            event \/ Somewhere(Telling)
    /\ ~paused /\ pc \in {"pausing", "pause_wait"} => pause_event \/ Somewhere({"pause_set"})
    /\ pc = "pause_wait" => paused_set

\* From the first step of Reset on nobody else stores to paused.
ResetInv ==
    /\ control["guarded"] \notin Resetting
    /\ control["shutdown"] \in Resetting => paused /\ control["guarded"] = "idle"
    /\ control["shutdown"] \in Resetting \ {"reset"} => shutting_down
    /\ control["shutdown"] \in {"reset_event_set", "join", "done"} =>
            pause_event \/ pc \in {"outer", "exited"}

-----------------------------------------------------------------------------
(* The queue                                                               *)

LEMMA EmplaceQueue ==
    ASSUME NEW q \in Seq(Event), Distinct(q), NEW e \in Event, ~QueuedIn(q, e.type)
    PROVE  /\ Emplace(q, e) \in Seq(Event) /\ Distinct(Emplace(q, e))
           /\ \A type : QueuedIn(Emplace(q, e), type) => QueuedIn(q, type) \/ type = e.type
<1> DEFINE S == {i \in DOMAIN q : q[i].time > e.time} \cup {Len(q) + 1}
           a == Min(S)
           n == Len(q)
           b == SubSeq(q, 1, a - 1)
           c == SubSeq(q, a, Len(q))
           r == Emplace(q, e)
<1>1. n \in Nat /\ DOMAIN q = 1..n /\ \A i \in 1..n : q[i] \in Event
  OBVIOUS
<1>2. S \in SUBSET Nat /\ S # {} /\ S \in SUBSET (1..n + 1)
  BY <1>1
<1>3. a \in 1..n + 1
  BY <1>2, MinIsLeast
<1>4. r = b \o <<e>> \o c
  BY DEF Emplace, InsertAt
<1> HIDE DEF a
<1>5. b \in Seq(Event) /\ Len(b) = a - 1 /\ \A i \in 1..a - 1 : b[i] = q[i]
  BY <1>3
<1>6. c \in Seq(Event) /\ Len(c) = n + 1 - a /\ \A i \in 1..n + 1 - a : c[i] = q[i + a - 1]
  BY <1>3
<1> HIDE DEF b, c, r, n
<1> DEFINE be == b \o <<e>>
<1>7. be \in Seq(Event) /\ Len(be) = a /\ be[a] = e /\ \A i \in 1..a - 1 : be[i] = q[i]
  BY <1>1, <1>3, <1>5
<1> HIDE DEF be
<1>8. r = be \o c
  BY <1>4 DEF be
<1>9. r \in Seq(Event) /\ Len(r) = Len(be) + Len(c)
  <2>1. be \in Seq(Event) /\ c \in Seq(Event)
    BY <1>6, <1>7
  <2> QED
    BY <1>8, <2>1
<1>10. Len(r) = n + 1 /\ DOMAIN r = 1..n + 1
  <2>1. Len(r) = n + 1
    BY <1>1, <1>3, <1>6, <1>7, <1>9
  <2> QED
    BY <1>9, <2>1
<1>11. ASSUME NEW i \in 1..n + 1
       PROVE  /\ i < a => i \in 1..n /\ r[i] = q[i]
              /\ i = a => r[i] = e
              /\ i > a => i - 1 \in 1..n /\ r[i] = q[i - 1]
  <2>0. a \in Nat /\ i \in Nat
    BY <1>1, <1>3
  <2>1. CASE i <= a
    BY <1>1, <1>3, <1>6, <1>7, <1>8, <2>0, <2>1
  <2>2. CASE i > a
    <3>1. (be \o c)[i] = c[i - Len(be)]
      BY <1>1, <1>3, <1>6, <1>7, <1>8, <1>9, <1>10, <2>2
    <3> QED
      BY <1>1, <1>3, <1>6, <1>7, <1>8, <2>0, <2>2, <3>1
  <2>3. i <= a \/ i > a
    BY <2>0
  <2> QED
    BY <2>1, <2>2, <2>3
<1>12. \A i \in 1..n : q[i].type # e.type
  BY <1>1 DEF QueuedIn
<1>13. Distinct(r)
  <2> SUFFICES ASSUME NEW i \in 1..n + 1, NEW j \in 1..n + 1, r[i].type = r[j].type PROVE i = j
    BY <1>10 DEF Distinct
  <2>1. i \in Nat /\ j \in Nat /\ a \in Nat
    BY <1>1, <1>3
  <2>2. \A k, l \in 1..n : q[k].type = q[l].type => k = l
    BY <1>1 DEF Distinct
  <2>3. CASE i = a
    BY <1>11, <1>12, <2>1, <2>3
  <2>4. CASE j = a
    BY <1>11, <1>12, <2>1, <2>4
  <2>5. CASE i < a /\ j < a
    BY <1>11, <2>2, <2>5
  <2>6. CASE i > a /\ j > a
    BY <1>11, <2>1, <2>2, <2>6
  <2>7. CASE i < a /\ j > a
    BY <1>11, <2>1, <2>2, <2>7
  <2>8. CASE i > a /\ j < a
    BY <1>11, <2>1, <2>2, <2>8
  <2> QED
    BY <2>1, <2>3, <2>4, <2>5, <2>6, <2>7, <2>8
<1>14. ASSUME NEW type, QueuedIn(r, type) PROVE QueuedIn(q, type) \/ type = e.type
  <2>1. PICK i \in 1..n + 1 : r[i].type = type
    BY <1>10, <1>14 DEF QueuedIn
  <2>2. a \in Nat /\ i \in Nat
    BY <1>1, <1>3
  <2>3. i < a \/ i = a \/ i > a
    BY <2>2
  <2> QED
    BY <1>1, <1>11, <2>1, <2>3 DEF QueuedIn
<1> QED
  BY <1>9, <1>13, <1>14 DEF r

LEMMA EraseQueue ==
    ASSUME NEW q \in Seq(Event), Distinct(q), NEW type
    PROVE  /\ Erase(q, type) \in Seq(Event) /\ Distinct(Erase(q, type))
           /\ \A other : QueuedIn(Erase(q, type), other) => QueuedIn(q, other) /\ other # type
<1> DEFINE n == Len(q)
           k == CHOOSE i \in DOMAIN q : q[i].type = type
           r == Erase(q, type)
<1>1. n \in Nat /\ DOMAIN q = 1..n
  OBVIOUS
<1>2. CASE ~QueuedIn(q, type)
  BY <1>2 DEF Erase, QueuedIn
<1>3. CASE QueuedIn(q, type)
  <2>1. k \in 1..n /\ q[k].type = type
    BY <1>1, <1>3 DEF QueuedIn
  <2>2. r = SubSeq(q, 1, k - 1) \o SubSeq(q, k + 1, n)
    BY <1>3 DEF Erase, RemoveAt
  <2> DEFINE b == SubSeq(q, 1, k - 1)
             c == SubSeq(q, k + 1, n)
  <2> HIDE DEF k
  <2>3. b \in Seq(Event) /\ Len(b) = k - 1 /\ \A i \in 1..k - 1 : b[i] = q[i]
    BY <2>1
  <2>4. c \in Seq(Event) /\ Len(c) = n - k /\ \A i \in 1..n - k : c[i] = q[i + k]
    BY <2>1
  <2> HIDE DEF b, c, r, n
  <2>5. r = b \o c
    BY <2>2 DEF b, c
  <2>6. r \in Seq(Event) /\ Len(r) = Len(b) + Len(c)
    <3>1. b \in Seq(Event) /\ c \in Seq(Event)
      BY <2>3, <2>4
    <3> QED
      BY <2>5, <3>1
  <2>7. Len(r) = n - 1 /\ DOMAIN r = 1..n - 1
    <3>1. Len(r) = n - 1
      BY <1>1, <2>1, <2>3, <2>4, <2>6
    <3> QED
      BY <2>6, <3>1
  <2>8. ASSUME NEW i \in 1..n - 1
        PROVE  /\ i < k => i \in 1..n /\ r[i] = q[i]
               /\ i >= k => i + 1 \in 1..n /\ r[i] = q[i + 1]
    <3>0. k \in Nat /\ i \in Nat
      BY <1>1, <2>1
    <3>1. CASE i < k
      BY <1>1, <2>1, <2>3, <2>4, <2>5, <3>0, <3>1
    <3>2. CASE i >= k
      <4>1. (b \o c)[i] = c[i - Len(b)]
        BY <1>1, <2>1, <2>3, <2>4, <2>5, <2>6, <2>7, <3>2
      <4> QED
        BY <1>1, <2>1, <2>3, <2>4, <2>5, <3>0, <3>2, <4>1
    <3> QED
      BY <3>0, <3>1, <3>2
  <2>9. \A i, j \in 1..n : q[i].type = q[j].type => i = j
    BY <1>1 DEF Distinct
  <2>10. Distinct(r)
    <3> SUFFICES ASSUME NEW i \in 1..n - 1, NEW j \in 1..n - 1, r[i].type = r[j].type PROVE i = j
      BY <2>7 DEF Distinct
    <3>1. i \in Nat /\ j \in Nat /\ k \in Nat
      BY <1>1, <2>1
    <3>2. CASE i < k /\ j < k
      BY <2>8, <2>9, <3>2
    <3>3. CASE i >= k /\ j >= k
      BY <2>8, <2>9, <3>1, <3>3
    <3>4. CASE i < k /\ j >= k
      BY <2>8, <2>9, <3>1, <3>4
    <3>5. CASE i >= k /\ j < k
      BY <2>8, <2>9, <3>1, <3>5
    <3> QED
      BY <3>1, <3>2, <3>3, <3>4, <3>5
  <2>11. ASSUME NEW other, QueuedIn(r, other) PROVE QueuedIn(q, other) /\ other # type
    <3>1. PICK i \in 1..n - 1 : r[i].type = other
      BY <2>7, <2>11 DEF QueuedIn
    <3>2. k \in Nat /\ i \in Nat
      BY <1>1, <2>1
    <3>3. CASE i < k
      BY <1>1, <2>1, <2>8, <2>9, <3>1, <3>2, <3>3 DEF QueuedIn
    <3>4. CASE i >= k
      BY <1>1, <2>1, <2>8, <2>9, <3>1, <3>2, <3>4 DEF QueuedIn
    <3> QED
      BY <3>2, <3>3, <3>4
  <2> QED
    BY <2>6, <2>10, <2>11 DEF r
<1> QED
  BY <1>2, <1>3

LEMMA AdvanceQueue ==
    ASSUME NEW q \in Seq(Event), Distinct(q), now \in Nat, AdvanceLoop(q)
    PROVE  /\ event_queue' \in Seq(Event) /\ Distinct(event_queue')
           /\ \A type : Queued(type)' => QueuedIn(q, type)
           /\ running' \in Types \cup {NoType}
           /\ running' # NoType => QueuedIn(q, running')
           /\ pc' \in {"callback", "wait_for", "wait", "spinning"}
           /\ pc' = "callback" <=> running' # NoType
<1>1. CASE q # <<>> /\ Head(q).time <= now /\ Head(q).type \notin expired
  <2>1. Len(q) \in Nat /\ Len(q) > 0 /\ Head(q) = q[1] /\ q[1] \in Event /\ DOMAIN q = 1..Len(q)
    BY <1>1
  <2>2. running' = q[1].type /\ pc' = "callback" /\ event_queue' \in {q, Tail(q)}
    BY <1>1, <2>1 DEF AdvanceLoop, Event
  <2>3. q[1].type \in Types /\ QueuedIn(q, q[1].type)
    BY <2>1 DEF Event, QueuedIn
  <2>4. /\ Tail(q) \in Seq(Event) /\ DOMAIN Tail(q) = 1..Len(q) - 1
        /\ \A i \in 1..Len(q) - 1 : Tail(q)[i] = q[i + 1] /\ i + 1 \in 1..Len(q)
    BY <1>1, <2>1
  <2>5. Distinct(Tail(q))
    <3> SUFFICES ASSUME NEW i \in 1..Len(q) - 1, NEW j \in 1..Len(q) - 1,
                        Tail(q)[i].type = Tail(q)[j].type
                 PROVE  i = j
      BY <2>4 DEF Distinct
    <3>1. i + 1 = j + 1
      BY <2>1, <2>4 DEF Distinct
    <3> QED
      BY <2>1, <3>1
  <2>6. \A type : QueuedIn(Tail(q), type) => QueuedIn(q, type)
    BY <2>1, <2>4 DEF QueuedIn
  <2>7. \A type : Queued(type)' => QueuedIn(q, type)
    BY <2>2, <2>6 DEF Queued, QueuedIn
  <2> QED
    BY <2>2, <2>3, <2>4, <2>5, <2>7, TimingAssumption
<1>2. CASE ~(q # <<>> /\ Head(q).time <= now /\ Head(q).type \notin expired)
  <2>1. event_queue' = q /\ running' = NoType /\ pc' \in {"wait_for", "wait", "spinning"}
    BY <1>2 DEF AdvanceLoop
  <2> QED
    BY <2>1 DEF Queued, QueuedIn
<1> QED
  BY <1>1, <1>2

-----------------------------------------------------------------------------
(* Unscheduled events                                                      *)

\* The queue a callback that returns leaves to the loop: the one it found, or
\* that with the looping event put back later.
LEMMA CallbackQueue ==
    ASSUME QueueInv, CallbackReturns
    PROVE  \E q \in Seq(Event) :
             /\ Distinct(q) /\ AdvanceLoop(q)
             /\ \A type : QueuedIn(q, type) => Queued(type)
<1>1. CASE AdvanceLoop(event_queue)
  BY <1>1 DEF QueueInv, Queued
<1>2. CASE \E e \in InProgress, interval \in Intervals : AdvanceLoop(Reschedule(e, interval))
  <2>1. PICK e \in InProgress, interval \in Intervals : AdvanceLoop(Reschedule(e, interval))
    BY <1>2
  <2>2. PICK i \in DOMAIN event_queue : e = event_queue[i]
    BY DEF InProgress, ToSet
  <2>3. e \in Event /\ Queued(e.type)
    BY <2>2 DEF QueueInv, Queued, QueuedIn
  <2> DEFINE rest == Erase(event_queue, e.type)
             time == interval + (IF e.time < pause_end_time THEN pause_end_time ELSE e.time)
             new == [time |-> time, type |-> e.type, reschedule_time |-> interval]
  <2>4. /\ rest \in Seq(Event) /\ Distinct(rest)
        /\ \A other : QueuedIn(rest, other) => Queued(other) /\ other # e.type
    BY EraseQueue DEF QueueInv, Queued
  <2>5. time \in Nat /\ interval \in Nat
    BY <2>3, TimingAssumption DEF QueueInv, Event
  <2>6. new \in Event /\ new.type = e.type
    BY <2>3, <2>5 DEF Event
  <2>7. Reschedule(e, interval) = Emplace(rest, new)
    BY DEF Reschedule
  <2> HIDE DEF rest, new
  <2>8. /\ Emplace(rest, new) \in Seq(Event) /\ Distinct(Emplace(rest, new))
        /\ \A type : QueuedIn(Emplace(rest, new), type) => QueuedIn(rest, type) \/ type = new.type
    BY <2>4, <2>6, EmplaceQueue
  <2>9. \A type : QueuedIn(Emplace(rest, new), type) => Queued(type)
    BY <2>3, <2>4, <2>6, <2>8
  <2> QED
    BY <2>1, <2>7, <2>8, <2>9
<1> QED
  BY <1>1, <1>2 DEF CallbackReturns

\* So no callback starts but of an event that was queued.
LEMMA LoopKeepsQuiet ==
    ASSUME QueueInv, QuietInv, NEW q \in Seq(Event), Distinct(q), AdvanceLoop(q),
           \A type : QueuedIn(q, type) => Queued(type),
           UNCHANGED <<now, pause_end_time, unscheduling, unscheduled>>, unscheduled \subseteq Types
    PROVE  QueueInv' /\ QuietInv'
<1>1. /\ event_queue' \in Seq(Event) /\ Distinct(event_queue')
      /\ \A type : Queued(type)' => QueuedIn(q, type)
      /\ running' \in Types \cup {NoType}
      /\ running' # NoType => QueuedIn(q, running')
      /\ pc' = "callback" <=> running' # NoType
  BY AdvanceQueue DEF QueueInv
<1>2. QueueInv'
  BY <1>1 DEF QueueInv, Distinct
<1>3. running' \notin unscheduled
  BY <1>1, TimingAssumption DEF QuietInv
<1> QED
  BY <1>1, <1>2, <1>3 DEF QuietInv

QueueQuiet == QueueInv /\ QuietInv /\ unscheduled \subseteq Types

LEMMA QueueQuietStep == QueueQuiet /\ [TimingNext]_timingVars => QueueQuiet'
<1> SUFFICES ASSUME QueueQuiet, [TimingNext]_timingVars PROVE QueueQuiet'
  OBVIOUS
<1> USE DEF QueueQuiet, queueVars, flagVars, controlVars, clientVars
<1>1. CASE TimingTick
  BY <1>1 DEF TimingTick, ClockTicks, QueueInv, QuietInv, Queued, QueuedIn, Distinct
<1>2. ASSUME NEW type \in Types, NEW delay \in Delays, ScheduleEvent(type, delay) PROVE QueueQuiet'
  <2>1. PICK interval \in Intervals \cup {0} :
          event_queue' = Emplace(event_queue, [time |-> now + delay, type |-> type,
                                               reschedule_time |-> interval])
    BY <1>2 DEF ScheduleEvent
  <2> DEFINE e == [time |-> now + delay, type |-> type, reschedule_time |-> interval]
  <2>2. e \in Event /\ e.type = type
    BY TimingAssumption DEF Event, QueueInv
  <2> HIDE DEF e
  <2>3. /\ event_queue' \in Seq(Event) /\ Distinct(event_queue')
        /\ \A other : QueuedIn(event_queue', other) => Queued(other) \/ other = type
    <3>1. ~QueuedIn(event_queue, e.type)
      BY <1>2, <2>2 DEF ScheduleEvent, Queued
    <3>2. /\ Emplace(event_queue, e) \in Seq(Event) /\ Distinct(Emplace(event_queue, e))
          /\ \A other : QueuedIn(Emplace(event_queue, e), other)
                          => QueuedIn(event_queue, other) \/ other = e.type
      BY <2>2, <3>1, EmplaceQueue DEF QueueInv
    <3> QED
      BY <2>1, <2>2, <3>2 DEF e, Queued
  <2>4. QueueInv'
    BY <1>2, <2>3 DEF QueueInv, ScheduleEvent, Distinct
  <2>5. QuietInv'
    BY <1>2, <2>3 DEF QuietInv, ScheduleEvent, Queued, QueuedIn
  <2> QED
    BY <1>2, <2>4, <2>5 DEF ScheduleEvent
<1>3. CASE NotifyTimerThread
  BY <1>3 DEF NotifyTimerThread, QueueInv, QuietInv, Queued, QueuedIn, Distinct
<1>4. ASSUME NEW type \in Types, NEW wait \in BOOLEAN, UnscheduleEvent(type, wait) PROVE QueueQuiet'
  <2>1. /\ event_queue' \in Seq(Event) /\ Distinct(event_queue')
        /\ \A other : QueuedIn(event_queue', other) => Queued(other) /\ other # type
    BY <1>4, EraseQueue DEF UnscheduleEvent, QueueInv, Queued
  <2>2. QueueInv'
    BY <1>4, <2>1 DEF QueueInv, UnscheduleEvent, Distinct
  <2>3. /\ unscheduled' \subseteq unscheduled \cup {type} /\ unscheduling \subseteq unscheduling'
        /\ type \in unscheduled' => type \in unscheduled \/ type \in unscheduling'
    BY <1>4 DEF UnscheduleEvent
  <2>4. QuietInv'
    BY <1>4, <2>1, <2>3 DEF QuietInv, UnscheduleEvent, Queued, QueuedIn
  <2> QED
    BY <1>4, <2>2, <2>4 DEF UnscheduleEvent
<1>5. ASSUME NEW type \in Types, NEW drop \in BOOLEAN, UnscheduleReturns(type, drop) PROVE QueueQuiet'
  BY <1>5, TimingAssumption DEF UnscheduleReturns, AdvanceLockFree, QueueInv, QuietInv,
     Queued, QueuedIn, Distinct
<1>6. CASE ClearPendingEvents
  <2>1. event_queue' = <<>>
    BY <1>6 DEF ClearPendingEvents
  <2>2. event_queue' \in Seq(Event) /\ DOMAIN event_queue' = {}
    BY <2>1
  <2> QED
    BY <1>6, <2>2 DEF ClearPendingEvents, QueueInv, QuietInv, Queued, QueuedIn, Distinct
<1>7. CASE Advance
  <2>1. AdvanceLoop(event_queue) /\ UNCHANGED <<now, controlVars, clientVars>>
    BY <1>7 DEF Advance
  <2>2. event_queue \in Seq(Event) /\ Distinct(event_queue)
    BY DEF QueueInv
  <2> QED
    BY <2>1, <2>2, LoopKeepsQuiet DEF Queued
<1>8. CASE CallbackReturns
  <2>1. UNCHANGED <<now, controlVars, clientVars>>
    BY <1>8 DEF CallbackReturns
  <2>2. PICK q \in Seq(Event) : /\ Distinct(q) /\ AdvanceLoop(q)
                                /\ \A type : QueuedIn(q, type) => Queued(type)
    BY <1>8, CallbackQueue
  <2> QED
    BY <2>1, <2>2, LoopKeepsQuiet
<1>9. CASE CheckShutdown
  BY <1>9 DEF CheckShutdown, Goto, QueueInv, QuietInv, Queued, QueuedIn, Distinct
<1>10. CASE CheckPaused
  BY <1>10 DEF CheckPaused, Goto, QueueInv, QuietInv, Queued, QueuedIn, Distinct
<1>11. CASE ClearPausedSet
  BY <1>11 DEF ClearPausedSet, Goto, QueueInv, QuietInv, Queued, QueuedIn, Distinct
<1>12. CASE WaitFor
  BY <1>12 DEF WaitFor, Goto, QueueInv, QuietInv, Queued, QueuedIn, Distinct
<1>13. CASE WaitEvent
  BY <1>13 DEF WaitEvent, Goto, QueueInv, QuietInv, Queued, QueuedIn, Distinct
<1>14. CASE SetPausedSet
  BY <1>14 DEF SetPausedSet, Goto, QueueInv, QuietInv, Queued, QueuedIn, Distinct
<1>15. CASE PauseWait
  BY <1>15 DEF PauseWait, Goto, QueueInv, QuietInv, Queued, QueuedIn, Distinct
<1>16. ASSUME NEW c \in Controllers, NEW b \in BOOLEAN, SyncPause(c, b) PROVE QueueQuiet'
  BY <1>16 DEF SyncPause, Control, QueueInv, QuietInv, Queued, QueuedIn, Distinct
<1>17. ASSUME NEW c \in Controllers, CheckPausedSet(c) PROVE QueueQuiet'
  BY <1>17 DEF CheckPausedSet, Control, QueueInv, QuietInv, Queued, QueuedIn, Distinct
<1>18. ASSUME NEW c \in Controllers, SetPaused(c) PROVE QueueQuiet'
  BY <1>18 DEF SetPaused, Control, QueueInv, QuietInv, Queued, QueuedIn, Distinct
<1>19. ASSUME NEW c \in Controllers, PauseEventSet(c) PROVE QueueQuiet'
  BY <1>19 DEF PauseEventSet, Control, QueueInv, QuietInv, Queued, QueuedIn, Distinct
<1>20. ASSUME NEW c \in Controllers, SetPauseEndTime(c) PROVE QueueQuiet'
  BY <1>20 DEF SetPauseEndTime, Control, QueueInv, QuietInv, Queued, QueuedIn, Distinct
<1>21. ASSUME NEW c \in Controllers, PauseEventSetAgain(c) PROVE QueueQuiet'
  BY <1>21 DEF PauseEventSetAgain, Control, QueueInv, QuietInv, Queued, QueuedIn, Distinct
<1>22. ASSUME NEW c \in Controllers, EventSet(c) PROVE QueueQuiet'
  BY <1>22 DEF EventSet, Control, QueueInv, QuietInv, Queued, QueuedIn, Distinct
<1>23. ASSUME NEW c \in Controllers, Spin(c) PROVE QueueQuiet'
  BY <1>23 DEF Spin, Control, QueueInv, QuietInv, Queued, QueuedIn, Distinct
<1>24. CASE ResetPaused
  BY <1>24 DEF ResetPaused, Control, QueueInv, QuietInv, Queued, QueuedIn, Distinct
<1>25. CASE ResetShuttingDown
  BY <1>25 DEF ResetShuttingDown, Control, QueueInv, QuietInv, Queued, QueuedIn, Distinct
<1>26. CASE ResetPauseEventSet
  BY <1>26 DEF ResetPauseEventSet, Control, QueueInv, QuietInv, Queued, QueuedIn, Distinct
<1>27. CASE ResetEventSet
  BY <1>27 DEF ResetEventSet, Control, QueueInv, QuietInv, Queued, QueuedIn, Distinct
<1>28. CASE Join
  BY <1>28 DEF Join, Control, QueueInv, QuietInv, Queued, QueuedIn, Distinct
<1>29. CASE UNCHANGED timingVars
  BY <1>29 DEF timingVars, QueueInv, QuietInv, Queued, QueuedIn, Distinct
<1> QED
  BY <1>1, <1>2, <1>3, <1>4, <1>5, <1>6, <1>7, <1>8, <1>9, <1>10, <1>11, <1>12, <1>13, <1>14,
     <1>15, <1>16, <1>17, <1>18, <1>19, <1>20, <1>21, <1>22, <1>23, <1>24, <1>25, <1>26, <1>27,
     <1>28, <1>29
     DEF TimingNext, ThreadLoop, SyncPauseStep, ResetStep

-----------------------------------------------------------------------------
(* The pause handshake                                                     *)

LEMMA PauseStep == QueueQuiet /\ PauseInv /\ [TimingNext]_timingVars => PauseInv'
<1> SUFFICES ASSUME QueueInv, PauseInv, [TimingNext]_timingVars PROVE PauseInv'
  BY DEF QueueQuiet
<1> USE DEF PauseInv, FlagsInv, Handshake, Agreeing, flagVars, controlVars, Controllers,
   Argument, Returned
<1>1. CASE TimingTick
  BY <1>1 DEF TimingTick, ClockTicks
<1>2. ASSUME NEW type \in Types, NEW delay \in Delays, ScheduleEvent(type, delay) PROVE PauseInv'
  BY <1>2 DEF ScheduleEvent
<1>3. CASE NotifyTimerThread
  BY <1>3 DEF NotifyTimerThread
<1>4. ASSUME NEW type \in Types, NEW wait \in BOOLEAN, UnscheduleEvent(type, wait) PROVE PauseInv'
  BY <1>4 DEF UnscheduleEvent
<1>5. ASSUME NEW type \in Types, NEW drop \in BOOLEAN, UnscheduleReturns(type, drop) PROVE PauseInv'
  BY <1>5 DEF UnscheduleReturns
<1>6. CASE ClearPendingEvents
  BY <1>6 DEF ClearPendingEvents
<1>7. CASE Advance
  <2>1. pc' \in {"callback", "wait_for", "wait", "spinning"}
    BY <1>7, AdvanceQueue DEF Advance, QueueInv
  <2> QED
    BY <1>7, <2>1 DEF Advance
<1>8. CASE CallbackReturns
  <2>1. pc' \in {"callback", "wait_for", "wait", "spinning"}
    BY <1>8, CallbackQueue, AdvanceQueue DEF QueueInv
  <2> QED
    BY <1>8, <2>1 DEF CallbackReturns
<1>9. CASE CheckShutdown
  BY <1>9 DEF CheckShutdown, Goto
<1>10. CASE CheckPaused
  BY <1>10 DEF CheckPaused, Goto
<1>11. CASE ClearPausedSet
  BY <1>11 DEF ClearPausedSet, Goto
<1>12. CASE WaitFor
  BY <1>12 DEF WaitFor, Goto
<1>13. CASE WaitEvent
  BY <1>13 DEF WaitEvent, Goto
<1>14. CASE SetPausedSet
  BY <1>14 DEF SetPausedSet, Goto
<1>15. CASE PauseWait
  BY <1>15 DEF PauseWait, Goto
<1>16. ASSUME NEW c \in Controllers, NEW b \in BOOLEAN, SyncPause(c, b) PROVE PauseInv'
  BY <1>16 DEF SyncPause, Control
<1>17. ASSUME NEW c \in Controllers, CheckPausedSet(c) PROVE PauseInv'
  BY <1>17 DEF CheckPausedSet, Control
<1>18. ASSUME NEW c \in Controllers, SetPaused(c) PROVE PauseInv'
  BY <1>18 DEF SetPaused, Control
<1>19. ASSUME NEW c \in Controllers, PauseEventSet(c) PROVE PauseInv'
  BY <1>19 DEF PauseEventSet, Control
<1>20. ASSUME NEW c \in Controllers, SetPauseEndTime(c) PROVE PauseInv'
  BY <1>20 DEF SetPauseEndTime, Control
<1>21. ASSUME NEW c \in Controllers, PauseEventSetAgain(c) PROVE PauseInv'
  BY <1>21 DEF PauseEventSetAgain, Control
<1>22. ASSUME NEW c \in Controllers, EventSet(c) PROVE PauseInv'
  BY <1>22 DEF EventSet, Control
<1>23. ASSUME NEW c \in Controllers, Spin(c) PROVE PauseInv'
  BY <1>23 DEF Spin, Control
<1>24. CASE ResetPaused
  BY <1>24 DEF ResetPaused, Control
<1>25. CASE ResetShuttingDown
  BY <1>25 DEF ResetShuttingDown, Control
<1>26. CASE ResetPauseEventSet
  BY <1>26 DEF ResetPauseEventSet, Control
<1>27. CASE ResetEventSet
  BY <1>27 DEF ResetEventSet, Control
<1>28. CASE Join
  BY <1>28 DEF Join, Control
<1>29. CASE UNCHANGED timingVars
  BY <1>29 DEF timingVars
<1> QED
  BY <1>1, <1>2, <1>3, <1>4, <1>5, <1>6, <1>7, <1>8, <1>9, <1>10, <1>11, <1>12, <1>13, <1>14,
     <1>15, <1>16, <1>17, <1>18, <1>19, <1>20, <1>21, <1>22, <1>23, <1>24, <1>25, <1>26, <1>27,
     <1>28, <1>29
     DEF TimingNext, ThreadLoop, SyncPauseStep, ResetStep

-----------------------------------------------------------------------------
(* Wake-ups                                                                *)

Awake == FlagsInv /\ WakeInv /\ ResetInv

LEMMA AwakeStep == QueueQuiet /\ PauseInv /\ Awake /\ [TimingNext]_timingVars => Awake'
<1> SUFFICES ASSUME QueueInv, PauseInv', Awake, [TimingNext]_timingVars PROVE Awake'
  BY PauseStep DEF QueueQuiet
<1> USE DEF Awake, PauseInv, FlagsInv, WakeInv, Telling, Somewhere, ResetInv, Resetting,
   flagVars, controlVars, Controllers, Argument, Returned
<1>1. CASE TimingTick
  BY <1>1 DEF TimingTick, ClockTicks
<1>2. ASSUME NEW type \in Types, NEW delay \in Delays, ScheduleEvent(type, delay) PROVE Awake'
  BY <1>2 DEF ScheduleEvent
<1>3. CASE NotifyTimerThread
  BY <1>3 DEF NotifyTimerThread
<1>4. ASSUME NEW type \in Types, NEW wait \in BOOLEAN, UnscheduleEvent(type, wait) PROVE Awake'
  BY <1>4 DEF UnscheduleEvent
<1>5. ASSUME NEW type \in Types, NEW drop \in BOOLEAN, UnscheduleReturns(type, drop) PROVE Awake'
  BY <1>5 DEF UnscheduleReturns
<1>6. CASE ClearPendingEvents
  BY <1>6 DEF ClearPendingEvents
<1>7. CASE Advance
  <2>1. pc' \in {"callback", "wait_for", "wait", "spinning"}
    BY <1>7, AdvanceQueue DEF Advance, QueueInv
  <2> QED
    BY <1>7, <2>1 DEF Advance
<1>8. CASE CallbackReturns
  <2>1. pc' \in {"callback", "wait_for", "wait", "spinning"}
    BY <1>8, CallbackQueue, AdvanceQueue DEF QueueInv
  <2> QED
    BY <1>8, <2>1 DEF CallbackReturns
<1>9. CASE CheckShutdown
  BY <1>9 DEF CheckShutdown, Goto
<1>10. CASE CheckPaused
  BY <1>10 DEF CheckPaused, Goto
<1>11. CASE ClearPausedSet
  BY <1>11 DEF ClearPausedSet, Goto
<1>12. CASE WaitFor
  BY <1>12 DEF WaitFor, Goto
<1>13. CASE WaitEvent
  BY <1>13 DEF WaitEvent, Goto
<1>14. CASE SetPausedSet
  BY <1>14 DEF SetPausedSet, Goto
<1>15. CASE PauseWait
  BY <1>15 DEF PauseWait, Goto
<1>16. ASSUME NEW c \in Controllers, NEW b \in BOOLEAN, SyncPause(c, b) PROVE Awake'
  BY <1>16 DEF SyncPause, Control
<1>17. ASSUME NEW c \in Controllers, CheckPausedSet(c) PROVE Awake'
  BY <1>17 DEF CheckPausedSet, Control
<1>18. ASSUME NEW c \in Controllers, SetPaused(c) PROVE Awake'
  BY <1>18 DEF SetPaused, Control
<1>19. ASSUME NEW c \in Controllers, PauseEventSet(c) PROVE Awake'
  BY <1>19 DEF PauseEventSet, Control
<1>20. ASSUME NEW c \in Controllers, SetPauseEndTime(c) PROVE Awake'
  BY <1>20 DEF SetPauseEndTime, Control
<1>21. ASSUME NEW c \in Controllers, PauseEventSetAgain(c) PROVE Awake'
  BY <1>21 DEF PauseEventSetAgain, Control
<1>22. ASSUME NEW c \in Controllers, EventSet(c) PROVE Awake'
  BY <1>22 DEF EventSet, Control
<1>23. ASSUME NEW c \in Controllers, Spin(c) PROVE Awake'
  BY <1>23 DEF Spin, Control
<1>24. CASE ResetPaused
  BY <1>24 DEF ResetPaused, Control
<1>25. CASE ResetShuttingDown
  BY <1>25 DEF ResetShuttingDown, Control
<1>26. CASE ResetPauseEventSet
  BY <1>26 DEF ResetPauseEventSet, Control
<1>27. CASE ResetEventSet
  BY <1>27 DEF ResetEventSet, Control
<1>28. CASE Join
  BY <1>28 DEF Join, Control
<1>29. CASE UNCHANGED timingVars
  BY <1>29 DEF timingVars
<1> QED
  BY <1>1, <1>2, <1>3, <1>4, <1>5, <1>6, <1>7, <1>8, <1>9, <1>10, <1>11, <1>12, <1>13, <1>14,
     <1>15, <1>16, <1>17, <1>18, <1>19, <1>20, <1>21, <1>22, <1>23, <1>24, <1>25, <1>26, <1>27,
     <1>28, <1>29
     DEF TimingNext, ThreadLoop, SyncPauseStep, ResetStep

-----------------------------------------------------------------------------
(* The theorems                                                            *)

LEMMA InitQueueQuiet == TimingInit => QueueQuiet
<1> SUFFICES ASSUME TimingInit PROVE QueueQuiet
  OBVIOUS
<1>1. event_queue = <<>> /\ <<>> \in Seq(Event) /\ DOMAIN event_queue = {}
  BY DEF TimingInit
<1> QED
  BY <1>1, TimingAssumption DEF TimingInit, QueueQuiet, QueueInv, QuietInv, Queued, QueuedIn,
     Distinct

\* Once UnscheduleEvent(Wait) has returned, the event's callback is not running
\* and does not run until it is scheduled anew, even if it was running, looping
\* and about to be put back when it was unscheduled, and whoever schedules the
\* type meanwhile.
THEOREM UnscheduleIsFinal == TimingSpec => []UnscheduledStaysQuiet
<1>1. QueueQuiet => UnscheduledStaysQuiet
  BY DEF QueueQuiet, QuietInv, UnscheduledStaysQuiet
<1> QED
  BY <1>1, InitQueueQuiet, QueueQuietStep, PTL DEF TimingSpec

LEMMA InitPause == TimingInit => PauseInv /\ Awake
<1> SUFFICES ASSUME TimingInit PROVE PauseInv /\ Awake
  OBVIOUS
<1>1. control["guarded"] = "idle" /\ control["shutdown"] = "idle" /\ DOMAIN control = Controllers
  BY DEF TimingInit, Controllers
<1> QED
  BY <1>1 DEF TimingInit, PauseInv, FlagsInv, Handshake, Agreeing, Awake, WakeInv, ResetInv,
              Resetting

\* No callback runs from the return of a SyncPause(true) on to the next
\* SyncPause(false), until the shutdown begins, if the timer thread had come to
\* its first pause when it was first resumed.
THEOREM PauseIsQuiet == TimingSpec => []PausedMeansQuiet
<1>1. (QueueQuiet /\ PauseInv) /\ [TimingNext]_timingVars => (QueueQuiet /\ PauseInv)'
  BY QueueQuietStep, PauseStep
<1>2. QueueQuiet /\ PauseInv => PausedMeansQuiet
  BY DEF QueueQuiet, QueueInv, PauseInv, FlagsInv, Handshake, PausedMeansQuiet
<1> QED
  BY <1>1, <1>2, InitQueueQuiet, InitPause, PTL DEF TimingSpec

\* SyncPause and Reset never wait for a timer thread that sleeps, from its
\* start on and with two controllers at work.
THEOREM ControllersAreAnswered == TimingSpec => []NobodyWaitsForASleeper
<1> DEFINE All == QueueQuiet /\ PauseInv /\ Awake
<1>1. TimingInit => All
  BY InitQueueQuiet, InitPause
<1>2. All /\ [TimingNext]_timingVars => All'
  BY QueueQuietStep, PauseStep, AwakeStep
<1>3. All => NobodyWaitsForASleeper
  <2> SUFFICES ASSUME Awake, NEW c \in Controllers, Expecting(c), Blocked,
                      \A d \in Controllers : control[d] \in {"idle", "closing", "spin", "join"}
               PROVE  FALSE
    BY DEF NobodyWaitsForASleeper
  <2>1. ~Somewhere(Telling) /\ ~Somewhere({"pause_set"})
    BY DEF Somewhere, Telling
  <2>2. CASE control[c] = "spin" /\ paused = Argument(c) /\ paused_set # Argument(c)
    BY <2>1, <2>2 DEF Awake, FlagsInv, WakeInv, Blocked
  <2>3. CASE control[c] = "join" /\ pc # "exited"
    BY <2>1, <2>3 DEF Awake, FlagsInv, WakeInv, ResetInv, Resetting, Controllers, Blocked
  <2> QED
    BY <2>2, <2>3 DEF Expecting
<1> QED
  BY <1>1, <1>2, <1>3, PTL DEF TimingSpec
=============================================================================
