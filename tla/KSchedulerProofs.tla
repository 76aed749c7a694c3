-------------------------- MODULE KSchedulerProofs --------------------------
(***************************************************************************)
(* For any number of threads and cores: no thread is executed by two       *)
(* cores, the queues agree with the threads, and no choice of a thread is  *)
(* missed by its core.                                                     *)
(*                                                                         *)
(* What the queues hold is a matter of sets (Ordered): a queue lists the   *)
(* members of a set in the order of their priorities.  Each operation of   *)
(* the priority queue, and with it each critical section, is then a change *)
(* of the threads' state, active core, mask or priority (QueueInv).  The   *)
(* update at the end of a section makes the fronts of the queues the       *)
(* chosen threads, and says which cores it has chosen anew.                *)
(***************************************************************************)
EXTENDS KScheduler, WellFoundedInduction, TLAPS

\* q lists the members of S, each once, in the order of the priorities pr.
Ordered(q, S, pr) ==
  /\ q \in Seq(Threads)
  /\ \A i \in 1..Len(q) : q[i] \in S
  /\ \A t \in S : \E i \in 1..Len(q) : q[i] = t
  /\ \A i, j \in 1..Len(q) : i < j => q[i] # q[j] /\ pr[q[i]] <= pr[q[j]]

-----------------------------------------------------------------------------
(* Minima and sequences                                                    *)

LEMMA MinIsLeast ==
    ASSUME NEW S \in SUBSET Nat, S # {}
    PROVE  Min(S) \in S /\ \A x \in S : Min(S) <= x
<1>1. PICK x \in S : \A y \in S : ~(<<y, x>> \in OpToRel(<, Nat))
  BY NatLessThanWellFounded, WFMin
<1>2. ASSUME NEW y \in S PROVE x <= y
  <2>1. x \in Nat /\ y \in Nat /\ ~(<<y, x>> \in OpToRel(<, Nat))
    BY <1>1
  <2>2. ~(y < x)
    BY <2>1 DEF OpToRel
  <2>3. x \in Nat /\ y \in Nat
    BY <2>1
  <2> QED
    BY <2>2, <2>3
<1> QED
  BY <1>2 DEF Min

\* s without the entries from a to b - 1
LEMMA CutEntries ==
    ASSUME NEW T, NEW s \in Seq(T), NEW a \in 1..Len(s) + 1, NEW b \in a..Len(s) + 1
    PROVE  LET r == SubSeq(s, 1, a - 1) \o SubSeq(s, b, Len(s)) IN
           /\ r \in Seq(T) /\ Len(r) = Len(s) - (b - a)
           /\ \A i \in 1..Len(r) : r[i] = IF i < a THEN s[i] ELSE s[i + (b - a)]
<1> DEFINE p == SubSeq(s, 1, a - 1)
           q == SubSeq(s, b, Len(s))
<1>1. p \in Seq(T) /\ Len(p) = a - 1 /\ \A i \in 1..a - 1 : p[i] = s[i]
  OBVIOUS
<1>2. q \in Seq(T) /\ Len(q) = Len(s) + 1 - b /\ \A i \in 1..Len(s) + 1 - b : q[i] = s[i + b - 1]
  OBVIOUS
<1>0. Len(s) \in Nat /\ a \in Nat /\ b \in Nat /\ 1 <= a /\ a <= b /\ b <= Len(s) + 1
  OBVIOUS
<1> HIDE DEF p, q
<1>3. p \o q \in Seq(T) /\ Len(p \o q) = Len(s) - (b - a)
  <2>0. p \in Seq(T) /\ q \in Seq(T)
    BY <1>1, <1>2
  <2>1. p \o q \in Seq(T) /\ Len(p \o q) = Len(p) + Len(q)
    BY <2>0
  <2> QED
    BY <1>0, <1>1, <1>2, <2>1
<1>4. ASSUME NEW i \in 1..Len(p \o q)
      PROVE  (p \o q)[i] = IF i < a THEN s[i] ELSE s[i + (b - a)]
  <2>1. CASE i < a
    BY <1>1, <1>2, <2>1
  <2>2. CASE ~(i < a)
    <3>1. (p \o q)[i] = q[i - Len(p)]
      BY <1>1, <1>2, <1>3, <2>2
    <3> QED
      BY <1>1, <1>2, <1>3, <2>2, <3>1
  <2> QED
    BY <2>1, <2>2
<1> QED
  BY <1>3, <1>4 DEF p, q

LEMMA InsertEntry ==
    ASSUME NEW T, NEW s \in Seq(T), NEW a \in 1..Len(s) + 1, NEW e \in T
    PROVE  /\ InsertAt(s, a, e) \in Seq(T) /\ Len(InsertAt(s, a, e)) = Len(s) + 1
           /\ \A i \in 1..Len(s) + 1 :
                InsertAt(s, a, e)[i] = IF i < a THEN s[i] ELSE IF i = a THEN e ELSE s[i - 1]
<1> DEFINE p == SubSeq(s, 1, a - 1)
           q == SubSeq(s, a, Len(s))
<1>1. p \in Seq(T) /\ Len(p) = a - 1 /\ \A i \in 1..a - 1 : p[i] = s[i]
  OBVIOUS
<1>2. q \in Seq(T) /\ Len(q) = Len(s) + 1 - a /\ \A i \in 1..Len(s) + 1 - a : q[i] = s[i + a - 1]
  OBVIOUS
<1>0. Len(s) \in Nat /\ a \in Nat /\ 1 <= a /\ a <= Len(s) + 1
  OBVIOUS
<1>3. InsertAt(s, a, e) = p \o <<e>> \o q
  BY DEF InsertAt
<1> HIDE DEF p, q
<1>4. p \o <<e>> \in Seq(T) /\ Len(p \o <<e>>) = a /\ (p \o <<e>>)[a] = e
      /\ \A i \in 1..a - 1 : (p \o <<e>>)[i] = s[i]
  BY <1>1
<1> DEFINE pe == p \o <<e>>
<1> HIDE DEF pe
<1>5. pe \in Seq(T) /\ Len(pe) = a /\ pe[a] = e /\ \A i \in 1..a - 1 : pe[i] = s[i]
  BY <1>4 DEF pe
<1>6. pe \o q \in Seq(T) /\ Len(pe \o q) = Len(s) + 1
  BY <1>0, <1>2, <1>5
<1>7. ASSUME NEW i \in 1..Len(s) + 1
      PROVE  (pe \o q)[i] = IF i < a THEN s[i] ELSE IF i = a THEN e ELSE s[i - 1]
  <2>1. CASE i <= a
    BY <1>2, <1>5, <2>1
  <2>2. CASE i > a
    <3>1. (pe \o q)[i] = q[i - Len(pe)]
      BY <1>2, <1>5, <1>6, <2>2
    <3> QED
      BY <1>2, <1>5, <2>2, <3>1
  <2>3. i <= a \/ i > a
    BY <1>0
  <2> QED
    BY <2>1, <2>2, <2>3
<1> QED
  BY <1>3, <1>6, <1>7 DEF pe

-----------------------------------------------------------------------------
(* Queues                                                                  *)

\* r is q with t as its m-th member.
Inserted(r, q, m, t) ==
  /\ r \in Seq(Threads) /\ Len(r) = Len(q) + 1
  /\ \A i \in 1..Len(q) + 1 :
       /\ i < m => i \in 1..Len(q) /\ r[i] = q[i]
       /\ i = m => r[i] = t
       /\ i > m => i - 1 \in 1..Len(q) /\ r[i] = q[i - 1]

IsPlace(m, P, n) == (m \in P \/ m = n + 1) /\ \A i \in P : m <= i

LEMMA InsertShape ==
  ASSUME NEW q \in Seq(Threads), NEW P \in SUBSET (1..Len(q)), NEW t \in Threads
  PROVE  \E m \in 1..Len(q) + 1 : IsPlace(m, P, Len(q)) /\ Inserted(InsertBefore(q, P, t), q, m, t)
<1> DEFINE n == Len(q)
           m == Min(P \cup {n + 1})
           r == InsertBefore(q, P, t)
<1>1. n \in Nat
  OBVIOUS
<1>2. P \cup {n + 1} \in SUBSET Nat /\ P \cup {n + 1} # {}
  <2>1. n + 1 \in Nat /\ \A i \in 1..n : i \in Nat
    BY <1>1
  <2> QED
    BY <2>1
<1>3. m \in P \cup {n + 1} /\ \A k \in P \cup {n + 1} : m <= k
  BY <1>2, MinIsLeast
<1>4. r = InsertAt(q, m, t)
  BY DEF InsertBefore
<1> HIDE DEF m, r
<1>5. m \in 1..Len(q) + 1
  BY <1>1, <1>3
<1>6. /\ InsertAt(q, m, t) \in Seq(Threads) /\ Len(InsertAt(q, m, t)) = Len(q) + 1
      /\ \A i \in 1..Len(q) + 1 :
           InsertAt(q, m, t)[i] = IF i < m THEN q[i] ELSE IF i = m THEN t ELSE q[i - 1]
  BY <1>5, InsertEntry
<1>7. /\ r \in Seq(Threads) /\ Len(r) = n + 1
      /\ \A i \in 1..n + 1 : r[i] = IF i < m THEN q[i] ELSE IF i = m THEN t ELSE q[i - 1]
  BY <1>4, <1>6, Zenon
<1>8. ASSUME NEW i \in 1..n + 1
      PROVE  /\ i < m => i \in 1..n /\ r[i] = q[i]
             /\ i = m => r[i] = t
             /\ i > m => i - 1 \in 1..n /\ r[i] = q[i - 1]
  <2>1. r[i] = IF i < m THEN q[i] ELSE IF i = m THEN t ELSE q[i - 1]
    BY <1>7
  <2>2. m \in 1..n + 1 /\ n \in Nat
    BY <1>1, <1>5
  <2> HIDE DEF n
  <2> QED
    BY <2>1, <2>2
<1>9. IsPlace(m, P, n)
  BY <1>3 DEF IsPlace
<1>10. Inserted(r, q, m, t)
  BY <1>7, <1>8 DEF Inserted
<1> QED
  BY <1>5, <1>9, <1>10 DEF r

\* t is put where the priorities before it are not lower and those after it not
\* higher.
LEMMA InsertOrdered ==
  ASSUME NEW pr \in [Threads -> Nat], NEW S \in SUBSET Threads, NEW t \in Threads \ S,
         NEW q, Ordered(q, S, pr), NEW P \in SUBSET (1..Len(q)),
         \A i \in P : pr[q[i]] >= pr[t],
         \A i \in 1..Len(q) : i \notin P => pr[q[i]] <= pr[t]
  PROVE  /\ Ordered(InsertBefore(q, P, t), S \cup {t}, pr)
         /\ GetFront(InsertBefore(q, P, t)) = IF Len(q) = 0 \/ 1 \in P THEN t ELSE GetFront(q)
<1> DEFINE n == Len(q)
           r == InsertBefore(q, P, t)
<1>1. /\ n \in Nat /\ q \in Seq(Threads)
      /\ \A i \in 1..n : q[i] \in S /\ q[i] \in Threads /\ pr[q[i]] \in Nat
      /\ pr[t] \in Nat
  BY DEF Ordered
<1>2. PICK m \in 1..n + 1 : IsPlace(m, P, n) /\ Inserted(r, q, m, t)
  BY <1>1, InsertShape
<1>3. (m \in P \/ m = n + 1) /\ (\A i \in P : m <= i)
  BY <1>2 DEF IsPlace
<1> HIDE DEF r
<1>5. m \in 1..Len(q) + 1
  OBVIOUS
<1>7. r \in Seq(Threads) /\ Len(r) = n + 1
  BY <1>2 DEF Inserted
<1>8. ASSUME NEW i \in 1..n + 1
      PROVE  /\ i < m => i \in 1..n /\ r[i] = q[i]
             /\ i = m => r[i] = t
             /\ i > m => i - 1 \in 1..n /\ r[i] = q[i - 1]
  BY <1>2 DEF Inserted
<1>9. ASSUME NEW i \in 1..n, i < m PROVE pr[q[i]] <= pr[t]
  <2>1. i \notin P
    BY <1>1, <1>3, <1>5, <1>9
  <2> QED
    BY <2>1
<1>10. ASSUME NEW i \in 1..n, i >= m PROVE pr[q[i]] >= pr[t]
  <2>1. m \in P /\ m \in 1..n
    BY <1>1, <1>3, <1>5, <1>10
  <2>2. m = i \/ pr[q[m]] <= pr[q[i]]
    BY <1>1, <1>10, <2>1 DEF Ordered
  <2> QED
    BY <1>1, <2>1, <2>2
<1>11. ASSUME NEW i \in 1..n + 1 PROVE r[i] \in S \cup {t}
  <2>1. i < m \/ i = m \/ i > m
    BY <1>1, <1>5
  <2> QED
    BY <1>1, <1>8, <2>1
<1>12. ASSUME NEW u \in S \cup {t} PROVE \E i \in 1..n + 1 : r[i] = u
  <2>1. CASE u = t
    BY <1>5, <1>8, <2>1
  <2>2. CASE u \in S
    <3>1. PICK i \in 1..n : q[i] = u
      BY <2>2 DEF Ordered
    <3>2. CASE i < m
      BY <1>1, <1>8, <3>1, <3>2
    <3>3. CASE i >= m
      <4>1. i + 1 \in 1..n + 1 /\ i + 1 > m /\ (i + 1) - 1 = i
        BY <1>1, <1>5, <3>3
      <4>2. r[i + 1] = q[(i + 1) - 1]
        BY <1>8, <4>1
      <4> QED
        BY <3>1, <4>1, <4>2
    <3> QED
      BY <1>1, <1>5, <3>2, <3>3
  <2> QED
    BY <2>1, <2>2
<1>13. ASSUME NEW i \in 1..n + 1, NEW j \in 1..n + 1, i < j
       PROVE  r[i] # r[j] /\ pr[r[i]] <= pr[r[j]]
  <2>1. CASE j < m
    <3>1. r[i] = q[i] /\ r[j] = q[j] /\ i \in 1..n /\ j \in 1..n
      BY <1>1, <1>5, <1>8, <1>13, <2>1
    <3> QED
      BY <1>13, <3>1 DEF Ordered
  <2>2. CASE j = m
    <3>1. r[i] = q[i] /\ r[j] = t /\ i \in 1..n
      BY <1>1, <1>5, <1>8, <1>13, <2>2
    <3> QED
      BY <1>1, <1>9, <1>13, <2>2, <3>1
  <2>3. CASE j > m /\ i < m
    <3>1. r[i] = q[i] /\ r[j] = q[j - 1] /\ i \in 1..n /\ j - 1 \in 1..n /\ i < j - 1
      BY <1>1, <1>5, <1>8, <1>13, <2>3
    <3> QED
      BY <3>1 DEF Ordered
  <2>4. CASE j > m /\ i = m
    <3>1. r[i] = t /\ r[j] = q[j - 1] /\ j - 1 \in 1..n /\ j - 1 >= m
      BY <1>1, <1>5, <1>8, <1>13, <2>4
    <3>2. pr[q[j - 1]] >= pr[t]
      BY <1>10, <3>1
    <3> QED
      BY <1>1, <3>1, <3>2
  <2>5. CASE j > m /\ i > m
    <3>1. r[i] = q[i - 1] /\ r[j] = q[j - 1] /\ i - 1 \in 1..n /\ j - 1 \in 1..n /\ i - 1 < j - 1
      BY <1>1, <1>5, <1>8, <1>13, <2>5
    <3> QED
      BY <3>1 DEF Ordered
  <2> QED
    BY <1>1, <1>5, <2>1, <2>2, <2>3, <2>4, <2>5
<1>14. Ordered(r, S \cup {t}, pr)
  BY <1>7, <1>11, <1>12, <1>13 DEF Ordered
<1>15. GetFront(r) = r[1]
  BY <1>1, <1>7 DEF GetFront
<1>16. GetFront(r) = IF n = 0 \/ 1 \in P THEN t ELSE GetFront(q)
  <2>1. CASE n = 0 \/ 1 \in P
    <3>1. m = 1 /\ 1 \in 1..n + 1
      BY <1>1, <1>3, <1>5, <2>1
    <3> QED
      BY <1>8, <1>15, <2>1, <3>1
  <2>2. CASE ~(n = 0 \/ 1 \in P)
    <3>1. 1 < m /\ 1 \in 1..n + 1 /\ q # <<>>
      BY <1>1, <1>3, <1>5, <2>2
    <3>2. r[1] = q[1]
      BY <1>8, <3>1
    <3> QED
      BY <1>1, <1>15, <2>2, <3>1, <3>2 DEF GetFront
  <2> QED
    BY <2>1, <2>2
<1> QED
  BY <1>14, <1>16 DEF r

LEMMA InsertBackOrdered ==
  ASSUME NEW pr \in [Threads -> Nat], NEW S \in SUBSET Threads, NEW t \in Threads \ S,
         NEW q, Ordered(q, S, pr)
  PROVE  /\ Ordered(InsertBack(q, t, pr), S \cup {t}, pr)
         /\ GetFront(InsertBack(q, t, pr)) =
              IF Len(q) = 0 \/ pr[q[1]] > pr[t] THEN t ELSE GetFront(q)
<1> DEFINE P == {i \in 1..Len(q) : pr[q[i]] > pr[t]}
<1>1. /\ Len(q) \in Nat /\ \A i \in 1..Len(q) : q[i] \in Threads /\ pr[q[i]] \in Nat
      /\ pr[t] \in Nat
  BY DEF Ordered
<1>2. P \in SUBSET (1..Len(q)) /\ (\A i \in P : pr[q[i]] >= pr[t])
      /\ \A i \in 1..Len(q) : i \notin P => pr[q[i]] <= pr[t]
  BY <1>1
<1>3. InsertBack(q, t, pr) = InsertBefore(q, P, t)
  BY DEF InsertBack
<1>4. (Len(q) = 0 \/ 1 \in P) <=> (Len(q) = 0 \/ pr[q[1]] > pr[t])
  BY <1>1
<1> HIDE DEF P
<1>5. /\ Ordered(InsertBefore(q, P, t), S \cup {t}, pr)
      /\ GetFront(InsertBefore(q, P, t)) = IF Len(q) = 0 \/ 1 \in P THEN t ELSE GetFront(q)
  BY <1>2, InsertOrdered, SMTT(20)
<1> QED
  BY <1>3, <1>4, <1>5

LEMMA InsertFrontOrdered ==
  ASSUME NEW pr \in [Threads -> Nat], NEW S \in SUBSET Threads, NEW t \in Threads \ S,
         NEW q, Ordered(q, S, pr)
  PROVE  Ordered(InsertFront(q, t, pr), S \cup {t}, pr)
<1> DEFINE P == {i \in 1..Len(q) : pr[q[i]] >= pr[t]}
<1>1. /\ Len(q) \in Nat /\ \A i \in 1..Len(q) : q[i] \in Threads /\ pr[q[i]] \in Nat
      /\ pr[t] \in Nat
  BY DEF Ordered
<1>2. P \in SUBSET (1..Len(q)) /\ (\A i \in P : pr[q[i]] >= pr[t])
      /\ \A i \in 1..Len(q) : i \notin P => pr[q[i]] <= pr[t]
  BY <1>1
<1>3. InsertFront(q, t, pr) = InsertBefore(q, P, t)
  BY DEF InsertFront
<1> HIDE DEF P
<1> QED
  BY <1>2, <1>3, InsertOrdered

LEMMA RemoveOrdered ==
  ASSUME NEW pr, NEW S \in SUBSET Threads, NEW t \in S, NEW q, Ordered(q, S, pr)
  PROVE  /\ Ordered(RemoveFirst(q, t), S \ {t}, pr)
         /\ GetFront(q) # t => GetFront(RemoveFirst(q, t)) = GetFront(q)
         /\ GetFront(q) = t => GetFront(RemoveFirst(q, t)) = GetNext(q, t)
<1> DEFINE n == Len(q)
           I == {i \in 1..Len(q) : q[i] = t}
           m == Min(I)
           r == RemoveFirst(q, t)
<1>1. n \in Nat /\ q \in Seq(Threads) /\ (\A i \in 1..n : q[i] \in S /\ q[i] \in Threads)
  BY DEF Ordered
<1>2. \E i \in 1..n : q[i] = t
  BY DEF Ordered
<1>3. I \in SUBSET Nat /\ I # {}
  BY <1>1, <1>2
<1>4. m \in I
  BY <1>3, MinIsLeast
<1>5. r = RemoveAt(q, m)
  BY <1>2, <1>3 DEF RemoveFirst, SelectInSeq
<1> HIDE DEF m, r
<1>6. m \in 1..n /\ q[m] = t
  BY <1>4
<1>7. \A i \in 1..n : q[i] = t => i = m
  <2> SUFFICES ASSUME NEW i \in 1..n, q[i] = t, i # m PROVE FALSE
    OBVIOUS
  <2>1. i < m \/ m < i
    BY <1>1, <1>6
  <2> QED
    BY <1>6, <2>1 DEF Ordered
<1>8. /\ r \in Seq(Threads) /\ Len(r) = n - 1
      /\ \A i \in 1..n - 1 : r[i] = IF i < m THEN q[i] ELSE q[i + 1]
  <2> DEFINE x == SubSeq(q, 1, m - 1) \o SubSeq(q, m + 1, Len(q))
  <2>1. m \in 1..Len(q) + 1 /\ m + 1 \in m..Len(q) + 1
    BY <1>1, <1>6
  <2>2. /\ x \in Seq(Threads) /\ Len(x) = Len(q) - ((m + 1) - m)
        /\ \A i \in 1..Len(x) : x[i] = IF i < m THEN q[i] ELSE q[i + ((m + 1) - m)]
    BY <1>1, <2>1, CutEntries
  <2>3. r = x
    BY <1>5 DEF RemoveAt
  <2> HIDE DEF x
  <2>4. (m + 1) - m = 1
    BY <1>1, <1>6
  <2> QED
    BY <2>2, <2>3, <2>4
<1>9. ASSUME NEW i \in 1..n - 1
      PROVE  /\ i \in 1..n /\ i + 1 \in 1..n
             /\ i < m => r[i] = q[i]
             /\ i >= m => r[i] = q[i + 1]
  <2>1. r[i] = IF i < m THEN q[i] ELSE q[i + 1]
    BY <1>8
  <2>2. m \in 1..n /\ n \in Nat
    BY <1>1, <1>6
  <2> HIDE DEF n
  <2> QED
    BY <2>1, <2>2
<1>10. ASSUME NEW i \in 1..n - 1 PROVE r[i] \in S \ {t}
  <2>1. CASE i < m
    BY <1>1, <1>6, <1>7, <1>9, <2>1
  <2>2. CASE i >= m
    <3>1. i + 1 \in 1..n /\ i + 1 # m /\ r[i] = q[i + 1]
      BY <1>1, <1>6, <1>9, <2>2
    <3> QED
      BY <1>1, <1>7, <3>1
  <2> QED
    BY <1>1, <1>6, <2>1, <2>2
<1>11. ASSUME NEW u \in S \ {t} PROVE \E i \in 1..n - 1 : r[i] = u
  <2>1. PICK i \in 1..n : q[i] = u
    BY DEF Ordered
  <2>2. i # m
    BY <1>6, <2>1
  <2>3. CASE i < m
    <3>1. i \in 1..n - 1
      BY <1>1, <1>6, <2>3
    <3> QED
      BY <1>9, <2>1, <2>3, <3>1
  <2>4. CASE i > m
    <3>1. i - 1 \in 1..n - 1 /\ i - 1 >= m /\ (i - 1) + 1 = i
      BY <1>1, <1>6, <2>4
    <3>2. r[i - 1] = q[(i - 1) + 1]
      BY <1>9, <3>1
    <3> QED
      BY <2>1, <3>1, <3>2
  <2> QED
    BY <1>1, <1>6, <2>2, <2>3, <2>4
<1>12. ASSUME NEW i \in 1..n - 1, NEW j \in 1..n - 1, i < j
       PROVE  r[i] # r[j] /\ pr[r[i]] <= pr[r[j]]
  <2> DEFINE a == IF i < m THEN i ELSE i + 1
             b == IF j < m THEN j ELSE j + 1
  <2>1. r[i] = q[a] /\ r[j] = q[b]
    BY <1>1, <1>6, <1>9
  <2>2. a \in 1..n /\ b \in 1..n /\ a < b
    BY <1>1, <1>6, <1>9, <1>12
  <2> HIDE DEF a, b
  <2> QED
    BY <2>1, <2>2 DEF Ordered
<1>13. Ordered(r, S \ {t}, pr)
  BY <1>8, <1>10, <1>11, <1>12 DEF Ordered
<1>14. q # <<>> /\ GetFront(q) = q[1] /\ 1 \in 1..n
  BY <1>1, <1>2 DEF GetFront
<1>15. ASSUME GetFront(q) # t PROVE GetFront(r) = GetFront(q)
  <2>1. m # 1
    BY <1>6, <1>14, <1>15
  <2>2. 1 \in 1..n - 1 /\ 1 < m
    BY <1>1, <1>6, <2>1
  <2>3. r[1] = q[1] /\ r # <<>>
    BY <1>8, <1>9, <2>2
  <2> QED
    BY <1>8, <1>14, <2>3 DEF GetFront
<1>16. ASSUME GetFront(q) = t PROVE GetFront(r) = GetNext(q, t)
  <2> DEFINE A == {i \in 2..Len(q) : q[i - 1] = t}
  <2>1. m = 1
    BY <1>7, <1>14, <1>16
  <2>2. CASE n = 1
    <3>1. r = <<>>
      BY <1>8, <2>2
    <3>2. A = {}
      BY <2>2
    <3> QED
      BY <3>1, <3>2 DEF GetFront, GetNext
  <2>3. CASE n # 1
    <3>1. 2 \in 2..n /\ 1 \in 1..n - 1 /\ 2 - 1 = 1
      <4>1. n \in Nat /\ 1 \in 1..n /\ n # 1
        BY <1>1, <1>14, <2>3
      <4> HIDE DEF n
      <4> QED
        BY <4>1
    <3>2. 2 \in A
      BY <1>14, <1>16, <3>1
    <3>3. \A i \in A : i = 2
      <4> SUFFICES ASSUME NEW i \in A PROVE i = 2
        OBVIOUS
      <4>1. i - 1 \in 1..n /\ q[i - 1] = t /\ i \in Nat
        BY <1>1
      <4>2. i - 1 = m
        BY <1>7, <4>1
      <4> QED
        BY <2>1, <4>1, <4>2
    <3>4. A \in SUBSET Nat /\ A # {}
      BY <1>1, <3>2
    <3>5. Min(A) \in A
      BY <3>4, MinIsLeast
    <3>6. Min(A) = 2
      BY <3>3, <3>5
    <3>7. GetNext(q, t) = q[2]
      BY <3>2, <3>6 DEF GetNext
    <3>8. r[1] = q[2] /\ r # <<>>
      BY <1>8, <1>9, <2>1, <3>1
    <3> QED
      BY <1>8, <3>7, <3>8 DEF GetFront
  <2> QED
    BY <2>2, <2>3
<1> QED
  BY <1>13, <1>15, <1>16 DEF r

\* The front of a queue is its first member, if it has one.
LEMMA FrontOfOrdered ==
  ASSUME NEW pr, NEW S \in SUBSET Threads, NEW q, Ordered(q, S, pr)
  PROVE  /\ S = {} => q = <<>> /\ Len(q) = 0 /\ GetFront(q) = Null
         /\ S # {} => q # <<>> /\ Len(q) # 0 /\ 1 \in 1..Len(q) /\ GetFront(q) = q[1] /\ GetFront(q) \in S
         /\ \A t \in S : GetFront(q) \in S /\ (pr[GetFront(q)] <= pr[t] \/ GetFront(q) = t)
<1>1. Len(q) \in Nat /\ q \in Seq(Threads) /\ (\A i \in 1..Len(q) : q[i] \in S)
  BY DEF Ordered
<1>2. ASSUME S = {} PROVE q = <<>> /\ Len(q) = 0 /\ GetFront(q) = Null
  <2>1. Len(q) = 0
    BY <1>1, <1>2
  <2> QED
    BY <1>1, <2>1 DEF GetFront, Null
<1>3. ASSUME NEW t \in S
      PROVE  /\ q # <<>> /\ Len(q) # 0 /\ 1 \in 1..Len(q) /\ GetFront(q) = q[1] /\ GetFront(q) \in S
             /\ pr[GetFront(q)] <= pr[t] \/ GetFront(q) = t
  <2>1. PICK i \in 1..Len(q) : q[i] = t
    BY DEF Ordered
  <2>2. q # <<>> /\ 1 \in 1..Len(q) /\ Len(q) # 0
    BY <1>1, <2>1
  <2>3. GetFront(q) = q[1]
    BY <1>1, <2>2 DEF GetFront
  <2>4. i = 1 \/ 1 < i
    BY <1>1
  <2> QED
    BY <1>1, <2>1, <2>2, <2>3, <2>4 DEF Ordered
<1> QED
  BY <1>2, <1>3

\* Only the priorities of the members matter.
LEMMA OrderedAgain ==
  ASSUME NEW pr, NEW pr2, NEW S \in SUBSET Threads, NEW q, Ordered(q, S, pr),
         \A t \in S : pr2[t] = pr[t]
  PROVE  Ordered(q, S, pr2)
BY DEF Ordered

\* Where a loop over a queue stops.
LEMMA FirstOfQueue ==
  ASSUME NEW q \in Seq(Threads), NEW ts
  PROVE  \/ FirstOf(q, ts) = Null /\ \A i \in 1..Len(q) : q[i] \notin ts
         \/ /\ FirstOf(q, ts) \in ts
            /\ \E i \in 1..Len(q) : /\ q[i] = FirstOf(q, ts)
                                    /\ \A j \in 1..Len(q) : q[j] \in ts => i <= j
<1> DEFINE found == {i \in 1..Len(q) : q[i] \in ts}
<1>1. CASE found = {}
  BY <1>1 DEF FirstOf, Null
<1>2. CASE found # {}
  <2>1. found \in SUBSET Nat
    OBVIOUS
  <2>2. Min(found) \in found /\ \A j \in found : Min(found) <= j
    BY <1>2, <2>1, MinIsLeast
  <2>3. FirstOf(q, ts) = q[Min(found)]
    BY <1>2 DEF FirstOf
  <2> HIDE DEF found
  <2>4. /\ Min(found) \in 1..Len(q) /\ q[Min(found)] \in ts
        /\ \A j \in 1..Len(q) : q[j] \in ts => Min(found) <= j
    BY <2>2 DEF found
  <2> QED
    BY <2>3, <2>4
<1> QED
  BY <1>1, <1>2

\* InsertBack puts t behind the threads of its priority.
LEMMA BehindEquals ==
  ASSUME NEW pr \in [Threads -> Nat], NEW S \in SUBSET Threads, NEW t \in Threads \ S,
         NEW q, Ordered(q, S, pr), NEW i \in 1..Len(q) + 1, NEW j \in 1..Len(q) + 1,
         InsertBack(q, t, pr)[i] = t, InsertBack(q, t, pr)[j] # t,
         pr[InsertBack(q, t, pr)[j]] = pr[t]
  PROVE  j < i
<1> DEFINE n == Len(q)
           P == {k \in 1..Len(q) : pr[q[k]] > pr[t]}
           r == InsertBack(q, t, pr)
<1>1. /\ n \in Nat /\ q \in Seq(Threads) /\ pr[t] \in Nat
      /\ \A k \in 1..n : q[k] \in S /\ q[k] \in Threads /\ pr[q[k]] \in Nat
  BY DEF Ordered
<1>2. r = InsertBefore(q, P, t)
  BY DEF InsertBack
<1>3. P \in SUBSET (1..Len(q))
  OBVIOUS
<1>4. PICK m \in 1..n + 1 : IsPlace(m, P, n) /\ Inserted(r, q, m, t)
  BY <1>1, <1>2, <1>3, InsertShape
<1>5. (m \in P \/ m = n + 1) /\ (\A k \in P : m <= k)
  BY <1>4 DEF IsPlace
<1> HIDE DEF r
<1>6. \A k \in 1..n + 1 : /\ k < m => k \in 1..n /\ r[k] = q[k]
                          /\ k = m => r[k] = t
                          /\ k > m => k - 1 \in 1..n /\ r[k] = q[k - 1]
  BY <1>4 DEF Inserted
<1>7. i = m
  <2>1. r[i] = t
    BY DEF r
  <2>2. CASE i < m
    BY <1>1, <1>6, <2>1, <2>2
  <2>3. CASE i > m
    BY <1>1, <1>6, <2>1, <2>3
  <2> QED
    BY <1>1, <2>2, <2>3
<1>8. r[j] # t /\ pr[r[j]] = pr[t]
  BY DEF r
<1>9. j # m
  BY <1>6, <1>8
<1>10. ~(j > m)
  <2> SUFFICES ASSUME j > m PROVE FALSE
    OBVIOUS
  <2>1. j - 1 \in 1..n /\ r[j] = q[j - 1]
    BY <1>6
  <2>2. m \in P /\ m \in 1..n /\ m <= j - 1
    BY <1>1, <1>5, <2>1
  <2>3. pr[q[m]] > pr[t]
    BY <2>2
  <2>4. m = j - 1 \/ pr[q[m]] <= pr[q[j - 1]]
    <3>1. m = j - 1 \/ m < j - 1
      BY <1>1, <2>1, <2>2
    <3> QED
      BY <2>1, <2>2, <3>1 DEF Ordered
  <2> QED
    BY <1>1, <1>8, <2>1, <2>2, <2>3, <2>4
<1> QED
  BY <1>1, <1>7, <1>9, <1>10

\* MoveToScheduledBack: when the front of t's priority is t again, t is alone there.
LEMMA MovedBack ==
  ASSUME NEW pr \in [Threads -> Nat], NEW S \in SUBSET Threads, NEW t \in S,
         NEW q, Ordered(q, S, pr),
         NEW r, r = InsertBack(RemoveFirst(q, t), t, pr)
  PROVE  /\ Ordered(r, S, pr)
         /\ GetFrontAt(r, pr, pr[t]) = t =>
              GetFront(r) = GetFront(q) /\ \A u \in S \ {t} : pr[u] # pr[t]
<1> DEFINE p == RemoveFirst(q, t)
           ts == {x \in Threads : pr[x] = pr[t]}
           rest == S \ {t}
<1>1. /\ Ordered(p, rest, pr)
      /\ GetFront(q) # t => GetFront(p) = GetFront(q)
  BY RemoveOrdered
<1>2. /\ rest \in SUBSET Threads /\ t \in Threads \ rest /\ rest \cup {t} = S
      /\ \A u \in S : u # t => u \in rest
  OBVIOUS
<1>0. r = InsertBack(p, t, pr)
  OBVIOUS
<1> HIDE DEF p, rest
<1>3. /\ Ordered(r, rest \cup {t}, pr)
      /\ GetFront(r) = IF Len(p) = 0 \/ pr[p[1]] > pr[t] THEN t ELSE GetFront(p)
  BY <1>0, <1>1, <1>2, InsertBackOrdered
<1>4. Ordered(r, S, pr)
  BY <1>2, <1>3
<1>5. ASSUME GetFrontAt(r, pr, pr[t]) = t, NEW u \in S \ {t} PROVE pr[u] # pr[t]
  <2> SUFFICES ASSUME pr[u] = pr[t] PROVE FALSE
    OBVIOUS
  <2>1. FirstOf(r, ts) = t /\ r \in Seq(Threads)
    BY <1>4, <1>5 DEF GetFrontAt, Ordered
  <2>2. NoThread \notin Threads /\ Null \notin Threads
    BY NoThreadAssumption DEF Null
  <2>3. PICK i \in 1..Len(r) : r[i] = t /\ \A j \in 1..Len(r) : r[j] \in ts => i <= j
    BY <2>1, <2>2, FirstOfQueue
  <2>4. PICK j \in 1..Len(r) : r[j] = u
    BY <1>4 DEF Ordered
  <2>5. Len(r) = Len(p) + 1
    <3>1. p \in Seq(Threads) /\ {k \in 1..Len(p) : pr[p[k]] > pr[t]} \in SUBSET (1..Len(p))
      BY <1>1 DEF Ordered
    <3>2. \E m \in 1..Len(p) + 1 : Inserted(r, p, m, t)
      BY <1>0, <3>1, InsertShape DEF InsertBack
    <3> QED
      BY <3>2 DEF Inserted
  <2>6. j < i
    <3>1. r[i] = t /\ r[j] # t /\ pr[r[j]] = pr[t]
      BY <2>3, <2>4
    <3>2. i \in 1..Len(p) + 1 /\ j \in 1..Len(p) + 1
      BY <2>5
    <3> QED
      BY <1>0, <1>1, <1>2, <3>1, <3>2, BehindEquals
  <2>7. i <= j
    BY <2>3, <2>4
  <2> QED
    BY <2>1, <2>6, <2>7
<1>6. ASSUME GetFrontAt(r, pr, pr[t]) = t PROVE GetFront(r) = GetFront(q)
  <2>0. \A u \in Threads : pr[u] \in Nat
    OBVIOUS
  <2> DEFINE x == GetFront(q)
  <2>1. x \in S /\ (pr[x] <= pr[t] \/ x = t) /\ (\A u \in S : pr[x] <= pr[u] \/ x = u)
    BY FrontOfOrdered
  <2> HIDE DEF x
  <2>2. CASE x # t
    <3>1. GetFront(p) = x
      BY <1>1, <2>2 DEF x
    <3>2. rest # {}
      BY <1>2, <2>1, <2>2
    <3>3. Len(p) # 0 /\ GetFront(p) = p[1]
      BY <1>1, <1>2, <3>2, FrontOfOrdered
    <3> QED
      BY <1>3, <2>0, <2>1, <2>2, <3>1, <3>3 DEF x
  <2>3. CASE x = t /\ rest = {}
    <3>1. Len(p) = 0
      BY <1>1, <1>2, <2>3, FrontOfOrdered
    <3> QED
      BY <1>3, <2>3, <3>1 DEF x
  <2>4. CASE x = t /\ rest # {}
    <3>1. p[1] \in rest
      BY <1>1, <1>2, <2>4, FrontOfOrdered
    <3>2. pr[p[1]] # pr[t]
      BY <1>5, <1>6, <3>1 DEF rest
    <3>3. pr[p[1]] > pr[t]
      BY <1>2, <2>0, <2>1, <2>4, <3>1, <3>2
    <3> QED
      BY <1>3, <2>4, <3>3 DEF x
  <2> QED
    BY <2>2, <2>3, <2>4
<1> QED
  BY <1>4, <1>5, <1>6 DEF p

-----------------------------------------------------------------------------
(* The priority queue                                                      *)

SchedType ==
  [scheduled : [Cores -> Seq(Threads)], suggested : [Cores -> Seq(Threads)],
   active_core : [Threads -> Cores \cup {NoCore}], affinity : [Threads -> SUBSET Cores],
   priority : [Threads -> Nat], highest : [Cores -> Threads \cup {Null}],
   yielded : SUBSET Threads, resched : SUBSET Cores]

\* The queues of the cores list the sets M, in the order of the priorities.
Held(queues, M, pr) ==
  queues \in [Cores -> Seq(Threads)] /\ \A c \in Cores : Ordered(queues[c], M[c], pr)

\* The runnable threads R of a core, and those suggested for it.
On(R, core) == [c \in Cores |-> {u \in R : core[u] = c}]

For(R, core, aff) == [c \in Cores |-> {u \in R : c \in aff[u] /\ core[u] # c}]

CoresAllowed(s) == \A t \in Threads : s.active_core[t] \in s.affinity[t] \cup {NoCore}

QueueInv(s, R) ==
  /\ s \in SchedType
  /\ CoresAllowed(s)
  /\ Held(s.scheduled, On(R, s.active_core), s.priority)
  /\ Held(s.suggested, For(R, s.active_core, s.affinity), s.priority)

LEMMA Fields ==
  ASSUME NEW s \in SchedType
  PROVE  /\ s.scheduled \in [Cores -> Seq(Threads)] /\ s.suggested \in [Cores -> Seq(Threads)]
         /\ s.active_core \in [Threads -> Cores \cup {NoCore}] /\ s.affinity \in [Threads -> SUBSET Cores]
         /\ s.priority \in [Threads -> Nat] /\ s.highest \in [Cores -> Threads \cup {Null}]
         /\ s.yielded \in SUBSET Threads /\ s.resched \in SUBSET Cores
BY DEF SchedType

LEMMA NoCoreIsNone == NoCore \notin Cores /\ Cores \subseteq Nat
BY NumCoresAssumption DEF NoCore, Cores

LEMMA EnterBackHeld ==
  ASSUME NEW pr \in [Threads -> Nat], NEW M \in [Cores -> SUBSET Threads], NEW queues, Held(queues, M, pr),
         NEW t \in Threads, NEW cores, \A c \in Cores : c \in cores => t \notin M[c],
         NEW N \in [Cores -> SUBSET Threads],
         \A c \in Cores : N[c] = IF c \in cores THEN M[c] \cup {t} ELSE M[c]
  PROVE  Held(EnterBack(queues, cores, t, pr), N, pr)
<1> DEFINE r == EnterBack(queues, cores, t, pr)
<1>1. \A c \in Cores : r[c] = IF c \in cores THEN InsertBack(queues[c], t, pr) ELSE queues[c]
  BY DEF EnterBack
<1>2. ASSUME NEW c \in Cores PROVE Ordered(r[c], N[c], pr)
  <2>1. Ordered(queues[c], M[c], pr) /\ M[c] \in SUBSET Threads
    BY DEF Held
  <2>2. CASE c \in cores
    <3>1. t \in Threads \ M[c]
      BY <2>2
    <3>2. Ordered(InsertBack(queues[c], t, pr), M[c] \cup {t}, pr)
      BY <2>1, <3>1, InsertBackOrdered
    <3> QED
      BY <1>1, <2>2, <3>2
  <2>3. CASE c \notin cores
    BY <1>1, <2>1, <2>3
  <2> QED
    BY <2>2, <2>3
<1>3. \A c \in Cores : r[c] \in Seq(Threads)
  BY <1>2 DEF Ordered
<1>4. r \in [Cores -> Seq(Threads)]
  BY <1>3 DEF EnterBack
<1> QED
  BY <1>2, <1>4 DEF Held

LEMMA EnterFrontHeld ==
  ASSUME NEW pr \in [Threads -> Nat], NEW M \in [Cores -> SUBSET Threads], NEW queues, Held(queues, M, pr),
         NEW t \in Threads, NEW cores, \A c \in Cores : c \in cores => t \notin M[c],
         NEW N \in [Cores -> SUBSET Threads],
         \A c \in Cores : N[c] = IF c \in cores THEN M[c] \cup {t} ELSE M[c]
  PROVE  Held(EnterFront(queues, cores, t, pr), N, pr)
<1> DEFINE r == EnterFront(queues, cores, t, pr)
<1>1. \A c \in Cores : r[c] = IF c \in cores THEN InsertFront(queues[c], t, pr) ELSE queues[c]
  BY DEF EnterFront
<1>2. ASSUME NEW c \in Cores PROVE Ordered(r[c], N[c], pr)
  <2>1. Ordered(queues[c], M[c], pr) /\ M[c] \in SUBSET Threads
    BY DEF Held
  <2>2. CASE c \in cores
    <3>1. t \in Threads \ M[c]
      BY <2>2
    <3>2. Ordered(InsertFront(queues[c], t, pr), M[c] \cup {t}, pr)
      BY <2>1, <3>1, InsertFrontOrdered
    <3> QED
      BY <1>1, <2>2, <3>2
  <2>3. CASE c \notin cores
    BY <1>1, <2>1, <2>3
  <2> QED
    BY <2>2, <2>3
<1>3. \A c \in Cores : r[c] \in Seq(Threads)
  BY <1>2 DEF Ordered
<1>4. r \in [Cores -> Seq(Threads)]
  BY <1>3 DEF EnterFront
<1> QED
  BY <1>2, <1>4 DEF Held

LEMMA LeaveHeld ==
  ASSUME NEW pr, NEW M \in [Cores -> SUBSET Threads], NEW queues, Held(queues, M, pr),
         NEW t \in Threads, NEW cores, \A c \in Cores : c \in cores => t \in M[c],
         NEW N \in [Cores -> SUBSET Threads],
         \A c \in Cores : N[c] = IF c \in cores THEN M[c] \ {t} ELSE M[c]
  PROVE  Held(Leave(queues, cores, t), N, pr)
<1> DEFINE r == Leave(queues, cores, t)
<1>1. \A c \in Cores : r[c] = IF c \in cores THEN RemoveFirst(queues[c], t) ELSE queues[c]
  BY DEF Leave
<1>2. ASSUME NEW c \in Cores PROVE Ordered(r[c], N[c], pr)
  <2>1. Ordered(queues[c], M[c], pr) /\ M[c] \in SUBSET Threads
    BY DEF Held
  <2>2. CASE c \in cores
    <3>1. t \in M[c]
      BY <2>2
    <3>2. Ordered(RemoveFirst(queues[c], t), M[c] \ {t}, pr)
      BY <2>1, <3>1, RemoveOrdered
    <3> QED
      BY <1>1, <2>2, <3>2
  <2>3. CASE c \notin cores
    BY <1>1, <2>1, <2>3
  <2> QED
    BY <2>2, <2>3
<1>3. \A c \in Cores : r[c] \in Seq(Threads)
  BY <1>2 DEF Ordered
<1>4. r \in [Cores -> Seq(Threads)]
  BY <1>3 DEF Leave
<1> QED
  BY <1>2, <1>4 DEF Held

\* Only the queues differ.
SameThreads(r, s) ==
  /\ r.active_core = s.active_core /\ r.affinity = s.affinity /\ r.priority = s.priority
  /\ r.highest = s.highest /\ r.yielded = s.yielded /\ r.resched = s.resched

WithQueues(s, X, Y) == [s EXCEPT !.scheduled = X, !.suggested = Y]

LEMMA NewQueues ==
  ASSUME NEW s \in SchedType, NEW X \in [Cores -> Seq(Threads)], NEW Y \in [Cores -> Seq(Threads)]
  PROVE  /\ WithQueues(s, X, Y) \in SchedType
         /\ WithQueues(s, X, Y).scheduled = X /\ WithQueues(s, X, Y).suggested = Y
         /\ SameThreads(WithQueues(s, X, Y), s)
BY DEF SchedType, SameThreads, WithQueues

LEMMA PushBackInv ==
  ASSUME NEW R \in SUBSET Threads, NEW s, QueueInv(s, R), NEW t \in Threads \ R
  PROVE  QueueInv(PushBack(s, t), R \cup {t}) /\ SameThreads(PushBack(s, t), s)
<1> DEFINE X == EnterBack(s.scheduled, {s.active_core[t]}, t, s.priority)
           Y == EnterBack(s.suggested, SuggestedCores(s, t), t, s.priority)
           M == On(R, s.active_core)
           N == For(R, s.active_core, s.affinity)
           M2 == On(R \cup {t}, s.active_core)
           N2 == For(R \cup {t}, s.active_core, s.affinity)
           r == PushBack(s, t)
<1>1. s \in SchedType /\ CoresAllowed(s) /\ Held(s.scheduled, M, s.priority) /\ Held(s.suggested, N, s.priority)
  BY DEF QueueInv
<1>2. s.priority \in [Threads -> Nat]
  BY <1>1, Fields
<1>3. /\ M \in [Cores -> SUBSET Threads] /\ N \in [Cores -> SUBSET Threads]
      /\ M2 \in [Cores -> SUBSET Threads] /\ N2 \in [Cores -> SUBSET Threads]
      /\ \A c \in Cores : t \notin M[c] /\ t \notin N[c]
      /\ \A c \in Cores : M2[c] = IF c \in {s.active_core[t]} THEN M[c] \cup {t} ELSE M[c]
      /\ \A c \in Cores : N2[c] = IF c \in SuggestedCores(s, t) THEN N[c] \cup {t} ELSE N[c]
  BY DEF On, For, SuggestedCores
<1> HIDE DEF M, N, M2, N2
<1>4. Held(X, M2, s.priority)
  BY <1>1, <1>2, <1>3, EnterBackHeld
<1>5. Held(Y, N2, s.priority)
  BY <1>1, <1>2, <1>3, EnterBackHeld
<1>6. X \in [Cores -> Seq(Threads)] /\ Y \in [Cores -> Seq(Threads)]
  BY <1>4, <1>5 DEF Held
<1>7. r = WithQueues(s, X, Y)
  BY DEF PushBack, WithQueues
<1> HIDE DEF X, Y, r
<1>8. r \in SchedType /\ r.scheduled = X /\ r.suggested = Y /\ SameThreads(r, s)
  BY <1>1, <1>6, <1>7, NewQueues
<1> QED
  BY <1>1, <1>4, <1>5, <1>8 DEF QueueInv, SameThreads, CoresAllowed, M2, N2, r

LEMMA PushFrontInv ==
  ASSUME NEW R \in SUBSET Threads, NEW s, QueueInv(s, R), NEW t \in Threads \ R
  PROVE  QueueInv(PushFront(s, t), R \cup {t}) /\ SameThreads(PushFront(s, t), s)
<1> DEFINE X == EnterFront(s.scheduled, {s.active_core[t]}, t, s.priority)
           Y == EnterBack(s.suggested, SuggestedCores(s, t), t, s.priority)
           M == On(R, s.active_core)
           N == For(R, s.active_core, s.affinity)
           M2 == On(R \cup {t}, s.active_core)
           N2 == For(R \cup {t}, s.active_core, s.affinity)
           r == PushFront(s, t)
<1>1. s \in SchedType /\ CoresAllowed(s) /\ Held(s.scheduled, M, s.priority) /\ Held(s.suggested, N, s.priority)
  BY DEF QueueInv
<1>2. s.priority \in [Threads -> Nat]
  BY <1>1, Fields
<1>3. /\ M \in [Cores -> SUBSET Threads] /\ N \in [Cores -> SUBSET Threads]
      /\ M2 \in [Cores -> SUBSET Threads] /\ N2 \in [Cores -> SUBSET Threads]
      /\ \A c \in Cores : t \notin M[c] /\ t \notin N[c]
      /\ \A c \in Cores : M2[c] = IF c \in {s.active_core[t]} THEN M[c] \cup {t} ELSE M[c]
      /\ \A c \in Cores : N2[c] = IF c \in SuggestedCores(s, t) THEN N[c] \cup {t} ELSE N[c]
  BY DEF On, For, SuggestedCores
<1> HIDE DEF M, N, M2, N2
<1>4. Held(X, M2, s.priority)
  BY <1>1, <1>2, <1>3, EnterFrontHeld
<1>5. Held(Y, N2, s.priority)
  BY <1>1, <1>2, <1>3, EnterBackHeld
<1>6. X \in [Cores -> Seq(Threads)] /\ Y \in [Cores -> Seq(Threads)]
  BY <1>4, <1>5 DEF Held
<1>7. r = WithQueues(s, X, Y)
  BY DEF PushFront, WithQueues
<1> HIDE DEF X, Y, r
<1>8. r \in SchedType /\ r.scheduled = X /\ r.suggested = Y /\ SameThreads(r, s)
  BY <1>1, <1>6, <1>7, NewQueues
<1> QED
  BY <1>1, <1>4, <1>5, <1>8 DEF QueueInv, SameThreads, CoresAllowed, M2, N2, r

LEMMA RemoveMemberInv ==
  ASSUME NEW R \in SUBSET Threads, NEW s, QueueInv(s, R), NEW t \in R
  PROVE  QueueInv(RemoveMember(s, t), R \ {t}) /\ SameThreads(RemoveMember(s, t), s)
<1> DEFINE X == Leave(s.scheduled, {s.active_core[t]}, t)
           Y == Leave(s.suggested, SuggestedCores(s, t), t)
           M == On(R, s.active_core)
           N == For(R, s.active_core, s.affinity)
           M2 == On(R \ {t}, s.active_core)
           N2 == For(R \ {t}, s.active_core, s.affinity)
           r == RemoveMember(s, t)
<1>1. s \in SchedType /\ CoresAllowed(s) /\ Held(s.scheduled, M, s.priority) /\ Held(s.suggested, N, s.priority)
  BY DEF QueueInv
<1>3. /\ M \in [Cores -> SUBSET Threads] /\ N \in [Cores -> SUBSET Threads]
      /\ M2 \in [Cores -> SUBSET Threads] /\ N2 \in [Cores -> SUBSET Threads]
      /\ \A c \in Cores : c \in {s.active_core[t]} => t \in M[c]
      /\ \A c \in Cores : c \in SuggestedCores(s, t) => t \in N[c]
      /\ \A c \in Cores : M2[c] = IF c \in {s.active_core[t]} THEN M[c] \ {t} ELSE M[c]
      /\ \A c \in Cores : N2[c] = IF c \in SuggestedCores(s, t) THEN N[c] \ {t} ELSE N[c]
  BY DEF On, For, SuggestedCores
<1> HIDE DEF M, N, M2, N2
<1>4. Held(X, M2, s.priority)
  BY <1>1, <1>3, LeaveHeld
<1>5. Held(Y, N2, s.priority)
  BY <1>1, <1>3, LeaveHeld
<1>6. X \in [Cores -> Seq(Threads)] /\ Y \in [Cores -> Seq(Threads)]
  BY <1>4, <1>5 DEF Held
<1>7. r = WithQueues(s, X, Y)
  BY DEF RemoveMember, WithQueues
<1> HIDE DEF X, Y, r
<1>8. r \in SchedType /\ r.scheduled = X /\ r.suggested = Y /\ SameThreads(r, s)
  BY <1>1, <1>6, <1>7, NewQueues
<1> QED
  BY <1>1, <1>4, <1>5, <1>8 DEF QueueInv, SameThreads, CoresAllowed, M2, N2, r

WithScheduled(s, X) == [s EXCEPT !.scheduled = X]

LEMMA MoveBackInv ==
  ASSUME NEW R \in SUBSET Threads, NEW s, QueueInv(s, R), NEW t \in R, s.active_core[t] # NoCore
  PROVE  /\ QueueInv(MoveToScheduledBack(s, t), R) /\ SameThreads(MoveToScheduledBack(s, t), s)
         /\ MoveToScheduledBack(s, t).suggested = s.suggested
         /\ \A c \in Cores : MoveToScheduledBack(s, t).scheduled[c] =
              IF c = s.active_core[t] THEN InsertBack(RemoveFirst(s.scheduled[c], t), t, s.priority)
                                      ELSE s.scheduled[c]
<1> DEFINE core == {s.active_core[t]}
           L == Leave(s.scheduled, core, t)
           X == EnterBack(L, core, t, s.priority)
           M == On(R, s.active_core)
           M1 == [c \in Cores |-> IF c \in core THEN M[c] \ {t} ELSE M[c]]
           r == MoveToScheduledBack(s, t)
<1>1. s \in SchedType /\ CoresAllowed(s) /\ Held(s.scheduled, M, s.priority)
      /\ Held(s.suggested, For(R, s.active_core, s.affinity), s.priority)
  BY DEF QueueInv
<1>2. s.priority \in [Threads -> Nat] /\ s.suggested \in [Cores -> Seq(Threads)]
  BY <1>1, Fields
<1>3. /\ M \in [Cores -> SUBSET Threads] /\ M1 \in [Cores -> SUBSET Threads]
      /\ \A c \in Cores : c \in core => t \in M[c]
      /\ \A c \in Cores : c \in core => t \notin M1[c]
      /\ \A c \in Cores : M1[c] = IF c \in core THEN M[c] \ {t} ELSE M[c]
      /\ \A c \in Cores : M[c] = IF c \in core THEN M1[c] \cup {t} ELSE M1[c]
  BY DEF On
<1> HIDE DEF M, M1, core
<1>4. Held(L, M1, s.priority)
  BY <1>1, <1>3, LeaveHeld
<1>5. Held(X, M, s.priority)
  BY <1>2, <1>3, <1>4, EnterBackHeld
<1>6. X \in [Cores -> Seq(Threads)]
  BY <1>5 DEF Held
<1>7. r = WithScheduled(s, X)
  BY DEF MoveToScheduledBack, WithScheduled, core
<1>8. \A c \in Cores : X[c] = IF c = s.active_core[t] THEN InsertBack(RemoveFirst(s.scheduled[c], t), t, s.priority)
                              ELSE s.scheduled[c]
  BY DEF EnterBack, Leave, core
<1> HIDE DEF X, L, r
<1>9. r \in SchedType /\ r.scheduled = X /\ r.suggested = s.suggested /\ SameThreads(r, s)
  BY <1>1, <1>6, <1>7 DEF WithScheduled, SchedType, SameThreads
<1> QED
  BY <1>1, <1>5, <1>8, <1>9 DEF QueueInv, SameThreads, CoresAllowed, M, r

WithCore(s, t, core, X, Y) ==
  [s EXCEPT !.active_core[t] = core, !.scheduled = X, !.suggested = Y]

\* All but the queues and the active core of t.
SameButCore(r, s, t, core) ==
  /\ r.active_core = [s.active_core EXCEPT ![t] = core]
  /\ r.affinity = s.affinity /\ r.priority = s.priority
  /\ r.highest = s.highest /\ r.yielded = s.yielded /\ r.resched = s.resched

\* The scheduled queues after it.
CoreLeft(r, s, t, core) ==
  \A c \in Cores : c # core => r.scheduled[c] = IF c = s.active_core[t] THEN RemoveFirst(s.scheduled[c], t)
                                                                    ELSE s.scheduled[c]

BackEntered(r, s, t, core) == core \in Cores => r.scheduled[core] = InsertBack(s.scheduled[core], t, s.priority)

LEMMA ChangeCoreInv ==
  ASSUME NEW R \in SUBSET Threads, NEW s, QueueInv(s, R), NEW t \in R,
         NEW core \in s.affinity[t] \cup {NoCore}, core # s.active_core[t], NEW front \in BOOLEAN,
         NEW r, r = ChangeCore(s, t, core, front)
  PROVE  /\ QueueInv(r, R)
         /\ SameButCore(r, s, t, core)
         /\ CoreLeft(r, s, t, core)
         /\ ~front => BackEntered(r, s, t, core)
<1> DEFINE prev == s.active_core[t]
           ac == [s.active_core EXCEPT ![t] = core]
           L == Leave(s.scheduled, {prev}, t)
           X == IF front THEN EnterFront(L, {core}, t, s.priority) ELSE EnterBack(L, {core}, t, s.priority)
           S == Leave(s.suggested, {core}, t)
           Y == EnterBack(S, {prev}, t, s.priority)
           M == On(R, s.active_core)
           N == For(R, s.active_core, s.affinity)
           M1 == [c \in Cores |-> IF c \in {prev} THEN M[c] \ {t} ELSE M[c]]
           N1 == [c \in Cores |-> IF c \in {core} THEN N[c] \ {t} ELSE N[c]]
           M2 == On(R, ac)
           N2 == For(R, ac, s.affinity)
<1>1. s \in SchedType /\ CoresAllowed(s) /\ Held(s.scheduled, M, s.priority) /\ Held(s.suggested, N, s.priority)
  BY DEF QueueInv
<1>2. /\ s.priority \in [Threads -> Nat] /\ s.active_core \in [Threads -> Cores \cup {NoCore}]
      /\ s.affinity \in [Threads -> SUBSET Cores] /\ t \in Threads
      /\ prev \in s.affinity[t] \cup {NoCore} /\ core \in Cores \cup {NoCore}
  BY <1>1, Fields DEF CoresAllowed
<1>3. \A u \in R : ac[u] = IF u = t THEN core ELSE s.active_core[u]
  BY <1>2
<1>4. /\ M \in [Cores -> SUBSET Threads] /\ M1 \in [Cores -> SUBSET Threads] /\ M2 \in [Cores -> SUBSET Threads]
      /\ N \in [Cores -> SUBSET Threads] /\ N1 \in [Cores -> SUBSET Threads] /\ N2 \in [Cores -> SUBSET Threads]
  BY DEF On, For
<1>5. /\ \A c \in Cores : c \in {prev} => t \in M[c]
      /\ \A c \in Cores : c \in {core} => t \notin M1[c]
      /\ \A c \in Cores : M1[c] = IF c \in {prev} THEN M[c] \ {t} ELSE M[c]
  BY DEF On
<1>6. ASSUME NEW c \in Cores PROVE M2[c] = IF c \in {core} THEN M1[c] \cup {t} ELSE M1[c]
  <2>1. M2[c] = {u \in R : ac[u] = c} /\ M[c] = {u \in R : s.active_core[u] = c}
    BY DEF On
  <2>2. M1[c] = IF c = prev THEN M[c] \ {t} ELSE M[c]
    BY <1>5
  <2> HIDE DEF M2, M1, M, ac
  <2> QED
    BY <1>3, <2>1, <2>2
<1>7. /\ \A c \in Cores : c \in {core} => t \in N[c]
      /\ \A c \in Cores : c \in {prev} => t \notin N1[c]
      /\ \A c \in Cores : N1[c] = IF c \in {core} THEN N[c] \ {t} ELSE N[c]
  BY NoCoreIsNone DEF For
<1>8. ASSUME NEW c \in Cores PROVE N2[c] = IF c \in {prev} THEN N1[c] \cup {t} ELSE N1[c]
  <2>1. /\ N2[c] = {u \in R : c \in s.affinity[u] /\ ac[u] # c}
        /\ N[c] = {u \in R : c \in s.affinity[u] /\ s.active_core[u] # c}
    BY DEF For
  <2>2. N1[c] = IF c = core THEN N[c] \ {t} ELSE N[c]
    BY <1>7
  <2>3. c = prev => c \in s.affinity[t]
    BY <1>2, NoCoreIsNone
  <2> HIDE DEF N2, N1, N, ac
  <2> QED
    BY <1>3, <2>1, <2>2, <2>3
<1>9. \A c \in Cores : L[c] = IF c = prev THEN RemoveFirst(s.scheduled[c], t) ELSE s.scheduled[c]
  BY DEF Leave
<1>10. /\ \A c \in Cores : c # core => X[c] = L[c]
       /\ core \in Cores /\ ~front => X[core] = InsertBack(L[core], t, s.priority)
  BY DEF EnterBack, EnterFront
<1> HIDE DEF M, N, M1, N1, M2, N2
<1>11. Held(L, M1, s.priority)
  BY <1>1, <1>2, <1>4, <1>5, LeaveHeld
<1>12. Held(X, M2, s.priority)
  <2> HIDE DEF L
  <2>1. CASE front
    <3>1. Held(EnterFront(L, {core}, t, s.priority), M2, s.priority)
      BY <1>2, <1>4, <1>5, <1>6, <1>11, EnterFrontHeld
    <3> QED
      BY <2>1, <3>1
  <2>2. CASE ~front
    <3>1. Held(EnterBack(L, {core}, t, s.priority), M2, s.priority)
      BY <1>2, <1>4, <1>5, <1>6, <1>11, EnterBackHeld
    <3> QED
      BY <2>2, <3>1
  <2> QED
    BY <2>1, <2>2
<1>13. Held(S, N1, s.priority)
  BY <1>1, <1>2, <1>4, <1>7, LeaveHeld
<1>14. Held(Y, N2, s.priority)
  <2> HIDE DEF S
  <2> QED
    BY <1>2, <1>4, <1>7, <1>8, <1>13, EnterBackHeld
<1>15. X \in [Cores -> Seq(Threads)] /\ Y \in [Cores -> Seq(Threads)]
  BY <1>12, <1>14 DEF Held
<1>16. r = WithCore(s, t, core, X, Y)
  BY DEF ChangeCore, WithCore
<1>17. ac \in [Threads -> Cores \cup {NoCore}]
  BY <1>2
<1> HIDE DEF X, Y, L, S
<1>18. r \in SchedType /\ r.scheduled = X /\ r.suggested = Y /\ SameButCore(r, s, t, core)
  BY <1>1, <1>15, <1>16, <1>17 DEF WithCore, SchedType, SameButCore
<1>19. CoresAllowed(r)
  BY <1>1, <1>2, <1>18 DEF CoresAllowed, SameButCore
<1>20. QueueInv(r, R)
  BY <1>12, <1>14, <1>18, <1>19 DEF QueueInv, SameButCore, M2, N2
<1>21. \A c \in Cores : c # core => r.scheduled[c] = IF c = prev THEN RemoveFirst(s.scheduled[c], t)
                                                     ELSE s.scheduled[c]
  BY <1>9, <1>10, <1>18
<1>22. core \in Cores /\ ~front => r.scheduled[core] = InsertBack(s.scheduled[core], t, s.priority)
  BY <1>9, <1>10, <1>18
<1> QED
  BY <1>18, <1>20, <1>21, <1>22 DEF CoreLeft, BackEntered

\* A thread that is in no queue may be changed.
WithPriority(s, t, p) == [s EXCEPT !.priority[t] = p]

WithMask(s, t, mask, core) == [s EXCEPT !.affinity[t] = mask, !.active_core[t] = core]

SameButPriority(r, s, t, p) ==
  /\ r.active_core = s.active_core /\ r.affinity = s.affinity
  /\ r.priority = [s.priority EXCEPT ![t] = p]
  /\ r.scheduled = s.scheduled /\ r.suggested = s.suggested

SameButMask(r, s, t, mask, core) ==
  /\ r.active_core = [s.active_core EXCEPT ![t] = core]
  /\ r.affinity = [s.affinity EXCEPT ![t] = mask] /\ r.priority = s.priority
  /\ r.scheduled = s.scheduled /\ r.suggested = s.suggested

CoreSet(r, s, t, core) == r.active_core = [s.active_core EXCEPT ![t] = core]

SameChoice(r, s) == r.highest = s.highest /\ r.resched = s.resched /\ r.yielded = s.yielded

LEMMA HeldAgain ==
  ASSUME NEW pr, NEW pr2, NEW M \in [Cores -> SUBSET Threads], NEW queues, Held(queues, M, pr),
         \A c \in Cores : \A t \in M[c] : pr2[t] = pr[t]
  PROVE  Held(queues, M, pr2)
<1>1. ASSUME NEW c \in Cores PROVE Ordered(queues[c], M[c], pr2)
  <2>1. Ordered(queues[c], M[c], pr) /\ M[c] \in SUBSET Threads /\ \A t \in M[c] : pr2[t] = pr[t]
    BY DEF Held
  <2> QED
    BY <2>1, OrderedAgain
<1> QED
  BY <1>1 DEF Held

LEMMA NewPriorityInv ==
  ASSUME NEW R \in SUBSET Threads, NEW s, QueueInv(s, R), NEW t \in Threads \ R, NEW p \in Nat,
         NEW r, r = WithPriority(s, t, p)
  PROVE  QueueInv(r, R) /\ SameChoice(r, s) /\ SameButPriority(r, s, t, p)
<1> DEFINE M == On(R, s.active_core)
           N == For(R, s.active_core, s.affinity)
           pr == [s.priority EXCEPT ![t] = p]
<1>1. s \in SchedType /\ CoresAllowed(s) /\ Held(s.scheduled, M, s.priority) /\ Held(s.suggested, N, s.priority)
  BY DEF QueueInv
<1>2. s.priority \in [Threads -> Nat] /\ pr \in [Threads -> Nat]
  BY <1>1, Fields
<1>3. /\ M \in [Cores -> SUBSET Threads] /\ N \in [Cores -> SUBSET Threads]
      /\ \A c \in Cores : \A u \in M[c] : pr[u] = s.priority[u]
      /\ \A c \in Cores : \A u \in N[c] : pr[u] = s.priority[u]
  BY <1>2 DEF On, For
<1> HIDE DEF M, N, pr
<1>4. Held(s.scheduled, M, pr) /\ Held(s.suggested, N, pr)
  BY <1>1, <1>3, HeldAgain
<1>5. /\ r \in SchedType /\ SameChoice(r, s) /\ r.active_core = s.active_core /\ r.affinity = s.affinity
      /\ r.priority = pr /\ r.scheduled = s.scheduled /\ r.suggested = s.suggested
  BY <1>1, <1>2 DEF WithPriority, SchedType, SameChoice, pr
<1>6. QueueInv(r, R)
  BY <1>1, <1>4, <1>5 DEF QueueInv, CoresAllowed, M, N
<1> QED
  BY <1>5, <1>6 DEF pr, SameButPriority

LEMMA NewMaskInv ==
  ASSUME NEW R \in SUBSET Threads, NEW s, QueueInv(s, R), NEW t \in Threads \ R,
         NEW mask \in SUBSET Cores, NEW core \in mask \cup {NoCore},
         NEW r, r = WithMask(s, t, mask, core)
  PROVE  QueueInv(r, R) /\ SameChoice(r, s) /\ SameButMask(r, s, t, mask, core)
<1> DEFINE M == On(R, s.active_core)
           N == For(R, s.active_core, s.affinity)
           ac == [s.active_core EXCEPT ![t] = core]
           af == [s.affinity EXCEPT ![t] = mask]
<1>1. s \in SchedType /\ CoresAllowed(s) /\ Held(s.scheduled, M, s.priority) /\ Held(s.suggested, N, s.priority)
  BY DEF QueueInv
<1>2. /\ s.active_core \in [Threads -> Cores \cup {NoCore}] /\ s.affinity \in [Threads -> SUBSET Cores]
      /\ ac \in [Threads -> Cores \cup {NoCore}] /\ af \in [Threads -> SUBSET Cores]
  BY <1>1, Fields
<1>3. \A u \in R : ac[u] = s.active_core[u] /\ af[u] = s.affinity[u]
  BY <1>2
<1>4. On(R, ac) = M /\ For(R, ac, af) = N
  BY <1>3 DEF On, For
<1>5. \A u \in Threads : ac[u] \in af[u] \cup {NoCore}
  BY <1>1, <1>2 DEF CoresAllowed
<1> HIDE DEF M, N, ac, af
<1>6. /\ r \in SchedType /\ SameChoice(r, s) /\ r.active_core = ac /\ r.affinity = af
      /\ r.priority = s.priority /\ r.scheduled = s.scheduled /\ r.suggested = s.suggested
  BY <1>1, <1>2 DEF WithMask, SchedType, SameChoice, ac, af
<1>7. QueueInv(r, R)
  BY <1>1, <1>4, <1>5, <1>6 DEF QueueInv, CoresAllowed
<1> QED
  BY <1>6, <1>7 DEF ac, af, SameButMask

LEMMA ChangePriorityInv ==
  ASSUME NEW R \in SUBSET Threads, NEW s, QueueInv(s, R), NEW t \in R, NEW p \in Nat, NEW running \in BOOLEAN,
         NEW r, r = ChangePriority(s, t, p, running)
  PROVE  QueueInv(r, R) /\ SameChoice(r, s) /\ r.active_core = s.active_core
<1> DEFINE a == RemoveMember(s, t)
           b == WithPriority(a, t, p)
           Q == R \ {t}
<1>1. Q \in SUBSET Threads /\ t \in Threads \ Q /\ Q \cup {t} = R
  OBVIOUS
<1>2. QueueInv(a, Q) /\ SameThreads(a, s)
  BY RemoveMemberInv
<1>3. r = IF running THEN PushFront(b, t) ELSE PushBack(b, t)
  BY DEF ChangePriority, WithPriority
<1>0. b = WithPriority(a, t, p)
  OBVIOUS
<1> HIDE DEF a, b, Q
<1>4. QueueInv(b, Q) /\ SameChoice(b, a) /\ SameButPriority(b, a, t, p)
  BY <1>0, <1>1, <1>2, NewPriorityInv
<1>5. CASE running
  <2>1. QueueInv(PushFront(b, t), Q \cup {t}) /\ SameThreads(PushFront(b, t), b)
    BY <1>1, <1>4, PushFrontInv
  <2> QED
    BY <1>1, <1>2, <1>3, <1>4, <1>5, <2>1 DEF SameThreads, SameChoice, SameButPriority
<1>6. CASE ~running
  <2>1. QueueInv(PushBack(b, t), Q \cup {t}) /\ SameThreads(PushBack(b, t), b)
    BY <1>1, <1>4, PushBackInv
  <2> QED
    BY <1>1, <1>2, <1>3, <1>4, <1>6, <2>1 DEF SameThreads, SameChoice, SameButPriority
<1> QED
  BY <1>5, <1>6

LEMMA ChangeMaskInv ==
  ASSUME NEW R \in SUBSET Threads, NEW s, QueueInv(s, R), NEW t \in R,
         NEW mask \in SUBSET Cores, NEW core \in mask \cup {NoCore},
         NEW r, r = ChangeAffinityMask(s, t, mask, core)
  PROVE  QueueInv(r, R) /\ SameChoice(r, s) /\ CoreSet(r, s, t, core)
<1> DEFINE a == RemoveMember(s, t)
           b == WithMask(a, t, mask, core)
           Q == R \ {t}
<1>1. Q \in SUBSET Threads /\ t \in Threads \ Q /\ Q \cup {t} = R
  OBVIOUS
<1>2. QueueInv(a, Q) /\ SameThreads(a, s)
  BY RemoveMemberInv
<1>3. r = PushBack(b, t)
  BY DEF ChangeAffinityMask, WithMask
<1>0. b = WithMask(a, t, mask, core)
  OBVIOUS
<1> HIDE DEF a, b, Q
<1>4. QueueInv(b, Q) /\ SameChoice(b, a) /\ SameButMask(b, a, t, mask, core)
  BY <1>0, <1>1, <1>2, NewMaskInv
<1>5. QueueInv(PushBack(b, t), Q \cup {t}) /\ SameThreads(PushBack(b, t), b)
  BY <1>1, <1>4, PushBackInv
<1> QED
  BY <1>1, <1>2, <1>3, <1>4, <1>5 DEF SameThreads, SameChoice, SameButMask, CoreSet

\* Only threads of other processes than x's are still known to have yielded.
Counted(r, s, x) ==
  \A y \in Threads : y \in r.yielded <=> y \in s.yielded /\ OwnerProcess[y] # OwnerProcess[x]

LEMMA CountInv ==
  ASSUME NEW R \in SUBSET Threads, NEW s, QueueInv(s, R), NEW x, NEW r, r = Count(s, x)
  PROVE  /\ QueueInv(r, R)
         /\ Counted(r, s, x) /\ r.highest = s.highest /\ r.resched = s.resched
         /\ r.active_core = s.active_core /\ r.affinity = s.affinity /\ r.priority = s.priority
         /\ r.scheduled = s.scheduled /\ r.suggested = s.suggested
<1> DEFINE y == Uncounted(s.yielded, {x})
<1>1. s \in SchedType /\ CoresAllowed(s) /\ Held(s.scheduled, On(R, s.active_core), s.priority)
      /\ Held(s.suggested, For(R, s.active_core, s.affinity), s.priority)
  BY DEF QueueInv
<1>0. /\ r = [s EXCEPT !.yielded = y] /\ y \in SUBSET Threads
      /\ \A u \in Threads : u \in y <=> u \in s.yielded /\ OwnerProcess[u] # OwnerProcess[x]
  BY <1>1, Fields DEF Count, Uncounted
<1> HIDE DEF y
<1>2. /\ r \in SchedType /\ r.yielded = y /\ r.highest = s.highest /\ r.resched = s.resched
      /\ r.active_core = s.active_core /\ r.affinity = s.affinity /\ r.priority = s.priority
      /\ r.scheduled = s.scheduled /\ r.suggested = s.suggested
  BY <1>0, <1>1 DEF SchedType
<1>3. QueueInv(r, R)
  BY <1>1, <1>2 DEF QueueInv, CoresAllowed
<1> QED
  BY <1>0, <1>2, <1>3 DEF Counted

-----------------------------------------------------------------------------
(* UpdateHighestPriorityThreads                                            *)

Fronts(s) == \A c \in Cores : s.highest[c] = GetFront(s.scheduled[c])

\* Threads of one process on one core
Near(s, u, t) == s.active_core[u] = s.active_core[t] /\ OwnerProcess[u] = OwnerProcess[t]

\* A runnable thread whose yield would be skipped has no equal of its process on its core.
YieldInv(s, R) ==
  \A t \in s.yielded \cap R :
    /\ s.active_core[t] # NoCore
    /\ \A u \in R \ {t} : Near(s, u, t) => s.priority[u] # s.priority[t]

LEMMA FewerYields ==
  ASSUME NEW R, NEW s, NEW r, YieldInv(s, R), r.yielded \subseteq s.yielded,
         r.active_core = s.active_core, r.priority = s.priority
  PROVE  YieldInv(r, R)
BY DEF YieldInv, Near

\* Whatever becomes of t, its state, its priority and its core: it is counted for its
\* process, and the other processes do not look at it.
LEMMA CountedForProcess ==
  ASSUME NEW R \in SUBSET Threads, NEW Q \in SUBSET Threads, NEW s, YieldInv(s, R), NEW t \in Threads,
         NEW m, m.yielded \in SUBSET Threads, Counted(m, s, t),
         \A u \in Threads \ {t} : u \in Q <=> u \in R,
         \A u \in Threads \ {t} : m.active_core[u] = s.active_core[u] /\ m.priority[u] = s.priority[u]
  PROVE  YieldInv(m, Q)
<1> SUFFICES ASSUME NEW y \in m.yielded \cap Q
             PROVE  /\ m.active_core[y] # NoCore
                    /\ \A u \in Q \ {y} : Near(m, u, y) => m.priority[u] # m.priority[y]
  BY DEF YieldInv
<1>1. y \in s.yielded /\ OwnerProcess[y] # OwnerProcess[t] /\ y \in Threads
  BY DEF Counted
<1>2. y # t
  BY <1>1
<1>3. y \in s.yielded \cap R /\ m.active_core[y] = s.active_core[y] /\ m.priority[y] = s.priority[y]
  BY <1>1, <1>2
<1>4. ASSUME NEW u \in Q \ {y}, Near(m, u, y) PROVE m.priority[u] # m.priority[y]
  <2>1. OwnerProcess[u] = OwnerProcess[y] /\ m.active_core[u] = m.active_core[y] /\ u \in Threads
    BY <1>4 DEF Near
  <2>2. u # t
    BY <1>1, <2>1
  <2>3. u \in R \ {y} /\ m.active_core[u] = s.active_core[u] /\ m.priority[u] = s.priority[u]
    BY <2>1, <2>2
  <2>4. Near(s, u, y)
    BY <1>3, <2>1, <2>3 DEF Near
  <2> QED
    BY <1>3, <2>3, <2>4 DEF YieldInv
<1> QED
  BY <1>3, <1>4 DEF YieldInv

\* An update from s to r: the cores that were chosen anew are noted.
Chosen(r, s) ==
  /\ \A c \in Cores : r.highest[c] # s.highest[c] => c \in r.resched
  /\ s.resched \subseteq r.resched
  /\ \A t \in Threads : r.active_core[t] = NoCore => s.active_core[t] = NoCore
  /\ r.affinity = s.affinity /\ r.priority = s.priority

Empty(s, R, c) == \A u \in R : s.active_core[u] # c

Good(s, R) == QueueInv(s, R) /\ YieldInv(s, R) /\ Fronts(s)

LEMMA ChosenTwice ==
  ASSUME NEW r, NEW s, NEW q, Chosen(r, s), Chosen(q, r)
  PROVE  Chosen(q, s)
BY DEF Chosen

LEMMA ScheduledFront ==
  ASSUME NEW R \in SUBSET Threads, NEW s, QueueInv(s, R), NEW c \in Cores
  PROVE  /\ GetScheduledFront(s, c) = GetFront(s.scheduled[c])
         /\ Ordered(s.scheduled[c], {u \in R : s.active_core[u] = c}, s.priority)
         /\ GetFront(s.scheduled[c]) \in Threads \cup {Null}
         /\ GetFront(s.scheduled[c]) = Null <=> Empty(s, R, c)
         /\ GetFront(s.scheduled[c]) # Null =>
              GetFront(s.scheduled[c]) \in R /\ s.active_core[GetFront(s.scheduled[c])] = c
<1> DEFINE S == {u \in R : s.active_core[u] = c}
<1>1. Ordered(s.scheduled[c], S, s.priority)
  BY DEF QueueInv, Held, On
<1>2. GetScheduledFront(s, c) = GetFront(s.scheduled[c])
  BY NoCoreIsNone DEF GetScheduledFront
<1>3. S \in SUBSET Threads /\ (S = {} <=> Empty(s, R, c)) /\ Null \notin Threads
  BY NoThreadAssumption DEF Empty, Null
<1> HIDE DEF S
<1>4. /\ S = {} => GetFront(s.scheduled[c]) = Null
      /\ S # {} => GetFront(s.scheduled[c]) \in S
  BY <1>1, <1>3, FrontOfOrdered
<1> QED
  BY <1>1, <1>2, <1>3, <1>4 DEF S

LEMMA SetFrontsInv ==
  ASSUME NEW R \in SUBSET Threads, NEW s, QueueInv(s, R), YieldInv(s, R), NEW r, r = SetFronts(s)
  PROVE  /\ Good(r, R) /\ Chosen(r, s)
         /\ r.active_core = s.active_core
<1> DEFINE fronts == [c \in Cores |-> GetScheduledFront(s, c)]
           new == {c \in Cores : s.highest[c] # fronts[c]}
           y == Uncounted(s.yielded, {s.highest[c] : c \in new} \ {Null})
           z == s.resched \cup new
<1>1. s \in SchedType /\ CoresAllowed(s) /\ Held(s.scheduled, On(R, s.active_core), s.priority)
      /\ Held(s.suggested, For(R, s.active_core, s.affinity), s.priority)
  BY DEF QueueInv
<1>2. r = [s EXCEPT !.highest = fronts, !.resched = z, !.yielded = y]
  BY DEF SetFronts
<1>3. fronts \in [Cores -> Threads \cup {Null}] /\ \A c \in Cores : fronts[c] = GetFront(s.scheduled[c])
  <2>1. \A c \in Cores : /\ GetScheduledFront(s, c) = GetFront(s.scheduled[c])
                         /\ GetFront(s.scheduled[c]) \in Threads \cup {Null}
    BY ScheduledFront
  <2> QED
    BY <2>1
<1>4. y \in SUBSET Threads /\ z \in SUBSET Cores /\ y \subseteq s.yielded
      /\ (\A c \in Cores : fronts[c] # s.highest[c] => c \in z) /\ s.resched \subseteq z
  BY <1>1, Fields DEF Uncounted
<1> HIDE DEF fronts, new, y, z
<1>5. /\ r \in SchedType /\ r.highest = fronts /\ r.resched = z /\ r.yielded = y
      /\ r.active_core = s.active_core /\ r.affinity = s.affinity /\ r.priority = s.priority
      /\ r.scheduled = s.scheduled /\ r.suggested = s.suggested
  BY <1>1, <1>2, <1>3, <1>4 DEF SchedType
<1>6. QueueInv(r, R)
  BY <1>1, <1>5 DEF QueueInv, CoresAllowed
<1>7. YieldInv(r, R)
  BY <1>4, <1>5, FewerYields
<1>8. Fronts(r)
  BY <1>3, <1>5 DEF Fronts
<1>9. Chosen(r, s)
  BY <1>4, <1>5 DEF Chosen
<1> QED
  BY <1>5, <1>6, <1>7, <1>8, <1>9 DEF Good

\* All but the choice for core c.
SameButTop(r, s, c, t) ==
  /\ r.active_core = s.active_core /\ r.affinity = s.affinity /\ r.priority = s.priority
  /\ r.scheduled = s.scheduled /\ r.suggested = s.suggested
  /\ \A d \in Cores : r.highest[d] = IF d = c THEN t ELSE s.highest[d]

LEMMA NewTopInv ==
  ASSUME NEW R \in SUBSET Threads, NEW s, QueueInv(s, R), YieldInv(s, R), NEW c \in Cores,
         NEW t \in Threads \cup {Null}, NEW r, r = UpdateHighestPriorityThread(s, c, t)
  PROVE  QueueInv(r, R) /\ YieldInv(r, R) /\ Chosen(r, s) /\ SameButTop(r, s, c, t)
<1>1. s \in SchedType /\ CoresAllowed(s) /\ Held(s.scheduled, On(R, s.active_core), s.priority)
      /\ Held(s.suggested, For(R, s.active_core, s.affinity), s.priority)
      /\ s.highest \in [Cores -> Threads \cup {Null}]
  BY Fields DEF QueueInv
<1>2. CASE s.highest[c] = t
  <2>1. r = s
    BY <1>2 DEF UpdateHighestPriorityThread
  <2> QED
    BY <1>1, <1>2, <2>1 DEF SameButTop, Chosen
<1>3. CASE s.highest[c] # t
  <2> DEFINE h == [s.highest EXCEPT ![c] = t]
             y == Uncounted(s.yielded, {s.highest[c]} \ {Null})
             z == s.resched \cup {c}
  <2>1. r = [s EXCEPT !.highest = h, !.resched = z, !.yielded = y]
    BY <1>1, <1>3 DEF UpdateHighestPriorityThread, SchedType
  <2>2. /\ h \in [Cores -> Threads \cup {Null}]
        /\ \A d \in Cores : h[d] = IF d = c THEN t ELSE s.highest[d]
    BY <1>1
  <2>3. y \in SUBSET Threads /\ z \in SUBSET Cores /\ y \subseteq s.yielded /\ c \in z /\ s.resched \subseteq z
    BY <1>1, Fields DEF Uncounted
  <2> HIDE DEF h, y, z
  <2>4. /\ r \in SchedType /\ r.highest = h /\ r.resched = z /\ r.yielded = y
        /\ r.active_core = s.active_core /\ r.affinity = s.affinity /\ r.priority = s.priority
        /\ r.scheduled = s.scheduled /\ r.suggested = s.suggested
    BY <1>1, <2>1, <2>2, <2>3 DEF SchedType
  <2>5. QueueInv(r, R)
    BY <1>1, <2>4 DEF QueueInv, CoresAllowed
  <2>6. YieldInv(r, R)
    BY <2>3, <2>4, FewerYields
  <2>7. Chosen(r, s)
    BY <2>2, <2>3, <2>4 DEF Chosen
  <2> QED
    BY <2>2, <2>4, <2>5, <2>6, <2>7 DEF SameButTop
<1> QED
  BY <1>2, <1>3

\* x goes to the empty core c; its previous core has its choice already.
LEMMA MigrateInv ==
  ASSUME NEW R \in SUBSET Threads, NEW s, QueueInv(s, R), YieldInv(s, R), NEW c \in Cores,
         NEW x \in R, c \in s.affinity[x], Empty(s, R, c),
         \A d \in Cores : s.highest[d] = IF d = s.active_core[x] THEN GetFront(RemoveFirst(s.scheduled[d], x))
                                                                  ELSE GetFront(s.scheduled[d]),
         NEW r, r = Migrate(s, x, c)
  PROVE  Good(r, R) /\ Chosen(r, s) /\ CoreSet(r, s, x, c)
<1> DEFINE m == ChangeCore(s, x, c, FALSE)
<1>1. r = UpdateHighestPriorityThread(m, c, x)
  BY DEF Migrate
<1>2. c # s.active_core[x] /\ x \in Threads /\ c \in s.affinity[x] \cup {NoCore}
  BY DEF Empty
<1> DEFINE front == FALSE
<1>0. m = ChangeCore(s, x, c, front) /\ front \in BOOLEAN /\ ~front
  OBVIOUS
<1> HIDE DEF m, front
<1>13. QueueInv(m, R) /\ SameButCore(m, s, x, c) /\ CoreLeft(m, s, x, c) /\ BackEntered(m, s, x, c)
  BY <1>0, <1>2, ChangeCoreInv
<1>3. /\ QueueInv(m, R) /\ SameButCore(m, s, x, c)
      /\ \A d \in Cores : d # c => m.scheduled[d] = IF d = s.active_core[x] THEN RemoveFirst(s.scheduled[d], x)
                                                                             ELSE s.scheduled[d]
      /\ m.scheduled[c] = InsertBack(s.scheduled[c], x, s.priority)
  BY <1>13 DEF CoreLeft, BackEntered
<1>4. /\ s.active_core \in [Threads -> Cores \cup {NoCore}] /\ s.priority \in [Threads -> Nat]
      /\ s \in SchedType
  BY Fields DEF QueueInv
<1>5. /\ \A u \in Threads : m.active_core[u] = IF u = x THEN c ELSE s.active_core[u]
      /\ m.affinity = s.affinity /\ m.priority = s.priority /\ m.highest = s.highest
      /\ m.yielded = s.yielded /\ m.resched = s.resched
  BY <1>2, <1>3, <1>4 DEF SameButCore
<1>6. YieldInv(m, R)
  <2> SUFFICES ASSUME NEW t \in m.yielded \cap R
               PROVE  /\ m.active_core[t] # NoCore
                      /\ \A u \in R \ {t} : Near(m, u, t) => m.priority[u] # m.priority[t]
    BY DEF YieldInv
  <2>1. s.active_core[t] # NoCore /\ s.active_core[t] # c
    BY <1>5 DEF YieldInv, Empty
  <2>2. m.active_core[t] # NoCore
    BY <1>5, <2>1, NoCoreIsNone
  <2>3. ASSUME NEW u \in R \ {t}, Near(m, u, t) PROVE m.priority[u] # m.priority[t]
    <3>1. s.active_core[u] # c
      BY DEF Empty
    <3>2. u # x /\ t # x
      BY <1>5, <2>1, <2>3, <3>1 DEF Near
    <3>3. Near(s, u, t)
      BY <1>5, <2>3, <3>2 DEF Near
    <3> QED
      BY <1>5, <3>3 DEF YieldInv
  <2> QED
    BY <2>2, <2>3
<1>7. GetFront(m.scheduled[c]) = x
  <2> DEFINE S == {u \in R : s.active_core[u] = c}
             q == s.scheduled[c]
  <2>1. Ordered(q, S, s.priority)
    BY ScheduledFront
  <2>2. S = {} /\ S \in SUBSET Threads /\ x \in Threads \ S
    BY <1>2 DEF Empty
  <2> HIDE DEF S, q
  <2>3. Len(q) = 0
    BY <2>1, <2>2, FrontOfOrdered
  <2>4. GetFront(InsertBack(q, x, s.priority)) = x
    BY <1>4, <2>1, <2>2, <2>3, InsertBackOrdered
  <2> QED
    BY <1>0, <1>3, <2>4 DEF q
<1>8. x \in Threads \cup {Null}
  OBVIOUS
<1>9. QueueInv(r, R) /\ YieldInv(r, R) /\ Chosen(r, m) /\ SameButTop(r, m, c, x)
  BY <1>1, <1>3, <1>6, <1>8, NewTopInv
<1>10. Fronts(r)
  <2> SUFFICES ASSUME NEW d \in Cores PROVE r.highest[d] = GetFront(r.scheduled[d])
    BY DEF Fronts
  <2>1. r.scheduled = m.scheduled /\ r.highest[d] = IF d = c THEN x ELSE m.highest[d]
    BY <1>9 DEF SameButTop
  <2> QED
    BY <1>3, <1>5, <1>7, <2>1
<1>11. Chosen(r, s)
  <2>1. Chosen(m, s)
    BY <1>5, NoCoreIsNone DEF Chosen
  <2> QED
    BY <1>9, <2>1, ChosenTwice
<1>12. CoreSet(r, s, x, c)
  BY <1>3, <1>9 DEF CoreSet, SameButCore, SameButTop
<1> QED
  BY <1>9, <1>10, <1>11, <1>12 DEF Good

\* If core c is idle, each thread that may run on it is alone on its own core.
Singles(s, R, c) ==
  Empty(s, R, c) =>
    \A t \in R : c \in s.affinity[t] =>
      s.active_core[t] # NoCore /\ \A u \in R : s.active_core[u] = s.active_core[t] => u = t

Migratable(s) == \A t \in Threads : s.priority[t] >= HighestCoreMigrationAllowedPriority

\* x leaves a core to another thread, so no other core becomes idle.
LEMMA OtherCores ==
  ASSUME NEW R \in SUBSET Threads, NEW s \in SchedType, NEW r, NEW x \in R, NEW c \in Cores,
         CoreSet(r, s, x, c), r.affinity = s.affinity, Empty(s, R, c),
         s.active_core[x] \in Cores => \E v \in R \ {x} : s.active_core[v] = s.active_core[x],
         NEW d \in Cores, d # c
  PROVE  /\ Empty(s, R, d) => Empty(r, R, d)
         /\ Singles(s, R, d) => Singles(r, R, d)
<1>1. s.active_core \in [Threads -> Cores \cup {NoCore}]
  BY Fields
<1>2. \A u \in R : r.active_core[u] = IF u = x THEN c ELSE s.active_core[u]
  BY <1>1 DEF CoreSet
<1>3. Empty(s, R, d) => Empty(r, R, d)
  BY <1>2 DEF Empty
<1>4. Empty(r, R, d) => Empty(s, R, d)
  <2> SUFFICES ASSUME Empty(r, R, d), NEW u \in R, s.active_core[u] = d PROVE FALSE
    BY DEF Empty
  <2>1. u = x
    BY <1>2 DEF Empty
  <2>2. PICK v \in R \ {x} : s.active_core[v] = d
    BY <2>1
  <2> QED
    BY <1>2, <2>2 DEF Empty
<1>5. ASSUME Singles(s, R, d), Empty(r, R, d), NEW t \in R, d \in r.affinity[t]
      PROVE  r.active_core[t] # NoCore /\ \A u \in R : r.active_core[u] = r.active_core[t] => u = t
  <2>1. s.active_core[t] # NoCore /\ \A u \in R : s.active_core[u] = s.active_core[t] => u = t
    BY <1>4, <1>5 DEF Singles
  <2>2. t # x
    BY <1>1, <2>1
  <2>3. s.active_core[t] # c
    BY DEF Empty
  <2> QED
    BY <1>2, <2>1, <2>2, <2>3
<1> QED
  BY <1>3, <1>5 DEF Singles

\* The suggestions for core c are the runnable threads of other cores that may run on it.
SuggestedFor(s, R, c) ==
  /\ s.suggested[c] \in Seq(Threads)
  /\ \A i \in 1..Len(s.suggested[c]) : /\ s.suggested[c][i] \in R /\ s.suggested[c][i] \in Threads
                                       /\ c \in s.affinity[s.suggested[c][i]]
                                       /\ s.active_core[s.suggested[c][i]] # c
  /\ \A x \in R : c \in s.affinity[x] /\ s.active_core[x] # c =>
       \E i \in 1..Len(s.suggested[c]) : s.suggested[c][i] = x

LEMMA Suggestions ==
  ASSUME NEW R \in SUBSET Threads, NEW s, QueueInv(s, R), NEW c \in Cores
  PROVE  SuggestedFor(s, R, c)
<1>1. Ordered(s.suggested[c], {u \in R : c \in s.affinity[u] /\ s.active_core[u] # c}, s.priority)
  BY DEF QueueInv, Held, For
<1> QED
  BY <1>1 DEF Ordered, SuggestedFor

\* A migration to the idle core c, or none.
IdleStep(r, s, R, c) ==
  /\ Good(r, R) /\ Chosen(r, s)
  /\ \A d \in Cores \ {c} : Empty(s, R, d) => Empty(r, R, d)
  /\ Migratable(s) => /\ Singles(r, R, c)
                      /\ \A d \in Cores \ {c} : Singles(s, R, d) => Singles(r, R, d)

LEMMA MigrationStep ==
  ASSUME NEW R \in SUBSET Threads, NEW s \in SchedType, NEW r, NEW x \in R, NEW c \in Cores,
         Good(r, R), Chosen(r, s), CoreSet(r, s, x, c), Empty(s, R, c),
         s.active_core[x] \in Cores => \E v \in R \ {x} : s.active_core[v] = s.active_core[x]
  PROVE  IdleStep(r, s, R, c)
<1>1. r.affinity = s.affinity
  BY DEF Chosen
<1>2. ASSUME NEW d \in Cores \ {c}
      PROVE  (Empty(s, R, d) => Empty(r, R, d)) /\ (Singles(s, R, d) => Singles(r, R, d))
  BY <1>1, OtherCores
<1>3. ~Empty(r, R, c)
  <2>1. s.active_core \in [Threads -> Cores \cup {NoCore}] /\ x \in Threads
    BY Fields
  <2> QED
    BY <2>1 DEF Empty, CoreSet
<1> QED
  BY <1>2, <1>3 DEF IdleStep, Singles

LEMMA IdleCoreInv ==
  ASSUME NEW R \in SUBSET Threads, NEW s, Good(s, R), NEW c \in Cores, Empty(s, R, c),
         NEW r, r = MigrateToIdleCore(s, c)
  PROVE  IdleStep(r, s, R, c)
<1> DEFINE ws == {x \in Threads : TopThread(s, x) # x}
           waiting == FirstOf(s.suggested[c], ws)
           NextOn(x) == GetNext(s.scheduled[s.active_core[x]], x)
           cs == {x \in Threads : s.active_core[x] # NoCore /\ NextOn(x) # Null}
           candidate == FirstOf(s.suggested[c], cs)
<1>1. QueueInv(s, R) /\ YieldInv(s, R) /\ Fronts(s) /\ s \in SchedType
  BY DEF Good, QueueInv
<1>2. /\ s.active_core \in [Threads -> Cores \cup {NoCore}] /\ s.highest \in [Cores -> Threads \cup {Null}]
      /\ s.priority \in [Threads -> Nat]
  BY <1>1, Fields
<1>0. SuggestedFor(s, R, c)
  BY <1>1, Suggestions
<1>3. s.suggested[c] \in Seq(Threads)
  BY <1>0 DEF SuggestedFor
<1>4. \A i \in 1..Len(s.suggested[c]) : /\ s.suggested[c][i] \in R /\ s.suggested[c][i] \in Threads
                                        /\ c \in s.affinity[s.suggested[c][i]]
                                        /\ s.active_core[s.suggested[c][i]] # c
  BY <1>0 DEF SuggestedFor
<1>5. \A x \in R : c \in s.affinity[x] => \E i \in 1..Len(s.suggested[c]) : s.suggested[c][i] = x
  BY <1>0 DEF SuggestedFor, Empty
<1>6. Null \notin Threads
  BY NoThreadAssumption DEF Null
<1>7. \/ waiting = Null /\ \A i \in 1..Len(s.suggested[c]) : s.suggested[c][i] \notin ws
      \/ waiting \in ws /\ \E i \in 1..Len(s.suggested[c]) : s.suggested[c][i] = waiting
  BY <1>3, FirstOfQueue
<1>8. \/ candidate = Null /\ \A i \in 1..Len(s.suggested[c]) : s.suggested[c][i] \notin cs
      \/ candidate \in cs /\ \E i \in 1..Len(s.suggested[c]) : s.suggested[c][i] = candidate
  BY <1>3, FirstOfQueue
<1>9. r = CASE waiting # Null ->
                 IF MayMigrateFrom(s, TopThread(s, waiting)) THEN Migrate(s, waiting, c) ELSE s
            [] waiting = Null /\ candidate # Null ->
                 Migrate(UpdateHighestPriorityThread(s, s.active_core[candidate], NextOn(candidate)),
                         candidate, c)
            [] OTHER -> s
  BY DEF MigrateToIdleCore
<1>10. ASSUME NEW x \in R, TopThread(s, x) = x
       PROVE  /\ s.active_core[x] \in Cores /\ GetFront(s.scheduled[s.active_core[x]]) = x
  BY <1>1, <1>2, <1>6, <1>10 DEF TopThread, Fronts
<1>11. ASSUME NEW x \in R, s.active_core[x] \in Cores, GetFront(s.scheduled[s.active_core[x]]) = x
       PROVE  /\ GetFront(RemoveFirst(s.scheduled[s.active_core[x]], x)) = NextOn(x)
              /\ NextOn(x) \in Threads \cup {Null}
              /\ NextOn(x) = Null => \A u \in R : s.active_core[u] = s.active_core[x] => u = x
              /\ NextOn(x) # Null => \E v \in R \ {x} : s.active_core[v] = s.active_core[x]
  <2> DEFINE q == s.scheduled[s.active_core[x]]
             S == {u \in R : s.active_core[u] = s.active_core[x]}
             rest == S \ {x}
  <2>1. Ordered(q, S, s.priority)
    BY <1>1, <1>11, ScheduledFront
  <2>2. S \in SUBSET Threads /\ x \in S /\ rest \in SUBSET Threads
    OBVIOUS
  <2>3. GetFront(q) = x
    BY <1>11
  <2>4. \A u \in rest : u \in R /\ u # x /\ s.active_core[u] = s.active_core[x]
    OBVIOUS
  <2>5. rest = {} => \A u \in R : s.active_core[u] = s.active_core[x] => u = x
    OBVIOUS
  <2>6. NextOn(x) = GetNext(q, x)
    OBVIOUS
  <2>7. Ordered(RemoveFirst(q, x), rest, s.priority) /\ GetFront(RemoveFirst(q, x)) = GetNext(q, x)
    <3> HIDE DEF q, S
    <3> QED
      BY <2>1, <2>2, <2>3, RemoveOrdered
  <2> HIDE DEF rest, S, NextOn
  <2>8. /\ rest = {} => GetFront(RemoveFirst(q, x)) = Null
        /\ rest # {} => GetFront(RemoveFirst(q, x)) \in rest
    <3> HIDE DEF q
    <3> QED
      BY <2>2, <2>7, FrontOfOrdered
  <2>9. CASE rest = {}
    BY <2>5, <2>6, <2>7, <2>8, <2>9
  <2>10. CASE rest # {}
    BY <1>6, <2>2, <2>4, <2>6, <2>7, <2>8, <2>10
  <2> QED
    BY <2>9, <2>10
<1> HIDE DEF ws, waiting, NextOn, cs, candidate
<1>12. CASE waiting # Null /\ MayMigrateFrom(s, TopThread(s, waiting))
  <2>1. r = Migrate(s, waiting, c)
    BY <1>9, <1>12
  <2>2. waiting \in R /\ c \in s.affinity[waiting] /\ TopThread(s, waiting) # waiting
    BY <1>4, <1>7, <1>12 DEF ws
  <2>3. ASSUME s.active_core[waiting] \in Cores
        PROVE  /\ GetFront(s.scheduled[s.active_core[waiting]]) # waiting
               /\ \E v \in R \ {waiting} : s.active_core[v] = s.active_core[waiting]
    <3>1. TopThread(s, waiting) = GetFront(s.scheduled[s.active_core[waiting]])
      BY <1>1, <2>3, NoCoreIsNone DEF TopThread, Fronts
    <3>2. ~Empty(s, R, s.active_core[waiting])
      BY <2>2 DEF Empty
    <3>3. GetFront(s.scheduled[s.active_core[waiting]]) # Null
      BY <1>1, <2>3, <3>2, ScheduledFront
    <3>4. /\ GetFront(s.scheduled[s.active_core[waiting]]) \in R
          /\ s.active_core[GetFront(s.scheduled[s.active_core[waiting]])] = s.active_core[waiting]
      BY <1>1, <2>3, <3>3, ScheduledFront
    <3> QED
      BY <2>2, <3>1, <3>4
  <2>4. ASSUME NEW d \in Cores
        PROVE  s.highest[d] = IF d = s.active_core[waiting] THEN GetFront(RemoveFirst(s.scheduled[d], waiting))
                                                            ELSE GetFront(s.scheduled[d])
    <3>1. s.highest[d] = GetFront(s.scheduled[d])
      BY <1>1 DEF Fronts
    <3>2. CASE d = s.active_core[waiting]
      <4> DEFINE S == {u \in R : s.active_core[u] = d}
                 q == s.scheduled[d]
                 pr == s.priority
      <4>1. Ordered(q, S, pr)
        BY <1>1, ScheduledFront
      <4>2. waiting \in S /\ S \in SUBSET Threads
        BY <2>2, <3>2
      <4>3. GetFront(q) # waiting
        BY <2>3, <3>2
      <4> HIDE DEF S, q, pr
      <4>4. GetFront(RemoveFirst(q, waiting)) = GetFront(q)
        BY <4>1, <4>2, <4>3, RemoveOrdered
      <4> QED
        BY <3>1, <3>2, <4>4 DEF q
    <3> QED
      BY <3>1, <3>2
  <2>5. Good(r, R) /\ Chosen(r, s) /\ CoreSet(r, s, waiting, c)
    BY <1>1, <2>1, <2>2, <2>4, MigrateInv
  <2> QED
    BY <1>1, <2>2, <2>3, <2>5, MigrationStep
<1>13. CASE waiting # Null /\ ~MayMigrateFrom(s, TopThread(s, waiting))
  <2>1. r = s
    BY <1>9, <1>13
  <2>2. ~Migratable(s)
    <3>1. TopThread(s, waiting) \in Threads /\ ~(s.priority[TopThread(s, waiting)] >= HighestCoreMigrationAllowedPriority)
      <4>1. waiting \in Threads
        BY <1>7, <1>13 DEF ws
      <4>2. TopThread(s, waiting) \in Threads \cup {Null}
        BY <1>2, <4>1 DEF TopThread
      <4> QED
        BY <1>13, <4>2 DEF MayMigrateFrom
    <3> QED
      BY <3>1 DEF Migratable
  <2>3. Chosen(s, s)
    BY DEF Chosen
  <2> QED
    BY <2>1, <2>2, <2>3 DEF IdleStep
<1>14. CASE waiting = Null /\ candidate # Null
  <2> DEFINE e == s.active_core[candidate]
             m == UpdateHighestPriorityThread(s, e, NextOn(candidate))
  <2>1. r = Migrate(m, candidate, c)
    BY <1>9, <1>14
  <2>2. candidate \in R /\ c \in s.affinity[candidate] /\ NextOn(candidate) # Null
    BY <1>4, <1>8, <1>14 DEF cs
  <2>3. TopThread(s, candidate) = candidate
    <3>1. candidate \notin ws /\ candidate \in Threads
      BY <1>4, <1>6, <1>7, <1>8, <1>14 DEF ws
    <3> QED
      BY <3>1 DEF ws
  <2>4. e \in Cores /\ GetFront(s.scheduled[e]) = candidate
    BY <1>10, <2>2, <2>3
  <2>5. /\ GetFront(RemoveFirst(s.scheduled[e], candidate)) = NextOn(candidate)
        /\ NextOn(candidate) \in Threads \cup {Null}
        /\ \E v \in R \ {candidate} : s.active_core[v] = s.active_core[candidate]
    BY <1>11, <2>2, <2>4
  <2>0. m = UpdateHighestPriorityThread(s, e, NextOn(candidate))
    OBVIOUS
  <2> HIDE DEF m
  <2>6. QueueInv(m, R) /\ YieldInv(m, R) /\ Chosen(m, s) /\ SameButTop(m, s, e, NextOn(candidate))
    BY <1>1, <2>0, <2>4, <2>5, NewTopInv
  <2>7. /\ m.active_core = s.active_core /\ m.affinity = s.affinity /\ m.scheduled = s.scheduled
        /\ \A d \in Cores : m.highest[d] = IF d = e THEN NextOn(candidate) ELSE s.highest[d]
        /\ m.priority = s.priority
    BY <2>6 DEF SameButTop
  <2>8. Empty(m, R, c) /\ c \in m.affinity[candidate]
    BY <2>2, <2>7 DEF Empty
  <2>9. ASSUME NEW d \in Cores
        PROVE  m.highest[d] = IF d = m.active_core[candidate] THEN GetFront(RemoveFirst(m.scheduled[d], candidate))
                                                              ELSE GetFront(m.scheduled[d])
    BY <1>1, <2>5, <2>7 DEF Fronts
  <2>10. Good(r, R) /\ Chosen(r, m) /\ CoreSet(r, m, candidate, c)
    BY <2>1, <2>2, <2>6, <2>8, <2>9, MigrateInv
  <2>11. Chosen(r, s) /\ CoreSet(r, s, candidate, c)
    BY <2>6, <2>7, <2>10, ChosenTwice DEF CoreSet
  <2> QED
    BY <1>1, <2>2, <2>5, <2>10, <2>11, MigrationStep
<1>15. CASE waiting = Null /\ candidate = Null
  <2>1. r = s
    BY <1>9, <1>15
  <2>2. ASSUME NEW t \in R, c \in s.affinity[t]
        PROVE  s.active_core[t] # NoCore /\ \A u \in R : s.active_core[u] = s.active_core[t] => u = t
    <3>1. PICK i \in 1..Len(s.suggested[c]) : s.suggested[c][i] = t
      BY <1>5, <2>2
    <3>2. TopThread(s, t) = t
      BY <1>4, <1>6, <1>7, <1>15, <3>1 DEF ws
    <3>3. s.active_core[t] \in Cores /\ GetFront(s.scheduled[s.active_core[t]]) = t
      BY <1>10, <3>2
    <3>4. NextOn(t) = Null
      BY <1>4, <1>6, <1>8, <1>15, <3>1, <3>3, NoCoreIsNone DEF cs
    <3>5. \A u \in R : s.active_core[u] = s.active_core[t] => u = t
      BY <1>11, <3>3, <3>4
    <3> QED
      BY <3>3, <3>5, NoCoreIsNone
  <2>3. Singles(s, R, c)
    BY <2>2 DEF Singles
  <2>4. Chosen(s, s)
    BY DEF Chosen
  <2> QED
    BY <2>1, <2>3, <2>4 DEF IdleStep
<1> QED
  BY <1>12, <1>13, <1>14, <1>15

-----------------------------------------------------------------------------
(* The loops over the cores are recursive functions.  They exist: were     *)
(* there a least number of rounds without one, one more round after the    *)
(* function for fewer would make it.                                       *)

\* The round for core n: of MigrateToIdleCores with the idle cores x, or of RotateAllQueues.
Round(migrating, x, s, n) ==
  IF migrating THEN IF n \in x THEN MigrateToIdleCore(s, n) ELSE s
               ELSE RotateScheduledQueue(s, n, PreemptionPriority[n], x)

IsLoop(f, k, migrating, x, s) ==
  f = [n \in 0..k |-> IF n = 0 THEN s ELSE Round(migrating, x, f[n - 1], n - 1)]

LEMMA LoopExists ==
  ASSUME NEW migrating, NEW x, NEW s, NEW L \in Nat
  PROVE  \E f : IsLoop(f, L, migrating, x, s)
<1> DEFINE S == {k \in Nat : ~\E f : IsLoop(f, k, migrating, x, s)}
<1> SUFFICES ASSUME S # {} PROVE FALSE
  OBVIOUS
<1> DEFINE k == Min(S)
<1>1. k \in S /\ \A y \in S : k <= y
  BY MinIsLeast
<1> HIDE DEF k
<1>2. k \in Nat /\ ~\E f : IsLoop(f, k, migrating, x, s)
  BY <1>1
<1>3. k # 0
  <2>1. IsLoop([n \in 0..0 |-> s], 0, migrating, x, s)
    <3>1. \A n \in 0..0 : n = 0
      OBVIOUS
    <3> QED
      BY <3>1 DEF IsLoop
  <2> QED
    BY <1>2, <2>1
<1>4. k - 1 \in Nat /\ k - 1 \notin S
  BY <1>1, <1>2, <1>3
<1>5. PICK f : IsLoop(f, k - 1, migrating, x, s)
  BY <1>4
<1> DEFINE g == [n \in 0..k |-> IF n < k THEN f[n] ELSE Round(migrating, x, f[k - 1], k - 1)]
<1>6. \A n \in 0..(k - 1) : f[n] = IF n = 0 THEN s ELSE Round(migrating, x, f[n - 1], n - 1)
  BY <1>5 DEF IsLoop
<1>7. ASSUME NEW n \in 0..k PROVE g[n] = IF n = 0 THEN s ELSE Round(migrating, x, g[n - 1], n - 1)
  <2>1. CASE n = 0
    BY <1>2, <1>3, <1>6, <2>1
  <2>2. CASE n # 0 /\ n < k
    <3>1. n \in 0..(k - 1) /\ n - 1 \in 0..k /\ n - 1 < k
      BY <1>2, <2>2
    <3>2. g[n] = f[n] /\ g[n - 1] = f[n - 1]
      BY <2>2, <3>1
    <3> QED
      BY <1>6, <2>2, <3>1, <3>2
  <2>3. CASE n = k
    <3>1. g[k - 1] = f[k - 1] /\ g[k] = Round(migrating, x, f[k - 1], k - 1)
      BY <1>2, <1>3
    <3> QED
      BY <1>3, <2>3, <3>1
  <2> QED
    BY <1>2, <2>1, <2>2, <2>3
<1>8. IsLoop(g, k, migrating, x, s)
  <2>1. g = [n \in 0..k |-> g[n]]
    OBVIOUS
  <2> HIDE DEF g
  <2> QED
    BY <1>7, <2>1 DEF IsLoop
<1> QED
  BY <1>2, <1>8

\* The states after each of the rounds, from s to r
Rounds(f, r, migrating, x, s) ==
  /\ f[0] = s /\ r = f[NumCores]
  /\ \A n \in 1..NumCores : f[n] = Round(migrating, x, f[n - 1], n - 1)

LEMMA LoopRounds ==
  ASSUME NEW f, NEW migrating, NEW x, NEW s, IsLoop(f, NumCores, migrating, x, s)
  PROVE  Rounds(f, f[NumCores], migrating, x, s)
<1>1. \A n \in 0..NumCores : f[n] = IF n = 0 THEN s ELSE Round(migrating, x, f[n - 1], n - 1)
  BY DEF IsLoop
<1>2. NumCores \in Nat /\ 0 \in 0..NumCores /\ \A n \in 1..NumCores : n \in 0..NumCores /\ n # 0
  BY NumCoresAssumption
<1> QED
  BY <1>1, <1>2 DEF Rounds

LEMMA MigrateRounds ==
  ASSUME NEW s, NEW idle
  PROVE  \E f : Rounds(f, MigrateToIdleCores(s, idle), TRUE, idle, s)
<1> DEFINE Is(f) == f = [n \in 0..NumCores |->
                         IF n = 0 THEN s
                         ELSE IF n - 1 \in idle THEN MigrateToIdleCore(f[n - 1], n - 1) ELSE f[n - 1]]
           after == CHOOSE f : Is(f)
<1>1. MigrateToIdleCores(s, idle) = after[NumCores]
  BY DEF MigrateToIdleCores
<1>2. ASSUME NEW f PROVE Is(f) <=> IsLoop(f, NumCores, TRUE, idle, s)
  BY DEF IsLoop, Round
<1>3. \E f : IsLoop(f, NumCores, TRUE, idle, s)
  BY NumCoresAssumption, LoopExists
<1> HIDE DEF Is
<1>4. Is(after)
  BY <1>2, <1>3
<1>5. IsLoop(after, NumCores, TRUE, idle, s)
  BY <1>2, <1>4
<1> HIDE DEF after
<1> QED
  BY <1>1, <1>5, LoopRounds

LEMMA RotateRounds ==
  ASSUME NEW s, NEW recent
  PROVE  \E f : Rounds(f, RotateAllQueues(s, recent), FALSE, recent, s)
<1> DEFINE Is(f) == f = [n \in 0..NumCores |->
                         IF n = 0 THEN s
                         ELSE RotateScheduledQueue(f[n - 1], n - 1, PreemptionPriority[n - 1], recent)]
           after == CHOOSE f : Is(f)
<1>1. RotateAllQueues(s, recent) = after[NumCores]
  BY DEF RotateAllQueues
<1>2. ASSUME NEW f PROVE Is(f) <=> IsLoop(f, NumCores, FALSE, recent, s)
  BY DEF IsLoop, Round
<1>3. \E f : IsLoop(f, NumCores, FALSE, recent, s)
  BY NumCoresAssumption, LoopExists
<1> HIDE DEF Is
<1>4. Is(after)
  BY <1>2, <1>3
<1>5. IsLoop(after, NumCores, FALSE, recent, s)
  BY <1>2, <1>4
<1> HIDE DEF after
<1> QED
  BY <1>1, <1>5, LoopRounds

\* After the rounds of the cores below n: the idle cores to come are still idle.
MigratedUpTo(r, n, s, R, idle) ==
  /\ Good(r, R) /\ Chosen(r, s)
  /\ \A c \in idle : c >= n => Empty(r, R, c)
  /\ Migratable(s) => \A c \in Cores : c < n \/ c \notin idle => Singles(r, R, c)

LEMMA MigrateRound ==
  ASSUME NEW R \in SUBSET Threads, NEW s, NEW idle \in SUBSET Cores, NEW n \in 0..NumCores - 1,
         NEW q, MigratedUpTo(q, n, s, R, idle),
         NEW r, r = Round(TRUE, idle, q, n)
  PROVE  MigratedUpTo(r, n + 1, s, R, idle)
<1>0. n \in Cores /\ n \in Nat /\ \A c \in Cores : c \in Nat
  BY NumCoresAssumption DEF Cores
<1>1. Good(q, R) /\ Chosen(q, s)
  BY DEF MigratedUpTo
<1>2. CASE n \notin idle
  <2>1. r = q
    BY <1>2 DEF Round
  <2>2. \A c \in Cores : c >= n + 1 => c >= n
    BY <1>0
  <2>3. \A c \in Cores : c < n + 1 => c < n \/ c = n
    BY <1>0
  <2> QED
    BY <1>2, <2>1, <2>2, <2>3 DEF MigratedUpTo
<1>3. CASE n \in idle
  <2>1. r = MigrateToIdleCore(q, n)
    BY <1>3 DEF Round
  <2>2. Empty(q, R, n)
    BY <1>0, <1>3 DEF MigratedUpTo
  <2>3. IdleStep(r, q, R, n)
    BY <1>0, <1>1, <2>1, <2>2, IdleCoreInv
  <2>4. Good(r, R) /\ Chosen(r, s)
    BY <1>1, <2>3, ChosenTwice DEF IdleStep
  <2>5. ASSUME NEW c \in idle, c >= n + 1 PROVE Empty(r, R, c)
    <3>1. c >= n /\ c # n /\ c \in Cores
      BY <1>0, <2>5
    <3>2. Empty(q, R, c)
      BY <3>1 DEF MigratedUpTo
    <3> QED
      BY <2>3, <3>1, <3>2 DEF IdleStep
  <2>6. ASSUME Migratable(s), NEW c \in Cores, c < n + 1 \/ c \notin idle PROVE Singles(r, R, c)
    <3>1. Migratable(q)
      BY <1>1, <2>6 DEF Chosen, Migratable
    <3>2. CASE c = n
      BY <2>3, <3>1, <3>2 DEF IdleStep
    <3>3. CASE c # n
      <4>1. c < n \/ c \notin idle
        BY <1>0, <2>6, <3>3
      <4>2. Singles(q, R, c)
        BY <2>6, <4>1 DEF MigratedUpTo
      <4> QED
        BY <2>3, <3>1, <3>3, <4>2 DEF IdleStep
    <3> QED
      BY <3>2, <3>3
  <2> QED
    BY <2>4, <2>5, <2>6 DEF MigratedUpTo
<1> QED
  BY <1>2, <1>3

\* UpdateHighestPriorityThreads: every core's front is chosen, and no core stays idle
\* that a thread could run on while it waits, if all threads may be migrated.
Updated(r, s, R) ==
  /\ Good(r, R) /\ Chosen(r, s)
  /\ Migratable(s) => \A c \in Cores : Singles(r, R, c)

LEMMA UpdateInv ==
  ASSUME NEW R \in SUBSET Threads, NEW s, QueueInv(s, R), YieldInv(s, R),
         NEW r, r = UpdateHighestPriorityThreads(s)
  PROVE  Updated(r, s, R)
<1> DEFINE idle == {c \in Cores : GetScheduledFront(s, c) = Null}
           first == SetFronts(s)
<1>1. r = MigrateToIdleCores(first, idle)
  BY DEF UpdateHighestPriorityThreads
<1>2. Good(first, R) /\ Chosen(first, s) /\ first.active_core = s.active_core
  BY SetFrontsInv
<1>3. \A c \in Cores : c \in idle <=> Empty(first, R, c)
  <2>1. \A c \in Cores : GetScheduledFront(s, c) = Null <=> Empty(s, R, c)
    BY ScheduledFront
  <2>2. \A c \in Cores : Empty(s, R, c) <=> Empty(first, R, c)
    BY <1>2 DEF Empty
  <2> QED
    BY <2>1, <2>2
<1>4. idle \in SUBSET Cores
  OBVIOUS
<1> HIDE DEF idle, first
<1>5. PICK f : Rounds(f, r, TRUE, idle, first)
  BY <1>1, MigrateRounds
<1>6. MigratedUpTo(f[0], 0, first, R, idle)
  <2>1. f[0] = first
    BY <1>5 DEF Rounds
  <2>2. Chosen(first, first)
    BY DEF Chosen
  <2>3. \A c \in Cores : ~(c < 0)
    BY NumCoresAssumption DEF Cores
  <2>4. \A c \in Cores : c \notin idle => Singles(first, R, c)
    BY <1>3 DEF Singles
  <2> QED
    BY <1>2, <1>3, <1>4, <2>1, <2>2, <2>3, <2>4 DEF MigratedUpTo
<1> DEFINE bad == {n \in 0..NumCores : ~MigratedUpTo(f[n], n, first, R, idle)}
<1>7. bad = {}
  <2> SUFFICES ASSUME bad # {} PROVE FALSE
    OBVIOUS
  <2>1. bad \in SUBSET Nat
    BY NumCoresAssumption
  <2> DEFINE n == Min(bad)
  <2>2. n \in bad /\ \A m \in bad : n <= m
    BY <2>1, MinIsLeast
  <2> HIDE DEF n
  <2>3. n \in 0..NumCores /\ n # 0 /\ NumCores \in Nat
    BY <1>6, <2>2, NumCoresAssumption
  <2>4. n - 1 \in 0..NumCores - 1 /\ n - 1 \in 0..NumCores /\ n \in 1..NumCores /\ (n - 1) + 1 = n /\ n - 1 \notin bad
    BY <2>2, <2>3
  <2>5. MigratedUpTo(f[n - 1], n - 1, first, R, idle)
    BY <2>4
  <2>6. f[n] = Round(TRUE, idle, f[n - 1], n - 1)
    BY <1>5, <2>4 DEF Rounds
  <2>7. MigratedUpTo(f[n], (n - 1) + 1, first, R, idle)
    BY <1>4, <2>4, <2>5, <2>6, MigrateRound
  <2> QED
    BY <2>2, <2>4, <2>7
<1>8. MigratedUpTo(r, NumCores, first, R, idle)
  <2>1. NumCores \in 0..NumCores /\ NumCores \notin bad /\ r = f[NumCores]
    BY <1>5, <1>7, NumCoresAssumption DEF Rounds
  <2> QED
    BY <2>1
<1>9. Good(r, R) /\ Chosen(r, s)
  BY <1>2, <1>8, ChosenTwice DEF MigratedUpTo
<1>10. ASSUME Migratable(s), NEW c \in Cores PROVE Singles(r, R, c)
  <2>1. Migratable(first)
    BY <1>2, <1>10 DEF Chosen, Migratable
  <2>2. c < NumCores
    BY NumCoresAssumption DEF Cores
  <2> QED
    BY <1>8, <2>1, <2>2 DEF MigratedUpTo
<1> QED
  BY <1>9, <1>10 DEF Updated

-----------------------------------------------------------------------------
(* PreemptThreads rotates the queues before the update.                    *)

\* From s to r the queues change, but no choice is made and no thread loses its core.
Moved(r, s, R) ==
  /\ QueueInv(r, R) /\ YieldInv(r, R)
  /\ r.highest = s.highest /\ r.affinity = s.affinity /\ r.priority = s.priority
  /\ \A t \in Threads : r.active_core[t] = NoCore => s.active_core[t] = NoCore

LEMMA MovedTwice ==
  ASSUME NEW R, NEW r, NEW s, NEW q, Moved(r, s, R), Moved(q, r, R)
  PROVE  Moved(q, s, R)
BY DEF Moved

\* A thread of a core's scheduled queue, or none.
LEMMA FrontAtInv ==
  ASSUME NEW R \in SUBSET Threads, NEW s, QueueInv(s, R), NEW c \in Cores, NEW ts,
         NEW x, x = FirstOf(s.scheduled[c], ts)
  PROVE  x = Null \/ (x \in R /\ s.active_core[x] = c)
<1> DEFINE q == s.scheduled[c]
<1>1. Ordered(q, {u \in R : s.active_core[u] = c}, s.priority)
  BY ScheduledFront
<1>2. q \in Seq(Threads) /\ \A i \in 1..Len(q) : q[i] \in R /\ s.active_core[q[i]] = c
  BY <1>1 DEF Ordered
<1> HIDE DEF q
<1>3. FirstOf(q, ts) = Null \/ \E i \in 1..Len(q) : q[i] = FirstOf(q, ts)
  BY <1>2, FirstOfQueue
<1> QED
  BY <1>2, <1>3 DEF q

\* A suggestion, or none.
LEMMA SuggestionInv ==
  ASSUME NEW R \in SUBSET Threads, NEW s, QueueInv(s, R), NEW c \in Cores, NEW ts,
         NEW x, x = FirstOf(s.suggested[c], ts)
  PROVE  x = Null \/ (x \in R /\ c \in s.affinity[x] /\ s.active_core[x] # c /\ x \in ts)
<1> DEFINE q == s.suggested[c]
<1>1. SuggestedFor(s, R, c)
  BY Suggestions
<1>2. q \in Seq(Threads) /\ \A i \in 1..Len(q) : q[i] \in R /\ c \in s.affinity[q[i]] /\ s.active_core[q[i]] # c
  BY <1>1 DEF SuggestedFor
<1> HIDE DEF q
<1>3. FirstOf(q, ts) = Null \/ (FirstOf(q, ts) \in ts /\ \E i \in 1..Len(q) : q[i] = FirstOf(q, ts))
  BY <1>2, FirstOfQueue
<1> QED
  BY <1>2, <1>3 DEF q

LEMMA CountMoved ==
  ASSUME NEW R \in SUBSET Threads, NEW s, QueueInv(s, R), YieldInv(s, R), NEW x, NEW r, r = Count(s, x)
  PROVE  Moved(r, s, R)
<1>1. /\ QueueInv(r, R) /\ Counted(r, s, x) /\ r.highest = s.highest
      /\ r.active_core = s.active_core /\ r.affinity = s.affinity /\ r.priority = s.priority
  BY CountInv
<1>2. r.yielded \subseteq s.yielded
  BY <1>1, Fields DEF Counted, QueueInv
<1>3. YieldInv(r, R)
  BY <1>1, <1>2, FewerYields
<1> QED
  BY <1>1, <1>3 DEF Moved

\* A migration that is counted.
LEMMA ChangeCoreMoved ==
  ASSUME NEW R \in SUBSET Threads, NEW s, QueueInv(s, R), YieldInv(s, R), NEW x \in R, NEW c \in Cores,
         c \in s.affinity[x], s.active_core[x] # c, NEW front \in BOOLEAN,
         NEW r, r = Count(ChangeCore(s, x, c, front), x)
  PROVE  Moved(r, s, R) /\ CoreSet(r, s, x, c)
<1> DEFINE m == ChangeCore(s, x, c, front)
<1>1. c \in s.affinity[x] \cup {NoCore} /\ c # s.active_core[x]
  OBVIOUS
<1>2. QueueInv(m, R) /\ SameButCore(m, s, x, c)
  BY <1>1, ChangeCoreInv
<1>3. s.active_core \in [Threads -> Cores \cup {NoCore}]
  BY Fields DEF QueueInv
<1>0. r = Count(m, x)
  OBVIOUS
<1> HIDE DEF m
<1>4. /\ QueueInv(r, R) /\ Counted(r, m, x) /\ r.highest = m.highest
      /\ r.active_core = m.active_core /\ r.affinity = m.affinity /\ r.priority = m.priority
  BY <1>0, <1>2, CountInv
<1>5. /\ Counted(r, s, x) /\ r.highest = s.highest
      /\ r.active_core = [s.active_core EXCEPT ![x] = c] /\ r.affinity = s.affinity /\ r.priority = s.priority
  BY <1>2, <1>4 DEF SameButCore, Counted
<1>6. YieldInv(r, R)
  <2>1. x \in Threads /\ \A u \in Threads \ {x} : u \in R <=> u \in R
    OBVIOUS
  <2>2. \A u \in Threads \ {x} : r.active_core[u] = s.active_core[u] /\ r.priority[u] = s.priority[u]
    BY <1>3, <1>5
  <2>3. Counted(r, s, x) /\ r.yielded \in SUBSET Threads
    BY <1>4, <1>5, Fields DEF QueueInv
  <2> QED
    BY <2>1, <2>2, <2>3, CountedForProcess
<1>7. \A t \in Threads : r.active_core[t] = NoCore => s.active_core[t] = NoCore
  BY <1>3, <1>5, NoCoreIsNone
<1> QED
  BY <1>4, <1>5, <1>6, <1>7 DEF Moved, CoreSet

LEMMA ToFrontMoved ==
  ASSUME NEW R \in SUBSET Threads, NEW s, QueueInv(s, R), YieldInv(s, R), NEW c \in Cores,
         NEW x, x = Null \/ (x \in R /\ c \in s.affinity[x] /\ s.active_core[x] # c),
         NEW r, r = MigrateToFront(s, x, c)
  PROVE  Moved(r, s, R)
<1>1. Null \notin Threads
  BY NoThreadAssumption DEF Null
<1>2. CASE x = Null
  BY <1>2 DEF MigrateToFront, Moved
<1>3. CASE x # Null
  <2> DEFINE front == TRUE
  <2>1. x \in R /\ c \in s.affinity[x] /\ s.active_core[x] # c /\ front \in BOOLEAN
    BY <1>3
  <2>2. r = Count(ChangeCore(s, x, c, front), x)
    BY <1>3 DEF MigrateToFront
  <2> HIDE DEF front
  <2> QED
    BY <2>1, <2>2, ChangeCoreMoved
<1> QED
  BY <1>2, <1>3

LEMMA MoveBackMoved ==
  ASSUME NEW R \in SUBSET Threads, NEW s, QueueInv(s, R), YieldInv(s, R), NEW t \in R, s.active_core[t] # NoCore,
         NEW r, r = MoveToScheduledBack(s, t)
  PROVE  Moved(r, s, R)
<1>1. QueueInv(MoveToScheduledBack(s, t), R) /\ SameThreads(MoveToScheduledBack(s, t), s)
  BY MoveBackInv
<1> QED
  BY <1>1, FewerYields DEF Moved, SameThreads

LEMMA RotateMoved ==
  ASSUME NEW R \in SUBSET Threads, NEW s, QueueInv(s, R), YieldInv(s, R), NEW c \in Cores, NEW p, NEW recent,
         NEW r, r = RotateScheduledQueue(s, c, p, recent)
  PROVE  Moved(r, s, R)
<1> DEFINE top    == GetFrontAt(s.scheduled[c], s.priority, p)
           moved  == IF top = Null THEN s ELSE MoveToScheduledBack(s, top)
           front  == GetFrontAt(moved.scheduled[c], s.priority, p)
           rotated == IF front = top THEN moved ELSE Count(Count(moved, top), front)
           Waits(q, x)    == FrontOnItsCore(q, x) # x
           MayLeave(q, x) == MayMigrateFrom(q, FrontOnItsCore(q, x))
           Prefers(x) == front # top /\ x \in recent
           sames   == {x \in Threads : /\ s.priority[x] = p /\ Waits(rotated, x)
                                       /\ Prefers(x) \/ MayLeave(rotated, x)}
           same    == FirstOf(rotated.suggested[c], sames)
           joined  == IF same = Null \/ Prefers(same) THEN rotated ELSE MigrateToFront(rotated, same, c)
           best    == GetScheduledFront(joined, c)
           highers == {x \in Threads : \/ s.priority[x] >= s.priority[best]
                                       \/ Waits(joined, x) /\ MayLeave(joined, x)}
           higher  == FirstOf(joined.suggested[c], highers)
<1>1. r = IF best = Null \/ s.priority[best] < p \/ higher = Null \/ s.priority[higher] >= s.priority[best]
          THEN joined ELSE MigrateToFront(joined, higher, c)
  BY DEF RotateScheduledQueue
<1>0. Moved(s, s, R)
  BY DEF Moved
<1>2. Moved(moved, s, R)
  <2>1. top = Null \/ (top \in R /\ s.active_core[top] = c)
    BY FrontAtInv DEF GetFrontAt
  <2> HIDE DEF top
  <2>2. CASE top = Null
    BY <1>0, <2>2
  <2>3. CASE top # Null
    <3>1. top \in R /\ s.active_core[top] # NoCore
      BY <2>1, <2>3, NoCoreIsNone
    <3> QED
      BY <2>3, <3>1, MoveBackMoved
  <2> QED
    BY <2>2, <2>3
<1> HIDE DEF moved, top
<1>3. Moved(rotated, s, R)
  <2> DEFINE counted == Count(moved, top)
             twice == Count(counted, front)
  <2>1. QueueInv(moved, R) /\ YieldInv(moved, R)
    BY <1>2 DEF Moved
  <2>2. Moved(counted, moved, R)
    BY <2>1, CountMoved
  <2>3. rotated = IF front = top THEN moved ELSE twice
    OBVIOUS
  <2>4. Moved(twice, counted, R)
    <3> HIDE DEF counted
    <3>1. QueueInv(counted, R) /\ YieldInv(counted, R)
      BY <2>2 DEF Moved
    <3> QED
      BY <3>1, CountMoved
  <2> HIDE DEF counted, twice, rotated, front
  <2>5. Moved(twice, s, R)
    BY <1>2, <2>2, <2>4, MovedTwice
  <2> QED
    BY <1>2, <2>3, <2>5
<1> HIDE DEF rotated, front, sames
<1>4. Moved(joined, s, R)
  <2>1. QueueInv(rotated, R) /\ YieldInv(rotated, R)
    BY <1>3 DEF Moved
  <2>2. same = Null \/ (same \in R /\ c \in rotated.affinity[same] /\ rotated.active_core[same] # c)
    BY <2>1, SuggestionInv
  <2> HIDE DEF same
  <2>3. Moved(MigrateToFront(rotated, same, c), rotated, R)
    BY <2>1, <2>2, ToFrontMoved
  <2>4. Moved(MigrateToFront(rotated, same, c), s, R)
    BY <1>3, <2>3, MovedTwice
  <2> QED
    BY <1>3, <2>4
<1> HIDE DEF joined, highers, best
<1>5. Moved(MigrateToFront(joined, higher, c), s, R)
  <2>1. QueueInv(joined, R) /\ YieldInv(joined, R)
    BY <1>4 DEF Moved
  <2>2. higher = Null \/ (higher \in R /\ c \in joined.affinity[higher] /\ joined.active_core[higher] # c)
    BY <2>1, SuggestionInv
  <2> HIDE DEF higher
  <2>3. Moved(MigrateToFront(joined, higher, c), joined, R)
    BY <2>1, <2>2, ToFrontMoved
  <2> QED
    BY <1>4, <2>3, MovedTwice
<1> HIDE DEF higher
<1> QED
  BY <1>1, <1>4, <1>5

LEMMA RotateAllMoved ==
  ASSUME NEW R \in SUBSET Threads, NEW s, QueueInv(s, R), YieldInv(s, R), NEW recent,
         NEW r, r = RotateAllQueues(s, recent)
  PROVE  Moved(r, s, R)
<1>1. PICK f : Rounds(f, r, FALSE, recent, s)
  BY RotateRounds
<1>2. Moved(f[0], s, R)
  BY <1>1 DEF Rounds, Moved
<1> DEFINE bad == {n \in 0..NumCores : ~Moved(f[n], s, R)}
<1>3. bad = {}
  <2> SUFFICES ASSUME bad # {} PROVE FALSE
    OBVIOUS
  <2>1. bad \in SUBSET Nat
    BY NumCoresAssumption
  <2> DEFINE n == Min(bad)
  <2>2. n \in bad /\ \A m \in bad : n <= m
    BY <2>1, MinIsLeast
  <2> HIDE DEF n
  <2>3. n \in 0..NumCores /\ n # 0 /\ NumCores \in Nat
    BY <1>2, <2>2, NumCoresAssumption
  <2>4. n - 1 \in 0..NumCores /\ n \in 1..NumCores /\ n - 1 \notin bad /\ n - 1 \in Cores
    BY <2>2, <2>3 DEF Cores
  <2>5. Moved(f[n - 1], s, R)
    BY <2>4
  <2>6. f[n] = RotateScheduledQueue(f[n - 1], n - 1, PreemptionPriority[n - 1], recent)
    <3>1. f[n] = Round(FALSE, recent, f[n - 1], n - 1)
      BY <1>1, <2>4 DEF Rounds
    <3> QED
      BY <3>1 DEF Round
  <2>7. QueueInv(f[n - 1], R) /\ YieldInv(f[n - 1], R)
    BY <2>5 DEF Moved
  <2>8. Moved(f[n], f[n - 1], R)
    BY <2>4, <2>6, <2>7, RotateMoved
  <2> QED
    BY <2>2, <2>5, <2>8, MovedTwice
<1>4. NumCores \in 0..NumCores /\ r = f[NumCores]
  BY <1>1, NumCoresAssumption DEF Rounds
<1> QED
  BY <1>3, <1>4

-----------------------------------------------------------------------------
(* The critical sections                                                   *)

AllMigratable == \A p \in Priorities : p >= HighestCoreMigrationAllowedPriority

\* No core is idle while a thread that may run on it waits.
Busy(s, R) ==
  /\ s.priority \in [Threads -> Priorities]
  /\ AllMigratable => \A c \in Cores : Singles(s, R, c)

\* A section of thread t leads from s to r, with the runnable threads R: the cores with
\* another choice are noted, and only t may have lost its core.
Section(r, s, R, t) ==
  /\ Good(r, R) /\ Busy(r, R)
  /\ \A c \in Cores : r.highest[c] # s.highest[c] => c \in r.resched
  /\ \A u \in Threads \ {t} : r.active_core[u] = NoCore => s.active_core[u] = NoCore

\* It ends with an update.
LEMMA UpdateSection ==
  ASSUME NEW R \in SUBSET Threads, NEW s, NEW m, QueueInv(m, R), YieldInv(m, R), NEW t,
         m.highest = s.highest, m.priority \in [Threads -> Priorities],
         \A u \in Threads \ {t} : m.active_core[u] = NoCore => s.active_core[u] = NoCore,
         NEW r, r = UpdateHighestPriorityThreads(m)
  PROVE  Section(r, s, R, t)
<1>1. Updated(r, m, R)
  BY UpdateInv
<1>2. Good(r, R) /\ Chosen(r, m)
  BY <1>1 DEF Updated
<1>3. Busy(r, R)
  <2>1. AllMigratable => Migratable(m)
    BY DEF AllMigratable, Migratable
  <2> QED
    BY <1>1, <1>2, <2>1 DEF Updated, Busy, Chosen
<1> QED
  BY <1>2, <1>3 DEF Section, Chosen

\* Or the choices stay as they were, and so do the cores of the threads.
LEMMA QuietSection ==
  ASSUME NEW R \in SUBSET Threads, NEW s, NEW r, QueueInv(r, R), YieldInv(r, R), Fronts(r), NEW t,
         r.highest = s.highest, r.priority \in [Threads -> Priorities], Busy(s, R),
         \A u \in R : r.active_core[u] = s.active_core[u] /\ r.affinity[u] = s.affinity[u],
         \A u \in Threads \ {t} : r.active_core[u] = NoCore => s.active_core[u] = NoCore
  PROVE  Section(r, s, R, t)
<1>1. \A c \in Cores : Singles(s, R, c) => Singles(r, R, c)
  BY DEF Singles, Empty
<1>2. Busy(r, R)
  BY <1>1 DEF Busy
<1> QED
  BY <1>2 DEF Section, Good

LEMMA WaitSection ==
  ASSUME NEW R \in SUBSET Threads, NEW s, Good(s, R), Busy(s, R), NEW t \in R,
         NEW r, r = UpdateHighestPriorityThreads(Count(RemoveMember(s, t), t))
  PROVE  Section(r, s, R \ {t}, t)
<1> DEFINE a == RemoveMember(s, t)
           m == Count(a, t)
           Q == R \ {t}
<1>1. /\ QueueInv(a, Q) /\ SameThreads(a, s) /\ Q \in SUBSET Threads
      /\ YieldInv(s, R) /\ \A u \in Threads \ {t} : u \in Q <=> u \in R
  BY RemoveMemberInv DEF Good
<1>0. r = UpdateHighestPriorityThreads(m) /\ m = Count(a, t)
  OBVIOUS
<1> HIDE DEF a, m, Q
<1>2. /\ QueueInv(m, Q) /\ Counted(m, s, t) /\ m.highest = s.highest
      /\ m.active_core = s.active_core /\ m.priority = s.priority
  <2>1. /\ QueueInv(m, Q) /\ Counted(m, a, t) /\ m.highest = a.highest
        /\ m.active_core = a.active_core /\ m.priority = a.priority
    BY <1>0, <1>1, CountInv
  <2> QED
    BY <1>1, <2>1 DEF SameThreads, Counted
<1>3. YieldInv(m, Q) /\ m.priority \in [Threads -> Priorities]
  <2>1. m.yielded \in SUBSET Threads
    BY <1>2, Fields DEF QueueInv
  <2> QED
    BY <1>1, <1>2, <2>1, CountedForProcess DEF Busy
<1>4. Section(r, s, Q, t)
  BY <1>0, <1>1, <1>2, <1>3, UpdateSection
<1> QED
  BY <1>4 DEF Q

LEMMA WakeupSection ==
  ASSUME NEW R \in SUBSET Threads, NEW s, Good(s, R), Busy(s, R), NEW t \in Threads \ R, NEW v,
         NEW r, r = UpdateHighestPriorityThreads(Count(PushBack(s, t), t))
  PROVE  Section(r, s, R \cup {t}, v)
<1> DEFINE a == PushBack(s, t)
           m == Count(a, t)
           Q == R \cup {t}
<1>1. /\ QueueInv(a, Q) /\ SameThreads(a, s) /\ Q \in SUBSET Threads
      /\ YieldInv(s, R) /\ \A u \in Threads \ {t} : u \in Q <=> u \in R
  BY PushBackInv DEF Good
<1>0. r = UpdateHighestPriorityThreads(m) /\ m = Count(a, t)
  OBVIOUS
<1> HIDE DEF a, m, Q
<1>2. /\ QueueInv(m, Q) /\ Counted(m, s, t) /\ m.highest = s.highest
      /\ m.active_core = s.active_core /\ m.priority = s.priority
  <2>1. /\ QueueInv(m, Q) /\ Counted(m, a, t) /\ m.highest = a.highest
        /\ m.active_core = a.active_core /\ m.priority = a.priority
    BY <1>0, <1>1, CountInv
  <2> QED
    BY <1>1, <2>1 DEF SameThreads, Counted
<1>3. YieldInv(m, Q) /\ m.priority \in [Threads -> Priorities]
  <2>1. m.yielded \in SUBSET Threads
    BY <1>2, Fields DEF QueueInv
  <2> QED
    BY <1>1, <1>2, <2>1, CountedForProcess DEF Busy
<1>4. Section(r, s, Q, v)
  BY <1>0, <1>1, <1>2, <1>3, UpdateSection
<1> QED
  BY <1>4 DEF Q

LEMMA PrioritySection ==
  ASSUME NEW R \in SUBSET Threads, NEW s, Good(s, R), Busy(s, R), NEW t \in Threads, NEW p \in Priorities,
         NEW running \in BOOLEAN, NEW v,
         NEW r, r = IF t \in R THEN UpdateHighestPriorityThreads(Count(ChangePriority(s, t, p, running), t))
                               ELSE WithPriority(s, t, p)
  PROVE  Section(r, s, R, v)
<1>1. p \in Nat /\ s \in SchedType /\ QueueInv(s, R) /\ s.priority \in [Threads -> Priorities]
  BY PrioritiesAssumption DEF Good, QueueInv, Busy
<1>2. CASE t \in R
  <2> DEFINE a == ChangePriority(s, t, p, running)
             m == Count(a, t)
  <2>7. a = ChangePriority(s, t, p, running)
    OBVIOUS
  <2>1. QueueInv(a, R) /\ SameChoice(a, s) /\ a.active_core = s.active_core
    <3> HIDE DEF a
    <3>1. t \in R /\ p \in Nat /\ QueueInv(s, R)
      BY <1>1, <1>2
    <3> QED
      BY <2>7, <3>1, ChangePriorityInv
  <2>2. a.priority = [s.priority EXCEPT ![t] = p]
    BY <1>1 DEF ChangePriority, PushFront, PushBack, RemoveMember, SchedType
  <2>0. r = UpdateHighestPriorityThreads(m) /\ m = Count(a, t)
    BY <1>2
  <2> HIDE DEF a, m
  <2>3. /\ QueueInv(m, R) /\ Counted(m, s, t) /\ m.highest = s.highest
        /\ m.active_core = s.active_core /\ m.priority = [s.priority EXCEPT ![t] = p]
    <3>1. /\ QueueInv(m, R) /\ Counted(m, a, t) /\ m.highest = a.highest
          /\ m.active_core = a.active_core /\ m.priority = a.priority
      BY <2>0, <2>1, CountInv
    <3> QED
      BY <2>1, <2>2, <3>1 DEF SameChoice, Counted
  <2>5. \A u \in Threads \ {t} : m.priority[u] = s.priority[u]
    BY <1>1, <2>3
  <2>6. YieldInv(m, R)
    <3>1. \A u \in Threads \ {t} : m.active_core[u] = s.active_core[u] /\ m.priority[u] = s.priority[u]
      BY <2>3, <2>5
    <3>2. YieldInv(s, R) /\ m.yielded \in SUBSET Threads
      BY <2>3, Fields DEF Good, QueueInv
    <3> QED
      BY <2>3, <3>1, <3>2, CountedForProcess
  <2>4. YieldInv(m, R) /\ m.priority \in [Threads -> Priorities]
    BY <1>1, <2>3, <2>6
  <2> QED
    BY <2>0, <2>3, <2>4, UpdateSection
<1>3. CASE t \notin R
  <2>0. r = WithPriority(s, t, p)
    BY <1>3
  <2>1. QueueInv(r, R) /\ SameChoice(r, s) /\ SameButPriority(r, s, t, p)
    BY <1>1, <1>3, <2>0, NewPriorityInv
  <2>2. /\ r.active_core = s.active_core /\ r.affinity = s.affinity /\ r.scheduled = s.scheduled
        /\ r.priority = [s.priority EXCEPT ![t] = p] /\ r.highest = s.highest /\ r.yielded = s.yielded
    <3>1. r.scheduled = s.scheduled
      BY <1>1, <2>0 DEF WithPriority, SchedType
    <3> QED
      BY <2>1, <3>1 DEF SameChoice, SameButPriority
  <2>3. r.priority \in [Threads -> Priorities] /\ \A u \in R : r.priority[u] = s.priority[u]
    BY <1>1, <1>3, <2>2
  <2>4. YieldInv(r, R) /\ Fronts(r)
    BY <2>2, <2>3 DEF Good, YieldInv, Near, Fronts
  <2> QED
    BY <2>1, <2>2, <2>3, <2>4, QuietSection
<1> QED
  BY <1>2, <1>3

LEMMA MaskSection ==
  ASSUME NEW R \in SUBSET Threads, NEW s, Good(s, R), Busy(s, R), NEW t \in Threads,
         NEW mask \in SUBSET Cores, NEW ideal \in mask, NEW v,
         NEW core, core = IF s.active_core[t] = NoCore \/ s.active_core[t] \in mask THEN s.active_core[t] ELSE ideal,
         NEW r, r = CASE mask = s.affinity[t] -> s
                      [] mask # s.affinity[t] /\ t \in R ->
                           UpdateHighestPriorityThreads(Count(ChangeAffinityMask(s, t, mask, core), t))
                      [] OTHER -> WithMask(s, t, mask, core)
  PROVE  Section(r, s, R, v)
<1>1. s \in SchedType /\ QueueInv(s, R) /\ YieldInv(s, R) /\ Fronts(s) /\ s.priority \in [Threads -> Priorities]
  BY DEF Good, QueueInv, Busy
<1>2. core \in mask \cup {NoCore} /\ (core = NoCore => s.active_core[t] = NoCore)
  BY NoCoreIsNone
<1>3. s.active_core \in [Threads -> Cores \cup {NoCore}]
  BY <1>1, Fields
<1>4. CASE mask = s.affinity[t]
  <2>1. r = s
    BY <1>4
  <2> QED
    BY <1>1, <2>1, QuietSection
<1>5. CASE mask # s.affinity[t] /\ t \in R
  <2> DEFINE a == ChangeAffinityMask(s, t, mask, core)
             m == Count(a, t)
  <2>1. QueueInv(a, R) /\ SameChoice(a, s) /\ CoreSet(a, s, t, core)
    BY <1>1, <1>2, <1>5, ChangeMaskInv
  <2>2. a.priority = s.priority
    BY <1>1 DEF ChangeAffinityMask, PushBack, RemoveMember, SchedType
  <2>0. r = UpdateHighestPriorityThreads(m) /\ m = Count(a, t)
    BY <1>5
  <2> HIDE DEF a, m
  <2>3. /\ QueueInv(m, R) /\ Counted(m, s, t) /\ m.highest = s.highest
        /\ m.active_core = a.active_core /\ m.priority = s.priority
    <3>1. /\ QueueInv(m, R) /\ Counted(m, a, t) /\ m.highest = a.highest
          /\ m.active_core = a.active_core /\ m.priority = a.priority
      BY <2>0, <2>1, CountInv
    <3> QED
      BY <2>1, <2>2, <3>1 DEF SameChoice, Counted
  <2>4. \A u \in Threads \ {v} : m.active_core[u] = NoCore => s.active_core[u] = NoCore
    BY <1>2, <1>3, <2>1, <2>3 DEF CoreSet
  <2>6. \A u \in Threads \ {t} : m.active_core[u] = s.active_core[u]
    BY <1>3, <2>1, <2>3 DEF CoreSet
  <2>5. YieldInv(m, R) /\ m.priority \in [Threads -> Priorities]
    <3>1. m.yielded \in SUBSET Threads
      BY <2>3, Fields DEF QueueInv
    <3> QED
      BY <1>1, <2>3, <2>6, <3>1, CountedForProcess
  <2> QED
    BY <2>0, <2>3, <2>4, <2>5, UpdateSection
<1>6. CASE mask # s.affinity[t] /\ t \notin R
  <2>0. r = WithMask(s, t, mask, core)
    BY <1>6
  <2>1. QueueInv(r, R) /\ SameChoice(r, s) /\ SameButMask(r, s, t, mask, core)
    BY <1>1, <1>2, <1>6, <2>0, NewMaskInv
  <2>2. /\ r.active_core = [s.active_core EXCEPT ![t] = core]
        /\ r.affinity = [s.affinity EXCEPT ![t] = mask]
        /\ r.priority = s.priority /\ r.highest = s.highest /\ r.yielded = s.yielded
        /\ r.scheduled = s.scheduled
    <3>1. r.scheduled = s.scheduled
      BY <1>1, <2>0 DEF WithMask, SchedType
    <3> QED
      BY <2>1, <3>1 DEF SameChoice, SameButMask
  <2>3. \A u \in R : r.active_core[u] = s.active_core[u] /\ r.affinity[u] = s.affinity[u]
    <3>1. s.affinity \in [Threads -> SUBSET Cores]
      BY <1>1, Fields
    <3> QED
      BY <1>3, <1>6, <2>2, <3>1
  <2>4. YieldInv(r, R) /\ Fronts(r)
    <3>1. r.priority = s.priority /\ r.highest = s.highest /\ r.yielded = s.yielded /\ r.scheduled = s.scheduled
      BY <2>2
    <3>2. Fronts(r)
      BY <1>1, <3>1 DEF Fronts
    <3>3. YieldInv(r, R)
      BY <1>1, <2>3, <3>1 DEF YieldInv, Near
    <3> QED
      BY <3>2, <3>3
  <2>5. \A u \in Threads \ {v} : r.active_core[u] = NoCore => s.active_core[u] = NoCore
    BY <1>2, <1>3, <2>2
  <2> QED
    BY <1>1, <2>1, <2>2, <2>3, <2>4, <2>5, QuietSection
<1> QED
  BY <1>4, <1>5, <1>6

LEMMA PreemptSection ==
  ASSUME NEW R \in SUBSET Threads, NEW s, Good(s, R), Busy(s, R), NEW recent, NEW v,
         NEW r, r = UpdateHighestPriorityThreads(RotateAllQueues(s, recent))
  PROVE  Section(r, s, R, v)
<1> DEFINE m == RotateAllQueues(s, recent)
<1>1. Moved(m, s, R)
  BY RotateAllMoved DEF Good
<1>0. r = UpdateHighestPriorityThreads(m)
  OBVIOUS
<1> HIDE DEF m
<1>2. m.priority \in [Threads -> Priorities]
  BY <1>1 DEF Moved, Busy
<1> QED
  BY <1>0, <1>1, <1>2, UpdateSection DEF Moved

\* t has no equal on its core.
Alone(s, t, R) == \A u \in R \ {t} : s.active_core[u] = s.active_core[t] => s.priority[u] # s.priority[t]

WithYield(s, t) == [s EXCEPT !.yielded = @ \cup {t}]

LEMMA WithYieldInv ==
  ASSUME NEW R \in SUBSET Threads, NEW s, QueueInv(s, R), NEW t \in R, YieldInv(s, R), s.active_core[t] # NoCore,
         Alone(s, t, R), NEW r, r = WithYield(s, t)
  PROVE  /\ QueueInv(r, R) /\ YieldInv(r, R)
         /\ r.highest = s.highest /\ r.active_core = s.active_core /\ r.affinity = s.affinity
         /\ r.priority = s.priority /\ r.scheduled = s.scheduled
<1>1. s \in SchedType /\ CoresAllowed(s) /\ Held(s.scheduled, On(R, s.active_core), s.priority)
      /\ Held(s.suggested, For(R, s.active_core, s.affinity), s.priority)
  BY DEF QueueInv
<1>2. /\ r \in SchedType /\ r.yielded = s.yielded \cup {t} /\ r.highest = s.highest /\ r.resched = s.resched
      /\ r.active_core = s.active_core /\ r.affinity = s.affinity /\ r.priority = s.priority
      /\ r.scheduled = s.scheduled /\ r.suggested = s.suggested
  BY <1>1 DEF WithYield, SchedType
<1>3. QueueInv(r, R)
  BY <1>1, <1>2 DEF QueueInv, CoresAllowed
<1>4. YieldInv(r, R)
  BY <1>2 DEF YieldInv, Near, Alone
<1> QED
  BY <1>2, <1>3, <1>4

\* A yield leaves m behind: it is updated, or nothing has changed but the order of the queue.
LEMMA YieldSection ==
  ASSUME NEW R \in SUBSET Threads, NEW s, Good(s, R), Busy(s, R), NEW t \in R, s.active_core[t] # NoCore,
         NEW m, QueueInv(m, R), YieldInv(m, R), m.highest = s.highest, m.priority = s.priority,
         m.affinity = s.affinity,
         \A u \in Threads \ {t} : m.active_core[u] = NoCore => s.active_core[u] = NoCore,
         NEW needed \in BOOLEAN, NEW recheck \in BOOLEAN,
         ~needed => Fronts(m) /\ Alone(m, t, R) /\ m.active_core = s.active_core,
         NEW r, r = CASE needed -> UpdateHighestPriorityThreads(m)
                      [] ~needed /\ recheck -> m
                      [] OTHER -> WithYield(m, t)
  PROVE  Section(r, s, R, t)
<1>1. YieldInv(m, R) /\ m.priority \in [Threads -> Priorities]
  BY DEF Busy
<1>2. CASE needed
  <2>1. r = UpdateHighestPriorityThreads(m)
    BY <1>2
  <2> QED
    BY <1>1, <2>1, UpdateSection
<1>3. CASE ~needed /\ recheck
  <2>1. r = m
    BY <1>3
  <2> QED
    BY <1>1, <1>3, <2>1, QuietSection
<1>4. CASE ~needed /\ ~recheck
  <2>1. r = WithYield(m, t)
    BY <1>4
  <2>2. Fronts(m) /\ Alone(m, t, R) /\ m.active_core = s.active_core
    BY <1>4
  <2>3. /\ QueueInv(r, R) /\ YieldInv(r, R)
        /\ r.highest = m.highest /\ r.active_core = m.active_core /\ r.affinity = m.affinity
        /\ r.priority = m.priority /\ r.scheduled = m.scheduled
    BY <1>1, <2>1, <2>2, WithYieldInv
  <2>4. Fronts(r)
    BY <2>2, <2>3 DEF Fronts
  <2> QED
    BY <1>1, <2>2, <2>3, <2>4, QuietSection
<1> QED
  BY <1>2, <1>3, <1>4

\* What MoveToScheduledBack does to the chosen threads
BackMoved(m, s, t, R) ==
  /\ Moved(m, s, R) /\ m.active_core = s.active_core
  /\ FrontOfPriority(m, t) = t => Fronts(m) /\ Alone(m, t, R)

LEMMA MovedBackInv ==
  ASSUME NEW R \in SUBSET Threads, NEW s, Good(s, R), NEW t \in R, s.active_core[t] # NoCore,
         NEW m, m = Count(MoveToScheduledBack(s, t), t)
  PROVE  BackMoved(m, s, t, R)
<1> DEFINE a == MoveToScheduledBack(s, t)
           core == s.active_core[t]
<1>1. QueueInv(s, R) /\ YieldInv(s, R) /\ Fronts(s) /\ s \in SchedType
  BY DEF Good, QueueInv
<1>2. core \in Cores /\ s.priority \in [Threads -> Nat]
  BY <1>1, Fields
<1>3. /\ QueueInv(a, R) /\ SameThreads(a, s)
      /\ \A c \in Cores : a.scheduled[c] = IF c = core THEN InsertBack(RemoveFirst(s.scheduled[c], t), t, s.priority)
                                                       ELSE s.scheduled[c]
  BY <1>1, MoveBackInv
<1>4. Moved(a, s, R)
  BY <1>1, MoveBackMoved
<1>0. m = Count(a, t)
  OBVIOUS
<1> HIDE DEF a, core
<1>5. /\ Moved(m, a, R) /\ m.active_core = s.active_core
      /\ m.priority = s.priority /\ m.scheduled = a.scheduled /\ m.highest = s.highest
  <2>1. QueueInv(a, R) /\ YieldInv(a, R)
    BY <1>4 DEF Moved
  <2>2. Moved(m, a, R)
    BY <1>0, <2>1, CountMoved
  <2>3. /\ m.active_core = a.active_core /\ m.priority = a.priority /\ m.scheduled = a.scheduled
        /\ m.highest = a.highest
    BY <1>0, <2>1, CountInv
  <2> QED
    BY <1>3, <2>2, <2>3 DEF SameThreads
<1>6. ASSUME FrontOfPriority(m, t) = t PROVE Fronts(m) /\ Alone(m, t, R)
  <2> DEFINE q == s.scheduled[core]
             n == m.scheduled[core]
             S == {u \in R : s.active_core[u] = core}
             pr == s.priority
  <2>1. Ordered(q, S, pr)
    BY <1>1, <1>2, ScheduledFront
  <2>2. S \in SUBSET Threads /\ t \in S /\ pr \in [Threads -> Nat]
    BY <1>2 DEF core
  <2>3. n = InsertBack(RemoveFirst(q, t), t, pr)
    BY <1>2, <1>3, <1>5
  <2>4. GetFrontAt(n, pr, pr[t]) = t
    BY <1>5, <1>6 DEF FrontOfPriority, core
  <2> HIDE DEF q, n, S, pr
  <2>5. GetFront(n) = GetFront(q) /\ \A u \in S \ {t} : pr[u] # pr[t]
    BY <2>1, <2>2, <2>3, <2>4, MovedBack
  <2>6. Alone(m, t, R)
    BY <1>5, <2>5 DEF Alone, S, pr, core
  <2>7. Fronts(m)
    <3> SUFFICES ASSUME NEW c \in Cores PROVE m.highest[c] = GetFront(m.scheduled[c])
      BY DEF Fronts
    <3>1. s.highest[c] = GetFront(s.scheduled[c])
      BY <1>1 DEF Fronts
    <3>2. CASE c = core
      BY <1>5, <2>5, <3>1, <3>2 DEF n, q
    <3>3. CASE c # core
      BY <1>3, <1>5, <3>1, <3>3
    <3> QED
      BY <3>2, <3>3
  <2> QED
    BY <2>6, <2>7
<1> QED
  BY <1>4, <1>5, <1>6, MovedTwice DEF BackMoved

\* Nothing has come of it.
Restored(m, s, t, R) == Fronts(m) /\ Alone(m, t, R) /\ m.active_core = s.active_core

\* The migrated thread t returns to its core, where no other has come.
LEMMA BackOnCore ==
  ASSUME NEW R \in SUBSET Threads, NEW s, Good(s, R), NEW t \in R, NEW core \in Cores, s.active_core[t] = core,
         NEW front \in BOOLEAN, ~front,
         NEW a, a = Count(ChangeCore(s, t, NoCore, front), t), a.scheduled[core] = <<>>,
         NEW m, m = Count(ChangeCore(a, t, core, front), t)
  PROVE  Restored(m, s, t, R)
<1> DEFINE b == ChangeCore(s, t, NoCore, front)
           d == ChangeCore(a, t, core, front)
<1>1. QueueInv(s, R) /\ Fronts(s) /\ s \in SchedType
  BY DEF Good, QueueInv
<1>2. /\ s.active_core \in [Threads -> Cores \cup {NoCore}] /\ s.priority \in [Threads -> Nat]
      /\ core \in s.affinity[t] /\ NoCore # core
  BY <1>1, Fields, NoCoreIsNone DEF QueueInv, CoresAllowed
<1>3. b = ChangeCore(s, t, NoCore, front) /\ d = ChangeCore(a, t, core, front)
  OBVIOUS
<1>4. NoCore \in s.affinity[t] \cup {NoCore} /\ NoCore # s.active_core[t]
  BY <1>2
<1>0. a = Count(b, t) /\ m = Count(d, t)
  OBVIOUS
<1> HIDE DEF b, d
<1>5. QueueInv(b, R) /\ SameButCore(b, s, t, NoCore) /\ CoreLeft(b, s, t, NoCore)
  BY <1>1, <1>2, <1>3, <1>4, ChangeCoreInv
<1>6. /\ QueueInv(a, R) /\ a.highest = b.highest /\ a.active_core = b.active_core /\ a.affinity = b.affinity
      /\ a.priority = b.priority /\ a.scheduled = b.scheduled
  <2>1. QueueInv(b, R) /\ a = Count(b, t)
    BY <1>0, <1>5
  <2> QED
    BY <2>1, CountInv
<1>7. /\ a.active_core[t] = NoCore /\ a.affinity = s.affinity /\ a.priority = s.priority /\ a.highest = s.highest
  BY <1>2, <1>5, <1>6 DEF SameButCore
<1>8. core \in a.affinity[t] \cup {NoCore} /\ core # a.active_core[t]
  BY <1>2, <1>7
<1>9. QueueInv(d, R) /\ SameButCore(d, a, t, core) /\ CoreLeft(d, a, t, core) /\ BackEntered(d, a, t, core)
  BY <1>2, <1>3, <1>6, <1>8, ChangeCoreInv
<1>10. /\ QueueInv(m, R) /\ m.highest = d.highest /\ m.active_core = d.active_core
       /\ m.affinity = d.affinity /\ m.priority = d.priority /\ m.scheduled = d.scheduled
  <2>1. QueueInv(d, R) /\ m = Count(d, t)
    BY <1>0, <1>9
  <2> QED
    BY <2>1, CountInv
<1>11. m.highest = s.highest /\ m.affinity = s.affinity /\ m.priority = s.priority
  BY <1>7, <1>9, <1>10 DEF SameButCore
<1>12. m.active_core = s.active_core
  <2>1. a.active_core = [s.active_core EXCEPT ![t] = NoCore]
    BY <1>5, <1>6 DEF SameButCore
  <2>2. m.active_core = [a.active_core EXCEPT ![t] = core]
    BY <1>9, <1>10 DEF SameButCore
  <2> QED
    BY <1>2, <2>1, <2>2
<1> DEFINE S == {u \in R : s.active_core[u] = core}
           q == s.scheduled[core]
           rest == S \ {t}
           pr == s.priority
<1>13. Ordered(q, S, pr) /\ S \in SUBSET Threads /\ t \in S /\ pr \in [Threads -> Nat]
  BY <1>1, <1>2, ScheduledFront
<1>14. a.scheduled[core] = RemoveFirst(q, t)
  BY <1>2, <1>5, <1>6 DEF CoreLeft
<1>15. rest \in SUBSET Threads /\ t \in Threads \ rest /\ \A u \in S : u # t => u \in rest
  BY <1>13
<1>16. Ordered(a.scheduled[core], rest, pr)
  <2> HIDE DEF S, q, pr
  <2> QED
    BY <1>13, <1>14, RemoveOrdered
<1>17. rest = {}
  <2> DEFINE z == a.scheduled[core]
  <2>1. z = <<>> /\ Ordered(z, rest, pr)
    BY <1>16
  <2> HIDE DEF z, rest, pr
  <2> QED
    BY <1>15, <2>1, FrontOfOrdered
<1>18. Alone(m, t, R)
  BY <1>12, <1>15, <1>17 DEF Alone
<1>19. GetFront(q) = t
  <2>1. S # {} /\ \A u \in S : u = t
    BY <1>13, <1>15, <1>17
  <2> HIDE DEF S, q, pr, rest
  <2> QED
    BY <1>13, <2>1, FrontOfOrdered
<1>20. GetFront(m.scheduled[core]) = t
  <2> DEFINE z == a.scheduled[core]
  <2>1. Len(z) = 0 /\ Ordered(z, rest, pr) /\ m.scheduled[core] = InsertBack(z, t, pr)
    BY <1>7, <1>9, <1>10, <1>16 DEF BackEntered
  <2> HIDE DEF z, rest, pr, S
  <2>2. GetFront(InsertBack(z, t, pr)) = t
    BY <1>13, <1>15, <2>1, InsertBackOrdered
  <2> QED
    BY <2>1, <2>2
<1> HIDE DEF S, q, rest, pr
<1>21. Fronts(m)
  <2> SUFFICES ASSUME NEW c \in Cores PROVE m.highest[c] = GetFront(m.scheduled[c])
    BY DEF Fronts
  <2>1. s.highest[c] = GetFront(s.scheduled[c]) /\ c # NoCore
    BY <1>1, NoCoreIsNone DEF Fronts
  <2>2. CASE c = core
    BY <1>11, <1>19, <1>20, <2>1, <2>2 DEF q
  <2>3. CASE c # core
    <3>1. b.scheduled[c] = s.scheduled[c]
      BY <1>5, <2>1, <2>3 DEF CoreLeft
    <3>2. d.scheduled[c] = a.scheduled[c]
      BY <1>7, <1>9, <2>1, <2>3 DEF CoreLeft
    <3> QED
      BY <1>6, <1>10, <1>11, <2>1, <3>1, <3>2
  <2> QED
    BY <2>2, <2>3
<1> QED
  BY <1>12, <1>18, <1>21 DEF Restored

-----------------------------------------------------------------------------
(* The invariant of the system                                             *)

Runnables == {t \in Threads : state[t] = "Runnable"}

SchedInv == Good(sched, Runnables) /\ Busy(sched, Runnables) /\ sched.resched = {}

OwnerInv ==
  /\ locked = UNION {Owned(c) : c \in Cores}
  /\ \A c, e \in Cores : c # e => Owned(c) \cap Owned(e) = {}

\* Core c has been interrupted, or is going to be.
Told(c) == c \in interrupted \/ \E a \in Cores \cup {Host} : c \in ipi[a]

\* Core c has, or is switching to, the thread chosen for it, or it will look again.
ChoiceInv ==
  /\ \A c \in Cores : ipi[c] # {} => pc[c] = "enable"
  /\ \A c \in Cores :
       /\ pc[c] = "run" => current[c] = Target(c) \/ (c \in needs /\ Told(c))
       /\ pc[c] = "enable" => current[c] = Target(c) \/ c \in needs
       /\ pc[c] = "lock" => next[c] = Target(c) \/ c \in needs
       /\ pc[c] = "check" => current[c] = next[c] /\ (next[c] = Target(c) \/ c \in needs)

\* A thread that may enter the kernel is runnable, and on a core.
RunInv ==
  \A c \in Cores : pc[c] = "run" /\ current[c] # Idle =>
    state[current[c]] = "Runnable" /\ sched.active_core[current[c]] # NoCore

Inv == TypeOK /\ SchedInv /\ OwnerInv /\ ChoiceInv /\ RunInv

LEMMA Names ==
  /\ Host \notin Cores /\ Null \notin Threads /\ Idle \notin Threads /\ Idle # Null
  /\ Cores \subseteq Nat /\ NoCore \notin Cores
BY NumCoresAssumption, NoThreadAssumption, IdleAssumption, NoCoreIsNone DEF Host, Cores, Null

\* Without a change of what the cores own
LEMMA SameOwners ==
  ASSUME OwnerInv, locked' = locked, \A c \in Cores : Owned(c)' = Owned(c)
  PROVE  OwnerInv'
<1>1. UNION {Owned(c)' : c \in Cores} = UNION {Owned(c) : c \in Cores}
  OBVIOUS
<1> QED
  BY <1>1 DEF OwnerInv

WithoutResched(s) == [s EXCEPT !.resched = {}]

LEMMA ReschedCleared ==
  ASSUME NEW R \in SUBSET Threads, NEW s, Good(s, R), Busy(s, R), NEW r, r = WithoutResched(s)
  PROVE  /\ Good(r, R) /\ Busy(r, R) /\ r.resched = {}
         /\ r.highest = s.highest /\ r.active_core = s.active_core /\ s.resched \in SUBSET Cores
<1>1. /\ s \in SchedType /\ CoresAllowed(s) /\ Held(s.scheduled, On(R, s.active_core), s.priority)
      /\ Held(s.suggested, For(R, s.active_core, s.affinity), s.priority)
  BY DEF Good, QueueInv
<1>2. /\ r \in SchedType /\ r.yielded = s.yielded /\ r.highest = s.highest /\ r.resched = {}
      /\ r.active_core = s.active_core /\ r.affinity = s.affinity /\ r.priority = s.priority
      /\ r.scheduled = s.scheduled /\ r.suggested = s.suggested
  BY <1>1 DEF WithoutResched, SchedType
<1>3. s.resched \in SUBSET Cores
  BY <1>1, Fields
<1>4. QueueInv(r, R)
  BY <1>1, <1>2 DEF QueueInv, CoresAllowed
<1>5. YieldInv(r, R) /\ Fronts(r)
  BY <1>2 DEF Good, YieldInv, Near, Fronts
<1>6. Busy(r, R)
  BY <1>2 DEF Busy, Singles, Empty
<1> QED
  BY <1>2, <1>3, <1>4, <1>5, <1>6 DEF Good

\* A critical section of core a, or of the host: it leaves s behind, with the runnable
\* threads R, and only t, which no other core executes, may have left its core.
LEMMA Critical ==
  ASSUME Inv, NEW a \in Cores \cup {Host}, a \in Cores => pc[a] = "run", ipi[a] = {},
         NEW s, NEW R \in SUBSET Threads, NEW t, Section(s, sched, R, t), Unlock(a, s),
         Runnables' = R, state' \in [Threads -> {"Runnable", "Waiting"}],
         \A u \in Runnables : u # t => u \in R,
         \A c \in Cores : c # a /\ pc[c] = "run" => current[c] # t,
         UNCHANGED <<interrupted, current, next, locked>>,
         masking' \in [Threads -> Threads \cup {Null}]
  PROVE  Inv'
<1> DEFINE r == WithoutResched(s)
<1>1. /\ TypeOK /\ SchedInv /\ OwnerInv /\ ChoiceInv /\ RunInv
  BY DEF Inv
<1>2. /\ Good(s, R) /\ Busy(s, R)
      /\ \A c \in Cores : s.highest[c] # sched.highest[c] => c \in s.resched
      /\ \A u \in Threads \ {t} : s.active_core[u] = NoCore => sched.active_core[u] = NoCore
  BY DEF Section
<1>3. /\ sched' = r /\ needs' = needs \cup s.resched
      /\ ipi' = [ipi EXCEPT ![a] = s.resched \ {a}]
      /\ \A c \in Cores : pc'[c] = IF c = a THEN "enable" ELSE pc[c]
      /\ pc' = [c \in Cores |-> IF c = a THEN "enable" ELSE pc[c]]
  BY DEF Unlock, WithoutResched
<1>4. /\ Good(r, R) /\ Busy(r, R) /\ r.resched = {}
      /\ r.highest = s.highest /\ r.active_core = s.active_core /\ s.resched \in SUBSET Cores
  BY <1>2, ReschedCleared
<1> HIDE DEF r
<1>5. TypeOK'
  BY <1>1, <1>3, <1>4 DEF TypeOK, Executing
<1>6. SchedInv'
  BY <1>3, <1>4 DEF SchedInv
<1>7. OwnerInv'
  <2>1. ASSUME NEW c \in Cores PROVE Owned(c)' = Owned(c)
    BY <1>3 DEF Owned, Executing
  <2> QED
    BY <1>1, <2>1, SameOwners
<1>8. ASSUME NEW c \in Cores PROVE Target(c)' = Target(c) \/ c \in needs'
  BY <1>2, <1>3, <1>4 DEF Target
<1>9. ChoiceInv'
  <2>1. ASSUME NEW c \in Cores, ipi'[c] # {} PROVE pc'[c] = "enable"
    BY <1>1, <1>3, <2>1 DEF ChoiceInv, TypeOK
  <2>2. ASSUME NEW c \in Cores, pc'[c] = "run"
        PROVE  current'[c] = Target(c)' \/ (c \in needs' /\ Told(c)')
    <3>1. pc[c] = "run" /\ c # a
      BY <1>3, <2>2
    <3>2. CASE c \in s.resched
      <4>1. c \in ipi'[a]
        BY <1>1, <1>3, <3>1, <3>2 DEF TypeOK
      <4> QED
        BY <1>3, <3>2, <4>1 DEF Told
    <3>3. CASE c \notin s.resched
      <4>1. Target(c)' = Target(c)
        BY <1>2, <1>3, <1>4, <3>3 DEF Target
      <4>2. Told(c) => Told(c)'
        BY <1>1, <1>3 DEF Told, TypeOK
      <4> QED
        BY <1>1, <1>3, <3>1, <4>1, <4>2 DEF ChoiceInv
    <3> QED
      BY <3>2, <3>3
  <2>3. ASSUME NEW c \in Cores, pc'[c] = "enable" PROVE current'[c] = Target(c)' \/ c \in needs'
    BY <1>1, <1>3, <1>8, <2>3 DEF ChoiceInv
  <2>4. ASSUME NEW c \in Cores, pc'[c] = "lock" PROVE next'[c] = Target(c)' \/ c \in needs'
    BY <1>1, <1>3, <1>8, <2>4 DEF ChoiceInv
  <2>5. ASSUME NEW c \in Cores, pc'[c] = "check"
        PROVE  current'[c] = next'[c] /\ (next'[c] = Target(c)' \/ c \in needs')
    BY <1>1, <1>3, <1>8, <2>5 DEF ChoiceInv
  <2> QED
    BY <2>1, <2>2, <2>3, <2>4, <2>5 DEF ChoiceInv
<1>10. RunInv'
  <2> SUFFICES ASSUME NEW c \in Cores, pc'[c] = "run", current'[c] # Idle
               PROVE  state'[current'[c]] = "Runnable" /\ sched'.active_core[current'[c]] # NoCore
    BY DEF RunInv
  <2>1. pc[c] = "run" /\ c # a /\ current'[c] = current[c] /\ current[c] \in Threads /\ current[c] # t
    BY <1>1, <1>3 DEF TypeOK
  <2>2. current[c] \in Runnables /\ sched.active_core[current[c]] # NoCore
    BY <1>1, <2>1 DEF RunInv, Runnables
  <2>3. current[c] \in R /\ sched'.active_core[current[c]] # NoCore
    BY <1>2, <1>3, <1>4, <2>1, <2>2
  <2>4. current[c] \in Runnables'
    BY <2>3
  <2> QED
    BY <2>1, <2>3, <2>4 DEF Runnables
<1> QED
  BY <1>5, <1>6, <1>7, <1>9, <1>10 DEF Inv

-----------------------------------------------------------------------------
(* The critical sections keep it.                                          *)

LEMMA Enters ==
  ASSUME Inv, NEW c \in Cores, pc[c] = "run", current[c] # Idle
  PROVE  /\ current[c] \in Runnables /\ current[c] \in Threads
         /\ sched.active_core[current[c]] # NoCore /\ ipi[c] = {}
         /\ \A e \in Cores : e # c /\ pc[e] = "run" => current[e] # current[c]
<1>1. TypeOK /\ OwnerInv /\ ChoiceInv /\ RunInv
  BY DEF Inv
<1>2. current[c] \in Threads /\ ipi[c] = {}
  BY <1>1 DEF TypeOK, ChoiceInv
<1>3. ASSUME NEW e \in Cores, e # c, pc[e] = "run" PROVE current[e] # current[c]
  <2>1. Owned(c) = {current[c]} \ {Idle} /\ Owned(e) = {current[e]} \ {Idle}
    BY <1>3 DEF Owned, Executing
  <2>2. Owned(c) \cap Owned(e) = {}
    BY <1>1, <1>3 DEF OwnerInv
  <2> QED
    BY <2>1, <2>2
<1> QED
  BY <1>1, <1>2, <1>3 DEF RunInv, Runnables

LEMMA CoreEnters ==
  ASSUME Inv, NEW c \in Cores, CanEnter(c)
  PROVE  pc[c] = "run" /\ current[c] # Idle
BY Names DEF CanEnter

\* A section of core c that leaves the states of the threads alone
LEMMA CoreCritical ==
  ASSUME Inv, NEW c \in Cores, pc[c] = "run", current[c] # Idle,
         NEW s, Section(s, sched, Runnables, current[c]), Unlock(c, s),
         UNCHANGED <<state, interrupted, current, next, locked>>,
         masking' \in [Threads -> Threads \cup {Null}]
  PROVE  Inv'
<1> DEFINE R == Runnables
           t == current[c]
<1>1. ipi[c] = {} /\ (\A e \in Cores : e # c /\ pc[e] = "run" => current[e] # t) /\ c \in Cores \cup {Host}
  BY Enters
<1>2. /\ Runnables' = R /\ R \in SUBSET Threads /\ (\A u \in Runnables : u # t => u \in R)
      /\ state' \in [Threads -> {"Runnable", "Waiting"}]
  BY DEF Runnables, Inv, TypeOK
<1>3. Section(s, sched, R, t) /\ UNCHANGED <<interrupted, current, next, locked>>
  OBVIOUS
<1> HIDE DEF R, t
<1> QED
  BY <1>1, <1>2, <1>3, Critical

LEMMA WaitInv ==
  ASSUME Inv, NEW c \in Cores, NEW t \in Blocking, BeginWait(c, t)
  PROVE  Inv'
<1> DEFINE R == Runnables \ {t}
           s == UpdateHighestPriorityThreads(Count(RemoveMember(sched, t), t))
<1>1. /\ pc[c] = "run" /\ current[c] = t /\ t \in Threads /\ current[c] # Idle
      /\ state' = [state EXCEPT ![t] = "Waiting"] /\ Unlock(c, s)
      /\ UNCHANGED <<interrupted, current, next, locked, masking>>
  BY CoreEnters, SubsetsAssumption DEF BeginWait
<1>2. TypeOK /\ Good(sched, Runnables) /\ Busy(sched, Runnables)
  BY DEF Inv, SchedInv
<1>3. /\ t \in Runnables /\ ipi[c] = {} /\ \A e \in Cores : e # c /\ pc[e] = "run" => current[e] # t
  BY <1>1, Enters
<1>4. Section(s, sched, R, t)
  <2>1. Runnables \in SUBSET Threads
    BY DEF Runnables
  <2> QED
    BY <1>2, <1>3, <2>1, WaitSection
<1>5. /\ state' \in [Threads -> {"Runnable", "Waiting"}] /\ Runnables' = R /\ R \in SUBSET Threads
      /\ masking' \in [Threads -> Threads \cup {Null}]
      /\ \A u \in Runnables : u # t => u \in R
  BY <1>1, <1>2 DEF TypeOK, Runnables
<1> HIDE DEF R, s
<1> QED
  BY <1>1, <1>3, <1>4, <1>5, Critical

LEMMA WakeupInv ==
  ASSUME Inv, NEW a \in Cores \cup {Host}, NEW t \in Threads, Wakeup(a, t)
  PROVE  Inv'
<1> DEFINE R == Runnables \cup {t}
           s == UpdateHighestPriorityThreads(Count(PushBack(sched, t), t))
           v == Null
<1>1. /\ state[t] = "Waiting" /\ CanEnter(a)
      /\ state' = [state EXCEPT ![t] = "Runnable"] /\ Unlock(a, s)
      /\ UNCHANGED <<interrupted, current, next, locked, masking>>
  BY DEF Wakeup
<1>2. TypeOK /\ Good(sched, Runnables) /\ Busy(sched, Runnables)
  BY DEF Inv, SchedInv
<1>3. (a \in Cores => pc[a] = "run") /\ ipi[a] = {}
  <2>1. CASE a \in Cores
    BY <1>1, <2>1, CoreEnters, Enters
  <2>2. CASE a = Host
    BY <1>1, <2>2, Names DEF CanEnter
  <2> QED
    BY <2>1, <2>2
<1>4. Section(s, sched, R, v)
  <2>1. Runnables \in SUBSET Threads /\ t \in Threads \ Runnables
    BY <1>1 DEF Runnables
  <2> QED
    BY <1>2, <2>1, WakeupSection
<1>5. /\ state' \in [Threads -> {"Runnable", "Waiting"}] /\ Runnables' = R /\ R \in SUBSET Threads
      /\ masking' \in [Threads -> Threads \cup {Null}]
      /\ \A u \in Runnables : u # v => u \in R
  BY <1>1, <1>2 DEF TypeOK, Runnables
<1>6. \A c \in Cores : c # a /\ pc[c] = "run" => current[c] # v
  BY <1>2, Names DEF TypeOK
<1> HIDE DEF R, s, v
<1> QED
  BY <1>1, <1>3, <1>4, <1>5, <1>6, Critical

LEMMA PriorityInv ==
  ASSUME Inv, NEW c \in Cores, NEW t \in Reprioritized, NEW p \in Priorities, SetPriority(c, t, p)
  PROVE  Inv'
<1> DEFINE running == t = current[c]
           s == IF t \in Runnables THEN UpdateHighestPriorityThreads(Count(ChangePriority(sched, t, p, running), t))
                                   ELSE WithPriority(sched, t, p)
<1>1. t \in Threads /\ running \in BOOLEAN /\ Runnables \in SUBSET Threads
  BY SubsetsAssumption DEF Runnables
<1>2. /\ CanEnter(c) /\ Unlock(c, s)
      /\ UNCHANGED <<state, interrupted, current, next, locked, masking>>
  BY <1>1 DEF SetPriority, WithPriority, Runnables
<1>3. TypeOK /\ Good(sched, Runnables) /\ Busy(sched, Runnables)
  BY DEF Inv, SchedInv
<1>0. s = IF t \in Runnables THEN UpdateHighestPriorityThreads(Count(ChangePriority(sched, t, p, running), t))
                             ELSE WithPriority(sched, t, p)
  OBVIOUS
<1> HIDE DEF s, running
<1>4. Section(s, sched, Runnables, current[c])
  BY <1>0, <1>1, <1>3, PrioritySection
<1>5. pc[c] = "run" /\ current[c] # Idle /\ masking' \in [Threads -> Threads \cup {Null}]
  BY <1>2, <1>3, CoreEnters DEF TypeOK
<1> QED
  BY <1>2, <1>4, <1>5, CoreCritical

LEMMA MaskInv ==
  ASSUME Inv, NEW c \in Cores, NEW t \in Maskable, NEW mask \in SUBSET Cores, NEW ideal \in mask,
         SetCoreMask(c, t, mask, ideal)
  PROVE  Inv'
<1> DEFINE core == IF sched.active_core[t] = NoCore \/ sched.active_core[t] \in mask
                   THEN sched.active_core[t] ELSE ideal
           s == CASE mask = sched.affinity[t] -> sched
                  [] mask # sched.affinity[t] /\ t \in Runnables ->
                       UpdateHighestPriorityThreads(Count(ChangeAffinityMask(sched, t, mask, core), t))
                  [] OTHER -> WithMask(sched, t, mask, core)
<1>1. t \in Threads /\ Runnables \in SUBSET Threads
  BY SubsetsAssumption DEF Runnables
<1>2. /\ CanEnter(c) /\ Unlock(c, s) /\ masking' = [masking EXCEPT ![current[c]] = t]
      /\ UNCHANGED <<state, interrupted, current, next, locked>>
  BY <1>1 DEF SetCoreMask, WithMask, Runnables
<1>3. TypeOK /\ Good(sched, Runnables) /\ Busy(sched, Runnables)
  BY DEF Inv, SchedInv
<1>0. s = CASE mask = sched.affinity[t] -> sched
            [] mask # sched.affinity[t] /\ t \in Runnables ->
                 UpdateHighestPriorityThreads(Count(ChangeAffinityMask(sched, t, mask, core), t))
            [] OTHER -> WithMask(sched, t, mask, core)
  OBVIOUS
<1>6. core = IF sched.active_core[t] = NoCore \/ sched.active_core[t] \in mask
              THEN sched.active_core[t] ELSE ideal
  OBVIOUS
<1> HIDE DEF s, core
<1>4. Section(s, sched, Runnables, current[c])
  BY <1>0, <1>6, <1>1, <1>3, MaskSection
<1>5. pc[c] = "run" /\ current[c] # Idle /\ masking' \in [Threads -> Threads \cup {Null}]
  BY <1>1, <1>2, <1>3, CoreEnters DEF TypeOK
<1> QED
  BY <1>2, <1>4, <1>5, CoreCritical

LEMMA MaskIsSetInv ==
  ASSUME Inv, NEW c \in Cores, NEW t \in Threads, CoreMaskIsSet(c, t)
  PROVE  Inv'
<1>1. TypeOK /\ Good(sched, Runnables) /\ Busy(sched, Runnables)
  BY DEF Inv, SchedInv
<1>2. /\ pc[c] = "run" /\ current[c] # Idle /\ Unlock(c, sched)
      /\ UNCHANGED <<state, interrupted, current, next, locked>>
      /\ masking' \in [Threads -> Threads \cup {Null}]
  BY <1>1, Names DEF CoreMaskIsSet, Running, TypeOK
<1>3. Section(sched, sched, Runnables, current[c])
  BY <1>1 DEF Section
<1> QED
  BY <1>2, <1>3, CoreCritical

LEMMA PreemptInv ==
  ASSUME Inv, PreemptThreads
  PROVE  Inv'
<1> DEFINE v == Null
           R == Runnables
<1>1. TypeOK /\ Good(sched, R) /\ Busy(sched, R) /\ R \in SUBSET Threads
  BY DEF Inv, SchedInv, Runnables
<1>2. PICK recent : Unlock(Host, UpdateHighestPriorityThreads(RotateAllQueues(sched, recent)))
  BY DEF PreemptThreads
<1> DEFINE s == UpdateHighestPriorityThreads(RotateAllQueues(sched, recent))
<1>3. Section(s, sched, R, v)
  <2> HIDE DEF R, v
  <2> QED
    BY <1>1, PreemptSection
<1>4. /\ CanEnter(Host) /\ UNCHANGED <<state, interrupted, current, next, locked, masking>>
  BY DEF PreemptThreads
<1>5. Host \in Cores \cup {Host} /\ Host \notin Cores /\ ipi[Host] = {}
  BY <1>4, Names DEF CanEnter
<1>6. /\ state' \in [Threads -> {"Runnable", "Waiting"}] /\ Runnables' = R
      /\ masking' \in [Threads -> Threads \cup {Null}]
      /\ \A u \in Runnables : u # v => u \in R
  BY <1>1, <1>4 DEF TypeOK, Runnables
<1>7. \A c \in Cores : c # Host /\ pc[c] = "run" => current[c] # v
  BY <1>1, Names DEF TypeOK
<1>8. Unlock(Host, s) /\ UNCHANGED <<interrupted, current, next, locked>>
  BY <1>2, <1>4
<1> DEFINE a == Host
<1>9. a \in Cores \cup {Host} /\ (a \in Cores => pc[a] = "run") /\ ipi[a] = {} /\ Unlock(a, s)
      /\ \A c \in Cores : c # a /\ pc[c] = "run" => current[c] # v
  BY <1>5, <1>7, <1>8
<1> HIDE DEF R, s, v, a
<1> QED
  BY <1>1, <1>3, <1>6, <1>8, <1>9, Critical

\* The state m in which a yield of t may end
Yielded(m, s, R, t, needed) ==
  /\ QueueInv(m, R) /\ YieldInv(m, R)
  /\ m.highest = s.highest /\ m.priority = s.priority /\ m.affinity = s.affinity
  /\ \A u \in Threads \ {t} : m.active_core[u] = NoCore => s.active_core[u] = NoCore
  /\ ~needed => Fronts(m) /\ Alone(m, t, R) /\ m.active_core = s.active_core

LEMMA YieldStep ==
  ASSUME Inv, NEW c \in Cores, CanEnter(c), NEW t, current[c] = t, NEW m, NEW needed \in BOOLEAN,
         NEW recheck \in BOOLEAN, Yielded(m, sched, Runnables, t, needed), Yield(c, t, m, needed, recheck)
  PROVE  Inv'
<1> DEFINE s == CASE needed -> UpdateHighestPriorityThreads(m)
                  [] ~needed /\ recheck -> m
                  [] OTHER -> WithYield(m, t)
           R == Runnables
<1>1. pc[c] = "run" /\ current[c] # Idle
  BY CoreEnters
<1>2. t \in R /\ sched.active_core[t] # NoCore /\ R \in SUBSET Threads
  BY <1>1, Enters DEF Runnables
<1>3. Unlock(c, s) /\ UNCHANGED <<state, interrupted, current, next, locked, masking>>
  BY DEF Yield, WithYield
<1>4. TypeOK /\ Good(sched, R) /\ Busy(sched, R)
  BY DEF Inv, SchedInv
<1>0. s = CASE needed -> UpdateHighestPriorityThreads(m)
            [] ~needed /\ recheck -> m
            [] OTHER -> WithYield(m, t)
  OBVIOUS
<1>5. Yielded(m, sched, R, t, needed)
  OBVIOUS
<1> HIDE DEF s, R
<1>6. Section(s, sched, R, t)
  BY <1>0, <1>2, <1>4, <1>5, YieldSection DEF Yielded
<1>7. masking' \in [Threads -> Threads \cup {Null}]
  BY <1>3, <1>4 DEF TypeOK
<1> QED
  BY <1>1, <1>3, <1>6, <1>7, CoreCritical DEF R

LEMMA YieldWithoutInv ==
  ASSUME Inv, NEW c \in Cores, NEW t \in Yielding, YieldWithoutCoreMigration(c, t)
  PROVE  Inv'
<1> DEFINE m == Count(MoveToScheduledBack(sched, t), t)
           needed == FrontOfPriority(m, t) # t
           recheck == FALSE
           R == Runnables
<1>1. CanEnter(c) /\ current[c] = t /\ Yield(c, t, m, needed, recheck)
  BY DEF YieldWithoutCoreMigration, CanYield
<1>2. needed \in BOOLEAN /\ recheck \in BOOLEAN
  OBVIOUS
<1>3. t \in R /\ sched.active_core[t] # NoCore /\ R \in SUBSET Threads
  BY <1>1, CoreEnters, Enters DEF Runnables
<1>4. Good(sched, R)
  BY DEF Inv, SchedInv
<1>5. BackMoved(m, sched, t, R)
  <2> HIDE DEF R
  <2> QED
    BY <1>3, <1>4, MovedBackInv
<1>6. ~needed => FrontOfPriority(m, t) = t
  OBVIOUS
<1> HIDE DEF m, needed, recheck
<1>7. Yielded(m, sched, Runnables, t, needed)
  <2> HIDE DEF R
  <2>1. Yielded(m, sched, R, t, needed)
    BY <1>5, <1>6 DEF Yielded, BackMoved, Moved
  <2> QED
    BY <2>1 DEF R
<1> QED
  BY <1>1, <1>2, <1>7, YieldStep

LEMMA YieldWithInv ==
  ASSUME Inv, NEW c \in Cores, NEW t \in Yielding, YieldWithCoreMigration(c, t)
  PROVE  Inv'
<1>1. PICK recent \in SUBSET Range(sched.suggested[sched.active_core[t]]) :
     LET core  == sched.active_core[t]
         moved == Count(MoveToScheduledBack(sched, t), t)
         front == FrontOfPriority(moved, t)
         Prefers(x) == \/ sched.priority[x] > sched.priority[t]
                       \/ sched.priority[x] = sched.priority[t] /\ front # t /\ x \in recent
         Waits(x) == TopThread(moved, x) # x
         Stops(x) == Waits(x) /\ (Prefers(x) \/ MayMigrateFrom(moved, TopThread(moved, x)))
         stop     == FirstOf(moved.suggested[core], {x \in Threads : Stops(x)})
         suggested == IF stop = Null \/ Prefers(stop) THEN Null ELSE stop
         recheck  == \E i \in 1 .. Len(moved.suggested[core]) :
                       /\ Waits(moved.suggested[core][i])
                       /\ \A j \in 1 .. i : ~ Stops(moved.suggested[core][j])
     IN  Yield(c, t, MigrateToFront(moved, suggested, core), suggested # Null \/ front # t, recheck)
  BY DEF YieldWithCoreMigration
<1> DEFINE core  == sched.active_core[t]
           moved == Count(MoveToScheduledBack(sched, t), t)
           front == FrontOfPriority(moved, t)
           Prefers(x) == \/ sched.priority[x] > sched.priority[t]
                         \/ sched.priority[x] = sched.priority[t] /\ front # t /\ x \in recent
           Waits(x) == TopThread(moved, x) # x
           Stops(x) == Waits(x) /\ (Prefers(x) \/ MayMigrateFrom(moved, TopThread(moved, x)))
           stops    == {x \in Threads : Stops(x)}
           stop     == FirstOf(moved.suggested[core], stops)
           suggested == IF stop = Null \/ Prefers(stop) THEN Null ELSE stop
           recheck  == \E i \in 1 .. Len(moved.suggested[core]) :
                         /\ Waits(moved.suggested[core][i])
                         /\ \A j \in 1 .. i : ~ Stops(moved.suggested[core][j])
           m == MigrateToFront(moved, suggested, core)
           needed == suggested # Null \/ front # t
           R == Runnables
<1>2. CanEnter(c) /\ current[c] = t
  BY DEF YieldWithCoreMigration, CanYield
<1>3. Yield(c, t, m, needed, recheck)
  BY <1>1
<1>4. needed \in BOOLEAN /\ recheck \in BOOLEAN
  OBVIOUS
<1>5. t \in R /\ core # NoCore /\ R \in SUBSET Threads
  BY <1>2, CoreEnters, Enters DEF Runnables
<1>6. Good(sched, R)
  BY DEF Inv, SchedInv
<1>7. BackMoved(moved, sched, t, R)
  <2> HIDE DEF R
  <2> QED
    BY <1>5, <1>6, MovedBackInv
<1>8. core \in Cores
  <2>1. sched \in SchedType
    BY <1>6 DEF Good, QueueInv
  <2> QED
    BY <1>5, <2>1, Fields
<1>9. /\ ~needed => suggested = Null /\ front = t
      /\ front = FrontOfPriority(moved, t) /\ m = MigrateToFront(moved, suggested, core)
      /\ suggested = Null \/ suggested = stop
      /\ stop = FirstOf(moved.suggested[core], stops)
  OBVIOUS
<1> HIDE DEF moved, stops, stop, suggested, front, m, needed, recheck, core
<1>10. Yielded(m, sched, Runnables, t, needed)
  <2> HIDE DEF R
  <2>1. Moved(moved, sched, R) /\ moved.active_core = sched.active_core
    BY <1>7 DEF BackMoved
  <2>2. QueueInv(moved, R) /\ YieldInv(moved, R)
    BY <2>1 DEF Moved
  <2>3. stop = Null \/ (stop \in R /\ core \in moved.affinity[stop] /\ moved.active_core[stop] # core)
    BY <1>5, <1>8, <1>9, <2>2, SuggestionInv
  <2>4. suggested = Null \/ (suggested \in R /\ core \in moved.affinity[suggested] /\ moved.active_core[suggested] # core)
    BY <1>9, <2>3
  <2>5. Moved(m, moved, R)
    BY <1>5, <1>8, <1>9, <2>1, <2>2, <2>4, ToFrontMoved
  <2>6. Moved(m, sched, R)
    BY <2>1, <2>5, MovedTwice
  <2>7. ASSUME ~needed PROVE Fronts(m) /\ Alone(m, t, R) /\ m.active_core = sched.active_core
    <3>1. m = moved
      BY <1>9, <2>7 DEF MigrateToFront
    <3> QED
      BY <1>7, <1>9, <2>1, <2>7, <3>1 DEF BackMoved
  <2>8. Yielded(m, sched, R, t, needed)
    BY <2>5, <2>6, <2>7 DEF Yielded, Moved
  <2> QED
    BY <2>8 DEF R
<1> QED
  BY <1>2, <1>3, <1>4, <1>10, YieldStep

LEMMA YieldAnyInv ==
  ASSUME Inv, NEW c \in Cores, NEW t \in Yielding, YieldToAnyThread(c, t)
  PROVE  Inv'
<1> DEFINE core  == sched.active_core[t]
           moved == Count(ChangeCore(sched, t, NoCore, FALSE), t)
           waits == {x \in Threads : FrontOnItsCore(moved, x) # x}
           suggested == FirstOf(moved.suggested[core], waits)
           migrated  == IF suggested = Null \/ ~ MayMigrateFrom(moved, FrontOnItsCore(moved, suggested))
                        THEN moved ELSE Count(ChangeCore(moved, suggested, core, FALSE), suggested)
           empty == moved.scheduled[core] = <<>>
           m == IF empty THEN migrated ELSE moved
           needed == suggested # t \/ ~empty
           recheck == FALSE
           R == Runnables
<1>1. CanEnter(c) /\ current[c] = t
  BY DEF YieldToAnyThread, CanYield
<1>2. Yield(c, t, m, needed, recheck)
  <2>1. IF empty THEN Yield(c, t, migrated, suggested # t, recheck) ELSE Yield(c, t, moved, TRUE, recheck)
    BY DEF YieldToAnyThread
  <2> HIDE DEF moved, migrated, suggested, recheck
  <2>2. CASE empty
    <3>1. m = migrated /\ (needed <=> suggested # t)
      BY <2>2
    <3> QED
      BY <2>1, <2>2, <3>1 DEF Yield
  <2>3. CASE ~empty
    BY <2>1, <2>3 DEF Yield
  <2> QED
    BY <2>2, <2>3
<1>3. needed \in BOOLEAN /\ recheck \in BOOLEAN
  OBVIOUS
<1>4. t \in R /\ core # NoCore /\ R \in SUBSET Threads
  BY <1>1, CoreEnters, Enters DEF Runnables
<1>5. Good(sched, R) /\ QueueInv(sched, R) /\ sched \in SchedType
  BY DEF Inv, SchedInv, Good, QueueInv
<1>6. core \in Cores /\ sched.active_core \in [Threads -> Cores \cup {NoCore}]
  BY <1>4, <1>5, Fields
<1>7. /\ QueueInv(moved, R) /\ Counted(moved, sched, t)
      /\ moved.highest = sched.highest /\ moved.priority = sched.priority /\ moved.affinity = sched.affinity
      /\ moved.active_core = [sched.active_core EXCEPT ![t] = NoCore]
  <2> DEFINE b == ChangeCore(sched, t, NoCore, FALSE)
             front == FALSE
  <2>1. /\ NoCore \in sched.affinity[t] \cup {NoCore} /\ NoCore # sched.active_core[t] /\ front \in BOOLEAN
        /\ b = ChangeCore(sched, t, NoCore, front) /\ moved = Count(b, t)
    BY <1>4
  <2> HIDE DEF b, front, R
  <2>2. QueueInv(b, R) /\ SameButCore(b, sched, t, NoCore)
    BY <1>4, <1>5, <2>1, ChangeCoreInv
  <2> HIDE DEF moved
  <2>3. /\ QueueInv(moved, R) /\ Counted(moved, b, t) /\ moved.highest = b.highest
        /\ moved.active_core = b.active_core /\ moved.affinity = b.affinity /\ moved.priority = b.priority
    BY <1>4, <2>1, <2>2, CountInv
  <2> QED
    BY <2>2, <2>3 DEF SameButCore, Counted
<1>8. /\ moved.highest = sched.highest /\ moved.priority = sched.priority /\ moved.affinity = sched.affinity
      /\ \A u \in Threads : moved.active_core[u] = IF u = t THEN NoCore ELSE sched.active_core[u]
  BY <1>6, <1>7
<1>14. YieldInv(moved, R)
  <2> HIDE DEF R, moved
  <2>1. YieldInv(sched, R) /\ t \in Threads
    BY <1>4, <1>5 DEF Good
  <2>2. \A u \in Threads \ {t} : moved.active_core[u] = sched.active_core[u] /\ moved.priority[u] = sched.priority[u]
    BY <1>8
  <2>3. R \in SUBSET Threads /\ Counted(moved, sched, t) /\ moved.yielded \in SUBSET Threads
    BY <1>4, <1>7, Fields DEF QueueInv
  <2> QED
    BY <2>1, <2>2, <2>3, CountedForProcess
<1>9. /\ suggested = FirstOf(moved.suggested[core], waits)
      /\ m = IF empty THEN migrated ELSE moved
      /\ needed <=> suggested # t \/ ~empty
      /\ empty <=> moved.scheduled[core] = <<>>
      /\ moved = Count(ChangeCore(sched, t, NoCore, FALSE), t)
      /\ core = sched.active_core[t]
  OBVIOUS
<1> HIDE DEF moved, waits, suggested, needed, recheck, core, empty, m
<1>10. suggested = Null \/ (suggested \in R /\ core \in moved.affinity[suggested] /\ moved.active_core[suggested] # core)
  <2> HIDE DEF R
  <2>1. R \in SUBSET Threads /\ QueueInv(moved, R) /\ core \in Cores /\ suggested = FirstOf(moved.suggested[core], waits)
    BY <1>4, <1>6, <1>7, <1>9
  <2> QED
    BY <2>1, SuggestionInv
<1>11. /\ QueueInv(migrated, R) /\ YieldInv(migrated, R) /\ migrated.highest = sched.highest
       /\ migrated.priority = sched.priority /\ migrated.affinity = sched.affinity
       /\ \A u \in Threads \ {t} : migrated.active_core[u] = NoCore => sched.active_core[u] = NoCore
  <2> HIDE DEF R
  <2>1. CASE migrated = moved
    BY <1>7, <1>8, <1>14, <2>1
  <2>2. CASE migrated # moved
    <3> DEFINE front == FALSE
    <3>1. /\ suggested # Null /\ migrated = Count(ChangeCore(moved, suggested, core, front), suggested) /\ front \in BOOLEAN
      BY <2>2
    <3> HIDE DEF front, migrated
    <3>2. Moved(migrated, moved, R)
      BY <1>4, <1>6, <1>7, <1>10, <1>14, <3>1, ChangeCoreMoved
    <3> QED
      BY <1>8, <3>2 DEF Moved
  <2> QED
    BY <2>1, <2>2
<1>12. ASSUME ~needed PROVE Fronts(migrated) /\ Alone(migrated, t, R) /\ migrated.active_core = sched.active_core
  <2>1. suggested = t /\ moved.scheduled[core] = <<>> /\ t \in Threads /\ t # Null
    BY <1>4, <1>9, <1>12, Names
  <2>2. MayMigrateFrom(moved, FrontOnItsCore(moved, t))
    <3>1. moved.active_core[t] = NoCore
      BY <1>8, <2>1
    <3>2. FrontOnItsCore(moved, t) = Null
      BY <3>1 DEF FrontOnItsCore, GetScheduledFront, Null
    <3> QED
      BY <3>2 DEF MayMigrateFrom
  <2>3. migrated = Count(ChangeCore(moved, t, core, FALSE), t)
    BY <2>1, <2>2
  <2> HIDE DEF migrated, R
  <2>4. /\ R \in SUBSET Threads /\ t \in R /\ Good(sched, R) /\ core \in Cores /\ sched.active_core[t] = core
        /\ moved.scheduled[core] = <<>>
    BY <1>4, <1>5, <1>6, <1>9, <2>1
  <2> DEFINE front == FALSE
  <2>5. /\ moved = Count(ChangeCore(sched, t, NoCore, front), t)
        /\ migrated = Count(ChangeCore(moved, t, core, front), t)
        /\ front \in BOOLEAN /\ ~front
    BY <1>9, <2>3
  <2> HIDE DEF front
  <2>6. Restored(migrated, sched, t, R)
    BY <2>4, <2>5, BackOnCore
  <2> QED
    BY <2>6 DEF Restored
<1> HIDE DEF migrated
<1>13. Yielded(m, sched, Runnables, t, needed)
  <2> HIDE DEF R
  <2>1. CASE empty
    <3>1. m = migrated
      BY <1>9, <2>1
    <3>2. Yielded(migrated, sched, R, t, needed)
      BY <1>11, <1>12 DEF Yielded
    <3> QED
      BY <3>1, <3>2 DEF R
  <2>2. CASE ~empty
    <3>1. m = moved /\ needed
      BY <1>9, <2>2
    <3>2. Yielded(moved, sched, R, t, needed)
      BY <1>7, <1>8, <1>14, <3>1 DEF Yielded
    <3> QED
      BY <3>1, <3>2 DEF R
  <2> QED
    BY <2>1, <2>2
<1> QED
  BY <1>1, <1>2, <1>3, <1>13, YieldStep

-----------------------------------------------------------------------------
(* The switchers keep it.                                                  *)

\* The invariant as far as core c's switcher is concerned
CoreInv(c) ==
  /\ ipi[c] # {} => pc[c] = "enable"
  /\ pc[c] = "run" => current[c] = Target(c) \/ (c \in needs /\ Told(c))
  /\ pc[c] = "enable" => current[c] = Target(c) \/ c \in needs
  /\ pc[c] = "lock" => next[c] = Target(c) \/ c \in needs
  /\ pc[c] = "check" => current[c] = next[c] /\ (next[c] = Target(c) \/ c \in needs)
  /\ pc[c] = "run" /\ current[c] # Idle =>
       state[current[c]] = "Runnable" /\ sched.active_core[current[c]] # NoCore

LEMMA EachCore == ChoiceInv /\ RunInv <=> \A c \in Cores : CoreInv(c)
BY DEF ChoiceInv, RunInv, CoreInv

\* A step of core c's switcher
LEMMA CoreStep ==
  ASSUME Inv, NEW c \in Cores, UNCHANGED <<sched, state, ipi>>, TypeOK', OwnerInv', CoreInv(c)',
         \A e \in Cores : e # c => /\ pc'[e] = pc[e] /\ current'[e] = current[e] /\ next'[e] = next[e]
                                   /\ (e \in needs => e \in needs')
                                   /\ (e \in interrupted => e \in interrupted')
  PROVE  Inv'
<1>1. SchedInv'
  BY DEF Inv, SchedInv, Runnables
<1>2. \A e \in Cores : CoreInv(e)
  BY EachCore DEF Inv
<1>3. ASSUME NEW e \in Cores PROVE CoreInv(e)'
  <2>1. CASE e = c
    BY <2>1
  <2>2. CASE e # c
    <3>1. Target(e)' = Target(e)
      BY DEF Target
    <3>2. Told(e) => Told(e)'
      BY <2>2 DEF Told
    <3> QED
      BY <1>2, <2>2, <3>1, <3>2 DEF CoreInv
  <2> QED
    BY <2>1, <2>2
<1>4. ChoiceInv' /\ RunInv'
  BY <1>3 DEF ChoiceInv, RunInv, CoreInv
<1> QED
  BY <1>1, <1>4 DEF Inv

\* The chosen thread is runnable, and on its core.
LEMMA TargetRuns ==
  ASSUME Inv, NEW c \in Cores, Target(c) # Idle
  PROVE  state[Target(c)] = "Runnable" /\ sched.active_core[Target(c)] # NoCore
<1>1. /\ QueueInv(sched, Runnables) /\ Fronts(sched) /\ Runnables \in SUBSET Threads
  BY DEF Inv, SchedInv, Good, Runnables
<1>2. Target(c) = GetFront(sched.scheduled[c]) /\ GetFront(sched.scheduled[c]) # Null
  BY <1>1 DEF Target, Fronts
<1>3. Target(c) \in Runnables /\ sched.active_core[Target(c)] = c
  <2>1. GetFront(sched.scheduled[c]) \in Runnables /\ sched.active_core[GetFront(sched.scheduled[c])] = c
    BY <1>1, <1>2, ScheduledFront
  <2> QED
    BY <1>2, <2>1
<1> QED
  BY <1>3, NoCoreIsNone DEF Runnables

LEMMA TargetType ==
  ASSUME Inv, NEW c \in Cores
  PROVE  Target(c) \in Threads \cup {Idle}
<1>1. sched \in SchedType
  BY DEF Inv, SchedInv, Good, QueueInv
<1>2. sched.highest \in [Cores -> Threads \cup {Null}]
  BY <1>1, Fields
<1> QED
  BY <1>2 DEF Target

\* Core c gives up the context it owns.
LEMMA GivesUp ==
  ASSUME OwnerInv, NEW c \in Cores, locked' = locked \ Owned(c), Owned(c)' = {},
         \A e \in Cores : e # c => Owned(e)' = Owned(e)
  PROVE  OwnerInv'
<1>1. ASSUME NEW x PROVE x \in locked' <=> \E e \in Cores : x \in Owned(e)'
  <2>1. x \in locked <=> \E e \in Cores : x \in Owned(e)
    BY DEF OwnerInv
  <2>2. \A e \in Cores : e # c /\ x \in Owned(e) => x \notin Owned(c)
    BY DEF OwnerInv
  <2> QED
    BY <2>1, <2>2
<1>2. locked' = UNION {Owned(e)' : e \in Cores}
  BY <1>1
<1> QED
  BY <1>2 DEF OwnerInv

\* Core c takes the free context of x.
LEMMA TakesOn ==
  ASSUME OwnerInv, NEW c \in Cores, NEW x, x \notin locked, Owned(c) = {}, Owned(c)' = {x} \ {Idle},
         locked' = locked \cup ({x} \ {Idle}),
         \A e \in Cores : e # c => Owned(e)' = Owned(e)
  PROVE  OwnerInv'
<1>1. ASSUME NEW y PROVE y \in locked' <=> \E e \in Cores : y \in Owned(e)'
  <2>1. y \in locked <=> \E e \in Cores : y \in Owned(e)
    BY DEF OwnerInv
  <2> QED
    BY <2>1
<1>2. locked' = UNION {Owned(e)' : e \in Cores}
  BY <1>1
<1>3. \A e \in Cores : x \notin Owned(e)
  BY DEF OwnerInv
<1> QED
  BY <1>2, <1>3 DEF OwnerInv

LEMMA SwitcherInv ==
  ASSUME Inv, NEW c \in Cores, Switcher(c)
  PROVE  Inv'
<1>1. TypeOK /\ OwnerInv /\ CoreInv(c)
  BY EachCore DEF Inv
<1>2. CASE RescheduleCurrentCore(c)
  <2>1. /\ pc[c] = "enable" /\ ipi[c] = {} /\ needs' = needs \ {c}
        /\ \/ c \in needs /\ pc' = [pc EXCEPT ![c] = "load"]
           \/ c \notin needs /\ pc' = [pc EXCEPT ![c] = "run"]
        /\ UNCHANGED <<sched, state, interrupted, ipi, current, next, locked, masking>>
    BY <1>2 DEF RescheduleCurrentCore, Step
  <2>2. TypeOK'
    BY <1>1, <2>1 DEF TypeOK, Executing
  <2>3. \A e \in Cores : e # c => pc'[e] = pc[e]
    BY <1>1, <2>1 DEF TypeOK
  <2>4. OwnerInv'
    <3>1. ASSUME NEW e \in Cores PROVE Owned(e)' = Owned(e)
      BY <1>1, <2>1 DEF Owned, Executing, TypeOK
    <3> QED
      BY <1>1, <2>1, <3>1, SameOwners
  <2>5. CoreInv(c)'
    <3>1. Target(c)' = Target(c)
      BY <2>1 DEF Target
    <3>2. CASE c \in needs
      <4>1. pc'[c] = "load"
        BY <1>1, <2>1, <3>2 DEF TypeOK
      <4> QED
        BY <2>1, <4>1 DEF CoreInv
    <3>3. CASE c \notin needs
      <4>1. pc'[c] = "run" /\ current[c] = Target(c)
        BY <1>1, <2>1, <3>3 DEF TypeOK, CoreInv
      <4> QED
        BY <2>1, <3>1, <4>1, TargetRuns DEF CoreInv
    <3> QED
      BY <3>2, <3>3
  <2> QED
    BY <2>1, <2>2, <2>3, <2>4, <2>5, CoreStep
<1>3. CASE HandleInterrupt(c)
  <2>1. /\ pc[c] = "run" /\ pc' = [pc EXCEPT ![c] = "load"]
        /\ interrupted' = interrupted \ {c} /\ needs' = needs \ {c}
        /\ UNCHANGED <<sched, state, ipi, current, next, locked, masking>>
    BY <1>3 DEF HandleInterrupt, Step
  <2>2. TypeOK' /\ pc'[c] = "load" /\ \A e \in Cores : e # c => pc'[e] = pc[e]
    BY <1>1, <2>1 DEF TypeOK, Executing
  <2>4. OwnerInv'
    <3>1. ASSUME NEW e \in Cores PROVE Owned(e)' = Owned(e)
      BY <2>1, <2>2 DEF Owned, Executing
    <3> QED
      BY <1>1, <2>1, <3>1, SameOwners
  <2>5. CoreInv(c)'
    BY <1>1, <2>1, <2>2 DEF CoreInv
  <2> QED
    BY <2>1, <2>2, <2>4, <2>5, CoreStep
<1>4. CASE ScheduleReturns(c)
  <2>1. /\ sched.highest[c] = current[c] /\ pc[c] = "load" /\ pc' = [pc EXCEPT ![c] = "run"]
        /\ UNCHANGED <<sched, state, needs, interrupted, ipi, current, next, locked, masking>>
    BY <1>4 DEF ScheduleReturns, Step
  <2>2. TypeOK' /\ pc'[c] = "run" /\ \A e \in Cores : e # c => pc'[e] = pc[e]
    BY <1>1, <2>1 DEF TypeOK, Executing
  <2>4. OwnerInv'
    <3>1. ASSUME NEW e \in Cores PROVE Owned(e)' = Owned(e)
      BY <2>1, <2>2 DEF Owned, Executing
    <3> QED
      BY <1>1, <2>1, <3>1, SameOwners
  <2>5. CoreInv(c)'
    <3>1. current[c] = Target(c) /\ Target(c)' = Target(c)
      BY <1>1, <2>1, Names DEF Target, TypeOK
    <3>2. ipi[c] = {}
      BY <1>1, <2>1 DEF CoreInv
    <3> QED
      BY <2>1, <2>2, <3>1, <3>2, TargetRuns DEF CoreInv
  <2> QED
    BY <2>1, <2>2, <2>4, <2>5, CoreStep
<1>5. CASE Unload(c)
  <2>1. /\ pc[c] = "load" /\ pc' = [pc EXCEPT ![c] = "lock"]
        /\ next' = [next EXCEPT ![c] = Target(c)] /\ locked' = locked \ {current[c]}
        /\ UNCHANGED <<sched, state, needs, interrupted, ipi, current, masking>>
    BY <1>5 DEF Unload, Step
  <2>2. /\ TypeOK' /\ pc'[c] = "lock" /\ next'[c] = Target(c)
        /\ \A e \in Cores : e # c => pc'[e] = pc[e] /\ next'[e] = next[e]
    BY <1>1, <2>1, TargetType DEF TypeOK, Executing
  <2>4. OwnerInv'
    <3>1. ASSUME NEW e \in Cores, e # c PROVE Owned(e)' = Owned(e)
      BY <2>1, <2>2, <3>1 DEF Owned, Executing
    <3>2. Owned(c)' = {} /\ Owned(c) = {current[c]} \ {Idle}
      BY <2>1, <2>2 DEF Owned, Executing
    <3>3. locked' = locked \ Owned(c)
      BY <1>1, <2>1, <3>2, Names DEF TypeOK
    <3> QED
      BY <1>1, <3>1, <3>2, <3>3, GivesUp
  <2>5. CoreInv(c)'
    <3>1. Target(c)' = Target(c) /\ ipi[c] = {}
      BY <1>1, <2>1 DEF Target, CoreInv
    <3> QED
      BY <2>1, <2>2, <3>1 DEF CoreInv
  <2> QED
    BY <2>1, <2>2, <2>4, <2>5, CoreStep
<1>6. CASE SwitchThread(c)
  <2>1. /\ next[c] \notin locked /\ pc[c] = "lock" /\ pc' = [pc EXCEPT ![c] = "check"]
        /\ locked' = locked \cup ({next[c]} \ {Idle}) /\ current' = [current EXCEPT ![c] = next[c]]
        /\ UNCHANGED <<sched, state, needs, interrupted, ipi, next, masking>>
    BY <1>6 DEF SwitchThread, Step
  <2>2. /\ TypeOK' /\ pc'[c] = "check" /\ current'[c] = next[c]
        /\ \A e \in Cores : e # c => pc'[e] = pc[e] /\ current'[e] = current[e]
    BY <1>1, <2>1 DEF TypeOK, Executing
  <2>4. OwnerInv'
    <3>1. ASSUME NEW e \in Cores, e # c PROVE Owned(e)' = Owned(e)
      BY <2>1, <2>2, <3>1 DEF Owned, Executing
    <3>2. Owned(c) = {} /\ Owned(c)' = {next[c]} \ {Idle}
      BY <2>1, <2>2 DEF Owned, Executing
    <3> QED
      BY <1>1, <2>1, <3>1, <3>2, TakesOn
  <2>5. CoreInv(c)'
    <3>1. Target(c)' = Target(c) /\ ipi[c] = {} /\ (next[c] = Target(c) \/ c \in needs)
      BY <1>1, <2>1 DEF Target, CoreInv
    <3> QED
      BY <2>1, <2>2, <3>1 DEF CoreInv
  <2> QED
    BY <2>1, <2>2, <2>4, <2>5, CoreStep
<1>7. CASE LockFails(c)
  <2>1. /\ pc[c] = "lock" /\ pc' = [pc EXCEPT ![c] = "reload"] /\ needs' = needs \ {c}
        /\ UNCHANGED <<sched, state, interrupted, ipi, current, next, locked, masking>>
    BY <1>7 DEF LockFails, Step
  <2>2. TypeOK' /\ pc'[c] = "reload" /\ \A e \in Cores : e # c => pc'[e] = pc[e]
    BY <1>1, <2>1 DEF TypeOK, Executing
  <2>4. OwnerInv'
    <3>1. ASSUME NEW e \in Cores PROVE Owned(e)' = Owned(e)
      BY <2>1, <2>2 DEF Owned, Executing
    <3> QED
      BY <1>1, <2>1, <3>1, SameOwners
  <2>5. CoreInv(c)'
    BY <1>1, <2>1, <2>2 DEF CoreInv
  <2> QED
    BY <2>1, <2>2, <2>4, <2>5, CoreStep
<1>8. CASE FinishSwitch(c)
  <2>1. /\ c \notin needs /\ pc[c] = "check" /\ pc' = [pc EXCEPT ![c] = "run"] /\ next' = [next EXCEPT ![c] = Idle]
        /\ UNCHANGED <<sched, state, needs, interrupted, ipi, current, locked, masking>>
    BY <1>8 DEF FinishSwitch, Step
  <2>2. /\ TypeOK' /\ pc'[c] = "run"
        /\ \A e \in Cores : e # c => pc'[e] = pc[e] /\ next'[e] = next[e]
    BY <1>1, <2>1 DEF TypeOK, Executing
  <2>3. current[c] = next[c] /\ current[c] = Target(c) /\ ipi[c] = {}
    BY <1>1, <2>1 DEF CoreInv
  <2>4. OwnerInv'
    <3>1. ASSUME NEW e \in Cores PROVE Owned(e)' = Owned(e)
      BY <2>1, <2>2, <2>3 DEF Owned, Executing
    <3> QED
      BY <1>1, <2>1, <3>1, SameOwners
  <2>5. CoreInv(c)'
    <3>1. Target(c)' = Target(c)
      BY <2>1 DEF Target
    <3> QED
      BY <2>1, <2>2, <2>3, <3>1, TargetRuns DEF CoreInv
  <2> QED
    BY <2>1, <2>2, <2>4, <2>5, CoreStep
<1>9. CASE SwitchFails(c)
  <2>1. /\ pc[c] = "check" /\ pc' = [pc EXCEPT ![c] = "reload"] /\ needs' = needs \ {c}
        /\ locked' = locked \ {next[c]}
        /\ UNCHANGED <<sched, state, interrupted, ipi, current, next, masking>>
    BY <1>9 DEF SwitchFails, Step
  <2>2. TypeOK' /\ pc'[c] = "reload" /\ \A e \in Cores : e # c => pc'[e] = pc[e]
    BY <1>1, <2>1 DEF TypeOK, Executing
  <2>4. OwnerInv'
    <3>1. ASSUME NEW e \in Cores, e # c PROVE Owned(e)' = Owned(e)
      BY <2>1, <2>2, <3>1 DEF Owned, Executing
    <3>2. Owned(c)' = {} /\ Owned(c) = {next[c]} \ {Idle}
      BY <2>1, <2>2 DEF Owned, Executing
    <3>3. locked' = locked \ Owned(c)
      BY <1>1, <2>1, <3>2, Names DEF TypeOK
    <3> QED
      BY <1>1, <3>1, <3>2, <3>3, GivesUp
  <2>5. CoreInv(c)'
    BY <1>1, <2>1, <2>2 DEF CoreInv
  <2> QED
    BY <2>1, <2>2, <2>4, <2>5, CoreStep
<1>10. CASE Reload(c)
  <2>1. /\ pc[c] = "reload" /\ pc' = [pc EXCEPT ![c] = "lock"] /\ next' = [next EXCEPT ![c] = Target(c)]
        /\ UNCHANGED <<sched, state, needs, interrupted, ipi, current, locked, masking>>
    BY <1>10 DEF Reload, Step
  <2>2. /\ TypeOK' /\ pc'[c] = "lock" /\ next'[c] = Target(c)
        /\ \A e \in Cores : e # c => pc'[e] = pc[e] /\ next'[e] = next[e]
    BY <1>1, <2>1, TargetType DEF TypeOK, Executing
  <2>4. OwnerInv'
    <3>1. ASSUME NEW e \in Cores PROVE Owned(e)' = Owned(e)
      BY <2>1, <2>2 DEF Owned, Executing
    <3> QED
      BY <1>1, <2>1, <3>1, SameOwners
  <2>5. CoreInv(c)'
    <3>1. Target(c)' = Target(c) /\ ipi[c] = {}
      BY <1>1, <2>1 DEF Target, CoreInv
    <3> QED
      BY <2>1, <2>2, <3>1 DEF CoreInv
  <2> QED
    BY <2>1, <2>2, <2>4, <2>5, CoreStep
<1> QED
  BY <1>2, <1>3, <1>4, <1>5, <1>6, <1>7, <1>8, <1>9, <1>10 DEF Switcher

LEMMA OtherCoresInv ==
  ASSUME Inv, NEW a \in Cores \cup {Host}, RescheduleOtherCores(a)
  PROVE  Inv'
<1> DEFINE d == Min(ipi[a])
<1>1. TypeOK /\ SchedInv /\ OwnerInv /\ \A c \in Cores : CoreInv(c)
  BY EachCore DEF Inv
<1>2. /\ a \in Cores => pc[a] = "enable"
      /\ interrupted' = interrupted \cup {d} /\ ipi' = [ipi EXCEPT ![a] = @ \ {d}] /\ ipi[a] # {}
      /\ UNCHANGED <<sched, state, needs, pc, current, next, locked, masking>>
  BY DEF RescheduleOtherCores
<1>3. d \in ipi[a] /\ d \in Cores
  <2>1. ipi[a] \in SUBSET Nat /\ ipi[a] \subseteq Cores
    BY <1>1, Names DEF TypeOK
  <2> QED
    BY <1>2, <2>1, MinIsLeast
<1> HIDE DEF d
<1>4. TypeOK'
  BY <1>1, <1>2, <1>3 DEF TypeOK
<1>5. SchedInv'
  BY <1>1, <1>2 DEF SchedInv, Runnables
<1>6. OwnerInv'
  <2>1. ASSUME NEW c \in Cores PROVE Owned(c)' = Owned(c)
    BY <1>2 DEF Owned
  <2> QED
    BY <1>1, <1>2, <2>1, SameOwners
<1>7. ASSUME NEW c \in Cores PROVE CoreInv(c)'
  <2>1. Target(c)' = Target(c)
    BY <1>2 DEF Target
  <2>2. Told(c) => Told(c)'
    <3>1. ASSUME NEW b \in Cores \cup {Host}, c \in ipi[b], c # d PROVE c \in ipi'[b]
      BY <1>1, <1>2, <3>1 DEF TypeOK
    <3> QED
      BY <1>2, <3>1 DEF Told
  <2>3. ipi'[c] # {} => pc'[c] = "enable"
    BY <1>1, <1>2 DEF CoreInv, TypeOK
  <2> QED
    BY <1>1, <1>2, <2>1, <2>2, <2>3 DEF CoreInv
<1>8. ChoiceInv' /\ RunInv'
  BY <1>7 DEF ChoiceInv, RunInv, CoreInv
<1> QED
  BY <1>4, <1>5, <1>6, <1>8 DEF Inv

-----------------------------------------------------------------------------
(* The theorems                                                            *)

LEMMA InitInv == Init => Inv
<1> SUFFICES ASSUME Init PROVE Inv
  OBVIOUS
<1>1. /\ sched.scheduled = [c \in Cores |-> <<>>] /\ sched.suggested = [c \in Cores |-> <<>>]
      /\ sched.active_core \in [Threads -> Cores] /\ sched.affinity = [t \in Threads |-> Cores]
      /\ sched.priority = InitialPriority /\ sched.highest = [c \in Cores |-> Null]
      /\ sched.yielded = {} /\ sched.resched = {}
  BY DEF Init
<1>2. sched \in SchedType
  <2>0. <<>> \in Seq(Threads)
    OBVIOUS
  <2>1. [c \in Cores |-> <<>>] \in [Cores -> Seq(Threads)]
    BY <2>0
  <2>2. InitialPriority \in [Threads -> Nat]
    BY PrioritiesAssumption
  <2>3. [t \in Threads |-> Cores] \in [Threads -> SUBSET Cores] /\ [c \in Cores |-> Null] \in [Cores -> Threads \cup {Null}]
    OBVIOUS
  <2> QED
    BY <2>1, <2>2, <2>3 DEF Init, SchedType
<1>3. Runnables = {}
  BY DEF Init, Runnables
<1>4. QueueInv(sched, {})
  <2>1. CoresAllowed(sched)
    BY <1>1 DEF CoresAllowed
  <2>2. ASSUME NEW pr PROVE Ordered(<<>>, {}, pr)
    BY DEF Ordered
  <2>3. Held(sched.scheduled, On({}, sched.active_core), sched.priority)
    BY <1>1, <2>2 DEF Held, On
  <2>4. Held(sched.suggested, For({}, sched.active_core, sched.affinity), sched.priority)
    BY <1>1, <2>2 DEF Held, For
  <2> QED
    BY <1>2, <2>1, <2>3, <2>4 DEF QueueInv
<1>5. YieldInv(sched, {}) /\ Fronts(sched)
  BY <1>1 DEF YieldInv, Fronts, GetFront, Null
<1>6. Busy(sched, {})
  BY <1>1, PrioritiesAssumption DEF Busy, Singles
<1>7. SchedInv
  BY <1>1, <1>3, <1>4, <1>5, <1>6 DEF SchedInv, Good
<1>8. TypeOK
  BY DEF Init, TypeOK, Executing
<1>9. OwnerInv
  <2>1. \A c \in Cores : Owned(c) = {}
    BY DEF Init, Owned, Executing
  <2> QED
    BY <2>1 DEF OwnerInv, Init
<1>10. ChoiceInv /\ RunInv
  BY <1>1 DEF Init, ChoiceInv, RunInv, Target
<1> QED
  BY <1>7, <1>8, <1>9, <1>10 DEF Inv

LEMMA NextInv == Inv /\ [Next]_vars => Inv'
<1> SUFFICES ASSUME Inv, [Next]_vars PROVE Inv'
  OBVIOUS
<1>1. CASE UNCHANGED vars
  <2>1. /\ TypeOK' /\ SchedInv' /\ RunInv'
    BY <1>1 DEF vars, Inv, TypeOK, SchedInv, Runnables, RunInv
  <2>2. OwnerInv'
    BY <1>1 DEF vars, Inv, OwnerInv, Owned
  <2>3. ChoiceInv'
    BY <1>1 DEF vars, Inv, ChoiceInv, Target, Told
  <2> QED
    BY <2>1, <2>2, <2>3 DEF Inv
<1>2. ASSUME NEW c \in Cores, Switcher(c) PROVE Inv'
  BY <1>2, SwitcherInv
<1>3. ASSUME NEW c \in Cores, ThreadStep(c) PROVE Inv'
  <2>1. ASSUME NEW t \in Blocking, BeginWait(c, t) PROVE Inv'
    BY <2>1, WaitInv
  <2>2. ASSUME NEW t \in Yielding, YieldWithoutCoreMigration(c, t) PROVE Inv'
    BY <2>2, YieldWithoutInv
  <2>3. ASSUME NEW t \in Yielding, YieldWithCoreMigration(c, t) PROVE Inv'
    BY <2>3, YieldWithInv
  <2>4. ASSUME NEW t \in Yielding, YieldToAnyThread(c, t) PROVE Inv'
    BY <2>4, YieldAnyInv
  <2>5. ASSUME NEW t \in Reprioritized, NEW p \in Priorities, SetPriority(c, t, p) PROVE Inv'
    BY <2>5, PriorityInv
  <2>6. ASSUME NEW t \in Maskable, NEW mask \in SUBSET Cores \ {{}}, NEW ideal \in mask,
               SetCoreMask(c, t, mask, ideal)
        PROVE  Inv'
    BY <2>6, MaskInv
  <2> QED
    BY <1>3, <2>1, <2>2, <2>3, <2>4, <2>5, <2>6 DEF ThreadStep
<1>4. ASSUME NEW c \in Cores, NEW t \in Threads, CoreMaskIsSet(c, t) PROVE Inv'
  BY <1>4, MaskIsSetInv
<1>5. ASSUME NEW a \in Cores \cup {Host}, RescheduleOtherCores(a) PROVE Inv'
  BY <1>5, OtherCoresInv
<1>6. ASSUME NEW a \in Cores \cup {Host}, NEW t \in Threads, Wakeup(a, t) PROVE Inv'
  BY <1>6, WakeupInv
<1>7. ASSUME PreemptThreads PROVE Inv'
  BY <1>7, PreemptInv
<1> QED
  BY <1>1, <1>2, <1>3, <1>4, <1>5, <1>6, <1>7 DEF Next

\* The inductive invariant: the queues list the runnable threads, the chosen threads are
\* their fronts, contexts have one owner, and every core will look at its choice.
THEOREM Invariant == Spec => []Inv
<1>1. Init => Inv
  BY InitInv
<1>2. Inv /\ [Next]_vars => Inv'
  BY NextInv
<1> QED
  BY <1>1, <1>2, PTL DEF Spec

\* ScheduleImplFiber: a thread's context guard is held exactly while one core executes it
\* or is about to, and no two cores own the same thread, whatever the number of cores.
THEOREM ContextsHaveOneOwner == Spec => []OneOwnerPerContext
<1>1. Inv => OneOwnerPerContext
  BY DEF Inv, OwnerInv, OneOwnerPerContext
<1> QED
  BY <1>1, Invariant, PTL

\* KPriorityQueue: after every critical section the queues hold the runnable threads, each
\* once on its active core and once for every other core of its mask, by priority, and the
\* front of a core's queue is its highest priority thread.
THEOREM QueuesHoldTheRunnable == Spec => []QueuesAgree
<1>1. Inv => QueuesAgree
  <2> SUFFICES ASSUME Inv, NEW c \in Cores
               PROVE  /\ sched.highest[c] = GetScheduledFront(sched, c)
                      /\ \A t \in Threads :
                           /\ Contains(sched.scheduled[c], t) <=> state[t] = "Runnable" /\ sched.active_core[t] = c
                           /\ Contains(sched.suggested[c], t) <=>
                                state[t] = "Runnable" /\ c \in sched.affinity[t] /\ sched.active_core[t] # c
                           /\ sched.active_core[t] \in sched.affinity[t] \cup {NoCore}
                      /\ \A q \in {sched.scheduled[c], sched.suggested[c]} :
                           \A i, j \in 1 .. Len(q) : i < j => /\ q[i] # q[j]
                                                              /\ sched.priority[q[i]] <= sched.priority[q[j]]
    BY DEF QueuesAgree
  <2> DEFINE p == sched.scheduled[c]
             q == sched.suggested[c]
             S == {u \in Runnables : sched.active_core[u] = c}
             G == {u \in Runnables : c \in sched.affinity[u] /\ sched.active_core[u] # c}
             pr == sched.priority
  <2>1. QueueInv(sched, Runnables) /\ Fronts(sched) /\ Runnables \in SUBSET Threads
    BY DEF Inv, SchedInv, Good, Runnables
  <2>2. sched.highest[c] = GetScheduledFront(sched, c)
    <3>1. GetScheduledFront(sched, c) = GetFront(sched.scheduled[c])
      BY NoCoreIsNone DEF GetScheduledFront
    <3> QED
      BY <2>1, <3>1 DEF Fronts
  <2>3. Ordered(p, S, pr) /\ Ordered(q, G, pr)
    BY <2>1 DEF QueueInv, Held, On, For
  <2>4. ASSUME NEW t \in Threads
        PROVE  /\ t \in S <=> state[t] = "Runnable" /\ sched.active_core[t] = c
               /\ t \in G <=> state[t] = "Runnable" /\ c \in sched.affinity[t] /\ sched.active_core[t] # c
               /\ sched.active_core[t] \in sched.affinity[t] \cup {NoCore}
    BY <2>1 DEF Runnables, QueueInv, CoresAllowed
  <2> HIDE DEF S, G, pr, p, q
  <2>5. ASSUME NEW t \in Threads PROVE (Contains(p, t) <=> t \in S) /\ (Contains(q, t) <=> t \in G)
    BY <2>3 DEF Ordered, Contains
  <2>6. /\ \A i, j \in 1..Len(p) : i < j => p[i] # p[j] /\ pr[p[i]] <= pr[p[j]]
        /\ \A i, j \in 1..Len(q) : i < j => q[i] # q[j] /\ pr[q[i]] <= pr[q[j]]
    BY <2>3 DEF Ordered
  <2> QED
    BY <2>2, <2>4, <2>5, <2>6 DEF p, q, pr
<1> QED
  BY <1>1, Invariant, PTL

\* KScheduler::RescheduleOtherCores: a core that executes another thread than the one
\* chosen for it has been, or is about to be, interrupted.
THEOREM NoChoiceIsMissed == Spec => []ChoiceIsNotMissed
<1>1. Inv => ChoiceIsNotMissed
  BY DEF Inv, ChoiceInv, Told, ChoiceIsNotMissed
<1> QED
  BY <1>1, Invariant, PTL

\* YieldWithoutCoreMigration and its siblings return early only when no thread of the
\* same process and priority has come to the core since the last yield.
THEOREM NoYieldIsLost == Spec => []SkippedYieldLosesNothing
<1>1. Inv => SkippedYieldLosesNothing
  <2> SUFFICES ASSUME Inv, NEW t \in sched.yielded, state[t] = "Runnable", NEW u \in Threads \ {t},
                      Contains(sched.scheduled[sched.active_core[t]], u),
                      sched.priority[u] = sched.priority[t], OwnerProcess[u] = OwnerProcess[t]
               PROVE  FALSE
    BY DEF SkippedYieldLosesNothing
  <2> DEFINE c == sched.active_core[t]
             q == sched.scheduled[c]
             S == {x \in Runnables : sched.active_core[x] = c}
             pr == sched.priority
  <2>1. /\ QueueInv(sched, Runnables) /\ YieldInv(sched, Runnables) /\ Runnables \in SUBSET Threads
        /\ sched \in SchedType
    BY DEF Inv, SchedInv, Good, Runnables, QueueInv
  <2>2. t \in Threads /\ t \in Runnables
    BY <2>1, Fields DEF Runnables
  <2>3. c \in Cores
    BY <2>1, <2>2, Fields DEF YieldInv
  <2>4. Ordered(q, S, pr)
    BY <2>1, <2>3, ScheduledFront
  <2>5. u \in S
    <3> HIDE DEF S, pr
    <3> QED
      BY <2>4 DEF Ordered, Contains
  <2> QED
    BY <2>1, <2>2, <2>5 DEF YieldInv, Near
<1> QED
  BY <1>1, Invariant, PTL

\* UpdateHighestPriorityThreads, "Idle cores are bad": if every thread is allowed to
\* migrate, no core is left without a thread while one that may run on it waits for
\* another core.
THEOREM NoCoreIsLeftIdle == AllMigratable => (Spec => []NoIdleCoreWithWork)
<1>1. AllMigratable /\ Inv => NoIdleCoreWithWork
  <2> SUFFICES ASSUME AllMigratable, Inv, NEW c \in Cores, sched.highest[c] = Null,
                      NEW t \in Threads, state[t] = "Runnable", c \in sched.affinity[t]
               PROVE  TopThread(sched, t) = t /\ Len(sched.scheduled[sched.active_core[t]]) = 1
    BY DEF NoIdleCoreWithWork
  <2> DEFINE e == sched.active_core[t]
             q == sched.scheduled[e]
             S == {u \in Runnables : sched.active_core[u] = e}
             pr == sched.priority
  <2>1. /\ QueueInv(sched, Runnables) /\ Fronts(sched) /\ Runnables \in SUBSET Threads /\ t \in Runnables
        /\ sched \in SchedType /\ Singles(sched, Runnables, c)
    BY DEF Inv, SchedInv, Good, Runnables, QueueInv, Busy
  <2>2. Empty(sched, Runnables, c)
    <3>1. GetFront(sched.scheduled[c]) = Null
      BY <2>1 DEF Fronts
    <3> QED
      BY <2>1, <3>1, ScheduledFront
  <2>3. e # NoCore /\ \A u \in Runnables : sched.active_core[u] = e => u = t
    BY <2>1, <2>2 DEF Singles
  <2>4. e \in Cores
    BY <2>1, <2>3, Fields
  <2>5. Ordered(q, S, pr) /\ S \in SUBSET Threads /\ t \in S /\ \A u \in S : u = t
    BY <2>1, <2>3, <2>4, ScheduledFront
  <2>6. sched.highest[e] = GetFront(q)
    BY <2>1, <2>4 DEF Fronts
  <2> HIDE DEF S, q, pr, e
  <2>7. GetFront(q) = t /\ Len(q) # 0
    BY <2>5, FrontOfOrdered
  <2>8. Len(q) = 1
    <3>1. Len(q) \in Nat /\ \A i \in 1..Len(q) : q[i] = t
      BY <2>5 DEF Ordered
    <3>2. ~(1 < Len(q))
      <4> SUFFICES ASSUME 1 < Len(q) PROVE FALSE
        OBVIOUS
      <4>1. 1 \in 1..Len(q) /\ 2 \in 1..Len(q) /\ 1 < 2
        BY <3>1
      <4>2. q[1] # q[2]
        BY <2>5, <4>1 DEF Ordered
      <4> QED
        BY <3>1, <4>1, <4>2
    <3> DEFINE n == Len(q)
    <3>3. n \in Nat /\ n # 0 /\ ~(1 < n)
      BY <2>7, <3>1, <3>2
    <3> HIDE DEF n
    <3>4. n = 1
      BY <3>3
    <3> QED
      BY <3>4 DEF n
  <2> QED
    BY <2>3, <2>6, <2>7, <2>8 DEF TopThread, e, q
<1>2. ASSUME AllMigratable PROVE Inv => NoIdleCoreWithWork
  BY <1>1, <1>2
<1>3. ASSUME AllMigratable PROVE Spec => []NoIdleCoreWithWork
  <2>1. Inv => NoIdleCoreWithWork
    BY <1>2, <1>3
  <2> QED
    BY <2>1, Invariant, PTL
<1> QED
  BY <1>3
=============================================================================
