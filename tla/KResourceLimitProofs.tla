------------------------ MODULE KResourceLimitProofs ------------------------
(***************************************************************************)
(* For any number of threads, values and limits: the counters of a         *)
(* resource limit are the sums of the reservations, and no reserver misses *)
(* the release it waits for, until a wait for m_lock is cancelled.         *)
(*                                                                         *)
(* Neither is inductive.  LockInv says who is inside m_lock, which makes   *)
(* what a reserver compared still true when it begins to wait; CountInv    *)
(* counts the units of the reservations without reference to the peak,     *)
(* which SetLimitValue lowers.                                             *)
(***************************************************************************)
EXTENDS KResourceLimit, Integers, FiniteSetTheorems, TLAPS

Waiting == {"wait", "waiting", "relock"}

Releasing == {"release", "hint"}

PCs == {"user", "reserve", "try", "wait", "waiting", "relock", "release", "hint", "broadcast"}

Thread == [pc : PCs, value : Nat, held : BOOLEAN, hinted : BOOLEAN, forever : BOOLEAN,
           expired : BOOLEAN, terminating : BOOLEAN, seen : Nat]

\* That the counters are not negative follows from CountInv and CountedInv.
TypeInv ==
  /\ m_lock \in Threads \cup {None}
  /\ m_limit_value \in Nat /\ m_peak_value \in Int
  /\ m_current_value \in Int /\ m_current_hint \in Int /\ m_waiter_count \in Int
  /\ m_wait_list \subseteq Threads
  /\ thread \in [Threads -> Thread]

\* Who holds m_lock between steps, who is in the wait list, and who has a
\* reservation.
Placed(t) ==
  /\ thread[t].pc \in {"try", "wait", "broadcast"} => m_lock = t
  /\ t \in m_wait_list <=> thread[t].pc = "waiting"
  /\ thread[t].pc \in Reserving => ~thread[t].held
  /\ thread[t].pc \in Releasing => thread[t].held
  /\ thread[t].pc = "hint" => ~thread[t].hinted
  /\ thread[t].hinted => thread[t].held

LockInv == \A t \in Threads : Placed(t)

\* The threads that m_waiter_count counts.
Counted == {t \in Threads : thread[t].pc \in Waiting}

CountedInv == m_waiter_count = Cardinality(Counted)

\* What a reserver waits for is missing when it begins, and from then on
\* until somebody is about to broadcast.
Missing(t) ==
  /\ thread[t].pc = "wait" => m_current_value + thread[t].value > m_limit_value
  /\ thread[t].pc = "waiting" =>
       \/ m_current_value + thread[t].value > thread[t].seen
       \/ \E r \in Threads : thread[r].pc = "broadcast"

MissingInv == \A t \in Threads : Missing(t)

\* The threads with a reservation, those that did not hint it, and the units
\* of the reservations of a set of threads, one by one.
Held == {t \in Threads : thread[t].held}

Unhinted == {t \in Held : ~thread[t].hinted}

Value == [t \in Threads |-> thread[t].value]

Cells(S, value) == {u \in S \X Nat : u[2] \in 1..value[u[1]]}

CountInv ==
  /\ \A t \in Held : thread[t].value <= m_peak_value
  /\ m_current_value = Cardinality(Cells(Held, Value))
  /\ m_current_hint = Cardinality(Cells(Unhinted, Value))
  /\ m_current_value <= m_peak_value /\ m_peak_value <= m_limit_value

\* No wait for m_lock was cancelled, and so nobody is let in without it.
Exclusive == ~cancelled /\ let_in = {}

WaitingInv == TypeInv /\ LockInv /\ CountedInv /\ MissingInv

Safe == WaitingInv /\ CountInv

\* Until the first wait for m_lock is cancelled.
Inv == cancelled \in BOOLEAN /\ (~cancelled => Exclusive /\ Safe)

USE DEF Exclusive, Enter, Owner, cancels

-----------------------------------------------------------------------------
(* Units                                                                   *)

LEMMA CellsFinite ==
  ASSUME NEW S \in SUBSET Threads, NEW value \in [Threads -> Nat], NEW n \in Int,
         \A t \in S : value[t] <= n
  PROVE  /\ IsFiniteSet(Cells(S, value))
         /\ Cells(S, value) = {u \in S \X (1..n) : u[2] <= value[u[1]]}
<1>1. IsFiniteSet(S) /\ IsFiniteSet(1..n)
  BY ThreadsAssumption, FS_Subset, FS_Interval
<1>2. IsFiniteSet(S \X (1..n))
  BY <1>1, FS_Product
<1>3. Cells(S, value) = {u \in S \X (1..n) : u[2] <= value[u[1]]}
  BY DEF Cells
<1>4. Cells(S, value) \in SUBSET (S \X (1..n))
  BY <1>3
<1> QED
  BY <1>2, <1>3, <1>4, FS_Subset

\* Only the values of the threads in S count.
LEMMA CellsAgree ==
  ASSUME NEW S \in SUBSET Threads, NEW v, NEW w, \A t \in S : v[t] = w[t]
  PROVE  Cells(S, v) = Cells(S, w)
BY DEF Cells

\* One more reservation adds its value.
LEMMA CellsAdd ==
  ASSUME NEW S \in SUBSET Threads, NEW value \in [Threads -> Nat], NEW t \in Threads \ S,
         IsFiniteSet(Cells(S, value))
  PROVE  /\ IsFiniteSet(Cells(S \cup {t}, value))
         /\ Cardinality(Cells(S \cup {t}, value)) = Cardinality(Cells(S, value)) + value[t]
<1> DEFINE new == {t} \X (1..value[t])
<1>1. IsFiniteSet({t}) /\ Cardinality({t}) = 1
  BY FS_Singleton
<1>2. IsFiniteSet(1..value[t]) /\ Cardinality(1..value[t]) = value[t]
  BY FS_Interval
<1>3. IsFiniteSet(new) /\ Cardinality(new) = 1 * value[t]
  BY <1>1, <1>2, FS_Product
<1>4. Cells(S \cup {t}, value) = Cells(S, value) \cup new
  BY DEF Cells
<1>5. Cells(S, value) \cap new = {}
  BY DEF Cells
<1>6. Cardinality({}) = 0
  BY FS_EmptySet
<1>7. Cardinality(Cells(S, value)) \in Nat
  BY FS_CardinalityType
<1>8. Cardinality(new) = value[t] /\ value[t] \in Nat
  BY <1>3
<1>9. /\ IsFiniteSet(Cells(S, value) \cup new)
      /\ Cardinality(Cells(S, value) \cup new)
           = Cardinality(Cells(S, value)) + Cardinality(new) - Cardinality(Cells(S, value) \cap new)
  BY <1>3, FS_Union
<1>10. Cardinality(Cells(S, value) \cap new) = 0
  BY <1>5, <1>6, Zenon
<1> DEFINE a == Cardinality(Cells(S, value))
           b == Cardinality(new)
           c == Cardinality(Cells(S, value) \cap new)
           d == Cardinality(Cells(S, value) \cup new)
<1>11. d = a + b - c /\ a \in Nat /\ b = value[t] /\ c = 0 /\ value[t] \in Nat
  BY <1>7, <1>8, <1>9, <1>10, Zenon
<1>12. Cardinality(Cells(S \cup {t}, value)) = d /\ IsFiniteSet(Cells(S \cup {t}, value))
  BY <1>4, <1>9, Zenon
<1>13. d = a + value[t]
  <2> HIDE DEF a, b, c, d
  <2> QED
    BY <1>11
<1> QED
  BY <1>12, <1>13, Zenon

LEMMA CellsRemove ==
  ASSUME NEW S \in SUBSET Threads, NEW value \in [Threads -> Nat], NEW t \in S,
         IsFiniteSet(Cells(S, value))
  PROVE  /\ IsFiniteSet(Cells(S \ {t}, value))
         /\ Cardinality(Cells(S \ {t}, value)) = Cardinality(Cells(S, value)) - value[t]
<1>1. Cells(S \ {t}, value) \in SUBSET Cells(S, value)
  BY DEF Cells
<1>2. IsFiniteSet(Cells(S \ {t}, value))
  BY <1>1, FS_Subset
<1>3. S \ {t} \in SUBSET Threads /\ t \in Threads \ (S \ {t}) /\ (S \ {t}) \cup {t} = S
  OBVIOUS
<1>4. Cardinality(Cells((S \ {t}) \cup {t}, value)) = Cardinality(Cells(S \ {t}, value)) + value[t]
  BY <1>2, <1>3, CellsAdd
<1> DEFINE a == Cardinality(Cells(S \ {t}, value))
           b == Cardinality(Cells(S, value))
<1>5. b = a + value[t] /\ a \in Nat /\ value[t] \in Nat
  BY <1>2, <1>3, <1>4, FS_CardinalityType
<1> HIDE DEF a, b
<1>6. a = b - value[t]
  BY <1>5
<1> QED
  BY <1>2, <1>6 DEF a, b

\* The counters are what the properties call them.
LEMMA UnitsAreCells ==
  ASSUME TypeInv, CountInv
  PROVE  /\ Units(Held) = m_current_value
         /\ Units(Unhinted) = m_current_hint
         /\ m_current_hint \in Nat /\ m_current_value \in Nat
         /\ m_current_hint <= m_current_value
         /\ \A t \in Held : thread[t].value <= m_current_value
         /\ IsFiniteSet(Cells(Held, Value)) /\ IsFiniteSet(Cells(Unhinted, Value))
<1> USE DEF TypeInv, CountInv, Held, Unhinted
<1>1. Value \in [Threads -> Nat] /\ \A t \in Threads : Value[t] = thread[t].value
  BY DEF Value, Thread
<1>2. Held \in SUBSET Threads /\ Unhinted \in SUBSET Threads
  OBVIOUS
<1>3. /\ IsFiniteSet(Cells(Held, Value)) /\ IsFiniteSet(Cells(Unhinted, Value))
      /\ Cells(Held, Value) = {u \in Held \X (1..m_peak_value) : u[2] <= Value[u[1]]}
      /\ Cells(Unhinted, Value) = {u \in Unhinted \X (1..m_peak_value) : u[2] <= Value[u[1]]}
  <2>1. \A t \in Held : Value[t] <= m_peak_value
    BY <1>1
  <2>2. \A t \in Unhinted : Value[t] <= m_peak_value
    BY <1>1
  <2>3. m_peak_value \in Int
    OBVIOUS
  <2> HIDE DEF Held, Unhinted, CountInv, TypeInv
  <2>4. /\ IsFiniteSet(Cells(Held, Value))
        /\ Cells(Held, Value) = {u \in Held \X (1..m_peak_value) : u[2] <= Value[u[1]]}
    BY <1>1, <1>2, <2>1, <2>3, CellsFinite
  <2>5. /\ IsFiniteSet(Cells(Unhinted, Value))
        /\ Cells(Unhinted, Value) = {u \in Unhinted \X (1..m_peak_value) : u[2] <= Value[u[1]]}
    BY <1>1, <1>2, <2>2, <2>3, CellsFinite
  <2> QED
    BY <2>4, <2>5
<1>4. Units(Held) = m_current_value
  BY <1>1, <1>3 DEF Units
<1>5. Units(Unhinted) = m_current_hint
  BY <1>1, <1>3 DEF Units
<1>6. m_current_hint \in Nat /\ m_current_value \in Nat
  BY <1>3, FS_CardinalityType
<1>7. m_current_hint <= m_current_value
  <2>1. Cells(Unhinted, Value) \in SUBSET Cells(Held, Value)
    BY DEF Cells
  <2> QED
    BY <1>3, <2>1, FS_Subset
<1>8. ASSUME NEW t \in Held PROVE thread[t].value <= m_current_value
  <2>1. Cells({} \cup {t}, Value) \in SUBSET Cells(Held, Value)
    BY DEF Cells
  <2>2. Cells({}, Value) = {}
    BY DEF Cells
  <2>3. IsFiniteSet(Cells({}, Value)) /\ Cardinality(Cells({}, Value)) = 0
    BY <2>2, FS_EmptySet
  <2>4. Cardinality(Cells({} \cup {t}, Value)) = 0 + Value[t]
    BY <1>1, <1>2, <2>3, CellsAdd
  <2>5. Cardinality(Cells({} \cup {t}, Value)) <= Cardinality(Cells(Held, Value))
    BY <1>3, <2>1, FS_Subset
  <2> QED
    BY <1>1, <2>4, <2>5 DEF Thread
<1> QED
  BY <1>3, <1>4, <1>5, <1>6, <1>7, <1>8

-----------------------------------------------------------------------------
(* What the steps do to a thread                                           *)

\* Of the threads only t moves: to p, with the value, the reservation and the
\* limit it saw as given.
Moves(t, p, v, h, n, s) ==
  /\ thread' \in [Threads -> Thread]
  /\ \A u \in Threads : u # t => thread'[u] = thread[u]
  /\ thread'[t].pc = p /\ thread'[t].value = v /\ thread'[t].held = h
  /\ thread'[t].hinted = n /\ thread'[t].seen = s

LEMMA MovesTo ==
  ASSUME TypeInv, NEW t \in Threads, NEW r \in Thread, thread' = [thread EXCEPT ![t] = r]
  PROVE  Moves(t, r.pc, r.value, r.held, r.hinted, r.seen)
BY DEF TypeInv, Moves

LEMMA ReserveMoves ==
  ASSUME TypeInv, NEW t \in Threads, NEW v \in Values, NEW f \in BOOLEAN, Reserve(t, v, f)
  PROVE  Moves(t, "reserve", v, thread[t].held, thread[t].hinted, thread[t].seen)
<1> DEFINE r == [thread[t] EXCEPT !.pc = "reserve", !.value = v, !.forever = f]
<1>1. thread[t] \in Thread /\ v \in Nat
  BY ValuesAssumption DEF TypeInv
<1>2. /\ r \in Thread /\ r.pc = "reserve" /\ r.value = v /\ r.held = thread[t].held
      /\ r.hinted = thread[t].hinted /\ r.seen = thread[t].seen
  BY <1>1 DEF Thread, PCs
<1>3. thread' = [thread EXCEPT ![t] = r]
  BY DEF Reserve, TypeInv
<1> HIDE DEF r
<1> QED
  BY <1>2, <1>3, MovesTo

LEMMA FailMoves ==
  ASSUME TypeInv, NEW t \in Threads, thread' = Fail(t)
  PROVE  Moves(t, "user", 0, thread[t].held, thread[t].hinted, thread[t].seen)
<1> DEFINE r == [thread[t] EXCEPT !.pc = "user", !.value = 0, !.forever = FALSE, !.expired = FALSE]
<1>1. thread[t] \in Thread
  BY DEF TypeInv
<1>2. /\ r \in Thread /\ r.pc = "user" /\ r.value = 0 /\ r.held = thread[t].held
      /\ r.hinted = thread[t].hinted /\ r.seen = thread[t].seen
  BY <1>1 DEF Thread, PCs
<1>3. thread' = [thread EXCEPT ![t] = r]
  BY DEF Fail, TypeInv
<1> HIDE DEF r
<1> QED
  BY <1>2, <1>3, MovesTo

LEMMA GotoMoves ==
  ASSUME TypeInv, NEW t \in Threads, NEW p \in PCs, Goto(t, p)
  PROVE  Moves(t, p, thread[t].value, thread[t].held, thread[t].hinted, thread[t].seen)
<1> DEFINE r == [thread[t] EXCEPT !.pc = p]
<1>1. thread[t] \in Thread
  BY DEF TypeInv
<1>2. /\ r \in Thread /\ r.pc = p /\ r.value = thread[t].value /\ r.held = thread[t].held
      /\ r.hinted = thread[t].hinted /\ r.seen = thread[t].seen
  BY <1>1 DEF Thread
<1>3. thread' = [thread EXCEPT ![t] = r]
  BY DEF Goto, TypeInv
<1> HIDE DEF r
<1> QED
  BY <1>2, <1>3, MovesTo

LEMMA SucceedsMoves ==
  ASSUME TypeInv, NEW t \in Threads, ReserveSucceeds(t)
  PROVE  Moves(t, "user", thread[t].value, TRUE, thread[t].hinted, thread[t].seen)
<1> DEFINE r == [thread[t] EXCEPT !.pc = "user", !.held = TRUE, !.forever = FALSE, !.expired = FALSE]
<1>1. thread[t] \in Thread
  BY DEF TypeInv
<1>2. /\ r \in Thread /\ r.pc = "user" /\ r.value = thread[t].value /\ r.held = TRUE
      /\ r.hinted = thread[t].hinted /\ r.seen = thread[t].seen
  BY <1>1 DEF Thread, PCs
<1>3. thread' = [thread EXCEPT ![t] = r]
  BY DEF ReserveSucceeds, TypeInv
<1> HIDE DEF r
<1> QED
  BY <1>2, <1>3, MovesTo

LEMMA WaitMoves ==
  ASSUME TypeInv, NEW t \in Threads, Wait(t), ~thread[t].terminating
  PROVE  Moves(t, "waiting", thread[t].value, thread[t].held, thread[t].hinted, m_limit_value)
<1> DEFINE r == [thread[t] EXCEPT !.pc = "waiting", !.seen = m_limit_value]
<1>1. thread[t] \in Thread /\ m_limit_value \in Nat
  BY DEF TypeInv
<1>2. /\ r \in Thread /\ r.pc = "waiting" /\ r.value = thread[t].value /\ r.held = thread[t].held
      /\ r.hinted = thread[t].hinted /\ r.seen = m_limit_value
  BY <1>1 DEF Thread, PCs
<1>3. thread' = [thread EXCEPT ![t] = r]
  BY DEF Wait, TypeInv
<1> HIDE DEF r
<1> QED
  BY <1>2, <1>3, MovesTo

LEMMA CancelMoves ==
  ASSUME TypeInv, NEW t \in Threads, TimerCancels(t)
  PROVE  Moves(t, "relock", thread[t].value, thread[t].held, thread[t].hinted, 0)
<1> DEFINE r == [thread[t] EXCEPT !.pc = "relock", !.seen = 0]
<1>1. thread[t] \in Thread
  BY DEF TypeInv
<1>2. /\ r \in Thread /\ r.pc = "relock" /\ r.value = thread[t].value /\ r.held = thread[t].held
      /\ r.hinted = thread[t].hinted /\ r.seen = 0
  BY <1>1 DEF Thread, PCs
<1>3. thread' = [thread EXCEPT ![t] = r]
  BY DEF TimerCancels, TypeInv
<1> HIDE DEF r
<1> QED
  BY <1>2, <1>3, MovesTo

LEMMA TerminateMoves ==
  ASSUME TypeInv, NEW t \in Threads, RequestTerminate(t)
  PROVE  \E p \in PCs :
           /\ p = IF thread[t].pc = "waiting" THEN "relock" ELSE thread[t].pc
           /\ Moves(t, p, thread[t].value, thread[t].held, thread[t].hinted, 0)
<1> DEFINE p == IF thread[t].pc = "waiting" THEN "relock" ELSE thread[t].pc
           r == [thread[t] EXCEPT !.terminating = TRUE, !.seen = 0, !.pc = p]
<1>1. thread[t] \in Thread
  BY DEF TypeInv
<1>2. p \in PCs
  BY <1>1 DEF Thread, PCs
<1>3. thread' = [thread EXCEPT ![t] = r]
  BY DEF RequestTerminate, TypeInv
<1>4. p = IF thread[t].pc = "waiting" THEN "relock" ELSE thread[t].pc
  OBVIOUS
<1> HIDE DEF p
<1>5. /\ r \in Thread /\ r.pc = p /\ r.value = thread[t].value /\ r.held = thread[t].held
      /\ r.hinted = thread[t].hinted /\ r.seen = 0
  BY <1>1, <1>2 DEF Thread
<1> HIDE DEF r
<1>6. Moves(t, p, thread[t].value, thread[t].held, thread[t].hinted, 0)
  BY <1>5, <1>3, MovesTo
<1> QED
  BY <1>2, <1>4, <1>6

LEMMA ExpireMoves ==
  ASSUME TypeInv, NEW t \in Threads, Expire(t)
  PROVE  Moves(t, thread[t].pc, thread[t].value, thread[t].held, thread[t].hinted, thread[t].seen)
<1> DEFINE r == [thread[t] EXCEPT !.expired = TRUE]
<1>1. thread[t] \in Thread
  BY DEF TypeInv
<1>2. /\ r \in Thread /\ r.pc = thread[t].pc /\ r.value = thread[t].value
      /\ r.held = thread[t].held /\ r.hinted = thread[t].hinted /\ r.seen = thread[t].seen
  BY <1>1 DEF Thread
<1>3. thread' = [thread EXCEPT ![t] = r]
  BY DEF Expire, TypeInv
<1> HIDE DEF r
<1> QED
  BY <1>2, <1>3, MovesTo

LEMMA ReleaseMoves ==
  ASSUME TypeInv, NEW t \in Threads, Release(t)
  PROVE  \E p \in PCs :
           /\ p = IF m_waiter_count # 0 THEN "broadcast" ELSE "user"
           /\ thread[t].pc = "release" => Moves(t, p, 0, FALSE, FALSE, thread[t].seen)
           /\ thread[t].pc = "hint" => Moves(t, p, thread[t].value, TRUE, TRUE, thread[t].seen)
<1> DEFINE p == IF m_waiter_count # 0 THEN "broadcast" ELSE "user"
<1>1. p \in PCs /\ p = IF m_waiter_count # 0 THEN "broadcast" ELSE "user"
  BY DEF PCs
<1>2. thread[t] \in Thread
  BY DEF TypeInv
<1>3. thread[t].value \in Nat
  BY <1>2 DEF Thread
<1>4. ASSUME thread[t].pc = "release"
      PROVE  thread' = [thread EXCEPT ![t] = [thread[t] EXCEPT !.pc = p, !.value = 0,
                                                !.held = FALSE, !.hinted = FALSE]]
  <2>1. thread[t].value - thread[t].value = 0
    BY <1>3
  <2> QED
    BY <1>4, <2>1 DEF Release, TypeInv
<1>5. ASSUME thread[t].pc = "hint"
      PROVE  thread' = [thread EXCEPT ![t] = [thread[t] EXCEPT !.pc = p, !.value = thread[t].value,
                                                !.held = TRUE, !.hinted = TRUE]]
  <2>1. thread[t].value - 0 = thread[t].value
    BY <1>3
  <2> QED
    BY <1>5, <2>1 DEF Release, TypeInv
<1> HIDE DEF p
<1>6. ASSUME thread[t].pc = "release" PROVE Moves(t, p, 0, FALSE, FALSE, thread[t].seen)
  <2> DEFINE r == [thread[t] EXCEPT !.pc = p, !.value = 0, !.held = FALSE, !.hinted = FALSE]
  <2>1. /\ r \in Thread /\ r.pc = p /\ r.value = 0 /\ r.held = FALSE /\ r.hinted = FALSE
        /\ r.seen = thread[t].seen
    BY <1>1, <1>2 DEF Thread
  <2>2. thread' = [thread EXCEPT ![t] = r]
    BY <1>4, <1>6
  <2> HIDE DEF r
  <2> QED
    BY <2>1, <2>2, MovesTo
<1>7. ASSUME thread[t].pc = "hint" PROVE Moves(t, p, thread[t].value, TRUE, TRUE, thread[t].seen)
  <2> DEFINE r == [thread[t] EXCEPT !.pc = p, !.value = thread[t].value, !.held = TRUE, !.hinted = TRUE]
  <2>1. /\ r \in Thread /\ r.pc = p /\ r.value = thread[t].value /\ r.held = TRUE /\ r.hinted = TRUE
        /\ r.seen = thread[t].seen
    BY <1>1, <1>2, <1>3 DEF Thread
  <2>2. thread' = [thread EXCEPT ![t] = r]
    BY <1>5, <1>7
  <2> HIDE DEF r
  <2> QED
    BY <2>1, <2>2, MovesTo
<1> QED
  BY <1>1, <1>6, <1>7

-----------------------------------------------------------------------------
(* The types, and who is where                                             *)

LEMMA BroadcastMoves ==
  ASSUME TypeInv, LockInv, NEW t \in Threads, Broadcast(t)
  PROVE  /\ thread' \in [Threads -> Thread]
         /\ t \notin m_wait_list
         /\ \A u \in m_wait_list : thread'[u].pc = "relock"
         /\ \A u \in Threads : u # t /\ u \notin m_wait_list => thread'[u] = thread[u]
         /\ thread'[t].pc = "user"
         /\ \A u \in Threads : /\ thread'[u].value = thread[u].value
                               /\ thread'[u].held = thread[u].held
                               /\ thread'[u].hinted = thread[u].hinted
<1> DEFINE woken(u) == [thread[u] EXCEPT !.pc = "relock", !.seen = 0]
           done(u) == [thread[u] EXCEPT !.pc = "user"]
<1>1. \A u \in Threads : thread[u] \in Thread
  BY DEF TypeInv
<1>2. ASSUME NEW u \in Threads
      PROVE  /\ woken(u) \in Thread /\ woken(u).pc = "relock" /\ woken(u).value = thread[u].value
             /\ woken(u).held = thread[u].held /\ woken(u).hinted = thread[u].hinted
  BY <1>1 DEF Thread, PCs
<1>3. /\ done(t) \in Thread /\ done(t).pc = "user" /\ done(t).value = thread[t].value
      /\ done(t).held = thread[t].held /\ done(t).hinted = thread[t].hinted
  BY <1>1 DEF Thread, PCs
<1>4. t \notin m_wait_list /\ m_wait_list \subseteq Threads
  BY DEF LockInv, Placed, Broadcast, TypeInv
<1>5. thread' = [u \in Threads |-> CASE u \in m_wait_list -> woken(u)
                                     [] u = t -> done(u)
                                     [] OTHER -> thread[u]]
  BY Zenon DEF Broadcast
<1> HIDE DEF woken, done
<1>6. /\ \A u \in m_wait_list : thread'[u] = woken(u)
      /\ thread'[t] = done(t)
      /\ \A u \in Threads : u # t /\ u \notin m_wait_list => thread'[u] = thread[u]
  BY <1>4, <1>5
<1>7. \A u \in Threads : thread'[u] \in Thread
  BY <1>1, <1>2, <1>3, <1>6
<1>8. thread' = [u \in Threads |-> thread'[u]]
  BY <1>5
<1>9. thread' \in [Threads -> Thread]
  BY <1>7, <1>8
<1> QED
  BY <1>2, <1>3, <1>4, <1>6, <1>9

LEMMA TypeStep == Exclusive /\ TypeInv /\ LockInv /\ [Next]_vars => TypeInv'
<1> SUFFICES ASSUME Exclusive, TypeInv, LockInv, [Next]_vars PROVE TypeInv'
  OBVIOUS
<1> USE DEF TypeInv, values
<1>1. ASSUME NEW t \in Threads, NEW v \in Values, NEW f \in BOOLEAN, Reserve(t, v, f) PROVE TypeInv'
  <2>1. Moves(t, "reserve", v, thread[t].held, thread[t].hinted, thread[t].seen)
    BY <1>1, ReserveMoves
  <2> QED
    BY <1>1, <2>1 DEF Reserve, Moves
<1>2. ASSUME NEW t \in Threads, ReserveLock(t) PROVE TypeInv'
  <2>1. CASE m_current_hint >= m_limit_value
    <3>1. Moves(t, "user", 0, thread[t].held, thread[t].hinted, thread[t].seen)
      BY <1>2, <2>1, FailMoves DEF ReserveLock
    <3> QED
      BY <1>2, <2>1, <3>1 DEF ReserveLock, Moves
  <2>2. CASE ~(m_current_hint >= m_limit_value)
    <3>1. Moves(t, "try", thread[t].value, thread[t].held, thread[t].hinted, thread[t].seen)
      BY <1>2, <2>2, GotoMoves DEF ReserveLock, PCs
    <3> QED
      BY <1>2, <2>2, <3>1 DEF ReserveLock, Moves
  <2> QED
    BY <1>2, <2>1, <2>2 DEF ReserveLock
<1>3. ASSUME NEW t \in Threads, ReserveSucceeds(t) PROVE TypeInv'
  <2>1. thread[t].value \in Nat
    BY DEF Thread
  <2>2. m_current_value' \in Int /\ m_current_hint' \in Int /\ m_peak_value' \in Int
    BY <1>3, <2>1 DEF ReserveSucceeds, Larger
  <2>3. thread' \in [Threads -> Thread] /\ m_lock' \in Threads \cup {None}
    BY <1>3, SucceedsMoves DEF ReserveSucceeds, Larger, Moves
  <2> QED
    BY <1>3, <2>2, <2>3 DEF ReserveSucceeds
<1>4. ASSUME NEW t \in Threads, ReserveWaits(t) PROVE TypeInv'
  <2>1. Moves(t, "wait", thread[t].value, thread[t].held, thread[t].hinted, thread[t].seen)
    BY <1>4, GotoMoves DEF ReserveWaits, PCs
  <2> QED
    BY <1>4, <2>1 DEF ReserveWaits, Moves
<1>5. ASSUME NEW t \in Threads, ReserveFails(t) PROVE TypeInv'
  <2>1. Moves(t, "user", 0, thread[t].held, thread[t].hinted, thread[t].seen)
    BY <1>5, FailMoves DEF ReserveFails
  <2> QED
    BY <1>5, <2>1 DEF ReserveFails, Moves
<1>6. ASSUME NEW t \in Threads, Wait(t) PROVE TypeInv'
  <2>1. CASE thread[t].terminating
    <3>1. Moves(t, "try", thread[t].value, thread[t].held, thread[t].hinted, thread[t].seen)
      BY <1>6, <2>1, GotoMoves DEF Wait, PCs
    <3> QED
      BY <1>6, <2>1, <3>1 DEF Wait, Moves
  <2>2. CASE ~thread[t].terminating
    <3>1. Moves(t, "waiting", thread[t].value, thread[t].held, thread[t].hinted, m_limit_value)
      BY <1>6, <2>2, WaitMoves
    <3> QED
      BY <1>6, <2>2, <3>1 DEF Wait, Moves
  <2> QED
    BY <1>6, <2>1, <2>2 DEF Wait
<1>7. ASSUME NEW t \in Threads, Relock(t) PROVE TypeInv'
  <2>1. Moves(t, "try", thread[t].value, thread[t].held, thread[t].hinted, thread[t].seen)
    BY <1>7, GotoMoves DEF Relock, PCs
  <2> QED
    BY <1>7, <2>1 DEF Relock, Moves
<1>8. ASSUME NEW t \in Threads, TimerCancels(t) PROVE TypeInv'
  <2>1. Moves(t, "relock", thread[t].value, thread[t].held, thread[t].hinted, 0)
    BY <1>8, CancelMoves
  <2> QED
    BY <1>8, <2>1 DEF TimerCancels, Moves
<1>9. ASSUME NEW t \in Threads, RequestTerminate(t) PROVE TypeInv'
  <2>1. CASE thread[t].pc = "waiting"
    <3>1. Moves(t, "relock", thread[t].value, thread[t].held, thread[t].hinted, 0)
      BY <1>9, <2>1, TerminateMoves
    <3> QED
      BY <1>9, <2>1, <3>1 DEF RequestTerminate, Moves
  <2>2. CASE thread[t].pc # "waiting"
    <3>1. Moves(t, thread[t].pc, thread[t].value, thread[t].held, thread[t].hinted, 0)
      BY <1>9, <2>2, TerminateMoves
    <3> QED
      BY <1>9, <2>2, <3>1 DEF RequestTerminate, Moves
  <2> QED
    BY <1>9, <2>1, <2>2 DEF RequestTerminate
<1>10. ASSUME NEW t \in Threads, Broadcast(t) PROVE TypeInv'
  BY <1>10, BroadcastMoves DEF Broadcast
<1>11. ASSUME NEW t \in Threads, StartRelease(t) PROVE TypeInv'
  <2>1. CASE Goto(t, "release")
    <3>1. Moves(t, "release", thread[t].value, thread[t].held, thread[t].hinted, thread[t].seen)
      BY <1>11, <2>1, GotoMoves DEF PCs
    <3> QED
      BY <1>11, <2>1, <3>1 DEF StartRelease, Moves
  <2>2. CASE ~thread[t].hinted /\ Goto(t, "hint")
    <3>1. Moves(t, "hint", thread[t].value, thread[t].held, thread[t].hinted, thread[t].seen)
      BY <1>11, <2>2, GotoMoves DEF PCs
    <3> QED
      BY <1>11, <2>2, <3>1 DEF StartRelease, Moves
  <2> QED
    BY <1>11, <2>1, <2>2 DEF StartRelease
<1>12. ASSUME NEW t \in Threads, Release(t) PROVE TypeInv'
  <2>1. thread[t].value \in Nat
    BY DEF Thread
  <2>2. m_current_value' \in Int /\ m_current_hint' \in Int /\ m_peak_value' \in Int
    BY <1>12, <2>1 DEF Release, PCs
  <2>3. thread' \in [Threads -> Thread] /\ m_lock' \in Threads \cup {None}
    BY <1>12, ReleaseMoves DEF Release, PCs, Moves
  <2> QED
    BY <1>12, <2>2, <2>3 DEF Release
<1>13. ASSUME NEW v \in Limits, SetLimitValue(v) PROVE TypeInv'
  BY <1>13, ValuesAssumption DEF SetLimitValue
<1>14. ASSUME NEW t \in Threads, Expire(t) PROVE TypeInv'
  <2>1. Moves(t, thread[t].pc, thread[t].value, thread[t].held, thread[t].hinted, thread[t].seen)
    BY <1>14, ExpireMoves
  <2> QED
    BY <1>14, <2>1 DEF Expire, Moves
<1>15. CASE UNCHANGED vars
  BY <1>15 DEF vars
<1> QED
  BY <1>1, <1>2, <1>3, <1>4, <1>5, <1>6, <1>7, <1>8, <1>9, <1>10, <1>11, <1>12, <1>13, <1>14, <1>15
     DEF Next, Locking, Running

LEMMA LockStep == Exclusive /\ TypeInv /\ LockInv /\ [Next]_vars => LockInv'
<1> SUFFICES ASSUME Exclusive, TypeInv, LockInv, [Next]_vars PROVE LockInv'
  OBVIOUS
<1> USE DEF TypeInv, LockInv, Placed, Reserving, Releasing, values
<1>1. ASSUME NEW t \in Threads, NEW v \in Values, NEW f \in BOOLEAN, Reserve(t, v, f) PROVE LockInv'
  <2>1. Moves(t, "reserve", v, thread[t].held, thread[t].hinted, thread[t].seen)
    BY <1>1, ReserveMoves
  <2>2. Placed(t)'
    BY <1>1, <2>1 DEF Reserve, Moves
  <2>3. ASSUME NEW u \in Threads, u # t PROVE Placed(u)'
    BY <1>1, <2>1, <2>3, ThreadsAssumption DEF Reserve, Moves
  <2> QED
    BY <2>2, <2>3
<1>2. ASSUME NEW t \in Threads, ReserveLock(t) PROVE LockInv'
  <2>1. CASE m_current_hint >= m_limit_value
    <3>1. Moves(t, "user", 0, thread[t].held, thread[t].hinted, thread[t].seen)
      BY <1>2, <2>1, FailMoves DEF ReserveLock
    <3>2. Placed(t)'
      BY <1>2, <2>1, <3>1 DEF ReserveLock, Moves
    <3>3. ASSUME NEW u \in Threads, u # t PROVE Placed(u)'
      BY <1>2, <2>1, <3>1, <3>3, ThreadsAssumption DEF ReserveLock, Moves
    <3> QED
      BY <3>2, <3>3
  <2>2. CASE ~(m_current_hint >= m_limit_value)
    <3>1. Moves(t, "try", thread[t].value, thread[t].held, thread[t].hinted, thread[t].seen)
      BY <1>2, <2>2, GotoMoves DEF ReserveLock, PCs
    <3>2. Placed(t)'
      BY <1>2, <2>2, <3>1 DEF ReserveLock, Moves
    <3>3. ASSUME NEW u \in Threads, u # t PROVE Placed(u)'
      BY <1>2, <2>2, <3>1, <3>3, ThreadsAssumption DEF ReserveLock, Moves
    <3> QED
      BY <3>2, <3>3
  <2> QED
    BY <1>2, <2>1, <2>2 DEF ReserveLock
<1>3. ASSUME NEW t \in Threads, ReserveSucceeds(t) PROVE LockInv'
  <2>1. Moves(t, "user", thread[t].value, TRUE, thread[t].hinted, thread[t].seen)
    BY <1>3, SucceedsMoves
  <2>2. Placed(t)'
    BY <1>3, <2>1 DEF ReserveSucceeds, Moves
  <2>3. ASSUME NEW u \in Threads, u # t PROVE Placed(u)'
    BY <1>3, <2>1, <2>3, ThreadsAssumption DEF ReserveSucceeds, Moves
  <2> QED
    BY <2>2, <2>3
<1>4. ASSUME NEW t \in Threads, ReserveWaits(t) PROVE LockInv'
  <2>1. Moves(t, "wait", thread[t].value, thread[t].held, thread[t].hinted, thread[t].seen)
    BY <1>4, GotoMoves DEF ReserveWaits, PCs
  <2>2. Placed(t)'
    BY <1>4, <2>1 DEF ReserveWaits, Moves
  <2>3. ASSUME NEW u \in Threads, u # t PROVE Placed(u)'
    BY <1>4, <2>1, <2>3, ThreadsAssumption DEF ReserveWaits, Moves
  <2> QED
    BY <2>2, <2>3
<1>5. ASSUME NEW t \in Threads, ReserveFails(t) PROVE LockInv'
  <2>1. Moves(t, "user", 0, thread[t].held, thread[t].hinted, thread[t].seen)
    BY <1>5, FailMoves DEF ReserveFails
  <2>2. Placed(t)'
    BY <1>5, <2>1 DEF ReserveFails, Moves
  <2>3. ASSUME NEW u \in Threads, u # t PROVE Placed(u)'
    BY <1>5, <2>1, <2>3, ThreadsAssumption DEF ReserveFails, Moves
  <2> QED
    BY <2>2, <2>3
<1>6. ASSUME NEW t \in Threads, Wait(t) PROVE LockInv'
  <2>1. CASE thread[t].terminating
    <3>1. Moves(t, "try", thread[t].value, thread[t].held, thread[t].hinted, thread[t].seen)
      BY <1>6, <2>1, GotoMoves DEF Wait, PCs
    <3>2. Placed(t)'
      BY <1>6, <2>1, <3>1 DEF Wait, Moves
    <3>3. ASSUME NEW u \in Threads, u # t PROVE Placed(u)'
      BY <1>6, <2>1, <3>1, <3>3, ThreadsAssumption DEF Wait, Moves
    <3> QED
      BY <3>2, <3>3
  <2>2. CASE ~thread[t].terminating
    <3>1. Moves(t, "waiting", thread[t].value, thread[t].held, thread[t].hinted, m_limit_value)
      BY <1>6, <2>2, WaitMoves
    <3>2. Placed(t)'
      BY <1>6, <2>2, <3>1 DEF Wait, Moves
    <3>3. ASSUME NEW u \in Threads, u # t PROVE Placed(u)'
      BY <1>6, <2>2, <3>1, <3>3, ThreadsAssumption DEF Wait, Moves
    <3> QED
      BY <3>2, <3>3
  <2> QED
    BY <1>6, <2>1, <2>2 DEF Wait
<1>7. ASSUME NEW t \in Threads, Relock(t) PROVE LockInv'
  <2>1. Moves(t, "try", thread[t].value, thread[t].held, thread[t].hinted, thread[t].seen)
    BY <1>7, GotoMoves DEF Relock, PCs
  <2>2. Placed(t)'
    BY <1>7, <2>1 DEF Relock, Moves
  <2>3. ASSUME NEW u \in Threads, u # t PROVE Placed(u)'
    BY <1>7, <2>1, <2>3, ThreadsAssumption DEF Relock, Moves
  <2> QED
    BY <2>2, <2>3
<1>8. ASSUME NEW t \in Threads, TimerCancels(t) PROVE LockInv'
  <2>1. Moves(t, "relock", thread[t].value, thread[t].held, thread[t].hinted, 0)
    BY <1>8, CancelMoves
  <2>2. Placed(t)'
    BY <1>8, <2>1 DEF TimerCancels, Moves
  <2>3. ASSUME NEW u \in Threads, u # t PROVE Placed(u)'
    BY <1>8, <2>1, <2>3, ThreadsAssumption DEF TimerCancels, Moves
  <2> QED
    BY <2>2, <2>3
<1>9. ASSUME NEW t \in Threads, RequestTerminate(t) PROVE LockInv'
  <2>1. CASE thread[t].pc = "waiting"
    <3>1. Moves(t, "relock", thread[t].value, thread[t].held, thread[t].hinted, 0)
      BY <1>9, <2>1, TerminateMoves
    <3>2. Placed(t)'
      BY <1>9, <2>1, <3>1 DEF RequestTerminate, Moves
    <3>3. ASSUME NEW u \in Threads, u # t PROVE Placed(u)'
      BY <1>9, <2>1, <3>1, <3>3, ThreadsAssumption DEF RequestTerminate, Moves
    <3> QED
      BY <3>2, <3>3
  <2>2. CASE thread[t].pc # "waiting"
    <3>1. Moves(t, thread[t].pc, thread[t].value, thread[t].held, thread[t].hinted, 0)
      BY <1>9, <2>2, TerminateMoves
    <3>2. Placed(t)'
      BY <1>9, <2>2, <3>1 DEF RequestTerminate, Moves
    <3>3. ASSUME NEW u \in Threads, u # t PROVE Placed(u)'
      BY <1>9, <2>2, <3>1, <3>3, ThreadsAssumption DEF RequestTerminate, Moves
    <3> QED
      BY <3>2, <3>3
  <2> QED
    BY <1>9, <2>1, <2>2 DEF RequestTerminate
<1>10. ASSUME NEW t \in Threads, Broadcast(t) PROVE LockInv'
  <2>1. ASSUME NEW u \in m_wait_list PROVE Placed(u)'
    BY <1>10, <2>1, BroadcastMoves DEF Broadcast
  <2>2. Placed(t)'
    <3>1. /\ thread'[t].pc = "user" /\ t \notin m_wait_list'
          /\ thread'[t].held = thread[t].held /\ thread'[t].hinted = thread[t].hinted
      BY <1>10, BroadcastMoves DEF Broadcast
    <3> QED
      BY <3>1
  <2>3. ASSUME NEW u \in Threads, u # t, u \notin m_wait_list PROVE Placed(u)'
    BY <1>10, <2>3, BroadcastMoves DEF Broadcast
  <2> QED
    BY <2>1, <2>2, <2>3
<1>11. ASSUME NEW t \in Threads, StartRelease(t) PROVE LockInv'
  <2>1. CASE Goto(t, "release")
    <3>1. Moves(t, "release", thread[t].value, thread[t].held, thread[t].hinted, thread[t].seen)
      BY <1>11, <2>1, GotoMoves DEF PCs
    <3>2. Placed(t)'
      BY <1>11, <2>1, <3>1 DEF StartRelease, Moves
    <3>3. ASSUME NEW u \in Threads, u # t PROVE Placed(u)'
      BY <1>11, <2>1, <3>1, <3>3, ThreadsAssumption DEF StartRelease, Moves
    <3> QED
      BY <3>2, <3>3
  <2>2. CASE ~thread[t].hinted /\ Goto(t, "hint")
    <3>1. Moves(t, "hint", thread[t].value, thread[t].held, thread[t].hinted, thread[t].seen)
      BY <1>11, <2>2, GotoMoves DEF PCs
    <3>2. Placed(t)'
      BY <1>11, <2>2, <3>1 DEF StartRelease, Moves
    <3>3. ASSUME NEW u \in Threads, u # t PROVE Placed(u)'
      BY <1>11, <2>2, <3>1, <3>3, ThreadsAssumption DEF StartRelease, Moves
    <3> QED
      BY <3>2, <3>3
  <2> QED
    BY <1>11, <2>1, <2>2 DEF StartRelease
<1>12. ASSUME NEW t \in Threads, Release(t) PROVE LockInv'
  <2>1. CASE thread[t].pc = "release" /\ m_waiter_count # 0
    <3>1. Moves(t, "broadcast", 0, FALSE, FALSE, thread[t].seen)
      BY <1>12, <2>1, ReleaseMoves
    <3>2. Placed(t)'
      BY <1>12, <2>1, <3>1 DEF Release, Moves
    <3>3. ASSUME NEW u \in Threads, u # t PROVE Placed(u)'
      BY <1>12, <2>1, <3>1, <3>3, ThreadsAssumption DEF Release, Moves
    <3> QED
      BY <3>2, <3>3
  <2>2. CASE thread[t].pc = "release" /\ m_waiter_count = 0
    <3>1. Moves(t, "user", 0, FALSE, FALSE, thread[t].seen)
      BY <1>12, <2>2, ReleaseMoves
    <3>2. Placed(t)'
      BY <1>12, <2>2, <3>1 DEF Release, Moves
    <3>3. ASSUME NEW u \in Threads, u # t PROVE Placed(u)'
      BY <1>12, <2>2, <3>1, <3>3, ThreadsAssumption DEF Release, Moves
    <3> QED
      BY <3>2, <3>3
  <2>3. CASE thread[t].pc = "hint" /\ m_waiter_count # 0
    <3>1. Moves(t, "broadcast", thread[t].value, TRUE, TRUE, thread[t].seen)
      BY <1>12, <2>3, ReleaseMoves
    <3>2. Placed(t)'
      BY <1>12, <2>3, <3>1 DEF Release, Moves
    <3>3. ASSUME NEW u \in Threads, u # t PROVE Placed(u)'
      BY <1>12, <2>3, <3>1, <3>3, ThreadsAssumption DEF Release, Moves
    <3> QED
      BY <3>2, <3>3
  <2>4. CASE thread[t].pc = "hint" /\ m_waiter_count = 0
    <3>1. Moves(t, "user", thread[t].value, TRUE, TRUE, thread[t].seen)
      BY <1>12, <2>4, ReleaseMoves
    <3>2. Placed(t)'
      BY <1>12, <2>4, <3>1 DEF Release, Moves
    <3>3. ASSUME NEW u \in Threads, u # t PROVE Placed(u)'
      BY <1>12, <2>4, <3>1, <3>3, ThreadsAssumption DEF Release, Moves
    <3> QED
      BY <3>2, <3>3
  <2> QED
    BY <1>12, <2>1, <2>2, <2>3, <2>4 DEF Release
<1>13. ASSUME NEW v \in Limits, SetLimitValue(v) PROVE LockInv'
  BY <1>13 DEF SetLimitValue
<1>14. ASSUME NEW t \in Threads, Expire(t) PROVE LockInv'
  <2>1. Moves(t, thread[t].pc, thread[t].value, thread[t].held, thread[t].hinted, thread[t].seen)
    BY <1>14, ExpireMoves
  <2>2. Placed(t)'
    BY <1>14, <2>1 DEF Expire, Moves
  <2>3. ASSUME NEW u \in Threads, u # t PROVE Placed(u)'
    BY <1>14, <2>1, <2>3, ThreadsAssumption DEF Expire, Moves
  <2> QED
    BY <2>2, <2>3
<1>15. CASE UNCHANGED vars
  BY <1>15 DEF vars
<1> QED
  BY <1>1, <1>2, <1>3, <1>4, <1>5, <1>6, <1>7, <1>8, <1>9, <1>10, <1>11, <1>12, <1>13, <1>14, <1>15
     DEF Next, Locking, Running

-----------------------------------------------------------------------------
(* The waiters                                                             *)

LEMMA CountedFinite == IsFiniteSet(Counted) /\ Cardinality(Counted) \in Nat
<1>1. Counted \in SUBSET Threads
  BY DEF Counted
<1> QED
  BY <1>1, ThreadsAssumption, FS_Subset, FS_CardinalityType

LEMMA CountedJoins ==
  ASSUME CountedInv, NEW t \in Threads, t \notin Counted, Counted' = Counted \cup {t},
         m_waiter_count' = m_waiter_count + 1
  PROVE  CountedInv'
BY CountedFinite, FS_AddElement DEF CountedInv

LEMMA CountedLeaves ==
  ASSUME CountedInv, NEW t \in Counted, Counted' = Counted \ {t},
         m_waiter_count' = m_waiter_count - 1
  PROVE  CountedInv'
BY CountedFinite, FS_RemoveElement DEF CountedInv

LEMMA CountedStep == Exclusive /\ TypeInv /\ LockInv /\ CountedInv /\ [Next]_vars => CountedInv'
<1> SUFFICES ASSUME Exclusive, TypeInv, LockInv, CountedInv, [Next]_vars PROVE CountedInv'
  OBVIOUS
<1> USE DEF CountedInv, values
<1>1. ASSUME NEW t \in Threads, NEW v \in Values, NEW f \in BOOLEAN, Reserve(t, v, f) PROVE CountedInv'
  <2>1. Moves(t, "reserve", v, thread[t].held, thread[t].hinted, thread[t].seen)
    BY <1>1, ReserveMoves
  <2>2. Counted' = Counted
    BY <1>1, <2>1 DEF Reserve, Moves, Counted, Waiting
  <2> QED
    BY <1>1, <2>1, <2>2 DEF Reserve
<1>2. ASSUME NEW t \in Threads, ReserveLock(t) PROVE CountedInv'
  <2>1. CASE m_current_hint >= m_limit_value
    <3>1. Moves(t, "user", 0, thread[t].held, thread[t].hinted, thread[t].seen)
      BY <1>2, <2>1, FailMoves DEF ReserveLock
    <3>2. Counted' = Counted
      BY <1>2, <2>1, <3>1 DEF ReserveLock, Moves, Counted, Waiting
    <3> QED
      BY <1>2, <2>1, <3>1, <3>2 DEF ReserveLock
  <2>2. CASE ~(m_current_hint >= m_limit_value)
    <3>1. Moves(t, "try", thread[t].value, thread[t].held, thread[t].hinted, thread[t].seen)
      BY <1>2, <2>2, GotoMoves DEF ReserveLock, PCs
    <3>2. Counted' = Counted
      BY <1>2, <2>2, <3>1 DEF ReserveLock, Moves, Counted, Waiting
    <3> QED
      BY <1>2, <2>2, <3>1, <3>2 DEF ReserveLock
  <2> QED
    BY <1>2, <2>1, <2>2 DEF ReserveLock
<1>3. ASSUME NEW t \in Threads, ReserveSucceeds(t) PROVE CountedInv'
  <2>1. Moves(t, "user", thread[t].value, TRUE, thread[t].hinted, thread[t].seen)
    BY <1>3, SucceedsMoves
  <2>2. Counted' = Counted
    BY <1>3, <2>1 DEF ReserveSucceeds, Moves, Counted, Waiting
  <2> QED
    BY <1>3, <2>1, <2>2 DEF ReserveSucceeds
<1>4. ASSUME NEW t \in Threads, ReserveWaits(t) PROVE CountedInv'
  <2>1. Moves(t, "wait", thread[t].value, thread[t].held, thread[t].hinted, thread[t].seen)
    BY <1>4, GotoMoves DEF ReserveWaits, PCs
  <2>2. t \notin Counted /\ Counted' = Counted \cup {t}
    BY <1>4, <2>1 DEF ReserveWaits, Moves, Counted, Waiting
  <2> QED
    BY <1>4, <2>2, CountedJoins DEF ReserveWaits
<1>5. ASSUME NEW t \in Threads, ReserveFails(t) PROVE CountedInv'
  <2>1. Moves(t, "user", 0, thread[t].held, thread[t].hinted, thread[t].seen)
    BY <1>5, FailMoves DEF ReserveFails
  <2>2. Counted' = Counted
    BY <1>5, <2>1 DEF ReserveFails, Moves, Counted, Waiting
  <2> QED
    BY <1>5, <2>1, <2>2 DEF ReserveFails
<1>6. ASSUME NEW t \in Threads, Wait(t) PROVE CountedInv'
  <2>1. CASE thread[t].terminating
    <3>1. Moves(t, "try", thread[t].value, thread[t].held, thread[t].hinted, thread[t].seen)
      BY <1>6, <2>1, GotoMoves DEF Wait, PCs
    <3>2. t \in Counted /\ Counted' = Counted \ {t}
      BY <1>6, <2>1, <3>1 DEF Wait, Moves, Counted, Waiting
    <3> QED
      BY <1>6, <2>1, <3>1, <3>2, CountedLeaves DEF Wait
  <2>2. CASE ~thread[t].terminating
    <3>1. Moves(t, "waiting", thread[t].value, thread[t].held, thread[t].hinted, m_limit_value)
      BY <1>6, <2>2, WaitMoves
    <3>2. Counted' = Counted
      BY <1>6, <2>2, <3>1 DEF Wait, Moves, Counted, Waiting
    <3> QED
      BY <1>6, <2>2, <3>1, <3>2 DEF Wait
  <2> QED
    BY <1>6, <2>1, <2>2 DEF Wait
<1>7. ASSUME NEW t \in Threads, Relock(t) PROVE CountedInv'
  <2>1. Moves(t, "try", thread[t].value, thread[t].held, thread[t].hinted, thread[t].seen)
    BY <1>7, GotoMoves DEF Relock, PCs
  <2>2. t \in Counted /\ Counted' = Counted \ {t}
    BY <1>7, <2>1 DEF Relock, Moves, Counted, Waiting
  <2> QED
    BY <1>7, <2>1, <2>2, CountedLeaves DEF Relock
<1>8. ASSUME NEW t \in Threads, TimerCancels(t) PROVE CountedInv'
  <2>1. Moves(t, "relock", thread[t].value, thread[t].held, thread[t].hinted, 0)
    BY <1>8, CancelMoves
  <2>2. Counted' = Counted
    BY <1>8, <2>1 DEF TimerCancels, Moves, Counted, Waiting, TypeInv, LockInv, Placed
  <2> QED
    BY <1>8, <2>1, <2>2 DEF TimerCancels
<1>9. ASSUME NEW t \in Threads, RequestTerminate(t) PROVE CountedInv'
  <2>1. CASE thread[t].pc = "waiting"
    <3>1. Moves(t, "relock", thread[t].value, thread[t].held, thread[t].hinted, 0)
      BY <1>9, <2>1, TerminateMoves
    <3>2. Counted' = Counted
      BY <1>9, <2>1, <3>1 DEF RequestTerminate, Moves, Counted, Waiting
    <3> QED
      BY <1>9, <2>1, <3>1, <3>2 DEF RequestTerminate
  <2>2. CASE thread[t].pc # "waiting"
    <3>1. Moves(t, thread[t].pc, thread[t].value, thread[t].held, thread[t].hinted, 0)
      BY <1>9, <2>2, TerminateMoves
    <3>2. Counted' = Counted
      BY <1>9, <2>2, <3>1 DEF RequestTerminate, Moves, Counted, Waiting
    <3> QED
      BY <1>9, <2>2, <3>1, <3>2 DEF RequestTerminate
  <2> QED
    BY <1>9, <2>1, <2>2 DEF RequestTerminate
<1>10. ASSUME NEW t \in Threads, Broadcast(t) PROVE CountedInv'
  <2>1. Counted' = Counted
    BY <1>10, BroadcastMoves DEF Broadcast, Counted, Waiting, LockInv, Placed, TypeInv
  <2> QED
    BY <1>10, <2>1 DEF Broadcast
<1>11. ASSUME NEW t \in Threads, StartRelease(t) PROVE CountedInv'
  <2>1. CASE Goto(t, "release")
    <3>1. Moves(t, "release", thread[t].value, thread[t].held, thread[t].hinted, thread[t].seen)
      BY <1>11, <2>1, GotoMoves DEF PCs
    <3>2. Counted' = Counted
      BY <1>11, <2>1, <3>1 DEF StartRelease, Moves, Counted, Waiting
    <3> QED
      BY <1>11, <2>1, <3>1, <3>2 DEF StartRelease
  <2>2. CASE ~thread[t].hinted /\ Goto(t, "hint")
    <3>1. Moves(t, "hint", thread[t].value, thread[t].held, thread[t].hinted, thread[t].seen)
      BY <1>11, <2>2, GotoMoves DEF PCs
    <3>2. Counted' = Counted
      BY <1>11, <2>2, <3>1 DEF StartRelease, Moves, Counted, Waiting
    <3> QED
      BY <1>11, <2>2, <3>1, <3>2 DEF StartRelease
  <2> QED
    BY <1>11, <2>1, <2>2 DEF StartRelease
<1>12. ASSUME NEW t \in Threads, Release(t) PROVE CountedInv'
  <2>1. CASE thread[t].pc = "release" /\ m_waiter_count # 0
    <3>1. Moves(t, "broadcast", 0, FALSE, FALSE, thread[t].seen)
      BY <1>12, <2>1, ReleaseMoves
    <3>2. Counted' = Counted
      BY <1>12, <2>1, <3>1 DEF Release, Moves, Counted, Waiting
    <3> QED
      BY <1>12, <2>1, <3>1, <3>2 DEF Release
  <2>2. CASE thread[t].pc = "release" /\ m_waiter_count = 0
    <3>1. Moves(t, "user", 0, FALSE, FALSE, thread[t].seen)
      BY <1>12, <2>2, ReleaseMoves
    <3>2. Counted' = Counted
      BY <1>12, <2>2, <3>1 DEF Release, Moves, Counted, Waiting
    <3> QED
      BY <1>12, <2>2, <3>1, <3>2 DEF Release
  <2>3. CASE thread[t].pc = "hint" /\ m_waiter_count # 0
    <3>1. Moves(t, "broadcast", thread[t].value, TRUE, TRUE, thread[t].seen)
      BY <1>12, <2>3, ReleaseMoves
    <3>2. Counted' = Counted
      BY <1>12, <2>3, <3>1 DEF Release, Moves, Counted, Waiting
    <3> QED
      BY <1>12, <2>3, <3>1, <3>2 DEF Release
  <2>4. CASE thread[t].pc = "hint" /\ m_waiter_count = 0
    <3>1. Moves(t, "user", thread[t].value, TRUE, TRUE, thread[t].seen)
      BY <1>12, <2>4, ReleaseMoves
    <3>2. Counted' = Counted
      BY <1>12, <2>4, <3>1 DEF Release, Moves, Counted, Waiting
    <3> QED
      BY <1>12, <2>4, <3>1, <3>2 DEF Release
  <2> QED
    BY <1>12, <2>1, <2>2, <2>3, <2>4 DEF Release
<1>13. ASSUME NEW v \in Limits, SetLimitValue(v) PROVE CountedInv'
  BY <1>13 DEF SetLimitValue, Counted
<1>14. ASSUME NEW t \in Threads, Expire(t) PROVE CountedInv'
  <2>1. Moves(t, thread[t].pc, thread[t].value, thread[t].held, thread[t].hinted, thread[t].seen)
    BY <1>14, ExpireMoves
  <2>2. Counted' = Counted
    BY <1>14, <2>1 DEF Expire, Moves, Counted, Waiting
  <2> QED
    BY <1>14, <2>1, <2>2 DEF Expire
<1>15. CASE UNCHANGED vars
  BY <1>15 DEF vars, Counted
<1> QED
  BY <1>1, <1>2, <1>3, <1>4, <1>5, <1>6, <1>7, <1>8, <1>9, <1>10, <1>11, <1>12, <1>13, <1>14, <1>15
     DEF Next, Locking, Running

\* Nobody waits when the count is 0.
LEMMA NobodyCounted ==
  ASSUME CountedInv, m_waiter_count = 0, NEW t \in Threads
  PROVE  thread[t].pc \notin Waiting
<1>1. Counted = {}
  BY CountedFinite, FS_EmptySet DEF CountedInv
<1> QED
  BY <1>1 DEF Counted

LEMMA MissingStep == Exclusive /\ TypeInv /\ LockInv /\ CountedInv /\ MissingInv /\ [Next]_vars => MissingInv'
<1> SUFFICES ASSUME Exclusive, TypeInv, LockInv, CountedInv, MissingInv, [Next]_vars PROVE MissingInv'
  OBVIOUS
<1> USE DEF TypeInv, MissingInv, Missing, values
<1>1. ASSUME NEW t \in Threads, NEW v \in Values, NEW f \in BOOLEAN, Reserve(t, v, f) PROVE MissingInv'
  <2>1. Moves(t, "reserve", v, thread[t].held, thread[t].hinted, thread[t].seen)
    BY <1>1, ReserveMoves
  <2>2. Missing(t)'
    BY <1>1, <2>1 DEF Reserve, Moves, Thread, PCs, MayWait
  <2>3. ASSUME NEW u \in Threads, u # t PROVE Missing(u)'
    BY <1>1, <2>1, <2>3 DEF Reserve, Moves, Thread, LockInv, Placed
  <2> QED
    BY <2>2, <2>3
<1>2. ASSUME NEW t \in Threads, ReserveLock(t) PROVE MissingInv'
  <2>1. CASE m_current_hint >= m_limit_value
    <3>1. Moves(t, "user", 0, thread[t].held, thread[t].hinted, thread[t].seen)
      BY <1>2, <2>1, FailMoves DEF ReserveLock
    <3>2. Missing(t)'
      BY <1>2, <2>1, <3>1 DEF ReserveLock, Moves, Thread, PCs, MayWait
    <3>3. ASSUME NEW u \in Threads, u # t PROVE Missing(u)'
      BY <1>2, <2>1, <3>1, <3>3 DEF ReserveLock, Moves, Thread, LockInv, Placed
    <3> QED
      BY <3>2, <3>3
  <2>2. CASE ~(m_current_hint >= m_limit_value)
    <3>1. Moves(t, "try", thread[t].value, thread[t].held, thread[t].hinted, thread[t].seen)
      BY <1>2, <2>2, GotoMoves DEF ReserveLock, PCs
    <3>2. Missing(t)'
      BY <1>2, <2>2, <3>1 DEF ReserveLock, Moves, Thread, PCs, MayWait
    <3>3. ASSUME NEW u \in Threads, u # t PROVE Missing(u)'
      BY <1>2, <2>2, <3>1, <3>3 DEF ReserveLock, Moves, Thread, LockInv, Placed
    <3> QED
      BY <3>2, <3>3
  <2> QED
    BY <1>2, <2>1, <2>2 DEF ReserveLock
<1>3. ASSUME NEW t \in Threads, ReserveSucceeds(t) PROVE MissingInv'
  <2>1. Moves(t, "user", thread[t].value, TRUE, thread[t].hinted, thread[t].seen)
    BY <1>3, SucceedsMoves
  <2>2. Missing(t)'
    BY <1>3, <2>1 DEF ReserveSucceeds, Moves, Thread, PCs, MayWait
  <2>3. ASSUME NEW u \in Threads, u # t PROVE Missing(u)'
    BY <1>3, <2>1, <2>3 DEF ReserveSucceeds, Moves, Thread, LockInv, Placed
  <2> QED
    BY <2>2, <2>3
<1>4. ASSUME NEW t \in Threads, ReserveWaits(t) PROVE MissingInv'
  <2>1. Moves(t, "wait", thread[t].value, thread[t].held, thread[t].hinted, thread[t].seen)
    BY <1>4, GotoMoves DEF ReserveWaits, PCs
  <2>2. Missing(t)'
    BY <1>4, <2>1 DEF ReserveWaits, Moves, Thread, PCs, MayWait
  <2>3. ASSUME NEW u \in Threads, u # t PROVE Missing(u)'
    BY <1>4, <2>1, <2>3 DEF ReserveWaits, Moves, Thread, LockInv, Placed
  <2> QED
    BY <2>2, <2>3
<1>5. ASSUME NEW t \in Threads, ReserveFails(t) PROVE MissingInv'
  <2>1. Moves(t, "user", 0, thread[t].held, thread[t].hinted, thread[t].seen)
    BY <1>5, FailMoves DEF ReserveFails
  <2>2. Missing(t)'
    BY <1>5, <2>1 DEF ReserveFails, Moves, Thread, PCs, MayWait
  <2>3. ASSUME NEW u \in Threads, u # t PROVE Missing(u)'
    BY <1>5, <2>1, <2>3 DEF ReserveFails, Moves, Thread, LockInv, Placed
  <2> QED
    BY <2>2, <2>3
<1>6. ASSUME NEW t \in Threads, Wait(t) PROVE MissingInv'
  <2>1. CASE thread[t].terminating
    <3>1. Moves(t, "try", thread[t].value, thread[t].held, thread[t].hinted, thread[t].seen)
      BY <1>6, <2>1, GotoMoves DEF Wait, PCs
    <3>2. Missing(t)'
      BY <1>6, <2>1, <3>1 DEF Wait, Moves, Thread, PCs, MayWait
    <3>3. ASSUME NEW u \in Threads, u # t PROVE Missing(u)'
      BY <1>6, <2>1, <3>1, <3>3 DEF Wait, Moves, Thread, LockInv, Placed
    <3> QED
      BY <3>2, <3>3
  <2>2. CASE ~thread[t].terminating
    <3>1. Moves(t, "waiting", thread[t].value, thread[t].held, thread[t].hinted, m_limit_value)
      BY <1>6, <2>2, WaitMoves
    <3>2. Missing(t)'
      BY <1>6, <2>2, <3>1 DEF Wait, Moves, Thread, PCs, MayWait
    <3>3. ASSUME NEW u \in Threads, u # t PROVE Missing(u)'
      BY <1>6, <2>2, <3>1, <3>3 DEF Wait, Moves, Thread, LockInv, Placed
    <3> QED
      BY <3>2, <3>3
  <2> QED
    BY <1>6, <2>1, <2>2 DEF Wait
<1>7. ASSUME NEW t \in Threads, Relock(t) PROVE MissingInv'
  <2>1. Moves(t, "try", thread[t].value, thread[t].held, thread[t].hinted, thread[t].seen)
    BY <1>7, GotoMoves DEF Relock, PCs
  <2>2. Missing(t)'
    BY <1>7, <2>1 DEF Relock, Moves, Thread, PCs, MayWait
  <2>3. ASSUME NEW u \in Threads, u # t PROVE Missing(u)'
    BY <1>7, <2>1, <2>3 DEF Relock, Moves, Thread, LockInv, Placed
  <2> QED
    BY <2>2, <2>3
<1>8. ASSUME NEW t \in Threads, TimerCancels(t) PROVE MissingInv'
  <2>1. Moves(t, "relock", thread[t].value, thread[t].held, thread[t].hinted, 0)
    BY <1>8, CancelMoves
  <2>2. Missing(t)'
    BY <1>8, <2>1 DEF TimerCancels, Moves, Thread, PCs, MayWait
  <2>3. ASSUME NEW u \in Threads, u # t PROVE Missing(u)'
    BY <1>8, <2>1, <2>3 DEF TimerCancels, Moves, Thread, LockInv, Placed
  <2> QED
    BY <2>2, <2>3
<1>9. ASSUME NEW t \in Threads, RequestTerminate(t) PROVE MissingInv'
  <2>1. CASE thread[t].pc = "waiting"
    <3>1. Moves(t, "relock", thread[t].value, thread[t].held, thread[t].hinted, 0)
      BY <1>9, <2>1, TerminateMoves
    <3>2. Missing(t)'
      BY <1>9, <2>1, <3>1 DEF RequestTerminate, Moves, Thread, PCs, MayWait
    <3>3. ASSUME NEW u \in Threads, u # t PROVE Missing(u)'
      BY <1>9, <2>1, <3>1, <3>3 DEF RequestTerminate, Moves, Thread, LockInv, Placed
    <3> QED
      BY <3>2, <3>3
  <2>2. CASE thread[t].pc # "waiting"
    <3>1. Moves(t, thread[t].pc, thread[t].value, thread[t].held, thread[t].hinted, 0)
      BY <1>9, <2>2, TerminateMoves
    <3>2. Missing(t)'
      BY <1>9, <2>2, <3>1 DEF RequestTerminate, Moves, Thread, PCs, MayWait
    <3>3. ASSUME NEW u \in Threads, u # t PROVE Missing(u)'
      BY <1>9, <2>2, <3>1, <3>3 DEF RequestTerminate, Moves, Thread, LockInv, Placed
    <3> QED
      BY <3>2, <3>3
  <2> QED
    BY <1>9, <2>1, <2>2 DEF RequestTerminate
<1>10. ASSUME NEW t \in Threads, Broadcast(t) PROVE MissingInv'
  <2> SUFFICES ASSUME NEW u \in Threads PROVE Missing(u)'
    OBVIOUS
  <2>1. CASE u \in m_wait_list
    BY <1>10, <2>1, BroadcastMoves
  <2>2. CASE u = t
    BY <1>10, <2>2, BroadcastMoves
  <2>3. CASE u # t /\ u \notin m_wait_list
    <3>1. thread[u].pc # "waiting" /\ thread'[u] = thread[u]
      BY <1>10, <2>3, BroadcastMoves DEF LockInv, Placed
    <3> QED
      BY <1>10, <3>1 DEF Broadcast
  <2> QED
    BY <2>1, <2>2, <2>3
<1>11. ASSUME NEW t \in Threads, StartRelease(t) PROVE MissingInv'
  <2>1. CASE Goto(t, "release")
    <3>1. Moves(t, "release", thread[t].value, thread[t].held, thread[t].hinted, thread[t].seen)
      BY <1>11, <2>1, GotoMoves DEF PCs
    <3>2. Missing(t)'
      BY <1>11, <2>1, <3>1 DEF StartRelease, Moves, Thread, PCs, MayWait
    <3>3. ASSUME NEW u \in Threads, u # t PROVE Missing(u)'
      BY <1>11, <2>1, <3>1, <3>3 DEF StartRelease, Moves, Thread, LockInv, Placed
    <3> QED
      BY <3>2, <3>3
  <2>2. CASE ~thread[t].hinted /\ Goto(t, "hint")
    <3>1. Moves(t, "hint", thread[t].value, thread[t].held, thread[t].hinted, thread[t].seen)
      BY <1>11, <2>2, GotoMoves DEF PCs
    <3>2. Missing(t)'
      BY <1>11, <2>2, <3>1 DEF StartRelease, Moves, Thread, PCs, MayWait
    <3>3. ASSUME NEW u \in Threads, u # t PROVE Missing(u)'
      BY <1>11, <2>2, <3>1, <3>3 DEF StartRelease, Moves, Thread, LockInv, Placed
    <3> QED
      BY <3>2, <3>3
  <2> QED
    BY <1>11, <2>1, <2>2 DEF StartRelease
<1>12. ASSUME NEW t \in Threads, Release(t) PROVE MissingInv'
  <2>1. CASE thread[t].pc = "release" /\ m_waiter_count # 0
    <3>1. Moves(t, "broadcast", 0, FALSE, FALSE, thread[t].seen)
      BY <1>12, <2>1, ReleaseMoves
    <3>2. Missing(t)'
      BY <1>12, <2>1, <3>1 DEF Release, Moves, Thread, PCs, MayWait
    <3>3. ASSUME NEW u \in Threads, u # t PROVE Missing(u)'
      <4>1. thread[u].pc # "wait" /\ thread'[u] = thread[u]
        BY <1>12, <2>1, <3>1, <3>3, ThreadsAssumption DEF Release, Moves, LockInv, Placed
      <4>2. thread'[t].pc = "broadcast"
        BY <1>12, <2>1, <3>1 DEF Moves
      <4> QED
        BY <4>1, <4>2
    <3> QED
      BY <3>2, <3>3
  <2>2. CASE thread[t].pc = "release" /\ m_waiter_count = 0
    <3>1. Moves(t, "user", 0, FALSE, FALSE, thread[t].seen)
      BY <1>12, <2>2, ReleaseMoves
    <3>2. Missing(t)'
      BY <1>12, <2>2, <3>1 DEF Release, Moves, Thread, PCs, MayWait
    <3>3. ASSUME NEW u \in Threads, u # t PROVE Missing(u)'
      <4>1. thread[u].pc # "wait" /\ thread'[u] = thread[u]
        BY <1>12, <2>2, <3>1, <3>3, ThreadsAssumption DEF Release, Moves, LockInv, Placed
      <4>2. thread[u].pc # "waiting"
        BY <1>12, <2>2, <3>1, NobodyCounted DEF Waiting
      <4> QED
        BY <4>1, <4>2
    <3> QED
      BY <3>2, <3>3
  <2>3. CASE thread[t].pc = "hint" /\ m_waiter_count # 0
    <3>1. Moves(t, "broadcast", thread[t].value, TRUE, TRUE, thread[t].seen)
      BY <1>12, <2>3, ReleaseMoves
    <3>2. Missing(t)'
      BY <1>12, <2>3, <3>1 DEF Release, Moves, Thread, PCs, MayWait
    <3>3. ASSUME NEW u \in Threads, u # t PROVE Missing(u)'
      <4>1. thread[u].pc # "wait" /\ thread'[u] = thread[u]
        BY <1>12, <2>3, <3>1, <3>3, ThreadsAssumption DEF Release, Moves, LockInv, Placed
      <4>2. thread'[t].pc = "broadcast"
        BY <1>12, <2>3, <3>1 DEF Moves
      <4> QED
        BY <4>1, <4>2
    <3> QED
      BY <3>2, <3>3
  <2>4. CASE thread[t].pc = "hint" /\ m_waiter_count = 0
    <3>1. Moves(t, "user", thread[t].value, TRUE, TRUE, thread[t].seen)
      BY <1>12, <2>4, ReleaseMoves
    <3>2. Missing(t)'
      BY <1>12, <2>4, <3>1 DEF Release, Moves, Thread, PCs, MayWait
    <3>3. ASSUME NEW u \in Threads, u # t PROVE Missing(u)'
      <4>1. thread[u].pc # "wait" /\ thread'[u] = thread[u]
        BY <1>12, <2>4, <3>1, <3>3, ThreadsAssumption DEF Release, Moves, LockInv, Placed
      <4>2. thread[u].pc # "waiting"
        BY <1>12, <2>4, <3>1, NobodyCounted DEF Waiting
      <4> QED
        BY <4>1, <4>2
    <3> QED
      BY <3>2, <3>3
  <2> QED
    BY <1>12, <2>1, <2>2, <2>3, <2>4 DEF Release
<1>13. ASSUME NEW v \in Limits, SetLimitValue(v) PROVE MissingInv'
  <2>1. \A u \in Threads : thread[u].pc # "wait"
    BY <1>13, ThreadsAssumption DEF SetLimitValue, LockInv, Placed
  <2> QED
    BY <1>13, <2>1 DEF SetLimitValue
<1>14. ASSUME NEW t \in Threads, Expire(t) PROVE MissingInv'
  <2>1. Moves(t, thread[t].pc, thread[t].value, thread[t].held, thread[t].hinted, thread[t].seen)
    BY <1>14, ExpireMoves
  <2>2. Missing(t)'
    BY <1>14, <2>1 DEF Expire, Moves, Thread, PCs, MayWait
  <2>3. ASSUME NEW u \in Threads, u # t PROVE Missing(u)'
    BY <1>14, <2>1, <2>3 DEF Expire, Moves, Thread, LockInv, Placed
  <2> QED
    BY <2>2, <2>3
<1>15. CASE UNCHANGED vars
  BY <1>15 DEF vars
<1> QED
  BY <1>1, <1>2, <1>3, <1>4, <1>5, <1>6, <1>7, <1>8, <1>9, <1>10, <1>11, <1>12, <1>13, <1>14, <1>15
     DEF Next, Locking, Running

-----------------------------------------------------------------------------
(* The counters                                                            *)

LEMMA ValueType ==
  ASSUME TypeInv
  PROVE  Value \in [Threads -> Nat] /\ \A t \in Threads : Value[t] = thread[t].value
BY DEF TypeInv, Value, Thread

\* A step that keeps the reservations and the counters.
LEMMA CountsKept ==
  ASSUME TypeInv, TypeInv', CountInv, Held' = Held, Unhinted' = Unhinted, UNCHANGED values,
         \A t \in Held : thread'[t].value = thread[t].value
  PROVE  CountInv'
<1>1. \A t \in Held : Value'[t] = Value[t]
  BY DEF Value, Held
<1>2. Held \in SUBSET Threads /\ Unhinted \in SUBSET Held
  BY DEF Held, Unhinted
<1>3. Cells(Held, Value') = Cells(Held, Value) /\ Cells(Unhinted, Value') = Cells(Unhinted, Value)
  BY <1>1, <1>2, CellsAgree
<1>4. Cells(Held, Value)' = Cells(Held', Value') /\ Cells(Unhinted, Value)' = Cells(Unhinted', Value')
  BY DEF Cells
<1>5. Cells(Held, Value)' = Cells(Held, Value) /\ Cells(Unhinted, Value)' = Cells(Unhinted, Value)
  BY <1>3, <1>4, Zenon
<1>6. \A t \in Held' : thread'[t].value <= m_peak_value'
  BY DEF CountInv, values
<1> QED
  BY <1>5, <1>6 DEF CountInv, values

LEMMA CountStep == Exclusive /\ TypeInv /\ LockInv /\ CountInv /\ [Next]_vars => CountInv'
<1> SUFFICES ASSUME Exclusive, TypeInv, LockInv, CountInv, [Next]_vars PROVE CountInv'
  OBVIOUS
<1> USE DEF values
<1>0. TypeInv'
  BY TypeStep
<1>1. ASSUME NEW t \in Threads, NEW v \in Values, NEW f \in BOOLEAN, Reserve(t, v, f) PROVE CountInv'
  <2>1. Moves(t, "reserve", v, thread[t].held, thread[t].hinted, thread[t].seen)
    BY <1>1, ReserveMoves
  <2>2. Held' = Held /\ Unhinted' = Unhinted /\ \A u \in Held : thread'[u].value = thread[u].value
    BY <1>1, <2>1 DEF Reserve, Moves, Held, Unhinted, LockInv, Placed, Reserving
  <2> QED
    BY <1>1, <2>1, <2>2, <1>0, CountsKept DEF Reserve
<1>2. ASSUME NEW t \in Threads, ReserveLock(t) PROVE CountInv'
  <2>1. CASE m_current_hint >= m_limit_value
    <3>1. Moves(t, "user", 0, thread[t].held, thread[t].hinted, thread[t].seen)
      BY <1>2, <2>1, FailMoves DEF ReserveLock
    <3>2. Held' = Held /\ Unhinted' = Unhinted /\ \A u \in Held : thread'[u].value = thread[u].value
      BY <1>2, <2>1, <3>1 DEF ReserveLock, Moves, Held, Unhinted, LockInv, Placed, Reserving
    <3> QED
      BY <1>2, <2>1, <3>1, <3>2, <1>0, CountsKept DEF ReserveLock
  <2>2. CASE ~(m_current_hint >= m_limit_value)
    <3>1. Moves(t, "try", thread[t].value, thread[t].held, thread[t].hinted, thread[t].seen)
      BY <1>2, <2>2, GotoMoves DEF ReserveLock, PCs
    <3>2. Held' = Held /\ Unhinted' = Unhinted /\ \A u \in Held : thread'[u].value = thread[u].value
      BY <1>2, <2>2, <3>1 DEF ReserveLock, Moves, Held, Unhinted, LockInv, Placed, Reserving
    <3> QED
      BY <1>2, <2>2, <3>1, <3>2, <1>0, CountsKept DEF ReserveLock
  <2> QED
    BY <1>2, <2>1, <2>2 DEF ReserveLock
<1>3. ASSUME NEW t \in Threads, ReserveSucceeds(t) PROVE CountInv'
  <2> DEFINE w == thread[t].value
             h == Cardinality(Cells(Held, Value))
             n == Cardinality(Cells(Unhinted, Value))
  <2>1. Moves(t, "user", w, TRUE, thread[t].hinted, thread[t].seen)
    BY <1>3, SucceedsMoves
  <2>2. ~thread[t].held /\ ~thread[t].hinted
    BY <1>3 DEF ReserveSucceeds, LockInv, Placed, Reserving
  <2>3. t \notin Held /\ t \notin Unhinted /\ Held' = Held \cup {t} /\ Unhinted' = Unhinted \cup {t}
    BY <2>1, <2>2 DEF Moves, Held, Unhinted
  <2>4. Value' = Value /\ Value[t] = w /\ w \in Nat
    BY <2>1, ValueType DEF Value, Moves
  <2>5. Held \in SUBSET Threads /\ Unhinted \in SUBSET Threads
    BY DEF Held, Unhinted
  <2>6. /\ Cardinality(Cells(Held \cup {t}, Value)) = h + w
        /\ Cardinality(Cells(Unhinted \cup {t}, Value)) = n + w
    BY <2>3, <2>4, <2>5, ValueType, UnitsAreCells, CellsAdd
  <2>7. Cells(Held, Value)' = Cells(Held \cup {t}, Value) /\ Cells(Unhinted, Value)' = Cells(Unhinted \cup {t}, Value)
    <3>1. Cells(Held, Value)' = Cells(Held', Value') /\ Cells(Unhinted, Value)' = Cells(Unhinted', Value')
      BY DEF Cells
    <3> QED
      BY <2>3, <2>4, <3>1, Zenon
  <2>8. m_current_value = h /\ m_current_hint = n
    BY DEF CountInv
  <2>9. m_current_value' = Cardinality(Cells(Held, Value)') /\ m_current_hint' = Cardinality(Cells(Unhinted, Value)')
    <3>1. m_current_value' = h + w /\ m_current_hint' = n + w
      BY <1>3, <2>8, Zenon DEF ReserveSucceeds
    <3> QED
      BY <2>6, <2>7, <3>1, Zenon
  <2>10. m_current_value' <= m_peak_value' /\ m_peak_value' <= m_limit_value' /\ m_peak_value <= m_peak_value'
    BY <1>3, <2>4 DEF ReserveSucceeds, Larger, TypeInv, CountInv
  <2>11. w <= m_peak_value'
    <3>1. m_current_value \in Nat /\ m_current_value' = m_current_value + w /\ m_peak_value' \in Int
      BY <1>0, <1>3, UnitsAreCells DEF ReserveSucceeds, TypeInv
    <3> HIDE DEF w
    <3> QED
      BY <3>1, <2>4, <2>10
  <2>12. \A u \in Held' : thread'[u].value <= m_peak_value'
    <3> SUFFICES ASSUME NEW u \in Held' PROVE thread'[u].value <= m_peak_value'
      OBVIOUS
    <3>1. CASE u = t
      BY <2>1, <2>11, <3>1 DEF Moves
    <3>2. CASE u # t
      <4>1. u \in Held /\ thread'[u].value = thread[u].value /\ thread[u].value \in Nat
        BY <2>1, <2>3, <3>2 DEF Moves, Held, TypeInv, Thread
      <4> QED
        BY <1>0, <4>1, <2>10 DEF CountInv, TypeInv
    <3> QED
      BY <3>1, <3>2
  <2> QED
    BY <2>9, <2>10, <2>12 DEF CountInv
<1>4. ASSUME NEW t \in Threads, ReserveWaits(t) PROVE CountInv'
  <2>1. Moves(t, "wait", thread[t].value, thread[t].held, thread[t].hinted, thread[t].seen)
    BY <1>4, GotoMoves DEF ReserveWaits, PCs
  <2>2. Held' = Held /\ Unhinted' = Unhinted /\ \A u \in Held : thread'[u].value = thread[u].value
    BY <1>4, <2>1 DEF ReserveWaits, Moves, Held, Unhinted, LockInv, Placed, Reserving
  <2> QED
    BY <1>4, <2>1, <2>2, <1>0, CountsKept DEF ReserveWaits
<1>5. ASSUME NEW t \in Threads, ReserveFails(t) PROVE CountInv'
  <2>1. Moves(t, "user", 0, thread[t].held, thread[t].hinted, thread[t].seen)
    BY <1>5, FailMoves DEF ReserveFails
  <2>2. Held' = Held /\ Unhinted' = Unhinted /\ \A u \in Held : thread'[u].value = thread[u].value
    BY <1>5, <2>1 DEF ReserveFails, Moves, Held, Unhinted, LockInv, Placed, Reserving
  <2> QED
    BY <1>5, <2>1, <2>2, <1>0, CountsKept DEF ReserveFails
<1>6. ASSUME NEW t \in Threads, Wait(t) PROVE CountInv'
  <2>1. CASE thread[t].terminating
    <3>1. Moves(t, "try", thread[t].value, thread[t].held, thread[t].hinted, thread[t].seen)
      BY <1>6, <2>1, GotoMoves DEF Wait, PCs
    <3>2. Held' = Held /\ Unhinted' = Unhinted /\ \A u \in Held : thread'[u].value = thread[u].value
      BY <1>6, <2>1, <3>1 DEF Wait, Moves, Held, Unhinted, LockInv, Placed, Reserving
    <3> QED
      BY <1>6, <2>1, <3>1, <3>2, <1>0, CountsKept DEF Wait
  <2>2. CASE ~thread[t].terminating
    <3>1. Moves(t, "waiting", thread[t].value, thread[t].held, thread[t].hinted, m_limit_value)
      BY <1>6, <2>2, WaitMoves
    <3>2. Held' = Held /\ Unhinted' = Unhinted /\ \A u \in Held : thread'[u].value = thread[u].value
      BY <1>6, <2>2, <3>1 DEF Wait, Moves, Held, Unhinted, LockInv, Placed, Reserving
    <3> QED
      BY <1>6, <2>2, <3>1, <3>2, <1>0, CountsKept DEF Wait
  <2> QED
    BY <1>6, <2>1, <2>2 DEF Wait
<1>7. ASSUME NEW t \in Threads, Relock(t) PROVE CountInv'
  <2>1. Moves(t, "try", thread[t].value, thread[t].held, thread[t].hinted, thread[t].seen)
    BY <1>7, GotoMoves DEF Relock, PCs
  <2>2. Held' = Held /\ Unhinted' = Unhinted /\ \A u \in Held : thread'[u].value = thread[u].value
    BY <1>7, <2>1 DEF Relock, Moves, Held, Unhinted, LockInv, Placed, Reserving
  <2> QED
    BY <1>7, <2>1, <2>2, <1>0, CountsKept DEF Relock
<1>8. ASSUME NEW t \in Threads, TimerCancels(t) PROVE CountInv'
  <2>1. Moves(t, "relock", thread[t].value, thread[t].held, thread[t].hinted, 0)
    BY <1>8, CancelMoves
  <2>2. Held' = Held /\ Unhinted' = Unhinted /\ \A u \in Held : thread'[u].value = thread[u].value
    BY <1>8, <2>1 DEF TimerCancels, Moves, Held, Unhinted, LockInv, Placed, Reserving
  <2> QED
    BY <1>8, <2>1, <2>2, <1>0, CountsKept DEF TimerCancels
<1>9. ASSUME NEW t \in Threads, RequestTerminate(t) PROVE CountInv'
  <2>1. CASE thread[t].pc = "waiting"
    <3>1. Moves(t, "relock", thread[t].value, thread[t].held, thread[t].hinted, 0)
      BY <1>9, <2>1, TerminateMoves
    <3>2. Held' = Held /\ Unhinted' = Unhinted /\ \A u \in Held : thread'[u].value = thread[u].value
      BY <1>9, <2>1, <3>1 DEF RequestTerminate, Moves, Held, Unhinted, LockInv, Placed, Reserving
    <3> QED
      BY <1>9, <2>1, <3>1, <3>2, <1>0, CountsKept DEF RequestTerminate
  <2>2. CASE thread[t].pc # "waiting"
    <3>1. Moves(t, thread[t].pc, thread[t].value, thread[t].held, thread[t].hinted, 0)
      BY <1>9, <2>2, TerminateMoves
    <3>2. Held' = Held /\ Unhinted' = Unhinted /\ \A u \in Held : thread'[u].value = thread[u].value
      BY <1>9, <2>2, <3>1 DEF RequestTerminate, Moves, Held, Unhinted, LockInv, Placed, Reserving
    <3> QED
      BY <1>9, <2>2, <3>1, <3>2, <1>0, CountsKept DEF RequestTerminate
  <2> QED
    BY <1>9, <2>1, <2>2 DEF RequestTerminate
<1>10. ASSUME NEW t \in Threads, Broadcast(t) PROVE CountInv'
  <2>1. Held' = Held /\ Unhinted' = Unhinted /\ \A u \in Held : thread'[u].value = thread[u].value
    BY <1>10, BroadcastMoves DEF Held, Unhinted
  <2> QED
    BY <1>10, <2>1, <1>0, CountsKept DEF Broadcast
<1>11. ASSUME NEW t \in Threads, StartRelease(t) PROVE CountInv'
  <2>1. CASE Goto(t, "release")
    <3>1. Moves(t, "release", thread[t].value, thread[t].held, thread[t].hinted, thread[t].seen)
      BY <1>11, <2>1, GotoMoves DEF PCs
    <3>2. Held' = Held /\ Unhinted' = Unhinted /\ \A u \in Held : thread'[u].value = thread[u].value
      BY <1>11, <2>1, <3>1 DEF StartRelease, Moves, Held, Unhinted, LockInv, Placed, Reserving
    <3> QED
      BY <1>11, <2>1, <3>1, <3>2, <1>0, CountsKept DEF StartRelease
  <2>2. CASE ~thread[t].hinted /\ Goto(t, "hint")
    <3>1. Moves(t, "hint", thread[t].value, thread[t].held, thread[t].hinted, thread[t].seen)
      BY <1>11, <2>2, GotoMoves DEF PCs
    <3>2. Held' = Held /\ Unhinted' = Unhinted /\ \A u \in Held : thread'[u].value = thread[u].value
      BY <1>11, <2>2, <3>1 DEF StartRelease, Moves, Held, Unhinted, LockInv, Placed, Reserving
    <3> QED
      BY <1>11, <2>2, <3>1, <3>2, <1>0, CountsKept DEF StartRelease
  <2> QED
    BY <1>11, <2>1, <2>2 DEF StartRelease
<1>12. ASSUME NEW t \in Threads, Release(t) PROVE CountInv'
  <2> DEFINE w == thread[t].value
             h == Cardinality(Cells(Held, Value))
             n == Cardinality(Cells(Unhinted, Value))
  <2>1. Value[t] = w /\ w \in Nat /\ Value \in [Threads -> Nat]
    BY ValueType
  <2>2. /\ Held \in SUBSET Threads /\ Unhinted \in SUBSET Threads /\ t \in Held
        /\ t \in Unhinted <=> ~thread[t].hinted
    BY <1>12 DEF Held, Unhinted, Release, LockInv, Placed, Releasing
  <2>3. Cardinality(Cells(Held \ {t}, Value)) = h - w
    BY <2>1, <2>2, UnitsAreCells, CellsRemove
  <2>4. t \in Unhinted => Cardinality(Cells(Unhinted \ {t}, Value)) = n - w
    BY <2>1, <2>2, UnitsAreCells, CellsRemove
  <2>5. m_current_value = h /\ m_current_hint = n /\ h \in Int /\ n \in Int
    BY UnitsAreCells DEF CountInv, TypeInv
  <2>6. Cells(Held, Value)' = Cells(Held', Value') /\ Cells(Unhinted, Value)' = Cells(Unhinted', Value')
    BY DEF Cells
  <2>7. CASE thread[t].pc = "release"
    <3>1. \E q \in PCs : Moves(t, q, 0, FALSE, FALSE, thread[t].seen)
      BY <1>12, <2>7, ReleaseMoves
    <3>2. /\ Held' = Held \ {t} /\ Unhinted' = Unhinted \ {t}
          /\ \A u \in Held \ {t} : thread'[u].value = thread[u].value
      BY <3>1 DEF Moves, Held, Unhinted
    <3>3. Cells(Held', Value') = Cells(Held \ {t}, Value) /\ Cells(Unhinted', Value') = Cells(Unhinted \ {t}, Value)
      <4>1. \A u \in Held \ {t} : Value'[u] = Value[u]
        BY <3>2 DEF Value, Held
      <4>2. Held \ {t} \in SUBSET Threads /\ Unhinted \ {t} \in SUBSET (Held \ {t})
        BY DEF Held, Unhinted
      <4>3. Cells(Held \ {t}, Value') = Cells(Held \ {t}, Value)
        BY <4>1, <4>2, CellsAgree
      <4>4. Cells(Unhinted \ {t}, Value') = Cells(Unhinted \ {t}, Value)
        BY <4>1, <4>2, CellsAgree
      <4> QED
        BY <3>2, <4>3, <4>4, Zenon
    <3>4. m_current_value' = m_current_value - w
      BY <1>12, <2>7 DEF Release
    <3>5. m_current_value' = Cardinality(Cells(Held, Value)')
      BY <2>3, <2>5, <2>6, <3>3, <3>4, Zenon
    <3>6. m_current_hint' = Cardinality(Cells(Unhinted, Value)')
      <4>1. CASE thread[t].hinted
        <5>1. Unhinted \ {t} = Unhinted
          BY <2>2, <4>1
        <5>2. m_current_hint' = m_current_hint - 0
          BY <1>12, <4>1 DEF Release
        <5>3. m_current_hint' = m_current_hint
          BY <5>2 DEF TypeInv
        <5> QED
          BY <2>5, <2>6, <3>3, <5>1, <5>3, Zenon
      <4>2. CASE ~thread[t].hinted
        <5>1. m_current_hint' = m_current_hint - w
          BY <1>12, <4>2 DEF Release
        <5> QED
          BY <2>2, <2>4, <2>5, <2>6, <3>3, <4>2, <5>1, Zenon
      <4> QED
        BY <4>1, <4>2
    <3>7. \A u \in Held' : thread'[u].value <= m_peak_value'
      BY <1>12, <3>2 DEF CountInv, Release
    <3>8. m_current_value' <= m_peak_value' /\ m_peak_value' <= m_limit_value'
      BY <1>12, <2>1, <3>4 DEF CountInv, Release, TypeInv
    <3> QED
      BY <3>5, <3>6, <3>7, <3>8 DEF CountInv
  <2>8. CASE thread[t].pc = "hint"
    <3>1. \E q \in PCs : Moves(t, q, w, TRUE, TRUE, thread[t].seen)
      BY <1>12, <2>8, ReleaseMoves
    <3>2. /\ Held' = Held /\ Unhinted' = Unhinted \ {t}
          /\ \A u \in Threads : thread'[u].value = thread[u].value
      BY <2>2, <3>1 DEF Moves, Held, Unhinted
    <3>3. Value' = Value
      BY <3>2 DEF Value
    <3>4. ~thread[t].hinted
      BY <2>8 DEF LockInv, Placed
    <3>5. m_current_value' = m_current_value - 0 /\ m_current_hint' = m_current_hint - w
      BY <1>12, <2>8, <3>4 DEF Release
    <3>6. m_current_value' = m_current_value
      BY <3>5 DEF TypeInv
    <3>7. m_current_value' = Cardinality(Cells(Held, Value)')
      BY <2>5, <2>6, <3>2, <3>3, <3>6, Zenon
    <3>8. m_current_hint' = Cardinality(Cells(Unhinted, Value)')
      BY <2>2, <2>4, <2>5, <2>6, <3>2, <3>3, <3>4, <3>5, Zenon
    <3>9. \A u \in Held' : thread'[u].value <= m_peak_value'
      BY <1>12, <3>2 DEF CountInv, Release, Held
    <3>10. m_current_value' <= m_peak_value' /\ m_peak_value' <= m_limit_value'
      BY <1>12, <3>6 DEF CountInv, Release
    <3> QED
      BY <3>7, <3>8, <3>9, <3>10 DEF CountInv
  <2> QED
    BY <1>12, <2>7, <2>8 DEF Release
<1>13. ASSUME NEW v \in Limits, SetLimitValue(v) PROVE CountInv'
  <2>1. Held' = Held /\ Unhinted' = Unhinted /\ Value' = Value
    BY <1>13 DEF SetLimitValue, Held, Unhinted, Value
  <2>2. Cells(Held, Value)' = Cells(Held, Value) /\ Cells(Unhinted, Value)' = Cells(Unhinted, Value)
    <3>1. Cells(Held, Value)' = Cells(Held', Value') /\ Cells(Unhinted, Value)' = Cells(Unhinted', Value')
      BY DEF Cells
    <3> QED
      BY <2>1, <3>1, Zenon
  <2>3. /\ m_current_value' = Cardinality(Cells(Held, Value)')
        /\ m_current_hint' = Cardinality(Cells(Unhinted, Value)')
    BY <1>13, <2>2 DEF SetLimitValue, CountInv
  <2>4. \A u \in Held' : thread'[u].value <= m_peak_value'
    BY <1>13, <2>1, UnitsAreCells DEF SetLimitValue
  <2>5. m_current_value' <= m_peak_value' /\ m_peak_value' <= m_limit_value'
    BY <1>13, ValuesAssumption DEF SetLimitValue, TypeInv
  <2> QED
    BY <2>3, <2>4, <2>5 DEF CountInv
<1>14. ASSUME NEW t \in Threads, Expire(t) PROVE CountInv'
  <2>1. Moves(t, thread[t].pc, thread[t].value, thread[t].held, thread[t].hinted, thread[t].seen)
    BY <1>14, ExpireMoves
  <2>2. Held' = Held /\ Unhinted' = Unhinted /\ \A u \in Held : thread'[u].value = thread[u].value
    BY <1>14, <2>1 DEF Expire, Moves, Held, Unhinted, LockInv, Placed, Reserving
  <2> QED
    BY <1>14, <2>1, <2>2, <1>0, CountsKept DEF Expire
<1>15. CASE UNCHANGED vars
  <2>1. Held' = Held /\ Unhinted' = Unhinted /\ \A u \in Held : thread'[u].value = thread[u].value
    BY <1>15 DEF vars, Held, Unhinted
  <2> QED
    BY <1>15, <2>1, <1>0, CountsKept DEF vars
<1> QED
  BY <1>1, <1>2, <1>3, <1>4, <1>5, <1>6, <1>7, <1>8, <1>9, <1>10, <1>11, <1>12, <1>13, <1>14, <1>15
     DEF Next, Locking, Running

-----------------------------------------------------------------------------
(* The theorems                                                            *)

LEMMA InitInv == Init => Inv
<1> SUFFICES ASSUME Init PROVE Inv
  OBVIOUS
<1> DEFINE r == [pc |-> "user", value |-> 0, held |-> FALSE, hinted |-> FALSE,
                 forever |-> FALSE, expired |-> FALSE, terminating |-> FALSE, seen |-> 0]
<1>1. thread = [t \in Threads |-> r]
  BY DEF Init
<1>2. r \in Thread /\ r.pc = "user" /\ ~r.held /\ ~r.hinted
  BY DEF Thread, PCs
<1> HIDE DEF r
<1>3. thread \in [Threads -> Thread] /\ \A t \in Threads : thread[t] = r
  BY <1>1, <1>2
<1>4. TypeInv
  BY <1>3, ValuesAssumption DEF Init, TypeInv
<1>5. LockInv
  BY <1>2, <1>3 DEF Init, LockInv, Placed, Reserving, Releasing
<1>6. MissingInv
  BY <1>2, <1>3 DEF MissingInv, Missing
<1>7. Counted = {} /\ Held = {} /\ Unhinted = {}
  BY <1>2, <1>3 DEF Counted, Held, Unhinted, Waiting
<1>8. Cardinality({}) = 0
  BY FS_EmptySet
<1>9. CountedInv
  BY <1>7, <1>8 DEF Init, CountedInv
<1>10. Cells(Held, Value) = {} /\ Cells(Unhinted, Value) = {}
  BY <1>7 DEF Cells
<1>11. CountInv
  BY <1>7, <1>8, <1>10, ValuesAssumption DEF Init, CountInv
<1> QED
  BY <1>4, <1>5, <1>6, <1>9, <1>11 DEF Init, Inv, Safe, WaitingInv

\* What was cancelled stays so, and nobody is let in before.
LEMMA ExclusiveStep ==
  ASSUME cancelled \in BOOLEAN, ~cancelled => let_in = {}, [Next]_vars
  PROVE  /\ cancelled' \in BOOLEAN
         /\ ~cancelled' => ~cancelled /\ let_in' = {}
<1> DEFINE Kept == /\ cancelled' \in BOOLEAN
                   /\ ~cancelled' => ~cancelled /\ let_in' = {}
<1>1. ASSUME UNCHANGED cancels PROVE Kept
  BY <1>1
<1>2. ASSUME NEW t \in Threads, Enter(t) PROVE Kept
  BY <1>2
<1>3. ASSUME NEW t \in Threads, RequestTerminate(t) PROVE Kept
  <2>1. UNCHANGED cancels \/ cancelled' = TRUE
    BY <1>3 DEF RequestTerminate
  <2> QED
    BY <2>1
<1>4. ASSUME NEW t \in Threads, Locking(t) PROVE Enter(t)
  BY <1>4 DEF Locking, ReserveLock, Relock, Release
<1>5. ASSUME NEW t \in Threads, Running(t) PROVE UNCHANGED cancels
  BY <1>5 DEF Running, ReserveSucceeds, ReserveWaits, ReserveFails, Wait, TimerCancels, Broadcast
<1>6. ASSUME NEW t \in Threads,
             (\E v \in Values, f \in BOOLEAN : Reserve(t, v, f)) \/ StartRelease(t) \/ Expire(t)
      PROVE  UNCHANGED cancels
  BY <1>6 DEF Reserve, StartRelease, Expire
<1>7. ASSUME NEW v \in Limits, SetLimitValue(v) PROVE UNCHANGED cancels
  BY <1>7 DEF SetLimitValue
<1>8. ASSUME UNCHANGED vars PROVE UNCHANGED cancels
  BY <1>8 DEF vars
<1> HIDE DEF Kept, Enter, cancels
<1>9. Kept
  BY <1>1, <1>2, <1>3, <1>4, <1>5, <1>6, <1>7, <1>8 DEF Next
<1> QED
  BY <1>9 DEF Kept

\* The inductive invariant: types, who is inside m_lock, who is counted as a
\* waiter, what a waiter lacks, and the counters as sums.
THEOREM Invariant == Spec => []Inv
<1>1. Init => Inv
  BY InitInv
<1>2. ASSUME Inv, [Next]_vars PROVE Inv'
  <2>1. cancelled' \in BOOLEAN /\ (~cancelled' => ~cancelled /\ let_in' = {})
    BY <1>2, ExclusiveStep DEF Inv
  <2>2. ASSUME ~cancelled' PROVE Exclusive' /\ Safe'
    <3>1. Exclusive /\ Safe
      BY <1>2, <2>1, <2>2 DEF Inv
    <3>2. Safe'
      BY <1>2, <3>1, TypeStep, LockStep, CountedStep, MissingStep, CountStep DEF Safe, WaitingInv
    <3> QED
      BY <2>1, <2>2, <3>2
  <2> QED
    BY <2>1, <2>2 DEF Inv
<1> QED
  BY <1>1, <1>2, PTL DEF Spec

\* m_current_value and m_current_hint are always the sums of the reservations
\* held and not yet hinted, however Reserve, Release, SetLimitValue, timeouts
\* and terminations interleave, and hint <= value <= peak <= limit; until a
\* thread blocked on m_lock is terminated.
THEOREM CountsAreSums == Spec => []CountsAgree
<1>1. Inv => CountsAgree
  <2> SUFFICES ASSUME Inv, ~cancelled PROVE CountsAgree
    BY DEF CountsAgree
  <2>1. TypeInv /\ CountInv
    BY DEF Inv, Safe, WaitingInv
  <2> QED
    BY <2>1, UnitsAreCells DEF CountsAgree, Held, Unhinted, CountInv
<1> QED
  BY <1>1, Invariant, PTL

\* A reserver that waits in m_cond_var is counted in m_waiter_count, and lacks
\* what it waits for unless a Broadcast is about to wake it; until a thread
\* blocked on m_lock is terminated and let in without it.
THEOREM ReleaseIsNotMissed == Spec => []NoMissedRelease
<1>1. Inv => NoMissedRelease
  BY DEF Inv, Safe, WaitingInv, CountedInv, MissingInv, Missing, Counted, Waiting, NoMissedRelease
<1> QED
  BY <1>1, Invariant, PTL

=============================================================================
