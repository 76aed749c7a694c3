--------------------------- MODULE KResourceLimit ---------------------------
(***************************************************************************)
(* KResourceLimit, for one resource, with the KLightConditionVariable its  *)
(* reservers wait on.  A reservation is kept until it is released, and may *)
(* be hinted before: what is hinted will be released soon, and Reserve     *)
(* waits for it if that is all it lacks.                                   *)
(*                                                                         *)
(* m_lock, a light lock, is held across steps; a critical section of the   *)
(* scheduler lock is one step.  A thread that is terminated while it is    *)
(* blocked on m_lock goes on without owning it; from then on what happens  *)
(* under m_lock is no longer exclusive and the properties claim nothing.   *)
(***************************************************************************)
EXTENDS Naturals, FiniteSets

CONSTANTS Threads, None,
          MaxS64,        \* the largest s64
          Values,        \* what a thread reserves
          Limits,        \* what SetLimitValue may be called with
          InitialLimit,
          Mortal         \* the threads that may be terminated

ASSUME ThreadsAssumption == IsFiniteSet(Threads) /\ Mortal \subseteq Threads /\ None \notin Threads
ASSUME ValuesAssumption ==
  MaxS64 \in Nat /\ Values \subseteq 0..MaxS64 /\ Limits \subseteq 0..MaxS64 /\ InitialLimit \in Limits

VARIABLES
  m_lock,           \* its holder
  m_limit_value, m_current_value, m_current_hint, m_peak_value,
  m_waiter_count,
  m_wait_list,      \* m_cond_var's waiting threads
  let_in,           \* the threads whose m_lock.Lock() returns although another owns it
  cancelled,        \* history: a wait for m_lock was cancelled
  thread            \* thread[t]: pc; value: what it reserves or has; held, hinted: of its
                    \*   reservation; forever: its timeout is negative; expired: its
                    \*   timeout has passed; terminating; seen: the limit when it began
                    \*   to wait

values == <<m_limit_value, m_current_value, m_current_hint, m_peak_value>>

cancels == <<let_in, cancelled>>

vars == <<m_lock, values, m_waiter_count, m_wait_list, cancels, thread>>

Init ==
  /\ m_lock = None
  /\ m_limit_value = InitialLimit
  /\ m_current_value = 0 /\ m_current_hint = 0 /\ m_peak_value = 0
  /\ m_waiter_count = 0
  /\ m_wait_list = {}
  /\ let_in = {} /\ cancelled = FALSE
  /\ thread = [t \in Threads |-> [pc |-> "user", value |-> 0, held |-> FALSE, hinted |-> FALSE,
                                  forever |-> FALSE, expired |-> FALSE, terminating |-> FALSE,
                                  seen |-> 0]]

Goto(t, label) == thread' = [thread EXCEPT ![t].pc = label]

Larger(x, y) == IF x >= y THEN x ELSE y

\* m_lock.Lock() returns: to the owner, or after its wait was cancelled.
Enter(t) ==
  /\ m_lock = None \/ t \in let_in
  /\ let_in' = let_in \ {t} /\ UNCHANGED cancelled

\* The owner of m_lock once Lock has returned to t.
Owner(t) == IF t \in let_in THEN m_lock ELSE t

----------------------------------------------------------------------------
(* Reserve                                                                 *)

Reserve(t, value, forever) ==
  /\ thread[t].pc = "user" /\ ~thread[t].held /\ ~thread[t].terminating
  /\ thread' = [thread EXCEPT ![t] = [@ EXCEPT !.pc = "reserve", !.value = value, !.forever = forever]]
  /\ UNCHANGED <<m_lock, values, m_waiter_count, m_wait_list, cancels>>

\* The call that reserved nothing.
Fail(t) == [thread EXCEPT ![t] = [@ EXCEPT !.pc = "user", !.value = 0, !.forever = FALSE, !.expired = FALSE]]

\* m_lock is taken; no wait can help if nothing is hinted.
ReserveLock(t) ==
  /\ thread[t].pc = "reserve" /\ Enter(t)
  /\ IF m_current_hint >= m_limit_value
     THEN thread' = Fail(t) /\ m_lock' = None
     ELSE Goto(t, "try") /\ m_lock' = Owner(t)
  /\ UNCHANGED <<values, m_waiter_count, m_wait_list>>

\* The wrapped sum is no larger than the current value.
Overflows(t) == thread[t].value = 0 \/ m_current_value + thread[t].value > MaxS64

\* Mutant: the reservation is compared with what is hinted.
ReserveSucceedsEarly(t) ==
  /\ thread[t].pc = "try" /\ ~Overflows(t) /\ m_current_hint + thread[t].value <= m_limit_value
  /\ m_current_value' = m_current_value + thread[t].value
  /\ m_current_hint' = m_current_hint + thread[t].value
  /\ m_peak_value' = Larger(m_peak_value, m_current_value')
  /\ thread' = [thread EXCEPT ![t] = [@ EXCEPT !.pc = "user", !.held = TRUE, !.forever = FALSE,
                                              !.expired = FALSE]]
  /\ m_lock' = None
  /\ UNCHANGED <<m_limit_value, m_waiter_count, m_wait_list, cancels>>

ReserveSucceeds(t) ==
  /\ thread[t].pc = "try" /\ ~Overflows(t) /\ m_current_value + thread[t].value <= m_limit_value
  /\ m_current_value' = m_current_value + thread[t].value
  /\ m_current_hint' = m_current_hint + thread[t].value
  /\ m_peak_value' = Larger(m_peak_value, m_current_value')
  /\ thread' = [thread EXCEPT ![t] = [@ EXCEPT !.pc = "user", !.held = TRUE, !.forever = FALSE,
                                              !.expired = FALSE]]
  /\ m_lock' = None
  /\ UNCHANGED <<m_limit_value, m_waiter_count, m_wait_list, cancels>>

\* Mutant: the time is not looked at.
MayWaitForever(t) == m_current_hint + thread[t].value <= m_limit_value

MayWait(t) ==
  /\ m_current_hint + thread[t].value <= m_limit_value
  /\ thread[t].forever \/ ~thread[t].expired

ReserveWaits(t) ==
  /\ thread[t].pc = "try" /\ ~Overflows(t) /\ m_current_value + thread[t].value > m_limit_value
  /\ MayWait(t)
  /\ m_waiter_count' = m_waiter_count + 1
  /\ Goto(t, "wait")
  /\ UNCHANGED <<m_lock, values, m_wait_list, cancels>>

ReserveFails(t) ==
  /\ thread[t].pc = "try"
  /\ Overflows(t) \/ (m_current_value + thread[t].value > m_limit_value /\ ~MayWait(t))
  /\ thread' = Fail(t)
  /\ m_lock' = None
  /\ UNCHANGED <<values, m_waiter_count, m_wait_list, cancels>>

----------------------------------------------------------------------------
(* KLightConditionVariable                                                 *)

\* Wait, with allow_terminating_thread false: a thread that is terminating
\* returns at once, with m_lock; else m_lock is released as the wait begins.
Wait(t) ==
  /\ thread[t].pc = "wait"
  /\ IF thread[t].terminating
     THEN /\ m_waiter_count' = m_waiter_count - 1
          /\ Goto(t, "try")
          /\ UNCHANGED <<m_lock, m_wait_list>>
     ELSE /\ m_lock' = None
          /\ m_wait_list' = m_wait_list \cup {t}
          /\ thread' = [thread EXCEPT ![t] = [@ EXCEPT !.pc = "waiting", !.seen = m_limit_value]]
          /\ UNCHANGED m_waiter_count
  /\ UNCHANGED <<values, cancels>>

\* The end of Wait: m_lock is taken again.
Relock(t) ==
  /\ thread[t].pc = "relock" /\ Enter(t)
  /\ m_lock' = Owner(t)
  /\ m_waiter_count' = m_waiter_count - 1
  /\ Goto(t, "try")
  /\ UNCHANGED <<values, m_wait_list>>

\* CancelWait, by the hardware timer.
TimerCancels(t) ==
  /\ t \in m_wait_list /\ thread[t].expired
  /\ m_wait_list' = m_wait_list \ {t}
  /\ thread' = [thread EXCEPT ![t] = [@ EXCEPT !.pc = "relock", !.seen = 0]]
  /\ UNCHANGED <<m_lock, values, m_waiter_count, cancels>>

\* In Lock while another thread has m_lock: it may be blocked there by now.
MayBeBlocked(t) == thread[t].pc \in {"reserve", "relock", "release", "hint"} /\ m_lock # None

\* CancelWait, by RequestTerminate: of the wait in m_cond_var, or of the wait
\* for m_lock.
RequestTerminate(t) ==
  /\ t \in Mortal /\ ~thread[t].terminating
  /\ m_wait_list' = m_wait_list \ {t}
  /\ thread' = [thread EXCEPT ![t] = [@ EXCEPT !.terminating = TRUE, !.seen = 0,
                                              !.pc = IF thread[t].pc = "waiting" THEN "relock" ELSE thread[t].pc]]
  /\ \/ UNCHANGED cancels
     \/ MayBeBlocked(t) /\ let_in' = let_in \cup {t} /\ cancelled' = TRUE
  /\ UNCHANGED <<m_lock, values, m_waiter_count>>

\* Mutant: one thread is woken.
BroadcastOne(t) ==
  /\ thread[t].pc = "broadcast"
  /\ \E w \in m_wait_list \cup {None} :
       /\ w = None <=> m_wait_list = {}
       /\ m_wait_list' = m_wait_list \ {w}
       /\ thread' = [u \in Threads |->
                       CASE u = w -> [thread[u] EXCEPT !.pc = "relock", !.seen = 0]
                         [] u = t -> [thread[u] EXCEPT !.pc = "user"]
                         [] OTHER -> thread[u]]
  /\ m_lock' = None
  /\ UNCHANGED <<values, m_waiter_count, cancels>>

\* Broadcast, and the end of Release.
Broadcast(t) ==
  /\ thread[t].pc = "broadcast"
  /\ m_wait_list' = {}
  /\ thread' = [u \in Threads |->
                  CASE u \in m_wait_list -> [thread[u] EXCEPT !.pc = "relock", !.seen = 0]
                    [] u = t -> [thread[u] EXCEPT !.pc = "user"]
                    [] OTHER -> thread[u]]
  /\ m_lock' = None
  /\ UNCHANGED <<values, m_waiter_count, cancels>>

----------------------------------------------------------------------------
(* Release, and the owner of the limit                                     *)

StartRelease(t) ==
  /\ thread[t].pc = "user" /\ thread[t].held
  /\ Goto(t, "release") \/ (~thread[t].hinted /\ Goto(t, "hint"))
  /\ UNCHANGED <<m_lock, values, m_waiter_count, m_wait_list, cancels>>

\* Release(0, value) hints a reservation.  Release(value, value), or
\* Release(value, 0) if it was hinted, ends it.
Release(t) ==
  LET v == thread[t].value
      value == IF thread[t].pc = "release" THEN v ELSE 0
      hint == IF thread[t].hinted THEN 0 ELSE v
      label == IF m_waiter_count # 0 THEN "broadcast" ELSE "user"
  IN
  /\ thread[t].pc \in {"release", "hint"} /\ Enter(t)
  /\ m_current_value' = m_current_value - value
  /\ m_current_hint' = m_current_hint - hint
  /\ thread' = [thread EXCEPT ![t] = [@ EXCEPT !.pc = label, !.value = v - value,
                    !.held = thread[t].pc = "hint", !.hinted = thread[t].pc = "hint"]]
  /\ m_lock' = IF m_waiter_count # 0 THEN Owner(t) ELSE None
  /\ UNCHANGED <<m_limit_value, m_peak_value, m_waiter_count, m_wait_list>>

\* A new limit; no reserver is told.
SetLimitValue(value) ==
  /\ m_lock = None /\ m_current_value <= value
  /\ m_limit_value' = value /\ m_peak_value' = m_current_value
  /\ UNCHANGED <<m_lock, m_current_value, m_current_hint, m_waiter_count, m_wait_list, cancels, thread>>

\* The program counters of a call to Reserve.
Reserving == {"reserve", "try", "wait", "waiting", "relock"}

\* The time passes the timeout of a call to Reserve.
Expire(t) ==
  /\ thread[t].pc \in Reserving /\ ~thread[t].forever /\ ~thread[t].expired
  /\ thread' = [thread EXCEPT ![t].expired = TRUE]
  /\ UNCHANGED <<m_lock, values, m_waiter_count, m_wait_list, cancels>>

----------------------------------------------------------------------------
Locking(t) == ReserveLock(t) \/ Relock(t) \/ Release(t)

Running(t) ==
  \/ ReserveSucceeds(t) \/ ReserveWaits(t) \/ ReserveFails(t)
  \/ Wait(t) \/ TimerCancels(t) \/ Broadcast(t)

Next ==
  \/ \E t \in Threads :
       \/ (\E v \in Values, forever \in BOOLEAN : Reserve(t, v, forever)) \/ StartRelease(t) \/ RequestTerminate(t)
       \/ Locking(t) \/ Running(t) \/ Expire(t)
  \/ \E v \in Limits : SetLimitValue(v)

Spec == Init /\ [][Next]_vars

\* Threads run and the time passes.  Of the light lock nothing more is assumed:
\* it goes to the waiter of the highest priority, and another thread may come
\* first again and again.  What is reserved need never be released.
FairSpec ==
  /\ Spec
  /\ \A t \in Threads : WF_vars(Running(t)) /\ WF_vars(Locking(t)) /\ WF_vars(Expire(t))

----------------------------------------------------------------------------
(* Properties                                                              *)

\* The units of the reservations of the threads of S.
Units(S) == Cardinality({u \in S \X (1..m_peak_value) : u[2] <= thread[u[1]].value})

\* What Reserve, Release and the getters assert, and that no reservation is
\* lost or counted twice: the values are the sums of what is held and not yet
\* hinted, the hint never exceeds the value, nor the value the peak and the limit.
\* Said until a thread is terminated while blocked on m_lock, which lets it in.
CountsAgree ==
  LET held == {t \in Threads : thread[t].held} IN
  ~cancelled =>
    /\ m_current_value = Units(held)
    /\ m_current_hint = Units({t \in held : ~thread[t].hinted})
    /\ m_current_hint <= m_current_value /\ m_current_value <= m_peak_value
    /\ m_peak_value <= m_limit_value

\* A reserver that waits is counted, so that Release broadcasts; and it waits
\* only while what it reserves exceeds what is left of the limit it saw, unless a
\* broadcast is on its way.  A release is missed only once a thread was
\* terminated while blocked on m_lock: let in without it, its Release may come
\* between a reserver's comparison and its Wait.
NoMissedRelease ==
  ~cancelled =>
    /\ m_waiter_count = Cardinality({t \in Threads : thread[t].pc \in {"wait", "waiting", "relock"}})
    /\ \A t \in Threads : thread[t].pc = "waiting" =>
         \/ m_current_value + thread[t].value > m_limit_value
         \/ m_current_value + thread[t].value > thread[t].seen
         \/ \E r \in Threads : thread[r].pc = "broadcast"

\* Reserve with a timeout returns, with or without the resource, also on a
\* thread that is terminating and does not wait but tries again and again;
\* provided the others do not take m_lock again and again, and unless a lock
\* wait was cancelled or a terminating thread that may wait for ever spins in
\* Reserve with m_lock.
ReserveReturns ==
  \A t \in Threads :
    <>[][\A u \in Threads \ {t} : ~Locking(u)]_vars =>
      (thread[t].pc \in Reserving /\ ~thread[t].forever ~>
         \/ thread[t].pc = "user" \/ cancelled
         \/ \E u \in Threads : thread[u].forever /\ thread[u].terminating)
=============================================================================
