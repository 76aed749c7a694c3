-------------------------- MODULE NvHostCtrlProofs --------------------------
(***************************************************************************)
(* For any number of GPU threads, events and increments: no action that    *)
(* was reached is left in the list, and whoever waits for a syncpoint is   *)
(* served until the wait is signalled or cleared (AskInv).                 *)
(*                                                                         *)
(* That an event left Waiting has its action is not inductive.  It needs   *)
(* that the action a GPU thread runs is the first of the list and the      *)
(* thread holds guard (RunInv); that an event which is Waiting again while *)
(* its last action is still run has an ioctl that is not beyond guard      *)
(* (WaitInv); and that a handle about to be deregistered names no action   *)
(* of another event, although addresses are used again (EraseInv).         *)
(***************************************************************************)
EXTENDS NvHostCtrl, WellFoundedInduction, TLAPS

Action == [expected_value : Nat, slot : Slots, node : Nat]

IncPc == {"idle", "lock", "scan", "action", "signal", "store", "ran", "fault"}

IncType == [pc : IncPc, new_value : Nat, slot : Slots \cup {None}]

Status == {"Available", "Waiting", "Cancelling", "Signalling", "Signalled", "Cancelled"}

EventType == [registered : BOOLEAN, status : Status, kevent : {"none", "clear", "signaled"}, fails : Nat,
              assigned : BOOLEAN, wait_handle : Nat, asked : BOOLEAN]

IoctlPc == {"idle", "free", "create", "find", "check", "stall", "wait_host", "wait_lock", "blocked",
            "unstall", "failed", "set_waiting", "register", "register_lock", "handle",
            "exchange", "signal", "store", "deregister", "cancelled", "clear", "fault"}

IoctlType == [pc : IoctlPc, slot : Slots \cup {None}, target : Nat, create : BOOLEAN, poll : BOOLEAN,
              found : Slots \cup {None}]

TypeInv ==
  /\ syncpoint \in Nat
  /\ guard \in Incrementers \cup {None, "ioctl"}
  /\ action_storage \in Seq(Action)
  /\ inc \in [Incrementers -> IncType]
  /\ event \in [Slots -> EventType]
  /\ ioctl \in IoctlType
  /\ ioctl.pc # "idle" => ioctl.slot \in Slots

\* The list is sorted, and no two nodes have the same address.
ListInv ==
  /\ \A i, j \in 1..Len(action_storage) :
       i < j => action_storage[i].expected_value <= action_storage[j].expected_value
  /\ \A i, j \in 1..Len(action_storage) : action_storage[i].node = action_storage[j].node => i = j

\* A thread beyond the increment holds guard, and runs the first action.
RunInv ==
  \A i \in Incrementers :
    /\ inc[i].pc \notin {"idle", "lock"} => guard = i
    /\ inc[i].pc \in {"action", "signal", "store", "ran"} =>
         1 \in 1..Len(action_storage) /\ action_storage[1].slot = inc[i].slot

\* The value of each action is to come, or a thread that will see it is there.
ReachedInv ==
  \A k \in 1..Len(action_storage) : action_storage[k].expected_value <= syncpoint =>
    \E i \in Incrementers : inc[i].pc # "idle" /\ inc[i].new_value >= action_storage[k].expected_value

\* An event that is Waiting is registered and has its KEvent.
EventInv ==
  /\ \A n \in Slots : event[n].registered => event[n].kevent # "none"
  /\ \A n \in Slots : event[n].status = "Waiting" => event[n].registered
  /\ ioctl.pc = "set_waiting" => event[ioctl.slot].registered

\* The ioctl has made event n Waiting and has not registered its action.
Registering(n) == ioctl.pc \in {"register", "register_lock", "exchange"} /\ ioctl.slot = n

Waits(n) == event[n].status = "Waiting" /\ ~Registering(n)

WaitInv ==
  \A n \in Slots : Waits(n) =>
    /\ \E k \in 1..Len(action_storage) : action_storage[k].slot = n /\ action_storage[k].node = Handle(n)
    /\ \A i \in Incrementers : inc[i].pc \in {"signal", "store", "ran"} => inc[i].slot # n

EraseInv ==
  ioctl.pc = "deregister" =>
    /\ event[ioctl.slot].status # "Waiting"
    /\ \A k \in 1..Len(action_storage) :
         action_storage[k].node = event[ioctl.slot].wait_handle => action_storage[k].slot = ioctl.slot

Inv ==
  /\ TypeInv /\ ListInv /\ RunInv /\ ReachedInv
  /\ EventInv /\ WaitInv /\ EraseInv /\ WaiterIsNotified

-----------------------------------------------------------------------------
(* Minima and sequences                                                    *)

LEMMA MinIsLeast ==
    ASSUME NEW S \in SUBSET Nat, S # {}
    PROVE  Min(S) \in S /\ \A x \in S : Min(S) <= x
<1>1. PICK x \in S : \A y \in S : ~(<<y, x>> \in OpToRel(<, Nat))
  BY NatLessThanWellFounded, WFMin
<1>2. ASSUME NEW y \in S PROVE x <= y
  <2>1. x \in Nat /\ y \in Nat /\ ~(<<y, x>> \in OpToRel(<, Nat))
    BY <1>1
  <2>2. ~(y < x)
    BY <2>1 DEF OpToRel
  <2>3. x \in Nat /\ y \in Nat
    BY <2>1
  <2> QED
    BY <2>2, <2>3
<1> QED
  BY <1>2 DEF Min

\* s without the entries from a to b - 1
LEMMA CutEntries ==
    ASSUME NEW T, NEW s \in Seq(T), NEW a \in 1..Len(s) + 1, NEW b \in a..Len(s) + 1
    PROVE  LET r == SubSeq(s, 1, a - 1) \o SubSeq(s, b, Len(s)) IN
           /\ r \in Seq(T) /\ Len(r) = Len(s) - (b - a)
           /\ \A i \in 1..Len(r) : r[i] = IF i < a THEN s[i] ELSE s[i + (b - a)]
<1> DEFINE p == SubSeq(s, 1, a - 1)
           q == SubSeq(s, b, Len(s))
<1>1. p \in Seq(T) /\ Len(p) = a - 1 /\ \A i \in 1..a - 1 : p[i] = s[i]
  OBVIOUS
<1>2. q \in Seq(T) /\ Len(q) = Len(s) + 1 - b /\ \A i \in 1..Len(s) + 1 - b : q[i] = s[i + b - 1]
  OBVIOUS
<1>0. Len(s) \in Nat /\ a \in Nat /\ b \in Nat /\ 1 <= a /\ a <= b /\ b <= Len(s) + 1
  OBVIOUS
<1> HIDE DEF p, q
<1>3. p \o q \in Seq(T) /\ Len(p \o q) = Len(s) - (b - a)
  <2>0. p \in Seq(T) /\ q \in Seq(T)
    BY <1>1, <1>2
  <2>1. p \o q \in Seq(T) /\ Len(p \o q) = Len(p) + Len(q)
    BY <2>0
  <2> QED
    BY <1>0, <1>1, <1>2, <2>1
<1>4. ASSUME NEW i \in 1..Len(p \o q)
      PROVE  (p \o q)[i] = IF i < a THEN s[i] ELSE s[i + (b - a)]
  <2>1. CASE i < a
    BY <1>1, <1>2, <2>1
  <2>2. CASE ~(i < a)
    <3>1. (p \o q)[i] = q[i - Len(p)]
      BY <1>1, <1>2, <1>3, <2>2
    <3> QED
      BY <1>1, <1>2, <1>3, <2>2, <3>1
  <2> QED
    BY <2>1, <2>2
<1> QED
  BY <1>3, <1>4 DEF p, q

LEMMA InsertEntry ==
    ASSUME NEW T, NEW s \in Seq(T), NEW a \in 1..Len(s) + 1, NEW e \in T
    PROVE  /\ InsertAt(s, a, e) \in Seq(T) /\ Len(InsertAt(s, a, e)) = Len(s) + 1
           /\ \A i \in 1..Len(s) + 1 :
                InsertAt(s, a, e)[i] = IF i < a THEN s[i] ELSE IF i = a THEN e ELSE s[i - 1]
<1> DEFINE p == SubSeq(s, 1, a - 1)
           q == SubSeq(s, a, Len(s))
<1>1. p \in Seq(T) /\ Len(p) = a - 1 /\ \A i \in 1..a - 1 : p[i] = s[i]
  OBVIOUS
<1>2. q \in Seq(T) /\ Len(q) = Len(s) + 1 - a /\ \A i \in 1..Len(s) + 1 - a : q[i] = s[i + a - 1]
  OBVIOUS
<1>0. Len(s) \in Nat /\ a \in Nat /\ 1 <= a /\ a <= Len(s) + 1
  OBVIOUS
<1>3. InsertAt(s, a, e) = p \o <<e>> \o q
  BY DEF InsertAt
<1> HIDE DEF p, q
<1>4. p \o <<e>> \in Seq(T) /\ Len(p \o <<e>>) = a /\ (p \o <<e>>)[a] = e
      /\ \A i \in 1..a - 1 : (p \o <<e>>)[i] = s[i]
  BY <1>1
<1> DEFINE pe == p \o <<e>>
<1> HIDE DEF pe
<1>5. pe \in Seq(T) /\ Len(pe) = a /\ pe[a] = e /\ \A i \in 1..a - 1 : pe[i] = s[i]
  BY <1>4 DEF pe
<1>6. pe \o q \in Seq(T) /\ Len(pe \o q) = Len(s) + 1
  BY <1>0, <1>2, <1>5
<1>7. ASSUME NEW i \in 1..Len(s) + 1
      PROVE  (pe \o q)[i] = IF i < a THEN s[i] ELSE IF i = a THEN e ELSE s[i - 1]
  <2>1. CASE i <= a
    BY <1>2, <1>5, <2>1
  <2>2. CASE i > a
    <3>1. (pe \o q)[i] = q[i - Len(pe)]
      BY <1>2, <1>5, <1>6, <2>2
    <3> QED
      BY <1>2, <1>5, <2>2, <3>1
  <2>3. i <= a \/ i > a
    BY <1>0
  <2> QED
    BY <2>1, <2>2, <2>3
<1> QED
  BY <1>3, <1>6, <1>7 DEF pe

-----------------------------------------------------------------------------
(* The list of actions                                                     *)

LEMMA ListTypes ==
  ASSUME TypeInv
  PROVE  /\ Len(action_storage) \in Nat /\ DOMAIN action_storage = 1..Len(action_storage)
         /\ \A k \in 1..Len(action_storage) :
              /\ action_storage[k] \in Action
              /\ action_storage[k].expected_value \in Nat
              /\ action_storage[k].slot \in Slots
              /\ action_storage[k].node \in Nat
<1>1. action_storage \in Seq(Action)
  BY DEF TypeInv
<1>2. ASSUME NEW k \in 1..Len(action_storage)
      PROVE  /\ action_storage[k] \in Action
             /\ action_storage[k].expected_value \in Nat
             /\ action_storage[k].slot \in Slots
             /\ action_storage[k].node \in Nat
  <2>1. action_storage[k] \in Action
    BY <1>1
  <2> QED
    BY <2>1 DEF Action
<1> QED
  BY <1>1, <1>2

\* The new action has its place in the list, and the others keep their order.
LEMMA InsertActionList ==
  ASSUME TypeInv, ListInv, NEW a \in Action, a.node \in FreeNodes
  PROVE  LET r == InsertAction(a)
             n == Len(action_storage) IN
         /\ r \in Seq(Action) /\ Len(r) = n + 1
         /\ \E m \in 1..n + 1 :
              /\ \A i \in 1..n + 1 :
                   /\ i < m => i \in 1..n /\ r[i] = action_storage[i]
                   /\ i = m => r[i] = a
                   /\ i > m => i - 1 \in 1..n /\ r[i] = action_storage[i - 1]
              /\ \A i \in 1..n : /\ i < m => action_storage[i].expected_value <= a.expected_value
                                 /\ i >= m => action_storage[i].expected_value >= a.expected_value
<1> DEFINE S == {k \in DOMAIN action_storage : action_storage[k].expected_value >= a.expected_value}
           n == Len(action_storage)
           m == Min(S \cup {n + 1})
           r == InsertAction(a)
<1>1. /\ n \in Nat /\ DOMAIN action_storage = 1..n
      /\ \A k \in 1..n : action_storage[k].expected_value \in Nat
  BY ListTypes
<1>0. a.expected_value \in Nat
  BY DEF Action
<1>2. S \cup {n + 1} \in SUBSET Nat /\ S \cup {n + 1} # {}
  BY <1>1
<1>3. m \in S \cup {n + 1} /\ \A k \in S \cup {n + 1} : m <= k
  BY <1>2, MinIsLeast
<1>4. r = InsertAt(action_storage, m, a)
  BY DEF InsertAction
<1> HIDE DEF m, r
<1>5. m \in 1..n + 1
  BY <1>1, <1>3
<1>6. /\ r \in Seq(Action) /\ Len(r) = n + 1
      /\ \A i \in 1..n + 1 :
           r[i] = IF i < m THEN action_storage[i] ELSE IF i = m THEN a ELSE action_storage[i - 1]
  <2>1. action_storage \in Seq(Action)
    BY DEF TypeInv
  <2>2. m \in 1..Len(action_storage) + 1
    BY <1>5
  <2>3. /\ InsertAt(action_storage, m, a) \in Seq(Action)
        /\ Len(InsertAt(action_storage, m, a)) = Len(action_storage) + 1
        /\ \A i \in 1..Len(action_storage) + 1 : InsertAt(action_storage, m, a)[i] =
             IF i < m THEN action_storage[i] ELSE IF i = m THEN a ELSE action_storage[i - 1]
    BY <2>1, <2>2, InsertEntry
  <2> QED
    BY <1>4, <2>3, Zenon
<1>7. ASSUME NEW i \in 1..n + 1
      PROVE  /\ i < m => i \in 1..n /\ r[i] = action_storage[i]
             /\ i = m => r[i] = a
             /\ i > m => i - 1 \in 1..n /\ r[i] = action_storage[i - 1]
  BY <1>1, <1>5, <1>6
<1>8. ASSUME NEW i \in 1..n, i < m PROVE action_storage[i].expected_value <= a.expected_value
  <2>1. i \notin S
    BY <1>1, <1>3, <1>5, <1>8
  <2> QED
    BY <1>0, <1>1, <2>1
<1>9. ASSUME NEW i \in 1..n, i >= m PROVE action_storage[i].expected_value >= a.expected_value
  <2>1. m \in S
    BY <1>1, <1>3, <1>5, <1>9
  <2>2. action_storage[m].expected_value >= a.expected_value /\ m \in 1..n
    BY <1>1, <2>1
  <2>3. m = i \/ action_storage[m].expected_value <= action_storage[i].expected_value
    BY <1>1, <1>9, <2>2 DEF ListInv
  <2> QED
    BY <1>0, <1>1, <2>2, <2>3
<1> QED
  BY <1>5, <1>6, <1>7, <1>8, <1>9 DEF r

\* Some entry is gone: s stands for the list, r for what is left of it.
Without(s, r, m) ==
  /\ m \in 1..Len(s) /\ Len(r) = Len(s) - 1
  /\ \A i \in 1..Len(r) : /\ i < m => i \in 1..Len(s) /\ r[i] = s[i]
                          /\ i >= m => i + 1 \in 1..Len(s) /\ r[i] = s[i + 1]

LEMMA RemoveEntry ==
  ASSUME NEW T, NEW s \in Seq(T), NEW m \in 1..Len(s)
  PROVE  RemoveAt(s, m) \in Seq(T) /\ Without(s, RemoveAt(s, m), m)
<1> DEFINE r == RemoveAt(s, m)
           n == Len(s)
<1>1. n \in Nat /\ m \in Nat /\ 1 <= m /\ m <= n
  OBVIOUS
<1>2. m \in 1..n + 1 /\ m + 1 \in m..n + 1
  BY <1>1
<1>3. /\ r \in Seq(T) /\ Len(r) = n - 1
      /\ \A i \in 1..Len(r) : r[i] = IF i < m THEN s[i] ELSE s[i + 1]
  <2>1. r = SubSeq(s, 1, m - 1) \o SubSeq(s, m + 1, n)
    BY DEF RemoveAt
  <2>2. LET q == SubSeq(s, 1, m - 1) \o SubSeq(s, m + 1, n) IN
        /\ q \in Seq(T) /\ Len(q) = n - ((m + 1) - m)
        /\ \A i \in 1..Len(q) : q[i] = IF i < m THEN s[i] ELSE s[i + ((m + 1) - m)]
    BY <1>2, CutEntries
  <2>3. (m + 1) - m = 1
    BY <1>1
  <2> QED
    BY <2>1, <2>2, <2>3
<1> HIDE DEF r, n
<1>4. ASSUME NEW i \in 1..Len(r)
      PROVE  /\ i < m => i \in 1..n /\ r[i] = s[i]
             /\ i >= m => i + 1 \in 1..n /\ r[i] = s[i + 1]
  BY <1>1, <1>3
<1> QED
  BY <1>1, <1>3, <1>4 DEF Without, r, n

LEMMA TailEntry ==
  ASSUME NEW T, NEW s \in Seq(T), 1 \in 1..Len(s)
  PROVE  Tail(s) \in Seq(T) /\ Without(s, Tail(s), 1)
BY DEF Without

\* The entries that are left and their places in the list
Remaining(s, r, m) ==
  /\ \A i, j \in 1..Len(r) : \E k, l \in 1..Len(s) :
       /\ r[i] = s[k] /\ r[j] = s[l] /\ k # m /\ l # m
       /\ (i < j => k < l) /\ (k = l => i = j)
  /\ \A k \in 1..Len(s) : k # m => \E i \in 1..Len(r) : r[i] = s[k]

LEMMA WithoutEntries ==
  ASSUME NEW T, NEW s \in Seq(T), NEW r \in Seq(T), NEW m, Without(s, r, m)
  PROVE  Remaining(s, r, m)
<1> DEFINE n == Len(s)
           o == Len(r)
<1>1. n \in Nat /\ m \in 1..n /\ o = n - 1 /\ o \in Nat
  BY DEF Without
<1>2. \A i \in 1..o : /\ i < m => i \in 1..n /\ r[i] = s[i]
                      /\ i >= m => i + 1 \in 1..n /\ r[i] = s[i + 1]
  BY DEF Without
<1> HIDE DEF n, o
<1>3. ASSUME NEW i \in 1..o, NEW j \in 1..o
      PROVE  \E k, l \in 1..n : /\ r[i] = s[k] /\ r[j] = s[l] /\ k # m /\ l # m
                                /\ (i < j => k < l) /\ (k = l => i = j)
  <2> DEFINE at(x) == IF x < m THEN x ELSE x + 1
  <2>1. \A x \in 1..o : at(x) \in 1..n /\ r[x] = s[at(x)] /\ at(x) # m
    BY <1>1, <1>2
  <2>2. (i < j => at(i) < at(j)) /\ (at(i) = at(j) => i = j)
    BY <1>1
  <2> HIDE DEF at
  <2> QED
    BY <2>1, <2>2
<1>4. ASSUME NEW k \in 1..n, k # m PROVE \E i \in 1..o : r[i] = s[k]
  <2>1. CASE k < m
    <3>1. k \in 1..o
      BY <1>1, <2>1
    <3> QED
      BY <1>2, <2>1, <3>1
  <2>2. CASE k > m
    <3>1. k - 1 \in 1..o /\ k - 1 >= m /\ (k - 1) + 1 = k
      BY <1>1, <2>2
    <3>2. r[k - 1] = s[(k - 1) + 1]
      BY <1>2, <3>1
    <3> QED
      BY <3>1, <3>2
  <2> QED
    BY <1>1, <1>4, <2>1, <2>2
<1> QED
  BY <1>3, <1>4 DEF Remaining, n, o

-----------------------------------------------------------------------------
(* The steps of an ioctl that leave the list alone                         *)

LEMMA EventTypes ==
  ASSUME TypeInv, NEW n \in Slots
  PROVE  /\ event[n] \in EventType /\ event[n].registered \in BOOLEAN
         /\ event[n].status \in Status /\ event[n].kevent \in {"none", "clear", "signaled"}
         /\ event[n].fails \in Nat /\ event[n].assigned \in BOOLEAN
         /\ event[n].wait_handle \in Nat /\ event[n].asked \in BOOLEAN
BY DEF TypeInv, EventType

\* What every event does in a step that neither makes it Waiting nor gives a
\* Waiting event another handle.
Steady(n) ==
  /\ event'[n].registered => event'[n].kevent # "none"
  /\ event'[n].status = "Waiting" =>
       /\ event[n].status = "Waiting" /\ event'[n].registered
       /\ event'[n].wait_handle = event[n].wait_handle

LEMMA OneEvent ==
  ASSUME TypeInv, EventInv, NEW n \in Slots, NEW e \in EventType,
         event' = [event EXCEPT ![n] = e],
         e.registered => e.kevent # "none",
         e.status = "Waiting" => /\ event[n].status = "Waiting" /\ e.registered
                                 /\ e.wait_handle = event[n].wait_handle
  PROVE  /\ event' \in [Slots -> EventType] /\ event'[n] = e
         /\ \A k \in Slots : Steady(k) /\ (k # n => event'[k] = event[k])
<1>1. event \in [Slots -> EventType]
  BY DEF TypeInv
<1>2. event' \in [Slots -> EventType] /\ event'[n] = e /\ \A k \in Slots : k # n => event'[k] = event[k]
  BY <1>1
<1>3. Steady(n)
  BY <1>2 DEF Steady
<1>4. ASSUME NEW k \in Slots, k # n PROVE Steady(k)
  BY <1>2, <1>4 DEF Steady, EventInv
<1> QED
  BY <1>2, <1>3, <1>4

LEMMA NoEvent ==
  ASSUME TypeInv, EventInv, event' = event
  PROVE  event' \in [Slots -> EventType] /\ \A k \in Slots : Steady(k)
BY DEF TypeInv, Steady, EventInv

\* What a step of an ioctl that leaves the list and the threads of the GPU
\* alone has to keep.
LEMMA QuietStep ==
  ASSUME Inv, UNCHANGED <<syncpoint, inc, action_storage>>,
         guard' = guard \/ (guard \notin Incrementers /\ guard' \in {None, "ioctl"}),
         event' \in [Slots -> EventType], ioctl' \in IoctlType,
         ioctl'.pc # "idle" => ioctl'.slot \in Slots,
         \A n \in Slots : event'[n].registered => event'[n].kevent # "none",
         \A n \in Slots : event'[n].status = "Waiting" => event'[n].registered,
         ioctl'.pc = "set_waiting" => event'[ioctl'.slot].registered,
         \A n \in Slots : Waits(n)' => Waits(n) /\ Handle(n)' = Handle(n),
         EraseInv', WaiterIsNotified'
  PROVE  Inv'
<1>1. TypeInv'
  BY DEF Inv, TypeInv
<1>2. ListInv' /\ ReachedInv'
  BY DEF Inv, ListInv, ReachedInv
<1>3. RunInv'
  BY DEF Inv, RunInv
<1>4. EventInv'
  BY DEF EventInv
<1>5. WaitInv'
  <2> SUFFICES ASSUME NEW n \in Slots, Waits(n)'
      PROVE  /\ \E k \in 1..Len(action_storage) :
                  action_storage[k].slot = n /\ action_storage[k].node = Handle(n)'
             /\ \A i \in Incrementers : inc[i].pc \in {"signal", "store", "ran"} => inc[i].slot # n
    BY DEF WaitInv
  <2>1. Waits(n) /\ Handle(n)' = Handle(n)
    OBVIOUS
  <2> QED
    BY <2>1 DEF Inv, WaitInv
<1> QED
  BY <1>1, <1>2, <1>3, <1>4, <1>5 DEF Inv

\* An ioctl that is not about to make an event Waiting, to register, to set a
\* handle or to deregister, before or after the step.
Apart == {"idle", "free", "create", "find", "check", "stall", "wait_host", "wait_lock", "unstall",
          "failed", "signal", "store", "cancelled", "clear", "fault"}

LEMMA ApartStep ==
  ASSUME Inv, UNCHANGED <<syncpoint, inc, action_storage>>,
         guard' = guard \/ (guard \notin Incrementers /\ guard' \in {None, "ioctl"}),
         event' \in [Slots -> EventType], \A n \in Slots : Steady(n),
         ioctl' \in IoctlType, ioctl'.pc # "idle" => ioctl'.slot \in Slots,
         ioctl.pc \in Apart, ioctl'.pc \in Apart
  PROVE  Inv'
<1>1. \A n \in Slots : Waits(n)' => Waits(n) /\ Handle(n)' = Handle(n)
  BY DEF Waits, Handle, Registering, Steady, Apart
<1>2. ioctl'.pc # "set_waiting" /\ ioctl'.pc # "deregister" /\ ioctl'.pc # "blocked"
  BY DEF Apart
<1>3. EraseInv' /\ WaiterIsNotified'
  BY <1>2 DEF EraseInv, WaiterIsNotified
<1> QED
  BY <1>1, <1>2, <1>3, QuietStep DEF Steady

LEMMA IoctlTypes ==
  ASSUME TypeInv
  PROVE  /\ ioctl \in IoctlType /\ ioctl.target \in Nat /\ ioctl.create \in BOOLEAN
         /\ ioctl.slot \in Slots \cup {None} /\ ioctl.found \in Slots \cup {None} /\ IdleIoctl \in IoctlType /\ IdleIoctl.pc = "idle"
         /\ ioctl.pc # "idle" => ioctl.slot \in Slots
         /\ \A l \in IoctlPc : /\ [ioctl EXCEPT !.pc = l] \in IoctlType
                              /\ [ioctl EXCEPT !.pc = l].pc = l
                              /\ [ioctl EXCEPT !.pc = l].slot = ioctl.slot
                              /\ [ioctl EXCEPT !.pc = l].target = ioctl.target
BY DEF TypeInv, IoctlType, IdleIoctl, IoctlPc

LEMMA StartFreeStep == Inv /\ StartFree => Inv'
<1> SUFFICES ASSUME Inv, StartFree PROVE Inv'
  OBVIOUS
<1>1. TypeInv /\ EventInv
  BY DEF Inv
<1>2. PICK n \in Slots, create \in BOOLEAN :
        ioctl' = CASE ~event[n].registered /\ create ->
                        [IdleIoctl EXCEPT !.pc = "create", !.slot = n, !.create = TRUE]
                   [] event[n].registered /\ ~IsBeingUsed(n) ->
                        [IdleIoctl EXCEPT !.pc = "free", !.slot = n, !.create = create]
                   [] OTHER -> ioctl
  BY DEF StartFree
<1>3. \/ ioctl' = [IdleIoctl EXCEPT !.pc = "create", !.slot = n, !.create = TRUE]
      \/ ioctl' = [IdleIoctl EXCEPT !.pc = "free", !.slot = n, !.create = create]
      \/ ioctl' = ioctl
  BY <1>2
<1>4. ioctl.pc = "idle" /\ UNCHANGED <<syncpoint, inc, guard, action_storage, event>>
  BY DEF StartFree, SyncpointUntouched
<1>5. /\ ioctl' \in IoctlType /\ ioctl'.pc \in {"idle", "free", "create"}
      /\ ioctl'.pc # "idle" => ioctl'.slot \in Slots
  <2>1. CASE ioctl' = [IdleIoctl EXCEPT !.pc = "create", !.slot = n, !.create = TRUE]
    BY <2>1 DEF IdleIoctl, IoctlType, IoctlPc
  <2>2. CASE ioctl' = [IdleIoctl EXCEPT !.pc = "free", !.slot = n, !.create = create]
    BY <2>2 DEF IdleIoctl, IoctlType, IoctlPc
  <2>3. CASE ioctl' = ioctl
    BY <1>1, <1>4, <2>3, IoctlTypes
  <2> QED
    BY <1>3, <2>1, <2>2, <2>3
<1> QED
  BY <1>1, <1>4, <1>5, NoEvent, ApartStep DEF Apart

LEMMA FreeNvEventStep == Inv /\ FreeNvEvent => Inv'
<1> SUFFICES ASSUME Inv, FreeNvEvent PROVE Inv'
  OBVIOUS
<1> DEFINE n == ioctl.slot
           e == [event[n] EXCEPT !.kevent = "none", !.status = "Available", !.registered = FALSE,
                                 !.asked = FALSE]
<1>1. TypeInv /\ EventInv
  BY DEF Inv
<1>2. ioctl.pc = "free" /\ UNCHANGED <<syncpoint, inc, guard, action_storage>> /\ n \in Slots
  BY <1>1, IoctlTypes DEF FreeNvEvent, SyncpointUntouched
<1>3. event' = [event EXCEPT ![n] = e]
  BY DEF FreeNvEvent
<1>4. e \in EventType /\ ~e.registered /\ e.status = "Available"
  <2>1. event[n] \in EventType
    BY <1>1, <1>2, EventTypes
  <2> QED
    BY <2>1 DEF EventType, Status
<1> HIDE DEF e
<1>5. event' \in [Slots -> EventType] /\ \A k \in Slots : Steady(k)
  BY <1>1, <1>2, <1>3, <1>4, OneEvent
<1>6. /\ ioctl' \in IoctlType /\ ioctl'.pc \in {"idle", "create"}
      /\ ioctl'.pc # "idle" => ioctl'.slot \in Slots
  BY <1>1, <1>2, IoctlTypes DEF FreeNvEvent, IoctlPc
<1> QED
  BY <1>2, <1>5, <1>6, ApartStep DEF Apart

LEMMA CreatedEvent ==
  ASSUME NEW e \in EventType
  PROVE  /\ Create(e) \in EventType /\ Create(e).registered /\ Create(e).kevent = "clear"
         /\ Create(e).status = "Available"
BY DEF Create, EventType, Status

LEMMA CreateNvEventStep == Inv /\ CreateNvEvent => Inv'
<1> SUFFICES ASSUME Inv, CreateNvEvent PROVE Inv'
  OBVIOUS
<1> DEFINE n == ioctl.slot
           e == Create(event[n])
<1>1. TypeInv /\ EventInv
  BY DEF Inv
<1>2. /\ ioctl.pc = "create" /\ n \in Slots
      /\ UNCHANGED <<syncpoint, inc, guard, action_storage>>
  BY <1>1, IoctlTypes DEF CreateNvEvent, SyncpointUntouched
<1>6. /\ ioctl' \in IoctlType /\ ioctl'.pc \in {"idle", "check"}
      /\ ioctl'.pc # "idle" => ioctl'.slot \in Slots
  BY <1>1, <1>2, IoctlTypes DEF CreateNvEvent, IoctlPc
<1>3. event' = [event EXCEPT ![n] = e]
  BY DEF CreateNvEvent
<1>4. e \in EventType /\ e.kevent = "clear" /\ e.status = "Available"
  BY <1>1, <1>2, EventTypes, CreatedEvent
<1> HIDE DEF e
<1>5. event' \in [Slots -> EventType] /\ \A k \in Slots : Steady(k)
  BY <1>1, <1>2, <1>3, <1>4, OneEvent
<1> QED
  BY <1>2, <1>5, <1>6, ApartStep DEF Apart

LEMMA StartEventWaitStep == Inv /\ StartEventWait => Inv'
<1> SUFFICES ASSUME Inv, StartEventWait PROVE Inv'
  OBVIOUS
<1>1. TypeInv /\ EventInv
  BY DEF Inv
<1>2. ioctl.pc = "idle" /\ UNCHANGED <<syncpoint, inc, guard, action_storage>>
  BY DEF StartEventWait, SyncpointUntouched
<1>3. PICK target \in 1..MaxValue, n \in Slots, is_allocation \in BOOLEAN, poll \in BOOLEAN :
        IF syncpoint >= target
        THEN /\ event' = IF is_allocation THEN event ELSE [event EXCEPT ![n].fails = 0]
             /\ UNCHANGED ioctl
        ELSE /\ ioctl' = [IdleIoctl EXCEPT !.pc = IF is_allocation THEN "find" ELSE "check",
                                           !.slot = IF is_allocation THEN 0 ELSE n,
                                           !.target = target, !.poll = poll]
             /\ UNCHANGED event
  BY DEF StartEventWait
<1>4. CASE syncpoint >= target /\ is_allocation
  BY <1>1, <1>2, <1>3, <1>4, NoEvent, IoctlTypes, ApartStep DEF Apart
<1>5. CASE syncpoint >= target /\ ~is_allocation
  <2> DEFINE e == [event[n] EXCEPT !.fails = 0]
  <2>1. event' = [event EXCEPT ![n] = e] /\ ioctl' = ioctl
    BY <1>3, <1>5
  <2>2. /\ e \in EventType /\ e.status = event[n].status /\ e.wait_handle = event[n].wait_handle
        /\ e.registered = event[n].registered /\ e.kevent = event[n].kevent
    BY <1>1, EventTypes DEF EventType
  <2> HIDE DEF e
  <2>3. event' \in [Slots -> EventType] /\ \A k \in Slots : Steady(k)
    BY <1>1, <2>1, <2>2, OneEvent DEF EventInv
  <2> QED
    BY <1>1, <1>2, <2>1, <2>3, IoctlTypes, ApartStep DEF Apart
<1>6. CASE ~(syncpoint >= target)
  <2> DEFINE l == IF is_allocation THEN "find" ELSE "check"
             m == IF is_allocation THEN 0 ELSE n
  <2>1. /\ l \in {"find", "check"} /\ m \in Slots /\ target \in Nat
        /\ ioctl' = [IdleIoctl EXCEPT !.pc = l, !.slot = m, !.target = target, !.poll = poll]
    BY <1>3, <1>6, MaxValueAssumption, NumEventsAssumption DEF Slots
  <2> HIDE DEF l, m
  <2>2. ioctl' \in IoctlType /\ ioctl'.pc = l /\ ioctl'.slot = m
    BY <2>1 DEF IdleIoctl, IoctlType, IoctlPc
  <2>3. event' = event
    BY <1>3, <1>6
  <2> QED
    BY <1>1, <1>2, <2>1, <2>2, <2>3, NoEvent, ApartStep DEF Apart
<1> QED
  BY <1>4, <1>5, <1>6

LEMMA FindFreeNvEventStep == Inv /\ FindFreeNvEvent => Inv'
<1> SUFFICES ASSUME Inv, FindFreeNvEvent PROVE Inv'
  OBVIOUS
<1> DEFINE i == ioctl.slot
           unused == event[i].registered /\ ~IsBeingUsed(i)
           found == IF unused THEN i ELSE ioctl.found
           new == {n \in Slots : ~event[n].registered}
<1>1. TypeInv /\ EventInv
  BY DEF Inv
<1>2. /\ ioctl.pc = "find" /\ UNCHANGED <<syncpoint, inc, guard, action_storage, event>>
      /\ i \in Slots /\ ioctl.found \in Slots \cup {None} /\ ioctl \in IoctlType
  BY <1>1, IoctlTypes DEF FindFreeNvEvent, SyncpointUntouched
<1>3. found \in Slots \cup {None} /\ 0 \in Slots
  BY <1>2, NumEventsAssumption DEF Slots
<1>4. new # {} => Min(new) \in Slots
  <2>1. new \in SUBSET Nat
    BY NumEventsAssumption DEF Slots
  <2>2. new # {} => Min(new) \in new
    BY <2>1, MinIsLeast
  <2> QED
    BY <2>2
<1>5. \E m \in Slots, f \in Slots \cup {None} :
        \/ ioctl' = [ioctl EXCEPT !.pc = "check"]
        \/ ioctl' = [ioctl EXCEPT !.slot = m, !.found = f]
        \/ ioctl' = [ioctl EXCEPT !.pc = "create", !.slot = m]
        \/ ioctl' = [ioctl EXCEPT !.pc = "check", !.slot = m]
  <2>0. \/ ioctl' = [ioctl EXCEPT !.pc = "check"]
        \/ i + 1 \in Slots /\ ioctl' = [ioctl EXCEPT !.slot = i + 1, !.found = found]
        \/ new # {} /\ ioctl' = [ioctl EXCEPT !.pc = "create", !.slot = Min(new)]
        \/ ioctl' = [ioctl EXCEPT !.pc = "check", !.slot = IF found = None THEN 0 ELSE found]
    BY DEF FindFreeNvEvent
  <2>1. (IF found = None THEN 0 ELSE found) \in Slots
    BY <1>3
  <2> HIDE DEF found, new, unused
  <2> QED
    BY <1>2, <1>3, <1>4, <2>0, <2>1
<1>6. /\ ioctl' \in IoctlType /\ ioctl'.pc \in {"find", "check", "create"} /\ ioctl'.slot \in Slots
  BY <1>2, <1>5 DEF IoctlType, IoctlPc
<1> QED
  BY <1>1, <1>2, <1>6, NoEvent, ApartStep DEF Apart

LEMMA CheckEventStep == Inv /\ CheckEvent => Inv'
<1> SUFFICES ASSUME Inv, CheckEvent PROVE Inv'
  OBVIOUS
<1>1. TypeInv /\ EventInv
  BY DEF Inv
<1>2. /\ ioctl.pc = "check" /\ UNCHANGED <<syncpoint, inc, guard, action_storage, event>>
      /\ ioctl.slot \in Slots /\ ioctl.poll \in BOOLEAN
  BY <1>1, IoctlTypes DEF CheckEvent, SyncpointUntouched, TypeInv, IoctlType
<1>3. \/ ioctl' = IdleIoctl
      \/ ioctl' = [ioctl EXCEPT !.pc = "stall"]
      \/ event[ioctl.slot].registered /\ ioctl' = [ioctl EXCEPT !.pc = "set_waiting"]
  BY <1>2 DEF CheckEvent
<1>4. event' \in [Slots -> EventType] /\ \A k \in Slots : Steady(k)
  BY <1>1, <1>2, NoEvent
<1>5. CASE ioctl' = IdleIoctl
  BY <1>1, <1>2, <1>4, <1>5, IoctlTypes, ApartStep DEF Apart
<1>6. CASE ioctl' = [ioctl EXCEPT !.pc = "stall"]
  <2>1. ioctl' \in IoctlType /\ ioctl'.pc = "stall" /\ ioctl'.slot \in Slots
    BY <1>1, <1>2, <1>6, IoctlTypes DEF IoctlPc
  <2> QED
    BY <1>2, <1>4, <2>1, ApartStep DEF Apart
<1>7. CASE event[ioctl.slot].registered /\ ioctl' = [ioctl EXCEPT !.pc = "set_waiting"]
  <2>1. ioctl' \in IoctlType /\ ioctl'.pc = "set_waiting" /\ ioctl'.slot = ioctl.slot
    BY <1>1, <1>7, IoctlTypes DEF IoctlPc
  <2>2. \A n \in Slots : Waits(n)' => Waits(n) /\ Handle(n)' = Handle(n)
    BY <1>2, <2>1 DEF Waits, Handle, Registering
  <2>3. EraseInv' /\ WaiterIsNotified'
    BY <2>1 DEF EraseInv, WaiterIsNotified
  <2> QED
    BY <1>2, <1>4, <1>7, <2>1, <2>2, <2>3, QuietStep DEF Steady
<1> QED
  BY <1>3, <1>5, <1>6, <1>7

LEMMA StallApplicationStep == Inv /\ StallApplication => Inv'
<1> SUFFICES ASSUME Inv, StallApplication PROVE Inv'
  OBVIOUS
<1>1. TypeInv /\ EventInv
  BY DEF Inv
<1>2. ioctl.pc = "stall" /\ UNCHANGED <<syncpoint, inc, guard, action_storage, event>>
  BY DEF StallApplication, syncpointVars
<1>3. ioctl' \in IoctlType /\ ioctl'.pc = "wait_host" /\ ioctl'.slot \in Slots
  BY <1>1, <1>2, IoctlTypes DEF StallApplication, IoctlPc
<1> QED
  BY <1>1, <1>2, <1>3, NoEvent, ApartStep DEF Apart

LEMMA UnstallApplicationStep == Inv /\ UnstallApplication => Inv'
<1> SUFFICES ASSUME Inv, UnstallApplication PROVE Inv'
  OBVIOUS
<1>1. TypeInv /\ EventInv
  BY DEF Inv
<1>2. ioctl.pc = "unstall" /\ UNCHANGED <<syncpoint, inc, guard, action_storage, event>>
  BY DEF UnstallApplication, syncpointVars
<1>3. ioctl' \in IoctlType /\ ioctl'.pc = "failed" /\ ioctl'.slot \in Slots
  BY <1>1, <1>2, IoctlTypes DEF UnstallApplication, IoctlPc
<1> QED
  BY <1>1, <1>2, <1>3, NoEvent, ApartStep DEF Apart

LEMMA WaitHostStep == Inv /\ WaitHost => Inv'
<1> SUFFICES ASSUME Inv, WaitHost PROVE Inv'
  OBVIOUS
<1>1. TypeInv /\ EventInv
  BY DEF Inv
<1>2. ioctl.pc = "wait_host" /\ UNCHANGED <<syncpoint, inc, guard, action_storage, event>>
  BY DEF WaitHost, SyncpointUntouched
<1>3. ioctl' \in IoctlType /\ ioctl'.pc \in {"unstall", "wait_lock"} /\ ioctl'.slot \in Slots
  BY <1>1, <1>2, IoctlTypes DEF WaitHost, IoctlPc
<1> QED
  BY <1>1, <1>2, <1>3, NoEvent, ApartStep DEF Apart

\* Blocked only while the value is to come: guard is held, and nobody who
\* reached it can notify before the condition variable is waited on.
LEMMA WaitHostLockedStep == Inv /\ WaitHostLocked => Inv'
<1> SUFFICES ASSUME Inv, WaitHostLocked PROVE Inv'
  OBVIOUS
<1>1. TypeInv /\ EventInv
  BY DEF Inv
<1>2. ioctl.pc = "wait_lock" /\ UNCHANGED <<syncpoint, inc, guard, action_storage, event>>
  BY DEF WaitHostLocked, SyncpointUntouched
<1>3. /\ ioctl' \in IoctlType /\ ioctl'.pc \in {"unstall", "blocked"} /\ ioctl'.slot \in Slots
      /\ ioctl'.pc = "blocked" => syncpoint < ioctl'.target
  <2>1. syncpoint \in Nat /\ ioctl.target \in Nat
    BY <1>1, IoctlTypes DEF TypeInv
  <2>2. CASE syncpoint >= ioctl.target
    BY <1>1, <1>2, <2>2, IoctlTypes DEF WaitHostLocked, IoctlPc
  <2>3. CASE ~(syncpoint >= ioctl.target)
    BY <1>1, <1>2, <2>1, <2>3, IoctlTypes DEF WaitHostLocked, IoctlPc
  <2> QED
    BY <2>2, <2>3
<1>4. event' \in [Slots -> EventType] /\ \A k \in Slots : Steady(k)
  BY <1>1, <1>2, NoEvent
<1>5. \A n \in Slots : Waits(n)' => Waits(n) /\ Handle(n)' = Handle(n)
  BY <1>2, <1>3, <1>4 DEF Waits, Handle, Registering, Steady
<1>6. EraseInv' /\ WaiterIsNotified'
  BY <1>2, <1>3 DEF EraseInv, WaiterIsNotified
<1> QED
  BY <1>2, <1>3, <1>4, <1>5, <1>6, QuietStep DEF Steady

LEMMA FailedEventStep == Inv /\ FailedEvent => Inv'
<1> SUFFICES ASSUME Inv, FailedEvent PROVE Inv'
  OBVIOUS
<1> DEFINE n == ioctl.slot
           e == [event[n] EXCEPT !.fails = 0]
<1>1. TypeInv /\ EventInv
  BY DEF Inv
<1>2. /\ ioctl.pc = "failed" /\ ioctl' = IdleIoctl /\ n \in Slots
      /\ UNCHANGED <<syncpoint, inc, guard, action_storage>>
  BY <1>1, IoctlTypes DEF FailedEvent, SyncpointUntouched
<1>3. event' = [event EXCEPT ![n] = e]
  BY DEF FailedEvent
<1>4. /\ e \in EventType /\ e.status = event[n].status /\ e.wait_handle = event[n].wait_handle
      /\ e.registered = event[n].registered /\ e.kevent = event[n].kevent
  BY <1>1, <1>2, EventTypes DEF EventType
<1> HIDE DEF e
<1>5. event' \in [Slots -> EventType] /\ \A k \in Slots : Steady(k)
  BY <1>1, <1>2, <1>3, <1>4, OneEvent DEF EventInv
<1> QED
  BY <1>1, <1>2, <1>5, IoctlTypes, ApartStep DEF Apart

LEMMA SetWaitingStep == Inv /\ SetWaiting => Inv'
<1> SUFFICES ASSUME Inv, SetWaiting PROVE Inv'
  OBVIOUS
<1> DEFINE n == ioctl.slot
           e == [event[n] EXCEPT !.status = "Waiting", !.assigned = TRUE, !.asked = FALSE]
<1>1. TypeInv /\ EventInv
  BY DEF Inv
<1>2. /\ ioctl.pc = "set_waiting" /\ n \in Slots
      /\ UNCHANGED <<syncpoint, inc, guard, action_storage>>
  BY <1>1, IoctlTypes DEF SetWaiting, SyncpointUntouched
<1>3. event' = [event EXCEPT ![n] = e]
  BY DEF SetWaiting
<1>4. /\ e \in EventType /\ e.wait_handle = event[n].wait_handle
      /\ e.registered = event[n].registered /\ e.kevent = event[n].kevent
  BY <1>1, <1>2, EventTypes DEF EventType, Status
<1> HIDE DEF e
<1>5. ioctl' \in IoctlType /\ ioctl'.pc = "register" /\ ioctl'.slot = n
  BY <1>1, <1>2, IoctlTypes DEF SetWaiting, IoctlPc
<1>6. /\ event' \in [Slots -> EventType] /\ event'[n] = e
      /\ \A k \in Slots : k # n => event'[k] = event[k]
  BY <1>1, <1>2, <1>3, <1>4 DEF TypeInv
<1>7. /\ \A k \in Slots : event'[k].registered => event'[k].kevent # "none"
      /\ \A k \in Slots : event'[k].status = "Waiting" => event'[k].registered
  <2>1. event[n].registered
    BY <1>1, <1>2 DEF EventInv
  <2> QED
    BY <1>1, <1>2, <1>4, <1>6, <2>1 DEF EventInv
<1>8. \A k \in Slots : Waits(k)' => Waits(k) /\ Handle(k)' = Handle(k)
  <2> SUFFICES ASSUME NEW k \in Slots, Waits(k)' PROVE Waits(k) /\ Handle(k)' = Handle(k)
    OBVIOUS
  <2>1. k # n
    BY <1>5 DEF Waits, Registering
  <2> QED
    BY <1>2, <1>5, <1>6, <2>1 DEF Waits, Handle, Registering
<1>9. EraseInv' /\ WaiterIsNotified'
  BY <1>5 DEF EraseInv, WaiterIsNotified
<1> QED
  BY <1>2, <1>5, <1>6, <1>7, <1>8, <1>9, QuietStep

LEMMA RegisterActionStep == Inv /\ RegisterAction => Inv'
<1> SUFFICES ASSUME Inv, RegisterAction PROVE Inv'
  OBVIOUS
<1>1. TypeInv /\ EventInv
  BY DEF Inv
<1>2. ioctl.pc = "register" /\ UNCHANGED <<syncpoint, inc, guard, action_storage, event>>
  BY DEF RegisterAction, SyncpointUntouched
<1>3. /\ ioctl' \in IoctlType /\ ioctl'.pc \in {"exchange", "register_lock"}
      /\ ioctl'.slot = ioctl.slot /\ ioctl'.slot \in Slots
  BY <1>1, <1>2, IoctlTypes DEF RegisterAction, IoctlPc
<1>4. event' \in [Slots -> EventType] /\ \A k \in Slots : Steady(k)
  BY <1>1, <1>2, NoEvent
<1>5. \A n \in Slots : Waits(n)' => Waits(n) /\ Handle(n)' = Handle(n)
  BY <1>2, <1>3 DEF Waits, Handle, Registering
<1>6. EraseInv' /\ WaiterIsNotified'
  BY <1>3 DEF EraseInv, WaiterIsNotified
<1> QED
  BY <1>2, <1>3, <1>4, <1>5, <1>6, QuietStep DEF Steady

LEMMA SetHandleStep == Inv /\ SetHandle => Inv'
<1> SUFFICES ASSUME Inv, SetHandle PROVE Inv'
  OBVIOUS
<1> DEFINE n == ioctl.slot
           e == [event[n] EXCEPT !.wait_handle = ioctl.target]
<1>1. TypeInv /\ EventInv
  BY DEF Inv
<1>2. /\ ioctl.pc = "handle" /\ ioctl' = IdleIoctl /\ n \in Slots
      /\ UNCHANGED <<syncpoint, inc, guard, action_storage>>
  BY <1>1, IoctlTypes DEF SetHandle, SyncpointUntouched
<1>3. event' = [event EXCEPT ![n] = e]
  BY DEF SetHandle
<1>4. /\ e \in EventType /\ e.wait_handle = ioctl.target /\ e.status = event[n].status
      /\ e.registered = event[n].registered /\ e.kevent = event[n].kevent
  BY <1>1, <1>2, EventTypes, IoctlTypes DEF EventType
<1> HIDE DEF e
<1>5. /\ event' \in [Slots -> EventType] /\ event'[n] = e
      /\ \A k \in Slots : k # n => event'[k] = event[k]
  BY <1>1, <1>2, <1>3, <1>4 DEF TypeInv
<1>6. /\ \A k \in Slots : event'[k].registered => event'[k].kevent # "none"
      /\ \A k \in Slots : event'[k].status = "Waiting" => event'[k].registered
  BY <1>1, <1>2, <1>4, <1>5 DEF EventInv
<1>7. ioctl' \in IoctlType /\ ioctl'.pc = "idle"
  BY <1>1, <1>2, IoctlTypes
<1>8. ASSUME NEW k \in Slots PROVE Waits(k)' => Waits(k) /\ Handle(k)' = Handle(k)
  <2>1. CASE k = n
    BY <1>2, <1>4, <1>5, <1>7, <2>1 DEF Waits, Handle, Registering
  <2>2. CASE k # n
    BY <1>2, <1>5, <1>7, <2>2 DEF Waits, Handle, Registering
  <2> QED
    BY <2>1, <2>2
<1>9. EraseInv' /\ WaiterIsNotified'
  BY <1>7 DEF EraseInv, WaiterIsNotified
<1> QED
  BY <1>2, <1>5, <1>6, <1>7, <1>8, <1>9, QuietStep

LEMMA ImmediateExchangeStep == Inv /\ ImmediateExchange => Inv'
<1> SUFFICES ASSUME Inv, ImmediateExchange PROVE Inv'
  OBVIOUS
<1> DEFINE n == ioctl.slot
           e == [event[n] EXCEPT !.status = "Signalling"]
<1>1. TypeInv /\ EventInv
  BY DEF Inv
<1>2. /\ ioctl.pc = "exchange" /\ n \in Slots
      /\ UNCHANGED <<syncpoint, inc, guard, action_storage>>
  BY <1>1, IoctlTypes DEF ImmediateExchange, SyncpointUntouched
<1>3. event' = [event EXCEPT ![n] = e]
  BY DEF ImmediateExchange
<1>4. /\ e \in EventType /\ e.status = "Signalling"
      /\ e.registered = event[n].registered /\ e.kevent = event[n].kevent
  BY <1>1, <1>2, EventTypes DEF EventType, Status
<1> HIDE DEF e
<1>5. /\ event' \in [Slots -> EventType] /\ event'[n] = e
      /\ \A k \in Slots : Steady(k) /\ (k # n => event'[k] = event[k])
  BY <1>1, <1>2, <1>3, <1>4, OneEvent DEF EventInv
<1>6. ioctl' \in IoctlType /\ ioctl'.pc \in {"signal", "store"} /\ ioctl'.slot \in Slots
  BY <1>1, <1>2, IoctlTypes DEF ImmediateExchange, IoctlPc
<1>7. ASSUME NEW k \in Slots, Waits(k)' PROVE Waits(k) /\ Handle(k)' = Handle(k)
  <2>1. k # n
    BY <1>4, <1>5, <1>7 DEF Waits
  <2> QED
    BY <1>2, <1>5, <1>6, <1>7, <2>1 DEF Waits, Handle, Registering
<1>8. EraseInv' /\ WaiterIsNotified'
  BY <1>6 DEF EraseInv, WaiterIsNotified
<1> QED
  BY <1>2, <1>5, <1>6, <1>7, <1>8, QuietStep DEF Steady

LEMMA SignalledEvent ==
  ASSUME NEW e \in EventType
  PROVE  /\ SignalKEvent(e) \in EventType /\ SignalKEvent(e).status = e.status
         /\ SignalKEvent(e).registered = e.registered /\ SignalKEvent(e).wait_handle = e.wait_handle
         /\ SignalKEvent(e).kevent = "none" <=> e.kevent = "none"
BY DEF SignalKEvent, EventType

LEMMA ImmediateSignalStep == Inv /\ ImmediateSignal => Inv'
<1> SUFFICES ASSUME Inv, ImmediateSignal PROVE Inv'
  OBVIOUS
<1> DEFINE n == ioctl.slot
           e == SignalKEvent(event[n])
<1>1. TypeInv /\ EventInv
  BY DEF Inv
<1>2. /\ ioctl.pc = "signal" /\ n \in Slots
      /\ UNCHANGED <<syncpoint, inc, guard, action_storage>>
  BY <1>1, IoctlTypes DEF ImmediateSignal, SyncpointUntouched
<1>3. event' = [event EXCEPT ![n] = e]
  BY DEF ImmediateSignal
<1>4. /\ e \in EventType /\ e.status = event[n].status /\ e.wait_handle = event[n].wait_handle
      /\ e.registered = event[n].registered /\ (e.kevent = "none" <=> event[n].kevent = "none")
  BY <1>1, <1>2, EventTypes, SignalledEvent
<1> HIDE DEF e
<1>5. event' \in [Slots -> EventType] /\ \A k \in Slots : Steady(k)
  BY <1>1, <1>2, <1>3, <1>4, OneEvent DEF EventInv
<1>6. ioctl' \in IoctlType /\ ioctl'.pc \in {"store", "fault"} /\ ioctl'.slot \in Slots
  BY <1>1, <1>2, IoctlTypes DEF ImmediateSignal, AfterSignal, IoctlPc
<1> QED
  BY <1>2, <1>5, <1>6, ApartStep DEF Apart

LEMMA ImmediateStoreStep == Inv /\ ImmediateStore => Inv'
<1> SUFFICES ASSUME Inv, ImmediateStore PROVE Inv'
  OBVIOUS
<1> DEFINE n == ioctl.slot
           e == [event[n] EXCEPT !.status = "Signalled", !.wait_handle = 0]
<1>1. TypeInv /\ EventInv
  BY DEF Inv
<1>2. /\ ioctl.pc = "store" /\ n \in Slots /\ ioctl' = IdleIoctl
      /\ UNCHANGED <<syncpoint, inc, action_storage>>
  BY <1>1, IoctlTypes DEF ImmediateStore, SyncpointUntouched
<1>3. guard' = guard \/ (guard \notin Incrementers /\ guard' \in {None, "ioctl"})
  BY GuardAssumption DEF ImmediateStore
<1>4. event' = [event EXCEPT ![n] = e]
  BY DEF ImmediateStore
<1>5. /\ e \in EventType /\ e.status = "Signalled"
      /\ e.registered = event[n].registered /\ e.kevent = event[n].kevent
  BY <1>1, <1>2, EventTypes DEF EventType, Status
<1> HIDE DEF e
<1>6. event' \in [Slots -> EventType] /\ \A k \in Slots : Steady(k)
  BY <1>1, <1>2, <1>4, <1>5, OneEvent DEF EventInv
<1> QED
  BY <1>1, <1>2, <1>3, <1>6, IoctlTypes, ApartStep DEF Apart

\* The handle of an event that was Waiting names its own action.
LEMMA StartClearStep == Inv /\ StartClear => Inv'
<1> SUFFICES ASSUME Inv, StartClear PROVE Inv'
  OBVIOUS
<1>1. TypeInv /\ EventInv /\ ListInv /\ WaitInv
  BY DEF Inv
<1>2. PICK n \in Slots :
        /\ event' = [event EXCEPT ![n] = [@ EXCEPT !.status = "Cancelling", !.asked = FALSE]]
        /\ ioctl' = [IdleIoctl EXCEPT !.pc = IF event[n].status = "Waiting" THEN "deregister" ELSE "cancelled",
                                      !.slot = n]
  BY DEF StartClear
<1> DEFINE e == [event[n] EXCEPT !.status = "Cancelling", !.asked = FALSE]
<1>3. ioctl.pc = "idle" /\ UNCHANGED <<syncpoint, inc, guard, action_storage>>
  BY DEF StartClear, SyncpointUntouched
<1>4. event' = [event EXCEPT ![n] = e]
  BY <1>2
<1>5. /\ e \in EventType /\ e.status = "Cancelling" /\ e.wait_handle = event[n].wait_handle
      /\ e.registered = event[n].registered /\ e.kevent = event[n].kevent
  BY <1>1, EventTypes DEF EventType, Status
<1> HIDE DEF e
<1>6. /\ event' \in [Slots -> EventType] /\ event'[n] = e
      /\ \A k \in Slots : Steady(k)
  BY <1>1, <1>4, <1>5, OneEvent DEF EventInv
<1>7. /\ ioctl' \in IoctlType /\ ioctl'.pc \in {"deregister", "cancelled"} /\ ioctl'.slot = n
      /\ ioctl'.pc = "deregister" => event[n].status = "Waiting"
  <2>1. CASE event[n].status = "Waiting"
    BY <1>2, <2>1 DEF IdleIoctl, IoctlType, IoctlPc
  <2>2. CASE event[n].status # "Waiting"
    BY <1>2, <2>2 DEF IdleIoctl, IoctlType, IoctlPc
  <2> QED
    BY <2>1, <2>2
<1>8. \A k \in Slots : Waits(k)' => Waits(k) /\ Handle(k)' = Handle(k)
  BY <1>3, <1>6, <1>7 DEF Waits, Handle, Registering, Steady
<1>9. EraseInv'
  <2> SUFFICES ASSUME ioctl'.pc = "deregister"
      PROVE  /\ event'[n].status # "Waiting"
             /\ \A k \in 1..Len(action_storage) :
                  action_storage[k].node = event'[n].wait_handle => action_storage[k].slot = n
    BY <1>3, <1>7 DEF EraseInv
  <2>1. Waits(n) /\ Handle(n) = event[n].wait_handle
    BY <1>3, <1>7 DEF Waits, Handle, Registering
  <2>2. PICK k \in 1..Len(action_storage) :
          action_storage[k].slot = n /\ action_storage[k].node = event[n].wait_handle
    BY <1>1, <2>1 DEF WaitInv
  <2>3. \A j \in 1..Len(action_storage) : action_storage[j].node = event[n].wait_handle => j = k
    BY <1>1, <2>2 DEF ListInv
  <2> QED
    BY <1>5, <1>6, <2>2, <2>3
<1>10. WaiterIsNotified'
  BY <1>7 DEF WaiterIsNotified
<1> QED
  BY <1>3, <1>6, <1>7, <1>8, <1>9, <1>10, QuietStep DEF Steady

LEMMA StoreCancelledStep == Inv /\ StoreCancelled => Inv'
<1> SUFFICES ASSUME Inv, StoreCancelled PROVE Inv'
  OBVIOUS
<1> DEFINE n == ioctl.slot
           f == IF event[n].fails < FailsBound THEN event[n].fails + 1 ELSE event[n].fails
           e == [event[n] EXCEPT !.status = "Cancelled", !.fails = f]
<1>1. TypeInv /\ EventInv
  BY DEF Inv
<1>2. /\ ioctl.pc = "cancelled" /\ n \in Slots
      /\ UNCHANGED <<syncpoint, inc, guard, action_storage>>
  BY <1>1, IoctlTypes DEF StoreCancelled, SyncpointUntouched
<1>3. event' = [event EXCEPT ![n] = e]
  BY DEF StoreCancelled
<1>4. f \in Nat
  BY <1>1, <1>2, EventTypes
<1> HIDE DEF f
<1>5. /\ e \in EventType /\ e.status = "Cancelled"
      /\ e.registered = event[n].registered /\ e.kevent = event[n].kevent
  BY <1>1, <1>2, <1>4, EventTypes DEF EventType, Status
<1> HIDE DEF e
<1>6. event' \in [Slots -> EventType] /\ \A k \in Slots : Steady(k)
  BY <1>1, <1>2, <1>3, <1>5, OneEvent DEF EventInv
<1>7. ioctl' \in IoctlType /\ ioctl'.pc = "clear" /\ ioctl'.slot \in Slots
  BY <1>1, <1>2, IoctlTypes DEF StoreCancelled, IoctlPc
<1> QED
  BY <1>2, <1>6, <1>7, ApartStep DEF Apart

LEMMA ClearKEventStep == Inv /\ ClearKEvent => Inv'
<1> SUFFICES ASSUME Inv, ClearKEvent PROVE Inv'
  OBVIOUS
<1> DEFINE n == ioctl.slot
           e == [event[n] EXCEPT !.kevent = "clear"]
<1>1. TypeInv /\ EventInv
  BY DEF Inv
<1>2. ioctl.pc = "clear" /\ n \in Slots /\ UNCHANGED <<syncpoint, inc, guard, action_storage>>
  BY <1>1, IoctlTypes DEF ClearKEvent, SyncpointUntouched
<1>3. CASE event[n].kevent = "none"
  <2>0. event' = event /\ ioctl' = [ioctl EXCEPT !.pc = "fault"] /\ "fault" \in IoctlPc
    BY <1>3 DEF ClearKEvent, IoctlPc
  <2>1. event' = event /\ ioctl' \in IoctlType /\ ioctl'.pc = "fault" /\ ioctl'.slot \in Slots
    BY <1>1, <1>2, <2>0, IoctlTypes
  <2> QED
    BY <1>1, <1>2, <2>1, NoEvent, ApartStep DEF Apart
<1>4. CASE event[n].kevent # "none"
  <2>1. event' = [event EXCEPT ![n] = e] /\ ioctl' = IdleIoctl
    BY <1>4 DEF ClearKEvent
  <2>2. /\ e \in EventType /\ e.status = event[n].status /\ e.wait_handle = event[n].wait_handle
        /\ e.registered = event[n].registered /\ e.kevent = "clear"
    BY <1>1, <1>2, EventTypes DEF EventType
  <2> HIDE DEF e
  <2>3. event' \in [Slots -> EventType] /\ \A k \in Slots : Steady(k)
    BY <1>1, <1>2, <2>1, <2>2, OneEvent DEF EventInv
  <2> QED
    BY <1>1, <1>2, <2>1, <2>3, IoctlTypes, ApartStep DEF Apart
<1> QED
  BY <1>3, <1>4

-----------------------------------------------------------------------------
(* The steps that change the list                                          *)

\* While guard is free, no thread of the GPU is beyond the increment.
LEMMA GuardFree ==
  ASSUME RunInv, guard = None
  PROVE  \A i \in Incrementers : inc[i].pc \in {"idle", "lock"}
BY GuardAssumption DEF RunInv

LEMMA IncTypes ==
  ASSUME TypeInv, NEW i \in Incrementers
  PROVE  inc[i] \in IncType /\ inc[i].pc \in IncPc /\ inc[i].new_value \in Nat
BY DEF TypeInv, IncType

LEMMA RegisterActionLockedStep == Inv /\ RegisterActionLocked => Inv'
<1> SUFFICES ASSUME Inv, RegisterActionLocked PROVE Inv'
  OBVIOUS
<1>1. TypeInv /\ ListInv /\ RunInv /\ ReachedInv /\ EventInv /\ WaitInv
  BY DEF Inv
<1>2. /\ ioctl.pc = "register_lock" /\ guard = None /\ ioctl.slot \in Slots
      /\ UNCHANGED <<syncpoint, inc>>
  BY <1>1, IoctlTypes DEF RegisterActionLocked, SyncpointUntouched
<1>3. CASE syncpoint >= ioctl.target
  <2>1. guard' = "ioctl" /\ UNCHANGED <<action_storage, event>>
    BY <1>3 DEF RegisterActionLocked
  <2>0. ioctl' = [ioctl EXCEPT !.pc = "exchange"] /\ "exchange" \in IoctlPc
    BY <1>3 DEF RegisterActionLocked, IoctlPc
  <2>2. ioctl' \in IoctlType /\ ioctl'.pc = "exchange" /\ ioctl'.slot = ioctl.slot
    BY <1>1, <2>0, IoctlTypes
  <2>3. event' \in [Slots -> EventType] /\ \A k \in Slots : Steady(k)
    BY <1>1, <2>1, NoEvent
  <2>4. \A n \in Slots : Waits(n)' => Waits(n) /\ Handle(n)' = Handle(n)
    BY <1>2, <2>1, <2>2 DEF Waits, Handle, Registering
  <2>5. EraseInv' /\ WaiterIsNotified'
    BY <2>2 DEF EraseInv, WaiterIsNotified
  <2>6. guard \notin Incrementers
    BY <1>2, GuardAssumption
  <2> QED
    BY <1>2, <2>1, <2>2, <2>3, <2>4, <2>5, <2>6, QuietStep DEF Steady
<1>4. CASE ~(syncpoint >= ioctl.target)
  <2>1. PICK node \in FreeNodes :
          /\ action_storage' = InsertAction([expected_value |-> ioctl.target, slot |-> ioctl.slot,
                                             node |-> node])
          /\ ioctl' = [ioctl EXCEPT !.pc = "handle", !.target = node]
    BY <1>4 DEF RegisterActionLocked
  <2> DEFINE a == [expected_value |-> ioctl.target, slot |-> ioctl.slot, node |-> node]
             n == Len(action_storage)
             r == action_storage'
  <2>2. /\ n \in Nat /\ node \in Nat
        /\ \A k \in 1..n : /\ action_storage[k].node # node /\ action_storage[k].expected_value \in Nat
                           /\ action_storage[k].node \in Nat
    BY <1>1, <2>1, ListTypes DEF FreeNodes
  <2>3. /\ a \in Action /\ a.node = node /\ a.slot = ioctl.slot /\ a.expected_value = ioctl.target
        /\ ioctl.target \in Nat /\ syncpoint \in Nat
    BY <1>1, <1>2, <2>2, IoctlTypes DEF Action, TypeInv
  <2>4. r = InsertAction(a) /\ a.node \in FreeNodes
    BY <2>1, <2>3
  <2> HIDE DEF a
  <2>5. /\ r \in Seq(Action) /\ Len(r) = n + 1
        /\ \E m \in 1..n + 1 :
             /\ \A i \in 1..n + 1 :
                  /\ i < m => i \in 1..n /\ r[i] = action_storage[i]
                  /\ i = m => r[i] = a
                  /\ i > m => i - 1 \in 1..n /\ r[i] = action_storage[i - 1]
             /\ \A i \in 1..n : /\ i < m => action_storage[i].expected_value <= a.expected_value
                                /\ i >= m => action_storage[i].expected_value >= a.expected_value
    BY <1>1, <2>3, <2>4, InsertActionList
  <2>6. PICK m \in 1..n + 1 :
          /\ \A i \in 1..n + 1 :
               /\ i < m => i \in 1..n /\ r[i] = action_storage[i]
               /\ i = m => r[i] = a
               /\ i > m => i - 1 \in 1..n /\ r[i] = action_storage[i - 1]
          /\ \A i \in 1..n : /\ i < m => action_storage[i].expected_value <= a.expected_value
                             /\ i >= m => action_storage[i].expected_value >= a.expected_value
    BY <2>5
  <2> HIDE DEF r, n
  <2>7. guard' = None
    BY <1>2, <1>4 DEF RegisterActionLocked
  <2>8. ioctl' \in IoctlType /\ ioctl'.pc = "handle" /\ ioctl'.slot = ioctl.slot /\ ioctl'.target = node
    <3>1. ioctl \in IoctlType /\ node \in Nat
      BY <1>1, <2>2, IoctlTypes
    <3>2. ioctl' = [ioctl EXCEPT !.pc = "handle", !.target = node]
      BY <2>1
    <3> QED
      BY ONLY <3>1, <3>2 DEF IoctlType, IoctlPc
  <2>19. /\ event' \in [Slots -> EventType]
         /\ \A k \in Slots : /\ event'[k].status = event[k].status /\ event'[k].kevent = event[k].kevent
                             /\ event'[k].registered = event[k].registered
                             /\ event'[k].wait_handle = event[k].wait_handle
    <3> DEFINE e == [event[ioctl.slot] EXCEPT !.asked = (event[ioctl.slot].status = "Waiting")]
    <3>1. event' = [event EXCEPT ![ioctl.slot] = e]
      BY <1>4 DEF RegisterActionLocked
    <3>2. /\ e \in EventType /\ e.status = event[ioctl.slot].status /\ e.kevent = event[ioctl.slot].kevent
          /\ e.registered = event[ioctl.slot].registered
          /\ e.wait_handle = event[ioctl.slot].wait_handle
      BY <1>1, <1>2, EventTypes DEF EventType
    <3> HIDE DEF e
    <3> QED
      BY <1>1, <1>2, <3>1, <3>2 DEF TypeInv
  <2>9. TypeInv'
    BY <1>1, <1>2, <2>5, <2>7, <2>8, <2>19 DEF TypeInv, r
  <2>10. ListInv'
    <3> SUFFICES ASSUME NEW i \in 1..n + 1, NEW j \in 1..n + 1
        PROVE  /\ i < j => r[i].expected_value <= r[j].expected_value
               /\ r[i].node = r[j].node => i = j
      BY <2>5 DEF ListInv, r
    <3>0. /\ \A k, l \in 1..n : k < l => action_storage[k].expected_value <= action_storage[l].expected_value
          /\ \A k, l \in 1..n : action_storage[k].node = action_storage[l].node => k = l
      BY <1>1 DEF ListInv, n
    <3>1. i \in Nat /\ j \in Nat /\ m \in Nat
      BY <2>2
    <3>2. CASE i = m /\ j = m
      BY <3>1, <3>2
    <3>3. CASE i < m /\ j < m
      BY <2>6, <3>0, <3>3
    <3>4. CASE i < m /\ j = m
      BY <2>2, <2>3, <2>6, <3>1, <3>4
    <3>5. CASE i < m /\ j > m
      BY <2>6, <3>0, <3>1, <3>5
    <3>6. CASE i = m /\ j < m
      BY <2>2, <2>3, <2>6, <3>1, <3>6
    <3>7. CASE i = m /\ j > m
      BY <2>2, <2>3, <2>6, <3>1, <3>7
    <3>8. CASE i > m /\ j < m
      BY <2>6, <3>0, <3>1, <3>8
    <3>9. CASE i > m /\ j = m
      BY <2>2, <2>3, <2>6, <3>1, <3>9
    <3>10. CASE i > m /\ j > m
      BY <2>6, <3>0, <3>1, <3>10
    <3> QED
      BY <3>1, <3>2, <3>3, <3>4, <3>5, <3>6, <3>7, <3>8, <3>9, <3>10
  <2>11. \A i \in Incrementers : inc[i].pc \in {"idle", "lock"}
    BY <1>1, <1>2, GuardFree
  <2>12. RunInv'
    BY <1>2, <2>11 DEF RunInv
  <2>13. \A i \in 1..n + 1 : r[i] = a \/ \E k \in 1..n : r[i] = action_storage[k]
    <3> SUFFICES ASSUME NEW i \in 1..n + 1 PROVE r[i] = a \/ \E k \in 1..n : r[i] = action_storage[k]
      OBVIOUS
    <3>1. i < m \/ i = m \/ i > m
      BY <2>2
    <3> QED
      BY <2>6, <3>1
  <2>14. \A k \in 1..n : \E i \in 1..n + 1 : r[i] = action_storage[k]
    <3> SUFFICES ASSUME NEW k \in 1..n PROVE \E i \in 1..n + 1 : r[i] = action_storage[k]
      OBVIOUS
    <3>1. CASE k < m
      BY <2>2, <2>6, <3>1
    <3>2. CASE k >= m
      <4>1. k + 1 \in 1..n + 1 /\ k + 1 > m /\ (k + 1) - 1 = k
        BY <2>2, <3>2
      <4> QED
        BY <2>6, <4>1
    <3> QED
      BY <2>2, <3>1, <3>2
  <2>15. ReachedInv'
    <3> SUFFICES ASSUME NEW k \in 1..n + 1, r[k].expected_value <= syncpoint
        PROVE  \E i \in Incrementers : inc[i].pc # "idle" /\ inc[i].new_value >= r[k].expected_value
      BY <1>2, <2>5 DEF ReachedInv, r
    <3>1. r[k] # a
      BY <1>4, <2>3
    <3>2. PICK l \in 1..n : r[k] = action_storage[l]
      BY <2>13, <3>1
    <3> QED
      BY <1>1, <3>2 DEF ReachedInv, n
  <2>16. EventInv'
    BY <1>1, <1>2, <2>8, <2>19 DEF EventInv
  <2>17. WaitInv'
    <3> SUFFICES ASSUME NEW k \in Slots, Waits(k)'
        PROVE  /\ \E i \in 1..n + 1 : r[i].slot = k /\ r[i].node = Handle(k)'
               /\ \A i \in Incrementers : inc[i].pc \in {"signal", "store", "ran"} => inc[i].slot # k
      BY <1>2, <2>5 DEF WaitInv, r
    <3>1. CASE k = ioctl.slot
      <4>1. Handle(k)' = node
        BY <2>8, <3>1 DEF Handle
      <4>2. r[m].slot = k /\ r[m].node = node
        BY <2>3, <2>6, <3>1
      <4> QED
        BY <2>11, <4>1, <4>2
    <3>2. CASE k # ioctl.slot
      <4>1. Waits(k) /\ Handle(k)' = Handle(k)
        BY <1>2, <2>8, <2>19, <3>2 DEF Waits, Handle, Registering
      <4>2. PICK l \in 1..n : action_storage[l].slot = k /\ action_storage[l].node = Handle(k)
        BY <1>1, <4>1 DEF WaitInv, n
      <4> QED
        BY <2>11, <2>14, <4>1, <4>2
    <3> QED
      BY <3>1, <3>2
  <2>18. EraseInv' /\ WaiterIsNotified'
    BY <2>8 DEF EraseInv, WaiterIsNotified
  <2> QED
    BY <2>9, <2>10, <2>12, <2>15, <2>16, <2>17, <2>18 DEF Inv
<1> QED
  BY <1>3, <1>4

\* An entry leaves the list: what stays is as it was.
LEMMA ShorterList ==
  ASSUME TypeInv, ListInv, ReachedInv, NEW m, action_storage' \in Seq(Action),
         Without(action_storage, action_storage', m), UNCHANGED syncpoint,
         \A i \in Incrementers : /\ inc'[i].new_value = inc[i].new_value
                                 /\ inc[i].pc # "idle" => inc'[i].pc # "idle"
  PROVE  /\ ListInv' /\ ReachedInv'
         /\ \A k \in 1..Len(action_storage') : \E l \in 1..Len(action_storage) :
              l # m /\ action_storage'[k] = action_storage[l]
         /\ \A l \in 1..Len(action_storage) : l # m =>
              \E k \in 1..Len(action_storage') : action_storage'[k] = action_storage[l]
<1>0. action_storage \in Seq(Action)
  BY DEF TypeInv
<1>1. /\ \A i, j \in 1..Len(action_storage') : \E k, l \in 1..Len(action_storage) :
           /\ action_storage'[i] = action_storage[k] /\ action_storage'[j] = action_storage[l] /\ k # m /\ l # m
           /\ (i < j => k < l) /\ (k = l => i = j)
      /\ \A k \in 1..Len(action_storage) : k # m =>
           \E i \in 1..Len(action_storage') : action_storage'[i] = action_storage[k]
  <2>1. Remaining(action_storage, action_storage', m)
    BY <1>0, WithoutEntries
  <2> QED
    BY <2>1, Zenon DEF Remaining
<1>2. ListInv'
  <2> SUFFICES ASSUME NEW i \in 1..Len(action_storage'), NEW j \in 1..Len(action_storage')
      PROVE  /\ i < j => action_storage'[i].expected_value <= action_storage'[j].expected_value
             /\ action_storage'[i].node = action_storage'[j].node => i = j
    BY DEF ListInv
  <2>1. PICK k \in 1..Len(action_storage), l \in 1..Len(action_storage) :
          /\ action_storage'[i] = action_storage[k] /\ action_storage'[j] = action_storage[l] /\ k # m /\ l # m
          /\ (i < j => k < l) /\ (k = l => i = j)
    BY <1>1, Zenon
  <2> QED
    BY <2>1 DEF ListInv
<1>3. ReachedInv'
  <2> SUFFICES ASSUME NEW k \in 1..Len(action_storage'), action_storage'[k].expected_value <= syncpoint
      PROVE  \E i \in Incrementers : /\ inc'[i].pc # "idle"
                                     /\ inc'[i].new_value >= action_storage'[k].expected_value
    BY DEF ReachedInv
  <2>1. PICK l \in 1..Len(action_storage) : action_storage'[k] = action_storage[l]
    BY <1>1
  <2> QED
    BY <2>1 DEF ReachedInv
<1> QED
  BY <1>1, <1>2, <1>3

LEMMA DeregisterActionStep == Inv /\ DeregisterAction => Inv'
<1> SUFFICES ASSUME Inv, DeregisterAction PROVE Inv'
  OBVIOUS
<1> DEFINE n == ioctl.slot
           h == event[n].wait_handle
           e == [event[n] EXCEPT !.wait_handle = 0]
           found == {k \in DOMAIN action_storage : action_storage[k].node = h}
<1>1. TypeInv /\ ListInv /\ RunInv /\ ReachedInv /\ EventInv /\ WaitInv /\ EraseInv
  BY DEF Inv
<1>2. /\ ioctl.pc = "deregister" /\ guard = None /\ n \in Slots
      /\ UNCHANGED <<syncpoint, inc, guard>>
  BY <1>1, IoctlTypes DEF DeregisterAction, SyncpointUntouched
<1>3. event' = [event EXCEPT ![n] = e]
  BY DEF DeregisterAction
<1>4. event[n].status # "Waiting"
  BY <1>1, <1>2 DEF EraseInv
<1>5. /\ e \in EventType /\ e.status = event[n].status
      /\ e.registered = event[n].registered /\ e.kevent = event[n].kevent
  BY <1>1, <1>2, EventTypes DEF EventType
<1> HIDE DEF e
<1>6. event' \in [Slots -> EventType] /\ \A k \in Slots : Steady(k)
  BY <1>1, <1>2, <1>3, <1>4, <1>5, OneEvent DEF EventInv
<1>7. ioctl' \in IoctlType /\ ioctl'.pc = "cancelled" /\ ioctl'.slot \in Slots
  BY <1>1, <1>2, IoctlTypes DEF DeregisterAction, IoctlPc
<1>8. \A k \in Slots : Waits(k)' => Waits(k) /\ Handle(k)' = Handle(k)
  BY <1>2, <1>6, <1>7 DEF Waits, Handle, Registering, Steady
<1>9. EraseInv' /\ WaiterIsNotified'
  BY <1>7 DEF EraseInv, WaiterIsNotified
<1>10. CASE found = {}
  <2>1. action_storage' = action_storage
    BY <1>10 DEF DeregisterAction, EraseHandle
  <2> QED
    BY <1>2, <1>6, <1>7, <1>8, <1>9, <2>1, QuietStep DEF Steady
<1>11. CASE found # {}
  <2> DEFINE m == CHOOSE k \in found : TRUE
  <2>1. m \in found
    BY <1>11
  <2>2. action_storage' = RemoveAt(action_storage, m)
    BY <1>11 DEF DeregisterAction, EraseHandle
  <2> HIDE DEF m
  <2>3. m \in 1..Len(action_storage) /\ action_storage[m].node = h
    BY <1>1, <2>1, ListTypes
  <2>4. action_storage' \in Seq(Action) /\ Without(action_storage, action_storage', m)
    BY <1>1, <2>2, <2>3, RemoveEntry DEF TypeInv
  <2>5. action_storage[m].slot = n
    BY <1>1, <1>2, <2>3 DEF EraseInv
  <2>6. /\ ListInv' /\ ReachedInv'
        /\ \A l \in 1..Len(action_storage) : l # m =>
             \E k \in 1..Len(action_storage') : action_storage'[k] = action_storage[l]
    BY <1>1, <1>2, <2>4, ShorterList
  <2>7. TypeInv'
    BY <1>1, <1>2, <1>6, <1>7, <2>4 DEF TypeInv
  <2>8. \A i \in Incrementers : inc[i].pc \in {"idle", "lock"}
    BY <1>1, <1>2, GuardFree
  <2>9. RunInv'
    BY <1>2, <2>8 DEF RunInv
  <2>10. EventInv'
    BY <1>6, <1>7 DEF EventInv, Steady
  <2>11. WaitInv'
    <3> SUFFICES ASSUME NEW k \in Slots, Waits(k)'
        PROVE  /\ \E i \in 1..Len(action_storage') :
                    action_storage'[i].slot = k /\ action_storage'[i].node = Handle(k)'
               /\ \A i \in Incrementers : inc[i].pc \in {"signal", "store", "ran"} => inc[i].slot # k
      BY <1>2 DEF WaitInv
    <3>1. Waits(k) /\ Handle(k)' = Handle(k)
      BY <1>8
    <3>2. PICK l \in 1..Len(action_storage) :
            action_storage[l].slot = k /\ action_storage[l].node = Handle(k)
      BY <1>1, <3>1 DEF WaitInv
    <3>3. k # n
      BY <1>4, <3>1 DEF Waits
    <3>4. l # m
      BY <2>5, <3>2, <3>3
    <3> QED
      BY <2>6, <2>8, <3>1, <3>2, <3>4
  <2> QED
    BY <1>9, <2>6, <2>7, <2>9, <2>10, <2>11 DEF Inv
<1> QED
  BY <1>10, <1>11

-----------------------------------------------------------------------------
(* The threads of the GPU                                                  *)

LEMMA OneThread ==
  ASSUME TypeInv, NEW i \in Incrementers, NEW r \in IncType, inc' = [inc EXCEPT ![i] = r]
  PROVE  /\ inc' \in [Incrementers -> IncType] /\ inc'[i] = r
         /\ \A j \in Incrementers : j # i => inc'[j] = inc[j]
BY DEF TypeInv

\* The thread that reaches the value of an action is the one to see it.
LEMMA FetchAddStep ==
  ASSUME Inv, NEW i \in Incrementers, FetchAdd(i), UNCHANGED <<event, ioctl>>
  PROVE  Inv'
<1> DEFINE r == [inc[i] EXCEPT !.pc = "lock", !.new_value = syncpoint + 1]
<1>1. TypeInv /\ ListInv /\ RunInv /\ ReachedInv /\ EventInv /\ WaitInv /\ EraseInv
  BY DEF Inv
<1>2. /\ inc[i].pc = "idle" /\ syncpoint' = syncpoint + 1 /\ UNCHANGED <<guard, action_storage>>
      /\ inc' = [inc EXCEPT ![i] = r] /\ syncpoint \in Nat
  BY <1>1 DEF FetchAdd, TypeInv
<1>3. r \in IncType /\ r.pc = "lock" /\ r.new_value = syncpoint + 1
  <2>1. inc[i] \in IncType /\ syncpoint + 1 \in Nat
    BY <1>1, <1>2, IncTypes
  <2> QED
    BY <2>1 DEF IncType, IncPc
<1> HIDE DEF r
<1>4. /\ inc' \in [Incrementers -> IncType] /\ inc'[i] = r
      /\ \A j \in Incrementers : j # i => inc'[j] = inc[j]
  BY <1>1, <1>2, <1>3, OneThread
<1>5. TypeInv'
  BY <1>1, <1>2, <1>4 DEF TypeInv
<1>6. ListInv' /\ EventInv' /\ EraseInv'
  BY <1>1, <1>2 DEF ListInv, EventInv, EraseInv
<1>7. RunInv'
  BY <1>1, <1>2, <1>3, <1>4 DEF RunInv
<1>8. ReachedInv'
  <2> SUFFICES ASSUME NEW k \in 1..Len(action_storage),
                      action_storage[k].expected_value <= syncpoint + 1
      PROVE  \E j \in Incrementers : /\ inc'[j].pc # "idle"
                                     /\ inc'[j].new_value >= action_storage[k].expected_value
    BY <1>2 DEF ReachedInv
  <2>1. inc'[i].pc # "idle" /\ inc'[i].new_value = syncpoint + 1
    BY <1>3, <1>4
  <2>2. action_storage[k].expected_value \in Nat
    BY <1>1, ListTypes
  <2> QED
    BY <1>2, <2>1, <2>2
<1>9. WaitInv'
  <2> SUFFICES ASSUME NEW n \in Slots, Waits(n)
      PROVE  /\ \E k \in 1..Len(action_storage) :
                  action_storage[k].slot = n /\ action_storage[k].node = Handle(n)
             /\ \A j \in Incrementers : inc'[j].pc \in {"signal", "store", "ran"} => inc'[j].slot # n
    BY <1>2 DEF WaitInv, Waits, Handle, Registering
  <2> QED
    BY <1>1, <1>3, <1>4 DEF WaitInv
<1>10. WaiterIsNotified'
  BY <1>3, <1>4 DEF WaiterIsNotified
<1> QED
  BY <1>5, <1>6, <1>7, <1>8, <1>9, <1>10 DEF Inv

\* A thread goes on, and neither the counter, the list, the events nor the
\* ioctl see anything of it.
LEMMA ThreadStep ==
  ASSUME Inv, NEW i \in Incrementers, NEW r \in IncType,
         UNCHANGED <<syncpoint, action_storage, event, ioctl>>,
         inc' = [inc EXCEPT ![i] = r], r.new_value = inc[i].new_value,
         inc[i].pc # "idle", r.pc \in {"scan", "action"}, guard' = i,
         guard \in {None, i},
         r.pc = "action" => 1 \in 1..Len(action_storage) /\ action_storage[1].slot = r.slot
  PROVE  Inv'
<1>1. TypeInv /\ ListInv /\ RunInv /\ ReachedInv /\ EventInv /\ WaitInv /\ EraseInv /\ WaiterIsNotified
  BY DEF Inv
<1>2. /\ inc' \in [Incrementers -> IncType] /\ inc'[i] = r
      /\ \A j \in Incrementers : j # i => inc'[j] = inc[j]
  BY <1>1, OneThread
<1>3. TypeInv'
  BY <1>1, <1>2 DEF TypeInv
<1>4. ListInv' /\ EventInv' /\ EraseInv'
  BY <1>1 DEF ListInv, EventInv, EraseInv
<1>5. RunInv'
  <2> SUFFICES ASSUME NEW j \in Incrementers
      PROVE  /\ inc'[j].pc \notin {"idle", "lock"} => guard' = j
             /\ inc'[j].pc \in {"action", "signal", "store", "ran"} =>
                  1 \in 1..Len(action_storage) /\ action_storage[1].slot = inc'[j].slot
    BY DEF RunInv
  <2>1. CASE j = i
    BY <1>2, <2>1
  <2>2. CASE j # i
    <3>1. inc[j].pc \in {"idle", "lock"}
      BY <1>1, <2>2, GuardAssumption DEF RunInv
    <3> QED
      BY <1>2, <2>2, <3>1
  <2> QED
    BY <2>1, <2>2
<1>6. ReachedInv'
  <2> SUFFICES ASSUME NEW k \in 1..Len(action_storage), action_storage[k].expected_value <= syncpoint
      PROVE  \E j \in Incrementers : /\ inc'[j].pc # "idle"
                                     /\ inc'[j].new_value >= action_storage[k].expected_value
    BY DEF ReachedInv
  <2>1. PICK j \in Incrementers : inc[j].pc # "idle" /\ inc[j].new_value >= action_storage[k].expected_value
    BY <1>1 DEF ReachedInv
  <2> QED
    BY <1>2, <2>1
<1>7. WaitInv'
  <2> SUFFICES ASSUME NEW n \in Slots, Waits(n)
      PROVE  /\ \E k \in 1..Len(action_storage) :
                  action_storage[k].slot = n /\ action_storage[k].node = Handle(n)
             /\ \A j \in Incrementers : inc'[j].pc \in {"signal", "store", "ran"} => inc'[j].slot # n
    BY DEF WaitInv, Waits, Handle, Registering
  <2> QED
    BY <1>1, <1>2 DEF WaitInv
<1>8. WaiterIsNotified'
  BY <1>2 DEF WaiterIsNotified
<1> QED
  BY <1>3, <1>4, <1>5, <1>6, <1>7, <1>8 DEF Inv

LEMMA LockGuardStep ==
  ASSUME Inv, NEW i \in Incrementers, LockGuard(i), UNCHANGED <<event, ioctl>>
  PROVE  Inv'
<1> DEFINE r == [inc[i] EXCEPT !.pc = "scan"]
<1>1. TypeInv
  BY DEF Inv
<1>2. /\ inc[i].pc = "lock" /\ guard = None /\ guard' = i /\ UNCHANGED <<syncpoint, action_storage>>
      /\ inc' = [inc EXCEPT ![i] = r]
  BY DEF LockGuard
<1>3. r \in IncType /\ r.pc = "scan" /\ r.new_value = inc[i].new_value
  BY <1>1, IncTypes DEF IncType, IncPc
<1> HIDE DEF r
<1> QED
  BY <1>2, <1>3, ThreadStep

LEMMA ScanDueStep ==
  ASSUME Inv, NEW i \in Incrementers, ScanDue(i), UNCHANGED <<event, ioctl>>
  PROVE  Inv'
<1> DEFINE r == [inc[i] EXCEPT !.pc = "action", !.slot = Head(action_storage).slot]
<1>1. TypeInv /\ RunInv
  BY DEF Inv
<1>2. /\ inc[i].pc = "scan" /\ UNCHANGED <<syncpoint, guard, action_storage>>
      /\ inc' = [inc EXCEPT ![i] = r] /\ action_storage # <<>>
  BY DEF ScanDue, Due
<1>3. 1 \in 1..Len(action_storage) /\ Head(action_storage) = action_storage[1]
  BY <1>1, <1>2 DEF TypeInv
<1>4. action_storage[1].slot \in Slots
  BY <1>1, <1>3, ListTypes
<1>5. r \in IncType /\ r.pc = "action" /\ r.new_value = inc[i].new_value /\ r.slot = action_storage[1].slot
  BY <1>1, <1>3, <1>4, IncTypes DEF IncType, IncPc
<1> HIDE DEF r
<1>6. guard = i
  BY <1>1, <1>2 DEF RunInv
<1> QED
  BY <1>2, <1>3, <1>5, <1>6, ThreadStep

\* The action that was run is the first, and belongs to no event that waits.
LEMMA EraseActionStep ==
  ASSUME Inv, NEW i \in Incrementers, EraseAction(i), UNCHANGED <<event, ioctl>>
  PROVE  Inv'
<1> DEFINE r == [inc[i] EXCEPT !.pc = "scan", !.slot = None]
<1>1. TypeInv /\ ListInv /\ RunInv /\ ReachedInv /\ EventInv /\ WaitInv /\ EraseInv
  BY DEF Inv
<1>2. /\ inc[i].pc = "ran" /\ action_storage' = Tail(action_storage) /\ UNCHANGED <<syncpoint, guard>>
      /\ inc' = [inc EXCEPT ![i] = r]
  BY DEF EraseAction
<1>3. guard = i /\ 1 \in 1..Len(action_storage) /\ action_storage[1].slot = inc[i].slot
  BY <1>1, <1>2 DEF RunInv
<1>4. r \in IncType /\ r.pc = "scan" /\ r.new_value = inc[i].new_value
  BY <1>1, IncTypes DEF IncType, IncPc
<1> HIDE DEF r
<1>5. /\ inc' \in [Incrementers -> IncType] /\ inc'[i] = r
      /\ \A j \in Incrementers : j # i => inc'[j] = inc[j]
  BY <1>1, <1>2, <1>4, OneThread
<1>6. action_storage' \in Seq(Action) /\ Without(action_storage, action_storage', 1)
  BY <1>1, <1>2, <1>3, TailEntry DEF TypeInv
<1>7. \A j \in Incrementers : /\ inc'[j].new_value = inc[j].new_value
                              /\ inc[j].pc # "idle" => inc'[j].pc # "idle"
  BY <1>4, <1>5
<1>8. /\ ListInv' /\ ReachedInv'
      /\ \A k \in 1..Len(action_storage') : \E l \in 1..Len(action_storage) :
           l # 1 /\ action_storage'[k] = action_storage[l]
      /\ \A l \in 1..Len(action_storage) : l # 1 =>
           \E k \in 1..Len(action_storage') : action_storage'[k] = action_storage[l]
  BY <1>1, <1>2, <1>6, <1>7, ShorterList
<1>9. TypeInv'
  BY <1>1, <1>2, <1>5, <1>6 DEF TypeInv
<1>10. RunInv'
  <2> SUFFICES ASSUME NEW j \in Incrementers
      PROVE  /\ inc'[j].pc \notin {"idle", "lock"} => guard' = j
             /\ inc'[j].pc \notin {"action", "signal", "store", "ran"}
    BY DEF RunInv
  <2>1. CASE j = i
    BY <1>2, <1>3, <1>4, <1>5, <2>1
  <2>2. CASE j # i
    BY <1>1, <1>3, <1>5, <2>2 DEF RunInv
  <2> QED
    BY <2>1, <2>2
<1>11. EventInv'
  BY <1>1 DEF EventInv
<1>12. WaitInv'
  <2> SUFFICES ASSUME NEW n \in Slots, Waits(n)
      PROVE  /\ \E k \in 1..Len(action_storage') :
                  action_storage'[k].slot = n /\ action_storage'[k].node = Handle(n)
             /\ \A j \in Incrementers : inc'[j].pc \in {"signal", "store", "ran"} => inc'[j].slot # n
    BY DEF WaitInv, Waits, Handle, Registering
  <2>1. PICK l \in 1..Len(action_storage) : action_storage[l].slot = n /\ action_storage[l].node = Handle(n)
    BY <1>1 DEF WaitInv
  <2>2. inc[i].slot # n
    BY <1>1, <1>2 DEF WaitInv
  <2>3. l # 1
    BY <1>3, <2>1, <2>2
  <2>4. PICK k \in 1..Len(action_storage') : action_storage'[k] = action_storage[l]
    BY <1>8, <2>3
  <2>5. \A j \in Incrementers : inc'[j].pc \in {"signal", "store", "ran"} => inc'[j].slot # n
    BY <1>1, <1>4, <1>5 DEF WaitInv
  <2> QED
    BY <2>1, <2>4, <2>5
<1>13. EraseInv'
  BY <1>1, <1>8 DEF EraseInv
<1>14. WaiterIsNotified'
  BY <1>4, <1>5 DEF WaiterIsNotified
<1> QED
  BY <1>8, <1>9, <1>10, <1>11, <1>12, <1>13, <1>14 DEF Inv

\* The thread that leaves was the last hope of no action: the first one is
\* not due for it, and the list is sorted.  Whoever waits is notified.
LEMMA EndIncrementStep ==
  ASSUME Inv, NEW i \in Incrementers, EndIncrement(i), UNCHANGED event,
         ioctl' = IF ioctl.pc = "blocked" THEN [ioctl EXCEPT !.pc = "wait_lock"] ELSE ioctl
  PROVE  Inv'
<1> DEFINE r == [inc[i] EXCEPT !.pc = "idle", !.new_value = 0]
<1>1. TypeInv /\ ListInv /\ RunInv /\ ReachedInv /\ EventInv /\ WaitInv /\ EraseInv
  BY DEF Inv
<1>2. /\ inc[i].pc = "scan" /\ ~Due(i) /\ guard' = None /\ UNCHANGED <<syncpoint, action_storage>>
      /\ inc' = [inc EXCEPT ![i] = r]
  BY DEF EndIncrement
<1>3. guard = i
  BY <1>1, <1>2 DEF RunInv
<1>4. r \in IncType /\ r.pc = "idle"
  BY <1>1, IncTypes DEF IncType, IncPc
<1> HIDE DEF r
<1>5. /\ inc' \in [Incrementers -> IncType] /\ inc'[i] = r
      /\ \A j \in Incrementers : j # i => inc'[j] = inc[j]
  BY <1>1, <1>2, <1>4, OneThread
<1>6. /\ ioctl' \in IoctlType /\ ioctl'.pc # "blocked" /\ ioctl'.slot = ioctl.slot
      /\ ioctl'.target = ioctl.target
      /\ ioctl'.pc = ioctl.pc \/ (ioctl.pc = "blocked" /\ ioctl'.pc = "wait_lock")
  BY <1>1, IoctlTypes DEF IoctlPc
<1>7. TypeInv'
  BY <1>1, <1>2, <1>5, <1>6 DEF TypeInv
<1>8. ListInv' /\ EventInv' /\ EraseInv' /\ WaiterIsNotified'
  BY <1>1, <1>2, <1>6 DEF ListInv, EventInv, EraseInv, WaiterIsNotified
<1>9. RunInv'
  <2> SUFFICES ASSUME NEW j \in Incrementers PROVE inc'[j].pc \in {"idle", "lock"}
    BY DEF RunInv
  <2> QED
    BY <1>1, <1>3, <1>4, <1>5 DEF RunInv
<1>10. ReachedInv'
  <2> SUFFICES ASSUME NEW k \in 1..Len(action_storage), action_storage[k].expected_value <= syncpoint
      PROVE  \E j \in Incrementers : /\ inc'[j].pc # "idle"
                                     /\ inc'[j].new_value >= action_storage[k].expected_value
    BY <1>2 DEF ReachedInv
  <2>1. PICK j \in Incrementers : inc[j].pc # "idle" /\ inc[j].new_value >= action_storage[k].expected_value
    BY <1>1 DEF ReachedInv
  <2>2. /\ 1 \in 1..Len(action_storage) /\ k \in Nat /\ k >= 1
        /\ action_storage # <<>> /\ Head(action_storage) = action_storage[1]
    BY <1>1 DEF TypeInv
  <2>3. k = 1 \/ action_storage[1].expected_value <= action_storage[k].expected_value
    BY <1>1, <2>2 DEF ListInv
  <2>4. ~(action_storage[1].expected_value <= inc[i].new_value)
    BY <1>2, <2>2 DEF Due
  <2>5. /\ action_storage[1].expected_value \in Nat /\ action_storage[k].expected_value \in Nat
        /\ inc[i].new_value \in Nat
    BY <1>1, <2>2, ListTypes, IncTypes
  <2>6. j # i
    BY <2>1, <2>3, <2>4, <2>5
  <2> QED
    BY <1>5, <2>1, <2>6
<1>11. WaitInv'
  <2> SUFFICES ASSUME NEW n \in Slots, Waits(n)'
      PROVE  /\ \E k \in 1..Len(action_storage) :
                  action_storage[k].slot = n /\ action_storage[k].node = Handle(n)'
             /\ \A j \in Incrementers : inc'[j].pc \in {"signal", "store", "ran"} => inc'[j].slot # n
    BY <1>2 DEF WaitInv
  <2>1. Waits(n) /\ Handle(n)' = Handle(n)
    BY <1>6 DEF Waits, Handle, Registering
  <2> QED
    BY <1>1, <1>4, <1>5, <2>1 DEF WaitInv
<1> QED
  BY <1>7, <1>8, <1>9, <1>10, <1>11 DEF Inv

\* A step of the action that thread i runs: e is what becomes of its event.
LEMMA RunStep ==
  ASSUME Inv, NEW i \in Incrementers, NEW p \in {"signal", "store", "ran", "fault"}, NEW e \in EventType,
         UNCHANGED <<syncpoint, guard, action_storage, ioctl>>,
         inc[i].pc \in {"action", "signal", "store"}, inc[i].slot \in Slots,
         inc' = [inc EXCEPT ![i].pc = p], event' = [event EXCEPT ![inc[i].slot] = e],
         e.registered = event[inc[i].slot].registered,
         e.kevent = "none" <=> event[inc[i].slot].kevent = "none",
         e.wait_handle = event[inc[i].slot].wait_handle,
         e.status = "Waiting" => event[inc[i].slot].status = "Waiting" /\ inc[i].pc # "action"
  PROVE  Inv'
<1> DEFINE r == [inc[i] EXCEPT !.pc = p]
           s == inc[i].slot
<1>1. TypeInv /\ ListInv /\ RunInv /\ ReachedInv /\ EventInv /\ WaitInv /\ EraseInv /\ WaiterIsNotified
  BY DEF Inv
<1>2. inc' = [inc EXCEPT ![i] = r]
  OBVIOUS
<1>3. r \in IncType /\ r.pc = p /\ r.new_value = inc[i].new_value /\ r.slot = s
  BY <1>1, IncTypes DEF IncType, IncPc
<1> HIDE DEF r
<1>4. /\ inc' \in [Incrementers -> IncType] /\ inc'[i] = r
      /\ \A j \in Incrementers : j # i => inc'[j] = inc[j]
  BY <1>1, <1>2, <1>3, OneThread
<1>5. /\ event' \in [Slots -> EventType] /\ event'[s] = e
      /\ \A k \in Slots : Steady(k) /\ (k # s => event'[k] = event[k])
  BY <1>1, OneEvent DEF EventInv
<1>6. \A k \in Slots : /\ event'[k].wait_handle = event[k].wait_handle
                       /\ event'[k].registered = event[k].registered
  BY <1>5
<1>7. TypeInv'
  BY <1>1, <1>4, <1>5 DEF TypeInv
<1>8. ListInv'
  BY <1>1 DEF ListInv
<1>9. RunInv'
  <2> SUFFICES ASSUME NEW j \in Incrementers
      PROVE  /\ inc'[j].pc \notin {"idle", "lock"} => guard = j
             /\ inc'[j].pc \in {"action", "signal", "store", "ran"} =>
                  1 \in 1..Len(action_storage) /\ action_storage[1].slot = inc'[j].slot
    BY DEF RunInv
  <2>1. CASE j = i
    BY <1>1, <1>3, <1>4, <2>1 DEF RunInv
  <2>2. CASE j # i
    BY <1>1, <1>4, <2>2 DEF RunInv
  <2> QED
    BY <2>1, <2>2
<1>10. ReachedInv'
  <2> SUFFICES ASSUME NEW k \in 1..Len(action_storage), action_storage[k].expected_value <= syncpoint
      PROVE  \E j \in Incrementers : /\ inc'[j].pc # "idle"
                                     /\ inc'[j].new_value >= action_storage[k].expected_value
    BY DEF ReachedInv
  <2>1. PICK j \in Incrementers : inc[j].pc # "idle" /\ inc[j].new_value >= action_storage[k].expected_value
    BY <1>1 DEF ReachedInv
  <2> QED
    BY <1>3, <1>4, <2>1
<1>11. EventInv'
  <2>1. ioctl.pc = "set_waiting" => ioctl.slot \in Slots
    BY <1>1, IoctlTypes
  <2> QED
    BY <1>1, <1>5, <1>6, <2>1 DEF EventInv, Steady
<1>12. WaitInv'
  <2> SUFFICES ASSUME NEW n \in Slots, Waits(n)'
      PROVE  /\ \E k \in 1..Len(action_storage) :
                  action_storage[k].slot = n /\ action_storage[k].node = Handle(n)'
             /\ \A j \in Incrementers : inc'[j].pc \in {"signal", "store", "ran"} => inc'[j].slot # n
    BY DEF WaitInv
  <2>1. Waits(n) /\ Handle(n)' = Handle(n)
    BY <1>5, <1>6 DEF Waits, Handle, Registering, Steady
  <2>2. n # s
    <3>1. CASE inc[i].pc = "action"
      BY <1>5, <3>1 DEF Waits
    <3>2. CASE inc[i].pc # "action"
      BY <1>1, <2>1, <3>2 DEF WaitInv
    <3> QED
      BY <3>1, <3>2
  <2> QED
    BY <1>1, <1>3, <1>4, <2>1, <2>2 DEF WaitInv
<1>13. EraseInv'
  <2> SUFFICES ASSUME ioctl.pc = "deregister"
      PROVE  /\ event'[ioctl.slot].status # "Waiting"
             /\ \A k \in 1..Len(action_storage) :
                  action_storage[k].node = event'[ioctl.slot].wait_handle => action_storage[k].slot = ioctl.slot
    BY DEF EraseInv
  <2>1. ioctl.slot \in Slots
    BY <1>1, IoctlTypes
  <2> QED
    BY <1>1, <1>5, <1>6, <2>1 DEF EraseInv, Steady
<1>14. WaiterIsNotified'
  BY <1>3, <1>4 DEF WaiterIsNotified
<1> QED
  BY <1>7, <1>8, <1>9, <1>10, <1>11, <1>12, <1>13, <1>14 DEF Inv

LEMMA RunningSlot ==
  ASSUME Inv, NEW i \in Incrementers, inc[i].pc \in {"action", "signal", "store"}
  PROVE  inc[i].slot \in Slots /\ event[inc[i].slot] \in EventType
<1>1. TypeInv /\ RunInv
  BY DEF Inv
<1>2. 1 \in 1..Len(action_storage) /\ action_storage[1].slot = inc[i].slot
  BY <1>1 DEF RunInv
<1>3. inc[i].slot \in Slots
  BY <1>1, <1>2, ListTypes
<1> QED
  BY <1>1, <1>3, EventTypes

LEMMA ActionExchangeStep == ASSUME Inv, NEW i \in Incrementers, ActionExchange(i) PROVE Inv'
<1> DEFINE s == inc[i].slot
           e == [event[s] EXCEPT !.status = "Signalling"]
           p == IF event[s].status = "Waiting" THEN "signal" ELSE "store"
<1>1. /\ inc[i].pc = "action" /\ inc' = [inc EXCEPT ![i].pc = p] /\ event' = [event EXCEPT ![s] = e]
      /\ UNCHANGED <<syncpoint, guard, action_storage, ioctl>> /\ p \in {"signal", "store", "ran", "fault"}
  BY DEF ActionExchange
<1>2. s \in Slots /\ event[s] \in EventType
  BY <1>1, RunningSlot
<1>3. /\ e \in EventType /\ e.status = "Signalling" /\ e.wait_handle = event[s].wait_handle
      /\ e.registered = event[s].registered /\ e.kevent = event[s].kevent
  BY <1>2 DEF EventType, Status
<1> HIDE DEF e, p
<1> QED
  BY <1>1, <1>2, <1>3, RunStep

LEMMA ActionSignalStep == ASSUME Inv, NEW i \in Incrementers, ActionSignal(i) PROVE Inv'
<1> DEFINE s == inc[i].slot
           e == SignalKEvent(event[s])
           p == AfterSignal(event[s])
<1>1. /\ inc[i].pc = "signal" /\ inc' = [inc EXCEPT ![i].pc = p] /\ event' = [event EXCEPT ![s] = e]
      /\ UNCHANGED <<syncpoint, guard, action_storage, ioctl>> /\ p \in {"signal", "store", "ran", "fault"}
  BY DEF ActionSignal, AfterSignal
<1>2. s \in Slots /\ event[s] \in EventType
  BY <1>1, RunningSlot
<1>3. /\ e \in EventType /\ e.status = event[s].status /\ e.wait_handle = event[s].wait_handle
      /\ e.registered = event[s].registered /\ (e.kevent = "none" <=> event[s].kevent = "none")
  BY <1>2, SignalledEvent
<1> HIDE DEF e, p
<1> QED
  BY <1>1, <1>2, <1>3, RunStep

LEMMA ActionStoreStep == ASSUME Inv, NEW i \in Incrementers, ActionStore(i) PROVE Inv'
<1> DEFINE s == inc[i].slot
           e == [event[s] EXCEPT !.status = "Signalled"]
<1>1. /\ inc[i].pc = "store" /\ inc' = [inc EXCEPT ![i].pc = "ran"] /\ event' = [event EXCEPT ![s] = e]
      /\ UNCHANGED <<syncpoint, guard, action_storage, ioctl>>
  BY DEF ActionStore
<1>2. s \in Slots /\ event[s] \in EventType
  BY <1>1, RunningSlot
<1>3. /\ e \in EventType /\ e.status = "Signalled" /\ e.wait_handle = event[s].wait_handle
      /\ e.registered = event[s].registered /\ e.kevent = event[s].kevent
  BY <1>2 DEF EventType, Status
<1> HIDE DEF e
<1> QED
  BY <1>1, <1>2, <1>3, RunStep

-----------------------------------------------------------------------------
(* The theorems                                                            *)

LEMMA InitInv == Init => Inv
<1> SUFFICES ASSUME Init PROVE Inv
  OBVIOUS
<1>1. /\ syncpoint = 0 /\ guard = None /\ action_storage = <<>> /\ ioctl = IdleIoctl
      /\ inc = [i \in Incrementers |-> [pc |-> "idle", new_value |-> 0, slot |-> None]]
      /\ event = [n \in Slots |-> NewEvent]
  BY DEF Init, SyncpointInit
<1>2. NewEvent \in EventType /\ NewEvent.status = "Available" /\ NewEvent.registered = FALSE
  BY DEF NewEvent, EventType, Status
<1>3. IdleIoctl \in IoctlType /\ IdleIoctl.pc = "idle"
  BY DEF IdleIoctl, IoctlType, IoctlPc
<1>4. inc \in [Incrementers -> IncType] /\ \A i \in Incrementers : inc[i].pc = "idle"
  BY <1>1 DEF IncType, IncPc
<1>5. action_storage \in Seq(Action) /\ Len(action_storage) = 0
  BY <1>1
<1>6. event \in [Slots -> EventType] /\ \A n \in Slots : event[n] = NewEvent
  BY <1>1, <1>2
<1>7. TypeInv
  BY <1>1, <1>3, <1>4, <1>5, <1>6 DEF TypeInv
<1>8. ListInv /\ RunInv /\ ReachedInv
  BY <1>4, <1>5 DEF ListInv, RunInv, ReachedInv
<1>9. EventInv /\ WaitInv /\ EraseInv /\ WaiterIsNotified
  BY <1>1, <1>2, <1>3, <1>6 DEF EventInv, WaitInv, Waits, EraseInv, WaiterIsNotified
<1> QED
  BY <1>7, <1>8, <1>9 DEF Inv

LEMMA StutterInv ==
  ASSUME Inv, UNCHANGED <<syncpoint, guard, action_storage, inc, event, ioctl>>
  PROVE  Inv'
BY DEF Inv, TypeInv, ListInv, RunInv, ReachedInv, EventInv, WaitInv, Waits,
       Registering, Handle, EraseInv, WaiterIsNotified

LEMMA NextInv == Inv /\ [Next]_vars => Inv'
<1> SUFFICES ASSUME Inv, [Next]_vars PROVE Inv'
  OBVIOUS
<1>1. CASE UNCHANGED vars
  BY <1>1, StutterInv DEF vars, syncpointVars
<1>2. ASSUME NEW i \in Incrementers, Increment(i) PROVE Inv'
  BY <1>2, FetchAddStep, LockGuardStep, ScanDueStep, EraseActionStep, EndIncrementStep,
     ActionExchangeStep, ActionSignalStep, ActionStoreStep DEF Increment
<1>5. CASE Frontend
  <2>1. UNCHANGED <<syncpoint, guard, action_storage, inc, event, ioctl>>
    BY <1>5 DEF Frontend, TakeSuspendGuard, ReleaseSuspendGuard, syncpointVars
  <2> QED
    BY <2>1, StutterInv
<1>3. CASE IoctlStart
  BY <1>3, StartFreeStep, StartEventWaitStep, StartClearStep DEF IoctlStart
<1>4. CASE IoctlContinue
  BY <1>4, FreeNvEventStep, CreateNvEventStep, FindFreeNvEventStep, CheckEventStep,
     StallApplicationStep, WaitHostStep, WaitHostLockedStep, UnstallApplicationStep, FailedEventStep,
     SetWaitingStep, RegisterActionStep, RegisterActionLockedStep, SetHandleStep,
     ImmediateExchangeStep, ImmediateSignalStep, ImmediateStoreStep, DeregisterActionStep,
     StoreCancelledStep, ClearKEventStep DEF IoctlContinue
<1> QED
  BY <1>1, <1>2, <1>3, <1>4, <1>5 DEF Next

\* The inductive invariant of nvhost_ctrl and its syncpoint.
THEOREM Invariant == Spec => []Inv
<1>1. Init => Inv
  BY InitInv
<1>2. Inv /\ [Next]_vars => Inv'
  BY NextInv
<1> QED
  BY <1>1, <1>2, PTL DEF Spec

\* No action is left behind by SyncpointManager::Increment: one whose value is
\* reached has a thread that will run it, wherever RegisterAction's two reads
\* of the counter fell, and the list is sorted.
THEOREM ActionsAreNotStranded == Spec => []NoStrandedAction
<1>1. Inv => NoStrandedAction
  <2> SUFFICES ASSUME Inv, NEW k \in DOMAIN action_storage
      PROVE  /\ action_storage[k].expected_value <= syncpoint =>
                  \E i \in Incrementers : /\ inc[i].pc # "idle"
                                          /\ inc[i].new_value >= action_storage[k].expected_value
             /\ k > 1 => action_storage[k - 1].expected_value <= action_storage[k].expected_value
    BY DEF NoStrandedAction
  <2>1. k \in 1..Len(action_storage) /\ Len(action_storage) \in Nat
    BY ListTypes DEF Inv
  <2>2. k > 1 => k - 1 \in 1..Len(action_storage) /\ k - 1 < k
    BY <2>1
  <2> QED
    BY <2>1, <2>2 DEF Inv, ReachedInv, ListInv
<1> QED
  BY <1>1, Invariant, PTL

-----------------------------------------------------------------------------
(* The waits that were registered                                          *)

Signals(n) == \E i \in Incrementers : inc[i].pc = "signal" /\ inc[i].slot = n

\* The ioctl is about to register a wait for its event, ends it, or has ended it.
Unasked == {"register", "register_lock", "exchange", "signal", "store", "deregister", "cancelled", "clear"}

AskInv ==
  /\ \A n \in Slots : event[n].asked => event[n].registered /\ (Waits(n) \/ Signals(n))
  /\ ioctl.pc \in Unasked => ~event[ioctl.slot].asked

\* A step of the ioctl that changes one event, and none that was asked for.
LEMMA AskedEvent ==
  ASSUME TypeInv, AskInv, UNCHANGED inc, NEW n \in Slots, NEW e \in EventType,
         event' = [event EXCEPT ![n] = e],
         e.asked => event[n].asked /\ e.registered = event[n].registered /\ e.status = event[n].status,
         ioctl'.pc \in Unasked => ioctl'.slot = n /\ ~e.asked
  PROVE  AskInv'
<1>1. event'[n] = e /\ \A k \in Slots : k # n => event'[k] = event[k]
  BY DEF TypeInv
<1>2. ASSUME NEW k \in Slots, event'[k].asked
      PROVE  event'[k].registered /\ (Waits(k)' \/ Signals(k)')
  <2>1. /\ event[k].asked /\ event'[k].registered = event[k].registered
        /\ event'[k].status = event[k].status
    BY <1>1, <1>2
  <2>2. ~Registering(k)'
    BY <1>1, <1>2 DEF Registering, Unasked
  <2>3. event[k].registered /\ (Waits(k) \/ Signals(k))
    BY <2>1 DEF AskInv
  <2>4. Signals(k) => Signals(k)'
    BY DEF Signals
  <2> QED
    BY <2>1, <2>2, <2>3, <2>4 DEF Waits
<1> QED
  BY <1>1, <1>2 DEF AskInv

LEMMA AskedNothing ==
  ASSUME AskInv, UNCHANGED <<inc, event>>,
         ioctl'.pc \in Unasked => ioctl.pc \in Unasked /\ ioctl'.slot = ioctl.slot
  PROVE  AskInv'
<1>1. ioctl'.pc \in Unasked => ~event'[ioctl'.slot].asked
  BY DEF AskInv
<1>2. ASSUME NEW k \in Slots, event'[k].asked
      PROVE  event'[k].registered /\ (Waits(k)' \/ Signals(k)')
  <2>1. event[k].registered /\ (Waits(k) \/ Signals(k))
    BY <1>2 DEF AskInv
  <2>2. ~Registering(k)'
    BY <1>1, <1>2 DEF Registering, Unasked
  <2>3. Signals(k) => Signals(k)'
    BY DEF Signals
  <2> QED
    BY <2>1, <2>2, <2>3 DEF Waits
<1> QED
  BY <1>1, <1>2 DEF AskInv

\* The ioctls
LEMMA StartAsk ==
  ASSUME Inv, AskInv, StartFree \/ StartEventWait \/ StartClear
  PROVE  AskInv'
<1>1. TypeInv
  BY DEF Inv
<1>2. ioctl.pc = "idle" /\ UNCHANGED inc
  BY DEF StartFree, StartEventWait, StartClear, SyncpointUntouched
<1>3. CASE StartFree
  <2>1. PICK n \in Slots, create \in BOOLEAN :
          \/ ioctl' = [IdleIoctl EXCEPT !.pc = "create", !.slot = n, !.create = TRUE]
          \/ ioctl' = [IdleIoctl EXCEPT !.pc = "free", !.slot = n, !.create = create]
          \/ ioctl' = ioctl
    BY <1>3 DEF StartFree
  <2>2. ioctl'.pc \notin Unasked
    BY <1>2, <2>1 DEF IdleIoctl, Unasked
  <2>3. UNCHANGED event
    BY <1>3 DEF StartFree
  <2> QED
    BY <1>2, <2>2, <2>3, AskedNothing
<1>4. CASE StartEventWait
  <2>1. PICK target \in 1..MaxValue, n \in Slots, is_allocation \in BOOLEAN, poll \in BOOLEAN :
          IF syncpoint >= target
          THEN /\ event' = IF is_allocation THEN event ELSE [event EXCEPT ![n].fails = 0]
               /\ UNCHANGED ioctl
          ELSE /\ ioctl' = [IdleIoctl EXCEPT !.pc = IF is_allocation THEN "find" ELSE "check",
                                             !.slot = IF is_allocation THEN 0 ELSE n,
                                             !.target = target, !.poll = poll]
               /\ UNCHANGED event
    BY <1>4 DEF StartEventWait
  <2>2. ioctl'.pc \notin Unasked
    BY <1>2, <2>1 DEF IdleIoctl, Unasked
  <2>3. CASE event' = event
    BY <1>2, <2>2, <2>3, AskedNothing
  <2>4. CASE event' = [event EXCEPT ![n].fails = 0]
    <3> DEFINE e == [event[n] EXCEPT !.fails = 0]
    <3>1. event' = [event EXCEPT ![n] = e]
      BY <2>4
    <3>2. /\ e \in EventType /\ e.asked = event[n].asked /\ e.registered = event[n].registered
          /\ e.status = event[n].status
      BY <1>1, EventTypes DEF EventType
    <3> HIDE DEF e
    <3> QED
      BY <1>1, <1>2, <2>2, <3>1, <3>2, AskedEvent
  <2> QED
    BY <2>1, <2>3, <2>4
<1>5. CASE StartClear
  <2>1. PICK n \in Slots :
          /\ event' = [event EXCEPT ![n] = [@ EXCEPT !.status = "Cancelling", !.asked = FALSE]]
          /\ ioctl' = [IdleIoctl EXCEPT !.pc = IF event[n].status = "Waiting" THEN "deregister"
                                               ELSE "cancelled", !.slot = n]
    BY <1>5 DEF StartClear
  <2> DEFINE e == [event[n] EXCEPT !.status = "Cancelling", !.asked = FALSE]
  <2>2. event' = [event EXCEPT ![n] = e] /\ ioctl'.slot = n
    BY <2>1 DEF IdleIoctl
  <2>3. e \in EventType /\ ~e.asked
    BY <1>1, EventTypes DEF EventType, Status
  <2> HIDE DEF e
  <2> QED
    BY <1>1, <1>2, <2>2, <2>3, AskedEvent
<1> QED
  BY <1>3, <1>4, <1>5

\* The steps that touch no event: none enters Unasked.
LEMMA EventlessAsk ==
  ASSUME Inv, AskInv,
         \/ FindFreeNvEvent \/ CheckEvent \/ StallApplication \/ WaitHost \/ WaitHostLocked
         \/ UnstallApplication \/ RegisterAction
  PROVE  AskInv'
<1>1. UNCHANGED <<inc, event>>
  BY DEF FindFreeNvEvent, CheckEvent, StallApplication, WaitHost, WaitHostLocked, UnstallApplication,
         RegisterAction, SyncpointUntouched, syncpointVars
<1>2. ioctl \in IoctlType
  BY DEF Inv, TypeInv
<1>3. ioctl'.pc \in Unasked => ioctl.pc \in Unasked /\ ioctl'.slot = ioctl.slot
  <2>1. CASE FindFreeNvEvent
    <3>1. ioctl'.pc \in {"find", "check", "create"}
      BY <1>2, <2>1 DEF FindFreeNvEvent, IoctlType
    <3> QED
      BY <3>1 DEF Unasked
  <2>2. CASE CheckEvent
    <3>1. ioctl'.pc \in {"idle", "stall", "set_waiting"}
      BY <1>2, <2>2 DEF CheckEvent, IoctlType, IdleIoctl
    <3> QED
      BY <3>1 DEF Unasked
  <2>3. CASE StallApplication \/ WaitHost \/ WaitHostLocked \/ UnstallApplication
    BY <1>2, <2>3 DEF StallApplication, WaitHost, WaitHostLocked, UnstallApplication, IoctlType, Unasked
  <2>4. CASE RegisterAction
    BY <1>2, <2>4 DEF RegisterAction, IoctlType, Unasked
  <2> QED
    BY <2>1, <2>2, <2>3, <2>4
<1> QED
  BY <1>1, <1>3, AskedNothing

\* The steps that leave the wait of their event as it is, or end it.
LEMMA EventAsk ==
  ASSUME Inv, AskInv,
         \/ FreeNvEvent \/ CreateNvEvent \/ FailedEvent \/ SetWaiting \/ SetHandle
         \/ ImmediateExchange \/ ImmediateSignal \/ ImmediateStore
         \/ DeregisterAction \/ StoreCancelled
  PROVE  AskInv'
<1> DEFINE n == ioctl.slot
<1>1. TypeInv /\ ioctl \in IoctlType
  BY DEF Inv, TypeInv
<1>2. ioctl.pc # "idle" /\ UNCHANGED inc
  BY DEF FreeNvEvent, CreateNvEvent, FailedEvent, SetWaiting, SetHandle, ImmediateExchange,
         ImmediateSignal, ImmediateStore, DeregisterAction, StoreCancelled, SyncpointUntouched
<1>3. n \in Slots /\ event[n] \in EventType
  BY <1>1, <1>2, IoctlTypes, EventTypes
<1>4. ioctl.pc \in Unasked => ~event[n].asked
  BY DEF AskInv
<1>5. \E e \in EventType :
        /\ event' = [event EXCEPT ![n] = e]
        /\ e.asked => event[n].asked /\ e.registered = event[n].registered /\ e.status = event[n].status
        /\ ioctl'.pc \in Unasked => ~e.asked
        /\ ioctl'.pc # "idle" => ioctl'.slot = n
  <2>1. CASE FreeNvEvent
    <3> DEFINE e == [event[n] EXCEPT !.kevent = "none", !.status = "Available", !.registered = FALSE,
                                     !.asked = FALSE]
    <3>1. event' = [event EXCEPT ![n] = e] /\ e \in EventType /\ ~e.asked
      BY <1>3, <2>1 DEF FreeNvEvent, EventType, Status
    <3>2. ioctl'.pc # "idle" => ioctl'.slot = n
      BY <1>1, <2>1 DEF FreeNvEvent, IdleIoctl, IoctlType
    <3> HIDE DEF e
    <3> QED
      BY <3>1, <3>2
  <2>2. CASE CreateNvEvent
    <3> DEFINE e == Create(event[n])
    <3>1. event' = [event EXCEPT ![n] = e] /\ e \in EventType /\ ~e.asked
      BY <1>3, <2>2 DEF CreateNvEvent, Create, EventType, Status
    <3>2. ioctl'.pc # "idle" => ioctl'.slot = n
      BY <1>1, <2>2 DEF CreateNvEvent, IdleIoctl, IoctlType
    <3> HIDE DEF e
    <3> QED
      BY <3>1, <3>2
  <2>3. CASE FailedEvent
    <3> DEFINE e == [event[n] EXCEPT !.fails = 0]
    <3>1. /\ event' = [event EXCEPT ![n] = e] /\ e \in EventType /\ e.asked = event[n].asked
          /\ e.registered = event[n].registered /\ e.status = event[n].status
      BY <1>3, <2>3 DEF FailedEvent, EventType
    <3>2. ioctl'.pc = "idle" /\ ioctl'.pc \notin Unasked
      BY <2>3 DEF FailedEvent, IdleIoctl, Unasked
    <3> HIDE DEF e
    <3> QED
      BY <3>1, <3>2
  <2>4. CASE SetWaiting
    <3> DEFINE e == [event[n] EXCEPT !.status = "Waiting", !.assigned = TRUE, !.asked = FALSE]
    <3>1. event' = [event EXCEPT ![n] = e] /\ e \in EventType /\ ~e.asked
      BY <1>3, <2>4 DEF SetWaiting, EventType, Status
    <3>2. ioctl'.slot = n
      BY <1>1, <2>4 DEF SetWaiting, IoctlType
    <3> HIDE DEF e
    <3> QED
      BY <3>1, <3>2
  <2>5. CASE SetHandle
    <3> DEFINE e == [event[n] EXCEPT !.wait_handle = ioctl.target]
    <3>1. /\ event' = [event EXCEPT ![n] = e] /\ e \in EventType /\ e.asked = event[n].asked
          /\ e.registered = event[n].registered /\ e.status = event[n].status
      BY <1>1, <1>3, <2>5, IoctlTypes DEF SetHandle, EventType
    <3>2. ioctl'.pc = "idle" /\ ioctl'.pc \notin Unasked
      BY <2>5 DEF SetHandle, IdleIoctl, Unasked
    <3> HIDE DEF e
    <3> QED
      BY <3>1, <3>2
  <2>6. CASE ImmediateExchange
    <3> DEFINE e == [event[n] EXCEPT !.status = "Signalling"]
    <3>1. event' = [event EXCEPT ![n] = e] /\ e \in EventType /\ e.asked = event[n].asked
      BY <1>3, <2>6 DEF ImmediateExchange, EventType, Status
    <3>2. ioctl'.slot = n /\ ~event[n].asked
      BY <1>1, <1>4, <2>6 DEF ImmediateExchange, IoctlType, Unasked
    <3> HIDE DEF e
    <3> QED
      BY <3>1, <3>2
  <2>7. CASE ImmediateSignal
    <3> DEFINE e == SignalKEvent(event[n])
    <3>1. event' = [event EXCEPT ![n] = e] /\ e \in EventType /\ (e.asked => event[n].asked)
      BY <1>3, <2>7 DEF ImmediateSignal, SignalKEvent, EventType
    <3>2. ioctl'.slot = n /\ ~event[n].asked
      BY <1>1, <1>4, <2>7 DEF ImmediateSignal, IoctlType, Unasked
    <3> HIDE DEF e
    <3> QED
      BY <3>1, <3>2
  <2>8. CASE ImmediateStore
    <3> DEFINE e == [event[n] EXCEPT !.status = "Signalled", !.wait_handle = 0]
    <3>1. event' = [event EXCEPT ![n] = e] /\ e \in EventType /\ e.asked = event[n].asked
      BY <1>3, <2>8 DEF ImmediateStore, EventType, Status
    <3>2. ioctl'.pc = "idle" /\ ~event[n].asked
      BY <1>4, <2>8 DEF ImmediateStore, IdleIoctl, Unasked
    <3> HIDE DEF e
    <3> QED
      BY <3>1, <3>2
  <2>9. CASE DeregisterAction
    <3> DEFINE e == [event[n] EXCEPT !.wait_handle = 0]
    <3>1. event' = [event EXCEPT ![n] = e] /\ e \in EventType /\ e.asked = event[n].asked
      BY <1>3, <2>9 DEF DeregisterAction, EventType
    <3>2. ioctl'.slot = n /\ ~event[n].asked
      BY <1>1, <1>4, <2>9 DEF DeregisterAction, IoctlType, Unasked
    <3> HIDE DEF e
    <3> QED
      BY <3>1, <3>2
  <2>10. CASE StoreCancelled
    <3> DEFINE f == IF event[n].fails < FailsBound THEN event[n].fails + 1 ELSE event[n].fails
               e == [event[n] EXCEPT !.status = "Cancelled", !.fails = f]
    <3>0. event' = [event EXCEPT ![n] = e] /\ f \in Nat
      BY <1>1, <1>3, <2>10, EventTypes DEF StoreCancelled
    <3> HIDE DEF f
    <3>1. e \in EventType /\ e.asked = event[n].asked
      BY <1>3, <3>0 DEF EventType, Status
    <3>2. ioctl'.slot = n /\ ~event[n].asked
      BY <1>1, <1>4, <2>10 DEF StoreCancelled, IoctlType, Unasked
    <3> HIDE DEF e
    <3> QED
      BY <3>0, <3>1, <3>2
  <2> QED
    BY <2>1, <2>2, <2>3, <2>4, <2>5, <2>6, <2>7, <2>8, <2>9, <2>10
<1>6. "idle" \notin Unasked
  BY DEF Unasked
<1> QED
  BY <1>1, <1>2, <1>3, <1>5, <1>6, AskedEvent

LEMMA ClearAsk == ASSUME Inv, AskInv, ClearKEvent PROVE AskInv'
<1> DEFINE n == ioctl.slot
           e == [event[n] EXCEPT !.kevent = "clear"]
<1>1. TypeInv /\ ioctl \in IoctlType
  BY DEF Inv, TypeInv
<1>2. ioctl.pc = "clear" /\ UNCHANGED inc
  BY DEF ClearKEvent, SyncpointUntouched
<1>3. n \in Slots
  BY <1>1, <1>2, IoctlTypes
<1>4. ioctl'.pc \notin Unasked
  BY <1>1 DEF ClearKEvent, IdleIoctl, IoctlType, Unasked
<1>5. CASE event[n].kevent = "none"
  BY <1>2, <1>4, <1>5, AskedNothing DEF ClearKEvent
<1>6. CASE event[n].kevent # "none"
  <2>1. /\ event' = [event EXCEPT ![n] = e] /\ e \in EventType /\ e.asked = event[n].asked
        /\ e.registered = event[n].registered /\ e.status = event[n].status
    BY <1>1, <1>3, <1>6, EventTypes DEF ClearKEvent, EventType
  <2> HIDE DEF e
  <2> QED
    BY <1>1, <1>2, <1>3, <1>4, <2>1, AskedEvent
<1> QED
  BY <1>5, <1>6

\* The wait is asked for if its event is Waiting when its action is inserted.
LEMMA RegisterAsk == ASSUME Inv, AskInv, RegisterActionLocked PROVE AskInv'
<1> DEFINE n == ioctl.slot
           e == [event[n] EXCEPT !.asked = (event[n].status = "Waiting")]
<1>1. TypeInv /\ EventInv /\ ioctl \in IoctlType
  BY DEF Inv, TypeInv
<1>2. ioctl.pc = "register_lock" /\ UNCHANGED inc
  BY DEF RegisterActionLocked, SyncpointUntouched
<1>3. n \in Slots
  BY <1>1, <1>2, IoctlTypes
<1>4. CASE syncpoint >= ioctl.target
  BY <1>1, <1>2, <1>4, AskedNothing DEF RegisterActionLocked, IoctlType, Unasked
<1>5. CASE ~(syncpoint >= ioctl.target)
  <2>1. event' = [event EXCEPT ![n] = e]
    BY <1>5 DEF RegisterActionLocked
  <2>2. /\ e \in EventType /\ (e.asked <=> event[n].status = "Waiting")
        /\ e.registered = event[n].registered /\ e.status = event[n].status
    BY <1>1, <1>3, EventTypes DEF EventType
  <2> HIDE DEF e
  <2>3. event'[n] = e /\ \A k \in Slots : k # n => event'[k] = event[k]
    BY <1>1, <1>3, <2>1 DEF TypeInv
  <2>4. ioctl'.pc = "handle"
    BY <1>1, <1>5 DEF RegisterActionLocked, IoctlType
  <2>5. ASSUME NEW k \in Slots, event'[k].asked
        PROVE  event'[k].registered /\ (Waits(k)' \/ Signals(k)')
    <3>1. CASE k = n
      BY <1>1, <1>3, <2>2, <2>3, <2>4, <2>5, <3>1 DEF Waits, Registering, EventInv
    <3>2. CASE k # n
      <4>1. event[k].registered /\ (Waits(k) \/ Signals(k))
        BY <2>3, <2>5, <3>2 DEF AskInv
      <4>2. Signals(k) => Signals(k)'
        BY <1>2 DEF Signals
      <4> QED
        BY <2>3, <2>4, <3>2, <4>1, <4>2 DEF Waits, Registering
    <3> QED
      BY <3>1, <3>2
  <2> QED
    BY <2>4, <2>5 DEF AskInv, Unasked
<1> QED
  BY <1>4, <1>5

\* The threads of the GPU: outside an action they change no event ...
LEMMA ThreadAsk ==
  ASSUME Inv, AskInv, NEW i \in Incrementers,
         FetchAdd(i) \/ LockGuard(i) \/ ScanDue(i) \/ EraseAction(i) \/ EndIncrement(i),
         UNCHANGED event,
         ioctl' = ioctl \/ ioctl' = [ioctl EXCEPT !.pc = "wait_lock"]
  PROVE  AskInv'
<1>1. TypeInv /\ ioctl \in IoctlType
  BY DEF Inv, TypeInv
<1>2. inc[i].pc # "signal" /\ \A j \in Incrementers : j # i => inc'[j] = inc[j]
  BY <1>1 DEF TypeInv, FetchAdd, LockGuard, ScanDue, EraseAction, EndIncrement
<1>3. \A n \in Slots : Signals(n) => Signals(n)'
  BY <1>2 DEF Signals
<1>4. \A n \in Slots : Waits(n) => Waits(n)'
  BY <1>1 DEF Waits, Registering, IoctlType
<1>5. ioctl'.pc \in Unasked => ioctl' = ioctl
  BY <1>1 DEF Unasked, IoctlType
<1> QED
  BY <1>3, <1>4, <1>5 DEF AskInv

\* ... and in it they take Waiting, signal, and store what nobody waits on: the
\* holder of guard is the only one that runs an action.
LEMMA ActionAsk ==
  ASSUME Inv, AskInv, NEW i \in Incrementers, ActionExchange(i) \/ ActionSignal(i) \/ ActionStore(i)
  PROVE  AskInv'
<1> DEFINE s == inc[i].slot
<1>1. TypeInv /\ RunInv /\ WaitInv
  BY DEF Inv
<1>2. inc[i].pc \in {"action", "signal", "store"} /\ UNCHANGED ioctl
  BY DEF ActionExchange, ActionSignal, ActionStore
<1>3. s \in Slots /\ event[s] \in EventType
  BY <1>2, RunningSlot
<1>4. \A j \in Incrementers : inc[j].pc = "signal" => j = i
  BY <1>1, <1>2 DEF RunInv
<1>5. \E e \in EventType, p \in IncPc :
        /\ event' = [event EXCEPT ![s] = e] /\ inc' = [inc EXCEPT ![i].pc = p]
        /\ e.asked => event[s].asked /\ p = "signal" /\ e.registered = event[s].registered
  <2>1. CASE ActionExchange(i)
    <3> DEFINE e == [event[s] EXCEPT !.status = "Signalling"]
               p == IF event[s].status = "Waiting" THEN "signal" ELSE "store"
    <3>1. /\ event' = [event EXCEPT ![s] = e] /\ e \in EventType /\ e.asked = event[s].asked
          /\ e.registered = event[s].registered
      BY <1>3, <2>1 DEF ActionExchange, EventType, Status
    <3>2. inc' = [inc EXCEPT ![i].pc = p] /\ p \in IncPc
      BY <2>1 DEF ActionExchange, IncPc
    <3>3. event[s].asked => p = "signal"
      <4>1. inc[i].pc = "action"
        BY <2>1 DEF ActionExchange
      <4>2. ~Signals(s)
        BY <1>4, <4>1 DEF Signals
      <4> QED
        BY <1>3, <4>2 DEF AskInv, Waits
    <3> HIDE DEF e, p
    <3> QED
      BY <3>1, <3>2, <3>3
  <2>2. CASE ActionSignal(i)
    <3> DEFINE e == SignalKEvent(event[s])
               p == AfterSignal(event[s])
    <3>1. event' = [event EXCEPT ![s] = e] /\ e \in EventType
      BY <1>3, <2>2 DEF ActionSignal, SignalKEvent, EventType
    <3>2. inc' = [inc EXCEPT ![i].pc = p] /\ p \in IncPc
      BY <2>2 DEF ActionSignal, AfterSignal, IncPc
    <3>3. ~e.asked
      <4>1. CASE event[s].kevent = "none"
        BY <1>3, <4>1 DEF AskInv, Inv, EventInv, SignalKEvent
      <4>2. CASE event[s].kevent # "none"
        BY <1>3, <4>2 DEF SignalKEvent, EventType
      <4> QED
        BY <4>1, <4>2
    <3> HIDE DEF e, p
    <3> QED
      BY <3>1, <3>2, <3>3
  <2>3. CASE ActionStore(i)
    <3> DEFINE e == [event[s] EXCEPT !.status = "Signalled"]
    <3>1. event' = [event EXCEPT ![s] = e] /\ e \in EventType /\ e.asked = event[s].asked
      BY <1>3, <2>3 DEF ActionStore, EventType, Status
    <3>2. inc' = [inc EXCEPT ![i].pc = "ran"] /\ "ran" \in IncPc
      BY <2>3 DEF ActionStore, IncPc
    <3>3. ~event[s].asked
      <4>1. inc[i].pc = "store"
        BY <2>3 DEF ActionStore
      <4>2. ~Signals(s) /\ ~Waits(s)
        BY <1>1, <1>3, <1>4, <4>1 DEF Signals, WaitInv
      <4> QED
        BY <1>3, <4>2 DEF AskInv
    <3> HIDE DEF e
    <3> QED
      BY <3>1, <3>2, <3>3
  <2> QED
    BY <2>1, <2>2, <2>3
<1>6. PICK e \in EventType, p \in IncPc :
        /\ event' = [event EXCEPT ![s] = e] /\ inc' = [inc EXCEPT ![i].pc = p]
        /\ e.asked => event[s].asked /\ p = "signal" /\ e.registered = event[s].registered
  BY <1>5
<1>7. event'[s] = e /\ \A k \in Slots : k # s => event'[k] = event[k]
  BY <1>1, <1>3, <1>6 DEF TypeInv
<1>8. inc'[i].pc = p /\ inc'[i].slot = s /\ \A j \in Incrementers : j # i => inc'[j] = inc[j]
  BY <1>1, <1>6 DEF TypeInv, IncType
<1>9. ASSUME NEW k \in Slots, event'[k].asked
      PROVE  event'[k].registered /\ (Waits(k)' \/ Signals(k)')
  <2>1. CASE k = s
    <3>1. event'[k].registered
      BY <1>3, <1>6, <1>7, <1>9, <2>1 DEF AskInv
    <3>2. Signals(k)'
      BY <1>6, <1>7, <1>8, <1>9, <2>1 DEF Signals
    <3> QED
      BY <3>1, <3>2
  <2>2. CASE k # s
    <3>1. event[k].registered /\ (Waits(k) \/ Signals(k))
      BY <1>7, <1>9, <2>2 DEF AskInv
    <3>2. ~Signals(k)
      BY <1>4, <2>2 DEF Signals
    <3> QED
      BY <1>2, <1>7, <2>2, <3>1, <3>2 DEF Waits, Registering
  <2> QED
    BY <2>1, <2>2
<1>10. ioctl'.pc \in Unasked => ~event'[ioctl'.slot].asked
  <2>1. ioctl.pc \in Unasked => ioctl.slot \in Slots /\ ~event[ioctl.slot].asked
    BY <1>1, IoctlTypes DEF AskInv, Unasked
  <2> QED
    BY <1>2, <1>6, <1>7, <2>1
<1> QED
  BY <1>9, <1>10 DEF AskInv

LEMMA StutterAsk == ASSUME AskInv, UNCHANGED <<inc, event, ioctl>> PROVE AskInv'
BY AskedNothing

LEMMA NextAsk == Inv /\ AskInv /\ [Next]_vars => AskInv'
<1> SUFFICES ASSUME Inv, AskInv, [Next]_vars PROVE AskInv'
  OBVIOUS
<1>1. CASE UNCHANGED vars \/ Frontend
  BY <1>1, StutterAsk DEF vars, syncpointVars, Frontend, TakeSuspendGuard, ReleaseSuspendGuard
<1>2. ASSUME NEW i \in Incrementers, Increment(i) PROVE AskInv'
  <2>1. CASE /\ FetchAdd(i) \/ LockGuard(i) \/ ScanDue(i) \/ EraseAction(i)
             /\ UNCHANGED <<event, ioctl>>
    BY <2>1, ThreadAsk
  <2>2. CASE /\ EndIncrement(i) /\ UNCHANGED event
             /\ ioctl' = IF ioctl.pc = "blocked" THEN [ioctl EXCEPT !.pc = "wait_lock"] ELSE ioctl
    BY <2>2, ThreadAsk
  <2>3. CASE ActionExchange(i) \/ ActionSignal(i) \/ ActionStore(i)
    BY <2>3, ActionAsk
  <2> QED
    BY <1>2, <2>1, <2>2, <2>3 DEF Increment
<1>3. CASE IoctlStart
  BY <1>3, StartAsk DEF IoctlStart
<1>4. CASE IoctlContinue
  BY <1>4, EventlessAsk, EventAsk, ClearAsk, RegisterAsk DEF IoctlContinue
<1> QED
  BY <1>1, <1>2, <1>3, <1>4 DEF Next

\* Whoever waits for a syncpoint is served: the ioctl in SyncpointManager::Wait
\* will be notified, and a wait whose event was Waiting when its action was
\* registered keeps its KEvent, Waiting and its action under its handle until the
\* thread that takes Waiting has signalled it, or it is cleared.
THEOREM WaitsAreServed == Spec => []WaitersAreServed
<1>1. Init => AskInv
  <2> SUFFICES ASSUME Init PROVE AskInv
    OBVIOUS
  <2>1. \A n \in Slots : ~event[n].asked
    BY DEF Init, NewEvent
  <2>2. ioctl.pc = "idle"
    BY DEF Init, IdleIoctl
  <2> QED
    BY <2>1, <2>2 DEF AskInv, Unasked
<1>2. Inv /\ AskInv /\ [Next]_vars => AskInv'
  BY NextAsk
<1>3. Inv /\ AskInv => WaitersAreServed
  <2> SUFFICES ASSUME Inv, AskInv, NEW n \in Slots, event[n].asked
      PROVE  /\ event[n].kevent # "none"
             /\ \/ /\ event[n].status = "Waiting"
                   /\ \E k \in DOMAIN action_storage :
                        action_storage[k].slot = n /\ action_storage[k].node = Handle(n)
                \/ \E i \in Incrementers : inc[i].pc = "signal" /\ inc[i].slot = n
    BY DEF WaitersAreServed, WaitIsServed, Inv
  <2>1. event[n].registered /\ (Waits(n) \/ Signals(n))
    BY DEF AskInv
  <2>2. event[n].kevent # "none"
    BY <2>1 DEF Inv, EventInv
  <2>3. Waits(n) => /\ event[n].status = "Waiting"
                    /\ \E k \in 1..Len(action_storage) :
                         action_storage[k].slot = n /\ action_storage[k].node = Handle(n)
    BY DEF Inv, WaitInv, Waits
  <2>4. DOMAIN action_storage = 1..Len(action_storage)
    BY ListTypes DEF Inv
  <2> QED
    BY <2>1, <2>2, <2>3, <2>4 DEF Signals
<1> QED
  BY <1>1, <1>2, <1>3, Invariant, PTL DEF Spec
=============================================================================
