--------------------------- MODULE KPriorityQueue ---------------------------
(***************************************************************************)
(* The kernel's priority queue (k_priority_queue.h): for every core the    *)
(* threads scheduled on it and the threads suggested for it, each a FIFO   *)
(* per priority.  A core's queues are one sequence here, ordered by        *)
(* priority and first-in first-out among equals; a smaller number is a     *)
(* higher priority.                                                        *)
(*                                                                         *)
(* Every operator works on a record q with the fields scheduled and        *)
(* suggested (the queues), active_core, affinity and priority (what the    *)
(* queue asks of its members).  The active core NoCore is -1 in the code.  *)
(***************************************************************************)
EXTENDS Integers, Sequences, FiniteSets, SequencesExt, FiniteSetsExt

CONSTANTS Threads,      \* the members of the queue
          NumCores,     \* Core::Hardware::NUM_CPU_CORES
          NoThread      \* nullptr

ASSUME NumCoresAssumption == NumCores \in Nat \ {0}
ASSUME NoThreadAssumption == NoThread \notin Threads

Cores == 0 .. NumCores - 1

NoCore == -1

(***************************************************************************)
(* KPriorityQueueImpl.                                                     *)
(***************************************************************************)
\* Before the first of the positions, at the end if there is none.
InsertBefore(queue, positions, t) == InsertAt(queue, Min(positions \cup {Len(queue) + 1}), t)

\* Behind the threads of the same priority, before those of a lower one.
InsertBack(queue, t, priority) ==
  InsertBefore(queue, {i \in 1 .. Len(queue) : priority[queue[i]] > priority[t]}, t)

InsertFront(queue, t, priority) ==
  InsertBefore(queue, {i \in 1 .. Len(queue) : priority[queue[i]] >= priority[t]}, t)

\* The first member that is one of ts: where a loop over a queue stops.
FirstOf(queue, ts) ==
  LET found == {i \in 1 .. Len(queue) : queue[i] \in ts}
  IN  IF found = {} THEN NoThread ELSE queue[Min(found)]

GetFront(queue) == IF queue = <<>> THEN NoThread ELSE Head(queue)

GetFrontAt(queue, priority, p) == FirstOf(queue, {x \in Threads : priority[x] = p})

GetNext(queue, t) ==
  LET after == {i \in 2 .. Len(queue) : queue[i - 1] = t}
  IN  IF after = {} THEN NoThread ELSE queue[Min(after)]

(***************************************************************************)
(* KPriorityQueue.                                                         *)
(***************************************************************************)
\* The cores that t is suggested for.
SuggestedCores(q, t) == q.affinity[t] \ {q.active_core[t]}

GetScheduledFront(q, c) == IF c = NoCore THEN NoThread ELSE GetFront(q.scheduled[c])

\* t enters the queues of some cores, or leaves them.
EnterBack(queues, cores, t, priority) ==
  [c \in Cores |-> IF c \in cores THEN InsertBack(queues[c], t, priority) ELSE queues[c]]

EnterFront(queues, cores, t, priority) ==
  [c \in Cores |-> IF c \in cores THEN InsertFront(queues[c], t, priority) ELSE queues[c]]

Leave(queues, cores, t) ==
  [c \in Cores |-> IF c \in cores THEN RemoveFirst(queues[c], t) ELSE queues[c]]

PushBack(q, t) ==
  [q EXCEPT !.scheduled = EnterBack(@, {q.active_core[t]}, t, q.priority),
            !.suggested = EnterBack(@, SuggestedCores(q, t), t, q.priority)]

\* Only the scheduled queue is entered at the front.
PushFront(q, t) ==
  [q EXCEPT !.scheduled = EnterFront(@, {q.active_core[t]}, t, q.priority),
            !.suggested = EnterBack(@, SuggestedCores(q, t), t, q.priority)]

RemoveMember(q, t) ==
  [q EXCEPT !.scheduled = Leave(@, {q.active_core[t]}, t),
            !.suggested = Leave(@, SuggestedCores(q, t), t)]

\* MoveToScheduledBack returns the front of the thread's priority afterwards.
MoveToScheduledBack(q, t) ==
  LET core == {q.active_core[t]}
  IN  [q EXCEPT !.scheduled = EnterBack(Leave(@, core, t), core, t, q.priority)]

FrontOfPriority(q, t) == GetFrontAt(q.scheduled[q.active_core[t]], q.priority, q.priority[t])

\* ChangePriority: a running member stays in front of its new priority.
ChangePriority(q, t, p, is_running) ==
  LET moved == [RemoveMember(q, t) EXCEPT !.priority[t] = p]
  IN  IF is_running THEN PushFront(moved, t) ELSE PushBack(moved, t)

\* Mutant: the queues of the previous mask are computed from the new one.
ChangeAffinityMaskLate(q, t, mask, core) ==
  PushBack(RemoveMember([q EXCEPT !.affinity[t] = mask, !.active_core[t] = core], t), t)

ChangeAffinityMask(q, t, mask, core) ==
  PushBack([RemoveMember(q, t) EXCEPT !.affinity[t] = mask, !.active_core[t] = core], t)

\* SetActiveCore and ChangeCore: from the suggestions of the new core into its
\* scheduled queue, and from the previous core's queue into its suggestions.
ChangeCore(q, t, core, to_front) ==
  LET prev == q.active_core[t]
      left == Leave(q.scheduled, {prev}, t)
  IN  IF prev = core THEN q
      ELSE [q EXCEPT !.active_core[t] = core,
                     !.scheduled = IF to_front THEN EnterFront(left, {core}, t, q.priority)
                                               ELSE EnterBack(left, {core}, t, q.priority),
                     !.suggested = EnterBack(Leave(@, {core}, t), {prev}, t, q.priority)]
=============================================================================
