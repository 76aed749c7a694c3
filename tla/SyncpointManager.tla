-------------------------- MODULE SyncpointManager --------------------------
(***************************************************************************)
(* Host1x's SyncpointManager, for one host syncpoint: a counter that is    *)
(* incremented without a lock, and under guard the actions to run and the  *)
(* threads to wake when it reaches a value.  What an action does is the    *)
(* business of the module that extends this one: an incrementer that is to *)
(* run one waits at "action" until it is at "ran".                         *)
(***************************************************************************)
EXTENDS Naturals, Sequences, FiniteSets, SequencesExt

CONSTANTS Incrementers,  \* the threads of the GPU that increment the syncpoint
          MaxValue,      \* bound: the increments that are made
          None

ASSUME MaxValueAssumption == MaxValue \in Nat

VARIABLES
  syncpoint,       \* syncpoints_host[id]
  guard,           \* the holder of the mutex
  action_storage,  \* the registered actions: expected_value, slot, and the node's address
  inc              \* inc[i]: where thread i is in Increment, its new_value, its action's slot

syncpointVars == <<syncpoint, guard, action_storage, inc>>

SyncpointInit ==
  /\ syncpoint = 0
  /\ guard = None
  /\ action_storage = <<>>
  /\ inc = [i \in Incrementers |-> [pc |-> "idle", new_value |-> 0, slot |-> None]]

\* The counter is incremented before guard is taken.
FetchAdd(i) ==
  /\ inc[i].pc = "idle" /\ syncpoint < MaxValue
  /\ syncpoint' = syncpoint + 1
  /\ inc' = [inc EXCEPT ![i] = [@ EXCEPT !.pc = "lock", !.new_value = syncpoint + 1]]
  /\ UNCHANGED <<guard, action_storage>>

LockGuard(i) ==
  /\ inc[i].pc = "lock" /\ guard = None
  /\ guard' = i
  /\ inc' = [inc EXCEPT ![i].pc = "scan"]
  /\ UNCHANGED <<syncpoint, action_storage>>

Due(i) == action_storage # <<>> /\ Head(action_storage).expected_value <= inc[i].new_value

\* The first action is run if the new value has reached it ...
ScanDue(i) ==
  /\ inc[i].pc = "scan" /\ Due(i)
  /\ inc' = [inc EXCEPT ![i] = [@ EXCEPT !.pc = "action", !.slot = Head(action_storage).slot]]
  /\ UNCHANGED <<syncpoint, guard, action_storage>>

\* ... and erased once it has run.
EraseAction(i) ==
  /\ inc[i].pc = "ran"
  /\ action_storage' = Tail(action_storage)
  /\ inc' = [inc EXCEPT ![i] = [@ EXCEPT !.pc = "scan", !.slot = None]]
  /\ UNCHANGED <<syncpoint, guard>>

\* At the first action that is not due, the waiting threads are notified.
EndIncrement(i) ==
  /\ inc[i].pc = "scan" /\ ~Due(i)
  /\ guard' = None
  /\ inc' = [inc EXCEPT ![i] = [@ EXCEPT !.pc = "idle", !.new_value = 0]]
  /\ UNCHANGED <<syncpoint, action_storage>>

\* The addresses a new node may have: memory that was freed is used again.
FreeNodes == {n \in 1..(Len(action_storage) + 1) :
                \A k \in DOMAIN action_storage : action_storage[k].node # n}

\* RegisterAction's insertion: before the first action of at least its value.
InsertAction(a) ==
  LET later == {k \in DOMAIN action_storage : action_storage[k].expected_value >= a.expected_value}
  IN InsertAt(action_storage, Min(later \cup {Len(action_storage) + 1}), a)

\* DeregisterAction: the action of the handle, if it is still there.
EraseHandle(handle) ==
  LET found == {k \in DOMAIN action_storage : action_storage[k].node = handle}
  IN IF found = {} THEN action_storage ELSE RemoveAt(action_storage, CHOOSE k \in found : TRUE)

\* A reached action is going to be run: an action whose value the syncpoint
\* has reached is in the list only while a thread that will see it is in
\* Increment, wherever RegisterAction's two reads of the counter fell.
NoStrandedAction ==
  \A k \in DOMAIN action_storage :
    /\ action_storage[k].expected_value <= syncpoint =>
         \E i \in Incrementers : inc[i].pc # "idle" /\ inc[i].new_value >= action_storage[k].expected_value
    /\ k > 1 => action_storage[k - 1].expected_value <= action_storage[k].expected_value
=============================================================================
