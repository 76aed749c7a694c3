--------------------------- MODULE ServerManager ---------------------------
(***************************************************************************)
(* ServerManager: the host threads that serve an HLE service's session.    *)
(* They take turns, under m_selection_mutex, at waiting for the linked     *)
(* holders, and process what they select in parallel.  A holder that is to *)
(* be waited for again goes to the deferred list, and the wakeup event     *)
(* tells the thread that waits to link it.                                 *)
(*                                                                         *)
(* Two kinds of server exist: those with several threads, and sm, with one *)
(* thread, whose handler defers a request for a service that is not        *)
(* registered yet until the deferral event is signaled.                    *)
(***************************************************************************)
EXTENDS KSession, SequencesExt

CONSTANTS Deployments  \* threads: the server's threads, deferral: whether it is sm,
                       \* sync, async: the clients that send such requests,
                       \* mortal: the clients that may be terminated

ASSUME DeploymentsAssumption ==
  /\ Deployments \subseteq [threads: SUBSET Servers, deferral: BOOLEAN,
                            sync: SUBSET Clients, async: SUBSET Clients, mortal: SUBSET Clients]
  /\ \A d \in Deployments : d.deferral => Cardinality(d.threads) = 1

VARIABLES
  deployment,           \* the server that runs, and its clients
  m_multi_wait,         \* the holders that are waited for, in order
  m_deferred_list,      \* the holders that are to be linked
  m_deferred_sessions,  \* whether the session waits for the deferral event
  m_selection_mutex,    \* its holder
  signaled,             \* the events that are signaled: "wakeup", "deferral"
  stop,                 \* m_stop_source
  registered,           \* whether the service that requests ask sm for exists
  owner                 \* where the manager's destructor is

environment == <<deployment, stop, registered, owner>>

managerVars == <<m_multi_wait, m_deferred_list, m_deferred_sessions, m_selection_mutex,
                 signaled, environment>>

vars == <<sessionVars, server, wait, managerVars>>

\* The constructor, ManageDeferral for sm, and RegisterSession.
Init ==
  /\ SessionInit
  /\ deployment \in Deployments
  /\ server = [s \in Servers |-> [pc |-> IF s \in deployment.threads THEN "loop" ELSE "stopped",
                                  request |-> None, close |-> FALSE, retry |-> FALSE]]
  /\ wait = [s \in Servers |-> [on |-> <<>>, got |-> "none"]]
  /\ m_multi_wait = <<>>
  /\ m_deferred_list = IF deployment.deferral THEN <<"wakeup", "deferral", "session">>
                                              ELSE <<"wakeup", "session">>
  /\ m_deferred_sessions = FALSE
  /\ m_selection_mutex = None
  /\ signaled = {"wakeup"}
  /\ stop = FALSE
  /\ registered = ~deployment.deferral
  /\ owner = "run"

\* Whether a holder's object is signaled.
HolderSignaled(h) ==
  IF h = "session" THEN IsSignaled(m_state, m_request_list, m_current_request) ELSE h \in signaled

Goto(s, label) == server' = [server EXCEPT ![s].pc = label]

----------------------------------------------------------------------------
(* WaitSignaled                                                            *)

\* LoopProcessImpl stops, or goes on to take m_selection_mutex; WaitSignaled
\* asks again whether to stop.
Loop(s) ==
  /\ server[s].pc = "loop"
  /\ \/ /\ stop
        /\ Goto(s, "stopped")
        /\ UNCHANGED m_selection_mutex
     \/ /\ ~stop /\ m_selection_mutex = None
        /\ m_selection_mutex' = s
        /\ Goto(s, "link")
  /\ UNCHANGED <<sessionVars, wait, m_multi_wait, m_deferred_list, m_deferred_sessions, signaled, environment>>

\* LinkDeferred, and the return before waiting.
LinkDeferred(s) ==
  /\ server[s].pc = "link"
  /\ m_multi_wait' = m_multi_wait \o m_deferred_list
  /\ m_deferred_list' = <<>>
  /\ m_selection_mutex' = IF stop THEN None ELSE m_selection_mutex
  /\ Goto(s, IF stop THEN "loop" ELSE "wait")
  /\ UNCHANGED <<sessionVars, wait, m_deferred_sessions, signaled, environment>>

\* MultiWait::WaitAny: the first signaled object, or a wait for them all.
WaitAny(s) ==
  /\ server[s].pc = "wait"
  /\ LET ready == {i \in DOMAIN m_multi_wait : HolderSignaled(m_multi_wait[i])} IN
     wait' = [wait EXCEPT ![s] =
                IF ready = {} THEN [on |-> m_multi_wait, got |-> "none"]
                ELSE [on |-> <<>>,
                      got |-> m_multi_wait[CHOOSE i \in ready : \A j \in ready : i <= j]]]
  /\ Goto(s, "selected")
  /\ UNCHANGED <<sessionVars, managerVars>>

\* Woken by the wakeup event: clear it and link again.
Woken(s) ==
  /\ server[s].pc = "selected" /\ wait[s].on = <<>> /\ wait[s].got = "wakeup"
  /\ signaled' = signaled \ {"wakeup"}
  /\ Goto(s, "link")
  /\ UNCHANGED <<sessionVars, wait, m_multi_wait, m_deferred_list, m_deferred_sessions, m_selection_mutex, environment>>

\* Mutant: the selected holder stays linked.
SelectLinked(s) ==
  /\ server[s].pc = "selected" /\ wait[s].on = <<>> /\ wait[s].got # "wakeup"
  /\ m_selection_mutex' = None
  /\ Goto(s, IF wait[s].got = "session" THEN "receive" ELSE "deferral")
  /\ UNCHANGED <<sessionVars, wait, m_multi_wait, m_deferred_list, m_deferred_sessions, signaled, environment>>

\* Any other holder is unlinked, and processed without the mutex.
Select(s) ==
  /\ server[s].pc = "selected" /\ wait[s].on = <<>> /\ wait[s].got # "wakeup"
  /\ m_multi_wait' = RemoveAt(m_multi_wait, CHOOSE i \in DOMAIN m_multi_wait : m_multi_wait[i] = wait[s].got)
  /\ m_selection_mutex' = None
  /\ Goto(s, IF wait[s].got = "session" THEN "receive" ELSE "deferral")
  /\ UNCHANGED <<sessionVars, wait, m_deferred_list, m_deferred_sessions, signaled, environment>>

----------------------------------------------------------------------------
(* OnSessionEvent, CompleteSyncRequest, OnDeferralEvent                    *)

\* The handler: a request is answered or deferred, and Close closes the session.
HandleSyncRequest(s) ==
  /\ server[s].pc = "handle"
  /\ \/ server' = [server EXCEPT ![s].pc = IF registered THEN "reply" ELSE "defer", ![s].retry = FALSE]
     \/ ~server[s].retry /\ server' = [server EXCEPT ![s].pc = "reply", ![s].close = TRUE]
  /\ UNCHANGED <<sessionVars, wait, managerVars>>

\* A deferred session is kept for the deferral event.
Defer(s) ==
  /\ server[s].pc = "defer"
  /\ m_deferred_sessions' = TRUE
  /\ Goto(s, "loop")
  /\ UNCHANGED <<sessionVars, wait, m_multi_wait, m_deferred_list, m_selection_mutex, signaled, environment>>

\* LinkToDeferredList: the holder of the session, after its reply, or of the
\* deferral event is linked ...
LinkToDeferredList(s) ==
  /\ server[s].pc \in {"replied", "relink"} /\ ~server[s].close
  /\ m_deferred_list' = Append(m_deferred_list, IF server[s].pc = "relink" THEN "deferral" ELSE "session")
  /\ Goto(s, "signal")
  /\ UNCHANGED <<sessionVars, wait, m_multi_wait, m_deferred_sessions, m_selection_mutex, signaled, environment>>

\* ... and the wakeup event signaled.
SignalWakeup(s) ==
  /\ server[s].pc = "signal"
  /\ signaled' = signaled \cup {"wakeup"}
  /\ wait' = Notify("wakeup")
  /\ Goto(s, IF server[s].retry THEN "handle" ELSE "loop")
  /\ UNCHANGED <<sessionVars, m_multi_wait, m_deferred_list, m_deferred_sessions, m_selection_mutex, environment>>

\* DestroySession, by the thread that found the session closed.
DestroySession(s) ==
  \/ /\ server[s].pc = "closed" \/ (server[s].pc = "replied" /\ server[s].close)
     /\ destroyer' = [destroyer EXCEPT !.pc = "check"]
     /\ server' = [server EXCEPT ![s].pc = "destroying", ![s].close = FALSE]
     /\ UNCHANGED <<m_state, m_lock, m_request_list, m_current_request, request, client, handle, closer, wait, managerVars>>
  \/ /\ server[s].pc = "destroying" /\ destroyer.pc = "done"
     /\ Goto(s, "loop")
     /\ UNCHANGED <<sessionVars, wait, managerVars>>

\* OnDeferralEvent: the event is cleared ...
ClearDeferral(s) ==
  /\ server[s].pc = "deferral"
  /\ signaled' = signaled \ {"deferral"}
  /\ Goto(s, "grab")
  /\ UNCHANGED <<sessionVars, wait, m_multi_wait, m_deferred_list, m_deferred_sessions, m_selection_mutex, environment>>

\* ... before the sessions are taken, to complete their requests again.
GrabDeferrals(s) ==
  /\ server[s].pc = "grab"
  /\ m_deferred_sessions' = FALSE
  /\ server' = [server EXCEPT ![s].pc = "relink", ![s].retry = m_deferred_sessions]
  /\ UNCHANGED <<sessionVars, wait, m_multi_wait, m_deferred_list, m_selection_mutex, signaled, environment>>

----------------------------------------------------------------------------
(* The environment of the server.                                          *)

\* ServiceManager::RegisterService
RegisterService ==
  /\ ~registered
  /\ registered' = TRUE
  /\ signaled' = signaled \cup {"deferral"}
  /\ wait' = Notify("deferral")
  /\ UNCHANGED <<sessionVars, server, deployment, m_multi_wait, m_deferred_list, m_deferred_sessions, m_selection_mutex, stop, owner>>

\* ~ServerManager: stop ...
RequestStop ==
  /\ owner = "run"
  /\ stop' = TRUE
  /\ owner' = "signal"
  /\ UNCHANGED <<sessionVars, server, wait, deployment, m_multi_wait, m_deferred_list, m_deferred_sessions, m_selection_mutex, signaled, registered>>

\* Mutant: the destructor does not wake the thread that waits.
OwnerSignalNot ==
  /\ owner = "signal"
  /\ owner' = "join"
  /\ UNCHANGED <<sessionVars, server, wait, m_multi_wait, m_deferred_list, m_deferred_sessions, m_selection_mutex, signaled, deployment, stop, registered>>

\* ... wake the thread that waits ...
OwnerSignal ==
  /\ owner = "signal"
  /\ signaled' = signaled \cup {"wakeup"}
  /\ wait' = Notify("wakeup")
  /\ owner' = "join"
  /\ UNCHANGED <<sessionVars, server, m_multi_wait, m_deferred_list, m_deferred_sessions, m_selection_mutex, deployment, stop, registered>>

\* ... join the threads, and delete the session if it is still there.
OwnerJoin ==
  /\ \/ /\ owner = "join" /\ \A s \in Servers : server[s].pc = "stopped"
        /\ owner' = "destroy"
        /\ destroyer' = [destroyer EXCEPT !.pc = IF @ = "idle" THEN "check" ELSE @]
     \/ /\ owner = "destroy" /\ destroyer.pc = "done"
        /\ owner' = "done"
        /\ UNCHANGED destroyer
  /\ UNCHANGED <<m_state, m_lock, m_request_list, m_current_request, request, client, handle, closer, server, wait,
                 m_multi_wait, m_deferred_list, m_deferred_sessions, m_selection_mutex, signaled, deployment, stop, registered>>

----------------------------------------------------------------------------
\* What a client thread does in the kernel once it has made a call.
ClientStep(c) == (OnRequest(c) \/ Return(c)) /\ UNCHANGED managerVars

\* What a client, or who ends it, is free to do.
ClientChoice(c) ==
  /\ \/ c \in deployment.sync /\ SendRequest(c, FALSE)
     \/ c \in deployment.async /\ SendRequest(c, TRUE)
     \/ c \in deployment.mortal /\ RequestTerminate(c)
  /\ UNCHANGED managerVars

CloserStep ==
  /\ CloserCheck \/ CloserSet \/ CloserLock \/ CloserCurrent \/ CloserPending \/ CloserEnd
  /\ UNCHANGED managerVars

DestroyerStep ==
  /\ DestroyerCheck \/ DestroyerSet \/ DestroyerLock \/ DestroyerTake \/ DestroyerReply
  /\ UNCHANGED managerVars

ServerStep(s) ==
  \/ Loop(s) \/ LinkDeferred(s) \/ WaitAny(s) \/ Woken(s) \/ Select(s)
  \/ HandleSyncRequest(s) \/ Defer(s) \/ LinkToDeferredList(s) \/ SignalWakeup(s) \/ DestroySession(s)
  \/ ClearDeferral(s) \/ GrabDeferrals(s)
  \/ /\ LockSession(s) \/ ReceivePop(s) \/ ReceiveSetCurrent(s) \/ ReplyTake(s) \/ ReplyAnswer(s)
     /\ UNCHANGED managerVars

Next ==
  \/ \E c \in Clients : ClientStep(c) \/ ClientChoice(c)
  \/ CloseHandle /\ UNCHANGED managerVars
  \/ CloserStep
  \/ DestroyerStep
  \/ \E s \in Servers : ServerStep(s)
  \/ RegisterService
  \/ RequestStop
  \/ OwnerSignal \/ OwnerJoin

Spec == Init /\ [][Next]_vars

\* Threads in the kernel and in the manager run on; clients make calls, are
\* terminated and close their handle, services are registered and the system
\* shut down as they please.
FairSpec ==
  /\ Spec
  /\ \A c \in Clients : WF_vars(ClientStep(c))
  /\ \A s \in Servers : WF_vars(ServerStep(s))
  /\ WF_vars(CloserStep) /\ WF_vars(DestroyerStep) /\ WF_vars(OwnerSignal \/ OwnerJoin)

----------------------------------------------------------------------------
(* Properties                                                              *)

\* The places in the kernel that own a reference to request r.
KernelReferences(r) ==
  Cardinality({i \in DOMAIN m_request_list : m_request_list[i] = r})
  + (IF m_current_request = r THEN 1 ELSE 0)
  + (IF destroyer.request = r THEN 1 ELSE 0)
  + Cardinality({s \in Servers : server[s].request = r})

\* Every request has as many references as there are owners of it: the call
\* that made it, and one place of the session.  None is used after the last
\* Close or left in the slab, however terminations, closing and replies race.
RequestsAreAccounted ==
  \A r \in Requests :
    /\ KernelReferences(r) <= 1
    /\ request[r].refs = KernelReferences(r) + Cardinality({c \in Clients : client[c].request = r})

\* A synchronous call that waits, and an event that is to be signaled, has its
\* request in the session, and a request of a thread that is not terminating
\* has its caller: nobody is forgotten when the client closes, the server
\* closes or a call is cancelled, and no reply ends another wait.
NobodyIsForgotten ==
  \A c \in Clients : ~client[c].terminating =>
    LET own == {r \in Requests : request[r].thread = c /\ KernelReferences(r) = 1} IN
    /\ client[c].pc = "wait" <=> \E r \in own : ~request[r].event
    /\ client[c].event <=> \E r \in own : request[r].event
    /\ \A r \in own : ~request[r].event => client[c].request = r

\* What the manager asserts: a session it selected has a request or is closed,
\* one it handles has a current request (R_ASSERT), and a holder is in one
\* list at a time (LinkToMultiWait).  And OnClientClosed's: the current request
\* has a thread.
AssertionsHold ==
  /\ \A s \in Servers : server[s].pc \notin {"NotFound", "InvalidState"}
  /\ Cardinality(Members(m_multi_wait \o m_deferred_list)) = Len(m_multi_wait \o m_deferred_list)
  /\ (closer.pc = "clean" /\ m_current_request \notin {None, closer.prev})
       => request[m_current_request].thread # None

\* A thread is never blocked on an object that is signaled (but for a client
\* that is closing and will notify), nor while a holder is left to link
\* that nobody will wake it for.
NoMissedSignal ==
  \A s \in Servers : wait[s].on # <<>> =>
    /\ \A h \in Members(wait[s].on) : HolderSignaled(h) => h = "session" /\ closer.pc \in {"lock", "clean"}
    /\ m_deferred_list # <<>> => \E t \in Servers : server[t].pc = "signal"

\* A call returns once the service it asks for is registered or the system
\* shut down, and so is the event of an asynchronous request signaled.
CallsReturn ==
  \A c \in Clients :
    /\ (client[c].pc = "wait" /\ (registered \/ stop)) ~> (client[c].pc # "wait")
    /\ (client[c].event /\ (registered \/ stop)) ~> (~client[c].event \/ client[c].terminating)

\* Shutting down ends: every thread of the manager stops and the session goes.
ShutdownCompletes == stop ~> (owner = "done")
=============================================================================
