------------------------------ MODULE KSession ------------------------------
(***************************************************************************)
(* One IPC session: KSession, its KClientSession and KServerSession, and   *)
(* the KSessionRequests that travel through it.  Client threads send       *)
(* requests, server threads (those of the module that extends this one)    *)
(* receive them and reply; a client thread may be terminated in its call,  *)
(* the client side is closed when its last reference goes, and the server  *)
(* side is destroyed by its owner.                                         *)
(*                                                                         *)
(* A critical section of the scheduler lock is one step.  m_lock, the      *)
(* server session's light lock, is held across steps.  m_atomic_state is   *)
(* read and written outside of both.                                       *)
(***************************************************************************)
EXTENDS Naturals, Sequences, FiniteSets

CONSTANTS Clients,   \* threads of the client's process
          Servers,   \* threads that serve the session
          Requests,  \* the slab heap of KSessionRequest
          None

ASSUME SessionAssumption == IsFiniteSet(Clients) /\ IsFiniteSet(Requests)
ASSUME NoneAssumption == None \notin Clients \cup Servers \cup Requests
ASSUME LockAssumption == {"closer", "destroyer"} \cap (Servers \cup {None}) = {}

VARIABLES
  m_state,            \* KSession::m_atomic_state
  m_lock,             \* the holder of KServerSession::m_lock
  m_request_list,
  m_current_request,
  request,            \* request[r]: m_thread, whether it has an m_event, references
  client,             \* client[c]: where the thread is, the request it sent, whether
                      \*   it is terminating, whether it has an event not signaled yet
  handle,             \* whether the client's handle is open
  closer,             \* the thread in KClientSession::Destroy, and its prev_request
  destroyer,          \* the thread in KServerSession::Destroy, and its request
  server,             \* server[s]: where the thread is, and its local variables
  wait                \* wait[s]: the objects s is blocked on; the object it was woken by

sessionVars == <<m_state, m_lock, m_request_list, m_current_request, request, client,
                 handle, closer, destroyer>>

FreeRequest == [thread |-> None, event |-> FALSE, refs |-> 0]

SessionInit ==
  /\ m_state = "Normal"
  /\ m_lock = None
  /\ m_request_list = <<>>
  /\ m_current_request = None
  /\ request = [r \in Requests |-> FreeRequest]
  /\ client = [c \in Clients |-> [pc |-> "user", request |-> None, terminating |-> FALSE,
                                  event |-> FALSE]]
  /\ handle = TRUE
  /\ closer = [pc |-> "idle", prev |-> None]
  /\ destroyer = [pc |-> "idle", request |-> None]

Members(seq) == {seq[i] : i \in DOMAIN seq}

----------------------------------------------------------------------------
(* Requests, and the waits of both sides.                                  *)

\* KSessionRequest::Close; the last reference finalizes and frees it.
Close(req, r) ==
  [req EXCEPT ![r] = IF req[r].refs = 1 THEN FreeRequest ELSE [req[r] EXCEPT !.refs = @ - 1]]

\* Mutant: a reply to a closed session forgets the event.
CompleteOpen(r) ==
  LET c == request[r].thread IN
  IF c = None \/ m_state # "Normal" THEN client
  ELSE IF request[r].event THEN [client EXCEPT ![c].event = FALSE]
  ELSE IF client[c].terminating \/ client[c].pc # "wait" THEN client
  ELSE [client EXCEPT ![c].pc = "return"]

\* The end of a request for its client: the event is signaled, or the wait
\* of a thread that is not terminating is ended.
Complete(r) ==
  LET c == request[r].thread IN
  IF c = None THEN client
  ELSE IF request[r].event THEN [client EXCEPT ![c].event = FALSE]
  ELSE IF client[c].terminating \/ client[c].pc # "wait" THEN client
  ELSE [client EXCEPT ![c].pc = "return"]

\* KServerSession::IsSignaled, for given values of what it reads.
IsSignaled(state, list, current) ==
  state # "Normal" \/ (list # <<>> /\ current = None)

\* A signaled object ends the waits for it.
Notify(object) ==
  [s \in Servers |-> IF object \in Members(wait[s].on) THEN [on |-> <<>>, got |-> object]
                     ELSE wait[s]]

\* KSynchronizationObject::NotifyAvailable of the server session.
NotifyAvailable(state, list, current) ==
  wait' = IF IsSignaled(state, list, current) THEN Notify("session") ELSE wait

----------------------------------------------------------------------------
(* The client's threads.                                                   *)

InCall(c) == client[c].pc \in {"send", "wait", "return"}

\* svc SendSyncRequest, SendAsyncRequestWithUserBuffer: the handle gives a
\* reference to the client session, and a request is created.
SendRequest(c, async) ==
  /\ client[c].pc = "user" /\ handle
  /\ async => ~client[c].event  \* bound: a thread has one event at a time
  /\ \E r \in Requests : request[r].refs = 0
  /\ LET r == CHOOSE q \in Requests : request[q].refs = 0 IN
       /\ request' = [request EXCEPT ![r] = [thread |-> c, event |-> async, refs |-> 1]]
       /\ client' = [client EXCEPT ![c].pc = "send", ![c].request = r]
  /\ UNCHANGED <<m_state, m_lock, m_request_list, m_current_request, handle, closer, destroyer, server, wait>>

\* Mutant: the session is asked whether it is closed before the lock is taken.
OnRequestUnchecked(c) ==
  LET r == client[c].request IN
  /\ client[c].pc = "send"
  /\ request' = [request EXCEPT ![r].refs = @ + 1]
  /\ m_request_list' = Append(m_request_list, r)
  /\ IF m_request_list = <<>> THEN NotifyAvailable(m_state, m_request_list', m_current_request)
                              ELSE UNCHANGED wait
  /\ client' = IF request[r].event THEN [client EXCEPT ![c].pc = "return", ![c].event = TRUE]
                                   ELSE [client EXCEPT ![c].pc = "wait"]
  /\ UNCHANGED <<m_state, m_lock, m_current_request, handle, closer, destroyer, server>>

\* KServerSession::OnRequest
OnRequest(c) ==
  LET r == client[c].request IN
  /\ client[c].pc = "send"
  /\ IF m_state # "Normal" \/ client[c].terminating
     THEN /\ client' = [client EXCEPT ![c].pc = "return"]
          /\ UNCHANGED <<m_request_list, request, wait>>
     ELSE /\ request' = [request EXCEPT ![r].refs = @ + 1]
          /\ m_request_list' = Append(m_request_list, r)
          /\ IF m_request_list = <<>> THEN NotifyAvailable(m_state, m_request_list', m_current_request)
                                      ELSE UNCHANGED wait
          /\ client' = IF request[r].event THEN [client EXCEPT ![c].pc = "return", ![c].event = TRUE]
                                           ELSE [client EXCEPT ![c].pc = "wait"]
  /\ UNCHANGED <<m_state, m_lock, m_current_request, handle, closer, destroyer, server>>

\* The call ends: the request is closed, then the client session, whose last
\* reference destroys it.
Return(c) ==
  /\ client[c].pc = "return"
  /\ request' = Close(request, client[c].request)
  /\ client' = [client EXCEPT ![c].pc = IF client[c].terminating THEN "dead" ELSE "user",
                              ![c].request = None]
  /\ closer' = [closer EXCEPT !.pc = IF ~handle /\ \A d \in Clients \ {c} : ~InCall(d) THEN "check" ELSE @]
  /\ UNCHANGED <<m_state, m_lock, m_request_list, m_current_request, handle, destroyer, server, wait>>

\* KThread::RequestTerminate: a wait is cancelled, whatever becomes of the request.
RequestTerminate(c) ==
  /\ ~client[c].terminating
  /\ client' = [client EXCEPT ![c].terminating = TRUE,
                              ![c].pc = CASE @ = "wait" -> "return"
                                          [] @ = "user" -> "dead"
                                          [] OTHER -> @]
  /\ UNCHANGED <<m_state, m_lock, m_request_list, m_current_request, request, handle, closer, destroyer, server, wait>>

\* The handle is closed, by any thread of the process or as the process ends.
CloseHandle ==
  /\ handle
  /\ handle' = FALSE
  /\ closer' = [closer EXCEPT !.pc = IF \A c \in Clients : ~InCall(c) THEN "check" ELSE @]
  /\ UNCHANGED <<m_state, m_lock, m_request_list, m_current_request, request, client, destroyer, server, wait>>

----------------------------------------------------------------------------
(* KClientSession::Destroy: KSession::OnClientClosed, then                 *)
(* KServerSession::OnClientClosed.                                         *)

CloserUnchanged == UNCHANGED <<handle, destroyer, server>>

\* KSession::OnClientClosed reads the state ...
CloserCheck ==
  /\ closer.pc = "check"
  /\ closer' = [closer EXCEPT !.pc = IF m_state = "Normal" THEN "set" ELSE "done"]
  /\ UNCHANGED <<m_state, m_lock, m_request_list, m_current_request, request, client, wait>> /\ CloserUnchanged

\* ... and writes it, in two steps.
CloserSet ==
  /\ closer.pc = "set"
  /\ m_state' = "ClientClosed"
  /\ closer' = [closer EXCEPT !.pc = "lock"]
  /\ UNCHANGED <<m_lock, m_request_list, m_current_request, request, client, wait>> /\ CloserUnchanged

CloserLock ==
  /\ closer.pc = "lock" /\ m_lock = None
  /\ m_lock' = "closer"
  /\ closer' = [closer EXCEPT !.pc = "clean"]
  /\ UNCHANGED <<m_state, m_request_list, m_current_request, request, client, wait>> /\ CloserUnchanged

\* An iteration that sees the current request: it stays with the server, but
\* forgets a client that is terminating.
CloserCurrent ==
  LET r == m_current_request IN
  /\ closer.pc = "clean" /\ r # None /\ r # closer.prev
  /\ request' = IF client[request[r].thread].terminating
                THEN [request EXCEPT ![r].thread = None, ![r].event = FALSE] ELSE request
  /\ closer' = [closer EXCEPT !.prev = r]
  /\ UNCHANGED <<m_state, m_lock, m_request_list, m_current_request, client, wait>> /\ CloserUnchanged

\* An iteration that pops a request: only an event is told.
CloserPending ==
  LET r == Head(m_request_list)
      c == request[r].thread
  IN
  /\ closer.pc = "clean" /\ m_current_request \in {None, closer.prev} /\ m_request_list # <<>>
  /\ m_request_list' = Tail(m_request_list)
  /\ client' = IF request[r].event THEN [client EXCEPT ![c].event = FALSE] ELSE client
  /\ request' = Close(request, r)
  /\ UNCHANGED <<m_state, m_lock, m_current_request, closer, wait>> /\ CloserUnchanged

\* Mutant: the server is not told that its client closed.
CloserEndSilently ==
  /\ closer.pc = "clean" /\ m_current_request \in {None, closer.prev} /\ m_request_list = <<>>
  /\ m_lock' = None
  /\ closer' = [closer EXCEPT !.pc = "done"]
  /\ UNCHANGED <<m_state, m_request_list, m_current_request, request, client, wait>> /\ CloserUnchanged

\* No request is left: the server is notified.
CloserEnd ==
  /\ closer.pc = "clean" /\ m_current_request \in {None, closer.prev} /\ m_request_list = <<>>
  /\ NotifyAvailable(m_state, m_request_list, m_current_request)
  /\ m_lock' = None
  /\ closer' = [closer EXCEPT !.pc = "done"]
  /\ UNCHANGED <<m_state, m_request_list, m_current_request, request, client>> /\ CloserUnchanged

----------------------------------------------------------------------------
(* KServerSession::Destroy: KSession::OnServerClosed, then CleanupRequests. *)

DestroyerUnchanged == UNCHANGED <<handle, closer, server, wait>>

DestroyerCheck ==
  /\ destroyer.pc = "check"
  /\ destroyer' = [destroyer EXCEPT !.pc = IF m_state = "Normal" THEN "set" ELSE "lock"]
  /\ UNCHANGED <<m_state, m_lock, m_request_list, m_current_request, request, client>> /\ DestroyerUnchanged

DestroyerSet ==
  /\ destroyer.pc = "set"
  /\ m_state' = "ServerClosed"
  /\ destroyer' = [destroyer EXCEPT !.pc = "lock"]
  /\ UNCHANGED <<m_lock, m_request_list, m_current_request, request, client>> /\ DestroyerUnchanged

DestroyerLock ==
  /\ destroyer.pc = "lock" /\ m_lock = None
  /\ m_lock' = "destroyer"
  /\ destroyer' = [destroyer EXCEPT !.pc = "clean"]
  /\ UNCHANGED <<m_state, m_request_list, m_current_request, request, client>> /\ DestroyerUnchanged

\* The current request, else the first of the list; without any it is done.
DestroyerTake ==
  /\ destroyer.pc = "clean"
  /\ \/ /\ m_current_request # None
        /\ destroyer' = [pc |-> "reply", request |-> m_current_request]
        /\ m_current_request' = None
        /\ UNCHANGED <<m_request_list, m_lock>>
     \/ /\ m_current_request = None /\ m_request_list # <<>>
        /\ destroyer' = [pc |-> "reply", request |-> Head(m_request_list)]
        /\ m_request_list' = Tail(m_request_list)
        /\ UNCHANGED <<m_current_request, m_lock>>
     \/ /\ m_current_request = None /\ m_request_list = <<>>
        /\ destroyer' = [pc |-> "done", request |-> None]
        /\ m_lock' = None
        /\ UNCHANGED <<m_current_request, m_request_list>>
  /\ UNCHANGED <<m_state, request, client>> /\ DestroyerUnchanged

\* The client of the request is told that the session is closed.
DestroyerReply ==
  /\ destroyer.pc = "reply"
  /\ client' = Complete(destroyer.request)
  /\ request' = Close(request, destroyer.request)
  /\ destroyer' = [pc |-> "clean", request |-> None]
  /\ UNCHANGED <<m_state, m_lock, m_request_list, m_current_request>> /\ DestroyerUnchanged

----------------------------------------------------------------------------
(* The server's calls.  pc "receive" leads to "handle", "closed" or        *)
(* "NotFound"; pc "reply" leads to "replied", "closed" or "InvalidState".  *)

LockSession(s) ==
  /\ server[s].pc \in {"receive", "reply"} /\ m_lock = None
  /\ m_lock' = s
  /\ server' = [server EXCEPT ![s].pc = IF @ = "receive" THEN "pop" ELSE "take"]
  /\ UNCHANGED <<m_state, m_request_list, m_current_request, request, client, handle, closer, destroyer, wait>>

\* ReceiveRequest's critical section.
ReceivePop(s) ==
  /\ server[s].pc = "pop"
  /\ CASE m_state # "Normal" ->
            /\ server' = [server EXCEPT ![s].pc = "closed"]
            /\ m_lock' = None /\ UNCHANGED m_request_list
       [] m_state = "Normal" /\ (m_current_request # None \/ m_request_list = <<>>) ->
            /\ server' = [server EXCEPT ![s].pc = "NotFound"]
            /\ m_lock' = None /\ UNCHANGED m_request_list
       [] OTHER ->
            /\ server' = [server EXCEPT ![s].pc = "received", ![s].request = Head(m_request_list)]
            /\ m_request_list' = Tail(m_request_list)
            /\ UNCHANGED m_lock
  /\ UNCHANGED <<m_state, m_current_request, request, client, handle, closer, destroyer, wait>>

\* The rest of ReceiveRequest, for an HLE server.
ReceiveSetCurrent(s) ==
  /\ server[s].pc = "received"
  /\ m_current_request' = server[s].request
  /\ server' = [server EXCEPT ![s].pc = "handle", ![s].request = None]
  /\ m_lock' = None
  /\ UNCHANGED <<m_state, m_request_list, request, client, handle, closer, destroyer, wait>>

\* SendReply's critical section.
ReplyTake(s) ==
  /\ server[s].pc = "take"
  /\ IF m_current_request = None
     THEN /\ server' = [server EXCEPT ![s].pc = "InvalidState"]
          /\ m_lock' = None
          /\ UNCHANGED <<m_current_request, wait>>
     ELSE /\ server' = [server EXCEPT ![s].pc = "answer", ![s].request = m_current_request]
          /\ m_current_request' = None
          /\ IF m_request_list # <<>> THEN NotifyAvailable(m_state, m_request_list, None)
                                      ELSE UNCHANGED wait
          /\ UNCHANGED m_lock
  /\ UNCHANGED <<m_state, m_request_list, request, client, handle, closer, destroyer>>

\* Mutant: the request is not closed once it is answered.
ReplyAnswerOpen(s) ==
  LET r == server[s].request IN
  /\ server[s].pc = "answer"
  /\ client' = Complete(r)
  /\ server' = [server EXCEPT ![s].pc = IF request[r].thread = None \/ m_state # "Normal"
                                        THEN "closed" ELSE "replied",
                              ![s].request = None]
  /\ m_lock' = None
  /\ UNCHANGED <<m_state, m_request_list, m_current_request, request, handle, closer, destroyer, wait>>

\* The rest of SendReply, for an HLE server.
ReplyAnswer(s) ==
  LET r == server[s].request IN
  /\ server[s].pc = "answer"
  /\ client' = Complete(r)
  /\ request' = Close(request, r)
  /\ server' = [server EXCEPT ![s].pc = IF request[r].thread = None \/ m_state # "Normal"
                                        THEN "closed" ELSE "replied",
                              ![s].request = None]
  /\ m_lock' = None
  /\ UNCHANGED <<m_state, m_request_list, m_current_request, handle, closer, destroyer, wait>>
=============================================================================
