------------------------- MODULE ServerManagerProofs -------------------------
(***************************************************************************)
(* For any clients, server threads, requests and deployments: a session's  *)
(* requests are accounted for, nobody who waits for one is forgotten, the  *)
(* assertions of the session and its manager hold, and the thread that     *)
(* waits for the manager misses no signal.                                 *)
(*                                                                         *)
(* None of these is inductive.  SessionInv says what is missing of the     *)
(* session: m_lock protects the two places a request has while it is moved *)
(* (LockInv), a request is in one place (PlaceInv), so its references are  *)
(* its call and that place (CallInv), every wait has its request and every *)
(* request its wait (OwnInv), and only the closer takes the thread away,   *)
(* from the request it has seen (CloserInv).                               *)
(*                                                                         *)
(* ManagerInv says what is missing of the manager.  The session is a token *)
(* that is linked, deferred, with one thread or with the destroyer         *)
(* (TokenInv): so nobody else takes its request between the wait and       *)
(* ReceiveRequest, or between the handler and SendReply (ReadyInv).        *)
(* m_selection_mutex makes the list that is waited for the list that is    *)
(* linked (SelectInv), and a holder to be linked has either the wakeup     *)
(* event signaled or a thread that will signal it or link (SignalInv).     *)
(***************************************************************************)
EXTENDS ServerManager, FiniteSetTheorems, WellFoundedInduction, TLAPS

Holders == {"wakeup", "deferral", "session"}

ServerPCs == {"loop", "stopped", "link", "wait", "selected", "receive", "pop", "received", "handle",
              "defer", "reply", "take", "answer", "replied", "closed", "destroying", "signal",
              "deferral", "grab", "relink", "NotFound", "InvalidState"}

RequestType == [thread : Clients \cup {None}, event : BOOLEAN, refs : Nat]
ClientType == [pc : {"user", "send", "wait", "return", "dead"}, request : Requests \cup {None},
               terminating : BOOLEAN, event : BOOLEAN]
ServerType == [pc : ServerPCs, request : Requests \cup {None}, close : BOOLEAN, retry : BOOLEAN]

TypeInv ==
    /\ m_state \in {"Normal", "ClientClosed", "ServerClosed"}
    /\ m_request_list \in Seq(Requests)
    /\ m_current_request \in Requests \cup {None}
    /\ request \in [Requests -> RequestType]
    /\ client \in [Clients -> ClientType]
    /\ handle \in BOOLEAN
    /\ closer \in [pc : {"idle", "check", "set", "lock", "clean", "done"}, prev : Requests \cup {None}]
    /\ destroyer \in [pc : {"idle", "check", "set", "lock", "clean", "reply", "done"},
                      request : Requests \cup {None}]
    /\ server \in [Servers -> ServerType]

WaitType == [on : Seq(Holders), got : Holders \cup {"none"}]

ManagerType ==
    /\ wait \in [Servers -> WaitType]
    /\ m_multi_wait \in Seq(Holders)
    /\ m_deferred_list \in Seq(Holders)
    /\ m_deferred_sessions \in BOOLEAN

\* Where a server thread is in a critical section of m_lock.
Locked == {"pop", "received", "take", "answer"}

\* Who is in a critical section of m_lock holds it.
LockInv ==
    /\ \A s \in Servers : server[s].pc \in Locked => m_lock = s
    /\ closer.pc = "clean" => m_lock = "closer"
    /\ destroyer.pc \in {"clean", "reply"} => m_lock = "destroyer"

Distinct(q) == \A i, j \in DOMAIN q : q[i] = q[j] => i = j

\* A request is in one place of the session.
PlaceInv ==
    /\ \A s \in Servers : server[s].request # None <=> server[s].pc \in {"received", "answer"}
    /\ \A s \in Servers : server[s].pc = "received" => m_current_request = None
    /\ destroyer.request # None <=> destroyer.pc = "reply"
    /\ Distinct(m_request_list)
    /\ m_current_request \notin Members(m_request_list)
    /\ destroyer.request \notin Members(m_request_list)
    /\ destroyer.request # None => destroyer.request # m_current_request
    /\ \A s \in Servers : /\ server[s].request \notin Members(m_request_list)
                          /\ server[s].request # None => server[s].request # m_current_request

\* The requests the session owns a reference to.
Held == {r \in Requests : \/ r \in Members(m_request_list)
                          \/ r = m_current_request
                          \/ r = destroyer.request
                          \/ \E s \in Servers : server[s].request = r}

\* The requests a call owns a reference to.
Called == {r \in Requests : \E c \in Clients : client[c].request = r}

One(b) == IF b THEN 1 ELSE 0

\* The calls, and the references to requests.
CallInv ==
    /\ \A c \in Clients : InCall(c) <=> client[c].request # None
    /\ \A c, d \in Clients : client[c].request = client[d].request /\ client[c].request # None => c = d
    /\ \A c \in Clients : client[c].pc = "send" =>
         /\ client[c].request \notin Held
         /\ request[client[c].request].thread = c
         /\ request[client[c].request].event => ~client[c].event
    /\ \A r \in Requests : request[r].event => request[r].thread # None
    /\ \A r \in Requests : request[r].refs = One(r \in Held) + One(r \in Called)

\* The waits of threads that are not terminating, and their requests.
OwnInv ==
    \A c \in Clients : ~client[c].terminating =>
      /\ client[c].pc = "wait" => /\ client[c].request \in Held
                                  /\ request[client[c].request].thread = c
                                  /\ ~request[client[c].request].event
      /\ client[c].event => \E r \in Held : request[r].thread = c /\ request[r].event
      /\ \A r \in Held : request[r].thread = c =>
           IF request[r].event THEN client[c].event
           ELSE client[c].pc = "wait" /\ client[c].request = r
      /\ \A r, q \in Held : /\ request[r].thread = c /\ request[r].event
                            /\ request[q].thread = c /\ request[q].event
                            => r = q

\* KClientSession::Destroy comes after every call; only it makes a request
\* forget its thread.
CloserInv ==
    /\ closer.pc # "idle" => ~handle /\ \A c \in Clients : ~InCall(c)
    /\ closer.prev # None => closer.pc \in {"clean", "done"}
    /\ closer.pc = "clean" /\ closer.prev # None => closer.prev = m_current_request
    /\ \A r \in Held : request[r].thread = None => closer.prev = r
    /\ closer.pc \in {"lock", "clean"} => m_state # "Normal"

\* Holder h is in one of the manager's lists.
Linked(h) == h \in Members(m_multi_wait) \/ h \in Members(m_deferred_list)

\* Where a thread has taken the session out of the lists.
HoldPCs == {"receive", "pop", "received", "handle", "defer", "reply", "take", "answer", "replied",
            "closed", "NotFound", "InvalidState"}

\* Thread s has the session.
Holding(s) == server[s].pc \in HoldPCs \/ server[s].retry

\* Thread s has the deferral event's holder.
Deferring(s) == server[s].pc \in {"deferral", "grab", "relink"}

Stopped == \A s \in Servers : server[s].pc = "stopped"

\* A holder is in one list, or with one thread.
TokenInv ==
    /\ \A s \in Servers : server[s].retry => server[s].pc \in {"relink", "signal", "handle"}
    /\ \A s, t \in Servers : Holding(s) /\ Holding(t) => s = t
    /\ \A s \in Servers : Holding(s) => /\ ~Linked("session") /\ ~m_deferred_sessions
                                        /\ destroyer.pc = "idle"
    /\ m_deferred_sessions => ~Linked("session")
    /\ destroyer.pc # "idle" => Stopped \/ (~Linked("session") /\ ~m_deferred_sessions)
    /\ \A s, t \in Servers : Deferring(s) /\ Deferring(t) => s = t
    /\ \A s \in Servers : Deferring(s) => ~Linked("deferral")
    /\ Distinct(m_multi_wait) /\ Distinct(m_deferred_list)
    /\ Members(m_multi_wait) \cap Members(m_deferred_list) = {}
    /\ Linked("wakeup")

\* Who waits has m_selection_mutex, and waits for what is linked.
SelectInv ==
    \A s \in Servers :
      /\ server[s].pc \in {"link", "wait", "selected"} => m_selection_mutex = s
      /\ server[s].pc \in {"wait", "selected"} => "wakeup" \in Members(m_multi_wait)
      /\ wait[s].on # <<>> => server[s].pc = "selected" /\ wait[s].on = m_multi_wait
      /\ server[s].pc = "selected" /\ wait[s].on = <<>> => wait[s].got \in Members(m_multi_wait)

Signaled == IsSignaled(m_state, m_request_list, m_current_request)

\* What a thread saw of the session when it took it is still so.
ReadyInv ==
    /\ \A s \in Servers :
         /\ server[s].pc = "selected" /\ wait[s].on = <<>> /\ wait[s].got = "session" => Signaled
         /\ server[s].pc \in {"receive", "pop"} => Signaled
         /\ server[s].pc \in {"handle", "defer", "reply", "take"} \/ server[s].retry => m_current_request # None
         /\ server[s].pc \notin {"NotFound", "InvalidState"}
    /\ m_deferred_sessions => m_current_request # None \/ Stopped
    /\ destroyer.pc \in {"lock", "clean", "reply", "done"} => m_state # "Normal"

\* What is waited for is not signaled, and what is to be linked will be.
SignalInv ==
    /\ \A s \in Servers : wait[s].on # <<>> =>
         \A h \in Members(wait[s].on) : HolderSignaled(h) => h = "session" /\ closer.pc \in {"lock", "clean"}
    /\ m_deferred_list # <<>> => \/ "wakeup" \in signaled
                                 \/ \E s \in Servers : server[s].pc \in {"signal", "link"}

ManagerInv == ManagerType /\ TokenInv /\ SelectInv /\ ReadyInv /\ SignalInv

SessionInv == TypeInv /\ LockInv /\ PlaceInv /\ CallInv /\ OwnInv /\ CloserInv

-----------------------------------------------------------------------------
(* Records                                                                 *)

LEMMA GotoFacts ==
    ASSUME TypeInv, NEW s \in Servers, NEW p \in ServerPCs, Goto(s, p)
    PROVE  /\ server' \in [Servers -> ServerType]
           /\ server'[s].pc = p /\ server'[s].request = server[s].request
           /\ server'[s].close = server[s].close /\ server'[s].retry = server[s].retry
           /\ \A u \in Servers \ {s} : server'[u] = server[u]
  BY DEF TypeInv, ServerType, Goto

LEMMA RequestFacts ==
    ASSUME TypeInv, NEW s \in Servers, NEW p \in ServerPCs, NEW r \in Requests \cup {None},
           server' = [server EXCEPT ![s].pc = p, ![s].request = r]
    PROVE  /\ server' \in [Servers -> ServerType]
           /\ server'[s].pc = p /\ server'[s].request = r
           /\ server'[s].close = server[s].close /\ server'[s].retry = server[s].retry
           /\ \A u \in Servers \ {s} : server'[u] = server[u]
  BY DEF TypeInv, ServerType

LEMMA RetryRecord ==
    ASSUME NEW x \in ServerType, NEW p \in ServerPCs, NEW b \in BOOLEAN,
           NEW y, y = [x EXCEPT !.pc = p, !.retry = b]
    PROVE  /\ y \in ServerType /\ y.pc = p /\ y.request = x.request /\ y.close = x.close
           /\ y.retry = b
<1>1. y \in ServerType
  BY Zenon DEF ServerType
<1>2. y.pc = p /\ y.request = x.request /\ y.close = x.close
  BY Zenon DEF ServerType
<1>3. y.retry = b
  BY Zenon DEF ServerType
<1> QED
  BY <1>1, <1>2, <1>3, Zenon

LEMMA RetryFacts ==
    ASSUME TypeInv, NEW s \in Servers, NEW p \in ServerPCs, NEW b \in BOOLEAN,
           server' = [server EXCEPT ![s].pc = p, ![s].retry = b]
    PROVE  /\ server' \in [Servers -> ServerType]
           /\ server'[s].pc = p /\ server'[s].request = server[s].request
           /\ server'[s].close = server[s].close /\ (server'[s].retry <=> b)
           /\ \A u \in Servers \ {s} : server'[u] = server[u]
<1>1. server \in [Servers -> ServerType]
  BY DEF TypeInv
<1>3. server[s] \in ServerType /\ server'[s] = [server[s] EXCEPT !.pc = p, !.retry = b]
  BY <1>1, Zenon
<1>2. /\ server'[s] \in ServerType /\ server'[s].pc = p /\ server'[s].request = server[s].request
      /\ server'[s].close = server[s].close /\ server'[s].retry = b
  <2>1. PICK x, y : x = server[s] /\ y = server'[s]
    OBVIOUS
  <2>2. x \in ServerType /\ y = [x EXCEPT !.pc = p, !.retry = b]
    BY <1>3, <2>1, Zenon
  <2>3. y \in ServerType
    BY <2>2, RetryRecord
  <2>4. y.pc = p /\ y.request = x.request /\ y.close = x.close /\ y.retry = b
    BY <2>2, Zenon DEF ServerType
  <2> QED
    BY <2>1, <2>3, <2>4, Zenon
<1> QED
  BY <1>2 DEF TypeInv

LEMMA CloseRecord ==
    ASSUME NEW x \in ServerType, NEW p \in ServerPCs, NEW b \in BOOLEAN,
           NEW y, y = [x EXCEPT !.pc = p, !.close = b]
    PROVE  /\ y \in ServerType /\ y.pc = p /\ y.request = x.request /\ y.retry = x.retry
           /\ y.close = b
<1>1. y \in ServerType
  BY Zenon DEF ServerType
<1>2. y.pc = p /\ y.request = x.request /\ y.retry = x.retry
  BY Zenon DEF ServerType
<1>3. y.close = b
  BY Zenon DEF ServerType
<1> QED
  BY <1>1, <1>2, <1>3, Zenon

LEMMA CloseFlagFacts ==
    ASSUME TypeInv, NEW s \in Servers, NEW p \in ServerPCs, NEW b \in BOOLEAN,
           server' = [server EXCEPT ![s].pc = p, ![s].close = b]
    PROVE  /\ server' \in [Servers -> ServerType]
           /\ server'[s].pc = p /\ server'[s].request = server[s].request
           /\ server'[s].retry = server[s].retry /\ (server'[s].close <=> b)
           /\ \A u \in Servers \ {s} : server'[u] = server[u]
<1>1. server \in [Servers -> ServerType]
  BY DEF TypeInv
<1>3. server[s] \in ServerType /\ server'[s] = [server[s] EXCEPT !.pc = p, !.close = b]
  BY <1>1, Zenon
<1>2. /\ server'[s] \in ServerType /\ server'[s].pc = p /\ server'[s].request = server[s].request
      /\ server'[s].retry = server[s].retry /\ server'[s].close = b
  <2>1. PICK x, y : x = server[s] /\ y = server'[s]
    OBVIOUS
  <2>2. x \in ServerType /\ y = [x EXCEPT !.pc = p, !.close = b]
    BY <1>3, <2>1, Zenon
  <2>3. y \in ServerType
    BY <2>2, CloseRecord
  <2>4. y.pc = p /\ y.request = x.request /\ y.retry = x.retry /\ y.close = b
    BY <2>2, Zenon DEF ServerType
  <2> QED
    BY <2>1, <2>3, <2>4, Zenon
<1> QED
  BY <1>2 DEF TypeInv

LEMMA CloseFacts ==
    ASSUME TypeInv, NEW r \in Requests, request[r].refs # 0
    PROVE  /\ Close(request, r) \in [Requests -> RequestType]
           /\ \A q \in Requests \ {r} : Close(request, r)[q] = request[q]
           /\ Close(request, r)[r].refs = request[r].refs - 1
           /\ request[r].refs = 1 => Close(request, r)[r].thread = None /\ ~Close(request, r)[r].event
           /\ request[r].refs # 1 => /\ Close(request, r)[r].thread = request[r].thread
                                     /\ Close(request, r)[r].event = request[r].event
<1>1. request[r] \in RequestType /\ request \in [Requests -> RequestType]
  BY DEF TypeInv
<1>2. CASE request[r].refs = 1
  <2>1. Close(request, r) = [request EXCEPT ![r] = FreeRequest]
    BY <1>1, <1>2 DEF Close
  <2>2. FreeRequest \in RequestType /\ FreeRequest.thread = None /\ ~FreeRequest.event /\ FreeRequest.refs = 0
    BY DEF RequestType, FreeRequest
  <2> QED
    BY <1>1, <1>2, <2>1, <2>2
<1>3. CASE request[r].refs # 1
  <2> DEFINE f == [request[r] EXCEPT !.refs = @ - 1]
  <2>1. Close(request, r) = [request EXCEPT ![r] = f]
    <3>1. Close(request, r) = [request EXCEPT ![r] = IF request[r].refs = 1 THEN FreeRequest ELSE f]
      BY <1>1 DEF Close
    <3> QED
      BY <1>3, <3>1
  <2>2. f \in RequestType /\ f.thread = request[r].thread /\ f.event = request[r].event /\ f.refs = request[r].refs - 1
    BY <1>1, <1>3 DEF RequestType
  <2> QED
    BY <1>1, <1>3, <2>1, <2>2
<1> QED
  BY <1>2, <1>3

\* What Complete may do to a client.
LEMMA CompleteFacts ==
    ASSUME TypeInv, NEW r \in Requests, request[r].event => request[r].thread # None
    PROVE  /\ Complete(r) \in [Clients -> ClientType]
           /\ \A c \in Clients :
                /\ Complete(r)[c].request = client[c].request
                /\ Complete(r)[c].terminating = client[c].terminating
                /\ c # request[r].thread => Complete(r)[c] = client[c]
                /\ request[r].thread = c /\ request[r].event =>
                     Complete(r)[c].pc = client[c].pc /\ ~Complete(r)[c].event
                /\ request[r].thread = c /\ ~request[r].event =>
                     /\ Complete(r)[c].event = client[c].event
                     /\ Complete(r)[c].pc = IF client[c].terminating \/ client[c].pc # "wait"
                                            THEN client[c].pc ELSE "return"
<1>1. request[r] \in RequestType /\ client \in [Clients -> ClientType]
  BY DEF TypeInv
<1>0. request[r].thread \in Clients \cup {None} /\ None \notin Clients
  BY <1>1, NoneAssumption DEF RequestType
<1>2. CASE request[r].thread = None
  BY <1>0, <1>1, <1>2, Zenon DEF Complete
<1>3. ASSUME NEW c \in Clients, request[r].thread = c PROVE
           /\ Complete(r) \in [Clients -> ClientType]
           /\ \A d \in Clients :
                /\ Complete(r)[d].request = client[d].request
                /\ Complete(r)[d].terminating = client[d].terminating
                /\ d # c => Complete(r)[d] = client[d]
           /\ request[r].event =>
                     Complete(r)[c].pc = client[c].pc /\ ~Complete(r)[c].event
           /\ ~request[r].event =>
                     /\ Complete(r)[c].event = client[c].event
                     /\ Complete(r)[c].pc = IF client[c].terminating \/ client[c].pc # "wait"
                                            THEN client[c].pc ELSE "return"
  <2>0. client[c] \in ClientType /\ c # None
    BY <1>0, <1>1
  <2>1. CASE request[r].event
    <3> DEFINE f == [client[c] EXCEPT !.event = FALSE]
    <3>1. Complete(r) = [client EXCEPT ![c] = f]
      BY <1>1, <1>3, <2>0, <2>1 DEF Complete
    <3>2. f \in ClientType /\ f.pc = client[c].pc /\ f.request = client[c].request
          /\ f.terminating = client[c].terminating /\ ~f.event
      BY <2>0 DEF ClientType
    <3> QED
      BY <1>1, <2>0, <2>1, <3>1, <3>2
  <2>2. CASE ~request[r].event /\ ~(client[c].terminating \/ client[c].pc # "wait")
    <3> DEFINE f == [client[c] EXCEPT !.pc = "return"]
    <3>1. Complete(r) = [client EXCEPT ![c] = f]
      BY <1>1, <1>3, <2>0, <2>2 DEF Complete
    <3>2. f \in ClientType /\ f.pc = "return" /\ f.request = client[c].request
          /\ f.terminating = client[c].terminating /\ f.event = client[c].event
      BY <2>0 DEF ClientType
    <3> QED
      BY <1>1, <2>0, <2>2, <3>1, <3>2
  <2>3. CASE ~request[r].event /\ (client[c].terminating \/ client[c].pc # "wait")
    <3>1. Complete(r) = client
      BY <1>1, <1>3, <2>0, <2>3 DEF Complete
    <3> QED
      BY <1>1, <2>3, <3>1
  <2> QED
    BY <2>1, <2>2, <2>3
<1> QED
  BY <1>0, <1>2, <1>3

-----------------------------------------------------------------------------
(* Lists                                                                   *)

LEMMA AppendFacts ==
    ASSUME NEW S, NEW q \in Seq(S), NEW e \in S
    PROVE  /\ Append(q, e) \in Seq(S) /\ Append(q, e) # <<>>
           /\ Members(Append(q, e)) = Members(q) \cup {e}
           /\ Distinct(q) /\ e \notin Members(q) => Distinct(Append(q, e))
<1> DEFINE p == Append(q, e)
<1>1. /\ p \in Seq(S) /\ Len(p) = Len(q) + 1 /\ DOMAIN p = 1..Len(q) + 1 /\ DOMAIN q = 1..Len(q) /\ Len(q) \in Nat
      /\ p[Len(q) + 1] = e /\ \A i \in 1..Len(q) : p[i] = q[i]
  OBVIOUS
<1> HIDE DEF p
<1>2. p # <<>>
  BY <1>1
<1>3. Members(p) = Members(q) \cup {e}
  <2>1. ASSUME NEW i \in DOMAIN p PROVE p[i] \in Members(q) \cup {e}
    BY <1>1 DEF Members
  <2>2. ASSUME NEW i \in DOMAIN q PROVE q[i] \in Members(p)
    <3>1. i \in DOMAIN p /\ p[i] = q[i]
      BY <1>1
    <3> QED
      BY <3>1 DEF Members
  <2>3. e \in Members(p)
    BY <1>1 DEF Members
  <2>4. Members(p) \subseteq Members(q) \cup {e}
    BY <2>1 DEF Members
  <2>5. Members(q) \subseteq Members(p)
    BY <2>2 DEF Members
  <2> QED
    BY <2>3, <2>4, <2>5
<1>4. ASSUME Distinct(q), e \notin Members(q), NEW i \in DOMAIN p, NEW j \in DOMAIN p, p[i] = p[j]
      PROVE  i = j
  <2>1. \A k \in 1..Len(q) : q[k] # e
    BY <1>1, <1>4 DEF Members
  <2>2. CASE i \in 1..Len(q) /\ j \in 1..Len(q)
    BY <1>1, <1>4, <2>2 DEF Distinct
  <2>3. CASE i = Len(q) + 1 \/ j = Len(q) + 1
    BY <1>1, <1>4, <2>1, <2>3
  <2> QED
    BY <1>1, <2>2, <2>3
<1> QED
  BY <1>1, <1>2, <1>3, <1>4 DEF p, Distinct

LEMMA TailFacts ==
    ASSUME NEW S, NEW q \in Seq(S), q # <<>>, Distinct(q)
    PROVE  /\ Head(q) \in S /\ Head(q) \in Members(q)
           /\ Tail(q) \in Seq(S) /\ Distinct(Tail(q)) /\ Members(Tail(q)) = Members(q) \ {Head(q)}
<1> DEFINE p == Tail(q)
<1>0. Len(q) \in Nat /\ Len(q) # 0 /\ DOMAIN q = 1..Len(q)
  OBVIOUS
<1>1. /\ p \in Seq(S) /\ Len(p) = Len(q) - 1 /\ DOMAIN p = 1..Len(q) - 1
      /\ \A i \in 1..Len(q) - 1 : p[i] = q[i + 1]
  BY <1>0
<1>2. Head(q) = q[1] /\ 1 \in DOMAIN q
  BY <1>0
<1> HIDE DEF p
<1>3. Head(q) \in S /\ Head(q) \in Members(q)
  BY <1>2 DEF Members
<1>4. \A i \in DOMAIN p : i + 1 \in DOMAIN q /\ p[i] = q[i + 1] /\ i + 1 # 1
  BY <1>0, <1>1
<1>5. Distinct(p)
  <2>1. ASSUME NEW i \in DOMAIN p, NEW j \in DOMAIN p, p[i] = p[j] PROVE i = j
    <3>1. i + 1 = j + 1
      BY <1>4, <2>1 DEF Distinct
    <3> QED
      BY <1>0, <1>1, <3>1
  <2> QED
    BY <2>1 DEF Distinct
<1>6. Members(p) = Members(q) \ {Head(q)}
  <2>1. ASSUME NEW i \in DOMAIN p PROVE p[i] \in Members(q) \ {Head(q)}
    <3>1. p[i] # q[1]
      BY <1>2, <1>4 DEF Distinct
    <3> QED
      BY <1>2, <1>4, <3>1 DEF Members
  <2>2. ASSUME NEW i \in DOMAIN q, q[i] # Head(q) PROVE q[i] \in Members(p)
    <3>1. i # 1
      BY <1>2, <2>2
    <3>2. i - 1 \in DOMAIN p /\ p[i - 1] = q[i]
      BY <1>0, <1>1, <3>1
    <3> QED
      BY <3>2 DEF Members
  <2>3. Members(p) \subseteq Members(q) \ {Head(q)}
    BY <2>1 DEF Members
  <2>4. Members(q) \ {Head(q)} \subseteq Members(p)
    BY <2>2 DEF Members
  <2> QED
    BY <2>3, <2>4
<1> QED
  BY <1>1, <1>3, <1>5, <1>6 DEF p

LEMMA ConcatFacts ==
    ASSUME NEW S, NEW a \in Seq(S), NEW b \in Seq(S)
    PROVE  /\ a \o b \in Seq(S) /\ Len(a \o b) = Len(a) + Len(b)
           /\ Members(a \o b) = Members(a) \cup Members(b)
           /\ Distinct(a) /\ Distinct(b) /\ Members(a) \cap Members(b) = {} => Distinct(a \o b)
<1> DEFINE p == a \o b
<1>1. /\ p \in Seq(S) /\ Len(p) = Len(a) + Len(b) /\ DOMAIN p = 1..Len(a) + Len(b)
      /\ DOMAIN a = 1..Len(a) /\ DOMAIN b = 1..Len(b) /\ Len(a) \in Nat /\ Len(b) \in Nat
      /\ \A i \in 1..Len(a) + Len(b) : p[i] = IF i <= Len(a) THEN a[i] ELSE b[i - Len(a)]
  OBVIOUS
<1> HIDE DEF p
<1>2. \A i \in DOMAIN p : \/ i \in DOMAIN a /\ p[i] = a[i]
                          \/ i - Len(a) \in DOMAIN b /\ p[i] = b[i - Len(a)]
  BY <1>1
<1>3. Members(p) = Members(a) \cup Members(b)
  <2>1. Members(p) \subseteq Members(a) \cup Members(b)
    BY <1>2 DEF Members
  <2>2. ASSUME NEW i \in DOMAIN a PROVE a[i] \in Members(p)
    <3>1. i \in DOMAIN p /\ p[i] = a[i]
      BY <1>1
    <3> QED
      BY <3>1 DEF Members
  <2>3. ASSUME NEW i \in DOMAIN b PROVE b[i] \in Members(p)
    <3>1. i + Len(a) \in DOMAIN p /\ p[i + Len(a)] = b[i]
      BY <1>1
    <3> QED
      BY <3>1 DEF Members
  <2>4. Members(a) \subseteq Members(p) /\ Members(b) \subseteq Members(p)
    BY <2>2, <2>3 DEF Members
  <2> QED
    BY <2>1, <2>4
<1>4. ASSUME Distinct(a), Distinct(b), Members(a) \cap Members(b) = {},
             NEW i \in DOMAIN p, NEW j \in DOMAIN p, p[i] = p[j]
      PROVE  i = j
  <2>1. \A k \in DOMAIN a, l \in DOMAIN b : a[k] # b[l]
    BY <1>4 DEF Members
  <2>2. CASE i \in DOMAIN a /\ p[i] = a[i] /\ j \in DOMAIN a /\ p[j] = a[j]
    BY <1>4, <2>2 DEF Distinct
  <2>3. CASE /\ i - Len(a) \in DOMAIN b /\ p[i] = b[i - Len(a)]
             /\ j - Len(a) \in DOMAIN b /\ p[j] = b[j - Len(a)]
    <3>1. i - Len(a) = j - Len(a)
      BY <1>4, <2>3 DEF Distinct
    <3> QED
      BY <1>1, <3>1
  <2> QED
    BY <1>2, <1>4, <2>1, <2>2, <2>3
<1> QED
  BY <1>1, <1>3, <1>4 DEF p, Distinct

LEMMA RemoveFacts ==
    ASSUME NEW S, NEW q \in Seq(S), Distinct(q), NEW k \in DOMAIN q
    PROVE  /\ RemoveAt(q, k) \in Seq(S) /\ Distinct(RemoveAt(q, k))
           /\ Members(RemoveAt(q, k)) = Members(q) \ {q[k]}
<1> DEFINE a == SubSeq(q, 1, k - 1)
           b == SubSeq(q, k + 1, Len(q))
<1>0. Len(q) \in Nat /\ DOMAIN q = 1..Len(q) /\ k \in 1..Len(q)
  OBVIOUS
<1>1. a \in Seq(S) /\ DOMAIN a = 1..k - 1 /\ \A i \in 1..k - 1 : a[i] = q[i]
  BY <1>0
<1>2. b \in Seq(S) /\ DOMAIN b = 1..Len(q) - k /\ \A i \in 1..Len(q) - k : b[i] = q[i + k]
  BY <1>0
<1>3. RemoveAt(q, k) = a \o b
  BY DEF RemoveAt
<1> HIDE DEF a, b
<1>4. \A i \in DOMAIN a : i \in DOMAIN q /\ a[i] = q[i] /\ i < k /\ i \in Nat
  BY <1>0, <1>1
<1>5. \A i \in DOMAIN b : i + k \in DOMAIN q /\ b[i] = q[i + k] /\ i + k > k /\ i \in Nat
  BY <1>0, <1>2
<1>6. Distinct(a)
  BY <1>4 DEF Distinct
<1>7. ASSUME NEW i \in DOMAIN b, NEW j \in DOMAIN b, b[i] = b[j] PROVE i = j
  <2>1. i + k = j + k
    BY <1>5, <1>7 DEF Distinct
  <2> QED
    BY <1>0, <1>5, <2>1
<1>8. ASSUME NEW i \in DOMAIN a, NEW j \in DOMAIN b PROVE a[i] # b[j]
  <2>1. i # j + k
    BY <1>0, <1>4, <1>5
  <2> QED
    BY <1>4, <1>5, <2>1 DEF Distinct
<1>9. Members(a) \cup Members(b) = Members(q) \ {q[k]}
  <2>1. ASSUME NEW i \in DOMAIN q, i # k PROVE q[i] \in Members(a) \cup Members(b)
    <3>1. CASE i < k
      <4>1. i \in DOMAIN a /\ a[i] = q[i]
        BY <1>0, <1>1, <3>1
      <4> QED
        BY <4>1 DEF Members
    <3>2. CASE i > k
      <4>1. i - k \in DOMAIN b /\ b[i - k] = q[i]
        BY <1>0, <1>2, <3>2
      <4> QED
        BY <4>1 DEF Members
    <3> QED
      BY <1>0, <2>1, <3>1, <3>2
  <2>2. ASSUME NEW i \in DOMAIN a PROVE a[i] \in Members(q) \ {q[k]}
    <3>1. i # k
      BY <1>0, <1>4
    <3> QED
      BY <1>4, <3>1 DEF Members, Distinct
  <2>3. ASSUME NEW i \in DOMAIN b PROVE b[i] \in Members(q) \ {q[k]}
    <3>1. i + k # k
      BY <1>0, <1>5
    <3> QED
      BY <1>5, <3>1 DEF Members, Distinct
  <2>4. Members(q) \ {q[k]} \subseteq Members(a) \cup Members(b)
    BY <2>1 DEF Members
  <2>5. Members(a) \cup Members(b) \subseteq Members(q) \ {q[k]}
    BY <2>2, <2>3 DEF Members
  <2> QED
    BY <2>4, <2>5
<1>10. Members(a) \cap Members(b) = {}
  BY <1>8 DEF Members
<1>11. Distinct(b)
  BY <1>7 DEF Distinct
<1> QED
  BY <1>1, <1>2, <1>3, <1>6, <1>9, <1>10, <1>11, ConcatFacts

-----------------------------------------------------------------------------
(* The session                                                             *)

\* A step that leaves the session's lists, requests and clients alone.
LEMMA Bystander ==
    ASSUME SessionInv, TypeInv',
           UNCHANGED <<m_state, m_lock, m_request_list, m_current_request, request, client, handle, closer>>,
           destroyer'.request = destroyer.request,
           destroyer.pc = "reply" <=> destroyer'.pc = "reply",
           destroyer'.pc \in {"clean", "reply"} => destroyer.pc \in {"clean", "reply"},
           \A u \in Servers : /\ server'[u].request = server[u].request
                              /\ server'[u].pc \in Locked => server'[u].pc = server[u].pc
                              /\ server[u].pc \in Locked => server'[u].pc = server[u].pc
    PROVE  SessionInv'
<1>1. LockInv'
  BY DEF SessionInv, LockInv
<1>2. PlaceInv'
  BY DEF SessionInv, PlaceInv, Locked
<1>3. Held' = Held
  BY DEF Held
<1>4. CallInv'
  <2>1. Called' = Called /\ \A c \in Clients : InCall(c)' = InCall(c)
    BY DEF Called, InCall
  <2> QED
    BY <1>3, <2>1 DEF SessionInv, CallInv, One
<1>5. OwnInv'
  BY <1>3 DEF SessionInv, OwnInv
<1>6. CloserInv'
  BY <1>3 DEF SessionInv, CloserInv, InCall
<1> QED
  BY <1>1, <1>2, <1>4, <1>5, <1>6 DEF SessionInv

\* A request moves from one place of the session to another.
LEMMA Move ==
    ASSUME SessionInv, TypeInv', LockInv', PlaceInv',
           UNCHANGED <<m_state, request, client, handle, closer>>,
           closer.pc = "clean" => m_current_request' = m_current_request,
           Held' = Held
    PROVE  SessionInv'
<1>4. CallInv'
  <2>1. Called' = Called /\ \A c \in Clients : InCall(c)' = InCall(c)
    BY DEF Called, InCall
  <2> QED
    BY <2>1 DEF SessionInv, CallInv, One
<1>5. OwnInv'
  BY DEF SessionInv, OwnInv
<1>6. CloserInv'
  BY DEF SessionInv, CloserInv, InCall
<1> QED
  BY <1>4, <1>5, <1>6 DEF SessionInv

\* A request leaves the session, and its client is told.
LEMMA Release ==
    ASSUME SessionInv, NEW r \in Held, Held' = Held \ {r},
           request' = Close(request, r), client' = Complete(r)
    PROVE  /\ request' \in [Requests -> RequestType] /\ client' \in [Clients -> ClientType]
           /\ CallInv' /\ OwnInv'
           /\ \A c \in Clients : InCall(c)' <=> InCall(c)
           /\ \A q \in Held' : request'[q] = request[q]
<1>0. TypeInv /\ r \in Requests /\ CallInv /\ OwnInv /\ None \notin Clients
  BY NoneAssumption DEF SessionInv, Held
<1>1. request[r].refs # 0 /\ request[r].refs = 1 + One(r \in Called)
  BY <1>0 DEF CallInv, One
<1>2. /\ request' \in [Requests -> RequestType]
      /\ \A q \in Requests \ {r} : request'[q] = request[q]
      /\ request'[r].refs = request[r].refs - 1
      /\ request[r].refs = 1 => request'[r].thread = None /\ ~request'[r].event
      /\ request[r].refs # 1 => request'[r].thread = request[r].thread /\ request'[r].event = request[r].event
  BY <1>0, <1>1, CloseFacts
<1>3. request[r].event => request[r].thread # None
  BY <1>0 DEF CallInv
<1>4. /\ client' \in [Clients -> ClientType]
      /\ \A c \in Clients :
           /\ client'[c].request = client[c].request
           /\ client'[c].terminating = client[c].terminating
           /\ c # request[r].thread => client'[c] = client[c]
           /\ request[r].thread = c /\ request[r].event =>
                client'[c].pc = client[c].pc /\ ~client'[c].event
           /\ request[r].thread = c /\ ~request[r].event =>
                /\ client'[c].event = client[c].event
                /\ client'[c].pc = IF client[c].terminating \/ client[c].pc # "wait"
                                   THEN client[c].pc ELSE "return"
  BY <1>0, <1>3, CompleteFacts
<1>5. \A c \in Clients : client'[c].pc = client[c].pc \/ (client[c].pc = "wait" /\ client'[c].pc = "return")
  BY <1>4
<1>6. \A c \in Clients : client'[c].event => client[c].event
  BY <1>4
<1>7. \A c \in Clients : InCall(c)' <=> InCall(c)
  BY <1>5 DEF InCall
<1>8. Called' = Called
  BY <1>4 DEF Called
<1>9. Held \subseteq Requests
  BY DEF Held
<1>10. \A q \in Held' : q \in Held /\ q # r /\ q \in Requests /\ request'[q] = request[q]
  BY <1>2, <1>9
<1>11. CallInv'
  <2>1. \A c \in Clients : InCall(c)' <=> client'[c].request # None
    BY <1>0, <1>4, <1>7 DEF CallInv
  <2>2. \A c, d \in Clients : client'[c].request = client'[d].request /\ client'[c].request # None => c = d
    BY <1>0, <1>4 DEF CallInv
  <2>3. ASSUME NEW c \in Clients, client'[c].pc = "send"
        PROVE  /\ client'[c].request \notin Held'
               /\ request'[client'[c].request].thread = c
               /\ request'[client'[c].request].event => ~client'[c].event
    <3>1. client[c].pc = "send" /\ client[c].request \notin Held /\ client[c].request \in Requests
      BY <1>0, <1>5, <2>3 DEF CallInv, InCall, TypeInv, ClientType
    <3>2. client[c].request # r /\ request'[client[c].request] = request[client[c].request]
      BY <1>2, <3>1
    <3> QED
      BY <1>0, <1>4, <1>6, <3>1, <3>2 DEF CallInv
  <2>4. \A q \in Requests : request'[q].event => request'[q].thread # None
    BY <1>0, <1>2 DEF CallInv
  <2>5. ASSUME NEW q \in Requests PROVE request'[q].refs = One(q \in Held') + One(q \in Called')
    <3>1. CASE q = r
      BY <1>1, <1>2, <1>8, <3>1 DEF One
    <3>2. CASE q # r
      BY <1>0, <1>2, <1>8, <3>2 DEF One, CallInv
    <3> QED
      BY <3>1, <3>2
  <2> QED
    BY <2>1, <2>2, <2>3, <2>4, <2>5 DEF CallInv
<1>12. ASSUME NEW c \in Clients, ~client'[c].terminating
       PROVE  /\ client'[c].pc = "wait" => /\ client'[c].request \in Held'
                                           /\ request'[client'[c].request].thread = c
                                           /\ ~request'[client'[c].request].event
              /\ client'[c].event => \E q \in Held' : request'[q].thread = c /\ request'[q].event
              /\ \A q \in Held' : request'[q].thread = c =>
                   IF request'[q].event THEN client'[c].event
                   ELSE client'[c].pc = "wait" /\ client'[c].request = q
              /\ \A q, p \in Held' : /\ request'[q].thread = c /\ request'[q].event
                                     /\ request'[p].thread = c /\ request'[p].event
                                     => q = p
  <2>0. ~client[c].terminating
    BY <1>4, <1>12
  <2>1. ASSUME client'[c].pc = "wait"
        PROVE  /\ client'[c].request \in Held'
               /\ request'[client'[c].request].thread = c
               /\ ~request'[client'[c].request].event
    <3>1. /\ client[c].pc = "wait" /\ client[c].request \in Held
          /\ request[client[c].request].thread = c /\ ~request[client[c].request].event
      BY <1>0, <1>5, <2>0, <2>1 DEF OwnInv
    <3>2. client[c].request # r
      BY <1>4, <2>0, <2>1, <3>1
    <3> QED
      BY <1>4, <1>10, <3>1, <3>2
  <2>2. ASSUME client'[c].event
        PROVE  \E q \in Held' : request'[q].thread = c /\ request'[q].event
    <3>1. PICK q \in Held : request[q].thread = c /\ request[q].event
      BY <1>0, <1>6, <2>0, <2>2 DEF OwnInv
    <3>2. q # r
      BY <1>4, <2>2, <3>1
    <3> QED
      BY <1>10, <3>1, <3>2
  <2>3. ASSUME NEW q \in Held', request'[q].thread = c
        PROVE  IF request'[q].event THEN client'[c].event
               ELSE client'[c].pc = "wait" /\ client'[c].request = q
    <3>1. q \in Held /\ q # r /\ request[q].thread = c /\ request'[q].event = request[q].event
      BY <1>10, <2>3
    <3>2. CASE request[q].event
      <4>1. client[c].event
        BY <1>0, <2>0, <3>1, <3>2 DEF OwnInv
      <4>2. ~(request[r].thread = c /\ request[r].event)
        BY <1>0, <2>0, <3>1, <3>2 DEF OwnInv
      <4>3. client'[c].event
        BY <1>4, <4>1, <4>2
      <4> QED
        BY <3>1, <3>2, <4>3
    <3>3. CASE ~request[q].event
      <4>1. client[c].pc = "wait" /\ client[c].request = q
        BY <1>0, <2>0, <3>1, <3>3 DEF OwnInv
      <4>2. ~(request[r].thread = c /\ ~request[r].event)
        BY <1>0, <2>0, <3>1, <4>1 DEF OwnInv
      <4>3. client'[c].pc = "wait" /\ client'[c].request = q
        BY <1>4, <4>1, <4>2
      <4> QED
        BY <3>1, <3>3, <4>3
    <3> QED
      BY <3>2, <3>3
  <2>4. ASSUME NEW q \in Held', NEW p \in Held', request'[q].thread = c, request'[q].event,
               request'[p].thread = c, request'[p].event
        PROVE  q = p
    BY <1>0, <1>10, <2>0, <2>4 DEF OwnInv
  <2> QED
    BY <2>1, <2>2, <2>3, <2>4
<1>13. OwnInv'
  BY <1>12 DEF OwnInv
<1> QED
  BY <1>2, <1>4, <1>7, <1>10, <1>11, <1>13

LEMMA SendRequestSession ==
    ASSUME SessionInv, NEW c \in Clients, NEW async \in BOOLEAN, SendRequest(c, async)
    PROVE  SessionInv'
<1> DEFINE r == CHOOSE q \in Requests : request[q].refs = 0
<1>0. /\ TypeInv /\ LockInv /\ PlaceInv /\ CallInv /\ OwnInv /\ CloserInv
      /\ None \notin Clients /\ None \notin Requests
  BY NoneAssumption DEF SessionInv
<1>1. /\ client[c].pc = "user" /\ handle /\ (async => ~client[c].event)
      /\ UNCHANGED <<m_state, m_lock, m_request_list, m_current_request, handle, closer, destroyer, server>>
  BY DEF SendRequest
<1>2. r \in Requests /\ request[r].refs = 0
  BY DEF SendRequest
<1>3. /\ request' = [request EXCEPT ![r] = [thread |-> c, event |-> async, refs |-> 1]]
      /\ client' = [client EXCEPT ![c].pc = "send", ![c].request = r]
  BY Zenon DEF SendRequest
<1> HIDE DEF r
<1>4. /\ request' \in [Requests -> RequestType]
      /\ request'[r].thread = c /\ (request'[r].event <=> async) /\ request'[r].refs = 1
      /\ \A q \in Requests \ {r} : request'[q] = request[q]
  <2>1. request \in [Requests -> RequestType]
    BY <1>0 DEF TypeInv
  <2>2. request'[r] = [thread |-> c, event |-> async, refs |-> 1]
    BY <1>2, <1>3, <2>1, Zenon
  <2>3. PICK x : x = request'[r]
    OBVIOUS
  <2>4. x = [thread |-> c, event |-> async, refs |-> 1]
    BY <2>2, <2>3, Zenon
  <2>5. x.thread = c /\ x.refs = 1
    BY <2>4, Zenon
  <2>6. x.event = async
    BY <2>4, Zenon
  <2>7. c \in Clients \cup {None} /\ 1 \in Nat
    OBVIOUS
  <2>8. x \in RequestType
    BY <2>4, <2>7, Zenon DEF RequestType
  <2>9. \A q \in Requests \ {r} : request'[q] = request[q]
    BY <1>2, <1>3, <2>1, Zenon
  <2>10. request' \in [Requests -> RequestType]
    <3>1. DOMAIN request' = Requests /\ request' = [q \in Requests |-> request'[q]]
      BY <1>3, <2>1, Zenon
    <3> QED
      BY <2>1, <2>3, <2>8, <2>9, <3>1
  <2> QED
    BY <2>3, <2>5, <2>6, <2>9, <2>10, Zenon
<1>5. /\ client' \in [Clients -> ClientType]
      /\ client'[c].pc = "send" /\ client'[c].request = r
      /\ client'[c].terminating = client[c].terminating /\ client'[c].event = client[c].event
      /\ \A d \in Clients \ {c} : client'[d] = client[d]
  BY <1>0, <1>2, <1>3 DEF TypeInv, ClientType
<1>6. Held' = Held /\ Held \subseteq Requests
  BY <1>1 DEF Held
<1>7. r \notin Held /\ r \notin Called
  BY <1>0, <1>2 DEF CallInv, One
<1>8. client[c].request = None
  BY <1>0, <1>1 DEF CallInv, InCall
<1>9. Called' = Called \cup {r}
  BY <1>0, <1>2, <1>5, <1>8 DEF Called
<1>10. \A d \in Clients : client[d].request # r
  BY <1>2, <1>7 DEF Called
<1>11. \A q \in Held : q # r /\ request'[q] = request[q]
  BY <1>4, <1>6, <1>7
<1>12. TypeInv'
  BY <1>0, <1>1, <1>4, <1>5 DEF TypeInv
<1>13. LockInv' /\ PlaceInv'
  BY <1>0, <1>1 DEF LockInv, PlaceInv
<1>14. CallInv'
  <2>1. \A d \in Clients : InCall(d)' <=> client'[d].request # None
    BY <1>0, <1>2, <1>5 DEF CallInv, InCall
  <2>2. \A d, e \in Clients : client'[d].request = client'[e].request /\ client'[d].request # None => d = e
    BY <1>0, <1>5, <1>10 DEF CallInv
  <2>3. ASSUME NEW d \in Clients, client'[d].pc = "send"
        PROVE  /\ client'[d].request \notin Held'
               /\ request'[client'[d].request].thread = d
               /\ request'[client'[d].request].event => ~client'[d].event
    <3>1. CASE d = c
      BY <1>1, <1>4, <1>5, <1>6, <1>7, <3>1
    <3>2. CASE d # c
      <4>1. client'[d] = client[d] /\ client[d].request \in Requests /\ client[d].request # r
        BY <1>0, <1>5, <1>10, <2>3, <3>2 DEF CallInv, InCall, TypeInv, ClientType
      <4> QED
        BY <1>0, <1>4, <1>6, <2>3, <4>1 DEF CallInv
    <3> QED
      BY <3>1, <3>2
  <2>4. \A q \in Requests : request'[q].event => request'[q].thread # None
    BY <1>0, <1>4 DEF CallInv
  <2>5. ASSUME NEW q \in Requests PROVE request'[q].refs = One(q \in Held') + One(q \in Called')
    <3>1. CASE q = r
      BY <1>4, <1>6, <1>7, <1>9, <3>1 DEF One
    <3>2. CASE q # r
      BY <1>0, <1>4, <1>6, <1>9, <3>2 DEF One, CallInv
    <3> QED
      BY <3>1, <3>2
  <2> QED
    BY <2>1, <2>2, <2>3, <2>4, <2>5 DEF CallInv
<1>15. OwnInv'
  <2>1. ASSUME NEW d \in Clients, ~client'[d].terminating
        PROVE  /\ client'[d].pc = "wait" => /\ client'[d].request \in Held'
                                            /\ request'[client'[d].request].thread = d
                                            /\ ~request'[client'[d].request].event
               /\ client'[d].event => \E q \in Held' : request'[q].thread = d /\ request'[q].event
               /\ \A q \in Held' : request'[q].thread = d =>
                    IF request'[q].event THEN client'[d].event
                    ELSE client'[d].pc = "wait" /\ client'[d].request = q
               /\ \A q, p \in Held' : /\ request'[q].thread = d /\ request'[q].event
                                      /\ request'[p].thread = d /\ request'[p].event
                                      => q = p
    <3>1. CASE d # c
      <4>1. client'[d] = client[d]
        BY <1>5, <3>1
      <4> QED
        BY <1>0, <1>6, <1>11, <2>1, <4>1 DEF OwnInv
    <3>2. CASE d = c
      <4>1. client'[d].event = client[d].event /\ client'[d].pc # "wait" /\ ~client[d].terminating /\ client[d].pc # "wait"
        BY <1>1, <1>5, <2>1, <3>2
      <4> QED
        BY <1>0, <1>6, <1>11, <2>1, <4>1 DEF OwnInv
    <3> QED
      BY <3>1, <3>2
  <2> QED
    BY <2>1 DEF OwnInv
<1>16. CloserInv'
  BY <1>0, <1>1, <1>6, <1>11 DEF CloserInv
<1> QED
  BY <1>12, <1>13, <1>14, <1>15, <1>16 DEF SessionInv

LEMMA OnRequestSession ==
    ASSUME SessionInv, NEW c \in Clients, OnRequest(c)
    PROVE  SessionInv'
<1> DEFINE r == client[c].request
<1>0. /\ TypeInv /\ LockInv /\ PlaceInv /\ CallInv /\ OwnInv /\ CloserInv
      /\ None \notin Clients /\ None \notin Requests
  BY NoneAssumption DEF SessionInv
<1>1. /\ client[c].pc = "send"
      /\ UNCHANGED <<m_state, m_lock, m_current_request, handle, closer, destroyer, server>>
  BY DEF OnRequest
<1>2. /\ r \in Requests /\ r \notin Held /\ request[r].thread = c
      /\ request[r].event => ~client[c].event
  BY <1>0, <1>1 DEF CallInv, InCall, TypeInv, ClientType
<1>3. \A d \in Clients \ {c} : client[d].request # r
  BY <1>0, <1>2 DEF CallInv
<1>4. closer.pc = "idle"
  BY <1>0, <1>1 DEF CloserInv, InCall
<1>5. client[c] \in ClientType /\ client \in [Clients -> ClientType] /\ request[r] \in RequestType
      /\ request \in [Requests -> RequestType]
  BY <1>0, <1>2 DEF TypeInv
<1>6. CASE m_state # "Normal" \/ client[c].terminating
  <2>1. client' = [client EXCEPT ![c].pc = "return"] /\ UNCHANGED <<m_request_list, request>>
    BY <1>6 DEF OnRequest
  <2>2. /\ client' \in [Clients -> ClientType]
        /\ client'[c].pc = "return" /\ client'[c].request = client[c].request
        /\ client'[c].terminating = client[c].terminating /\ client'[c].event = client[c].event
        /\ \A d \in Clients \ {c} : client'[d] = client[d]
    BY <1>5, <2>1 DEF ClientType
  <2>3. Held' = Held
    BY <1>1, <2>1 DEF Held
  <2>4. Called' = Called
    BY <2>2 DEF Called
  <2>5. TypeInv' /\ LockInv' /\ PlaceInv'
    BY <1>0, <1>1, <2>1, <2>2 DEF TypeInv, LockInv, PlaceInv
  <2>6. CallInv'
    <3>1. \A d \in Clients : InCall(d)' <=> InCall(d)
      BY <1>1, <2>2 DEF InCall
    <3>2. \A d \in Clients : client'[d].request = client[d].request
      BY <2>2
    <3>3. \A d \in Clients : client'[d].pc = "send" => client'[d] = client[d]
      BY <2>2
    <3> QED
      BY <1>0, <2>1, <2>3, <2>4, <3>1, <3>2, <3>3 DEF CallInv
  <2>7. OwnInv'
    <3>1. \A d \in Clients : /\ client'[d].pc = "wait" <=> client[d].pc = "wait"
                             /\ client'[d].request = client[d].request
                             /\ client'[d].terminating = client[d].terminating
                             /\ client'[d].event = client[d].event
      BY <1>1, <2>2
    <3> QED
      BY <1>0, <2>1, <2>3, <3>1 DEF OwnInv
  <2>8. CloserInv'
    BY <1>0, <1>1, <1>4, <2>1, <2>3 DEF CloserInv
  <2> QED
    BY <2>5, <2>6, <2>7, <2>8 DEF SessionInv
<1>7. CASE ~(m_state # "Normal" \/ client[c].terminating)
  <2>1. /\ request' = [request EXCEPT ![r].refs = @ + 1]
        /\ m_request_list' = Append(m_request_list, r)
        /\ client' = IF request[r].event THEN [client EXCEPT ![c].pc = "return", ![c].event = TRUE]
                                         ELSE [client EXCEPT ![c].pc = "wait"]
    BY <1>7 DEF OnRequest
  <2>2. /\ client' \in [Clients -> ClientType]
        /\ client'[c].pc = IF request[r].event THEN "return" ELSE "wait"
        /\ client'[c].request = client[c].request
        /\ client'[c].terminating = client[c].terminating
        /\ request[r].event => client'[c].event
        /\ ~request[r].event => client'[c].event = client[c].event
        /\ \A d \in Clients \ {c} : client'[d] = client[d]
    <3>1. CASE request[r].event
      <4> DEFINE f == [client[c] EXCEPT !.pc = "return", !.event = TRUE]
      <4>1. client' = [client EXCEPT ![c] = f]
        BY <1>5, <2>1, <3>1
      <4>2. f \in ClientType /\ f.pc = "return" /\ f.request = client[c].request
            /\ f.terminating = client[c].terminating /\ f.event
        BY <1>5 DEF ClientType
      <4> QED
        BY <1>5, <3>1, <4>1, <4>2
    <3>2. CASE ~request[r].event
      <4> DEFINE f == [client[c] EXCEPT !.pc = "wait"]
      <4>1. client' = [client EXCEPT ![c] = f]
        BY <1>5, <2>1, <3>2
      <4>2. f \in ClientType /\ f.pc = "wait" /\ f.request = client[c].request
            /\ f.terminating = client[c].terminating /\ f.event = client[c].event
        BY <1>5 DEF ClientType
      <4> QED
        BY <1>5, <3>2, <4>1, <4>2
    <3> QED
      BY <3>1, <3>2
  <2>3. /\ request' \in [Requests -> RequestType]
        /\ request'[r].refs = request[r].refs + 1
        /\ request'[r].thread = request[r].thread /\ request'[r].event = request[r].event
        /\ \A q \in Requests \ {r} : request'[q] = request[q]
    BY <1>2, <1>5, <2>1 DEF RequestType
  <2>4. r \notin Members(m_request_list)
    BY <1>2 DEF Held
  <2>5. /\ m_request_list' \in Seq(Requests) /\ Distinct(m_request_list')
        /\ Members(m_request_list') = Members(m_request_list) \cup {r}
    BY <1>0, <1>2, <2>1, <2>4, AppendFacts DEF TypeInv, PlaceInv
  <2>6. Held' = Held \cup {r} /\ Held \subseteq Requests
    BY <1>1, <1>2, <2>5 DEF Held
  <2>7. Called' = Called /\ r \in Called
    BY <1>2, <2>2 DEF Called
  <2>8. TypeInv' /\ LockInv'
    BY <1>0, <1>1, <2>2, <2>3, <2>5 DEF TypeInv, LockInv
  <2>9. PlaceInv'
    <3>1. r # m_current_request /\ r # destroyer.request /\ \A s \in Servers : server[s].request # r
      BY <1>2 DEF Held
    <3> QED
      BY <1>0, <1>1, <2>5, <3>1 DEF PlaceInv
  <2>10. CallInv'
    <3>1. \A d \in Clients : InCall(d)' <=> InCall(d)
      BY <1>1, <2>2 DEF InCall
    <3>2. \A d \in Clients : client'[d].request = client[d].request
      BY <2>2
    <3>3. ASSUME NEW d \in Clients, client'[d].pc = "send"
          PROVE  /\ client'[d].request \notin Held'
                 /\ request'[client'[d].request].thread = d
                 /\ request'[client'[d].request].event => ~client'[d].event
      <4>1. d # c /\ client'[d] = client[d]
        BY <2>2, <3>3
      <4>2. client[d].request \in Requests /\ client[d].request # r
        BY <1>0, <1>3, <3>3, <4>1 DEF CallInv, InCall, TypeInv, ClientType
      <4> QED
        BY <1>0, <2>3, <2>6, <3>3, <4>1, <4>2 DEF CallInv
    <3>4. \A q \in Requests : request'[q].event => request'[q].thread # None
      BY <1>0, <1>2, <2>3 DEF CallInv
    <3>5. ASSUME NEW q \in Requests PROVE request'[q].refs = One(q \in Held') + One(q \in Called')
      <4>1. CASE q = r
        BY <1>0, <1>2, <2>3, <2>6, <2>7, <4>1 DEF One, CallInv
      <4>2. CASE q # r
        BY <1>0, <2>3, <2>6, <2>7, <4>2 DEF One, CallInv
      <4> QED
        BY <4>1, <4>2
    <3> QED
      BY <1>0, <3>1, <3>2, <3>3, <3>4, <3>5 DEF CallInv
  <2>11. \A q \in Held : q # r /\ request'[q] = request[q]
    BY <1>2, <2>3, <2>6
  <2>12. OwnInv'
    <3>1. ASSUME NEW d \in Clients, ~client'[d].terminating
          PROVE  /\ client'[d].pc = "wait" => /\ client'[d].request \in Held'
                                              /\ request'[client'[d].request].thread = d
                                              /\ ~request'[client'[d].request].event
                 /\ client'[d].event => \E q \in Held' : request'[q].thread = d /\ request'[q].event
                 /\ \A q \in Held' : request'[q].thread = d =>
                      IF request'[q].event THEN client'[d].event
                      ELSE client'[d].pc = "wait" /\ client'[d].request = q
                 /\ \A q, p \in Held' : /\ request'[q].thread = d /\ request'[q].event
                                        /\ request'[p].thread = d /\ request'[p].event
                                        => q = p
      <4>1. CASE d # c
        <5>1. client'[d] = client[d] /\ request'[r].thread # d
          BY <1>2, <2>2, <2>3, <4>1
        <5> QED
          BY <1>0, <2>6, <2>11, <3>1, <5>1 DEF OwnInv
      <4>2. CASE d = c
        <5>1. ~client[c].terminating /\ request'[r].thread = c /\ request'[r].event = request[r].event
          BY <1>2, <2>2, <2>3, <3>1, <4>2
        <5>2. \A q \in Held : request[q].thread = c => request[q].event /\ client[c].event
          BY <1>0, <1>1, <5>1 DEF OwnInv
        <5>3. CASE request[r].event
          <6>1. \A q \in Held : request[q].thread # c
            BY <1>2, <5>2, <5>3
          <6> QED
            BY <2>2, <2>6, <2>11, <4>2, <5>1, <5>3, <6>1
        <5>4. CASE ~request[r].event
          <6>1. client'[c].pc = "wait" /\ client'[c].request = r /\ client'[c].event = client[c].event
            BY <2>2, <5>4
          <6>2. client[c].event => \E q \in Held : request[q].thread = c /\ request[q].event
            BY <1>0, <5>1 DEF OwnInv
          <6>3. \A q, p \in Held : /\ request[q].thread = c /\ request[q].event
                                   /\ request[p].thread = c /\ request[p].event
                                   => q = p
            BY <1>0, <5>1 DEF OwnInv
          <6> QED
            BY <2>6, <2>11, <4>2, <5>1, <5>2, <5>4, <6>1, <6>2, <6>3
        <5> QED
          BY <5>3, <5>4
      <4> QED
        BY <4>1, <4>2
    <3> QED
      BY <3>1 DEF OwnInv
  <2>13. CloserInv'
    BY <1>0, <1>1, <1>2, <1>4, <2>3, <2>6, <2>11 DEF CloserInv
  <2> QED
    BY <2>8, <2>9, <2>10, <2>12, <2>13 DEF SessionInv
<1> QED
  BY <1>6, <1>7

LEMMA ReturnSession ==
    ASSUME SessionInv, NEW c \in Clients, Return(c)
    PROVE  SessionInv'
<1> DEFINE r == client[c].request
           p == IF client[c].terminating THEN "dead" ELSE "user"
<1>0. /\ TypeInv /\ LockInv /\ PlaceInv /\ CallInv /\ OwnInv /\ CloserInv
      /\ None \notin Clients /\ None \notin Requests
  BY NoneAssumption DEF SessionInv
<1>1. /\ client[c].pc = "return"
      /\ request' = Close(request, r)
      /\ UNCHANGED <<m_state, m_lock, m_request_list, m_current_request, handle, destroyer, server>>
  BY DEF Return
<1>2. InCall(c) /\ r \in Requests /\ r \in Called
  BY <1>0, <1>1 DEF CallInv, InCall, TypeInv, ClientType, Called
<1>3. closer.pc = "idle" /\ closer.prev = None
  BY <1>0, <1>2 DEF CloserInv
<1>4. request[r].refs # 0 /\ request[r].refs = One(r \in Held) + 1
  BY <1>0, <1>2 DEF CallInv, One
<1>5. /\ request' \in [Requests -> RequestType]
      /\ \A q \in Requests \ {r} : request'[q] = request[q]
      /\ request'[r].refs = request[r].refs - 1
      /\ request[r].refs = 1 => request'[r].thread = None /\ ~request'[r].event
      /\ request[r].refs # 1 => request'[r].thread = request[r].thread /\ request'[r].event = request[r].event
  BY <1>0, <1>1, <1>2, <1>4, CloseFacts
<1>6. /\ client' \in [Clients -> ClientType]
      /\ client'[c].pc = p /\ client'[c].request = None
      /\ client'[c].terminating = client[c].terminating /\ client'[c].event = client[c].event
      /\ \A d \in Clients \ {c} : client'[d] = client[d]
  <2>1. client' = [client EXCEPT ![c].pc = p, ![c].request = None]
    BY DEF Return
  <2>2. p \in {"user", "dead"}
    OBVIOUS
  <2>3. client \in [Clients -> ClientType] /\ client[c] \in ClientType
    BY <1>0 DEF TypeInv
  <2> DEFINE f == [client[c] EXCEPT !.pc = p, !.request = None]
  <2>4. client' = [client EXCEPT ![c] = f]
    BY <2>1, <2>3
  <2> HIDE DEF p
  <2>5. f \in ClientType /\ f.pc = p /\ f.request = None
        /\ f.terminating = client[c].terminating /\ f.event = client[c].event
    BY <2>2, <2>3 DEF ClientType
  <2> HIDE DEF f
  <2> QED
    BY <2>3, <2>4, <2>5
<1>7. p \in {"user", "dead"}
  OBVIOUS
<1> HIDE DEF p
<1>8. Held' = Held /\ Held \subseteq Requests
  BY <1>1 DEF Held
<1>9. Called' = Called \ {r}
  <2>1. \A d \in Clients \ {c} : client[d].request # r
    BY <1>0, <1>2 DEF CallInv
  <2> QED
    BY <1>0, <1>6, <2>1 DEF Called
<1>10. \A q \in Held : request'[q].thread = request[q].thread /\ request'[q].event = request[q].event
  BY <1>4, <1>5, <1>8 DEF One
<1>11. /\ closer'.prev = None /\ closer'.pc \in {"idle", "check"}
       /\ closer'.pc = "check" => ~handle /\ \A d \in Clients \ {c} : ~InCall(d)
       /\ closer' \in [pc : {"idle", "check", "set", "lock", "clean", "done"}, prev : Requests \cup {None}]
  <2>1. closer' = [closer EXCEPT !.pc = IF ~handle /\ \A d \in Clients \ {c} : ~InCall(d) THEN "check" ELSE @]
    BY DEF Return
  <2>2. CASE ~handle /\ \A d \in Clients \ {c} : ~InCall(d)
    <3>1. closer' = [closer EXCEPT !.pc = "check"]
      BY <2>1, <2>2
    <3> QED
      BY <1>0, <1>3, <2>2, <3>1 DEF TypeInv
  <2>3. CASE ~(~handle /\ \A d \in Clients \ {c} : ~InCall(d))
    <3>1. closer' = closer
      BY <1>0, <2>1, <2>3 DEF TypeInv
    <3> QED
      BY <1>0, <1>3, <3>1 DEF TypeInv
  <2> QED
    BY <2>2, <2>3
<1>12. TypeInv'
  BY <1>0, <1>1, <1>5, <1>6, <1>11 DEF TypeInv
<1>13. LockInv'
  BY <1>0, <1>1, <1>11 DEF LockInv
<1>14. PlaceInv'
  BY <1>0, <1>1 DEF PlaceInv
<1>15. CallInv'
  <2>1. \A d \in Clients : InCall(d)' <=> client'[d].request # None
    BY <1>0, <1>6, <1>7 DEF CallInv, InCall
  <2>2. \A d, e \in Clients : client'[d].request = client'[e].request /\ client'[d].request # None => d = e
    BY <1>0, <1>6 DEF CallInv
  <2>3. ASSUME NEW d \in Clients, client'[d].pc = "send"
        PROVE  /\ client'[d].request \notin Held'
               /\ request'[client'[d].request].thread = d
               /\ request'[client'[d].request].event => ~client'[d].event
    <3>1. d # c /\ client'[d] = client[d]
      BY <1>6, <1>7, <2>3
    <3>2. client[d].request \in Requests /\ client[d].request # r
      BY <1>0, <1>2, <2>3, <3>1 DEF CallInv, InCall, TypeInv, ClientType
    <3> QED
      BY <1>0, <1>5, <1>8, <2>3, <3>1, <3>2 DEF CallInv
  <2>4. \A q \in Requests : request'[q].event => request'[q].thread # None
    BY <1>0, <1>5 DEF CallInv
  <2>5. ASSUME NEW q \in Requests PROVE request'[q].refs = One(q \in Held') + One(q \in Called')
    <3>1. CASE q = r
      BY <1>4, <1>5, <1>8, <1>9, <3>1 DEF One
    <3>2. CASE q # r
      BY <1>0, <1>5, <1>8, <1>9, <3>2 DEF One, CallInv
    <3> QED
      BY <3>1, <3>2
  <2> QED
    BY <2>1, <2>2, <2>3, <2>4, <2>5 DEF CallInv
<1>16. OwnInv'
  <2>1. \A d \in Clients : /\ client'[d].pc = "wait" <=> client[d].pc = "wait"
                           /\ client[d].pc = "wait" => client'[d].request = client[d].request
                           /\ client'[d].terminating = client[d].terminating
                           /\ client'[d].event = client[d].event
    BY <1>1, <1>6, <1>7
  <2> QED
    BY <1>0, <1>8, <1>10, <2>1 DEF OwnInv
<1>17. CloserInv'
  <2>1. closer'.pc # "idle" => ~handle' /\ \A d \in Clients : ~InCall(d)'
    BY <1>1, <1>6, <1>7, <1>11 DEF InCall
  <2>2. \A q \in Held' : request'[q].thread = None => closer'.prev = q
    BY <1>0, <1>3, <1>8, <1>10, <1>11 DEF CloserInv
  <2> QED
    BY <1>11, <2>1, <2>2 DEF CloserInv
<1> QED
  BY <1>12, <1>13, <1>14, <1>15, <1>16, <1>17 DEF SessionInv

LEMMA RequestTerminateSession ==
    ASSUME SessionInv, NEW c \in Clients, RequestTerminate(c)
    PROVE  SessionInv'
<1> DEFINE p == CASE client[c].pc = "wait" -> "return"
                  [] client[c].pc = "user" -> "dead"
                  [] OTHER -> client[c].pc
<1>0. TypeInv /\ LockInv /\ PlaceInv /\ CallInv /\ OwnInv /\ CloserInv
  BY DEF SessionInv
<1>1. UNCHANGED <<m_state, m_lock, m_request_list, m_current_request, request, handle, closer, destroyer, server>>
  BY DEF RequestTerminate
<1>2. client \in [Clients -> ClientType] /\ client[c] \in ClientType
  BY <1>0 DEF TypeInv
<1>3. client' = [client EXCEPT ![c].terminating = TRUE, ![c].pc = p]
  BY <1>2 DEF RequestTerminate, ClientType
<1>4. /\ p \in {"user", "send", "wait", "return", "dead"}
      /\ p \in {"send", "wait", "return"} <=> client[c].pc \in {"send", "wait", "return"}
      /\ p = "send" <=> client[c].pc = "send"
  BY <1>2 DEF ClientType
<1> HIDE DEF p
<1>5. /\ client' \in [Clients -> ClientType]
      /\ client'[c].pc = p /\ client'[c].request = client[c].request
      /\ client'[c].terminating /\ client'[c].event = client[c].event
      /\ \A d \in Clients \ {c} : client'[d] = client[d]
  BY <1>2, <1>3, <1>4 DEF ClientType
<1>6. Held' = Held
  BY <1>1 DEF Held
<1>7. Called' = Called
  BY <1>5 DEF Called
<1>8. \A d \in Clients : InCall(d)' <=> InCall(d)
  BY <1>4, <1>5 DEF InCall
<1>9. TypeInv' /\ LockInv' /\ PlaceInv'
  BY <1>0, <1>1, <1>5 DEF TypeInv, LockInv, PlaceInv
<1>10. CallInv'
  <2>1. \A d \in Clients : /\ client'[d].request = client[d].request /\ client'[d].event = client[d].event
                           /\ client'[d].pc = "send" => client[d].pc = "send"
    BY <1>4, <1>5
  <2> QED
    BY <1>0, <1>1, <1>6, <1>7, <1>8, <2>1 DEF CallInv
<1>11. OwnInv'
  <2>1. \A d \in Clients : ~client'[d].terminating => client'[d] = client[d]
    BY <1>5
  <2> QED
    BY <1>0, <1>1, <1>6, <2>1 DEF OwnInv
<1>12. CloserInv'
  BY <1>0, <1>1, <1>6, <1>8 DEF CloserInv
<1> QED
  BY <1>9, <1>10, <1>11, <1>12 DEF SessionInv

LEMMA CloseHandleSession ==
    ASSUME SessionInv, CloseHandle
    PROVE  SessionInv'
<1>0. TypeInv /\ LockInv /\ PlaceInv /\ CallInv /\ OwnInv /\ CloserInv
  BY DEF SessionInv
<1>1. /\ handle /\ ~handle' /\ handle' \in BOOLEAN
      /\ UNCHANGED <<m_state, m_lock, m_request_list, m_current_request, request, client, destroyer, server>>
  BY DEF CloseHandle
<1>2. closer.pc = "idle" /\ closer.prev = None
  BY <1>0, <1>1 DEF CloserInv
<1>3. /\ closer'.prev = None /\ closer'.pc \in {"idle", "check"}
      /\ closer'.pc = "check" => \A d \in Clients : ~InCall(d)
      /\ closer' \in [pc : {"idle", "check", "set", "lock", "clean", "done"}, prev : Requests \cup {None}]
  <2>1. closer' = [closer EXCEPT !.pc = IF \A d \in Clients : ~InCall(d) THEN "check" ELSE @]
    BY DEF CloseHandle
  <2>2. CASE \A d \in Clients : ~InCall(d)
    <3>1. closer' = [closer EXCEPT !.pc = "check"]
      BY <2>1, <2>2
    <3> QED
      BY <1>0, <1>2, <2>2, <3>1 DEF TypeInv
  <2>3. CASE ~(\A d \in Clients : ~InCall(d))
    <3>1. closer' = closer
      BY <1>0, <2>1, <2>3 DEF TypeInv
    <3> QED
      BY <1>0, <1>2, <3>1 DEF TypeInv
  <2> QED
    BY <2>2, <2>3
<1>4. Held' = Held
  BY <1>1 DEF Held
<1>5. Called' = Called /\ \A d \in Clients : InCall(d)' = InCall(d)
  BY <1>1 DEF Called, InCall
<1>6. TypeInv'
  BY <1>0, <1>1, <1>3 DEF TypeInv
<1>7. LockInv' /\ PlaceInv'
  BY <1>0, <1>1, <1>3 DEF LockInv, PlaceInv
<1>8. CallInv' /\ OwnInv'
  BY <1>0, <1>1, <1>4, <1>5 DEF CallInv, OwnInv
<1>9. CloserInv'
  <2>1. \A q \in Held' : request'[q].thread = None => closer'.prev = q
    BY <1>0, <1>1, <1>2, <1>3, <1>4 DEF CloserInv
  <2> QED
    BY <1>1, <1>3, <1>5, <2>1 DEF CloserInv
<1> QED
  BY <1>6, <1>7, <1>8, <1>9 DEF SessionInv

CloserType == [pc : {"idle", "check", "set", "lock", "clean", "done"}, prev : Requests \cup {None}]

\* The closer goes on without touching a request.
LEMMA CloserMoves ==
    ASSUME SessionInv, closer.pc \in {"check", "set", "lock", "clean"},
           UNCHANGED <<m_request_list, m_current_request, request, client, handle, destroyer, server>>,
           m_state' \in {"Normal", "ClientClosed", "ServerClosed"},
           NEW p \in {"set", "lock", "clean", "done"}, closer' = [closer EXCEPT !.pc = p],
           p = "set" => closer.pc = "check",
           p = "lock" => closer.pc = "set",
           p \in {"lock", "clean"} => m_state' # "Normal",
           p = "clean" => m_lock' = "closer" /\ closer.pc = "lock",
           \/ m_lock' = m_lock \/ (p = "clean" /\ m_lock = None)
           \/ closer.pc = "clean"
    PROVE  SessionInv'
<1>0. TypeInv /\ LockInv /\ PlaceInv /\ CallInv /\ OwnInv /\ CloserInv
  BY DEF SessionInv
<1>1. closer'.pc = p /\ closer'.prev = closer.prev /\ closer' \in CloserType
  BY <1>0 DEF TypeInv, CloserType
<1>2. Held' = Held
  BY DEF Held
<1>3. Called' = Called /\ \A d \in Clients : InCall(d)' = InCall(d)
  BY DEF Called, InCall
<1>4. TypeInv'
  BY <1>0, <1>1 DEF TypeInv, CloserType
<1>5. LockInv'
  BY <1>0, <1>1, LockAssumption, NoneAssumption DEF LockInv
<1>6. PlaceInv'
  BY <1>0 DEF PlaceInv
<1>7. CallInv' /\ OwnInv'
  BY <1>0, <1>2, <1>3 DEF CallInv, OwnInv
<1>8. CloserInv'
  BY <1>0, <1>1, <1>2, <1>3 DEF CloserInv
<1> QED
  BY <1>4, <1>5, <1>6, <1>7, <1>8 DEF SessionInv

LEMMA CloserCurrentSession ==
    ASSUME SessionInv, CloserCurrent
    PROVE  SessionInv'
<1> DEFINE r == m_current_request
<1>0. /\ TypeInv /\ LockInv /\ PlaceInv /\ CallInv /\ OwnInv /\ CloserInv
      /\ None \notin Clients /\ None \notin Requests
  BY NoneAssumption DEF SessionInv
<1>1. /\ closer.pc = "clean" /\ r # None /\ r # closer.prev
      /\ closer' = [closer EXCEPT !.prev = r]
      /\ UNCHANGED <<m_state, m_lock, m_request_list, m_current_request, client, handle, destroyer, server>>
  BY DEF CloserCurrent, CloserUnchanged
<1>2. r \in Requests /\ r \in Held /\ closer.prev = None
  BY <1>0, <1>1 DEF TypeInv, Held, CloserInv
<1>3. request[r].thread \in Clients
  BY <1>0, <1>1, <1>2 DEF TypeInv, RequestType, CloserInv
<1>4. closer'.pc = "clean" /\ closer'.prev = r /\ closer' \in CloserType
  BY <1>0, <1>1, <1>2 DEF TypeInv, CloserType
<1>5. Held' = Held /\ Held \subseteq Requests
  BY <1>1 DEF Held
<1>6. Called' = Called /\ \A d \in Clients : InCall(d)' = InCall(d)
  BY <1>1 DEF Called, InCall
<1>7. /\ request' \in [Requests -> RequestType]
      /\ \A q \in Requests \ {r} : request'[q] = request[q]
      /\ request'[r].refs = request[r].refs
      /\ \/ request'[r] = request[r]
         \/ request'[r].thread = None /\ ~request'[r].event /\ client[request[r].thread].terminating
  <2>1. CASE client[request[r].thread].terminating
    <3>1. request' = [request EXCEPT ![r].thread = None, ![r].event = FALSE]
      BY <2>1 DEF CloserCurrent
    <3>2. request \in [Requests -> RequestType] /\ request[r] \in RequestType
      BY <1>0, <1>2 DEF TypeInv
    <3> DEFINE f == [request[r] EXCEPT !.thread = None, !.event = FALSE]
    <3>3. request' = [request EXCEPT ![r] = f]
      BY <1>2, <3>1, <3>2
    <3>4. f \in RequestType /\ f.thread = None /\ ~f.event /\ f.refs = request[r].refs
      BY <3>2 DEF RequestType
    <3> HIDE DEF f
    <3> QED
      BY <1>2, <2>1, <3>2, <3>3, <3>4
  <2>2. CASE ~client[request[r].thread].terminating
    BY <1>0, <2>2 DEF CloserCurrent, TypeInv
  <2> QED
    BY <2>1, <2>2
<1>8. TypeInv'
  BY <1>0, <1>1, <1>4, <1>7 DEF TypeInv, CloserType
<1>9. LockInv' /\ PlaceInv'
  BY <1>0, <1>1, <1>4 DEF LockInv, PlaceInv
<1>10. \A c \in Clients : ~InCall(c)
  BY <1>0, <1>1 DEF CloserInv
<1>11. CallInv'
  <2>1. \A c \in Clients : client'[c].pc # "send"
    BY <1>1, <1>10 DEF InCall
  <2>2. \A q \in Requests : request'[q].refs = request[q].refs
    BY <1>7
  <2>3. \A q \in Requests : request'[q].event => request'[q].thread # None
    BY <1>0, <1>7 DEF CallInv
  <2> QED
    BY <1>0, <1>1, <1>5, <1>6, <2>1, <2>2, <2>3 DEF CallInv
<1>12. OwnInv'
  <2>1. ASSUME NEW d \in Clients, ~client'[d].terminating
        PROVE  /\ client'[d].pc = "wait" => /\ client'[d].request \in Held'
                                            /\ request'[client'[d].request].thread = d
                                            /\ ~request'[client'[d].request].event
               /\ client'[d].event => \E q \in Held' : request'[q].thread = d /\ request'[q].event
               /\ \A q \in Held' : request'[q].thread = d =>
                    IF request'[q].event THEN client'[d].event
                    ELSE client'[d].pc = "wait" /\ client'[d].request = q
               /\ \A q, p \in Held' : /\ request'[q].thread = d /\ request'[q].event
                                      /\ request'[p].thread = d /\ request'[p].event
                                      => q = p
    <3>1. client'[d] = client[d] /\ client[d].pc # "wait" /\ ~client[d].terminating
      BY <1>1, <1>10, <2>1 DEF InCall
    <3>2. \A q \in Held : request'[q].thread = d => request'[q] = request[q]
      BY <1>0, <1>5, <1>7, <2>1
    <3>3. \A q \in Held : request[q].thread = d => request'[q] = request[q]
      BY <1>5, <1>7, <3>1
    <3> QED
      BY <1>0, <1>5, <3>1, <3>2, <3>3 DEF OwnInv
  <2> QED
    BY <2>1 DEF OwnInv
<1>13. CloserInv'
  <2>1. \A q \in Held' : request'[q].thread = None => closer'.prev = q
    BY <1>0, <1>2, <1>4, <1>5, <1>7, NoneAssumption DEF CloserInv
  <2> QED
    BY <1>0, <1>1, <1>4, <1>6, <2>1 DEF CloserInv
<1> QED
  BY <1>8, <1>9, <1>11, <1>12, <1>13 DEF SessionInv

LEMMA CloserPendingSession ==
    ASSUME SessionInv, CloserPending
    PROVE  SessionInv'
<1> DEFINE r == Head(m_request_list)
<1>0. /\ TypeInv /\ LockInv /\ PlaceInv /\ CallInv /\ OwnInv /\ CloserInv
      /\ None \notin Clients /\ None \notin Requests
  BY NoneAssumption DEF SessionInv
<1>1. /\ closer.pc = "clean" /\ m_request_list # <<>>
      /\ m_request_list' = Tail(m_request_list)
      /\ client' = IF request[r].event THEN [client EXCEPT ![request[r].thread].event = FALSE] ELSE client
      /\ request' = Close(request, r)
      /\ UNCHANGED <<m_state, m_lock, m_current_request, handle, closer, destroyer, server>>
  BY DEF CloserPending, CloserUnchanged
<1>2. /\ r \in Requests /\ r \in Members(m_request_list) /\ m_request_list' \in Seq(Requests)
      /\ Distinct(m_request_list') /\ Members(m_request_list') = Members(m_request_list) \ {r}
  BY <1>0, <1>1, TailFacts DEF TypeInv, PlaceInv
<1> HIDE DEF r
<1>3. r # m_current_request /\ r # destroyer.request /\ \A s \in Servers : server[s].request # r
  BY <1>0, <1>2 DEF PlaceInv
<1>4. Held' = Held \ {r} /\ r \in Held
  BY <1>1, <1>2, <1>3 DEF Held
<1>5. \A c \in Clients : ~InCall(c)
  BY <1>0, <1>1 DEF CloserInv
<1>6. client' = Complete(r)
  <2>1. request[r].event => request[r].thread # None
    BY <1>0, <1>2 DEF CallInv
  <2>2. request[r].thread \in Clients \cup {None}
    BY <1>0, <1>2 DEF TypeInv, RequestType
  <2>3. request[r].thread \in Clients => client[request[r].thread].pc # "wait"
    BY <1>5 DEF InCall
  <2> QED
    BY <1>1, <2>1, <2>2, <2>3 DEF Complete
<1>7. /\ request' \in [Requests -> RequestType] /\ client' \in [Clients -> ClientType]
      /\ CallInv' /\ OwnInv'
      /\ \A c \in Clients : InCall(c)' <=> InCall(c)
      /\ \A q \in Held' : request'[q] = request[q]
  BY <1>1, <1>4, <1>6, Release
<1>8. TypeInv' /\ LockInv'
  BY <1>0, <1>1, <1>2, <1>7 DEF TypeInv, LockInv
<1>9. PlaceInv'
  BY <1>0, <1>1, <1>2 DEF PlaceInv
<1>10. CloserInv'
  BY <1>0, <1>1, <1>4, <1>7 DEF CloserInv
<1> QED
  BY <1>7, <1>8, <1>9, <1>10 DEF SessionInv

LEMMA CloserSession ==
    ASSUME SessionInv, CloserStep
    PROVE  SessionInv'
<1>0. TypeInv /\ CloserInv /\ LockInv
  BY DEF SessionInv
<1>1. CASE CloserCheck
  <2>1. CASE m_state = "Normal"
    <3>1. closer' = [closer EXCEPT !.pc = "set"] /\ m_state' = m_state /\ m_lock' = m_lock
      BY <1>1, <2>1 DEF CloserCheck
    <3> QED
      BY <1>0, <1>1, <3>1, CloserMoves DEF CloserCheck, CloserUnchanged, TypeInv
  <2>2. CASE m_state # "Normal"
    <3>1. closer' = [closer EXCEPT !.pc = "done"] /\ m_state' = m_state /\ m_lock' = m_lock
      BY <1>1, <2>2 DEF CloserCheck
    <3> QED
      BY <1>0, <1>1, <3>1, CloserMoves DEF CloserCheck, CloserUnchanged, TypeInv
  <2> QED
    BY <2>1, <2>2
<1>2. CASE CloserSet
  BY <1>0, <1>2, CloserMoves DEF CloserSet, CloserUnchanged
<1>3. CASE CloserLock
  BY <1>0, <1>3, CloserMoves DEF CloserLock, CloserUnchanged, CloserInv, TypeInv
<1>4. CASE CloserCurrent
  BY <1>4, CloserCurrentSession
<1>5. CASE CloserPending
  BY <1>5, CloserPendingSession
<1>6. CASE CloserEnd
  BY <1>0, <1>6, CloserMoves DEF CloserEnd, CloserUnchanged, TypeInv
<1> QED
  BY <1>1, <1>2, <1>3, <1>4, <1>5, <1>6 DEF CloserStep

DestroyerType == [pc : {"idle", "check", "set", "lock", "clean", "reply", "done"},
                  request : Requests \cup {None}]

\* The destroyer's steps.  It takes the current request only while it has the lock.
LEMMA DestroyerTakeSession ==
    ASSUME SessionInv, DestroyerTake
    PROVE  SessionInv'
<1>0. /\ TypeInv /\ LockInv /\ PlaceInv /\ CallInv /\ OwnInv /\ CloserInv
      /\ None \notin Clients /\ None \notin Requests
  BY NoneAssumption DEF SessionInv
<1>1. /\ destroyer.pc = "clean" /\ destroyer.request = None /\ m_lock = "destroyer"
      /\ UNCHANGED <<m_state, request, client, handle, closer, server, wait>>
  BY <1>0 DEF DestroyerTake, DestroyerUnchanged, LockInv, PlaceInv
<1>2. closer.pc # "clean" /\ \A s \in Servers : server[s].pc \notin Locked /\ server[s].request = None
  <2>1. closer.pc # "clean" /\ \A s \in Servers : server[s].pc \notin Locked
    BY <1>0, <1>1, LockAssumption DEF LockInv
  <2> QED
    BY <1>0, <2>1 DEF PlaceInv, Locked
<1>3. CASE /\ m_current_request # None
           /\ destroyer' = [pc |-> "reply", request |-> m_current_request]
           /\ m_current_request' = None
           /\ UNCHANGED <<m_request_list, m_lock>>
  <2>1. /\ destroyer'.pc = "reply" /\ destroyer'.request = m_current_request /\ m_current_request \in Requests
        /\ destroyer' \in DestroyerType
    BY <1>0, <1>3 DEF TypeInv, DestroyerType
  <2>2. TypeInv' /\ LockInv'
    BY <1>0, <1>1, <1>3, <2>1 DEF TypeInv, LockInv, DestroyerType
  <2>3. None \notin Members(m_request_list)
    BY <1>0 DEF TypeInv, Members
  <2>4. PlaceInv'
    BY <1>0, <1>1, <1>2, <1>3, <2>1, <2>3 DEF PlaceInv
  <2>5. Held' = Held
    BY <1>0, <1>1, <1>2, <1>3, <2>1 DEF Held
  <2> QED
    BY <1>1, <1>2, <2>2, <2>4, <2>5, Move
<1>4. CASE /\ m_current_request = None /\ m_request_list # <<>>
           /\ destroyer' = [pc |-> "reply", request |-> Head(m_request_list)]
           /\ m_request_list' = Tail(m_request_list)
           /\ UNCHANGED <<m_current_request, m_lock>>
  <2> DEFINE r == Head(m_request_list)
  <2>1. /\ r \in Requests /\ r \in Members(m_request_list) /\ m_request_list' \in Seq(Requests)
        /\ Distinct(m_request_list') /\ Members(m_request_list') = Members(m_request_list) \ {r}
    BY <1>0, <1>4, TailFacts DEF TypeInv, PlaceInv
  <2>2. destroyer'.pc = "reply" /\ destroyer'.request = r /\ destroyer' \in DestroyerType
    BY <1>4, <2>1 DEF DestroyerType
  <2> HIDE DEF r
  <2>3. TypeInv' /\ LockInv'
    BY <1>0, <1>1, <1>4, <2>1, <2>2 DEF TypeInv, LockInv, DestroyerType
  <2>4. PlaceInv'
    BY <1>0, <1>1, <1>2, <1>4, <2>1, <2>2 DEF PlaceInv
  <2>5. Held' = Held
    BY <1>0, <1>1, <1>2, <1>4, <2>1, <2>2 DEF Held
  <2> QED
    BY <1>1, <1>2, <2>3, <2>4, <2>5, Move
<1>5. CASE /\ m_current_request = None /\ m_request_list = <<>>
           /\ destroyer' = [pc |-> "done", request |-> None]
           /\ m_lock' = None
           /\ UNCHANGED <<m_current_request, m_request_list>>
  <2>1. destroyer'.pc = "done" /\ destroyer'.request = None /\ destroyer' \in DestroyerType
    BY <1>5 DEF DestroyerType
  <2>2. TypeInv' /\ LockInv'
    BY <1>0, <1>1, <1>2, <1>5, <2>1 DEF TypeInv, LockInv, DestroyerType
  <2>3. PlaceInv'
    BY <1>0, <1>1, <1>5, <2>1 DEF PlaceInv
  <2>4. Held' = Held
    BY <1>1, <1>5, <2>1 DEF Held
  <2> QED
    BY <1>1, <1>2, <2>2, <2>3, <2>4, Move
<1> QED
  BY <1>3, <1>4, <1>5 DEF DestroyerTake

LEMMA DestroyerReplySession ==
    ASSUME SessionInv, DestroyerReply
    PROVE  SessionInv'
<1> DEFINE r == destroyer.request
<1>0. /\ TypeInv /\ LockInv /\ PlaceInv /\ CallInv /\ OwnInv /\ CloserInv
      /\ None \notin Clients /\ None \notin Requests
  BY NoneAssumption DEF SessionInv
<1>1. /\ destroyer.pc = "reply" /\ client' = Complete(r) /\ request' = Close(request, r)
      /\ destroyer' = [pc |-> "clean", request |-> None]
      /\ UNCHANGED <<m_state, m_lock, m_request_list, m_current_request, handle, closer, server>>
  BY DEF DestroyerReply, DestroyerUnchanged
<1>2. m_lock = "destroyer" /\ r \in Requests /\ r # m_current_request /\ r \notin Members(m_request_list)
  BY <1>0, <1>1 DEF LockInv, PlaceInv, TypeInv
<1>3. closer.pc # "clean" /\ \A s \in Servers : server[s].pc \notin Locked /\ server[s].request = None
  <2>1. closer.pc # "clean" /\ \A s \in Servers : server[s].pc \notin Locked
    BY <1>0, <1>2, LockAssumption DEF LockInv
  <2> QED
    BY <1>0, <2>1 DEF PlaceInv, Locked
<1>4. destroyer'.pc = "clean" /\ destroyer'.request = None /\ destroyer' \in DestroyerType
  BY <1>1 DEF DestroyerType
<1>5. Held' = Held \ {r} /\ r \in Held
  BY <1>0, <1>1, <1>2, <1>3, <1>4 DEF Held
<1>6. /\ request' \in [Requests -> RequestType] /\ client' \in [Clients -> ClientType]
      /\ CallInv' /\ OwnInv'
      /\ \A c \in Clients : InCall(c)' <=> InCall(c)
      /\ \A q \in Held' : request'[q] = request[q]
  BY <1>1, <1>5, Release
<1>7. TypeInv' /\ LockInv'
  BY <1>0, <1>1, <1>2, <1>4, <1>6 DEF TypeInv, LockInv, DestroyerType
<1>8. None \notin Members(m_request_list)
  BY <1>0 DEF TypeInv, Members
<1>9. PlaceInv'
  BY <1>0, <1>1, <1>4, <1>8 DEF PlaceInv
<1>10. CloserInv'
  BY <1>0, <1>1, <1>5, <1>6 DEF CloserInv
<1> QED
  BY <1>6, <1>7, <1>9, <1>10 DEF SessionInv

\* The destroyer goes on without touching a request.
LEMMA DestroyerMoves ==
    ASSUME SessionInv, destroyer.pc \in {"idle", "check", "set", "lock"},
           UNCHANGED <<m_request_list, m_current_request, request, client, handle, closer>>,
           m_state' = m_state \/ m_state' = "ServerClosed",
           NEW p \in {"check", "set", "lock", "clean"}, destroyer' = [destroyer EXCEPT !.pc = p],
           \/ m_lock' = m_lock /\ p # "clean"
           \/ m_lock = None /\ p = "clean" /\ m_lock' = "destroyer",
           server' \in [Servers -> ServerType],
           \A u \in Servers : /\ server'[u].request = server[u].request
                              /\ server'[u].pc \in Locked => server'[u].pc = server[u].pc
                              /\ server[u].pc \in Locked => server'[u].pc = server[u].pc
    PROVE  SessionInv'
<1>0. /\ TypeInv /\ LockInv /\ PlaceInv /\ CallInv /\ OwnInv /\ CloserInv
  BY DEF SessionInv
<1>1. destroyer'.pc = p /\ destroyer'.request = destroyer.request /\ destroyer' \in DestroyerType
  BY <1>0 DEF TypeInv, DestroyerType
<1>2. Held' = Held
  BY <1>1 DEF Held
<1>3. Called' = Called /\ \A d \in Clients : InCall(d)' = InCall(d)
  BY DEF Called, InCall
<1>4. TypeInv'
  BY <1>0, <1>1 DEF TypeInv, DestroyerType
<1>5. LockInv'
  BY <1>0, <1>1, LockAssumption, NoneAssumption DEF LockInv
<1>6. PlaceInv'
  BY <1>0, <1>1 DEF PlaceInv, Locked
<1>7. CallInv' /\ OwnInv'
  BY <1>0, <1>2, <1>3 DEF CallInv, OwnInv
<1>8. CloserInv'
  BY <1>0, <1>2, <1>3 DEF CloserInv
<1> QED
  BY <1>4, <1>5, <1>6, <1>7, <1>8 DEF SessionInv

LEMMA DestroyerSession ==
    ASSUME SessionInv, DestroyerStep
    PROVE  SessionInv'
<1>0. TypeInv
  BY DEF SessionInv
<1>1. CASE DestroyerCheck
  <2>1. CASE m_state = "Normal"
    <3>1. destroyer' = [destroyer EXCEPT !.pc = "set"]
      BY <1>1, <2>1 DEF DestroyerCheck
    <3> QED
      BY <1>0, <1>1, <3>1, DestroyerMoves DEF DestroyerCheck, DestroyerUnchanged, TypeInv
  <2>2. CASE m_state # "Normal"
    <3>1. destroyer' = [destroyer EXCEPT !.pc = "lock"]
      BY <1>1, <2>2 DEF DestroyerCheck
    <3> QED
      BY <1>0, <1>1, <3>1, DestroyerMoves DEF DestroyerCheck, DestroyerUnchanged, TypeInv
  <2> QED
    BY <2>1, <2>2
<1>2. CASE DestroyerSet
  BY <1>0, <1>2, DestroyerMoves DEF DestroyerSet, DestroyerUnchanged, TypeInv
<1>3. CASE DestroyerLock
  BY <1>0, <1>3, DestroyerMoves DEF DestroyerLock, DestroyerUnchanged, TypeInv
<1>4. CASE DestroyerTake
  BY <1>4, DestroyerTakeSession
<1>5. CASE DestroyerReply
  BY <1>5, DestroyerReplySession
<1> QED
  BY <1>1, <1>2, <1>3, <1>4, <1>5 DEF DestroyerStep

\* Whoever is in a critical section of the lock is alone in it.
LEMMA Alone ==
    ASSUME SessionInv, NEW s \in Servers, server[s].pc \in Locked
    PROVE  /\ closer.pc # "clean" /\ destroyer.pc \notin {"clean", "reply"} /\ destroyer.request = None
           /\ \A u \in Servers \ {s} : server[u].pc \notin Locked /\ server[u].request = None
<1>1. LockInv /\ PlaceInv
  BY DEF SessionInv
<1>2. /\ closer.pc # "clean" /\ destroyer.pc \notin {"clean", "reply"}
      /\ \A u \in Servers \ {s} : server[u].pc \notin Locked
  BY <1>1, LockAssumption DEF LockInv
<1> QED
  BY <1>1, <1>2 DEF PlaceInv, Locked

LEMMA LockSessionSession ==
    ASSUME SessionInv, NEW s \in Servers, LockSession(s)
    PROVE  SessionInv'
<1> DEFINE p == IF server[s].pc = "receive" THEN "pop" ELSE "take"
<1>0. TypeInv /\ LockInv /\ PlaceInv
  BY DEF SessionInv
<1>1. /\ server[s].pc \in {"receive", "reply"} /\ m_lock = None /\ m_lock' = s
      /\ UNCHANGED <<m_state, m_request_list, m_current_request, request, client, handle, closer, destroyer>>
  BY DEF LockSession
<1>2. Goto(s, p) /\ p \in {"pop", "take"} /\ p \in ServerPCs
  BY <1>0 DEF LockSession, Goto, TypeInv, ServerPCs
<1> HIDE DEF p
<1>3. /\ server' \in [Servers -> ServerType] /\ server'[s].pc = p
      /\ server'[s].request = server[s].request
      /\ \A u \in Servers \ {s} : server'[u] = server[u]
  BY <1>0, <1>2, GotoFacts
<1>4. server[s].request = None
  BY <1>0, <1>1 DEF PlaceInv
<1>5. TypeInv'
  BY <1>0, <1>1, <1>3 DEF TypeInv
<1>6. LockInv'
  BY <1>0, <1>1, <1>2, <1>3, NoneAssumption, LockAssumption DEF LockInv
<1>7. PlaceInv'
  BY <1>0, <1>1, <1>2, <1>3, <1>4 DEF PlaceInv
<1>8. Held' = Held
  BY <1>1, <1>3 DEF Held
<1> QED
  BY <1>1, <1>5, <1>6, <1>7, <1>8, Move

LEMMA ReceivePopSession ==
    ASSUME SessionInv, NEW s \in Servers, ReceivePop(s)
    PROVE  SessionInv'
<1>0. TypeInv /\ LockInv /\ PlaceInv /\ None \notin Requests
  BY NoneAssumption DEF SessionInv
<1>1. /\ server[s].pc = "pop" /\ server[s].request = None
      /\ UNCHANGED <<m_state, m_current_request, request, client, handle, closer, destroyer>>
  BY <1>0 DEF ReceivePop, PlaceInv
<1>2. /\ closer.pc # "clean" /\ destroyer.pc \notin {"clean", "reply"} /\ destroyer.request = None
      /\ \A u \in Servers \ {s} : server[u].pc \notin Locked /\ server[u].request = None
  BY <1>1, Alone DEF Locked
<1>3. ASSUME NEW p \in {"closed", "NotFound"}, Goto(s, p), m_lock' = None, UNCHANGED m_request_list
      PROVE  SessionInv'
  <2>1. /\ server' \in [Servers -> ServerType] /\ server'[s].pc = p
        /\ server'[s].request = server[s].request
        /\ \A u \in Servers \ {s} : server'[u] = server[u]
    BY <1>0, <1>3, GotoFacts DEF ServerPCs
  <2>2. TypeInv'
    BY <1>0, <1>1, <1>3, <2>1 DEF TypeInv
  <2>3. LockInv'
    BY <1>1, <1>2, <1>3, <2>1 DEF LockInv, Locked
  <2>4. PlaceInv'
    BY <1>0, <1>1, <1>3, <2>1 DEF PlaceInv
  <2>5. Held' = Held
    BY <1>1, <1>3, <2>1 DEF Held
  <2> QED
    BY <1>1, <2>2, <2>3, <2>4, <2>5, Move
<1>4. ASSUME m_current_request = None, m_request_list # <<>>,
             server' = [server EXCEPT ![s].pc = "received", ![s].request = Head(m_request_list)],
             m_request_list' = Tail(m_request_list), UNCHANGED m_lock
      PROVE  SessionInv'
  <2> DEFINE r == Head(m_request_list)
  <2>1. /\ r \in Requests /\ r \in Members(m_request_list) /\ m_request_list' \in Seq(Requests)
        /\ Distinct(m_request_list') /\ Members(m_request_list') = Members(m_request_list) \ {r}
    BY <1>0, <1>4, TailFacts DEF TypeInv, PlaceInv
  <2>2. /\ server' \in [Servers -> ServerType] /\ server'[s].pc = "received" /\ server'[s].request = r
        /\ \A u \in Servers \ {s} : server'[u] = server[u]
    BY <1>0, <1>4, <2>1, RequestFacts DEF ServerPCs
  <2> HIDE DEF r
  <2>3. TypeInv'
    BY <1>0, <1>1, <2>1, <2>2 DEF TypeInv
  <2>4. LockInv'
    BY <1>0, <1>1, <1>2, <1>4, <2>2 DEF LockInv, Locked
  <2>5. None \notin Members(m_request_list)
    BY <1>0 DEF TypeInv, Members
  <2>6. PlaceInv'
    BY <1>0, <1>1, <1>2, <1>4, <2>1, <2>2, <2>5 DEF PlaceInv, Locked
  <2>7. Held' = Held
    BY <1>0, <1>1, <1>2, <1>4, <2>1, <2>2 DEF Held
  <2> QED
    BY <1>1, <2>3, <2>4, <2>6, <2>7, Move
<1>5. CASE m_state # "Normal"
  <2>1. Goto(s, "closed") /\ m_lock' = None /\ UNCHANGED m_request_list
    BY <1>5 DEF ReceivePop, Goto
  <2> QED
    BY <1>3, <2>1
<1>6. CASE m_state = "Normal" /\ (m_current_request # None \/ m_request_list = <<>>)
  <2>1. Goto(s, "NotFound") /\ m_lock' = None /\ UNCHANGED m_request_list
    BY <1>6 DEF ReceivePop, Goto
  <2> QED
    BY <1>3, <2>1
<1>7. CASE m_state = "Normal" /\ ~(m_current_request # None \/ m_request_list = <<>>)
  <2>1. /\ server' = [server EXCEPT ![s].pc = "received", ![s].request = Head(m_request_list)]
        /\ m_request_list' = Tail(m_request_list) /\ UNCHANGED m_lock
    BY <1>7 DEF ReceivePop
  <2> QED
    BY <1>4, <1>7, <2>1
<1> QED
  BY <1>5, <1>6, <1>7

LEMMA ReceiveSetCurrentSession ==
    ASSUME SessionInv, NEW s \in Servers, ReceiveSetCurrent(s)
    PROVE  SessionInv'
<1> DEFINE r == server[s].request
<1>0. TypeInv /\ LockInv /\ PlaceInv /\ None \notin Requests
  BY NoneAssumption DEF SessionInv
<1>1. /\ server[s].pc = "received" /\ m_current_request' = r /\ m_lock' = None
      /\ server' = [server EXCEPT ![s].pc = "handle", ![s].request = None]
      /\ UNCHANGED <<m_state, m_request_list, request, client, handle, closer, destroyer>>
  BY DEF ReceiveSetCurrent
<1>2. /\ m_current_request = None /\ r \in Requests /\ r \notin Members(m_request_list)
  BY <1>0, <1>1 DEF PlaceInv, TypeInv, ServerType
<1>3. /\ closer.pc # "clean" /\ destroyer.pc \notin {"clean", "reply"} /\ destroyer.request = None
      /\ \A u \in Servers \ {s} : server[u].pc \notin Locked /\ server[u].request = None
  BY <1>1, Alone DEF Locked
<1>4. /\ server' \in [Servers -> ServerType] /\ server'[s].pc = "handle" /\ server'[s].request = None
      /\ \A u \in Servers \ {s} : server'[u] = server[u]
  BY <1>0, <1>1, RequestFacts DEF ServerPCs
<1>5. TypeInv'
  BY <1>0, <1>1, <1>2, <1>4 DEF TypeInv
<1>6. LockInv'
  BY <1>0, <1>1, <1>3, <1>4 DEF LockInv, Locked
<1>7. None \notin Members(m_request_list)
  BY <1>0 DEF TypeInv, Members
<1>8. PlaceInv'
  BY <1>0, <1>1, <1>2, <1>3, <1>4, <1>7 DEF PlaceInv, Locked
<1>9. Held' = Held
  BY <1>0, <1>1, <1>2, <1>3, <1>4 DEF Held
<1> QED
  BY <1>1, <1>3, <1>5, <1>6, <1>8, <1>9, Move

LEMMA ReplyTakeSession ==
    ASSUME SessionInv, NEW s \in Servers, ReplyTake(s)
    PROVE  SessionInv'
<1>0. TypeInv /\ LockInv /\ PlaceInv /\ None \notin Requests
  BY NoneAssumption DEF SessionInv
<1>1. /\ server[s].pc = "take" /\ server[s].request = None
      /\ UNCHANGED <<m_state, m_request_list, request, client, handle, closer, destroyer>>
  BY <1>0 DEF ReplyTake, PlaceInv
<1>2. /\ closer.pc # "clean" /\ destroyer.pc \notin {"clean", "reply"} /\ destroyer.request = None
      /\ \A u \in Servers \ {s} : server[u].pc \notin Locked /\ server[u].request = None
  BY <1>1, Alone DEF Locked
<1>3. None \notin Members(m_request_list)
  BY <1>0 DEF TypeInv, Members
<1>4. CASE m_current_request = None
  <2>1. Goto(s, "InvalidState") /\ m_lock' = None /\ UNCHANGED m_current_request
    BY <1>4 DEF ReplyTake, Goto
  <2>2. /\ server' \in [Servers -> ServerType] /\ server'[s].pc = "InvalidState"
        /\ server'[s].request = server[s].request
        /\ \A u \in Servers \ {s} : server'[u] = server[u]
    BY <1>0, <2>1, GotoFacts DEF ServerPCs
  <2>3. TypeInv'
    BY <1>0, <1>1, <2>1, <2>2 DEF TypeInv
  <2>4. LockInv'
    BY <1>1, <1>2, <2>1, <2>2 DEF LockInv, Locked
  <2>5. PlaceInv'
    BY <1>0, <1>1, <2>1, <2>2 DEF PlaceInv
  <2>6. Held' = Held
    BY <1>1, <2>1, <2>2 DEF Held
  <2> QED
    BY <1>1, <1>2, <2>3, <2>4, <2>5, <2>6, Move
<1>5. CASE m_current_request # None
  <2> DEFINE r == m_current_request
  <2>1. /\ server' = [server EXCEPT ![s].pc = "answer", ![s].request = r]
        /\ m_current_request' = None /\ UNCHANGED m_lock
    BY <1>5 DEF ReplyTake
  <2>2. r \in Requests
    BY <1>0, <1>5 DEF TypeInv
  <2>3. /\ server' \in [Servers -> ServerType] /\ server'[s].pc = "answer" /\ server'[s].request = r
        /\ \A u \in Servers \ {s} : server'[u] = server[u]
    BY <1>0, <2>1, <2>2, RequestFacts DEF ServerPCs
  <2>4. TypeInv'
    BY <1>0, <1>1, <2>1, <2>3 DEF TypeInv
  <2>5. LockInv'
    BY <1>0, <1>1, <1>2, <2>1, <2>3 DEF LockInv, Locked
  <2>6. PlaceInv'
    BY <1>0, <1>1, <1>2, <1>3, <1>5, <2>1, <2>2, <2>3 DEF PlaceInv, Locked
  <2>7. Held' = Held
    BY <1>0, <1>1, <1>2, <2>1, <2>2, <2>3 DEF Held
  <2> QED
    BY <1>1, <1>2, <2>4, <2>5, <2>6, <2>7, Move
<1> QED
  BY <1>4, <1>5

LEMMA ReplyAnswerSession ==
    ASSUME SessionInv, NEW s \in Servers, ReplyAnswer(s)
    PROVE  SessionInv'
<1> DEFINE r == server[s].request
           p == IF request[r].thread = None \/ m_state # "Normal" THEN "closed" ELSE "replied"
<1>0. TypeInv /\ LockInv /\ PlaceInv /\ CloserInv /\ None \notin Requests
  BY NoneAssumption DEF SessionInv
<1>1. /\ server[s].pc = "answer" /\ client' = Complete(r) /\ request' = Close(request, r)
      /\ server' = [server EXCEPT ![s].pc = p, ![s].request = None]
      /\ m_lock' = None
      /\ UNCHANGED <<m_state, m_request_list, m_current_request, handle, closer, destroyer>>
  BY DEF ReplyAnswer
<1>2. p \in {"closed", "replied"} /\ p \in ServerPCs
  BY DEF ServerPCs
<1> HIDE DEF p
<1>3. /\ server' \in [Servers -> ServerType] /\ server'[s].pc = p /\ server'[s].request = None
      /\ \A u \in Servers \ {s} : server'[u] = server[u]
  <2>1. None \in Requests \cup {None} /\ server' = [server EXCEPT ![s].pc = p, ![s].request = None]
    BY <1>1
  <2>2. PICK x \in ServerPCs : x = p
    BY <1>2
  <2>3. server' = [server EXCEPT ![s].pc = x, ![s].request = None]
    BY <2>1, <2>2
  <2>4. /\ server' \in [Servers -> ServerType] /\ server'[s].pc = x /\ server'[s].request = None
        /\ \A u \in Servers \ {s} : server'[u] = server[u]
    BY <1>0, <2>3 DEF TypeInv, ServerType
  <2> QED
    BY <2>2, <2>4
<1>4. /\ closer.pc # "clean" /\ destroyer.pc \notin {"clean", "reply"} /\ destroyer.request = None
      /\ \A u \in Servers \ {s} : server[u].pc \notin Locked /\ server[u].request = None
  BY <1>1, Alone DEF Locked
<1>5. r \in Requests /\ r # m_current_request /\ r \notin Members(m_request_list)
  BY <1>0, <1>1 DEF PlaceInv, TypeInv, ServerType
<1>6. Held' = Held \ {r} /\ r \in Held
  BY <1>0, <1>1, <1>3, <1>4, <1>5 DEF Held
<1>7. /\ request' \in [Requests -> RequestType] /\ client' \in [Clients -> ClientType]
      /\ CallInv' /\ OwnInv'
      /\ \A c \in Clients : InCall(c)' <=> InCall(c)
      /\ \A q \in Held' : request'[q] = request[q]
  BY <1>1, <1>6, Release
<1>8. TypeInv'
  BY <1>0, <1>1, <1>3, <1>7 DEF TypeInv
<1>9. LockInv'
  BY <1>1, <1>2, <1>3, <1>4 DEF LockInv, Locked
<1>10. None \notin Members(m_request_list)
  BY <1>0 DEF TypeInv, Members
<1>11. PlaceInv'
  BY <1>0, <1>1, <1>2, <1>3, <1>4, <1>10 DEF PlaceInv, Locked
<1>12. CloserInv'
  BY <1>0, <1>1, <1>6, <1>7 DEF CloserInv
<1> QED
  BY <1>7, <1>8, <1>9, <1>11, <1>12 DEF SessionInv

-----------------------------------------------------------------------------
(* The manager                                                             *)

LEMMA NotifyFacts ==
    ASSUME ManagerType, NEW h \in Holders, wait' = Notify(h)
    PROVE  /\ wait' \in [Servers -> WaitType]
           /\ \A s \in Servers : /\ h \in Members(wait[s].on) => wait'[s].on = <<>> /\ wait'[s].got = h
                                 /\ h \notin Members(wait[s].on) => wait'[s] = wait[s]
<1>1. [on |-> <<>>, got |-> h] \in WaitType
  BY DEF WaitType
<1> QED
  BY <1>1 DEF ManagerType, Notify

\* Nobody is blocked on a holder that is not linked.
LEMMA NotBlocked ==
    ASSUME ManagerInv, NEW h \in Holders, ~Linked(h)
    PROVE  /\ \A s \in Servers : h \notin Members(wait[s].on)
           /\ \A s \in Servers : server[s].pc = "selected" /\ wait[s].on = <<>> => wait[s].got # h
           /\ wait' = Notify(h) => wait' = wait
<1>1. \A s \in Servers : h \notin Members(wait[s].on)
  BY DEF ManagerInv, SelectInv, Linked, Members
<1>2. \A s \in Servers : server[s].pc = "selected" /\ wait[s].on = <<>> => wait[s].got # h
  BY DEF ManagerInv, SelectInv, Linked
<1>3. ASSUME wait' = Notify(h) PROVE wait' = wait
  BY <1>1, <1>3 DEF Notify, ManagerInv, ManagerType
<1> QED
  BY <1>1, <1>2, <1>3

\* A step of the session's other side.
LEMMA SessionStep ==
    ASSUME ManagerInv, UNCHANGED <<server, managerVars>>,
           destroyer'.pc = "idle" <=> destroyer.pc = "idle",
           destroyer'.pc \in {"lock", "clean", "reply", "done"} => m_state' # "Normal",
           Signaled => Signaled',
           m_current_request' = m_current_request \/ destroyer.pc # "idle",
           \/ /\ wait' = wait
              /\ Signaled' => Signaled \/ closer'.pc = "lock" \/ destroyer.pc # "idle"
              /\ closer.pc \in {"lock", "clean"} => closer'.pc \in {"lock", "clean"}
           \/ wait' = Notify("session") /\ Signaled'
    PROVE  ManagerInv'
<1>0. ManagerType /\ TokenInv /\ SelectInv /\ ReadyInv /\ SignalInv
  BY DEF ManagerInv
<1>1. UNCHANGED <<m_multi_wait, m_deferred_list, m_deferred_sessions, m_selection_mutex, signaled, server>>
  BY DEF managerVars
<1>2. /\ wait' \in [Servers -> WaitType]
      /\ \A s \in Servers : \/ wait'[s] = wait[s]
                            \/ /\ wait'[s].on = <<>> /\ wait'[s].got = "session" /\ Signaled'
                               /\ "session" \in Members(wait[s].on)
  <2>1. CASE wait' = wait
    BY <1>0, <2>1 DEF ManagerType
  <2>2. CASE wait' = Notify("session") /\ Signaled'
    BY <1>0, <2>2, NotifyFacts DEF Holders
  <2> QED
    BY <2>1, <2>2
<1>3. ManagerType'
  BY <1>0, <1>1, <1>2 DEF ManagerType
<1>4. TokenInv'
  BY <1>0, <1>1 DEF TokenInv, Holding, Deferring, Linked, Stopped
<1>5. SelectInv'
  <2>1. \A s \in Servers : "session" \in Members(wait[s].on) =>
            server[s].pc = "selected" /\ "session" \in Members(m_multi_wait)
    BY <1>0 DEF SelectInv, Members
  <2> QED
    BY <1>0, <1>1, <1>2, <2>1 DEF SelectInv
<1>6. ReadyInv'
  <2>1. ASSUME NEW s \in Servers
        PROVE  /\ server'[s].pc = "selected" /\ wait'[s].on = <<>> /\ wait'[s].got = "session" => Signaled'
               /\ server'[s].pc \in {"receive", "pop"} => Signaled'
    BY <1>0, <1>1, <1>2 DEF ReadyInv
  <2>2. ASSUME NEW s \in Servers, server[s].pc \in {"handle", "defer", "reply", "take"} \/ server[s].retry
        PROVE  m_current_request' # None
    <3>1. Holding(s)
      BY <2>2 DEF Holding, HoldPCs
    <3> QED
      BY <1>0, <2>2, <3>1 DEF TokenInv, ReadyInv
  <2>3. ASSUME m_deferred_sessions PROVE m_current_request' # None \/ Stopped
    BY <1>0, <2>3 DEF TokenInv, ReadyInv
  <2> QED
    BY <1>0, <1>1, <2>1, <2>2, <2>3 DEF ReadyInv, Stopped
<1>7. SignalInv'
  <2>1. ASSUME NEW s \in Servers, wait'[s].on # <<>>, NEW h \in Members(wait'[s].on), HolderSignaled(h)'
        PROVE  h = "session" /\ closer'.pc \in {"lock", "clean"}
    <3>1. wait'[s] = wait[s] /\ wait[s].on # <<>> /\ h \in Members(wait[s].on)
      BY <1>2, <2>1
    <3>2. server[s].pc = "selected" /\ h \in Members(m_multi_wait)
      BY <1>0, <3>1 DEF SelectInv
    <3>3. CASE h # "session"
      <4>1. HolderSignaled(h)
        BY <1>1, <2>1, <3>3 DEF HolderSignaled
      <4> QED
        BY <1>0, <3>1, <3>3, <4>1 DEF SignalInv
    <3>4. CASE h = "session"
      <4>1. Signaled'
        BY <2>1, <3>4 DEF HolderSignaled, Signaled
      <4>2. destroyer.pc = "idle"
        BY <1>0, <3>2, <3>4 DEF TokenInv, Linked, Stopped
      <4>3. ~(wait' = Notify("session"))
        BY <1>0, <3>1, <3>4, NotifyFacts, <2>1 DEF Holders
      <4>4. CASE Signaled
        <5>1. HolderSignaled("session")
          BY <4>4 DEF HolderSignaled, Signaled
        <5>2. closer.pc \in {"lock", "clean"}
          BY <1>0, <3>1, <3>4, <5>1 DEF SignalInv
        <5> QED
          BY <3>4, <4>3, <5>2
      <4>5. CASE ~Signaled
        BY <3>4, <4>1, <4>2, <4>3, <4>5
      <4> QED
        BY <4>4, <4>5
    <3> QED
      BY <3>3, <3>4
  <2> QED
    BY <1>0, <1>1, <2>1 DEF SignalInv
<1> QED
  BY <1>3, <1>4, <1>5, <1>6, <1>7 DEF ManagerInv

\* The thread that has the session goes on with it.
LEMMA HolderStep ==
    ASSUME ManagerInv, NEW s \in Servers, server[s].pc \in HoldPCs,
           server'[s].pc \in HoldPCs \ {"NotFound", "InvalidState"}, ~server'[s].retry,
           \A u \in Servers \ {s} : server'[u] = server[u],
           UNCHANGED managerVars, UNCHANGED <<m_state, closer, destroyer>>,
           wait' = wait \/ wait' = Notify("session"),
           server'[s].pc \in {"receive", "pop"} => Signaled',
           server'[s].pc \in {"handle", "defer", "reply", "take"} => m_current_request' # None
    PROVE  ManagerInv'
<1>0. ManagerType /\ TokenInv /\ SelectInv /\ ReadyInv /\ SignalInv
  BY DEF ManagerInv
<1>1. UNCHANGED <<m_multi_wait, m_deferred_list, m_deferred_sessions, m_selection_mutex, signaled>>
  BY DEF managerVars
<1>2. Holding(s) /\ Holding(s)'
  BY DEF Holding
<1>3. ~Linked("session") /\ ~m_deferred_sessions /\ destroyer.pc = "idle"
  BY <1>0, <1>2 DEF TokenInv
<1>4. \A u \in Servers \ {s} : ~Holding(u) /\ ~Holding(u)'
  BY <1>0, <1>2 DEF TokenInv, Holding
<1>5. /\ wait' = wait
      /\ \A u \in Servers : "session" \notin Members(wait[u].on)
      /\ \A u \in Servers : server[u].pc = "selected" /\ wait[u].on = <<>> => wait[u].got # "session"
  BY <1>3, NotBlocked DEF Holders
<1>6. server'[s].pc \notin {"link", "wait", "selected", "signal", "deferral", "grab", "relink", "stopped"}
      /\ server[s].pc \notin {"link", "wait", "selected", "signal", "deferral", "grab", "relink", "stopped"}
  BY DEF HoldPCs
<1>7. ManagerType'
  BY <1>0, <1>1, <1>5 DEF ManagerType
<1>8. TokenInv'
  <2>1. \A u \in Servers : server'[u].retry => server'[u].pc \in {"relink", "signal", "handle"}
    BY <1>0 DEF TokenInv
  <2>2. \A u, v \in Servers : Holding(u)' /\ Holding(v)' => u = v
    BY <1>4
  <2>3. \A u \in Servers : Deferring(u)' => Deferring(u)
    BY <1>6 DEF Deferring
  <2>4. \A h \in Holders : Linked(h)' <=> Linked(h)
    BY <1>1 DEF Linked
  <2> QED
    BY <1>0, <1>1, <1>3, <2>1, <2>2, <2>3, <2>4 DEF TokenInv, Holders
<1>9. SelectInv'
  BY <1>0, <1>1, <1>5, <1>6 DEF SelectInv
<1>10. ReadyInv'
  <2>1. ASSUME NEW u \in Servers
        PROVE  /\ server'[u].pc = "selected" /\ wait'[u].on = <<>> /\ wait'[u].got = "session" => Signaled'
               /\ server'[u].pc \in {"receive", "pop"} => Signaled'
               /\ server'[u].pc \in {"handle", "defer", "reply", "take"} \/ server'[u].retry
                    => m_current_request' # None
               /\ server'[u].pc \notin {"NotFound", "InvalidState"}
    <3>1. CASE u = s
      BY <1>6, <3>1
    <3>2. CASE u # s
      <4>1. server'[u] = server[u] /\ server[u].pc \notin HoldPCs /\ ~server[u].retry
        BY <1>4, <3>2 DEF Holding
      <4> QED
        BY <1>5, <4>1 DEF HoldPCs
    <3> QED
      BY <3>1, <3>2
  <2> QED
    BY <1>1, <1>3, <2>1 DEF ReadyInv
<1>11. SignalInv'
  <2>1. ASSUME NEW u \in Servers, wait'[u].on # <<>>, NEW h \in Members(wait'[u].on), HolderSignaled(h)'
        PROVE  h = "session" /\ closer'.pc \in {"lock", "clean"}
    <3>1. h # "session" /\ h \in Members(wait[u].on) /\ wait[u].on # <<>>
      BY <1>5, <2>1
    <3>2. HolderSignaled(h)
      BY <1>1, <2>1, <3>1 DEF HolderSignaled
    <3> QED
      BY <1>0, <3>1, <3>2 DEF SignalInv
  <2>2. ASSUME m_deferred_list # <<>>
        PROVE  "wakeup" \in signaled \/ \E u \in Servers : server'[u].pc \in {"signal", "link"}
    <3>1. ASSUME NEW u \in Servers, server[u].pc \in {"signal", "link"} PROVE server'[u].pc \in {"signal", "link"}
      BY <1>6, <3>1
    <3> QED
      BY <1>0, <2>2, <3>1 DEF SignalInv
  <2> QED
    BY <1>1, <2>1, <2>2 DEF SignalInv
<1> QED
  BY <1>7, <1>8, <1>9, <1>10, <1>11 DEF ManagerInv

\* The session's calls, made by the thread that has the session.
LEMMA CallsManager ==
    ASSUME SessionInv, ManagerInv, NEW s \in Servers, UNCHANGED managerVars,
           LockSession(s) \/ ReceivePop(s) \/ ReceiveSetCurrent(s) \/ ReplyTake(s) \/ ReplyAnswer(s)
    PROVE  ManagerInv'
<1>0. TypeInv /\ LockInv /\ PlaceInv /\ None \notin Requests /\ TokenInv /\ ReadyInv
  BY NoneAssumption DEF SessionInv, ManagerInv
<1>1. server[s].pc \in HoldPCs \ {"handle"} => ~server[s].retry
  BY <1>0 DEF TokenInv, HoldPCs
<1>2. CASE LockSession(s)
  <2> DEFINE p == IF server[s].pc = "receive" THEN "pop" ELSE "take"
  <2>1. /\ server[s].pc \in {"receive", "reply"}
        /\ UNCHANGED <<m_state, m_request_list, m_current_request, closer, destroyer, wait>>
    BY <1>2 DEF LockSession
  <2>2. Goto(s, p) /\ p \in ServerPCs
    BY <1>0, <1>2 DEF LockSession, Goto, TypeInv, ServerPCs
  <2>3. /\ p = "pop" => server[s].pc = "receive"
        /\ p = "take" => server[s].pc = "reply"
        /\ p \in {"pop", "take"}
    BY <2>1
  <2> HIDE DEF p
  <2>4. server'[s].pc = p /\ server'[s].retry = server[s].retry /\ \A u \in Servers \ {s} : server'[u] = server[u]
    BY <1>0, <2>2, GotoFacts
  <2>5. server[s].pc \in HoldPCs \ {"handle"} /\ p \in HoldPCs \ {"NotFound", "InvalidState"}
    BY <2>1, <2>3 DEF HoldPCs
  <2>6. p = "pop" => Signaled'
    BY <1>0, <2>1, <2>3 DEF ReadyInv, Signaled
  <2>7. p = "take" => m_current_request' # None
    BY <1>0, <2>1, <2>3 DEF ReadyInv
  <2> QED
    BY <1>1, <2>1, <2>3, <2>4, <2>5, <2>6, <2>7, HolderStep
<1>3. CASE ReceivePop(s)
  <2>1. /\ server[s].pc = "pop" /\ server[s].pc \in HoldPCs \ {"handle"}
        /\ UNCHANGED <<m_state, m_current_request, closer, destroyer, wait>>
    BY <1>3 DEF ReceivePop, HoldPCs
  <2>2. IsSignaled(m_state, m_request_list, m_current_request)
    BY <1>0, <2>1 DEF ReadyInv, Signaled
  <2>3. CASE m_state # "Normal"
    <3>1. Goto(s, "closed")
      BY <1>3, <2>3 DEF ReceivePop, Goto
    <3>2. server'[s].pc = "closed" /\ server'[s].retry = server[s].retry /\ \A u \in Servers \ {s} : server'[u] = server[u]
      BY <1>0, <3>1, GotoFacts DEF ServerPCs
    <3> QED
      BY <1>1, <2>1, <3>2, HolderStep DEF HoldPCs
  <2>4. CASE m_state = "Normal"
    <3>1. ~(m_current_request # None \/ m_request_list = <<>>)
      BY <2>2, <2>4 DEF IsSignaled
    <3>2. server' = [server EXCEPT ![s].pc = "received", ![s].request = Head(m_request_list)]
      BY <1>3, <2>4, <3>1 DEF ReceivePop
    <3>3. Head(m_request_list) \in Requests
      BY <1>0, <3>1 DEF TypeInv
    <3>4. server'[s].pc = "received" /\ server'[s].retry = server[s].retry /\ \A u \in Servers \ {s} : server'[u] = server[u]
      BY <1>0, <3>2, <3>3, RequestFacts DEF ServerPCs
    <3> QED
      BY <1>1, <2>1, <3>4, HolderStep DEF HoldPCs
  <2> QED
    BY <2>3, <2>4
<1>4. CASE ReceiveSetCurrent(s)
  <2>1. /\ server[s].pc = "received" /\ server[s].pc \in HoldPCs \ {"handle"}
        /\ m_current_request' = server[s].request
        /\ server' = [server EXCEPT ![s].pc = "handle", ![s].request = None]
        /\ UNCHANGED <<m_state, closer, destroyer, wait>>
    BY <1>4 DEF ReceiveSetCurrent, HoldPCs
  <2>2. server[s].request # None
    BY <1>0, <2>1 DEF PlaceInv
  <2>3. server'[s].pc = "handle" /\ server'[s].retry = server[s].retry /\ \A u \in Servers \ {s} : server'[u] = server[u]
    BY <1>0, <2>1, RequestFacts DEF ServerPCs
  <2> QED
    BY <1>1, <2>1, <2>2, <2>3, HolderStep DEF HoldPCs
<1>5. CASE ReplyTake(s)
  <2>1. /\ server[s].pc = "take" /\ server[s].pc \in HoldPCs \ {"handle"}
        /\ UNCHANGED <<m_state, closer, destroyer>>
    BY <1>5 DEF ReplyTake, HoldPCs
  <2>2. m_current_request # None /\ m_current_request \in Requests
    BY <1>0, <2>1 DEF ReadyInv, TypeInv
  <2>3. /\ server' = [server EXCEPT ![s].pc = "answer", ![s].request = m_current_request]
        /\ wait' = wait \/ wait' = Notify("session")
    BY <1>5, <2>2 DEF ReplyTake, NotifyAvailable
  <2>4. server'[s].pc = "answer" /\ server'[s].retry = server[s].retry /\ \A u \in Servers \ {s} : server'[u] = server[u]
    BY <1>0, <2>2, <2>3, RequestFacts DEF ServerPCs
  <2> QED
    BY <1>1, <2>1, <2>3, <2>4, HolderStep DEF HoldPCs
<1>6. CASE ReplyAnswer(s)
  <2> DEFINE p == IF request[server[s].request].thread = None \/ m_state # "Normal" THEN "closed" ELSE "replied"
  <2>1. /\ server[s].pc = "answer" /\ server[s].pc \in HoldPCs \ {"handle"}
        /\ UNCHANGED <<m_state, closer, destroyer, wait>>
    BY <1>6 DEF ReplyAnswer, HoldPCs
  <2>2. p \in {"closed", "replied"} /\ server' = [server EXCEPT ![s].pc = p, ![s].request = None]
    BY <1>6 DEF ReplyAnswer
  <2>3. PICK x \in {"closed", "replied"} : server' = [server EXCEPT ![s].pc = x, ![s].request = None]
    BY <2>2
  <2> HIDE DEF p
  <2>4. server'[s].pc = x /\ server'[s].retry = server[s].retry /\ \A u \in Servers \ {s} : server'[u] = server[u]
    BY <1>0, <2>3 DEF TypeInv, ServerType
  <2> QED
    BY <1>1, <2>1, <2>3, <2>4, HolderStep DEF HoldPCs
<1> QED
  BY <1>2, <1>3, <1>4, <1>5, <1>6

\* The steps of clients, of the closer and of the destroyer.
LEMMA ClientManager ==
    ASSUME SessionInv, ManagerInv, NEW c \in Clients, ClientStep(c) \/ ClientChoice(c)
    PROVE  ManagerInv'
<1>0. TypeInv /\ ReadyInv
  BY DEF SessionInv, ManagerInv
<1>1. /\ UNCHANGED <<server, managerVars>> /\ UNCHANGED <<m_state, m_current_request, destroyer>>
  BY DEF ClientStep, ClientChoice, OnRequest, Return, SendRequest, RequestTerminate
<1>2. CASE Return(c)
  <2>1. wait' = wait /\ m_request_list' = m_request_list
    BY <1>2 DEF Return
  <2>2. Signaled' = Signaled
    BY <1>1, <2>1 DEF Signaled
  <2>3. closer.pc \in {"lock", "clean"} => closer'.pc \in {"lock", "clean"}
    <3>1. InCall(c)
      BY <1>2 DEF Return, InCall
    <3> QED
      BY <3>1 DEF SessionInv, CloserInv
  <2> QED
    BY <1>0, <1>1, <2>1, <2>2, <2>3, SessionStep DEF ReadyInv
<1>3. CASE \E async \in BOOLEAN : SendRequest(c, async)
  <2>1. wait' = wait /\ m_request_list' = m_request_list /\ closer' = closer
    BY <1>3 DEF SendRequest
  <2>2. Signaled' = Signaled
    BY <1>1, <2>1 DEF Signaled
  <2> QED
    BY <1>0, <1>1, <2>1, <2>2, SessionStep DEF ReadyInv
<1>4. CASE RequestTerminate(c)
  <2>1. wait' = wait /\ m_request_list' = m_request_list /\ closer' = closer
    BY <1>4 DEF RequestTerminate
  <2>2. Signaled' = Signaled
    BY <1>1, <2>1 DEF Signaled
  <2> QED
    BY <1>0, <1>1, <2>1, <2>2, SessionStep DEF ReadyInv
<1>5. CASE OnRequest(c)
  <2>1. closer' = closer
    BY <1>5 DEF OnRequest
  <2>2. CASE m_request_list' = m_request_list /\ wait' = wait
    <3>1. Signaled' = Signaled
      BY <1>1, <2>2 DEF Signaled
    <3> QED
      BY <1>0, <1>1, <2>1, <2>2, <3>1, SessionStep DEF ReadyInv
  <2>3. CASE /\ m_request_list' # <<>>
             /\ IF m_request_list = <<>> THEN NotifyAvailable(m_state, m_request_list', m_current_request)
                                         ELSE UNCHANGED wait
    <3>1. Signaled => Signaled'
      BY <1>1, <2>3 DEF Signaled, IsSignaled
    <3>2. CASE m_request_list # <<>>
      <4>1. wait' = wait /\ (Signaled' => Signaled)
        BY <1>1, <2>3, <3>2 DEF Signaled, IsSignaled
      <4> QED
        BY <1>0, <1>1, <2>1, <3>1, <4>1, SessionStep DEF ReadyInv
    <3>3. CASE m_request_list = <<>>
      <4>1. wait' = IF Signaled' THEN Notify("session") ELSE wait
        BY <1>1, <2>3, <3>3 DEF Signaled, NotifyAvailable
      <4> QED
        BY <1>0, <1>1, <2>1, <3>1, <4>1, SessionStep DEF ReadyInv
    <3> QED
      BY <3>2, <3>3
  <2>4. client[c].request \in Requests
    BY <1>5 DEF SessionInv, CallInv, InCall, OnRequest, TypeInv, ClientType
  <2>5. Append(m_request_list, client[c].request) # <<>>
    <3>1. m_request_list \in Seq(Requests)
      BY <1>0 DEF TypeInv
    <3> QED
      BY <2>4, <3>1, AppendFacts
  <2> QED
    BY <1>5, <2>2, <2>3, <2>5 DEF OnRequest
<1> QED
  BY <1>2, <1>3, <1>4, <1>5 DEF ClientStep, ClientChoice

LEMMA CloseHandleManager ==
    ASSUME SessionInv, ManagerInv, CloseHandle, UNCHANGED managerVars
    PROVE  ManagerInv'
<1>1. UNCHANGED <<server, m_state, m_current_request, m_request_list, destroyer, wait>> /\ handle
  BY DEF CloseHandle
<1>2. closer.pc = "idle"
  BY <1>1 DEF SessionInv, CloserInv
<1>3. Signaled' = Signaled
  BY <1>1 DEF Signaled
<1> QED
  BY <1>1, <1>2, <1>3, SessionStep DEF ManagerInv, ReadyInv

LEMMA CloserManager ==
    ASSUME SessionInv, ManagerInv, CloserStep
    PROVE  ManagerInv'
<1>0. TypeInv /\ CloserInv /\ ReadyInv
  BY DEF SessionInv, ManagerInv
<1>1. UNCHANGED <<server, managerVars, m_current_request, destroyer>>
  BY DEF CloserStep, CloserCheck, CloserSet, CloserLock, CloserCurrent, CloserPending, CloserEnd, CloserUnchanged
<1>2. CASE CloserCheck
  <2>1. UNCHANGED <<wait, m_state, m_request_list>> /\ closer.pc = "check"
    BY <1>2 DEF CloserCheck
  <2>2. Signaled' = Signaled
    BY <1>1, <2>1 DEF Signaled
  <2> QED
    BY <1>0, <1>1, <2>1, <2>2, SessionStep DEF ReadyInv
<1>3. CASE CloserSet
  <2>1. UNCHANGED <<wait, m_request_list>> /\ closer.pc = "set" /\ closer'.pc = "lock" /\ m_state' = "ClientClosed"
    BY <1>0, <1>3 DEF CloserSet, TypeInv
  <2>2. Signaled'
    BY <2>1 DEF Signaled, IsSignaled
  <2> QED
    BY <1>0, <1>1, <2>1, <2>2, SessionStep DEF ReadyInv
<1>4. CASE CloserLock
  <2>1. UNCHANGED <<wait, m_request_list, m_state>> /\ closer'.pc = "clean"
    BY <1>0, <1>4 DEF CloserLock, TypeInv
  <2>2. Signaled' = Signaled
    BY <1>1, <2>1 DEF Signaled
  <2> QED
    BY <1>0, <1>1, <2>1, <2>2, SessionStep DEF ReadyInv
<1>5. CASE CloserCurrent
  <2>1. UNCHANGED <<wait, m_request_list, m_state>> /\ closer'.pc = "clean"
    BY <1>0, <1>5 DEF CloserCurrent, TypeInv
  <2>2. Signaled' = Signaled
    BY <1>1, <2>1 DEF Signaled
  <2> QED
    BY <1>0, <1>1, <2>1, <2>2, SessionStep DEF ReadyInv
<1>6. CASE CloserPending
  <2>1. UNCHANGED <<wait, m_state, closer>> /\ closer.pc = "clean"
    BY <1>6 DEF CloserPending
  <2>2. m_state # "Normal"
    BY <1>0, <2>1 DEF CloserInv
  <2>3. Signaled' /\ Signaled
    BY <2>1, <2>2 DEF Signaled, IsSignaled
  <2> QED
    BY <1>0, <1>1, <2>1, <2>3, SessionStep DEF ReadyInv
<1>7. CASE CloserEnd
  <2>1. UNCHANGED <<m_state, m_request_list>> /\ closer.pc = "clean"
        /\ NotifyAvailable(m_state, m_request_list, m_current_request)
    BY <1>7 DEF CloserEnd
  <2>2. m_state # "Normal"
    BY <1>0, <2>1 DEF CloserInv
  <2>3. Signaled' /\ Signaled
    BY <2>1, <2>2 DEF Signaled, IsSignaled
  <2>4. wait' = Notify("session")
    BY <2>1, <2>3 DEF NotifyAvailable, Signaled
  <2> QED
    BY <1>0, <1>1, <2>1, <2>3, <2>4, SessionStep DEF ReadyInv
<1> QED
  BY <1>2, <1>3, <1>4, <1>5, <1>6, <1>7 DEF CloserStep

LEMMA DestroyerManager ==
    ASSUME SessionInv, ManagerInv, DestroyerStep
    PROVE  ManagerInv'
<1>0. TypeInv /\ ReadyInv
  BY DEF SessionInv, ManagerInv
<1>1. UNCHANGED <<server, managerVars, closer, wait>>
  BY DEF DestroyerStep, DestroyerCheck, DestroyerSet, DestroyerLock, DestroyerTake, DestroyerReply, DestroyerUnchanged
<1>2. /\ destroyer.pc # "idle" /\ destroyer'.pc # "idle"
      /\ destroyer'.pc \in {"lock", "clean", "reply", "done"} => m_state' # "Normal"
      /\ m_state # "Normal" => m_state' # "Normal"
  <2>1. CASE DestroyerCheck
    BY <1>0, <2>1 DEF DestroyerCheck, TypeInv
  <2>2. CASE DestroyerSet
    BY <1>0, <2>2 DEF DestroyerSet, TypeInv
  <2>3. CASE DestroyerLock
    BY <1>0, <2>3 DEF DestroyerLock, TypeInv, ReadyInv
  <2>4. CASE DestroyerTake
    BY <1>0, <2>4 DEF DestroyerTake, TypeInv, ReadyInv
  <2>5. CASE DestroyerReply
    BY <1>0, <2>5 DEF DestroyerReply, TypeInv, ReadyInv
  <2> QED
    BY <2>1, <2>2, <2>3, <2>4, <2>5 DEF DestroyerStep
<1>3. Signaled => Signaled'
  <2>1. CASE m_state # "Normal"
    BY <1>2, <2>1 DEF Signaled, IsSignaled
  <2>2. CASE m_state = "Normal"
    <3>1. destroyer.pc \in {"check", "set"}
      BY <1>0, <1>2, <2>2 DEF ReadyInv, TypeInv
    <3>2. DestroyerCheck \/ DestroyerSet
      BY <3>1 DEF DestroyerStep, DestroyerLock, DestroyerTake, DestroyerReply
    <3>3. UNCHANGED <<m_request_list, m_current_request>> /\ (m_state' = m_state \/ m_state' = "ServerClosed")
      BY <3>2 DEF DestroyerCheck, DestroyerSet
    <3> QED
      BY <3>3 DEF Signaled, IsSignaled
  <2> QED
    BY <2>1, <2>2
<1> QED
  BY <1>1, <1>2, <1>3, SessionStep

\* A step of the manager leaves the session alone.
LEMMA SteppedSession ==
    ASSUME SessionInv, NEW s \in Servers, UNCHANGED sessionVars,
           server' \in [Servers -> ServerType], server'[s].request = server[s].request,
           server'[s].pc \notin Locked, server[s].pc \notin Locked,
           \A u \in Servers \ {s} : server'[u] = server[u]
    PROVE  SessionInv'
<1>1. UNCHANGED <<m_state, m_lock, m_request_list, m_current_request, request, client, handle, closer, destroyer>>
  BY DEF sessionVars
<1>2. TypeInv'
  BY <1>1 DEF SessionInv, TypeInv
<1> QED
  BY <1>1, <1>2, Bystander

\* A step that neither takes nor gives away a holder.
LEMMA TokenKeep ==
    ASSUME TokenInv, NEW s \in Servers, server[s].pc # "stopped",
           \A u \in Servers \ {s} : server'[u] = server[u],
           Holding(s)' => Holding(s), Deferring(s)' => Deferring(s),
           server'[s].retry => server'[s].pc \in {"relink", "signal", "handle"},
           UNCHANGED <<m_multi_wait, m_deferred_list, m_deferred_sessions, destroyer>>
    PROVE  TokenInv'
<1>1. \A u \in Servers : (Holding(u)' => Holding(u)) /\ (Deferring(u)' => Deferring(u))
  BY DEF Holding, Deferring
<1>2. \A h \in Holders : Linked(h)' <=> Linked(h)
  BY DEF Linked
<1>3. ~Stopped
  BY DEF Stopped
<1>4. \A u \in Servers : server'[u].retry => server'[u].pc \in {"relink", "signal", "handle"}
  BY DEF TokenInv
<1> QED
  BY <1>1, <1>2, <1>3, <1>4 DEF TokenInv, Holders

LEMMA ReadyKeep ==
    ASSUME ReadyInv, NEW s \in Servers, server[s].pc # "stopped",
           \A u \in Servers \ {s} : /\ server'[u] = server[u]
                                    /\ wait'[u] = wait[u] \/ wait'[u].got # "session",
           UNCHANGED <<m_state, m_request_list, m_current_request>>,
           m_deferred_sessions' => m_deferred_sessions \/ m_current_request # None,
           destroyer'.pc \in {"lock", "clean", "reply", "done"} => destroyer.pc \in {"lock", "clean", "reply", "done"},
           server'[s].pc = "selected" /\ wait'[s].on = <<>> /\ wait'[s].got = "session" => Signaled,
           server'[s].pc \in {"receive", "pop"} => Signaled,
           server'[s].pc \in {"handle", "defer", "reply", "take"} \/ server'[s].retry => m_current_request # None,
           server'[s].pc \notin {"NotFound", "InvalidState"}
    PROVE  ReadyInv'
<1>1. Signaled' = Signaled
  BY DEF Signaled
<1>2. ~Stopped
  BY DEF Stopped
<1>3. ASSUME NEW u \in Servers
      PROVE  /\ server'[u].pc = "selected" /\ wait'[u].on = <<>> /\ wait'[u].got = "session" => Signaled'
             /\ server'[u].pc \in {"receive", "pop"} => Signaled'
             /\ server'[u].pc \in {"handle", "defer", "reply", "take"} \/ server'[u].retry
                  => m_current_request' # None
             /\ server'[u].pc \notin {"NotFound", "InvalidState"}
  <2>1. CASE u = s
    BY <1>1, <2>1
  <2>2. CASE u # s
    BY <1>1, <2>2 DEF ReadyInv
  <2> QED
    BY <2>1, <2>2
<1> QED
  BY <1>2, <1>3 DEF ReadyInv

\* The waits of the others go on, and so does the promise to wake them.
LEMMA SignalKeep ==
    ASSUME SignalInv, NEW s \in Servers, \A u \in Servers \ {s} : server'[u] = server[u],
           UNCHANGED <<m_state, m_request_list, m_current_request, closer, wait>>,
           wait[s].on = <<>>, signaled' \subseteq signaled, m_deferred_list' = m_deferred_list,
           "wakeup" \in signaled => "wakeup" \in signaled' \/ server'[s].pc = "link",
           server[s].pc \in {"signal", "link"} => server'[s].pc \in {"signal", "link"}
    PROVE  SignalInv'
<1>1. ASSUME NEW u \in Servers, wait'[u].on # <<>>, NEW h \in Members(wait'[u].on), HolderSignaled(h)'
      PROVE  h = "session" /\ closer'.pc \in {"lock", "clean"}
  <2>1. HolderSignaled(h)
    BY <1>1 DEF HolderSignaled
  <2> QED
    BY <1>1, <2>1 DEF SignalInv
<1>2. ASSUME m_deferred_list # <<>>
      PROVE  "wakeup" \in signaled' \/ \E u \in Servers : server'[u].pc \in {"signal", "link"}
  BY <1>2 DEF SignalInv
<1> QED
  BY <1>1, <1>2 DEF SignalInv

LEMMA LoopInv ==
    ASSUME SessionInv, ManagerInv, NEW s \in Servers, Loop(s)
    PROVE  SessionInv' /\ ManagerInv'
<1>0. TypeInv /\ ManagerType /\ TokenInv /\ SelectInv /\ ReadyInv /\ SignalInv
  BY DEF SessionInv, ManagerInv
<1>1. /\ server[s].pc = "loop" /\ UNCHANGED <<sessionVars, wait, m_multi_wait, m_deferred_list, m_deferred_sessions, signaled>>
      /\ UNCHANGED <<m_state, m_request_list, m_current_request, closer, destroyer>>
  BY DEF Loop, sessionVars
<1>2. PICK p \in {"stopped", "link"} : /\ Goto(s, p)
                                       /\ p = "stopped" => UNCHANGED m_selection_mutex
                                       /\ p = "link" => m_selection_mutex = None /\ m_selection_mutex' = s
  BY DEF Loop
<1>3. /\ server' \in [Servers -> ServerType] /\ server'[s].pc = p
      /\ server'[s].request = server[s].request /\ server'[s].retry = server[s].retry
      /\ \A u \in Servers \ {s} : server'[u] = server[u]
  BY <1>0, <1>2, GotoFacts DEF ServerPCs
<1>4. ~server[s].retry /\ wait[s].on = <<>>
  BY <1>0, <1>1 DEF TokenInv, SelectInv
<1>5. SessionInv'
  BY <1>1, <1>3, SteppedSession DEF Locked
<1>6. ManagerType'
  BY <1>0, <1>1 DEF ManagerType
<1>7. TokenInv'
  BY <1>0, <1>1, <1>3, <1>4, TokenKeep DEF Holding, Deferring, HoldPCs
<1>8. SelectInv'
  BY <1>0, <1>1, <1>2, <1>3, <1>4, NoneAssumption DEF SelectInv
<1>9. ReadyInv'
  BY <1>0, <1>1, <1>3, <1>4, ReadyKeep
<1>10. SignalInv'
  BY <1>0, <1>1, <1>3, <1>4, SignalKeep
<1> QED
  BY <1>5, <1>6, <1>7, <1>8, <1>9, <1>10 DEF ManagerInv

LEMMA LinkDeferredInv ==
    ASSUME SessionInv, ManagerInv, NEW s \in Servers, LinkDeferred(s)
    PROVE  SessionInv' /\ ManagerInv'
<1>0. TypeInv /\ ManagerType /\ TokenInv /\ SelectInv /\ ReadyInv /\ SignalInv
  BY DEF SessionInv, ManagerInv
<1>1. /\ server[s].pc = "link" /\ UNCHANGED <<sessionVars, wait, m_deferred_sessions, signaled>>
      /\ UNCHANGED <<m_state, m_request_list, m_current_request, closer, destroyer>>
      /\ m_multi_wait' = m_multi_wait \o m_deferred_list /\ m_deferred_list' = <<>>
  BY DEF LinkDeferred, sessionVars
<1>2. PICK p \in {"loop", "wait"} : /\ Goto(s, p)
                                    /\ p = "wait" => UNCHANGED m_selection_mutex
  BY DEF LinkDeferred
<1>3. /\ server' \in [Servers -> ServerType] /\ server'[s].pc = p
      /\ server'[s].request = server[s].request /\ server'[s].retry = server[s].retry
      /\ \A u \in Servers \ {s} : server'[u] = server[u]
  BY <1>0, <1>2, GotoFacts DEF ServerPCs
<1>4. ~server[s].retry /\ wait[s].on = <<>> /\ m_selection_mutex = s
  BY <1>0, <1>1 DEF TokenInv, SelectInv
<1>5. SessionInv'
  BY <1>1, <1>3, SteppedSession DEF Locked
<1>6. /\ m_multi_wait' \in Seq(Holders) /\ Distinct(m_multi_wait')
      /\ Members(m_multi_wait') = Members(m_multi_wait) \cup Members(m_deferred_list)
  BY <1>0, <1>1, ConcatFacts DEF ManagerType, TokenInv
<1>7. /\ m_deferred_list' \in Seq(Holders) /\ Members(m_deferred_list') = {} /\ Distinct(m_deferred_list')
  BY <1>1 DEF Members, Distinct
<1>8. ManagerType'
  BY <1>0, <1>1, <1>6, <1>7 DEF ManagerType
<1>9. TokenInv'
  <2>1. \A u \in Servers : (Holding(u)' => Holding(u)) /\ (Deferring(u)' => Deferring(u))
    BY <1>1, <1>3, <1>4 DEF Holding, Deferring, HoldPCs
  <2>2. \A h \in Holders : Linked(h)' <=> Linked(h)
    BY <1>6, <1>7 DEF Linked
  <2>3. ~Stopped
    BY <1>1 DEF Stopped
  <2>4. \A u \in Servers : server'[u].retry => server'[u].pc \in {"relink", "signal", "handle"}
    BY <1>0, <1>3, <1>4 DEF TokenInv
  <2> QED
    BY <1>0, <1>1, <1>6, <1>7, <2>1, <2>2, <2>3, <2>4 DEF TokenInv, Holders
<1>10. \A u \in Servers \ {s} : server[u].pc \notin {"link", "wait", "selected"} /\ wait[u].on = <<>>
  BY <1>0, <1>4 DEF SelectInv
<1>11. SelectInv'
  <2>1. "wakeup" \in Members(m_multi_wait')
    BY <1>0, <1>6 DEF TokenInv, Linked
  <2> QED
    BY <1>0, <1>1, <1>2, <1>3, <1>4, <1>10, <2>1 DEF SelectInv
<1>12. ReadyInv'
  BY <1>0, <1>1, <1>3, <1>4, ReadyKeep
<1>13. SignalInv'
  BY <1>1, <1>4, <1>10 DEF SignalInv
<1> QED
  BY <1>5, <1>8, <1>9, <1>11, <1>12, <1>13 DEF ManagerInv

LEMMA LeastMember ==
    ASSUME NEW S \in SUBSET Nat, S # {}
    PROVE  \E x \in S : \A y \in S : x <= y
<1>1. PICK x \in S : \A y \in S : ~(<<y, x>> \in OpToRel(<, Nat))
  BY NatLessThanWellFounded, WFMin
<1>2. ASSUME NEW y \in S PROVE x <= y
  <2>1. x \in Nat /\ y \in Nat /\ ~(<<y, x>> \in OpToRel(<, Nat))
    BY <1>1
  <2>2. ~(y < x)
    BY <2>1 DEF OpToRel
  <2>3. x \in Nat /\ y \in Nat
    BY <2>1
  <2> QED
    BY <2>2, <2>3
<1> QED
  BY <1>2

LEMMA WaitAnyInv ==
    ASSUME SessionInv, ManagerInv, NEW s \in Servers, WaitAny(s)
    PROVE  SessionInv' /\ ManagerInv'
<1> DEFINE ready == {i \in DOMAIN m_multi_wait : HolderSignaled(m_multi_wait[i])}
           first == CHOOSE i \in ready : \A j \in ready : i <= j
<1>0. TypeInv /\ ManagerType /\ TokenInv /\ SelectInv /\ ReadyInv /\ SignalInv
  BY DEF SessionInv, ManagerInv
<1>1. /\ server[s].pc = "wait" /\ UNCHANGED <<sessionVars, managerVars>> /\ Goto(s, "selected")
      /\ UNCHANGED <<m_state, m_request_list, m_current_request, closer, destroyer>>
      /\ UNCHANGED <<m_multi_wait, m_deferred_list, m_deferred_sessions, m_selection_mutex, signaled>>
  BY DEF WaitAny, sessionVars, managerVars
<1>2. /\ server' \in [Servers -> ServerType] /\ server'[s].pc = "selected"
      /\ server'[s].request = server[s].request /\ server'[s].retry = server[s].retry
      /\ \A u \in Servers \ {s} : server'[u] = server[u]
  BY <1>0, <1>1, GotoFacts DEF ServerPCs
<1>3. ~server[s].retry /\ wait[s].on = <<>> /\ "wakeup" \in Members(m_multi_wait)
  BY <1>0, <1>1 DEF TokenInv, SelectInv
<1>4. SessionInv'
  BY <1>1, <1>2, SteppedSession DEF Locked
<1>5. /\ wait' \in [Servers -> WaitType] /\ \A u \in Servers \ {s} : wait'[u] = wait[u]
      /\ \/ /\ wait'[s].on = m_multi_wait /\ m_multi_wait # <<>>
            /\ \A h \in Members(m_multi_wait) : ~HolderSignaled(h)
         \/ /\ wait'[s].on = <<>> /\ wait'[s].got \in Members(m_multi_wait)
            /\ HolderSignaled(wait'[s].got)
  <2>1. wait' = [wait EXCEPT ![s] = IF ready = {} THEN [on |-> m_multi_wait, got |-> "none"]
                                    ELSE [on |-> <<>>, got |-> m_multi_wait[first]]]
    BY DEF WaitAny
  <2>2. CASE ready = {}
    <3>1. [on |-> m_multi_wait, got |-> "none"] \in WaitType
      BY <1>0 DEF ManagerType, WaitType
    <3>2. wait' = [wait EXCEPT ![s] = [on |-> m_multi_wait, got |-> "none"]]
      BY <2>1, <2>2
    <3>3. \A h \in Members(m_multi_wait) : ~HolderSignaled(h)
      BY <2>2 DEF Members
    <3>4. m_multi_wait # <<>>
      BY <1>3 DEF Members
    <3> QED
      BY <1>0, <3>1, <3>2, <3>3, <3>4 DEF ManagerType
  <2>3. CASE ready # {}
    <3>1. ready \in SUBSET Nat
      BY <1>0 DEF ManagerType
    <3>2. \E i \in ready : \A j \in ready : i <= j
      BY <2>3, <3>1, LeastMember
    <3>3. first \in ready
      BY <3>2
    <3> HIDE DEF first
    <3>4. /\ m_multi_wait[first] \in Members(m_multi_wait) /\ HolderSignaled(m_multi_wait[first])
          /\ m_multi_wait[first] \in Holders
      BY <1>0, <3>3 DEF Members, ManagerType
    <3>5. [on |-> <<>>, got |-> m_multi_wait[first]] \in WaitType
      BY <3>4 DEF WaitType
    <3>6. wait' = [wait EXCEPT ![s] = [on |-> <<>>, got |-> m_multi_wait[first]]]
      BY <2>1, <2>3
    <3>7. /\ wait' \in [Servers -> WaitType] /\ \A u \in Servers \ {s} : wait'[u] = wait[u]
          /\ wait'[s] = [on |-> <<>>, got |-> m_multi_wait[first]]
      BY <1>0, <3>5, <3>6 DEF ManagerType
    <3> QED
      BY <3>4, <3>7
  <2> QED
    BY <2>2, <2>3
<1> HIDE DEF ready, first
<1>6. ManagerType'
  BY <1>0, <1>1, <1>5 DEF ManagerType
<1>7. TokenInv'
  BY <1>0, <1>1, <1>2, <1>3, TokenKeep DEF Holding, Deferring, HoldPCs
<1>8. SelectInv'
  BY <1>0, <1>1, <1>2, <1>3, <1>5 DEF SelectInv
<1>9. ReadyInv'
  <2>1. wait'[s].on = <<>> /\ wait'[s].got = "session" => Signaled
    BY <1>3, <1>5 DEF HolderSignaled, Signaled
  <2> QED
    BY <1>0, <1>1, <1>2, <1>3, <1>5, <2>1, ReadyKeep
<1>10. SignalInv'
  <2>1. ASSUME NEW u \in Servers, wait'[u].on # <<>>, NEW h \in Members(wait'[u].on), HolderSignaled(h)'
        PROVE  h = "session" /\ closer'.pc \in {"lock", "clean"}
    <3>1. HolderSignaled(h)
      BY <1>1, <2>1 DEF HolderSignaled
    <3> QED
      BY <1>0, <1>1, <1>5, <2>1, <3>1 DEF SignalInv
  <2>2. ASSUME m_deferred_list # <<>>
        PROVE  "wakeup" \in signaled \/ \E u \in Servers : server'[u].pc \in {"signal", "link"}
    BY <1>0, <1>1, <1>2, <2>2 DEF SignalInv
  <2> QED
    BY <1>1, <2>1, <2>2 DEF SignalInv
<1> QED
  BY <1>4, <1>6, <1>7, <1>8, <1>9, <1>10 DEF ManagerInv

LEMMA WokenInv ==
    ASSUME SessionInv, ManagerInv, NEW s \in Servers, Woken(s)
    PROVE  SessionInv' /\ ManagerInv'
<1>0. TypeInv /\ ManagerType /\ TokenInv /\ SelectInv /\ ReadyInv /\ SignalInv
  BY DEF SessionInv, ManagerInv
<1>1. /\ server[s].pc = "selected" /\ wait[s].on = <<>> /\ signaled' = signaled \ {"wakeup"} /\ Goto(s, "link")
      /\ UNCHANGED <<sessionVars, wait, m_multi_wait, m_deferred_list, m_deferred_sessions, m_selection_mutex>>
      /\ UNCHANGED <<m_state, m_request_list, m_current_request, closer, destroyer>>
  BY DEF Woken, sessionVars
<1>2. /\ server' \in [Servers -> ServerType] /\ server'[s].pc = "link"
      /\ server'[s].request = server[s].request /\ server'[s].retry = server[s].retry
      /\ \A u \in Servers \ {s} : server'[u] = server[u]
  BY <1>0, <1>1, GotoFacts DEF ServerPCs
<1>3. ~server[s].retry
  BY <1>0, <1>1 DEF TokenInv
<1>4. SessionInv'
  BY <1>1, <1>2, SteppedSession DEF Locked
<1>5. ManagerType'
  BY <1>0, <1>1 DEF ManagerType
<1>6. TokenInv'
  BY <1>0, <1>1, <1>2, <1>3, TokenKeep DEF Holding, Deferring, HoldPCs
<1>7. SelectInv'
  BY <1>0, <1>1, <1>2 DEF SelectInv
<1>8. ReadyInv'
  BY <1>0, <1>1, <1>2, <1>3, ReadyKeep
<1>9. SignalInv'
  BY <1>0, <1>1, <1>2, SignalKeep
<1> QED
  BY <1>4, <1>5, <1>6, <1>7, <1>8, <1>9 DEF ManagerInv

LEMMA SelectsInv ==
    ASSUME SessionInv, ManagerInv, NEW s \in Servers, Select(s)
    PROVE  SessionInv' /\ ManagerInv'
<1> DEFINE g == wait[s].got
           k == CHOOSE i \in DOMAIN m_multi_wait : m_multi_wait[i] = g
           p == IF g = "session" THEN "receive" ELSE "deferral"
<1>0. TypeInv /\ ManagerType /\ TokenInv /\ SelectInv /\ ReadyInv /\ SignalInv
  BY DEF SessionInv, ManagerInv
<1>1. /\ server[s].pc = "selected" /\ wait[s].on = <<>> /\ g # "wakeup"
      /\ m_multi_wait' = RemoveAt(m_multi_wait, k) /\ m_selection_mutex' = None /\ Goto(s, p)
      /\ UNCHANGED <<sessionVars, wait, m_deferred_list, m_deferred_sessions, signaled>>
      /\ UNCHANGED <<m_state, m_request_list, m_current_request, closer, destroyer>>
  BY DEF Select, sessionVars
<1>2. p \in {"receive", "deferral"} /\ p \in ServerPCs /\ (p = "receive" <=> g = "session")
  BY DEF ServerPCs
<1>3. g \in Members(m_multi_wait) /\ m_selection_mutex = s /\ ~server[s].retry
  BY <1>0, <1>1 DEF SelectInv, TokenInv
<1>4. k \in DOMAIN m_multi_wait /\ m_multi_wait[k] = g
  BY <1>3 DEF Members
<1> HIDE DEF k, p
<1>5. /\ m_multi_wait' \in Seq(Holders) /\ Distinct(m_multi_wait')
      /\ Members(m_multi_wait') = Members(m_multi_wait) \ {g}
  BY <1>0, <1>1, <1>4, RemoveFacts DEF ManagerType, TokenInv
<1>6. g \in {"session", "deferral"} /\ g \notin Members(m_deferred_list)
  BY <1>0, <1>1, <1>3, <1>4 DEF ManagerType, Holders, TokenInv
<1>7. /\ server' \in [Servers -> ServerType] /\ server'[s].pc = p
      /\ server'[s].request = server[s].request /\ server'[s].retry = server[s].retry
      /\ \A u \in Servers \ {s} : server'[u] = server[u]
  BY <1>0, <1>1, <1>2, GotoFacts
<1>8. SessionInv'
  BY <1>1, <1>2, <1>7, SteppedSession DEF Locked
<1>9. ManagerType'
  BY <1>0, <1>1, <1>5 DEF ManagerType
<1>10. TokenInv'
  <2>1. Linked(g)
    BY <1>3 DEF Linked
  <2>2. ~Stopped
    BY <1>1 DEF Stopped
  <2>3. \A u \in Servers : server'[u].retry => server'[u].pc \in {"relink", "signal", "handle"}
    BY <1>0, <1>3, <1>7 DEF TokenInv
  <2>4. \A u \in Servers \ {s} : Holding(u)' = Holding(u) /\ Deferring(u)' = Deferring(u)
    BY <1>7 DEF Holding, Deferring
  <2>5. (Holding(s)' => g = "session") /\ (Deferring(s)' => g = "deferral")
    BY <1>2, <1>3, <1>6, <1>7 DEF Holding, Deferring, HoldPCs
  <2>6. CASE g = "session"
    <3>1. (\A u \in Servers : ~Holding(u)) /\ ~m_deferred_sessions /\ destroyer.pc = "idle"
      BY <1>0, <2>1, <2>2, <2>6 DEF TokenInv
    <3>2. \A u, v \in Servers : Holding(u)' /\ Holding(v)' => u = v
      BY <2>4, <3>1
    <3>3. \A u \in Servers : Deferring(u)' => Deferring(u)
      BY <2>4, <2>5, <2>6
    <3>4. ~Linked("session")' /\ (Linked("deferral")' <=> Linked("deferral")) /\ (Linked("wakeup")' <=> Linked("wakeup"))
      BY <1>1, <1>5, <1>6, <2>6 DEF Linked
    <3> QED
      BY <1>0, <1>1, <1>5, <2>3, <3>1, <3>2, <3>3, <3>4 DEF TokenInv
  <2>7. CASE g = "deferral"
    <3>1. \A u \in Servers : ~Deferring(u)
      BY <1>0, <2>1, <2>7 DEF TokenInv
    <3>2. \A u, v \in Servers : Deferring(u)' /\ Deferring(v)' => u = v
      BY <2>4, <3>1
    <3>3. \A u \in Servers : Holding(u)' => Holding(u)
      BY <2>4, <2>5, <2>7
    <3>4. ~Linked("deferral")' /\ (Linked("session")' <=> Linked("session")) /\ (Linked("wakeup")' <=> Linked("wakeup"))
      BY <1>1, <1>5, <1>6, <2>7 DEF Linked
    <3> QED
      BY <1>0, <1>1, <1>5, <2>2, <2>3, <3>1, <3>2, <3>3, <3>4 DEF TokenInv
  <2> QED
    BY <1>6, <2>6, <2>7
<1>11. \A u \in Servers \ {s} : server[u].pc \notin {"link", "wait", "selected"} /\ wait[u].on = <<>>
  BY <1>0, <1>3 DEF SelectInv
<1>12. SelectInv'
  BY <1>1, <1>2, <1>7, <1>11 DEF SelectInv
<1>13. ReadyInv'
  <2>1. p = "receive" => Signaled
    BY <1>0, <1>1, <1>2 DEF ReadyInv
  <2> QED
    BY <1>0, <1>1, <1>2, <1>3, <1>7, <2>1, ReadyKeep
<1>14. SignalInv'
  BY <1>0, <1>1, <1>7, SignalKeep
<1> QED
  BY <1>8, <1>9, <1>10, <1>12, <1>13, <1>14 DEF ManagerInv

LEMMA HandleSyncRequestInv ==
    ASSUME SessionInv, ManagerInv, NEW s \in Servers, HandleSyncRequest(s)
    PROVE  SessionInv' /\ ManagerInv'
<1>0. TypeInv /\ TokenInv /\ ReadyInv
  BY DEF SessionInv, ManagerInv
<1>1. /\ server[s].pc = "handle" /\ UNCHANGED <<sessionVars, wait, managerVars>>
      /\ UNCHANGED <<m_state, m_current_request, closer, destroyer>>
  BY DEF HandleSyncRequest, sessionVars
<1>2. m_current_request # None
  BY <1>0, <1>1 DEF ReadyInv
<1>3. /\ server' \in [Servers -> ServerType] /\ server'[s].pc \in {"reply", "defer"}
      /\ server'[s].request = server[s].request /\ ~server'[s].retry
      /\ \A u \in Servers \ {s} : server'[u] = server[u]
  <2>1. CASE server' = [server EXCEPT ![s].pc = IF registered THEN "reply" ELSE "defer", ![s].retry = FALSE]
    <3>1. PICK p \in {"reply", "defer"} : server' = [server EXCEPT ![s].pc = p, ![s].retry = FALSE]
      BY <2>1
    <3>2. p \in ServerPCs
      BY DEF ServerPCs
    <3> QED
      BY <1>0, <3>1, <3>2, RetryFacts
  <2>2. CASE ~server[s].retry /\ server' = [server EXCEPT ![s].pc = "reply", ![s].close = TRUE]
    BY <1>0, <2>2, CloseFlagFacts DEF ServerPCs
  <2> QED
    BY <2>1, <2>2 DEF HandleSyncRequest
<1>4. SessionInv'
  BY <1>1, <1>3, SteppedSession DEF Locked
<1>5. ManagerInv'
  BY <1>1, <1>2, <1>3, HolderStep DEF HoldPCs
<1> QED
  BY <1>4, <1>5

LEMMA DeferInv ==
    ASSUME SessionInv, ManagerInv, NEW s \in Servers, Defer(s)
    PROVE  SessionInv' /\ ManagerInv'
<1>0. TypeInv /\ ManagerType /\ TokenInv /\ SelectInv /\ ReadyInv /\ SignalInv
  BY DEF SessionInv, ManagerInv
<1>1. /\ server[s].pc = "defer" /\ m_deferred_sessions' = TRUE /\ Goto(s, "loop")
      /\ UNCHANGED <<sessionVars, wait, m_multi_wait, m_deferred_list, m_selection_mutex, signaled>>
      /\ UNCHANGED <<m_state, m_request_list, m_current_request, closer, destroyer>>
  BY DEF Defer, sessionVars
<1>2. /\ server' \in [Servers -> ServerType] /\ server'[s].pc = "loop"
      /\ server'[s].request = server[s].request /\ server'[s].retry = server[s].retry
      /\ \A u \in Servers \ {s} : server'[u] = server[u]
  BY <1>0, <1>1, GotoFacts DEF ServerPCs
<1>3. ~server[s].retry /\ wait[s].on = <<>> /\ Holding(s) /\ m_current_request # None
  BY <1>0, <1>1 DEF TokenInv, SelectInv, ReadyInv, Holding, HoldPCs
<1>4. SessionInv'
  BY <1>1, <1>2, SteppedSession DEF Locked
<1>5. ManagerType'
  BY <1>0, <1>1 DEF ManagerType
<1>6. TokenInv'
  <2>1. ~Linked("session") /\ destroyer.pc = "idle"
    BY <1>0, <1>3 DEF TokenInv
  <2>2. \A u \in Servers : ~Holding(u)'
    BY <1>0, <1>2, <1>3 DEF TokenInv, Holding, HoldPCs
  <2>3. \A u \in Servers : Deferring(u)' => Deferring(u)
    BY <1>2 DEF Deferring
  <2>4. \A h \in Holders : Linked(h)' <=> Linked(h)
    BY <1>1 DEF Linked
  <2>5. \A u \in Servers : server'[u].retry => server'[u].pc \in {"relink", "signal", "handle"}
    BY <1>0, <1>2, <1>3 DEF TokenInv
  <2> QED
    BY <1>0, <1>1, <2>1, <2>2, <2>3, <2>4, <2>5 DEF TokenInv, Holders
<1>7. SelectInv'
  BY <1>0, <1>1, <1>2, <1>3 DEF SelectInv
<1>8. ReadyInv'
  BY <1>0, <1>1, <1>2, <1>3, ReadyKeep
<1>9. SignalInv'
  BY <1>0, <1>1, <1>2, <1>3, SignalKeep
<1> QED
  BY <1>4, <1>5, <1>6, <1>7, <1>8, <1>9 DEF ManagerInv

LEMMA LinkToDeferredListInv ==
    ASSUME SessionInv, ManagerInv, NEW s \in Servers, LinkToDeferredList(s)
    PROVE  SessionInv' /\ ManagerInv'
<1>0. TypeInv /\ ManagerType /\ TokenInv /\ SelectInv /\ ReadyInv /\ SignalInv
  BY DEF SessionInv, ManagerInv
<1>1. /\ server[s].pc \in {"replied", "relink"} /\ Goto(s, "signal")
      /\ UNCHANGED <<sessionVars, wait, m_multi_wait, m_deferred_sessions, m_selection_mutex, signaled>>
      /\ UNCHANGED <<m_state, m_request_list, m_current_request, closer, destroyer>>
  BY DEF LinkToDeferredList, sessionVars
<1>2. PICK h \in {"session", "deferral"} : /\ m_deferred_list' = Append(m_deferred_list, h)
                                           /\ h = "deferral" <=> server[s].pc = "relink"
  BY DEF LinkToDeferredList
<1>3. /\ server' \in [Servers -> ServerType] /\ server'[s].pc = "signal"
      /\ server'[s].request = server[s].request /\ server'[s].retry = server[s].retry
      /\ \A u \in Servers \ {s} : server'[u] = server[u]
  BY <1>0, <1>1, GotoFacts DEF ServerPCs
<1>4. /\ wait[s].on = <<>> /\ h \in Holders
      /\ h = "session" => Holding(s) /\ ~server[s].retry
      /\ h = "deferral" => Deferring(s)
  BY <1>0, <1>1, <1>2 DEF TokenInv, SelectInv, Holding, HoldPCs, Deferring, Holders
<1>5. ~Linked(h)
  BY <1>0, <1>2, <1>4 DEF TokenInv
<1>6. /\ m_deferred_list' \in Seq(Holders) /\ m_deferred_list' # <<>> /\ Distinct(m_deferred_list')
      /\ Members(m_deferred_list') = Members(m_deferred_list) \cup {h}
  BY <1>0, <1>2, <1>4, <1>5, AppendFacts DEF ManagerType, TokenInv, Linked
<1>7. SessionInv'
  BY <1>1, <1>3, SteppedSession DEF Locked
<1>8. ManagerType'
  BY <1>0, <1>1, <1>6 DEF ManagerType
<1>9. TokenInv'
  <2>1. \A x \in Holders \ {h} : Linked(x)' <=> Linked(x)
    BY <1>1, <1>6 DEF Linked
  <2>2. Members(m_multi_wait') \cap Members(m_deferred_list') = {}
    BY <1>0, <1>1, <1>5, <1>6 DEF TokenInv, Linked
  <2>3. ~Stopped
    BY <1>1 DEF Stopped
  <2>4. \A u \in Servers : server'[u].retry => server'[u].pc \in {"relink", "signal", "handle"}
    BY <1>0, <1>3 DEF TokenInv
  <2>5. \A u \in Servers : (Holding(u)' => Holding(u)) /\ (Deferring(u)' => Deferring(u))
    BY <1>3 DEF Holding, Deferring, HoldPCs
  <2>6. CASE h = "session"
    <3>1. ~m_deferred_sessions /\ destroyer.pc = "idle"
      BY <1>0, <1>4, <2>6 DEF TokenInv
    <3>2. \A u \in Servers : ~Holding(u)'
      BY <1>0, <1>3, <1>4, <2>6 DEF TokenInv, Holding, HoldPCs
    <3>3. (Linked("deferral")' <=> Linked("deferral")) /\ (Linked("wakeup")' <=> Linked("wakeup"))
      BY <2>1, <2>6 DEF Holders
    <3> QED
      BY <1>0, <1>1, <1>6, <2>2, <2>4, <2>5, <3>1, <3>2, <3>3 DEF TokenInv
  <2>7. CASE h = "deferral"
    <3>1. \A u \in Servers : ~Deferring(u)'
      BY <1>0, <1>3, <1>4, <2>7 DEF TokenInv, Deferring
    <3>2. (Linked("session")' <=> Linked("session")) /\ (Linked("wakeup")' <=> Linked("wakeup"))
      BY <2>1, <2>7 DEF Holders
    <3> QED
      BY <1>0, <1>1, <1>6, <2>2, <2>3, <2>4, <2>5, <3>1, <3>2 DEF TokenInv
  <2> QED
    BY <2>6, <2>7
<1>10. SelectInv'
  BY <1>0, <1>1, <1>3, <1>4 DEF SelectInv
<1>11. ReadyInv'
  <2>1. server[s].retry => m_current_request # None
    BY <1>0 DEF ReadyInv
  <2> QED
    BY <1>0, <1>1, <1>3, <2>1, ReadyKeep
<1>12. SignalInv'
  <2>1. ASSUME NEW u \in Servers, wait'[u].on # <<>>, NEW x \in Members(wait'[u].on), HolderSignaled(x)'
        PROVE  x = "session" /\ closer'.pc \in {"lock", "clean"}
    <3>1. HolderSignaled(x)
      BY <1>1, <2>1 DEF HolderSignaled
    <3> QED
      BY <1>0, <1>1, <2>1, <3>1 DEF SignalInv
  <2> QED
    BY <1>3, <2>1 DEF SignalInv
<1> QED
  BY <1>7, <1>8, <1>9, <1>10, <1>11, <1>12 DEF ManagerInv

\* What an event that is signaled does to the waits.
LEMMA EventWaits ==
    ASSUME ManagerInv, NEW h \in {"wakeup", "deferral"}, wait' = Notify(h), signaled' = signaled \cup {h},
           UNCHANGED <<m_state, m_request_list, m_current_request, closer, m_multi_wait>>
    PROVE  /\ wait' \in [Servers -> WaitType]
           /\ \A u \in Servers : \/ wait'[u] = wait[u]
                                 \/ wait'[u].on = <<>> /\ wait'[u].got = h /\ h \in Members(m_multi_wait)
                                    /\ server[u].pc = "selected"
           /\ \A u \in Servers : wait[u].on = <<>> => wait'[u] = wait[u]
           /\ h = "wakeup" => \A u \in Servers : wait'[u].on = <<>>
           /\ \A u \in Servers : wait'[u].on # <<>> =>
                \A x \in Members(wait'[u].on) : HolderSignaled(x)' => x = "session" /\ closer'.pc \in {"lock", "clean"}
<1>0. ManagerType /\ SelectInv /\ SignalInv
  BY DEF ManagerInv
<1>1. /\ wait' \in [Servers -> WaitType]
      /\ \A u \in Servers : /\ h \in Members(wait[u].on) => wait'[u].on = <<>> /\ wait'[u].got = h
                            /\ h \notin Members(wait[u].on) => wait'[u] = wait[u]
  BY <1>0, NotifyFacts DEF Holders
<1>2. \A u \in Servers : wait[u].on = <<>> => h \notin Members(wait[u].on)
  BY DEF Members
<1>3. \A u \in Servers : h \in Members(wait[u].on) => h \in Members(m_multi_wait) /\ server[u].pc = "selected"
  BY <1>0, <1>2 DEF SelectInv
<1>4. ASSUME h = "wakeup", NEW u \in Servers PROVE wait'[u].on = <<>>
  BY <1>0, <1>1, <1>4 DEF SelectInv
<1>5. ASSUME NEW u \in Servers, wait'[u].on # <<>>, NEW x \in Members(wait'[u].on), HolderSignaled(x)'
      PROVE  x = "session" /\ closer'.pc \in {"lock", "clean"}
  <2>1. wait'[u] = wait[u] /\ x # h
    BY <1>1, <1>5
  <2>2. HolderSignaled(x)
    BY <1>5, <2>1 DEF HolderSignaled
  <2> QED
    BY <1>0, <1>5, <2>1, <2>2 DEF SignalInv
<1> QED
  BY <1>1, <1>2, <1>3, <1>4, <1>5

LEMMA SignalWakeupInv ==
    ASSUME SessionInv, ManagerInv, NEW s \in Servers, SignalWakeup(s)
    PROVE  SessionInv' /\ ManagerInv'
<1>0. TypeInv /\ ManagerType /\ TokenInv /\ SelectInv /\ ReadyInv /\ SignalInv
  BY DEF SessionInv, ManagerInv
<1>1. /\ server[s].pc = "signal" /\ signaled' = signaled \cup {"wakeup"} /\ wait' = Notify("wakeup")
      /\ UNCHANGED <<sessionVars, m_multi_wait, m_deferred_list, m_deferred_sessions, m_selection_mutex>>
      /\ UNCHANGED <<m_state, m_request_list, m_current_request, closer, destroyer>>
  BY DEF SignalWakeup, sessionVars
<1>2. PICK p \in {"handle", "loop"} : Goto(s, p) /\ (p = "handle" <=> server[s].retry)
  BY DEF SignalWakeup
<1>3. /\ server' \in [Servers -> ServerType] /\ server'[s].pc = p
      /\ server'[s].request = server[s].request /\ server'[s].retry = server[s].retry
      /\ \A u \in Servers \ {s} : server'[u] = server[u]
  BY <1>0, <1>2, GotoFacts DEF ServerPCs
<1>4. /\ wait' \in [Servers -> WaitType]
      /\ \A u \in Servers : wait'[u].on = <<>>
      /\ \A u \in Servers : \/ wait'[u] = wait[u]
                            \/ wait'[u].on = <<>> /\ wait'[u].got = "wakeup" /\ "wakeup" \in Members(m_multi_wait)
  BY <1>1, EventWaits
<1>5. SessionInv'
  BY <1>1, <1>2, <1>3, SteppedSession DEF Locked
<1>6. ManagerType'
  BY <1>0, <1>1, <1>4 DEF ManagerType
<1>7. TokenInv'
  BY <1>0, <1>1, <1>2, <1>3, TokenKeep DEF Holding, Deferring, HoldPCs
<1>8. SelectInv'
  BY <1>0, <1>1, <1>2, <1>3, <1>4 DEF SelectInv
<1>9. ReadyInv'
  <2>1. server[s].retry => m_current_request # None
    BY <1>0 DEF ReadyInv
  <2> QED
    BY <1>0, <1>1, <1>2, <1>3, <1>4, <2>1, ReadyKeep
<1>10. SignalInv'
  BY <1>1, <1>4 DEF SignalInv
<1> QED
  BY <1>5, <1>6, <1>7, <1>8, <1>9, <1>10 DEF ManagerInv

LEMMA DestroySessionInv ==
    ASSUME SessionInv, ManagerInv, NEW s \in Servers, DestroySession(s)
    PROVE  SessionInv' /\ ManagerInv'
<1>0. TypeInv /\ ManagerType /\ TokenInv /\ SelectInv /\ ReadyInv /\ SignalInv
  BY DEF SessionInv, ManagerInv
<1>1. CASE /\ server[s].pc = "closed" \/ (server[s].pc = "replied" /\ server[s].close)
           /\ destroyer' = [destroyer EXCEPT !.pc = "check"]
           /\ server' = [server EXCEPT ![s].pc = "destroying", ![s].close = FALSE]
           /\ UNCHANGED <<m_state, m_lock, m_request_list, m_current_request, request, client, handle,
                          closer, wait, managerVars>>
  <2>1. UNCHANGED <<m_multi_wait, m_deferred_list, m_deferred_sessions, m_selection_mutex, signaled>>
    BY <1>1 DEF managerVars
  <2>2. server[s].pc \in {"closed", "replied"} /\ Holding(s)
    BY <1>1 DEF Holding, HoldPCs
  <2>3. ~Linked("session") /\ ~m_deferred_sessions /\ destroyer.pc = "idle" /\ ~server[s].retry /\ wait[s].on = <<>>
    BY <1>0, <2>2 DEF TokenInv, SelectInv
  <2>4. /\ server' \in [Servers -> ServerType] /\ server'[s].pc = "destroying"
        /\ server'[s].request = server[s].request /\ server'[s].retry = server[s].retry
        /\ \A u \in Servers \ {s} : server'[u] = server[u]
    BY <1>0, <1>1, CloseFlagFacts DEF ServerPCs
  <2>5. SessionInv'
    <3>1. \A u \in Servers : /\ server'[u].request = server[u].request
                             /\ server'[u].pc \in Locked => server'[u].pc = server[u].pc
                             /\ server[u].pc \in Locked => server'[u].pc = server[u].pc
      BY <2>2, <2>4 DEF Locked
    <3> QED
      BY <1>1, <2>3, <2>4, <3>1, DestroyerMoves
  <2>6. destroyer'.pc = "check"
    BY <1>0, <1>1 DEF TypeInv
  <2>7. ManagerType'
    BY <1>0, <1>1, <2>1 DEF ManagerType
  <2>8. TokenInv'
    <3>1. \A u \in Servers : ~Holding(u)'
      BY <1>0, <2>2, <2>3, <2>4 DEF TokenInv, Holding, HoldPCs
    <3>2. \A u \in Servers : Deferring(u)' => Deferring(u)
      BY <2>4 DEF Deferring
    <3>3. \A h \in Holders : Linked(h)' <=> Linked(h)
      BY <2>1 DEF Linked
    <3>4. \A u \in Servers : server'[u].retry => server'[u].pc \in {"relink", "signal", "handle"}
      BY <1>0, <2>3, <2>4 DEF TokenInv
    <3> QED
      BY <1>0, <2>1, <2>3, <3>1, <3>2, <3>3, <3>4 DEF TokenInv, Holders
  <2>9. SelectInv'
    BY <1>0, <1>1, <2>1, <2>3, <2>4 DEF SelectInv
  <2>10. ReadyInv'
    BY <1>0, <1>1, <2>1, <2>2, <2>3, <2>4, <2>6, ReadyKeep
  <2>11. SignalInv'
    BY <1>0, <1>1, <2>1, <2>2, <2>3, <2>4, SignalKeep
  <2> QED
    BY <2>5, <2>7, <2>8, <2>9, <2>10, <2>11 DEF ManagerInv
<1>2. CASE /\ server[s].pc = "destroying" /\ destroyer.pc = "done"
           /\ Goto(s, "loop")
           /\ UNCHANGED <<sessionVars, wait, managerVars>>
  <2>1. /\ UNCHANGED <<m_multi_wait, m_deferred_list, m_deferred_sessions, m_selection_mutex, signaled>>
        /\ UNCHANGED <<m_state, m_request_list, m_current_request, closer, destroyer>>
    BY <1>2 DEF managerVars, sessionVars
  <2>2. /\ server' \in [Servers -> ServerType] /\ server'[s].pc = "loop"
        /\ server'[s].request = server[s].request /\ server'[s].retry = server[s].retry
        /\ \A u \in Servers \ {s} : server'[u] = server[u]
    BY <1>0, <1>2, GotoFacts DEF ServerPCs
  <2>3. ~server[s].retry /\ wait[s].on = <<>>
    BY <1>0, <1>2 DEF TokenInv, SelectInv
  <2>4. SessionInv'
    BY <1>2, <2>2, SteppedSession DEF Locked
  <2>5. ManagerType'
    BY <1>0, <1>2, <2>1 DEF ManagerType
  <2>6. TokenInv'
    BY <1>0, <1>2, <2>1, <2>2, <2>3, TokenKeep DEF Holding, Deferring, HoldPCs
  <2>7. SelectInv'
    BY <1>0, <1>2, <2>1, <2>2, <2>3 DEF SelectInv
  <2>8. ReadyInv'
    BY <1>0, <1>2, <2>1, <2>2, <2>3, ReadyKeep
  <2>9. SignalInv'
    BY <1>0, <1>2, <2>1, <2>2, <2>3, SignalKeep
  <2> QED
    BY <2>4, <2>5, <2>6, <2>7, <2>8, <2>9 DEF ManagerInv
<1> QED
  BY <1>1, <1>2 DEF DestroySession

LEMMA ClearDeferralInv ==
    ASSUME SessionInv, ManagerInv, NEW s \in Servers, ClearDeferral(s)
    PROVE  SessionInv' /\ ManagerInv'
<1>0. TypeInv /\ ManagerType /\ TokenInv /\ SelectInv /\ ReadyInv /\ SignalInv
  BY DEF SessionInv, ManagerInv
<1>1. /\ server[s].pc = "deferral" /\ signaled' = signaled \ {"deferral"} /\ Goto(s, "grab")
      /\ UNCHANGED <<sessionVars, wait, m_multi_wait, m_deferred_list, m_deferred_sessions, m_selection_mutex>>
      /\ UNCHANGED <<m_state, m_request_list, m_current_request, closer, destroyer>>
  BY DEF ClearDeferral, sessionVars
<1>2. /\ server' \in [Servers -> ServerType] /\ server'[s].pc = "grab"
      /\ server'[s].request = server[s].request /\ server'[s].retry = server[s].retry
      /\ \A u \in Servers \ {s} : server'[u] = server[u]
  BY <1>0, <1>1, GotoFacts DEF ServerPCs
<1>3. ~server[s].retry /\ wait[s].on = <<>>
  BY <1>0, <1>1 DEF TokenInv, SelectInv
<1>4. SessionInv'
  BY <1>1, <1>2, SteppedSession DEF Locked
<1>5. ManagerType'
  BY <1>0, <1>1 DEF ManagerType
<1>6. TokenInv'
  BY <1>0, <1>1, <1>2, <1>3, TokenKeep DEF Holding, Deferring, HoldPCs
<1>7. SelectInv'
  BY <1>0, <1>1, <1>2, <1>3 DEF SelectInv
<1>8. ReadyInv'
  BY <1>0, <1>1, <1>2, <1>3, ReadyKeep
<1>9. SignalInv'
  BY <1>0, <1>1, <1>2, <1>3, SignalKeep
<1> QED
  BY <1>4, <1>5, <1>6, <1>7, <1>8, <1>9 DEF ManagerInv

LEMMA GrabDeferralsInv ==
    ASSUME SessionInv, ManagerInv, NEW s \in Servers, GrabDeferrals(s)
    PROVE  SessionInv' /\ ManagerInv'
<1>0. TypeInv /\ ManagerType /\ TokenInv /\ SelectInv /\ ReadyInv /\ SignalInv
  BY DEF SessionInv, ManagerInv
<1>1. /\ server[s].pc = "grab" /\ m_deferred_sessions' = FALSE
      /\ server' = [server EXCEPT ![s].pc = "relink", ![s].retry = m_deferred_sessions]
      /\ UNCHANGED <<sessionVars, wait, m_multi_wait, m_deferred_list, m_selection_mutex, signaled>>
      /\ UNCHANGED <<m_state, m_request_list, m_current_request, closer, destroyer>>
  BY DEF GrabDeferrals, sessionVars
<1>2. /\ server' \in [Servers -> ServerType] /\ server'[s].pc = "relink"
      /\ server'[s].request = server[s].request /\ (server'[s].retry <=> m_deferred_sessions)
      /\ \A u \in Servers \ {s} : server'[u] = server[u]
  <2>1. PICK b \in BOOLEAN : b = m_deferred_sessions
    BY <1>0 DEF ManagerType
  <2>2. server' = [server EXCEPT ![s].pc = "relink", ![s].retry = b]
    BY <1>1, <2>1, Zenon
  <2>3. "relink" \in ServerPCs
    BY DEF ServerPCs
  <2>4. /\ server' \in [Servers -> ServerType] /\ server'[s].pc = "relink"
        /\ server'[s].request = server[s].request /\ (server'[s].retry <=> b)
        /\ \A u \in Servers \ {s} : server'[u] = server[u]
    BY <1>0, <2>2, <2>3, RetryFacts
  <2> QED
    BY <2>1, <2>4
<1>3. ~server[s].retry /\ wait[s].on = <<>> /\ ~Holding(s) /\ Deferring(s) /\ Deferring(s)'
  BY <1>0, <1>1, <1>2 DEF TokenInv, SelectInv, Holding, HoldPCs, Deferring
<1>4. SessionInv'
  BY <1>1, <1>2, SteppedSession DEF Locked
<1>5. ManagerType'
  BY <1>0, <1>1 DEF ManagerType
<1>6. ~Stopped
  BY <1>1 DEF Stopped
<1>7. TokenInv'
  <2>1. \A h \in Holders : Linked(h)' <=> Linked(h)
    BY <1>1 DEF Linked
  <2>2. \A u \in Servers : Deferring(u)' => Deferring(u)
    BY <1>2, <1>3 DEF Deferring
  <2>3. \A u \in Servers \ {s} : Holding(u)' => Holding(u)
    BY <1>2 DEF Holding
  <2>4. Holding(s)' => m_deferred_sessions
    BY <1>2 DEF Holding, HoldPCs
  <2>5. \A u \in Servers : server'[u].retry => server'[u].pc \in {"relink", "signal", "handle"}
    BY <1>0, <1>2 DEF TokenInv
  <2>6. m_deferred_sessions => /\ ~Linked("session") /\ destroyer.pc = "idle"
                               /\ \A u \in Servers : ~Holding(u)
    BY <1>0, <1>6 DEF TokenInv
  <2>7. \A u, v \in Servers : Holding(u)' /\ Holding(v)' => u = v
    BY <1>0, <2>3, <2>4, <2>6 DEF TokenInv
  <2>8. \A u \in Servers : Holding(u)' => ~Linked("session") /\ destroyer.pc = "idle"
    BY <1>0, <2>3, <2>4, <2>6 DEF TokenInv
  <2> QED
    BY <1>0, <1>1, <1>6, <2>1, <2>2, <2>5, <2>7, <2>8 DEF TokenInv, Holders
<1>8. SelectInv'
  BY <1>0, <1>1, <1>2, <1>3 DEF SelectInv
<1>9. ReadyInv'
  <2>1. m_deferred_sessions => m_current_request # None
    BY <1>0, <1>6 DEF ReadyInv
  <2> QED
    BY <1>0, <1>1, <1>2, <1>3, <2>1, ReadyKeep
<1>10. SignalInv'
  BY <1>0, <1>1, <1>2, <1>3, SignalKeep
<1> QED
  BY <1>4, <1>5, <1>7, <1>8, <1>9, <1>10 DEF ManagerInv

\* RegisterService and the destructor signal an event.
LEMMA EventInv ==
    ASSUME SessionInv, ManagerInv, NEW h \in {"wakeup", "deferral"}, wait' = Notify(h),
           signaled' = signaled \cup {h},
           UNCHANGED <<sessionVars, server, m_multi_wait, m_deferred_list, m_deferred_sessions, m_selection_mutex>>
    PROVE  SessionInv' /\ ManagerInv'
<1>0. TypeInv /\ ManagerType /\ TokenInv /\ SelectInv /\ ReadyInv /\ SignalInv
  BY DEF SessionInv, ManagerInv
<1>1. UNCHANGED <<m_state, m_lock, m_request_list, m_current_request, request, client, handle, closer, destroyer>>
  BY DEF sessionVars
<1>2. /\ wait' \in [Servers -> WaitType]
      /\ \A u \in Servers : \/ wait'[u] = wait[u]
                            \/ wait'[u].on = <<>> /\ wait'[u].got = h /\ h \in Members(m_multi_wait)
                               /\ server[u].pc = "selected"
      /\ \A u \in Servers : wait'[u].on # <<>> =>
           \A x \in Members(wait'[u].on) : HolderSignaled(x)' => x = "session" /\ closer'.pc \in {"lock", "clean"}
  BY <1>1, EventWaits
<1>3. SessionInv'
  <2>1. TypeInv'
    BY <1>0, <1>1 DEF TypeInv
  <2> QED
    BY <1>1, <2>1, Bystander
<1>4. ManagerType' /\ TokenInv'
  BY <1>0, <1>1, <1>2 DEF ManagerType, TokenInv, Holding, Deferring, Linked, Stopped
<1>5. SelectInv'
  BY <1>0, <1>2 DEF SelectInv
<1>6. ReadyInv'
  <2>1. Signaled' = Signaled /\ Stopped' = Stopped
    BY <1>1 DEF Signaled, Stopped
  <2>2. \A u \in Servers : wait'[u] = wait[u] \/ wait'[u].got # "session"
    BY <1>2
  <2> QED
    BY <1>0, <1>1, <2>1, <2>2 DEF ReadyInv
<1>7. SignalInv'
  BY <1>0, <1>2 DEF SignalInv
<1> QED
  BY <1>3, <1>4, <1>5, <1>6, <1>7 DEF ManagerInv

\* A step that changes nothing of the session and the manager.
LEMMA Stutter ==
    ASSUME SessionInv, ManagerInv,
           UNCHANGED <<sessionVars, server, wait, m_multi_wait, m_deferred_list, m_deferred_sessions,
                       m_selection_mutex, signaled>>
    PROVE  SessionInv' /\ ManagerInv'
<1>1. UNCHANGED <<m_state, m_lock, m_request_list, m_current_request, request, client, handle, closer, destroyer>>
  BY DEF sessionVars
<1>2. SessionInv'
  <2>1. TypeInv'
    BY <1>1 DEF SessionInv, TypeInv
  <2> QED
    BY <1>1, <2>1, Bystander
<1>3. Signaled' = Signaled /\ Stopped' = Stopped
  BY <1>1 DEF Signaled, Stopped
<1>4. ManagerType' /\ TokenInv' /\ SelectInv'
  BY <1>1 DEF ManagerInv, ManagerType, TokenInv, SelectInv, Holding, Deferring, Linked, Stopped
<1>5. ReadyInv'
  BY <1>1, <1>3 DEF ManagerInv, ReadyInv
<1>6. SignalInv'
  BY <1>1 DEF ManagerInv, SignalInv, HolderSignaled
<1> QED
  BY <1>2, <1>4, <1>5, <1>6 DEF ManagerInv

LEMMA OwnerJoinInv ==
    ASSUME SessionInv, ManagerInv, OwnerJoin
    PROVE  SessionInv' /\ ManagerInv'
<1>0. TypeInv /\ ManagerType /\ TokenInv /\ SelectInv /\ ReadyInv /\ SignalInv
  BY DEF SessionInv, ManagerInv
<1>1. UNCHANGED <<m_state, m_lock, m_request_list, m_current_request, request, client, handle, closer, server, wait,
                  m_multi_wait, m_deferred_list, m_deferred_sessions, m_selection_mutex, signaled>>
  BY DEF OwnerJoin
<1>2. CASE destroyer' = destroyer
  <2>1. UNCHANGED sessionVars
    BY <1>1, <1>2 DEF sessionVars
  <2> QED
    BY <1>1, <2>1, Stutter
<1>3. CASE /\ \A s \in Servers : server[s].pc = "stopped"
           /\ destroyer.pc = "idle" /\ destroyer' = [destroyer EXCEPT !.pc = "check"]
  <2>1. destroyer'.pc = "check"
    BY <1>0, <1>3 DEF TypeInv
  <2>2. SessionInv'
    BY <1>0, <1>1, <1>3, DestroyerMoves DEF TypeInv
  <2>3. Stopped /\ Stopped' /\ \A s \in Servers : ~Holding(s)'
    BY <1>0, <1>1, <1>3 DEF Stopped, Holding, HoldPCs, TokenInv
  <2>4. ManagerType' /\ SelectInv'
    BY <1>0, <1>1 DEF ManagerType, SelectInv
  <2>5. TokenInv'
    BY <1>0, <1>1, <2>3 DEF TokenInv, Deferring, Linked, Holding
  <2>6. ReadyInv'
    <3>1. Signaled' = Signaled
      BY <1>1 DEF Signaled
    <3> QED
      BY <1>0, <1>1, <2>1, <2>3, <3>1 DEF ReadyInv
  <2>7. SignalInv'
    BY <1>0, <1>1 DEF SignalInv, HolderSignaled
  <2> QED
    BY <2>2, <2>4, <2>5, <2>6, <2>7 DEF ManagerInv
<1>4. ASSUME destroyer.pc # "idle", destroyer' = [destroyer EXCEPT !.pc = destroyer.pc] PROVE destroyer' = destroyer
  BY <1>0, <1>4 DEF TypeInv
<1> QED
  BY <1>2, <1>3, <1>4 DEF OwnerJoin


-----------------------------------------------------------------------------
(* The invariant                                                           *)

LEMMA InitInv == Init => SessionInv /\ ManagerInv
<1> SUFFICES ASSUME Init PROVE SessionInv /\ ManagerInv
  OBVIOUS
<1>1. /\ m_state = "Normal" /\ m_lock = None /\ m_request_list = <<>> /\ m_current_request = None
      /\ request = [r \in Requests |-> FreeRequest]
      /\ client = [c \in Clients |-> [pc |-> "user", request |-> None, terminating |-> FALSE, event |-> FALSE]]
      /\ handle = TRUE /\ closer = [pc |-> "idle", prev |-> None]
      /\ destroyer = [pc |-> "idle", request |-> None]
  BY DEF Init, SessionInit
<1>2. /\ server \in [Servers -> ServerType]
      /\ \A s \in Servers : /\ server[s].pc \in {"loop", "stopped"} /\ server[s].request = None
                            /\ ~server[s].retry
  BY DEF Init, ServerType, ServerPCs
<1>3. /\ request \in [Requests -> RequestType]
      /\ \A r \in Requests : request[r].thread = None /\ ~request[r].event /\ request[r].refs = 0
  BY <1>1 DEF RequestType, FreeRequest
<1>4. /\ client \in [Clients -> ClientType]
      /\ \A c \in Clients : client[c].pc = "user" /\ client[c].request = None /\ ~client[c].event
  BY <1>1 DEF ClientType
<1>5. Held = {} /\ Called = {}
  BY <1>1, <1>2, <1>4, NoneAssumption DEF Held, Called, Members
<1>6. SessionInv
  <2>1. TypeInv
    <3>1. closer \in [pc : {"idle", "check", "set", "lock", "clean", "done"}, prev : Requests \cup {None}]
      BY <1>1
    <3>2. destroyer \in [pc : {"idle", "check", "set", "lock", "clean", "reply", "done"},
                         request : Requests \cup {None}]
      BY <1>1
    <3>3. m_request_list \in Seq(Requests) /\ handle \in BOOLEAN
      BY <1>1
    <3> QED
      BY <1>1, <1>2, <1>3, <1>4, <3>1, <3>2, <3>3, Zenon DEF TypeInv
  <2>2. LockInv
    BY <1>1, <1>2 DEF LockInv, Locked
  <2>3. PlaceInv
    BY <1>1, <1>2 DEF PlaceInv, Distinct, Members
  <2>4. CallInv
    BY <1>3, <1>4, <1>5 DEF CallInv, InCall, One
  <2>5. OwnInv
    BY <1>4, <1>5 DEF OwnInv
  <2>6. CloserInv
    BY <1>1, <1>5 DEF CloserInv
  <2> QED
    BY <2>1, <2>2, <2>3, <2>4, <2>5, <2>6 DEF SessionInv
<1>7. /\ m_multi_wait = <<>> /\ m_deferred_sessions = FALSE /\ signaled = {"wakeup"}
      /\ m_deferred_list = <<"wakeup", "deferral", "session">> \/ m_deferred_list = <<"wakeup", "session">>
      /\ wait = [s \in Servers |-> [on |-> <<>>, got |-> "none"]]
  BY DEF Init
<1>8. /\ wait \in [Servers -> WaitType] /\ \A s \in Servers : wait[s].on = <<>>
  BY <1>7 DEF WaitType
<1>9. /\ m_deferred_list \in Seq(Holders) /\ Distinct(m_deferred_list)
      /\ "wakeup" \in Members(m_deferred_list) /\ Members(m_multi_wait) = {}
  <2>1. CASE m_deferred_list = <<"wakeup", "deferral", "session">>
    <3>1. DOMAIN m_deferred_list = 1..3 /\ m_deferred_list \in Seq(Holders)
          /\ m_deferred_list[1] = "wakeup" /\ m_deferred_list[2] = "deferral" /\ m_deferred_list[3] = "session"
      BY <2>1 DEF Holders
    <3> QED
      BY <1>7, <3>1 DEF Distinct, Members
  <2>2. CASE m_deferred_list = <<"wakeup", "session">>
    <3>1. DOMAIN m_deferred_list = 1..2 /\ m_deferred_list \in Seq(Holders)
          /\ m_deferred_list[1] = "wakeup" /\ m_deferred_list[2] = "session"
      BY <2>2 DEF Holders
    <3> QED
      BY <1>7, <3>1 DEF Distinct, Members
  <2> QED
    BY <1>7, <2>1, <2>2
<1>10. ManagerInv
  <2>1. ManagerType
    <3>1. m_multi_wait \in Seq(Holders)
      BY <1>7
    <3>2. m_deferred_sessions \in BOOLEAN
      BY <1>7, Zenon
    <3> QED
      BY <1>8, <1>9, <3>2, <3>1, Zenon DEF ManagerType
  <2>2. TokenInv
    <3>1. \A s \in Servers : ~Holding(s) /\ ~Deferring(s)
      BY <1>2 DEF Holding, HoldPCs, Deferring
    <3>2. /\ destroyer.pc = "idle" /\ ~m_deferred_sessions /\ Linked("wakeup") /\ Distinct(m_multi_wait)
          /\ Members(m_multi_wait) \cap Members(m_deferred_list) = {}
      BY <1>1, <1>7, <1>9 DEF Linked, Distinct
    <3> QED
      BY <1>2, <1>9, <3>1, <3>2, Zenon DEF TokenInv
  <2>3. SelectInv
    BY <1>2, <1>8 DEF SelectInv
  <2>4. ReadyInv
    BY <1>1, <1>2, <1>7 DEF ReadyInv
  <2>5. SignalInv
    BY <1>7, <1>8 DEF SignalInv
  <2> QED
    BY <2>1, <2>2, <2>3, <2>4, <2>5 DEF ManagerInv
<1> QED
  BY <1>6, <1>10

LEMMA ClientInv ==
    ASSUME SessionInv, ManagerInv, NEW c \in Clients, ClientStep(c) \/ ClientChoice(c)
    PROVE  SessionInv' /\ ManagerInv'
<1>1. \/ OnRequest(c) \/ Return(c) \/ RequestTerminate(c)
      \/ SendRequest(c, FALSE) \/ SendRequest(c, TRUE)
  BY DEF ClientStep, ClientChoice
<1>2. SessionInv'
  BY <1>1, OnRequestSession, ReturnSession, RequestTerminateSession, SendRequestSession
<1> QED
  BY <1>2, ClientManager

LEMMA ServerInv ==
    ASSUME SessionInv, ManagerInv, NEW s \in Servers, ServerStep(s)
    PROVE  SessionInv' /\ ManagerInv'
<1>1. CASE /\ LockSession(s) \/ ReceivePop(s) \/ ReceiveSetCurrent(s) \/ ReplyTake(s) \/ ReplyAnswer(s)
           /\ UNCHANGED managerVars
  BY <1>1, CallsManager, LockSessionSession, ReceivePopSession, ReceiveSetCurrentSession,
     ReplyTakeSession, ReplyAnswerSession
<1>2. CASE Loop(s) \/ LinkDeferred(s) \/ WaitAny(s) \/ Woken(s) \/ Select(s)
  BY <1>2, LoopInv, LinkDeferredInv, WaitAnyInv, WokenInv, SelectsInv
<1>3. CASE \/ HandleSyncRequest(s) \/ Defer(s) \/ LinkToDeferredList(s) \/ SignalWakeup(s)
           \/ DestroySession(s) \/ ClearDeferral(s) \/ GrabDeferrals(s)
  BY <1>3, HandleSyncRequestInv, DeferInv, LinkToDeferredListInv, SignalWakeupInv,
     DestroySessionInv, ClearDeferralInv, GrabDeferralsInv
<1> QED
  BY <1>1, <1>2, <1>3 DEF ServerStep

LEMMA NextInv == SessionInv /\ ManagerInv /\ [Next]_vars => SessionInv' /\ ManagerInv'
<1> SUFFICES ASSUME SessionInv, ManagerInv, [Next]_vars PROVE SessionInv' /\ ManagerInv'
  OBVIOUS
<1>1. ASSUME NEW c \in Clients, ClientStep(c) \/ ClientChoice(c) PROVE SessionInv' /\ ManagerInv'
  BY <1>1, ClientInv
<1>2. CASE CloseHandle /\ UNCHANGED managerVars
  BY <1>2, CloseHandleSession, CloseHandleManager
<1>3. CASE CloserStep
  BY <1>3, CloserSession, CloserManager
<1>4. CASE DestroyerStep
  BY <1>4, DestroyerSession, DestroyerManager
<1>5. ASSUME NEW s \in Servers, ServerStep(s) PROVE SessionInv' /\ ManagerInv'
  BY <1>5, ServerInv
<1>6. CASE RegisterService
  BY <1>6, EventInv DEF RegisterService
<1>7. CASE RequestStop
  BY <1>7, Stutter DEF RequestStop
<1>8. CASE OwnerSignal
  BY <1>8, EventInv DEF OwnerSignal
<1>9. CASE OwnerJoin
  BY <1>9, OwnerJoinInv
<1>10. CASE UNCHANGED vars
  BY <1>10, Stutter DEF vars, managerVars
<1> QED
  BY <1>1, <1>2, <1>3, <1>4, <1>5, <1>6, <1>7, <1>8, <1>9, <1>10 DEF Next

\* KSession, KServerSession and ServerManager: every request of a session is
\* in one place and has the references of its owners, m_lock and
\* m_selection_mutex protect what they are for, one thread at a time has the
\* session, and no signal to a thread that waits is lost: the invariant the
\* theorems below follow from, for any threads, requests and deployments.
THEOREM Invariant == Spec => [](SessionInv /\ ManagerInv)
  BY InitInv, NextInv, PTL DEF Spec

-----------------------------------------------------------------------------
(* The properties                                                          *)

\* A set with at most one member has none or one.
LEMMA AtMostOne ==
    ASSUME NEW S, \A x, y \in S : x = y
    PROVE  Cardinality(S) = One(S # {})
<1>1. CASE S = {}
  BY <1>1, FS_EmptySet DEF One
<1>2. CASE S # {}
  <2>1. PICK x : S = {x}
    BY <1>2
  <2> QED
    BY <1>2, <2>1, FS_Singleton DEF One
<1> QED
  BY <1>1, <1>2

\* As many members as positions.
LEMMA DistinctCardinality ==
    ASSUME NEW S, NEW q \in Seq(S), Distinct(q)
    PROVE  Cardinality(Members(q)) = Len(q)
<1>1. DOMAIN q = 1..Len(q) /\ Len(q) \in Nat
  OBVIOUS
<1>2. IsFiniteSet(1..Len(q)) /\ Cardinality(1..Len(q)) = Len(q)
  BY <1>1, FS_Interval
<1>3. q \in [1..Len(q) -> Members(q)]
  BY <1>1 DEF Members
<1>4. \A m \in Members(q) : \E i \in 1..Len(q) : q[i] = m
  BY <1>1 DEF Members
<1>5. q \in Surjection(1..Len(q), Members(q))
  BY <1>3, <1>4 DEF Surjection
<1>6. q \in Injection(1..Len(q), Members(q))
  BY <1>1, <1>3 DEF Injection, IsInjective, Distinct
<1> QED
  BY <1>2, <1>5, <1>6, FS_Surjection

LEMMA References ==
    ASSUME SessionInv, NEW r \in Requests
    PROVE  /\ KernelReferences(r) = One(r \in Held)
           /\ Cardinality({c \in Clients : client[c].request = r}) = One(r \in Called)
<1> DEFINE I == {i \in DOMAIN m_request_list : m_request_list[i] = r}
           S == {s \in Servers : server[s].request = r}
           C == {c \in Clients : client[c].request = r}
<1>0. LockInv /\ PlaceInv /\ CallInv /\ r # None
  BY NoneAssumption DEF SessionInv
<1>1. Cardinality(I) = One(I # {})
  <2>1. \A i, j \in I : i = j
    BY <1>0 DEF PlaceInv, Distinct
  <2> HIDE DEF I
  <2> QED
    BY <2>1, AtMostOne
<1>2. Cardinality(S) = One(S # {})
  <2>1. \A s, t \in S : s = t
    BY <1>0 DEF PlaceInv, LockInv, Locked
  <2> HIDE DEF S
  <2> QED
    BY <2>1, AtMostOne
<1>3. Cardinality(C) = One(C # {})
  <2>1. \A c, d \in C : c = d
    BY <1>0 DEF CallInv
  <2> HIDE DEF C
  <2> QED
    BY <2>1, AtMostOne
<1>4. I # {} <=> r \in Members(m_request_list)
  BY DEF Members
<1>5. S # {} <=> \E s \in Servers : server[s].request = r
  OBVIOUS
<1>6. C # {} <=> r \in Called
  BY DEF Called
<1>7. /\ r \in Members(m_request_list) => m_current_request # r /\ destroyer.request # r /\ S = {}
      /\ m_current_request = r => destroyer.request # r /\ S = {}
      /\ destroyer.request = r => S = {}
  <2>1. r \in Members(m_request_list) => m_current_request # r /\ destroyer.request # r /\ S = {}
    BY <1>0 DEF PlaceInv
  <2>2. m_current_request = r => destroyer.request # r /\ S = {}
    BY <1>0 DEF PlaceInv
  <2>3. ASSUME destroyer.request = r, NEW s \in Servers, server[s].request = r PROVE FALSE
    <3>1. server[s].pc \in Locked
      BY <1>0, <2>3 DEF PlaceInv, Locked
    <3> QED
      BY <1>0, <2>3, <3>1, Alone
  <2> QED
    BY <2>1, <2>2, <2>3
<1>8. r \in Held <=> \/ r \in Members(m_request_list)
                     \/ r = m_current_request
                     \/ r = destroyer.request
                     \/ S # {}
  BY <1>5 DEF Held
<1>9. KernelReferences(r) = One(I # {}) + One(m_current_request = r) + One(destroyer.request = r) + One(S # {})
  BY <1>1, <1>2 DEF KernelReferences, One
<1>10. KernelReferences(r) = One(r \in Held)
  <2> HIDE DEF I, S, C
  <2> QED
    BY <1>4, <1>7, <1>8, <1>9 DEF One
<1> QED
  BY <1>3, <1>6, <1>10

\* KSessionRequest's Open and Close balance: a request has one reference for
\* its call and one for the place of the session it is in, for any number of
\* clients, servers and requests, however calls, replies, terminations and
\* the two ways of closing race.
THEOREM RequestsAccounted == Spec => []RequestsAreAccounted
<1>1. SessionInv => RequestsAreAccounted
  <2> SUFFICES ASSUME SessionInv, NEW r \in Requests
               PROVE  /\ KernelReferences(r) <= 1
                      /\ request[r].refs = KernelReferences(r)
                                           + Cardinality({c \in Clients : client[c].request = r})
    BY DEF RequestsAreAccounted
  <2>1. request[r].refs = One(r \in Held) + One(r \in Called)
    BY DEF SessionInv, CallInv
  <2>2. One(r \in Held) <= 1
    BY DEF One
  <2> QED
    BY <2>1, <2>2, References
<1> QED
  BY <1>1, Invariant, PTL

\* A client of KServerSession that waits, or has an event to be signaled, has
\* a request in the session and every such request its client: OnRequest,
\* SendReply, CleanupRequests and OnClientClosed forget nobody and end no
\* other wait.
THEOREM NobodyForgotten == Spec => []NobodyIsForgotten
<1>1. SessionInv => NobodyIsForgotten
  <2> SUFFICES ASSUME SessionInv, NEW c \in Clients, ~client[c].terminating
               PROVE  LET own == {r \in Requests : request[r].thread = c /\ KernelReferences(r) = 1} IN
                      /\ client[c].pc = "wait" <=> \E r \in own : ~request[r].event
                      /\ client[c].event <=> \E r \in own : request[r].event
                      /\ \A r \in own : ~request[r].event => client[c].request = r
    BY DEF NobodyIsForgotten
  <2> DEFINE own == {r \in Requests : request[r].thread = c /\ KernelReferences(r) = 1}
  <2>1. own = {r \in Held : request[r].thread = c}
    <3>1. ASSUME NEW r \in Requests PROVE KernelReferences(r) = 1 <=> r \in Held
      <4>1. KernelReferences(r) = One(r \in Held)
        BY References
      <4> QED
        BY <4>1 DEF One
    <3> QED
      BY <3>1 DEF Held
  <2> HIDE DEF own
  <2>2. client[c].event \in BOOLEAN
    BY DEF SessionInv, TypeInv, ClientType
  <2>3. /\ client[c].pc = "wait" => /\ client[c].request \in own
                                    /\ ~request[client[c].request].event
        /\ client[c].event => \E r \in own : request[r].event
        /\ \A r \in own : request[r].event => client[c].event
        /\ \A r \in own : ~request[r].event => client[c].pc = "wait" /\ client[c].request = r
    BY <2>1 DEF SessionInv, OwnInv
  <2>4. client[c].pc = "wait" <=> \E r \in own : ~request[r].event
    BY <2>3
  <2>5. client[c].event <=> \E r \in own : request[r].event
    BY <2>2, <2>3
  <2> QED
    BY <2>3, <2>4, <2>5 DEF own
<1> QED
  BY <1>1, Invariant, PTL

\* The R_ASSERTs of ServerManager's OnSessionEvent and CompleteSyncRequest, the
\* rule that a MultiWaitHolder is in one list, and OnClientClosed's assertion
\* that the current request has a thread never fail.
THEOREM Assertions == Spec => []AssertionsHold
<1>1. SessionInv /\ ManagerInv => AssertionsHold
  <2> SUFFICES ASSUME SessionInv, ManagerInv PROVE AssertionsHold
    OBVIOUS
  <2>1. \A s \in Servers : server[s].pc \notin {"NotFound", "InvalidState"}
    BY DEF ManagerInv, ReadyInv
  <2>2. Cardinality(Members(m_multi_wait \o m_deferred_list)) = Len(m_multi_wait \o m_deferred_list)
    <3>1. m_multi_wait \in Seq(Holders) /\ m_deferred_list \in Seq(Holders)
      BY DEF ManagerInv, ManagerType
    <3>2. /\ m_multi_wait \o m_deferred_list \in Seq(Holders)
          /\ Distinct(m_multi_wait \o m_deferred_list)
      BY <3>1, ConcatFacts DEF ManagerInv, TokenInv
    <3> QED
      BY <3>2, DistinctCardinality
  <2>3. ASSUME closer.pc = "clean", m_current_request \notin {None, closer.prev}
        PROVE  request[m_current_request].thread # None
    <3>1. m_current_request \in Held
      BY <2>3 DEF SessionInv, TypeInv, Held
    <3> QED
      BY <2>3, <3>1 DEF SessionInv, CloserInv
  <2> QED
    BY <2>1, <2>2, <2>3 DEF AssertionsHold
<1> QED
  BY <1>1, Invariant, PTL

\* The thread that WaitAny blocks is never left behind by LinkToDeferredList,
\* RegisterService, OnRequest or a closing client: what it waits for is not
\* signaled, and a holder to be linked has somebody who will wake it.
THEOREM SignalsReach == Spec => []NoMissedSignal
<1>1. ManagerInv => NoMissedSignal
  <2> SUFFICES ASSUME ManagerInv, NEW s \in Servers, wait[s].on # <<>>
               PROVE  /\ \A h \in Members(wait[s].on) :
                           HolderSignaled(h) => h = "session" /\ closer.pc \in {"lock", "clean"}
                      /\ m_deferred_list # <<>> => \E t \in Servers : server[t].pc = "signal"
    BY DEF NoMissedSignal
  <2>1. SelectInv /\ SignalInv
    BY DEF ManagerInv
  <2>2. /\ server[s].pc = "selected" /\ m_selection_mutex = s
        /\ "wakeup" \in Members(wait[s].on)
    BY <2>1 DEF SelectInv
  <2>3. "wakeup" \notin signaled
    BY <2>1, <2>2 DEF SignalInv, HolderSignaled
  <2>4. \A t \in Servers : server[t].pc # "link"
    BY <2>1, <2>2 DEF SelectInv
  <2> QED
    BY <2>1, <2>3, <2>4 DEF SignalInv
<1> QED
  BY <1>1, Invariant, PTL
=============================================================================
