--------------------------- MODULE ReverseSessions ---------------------------
(***************************************************************************)
(* The panel's reverse listener (panel_reverse_server.py): agents dial in,  *)
(* each connection gets a thread that identifies the agent, registers a    *)
(* session (replacing an older one of the same host), serves the parents'  *)
(* requests one at a time and refreshes the dashboard when idle.  Threads  *)
(* of the web server look sessions up by address and submit requests.      *)
(*                                                                         *)
(* One step is what a thread does between two places where another can     *)
(* interfere: an operation on a request queue or a Future, an exchange     *)
(* with the agent, a section under _registry_lock, a callback into the     *)
(* dashboard.                                                              *)
(***************************************************************************)
EXTENDS Naturals, Sequences, FiniteSets

CONSTANTS
    Conns,      \* connections, each used once
    Hosts,      \* host names agents give
    IPs,        \* addresses they come from
    Calls,      \* the parents' requests, each submitted once
    NoConn, NoCall, Nobody,
    TLS,        \* the panel has a certificate: tls_cert_paths is not None
    ListenerMayFail     \* bind, listen and accept may fail

ASSUME SessionsAssumption ==
    /\ IsFiniteSet(Conns) /\ IsFiniteSet(Calls)
    /\ NoConn \notin Conns /\ NoCall \notin Calls
    /\ Nobody \notin Hosts \cup IPs
    /\ TLS \in BOOLEAN /\ ListenerMayFail \in BOOLEAN

\* An answer is told from the ways a call can fail.
ASSUME AnswersAssumption ==
    (Calls \cup {NoCall})
        \cap {"none", "error", "not_found", "closed", "timed_out"} = {}

VARIABLES
    at,         \* where the thread of a connection is (_handle_client)
    host, ip,   \* who connected, and from where
    byHost, byIP,   \* _sessions_by_hostname, _sessions_by_ip
    closed,     \* sessions whose _closed is set and whose socket is closed
    queue,      \* _requests of a session; NoCall is the None that ends its loop
    cur,        \* the call a session is serving; NoCall is its own refresh
    toAgent, fromAgent,     \* frames on their way, per connection
    callAt,     \* where the caller of submit is
    callTo,     \* the session it submits to
    result,     \* the Future of its request
    outcome,    \* what submit returned or raised
    executed,   \* how often an agent has carried out a request
    srv,        \* the accept loop (_serve)
    running,    \* stop() has not been called
    stopping,   \* stop() has not emptied the registry yet
    leaving,    \* sessions it took out of the registry and has not closed yet
    shown       \* what the dashboard was last told of a host

registry == <<byHost, byIP>>
sessions == <<at, host, ip, cur>>
doors == <<closed, queue>>
wire == <<toAgent, fromAgent>>
callers == <<callAt, callTo, outcome>>
server == <<srv, running, stopping, leaving>>
vars == <<sessions, registry, doors, wire, callers, result, executed, server, shown>>

Requests == Calls \cup {NoCall}
Outcomes == Requests \cup {"none", "error", "not_found", "closed", "timed_out"}

\* Places where a registered session is served.
InLoop == {"report", "loop", "get", "exchange", "refresh"}

Move(c, from, to) == at[c] = from /\ at' = [at EXCEPT ![c] = to]

\* ReverseSession.close: flag the session, wake its loop, close its socket.
Close(S) ==
    /\ closed' = closed \cup S
    /\ queue' = [c \in Conns |-> IF c \in S THEN Append(queue[c], NoCall) ELSE queue[c]]

-----------------------------------------------------------------------------
(* The accept loop: _serve *)

\* An agent dials in (perhaps into an accept() that stop() finds waiting).  With
\* TLS, accept() is also where the handshake takes place.
Connect(c) ==
    /\ srv = "accepting"
    /\ \/ ~TLS /\ Move(c, "none", "identify") /\ UNCHANGED srv
       \/ TLS /\ Move(c, "none", "handshake") /\ srv' = "handshake"
    /\ \E h \in Hosts, i \in IPs :
          host' = [host EXCEPT ![c] = h] /\ ip' = [ip EXCEPT ![c] = i]
    /\ UNCHANGED <<registry, doors, cur, wire, callers, result, executed, running,
                   stopping, leaving, shown>>

\* A thread of its own takes the connection over.
HandshakeDone(c) ==
    /\ Move(c, "handshake", "identify")
    /\ srv' = "accepting"
    /\ UNCHANGED <<host, ip, registry, doors, cur, wire, callers, result, executed,
                   running, stopping, leaving, shown>>

\* SSLError is an OSError: accept() fails, and the listener with it.
HandshakeFails(c) ==
    /\ Move(c, "handshake", "ended")
    /\ srv' = "failed"
    /\ UNCHANGED <<host, ip, registry, doors, cur, wire, callers, result, executed,
                   running, stopping, leaving, shown>>

\* bind, listen or accept fails.  The sessions live on.
ListenerFails ==
    /\ ListenerMayFail
    /\ srv = "accepting" /\ running
    /\ srv' = "failed"
    /\ UNCHANGED <<sessions, registry, doors, wire, callers, result, executed, running,
                   stopping, leaving, shown>>

\* Listen again, unless the server was stopped.
ServeAgain ==
    /\ srv \in {"accepting", "failed"}
    /\ \/ running /\ srv = "failed" /\ srv' = "accepting"
       \/ ~running /\ srv' = "stopped"
    /\ UNCHANGED <<sessions, registry, doors, wire, callers, result, executed, running,
                   stopping, leaving, shown>>

\* stop(): flag it ...
Stop ==
    /\ running
    /\ running' = FALSE
    /\ stopping' = TRUE
    /\ UNCHANGED <<sessions, registry, doors, wire, callers, result, executed, srv,
                   leaving, shown>>

\* ... take the sessions out of the registry, under the lock ...
ClearRegistry ==
    /\ stopping
    /\ stopping' = FALSE
    /\ leaving' = {byHost[h] : h \in Hosts} \ {NoConn}
    /\ byHost' = [h \in Hosts |-> NoConn]
    /\ byIP' = [i \in IPs |-> NoConn]
    /\ UNCHANGED <<sessions, doors, wire, callers, result, executed, srv, running, shown>>

\* ... and close them one by one, when the lock has been released.
CloseSession ==
    /\ \E c \in leaving : leaving' = leaving \ {c} /\ Close({c})
    /\ UNCHANGED <<sessions, registry, wire, callers, result, executed, srv, running,
                   stopping, shown>>

-----------------------------------------------------------------------------
(* The thread of one connection: _handle_client *)

\* No secret, no proper answer, none in time: the connection is dropped.
IdentifyFails(c) ==
    /\ Move(c, "identify", "ended")
    /\ UNCHANGED <<host, ip, registry, doors, cur, wire, callers, result, executed,
                   server, shown>>

\* Mutant: leaves the address of the session it replaces.
RegisterKeepsOldAddress(c) ==
    /\ Move(c, "identify", "report")
    /\ Close({byHost[host[c]]} \ {NoConn})
    /\ byHost' = [byHost EXCEPT ![host[c]] = c]
    /\ byIP' = [byIP EXCEPT ![ip[c]] = c]
    /\ UNCHANGED <<host, ip, cur, wire, callers, result, executed, server, shown>>

\* Mutant: the replaced session is left alone.
RegisterWithoutClose(c) ==
    /\ Move(c, "identify", "report")
    /\ byHost' = [byHost EXCEPT ![host[c]] = c]
    /\ byIP' = [i \in IPs |->
                  IF i = ip[c] THEN c
                  ELSE IF byIP[i] # NoConn /\ host[byIP[i]] = host[c] THEN NoConn
                  ELSE byIP[i]]
    /\ UNCHANGED <<host, ip, doors, cur, wire, callers, result, executed, server, shown>>

\* The agent has said who it is: under the lock, close the session its host had,
\* forget the addresses of that one, and take its place.
Register(c) ==
    /\ Move(c, "identify", "report")
    /\ Close({byHost[host[c]]} \ {NoConn})
    /\ byHost' = [byHost EXCEPT ![host[c]] = c]
    /\ byIP' = [i \in IPs |->
                  IF i = ip[c] THEN c
                  ELSE IF byIP[i] # NoConn /\ host[byIP[i]] = host[c] THEN NoConn
                  ELSE byIP[i]]
    /\ UNCHANGED <<host, ip, cur, wire, callers, result, executed, server, shown>>

\* _emit_status: after registering, and after every refresh.
EmitStatus(c) ==
    /\ Move(c, "report", "loop")
    /\ shown' = [shown EXCEPT ![host[c]] = "connected"]
    /\ UNCHANGED <<host, ip, registry, doors, cur, wire, callers, result, executed, server>>

-----------------------------------------------------------------------------
(* _session_loop *)

\* Mutant: looks at the session only.
LoopTestsSessionOnly(c) ==
    /\ \/ c \in closed /\ Move(c, "loop", "unregister")
       \/ c \notin closed /\ Move(c, "loop", "get")
    /\ UNCHANGED <<host, ip, registry, doors, cur, wire, callers, result, executed,
                   server, shown>>

\* The loop's condition, tested before each wait for a request.
LoopTest(c) ==
    /\ \/ (~running \/ c \in closed) /\ Move(c, "loop", "unregister")
       \/ running /\ c \notin closed /\ Move(c, "loop", "get")
    /\ UNCHANGED <<host, ip, registry, doors, cur, wire, callers, result, executed,
                   server, shown>>

\* A frame for the agent.  Nothing is sent on a closed socket.  (A request that cannot
\* be written down, or sent because the connection is broken, is to this module like
\* one that the agent never reads.)
Send(c, x) ==
    \/ c \notin closed /\ toAgent' = [toAgent EXCEPT ![c] = Append(@, x)]
    \/ c \in closed /\ UNCHANGED toAgent

\* The oldest request of the queue is sent on; None ends the loop.
TakeRequest(c) ==
    /\ queue[c] # <<>>
    /\ queue' = [queue EXCEPT ![c] = Tail(@)]
    /\ \/ /\ Head(queue[c]) = NoCall
          /\ Move(c, "get", "unregister")
          /\ UNCHANGED <<cur, toAgent>>
       \/ /\ Head(queue[c]) # NoCall
          /\ Move(c, "get", "exchange")
          /\ cur' = [cur EXCEPT ![c] = Head(queue[c])]
          /\ Send(c, Head(queue[c]))
    /\ UNCHANGED <<host, ip, registry, closed, fromAgent, callers, result, executed,
                   server, shown>>

\* Nothing was asked for a while.
Refresh(c) ==
    /\ queue[c] = <<>>
    /\ Move(c, "get", "refresh")
    /\ Send(c, NoCall)
    /\ UNCHANGED <<host, ip, registry, doors, cur, fromAgent, callers, result, executed,
                   server, shown>>

\* Mutant: a refresh is not reported.
ExchangeDoneSilently(c) ==
    /\ fromAgent[c] # <<>>
    /\ fromAgent' = [fromAgent EXCEPT ![c] = Tail(@)]
    /\ \/ /\ Move(c, "exchange", "loop")
          /\ result' = [result EXCEPT ![cur[c]] = Head(fromAgent[c])]
          /\ cur' = [cur EXCEPT ![c] = NoCall]
       \/ /\ Move(c, "refresh", "loop")
          /\ UNCHANGED <<result, cur>>
    /\ UNCHANGED <<host, ip, registry, doors, toAgent, callers, executed, server, shown>>

\* The next frame from the agent is taken for the answer.
ExchangeDone(c) ==
    /\ fromAgent[c] # <<>>
    /\ fromAgent' = [fromAgent EXCEPT ![c] = Tail(@)]
    /\ \/ /\ Move(c, "exchange", "loop")
          /\ result' = [result EXCEPT ![cur[c]] = Head(fromAgent[c])]
          /\ cur' = [cur EXCEPT ![c] = NoCall]
       \/ /\ Move(c, "refresh", "report")
          /\ UNCHANGED <<result, cur>>
    /\ UNCHANGED <<host, ip, registry, doors, toAgent, callers, executed, server, shown>>

\* Mutant: an exchange that failed does not end the session.
ExchangeFailsAndGoesOn(c) ==
    /\ \/ /\ Move(c, "exchange", "loop")
          /\ result' = [result EXCEPT ![cur[c]] = "error"]
          /\ cur' = [cur EXCEPT ![c] = NoCall]
       \/ /\ Move(c, "refresh", "loop")
          /\ UNCHANGED <<result, cur>>
    /\ UNCHANGED <<host, ip, registry, doors, wire, callers, executed, server, shown>>

\* Mutant: a request that failed is tried once more.
ExchangeFailsAndRetries(c) ==
    /\ \/ /\ at[c] = "exchange"
          /\ Send(c, cur[c])
          /\ UNCHANGED <<at, result, cur>>
       \/ /\ Move(c, "refresh", "unregister")
          /\ UNCHANGED <<result, cur, toAgent>>
    /\ UNCHANGED <<host, ip, registry, doors, fromAgent, callers, executed, server, shown>>

\* No answer in time, a broken connection, an answer that does not verify, a value
\* that cannot be sent: whoever waits is told, and the session ends.
ExchangeFails(c) ==
    /\ \/ /\ Move(c, "exchange", "unregister")
          /\ result' = [result EXCEPT ![cur[c]] = "error"]
          /\ cur' = [cur EXCEPT ![c] = NoCall]
       \/ /\ Move(c, "refresh", "unregister")
          /\ UNCHANGED <<result, cur>>
    /\ UNCHANGED <<host, ip, registry, doors, wire, callers, executed, server, shown>>

-----------------------------------------------------------------------------
(* The end of a session *)

\* Mutant: removes whatever session the host and the address have.
UnregisterAnyway(c) ==
    /\ Move(c, "unregister", "close")
    /\ byHost' = [byHost EXCEPT ![host[c]] = NoConn]
    /\ byIP' = [byIP EXCEPT ![ip[c]] = NoConn]
    /\ UNCHANGED <<host, ip, doors, cur, wire, callers, result, executed, server, shown>>

Unregister(c) ==
    /\ Move(c, "unregister", "close")
    /\ byHost' = [h \in Hosts |-> IF byHost[h] = c THEN NoConn ELSE byHost[h]]
    /\ byIP' = [i \in IPs |-> IF byIP[i] = c THEN NoConn ELSE byIP[i]]
    /\ UNCHANGED <<host, ip, doors, cur, wire, callers, result, executed, server, shown>>

\* Close the session; what has been received and not read is gone.
End(c) ==
    /\ Move(c, "close", "gone")
    /\ Close({c})
    /\ fromAgent' = [fromAgent EXCEPT ![c] = <<>>]
    /\ UNCHANGED <<host, ip, registry, cur, toAgent, callers, result, executed, server, shown>>

\* _emit_disconnect_if_gone looks, under the lock, whether the host has another.
CheckGone(c) ==
    /\ at[c] = "gone"
    /\ at' = [at EXCEPT ![c] = IF byHost[host[c]] = NoConn THEN "left" ELSE "ended"]
    /\ UNCHANGED <<host, ip, registry, doors, cur, wire, callers, result, executed,
                   server, shown>>

\* It had none: on_disconnect, outside the lock.
EmitDisconnect(c) ==
    /\ Move(c, "left", "ended")
    /\ shown' = [shown EXCEPT ![host[c]] = "disconnected"]
    /\ UNCHANGED <<host, ip, registry, doors, cur, wire, callers, result, executed, server>>

-----------------------------------------------------------------------------
(* The agent *)

\* It reads a frame, carries it out and answers, in the order they come.  When the
\* thread of the connection has closed it, nobody receives the answer.
AgentAnswers(c) ==
    /\ toAgent[c] # <<>>
    /\ LET x == Head(toAgent[c])
       IN  /\ toAgent' = [toAgent EXCEPT ![c] = Tail(@)]
           /\ IF at[c] \in {"gone", "left", "ended"} THEN UNCHANGED fromAgent
              ELSE fromAgent' = [fromAgent EXCEPT ![c] = Append(@, x)]
           /\ executed' = IF x = NoCall THEN executed ELSE [executed EXCEPT ![x] = @ + 1]
    /\ UNCHANGED <<sessions, registry, doors, callers, result, server, shown>>

-----------------------------------------------------------------------------
(* The caller: perform_action or get_logs, then submit *)

\* Look up the session that has this address.
Lookup(k) ==
    /\ callAt[k] = "idle"
    /\ \E i \in IPs :
          IF byIP[i] = NoConn
          THEN /\ callAt' = [callAt EXCEPT ![k] = "done"]
               /\ outcome' = [outcome EXCEPT ![k] = "not_found"]
               /\ UNCHANGED callTo
          ELSE /\ callAt' = [callAt EXCEPT ![k] = "found"]
               /\ callTo' = [callTo EXCEPT ![k] = byIP[i]]
               /\ UNCHANGED outcome
    /\ UNCHANGED <<sessions, registry, doors, wire, result, executed, server, shown>>

Return(k, o) ==
    /\ callAt' = [callAt EXCEPT ![k] = "done"]
    /\ outcome' = [outcome EXCEPT ![k] = o]

\* Is the session still open?
CheckOpen(k) ==
    /\ callAt[k] = "found"
    /\ \/ callTo[k] \in closed /\ Return(k, "closed")
       \/ /\ callTo[k] \notin closed
          /\ callAt' = [callAt EXCEPT ![k] = "put"]
          /\ UNCHANGED outcome
    /\ UNCHANGED <<sessions, registry, doors, wire, callTo, result, executed, server, shown>>

\* It was: queue the request (behind the None of a session closed meanwhile, where
\* nobody will find it).
Put(k) ==
    /\ callAt[k] = "put"
    /\ callAt' = [callAt EXCEPT ![k] = "wait"]
    /\ queue' = [queue EXCEPT ![callTo[k]] = Append(@, k)]
    /\ UNCHANGED <<sessions, registry, closed, wire, callTo, outcome, result, executed,
                   server, shown>>

\* The Future has been resolved.
GotResult(k) ==
    /\ callAt[k] = "wait"
    /\ result[k] # "none"
    /\ Return(k, result[k])
    /\ UNCHANGED <<sessions, registry, doors, wire, callTo, result, executed, server, shown>>

\* Mutant: a caller whose time is up submits its request again.
TimedOutRetries(k) ==
    /\ callAt[k] = "wait"
    /\ result[k] = "none"
    /\ callAt' = [callAt EXCEPT ![k] = "idle"]
    /\ UNCHANGED <<sessions, registry, doors, wire, callTo, outcome, result, executed,
                   server, shown>>

\* It has not, EXCHANGE_TIMEOUT_SEC after the request was queued.  The request
\* stays in the queue.
TimedOut(k) ==
    /\ callAt[k] = "wait"
    /\ result[k] = "none"
    /\ Return(k, "timed_out")
    /\ UNCHANGED <<sessions, registry, doors, wire, callTo, result, executed, server, shown>>

-----------------------------------------------------------------------------
(* Specification *)

Init ==
    /\ at = [c \in Conns |-> "none"]
    /\ host = [c \in Conns |-> Nobody]
    /\ ip = [c \in Conns |-> Nobody]
    /\ byHost = [h \in Hosts |-> NoConn]
    /\ byIP = [i \in IPs |-> NoConn]
    /\ closed = {}
    /\ queue = [c \in Conns |-> <<>>]
    /\ cur = [c \in Conns |-> NoCall]
    /\ toAgent = [c \in Conns |-> <<>>]
    /\ fromAgent = [c \in Conns |-> <<>>]
    /\ callAt = [k \in Calls |-> "idle"]
    /\ callTo = [k \in Calls |-> NoConn]
    /\ result = [k \in Calls |-> "none"]
    /\ outcome = [k \in Calls |-> "none"]
    /\ executed = [k \in Calls |-> 0]
    /\ srv = "accepting"
    /\ running = TRUE
    /\ stopping = FALSE
    /\ leaving = {}
    /\ shown = [h \in Hosts |-> "unknown"]

\* What the thread of an accepted connection does.
SessionStep(c) ==
    \/ IdentifyFails(c) \/ Register(c) \/ EmitStatus(c)
    \/ LoopTest(c) \/ TakeRequest(c) \/ Refresh(c)
    \/ ExchangeDone(c) \/ ExchangeFails(c)
    \/ Unregister(c) \/ End(c) \/ CheckGone(c) \/ EmitDisconnect(c)

CallerStep(k) == Lookup(k) \/ CheckOpen(k) \/ Put(k) \/ GotResult(k) \/ TimedOut(k)

ServerStep == ListenerFails \/ ServeAgain \/ Stop \/ ClearRegistry \/ CloseSession

\* The server has stopped: the one place where nothing need happen any more.
Stopped == srv = "stopped" /\ UNCHANGED vars

Next ==
    \/ \E c \in Conns : \/ Connect(c) \/ HandshakeDone(c) \/ HandshakeFails(c)
                        \/ SessionStep(c) \/ AgentAnswers(c)
    \/ \E k \in Calls : CallerStep(k)
    \/ ServerStep \/ Stopped

Spec == Init /\ [][Next]_vars

\* Threads run, an exchange ends at its deadline at the latest, and so does the
\* wait for a result.  Nothing makes agents connect, shake hands or answer,
\* callers come, or the listener fail.
Fairness ==
    /\ \A c \in Conns : WF_vars(SessionStep(c))
    /\ \A k \in Calls : WF_vars(CheckOpen(k) \/ Put(k) \/ GotResult(k) \/ TimedOut(k))
    /\ WF_vars(ServeAgain)
    /\ WF_vars(ClearRegistry \/ CloseSession)

FairSpec == Spec /\ Fairness

-----------------------------------------------------------------------------
(* Properties *)

\* Every variable has its type, and a caller has an outcome when it has returned.
TypeOK ==
    /\ at \in [Conns -> {"none", "handshake", "identify", "unregister", "close", "gone",
                          "left", "ended"} \cup InLoop]
    /\ host \in [Conns -> Hosts \cup {Nobody}]
    /\ ip \in [Conns -> IPs \cup {Nobody}]
    /\ byHost \in [Hosts -> Conns \cup {NoConn}]
    /\ byIP \in [IPs -> Conns \cup {NoConn}]
    /\ closed \subseteq Conns
    /\ queue \in [Conns -> Seq(Requests)]
    /\ cur \in [Conns -> Requests]
    /\ toAgent \in [Conns -> Seq(Requests)]
    /\ fromAgent \in [Conns -> Seq(Requests)]
    /\ callAt \in [Calls -> {"idle", "found", "put", "wait", "done"}]
    /\ callTo \in [Calls -> Conns \cup {NoConn}]
    /\ result \in [Calls -> Requests \cup {"none", "error"}]
    /\ outcome \in [Calls -> Outcomes]
    /\ \A k \in Calls : outcome[k] # "none" <=> callAt[k] = "done"
    /\ executed \in [Calls -> Nat]
    /\ srv \in {"accepting", "handshake", "failed", "stopped"}
    /\ running \in BOOLEAN /\ stopping \in BOOLEAN /\ leaving \subseteq Conns
    /\ shown \in [Hosts -> {"unknown", "connected", "disconnected"}]

Registered == InLoop \cup {"unregister"}

\* Whatever agents come, go and move, the registry only holds live sessions, each
\* under its own host name, and an address leads to the newest session of the
\* host that it is an address of: an action never goes to a session that ended or
\* was replaced before it was looked up.
RegistryIsLive ==
    /\ \A h \in Hosts : byHost[h] # NoConn =>
          host[byHost[h]] = h /\ at[byHost[h]] \in Registered
    /\ \A i \in IPs : byIP[i] # NoConn =>
          ip[byIP[i]] = i /\ byHost[host[byIP[i]]] = byIP[i]

\* A host has one open session: one that is still served and not closed is the one
\* that is registered for it, or stop() has taken it out of the registry and is about
\* to close it.
OneOpenSessionPerHost ==
    \A c \in Conns :
       at[c] \in InLoop /\ c \notin closed => byHost[host[c]] = c \/ c \in leaving

\* Responses carry no number that is checked, so an answer belongs to a request
\* only because a session ends with the first exchange that fails.  What submit
\* returns is the answer to its own request, which was carried out once.
AnswersArePaired ==
    \A k \in Calls : outcome[k] \in Requests => outcome[k] = k /\ executed[k] = 1

\* Whatever a caller was told, its request is carried out once at most; and one
\* that was refused, because its PC had no session or a closed one, is not carried
\* out at all.  (One that timed out in the queue may be, later.)
CarriedOutAtMostOnce ==
    \A k \in Calls : /\ executed[k] <= 1
                     /\ outcome[k] \in {"not_found", "closed"} => executed[k] = 0

\* Where a host is found: a newer session of another host may have its address.
Where(h) ==
    IF byHost[h] # NoConn /\ byIP[ip[byHost[h]]] = byHost[h] THEN ip[byHost[h]] ELSE Nobody

Asked(k) == IF callTo[k] = NoConn THEN Nobody ELSE host[callTo[k]]

Service == INSTANCE RemoteCalls WITH
    where <- [h \in Hosts |-> Where(h)],
    asked <- [k \in Calls |-> Asked(k)]

\* For the threads of the web server, sessions, queues and frames are an address book
\* and calls: a request is asked of the host that has the address, at the moment
\* it is looked up, is carried out once at most and never after it was refused,
\* and its caller is told one thing, an answer only when it was carried out.
ImplementsRemoteCalls == Service!Spec

\* A host whose session stays registered is shown as connected in the end, even
\* if the disconnect of an older session was recorded after its own status.
DashboardCatchesUp ==
    \A h \in Hosts : <>[](byHost[h] # NoConn) => <>[](shown[h] = "connected")

\* A host that stays away is not shown as connected for good, even if a session
\* it had replaced reports a status late.
AbsenceIsShown ==
    \A h \in Hosts : <>[](byHost[h] = NoConn) => <>[](shown[h] # "connected")

\* A server that is told to stop ends every session, also one that was being
\* identified and registered after the others were closed.
StopEndsSessions ==
    ~running ~> /\ \A h \in Hosts : byHost[h] = NoConn
                /\ \A c \in Conns : at[c] \in {"none", "handshake", "ended"}

\* A request is answered for: its caller gets a result or an error, even when it
\* was put behind the end of a session that was closed meanwhile.
CallersReturn == \A k \in Calls : callAt[k] # "idle" ~> callAt[k] = "done"
=============================================================================
