------------------------ MODULE ReverseSessionsProofs ------------------------
(***************************************************************************)
(* Proofs about ReverseSessions, for any number of connections, hosts,     *)
(* addresses and requests: the registry is consistent, a host has one open *)
(* session, an answer goes to the request it answers, and no request is    *)
(* carried out twice.                                                      *)
(***************************************************************************)
EXTENDS ReverseSessions, TLAPS

-----------------------------------------------------------------------------
(* Types *)

\* A connection that was accepted has a host and an address.
Placed == \A c \in Conns : at[c] # "none" => host[c] \in Hosts /\ ip[c] \in IPs

TypeInv == TypeOK /\ Placed

\* Every variable of the panel's listener has its type at the start.
LEMMA TypeInit == Init => TypeInv
<1> SUFFICES ASSUME Init PROVE TypeInv
  OBVIOUS
<1> USE SessionsAssumption DEF Init, InLoop, Requests, Outcomes
<1>1. /\ toAgent \in [Conns -> Seq(Requests)]
      /\ fromAgent \in [Conns -> Seq(Requests)]
      /\ queue \in [Conns -> Seq(Requests)]
  OBVIOUS
<1>2. TypeOK
  BY <1>1 DEF TypeOK
<1>3. Placed
  BY DEF Placed
<1> QED BY <1>2, <1>3 DEF TypeInv

\* Closing sessions keeps the types of their doors.
LEMMA CloseTypes ==
    ASSUME queue \in [Conns -> Seq(Requests)], closed \subseteq Conns,
           NEW S, S \subseteq Conns, Close(S)
    PROVE  queue' \in [Conns -> Seq(Requests)] /\ closed' \subseteq Conns
<1>1. \A c \in Conns : Append(queue[c], NoCall) \in Seq(Requests)
  BY DEF Requests
<1> QED BY <1>1 DEF Close

\* Sending keeps the type of the wire.
LEMMA SendTypes ==
    ASSUME toAgent \in [Conns -> Seq(Requests)], NEW c \in Conns, NEW x \in Requests,
           Send(c, x)
    PROVE  toAgent' \in [Conns -> Seq(Requests)]
<1>1. Append(toAgent[c], x) \in Seq(Requests)
  OBVIOUS
<1> QED BY <1>1 DEF Send

\* What a connection's thread does keeps the types.
LEMMA SessionTypes ==
    ASSUME TypeInv, NEW c \in Conns, SessionStep(c)
    PROVE  TypeInv'
<1> USE SessionsAssumption DEF TypeInv, Placed, TypeOK, InLoop, Requests, Outcomes, Move,
        sessions, registry, doors, wire, callers, server
<1>1. CASE IdentifyFails(c)
  BY <1>1 DEF IdentifyFails
<1>2. CASE Register(c)
  <2>1. {byHost[host[c]]} \ {NoConn} \subseteq Conns
    BY <1>2 DEF Register
  <2>2. queue' \in [Conns -> Seq(Requests)] /\ closed' \subseteq Conns
    BY <1>2, <2>1, CloseTypes DEF Register
  <2> QED BY <1>2, <2>2 DEF Register
<1>3. CASE EmitStatus(c)
  BY <1>3 DEF EmitStatus
<1>4. CASE LoopTest(c)
  BY <1>4, ZenonT(60) DEF LoopTest
<1>5. CASE TakeRequest(c)
  <2>1. /\ queue' \in [Conns -> Seq(Requests)]
        /\ Head(queue[c]) \in Requests
    BY <1>5 DEF TakeRequest
  <2>2. toAgent' \in [Conns -> Seq(Requests)]
    <3>1. CASE UNCHANGED toAgent
      BY <3>1
    <3>2. CASE Send(c, Head(queue[c]))
      BY <2>1, <3>2, SendTypes
    <3> QED BY <1>5, <3>1, <3>2 DEF TakeRequest
  <2>3. cur' \in [Conns -> Requests]
    BY <1>5, <2>1, ZenonT(60) DEF TakeRequest
  <2> QED BY <1>5, <2>1, <2>2, <2>3, ZenonT(60) DEF TakeRequest
<1>6. CASE Refresh(c)
  <2>1. toAgent' \in [Conns -> Seq(Requests)]
    BY <1>6, SendTypes DEF Refresh
  <2> QED BY <1>6, <2>1 DEF Refresh
<1>7. CASE ExchangeDone(c)
  <2>1. fromAgent' \in [Conns -> Seq(Requests)] /\ Head(fromAgent[c]) \in Requests
    BY <1>7 DEF ExchangeDone
  <2>2. CASE Move(c, "exchange", "loop")
    <3>1. /\ result' = [result EXCEPT ![cur[c]] = Head(fromAgent[c])]
          /\ cur' = [cur EXCEPT ![c] = NoCall]
      BY <1>7, <2>2 DEF ExchangeDone
    <3>2. /\ result' \in [Calls -> Requests \cup {"none", "error"}]
          /\ cur' \in [Conns -> Requests]
      BY <2>1, <3>1
    <3> QED BY <1>7, <2>1, <2>2, <3>2, SMTT(40) DEF ExchangeDone
  <2>3. CASE Move(c, "refresh", "report")
    BY <1>7, <2>1, <2>3 DEF ExchangeDone
  <2> QED BY <1>7, <2>2, <2>3 DEF ExchangeDone
<1>8. CASE ExchangeFails(c)
  BY <1>8, ZenonT(60) DEF ExchangeFails
<1>9. CASE Unregister(c)
  BY <1>9 DEF Unregister
<1>10. CASE End(c)
  <2>1. queue' \in [Conns -> Seq(Requests)] /\ closed' \subseteq Conns
    BY <1>10, CloseTypes DEF End
  <2>2. fromAgent' \in [Conns -> Seq(Requests)]
    BY <1>10 DEF End
  <2> QED BY <1>10, <2>1, <2>2 DEF End
<1>11. CASE CheckGone(c)
  BY <1>11 DEF CheckGone
<1>12. CASE EmitDisconnect(c)
  BY <1>12 DEF EmitDisconnect
<1> QED BY <1>1, <1>2, <1>3, <1>4, <1>5, <1>6, <1>7, <1>8, <1>9, <1>10, <1>11,
           <1>12 DEF SessionStep

\* Where the callers are, and what they were told.
CallersOK ==
    /\ callAt \in [Calls -> {"idle", "found", "put", "wait", "done"}]
    /\ callTo \in [Calls -> Conns \cup {NoConn}]
    /\ outcome \in [Calls -> Outcomes]
    /\ \A k \in Calls : outcome[k] # "none" <=> callAt[k] = "done"

\* A caller that returns, and one that goes on.
LEMMA CallerMoves ==
    ASSUME CallersOK, NEW k \in Calls, callAt[k] # "done", UNCHANGED callTo,
           \/ \E o \in Outcomes \ {"none"} : Return(k, o)
           \/ /\ UNCHANGED outcome
              /\ \E a \in {"found", "put", "wait"} : callAt' = [callAt EXCEPT ![k] = a]
    PROVE  CallersOK'
<1>1. CASE \E o \in Outcomes \ {"none"} : Return(k, o)
  <2>1. PICK o \in Outcomes \ {"none"} : /\ callAt' = [callAt EXCEPT ![k] = "done"]
                                         /\ outcome' = [outcome EXCEPT ![k] = o]
    BY <1>1 DEF Return
  <2>2. \A l \in Calls : /\ callAt'[l] = IF l = k THEN "done" ELSE callAt[l]
                         /\ outcome'[l] = IF l = k THEN o ELSE outcome[l]
    BY <2>1 DEF CallersOK
  <2> QED BY <2>1, <2>2 DEF CallersOK
<1>2. CASE /\ UNCHANGED outcome
           /\ \E a \in {"found", "put", "wait"} : callAt' = [callAt EXCEPT ![k] = a]
  <2>1. PICK a \in {"found", "put", "wait"} : callAt' = [callAt EXCEPT ![k] = a]
    BY <1>2
  <2>2. \A l \in Calls : callAt'[l] = IF l = k THEN a ELSE callAt[l]
    BY <2>1 DEF CallersOK
  <2> QED BY <1>2, <2>1, <2>2 DEF CallersOK
<1> QED BY <1>1, <1>2

\* What a caller of submit does keeps the types.
LEMMA CallerTypes ==
    ASSUME TypeInv, NEW k \in Calls, CallerStep(k)
    PROVE  TypeInv'
<1>0. CallersOK /\ NoConn \notin Conns
  BY SessionsAssumption DEF CallersOK, TypeInv, TypeOK
<1>1. CASE Lookup(k)
  <2>1. PICK i \in IPs :
          IF byIP[i] = NoConn
          THEN /\ callAt' = [callAt EXCEPT ![k] = "done"]
               /\ outcome' = [outcome EXCEPT ![k] = "not_found"]
               /\ UNCHANGED callTo
          ELSE /\ callAt' = [callAt EXCEPT ![k] = "found"]
               /\ callTo' = [callTo EXCEPT ![k] = byIP[i]]
               /\ UNCHANGED outcome
    BY <1>1 DEF Lookup
  <2>2. /\ callAt[k] = "idle"
        /\ UNCHANGED <<sessions, registry, doors, wire, result, executed, server, shown>>
    BY <1>1 DEF Lookup
  <2>3. CASE byIP[i] = NoConn
    <3>1. Return(k, "not_found") /\ UNCHANGED callTo /\ "not_found" \in Outcomes \ {"none"}
      BY <2>1, <2>3 DEF Return, Outcomes
    <3>2. CallersOK'
      BY <1>0, <2>2, <3>1, CallerMoves
    <3> QED BY <2>2, <3>2 DEF TypeInv, TypeOK, Placed, CallersOK, sessions, registry, doors,
                              wire, server
  <2>4. CASE byIP[i] # NoConn
    <3>1. /\ callAt' = [callAt EXCEPT ![k] = "found"] /\ UNCHANGED outcome
          /\ callTo' = [callTo EXCEPT ![k] = byIP[i]]
      BY <2>1, <2>4
    <3>2. byIP[i] \in Conns
      BY <2>4 DEF TypeInv, TypeOK
    <3>3. CallersOK'
      BY <1>0, <2>2, <3>1, <3>2 DEF CallersOK
    <3> QED BY <2>2, <3>3 DEF TypeInv, TypeOK, Placed, CallersOK, sessions, registry, doors,
                              wire, server
  <2> QED BY <2>3, <2>4
<1>2. CASE CheckOpen(k)
  <2>1. /\ callAt[k] = "found" /\ UNCHANGED callTo
        /\ UNCHANGED <<sessions, registry, doors, wire, result, executed, server, shown>>
        /\ \/ Return(k, "closed")
           \/ callAt' = [callAt EXCEPT ![k] = "put"] /\ UNCHANGED outcome
    BY <1>2 DEF CheckOpen
  <2>2. "closed" \in Outcomes \ {"none"}
    BY DEF Outcomes
  <2>3. CallersOK'
    BY <1>0, <2>1, <2>2, CallerMoves
  <2> QED BY <2>1, <2>3 DEF TypeInv, TypeOK, Placed, CallersOK, sessions, registry, doors,
                            wire, server
<1>3. CASE Put(k)
  <2>1. /\ callAt[k] = "put" /\ UNCHANGED <<callTo, outcome>>
        /\ callAt' = [callAt EXCEPT ![k] = "wait"]
        /\ queue' = [queue EXCEPT ![callTo[k]] = Append(@, k)]
        /\ UNCHANGED <<sessions, registry, closed, wire, result, executed, server, shown>>
    BY <1>3 DEF Put
  <2>2. queue' \in [Conns -> Seq(Requests)]
    <3>1. \A c \in Conns : Append(queue[c], k) \in Seq(Requests)
      BY DEF TypeInv, TypeOK, Requests
    <3> QED BY <2>1, <3>1 DEF TypeInv, TypeOK
  <2>3. CallersOK'
    BY <1>0, <2>1, CallerMoves
  <2> QED BY <2>1, <2>2, <2>3 DEF TypeInv, TypeOK, Placed, CallersOK, sessions, registry,
                                  wire, server
<1>4. CASE GotResult(k) \/ TimedOut(k)
  <2>1. /\ callAt[k] = "wait" /\ UNCHANGED callTo
        /\ UNCHANGED <<sessions, registry, doors, wire, result, executed, server, shown>>
        /\ \/ result[k] # "none" /\ Return(k, result[k])
           \/ Return(k, "timed_out")
    BY <1>4 DEF GotResult, TimedOut
  <2>2. /\ "timed_out" \in Outcomes \ {"none"}
        /\ result[k] # "none" => result[k] \in Outcomes \ {"none"}
    BY DEF TypeInv, TypeOK, Outcomes, Requests
  <2>3. CallersOK'
    BY <1>0, <2>1, <2>2, CallerMoves
  <2> QED BY <2>1, <2>3 DEF TypeInv, TypeOK, Placed, CallersOK, sessions, registry, doors,
                            wire, server
<1> QED BY <1>1, <1>2, <1>3, <1>4 DEF CallerStep

\* Every step keeps the types.
LEMMA TypeNext == TypeInv /\ [Next]_vars => TypeInv'
<1> SUFFICES ASSUME TypeInv, [Next]_vars PROVE TypeInv'
  OBVIOUS
<1> USE SessionsAssumption DEF TypeInv, Placed, TypeOK, InLoop, Requests, Outcomes, Move,
        sessions, registry, doors, wire, callers, server
<1>1. ASSUME NEW c \in Conns, Connect(c) PROVE TypeInv'
  <2>1. PICK h \in Hosts, i \in IPs :
          host' = [host EXCEPT ![c] = h] /\ ip' = [ip EXCEPT ![c] = i]
    BY <1>1 DEF Connect
  <2>2. /\ at' \in [Conns -> {"none", "handshake", "identify", "unregister", "close",
                             "gone", "left", "ended"} \cup InLoop]
        /\ \A d \in Conns : d # c => at'[d] = at[d]
        /\ srv' \in {"accepting", "handshake", "failed", "stopped"}
    BY <1>1, ZenonT(60) DEF Connect
  <2>3. /\ UNCHANGED <<byHost, byIP, closed, queue, cur, toAgent, fromAgent>>
        /\ UNCHANGED <<callAt, callTo, result, outcome, executed>>
        /\ UNCHANGED <<running, stopping, leaving, shown>>
    BY <1>1 DEF Connect
  <2>4. host' \in [Conns -> Hosts \cup {Nobody}] /\ ip' \in [Conns -> IPs \cup {Nobody}]
    BY <2>1
  <2>5. \A d \in Conns : at'[d] # "none" => host'[d] \in Hosts /\ ip'[d] \in IPs
    BY <2>1, <2>2
  <2> QED BY <2>2, <2>3, <2>4, <2>5
<1>2. ASSUME NEW c \in Conns, HandshakeDone(c) \/ HandshakeFails(c) PROVE TypeInv'
  <2>1. CASE HandshakeDone(c)
    BY <2>1 DEF HandshakeDone
  <2>2. CASE HandshakeFails(c)
    BY <2>2 DEF HandshakeFails
  <2> QED BY <1>2, <2>1, <2>2
<1>3. CASE \E c \in Conns : SessionStep(c)
  BY <1>3, SessionTypes
<1>4. ASSUME NEW c \in Conns, AgentAnswers(c) PROVE TypeInv'
  <2>1. Head(toAgent[c]) \in Requests
    BY <1>4 DEF AgentAnswers
  <2>2. toAgent' \in [Conns -> Seq(Requests)] /\ executed' \in [Calls -> Nat]
    BY <1>4, <2>1, SMTT(40) DEF AgentAnswers
  <2>3. \/ fromAgent' = fromAgent
        \/ fromAgent' = [fromAgent EXCEPT ![c] = Append(@, Head(toAgent[c]))]
    BY <1>4 DEF AgentAnswers
  <2>4. Append(fromAgent[c], Head(toAgent[c])) \in Seq(Requests)
    BY <2>1
  <2>5. fromAgent' \in [Conns -> Seq(Requests)]
    BY <2>3, <2>4
  <2> QED BY <1>4, <2>2, <2>5 DEF AgentAnswers
<1>5. CASE \E k \in Calls : CallerStep(k)
  BY <1>5, CallerTypes
<1>6. CASE ListenerFails \/ ServeAgain \/ Stop
  <2>1. CASE ListenerFails
    BY <2>1 DEF ListenerFails
  <2>2. CASE ServeAgain
    BY <2>2 DEF ServeAgain
  <2>3. CASE Stop
    BY <2>3 DEF Stop
  <2> QED BY <1>6, <2>1, <2>2, <2>3
<1>7. CASE ClearRegistry \/ CloseSession
  <2>1. CASE ClearRegistry
    <3>1. leaving' \subseteq Conns
      BY <2>1 DEF ClearRegistry
    <3>2. /\ byHost' \in [Hosts -> Conns \cup {NoConn}] /\ byIP' \in [IPs -> Conns \cup {NoConn}]
          /\ stopping' \in BOOLEAN
      BY <2>1 DEF ClearRegistry
    <3>3. UNCHANGED <<sessions, doors, wire, callers, result, executed, srv, running, shown>>
      BY <2>1 DEF ClearRegistry
    <3> QED BY <3>1, <3>2, <3>3
  <2>2. CASE CloseSession
    <3>1. PICK c \in leaving : leaving' = leaving \ {c} /\ Close({c})
      BY <2>2 DEF CloseSession
    <3>2. queue' \in [Conns -> Seq(Requests)] /\ closed' \subseteq Conns
      BY <3>1, CloseTypes
    <3> QED BY <2>2, <3>1, <3>2 DEF CloseSession
  <2> QED BY <1>7, <2>1, <2>2
<1>8. CASE UNCHANGED vars
  BY <1>8 DEF vars
<1> QED
  <2>1. CASE \E c \in Conns : \/ Connect(c) \/ HandshakeDone(c) \/ HandshakeFails(c)
                              \/ SessionStep(c) \/ AgentAnswers(c)
    BY <1>1, <1>2, <1>3, <1>4, <2>1
  <2> QED BY <1>5, <1>6, <1>7, <1>8, <2>1 DEF Next, ServerStep, Stopped

\* Every variable of the panel's listener keeps its type, and a caller of submit
\* has an outcome exactly when it has returned.
THEOREM TypeCorrect == Spec => []TypeOK
<1>1. TypeInv => TypeOK
  BY DEF TypeInv
<1> QED BY <1>1, TypeInit, TypeNext, PTL DEF Spec

-----------------------------------------------------------------------------
(* The registry *)

\* Inductive: what an address leads to is registered (its host need not be one of
\* Hosts otherwise, and byHost says nothing of it).
RegistryInv ==
    /\ RegistryIsLive
    /\ \A i \in IPs : byIP[i] # NoConn => at[byIP[i]] \in Registered

\* A step that leaves the registry alone, and no registered session without its
\* host, its address or its place, keeps the registry consistent.
LEMMA RegistryKept ==
    ASSUME TypeInv, RegistryInv, UNCHANGED registry,
           \A c \in Conns : at[c] \in Registered =>
               at'[c] \in Registered /\ host'[c] = host[c] /\ ip'[c] = ip[c]
    PROVE  RegistryInv'
<1> USE SessionsAssumption DEF TypeInv, TypeOK, registry
<1>1. ASSUME NEW h \in Hosts, byHost'[h] # NoConn
      PROVE  host'[byHost'[h]] = h /\ at'[byHost'[h]] \in Registered
  <2>1. byHost[h] \in Conns /\ host[byHost[h]] = h /\ at[byHost[h]] \in Registered
    BY <1>1 DEF RegistryInv, RegistryIsLive
  <2> QED BY <2>1
<1>2. ASSUME NEW i \in IPs, byIP'[i] # NoConn
      PROVE  /\ ip'[byIP'[i]] = i /\ byHost'[host'[byIP'[i]]] = byIP'[i]
             /\ at'[byIP'[i]] \in Registered
  <2>1. /\ byIP[i] \in Conns /\ ip[byIP[i]] = i /\ byHost[host[byIP[i]]] = byIP[i]
        /\ at[byIP[i]] \in Registered
    BY <1>2 DEF RegistryInv, RegistryIsLive
  <2> QED BY <2>1
<1> QED BY <1>1, <1>2 DEF RegistryInv, RegistryIsLive

\* Of an older session of its host, a session that registers leaves no trace.
LEMMA RegisterKeepsRegistry ==
    ASSUME TypeInv, RegistryInv, NEW c \in Conns, Register(c)
    PROVE  RegistryInv'
<1> USE SessionsAssumption, Register(c) DEF TypeInv, TypeOK, Register, Move
<1>1. /\ host[c] \in Hosts /\ ip[c] \in IPs
      /\ at'[c] = "report" /\ at[c] = "identify"
      /\ \A d \in Conns : d # c => at'[d] = at[d]
  BY DEF Placed
<1>2. ASSUME NEW h \in Hosts, byHost'[h] # NoConn
      PROVE  host'[byHost'[h]] = h /\ at'[byHost'[h]] \in Registered
  <2>1. CASE h = host[c]
    BY <1>1, <2>1 DEF Registered, InLoop
  <2>2. CASE h # host[c]
    <3>1. byHost[h] \in Conns /\ host[byHost[h]] = h /\ at[byHost[h]] \in Registered
      BY <1>2, <2>2 DEF RegistryInv, RegistryIsLive
    <3> QED BY <1>1, <2>2, <3>1 DEF Registered, InLoop
  <2> QED BY <2>1, <2>2
<1>3. ASSUME NEW i \in IPs, byIP'[i] # NoConn
      PROVE  /\ ip'[byIP'[i]] = i /\ byHost'[host'[byIP'[i]]] = byIP'[i]
             /\ at'[byIP'[i]] \in Registered
  <2>1. CASE i = ip[c]
    BY <1>1, <2>1 DEF Registered, InLoop
  <2>2. CASE i # ip[c]
    <3>1. byIP'[i] = byIP[i] /\ host[byIP[i]] # host[c]
      BY <1>3, <2>2
    <3>2. /\ byIP[i] \in Conns /\ ip[byIP[i]] = i /\ byHost[host[byIP[i]]] = byIP[i]
          /\ at[byIP[i]] \in Registered
      BY <1>3, <3>1 DEF RegistryInv, RegistryIsLive
    <3> QED BY <1>1, <3>1, <3>2 DEF Registered, InLoop
  <2> QED BY <2>1, <2>2
<1> QED BY <1>2, <1>3 DEF RegistryInv, RegistryIsLive

\* A session that ends takes itself out of the registry, and nobody else.
LEMMA UnregisterKeepsRegistry ==
    ASSUME TypeInv, RegistryInv, NEW c \in Conns, Unregister(c)
    PROVE  RegistryInv'
<1> USE SessionsAssumption, Unregister(c) DEF TypeInv, TypeOK, Unregister, Move
<1>1. \A d \in Conns : d # c => at'[d] = at[d]
  OBVIOUS
<1>2. ASSUME NEW h \in Hosts, byHost'[h] # NoConn
      PROVE  host'[byHost'[h]] = h /\ at'[byHost'[h]] \in Registered
  <2>1. byHost'[h] = byHost[h] /\ byHost[h] # c
    BY <1>2
  <2> QED BY <1>1, <1>2, <2>1 DEF RegistryInv, RegistryIsLive
<1>3. ASSUME NEW i \in IPs, byIP'[i] # NoConn
      PROVE  /\ ip'[byIP'[i]] = i /\ byHost'[host'[byIP'[i]]] = byIP'[i]
             /\ at'[byIP'[i]] \in Registered
  <2>1. byIP'[i] = byIP[i] /\ byIP[i] # c
    BY <1>3
  <2>2. /\ byIP[i] \in Conns /\ ip[byIP[i]] = i /\ byHost[host[byIP[i]]] = byIP[i]
        /\ at[byIP[i]] \in Registered
    BY <1>3, <2>1 DEF RegistryInv, RegistryIsLive
  <2>3. host[byIP[i]] \in Hosts
    BY <2>2 DEF Placed, Registered, InLoop
  <2> QED BY <1>1, <2>1, <2>2, <2>3
<1> QED BY <1>2, <1>3 DEF RegistryInv, RegistryIsLive

\* Every step keeps the registry consistent.
LEMMA RegistryNext == TypeInv /\ RegistryInv /\ [Next]_vars => RegistryInv'
<1> SUFFICES ASSUME TypeInv, RegistryInv, [Next]_vars PROVE RegistryInv'
  OBVIOUS
<1> USE DEF TypeInv, TypeOK, Registered, InLoop, sessions, Move, registry
<1>1. ASSUME NEW c \in Conns, Connect(c) \/ HandshakeDone(c) \/ HandshakeFails(c)
      PROVE  RegistryInv'
  BY <1>1, RegistryKept, SMTT(40) DEF Connect, HandshakeDone, HandshakeFails
<1>2. ASSUME NEW c \in Conns, SessionStep(c) PROVE RegistryInv'
  <2>1. CASE Register(c)
    BY <2>1, RegisterKeepsRegistry
  <2>2. CASE Unregister(c)
    BY <2>2, UnregisterKeepsRegistry
  <2>3. CASE IdentifyFails(c) \/ EmitStatus(c) \/ LoopTest(c) \/ TakeRequest(c)
    BY <2>3, RegistryKept DEF IdentifyFails, EmitStatus, LoopTest, TakeRequest
  <2>4. CASE Refresh(c) \/ ExchangeDone(c) \/ ExchangeFails(c)
    BY <2>4, RegistryKept DEF Refresh, ExchangeDone, ExchangeFails
  <2>5. CASE End(c) \/ CheckGone(c) \/ EmitDisconnect(c)
    BY <2>5, RegistryKept DEF End, CheckGone, EmitDisconnect
  <2> QED BY <1>2, <2>1, <2>2, <2>3, <2>4, <2>5 DEF SessionStep
<1>3. ASSUME NEW c \in Conns, AgentAnswers(c) PROVE RegistryInv'
  BY <1>3, RegistryKept DEF AgentAnswers
<1>4. ASSUME NEW k \in Calls, CallerStep(k) PROVE RegistryInv'
  BY <1>4, RegistryKept
     DEF CallerStep, Lookup, CheckOpen, Put, GotResult, TimedOut, Return
<1>5. CASE ListenerFails \/ ServeAgain \/ Stop
  BY <1>5, RegistryKept DEF ListenerFails, ServeAgain, Stop
<1>6. CASE ClearRegistry
  BY <1>6 DEF ClearRegistry, RegistryInv, RegistryIsLive
<1>8. CASE CloseSession
  BY <1>8, RegistryKept DEF CloseSession
<1>7. CASE UNCHANGED vars
  BY <1>7, RegistryKept DEF vars
<1> QED BY <1>1, <1>2, <1>3, <1>4, <1>5, <1>6, <1>7, <1>8
        DEF Next, ServerStep, Stopped

\* Whatever agents come, go and move: the registry holds live sessions under their
\* own host names, and an address leads to the newest session of its host.
THEOREM RegistryAlwaysLive == Spec => []RegistryIsLive
<1>1. Init => RegistryInv
  BY DEF Init, RegistryInv, RegistryIsLive
<1>2. RegistryInv => RegistryIsLive
  BY DEF RegistryInv
<1> QED BY <1>1, <1>2, TypeInit, TypeNext, RegistryNext, PTL DEF Spec

-----------------------------------------------------------------------------
(* One open session of each host *)

\* Inductive: stop() runs once, and has nothing to close before it has emptied the
\* registry.
StopInv ==
    /\ running => ~stopping
    /\ running \/ stopping => leaving = {}

\* Every step keeps the order of stop().
LEMMA StopNext == StopInv /\ [Next]_vars => StopInv'
<1> SUFFICES ASSUME StopInv, [Next]_vars PROVE StopInv'
  OBVIOUS
<1>1. CASE UNCHANGED <<running, stopping, leaving>>
  BY <1>1 DEF StopInv
<1>2. ASSUME NEW c \in Conns, Connect(c) \/ HandshakeDone(c) \/ HandshakeFails(c)
      PROVE  UNCHANGED <<running, stopping, leaving>>
  BY <1>2 DEF Connect, HandshakeDone, HandshakeFails
<1>3. ASSUME NEW c \in Conns, SessionStep(c) PROVE UNCHANGED server
  <2>1. CASE IdentifyFails(c) \/ Register(c) \/ EmitStatus(c) \/ LoopTest(c)
    BY <2>1 DEF IdentifyFails, Register, EmitStatus, LoopTest
  <2>2. CASE TakeRequest(c) \/ Refresh(c) \/ ExchangeDone(c) \/ ExchangeFails(c)
    BY <2>2 DEF TakeRequest, Refresh, ExchangeDone, ExchangeFails
  <2>3. CASE Unregister(c) \/ End(c) \/ CheckGone(c) \/ EmitDisconnect(c)
    BY <2>3 DEF Unregister, End, CheckGone, EmitDisconnect
  <2> QED BY <1>3, <2>1, <2>2, <2>3 DEF SessionStep
<1>4. ASSUME NEW c \in Conns, AgentAnswers(c) PROVE UNCHANGED server
  BY <1>4 DEF AgentAnswers
<1>5. ASSUME NEW k \in Calls, CallerStep(k) PROVE UNCHANGED server
  BY <1>5 DEF CallerStep, Lookup, CheckOpen, Put, GotResult, TimedOut
<1>6. CASE ListenerFails \/ ServeAgain
  BY <1>1, <1>6 DEF ListenerFails, ServeAgain
<1>7. CASE Stop \/ ClearRegistry \/ CloseSession
  <2>1. CASE Stop
    BY <2>1 DEF Stop, StopInv
  <2>2. CASE ClearRegistry
    BY <2>2 DEF ClearRegistry, StopInv
  <2>3. CASE CloseSession
    BY <2>3 DEF CloseSession, StopInv
  <2> QED BY <1>7, <2>1, <2>2, <2>3
<1>8. CASE UNCHANGED vars
  BY <1>1, <1>8 DEF vars, server
<1> QED BY <1>1, <1>2, <1>3, <1>4, <1>5, <1>6, <1>7, <1>8
        DEF Next, ServerStep, Stopped, server

\* A step that leaves the registry alone, opens no session and moves none into the
\* loop keeps it so.
LEMMA OneOpenKept ==
    ASSUME OneOpenSessionPerHost, UNCHANGED <<byHost, leaving>>, closed \subseteq closed',
           \A c \in Conns : at'[c] \in InLoop => at[c] \in InLoop /\ host'[c] = host[c]
    PROVE  OneOpenSessionPerHost'
BY DEF OneOpenSessionPerHost

\* Every step keeps it so: the session that registers closes the one that was
\* registered, the loop is left before the registry is, and what stop() takes out of
\* the registry it closes.
LEMMA OneOpenNext ==
    TypeInv /\ StopInv /\ OneOpenSessionPerHost /\ [Next]_vars => OneOpenSessionPerHost'
<1> SUFFICES ASSUME TypeInv, StopInv, OneOpenSessionPerHost, [Next]_vars
             PROVE  OneOpenSessionPerHost'
  OBVIOUS
<1> USE SessionsAssumption
    DEF TypeInv, TypeOK, InLoop, sessions, doors, Move, registry, server
<1>1. ASSUME NEW b \in Conns, Connect(b) \/ HandshakeDone(b) \/ HandshakeFails(b)
      PROVE  OneOpenSessionPerHost'
  BY <1>1, OneOpenKept DEF Connect, HandshakeDone, HandshakeFails
<1>2. ASSUME NEW b \in Conns, Register(b), NEW c \in Conns,
             at'[c] \in InLoop, c \notin closed'
      PROVE  byHost'[host'[c]] = c \/ c \in leaving'
  <2>1. host[b] \in Hosts /\ UNCHANGED host
    BY <1>2 DEF Register, Placed
  <2>2. CASE c = b
    BY <1>2, <2>1, <2>2 DEF Register
  <2>3. CASE c # b
    <3>1. at[c] \in InLoop /\ c \notin closed /\ c # byHost[host[b]]
      BY <1>2, <2>1, <2>3 DEF Register, Close
    <3>2. byHost[host[c]] = c \/ c \in leaving
      BY <3>1 DEF OneOpenSessionPerHost
    <3>3. UNCHANGED leaving
      BY <1>2 DEF Register
    <3>4. CASE byHost[host[c]] = c
      BY <1>2, <2>1, <3>1, <3>4 DEF Register
    <3> QED BY <3>2, <3>3, <3>4
  <2> QED BY <2>2, <2>3
<1>3. ASSUME NEW b \in Conns, Unregister(b), NEW c \in Conns,
             at'[c] \in InLoop, c \notin closed'
      PROVE  byHost'[host'[c]] = c \/ c \in leaving'
  <2>1. c # b /\ at[c] \in InLoop /\ c \notin closed
    BY <1>3 DEF Unregister
  <2>2. byHost[host[c]] = c \/ c \in leaving
    BY <2>1 DEF OneOpenSessionPerHost
  <2>3. host[c] \in Hosts
    BY <2>1 DEF Placed
  <2>4. UNCHANGED <<host, leaving>>
    BY <1>3 DEF Unregister
  <2>5. CASE byHost[host[c]] = c
    BY <1>3, <2>1, <2>3, <2>5 DEF Unregister
  <2> QED BY <2>2, <2>4, <2>5
<1>4. ASSUME NEW b \in Conns, SessionStep(b) PROVE OneOpenSessionPerHost'
  <2>1. CASE Register(b) \/ Unregister(b)
    BY <1>2, <1>3, <2>1 DEF OneOpenSessionPerHost
  <2>2. CASE IdentifyFails(b) \/ EmitStatus(b) \/ LoopTest(b) \/ TakeRequest(b)
    BY <2>2, OneOpenKept DEF IdentifyFails, EmitStatus, LoopTest, TakeRequest
  <2>3. CASE Refresh(b) \/ ExchangeDone(b) \/ ExchangeFails(b)
    BY <2>3, OneOpenKept DEF Refresh, ExchangeDone, ExchangeFails
  <2>4. CASE End(b) \/ CheckGone(b) \/ EmitDisconnect(b)
    BY <2>4, OneOpenKept DEF End, Close, CheckGone, EmitDisconnect
  <2> QED BY <1>4, <2>1, <2>2, <2>3, <2>4 DEF SessionStep
<1>5. ASSUME NEW b \in Conns, AgentAnswers(b) PROVE OneOpenSessionPerHost'
  BY <1>5, OneOpenKept DEF AgentAnswers
<1>6. ASSUME NEW k \in Calls, CallerStep(k) PROVE OneOpenSessionPerHost'
  BY <1>6, OneOpenKept
     DEF CallerStep, Lookup, CheckOpen, Put, GotResult, TimedOut, Return
<1>7. CASE ListenerFails \/ ServeAgain \/ Stop \/ UNCHANGED vars
  BY <1>7, OneOpenKept DEF ListenerFails, ServeAgain, Stop, vars
<1>8. CASE ClearRegistry
  <2> SUFFICES ASSUME NEW c \in Conns, at'[c] \in InLoop, c \notin closed'
               PROVE  c \in leaving'
    BY DEF OneOpenSessionPerHost
  <2>1. at[c] \in InLoop /\ c \notin closed
    BY <1>8 DEF ClearRegistry
  <2>2. host[c] \in Hosts
    BY <2>1 DEF Placed
  <2>3. c \notin leaving
    BY <1>8 DEF ClearRegistry, StopInv
  <2>4. byHost[host[c]] = c
    BY <2>1, <2>3 DEF OneOpenSessionPerHost
  <2> QED BY <1>8, <2>2, <2>4 DEF ClearRegistry
<1>9. CASE CloseSession
  <2> SUFFICES ASSUME NEW c \in Conns, at'[c] \in InLoop, c \notin closed'
               PROVE  byHost'[host'[c]] = c \/ c \in leaving'
    BY DEF OneOpenSessionPerHost
  <2>1. PICK d \in leaving : leaving' = leaving \ {d} /\ closed' = closed \cup {d}
    BY <1>9 DEF CloseSession, Close
  <2>2. UNCHANGED <<at, host, byHost>>
    BY <1>9 DEF CloseSession
  <2> QED BY <2>1, <2>2 DEF OneOpenSessionPerHost
<1> QED BY <1>1, <1>4, <1>5, <1>6, <1>7, <1>8, <1>9 DEF Next, ServerStep, Stopped

\* Of the sessions of a host that are served and open, all but the one that is registered
\* are in the hands of stop(), which is about to close them.
THEOREM OneSessionStaysOpen == Spec => []OneOpenSessionPerHost
<1>1. Init => StopInv /\ OneOpenSessionPerHost
  BY DEF Init, StopInv, OneOpenSessionPerHost, InLoop
<1> QED BY <1>1, TypeInit, TypeNext, StopNext, OneOpenNext, PTL DEF Spec

-----------------------------------------------------------------------------
(* Sequences of requests *)

In(s, k) == \E i \in 1 .. Len(s) : s[i] = k
Once(s, k) == \A i, j \in 1 .. Len(s) : s[i] = k /\ s[j] = k => i = j

\* What is in a queue with one more request.
LEMMA Appended ==
    ASSUME NEW s \in Seq(Requests), NEW x \in Requests, NEW k \in Requests
    PROVE  /\ In(Append(s, x), k) <=> In(s, k) \/ x = k
           /\ Once(s, k) /\ (x = k => ~In(s, k)) => Once(Append(s, x), k)
<1>1. /\ Len(Append(s, x)) = Len(s) + 1 /\ Len(s) \in Nat
      /\ \A i \in 1 .. Len(s) : Append(s, x)[i] = s[i]
      /\ Append(s, x)[Len(s) + 1] = x
  OBVIOUS
<1>2. \A i \in 1 .. Len(s) + 1 : i \in 1 .. Len(s) \/ i = Len(s) + 1
  BY <1>1
<1>3. In(Append(s, x), k) <=> In(s, k) \/ x = k
  BY <1>1, <1>2 DEF In
<1>4. ASSUME Once(s, k), x = k => ~In(s, k) PROVE Once(Append(s, x), k)
  BY <1>1, <1>2, <1>4 DEF In, Once
<1> QED BY <1>3, <1>4

\* What is in a queue whose oldest request was taken.
LEMMA Taken ==
    ASSUME NEW s \in Seq(Requests), s # <<>>, NEW k \in Requests, Once(s, k)
    PROVE  /\ In(Tail(s), k) <=> In(s, k) /\ Head(s) # k
           /\ Once(Tail(s), k)
<1>1. /\ Len(s) \in Nat \ {0} /\ Len(Tail(s)) = Len(s) - 1 /\ Head(s) = s[1]
      /\ \A i \in 1 .. Len(s) - 1 : Tail(s)[i] = s[i + 1]
  OBVIOUS
<1>2. \A i \in 1 .. Len(s) - 1 : i + 1 \in 1 .. Len(s) /\ i + 1 # 1
  BY <1>1
<1>3. \A i \in 1 .. Len(s) : i = 1 \/ (i - 1 \in 1 .. Len(s) - 1 /\ (i - 1) + 1 = i)
  BY <1>1
<1>4. 1 \in 1 .. Len(s)
  BY <1>1
<1>5. In(Tail(s), k) => In(s, k) /\ Head(s) # k
  BY <1>1, <1>2, <1>4 DEF In, Once
<1>6. In(s, k) /\ Head(s) # k => In(Tail(s), k)
  BY <1>1, <1>3 DEF In
<1>7. Once(Tail(s), k)
  <2> SUFFICES ASSUME NEW i \in 1 .. Len(s) - 1, NEW j \in 1 .. Len(s) - 1,
                      Tail(s)[i] = k, Tail(s)[j] = k
               PROVE  i = j
    BY <1>1 DEF Once
  <2>1. s[i + 1] = k /\ s[j + 1] = k
    BY <1>1
  <2>2. i + 1 = j + 1
    BY <1>2, <2>1 DEF Once
  <2> QED BY <1>1, <2>2
<1> QED BY <1>5, <1>6, <1>7

\* The oldest request of a queue is in it.
LEMMA HeadIsIn == ASSUME NEW s \in Seq(Requests), s # <<>> PROVE In(s, Head(s))
<1>1. Len(s) \in Nat \ {0} /\ Head(s) = s[1]
  OBVIOUS
<1> QED BY <1>1 DEF In

\* A sequence of one element.
LEMMA Single == \A x : <<x>> # <<>> /\ Tail(<<x>>) = <<>> /\ \A y : <<x>> = <<y>> => x = y
OBVIOUS

-----------------------------------------------------------------------------
(* Frames *)

\* At most x is on its way to or from the agent.
OneFrame(c, x) ==
    \/ toAgent[c] = <<>> /\ fromAgent[c] = <<>>
    \/ toAgent[c] = <<x>> /\ fromAgent[c] = <<>>
    \/ toAgent[c] = <<>> /\ fromAgent[c] = <<x>>

\* Where no frame is under way.
Quiet == {"none", "handshake", "identify", "report", "loop", "get"}

\* Inductive: at most one frame is under way, that of the exchange the session is
\* in; a session that is not in one, and has not ended, has none.
WireAt(c) ==
    /\ \E x \in Requests : OneFrame(c, x)
    /\ at[c] \in Quiet => toAgent[c] = <<>> /\ fromAgent[c] = <<>>
    /\ at[c] = "exchange" => OneFrame(c, cur[c])
    /\ at[c] = "refresh" => OneFrame(c, NoCall)

WireInv == \A c \in Conns : WireAt(c)

\* What a session does not touch stays as it was.
LEMMA WireKept ==
    ASSUME NEW c \in Conns, WireAt(c),
           toAgent'[c] = toAgent[c], fromAgent'[c] = fromAgent[c],
           \/ at'[c] = at[c] /\ cur'[c] = cur[c]
           \/ at'[c] \notin Quiet \cup {"exchange", "refresh"}
           \/ at[c] \in Quiet /\ at'[c] \notin {"exchange", "refresh"}
    PROVE  WireAt(c)'
BY DEF WireAt, OneFrame, Requests

\* A frame that is sent is the only one.
LEMMA WireSent ==
    ASSUME TypeInv, NEW c \in Conns, WireAt(c), at[c] \in Quiet, NEW x \in Requests,
           Send(c, x), fromAgent' = fromAgent,
           \/ at'[c] = "exchange" /\ cur'[c] = x
           \/ at'[c] = "refresh" /\ x = NoCall
    PROVE  WireAt(c)'
<1>1. toAgent[c] = <<>> /\ fromAgent[c] = <<>>
  BY DEF WireAt
<1>2. toAgent'[c] \in {<<>>, <<x>>}
  BY <1>1 DEF Send, TypeInv, TypeOK
<1>3. OneFrame(c, x)'
  BY <1>1, <1>2 DEF OneFrame
<1> QED BY <1>3 DEF WireAt, Quiet

\* Every step leaves at most one frame under way.
LEMMA WireNext == TypeInv /\ WireInv /\ [Next]_vars => WireInv'
<1> SUFFICES ASSUME TypeInv, WireInv, [Next]_vars, NEW e \in Conns PROVE WireAt(e)'
  BY DEF WireInv
<1>0. WireAt(e)
  BY DEF WireInv
<1> USE DEF TypeInv, TypeOK, InLoop, Quiet, sessions, wire, Move
<1>1. ASSUME NEW c \in Conns, Connect(c) \/ HandshakeDone(c) \/ HandshakeFails(c)
      PROVE  WireAt(e)'
  BY <1>0, <1>1, WireKept, ZenonT(60) DEF Connect, HandshakeDone, HandshakeFails
<1>2. ASSUME NEW c \in Conns, SessionStep(c), e # c PROVE WireAt(e)'
  <2>1. CASE IdentifyFails(c) \/ Register(c) \/ EmitStatus(c) \/ LoopTest(c)
    BY <1>0, <1>2, <2>1, WireKept DEF IdentifyFails, Register, EmitStatus, LoopTest
  <2>2. CASE TakeRequest(c) \/ Refresh(c)
    BY <1>0, <1>2, <2>2, WireKept DEF TakeRequest, Refresh, Send
  <2>3. CASE ExchangeFails(c) \/ ExchangeDone(c)
    BY <1>0, <1>2, <2>3, WireKept DEF ExchangeFails, ExchangeDone
  <2>4. CASE Unregister(c) \/ End(c) \/ CheckGone(c) \/ EmitDisconnect(c)
    BY <1>0, <1>2, <2>4, WireKept DEF Unregister, End, CheckGone, EmitDisconnect
  <2> QED BY <1>2, <2>1, <2>2, <2>3, <2>4 DEF SessionStep
<1>3. CASE SessionStep(e)
  <2>1. CASE IdentifyFails(e) \/ Register(e) \/ EmitStatus(e) \/ LoopTest(e)
    BY <1>0, <2>1, WireKept DEF IdentifyFails, Register, EmitStatus, LoopTest
  <2>2. CASE ExchangeFails(e) \/ Unregister(e) \/ CheckGone(e) \/ EmitDisconnect(e)
    BY <1>0, <2>2, WireKept, ZenonT(60) DEF ExchangeFails, Unregister, CheckGone, EmitDisconnect
  <2>3. CASE TakeRequest(e)
    <3>1. CASE Head(queue[e]) = NoCall
      BY <1>0, <2>3, <3>1, WireKept DEF TakeRequest
    <3>2. CASE Head(queue[e]) # NoCall
      <4>1. Head(queue[e]) \in Requests
        BY <2>3 DEF TakeRequest
      <4> QED BY <1>0, <2>3, <3>2, <4>1, WireSent DEF TakeRequest
    <3> QED BY <3>1, <3>2
  <2>4. CASE Refresh(e)
    BY <1>0, <2>4, WireSent DEF Refresh, Requests
  <2>5. CASE ExchangeDone(e)
    <3>1. toAgent[e] = <<>> /\ Tail(fromAgent[e]) = <<>>
      <4>1. PICK x : toAgent[e] = <<>> /\ fromAgent[e] = <<x>>
        BY <1>0, <2>5 DEF ExchangeDone, WireAt, OneFrame
      <4> QED BY <4>1
    <3>2. toAgent'[e] = <<>> /\ fromAgent'[e] = <<>> /\ at'[e] \in {"loop", "report"}
      BY <2>5, <3>1 DEF ExchangeDone
    <3> QED BY <3>2 DEF WireAt, OneFrame, Requests
  <2>6. CASE End(e)
    <3>1. at'[e] = "gone" /\ toAgent'[e] = toAgent[e] /\ fromAgent'[e] = <<>>
      BY <2>6 DEF End
    <3>2. PICK x \in Requests : OneFrame(e, x)
      BY <1>0 DEF WireAt
    <3>3. OneFrame(e, x)'
      BY <3>1, <3>2 DEF OneFrame
    <3> QED BY <3>1, <3>3 DEF WireAt
  <2> QED BY <1>3, <2>1, <2>2, <2>3, <2>4, <2>5, <2>6 DEF SessionStep
<1>4. ASSUME NEW c \in Conns, AgentAnswers(c) PROVE WireAt(e)'
  <2>1. CASE e # c
    BY <1>0, <1>4, <2>1, WireKept DEF AgentAnswers
  <2>2. CASE e = c
    <3>1. PICK x \in Requests : OneFrame(c, x)
      BY <1>0, <2>2 DEF WireAt
    <3>2. toAgent[c] = <<x>> /\ fromAgent[c] = <<>>
      BY <1>4, <3>1 DEF AgentAnswers, OneFrame
    <3>3. /\ toAgent'[c] = <<>> /\ fromAgent'[c] \in {<<>>, <<x>>}
          /\ at'[c] = at[c] /\ cur'[c] = cur[c]
      <4>1. Head(toAgent[c]) = x /\ Tail(toAgent[c]) = <<>> /\ Append(fromAgent[c], x) = <<x>>
        BY <3>2
      <4>2. toAgent'[c] = Tail(toAgent[c]) /\ at' = at /\ cur' = cur
        BY <1>4 DEF AgentAnswers
      <4>3. fromAgent'[c] \in {fromAgent[c], Append(fromAgent[c], Head(toAgent[c]))}
        BY <1>4 DEF AgentAnswers
      <4> QED BY <3>2, <4>1, <4>2, <4>3
    <3>4. at[c] \notin Quiet
      BY <1>0, <2>2, <3>2, Single DEF WireAt
    <3>5. (at[c] = "exchange" => x = cur[c]) /\ (at[c] = "refresh" => x = NoCall)
      BY <1>0, <2>2, <3>2, Single DEF WireAt, OneFrame
    <3>6. OneFrame(c, x)'
      BY <3>3 DEF OneFrame
    <3> QED BY <2>2, <3>3, <3>4, <3>5, <3>6 DEF WireAt
  <2> QED BY <2>1, <2>2
<1>5. CASE UNCHANGED <<at, cur, wire>>
  BY <1>0, <1>5, WireKept
<1>6. ASSUME NEW k \in Calls, CallerStep(k) PROVE WireAt(e)'
  BY <1>5, <1>6 DEF CallerStep, Lookup, CheckOpen, Put, GotResult, TimedOut, Return
<1>7. CASE ServerStep \/ UNCHANGED vars
  BY <1>5, <1>7
     DEF ServerStep, ListenerFails, ServeAgain, Stop, ClearRegistry, CloseSession, vars
<1> QED BY <1>1, <1>2, <1>3, <1>4, <1>6, <1>7 DEF Next, Stopped

-----------------------------------------------------------------------------
(* Answers and requests *)

\* The caller has put its request into a queue.
Submitted(k) == callAt[k] \in {"wait", "done"} /\ outcome[k] \notin {"not_found", "closed"}

\* Inductive: a request is in one place only, of the session it was submitted to.
\* It has not been carried out before the agent reads it, and has been when its
\* answer is under way or delivered.
HeldAt(c, k) ==
    /\ Once(queue[c], k)
    /\ In(queue[c], k) \/ cur[c] = k \/ toAgent[c] = <<k>> \/ fromAgent[c] = <<k>> =>
          callTo[k] = c /\ Submitted(k)
    /\ In(queue[c], k) => /\ cur[c] # k /\ toAgent[c] # <<k>> /\ fromAgent[c] # <<k>>
                          /\ executed[k] = 0
    /\ toAgent[c] = <<k>> => executed[k] = 0
    /\ fromAgent[c] = <<k>> => executed[k] = 1

DoneAt(k) ==
    /\ executed[k] \in {0, 1}
    /\ ~Submitted(k) => executed[k] = 0
    /\ result[k] \in Requests => result[k] = k /\ executed[k] = 1
    /\ outcome[k] \in Requests => outcome[k] = k /\ executed[k] = 1

CallInv == \A k \in Calls : DoneAt(k) /\ \A c \in Conns : HeldAt(c, k)

\* Only the steps of an exchange and of the callers concern the requests: closing
\* sessions does not, nor giving a request up, losing an answer or telling the caller
\* of an error.
LEMMA CallsKept ==
    ASSUME CallInv, UNCHANGED <<toAgent, callers, executed>>,
           \A c \in Conns : fromAgent'[c] \in {fromAgent[c], <<>>},
           \A c \in Conns : cur'[c] \in {cur[c], NoCall},
           \A k \in Calls : result'[k] \in {result[k], "error"},
           \A c \in Conns, k \in Calls :
              /\ In(queue'[c], k) => In(queue[c], k)
              /\ Once(queue[c], k) => Once(queue'[c], k)
    PROVE  CallInv'
<1> USE DEF callers
<1>1. "error" \notin Requests
  BY AnswersAssumption DEF Requests
<1>2. ASSUME NEW k \in Calls PROVE DoneAt(k)'
  BY <1>1 DEF CallInv, DoneAt, Submitted
<1>3. ASSUME NEW k \in Calls, NEW d \in Conns PROVE HeldAt(d, k)'
  <2>1. HeldAt(d, k)
    BY DEF CallInv
  <2>2. Submitted(k)' <=> Submitted(k)
    BY DEF Submitted
  <2>3. cur'[d] = k => cur[d] = k
    BY SessionsAssumption
  <2>4. fromAgent'[d] = <<k>> => fromAgent[d] = <<k>>
    BY Single
  <2> QED BY <2>1, <2>2, <2>3, <2>4 DEF HeldAt
<1> QED BY <1>2, <1>3 DEF CallInv

\* Closing a session puts no request into its queue and takes none out.
LEMMA CloseQueues ==
    ASSUME TypeInv, NEW S, Close(S), NEW c \in Conns, NEW k \in Calls
    PROVE  /\ In(queue'[c], k) => In(queue[c], k)
           /\ Once(queue[c], k) => Once(queue'[c], k)
<1>1. k # NoCall /\ NoCall \in Requests /\ k \in Requests /\ queue[c] \in Seq(Requests)
  BY SessionsAssumption DEF Requests, TypeInv, TypeOK
<1>2. queue'[c] = queue[c] \/ queue'[c] = Append(queue[c], NoCall)
  BY DEF Close
<1>3. /\ In(Append(queue[c], NoCall), k) <=> In(queue[c], k)
      /\ Once(queue[c], k) => Once(Append(queue[c], NoCall), k)
  BY <1>1, Appended
<1> QED BY <1>2, <1>3

\* A session that sends keeps each request in one place.
LEMMA SentCalls ==
    ASSUME TypeInv, CallInv, NEW c \in Conns, NEW x \in Requests, Send(c, x),
           toAgent[c] = <<>>, fromAgent' = fromAgent, UNCHANGED <<callers, result, executed>>,
           \A d \in Conns : d # c => cur'[d] = cur[d] /\ queue'[d] = queue[d],
           \/ cur'[c] = cur[c] /\ queue'[c] = queue[c] /\ x = NoCall
           \/ /\ cur'[c] = x /\ queue[c] # <<>> /\ x = Head(queue[c])
              /\ queue'[c] = Tail(queue[c])
              /\ fromAgent[c] = <<>>
    PROVE  CallInv'
<1> SUFFICES ASSUME NEW k \in Calls, NEW d \in Conns PROVE DoneAt(k)' /\ HeldAt(d, k)'
  BY DEF CallInv
<1>0. /\ DoneAt(k) /\ HeldAt(d, k) /\ k \in Requests /\ k # NoCall
      /\ queue[c] \in Seq(Requests)
  BY SessionsAssumption DEF CallInv, Requests, TypeInv, TypeOK
<1>1. (Submitted(k)' <=> Submitted(k)) /\ UNCHANGED <<callTo, outcome, result, executed>>
  BY DEF Submitted, callers
<1>2. DoneAt(k)'
  BY <1>0, <1>1 DEF DoneAt
<1>3. toAgent'[c] \in {<<>>, <<x>>} /\ \A b \in Conns : b # c => toAgent'[b] = toAgent[b]
  BY DEF Send, TypeInv, TypeOK
<1>4. CASE d # c
  BY <1>0, <1>1, <1>2, <1>3, <1>4 DEF HeldAt
<1>5. CASE d = c /\ cur'[c] = cur[c] /\ queue'[c] = queue[c] /\ x = NoCall
  <2>1. toAgent'[c] # <<k>>
    BY <1>0, <1>3, <1>5, Single
  <2> QED BY <1>0, <1>1, <1>2, <1>5, <2>1 DEF HeldAt
<1>6. CASE /\ d = c /\ cur'[c] = x /\ queue[c] # <<>> /\ x = Head(queue[c])
           /\ queue'[c] = Tail(queue[c])
           /\ fromAgent[c] = <<>>
  <2>1. Once(queue[c], k)
    BY <1>0, <1>6 DEF HeldAt
  <2>2. /\ In(queue'[c], k) <=> In(queue[c], k) /\ x # k
        /\ Once(queue'[c], k)
    BY <1>0, <1>6, <2>1, Taken
  <2>3. x = k => In(queue[c], k)
    BY <1>0, <1>6, HeadIsIn
  <2>4. toAgent'[c] = <<k>> => x = k
    BY <1>3, Single
  <2>5. fromAgent'[c] # <<k>>
    BY <1>6, Single
  <2> QED BY <1>0, <1>1, <1>2, <1>6, <2>2, <2>3, <2>4, <2>5 DEF HeldAt
<1> QED BY <1>4, <1>5, <1>6

\* Every step of a session keeps each request in one place.
LEMMA SessionCalls ==
    ASSUME TypeInv, WireInv, CallInv, NEW c \in Conns, SessionStep(c)
    PROVE  CallInv'
<1> USE SessionsAssumption DEF TypeInv, TypeOK, Quiet, sessions, doors, wire, callers, Move
<1>1. CASE IdentifyFails(c) \/ EmitStatus(c) \/ LoopTest(c) \/ Unregister(c)
  BY <1>1, CallsKept DEF IdentifyFails, EmitStatus, LoopTest, Unregister
<1>2. CASE CheckGone(c) \/ EmitDisconnect(c)
  BY <1>2, CallsKept DEF CheckGone, EmitDisconnect
<1>8. CASE ExchangeFails(c)
  <2>1. /\ \A d \in Conns : cur'[d] \in {cur[d], NoCall}
        /\ \A k \in Calls : result'[k] \in {result[k], "error"}
    BY <1>8 DEF ExchangeFails
  <2> QED BY <1>8, <2>1, CallsKept DEF ExchangeFails
<1>3. CASE Register(c)
  <2>1. Close({byHost[host[c]]} \ {NoConn})
    BY <1>3 DEF Register
  <2>2. \A d \in Conns, k \in Calls : /\ In(queue'[d], k) => In(queue[d], k)
                                      /\ Once(queue[d], k) => Once(queue'[d], k)
    BY <2>1, CloseQueues
  <2> QED BY <1>3, <2>2, CallsKept DEF Register
<1>4. CASE End(c)
  BY <1>4, CallsKept, CloseQueues DEF End
<1>5. CASE TakeRequest(c)
  <2>1. /\ queue[c] \in Seq(Requests) /\ queue[c] # <<>> /\ Head(queue[c]) \in Requests
        /\ queue'[c] = Tail(queue[c])
        /\ \A d \in Conns : d # c => queue'[d] = queue[d]
    BY <1>5 DEF TakeRequest
  <2>2. CASE Head(queue[c]) = NoCall
    <3>1. UNCHANGED <<cur, toAgent, fromAgent, callers, result, executed>>
      BY <1>5, <2>2 DEF TakeRequest
    <3>2. ASSUME NEW k \in Calls
          PROVE  /\ In(queue'[c], k) => In(queue[c], k)
                 /\ Once(queue[c], k) => Once(queue'[c], k)
      <4>1. Once(queue[c], k) /\ k \in Requests
        BY DEF CallInv, HeldAt, Requests
      <4>2. (In(Tail(queue[c]), k) => In(queue[c], k)) /\ Once(Tail(queue[c]), k)
        BY <2>1, <4>1, Taken
      <4> QED BY <2>1, <4>2
    <3> QED BY <2>1, <3>1, <3>2, CallsKept
  <2>3. CASE Head(queue[c]) # NoCall
    <3>1. toAgent[c] = <<>> /\ fromAgent[c] = <<>>
      BY <1>5 DEF TakeRequest, WireInv, WireAt
    <3>2. /\ Send(c, Head(queue[c])) /\ cur' = [cur EXCEPT ![c] = Head(queue[c])]
          /\ UNCHANGED <<fromAgent, callers, result, executed>>
      BY <1>5, <2>3 DEF TakeRequest
    <3> QED BY <2>1, <3>1, <3>2, SentCalls, ZenonT(60)
  <2> QED BY <2>2, <2>3
<1>6. CASE Refresh(c)
  <2>1. toAgent[c] = <<>>
    BY <1>6 DEF Refresh, WireInv, WireAt
  <2> QED BY <1>6, <2>1, SentCalls DEF Refresh, Requests
<1>7. CASE ExchangeDone(c)
  <2> SUFFICES ASSUME NEW k \in Calls, NEW d \in Conns PROVE DoneAt(k)' /\ HeldAt(d, k)'
    BY DEF CallInv
  <2>0. DoneAt(k) /\ HeldAt(d, k) /\ HeldAt(c, k)
    BY DEF CallInv
  <2>1. PICK x : fromAgent[c] = <<x>> /\ toAgent[c] = <<>> /\ (at[c] = "exchange" => x = cur[c])
    BY <1>7 DEF ExchangeDone, WireInv, WireAt, OneFrame
  <2>2. Head(fromAgent[c]) = x /\ Tail(fromAgent[c]) = <<>>
    BY <2>1
  <2>3. fromAgent'[c] = <<>> /\ \A b \in Conns : b # c => fromAgent'[b] = fromAgent[b]
    BY <1>7, <2>2, SMTT(40) DEF ExchangeDone
  <2>4. UNCHANGED <<queue, toAgent, callers, executed>> /\ (Submitted(k)' <=> Submitted(k))
    BY <1>7 DEF ExchangeDone, Submitted
  <2>5. cur'[d] \in {cur[d], NoCall}
    BY <1>7 DEF ExchangeDone
  <2>6. result'[k] = result[k] \/ (at[c] = "exchange" /\ k = cur[c] /\ result'[k] = x)
    BY <1>7, <2>2 DEF ExchangeDone
  <2>7. DoneAt(k)'
    BY <2>0, <2>1, <2>4, <2>6 DEF DoneAt, HeldAt
  <2>8. cur'[d] = k => cur[d] = k
    BY <2>5, SessionsAssumption
  <2>9. fromAgent'[d] = <<k>> => fromAgent[d] = <<k>>
    BY <2>3, Single
  <2>10. HeldAt(d, k)'
    BY <2>0, <2>4, <2>8, <2>9 DEF HeldAt
  <2> QED BY <2>7, <2>10
<1> QED BY <1>1, <1>2, <1>3, <1>4, <1>5, <1>6, <1>7, <1>8 DEF SessionStep

\* A request that the agent carries out is with its session alone.
LEMMA AgentCalls ==
    ASSUME TypeInv, WireInv, CallInv, NEW c \in Conns, AgentAnswers(c)
    PROVE  CallInv'
<1> USE SessionsAssumption DEF TypeInv, TypeOK, sessions, doors, callers
<1> SUFFICES ASSUME NEW k \in Calls, NEW d \in Conns PROVE DoneAt(k)' /\ HeldAt(d, k)'
  BY DEF CallInv
<1>0. DoneAt(k) /\ HeldAt(d, k) /\ HeldAt(c, k)
  BY DEF CallInv
<1>1. PICK x \in Requests : toAgent[c] = <<x>> /\ fromAgent[c] = <<>>
  BY DEF AgentAnswers, WireInv, WireAt, OneFrame
<1>2. toAgent'[c] = <<>> /\ fromAgent'[c] \in {<<>>, <<x>>}
  <2>1. Head(toAgent[c]) = x /\ Tail(toAgent[c]) = <<>> /\ Append(fromAgent[c], x) = <<x>>
    BY <1>1
  <2>2. toAgent'[c] = Tail(toAgent[c])
    BY DEF AgentAnswers
  <2>3. fromAgent'[c] \in {fromAgent[c], Append(fromAgent[c], Head(toAgent[c]))}
    BY DEF AgentAnswers
  <2> QED BY <1>1, <2>1, <2>2, <2>3
<1>3. /\ \A b \in Conns : b # c => toAgent'[b] = toAgent[b] /\ fromAgent'[b] = fromAgent[b]
      /\ UNCHANGED <<queue, cur, callers, result>>
      /\ Submitted(k)' <=> Submitted(k)
  BY DEF AgentAnswers, Submitted
<1>4. executed'[k] = IF k = x THEN executed[k] + 1 ELSE executed[k]
  BY <1>1 DEF AgentAnswers, Requests
<1>5. k = x => callTo[k] = c /\ Submitted(k) /\ executed[k] = 0 /\ ~In(queue[c], k)
  BY <1>0, <1>1 DEF HeldAt
<1>6. DoneAt(k)'
  BY <1>0, <1>3, <1>4, <1>5 DEF DoneAt
<1>7. HeldAt(d, k)'
  <2>1. CASE d = c
    <3>1. toAgent'[c] # <<k>> /\ (fromAgent'[c] = <<k>> => x = k)
      BY <1>2, Single
    <3>2. CASE k = x
      BY <1>0, <1>3, <1>4, <1>5, <2>1, <3>1, <3>2 DEF HeldAt
    <3>3. CASE k # x
      BY <1>0, <1>3, <1>4, <2>1, <3>1, <3>3 DEF HeldAt
    <3> QED BY <3>2, <3>3
  <2>2. CASE d # c
    BY <1>0, <1>3, <1>4, <1>5, <2>2 DEF HeldAt
  <2> QED BY <2>1, <2>2
<1> QED BY <1>6, <1>7

\* What submit returns is an answer only if the request's own Future had one.
LEMMA CallerCalls ==
    ASSUME TypeInv, CallInv, NEW k \in Calls, CallerStep(k)
    PROVE  CallInv'
<1> USE SessionsAssumption DEF TypeInv, TypeOK, sessions, doors, wire
<1>0. {"none", "error", "not_found", "closed", "timed_out"} \cap Requests = {}
  BY AnswersAssumption DEF Requests
<1>1. \A c \in Conns : callAt[k] \in {"idle", "found", "put"} => ~In(queue[c], k)
  BY DEF CallInv, HeldAt, Submitted
<1>2. UNCHANGED <<cur, toAgent, fromAgent, result, executed>>
  BY DEF CallerStep, Lookup, CheckOpen, Put, GotResult, TimedOut
<1>3. \A l \in Calls : l # k => /\ callAt'[l] = callAt[l] /\ callTo'[l] = callTo[l]
                                /\ outcome'[l] = outcome[l]
  BY DEF CallerStep, Lookup, CheckOpen, Put, GotResult, TimedOut, Return
<1>4. CASE Put(k)
  <2>1. callAt[k] = "put" /\ outcome[k] = "none" /\ Submitted(k)' /\ ~Submitted(k)
    BY <1>4 DEF Put, Submitted
  <2>2. UNCHANGED <<callTo, outcome>>
    BY <1>4 DEF Put
  <2>3. ASSUME NEW l \in Calls PROVE DoneAt(l)'
    <3>1. DoneAt(l) /\ DoneAt(k)
      BY DEF CallInv
    <3> QED BY <1>2, <1>3, <2>1, <2>2, <3>1 DEF DoneAt, Submitted
  <2>4. ASSUME NEW l \in Calls, NEW d \in Conns PROVE HeldAt(d, l)'
    <3>0. HeldAt(d, l) /\ l \in Requests /\ k \in Requests /\ queue[d] \in Seq(Requests)
      BY DEF CallInv, Requests
    <3>1. Submitted(l) => Submitted(l)'
      BY <1>3, <2>1 DEF Submitted
    <3>2. \/ queue'[d] = queue[d]
          \/ d = callTo[k] /\ queue'[d] = Append(queue[d], k)
      BY <1>4 DEF Put
    <3>3. CASE queue'[d] = queue[d]
      BY <1>2, <2>2, <3>0, <3>1, <3>3 DEF HeldAt
    <3>4. CASE d = callTo[k] /\ queue'[d] = Append(queue[d], k) /\ l # k
      <4>1. /\ In(queue'[d], l) <=> In(queue[d], l)
            /\ Once(queue[d], l) => Once(queue'[d], l)
        BY <3>0, <3>4, Appended
      <4> QED BY <1>2, <2>2, <3>0, <3>1, <4>1 DEF HeldAt
    <3>5. CASE d = callTo[k] /\ queue'[d] = Append(queue[d], k) /\ l = k
      <4>1. Once(queue'[d], k)
        BY <1>1, <2>1, <3>0, <3>5, Appended DEF HeldAt
      <4>2. cur[d] # k /\ toAgent[d] # <<k>> /\ fromAgent[d] # <<k>>
        BY <2>1, <3>0, <3>5 DEF HeldAt
      <4>3. executed[k] = 0
        BY <2>1 DEF CallInv, DoneAt
      <4> QED BY <1>2, <2>1, <2>2, <3>5, <4>1, <4>2, <4>3 DEF HeldAt
    <3> QED BY <3>2, <3>3, <3>4, <3>5
  <2> QED BY <2>3, <2>4 DEF CallInv
<1>5. CASE Lookup(k) \/ CheckOpen(k)
  <2>1. /\ UNCHANGED queue
        /\ callAt[k] \in {"idle", "found"} /\ outcome[k] = "none"
        /\ \/ callAt'[k] \in {"found", "put"} /\ outcome'[k] = "none"
           \/ callAt'[k] = "done" /\ outcome'[k] \in {"not_found", "closed"}
    BY <1>5 DEF Lookup, CheckOpen, Return
  <2>2. ~Submitted(k) /\ ~Submitted(k)'
    BY <2>1 DEF Submitted
  <2>3. ASSUME NEW l \in Calls PROVE DoneAt(l)'
    <3>1. DoneAt(l)
      BY DEF CallInv
    <3> QED BY <1>0, <1>2, <1>3, <2>1, <2>2, <3>1 DEF DoneAt, Submitted
  <2>4. ASSUME NEW l \in Calls, NEW d \in Conns PROVE HeldAt(d, l)'
    <3>1. HeldAt(d, l)
      BY DEF CallInv
    <3>2. CASE l = k
      BY <1>2, <2>1, <2>2, <3>1, <3>2 DEF HeldAt
    <3>3. CASE l # k
      BY <1>2, <1>3, <2>1, <3>1, <3>3 DEF HeldAt, Submitted
    <3> QED BY <3>2, <3>3
  <2> QED BY <2>3, <2>4 DEF CallInv
<1>6. CASE GotResult(k) \/ TimedOut(k)
  <2>1. /\ UNCHANGED <<queue, callTo>>
        /\ callAt[k] = "wait" /\ outcome[k] = "none"
        /\ callAt'[k] = "done" /\ outcome'[k] \in {result[k], "timed_out"}
    BY <1>6 DEF GotResult, TimedOut, Return
  <2>2. Submitted(k) /\ Submitted(k)'
    BY <1>0, <2>1 DEF Submitted
  <2>3. ASSUME NEW l \in Calls PROVE DoneAt(l)'
    <3>1. DoneAt(l)
      BY DEF CallInv
    <3> QED BY <1>0, <1>2, <1>3, <2>1, <2>2, <3>1 DEF DoneAt, Submitted
  <2>4. ASSUME NEW l \in Calls, NEW d \in Conns PROVE HeldAt(d, l)'
    <3>1. HeldAt(d, l)
      BY DEF CallInv
    <3>2. Submitted(l) => Submitted(l)'
      BY <1>3, <2>2 DEF Submitted
    <3> QED BY <1>2, <2>1, <3>1, <3>2 DEF HeldAt
  <2> QED BY <2>3, <2>4 DEF CallInv
<1> QED BY <1>4, <1>5, <1>6 DEF CallerStep

\* Every step keeps each request in one place.
LEMMA CallNext == TypeInv /\ WireInv /\ CallInv /\ [Next]_vars => CallInv'
<1> SUFFICES ASSUME TypeInv, WireInv, CallInv, [Next]_vars PROVE CallInv'
  OBVIOUS
<1> USE DEF sessions, doors, wire, Move, TypeInv, TypeOK
<1>1. ASSUME NEW c \in Conns, Connect(c) \/ HandshakeDone(c) \/ HandshakeFails(c)
      PROVE  CallInv'
  BY <1>1, CallsKept DEF Connect, HandshakeDone, HandshakeFails
<1>2. CASE ListenerFails \/ ServeAgain \/ Stop \/ ClearRegistry \/ UNCHANGED vars
  BY <1>2, CallsKept DEF ListenerFails, ServeAgain, Stop, ClearRegistry, vars
<1>3. CASE CloseSession
  BY <1>3, CallsKept, CloseQueues DEF CloseSession
<1> QED BY <1>1, <1>2, <1>3, SessionCalls, AgentCalls, CallerCalls
        DEF Next, ServerStep, Stopped

\* At the start no frame is under way and no request with a session.
LEMMA InitAnswers == Init => WireInv /\ CallInv
<1> SUFFICES ASSUME Init PROVE WireInv /\ CallInv
  OBVIOUS
<1>1. WireInv
  BY DEF Init, WireInv, WireAt, OneFrame, Requests
<1>2. "none" \notin Requests
  BY AnswersAssumption DEF Requests
<1>3. Len(<<>>) = 0 /\ 1 .. 0 = {}
  OBVIOUS
<1>4. CallInv
  BY <1>2, <1>3, Single, SessionsAssumption
     DEF Init, CallInv, DoneAt, HeldAt, Submitted, In, Once
<1> QED BY <1>1, <1>4

\* What submit returns to a caller is the answer to its own request, which was
\* carried out exactly once.
THEOREM AnswersAlwaysPaired == Spec => []AnswersArePaired
<1>1. CallInv => AnswersArePaired
  BY DEF CallInv, DoneAt, AnswersArePaired
<1> QED BY <1>1, InitAnswers, TypeInit, TypeNext, WireNext, CallNext, PTL DEF Spec

\* No request is carried out twice, and none that submit refused is carried out,
\* for any number of sessions and callers.
THEOREM NeverCarriedOutTwice == Spec => []CarriedOutAtMostOnce
<1>1. CallInv => CarriedOutAtMostOnce
  BY DEF CallInv, DoneAt, Submitted, CarriedOutAtMostOnce
<1> QED BY <1>1, InitAnswers, TypeInit, TypeNext, WireNext, CallNext, PTL DEF Spec

-----------------------------------------------------------------------------
(* The address book and the requests of RemoteCalls *)

\* A request knows its session from the time it was looked up, and that one stays what
\* it was.
RouteAt(k) ==
    /\ callAt[k] = "idle" => callTo[k] = NoConn
    /\ callAt[k] \in {"found", "put", "wait"} => callTo[k] # NoConn
    /\ callTo[k] # NoConn => at[callTo[k]] # "none"

RouteInv == \A k \in Calls : RouteAt(k)

\* A thread that has started never leaves a connection as if it had not.
LEMMA RouteKept ==
    ASSUME RouteInv, UNCHANGED <<callAt, callTo>>,
           \A c \in Conns : at[c] # "none" => at'[c] # "none",
           callTo \in [Calls -> Conns \cup {NoConn}]
    PROVE  RouteInv'
BY DEF RouteInv, RouteAt

\* Every step keeps the requests on their way.
LEMMA RouteNext == TypeInv /\ RegistryInv /\ RouteInv /\ [Next]_vars => RouteInv'
<1> SUFFICES ASSUME TypeInv, RegistryInv, RouteInv, [Next]_vars PROVE RouteInv'
  OBVIOUS
<1> USE DEF TypeInv, TypeOK, sessions, callers, Move
<1>1. ASSUME NEW c \in Conns, Connect(c) \/ HandshakeDone(c) \/ HandshakeFails(c)
      PROVE  RouteInv'
  BY <1>1, RouteKept, SMTT(40) DEF Connect, HandshakeDone, HandshakeFails
<1>2. ASSUME NEW c \in Conns, SessionStep(c) PROVE RouteInv'
  <2>1. CASE IdentifyFails(c) \/ Register(c) \/ EmitStatus(c)
    BY <2>1, RouteKept, SMTT(40) DEF IdentifyFails, Register, EmitStatus
  <2>2. CASE LoopTest(c) \/ TakeRequest(c) \/ Refresh(c)
    BY <2>2, RouteKept, SMTT(40) DEF LoopTest, TakeRequest, Refresh
  <2>3. CASE ExchangeDone(c) \/ ExchangeFails(c)
    BY <2>3, RouteKept, SMTT(40) DEF ExchangeDone, ExchangeFails
  <2>4. CASE Unregister(c) \/ End(c) \/ CheckGone(c) \/ EmitDisconnect(c)
    BY <2>4, RouteKept, SMTT(40) DEF Unregister, End, CheckGone, EmitDisconnect
  <2> QED BY <1>2, <2>1, <2>2, <2>3, <2>4 DEF SessionStep
<1>3. ASSUME NEW c \in Conns, AgentAnswers(c) PROVE RouteInv'
  BY <1>3, RouteKept DEF AgentAnswers
<1>4. ASSUME NEW k \in Calls, CallerStep(k) PROVE RouteInv'
  <2>1. UNCHANGED at
    BY <1>4 DEF CallerStep, Lookup, CheckOpen, Put, GotResult, TimedOut
  <2>2. ASSUME NEW l \in Calls, l # k PROVE RouteAt(l)'
    <3>1. callAt'[l] = callAt[l] /\ callTo'[l] = callTo[l]
      BY <1>4, <2>2 DEF CallerStep, Lookup, CheckOpen, Put, GotResult, TimedOut, Return
    <3> QED BY <2>1, <3>1 DEF RouteInv, RouteAt
  <2>3. RouteAt(k)
    BY DEF RouteInv
  <2>4. ASSUME Lookup(k) PROVE RouteAt(k)'
    <3>1. ASSUME NEW i \in IPs, byIP[i] # NoConn PROVE at[byIP[i]] # "none"
      BY <3>1 DEF RegistryInv, Registered, InLoop
    <3>2. PICK i \in IPs :
             \/ callAt'[k] = "done" /\ UNCHANGED callTo
             \/ byIP[i] # NoConn /\ callAt'[k] = "found" /\ callTo'[k] = byIP[i]
      BY <2>4 DEF Lookup
    <3> QED BY <2>1, <2>3, <3>1, <3>2 DEF RouteAt
  <2>5. ASSUME ~Lookup(k) PROVE RouteAt(k)'
    <3>1. callTo'[k] = callTo[k] /\ callAt[k] \in {"found", "put", "wait"}
          /\ callAt'[k] # "idle"
      BY <1>4, <2>5 DEF CallerStep, CheckOpen, Put, GotResult, TimedOut, Return
    <3> QED BY <2>1, <2>3, <3>1 DEF RouteAt
  <2>6. RouteAt(k)'
    BY <2>4, <2>5
  <2> QED BY <2>2, <2>6 DEF RouteInv
<1>5. CASE ServerStep
  BY <1>5, RouteKept
     DEF ServerStep, ListenerFails, ServeAgain, Stop, ClearRegistry, CloseSession
<1>6. CASE UNCHANGED vars
  BY <1>6, RouteKept DEF vars
<1> QED BY <1>1, <1>2, <1>3, <1>4, <1>5, <1>6 DEF Next, Stopped

\* The variables of RemoteCalls.
Book == [h \in Hosts |-> Where(h)]
Route == [k \in Calls |-> Asked(k)]

\* Where a host is found depends on the registry only.
LEMMA BookKept ==
    ASSUME TypeInv, RegistryInv, UNCHANGED registry,
           \A c \in Conns : at[c] \in Registered => ip'[c] = ip[c]
    PROVE  UNCHANGED Book
<1>1. ASSUME NEW h \in Hosts PROVE Where(h)' = Where(h)
  <2>1. UNCHANGED <<byHost, byIP>>
    BY DEF registry
  <2>2. CASE byHost[h] = NoConn
    BY <2>1, <2>2 DEF Where
  <2>3. CASE byHost[h] # NoConn
    <3>1. byHost[h] \in Conns /\ at[byHost[h]] \in Registered
      BY <2>3 DEF TypeInv, TypeOK, RegistryInv, RegistryIsLive
    <3> QED BY <2>1, <3>1 DEF Where
  <2> QED BY <2>2, <2>3
<1> QED BY <1>1 DEF Book

\* Whom a request was asked of remains.
LEMMA RouteStays ==
    ASSUME TypeInv, RouteInv, UNCHANGED callTo,
           \A c \in Conns : at[c] # "none" => host'[c] = host[c]
    PROVE  UNCHANGED Route
<1>1. ASSUME NEW k \in Calls PROVE Asked(k)' = Asked(k)
  <2>1. callTo[k] \in Conns \cup {NoConn} /\ RouteAt(k)
    BY DEF TypeInv, TypeOK, RouteInv
  <2> QED BY <2>1 DEF Asked, RouteAt
<1> QED BY <1>1 DEF Route

\* The steps of a connection that neither the web server nor a request notices.
LEMMA ServiceKept ==
    ASSUME TypeInv, RegistryInv, RouteInv, UNCHANGED <<registry, callTo, executed, outcome>>,
           \A c \in Conns : at[c] # "none" => host'[c] = host[c] /\ ip'[c] = ip[c]
    PROVE  UNCHANGED <<Book, Route, executed, outcome>>
<1>1. \A c \in Conns : at[c] \in Registered => at[c] # "none"
  BY DEF Registered, InLoop
<1> QED BY <1>1, BookKept, RouteStays

\* An address leads to the host that is found there.
LEMMA FoundThere ==
    ASSUME TypeInv, RegistryInv, NEW i \in IPs, byIP[i] # NoConn
    PROVE  /\ byIP[i] \in Conns /\ host[byIP[i]] \in Hosts
           /\ Where(host[byIP[i]]) = i
<1>1. /\ byIP[i] \in Conns /\ ip[byIP[i]] = i /\ byHost[host[byIP[i]]] = byIP[i]
      /\ at[byIP[i]] \in Registered
  BY DEF TypeInv, TypeOK, RegistryInv, RegistryIsLive
<1>2. host[byIP[i]] \in Hosts
  BY <1>1 DEF TypeInv, Placed, Registered, InLoop
<1> QED BY <1>1, <1>2 DEF Where

\* Of a host that is found somewhere there is a session, which its address leads to.
LEMMA NobodyThere ==
    ASSUME TypeInv, RegistryInv, NEW h \in Hosts, Where(h) # Nobody
    PROVE  /\ byHost[h] \in Conns /\ host[byHost[h]] = h
           /\ at[byHost[h]] \in Registered
           /\ Where(h) = ip[byHost[h]] /\ Where(h) \in IPs
           /\ byIP[Where(h)] = byHost[h]
<1>1. byHost[h] # NoConn /\ Where(h) = ip[byHost[h]] /\ byIP[Where(h)] = byHost[h]
  BY DEF Where
<1>2. byHost[h] \in Conns /\ host[byHost[h]] = h /\ at[byHost[h]] \in Registered
  BY <1>1 DEF TypeInv, TypeOK, RegistryInv, RegistryIsLive
<1>3. ip[byHost[h]] \in IPs
  BY <1>2 DEF TypeInv, Placed, Registered, InLoop
<1> QED BY <1>1, <1>2, <1>3

\* A session that registers: its host comes to its address.
LEMMA RegisterComes ==
    ASSUME TypeInv, RegistryInv, RouteInv, NEW c \in Conns, Register(c)
    PROVE  Service!BookNext /\ UNCHANGED <<Route, executed, outcome>>
<1> DEFINE h == host[c]
           i == ip[c]
<1>1. /\ at[c] = "identify" /\ h \in Hosts /\ i \in IPs
      /\ UNCHANGED <<host, ip, callTo, executed, outcome>>
      /\ byHost' = [byHost EXCEPT ![h] = c]
      /\ byIP' = [j \in IPs |->
                    IF j = i THEN c
                    ELSE IF byIP[j] # NoConn /\ host[byIP[j]] = h THEN NoConn
                    ELSE byIP[j]]
  BY DEF Register, Move, TypeInv, Placed, callers
<1>2. c # NoConn /\ i # Nobody /\ byHost \in [Hosts -> Conns \cup {NoConn}]
  BY <1>1, SessionsAssumption DEF TypeInv, TypeOK
<1>3. ASSUME NEW g \in Hosts, g = h PROVE Where(g)' = i
  BY <1>1, <1>2, <1>3 DEF Where
<1>4. ASSUME NEW g \in Hosts, g # h
      PROVE  Where(g)' = IF Where(g) = i THEN Nobody ELSE Where(g)
  <2>1. byHost'[g] = byHost[g]
    BY <1>1, <1>4
  <2>2. CASE byHost[g] = NoConn
    BY <1>2, <2>1, <2>2 DEF Where
  <2>3. CASE byHost[g] # NoConn
    <3> DEFINE d == byHost[g]
    <3>1. d \in Conns /\ host[d] = g /\ at[d] \in Registered
      BY <2>3 DEF TypeInv, TypeOK, RegistryInv, RegistryIsLive
    <3>2. d # c /\ ip[d] \in IPs /\ ip[d] # Nobody
      BY <1>1, <3>1, SessionsAssumption DEF TypeInv, Placed, Registered, InLoop
    <3>3. CASE ip[d] = i
      BY <1>1, <1>2, <2>1, <3>2, <3>3 DEF Where
    <3>4. CASE ip[d] # i
      <4>1. byIP'[ip[d]] = d <=> byIP[ip[d]] = d
        BY <1>1, <1>4, <2>3, <3>1, <3>2, <3>4
      <4> QED BY <1>1, <1>2, <2>1, <2>3, <3>4, <4>1 DEF Where
    <3> QED BY <3>3, <3>4
  <2> QED BY <2>2, <2>3
<1>5. Book' = [g \in Hosts |-> IF g = h THEN i ELSE IF Book[g] = i THEN Nobody ELSE Book[g]]
  <2>1. \A g \in Hosts : Book[g] = Where(g) /\ Book'[g] = Where(g)'
    BY DEF Book
  <2>2. \A g \in Hosts :
           Book'[g] = IF g = h THEN i ELSE IF Book[g] = i THEN Nobody ELSE Book[g]
    <3> SUFFICES ASSUME NEW g \in Hosts
                 PROVE  Book'[g] = IF g = h THEN i ELSE IF Book[g] = i THEN Nobody ELSE Book[g]
      OBVIOUS
    <3>1. Book[g] = Where(g) /\ Book'[g] = Where(g)'
      BY <2>1
    <3> HIDE DEF h, i
    <3>2. CASE g = h
      BY <1>3, <3>1, <3>2
    <3>3. CASE g # h
      BY <1>4, <3>1, <3>3
    <3> QED BY <3>2, <3>3
  <2>3. Book' = [g \in Hosts |-> Book'[g]]
    BY DEF Book
  <2> QED BY <2>2, <2>3
<1>6. UNCHANGED Route
  BY <1>1, RouteStays
<1>7. Service!Arrive(h, i)
  BY <1>5 DEF Service!Arrive, Book
<1> QED BY <1>1, <1>6, <1>7 DEF Service!BookNext

\* One that ends: its host goes, unless a newer session has replaced it.
LEMMA UnregisterGoes ==
    ASSUME TypeInv, RegistryInv, RouteInv, NEW c \in Conns, Unregister(c)
    PROVE  /\ Service!BookNext \/ UNCHANGED Book
           /\ UNCHANGED <<Route, executed, outcome>>
<1> DEFINE h == host[c]
<1>1. /\ at[c] = "unregister" /\ h \in Hosts
      /\ UNCHANGED <<host, ip, callTo, executed, outcome>>
      /\ byHost' = [g \in Hosts |-> IF byHost[g] = c THEN NoConn ELSE byHost[g]]
      /\ byIP' = [i \in IPs |-> IF byIP[i] = c THEN NoConn ELSE byIP[i]]
  BY DEF Unregister, Move, TypeInv, Placed, callers
<1>2. UNCHANGED Route
  BY <1>1, RouteStays
<1>3. ASSUME NEW g \in Hosts, byHost[g] # c PROVE Where(g)' = Where(g)
  <2>1. byHost'[g] = byHost[g]
    BY <1>1, <1>3
  <2>2. CASE byHost[g] = NoConn
    BY <2>1, <2>2 DEF Where
  <2>3. CASE byHost[g] # NoConn
    <3>1. byHost[g] \in Conns /\ at[byHost[g]] \in Registered
      BY <2>3 DEF TypeInv, TypeOK, RegistryInv, RegistryIsLive
    <3>2. ip[byHost[g]] \in IPs
      BY <3>1 DEF TypeInv, Placed, Registered, InLoop
    <3>3. byIP'[ip[byHost[g]]] = byHost[g] <=> byIP[ip[byHost[g]]] = byHost[g]
      BY <1>1, <1>3, <2>3, <3>2
    <3> QED BY <1>1, <2>1, <3>3 DEF Where
  <2> QED BY <2>2, <2>3
<1>4. ASSUME NEW g \in Hosts, byHost[g] = c PROVE g = h /\ Where(g)' = Nobody
  <2>1. g = h
    BY <1>4, SessionsAssumption DEF RegistryInv, RegistryIsLive
  <2>2. byHost'[g] = NoConn
    BY <1>1, <1>4
  <2> QED BY <2>1, <2>2 DEF Where
<1>5. CASE byHost[h] # c
  <2>1. \A g \in Hosts : Where(g)' = Where(g)
    BY <1>3, <1>4, <1>5
  <2>2. UNCHANGED Book
    BY <2>1 DEF Book
  <2> QED BY <1>1, <1>2, <2>2
<1>6. CASE byHost[h] = c
  <2>1. Book' = [Book EXCEPT ![h] = Nobody]
    BY <1>1, <1>3, <1>4, <1>6 DEF Book
  <2>2. Service!Depart(h)
    BY <2>1 DEF Service!Depart, Book
  <2> QED BY <1>1, <1>2, <2>2 DEF Service!BookNext
<1> QED BY <1>5, <1>6

\* stop() empties the registry: all hosts go.
LEMMA ClearingEmptiesTheBook ==
    ASSUME TypeInv, RouteInv, ClearRegistry
    PROVE  Service!BookNext /\ UNCHANGED <<Route, executed, outcome>>
<1>1. /\ UNCHANGED <<host, ip, callTo, executed, outcome>>
      /\ byHost' = [h \in Hosts |-> NoConn]
  BY DEF ClearRegistry, sessions, callers
<1>2. UNCHANGED Route
  BY <1>1, RouteStays
<1>3. Book' = [h \in Hosts |-> Nobody]
  BY <1>1 DEF Book, Where
<1>4. Service!AllDepart
  BY <1>3 DEF Service!AllDepart, Book
<1> QED BY <1>1, <1>2, <1>4 DEF Service!BookNext

\* A request that an agent carries out is one that was asked of it, and has been neither
\* carried out nor refused.
LEMMA AnswerCarriesOut ==
    ASSUME TypeInv, RegistryInv, RouteInv, WireInv, CallInv,
           NEW c \in Conns, AgentAnswers(c)
    PROVE  \/ \E k \in Calls : Service!CarryOut(k)
           \/ UNCHANGED <<Book, Route, executed, outcome>>
<1> DEFINE x == Head(toAgent[c])
<1>1. /\ toAgent[c] # <<>> /\ UNCHANGED <<at, host, ip, byHost, byIP, callTo, outcome>>
      /\ executed' = IF x = NoCall THEN executed ELSE [executed EXCEPT ![x] = @ + 1]
  BY DEF AgentAnswers, sessions, registry, callers
<1>2. UNCHANGED <<Book, Route>>
  BY <1>1, BookKept, RouteStays DEF registry
<1>3. CASE x = NoCall
  BY <1>1, <1>2, <1>3
<1>4. CASE x # NoCall
  <2>1. x \in Calls /\ toAgent[c] = <<x>>
    <3>1. toAgent[c] \in Seq(Requests) /\ WireAt(c)
      BY DEF TypeInv, TypeOK, WireInv
    <3>2. PICK y : toAgent[c] = <<y>>
      BY <1>1, <3>1 DEF WireAt, OneFrame
    <3> QED BY <1>4, <3>1, <3>2 DEF Requests
  <2>2. callTo[x] = c /\ Submitted(x) /\ executed[x] = 0
    BY <2>1 DEF CallInv, HeldAt
  <2>3. Asked(x) = host[c] /\ host[c] \in Hosts
    <3>1. at[c] # "none"
      BY <2>1, <2>2, SessionsAssumption DEF RouteInv, RouteAt
    <3> QED BY <2>2, <3>1, SessionsAssumption DEF Asked, TypeInv, Placed
  <2>4. Service!CarryOut(x)
    <3>1. Route[x] # Nobody /\ outcome[x] # "closed"
      BY <2>1, <2>2, <2>3, SessionsAssumption DEF Route, Submitted
    <3>2. executed' = [executed EXCEPT ![x] = 1]
      BY <1>1, <1>4, <2>1, <2>2 DEF TypeInv, TypeOK
    <3> QED BY <1>1, <1>2, <2>2, <3>1, <3>2 DEF Service!CarryOut, Book, Route
  <2> QED BY <2>1, <2>4
<1> QED BY <1>3, <1>4

\* What a caller does is an event of its request, or cannot be noticed.
LEMMA CallerRefines ==
    ASSUME TypeInv, RegistryInv, RouteInv, CallInv, NEW k \in Calls, CallerStep(k)
    PROVE  \/ Service!Ask(k) \/ Service!NotFound(k) \/ Service!TurnedAway(k)
           \/ Service!Answer(k) \/ Service!GiveUp(k)
           \/ UNCHANGED <<Book, Route, executed, outcome>>
<1>1. UNCHANGED <<at, host, ip, byHost, byIP, executed, Book>>
  <2>1. UNCHANGED <<at, host, ip, byHost, byIP, executed>>
    BY DEF CallerStep, Lookup, CheckOpen, Put, GotResult, TimedOut, sessions, registry
  <2> QED BY <2>1, BookKept DEF registry
<1>2. /\ callAt[k] # "done" => outcome[k] = "none"
      /\ callTo \in [Calls -> Conns \cup {NoConn}] /\ outcome \in [Calls -> Outcomes]
  BY DEF TypeInv, TypeOK
<1>3. CASE Lookup(k)
  <2>1. Route[k] = Nobody /\ outcome[k] = "none"
    BY <1>2, <1>3 DEF Lookup, RouteInv, RouteAt, Route, Asked
  <2>2. PICK i \in IPs :
           IF byIP[i] = NoConn
           THEN UNCHANGED callTo /\ outcome' = [outcome EXCEPT ![k] = "not_found"]
           ELSE callTo' = [callTo EXCEPT ![k] = byIP[i]] /\ UNCHANGED outcome
    BY <1>3 DEF Lookup
  <2>3. CASE byIP[i] = NoConn
    <3>1. \A h \in Hosts : Book[h] # i
      BY <2>3, NobodyThere, SessionsAssumption DEF Book
    <3>2. UNCHANGED Route
      <4>1. UNCHANGED callTo
        BY <2>2, <2>3
      <4> QED BY <1>1, <4>1, RouteStays
    <3>3. outcome' = [outcome EXCEPT ![k] = "not_found"]
      BY <2>2, <2>3
    <3> QED BY <1>1, <2>1, <3>1, <3>2, <3>3 DEF Service!NotFound, Service!Tell, Book, Route
  <2>4. CASE byIP[i] # NoConn
    <3> DEFINE h == host[byIP[i]]
    <3>1. h \in Hosts /\ byIP[i] \in Conns /\ Book[h] = i /\ i # Nobody
      BY <2>4, FoundThere, SessionsAssumption DEF Book
    <3>2. Route' = [Route EXCEPT ![k] = h]
      <4>1. Asked(k)' = h
        BY <1>1, <1>2, <2>2, <2>4 DEF Asked
      <4>2. ASSUME NEW l \in Calls, l # k PROVE Asked(l)' = Asked(l)
        BY <1>1, <1>2, <2>2, <2>4, <4>2 DEF Asked
      <4> QED BY <4>1, <4>2 DEF Route
    <3> QED BY <1>1, <2>1, <2>2, <2>4, <3>1, <3>2 DEF Service!Ask, Book, Route
  <2> QED BY <2>3, <2>4
<1>4. CASE ~Lookup(k)
  <2>1. UNCHANGED <<callTo, Route>>
    <3>1. UNCHANGED callTo
      BY <1>4 DEF CallerStep, CheckOpen, Put, GotResult, TimedOut
    <3> QED BY <1>1, <3>1, RouteStays
  <2>2. /\ callAt[k] \in {"found", "put", "wait"} /\ outcome[k] = "none"
        /\ DoneAt(k)
    BY <1>2, <1>4 DEF CallerStep, CheckOpen, Put, GotResult, TimedOut, CallInv
  <2>3. Route[k] # Nobody
    <3>1. callTo[k] \in Conns /\ at[callTo[k]] # "none"
      BY <1>2, <2>2 DEF RouteInv, RouteAt
    <3> QED BY <3>1, SessionsAssumption DEF Route, Asked, TypeInv, Placed
  <2>4. CASE CheckOpen(k)
    <3>1. executed[k] = 0
      BY <2>2, <2>4 DEF CheckOpen, DoneAt, Submitted
    <3>2. UNCHANGED outcome \/ outcome' = [outcome EXCEPT ![k] = "closed"]
      BY <2>4 DEF CheckOpen, Return
    <3> QED BY <1>1, <2>1, <2>2, <2>3, <3>1, <3>2
            DEF Service!TurnedAway, Service!Tell, Book, Route
  <2>5. CASE Put(k)
    BY <1>1, <2>1, <2>5 DEF Put
  <2>6. CASE GotResult(k)
    <3>1. result[k] \in Requests \cup {"error"} /\ outcome' = [outcome EXCEPT ![k] = result[k]]
      BY <2>6 DEF GotResult, Return, TypeInv, TypeOK
    <3>2. CASE result[k] = "error"
      BY <1>1, <2>1, <2>2, <2>3, <3>1, <3>2 DEF Service!GiveUp, Service!Tell, Book, Route
    <3>3. CASE result[k] \in Requests
      <4>1. result[k] = k /\ executed[k] = 1
        BY <2>2, <3>3 DEF DoneAt
      <4> QED BY <1>1, <2>1, <2>2, <3>1, <4>1 DEF Service!Answer, Service!Tell, Book, Route
    <3> QED BY <3>1, <3>2, <3>3
  <2>7. CASE TimedOut(k)
    BY <1>1, <2>1, <2>2, <2>3, <2>7
       DEF TimedOut, Return, Service!GiveUp, Service!Tell, Book, Route
  <2> QED BY <1>4, <2>4, <2>5, <2>6, <2>7 DEF CallerStep
<1> QED BY <1>3, <1>4

\* At the start the address book is empty and nothing was asked.
LEMMA ServiceInit == Init => Service!Init
<1> SUFFICES ASSUME Init PROVE Service!Init
  OBVIOUS
<1>1. \A h \in Hosts : Where(h) = Nobody
  BY DEF Init, Where
<1>2. \A k \in Calls : Asked(k) = Nobody
  BY DEF Init, Asked
<1> QED BY <1>1, <1>2 DEF Init, Service!Init, Service!BookInit

\* Every step of the listener, of an agent or of a caller is one of RemoteCalls, or one
\* that cannot be noticed.
LEMMA ServiceNext ==
    TypeInv /\ RegistryInv /\ RouteInv /\ WireInv /\ CallInv /\ [Next]_vars
        => [Service!Next]_<<Book, Route, executed, outcome>>
<1> SUFFICES ASSUME TypeInv, RegistryInv, RouteInv, WireInv, CallInv, [Next]_vars
             PROVE  Service!Next \/ UNCHANGED <<Book, Route, executed, outcome>>
  OBVIOUS
<1>1. ASSUME NEW c \in Conns, Connect(c) \/ HandshakeDone(c) \/ HandshakeFails(c)
      PROVE  UNCHANGED <<Book, Route, executed, outcome>>
  BY <1>1, ServiceKept, SMTT(40)
     DEF Connect, HandshakeDone, HandshakeFails, Move, callers, registry, TypeInv, TypeOK
<1>2. ASSUME NEW c \in Conns, SessionStep(c)
      PROVE  Service!Next \/ UNCHANGED <<Book, Route, executed, outcome>>
  <2>1. CASE Register(c)
    BY <2>1, RegisterComes DEF Service!Next, Route
  <2>2. CASE Unregister(c)
    BY <2>2, UnregisterGoes DEF Service!Next, Route
  <2>3. CASE ~Register(c) /\ ~Unregister(c)
    <3>1. UNCHANGED <<host, ip, registry, callTo, executed, outcome>>
      BY <1>2, <2>3
         DEF SessionStep, IdentifyFails, EmitStatus, LoopTest, TakeRequest, Refresh,
             ExchangeDone, ExchangeFails, End, CheckGone, EmitDisconnect, callers
    <3> QED BY <3>1, ServiceKept
  <2> QED BY <2>1, <2>2, <2>3
<1>3. ASSUME NEW c \in Conns, AgentAnswers(c)
      PROVE  Service!Next \/ UNCHANGED <<Book, Route, executed, outcome>>
  BY <1>3, AnswerCarriesOut DEF Service!Next
<1>4. ASSUME NEW k \in Calls, CallerStep(k)
      PROVE  Service!Next \/ UNCHANGED <<Book, Route, executed, outcome>>
  BY <1>4, CallerRefines DEF Service!Next
<1>5. CASE ClearRegistry
  BY <1>5, ClearingEmptiesTheBook DEF Service!Next, Route
<1>6. CASE ListenerFails \/ ServeAgain \/ Stop \/ CloseSession \/ UNCHANGED vars
  <2>1. UNCHANGED <<host, ip, registry, callTo, executed, outcome>>
    BY <1>6 DEF ListenerFails, ServeAgain, Stop, CloseSession, vars, sessions, callers
  <2> QED BY <2>1, ServiceKept
<1> QED BY <1>1, <1>2, <1>3, <1>4, <1>5, <1>6 DEF Next, ServerStep, Stopped

\* For those who use it, the listener with all its threads, queues and frames is an
\* address book and calls that are carried out once at most.
THEOREM ListenerIsRemoteCalls == Spec => ImplementsRemoteCalls
<1>1. Init => RegistryInv /\ RouteInv
  BY DEF Init, RegistryInv, RegistryIsLive, RouteInv, RouteAt
<1> QED BY <1>1, InitAnswers, TypeInit, TypeNext, RegistryNext, RouteNext, WireNext,
           CallNext, ServiceInit, ServiceNext, PTL
        DEF Spec, ImplementsRemoteCalls, Service!Spec, Service!vars, Book, Route

\* In particular its registry is an address book; so is that of PanelStore.
COROLLARY ListenerIsAddressBook == Spec => Service!BookSpec
<1>1. Service!Init => Service!BookInit
  BY DEF Service!Init
<1>2. [Service!Next]_Service!vars => [Service!BookNext]_Book
  <2> SUFFICES ASSUME Service!Next \/ UNCHANGED Service!vars
               PROVE  Service!BookNext \/ UNCHANGED Book
    OBVIOUS
  <2> QED BY DEF Service!Next, Service!vars, Service!Ask, Service!NotFound, Service!TurnedAway,
                 Service!CarryOut, Service!Answer, Service!GiveUp, Book
<1> QED BY <1>1, <1>2, ListenerIsRemoteCalls, PTL
        DEF ImplementsRemoteCalls, Service!Spec, Service!BookSpec, Book
=============================================================================
