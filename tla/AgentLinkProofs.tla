--------------------------- MODULE AgentLinkProofs ---------------------------
(***************************************************************************)
(* What holds of the way of a request from the panel to the agent and back,*)
(* for any number of requests and connections, however often the panel     *)
(* moves and the PC is suspended or restarts.                              *)
(***************************************************************************)
EXTENDS AgentLink, TLAPS

USE LinkAssumption

-----------------------------------------------------------------------------
(* Frames *)

\* The bounds are numbers, and time begins within them.
LEMMA Bounds == MaxNow \in Nat /\ MaxFaults \in Nat /\ 0 \in 0 .. MaxNow /\ 0 \in 0 .. MaxFaults
  <1>1. MaxNow \in Nat /\ MaxFaults \in Nat
    OBVIOUS
  <1> QED BY <1>1

\* Only the frames of writes carry the number of a request.
LEMMA FrameFacts ==
    ASSUME NEW f \in RequestFrames
    PROVE  /\ f.id \in Ids /\ f # NoFrame
           /\ f.id \in Requests => f.action = "set"
           /\ f.id \notin Requests => f.action = "get"
  BY DEF RequestFrames, BuildRequest, Ids, NoFrame

\* What the panel asks is a frame.
LEMMA AskType ==
    ASSUME NEW t \in 0 .. MaxNow, NEW n \in {Absent, Hostname}
    PROVE  [BuildRequest("get", "settings", Absent, n, Secret, t) EXCEPT !.id = "settings"]
              \in RequestFrames
  BY DEF RequestFrames

\* So is a parents' write.
LEMMA WriteType ==
    ASSUME NEW t \in 0 .. MaxNow, NEW r \in Requests
    PROVE  [BuildRequest("set", "wake_time", "time", Hostname, Secret, t) EXCEPT !.id = r]
              \in RequestFrames
  <1> DEFINE W == {BuildRequest("set", "wake_time", "time", Hostname, Secret, u) :
                      u \in 0 .. MaxNow}
             b == BuildRequest("set", "wake_time", "time", Hostname, Secret, t)
  <1>1. b \in W
    OBVIOUS
  <1>2. {[f EXCEPT !.id = id] : id \in Requests, f \in W} \subseteq RequestFrames
    BY DEF RequestFrames
  <1> HIDE DEF W, b
  <1>3. \A id \in Requests, f \in W : [f EXCEPT !.id = id] \in RequestFrames
    BY <1>2
  <1>4. [b EXCEPT !.id = r] \in RequestFrames
    BY <1>1, <1>3
  <1> QED BY <1>4 DEF b

\* A frame that is sent carries the number it is given.
LEMMA SentId ==
    ASSUME NEW t, NEW n, NEW id
    PROVE  /\ [BuildRequest("get", "settings", Absent, n, Secret, t) EXCEPT !.id = id].id = id
           /\ [BuildRequest("set", "wake_time", "time", n, Secret, t) EXCEPT !.id = id].id = id
  BY DEF BuildRequest

\* An answer carries the number of what it answers.
LEMMA ResponseFacts ==
    ASSUME NEW f \in RequestFrames, NEW t \in 0 .. MaxNow
    PROVE  /\ HandleRequest(f, Secret, Hostname, t + Skew) \in Responses
           /\ HandleRequest(f, Secret, Hostname, t + Skew).id = f.id
           /\ HandleRequest(f, Secret, Hostname, t + Skew) # NoFrame
  <1>1. HandleRequest(f, Secret, Hostname, t + Skew).id = f.id
    BY DEF HandleRequest
  <1>2. f.id \in Ids
    BY FrameFacts
  <1>3. NoFrame.id = "none" /\ "none" \notin Ids
    BY DEF NoFrame, Ids
  <1> QED BY <1>1, <1>2, <1>3 DEF Responses

-----------------------------------------------------------------------------
(* Type correctness *)

\* What there is of a connection.
ConnType ==
    [agent : BOOLEAN, panel : BOOLEAN,
     thread : {"over", "new", "identifying", "idle", "asking"},
     id : Ids \cup {"none"}, since : 0 .. MaxNow,
     toAgent : RequestFrames \cup {NoFrame}, toPanel : Responses \cup {NoFrame}]

\* A slot that is free, and a session that has ended, are of that type.
LEMMA FreeType ==
    /\ Free \in ConnType
    /\ [Free EXCEPT !.agent = TRUE, !.panel = TRUE, !.thread = "new"] \in ConnType
  BY Bounds DEF Free, ConnType

\* So is a connection one end of which has been closed.
LEMMA ClosedType ==
    ASSUME NEW x \in ConnType
    PROVE  /\ LET y == [x EXCEPT !.panel = FALSE]
              IN  /\ y \in ConnType /\ ~y.panel
                  /\ y.agent = x.agent /\ y.toAgent = x.toAgent
                  /\ y.toPanel = x.toPanel /\ y.thread = x.thread /\ y.id = x.id
           /\ LET y == [x EXCEPT !.agent = FALSE, !.toAgent = NoFrame]
              IN  /\ y \in ConnType /\ ~y.agent /\ y.toAgent = NoFrame
                  /\ y.panel = x.panel /\ y.toPanel = x.toPanel
                  /\ y.thread = x.thread /\ y.id = x.id
  <1>1. LET y == [x EXCEPT !.panel = FALSE]
        IN  /\ y \in ConnType /\ ~y.panel
            /\ y.agent = x.agent /\ y.toAgent = x.toAgent
            /\ y.toPanel = x.toPanel /\ y.thread = x.thread /\ y.id = x.id
    BY DEF ConnType
  <1>2. LET y == [x EXCEPT !.agent = FALSE, !.toAgent = NoFrame]
        IN  /\ y \in ConnType /\ ~y.agent /\ y.toAgent = NoFrame
            /\ y.panel = x.panel /\ y.toPanel = x.toPanel
            /\ y.thread = x.thread /\ y.id = x.id
    BY DEF ConnType
  <1> QED BY <1>1, <1>2

\* So is one whose thread waits no more.
LEMMA IdleType ==
    ASSUME NEW x \in ConnType
    PROVE  LET y == [x EXCEPT !.thread = "idle", !.id = "none", !.since = 0, !.toPanel = NoFrame]
           IN  /\ y \in ConnType /\ y.toPanel = NoFrame
               /\ y.agent = x.agent /\ y.toAgent = x.toAgent /\ y.panel = x.panel
  <1>1. 0 \in 0 .. MaxNow
    BY Bounds
  <1> QED BY <1>1 DEF ConnType

LEMMA EndedType ==
    ASSUME conn \in [Connections -> ConnType], NEW c \in Connections
    PROVE  /\ Ended(c) \in ConnType
           /\ Ended(c).agent = conn[c].agent /\ Ended(c).toAgent = conn[c].toAgent
           /\ ~Ended(c).panel /\ Ended(c).toPanel = NoFrame
           /\ Ended(c).thread = "over" /\ Ended(c).id = "none"
  <1>1. conn[c] \in ConnType /\ 0 \in 0 .. MaxNow
    BY Bounds
  <1> QED BY <1>1 DEF Ended, ConnType

\* What sending leaves.
LEMMA SendsType ==
    ASSUME conn \in [Connections -> ConnType], now \in 0 .. MaxNow,
           NEW c \in Connections, conn[c].thread \in {"new", "idle"},
           NEW f, NEW id \in Ids, [f EXCEPT !.id = id] \in RequestFrames, Sends(c, f, id)
    PROVE  /\ conn' \in [Connections -> ConnType]
           /\ \A d \in Connections \ {c} : conn'[d] = conn[d]
           /\ conn'[c].agent = conn[c].agent /\ conn'[c].panel = conn[c].panel
           /\ conn'[c].toAgent = [f EXCEPT !.id = id]
           /\ conn'[c].toPanel = conn[c].toPanel
           /\ conn'[c].thread \in {"identifying", "asking"} /\ conn'[c].id = id
  BY DEF Sends, ConnType

\* Tells changes what is known of a request, and never to "unasked".
LEMMA TellsType ==
    ASSUME told \in [Requests -> {"unasked", "waiting", "ok", "failed"}],
           NEW id, NEW what \in {"ok", "failed"}
    PROVE  /\ Tells(id, what) \in [Requests -> {"unasked", "waiting", "ok", "failed"}]
           /\ \A r \in Requests : Tells(id, what)[r] \in {told[r], what}
           /\ \A r \in Requests \ {id} : Tells(id, what)[r] = told[r]
  BY DEF Tells

\* The agent is well typed at the start.
LEMMA TypeInit == Init => TypeOK
  <1> SUFFICES ASSUME Init PROVE TypeOK
    OBVIOUS
  <1>1. conn \in [Connections -> ConnType]
    BY FreeType DEF Init
  <1>2. \A c \in Connections : conn[c].agent <=> c = attached
    BY DEF Init, Free
  <1>3. signed \in Seq(Requests) /\ done \in Seq(Requests)
    BY DEF Init
  <1>4. now \in 0 .. MaxNow /\ faults \in 0 .. MaxFaults
    BY Bounds DEF Init
  <1> QED BY <1>1, <1>2, <1>3, <1>4 DEF Init, TypeOK, ConnType

\* What the agent does keeps the types.
LEMMA TypeAgent == TypeOK /\ Agent => TypeOK'
  <1> SUFFICES ASSUME TypeOK, Agent PROVE TypeOK'
    OBVIOUS
  <1>0. conn \in [Connections -> ConnType]
    BY DEF TypeOK, ConnType
  <1>1. CASE FindsKnown \/ FindsByScan
    BY <1>1 DEF FindsKnown, FindsByScan, Finds, _write_cached_panel_url, TypeOK
  <1>2. CASE Connects
    <2>1. PICK c \in Connections :
             /\ attached' = c
             /\ conn' = [conn EXCEPT ![c] = [Free EXCEPT !.agent = TRUE, !.panel = TRUE,
                                                         !.thread = "new"]]
      BY <1>2 DEF Connects, FreeSlots
    <2>2. [Free EXCEPT !.agent = TRUE, !.panel = TRUE, !.thread = "new"] \in ConnType
      BY FreeType
    <2>3. conn' \in [Connections -> ConnType]
      BY <1>0, <2>1, <2>2
    <2>4. \A d \in Connections : conn'[d].agent <=> d = attached'
      BY <1>0, <1>2, <2>1 DEF Connects, TypeOK, Free
    <2> QED BY <1>2, <2>1, <2>3, <2>4 DEF Connects, TypeOK, ConnType
  <1>3. CASE ConnectFails
    BY <1>3 DEF ConnectFails, TypeOK
  <1>4. CASE Serves
    <2> DEFINE f == conn[attached].toAgent
               response == HandleRequest(f, Secret, Hostname, now + Skew)
    <2>1. attached \in Connections /\ f \in RequestFrames
      BY <1>0, <1>4 DEF Serves, TypeOK, ConnType
    <2>2. response \in Responses
      BY <2>1, ResponseFacts DEF TypeOK
    <2>3. conn' = [conn EXCEPT ![attached].toAgent = NoFrame,
                               ![attached].toPanel = IF conn[attached].panel
                                                     THEN response ELSE @]
      BY <1>4 DEF Serves, CarriesOut
    <2> HIDE DEF response, f
    <2>4. conn' \in [Connections -> ConnType]
      <3>1. [conn[attached] EXCEPT !.toAgent = NoFrame,
                                   !.toPanel = IF conn[attached].panel THEN response ELSE @]
               \in ConnType
        BY <1>0, <2>1, <2>2, ZenonT(60) DEF ConnType
      <3> QED BY <1>0, <2>1, <2>3, <3>1
    <2>5. \A d \in Connections : conn'[d].agent = conn[d].agent
      BY <1>0, <2>1, <2>3 DEF ConnType
    <2>6. done' \in Seq(Requests)
      <3>1. f.action \in WriteActions => f.id \in Requests
        BY <2>1, FrameFacts DEF WriteActions
      <3>2. done' \in {done, Append(done, f.id)}
            /\ (done' = done \/ f.action \in WriteActions)
        BY <1>4 DEF Serves, CarriesOut, f
      <3>3. done \in Seq(Requests)
        BY DEF TypeOK
      <3>4. ASSUME f.id \in Requests PROVE Append(done, f.id) \in Seq(Requests)
        BY <3>3, <3>4
      <3> QED BY <3>1, <3>2, <3>3, <3>4
    <2> QED BY <1>4, <2>4, <2>5, <2>6, SMTT(40) DEF Serves, CarriesOut, TypeOK, ConnType
  <1>5. CASE SeesClose
    <2>1. conn' = [conn EXCEPT ![attached].agent = FALSE, ![attached].toAgent = NoFrame]
          /\ attached \in Connections /\ attached' = NoConnection
      BY <1>5 DEF SeesClose, TypeOK
    <2>2. conn' \in [Connections -> ConnType]
      <3>1. [conn[attached] EXCEPT !.agent = FALSE, !.toAgent = NoFrame] \in ConnType
        BY <1>0, <2>1, ZenonT(60) DEF ConnType
      <3> QED BY <1>0, <2>1, <3>1
    <2>3. \A d \in Connections : conn'[d].agent <=> d = attached'
      BY <1>0, <2>1 DEF TypeOK, ConnType
    <2> QED BY <1>5, <2>2, <2>3 DEF SeesClose, TypeOK, ConnType
  <1> QED BY <1>1, <1>2, <1>3, <1>4, <1>5 DEF Agent

\* What a thread that asks leaves, and of which frame.
LEMMA AskEffect ==
    ASSUME TypeOK, NEW c \in Connections, Identifies(c) \/ _refresh_status(c) \/ Asks(c)
    PROVE  \E f \in RequestFrames :
             /\ conn[c].thread \in {"new", "idle"}
             /\ conn' \in [Connections -> ConnType]
             /\ \A d \in Connections \ {c} : conn'[d] = conn[d]
             /\ conn'[c].agent = conn[c].agent /\ conn'[c].panel = conn[c].panel
             /\ conn'[c].toAgent = f /\ conn'[c].toPanel = conn[c].toPanel
             /\ conn'[c].thread \in {"identifying", "asking"} /\ conn'[c].id = f.id
             /\ \/ f.id = "settings" /\ UNCHANGED <<told, signed>>
                \/ /\ f.id \in Requests /\ told[f.id] = "unasked"
                   /\ told' = [told EXCEPT ![f.id] = "waiting"]
                   /\ signed' = Append(signed, f.id)
             /\ UNCHANGED <<now, panelAt, asleep, url, cache, attached, session, done, faults>>
  <1>0. conn \in [Connections -> ConnType] /\ now \in 0 .. MaxNow
    BY DEF TypeOK, ConnType
  <1>1. CASE Identifies(c)
    <2> DEFINE b == BuildRequest("get", "settings", Absent, Absent, Secret, now)
               f == [b EXCEPT !.id = "settings"]
    <2>1. f \in RequestFrames /\ f.id = "settings" /\ "settings" \in Ids
      <3>1. f \in RequestFrames
        BY <1>0, AskType
      <3>2. f.id = "settings"
        BY SentId
      <3> HIDE DEF f
      <3> QED BY <3>1, <3>2 DEF Ids
    <2>2. Sends(c, b, "settings") /\ conn[c].thread = "new"
          /\ UNCHANGED <<now, panelAt, asleep, url, cache, attached, session, told, signed,
                         done, faults>>
      BY <1>1 DEF Identifies
    <2>3. /\ conn' \in [Connections -> ConnType]
          /\ \A d \in Connections \ {c} : conn'[d] = conn[d]
          /\ conn'[c].agent = conn[c].agent /\ conn'[c].panel = conn[c].panel
          /\ conn'[c].toAgent = f
          /\ conn'[c].toPanel = conn[c].toPanel
          /\ conn'[c].thread \in {"identifying", "asking"} /\ conn'[c].id = "settings"
      <3> HIDE DEF b
      <3> QED BY <1>0, <2>1, <2>2, SendsType
    <2> HIDE DEF f
    <2> QED BY <2>1, <2>2, <2>3
  <1>2. CASE _refresh_status(c)
    <2> DEFINE b == BuildRequest("get", "settings", Absent, Hostname, Secret, now)
               f == [b EXCEPT !.id = "settings"]
    <2>1. f \in RequestFrames /\ f.id = "settings" /\ "settings" \in Ids
      <3>1. f \in RequestFrames
        BY <1>0, AskType
      <3>2. f.id = "settings"
        BY SentId
      <3> HIDE DEF f
      <3> QED BY <3>1, <3>2 DEF Ids
    <2>2. Sends(c, b, "settings") /\ conn[c].thread = "idle"
          /\ UNCHANGED <<now, panelAt, asleep, url, cache, attached, session, told, signed,
                         done, faults>>
      BY <1>2 DEF _refresh_status
    <2>3. /\ conn' \in [Connections -> ConnType]
          /\ \A d \in Connections \ {c} : conn'[d] = conn[d]
          /\ conn'[c].agent = conn[c].agent /\ conn'[c].panel = conn[c].panel
          /\ conn'[c].toAgent = f
          /\ conn'[c].toPanel = conn[c].toPanel
          /\ conn'[c].thread \in {"identifying", "asking"} /\ conn'[c].id = "settings"
      <3> HIDE DEF b
      <3> QED BY <1>0, <2>1, <2>2, SendsType
    <2> HIDE DEF f
    <2> QED BY <2>1, <2>2, <2>3
  <1>3. CASE Asks(c)
    <2> DEFINE b == BuildRequest("set", "wake_time", "time", Hostname, Secret, now)
    <2>1. PICK r \in Requests :
             /\ told[r] = "unasked"
             /\ told' = [told EXCEPT ![r] = "waiting"]
             /\ signed' = Append(signed, r)
             /\ Sends(c, b, r)
      BY <1>3 DEF Asks, Unasked
    <2> DEFINE f == [b EXCEPT !.id = r]
    <2>2. f \in RequestFrames /\ f.id = r /\ r \in Ids
      BY <1>0, WriteType, SentId DEF Ids
    <2>3. conn[c].thread = "idle"
          /\ UNCHANGED <<now, panelAt, asleep, url, cache, attached, session, done, faults>>
      BY <1>3 DEF Asks
    <2>4. /\ conn' \in [Connections -> ConnType]
          /\ \A d \in Connections \ {c} : conn'[d] = conn[d]
          /\ conn'[c].agent = conn[c].agent /\ conn'[c].panel = conn[c].panel
          /\ conn'[c].toAgent = f
          /\ conn'[c].toPanel = conn[c].toPanel
          /\ conn'[c].thread \in {"identifying", "asking"} /\ conn'[c].id = r
      <3> HIDE DEF b
      <3> QED BY <1>0, <2>1, <2>2, <2>3, SendsType
    <2> HIDE DEF f
    <2> QED BY <2>1, <2>2, <2>3, <2>4
  <1> QED BY <1>1, <1>2, <1>3

\* What an answer leaves.
LEMMA HearsEffect ==
    ASSUME TypeOK, NEW c \in Connections, Hears(c)
    PROVE  /\ conn' \in [Connections -> ConnType]
           /\ \A d \in Connections :
                 /\ conn'[d].agent = conn[d].agent /\ conn'[d].toAgent = conn[d].toAgent
                 /\ d # c => /\ conn'[d].toPanel = conn[d].toPanel
                             /\ conn'[d].thread = conn[d].thread /\ conn'[d].id = conn[d].id
                             /\ conn'[d].panel => conn[d].panel
           /\ conn'[c].toPanel = NoFrame
           /\ session' \in Connections \cup {NoConnection}
           /\ told' \in [Requests -> {"unasked", "waiting", "ok", "failed"}]
           /\ \A r \in Requests :
                 /\ told'[r] = "unasked" => told[r] = "unasked"
                 /\ told'[r] = "ok" => told[r] = "ok" \/ (r = conn[c].id /\ conn[c].toPanel.status = "ok")
           /\ UNCHANGED <<now, panelAt, asleep, url, cache, attached, signed, done, faults>>
  <1>0. conn \in [Connections -> ConnType]
        /\ told \in [Requests -> {"unasked", "waiting", "ok", "failed"}]
    BY DEF TypeOK, ConnType
  <1> DEFINE idle == [conn[c] EXCEPT !.thread = "idle", !.id = "none", !.since = 0,
                                     !.toPanel = NoFrame]
  <1>1. /\ idle \in ConnType
        /\ idle.agent = conn[c].agent /\ idle.toAgent = conn[c].toAgent
        /\ idle.toPanel = NoFrame
    BY <1>0, IdleType
  <1>2. \E what \in {"ok", "failed"} :
           /\ told' = Tells(conn[c].id, what)
           /\ what = "ok" => conn[c].toPanel.status = "ok"
    BY DEF Hears
  <1>3. /\ told' \in [Requests -> {"unasked", "waiting", "ok", "failed"}]
        /\ \A r \in Requests :
              /\ told'[r] = "unasked" => told[r] = "unasked"
              /\ told'[r] = "ok" => told[r] = "ok" \/ (r = conn[c].id /\ conn[c].toPanel.status = "ok")
    <2>1. PICK what \in {"ok", "failed"} :
             /\ told' = Tells(conn[c].id, what)
             /\ what = "ok" => conn[c].toPanel.status = "ok"
      BY <1>2
    <2> QED BY <1>0, <2>1 DEF Tells
  <1>4. \/ /\ conn' = [conn EXCEPT ![c] = Ended(c)]
           /\ session' \in {session, NoConnection}
        \/ /\ conn' = [d \in Connections |->
                          IF d = c THEN idle
                          ELSE IF d = session THEN [conn[d] EXCEPT !.panel = FALSE]
                          ELSE conn[d]]
           /\ session' = c
        \/ conn' = [conn EXCEPT ![c] = idle] /\ UNCHANGED session
    BY SMTT(40) DEF Hears
  <1>5. CASE conn' = [conn EXCEPT ![c] = Ended(c)] /\ session' \in {session, NoConnection}
    BY <1>0, <1>3, <1>5, EndedType, SMTT(40) DEF Hears, TypeOK
  <1>6. CASE /\ conn' = [d \in Connections |->
                            IF d = c THEN idle
                            ELSE IF d = session THEN [conn[d] EXCEPT !.panel = FALSE]
                            ELSE conn[d]]
             /\ session' = c
    <2>1. \A d \in Connections :
             LET x == [conn[d] EXCEPT !.panel = FALSE]
             IN  /\ x \in ConnType /\ ~x.panel
                 /\ x.agent = conn[d].agent /\ x.toAgent = conn[d].toAgent
                 /\ x.toPanel = conn[d].toPanel /\ x.thread = conn[d].thread
                 /\ x.id = conn[d].id
      BY <1>0, ClosedType, ZenonT(60)
    <2> HIDE DEF idle
    <2>2. conn' \in [Connections -> ConnType]
      BY <1>0, <1>1, <1>6, <2>1
    <2> QED BY <1>0, <1>1, <1>3, <1>6, <2>1, <2>2 DEF Hears
  <1>7. CASE conn' = [conn EXCEPT ![c] = idle] /\ UNCHANGED session
    <2> HIDE DEF idle
    <2> QED BY <1>0, <1>1, <1>3, <1>7 DEF Hears, TypeOK
  <1> QED BY <1>4, <1>5, <1>6, <1>7

\* What giving up leaves.
LEMMA GivesUpEffect ==
    ASSUME TypeOK, NEW c \in Connections, GivesUp(c)
    PROVE  /\ conn' = [conn EXCEPT ![c] = Ended(c)]
           /\ session' \in {session, NoConnection}
           /\ told' \in [Requests -> {"unasked", "waiting", "ok", "failed"}]
           /\ \A r \in Requests : told'[r] \in {told[r], "failed"}
           /\ UNCHANGED <<now, panelAt, asleep, url, cache, attached, signed, done, faults>>
  BY TellsType DEF GivesUp, Ends, TypeOK

\* The panel's threads keep the types.
LEMMA TypePanel ==
    ASSUME TypeOK, NEW c \in Connections,
           Identifies(c) \/ _refresh_status(c) \/ Asks(c) \/ Hears(c) \/ GivesUp(c)
    PROVE  TypeOK'
  <1>0. conn \in [Connections -> ConnType]
    BY DEF TypeOK, ConnType
  <1>1. CASE Identifies(c) \/ _refresh_status(c) \/ Asks(c)
    <2>1. PICK f \in RequestFrames :
             /\ conn' \in [Connections -> ConnType]
             /\ \A d \in Connections \ {c} : conn'[d] = conn[d]
             /\ conn'[c].agent = conn[c].agent
             /\ \/ f.id = "settings" /\ UNCHANGED <<told, signed>>
                \/ /\ f.id \in Requests
                   /\ told' = [told EXCEPT ![f.id] = "waiting"]
                   /\ signed' = Append(signed, f.id)
             /\ UNCHANGED <<now, panelAt, asleep, url, cache, attached, session, done, faults>>
      BY <1>1, AskEffect
    <2>2. told' \in [Requests -> {"unasked", "waiting", "ok", "failed"}]
          /\ signed' \in Seq(Requests)
      <3>1. /\ told \in [Requests -> {"unasked", "waiting", "ok", "failed"}]
            /\ signed \in Seq(Requests)
        BY DEF TypeOK
      <3>2. ASSUME f.id \in Requests PROVE Append(signed, f.id) \in Seq(Requests)
        BY <3>1, <3>2
      <3> QED BY <2>1, <3>1, <3>2
    <2> QED BY <2>1, <2>2 DEF TypeOK, ConnType
  <1>2. CASE Hears(c)
    <2>1. /\ conn' \in [Connections -> ConnType]
          /\ \A d \in Connections : conn'[d].agent = conn[d].agent
          /\ session' \in Connections \cup {NoConnection}
          /\ told' \in [Requests -> {"unasked", "waiting", "ok", "failed"}]
          /\ UNCHANGED <<now, panelAt, asleep, url, cache, attached, signed, done, faults>>
      BY <1>2, HearsEffect
    <2> QED BY <2>1 DEF TypeOK, ConnType
  <1>3. CASE GivesUp(c)
    <2>1. conn' = [conn EXCEPT ![c] = Ended(c)] /\ Ended(c) \in ConnType
          /\ Ended(c).agent = conn[c].agent
      BY <1>0, <1>3, GivesUpEffect, EndedType
    <2>2. conn' \in [Connections -> ConnType]
          /\ \A d \in Connections : conn'[d].agent = conn[d].agent
      BY <1>0, <2>1
    <2>3. /\ session' \in {session, NoConnection}
          /\ told' \in [Requests -> {"unasked", "waiting", "ok", "failed"}]
          /\ UNCHANGED <<now, panelAt, asleep, url, cache, attached, signed, done, faults>>
      BY <1>3, GivesUpEffect
    <2> QED BY <2>2, <2>3, ZenonT(60) DEF TypeOK, ConnType
  <1> QED BY <1>1, <1>2, <1>3

\* What the world does, as far as connections are concerned.
LEMMA WorldEffect ==
    ASSUME TypeOK,
           Tick \/ PanelMoves \/ Suspend \/ Resume \/ AgentRestarts \/ UNCHANGED vars
    PROVE  /\ conn' \in [Connections -> ConnType]
           /\ \A d \in Connections :
                 /\ conn'[d].agent => conn[d].agent
                 /\ conn'[d].toAgent \in {conn[d].toAgent, NoFrame}
                 /\ conn'[d].panel => conn[d].panel
                 /\ \/ conn'[d].toPanel = NoFrame
                    \/ conn'[d].toPanel = conn[d].toPanel /\ conn'[d].id = conn[d].id
                          /\ conn'[d].thread = conn[d].thread
                 /\ conn'[d].panel => conn'[d].toPanel = conn[d].toPanel /\ conn'[d].id = conn[d].id
                          /\ conn'[d].thread = conn[d].thread
           /\ \A d \in Connections : conn'[d].agent <=> d = attached'
           /\ told' \in [Requests -> {"unasked", "waiting", "ok", "failed"}]
           /\ \A r \in Requests : told'[r] = told[r] \/ told'[r] = "failed"
           /\ UNCHANGED <<signed, done>>
  <1>0. conn \in [Connections -> ConnType]
        /\ told \in [Requests -> {"unasked", "waiting", "ok", "failed"}]
        /\ \A d \in Connections : conn[d].agent <=> d = attached
    BY DEF TypeOK, ConnType
  <1>1. CASE Tick \/ Suspend \/ Resume \/ UNCHANGED vars
    BY <1>0, <1>1 DEF Tick, Suspend, Resume, vars
  <1>2. CASE PanelMoves
    <2>1. /\ conn' = [d \in Connections |-> Ended(d)]
          /\ told' = [r \in Requests |-> IF told[r] = "waiting" THEN "failed" ELSE told[r]]
          /\ UNCHANGED <<attached, signed, done>>
      BY <1>2 DEF PanelMoves
    <2>2. \A d \in Connections : /\ Ended(d) \in ConnType
           /\ Ended(d).agent = conn[d].agent /\ Ended(d).toAgent = conn[d].toAgent
           /\ ~Ended(d).panel /\ Ended(d).toPanel = NoFrame
      BY <1>0, EndedType
    <2> QED BY <1>0, <2>1, <2>2
  <1>3. CASE AgentRestarts
    <2>1. /\ conn' = [d \in Connections |->
                         IF d = attached
                         THEN [conn[d] EXCEPT !.agent = FALSE, !.toAgent = NoFrame]
                         ELSE conn[d]]
          /\ attached' = NoConnection /\ UNCHANGED <<told, signed, done>>
      BY <1>3 DEF AgentRestarts
    <2>2. \A d \in Connections :
             LET x == [conn[d] EXCEPT !.agent = FALSE, !.toAgent = NoFrame]
             IN  /\ x \in ConnType /\ ~x.agent /\ x.toAgent = NoFrame
                 /\ x.panel = conn[d].panel /\ x.toPanel = conn[d].toPanel
                 /\ x.thread = conn[d].thread /\ x.id = conn[d].id
      BY <1>0, ClosedType
    <2> QED BY <1>0, <2>1, <2>2
  <1> QED BY <1>1, <1>2, <1>3

\* The world keeps the types.
LEMMA TypeWorld ==
    ASSUME TypeOK,
           Tick \/ PanelMoves \/ Suspend \/ Resume \/ AgentRestarts \/ UNCHANGED vars
    PROVE  TypeOK'
  <1>1. /\ now' \in 0 .. MaxNow
        /\ panelAt' \in Addresses \cup {NoAddress}
        /\ asleep' \in BOOLEAN
        /\ url' \in Addresses \cup {NoAddress} /\ cache' \in Addresses \cup {NoAddress}
        /\ attached' \in Connections \cup {NoConnection}
        /\ session' \in Connections \cup {NoConnection}
        /\ faults' \in 0 .. MaxFaults
    <2>0. MaxNow \in Nat /\ MaxFaults \in Nat
      BY Bounds
    <2>1. CASE Tick
      BY <2>0, <2>1 DEF TypeOK, Tick
    <2>2. CASE PanelMoves
      BY <2>0, <2>2 DEF TypeOK, PanelMoves
    <2>3. CASE Suspend
      BY <2>0, <2>3 DEF TypeOK, Suspend
    <2>4. CASE AgentRestarts
      <3>1. /\ faults' = faults + 1 /\ faults < MaxFaults
            /\ url' = NoAddress /\ attached' = NoConnection
            /\ UNCHANGED <<now, panelAt, asleep, cache, session>>
        BY <2>4 DEF AgentRestarts
      <3> QED BY <2>0, <3>1 DEF TypeOK
    <2>5. CASE Resume \/ UNCHANGED vars
      BY <2>5 DEF TypeOK, Resume, vars
    <2> QED BY <2>1, <2>2, <2>3, <2>4, <2>5
  <1> QED BY <1>1, WorldEffect, SMTT(40) DEF TypeOK, ConnType

\* Every step keeps the types.
LEMMA TypeNext == TypeOK /\ [Next]_vars => TypeOK'
  BY TypeAgent, TypePanel, TypeWorld DEF Next, Agent

\* Agent, panel and buffers keep their types, and the agent reads from the one
\* connection whose end it holds open.
THEOREM TypeCorrect == Spec => []TypeOK
  BY TypeInit, TypeNext, PTL DEF Spec

-----------------------------------------------------------------------------
(* What is told *)

Carried == {done[k] : k \in DOMAIN done}

\* Inductive.  An answer that is under way, and on an open connection a request, is
\* that of the exchange the panel's thread waits for; an answer that says ok was given
\* after the request was carried out.
OkInv ==
    /\ \A c \in Connections :
          /\ conn[c].toPanel # NoFrame =>
                /\ Waits(c) /\ conn[c].toPanel.id = conn[c].id
                /\ conn[c].toPanel.status = "ok" /\ conn[c].id \in Requests =>
                      conn[c].id \in Carried
          /\ conn[c].panel /\ conn[c].toAgent # NoFrame =>
                /\ Waits(c) /\ conn[c].toAgent.id = conn[c].id
                /\ conn[c].toPanel = NoFrame
    /\ \A r \in Requests : told[r] = "ok" => r \in Carried

\* What the agent does keeps it: above all, it answers ok only after the write.
LEMMA OkAgent == TypeOK /\ OkInv /\ Agent => OkInv'
  <1> SUFFICES ASSUME TypeOK, OkInv, Agent PROVE OkInv'
    OBVIOUS
  <1>0. conn \in [Connections -> ConnType] /\ done \in Seq(Requests)
    BY DEF TypeOK, ConnType
  <1>1. CASE FindsKnown \/ FindsByScan \/ ConnectFails
    BY <1>1 DEF FindsKnown, FindsByScan, Finds, ConnectFails, OkInv, Carried, Waits
  <1>2. CASE Connects
    <2>1. PICK c \in Connections :
             conn' = [conn EXCEPT ![c] = [Free EXCEPT !.agent = TRUE, !.panel = TRUE,
                                                      !.thread = "new"]]
      BY <1>2 DEF Connects, FreeSlots
    <2>2. conn'[c].toPanel = NoFrame /\ conn'[c].toAgent = NoFrame
      BY <1>0, <2>1 DEF Free
    <2>3. \A d \in Connections \ {c} : conn'[d] = conn[d]
      BY <1>0, <2>1
    <2>4. UNCHANGED <<told, done>>
      BY <1>2 DEF Connects
    <2> QED BY <2>2, <2>3, <2>4 DEF OkInv, Carried, Waits
  <1>3. CASE Serves
    <2> DEFINE f == conn[attached].toAgent
               response == HandleRequest(f, Secret, Hostname, now + Skew)
    <2>1. attached \in Connections /\ f \in RequestFrames /\ f # NoFrame
      BY <1>0, <1>3 DEF Serves, TypeOK, ConnType
    <2>2. response.id = f.id
      BY <2>1, ResponseFacts DEF TypeOK
    <2>3. conn' = [conn EXCEPT ![attached].toAgent = NoFrame,
                               ![attached].toPanel = IF conn[attached].panel
                                                     THEN response ELSE @]
          /\ UNCHANGED told
      BY <1>3 DEF Serves, CarriesOut
    <2>4. /\ response.status = "ok" /\ f.id \in Requests => f.id \in Carried'
          /\ Carried \subseteq Carried'
      <3>1. f.id \in Requests => f.action \in WriteActions
        BY <2>1, FrameFacts DEF WriteActions
      <3>2. done' = IF response.status = "ok" /\ f.action \in WriteActions
                    THEN Append(done, f.id) ELSE done
        BY <1>3 DEF Serves, CarriesOut
      <3>3. f.action \in WriteActions => f.id \in Requests
        BY <2>1, FrameFacts DEF WriteActions
      <3>4. ASSUME f.id \in Requests
            PROVE  /\ \A k \in DOMAIN done : /\ k \in DOMAIN Append(done, f.id)
                                           /\ Append(done, f.id)[k] = done[k]
                   /\ Len(done) + 1 \in DOMAIN Append(done, f.id)
                   /\ Append(done, f.id)[Len(done) + 1] = f.id
        BY <1>0, <3>4
      <3> HIDE DEF f, response
      <3> QED BY <3>1, <3>2, <3>3, <3>4 DEF Carried
    <2> HIDE DEF f, response
    <2>5. /\ conn'[attached].toAgent = NoFrame
          /\ conn'[attached].toPanel = IF conn[attached].panel THEN response
                                       ELSE conn[attached].toPanel
          /\ conn'[attached].thread = conn[attached].thread
          /\ conn'[attached].id = conn[attached].id
          /\ \A d \in Connections \ {attached} : conn'[d] = conn[d]
      BY <1>0, <2>1, <2>3 DEF ConnType
    <2>6. conn[attached].panel => Waits(attached) /\ f.id = conn[attached].id
      BY <2>1 DEF OkInv, f
    <2>7. ASSUME NEW d \in Connections, conn'[d].toPanel # NoFrame
          PROVE  /\ Waits(d)' /\ conn'[d].toPanel.id = conn'[d].id
                 /\ conn'[d].toPanel.status = "ok" /\ conn'[d].id \in Requests =>
                       conn'[d].id \in Carried'
      <3>1. CASE d = attached /\ conn[attached].panel
        BY <2>2, <2>4, <2>5, <2>6, <3>1 DEF Waits
      <3>2. CASE d = attached /\ ~conn[attached].panel
        BY <2>4, <2>5, <2>7, <3>2 DEF OkInv, Waits
      <3>3. CASE d # attached
        BY <2>4, <2>5, <2>7, <3>3 DEF OkInv, Waits
      <3> QED BY <3>1, <3>2, <3>3
    <2>8. ASSUME NEW d \in Connections, conn'[d].panel, conn'[d].toAgent # NoFrame
          PROVE  /\ Waits(d)' /\ conn'[d].toAgent.id = conn'[d].id
                 /\ conn'[d].toPanel = NoFrame
      <3>1. d # attached
        BY <2>5, <2>8
      <3> QED BY <2>5, <2>8, <3>1 DEF OkInv, Waits
    <2>9. \A r \in Requests : told'[r] = "ok" => r \in Carried'
      BY <2>3, <2>4 DEF OkInv
    <2> QED BY <2>7, <2>8, <2>9 DEF OkInv
  <1>4. CASE SeesClose
    <2>1. /\ conn' = [conn EXCEPT ![attached].agent = FALSE, ![attached].toAgent = NoFrame]
          /\ attached \in Connections /\ UNCHANGED <<told, done>>
      BY <1>4 DEF SeesClose, TypeOK
    <2>2. /\ conn'[attached].toAgent = NoFrame
          /\ conn'[attached].toPanel = conn[attached].toPanel
          /\ conn'[attached].thread = conn[attached].thread
          /\ conn'[attached].id = conn[attached].id
          /\ \A d \in Connections \ {attached} : conn'[d] = conn[d]
      BY <1>0, <2>1 DEF ConnType
    <2>3. Carried' = Carried /\ \A r \in Requests : told'[r] = told[r]
      BY <2>1 DEF Carried
    <2>4. \A d \in Connections :
             /\ conn'[d].toPanel = conn[d].toPanel /\ conn'[d].id = conn[d].id
             /\ Waits(d)' <=> Waits(d)
             /\ conn'[d].toAgent \in {conn[d].toAgent, NoFrame}
             /\ conn'[d].panel = conn[d].panel
      <3>1. conn'[attached].panel = conn[attached].panel
        BY <1>0, <2>1 DEF ConnType
      <3> QED BY <2>2, <3>1 DEF Waits
    <2> QED BY <2>3, <2>4 DEF OkInv
  <1> QED BY <1>1, <1>2, <1>3, <1>4 DEF Agent

\* What the panel does keeps it: it asks only when nothing is under way, and what it
\* hears is the answer to what it asked.
LEMMA OkPanel ==
    ASSUME TypeOK, OkInv, NEW c \in Connections,
           Identifies(c) \/ _refresh_status(c) \/ Asks(c) \/ Hears(c) \/ GivesUp(c)
    PROVE  OkInv'
  <1>0. conn \in [Connections -> ConnType]
        /\ told \in [Requests -> {"unasked", "waiting", "ok", "failed"}]
    BY DEF TypeOK, ConnType
  <1>1. CASE Identifies(c) \/ _refresh_status(c) \/ Asks(c)
    <2>1. PICK f \in RequestFrames :
             /\ conn[c].thread \in {"new", "idle"}
             /\ \A d \in Connections \ {c} : conn'[d] = conn[d]
             /\ conn'[c].toAgent = f /\ conn'[c].toPanel = conn[c].toPanel
             /\ conn'[c].thread \in {"identifying", "asking"} /\ conn'[c].id = f.id
             /\ \/ UNCHANGED told
                \/ f.id \in Requests /\ told' = [told EXCEPT ![f.id] = "waiting"]
             /\ UNCHANGED done
      BY <1>1, AskEffect
    <2>2. conn[c].toPanel = NoFrame
      BY <2>1 DEF OkInv, Waits
    <2>3. \A r \in Requests : told'[r] = "ok" => told[r] = "ok"
      BY <1>0, <2>1
    <2> QED BY <2>1, <2>2, <2>3 DEF OkInv, Carried, Waits
  <1>2. CASE Hears(c)
    <2>1. conn[c].toPanel # NoFrame /\ conn[c].panel
      BY <1>2 DEF Hears
    <2>2. /\ conn[c].toAgent = NoFrame
          /\ conn[c].toPanel.status = "ok" /\ conn[c].id \in Requests =>
                conn[c].id \in Carried
      BY <2>1 DEF OkInv
    <2> QED BY <1>2, <2>2, HearsEffect DEF OkInv, Carried, Waits
  <1>3. CASE GivesUp(c)
    <2>1. /\ conn' = [conn EXCEPT ![c] = Ended(c)]
          /\ ~Ended(c).panel /\ Ended(c).toPanel = NoFrame
          /\ \A r \in Requests : told'[r] \in {told[r], "failed"}
          /\ UNCHANGED done
      BY <1>0, <1>3, GivesUpEffect, EndedType
    <2>2. /\ ~conn'[c].panel /\ conn'[c].toPanel = NoFrame
          /\ \A d \in Connections \ {c} : conn'[d] = conn[d]
      BY <1>0, <2>1
    <2> QED BY <2>1, <2>2 DEF OkInv, Carried, Waits
  <1> QED BY <1>1, <1>2, <1>3

\* So does the world.
LEMMA OkWorld ==
    ASSUME TypeOK, OkInv,
           Tick \/ PanelMoves \/ Suspend \/ Resume \/ AgentRestarts \/ UNCHANGED vars
    PROVE  OkInv'
  <1>1. \A d \in Connections :
           /\ conn'[d].toAgent \in {conn[d].toAgent, NoFrame}
           /\ conn'[d].panel => conn[d].panel
           /\ \/ conn'[d].toPanel = NoFrame
              \/ conn'[d].toPanel = conn[d].toPanel /\ conn'[d].id = conn[d].id
                    /\ conn'[d].thread = conn[d].thread
           /\ conn'[d].panel => conn'[d].toPanel = conn[d].toPanel /\ conn'[d].id = conn[d].id
                    /\ conn'[d].thread = conn[d].thread
    BY WorldEffect
  <1>2. (\A r \in Requests : told'[r] = told[r] \/ told'[r] = "failed") /\ UNCHANGED done
    BY WorldEffect
  <1>3. \A r \in Requests : told'[r] = "ok" => told[r] = "ok"
    BY <1>2
  <1>4. Carried' = Carried
    BY <1>2 DEF Carried
  <1> QED BY <1>1, <1>3, <1>4 DEF OkInv, Waits

\* What the parents are told was done has been done, although no answer is matched
\* with its request by number, for any number of requests, connections and faults.
THEOREM OkAlwaysMeansCarriedOut == Spec => []OkMeansCarriedOut
  <1>1. Init => OkInv
    BY DEF Init, OkInv, Free
  <1>2. TypeOK /\ OkInv /\ [Next]_vars => OkInv'
    BY OkAgent, OkPanel, OkWorld DEF Next, Agent
  <1>3. OkInv => OkMeansCarriedOut
    BY DEF OkInv, Carried, OkMeansCarriedOut
  <1> QED BY <1>1, <1>2, <1>3, TypeCorrect, PTL DEF Spec

-----------------------------------------------------------------------------
(* What is carried out, and when *)

\* Everything carried out so far was sent before the q-th request.
AllBefore(q) == \A k \in DOMAIN done : \E p \in DOMAIN signed : p < q /\ signed[p] = done[k]

\* Inductive.  A request is sent once; one that the agent may still read was sent
\* after all that has been carried out.
OrderInv ==
    /\ \A r \in Requests : told[r] = "unasked" => \A p \in DOMAIN signed : signed[p] # r
    /\ \A p, q \in DOMAIN signed : signed[p] = signed[q] => p = q
    /\ \A k \in DOMAIN done : \E p \in DOMAIN signed : signed[p] = done[k]
    /\ \A c \in Connections :
          conn[c].agent /\ conn[c].toAgent # NoFrame /\ conn[c].toAgent.id \in Requests =>
             \E q \in DOMAIN signed : signed[q] = conn[c].toAgent.id /\ AllBefore(q)
    /\ NothingOvertakes

\* A step that neither sends nor carries out keeps it.
LEMMA OrderAlone ==
    ASSUME OrderInv, UNCHANGED <<signed, done>>,
           \A r \in Requests : told'[r] = "unasked" => told[r] = "unasked",
           \A c \in Connections :
              conn'[c].agent /\ conn'[c].toAgent # NoFrame /\ conn'[c].toAgent.id \in Requests
                 => conn[c].agent /\ conn'[c].toAgent = conn[c].toAgent
    PROVE  OrderInv'
  <1>1. \A q : AllBefore(q)' <=> AllBefore(q)
    BY DEF AllBefore
  <1>2. NothingOvertakes'
    BY DEF OrderInv, NothingOvertakes
  <1> QED BY <1>1, <1>2 DEF OrderInv, AllBefore

\* A longer sequence.
LEMMA Appended ==
    ASSUME NEW s \in Seq(Requests), NEW r \in Requests
    PROVE  /\ DOMAIN Append(s, r) = DOMAIN s \cup {Len(s) + 1}
           /\ \A p \in DOMAIN s : p \in Nat /\ p < Len(s) + 1 /\ Append(s, r)[p] = s[p]
           /\ Append(s, r)[Len(s) + 1] = r
           /\ Len(s) + 1 \notin DOMAIN s /\ Len(s) + 1 \in Nat
  OBVIOUS

\* What the agent does keeps the order.
LEMMA OrderAgent == TypeOK /\ OrderInv /\ Agent => OrderInv'
  <1> SUFFICES ASSUME TypeOK, OrderInv, Agent PROVE OrderInv'
    OBVIOUS
  <1>0. conn \in [Connections -> ConnType] /\ done \in Seq(Requests)
    BY DEF TypeOK, ConnType
  <1>1. CASE FindsKnown \/ FindsByScan \/ ConnectFails
    BY <1>1, OrderAlone DEF FindsKnown, FindsByScan, Finds, ConnectFails
  <1>2. CASE Connects
    <2>1. PICK c \in Connections :
             conn' = [conn EXCEPT ![c] = [Free EXCEPT !.agent = TRUE, !.panel = TRUE,
                                                      !.thread = "new"]]
      BY <1>2 DEF Connects, FreeSlots
    <2>2. conn'[c].toAgent = NoFrame /\ \A d \in Connections \ {c} : conn'[d] = conn[d]
      BY <1>0, <2>1 DEF Free
    <2>3. UNCHANGED <<told, signed, done>>
      BY <1>2 DEF Connects
    <2> QED BY <2>2, <2>3, OrderAlone
  <1>3. CASE Serves
    <2> DEFINE f == conn[attached].toAgent
    <2>1. attached \in Connections /\ f \in RequestFrames /\ f # NoFrame
          /\ conn[attached].agent
      BY <1>0, <1>3 DEF Serves, TypeOK, ConnType
    <2>2. /\ conn'[attached].toAgent = NoFrame
          /\ \A d \in Connections \ {attached} : conn'[d] = conn[d] /\ ~conn[d].agent
          /\ UNCHANGED <<told, signed>>
      BY <1>0, <1>3, <2>1 DEF Serves, CarriesOut, TypeOK, ConnType
    <2>3. CASE done' = done
      BY <2>2, <2>3, OrderAlone
    <2>4. CASE done' = Append(done, f.id) /\ f.action \in WriteActions
      <3>1. f.id \in Requests
        BY <2>1, <2>4, FrameFacts DEF WriteActions
      <3>2. PICK q \in DOMAIN signed : signed[q] = f.id /\ AllBefore(q)
        BY <2>1, <3>1 DEF OrderInv
      <3>3. /\ DOMAIN done' = DOMAIN done \cup {Len(done) + 1}
            /\ \A k \in DOMAIN done : k \in Nat /\ k < Len(done) + 1 /\ done'[k] = done[k]
            /\ done'[Len(done) + 1] = signed[q]
            /\ Len(done) + 1 \in Nat
        BY <1>0, <2>4, <3>1, <3>2, Appended
      <3> DEFINE n == Len(done) + 1
      <3> HIDE DEF n
      <3>4. \A k \in DOMAIN done' : \E p \in DOMAIN signed : signed[p] = done'[k]
        BY <3>2, <3>3 DEF OrderInv, n
      <3>5. ASSUME NEW j \in DOMAIN done', NEW k \in DOMAIN done', j < k
            PROVE  \E p, o \in DOMAIN signed :
                      p < o /\ signed[p] = done'[j] /\ signed[o] = done'[k]
        <4>1. j \in DOMAIN done
          BY <3>3, <3>5
        <4>2. CASE k \in DOMAIN done
          BY <3>3, <3>5, <4>1, <4>2 DEF OrderInv, NothingOvertakes
        <4>3. CASE k = Len(done) + 1
          BY <3>2, <3>3, <4>1, <4>3 DEF AllBefore
        <4> QED BY <3>3, <4>2, <4>3
      <3>6. NothingOvertakes'
        BY <2>2, <3>5 DEF NothingOvertakes
      <3>7. \A d \in Connections :
               ~(conn'[d].agent /\ conn'[d].toAgent # NoFrame /\ conn'[d].toAgent.id \in Requests)
        BY <2>2
      <3> QED BY <2>2, <3>4, <3>6, <3>7 DEF OrderInv
    <2> QED BY <1>3, <2>3, <2>4 DEF Serves, CarriesOut
  <1>4. CASE SeesClose
    <2>1. /\ conn' = [conn EXCEPT ![attached].agent = FALSE, ![attached].toAgent = NoFrame]
          /\ attached \in Connections /\ UNCHANGED <<told, signed, done>>
      BY <1>4 DEF SeesClose, TypeOK
    <2>2. conn'[attached].toAgent = NoFrame
          /\ \A d \in Connections \ {attached} : conn'[d] = conn[d]
      BY <1>0, <2>1 DEF ConnType
    <2> QED BY <2>1, <2>2, OrderAlone
  <1> QED BY <1>1, <1>2, <1>3, <1>4 DEF Agent

\* What the panel does keeps it: what it sends is the newest.
LEMMA OrderPanel ==
    ASSUME TypeOK, OrderInv, NEW c \in Connections,
           Identifies(c) \/ _refresh_status(c) \/ Asks(c) \/ Hears(c) \/ GivesUp(c)
    PROVE  OrderInv'
  <1>0. conn \in [Connections -> ConnType] /\ signed \in Seq(Requests)
        /\ told \in [Requests -> {"unasked", "waiting", "ok", "failed"}]
    BY DEF TypeOK, ConnType
  <1>1. CASE Identifies(c) \/ _refresh_status(c) \/ Asks(c)
    <2>1. PICK f \in RequestFrames :
             /\ \A d \in Connections \ {c} : conn'[d] = conn[d]
             /\ conn'[c].toAgent = f
             /\ \/ f.id = "settings" /\ UNCHANGED <<told, signed>>
                \/ /\ f.id \in Requests /\ told[f.id] = "unasked"
                   /\ told' = [told EXCEPT ![f.id] = "waiting"]
                   /\ signed' = Append(signed, f.id)
             /\ UNCHANGED done
      BY <1>1, AskEffect
    <2>2. CASE f.id = "settings" /\ UNCHANGED <<told, signed>>
      <3>1. f.id \notin Requests
        BY <2>2
      <3> QED BY <2>1, <2>2, <3>1, OrderAlone
    <2>3. CASE /\ f.id \in Requests /\ told[f.id] = "unasked"
               /\ told' = [told EXCEPT ![f.id] = "waiting"]
               /\ signed' = Append(signed, f.id)
      <3>0. PICK n \in Nat : n = Len(signed) + 1
        BY <1>0
      <3>1. /\ DOMAIN signed' = DOMAIN signed \cup {n}
            /\ \A p \in DOMAIN signed : p \in Nat /\ p < n /\ signed'[p] = signed[p]
            /\ signed'[n] = f.id
            /\ n \notin DOMAIN signed
        BY <1>0, <2>3, <3>0, Appended
      <3>2. \A r \in Requests : told'[r] = "unasked" => told[r] = "unasked" /\ r # f.id
        BY <1>0, <2>3
      <3>3. \A r \in Requests : told'[r] = "unasked" => \A p \in DOMAIN signed' : signed'[p] # r
        BY <3>1, <3>2 DEF OrderInv
      <3>4. \A p, q \in DOMAIN signed' : signed'[p] = signed'[q] => p = q
        BY <2>3, <3>1 DEF OrderInv
      <3>5. \A k \in DOMAIN done : \E p \in DOMAIN signed' : signed'[p] = done[k]
        BY <3>1 DEF OrderInv
      <3>6. \A q \in DOMAIN signed : AllBefore(q) => AllBefore(q)'
        BY <2>1, <3>1 DEF AllBefore
      <3>7. AllBefore(n)'
        BY <2>1, <3>1 DEF OrderInv, AllBefore
      <3>8. NothingOvertakes'
        BY <2>1, <3>1 DEF OrderInv, NothingOvertakes
      <3>9. ASSUME NEW d \in Connections, conn'[d].agent, conn'[d].toAgent # NoFrame,
                   conn'[d].toAgent.id \in Requests
            PROVE  \E q \in DOMAIN signed' : signed'[q] = conn'[d].toAgent.id /\ AllBefore(q)'
        <4>1. CASE d = c
          BY <2>1, <3>1, <3>7, <4>1
        <4>2. CASE d # c
          <5>1. PICK q \in DOMAIN signed : signed[q] = conn[d].toAgent.id /\ AllBefore(q)
            BY <2>1, <3>9, <4>2 DEF OrderInv
          <5> QED BY <2>1, <3>1, <3>6, <4>2, <5>1
        <4> QED BY <4>1, <4>2
      <3> QED BY <2>1, <3>3, <3>4, <3>5, <3>8, <3>9 DEF OrderInv
    <2> QED BY <2>1, <2>2, <2>3
  <1>2. CASE Hears(c)
    BY <1>2, HearsEffect, OrderAlone
  <1>3. CASE GivesUp(c)
    <2>1. /\ conn' = [conn EXCEPT ![c] = Ended(c)]
          /\ Ended(c).agent = conn[c].agent /\ Ended(c).toAgent = conn[c].toAgent
          /\ \A r \in Requests : told'[r] \in {told[r], "failed"}
          /\ UNCHANGED <<signed, done>>
      BY <1>0, <1>3, GivesUpEffect, EndedType
    <2>2. \A d \in Connections :
             conn'[d].agent = conn[d].agent /\ conn'[d].toAgent = conn[d].toAgent
      BY <1>0, <2>1
    <2>3. \A r \in Requests : told'[r] = "unasked" => told[r] = "unasked"
      BY <2>1
    <2> QED BY <2>1, <2>2, <2>3, OrderAlone
  <1> QED BY <1>1, <1>2, <1>3

\* So does the world.
LEMMA OrderWorld ==
    ASSUME TypeOK, OrderInv,
           Tick \/ PanelMoves \/ Suspend \/ Resume \/ AgentRestarts \/ UNCHANGED vars
    PROVE  OrderInv'
  <1>1. \A d \in Connections :
           /\ conn'[d].agent => conn[d].agent
           /\ conn'[d].toAgent \in {conn[d].toAgent, NoFrame}
    BY WorldEffect
  <1>2. (\A r \in Requests : told'[r] = "unasked" => told[r] = "unasked")
        /\ UNCHANGED <<signed, done>>
    BY WorldEffect
  <1> QED BY <1>1, <1>2, OrderAlone

\* The invariant holds.
LEMMA OrderCorrect == Spec => []OrderInv
  <1>1. Init => OrderInv
    BY DEF Init, OrderInv, Free, NothingOvertakes
  <1>2. TypeOK /\ OrderInv /\ [Next]_vars => OrderInv'
    BY OrderAgent, OrderPanel, OrderWorld DEF Next, Agent
  <1> QED BY <1>1, <1>2, TypeCorrect, PTL DEF Spec

\* Requests are carried out in the order in which the panel sent them, however late
\* one is found by a PC that was suspended.
THEOREM NothingEverOvertakes == Spec => []NothingOvertakes
  <1>1. OrderInv => NothingOvertakes
    BY DEF OrderInv
  <1> QED BY <1>1, OrderCorrect, PTL

\* No request is carried out twice.
CarriedOutOnce == \A j, k \in DOMAIN done : done[j] = done[k] => j = k

\* With the order comes that nothing is carried out twice, since nothing is sent twice.
THEOREM AllCarriedOutOnce == Spec => []CarriedOutOnce
  <1>1. TypeOK /\ OrderInv => CarriedOutOnce
    <2> SUFFICES ASSUME TypeOK, OrderInv, NEW j \in DOMAIN done, NEW k \in DOMAIN done,
                        done[j] = done[k], j < k
                 PROVE  FALSE
      BY DEF CarriedOutOnce, TypeOK
    <2>1. PICK p \in DOMAIN signed, q \in DOMAIN signed :
             p < q /\ signed[p] = done[j] /\ signed[q] = done[k]
      BY DEF OrderInv, NothingOvertakes
    <2>2. p = q
      BY <2>1 DEF OrderInv
    <2>3. p \in Int
      BY DEF TypeOK
    <2> QED BY <2>1, <2>2, <2>3
  <1> QED BY <1>1, TypeCorrect, OrderCorrect, PTL

-----------------------------------------------------------------------------
(* The errands of the parents *)

\* A thread that waits for a request's answer is the only one, and nothing has been told
\* of the request.
WaitInv ==
    \A c \in Connections : conn[c].id \in Requests =>
        /\ told[conn[c].id] = "waiting"
        /\ \A d \in Connections \ {c} : conn[d].id # conn[c].id

\* No thread begins to wait.
LEMMA WaitKept ==
    ASSUME WaitInv, UNCHANGED told,
           \A c \in Connections : conn'[c].id \in {conn[c].id, "none"}
    PROVE  WaitInv'
  <1>1. "none" \notin Requests
    BY LinkAssumption
  <1> QED BY <1>1 DEF WaitInv

\* One stops waiting, and tells what it knows.
LEMMA WaitOver ==
    ASSUME TypeOK, WaitInv, NEW c \in Connections, NEW what \in {"ok", "failed"},
           told' = Tells(conn[c].id, what), UNCHANGED <<signed, done>>,
           what = "ok" /\ conn[c].id \in Requests => conn[c].id \in Carried,
           conn'[c].id = "none",
           \A d \in Connections \ {c} : conn'[d].id \in {conn[d].id, "none"}
    PROVE  WaitInv' /\ [Errand!Next]_<<told, signed, done>>
  <1>1. "none" \notin Requests /\ told \in [Requests -> {"unasked", "waiting", "ok", "failed"}]
    BY LinkAssumption DEF TypeOK
  <1>2. \A r \in Requests \ {conn[c].id} : told'[r] = told[r]
    BY <1>1 DEF Tells
  <1>3. WaitInv'
    BY <1>1, <1>2 DEF WaitInv
  <1>4. CASE conn[c].id \notin Requests
    BY <1>3, <1>4 DEF Tells
  <1>5. CASE conn[c].id \in Requests
    <2> DEFINE r == conn[c].id
    <2>1. told[r] = "waiting" /\ told' = [told EXCEPT ![r] = what]
      BY <1>5 DEF WaitInv, Tells
    <2>2. CASE what = "ok"
      <3>1. \E k \in DOMAIN done : done[k] = r
        BY <1>5, <2>2 DEF Carried
      <3>2. Errand!Confirm(r)
        BY <2>1, <2>2, <3>1 DEF Errand!Confirm
      <3> QED BY <1>3, <1>5, <3>2 DEF Errand!Next
    <2>3. CASE what = "failed"
      <3>1. told' = [s \in Requests |-> IF s \in {r} THEN "failed" ELSE told[s]]
        BY <1>1, <2>1, <2>3
      <3>2. Errand!GiveUp({r}) /\ {r} \in SUBSET Requests
        BY <1>5, <2>1, <3>1 DEF Errand!GiveUp
      <3> QED BY <1>3, <3>2 DEF Errand!Next
    <2> QED BY <2>2, <2>3
  <1> QED BY <1>4, <1>5

\* What the agent does is carrying out, or cannot be noticed.
LEMMA ErrandAgent ==
    ASSUME TypeOK, OrderInv, WaitInv, Agent
    PROVE  WaitInv' /\ [Errand!Next]_<<told, signed, done>>
  <1>0. conn \in [Connections -> ConnType] /\ done \in Seq(Requests)
    BY DEF TypeOK, ConnType
  <1>1. CASE FindsKnown \/ FindsByScan \/ ConnectFails
    <2>1. UNCHANGED <<conn, told, signed, done>>
      BY <1>1 DEF FindsKnown, FindsByScan, Finds, ConnectFails
    <2> QED BY <2>1, WaitKept
  <1>2. CASE Connects
    <2>1. PICK c \in Connections :
             conn' = [conn EXCEPT ![c] = [Free EXCEPT !.agent = TRUE, !.panel = TRUE,
                                                      !.thread = "new"]]
      BY <1>2 DEF Connects, FreeSlots
    <2>2. conn'[c].id = "none" /\ \A d \in Connections \ {c} : conn'[d] = conn[d]
      BY <1>0, <2>1 DEF Free
    <2>3. UNCHANGED <<told, signed, done>>
      BY <1>2 DEF Connects
    <2> QED BY <2>2, <2>3, WaitKept
  <1>3. CASE Serves
    <2> DEFINE f == conn[attached].toAgent
    <2>1. attached \in Connections /\ f \in RequestFrames /\ f # NoFrame
          /\ conn[attached].agent
      BY <1>0, <1>3 DEF Serves, TypeOK, ConnType
    <2>2. /\ \A d \in Connections : conn'[d].id = conn[d].id
          /\ UNCHANGED <<told, signed>>
      BY <1>0, <1>3, <2>1 DEF Serves, CarriesOut, ConnType
    <2>3. WaitInv'
      BY <2>2, WaitKept
    <2>4. CASE done' = done
      BY <2>2, <2>3, <2>4
    <2>5. CASE done' = Append(done, f.id) /\ f.action \in WriteActions
      <3>1. f.id \in Requests
        BY <2>1, <2>5, FrameFacts DEF WriteActions
      <3>2. PICK q \in DOMAIN signed : signed[q] = f.id /\ AllBefore(q)
        BY <2>1, <3>1 DEF OrderInv
      <3>3. Errand!CarryOut(f.id)
        BY <2>2, <2>5, <3>2 DEF Errand!CarryOut, AllBefore
      <3> QED BY <2>3, <3>1, <3>3 DEF Errand!Next
    <2> QED BY <1>3, <2>4, <2>5 DEF Serves, CarriesOut
  <1>4. CASE SeesClose
    <2>1. /\ conn' = [conn EXCEPT ![attached].agent = FALSE, ![attached].toAgent = NoFrame]
          /\ attached \in Connections /\ UNCHANGED <<told, signed, done>>
      BY <1>4 DEF SeesClose, TypeOK
    <2>2. \A d \in Connections : conn'[d].id = conn[d].id
      BY <1>0, <2>1 DEF ConnType
    <2> QED BY <2>1, <2>2, WaitKept
  <1> QED BY <1>1, <1>2, <1>3, <1>4 DEF Agent

\* Whoever hears an answer stops waiting, and believes ok only of what it asked for.
LEMMA HearsTells ==
    ASSUME TypeOK, NEW c \in Connections, Hears(c)
    PROVE  /\ \E what \in {"ok", "failed"} :
                 /\ told' = Tells(conn[c].id, what)
                 /\ what = "ok" => conn[c].toPanel.status = "ok"
           /\ conn[c].toPanel # NoFrame
           /\ conn'[c].id = "none"
           /\ \A d \in Connections \ {c} : conn'[d].id = conn[d].id
           /\ UNCHANGED <<signed, done>>
  <1>0. conn \in [Connections -> ConnType]
    BY DEF TypeOK, ConnType
  <1>1. \E what \in {"ok", "failed"} :
           /\ told' = Tells(conn[c].id, what)
           /\ what = "ok" => conn[c].toPanel.status = "ok"
    BY DEF Hears
  <1>2. UNCHANGED <<signed, done>> /\ conn[c].toPanel # NoFrame
    BY DEF Hears
  <1>3. \A d \in Connections \ {c} : conn'[d].id = conn[d].id
    BY HearsEffect
  <1> DEFINE idle == [conn[c] EXCEPT !.thread = "idle", !.id = "none", !.since = 0,
                                     !.toPanel = NoFrame]
  <1>4. \/ conn' = [conn EXCEPT ![c] = Ended(c)]
        \/ conn' = [d \in Connections |->
                      IF d = c THEN idle
                      ELSE IF d = session THEN [conn[d] EXCEPT !.panel = FALSE]
                      ELSE conn[d]]
        \/ conn' = [conn EXCEPT ![c] = idle]
    BY SMTT(40) DEF Hears
  <1>5. idle.id = "none" /\ Ended(c).id = "none"
    BY <1>0, EndedType DEF ConnType
  <1>6. conn'[c] \in {idle, Ended(c)}
    <2> HIDE DEF idle
    <2> QED BY <1>0, <1>4
  <1>7. conn'[c].id = "none"
    <2> HIDE DEF idle
    <2> QED BY <1>5, <1>6
  <1> QED BY <1>1, <1>2, <1>3, <1>7

\* What the panel does is sending, confirming or giving up, or cannot be noticed.
LEMMA ErrandPanel ==
    ASSUME TypeOK, OkInv, WaitInv, NEW c \in Connections,
           Identifies(c) \/ _refresh_status(c) \/ Asks(c) \/ Hears(c) \/ GivesUp(c)
    PROVE  WaitInv' /\ [Errand!Next]_<<told, signed, done>>
  <1>0. conn \in [Connections -> ConnType]
        /\ told \in [Requests -> {"unasked", "waiting", "ok", "failed"}]
    BY DEF TypeOK, ConnType
  <1>1. CASE Identifies(c) \/ _refresh_status(c) \/ Asks(c)
    <2>1. PICK f \in RequestFrames :
             /\ \A d \in Connections \ {c} : conn'[d] = conn[d]
             /\ conn'[c].id = f.id
             /\ \/ f.id = "settings" /\ UNCHANGED <<told, signed>>
                \/ /\ f.id \in Requests /\ told[f.id] = "unasked"
                   /\ told' = [told EXCEPT ![f.id] = "waiting"]
                   /\ signed' = Append(signed, f.id)
             /\ UNCHANGED done
      BY <1>1, AskEffect
    <2>2. CASE f.id = "settings" /\ UNCHANGED <<told, signed>>
      <3>1. "settings" \notin Requests
        BY LinkAssumption
      <3>2. WaitInv'
        BY <2>1, <2>2, <3>1 DEF WaitInv
      <3> QED BY <2>1, <2>2, <3>2
    <2>3. CASE /\ f.id \in Requests /\ told[f.id] = "unasked"
               /\ told' = [told EXCEPT ![f.id] = "waiting"]
               /\ signed' = Append(signed, f.id)
      <3>1. \A d \in Connections : conn[d].id # f.id
        BY <2>3 DEF WaitInv
      <3>2. told'[f.id] = "waiting" /\ \A r \in Requests \ {f.id} : told'[r] = told[r]
        BY <1>0, <2>3
      <3>3. WaitInv'
        BY <2>1, <3>1, <3>2 DEF WaitInv
      <3>4. Errand!Send(f.id)
        BY <2>1, <2>3 DEF Errand!Send
      <3> QED BY <2>3, <3>3, <3>4 DEF Errand!Next
    <2> QED BY <2>1, <2>2, <2>3
  <1>2. CASE Hears(c)
    <2>1. PICK what \in {"ok", "failed"} :
             /\ told' = Tells(conn[c].id, what)
             /\ what = "ok" => conn[c].toPanel.status = "ok"
      BY <1>2, HearsTells
    <2>2. what = "ok" /\ conn[c].id \in Requests => conn[c].id \in Carried
      BY <1>2, <2>1, HearsTells DEF OkInv
    <2>3. /\ conn'[c].id = "none" /\ UNCHANGED <<signed, done>>
          /\ \A d \in Connections \ {c} : conn'[d].id = conn[d].id
      BY <1>2, HearsTells
    <2> QED BY <2>1, <2>2, <2>3, WaitOver
  <1>3. CASE GivesUp(c)
    <2>1. /\ conn' = [conn EXCEPT ![c] = Ended(c)] /\ Ended(c).id = "none"
          /\ told' = Tells(conn[c].id, "failed") /\ UNCHANGED <<signed, done>>
      BY <1>0, <1>3, EndedType DEF GivesUp, Ends
    <2>2. conn'[c].id = "none" /\ \A d \in Connections \ {c} : conn'[d].id = conn[d].id
      BY <1>0, <2>1
    <2> QED BY <2>1, <2>2, WaitOver
  <1> QED BY <1>1, <1>2, <1>3

\* The panel that stops gives up all it waits for; nothing else is noticed.
LEMMA ErrandWorld ==
    ASSUME TypeOK, WaitInv,
           Tick \/ PanelMoves \/ Suspend \/ Resume \/ AgentRestarts \/ UNCHANGED vars
    PROVE  WaitInv' /\ [Errand!Next]_<<told, signed, done>>
  <1>0. conn \in [Connections -> ConnType]
    BY DEF TypeOK, ConnType
  <1>1. CASE Tick \/ Suspend \/ Resume \/ UNCHANGED vars
    <2>1. UNCHANGED <<conn, told, signed, done>>
      BY <1>1 DEF Tick, Suspend, Resume, vars
    <2> QED BY <2>1, WaitKept
  <1>2. CASE PanelMoves
    <2> DEFINE rs == {r \in Requests : told[r] = "waiting"}
    <2>1. /\ conn' = [d \in Connections |-> Ended(d)]
          /\ told' = [r \in Requests |-> IF told[r] = "waiting" THEN "failed" ELSE told[r]]
          /\ UNCHANGED <<signed, done>>
      BY <1>2 DEF PanelMoves
    <2>2. \A d \in Connections : conn'[d].id = "none"
      BY <1>0, <2>1, EndedType
    <2>3. WaitInv'
      BY <2>2, LinkAssumption DEF WaitInv
    <2>4. told' = [r \in Requests |-> IF r \in rs THEN "failed" ELSE told[r]]
      BY <2>1
    <2>5. Errand!GiveUp(rs) /\ rs \in SUBSET Requests
      BY <2>1, <2>4 DEF Errand!GiveUp
    <2> QED BY <2>3, <2>5 DEF Errand!Next
  <1>3. CASE AgentRestarts
    <2>1. /\ conn' = [d \in Connections |->
                         IF d = attached
                         THEN [conn[d] EXCEPT !.agent = FALSE, !.toAgent = NoFrame]
                         ELSE conn[d]]
          /\ UNCHANGED <<told, signed, done>>
      BY <1>3 DEF AgentRestarts
    <2>2. \A d \in Connections : conn'[d].id = conn[d].id
      BY <1>0, <2>1 DEF ConnType
    <2> QED BY <2>1, <2>2, WaitKept
  <1> QED BY <1>1, <1>2, <1>3

\* From end to end, the link is the errands of the parents, for any number of requests,
\* connections, moves, suspensions and restarts.
THEOREM LinkIsErrands == Spec => ImplementsErrands
  <1>1. Init => OkInv /\ OrderInv /\ WaitInv /\ Errand!Init
    BY LinkAssumption
       DEF Init, OkInv, OrderInv, WaitInv, Free, NothingOvertakes, Errand!Init
  <1>2. TypeOK /\ OkInv /\ [Next]_vars => OkInv'
    BY OkAgent, OkPanel, OkWorld DEF Next, Agent
  <1>3. TypeOK /\ OrderInv /\ [Next]_vars => OrderInv'
    BY OrderAgent, OrderPanel, OrderWorld DEF Next, Agent
  <1>4. TypeOK /\ OkInv /\ OrderInv /\ WaitInv /\ [Next]_vars
           => WaitInv' /\ [Errand!Next]_<<told, signed, done>>
    BY ErrandAgent, ErrandPanel, ErrandWorld DEF Next, Agent
  <1> QED BY <1>1, <1>2, <1>3, <1>4, TypeCorrect, PTL
          DEF Spec, ImplementsErrands, Errand!Spec, Errand!vars
=============================================================================
