------------------------------ MODULE AgentLink ------------------------------
(***************************************************************************)
(* The agent's connection to the panel, from end to end: how the agent     *)
(* finds the panel and connects to it (agent_sync_client.py), how a        *)
(* request travels to the agent, is carried out and answered               *)
(* (remote_control_server.py), and when the panel believes the answer or   *)
(* gives up (exchange_on_socket of remote_client.py and the thread of one  *)
(* session in panel_reverse_server.py).                                    *)
(*                                                                         *)
(* The agent's PC may be suspended with a request unread, and restart; the *)
(* panel may stop, move to another address and come back.  The queue of a  *)
(* session and the panel's other threads are in ReverseSessions: here the  *)
(* session asks one request after the other.  A unit of time is the        *)
(* ExchangeTimeout of 30 seconds.                                          *)
(***************************************************************************)
EXTENDS Protocol, Sequences, FiniteSets

CONSTANTS
    Addresses,      \* the addresses the panel may have
    OddHosts,       \* addresses at which, while the panel is elsewhere, something
                    \* answers on the panel's port that is no HTTP, or a JSON value
                    \* that is no object
    Environment,    \* KID_PC_MONITOR_PANEL_URL: an address, or NoAddress
    NoAddress,      \* no URL known, no panel running
    Requests,       \* the writes the parents ask for
    Connections,    \* slots for TCP connections: the bound on those not yet forgotten
    NoConnection,
    Skew,           \* the PC's clock minus the panel's
    MaxNow,         \* bound on the panel's clock
    MaxFaults       \* bound on moves of the panel, suspensions and restarts of the PC

ASSUME LinkAssumption ==
    /\ NoAddress \notin Addresses \cup OddHosts
    /\ Environment \in Addresses \cup OddHosts \cup {NoAddress}
    /\ NoConnection \notin Connections
    /\ {"settings", "none"} \cap Requests = {}
    /\ Skew \in Int
    /\ {MaxNow, MaxFaults} \subseteq Nat

VARIABLES
    now,        \* the panel's clock
    panelAt,    \* the address of the running panel, or NoAddress
    asleep,     \* the PC is suspended
    url, cache, \* the agent's panel_url and the file panel_url.txt
    attached,   \* the connection the agent reads from, or NoConnection
    conn,       \* what there is of each connection
    session,    \* the connection the panel has registered for the PC
    told,       \* what the parents know of each request
    signed,     \* history: the requests in the order in which they were sent
    done,       \* history: the requests in the order in which they were carried out
    faults      \* how many moves, suspensions and restarts there have been

vars == <<now, panelAt, asleep, url, cache, attached, conn, session, told, signed,
          done, faults>>

Secret == "secret"
Hostname == "pc"
ExchangeTimeout == 1
NoFrame == [id |-> "none"]

\* A connection: agent and panel tell which end is open; thread is what the panel's
\* thread does, id the request it waits for since the time since; toAgent and
\* toPanel are what is in the buffers.
Free == [agent |-> FALSE, panel |-> FALSE, thread |-> "over", id |-> "none",
         since |-> 0, toAgent |-> NoFrame, toPanel |-> NoFrame]

Init ==
    /\ now = 0
    /\ panelAt \in Addresses \cup {NoAddress}
    /\ asleep = FALSE
    /\ url = NoAddress
    /\ cache \in Addresses \cup {NoAddress}
    /\ attached = NoConnection
    /\ conn = [c \in Connections |-> Free]
    /\ session = NoConnection
    /\ told = [r \in Requests |-> "unasked"]
    /\ signed = <<>>
    /\ done = <<>>
    /\ faults = 0

-----------------------------------------------------------------------------
(* The agent finds the panel *)

Answer(a) ==
    CASE a = panelAt -> "panel"
      [] a # panelAt /\ a \in OddHosts -> "odd"
      [] OTHER -> "none"

\* What the configured and the cached URL give, tried in this order: the first of
\* them at which something answers.
KnownUrl ==
    IF Environment # NoAddress /\ Answer(Environment) # "none" THEN Environment
    ELSE IF cache # NoAddress /\ Answer(cache) # "none" THEN cache
    ELSE NoAddress

\* Writing the file may fail, which is only logged.
_write_cached_panel_url(a) == cache' \in {a, cache}

Finds(a) ==
    /\ ~asleep /\ attached = NoConnection /\ url = NoAddress
    /\ a = panelAt /\ a # NoAddress
    /\ url' = a
    /\ _write_cached_panel_url(a)
    /\ UNCHANGED <<now, panelAt, asleep, attached, conn, session, told, signed, done,
                   faults>>

\* An odd answer raises what _discover_payload does not catch: run() logs it, and
\* 15 seconds later all begins again.
FindsKnown == KnownUrl = panelAt /\ Finds(KnownUrl)

\* Mutant: the scan is made only by an agent that knows of no URL.
FindsByScanOnce == Environment = NoAddress /\ cache = NoAddress /\ Finds(panelAt)

\* The scan takes the addresses in a random order, and ends at an odd one.  One that
\* finds nothing changes nothing.
FindsByScan == KnownUrl = NoAddress /\ Finds(panelAt)

FreeSlots == {c \in Connections : ~conn[c].agent /\ conn[c].thread = "over"}

\* connect_once, once the panel is found.
Connects ==
    /\ ~asleep /\ attached = NoConnection
    /\ url # NoAddress /\ url = panelAt
    /\ FreeSlots # {}
    /\ LET c == CHOOSE c \in FreeSlots : TRUE
       IN  /\ attached' = c
           /\ conn' = [conn EXCEPT ![c] = [Free EXCEPT !.agent = TRUE, !.panel = TRUE,
                                                       !.thread = "new"]]
    /\ UNCHANGED <<now, panelAt, asleep, url, cache, session, told, signed, done, faults>>

\* Nothing listens there: the agent will look for the panel again.  (What an odd
\* host answers to _reverse_endpoint is not caught, and the URL kept.)
ConnectFails ==
    /\ ~asleep /\ attached = NoConnection
    /\ url # NoAddress /\ Answer(url) = "none"
    /\ url' = NoAddress
    /\ UNCHANGED <<now, panelAt, asleep, cache, attached, conn, session, told, signed,
                   done, faults>>

-----------------------------------------------------------------------------
(* The agent serves *)

\* The agent reads the request f from its socket and answers it, which does not
\* reach a panel that has closed its end; kept is what is left to be read.
CarriesOut(f, kept) ==
    LET response == HandleRequest(f, Secret, Hostname, now + Skew)
    IN  /\ conn' = [conn EXCEPT ![attached].toAgent = kept,
                                ![attached].toPanel = IF conn[attached].panel
                                                      THEN response ELSE @]
        /\ done' = IF response.status = "ok" /\ f.action \in WriteActions
                   THEN Append(done, f.id) ELSE done
        /\ UNCHANGED <<now, panelAt, asleep, url, cache, attached, session, told, signed,
                       faults>>

\* Mutant: a request whose answer could not be sent is tried again.
ServesUntilAnswered ==
    /\ ~asleep /\ attached # NoConnection
    /\ conn[attached].toAgent # NoFrame
    /\ CarriesOut(conn[attached].toAgent,
                  IF conn[attached].panel THEN NoFrame ELSE conn[attached].toAgent)

\* Whether or not the panel still waits for the answer.
Serves ==
    /\ ~asleep /\ attached # NoConnection
    /\ conn[attached].toAgent # NoFrame
    /\ CarriesOut(conn[attached].toAgent, NoFrame)

\* The panel has closed: a reset may overtake the request before it.
SeesClose ==
    /\ ~asleep /\ attached # NoConnection /\ ~conn[attached].panel
    /\ conn' = [conn EXCEPT ![attached].agent = FALSE, ![attached].toAgent = NoFrame]
    /\ attached' = NoConnection
    /\ UNCHANGED <<now, panelAt, asleep, url, cache, session, told, signed, done, faults>>

-----------------------------------------------------------------------------
(* The panel's thread of one connection *)

\* exchange_on_socket, up to the reading of the response.  The first request on a
\* connection asks who is there and names nobody.
Sends(c, f, id) ==
    conn' = [conn EXCEPT ![c].toAgent = [f EXCEPT !.id = id], ![c].id = id,
                         ![c].since = now,
                         ![c].thread = IF @ = "new" THEN "identifying" ELSE "asking"]

Identifies(c) ==
    /\ conn[c].thread = "new"
    /\ Sends(c, BuildRequest("get", "settings", Absent, Absent, Secret, now), "settings")
    /\ UNCHANGED <<now, panelAt, asleep, url, cache, attached, session, told, signed,
                   done, faults>>

_refresh_status(c) ==
    /\ conn[c].thread = "idle"
    /\ Sends(c, BuildRequest("get", "settings", Absent, Hostname, Secret, now), "settings")
    /\ UNCHANGED <<now, panelAt, asleep, url, cache, attached, session, told, signed,
                   done, faults>>

Unasked == {r \in Requests : told[r] = "unasked"}

\* The parents' requests differ in nothing but their id: any of them is the next.
Asks(c) ==
    /\ conn[c].thread = "idle" /\ session = c
    /\ Unasked # {}
    /\ LET r == CHOOSE r \in Unasked : TRUE
       IN  /\ told' = [told EXCEPT ![r] = "waiting"]
           /\ signed' = Append(signed, r)
           /\ Sends(c, BuildRequest("set", "wake_time", "time", Hostname, Secret, now), r)
    /\ UNCHANGED <<now, panelAt, asleep, url, cache, attached, session, done, faults>>

Waits(c) == conn[c].thread \in {"identifying", "asking"}

Tells(id, what) == IF id \in Requests THEN [told EXCEPT ![id] = what] ELSE told

\* The end of a session: closed and, if registered, forgotten.
Ended(c) == [conn[c] EXCEPT !.panel = FALSE, !.thread = "over", !.id = "none",
                            !.since = 0, !.toPanel = NoFrame]

\* What the response says is believed of the request the thread waits for.
Hears(c) ==
    /\ Waits(c) /\ conn[c].panel
    /\ conn[c].toPanel # NoFrame
    /\ LET response == conn[c].toPanel
           name == IF conn[c].thread = "identifying" THEN Absent ELSE Hostname
           believed == ParseResponse(response, Secret, name, now) = "ok"
           ok == believed /\ response.status = "ok"
           goesOn == IF conn[c].id \in Requests THEN believed ELSE ok
           idle == [conn[c] EXCEPT !.thread = "idle", !.id = "none", !.since = 0,
                                   !.toPanel = NoFrame]
       IN  /\ told' = Tells(conn[c].id, IF ok THEN "ok" ELSE "failed")
           /\ IF ~goesOn
              THEN /\ conn' = [conn EXCEPT ![c] = Ended(c)]
                   /\ session' = IF session = c THEN NoConnection ELSE session
              ELSE IF conn[c].thread = "identifying"
              THEN \* _register closes the session before it.
                   /\ conn' = [d \in Connections |->
                                  IF d = c THEN idle
                                  ELSE IF d = session THEN [conn[d] EXCEPT !.panel = FALSE]
                                  ELSE conn[d]]
                   /\ session' = c
              ELSE /\ conn' = [conn EXCEPT ![c] = idle]
                   /\ UNCHANGED session
    /\ UNCHANGED <<now, panelAt, asleep, url, cache, attached, signed, done, faults>>

Overdue(c) == Waits(c) /\ now - conn[c].since >= ExchangeTimeout

\* The exchange fails.
Ends(c) ==
    /\ told' = Tells(conn[c].id, "failed")
    /\ conn' = [conn EXCEPT ![c] = Ended(c)]
    /\ session' = IF session = c THEN NoConnection ELSE session
    /\ UNCHANGED <<now, panelAt, asleep, url, cache, attached, signed, done, faults>>

\* Mutant: a request that times out does not end its session.
GivesUpAndGoesOn(c) ==
    \/ /\ Waits(c) /\ ~conn[c].agent
       /\ Ends(c)
    \/ /\ conn[c].thread # "over" /\ ~conn[c].panel
       /\ Ends(c)
    \/ /\ conn[c].thread = "asking" /\ Overdue(c) /\ conn[c].toPanel = NoFrame
       /\ told' = Tells(conn[c].id, "failed")
       /\ conn' = [conn EXCEPT ![c].thread = "idle", ![c].id = "none"]
       /\ UNCHANGED <<now, panelAt, asleep, url, cache, attached, session, signed, done,
                      faults>>

\* The time is over, the agent has gone, or the socket was closed under the thread.
GivesUp(c) ==
    /\ conn[c].thread # "over"
    /\ \/ Overdue(c) /\ conn[c].toPanel = NoFrame
       \/ Waits(c) /\ ~conn[c].agent
       \/ ~conn[c].panel
    /\ Ends(c)

-----------------------------------------------------------------------------
(* The world *)

\* A thread that waits gives up before much more time passes.
Tick ==
    /\ now < MaxNow
    /\ \A c \in Connections : ~Overdue(c)
    /\ now' = now + 1
    /\ UNCHANGED <<panelAt, asleep, url, cache, attached, conn, session, told, signed,
                   done, faults>>

\* The panel stops, or starts: with it, all it knew of its connections.
PanelMoves ==
    /\ faults < MaxFaults
    /\ panelAt' \in (Addresses \cup {NoAddress}) \ {panelAt}
    /\ faults' = faults + 1
    /\ conn' = [c \in Connections |-> Ended(c)]
    /\ session' = NoConnection
    /\ told' = [r \in Requests |-> IF told[r] = "waiting" THEN "failed" ELSE told[r]]
    /\ UNCHANGED <<now, asleep, url, cache, attached, signed, done>>

Suspend ==
    /\ ~asleep /\ faults < MaxFaults
    /\ asleep' = TRUE
    /\ faults' = faults + 1
    /\ UNCHANGED <<now, panelAt, url, cache, attached, conn, session, told, signed, done>>

Resume ==
    /\ asleep
    /\ asleep' = FALSE
    /\ UNCHANGED <<now, panelAt, url, cache, attached, conn, session, told, signed, done,
                   faults>>

\* The PC restarts: only the file is left.
AgentRestarts ==
    /\ ~asleep /\ faults < MaxFaults
    /\ faults' = faults + 1
    /\ url' = NoAddress
    /\ attached' = NoConnection
    /\ conn' = [c \in Connections |->
                   IF c = attached THEN [conn[c] EXCEPT !.agent = FALSE, !.toAgent = NoFrame]
                   ELSE conn[c]]
    /\ UNCHANGED <<now, panelAt, asleep, cache, session, told, signed, done>>

Agent == FindsKnown \/ FindsByScan \/ Connects \/ ConnectFails \/ Serves \/ SeesClose

Next ==
    \/ FindsKnown \/ FindsByScan \/ Connects \/ ConnectFails \/ Serves \/ SeesClose
    \/ \E c \in Connections :
          Identifies(c) \/ _refresh_status(c) \/ Asks(c) \/ Hears(c) \/ GivesUp(c)
    \/ Tick \/ PanelMoves \/ Suspend \/ Resume \/ AgentRestarts

Spec == Init /\ [][Next]_vars

\* The threads run, and a suspended PC is woken.  A scan takes a new random order
\* each time, so that one of them comes to the panel before any odd host.
FairSpec ==
    /\ Spec
    /\ WF_vars(Agent)
    /\ WF_vars(FindsByScan)
    /\ WF_vars(Resume)
    /\ \A c \in Connections :
          WF_vars(Identifies(c)) /\ WF_vars(Hears(c)) /\ WF_vars(GivesUp(c))

-----------------------------------------------------------------------------
(* Properties *)

Ids == Requests \cup {"settings"}

RequestFrames ==
    {[f EXCEPT !.id = id] :
        id \in {"settings"}, f \in {BuildRequest("get", "settings", Absent, n, Secret, t) :
                                     n \in {Absent, Hostname}, t \in 0 .. MaxNow}}
    \cup {[f EXCEPT !.id = id] :
        id \in Requests, f \in {BuildRequest("set", "wake_time", "time", Hostname, Secret, t) :
                                t \in 0 .. MaxNow}}

Responses == {HandleRequest(f, Secret, Hostname, t + Skew) :
                  f \in RequestFrames, t \in 0 .. MaxNow}

\* Each variable is of its kind; the agent reads from the one connection it has open.
TypeOK ==
    /\ now \in 0 .. MaxNow
    /\ panelAt \in Addresses \cup {NoAddress}
    /\ asleep \in BOOLEAN
    /\ url \in Addresses \cup {NoAddress} /\ cache \in Addresses \cup {NoAddress}
    /\ attached \in Connections \cup {NoConnection}
    /\ session \in Connections \cup {NoConnection}
    /\ conn \in [Connections ->
          [agent : BOOLEAN, panel : BOOLEAN,
           thread : {"over", "new", "identifying", "idle", "asking"},
           id : Ids \cup {"none"}, since : 0 .. MaxNow,
           toAgent : RequestFrames \cup {NoFrame}, toPanel : Responses \cup {NoFrame}]]
    /\ told \in [Requests -> {"unasked", "waiting", "ok", "failed"}]
    /\ signed \in Seq(Requests) /\ done \in Seq(Requests)
    /\ faults \in 0 .. MaxFaults
    /\ \A c \in Connections : conn[c].agent <=> c = attached

\* What the parents are told was done has been done: a late answer to a request
\* that was given up is never taken for the answer to the next (parse_response
\* compares no request id).
OkMeansCarriedOut ==
    \A r \in Requests : told[r] = "ok" => \E k \in DOMAIN done : done[k] = r

\* Requests are carried out at most once and in the order in which they were sent,
\* also when a PC that was suspended finds one that was given up long ago.
NothingOvertakes ==
    \A j, k \in DOMAIN done : j < k =>
        \E p, q \in DOMAIN signed : p < q /\ signed[p] = done[j] /\ signed[q] = done[k]

Errand == INSTANCE Errands WITH sent <- signed

\* For the parents, connections, clocks, frames, suspensions and restarts are errands: a
\* request is carried out once at most and in order, what they are told of it is
\* told once and never taken back, and ok only when it was carried out.
ImplementsErrands == Errand!Spec

\* The panel and the PC are in contact.
InContact ==
    session # NoConnection /\ session = attached /\ conn[session].panel

\* Wherever the panel comes up again, the agent finds it and the panel knows the PC
\* again (README.md:265: the configured URL, the cached one, then a scan).
PanelIsFoundAgain == <>[](panelAt # NoAddress) => []<>InContact
=============================================================================
