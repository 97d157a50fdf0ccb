------------------------------ MODULE PanelStore ------------------------------
(***************************************************************************)
(* What the panel remembers of the PCs (scan_store.py: the registry of     *)
(* tracked addresses; snapshot_store.py: the usage snapshots), how the     *)
(* sessions of the reverse listener write it (web_panel.py), how stale     *)
(* addresses are pruned (agent_poller.py), and what the dashboard and the  *)
(* control page read.                                                      *)
(*                                                                         *)
(* Recording a status is several transactions.  In each of them SQLite's   *)
(* write lock is taken at the first write: what was read before it, the row*)
(* to rewrite and the addresses to prune, may have changed since.  The     *)
(* recordings of two sessions and the pruner interleave between these      *)
(* steps.  A session is what ReverseSessions makes of it: one host has one *)
(* registered session, a replaced one may still report what it has read,   *)
(* and who ends without a successor is recorded as disconnected, later.    *)
(*                                                                         *)
(* Time is kept as the age of each record, up to one step past StaleAge    *)
(* (twelve hours): nothing asks how much older a record is.  A step of time*)
(* is long against a transaction.                                          *)
(***************************************************************************)
EXTENDS Naturals, FiniteSets

CONSTANTS
    Conns,      \* connections, each used once, numbered in the order they come
    Hosts,      \* host names, no two of which differ in case only
    IPs,        \* addresses, as numbers in the order of their text
    Leases,     \* who may connect from where: <<host, address>>
    Statuses,   \* what agents report: [user, locked]
    NoUser,     \* nobody is signed in
    Away,       \* the payload of a PC that cannot be reached
    Nobody, NoConn,
    StaleAge,   \* STALE_TRACKED_HOURS
    MaxIdle,    \* a session reports, or ends, before it has been silent for longer
    RetentionDays,
    MaxEvents   \* bound for TLC: changes of status, failing writes, midnights, restarts

ASSUME PanelAssumption ==
    /\ Conns \subseteq Nat /\ IsFiniteSet(Conns) /\ NoConn \notin Conns
    /\ IPs \subseteq Nat /\ IsFiniteSet(IPs)
    /\ Leases \subseteq Hosts \X IPs
    /\ Nobody \notin Hosts \cup IPs
    /\ \A s \in Statuses : s.locked \in BOOLEAN
    /\ Away \notin Statuses
    /\ {StaleAge, MaxIdle, RetentionDays, MaxEvents} \subseteq Nat
    /\ 0 < MaxIdle /\ 2 * MaxIdle <= StaleAge

VARIABLES
    at,         \* where the thread of a connection is
    host, ip,   \* who connected, and from where
    status,     \* what the agent last answered
    since,      \* the time since a session last finished a report
    row,        \* the row a report or disconnect is to rewrite; 0 for a new scan
    byHost,     \* the session a host has registered
    byIP,       \* the session an address leads to
    scans,      \* scans and scan_pcs: one PC per scan, numbered
    lastId,     \* the number of the latest scan
    snapshots,  \* one per user, host and day
    pruning,    \* what the pruner is about to do
    doomed,     \* the stale addresses it has read
    marked,     \* the row it is to mark as not connected; 0 for none
    raced,      \* history: sessions whose last report met the pruner at work, or was
                \* undone by a disconnect that had read the row before it
    date,       \* today
    faults,     \* writes that have failed
    events      \* what else has happened of what MaxEvents bounds

registry == <<byHost, byIP>>
sessions == <<at, host, ip, status, since, row, registry>>
store == <<scans, lastId, snapshots>>
pruner == <<pruning, doomed, marked>>
bounds == <<faults, events>>
vars == <<sessions, store, pruner, raced, date, bounds>>

Infos == Statuses \cup {Away}
Ages == 0 .. StaleAge + 1
Older(a) == IF a > StaleAge THEN a ELSE a + 1

Reporting == {"poll", "inspect", "record", "usage"}
AtRest == {"loop", "refresh"}
Leaving == {"gone", "left"}
Live == Reporting \cup AtRest

-----------------------------------------------------------------------------
(* Reading the registry *)

Tracked == {r.ip : r \in scans}

\* The badge a payload gets.
DashboardStatusKey(info) ==
    IF info = Away THEN "not_connected" ELSE IF info.locked THEN "locked" ELSE "online"

Newest(rows) == CHOOSE r \in rows : \A q \in rows : q.id <= r.id

\* The latest sighting of an address.
Latest(i) == Newest({r \in scans : r.ip = i})

\* Mutant: looks at the latest sighting only.
ReachableLatestOnly(i) == {r \in {Latest(i)} : r.info # Away}

\* When an address last answered: by the newest row that says it did, or by a
\* snapshot, whichever is more recent.
Reachable(i) == {r \in scans : r.ip = i /\ r.info # Away}
Contacts(i) ==
    {s.age : s \in {s \in snapshots : s.ip = i}}
        \cup (IF Reachable(i) = {} THEN {} ELSE {Newest(Reachable(i)).age})

HasContact(i) == Contacts(i) # {}
LastUpdated(i) == CHOOSE a \in Contacts(i) : \A b \in Contacts(i) : a <= b

Stale(i) == HasContact(i) => LastUpdated(i) > StaleAge

\* The snapshots an address may be shown with: the most recent one; of several
\* within the same second, any.
LatestSnapshots(i) ==
    {s \in snapshots : s.ip = i /\ \A q \in snapshots : q.ip = i => s.age <= q.age}

\* What the dashboard has of a tracked address: the row when it is not connected,
\* else the snapshot laid over it, if there is one.
Entries(i) ==
    LET r == Latest(i)
    IN  IF r.info = Away \/ LatestSnapshots(i) = {}
        THEN {[host |-> r.host, info |-> r.info]}
        ELSE {[host |-> s.host, info |-> s.info] : s \in LatestSnapshots(i)}

Dashboards ==
    {d \in [Tracked -> UNION {Entries(i) : i \in Tracked}] : \A i \in Tracked : d[i] \in Entries(i)}

StatusRank(info) == IF info = Away THEN 1 ELSE 3

\* Of two addresses of a host the one with the later contact is shown, then the
\* one with the better status, then the greater one.
Before(d, i, j) ==
    LET age(k) == IF HasContact(k) THEN LastUpdated(k) ELSE StaleAge + 2
    IN  \/ age(i) < age(j)
        \/ age(i) = age(j) /\ StatusRank(d[i].info) > StatusRank(d[j].info)
        \/ age(i) = age(j) /\ StatusRank(d[i].info) = StatusRank(d[j].info) /\ i > j

\* get_dashboard_pcs: one card per host.
DedupeByHostname(d) ==
    {i \in Tracked : \A j \in Tracked \ {i} : d[j].host = d[i].host => Before(d, i, j)}

\* The addresses a control page is opened for, given a host name: one, or none if
\* the name is unknown.
ScanPCByHostname(h) ==
    {r.ip : r \in {r \in scans : r.host = h /\ \A q \in scans : q.host = h => q.id <= r.id}}

\* What the control page of a PC is filled with: [ip, host, info, live].  The PC that is
\* connected from the address answers for itself.
LivePage(i) ==
    IF byIP[i] = NoConn THEN {}
    ELSE {[ip |-> i, host |-> host[byIP[i]], info |-> status[byIP[i]], live |-> TRUE]}

\* Else the latest snapshot that was ever taken, of the host name the registry has for
\* the address, or if there is none, of the address.
LatestSnapshotsOf(rows) == {s \in rows : \A q \in rows : s.age <= q.age}

LatestPanelSnapshots(i, h) ==
    LET ofHost == {s \in snapshots : s.host = h}
    IN  IF ofHost # {} THEN LatestSnapshotsOf(ofHost)
        ELSE LatestSnapshotsOf({s \in snapshots : s.ip = i})

StalePages(i) ==
    IF i \notin Tracked THEN {}
    ELSE LET entry == Latest(i)
             kept == LatestPanelSnapshots(i, entry.host)
         IN  IF kept = {} THEN {[ip |-> i, host |-> entry.host, info |-> Away, live |-> FALSE]}
             ELSE {[ip |-> i, host |-> s.host, info |-> s.info, live |-> FALSE] : s \in kept}

\* The page a name, or else an address, leads to: {} when it is unknown.
FetchControlPCInfo(target) ==
    UNION {IF LivePage(i) # {} THEN LivePage(i) ELSE StalePages(i) :
              i \in IF target \in IPs THEN {target} ELSE ScanPCByHostname(target)}

\* The same while the page waits for the next poll: from the registry alone.
FetchControlPCInfoCached(target) ==
    UNION {IF i \notin Tracked \/ Latest(i).info = Away THEN StalePages(i)
           ELSE {[ip |-> i, host |-> Latest(i).host, info |-> Latest(i).info, live |-> FALSE]} :
              i \in IF target \in IPs THEN {target} ELSE ScanPCByHostname(target)}

-----------------------------------------------------------------------------
(* Writing it *)

\* record_poll_inspect, its SELECT: the latest row of an address is to be rewritten
\* while its badge stays the same; otherwise there is to be a new scan.
RowToRewrite(i, info) ==
    IF i \in Tracked /\ DashboardStatusKey(Latest(i).info) = DashboardStatusKey(info)
    THEN Latest(i).id ELSE 0

\* Then the row is rewritten, if it is still there, and its scan gets a new time;
\* or the new scan is inserted.
RecordPollInspect(c, info) ==
    IF row[c] = 0
    THEN /\ lastId' = lastId + 1
         /\ scans' = scans \cup {[id |-> lastId + 1, ip |-> ip[c], host |-> host[c],
                                  info |-> info, age |-> 0]}
    ELSE /\ scans' = {IF r.id = row[c]
                      THEN [r EXCEPT !.host = host[c], !.info = info, !.age = 0]
                      ELSE r : r \in scans}
         /\ UNCHANGED lastId

\* One snapshot per user, host and day: the latest.
Upsert(rows, h, i, s) ==
    {r \in rows : <<r.user, r.host, r.date>> # <<s.user, h, date>>}
        \cup {[user |-> s.user, host |-> h, date |-> date, ip |-> i, info |-> s, age |-> 0]}

Recent(rows) == {r \in rows : r.date + RetentionDays >= date}

-----------------------------------------------------------------------------
(* A session: _handle_client, _session_loop, _emit_status,                 *)
(* _emit_disconnect_if_gone, and what web_panel.py records for it          *)

Event == faults + events < MaxEvents /\ events' = events + 1 /\ UNCHANGED faults
Fault == faults + events < MaxEvents /\ faults' = faults + 1 /\ UNCHANGED events

Move(c, from, to) == at[c] = from /\ at' = [at EXCEPT ![c] = to]

\* A report begins, perhaps while the pruner is between reading and writing.
Race(c) == raced' = IF pruning = "idle" THEN raced \ {c} ELSE raced \cup {c}

\* An agent has said who it is; it is registered, and its status reported.
Connect(c) ==
    /\ Move(c, "none", "poll")
    /\ \A d \in Conns : d < c => at[d] # "none"
    /\ \E h \in Hosts, i \in IPs, s \in Statuses :
          /\ <<h, i>> \in Leases
          /\ host' = [host EXCEPT ![c] = h]
          /\ ip' = [ip EXCEPT ![c] = i]
          /\ status' = [status EXCEPT ![c] = s]
          /\ byHost' = [byHost EXCEPT ![h] = c]
          /\ byIP' = [j \in IPs |->
                        IF j = i THEN c
                        ELSE IF byIP[j] # NoConn /\ host[byIP[j]] = h THEN NoConn
                        ELSE byIP[j]]
    /\ since' = [since EXCEPT ![c] = 0]
    /\ Race(c)
    /\ UNCHANGED <<row, store, pruner, date, bounds>>

\* Mutant: with nobody signed in nothing is saved.
SavePollSnapshotOfUsers(c) ==
    /\ Move(c, "poll", "inspect")
    /\ snapshots' = IF status[c].user = NoUser
                    THEN snapshots ELSE Upsert(snapshots, host[c], ip[c], status[c])
    /\ UNCHANGED <<host, ip, status, since, row, registry, scans, lastId, pruner,
                   raced, date, bounds>>

\* _record_reverse_pc_info, first: the snapshot for the dashboard.
SavePollSnapshot(c) ==
    /\ Move(c, "poll", "inspect")
    /\ snapshots' = Upsert(snapshots, host[c], ip[c], status[c])
    /\ UNCHANGED <<host, ip, status, since, row, registry, scans, lastId, pruner,
                   raced, date, bounds>>

\* Second: the registry, read and then written; with nobody signed in that is all.
ChooseRow(c) ==
    /\ Move(c, "inspect", "record")
    /\ row' = [row EXCEPT ![c] = RowToRewrite(ip[c], status[c])]
    /\ UNCHANGED <<host, ip, status, since, registry, store, pruner, raced, date, bounds>>

RecordStatus(c) ==
    /\ at[c] = "record"
    /\ RecordPollInspect(c, status[c])
    /\ row' = [row EXCEPT ![c] = 0]
    /\ IF status[c].user = NoUser
       THEN /\ at' = [at EXCEPT ![c] = "loop"]
            /\ since' = [since EXCEPT ![c] = 0]
       ELSE /\ at' = [at EXCEPT ![c] = "usage"]
            /\ UNCHANGED since
    /\ UNCHANGED <<host, ip, status, registry, snapshots, pruner, raced, date, bounds>>

\* Third: the snapshot of the day's usage, followed by the removal of old ones,
\* which is due now and then.
SaveSnapshot(c) ==
    /\ Move(c, "usage", "loop")
    /\ LET rows == Upsert(snapshots, host[c], ip[c], status[c])
       IN  snapshots' = rows \/ snapshots' = Recent(rows)
    /\ since' = [since EXCEPT ![c] = 0]
    /\ UNCHANGED <<host, ip, status, row, registry, scans, lastId, pruner, raced,
                   date, bounds>>

\* A write fails; the rest of the report is skipped.
ReportFails(c) ==
    /\ at[c] \in Reporting
    /\ Fault
    /\ at' = [at EXCEPT ![c] = "loop"]
    /\ since' = [since EXCEPT ![c] = 0]
    /\ row' = [row EXCEPT ![c] = 0]
    /\ UNCHANGED <<host, ip, status, registry, store, pruner, raced, date>>

\* Nothing was asked for a while: ask the agent.  A replaced session is closed
\* and cannot.
Ask(c) ==
    /\ Move(c, "loop", "refresh")
    /\ byHost[host[c]] = c
    /\ since[c] > 0
    /\ UNCHANGED <<host, ip, status, since, row, registry, store, pruner, raced,
                   date, bounds>>

\* It answers, perhaps something new, and that is reported.  No answer comes from
\* an address that another PC has taken over.
Answer(c) ==
    /\ Move(c, "refresh", "poll")
    /\ byIP[ip[c]] = c \/ byHost[host[c]] # c
    /\ \E s \in Statuses :
          /\ status' = [status EXCEPT ![c] = s]
          /\ IF s = status[c] THEN UNCHANGED bounds ELSE Event
    /\ Race(c)
    /\ UNCHANGED <<host, ip, since, row, registry, store, pruner, date>>

\* Nothing is left of a session that has ended.
Forget(cs) ==
    /\ host' = [c \in Conns |-> IF c \in cs THEN Nobody ELSE host[c]]
    /\ ip' = [c \in Conns |-> IF c \in cs THEN Nobody ELSE ip[c]]
    /\ since' = [c \in Conns |-> IF c \in cs THEN 0 ELSE since[c]]
    /\ row' = [c \in Conns |-> IF c \in cs THEN 0 ELSE row[c]]

\* The session was replaced or fails: it is unregistered, and if the host has no
\* other one then, it is to be recorded as disconnected.
End(c) ==
    /\ at[c] \in AtRest
    /\ byHost' = [h \in Hosts |-> IF byHost[h] = c THEN NoConn ELSE byHost[h]]
    /\ byIP' = [i \in IPs |-> IF byIP[i] = c THEN NoConn ELSE byIP[i]]
    /\ IF byHost'[host[c]] = NoConn
       THEN at' = [at EXCEPT ![c] = "gone"] /\ UNCHANGED <<host, ip, since, row, raced>>
       ELSE at' = [at EXCEPT ![c] = "ended"] /\ Forget({c}) /\ raced' = raced \ {c}
    /\ status' = [status EXCEPT ![c] = Away]
    /\ UNCHANGED <<store, pruner, date, bounds>>

\* _record_reverse_disconnect: read, then write.
ChooseRowToLeave(c) ==
    /\ Move(c, "gone", "left")
    /\ row' = [row EXCEPT ![c] = RowToRewrite(ip[c], Away)]
    /\ UNCHANGED <<host, ip, status, since, registry, store, pruner, raced, date, bounds>>

\* The sessions that reported from the address what is now overwritten.
Undone(c) ==
    {d \in Conns : ip[d] = ip[c] /\ \E r \in scans : r.id = row[c] /\ r.info # Away}

RecordReverseDisconnect(c) ==
    /\ Move(c, "left", "ended")
    /\ RecordPollInspect(c, Away)
    /\ Forget({c})
    /\ raced' = (raced \cup Undone(c)) \ {c}
    /\ UNCHANGED <<status, registry, snapshots, pruner, date, bounds>>

DisconnectFails(c) ==
    /\ at[c] \in Leaving
    /\ at' = [at EXCEPT ![c] = "ended"]
    /\ Fault
    /\ Forget({c})
    /\ raced' = raced \ {c}
    /\ UNCHANGED <<status, registry, store, pruner, date>>

-----------------------------------------------------------------------------
(* The pruner, the panel's process and the clock *)

\* Mutant: the only address is left as it is.
ReadStaleOfMany ==
    LET stale == {i \in Tracked : Stale(i)}
    IN  /\ pruning = "idle"
        /\ stale # {} /\ Cardinality(Tracked) # 1
        /\ doomed' = stale
        /\ pruning' = "delete"
        /\ raced' = raced \cup {c \in Conns : at[c] \in Reporting}
        /\ UNCHANGED <<sessions, store, marked, date, bounds>>

\* prune_stale_tracked_ips reads which addresses have not answered for too long.
ReadStale ==
    LET stale == {i \in Tracked : Stale(i)}
    IN  /\ pruning = "idle"
        /\ stale # {}
        /\ doomed' = stale
        /\ pruning' = IF Cardinality(Tracked) = 1 THEN "choose" ELSE "delete"
        /\ raced' = raced \cup {c \in Conns : at[c] \in Reporting}
        /\ UNCHANGED <<sessions, store, marked, date, bounds>>

\* Mutant: removes whatever has the host name of a stale address.
PruneByHostname ==
    /\ pruning = "delete"
    /\ pruning' = "idle"
    /\ doomed' = {}
    /\ scans' = {r \in scans : \A q \in scans : q.ip \in doomed => r.host # q.host}
    /\ UNCHANGED <<sessions, lastId, snapshots, marked, raced, date, bounds>>

\* Then it removes them.
PruneStaleTrackedIPs ==
    /\ pruning = "delete"
    /\ pruning' = "idle"
    /\ doomed' = {}
    /\ scans' = {r \in scans : r.ip \notin doomed}
    /\ UNCHANGED <<sessions, lastId, snapshots, marked, raced, date, bounds>>

\* _mark_latest_not_connected, its SELECT: if only one address was known, its latest
\* row is to be marked as not connected instead, unless it says so already.
ChooseRowToMark ==
    /\ pruning = "choose"
    /\ LET rows == {r \in scans : r.ip \in doomed /\ r = Latest(r.ip) /\ r.info # Away}
       IN  \/ /\ rows = {}
              /\ pruning' = "idle"
              /\ doomed' = {}
              /\ UNCHANGED marked
           \/ /\ \E r \in rows : marked' = r.id
              /\ pruning' = "mark"
              /\ UNCHANGED doomed
    /\ UNCHANGED <<sessions, store, raced, date, bounds>>

\* Its UPDATE, if that row is still there: what was read of it comes back, marked,
\* also over what has been recorded since.  (The host name inside the payload comes
\* back with it; the model has the one of the row only.)
MarkLatestNotConnected ==
    /\ pruning = "mark"
    /\ pruning' = "idle"
    /\ doomed' = {}
    /\ marked' = 0
    /\ scans' = {IF r.id = marked THEN [r EXCEPT !.info = Away] ELSE r : r \in scans}
    /\ UNCHANGED <<sessions, lastId, snapshots, raced, date, bounds>>

\* The panel dies and is started again: nobody is recorded as disconnected.
Restart ==
    /\ Event
    /\ \E c \in Conns : at[c] \notin {"none", "ended"}
    /\ at' = [c \in Conns |-> IF at[c] = "none" THEN "none" ELSE "ended"]
    /\ byHost' = [h \in Hosts |-> NoConn]
    /\ byIP' = [i \in IPs |-> NoConn]
    /\ Forget({c \in Conns : at[c] # "none"})
    /\ raced' = {}
    /\ status' = [c \in Conns |-> Away]
    /\ pruning' = "idle"
    /\ doomed' = {}
    /\ marked' = 0
    /\ UNCHANGED <<store, date>>

\* Time passes, perhaps past midnight, but no further than a silent session allows.
Tick ==
    /\ pruning = "idle"
    /\ \A c \in Conns : at[c] \notin {"record", "left"}
    /\ \A c \in Conns : at[c] \in Live \cup Leaving => since[c] < MaxIdle
    /\ since' = [c \in Conns |-> IF at[c] \in Live \cup Leaving THEN since[c] + 1 ELSE 0]
    /\ scans' = {[r EXCEPT !.age = Older(@)] : r \in scans}
    /\ snapshots' = {[s EXCEPT !.age = Older(@)] : s \in snapshots}
    /\ \/ UNCHANGED <<date, bounds>>
       \/ date' = date + 1 /\ Event
    /\ UNCHANGED <<at, host, ip, status, row, registry, lastId, pruner, raced>>

-----------------------------------------------------------------------------
(* Specification *)

Init ==
    /\ at = [c \in Conns |-> "none"]
    /\ host = [c \in Conns |-> Nobody]
    /\ ip = [c \in Conns |-> Nobody]
    /\ status = [c \in Conns |-> Away]
    /\ since = [c \in Conns |-> 0]
    /\ row = [c \in Conns |-> 0]
    /\ byHost = [h \in Hosts |-> NoConn]
    /\ byIP = [i \in IPs |-> NoConn]
    /\ scans = {} /\ lastId = 0
    /\ snapshots = {}
    /\ pruning = "idle" /\ doomed = {} /\ marked = 0 /\ raced = {}
    /\ date = 0
    /\ faults = 0 /\ events = 0

ReportOn(c) == SavePollSnapshot(c) \/ ChooseRow(c) \/ RecordStatus(c) \/ SaveSnapshot(c)
Report(c) == ReportOn(c) \/ ReportFails(c)
Disconnect(c) == ChooseRowToLeave(c) \/ RecordReverseDisconnect(c) \/ DisconnectFails(c)
Refresh(c) == Ask(c) \/ Answer(c)
Prune == ReadStale \/ PruneStaleTrackedIPs \/ ChooseRowToMark \/ MarkLatestNotConnected

Next ==
    \/ \E c \in Conns : Connect(c) \/ Report(c) \/ Refresh(c) \/ End(c) \/ Disconnect(c)
    \/ Prune \/ Restart \/ Tick

Spec == Init /\ [][Next]_vars

\* Threads run, exchanges and transactions end, the pruner comes round and the
\* clock goes on, however often that is not possible for a while.  Nothing makes agents
\* connect, statuses change, sessions fail, writes fail or the panel stop.
Fairness ==
    /\ \A c \in Conns :
          /\ WF_vars(ReportOn(c))
          /\ WF_vars(Refresh(c) \/ (at[c] = "refresh" /\ End(c)))
          /\ WF_vars(at[c] = "loop" /\ byHost[host[c]] # c /\ End(c))
          /\ WF_vars(Disconnect(c))
    /\ WF_vars(Prune)
    /\ SF_vars(Tick)

FairSpec == Spec /\ Fairness

-----------------------------------------------------------------------------
(* Properties *)

Row == [id : Nat \ {0}, ip : IPs, host : Hosts, info : Infos, age : Ages]
Users == {s.user : s \in Statuses}
Snapshot == [user : Users, host : Hosts, date : Nat, ip : IPs, info : Statuses, age : Ages]

TypeOK ==
    /\ at \in [Conns -> {"none", "ended"} \cup Live \cup Leaving]
    /\ host \in [Conns -> Hosts \cup {Nobody}]
    /\ ip \in [Conns -> IPs \cup {Nobody}]
    /\ status \in [Conns -> Infos]
    /\ \A c \in Conns :
          /\ at[c] \in Live \cup Leaving => host[c] \in Hosts /\ ip[c] \in IPs
          /\ at[c] \in Live => status[c] \in Statuses
    /\ since \in [Conns -> 0 .. MaxIdle]
    /\ row \in [Conns -> Nat]
    /\ byHost \in [Hosts -> Conns \cup {NoConn}]
    /\ byIP \in [IPs -> Conns \cup {NoConn}]
    /\ scans \subseteq Row
    /\ \A q, r \in scans : q.id = r.id => q = r
    /\ \A r \in scans : r.id <= lastId
    /\ lastId \in Nat
    /\ snapshots \subseteq Snapshot
    /\ pruning \in {"idle", "delete", "choose", "mark"}
    /\ doomed \subseteq IPs
    /\ marked \in Nat
    /\ raced \subseteq Conns
    /\ date \in Nat
    /\ faults \in Nat /\ events \in Nat

\* That an address has answered within the last twelve hours is not forgotten, by
\* whatever is recorded for it or pruned: it does not come to count as stale, and
\* stays tracked with that contact.  Two exceptions: a disconnect is about to
\* overwrite it that has read its row before; or the pruner has read the address as
\* stale, and the answer was recorded after that (doomed).  Such an answer is lost
\* with the row (OnlyTheSilentAreRemoved below).
ContactIsRemembered ==
    [][\A r \in scans : r.info # Away /\ r.age <= StaleAge /\ r.ip \notin doomed =>
          /\ r.ip \notin doomed'
          /\ \/ \E q \in scans' : q.ip = r.ip /\ q.info # Away /\ q.age <= Older(r.age)
             \/ \E c \in Conns : at[c] = "left" /\ row[c] = r.id]_vars

\* A PC that is connected is tracked, whatever is pruned once its last report was
\* recorded, as long as its reports can be written.
ConnectedIsTracked ==
    \A c \in Conns \ raced : faults = 0 /\ at[c] \in AtRest => ip[c] \in Tracked

\* Where a host is found: a newer session of another host may have its address.
Where(h) ==
    IF byHost[h] # NoConn /\ byIP[ip[byHost[h]]] = byHost[h] THEN ip[byHost[h]] ELSE Nobody

Registry == INSTANCE AddressBook WITH where <- [h \in Hosts |-> Where(h)]

\* Without the places between its critical sections, the registry of this module is the
\* address book that ReverseSessions implements.
ImplementsAddressBook == Registry!BookSpec

\* The only session that matters to a host and to an address.
Settled(c) ==
    /\ at[c] \in Live /\ byHost[host[c]] = c
    /\ \A d \in Conns \ {c} : host[d] # host[c] /\ ip[d] # ip[c]

Shows(d, c) == ip[c] \in DedupeByHostname(d) /\ d[ip[c]] = [host |-> host[c], info |-> status[c]]

\* A PC that stays connected comes to be shown at its address with the status it
\* last reported, whoever had that address before, whatever was recorded late.
ConnectedIsShown ==
    \A c \in Conns :
        <>[]Settled(c) => <>[](at[c] \in AtRest => \A d \in Dashboards : Shows(d, c))

Absent(h) == \A c \in Conns : host[c] # h

\* A PC that stays away is not shown as connected for good, even if the panel
\* died before its disconnect was recorded.
AbsentIsNotShown ==
    \A h \in Hosts :
        <>[]Absent(h) =>
            <>[](\A d \in Dashboards : \A i \in DedupeByHostname(d) :
                    d[i].host = h => d[i].info = Away)

(* What the documentation says, and the code does not do *)

\* README.md:544: control pages are keyed by host name so that changes of address do not
\* break bookmarks.  Once all that has happened is recorded, what the page of a name
\* shows is of the PC of that name.
NamedPageIsThatPC ==
    (\A c \in Conns : at[c] \in {"none", "ended"} \/ (Settled(c) /\ at[c] \in AtRest)) =>
        \A h \in Hosts :
            \A page \in FetchControlPCInfo(h) \cup FetchControlPCInfoCached(h) : page.host = h

\* scan_store.py, prune_stale_tracked_ips: who is removed has not been heard of for
\* twelve hours.
OnlyTheSilentAreRemoved ==
    [][\A r \in scans : r.info # Away /\ r.age <= StaleAge =>
          \E q \in scans' : q.ip = r.ip]_vars

\* scan_store.py, prune_stale_tracked_ips: the sole known PC is kept.
SolePCIsKept ==
    [][\A h \in Hosts : scans # {} /\ {r.host : r \in scans} = {h} => scans' # {}]_vars
=============================================================================
