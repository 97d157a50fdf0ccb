--------------------------- MODULE PanelStoreProofs ---------------------------
(***************************************************************************)
(* Proofs about PanelStore, for any number of connections, hosts, addresses*)
(* and statuses: the store keeps its types, and that a PC has answered is  *)
(* not forgotten before its time.                                          *)
(***************************************************************************)
EXTENDS PanelStore, FiniteSetTheorems, WellFoundedInduction, TLAPS

-----------------------------------------------------------------------------
(* The newest row and the most recent contact exist *)

\* A finite set of naturals that is not empty has a greatest element: the one with
\* the fewest elements above it.
LEMMA Greatest ==
    ASSUME NEW S \in SUBSET Nat, IsFiniteSet(S), S # {}
    PROVE  \E m \in S : \A k \in S : k <= m
<1> DEFINE above(n) == {k \in S : n < k}
           T == {above(n) : n \in S}
<1>1. T \subseteq FiniteSubsetsOf(S) /\ T # {}
  <2>1. FiniteSubsetsOf(S) = SUBSET S
    BY FS_FiniteSubsetsOfFinite
  <2>2. T \subseteq SUBSET S /\ T # {}
    OBVIOUS
  <2> QED BY <2>1, <2>2
<1>2. PICK x \in T : \A y \in T : ~ (<<y, x>> \in StrictSubsetOrdering(S))
  <2> HIDE DEF T
  <2> QED BY <1>1, FS_StrictSubsetOrderingWellFounded, WFMin, Zenon
<1>3. PICK m \in S : x = above(m)
  OBVIOUS
<1>4. ASSUME NEW k \in S, m < k PROVE FALSE
  <2>1. above(k) \in T
    OBVIOUS
  <2>2. above(k) \subseteq above(m)
    <3> SUFFICES ASSUME NEW j \in S, k < j PROVE m < j
      OBVIOUS
    <3>1. j \in Nat /\ k \in Nat /\ m \in Nat
      OBVIOUS
    <3> QED BY <1>4, <3>1
  <2>3. k \in above(m) /\ k \notin above(k)
    BY <1>4
  <2>4. <<above(k), above(m)>> \in StrictSubsetOrdering(S)
    BY <2>2, <2>3 DEF StrictSubsetOrdering
  <2> QED BY <1>2, <1>3, <2>1, <2>4
<1> QED BY <1>4

\* The same for the least element.
LEMMA Least ==
    ASSUME NEW S \in SUBSET Nat, IsFiniteSet(S), S # {}
    PROVE  \E m \in S : \A k \in S : m <= k
<1> DEFINE below(n) == {k \in S : k < n}
           T == {below(n) : n \in S}
<1>1. T \subseteq FiniteSubsetsOf(S) /\ T # {}
  <2>1. FiniteSubsetsOf(S) = SUBSET S
    BY FS_FiniteSubsetsOfFinite
  <2>2. T \subseteq SUBSET S /\ T # {}
    OBVIOUS
  <2> QED BY <2>1, <2>2
<1>2. PICK x \in T : \A y \in T : ~ (<<y, x>> \in StrictSubsetOrdering(S))
  <2> HIDE DEF T
  <2> QED BY <1>1, FS_StrictSubsetOrderingWellFounded, WFMin, Zenon
<1>3. PICK m \in S : x = below(m)
  OBVIOUS
<1>4. ASSUME NEW k \in S, k < m PROVE FALSE
  <2>1. below(k) \in T
    OBVIOUS
  <2>2. below(k) \subseteq below(m)
    <3> SUFFICES ASSUME NEW j \in S, j < k PROVE j < m
      OBVIOUS
    <3>1. j \in Nat /\ k \in Nat /\ m \in Nat
      OBVIOUS
    <3> QED BY <1>4, <3>1
  <2>3. k \in below(m) /\ k \notin below(k)
    BY <1>4
  <2>4. <<below(k), below(m)>> \in StrictSubsetOrdering(S)
    BY <2>2, <2>3 DEF StrictSubsetOrdering
  <2> QED BY <1>2, <1>3, <2>1, <2>4
<1> QED BY <1>4

\* Of some rows of the registry there is a newest one.
LEMMA NewestIsOne ==
    ASSUME TypeOK, NEW rows \in SUBSET scans, rows # {}
    PROVE  Newest(rows) \in rows /\ \A q \in rows : q.id <= Newest(rows).id
<1> DEFINE ids == {r.id : r \in rows}
<1>1. ids \subseteq 0 .. lastId /\ ids # {} /\ lastId \in Nat
  BY DEF TypeOK, Row
<1>2. IsFiniteSet(ids) /\ ids \in SUBSET Nat
  <2> HIDE DEF ids
  <2>1. IsFiniteSet(0 .. lastId)
    BY <1>1, FS_Interval
  <2>2. ids \in SUBSET (0 .. lastId)
    BY <1>1
  <2>3. IsFiniteSet(ids)
    BY <2>1, <2>2, FS_Subset
  <2> QED BY <1>1, <2>3
<1>3. PICK m \in ids : \A k \in ids : k <= m
  <2> HIDE DEF ids
  <2> QED BY <1>1, <1>2, Greatest
<1>4. \E r \in rows : \A q \in rows : q.id <= r.id
  BY <1>3
<1> QED BY <1>4 DEF Newest

\* The latest row of a tracked address is one of its rows, and has the greatest number.
LEMMA LatestIsOne ==
    ASSUME TypeOK, NEW i \in Tracked
    PROVE  /\ Latest(i) \in scans /\ Latest(i).ip = i
           /\ \A q \in scans : q.ip = i => q.id <= Latest(i).id
<1> DEFINE rows == {r \in scans : r.ip = i}
<1>1. rows \in SUBSET scans /\ rows # {}
  BY DEF Tracked
<1>2. Latest(i) = Newest(rows)
  BY DEF Latest
<1> HIDE DEF rows
<1>3. Newest(rows) \in rows /\ \A q \in rows : q.id <= Newest(rows).id
  BY <1>1, NewestIsOne
<1> QED BY <1>2, <1>3 DEF rows

-----------------------------------------------------------------------------
(* Types *)

RowsOK ==
    /\ scans \subseteq Row
    /\ \A q, r \in scans : q.id = r.id => q = r
    /\ \A r \in scans : r.id <= lastId
    /\ lastId \in Nat

\* Saving a snapshot keeps the snapshots typed.
LEMMA UpsertTypes ==
    ASSUME TypeOK, NEW c \in Conns, at[c] \in Live
    PROVE  Upsert(snapshots, host[c], ip[c], status[c]) \subseteq Snapshot
<1>1. /\ host[c] \in Hosts /\ ip[c] \in IPs /\ status[c] \in Statuses
      /\ status[c].user \in Users /\ date \in Nat /\ 0 \in Ages
  BY PanelAssumption DEF TypeOK, Users, Ages
<1>2. [user |-> status[c].user, host |-> host[c], date |-> date, ip |-> ip[c],
       info |-> status[c], age |-> 0] \in Snapshot
  BY <1>1 DEF Snapshot
<1> QED BY <1>2 DEF Upsert, TypeOK

\* What recording does to the rows: there is a new one with the next number, or the
\* chosen one is rewritten and keeps its number and address.
LEMMA RecordRows ==
    ASSUME TypeOK, NEW c \in Conns, NEW info \in Infos, host[c] \in Hosts, ip[c] \in IPs,
           RecordPollInspect(c, info)
    PROVE  \/ /\ row[c] = 0 /\ lastId' = lastId + 1
              /\ \E new \in Row : /\ scans' = scans \cup {new}
                                  /\ new.id = lastId + 1 /\ new.ip = ip[c]
                                  /\ new.info = info /\ new.age = 0
           \/ /\ row[c] # 0 /\ lastId' = lastId
              /\ \A q \in scans' : \E r \in scans :
                    /\ q \in Row /\ q.id = r.id /\ q.ip = r.ip
                    /\ q.id # row[c] => q = r
                    /\ q.id = row[c] => q.info = info /\ q.age = 0
              /\ \A r \in scans : \E q \in scans' :
                    /\ q.id = r.id /\ q.ip = r.ip
                    /\ r.id # row[c] => q = r
                    /\ r.id = row[c] => q.info = info /\ q.age = 0
              /\ \A p, q \in scans' : p.id = q.id => p = q
<1>1. /\ scans \subseteq Row /\ lastId \in Nat /\ 0 \in Ages
      /\ \A q, r \in scans : q.id = r.id => q = r
  BY PanelAssumption DEF TypeOK, Ages
<1>2. CASE row[c] = 0
  <2> DEFINE new == [id |-> lastId + 1, ip |-> ip[c], host |-> host[c], info |-> info, age |-> 0]
  <2>1. new \in Row
    BY <1>1 DEF Row
  <2>2. scans' = scans \cup {new} /\ lastId' = lastId + 1
    BY <1>2 DEF RecordPollInspect
  <2>3. new.id = lastId + 1 /\ new.ip = ip[c] /\ new.info = info /\ new.age = 0
    OBVIOUS
  <2> HIDE DEF new
  <2> QED BY <1>2, <2>1, <2>2, <2>3
<1>3. CASE row[c] # 0
  <2> DEFINE new(r) == [r EXCEPT !.host = host[c], !.info = info, !.age = 0]
             upd(r) == IF r.id = row[c] THEN new(r) ELSE r
  <2>1. scans' = {upd(r) : r \in scans} /\ lastId' = lastId
    BY <1>3 DEF RecordPollInspect
  <2>2. ASSUME NEW r \in scans
        PROVE  /\ upd(r) \in Row /\ upd(r).id = r.id /\ upd(r).ip = r.ip
               /\ r.id # row[c] => upd(r) = r
               /\ r.id = row[c] => upd(r).info = info /\ upd(r).age = 0
    BY <1>1 DEF Row
  <2> HIDE DEF upd
  <2>3. \A p, q \in scans' : p.id = q.id => p = q
    BY <1>1, <2>1, <2>2
  <2> QED BY <1>3, <2>1, <2>2, <2>3
<1> QED BY <1>2, <1>3

\* Recording a status or a disconnect keeps the rows typed and numbered apart.
LEMMA RecordTypes ==
    ASSUME TypeOK, NEW c \in Conns, NEW info \in Infos, host[c] \in Hosts, ip[c] \in IPs,
           RecordPollInspect(c, info)
    PROVE  RowsOK'
<1>1. RowsOK
  BY DEF TypeOK, RowsOK
<1>2. CASE row[c] = 0
  <2>1. PICK new \in Row : scans' = scans \cup {new} /\ new.id = lastId + 1 /\ lastId' = lastId + 1
    BY <1>2, RecordRows
  <2>2. \A r \in scans : r.id \in Nat /\ r.id # new.id
    BY <1>1, <2>1 DEF RowsOK, Row
  <2> QED BY <1>1, <2>1, <2>2 DEF RowsOK, Row
<1>3. CASE row[c] # 0
  <2>1. lastId' = lastId /\ \A q \in scans' : q \in Row
    BY <1>3, RecordRows
  <2>2. \A q \in scans' : \E r \in scans : q.id = r.id
    BY <1>3, RecordRows
  <2>3. \A p, q \in scans' : p.id = q.id => p = q
    BY <1>3, RecordRows
  <2> QED BY <1>1, <2>1, <2>2, <2>3 DEF RowsOK
<1> QED BY <1>2, <1>3

\* The row chosen is none, or the latest of the address.
LEMMA ChosenIsLatest ==
    ASSUME TypeOK, NEW i \in IPs, NEW info \in Infos, RowToRewrite(i, info) # 0
    PROVE  /\ RowToRewrite(i, info) \in 0 .. lastId
           /\ \E r \in scans : r.id = RowToRewrite(i, info)
           /\ \A r \in scans : r.id = RowToRewrite(i, info) => r.ip = i
           /\ \A r \in scans : r.ip = i => r.id <= RowToRewrite(i, info)
<1>1. i \in Tracked /\ RowToRewrite(i, info) = Latest(i).id
  BY DEF RowToRewrite
<1>2. /\ Latest(i) \in scans /\ Latest(i).ip = i
      /\ \A q \in scans : q.ip = i => q.id <= Latest(i).id
  BY <1>1, LatestIsOne
<1>3. Latest(i).id \in Nat /\ Latest(i).id <= lastId /\ lastId \in Nat
  BY <1>2 DEF TypeOK, Row
<1>4. \A r \in scans : r.id = Latest(i).id => r = Latest(i)
  BY <1>2 DEF TypeOK
<1> QED BY <1>1, <1>2, <1>3, <1>4

LEMMA ChosenTypes ==
    ASSUME TypeOK, NEW i \in IPs, NEW info \in Infos
    PROVE  RowToRewrite(i, info) \in Nat
<1>1. CASE RowToRewrite(i, info) = 0
  BY <1>1
<1>2. CASE RowToRewrite(i, info) # 0
  BY <1>2, ChosenIsLatest DEF TypeOK
<1> QED BY <1>1, <1>2

\* A session that ends leaves typed values behind.
LEMMA ForgetTypes ==
    ASSUME TypeOK, NEW cs \in SUBSET Conns, Forget(cs)
    PROVE  /\ host' \in [Conns -> Hosts \cup {Nobody}]
           /\ ip' \in [Conns -> IPs \cup {Nobody}]
           /\ since' \in [Conns -> 0 .. MaxIdle]
           /\ row' \in [Conns -> Nat]
           /\ \A c \in Conns \ cs : host'[c] = host[c] /\ ip'[c] = ip[c] /\ row'[c] = row[c]
BY PanelAssumption DEF TypeOK, Forget

\* Who connects is registered, and the host's other addresses are forgotten.
LEMMA ConnectMeans ==
    ASSUME NEW c \in Conns, Connect(c)
    PROVE  /\ \E h \in Hosts, i \in IPs, s \in Statuses :
                 /\ host' = [host EXCEPT ![c] = h]
                 /\ ip' = [ip EXCEPT ![c] = i]
                 /\ status' = [status EXCEPT ![c] = s]
                 /\ byHost' = [byHost EXCEPT ![h] = c]
                 /\ byIP' = [j \in IPs |->
                               IF j = i THEN c
                               ELSE IF byIP[j] # NoConn /\ host[byIP[j]] = h THEN NoConn
                               ELSE byIP[j]]
           /\ at[c] = "none" /\ at' = [at EXCEPT ![c] = "poll"]
           /\ since' = [since EXCEPT ![c] = 0] /\ Race(c)
           /\ row' = row
           /\ UNCHANGED <<scans, lastId, snapshots, pruning, doomed, marked, date, faults, events>>
<1>1. \E h \in Hosts, i \in IPs, s \in Statuses :
         /\ host' = [host EXCEPT ![c] = h]
         /\ ip' = [ip EXCEPT ![c] = i]
         /\ status' = [status EXCEPT ![c] = s]
         /\ byHost' = [byHost EXCEPT ![h] = c]
         /\ byIP' = [j \in IPs |->
                       IF j = i THEN c
                       ELSE IF byIP[j] # NoConn /\ host[byIP[j]] = h THEN NoConn
                       ELSE byIP[j]]
  BY ZenonT(60) DEF Connect
<1>2. Move(c, "none", "poll") /\ since' = [since EXCEPT ![c] = 0] /\ Race(c)
      /\ UNCHANGED <<row, store, pruner, date, bounds>>
  BY Zenon DEF Connect
<1>3. /\ row' = row
      /\ UNCHANGED <<scans, lastId, snapshots, pruning, doomed, marked, date, faults, events>>
  BY <1>2 DEF store, pruner, bounds
<1> QED BY <1>1, <1>2, <1>3, Zenon DEF Move

\* It keeps the types.
LEMMA ConnectTypes ==
    ASSUME TypeOK, NEW c \in Conns, Connect(c)
    PROVE  TypeOK'
<1> USE PanelAssumption DEF Live, Leaving, Reporting, AtRest
<1>1. PICK h \in Hosts, i \in IPs, s \in Statuses :
         /\ host' = [host EXCEPT ![c] = h]
         /\ ip' = [ip EXCEPT ![c] = i]
         /\ status' = [status EXCEPT ![c] = s]
         /\ byHost' = [byHost EXCEPT ![h] = c]
         /\ byIP' = [j \in IPs |->
                       IF j = i THEN c
                       ELSE IF byIP[j] # NoConn /\ host[byIP[j]] = h THEN NoConn
                       ELSE byIP[j]]
  BY ConnectMeans, Zenon
<1>2. /\ host' \in [Conns -> Hosts \cup {Nobody}] /\ ip' \in [Conns -> IPs \cup {Nobody}]
      /\ status' \in [Conns -> Infos]
  BY <1>1 DEF TypeOK, Infos
<1>3. /\ byHost' \in [Hosts -> Conns \cup {NoConn}]
      /\ byIP' \in [IPs -> Conns \cup {NoConn}]
  BY <1>1 DEF TypeOK
<1>4. /\ at' = [at EXCEPT ![c] = "poll"] /\ since' = [since EXCEPT ![c] = 0]
      /\ raced' \subseteq Conns
      /\ UNCHANGED <<row, scans, lastId, snapshots, pruning, doomed, marked, date, faults, events>>
  <2>1. /\ at' = [at EXCEPT ![c] = "poll"] /\ since' = [since EXCEPT ![c] = 0] /\ Race(c)
        /\ row' = row
        /\ UNCHANGED <<scans, lastId, snapshots, pruning, doomed, marked, date, faults, events>>
    BY ConnectMeans, Zenon
  <2> QED BY <2>1 DEF Race, TypeOK
<1>5. \A d \in Conns :
        /\ at'[d] \in Live \cup Leaving => host'[d] \in Hosts /\ ip'[d] \in IPs
        /\ at'[d] \in Live => status'[d] \in Statuses
  BY <1>1, <1>4 DEF TypeOK
<1>6. /\ at' \in [Conns -> {"none", "ended"} \cup Live \cup Leaving]
      /\ since' \in [Conns -> 0 .. MaxIdle]
  BY <1>4 DEF TypeOK
<1> QED BY <1>2, <1>3, <1>4, <1>5, <1>6 DEF TypeOK, Row, Snapshot

\* Every step of a session keeps the types.
LEMMA SessionTypes ==
    ASSUME TypeOK, NEW c \in Conns,
           Connect(c) \/ Report(c) \/ Refresh(c) \/ End(c) \/ Disconnect(c)
    PROVE  TypeOK'
<1> USE PanelAssumption DEF Move, Event, Fault, store, bounds, registry, sessions, pruner,
        Live, Leaving, Reporting, AtRest
<1>1. CASE Connect(c)
  BY <1>1, ConnectTypes
<1>2. CASE SavePollSnapshot(c)
  <2>1. snapshots' \subseteq Snapshot
    BY <1>2, UpsertTypes DEF SavePollSnapshot
  <2> QED BY <1>2, <2>1 DEF SavePollSnapshot, TypeOK, Row
<1>3. CASE ChooseRow(c)
  <2>1. ip[c] \in IPs /\ status[c] \in Infos
    BY <1>3 DEF ChooseRow, TypeOK
  <2>2. row' \in [Conns -> Nat]
    BY <1>3, <2>1, ChosenTypes DEF ChooseRow, TypeOK
  <2> QED BY <1>3, <2>2 DEF ChooseRow, TypeOK, Row, Snapshot
<1>4. CASE RecordStatus(c)
  <2>1. host[c] \in Hosts /\ ip[c] \in IPs /\ status[c] \in Infos
    BY <1>4 DEF RecordStatus, TypeOK
  <2>2. RowsOK'
    BY <1>4, <2>1, RecordTypes DEF RecordStatus
  <2> QED BY <1>4, <2>2 DEF RecordStatus, TypeOK, RowsOK, Snapshot
<1>5. CASE SaveSnapshot(c)
  <2>1. snapshots' \subseteq Snapshot
    BY <1>5, UpsertTypes DEF SaveSnapshot, Recent
  <2> QED BY <1>5, <2>1 DEF SaveSnapshot, TypeOK, Row
<1>6. CASE ReportFails(c)
  BY <1>6 DEF ReportFails, TypeOK, Row, Snapshot
<1>7. CASE Ask(c)
  BY <1>7 DEF Ask, TypeOK, Row, Snapshot
<1>8. CASE Answer(c)
  <2>1. PICK s \in Statuses : /\ status' = [status EXCEPT ![c] = s]
                              /\ IF s = status[c] THEN UNCHANGED bounds ELSE Event
    BY <1>8 DEF Answer
  <2>2. status' \in [Conns -> Infos] /\ faults' \in Nat /\ events' \in Nat
    BY <2>1 DEF TypeOK, Infos
  <2>3. \A d \in Conns : at'[d] \in Live => status'[d] \in Statuses
    BY <1>8, <2>1 DEF Answer, TypeOK
  <2> QED BY <1>8, <2>2, <2>3 DEF Answer, Race, TypeOK, Row, Snapshot
<1>9. CASE End(c)
  <2>0. /\ at[c] \in AtRest /\ status' = [status EXCEPT ![c] = Away]
        /\ byHost' \in [Hosts -> Conns \cup {NoConn}] /\ byIP' \in [IPs -> Conns \cup {NoConn}]
        /\ UNCHANGED <<scans, lastId, snapshots, pruning, doomed, marked, date, faults, events>>
    BY <1>9 DEF End, TypeOK
  <2>1. CASE byHost'[host[c]] = NoConn
    <3>1. at' = [at EXCEPT ![c] = "gone"] /\ UNCHANGED <<host, ip, since, row, raced>>
      BY <1>9, <2>1 DEF End
    <3>2. /\ status' \in [Conns -> Infos]
          /\ at' \in [Conns -> {"none", "ended"} \cup Live \cup Leaving]
      BY <2>0, <3>1 DEF TypeOK, Infos
    <3>3. \A d \in Conns :
            /\ at'[d] \in Live \cup Leaving => host'[d] \in Hosts /\ ip'[d] \in IPs
            /\ at'[d] \in Live => status'[d] \in Statuses
      BY <2>0, <3>1 DEF TypeOK
    <3> QED BY <2>0, <3>1, <3>2, <3>3 DEF TypeOK, Row, Snapshot
  <2>2. CASE byHost'[host[c]] # NoConn
    <3>1. Forget({c}) /\ raced' = raced \ {c}
      BY <1>9, <2>2 DEF End
    <3> QED BY <1>9, <2>2, <3>1, ForgetTypes DEF End, TypeOK, Row, Snapshot, Infos
  <2> QED BY <2>1, <2>2
<1>10. CASE ChooseRowToLeave(c)
  <2>1. ip[c] \in IPs /\ Away \in Infos
    BY <1>10 DEF ChooseRowToLeave, TypeOK, Infos
  <2>2. row' \in [Conns -> Nat]
    BY <1>10, <2>1, ChosenTypes DEF ChooseRowToLeave, TypeOK
  <2> QED BY <1>10, <2>2 DEF ChooseRowToLeave, TypeOK, Row, Snapshot
<1>11. CASE RecordReverseDisconnect(c)
  <2>1. host[c] \in Hosts /\ ip[c] \in IPs /\ Away \in Infos
    BY <1>11 DEF RecordReverseDisconnect, TypeOK, Infos
  <2>2. RowsOK'
    BY <1>11, <2>1, RecordTypes DEF RecordReverseDisconnect
  <2>3. raced' \subseteq Conns
    BY <1>11 DEF RecordReverseDisconnect, Undone, TypeOK
  <2> QED BY <1>11, <2>2, <2>3, ForgetTypes DEF RecordReverseDisconnect, TypeOK, RowsOK, Snapshot
<1>12. CASE DisconnectFails(c)
  BY <1>12, ForgetTypes DEF DisconnectFails, TypeOK, Row, Snapshot
<1> QED BY <1>1, <1>2, <1>3, <1>4, <1>5, <1>6, <1>7, <1>8, <1>9, <1>10, <1>11, <1>12
        DEF Report, ReportOn, Refresh, Disconnect

\* What the pruner's removal does to the rows: those of other addresses are kept.
LEMMA PruneRows ==
    ASSUME PruneStaleTrackedIPs
    PROVE  /\ scans' \subseteq scans
           /\ \A r \in scans : r.ip \notin doomed => r \in scans'
BY DEF PruneStaleTrackedIPs

\* What its mark does to them: they keep their numbers, addresses and ages.
LEMMA MarkRows ==
    ASSUME TypeOK, MarkLatestNotConnected
    PROVE  /\ \A q \in scans' : \E r \in scans :
                q \in Row /\ q.id = r.id /\ q.ip = r.ip /\ q.age = r.age
           /\ \A p, q \in scans' : p.id = q.id => p = q
           /\ \A r \in scans : r.id # marked => r \in scans'
<1> DEFINE away(r) == [r EXCEPT !.info = Away]
           upd(r) == IF r.id = marked THEN away(r) ELSE r
<1>1. scans \subseteq Row /\ \A q, r \in scans : q.id = r.id => q = r
  BY DEF TypeOK
<1>2. scans' = {upd(r) : r \in scans}
  BY DEF MarkLatestNotConnected
<1>3. ASSUME NEW r \in scans
      PROVE  /\ upd(r) \in Row /\ upd(r).id = r.id /\ upd(r).ip = r.ip /\ upd(r).age = r.age
             /\ r.id # marked => upd(r) = r
  BY <1>1 DEF Row, Infos
<1> HIDE DEF upd
<1> QED BY <1>1, <1>2, <1>3

\* The row to mark is one of an address that was read as stale.
LEMMA ChooseMeans ==
    ASSUME TypeOK, ChooseRowToMark
    PROVE  /\ UNCHANGED <<scans, lastId>> /\ marked' \in Nat
           /\ pruning' \in {"idle", "mark"} /\ doomed' \subseteq doomed
           /\ pruning' = "idle" => doomed' = {}
           /\ pruning' = "mark" =>
                doomed' = doomed /\ \E r \in scans : r.id = marked' /\ r.ip \in doomed
<1>1. UNCHANGED <<scans, lastId>>
  BY DEF ChooseRowToMark, store
<1>2. CASE pruning' = "idle" /\ doomed' = {} /\ UNCHANGED marked
  BY <1>1, <1>2 DEF TypeOK
<1>3. CASE /\ pruning' = "mark" /\ UNCHANGED doomed
           /\ \E r \in scans : r.ip \in doomed /\ marked' = r.id
  BY <1>1, <1>3 DEF TypeOK, Row
<1> QED BY <1>2, <1>3 DEF ChooseRowToMark

\* So does pruning.
LEMMA PruneTypes ==
    ASSUME TypeOK, Prune
    PROVE  TypeOK'
<1> USE DEF sessions, registry, store, bounds, Snapshot
<1>1. CASE ReadStale
  <2>1. doomed' \subseteq IPs
    BY <1>1 DEF ReadStale, Tracked, TypeOK, Row
  <2>2. raced' \subseteq Conns /\ pruning' \in {"idle", "delete", "choose", "mark"}
    BY <1>1 DEF ReadStale, TypeOK
  <2> QED BY <1>1, <2>1, <2>2 DEF ReadStale, TypeOK, Row
<1>2. CASE PruneStaleTrackedIPs
  <2>1. RowsOK'
    BY <1>2, PruneRows DEF PruneStaleTrackedIPs, TypeOK, RowsOK
  <2> QED BY <1>2, <2>1 DEF PruneStaleTrackedIPs, TypeOK, RowsOK
<1>3. CASE ChooseRowToMark
  <2>1. /\ pruning' \in {"idle", "delete", "choose", "mark"} /\ doomed' \subseteq IPs
        /\ marked' \in Nat
    BY <1>3, ChooseMeans DEF TypeOK
  <2>2. UNCHANGED <<sessions, store, raced, date, bounds>>
    BY <1>3 DEF ChooseRowToMark
  <2> QED BY <2>1, <2>2 DEF TypeOK, Row
<1>4. CASE MarkLatestNotConnected
  <2>1. RowsOK'
    BY <1>4, MarkRows DEF MarkLatestNotConnected, TypeOK, RowsOK
  <2> QED BY <1>4, <2>1 DEF MarkLatestNotConnected, TypeOK, RowsOK
<1> QED BY <1>1, <1>2, <1>3, <1>4 DEF Prune

\* So do a restart of the panel and the clock.
LEMMA RestartTypes ==
    ASSUME TypeOK, Restart
    PROVE  TypeOK'
<1> DEFINE cs == {c \in Conns : at[c] # "none"}
<1>1. cs \in SUBSET Conns /\ Forget(cs)
  BY DEF Restart
<1>2. /\ host' \in [Conns -> Hosts \cup {Nobody}]
      /\ ip' \in [Conns -> IPs \cup {Nobody}]
      /\ since' \in [Conns -> 0 .. MaxIdle]
      /\ row' \in [Conns -> Nat]
  <2> HIDE DEF cs
  <2> QED BY <1>1, ForgetTypes
<1>3. /\ at' \in [Conns -> {"none", "ended"}]
      /\ status' \in [Conns -> Infos]
      /\ byHost' \in [Hosts -> Conns \cup {NoConn}]
      /\ byIP' \in [IPs -> Conns \cup {NoConn}]
      /\ pruning' = "idle" /\ doomed' = {} /\ marked' = 0 /\ raced' = {}
  BY DEF Restart, Infos
<1>4. /\ UNCHANGED <<scans, lastId, snapshots, date>>
      /\ faults' \in Nat /\ events' \in Nat
  BY DEF Restart, Event, store, TypeOK
<1> QED BY <1>2, <1>3, <1>4 DEF TypeOK, Live, Leaving, Reporting, AtRest, Row, Snapshot

LEMMA TickTypes ==
    ASSUME TypeOK, Tick
    PROVE  TypeOK'
<1> USE PanelAssumption
<1>1. \A a \in Ages : Older(a) \in Ages
  BY DEF Ages, Older
<1>2. RowsOK'
  BY <1>1 DEF Tick, TypeOK, RowsOK, Row
<1>3. snapshots' \subseteq Snapshot
  BY <1>1 DEF Tick, TypeOK, Snapshot
<1>4. since' \in [Conns -> 0 .. MaxIdle]
  BY DEF Tick, TypeOK
<1>5. date' \in Nat /\ faults' \in Nat /\ events' \in Nat
  BY DEF Tick, TypeOK, Event, bounds
<1> QED BY <1>2, <1>3, <1>4, <1>5 DEF Tick, TypeOK, RowsOK, registry, pruner

LEMMA TypeInit == Init => TypeOK
BY PanelAssumption DEF Init, TypeOK, Infos, Live, Leaving, Reporting, AtRest, Row, Snapshot

LEMMA TypeStep == TypeOK /\ [Next]_vars => TypeOK'
<1> SUFFICES ASSUME TypeOK, [Next]_vars PROVE TypeOK'
  OBVIOUS
<1>1. CASE UNCHANGED vars
  BY <1>1 DEF TypeOK, vars, sessions, registry, store, pruner, bounds, Row, Snapshot
<1>2. ASSUME NEW c \in Conns,
             Connect(c) \/ Report(c) \/ Refresh(c) \/ End(c) \/ Disconnect(c)
      PROVE  TypeOK'
  BY <1>2, SessionTypes
<1> QED BY <1>1, <1>2, PruneTypes, RestartTypes, TickTypes DEF Next

\* Every variable of the panel's store and of the sessions that write it keeps its
\* type, and no two rows of the registry have the same number.
THEOREM TypeCorrect == Spec => []TypeOK
BY TypeInit, TypeStep, PTL DEF Spec

-----------------------------------------------------------------------------
(* A contact is remembered *)

\* Of two rows of an address, the one with the greater number is not the older one.
NewerIsYounger ==
    \A q, r \in scans : q.ip = r.ip /\ q.id <= r.id => r.age <= q.age

\* Between its SELECT and its write a session has chosen a row of its address; what
\* has come after that row is as recent as the write will be.
ChosenRows ==
    \A c \in Conns : at[c] \in {"record", "left"} /\ row[c] # 0 =>
        /\ row[c] <= lastId
        /\ \A r \in scans : r.id = row[c] => r.ip = ip[c]
        /\ \A r \in scans : r.ip = ip[c] /\ row[c] < r.id => r.age = 0

PrunerRests == pruning = "idle" => doomed = {}

\* The row that the pruner is about to mark is, if it is still there, of an address
\* that it has read as stale.
MarkedIsDoomed ==
    pruning = "mark" => marked <= lastId /\ \A r \in scans : r.id = marked => r.ip \in doomed

Inv == TypeOK /\ NewerIsYounger /\ ChosenRows /\ PrunerRests /\ MarkedIsDoomed

\* The step of a session.
Step(c) == Connect(c) \/ Report(c) \/ Refresh(c) \/ End(c) \/ Disconnect(c)

\* The step of a session either writes what it has chosen or leaves the registry alone.
LEMMA SessionRecords ==
    ASSUME TypeOK, NEW c \in Conns, Step(c)
    PROVE  /\ UNCHANGED <<pruning, doomed, marked>>
           /\ \/ UNCHANGED <<scans, lastId>>
              \/ /\ at[c] \in {"record", "left"} /\ host[c] \in Hosts /\ ip[c] \in IPs
                 /\ \/ RecordStatus(c) /\ status[c] \in Statuses /\ RecordPollInspect(c, status[c])
                    \/ RecordReverseDisconnect(c) /\ RecordPollInspect(c, Away)
<1> USE DEF Live, Leaving, Reporting, AtRest, Move, store, pruner
<1>1. CASE RecordStatus(c)
  BY <1>1 DEF RecordStatus, TypeOK
<1>2. CASE RecordReverseDisconnect(c)
  BY <1>2 DEF RecordReverseDisconnect, TypeOK
<1>3. CASE ~ RecordStatus(c) /\ ~ RecordReverseDisconnect(c)
  BY <1>3 DEF Step, Report, ReportOn, Refresh, Disconnect, Connect, SavePollSnapshot, ChooseRow,
       SaveSnapshot, ReportFails, Ask, Answer, End, ChooseRowToLeave, DisconnectFails
<1> QED BY <1>1, <1>2, <1>3

\* The step of one session leaves the others where they are.
LEMMA OthersStay ==
    ASSUME TypeOK, NEW c \in Conns, NEW d \in Conns \ {c}, Step(c)
    PROVE  at'[d] = at[d] /\ ip'[d] = ip[d] /\ since'[d] = since[d] /\ row'[d] = row[d]
<1>0. /\ at \in [Conns -> {"none", "ended"} \cup Live \cup Leaving]
      /\ ip \in [Conns -> IPs \cup {Nobody}] /\ since \in [Conns -> 0 .. MaxIdle]
      /\ row \in [Conns -> Nat]
  BY DEF TypeOK
<1>1. CASE Connect(c)
  <2>1. PICK h \in Hosts, i \in IPs, s \in Statuses : ip' = [ip EXCEPT ![c] = i]
    BY <1>1, ConnectMeans
  <2>2. /\ at' = [at EXCEPT ![c] = "poll"] /\ since' = [since EXCEPT ![c] = 0]
        /\ row' = row
    BY <1>1, ConnectMeans, Zenon
  <2> QED BY <1>0, <2>1, <2>2
<1>2. CASE SavePollSnapshot(c) \/ ChooseRow(c) \/ RecordStatus(c)
  BY <1>0, <1>2 DEF SavePollSnapshot, ChooseRow, RecordStatus, Move
<1>3. CASE SaveSnapshot(c) \/ ReportFails(c)
  BY <1>0, <1>3 DEF SaveSnapshot, ReportFails, Move
<1>4. CASE Ask(c) \/ Answer(c)
  BY <1>0, <1>4 DEF Ask, Answer, Move
<1>5. CASE End(c)
  BY <1>0, <1>5 DEF End, Forget
<1>6. CASE ChooseRowToLeave(c) \/ RecordReverseDisconnect(c) \/ DisconnectFails(c)
  BY <1>0, <1>6 DEF ChooseRowToLeave, RecordReverseDisconnect, DisconnectFails, Forget, Move
<1> QED BY <1>1, <1>2, <1>3, <1>4, <1>5, <1>6 DEF Step, Report, ReportOn, Refresh, Disconnect

\* A session that is between its SELECT and its write has just made the one.
LEMMA HowToChoose ==
    ASSUME TypeOK, NEW c \in Conns, Step(c), at'[c] \in {"record", "left"}
    PROVE  /\ UNCHANGED <<scans, lastId, ip>> /\ ip[c] \in IPs
           /\ \E info \in Infos : row'[c] = RowToRewrite(ip[c], info)
<1> USE DEF Live, Leaving, Reporting, AtRest, Move, store
<1>1. CASE ChooseRow(c)
  <2>1. status[c] \in Infos /\ row'[c] = RowToRewrite(ip[c], status[c])
    BY <1>1 DEF ChooseRow, TypeOK
  <2> QED BY <1>1, <2>1 DEF ChooseRow, TypeOK
<1>2. CASE ChooseRowToLeave(c)
  <2>1. Away \in Infos /\ row'[c] = RowToRewrite(ip[c], Away)
    BY <1>2 DEF ChooseRowToLeave, TypeOK, Infos
  <2> QED BY <1>2, <2>1 DEF ChooseRowToLeave, TypeOK
<1>3. CASE ~ ChooseRow(c) /\ ~ ChooseRowToLeave(c)
  BY <1>3 DEF TypeOK, Step, Report, ReportOn, Refresh, Disconnect, Connect, SavePollSnapshot,
       RecordStatus, SaveSnapshot, ReportFails, Ask, Answer, End, RecordReverseDisconnect,
       DisconnectFails
<1> QED BY <1>1, <1>2, <1>3

\* Recording keeps the order of the rows, and what the other sessions have chosen.
LEMMA RecordOrder ==
    ASSUME Inv, NEW c \in Conns, NEW info \in Infos, host[c] \in Hosts, ip[c] \in IPs,
           at[c] \in {"record", "left"}, RecordPollInspect(c, info)
    PROVE  /\ NewerIsYounger'
           /\ \A d \in Conns : at[d] \in {"record", "left"} /\ row[d] # 0 =>
                /\ row[d] <= lastId'
                /\ \A r \in scans' : r.id = row[d] => r.ip = ip[d]
                /\ \A r \in scans' : r.ip = ip[d] /\ row[d] < r.id => r.age = 0
<1>1. /\ \A r \in scans : r.id \in Nat /\ r.id <= lastId /\ r.age \in Nat
      /\ lastId \in Nat /\ \A d \in Conns : row[d] \in Nat
  BY PanelAssumption DEF Inv, TypeOK, Row, Ages
<1>2. CASE row[c] = 0
  <2>1. PICK new \in Row : /\ scans' = scans \cup {new} /\ lastId' = lastId + 1
                           /\ new.id = lastId + 1 /\ new.age = 0
    BY <1>2, RecordRows DEF Inv
  <2>2. NewerIsYounger'
    BY <1>1, <2>1 DEF Inv, NewerIsYounger
  <2>3. ASSUME NEW d \in Conns, at[d] \in {"record", "left"}, row[d] # 0
        PROVE  /\ row[d] <= lastId'
               /\ \A r \in scans' : r.id = row[d] => r.ip = ip[d]
               /\ \A r \in scans' : r.ip = ip[d] /\ row[d] < r.id => r.age = 0
    BY <1>1, <2>1, <2>3 DEF Inv, ChosenRows
  <2> QED BY <2>2, <2>3
<1>3. CASE row[c] # 0
  <2>1. /\ lastId' = lastId
        /\ \A q \in scans' : \E r \in scans :
              /\ q.id = r.id /\ q.ip = r.ip
              /\ q.id # row[c] => q = r
              /\ q.id = row[c] => q.age = 0
    BY <1>3, RecordRows DEF Inv
  <2>2. ASSUME NEW p \in scans', NEW q \in scans', p.ip = q.ip, p.id <= q.id
        PROVE  q.age <= p.age
    <3>1. PICK p0 \in scans : /\ p.id = p0.id /\ p.ip = p0.ip
                              /\ p.id # row[c] => p = p0
                              /\ p.id = row[c] => p.age = 0
      BY <2>1
    <3>2. PICK q0 \in scans : /\ q.id = q0.id /\ q.ip = q0.ip
                              /\ q.id # row[c] => q = q0
                              /\ q.id = row[c] => q.age = 0
      BY <2>1
    <3>3. CASE q.id = row[c]
      BY <1>1, <3>1, <3>2, <3>3
    <3>4. CASE q.id # row[c] /\ p.id = row[c]
      <4>1. p0.ip = ip[c] /\ q0.ip = ip[c] /\ row[c] < q0.id
        <5>1. p0.id = row[c] /\ p0.ip = ip[c]
          BY <1>3, <3>1, <3>4 DEF Inv, ChosenRows
        <5>2. row[c] \in Nat /\ q0.id \in Nat /\ row[c] <= q0.id /\ row[c] # q0.id
          BY <1>1, <2>2, <3>2, <3>4
        <5>3. row[c] < q0.id
          BY <5>2
        <5> QED BY <2>2, <3>1, <3>2, <5>1, <5>3
      <4>2. q0.age = 0
        BY <1>3, <4>1 DEF Inv, ChosenRows
      <4> QED BY <3>1, <3>2, <3>4, <4>2
    <3>5. CASE q.id # row[c] /\ p.id # row[c]
      BY <2>2, <3>1, <3>2, <3>5 DEF Inv, NewerIsYounger
    <3> QED BY <3>3, <3>4, <3>5
  <2>3. ASSUME NEW d \in Conns, at[d] \in {"record", "left"}, row[d] # 0
        PROVE  /\ row[d] <= lastId'
               /\ \A r \in scans' : r.id = row[d] => r.ip = ip[d]
               /\ \A r \in scans' : r.ip = ip[d] /\ row[d] < r.id => r.age = 0
    BY <1>1, <2>1, <2>3 DEF Inv, ChosenRows
  <2> QED BY <2>2, <2>3 DEF NewerIsYounger
<1> QED BY <1>2, <1>3

\* The steps of the sessions keep the row to mark what it is.
LEMMA MarkedKept ==
    ASSUME Inv, NEW c \in Conns, Step(c)
    PROVE  MarkedIsDoomed'
<1>1. UNCHANGED <<pruning, doomed, marked>>
  BY SessionRecords DEF Inv
<1>2. CASE UNCHANGED <<scans, lastId>>
  BY <1>1, <1>2 DEF Inv, MarkedIsDoomed
<1>3. CASE ~ UNCHANGED <<scans, lastId>> /\ pruning = "mark"
  <2>1. PICK info \in Infos : host[c] \in Hosts /\ ip[c] \in IPs /\ RecordPollInspect(c, info)
    BY <1>3, SessionRecords DEF Inv, Infos
  <2>2. marked \in Nat /\ lastId \in Nat /\ marked <= lastId
    BY <1>3 DEF Inv, TypeOK, MarkedIsDoomed
  <2>3. CASE row[c] = 0
    <3>1. PICK new \in Row : scans' = scans \cup {new} /\ lastId' = lastId + 1
                             /\ new.id = lastId + 1
      BY <2>1, <2>3, RecordRows DEF Inv
    <3>2. new.id # marked /\ marked <= lastId'
      BY <2>2, <3>1
    <3> QED BY <1>1, <1>3, <3>1, <3>2 DEF Inv, MarkedIsDoomed
  <2>4. CASE row[c] # 0
    <3>1. /\ lastId' = lastId
          /\ \A q \in scans' : \E r \in scans : q.id = r.id /\ q.ip = r.ip
      BY <2>1, <2>4, RecordRows DEF Inv
    <3> QED BY <1>1, <1>3, <3>1 DEF Inv, MarkedIsDoomed
  <2> QED BY <2>3, <2>4
<1> QED BY <1>1, <1>2, <1>3 DEF MarkedIsDoomed

LEMMA OrderStep == Inv /\ [Next]_vars => Inv'
<1> SUFFICES ASSUME Inv, [Next]_vars PROVE Inv'
  OBVIOUS
<1>1. TypeOK'
  BY TypeStep DEF Inv
<1> SUFFICES NewerIsYounger' /\ ChosenRows' /\ PrunerRests' /\ MarkedIsDoomed'
  BY <1>1 DEF Inv
<1>2. CASE UNCHANGED vars
  BY <1>2 DEF vars, sessions, store, pruner, Inv, NewerIsYounger, ChosenRows, PrunerRests,
              MarkedIsDoomed
<1>3. ASSUME NEW c \in Conns, Step(c)
      PROVE  NewerIsYounger' /\ ChosenRows' /\ PrunerRests' /\ MarkedIsDoomed'
  <2>1. UNCHANGED <<pruning, doomed>>
    BY <1>3, SessionRecords DEF Inv
  <2>2. /\ NewerIsYounger'
        /\ \A d \in Conns : at[d] \in {"record", "left"} /\ row[d] # 0 =>
             /\ row[d] <= lastId'
             /\ \A r \in scans' : r.id = row[d] => r.ip = ip[d]
             /\ \A r \in scans' : r.ip = ip[d] /\ row[d] < r.id => r.age = 0
    <3>1. CASE UNCHANGED <<scans, lastId>>
      BY <3>1 DEF Inv, NewerIsYounger, ChosenRows
    <3>2. CASE ~ UNCHANGED <<scans, lastId>>
      <4>1. PICK info \in Infos : /\ at[c] \in {"record", "left"}
                                  /\ host[c] \in Hosts /\ ip[c] \in IPs
                                  /\ RecordPollInspect(c, info)
        BY <1>3, <3>2, SessionRecords DEF Inv, Infos
      <4> QED BY <4>1, RecordOrder
    <3> QED BY <3>1, <3>2
  <2>3. ASSUME NEW d \in Conns, at'[d] \in {"record", "left"}, row'[d] # 0
        PROVE  /\ row'[d] <= lastId'
               /\ \A r \in scans' : r.id = row'[d] => r.ip = ip'[d]
               /\ \A r \in scans' : r.ip = ip'[d] /\ row'[d] < r.id => r.age = 0
    <3>1. CASE d # c
      BY <1>3, <2>2, <2>3, <3>1, OthersStay DEF Inv
    <3>2. CASE d = c
      <4>1. PICK info \in Infos : row'[c] = RowToRewrite(ip[c], info)
        BY <1>3, <2>3, <3>2, HowToChoose DEF Inv
      <4>2. UNCHANGED <<scans, lastId, ip>> /\ ip[c] \in IPs
        BY <1>3, <2>3, <3>2, HowToChoose DEF Inv
      <4>3. /\ row'[c] \in 0 .. lastId
            /\ \A r \in scans : r.id = row'[c] => r.ip = ip[c]
            /\ \A r \in scans : r.ip = ip[c] => r.id <= row'[c]
        BY <2>3, <3>2, <4>1, <4>2, ChosenIsLatest DEF Inv
      <4>4. \A r \in scans : r.id \in Nat /\ lastId \in Nat
        BY DEF Inv, TypeOK, Row
      <4>5. \A r \in scans : r.ip = ip[c] => ~ (row'[c] < r.id)
        BY <4>3, <4>4
      <4>6. row'[c] <= lastId
        BY <4>3
      <4> QED BY <3>2, <4>2, <4>3, <4>5, <4>6
    <3> QED BY <3>1, <3>2
  <2>4. MarkedIsDoomed'
    BY <1>3, MarkedKept
  <2> QED BY <2>1, <2>2, <2>3, <2>4 DEF ChosenRows, PrunerRests, Inv
<1>4. CASE ReadStale
  BY <1>4 DEF ReadStale, sessions, store, Inv, NewerIsYounger, ChosenRows, PrunerRests,
              MarkedIsDoomed
<1>5. CASE PruneStaleTrackedIPs
  <2>1. /\ UNCHANGED <<at, row, ip, lastId>>
        /\ pruning' = "idle" /\ doomed' = {}
    BY <1>5 DEF PruneStaleTrackedIPs, sessions
  <2>2. \A q \in scans' : q \in scans
    BY <1>5, PruneRows
  <2> QED BY <2>1, <2>2 DEF Inv, NewerIsYounger, ChosenRows, PrunerRests, MarkedIsDoomed
<1>6. CASE Restart
  BY <1>6 DEF Restart, store, Inv, TypeOK, NewerIsYounger, ChosenRows, PrunerRests, MarkedIsDoomed
<1>7. CASE ChooseRowToMark
  <2>1. UNCHANGED <<at, row, ip, scans, lastId>>
    BY <1>7 DEF ChooseRowToMark, sessions, store
  <2>2. /\ pruning' \in {"idle", "mark"} /\ pruning' = "idle" => doomed' = {}
        /\ pruning' = "mark" =>
             doomed' = doomed /\ \E r \in scans : r.id = marked' /\ r.ip \in doomed
    BY <1>7, ChooseMeans DEF Inv
  <2>3. MarkedIsDoomed'
    BY <2>1, <2>2 DEF Inv, TypeOK, MarkedIsDoomed
  <2> QED BY <2>1, <2>2, <2>3 DEF Inv, NewerIsYounger, ChosenRows, PrunerRests
<1>8. CASE MarkLatestNotConnected
  <2>1. /\ UNCHANGED <<at, row, ip, lastId>>
        /\ pruning' = "idle" /\ doomed' = {}
    BY <1>8 DEF MarkLatestNotConnected, sessions
  <2>2. \A q \in scans' : \E r \in scans : q.id = r.id /\ q.ip = r.ip /\ q.age = r.age
    BY <1>8, MarkRows DEF Inv
  <2> QED BY <2>1, <2>2 DEF Inv, NewerIsYounger, ChosenRows, PrunerRests, MarkedIsDoomed
<1>9. CASE Tick
  <2>1. \A a, b \in Ages : a <= b => Older(a) <= Older(b)
    BY PanelAssumption DEF Ages, Older
  <2>2. \A r \in scans : r \in Row
    BY DEF Inv, TypeOK
  <2>3. scans' = {[r EXCEPT !.age = Older(@)] : r \in scans}
    BY <1>9 DEF Tick
  <2>4. ASSUME NEW q \in scans, NEW r \in scans, q.ip = r.ip, q.id <= r.id
        PROVE  Older(r.age) <= Older(q.age)
    <3>1. r.age <= q.age /\ r.age \in Ages /\ q.age \in Ages
      BY <2>2, <2>4 DEF Inv, NewerIsYounger, Row
    <3> QED BY <2>1, <3>1
  <2>5. ASSUME NEW q \in scans', NEW r \in scans', q.ip = r.ip, q.id <= r.id
        PROVE  r.age <= q.age
    <3>1. PICK q0 \in scans : q = [q0 EXCEPT !.age = Older(@)]
      BY <2>3
    <3>2. PICK r0 \in scans : r = [r0 EXCEPT !.age = Older(@)]
      BY <2>3
    <3>3. /\ q.ip = q0.ip /\ q.id = q0.id /\ q.age = Older(q0.age)
          /\ r.ip = r0.ip /\ r.id = r0.id /\ r.age = Older(r0.age)
      BY <2>2, <3>1, <3>2 DEF Row
    <3> QED BY <2>4, <2>5, <3>3
  <2>6. /\ at' = at /\ (\A c \in Conns : at[c] \notin {"record", "left"})
        /\ pruning = "idle" /\ UNCHANGED <<pruning, doomed>>
    BY <1>9 DEF Tick, pruner
  <2> QED BY <2>5, <2>6 DEF NewerIsYounger, ChosenRows, PrunerRests, MarkedIsDoomed, Inv
<1> QED BY <1>2, <1>3, <1>4, <1>5, <1>6, <1>7, <1>8, <1>9 DEF Next, Prune, Step

\* An address with a row that says it answered is not stale while that row is not.
LEMMA RecentIsNotStale ==
    ASSUME Inv, NEW r \in scans, r.info # Away, r.age <= StaleAge
    PROVE  ~ Stale(r.ip)
<1> DEFINE i == r.ip
<1>1. r \in Reachable(i) /\ Reachable(i) \in SUBSET scans
  BY DEF Reachable
<1>2. /\ Newest(Reachable(i)) \in Reachable(i)
      /\ \A q \in Reachable(i) : q.id <= Newest(Reachable(i)).id
  BY <1>1, NewestIsOne DEF Inv
<1>3. Newest(Reachable(i)).age <= r.age
  BY <1>1, <1>2 DEF Inv, NewerIsYounger, Reachable
<1>4. Newest(Reachable(i)).age \in Contacts(i)
  BY <1>1 DEF Contacts
<1>5. Contacts(i) \subseteq 0 .. StaleAge + 1
  <2>1. \A s \in snapshots : s.age \in 0 .. StaleAge + 1
    BY DEF Inv, TypeOK, Snapshot, Ages
  <2>2. Newest(Reachable(i)).age \in 0 .. StaleAge + 1
    BY <1>1, <1>2 DEF Inv, TypeOK, Row, Ages
  <2> QED BY <2>1, <2>2 DEF Contacts
<1>6. IsFiniteSet(Contacts(i)) /\ Contacts(i) \in SUBSET Nat
  <2>1. IsFiniteSet(0 .. StaleAge + 1)
    BY PanelAssumption, FS_Interval
  <2>2. Contacts(i) \in SUBSET (0 .. StaleAge + 1)
    BY <1>5
  <2>3. IsFiniteSet(Contacts(i))
    BY <2>1, <2>2, FS_Subset
  <2> QED BY <1>5, <2>3
<1>7. \E a \in Contacts(i) : \A b \in Contacts(i) : a <= b
  BY <1>4, <1>6, Least
<1>8. LastUpdated(i) \in Contacts(i) /\ LastUpdated(i) <= Newest(Reachable(i)).age
  BY <1>4, <1>7 DEF LastUpdated
<1>9. /\ LastUpdated(i) \in Nat /\ Newest(Reachable(i)).age \in Nat
      /\ r.age \in Nat /\ StaleAge \in Nat
  BY <1>1, <1>2, <1>6, <1>8, PanelAssumption DEF Inv, TypeOK, Row, Ages
<1> QED BY <1>3, <1>4, <1>8, <1>9 DEF Stale, HasContact

\* An address with such a row does not come to count as stale.
LEMMA NotDoomed ==
    ASSUME Inv, Next, NEW r \in scans, r.info # Away, r.age <= StaleAge, r.ip \notin doomed
    PROVE  r.ip \notin doomed'
<1>1. ASSUME NEW c \in Conns, Step(c) PROVE r.ip \notin doomed'
  BY <1>1, SessionRecords DEF Inv
<1>2. CASE ReadStale
  BY <1>2, RecentIsNotStale DEF ReadStale
<1>3. CASE PruneStaleTrackedIPs \/ MarkLatestNotConnected \/ Restart
  BY <1>3 DEF PruneStaleTrackedIPs, MarkLatestNotConnected, Restart
<1>4. CASE ChooseRowToMark
  BY <1>4, ChooseMeans DEF Inv
<1>5. CASE Tick
  BY <1>5 DEF Tick, pruner
<1> QED BY <1>1, <1>2, <1>3, <1>4, <1>5 DEF Next, Prune, Step

\* No step but the clock's makes the contact of an address older, unless it is
\* counted as stale or a disconnect overwrites it.
LEMMA StepRemembers ==
    ASSUME Inv, Next, ~ Tick, NEW r \in scans, r.info # Away, r.ip \notin doomed,
           \A c \in Conns : RecordReverseDisconnect(c) => row[c] # r.id
    PROVE  \E q \in scans' : q.ip = r.ip /\ q.info # Away /\ q.age <= r.age
<1>1. r.age \in Nat /\ r.id \in Nat
  BY PanelAssumption DEF Inv, TypeOK, Row, Ages
<1>2. CASE r \in scans'
  BY <1>1, <1>2
<1>3. ASSUME NEW c \in Conns, Step(c), r \notin scans'
      PROVE  \E q \in scans' : q.ip = r.ip /\ q.info # Away /\ q.age <= r.age
  <2>1. PICK info \in Infos : /\ host[c] \in Hosts /\ ip[c] \in IPs /\ RecordPollInspect(c, info)
                              /\ row[c] = r.id => info # Away
    <3>1. Away \in Infos /\ Statuses \subseteq Infos /\ Away \notin Statuses
      BY PanelAssumption DEF Infos
    <3>2. ~ UNCHANGED <<scans, lastId>>
      BY <1>3
    <3> QED BY <1>3, <3>1, <3>2, SessionRecords DEF Inv
  <2>2. row[c] # 0
    BY <1>3, <2>1, RecordRows DEF Inv
  <2>3. PICK q \in scans' : /\ q.ip = r.ip
                            /\ r.id # row[c] => q = r
                            /\ r.id = row[c] => q.info = info /\ q.age = 0
    BY <2>1, <2>2, RecordRows DEF Inv
  <2> QED BY <1>1, <1>3, <2>1, <2>3
<1>4. CASE PruneStaleTrackedIPs
  BY <1>2, <1>4, PruneRows
<1>5. CASE MarkLatestNotConnected
  <2>1. r.id # marked
    BY <1>5 DEF MarkLatestNotConnected, Inv, MarkedIsDoomed
  <2> QED BY <1>2, <1>5, <2>1, MarkRows DEF Inv
<1>6. CASE ReadStale \/ ChooseRowToMark \/ Restart
  BY <1>2, <1>6 DEF ReadStale, ChooseRowToMark, Restart, store
<1> QED BY <1>2, <1>3, <1>4, <1>5, <1>6 DEF Next, Prune, Step

\* The clock makes each row one step older and leaves the rest of it.
LEMMA TickAges ==
    ASSUME Inv, Tick, NEW r \in scans
    PROVE  \E q \in scans' : q.ip = r.ip /\ q.info = r.info /\ q.age = Older(r.age)
<1> DEFINE q == [r EXCEPT !.age = Older(@)]
<1>1. q \in scans'
  BY DEF Tick
<1>2. r \in Row
  BY DEF Inv, TypeOK
<1>3. q.ip = r.ip /\ q.info = r.info /\ q.age = Older(r.age)
  BY <1>2 DEF Row
<1> HIDE DEF q
<1> QED BY <1>1, <1>3

LEMMA InvInit == Init => Inv
BY TypeInit DEF Init, Inv, NewerIsYounger, ChosenRows, PrunerRests, MarkedIsDoomed

\* An address that has answered within the last twelve hours does not come to count
\* as stale and stays tracked with its contact, whatever is recorded for it or for
\* others and whatever is pruned.  Exempt are an address that the pruner had read as
\* stale before the answer was recorded, which is removed all the same, and one whose
\* row a disconnect overwrites that had chosen it before.
THEOREM ContactAlwaysRemembered == Spec => ContactIsRemembered
<1> DEFINE Kept(r) ==
        /\ r.ip \notin doomed'
        /\ \/ \E q \in scans' : q.ip = r.ip /\ q.info # Away /\ q.age <= Older(r.age)
           \/ \E c \in Conns : at[c] = "left" /\ row[c] = r.id
<1>1. ASSUME Inv, Next, NEW r \in scans, r.info # Away, r.age <= StaleAge, r.ip \notin doomed
      PROVE  Kept(r)
  <2>1. r.age \in Nat /\ Older(r.age) \in Nat /\ r.age <= Older(r.age)
    <3>1. r.age \in 0 .. StaleAge + 1 /\ StaleAge \in Nat
      BY <1>1, PanelAssumption DEF Inv, TypeOK, Row, Ages
    <3> QED BY <3>1 DEF Older
  <2>2. r.ip \notin doomed'
    BY <1>1, NotDoomed
  <2>3. CASE Tick
    <3>1. PICK q \in scans' : q.ip = r.ip /\ q.info = r.info /\ q.age = Older(r.age)
      BY <1>1, <2>3, TickAges
    <3> QED BY <1>1, <2>1, <2>2, <3>1
  <2>4. CASE ~ Tick /\ \A c \in Conns : RecordReverseDisconnect(c) => row[c] # r.id
    <3>1. PICK q \in scans' : q.ip = r.ip /\ q.info # Away /\ q.age <= r.age
      BY <1>1, <2>4, StepRemembers
    <3>2. q.age \in Nat
      BY <1>1, TypeStep, PanelAssumption DEF Inv, TypeOK, Row, Ages
    <3>3. q.age <= Older(r.age)
      BY <2>1, <3>1, <3>2
    <3> QED BY <2>2, <3>1, <3>3
  <2>5. CASE \E c \in Conns : RecordReverseDisconnect(c) /\ row[c] = r.id
    BY <2>2, <2>5 DEF RecordReverseDisconnect, Move
  <2> QED BY <2>3, <2>4, <2>5
<1>2. Inv /\ [Next]_vars =>
         [\A r \in scans : r.info # Away /\ r.age <= StaleAge /\ r.ip \notin doomed => Kept(r)]_vars
  BY <1>1
<1> QED BY <1>2, InvInit, OrderStep, PTL DEF Spec, ContactIsRemembered

-----------------------------------------------------------------------------
(* Who is connected is tracked *)

\* The address of connection c answered at most n ago.
Answered(c, n) == \E r \in scans : r.ip = ip[c] /\ r.info # Away /\ r.age <= n

\* The pruner is not at work while such a session reports, so the row it has chosen is
\* still there; and it has a contact, since the report it is writing began to be
\* written, or since the one before it.
Contacted(c) ==
    /\ at[c] \in Reporting => pruning = "idle"
    /\ at[c] = "record" /\ row[c] # 0 => \E r \in scans : r.id = row[c]
    /\ at[c] = "usage" => Answered(c, since[c])
    /\ at[c] \in AtRest => Answered(c, since[c] + MaxIdle) /\ ip[c] \notin doomed

ContactInv == faults = 0 => \A c \in Conns \ raced : Contacted(c)

\* Who reports a status has a contact at once.
LEMMA ReportIsContact ==
    ASSUME Inv, NEW c \in Conns, RecordStatus(c), Contacted(c)
    PROVE  \E q \in scans' : q.ip = ip'[c] /\ q.info # Away /\ q.age = 0
<1>1. /\ host[c] \in Hosts /\ ip[c] \in IPs /\ status[c] \in Infos /\ status[c] # Away
      /\ ip' = ip /\ at[c] = "record" /\ RecordPollInspect(c, status[c])
  BY PanelAssumption DEF RecordStatus, Inv, TypeOK, Live, Leaving, Reporting
<1>2. CASE row[c] = 0
  BY <1>1, <1>2, RecordRows DEF Inv
<1>3. CASE row[c] # 0
  <2>1. PICK r \in scans : r.id = row[c] /\ r.ip = ip[c]
    BY <1>1, <1>3 DEF Contacted, Inv, ChosenRows
  <2>2. \E q \in scans' : q.ip = r.ip /\ q.info = status[c] /\ q.age = 0
    BY <1>1, <1>3, <2>1, RecordRows DEF Inv
  <2> QED BY <1>1, <2>1, <2>2
<1> QED BY <1>2, <1>3

\* The contact of an address that does not count as stale is kept by every step but
\* the clock's, for the sessions it does not overwrite.
LEMMA ContactKept ==
    ASSUME Inv, Next, ~ Tick, NEW c \in Conns, NEW n \in Nat,
           Answered(c, n), ip[c] \notin doomed, ip'[c] = ip[c], ip[c] \in IPs, c \notin raced'
    PROVE  Answered(c, n)'
<1>1. PICK r \in scans : r.ip = ip[c] /\ r.info # Away /\ r.age <= n
  BY DEF Answered
<1>2. ASSUME NEW d \in Conns, RecordReverseDisconnect(d), row[d] = r.id PROVE FALSE
  <2>1. at[d] = "left" /\ at' = [at EXCEPT ![d] = "ended"] /\ Forget({d})
        /\ raced' = (raced \cup Undone(d)) \ {d} /\ RecordPollInspect(d, Away)
    BY <1>2 DEF RecordReverseDisconnect, Move
  <2>2. c # d
    BY <2>1, PanelAssumption DEF Forget
  <2>3. row[d] # 0
    BY <1>2 DEF Inv, TypeOK, Row
  <2>4. ip[d] = r.ip
    BY <1>2, <2>1, <2>3 DEF Inv, ChosenRows
  <2>5. c \in Undone(d)
    BY <1>1, <1>2, <2>4 DEF Undone
  <2> QED BY <2>1, <2>2, <2>5
<1>3. PICK q \in scans' : q.ip = r.ip /\ q.info # Away /\ q.age <= r.age
  BY <1>1, <1>2, StepRemembers
<1>4. q.age \in Nat /\ r.age \in Nat
  BY TypeStep, PanelAssumption DEF Inv, TypeOK, Row, Ages
<1>5. q.ip = ip'[c] /\ q.age <= n
  BY <1>1, <1>3, <1>4
<1> QED BY <1>3, <1>5 DEF Answered

\* A session that stays where it is keeps what is known of it.
LEMMA StayingKeeps ==
    ASSUME Inv, Next, ~ Tick, NEW c \in Conns, Contacted(c), c \notin raced',
           at'[c] = at[c] \/ (at[c] \in AtRest /\ at'[c] = "refresh"),
           ip'[c] = ip[c], since'[c] = since[c], row'[c] = row[c]
    PROVE  Contacted(c)'
<1> USE DEF Reporting, AtRest
<1>1. /\ since[c] \in Nat /\ since[c] + MaxIdle \in Nat
      /\ since[c] + MaxIdle <= StaleAge /\ since[c] <= StaleAge /\ StaleAge \in Nat
  <2>1. since[c] \in 0 .. MaxIdle /\ MaxIdle \in Nat /\ 2 * MaxIdle <= StaleAge /\ StaleAge \in Nat
    BY PanelAssumption DEF Inv, TypeOK
  <2> QED BY <2>1
<1>2. ip[c] \in IPs \/ at'[c] \notin Reporting \cup AtRest
  BY DEF Inv, TypeOK, Live
<1>3. at'[c] \in Reporting => pruning' = "idle"
  <2>1. SUFFICES ASSUME at'[c] \in Reporting PROVE pruning' = "idle"
    OBVIOUS
  <2>2. at[c] \in Reporting /\ pruning = "idle"
    BY <2>1 DEF Contacted
  <2>3. ~ ReadStale
    BY <2>2 DEF ReadStale
  <2>4. ASSUME NEW d \in Conns, Step(d) PROVE pruning' = "idle"
    BY <2>2, <2>4, SessionRecords DEF Inv
  <2> QED BY <2>2, <2>3, <2>4 DEF Next, Prune, Step, PruneStaleTrackedIPs, ChooseRowToMark,
                                  MarkLatestNotConnected, Restart
<1>4. at'[c] = "record" /\ row'[c] # 0 => \E r \in scans' : r.id = row'[c]
  <2>1. SUFFICES ASSUME at'[c] = "record", row[c] # 0 PROVE \E r \in scans' : r.id = row[c]
    OBVIOUS
  <2>2. PICK r \in scans : r.id = row[c]
    BY <2>1 DEF Contacted
  <2>3. pruning = "idle"
    BY <2>1 DEF Contacted
  <2>4. ASSUME NEW d \in Conns, Step(d) PROVE \E q \in scans' : q.id = row[c]
    <3>1. CASE UNCHANGED <<scans, lastId>>
      BY <2>2, <3>1
    <3>2. CASE ~ UNCHANGED <<scans, lastId>>
      <4>1. PICK info \in Infos : host[d] \in Hosts /\ ip[d] \in IPs /\ RecordPollInspect(d, info)
        BY <2>4, <3>2, SessionRecords DEF Inv, Infos
      <4>2. CASE row[d] = 0
        BY <2>2, <4>1, <4>2 DEF RecordPollInspect
      <4>3. CASE row[d] # 0
        BY <2>2, <4>1, <4>3, RecordRows DEF Inv
      <4> QED BY <4>2, <4>3
    <3> QED BY <3>1, <3>2
  <2>5. CASE ReadStale \/ Restart
    BY <2>2, <2>5 DEF ReadStale, Restart, store
  <2> QED BY <2>3, <2>4, <2>5 DEF Next, Prune, Step, PruneStaleTrackedIPs, ChooseRowToMark,
                                  MarkLatestNotConnected
<1>5. ASSUME at'[c] = "usage" PROVE Answered(c, since[c])'
  <2>1. Answered(c, since[c]) /\ ip[c] \notin doomed /\ ip[c] \in IPs
    BY <1>2, <1>5 DEF Contacted, Inv, PrunerRests
  <2>2. PICK n \in Nat : n = since[c]
    BY <1>1
  <2>3. Answered(c, n)' /\ n = since'[c]
    BY <2>1, <2>2, ContactKept
  <2> QED BY <2>3 DEF Answered
<1>6. ASSUME at'[c] \in AtRest PROVE Answered(c, since[c] + MaxIdle)' /\ ip'[c] \notin doomed'
  <2>1. Answered(c, since[c] + MaxIdle) /\ ip[c] \notin doomed /\ ip[c] \in IPs
    BY <1>2, <1>6 DEF Contacted
  <2>2. PICK n \in Nat : n = since[c] + MaxIdle /\ n <= StaleAge
    BY <1>1
  <2>3. Answered(c, n)' /\ n = since'[c] + MaxIdle
    BY <2>1, <2>2, ContactKept
  <2>4. PICK r \in scans : r.ip = ip[c] /\ r.info # Away /\ r.age <= n
    BY <2>1, <2>2 DEF Answered
  <2>5. r.age <= StaleAge
    BY <1>1, <2>2, <2>4, PanelAssumption DEF Inv, TypeOK, Row, Ages
  <2>6. ip[c] \notin doomed'
    BY <2>1, <2>4, <2>5, NotDoomed
  <2> QED BY <2>3, <2>6 DEF Answered
<1> QED BY <1>3, <1>4, <1>5, <1>6 DEF Contacted

\* Every step of a session takes it somewhere else; the clock takes nobody anywhere.
LEMMA SessionNotTick ==
    ASSUME TypeOK, NEW c \in Conns, Step(c)
    PROVE  ~ Tick
<1>1. at'[c] # at[c]
  BY DEF TypeOK, Step, Report, ReportOn, Refresh, Disconnect, Connect, SavePollSnapshot, ChooseRow,
         RecordStatus, SaveSnapshot, ReportFails, Ask, Answer, End, ChooseRowToLeave,
         RecordReverseDisconnect, DisconnectFails, Move, Reporting, AtRest, Leaving
<1> QED BY <1>1 DEF Tick

\* A session that moves begins a report with the pruner at rest, chooses a row that is
\* there, has reported its status, has finished a report, or has none.
LEMMA MovingKeeps ==
    ASSUME Inv, NEW c \in Conns, c \notin raced => Contacted(c), c \notin raced', faults' = faults,
           Step(c)
    PROVE  Contacted(c)'
<1> USE DEF Reporting, AtRest, Move
<1>0. /\ Next /\ ~ Tick /\ UNCHANGED <<pruning, doomed>>
      /\ since[c] \in 0 .. MaxIdle /\ since'[c] \in 0 .. MaxIdle
      /\ MaxIdle \in Nat /\ faults \in Nat
  <2>1. Next
    BY DEF Next, Step
  <2>2. TypeOK'
    BY <2>1, TypeStep DEF Inv
  <2> QED BY <2>1, <2>2, SessionRecords, SessionNotTick, PanelAssumption DEF Inv, TypeOK
<1>1. CASE Connect(c) \/ Answer(c)
  <2>1. at'[c] = "poll" /\ Race(c)
    BY <1>1 DEF Connect, Answer, Inv, TypeOK
  <2>2. pruning = "idle"
    BY <2>1 DEF Race
  <2> QED BY <1>0, <2>1, <2>2 DEF Contacted
<1>2. CASE SavePollSnapshot(c)
  <2>1. at[c] = "poll" /\ at'[c] = "inspect" /\ raced' = raced
    BY <1>2 DEF SavePollSnapshot, Inv, TypeOK
  <2> QED BY <1>0, <2>1 DEF Contacted
<1>3. CASE ChooseRow(c)
  <2>1. /\ at[c] = "inspect" /\ at'[c] = "record" /\ raced' = raced /\ UNCHANGED scans
        /\ row'[c] = RowToRewrite(ip[c], status[c]) /\ ip[c] \in IPs /\ status[c] \in Infos
    BY <1>3 DEF ChooseRow, store, Inv, TypeOK, Live
  <2>2. row'[c] # 0 => \E r \in scans : r.id = row'[c]
    BY <2>1, ChosenIsLatest DEF Inv
  <2> QED BY <1>0, <2>1, <2>2 DEF Contacted
<1>4. CASE RecordStatus(c)
  <2>1. Contacted(c) /\ at[c] = "record" /\ at'[c] \in {"usage", "loop"} /\ pruning = "idle"
    BY <1>4 DEF RecordStatus, Contacted, Inv, TypeOK
  <2>2. PICK q \in scans' : q.ip = ip'[c] /\ q.info # Away /\ q.age = 0
    BY <1>4, <2>1, ReportIsContact
  <2>3. q.age <= since'[c] /\ q.age <= since'[c] + MaxIdle
    BY <1>0, <2>2
  <2>4. doomed' = {} /\ pruning' = "idle"
    BY <1>0, <2>1 DEF Inv, PrunerRests
  <2> QED BY <2>1, <2>2, <2>3, <2>4 DEF Contacted, Answered
<1>5. CASE SaveSnapshot(c)
  <2>1. /\ at[c] = "usage" /\ at'[c] = "loop" /\ since'[c] = 0 /\ raced' = raced /\ ip' = ip
        /\ scans' = scans
    BY <1>5 DEF SaveSnapshot, Inv, TypeOK
  <2>2. Answered(c, since[c]) /\ doomed' = {}
    BY <1>0, <2>1 DEF Contacted, Inv, PrunerRests
  <2>3. PICK r \in scans : r.ip = ip[c] /\ r.info # Away /\ r.age <= since[c]
    BY <2>2 DEF Answered
  <2>4. r.age \in Nat
    BY PanelAssumption DEF Inv, TypeOK, Row, Ages
  <2>5. r.age <= since'[c] + MaxIdle
    BY <1>0, <2>1, <2>3, <2>4
  <2> QED BY <2>1, <2>2, <2>3, <2>5 DEF Contacted, Answered
<1>6. CASE Ask(c)
  <2>1. /\ at[c] = "loop" /\ at'[c] = "refresh" /\ UNCHANGED <<raced, ip, since, row>>
    BY <1>6 DEF Ask, Inv, TypeOK
  <2> QED BY <1>0, <2>1, StayingKeeps
<1>7. CASE End(c) \/ Disconnect(c)
  <2>1. at'[c] \in {"gone", "left", "ended"}
    BY <1>7 DEF End, Disconnect, ChooseRowToLeave, RecordReverseDisconnect, DisconnectFails, Inv, TypeOK
  <2> QED BY <2>1 DEF Contacted
<1>8. ~ ReportFails(c)
  BY <1>0 DEF ReportFails, Fault
<1> QED BY <1>1, <1>2, <1>3, <1>4, <1>5, <1>6, <1>7, <1>8 DEF Step, Report, ReportOn, Refresh

\* The count of writes that have failed is never taken back.
LEMMA FaultsOnlyGrow ==
    ASSUME [Next]_vars
    PROVE  faults' \in {faults, faults + 1}
<1> USE DEF bounds, Event, Fault
<1>1. CASE UNCHANGED vars
  BY <1>1 DEF vars
<1>2. ASSUME NEW c \in Conns, Connect(c) \/ Report(c)
      PROVE  faults' \in {faults, faults + 1}
  BY <1>2 DEF Connect, Report, ReportOn, SavePollSnapshot, ChooseRow, RecordStatus, SaveSnapshot,
       ReportFails
<1>3. ASSUME NEW c \in Conns, Refresh(c) \/ End(c) \/ Disconnect(c)
      PROVE  faults' \in {faults, faults + 1}
  BY <1>3 DEF Refresh, Ask, Answer, End, Disconnect, ChooseRowToLeave, RecordReverseDisconnect,
       DisconnectFails
<1>4. CASE Prune \/ Restart \/ Tick
  BY <1>4 DEF Prune, ReadStale, PruneStaleTrackedIPs, ChooseRowToMark, MarkLatestNotConnected,
              Restart, Tick
<1> QED BY <1>1, <1>2, <1>3, <1>4 DEF Next

\* A session whose report met the pruner remains one until its next report.
LEMMA RacedStays ==
    ASSUME TypeOK, NEW c \in Conns, NEW d \in Conns \ {c}, Step(d), c \in raced
    PROVE  c \in raced'
BY DEF Step, Report, ReportOn, Refresh, Disconnect, Connect, SavePollSnapshot, ChooseRow,
       RecordStatus, SaveSnapshot, ReportFails, Ask, Answer, End, ChooseRowToLeave,
       RecordReverseDisconnect, DisconnectFails, Race

\* What is known of every session survives each step.
LEMMA ContactStep == Inv /\ ContactInv /\ [Next]_vars => ContactInv'
<1> SUFFICES ASSUME Inv, ContactInv, [Next]_vars, faults' = 0, NEW c \in Conns, c \notin raced'
             PROVE  Contacted(c)'
  BY DEF ContactInv
<1>1. faults = 0 /\ (c \notin raced => Contacted(c))
  <2>1. faults \in Nat /\ faults' \in {faults, faults + 1}
    BY FaultsOnlyGrow DEF Inv, TypeOK
  <2>2. faults = 0
    BY <2>1
  <2> QED BY <2>2 DEF ContactInv
<1>2. CASE UNCHANGED vars
  BY <1>1, <1>2 DEF vars, sessions, store, pruner, Contacted, Answered
<1>3. ASSUME NEW d \in Conns, Step(d)
      PROVE  Contacted(c)'
  <2>1. CASE d = c
    BY <1>1, <1>3, <2>1, MovingKeeps
  <2>2. CASE d # c
    <3>1. at'[c] = at[c] /\ ip'[c] = ip[c] /\ since'[c] = since[c] /\ row'[c] = row[c]
      BY <1>3, <2>2, OthersStay DEF Inv
    <3>2. Next /\ ~ Tick
      BY <1>3, SessionNotTick DEF Next, Inv, Step
    <3>3. c \notin raced
      BY <1>3, <2>2, RacedStays DEF Inv
    <3> QED BY <1>1, <3>1, <3>2, <3>3, StayingKeeps
  <2> QED BY <2>1, <2>2
<1>4. CASE Restart
  BY <1>4 DEF Restart, Inv, TypeOK, Contacted, Reporting, AtRest
<1>5. CASE Tick
  <2>1. /\ at' = at /\ ip' = ip /\ Inv /\ UNCHANGED <<pruning, doomed>>
        /\ at[c] \in Live => since'[c] = since[c] + 1
        /\ at[c] # "record" /\ c \notin raced
    BY <1>5 DEF Tick, pruner
  <2>2. ASSUME NEW n \in Nat, Answered(c, n) PROVE Answered(c, n + 1)'
    <3>1. PICK r \in scans : r.ip = ip[c] /\ r.info # Away /\ r.age <= n
      BY <2>2 DEF Answered
    <3>2. r.age \in Nat /\ Older(r.age) <= n + 1
      BY <2>2, <3>1, PanelAssumption DEF Inv, TypeOK, Row, Ages, Older
    <3>3. PICK q \in scans' : q.ip = r.ip /\ q.info = r.info /\ q.age = Older(r.age)
      BY <1>5, TickAges
    <3> QED BY <2>1, <3>1, <3>2, <3>3 DEF Answered
  <2>3. since[c] \in Nat /\ since[c] + MaxIdle \in Nat /\ MaxIdle \in Nat
    <3>1. since[c] \in 0 .. MaxIdle /\ MaxIdle \in Nat
      BY PanelAssumption DEF Inv, TypeOK
    <3> QED BY <3>1
  <2>4. ASSUME at'[c] = "usage" PROVE Answered(c, since[c])'
    <3>1. Answered(c, since[c]) /\ at[c] \in Live
      BY <1>1, <2>1, <2>4 DEF Contacted, Live, Reporting
    <3>2. PICK n \in Nat : n = since[c]
      BY <2>3
    <3>3. Answered(c, n + 1)' /\ since'[c] = n + 1
      BY <2>1, <2>2, <3>1, <3>2
    <3> QED BY <3>3 DEF Answered
  <2>5. ASSUME at'[c] \in AtRest PROVE Answered(c, since[c] + MaxIdle)' /\ ip'[c] \notin doomed'
    <3>1. Answered(c, since[c] + MaxIdle) /\ ip[c] \notin doomed /\ at[c] \in Live
      BY <1>1, <2>1, <2>5 DEF Contacted, Live
    <3>2. PICK n \in Nat : n = since[c] + MaxIdle
      BY <2>3
    <3>3. since'[c] + MaxIdle = n + 1
      BY <2>1, <2>3, <3>1, <3>2
    <3>4. Answered(c, n + 1)'
      BY <2>2, <3>1, <3>2
    <3> QED BY <2>1, <3>1, <3>3, <3>4 DEF Answered
  <2> QED BY <1>1, <2>1, <2>4, <2>5 DEF Contacted
<1>6. CASE ReadStale
  <2>1. at' = at /\ ip' = ip /\ since' = since /\ row' = row /\ Next /\ ~ Tick /\ c \notin raced
    BY <1>6 DEF ReadStale, sessions, pruner, Next, Prune, Tick
  <2> QED BY <1>1, <2>1, StayingKeeps
<1>7. CASE PruneStaleTrackedIPs \/ ChooseRowToMark \/ MarkLatestNotConnected
  <2>1. at' = at /\ ip' = ip /\ since' = since /\ row' = row /\ Next /\ ~ Tick /\ c \notin raced
    BY <1>7 DEF PruneStaleTrackedIPs, ChooseRowToMark, MarkLatestNotConnected, sessions, Next,
                Prune, Tick
  <2> QED BY <1>1, <2>1, StayingKeeps
<1> QED BY <1>2, <1>3, <1>4, <1>5, <1>6, <1>7 DEF Next, Prune, Step

\* A PC that is connected is tracked, however the reports of sessions, late
\* disconnects and the pruner interleave, as long as its reports can be written and
\* the pruner was not at work during the last of them.
THEOREM ConnectedAlwaysTracked == Spec => []ConnectedIsTracked
<1>1. Init => ContactInv
  BY DEF Init, ContactInv, Contacted, Reporting, AtRest
<1>2. Inv /\ ContactInv => ConnectedIsTracked
  BY DEF ContactInv, Contacted, Answered, ConnectedIsTracked, Tracked
<1> QED BY <1>1, <1>2, InvInit, OrderStep, ContactStep, PTL DEF Spec
-----------------------------------------------------------------------------
(* The registry is the address book of the listener *)

\* A registered session is alive, is its host's, and came from its address.
BookInv ==
    /\ \A h \in Hosts : byHost[h] # NoConn =>
          at[byHost[h]] \in Live /\ host[byHost[h]] = h
    /\ \A i \in IPs : byIP[i] # NoConn => at[byIP[i]] \in Live /\ ip[byIP[i]] = i

Book == [h \in Hosts |-> Where(h)]

\* Whatever else the panel does, no host is found elsewhere.
LEMMA BookKept ==
    ASSUME TypeOK, BookInv, UNCHANGED <<byHost, byIP>>,
           \A c \in Conns : at[c] \in Live =>
               at'[c] \in Live /\ host'[c] = host[c] /\ ip'[c] = ip[c]
    PROVE  BookInv' /\ UNCHANGED Book
<1>1. /\ byHost \in [Hosts -> Conns \cup {NoConn}]
      /\ byIP \in [IPs -> Conns \cup {NoConn}]
  BY DEF TypeOK
<1>2. BookInv'
  BY <1>1 DEF BookInv
<1>3. ASSUME NEW h \in Hosts PROVE Where(h)' = Where(h)
  <2>1. CASE byHost[h] = NoConn
    BY <2>1 DEF Where
  <2>2. CASE byHost[h] # NoConn
    <3>1. byHost[h] \in Conns /\ at[byHost[h]] \in Live
      BY <1>1, <2>2 DEF BookInv
    <3> QED BY <3>1 DEF Where
  <2> QED BY <2>1, <2>2
<1> QED BY <1>2, <1>3 DEF Book

\* A session that registers: its host arrives at its address.
LEMMA ConnectArrives ==
    ASSUME TypeOK, BookInv, NEW c \in Conns, Connect(c)
    PROVE  BookInv' /\ Registry!BookNext
<1>1. PICK h \in Hosts, i \in IPs, s \in Statuses :
         /\ host' = [host EXCEPT ![c] = h]
         /\ ip' = [ip EXCEPT ![c] = i]
         /\ status' = [status EXCEPT ![c] = s]
         /\ byHost' = [byHost EXCEPT ![h] = c]
         /\ byIP' = [j \in IPs |->
                       IF j = i THEN c
                       ELSE IF byIP[j] # NoConn /\ host[byIP[j]] = h THEN NoConn
                       ELSE byIP[j]]
  BY ConnectMeans, Zenon
<1>2. at[c] = "none" /\ at' = [at EXCEPT ![c] = "poll"]
  BY ConnectMeans, Zenon
<1>3. /\ byHost \in [Hosts -> Conns \cup {NoConn}] /\ byIP \in [IPs -> Conns \cup {NoConn}]
      /\ at \in [Conns -> {"none", "ended"} \cup Live \cup Leaving]
      /\ host \in [Conns -> Hosts \cup {Nobody}] /\ ip \in [Conns -> IPs \cup {Nobody}]
      /\ c # NoConn /\ Nobody \notin Hosts \cup IPs /\ NoConn \notin Conns
  BY PanelAssumption DEF TypeOK
<1>4. "none" \notin Live /\ "poll" \in Live
  BY DEF Live, Reporting, AtRest
<1>5. /\ at'[c] \in Live /\ host'[c] = h /\ ip'[c] = i
      /\ \A d \in Conns : at[d] \in Live =>
            d # c /\ at'[d] \in Live /\ host'[d] = host[d] /\ ip'[d] = ip[d]
  BY <1>1, <1>2, <1>3, <1>4
<1>6. BookInv'
  <2>1. ASSUME NEW g \in Hosts, byHost'[g] # NoConn
        PROVE  at'[byHost'[g]] \in Live /\ host'[byHost'[g]] = g
    <3>1. CASE g = h
      BY <1>1, <1>3, <1>5, <3>1
    <3>2. CASE g # h
      BY <1>1, <1>3, <1>5, <2>1, <3>2 DEF BookInv
    <3> QED BY <3>1, <3>2
  <2>2. ASSUME NEW j \in IPs, byIP'[j] # NoConn
        PROVE  at'[byIP'[j]] \in Live /\ ip'[byIP'[j]] = j
    <3>1. CASE j = i
      BY <1>1, <1>5, <3>1
    <3>2. CASE j # i
      <4>1. byIP'[j] = byIP[j]
        BY <1>1, <2>2, <3>2
      <4> QED BY <1>3, <1>5, <2>2, <4>1 DEF BookInv
    <3> QED BY <3>1, <3>2
  <2> QED BY <2>1, <2>2 DEF BookInv
<1>7. ASSUME NEW g \in Hosts
      PROVE  Where(g)' = IF g = h THEN i ELSE IF Where(g) = i THEN Nobody ELSE Where(g)
  <2>1. CASE g = h
    BY <1>1, <1>3, <1>5, <2>1 DEF Where
  <2>2. CASE g # h /\ byHost[g] = NoConn
    <3>1. byHost'[g] = NoConn
      BY <1>1, <1>3, <2>2
    <3> QED BY <1>3, <2>2, <3>1 DEF Where
  <2>3. CASE g # h /\ byHost[g] # NoConn
    <3> DEFINE d == byHost[g]
    <3>1. d \in Conns /\ at[d] \in Live /\ host[d] = g
      BY <1>3, <2>3 DEF BookInv
    <3>2. d # c /\ ip'[d] = ip[d] /\ ip[d] \in IPs
      BY <1>5, <3>1 DEF TypeOK
    <3>3. byHost'[g] = d
      BY <1>1, <1>3, <2>3
    <3>4. CASE ip[d] = i
      <4>1. Where(g)' = Nobody
        BY <1>1, <3>2, <3>3, <3>4 DEF Where
      <4>2. Where(g) \in {i, Nobody}
        BY <3>4 DEF Where
      <4> QED BY <1>3, <2>3, <4>1, <4>2
    <3>5. CASE ip[d] # i
      <4>1. byIP'[ip[d]] = d <=> byIP[ip[d]] = d
        BY <1>1, <2>3, <3>1, <3>2, <3>5
      <4>2. Where(g)' = Where(g) /\ Where(g) # i
        BY <1>3, <2>3, <3>2, <3>3, <3>5, <4>1 DEF Where
      <4> QED BY <2>3, <4>2
    <3> QED BY <3>4, <3>5
  <2> QED BY <2>1, <2>2, <2>3
<1>8. Book' = [g \in Hosts |-> IF g = h THEN i ELSE IF Book[g] = i THEN Nobody ELSE Book[g]]
  BY <1>7 DEF Book
<1> QED BY <1>6, <1>8 DEF Registry!BookNext, Registry!Arrive, Book

\* One that ends: its host departs, unless a newer session has replaced it.
LEMMA EndDeparts ==
    ASSUME TypeOK, BookInv, NEW c \in Conns, End(c)
    PROVE  BookInv' /\ (Registry!BookNext \/ UNCHANGED Book)
<1>1. /\ at[c] \in Live /\ host[c] \in Hosts
      /\ byHost' = [h \in Hosts |-> IF byHost[h] = c THEN NoConn ELSE byHost[h]]
      /\ byIP' = [i \in IPs |-> IF byIP[i] = c THEN NoConn ELSE byIP[i]]
  BY DEF End, TypeOK, Live
<1>2. \A d \in Conns \ {c} : at'[d] = at[d] /\ host'[d] = host[d] /\ ip'[d] = ip[d]
  BY DEF End, Forget, TypeOK
<1>3. /\ byHost \in [Hosts -> Conns \cup {NoConn}] /\ byIP \in [IPs -> Conns \cup {NoConn}]
      /\ c # NoConn
  BY PanelAssumption DEF TypeOK
<1>4. BookInv'
  BY <1>1, <1>2, <1>3 DEF BookInv
<1>5. ASSUME NEW g \in Hosts, byHost[g] # c PROVE Where(g)' = Where(g)
  <2>1. byHost'[g] = byHost[g]
    BY <1>1, <1>5
  <2>2. CASE byHost[g] = NoConn
    BY <2>1, <2>2 DEF Where
  <2>3. CASE byHost[g] # NoConn
    <3>1. /\ byHost[g] \in Conns \ {c} /\ ip'[byHost[g]] = ip[byHost[g]]
          /\ ip[byHost[g]] \in IPs
      BY <1>2, <1>3, <1>5, <2>3 DEF BookInv, TypeOK
    <3>2. byIP'[ip[byHost[g]]] = byHost[g] <=> byIP[ip[byHost[g]]] = byHost[g]
      BY <1>1, <1>5, <2>3, <3>1
    <3> QED BY <2>1, <3>1, <3>2 DEF Where
  <2> QED BY <2>2, <2>3
<1>6. ASSUME NEW g \in Hosts, byHost[g] = c PROVE g = host[c] /\ Where(g)' = Nobody
  <2>1. g = host[c]
    BY <1>3, <1>6 DEF BookInv
  <2>2. byHost'[g] = NoConn
    BY <1>1, <1>6
  <2> QED BY <2>1, <2>2 DEF Where
<1>7. CASE byHost[host[c]] # c
  <2>1. \A g \in Hosts : Where(g)' = Where(g)
    BY <1>5, <1>6, <1>7
  <2> QED BY <1>4, <2>1 DEF Book
<1>8. CASE byHost[host[c]] = c
  <2>1. Book' = [Book EXCEPT ![host[c]] = Nobody]
    BY <1>1, <1>5, <1>6, <1>8 DEF Book
  <2> QED BY <1>1, <1>4, <2>1 DEF Registry!BookNext, Registry!Depart, Book
<1> QED BY <1>7, <1>8

\* Every step changes the registry as the address book may change, or not at all.
LEMMA BookStep ==
    TypeOK /\ BookInv /\ [Next]_vars => BookInv' /\ [Registry!BookNext]_Book
<1> SUFFICES ASSUME TypeOK, BookInv, [Next]_vars
             PROVE  BookInv' /\ (Registry!BookNext \/ UNCHANGED Book)
  OBVIOUS
<1> USE DEF Live, Reporting, AtRest
<1>1. ASSUME NEW c \in Conns, Connect(c) PROVE BookInv' /\ Registry!BookNext
  BY <1>1, ConnectArrives
<1>2. ASSUME NEW c \in Conns, End(c)
      PROVE  BookInv' /\ (Registry!BookNext \/ UNCHANGED Book)
  BY <1>2, EndDeparts
<1>3. ASSUME NEW c \in Conns, Report(c) PROVE BookInv' /\ UNCHANGED Book
  <2>1. UNCHANGED <<byHost, byIP, host, ip>>
    BY <1>3 DEF Report, ReportOn, SavePollSnapshot, ChooseRow, RecordStatus, SaveSnapshot,
                ReportFails, registry
  <2>2. \A d \in Conns : at[d] \in Live => at'[d] \in Live
    BY <1>3 DEF Report, ReportOn, SavePollSnapshot, ChooseRow, RecordStatus, SaveSnapshot,
                ReportFails, Move, TypeOK
  <2> QED BY <2>1, <2>2, BookKept
<1>4. ASSUME NEW c \in Conns, Refresh(c) PROVE BookInv' /\ UNCHANGED Book
  <2>1. UNCHANGED <<byHost, byIP, host, ip>>
    BY <1>4 DEF Refresh, Ask, Answer, registry
  <2>2. \A d \in Conns : at[d] \in Live => at'[d] \in Live
    BY <1>4 DEF Refresh, Ask, Answer, Move, TypeOK
  <2> QED BY <2>1, <2>2, BookKept
<1>5. ASSUME NEW c \in Conns, Disconnect(c) PROVE BookInv' /\ UNCHANGED Book
  <2>1. UNCHANGED <<byHost, byIP>> /\ at[c] \in Leaving
    BY <1>5 DEF Disconnect, ChooseRowToLeave, RecordReverseDisconnect, DisconnectFails,
                registry, Move, Leaving
  <2>2. \A d \in Conns \ {c} : at'[d] = at[d] /\ host'[d] = host[d] /\ ip'[d] = ip[d]
    BY <1>5 DEF Disconnect, ChooseRowToLeave, RecordReverseDisconnect, DisconnectFails,
                Forget, Move, TypeOK
  <2>3. Leaving \cap Live = {}
    BY DEF Leaving
  <2> QED BY <2>1, <2>2, <2>3, BookKept
<1>6. CASE Restart
  <2>1. byHost' = [h \in Hosts |-> NoConn] /\ byIP' = [i \in IPs |-> NoConn]
    BY <1>6 DEF Restart
  <2>2. Book' = [h \in Hosts |-> Nobody]
    BY <2>1 DEF Book, Where
  <2> QED BY <2>1, <2>2 DEF BookInv, Registry!BookNext, Registry!AllDepart, Book
<1>7. CASE Prune \/ Tick \/ UNCHANGED vars
  <2>1. UNCHANGED <<byHost, byIP, host, ip, at>>
    BY <1>7 DEF Prune, ReadStale, PruneStaleTrackedIPs, ChooseRowToMark, MarkLatestNotConnected,
                Tick, vars, sessions, registry
  <2> QED BY <2>1, BookKept
<1> QED BY <1>1, <1>2, <1>3, <1>4, <1>5, <1>6, <1>7 DEF Next

\* What this module takes over from ReverseSessions is what that one implements.
THEOREM RegistryIsAddressBook == Spec => ImplementsAddressBook
<1>1. Init => BookInv /\ Registry!BookInit
  BY DEF Init, BookInv, Registry!BookInit, Where
<1> QED BY <1>1, TypeInit, TypeStep, BookStep, PTL
        DEF Spec, ImplementsAddressBook, Registry!BookSpec, Book
=============================================================================
