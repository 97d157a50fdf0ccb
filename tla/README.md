# A TLA+ model of kid-pc-monitor

kid-pc-monitor locks a child's Windows PC at bed time and when the daily
allowance is used up, and lets a parent steer that from a web panel. This
directory models the Python program under `src/kid_pc_monitor`, which is the
reference (`README.md:525`), and of its Go port the agent's control loop, which is
the one part that was not ported as it was: it got a mutex. Paths below are
relative to the repository's root; `src/kid_pc_monitor/` is left out of them.

The models are meant for what tests hardly reach: two threads and a clock that
interleave, a process that dies in the middle of a save, a connection that is
replaced while another one ends, a caller that gives up while its request is
taken, a file that was edited by hand or written by an older version. TLC checks
every property on small instances; the TLA+ proof system proves the ones that
matter most for all values of the constants.

## 1. Inventory

### On the kid PC: the agent

| part | state | operations | talks to |
| --- | --- | --- | --- |
| lock policy (`lock_policy.py`) | none: pure functions | is this user monitored, is it curfew, which usage period is this, is the allowance reached, lock or not, minutes until the lock, status text | called by the loop and by every status request |
| control loop (`pc_time_control.py`) | `PCTimeControl`: settings, counters, last tick, last save, warnings sent | `monitor_step`: roll over, count usage, warn, lock, save | the Windows platform, the store |
| requests (`request_dispatcher.py`) | none of its own | `get`, `set`, `clear`, `extend`, `lock`, `unlock`, `get_logs`, `message`, `shutdown` | `PCTimeControl`, on another thread than the loop and without a lock |
| state store (`agent_state.py`) | `daily_settings.json`, `state.json`, a backup and a temporary file of each | load (quarantine, restore from backup, derive), save (back up, write, rename); the conversion of four formats | the file system |
| reverse client (`agent_sync_client.py`, `remote_control_server.py`) | panel URL and the file it is cached in, connection | find the panel, connect, answer requests, reconnect | the panel, the dispatcher |
| protocol (`agent_protocol.py`, `agent_auth.py`) | none | serialise, parse, sign, verify, frame, validate | both ends |
| secrets (`secrets_store.py`, `shared_secret.py`) | the shared secret, encrypted, in one of several directories | store, find, load, delete | the file system |
| log (`PCTimeControl.read_log_tail`) | a log file | read its end | `get_logs` |
| platform (`platforms/`) | the workstation | is the session active, is the screen locked, lock it, show a message | Windows |

### At the parent's: the panel

| part | state | operations | talks to |
| --- | --- | --- | --- |
| reverse listener (`panel_reverse_server.py`, `remote_client.py`) | sessions by host name and by address, a thread and a queue each | accept, shake hands, identify, register, replace, serve, refresh, unregister, stop | agents; web handlers submit requests; status callbacks |
| status recording (`web_panel.py`, `agent_poller.py`) | none of its own | record a status, record a disconnect, prune | the panel's store |
| panel's store (`scan_store.py`, `snapshot_store.py`, `panel_db.py`) | SQLite: tracked addresses, usage snapshots | record, prune, trim, de-duplicate by host name, look up | dashboard, control pages, status recording |
| actions and settings shown (`remote_client.py`, `panel_format.py`) | none | from a click to a request, from an answer to a page | pages |
| password (`web_panel.py`) | a password file, or one that an older panel left | set, change, verify | every page |
| pages (`web_panel.py`, templates) | none of its own | routes, forms | all of the above |

### Between them

The protocol: a signed request and a signed response per exchange, in frames with
a length in front, over the connection that the agent opened. A response has a
request id, but nobody compares it.

### What is hard

- *Interleaving and atomicity.* The agent's loop and its requests share
  `PCTimeControl` and write the same temporary file, without a lock. The Go port
  has a mutex, which is released around every platform call. At the panel a report
  is four transactions, between which other sessions and the pruner come.
- *Time.* Counters belong to a usage period that begins at wake time and goes
  past midnight; ticks are late, machines sleep, clocks are set back, wake times
  are changed while the clock runs.
- *Failure.* Settings that cannot be read, platform calls that fail, saves that
  fail between the two files, one transaction of several.
- *Crash and restart.* At any point of a step, a request or a save; a power loss
  may also tear what was written and not flushed.
- *Lost, late and timed-out answers.* A caller's timer races with the session
  that takes, serves or answers its request; a suspended PC finds a request that
  was given up long ago, and its answer could be taken for that to the next one.
- *Ordering.* Sessions of the same host replace each other; their status and
  disconnect callbacks run outside the registry's lock.
- *Conversions.* What is signed is parsed and serialised again; settings come
  from four formats; the log is read backwards in blocks; seconds are shown as
  minutes.
- *Liveness.* The screen is locked again whatever the user does; a request is
  answered; the dashboard catches up; the agent finds a panel that moved; settings
  reach the disk.

`PROJECT.json` lists the hazards line by line with the properties aimed at them,
and those no property covers, with the reason.

### What makes each part correct

- Lock policy: the code's comparisons agree with what curfew, period and countdown
  mean.
- Agent: what is enforced is what the parent was told; a limit that is reached is
  enforced; usage is neither invented nor given back; counters begin anew at
  wake time and at no other time; warnings go down.
- State store: it behaves as if each file was replaced at once; what is saved is
  loaded as the same; nothing of another user or an earlier period is taken over.
- Link: what the parents are told was done was done, once and in order; contact is
  made again wherever the panel comes up.
- Listener: an action goes to the newest session of the host it is meant for,
  each caller gets the answer to its own request, carried out once; the dashboard
  ends up with the truth.
- Panel's store: that a PC has answered is not forgotten before its time; who
  stays is shown where he is, and who is gone is not shown as there.
- Pages: they tell what the agent enforces. Secrets and password: what was stored
  last is what is found.

## 2. Modules

| module | models | composed with |
| --- | --- | --- |
| `LockPolicy` | `lock_policy.py`, effective allowance of `agent_state.py` | |
| `MCLockPolicy` | reference definitions of the same | `LockPolicy` |
| `AgentThreads` | `pc_time_control.py`, `request_dispatcher.py`, `_write_json` of `agent_state.py`: two threads without a lock | `LockPolicy` |
| `AgentControl` | `go/monitor/monitor.go`, `go/dispatcher/dispatcher.go`, `go/state/state.go`: the same with a mutex, faults and set-backs of the clock | `LockPolicy` |
| `AtomicStore` | what the store promises: the abstract store | |
| `StateStore` | load and save of `agent_state.py`, file operation by file operation | refines `AtomicStore` |
| `StateFiles` | the conversions of `agent_state.py` | `LockPolicy` |
| `Protocol` | validation and answers: `agent_protocol.py`, `agent_auth.py`, `request_dispatcher.py` | |
| `Errands` | what parents may rely on when they ask a PC for something | |
| `AgentLink` | `agent_sync_client.py`, `remote_control_server.py`, the panel's exchange | `Protocol`; refines `Errands` |
| `Kdl` | texts of `agent_protocol.py` | |
| `Frames` | `frame_body` and `read_frame` of `agent_protocol.py` | |
| `AgentLog` | `read_log_tail`, `get_logs` | `Kdl` |
| `PanelForms` | `remote_client.py` (actions, settings), `request_dispatcher.py`, status of `pc_time_control.py` | `LockPolicy`, twice: in minutes and in seconds |
| `AddressBook` | what the registry of sessions promises: under which address each PC is found | |
| `RemoteCalls` | what the listener promises the web server's threads: the address book and their calls | `AddressBook` |
| `ReverseSessions` | `panel_reverse_server.py` | refines `RemoteCalls` |
| `PanelStore` | `scan_store.py`, `snapshot_store.py`, `web_panel.py` (recording, control pages), `agent_poller.py` | takes over what `ReverseSessions` makes of a session; refines `AddressBook` |
| `Secrets` | `secrets_store.py`, `shared_secret.py` | |
| `PanelPassword` | the password file of `web_panel.py` | |
| `MCValues` | inputs, samples and properties of the functions on values | `MCLockPolicy`, `StateFiles`, `PanelForms`, `Secrets`, `PanelPassword` |
| `MCFunctions` | the same of the functions on texts and streams; one run of both | `MCValues`, `AgentLog`, `Frames` |
| `MCAgentThreads`, `MCPanelStore`, `MCReverseSessions` | installed settings, statuses and leases, symmetry | |
| `FunctionProofs`, `TextProofs`, `AgentThreadsProofs`, `AgentControlProofs`, `StateStoreProofs`, `AgentLinkProofs`, `ReverseSessionsProofs`, `PanelStoreProofs` | theorems | |

### LockPolicy

Times are minutes since some midnight, a day has `DayLength` of them. The
operators have the names of the functions. Seconds are left out: every decision
compares minutes; only the countdown of the code keeps a fraction, and
`PanelForms` takes the module at the scale of seconds for it. Texts are
abstracted to their reason.

### AgentThreads

A step is what a thread does between two places where the other may run and it
matters: a clock, file or platform call, and a test that is acted upon later.

| state | code |
| --- | --- |
| `daily`, `runtime`, `lastTickAt`, `sincePersist`, `warningsSent`, `warningsDate` | attributes of `PCTimeControl` |
| `loop`, `request` | where each thread is; `frame` its local variables |
| `saver` | where each thread is in `_write_json`, and what it writes |
| `main`, `bak`, `tmp`, `saved` | `daily_settings.json`, its backup and temporary file, and `state.json` |
| `runtime.since` | history, read by properties only |

`Tick`, `Reset`, `AskSession`, `Credit`, `CheckAndSendWarnings`,
`EnforceLockWindow`, `LockPC` and `PersistIfDue` are one `monitor_step` in order:
the test for a rollover and the reset are two steps, because a request may come
between. A request is one of `SetDailyAllowance` ... `ClearManualLock`, then,
where the code does more, `ManualLockPC` or `NewPeriod`, then `SaveRequest`. Both
threads then walk through `KeepBackup`, `OpenTemporary`, `WriteTemporary` and
`Replace`. Files behave as on Windows: an open file is not replaced, so a
save may fail (`ReplaceFails`), and two writers of one temporary file may leave a
mixture. The process may be killed anywhere.

Left out: `state.json` is written at once (its counters are restored or begun
anew by the same rules, and `StateStore` has both files); a load that fails and
the exempt user, which are in `AgentControl`; the text of popups; what changes
nothing (`get`, `get_logs`, `message`). The user may lock and unlock the screen
at any time.

### AgentControl

The loop and the dispatcher of the Go port: one step is what a goroutine does from
one place where the other one, or the clock, can move to the next.

| state | code |
| --- | --- |
| `daily`, `runtime`, `loadFail`, `lastTickAt`, `lastPersistAt`, `warningsSent`, `warningsDate` | fields of `Control` |
| `disk` | the two files as `Load` would read them (`StateStore` opens them up) |
| `loop` | where the loop's goroutine is: asleep, waiting for a platform call (mutex released), or between two phases (mutex held) |
| `frame` | its local variables across a platform call |
| `disp` | where the dispatcher is: idle, at a second call, at its save |
| `expected` | history, read by properties only: what the parent was told is in force, what of it the last save wrote, and whether a crash has left open which of the two is on disk |
| `extended`, `runtime.since` | history, read by properties only |

`TickBegin`, `TickCredit`, `CheckWarnings`, `PopupReturns`, `Enforce`,
`QueryReturns`, `LockReturns` and `PersistIfDue` are one `Step` in order; a
request is one of `SetDailyAllowance` ... `ClearManualLock`, then, where the code
makes a second call, `ClearWarnings` or `ManualLockReturns`, then `SaveAndReply`,
which answers ok whatever became of the save. `Start` and `Crash` are the
process; the clock ticks or is set back, and the user locks and unlocks the
screen. Any load, save or platform call may fail (`Fault`). The time unit is
both the second of the tick and the minute of the policy, so that a day of four
units has ticks, warnings, allowances and curfews in it; the same holds of
`AgentThreads`.

### StateStore, AtomicStore and StateFiles

A content is a version: `Missing`, `Garbage`, 0 for what is derived when there is
nothing to load, n for the n-th save. `pc` walks through the load (each file, and
of each the file, then its backup, with quarantine and restore) and through the
save (check, back up, write the temporary file, rename). `dirty` is what the
operating system has not put on the disk: a power loss tears any subset of it.
`Init` lets anything have happened to the files before. `AtomicStore` is the
promise: a load gives back what was last written, a write replaces a file at
once, and nothing is written until a load has succeeded.

`StateFiles` has the contents: a JSON value is a kind with what a conversion can
tell of it (a number in thousandths, so that 1.5 is no whole number; a text that
is a number, a time, an instant, a date, a boolean word, a name, or none of
these). A conversion returns a set with at most one element, none where the code
raises `ValueError`. `DeriveDaily` is what happens when there are no settings to
load: the version 0 file, else the installer's files in the program data
directory, else defaults.

### Protocol and AgentLink

`Protocol` has the order in which a request is checked (signature, version, time,
name, action, variable, value), as the first failure of a sequence, and what the
panel makes of a response. `AgentLink` puts it between an agent, the panel's
thread of each connection and two buffers.

| state | code |
| --- | --- |
| `url`, `cache` | `panel_url` of the client and the file it is cached in |
| `attached` | the agent's socket |
| `conn` | for each connection: which end is open, what the panel's thread does and waits for, what is in the buffers |
| `session` | the session the panel has registered for the PC |
| `told`, `signed`, `done` | what the parents know of each request; the requests in the order they were sent and carried out (history) |

The panel may stop, move and come back, the PC may be suspended with a request
unread, and restart. The time unit is the exchange timeout of 30 seconds.
`Errands` is what is left of it for the parents: a request is sent, carried out
at most once and in order, and confirmed or given up once; of one that was given
up nothing is known. `signed` stands for its list of requests sent. Left
out: `stop()`, the choice between TLS and plain TCP, and the parsing of URLs. The
session asks one request after the other (its queue is in `ReverseSessions`), and
the parents' requests are interchangeable.

### Kdl, Frames and AgentLog

Texts are sequences of characters in `Kdl`, because the properties are about them:
a text is written bare or in quotes, escaped, tokenised, parsed, and signed over
what it is serialised to again. A message is the sequence of its nodes in the order
of their lines, each with its depth: the tree the code builds, in the order in which
it writes and reads it. What the code does along a text is a recursive function of
the position (`Quoted`, `Tokenize`, `ParseNodes`, `ReadBack`), whose step is that
of the loop (`ReadToken`, `ReadBlock`). Escapes of code points in braces are left
out: nothing writes them.

`Frames` is one call of `read_frame` on a socket, a step per `recv`: the stream is
cut into chunks of any size up to that of the code's `recv`, and may be any
sequence of bytes: a frame, a frame and more, a part of one, or none at all.
`Buffer(received)` is the code's buffer, `result` what the call returns or raises;
each step ends in what `InspectFrame` makes of the bytes so far. `Prefix` and
`PrefixValue` are Python's `str` and `int` of a length, which are external.

`AgentLog` reads a file backwards in blocks and cuts the answer to a frame; one
character is one byte, and the file does not change while it is read.

### PanelForms

`ActionRequestFields` is the request an action of a page becomes, `Dispatch` what
the agent makes of it, `ReadVariables` what it answers to `get settings` and
`SettingsToPCInfo` what the page shows of that, for an agent of today and for one
that answers with fewer variables. The agent counts in seconds and shows minutes.

### ReverseSessions

| state | code |
| --- | --- |
| `at` | where the thread of a connection is, from the handshake through the loop of its session to the end |
| `byHost`, `byIP` | `_sessions_by_hostname`, `_sessions_by_ip` |
| `queue`, `closed`, `cur` | the request queue of a session, its closed flag, what it serves |
| `toAgent`, `fromAgent` | frames on their way |
| `callAt`, `callTo`, `result`, `outcome` | a caller of `submit`, its Future and what it got |
| `srv`, `running` | the accept loop |
| `stopping`, `leaving` | `stop()`: it is about to clear the registry; the sessions it has taken out of it and is to close |
| `shown` | what the dashboard was last told |

With `TLS` the handshake is made in the accept loop, as in the code: a client that
does not speak keeps everyone else waiting. `stop()` is three kinds of step: it
raises its flag, it clears both maps under the registry's lock (`ClearRegistry`),
and it closes what was in them, one session after the other, when it has released
the lock (`CloseSession`); in between there are sessions that are served, open and
not registered. Registering, closing a replaced session, and the callbacks are
steps of their own for the same reason. The agent is external: it answers frames in the
order they come, or never does. A frame that cannot be sent is like one the agent
never reads, and closing a socket loses what it had received unread.

`RemoteCalls` is what a handler of the web server sees of all that: PCs arrive at
an address and depart, a request is asked of the PC that has the address, executed
at most once and never after it was refused, and has one outcome. Threads,
queues, frames and closed sockets are gone; `Where` reads the address of a host
from the two maps of the registry, `Asked` where a request is from the place of
its caller.

### PanelStore

| state | code |
| --- | --- |
| `scans`, `lastId` | the tables `scans` and `scan_pcs`: every scan has one PC, and scans are numbered |
| `snapshots`, `date` | the table of snapshots, unique per user, host and day; today |
| `at`, `row` | where the thread of a session is: in one of the parts of a report (`poll`, `inspect`, `record`, `usage`), in its loop, asking the agent, about to record the disconnect (`gone`, `left`), and the row it has chosen to rewrite |
| `pruning`, `doomed`, `marked` | the pruner, the stale addresses it has read, and the row it is to mark as not connected |
| `byHost`, `byIP` | the registry of `ReverseSessions`, without the places between its critical sections |

A transaction takes SQLite's write lock at its first write, so what it has read
before may be stale: the reading (`ChooseRow`, `ChooseRowToLeave`, `ReadStale`,
`ChooseRowToMark`) and the writing (`RecordStatus`, `RecordReverseDisconnect`,
`PruneStaleTrackedIPs`, `MarkLatestNotConnected`) are steps of their own. What the dashboard shows (`Dashboards`,
`DedupeByHostname`) and what a control page shows (`FetchControlPCInfo`, and
`FetchControlPCInfoCached` from the registry alone) are operators over the
tables; the readings of one page are merged, and so are those by which the pruner
finds the stale addresses. A row that it marks gets back the payload it had read;
of that the model keeps what the badge is made of, not the second copy of the host
name in it.
`SaveSnapshot` includes its trim. The buttons of a control page post the address,
so what the page shows is what they act on.

`AddressBook` is what this module and the listener share: each is shown to change
where a PC is found in the same three ways, so that the registry assumed here is
no other than the one of `ReverseSessions`.

Time is the age of each record up to one step past the limit of twelve hours. The
clock does not go on between a reading and its write, and not while a session has
been silent for `MaxIdle`, and `2 * MaxIdle <= StaleAge`: a session reports or
ends within some 40 seconds (refresh interval and exchange timeout). A panel host
that sleeps for hours with its connections open is therefore left out, and two PCs
behind one address. Left out as well: heartbeats (the table `reverse_agents`
is written and never read), the usage history, times of day and zones. Snapshots
are dated by calendar day although usage runs from wake time to wake time; the
model keeps that.

### Secrets and PanelPassword

`Secrets`: an account has a key, an override and directories it may read and
write; a directory has nothing, something damaged, or a secret encrypted with a
key. `_persist_shared_secret` says that stale copies are dropped; the code only
writes its own, and the order of the directories makes that harmless.
`PanelPassword`: of the file and of that which an older panel left there is
nothing, something unreadable, or a hash and a key; a write may be cut off. A file
that disappears between `stat` and `read` is left out.

## 3. What TLC checks

| run | states | question |
| --- | --- | --- |
| `MCFunctions` | 287 000 | the pure functions on every bounded input: curfew and countdown; settings that are saved, loaded, migrated; what is signed and framed; what a page tells and a click does; the end of the log; secrets and password |
| `AgentThreads_races` | 1.0 M | one request of any kind against the loop, a kill anywhere: usage, and do the settings reach the disk whatever the two threads do to each other's saves? |
| `AgentControl_requests` | 6.0 M | two requests, a crash and two usage periods: settings as told (also those answered before the request a crash cuts short), warnings, usage, resets |
| `AgentControl_faults` | 556 000 | a failing call, load or save and a clock that is set back: types (no negative usage), the lock, answers, reload |
| `StateStore_kills` | 3.5 M | failing operations and kills anywhere: still an atomic store? |
| `StateStore_power` | 4.7 M | a power loss anywhere: does a file whose present text is flushed stay what a load finds? |
| `AgentLink_contact` | 650 000 | two writes, and two of: the panel stops or moves, the PC is suspended or restarts: order, contact, and is the link what `Errands` promises? |
| `ReverseSessions_calls` | 4.4 M | two connections, hosts, addresses and calls: registry, pairing, and is the listener what `RemoteCalls` promises? |
| `ReverseSessions_liveness` | 311 000 | with TLS, a failing listener and a stop: dashboard, end of sessions, callers |
| `PanelStore_records` | 979 000 | two connections of two hosts, reports, disconnects and pruner that interleave, one event: contact remembered, the present shown, the absent not |
| `AgentThreads_rollover`, `PanelStore_names` | | documented statements that do not hold, see section 5 |

### Bounds and why they are enough

- `MCFunctions`: five minutes a day give every order of now, bed and wake, also
  across midnight; two days and a bit give both sides of every rollover; usage
  and allowance up to three pass each other in both directions. Files take each
  key through every kind of value a conversion tells apart, alone and with the
  keys it depends on. Texts have up to four characters, among them quote,
  backslash and line end, and keywords, and stand among other values, in a block and
  behind two blocks that end at once. Frames have the longest body allowed and one
  that is too long, more after them or less, and arrive in every way that chunks
  allow, in one piece too. The log is
  read in blocks of two, with tails and frames smaller and larger than the file.
- `AgentThreads_*` and `AgentControl_*`: a day of four units; a credit gap and a
  save interval of two, the smallest for which "one short of it" and "at it"
  differ. In `AgentThreads_races` the two saves of two threads, each of five
  operations, meet in every order, with a kill in between; the changed wake time
  begins a new period. At `MaxNow` only saves still become due, so that what is in
  force may reach the disk. `AgentControl_requests` runs from 6 to 10, which
  contains a midnight and wake times, and its two requests are enough for one to
  come between another one's write and its save and a crash after both.
  `AgentControl_faults` has a curfew that begins, and set-backs by one unit.
  Every kind of request is in one of the runs.
- `StateStore_*`: two new saves over two old ones, so that a file, its backup and
  its successor can all differ; two failing operations, one for the main path
  and one for its recovery; two kills, one in a save and one in the recovery
  from it.
- `AgentLink_contact`: two connections let a session be half open while its
  successor is made; two requests give an order and a late answer; two faults
  move the panel while the PC sleeps. `MaxNow` 2 lets each of two exchanges time
  out.
- `ReverseSessions_calls`: two connections of up to two hosts at up to two
  addresses contain a replacement at the same address, one from another address
  and an address taken over by another host; two calls queue at one session, or
  at two. `ReverseSessions_liveness`: two connections of one host are what its
  properties are about: an older session that ends late.
- `PanelStore_records`: two connections, two hosts, of which one may come from
  either address: a PC that moves, one whose address is taken over, and a PC
  that comes back while its old session is still reporting; with `StaleAge` 2 and
  `MaxIdle` 1 a record can be as old as a live session allows, and older. One
  failing write, change of status, restart or midnight (`MaxEvents`).

Deadlock is checked in every run but those of `MCFunctions`, where the clock of
the input stops at the horizon, and of `AgentLink` and `AgentThreads`, which come
to rest when their bounds are reached. `ReverseSessions` says where it may stop
(`Stopped`).

### Fairness

- `AgentThreads`: weak fairness of both threads, of each step of a save, of the
  start of a killed agent (the scheduled task restarts it) and of the clock.
- `AgentControl`: weak fairness of the loop's goroutine, of the start of the
  process and of the clock, and strong fairness of the dispatcher's pending step.
  The loop takes the mutex again and again, so the dispatcher's step is enabled
  again and again and not continuously; Go's `sync.Mutex` hands the lock to a
  waiter that starves. Platform calls return with an answer or an error. Nothing
  makes a parent send, a user act or a fault happen.
- `AgentLink`: weak fairness of the agent, of the threads of the panel and of the
  waking of a suspended PC; and of `FindsByScan` by itself: a scan takes a new
  random order each time and so comes to the panel before any odd host in the end.
- `ReverseSessions`: weak fairness of every connection's thread, of the callers
  (their timers run out), of the accept loop's restart and of what `stop()` does
  once called. None for agents, handshakes, new connections or listener failures. An
  exchange ends at its deadline: that is `ExchangeFails`, always possible.
- `PanelStore`: weak fairness of each session's report, refresh, end and
  disconnect and of the pruner. Strong fairness of the clock, because it stands
  still between a reading and its write and so is not enabled continuously.
  Nothing makes an agent connect, a status change, a session in its loop fail, a
  write fail or the panel stop.

### Mutants

Next to a definition that models code there is often one marked *Mutant*: the
same with a plausible bug in it, which the run's property must catch. There is
one for every property of every passing run.

## 4. What is proved

The theorems hold for every value of the constants that satisfies the named
assumptions of the module, with any number of requests, crashes, connections and
saves (the bounds are constants, too).

- **FunctionProofs**, the lock policy. `CurfewIsAlwaysBedToWake`: of a day of any
  length, the comparisons are the minutes from bed time to wake time. `Later`
  says what becomes of minute and date k minutes on, which is all the other
  proofs need of division. `CurfewAlwaysEndsWithThePeriod`.
  `CountdownIsAlwaysFirstLock`, for schedules whose bed time is not their wake
  time (section 5 shows why): from `CurfewStartsAtBed` (no minute before the next
  bed time is in a curfew that has not begun) and `CountdownLocks`.
- **FunctionProofs**, the other functions on values. `MCValues` says what all the
  inputs are: every JSON value under every key of a file, each file there or not,
  whatever numbers memory may hold, any contents of any directories, any agent
  state and any click. The theorems are about those; `SamplesAssumption`, which
  TLC evaluates, says that its samples are among them.
  `WhatIsSavedIsAlwaysLoaded` goes by the value of each key; the timestamp loses
  its fraction, and `Quotient` (there is one way to see a number as a multiple
  and a rest) shows that it stays in its usage period. `NothingForeignIsEverTaken`
  goes by the four origins in the order in which the agent asks them.
  `PasswordIsAlwaysKept`; `AgentAlwaysFindsTheSecret`, for any number of attempts
  at the prompt. `PageAlwaysTells`: a click leads from one agent state to another
  (or nowhere), and of every agent state the page is right; the time left
  is off by rounding, which again is division. What one may store is bounded where
  the files bound it (`WholeNumbers`).
- **FunctionProofs**, frames. `FramesAlwaysSurvive`, of any stream, any body within
  the limit and any way to cut it, from `FrameInv` (the result is what the bytes
  received so far are judged to be, until the peer has closed) and `JudgedAs` (how
  the first n bytes of a stream that begins with a frame are judged, and those of a
  stream that is the beginning of one). It rests on `FramesAssumption`: `int` reads
  back what `str` has written, in numerals and not empty, and a prefix with one
  chunk behind it is within the limit of a frame; the limits of the code are 64 KiB
  and 4096 bytes, and a prefix has five digits at most.
- **TextProofs**, induction. What a recursive function computes for every input
  needs an induction over data, and the library's induction theorems take a
  predicate, which no prover here can instantiate. Here the predicate is a set of
  numbers: the order of the natural numbers is well-founded, so a set that is not
  empty has a least element (`LeastNumber`), and what a set hands from each number
  to the next it has up to the last one (`Upwards`), or from the last one down
  (`Downwards`). `RecursionUp` and `RecursionDown` say that a function exists which
  is defined by recursion; without that the value of a `CHOOSE` is unknown, and so
  of `FlattenSeq` of the community modules. Everything below rests on these.
- **TextProofs**, the log. `LogTailIsAlwaysTheEnd`, for any file, size of a block,
  number of lines and room: `SplitOfConcat` (what comes before a text changes only
  its first part, so that the other parts of a block are whole lines), `LoopInv`
  (what has been found are the last lines of the file, the last one first, and the
  fragment completes the first one), and `CostsAre`, by which the size that the code
  keeps up to date while it drops lines is the size of the block it would send.
- **TextProofs**, messages. `TextIsReadBack`: tokenizer and parser read from the
  text of any message the nodes it was written from; `SignedTextIsAlwaysReadBack`
  follows, because the auth block at the end is what is taken out again. A message is
  any sequence of nodes with names that need no quotes, values of any length and of
  any characters, integers in range and in their shortest form, and blocks not
  deeper than the parser allows (`AnyMessage`; `TextsAssumption`, which TLC
  evaluates, says that its samples are among them). A part of a text `Reads` as some
  tokens when the tokenizer finds them wherever the part stands, provided a word may
  end behind it; two such parts make one when the second one begins with a delimiter,
  or the first needs none. Thus values, lines and nodes read as their tokens.
  `QuotedBack` says of quotes and escapes that every text is read back, by induction
  from its end. The parser is shown to give the nodes back from the last one to the
  first (`NodeParsesBack`): a brace goes one block further in, and as many closing
  braces as a node has behind it lead to the depth of the next one.
- **TextProofs**, lengths. `LengthIsReadBack`: `Number` reads from the digits that
  `Decimal` writes the number they were written from, for every natural number, by
  the least one of which that would fail. This is what `FramesAssumption` says of
  `Prefix` and `PrefixValue`, except that no prefix is so long that a chunk behind it
  exceeds the limit, which depends on the sizes and which TLC evaluates.
- **AgentThreadsProofs.** `TypeCorrect`. `UsageBounded`: usage is bounded by the
  time since the counters were begun although a request may begin them anew
  between the tick and its credit. `Charged` bounds counters by a time, and
  `UsageInv` says so of memory, of the disk and of the tick under way.
- **AgentControlProofs.** `TypeCorrect`. `WarningsAlwaysDescend`, from
  `WarningsInv`: the thresholds sent are closed upwards, and a popup shows one
  below them. `UsageBounded`, from `UsageInv`: usage is bounded not only by the
  present time but by the last tick, by the tick under way and, on disk, by the
  same; without that a tick which was delayed across a reset could not be shown
  harmless. `CrashesLoseLittle`, from `LossInv`: what is unsaved is bounded by
  the time from the last save to the last tick and one credit.
- **AgentControlProofs**, settings and resets. `ResetsOnlyAtRollover` and
  `RestartsKeepTheCounters`, from `StampInv` (begun, stamped, now, and disk before memory, are in order) and
  `PeriodMonotone` (the label of a usage period never decreases).
  `SettingsAlwaysAsTold`, from `SettingsInv`: between two requests, what the
  parent was told is on disk, except that a rollover may have taken back manual
  lock and extensions; then the stamp on disk is older still and the next load
  takes them back as well. A crash in the middle of a request undoes nothing that
  was answered before it, because what the last save wrote is on disk, with the
  settings of the request in the place of the older ones or not (`SavedOnDisk`).
  Exempt, in the statement as in the code: a crash between the two files of a save
  leaves a new wake time beside counters stamped under the old one, and the restart
  that holds the one against the other may take back a manual lock and extensions
  which had been answered (`ManualLockRemains`, section 5).
- **StateStoreProofs.** `TypeCorrect`. `AtomicUnlessTorn`: `StateStore`
  implements `AtomicStore`, provided `is_file()` does not fail and the power stays
  on (`Dependable`). `StoreInv` says what is known of the files at each place of
  a load or a save; `InitRefines` and `NextRefines` map the initial states and
  each step. Both conditions are needed, see section 5. `FlushedFileAlwaysSpared`
  needs neither: a file whose present text is on the disk stays what a load finds
  after a power loss, whatever is being done to its backup and its successor. Of a
  file that has been replaced since the last flush it says nothing, and there is
  nothing good to say: its older text may go with it (`PowerLossLeavesACopy`,
  section 5). `FlushInv` says that a backup which is not on the disk has a good or
  touched file beside it.
- **AgentLinkProofs.** `TypeCorrect`. `OkAlwaysMeansCarriedOut`, from `OkInv`: a
  connection holds the request or the response of the exchange its thread waits
  for, never both, and what is answered ok is done. `NothingEverOvertakes`, from
  `OrderInv`: what lies unread on the agent's connection was sent after all that
  is done. `AllCarriedOutOnce` follows from the same. `LinkIsErrands`: the link
  implements `Errands`. `WaitInv` says that a request a thread waits for has not
  been told of, and that no other thread waits for it, so that it is told once; what
  an action of the agent, of a panel's thread and of the world is to the parents
  has a lemma each (`ErrandAgent`, `ErrandPanel`, `ErrandWorld`).
- **ReverseSessionsProofs.** `TypeCorrect`. `RegistryAlwaysLive`, from
  `RegistryInv`. `OneSessionStaysOpen`: whoever registers takes over the duty to
  close the older one, and what `stop()` has taken out of the registry is in
  `leaving` until it is closed (`StopInv`); the statement allows for those. `AnswersAlwaysPaired`, from
  `WireInv` (at most one frame is under way on a connection, that of its
  exchange) and `CallInv` (a request is with one session, and carried out when
  its answer is under way, not before). `NeverCarriedOutTwice` from the same.
  `ListenerIsRemoteCalls`: the listener implements `RemoteCalls`. `RouteInv`
  says that a caller knows its session from the moment it has looked it up, so
  that the host that is asked never changes; `ServiceNext` maps each step to one
  of the promise or to a stutter. `ListenerIsAddressBook` is the half of it that
  the next module builds on.
- **PanelStoreProofs.** `TypeCorrect`. `ContactAlwaysRemembered`: a contact of the
  last twelve hours stays, with two exceptions that the statement names and the code
  has: a disconnect overwrites a row that it had chosen before, and an address which
  the pruner had already read as stale when it answered (`doomed`) is removed all the
  same (`OnlyTheSilentAreRemoved`, section 5). It follows from `MarkedIsDoomed` (the
  row to mark is of an address read as stale, also when it is rewritten in between)
  and from `NewerIsYounger`: of two rows of an address the one with the greater number is
  not older. Without it the newest row that says the PC answered could be a stale
  one with a fresh one behind it. `ConnectedAlwaysTracked`, from `ContactInv`: a
  session's address has a contact no older than the silence of the session and
  one report. It rests on the assumption that twice `MaxIdle` is within the limit.
  `RegistryIsAddressBook`: the registry of this module is the address book which the
  listener implements; `BookInv` says that each map leads to live sessions of that
  name or address, so that `Where`, which reads both, changes only when a session is
  registered or forgotten.

Only model-checked: liveness, which is out of the prover's reach. Every invariant and
action property and every refinement that a passing run checks is stated by a
theorem. `OkMeansCarriedOut` and `CarriedOutAtMostOnce` are proved and no longer checked by a run of their own:
`ImplementsErrands` and `ImplementsRemoteCalls` imply them. The two statements of
section 5 that have a run are refuted.

## 5. What does not hold

Each of these is what a document or a comment says, checked against the model
and refuted with a trace that follows the code.

1. `AgentThreads_rollover`, `RolloverResetsUsage` (`agent_state.py:606`, and
   `go/state/store.go:175`). A save stamps the counters with the time of the save,
   whatever period they belong to. The last tick before wake time, its save past
   wake time, and the next rollover test finds a stamp of today: yesterday's
   usage, extension and manual lock stay for the whole period
   (`docs/agent-protocol.md:75`). `ResetOnlyAtRollover` is the half that holds.
2. `PanelStore_names`, `NamedPageIsThatPC` (`scan_store.py:155`). A control page
   is looked up by the newest row with the name, whose address may be another
   PC's by now. The page of the one then shows the other (`README.md:544`: keyed by
   host name so that changes of address do not break bookmarks).

More statements are defined in the modules and do not hold, but have no run of
their own. Each is refuted within a minute when a configuration named here is changed
as said:

- `CountdownComesTrue` (`MCFunctions.cfg` with `BedEqualsWake = TRUE` and only
  this invariant): "minutes until the next lock" (`lock_policy.py:151`). A bed
  time equal to the wake time never locks, and yet the countdown runs down to it
  and warnings are shown.
- `AnsweredWriteIsInForce` (`AgentControl`, `Spec`, with `DayLength = 4`,
  `MaxTickGap = 2`, `PersistInterval = 2`, `Warnings = {}`, `Monitored = TRUE`,
  `DefaultWakeTime = 1`, `Allowances = {2}`, no other times or extensions,
  `StartAt = 4`, `MaxNow = 5`, one request and one fault, nothing else): after a
  load that failed, the save of a parent's write reads the files again and
  replaces the write with what they hold; the answer is ok. `SettingsAsTold`,
  which is proved, therefore assumes that no fault happens.
- `ManualLockRemains` (`AgentControl_requests.cfg` as it is, with `SPECIFICATION
  Spec` and only this `PROPERTY`): a manual lock "remains active until you clear all
  limits" (`README.md:471`), or, as elsewhere, until the next period. A lock is
  answered and saved; then a new wake time is set, and the process dies when its
  save has written `daily_settings.json` and not yet `state.json`. The restart
  judges the old counters by the new wake time, and begins them anew although
  under the old wake time the period has not changed: the lock is gone.
- `ExtensionResetsWarnings` (`AgentControl_requests.cfg` with `WakeTimes = {}`
  and `MaxRequests = 1`, as a `PROPERTY`): "warnings reset after a time
  extension" (`README.md:541`). An extension that is applied while a popup is on
  the screen clears the set, and the popup then marks its thresholds as sent.
- `SomeCopyIsUsable` (`AgentThreads_races.cfg` with `Spec`, `MaxRequests = 2`,
  `MaxKills = 0`): "the last good copy is restored" (`agent_state.py:550`). Two
  saves through one temporary file can put a mixture in the place of the file and,
  by way of the next copy, of its backup.
- `NothingGoesBack` (`StateStore_power.cfg` with `MaxPowerLosses = 0` and
  `MaxFaults = 0`, as a `PROPERTY`): a file that could not be read makes the load
  fail "instead of touching anything" (`go/state/doc.go:22`). A failing
  `is_file()` is taken for a missing file: the backup, or defaults, are
  written over a good file.
- `PowerLossLeavesACopy` (the same configuration with `MaxPowerLosses = 1` and
  `MaxStatFaults = 0`, as an `INVARIANT`): periodic saving is there "so a crash or
  power loss" is no free reset (`pc_time_control.py:564`). Neither the temporary
  file nor the backup is flushed, so one power loss after a save can leave both
  unusable.
- `PanelIsFoundAgain` (`AgentLink_contact.cfg` with `OddHosts = {"a1"}`,
  `Environment = "nowhere"`, `Requests = {"r1"}`, `MaxNow = 0`, `MaxFaults = 1`):
  the configured URL, the cached one, then a scan (`README.md:265`). When the
  panel has moved and something that speaks no HTTP, or answers with a JSON value
  that is no object, listens at its old address, the error ends every attempt
  before the scan.
- `OnlyTheSilentAreRemoved` and `SolePCIsKept` (`PanelStore_records.cfg` with
  `SPECIFICATION Spec` and only the one as a `PROPERTY`): what the docstring of
  `prune_stale_tracked_ips` says (`scan_store.py:302`). The pruner deletes an
  address that has reported since it was found stale; and the sole PC is
  recognised by the sole address, so one that is tracked at two, both stale, is
  removed altogether.

## 6. What is not modelled

HTML, Flask's sessions and CSRF tokens, Windows calls beyond their answers, local
addresses and firewall commands, paths and time zones, heartbeats (written and
never read), the usage history and the migration of the database, installers and
scripts, and the Go port but for its control loop: it is compared with the Python
program by test vectors. Of the modelled files: `stop()` of the reverse client,
the choice between TLS and plain TCP, the parsing of URLs, the list of
capabilities, texts of messages and errors. Each of these either keeps no state of
its own, or keeps it where the program only passes it on.

## 7. Plan

Done, in this order: the lock policy; the Go agent's loop and dispatcher; the
store, with the abstract store it implements; the panel's listener; the panel's
store; then the Python originals of all of them, the two threads without a lock,
the link from end to end, and the functions on files, texts, pages, log, secrets
and password; what listener and link promise (`RemoteCalls`, `Errands`); the
theorems of section 4.

Left:

1. The choice between TLS and plain TCP in `AgentLink`, with a panel whose
   certificate comes or goes.
2. A composition of `AgentThreads` and `AgentLink` at the level of whole requests.
