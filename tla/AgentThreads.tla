---------------------------- MODULE AgentThreads ----------------------------
(***************************************************************************)
(* The two threads of the Python agent, the monitoring loop and the one    *)
(* that carries out the parents' requests (pc_time_control.py,             *)
(* request_dispatcher.py), on one PCTimeControl without a lock, and both   *)
(* writing daily_settings.json by way of the same temporary file           *)
(* (_write_json of agent_state.py).                                        *)
(*                                                                         *)
(* A step is what a thread does between two places where the other may run *)
(* and it matters: a clock or file or platform call, and a check that is   *)
(* acted upon afterwards.  The files behave as on Windows, where the agent *)
(* runs: a file that another thread has open cannot be replaced, nor can   *)
(* an open file be put in another's place.                                 *)
(*                                                                         *)
(* AgentControl models the same agent with the mutex of its Go port, and   *)
(* there the faults, the clock set back and the exempt user; StateStore    *)
(* models the files with one thread and every way of losing them.          *)
(***************************************************************************)
EXTENDS LockPolicy

CONSTANTS
    MaxTickGap,         \* a gap between two ticks this long is not credited
    PersistInterval,    \* time between two periodic saves
    Warnings,           \* warning_intervals
    DefaultWakeTime,    \* DEFAULT_WAKE_TIME
    InitialDaily,       \* the settings the agent is installed with
    BedTimes, WakeTimes, Allowances, Extensions,    \* what the parents may send
    MaxNow, MaxRequests, MaxKills   \* bounds for TLC

ASSUME ThreadsAssumption ==
    /\ MaxTickGap \in Nat \ {0} /\ PersistInterval \in Nat \ {0}
    /\ Warnings \subseteq Nat \ {0}
    /\ DefaultWakeTime \in TimesOfDay
    /\ InitialDaily \in [bed : TimesOfDay \cup {Unset}, wake : TimesOfDay,
                         allowance : Nat \cup {Unset}]
    /\ BedTimes \subseteq TimesOfDay /\ WakeTimes \subseteq TimesOfDay
    /\ Allowances \subseteq Nat \ {0} /\ Extensions \subseteq Nat \ {0}
    /\ {MaxNow, MaxRequests, MaxKills} \subseteq Nat

VARIABLES
    now,            \* the clock
    screenLocked,
    daily, runtime, \* control.daily, control.runtime
    lastTickAt,     \* control.last_tick_at
    sincePersist,   \* time since control.last_persist_at, at most PersistInterval
    warningsSent, warningsDate,
    loop, request,  \* what each thread does next
    frame,          \* their local variables
    saver,          \* for each thread: where it is in a save, and what it writes
    main, bak, tmp, \* daily_settings.json, .bak and .json.tmp
    saved,          \* state.json
    requests, kills \* spent of the bounds

memory == <<daily, runtime, lastTickAt, sincePersist, warningsSent, warningsDate>>
files == <<main, bak, tmp, saved>>
vars == <<now, screenLocked, memory, loop, frame, request, saver, files, requests, kills>>

-----------------------------------------------------------------------------
(* State *)

Threads == {"loop", "request"}
Other(t) == IF t = "loop" THEN "request" ELSE "loop"

\* The content of a file: <<"good", settings>> or one of these.
Absent == <<"absent">>
Empty == <<"empty">>    \* opened for writing, and nothing written yet
Junk == <<"junk">>      \* a mixture of two texts
Usable(content) == content[1] = "good"

NotSaving == [step |-> "none", payload |-> Absent]

\* since is a history field: when the counters were last reset.
FreshRuntimeState(t) ==
    [ts |-> t, acc |-> 0, manual |-> FALSE, ext |-> 0, since |-> t]

\* The local variables: now and in_lock_window of tick_accumulator, now of set_wake_time.
NoFrame == [at |-> 0, inLockWindow |-> FALSE, asked |-> 0]

RuntimeStateIsCurrent(r, wake, t) ==
    UsagePeriodDate(r.ts, wake) = UsagePeriodDate(t, wake)

\* The arguments of lock_decision and minutes_until_lock.
PolicyInputs ==
    [now |-> now, bed |-> daily.bed, wake |-> daily.wake,
     allowance |-> EffectiveDailyAllowanceMinutes(daily.allowance, runtime.ext),
     accumulated |-> runtime.acc, exempt |-> FALSE, manual |-> runtime.manual]

Init ==
    /\ now = 0
    /\ screenLocked = FALSE
    /\ daily = InitialDaily /\ main = <<"good", InitialDaily>>
    /\ runtime = FreshRuntimeState(0) /\ saved = FreshRuntimeState(0)
    /\ lastTickAt = Unset
    /\ sincePersist = PersistInterval
    /\ warningsSent = {}
    /\ warningsDate = UsagePeriodDate(0, InitialDaily.wake)
    /\ loop = "sleep" /\ frame = NoFrame
    /\ request = "idle"
    /\ saver = [t \in Threads |-> NotSaving]
    /\ bak = Absent /\ tmp = Absent
    /\ requests = 0 /\ kills = 0

-----------------------------------------------------------------------------
(* The monitoring loop: monitor_step, phase by phase *)

\* tick_accumulator reads the clock and asks whether a new period has begun.
Tick ==
    /\ loop = "sleep"
    /\ frame' = [frame EXCEPT !.at = now, !.inLockWindow = FALSE]
    /\ loop' = IF RuntimeStateIsCurrent(runtime, daily.wake, now) THEN "ask" ELSE "reset"
    /\ UNCHANGED <<now, screenLocked, memory, request, saver, files, requests, kills>>

\* What has changed since the question is reset as well.
Reset ==
    /\ loop = "reset"
    /\ runtime' = FreshRuntimeState(frame.at)
    /\ lastTickAt' = Unset
    /\ loop' = "ask"
    /\ UNCHANGED <<now, screenLocked, daily, sincePersist, warningsSent, warningsDate,
                   frame, request, saver, files, requests, kills>>

\* A lock window is looked for before the platform is asked for the session.
AskSession ==
    /\ loop = "ask"
    /\ frame' = [frame EXCEPT !.inLockWindow = ShouldLock(PolicyInputs)]
    /\ loop' = "credit"
    /\ UNCHANGED <<now, screenLocked, memory, request, saver, files, requests, kills>>

\* Mutant: whatever the gap.
CreditedAlways(from, to) == IF from # Unset THEN to - from ELSE 0

\* The time credited at a tick: a gap that is too long was no use of the PC.
Credited(from, to) ==
    IF from # Unset /\ to > from /\ to - from < MaxTickGap THEN to - from ELSE 0

\* The session is active or the platform cannot say, or it is not.
Credit ==
    /\ loop = "credit"
    /\ \/ /\ ~frame.inLockWindow /\ ~screenLocked
          /\ runtime' = [runtime EXCEPT !.acc = @ + Credited(lastTickAt, frame.at)]
          /\ lastTickAt' = frame.at
       \/ /\ frame.inLockWindow \/ screenLocked
          /\ lastTickAt' = Unset
          /\ UNCHANGED runtime
    /\ loop' = "warn"
    /\ UNCHANGED <<now, screenLocked, daily, sincePersist, warningsSent, warningsDate,
                   frame, request, saver, files, requests, kills>>

\* check_and_send_warnings: the smallest threshold that applies; the larger ones
\* count as sent with it.  The popup is shown by a thread of its own.
CheckAndSendWarnings ==
    /\ loop = "warn"
    /\ LET today == UsagePeriodDate(now, daily.wake)
           sent == IF today = warningsDate THEN warningsSent ELSE {}
           remaining == MinutesUntilLock(PolicyInputs)
           due == {w \in Warnings \ sent : remaining > 0 /\ remaining <= w}
       IN  /\ warningsDate' = today
           /\ warningsSent' = sent \cup {w \in Warnings : \E d \in due : w >= d}
    /\ loop' = "enforce"
    /\ UNCHANGED <<now, screenLocked, daily, runtime, lastTickAt, sincePersist, frame,
                   request, saver, files, requests, kills>>

EnforceLockWindow ==
    /\ loop = "enforce"
    /\ loop' = IF ShouldLock(PolicyInputs) /\ ~screenLocked THEN "lock" ELSE "persist"
    /\ UNCHANGED <<now, screenLocked, memory, frame, request, saver, files, requests,
                   kills>>

LockPC ==
    /\ loop = "lock"
    /\ screenLocked' = TRUE
    /\ loop' = "persist"
    /\ UNCHANGED <<now, memory, frame, request, saver, files, requests, kills>>

\* Thread t calls save_state: the timestamp, and the settings as they are now.
\* _write_json keeps what is in the file only if it can be used.
BeginSave(t) ==
    /\ runtime' = [runtime EXCEPT !.ts = now]
    /\ saver' = [saver EXCEPT ![t] = [step |-> IF Usable(main) THEN "keep" ELSE "open",
                                     payload |-> <<"good", daily>>]]

PersistIfDue ==
    /\ loop = "persist"
    /\ IF sincePersist = PersistInterval
       THEN BeginSave("loop") /\ loop' = "save"
       ELSE loop' = "sleep" /\ UNCHANGED <<runtime, saver>>
    /\ UNCHANGED <<now, screenLocked, daily, lastTickAt, sincePersist, warningsSent,
                   warningsDate, frame, request, files, requests, kills>>

-----------------------------------------------------------------------------
(* The request thread: dispatch *)

Receive ==
    /\ loop # "down" /\ request = "idle"
    /\ requests < MaxRequests
    /\ requests' = requests + 1
    /\ frame' = [frame EXCEPT !.asked = now]
    /\ UNCHANGED <<now, screenLocked, sincePersist, loop, saver, files, kills>>

SetDailyAllowance ==
    /\ Receive
    /\ \E m \in Allowances \cup {Unset} : daily' = [daily EXCEPT !.allowance = m]
    /\ request' = "save"
    /\ UNCHANGED <<runtime, lastTickAt, warningsSent, warningsDate>>

SetBedTime ==
    /\ Receive
    /\ \E t \in BedTimes : daily' = [daily EXCEPT !.bed = t]
    /\ request' = "save"
    /\ UNCHANGED <<runtime, lastTickAt, warningsSent, warningsDate>>

ClearBedTime ==
    /\ Receive
    /\ daily' = [daily EXCEPT !.bed = Unset]
    /\ warningsSent' = {}
    /\ request' = "save"
    /\ UNCHANGED <<runtime, lastTickAt, warningsDate>>

ExtendTime ==
    /\ Receive
    /\ \E m \in Extensions :
          runtime' = [runtime EXCEPT !.ext = @ + m, !.manual = FALSE]
    /\ warningsSent' = {}
    /\ request' = "save"
    /\ UNCHANGED <<daily, lastTickAt, warningsDate>>

ClearExtensions ==
    /\ Receive
    /\ runtime' = [runtime EXCEPT !.ext = 0]
    /\ request' = "save"
    /\ UNCHANGED <<daily, lastTickAt, warningsSent, warningsDate>>

EngageManualLock ==
    /\ Receive
    /\ runtime' = [runtime EXCEPT !.manual = TRUE]
    /\ request' = "lock"
    /\ UNCHANGED <<daily, lastTickAt, warningsSent, warningsDate>>

ManualLockPC ==
    /\ request = "lock"
    /\ screenLocked' = TRUE
    /\ request' = "save"
    /\ UNCHANGED <<now, memory, loop, frame, saver, files, requests, kills>>

ClearManualLock ==
    /\ Receive
    /\ runtime' = [runtime EXCEPT !.manual = FALSE]
    /\ request' = "save"
    /\ UNCHANGED <<daily, lastTickAt, warningsSent, warningsDate>>

\* set_wake_time assigns the wake time and, when that begins a new period, logs so
\* before it resets the counters.
SetWakeTime ==
    /\ Receive
    /\ \E t \in WakeTimes :
          /\ daily' = [daily EXCEPT !.wake = t]
          /\ IF UsagePeriodDate(now, daily.wake) < UsagePeriodDate(now, t)
             THEN request' = "new_period" /\ UNCHANGED warningsDate
             ELSE request' = "save" /\ warningsDate' = UsagePeriodDate(now, t)
    /\ UNCHANGED <<runtime, lastTickAt, warningsSent>>

NewPeriod ==
    /\ request = "new_period"
    /\ runtime' = FreshRuntimeState(frame.asked)
    /\ lastTickAt' = Unset
    /\ warningsSent' = {}
    /\ warningsDate' = UsagePeriodDate(frame.asked, daily.wake)
    /\ request' = "save"
    /\ UNCHANGED <<now, screenLocked, daily, sincePersist, loop, frame, saver, files,
                   requests, kills>>

\* Once it is applied a request is saved; it is answered ok whatever becomes of that.
SaveRequest ==
    /\ request = "save" /\ saver["request"] = NotSaving
    /\ BeginSave("request")
    /\ frame' = [frame EXCEPT !.asked = 0]
    /\ UNCHANGED <<now, screenLocked, daily, lastTickAt, sincePersist, warningsSent,
                   warningsDate, loop, request, files, requests, kills>>

-----------------------------------------------------------------------------
(* A save, of either thread: _write_json of daily_settings.json, then of    *)
(* state.json, which is written the same way and here at once               *)

At(t, step) == saver[t].step = step

Goes(t, step) == saver' = [saver EXCEPT ![t].step = step]

\* copy2 to the backup: of the file as it is by now.
KeepBackup(t) ==
    /\ At(t, "keep")
    /\ bak' = main
    /\ Goes(t, "open")
    /\ UNCHANGED <<now, screenLocked, memory, loop, frame, request, main, tmp, saved,
                   requests, kills>>

OpenTemporary(t) ==
    /\ At(t, "open")
    /\ tmp' = Empty
    /\ Goes(t, "write")
    /\ UNCHANGED <<now, screenLocked, memory, loop, frame, request, main, bak, saved,
                   requests, kills>>

\* What the other thread has written since into the same file and is longer stays
\* at the end of it.
WriteTemporary(t) ==
    /\ At(t, "write")
    /\ tmp' \in {saver[t].payload} \cup (IF tmp = Empty THEN {} ELSE {Junk})
    /\ Goes(t, "replace")
    /\ UNCHANGED <<now, screenLocked, memory, loop, frame, request, main, bak, saved,
                   requests, kills>>

\* save_state returns to its caller, the error of a save that failed only logged.
SaveReturns(t) ==
    /\ saver' = [saver EXCEPT ![t] = NotSaving]
    /\ IF t = "loop"
       THEN loop' = "sleep" /\ sincePersist' = 0 /\ UNCHANGED request
       ELSE request' = "idle" /\ UNCHANGED <<loop, sincePersist>>

\* os.replace finds the file, and neither it nor the target is open.
Replace(t) ==
    /\ At(t, "replace")
    /\ tmp # Absent /\ ~At(Other(t), "write")
    /\ main' = tmp /\ tmp' = Absent
    /\ Goes(t, "state")
    /\ UNCHANGED <<now, screenLocked, memory, loop, frame, request, bak, saved, requests,
                   kills>>

\* Mutant: the error of a save ends the loop.
ReplaceFailsInLoop(t) ==
    /\ At(t, "replace")
    /\ tmp = Absent \/ At(Other(t), "write") \/ At(Other(t), "keep")
    /\ saver' = [saver EXCEPT ![t] = NotSaving]
    /\ IF t = "loop" THEN loop' = "ended" /\ UNCHANGED request
                     ELSE request' = "idle" /\ UNCHANGED loop
    /\ UNCHANGED <<now, screenLocked, memory, frame, files, requests, kills>>

\* The other thread has taken the temporary file away, or has it or the target open.
ReplaceFails(t) ==
    /\ At(t, "replace")
    /\ tmp = Absent \/ At(Other(t), "write") \/ At(Other(t), "keep")
    /\ SaveReturns(t)
    /\ UNCHANGED <<now, screenLocked, daily, runtime, lastTickAt, warningsSent,
                   warningsDate, frame, files, requests, kills>>

WriteState(t) ==
    /\ At(t, "state")
    /\ saved' = runtime
    /\ SaveReturns(t)
    /\ UNCHANGED <<now, screenLocked, daily, runtime, lastTickAt, warningsSent,
                   warningsDate, frame, main, bak, tmp, requests, kills>>

SaveStep(t) ==
    KeepBackup(t) \/ OpenTemporary(t) \/ WriteTemporary(t) \/ Replace(t)
        \/ ReplaceFails(t) \/ WriteState(t)

-----------------------------------------------------------------------------
(* The process and the world *)

\* The process is killed; a copy under way is cut off.
Kill ==
    /\ loop # "down" /\ kills < MaxKills
    /\ kills' = kills + 1
    /\ loop' = "down" /\ request' = "idle" /\ frame' = NoFrame
    /\ saver' = [t \in Threads |-> NotSaving]
    /\ bak' \in {bak} \cup (IF \E t \in Threads : At(t, "keep") THEN {Empty} ELSE {})
    /\ UNCHANGED <<now, screenLocked, memory, main, tmp, saved, requests>>

DefaultDaily == [bed |-> Unset, wake |-> DefaultWakeTime, allowance |-> Unset]

\* load: the file, else its backup, else defaults, which are put in its place.
Loaded == IF Usable(main) THEN main[2] ELSE IF Usable(bak) THEN bak[2] ELSE DefaultDaily

Start ==
    /\ loop = "down"
    /\ loop' = "sleep"
    /\ daily' = Loaded
    /\ main' = <<"good", Loaded>>
    /\ bak' = IF Usable(main) \/ Usable(bak) THEN bak ELSE Absent
    /\ runtime' = IF RuntimeStateIsCurrent(saved, Loaded.wake, now) THEN saved
                  ELSE FreshRuntimeState(now)
    /\ lastTickAt' = Unset /\ sincePersist' = PersistInterval
    /\ warningsSent' = {} /\ warningsDate' = UsagePeriodDate(now, Loaded.wake)
    /\ UNCHANGED <<now, screenLocked, frame, request, saver, tmp, saved, requests, kills>>

\* Time goes on; at MaxNow the clock of the model stays, and only saves become due.
ClockTick ==
    /\ now < MaxNow \/ sincePersist < PersistInterval
    /\ now' = IF now < MaxNow THEN now + 1 ELSE now
    /\ sincePersist' = IF sincePersist < PersistInterval THEN sincePersist + 1
                       ELSE sincePersist
    /\ UNCHANGED <<screenLocked, daily, runtime, lastTickAt, warningsSent, warningsDate,
                   loop, frame, request, saver, files, requests, kills>>

UserLocksOrUnlocks ==
    /\ screenLocked' = ~screenLocked
    /\ UNCHANGED <<now, memory, loop, frame, request, saver, files, requests, kills>>

LoopStep ==
    \/ Tick \/ Reset \/ AskSession \/ Credit \/ CheckAndSendWarnings
    \/ EnforceLockWindow \/ LockPC \/ PersistIfDue

NewRequest ==
    \/ SetDailyAllowance \/ SetBedTime \/ ClearBedTime \/ SetWakeTime
    \/ ExtendTime \/ ClearExtensions \/ EngageManualLock \/ ClearManualLock

RequestStep == ManualLockPC \/ NewPeriod \/ SaveRequest

Next ==
    \/ LoopStep \/ NewRequest \/ RequestStep
    \/ \E t \in Threads : SaveStep(t)
    \/ Kill \/ Start \/ ClockTick \/ UserLocksOrUnlocks

Spec == Init /\ [][Next]_vars

\* The threads run, time goes on and a killed agent is started again.
FairSpec ==
    /\ Spec
    /\ WF_vars(LoopStep) /\ WF_vars(RequestStep)
    /\ \A t \in Threads : WF_vars(SaveStep(t))
    /\ WF_vars(Start) /\ WF_vars(ClockTick)

-----------------------------------------------------------------------------
(* Properties *)

DailySettings == [bed : TimesOfDay \cup {Unset}, wake : TimesOfDay,
                  allowance : Nat \cup {Unset}]
RuntimeState == [ts : Nat, acc : Nat, manual : BOOLEAN, ext : Nat, since : Nat]
Content == ({"good"} \X DailySettings) \cup {Absent, Empty, Junk}

\* Each variable is of its kind, and a save is under way exactly where its thread
\* waits for one.
TypeOK ==
    /\ now \in 0 .. MaxNow
    /\ screenLocked \in BOOLEAN
    /\ daily \in DailySettings
    /\ runtime \in RuntimeState /\ saved \in RuntimeState
    /\ lastTickAt \in Nat \cup {Unset}
    /\ sincePersist \in 0 .. PersistInterval
    /\ warningsSent \subseteq Warnings
    /\ warningsDate \in Int
    /\ loop \in {"down", "sleep", "reset", "ask", "credit", "warn", "enforce", "lock",
                 "persist", "save"}
    /\ frame \in [at : Nat, inLockWindow : BOOLEAN, asked : Nat]
    /\ request \in {"idle", "lock", "new_period", "save"}
    /\ saver \in [Threads -> [step : {"none", "keep", "open", "write", "replace", "state"},
                             payload : Content]]
    /\ main \in Content /\ bak \in Content /\ tmp \in Content
    /\ requests \in Nat /\ kills \in Nat
    /\ loop = "save" <=> saver["loop"].step # "none"
    /\ saver["request"].step # "none" => request = "save"

\* The user is never charged more than the time since the counters were reset, but
\* for one credit: a reset by a request can come between the tick and its credit,
\* and by the loop between a request's new wake time and its own reset.
UsageNeverExceedsTime ==
    runtime.acc <= now - runtime.since + (MaxTickGap - 1)

\* In the end the file holds the settings in force, whatever the two threads did to
\* each other's saves: a save that failed, one that brought an older copy back and
\* one that left a mixture are all made good.
SettingsReachTheDisk == <>[](loop # "down" => main = <<"good", daily>>)

\* agent_state.py:550-552: a file that is unusable is restored from the last good
\* copy, and only if there is none do defaults apply.
SomeCopyIsUsable == Usable(main) \/ Usable(bak)

\* docs/agent-protocol.md: the counters accumulate until the daily wake-time rollover.
\* What is charged to a usage period (of an unchanged wake time) is not more than the
\* time since it began and the one interval that was under way then.
RolloverResetsUsage ==
    loop = "warn" =>
        LET began == UsagePeriodDate(frame.at, daily.wake) * DayLength + daily.wake
        IN  runtime.acc <= frame.at - began + (MaxTickGap - 1)
=============================================================================
