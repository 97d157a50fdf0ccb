---------------------------- MODULE AgentControl ----------------------------
(***************************************************************************)
(* The agent on the kid PC (go/monitor, go/dispatcher and the in-memory    *)
(* side of go/state): a monitoring loop that counts usage, warns, locks and *)
(* saves, and a dispatcher that applies the parent's requests, both on one *)
(* Control guarded by a mutex.                                             *)
(*                                                                         *)
(* The mutex is released around every platform call (Control.unlocked), so *)
(* one step of the model is what a goroutine does from one place where the *)
(* other one, or the clock, can move to the next:                          *)
(*   - at loop \in {"active", "popup", "query", "lock"} the loop waits for *)
(*     a platform call and does not hold the mutex;                        *)
(*   - at loop \in LoopHolds it is between two phases of Step and does:    *)
(*     only the clock, the user, a crash can move.                         *)
(* The dispatcher applies a request and saves it in two critical sections  *)
(* (disp = "save" between them).                                           *)
(*                                                                         *)
(* Times are natural numbers of one unit, the second of the code, in which *)
(* DayLength is 86400 and MaxTickGap and PersistInterval are 60.           *)
(***************************************************************************)
EXTENDS LockPolicy, FiniteSets

CONSTANTS
    MaxTickGap,         \* a gap between two ticks this long is not credited
    PersistInterval,    \* time between two periodic saves
    Warnings,           \* the warning thresholds (time left before the lock)
    Monitored,          \* shouldMonitor() of the user the agent runs as
    DefaultWakeTime,    \* wake time when no settings could be loaded
    BedTimes, WakeTimes, Allowances, Extensions,    \* what the parent may send
    StartAt,            \* when the agent is installed
    MaxNow, MaxRequests, MaxFaults, MaxCrashes, MaxSetBacks, \* bounds for TLC
    SetBackTo      \* instants the clock may be set back to

ASSUME ControlAssumption ==
    /\ MaxTickGap \in Nat \ {0}
    /\ PersistInterval \in Nat \ {0}
    /\ Warnings \subseteq Nat \ {0}
    /\ Monitored \in BOOLEAN
    /\ DefaultWakeTime \in TimesOfDay
    /\ BedTimes \subseteq TimesOfDay
    /\ WakeTimes \subseteq TimesOfDay
    /\ Allowances \subseteq Nat \ {0}
    /\ Extensions \subseteq Nat \ {0}

ASSUME BoundsAssumption ==
    /\ StartAt \in Nat
    /\ MaxNow \in Nat
    /\ MaxRequests \in Nat
    /\ MaxFaults \in Nat
    /\ MaxCrashes \in Nat
    /\ MaxSetBacks \in Nat /\ SetBackTo \subseteq Nat

VARIABLES
    now,            \* the wall clock
    screenLocked,   \* the workstation is locked
    disk,           \* daily_settings.json and state.json, as Load would read them
    daily,          \* c.daily: bed, wake, allowance
    runtime,        \* c.runtime: ts, acc, manual, ext (and since, see below)
    loadFail,       \* c.stateLoadFail
    lastTickAt,     \* c.lastTickAt
    lastPersistAt,  \* c.lastPersistAt
    warningsSent,   \* c.warningsSent
    warningsDate,   \* c.warningsDate
    loop,           \* where the loop goroutine is
    frame,          \* the local variables it keeps across a platform call
    disp,           \* where the dispatcher goroutine is
    expected,       \* history: the values the parent has been told are in force,
                    \* those of them that the last save wrote, and whether a crash
                    \* has left open which of the two are on disk
    extended,       \* history: an extension came while the popup was being shown
    requests, faults, crashes, setBacks     \* spent of the bounds

memory == <<daily, runtime, loadFail, lastTickAt, lastPersistAt,
            warningsSent, warningsDate>>
spent == <<requests, faults, crashes, setBacks>>
vars == <<now, screenLocked, disk, memory, loop, frame, disp, expected,
          extended, spent>>

-----------------------------------------------------------------------------
(* State *)

DailySettings == [bed : TimesOfDay \cup {Unset}, wake : TimesOfDay,
                  allowance : Nat \cup {Unset}]

\* since is a history field: when these counters were last reset.  It goes to
\* disk and back with the counters it describes.
RuntimeState == [ts : Nat, acc : Nat, manual : BOOLEAN, ext : Nat, since : Nat]

FreshRuntimeState(t) ==
    [ts |-> t, acc |-> 0, manual |-> FALSE, ext |-> 0, since |-> t]

DefaultDaily == [bed |-> Unset, wake |-> DefaultWakeTime, allowance |-> Unset]

LoopHolds == {"warn", "enforce", "persist"}
LoopWaits == {"active", "popup", "query", "lock"}

NoFrame == [at |-> 0, inLockWindow |-> FALSE, mins |-> 0]

\* Mutant: compares calendar dates, so midnight is a rollover too.
RuntimeStateIsCurrentByDate(r, wake, t) == CalendarDate(r.ts) = CalendarDate(t)

RuntimeStateIsCurrent(r, wake, t) ==
    UsagePeriodDate(r.ts, wake) = UsagePeriodDate(t, wake)

ResetRuntimeIfNeeded(r, wake, t) ==
    IF RuntimeStateIsCurrent(r, wake, t) THEN r ELSE FreshRuntimeState(t)

\* c.inputs(c.clock()), of the settings d and the counters r.
PolicyInputs(d, r) ==
    [now |-> now, bed |-> d.bed, wake |-> d.wake,
     allowance |-> EffectiveDailyAllowanceMinutes(d.allowance, r.ext),
     accumulated |-> r.acc, exempt |-> ~Monitored, manual |-> r.manual]

\* What the parent was told about, out of the settings and the counters.
ToldOf(d, r) ==
    [bed |-> d.bed, wake |-> d.wake, allowance |-> d.allowance,
     manual |-> r.manual, ext |-> r.ext]

ToldType == [bed : TimesOfDay \cup {Unset}, wake : TimesOfDay,
             allowance : Nat \cup {Unset}, manual : BOOLEAN, ext : Nat]

\* A reset takes back the manual lock and the extensions, as told.
ToldAfterReset(told) == [told EXCEPT !.manual = FALSE, !.ext = 0]

-----------------------------------------------------------------------------
(* Loading and saving (state.Store, one file at a time, see StateStore)    *)

\* Mutant: every restart begins a new period.
LoadedRuntimeAlwaysFresh == FreshRuntimeState(now)

\* What Load returns: counters of an earlier usage period are reset in memory,
\* not on disk.
LoadedRuntime == ResetRuntimeIfNeeded(disk.runtime, disk.daily.wake, now)

SettingsOf(told) == [bed |-> told.bed, wake |-> told.wake, allowance |-> told.allowance]

\* What the parent may take to be in force once the files are read: all it was
\* told.  Of a request that a crash cut short (known is FALSE) the settings are
\* there or they are not, and its counters are not; what was answered before it
\* is there all the same.  A manual lock and the extensions are taken back when
\* the counters on disk belong to an earlier period, by the wake time on disk:
\* after a wake time cut short between the two files that need not be the one
\* they were saved under.
ExpectedOnLoad ==
    LET base == IF expected.known \/ SettingsOf(expected.told) = disk.daily
                THEN expected.told ELSE expected.saved
        told == IF RuntimeStateIsCurrent(disk.runtime, disk.daily.wake, now)
                THEN base ELSE ToldAfterReset(base)
    IN  [known |-> TRUE, told |-> told,
         saved |-> IF expected.known THEN expected.saved ELSE base]

\* A save writes all that the parent has been told.
AllSaved(e) == [e EXCEPT !.saved = e.told]

Fault == faults < MaxFaults /\ faults' = faults + 1
NoFault == UNCHANGED faults

\* Mutant: saves the counters and forgets the settings.
StoreSaveRuntimeOnly(d, r) ==
    LET stamped == [r EXCEPT !.ts = now]
    IN  NoFault /\ runtime' = stamped /\ disk' = [disk EXCEPT !.runtime = stamped]

\* store.Save of d and r: stamp, write daily_settings.json, write state.json.
\* An I/O error leaves the files that were not reached as they are; it is only
\* logged.
StoreSave(d, r) ==
    LET stamped == [r EXCEPT !.ts = now]
    IN  /\ runtime' = stamped
        /\ \/ /\ NoFault
              /\ disk' = [daily |-> d, runtime |-> stamped]
           \/ /\ Fault
              /\ disk' \in {disk, [disk EXCEPT !.daily = d]}

\* Mutant: after a failed load it never saves, and never tries the load again.
SaveStateWithoutReload ==
    /\ UNCHANGED <<daily, loadFail>>
    /\ expected' = IF loadFail THEN expected ELSE AllSaved(expected)
    /\ IF loadFail THEN NoFault /\ UNCHANGED <<runtime, disk>>
                   ELSE StoreSave(daily, runtime)

\* c.saveState(): while the files have not been read, try that again first, and
\* do not write what memory holds over them.
SaveState ==
    \/ /\ ~loadFail
       /\ StoreSave(daily, runtime)
       /\ expected' = AllSaved(expected)
       /\ UNCHANGED <<daily, loadFail>>
    \/ /\ loadFail
       /\ loadFail' = FALSE
       /\ daily' = disk.daily
       /\ expected' = AllSaved(ExpectedOnLoad)
       /\ StoreSave(disk.daily, LoadedRuntime)
    \/ /\ loadFail
       /\ Fault
       /\ UNCHANGED <<daily, runtime, loadFail, disk, expected>>

-----------------------------------------------------------------------------
(* The process *)

\* New: load the state, or start with defaults that must not be saved.
Start ==
    /\ loop = "down"
    /\ \/ /\ NoFault
          /\ daily' = disk.daily
          /\ runtime' = LoadedRuntime
          /\ loadFail' = FALSE
          /\ expected' = ExpectedOnLoad
       \/ /\ Fault
          /\ daily' = DefaultDaily
          /\ runtime' = FreshRuntimeState(now)
          /\ loadFail' = TRUE
          /\ UNCHANGED expected
    /\ lastTickAt' = Unset
    /\ lastPersistAt' = Unset
    /\ warningsSent' = {}
    /\ warningsDate' = UsagePeriodDate(now, daily'.wake)
    /\ loop' = "sleep"
    /\ UNCHANGED <<now, screenLocked, disk, frame, disp, extended,
                   requests, crashes, setBacks>>

\* What a process that dies leaves on disk: the settings are written before the
\* counters, so a save under way may have written the first and not the second.
DiskAfterCrash ==
    IF ~loadFail /\ (disp = "save" \/ loop = "persist")
    THEN {disk, [disk EXCEPT !.daily = daily]} ELSE {disk}

\* A request cut short: its settings may be on disk, its counters are not.
CutShort(e) == [e EXCEPT !.known = FALSE, !.told.manual = e.saved.manual,
                                          !.told.ext = e.saved.ext]

\* The process dies: power loss, log-off, kill.  What it had in memory is gone.
Crash ==
    /\ loop # "down"
    /\ crashes < MaxCrashes
    /\ crashes' = crashes + 1
    /\ loop' = "down"
    /\ disp' = "idle"
    /\ frame' = NoFrame
    /\ extended' = FALSE
    /\ expected' = IF disp = "idle" THEN expected ELSE CutShort(expected)
    /\ daily' = DefaultDaily
    /\ runtime' = FreshRuntimeState(0)
    /\ loadFail' = FALSE
    /\ lastTickAt' = Unset
    /\ lastPersistAt' = Unset
    /\ warningsSent' = {}
    /\ warningsDate' = 0
    /\ disk' \in DiskAfterCrash
    /\ UNCHANGED <<now, screenLocked, requests, faults, setBacks>>

-----------------------------------------------------------------------------
(* The monitoring loop: one Step, phase by phase *)

\* tickAccumulator up to the platform call: roll over, and decide whether a lock
\* is in force before asking whether the session is active.
TickBegin ==
    /\ loop = "sleep"
    /\ LET r == ResetRuntimeIfNeeded(runtime, daily.wake, now)
           reset == ~RuntimeStateIsCurrent(runtime, daily.wake, now)
       IN  /\ runtime' = r
           /\ expected' = IF reset /\ ~loadFail
                          THEN [expected EXCEPT !.told = ToldAfterReset(@)]
                          ELSE expected
           /\ IF Monitored
              THEN /\ loop' = "active"
                   /\ frame' = [NoFrame EXCEPT !.at = now,
                                   !.inLockWindow = ShouldLock(PolicyInputs(daily, r))]
                   /\ lastTickAt' = IF reset THEN Unset ELSE lastTickAt
              ELSE /\ loop' = "warn"
                   /\ lastTickAt' = Unset
                   /\ UNCHANGED frame
    /\ UNCHANGED <<now, screenLocked, disk, daily, loadFail, lastPersistAt,
                   warningsSent, warningsDate, disp, extended, spent>>

\* Mutant: credits whatever gap there is, long or negative.
TickCreditAnyGap ==
    /\ loop = "active"
    /\ runtime' = IF lastTickAt # Unset /\ ~frame.inLockWindow
                  THEN [runtime EXCEPT !.acc = @ + frame.at - lastTickAt] ELSE runtime
    /\ lastTickAt' = IF frame.inLockWindow THEN Unset ELSE frame.at
    /\ loop' = "warn"
    /\ frame' = NoFrame
    /\ UNCHANGED <<now, screenLocked, disk, daily, loadFail, lastPersistAt,
                   warningsSent, warningsDate, disp, expected, extended, spent>>

\* SessionIsActive answers (or fails, which counts as active): the time since
\* the last tick is credited unless it is too long, or a lock was in force.
TickCredit ==
    /\ loop = "active"
    /\ \E active \in BOOLEAN :
          IF active /\ ~frame.inLockWindow
          THEN /\ LET delta == frame.at - lastTickAt
                  IN  runtime' = IF lastTickAt # Unset /\ delta > 0 /\ delta < MaxTickGap
                                 THEN [runtime EXCEPT !.acc = @ + delta]
                                 ELSE runtime
               /\ lastTickAt' = frame.at
          ELSE /\ lastTickAt' = Unset
               /\ UNCHANGED runtime
    /\ loop' = "warn"
    /\ frame' = NoFrame
    /\ UNCHANGED <<now, screenLocked, disk, daily, loadFail, lastPersistAt,
                   warningsSent, warningsDate, disp, expected, extended, spent>>

\* checkAndSendWarnings up to the popup: forget the warnings of an earlier
\* period, and pick the smallest threshold that is due.
CheckWarnings ==
    /\ loop = "warn"
    /\ LET today == UsagePeriodDate(now, daily.wake)
           sent == IF today = warningsDate THEN warningsSent ELSE {}
           remaining == MinutesUntilLock(PolicyInputs(daily, runtime))
           due == {w \in Warnings \ sent : 0 < remaining /\ remaining <= w}
       IN  /\ warningsSent' = sent
           /\ warningsDate' = today
           /\ \/ /\ due = {}
                 /\ loop' = "enforce"
                 /\ UNCHANGED frame
              \/ /\ loop' = "popup"
                 /\ \E w \in due :
                       /\ \A v \in due : w <= v
                       /\ frame' = [NoFrame EXCEPT !.mins = w]
    /\ UNCHANGED <<now, screenLocked, disk, daily, runtime, loadFail, lastTickAt,
                   lastPersistAt, disp, expected, extended, spent>>

\* Mutant: marks only the threshold shown, not the larger ones.
PopupReturnsMarksOne ==
    /\ loop = "popup"
    /\ NoFault
    /\ warningsSent' = warningsSent \cup {frame.mins}
    /\ loop' = "enforce"
    /\ frame' = NoFrame
    /\ extended' = FALSE
    /\ UNCHANGED <<now, screenLocked, disk, daily, runtime, loadFail, lastTickAt,
                   lastPersistAt, warningsDate, disp, expected,
                   requests, crashes, setBacks>>

\* ShowMessage returns: shown, so this threshold and the larger ones count as
\* sent; or failed, and it will be tried again.
PopupReturns ==
    /\ loop = "popup"
    /\ \/ /\ NoFault
          /\ warningsSent' = warningsSent \cup {w \in Warnings : w >= frame.mins}
       \/ /\ Fault
          /\ UNCHANGED warningsSent
    /\ loop' = "enforce"
    /\ frame' = NoFrame
    /\ extended' = FALSE
    /\ UNCHANGED <<now, screenLocked, disk, daily, runtime, loadFail, lastTickAt,
                   lastPersistAt, warningsDate, disp, expected,
                   requests, crashes, setBacks>>

\* Mutant: enforces the schedule and the limit, not the manual lock.
EnforceScheduleOnly ==
    /\ loop = "enforce"
    /\ loop' = IF EnforcementState(PolicyInputs(daily, runtime)) # "none"
               THEN "query" ELSE "persist"
    /\ UNCHANGED <<now, screenLocked, disk, memory, frame, disp, expected,
                   extended, spent>>

\* enforceLockWindow: decide, and ask whether the screen is locked already.
Enforce ==
    /\ loop = "enforce"
    /\ loop' = IF ShouldLock(PolicyInputs(daily, runtime)) THEN "query" ELSE "persist"
    /\ UNCHANGED <<now, screenLocked, disk, memory, frame, disp, expected,
                   extended, spent>>

\* CheckSessionLocked answers; when it fails the screen counts as unlocked.
QueryReturns ==
    /\ loop = "query"
    /\ \/ NoFault /\ loop' = IF screenLocked THEN "persist" ELSE "lock"
       \/ Fault /\ loop' = "lock"
    /\ UNCHANGED <<now, screenLocked, disk, memory, frame, disp, expected,
                   extended, requests, crashes, setBacks>>

\* LockWorkstation returns to the loop.
LockReturns ==
    /\ loop = "lock"
    /\ \/ NoFault /\ screenLocked' = TRUE
       \/ Fault /\ UNCHANGED screenLocked
    /\ loop' = "persist"
    /\ UNCHANGED <<now, disk, memory, frame, disp, expected, extended,
                   requests, crashes, setBacks>>

\* Mutant: one unit late.
PersistDueLate ==
    \/ lastPersistAt = Unset
    \/ now < lastPersistAt
    \/ now - lastPersistAt > PersistInterval

PersistDue ==
    \/ lastPersistAt = Unset
    \/ now < lastPersistAt
    \/ now - lastPersistAt >= PersistInterval

\* persistIfDue: the end of Step.  A clock that went back counts as due.
PersistIfDue ==
    /\ loop = "persist"
    /\ loop' = "sleep"
    /\ \/ /\ PersistDue
          /\ SaveState
          /\ lastPersistAt' = now
       \/ /\ ~PersistDue
          /\ UNCHANGED <<daily, runtime, loadFail, disk, expected, lastPersistAt,
                         faults>>
    /\ UNCHANGED <<now, screenLocked, lastTickAt, warningsSent, warningsDate, frame,
                   disp, extended, requests, crashes, setBacks>>

-----------------------------------------------------------------------------
(* The dispatcher: one request at a time, applied in one critical section    *)
(* and saved in another                                                      *)

Running == loop # "down"

MutexFree == Running /\ loop \notin LoopHolds

\* The dispatcher has read a valid request that changes something.
Request ==
    /\ MutexFree
    /\ disp = "idle"
    /\ requests < MaxRequests
    /\ requests' = requests + 1
    /\ UNCHANGED <<now, screenLocked, disk, loadFail, lastPersistAt, loop, frame,
                   faults, crashes, setBacks>>

\* set and clear daily_limit
SetDailyAllowance ==
    /\ Request
    /\ \E m \in Allowances \cup {Unset} :
          /\ daily' = [daily EXCEPT !.allowance = m]
          /\ expected' = [expected EXCEPT !.told.allowance = m]
    /\ disp' = "save"
    /\ UNCHANGED <<runtime, lastTickAt, warningsSent, warningsDate, extended>>

SetBedTime ==
    /\ Request
    /\ \E t \in BedTimes :
          /\ daily' = [daily EXCEPT !.bed = t]
          /\ expected' = [expected EXCEPT !.told.bed = t]
    /\ disp' = "save"
    /\ UNCHANGED <<runtime, lastTickAt, warningsSent, warningsDate, extended>>

ClearBedTime ==
    /\ Request
    /\ daily' = [daily EXCEPT !.bed = Unset]
    /\ expected' = [expected EXCEPT !.told.bed = Unset]
    /\ disp' = "clear_warnings"
    /\ UNCHANGED <<runtime, lastTickAt, warningsSent, warningsDate, extended>>

\* Mutant: comes as a request of its own, behind the one that waits for it.
ClearWarningsQueued ==
    /\ MutexFree
    /\ disp = "idle"
    /\ warningsSent' = {}
    /\ UNCHANGED <<now, screenLocked, disk, daily, runtime, loadFail, lastTickAt,
                   lastPersistAt, warningsDate, loop, frame, disp, expected, extended,
                   spent>>

\* The second call of a cleared bed time, in a critical section of its own.
ClearWarnings ==
    /\ MutexFree
    /\ disp = "clear_warnings"
    /\ warningsSent' = {}
    /\ disp' = "save"
    /\ UNCHANGED <<now, screenLocked, disk, daily, runtime, loadFail, lastTickAt,
                   lastPersistAt, warningsDate, loop, frame, expected, extended, spent>>

\* Moving the wake time so that now is in a later period starts that period.
SetWakeTime ==
    /\ Request
    /\ \E t \in WakeTimes :
          LET newPeriod == UsagePeriodDate(now, daily.wake) < UsagePeriodDate(now, t)
              told == [expected.told EXCEPT !.wake = t]
          IN  /\ daily' = [daily EXCEPT !.wake = t]
              /\ warningsDate' = UsagePeriodDate(now, t)
              /\ \/ /\ newPeriod
                    /\ runtime' = FreshRuntimeState(now)
                    /\ lastTickAt' = Unset
                    /\ warningsSent' = {}
                    /\ expected' = [expected EXCEPT !.told = ToldAfterReset(told)]
                 \/ /\ ~newPeriod
                    /\ expected' = [expected EXCEPT !.told = told]
                    /\ UNCHANGED <<runtime, lastTickAt, warningsSent>>
    /\ disp' = "save"
    /\ UNCHANGED extended

\* More time for this period, which also lifts a manual lock.
ExtendTime ==
    /\ Request
    /\ \E m \in Extensions :
          /\ runtime' = [runtime EXCEPT !.ext = @ + m, !.manual = FALSE]
          /\ expected' = [expected EXCEPT !.told.ext = runtime.ext + m,
                                          !.told.manual = FALSE]
    /\ warningsSent' = {}
    /\ extended' = (loop = "popup")
    /\ disp' = "save"
    /\ UNCHANGED <<daily, lastTickAt, warningsDate>>

ClearExtensions ==
    /\ Request
    /\ runtime' = [runtime EXCEPT !.ext = 0]
    /\ expected' = [expected EXCEPT !.told.ext = 0]
    /\ disp' = "save"
    /\ UNCHANGED <<daily, lastTickAt, warningsSent, warningsDate, extended>>

\* lock, and set manual_lock true: the flag first, then the platform call.
EngageManualLock ==
    /\ Request
    /\ runtime' = [runtime EXCEPT !.manual = TRUE]
    /\ expected' = [expected EXCEPT !.told.manual = TRUE]
    /\ disp' = "lock"
    /\ UNCHANGED <<daily, lastTickAt, warningsSent, warningsDate, extended>>

ManualLockReturns ==
    /\ MutexFree
    /\ disp = "lock"
    /\ \/ NoFault /\ screenLocked' = TRUE
       \/ Fault /\ UNCHANGED screenLocked
    /\ disp' = "save"
    /\ UNCHANGED <<now, disk, memory, loop, frame, expected, extended,
                   requests, crashes, setBacks>>

\* unlock, set manual_lock false, and clear manual_lock
ClearManualLock ==
    /\ Request
    /\ runtime' = [runtime EXCEPT !.manual = FALSE]
    /\ expected' = [expected EXCEPT !.told.manual = FALSE]
    /\ disp' = "save"
    /\ UNCHANGED <<daily, lastTickAt, warningsSent, warningsDate, extended>>

\* The dispatcher's SaveState; then it answers ok, whatever became of the save.
SaveAndReply ==
    /\ MutexFree
    /\ disp = "save"
    /\ SaveState
    /\ disp' = "idle"
    /\ UNCHANGED <<now, screenLocked, lastTickAt, lastPersistAt, warningsSent,
                   warningsDate, loop, frame, extended, requests, crashes, setBacks>>

-----------------------------------------------------------------------------
(* Outside the agent *)

ClockTick ==
    /\ now < MaxNow
    /\ now' = now + 1
    /\ UNCHANGED <<screenLocked, disk, memory, loop, frame, disp, expected,
                   extended, spent>>

\* Somebody sets the clock back (or summer time ends).
ClockSetBack ==
    /\ setBacks < MaxSetBacks
    /\ setBacks' = setBacks + 1
    /\ \E t \in SetBackTo : t < now /\ now' = t
    /\ UNCHANGED <<screenLocked, disk, memory, loop, frame, disp, expected,
                   extended, requests, faults, crashes>>

\* The user locks the screen, or unlocks it with the password.
UserLocksOrUnlocks ==
    /\ screenLocked' = ~screenLocked
    /\ UNCHANGED <<now, disk, memory, loop, frame, disp, expected, extended, spent>>

-----------------------------------------------------------------------------
(* Specification *)

Init ==
    /\ now = StartAt
    /\ screenLocked = FALSE
    /\ \E d \in [bed : BedTimes \cup {Unset}, wake : WakeTimes \cup {DefaultWakeTime},
                 allowance : Allowances \cup {Unset}] :
          /\ disk = [daily |-> d, runtime |-> FreshRuntimeState(StartAt)]
          /\ LET told == ToldOf(d, FreshRuntimeState(StartAt))
             IN  expected = [known |-> TRUE, told |-> told, saved |-> told]
    /\ daily = DefaultDaily
    /\ runtime = FreshRuntimeState(0)
    /\ loadFail = FALSE
    /\ lastTickAt = Unset
    /\ lastPersistAt = Unset
    /\ warningsSent = {}
    /\ warningsDate = 0
    /\ loop = "down"
    /\ frame = NoFrame
    /\ disp = "idle"
    /\ extended = FALSE
    /\ requests = 0 /\ faults = 0 /\ crashes = 0 /\ setBacks = 0

LoopStep ==
    \/ TickBegin \/ TickCredit
    \/ CheckWarnings \/ PopupReturns
    \/ Enforce \/ QueryReturns \/ LockReturns
    \/ PersistIfDue

NewRequest ==
    \/ SetDailyAllowance \/ SetBedTime \/ ClearBedTime \/ SetWakeTime
    \/ ExtendTime \/ ClearExtensions \/ EngageManualLock \/ ClearManualLock

DispatcherStep == ClearWarnings \/ ManualLockReturns \/ SaveAndReply

Environment == ClockTick \/ ClockSetBack \/ UserLocksOrUnlocks

Next == Start \/ Crash \/ LoopStep \/ NewRequest \/ DispatcherStep \/ Environment

\* The goroutines run, platform calls return (with an answer or an error), and
\* the scheduled task starts the agent again.  The loop takes the mutex over and
\* over, so the dispatcher needs strong fairness, which sync.Mutex gives it (a
\* waiter that starves gets the lock handed over).  Time passes.  Nothing makes a parent send
\* a request, a user touch the screen, or a fault happen.
Fairness ==
    /\ WF_vars(Start)
    /\ WF_vars(LoopStep)
    /\ SF_vars(DispatcherStep)
    /\ WF_vars(ClockTick)

Spec == Init /\ [][Next]_vars

FairSpec == Spec /\ Fairness

-----------------------------------------------------------------------------
(* Properties *)

\* Every variable has its type; the counters are never negative.
TypeOK ==
    /\ now \in Nat
    /\ screenLocked \in BOOLEAN
    /\ disk \in [daily : DailySettings, runtime : RuntimeState]
    /\ daily \in DailySettings
    /\ runtime \in RuntimeState
    /\ loadFail \in BOOLEAN
    /\ lastTickAt \in Nat \cup {Unset}
    /\ lastPersistAt \in Nat \cup {Unset}
    /\ warningsSent \subseteq Warnings
    /\ warningsDate \in Int
    /\ loop \in {"down", "sleep"} \cup LoopHolds \cup LoopWaits
    /\ frame \in [at : Nat, inLockWindow : BOOLEAN, mins : Nat]
    /\ disp \in {"idle", "clear_warnings", "lock", "save"}
    /\ expected \in [known : BOOLEAN, told : ToldType, saved : ToldType]
    /\ extended \in BOOLEAN
    /\ requests \in Nat /\ faults \in Nat /\ crashes \in Nat /\ setBacks \in Nat

\* What the running agent enforces is what the parent was told: no interleaving
\* of the loop with a request, no crash and no restart undoes an answered write.
\* A crash in the middle of a request takes back nothing that was answered before
\* it: of that request all is in force, or nothing, or only its settings.  A
\* manual lock and the extensions are taken back by a rollover alone, with one
\* exception: a new wake time whose save a crash cut between the two files is
\* held against counters stamped under the old one, and the restart may then take
\* back an older lock in the middle of a period.  (As long as every file operation
\* succeeds and the clock does not go back.)
SettingsAsTold ==
    faults = 0 /\ setBacks = 0 /\ Running =>
        expected.known /\ ToldOf(daily, runtime) = expected.told

\* A power loss or a kill gives the user back almost nothing: at any moment the
\* usage counted since the last save is less than a save interval and two
\* credits.
CrashLosesLittleUsage ==
    faults = 0 /\ setBacks = 0 /\ Running =>
        runtime.acc <= disk.runtime.acc + (PersistInterval - 1) + 2 * (MaxTickGap - 1)

\* The user is never charged more than the time since the counters were reset
\* (and one credit: a tick that was under way when a new wake time reset them
\* leaves its own time behind as the last tick).
UsageNeverExceedsTime ==
    faults = 0 /\ setBacks = 0 =>
        runtime.acc <= now - runtime.since + (MaxTickGap - 1)

\* The warnings go down: while a popup is shown every threshold already warned
\* of is a larger one, so nobody with a few minutes left reads "15 minutes", and
\* a warning is not shown twice.
WarningsDescend ==
    loop = "popup" => \A w \in warningsSent : frame.mins < w

\* With the wake time left alone, the counters of a period are reset only when a
\* later period has begun: a restart, a crash or a reload is no way to a fresh
\* allowance.
ResetOnlyAtRollover ==
    [][/\ Running /\ Running'
       /\ ~loadFail /\ ~loadFail'
       /\ daily'.wake = daily.wake
       /\ runtime'.since # runtime.since
       /\ setBacks' = 0
       => UsagePeriodDate(runtime.since, daily.wake) < UsagePeriodDate(now, daily.wake)]_vars

\* The same across a restart: the counters on disk are used again unless a later
\* period has begun.
RestartKeepsTheCounters ==
    [][/\ ~Running /\ Running' /\ ~loadFail'
       /\ setBacks = 0
       /\ runtime' # disk.runtime
       => UsagePeriodDate(disk.runtime.since, disk.daily.wake)
             < UsagePeriodDate(now, disk.daily.wake)]_vars

MustLock == Running /\ ShouldLock(PolicyInputs(daily, runtime))

\* When the policy says lock, the screen is locked or the policy changes its mind
\* (a request, a rollover, the end of the curfew, a restart that cannot read the
\* settings), whatever the user does and whichever platform calls fail.
LockIsEnforced == MustLock ~> screenLocked \/ ~MustLock

\* A request that was begun is answered: the loop cannot keep the mutex from the
\* dispatcher, and a failing lock or save does not hold the answer back.
RequestsAreAnswered == disp # "idle" ~> disp = "idle"

\* Settings that could not be read at start are tried again at every save: unless
\* another I/O failure comes, built-in defaults are in force for one save interval
\* and no longer.  (Told of the times that leave the bounded clock an interval.)
LoadFailureHeals ==
    \A f \in 0 .. MaxFaults :
        loadFail /\ faults = f /\ now + PersistInterval < MaxNow
            ~> ~loadFail \/ faults # f

(* What the documentation says, and the code does not do *)

\* docs/agent-protocol.md: an answered write is in force, here once the agent has
\* read its files again and the dispatcher is idle.
AnsweredWriteIsInForce ==
    Running /\ ~loadFail /\ disp = "idle" /\ expected.known =>
        ToldOf(daily, runtime) = expected.told

\* README.md: a manual lock remains active until it is cleared.  Here: a restart
\* takes back a saved one only when a later period has begun than the one it was
\* saved in, under the wake time it was saved with.
ManualLockRemains ==
    [][/\ ~Running /\ Running' /\ ~loadFail'
       /\ disk.runtime.manual /\ ~runtime'.manual
       => UsagePeriodDate(disk.runtime.ts, expected.saved.wake)
             < UsagePeriodDate(now, expected.saved.wake)]_vars

\* README.md: warnings reset after a time extension.  An extension applied while
\* a popup is being shown leaves no warning marked as sent.
ExtensionResetsWarnings ==
    [][loop = "popup" /\ loop' = "enforce" /\ extended => warningsSent' = {}]_vars
=============================================================================
