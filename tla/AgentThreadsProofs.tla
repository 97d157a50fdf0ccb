-------------------------- MODULE AgentThreadsProofs --------------------------
(***************************************************************************)
(* What holds of the agent's two threads, without a lock between them, for *)
(* every length of the day, every schedule and every bound.                *)
(***************************************************************************)
EXTENDS AgentThreads, TLAPS

USE DayLengthAssumption, ThreadsAssumption

-----------------------------------------------------------------------------
(* Lemmas about the operators *)

\* The bounds are numbers, each within its range.
LEMMA Bounds ==
    /\ MaxNow \in Nat /\ MaxRequests \in Nat /\ MaxKills \in Nat
    /\ 0 \in 0 .. MaxNow /\ PersistInterval \in 0 .. PersistInterval
  <1>1. MaxNow \in Nat /\ MaxRequests \in Nat /\ MaxKills \in Nat
    OBVIOUS
  <1> QED BY <1>1

\* A usage period has an integer label.
LEMMA PeriodType ==
    ASSUME NEW t \in Nat, NEW wake \in Int
    PROVE  UsagePeriodDate(t, wake) \in Int
  <1>1. CalendarDate(t) \in Int
    BY DEF CalendarDate
  <1> QED BY <1>1 DEF UsagePeriodDate

\* Unset is told apart from every time.
LEMMA UnsetIsNoTime == Unset \in Int /\ Unset \notin Nat
  BY DEF Unset

\* Fresh counters are well typed.
LEMMA FreshType ==
    ASSUME NEW t \in Nat
    PROVE  FreshRuntimeState(t) \in RuntimeState
  BY DEF FreshRuntimeState, RuntimeState

\* A usable file holds settings.
LEMMA UsableType ==
    ASSUME NEW c \in Content, Usable(c)
    PROVE  c[2] \in DailySettings
  BY DEF Content, Usable, Absent, Empty, Junk

\* What is loaded is well typed, whatever the files hold.
LEMMA LoadedType ==
    ASSUME main \in Content, bak \in Content
    PROVE  Loaded \in DailySettings
  <1>1. DefaultDaily \in DailySettings
    BY DEF DefaultDaily, DailySettings
  <1> QED BY <1>1, UsableType DEF Loaded

\* What is put into a file is a content.
LEMMA GoodType ==
    ASSUME NEW d \in DailySettings
    PROVE  <<"good", d>> \in Content
  BY DEF Content

\* What is credited is not negative, less than a gap, and nothing if there is no
\* last tick.
LEMMA CreditedBound ==
    ASSUME NEW from \in Nat \cup {Unset}, NEW to \in Nat
    PROVE  /\ Credited(from, to) \in 0 .. MaxTickGap - 1
           /\ from = Unset => Credited(from, to) = 0
           /\ from # Unset /\ from <= to => Credited(from, to) <= to - from
  BY UnsetIsNoTime DEF Credited

-----------------------------------------------------------------------------
(* Type correctness *)

\* The agent is well typed when it is installed.
LEMMA TypeInit == Init => TypeOK
  <1> SUFFICES ASSUME Init PROVE TypeOK
    OBVIOUS
  <1>1. InitialDaily \in DailySettings /\ InitialDaily.wake \in Int
    BY DEF DailySettings, TimesOfDay
  <1>2. <<"good", InitialDaily>> \in Content /\ Absent \in Content
    BY <1>1, GoodType DEF Content
  <1>3. warningsDate \in Int
    BY <1>1, PeriodType DEF Init
  <1>4. FreshRuntimeState(0) \in RuntimeState
    BY FreshType
  <1>5. saver \in [Threads -> [step : {"none", "keep", "open", "write", "replace", "state"},
                               payload : Content]]
    BY <1>2 DEF Init, NotSaving
  <1>6. /\ loop = "save" <=> saver["loop"].step # "none"
        /\ saver["request"].step # "none" => request = "save"
    BY DEF Init, NotSaving, Threads
  <1>7. frame \in [at : Nat, inLockWindow : BOOLEAN, asked : Nat]
    BY DEF Init, NoFrame
  <1>8. now \in 0 .. MaxNow /\ sincePersist \in 0 .. PersistInterval
    BY Bounds DEF Init
  <1> QED BY <1>1, <1>2, <1>3, <1>4, <1>5, <1>6, <1>7, <1>8 DEF Init, TypeOK

\* The phases of the loop keep the types.
LEMMA TypeLoop == TypeOK /\ LoopStep => TypeOK'
  <1> SUFFICES ASSUME TypeOK, LoopStep PROVE TypeOK'
    OBVIOUS
  <1>0. now \in Nat /\ daily.wake \in Int
    BY DEF TypeOK, DailySettings, TimesOfDay
  <1>1. CASE Tick
    BY <1>0, <1>1 DEF Tick, TypeOK, memory, files
  <1>2. CASE Reset
    <2>1. runtime' \in RuntimeState
      BY <1>2, FreshType DEF Reset, TypeOK
    <2> QED BY <1>2, <2>1 DEF Reset, TypeOK, files
  <1>3. CASE AskSession
    <2>1. ShouldLock(PolicyInputs) \in BOOLEAN
      BY DEF ShouldLock
    <2> QED BY <1>3, <2>1 DEF AskSession, TypeOK, memory, files
  <1>4. CASE Credit
    <2>1. Credited(lastTickAt, frame.at) \in Nat
      <3>1. lastTickAt \in Nat \cup {Unset} /\ frame.at \in Nat
        BY DEF TypeOK
      <3>2. Credited(lastTickAt, frame.at) \in 0 .. MaxTickGap - 1
        BY <3>1, CreditedBound
      <3> QED BY <3>2
    <2>2. runtime' \in RuntimeState /\ lastTickAt' \in Nat \cup {Unset}
      BY <1>4, <2>1 DEF Credit, TypeOK, RuntimeState
    <2> QED BY <1>4, <2>2 DEF Credit, TypeOK, files
  <1>5. CASE CheckAndSendWarnings
    <2>1. warningsDate' \in Int
      BY <1>0, <1>5, PeriodType DEF CheckAndSendWarnings
    <2>2. warningsSent' \subseteq Warnings
      BY <1>5 DEF CheckAndSendWarnings, TypeOK
    <2>3. /\ loop = "warn" /\ loop' = "enforce"
          /\ UNCHANGED <<now, screenLocked, daily, runtime, lastTickAt, sincePersist, frame,
                         request, saver, files, requests, kills>>
      BY <1>5 DEF CheckAndSendWarnings
    <2> QED BY <2>1, <2>2, <2>3 DEF TypeOK, files
  <1>6. CASE EnforceLockWindow
    <2>1. /\ loop = "enforce" /\ loop' \in {"lock", "persist"}
          /\ UNCHANGED <<now, screenLocked, memory, frame, request, saver, files, requests,
                         kills>>
      BY <1>6 DEF EnforceLockWindow
    <2> QED BY <2>1 DEF TypeOK, memory, files
  <1>7. CASE LockPC
    BY <1>7 DEF LockPC, TypeOK, memory, files
  <1>8. CASE PersistIfDue
    <2>1. CASE BeginSave("loop") /\ loop' = "save"
      <3>1. <<"good", daily>> \in Content
        BY GoodType DEF TypeOK
      <3>2. /\ runtime' \in RuntimeState
            /\ saver' \in [Threads -> [step : {"none", "keep", "open", "write", "replace",
                                               "state"}, payload : Content]]
            /\ saver'["loop"].step # "none" /\ saver'["request"] = saver["request"]
        BY <1>0, <2>1, <3>1 DEF BeginSave, TypeOK, RuntimeState, Threads
      <3> QED BY <1>8, <2>1, <3>2 DEF PersistIfDue, TypeOK, files
    <2>2. CASE loop' = "sleep" /\ UNCHANGED <<runtime, saver>>
      BY <1>8, <2>2 DEF PersistIfDue, TypeOK, files
    <2> QED BY <1>8, <2>1, <2>2 DEF PersistIfDue
  <1> QED BY <1>1, <1>2, <1>3, <1>4, <1>5, <1>6, <1>7, <1>8 DEF LoopStep

\* So do new requests and what they go on with.
LEMMA TypeRequests == TypeOK /\ (NewRequest \/ RequestStep) => TypeOK'
  <1> SUFFICES ASSUME TypeOK, NewRequest \/ RequestStep PROVE TypeOK'
    OBVIOUS
  <1>0. now \in Nat /\ daily.wake \in Int
    BY DEF TypeOK, DailySettings, TimesOfDay
  <1>1. ASSUME Receive, request' \in {"lock", "new_period", "save"},
               daily' \in DailySettings, runtime' \in RuntimeState,
               lastTickAt' = lastTickAt, warningsSent' \subseteq Warnings,
               warningsDate' \in Int
        PROVE  TypeOK'
    <2>1. frame' \in [at : Nat, inLockWindow : BOOLEAN, asked : Nat] /\ requests' \in Nat
      BY <1>0, <1>1 DEF Receive, TypeOK
    <2> QED BY <1>1, <2>1 DEF Receive, TypeOK, files
  <1>2. CASE SetDailyAllowance
    <2>1. daily' \in DailySettings
      BY <1>2 DEF SetDailyAllowance, TypeOK, DailySettings
    <2> QED BY <1>1, <1>2, <2>1 DEF SetDailyAllowance, TypeOK
  <1>3. CASE SetBedTime
    <2>1. daily' \in DailySettings
      BY <1>3 DEF SetBedTime, TypeOK, DailySettings
    <2> QED BY <1>1, <1>3, <2>1 DEF SetBedTime, TypeOK
  <1>4. CASE ClearBedTime
    <2>1. daily' \in DailySettings
      BY <1>4 DEF ClearBedTime, TypeOK, DailySettings
    <2> QED BY <1>1, <1>4, <2>1 DEF ClearBedTime, TypeOK
  <1>5. CASE ExtendTime
    <2>1. runtime' \in RuntimeState
      <3>1. PICK m \in Extensions : runtime' = [runtime EXCEPT !.ext = @ + m, !.manual = FALSE]
        BY <1>5 DEF ExtendTime
      <3>2. m \in Nat
        OBVIOUS
      <3>3. runtime \in RuntimeState
        BY DEF TypeOK
      <3>4. runtime.ext + m \in Nat
        BY <3>2, <3>3 DEF RuntimeState
      <3>5. runtime' = [runtime EXCEPT !.ext = runtime.ext + m, !.manual = FALSE]
        BY <3>1
      <3> QED BY <3>3, <3>4, <3>5 DEF RuntimeState
    <2> QED BY <1>1, <1>5, <2>1 DEF ExtendTime, TypeOK
  <1>6. CASE ClearExtensions
    <2>1. runtime' \in RuntimeState
      BY <1>6 DEF ClearExtensions, TypeOK, RuntimeState
    <2> QED BY <1>1, <1>6, <2>1 DEF ClearExtensions, TypeOK
  <1>7. CASE EngageManualLock
    <2>1. runtime' \in RuntimeState
      BY <1>7 DEF EngageManualLock, TypeOK, RuntimeState
    <2> QED BY <1>1, <1>7, <2>1 DEF EngageManualLock, TypeOK
  <1>8. CASE ClearManualLock
    <2>1. runtime' \in RuntimeState
      BY <1>8 DEF ClearManualLock, TypeOK, RuntimeState
    <2> QED BY <1>1, <1>8, <2>1 DEF ClearManualLock, TypeOK
  <1>9. CASE SetWakeTime
    <2>1. PICK t \in WakeTimes :
             /\ daily' = [daily EXCEPT !.wake = t]
             /\ \/ request' = "new_period" /\ UNCHANGED warningsDate
                \/ request' = "save" /\ warningsDate' = UsagePeriodDate(now, t)
      BY <1>9 DEF SetWakeTime
    <2>2. daily' \in DailySettings
      BY <2>1 DEF TypeOK, DailySettings
    <2>3. t \in Int
      BY DEF TimesOfDay
    <2>4. warningsDate' \in Int
      BY <1>0, <2>1, <2>3, PeriodType DEF TypeOK
    <2> QED BY <1>1, <1>9, <2>1, <2>2, <2>4 DEF SetWakeTime, TypeOK
  <1>10. CASE ManualLockPC
    BY <1>10 DEF ManualLockPC, TypeOK, memory, files
  <1>11. CASE NewPeriod
    <2>1. runtime' \in RuntimeState /\ warningsDate' \in Int
      BY <1>0, <1>11, FreshType, PeriodType DEF NewPeriod, TypeOK
    <2> QED BY <1>11, <2>1 DEF NewPeriod, TypeOK, files
  <1>12. CASE SaveRequest
    <2>1. <<"good", daily>> \in Content
      BY GoodType DEF TypeOK
    <2>2. /\ runtime' \in RuntimeState
          /\ saver' \in [Threads -> [step : {"none", "keep", "open", "write", "replace",
                                             "state"}, payload : Content]]
          /\ saver'["loop"] = saver["loop"]
      BY <1>0, <1>12, <2>1 DEF SaveRequest, BeginSave, TypeOK, RuntimeState, Threads
    <2>3. frame' \in [at : Nat, inLockWindow : BOOLEAN, asked : Nat]
      BY <1>12 DEF SaveRequest, TypeOK
    <2> QED BY <1>12, <2>2, <2>3 DEF SaveRequest, TypeOK, files
  <1> QED BY <1>2, <1>3, <1>4, <1>5, <1>6, <1>7, <1>8, <1>9, <1>10, <1>11, <1>12
          DEF NewRequest, RequestStep

\* The file operations of a save keep the types.
LEMMA TypeSaves == ASSUME TypeOK, NEW t \in Threads, SaveStep(t) PROVE TypeOK'
  <1>0. Empty \in Content /\ Junk \in Content /\ Absent \in Content
    BY DEF Content
  <1>1. ASSUME NEW step \in {"open", "write", "replace", "state"},
               saver[t].step # "none", Goes(t, step)
        PROVE  /\ saver' \in [Threads -> [step : {"none", "keep", "open", "write", "replace",
                                                  "state"}, payload : Content]]
               /\ \A u \in Threads : saver'[u].step = "none" <=> saver[u].step = "none"
    BY <1>1 DEF Goes, TypeOK
  <1>2. CASE KeepBackup(t)
    <2>1. saver[t].step # "none" /\ Goes(t, "open")
      BY <1>2 DEF KeepBackup, At
    <2> QED BY <1>1, <1>2, <2>1 DEF KeepBackup, TypeOK, memory, Threads
  <1>3. CASE OpenTemporary(t)
    <2>1. saver[t].step # "none" /\ Goes(t, "write")
      BY <1>3 DEF OpenTemporary, At
    <2> QED BY <1>0, <1>1, <1>3, <2>1 DEF OpenTemporary, TypeOK, memory, Threads
  <1>4. CASE WriteTemporary(t)
    <2>1. saver[t].step # "none" /\ Goes(t, "replace")
      BY <1>4 DEF WriteTemporary, At
    <2>2. tmp' \in Content
      BY <1>0, <1>4 DEF WriteTemporary, TypeOK
    <2>3. UNCHANGED <<now, screenLocked, memory, loop, frame, request, main, bak, saved,
                      requests, kills>>
      BY <1>4 DEF WriteTemporary
    <2> QED BY <1>1, <2>1, <2>2, <2>3 DEF TypeOK, memory, Threads
  <1>5. CASE Replace(t)
    <2>1. saver[t].step # "none" /\ Goes(t, "state")
      BY <1>5 DEF Replace, At
    <2> QED BY <1>0, <1>1, <1>5, <2>1 DEF Replace, TypeOK, memory, Threads
  <1>6. ASSUME saver[t].step # "none", SaveReturns(t)
        PROVE  /\ saver' \in [Threads -> [step : {"none", "keep", "open", "write", "replace",
                                                  "state"}, payload : Content]]
               /\ loop' \in {loop, "sleep"} /\ request' \in {request, "idle"}
               /\ sincePersist' \in 0 .. PersistInterval
               /\ loop' = "save" <=> saver'["loop"].step # "none"
               /\ saver'["request"].step # "none" => request' = "save"
    <2>1. NotSaving \in [step : {"none", "keep", "open", "write", "replace", "state"},
                         payload : Content]
      BY <1>0 DEF NotSaving
    <2>2. CASE t = "loop"
      BY <1>6, <2>1, <2>2 DEF SaveReturns, TypeOK, Threads, NotSaving
    <2>3. CASE t = "request"
      BY <1>6, <2>1, <2>3 DEF SaveReturns, TypeOK, Threads, NotSaving
    <2> QED BY <2>2, <2>3 DEF Threads
  <1>7. CASE ReplaceFails(t)
    <2>1. saver[t].step # "none" /\ SaveReturns(t)
      BY <1>7 DEF ReplaceFails, At
    <2>2. UNCHANGED <<now, screenLocked, daily, runtime, lastTickAt, warningsSent,
                      warningsDate, frame, files, requests, kills>>
      BY <1>7 DEF ReplaceFails
    <2> QED BY <1>6, <2>1, <2>2 DEF TypeOK, files
  <1>8. CASE WriteState(t)
    <2>1. saver[t].step # "none" /\ SaveReturns(t)
      BY <1>8 DEF WriteState, At
    <2>2. /\ saved' = runtime
          /\ UNCHANGED <<now, screenLocked, daily, runtime, lastTickAt, warningsSent,
                         warningsDate, frame, main, bak, tmp, requests, kills>>
      BY <1>8 DEF WriteState
    <2> QED BY <1>6, <2>1, <2>2 DEF TypeOK
  <1> QED BY <1>2, <1>3, <1>4, <1>5, <1>7, <1>8 DEF SaveStep

\* So do a kill, a start, the clock and the user.
LEMMA TypeWorld ==
    ASSUME TypeOK, Kill \/ Start \/ ClockTick \/ UserLocksOrUnlocks \/ UNCHANGED vars
    PROVE  TypeOK'
  <1>1. CASE Kill
    <2>1. saver' = [u \in Threads |-> NotSaving] /\ Absent \in Content /\ Empty \in Content
      BY <1>1 DEF Kill, Content
    <2>2. saver' \in [Threads -> [step : {"none", "keep", "open", "write", "replace",
                                          "state"}, payload : Content]]
      BY <2>1 DEF NotSaving
    <2>3. saver'["loop"].step = "none" /\ saver'["request"].step = "none"
      BY <2>1 DEF NotSaving, Threads
    <2>4. frame' \in [at : Nat, inLockWindow : BOOLEAN, asked : Nat]
      BY <1>1 DEF Kill, NoFrame
    <2>5. bak' \in Content
      BY <1>1, <2>1 DEF Kill, TypeOK
    <2>6. /\ loop' = "down" /\ request' = "idle" /\ kills' = kills + 1
          /\ UNCHANGED <<now, screenLocked, memory, main, tmp, saved, requests>>
      BY <1>1 DEF Kill
    <2> QED BY <2>2, <2>3, <2>4, <2>5, <2>6 DEF TypeOK, memory
  <1>2. CASE Start
    <2>1. Loaded \in DailySettings /\ Loaded.wake \in Int
      BY LoadedType DEF TypeOK, DailySettings, TimesOfDay
    <2>2. main' \in Content
      BY <1>2, <2>1, GoodType DEF Start
    <2>3. runtime' \in RuntimeState
      BY <1>2, FreshType DEF Start, TypeOK
    <2>4. warningsDate' \in Int
      <3>1. now \in Nat /\ warningsDate' = UsagePeriodDate(now, Loaded.wake)
        BY <1>2 DEF Start, TypeOK
      <3> QED BY <2>1, <3>1, PeriodType
    <2>5. bak' \in Content
      BY <1>2 DEF Start, TypeOK, Content
    <2>6. /\ loop = "down" /\ loop' = "sleep" /\ daily' = Loaded
          /\ lastTickAt' = Unset /\ sincePersist' = PersistInterval /\ warningsSent' = {}
          /\ UNCHANGED <<now, screenLocked, frame, request, saver, tmp, saved, requests,
                         kills>>
      BY <1>2 DEF Start
    <2> QED BY <2>1, <2>2, <2>3, <2>4, <2>5, <2>6 DEF TypeOK
  <1>3. CASE ClockTick
    BY <1>3 DEF ClockTick, TypeOK, files
  <1>4. CASE UserLocksOrUnlocks
    BY <1>4 DEF UserLocksOrUnlocks, TypeOK, memory, files
  <1>5. CASE UNCHANGED vars
    BY <1>5 DEF vars, TypeOK, memory, files
  <1> QED BY <1>1, <1>2, <1>3, <1>4, <1>5

\* Every step keeps the types.
LEMMA TypeNext == TypeOK /\ [Next]_vars => TypeOK'
  BY TypeLoop, TypeRequests, TypeSaves, TypeWorld DEF Next

\* Settings, counters and files keep their types, and a save is under way exactly
\* where its thread waits for one, however the two threads interleave.
THEOREM TypeCorrect == Spec => []TypeOK
  BY TypeInit, TypeNext, PTL DEF Spec

-----------------------------------------------------------------------------
(* Usage accounting *)

\* c is no more than the time from the last reset to t, and one credit.
Charged(c, since, t) ==
    IF t < since THEN c = 0 ELSE c <= t - since + (MaxTickGap - 1)

\* Inductive.  From Tick to Credit the loop has an old time in hand: if a request
\* has reset the counters since, nothing has been charged, and there is no last tick
\* to charge from.
UsageInv ==
    /\ runtime.since <= now /\ Charged(runtime.acc, runtime.since, now)
    /\ saved.since <= now /\ Charged(saved.acc, saved.since, now)
    /\ frame.at <= now /\ frame.asked <= now
    /\ lastTickAt # Unset =>
          lastTickAt <= now /\ Charged(runtime.acc, runtime.since, lastTickAt)
    /\ loop \in {"reset", "ask", "credit"} =>
          /\ Charged(runtime.acc, runtime.since, frame.at)
          /\ lastTickAt # Unset => lastTickAt <= frame.at /\ runtime.since <= frame.at

\* What of the accounting a step can leave alone.
UsageAlone ==
    /\ UNCHANGED <<now, lastTickAt, saved>>
    /\ runtime'.acc = runtime.acc /\ runtime'.since = runtime.since

\* Such a step keeps the invariant, unless it begins a tick.
LEMMA AloneKeeps ==
    ASSUME UsageInv, UsageAlone,
           frame'.at = frame.at /\ frame'.asked \in {frame.asked, now, 0},
           loop' \in {"reset", "ask", "credit"} => loop \in {"reset", "ask", "credit"},
           now \in Nat
    PROVE  UsageInv'
  BY DEF UsageInv, UsageAlone, Charged

\* Only these steps touch the accounting.
LEMMA OthersLeaveUsageAlone ==
    ASSUME TypeOK,
           \/ AskSession \/ CheckAndSendWarnings \/ EnforceLockWindow \/ LockPC
           \/ PersistIfDue \/ NewRequest \/ ManualLockPC \/ SaveRequest
           \/ UserLocksOrUnlocks \/ UNCHANGED vars
    PROVE  /\ UsageAlone
           /\ frame'.at = frame.at /\ frame'.asked \in {frame.asked, now, 0}
           /\ loop' \in {"reset", "ask", "credit"} => loop \in {"reset", "ask", "credit"}
  <1>0. runtime \in RuntimeState
        /\ frame \in [at : Nat, inLockWindow : BOOLEAN, asked : Nat]
    BY DEF TypeOK
  <1>1. CASE AskSession
    BY <1>0, <1>1 DEF AskSession, memory, files, UsageAlone
  <1>2. CASE CheckAndSendWarnings
    BY <1>2 DEF CheckAndSendWarnings, files, UsageAlone
  <1>3. CASE EnforceLockWindow
    BY <1>3 DEF EnforceLockWindow, memory, files, UsageAlone
  <1>4. CASE LockPC \/ ManualLockPC \/ UserLocksOrUnlocks \/ UNCHANGED vars
    BY <1>4 DEF LockPC, ManualLockPC, UserLocksOrUnlocks, vars, memory, files, UsageAlone
  <1>5. CASE PersistIfDue
    BY <1>0, <1>5 DEF PersistIfDue, BeginSave, files, UsageAlone, RuntimeState
  <1>6. CASE SaveRequest
    BY <1>0, <1>6 DEF SaveRequest, BeginSave, files, UsageAlone, RuntimeState
  <1>7. CASE SetDailyAllowance \/ SetBedTime \/ ClearBedTime \/ SetWakeTime
    BY <1>0, <1>7 DEF SetDailyAllowance, SetBedTime, ClearBedTime, SetWakeTime, Receive,
                      files, UsageAlone
  <1>8. CASE ExtendTime \/ ClearExtensions \/ EngageManualLock \/ ClearManualLock
    BY <1>0, <1>8, ZenonT(60) DEF ExtendTime, ClearExtensions, EngageManualLock, ClearManualLock,
                      Receive, files, UsageAlone, RuntimeState
  <1> QED BY <1>1, <1>2, <1>3, <1>4, <1>5, <1>6, <1>7, <1>8 DEF NewRequest

\* Every step keeps the invariant.
LEMMA UsageNext == TypeOK /\ UsageInv /\ [Next]_vars => UsageInv'
  <1> SUFFICES ASSUME TypeOK, UsageInv, [Next]_vars PROVE UsageInv'
    OBVIOUS
  <1>0. /\ now \in Nat /\ runtime \in RuntimeState /\ saved \in RuntimeState
        /\ lastTickAt \in Nat \cup {Unset}
        /\ frame \in [at : Nat, inLockWindow : BOOLEAN, asked : Nat]
        /\ frame.at \in Nat /\ frame.asked \in Nat
        /\ runtime.acc \in Nat /\ runtime.since \in Nat
        /\ saved.acc \in Nat /\ saved.since \in Nat
    BY DEF TypeOK, RuntimeState
  <1>1. CASE \/ AskSession \/ CheckAndSendWarnings \/ EnforceLockWindow \/ LockPC
             \/ PersistIfDue \/ NewRequest \/ ManualLockPC \/ SaveRequest
             \/ UserLocksOrUnlocks \/ UNCHANGED vars
    BY <1>0, <1>1, OthersLeaveUsageAlone, AloneKeeps
  <1>2. CASE Tick
    <2>1. /\ frame'.at = now /\ frame'.asked = frame.asked
          /\ UNCHANGED <<now, runtime, lastTickAt, saved>>
      BY <1>0, <1>2 DEF Tick, memory, files
    <2> QED BY <1>0, <2>1 DEF UsageInv
  <1>3. CASE Reset
    <2>1. /\ runtime'.acc = 0 /\ runtime'.since = frame.at /\ lastTickAt' = Unset
          /\ UNCHANGED <<now, frame, saved>>
      BY <1>3 DEF Reset, FreshRuntimeState, files
    <2> QED BY <1>0, <2>1 DEF UsageInv, Charged
  <1>4. CASE Credit
    <2>1. UNCHANGED <<now, frame, saved>> /\ loop = "credit" /\ loop' = "warn"
      BY <1>4 DEF Credit, files
    <2>2. CASE UNCHANGED runtime /\ lastTickAt' = Unset
      BY <1>0, <2>1, <2>2 DEF UsageInv
    <2>3. CASE /\ runtime' = [runtime EXCEPT !.acc = @ + Credited(lastTickAt, frame.at)]
               /\ lastTickAt' = frame.at
      <3>1. /\ runtime'.acc = runtime.acc + Credited(lastTickAt, frame.at)
            /\ runtime'.since = runtime.since
        BY <1>0, <2>3 DEF RuntimeState
      <3>2. Charged(runtime'.acc, runtime.since, frame.at)
        <4>1. CASE lastTickAt = Unset
          <5>1. Credited(lastTickAt, frame.at) = 0
            BY <1>0, <4>1, CreditedBound
          <5> QED BY <1>0, <2>1, <3>1, <5>1 DEF UsageInv
        <4>2. CASE lastTickAt # Unset
          <5>1. /\ lastTickAt \in Nat /\ lastTickAt <= frame.at /\ runtime.since <= frame.at
                /\ Charged(runtime.acc, runtime.since, lastTickAt)
            BY <1>0, <2>1, <4>2 DEF UsageInv
          <5>2. /\ Credited(lastTickAt, frame.at) \in 0 .. MaxTickGap - 1
                /\ Credited(lastTickAt, frame.at) <= frame.at - lastTickAt
            BY <1>0, <4>2, <5>1, CreditedBound
          <5> QED BY <1>0, <3>1, <5>1, <5>2 DEF Charged
        <4> QED BY <4>1, <4>2
      <3>3. Charged(runtime'.acc, runtime.since, now)
        <4>1. frame.at <= now /\ runtime.since <= now
          BY DEF UsageInv
        <4>2. Credited(lastTickAt, frame.at) \in 0 .. MaxTickGap - 1
          BY <1>0, CreditedBound
        <4>3. runtime'.acc \in Nat
          BY <1>0, <3>1, <4>2
        <4> QED BY <1>0, <3>2, <4>1, <4>3 DEF Charged
      <3> QED BY <1>0, <2>1, <2>3, <3>1, <3>2, <3>3 DEF UsageInv
    <2> QED BY <1>4, <2>2, <2>3 DEF Credit
  <1>5. CASE NewPeriod
    <2>1. /\ runtime'.acc = 0 /\ runtime'.since = frame.asked /\ lastTickAt' = Unset
          /\ UNCHANGED <<now, frame, saved>>
      BY <1>5 DEF NewPeriod, FreshRuntimeState, files
    <2> QED BY <1>0, <2>1 DEF UsageInv, Charged
  <1>6. ASSUME NEW t \in Threads, SaveStep(t)
        PROVE  UsageInv'
    <2>1. /\ UNCHANGED <<now, runtime, lastTickAt, frame>>
          /\ saved' \in {saved, runtime}
          /\ loop' \in {loop, "sleep"}
      BY <1>6 DEF SaveStep, KeepBackup, OpenTemporary, WriteTemporary, Replace, ReplaceFails,
                  WriteState, SaveReturns, memory, files
    <2> QED BY <1>0, <2>1 DEF UsageInv
  <1>7. CASE Kill
    <2>1. /\ UNCHANGED <<now, runtime, lastTickAt, saved>>
          /\ loop' = "down" /\ frame'.at = 0 /\ frame'.asked = 0
      BY <1>7 DEF Kill, memory, NoFrame
    <2> QED BY <1>0, <2>1 DEF UsageInv
  <1>8. CASE Start
    <2>1. /\ runtime' \in {saved, FreshRuntimeState(now)}
          /\ loop' = "sleep" /\ lastTickAt' = Unset
          /\ UNCHANGED <<now, frame, saved>>
      BY <1>8 DEF Start
    <2>2. CASE runtime' = saved
      BY <1>0, <2>1, <2>2 DEF UsageInv
    <2>3. CASE runtime' = FreshRuntimeState(now)
      <3>1. runtime'.acc = 0 /\ runtime'.since = now
        BY <2>3 DEF FreshRuntimeState
      <3> QED BY <1>0, <2>1, <3>1 DEF UsageInv, Charged
    <2> QED BY <2>1, <2>2, <2>3
  <1>9. CASE ClockTick
    <2>1. /\ now' \in {now, now + 1}
          /\ UNCHANGED <<runtime, lastTickAt, frame, saved, loop>>
      BY <1>9 DEF ClockTick, files
    <2> QED BY <1>0, <2>1 DEF UsageInv, Charged
  <1> QED BY <1>1, <1>2, <1>3, <1>4, <1>5, <1>6, <1>7, <1>8, <1>9
          DEF Next, LoopStep, RequestStep

\* Without a lock between the loop and the requests, a user is still never charged
\* more than the time since the counters were reset and one credit, for every gap
\* and schedule, any number of requests and of kills, whatever becomes of saves.
THEOREM UsageBounded == Spec => []UsageNeverExceedsTime
  <1>1. Init => UsageInv
    BY DEF Init, UsageInv, FreshRuntimeState, NoFrame, Charged
  <1>2. TypeOK /\ UsageInv /\ [Next]_vars => UsageInv'
    BY UsageNext
  <1>3. TypeOK /\ UsageInv => UsageNeverExceedsTime
    BY DEF TypeOK, RuntimeState, UsageInv, Charged, UsageNeverExceedsTime
  <1> QED BY <1>1, <1>2, <1>3, TypeCorrect, PTL DEF Spec
=============================================================================
