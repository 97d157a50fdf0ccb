------------------------- MODULE AgentControlProofs -------------------------
(***************************************************************************)
(* What holds of AgentControl for every length of the day, every schedule  *)
(* and every bound, across interleavings, crashes, restarts and saves:     *)
(* first warnings and usage; then that what the agent enforces is what the *)
(* parent was told, and that counters are reset only when a later usage    *)
(* period has begun.                                                       *)
(*                                                                         *)
(* The latter rest on time stamps: a save stamps the counters with the     *)
(* time, the stamp on disk is never later than the one in memory, and the  *)
(* label of a usage period never decreases as time goes on.  So a rollover *)
(* that is due in memory is due on disk as well, and a restart that finds  *)
(* the old counters there sees the same rollover.                          *)
(***************************************************************************)
EXTENDS AgentControl, TLAPS

USE DayLengthAssumption, ControlAssumption, BoundsAssumption

-----------------------------------------------------------------------------
(* Lemmas about the policy operators *)

\* A usage period has an integer label.
LEMMA PeriodType ==
    ASSUME NEW t \in Nat, NEW wake \in Int
    PROVE  UsagePeriodDate(t, wake) \in Int
  <1>1. CalendarDate(t) \in Int
    BY DEF CalendarDate
  <1> QED BY <1>1 DEF UsagePeriodDate

\* Unset is told apart from every time and every number of minutes.
LEMMA UnsetIsNotATime == Unset \in Int /\ Unset \notin Nat /\ Unset < 0
  BY DEF Unset

\* Counters that begin a usage period are well typed.
LEMMA FreshType ==
    ASSUME NEW t \in Nat
    PROVE  FreshRuntimeState(t) \in RuntimeState
  BY DEF FreshRuntimeState, RuntimeState

\* So are counters that are kept, or begin anew at a rollover.
LEMMA ResetType ==
    ASSUME NEW r \in RuntimeState, NEW wake \in Int, NEW t \in Nat
    PROVE  ResetRuntimeIfNeeded(r, wake, t) \in RuntimeState
  BY FreshType DEF ResetRuntimeIfNeeded

\* The settings a failed load leaves in force are well typed.
LEMMA DefaultType == DefaultDaily \in DailySettings
  BY DEF DefaultDaily, DailySettings

\* Times of day can be compared and added.
LEMMA TimesAreIntegers == TimesOfDay \subseteq Int
  BY DEF TimesOfDay

-----------------------------------------------------------------------------
(* Type correctness *)

\* What Load reads of well-typed files is well typed.
LEMMA LoadedType ==
    ASSUME TypeOK
    PROVE  /\ LoadedRuntime \in RuntimeState
           /\ disk.daily \in DailySettings
           /\ disk.runtime \in RuntimeState
           /\ disk.daily.wake \in Int
  <1>1. /\ disk.daily \in DailySettings
        /\ disk.runtime \in RuntimeState
    BY DEF TypeOK
  <1>2. disk.daily.wake \in Int
    BY <1>1, TimesAreIntegers DEF DailySettings
  <1>3. now \in Nat
    BY DEF TypeOK
  <1>4. LoadedRuntime \in RuntimeState
    BY <1>1, <1>2, <1>3, ResetType DEF LoadedRuntime
  <1> QED BY <1>1, <1>2, <1>4

\* What settings and counters tell the parent is of that type.
LEMMA ToldOfType ==
    ASSUME NEW d \in DailySettings, NEW r \in RuntimeState
    PROVE  ToldOf(d, r) \in ToldType
  BY DEF ToldOf, DailySettings, RuntimeState, ToldType

\* So is what the parent may take to be in force after a load.
LEMMA ExpectedOnLoadType ==
    ASSUME TypeOK
    PROVE  ExpectedOnLoad \in [known : BOOLEAN, told : ToldType, saved : ToldType]
  <1>1. expected \in [known : BOOLEAN, told : ToldType, saved : ToldType]
    BY DEF TypeOK
  <1>2. ASSUME NEW told \in ToldType PROVE ToldAfterReset(told) \in ToldType
    BY DEF ToldAfterReset, ToldType
  <1> QED BY <1>1, <1>2 DEF ExpectedOnLoad

\* A save leaves well-typed counters in memory and files on disk, also when it
\* fails between the two files.
LEMMA StoreSaveType ==
    ASSUME TypeOK, NEW d \in DailySettings, NEW r \in RuntimeState, StoreSave(d, r)
    PROVE  /\ runtime' \in RuntimeState
           /\ disk' \in [daily : DailySettings, runtime : RuntimeState]
           /\ faults' \in Nat
  <1>1. /\ now \in Nat
        /\ faults \in Nat
        /\ disk \in [daily : DailySettings, runtime : RuntimeState]
    BY DEF TypeOK
  <1>2. [r EXCEPT !.ts = now] \in RuntimeState
    BY <1>1 DEF RuntimeState
  <1>3. [disk EXCEPT !.daily = d] \in [daily : DailySettings, runtime : RuntimeState]
    BY <1>1
  <1> QED BY <1>1, <1>2, <1>3 DEF StoreSave, Fault, NoFault

\* So does a save that has to read the files again first.
LEMMA SaveStateType ==
    ASSUME TypeOK, SaveState
    PROVE  /\ daily' \in DailySettings
           /\ runtime' \in RuntimeState
           /\ loadFail' \in BOOLEAN
           /\ disk' \in [daily : DailySettings, runtime : RuntimeState]
           /\ expected' \in [known : BOOLEAN, told : ToldType, saved : ToldType]
           /\ faults' \in Nat
  <1>1. /\ daily \in DailySettings
        /\ runtime \in RuntimeState
        /\ loadFail \in BOOLEAN
        /\ faults \in Nat
        /\ disk \in [daily : DailySettings, runtime : RuntimeState]
        /\ expected \in [known : BOOLEAN, told : ToldType, saved : ToldType]
    BY DEF TypeOK, ToldType
  <1>2. CASE ~loadFail /\ StoreSave(daily, runtime)
             /\ expected' = AllSaved(expected)
             /\ UNCHANGED <<daily, loadFail>>
    <2>1. expected' \in [known : BOOLEAN, told : ToldType, saved : ToldType]
      BY <1>1, <1>2 DEF AllSaved
    <2> QED BY <1>1, <1>2, <2>1, StoreSaveType
  <1>3. CASE /\ loadFail' = FALSE /\ daily' = disk.daily
             /\ expected' = AllSaved(ExpectedOnLoad)
             /\ StoreSave(disk.daily, LoadedRuntime)
    <2>1. expected' \in [known : BOOLEAN, told : ToldType, saved : ToldType]
      BY <1>3, ExpectedOnLoadType DEF AllSaved
    <2> QED BY <1>3, <2>1, StoreSaveType, LoadedType
  <1>4. CASE Fault /\ UNCHANGED <<daily, runtime, loadFail, disk, expected>>
    BY <1>1, <1>4 DEF Fault
  <1> QED BY <1>2, <1>3, <1>4 DEF SaveState

\* The agent is well typed when it is installed.
LEMMA TypeInit == Init => TypeOK
  <1> SUFFICES ASSUME Init PROVE TypeOK
    OBVIOUS
  <1>1. PICK d \in [bed : BedTimes \cup {Unset}, wake : WakeTimes \cup {DefaultWakeTime},
                    allowance : Allowances \cup {Unset}] :
           /\ disk = [daily |-> d, runtime |-> FreshRuntimeState(StartAt)]
           /\ expected = [known |-> TRUE, told |-> ToldOf(d, FreshRuntimeState(StartAt)),
                          saved |-> ToldOf(d, FreshRuntimeState(StartAt))]
    BY DEF Init
  <1>2. d \in DailySettings
    BY DEF DailySettings
  <1>3. FreshRuntimeState(StartAt) \in RuntimeState /\ FreshRuntimeState(0) \in RuntimeState
    BY FreshType
  <1>4. ToldOf(d, FreshRuntimeState(StartAt)) \in ToldType
    BY <1>2, <1>3, ToldOfType
  <1>5. /\ disk \in [daily : DailySettings, runtime : RuntimeState]
        /\ expected \in [known : BOOLEAN, told : ToldType, saved : ToldType]
    BY <1>1, <1>2, <1>3, <1>4
  <1>6. frame \in [at : Nat, inLockWindow : BOOLEAN, mins : Nat]
    BY DEF Init, NoFrame
  <1>7. daily \in DailySettings /\ runtime \in RuntimeState
    BY <1>3, DefaultType DEF Init
  <1>8. /\ now \in Nat
        /\ requests \in Nat /\ faults \in Nat /\ crashes \in Nat /\ setBacks \in Nat
    BY DEF Init
  <1>9. screenLocked \in BOOLEAN /\ loadFail \in BOOLEAN /\ extended \in BOOLEAN
    BY DEF Init
  <1>10. /\ lastTickAt \in Nat \cup {Unset} /\ lastPersistAt \in Nat \cup {Unset}
         /\ warningsSent \subseteq Warnings
         /\ warningsDate \in Int
    BY DEF Init
  <1>11. /\ loop \in {"down", "sleep"} \cup LoopHolds \cup LoopWaits
         /\ disp \in {"idle", "clear_warnings", "lock", "save"}
    BY DEF Init
  <1> QED BY <1>5, <1>6, <1>7, <1>8, <1>9, <1>10, <1>11 DEF TypeOK, ToldType

\* Every step of the loop, the dispatcher, a crash, a start and the outside keeps
\* the types.
LEMMA TypeNext == TypeOK /\ [Next]_vars => TypeOK'
  <1> SUFFICES ASSUME TypeOK, [Next]_vars
               PROVE  TypeOK'
    OBVIOUS
  <1> USE DEF TypeOK
  <1>1. CASE QueryReturns
    BY <1>1 DEF QueryReturns, memory, spent, vars, LoopHolds, LoopWaits, Fault, NoFault
  <1>2. CASE LockReturns
    <2>1. screenLocked' \in BOOLEAN
      BY <1>2 DEF LockReturns
    <2>2. loop' = "persist" /\ faults' \in Nat
      BY <1>2 DEF LockReturns, Fault, NoFault
    <2>3. UNCHANGED <<now, disk, memory, frame, disp, expected, extended,
                      requests, crashes, setBacks>>
      BY <1>2 DEF LockReturns
    <2> QED BY <2>1, <2>2, <2>3 DEF memory, LoopHolds
  <1>3. CASE Enforce
    BY <1>3 DEF Enforce, memory, spent, vars, LoopHolds, LoopWaits, Fault, NoFault
  <1>4. CASE ClearWarnings
    BY <1>4 DEF ClearWarnings, memory, spent, vars, LoopHolds, LoopWaits, Fault, NoFault, MutexFree, Running
  <1>5. CASE ManualLockReturns
    <2>1. screenLocked' \in BOOLEAN
      BY <1>5 DEF ManualLockReturns
    <2>2. disp' = "save" /\ faults' \in Nat
      BY <1>5 DEF ManualLockReturns, Fault, NoFault
    <2>3. UNCHANGED <<now, disk, memory, loop, frame, expected, extended,
                      requests, crashes, setBacks>>
      BY <1>5 DEF ManualLockReturns
    <2> QED BY <2>1, <2>2, <2>3 DEF memory
  <1>6. CASE ClockTick
    BY <1>6 DEF ClockTick, memory, spent, vars, LoopHolds, LoopWaits, Fault, NoFault
  <1>7. CASE ClockSetBack
    BY <1>7 DEF ClockSetBack, memory, spent, vars, LoopHolds, LoopWaits, Fault, NoFault
  <1>8. CASE UserLocksOrUnlocks
    BY <1>8 DEF UserLocksOrUnlocks, memory, spent, vars, LoopHolds, LoopWaits, Fault, NoFault
  <1>9. CASE SetDailyAllowance
    BY <1>9, UnsetIsNotATime DEF SetDailyAllowance, Request, DailySettings, RuntimeState, ToldType
  <1>10. CASE SetBedTime
    BY <1>10, UnsetIsNotATime DEF SetBedTime, Request, DailySettings, RuntimeState, ToldType
  <1>11. CASE ClearBedTime
    BY <1>11, UnsetIsNotATime DEF ClearBedTime, Request, DailySettings, RuntimeState, ToldType
  <1>12. CASE ExtendTime
    <2>3. PICK m \in Extensions :
             /\ runtime' = [runtime EXCEPT !.ext = @ + m, !.manual = FALSE]
             /\ expected' = [expected EXCEPT !.told.ext = runtime.ext + m,
                                             !.told.manual = FALSE]
      BY <1>12 DEF ExtendTime
    <2>4. runtime.ext \in Nat /\ m \in Nat /\ runtime.ext + m \in Nat
      BY DEF RuntimeState
    <2>1. runtime' \in RuntimeState
      BY <2>3, <2>4 DEF RuntimeState
    <2>2. expected' \in [known : BOOLEAN, told : ToldType, saved : ToldType]
      BY <2>3, <2>4, ZenonT(60) DEF ToldType
    <2> QED BY <1>12, <2>1, <2>2 DEF ExtendTime, Request, ToldType
  <1>13. CASE ClearExtensions
    BY <1>13, UnsetIsNotATime DEF ClearExtensions, Request, DailySettings, RuntimeState, ToldType
  <1>14. CASE EngageManualLock
    <2>1. runtime' \in RuntimeState
      BY <1>14 DEF EngageManualLock, RuntimeState
    <2>2. expected' \in [known : BOOLEAN, told : ToldType, saved : ToldType]
      BY <1>14 DEF EngageManualLock, ToldType
    <2> QED BY <1>14, <2>1, <2>2 DEF EngageManualLock, Request, ToldType
  <1>15. CASE ClearManualLock
    <2>1. runtime' \in RuntimeState
      BY <1>15 DEF ClearManualLock, RuntimeState
    <2>2. expected' \in [known : BOOLEAN, told : ToldType, saved : ToldType]
      BY <1>15 DEF ClearManualLock, ToldType, RuntimeState
    <2> QED BY <1>15, <2>1, <2>2 DEF ClearManualLock, Request, ToldType
  <1>16. CASE SetWakeTime
    <2>1. PICK t \in WakeTimes : daily' = [daily EXCEPT !.wake = t]
                                 /\ warningsDate' = UsagePeriodDate(now, t)
      BY <1>16 DEF SetWakeTime
    <2>2. daily' \in DailySettings /\ warningsDate' \in Int
      BY <2>1, PeriodType, TimesAreIntegers DEF DailySettings
    <2>3. runtime' \in RuntimeState
      BY <1>16, FreshType DEF SetWakeTime
    <2>4. lastTickAt' \in Nat \cup {Unset} /\ warningsSent' \subseteq Warnings
      BY <1>16 DEF SetWakeTime
    <2>5. expected' \in [known : BOOLEAN, told : ToldType, saved : ToldType]
      <3>1. PICK u \in WakeTimes :
               LET told == [expected.told EXCEPT !.wake = u]
               IN  \/ expected' = [expected EXCEPT !.told = told]
                   \/ expected' = [expected EXCEPT !.told = ToldAfterReset(told)]
        BY <1>16 DEF SetWakeTime
      <3>2. [expected.told EXCEPT !.wake = u] \in ToldType
        BY DEF ToldType
      <3>3. ToldAfterReset([expected.told EXCEPT !.wake = u]) \in ToldType
        BY <3>2 DEF ToldType, ToldAfterReset
      <3> QED BY <3>1, <3>2, <3>3
    <2>6. /\ disp' = "save"
          /\ requests' \in Nat
          /\ UNCHANGED <<extended, now, screenLocked, disk, loadFail, lastPersistAt,
                         loop, frame, faults, crashes, setBacks>>
      BY <1>16 DEF SetWakeTime, Request
    <2> QED BY <2>2, <2>3, <2>4, <2>5, <2>6 DEF ToldType
  <1>17. CASE Start
    <2>1. /\ daily' \in DailySettings
          /\ runtime' \in RuntimeState
          /\ loadFail' \in BOOLEAN
          /\ expected' \in [known : BOOLEAN, told : ToldType, saved : ToldType]
          /\ faults' \in Nat
      <3>1. CASE /\ NoFault /\ daily' = disk.daily /\ runtime' = LoadedRuntime
                 /\ loadFail' = FALSE /\ expected' = ExpectedOnLoad
        BY <3>1, LoadedType, ExpectedOnLoadType DEF NoFault
      <3>2. CASE /\ Fault /\ daily' = DefaultDaily
                 /\ runtime' = FreshRuntimeState(now)
                 /\ loadFail' = TRUE /\ UNCHANGED expected
        <4>1. loadFail' \in BOOLEAN
          BY <3>2
        <4>2. /\ daily' \in DailySettings /\ runtime' \in RuntimeState
              /\ faults' \in Nat
          BY <3>2, DefaultType, FreshType DEF Fault
        <4>3. expected' \in [known : BOOLEAN, told : ToldType, saved : ToldType]
          BY <3>2 DEF ToldType
        <4> QED BY <4>1, <4>2, <4>3
      <3> QED BY <1>17, <3>1, <3>2 DEF Start
    <2>2. warningsDate' \in Int
      BY <1>17, <2>1, PeriodType, TimesAreIntegers DEF Start, DailySettings
    <2>3. /\ lastTickAt' = Unset /\ lastPersistAt' = Unset
          /\ warningsSent' = {}
          /\ loop' = "sleep"
          /\ UNCHANGED <<now, screenLocked, disk, frame, disp, extended,
                         requests, crashes, setBacks>>
      BY <1>17 DEF Start
    <2> QED BY <2>1, <2>2, <2>3 DEF ToldType
  <1>18. CASE Crash
    <2>1. daily' \in DailySettings /\ runtime' \in RuntimeState
      BY <1>18, DefaultType, FreshType DEF Crash
    <2>2. expected' \in [known : BOOLEAN, told : ToldType, saved : ToldType]
      BY <1>18 DEF Crash, CutShort, ToldType
    <2>3. frame' \in [at : Nat, inLockWindow : BOOLEAN, mins : Nat]
      BY <1>18 DEF Crash, NoFrame
    <2>4. extended' \in BOOLEAN /\ loadFail' \in BOOLEAN
      BY <1>18 DEF Crash
    <2>5. /\ loop' = "down" /\ disp' = "idle"
          /\ lastTickAt' = Unset /\ lastPersistAt' = Unset
          /\ warningsSent' = {} /\ warningsDate' = 0
          /\ crashes' = crashes + 1
          /\ UNCHANGED <<now, screenLocked, requests, faults, setBacks>>
      BY <1>18 DEF Crash
    <2>6. disk' \in [daily : DailySettings, runtime : RuntimeState]
      BY <1>18 DEF Crash, DiskAfterCrash
    <2> QED BY <2>1, <2>2, <2>3, <2>4, <2>5, <2>6 DEF ToldType
  <1>19. CASE TickBegin
    <2>1. runtime' \in RuntimeState
      BY <1>19, ResetType, TimesAreIntegers DEF TickBegin, DailySettings
    <2>2. expected' \in [known : BOOLEAN, told : ToldType, saved : ToldType]
      BY <1>19 DEF TickBegin, ToldAfterReset, ToldType
    <2>3. frame' \in [at : Nat, inLockWindow : BOOLEAN, mins : Nat]
      <3>1. \/ UNCHANGED frame
            \/ \E r : frame' = [NoFrame EXCEPT !.at = now, !.inLockWindow = ShouldLock(r)]
        BY <1>19 DEF TickBegin
      <3>2. ASSUME NEW b \in BOOLEAN
            PROVE  [NoFrame EXCEPT !.at = now, !.inLockWindow = b]
                      \in [at : Nat, inLockWindow : BOOLEAN, mins : Nat]
        BY DEF NoFrame
      <3>3. ASSUME NEW r PROVE ShouldLock(r) \in BOOLEAN
        BY DEF ShouldLock
      <3> QED BY <3>1, <3>2, <3>3
    <2>4. lastTickAt' \in Nat \cup {Unset} /\ loop' \in {"active", "warn"}
      BY <1>19 DEF TickBegin
    <2>5. UNCHANGED <<now, screenLocked, disk, daily, loadFail, lastPersistAt,
                      warningsSent, warningsDate, disp, extended, spent>>
      BY <1>19 DEF TickBegin
    <2> QED BY <2>1, <2>2, <2>3, <2>4, <2>5 DEF spent, ToldType, LoopHolds, LoopWaits
  <1>20. CASE TickCredit
    <2>1. PICK active \in BOOLEAN :
             IF active /\ ~frame.inLockWindow
             THEN /\ LET delta == frame.at - lastTickAt
                     IN  runtime' = IF lastTickAt # Unset /\ delta > 0 /\ delta < MaxTickGap
                                    THEN [runtime EXCEPT !.acc = @ + delta]
                                    ELSE runtime
                  /\ lastTickAt' = frame.at
             ELSE lastTickAt' = Unset /\ UNCHANGED runtime
      BY <1>20 DEF TickCredit
    <2>2. runtime' \in RuntimeState
      BY <2>1 DEF RuntimeState
    <2>3. lastTickAt' \in Nat \cup {Unset}
      BY <2>1
    <2>4. frame' \in [at : Nat, inLockWindow : BOOLEAN, mins : Nat] /\ loop' = "warn"
      BY <1>20 DEF TickCredit, NoFrame
    <2>5. UNCHANGED <<now, screenLocked, disk, daily, loadFail, lastPersistAt,
                      warningsSent, warningsDate, disp, expected, extended, spent>>
      BY <1>20 DEF TickCredit
    <2> QED BY <2>2, <2>3, <2>4, <2>5 DEF spent, LoopHolds
  <1>21. CASE CheckWarnings
    <2>1. warningsSent' \subseteq Warnings /\ loop' \in {"enforce", "popup"}
      BY <1>21 DEF CheckWarnings
    <2>2. warningsDate' \in Int
      BY <1>21, PeriodType, TimesAreIntegers DEF CheckWarnings, DailySettings
    <2>3. frame' \in [at : Nat, inLockWindow : BOOLEAN, mins : Nat]
      <3>1. \/ UNCHANGED frame
            \/ \E w \in Warnings : frame' = [NoFrame EXCEPT !.mins = w]
        BY <1>21 DEF CheckWarnings
      <3>2. ASSUME NEW w \in Warnings
            PROVE  [NoFrame EXCEPT !.mins = w]
                      \in [at : Nat, inLockWindow : BOOLEAN, mins : Nat]
        BY DEF NoFrame
      <3> QED BY <3>1, <3>2
    <2>4. UNCHANGED <<now, screenLocked, disk, daily, runtime, loadFail, lastTickAt,
                      lastPersistAt, disp, expected, extended, spent>>
      BY <1>21 DEF CheckWarnings
    <2> QED BY <2>1, <2>2, <2>3, <2>4 DEF spent, LoopHolds, LoopWaits
  <1>22. CASE PopupReturns
    <2>1. warningsSent' \subseteq Warnings /\ faults' \in Nat
      <3>1. CASE NoFault /\ warningsSent' = warningsSent
                                  \cup {w \in Warnings : w >= frame.mins}
        BY <3>1 DEF NoFault
      <3>2. CASE Fault /\ UNCHANGED warningsSent
        BY <3>2 DEF Fault
      <3> QED BY <1>22, <3>1, <3>2 DEF PopupReturns
    <2>2. frame' \in [at : Nat, inLockWindow : BOOLEAN, mins : Nat]
      BY <1>22 DEF PopupReturns, NoFrame
    <2>3. extended' \in BOOLEAN /\ loop' = "enforce"
      BY <1>22 DEF PopupReturns
    <2>4. UNCHANGED <<now, screenLocked, disk, daily, runtime, loadFail, lastTickAt,
                      lastPersistAt, warningsDate, disp, expected,
                      requests, crashes, setBacks>>
      BY <1>22 DEF PopupReturns
    <2> QED BY <2>1, <2>2, <2>3, <2>4 DEF LoopHolds
  <1>23. CASE PersistIfDue
    <2>1. /\ loop' = "sleep"
          /\ UNCHANGED <<now, screenLocked, lastTickAt, warningsSent, warningsDate,
                         frame, disp, extended, requests, crashes, setBacks>>
          /\ lastPersistAt' \in Nat \cup {Unset}
      BY <1>23 DEF PersistIfDue
    <2>2. CASE SaveState
      BY <2>1, <2>2, SaveStateType DEF ToldType
    <2>3. CASE UNCHANGED <<daily, runtime, loadFail, disk, expected, lastPersistAt,
                           faults>>
      BY <2>1, <2>3
    <2> QED BY <1>23, <2>2, <2>3 DEF PersistIfDue
  <1>24. CASE SaveAndReply
    <2>1. /\ disp' = "idle"
          /\ UNCHANGED <<now, screenLocked, lastTickAt, lastPersistAt, warningsSent,
                         warningsDate, loop, frame, extended, requests, crashes,
                         setBacks>>
          /\ SaveState
      BY <1>24 DEF SaveAndReply
    <2> QED BY <2>1, SaveStateType DEF ToldType
  <1>25. CASE UNCHANGED vars
    BY <1>25 DEF vars, memory, spent
  <1> QED
    BY <1>1, <1>2, <1>3, <1>4, <1>5, <1>6, <1>7, <1>8, <1>9, <1>10, <1>11, <1>12,
       <1>13, <1>14, <1>15, <1>16, <1>17, <1>18, <1>19, <1>20, <1>21, <1>22, <1>23,
       <1>24, <1>25
       DEF Next, LoopStep, NewRequest, DispatcherStep, Environment

\* Every reachable state is well typed.
THEOREM TypeCorrect == Spec => []TypeOK
  <1>1. Init => TypeOK
    BY TypeInit
  <1>2. TypeOK /\ [Next]_vars => TypeOK'
    BY TypeNext
  <1> QED BY <1>1, <1>2, PTL DEF Spec

-----------------------------------------------------------------------------
(* The warnings go down                                                    *)
(*                                                                         *)
(* A threshold counts as sent together with every larger one, so the set   *)
(* of those sent is closed upwards; one that is not in it is smaller than  *)
(* all that are.  A request that clears the set while the popup is shown   *)
(* only makes it smaller.                                                  *)

\* Inductive: the thresholds sent are closed upwards, and below a popup's own.
WarningsInv ==
    /\ \A w \in warningsSent : \A v \in Warnings : v >= w => v \in warningsSent
    /\ loop = "popup" => \A w \in warningsSent : frame.mins < w

\* Every step keeps it: only CheckWarnings, PopupReturns and the clearing of the
\* set concern it.
LEMMA WarningsNext == TypeOK /\ WarningsInv /\ [Next]_vars => WarningsInv'
  <1> SUFFICES ASSUME TypeOK, WarningsInv, [Next]_vars
               PROVE  WarningsInv'
    OBVIOUS
  <1> USE DEF WarningsInv
  <1>0. warningsSent \subseteq Warnings /\ frame.mins \in Nat
    BY DEF TypeOK
  <1>1. CASE CheckWarnings
    <2>1. PICK sent \in {warningsSent, {}} :
             /\ warningsSent' = sent
             /\ \/ loop' = "enforce"
                \/ /\ loop' = "popup"
                   /\ \E w \in Warnings \ sent : frame' = [NoFrame EXCEPT !.mins = w]
      BY <1>1 DEF CheckWarnings
    <2>2. \A w \in sent : \A v \in Warnings : v >= w => v \in sent
      BY <2>1
    <2>3. CASE loop' = "enforce"
      BY <2>1, <2>2, <2>3
    <2>4. CASE loop' = "popup"
      <3>1. PICK w \in Warnings \ sent : frame' = [NoFrame EXCEPT !.mins = w]
        BY <2>1, <2>4
      <3>2. frame'.mins = w
        BY <3>1 DEF NoFrame
      <3>3. \A x \in sent : w < x
        <4>1. TAKE x \in sent
        <4>2. x \in Nat /\ w \in Nat /\ w \in Warnings /\ w \notin sent
          BY <1>0, <2>1
        <4>3. w >= x => w \in sent
          BY <2>2, <4>2
        <4> QED BY <4>2, <4>3
      <3> QED BY <2>1, <2>2, <3>2, <3>3
    <2> QED BY <2>1, <2>3, <2>4
  <1>2. CASE PopupReturns
    <2>1. loop' = "enforce"
      BY <1>2 DEF PopupReturns
    <2>2. \/ warningsSent' = warningsSent \cup {w \in Warnings : w >= frame.mins}
          \/ warningsSent' = warningsSent
      BY <1>2 DEF PopupReturns
    <2>3. ASSUME NEW w \in warningsSent', NEW v \in Warnings, v >= w
          PROVE  v \in warningsSent'
      <3>1. v \in Nat /\ w \in Nat /\ w \in Warnings
        BY <1>0, <2>2
      <3>2. CASE w \in warningsSent
        BY <2>2, <2>3, <3>2
      <3>3. CASE w >= frame.mins /\ warningsSent' = warningsSent
                                       \cup {x \in Warnings : x >= frame.mins}
        BY <1>0, <2>3, <3>1, <3>3
      <3> QED BY <2>2, <3>2, <3>3
    <2> QED BY <2>1, <2>3
  <1>3. CASE Start \/ Crash
    BY <1>3 DEF Start, Crash
  <1>4. CASE SetWakeTime \/ ExtendTime \/ ClearWarnings
    BY <1>4 DEF SetWakeTime, ExtendTime, ClearWarnings, Request
  <1>5. CASE TickBegin \/ TickCredit \/ Enforce \/ QueryReturns \/ LockReturns
                \/ PersistIfDue
    <2>1. warningsSent' = warningsSent
      BY <1>5 DEF TickBegin, TickCredit, Enforce, QueryReturns, LockReturns, PersistIfDue,
                  memory
    <2>2. loop' # "popup"
      BY <1>5 DEF TickBegin, TickCredit, Enforce, QueryReturns, LockReturns, PersistIfDue
    <2> QED BY <2>1, <2>2
  <1>6. CASE SetDailyAllowance \/ SetBedTime \/ ClearBedTime \/ ClearExtensions
                \/ EngageManualLock \/ ClearManualLock
    BY <1>6 DEF SetDailyAllowance, SetBedTime, ClearBedTime, ClearExtensions,
                EngageManualLock, ClearManualLock, Request
  <1>7. CASE ManualLockReturns \/ SaveAndReply
    BY <1>7 DEF ManualLockReturns, SaveAndReply, memory
  <1>8. CASE Environment \/ UNCHANGED vars
    BY <1>8 DEF Environment, ClockTick, ClockSetBack, UserLocksOrUnlocks, vars, memory
  <1> QED
    BY <1>1, <1>2, <1>3, <1>4, <1>5, <1>6, <1>7, <1>8
       DEF Next, LoopStep, NewRequest, DispatcherStep

\* Whatever the thresholds are and however requests interleave with the popups,
\* a warning is followed only by a more urgent one, until the set is cleared.
THEOREM WarningsAlwaysDescend == Spec => []WarningsDescend
  <1>1. Init => WarningsInv
    BY DEF Init, WarningsInv
  <1>2. TypeOK /\ WarningsInv /\ [Next]_vars => WarningsInv'
    BY WarningsNext
  <1>3. WarningsInv => WarningsDescend
    BY DEF WarningsInv, WarningsDescend
  <1> QED BY <1>1, <1>2, <1>3, TypeCorrect, PTL DEF Spec

-----------------------------------------------------------------------------
(* Usage accounting                                                        *)
(*                                                                         *)
(* The two bounds are kept by the same few steps: those that charge usage, *)
(* save, load or reset.  The lemmas first say what all others leave alone. *)

\* What of the usage accounting a step can leave alone.
UsageAlone ==
    /\ UNCHANGED <<now, disk, loadFail, lastTickAt, lastPersistAt, setBacks>>
    /\ runtime'.acc = runtime.acc /\ runtime'.since = runtime.since
    /\ faults' = 0 => faults = 0

\* A request for another setting than the wake time does not touch it.
LEMMA SettingsLeaveUsageAlone ==
    ASSUME SetDailyAllowance \/ SetBedTime \/ ClearBedTime
    PROVE  UsageAlone /\ UNCHANGED <<loop, frame>>
  <1>1. Request /\ UNCHANGED <<runtime, lastTickAt>>
    BY DEF SetDailyAllowance, SetBedTime, ClearBedTime
  <1> QED BY <1>1 DEF Request, UsageAlone

\* Requests other than a new wake time, and the answers of platform calls to
\* the dispatcher, do not touch the accounting, wherever the loop is.
LEMMA RequestsLeaveUsageAlone ==
    ASSUME TypeOK,
           \/ SetDailyAllowance \/ SetBedTime \/ ClearBedTime \/ ExtendTime
           \/ ClearExtensions \/ EngageManualLock \/ ClearManualLock
           \/ ClearWarnings \/ ManualLockReturns \/ UserLocksOrUnlocks
           \/ UNCHANGED vars
    PROVE  UsageAlone /\ UNCHANGED <<loop, frame>>
  <1>0. faults \in Nat /\ runtime \in RuntimeState
    BY DEF TypeOK
  <1>1. CASE SetDailyAllowance \/ SetBedTime \/ ClearBedTime
    BY <1>1, SettingsLeaveUsageAlone, ZenonT(60)
  <1>2. CASE ExtendTime \/ ClearExtensions \/ EngageManualLock \/ ClearManualLock
    BY <1>0, <1>2 DEF ExtendTime, ClearExtensions, EngageManualLock, ClearManualLock,
                      Request, UsageAlone, RuntimeState
  <1>3. CASE ClearWarnings \/ UserLocksOrUnlocks \/ UNCHANGED vars
    BY <1>3 DEF ClearWarnings, UserLocksOrUnlocks, vars, memory, spent, UsageAlone
  <1>4. CASE ManualLockReturns
    BY <1>0, <1>4 DEF ManualLockReturns, memory, UsageAlone, Fault, NoFault
  <1> QED BY <1>1, <1>2, <1>3, <1>4

\* Nor do the loop's warnings and its enforcement.
LEMMA PhasesLeaveUsageAlone ==
    ASSUME TypeOK,
           CheckWarnings \/ PopupReturns \/ Enforce \/ QueryReturns \/ LockReturns
    PROVE  UsageAlone /\ loop' \notin {"sleep", "active"} /\ Running
  <1>0. faults \in Nat
    BY DEF TypeOK
  <1>1. CASE CheckWarnings
    BY <1>1 DEF CheckWarnings, UsageAlone, spent, Running
  <1>2. CASE PopupReturns
    BY <1>0, <1>2 DEF PopupReturns, UsageAlone, Fault, NoFault, Running
  <1>3. CASE Enforce
    BY <1>3 DEF Enforce, UsageAlone, memory, spent, Running
  <1>4. CASE QueryReturns
    BY <1>0, <1>4 DEF QueryReturns, UsageAlone, memory, Fault, NoFault, Running
  <1>5. CASE LockReturns
    BY <1>0, <1>5 DEF LockReturns, UsageAlone, memory, Fault, NoFault, Running
  <1> QED BY <1>1, <1>2, <1>3, <1>4, <1>5

\* A save that meets no fault puts the counters on disk as they are.
LEMMA SaveKeepsUsage ==
    ASSUME TypeOK, SaveState, ~loadFail, faults' = 0
    PROVE  /\ faults = 0 /\ ~loadFail'
           /\ runtime'.acc = runtime.acc /\ runtime'.since = runtime.since
           /\ disk'.runtime.acc = runtime.acc /\ disk'.runtime.since = runtime.since
  <1>0. faults \in Nat /\ runtime \in RuntimeState
    BY DEF TypeOK
  <1>1. StoreSave(daily, runtime) /\ UNCHANGED loadFail
    BY DEF SaveState
  <1>2. ~Fault
    BY <1>0 DEF Fault
  <1> QED BY <1>0, <1>1, <1>2 DEF StoreSave, NoFault, RuntimeState

\* c is no more than the time from the last reset to t, and one credit.
Charged(c, since, t) ==
    IF t < since THEN c = 0 ELSE c <= t - since + (MaxTickGap - 1)

\* Inductive.  A tick that is under way (loop = "active") was begun at frame.at;
\* if the counters have been reset since, nothing has been charged and there is
\* no last tick to charge from.
UsageInv ==
    faults = 0 /\ setBacks = 0 =>
        /\ ~loadFail
        /\ runtime.since <= now /\ Charged(runtime.acc, runtime.since, now)
        /\ disk.runtime.since <= now /\ Charged(disk.runtime.acc, disk.runtime.since, now)
        /\ lastTickAt # Unset =>
              lastTickAt <= now /\ Charged(runtime.acc, runtime.since, lastTickAt)
        /\ loop = "active" =>
              /\ frame.at <= now /\ Charged(runtime.acc, runtime.since, frame.at)
              /\ lastTickAt # Unset => lastTickAt <= frame.at /\ runtime.since <= frame.at

\* Every step keeps it: the ticks, the saves, the loads, the resets and the clock
\* each for a reason of their own, all others by leaving the accounting alone.
LEMMA UsageNext == TypeOK /\ UsageInv /\ [Next]_vars => UsageInv'
  <1> SUFFICES ASSUME TypeOK, UsageInv, [Next]_vars, faults' = 0, setBacks' = 0
               PROVE  UsageInv'
    BY DEF UsageInv
  <1>0. /\ now \in Nat /\ faults \in Nat /\ setBacks \in Nat
        /\ runtime \in RuntimeState /\ disk.runtime \in RuntimeState
        /\ lastTickAt \in Nat \cup {Unset} /\ frame.at \in Nat
        /\ runtime.acc \in Nat /\ runtime.since \in Nat
        /\ disk.runtime.acc \in Nat /\ disk.runtime.since \in Nat
    BY DEF TypeOK, RuntimeState
  <1>1. CASE \/ SetDailyAllowance \/ SetBedTime \/ ClearBedTime \/ ExtendTime
             \/ ClearExtensions \/ EngageManualLock \/ ClearManualLock
             \/ ClearWarnings \/ ManualLockReturns \/ UserLocksOrUnlocks
             \/ UNCHANGED vars
    BY <1>1, RequestsLeaveUsageAlone DEF UsageAlone, UsageInv
  <1>2. CASE CheckWarnings \/ PopupReturns \/ Enforce \/ QueryReturns \/ LockReturns
    BY <1>2, PhasesLeaveUsageAlone DEF UsageAlone, UsageInv
  <1>3. CASE ClockTick
    BY <1>0, <1>3 DEF ClockTick, spent, memory, UsageInv, Charged
  <1>4. CASE ClockSetBack
    BY <1>0, <1>4 DEF ClockSetBack
  <1>5. CASE Crash
    <2>1. /\ faults = 0 /\ setBacks = 0
          /\ loadFail' = FALSE /\ lastTickAt' = Unset /\ loop' = "down"
          /\ runtime' = FreshRuntimeState(0)
          /\ now' = now /\ disk' \in DiskAfterCrash
      BY <1>5 DEF Crash
    <2>2. disk'.runtime = disk.runtime
      BY <1>0, <2>1 DEF DiskAfterCrash, TypeOK
    <2> QED BY <1>0, <2>1, <2>2 DEF UsageInv, Charged, FreshRuntimeState
  <1>6. CASE Start
    <2>1. ~Fault
      BY <1>0 DEF Fault
    <2>2. /\ faults = 0 /\ setBacks = 0
          /\ ~loadFail' /\ lastTickAt' = Unset /\ loop' = "sleep"
          /\ runtime' \in {disk.runtime, FreshRuntimeState(now)}
          /\ UNCHANGED <<now, disk>>
      BY <1>6, <2>1 DEF Start, NoFault, LoadedRuntime, ResetRuntimeIfNeeded
    <2> QED BY <1>0, <2>2 DEF UsageInv, Charged, FreshRuntimeState
  <1>7. CASE SetWakeTime
    <2>1. /\ faults = 0 /\ setBacks = 0
          /\ UNCHANGED <<now, disk, loadFail, loop, frame>>
          /\ \/ UNCHANGED <<runtime, lastTickAt>>
             \/ runtime' = FreshRuntimeState(now) /\ lastTickAt' = Unset
      BY <1>7 DEF SetWakeTime, Request
    <2> QED BY <1>0, <2>1 DEF UsageInv, Charged, FreshRuntimeState
  <1>8. CASE TickBegin
    <2>1. /\ faults = 0 /\ setBacks = 0
          /\ UNCHANGED <<now, disk, loadFail>>
          /\ \/ runtime' = runtime /\ lastTickAt' \in {lastTickAt, Unset}
             \/ runtime' = FreshRuntimeState(now) /\ lastTickAt' = Unset
          /\ \/ loop' = "active" /\ frame'.at = now
             \/ loop' = "warn"
      BY <1>8 DEF TickBegin, spent, ResetRuntimeIfNeeded, NoFrame
    <2> QED BY <1>0, <2>1 DEF UsageInv, Charged, FreshRuntimeState
  <1>9. CASE TickCredit
    <2>1. /\ faults = 0 /\ setBacks = 0 /\ loop = "active" /\ loop' = "warn"
          /\ UNCHANGED <<now, disk, loadFail>>
      BY <1>9 DEF TickCredit, spent
    <2>2. \/ /\ lastTickAt # Unset
             /\ frame.at - lastTickAt > 0
             /\ frame.at - lastTickAt < MaxTickGap
             /\ runtime'.acc = runtime.acc + (frame.at - lastTickAt)
             /\ runtime'.since = runtime.since
             /\ lastTickAt' = frame.at
          \/ runtime' = runtime /\ lastTickAt' \in {frame.at, Unset}
      BY <1>0, <1>9 DEF TickCredit, RuntimeState
    <2> QED BY <1>0, <2>1, <2>2 DEF UsageInv, Charged
  <1>10. CASE PersistIfDue
    <2>1. /\ loop' = "sleep" /\ setBacks = 0
          /\ UNCHANGED <<now, lastTickAt>>
          /\ SaveState \/ UNCHANGED <<runtime, loadFail, disk, faults>>
      BY <1>10 DEF PersistIfDue
    <2>2. faults = 0
      BY <1>0, <2>1 DEF SaveState, StoreSave, Fault, NoFault
    <2>3. ~loadFail
      BY <2>1, <2>2 DEF UsageInv
    <2> QED BY <1>0, <2>1, <2>2, <2>3, SaveKeepsUsage DEF UsageInv, Charged
  <1>11. CASE SaveAndReply
    <2>1. /\ setBacks = 0 /\ SaveState
          /\ UNCHANGED <<now, lastTickAt, loop, frame>>
      BY <1>11 DEF SaveAndReply
    <2>2. faults = 0
      BY <1>0, <2>1 DEF SaveState, StoreSave, Fault, NoFault
    <2>3. ~loadFail
      BY <2>1, <2>2 DEF UsageInv
    <2> QED BY <1>0, <2>1, <2>2, <2>3, SaveKeepsUsage DEF UsageInv, Charged
  <1> QED
    BY <1>1, <1>2, <1>3, <1>4, <1>5, <1>6, <1>7, <1>8, <1>9, <1>10, <1>11
       DEF Next, LoopStep, NewRequest, DispatcherStep, Environment

\* Nobody is charged more than the time that has passed since the counters were
\* reset (and one credit), for every gap, interval and schedule, whatever the
\* parent sends and wherever the agent dies.
THEOREM UsageBounded == Spec => []UsageNeverExceedsTime
  <1>1. Init => UsageInv
    BY DEF Init, UsageInv, Charged, FreshRuntimeState
  <1>2. TypeOK /\ UsageInv /\ [Next]_vars => UsageInv'
    BY UsageNext
  <1>3. TypeOK /\ UsageInv => UsageNeverExceedsTime
    BY DEF TypeOK, RuntimeState, UsageInv, Charged, UsageNeverExceedsTime
  <1> QED BY <1>1, <1>2, <1>3, TypeCorrect, PTL DEF Spec

-----------------------------------------------------------------------------
(* What a crash loses                                                      *)
(*                                                                         *)
(* Usage is counted only up to the last tick, so what is not on disk yet   *)
(* is no more than the time from the last save to the last tick, and one   *)
(* credit that reached back before the save.  A round of the loop that     *)
(* does not save ends less than PersistInterval after the last save; the   *)
(* next round adds at most one credit before it looks again.               *)

\* What is not saved is at most the time from the last periodic save to t, and
\* one credit.
Unsaved(t) ==
    \/ runtime.acc <= disk.runtime.acc
    \/ runtime.acc - disk.runtime.acc <= t - lastPersistAt + (MaxTickGap - 1)

\* Inductive.  Before the first round of the loop has ended, nothing that is not
\* on disk has been counted.
LossInv ==
    faults = 0 /\ setBacks = 0 /\ Running =>
        /\ ~loadFail
        /\ lastTickAt # Unset => lastTickAt <= now
        /\ loop = "active" =>
              frame.at <= now /\ (lastTickAt # Unset => lastTickAt <= frame.at)
        /\ lastPersistAt = Unset =>
              /\ runtime.acc <= disk.runtime.acc
              /\ loop \in {"sleep", "active"} => lastTickAt = Unset
        /\ lastPersistAt # Unset =>
              /\ lastPersistAt <= now /\ Unsaved(now)
              /\ lastTickAt # Unset => Unsaved(lastTickAt)
              /\ loop = "active" => lastPersistAt <= frame.at /\ Unsaved(frame.at)
              /\ loop \in {"sleep", "active"} =>
                    runtime.acc - disk.runtime.acc <= (PersistInterval - 1) + (MaxTickGap - 1)
              /\ runtime.acc - disk.runtime.acc <= (PersistInterval - 1) + 2 * (MaxTickGap - 1)

\* Every step keeps it: only the rounds of the loop add to what is unsaved, and
\* every save, load and reset makes it nothing.
LEMMA LossNext == TypeOK /\ LossInv /\ [Next]_vars => LossInv'
  <1> SUFFICES ASSUME TypeOK, LossInv, [Next]_vars,
                      faults' = 0, setBacks' = 0, Running'
               PROVE  LossInv'
    BY DEF LossInv
  <1>0. /\ now \in Nat /\ faults \in Nat /\ setBacks \in Nat
        /\ runtime \in RuntimeState /\ disk.runtime \in RuntimeState
        /\ lastTickAt \in Nat \cup {Unset} /\ frame.at \in Nat
        /\ lastPersistAt \in Nat \cup {Unset}
        /\ runtime.acc \in Nat /\ disk.runtime.acc \in Nat
        /\ MaxTickGap \in Nat \ {0} /\ PersistInterval \in Nat \ {0}
    BY ControlAssumption DEF TypeOK, RuntimeState
  <1>1. CASE \/ SetDailyAllowance \/ SetBedTime \/ ClearBedTime \/ ExtendTime
             \/ ClearExtensions \/ EngageManualLock \/ ClearManualLock
             \/ ClearWarnings \/ ManualLockReturns \/ UserLocksOrUnlocks
             \/ UNCHANGED vars
    BY <1>1, RequestsLeaveUsageAlone DEF UsageAlone, LossInv, Unsaved, Running
  <1>2. CASE CheckWarnings \/ PopupReturns \/ Enforce \/ QueryReturns \/ LockReturns
    BY <1>2, PhasesLeaveUsageAlone DEF UsageAlone, LossInv, Unsaved
  <1>3. CASE ClockTick
    BY <1>0, <1>3 DEF ClockTick, spent, memory, LossInv, Unsaved, Running
  <1>4. CASE ClockSetBack
    BY <1>0, <1>4 DEF ClockSetBack
  <1>5. CASE Crash
    BY <1>5 DEF Crash, Running
  <1>6. CASE Start
    <2>1. ~Fault
      BY <1>0 DEF Fault
    <2>2. /\ ~loadFail' /\ lastTickAt' = Unset /\ lastPersistAt' = Unset /\ loop' = "sleep"
          /\ runtime' \in {disk.runtime, FreshRuntimeState(now)}
          /\ UNCHANGED disk
      BY <1>6, <2>1 DEF Start, NoFault, LoadedRuntime, ResetRuntimeIfNeeded
    <2>3. runtime'.acc <= disk'.runtime.acc
      BY <1>0, <2>2 DEF FreshRuntimeState
    <2> QED BY <2>2, <2>3 DEF LossInv
  <1>7. CASE SetWakeTime
    <2>1. /\ faults = 0 /\ setBacks = 0 /\ Running
          /\ UNCHANGED <<now, disk, loadFail, loop, frame, lastPersistAt>>
          /\ \/ UNCHANGED <<runtime, lastTickAt>>
             \/ runtime'.acc = 0 /\ lastTickAt' = Unset
      BY <1>7 DEF SetWakeTime, Request, MutexFree, FreshRuntimeState
    <2> QED BY <1>0, <2>1, UnsetIsNotATime DEF LossInv, Unsaved
  <1>8. CASE TickBegin
    <2>1. /\ faults = 0 /\ setBacks = 0 /\ loop = "sleep"
          /\ UNCHANGED <<now, disk, loadFail, lastPersistAt>>
          /\ \/ runtime' = runtime /\ lastTickAt' \in {lastTickAt, Unset}
             \/ runtime'.acc = 0 /\ lastTickAt' = Unset
          /\ \/ loop' = "active" /\ frame'.at = now
             \/ loop' = "warn"
      BY <1>8 DEF TickBegin, spent, ResetRuntimeIfNeeded, NoFrame, FreshRuntimeState
    <2> QED BY <1>0, <2>1, UnsetIsNotATime DEF LossInv, Unsaved, Running
  <1>9. CASE TickCredit
    <2>1. /\ faults = 0 /\ setBacks = 0 /\ loop = "active" /\ loop' = "warn"
          /\ UNCHANGED <<now, disk, loadFail, lastPersistAt>>
      BY <1>9 DEF TickCredit, spent
    <2>2. \/ /\ lastTickAt # Unset
             /\ frame.at - lastTickAt > 0
             /\ frame.at - lastTickAt < MaxTickGap
             /\ runtime'.acc = runtime.acc + (frame.at - lastTickAt)
             /\ lastTickAt' = frame.at
          \/ runtime' = runtime /\ lastTickAt' \in {frame.at, Unset}
      BY <1>0, <1>9 DEF TickCredit, RuntimeState
    <2> QED BY <1>0, <2>1, <2>2, UnsetIsNotATime DEF LossInv, Unsaved, Running
  <1>10. CASE PersistIfDue
    <2>1. /\ loop = "persist" /\ loop' = "sleep" /\ setBacks = 0
          /\ UNCHANGED <<now, lastTickAt>>
      BY <1>10 DEF PersistIfDue
    <2>2. CASE SaveState /\ lastPersistAt' = now
      <3>1. faults = 0
        BY <1>0, <2>2 DEF SaveState, StoreSave, Fault, NoFault
      <3>2. ~loadFail
        BY <2>1, <3>1 DEF LossInv, Running
      <3>3. ~loadFail' /\ runtime'.acc = disk'.runtime.acc
        BY <2>2, <3>2, SaveKeepsUsage
      <3>4. lastTickAt # Unset => lastTickAt <= now
        BY <1>0, <2>1, <3>1 DEF LossInv, Running
      <3>5. runtime'.acc \in Nat
        BY <1>0, <2>2, <3>2, SaveKeepsUsage
      <3> QED BY <1>0, <2>1, <2>2, <3>3, <3>4, <3>5, UnsetIsNotATime
                 DEF LossInv, Unsaved
    <2>3. CASE /\ ~PersistDue
               /\ UNCHANGED <<runtime, loadFail, disk, lastPersistAt, faults>>
      <3>1. lastPersistAt # Unset /\ now - lastPersistAt < PersistInterval
        BY <1>0, <2>3 DEF PersistDue
      <3> QED BY <1>0, <2>1, <2>3, <3>1 DEF LossInv, Unsaved, Running
    <2> QED BY <1>10, <2>2, <2>3 DEF PersistIfDue
  <1>11. CASE SaveAndReply
    <2>1. /\ setBacks = 0 /\ SaveState /\ Running
          /\ UNCHANGED <<now, lastTickAt, lastPersistAt, loop, frame>>
      BY <1>11 DEF SaveAndReply, MutexFree
    <2>2. faults = 0
      BY <1>0, <2>1 DEF SaveState, StoreSave, Fault, NoFault
    <2>3. ~loadFail
      BY <2>1, <2>2 DEF LossInv
    <2>4. /\ ~loadFail' /\ runtime'.acc = disk'.runtime.acc /\ runtime'.acc \in Nat
      BY <1>0, <2>1, <2>3, SaveKeepsUsage
    <2> QED BY <1>0, <2>1, <2>2, <2>4 DEF LossInv, Unsaved
  <1> QED
    BY <1>1, <1>2, <1>3, <1>4, <1>5, <1>6, <1>7, <1>8, <1>9, <1>10, <1>11
       DEF Next, LoopStep, NewRequest, DispatcherStep, Environment

\* Wherever the agent dies, less than a save interval and two credits of usage is
\* forgotten, for every interval and gap and any number of requests and crashes.
THEOREM CrashesLoseLittle == Spec => []CrashLosesLittleUsage
  <1>1. Init => LossInv
    BY DEF Init, LossInv, Running
  <1>2. TypeOK /\ LossInv /\ [Next]_vars => LossInv'
    BY LossNext
  <1>3. TypeOK /\ LossInv => CrashLosesLittleUsage
    <2> SUFFICES ASSUME TypeOK, LossInv, faults = 0, setBacks = 0, Running
                 PROVE  runtime.acc <= disk.runtime.acc + (PersistInterval - 1)
                                          + 2 * (MaxTickGap - 1)
      BY DEF CrashLosesLittleUsage
    <2>1. /\ runtime.acc \in Nat /\ disk.runtime.acc \in Nat
          /\ MaxTickGap \in Nat \ {0} /\ PersistInterval \in Nat \ {0}
      BY ControlAssumption DEF TypeOK, RuntimeState
    <2>2. \/ runtime.acc <= disk.runtime.acc
          \/ runtime.acc - disk.runtime.acc
                <= (PersistInterval - 1) + 2 * (MaxTickGap - 1)
      BY DEF LossInv
    <2> QED BY <2>1, <2>2
  <1> QED BY <1>1, <1>2, <1>3, TypeCorrect, PTL DEF Spec

-----------------------------------------------------------------------------
(* Usage periods follow each other *)

\* A time is so many whole days and a minute of the day.
LEMMA DaysAndMinutes ==
    ASSUME NEW t \in Nat
    PROVE  /\ t \div DayLength \in Nat
           /\ t % DayLength \in 0 .. DayLength - 1
           /\ t = DayLength * (t \div DayLength) + (t % DayLength)
  BY DayLengthAssumption

\* A day more is at least a day's length more.
LEMMA OneDayMore ==
    ASSUME NEW d \in Nat \ {0}, NEW p \in Nat, NEW q \in Nat, p >= q + 1
    PROVE  d * p >= d * q + d
  <1>1. PICK k \in Nat : p = q + 1 + k
    <2> WITNESS p - q - 1 \in Nat
    <2> QED OBVIOUS
  <1>2. d * p = d * q + d + d * k
    BY <1>1
  <1>3. d * k >= 0
    OBVIOUS
  <1> QED BY <1>2, <1>3

\* The label of a usage period never decreases as time goes on.
LEMMA PeriodMonotone ==
    ASSUME NEW s \in Nat, NEW t \in Nat, s <= t, NEW wake \in TimesOfDay
    PROVE  UsagePeriodDate(s, wake) <= UsagePeriodDate(t, wake)
  <1> DEFINE p == s \div DayLength
             q == t \div DayLength
  <1>0. DayLength \in Nat \ {0} /\ wake \in Int
    BY DayLengthAssumption DEF TimesOfDay
  <1>1. /\ p \in Nat /\ s % DayLength \in 0 .. DayLength - 1
        /\ s = DayLength * p + (s % DayLength)
    BY DaysAndMinutes
  <1>2. /\ q \in Nat /\ t % DayLength \in 0 .. DayLength - 1
        /\ t = DayLength * q + (t % DayLength)
    BY DaysAndMinutes
  <1> HIDE DEF p, q
  <1>3. DayLength * p \in Nat /\ DayLength * q \in Nat
    BY <1>0, <1>1, <1>2
  <1>4. p <= q
    <2> SUFFICES ASSUME p >= q + 1 PROVE FALSE
      BY <1>1, <1>2
    <2>1. DayLength * p >= DayLength * q + DayLength
      BY <1>0, <1>1, <1>2, OneDayMore
    <2> QED BY <1>0, <1>1, <1>2, <1>3, <2>1
  <1>5. p = q => s % DayLength <= t % DayLength
    BY <1>0, <1>1, <1>2, <1>3
  <1>6. /\ UsagePeriodDate(s, wake) = IF s % DayLength < wake THEN p - 1 ELSE p
        /\ UsagePeriodDate(t, wake) = IF t % DayLength < wake THEN q - 1 ELSE q
    BY DEF UsagePeriodDate, MinuteOfDay, CalendarDate, p, q
  <1> QED BY <1>0, <1>1, <1>2, <1>4, <1>5, <1>6

\* Counters of an earlier period are of an earlier one from then on.
LEMMA StaleMeansEarlier ==
    ASSUME NEW r \in RuntimeState, NEW wake \in TimesOfDay, NEW t \in Nat, r.ts <= t,
           ~RuntimeStateIsCurrent(r, wake, t)
    PROVE  UsagePeriodDate(r.ts, wake) < UsagePeriodDate(t, wake)
  <1>1. r.ts \in Nat /\ wake \in Int
    BY TimesAreIntegers DEF RuntimeState
  <1>2. UsagePeriodDate(r.ts, wake) \in Int /\ UsagePeriodDate(t, wake) \in Int
    BY <1>1, PeriodType
  <1>3. UsagePeriodDate(r.ts, wake) <= UsagePeriodDate(t, wake)
    BY <1>1, PeriodMonotone
  <1> QED BY <1>2, <1>3 DEF RuntimeStateIsCurrent

-----------------------------------------------------------------------------
(* The stamps *)

\* Counters are reset before they are stamped, and stamped before now.
Stamped(r) == r.since <= r.ts /\ r.ts <= now

\* Inductive: while the clock is not set back, the stamps are in order.
StampInv ==
    setBacks = 0 =>
        /\ Stamped(runtime) /\ Stamped(disk.runtime)
        /\ Running => disk.runtime.ts <= runtime.ts

\* What Load makes of the counters on disk is stamped as they are, or now.
LEMMA LoadedStamp ==
    ASSUME TypeOK, Stamped(disk.runtime)
    PROVE  Stamped(LoadedRuntime) /\ disk.runtime.ts <= LoadedRuntime.ts
  <1>1. LoadedRuntime \in {disk.runtime, FreshRuntimeState(now)}
    BY DEF LoadedRuntime, ResetRuntimeIfNeeded
  <1>2. now \in Nat /\ disk.runtime.ts \in Nat
    BY DEF TypeOK, RuntimeState
  <1>3. CASE LoadedRuntime = disk.runtime
    BY <1>2, <1>3 DEF Stamped
  <1>4. CASE LoadedRuntime = FreshRuntimeState(now)
    BY <1>2, <1>4 DEF Stamped, FreshRuntimeState
  <1> QED BY <1>1, <1>3, <1>4

\* A save keeps the stamps in order, whether it fails or not.
LEMMA SaveStamps ==
    ASSUME TypeOK, SaveState, UNCHANGED now,
           Stamped(runtime), Stamped(disk.runtime), disk.runtime.ts <= runtime.ts
    PROVE  Stamped(runtime)' /\ Stamped(disk.runtime)' /\ disk'.runtime.ts <= runtime'.ts
  <1>0. /\ now \in Nat /\ disk \in [daily : DailySettings, runtime : RuntimeState]
        /\ runtime \in RuntimeState
    BY DEF TypeOK
  <1>1. ASSUME NEW d, NEW r \in RuntimeState, Stamped(r), StoreSave(d, r)
        PROVE  Stamped(runtime)' /\ Stamped(disk.runtime)' /\ disk'.runtime.ts <= runtime'.ts
    <2>1. /\ runtime'.ts = now /\ runtime'.since = r.since
          /\ disk'.runtime \in {runtime', disk.runtime}
      BY <1>0, <1>1 DEF StoreSave, RuntimeState
    <2>2. r.since \in Nat /\ r.ts \in Nat /\ disk.runtime.ts \in Nat /\ disk.runtime.since \in Nat
      BY <1>0 DEF RuntimeState
    <2> QED BY <1>0, <1>1, <2>1, <2>2 DEF Stamped
  <1>2. LoadedRuntime \in RuntimeState /\ Stamped(LoadedRuntime)
    BY LoadedType, LoadedStamp
  <1>3. CASE StoreSave(daily, runtime)
    BY <1>0, <1>1, <1>3
  <1>4. CASE StoreSave(disk.daily, LoadedRuntime)
    BY <1>1, <1>2, <1>4
  <1>5. CASE UNCHANGED <<runtime, disk>>
    BY <1>5 DEF Stamped
  <1> QED BY <1>3, <1>4, <1>5 DEF SaveState

\* Every step keeps the stamps in order.
LEMMA StampNext == TypeOK /\ StampInv /\ [Next]_vars => StampInv'
  <1> SUFFICES ASSUME TypeOK, StampInv, [Next]_vars, setBacks' = 0
               PROVE  StampInv'
    BY DEF StampInv
  <1>0. /\ now \in Nat /\ setBacks \in Nat
        /\ runtime \in RuntimeState /\ disk.runtime \in RuntimeState
        /\ runtime.ts \in Nat /\ runtime.since \in Nat
        /\ disk.runtime.ts \in Nat /\ disk.runtime.since \in Nat
    BY DEF TypeOK, RuntimeState
  <1> DEFINE Kept == /\ UNCHANGED <<now, disk, setBacks>>
                     /\ Running /\ runtime'.ts = runtime.ts /\ runtime'.since = runtime.since
  <1>a. Kept => StampInv'
    BY DEF StampInv, Stamped
  <1> HIDE DEF Kept
  <1>1. CASE SetDailyAllowance \/ SetBedTime \/ ClearBedTime \/ ClearWarnings \/ ManualLockReturns
    BY <1>1, <1>a, SMTT(40) DEF SetDailyAllowance, SetBedTime, ClearBedTime, ClearWarnings,
                      ManualLockReturns, Request, MutexFree, memory, spent, Kept
  <1>2. CASE ExtendTime \/ ClearExtensions \/ EngageManualLock \/ ClearManualLock
    BY <1>0, <1>2, <1>a DEF ExtendTime, ClearExtensions, EngageManualLock, ClearManualLock,
                            Request, MutexFree, RuntimeState, Kept
  <1>3. CASE CheckWarnings \/ PopupReturns \/ Enforce \/ QueryReturns \/ LockReturns
    BY <1>3, <1>a DEF CheckWarnings, PopupReturns, Enforce, QueryReturns, LockReturns,
                      Running, memory, spent, Kept
  <1>4. CASE TickCredit
    BY <1>0, <1>4, <1>a DEF TickCredit, Running, spent, RuntimeState, Kept
  <1>5. CASE UserLocksOrUnlocks \/ UNCHANGED vars
    BY <1>5 DEF UserLocksOrUnlocks, vars, memory, spent, StampInv, Stamped, Running
  <1>6. CASE ClockTick
    BY <1>0, <1>6 DEF ClockTick, memory, spent, StampInv, Stamped, Running
  <1>7. CASE ClockSetBack
    BY <1>0, <1>7 DEF ClockSetBack
  <1>8. CASE Crash
    <2>1. disk'.runtime = disk.runtime
      BY <1>8 DEF Crash, DiskAfterCrash, TypeOK
    <2> QED BY <1>0, <1>8, <2>1 DEF Crash, StampInv, Stamped, Running, FreshRuntimeState
  <1>9. CASE Start
    <2>1. /\ UNCHANGED <<now, disk, setBacks>>
          /\ runtime' \in {LoadedRuntime, FreshRuntimeState(now)}
      BY <1>9 DEF Start
    <2>2. Stamped(disk.runtime)
      BY <2>1 DEF StampInv
    <2>3. CASE runtime' = LoadedRuntime
      BY <2>1, <2>2, <2>3, LoadedStamp DEF StampInv, Stamped
    <2>4. CASE runtime' = FreshRuntimeState(now)
      BY <1>0, <2>1, <2>2, <2>4 DEF StampInv, Stamped, FreshRuntimeState
    <2> QED BY <2>1, <2>3, <2>4
  <1>10. CASE SetWakeTime
    <2>1. /\ UNCHANGED <<now, disk, setBacks>> /\ Running
          /\ runtime' \in {runtime, FreshRuntimeState(now)}
      BY <1>10 DEF SetWakeTime, Request, MutexFree
    <2> QED BY <1>0, <2>1 DEF StampInv, Stamped, FreshRuntimeState
  <1>11. CASE TickBegin
    <2>1. /\ UNCHANGED <<now, disk, setBacks>> /\ Running
          /\ runtime' \in {runtime, FreshRuntimeState(now)}
      BY <1>11 DEF TickBegin, ResetRuntimeIfNeeded, spent, Running
    <2> QED BY <1>0, <2>1 DEF StampInv, Stamped, FreshRuntimeState
  <1>12. CASE PersistIfDue
    <2>1. /\ UNCHANGED <<now, setBacks>> /\ Running
          /\ SaveState \/ UNCHANGED <<runtime, disk>>
      BY <1>12 DEF PersistIfDue, Running
    <2>2. CASE UNCHANGED <<runtime, disk>>
      BY <2>1, <2>2 DEF StampInv, Stamped
    <2> QED BY <2>1, <2>2, SaveStamps DEF StampInv
  <1>13. CASE SaveAndReply
    <2>1. UNCHANGED <<now, setBacks>> /\ Running /\ SaveState
      BY <1>13 DEF SaveAndReply, MutexFree
    <2> QED BY <2>1, SaveStamps DEF StampInv
  <1> QED
    BY <1>1, <1>2, <1>3, <1>4, <1>5, <1>6, <1>7, <1>8, <1>9, <1>10, <1>11, <1>12, <1>13
       DEF Next, LoopStep, NewRequest, DispatcherStep, Environment

\* In every reachable state the stamps are in order.
LEMMA StampsInOrder == Spec => [](TypeOK /\ StampInv)
  <1>1. Init => StampInv
    BY BoundsAssumption DEF Init, StampInv, Stamped, FreshRuntimeState, Running
  <1> QED BY <1>1, StampNext, TypeCorrect, PTL DEF Spec

-----------------------------------------------------------------------------
(* Counters are reset only when a later period has begun *)

\* Counters that Load or a tick resets are of an earlier period, by their stamp
\* and so by the time they were begun.
LEMMA ResetMeansLater ==
    ASSUME NEW r \in RuntimeState, NEW wake \in TimesOfDay, NEW t \in Nat,
           r.since <= r.ts, r.ts <= t, ResetRuntimeIfNeeded(r, wake, t) # r
    PROVE  UsagePeriodDate(r.since, wake) < UsagePeriodDate(t, wake)
  <1>1. r.ts \in Nat /\ r.since \in Nat /\ wake \in Int
    BY TimesAreIntegers DEF RuntimeState
  <1>2. UsagePeriodDate(r.ts, wake) < UsagePeriodDate(t, wake)
    BY StaleMeansEarlier DEF ResetRuntimeIfNeeded
  <1>3. UsagePeriodDate(r.since, wake) <= UsagePeriodDate(r.ts, wake)
    BY <1>1, PeriodMonotone
  <1> QED BY <1>1, <1>2, <1>3, PeriodType

\* What can change the time the counters were begun at.
LEMMA OnlyResetsReset ==
    ASSUME TypeOK, [Next]_vars, Running, Running', ~loadFail, runtime'.since # runtime.since
    PROVE  \/ SetWakeTime
           \/ TickBegin
  <1>0. runtime \in RuntimeState
    BY DEF TypeOK
  <1>1. ASSUME SaveState PROVE FALSE
    BY <1>0, <1>1 DEF SaveState, StoreSave, RuntimeState
  <1>2. CASE SetDailyAllowance \/ SetBedTime \/ ClearBedTime \/ ClearWarnings \/ ManualLockReturns
    BY <1>2, SMTT(40) DEF SetDailyAllowance, SetBedTime, ClearBedTime, ClearWarnings,
                ManualLockReturns, memory
  <1>3. CASE ExtendTime \/ ClearExtensions \/ EngageManualLock \/ ClearManualLock
    BY <1>0, <1>3 DEF ExtendTime, ClearExtensions, EngageManualLock, ClearManualLock,
                      RuntimeState
  <1>4. CASE CheckWarnings \/ PopupReturns \/ Enforce \/ QueryReturns \/ LockReturns
    BY <1>4 DEF CheckWarnings, PopupReturns, Enforce, QueryReturns, LockReturns, memory
  <1>5. CASE TickCredit
    BY <1>0, <1>5 DEF TickCredit, RuntimeState
  <1>6. CASE Environment \/ UNCHANGED vars
    BY <1>6 DEF Environment, ClockTick, ClockSetBack, UserLocksOrUnlocks, vars, memory
  <1>7. CASE Crash \/ Start
    BY <1>7 DEF Crash, Start, Running
  <1>8. CASE PersistIfDue \/ SaveAndReply
    BY <1>1, <1>8 DEF PersistIfDue, SaveAndReply
  <1> QED BY <1>2, <1>3, <1>4, <1>5, <1>6, <1>7, <1>8
          DEF Next, LoopStep, NewRequest, DispatcherStep

\* While the agent runs, with the wake time left alone, the counters are reset
\* only when a usage period has begun that is later than the one they were begun
\* in: whatever is requested, saved, loaded again or fails.
THEOREM ResetsOnlyAtRollover == Spec => ResetOnlyAtRollover
  <1>1. ASSUME TypeOK, StampInv, [Next]_vars,
               Running, Running', ~loadFail, daily'.wake = daily.wake,
               runtime'.since # runtime.since, setBacks' = 0
        PROVE  UsagePeriodDate(runtime.since, daily.wake) < UsagePeriodDate(now, daily.wake)
    <2>a. runtime \in RuntimeState /\ daily \in DailySettings /\ now \in Nat
      BY <1>1 DEF TypeOK
    <2>b. daily.wake \in TimesOfDay
      BY <2>a DEF DailySettings
    <2>0. daily.wake \in Int
      BY <2>b, TimesAreIntegers
    <2>1. CASE SetWakeTime
      <3>1. UsagePeriodDate(now, daily.wake) \in Int
        BY <2>a, <2>b, <2>0, PeriodType
      <3>2. daily'.wake = daily.wake => UNCHANGED runtime
        BY <2>a, <2>b, <2>0, <2>1, <3>1 DEF SetWakeTime, DailySettings
      <3> QED BY <1>1, <3>2
    <2>2. CASE TickBegin
      <3>1. setBacks = 0 /\ runtime' = ResetRuntimeIfNeeded(runtime, daily.wake, now)
        BY <1>1, <2>2 DEF TickBegin, spent
      <3>2. Stamped(runtime)
        BY <1>1, <3>1 DEF StampInv
      <3> QED BY <1>1, <2>a, <2>b, <2>0, <3>1, <3>2, ResetMeansLater DEF Stamped
    <2> QED BY <1>1, <2>1, <2>2, OnlyResetsReset
  <1>2. TypeOK /\ StampInv /\ [Next]_vars =>
          [/\ Running /\ Running'
           /\ ~loadFail /\ ~loadFail'
           /\ daily'.wake = daily.wake
           /\ runtime'.since # runtime.since
           /\ setBacks' = 0
           => UsagePeriodDate(runtime.since, daily.wake) < UsagePeriodDate(now, daily.wake)]_vars
    BY <1>1
  <1> QED BY <1>2, StampsInOrder, PTL DEF Spec, ResetOnlyAtRollover

\* A restart takes up the counters that are on disk unless a later usage period
\* has begun than the one they were begun in.
THEOREM RestartsKeepTheCounters == Spec => RestartKeepsTheCounters
  <1>1. ASSUME TypeOK, StampInv, [Next]_vars,
               ~Running, Running', ~loadFail', setBacks = 0, runtime' # disk.runtime
        PROVE  UsagePeriodDate(disk.runtime.since, disk.daily.wake)
                  < UsagePeriodDate(now, disk.daily.wake)
    <2>a. disk.runtime \in RuntimeState /\ disk.daily \in DailySettings /\ now \in Nat
      BY <1>1 DEF TypeOK
    <2>0. disk.daily.wake \in TimesOfDay
      BY <2>a DEF DailySettings
    <2>1. Start
      BY <1>1 DEF Next, Running, Crash, LoopStep, NewRequest, DispatcherStep, Environment,
           TickBegin, TickCredit, CheckWarnings, PopupReturns, Enforce, QueryReturns,
           LockReturns, PersistIfDue, SetDailyAllowance, SetBedTime, ClearBedTime,
           SetWakeTime, ExtendTime, ClearExtensions, EngageManualLock, ClearManualLock,
           Request, MutexFree, ClearWarnings, ManualLockReturns, SaveAndReply, ClockTick,
           ClockSetBack, UserLocksOrUnlocks, vars
    <2>2. runtime' = LoadedRuntime
      BY <1>1, <2>1 DEF Start
    <2>3. Stamped(disk.runtime)
      BY <1>1 DEF StampInv
    <2> QED BY <1>1, <2>a, <2>0, <2>2, <2>3, ResetMeansLater DEF Stamped, LoadedRuntime
  <1>2. TypeOK /\ StampInv /\ [Next]_vars =>
          [/\ ~Running /\ Running' /\ ~loadFail'
           /\ setBacks = 0
           /\ runtime' # disk.runtime
           => UsagePeriodDate(disk.runtime.since, disk.daily.wake)
                 < UsagePeriodDate(now, disk.daily.wake)]_vars
    BY <1>1
  <1> QED BY <1>2, StampsInOrder, PTL DEF Spec, RestartKeepsTheCounters

-----------------------------------------------------------------------------
(* What is enforced is what the parent was told                            *)

\* What the parent was told is on disk, except that a rollover may have taken
\* back the manual lock and the extensions since; then the next load does, too.
ToldOnDisk ==
    /\ expected.told.bed = disk.daily.bed
    /\ expected.told.wake = disk.daily.wake
    /\ expected.told.allowance = disk.daily.allowance
    /\ \/ /\ expected.told.manual = disk.runtime.manual
          /\ expected.told.ext = disk.runtime.ext
       \/ /\ ~RuntimeStateIsCurrent(disk.runtime, disk.daily.wake, now)
          /\ expected.told.manual = FALSE
          /\ expected.told.ext = 0

\* What the last save wrote is on disk; after a crash in the middle of a request
\* the settings of that request may be there in its place.
SavedOnDisk ==
    /\ expected.saved.manual = disk.runtime.manual
    /\ expected.saved.ext = disk.runtime.ext
    /\ expected.known => SettingsOf(expected.saved) = disk.daily
    /\ ~expected.known =>
          /\ expected.told.manual = disk.runtime.manual
          /\ expected.told.ext = disk.runtime.ext
          /\ disk.daily \in {SettingsOf(expected.told), SettingsOf(expected.saved)}

\* Inductive.  Between a request and its save (disp # "idle") the disk is behind:
\* it holds what the parent had been told before.
SettingsInv ==
    faults = 0 /\ setBacks = 0 =>
        /\ ~loadFail
        /\ Running => expected.known /\ ToldOf(daily, runtime) = expected.told
        /\ Running /\ disp = "idle" => daily = disk.daily
        /\ ~Running => disp = "idle"
        /\ disp = "idle" /\ expected.known => ToldOnDisk
        /\ SavedOnDisk

\* What settings and counters tell the parent, field by field.
LEMMA ToldFieldByField ==
    ASSUME NEW told \in ToldType, NEW d \in DailySettings, NEW r \in RuntimeState
    PROVE  ToldOf(d, r) = told <=>
              /\ told.bed = d.bed /\ told.wake = d.wake /\ told.allowance = d.allowance
              /\ told.manual = r.manual /\ told.ext = r.ext
  BY DEF ToldOf, ToldType

\* A reset takes back the manual lock and the extensions, and leaves the settings.
LEMMA ToldAfterResetFields ==
    ASSUME NEW told \in ToldType
    PROVE  /\ ToldAfterReset(told) \in ToldType
           /\ ToldAfterReset(told).bed = told.bed
           /\ ToldAfterReset(told).wake = told.wake
           /\ ToldAfterReset(told).allowance = told.allowance
           /\ ToldAfterReset(told).manual = FALSE
           /\ ToldAfterReset(told).ext = 0
  BY DEF ToldAfterReset, ToldType

\* The settings among what the parent was told, field by field.
LEMMA SettingsFieldByField ==
    ASSUME NEW told \in ToldType, NEW d \in DailySettings
    PROVE  SettingsOf(told) = d <=>
              told.bed = d.bed /\ told.wake = d.wake /\ told.allowance = d.allowance
  BY DEF SettingsOf, ToldType, DailySettings

\* What Load finds is what the parent was told (of a request cut short, the
\* settings or nothing); and that is on disk still.
LEMMA LoadTellsTheSame ==
    ASSUME TypeOK, SavedOnDisk, expected.known => ToldOnDisk,
           expected' = ExpectedOnLoad, UNCHANGED <<now, disk>>
    PROVE  /\ expected'.known
           /\ ToldOf(disk.daily, LoadedRuntime) = expected'.told
           /\ ToldOnDisk'
           /\ SavedOnDisk'
  <1> DEFINE current == RuntimeStateIsCurrent(disk.runtime, disk.daily.wake, now)
             base == IF expected.known \/ SettingsOf(expected.told) = disk.daily
                     THEN expected.told ELSE expected.saved
  <1>0. /\ expected \in [known : BOOLEAN, told : ToldType, saved : ToldType]
        /\ disk.daily \in DailySettings /\ disk.runtime \in RuntimeState
        /\ LoadedRuntime \in RuntimeState
    BY LoadedType DEF TypeOK
  <1>1. /\ current => LoadedRuntime = disk.runtime
        /\ ~current => LoadedRuntime.manual = FALSE /\ LoadedRuntime.ext = 0
    BY DEF LoadedRuntime, ResetRuntimeIfNeeded, FreshRuntimeState
  <1>2. current' <=> current
    BY DEF RuntimeStateIsCurrent
  <1>3. /\ expected'.known
        /\ expected'.told = IF current THEN base ELSE ToldAfterReset(base)
        /\ expected'.saved = IF expected.known THEN expected.saved ELSE base
    BY DEF ExpectedOnLoad
  <1>4. base \in ToldType /\ expected.told \in ToldType /\ expected.saved \in ToldType
    BY <1>0
  <1> HIDE DEF current
  <1>5. /\ base.bed = disk.daily.bed /\ base.wake = disk.daily.wake
        /\ base.allowance = disk.daily.allowance
        /\ \/ base.manual = disk.runtime.manual /\ base.ext = disk.runtime.ext
           \/ ~current /\ base.manual = FALSE /\ base.ext = 0
    <2>1. CASE expected.known
      BY <2>1 DEF ToldOnDisk, current
    <2>2. CASE ~expected.known
      <3>1. SettingsOf(base) = disk.daily
        BY <2>2 DEF SavedOnDisk
      <3>2. base.manual = disk.runtime.manual /\ base.ext = disk.runtime.ext
        BY <2>2 DEF SavedOnDisk
      <3> QED BY <1>0, <1>4, <3>1, <3>2, SettingsFieldByField
    <2> QED BY <2>1, <2>2
  <1>6. SavedOnDisk'
    <2>1. CASE expected.known
      BY <1>3, <2>1 DEF SavedOnDisk
    <2>2. CASE ~expected.known
      <3>1. SettingsOf(base) = disk.daily
        BY <2>2 DEF SavedOnDisk
      <3>2. base.manual = disk.runtime.manual /\ base.ext = disk.runtime.ext
        BY <2>2 DEF SavedOnDisk
      <3> QED BY <1>3, <2>2, <3>1, <3>2 DEF SavedOnDisk
    <2> QED BY <2>1, <2>2
  <1> HIDE DEF base
  <1>7. CASE current
    <2>1. ToldOf(disk.daily, LoadedRuntime) = base
      BY <1>0, <1>1, <1>4, <1>5, <1>7, ToldFieldByField
    <2>2. ToldOnDisk'
      BY <1>2, <1>3, <1>5, <1>7 DEF ToldOnDisk, current
    <2> QED BY <1>3, <1>6, <1>7, <2>1, <2>2
  <1>8. CASE ~current
    <2> DEFINE after == ToldAfterReset(base)
    <2>1. /\ after \in ToldType
          /\ after.bed = base.bed /\ after.wake = base.wake
          /\ after.allowance = base.allowance
          /\ after.manual = FALSE /\ after.ext = 0
      BY <1>4, ToldAfterResetFields
    <2>2. expected'.told = after
      BY <1>3, <1>8
    <2> HIDE DEF after
    <2>3. ToldOf(disk.daily, LoadedRuntime) = after
      <3>1. /\ after.bed = disk.daily.bed /\ after.wake = disk.daily.wake
            /\ after.allowance = disk.daily.allowance
            /\ after.manual = LoadedRuntime.manual /\ after.ext = LoadedRuntime.ext
        BY <1>1, <1>5, <1>8, <2>1
      <3> QED BY <1>0, <2>1, <3>1, ToldFieldByField
    <2>4. ToldOnDisk'
      BY <1>2, <1>5, <1>8, <2>1, <2>2 DEF ToldOnDisk, current
    <2> QED BY <1>3, <1>6, <2>2, <2>3, <2>4
  <1> QED BY <1>7, <1>8

\* A save that meets no fault puts what the parent was told on disk.
LEMMA SaveTellsTheSame ==
    ASSUME TypeOK, SaveState, UNCHANGED now, ~loadFail, faults' = 0,
           expected.known, ToldOf(daily, runtime) = expected.told
    PROVE  /\ faults = 0 /\ ~loadFail' /\ expected'.known
           /\ ToldOf(daily, runtime)' = expected'.told
           /\ daily' = disk'.daily
           /\ ToldOnDisk'
           /\ SavedOnDisk'
  <1>0. /\ faults \in Nat /\ runtime \in RuntimeState /\ daily \in DailySettings
        /\ expected \in [known : BOOLEAN, told : ToldType, saved : ToldType]
    BY DEF TypeOK
  <1>1. /\ StoreSave(daily, runtime)
        /\ expected' = [expected EXCEPT !.saved = expected.told]
        /\ UNCHANGED <<daily, loadFail>>
    BY <1>0 DEF SaveState, AllSaved
  <1>2. /\ faults = 0
        /\ disk' = [daily |-> daily, runtime |-> runtime']
        /\ runtime'.manual = runtime.manual /\ runtime'.ext = runtime.ext
    BY <1>0, <1>1 DEF StoreSave, Fault, NoFault, RuntimeState
  <1>3. /\ expected'.known /\ expected'.told = expected.told
        /\ expected'.saved = expected.told
    BY <1>0, <1>1
  <1>4. /\ disk'.daily = daily /\ disk'.runtime.manual = expected.told.manual
        /\ disk'.runtime.ext = expected.told.ext
    BY <1>2 DEF ToldOf
  <1>5. ToldOf(daily, runtime)' = expected'.told
    BY <1>1, <1>2, <1>3 DEF ToldOf
  <1>6. SettingsOf(expected.told) = daily
    <2>1. /\ expected.told \in ToldType
          /\ expected.told.bed = daily.bed /\ expected.told.wake = daily.wake
          /\ expected.told.allowance = daily.allowance
      BY <1>0 DEF ToldOf
    <2> QED BY <1>0, <2>1, SettingsFieldByField
  <1>7. ToldOnDisk'
    BY <1>3, <1>4 DEF ToldOnDisk, ToldOf
  <1>8. SavedOnDisk'
    BY <1>3, <1>4, <1>6 DEF SavedOnDisk
  <1> QED BY <1>1, <1>2, <1>3, <1>4, <1>5, <1>7, <1>8

\* What the loop and the user do to the screen, the warnings and the usage leaves
\* the settings alone.
LEMMA LoopLeavesSettingsAlone ==
    ASSUME TypeOK, Running,
           \/ TickCredit \/ CheckWarnings \/ PopupReturns
           \/ Enforce \/ QueryReturns \/ LockReturns
    PROVE  /\ UNCHANGED <<now, daily, disk, loadFail, expected, disp, setBacks>>
           /\ Running' /\ (faults' = 0 => faults = 0)
           /\ runtime'.manual = runtime.manual /\ runtime'.ext = runtime.ext
  <1>0. faults \in Nat /\ runtime \in RuntimeState
    BY DEF TypeOK
  <1>1. CASE TickCredit
    BY <1>0, <1>1 DEF TickCredit, spent, Running, RuntimeState
  <1>2. CASE CheckWarnings
    BY <1>2 DEF CheckWarnings, spent, Running
  <1>3. CASE PopupReturns
    BY <1>0, <1>3 DEF PopupReturns, Fault, NoFault, Running
  <1>4. CASE Enforce
    BY <1>4 DEF Enforce, memory, spent, Running
  <1>5. CASE QueryReturns \/ LockReturns
    BY <1>0, <1>5 DEF QueryReturns, LockReturns, memory, Fault, NoFault, Running
  <1> QED BY <1>1, <1>2, <1>3, <1>4, <1>5

\* A request changes memory and what the parent will be told alike.
LEMMA RequestsTellWhatTheyDo ==
    ASSUME TypeOK, NewRequest, ToldOf(daily, runtime) = expected.told
    PROVE  /\ ToldOf(daily, runtime)' = expected'.told
           /\ expected'.known = expected.known /\ expected'.saved = expected.saved
           /\ Running /\ Running' /\ disp' # "idle"
           /\ UNCHANGED <<disk, loadFail, faults, setBacks>>
  <1>0. /\ expected \in [known : BOOLEAN, told : ToldType, saved : ToldType]
        /\ daily \in DailySettings /\ runtime \in RuntimeState
    BY DEF TypeOK, ToldType
  <1>1. /\ expected.told.bed = daily.bed /\ expected.told.wake = daily.wake
        /\ expected.told.allowance = daily.allowance
        /\ expected.told.manual = runtime.manual /\ expected.told.ext = runtime.ext
    BY <1>0, ToldFieldByField
  <1>2. CASE SetDailyAllowance
    <2>1. PICK m \in Allowances \cup {Unset} :
             /\ daily' = [daily EXCEPT !.allowance = m]
             /\ expected' = [expected EXCEPT !.told.allowance = m]
      BY <1>2 DEF SetDailyAllowance
    <2>2. ToldOf(daily', runtime) = expected'.told /\ expected'.known = expected.known
          /\ expected'.saved = expected.saved
      BY <1>0, <1>1, <2>1 DEF ToldOf, ToldType, DailySettings
    <2> QED BY <1>2, <2>2 DEF SetDailyAllowance, Request, MutexFree, Running, ToldOf
  <1>3. CASE SetBedTime \/ ClearBedTime
    <2>1. PICK t \in TimesOfDay \cup {Unset} :
             /\ daily' = [daily EXCEPT !.bed = t]
             /\ expected' = [expected EXCEPT !.told.bed = t]
      BY <1>3, ControlAssumption DEF SetBedTime, ClearBedTime
    <2>2. ToldOf(daily', runtime) = expected'.told /\ expected'.known = expected.known
          /\ expected'.saved = expected.saved
      BY <1>0, <1>1, <2>1 DEF ToldOf, ToldType, DailySettings
    <2> QED BY <1>3, <2>2 DEF SetBedTime, ClearBedTime, Request, MutexFree, Running, ToldOf
  <1>4. CASE ExtendTime
    <2>1. PICK m \in Extensions :
             /\ runtime' = [runtime EXCEPT !.ext = @ + m, !.manual = FALSE]
             /\ expected' = [expected EXCEPT !.told.ext = runtime.ext + m,
                                             !.told.manual = FALSE]
      BY <1>4 DEF ExtendTime
    <2>2. ToldOf(daily, runtime') = expected'.told /\ expected'.known = expected.known
          /\ expected'.saved = expected.saved
      BY <1>0, <1>1, <2>1 DEF ToldOf, ToldType, RuntimeState
    <2> QED BY <1>4, <2>2 DEF ExtendTime, Request, MutexFree, Running, ToldOf
  <1>5. CASE ClearExtensions
    BY <1>0, <1>1, <1>5 DEF ClearExtensions, Request, MutexFree, Running,
                            ToldOf, ToldType, RuntimeState
  <1>6. CASE EngageManualLock \/ ClearManualLock
    <2>1. PICK locked \in BOOLEAN :
             /\ runtime' = [runtime EXCEPT !.manual = locked]
             /\ expected' = [expected EXCEPT !.told.manual = locked]
      BY <1>6 DEF EngageManualLock, ClearManualLock
    <2>2. ToldOf(daily, runtime') = expected'.told /\ expected'.known = expected.known
          /\ expected'.saved = expected.saved
      BY <1>0, <1>1, <2>1 DEF ToldOf, ToldType, RuntimeState
    <2> QED BY <1>6, <2>2 DEF EngageManualLock, ClearManualLock, Request, MutexFree,
                              Running, ToldOf
  <1>7. CASE SetWakeTime
    <2>1. PICK t \in WakeTimes :
             LET newPeriod == UsagePeriodDate(now, daily.wake) < UsagePeriodDate(now, t)
                 told == [expected.told EXCEPT !.wake = t]
             IN  /\ daily' = [daily EXCEPT !.wake = t]
                 /\ \/ /\ newPeriod
                       /\ runtime' = FreshRuntimeState(now)
                       /\ expected' = [expected EXCEPT !.told = ToldAfterReset(told)]
                    \/ /\ ~newPeriod
                       /\ expected' = [expected EXCEPT !.told = told]
                       /\ UNCHANGED runtime
      BY <1>7 DEF SetWakeTime
    <2> DEFINE told == [expected.told EXCEPT !.wake = t]
    <2>2. /\ t \in TimesOfDay
          /\ told \in ToldType /\ told.bed = daily.bed /\ told.wake = t
          /\ told.allowance = daily.allowance
          /\ told.manual = runtime.manual /\ told.ext = runtime.ext
      BY <1>0, <1>1, ControlAssumption DEF ToldType
    <2> HIDE DEF told
    <2>3. daily' \in DailySettings /\ daily'.bed = daily.bed /\ daily'.wake = t
          /\ daily'.allowance = daily.allowance
      BY <1>0, <2>1, <2>2 DEF DailySettings
    <2>4. CASE UNCHANGED runtime /\ expected' = [expected EXCEPT !.told = told]
      <3>1. expected'.told = told /\ expected'.known = expected.known
          /\ expected'.saved = expected.saved
        BY <1>0, <2>4
      <3>2. ToldOf(daily', runtime') = told
        BY <1>0, <2>2, <2>3, <2>4, ToldFieldByField
      <3> QED BY <1>7, <3>1, <3>2 DEF SetWakeTime, Request, MutexFree, Running, ToldOf
    <2>5. CASE /\ runtime' = FreshRuntimeState(now)
               /\ expected' = [expected EXCEPT !.told = ToldAfterReset(told)]
      <3>1. expected'.told = ToldAfterReset(told) /\ expected'.known = expected.known
          /\ expected'.saved = expected.saved
        BY <1>0, <2>5
      <3>2. /\ runtime' \in RuntimeState /\ runtime'.manual = FALSE /\ runtime'.ext = 0
        BY <2>5, FreshType DEF FreshRuntimeState, TypeOK
      <3> DEFINE after == ToldAfterReset(told)
      <3>4. /\ after \in ToldType /\ after.bed = daily'.bed /\ after.wake = daily'.wake
            /\ after.allowance = daily'.allowance
            /\ after.manual = runtime'.manual /\ after.ext = runtime'.ext
        BY <2>2, <2>3, <3>2, ToldAfterResetFields
      <3>3. ToldOf(daily', runtime') = ToldAfterReset(told)
        <4> HIDE DEF after
        <4>1. ToldOf(daily', runtime') = after
          BY <2>3, <3>2, <3>4, ToldFieldByField
        <4> QED BY <4>1 DEF after
      <3> QED BY <1>7, <3>1, <3>3 DEF SetWakeTime, Request, MutexFree, Running, ToldOf
    <2> QED BY <2>1, <2>4, <2>5 DEF told
  <1> QED BY <1>2, <1>3, <1>4, <1>5, <1>6, <1>7 DEF NewRequest

\* A rollover in memory is a rollover on disk: the stamp there is no later.
LEMMA RolloverTellsTheSame ==
    ASSUME TypeOK, StampInv, TickBegin, setBacks = 0, ~loadFail,
           ToldOf(daily, runtime) = expected.told
    PROVE  /\ UNCHANGED <<now, daily, disk, loadFail, disp, faults, setBacks>>
           /\ Running /\ Running'
           /\ expected'.known = expected.known /\ expected'.saved = expected.saved
           /\ ToldOf(daily, runtime)' = expected'.told
           /\ daily = disk.daily /\ ToldOnDisk => ToldOnDisk'
  <1> DEFINE current == RuntimeStateIsCurrent(runtime, daily.wake, now)
  <1>0. /\ expected \in [known : BOOLEAN, told : ToldType, saved : ToldType] /\ now \in Nat
        /\ daily \in DailySettings /\ runtime \in RuntimeState
        /\ disk.runtime \in RuntimeState
    BY DEF TypeOK, ToldType
  <1>1. /\ UNCHANGED <<now, daily, disk, loadFail, disp, faults, setBacks>>
        /\ Running /\ Running'
    BY DEF TickBegin, spent, Running
  <1>2. CASE current
    <2>1. UNCHANGED <<runtime, expected>>
      BY <1>2 DEF TickBegin, ResetRuntimeIfNeeded
    <2> QED BY <1>1, <2>1 DEF ToldOf, ToldOnDisk, RuntimeStateIsCurrent
  <1>3. CASE ~current
    <2>1. /\ runtime' = FreshRuntimeState(now)
          /\ expected' = [expected EXCEPT !.told = ToldAfterReset(@)]
      BY <1>3 DEF TickBegin, ResetRuntimeIfNeeded
    <2>2. /\ expected'.known = expected.known /\ expected'.saved = expected.saved
          /\ expected'.told = ToldAfterReset(expected.told) /\ expected.told \in ToldType
      BY <1>0, <2>1
    <2>3. runtime' \in RuntimeState /\ runtime'.manual = FALSE /\ runtime'.ext = 0
      BY <1>0, <2>1, FreshType DEF FreshRuntimeState
    <2>4. ToldOf(daily, runtime)' = expected'.told
      <3> DEFINE after == ToldAfterReset(expected.told)
      <3>2. /\ after \in ToldType /\ after.bed = daily.bed /\ after.wake = daily.wake
            /\ after.allowance = daily.allowance
            /\ after.manual = runtime'.manual /\ after.ext = runtime'.ext
        <4>1. /\ expected.told.bed = daily.bed /\ expected.told.wake = daily.wake
              /\ expected.told.allowance = daily.allowance
          <5>1. ToldOf(daily, runtime) = expected.told
            OBVIOUS
          <5> HIDE DEF after
          <5> QED BY <5>1 DEF ToldOf
        <4>2. /\ after \in ToldType /\ after.bed = expected.told.bed
              /\ after.wake = expected.told.wake /\ after.allowance = expected.told.allowance
              /\ after.manual = FALSE /\ after.ext = 0
          BY <2>2, ToldAfterResetFields, Zenon
        <4> HIDE DEF after
        <4>3. after.manual = runtime'.manual /\ after.ext = runtime'.ext
          BY <2>3, <4>2
        <4> QED BY <4>1, <4>2, <4>3, Zenon
      <3>1. ToldOf(daily, runtime') = ToldAfterReset(expected.told)
        <4> HIDE DEF after
        <4>1. ToldOf(daily, runtime') = after
          BY <1>0, <2>3, <3>2, ToldFieldByField
        <4> QED BY <4>1 DEF after
      <3> QED BY <1>1, <2>2, <3>1 DEF ToldOf
    <2>5. ASSUME daily = disk.daily, ToldOnDisk
          PROVE  ToldOnDisk'
      <3>1. daily.wake \in TimesOfDay /\ daily.wake \in Int
        BY <1>0, TimesAreIntegers DEF DailySettings
      <3>2. /\ runtime.ts \in Nat /\ disk.runtime.ts \in Nat
            /\ disk.runtime.ts <= runtime.ts /\ runtime.ts <= now
        BY <1>0, <1>1 DEF StampInv, Stamped, RuntimeState
      <3>3. UsagePeriodDate(runtime.ts, daily.wake) < UsagePeriodDate(now, daily.wake)
        BY <1>0, <1>3, <3>1, <3>2, StaleMeansEarlier
      <3>4. UsagePeriodDate(disk.runtime.ts, daily.wake)
               <= UsagePeriodDate(runtime.ts, daily.wake)
        BY <3>1, <3>2, PeriodMonotone
      <3>5. ~RuntimeStateIsCurrent(disk.runtime, disk.daily.wake, now)
        BY <1>0, <2>5, <3>1, <3>2, <3>3, <3>4, PeriodType DEF RuntimeStateIsCurrent
      <3>6. ~RuntimeStateIsCurrent(disk.runtime, disk.daily.wake, now)'
        BY <1>1, <3>5 DEF RuntimeStateIsCurrent
      <3> QED BY <1>1, <2>2, <2>5, <3>6, ToldAfterResetFields, ZenonT(60) DEF ToldOnDisk
    <2> QED BY <1>1, <2>2, <2>4, <2>5
  <1> QED BY <1>2, <1>3

\* Every step keeps it.
LEMMA SettingsNext == TypeOK /\ StampInv /\ SettingsInv /\ [Next]_vars => SettingsInv'
  <1> SUFFICES ASSUME TypeOK, StampInv, SettingsInv, [Next]_vars,
                      faults' = 0, setBacks' = 0
               PROVE  SettingsInv'
    BY DEF SettingsInv
  <1>0. /\ faults \in Nat /\ setBacks \in Nat /\ now \in Nat
        /\ disk.runtime \in RuntimeState /\ disk.daily \in DailySettings
    BY DEF TypeOK
  <1>1. CASE \/ TickCredit \/ CheckWarnings \/ PopupReturns
             \/ Enforce \/ QueryReturns \/ LockReturns
    <2>1. Running
      BY <1>1 DEF Running, TickCredit, CheckWarnings, PopupReturns, Enforce, QueryReturns,
                  LockReturns
    <2> QED BY <1>1, <2>1, LoopLeavesSettingsAlone
            DEF SettingsInv, ToldOf, ToldOnDisk, SavedOnDisk, RuntimeStateIsCurrent
  <1>2. CASE UserLocksOrUnlocks \/ UNCHANGED vars
    BY <1>2 DEF UserLocksOrUnlocks, vars, memory, spent, SettingsInv, ToldOf, ToldOnDisk,
                SavedOnDisk, RuntimeStateIsCurrent, Running
  <1>3. CASE NewRequest
    <2>1. Running /\ UNCHANGED <<loadFail, faults, setBacks>>
      BY <1>3 DEF NewRequest, SetDailyAllowance, SetBedTime, ClearBedTime, SetWakeTime,
                  ExtendTime, ClearExtensions, EngageManualLock, ClearManualLock, Request,
                  MutexFree
    <2>2. /\ ~loadFail /\ expected.known /\ ToldOf(daily, runtime) = expected.told
          /\ SavedOnDisk
      BY <2>1 DEF SettingsInv
    <2> QED BY <1>3, <2>1, <2>2, RequestsTellWhatTheyDo DEF SettingsInv, SavedOnDisk
  <1>4. CASE ClearWarnings \/ ManualLockReturns
    <2>1. /\ UNCHANGED <<daily, runtime, disk, loadFail, expected, setBacks>>
          /\ Running /\ Running' /\ disp' = "save" /\ faults = 0
      BY <1>0, <1>4 DEF ClearWarnings, ManualLockReturns, memory, spent, MutexFree, Running,
                        Fault, NoFault
    <2> QED BY <2>1 DEF SettingsInv, SavedOnDisk, ToldOf
  <1>5. CASE ClockTick
    <2>1. /\ UNCHANGED <<daily, runtime, disk, loadFail, expected, disp, loop, faults, setBacks>>
          /\ now' = now + 1
      BY <1>5 DEF ClockTick, memory, spent
    <2>2. ToldOnDisk => ToldOnDisk'
      <3>1. CASE RuntimeStateIsCurrent(disk.runtime, disk.daily.wake, now)
        BY <2>1, <3>1 DEF ToldOnDisk
      <3>2. CASE ~RuntimeStateIsCurrent(disk.runtime, disk.daily.wake, now)
        <4>1. disk.daily.wake \in TimesOfDay /\ disk.daily.wake \in Int
          BY <1>0, TimesAreIntegers DEF DailySettings
        <4>2. disk.runtime.ts \in Nat /\ disk.runtime.ts <= now
          BY <1>0, <2>1 DEF StampInv, Stamped, RuntimeState
        <4>3. UsagePeriodDate(disk.runtime.ts, disk.daily.wake)
                 < UsagePeriodDate(now, disk.daily.wake)
          BY <1>0, <3>2, <4>1, <4>2, StaleMeansEarlier
        <4>4. now + 1 \in Nat /\ now <= now + 1
          BY <1>0
        <4>5. UsagePeriodDate(now, disk.daily.wake) <= UsagePeriodDate(now + 1, disk.daily.wake)
          BY <1>0, <4>1, <4>4, PeriodMonotone
        <4>6. ~RuntimeStateIsCurrent(disk.runtime, disk.daily.wake, now + 1)
          BY <1>0, <4>1, <4>2, <4>3, <4>4, <4>5, PeriodType DEF RuntimeStateIsCurrent
        <4>7. ~RuntimeStateIsCurrent(disk.runtime, disk.daily.wake, now)'
          BY <2>1, <4>6 DEF RuntimeStateIsCurrent
        <4> QED BY <2>1, <4>7 DEF ToldOnDisk
      <3> QED BY <3>1, <3>2
    <2> QED BY <2>1, <2>2 DEF SettingsInv, SavedOnDisk, ToldOf, Running
  <1>6. CASE ClockSetBack
    BY <1>0, <1>6 DEF ClockSetBack
  <1>7. CASE Crash
    <2>1. /\ Running /\ faults = 0 /\ setBacks = 0 /\ UNCHANGED now
          /\ loadFail' = FALSE /\ disp' = "idle" /\ ~Running'
          /\ disp = "idle" => expected' = expected
          /\ disp # "idle" => expected' = CutShort(expected)
          /\ disk' \in {disk, [disk EXCEPT !.daily = daily]}
      BY <1>7 DEF Crash, DiskAfterCrash, Running
    <2>a. /\ expected \in [known : BOOLEAN, told : ToldType, saved : ToldType]
          /\ disk \in [daily : DailySettings, runtime : RuntimeState]
          /\ daily \in DailySettings
      BY DEF TypeOK
    <2>b. /\ expected.known /\ ToldOf(daily, runtime) = expected.told
          /\ SavedOnDisk
      BY <2>1 DEF SettingsInv
    <2>2. CASE disp = "idle"
      <3>1. daily = disk.daily
        BY <2>1, <2>2 DEF SettingsInv
      <3>2. disk' = disk
        BY <2>1, <3>1 DEF TypeOK
      <3> QED BY <2>1, <2>2, <3>2 DEF SettingsInv, ToldOnDisk, SavedOnDisk,
                                            RuntimeStateIsCurrent
    <2>3. CASE disp # "idle"
      <3>1. /\ ~expected'.known
            /\ expected'.saved = expected.saved
            /\ expected'.told = [expected.told EXCEPT !.manual = expected.saved.manual,
                                                      !.ext = expected.saved.ext]
        BY <2>1, <2>3, <2>a DEF CutShort
      <3>2. /\ expected.told \in ToldType /\ expected.saved \in ToldType
            /\ expected.told.bed = daily.bed /\ expected.told.wake = daily.wake
            /\ expected.told.allowance = daily.allowance
        BY <2>a, <2>b DEF ToldOf
      <3>3. /\ expected'.told \in ToldType
            /\ expected'.told.manual = expected.saved.manual
            /\ expected'.told.ext = expected.saved.ext
            /\ expected'.told.bed = daily.bed /\ expected'.told.wake = daily.wake
            /\ expected'.told.allowance = daily.allowance
        BY <3>1, <3>2 DEF ToldType
      <3>4. SettingsOf(expected'.told) = daily
        BY <2>a, <3>3, SettingsFieldByField
      <3>5. disk'.runtime = disk.runtime /\ disk'.daily \in {disk.daily, daily}
        BY <2>1, <2>a
      <3>6. SavedOnDisk'
        BY <2>b, <3>1, <3>3, <3>4, <3>5 DEF SavedOnDisk
      <3> QED BY <2>1, <3>1, <3>6 DEF SettingsInv
    <2> QED BY <2>2, <2>3
  <1>8. CASE Start
    <2>1. ~Fault
      BY <1>0 DEF Fault
    <2>2. /\ ~Running /\ faults = 0 /\ setBacks = 0 /\ UNCHANGED <<now, disk, disp>>
          /\ daily' = disk.daily /\ runtime' = LoadedRuntime /\ loadFail' = FALSE
          /\ expected' = ExpectedOnLoad
      BY <1>8, <2>1 DEF Start, NoFault, Running
    <2>3. SavedOnDisk /\ (expected.known => ToldOnDisk)
      BY <2>2 DEF SettingsInv
    <2>4. /\ expected'.known /\ ToldOnDisk' /\ SavedOnDisk'
          /\ ToldOf(disk.daily, LoadedRuntime) = expected'.told
      BY <2>2, <2>3, LoadTellsTheSame
    <2>5. ToldOf(daily, runtime)' = expected'.told /\ daily' = disk'.daily
      BY <2>2, <2>4 DEF ToldOf
    <2>6. disp' = "idle"
      BY <2>2 DEF SettingsInv
    <2> QED BY <2>2, <2>4, <2>5, <2>6 DEF SettingsInv
  <1>9. CASE TickBegin
    <2>1. Running /\ faults = 0 /\ setBacks = 0
      BY <1>9 DEF TickBegin, spent, Running
    <2>2. ~loadFail /\ expected.known /\ ToldOf(daily, runtime) = expected.told
      BY <2>1 DEF SettingsInv
    <2>3. /\ UNCHANGED <<now, daily, disk, loadFail, disp, faults, setBacks>>
          /\ Running /\ Running'
          /\ expected'.known = expected.known /\ expected'.saved = expected.saved
          /\ ToldOf(daily, runtime)' = expected'.told
          /\ daily = disk.daily /\ ToldOnDisk => ToldOnDisk'
      BY <1>9, <2>1, <2>2, RolloverTellsTheSame
    <2>4. SavedOnDisk'
      BY <2>1, <2>2, <2>3 DEF SettingsInv, SavedOnDisk
    <2> QED BY <2>1, <2>2, <2>3, <2>4 DEF SettingsInv
  <1>10. CASE PersistIfDue
    <2>1. /\ Running /\ Running' /\ setBacks = 0 /\ UNCHANGED <<now, disp>>
          /\ SaveState \/ UNCHANGED <<daily, runtime, loadFail, disk, expected, faults>>
      BY <1>10 DEF PersistIfDue, Running
    <2>2. CASE SaveState
      <3>1. faults = 0
        BY <1>0, <2>2 DEF SaveState, StoreSave, Fault, NoFault
      <3>2. ~loadFail /\ expected.known /\ ToldOf(daily, runtime) = expected.told
        BY <2>1, <3>1 DEF SettingsInv
      <3> QED BY <2>1, <2>2, <3>2, SaveTellsTheSame DEF SettingsInv
    <2>3. CASE UNCHANGED <<daily, runtime, loadFail, disk, expected, faults>>
      BY <2>1, <2>3 DEF SettingsInv, ToldOf, ToldOnDisk, SavedOnDisk,
                             RuntimeStateIsCurrent
    <2> QED BY <2>1, <2>2, <2>3
  <1>11. CASE SaveAndReply
    <2>1. Running /\ Running' /\ setBacks = 0 /\ UNCHANGED now /\ SaveState
      BY <1>11 DEF SaveAndReply, MutexFree, Running
    <2>2. faults = 0
      BY <1>0, <2>1 DEF SaveState, StoreSave, Fault, NoFault
    <2>3. ~loadFail /\ expected.known /\ ToldOf(daily, runtime) = expected.told
      BY <2>1, <2>2 DEF SettingsInv
    <2> QED BY <2>1, <2>3, SaveTellsTheSame DEF SettingsInv
  <1> QED
    BY <1>1, <1>2, <1>3, <1>4, <1>5, <1>6, <1>7, <1>8, <1>9, <1>10, <1>11
       DEF Next, LoopStep, DispatcherStep, Environment

\* What the agent enforces is what the parent was told, for every schedule, any
\* number of requests and crashes, and wherever in the loop, a request or a save
\* they fall: what was answered before a request that a crash cut short is in
\* force after the restart, and of that request all, nothing, or its settings
\* only.  As long as no fault happens and the clock is not set back; and of a new
\* wake time that reached the disk without the counters stamped after it, it says
\* only that the restart tests for the rollover with what is on disk, which may
\* take back an older lock or extension inside a period.
THEOREM SettingsAlwaysAsTold == Spec => []SettingsAsTold
  <1>1. Init => SettingsInv
    <2> SUFFICES ASSUME Init PROVE SettingsInv
      OBVIOUS
    <2>1. PICK d \in [bed : BedTimes \cup {Unset}, wake : WakeTimes \cup {DefaultWakeTime},
                      allowance : Allowances \cup {Unset}] :
             /\ disk = [daily |-> d, runtime |-> FreshRuntimeState(StartAt)]
             /\ expected = [known |-> TRUE, told |-> ToldOf(d, FreshRuntimeState(StartAt)),
                            saved |-> ToldOf(d, FreshRuntimeState(StartAt))]
      BY DEF Init
    <2>2. d \in DailySettings
      BY ControlAssumption DEF DailySettings
    <2>3. ToldOnDisk /\ SavedOnDisk
      BY <2>1, <2>2 DEF ToldOnDisk, SavedOnDisk, ToldOf, SettingsOf, DailySettings
    <2> QED BY <2>3 DEF Init, SettingsInv, Running
  <1>2. SettingsInv => SettingsAsTold
    BY DEF SettingsInv, SettingsAsTold
  <1> QED BY <1>1, <1>2, SettingsNext, StampsInOrder, PTL DEF Spec
=============================================================================
