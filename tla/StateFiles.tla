----------------------------- MODULE StateFiles -----------------------------
(***************************************************************************)
(* What is in the agent's files (agent_state.py): how settings and counters*)
(* are written as JSON, which JSON is accepted back, and where settings    *)
(* come from when there are none to load.                                  *)
(*                                                                         *)
(* A JSON value is <<"absent">> (no such key), <<"null">>, <<"bool", b>>,  *)
(* <<"num", x>> (x in thousandths: a multiple of 1000 is a whole number)   *)
(* or a text, which stands for all texts of one meaning: <<"number", x>>,  *)
(* <<"time", t>>, <<"instant", t>>, <<"date", d>>, <<"word", b>> (true or  *)
(* false), <<"name", user>>, <<"empty">>, <<"junk">>.  Instants are in     *)
(* fractions of a second, MinuteLength of them to the unit of LockPolicy.  *)
(*                                                                         *)
(* A conversion yields the set of values it may return: one, or none where *)
(* the code raises ValueError.                                             *)
(***************************************************************************)
EXTENDS LockPolicy, Sequences

CONSTANTS
    SecondLength,   \* fractions in a second
    MinuteLength,   \* fractions in a minute
    DefaultWake,    \* DEFAULT_WAKE_TIME
    MaxWhole,       \* the largest number accepted (2^53), in thousandths
    Me              \* current_user

ASSUME StateFilesAssumption ==
    /\ SecondLength \in Nat \ {0}
    /\ MinuteLength \in Nat \ {0} /\ MinuteLength % SecondLength = 0
    /\ DefaultWake \in TimesOfDay
    /\ MaxWhole \in Nat

Period(instant, wake) == UsagePeriodDate(instant \div MinuteLength, wake)

FreshRuntime(now) == [ts |-> now, acc |-> 0, manual |-> FALSE, ext |-> 0]

-----------------------------------------------------------------------------
(* Single values *)

\* A whole number, written as an int, a float or a text.
AsInt(v) ==
    IF v[1] \in {"num", "number"} /\ v[2] % 1000 = 0 /\ v[2] \in -MaxWhole .. MaxWhole
    THEN {v[2] \div 1000} ELSE {}

AsNonnegInt(v) == {n \in AsInt(v) : n >= 0}

\* In thousandths; only a whole number (an int) is held to MaxWhole.
AsNonnegFloat(v) ==
    IF v[1] \in {"num", "number"} /\ v[2] >= 0
       /\ (v[1] = "num" /\ v[2] % 1000 = 0 => v[2] <= MaxWhole)
    THEN {v[2]} ELSE {}

AsBool(v) ==
    CASE v[1] \in {"bool", "word"} -> {v[2]}
      [] v[1] = "num" /\ v[2] \in {0, 1000} -> {v[2] = 1000}
      [] OTHER -> {}

\* A time outside the day is refused.
AsTime(v) == IF v[1] = "time" /\ v[2] \in TimesOfDay THEN {v[2]} ELSE {}

\* A date alone is its midnight; an offset is dropped.
ParseTimestamp(v) ==
    CASE v[1] = "instant" -> {v[2]}
      [] v[1] = "date" -> {v[2] * DayLength * MinuteLength}
      [] OTHER -> {}

\* The value when the key is absent, else what the conversion makes of it.
Given(v, default, converted) == IF v[1] = "absent" THEN {default} ELSE converted

-----------------------------------------------------------------------------
(* daily_settings.json and state.json *)

DailyToDict(d) ==
    [wake_time |-> <<"time", d.wake>>,
     bed_time |-> IF d.bed = Unset THEN <<"null">> ELSE <<"time", d.bed>>,
     allowance |-> IF d.allowance = Unset THEN <<"null">> ELSE <<"num", d.allowance * 1000>>]

LoadDailyFromDict(data) ==
    [wake : Given(data.wake_time, DefaultWake, AsTime(data.wake_time)),
     bed : IF data.bed_time[1] \in {"absent", "null", "empty"}
           THEN {Unset} ELSE AsTime(data.bed_time),
     allowance : IF data.allowance[1] \in {"absent", "null"}
                 THEN {Unset} ELSE AsNonnegInt(data.allowance)]

\* Mutant: rounds the timestamp to the nearest second.
RuntimeToDictRounded(r) ==
    [timestamp |-> <<"instant", ((r.ts + SecondLength \div 2) \div SecondLength) * SecondLength>>,
     accumulated_seconds |-> <<"num", r.acc>>,
     manual_lock_active |-> <<"bool", r.manual>>,
     cumulative_extension_seconds |-> <<"num", r.ext * 1000>>]

\* The timestamp is cut to the second.  (The usage is rounded to thousandths,
\* which it is counted in here.)
RuntimeToDict(r) ==
    [timestamp |-> <<"instant", (r.ts \div SecondLength) * SecondLength>>,
     accumulated_seconds |-> <<"num", r.acc>>,
     manual_lock_active |-> <<"bool", r.manual>>,
     cumulative_extension_seconds |-> <<"num", r.ext * 1000>>]

LoadRuntimeFromDict(data) ==
    [ts : ParseTimestamp(data.timestamp),
     acc : Given(data.accumulated_seconds, 0, AsNonnegFloat(data.accumulated_seconds)),
     manual : Given(data.manual_lock_active, FALSE, AsBool(data.manual_lock_active)),
     ext : Given(data.cumulative_extension_seconds, 0,
                 AsNonnegInt(data.cumulative_extension_seconds))]

\* The installer's question: is everything configured?
IsCompleteDailyDict(data) ==
    /\ data.wake_time[1] \notin {"absent", "null", "bool", "num", "empty"}
    /\ data.bed_time[1] \notin {"absent", "null", "bool", "num", "empty"}
    /\ data.allowance[1] \notin {"absent", "null"}
    /\ \E d \in LoadDailyFromDict(data) : d.bed # Unset /\ d.allowance > 0

-----------------------------------------------------------------------------
(* No usable daily_settings.json: an older version's pc_control_state.json,  *)
(* what the installer left in ProgramData, or the built-in default           *)

\* The first of the old lock times; one that is no HH:MM text at all counts for
\* none.  lock_times is <<"list", first>> or a value that is no list.
LegacyLockTimesToBedTime(raw) ==
    CASE raw[1] \in {"absent", "null"} -> {Unset}
      [] raw[1] = "list" ->
            IF raw[2][1] = "time" THEN AsTime(raw[2])
            ELSE IF raw[2][1] = "instant" THEN {} ELSE {Unset}
      [] OTHER -> {}

LegacyDaily(legacy) ==
    [wake : IF legacy.wake_time[1] \in {"absent", "null", "bool", "num"}
            THEN {DefaultWake} ELSE AsTime(legacy.wake_time),
     bed : LegacyLockTimesToBedTime(legacy.lock_times),
     allowance : IF legacy.usage_allowance[1] \in {"absent", "null"}
                 THEN {Unset} ELSE AsNonnegInt(legacy.usage_allowance)]

\* Usage recorded for an earlier period does not carry over.
LegacyRuntime(legacy, wake, now) ==
    LET carried ==
            [ts : {now},
             acc : Given(legacy.accumulated_seconds, 0,
                         AsNonnegFloat(legacy.accumulated_seconds)),
             manual : Given(legacy.manual_lock_active, FALSE,
                            AsBool(legacy.manual_lock_active)),
             ext : {0}]
    IN  CASE legacy.accumulated_date[1] = "absent" -> carried
          [] legacy.accumulated_date[1] = "date" ->
                IF legacy.accumulated_date[2] < Period(now, wake)
                THEN {FreshRuntime(now) : r \in carried} ELSE carried
          [] OTHER -> {}

LegacyToState(legacy, now) ==
    UNION {{d} \X LegacyRuntime(legacy, d.wake, now) : d \in LegacyDaily(legacy)}

\* A file for somebody else; one that names nobody is for everybody.
ForAnother(data) == data.target_user[1] = "name" /\ data.target_user[2] # Me

\* Mutant: settings that the installer wrote for another user are used.
BootstrapForAnyone(daily, install) ==
    UNION {LoadDailyFromDict(data) : data \in daily}

\* ProgramData's daily_settings.json, else the wake time of install_config.json.
\* Each is the set of what was read: nothing when there is no usable file.
BootstrapDailyFromProgramData(daily, install) ==
    LET mine == UNION {LoadDailyFromDict(data) : data \in {x \in daily : ~ForAnother(x)}}
    IN  IF mine # {} THEN mine
        ELSE [wake : UNION {AsTime(x.wake_time) : x \in {y \in install : ~ForAnother(y)}},
              bed : {Unset}, allowance : {Unset}]

\* _derive_daily: the settings, and the counters where the old file has some.
DeriveDaily(legacy, daily, install, now) ==
    LET migrated == UNION {LegacyToState(x, now) : x \in legacy}
        bootstrapped == BootstrapDailyFromProgramData(daily, install)
        defaults == [wake : {DefaultWake}, bed : {Unset}, allowance : {Unset}]
    IN  IF migrated # {} THEN migrated
        ELSE (IF bootstrapped # {} THEN bootstrapped ELSE defaults) \X {FreshRuntime(now)}
=============================================================================
