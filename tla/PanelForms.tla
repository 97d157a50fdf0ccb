------------------------------ MODULE PanelForms ------------------------------
(***************************************************************************)
(* The way of a parent's click and of the answer: what the panel asks for  *)
(* an action of its pages (remote_client.py), what the agent makes of the  *)
(* request and answers to "get settings" (request_dispatcher.py,           *)
(* pc_time_control.py), and what the panel shows of that.                  *)
(*                                                                         *)
(* The agent counts use and extensions in seconds and decides in minutes;  *)
(* here LockPolicy is taken at the scale of seconds (AtSeconds).           *)
(* An answer that has a value is a set with one element, an error is {}.   *)
(***************************************************************************)
EXTENDS LockPolicy

CONSTANTS MinuteSeconds,    \* seconds in a minute
          MaxDailyLimit     \* MAX_DAILY_LIMIT, and the longest extension

ASSUME FormsAssumption == MinuteSeconds \in Nat \ {0} /\ MaxDailyLimit \in Nat \ {0}

AtSeconds == INSTANCE LockPolicy WITH DayLength <- DayLength * MinuteSeconds

None == <<"none">>
Minutes(n) == <<"minutes", n>>      \* a number, or the text of one
ClockTime(t) == <<"time", t>>       \* the text of a time of day

-----------------------------------------------------------------------------
(* The panel: from a click to a request *)

Actions == {"lock", "extend_time", "clear_manual_lock", "clear_extensions",
            "set_daily_limit", "clear_usage_limit", "set_bed_time", "clear_bed_time",
            "clear_lock_times", "set_wake_time"}

Ask(action, var, val) == {[action |-> action, var |-> var, val |-> val]}

\* int() of what the page sent.
AskNumber(action, var, val) == IF val[1] = "minutes" THEN Ask(action, var, val) ELSE {}

ActionRequestFields(name, value) ==
    CASE name = "lock" -> Ask("lock", "none", None)
      [] name = "extend_time" -> AskNumber("extend", "none", value)
      [] name = "clear_manual_lock" -> Ask("clear", "manual_lock", None)
      [] name = "clear_extensions" -> Ask("clear", "cumulative_extension", None)
      [] name = "set_daily_limit" ->
            IF value \in {None, <<"empty">>} THEN Ask("clear", "daily_limit", None)
            ELSE AskNumber("set", "daily_limit", value)
      [] name = "clear_usage_limit" -> Ask("clear", "daily_limit", None)
      [] name = "set_bed_time" -> Ask("set", "bed_time", value)
      [] name \in {"clear_bed_time", "clear_lock_times"} -> Ask("clear", "bed_time", None)
      [] name = "set_wake_time" -> Ask("set", "wake_time", value)

-----------------------------------------------------------------------------
(* The agent: a request carried out.  c is its PCTimeControl:              *)
(* [now, bed, wake, allowance, acc, ext, manual, exempt, locked], now, acc *)
(* and ext in seconds.                                                     *)

\* _parse_int and the range check; _parse_hhmm.
InRange(val) == val[1] = "minutes" /\ val[2] \in 1 .. MaxDailyLimit
ParseHHMM(val) == IF val[1] = "time" /\ val[2] \in TimesOfDay THEN {val[2]} ELSE {}

DoSet(c, var, val) ==
    CASE var = "daily_limit" ->
            IF InRange(val) THEN {[c EXCEPT !.allowance = val[2]]} ELSE {}
      [] var = "bed_time" -> {[c EXCEPT !.bed = t] : t \in ParseHHMM(val)}
      [] var = "wake_time" ->
            {IF UsagePeriodDate(c.now \div MinuteSeconds, c.wake)
                    < UsagePeriodDate(c.now \div MinuteSeconds, t)
             THEN [c EXCEPT !.wake = t, !.acc = 0, !.ext = 0, !.manual = FALSE]
             ELSE [c EXCEPT !.wake = t] : t \in ParseHHMM(val)}

DoClear(c, var) ==
    CASE var = "daily_limit" -> {[c EXCEPT !.allowance = Unset]}
      [] var = "bed_time" -> {[c EXCEPT !.bed = Unset]}
      [] var = "cumulative_extension" -> {[c EXCEPT !.ext = 0]}
      [] var = "manual_lock" -> {[c EXCEPT !.manual = FALSE]}

DoExtend(c, val) ==
    IF InRange(val) THEN {[c EXCEPT !.ext = @ + val[2] * MinuteSeconds, !.manual = FALSE]}
    ELSE {}

Dispatch(c, request) ==
    CASE request.action = "set" -> DoSet(c, request.var, request.val)
      [] request.action = "clear" -> DoClear(c, request.var)
      [] request.action = "extend" -> DoExtend(c, request.val)
      [] request.action = "lock" -> {[c EXCEPT !.manual = TRUE, !.locked = TRUE]}

-----------------------------------------------------------------------------
(* The agent: its settings told *)

\* The arguments of lock_decision and minutes_until_lock, in seconds.
DecisionInputs(c) ==
    LET scaled(m) == IF m = Unset THEN Unset ELSE m * MinuteSeconds
    IN  [now |-> c.now, bed |-> scaled(c.bed), wake |-> scaled(c.wake),
         allowance |-> EffectiveDailyAllowanceMinutes(scaled(c.allowance), c.ext),
         accumulated |-> c.acc, exempt |-> c.exempt, manual |-> c.manual]

\* round(), to the even one of two equally near.
Rounded(seconds) ==
    LET whole == seconds \div MinuteSeconds
        rest == 2 * (seconds % MinuteSeconds)
    IN  IF rest > MinuteSeconds \/ (rest = MinuteSeconds /\ whole % 2 = 1)
        THEN whole + 1 ELSE whole

TimeRemaining(c) ==
    LET left == AtSeconds!MinutesUntilLock(DecisionInputs(c))
    IN  IF left = Unset THEN None ELSE Minutes(Rounded(left))

\* _read_variable for each of VARIABLES.
ReadVariables(c) ==
    LET enforced == AtSeconds!EnforcementState(DecisionInputs(c))
    IN  [status |-> IF c.locked THEN "LOCKED" ELSE "UNLOCKED",
         daily_limit |-> c.allowance, bed_time |-> c.bed, wake_time |-> c.wake,
         manual_lock |-> c.manual, cumulative_extension |-> c.ext,
         accumulated_seconds |-> c.acc, time_remaining |-> TimeRemaining(c),
         enforcement_active |-> enforced # "none", enforcement_reason |-> enforced,
         access_status |-> FormatAccessStatus(c.manual, enforced, c.locked)]

-----------------------------------------------------------------------------
(* The panel: the settings shown *)

\* Mutant: without a daily limit there is no limit to show.
EffectiveLimitOfDailyLimit(settings) ==
    IF settings.daily_limit = Unset THEN Unset
    ELSE settings.daily_limit * MinuteSeconds + settings.cumulative_extension

\* The limit the panel works out for itself, in seconds.
EffectiveLimit(settings) ==
    IF settings.daily_limit = Unset /\ settings.cumulative_extension <= 0 THEN Unset
    ELSE (IF settings.daily_limit = Unset THEN 0 ELSE settings.daily_limit * MinuteSeconds)
            + settings.cumulative_extension

\* For an agent that does not tell its access status.
LegacyAccessStatus(settings) ==
    IF settings.manual_lock THEN "manual"
    ELSE IF settings.status = "LOCKED" THEN "screen_locked" ELSE "unlocked"

SettingsToPCInfo(settings) ==
    [locked |-> settings.status = "LOCKED",
     daily_limit |-> settings.daily_limit,
     lock_times |-> {settings.bed_time} \ {Unset},
     wake_time |-> settings.wake_time,
     effective_limit |-> EffectiveLimit(settings),
     accumulated_seconds |-> settings.accumulated_seconds,
     time_remaining |-> settings.time_remaining,
     access_status |-> IF "access_status" \in DOMAIN settings THEN settings.access_status
                       ELSE LegacyAccessStatus(settings)]
=============================================================================
