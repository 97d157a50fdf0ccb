----------------------------- MODULE LockPolicy -----------------------------
(***************************************************************************)
(* When must the kid PC be locked?  The pure decision functions of         *)
(* lock_policy.py and the effective-allowance rule of agent_state.py, which*)
(* the Go agent repeats in go/policy and go/state.                         *)
(*                                                                         *)
(* A wall-clock time is a natural number of minutes since some midnight; a *)
(* day has DayLength minutes (1440 in the code, fewer in a TLC instance).  *)
(* A time of day is a minute of the day.  Seconds are abstracted: every    *)
(* decision of the code compares minutes, and only the countdown keeps     *)
(* fractions of one.                                                       *)
(***************************************************************************)
EXTENDS Integers

CONSTANT DayLength      \* minutes in a day

ASSUME DayLengthAssumption == DayLength \in Nat \ {0}

\* "No bed time", "no allowance", "nothing to count down to" (None in the code).
Unset == -1

TimesOfDay == 0 .. DayLength - 1

Reasons == {"none", "manual", "before_wake", "past_bed", "allowance"}

-----------------------------------------------------------------------------
(* Times *)

CalendarDate(now) == now \div DayLength

MinuteOfDay(now) == now % DayLength

\* Mutant: periods change at midnight.
UsagePeriodDateAtMidnight(now, wake) == CalendarDate(now)

\* The usage period that contains now, labelled with the date it began on:
\* a period runs from one wake time to the next.
UsagePeriodDate(now, wake) ==
    IF MinuteOfDay(now) < wake THEN CalendarDate(now) - 1 ELSE CalendarDate(now)

-----------------------------------------------------------------------------
(* Decisions.  in is a record of the arguments of lock_decision:           *)
(* now, bed, allowance, accumulated, exempt, manual, wake.                 *)

\* A non-empty monitored list wins; otherwise a non-empty exempt list excludes.
ShouldMonitorUser(user, monitored, exempt) ==
    \/ monitored # {} /\ user \in monitored
    \/ monitored = {} /\ user \notin exempt

\* Mutant: forgets that a curfew usually goes past midnight.
IsInBedtimeCurfewSameDayOnly(now, bed, wake) ==
    bed <= MinuteOfDay(now) /\ MinuteOfDay(now) < wake

IsInBedtimeCurfew(now, bed, wake) ==
    LET m == MinuteOfDay(now)
    IN  \/ bed > wake /\ (m >= bed \/ m < wake)
        \/ bed < wake /\ bed <= m /\ m < wake

\* The allowance in force: an extension without a configured allowance is
\* itself the cap.
EffectiveDailyAllowanceMinutes(allowance, extension) ==
    IF allowance # Unset THEN allowance + extension
    ELSE IF extension > 0 THEN extension ELSE Unset

AllowanceReached(in) ==
    in.allowance # Unset /\ in.accumulated >= in.allowance

InCurfew(in) ==
    in.bed # Unset /\ IsInBedtimeCurfew(in.now, in.bed, in.wake)

LockReason(in) ==
    CASE in.exempt -> "none"
      [] ~in.exempt /\ in.manual -> "manual"
      [] ~in.exempt /\ ~in.manual /\ InCurfew(in) ->
            IF MinuteOfDay(in.now) < in.wake THEN "before_wake" ELSE "past_bed"
      [] ~in.exempt /\ ~in.manual /\ ~InCurfew(in) ->
            IF AllowanceReached(in) THEN "allowance" ELSE "none"

ShouldLock(in) == LockReason(in) # "none"

\* Schedule and limit enforcement without the manual lock.
EnforcementState(in) == LockReason([in EXCEPT !.manual = FALSE])

\* Mutant: a bed time that has passed is not moved to the next day.
MinutesUntilBedToday(now, bed) == bed - MinuteOfDay(now)

\* Minutes from now to the next time the clock shows bed.
MinutesUntilBed(now, bed) ==
    IF bed > MinuteOfDay(now) THEN bed - MinuteOfDay(now)
                              ELSE bed - MinuteOfDay(now) + DayLength

\* The candidates for the next lock: the bed time and the end of the allowance.
Countdowns(in) ==
    (IF in.bed # Unset THEN {MinutesUntilBed(in.now, in.bed)} ELSE {})
        \cup (IF in.allowance # Unset THEN {in.allowance - in.accumulated} ELSE {})

\* Minutes until the next lock, 0 when already locked, Unset when there is
\* nothing to count down to.
MinutesUntilLock(in) ==
    IF in.exempt THEN Unset
    ELSE IF ShouldLock(in) THEN 0
    ELSE IF Countdowns(in) = {} THEN Unset
    ELSE CHOOSE m \in Countdowns(in) : \A n \in Countdowns(in) : m <= n

\* What the panel shows: the enforcement state first, the screen last.
FormatAccessStatus(manual, enforcement, screenLocked) ==
    CASE enforcement # "none" -> enforcement
      [] enforcement = "none" /\ manual -> "manual"
      [] enforcement = "none" /\ ~manual ->
            IF screenLocked THEN "screen_locked" ELSE "unlocked"
=============================================================================
