---------------------------- MODULE MCLockPolicy ----------------------------
(***************************************************************************)
(* Checks the operators of LockPolicy against reference definitions that   *)
(* are written from what the functions promise, never from how they        *)
(* compute it.  A state is one input of the decision; a step is one more   *)
(* minute on the clock.                                                    *)
(***************************************************************************)
EXTENDS LockPolicy, FiniteSetsExt

CONSTANTS Horizon,        \* minutes the clock runs before it starts over
          MaxAllowance,   \* largest allowance and usage tried
          BedEqualsWake   \* the schedules tried: bed time = wake time, or not

ASSUME HorizonAssumption == Horizon \in Nat /\ Horizon >= 2 * DayLength

ASSUME AllowanceAssumption == MaxAllowance \in Nat

VARIABLE in

Inputs == [now : DayLength .. Horizon - 1, bed : TimesOfDay \cup {Unset},
           wake : TimesOfDay, allowance : 0 .. MaxAllowance \cup {Unset},
           accumulated : 0 .. MaxAllowance, exempt : BOOLEAN, manual : BOOLEAN]

Init == in \in {i \in Inputs : (i.bed = i.wake) = BedEqualsWake}

MinutePasses == in.now < Horizon - 1 /\ in' = [in EXCEPT !.now = @ + 1]

Next == MinutePasses

Spec == Init /\ [][Next]_in

-----------------------------------------------------------------------------
(* Reference definitions *)

\* Minutes of a day in the order they follow t0, up to t1 exclusive.
Between(t0, t1) ==
    {(t0 + k) % DayLength : k \in 0 .. ((t1 - t0) % DayLength) - 1}

\* The same user k minutes later, having used the PC all the time.
After(i, k) == [i EXCEPT !.now = @ + k, !.accumulated = @ + k]

RolloverWithin(i, k) ==
    UsagePeriodDate(i.now + k, i.wake) # UsagePeriodDate(i.now, i.wake)

\* How far ahead a lock can be: the next bed time is within a day, the end of
\* the allowance within the allowance.
FirstLock(i) ==
    LET locked == {k \in 0 .. DayLength + MaxAllowance : ShouldLock(After(i, k))}
    IN  IF locked = {} THEN Unset ELSE Min(locked)

-----------------------------------------------------------------------------
(* Properties *)

\* The curfew is exactly the minutes from bed time up to wake time, going round
\* midnight when bed time is later in the day than wake time.
CurfewIsBedToWake ==
    in.bed # Unset =>
        (IsInBedtimeCurfew(in.now, in.bed, in.wake)
            <=> MinuteOfDay(in.now) \in Between(in.bed, in.wake))

\* A curfew can only end at the moment the daily counters are reset: there is
\* no minute after the curfew in which yesterday's usage still counts.
CurfewEndsWithThePeriod ==
    [][InCurfew(in) /\ ~InCurfew(in') =>
          UsagePeriodDate(in'.now, in'.wake) = UsagePeriodDate(in.now, in.wake) + 1]_in

\* The countdown the warnings and the panel use is the distance to the first
\* minute at which the decision is "lock", for a user who keeps using the PC,
\* unless a rollover comes first (which resets the usage counted against).
CountdownIsFirstLock ==
    LET m == MinutesUntilLock(in)
        k == IF m = Unset THEN 0 ELSE m
    IN  in.exempt \/ RolloverWithin(in, k) \/ m = FirstLock(in)

\* What the comment of MinutesUntilLock says: the minutes until the next lock,
\* and nothing when there is none to count down to.  Of a user without an
\* allowance this is the same as FirstLock within a day.
CountdownComesTrue ==
    in.allowance = Unset /\ ~in.exempt => MinutesUntilLock(in) = FirstLock(in)
=============================================================================
