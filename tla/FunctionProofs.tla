----------------------------- MODULE FunctionProofs -----------------------------
(***************************************************************************)
(* The functions do what they promise, for every input: the lock decision  *)
(* means what curfew, usage period and countdown mean, for a day of any    *)
(* length and every schedule, allowance and time; what is saved is loaded; *)
(* the panel's page tells what is in force; secret and password are found. *)
(***************************************************************************)
EXTENDS MCValues, Frames, TLAPS

USE DayLengthAssumption

-----------------------------------------------------------------------------
(* Division *)

\* A number is a multiple and a rest.
LEMMA Division ==
    ASSUME NEW n \in Nat \ {0}, NEW t \in Int
    PROVE  /\ t \div n \in Int
           /\ t % n \in 0 .. n - 1
           /\ t = n * (t \div n) + (t % n)
  OBVIOUS

\* Multiples that differ are at least n apart.
LEMMA Multiples ==
    ASSUME NEW n \in Nat, NEW p \in Int, NEW q \in Int, p >= q + 1
    PROVE  n * p >= n * q + n
  <1>1. PICK k \in Nat : p = q + 1 + k
    <2> WITNESS p - q - 1 \in Nat
    <2> QED OBVIOUS
  <1>2. n * p = n * q + n + n * k
    BY <1>1
  <1>3. n * k >= 0
    OBVIOUS
  <1>4. n * p \in Int /\ n * q \in Int /\ n * k \in Int
    OBVIOUS
  <1> QED BY <1>2, <1>3, <1>4

\* There is only one way to see a number so.
LEMMA Quotient ==
    ASSUME NEW n \in Nat \ {0}, NEW t \in Int, NEW q \in Int, NEW r \in 0 .. n - 1,
           t = n * q + r
    PROVE  t \div n = q /\ t % n = r
  <1> DEFINE p == t \div n
             s == t % n
  <1>1. /\ p \in Int /\ s \in 0 .. n - 1
        /\ t = n * p + s
    BY Division
  <1> HIDE DEF p, s
  <1>2. n * p \in Int /\ n * q \in Int
    BY <1>1
  <1>3. ~(p >= q + 1)
    <2> SUFFICES ASSUME p >= q + 1 PROVE FALSE
      OBVIOUS
    <2>1. n * p >= n * q + n
      BY <1>1, Multiples
    <2> QED BY <1>1, <1>2, <2>1
  <1>4. ~(q >= p + 1)
    <2> SUFFICES ASSUME q >= p + 1 PROVE FALSE
      OBVIOUS
    <2>1. n * q >= n * p + n
      BY <1>1, Multiples
    <2> QED BY <1>1, <1>2, <2>1
  <1>5. p = q
    BY <1>1, <1>3, <1>4
  <1>6. s = r
    BY <1>1, <1>2, <1>5
  <1> QED BY <1>5, <1>6 DEF p, s

-----------------------------------------------------------------------------
(* The clock *)

\* A time is so many whole days and a minute of the day.
LEMMA DaysAndMinutes ==
    ASSUME NEW t \in Int
    PROVE  /\ t \div DayLength \in Int
           /\ t % DayLength \in TimesOfDay
           /\ t = DayLength * (t \div DayLength) + (t % DayLength)
  BY Division DEF TimesOfDay

\* There is only one way to see a time so.
LEMMA OneWay ==
    ASSUME NEW t \in Int, NEW q \in Int, NEW r \in TimesOfDay, t = DayLength * q + r
    PROVE  t \div DayLength = q /\ t % DayLength = r
  BY Quotient DEF TimesOfDay

\* k minutes later, for up to a day, it is the same day or the next one.
LEMMA Later ==
    ASSUME NEW t \in Int, NEW k \in 0 .. DayLength
    PROVE  /\ MinuteOfDay(t) \in TimesOfDay /\ CalendarDate(t) \in Int
           /\ \/ /\ MinuteOfDay(t) + k < DayLength
                 /\ MinuteOfDay(t + k) = MinuteOfDay(t) + k
                 /\ CalendarDate(t + k) = CalendarDate(t)
              \/ /\ MinuteOfDay(t) + k >= DayLength
                 /\ MinuteOfDay(t + k) = MinuteOfDay(t) + k - DayLength
                 /\ CalendarDate(t + k) = CalendarDate(t) + 1
  <1> DEFINE p == t \div DayLength
             s == t % DayLength
  <1>1. p \in Int /\ s \in TimesOfDay /\ t = DayLength * p + s
    BY DaysAndMinutes
  <1> HIDE DEF p, s
  <1>2. DayLength * p \in Int /\ DayLength * (p + 1) = DayLength * p + DayLength
    BY <1>1
  <1> DEFINE u == t + k
  <1>5. u \in Int
    OBVIOUS
  <1>3. CASE s + k < DayLength
    <2> DEFINE r == s + k
    <2>1. r \in TimesOfDay /\ u = DayLength * p + r
      BY <1>1, <1>2, <1>3 DEF TimesOfDay
    <2>2. u \div DayLength = p /\ u % DayLength = r
      <3> HIDE DEF u, r
      <3> QED BY <1>1, <1>5, <2>1, OneWay
    <2> QED BY <1>1, <1>3, <2>2 DEF MinuteOfDay, CalendarDate, p, s
  <1>4. CASE s + k >= DayLength
    <2> DEFINE r == s + k - DayLength
               q == p + 1
    <2>1. r \in TimesOfDay /\ u = DayLength * q + r /\ q \in Int
      BY <1>1, <1>2, <1>4 DEF TimesOfDay
    <2>2. u \div DayLength = q /\ u % DayLength = r
      <3> HIDE DEF u, r, q
      <3> QED BY <1>5, <2>1, OneWay
    <2> QED BY <1>1, <1>4, <2>2 DEF MinuteOfDay, CalendarDate, p, s
  <1> QED BY <1>1, <1>3, <1>4 DEF TimesOfDay

-----------------------------------------------------------------------------
(* Types *)

TypeOK == in \in Inputs

\* A state is an input of the decision.
THEOREM TypeCorrect == Spec => []TypeOK
  <1>1. Init => TypeOK
    BY DEF Init, TypeOK
  <1>2. TypeOK /\ [Next]_in => TypeOK'
    BY HorizonAssumption DEF TypeOK, Next, MinutePasses, Inputs
  <1> QED BY <1>1, <1>2, PTL DEF Spec

-----------------------------------------------------------------------------
(* The curfew *)

\* The comparisons of the code are those of the minutes from bed time to wake time.
LEMMA CurfewMeans ==
    ASSUME NEW now \in Int, NEW bed \in TimesOfDay, NEW wake \in TimesOfDay
    PROVE  IsInBedtimeCurfew(now, bed, wake) <=> MinuteOfDay(now) \in Between(bed, wake)
  <1> DEFINE m == MinuteOfDay(now)
             len == (wake - bed) % DayLength
  <1>0. m \in TimesOfDay /\ bed \in Int /\ wake \in Int
    BY DaysAndMinutes DEF MinuteOfDay, TimesOfDay
  <1>1. len = IF wake >= bed THEN wake - bed ELSE wake - bed + DayLength
    <2>1. CASE wake >= bed
      <3>1. wake - bed \in TimesOfDay /\ wake - bed = DayLength * 0 + (wake - bed)
        BY <2>1 DEF TimesOfDay
      <3>2. len = wake - bed
        BY <1>0, <3>1, OneWay, SMTT(40)
      <3> QED BY <2>1, <3>2
    <2>2. CASE wake < bed
      <3>1. wake - bed + DayLength \in TimesOfDay
            /\ wake - bed = DayLength * (-1) + (wake - bed + DayLength)
        BY <2>2 DEF TimesOfDay
      <3>2. len = wake - bed + DayLength
        BY <1>0, <3>1, OneWay, SMTT(40)
      <3> QED BY <1>0, <2>2, <3>2
    <2> QED BY <1>0, <2>1, <2>2
  <1>2. ASSUME NEW k \in 0 .. len - 1
        PROVE  (bed + k) % DayLength = IF bed + k < DayLength THEN bed + k
                                       ELSE bed + k - DayLength
    <2>1. k \in 0 .. DayLength
      <3>1. len \in Int /\ len <= DayLength
        BY <1>0, <1>1 DEF TimesOfDay
      <3> HIDE DEF len
      <3> QED BY <1>2, <3>1
    <2>2. bed % DayLength = bed
      <3>1. bed = DayLength * 0 + bed
        BY <1>0
      <3> QED BY <1>0, <3>1, OneWay
    <2>3. \/ /\ MinuteOfDay(bed) + k < DayLength
             /\ MinuteOfDay(bed + k) = MinuteOfDay(bed) + k
          \/ /\ MinuteOfDay(bed) + k >= DayLength
             /\ MinuteOfDay(bed + k) = MinuteOfDay(bed) + k - DayLength
      BY <1>0, <2>1, Later
    <2>4. CASE bed + k < DayLength
      BY <1>0, <2>1, <2>2, <2>3, <2>4 DEF MinuteOfDay
    <2>5. CASE ~(bed + k < DayLength)
      BY <1>0, <2>1, <2>2, <2>3, <2>5 DEF MinuteOfDay
    <2> QED BY <2>4, <2>5
  <1>3. m \in Between(bed, wake) <=> \E k \in 0 .. len - 1 : m = (bed + k) % DayLength
    BY DEF Between
  <1>4. m \in Between(bed, wake) <=>
           \E k \in 0 .. len - 1 : m = IF bed + k < DayLength THEN bed + k
                                       ELSE bed + k - DayLength
    BY <1>2, <1>3
  <1>5. IsInBedtimeCurfew(now, bed, wake) <=>
           \/ bed > wake /\ (m >= bed \/ m < wake)
           \/ bed < wake /\ bed <= m /\ m < wake
    BY DEF IsInBedtimeCurfew
  <1> HIDE DEF m, len
  <1>6. ASSUME m \in Between(bed, wake) PROVE IsInBedtimeCurfew(now, bed, wake)
    <2>1. PICK k \in 0 .. len - 1 : m = IF bed + k < DayLength THEN bed + k
                                        ELSE bed + k - DayLength
      BY <1>4, <1>6
    <2> QED BY <1>0, <1>1, <1>5, <2>1 DEF TimesOfDay
  <1>7. ASSUME IsInBedtimeCurfew(now, bed, wake) PROVE m \in Between(bed, wake)
    <2>1. CASE m >= bed
      <3>1. m - bed \in 0 .. len - 1
            /\ m = IF bed + (m - bed) < DayLength THEN bed + (m - bed)
                   ELSE bed + (m - bed) - DayLength
        BY <1>0, <1>1, <1>5, <1>7, <2>1 DEF TimesOfDay
      <3> QED BY <1>4, <3>1
    <2>2. CASE m < bed
      <3>1. m - bed + DayLength \in 0 .. len - 1
            /\ m = IF bed + (m - bed + DayLength) < DayLength THEN bed + (m - bed + DayLength)
                   ELSE bed + (m - bed + DayLength) - DayLength
        BY <1>0, <1>1, <1>5, <1>7, <2>2 DEF TimesOfDay
      <3> QED BY <1>4, <3>1
    <2> QED BY <1>0, <2>1, <2>2 DEF TimesOfDay
  <1> QED BY <1>6, <1>7 DEF m

\* For a day of any length, and every bed and wake time, the curfew is exactly the
\* minutes from bed time up to wake time, also across midnight.
THEOREM CurfewIsAlwaysBedToWake == Spec => []CurfewIsBedToWake
  <1>1. TypeOK => CurfewIsBedToWake
    <2> SUFFICES ASSUME TypeOK, in.bed # Unset
                 PROVE  IsInBedtimeCurfew(in.now, in.bed, in.wake)
                           <=> MinuteOfDay(in.now) \in Between(in.bed, in.wake)
      BY DEF CurfewIsBedToWake
    <2>1. in.now \in Int /\ in.bed \in TimesOfDay /\ in.wake \in TimesOfDay
      BY HorizonAssumption DEF TypeOK, Inputs
    <2> QED BY <2>1, CurfewMeans
  <1> QED BY <1>1, TypeCorrect, PTL

\* A curfew ends only at wake time, when a usage period begins: there is no minute
\* after it in which yesterday's usage still counts.
THEOREM CurfewAlwaysEndsWithThePeriod == Spec => CurfewEndsWithThePeriod
  <1>1. TypeOK /\ [Next]_in =>
           [InCurfew(in) /\ ~InCurfew(in') =>
              UsagePeriodDate(in'.now, in'.wake) = UsagePeriodDate(in.now, in.wake) + 1]_in
    <2> SUFFICES ASSUME TypeOK, Next, InCurfew(in), ~InCurfew(in')
                 PROVE  UsagePeriodDate(in'.now, in'.wake)
                           = UsagePeriodDate(in.now, in.wake) + 1
      OBVIOUS
    <2>1. /\ in.now \in Int /\ in.wake \in TimesOfDay /\ in.bed \in TimesOfDay
          /\ in'.now = in.now + 1 /\ in'.wake = in.wake /\ in'.bed = in.bed
          /\ in.bed # Unset
      BY HorizonAssumption DEF TypeOK, Inputs, Next, MinutePasses, InCurfew
    <2>2. 1 \in 0 .. DayLength
      OBVIOUS
    <2>3. /\ MinuteOfDay(in.now) \in TimesOfDay /\ CalendarDate(in.now) \in Int
          /\ \/ /\ MinuteOfDay(in.now) + 1 < DayLength
                /\ MinuteOfDay(in.now + 1) = MinuteOfDay(in.now) + 1
                /\ CalendarDate(in.now + 1) = CalendarDate(in.now)
             \/ /\ MinuteOfDay(in.now) + 1 >= DayLength
                /\ MinuteOfDay(in.now + 1) = MinuteOfDay(in.now) + 1 - DayLength
                /\ CalendarDate(in.now + 1) = CalendarDate(in.now) + 1
      BY <2>1, <2>2, Later
    <2>4. /\ IsInBedtimeCurfew(in.now, in.bed, in.wake)
          /\ ~IsInBedtimeCurfew(in.now + 1, in.bed, in.wake)
      BY <2>1 DEF InCurfew
    <2> QED BY <2>1, <2>3, <2>4 DEF IsInBedtimeCurfew, UsagePeriodDate, TimesOfDay
  <1> QED BY <1>1, TypeCorrect, PTL DEF Spec, CurfewEndsWithThePeriod

-----------------------------------------------------------------------------
(* The countdown *)

\* Of a schedule whose bed time is not its wake time, the next bed time is the first
\* minute of a curfew that has not begun.
LEMMA CurfewStartsAtBed ==
    ASSUME NEW now \in Int, NEW bed \in TimesOfDay, NEW wake \in TimesOfDay,
           bed # wake, ~IsInBedtimeCurfew(now, bed, wake)
    PROVE  /\ MinutesUntilBed(now, bed) \in 1 .. DayLength
           /\ IsInBedtimeCurfew(now + MinutesUntilBed(now, bed), bed, wake)
           /\ \A k \in 0 .. MinutesUntilBed(now, bed) - 1 :
                 ~IsInBedtimeCurfew(now + k, bed, wake)
  <1> DEFINE m == MinuteOfDay(now)
             n == MinutesUntilBed(now, bed)
  <1>1. m \in TimesOfDay
    BY DaysAndMinutes DEF MinuteOfDay
  <1>2. n = IF bed > m THEN bed - m ELSE bed - m + DayLength
    BY DEF MinutesUntilBed
  <1>3. ~(bed > wake /\ (m >= bed \/ m < wake)) /\ ~(bed < wake /\ bed <= m /\ m < wake)
    BY DEF IsInBedtimeCurfew
  <1>4. \A k \in 0 .. DayLength :
           MinuteOfDay(now + k) = IF m + k < DayLength THEN m + k ELSE m + k - DayLength
    <2> SUFFICES ASSUME NEW k \in 0 .. DayLength
                 PROVE  MinuteOfDay(now + k) = IF m + k < DayLength THEN m + k
                                               ELSE m + k - DayLength
      OBVIOUS
    <2>1. \/ m + k < DayLength /\ MinuteOfDay(now + k) = m + k
          \/ m + k >= DayLength /\ MinuteOfDay(now + k) = m + k - DayLength
      BY Later
    <2> HIDE DEF m
    <2> QED BY <1>1, <2>1 DEF TimesOfDay
  <1>5. bed \in Int /\ wake \in Int /\ m \in Int
    BY <1>1 DEF TimesOfDay
  <1> HIDE DEF m, n
  <1>6. n \in 1 .. DayLength
    BY <1>1, <1>2, <1>5 DEF TimesOfDay
  <1>7. IsInBedtimeCurfew(now + n, bed, wake)
    <2>1. MinuteOfDay(now + n) = bed
      BY <1>1, <1>2, <1>4, <1>5, <1>6 DEF TimesOfDay
    <2> QED BY <1>5, <2>1 DEF IsInBedtimeCurfew
  <1>8. ASSUME NEW k \in 0 .. n - 1
        PROVE  ~IsInBedtimeCurfew(now + k, bed, wake)
    <2>1. k \in 0 .. DayLength
      BY <1>6
    <2>2. CASE m + k < DayLength
      <3>1. MinuteOfDay(now + k) = m + k
        BY <1>4, <2>1, <2>2
      <3> QED BY <1>1, <1>2, <1>3, <1>5, <2>1, <2>2, <3>1 DEF IsInBedtimeCurfew, TimesOfDay
    <2>3. CASE m + k >= DayLength
      <3>1. MinuteOfDay(now + k) = m + k - DayLength
        BY <1>1, <1>4, <2>1, <2>3 DEF TimesOfDay
      <3> QED BY <1>1, <1>2, <1>3, <1>5, <2>1, <2>3, <3>1 DEF IsInBedtimeCurfew, TimesOfDay
    <2> QED BY <1>5, <2>1, <2>2, <2>3
  <1> QED BY <1>6, <1>7, <1>8 DEF n

\* The least element of a set of numbers is its minimum.
LEMMA LeastIsMin ==
    ASSUME NEW S \in SUBSET Int, NEW m \in S, \A x \in S : m <= x
    PROVE  Min(S) = m
  <1>1. Min(S) \in S /\ \A y \in S : Min(S) <= y
    BY DEF Min
  <1>2. Min(S) \in Int /\ m \in Int
    BY <1>1
  <1>3. Min(S) <= m /\ m <= Min(S)
    BY <1>1
  <1> QED BY <1>2, <1>3

\* What is not locked now is locked m minutes from now, and at no minute before, when
\* m is the smaller of the minutes to bed time and of the rest of the allowance.
LEMMA CountdownLocks ==
    ASSUME NEW i \in Inputs, i.bed # i.wake, ~i.exempt, ~ShouldLock(i), Countdowns(i) # {}
    PROVE  /\ MinutesUntilLock(i) \in 0 .. DayLength + MaxAllowance
           /\ ShouldLock(After(i, MinutesUntilLock(i)))
           /\ \A k \in 0 .. MinutesUntilLock(i) - 1 : ~ShouldLock(After(i, k))
  <1> DEFINE n == MinutesUntilBed(i.now, i.bed)
             a == i.allowance - i.accumulated
             m == MinutesUntilLock(i)
             At(k) == After(i, k)
  <1>1. /\ i.now \in Int /\ i.wake \in TimesOfDay
        /\ i.accumulated \in Int /\ i.accumulated >= 0
        /\ i.allowance # Unset => i.allowance \in 0 .. MaxAllowance
        /\ i.bed # Unset => i.bed \in TimesOfDay
        /\ i.exempt \in BOOLEAN /\ i.manual \in BOOLEAN
    BY HorizonAssumption, AllowanceAssumption DEF Inputs
  <1>2. /\ ~i.manual
        /\ i.bed # Unset => ~IsInBedtimeCurfew(i.now, i.bed, i.wake)
        /\ i.allowance # Unset => ~(i.accumulated >= i.allowance)
    BY <1>1 DEF ShouldLock, LockReason, InCurfew, AllowanceReached
  <1>3. \A k : /\ At(k).now = i.now + k /\ At(k).accumulated = i.accumulated + k
               /\ At(k).bed = i.bed /\ At(k).wake = i.wake /\ At(k).allowance = i.allowance
               /\ At(k).exempt = i.exempt /\ At(k).manual = i.manual
    BY DEF After, Inputs
  <1>4. \A k : ShouldLock(At(k)) <=>
              \/ i.bed # Unset /\ IsInBedtimeCurfew(i.now + k, i.bed, i.wake)
              \/ i.allowance # Unset /\ i.accumulated + k >= i.allowance
    <2> HIDE DEF At
    <2> QED BY <1>1, <1>2, <1>3 DEF ShouldLock, LockReason, InCurfew, AllowanceReached
  <1>5. i.bed # Unset =>
           /\ n \in 1 .. DayLength
           /\ IsInBedtimeCurfew(i.now + n, i.bed, i.wake)
           /\ \A k \in 0 .. n - 1 : ~IsInBedtimeCurfew(i.now + k, i.bed, i.wake)
    BY <1>1, <1>2, CurfewStartsAtBed
  <1>6. i.allowance # Unset => a \in 1 .. MaxAllowance /\ i.accumulated + a = i.allowance
    BY <1>1, <1>2, AllowanceAssumption
  <1>7. Countdowns(i) = (IF i.bed # Unset THEN {n} ELSE {})
                           \cup (IF i.allowance # Unset THEN {a} ELSE {})
    BY DEF Countdowns
  <1> HIDE DEF n, a
  <1>8. \E x \in Countdowns(i) : \A y \in Countdowns(i) : x <= y
    BY <1>5, <1>6, <1>7, AllowanceAssumption
  <1>9. m \in Countdowns(i) /\ \A y \in Countdowns(i) : m <= y
    BY <1>8 DEF MinutesUntilLock
  <1> HIDE DEF m, At
  <1>10. /\ i.bed # Unset => m <= n
         /\ i.allowance # Unset => m <= a
         /\ \/ i.bed # Unset /\ m = n
            \/ i.allowance # Unset /\ m = a
    BY <1>7, <1>9
  <1>11. m \in 0 .. DayLength + MaxAllowance
    BY <1>5, <1>6, <1>10, AllowanceAssumption
  <1>12. ShouldLock(At(m))
    BY <1>1, <1>4, <1>5, <1>6, <1>10
  <1>13. ASSUME NEW k \in 0 .. m - 1 PROVE ~ShouldLock(At(k))
    <2>1. i.bed # Unset => k \in 0 .. n - 1
      BY <1>5, <1>10, <1>11, AllowanceAssumption
    <2>2. i.allowance # Unset => ~(i.accumulated + k >= i.allowance)
      BY <1>1, <1>6, <1>10, <1>11, AllowanceAssumption
    <2> QED BY <1>4, <1>5, <2>1, <2>2
  <1> QED BY <1>11, <1>12, <1>13 DEF m, At

\* For every schedule whose bed time is not its wake time, the countdown is the
\* distance to the first minute at which the PC is locked.
THEOREM CountdownIsAlwaysFirstLock ==
    ASSUME ~BedEqualsWake
    PROVE  Spec => []CountdownIsFirstLock
  <1> DEFINE Apart == in.bed # in.wake
  <1>1. Init => Apart
    BY DEF Init
  <1>2. TypeOK /\ Apart /\ [Next]_in => Apart'
    BY DEF TypeOK, Next, MinutePasses, Inputs
  <1>3. TypeOK /\ Apart => CountdownIsFirstLock
    <2> SUFFICES ASSUME TypeOK, Apart, ~in.exempt
                 PROVE  MinutesUntilLock(in) = FirstLock(in)
      BY DEF CountdownIsFirstLock
    <2> DEFINE locked == {k \in 0 .. DayLength + MaxAllowance : ShouldLock(After(in, k))}
    <2>1. in \in Inputs
      BY DEF TypeOK
    <2>2. FirstLock(in) = IF locked = {} THEN Unset ELSE Min(locked)
      BY DEF FirstLock
    <2>3. locked \in SUBSET Int
      BY AllowanceAssumption
    <2>4. CASE ShouldLock(in)
      <3>1. MinutesUntilLock(in) = 0
        BY <2>4 DEF MinutesUntilLock
      <3>2. After(in, 0) = in
        <4>1. in.now + 0 = in.now /\ in.accumulated + 0 = in.accumulated
          BY <2>1, HorizonAssumption DEF Inputs
        <4> QED BY <2>1, <4>1 DEF After, Inputs
      <3>3. 0 \in locked /\ \A x \in locked : 0 <= x
        BY <2>4, <3>2, AllowanceAssumption
      <3> HIDE DEF locked
      <3> QED BY <2>2, <2>3, <3>1, <3>3, LeastIsMin
    <2>5. CASE ~ShouldLock(in) /\ Countdowns(in) # {}
      <3> DEFINE m == MinutesUntilLock(in)
      <3>1. /\ m \in 0 .. DayLength + MaxAllowance
            /\ ShouldLock(After(in, m))
            /\ \A k \in 0 .. m - 1 : ~ShouldLock(After(in, k))
        BY <2>1, <2>5, CountdownLocks
      <3> HIDE DEF m
      <3>2. m \in locked
        BY <3>1
      <3>3. ASSUME NEW x \in locked PROVE m <= x
        BY <3>1, <3>3, AllowanceAssumption
      <3> HIDE DEF locked
      <3> QED BY <2>2, <2>3, <3>2, <3>3, LeastIsMin DEF m
    <2>6. CASE ~ShouldLock(in) /\ Countdowns(in) = {}
      <3>1. MinutesUntilLock(in) = Unset
        BY <2>6 DEF MinutesUntilLock
      <3>2. in.bed = Unset /\ in.allowance = Unset
        BY <2>6 DEF Countdowns
      <3>3. ~in.manual
        BY <2>1, <2>6 DEF ShouldLock, LockReason, Inputs
      <3>4. ASSUME NEW k \in 0 .. DayLength + MaxAllowance PROVE ~ShouldLock(After(in, k))
        BY <2>1, <3>2, <3>3 DEF ShouldLock, LockReason, InCurfew, AllowanceReached, After, Inputs
      <3> QED BY <2>2, <3>1, <3>4
    <2> QED BY <2>4, <2>5, <2>6
  <1> QED BY <1>1, <1>2, <1>3, TypeCorrect, PTL DEF Spec

-----------------------------------------------------------------------------
(* Settings and counters in the files *)

\* A whole number is read back as itself.
LEMMA WholeNumberBack ==
    ASSUME NEW n \in WholeNumbers
    PROVE  AsNonnegInt(<<"num", n * 1000>>) = {n} /\ n \in Nat
  <1>1. n \in Nat /\ n * 1000 <= MaxWhole
    BY DEF WholeNumbers
  <1> DEFINE x == n * 1000
  <1>2. /\ x \in -MaxWhole .. MaxWhole
        /\ x % 1000 = 0 /\ x \div 1000 = n
    BY <1>1, StateFilesAssumption
  <1> HIDE DEF x
  <1>3. AsInt(<<"num", x>>) = {n}
    BY <1>2 DEF AsInt
  <1> QED BY <1>1, <1>3 DEF x, AsNonnegInt

\* Settings are read back as they were saved.
LEMMA DailyBack ==
    ASSUME NEW d \in DailyStates
    PROVE  LoadDailyFromDict(DailyToDict(d)) = {d}
  <1> DEFINE data == DailyToDict(d)
             wake == Given(data.wake_time, DefaultWake, AsTime(data.wake_time))
             bed == IF data.bed_time[1] \in {"absent", "null", "empty"} THEN {Unset}
                    ELSE AsTime(data.bed_time)
             allowance == IF data.allowance[1] \in {"absent", "null"} THEN {Unset}
                          ELSE AsNonnegInt(data.allowance)
  <1>1. /\ d.wake \in TimesOfDay
        /\ d.bed = Unset \/ d.bed \in TimesOfDay
        /\ d.allowance = Unset \/ d.allowance \in WholeNumbers
        /\ d = [bed |-> d.bed, wake |-> d.wake, allowance |-> d.allowance]
    BY DEF DailyStates
  <1>2. /\ data.wake_time = <<"time", d.wake>>
        /\ data.bed_time = IF d.bed = Unset THEN <<"null">> ELSE <<"time", d.bed>>
        /\ data.allowance = IF d.allowance = Unset THEN <<"null">>
                            ELSE <<"num", d.allowance * 1000>>
    BY DEF DailyToDict
  <1>3. LoadDailyFromDict(data) = [wake : wake, bed : bed, allowance : allowance]
    BY DEF LoadDailyFromDict
  <1> HIDE DEF data
  <1>4. wake = {d.wake}
    BY <1>1, <1>2 DEF Given, AsTime
  <1>5. bed = {d.bed}
    BY <1>1, <1>2 DEF AsTime
  <1>6. allowance = {d.allowance}
    <2>1. CASE d.allowance = Unset
      BY <1>2, <2>1
    <2>2. CASE d.allowance # Unset
      <3>1. data.allowance = <<"num", d.allowance * 1000>> /\ d.allowance \in WholeNumbers
        BY <1>1, <1>2, <2>2
      <3>2. data.allowance[1] = "num"
        BY <3>1
      <3>3. AsNonnegInt(data.allowance) = {d.allowance}
        BY <3>1, WholeNumberBack
      <3> QED BY <3>2, <3>3
    <2> QED BY <2>1, <2>2
  <1> HIDE DEF wake, bed, allowance
  <1>7. [wake : wake, bed : bed, allowance : allowance] = {d}
    <2>1. ASSUME NEW e \in [wake : {d.wake}, bed : {d.bed}, allowance : {d.allowance}]
          PROVE  e = d
      <3>1. e = [bed |-> e.bed, wake |-> e.wake, allowance |-> e.allowance]
        OBVIOUS
      <3> QED BY <1>1, <3>1
    <2>2. d \in [wake : {d.wake}, bed : {d.bed}, allowance : {d.allowance}]
      BY <1>1
    <2> QED BY <1>4, <1>5, <1>6, <2>1, <2>2
  <1> QED BY <1>3, <1>7 DEF data

\* A time cut to the second is in the same minute.
LEMMA CutToTheSecond ==
    ASSUME NEW t \in Nat
    PROVE  /\ (t \div SecondLength) * SecondLength \in Nat
           /\ ((t \div SecondLength) * SecondLength) \div MinuteLength = t \div MinuteLength
  <1> DEFINE S == SecondLength
             M == MinuteLength
             k == M \div S
             q == t \div M
             r == t % M
             a == r \div S
             b == r % S
             c == (t \div S) * S
  <1>1. S \in Nat \ {0} /\ M \in Nat \ {0} /\ M % S = 0
    BY StateFilesAssumption
  <1>2. k \in Int /\ M = S * k + 0
    BY <1>1, Division
  <1>3. q \in Int /\ r \in 0 .. M - 1 /\ t = M * q + r
    BY <1>1, Division
  <1>4. a \in Int /\ b \in 0 .. S - 1 /\ r = S * a + b
    BY <1>1, <1>3, Division
  <1> HIDE DEF S, M, k, q, r, a, b
  <1> DEFINE e == k * q + a
  <1>5. M * q = S * (k * q)
    BY <1>1, <1>2, <1>3
  <1>6. e \in Int /\ S * e = M * q + S * a
    BY <1>1, <1>2, <1>3, <1>4, <1>5
  <1>7. t = S * e + b
    BY <1>1, <1>3, <1>4, <1>6
  <1> HIDE DEF e
  <1>8. t \div S = e
    BY <1>1, <1>4, <1>6, <1>7, Quotient
  <1>9. c = M * q + S * a
    BY <1>1, <1>6, <1>8
  <1>10. S * a \in 0 .. M - 1
    <2>1. a >= 0
      BY <1>1, <1>3, <1>4
    <2>2. S * a \in Int /\ S * a >= 0
      BY <1>1, <1>4, <2>1
    <2> QED BY <1>1, <1>3, <1>4, <2>2
  <1>11. c \in Int /\ c >= 0
    <2>1. q >= 0
      BY <1>1, <1>3 DEF q
    <2>2. M * q \in Int /\ M * q >= 0
      BY <1>1, <1>3, <2>1
    <2> QED BY <1>9, <1>10, <2>2
  <1> HIDE DEF c
  <1>12. c \div M = q
    BY <1>1, <1>3, <1>9, <1>10, <1>11, Quotient
  <1> QED BY <1>11, <1>12 DEF c, q, S, M

\* Counters are read back with the timestamp cut to the second.
LEMMA RuntimeBack ==
    ASSUME NEW r \in RuntimeStates
    PROVE  LoadRuntimeFromDict(RuntimeToDict(r))
              = {[r EXCEPT !.ts = (r.ts \div SecondLength) * SecondLength]}
  <1> DEFINE data == RuntimeToDict(r)
             cut == (r.ts \div SecondLength) * SecondLength
             ts == ParseTimestamp(data.timestamp)
             acc == Given(data.accumulated_seconds, 0,
                          AsNonnegFloat(data.accumulated_seconds))
             manual == Given(data.manual_lock_active, FALSE,
                             AsBool(data.manual_lock_active))
             ext == Given(data.cumulative_extension_seconds, 0,
                          AsNonnegInt(data.cumulative_extension_seconds))
  <1>1. /\ r.acc \in Nat /\ (r.acc % 1000 = 0 => r.acc <= MaxWhole)
        /\ r.ext \in WholeNumbers
        /\ r = [ts |-> r.ts, acc |-> r.acc, manual |-> r.manual, ext |-> r.ext]
    BY DEF RuntimeStates
  <1>2. /\ data.timestamp = <<"instant", cut>>
        /\ data.accumulated_seconds = <<"num", r.acc>>
        /\ data.manual_lock_active = <<"bool", r.manual>>
        /\ data.cumulative_extension_seconds = <<"num", r.ext * 1000>>
    BY DEF RuntimeToDict
  <1>3. LoadRuntimeFromDict(data) = [ts : ts, acc : acc, manual : manual, ext : ext]
    BY DEF LoadRuntimeFromDict
  <1> HIDE DEF data, cut
  <1>4. ts = {cut}
    BY <1>2 DEF ParseTimestamp
  <1>5. acc = {r.acc}
    BY <1>1, <1>2 DEF Given, AsNonnegFloat
  <1>6. manual = {r.manual}
    BY <1>2 DEF Given, AsBool
  <1>7. ext = {r.ext}
    BY <1>1, <1>2, WholeNumberBack DEF Given
  <1> HIDE DEF ts, acc, manual, ext
  <1>8. [ts : ts, acc : acc, manual : manual, ext : ext]
           = {[ts |-> cut, acc |-> r.acc, manual |-> r.manual, ext |-> r.ext]}
    <2> DEFINE R == [ts : {cut}, acc : {r.acc}, manual : {r.manual}, ext : {r.ext}]
               same == [ts |-> cut, acc |-> r.acc, manual |-> r.manual, ext |-> r.ext]
    <2>1. same \in R
      OBVIOUS
    <2>2. ASSUME NEW e \in R PROVE e = same
      <3>1. e = [ts |-> e.ts, acc |-> e.acc, manual |-> e.manual, ext |-> e.ext]
        OBVIOUS
      <3> QED BY <3>1
    <2> HIDE DEF same
    <2>3. R = {same}
      <3> HIDE DEF R
      <3> QED BY <2>1, <2>2
    <2> QED BY <1>4, <1>5, <1>6, <1>7, <2>3 DEF same
  <1>9. [r EXCEPT !.ts = cut]
           = [ts |-> cut, acc |-> r.acc, manual |-> r.manual, ext |-> r.ext]
    BY <1>1
  <1> QED BY <1>3, <1>8, <1>9 DEF data, cut

\* What is accepted from a file is a state of the settings.
LEMMA LoadedDaily ==
    ASSUME NEW data \in [of : {"file"}, wake_time : Json, bed_time : Json, allowance : Json],
           NEW d \in LoadDailyFromDict(data)
    PROVE  d \in DailyStates
  <1>1. /\ d = [wake |-> d.wake, bed |-> d.bed, allowance |-> d.allowance]
        /\ d.wake \in Given(data.wake_time, DefaultWake, AsTime(data.wake_time))
        /\ d.bed \in IF data.bed_time[1] \in {"absent", "null", "empty"} THEN {Unset}
                     ELSE AsTime(data.bed_time)
        /\ d.allowance \in IF data.allowance[1] \in {"absent", "null"} THEN {Unset}
                           ELSE AsNonnegInt(data.allowance)
    BY DEF LoadDailyFromDict
  <1>2. d.wake \in TimesOfDay
    BY <1>1, StateFilesAssumption DEF Given, AsTime
  <1>3. d.bed \in TimesOfDay \cup {Unset}
    BY <1>1 DEF AsTime
  <1>4. d.allowance \in WholeNumbers \cup {Unset}
    <2>1. CASE data.allowance[1] \in {"absent", "null"}
      BY <1>1, <2>1
    <2>2. CASE data.allowance[1] \notin {"absent", "null"}
      <3> DEFINE x == data.allowance[2]
      <3>1. /\ x % 1000 = 0 /\ x \in -MaxWhole .. MaxWhole
            /\ d.allowance = x \div 1000 /\ d.allowance >= 0
        BY <1>1, <2>2 DEF AsNonnegInt, AsInt
      <3> HIDE DEF x
      <3>2. x \in Int /\ x <= MaxWhole
        BY <3>1, StateFilesAssumption
      <3>3. d.allowance \in Nat /\ d.allowance * 1000 = x
        BY <3>1, <3>2
      <3> QED BY <3>2, <3>3 DEF WholeNumbers
    <2> QED BY <2>1, <2>2
  <1> QED BY <1>1, <1>2, <1>3, <1>4 DEF DailyStates

\* Whatever is in memory is loaded as it was saved, and whatever a file holds, what is
\* accepted of it is.
THEOREM WhatIsSavedIsAlwaysLoaded ==
    ASSUME sample \in Memories \cup SettingsFiles
    PROVE  WhatIsSavedIsLoaded
  <1>1. CASE sample \in Memories
    <2> DEFINE r == sample.runtime
               back == [r EXCEPT !.ts = (r.ts \div SecondLength) * SecondLength]
    <2>1. sample.of = "memory" /\ sample.daily \in DailyStates /\ r \in RuntimeStates
      BY <1>1 DEF Memories
    <2>2. LoadDailyFromDict(DailyToDict(sample.daily)) = {sample.daily}
      BY <2>1, DailyBack
    <2>3. LoadRuntimeFromDict(RuntimeToDict(r)) = {back}
      BY <2>1, RuntimeBack
    <2>4. r.ts \in Nat /\ back.ts = (r.ts \div SecondLength) * SecondLength
      BY <2>1 DEF RuntimeStates
    <2>5. \A wake \in TimesOfDay : Period(back.ts, wake) = Period(r.ts, wake)
      BY <2>4, CutToTheSecond DEF Period
    <2>6. [back EXCEPT !.ts = 0] = [r EXCEPT !.ts = 0]
      BY <2>1 DEF RuntimeStates
    <2> HIDE DEF r, back
    <2> QED BY <2>1, <2>2, <2>3, <2>5, <2>6 DEF WhatIsSavedIsLoaded, r
  <1>2. CASE sample \in SettingsFiles
    <2>1. sample.of = "file"
      BY <1>2 DEF SettingsFiles
    <2>2. ASSUME NEW d \in LoadDailyFromDict(sample) PROVE d \in DailyStates
      BY <1>2, <2>2, LoadedDaily DEF SettingsFiles
    <2>3. ASSUME NEW d \in DailyStates
          PROVE  /\ LoadDailyFromDict(DailyToDict(d)) = {d}
                 /\ d.wake \in TimesOfDay /\ d.bed \in TimesOfDay \cup {Unset}
                 /\ d.allowance # Unset => d.allowance >= 0
      BY <2>3, DailyBack DEF DailyStates, WholeNumbers
    <2> QED BY <2>1, <2>2, <2>3 DEF WhatIsSavedIsLoaded
  <1> QED BY <1>1, <1>2

-----------------------------------------------------------------------------
(* Where settings come from when there are none *)

\* Counters taken from an old file that are not at their beginning are of a usage
\* period that is not over.
LEMMA CarriedIsCurrent ==
    ASSUME NEW x, x.accumulated_date \in Json, NEW now \in Nat, NEW e \in LegacyToState(x, now),
           e[2].acc > 0 \/ e[2].manual, x.accumulated_date[1] = "date"
    PROVE  x.accumulated_date[2] >= Period(now, e[1].wake)
  <1> DEFINE date == x.accumulated_date[2]
  <1>1. e[2] \in LegacyRuntime(x, e[1].wake, now)
    <2>1. PICK d \in LegacyDaily(x) : e \in {d} \X LegacyRuntime(x, d.wake, now)
      BY DEF LegacyToState
    <2>2. e[1] = d /\ e[2] \in LegacyRuntime(x, d.wake, now)
      BY <2>1
    <2> QED BY <2>2
  <1>2. FreshRuntime(now).acc = 0 /\ FreshRuntime(now).manual = FALSE
    BY DEF FreshRuntime
  <1>3. ~(date < Period(now, e[1].wake))
    <2> SUFFICES ASSUME date < Period(now, e[1].wake) PROVE FALSE
      OBVIOUS
    <2>1. x.accumulated_date[1] = "date" /\ "date" # "absent"
      OBVIOUS
    <2>2. LegacyRuntime(x, e[1].wake, now) \subseteq {FreshRuntime(now)}
      BY <2>1 DEF LegacyRuntime
    <2> QED BY <1>1, <1>2, <2>2
  <1>4. date \in Nat
    BY DEF Json
  <1>5. Period(now, e[1].wake) \in Int
    <2>1. now \div MinuteLength \in Int
      BY StateFilesAssumption
    <2>2. (now \div MinuteLength) \div DayLength \in Int
      BY <2>1, Division
    <2> QED BY <2>2 DEF Period, UsagePeriodDate, CalendarDate
  <1> HIDE DEF date
  <1> QED BY <1>3, <1>4, <1>5 DEF date

\* There are settings in the end, and counters of a period that is over only come out
\* as those of a new one.
LEMMA DerivedIsCurrent ==
    ASSUME NEW legacy, NEW daily, NEW install, NEW now \in Nat,
           \A x \in legacy : x.accumulated_date \in Json,
           \A x, y \in legacy : x = y
    PROVE  /\ DeriveDaily(legacy, daily, install, now) # {}
           /\ \A e \in DeriveDaily(legacy, daily, install, now) : e[2].acc > 0 \/ e[2].manual =>
                 \A x \in legacy : x.accumulated_date[1] = "date" =>
                    x.accumulated_date[2] >= Period(now, e[1].wake)
  <1> DEFINE migrated == UNION {LegacyToState(x, now) : x \in legacy}
             bootstrapped == BootstrapDailyFromProgramData(daily, install)
             defaults == [wake : {DefaultWake}, bed : {Unset}, allowance : {Unset}]
             found == IF bootstrapped # {} THEN bootstrapped ELSE defaults
             derived == DeriveDaily(legacy, daily, install, now)
  <1>1. derived = IF migrated # {} THEN migrated ELSE found \X {FreshRuntime(now)}
    BY DEF DeriveDaily
  <1>2. found # {}
    <2>1. [wake |-> DefaultWake, bed |-> Unset, allowance |-> Unset] \in defaults
      OBVIOUS
    <2> HIDE DEF defaults
    <2> QED BY <2>1
  <1> HIDE DEF derived, found
  <1>3. derived # {}
    <2>1. PICK d : d \in found
      BY <1>2
    <2>2. <<d, FreshRuntime(now)>> \in found \X {FreshRuntime(now)}
      BY <2>1
    <2> QED BY <1>1, <2>2
  <1>4. ASSUME NEW e \in derived, e[2].acc > 0 \/ e[2].manual,
               NEW x \in legacy, x.accumulated_date[1] = "date"
        PROVE  x.accumulated_date[2] >= Period(now, e[1].wake)
    <2>1. FreshRuntime(now).acc = 0 /\ FreshRuntime(now).manual = FALSE
      BY DEF FreshRuntime
    <2>2. e \notin found \X {FreshRuntime(now)}
      BY <1>4, <2>1
    <2>3. e \in migrated
      BY <1>1, <1>4, <2>2
    <2>4. PICK y \in legacy : e \in LegacyToState(y, now)
      BY <2>3
    <2>5. y = x
      BY <1>4, <2>4
    <2> QED BY <1>4, <2>4, <2>5, CarriedIsCurrent
  <1> QED BY <1>3, <1>4 DEF derived

\* Files for another user of the PC might as well not be there.
LEMMA OthersDoNotMatter ==
    ASSUME NEW legacy, NEW daily, NEW install, NEW now
    PROVE  DeriveDaily(legacy, daily, install, now)
              = DeriveDaily(legacy, {x \in daily : ~ForAnother(x)},
                            {x \in install : ~ForAnother(x)}, now)
  <1> DEFINE own(S) == {x \in S : ~ForAnother(x)}
  <1>1. \A S : own(own(S)) = own(S)
    OBVIOUS
  <1>2. BootstrapDailyFromProgramData(daily, install)
           = BootstrapDailyFromProgramData(own(daily), own(install))
    BY <1>1 DEF BootstrapDailyFromProgramData
  <1> QED BY <1>2 DEF DeriveDaily

\* Of whatever lies on the PC, nothing is taken that is not this user's or not of this
\* usage period.
THEOREM NothingForeignIsEverTaken ==
    ASSUME sample \in Origins
    PROVE  NothingForeignIsTaken
  <1> DEFINE mine(S) == {x \in S : ~ForAnother(x)}
             own == [sample EXCEPT !.daily = {x \in @ : ~ForAnother(x)},
                                   !.install = {x \in @ : ~ForAnother(x)}]
  <1>1. /\ sample.now \in Nat
        /\ \A x \in sample.legacy : x.accumulated_date \in Json
        /\ \A x, y \in sample.legacy : x = y
    BY DEF Origins, AtMostOne
  <1>2. /\ own.legacy = sample.legacy /\ own.now = sample.now
        /\ own.daily = mine(sample.daily) /\ own.install = mine(sample.install)
    BY DEF Origins
  <1>3. DeriveDaily(sample.legacy, sample.daily, sample.install, sample.now)
           = DeriveDaily(own.legacy, own.daily, own.install, own.now)
    <2> HIDE DEF own
    <2> QED BY <1>2, OthersDoNotMatter
  <1> HIDE DEF own
  <1> QED BY <1>1, <1>3, DerivedIsCurrent DEF NothingForeignIsTaken, own

-----------------------------------------------------------------------------
(* The panel's password *)

Disks == [{"canonical", "legacy"} -> AnyRecord]

\* What is in the panel's own file is what counts, unless nothing is there.
LEMMA OwnFileCounts ==
    ASSUME NEW disk, disk["canonical"] # NoRecord
    PROVE  /\ AuthPath(disk) = "canonical"
           /\ disk["canonical"] = Unreadable => AuthFileProblem(disk)
           /\ LoadAuthRecord(disk) = {c \in {disk["canonical"]} :
                                         c[1] = "record" /\ ~AuthFileProblem(disk)}
  BY DEF AuthPath, AuthFileProblem, LoadAuthRecord

Written(disk, p, k) ==
    k[1] = "key" /\ disk["canonical"] = <<"record", HashOf(p), k>>

\* A record that was written is read back.
LEMMA RecordBack ==
    ASSUME NEW disk, NEW p, NEW k, Written(disk, p, k)
    PROVE  /\ ~AuthFileProblem(disk)
           /\ StoredPasswordHash(disk) = {HashOf(p)}
           /\ PanelSecretKey(disk) = {k}
           /\ Answer(disk, FALSE) = "login"
  <1> DEFINE c == <<"record", HashOf(p), k>>
  <1>1. c # NoRecord /\ c # Unreadable /\ c[1] = "record" /\ c[2] = HashOf(p) /\ c[3] = k
        /\ disk["canonical"] = c /\ k[1] = "key"
    BY DEF NoRecord, Unreadable, Written
  <1>2. HashOf(p) \notin {NotText, OldFormat, NoHash}
    BY DEF HashOf, NotText, OldFormat, NoHash
  <1> HIDE DEF c
  <1>4. ~AuthFileProblem(disk)
    BY <1>1, <1>2, OwnFileCounts DEF AuthFileProblem
  <1>5. LoadAuthRecord(disk) = {c}
    BY <1>1, <1>4, OwnFileCounts
  <1>6. StoredPasswordHash(disk) = {HashOf(p)}
    BY <1>1, <1>2, <1>5 DEF StoredPasswordHash
  <1>7. PanelSecretKey(disk) = {k}
    BY <1>1, <1>5 DEF PanelSecretKey
  <1> QED BY <1>4, <1>6, <1>7 DEF Answer, PasswordIsConfigured

\* There is at most one key.
LEMMA OneKey ==
    ASSUME NEW disk, NEW k \in PanelSecretKey(disk)
    PROVE  PanelSecretKey(disk) = {k} /\ k[1] = "key"
  BY DEF PanelSecretKey, LoadAuthRecord

\* What saving a password can leave.
LEMMA SaveMeans ==
    ASSUME NEW disk \in Disks, ~AuthFileProblem(disk), NEW p, NEW fresh, fresh[1] = "key",
           NEW r \in SavePassword(disk, p, fresh)
    PROVE  \/ /\ r.ok = TRUE
              /\ \E k : /\ Written(r.disk, p, k)
                        /\ PanelSecretKey(disk) # {} => PanelSecretKey(disk) = {k}
           \/ r.ok = FALSE /\ r.disk = disk
           \/ r.ok = FALSE /\ r.disk["canonical"] = Unreadable
  <1> DEFINE keys == IF PanelSecretKey(disk) = {} THEN {fresh} ELSE PanelSecretKey(disk)
             put(content) == [disk EXCEPT !["canonical"] = content]
  <1>1. \A content : put(content)["canonical"] = content
    BY DEF Disks
  <1>2. \A k \in keys : /\ k[1] = "key"
                        /\ PanelSecretKey(disk) # {} => PanelSecretKey(disk) = {k}
    BY OneKey
  <1> HIDE DEF put, keys
  <1>3. r \in {[ok |-> TRUE, disk |-> put(<<"record", HashOf(p), k>>)] : k \in keys}
              \cup {[ok |-> FALSE, disk |-> disk], [ok |-> FALSE, disk |-> put(Unreadable)]}
    BY DEF SavePassword, keys, put
  <1>4. CASE r \in {[ok |-> TRUE, disk |-> put(<<"record", HashOf(p), k>>)] : k \in keys}
    <2>1. PICK k \in keys : r = [ok |-> TRUE, disk |-> put(<<"record", HashOf(p), k>>)]
      BY <1>4
    <2>2. r.ok = TRUE /\ r.disk = put(<<"record", HashOf(p), k>>)
      BY <2>1
    <2> QED BY <1>1, <1>2, <2>2 DEF Written
  <1>5. CASE r = [ok |-> FALSE, disk |-> disk]
    BY <1>5
  <1>6. CASE r = [ok |-> FALSE, disk |-> put(Unreadable)]
    BY <1>1, <1>6
  <1> QED BY <1>3, <1>4, <1>5, <1>6

\* Whatever is in the files and whoever sends whatever form: the password set is the
\* one asked for, and no failure opens the panel.
THEOREM PasswordIsAlwaysKept ==
    ASSUME sample \in PasswordForms
    PROVE  PasswordIsKept
  <1> DEFINE disk == sample.disk
             form == sample.form
             fresh == <<"key", 2>>
             saved == SavePassword(disk, form.password, fresh)
             Good(r) ==
                /\ r.ok => /\ \A p \in {Old, New} :
                                   VerifyPassword(r.disk, p) <=> p = form.password
                           /\ PanelSecretKey(disk) # {} =>
                                 PanelSecretKey(r.disk) = PanelSecretKey(disk)
                           /\ Answer(r.disk, FALSE) = "login"
                /\ ~r.ok => r.disk = disk \/ Answer(r.disk, FALSE) = "locked"
                /\ PasswordIsConfigured(disk) /\ r.disk # disk =>
                      sample.loggedIn /\ VerifyPassword(disk, form.current)
  <1>1. disk \in Disks
    BY DEF PasswordForms, Disks
  <1>2. ASSUME NEW d, d["canonical"] = Unreadable, NEW user \in BOOLEAN
        PROVE  Answer(d, user) = "locked"
    <2>1. Unreadable # NoRecord
      BY DEF Unreadable, NoRecord
    <2> QED BY <1>2, <2>1, OwnFileCounts DEF Answer
  <1>3. disk["canonical"] = Unreadable => Answer(disk, sample.loggedIn) = "locked"
    BY <1>2 DEF PasswordForms
  <1> HIDE DEF disk, form, fresh
  <1>4. ASSUME NEW r \in SetPassword(disk, sample.loggedIn, form, fresh)
        PROVE  Good(r)
    <2>1. CASE r = [ok |-> FALSE, disk |-> disk]
      BY <2>1
    <2>2. CASE /\ Answer(disk, sample.loggedIn) = "page"
               /\ PasswordIsConfigured(disk) => VerifyPassword(disk, form.current)
               /\ r \in saved
      <3>1. /\ ~AuthFileProblem(disk)
            /\ PasswordIsConfigured(disk) =>
                  sample.loggedIn /\ VerifyPassword(disk, form.current)
        BY <2>2 DEF Answer
      <3>2. fresh[1] = "key"
        BY DEF fresh
      <3>3. \/ /\ r.ok = TRUE
               /\ \E k : /\ Written(r.disk, form.password, k)
                         /\ PanelSecretKey(disk) # {} => PanelSecretKey(disk) = {k}
            \/ r.ok = FALSE /\ r.disk = disk
            \/ r.ok = FALSE /\ r.disk["canonical"] = Unreadable
        BY <1>1, <2>2, <3>1, <3>2, SaveMeans
      <3>4. CASE r.ok = TRUE
        <4>1. PICK k : /\ Written(r.disk, form.password, k)
                       /\ PanelSecretKey(disk) # {} => PanelSecretKey(disk) = {k}
          BY <3>3, <3>4
        <4>2. /\ StoredPasswordHash(r.disk) = {HashOf(form.password)}
              /\ PanelSecretKey(r.disk) = {k}
              /\ Answer(r.disk, FALSE) = "login"
          BY <4>1, RecordBack
        <4>3. \A p : VerifyPassword(r.disk, p) <=> p = form.password
          BY <4>2 DEF VerifyPassword, HashOf
        <4> QED BY <3>1, <3>4, <4>1, <4>2, <4>3
      <3>5. CASE r.ok = FALSE
        BY <1>2, <3>1, <3>3, <3>5
      <3> QED BY <3>3, <3>4, <3>5
    <2> QED BY <1>4, <2>1, <2>2 DEF SetPassword
  <1> HIDE DEF Good
  <1>5. PasswordIsKept <=>
          (sample.of = "password" =>
             /\ disk["canonical"] = Unreadable => Answer(disk, sample.loggedIn) = "locked"
             /\ \A r \in SetPassword(disk, sample.loggedIn, form, fresh) : Good(r))
    BY DEF PasswordIsKept, disk, form, fresh, Good
  <1> QED BY <1>3, <1>4, <1>5

-----------------------------------------------------------------------------
(* The shared secret *)

\* What is no secret is not taken for one.
LEMMA NoContent == NoFile[1] # "encrypted" /\ Damaged[1] # "encrypted"
  BY DEF NoFile, Damaged

\* The directories are different ones.
LEMMA DirectoriesDiffer ==
    ASSUME NEW u
    PROVE  /\ Machine # UserDir(u) /\ Machine # <<"chosen">> /\ UserDir(u) # <<"chosen">>
           /\ NoDir # <<"chosen">>
  BY DEF Machine, UserDir, NoDir

\* The first directory of an account that is among those given: the one its environment
\* names, or else the machine's before its own.
LEMMA FirstOf ==
    ASSUME NEW a, NEW given
    PROVE  /\ a.override # NoDir =>
                 FirstDir(a, given) = IF a.override \in given THEN {a.override} ELSE {}
           /\ a.override = NoDir =>
                 FirstDir(a, given) = IF Machine \in given THEN {Machine}
                                      ELSE IF UserDir(a.user) \in given THEN {UserDir(a.user)}
                                      ELSE {}
  <1> DEFINE dirs == SecretsDirs(a)
             firsts == {k \in DOMAIN dirs : /\ dirs[k] \in given
                                            /\ \A j \in 1 .. k - 1 : dirs[j] \notin given}
  <1>1. FirstDir(a, given) = {dirs[k] : k \in firsts}
    BY DEF FirstDir
  <1>2. CASE a.override # NoDir
    <2>1. DOMAIN dirs = {1} /\ dirs[1] = a.override
      BY <1>2 DEF SecretsDirs
    <2> HIDE DEF dirs
    <2>2. firsts = IF a.override \in given THEN {1} ELSE {}
      BY <2>1
    <2> HIDE DEF firsts
    <2> QED BY <1>1, <1>2, <2>1, <2>2
  <1>3. CASE a.override = NoDir
    <2>1. DOMAIN dirs = {1, 2} /\ dirs[1] = Machine /\ dirs[2] = UserDir(a.user)
      BY <1>3 DEF SecretsDirs
    <2> HIDE DEF dirs
    <2>2. firsts = IF Machine \in given THEN {1}
                   ELSE IF UserDir(a.user) \in given THEN {2} ELSE {}
      BY <2>1
    <2> HIDE DEF firsts
    <2> QED BY <1>1, <1>3, <2>1, <2>2
  <1> QED BY <1>2, <1>3

\* Where an account looks for the secret, the disk having all its directories.
Looks(x) == IF x.override = NoDir THEN {Machine, UserDir(x.user)} ELSE {<<"chosen">>}

\* What an account finds: the machine's before its own.
LEMMA Found ==
    ASSUME NEW x \in AnyAccount, NEW disk, Looks(x) \subseteq DOMAIN disk
    PROVE  LET a == Account(x)
           IN  /\ x.override # NoDir =>
                     FindSecretPath(a, disk) = IF Decryptable(a, disk[<<"chosen">>])
                                               THEN {<<"chosen">>} ELSE {}
               /\ x.override = NoDir =>
                     FindSecretPath(a, disk) = IF Decryptable(a, disk[Machine]) THEN {Machine}
                                               ELSE IF Decryptable(a, disk[UserDir(x.user)])
                                               THEN {UserDir(x.user)} ELSE {}
  <1> DEFINE a == Account(x)
             given == {d \in a.reads \cap DOMAIN disk : Decryptable(a, disk[d])}
  <1>1. /\ a.user = x.user /\ a.override = x.override
        /\ a.reads = {Machine, UserDir(x.user), <<"chosen">>}
        /\ x.override # NoDir => x.override = <<"chosen">>
    BY DEF Account, AnyAccount
  <1>2. FindSecretPath(a, disk) = FirstDir(a, given)
    BY DEF FindSecretPath
  <1>3. \A d \in Looks(x) : d \in given <=> Decryptable(a, disk[d])
    BY <1>1 DEF Looks
  <1> HIDE DEF a, given
  <1>4. CASE x.override # NoDir
    BY <1>1, <1>2, <1>3, <1>4, FirstOf DEF Looks, a
  <1>5. CASE x.override = NoDir
    BY <1>1, <1>2, <1>3, <1>5, FirstOf DEF Looks, a
  <1> QED BY <1>4, <1>5

\* Where an account puts it: an administrator where everybody looks.
LEMMA PutWhere ==
    ASSUME NEW x \in AnyAccount, NEW d \in FirstDir(Account(x), Account(x).writes)
    PROVE  /\ d \in Looks(x)
           /\ x.admin => d = IF x.override = NoDir THEN Machine ELSE <<"chosen">>
           /\ x.override = NoDir /\ ~x.admin => d = UserDir(x.user)
  <1> DEFINE a == Account(x)
             W == a.writes
  <1>1. /\ a.user = x.user /\ a.override = x.override
        /\ W = {UserDir(x.user)} \cup (IF x.admin THEN {Machine, <<"chosen">>} ELSE {})
        /\ x.override # NoDir => x.override = <<"chosen">>
    BY DEF Account, AnyAccount
  <1>2. d \in FirstDir(a, W)
    OBVIOUS
  <1> HIDE DEF a, W
  <1>3. CASE x.override # NoDir
    <2>1. FirstDir(a, W) = IF a.override \in W THEN {a.override} ELSE {}
      BY <1>1, <1>3, FirstOf
    <2> QED BY <1>1, <1>2, <1>3, <2>1 DEF Looks
  <1>4. CASE x.override = NoDir
    BY <1>1, <1>2, <1>4, FirstOf, DirectoriesDiffer DEF Looks
  <1> QED BY <1>3, <1>4

\* What storing a secret leaves: one that was there, or one long enough that was typed.
LEMMA StoreMeans ==
    ASSUME NEW x \in AnyAccount, NEW disk, NEW tries,
           NEW stored \in PromptAndStoreSharedSecret(Account(x), disk, tries)
    PROVE  /\ \E d \in FirstDir(Account(x), Account(x).writes) :
                 stored.disk = [disk EXCEPT ![d] = Encrypted(x.key, stored.secret)]
           /\ LoadSecret(Account(x), disk) # {} =>
                 stored.secret \in LoadSecret(Account(x), disk)
           /\ LoadSecret(Account(x), disk) = {} => Len(stored.secret) >= MinSecretLength
  <1> DEFINE a == Account(x)
             found == LoadSecret(a, disk)
             secret == IF found # {} THEN found ELSE PromptForSharedSecret(tries)
  <1>1. a.key = x.key
    BY DEF Account
  <1> HIDE DEF a, found
  <1>2. PICK s \in secret : \E saved \in SaveSecret(a, disk, s) :
                              stored = [disk |-> saved.disk, secret |-> s]
    BY DEF PromptAndStoreSharedSecret, a, found
  <1>3. PICK saved \in SaveSecret(a, disk, s) : stored = [disk |-> saved.disk, secret |-> s]
    BY <1>2
  <1>4. PICK d \in FirstDir(a, a.writes) : saved.disk = [disk EXCEPT ![d] = Encrypted(a.key, s)]
    <2>1. PICK d \in FirstDir(a, a.writes) :
            saved = [disk |-> [disk EXCEPT ![d] = Encrypted(a.key, s)], path |-> d]
      BY DEF SaveSecret
    <2> QED BY <2>1
  <1>5. stored.disk = [disk EXCEPT ![d] = Encrypted(x.key, stored.secret)]
        /\ stored.secret = s
    BY <1>1, <1>3, <1>4
  <1>6. \A t \in PromptForSharedSecret(tries) : Len(t) >= MinSecretLength
    BY DEF PromptForSharedSecret
  <1> QED BY <1>2, <1>4, <1>5, <1>6 DEF a, found

\* What an account finds is the secret of one of the files, and long enough.
LEMMA FoundMeans ==
    ASSUME NEW x \in AnyAccount, NEW disk, disk \in [DOMAIN disk -> AnyContent],
           Looks(x) \subseteq DOMAIN disk, NEW s \in LoadSecret(Account(x), disk)
    PROVE  Len(s) >= MinSecretLength
  <1> DEFINE a == Account(x)
  <1>1. PICK d \in FindSecretPath(a, disk) : s = disk[d][3]
    BY DEF LoadSecret
  <1>2. d \in Looks(x) /\ Decryptable(a, disk[d])
    <2> HIDE DEF a
    <2>1. CASE x.override # NoDir
      BY <1>1, <2>1, Found DEF a, Looks
    <2>2. CASE x.override = NoDir
      BY <1>1, <2>2, Found DEF a, Looks
    <2> QED BY <2>1, <2>2
  <1>3. disk[d] \in AnyContent /\ disk[d][1] = "encrypted"
    BY <1>2 DEF Decryptable
  <1>4. disk[d] \in {"encrypted"} \X STRING \X {t \in AnyText : Len(t) >= MinSecretLength}
    BY <1>3, NoContent DEF AnyContent
  <1> QED BY <1>1, <1>4

\* Whoever stores a secret finds that one, and so does every account like an
\* administrator's; what an administrator deleted nobody finds.
THEOREM AgentAlwaysFindsTheSecret ==
    ASSUME IsInstallation(sample)
    PROVE  AgentFindsTheSecret
  <1> DEFINE x == sample.installer
             y == sample.agent
             disk == sample.disk
  <1>1. /\ x \in AnyAccount /\ y \in AnyAccount
        /\ disk \in [DOMAIN disk -> AnyContent]
        /\ Looks(x) \subseteq DOMAIN disk /\ Looks(y) \subseteq DOMAIN disk
        /\ Machine \in DOMAIN disk
    BY DEF IsInstallation, Directories, Looks
  <1>2. /\ Account(x).override = x.override /\ Account(x).key = x.key
        /\ Account(y).override = y.override /\ Account(y).key = y.key
    BY DEF Account
  <1>3. ASSUME NEW stored \in PromptAndStoreSharedSecret(Account(x), disk, sample.tries)
        PROVE  /\ LoadSecret(Account(x), stored.disk) = {stored.secret}
               /\ y.key = x.key /\ y.override = x.override /\ x.admin =>
                     LoadSecret(Account(y), stored.disk) = {stored.secret}
               /\ Len(stored.secret) >= MinSecretLength
    <2> DEFINE D == stored.disk
               s == stored.secret
               put(d) == [disk EXCEPT ![d] = Encrypted(x.key, s)]
    <2>1. PICK d \in FirstDir(Account(x), Account(x).writes) : D = put(d)
      BY <1>1, <1>3, StoreMeans
    <2>2. /\ d \in Looks(x)
          /\ x.admin => d = IF x.override = NoDir THEN Machine ELSE <<"chosen">>
          /\ x.override = NoDir /\ ~x.admin => d = UserDir(x.user)
      BY <1>1, <2>1, PutWhere
    <2>3. Len(s) >= MinSecretLength
      BY <1>1, <1>3, StoreMeans, FoundMeans
    <2>4. /\ DOMAIN D = DOMAIN disk
          /\ D[d][1] = "encrypted" /\ D[d][2] = x.key /\ D[d][3] = s
          /\ \A e \in DOMAIN disk : e # d => D[e] = disk[e]
      BY <1>1, <2>1, <2>2 DEF Encrypted
    <2> HIDE DEF put
    <2>5. ASSUME NEW z \in AnyAccount, Looks(z) \subseteq DOMAIN disk, z.key = x.key,
                 d = IF z.override = NoDir THEN Machine ELSE <<"chosen">>
          PROVE  LoadSecret(Account(z), D) = {s}
      <3>1. Account(z).key = x.key
        BY <2>5 DEF Account
      <3>2. Decryptable(Account(z), D[d])
        BY <2>4, <3>1 DEF Decryptable
      <3>3. FindSecretPath(Account(z), D) = {d}
        BY <2>4, <2>5, <3>2, Found
      <3> QED BY <2>4, <3>3 DEF LoadSecret
    <2>6. LoadSecret(Account(x), D) = {s}
      <3>1. CASE d = IF x.override = NoDir THEN Machine ELSE <<"chosen">>
        BY <1>1, <2>5, <3>1
      <3>2. CASE d # IF x.override = NoDir THEN Machine ELSE <<"chosen">>
        <4>1. x.override = NoDir /\ d = UserDir(x.user) /\ d # Machine
          BY <2>2, <3>2, DirectoriesDiffer DEF Looks
        <4>2. D[Machine] = disk[Machine]
          BY <1>1, <2>4, <4>1
        <4>3. CASE Decryptable(Account(x), disk[Machine])
          <5>1. FindSecretPath(Account(x), disk) = {Machine}
            BY <1>1, <4>1, <4>3, Found
          <5>2. LoadSecret(Account(x), disk) = {disk[Machine][3]}
            BY <5>1 DEF LoadSecret
          <5>3. s = disk[Machine][3]
            BY <1>1, <1>3, <5>2, StoreMeans
          <5>4. FindSecretPath(Account(x), D) = {Machine}
            BY <1>1, <2>4, <4>1, <4>2, <4>3, Found
          <5> QED BY <4>2, <5>3, <5>4 DEF LoadSecret
        <4>4. CASE ~Decryptable(Account(x), disk[Machine])
          <5>1. Decryptable(Account(x), D[d])
            BY <1>2, <2>4 DEF Decryptable
          <5>2. FindSecretPath(Account(x), D) = {d}
            BY <1>1, <2>4, <4>1, <4>2, <4>4, <5>1, Found
          <5> QED BY <2>4, <5>2 DEF LoadSecret
        <4> QED BY <4>3, <4>4
      <3> QED BY <3>1, <3>2
    <2>7. y.key = x.key /\ y.override = x.override /\ x.admin => LoadSecret(Account(y), D) = {s}
      BY <1>1, <2>2, <2>5
    <2> QED BY <2>3, <2>6, <2>7
  <1>4. ASSUME x.admin, x.override = NoDir
        PROVE  Machine \notin FindSecretPath(Account(y), DeleteSecret(Account(x), disk))
    <2> DEFINE D == DeleteSecret(Account(x), disk)
    <2>1. SecretsDirs(Account(x))[1] = Machine /\ 1 \in DOMAIN SecretsDirs(Account(x))
      BY <1>2, <1>4 DEF SecretsDirs
    <2>2. Machine \in Account(x).writes
      BY <1>4 DEF Account
    <2>3. D[Machine] = NoFile
      BY <1>1, <2>1, <2>2 DEF DeleteSecret
    <2> HIDE DEF D
    <2>4. ~Decryptable(Account(y), D[Machine])
      BY <2>3, NoContent DEF Decryptable
    <2>5. FindSecretPath(Account(y), D) \subseteq {e \in DOMAIN D : Decryptable(Account(y), D[e])}
      BY DEF FindSecretPath, FirstDir
    <2> QED BY <2>4, <2>5 DEF D
  <1> QED BY <1>2, <1>3, <1>4 DEF AgentFindsTheSecret

-----------------------------------------------------------------------------
(* The panel's page *)

\* What the decision is asked of an agent.
LEMMA InputTypes ==
    ASSUME NEW c \in Controls
    PROVE  LET i == DecisionInputs(c)
           IN  /\ i = [now |-> i.now, bed |-> i.bed, wake |-> i.wake, allowance |-> i.allowance,
                       accumulated |-> i.accumulated, exempt |-> c.exempt, manual |-> c.manual]
               /\ i.now \in Nat /\ i.bed \in Int /\ i.wake \in Int
               /\ i.allowance \in Int /\ i.accumulated \in Nat
               /\ i.allowance = IF c.allowance # Unset THEN c.allowance * MinuteSeconds + c.ext
                                ELSE IF c.ext > 0 THEN c.ext ELSE Unset
  <1>1. /\ c.now \in Nat /\ c.bed \in Int /\ c.wake \in Int /\ c.acc \in Nat /\ c.ext \in Nat
        /\ c.allowance = Unset \/ c.allowance \in Nat
    BY DEF Controls, TimesOfDay, Unset
  <1>2. \A m \in Int : m * MinuteSeconds \in Int /\ (m \in Nat => m * MinuteSeconds \in Nat)
    BY FormsAssumption
  <1>3. c.allowance # Unset => c.allowance * MinuteSeconds # Unset
                               /\ c.allowance * MinuteSeconds \in Nat
    BY <1>1, <1>2 DEF Unset
  <1>4. DecisionInputs(c).allowance
           = IF c.allowance # Unset THEN c.allowance * MinuteSeconds + c.ext
             ELSE IF c.ext > 0 THEN c.ext ELSE Unset
    BY <1>3 DEF DecisionInputs, EffectiveDailyAllowanceMinutes
  <1>5. DecisionInputs(c).allowance \in Int
    BY <1>1, <1>3, <1>4 DEF Unset
  <1> QED BY <1>1, <1>2, <1>4, <1>5 DEF DecisionInputs, Unset

\* The manual lock comes before schedule and limit, and an exempt user before all.
LEMMA ReasonMeans ==
    ASSUME NEW c \in Controls
    PROVE  LET enforced == AtSeconds!EnforcementState(DecisionInputs(c))
           IN  /\ enforced \in {"none", "before_wake", "past_bed", "allowance"}
               /\ c.exempt => enforced = "none"
               /\ ~c.exempt => (AtSeconds!ShouldLock(DecisionInputs(c))
                                  <=> c.manual \/ enforced # "none")
  <1> DEFINE i == DecisionInputs(c)
             j == [i EXCEPT !.manual = FALSE]
  <1>1. /\ c.exempt \in BOOLEAN /\ c.manual \in BOOLEAN
        /\ i.exempt = c.exempt /\ i.manual = c.manual
    BY DEF Controls, DecisionInputs
  <1>2. /\ j.manual = FALSE /\ j.exempt = i.exempt /\ j.now = i.now /\ j.bed = i.bed
        /\ j.wake = i.wake /\ j.allowance = i.allowance /\ j.accumulated = i.accumulated
    BY InputTypes
  <1> HIDE DEF i, j
  <1>3. AtSeconds!EnforcementState(i) = AtSeconds!LockReason(j)
    BY DEF AtSeconds!EnforcementState, j
  <1>4. /\ AtSeconds!InCurfew(j) <=> AtSeconds!InCurfew(i)
        /\ AtSeconds!AllowanceReached(j) <=> AtSeconds!AllowanceReached(i)
    BY <1>2 DEF AtSeconds!InCurfew, AtSeconds!AllowanceReached
  <1>5. /\ AtSeconds!LockReason(j) \in {"none", "before_wake", "past_bed", "allowance"}
        /\ c.exempt => AtSeconds!LockReason(j) = "none"
        /\ ~c.exempt => (AtSeconds!LockReason(j) # "none" <=>
                           AtSeconds!InCurfew(i) \/ AtSeconds!AllowanceReached(i))
    BY <1>1, <1>2, <1>4 DEF AtSeconds!LockReason
  <1>6. ~c.exempt => (AtSeconds!LockReason(i) # "none" <=>
                        c.manual \/ AtSeconds!InCurfew(i) \/ AtSeconds!AllowanceReached(i))
    BY <1>1 DEF AtSeconds!LockReason
  <1> QED BY <1>3, <1>5, <1>6 DEF AtSeconds!ShouldLock, i

\* The countdown is a number.
LEMMA CountdownType ==
    ASSUME NEW c \in Controls
    PROVE  AtSeconds!MinutesUntilLock(DecisionInputs(c)) \in Int
  <1> DEFINE i == DecisionInputs(c)
             b == AtSeconds!MinutesUntilBed(i.now, i.bed)
             a == i.allowance - i.accumulated
             C == AtSeconds!Countdowns(i)
  <1>1. i.now \in Int /\ i.bed \in Int /\ i.allowance \in Int /\ i.accumulated \in Int
    BY InputTypes
  <1>2. DayLength * MinuteSeconds \in Nat \ {0}
    <2>1. \A m, n \in Nat \ {0} : m * n \in Nat \ {0}
      OBVIOUS
    <2> QED BY <2>1, FormsAssumption
  <1> HIDE DEF i
  <1>3. AtSeconds!MinuteOfDay(i.now) \in Int
    <2> DEFINE D == DayLength * MinuteSeconds
    <2>1. D \in Nat \ {0}
      BY <1>2
    <2> HIDE DEF D
    <2>2. i.now % D \in Int
      BY <1>1, <2>1, Division
    <2> QED BY <2>2 DEF AtSeconds!MinuteOfDay, D
  <1>4. b \in Int /\ a \in Int
    BY <1>1, <1>2, <1>3 DEF AtSeconds!MinutesUntilBed
  <1>5. C = (IF i.bed # Unset THEN {b} ELSE {}) \cup (IF i.allowance # Unset THEN {a} ELSE {})
    BY DEF AtSeconds!Countdowns, AtSeconds!Unset, Unset
  <1> HIDE DEF a, b, C
  <1>6. C # {} => \E m \in C : \A n \in C : m <= n
    BY <1>4, <1>5
  <1>7. C \subseteq Int
    BY <1>4, <1>5
  <1>8. C # {} => (CHOOSE m \in C : \A n \in C : m <= n) \in Int
    BY <1>6, <1>7
  <1> QED BY <1>8 DEF AtSeconds!MinutesUntilLock, AtSeconds!Unset, C, i

\* Rounding is off by half a minute at most.
LEMMA RoundedIsNear ==
    ASSUME NEW left \in Int
    PROVE  2 * (Rounded(left) * MinuteSeconds - left) \in -MinuteSeconds .. MinuteSeconds
  <1> DEFINE q == left \div MinuteSeconds
             r == left % MinuteSeconds
  <1>1. /\ MinuteSeconds \in Nat \ {0} /\ q \in Int /\ r \in 0 .. MinuteSeconds - 1
        /\ left = MinuteSeconds * q + r
    BY FormsAssumption, Division
  <1>2. \/ Rounded(left) = q /\ 2 * r <= MinuteSeconds
        \/ Rounded(left) = q + 1 /\ 2 * r >= MinuteSeconds
    <2>1. 2 * r \in Int
      BY <1>1
    <2> QED BY <1>1, <2>1 DEF Rounded
  <1> HIDE DEF q, r
  <1>3. /\ MinuteSeconds * q \in Int /\ q * MinuteSeconds = MinuteSeconds * q
        /\ (q + 1) * MinuteSeconds = MinuteSeconds * q + MinuteSeconds
    BY <1>1
  <1>4. CASE Rounded(left) = q /\ 2 * r <= MinuteSeconds
    BY <1>1, <1>3, <1>4
  <1>5. CASE Rounded(left) = q + 1 /\ 2 * r >= MinuteSeconds
    BY <1>1, <1>3, <1>5
  <1> QED BY <1>2, <1>4, <1>5

\* What the panel makes of the settings told.
LEMMA PageMeans ==
    ASSUME NEW c \in Controls
    PROVE  /\ Page(c).effective_limit = DecisionInputs(c).allowance
           /\ Page(c).time_remaining = TimeRemaining(c)
           /\ Page(c).access_status
                 = FormatAccessStatus(c.manual, AtSeconds!EnforcementState(DecisionInputs(c)),
                                      c.locked)
           /\ LegacyPage(c).access_status
                 = IF c.manual THEN "manual"
                   ELSE IF c.locked THEN "screen_locked" ELSE "unlocked"
           /\ ReadVariables(c).enforcement_active
                 <=> AtSeconds!EnforcementState(DecisionInputs(c)) # "none"
  <1> DEFINE told == ReadVariables(c)
             known == DOMAIN told \ {"enforcement_active", "enforcement_reason",
                                     "access_status"}
             old == [v \in known |-> told[v]]
             enforced == AtSeconds!EnforcementState(DecisionInputs(c))
  <1>1. /\ "access_status" \in DOMAIN told
        /\ told.access_status = FormatAccessStatus(c.manual, enforced, c.locked)
        /\ told.status = IF c.locked THEN "LOCKED" ELSE "UNLOCKED"
        /\ told.manual_lock = c.manual
        /\ told.daily_limit = c.allowance /\ told.cumulative_extension = c.ext
        /\ told.time_remaining = TimeRemaining(c)
        /\ told.enforcement_active <=> enforced # "none"
        /\ {"status", "manual_lock"} \subseteq known
    BY DEF ReadVariables
  <1>2. "access_status" \notin DOMAIN old /\ old.status = told.status
        /\ old.manual_lock = told.manual_lock
    BY <1>1
  <1> HIDE DEF told, old, known, enforced
  <1>3. EffectiveLimit(told) = DecisionInputs(c).allowance
    <2>1. /\ c.ext \in Nat
          /\ c.allowance = Unset \/ c.allowance \in Nat
          /\ MinuteSeconds \in Nat
      BY FormsAssumption DEF Controls
    <2>2. DecisionInputs(c).allowance
             = IF c.allowance # Unset THEN c.allowance * MinuteSeconds + c.ext
               ELSE IF c.ext > 0 THEN c.ext ELSE Unset
      BY InputTypes
    <2> QED BY <1>1, <2>1, <2>2 DEF EffectiveLimit
  <1>4. /\ Page(c).effective_limit = EffectiveLimit(told)
        /\ Page(c).time_remaining = told.time_remaining
        /\ Page(c).access_status = told.access_status
    BY <1>1 DEF Page, SettingsToPCInfo, told
  <1>5. LegacyPage(c) = SettingsToPCInfo(old)
    BY DEF LegacyPage, old, told, known
  <1>6. LegacyPage(c).access_status = LegacyAccessStatus(old)
    BY <1>2, <1>5 DEF SettingsToPCInfo
  <1> QED BY <1>1, <1>2, <1>3, <1>4, <1>6 DEF LegacyAccessStatus, told, enforced

\* The page of any agent is right.
LEMMA PageIsAlwaysRight ==
    ASSUME NEW c \in Controls
    PROVE  PageIsRight(c)
  <1> DEFINE left == AtSeconds!MinutesUntilLock(DecisionInputs(c))
             enforced == AtSeconds!EnforcementState(DecisionInputs(c))
  <1>1. IF left = Unset THEN Page(c).time_remaining = None
        ELSE 2 * (Page(c).time_remaining[2] * MinuteSeconds - left)
                \in -MinuteSeconds .. MinuteSeconds
    <2>1. left \in Int
      BY CountdownType
    <2>2. Page(c).time_remaining = IF left = Unset THEN None ELSE Minutes(Rounded(left))
      BY PageMeans DEF TimeRemaining
    <2> HIDE DEF left
    <2>3. Minutes(Rounded(left))[2] = Rounded(left)
      BY DEF Minutes
    <2> QED BY <2>1, <2>2, <2>3, RoundedIsNear
  <1>2. /\ enforced \in {"none", "before_wake", "past_bed", "allowance"}
        /\ c.exempt => enforced = "none"
        /\ ~c.exempt => (AtSeconds!ShouldLock(DecisionInputs(c))
                           <=> c.manual \/ enforced # "none")
    BY ReasonMeans
  <1>3. c.manual \in BOOLEAN /\ c.locked \in BOOLEAN
    BY DEF Controls
  <1>4. /\ Page(c).effective_limit = DecisionInputs(c).allowance
        /\ Page(c).access_status = FormatAccessStatus(c.manual, enforced, c.locked)
        /\ LegacyPage(c).access_status
              = IF c.manual THEN "manual" ELSE IF c.locked THEN "screen_locked" ELSE "unlocked"
        /\ ReadVariables(c).enforcement_active <=> enforced # "none"
    BY PageMeans
  <1> HIDE DEF left, enforced
  <1>5. Page(c).access_status
           = IF enforced # "none" THEN enforced
             ELSE IF c.manual THEN "manual"
             ELSE IF c.locked THEN "screen_locked" ELSE "unlocked"
    BY <1>3, <1>4 DEF FormatAccessStatus
  <1>6. ~c.exempt => (AtSeconds!ShouldLock(DecisionInputs(c))
                        <=> Page(c).access_status \notin {"screen_locked", "unlocked"})
    BY <1>2, <1>3, <1>5
  <1>7. ~ReadVariables(c).enforcement_active => LegacyPage(c).access_status = Page(c).access_status
    BY <1>4, <1>5
  <1> QED BY <1>1, <1>4, <1>6, <1>7 DEF PageIsRight, left

\* A click on the button for more time asks for just that.
LEMMA ExtendAsks ==
    ASSUME NEW val, NEW r \in ActionRequestFields("extend_time", val)
    PROVE  r.action = "extend" /\ r.val = val
  BY DEF ActionRequestFields, AskNumber, Ask

\* Any other click asks for what the agent knows.
LEMMA OthersAsk ==
    ASSUME NEW name \in Actions \ {"extend_time"}, NEW val,
           NEW r \in ActionRequestFields(name, val)
    PROVE  \/ r.action = "lock"
           \/ r.action = "clear" /\ r.var \in {"daily_limit", "bed_time",
                                               "cumulative_extension", "manual_lock"}
           \/ r.action = "set" /\ r.var \in {"daily_limit", "bed_time", "wake_time"}
  BY DEF ActionRequestFields, AskNumber, Ask, Actions

\* More time is added to what there was, and takes the manual lock back.
LEMMA ExtendMeans ==
    ASSUME NEW c \in Controls, NEW val, NEW d \in DoExtend(c, val)
    PROVE  /\ d \in Controls /\ val[2] \in Nat \ {0}
           /\ d.allowance = c.allowance /\ ~d.manual
           /\ d.ext = c.ext + val[2] * MinuteSeconds /\ val[2] * MinuteSeconds \in Nat \ {0}
  <1>1. /\ d = [c EXCEPT !.ext = @ + val[2] * MinuteSeconds, !.manual = FALSE]
        /\ val[2] \in 1 .. MaxDailyLimit
    BY DEF DoExtend, InRange
  <1>2. val[2] \in Nat \ {0}
    BY <1>1, FormsAssumption
  <1> DEFINE n == val[2]
             e == n * MinuteSeconds
  <1>3. e \in Nat \ {0}
    <2>1. \A m, k \in Nat \ {0} : m * k \in Nat \ {0}
      OBVIOUS
    <2> QED BY <1>2, <2>1, FormsAssumption
  <1> HIDE DEF e
  <1>4. d = [c EXCEPT !.ext = @ + e, !.manual = FALSE]
    BY <1>1 DEF e
  <1>5. c.ext + e \in Nat
    BY <1>3 DEF Controls
  <1>6. d \in Controls /\ d.allowance = c.allowance /\ d.manual = FALSE /\ d.ext = c.ext + e
    BY <1>4, <1>5 DEF Controls
  <1> QED BY <1>2, <1>3, <1>6 DEF e

\* What the agent makes of a request is a state it can be in.
LEMMA DispatchType ==
    ASSUME NEW c \in Controls, NEW r, NEW d \in Dispatch(c, r),
           \/ r.action \in {"lock", "extend"}
           \/ r.action = "clear" /\ r.var \in {"daily_limit", "bed_time",
                                               "cumulative_extension", "manual_lock"}
           \/ r.action = "set" /\ r.var \in {"daily_limit", "bed_time", "wake_time"}
    PROVE  d \in Controls
  <1>1. CASE r.action = "lock"
    <2>1. d = [c EXCEPT !.manual = TRUE, !.locked = TRUE]
      BY <1>1 DEF Dispatch
    <2> QED BY <2>1 DEF Controls
  <1>2. CASE r.action = "extend"
    BY <1>2, ExtendMeans DEF Dispatch
  <1>3. CASE r.action = "clear" /\ r.var \in {"daily_limit", "bed_time",
                                              "cumulative_extension", "manual_lock"}
    <2>1. \/ d = [c EXCEPT !.allowance = Unset]
          \/ d = [c EXCEPT !.bed = Unset]
          \/ d = [c EXCEPT !.ext = 0]
          \/ d = [c EXCEPT !.manual = FALSE]
      BY <1>3 DEF Dispatch, DoClear
    <2>2. /\ [c EXCEPT !.allowance = Unset] \in Controls
          /\ [c EXCEPT !.bed = Unset] \in Controls
      BY DEF Controls
    <2>3. /\ [c EXCEPT !.ext = 0] \in Controls
          /\ [c EXCEPT !.manual = FALSE] \in Controls
      BY DEF Controls
    <2> QED BY <2>1, <2>2, <2>3
  <1>4. CASE r.action = "set" /\ r.var \in {"daily_limit", "bed_time", "wake_time"}
    <2>1. d \in DoSet(c, r.var, r.val)
      BY <1>4 DEF Dispatch
    <2>2. CASE r.var = "daily_limit"
      <3>1. /\ d = [c EXCEPT !.allowance = r.val[2]]
            /\ r.val[2] \in Nat
        BY <2>1, <2>2, FormsAssumption DEF DoSet, InRange
      <3> QED BY <3>1 DEF Controls
    <2>3. CASE r.var = "bed_time"
      <3>1. PICK t \in ParseHHMM(r.val) : d = [c EXCEPT !.bed = t]
        BY <2>1, <2>3 DEF DoSet
      <3>2. t \in TimesOfDay
        BY <3>1 DEF ParseHHMM
      <3> QED BY <3>1, <3>2 DEF Controls
    <2>4. CASE r.var = "wake_time"
      <3>1. PICK t \in ParseHHMM(r.val) :
              \/ d = [c EXCEPT !.wake = t, !.acc = 0, !.ext = 0, !.manual = FALSE]
              \/ d = [c EXCEPT !.wake = t]
        BY <2>1, <2>4 DEF DoSet
      <3>2. t \in TimesOfDay
        BY <3>1 DEF ParseHHMM
      <3>3. [c EXCEPT !.wake = t] \in Controls
        BY <3>2 DEF Controls
      <3>4. [c EXCEPT !.wake = t, !.acc = 0, !.ext = 0, !.manual = FALSE] \in Controls
        BY <3>2 DEF Controls
      <3> QED BY <3>1, <3>3, <3>4
    <2> QED BY <1>4, <2>2, <2>3, <2>4
  <1> QED BY <1>1, <1>2, <1>3, <1>4

\* Of any agent and any click on its page, the page tells what is in force.
THEOREM PageAlwaysTells ==
    ASSUME NEW c \in Controls
    PROVE  PageIsRight(c) /\ \A click \in AnyClick : PageTells(c, click)
  <1>0. PageIsRight(c)
    BY PageIsAlwaysRight
  <1> SUFFICES ASSUME NEW click \in AnyClick PROVE PageTells(c, click)
    BY <1>0
  <1> DEFINE name == click[1]
             val == click[2]
             done == Clicked(c, click)
  <1>1. name \in Actions
    BY DEF AnyClick
  <1>2. ASSUME NEW d \in done
        PROVE  /\ d \in Controls
               /\ name = "extend_time" => d \in DoExtend(c, val)
    <2>1. PICK r \in ActionRequestFields(name, val) : d \in Dispatch(c, r)
      BY DEF Clicked
    <2>2. CASE name = "extend_time"
      <3>1. r.action = "extend" /\ r.val = val
        BY <2>1, <2>2, ExtendAsks
      <3>2. d \in DoExtend(c, val)
        BY <2>1, <3>1 DEF Dispatch
      <3> QED BY <3>2, ExtendMeans
    <2>3. CASE name # "extend_time"
      BY <1>1, <2>1, <2>3, OthersAsk, DispatchType
    <2> QED BY <2>2, <2>3
  <1> HIDE DEF done, name, val
  <1>3. \A d \in done : PageIsRight(d)
    BY <1>2, PageIsAlwaysRight
  <1>4. ASSUME name = "extend_time", NEW d \in done
        PROVE  /\ Page(d).effective_limit
                    = val[2] * MinuteSeconds
                      + IF Page(c).effective_limit = Unset THEN 0 ELSE Page(c).effective_limit
               /\ ~d.manual
    <2> DEFINE e == val[2] * MinuteSeconds
               a == c.allowance * MinuteSeconds
    <2>1. /\ d \in Controls /\ d.allowance = c.allowance /\ ~d.manual
          /\ d.ext = c.ext + e /\ e \in Nat \ {0}
      BY <1>2, <1>4, ExtendMeans
    <2>2. c.ext \in Nat /\ (c.allowance = Unset \/ c.allowance \in Nat)
      BY DEF Controls
    <2>3. /\ Page(c).effective_limit = IF c.allowance # Unset THEN a + c.ext
                                       ELSE IF c.ext > 0 THEN c.ext ELSE Unset
          /\ Page(d).effective_limit = IF c.allowance # Unset THEN a + d.ext
                                       ELSE IF d.ext > 0 THEN d.ext ELSE Unset
      BY <2>1, PageMeans, InputTypes
    <2>4. c.allowance # Unset => a \in Nat
      <3>1. \A m, k \in Nat : m * k \in Nat
        OBVIOUS
      <3> QED BY <2>2, <3>1, FormsAssumption
    <2> HIDE DEF e, a
    <2>5. Page(d).effective_limit
             = e + IF Page(c).effective_limit = Unset THEN 0 ELSE Page(c).effective_limit
      BY <2>1, <2>2, <2>3, <2>4 DEF Unset
    <2> QED BY <2>1, <2>5 DEF e
  <1> QED BY <1>3, <1>4 DEF PageTells, done, name, val

\* So it does before and after the clicks tried.
COROLLARY PageAlwaysTellsWhatIsInForce ==
    ASSUME sample \in Controls
    PROVE  PageTellsWhatIsInForce
  <1>1. Clicks \subseteq AnyClick
    <2>1. MaxDailyLimit + 1 \in Int /\ {0, 3, DayLength} \subseteq Nat
      BY FormsAssumption
    <2> QED BY <2>1 DEF Clicks, AnyClick, Minutes, ClockTime
  <1> QED BY <1>1, PageAlwaysTells DEF PageTellsWhatIsInForce

-----------------------------------------------------------------------------
(* Frames *)

\* What is sent is what a frame begins with, or begins with a frame.
Agree(s, frame) == \A i \in DOMAIN s : i <= Len(frame) => s[i] = frame[i]

\* A frame, byte by byte.
LEMMA FrameBytes ==
    ASSUME NEW b \in Seq(Bytes), Len(b) <= MaxFrameBytes
    PROVE  LET p == Prefix(Len(b))
               frame == EncodeFrame(b)
           IN  /\ p \in Seq(Numerals) /\ Len(p) \in Nat \ {0}
               /\ PrefixValue(p) = Len(b) /\ Len(b) \in Nat
               /\ Len(p) + ChunkBytes <= MaxFrameBytes
               /\ frame \in Seq(Bytes) /\ Len(frame) = Len(p) + 1 + Len(b)
               /\ \A i \in 1 .. Len(p) : frame[i] = p[i] /\ frame[i] \in Numerals
               /\ frame[Len(p) + 1] = "\n"
               /\ \A i \in 1 .. Len(b) : frame[Len(p) + 1 + i] = b[i]
  <1> DEFINE p == Prefix(Len(b))
             frame == EncodeFrame(b)
  <1>1. Len(b) \in 0 .. MaxFrameBytes
    OBVIOUS
  <1>2. /\ p \in Seq(Numerals) /\ p # <<>> /\ PrefixValue(p) = Len(b)
        /\ Len(p) + ChunkBytes <= MaxFrameBytes
    BY <1>1, FramesAssumption
  <1>3. frame = p \o <<"\n">> \o b
    BY DEF EncodeFrame
  <1>4. p \in Seq(Bytes) /\ <<"\n">> \in Seq(Bytes)
    BY <1>2, FramesAssumption
  <1>5. Len(p) \in Nat \ {0} /\ \A i \in 1 .. Len(p) : p[i] \in Numerals
    BY <1>2
  <1> HIDE DEF p, frame
  <1>6. /\ frame \in Seq(Bytes) /\ Len(frame) = Len(p) + 1 + Len(b)
        /\ \A i \in 1 .. Len(p) : frame[i] = p[i]
        /\ frame[Len(p) + 1] = "\n"
        /\ \A i \in 1 .. Len(b) : frame[Len(p) + 1 + i] = b[i]
    BY <1>3, <1>4, <1>5
  <1> QED BY <1>1, <1>2, <1>5, <1>6 DEF p, frame

\* What read_frame makes of the first n bytes of a frame, or of a stream that begins
\* with one: there is no line end before that of the prefix, and nothing to
\* return before the last byte.
LEMMA JudgedAs ==
    ASSUME NEW b \in Seq(Bytes), Len(b) <= MaxFrameBytes,
           sent \in Seq(Bytes), Agree(sent, EncodeFrame(b)), NEW n \in 0 .. Len(sent)
    PROVE  /\ HasLine(Buffer(n)) <=> n > Len(Prefix(Len(b)))
           /\ Judged(n) = IF n < Len(EncodeFrame(b)) THEN Reading ELSE <<"complete", b>>
  <1> DEFINE p == Prefix(Len(b))
             frame == EncodeFrame(b)
             u == Buffer(n)
             k == Len(p) + 1
  <1>1. /\ p \in Seq(Numerals) /\ Len(p) \in Nat \ {0}
        /\ PrefixValue(p) = Len(b) /\ Len(b) \in Nat
        /\ frame \in Seq(Bytes) /\ Len(frame) = Len(p) + 1 + Len(b)
        /\ \A i \in 1 .. Len(p) : frame[i] = p[i] /\ frame[i] \in Numerals
        /\ frame[k] = "\n"
        /\ \A i \in 1 .. Len(b) : frame[Len(p) + 1 + i] = b[i]
    BY FrameBytes
  <1>2. /\ u \in Seq(Bytes) /\ Len(u) = n /\ n \in Nat
        /\ \A i \in 1 .. n : u[i] = sent[i]
    BY DEF Buffer
  <1>3. \A i \in 1 .. n : i <= Len(frame) => u[i] = frame[i]
    BY <1>2 DEF Agree
  <1> HIDE DEF p, frame, u
  <1>4. \A i \in 1 .. n : i < k => u[i] = p[i] /\ u[i] # "\n"
    <2>1. SUFFICES ASSUME NEW i \in 1 .. n, i < k PROVE u[i] = p[i] /\ u[i] # "\n"
      OBVIOUS
    <2>2. i \in 1 .. Len(p) /\ i <= Len(frame)
      BY <1>1, <2>1
    <2>3. u[i] = frame[i] /\ frame[i] = p[i] /\ frame[i] \in Numerals
      BY <1>1, <1>3, <2>2
    <2> QED BY <2>3, FramesAssumption
  <1>5. n >= k => u[k] = "\n"
    BY <1>1, <1>2, <1>3
  <1>6. HasLine(u) <=> n > Len(p)
    BY <1>1, <1>2, <1>4, <1>5 DEF HasLine
  <1>f. Judged(n) = IF ~HasLine(u) \/ InspectFrame(u) = <<"incomplete">> THEN Reading
                    ELSE InspectFrame(u)
    BY DEF Judged, u
  <1>7. ASSUME n < k
        PROVE  Judged(n) = IF n < Len(frame) THEN Reading ELSE <<"complete", b>>
    <2>1. ~HasLine(u) /\ n < Len(frame)
      BY <1>1, <1>6, <1>7
    <2> QED BY <2>1, <1>f
  <1>8. ASSUME n >= k
        PROVE  Judged(n) = IF n < Len(frame) THEN Reading ELSE <<"complete", b>>
    <2>1. LineEnd(u) = k
      BY <1>1, <1>2, <1>4, <1>5, <1>8 DEF LineEnd
    <2>2. SubSeq(u, 1, k - 1) = p
      BY <1>1, <1>2, <1>4, <1>8
    <2>3. IsDigit(p)
      BY <1>1 DEF IsDigit
    <2> DEFINE rest == SubSeq(u, k + 1, Len(u))
    <2>4. rest \in Seq(Bytes) /\ Len(rest) = n - k /\ \A i \in 1 .. n - k : rest[i] = u[k + i]
      BY <1>1, <1>2, <1>8
    <2>5. InspectFrame(u) = IF n - k < Len(b) THEN <<"incomplete">>
                            ELSE <<"complete", SubSeq(rest, 1, Len(b))>>
      <3>0. HasLine(u)
        BY <1>1, <1>6, <1>8
      <3>1. InspectFrame(u) = IF ~IsDigit(p) THEN <<"not_frame">>
                              ELSE IF PrefixValue(p) > MaxFrameBytes THEN <<"error">>
                              ELSE IF Len(rest) < PrefixValue(p) THEN <<"incomplete">>
                              ELSE <<"complete", SubSeq(rest, 1, PrefixValue(p))>>
        BY <2>1, <2>2, <3>0 DEF InspectFrame
      <3>2. PrefixValue(p) = Len(b) /\ Len(b) \in Nat /\ MaxFrameBytes \in Nat /\ Len(rest) = n - k
        BY <1>1, <2>4, FramesAssumption
      <3>3. ~(PrefixValue(p) > MaxFrameBytes)
        BY <3>2
      <3> HIDE DEF rest
      <3> QED BY <2>3, <3>1, <3>2, <3>3
    <2>6. n - k >= Len(b) => SubSeq(rest, 1, Len(b)) = b
      <3> HIDE DEF rest
      <3>1. SUFFICES ASSUME n - k >= Len(b) PROVE SubSeq(rest, 1, Len(b)) = b
        OBVIOUS
      <3>2. \A i \in 1 .. Len(b) : rest[i] = b[i]
        <4>1. SUFFICES ASSUME NEW i \in 1 .. Len(b) PROVE rest[i] = b[i]
          OBVIOUS
        <4>2. i \in 1 .. n - k /\ k + i \in 1 .. n /\ k + i <= Len(frame)
          BY <1>1, <1>8, <3>1
        <4>3. rest[i] = u[k + i] /\ u[k + i] = frame[k + i]
          BY <4>2, <2>4, <1>3
        <4> QED BY <4>3, <1>1
      <3>3. /\ SubSeq(rest, 1, Len(b)) \in Seq(Bytes) /\ Len(SubSeq(rest, 1, Len(b))) = Len(b)
            /\ \A i \in 1 .. Len(b) : SubSeq(rest, 1, Len(b))[i] = rest[i]
        BY <1>1, <2>4, <3>1
      <3> QED BY <3>2, <3>3
    <2> HIDE DEF rest
    <2>7. <<"complete", b>> # <<"incomplete">>
      OBVIOUS
    <2>8. HasLine(u) /\ (n < Len(frame) <=> n - k < Len(b))
      BY <1>1, <1>6, <1>8
    <2>9. CASE n - k < Len(b)
      BY <1>f, <2>5, <2>8, <2>9
    <2>10. CASE ~(n - k < Len(b))
      <3>1. n - k >= Len(b)
        BY <1>1, <1>8, <2>10
      <3>2. InspectFrame(u) = <<"complete", b>>
        BY <2>5, <2>6, <2>10, <3>1
      <3> QED BY <1>f, <2>7, <2>8, <2>10, <3>2
    <2> QED BY <2>9, <2>10
  <1>9. Judged(n) = IF n < Len(frame) THEN Reading ELSE <<"complete", b>>
    BY <1>1, <1>7, <1>8
  <1> QED BY <1>6, <1>9 DEF u, p, frame

\* Inductive: a stream that agrees with the frame is read to the end of the frame, or
\* to its own.
FrameInv ==
    /\ meant \in Seq(Bytes) /\ sent \in Seq(Bytes) /\ received \in 0 .. Len(sent)
    /\ Len(meant) <= MaxFrameBytes /\ Agree(sent, EncodeFrame(meant)) =>
          LET size == Len(EncodeFrame(meant))
          IN  IF received >= size THEN result = <<"complete", meant>>
              ELSE \/ result = Reading
                   \/ received = Len(sent) /\ result \in {<<"closed">>, <<"error">>}

LEMMA FrameNextKeeps == FrameInv /\ [FrameNext]_frames => FrameInv'
  <1> SUFFICES ASSUME FrameInv, FrameNext \/ UNCHANGED frames PROVE FrameInv'
    OBVIOUS
  <1> DEFINE size == Len(EncodeFrame(meant))
  <1>1. CASE UNCHANGED frames
    BY <1>1 DEF frames, FrameInv
  <1>2. meant \in Seq(Bytes) /\ sent \in Seq(Bytes) /\ received \in 0 .. Len(sent)
    BY DEF FrameInv
  <1>3. CASE PeerClosed
    BY <1>3 DEF PeerClosed, FrameInv, Reading
  <1>4. ASSUME NEW n \in 1 .. ChunkBytes, Receive(n) PROVE FrameInv'
    <2>1. /\ UNCHANGED <<meant, sent>> /\ result = Reading
          /\ received' = received + n /\ received' \in 0 .. Len(sent)
      BY <1>2, <1>4, FramesAssumption DEF Receive
    <2>2. ASSUME Len(meant) <= MaxFrameBytes, Agree(sent, EncodeFrame(meant))
          PROVE  result' = IF received' < size THEN Reading ELSE <<"complete", meant>>
      <3>1. Judged(received') = IF received' < size THEN Reading ELSE <<"complete", meant>>
        BY <1>2, <2>1, <2>2, JudgedAs
      <3>2. HasLine(Buffer(received)) <=> received > Len(Prefix(Len(meant)))
        BY <1>2, <2>2, JudgedAs
      <3>3. /\ Len(Prefix(Len(meant))) \in Nat
            /\ Len(Prefix(Len(meant))) + ChunkBytes <= MaxFrameBytes
        BY <1>2, <2>2, FrameBytes
      <3>4. ~(~HasLine(Buffer(received)) /\ received + n > MaxFrameBytes)
        BY <1>2, <3>2, <3>3, FramesAssumption
      <3>5. result' = Judged(received')
        BY <1>4, <2>1, <3>4 DEF Receive
      <3> QED BY <3>1, <3>5
    <2>3. size \in Nat
      BY <1>2 DEF EncodeFrame
    <2> QED BY <1>2, <2>1, <2>2, <2>3 DEF FrameInv
  <1> QED BY <1>1, <1>3, <1>4 DEF FrameNext

\* For every body within the limit, whatever follows its frame or cuts it off, and
\* however the stream is delivered: the body that was meant, or none.
THEOREM FramesAlwaysSurvive == FrameSpec => []FramesSurviveChunking
  <1>1. FrameInit => FrameInv
    <2> SUFFICES ASSUME FrameInit PROVE FrameInv
      OBVIOUS
    <2>1. meant \in Seq(Bytes) /\ sent \in Seq(Bytes) /\ received = 0 /\ result = Reading
      BY DEF FrameInit
    <2>2. Len(meant) <= MaxFrameBytes => Len(EncodeFrame(meant)) > 0
      BY <2>1, FrameBytes
    <2> QED BY <2>1, <2>2 DEF FrameInv
  <1>2. FrameInv => FramesSurviveChunking
    <2> SUFFICES ASSUME FrameInv, Len(meant) <= MaxFrameBytes
                 PROVE  LET frame == EncodeFrame(meant)
                        IN  /\ IsPrefix(frame, sent) =>
                                  result = IF received < Len(frame) THEN Reading
                                           ELSE <<"complete", meant>>
                            /\ IsStrictPrefix(sent, frame) => result[1] # "complete"
      BY DEF FramesSurviveChunking
    <2> DEFINE frame == EncodeFrame(meant)
    <2>1. /\ meant \in Seq(Bytes) /\ sent \in Seq(Bytes) /\ received \in 0 .. Len(sent)
          /\ frame \in Seq(Bytes) /\ Len(frame) \in Nat
      BY FrameBytes DEF FrameInv
    <2>2. Agree(sent, frame) =>
             IF received >= Len(frame) THEN result = <<"complete", meant>>
             ELSE \/ result = Reading
                  \/ received = Len(sent) /\ result \in {<<"closed">>, <<"error">>}
      BY DEF FrameInv
    <2> HIDE DEF frame
    <2>3. ASSUME NEW s \in Seq(Bytes), NEW t \in Seq(Bytes), IsPrefix(s, t)
          PROVE  Len(s) <= Len(t) /\ \A i \in 1 .. Len(s) : s[i] = t[i]
      <3>1. Len(s) <= Len(t) /\ SubSeq(s, 1, Len(s)) = SubSeq(t, 1, Len(s))
        BY <2>3 DEF IsPrefix
      <3>2. \A i \in 1 .. Len(s) :
               SubSeq(s, 1, Len(s))[i] = s[i] /\ SubSeq(t, 1, Len(s))[i] = t[i]
        BY <3>1
      <3> QED BY <3>1, <3>2
    <2>4. ASSUME IsPrefix(frame, sent)
          PROVE  result = IF received < Len(frame) THEN Reading ELSE <<"complete", meant>>
      <3>1. Agree(sent, frame) /\ Len(frame) <= Len(sent)
        BY <2>1, <2>3, <2>4 DEF Agree
      <3> QED BY <2>1, <2>2, <3>1
    <2>5. ASSUME IsStrictPrefix(sent, frame) PROVE result[1] # "complete"
      <3>1. IsPrefix(sent, frame) /\ sent # frame
        BY <2>5 DEF IsStrictPrefix
      <3>2. Len(sent) <= Len(frame) /\ \A i \in 1 .. Len(sent) : sent[i] = frame[i]
        BY <2>1, <2>3, <3>1
      <3>3. Len(sent) < Len(frame)
        BY <2>1, <3>1, <3>2
      <3>4. Agree(sent, frame)
        BY <2>1, <3>2 DEF Agree
      <3> QED BY <2>1, <2>2, <3>3, <3>4 DEF Reading
    <2> QED BY <2>4, <2>5 DEF frame
  <1> QED BY <1>1, <1>2, FrameNextKeeps, PTL DEF FrameSpec
=============================================================================
