---------------------------- MODULE ResetDate_proofs ----------------------------
(* Proofs about the days AgentProcess counts, for every reset day and any number *)
(* of years. *)
EXTENDS AgentProcess, TLAPS

USE YearsAssumption, RetentionAssumption

\* Every month has 28 to 31 days, January and December have 31.
LEMMA MonthLength ==
    ASSUME NEW y \in Int, NEW m \in 1..12
    PROVE  /\ DaysIn(y, m) \in 28..31
           /\ m \in {1, 3, 5, 7, 8, 10, 12} => DaysIn(y, m) = 31
  BY DEF DaysIn

\* The steps of the process, for its dates.
LEMMA DateSteps ==
    ASSUME [Next]_vars
    PROVE  StartCounting \/ NextDay \/ UNCHANGED dateVars
  BY DEF Next, Configure, Run, Connect, ReportNetwork, ReportFigure, Ping, Count, vars

LEMMA TypeStep == DatesOK /\ [Next]_vars => DatesOK'
<1> SUFFICES ASSUME DatesOK, [Next]_vars PROVE DatesOK'
  OBVIOUS
<1> USE DEF DatesOK
<1>1. CASE UNCHANGED dateVars
  BY <1>1 DEF dateVars
<1>2. CASE NextDay
  <2>1. /\ today.year \in Nat /\ today.month \in 1..12 /\ today.day \in 1..31
        /\ DaysIn(today.year, today.month) \in 28..31
    BY MonthLength
  <2>2. CASE today.day < DaysIn(today.year, today.month)
    <3>1. today' = Date(today.year, today.month, today.day + 1)
      BY <1>2, <2>2 DEF NextDay, Tomorrow
    <3> QED BY <1>2, <2>1, <2>2, <3>1 DEF NextDay, Date
  <2>3. CASE today.day >= DaysIn(today.year, today.month) /\ today.month < 12
    <3>1. today' = Date(today.year, today.month + 1, 1)
      BY <1>2, <2>1, <2>3 DEF NextDay, Tomorrow
    <3>2. DaysIn(today.year, today.month + 1) \in 28..31
      BY <2>1, <2>3, MonthLength
    <3> QED BY <1>2, <2>1, <2>3, <3>1, <3>2 DEF NextDay, Date
  <2>4. CASE today.day >= DaysIn(today.year, today.month) /\ today.month = 12
    <3>1. today' = Date(today.year + 1, 1, 1)
      BY <1>2, <2>1, <2>4 DEF NextDay, Tomorrow
    <3>2. DaysIn(today.year + 1, 1) \in 28..31
      BY <2>1, MonthLength
    <3> QED BY <1>2, <2>1, <3>1, <3>2 DEF NextDay, Date
  <2> QED BY <2>1, <2>2, <2>3, <2>4
<1>3. CASE StartCounting
  <2>1. PICK month \in 1..12 :
          resetDay' <= DaysIn(FirstYear, month) /\ today' = Date(FirstYear, month, resetDay')
    BY <1>3 DEF StartCounting
  <2>2. resetDay' \in 1..31
    BY <1>3 DEF StartCounting
  <2> QED BY <2>1, <2>2 DEF Date
<1> QED BY <1>1, <1>2, <1>3, DateSteps

LEMMA TypeInit == Init => DatesOK
<1> SUFFICES ASSUME IdleDates PROVE DatesOK
  BY DEF Init
<1>1. DaysIn(FirstYear, 1) = 31
  BY MonthLength
<1> QED BY <1>1 DEF IdleDates, DatesOK, Date

\* The calendar keeps the days it counts valid.
THEOREM TypeCorrect == Spec => []DatesOK
  BY TypeInit, TypeStep, PTL DEF Spec

\* What GetLastResetDate answers, month by month.
LEMMA Answer ==
    ASSUME NEW r \in 1..31, NEW y \in Nat, NEW m \in 1..12, NEW d \in 1..DaysIn(y, m)
    PROVE  LET t == Date(y, m, d)
               b == IF m = 1 THEN 31 ELSE DaysIn(y, m - 1)
           IN  GetLastResetDate(r, t) =
                 IF r <= d THEN Date(y, m, r)
                 ELSE IF b < r THEN Date(y, m, 1)
                 ELSE IF m = 1 THEN Date(y - 1, 12, r) ELSE Date(y, m - 1, r)
<1> DEFINE t == Date(y, m, d)
<1>1. t.year = y /\ t.month = m /\ t.day = d
  BY DEF Date
<1>2. DaysIn(y, m) \in 28..31 /\ DaysIn(y - 1, 12) = 31
  BY MonthLength
<1>3. CASE r <= d
  <2>1. r <= DaysIn(y, m)
    BY <1>2, <1>3
  <2>2. ThisMonths(r, t) = Date(y, m, r)
    BY <1>1, <2>1 DEF ThisMonths, ActualResetDate
  <2>3. ~Before(t, ThisMonths(r, t))
    BY <1>1, <1>2, <1>3, <2>2 DEF Before, Date
  <2> QED BY <1>3, <2>2, <2>3 DEF GetLastResetDate
<1>4. CASE d < r
  <2>1. Before(t, ThisMonths(r, t))
    <3>1. CASE r <= DaysIn(y, m)
      <4>1. ThisMonths(r, t) = Date(y, m, r)
        BY <1>1, <3>1 DEF ThisMonths, ActualResetDate
      <4> QED BY <1>1, <1>2, <1>4, <4>1 DEF Before, Date
    <3>2. CASE DaysIn(y, m) < r
      <4>1. m # 12
        BY <3>2, MonthLength
      <4>2. ThisMonths(r, t) = Date(y, m + 1, 1)
        BY <1>1, <1>2, <3>2, <4>1 DEF ThisMonths, ActualResetDate
      <4> QED BY <1>1, <4>2 DEF Before, Date
    <3> QED BY <1>2, <3>1, <3>2
  <2>2. GetLastResetDate(r, t) = LastMonths(r, t)
    BY <2>1 DEF GetLastResetDate
  <2>3. CASE m = 1
    <3>1. LastMonths(r, t) = Date(y - 1, 12, r)
      BY <1>1, <1>2, <2>3 DEF LastMonths, ActualResetDate
    <3> QED BY <1>4, <2>2, <2>3, <3>1
  <2>4. CASE m # 1
    <3>1. m - 1 \in 1..12 /\ DaysIn(y, m - 1) \in 28..31 /\ m - 1 # 12 /\ (m - 1) + 1 = m
      BY <2>4, MonthLength
    <3>2. LastMonths(r, t) = ActualResetDate(y, m - 1, r)
      BY <1>1, <2>4 DEF LastMonths
    <3>3. LastMonths(r, t) =
            IF r <= DaysIn(y, m - 1) THEN Date(y, m - 1, r) ELSE Date(y, m, 1)
      BY <3>1, <3>2 DEF ActualResetDate
    <3> QED BY <1>4, <2>2, <2>4, <3>1, <3>3
  <2> QED BY <2>3, <2>4
<1> QED BY <1>2, <1>3, <1>4

\* The same for the day of a state.
LEMMA AnswerToday ==
    ASSUME DatesOK, resetDay # 0
    PROVE  LET y == today.year m == today.month d == today.day
               b == IF m = 1 THEN 31 ELSE DaysIn(y, m - 1)
           IN  GetLastResetDate(resetDay, today) =
                 IF resetDay <= d THEN Date(y, m, resetDay)
                 ELSE IF b < resetDay THEN Date(y, m, 1)
                 ELSE IF m = 1 THEN Date(y - 1, 12, resetDay) ELSE Date(y, m - 1, resetDay)
<1>1. today = Date(today.year, today.month, today.day)
  BY DEF DatesOK, Date
<1>2. /\ resetDay \in 1..31 /\ today.year \in Nat /\ today.month \in 1..12
      /\ today.day \in 1..DaysIn(today.year, today.month)
  BY MonthLength DEF DatesOK
<1> DEFINE y == today.year
           m == today.month
           d == today.day
           b == IF m = 1 THEN 31 ELSE DaysIn(y, m - 1)
<1> HIDE DEF y, m, d
<1>3. y \in Nat /\ m \in 1..12 /\ d \in 1..DaysIn(y, m)
  BY <1>2 DEF y, m, d
<1>4. GetLastResetDate(resetDay, Date(y, m, d)) =
        IF resetDay <= d THEN Date(y, m, resetDay)
        ELSE IF b < resetDay THEN Date(y, m, 1)
        ELSE IF m = 1 THEN Date(y - 1, 12, resetDay) ELSE Date(y, m - 1, resetDay)
  BY <1>2, <1>3, Answer
<1>5. today = Date(y, m, d)
  BY <1>1 DEF y, m, d
<1> QED BY <1>4, <1>5 DEF y, m, d

\* The last reset is never in the future and less than DataPreserveDays ago, so
\* that the tracker still has all of the traffic a report counts.
THEOREM ResetWithinRetention == Spec => []WindowKept
<1>1. DatesOK => WindowKept
  <2> SUFFICES ASSUME DatesOK, resetDay # 0
               PROVE  LET d == DaysBetween(GetLastResetDate(resetDay, today), today)
                      IN  d >= 0 /\ d < Retention
    BY DEF WindowKept
  <2> DEFINE y == today.year m == today.month d == today.day
             a == GetLastResetDate(resetDay, today)
             b == IF m = 1 THEN 31 ELSE DaysIn(y, m - 1)
  <2>1. /\ y \in Nat /\ m \in 1..12 /\ d \in 1..31 /\ resetDay \in 1..31
        /\ DaysIn(y, m) \in 28..31 /\ d <= DaysIn(y, m)
    BY MonthLength DEF DatesOK
  <2>2. b \in 28..31 /\ DaysIn(y - 1, 12) = 31
    BY <2>1, MonthLength
  <2>3. DaysBetween(a, today) \in 0..30
    <3>1. CASE resetDay <= d
      <4>1. a = Date(y, m, resetDay)
        BY <3>1, AnswerToday
      <4> QED BY <2>1, <3>1, <4>1 DEF DaysBetween, Date
    <3>2. CASE d < resetDay /\ b < resetDay
      <4>1. a = Date(y, m, 1)
        BY <2>1, <3>2, AnswerToday
      <4> QED BY <2>1, <4>1 DEF DaysBetween, Date
    <3>3. CASE d < resetDay /\ resetDay <= b /\ m = 1
      <4>1. a = Date(y - 1, 12, resetDay)
        BY <2>1, <2>2, <3>3, AnswerToday
      <4>2. a.year = y - 1 /\ a.month = 12 /\ a.day = resetDay
        BY <4>1 DEF Date
      <4>3. DaysBetween(a, today) = DaysIn(y - 1, 12) - resetDay + d
        BY <2>1, <3>3, <4>2 DEF DaysBetween
      <4> QED BY <2>1, <2>2, <3>3, <4>3
    <3>4. CASE d < resetDay /\ resetDay <= b /\ m # 1
      <4>1. a = Date(y, m - 1, resetDay)
        BY <2>1, <2>2, <3>4, AnswerToday
      <4>2. a.year = y /\ a.month = m - 1 /\ a.day = resetDay
        BY <4>1 DEF Date
      <4>3. DaysBetween(a, today) = DaysIn(y, m - 1) - resetDay + d
        BY <2>1, <3>4, <4>2 DEF DaysBetween
      <4> QED BY <2>1, <2>2, <3>4, <4>3
    <3> QED BY <2>1, <2>2, <3>1, <3>2, <3>3, <3>4
  <2> QED BY <2>3
<1> QED BY <1>1, TypeCorrect, PTL

\* The schedule's calendar is the same.
LEMMA SameCalendar ==
    /\ \A t : Schedule!Tomorrow(t) = Tomorrow(t)
    /\ \A y, m : Schedule!DaysIn(y, m) = DaysIn(y, m)
<1>1. \A y, m : Schedule!DaysIn(y, m) = DaysIn(y, m)
  BY DEF Schedule!DaysIn, DaysIn, Schedule!IsLeap, IsLeap
<1> QED BY <1>1 DEF Schedule!Tomorrow, Tomorrow, Schedule!Date, Date

\* From one day to the next the answer stays, or becomes the new day, as the
\* schedule says.
LEMMA ScheduleStep == ASSUME DatesOK, NextDay PROVE Schedule!NextDay
<1> DEFINE y == today.year
           m == today.month
           d == today.day
           b == IF m = 1 THEN 31 ELSE DaysIn(y, m - 1)
           a == GetLastResetDate(resetDay, today)
           n == GetLastResetDate(resetDay, today')
<1>1. /\ y \in Nat /\ m \in 1..12 /\ d \in 1..DaysIn(y, m) /\ resetDay \in 1..31
      /\ DaysIn(y, m) \in 28..31 /\ b \in 28..31
  BY MonthLength DEF DatesOK, NextDay
<1>2. today' = Tomorrow(today) /\ resetDay' = resetDay
  BY DEF NextDay
<1>3. a = IF resetDay <= d THEN Date(y, m, resetDay)
          ELSE IF b < resetDay THEN Date(y, m, 1)
          ELSE IF m = 1 THEN Date(y - 1, 12, resetDay) ELSE Date(y, m - 1, resetDay)
  BY <1>1, AnswerToday
<1> SUFFICES n = IF Schedule!Due(today') THEN today' ELSE a
  <2>1. GetLastResetDate(resetDay, today)' = n
    BY <1>2
  <2> QED BY <1>1, <1>2, <2>1, SameCalendar DEF Schedule!NextDay
<1>4. CASE d < DaysIn(y, m)
  <2>1. today' = Date(y, m, d + 1)
    BY <1>2, <1>4 DEF Tomorrow
  <2>2. d + 1 \in 1..DaysIn(y, m)
    BY <1>1, <1>4
  <2>3. n = IF resetDay <= d + 1 THEN Date(y, m, resetDay)
            ELSE IF b < resetDay THEN Date(y, m, 1)
            ELSE IF m = 1 THEN Date(y - 1, 12, resetDay) ELSE Date(y, m - 1, resetDay)
    BY <1>1, <2>1, <2>2, Answer
  <2>4. Schedule!Due(today') <=> d + 1 = resetDay
    BY <1>1, <2>1 DEF Schedule!Due, Date
  <2> QED BY <1>1, <1>3, <2>1, <2>3, <2>4
<1>5. CASE d = DaysIn(y, m) /\ m < 12
  <2>1. today' = Date(y, m + 1, 1)
    BY <1>1, <1>2, <1>5 DEF Tomorrow
  <2>2. m + 1 \in 1..12 /\ 1 \in 1..DaysIn(y, m + 1) /\ m + 1 # 1 /\ (m + 1) - 1 = m
    BY <1>1, <1>5, MonthLength
  <2>3. n = IF resetDay <= 1 THEN Date(y, m + 1, resetDay)
            ELSE IF DaysIn(y, m) < resetDay THEN Date(y, m + 1, 1)
            ELSE Date(y, m, resetDay)
    <3> DEFINE k == m + 1
    <3> HIDE DEF k
    <3>1. k \in 1..12 /\ 1 \in 1..DaysIn(y, k) /\ k # 1 /\ k - 1 = m
      BY <2>2 DEF k
    <3>2. GetLastResetDate(resetDay, Date(y, k, 1)) =
            IF resetDay <= 1 THEN Date(y, k, resetDay)
            ELSE IF DaysIn(y, k - 1) < resetDay THEN Date(y, k, 1)
            ELSE Date(y, k - 1, resetDay)
      BY <1>1, <3>1, Answer
    <3> QED BY <2>1, <3>1, <3>2 DEF k
  <2>4. Schedule!Due(today') <=> (resetDay = 1 \/ DaysIn(y, m) < resetDay)
    <3>1. today'.year = y /\ today'.month = m + 1 /\ today'.day = 1
      BY <2>1 DEF Date
    <3>2. Schedule!PreviousDays(today') = DaysIn(y, m)
      BY <2>2, <3>1, SameCalendar DEF Schedule!PreviousDays
    <3> QED BY <1>1, <1>2, <3>1, <3>2 DEF Schedule!Due
  <2> QED BY <1>1, <1>3, <1>5, <2>1, <2>3, <2>4
<1>6. CASE d = DaysIn(y, m) /\ m = 12
  <2>1. today' = Date(y + 1, 1, 1)
    BY <1>1, <1>2, <1>6 DEF Tomorrow
  <2>2. y + 1 \in Nat /\ 1 \in 1..DaysIn(y + 1, 1) /\ (y + 1) - 1 = y /\ DaysIn(y, 12) = 31
    BY <1>1, MonthLength
  <2>3. n = IF resetDay <= 1 THEN Date(y + 1, 1, resetDay) ELSE Date(y, 12, resetDay)
    <3> DEFINE z == y + 1
    <3> HIDE DEF z
    <3>1. z \in Nat /\ 1 \in 1..DaysIn(z, 1) /\ z - 1 = y
      BY <2>2 DEF z
    <3>2. GetLastResetDate(resetDay, Date(z, 1, 1)) =
            IF resetDay <= 1 THEN Date(z, 1, resetDay)
            ELSE Date(z - 1, 12, resetDay)
      <4>1. 1 \in 1..12 /\ ~(31 < resetDay)
        BY <1>1
      <4> QED BY <1>1, <3>1, <4>1, Answer
    <3> QED BY <1>1, <2>1, <3>1, <3>2 DEF z
  <2>4. Schedule!Due(today') <=> resetDay = 1
    <3>1. today'.year = y + 1 /\ today'.month = 1 /\ today'.day = 1
      BY <2>1 DEF Date
    <3>2. Schedule!PreviousDays(today') = 31
      BY <2>2, <3>1, SameCalendar DEF Schedule!PreviousDays
    <3> QED BY <1>1, <1>2, <3>1, <3>2 DEF Schedule!Due
  <2> QED BY <1>1, <1>3, <1>6, <2>1, <2>2, <2>3, <2>4
<1> QED BY <1>1, <1>4, <1>5, <1>6

\* The first answer is the day of the question.
LEMMA ScheduleBegins == ASSUME DatesOK, StartCounting PROVE Schedule!Begin
<1>1. PICK month \in 1..12 :
        resetDay' <= DaysIn(FirstYear, month) /\ today' = Date(FirstYear, month, resetDay')
  BY DEF StartCounting
<1>2. resetDay = 0 /\ resetDay' \in 1..31
  BY DEF StartCounting
<1>3. resetDay' \in 1..DaysIn(FirstYear, month) /\ resetDay' <= resetDay'
  BY <1>1, <1>2, MonthLength
<1>4. GetLastResetDate(resetDay', Date(FirstYear, month, resetDay')) =
        Date(FirstYear, month, resetDay')
  <2> DEFINE r == resetDay'
  <2> HIDE DEF r
  <2>1. r \in 1..31 /\ r \in 1..DaysIn(FirstYear, month) /\ r <= r
    BY <1>2, <1>3 DEF r
  <2>2. GetLastResetDate(r, Date(FirstYear, month, r)) = Date(FirstYear, month, r)
    BY <2>1, Answer
  <2> QED BY <2>2 DEF r
<1>5. today'.day = resetDay'
  BY <1>1 DEF Date
<1> QED BY <1>1, <1>2, <1>4, <1>5 DEF Schedule!Begin

\* GetLastResetDate implements the schedule: asked day after day it gives the
\* start of the running month of traffic, for ever and for every reset day.
THEOREM ImplementsSchedule == Spec => FollowsSchedule
<1>1. Init => Schedule!Init
  BY DEF Init, IdleDates, Schedule!Init
<1>2. DatesOK /\ [Next]_vars => [Schedule!Next]_(Schedule!vars)
  <2> SUFFICES ASSUME DatesOK, [Next]_vars PROVE [Schedule!Next]_(Schedule!vars)
    OBVIOUS
  <2>1. CASE StartCounting
    BY <2>1, ScheduleBegins DEF Schedule!Next
  <2>2. CASE NextDay
    BY <2>2, ScheduleStep DEF Schedule!Next
  <2>3. CASE UNCHANGED dateVars
    BY <2>3 DEF dateVars, Schedule!vars
  <2> QED BY <2>1, <2>2, <2>3, DateSteps
<1> QED BY <1>1, <1>2, TypeInit, TypeStep, PTL DEF Spec, FollowsSchedule, Schedule!Spec
=============================================================================
