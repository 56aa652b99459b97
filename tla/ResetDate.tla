------------------------------- MODULE ResetDate -------------------------------
(***************************************************************************)
(* GetLastResetDate, asked every day: the start of the month of traffic    *)
(* that reports count. config.Validate admits the reset days 1 to 31, 0    *)
(* switches the count off.                                                 *)
(***************************************************************************)
EXTENDS Calendar

CONSTANTS
    FirstYear, LastYear,  \* the years the agent is asked in
    Retention             \* DataPreserveDays

ASSUME YearsAssumption == FirstYear \in Nat /\ LastYear \in Nat
ASSUME RetentionAssumption == Retention \in Nat /\ Retention >= 31

VARIABLES
    resetDay,  \* options.MonthRotate, 0 while no run counts
    today      \* time.Now()

dateVars == <<resetDay, today>>

DatesOK ==
    /\ resetDay \in 0..31
    /\ today \in [year : Nat, month : 1..12, day : 1..31]
    /\ today.day <= DaysIn(today.year, today.month)

\* getActualResetDate.
ActualResetDate(y, m, r) ==
    IF r <= DaysIn(y, m) THEN Date(y, m, r)
    ELSE IF m = 12 THEN Date(y + 1, 1, 1) ELSE Date(y, m + 1, 1)

ThisMonths(r, t) == ActualResetDate(t.year, t.month, r)

\* A mutant: January borrows no year.
LastMonthsOfSameYear(r, t) ==
    ActualResetDate(t.year, IF t.month = 1 THEN 12 ELSE t.month - 1, r)

LastMonths(r, t) ==
    IF t.month = 1 THEN ActualResetDate(t.year - 1, 12, r)
    ELSE ActualResetDate(t.year, t.month - 1, r)

\* A mutant: the reset comes a day late.
AfterResetDate(r, t) ==
    IF Before(ThisMonths(r, t), t) THEN ThisMonths(r, t) ELSE LastMonths(r, t)

GetLastResetDate(r, t) ==
    IF ~Before(t, ThisMonths(r, t)) THEN ThisMonths(r, t) ELSE LastMonths(r, t)

IdleDates == resetDay = 0 /\ today = Date(FirstYear, 1, 1)

\* A run that counts; the first day it asks is a reset day.
StartCounting ==
    /\ resetDay = 0 /\ resetDay' \in 1..31
    /\ \E month \in 1..12 :
        resetDay' <= DaysIn(FirstYear, month) /\ today' = Date(FirstYear, month, resetDay')

NextDay ==
    /\ resetDay # 0 /\ today.year <= LastYear
    /\ today' = Tomorrow(today)
    /\ UNCHANGED resetDay

-----------------------------------------------------------------------------

\* Days from a to b, where a is in the month of b or in the month before; more
\* than any retention otherwise.
DaysBetween(a, b) ==
    IF a.year = b.year /\ a.month = b.month THEN b.day - a.day
    ELSE IF \/ a.year = b.year /\ a.month + 1 = b.month
            \/ a.year + 1 = b.year /\ a.month = 12 /\ b.month = 1
      THEN DaysIn(a.year, a.month) - a.day + b.day
    ELSE Retention + 1

\* Months without the reset day, the turn of the year and leap days included, the
\* answer to every day's question is the schedule's: it moves to the day of the
\* question, on the days a reset is due, and never otherwise.
Schedule == INSTANCE ResetSchedule WITH since <- GetLastResetDate(resetDay, today)
FollowsSchedule == Schedule!Spec

\* The tracker keeps traffic for as long as the month of a report lasts: the last
\* reset is not in the future and less than DataPreserveDays ago
\* (purgeExpiredLocked removes what is older).
WindowKept ==
    resetDay # 0 =>
    LET d == DaysBetween(GetLastResetDate(resetDay, today), today) IN d >= 0 /\ d < Retention
=============================================================================
