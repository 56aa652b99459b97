----------------------------- MODULE ResetSchedule -----------------------------
(***************************************************************************)
(* What a monthly reset means, day by day: traffic is counted from the     *)
(* last reset, and a reset is due on its day of the month, or on the first *)
(* of the next month where the month before has no such day.               *)
(***************************************************************************)
EXTENDS Calendar

VARIABLES
    resetDay,  \* the day of the month, 0 before the first
    today,
    since      \* the day of the last reset

vars == <<resetDay, today, since>>

PreviousDays(t) == IF t.month = 1 THEN DaysIn(t.year - 1, 12) ELSE DaysIn(t.year, t.month - 1)

Due(t) == t.day = resetDay \/ (t.day = 1 /\ PreviousDays(t) < resetDay)

Init == resetDay = 0

\* The count begins on a reset day.
Begin ==
    /\ resetDay = 0 /\ resetDay' \in 1..31
    /\ today'.day = resetDay' /\ since' = today'

NextDay ==
    /\ resetDay # 0 /\ today' = Tomorrow(today)
    /\ since' = IF Due(today') THEN today' ELSE since
    /\ UNCHANGED resetDay

Next == Begin \/ NextDay

Spec == Init /\ [][Next]_vars
=============================================================================
