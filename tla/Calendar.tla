-------------------------------- MODULE Calendar --------------------------------
(* The dates of time.Time at midnight, as far as the reset date needs them. *)
EXTENDS Integers

IsLeap(y) == y % 4 = 0 /\ (y % 100 # 0 \/ y % 400 = 0)

DaysIn(y, m) ==
    IF m = 2 THEN (IF IsLeap(y) THEN 29 ELSE 28)
    ELSE IF m \in {4, 6, 9, 11} THEN 30 ELSE 31

Date(y, m, d) == [year |-> y, month |-> m, day |-> d]

\* time.Time.Before.
Before(a, b) ==
    \/ a.year < b.year
    \/ a.year = b.year /\ a.month < b.month
    \/ a.year = b.year /\ a.month = b.month /\ a.day < b.day

Tomorrow(t) ==
    IF t.day < DaysIn(t.year, t.month) THEN Date(t.year, t.month, t.day + 1)
    ELSE IF t.month < 12 THEN Date(t.year, t.month + 1, 1)
    ELSE Date(t.year + 1, 1, 1)
=============================================================================
