------------------------------ MODULE Calendar ------------------------------
(***************************************************************************)
(* Days and months as the code uses them: Go's time.Time at midnight UTC   *)
(* and Postgres dates.  A month is year * 12 + (month - 1), so that adding *)
(* months is addition; a day is month * 100 + day of the month, which      *)
(* orders days as the calendar does.                                       *)
(***************************************************************************)
EXTENDS Integers

Month(year, number) == year * 12 + number - 1

IsLeap(year) == year % 4 = 0 /\ (year % 100 # 0 \/ year % 400 = 0)

MonthLength(m) ==
    CASE m % 12 = 1 -> IF IsLeap(m \div 12) THEN 29 ELSE 28
      [] m % 12 \in {3, 5, 8, 10} -> 30
      [] OTHER -> 31

Day(m, number) == m * 100 + number

\* truncateToMonth, and date_trunc('month', d) in the queries.
MonthOf(d) == d \div 100

\* time.Parse accepts it: the month has such a day.
IsDay(d) == d % 100 \in 1 .. MonthLength(MonthOf(d))

FirstDay(m) == Day(m, 1)

\* One month later and one day back.
LastDay(m) == Day(m, MonthLength(m))
=============================================================================
