------------------------------ MODULE Calendar ------------------------------
(***************************************************************************)
(* Python's datetime.date and calendar.monthrange as reporting/service.py  *)
(* uses them, and the periods it builds on them.  A date is its ordinal:   *)
(* day 1 is Monday, January 1 of year 1.                                   *)
(***************************************************************************)
EXTENDS Integers

CONSTANTS FirstYear, LastYear   \* bounds on the years dates fall in

\* The year before the first one is still a year of datetime.date.
ASSUME YearAssumption == FirstYear \in Nat \ {0, 1} /\ LastYear \in Nat

IsLeap(year) == year % 4 = 0 /\ (year % 100 # 0 \/ year % 400 = 0)

MonthLength(year, month) ==
  CASE month = 2 -> IF IsLeap(year) THEN 29 ELSE 28
    [] month \in {4, 6, 9, 11} -> 30
    [] OTHER -> 31

\* Days of the months before this one in a common year
DaysBefore == <<0, 31, 59, 90, 120, 151, 181, 212, 243, 273, 304, 334>>

Date(year, month, day) ==
  LET past == year - 1
  IN 365 * past + past \div 4 - past \div 100 + past \div 400 + DaysBefore[month]
       + (IF month > 2 /\ IsLeap(year) THEN 1 ELSE 0) + day

Dates == Date(FirstYear, 1, 1)..Date(LastYear, 12, 31)

YearOf ==
  [date \in Dates |->
     CHOOSE year \in FirstYear..LastYear :
       Date(year, 1, 1) <= date /\ date <= Date(year, 12, 31)]

MonthOf ==
  [date \in Dates |->
     CHOOSE month \in 1..12 :
       /\ Date(YearOf[date], month, 1) <= date
       /\ date < Date(YearOf[date], month, 1) + MonthLength(YearOf[date], month)]

DayOf(date) == date - Date(YearOf[date], MonthOf[date], 1) + 1

-----------------------------------------------------------------------------
(* The calendar periods, by the bounds of the one that holds a date *)

WeekBounds(date) ==
  LET start == date - ((date + 6) % 7) IN [start |-> start, end |-> start + 6]

MonthBounds(date) ==
  LET start == Date(YearOf[date], MonthOf[date], 1)
  IN [start |-> start, end |-> start + MonthLength(YearOf[date], MonthOf[date]) - 1]

QuarterBounds(date) ==
  LET year == YearOf[date]
      first == ((MonthOf[date] - 1) \div 3) * 3 + 1
  IN [start |-> Date(year, first, 1),
      end |-> IF first = 10 THEN Date(year + 1, 1, 1) - 1 ELSE Date(year, first + 3, 1) - 1]

YearBounds(date) ==
  [start |-> Date(YearOf[date], 1, 1), end |-> Date(YearOf[date], 12, 31)]

Granularity == {"week", "month", "quarter", "year"}

Bounds(granularity, date) ==
  CASE granularity = "week" -> WeekBounds(date)
    [] granularity = "month" -> MonthBounds(date)
    [] granularity = "quarter" -> QuarterBounds(date)
    [] granularity = "year" -> YearBounds(date)

\* _rolling_window_start: the day after the same day so many months earlier,
\* or after the last day of that month
WindowStart(date, months) ==
  LET index == YearOf[date] * 12 + MonthOf[date] - 1 - months
      year == index \div 12
      month == (index % 12) + 1
      last == MonthLength(year, month)
  IN Date(year, month, IF DayOf(date) < last THEN DayOf(date) ELSE last) + 1

=============================================================================
