------------------------- MODULE GregorianCalendar -------------------------
(***************************************************************************)
(* The calendar behind the platform's DateOnly, as far as the lease rules  *)
(* use it: a date is a day number, 1 January of the year 1 being day 0,    *)
(* and months are added by keeping the day of the month as far as the      *)
(* month reached has it.                                                   *)
(***************************************************************************)
EXTENDS Integers

IsLeapYear(y) == y % 4 = 0 /\ (y % 100 = 0 => y % 400 = 0)

DaysInMonth(y, m) ==
    CASE m = 2              -> IF IsLeapYear(y) THEN 29 ELSE 28
      [] m \in {4, 6, 9, 11} -> 30
      [] OTHER              -> 31

DaysBeforeYear(y) ==
    LET past == y - 1
    IN  ((365 * past + (past \div 4)) - (past \div 100)) + (past \div 400)

DaysBeforeMonth(y, m) ==
    <<0, 31, 59, 90, 120, 151, 181, 212, 243, 273, 304, 334>>[m]
        + (IF m > 2 /\ IsLeapYear(y) THEN 1 ELSE 0)

DayNumber(y, m, d) == DaysBeforeYear(y) + DaysBeforeMonth(y, m) + d - 1

\* The year, month and day of a day number: the inverse of DayNumber.
DateOf(n) ==
    LET year  == CHOOSE y \in ((n \div 366) + 1)..((n \div 365) + 1) :
                    DaysBeforeYear(y) <= n /\ n < DaysBeforeYear(y + 1)
        rest  == n - DaysBeforeYear(year)
        month == CHOOSE m \in 1..12 :
                    LET first == DaysBeforeMonth(year, m)
                    IN  first <= rest /\ rest < first + DaysInMonth(year, m)
    IN  [year |-> year, month |-> month, day |-> rest - DaysBeforeMonth(year, month) + 1]

\* Faulty variant: a day the month does not have runs on into the next one.
PlusMonthsRunningOver(n, months) ==
    LET from == DateOf(n)
        to   == 12 * from.year + from.month - 1 + months
    IN  DayNumber(to \div 12, (to % 12) + 1, from.day)

\* DateOnly.AddMonths, for a result within the years 1 to 9999.
PlusMonths(n, months) ==
    LET from == DateOf(n)
        to   == 12 * from.year + from.month - 1 + months
        y    == to \div 12
        m    == (to % 12) + 1
    IN  DayNumber(y, m, IF from.day <= DaysInMonth(y, m) THEN from.day
                                                        ELSE DaysInMonth(y, m))

=============================================================================
