----------------------------- MODULE MCStartup -----------------------------
(***************************************************************************)
(* A small instance of Startup for TLC, with the whole plan of the seeder  *)
(* and the Gregorian calendar.                                             *)
(***************************************************************************)
EXTENDS Startup, TLC

CONSTANTS m1, m2, p1, p2, v1

\* Ends of months of 28 to 31 days, days around 29 February, and a new year.
Dates ==
    {Calendar!DayNumber(2023, 12, 29), Calendar!DayNumber(2023, 12, 31),
     Calendar!DayNumber(2024, 2, 29), Calendar!DayNumber(2024, 3, 29),
     Calendar!DayNumber(2025, 1, 1), Calendar!DayNumber(2025, 3, 31)}

LeaseStarts == {Calendar!PlusMonths(d, -n) : d \in Dates, n \in 0..14}

\* The calendar as a table, for the dates and the numbers of months that occur.
Months == (-14..-1) \cup {TermMonths}

CalendarTable == [n \in LeaseStarts, months \in Months |-> Calendar!PlusMonths(n, months)]

Gregorian(n, months) == CalendarTable[n, months]

TwoManagers == <<m1, m2>>

TwoApplicants == <<p1, p2>>

\* Ten for the plan, and one that nobody applies for.
ElevenUnits == [i \in 1..11 |-> i]

ElevenIds == [i \in 1..11 |-> i]

=============================================================================
