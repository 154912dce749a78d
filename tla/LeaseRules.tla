----------------------------- MODULE LeaseRules -----------------------------
(***************************************************************************)
(* The rules about lease terms                                             *)
(* (PropertyManagement.Domain/Rules/LeaseRules.cs).  A date is a day       *)
(* number; adding months to a date is the platform's DateOnly.AddMonths,   *)
(* a parameter here, so that a small calendar serves for model checking    *)
(* and the theorems hold for every calendar.                               *)
(***************************************************************************)
EXTENDS Integers

CONSTANTS
    Days,             \* the dates the model uses: day numbers
    AddMonths(_, _)   \* AddMonths(day, n): the same day of the month, n months on

TermMonths == 12

\* A term is whole months long and its last day is the day before the anniversary.
EndDateFor(start) == AddMonths(start, TermMonths) - 1

\* Dates are day numbers, and the term of every start date ends on a date.
ASSUME CalendarAssumption ==
    /\ Days \subseteq Int
    /\ \A d \in Days : EndDateFor(d) \in Int

\* The term of a lease covers the date.
IsActiveOn(lease, date) == lease.startDate <= date /\ lease.endDate >= date

\* Faulty variant: strict comparisons, terms may share a boundary day.
OverlapsStrictly(lease, start, end) == lease.startDate < end /\ lease.endDate > start

Overlaps(lease, start, end) == lease.startDate <= end /\ lease.endDate >= start

IsUnitAvailableOn(leases, date) == ~ \E l \in leases : IsActiveOn(l, date)

\* Faulty variant: a lease that starts in the future is overlooked.
ConflictsWithActive(leases, today, proposedStart) ==
    \E l \in leases : IsActiveOn(l, today)

\* A second lease is rejected when an existing one is active today or overlaps
\* the proposed term.
ConflictsWithExisting(leases, today, proposedStart) ==
    \E l \in leases :
        \/ IsActiveOn(l, today)
        \/ Overlaps(l, proposedStart, EndDateFor(proposedStart))

=============================================================================
