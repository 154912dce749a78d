--------------------------- MODULE UnitOccupancy ---------------------------
(***************************************************************************)
(* What the leasing side of the system promises, with applications,        *)
(* reviews and their timing abstracted away: on every day a unit has at    *)
(* most one tenant, and what has been let stays let.                       *)
(***************************************************************************)
EXTENDS Integers

CONSTANTS Units, Tenants,
          Dates           \* the dates on which a term may begin or end

VARIABLE occupancy        \* the unit-days that are let, each with its tenant

OneTenantADay ==
    \A o, q \in occupancy : o.unit = q.unit /\ o.day = q.day => o = q

Init == OneTenantADay

Free(unit, days) == \A o \in occupancy : o.unit = unit => o.day \notin days

\* A tenant takes a unit for a term on no day of which anybody has it.
Let(unit, tenant, first, last) ==
    /\ Free(unit, first..last)
    /\ occupancy' = occupancy \cup
          {[unit |-> unit, day |-> d, tenant |-> tenant] : d \in first..last}

Next ==
    \E u \in Units, t \in Tenants, first, last \in Dates : Let(u, t, first, last)

Spec == Init /\ [][Next]_occupancy

=============================================================================
