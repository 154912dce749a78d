--------------------- MODULE MCRentalApplicationService ---------------------
(***************************************************************************)
(* Small instances of RentalApplicationService and Pages for TLC.  A model *)
(* day stands for six months, so a lease term is two model days.           *)
(***************************************************************************)
EXTENDS Pages, TLC

CONSTANTS p1, p2, m1, u1, u2, u3, a1, a2, a3, a4, r1, r2, r3, r4, i1, c1, n1

\* Six months to a model day; a seeded lease ten months old began one day ago.
HalfYears(d, n) == IF n >= 0 THEN d + (n \div 6) ELSE d - ((-n + 5) \div 6)

MCDays == 0..3

Seeder == INSTANCE DbSeeder WITH AddMonths <- HalfYears

Seeded(status, unit, applicant) ==
    Seeder!SeededApplication(status, unit, applicant, m1, i1, c1)

\* A residence form with valid dates, one whose dates are reversed and one that
\* is valid only from the second day on.
Forms == {[moveInDate |-> 0, moveOutDate |-> 1],
          [moveInDate |-> 1, moveOutDate |-> 0],
          [moveInDate |-> 0, moveOutDate |-> 2]}

OneForm == {[moveInDate |-> 0, moveOutDate |-> 1]}

Residence(a) == [application |-> a, moveInDate |-> 0, moveOutDate |-> 1]

\* Two applicants wait for one unit; another unit is let for its last day, and a
\* fourth application may be started.
RivalApplications ==
    (a1 :> Seeded("Submitted", u1, p1)) @@
    (a2 :> Seeded("Submitted", u1, p2)) @@
    (a3 :> Seeded("Approved", u2, p1))

RivalResidences ==
    (r1 :> Residence(a1)) @@ (r2 :> Residence(a2)) @@ (r3 :> Residence(a3))

RivalLeases == {Seeder!SeededLease(a3, RivalApplications[a3], 1, 5)}

\* One application returned to its applicant with a residence.
ReturnedApplication == a1 :> Seeded("Returned", u1, p1)

ReturnedResidence == r1 :> Residence(a1)

NoLeases == {}

=============================================================================
