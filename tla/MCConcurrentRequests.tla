------------------------ MODULE MCConcurrentRequests ------------------------
(***************************************************************************)
(* Small instances of ConcurrentRequests for TLC: two requests at a time,  *)
(* each over one group of operations that share rows.                      *)
(***************************************************************************)
EXTENDS ConcurrentRequests, TLC

CONSTANTS p1, p2, m1, u1, u2, a1, a2, a3, a4, r1, r2, r3, i1, i2, c1, n1, s1, s2

\* Six months to a model day.
HalfYears(d, n) == d + (n \div 6)

\* Yesterday and today.
OneDay == 0..1

\* Yesterday, today and tomorrow.
TwoDays == 0..2

Seeder == INSTANCE DbSeeder WITH AddMonths <- HalfYears

Seeded(status, unit, applicant) ==
    Seeder!SeededApplication(status, unit, applicant, m1, i1, c1)

Forms == {[moveInDate |-> 0, moveOutDate |-> 1]}

TwoForms == Forms \cup {[moveInDate |-> 1, moveOutDate |-> 2]}

Residence(a) == [application |-> a, moveInDate |-> 0, moveOutDate |-> 1]

\* One application under review.
OneSubmitted == a1 :> Seeded("Submitted", u1, p1)

\* One application sent back to its applicant.
OneReturned == a1 :> Seeded("Returned", u1, p1)

OneResidence == r1 :> Residence(a1)

\* Two applicants wait for the same unit.
TwoSubmitted == (a1 :> Seeded("Submitted", u1, p1)) @@ (a2 :> Seeded("Submitted", u1, p2))

TwoResidences == (r1 :> Residence(a1)) @@ (r2 :> Residence(a2))

\* A unit nobody has applied for.
NoApplications == [x \in {} |-> Seeded("Draft", u1, p1)]

NoneResiding == [x \in {} |-> Residence(a1)]

NoLeases == {}

=============================================================================
