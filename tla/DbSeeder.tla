------------------------------ MODULE DbSeeder ------------------------------
(***************************************************************************)
(* The applications the seeder inserts                                     *)
(* (PropertyManagement.Infrastructure/Seeding/DbSeeder.cs): each one is    *)
(* built by the domain's own operations, and they are inserted together.   *)
(***************************************************************************)
EXTENDS RentalApplication

\* One row of the plan.  A draft has its first section completed and may have
\* residences; every other application has both sections.
\* TransitionTo throws at none of its steps: each is one AllowsTransition allows.
SeededApplication(status, unit, applicant, manager, answers, comment) ==
    LET started   == [StartedApplication(unit, applicant) EXCEPT
                         !.information = answers,
                         !.informationCompleted = TRUE,
                         !.residencesCompleted = (status # "Draft")]
        submitted == TransitionTo(started, "Submitted", applicant, NoText)
    IN  CASE status = "Draft"     -> started
          [] status = "Submitted" -> submitted
          [] status = "Returned"  -> Reviewed(submitted, "Return", manager, comment)
          [] status = "Denied"    -> Reviewed(submitted, "Deny", manager, comment)
          [] status = "Approved"  -> Reviewed(submitted, "Approve", manager, comment)
          [] status = "Withdrawn" -> TransitionTo(submitted, "Withdrawn", applicant, comment)

\* The lease of an approved one: it started ten months ago at most, and is
\* active, or fourteen months ago, and has expired.
SeededLease(a, row, today, monthsAgo) ==
    IssuedLease(a, row, AddMonths(today, -monthsAgo))

\* The plan: every status is there, Approved with two active leases and an
\* expired one.
Plan ==
    << [status |-> "Draft",     active |-> FALSE],
       [status |-> "Draft",     active |-> FALSE],
       [status |-> "Submitted", active |-> FALSE],
       [status |-> "Submitted", active |-> FALSE],
       [status |-> "Returned",  active |-> FALSE],
       [status |-> "Approved",  active |-> TRUE],
       [status |-> "Approved",  active |-> TRUE],
       [status |-> "Approved",  active |-> FALSE],
       [status |-> "Denied",    active |-> FALSE],
       [status |-> "Withdrawn", active |-> FALSE] >>

=============================================================================
