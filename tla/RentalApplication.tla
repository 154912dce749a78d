------------------------- MODULE RentalApplication -------------------------
(***************************************************************************)
(* The rows of the rental-application tables and the domain operations on  *)
(* them (PropertyManagement.Domain/Entities): how an application starts,   *)
(* how it changes status and leaves its audit entry, and how a lease is    *)
(* issued.  Rows carry the columns the rules read or write; timestamps,    *)
(* rents and the wording of names and addresses are left out.              *)
(***************************************************************************)
EXTENDS ApplicationWorkflow, LeaseRules, Sequences

CONSTANTS
    Units,            \* ids of rental units
    Applicants,       \* ids of users in the Applicant role
    Managers,         \* ids of users in the PropertyManager role
    ApplicationIds,   \* ids the applications table may hand out
    ResidenceIds,     \* ids the residences table may hand out
    Profile,          \* the details copied from a user's profile (no address)
    Answers,          \* complete applicant-information sections
    Comments,         \* texts of review and withdrawal comments
    Notes,            \* texts of managers' notes
    StartedComment,   \* "Application started."
    NoText,           \* a null text column or form field
    Blank             \* a form field that holds only white space

ASSUME DistinctValues ==
    /\ Applicants \cap Managers = {}
    /\ NoText \notin Comments \cup Notes \cup {StartedComment}
    /\ Blank \notin Comments \cup Notes \cup {StartedComment, NoText}
    /\ Profile \notin Answers

Users == Applicants \cup Managers

IsBlank(text) == text \in {NoText, Blank}

\* Faulty variant: white space is stored as it was typed.
KeptAsTyped(text) == text

\* Texts are trimmed before they are stored, and a blank one is stored as null.
Trimmed(text) == IF IsBlank(text) THEN NoText ELSE text

HistoryRow ==
    [fromStatus : ApplicationStatus \cup {NoStatus},
     toStatus   : ApplicationStatus,
     changedBy  : Users,
     comment    : Comments \cup {StartedComment, NoText}]

ApplicationRow ==
    [unit                 : Units,
     applicant            : Applicants,
     status               : ApplicationStatus,
     information          : Answers \cup {Profile},
     informationCompleted : BOOLEAN,   \* ApplicantInformationCompletedAt is set
     residencesCompleted  : BOOLEAN,   \* ResidenceHistoryCompletedAt is set
     reviewComment        : Comments \cup {NoText},
     managerNotes         : Notes \cup {NoText},
     history              : Seq(HistoryRow)]

ResidenceRow ==
    [application : ApplicationIds, moveInDate : Days, moveOutDate : Days]

LeaseRow ==
    [application : ApplicationIds, unit : Units, tenant : Applicants,
     startDate : Days, endDate : Int]

----------------------------------------------------------------------------
(* RentalApplication *)

\* A draft for the unit, its details copied from the applicant's profile.
StartedApplication(unit, applicant) ==
    [unit                 |-> unit,
     applicant            |-> applicant,
     status               |-> "Draft",
     information          |-> Profile,
     informationCompleted |-> FALSE,
     residencesCompleted  |-> FALSE,
     reviewComment        |-> NoText,
     managerNotes         |-> NoText,
     history              |-> << [fromStatus |-> NoStatus, toStatus |-> "Draft",
                                  changedBy |-> applicant,
                                  comment |-> StartedComment] >>]

AllSectionsCompleted(row) == row.informationCompleted /\ row.residencesCompleted

IsOwnedBy(row, applicant) == row.applicant = applicant

\* The aggregate's own guard, whatever the handler has checked before.
AllowsTransition(row, to) == CanTransition(row.status, to)

\* TransitionTo: the new status and its audit entry, always together.  It throws
\* unless AllowsTransition(row, to), which is a guard of every action that calls it.
TransitionTo(row, to, user, comment) ==
    [row EXCEPT
        !.status  = to,
        !.history = Append(@, [fromStatus |-> row.status, toStatus |-> to,
                               changedBy |-> user, comment |-> Trimmed(comment)])]

\* IssueLease: the lease that goes with an approval.  The caller has the guard
\* CanIssueLease.
CanIssueLease(unitLeases, today, startDate) ==
    ~ConflictsWithExisting(unitLeases, today, startDate)

IssuedLease(application, row, start) ==
    [application |-> application, unit |-> row.unit, tenant |-> row.applicant,
     startDate |-> start, endDate |-> EndDateFor(start)]

\* ReviewAsync's last part: the transition, and the comment kept for the applicant.
Reviewed(row, outcome, manager, comment) ==
    [TransitionTo(row, ToStatus[outcome], manager, comment)
        EXCEPT !.reviewComment = Trimmed(comment)]

----------------------------------------------------------------------------
(* What a consistent database looks like: predicates on tables *)

\* Consecutive audit entries are steps of the state machine, each begins where
\* the one before ended, the first is the start and the last is the present.
IsAuditTrail(row) ==
    /\ Len(row.history) >= 1
    /\ row.history[1].fromStatus = NoStatus
    /\ row.history[1].toStatus = "Draft"
    /\ row.history[Len(row.history)].toStatus = row.status
    /\ \A i \in 2..Len(row.history) :
          /\ row.history[i].fromStatus = row.history[i-1].toStatus
          /\ CanTransition(row.history[i].fromStatus, row.history[i].toStatus)

\* Reviews are made by managers, every other step by the owner, and an outcome
\* that requires a comment has one.
IsAttributed(row) ==
    \A i \in 1..Len(row.history) :
        LET entry == row.history[i]
        IN  IF entry.toStatus \in {"Approved", "Returned", "Denied"}
            THEN /\ entry.changedBy \in Managers
                 /\ entry.toStatus # "Approved" => entry.comment \in Comments
            ELSE entry.changedBy = row.applicant

\* The entry that decides which review comment the applicant sees: the last
\* one, except that withdrawing leaves the comment as it was.
FeedbackEntry(row) ==
    LET n == Len(row.history)
    IN  IF row.status = "Withdrawn" THEN row.history[n-1] ELSE row.history[n]

ShowsCurrentFeedback(row) ==
    row.reviewComment = IF FeedbackEntry(row).toStatus \in {"Approved", "Returned", "Denied"}
                        THEN FeedbackEntry(row).comment
                        ELSE NoText

\* A section stamped as completed is complete.
StampedSectionsHold(row, rowResidences) ==
    /\ row.informationCompleted => row.information \in Answers
    /\ row.residencesCompleted => rowResidences # {}

\* The terms of two leases of a unit share no day.
TermsDisjoint(k, l) == k.endDate < l.startDate \/ l.endDate < k.startDate

\* The rows of a table of residences that belong to an application.
ResidencesIn(table, a) == {r \in DOMAIN table : table[r].application = a}

\* Leases and approved applications belong together, one to one.
LeasesMatch(apps, leaseRows) ==
    /\ \A l \in leaseRows :
          /\ l.application \in DOMAIN apps
          /\ apps[l.application].status = "Approved"
          /\ l.unit = apps[l.application].unit
          /\ l.tenant = apps[l.application].applicant
          /\ l.endDate = EndDateFor(l.startDate)
    /\ \A a \in DOMAIN apps :
          apps[a].status = "Approved" => \E l \in leaseRows : l.application = a
    /\ \A k, l \in leaseRows : k.application = l.application => k = l

\* An applicant has one open application for a unit at most.
NoTwoOpen(apps) ==
    \A a, b \in DOMAIN apps :
        /\ apps[a].unit = apps[b].unit
        /\ apps[a].applicant = apps[b].applicant
        /\ apps[a].status \in OpenStatuses
        /\ apps[b].status \in OpenStatuses
        => a = b

\* Stamps say the truth, and what has been submitted is stamped.
SectionsHold(apps, table) ==
    \A a \in DOMAIN apps :
        /\ StampedSectionsHold(apps[a], ResidencesIn(table, a))
        /\ apps[a].status \in {"Submitted", "Approved", "Denied"}
              => AllSectionsCompleted(apps[a])

=============================================================================
