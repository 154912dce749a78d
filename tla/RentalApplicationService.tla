---------------------- MODULE RentalApplicationService ----------------------
(***************************************************************************)
(* The use cases of the rental-application lifecycle                       *)
(* (PropertyManagement.Application/Applications/RentalApplicationService), *)
(* with the removal of a unit (CatalogService.DeleteUnitAsync), as atomic  *)
(* operations on the database: what the system does when requests are      *)
(* served one at a time.  A request the code rejects changes nothing and   *)
(* is a disabled action here.  ConcurrentRequests splits the operations    *)
(* into their queries and their SaveChanges.                               *)
(***************************************************************************)
EXTENDS RentalApplication, FiniteSets

CONSTANTS
    Incomplete,          \* an applicant-information form with a blank field
    ResidenceInputs,     \* residence forms: [moveInDate, moveOutDate]
    SeedApplications,    \* the tables as the seeder leaves them:
    SeedResidences,      \*   functions from ids to rows,
    SeedLeases,          \*   and a set of lease rows
    FirstDay,            \* the date at which the model starts
    MaxHistory           \* bound: audit entries per application

VARIABLES
    units,               \* the units that exist
    applications,        \* application id -> row
    residences,          \* residence id -> row
    issuedResidenceIds,  \* identity values the residences table has handed out
    leases,              \* rows of the leases table
    today                \* the server's local date

vars == <<units, applications, residences, issuedResidenceIds, leases, today>>

LeasesOf(unit) == {l \in leases : l.unit = unit}

ResidencesOf(a) == ResidencesIn(residences, a)

\* The database the web application starts with; each part is an invariant below.
ASSUME SeedAssumption ==
    /\ FirstDay \in Days
    /\ MaxHistory \in Nat
    /\ ResidenceInputs \subseteq [moveInDate : Days, moveOutDate : Days]
    /\ Incomplete \notin Answers
    /\ DOMAIN SeedApplications \subseteq ApplicationIds
    /\ SeedApplications \in [DOMAIN SeedApplications -> ApplicationRow]
    /\ DOMAIN SeedResidences \subseteq ResidenceIds
    /\ SeedResidences \in [DOMAIN SeedResidences -> ResidenceRow]
    /\ SeedLeases \subseteq LeaseRow
    /\ LeasesMatch(SeedApplications, SeedLeases)
    /\ NoTwoOpen(SeedApplications)
    /\ SectionsHold(SeedApplications, SeedResidences)
    /\ \A a \in DOMAIN SeedApplications :
          /\ IsAuditTrail(SeedApplications[a])
          /\ IsAttributed(SeedApplications[a])
          /\ ShowsCurrentFeedback(SeedApplications[a])
    /\ \A r \in DOMAIN SeedResidences :
          SeedResidences[r].application \in DOMAIN SeedApplications
    /\ \A k, l \in SeedLeases : k.unit = l.unit /\ k # l => TermsDisjoint(k, l)

Init ==
    /\ units = Units
    /\ applications = SeedApplications
    /\ residences = SeedResidences
    /\ issuedResidenceIds = DOMAIN SeedResidences
    /\ leases = SeedLeases
    /\ today = FirstDay

----------------------------------------------------------------------------
(* Guards shared by the handlers *)

OwnedBy(a, applicant) ==
    a \in DOMAIN applications /\ IsOwnedBy(applications[a], applicant)

\* Faulty variant: what is under review may still be edited.
LoadOwnedUndecided(a, applicant) ==
    OwnedBy(a, applicant) /\ applications[a].status \in OpenStatuses

\* LoadOwnedEditableAsync: exists, owned by the caller, Draft or Returned.
LoadOwnedEditable(a, applicant) ==
    OwnedBy(a, applicant) /\ IsEditable(applications[a].status)

\* ValidateResidenceDates
ValidResidenceDates(input) ==
    input.moveInDate < input.moveOutDate /\ input.moveOutDate <= today

RowFor(a, input) ==
    [application |-> a, moveInDate |-> input.moveInDate,
     moveOutDate |-> input.moveOutDate]

\* Faulty variant: only drafts count as open.
DraftApplications(unit, applicant) ==
    {a \in DOMAIN applications :
        /\ applications[a].unit = unit
        /\ applications[a].applicant = applicant
        /\ applications[a].status = "Draft"}

\* The query StartAsync opens with: the applicant's open applications for the unit.
OpenApplications(unit, applicant) ==
    {a \in DOMAIN applications :
        /\ applications[a].unit = unit
        /\ applications[a].applicant = applicant
        /\ applications[a].status \in OpenStatuses}

\* Model bound: the audit trail has room for one more entry.
HistoryBound(a) == Len(applications[a].history) < MaxHistory

----------------------------------------------------------------------------
(* What an applicant does *)

\* An open application is returned as it is; otherwise the unit must exist and
\* be free today.
Start(unit, applicant) ==
    /\ OpenApplications(unit, applicant) = {}
    /\ unit \in units
    /\ IsUnitAvailableOn(LeasesOf(unit), today)
    /\ \E a \in ApplicationIds \ DOMAIN applications :
          applications' = [b \in DOMAIN applications \cup {a} |->
                              IF b = a THEN StartedApplication(unit, applicant)
                                       ELSE applications[b]]
    /\ UNCHANGED <<units, residences, issuedResidenceIds, leases, today>>

SaveApplicantInformation(a, applicant, input) ==
    /\ LoadOwnedEditable(a, applicant)
    /\ input # Incomplete
    /\ applications' = [applications EXCEPT ![a].information = input,
                                            ![a].informationCompleted = TRUE]
    /\ UNCHANGED <<units, residences, issuedResidenceIds, leases, today>>

CompleteResidenceHistory(a, applicant) ==
    /\ LoadOwnedEditable(a, applicant)
    /\ ResidencesOf(a) # {}
    /\ applications' = [applications EXCEPT ![a].residencesCompleted = TRUE]
    /\ UNCHANGED <<units, residences, issuedResidenceIds, leases, today>>

AddResidence(a, applicant, input) ==
    /\ LoadOwnedEditable(a, applicant)
    /\ ValidResidenceDates(input)
    /\ \E r \in ResidenceIds \ issuedResidenceIds :
          /\ residences' = [s \in DOMAIN residences \cup {r} |->
                               IF s = r THEN RowFor(a, input) ELSE residences[s]]
          /\ issuedResidenceIds' = issuedResidenceIds \cup {r}
    /\ UNCHANGED <<units, applications, leases, today>>

UpdateResidence(a, applicant, r, input) ==
    /\ LoadOwnedEditable(a, applicant)
    /\ ValidResidenceDates(input)
    /\ r \in ResidencesOf(a)
    /\ residences' = [residences EXCEPT ![r] = RowFor(a, input)]
    /\ UNCHANGED <<units, applications, issuedResidenceIds, leases, today>>

\* Faulty variant: the stamp on the section stays.
RemoveResidenceOnly(a, applicant, r) ==
    /\ LoadOwnedEditable(a, applicant)
    /\ r \in ResidencesOf(a)
    /\ residences' = [s \in DOMAIN residences \ {r} |-> residences[s]]
    /\ UNCHANGED <<units, applications, issuedResidenceIds, leases, today>>

\* Removing the last residence withdraws the stamp on the section.
RemoveResidence(a, applicant, r) ==
    /\ LoadOwnedEditable(a, applicant)
    /\ r \in ResidencesOf(a)
    /\ residences' = [s \in DOMAIN residences \ {r} |-> residences[s]]
    /\ applications' = [applications EXCEPT ![a].residencesCompleted =
                            IF ResidencesOf(a) = {r} THEN FALSE ELSE @]
    /\ UNCHANGED <<units, issuedResidenceIds, leases, today>>

\* Faulty variant: the comment of the last review stays on display.
SubmitKeepingComment(a, applicant) ==
    /\ OwnedBy(a, applicant)
    /\ CanSubmit(applications[a].status)
    /\ AllSectionsCompleted(applications[a])
    /\ IsUnitAvailableOn(LeasesOf(applications[a].unit), today)
    /\ AllowsTransition(applications[a], "Submitted")
    /\ HistoryBound(a)
    /\ applications' = [applications EXCEPT ![a] =
                            TransitionTo(@, "Submitted", applicant, NoText)]
    /\ UNCHANGED <<units, residences, issuedResidenceIds, leases, today>>

Submit(a, applicant) ==
    /\ OwnedBy(a, applicant)
    /\ CanSubmit(applications[a].status)
    /\ AllSectionsCompleted(applications[a])
    /\ IsUnitAvailableOn(LeasesOf(applications[a].unit), today)
    /\ AllowsTransition(applications[a], "Submitted")
    /\ HistoryBound(a)
    /\ applications' = [applications EXCEPT ![a] =
           [TransitionTo(@, "Submitted", applicant, NoText)
               EXCEPT !.reviewComment = NoText]]
    /\ UNCHANGED <<units, residences, issuedResidenceIds, leases, today>>

\* Faulty variant: the status changes without an audit entry.
WithdrawUnrecorded(a, applicant, comment) ==
    /\ OwnedBy(a, applicant)
    /\ CanWithdraw(applications[a].status)
    /\ applications' = [applications EXCEPT ![a].status = "Withdrawn"]
    /\ UNCHANGED <<units, residences, issuedResidenceIds, leases, today>>

Withdraw(a, applicant, comment) ==
    /\ OwnedBy(a, applicant)
    /\ CanWithdraw(applications[a].status)
    /\ AllowsTransition(applications[a], "Withdrawn")
    /\ HistoryBound(a)
    /\ applications' = [applications EXCEPT ![a] =
                            TransitionTo(@, "Withdrawn", applicant, comment)]
    /\ UNCHANGED <<units, residences, issuedResidenceIds, leases, today>>

----------------------------------------------------------------------------
(* What a manager does *)

\* Faulty variant: the lease is issued and not saved.
ApproveUnleased(a, manager, startDate, comment) ==
    /\ a \in DOMAIN applications
    /\ CanReview(applications[a].status)
    /\ CanIssueLease(LeasesOf(applications[a].unit), today, startDate)
    /\ AllowsTransition(applications[a], "Approved")
    /\ HistoryBound(a)
    /\ applications' = [applications EXCEPT ![a] =
                            Reviewed(@, "Approve", manager, comment)]
    /\ UNCHANGED <<units, residences, issuedResidenceIds, leases, today>>

\* ReviewAsync with the outcome Approve: the lease and the transition, saved
\* together.
Approve(a, manager, startDate, comment) ==
    /\ a \in DOMAIN applications
    /\ CanReview(applications[a].status)
    /\ CanIssueLease(LeasesOf(applications[a].unit), today, startDate)
    /\ AllowsTransition(applications[a], "Approved")
    /\ HistoryBound(a)
    /\ leases' = leases \cup {IssuedLease(a, applications[a], startDate)}
    /\ applications' = [applications EXCEPT ![a] =
                            Reviewed(@, "Approve", manager, comment)]
    /\ UNCHANGED <<units, residences, issuedResidenceIds, today>>

\* ReviewAsync with the outcomes Return and Deny.
Reject(a, manager, outcome, comment) ==
    /\ a \in DOMAIN applications
    /\ CanReview(applications[a].status)
    /\ ~(RequiresComment(outcome) /\ IsBlank(comment))
    /\ AllowsTransition(applications[a], ToStatus[outcome])
    /\ HistoryBound(a)
    /\ applications' = [applications EXCEPT ![a] =
                            Reviewed(@, outcome, manager, comment)]
    /\ UNCHANGED <<units, residences, issuedResidenceIds, leases, today>>

SaveManagerNotes(a, notes) ==
    /\ a \in DOMAIN applications
    /\ applications' = [applications EXCEPT ![a].managerNotes = Trimmed(notes)]
    /\ UNCHANGED <<units, residences, issuedResidenceIds, leases, today>>

\* CatalogService.DeleteUnitAsync: refused while a lease or an application
\* refers to the unit.
DeleteUnit(unit) ==
    /\ unit \in units
    /\ LeasesOf(unit) = {}
    /\ ~ \E a \in DOMAIN applications : applications[a].unit = unit
    /\ units' = units \ {unit}
    /\ UNCHANGED <<applications, residences, issuedResidenceIds, leases, today>>

\* The date on which the server's clock stands; Days bounds it.
DayPasses ==
    /\ today + 1 \in Days
    /\ today' = today + 1
    /\ UNCHANGED <<units, applications, residences, issuedResidenceIds, leases>>

----------------------------------------------------------------------------
\* What a form's text field may hold.
Field(texts) == texts \cup {NoText, Blank}

ApplicantRequest(p) ==
    \/ \E u \in Units : Start(u, p)
    \/ \E a \in ApplicationIds :
          \/ \E i \in Answers \cup {Incomplete} : SaveApplicantInformation(a, p, i)
          \/ CompleteResidenceHistory(a, p)
          \/ \E input \in ResidenceInputs : AddResidence(a, p, input)
          \/ \E r \in ResidenceIds, input \in ResidenceInputs :
                UpdateResidence(a, p, r, input)
          \/ \E r \in ResidenceIds : RemoveResidence(a, p, r)
          \/ Submit(a, p)
          \/ \E c \in Field(Comments) : Withdraw(a, p, c)

ManagerRequest(m) ==
    \E a \in ApplicationIds :
        \/ \E d \in Days, c \in Field(Comments) : Approve(a, m, d, c)
        \/ \E o \in {"Return", "Deny"}, c \in Field(Comments) : Reject(a, m, o, c)
        \/ \E n \in Field(Notes) : SaveManagerNotes(a, n)

Next ==
    \/ \E p \in Applicants : ApplicantRequest(p)
    \/ \E m \in Managers : ManagerRequest(m)
    \/ \E u \in Units : DeleteUnit(u)
    \/ DayPasses

Spec == Init /\ [][Next]_vars

----------------------------------------------------------------------------
(* Invariants *)

\* The tables hold rows of their types.
TypeOK ==
    /\ units \subseteq Units
    /\ DOMAIN applications \subseteq ApplicationIds
    /\ applications \in [DOMAIN applications -> ApplicationRow]
    /\ DOMAIN residences \subseteq issuedResidenceIds
    /\ issuedResidenceIds \subseteq ResidenceIds
    /\ residences \in [DOMAIN residences -> ResidenceRow]
    /\ leases \subseteq LeaseRow
    /\ today \in Days

\* No day of a unit is let twice: the terms of two leases of one unit share no
\* day, whatever the order of approvals, future start dates and withdrawals
\* (RentalApplication.IssueLease, LeaseRules.ConflictsWithExisting).
NoDoubleLetting ==
    \A k, l \in leases : k.unit = l.unit /\ k # l => TermsDisjoint(k, l)

\* An application is Approved exactly when it has a lease; it has one, for the
\* unit and the applicant of the application and for a full term
\* (ReviewAsync saves both together).
ApprovedIffLeased == LeasesMatch(applications, leases)

\* The history of an application is a path of the state machine from its start
\* to its present status, and each step was made by someone entitled to it, with
\* the comment the outcome requires (RentalApplication.TransitionTo).
AuditTrail ==
    \A a \in DOMAIN applications :
        IsAuditTrail(applications[a]) /\ IsAttributed(applications[a])

\* An applicant has at most one open application for a unit (StartAsync).
OneOpenApplication == NoTwoOpen(applications)

\* A section stamped as completed holds what it needs, and whatever has been
\* submitted had both sections stamped: removing the last residence of a
\* returned application must take the stamp back before it is submitted again
\* (RemoveResidenceAsync, SubmitAsync).
SectionsComplete == SectionsHold(applications, residences)

\* The comment shown to the applicant is the one of the review in force: it
\* appears with the review, goes when the application is submitted again and
\* stays when it is withdrawn (ReviewAsync, SubmitAsync, WithdrawAsync).
FeedbackIsCurrent ==
    \A a \in DOMAIN applications : ShowsCurrentFeedback(applications[a])

\* No row refers to a row that is gone: units with applications or leases are
\* not removed (CatalogService.DeleteUnitAsync), residences belong to an
\* application.
ReferencesHold ==
    /\ \A a \in DOMAIN applications : applications[a].unit \in units
    /\ \A r \in DOMAIN residences : residences[r].application \in DOMAIN applications
    /\ \A l \in leases : l.unit \in units

----------------------------------------------------------------------------
(* Action properties *)

\* What an applicant submitted is what the manager reviews, and what was decided
\* stays on record: unless the application is Draft or Returned, no step changes
\* its information, its stamps or its residences (LoadOwnedEditableAsync).
ContentFrozen ==
    \A a \in DOMAIN applications :
        ~IsEditable(applications[a].status) =>
            /\ applications'[a].information = applications[a].information
            /\ applications'[a].informationCompleted = applications[a].informationCompleted
            /\ applications'[a].residencesCompleted = applications[a].residencesCompleted
            /\ ResidencesIn(residences', a) = ResidencesOf(a)
            /\ \A r \in ResidencesOf(a) : residences'[r] = residences[r]

SubmittedContentIsFrozen == [][ContentFrozen]_vars

\* A decision is final: a terminal application keeps its status, its history and
\* the comment shown with it, and its lease stays (ApplicationWorkflow.Transitions).
DecisionFinal ==
    /\ leases \subseteq leases'
    /\ \A a \in DOMAIN applications :
          /\ a \in DOMAIN applications'
          /\ IsTerminal(applications[a].status) =>
                /\ applications'[a].status = applications[a].status
                /\ applications'[a].history = applications[a].history
                /\ applications'[a].reviewComment = applications[a].reviewComment

DecisionsAreFinal == [][DecisionFinal]_vars

\* The audit trail only grows, by the entry of one transition at a time, and an
\* application changes hands or units in no step.
TrailGrows ==
    \A a \in DOMAIN applications :
        LET before == applications[a]
            after  == applications'[a]
        IN  /\ after.unit = before.unit
            /\ after.applicant = before.applicant
            /\ \/ after.history = before.history /\ after.status = before.status
               \/ \E e \in HistoryRow : /\ after.history = Append(before.history, e)
                                        /\ e.fromStatus = before.status
                                        /\ e.toStatus = after.status

TrailOnlyGrows == [][TrailGrows]_vars

----------------------------------------------------------------------------
(* What the leases mean to the owner of a unit *)

LetDays ==
    UNION {{[unit |-> l.unit, day |-> d, tenant |-> l.tenant] :
               d \in l.startDate..l.endDate} : l \in leases}

Occupied == INSTANCE UnitOccupancy WITH
    Tenants   <- Applicants,
    Dates     <- Days \cup {EndDateFor(d) : d \in Days},
    occupancy <- LetDays

\* The lifecycle keeps the promise of UnitOccupancy: every approval lets free
\* days of the unit to one tenant, and no other step touches the calendar.
KeepsOccupancy == Occupied!Spec

=============================================================================
