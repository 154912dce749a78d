------------------------- MODULE ConcurrentRequests -------------------------
(***************************************************************************)
(* The same use cases as requests that run side by side.  A handler loads  *)
(* rows into its unit of work, decides, and sends what it changed in one   *)
(* SaveChanges; each query and each SaveChanges is atomic, and the tables  *)
(* carry no row versions, so nothing relates a save to the rows it was     *)
(* decided on except foreign keys, one unique index and the row counts the *)
(* data layer checks.  SaveChanges is retried when the connection fails    *)
(* (Infrastructure/DependencyInjection.cs), also when the transaction had  *)
(* in fact been committed.                                                 *)
(*                                                                         *)
(* Guards and tables are those of RentalApplicationService, whose Spec is  *)
(* what the code does when requests do not overlap.                        *)
(***************************************************************************)
EXTENDS RentalApplicationService

CONSTANTS
    Slots,        \* requests that may be in progress at the same time
    MaxRetries,   \* bound: retries of a SaveChanges (10 in the code)
    Operations,   \* the operations the run looks at
    Idle          \* a slot without a request

AllOperations ==
    {"Start", "SaveApplicantInformation", "CompleteResidenceHistory",
     "AddResidence", "UpdateResidence", "RemoveResidence", "Submit", "Withdraw",
     "Approve", "Return", "Deny", "SaveManagerNotes", "DeleteUnit"}

ASSUME RequestAssumption ==
    /\ MaxRetries \in Nat
    /\ Operations \subseteq AllOperations
    /\ IsFiniteSet(ResidenceIds)   \* an int column

VARIABLES
    requests,              \* slot -> the request in progress, or Idle
    issuedApplicationIds   \* identity values the applications table has handed out

requestVars == <<requests, issuedApplicationIds>>

allVars == <<vars, requestVars>>

----------------------------------------------------------------------------
(* The unit of work *)

NoWrites == [c \in {} |-> NoText]

NoResidences == [r \in {} |-> NoText]

\* Change tracking: of the columns a handler assigns, those whose value differs
\* from the loaded one are written.  A stamp is the time of the request and
\* differs from any earlier one.
Changes(loaded, assigned, columns, stamps) ==
    [c \in stamps \cup {d \in columns : assigned[d] # loaded[d]} |-> assigned[c]]

\* What SaveChanges will send for one application: columns to update, audit
\* entries, leases and residences to insert, residences to update or delete.
\* UpdatedAt is among the columns of every handler but SaveManagerNotes, so the row
\* must still be there; notes that have not changed send nothing, which the tables
\* cannot tell from a save that fails on a missing row.
Work(a, writes) ==
    [kind |-> "Application", application |-> a, writes |-> writes, entries |-> <<>>,
     leases |-> {}, inserted |-> {}, updated |-> NoResidences, deleted |-> {}]

\* Faulty variant: the review comment is not written.
StatusWork(a, after) ==
    [Work(a, Changes(applications[a], after, {"status"}, {}))
        EXCEPT !.entries = << after.history[Len(after.history)] >>]

\* A transition decided on the loaded row: its columns and its audit entry.
TransitionWork(a, after) ==
    [Work(a, Changes(applications[a], after, {"status", "reviewComment"}, {}))
        EXCEPT !.entries = << after.history[Len(after.history)] >>]

Insert(row) == [kind |-> "Insert", row |-> row]

Delete(unit) == [kind |-> "Delete", unit |-> unit]

Request(operation, phase, work) ==
    [operation |-> operation, phase |-> phase, work |-> work, attempts |-> 0]

\* An idle slot takes a request whose first queries have run; the tables are
\* only read.
Begin(s, operation, phase, work) ==
    /\ operation \in Operations
    /\ requests[s] = Idle
    /\ requests' = [requests EXCEPT ![s] = Request(operation, phase, work)]
    /\ UNCHANGED <<vars, issuedApplicationIds>>

InPhase(s, phase) == requests[s] # Idle /\ requests[s].phase = phase

\* A request goes on to its next query or to its SaveChanges, or it ends.
Proceed(s, phase) ==
    /\ requests' = [requests EXCEPT ![s].phase = phase]
    /\ UNCHANGED <<vars, issuedApplicationIds>>

Finish(s) == requests' = [requests EXCEPT ![s] = Idle]

Refuse(s) == Finish(s) /\ UNCHANGED <<vars, issuedApplicationIds>>

\* Model bound: enough identity values for every insert under way, retried.
Inserting == {s \in Slots : requests[s] # Idle /\
                 requests[s].operation \in {"Start", "AddResidence"}}

RoomToInsert(free) ==
    Cardinality(free) > Cardinality(Inserting) * (MaxRetries + 1) + MaxRetries

----------------------------------------------------------------------------
(* The queries of each handler, up to its SaveChanges *)

\* StartAsync: the open-application query, then the unit with its leases.
StartQuery(s, unit, applicant) ==
    /\ OpenApplications(unit, applicant) = {}
    /\ RoomToInsert(ApplicationIds \ issuedApplicationIds)
    /\ Begin(s, "Start", "OpenChecked", Insert(StartedApplication(unit, applicant)))

StartLoadUnit(s) ==
    /\ InPhase(s, "OpenChecked")
    /\ LET unit == requests[s].work.row.unit
       IN  IF unit \in units /\ IsUnitAvailableOn(LeasesOf(unit), today)
           THEN Proceed(s, "Saving")
           ELSE Refuse(s)

LoadApplicantInformation(s, a, applicant, input) ==
    /\ LoadOwnedEditable(a, applicant)
    /\ input # Incomplete
    /\ LET filled == [applications[a] EXCEPT !.information = input,
                                             !.informationCompleted = TRUE]
       IN  Begin(s, "SaveApplicantInformation", "Saving",
                 Work(a, Changes(applications[a], filled, {"information"},
                                 {"informationCompleted"})))

LoadResidenceHistory(s, a, applicant) ==
    /\ LoadOwnedEditable(a, applicant)
    /\ ResidencesOf(a) # {}
    /\ LET stamped == [applications[a] EXCEPT !.residencesCompleted = TRUE]
       IN  Begin(s, "CompleteResidenceHistory", "Saving",
                 Work(a, Changes(applications[a], stamped, {}, {"residencesCompleted"})))

LoadToAddResidence(s, a, applicant, input) ==
    /\ LoadOwnedEditable(a, applicant)
    /\ ValidResidenceDates(input)
    /\ RoomToInsert(ResidenceIds \ issuedResidenceIds)
    /\ Begin(s, "AddResidence", "Saving",
             [Work(a, NoWrites) EXCEPT !.inserted = {RowFor(a, input)}])

LoadToUpdateResidence(s, a, applicant, r, input) ==
    /\ LoadOwnedEditable(a, applicant)
    /\ ValidResidenceDates(input)
    /\ r \in ResidencesOf(a)
    /\ Begin(s, "UpdateResidence", "Saving",
             [Work(a, NoWrites) EXCEPT !.updated =
                 [q \in {r} \ {x \in {r} : residences[x] = RowFor(a, input)} |->
                     RowFor(a, input)]])

LoadToRemoveResidence(s, a, applicant, r) ==
    /\ LoadOwnedEditable(a, applicant)
    /\ r \in ResidencesOf(a)
    /\ LET emptied == [applications[a] EXCEPT !.residencesCompleted =
                          IF ResidencesOf(a) = {r} THEN FALSE ELSE @]
       IN  Begin(s, "RemoveResidence", "Saving",
                 [Work(a, Changes(applications[a], emptied, {"residencesCompleted"}, {}))
                     EXCEPT !.deleted = {r}])

LoadToSubmit(s, a, applicant) ==
    /\ OwnedBy(a, applicant)
    /\ CanSubmit(applications[a].status)
    /\ AllSectionsCompleted(applications[a])
    /\ IsUnitAvailableOn(LeasesOf(applications[a].unit), today)
    /\ AllowsTransition(applications[a], "Submitted")
    /\ HistoryBound(a)
    /\ Begin(s, "Submit", "Saving",
             TransitionWork(a, [TransitionTo(applications[a], "Submitted", applicant, NoText)
                                   EXCEPT !.reviewComment = NoText]))

LoadToWithdraw(s, a, applicant, comment) ==
    /\ OwnedBy(a, applicant)
    /\ CanWithdraw(applications[a].status)
    /\ AllowsTransition(applications[a], "Withdrawn")
    /\ HistoryBound(a)
    /\ Begin(s, "Withdraw", "Saving",
             TransitionWork(a, TransitionTo(applications[a], "Withdrawn", applicant, comment)))

LoadToApprove(s, a, manager, startDate, comment) ==
    /\ a \in DOMAIN applications
    /\ CanReview(applications[a].status)
    /\ CanIssueLease(LeasesOf(applications[a].unit), today, startDate)
    /\ AllowsTransition(applications[a], "Approved")
    /\ HistoryBound(a)
    /\ Begin(s, "Approve", "Saving",
             [TransitionWork(a, Reviewed(applications[a], "Approve", manager, comment))
                 EXCEPT !.leases = {IssuedLease(a, applications[a], startDate)}])

LoadToReject(s, a, manager, outcome, comment) ==
    /\ a \in DOMAIN applications
    /\ CanReview(applications[a].status)
    /\ ~(RequiresComment(outcome) /\ IsBlank(comment))
    /\ AllowsTransition(applications[a], ToStatus[outcome])
    /\ HistoryBound(a)
    /\ Begin(s, outcome, "Saving",
             TransitionWork(a, Reviewed(applications[a], outcome, manager, comment)))

LoadToSaveNotes(s, a, notes) ==
    /\ a \in DOMAIN applications
    /\ LET noted == [applications[a] EXCEPT !.managerNotes = Trimmed(notes)]
       IN  Begin(s, "SaveManagerNotes", "Saving",
                 Work(a, Changes(applications[a], noted, {"managerNotes"}, {})))

\* DeleteUnitAsync: the unit, then its leases, then its applications.
DeleteUnitQuery(s, unit) ==
    /\ unit \in units
    /\ Begin(s, "DeleteUnit", "UnitLoaded", Delete(unit))

\* Faulty variant: the removal waits until the unit has no lease.
DeleteAwaitsLeases(s) ==
    /\ InPhase(s, "UnitLoaded")
    /\ LeasesOf(requests[s].work.unit) = {}
    /\ Proceed(s, "LeasesChecked")

DeleteCheckLeases(s) ==
    /\ InPhase(s, "UnitLoaded")
    /\ IF LeasesOf(requests[s].work.unit) = {}
       THEN Proceed(s, "LeasesChecked")
       ELSE Refuse(s)

DeleteCheckApplications(s) ==
    /\ InPhase(s, "LeasesChecked")
    /\ IF \E a \in DOMAIN applications : applications[a].unit = requests[s].work.unit
       THEN Refuse(s)
       ELSE Proceed(s, "Saving")

----------------------------------------------------------------------------
(* SaveChanges *)

Saving(s) == InPhase(s, "Saving")

WorkOf(s) == requests[s].work

\* Faulty variant: no unique index on Leases.RentalApplicationId.
CanSaveWithoutIndex(work) ==
    /\ work.application \in DOMAIN applications
    /\ DOMAIN work.updated \cup work.deleted \subseteq DOMAIN residences

\* Every row to update or delete is still there, and no other lease has taken
\* the application (the unique index on Leases.RentalApplicationId).
CanSaveApplication(work) ==
    /\ work.application \in DOMAIN applications
    /\ DOMAIN work.updated \cup work.deleted \subseteq DOMAIN residences
    /\ \A l \in work.leases : ~ \E k \in leases : k.application = l.application

\* Faulty variant: no foreign key to the unit.
CanSaveInsertUnchecked(work) == TRUE

\* The foreign key of the new row.
CanSaveInsert(work) == work.row.unit \in units

\* Faulty variant: the leases of a unit are left behind when it is removed.
CanSaveDeleteLeased(work) == work.unit \in units

\* The unit is still there and no lease refers to it (OnDelete Restrict).
CanSaveDelete(work) == work.unit \in units /\ LeasesOf(work.unit) = {}

CanSave(work) ==
    \/ work.kind = "Application" /\ CanSaveApplication(work)
    \/ work.kind = "Insert" /\ CanSaveInsert(work)
    \/ work.kind = "Delete" /\ CanSaveDelete(work)

\* The written columns replace the present ones, whatever they are by now.
Column(work, column, present) ==
    IF column \in DOMAIN work.writes THEN work.writes[column] ELSE present

\* Faulty variant: a row whose status is not the loaded one any more is not
\* updated, which nobody notices, and its audit entry is added all the same.
SavedRowIfCurrent(row, work) ==
    IF work.entries # <<>> /\ work.entries[1].fromStatus # row.status
    THEN [row EXCEPT !.history = @ \o work.entries]
    ELSE [row EXCEPT
        !.status               = Column(work, "status", @),
        !.information          = Column(work, "information", @),
        !.informationCompleted = Column(work, "informationCompleted", @),
        !.residencesCompleted  = Column(work, "residencesCompleted", @),
        !.reviewComment        = Column(work, "reviewComment", @),
        !.managerNotes         = Column(work, "managerNotes", @),
        !.history              = @ \o work.entries]

SavedRow(row, work) ==
    [row EXCEPT
        !.status               = Column(work, "status", @),
        !.information          = Column(work, "information", @),
        !.informationCompleted = Column(work, "informationCompleted", @),
        !.residencesCompleted  = Column(work, "residencesCompleted", @),
        !.reviewComment        = Column(work, "reviewComment", @),
        !.managerNotes         = Column(work, "managerNotes", @),
        !.history              = @ \o work.entries]

SaveResidences(work) ==
    \E new \in SUBSET (ResidenceIds \ issuedResidenceIds) :
        /\ Cardinality(new) = Cardinality(work.inserted)
        /\ issuedResidenceIds' = issuedResidenceIds \cup new
        /\ residences' = [r \in new \cup (DOMAIN residences \ work.deleted) |->
              CASE r \in new                 -> CHOOSE row \in work.inserted : TRUE
                [] r \in DOMAIN work.updated -> work.updated[r]
                [] OTHER                     -> residences[r]]

SaveApplication(work) ==
    /\ work.kind = "Application"
    /\ CanSaveApplication(work)
    /\ applications' = [applications EXCEPT ![work.application] = SavedRow(@, work)]
    /\ leases' = leases \cup work.leases
    /\ SaveResidences(work)
    /\ UNCHANGED <<units, today, issuedApplicationIds>>

SaveInsert(work) ==
    /\ work.kind = "Insert"
    /\ CanSaveInsert(work)
    /\ \E a \in ApplicationIds \ issuedApplicationIds :
          /\ applications' = [b \in DOMAIN applications \cup {a} |->
                                 IF b = a THEN work.row ELSE applications[b]]
          /\ issuedApplicationIds' = issuedApplicationIds \cup {a}
    /\ UNCHANGED <<units, residences, issuedResidenceIds, leases, today>>

\* Removing a unit cascades to its applications and on to their residences and
\* their history.
SaveDelete(work) ==
    /\ work.kind = "Delete"
    /\ CanSaveDelete(work)
    /\ LET kept == {a \in DOMAIN applications : applications[a].unit # work.unit}
       IN  /\ applications' = [a \in kept |-> applications[a]]
           /\ residences' = [r \in {q \in DOMAIN residences :
                                       residences[q].application \in kept} |-> residences[r]]
    /\ units' = units \ {work.unit}
    /\ UNCHANGED <<issuedResidenceIds, leases, today, issuedApplicationIds>>

Save(work) == SaveApplication(work) \/ SaveInsert(work) \/ SaveDelete(work)

\* The transaction commits and the request ends.
Commit(s) ==
    /\ Saving(s)
    /\ Save(WorkOf(s))
    /\ Finish(s)

\* Faulty variant: retries are not counted against their limit.
CommitUnansweredAgain(s) ==
    /\ Saving(s)
    /\ Save(WorkOf(s))
    /\ requests' = [requests EXCEPT ![s].attempts = @ + 1]

\* It commits, but the connection is lost before the answer: the execution
\* strategy sends the same work again.
CommitUnanswered(s) ==
    /\ Saving(s)
    /\ requests[s].attempts < MaxRetries
    /\ Save(WorkOf(s))
    /\ requests' = [requests EXCEPT ![s].attempts = @ + 1]

\* Faulty variant: a save that cannot succeed is sent again and again.
SaveNeverFails(s) ==
    /\ Saving(s)
    /\ ~CanSave(WorkOf(s))
    /\ UNCHANGED allVars

\* A constraint is violated or a row has gone: the transaction rolls back and
\* the request fails.
SaveFails(s) ==
    /\ Saving(s)
    /\ ~CanSave(WorkOf(s))
    /\ Refuse(s)

\* The client goes away, the retries are used up or the process stops: what has
\* not been saved by now never is.
Abandon(s) ==
    /\ requests[s] # Idle
    /\ Refuse(s)

Clock == DayPasses /\ UNCHANGED requestVars

----------------------------------------------------------------------------
ConcurrentInit ==
    /\ Init
    /\ requests = [s \in Slots |-> Idle]
    /\ issuedApplicationIds = DOMAIN SeedApplications

ApplicantArrives(s, p) ==
    \/ \E u \in Units : StartQuery(s, u, p)
    \/ \E a \in ApplicationIds :
          \/ \E i \in Answers \cup {Incomplete} : LoadApplicantInformation(s, a, p, i)
          \/ LoadResidenceHistory(s, a, p)
          \/ \E input \in ResidenceInputs : LoadToAddResidence(s, a, p, input)
          \/ \E r \in ResidenceIds, input \in ResidenceInputs :
                LoadToUpdateResidence(s, a, p, r, input)
          \/ \E r \in ResidenceIds : LoadToRemoveResidence(s, a, p, r)
          \/ LoadToSubmit(s, a, p)
          \/ \E c \in Field(Comments) : LoadToWithdraw(s, a, p, c)

ManagerArrives(s, m) ==
    \/ \E a \in ApplicationIds :
          \/ \E d \in Days, c \in Field(Comments) : LoadToApprove(s, a, m, d, c)
          \/ \E o \in {"Return", "Deny"}, c \in Field(Comments) :
                LoadToReject(s, a, m, o, c)
          \/ \E n \in Field(Notes) : LoadToSaveNotes(s, a, n)
    \/ \E u \in Units : DeleteUnitQuery(s, u)

\* What the server does for a request it has taken.
Advance(s) ==
    \/ StartLoadUnit(s)
    \/ DeleteCheckLeases(s)
    \/ DeleteCheckApplications(s)
    \/ Commit(s)
    \/ SaveFails(s)

ConcurrentNext ==
    \/ \E s \in Slots :
          \/ \E p \in Applicants : ApplicantArrives(s, p)
          \/ \E m \in Managers : ManagerArrives(s, m)
          \/ Advance(s)
          \/ CommitUnanswered(s)
          \/ Abandon(s)
    \/ Clock

\* A request that has been taken is worked on: its handler runs to its end, and
\* nothing it waits for is held by another request.
Served(s) == WF_allVars(Advance(s))

Fairness == \A s \in Slots : Served(s)

ConcurrentSpec == ConcurrentInit /\ [][ConcurrentNext]_allVars /\ Fairness

----------------------------------------------------------------------------
(* Invariants that hold whatever the interleaving, the lost answers and the    *)
(* abandoned requests                                                          *)

ConcurrentTypeOK ==
    /\ TypeOK
    /\ DOMAIN applications \subseteq issuedApplicationIds
    /\ issuedApplicationIds \subseteq ApplicationIds
    /\ \A s \in Slots :
          requests[s] # Idle =>
             /\ requests[s].operation \in AllOperations
             /\ requests[s].phase \in {"OpenChecked", "UnitLoaded", "LeasesChecked", "Saving"}
             /\ requests[s].attempts \in 0..MaxRetries

\* An application never has two leases, and a lease never stands without the
\* audit entry of its approval, for the unit and the applicant of that
\* application: the unique index and the single transaction of ReviewAsync see
\* to it even when two managers approve at once or a save is sent twice.
LeaseHasItsApproval ==
    /\ \A k, l \in leases : k.application = l.application => k = l
    /\ \A l \in leases :
          /\ l.application \in DOMAIN applications
          /\ l.unit = applications[l.application].unit
          /\ l.tenant = applications[l.application].applicant
          /\ \E i \in 1..Len(applications[l.application].history) :
                applications[l.application].history[i].toStatus = "Approved"

\* Each entry of the trail is a step the state machine allows, made by someone
\* entitled to it, and the last one names the present status, although two
\* entries may both start from a status that only one of them found
\* (RentalApplication.TransitionTo).
EntriesAreLegal ==
    \A a \in DOMAIN applications :
        LET history == applications[a].history
        IN  /\ IsAttributed(applications[a])
            /\ history[1].fromStatus = NoStatus
            /\ \A i \in 2..Len(history) :
                  CanTransition(history[i].fromStatus, history[i].toStatus)
            /\ history[Len(history)].toStatus = applications[a].status

\* A lease is never lost, nor the application it was issued for, although units
\* are removed while approvals are being saved (the Restrict foreign keys).
LeaseStays ==
    /\ leases \subseteq leases'
    /\ \A l \in leases : l.application \in DOMAIN applications'

LeasesStay == [][LeaseStays]_allVars

\* Every request that has been taken is answered or abandoned: whatever the
\* others do to its rows, its save commits or fails.
RequestsEnd ==
    \A s \in Slots : requests[s] # Idle ~> requests[s] = Idle

\* With one slot the requests cannot overlap, and the split into queries and
\* SaveChanges implements the atomic use cases.
ActsAtomically == Spec

\* An application that has been decided or withdrawn keeps its status.
TerminalStatusStays ==
    [][\A a \in DOMAIN applications :
          IsTerminal(applications[a].status) =>
             /\ a \in DOMAIN applications'
             /\ applications'[a].status = applications[a].status]_allVars

\* A unit is removed only when no application and no lease refers to it.
RemovalIsBlocked ==
    [][\A u \in units \ units' :
          /\ LeasesOf(u) = {}
          /\ \A a \in DOMAIN applications : applications[a].unit # u]_allVars

=============================================================================
