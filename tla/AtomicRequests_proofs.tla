------------------------ MODULE AtomicRequests_proofs ------------------------
(***************************************************************************)
(* Requests that overlap are atomic: the handlers with their queries and   *)
(* saves (ConcurrentRequests) implement the use cases as single steps      *)
(* (RentalApplicationService), as long as no two requests under way are in *)
(* each other's way, only saves that may be repeated are sent again, and   *)
(* the date does not change beside work that needs a unit free.            *)
(***************************************************************************)
EXTENDS ConcurrentRequests_proofs

----------------------------------------------------------------------------
(* What a save makes of a row *)

\* The columns a handler may assign.
Columns == {"status", "information", "informationCompleted", "residencesCompleted",
            "reviewComment", "managerNotes"}

OthersStay(row, after, assigned) == \A c \in Columns \ assigned : after[c] = row[c]

\* A handler assigns columns of the row it has loaded, and what it writes makes
\* the row in the table the row it has decided on.
LEMMA SavedAs ==
    ASSUME NEW row \in ApplicationRow, NEW after \in ApplicationRow,
           NEW work, NEW columns, NEW stamps,
           work.writes = Changes(row, after, columns, stamps),
           after.history = row.history \o work.entries,
           after.unit = row.unit, after.applicant = row.applicant,
           OthersStay(row, after, columns \cup stamps)
    PROVE  SavedRow(row, work) = after
<1>1. /\ \A d : d \in DOMAIN work.writes <=> d \in stamps \/ (d \in columns /\ after[d] # row[d])
      /\ \A d \in DOMAIN work.writes : work.writes[d] = after[d]
  BY ChangesWritten
<1>2. \A c \in Columns : Column(work, c, row[c]) = after[c]
  BY <1>1 DEF Column, OthersStay
<1>3. /\ Column(work, "status", row.status) = after.status
      /\ Column(work, "information", row.information) = after.information
      /\ Column(work, "informationCompleted", row.informationCompleted)
            = after.informationCompleted
      /\ Column(work, "residencesCompleted", row.residencesCompleted)
            = after.residencesCompleted
      /\ Column(work, "reviewComment", row.reviewComment) = after.reviewComment
      /\ Column(work, "managerNotes", row.managerNotes) = after.managerNotes
  <2> "status" \in Columns /\ "information" \in Columns /\ "informationCompleted" \in Columns
      /\ "residencesCompleted" \in Columns /\ "reviewComment" \in Columns
      /\ "managerNotes" \in Columns
    BY DEF Columns
  <2>1. /\ Column(work, "status", row["status"]) = after["status"]
        /\ Column(work, "information", row["information"]) = after["information"]
    BY <1>2, Zenon
  <2>2. /\ Column(work, "informationCompleted", row["informationCompleted"])
              = after["informationCompleted"]
        /\ Column(work, "residencesCompleted", row["residencesCompleted"])
              = after["residencesCompleted"]
    BY <1>2, Zenon
  <2>3. /\ Column(work, "reviewComment", row["reviewComment"]) = after["reviewComment"]
        /\ Column(work, "managerNotes", row["managerNotes"]) = after["managerNotes"]
    BY <1>2, Zenon
  <2> QED
    BY <2>1, <2>2, <2>3, Zenon
<1>4. SavedRow(row, work) =
        [row EXCEPT
            !.status               = after.status,
            !.information          = after.information,
            !.informationCompleted = after.informationCompleted,
            !.residencesCompleted  = after.residencesCompleted,
            !.reviewComment        = after.reviewComment,
            !.managerNotes         = after.managerNotes,
            !.history              = after.history]
  BY <1>3 DEF SavedRow, ApplicationRow
<1> QED
  BY <1>4 DEF ApplicationRow

----------------------------------------------------------------------------
(* What a request in progress has decided, and is still true *)

\* The columns of the information section, and those of a decision about the status.
InformationColumns == {"information", "informationCompleted"}

DecisionColumns == {"status", "reviewComment"}

\* The work writes none but these.
Writes(work, columns) == DOMAIN work.writes \subseteq columns

\* The use cases that change one row of the applications table and make it
\* `after': what each has found and decided, and the columns it writes.
InformationDecided(work, a, after) ==
    \E p \in Applicants, i \in Answers :
        /\ Writes(work, InformationColumns)
        /\ LoadOwnedEditable(a, p)
        /\ after = [applications[a] EXCEPT !.information = i,
                                           !.informationCompleted = TRUE]

HistoryDecided(work, a, after) ==
    \E p \in Applicants :
        /\ Writes(work, {"residencesCompleted"})
        /\ LoadOwnedEditable(a, p)
        /\ ResidencesOf(a) # {}
        /\ after = [applications[a] EXCEPT !.residencesCompleted = TRUE]

SubmissionDecided(work, a, after) ==
    \E p \in Applicants :
        /\ Writes(work, DecisionColumns)
        /\ OwnedBy(a, p)
        /\ CanSubmit(applications[a].status)
        /\ AllSectionsCompleted(applications[a])
        /\ IsUnitAvailableOn(LeasesOf(applications[a].unit), today)
        /\ HistoryBound(a)
        /\ after = [TransitionTo(applications[a], "Submitted", p, NoText)
                       EXCEPT !.reviewComment = NoText]

WithdrawalDecided(work, a, after) ==
    \E p \in Applicants, c \in Field(Comments) :
        /\ Writes(work, DecisionColumns)
        /\ OwnedBy(a, p)
        /\ CanWithdraw(applications[a].status)
        /\ HistoryBound(a)
        /\ after = TransitionTo(applications[a], "Withdrawn", p, c)

RejectionDecided(work, a, after) ==
    \E m \in Managers, o \in {"Return", "Deny"}, c \in Field(Comments) :
        /\ Writes(work, DecisionColumns)
        /\ CanReview(applications[a].status)
        /\ ~(RequiresComment(o) /\ IsBlank(c))
        /\ HistoryBound(a)
        /\ after = Reviewed(applications[a], o, m, c)

NotesDecided(work, a, after) ==
    \E m \in Managers, n \in Field(Notes) :
        /\ Writes(work, {"managerNotes"})
        /\ after = [applications[a] EXCEPT !.managerNotes = Trimmed(n)]

RowDecided(work, a, after) ==
    \/ InformationDecided(work, a, after)
    \/ HistoryDecided(work, a, after)
    \/ SubmissionDecided(work, a, after)
    \/ WithdrawalDecided(work, a, after)
    \/ RejectionDecided(work, a, after)
    \/ NotesDecided(work, a, after)

\* An approval with the lease it issues.
ApprovalDecided(work, a, after) ==
    \E m \in Managers, d \in Days, c \in Field(Comments) :
        /\ Writes(work, DecisionColumns)
        /\ CanReview(applications[a].status)
        /\ CanIssueLease(LeasesOf(applications[a].unit), today, d)
        /\ HistoryBound(a)
        /\ work.leases = {IssuedLease(a, applications[a], d)}
        /\ after = Reviewed(applications[a], "Approve", m, c)

\* A use case about the residences of an application.
ResidencesDecided(work, a, after) ==
    \E p \in Applicants :
        /\ Writes(work, {"residencesCompleted"})
        /\ LoadOwnedEditable(a, p)
        /\ \/ \E input \in ResidenceInputs :
                 /\ ValidResidenceDates(input)
                 /\ work.inserted = {RowFor(a, input)}
                 /\ DOMAIN work.updated = {} /\ work.deleted = {}
                 /\ after = applications[a]
           \/ \E r \in ResidenceIds, input \in ResidenceInputs :
                 /\ ValidResidenceDates(input)
                 /\ r \in ResidencesOf(a)
                 /\ work.inserted = {} /\ work.deleted = {}
                 /\ DOMAIN work.updated \subseteq {r}
                 /\ r \in DOMAIN work.updated => work.updated[r] = RowFor(a, input)
                 /\ r \notin DOMAIN work.updated => residences[r] = RowFor(a, input)
                 /\ after = applications[a]
           \/ \E r \in ResidenceIds :
                 /\ r \in ResidencesOf(a)
                 /\ work.inserted = {} /\ DOMAIN work.updated = {} /\ work.deleted = {r}
                 /\ after = [applications[a] EXCEPT !.residencesCompleted =
                                IF ResidencesOf(a) = {r} THEN FALSE ELSE @]

NoResidencesIn(work) == work.inserted = {} /\ DOMAIN work.updated = {} /\ work.deleted = {}

ChangeDecided(work) ==
    LET a     == work.application
        after == SavedRow(applications[a], work)
    IN  /\ work.kind = "Application"
        /\ a \in ApplicationIds /\ a \in DOMAIN applications
        /\ \/ NoResidencesIn(work) /\ work.leases = {} /\ RowDecided(work, a, after)
           \/ NoResidencesIn(work) /\ ApprovalDecided(work, a, after)
           \/ work.leases = {} /\ ResidencesDecided(work, a, after)

StartDecided(phase, work) ==
    \E u \in Units, p \in Applicants :
        /\ work = Insert(StartedApplication(u, p))
        /\ OpenApplications(u, p) = {}
        /\ phase = "Saving" => u \in units /\ IsUnitAvailableOn(LeasesOf(u), today)

RemovalDecided(phase, work) ==
    \E u \in Units :
        /\ work = Delete(u)
        /\ phase \in {"LeasesChecked", "Saving"} => LeasesOf(u) = {}
        /\ phase = "Saving" => ~ \E a \in DOMAIN applications : applications[a].unit = u

Decided(phase, work) ==
    \/ phase \in {"OpenChecked", "Saving"} /\ StartDecided(phase, work)
    \/ phase \in {"UnitLoaded", "LeasesChecked", "Saving"} /\ RemovalDecided(phase, work)
    \/ phase = "Saving" /\ ChangeDecided(work)

----------------------------------------------------------------------------
(* What a request decides when it arrives *)

\* It comes with work it has decided on.
Arrives(s) ==
    \E operation, phase, work : Begin(s, operation, phase, work) /\ Decided(phase, work)

\* An edit of one row, as work.
LEMMA EditDecided ==
    ASSUME Inv, NEW a \in DOMAIN applications, NEW after \in ApplicationRow,
           NEW columns, NEW stamps,
           after.history = applications[a].history,
           after.unit = applications[a].unit,
           after.applicant = applications[a].applicant,
           OthersStay(applications[a], after, columns \cup stamps),
           NEW work, work = Work(a, Changes(applications[a], after, columns, stamps)),
           Writes(work, columns \cup stamps) => RowDecided(work, a, after)
    PROVE  Decided("Saving", work)
<1> DEFINE row    == applications[a]
           writes == Changes(row, after, columns, stamps)
<1>1. row \in ApplicationRow /\ a \in ApplicationIds
  BY DEF Inv, Tables, TablesTyped, TypeOK
<1>2. /\ work.kind = "Application" /\ work.application = a /\ work.writes = writes
      /\ work.entries = <<>> /\ work.leases = {}
      /\ work.inserted = {} /\ work.updated = NoResidences /\ work.deleted = {}
  BY DEF Work
<1>3. after.history = row.history \o work.entries
  BY <1>1, <1>2, ConcatEmptySeq DEF ApplicationRow
<1>4. SavedRow(row, work) = after
  BY <1>1, <1>2, <1>3, SavedAs
<1>5. NoResidencesIn(work)
  BY <1>2 DEF NoResidencesIn, NoResidences
<1>6. RowDecided(work, a, after)
  <2>1. \A d \in DOMAIN work.writes : d \in columns \cup stamps
    BY <1>2, ChangesWritten
  <2> QED
    BY <2>1 DEF Writes
<1>7. ChangeDecided(work)
  <2>1. /\ work.application \in ApplicationIds /\ work.application \in DOMAIN applications
        /\ RowDecided(work, work.application, SavedRow(applications[work.application], work))
    BY <1>1, <1>2, <1>4, <1>6, Zenon
  <2> QED
    BY <1>2, <1>5, <2>1, Zenon DEF ChangeDecided
<1> QED
  BY <1>7 DEF Decided

\* The entry of a transition is what the transition appends.
LEMMA TransitionAppends ==
    ASSUME NEW row \in ApplicationRow, NEW to \in ApplicationStatus,
           NEW user \in Users, NEW c \in Field(Comments)
    PROVE  LET after == TransitionTo(row, to, user, c)
           IN  /\ after.history = row.history \o << after.history[Len(after.history)] >>
               /\ OthersStay(row, after, {"status", "reviewComment"})
<1> DEFINE entry == [fromStatus |-> row.status, toStatus |-> to,
                     changedBy |-> user, comment |-> Trimmed(c)]
           after == TransitionTo(row, to, user, c)
<1>1. entry \in HistoryRow
  BY TrimmedType DEF HistoryRow, ApplicationRow, Users
<1>2. row.history \in Seq(HistoryRow)
  BY DEF ApplicationRow
<1>3. after = [row EXCEPT !.status = to, !.history = Append(@, entry)]
  BY DEF TransitionTo
<1> HIDE DEF entry
<1>4. after.history = Append(row.history, entry)
  BY <1>3 DEF ApplicationRow
<1>5. OthersStay(row, after, {"status", "reviewComment"})
  BY <1>3 DEF ApplicationRow, Columns, OthersStay
<1> HIDE DEF after
<1>6. Len(after.history) = Len(row.history) + 1 /\ after.history[Len(row.history) + 1] = entry
  BY <1>1, <1>2, <1>4
<1>7. Append(row.history, entry) = row.history \o <<entry>>
  BY <1>1, <1>2
<1> QED
  BY <1>4, <1>5, <1>6, <1>7 DEF after

\* A transition, as work.
LEMMA MoveDecided ==
    ASSUME Inv, NEW a \in DOMAIN applications, NEW after \in ApplicationRow,
           after.history = applications[a].history \o << after.history[Len(after.history)] >>,
           after.unit = applications[a].unit,
           after.applicant = applications[a].applicant,
           OthersStay(applications[a], after, {"status", "reviewComment"}),
           NEW work,
           work.kind = "Application", work.application = a,
           work.writes = Changes(applications[a], after, {"status", "reviewComment"}, {}),
           work.entries = << after.history[Len(after.history)] >>,
           NoResidencesIn(work),
           Writes(work, DecisionColumns) =>
              \/ work.leases = {} /\ RowDecided(work, a, after)
              \/ ApprovalDecided(work, a, after)
    PROVE  Decided("Saving", work)
<1>1. applications[a] \in ApplicationRow /\ a \in ApplicationIds
  BY DEF Inv, Tables, TablesTyped, TypeOK
<1>2. OthersStay(applications[a], after, {"status", "reviewComment"} \cup {})
  <2>1. {"status", "reviewComment"} \cup {} = {"status", "reviewComment"}
    OBVIOUS
  <2> QED
    BY <2>1
<1>3. SavedRow(applications[a], work) = after
  <2> DEFINE columns == {"status", "reviewComment"}
             stamps  == {}
  <2>1. /\ OthersStay(applications[a], after, columns \cup stamps)
        /\ work.writes = Changes(applications[a], after, columns, stamps)
        /\ after.history = applications[a].history \o work.entries
    BY <1>2, Zenon
  <2> HIDE DEF columns, stamps
  <2> QED
    BY <1>1, <2>1, SavedAs
<1>4. ChangeDecided(work)
  <2>1. /\ work.application \in ApplicationIds /\ work.application \in DOMAIN applications
        /\ SavedRow(applications[work.application], work) = after
    BY <1>1, <1>3, Zenon
  <2>2. Writes(work, DecisionColumns)
    BY ChangesWritten DEF Writes, DecisionColumns
  <2>3. \/ work.leases = {} /\ RowDecided(work, work.application, after)
        \/ ApprovalDecided(work, work.application, after)
    BY <2>2, Zenon
  <2> QED
    BY <2>1, <2>3, Zenon DEF ChangeDecided
<1> QED
  BY <1>4 DEF Decided

\* The work of a transition concerns no residences.
LEMMA TransitionAside ==
    ASSUME NEW a, NEW after
    PROVE  NoResidencesIn(TransitionWork(a, after))
<1> DEFINE writes  == Changes(applications[a], after, {"status", "reviewComment"}, {})
           entries == << after.history[Len(after.history)] >>
           work    == [Work(a, writes) EXCEPT !.entries = entries]
<1>1. TransitionWork(a, after) = work
  BY DEF TransitionWork
<1> HIDE DEF writes, entries
<1>2. work.inserted = {} /\ work.updated = NoResidences /\ work.deleted = {}
  BY DEF Work
<1> HIDE DEF work
<1>3. DOMAIN NoResidences = {}
  BY DEF NoResidences
<1> QED
  BY <1>1, <1>2, <1>3, Zenon DEF NoResidencesIn

\* SaveApplicantInformationAsync.
LEMMA LoadApplicantInformationDecides ==
    ASSUME Inv, NEW s \in Slots, NEW a, NEW p \in Applicants,
           NEW i \in Answers \cup {Incomplete}, LoadApplicantInformation(s, a, p, i)
    PROVE  Arrives(s)
<1> DEFINE row    == applications[a]
           filled == [row EXCEPT !.information = i, !.informationCompleted = TRUE]
           work   == Work(a, Changes(row, filled, {"information"}, {"informationCompleted"}))
<1>1. a \in DOMAIN applications /\ i \in Answers
  BY DEF LoadApplicantInformation, LoadOwnedEditable, OwnedBy
<1>2. row \in ApplicationRow
  BY <1>1 DEF Inv, Tables, TablesTyped, TypeOK
<1>3. /\ filled \in ApplicationRow
      /\ filled.history = row.history /\ filled.unit = row.unit
      /\ filled.applicant = row.applicant
  BY <1>1, <1>2 DEF ApplicationRow
<1>4. OthersStay(row, filled, {"information"} \cup {"informationCompleted"})
  BY <1>2 DEF Columns, ApplicationRow, OthersStay
<1>5. ASSUME Writes(work, {"information"} \cup {"informationCompleted"})
      PROVE  RowDecided(work, a, filled)
  <2>1. LoadOwnedEditable(a, p)
    BY DEF LoadApplicantInformation
  <2>2. Writes(work, InformationColumns)
    BY <1>5 DEF Writes, InformationColumns
  <2>3. InformationDecided(work, a, filled)
    BY <1>1, <2>1, <2>2, Zenon DEF InformationDecided
  <2> QED
    BY <2>3, Zenon DEF RowDecided
<1>6. Begin(s, "SaveApplicantInformation", "Saving", work)
  BY DEF LoadApplicantInformation
<1>7. work = Work(a, Changes(row, filled, {"information"}, {"informationCompleted"}))
  OBVIOUS
<1> HIDE DEF filled, work
<1>8. Decided("Saving", work)
  BY <1>1, <1>3, <1>4, <1>5, <1>7, EditDecided
<1> QED
  BY <1>6, <1>8 DEF Arrives

\* CompleteResidenceHistoryAsync.
LEMMA LoadResidenceHistoryDecides ==
    ASSUME Inv, NEW s \in Slots, NEW a, NEW p \in Applicants, LoadResidenceHistory(s, a, p)
    PROVE  Arrives(s)
<1> DEFINE row     == applications[a]
           stamped == [row EXCEPT !.residencesCompleted = TRUE]
           work    == Work(a, Changes(row, stamped, {}, {"residencesCompleted"}))
<1>1. a \in DOMAIN applications
  BY DEF LoadResidenceHistory, LoadOwnedEditable, OwnedBy
<1>2. row \in ApplicationRow
  BY <1>1 DEF Inv, Tables, TablesTyped, TypeOK
<1>3. /\ stamped \in ApplicationRow
      /\ stamped.history = row.history /\ stamped.unit = row.unit
      /\ stamped.applicant = row.applicant
  BY <1>2 DEF ApplicationRow
<1>4. OthersStay(row, stamped, {} \cup {"residencesCompleted"})
  BY <1>2 DEF Columns, ApplicationRow, OthersStay
<1>5. ASSUME Writes(work, {} \cup {"residencesCompleted"})
      PROVE  RowDecided(work, a, stamped)
  <2>1. Writes(work, {"residencesCompleted"})
    BY <1>5 DEF Writes
  <2>2. LoadOwnedEditable(a, p) /\ ResidencesOf(a) # {}
    BY DEF LoadResidenceHistory
  <2>3. HistoryDecided(work, a, stamped)
    BY <2>1, <2>2, Zenon DEF HistoryDecided
  <2> QED
    BY <2>3, Zenon DEF RowDecided
<1>6. Begin(s, "CompleteResidenceHistory", "Saving", work)
  BY DEF LoadResidenceHistory
<1>7. work = Work(a, Changes(row, stamped, {}, {"residencesCompleted"}))
  OBVIOUS
<1> HIDE DEF stamped, work
<1>8. Decided("Saving", work)
  BY <1>1, <1>3, <1>4, <1>5, <1>7, EditDecided
<1> QED
  BY <1>6, <1>8 DEF Arrives

\* SaveManagerNotesAsync.
LEMMA LoadToSaveNotesDecides ==
    ASSUME Inv, NEW s \in Slots, NEW a, NEW m \in Managers, NEW n \in Field(Notes),
           LoadToSaveNotes(s, a, n)
    PROVE  Arrives(s)
<1> DEFINE row   == applications[a]
           noted == [row EXCEPT !.managerNotes = Trimmed(n)]
           work  == Work(a, Changes(row, noted, {"managerNotes"}, {}))
<1>1. a \in DOMAIN applications
  BY DEF LoadToSaveNotes
<1>2. row \in ApplicationRow
  BY <1>1 DEF Inv, Tables, TablesTyped, TypeOK
<1>3. /\ noted \in ApplicationRow
      /\ noted.history = row.history /\ noted.unit = row.unit
      /\ noted.applicant = row.applicant
  BY <1>2, TrimmedType DEF ApplicationRow
<1>4. OthersStay(row, noted, {"managerNotes"} \cup {})
  BY <1>2 DEF Columns, ApplicationRow, OthersStay
<1>5. ASSUME Writes(work, {"managerNotes"} \cup {})
      PROVE  RowDecided(work, a, noted)
  <2>1. Writes(work, {"managerNotes"})
    BY <1>5 DEF Writes
  <2>2. NotesDecided(work, a, noted)
    BY <2>1, Zenon DEF NotesDecided
  <2> QED
    BY <2>2, Zenon DEF RowDecided
<1>6. Begin(s, "SaveManagerNotes", "Saving", work)
  BY DEF LoadToSaveNotes
<1>7. work = Work(a, Changes(row, noted, {"managerNotes"}, {}))
  OBVIOUS
<1> HIDE DEF noted, work
<1>8. Decided("Saving", work)
  BY <1>1, <1>3, <1>4, <1>5, <1>7, EditDecided
<1> QED
  BY <1>6, <1>8 DEF Arrives

\* SubmitAsync.
LEMMA LoadToSubmitDecides ==
    ASSUME Inv, NEW s \in Slots, NEW a, NEW p \in Applicants, LoadToSubmit(s, a, p)
    PROVE  Arrives(s)
<1> DEFINE row   == applications[a]
           moved == TransitionTo(row, "Submitted", p, NoText)
           after == [moved EXCEPT !.reviewComment = NoText]
           work  == TransitionWork(a, after)
<1>1. a \in DOMAIN applications
  BY DEF LoadToSubmit, OwnedBy
<1>2. row \in ApplicationRow
  BY <1>1 DEF Inv, Tables, TablesTyped, TypeOK
<1>3. p \in Users /\ NoText \in Field(Comments) /\ "Submitted" \in ApplicationStatus
  BY DEF Users, Field, ApplicationStatus
<1>4. /\ moved \in ApplicationRow /\ moved.unit = row.unit
      /\ moved.applicant = row.applicant
  BY <1>2, <1>3, TransitionType
<1>5. /\ moved.history = row.history \o << moved.history[Len(moved.history)] >>
      /\ OthersStay(row, moved, {"status", "reviewComment"})
  BY <1>2, <1>3, TransitionAppends
<1>6. ASSUME Writes(work, DecisionColumns)
      PROVE  RowDecided(work, a, after)
  <2>1. /\ OwnedBy(a, p)
        /\ CanSubmit(row.status)
        /\ AllSectionsCompleted(row)
        /\ IsUnitAvailableOn(LeasesOf(row.unit), today)
        /\ HistoryBound(a)
    BY DEF LoadToSubmit
  <2>2. SubmissionDecided(work, a, after)
    BY <1>6, <2>1, Zenon DEF SubmissionDecided
  <2> QED
    BY <2>2, Zenon DEF RowDecided
<1>7. Begin(s, "Submit", "Saving", work)
  BY DEF LoadToSubmit
<1> HIDE DEF moved
<1>8. /\ after \in ApplicationRow /\ after.unit = row.unit
      /\ after.applicant = row.applicant /\ after.history = moved.history
      /\ OthersStay(row, after, {"status", "reviewComment"})
  BY <1>4, <1>5 DEF ApplicationRow, Columns, OthersStay
<1> HIDE DEF after
<1>9. Decided("Saving", work)
  <2>1. NoResidencesIn(work)
    BY TransitionAside
  <2>2. /\ work.kind = "Application" /\ work.application = a
        /\ work.writes = Changes(row, after, {"status", "reviewComment"}, {})
        /\ work.entries = << after.history[Len(after.history)] >>
        /\ work.leases = {}
    BY TransitionFields
  <2> HIDE DEF work
  <2> QED
    BY <1>1, <1>5, <1>6, <1>8, <2>1, <2>2, MoveDecided
<1> HIDE DEF work
<1> QED
  BY <1>7, <1>9 DEF Arrives

\* WithdrawAsync.
LEMMA LoadToWithdrawDecides ==
    ASSUME Inv, NEW s \in Slots, NEW a, NEW p \in Applicants,
           NEW c \in Field(Comments), LoadToWithdraw(s, a, p, c)
    PROVE  Arrives(s)
<1> DEFINE row   == applications[a]
           after == TransitionTo(row, "Withdrawn", p, c)
           work  == TransitionWork(a, after)
<1>1. a \in DOMAIN applications
  BY DEF LoadToWithdraw, OwnedBy
<1>2. row \in ApplicationRow
  BY <1>1 DEF Inv, Tables, TablesTyped, TypeOK
<1>3. p \in Users /\ "Withdrawn" \in ApplicationStatus
  BY DEF Users, ApplicationStatus
<1>4. /\ after.history = row.history \o << after.history[Len(after.history)] >>
      /\ OthersStay(row, after, {"status", "reviewComment"})
  BY <1>2, <1>3, TransitionAppends
<1>5. ASSUME Writes(work, DecisionColumns)
      PROVE  RowDecided(work, a, after)
  <2>1. OwnedBy(a, p) /\ CanWithdraw(row.status) /\ HistoryBound(a)
    BY DEF LoadToWithdraw
  <2>2. WithdrawalDecided(work, a, after)
    BY <1>5, <2>1, Zenon DEF WithdrawalDecided
  <2> QED
    BY <2>2, Zenon DEF RowDecided
<1>6. Begin(s, "Withdraw", "Saving", work)
  BY DEF LoadToWithdraw
<1>7. /\ after \in ApplicationRow /\ after.unit = row.unit
      /\ after.applicant = row.applicant
  BY <1>2, <1>3, TransitionType
<1> HIDE DEF after
<1>8. Decided("Saving", work)
  <2>1. NoResidencesIn(work)
    BY TransitionAside
  <2>2. /\ work.kind = "Application" /\ work.application = a
        /\ work.writes = Changes(row, after, {"status", "reviewComment"}, {})
        /\ work.entries = << after.history[Len(after.history)] >>
        /\ work.leases = {}
    BY TransitionFields
  <2> HIDE DEF work
  <2> QED
    BY <1>1, <1>4, <1>5, <1>7, <2>1, <2>2, MoveDecided
<1> HIDE DEF work
<1> QED
  BY <1>6, <1>8 DEF Arrives

\* A review changes what a transition changes.
LEMMA ReviewAppends ==
    ASSUME NEW row \in ApplicationRow, NEW o \in ReviewOutcome,
           NEW m \in Managers, NEW c \in Field(Comments)
    PROVE  LET after == Reviewed(row, o, m, c)
           IN  /\ after \in ApplicationRow
               /\ after.unit = row.unit
               /\ after.applicant = row.applicant
               /\ after.history = row.history \o << after.history[Len(after.history)] >>
               /\ OthersStay(row, after, {"status", "reviewComment"})
<1> DEFINE moved == TransitionTo(row, ToStatus[o], m, c)
           after == Reviewed(row, o, m, c)
<1>1. ToStatus[o] \in ApplicationStatus /\ m \in Users
  BY DEF ToStatus, ReviewOutcome, ApplicationStatus, Users
<1>2. /\ moved \in ApplicationRow /\ moved.unit = row.unit
      /\ moved.applicant = row.applicant
  BY <1>1, TransitionType
<1>3. /\ moved.history = row.history \o << moved.history[Len(moved.history)] >>
      /\ OthersStay(row, moved, {"status", "reviewComment"})
  BY <1>1, TransitionAppends
<1>4. after = [moved EXCEPT !.reviewComment = Trimmed(c)]
  BY DEF Reviewed
<1>5. after \in ApplicationRow
  BY ReviewedType
<1> HIDE DEF moved, after
<1>6. /\ after.unit = row.unit /\ after.applicant = row.applicant
      /\ after.history = moved.history
      /\ OthersStay(row, after, {"status", "reviewComment"})
  BY <1>2, <1>3, <1>4 DEF ApplicationRow, Columns, OthersStay
<1> QED
  BY <1>3, <1>5, <1>6 DEF after

\* ReviewAsync with the outcomes Return and Deny.
LEMMA LoadToRejectDecides ==
    ASSUME Inv, NEW s \in Slots, NEW a, NEW m \in Managers,
           NEW o \in {"Return", "Deny"}, NEW c \in Field(Comments),
           LoadToReject(s, a, m, o, c)
    PROVE  Arrives(s)
<1> DEFINE row   == applications[a]
           after == Reviewed(row, o, m, c)
           work  == TransitionWork(a, after)
<1>1. a \in DOMAIN applications /\ o \in ReviewOutcome
  BY DEF LoadToReject, ReviewOutcome
<1>2. row \in ApplicationRow
  BY <1>1 DEF Inv, Tables, TablesTyped, TypeOK
<1>3. after.history = row.history \o << after.history[Len(after.history)] >>
  BY <1>1, <1>2, ReviewAppends
<1>4. ASSUME Writes(work, DecisionColumns)
      PROVE  RowDecided(work, a, after)
  <2>1. /\ CanReview(row.status)
        /\ ~(RequiresComment(o) /\ IsBlank(c))
        /\ HistoryBound(a)
    BY DEF LoadToReject
  <2>2. RejectionDecided(work, a, after)
    BY <1>4, <2>1, Zenon DEF RejectionDecided
  <2> QED
    BY <2>2, Zenon DEF RowDecided
<1>5. Begin(s, o, "Saving", work)
  BY DEF LoadToReject
<1>6. /\ after \in ApplicationRow /\ after.unit = row.unit
      /\ after.applicant = row.applicant
      /\ OthersStay(row, after, {"status", "reviewComment"})
  BY <1>1, <1>2, ReviewAppends
<1> HIDE DEF after
<1>7. Decided("Saving", work)
  <2>1. NoResidencesIn(work)
    BY TransitionAside
  <2>2. /\ work.kind = "Application" /\ work.application = a
        /\ work.writes = Changes(row, after, {"status", "reviewComment"}, {})
        /\ work.entries = << after.history[Len(after.history)] >>
        /\ work.leases = {}
    BY TransitionFields
  <2> HIDE DEF work
  <2> QED
    BY <1>1, <1>3, <1>4, <1>6, <2>1, <2>2, MoveDecided
<1> HIDE DEF work
<1> QED
  BY <1>5, <1>7 DEF Arrives

\* ReviewAsync with the outcome Approve.
LEMMA LoadToApproveDecides ==
    ASSUME Inv, NEW s \in Slots, NEW a \in ApplicationIds, NEW m \in Managers,
           NEW d \in Days, NEW c \in Field(Comments), LoadToApprove(s, a, m, d, c)
    PROVE  Arrives(s)
<1> DEFINE row   == applications[a]
           after == Reviewed(row, "Approve", m, c)
           lease == IssuedLease(a, row, d)
           move  == TransitionWork(a, after)
           work  == [move EXCEPT !.leases = {lease}]
<1>1. a \in DOMAIN applications /\ "Approve" \in ReviewOutcome
  BY DEF LoadToApprove, ReviewOutcome
<1>2. row \in ApplicationRow
  BY <1>1 DEF Inv, Tables, TablesTyped, TypeOK
<1>3. after.history = row.history \o << after.history[Len(after.history)] >>
  BY <1>1, <1>2, ReviewAppends
<1>4. /\ after \in ApplicationRow /\ after.unit = row.unit
      /\ after.applicant = row.applicant
      /\ OthersStay(row, after, {"status", "reviewComment"})
  BY <1>1, <1>2, ReviewAppends
<1>5. /\ CanReview(row.status)
      /\ CanIssueLease(LeasesOf(row.unit), today, d)
      /\ HistoryBound(a)
  BY DEF LoadToApprove
<1>6. Begin(s, "Approve", "Saving", work)
  BY DEF LoadToApprove
<1> HIDE DEF after, lease
<1>7. /\ move.kind = "Application" /\ move.application = a
      /\ move.writes = Changes(row, after, {"status", "reviewComment"}, {})
      /\ move.entries = << after.history[Len(after.history)] >>
      /\ NoResidencesIn(move)
  BY TransitionFields, TransitionAside
<1>8. DOMAIN move = {"kind", "application", "writes", "entries", "leases", "inserted",
                     "updated", "deleted"}
  BY DEF TransitionWork, Work
<1> HIDE DEF move
<1>9. /\ work.kind = "Application" /\ work.application = a /\ work.leases = {lease}
      /\ work.writes = move.writes /\ work.entries = move.entries
      /\ work.inserted = move.inserted /\ work.updated = move.updated
      /\ work.deleted = move.deleted
  BY <1>7, <1>8
<1> HIDE DEF work
<1>10. NoResidencesIn(work)
  BY <1>7, <1>9 DEF NoResidencesIn
<1>11. Decided("Saving", work)
  <2>1. Writes(work, DecisionColumns) => ApprovalDecided(work, a, after)
    BY <1>5, <1>9, Zenon DEF ApprovalDecided, after, lease
  <2> QED
    BY <1>1, <1>3, <1>4, <1>7, <1>9, <1>10, <2>1, MoveDecided
<1> QED
  BY <1>6, <1>11 DEF Arrives

\* A change of the residences of an application, as work.
LEMMA ResidencesWork ==
    ASSUME Inv, NEW a \in DOMAIN applications, NEW after, NEW work,
           work.kind = "Application", work.application = a, work.leases = {},
           SavedRow(applications[a], work) = after,
           ResidencesDecided(work, a, after)
    PROVE  Decided("Saving", work)
<1>1. /\ work.application \in ApplicationIds /\ work.application \in DOMAIN applications
      /\ SavedRow(applications[work.application], work) = after
  BY DEF Inv, Tables, TablesTyped, TypeOK
<1>2. ResidencesDecided(work, work.application, after)
  BY Zenon
<1>3. ChangeDecided(work)
  BY <1>1, <1>2, Zenon DEF ChangeDecided
<1> QED
  BY <1>3, Zenon DEF Decided

\* Work that writes nothing to the row.
LEMMA NothingSaved ==
    ASSUME NEW row \in ApplicationRow, NEW work,
           work.writes = NoWrites, work.entries = <<>>
    PROVE  SavedRow(row, work) = row
<1>1. DOMAIN work.writes = {}
  BY DEF NoWrites
<1>2. row.history \o work.entries = row.history
  BY ConcatEmptySeq DEF ApplicationRow
<1> QED
  BY <1>1, <1>2 DEF SavedRow, Column, ApplicationRow

\* AddResidenceAsync.
LEMMA LoadToAddResidenceDecides ==
    ASSUME Inv, NEW s \in Slots, NEW a \in ApplicationIds, NEW p \in Applicants,
           NEW input \in ResidenceInputs, LoadToAddResidence(s, a, p, input)
    PROVE  Arrives(s)
<1> DEFINE work == [Work(a, NoWrites) EXCEPT !.inserted = {RowFor(a, input)}]
<1>1. a \in DOMAIN applications /\ applications[a] \in ApplicationRow
  BY DEF LoadToAddResidence, LoadOwnedEditable, OwnedBy, Inv, Tables, TablesTyped, TypeOK
<1>2. Begin(s, "AddResidence", "Saving", work)
  BY DEF LoadToAddResidence
<1>3. /\ work.kind = "Application" /\ work.application = a /\ work.writes = NoWrites
      /\ work.entries = <<>> /\ work.leases = {} /\ work.deleted = {}
      /\ work.inserted = {RowFor(a, input)} /\ work.updated = NoResidences
  BY DEF Work
<1> HIDE DEF work
<1>4. DOMAIN work.updated = {}
  BY <1>3 DEF NoResidences
<1>5. SavedRow(applications[a], work) = applications[a]
  BY <1>1, <1>3, NothingSaved
<1>6. ResidencesDecided(work, a, applications[a])
  <2>1. LoadOwnedEditable(a, p) /\ ValidResidenceDates(input)
    BY DEF LoadToAddResidence
  <2>2. Writes(work, {"residencesCompleted"})
    BY <1>3 DEF Writes, NoWrites
  <2> QED
    BY <1>3, <1>4, <2>1, <2>2, Zenon DEF ResidencesDecided
<1>7. Decided("Saving", work)
  BY <1>1, <1>3, <1>5, <1>6, ResidencesWork
<1> QED
  BY <1>2, <1>7 DEF Arrives

\* UpdateResidenceAsync.
LEMMA LoadToUpdateResidenceDecides ==
    ASSUME Inv, NEW s \in Slots, NEW a \in ApplicationIds, NEW p \in Applicants,
           NEW r \in ResidenceIds, NEW input \in ResidenceInputs,
           LoadToUpdateResidence(s, a, p, r, input)
    PROVE  Arrives(s)
<1> DEFINE changed == {r} \ {x \in {r} : residences[x] = RowFor(a, input)}
           rows    == [q \in changed |-> RowFor(a, input)]
           work    == [Work(a, NoWrites) EXCEPT !.updated = rows]
<1>1. a \in DOMAIN applications /\ applications[a] \in ApplicationRow
  BY DEF LoadToUpdateResidence, LoadOwnedEditable, OwnedBy, Inv, Tables, TablesTyped, TypeOK
<1>2. Begin(s, "UpdateResidence", "Saving", work)
  BY DEF LoadToUpdateResidence
<1>3. /\ DOMAIN rows \subseteq {r}
      /\ r \in DOMAIN rows => rows[r] = RowFor(a, input)
      /\ r \notin DOMAIN rows => residences[r] = RowFor(a, input)
  OBVIOUS
<1> HIDE DEF rows, changed
<1>4. /\ work.kind = "Application" /\ work.application = a /\ work.writes = NoWrites
      /\ work.entries = <<>> /\ work.leases = {} /\ work.deleted = {}
      /\ work.inserted = {} /\ work.updated = rows
  BY DEF Work
<1> HIDE DEF work
<1>5. SavedRow(applications[a], work) = applications[a]
  BY <1>1, <1>4, NothingSaved
<1>6. ResidencesDecided(work, a, applications[a])
  <2>1. LoadOwnedEditable(a, p) /\ ValidResidenceDates(input) /\ r \in ResidencesOf(a)
    BY DEF LoadToUpdateResidence
  <2>2. /\ DOMAIN work.updated \subseteq {r}
        /\ r \in DOMAIN work.updated => work.updated[r] = RowFor(a, input)
        /\ r \notin DOMAIN work.updated => residences[r] = RowFor(a, input)
    BY <1>3, <1>4, Zenon
  <2>3. Writes(work, {"residencesCompleted"})
    BY <1>4 DEF Writes, NoWrites
  <2> QED
    BY <1>4, <2>1, <2>2, <2>3, Zenon DEF ResidencesDecided
<1>7. Decided("Saving", work)
  BY <1>1, <1>4, <1>5, <1>6, ResidencesWork
<1> QED
  BY <1>2, <1>7 DEF Arrives

\* RemoveResidenceAsync.
LEMMA LoadToRemoveResidenceDecides ==
    ASSUME Inv, NEW s \in Slots, NEW a, NEW p \in Applicants, NEW r \in ResidenceIds,
           LoadToRemoveResidence(s, a, p, r)
    PROVE  Arrives(s)
<1> DEFINE row     == applications[a]
           emptied == [row EXCEPT !.residencesCompleted =
                          IF ResidencesOf(a) = {r} THEN FALSE ELSE @]
           columns == {"residencesCompleted"}
           stamps  == {}
           writes  == Changes(row, emptied, columns, stamps)
           work    == [Work(a, writes) EXCEPT !.deleted = {r}]
<1>1. a \in DOMAIN applications
  BY DEF LoadToRemoveResidence, LoadOwnedEditable, OwnedBy
<1>2. row \in ApplicationRow
  BY <1>1 DEF Inv, Tables, TablesTyped, TypeOK
<1>3. /\ emptied \in ApplicationRow
      /\ emptied.history = row.history /\ emptied.unit = row.unit
      /\ emptied.applicant = row.applicant
  BY <1>2 DEF ApplicationRow
<1>4. OthersStay(row, emptied, columns \cup stamps)
  BY <1>2 DEF Columns, ApplicationRow, OthersStay
<1>5. Begin(s, "RemoveResidence", "Saving", work)
  BY DEF LoadToRemoveResidence
<1>6. /\ work.kind = "Application" /\ work.application = a /\ work.writes = writes
      /\ work.entries = <<>> /\ work.leases = {} /\ work.deleted = {r}
      /\ work.inserted = {} /\ work.updated = NoResidences
  BY DEF Work
<1> HIDE DEF work
<1>7. DOMAIN work.updated = {}
  BY <1>6 DEF NoResidences
<1>8. ResidencesDecided(work, a, emptied)
  <2>1. LoadOwnedEditable(a, p) /\ r \in ResidencesOf(a)
    BY DEF LoadToRemoveResidence
  <2>2. Writes(work, {"residencesCompleted"})
    <3> HIDE DEF emptied
    <3>1. \A d \in DOMAIN writes : d = "residencesCompleted"
      BY <1>3, ChangesWritten
    <3> QED
      BY <1>6, <3>1 DEF Writes
  <2> QED
    BY <1>6, <1>7, <2>1, <2>2, Zenon DEF ResidencesDecided
<1> HIDE DEF emptied, columns, stamps
<1>9. emptied.history = row.history \o work.entries
  BY <1>2, <1>3, <1>6, ConcatEmptySeq DEF ApplicationRow
<1>10. SavedRow(row, work) = emptied
  BY <1>2, <1>3, <1>4, <1>6, <1>9, SavedAs
<1>11. Decided("Saving", work)
  BY <1>1, <1>6, <1>8, <1>10, ResidencesWork
<1> QED
  BY <1>5, <1>11 DEF Arrives

\* StartAsync.
LEMMA StartDecides ==
    ASSUME NEW s \in Slots, NEW u \in Units, NEW p \in Applicants, StartQuery(s, u, p)
    PROVE  Arrives(s)
<1> DEFINE work == Insert(StartedApplication(u, p))
<1>1. Begin(s, "Start", "OpenChecked", work) /\ OpenApplications(u, p) = {}
  BY DEF StartQuery
<1>2. StartDecided("OpenChecked", work)
  BY <1>1 DEF StartDecided
<1> HIDE DEF work
<1>3. Decided("OpenChecked", work)
  BY <1>2 DEF Decided
<1> QED
  BY <1>1, <1>3 DEF Arrives

\* DeleteUnitAsync.
LEMMA DeleteUnitDecides ==
    ASSUME NEW s \in Slots, NEW u \in Units, DeleteUnitQuery(s, u)
    PROVE  Arrives(s)
<1> DEFINE work == Delete(u)
<1>1. Begin(s, "DeleteUnit", "UnitLoaded", work)
  BY DEF DeleteUnitQuery
<1>2. RemovalDecided("UnitLoaded", work)
  BY DEF RemovalDecided
<1> HIDE DEF work
<1>3. Decided("UnitLoaded", work)
  BY <1>2 DEF Decided
<1> QED
  BY <1>1, <1>3 DEF Arrives

----------------------------------------------------------------------------
(* What the save of a decision does *)

\* A save without residences leaves that table alone.
LEMMA NoResidencesSaved ==
    ASSUME Inv, NEW work, NoResidencesIn(work), SaveResidences(work)
    PROVE  UNCHANGED <<residences, issuedResidenceIds>>
<1>1. PICK new \in SUBSET (ResidenceIds \ issuedResidenceIds) :
         /\ Cardinality(new) = Cardinality(work.inserted)
         /\ issuedResidenceIds' = issuedResidenceIds \cup new
         /\ residences' = [r \in new \cup (DOMAIN residences \ work.deleted) |->
               CASE r \in new                 -> CHOOSE row \in work.inserted : TRUE
                 [] r \in DOMAIN work.updated -> work.updated[r]
                 [] OTHER                     -> residences[r]]
  BY DEF SaveResidences
<1>2. new \in SUBSET ResidenceIds
  BY <1>1
<1>3. IsFiniteSet(new)
  BY <1>2, FS_Subset, RequestAssumption
<1>4. new = {}
  BY <1>1, <1>3, FS_EmptySet DEF NoResidencesIn
<1>5. residences = [r \in DOMAIN residences |-> residences[r]]
  BY DEF Inv, Tables, TablesTyped, TypeOK
<1> QED
  BY <1>1, <1>4, <1>5 DEF NoResidencesIn

\* What a handler asks of the status is all that TransitionTo insists on.
LEMMA GuardsAllow ==
    ASSUME NEW row
    PROVE  /\ CanSubmit(row.status) => AllowsTransition(row, "Submitted")
           /\ CanWithdraw(row.status) => AllowsTransition(row, "Withdrawn")
           /\ \A o \in ReviewOutcome :
                 CanReview(row.status) => AllowsTransition(row, ToStatus[o])
BY DEF CanSubmit, CanWithdraw, CanReview, AllowsTransition, CanTransition, Transitions,
       ApplicationStatus, ReviewOutcome, ToStatus

\* An applicant's edit.
LEMMA EditSaved ==
    ASSUME Inv, NEW work, NEW a \in ApplicationIds, a \in DOMAIN applications, NEW after,
           InformationDecided(work, a, after) \/ HistoryDecided(work, a, after)
              \/ SubmissionDecided(work, a, after) \/ WithdrawalDecided(work, a, after),
           applications' = [applications EXCEPT ![a] = after],
           UNCHANGED <<units, residences, issuedResidenceIds, leases, today>>
    PROVE  \E p \in Applicants : ApplicantRequest(p)
<1>1. applications \in [DOMAIN applications -> ApplicationRow]
  BY DEF Inv, Tables, TablesTyped, TypeOK
<1>2. CASE InformationDecided(work, a, after)
  <2>1. PICK p \in Applicants, i \in Answers :
           /\ LoadOwnedEditable(a, p)
           /\ after = [applications[a] EXCEPT !.information = i,
                                              !.informationCompleted = TRUE]
    BY <1>2, Zenon DEF InformationDecided
  <2>2. [applications EXCEPT ![a].information = i, ![a].informationCompleted = TRUE]
           = [applications EXCEPT ![a] = after]
    BY <1>1, <2>1
  <2>3. SaveApplicantInformation(a, p, i)
    BY <2>1, <2>2, SeedAssumption DEF SaveApplicantInformation
  <2> QED
    BY <2>3 DEF ApplicantRequest
<1>3. CASE HistoryDecided(work, a, after)
  <2>1. PICK p \in Applicants :
           /\ LoadOwnedEditable(a, p)
           /\ ResidencesOf(a) # {}
           /\ after = [applications[a] EXCEPT !.residencesCompleted = TRUE]
    BY <1>3 DEF HistoryDecided
  <2>2. [applications EXCEPT ![a].residencesCompleted = TRUE]
           = [applications EXCEPT ![a] = after]
    BY <1>1, <2>1
  <2>3. CompleteResidenceHistory(a, p)
    BY <2>1, <2>2 DEF CompleteResidenceHistory
  <2> QED
    BY <2>3 DEF ApplicantRequest
<1>4. CASE SubmissionDecided(work, a, after)
  <2>1. PICK p \in Applicants : Submit(a, p)
    BY <1>4, GuardsAllow DEF SubmissionDecided, Submit
  <2> QED
    BY <2>1 DEF ApplicantRequest
<1>5. CASE WithdrawalDecided(work, a, after)
  <2>1. PICK p \in Applicants, c \in Field(Comments) : Withdraw(a, p, c)
    BY <1>5, GuardsAllow DEF WithdrawalDecided, Withdraw
  <2> QED
    BY <2>1 DEF ApplicantRequest
<1> QED
  BY <1>2, <1>3, <1>4, <1>5

\* A manager's decision without a lease, or a manager's notes.
LEMMA DecisionSaved ==
    ASSUME Inv, NEW work, NEW a \in ApplicationIds, a \in DOMAIN applications, NEW after,
           RejectionDecided(work, a, after) \/ NotesDecided(work, a, after),
           applications' = [applications EXCEPT ![a] = after],
           UNCHANGED <<units, residences, issuedResidenceIds, leases, today>>
    PROVE  \E m \in Managers : ManagerRequest(m)
<1>1. applications \in [DOMAIN applications -> ApplicationRow]
  BY DEF Inv, Tables, TablesTyped, TypeOK
<1>2. CASE RejectionDecided(work, a, after)
  <2>1. PICK m \in Managers, o \in {"Return", "Deny"}, c \in Field(Comments) :
           Reject(a, m, o, c)
    BY <1>2, GuardsAllow DEF RejectionDecided, Reject, ReviewOutcome
  <2> QED
    BY <2>1 DEF ManagerRequest
<1>3. CASE NotesDecided(work, a, after)
  <2>1. PICK m \in Managers, n \in Field(Notes) :
           after = [applications[a] EXCEPT !.managerNotes = Trimmed(n)]
    BY <1>3 DEF NotesDecided
  <2>2. [applications EXCEPT ![a].managerNotes = Trimmed(n)]
           = [applications EXCEPT ![a] = after]
    BY <1>1, <2>1
  <2>3. SaveManagerNotes(a, n)
    BY <2>1, <2>2 DEF SaveManagerNotes
  <2> QED
    BY <2>3 DEF ManagerRequest
<1> QED
  BY <1>2, <1>3

\* An approval and its lease.
LEMMA ApprovalSaved ==
    ASSUME NEW a \in ApplicationIds, a \in DOMAIN applications,
           NEW after, NEW work, ApprovalDecided(work, a, after),
           applications' = [applications EXCEPT ![a] = after],
           leases' = leases \cup work.leases,
           UNCHANGED <<units, residences, issuedResidenceIds, today>>
    PROVE  \E m \in Managers : ManagerRequest(m)
<1>1. PICK m \in Managers, d \in Days, c \in Field(Comments) : Approve(a, m, d, c)
  <2>1. PICK m \in Managers, d \in Days, c \in Field(Comments) :
           /\ CanReview(applications[a].status)
           /\ CanIssueLease(LeasesOf(applications[a].unit), today, d)
           /\ HistoryBound(a)
           /\ work.leases = {IssuedLease(a, applications[a], d)}
           /\ after = Reviewed(applications[a], "Approve", m, c)
    BY DEF ApprovalDecided
  <2>2. AllowsTransition(applications[a], "Approved")
    BY <2>1, GuardsAllow DEF ReviewOutcome, ToStatus
  <2> QED
    BY <2>1, <2>2 DEF Approve
<1> QED
  BY <1>1 DEF ManagerRequest

\* A residence added, updated or removed.
LEMMA ResidencesSaved ==
    ASSUME Inv, NEW a \in ApplicationIds, a \in DOMAIN applications,
           NEW after, NEW work, ResidencesDecided(work, a, after), SaveResidences(work),
           applications' = [applications EXCEPT ![a] = after],
           UNCHANGED <<units, leases, today>>
    PROVE  \E p \in Applicants : ApplicantRequest(p)
<1>1. PICK new \in SUBSET (ResidenceIds \ issuedResidenceIds) :
         /\ Cardinality(new) = Cardinality(work.inserted)
         /\ issuedResidenceIds' = issuedResidenceIds \cup new
         /\ residences' = [r \in new \cup (DOMAIN residences \ work.deleted) |->
               CASE r \in new                 -> CHOOSE row \in work.inserted : TRUE
                 [] r \in DOMAIN work.updated -> work.updated[r]
                 [] OTHER                     -> residences[r]]
  BY DEF SaveResidences
<1>2. IsFiniteSet(new)
  <2>1. new \in SUBSET ResidenceIds
    BY <1>1
  <2> QED
    BY <2>1, FS_Subset, RequestAssumption
<1>3. /\ applications \in [DOMAIN applications -> ApplicationRow]
      /\ residences \in [DOMAIN residences -> ResidenceRow]
      /\ DOMAIN residences \subseteq issuedResidenceIds
  BY DEF Inv, Tables, TablesTyped, TypeOK
<1>4. PICK p \in Applicants :
        /\ LoadOwnedEditable(a, p)
        /\ \/ \E input \in ResidenceInputs :
                 /\ ValidResidenceDates(input)
                 /\ work.inserted = {RowFor(a, input)}
                 /\ DOMAIN work.updated = {} /\ work.deleted = {}
                 /\ after = applications[a]
           \/ \E r \in ResidenceIds, input \in ResidenceInputs :
                 /\ ValidResidenceDates(input)
                 /\ r \in ResidencesOf(a)
                 /\ work.inserted = {} /\ work.deleted = {}
                 /\ DOMAIN work.updated \subseteq {r}
                 /\ r \in DOMAIN work.updated => work.updated[r] = RowFor(a, input)
                 /\ r \notin DOMAIN work.updated => residences[r] = RowFor(a, input)
                 /\ after = applications[a]
           \/ \E r \in ResidenceIds :
                 /\ r \in ResidencesOf(a)
                 /\ work.inserted = {} /\ DOMAIN work.updated = {} /\ work.deleted = {r}
                 /\ after = [applications[a] EXCEPT !.residencesCompleted =
                                IF ResidencesOf(a) = {r} THEN FALSE ELSE @]
  BY DEF ResidencesDecided
<1>5. ASSUME NEW input \in ResidenceInputs,
             ValidResidenceDates(input),
             work.inserted = {RowFor(a, input)},
             DOMAIN work.updated = {}, work.deleted = {},
             after = applications[a]
      PROVE  ApplicantRequest(p)
  <2>1. Cardinality(new) = 1
    BY <1>1, <1>5, FS_Singleton
  <2>2. PICK r : new = {r}
    BY <1>2, <2>1, FS_Singleton
  <2>3. r \in ResidenceIds \ issuedResidenceIds
    BY <1>1, <2>2
  <2>4. (CHOOSE row \in work.inserted : TRUE) = RowFor(a, input)
    BY <1>5
  <2>5. residences' = [q \in DOMAIN residences \cup {r} |->
                          IF q = r THEN RowFor(a, input) ELSE residences[q]]
    BY <1>1, <1>5, <2>2, <2>4
  <2>6. UNCHANGED applications
    BY <1>3, <1>5
  <2>7. AddResidence(a, p, input)
    BY <1>1, <1>4, <1>5, <2>2, <2>3, <2>5, <2>6 DEF AddResidence
  <2> QED
    BY <2>7 DEF ApplicantRequest
<1>6. ASSUME NEW r \in ResidenceIds, NEW input \in ResidenceInputs,
             ValidResidenceDates(input),
             r \in ResidencesOf(a),
             work.inserted = {}, work.deleted = {},
             DOMAIN work.updated \subseteq {r},
             r \in DOMAIN work.updated => work.updated[r] = RowFor(a, input),
             r \notin DOMAIN work.updated => residences[r] = RowFor(a, input),
             after = applications[a]
      PROVE  ApplicantRequest(p)
  <2>1. new = {}
    BY <1>1, <1>2, <1>6, FS_EmptySet
  <2>2. r \in DOMAIN residences
    BY <1>6 DEF ResidencesOf, ResidencesIn
  <2>3. residences' = [residences EXCEPT ![r] = RowFor(a, input)]
    BY <1>1, <1>3, <1>6, <2>1, <2>2
  <2>4. UNCHANGED <<applications, issuedResidenceIds>>
    BY <1>1, <1>3, <1>6, <2>1
  <2>5. UpdateResidence(a, p, r, input)
    BY <1>4, <1>6, <2>3, <2>4 DEF UpdateResidence
  <2> QED
    BY <2>5 DEF ApplicantRequest
<1>7. ASSUME NEW r \in ResidenceIds,
             r \in ResidencesOf(a),
             work.inserted = {}, DOMAIN work.updated = {}, work.deleted = {r},
             after = [applications[a] EXCEPT !.residencesCompleted =
                         IF ResidencesOf(a) = {r} THEN FALSE ELSE @]
      PROVE  ApplicantRequest(p)
  <2>1. new = {}
    BY <1>1, <1>2, <1>7, FS_EmptySet
  <2>2. /\ residences' = [q \in DOMAIN residences \ {r} |-> residences[q]]
        /\ UNCHANGED issuedResidenceIds
    BY <1>1, <1>7, <2>1
  <2>3. [applications EXCEPT ![a].residencesCompleted =
            IF ResidencesOf(a) = {r} THEN FALSE ELSE @] = [applications EXCEPT ![a] = after]
    BY <1>3, <1>7
  <2>4. RemoveResidence(a, p, r)
    BY <1>4, <1>7, <2>2, <2>3 DEF RemoveResidence
  <2> QED
    BY <2>4 DEF ApplicantRequest
<1> QED
  BY <1>4, <1>5, <1>6, <1>7

\* A draft inserted.
LEMMA StartSaved ==
    ASSUME Inv, NEW work, StartDecided("Saving", work), SaveInsert(work)
    PROVE  \E p \in Applicants : ApplicantRequest(p)
<1>1. PICK u \in Units, p \in Applicants :
         /\ work = Insert(StartedApplication(u, p))
         /\ OpenApplications(u, p) = {}
         /\ u \in units /\ IsUnitAvailableOn(LeasesOf(u), today)
  BY DEF StartDecided
<1>2. work.row = StartedApplication(u, p)
  BY <1>1 DEF Insert
<1>3. PICK a \in ApplicationIds \ issuedApplicationIds :
         applications' = [b \in DOMAIN applications \cup {a} |->
                             IF b = a THEN work.row ELSE applications[b]]
  BY DEF SaveInsert
<1>4. a \in ApplicationIds \ DOMAIN applications
  BY <1>3 DEF Inv, Tables, TablesTyped
<1>5. UNCHANGED <<units, residences, issuedResidenceIds, leases, today>>
  BY DEF SaveInsert
<1>6. Start(u, p)
  BY <1>1, <1>2, <1>3, <1>4, <1>5 DEF Start
<1> QED
  BY <1>6 DEF ApplicantRequest

\* The columns and rows of a decision about one application.
LEMMA ChangeSaved ==
    ASSUME Inv, NEW work, ChangeDecided(work), SaveApplication(work)
    PROVE  \/ \E p \in Applicants : ApplicantRequest(p)
           \/ \E m \in Managers : ManagerRequest(m)
<1> DEFINE a     == work.application
           after == SavedRow(applications[a], work)
<1>1. /\ a \in ApplicationIds /\ a \in DOMAIN applications
      /\ \/ NoResidencesIn(work) /\ work.leases = {} /\ RowDecided(work, a, after)
         \/ NoResidencesIn(work) /\ ApprovalDecided(work, a, after)
         \/ work.leases = {} /\ ResidencesDecided(work, a, after)
  BY Zenon DEF ChangeDecided
<1>2. /\ applications' = [applications EXCEPT ![a] = after]
      /\ leases' = leases \cup work.leases
      /\ SaveResidences(work)
      /\ UNCHANGED <<units, today>>
  BY DEF SaveApplication
<1>3. work.leases = {} => leases' = leases
  BY <1>2
<1>4. NoResidencesIn(work) => UNCHANGED <<residences, issuedResidenceIds>>
  BY <1>2, NoResidencesSaved
<1> HIDE DEF a, after
<1>5. CASE NoResidencesIn(work) /\ work.leases = {} /\ RowDecided(work, a, after)
  <2>1. UNCHANGED <<units, residences, issuedResidenceIds, leases, today>>
    BY <1>2, <1>3, <1>4, <1>5
  <2>2. \/ InformationDecided(work, a, after) \/ HistoryDecided(work, a, after)
        \/ SubmissionDecided(work, a, after) \/ WithdrawalDecided(work, a, after)
        \/ RejectionDecided(work, a, after) \/ NotesDecided(work, a, after)
    BY <1>5 DEF RowDecided
  <2> QED
    BY <1>1, <1>2, <2>1, <2>2, EditSaved, DecisionSaved
<1>6. CASE NoResidencesIn(work) /\ ApprovalDecided(work, a, after)
  BY <1>1, <1>2, <1>4, <1>6, ApprovalSaved
<1>7. CASE work.leases = {} /\ ResidencesDecided(work, a, after)
  BY <1>1, <1>2, <1>3, <1>7, ResidencesSaved
<1> QED
  BY <1>1, <1>5, <1>6, <1>7
----------------------------------------------------------------------------
(* Requests that are in each other's way *)

\* The parts of an application that work is about: a change of status is about all
\* of it, the managers' notes about none.
Concerns(work) ==
    {part \in {"information", "residences"} :
        \/ "status" \in DOMAIN work.writes
        \/ part = "information" /\ DOMAIN work.writes \cap InformationColumns # {}
        \/ part = "residences" /\ ("residencesCompleted" \in DOMAIN work.writes
                                      \/ ~NoResidencesIn(work))}

\* The work was decided on the unit being free: a start, a submission, an approval.
NeedsVacancy(work, unit) ==
    \/ work.kind = "Insert" /\ work.row.unit = unit
    \/ work.kind = "Application" /\ \E l \in work.leases : l.unit = unit
    \/ /\ work.kind = "Application"
       /\ "status" \in DOMAIN work.writes /\ work.writes["status"] = "Submitted"
       /\ work.application \in DOMAIN applications
       /\ applications[work.application].unit = unit

\* Two changes to one part of an application; a unit that is let and work that
\* needs it free; an applicant's two starts for a unit; a start for a unit and the
\* removal of the unit.
Conflict(v, w) ==
    \/ /\ v.kind = "Application" /\ w.kind = "Application"
       /\ v.application = w.application
       /\ Concerns(v) \cap Concerns(w) # {}
    \/ v.kind = "Application" /\ \E l \in v.leases : NeedsVacancy(w, l.unit)
    \/ /\ v.kind = "Insert" /\ w.kind = "Insert"
       /\ v.row.unit = w.row.unit /\ v.row.applicant = w.row.applicant
    \/ v.kind = "Insert" /\ w.kind = "Delete" /\ v.row.unit = w.unit

\* No two requests under way are in each other's way.
ConflictsApart ==
    \A s, t \in Slots :
        s # t /\ requests[s] # Idle /\ requests[t] # Idle => ~Conflict(WorkOf(s), WorkOf(t))

\* Saving the work again does no more: a removal and a lease are refused the second
\* time, and columns written again hold what they held.
Repeatable(work) ==
    \/ work.kind = "Delete"
    \/ /\ work.kind = "Application" /\ work.inserted = {}
       /\ work.leases # {} \/ "status" \notin DOMAIN work.writes

\* The answers that are lost are those to such saves.
RepeatsAreSafe == \A s \in Slots : CommitUnanswered(s) => Repeatable(WorkOf(s))

\* A handler reads the date once, and saves on that date what it decided on a unit
\* being free.
DaysPassAside ==
    today' # today =>
        \A s \in Slots : requests[s] # Idle => \A u \in Units : ~NeedsVacancy(WorkOf(s), u)

----------------------------------------------------------------------------
(* What stands of a decision while other requests are served *)

\* Notes, whatever the row they are sent to.
SendsNotes(work) ==
    /\ work.kind = "Application" /\ work.application \in ApplicationIds
    /\ NoResidencesIn(work) /\ work.leases = {} /\ work.entries = <<>>
    /\ Writes(work, {"managerNotes"})
    /\ "managerNotes" \in DOMAIN work.writes =>
          \E m \in Managers, n \in Field(Notes) : work.writes["managerNotes"] = Trimmed(n)

\* Saved before, and refused from now on: the application has its lease, or the
\* residence has gone.
IsSpent(work) ==
    /\ work.kind = "Application"
    /\ \/ \E l \in work.leases, k \in leases : k.application = l.application
       \/ \E r \in work.deleted : r \in issuedResidenceIds /\ r \notin DOMAIN residences

StartStands(phase, work) ==
    \E u \in Units, p \in Applicants :
        /\ work = Insert(StartedApplication(u, p))
        /\ OpenApplications(u, p) = {}
        /\ phase = "Saving" => IsUnitAvailableOn(LeasesOf(u), today)

RemovalStands(phase, work) ==
    \E u \in Units :
        /\ work = Delete(u)
        /\ phase = "Saving" => ~ \E a \in DOMAIN applications : applications[a].unit = u

Stands(phase, work) ==
    \/ phase \in {"OpenChecked", "Saving"} /\ StartStands(phase, work)
    \/ phase \in {"UnitLoaded", "LeasesChecked", "Saving"} /\ RemovalStands(phase, work)
    \/ phase = "Saving" /\ (ChangeDecided(work) \/ SendsNotes(work) \/ IsSpent(work))

LEMMA DecidedStands ==
    ASSUME NEW phase, NEW work, Decided(phase, work)
    PROVE  Stands(phase, work)
<1>1. StartDecided(phase, work) => StartStands(phase, work)
  BY Zenon DEF StartDecided, StartStands
<1>2. RemovalDecided(phase, work) => RemovalStands(phase, work)
  BY Zenon DEF RemovalDecided, RemovalStands
<1> QED
  BY <1>1, <1>2, Zenon DEF Decided, Stands

\* The columns of a saved row: what was written, and the others as they were.
IsSaved(row, work, after) ==
    /\ after \in ApplicationRow
    /\ after.unit = row.unit /\ after.applicant = row.applicant
    /\ after.history = row.history \o work.entries
    /\ after.status = Column(work, "status", row.status)
    /\ after.information = Column(work, "information", row.information)
    /\ after.informationCompleted
          = Column(work, "informationCompleted", row.informationCompleted)
    /\ after.residencesCompleted
          = Column(work, "residencesCompleted", row.residencesCompleted)
    /\ after.reviewComment = Column(work, "reviewComment", row.reviewComment)
    /\ after.managerNotes = Column(work, "managerNotes", row.managerNotes)

LEMMA SavedFields ==
    ASSUME NEW row \in ApplicationRow, NEW work, IsChange(work)
    PROVE  IsSaved(row, work, SavedRow(row, work))
<1> DEFINE after == SavedRow(row, work)
<1>1. /\ after \in ApplicationRow
      /\ after.unit = row.unit /\ after.applicant = row.applicant
      /\ after.history = row.history \o work.entries
      /\ after.status = Column(work, "status", row.status)
  BY SavedType
<1>2. /\ after.information = Column(work, "information", row.information)
      /\ after.informationCompleted
            = Column(work, "informationCompleted", row.informationCompleted)
      /\ after.residencesCompleted
            = Column(work, "residencesCompleted", row.residencesCompleted)
      /\ after.reviewComment = Column(work, "reviewComment", row.reviewComment)
      /\ after.managerNotes = Column(work, "managerNotes", row.managerNotes)
  BY DEF SavedRow, ApplicationRow
<1> HIDE DEF after
<1>3. IsSaved(row, work, after)
  BY <1>1, <1>2 DEF IsSaved
<1> QED
  BY <1>3 DEF after

\* Rows with the same columns are the same.
LEMMA SameRow ==
    ASSUME NEW row \in ApplicationRow, NEW other \in ApplicationRow,
           row.unit = other.unit, row.applicant = other.applicant, row.status = other.status,
           row.information = other.information,
           row.informationCompleted = other.informationCompleted,
           row.residencesCompleted = other.residencesCompleted,
           row.reviewComment = other.reviewComment, row.managerNotes = other.managerNotes,
           row.history = other.history
    PROVE  row = other
BY DEF ApplicationRow

\* A change of status is one of four decisions.
Moves(work, a, after) ==
    \/ work.leases = {} /\ SubmissionDecided(work, a, after)
    \/ work.leases = {} /\ WithdrawalDecided(work, a, after)
    \/ work.leases = {} /\ RejectionDecided(work, a, after)
    \/ ApprovalDecided(work, a, after)

\* What leaves the status writes to a section, or the notes.
Edits(work, a, after) ==
    \/ InformationDecided(work, a, after) /\ NoResidencesIn(work)
    \/ HistoryDecided(work, a, after) /\ NoResidencesIn(work)
    \/ NotesDecided(work, a, after) /\ NoResidencesIn(work)
    \/ ResidencesDecided(work, a, after)

LEMMA ChangeKinds ==
    ASSUME Inv, NEW work, IsChange(work), ChangeDecided(work), NEW a, NEW row, NEW after,
           a = work.application, row = applications[a], after = SavedRow(row, work)
    PROVE  /\ a \in ApplicationIds /\ a \in DOMAIN applications /\ row \in ApplicationRow
           /\ \/ /\ "status" \in DOMAIN work.writes /\ row.status \in OpenStatuses
                 /\ work.writes["status"] = after.status
                 /\ NoResidencesIn(work) /\ Writes(work, DecisionColumns)
                 /\ Moves(work, a, after)
              \/ /\ "status" \notin DOMAIN work.writes /\ work.leases = {}
                 /\ work.entries = <<>>
                 /\ Edits(work, a, after)
<1>1. /\ a \in ApplicationIds /\ a \in DOMAIN applications
      /\ \/ NoResidencesIn(work) /\ work.leases = {} /\ RowDecided(work, a, after)
         \/ NoResidencesIn(work) /\ ApprovalDecided(work, a, after)
         \/ work.leases = {} /\ ResidencesDecided(work, a, after)
  BY DEF ChangeDecided
<1>2. row \in ApplicationRow
  BY <1>1 DEF Inv, Tables, TablesTyped, TypeOK
<1>3. after.status = Column(work, "status", row.status)
  BY <1>2, SavedType
<1>4. ASSUME Moves(work, a, after)
      PROVE  /\ row.status \in OpenStatuses /\ after.status # row.status
             /\ Writes(work, DecisionColumns)
  <2>1. CASE SubmissionDecided(work, a, after)
    <3>1. CanSubmit(row.status) /\ after.status = "Submitted" /\ Writes(work, DecisionColumns)
      BY <1>2, <2>1 DEF SubmissionDecided, TransitionTo, ApplicationRow
    <3> QED
      BY <3>1 DEF CanSubmit, CanTransition, Transitions, OpenStatuses, IsTerminal
  <2>2. CASE WithdrawalDecided(work, a, after)
    <3>1. CanWithdraw(row.status) /\ after.status = "Withdrawn" /\ Writes(work, DecisionColumns)
      BY <1>2, <2>2 DEF WithdrawalDecided, TransitionTo, ApplicationRow
    <3> QED
      BY <3>1 DEF CanWithdraw, CanTransition, Transitions, OpenStatuses, IsTerminal
  <2>3. CASE RejectionDecided(work, a, after)
    <3>1. /\ CanReview(row.status) /\ after.status \in {"Returned", "Denied"}
          /\ Writes(work, DecisionColumns)
      BY <1>2, <2>3 DEF RejectionDecided, Reviewed, TransitionTo, ToStatus, ApplicationRow
    <3> QED
      BY <3>1 DEF CanReview, Transitions, OpenStatuses, IsTerminal, ApplicationStatus
  <2>4. CASE ApprovalDecided(work, a, after)
    <3>1. /\ CanReview(row.status) /\ after.status = "Approved"
          /\ Writes(work, DecisionColumns)
      BY <1>2, <2>4 DEF ApprovalDecided, Reviewed, TransitionTo, ToStatus, ApplicationRow
    <3> QED
      BY <3>1 DEF CanReview, Transitions, OpenStatuses, IsTerminal, ApplicationStatus
  <2> QED
    BY <1>4, <2>1, <2>2, <2>3, <2>4 DEF Moves
<1>5. ASSUME Edits(work, a, after)
      PROVE  "status" \notin DOMAIN work.writes
  <2>1. \/ Writes(work, InformationColumns)
        \/ Writes(work, {"residencesCompleted"})
        \/ Writes(work, {"managerNotes"})
    BY <1>5, Zenon DEF Edits, InformationDecided, HistoryDecided, NotesDecided,
                       ResidencesDecided
  <2> QED
    BY <2>1 DEF Writes, InformationColumns
<1>6. \/ NoResidencesIn(work) /\ Moves(work, a, after)
      \/ work.leases = {} /\ Edits(work, a, after)
  BY <1>1, Zenon DEF RowDecided, Moves, Edits
<1>7. CASE Moves(work, a, after) /\ NoResidencesIn(work)
  BY <1>1, <1>2, <1>3, <1>4, <1>7 DEF Column
<1>8. CASE work.leases = {} /\ Edits(work, a, after)
  <2>1. work.entries = <<>>
    BY <1>5, <1>8 DEF IsChange, AreEntries
  <2> QED
    BY <1>1, <1>2, <1>5, <1>8, <2>1
<1> QED
  BY <1>6, <1>7, <1>8

\* The row of a change is still there, and so is what the change is about.
RowKept(work) ==
    LET a   == work.application
        row == applications[a]
        now == applications'[a]
    IN  /\ a \in DOMAIN applications'
        /\ now.unit = row.unit /\ now.applicant = row.applicant
        /\ now.status = row.status /\ now.reviewComment = row.reviewComment
        /\ now.history = row.history
        /\ "information" \in Concerns(work) =>
              /\ now.information = row.information
              /\ now.informationCompleted = row.informationCompleted
        /\ "residences" \in Concerns(work) =>
              /\ now.residencesCompleted = row.residencesCompleted
              /\ ResidencesIn(residences', a) = ResidencesOf(a)
              /\ \A r \in ResidencesOf(a) : residences'[r] = residences[r]

\* What a step may do beside work that waits to be saved.
Undisturbed(work) ==
    /\ today' >= today
    /\ leases \subseteq leases'
    /\ issuedResidenceIds \subseteq issuedResidenceIds'
    /\ \A r \in issuedResidenceIds \ DOMAIN residences : r \notin DOMAIN residences'
    /\ \A u \in Units : NeedsVacancy(work, u) => today' = today /\ LeasesOf(u)' = LeasesOf(u)
    /\ work.kind = "Insert" =>
          OpenApplications(work.row.unit, work.row.applicant)'
             \subseteq OpenApplications(work.row.unit, work.row.applicant)
    /\ work.kind = "Delete" =>
          \A a \in DOMAIN applications' : applications'[a].unit = work.unit =>
              \E b \in DOMAIN applications : applications[b].unit = work.unit
    /\ work.kind = "Application" /\ ChangeDecided(work) /\ Concerns(work) # {} => RowKept(work)

\* What concerns no part of the application is notes, or nothing.
LEMMA AsideIsNotes ==
    ASSUME Inv, NEW work, IsChange(work), ChangeDecided(work), Concerns(work) = {}
    PROVE  SendsNotes(work)
<1>1. PICK a, row, after :
         a = work.application /\ row = applications[a] /\ after = SavedRow(row, work)
  OBVIOUS
<1>2. /\ "status" \notin DOMAIN work.writes
      /\ DOMAIN work.writes \cap InformationColumns = {}
      /\ "residencesCompleted" \notin DOMAIN work.writes
      /\ NoResidencesIn(work)
  <2>1. "information" \notin Concerns(work) /\ "residences" \notin Concerns(work)
    OBVIOUS
  <2> QED
    BY <2>1 DEF Concerns
<1>3. /\ a \in ApplicationIds /\ row \in ApplicationRow
      /\ work.leases = {} /\ work.entries = <<>> /\ Edits(work, a, after)
  BY <1>1, <1>2, ChangeKinds
<1>4. work.kind = "Application"
  BY DEF ChangeDecided
<1>5. CASE NotesDecided(work, a, after)
  <2>1. PICK m \in Managers, n \in Field(Notes) :
           /\ Writes(work, {"managerNotes"})
           /\ after = [applications[a] EXCEPT !.managerNotes = Trimmed(n)]
    BY <1>5 DEF NotesDecided
  <2>2. after.managerNotes = Trimmed(n)
    BY <1>1, <1>3, <2>1 DEF ApplicationRow
  <2>3. after.managerNotes = Column(work, "managerNotes", row.managerNotes)
    BY <1>1, <1>3, SavedFields DEF IsSaved
  <2>4. "managerNotes" \in DOMAIN work.writes => work.writes["managerNotes"] = Trimmed(n)
    BY <2>2, <2>3 DEF Column
  <2> QED
    BY <1>1, <1>2, <1>3, <1>4, <2>1, <2>4 DEF SendsNotes
<1>6. CASE ~NotesDecided(work, a, after)
  <2>1. Writes(work, InformationColumns) \/ Writes(work, {"residencesCompleted"})
    BY <1>3, <1>6, Zenon DEF Edits, InformationDecided, HistoryDecided, ResidencesDecided
  <2>2. DOMAIN work.writes = {}
    BY <1>2, <2>1 DEF Writes
  <2> QED
    BY <1>1, <1>2, <1>3, <1>4, <2>2 DEF SendsNotes, Writes
<1> QED
  BY <1>5, <1>6

\* A decision about the status stands.
LEMMA DecisionStays ==
    ASSUME Inv, Inv', NEW work, IsChange(work), ChangeDecided(work), Undisturbed(work),
           "status" \in DOMAIN work.writes
    PROVE  ChangeDecided(work)'
<1>1. PICK a, row, after, now, later :
         /\ a = work.application /\ row = applications[a] /\ after = SavedRow(row, work)
         /\ now = applications'[a] /\ later = SavedRow(now, work)
  OBVIOUS
<1>2. /\ work.kind = "Application" /\ a \in ApplicationIds
      /\ a \in DOMAIN applications /\ row \in ApplicationRow
      /\ work.writes["status"] = after.status
      /\ NoResidencesIn(work) /\ Writes(work, DecisionColumns)
      /\ Moves(work, a, after)
  BY <1>1, ChangeKinds DEF ChangeDecided
<1>3. Concerns(work) = {"information", "residences"}
  BY DEF Concerns
<1>4. /\ a \in DOMAIN applications'
      /\ now.unit = row.unit /\ now.applicant = row.applicant
      /\ now.status = row.status /\ now.reviewComment = row.reviewComment
      /\ now.history = row.history
      /\ now.information = row.information
      /\ now.informationCompleted = row.informationCompleted
      /\ now.residencesCompleted = row.residencesCompleted
  BY <1>1, <1>2, <1>3 DEF Undisturbed, RowKept
<1>5. now \in ApplicationRow
  BY <1>1, <1>4 DEF Inv, Tables, TablesTyped, TypeOK
<1>6. now = [row EXCEPT !.managerNotes = now.managerNotes]
  BY <1>2, <1>4, <1>5 DEF ApplicationRow
<1>7. later = [after EXCEPT !.managerNotes = now.managerNotes]
  <2>1. IsSaved(row, work, after) /\ IsSaved(now, work, later)
    BY <1>1, <1>2, <1>5, SavedFields
  <2>2. "managerNotes" \notin DOMAIN work.writes
    BY <1>2 DEF Writes, DecisionColumns
  <2>3. later.managerNotes = now.managerNotes
    BY <2>1, <2>2 DEF IsSaved, Column
  <2>4. /\ later.unit = after.unit /\ later.applicant = after.applicant
        /\ later.status = after.status /\ later.information = after.information
        /\ later.informationCompleted = after.informationCompleted
        /\ later.residencesCompleted = after.residencesCompleted
        /\ later.reviewComment = after.reviewComment /\ later.history = after.history
    BY <1>4, <2>1 DEF IsSaved
  <2>5. after \in ApplicationRow /\ later \in ApplicationRow
    BY <2>1 DEF IsSaved
  <2> QED
    BY <2>3, <2>4, <2>5 DEF ApplicationRow
<1>16. PICK notes : now = [row EXCEPT !.managerNotes = notes]
                      /\ later = [after EXCEPT !.managerNotes = notes]
  BY <1>6, <1>7
<1>8. /\ \A p : OwnedBy(a, p) => OwnedBy(a, p)'
      /\ HistoryBound(a) => HistoryBound(a)'
      /\ AllSectionsCompleted(row) => AllSectionsCompleted(now)
      /\ CanReview(row.status) => CanReview(now.status)
  BY <1>1, <1>4 DEF OwnedBy, IsOwnedBy, HistoryBound, AllSectionsCompleted
<1>9. row.unit \in Units
  BY <1>2 DEF ApplicationRow
<1>10. ASSUME SubmissionDecided(work, a, after)
       PROVE  SubmissionDecided(work, a, later)'
  <2>1. PICK p \in Applicants :
           /\ Writes(work, DecisionColumns)
           /\ OwnedBy(a, p)
           /\ CanSubmit(row.status)
           /\ AllSectionsCompleted(row)
           /\ IsUnitAvailableOn(LeasesOf(row.unit), today)
           /\ HistoryBound(a)
           /\ after = [TransitionTo(row, "Submitted", p, NoText) EXCEPT !.reviewComment = NoText]
    BY <1>1, <1>10, Zenon DEF SubmissionDecided
  <2>2. after.status = "Submitted"
    BY <1>2, <2>1 DEF TransitionTo, ApplicationRow
  <2>3. NeedsVacancy(work, row.unit)
    BY <1>1, <1>2, <2>2 DEF NeedsVacancy
  <2>4. today' = today /\ LeasesOf(row.unit)' = LeasesOf(row.unit)
    BY <1>9, <2>3, Zenon DEF Undisturbed
  <2>5. later = [TransitionTo(now, "Submitted", p, NoText) EXCEPT !.reviewComment = NoText]
    BY <1>2, <1>16, <2>1 DEF TransitionTo, ApplicationRow
  <2>6. IsUnitAvailableOn(LeasesOf(now.unit)', today')
    BY <1>4, <2>1, <2>4
  <2> QED
    BY <1>1, <1>4, <1>8, <2>1, <2>5, <2>6, Zenon DEF SubmissionDecided
<1>11. ASSUME WithdrawalDecided(work, a, after)
       PROVE  WithdrawalDecided(work, a, later)'
  <2>1. PICK p \in Applicants, c \in Field(Comments) :
           /\ Writes(work, DecisionColumns)
           /\ OwnedBy(a, p)
           /\ CanWithdraw(row.status)
           /\ HistoryBound(a)
           /\ after = TransitionTo(row, "Withdrawn", p, c)
    BY <1>1, <1>11, Zenon DEF WithdrawalDecided
  <2>2. later = TransitionTo(now, "Withdrawn", p, c)
    BY <1>2, <1>16, <2>1 DEF TransitionTo, ApplicationRow
  <2> QED
    BY <1>1, <1>4, <1>8, <2>1, <2>2, Zenon DEF WithdrawalDecided
<1>12. ASSUME NEW m, NEW o, NEW c, after = Reviewed(row, o, m, c)
       PROVE  later = Reviewed(now, o, m, c)
  BY <1>2, <1>16, <1>12 DEF Reviewed, TransitionTo, ApplicationRow
<1>13. ASSUME RejectionDecided(work, a, after)
       PROVE  RejectionDecided(work, a, later)'
  <2>1. PICK m \in Managers, o \in {"Return", "Deny"}, c \in Field(Comments) :
           /\ Writes(work, DecisionColumns)
           /\ CanReview(row.status)
           /\ ~(RequiresComment(o) /\ IsBlank(c))
           /\ HistoryBound(a)
           /\ after = Reviewed(row, o, m, c)
    BY <1>1, <1>13, Zenon DEF RejectionDecided
  <2>2. later = Reviewed(now, o, m, c)
    BY <1>12, <2>1
  <2> QED
    BY <1>1, <1>8, <2>1, <2>2, Zenon DEF RejectionDecided
<1>14. ASSUME ApprovalDecided(work, a, after)
       PROVE  ApprovalDecided(work, a, later)'
  <2>1. PICK m \in Managers, d \in Days, c \in Field(Comments) :
           /\ Writes(work, DecisionColumns)
           /\ CanReview(row.status)
           /\ CanIssueLease(LeasesOf(row.unit), today, d)
           /\ HistoryBound(a)
           /\ work.leases = {IssuedLease(a, row, d)}
           /\ after = Reviewed(row, "Approve", m, c)
    BY <1>1, <1>14, Zenon DEF ApprovalDecided
  <2>2. NeedsVacancy(work, row.unit)
    BY <1>2, <2>1 DEF NeedsVacancy, IssuedLease
  <2>3. today' = today /\ LeasesOf(row.unit)' = LeasesOf(row.unit)
    BY <1>9, <2>2, Zenon DEF Undisturbed
  <2>4. CanIssueLease(LeasesOf(now.unit)', today', d)
    BY <1>4, <2>1, <2>3
  <2>5. work.leases = {IssuedLease(a, now, d)}
    BY <1>4, <2>1 DEF IssuedLease
  <2>6. later = Reviewed(now, "Approve", m, c)
    BY <1>12, <2>1
  <2> QED
    BY <1>1, <1>8, <2>1, <2>4, <2>5, <2>6, Zenon DEF ApprovalDecided
<1>15. \/ work.leases = {} /\ RowDecided(work, a, later)'
       \/ ApprovalDecided(work, a, later)'
  BY <1>2, <1>10, <1>11, <1>13, <1>14, Zenon DEF Moves, RowDecided
<1> QED
  BY <1>1, <1>2, <1>4, <1>15, Zenon DEF ChangeDecided

\* An edit that concerns a part of the application stands.
LEMMA EditStays ==
    ASSUME Inv, Inv', NEW work, IsChange(work), ChangeDecided(work), Undisturbed(work),
           "status" \notin DOMAIN work.writes, Concerns(work) # {}
    PROVE  ChangeDecided(work)'
<1>1. PICK a, row, after, now, later :
         /\ a = work.application /\ row = applications[a] /\ after = SavedRow(row, work)
         /\ now = applications'[a] /\ later = SavedRow(now, work)
  OBVIOUS
<1>2. /\ work.kind = "Application" /\ a \in ApplicationIds
      /\ a \in DOMAIN applications /\ row \in ApplicationRow
      /\ work.leases = {} /\ work.entries = <<>>
      /\ Edits(work, a, after)
  BY <1>1, ChangeKinds DEF ChangeDecided
<1>3. /\ a \in DOMAIN applications'
      /\ now.unit = row.unit /\ now.applicant = row.applicant
      /\ now.status = row.status /\ now.history = row.history
      /\ "information" \in Concerns(work) =>
            /\ now.information = row.information
            /\ now.informationCompleted = row.informationCompleted
      /\ "residences" \in Concerns(work) =>
            /\ now.residencesCompleted = row.residencesCompleted
            /\ ResidencesOf(a)' = ResidencesOf(a)
            /\ \A r \in ResidencesOf(a) : residences'[r] = residences[r]
  BY <1>1, <1>2 DEF Undisturbed, RowKept, ResidencesOf
<1>4. now \in ApplicationRow
  BY <1>1, <1>3 DEF Inv, Tables, TablesTyped, TypeOK
<1>5. IsSaved(row, work, after) /\ IsSaved(now, work, later)
  BY <1>1, <1>2, <1>4, SavedFields
<1>6. /\ \A p : LoadOwnedEditable(a, p) => LoadOwnedEditable(a, p)'
      /\ \A input \in ResidenceInputs : ValidResidenceDates(input) => ValidResidenceDates(input)'
  <2>1. \A p : LoadOwnedEditable(a, p) => LoadOwnedEditable(a, p)'
    BY <1>1, <1>3 DEF LoadOwnedEditable, OwnedBy, IsOwnedBy
  <2>2. today \in Int /\ today' \in Int
    BY CalendarAssumption DEF Inv, Tables, TablesTyped, TypeOK
  <2>3. today' >= today
    BY DEF Undisturbed
  <2>4. \A input \in ResidenceInputs : input.moveInDate \in Int /\ input.moveOutDate \in Int
    BY CalendarAssumption, SeedAssumption
  <2> QED
    BY <2>1, <2>2, <2>3, <2>4 DEF ValidResidenceDates
<1>7. later.history = now.history
  <2>1. now.history \in Seq(HistoryRow)
    BY <1>4 DEF ApplicationRow
  <2>2. now.history \o <<>> = now.history
    BY <2>1, ConcatEmptySeq
  <2> QED
    BY <1>2, <1>5, <2>2 DEF IsSaved
<1>8. CASE InformationDecided(work, a, after) /\ NoResidencesIn(work)
  <2>1. PICK p \in Applicants, i \in Answers :
           /\ Writes(work, InformationColumns)
           /\ LoadOwnedEditable(a, p)
           /\ after = [row EXCEPT !.information = i, !.informationCompleted = TRUE]
    BY <1>1, <1>8, Zenon DEF InformationDecided
  <2>2. "information" \in Concerns(work)
    BY <1>8, <2>1 DEF Concerns, Writes, InformationColumns
  <2>3. after.information = i /\ after.informationCompleted = TRUE
    BY <1>2, <2>1 DEF ApplicationRow
  <2>4. later.information = i /\ later.informationCompleted = TRUE
    BY <1>3, <1>5, <2>2, <2>3 DEF IsSaved, Column
  <2>5. /\ later.status = now.status /\ later.residencesCompleted = now.residencesCompleted
        /\ later.reviewComment = now.reviewComment /\ later.managerNotes = now.managerNotes
        /\ later.unit = now.unit /\ later.applicant = now.applicant
    BY <1>5, <2>1 DEF IsSaved, Column, Writes, InformationColumns
  <2>6. later \in ApplicationRow
    BY <1>5 DEF IsSaved
  <2>7. later = [now EXCEPT !.information = i, !.informationCompleted = TRUE]
    BY <1>4, <1>7, <2>4, <2>5, <2>6 DEF ApplicationRow
  <2>8. InformationDecided(work, a, later)'
    BY <1>1, <1>6, <2>1, <2>7, Zenon DEF InformationDecided
  <2> QED
    BY <1>1, <1>2, <1>3, <1>8, <2>8, Zenon DEF ChangeDecided, RowDecided
<1>9. CASE HistoryDecided(work, a, after) /\ NoResidencesIn(work)
  <2>1. PICK p \in Applicants :
           /\ Writes(work, {"residencesCompleted"})
           /\ LoadOwnedEditable(a, p)
           /\ ResidencesOf(a) # {}
           /\ after = [row EXCEPT !.residencesCompleted = TRUE]
    BY <1>1, <1>9, Zenon DEF HistoryDecided
  <2>2. "residences" \in Concerns(work)
    BY <1>9, <2>1 DEF Concerns, Writes, InformationColumns
  <2>3. after.residencesCompleted = TRUE
    BY <1>2, <2>1 DEF ApplicationRow
  <2>4. later.residencesCompleted = TRUE
    BY <1>3, <1>5, <2>2, <2>3 DEF IsSaved, Column
  <2>5. /\ later.status = now.status /\ later.information = now.information
        /\ later.informationCompleted = now.informationCompleted
        /\ later.reviewComment = now.reviewComment /\ later.managerNotes = now.managerNotes
        /\ later.unit = now.unit /\ later.applicant = now.applicant
    BY <1>5, <2>1 DEF IsSaved, Column, Writes
  <2>6. later \in ApplicationRow
    BY <1>5 DEF IsSaved
  <2>7. later = [now EXCEPT !.residencesCompleted = TRUE]
    BY <1>4, <1>7, <2>4, <2>5, <2>6 DEF ApplicationRow
  <2>8. ResidencesOf(a)' # {}
    BY <1>3, <2>1, <2>2
  <2>9. HistoryDecided(work, a, later)'
    BY <1>1, <1>6, <2>1, <2>7, <2>8, Zenon DEF HistoryDecided
  <2> QED
    BY <1>1, <1>2, <1>3, <1>9, <2>9, Zenon DEF ChangeDecided, RowDecided
<1>10. CASE NotesDecided(work, a, after) /\ NoResidencesIn(work)
  <2>1. Writes(work, {"managerNotes"})
    BY <1>10, Zenon DEF NotesDecided
  <2> QED
    BY <1>10, <2>1 DEF Concerns, Writes, InformationColumns
<1>11. CASE ResidencesDecided(work, a, after)
  <2>1. PICK p \in Applicants :
          /\ Writes(work, {"residencesCompleted"})
          /\ LoadOwnedEditable(a, p)
          /\ \/ \E input \in ResidenceInputs :
                   /\ ValidResidenceDates(input)
                   /\ work.inserted = {RowFor(a, input)}
                   /\ DOMAIN work.updated = {} /\ work.deleted = {}
                   /\ after = row
             \/ \E r \in ResidenceIds, input \in ResidenceInputs :
                   /\ ValidResidenceDates(input)
                   /\ r \in ResidencesOf(a)
                   /\ work.inserted = {} /\ work.deleted = {}
                   /\ DOMAIN work.updated \subseteq {r}
                   /\ r \in DOMAIN work.updated => work.updated[r] = RowFor(a, input)
                   /\ r \notin DOMAIN work.updated => residences[r] = RowFor(a, input)
                   /\ after = row
             \/ \E r \in ResidenceIds :
                   /\ r \in ResidencesOf(a)
                   /\ work.inserted = {} /\ DOMAIN work.updated = {} /\ work.deleted = {r}
                   /\ after = [row EXCEPT !.residencesCompleted =
                                  IF ResidencesOf(a) = {r} THEN FALSE ELSE @]
    BY <1>1, <1>11, Zenon DEF ResidencesDecided
  <2>2. "residences" \in Concerns(work)
    BY <2>1 DEF Concerns, Writes, InformationColumns
  <2>3. /\ later.status = now.status /\ later.information = now.information
        /\ later.informationCompleted = now.informationCompleted
        /\ later.reviewComment = now.reviewComment /\ later.managerNotes = now.managerNotes
        /\ later.unit = now.unit /\ later.applicant = now.applicant
    BY <1>5, <2>1 DEF IsSaved, Column, Writes
  <2>4. later.residencesCompleted = after.residencesCompleted
    BY <1>3, <1>5, <2>2 DEF IsSaved
  <2>5. later \in ApplicationRow
    BY <1>5 DEF IsSaved
  <2>6. after = row => later = now
    BY <1>3, <1>4, <1>7, <2>2, <2>3, <2>4, <2>5, SameRow
  <2>7. ASSUME NEW input \in ResidenceInputs,
               ValidResidenceDates(input), work.inserted = {RowFor(a, input)},
               DOMAIN work.updated = {}, work.deleted = {}, after = row
        PROVE  ResidencesDecided(work, a, later)'
    BY <1>1, <1>6, <2>1, <2>6, <2>7, Zenon DEF ResidencesDecided
  <2>8. ASSUME NEW r \in ResidenceIds, NEW input \in ResidenceInputs,
               ValidResidenceDates(input), r \in ResidencesOf(a),
               work.inserted = {}, work.deleted = {}, DOMAIN work.updated \subseteq {r},
               r \in DOMAIN work.updated => work.updated[r] = RowFor(a, input),
               r \notin DOMAIN work.updated => residences[r] = RowFor(a, input),
               after = row
        PROVE  ResidencesDecided(work, a, later)'
    <3>1. r \in ResidencesOf(a)' /\ residences'[r] = residences[r]
      BY <1>3, <2>2, <2>8
    <3> QED
      BY <1>1, <1>6, <2>1, <2>6, <2>8, <3>1, Zenon DEF ResidencesDecided
  <2>9. ASSUME NEW r \in ResidenceIds, r \in ResidencesOf(a),
               work.inserted = {}, DOMAIN work.updated = {}, work.deleted = {r},
               after = [row EXCEPT !.residencesCompleted =
                           IF ResidencesOf(a) = {r} THEN FALSE ELSE @]
        PROVE  ResidencesDecided(work, a, later)'
    <3>1. r \in ResidencesOf(a)' /\ ResidencesOf(a)' = ResidencesOf(a)
      BY <1>3, <2>2, <2>9
    <3>2. after.residencesCompleted =
             IF ResidencesOf(a) = {r} THEN FALSE ELSE row.residencesCompleted
      BY <1>2, <2>9 DEF ApplicationRow
    <3>3. later.residencesCompleted =
             IF ResidencesOf(a) = {r} THEN FALSE ELSE now.residencesCompleted
      BY <1>3, <2>2, <2>4, <3>2
    <3>4. later = [now EXCEPT !.residencesCompleted =
                      IF ResidencesOf(a) = {r} THEN FALSE ELSE @]
      BY <1>4, <1>7, <2>3, <2>5, <3>3 DEF ApplicationRow
    <3>5. later = [now EXCEPT !.residencesCompleted =
                      IF ResidencesOf(a)' = {r} THEN FALSE ELSE @]
      BY <3>1, <3>4
    <3> QED
      BY <1>1, <1>6, <2>1, <2>9, <3>1, <3>5, Zenon DEF ResidencesDecided
  <2>10. ResidencesDecided(work, a, later)'
    BY <2>1, <2>7, <2>8, <2>9
  <2> QED
    BY <1>1, <1>2, <1>3, <2>10, Zenon DEF ChangeDecided
<1> QED
  BY <1>2, <1>8, <1>9, <1>10, <1>11 DEF Edits

\* Whatever waits to be saved stands while it is undisturbed.
LEMMA StandsStays ==
    ASSUME Inv, Inv', NEW phase, NEW work, IsWork(work), Stands(phase, work),
           Undisturbed(work)
    PROVE  Stands(phase, work)'
<1>1. ASSUME phase = "Saving", ChangeDecided(work)
      PROVE  ChangeDecided(work)' \/ SendsNotes(work)
  <2>1. IsChange(work)
    BY <1>1 DEF ChangeDecided, IsWork, IsInsert, IsDelete
  <2> QED
    BY <1>1, <2>1, AsideIsNotes, DecisionStays, EditStays
<1>2. ASSUME IsSpent(work)
      PROVE  IsSpent(work)'
  <2>1. leases \subseteq leases' /\ issuedResidenceIds \subseteq issuedResidenceIds'
        /\ \A r \in issuedResidenceIds \ DOMAIN residences : r \notin DOMAIN residences'
    BY Zenon DEF Undisturbed
  <2> QED
    BY <1>2, <2>1, Zenon DEF IsSpent
<1>3. SendsNotes(work) => SendsNotes(work)'
  BY Zenon DEF SendsNotes
<1>4. ASSUME StartStands(phase, work)
      PROVE  StartStands(phase, work)'
  <2>1. PICK u \in Units, p \in Applicants :
           /\ work = Insert(StartedApplication(u, p))
           /\ OpenApplications(u, p) = {}
           /\ phase = "Saving" => IsUnitAvailableOn(LeasesOf(u), today)
    BY <1>4 DEF StartStands
  <2>2. /\ work.kind = "Insert" /\ work.row.unit = u /\ work.row.applicant = p
    BY <2>1 DEF Insert, StartedApplication
  <2>3. NeedsVacancy(work, u)
    BY <2>2 DEF NeedsVacancy
  <2>4. today' = today /\ LeasesOf(u)' = LeasesOf(u)
    BY <2>3, Zenon DEF Undisturbed
  <2>5. OpenApplications(work.row.unit, work.row.applicant)'
           \subseteq OpenApplications(work.row.unit, work.row.applicant)
    BY <2>2, Zenon DEF Undisturbed
  <2>6. OpenApplications(u, p)' = {}
    BY <2>1, <2>2, <2>5
  <2> QED
    BY <2>1, <2>4, <2>6, Zenon DEF StartStands
<1>5. ASSUME RemovalStands(phase, work)
      PROVE  RemovalStands(phase, work)'
  <2>1. PICK u \in Units :
           /\ work = Delete(u)
           /\ phase = "Saving" => ~ \E a \in DOMAIN applications : applications[a].unit = u
    BY <1>5 DEF RemovalStands
  <2>2. work.kind = "Delete" /\ work.unit = u
    BY <2>1 DEF Delete
  <2>3. phase = "Saving" => ~ \E a \in DOMAIN applications' : applications'[a].unit = u
    BY <2>1, <2>2 DEF Undisturbed
  <2> QED
    BY <2>1, <2>3, Zenon DEF RemovalStands
<1> QED
  BY <1>1, <1>2, <1>3, <1>4, <1>5, Zenon DEF Stands

\* A step that changes no table disturbs nothing.
LEMMA QuietUndisturbed ==
    ASSUME Inv, UNCHANGED vars, NEW work
    PROVE  Undisturbed(work)
<1>1. UNCHANGED <<units, applications, residences, issuedResidenceIds, leases, today>>
  BY DEF vars
<1>2. today \in Int
  BY CalendarAssumption DEF Inv, Tables, TablesTyped, TypeOK
<1>3. today' >= today
  BY <1>1, <1>2
<1>4. \A u \in Units : LeasesOf(u)' = LeasesOf(u)
  BY <1>1 DEF LeasesOf
<1>5. OpenApplications(work.row.unit, work.row.applicant)'
         \subseteq OpenApplications(work.row.unit, work.row.applicant)
  BY <1>1 DEF OpenApplications
<1>6. work.kind = "Application" /\ ChangeDecided(work) => RowKept(work)
  BY <1>1 DEF RowKept, ChangeDecided, ResidencesOf
<1> QED
  BY <1>1, <1>3, <1>4, <1>5, <1>6 DEF Undisturbed

\* The date changes beside work that does not rest on it.
LEMMA ClockUndisturbed ==
    ASSUME Inv, Clock, NEW work, \A u \in Units : ~NeedsVacancy(work, u)
    PROVE  Undisturbed(work)
<1>1. /\ today' = today + 1
      /\ UNCHANGED <<units, applications, residences, issuedResidenceIds, leases>>
  BY DEF Clock, DayPasses
<1>2. today \in Int
  BY CalendarAssumption DEF Inv, Tables, TablesTyped, TypeOK
<1>3. today' >= today
  BY <1>1, <1>2
<1>5. OpenApplications(work.row.unit, work.row.applicant)'
         \subseteq OpenApplications(work.row.unit, work.row.applicant)
  BY <1>1 DEF OpenApplications
<1>6. work.kind = "Application" /\ ChangeDecided(work) => RowKept(work)
  BY <1>1 DEF RowKept, ChangeDecided, ResidencesOf
<1> QED
  BY <1>1, <1>3, <1>5, <1>6 DEF Undisturbed

\* What a decided save is about: one application, its residences and its unit.
LEMMA RowsDecided ==
    ASSUME Inv, NEW work, ChangeDecided(work), SaveApplication(work)
    PROVE  LET a == work.application
           IN  /\ a \in DOMAIN applications
               /\ applications' = [applications EXCEPT ![a] = SavedRow(@, work)]
               /\ \A l \in work.leases : l.unit = applications[a].unit
               /\ DOMAIN work.updated \subseteq ResidencesOf(a)
               /\ work.deleted \subseteq ResidencesOf(a)
               /\ \A r \in DOMAIN work.updated : work.updated[r].application = a
               /\ \A row \in work.inserted : row.application = a
               /\ IsFiniteSet(work.inserted)
<1> DEFINE a == work.application
           after == SavedRow(applications[a], work)
<1>1. /\ a \in DOMAIN applications
      /\ applications' = [applications EXCEPT ![a] = SavedRow(@, work)]
  BY DEF SaveApplication, CanSaveApplication
<1>2. CASE NoResidencesIn(work) /\ work.leases = {}
  BY <1>1, <1>2, FS_EmptySet DEF NoResidencesIn
<1>3. CASE NoResidencesIn(work) /\ ApprovalDecided(work, a, after)
  <2>1. PICK d \in Days : work.leases = {IssuedLease(a, applications[a], d)}
    BY <1>3 DEF ApprovalDecided
  <2> QED
    BY <1>1, <1>3, <2>1, FS_EmptySet DEF NoResidencesIn, IssuedLease
<1>4. CASE work.leases = {} /\ ResidencesDecided(work, a, after)
  <2>1. \/ \E input \in ResidenceInputs :
              /\ work.inserted = {RowFor(a, input)}
              /\ DOMAIN work.updated = {} /\ work.deleted = {}
        \/ \E r \in ResidencesOf(a), input \in ResidenceInputs :
              /\ work.inserted = {} /\ work.deleted = {}
              /\ DOMAIN work.updated \subseteq {r}
              /\ r \in DOMAIN work.updated => work.updated[r] = RowFor(a, input)
        \/ \E r \in ResidencesOf(a) :
              work.inserted = {} /\ DOMAIN work.updated = {} /\ work.deleted = {r}
    BY <1>4, Zenon DEF ResidencesDecided
  <2>2. ASSUME NEW input \in ResidenceInputs, work.inserted = {RowFor(a, input)},
               DOMAIN work.updated = {}, work.deleted = {}
        PROVE  /\ \A row \in work.inserted : row.application = a
               /\ IsFiniteSet(work.inserted)
    <3>1. RowFor(a, input).application = a
      BY DEF RowFor
    <3>2. IsFiniteSet({RowFor(a, input)})
      BY FS_Singleton, Zenon
    <3> QED
      BY <2>2, <3>1, <3>2
  <2>3. ASSUME NEW r \in ResidencesOf(a), NEW input \in ResidenceInputs,
               DOMAIN work.updated \subseteq {r},
               r \in DOMAIN work.updated => work.updated[r] = RowFor(a, input)
        PROVE  /\ DOMAIN work.updated \subseteq ResidencesOf(a)
               /\ \A q \in DOMAIN work.updated : work.updated[q].application = a
    <3>1. \A q \in DOMAIN work.updated : q = r
      BY <2>3
    <3> QED
      BY <2>3, <3>1 DEF RowFor
  <2>4. CASE work.inserted = {}
    <3>1. /\ work.leases = {}
          /\ \A row \in work.inserted : row.application = a
          /\ IsFiniteSet(work.inserted)
      BY <1>4, <2>4, FS_EmptySet
    <3>2. CASE \E input \in ResidenceInputs : DOMAIN work.updated = {} /\ work.deleted = {}
      BY <1>1, <3>1, <3>2
    <3>3. ASSUME NEW r \in ResidencesOf(a), NEW input \in ResidenceInputs, work.deleted = {},
                 DOMAIN work.updated \subseteq {r},
                 r \in DOMAIN work.updated => work.updated[r] = RowFor(a, input)
          PROVE  /\ DOMAIN work.updated \subseteq ResidencesOf(a)
                 /\ work.deleted \subseteq ResidencesOf(a)
                 /\ \A q \in DOMAIN work.updated : work.updated[q].application = a
      BY <2>3, <3>3
    <3>4. CASE \E r \in ResidencesOf(a) : DOMAIN work.updated = {} /\ work.deleted = {r}
      BY <1>1, <3>1, <3>4
    <3> QED
      BY <1>1, <2>1, <3>1, <3>2, <3>3, <3>4
  <2>5. CASE work.inserted # {}
    <3>1. PICK input \in ResidenceInputs :
             /\ work.inserted = {RowFor(a, input)}
             /\ DOMAIN work.updated = {} /\ work.deleted = {}
      BY <2>1, <2>5
    <3>2. /\ \A row \in work.inserted : row.application = a
          /\ IsFiniteSet(work.inserted)
      BY <2>2, <3>1
    <3> QED
      BY <1>1, <1>4, <3>1, <3>2
  <2> QED
    BY <2>4, <2>5
<1>5. QED
  BY <1>2, <1>3, <1>4 DEF ChangeDecided

\* Saving the residences of an application leaves those of the others.
LEMMA OtherResidencesStay ==
    ASSUME Inv, NEW work, NEW a, SaveResidences(work),
           DOMAIN work.updated \subseteq ResidencesOf(a),
           work.deleted \subseteq ResidencesOf(a),
           \A r \in DOMAIN work.updated : work.updated[r].application = a,
           \A row \in work.inserted : row.application = a,
           IsFiniteSet(work.inserted),
           NEW b, b # a
    PROVE  /\ ResidencesIn(residences', b) = ResidencesIn(residences, b)
           /\ \A r \in ResidencesIn(residences, b) : residences'[r] = residences[r]
<1> DEFINE first == CHOOSE row \in work.inserted : TRUE
<1>1. PICK new \in SUBSET (ResidenceIds \ issuedResidenceIds) :
        /\ Cardinality(new) = Cardinality(work.inserted)
        /\ residences' = [r \in new \cup (DOMAIN residences \ work.deleted) |->
              CASE r \in new                 -> first
                [] r \in DOMAIN work.updated -> work.updated[r]
                [] OTHER                     -> residences[r]]
  BY DEF SaveResidences
<1>2. new # {} => first \in work.inserted
  <2>1. new \subseteq ResidenceIds
    OBVIOUS
  <2>2. IsFiniteSet(new)
    BY <2>1, RequestAssumption, FS_Subset
  <2>3. new # {} => \E row \in work.inserted : TRUE
    BY <1>1, <2>2, FS_EmptySet
  <2> QED
    BY <2>3
<1> HIDE DEF first
<1>3. \A r \in new : r \notin DOMAIN residences
  BY DEF Inv, Tables, TablesTyped, TypeOK
<1>4. \A r \in ResidencesOf(a) : residences[r].application = a
  BY DEF ResidencesOf, ResidencesIn
<1>5. ASSUME NEW r \in DOMAIN residences', residences'[r].application = b
      PROVE  r \in ResidencesIn(residences, b)
  <2>1. r \notin new /\ r \notin DOMAIN work.updated
    BY <1>1, <1>2, <1>5
  <2> QED
    BY <1>1, <1>5, <2>1 DEF ResidencesIn
<1>6. ASSUME NEW r \in ResidencesIn(residences, b)
      PROVE  r \in DOMAIN residences' /\ residences'[r] = residences[r]
  <2>1. r \in DOMAIN residences /\ residences[r].application = b
    BY DEF ResidencesIn
  <2>2. r \notin new /\ r \notin work.deleted /\ r \notin DOMAIN work.updated
    BY <1>3, <1>4, <2>1
  <2> QED
    BY <1>1, <2>1, <2>2
<1>7. \A r \in ResidencesIn(residences, b) : residences[r].application = b
  BY DEF ResidencesIn
<1> QED
  BY <1>5, <1>6, <1>7 DEF ResidencesIn

\* Work that is saved was not spent, and is about the rows of one application.
LEMMA SavedRows ==
    ASSUME Inv, NEW work, Stands("Saving", work), SaveApplication(work)
    PROVE  LET a == work.application
           IN  /\ ChangeDecided(work) \/ SendsNotes(work)
               /\ a \in DOMAIN applications
               /\ applications' = [applications EXCEPT ![a] = SavedRow(@, work)]
               /\ leases' = leases \cup work.leases
               /\ DOMAIN work.updated \subseteq ResidencesOf(a)
               /\ work.deleted \subseteq ResidencesOf(a)
               /\ \A r \in DOMAIN work.updated : work.updated[r].application = a
               /\ \A row \in work.inserted : row.application = a
               /\ IsFiniteSet(work.inserted)
               /\ SaveResidences(work)
               /\ UNCHANGED <<units, today>>
<1>1. work.kind = "Application"
  BY DEF SaveApplication
<1>2. ~StartStands("Saving", work) /\ ~RemovalStands("Saving", work)
  BY <1>1 DEF StartStands, RemovalStands, Insert, Delete
<1>3. ~IsSpent(work)
  BY DEF SaveApplication, CanSaveApplication, IsSpent
<1>4. ChangeDecided(work) \/ SendsNotes(work)
  BY <1>2, <1>3, Zenon DEF Stands
<1>5. /\ work.application \in DOMAIN applications
      /\ applications' = [applications EXCEPT ![work.application] = SavedRow(@, work)]
      /\ leases' = leases \cup work.leases
      /\ SaveResidences(work)
      /\ UNCHANGED <<units, today>>
  BY DEF SaveApplication, CanSaveApplication
<1>6. CASE ChangeDecided(work)
  BY <1>5, <1>6, RowsDecided
<1>7. CASE SendsNotes(work)
  BY <1>5, <1>7, FS_EmptySet DEF SendsNotes, NoResidencesIn
<1> QED
  BY <1>4, <1>6, <1>7

\* It is about an application of work that concerns other parts: the row of that
\* work is kept.
LEMMA RowKeptBeside ==
    ASSUME Inv, NEW v, NEW w, IsChange(v), Stands("Saving", v), SaveApplication(v),
           w.kind = "Application", ChangeDecided(w), Concerns(w) # {},
           v.application = w.application, Concerns(v) \cap Concerns(w) = {}
    PROVE  RowKept(w)
<1>1. PICK a, row, now :
         a = v.application /\ row = applications[a] /\ now = SavedRow(row, v)
  OBVIOUS
<1>2. /\ ChangeDecided(v) \/ SendsNotes(v)
      /\ a \in DOMAIN applications
      /\ applications' = [applications EXCEPT ![a] = SavedRow(@, v)]
      /\ SaveResidences(v)
  BY <1>1, SavedRows
<1>3. row \in ApplicationRow
  BY <1>1, <1>2 DEF Inv, Tables, TablesTyped, TypeOK
<1>4. applications'[a] = now /\ a \in DOMAIN applications'
  BY <1>1, <1>2
<1>5. IsSaved(row, v, now)
  BY <1>1, <1>3, SavedFields
<1>6. Concerns(w) \subseteq {"information", "residences"}
  BY DEF Concerns
<1>7. "status" \notin DOMAIN v.writes
  <2>1. "status" \in DOMAIN v.writes => Concerns(v) = {"information", "residences"}
    BY DEF Concerns
  <2> QED
    BY <1>6, <2>1
<1>8. v.entries = <<>> /\ "reviewComment" \notin DOMAIN v.writes
  <2>1. CASE SendsNotes(v)
    BY <2>1 DEF SendsNotes, Writes
  <2>2. CASE ChangeDecided(v)
    <3>1. v.entries = <<>> /\ Edits(v, a, now)
      BY <1>1, <1>7, <2>2, ChangeKinds
    <3>2. \/ Writes(v, InformationColumns)
          \/ Writes(v, {"residencesCompleted"})
          \/ Writes(v, {"managerNotes"})
      BY <3>1, Zenon DEF Edits, InformationDecided, HistoryDecided, NotesDecided,
                         ResidencesDecided
    <3> QED
      BY <3>1, <3>2 DEF Writes, InformationColumns
  <2> QED
    BY <1>2, <2>1, <2>2
<1>9. now.history = row.history
  <2>1. row.history \in Seq(HistoryRow)
    BY <1>3 DEF ApplicationRow
  <2>2. row.history \o <<>> = row.history
    BY <2>1, ConcatEmptySeq
  <2> QED
    BY <1>5, <1>8, <2>2 DEF IsSaved
<1>10. /\ now.unit = row.unit /\ now.applicant = row.applicant
       /\ now.status = row.status /\ now.reviewComment = row.reviewComment
  BY <1>5, <1>7, <1>8 DEF IsSaved, Column
<1>11. ASSUME "information" \in Concerns(w)
       PROVE  /\ now.information = row.information
              /\ now.informationCompleted = row.informationCompleted
  <2>1. "information" \notin Concerns(v)
    BY <1>11
  <2>2. DOMAIN v.writes \cap InformationColumns = {}
    BY <2>1 DEF Concerns
  <2>3. "information" \notin DOMAIN v.writes /\ "informationCompleted" \notin DOMAIN v.writes
    BY <2>2 DEF InformationColumns
  <2> QED
    BY <1>5, <2>3 DEF IsSaved, Column
<1>12. ASSUME "residences" \in Concerns(w)
       PROVE  /\ now.residencesCompleted = row.residencesCompleted
              /\ ResidencesIn(residences', a) = ResidencesOf(a)
              /\ \A r \in ResidencesOf(a) : residences'[r] = residences[r]
  <2>1. "residences" \notin Concerns(v)
    BY <1>12
  <2>2. "residencesCompleted" \notin DOMAIN v.writes /\ NoResidencesIn(v)
    BY <2>1 DEF Concerns
  <2>3. residences' = residences
    BY <1>2, <2>2, NoResidencesSaved
  <2> QED
    BY <1>5, <2>2, <2>3 DEF IsSaved, Column, ResidencesOf
<1> QED
  BY <1>1, <1>4, <1>9, <1>10, <1>11, <1>12 DEF RowKept

\* A change that is saved disturbs none of the work it is not in the way of.
LEMMA ChangeLeaves ==
    ASSUME Inv, NEW v, NEW w, IsChange(v), Stands("Saving", v), SaveApplication(v),
           ~Conflict(v, w)
    PROVE  Undisturbed(w)
<1>1. PICK a, row, now :
         a = v.application /\ row = applications[a] /\ now = SavedRow(row, v)
  OBVIOUS
<1>2. /\ ChangeDecided(v) \/ SendsNotes(v)
      /\ a \in DOMAIN applications
      /\ applications' = [applications EXCEPT ![a] = SavedRow(@, v)]
      /\ leases' = leases \cup v.leases
      /\ DOMAIN v.updated \subseteq ResidencesOf(a)
      /\ v.deleted \subseteq ResidencesOf(a)
      /\ \A r \in DOMAIN v.updated : v.updated[r].application = a
      /\ \A q \in v.inserted : q.application = a
      /\ IsFiniteSet(v.inserted)
      /\ SaveResidences(v)
      /\ UNCHANGED <<units, today>>
  BY <1>1, SavedRows
<1>3. row \in ApplicationRow /\ today \in Int
  BY <1>1, <1>2, CalendarAssumption DEF Inv, Tables, TablesTyped, TypeOK
<1>4. /\ applications'[a] = now /\ DOMAIN applications' = DOMAIN applications
      /\ \A b \in DOMAIN applications : b # a => applications'[b] = applications[b]
  BY <1>1, <1>2
<1>5. IsSaved(row, v, now)
  BY <1>1, <1>3, SavedFields
<1>6. now.unit = row.unit /\ now.applicant = row.applicant
  BY <1>5 DEF IsSaved
<1>7. now.status # row.status => row.status \in OpenStatuses
  <2>1. "status" \notin DOMAIN v.writes => now.status = row.status
    BY <1>5 DEF IsSaved, Column
  <2>2. SendsNotes(v) => "status" \notin DOMAIN v.writes
    BY DEF SendsNotes, Writes
  <2>3. ChangeDecided(v) /\ "status" \in DOMAIN v.writes => row.status \in OpenStatuses
    BY <1>1, ChangeKinds
  <2> QED
    BY <1>2, <2>1, <2>2, <2>3
<1>8. /\ today' >= today /\ today' = today /\ leases \subseteq leases'
  BY <1>2, <1>3
<1>9. /\ issuedResidenceIds \subseteq issuedResidenceIds'
      /\ \A r \in issuedResidenceIds \ DOMAIN residences : r \notin DOMAIN residences'
  <2>1. PICK new \in SUBSET (ResidenceIds \ issuedResidenceIds) :
           /\ issuedResidenceIds' = issuedResidenceIds \cup new
           /\ DOMAIN residences' = new \cup (DOMAIN residences \ v.deleted)
    BY <1>2 DEF SaveResidences
  <2> QED
    BY <2>1
<1>10. ASSUME NEW u \in Units, NeedsVacancy(w, u)
       PROVE  LeasesOf(u)' = LeasesOf(u)
  <2>1. v.kind = "Application"
    BY DEF IsChange
  <2>2. \A l \in v.leases : l.unit # u
    BY <1>10, <2>1 DEF Conflict
  <2> QED
    BY <1>2, <2>2 DEF LeasesOf
<1>11. \A u, p : OpenApplications(u, p)' \subseteq OpenApplications(u, p)
  BY <1>1, <1>4, <1>6, <1>7 DEF OpenApplications
<1>12. \A u : (\E b \in DOMAIN applications' : applications'[b].unit = u)
                 => \E b \in DOMAIN applications : applications[b].unit = u
  BY <1>1, <1>4, <1>6
<1>13. ASSUME w.kind = "Application", ChangeDecided(w), Concerns(w) # {}
       PROVE  RowKept(w)
  <2>1. CASE w.application = a
    <3>1. Concerns(v) \cap Concerns(w) = {}
      BY <1>1, <1>13, <2>1 DEF Conflict, IsChange
    <3> QED
      BY <1>1, <1>13, <2>1, <3>1, RowKeptBeside
  <2>2. CASE w.application # a
    <3>1. w.application \in DOMAIN applications
      BY <1>13 DEF ChangeDecided
    <3>2. /\ ResidencesIn(residences', w.application) = ResidencesIn(residences, w.application)
          /\ \A r \in ResidencesIn(residences, w.application) : residences'[r] = residences[r]
      BY <1>2, <2>2, OtherResidencesStay
    <3> QED
      BY <1>4, <2>2, <3>1, <3>2 DEF RowKept, ResidencesOf
  <2> QED
    BY <2>1, <2>2
<1> QED
  BY <1>8, <1>9, <1>10, <1>11, <1>12, <1>13, Zenon DEF Undisturbed

\* Neither does a draft that is inserted.
LEMMA InsertLeaves ==
    ASSUME Inv, NEW v, NEW w, SaveInsert(v), ~Conflict(v, w)
    PROVE  Undisturbed(w)
<1>1. PICK new \in ApplicationIds \ issuedApplicationIds :
         applications' = [b \in DOMAIN applications \cup {new} |->
                             IF b = new THEN v.row ELSE applications[b]]
  BY DEF SaveInsert
<1>2. /\ v.kind = "Insert"
      /\ UNCHANGED <<units, residences, issuedResidenceIds, leases, today>>
  BY DEF SaveInsert
<1>3. new \notin DOMAIN applications
  BY <1>1 DEF Inv, Tables, TablesTyped
<1>4. today' >= today
  BY <1>2, CalendarAssumption DEF Inv, Tables, TablesTyped, TypeOK
<1>5. \A u : LeasesOf(u)' = LeasesOf(u)
  BY <1>2 DEF LeasesOf
<1>6. ASSUME w.kind = "Insert"
      PROVE  OpenApplications(w.row.unit, w.row.applicant)'
                \subseteq OpenApplications(w.row.unit, w.row.applicant)
  <2>1. v.row.unit # w.row.unit \/ v.row.applicant # w.row.applicant
    BY <1>2, <1>6 DEF Conflict
  <2> QED
    BY <1>1, <1>3, <2>1 DEF OpenApplications
<1>7. ASSUME w.kind = "Delete", NEW a \in DOMAIN applications', applications'[a].unit = w.unit
      PROVE  \E b \in DOMAIN applications : applications[b].unit = w.unit
  <2>1. v.row.unit # w.unit
    BY <1>2, <1>7 DEF Conflict
  <2> QED
    BY <1>1, <1>3, <1>7, <2>1
<1>8. w.kind = "Application" /\ ChangeDecided(w) => RowKept(w)
  <2> SUFFICES ASSUME ChangeDecided(w) PROVE RowKept(w)
    OBVIOUS
  <2>1. PICK a : a = w.application
    OBVIOUS
  <2>2. a \in DOMAIN applications
    BY <2>1 DEF ChangeDecided
  <2>3. a \in DOMAIN applications' /\ applications'[a] = applications[a]
    BY <1>1, <1>3, <2>2
  <2> QED
    BY <1>2, <2>1, <2>3 DEF RowKept, ResidencesOf
<1> QED
  BY <1>2, <1>4, <1>5, <1>6, <1>7, <1>8 DEF Undisturbed

\* The removal of a unit without applications is the use case, and leaves
\* the tables of the applications as they are.
LEMMA RemovedAlone ==
    ASSUME Inv, NEW work, RemovalStands("Saving", work), SaveDelete(work)
    PROVE  /\ UNCHANGED <<applications, residences, issuedResidenceIds, leases, today>>
           /\ \E u \in Units : DeleteUnit(u)
<1>1. PICK u \in Units :
         /\ work = Delete(u)
         /\ ~ \E a \in DOMAIN applications : applications[a].unit = u
  BY DEF RemovalStands
<1>2. work.unit = u
  BY <1>1 DEF Delete
<1> DEFINE kept == {a \in DOMAIN applications : applications[a].unit # work.unit}
<1>3. /\ applications' = [a \in kept |-> applications[a]]
      /\ residences' = [r \in {q \in DOMAIN residences :
                                  residences[q].application \in kept} |-> residences[r]]
      /\ LeasesOf(u) = {}
      /\ units' = units \ {u} /\ u \in units
      /\ UNCHANGED <<issuedResidenceIds, leases, today>>
  BY <1>2 DEF SaveDelete, CanSaveDelete
<1>4. kept = DOMAIN applications
  BY <1>1, <1>2
<1>5. {q \in DOMAIN residences : residences[q].application \in kept} = DOMAIN residences
  BY <1>4 DEF Inv, Tables, ReferencesHold
<1>6. /\ applications = [a \in DOMAIN applications |-> applications[a]]
      /\ residences = [r \in DOMAIN residences |-> residences[r]]
  BY DEF Inv, Tables, TablesTyped, TypeOK
<1> HIDE DEF kept
<1>7. UNCHANGED <<applications, residences>>
  BY <1>3, <1>4, <1>5, <1>6
<1>8. DeleteUnit(u)
  BY <1>1, <1>3, <1>7 DEF DeleteUnit
<1> QED
  BY <1>3, <1>7, <1>8

LEMMA RemovalLeaves ==
    ASSUME Inv, NEW v, NEW w, RemovalStands("Saving", v), SaveDelete(v)
    PROVE  Undisturbed(w)
<1>1. UNCHANGED <<applications, residences, issuedResidenceIds, leases, today>>
  BY RemovedAlone
<1>2. today \in Int
  BY CalendarAssumption DEF Inv, Tables, TablesTyped, TypeOK
<1>3. today' >= today
  BY <1>1, <1>2
<1>4. \A u \in Units : LeasesOf(u)' = LeasesOf(u)
  BY <1>1 DEF LeasesOf
<1>5. OpenApplications(w.row.unit, w.row.applicant)'
         \subseteq OpenApplications(w.row.unit, w.row.applicant)
  BY <1>1 DEF OpenApplications
<1>6. w.kind = "Application" /\ ChangeDecided(w) => RowKept(w)
  BY <1>1 DEF RowKept, ChangeDecided, ResidencesOf
<1> QED
  BY <1>1, <1>3, <1>4, <1>5, <1>6 DEF Undisturbed

\* What stands has one form of work.
LEMMA StandsFor ==
    ASSUME NEW work, Stands("Saving", work), Save(work)
    PROVE  \/ work.kind = "Insert" /\ SaveInsert(work) /\ StartStands("Saving", work)
           \/ work.kind = "Delete" /\ SaveDelete(work) /\ RemovalStands("Saving", work)
           \/ work.kind = "Application" /\ SaveApplication(work)
<1>1. /\ StartStands("Saving", work) => work.kind = "Insert"
      /\ RemovalStands("Saving", work) => work.kind = "Delete"
      /\ ChangeDecided(work) \/ SendsNotes(work) \/ IsSpent(work) => work.kind = "Application"
  BY DEF StartStands, Insert, RemovalStands, Delete, ChangeDecided, SendsNotes, IsSpent
<1>2. /\ SaveApplication(work) => work.kind = "Application"
      /\ SaveInsert(work) => work.kind = "Insert"
      /\ SaveDelete(work) => work.kind = "Delete"
  BY DEF SaveApplication, SaveInsert, SaveDelete
<1> QED
  BY <1>1, <1>2 DEF Stands, Save

\* A save disturbs none of the work it is not in the way of.
LEMMA SaveLeaves ==
    ASSUME Inv, NEW v, NEW w, IsWork(v), Stands("Saving", v), Save(v), ~Conflict(v, w)
    PROVE  Undisturbed(w)
<1>1. v.kind = "Application" => IsChange(v)
  BY DEF IsWork, IsInsert, IsDelete
<1> QED
  BY <1>1, StandsFor, ChangeLeaves, InsertLeaves, RemovalLeaves

\* Notes that are saved are the use case, or change nothing.
LEMMA NotesSaved ==
    ASSUME Inv, NEW work, IsChange(work), SendsNotes(work), SaveApplication(work)
    PROVE  (\E m \in Managers : ManagerRequest(m)) \/ UNCHANGED vars
<1>1. PICK a, row, now :
         a = work.application /\ row = applications[a] /\ now = SavedRow(row, work)
  OBVIOUS
<1>2. /\ a \in ApplicationIds /\ a \in DOMAIN applications
      /\ applications' = [applications EXCEPT ![a] = now]
      /\ UNCHANGED <<units, today>>
      /\ NoResidencesIn(work) /\ SaveResidences(work)
      /\ leases' = leases \cup work.leases /\ work.leases = {}
      /\ work.entries = <<>> /\ Writes(work, {"managerNotes"})
  BY <1>1 DEF SendsNotes, SaveApplication, CanSaveApplication
<1>3. UNCHANGED <<units, today, leases, residences, issuedResidenceIds>>
  BY <1>2, NoResidencesSaved
<1>4. /\ row \in ApplicationRow
      /\ applications = [b \in DOMAIN applications |-> applications[b]]
  BY <1>1, <1>2 DEF Inv, Tables, TablesTyped, TypeOK
<1>5. IsSaved(row, work, now)
  BY <1>1, <1>4, SavedFields
<1>6. now.history = row.history
  <2>1. row.history \in Seq(HistoryRow)
    BY <1>4 DEF ApplicationRow
  <2>2. row.history \o <<>> = row.history
    BY <2>1, ConcatEmptySeq
  <2> QED
    BY <1>2, <1>5, <2>2 DEF IsSaved
<1>7. /\ now.unit = row.unit /\ now.applicant = row.applicant /\ now.status = row.status
      /\ now.information = row.information
      /\ now.informationCompleted = row.informationCompleted
      /\ now.residencesCompleted = row.residencesCompleted
      /\ now.reviewComment = row.reviewComment
      /\ now \in ApplicationRow
  BY <1>2, <1>5 DEF IsSaved, Column, Writes
<1>8. CASE "managerNotes" \in DOMAIN work.writes
  <2>1. PICK m \in Managers, n \in Field(Notes) : work.writes["managerNotes"] = Trimmed(n)
    BY <1>8 DEF SendsNotes
  <2>2. now.managerNotes = Trimmed(n)
    BY <1>5, <1>8, <2>1 DEF IsSaved, Column
  <2>3. now = [row EXCEPT !.managerNotes = Trimmed(n)]
    BY <1>4, <1>6, <1>7, <2>2 DEF ApplicationRow
  <2>4. applications' = [applications EXCEPT ![a].managerNotes = Trimmed(n)]
    BY <1>1, <1>2, <2>3
  <2>5. SaveManagerNotes(a, n)
    BY <1>2, <1>3, <2>4 DEF SaveManagerNotes
  <2> QED
    BY <1>2, <2>5 DEF ManagerRequest
<1>9. CASE "managerNotes" \notin DOMAIN work.writes
  <2>1. now.managerNotes = row.managerNotes
    BY <1>5, <1>9 DEF IsSaved, Column
  <2>2. now = row
    BY <1>4, <1>6, <1>7, <2>1, SameRow
  <2>3. applications' = applications
    BY <1>1, <1>2, <1>4, <2>2
  <2> QED
    BY <1>3, <2>3 DEF vars
<1> QED
  BY <1>8, <1>9

\* The save of what stands is a use case, or changes nothing.
LEMMA SaveOfStandingActs ==
    ASSUME Inv, NEW work, IsWork(work), Stands("Saving", work), Save(work)
    PROVE  [Next]_vars
<1>1. CASE SaveInsert(work) /\ StartStands("Saving", work)
  <2>1. PICK u \in Units, p \in Applicants :
           /\ work = Insert(StartedApplication(u, p))
           /\ OpenApplications(u, p) = {}
           /\ IsUnitAvailableOn(LeasesOf(u), today)
    BY <1>1 DEF StartStands
  <2>2. u \in units
    BY <1>1, <2>1 DEF SaveInsert, CanSaveInsert, Insert, StartedApplication
  <2>3. StartDecided("Saving", work)
    BY <2>1, <2>2 DEF StartDecided
  <2> QED
    BY <1>1, <2>3, StartSaved DEF Next
<1>2. CASE SaveDelete(work) /\ RemovalStands("Saving", work)
  BY <1>2, RemovedAlone DEF Next
<1>3. CASE work.kind = "Application" /\ SaveApplication(work)
  <2>1. IsChange(work)
    BY <1>3 DEF IsWork, IsInsert, IsDelete
  <2>2. ChangeDecided(work) \/ SendsNotes(work)
    BY <1>3, SavedRows
  <2> QED
    BY <1>3, <2>1, <2>2, ChangeSaved, NotesSaved DEF Next
<1> QED
  BY <1>1, <1>2, <1>3, StandsFor

\* A save that inserts no residence.
LEMMA NoneInserted ==
    ASSUME Inv, NEW work, work.inserted = {}, SaveResidences(work)
    PROVE  /\ DOMAIN residences' = DOMAIN residences \ work.deleted
           /\ issuedResidenceIds' = issuedResidenceIds
           /\ \A r \in DOMAIN residences \ work.deleted :
                 residences'[r] = IF r \in DOMAIN work.updated THEN work.updated[r]
                                  ELSE residences[r]
<1>1. PICK new \in SUBSET (ResidenceIds \ issuedResidenceIds) :
         /\ Cardinality(new) = Cardinality(work.inserted)
         /\ issuedResidenceIds' = issuedResidenceIds \cup new
         /\ residences' = [r \in new \cup (DOMAIN residences \ work.deleted) |->
               CASE r \in new                 -> CHOOSE row \in work.inserted : TRUE
                 [] r \in DOMAIN work.updated -> work.updated[r]
                 [] OTHER                     -> residences[r]]
  BY DEF SaveResidences
<1>2. new \in SUBSET ResidenceIds
  BY <1>1
<1>3. IsFiniteSet(new)
  BY <1>2, FS_Subset, RequestAssumption
<1>4. new = {}
  BY <1>1, <1>3, FS_EmptySet
<1> QED
  BY <1>1, <1>4

\* An edit that is saved is still right for its row.
LEMMA EditRepeats ==
    ASSUME Inv, Inv', NEW work, IsChange(work), ChangeDecided(work), SaveApplication(work),
           "status" \notin DOMAIN work.writes, work.inserted = {}
    PROVE  ChangeDecided(work)' \/ IsSpent(work)'
<1>1. PICK a, row, after, again :
         /\ a = work.application /\ row = applications[a] /\ after = SavedRow(row, work)
         /\ again = SavedRow(after, work)
  OBVIOUS
<1>2. /\ work.kind = "Application" /\ a \in ApplicationIds
      /\ a \in DOMAIN applications /\ row \in ApplicationRow
      /\ work.leases = {} /\ work.entries = <<>>
      /\ Edits(work, a, after)
  BY <1>1, ChangeKinds DEF ChangeDecided
<1>3. /\ a \in DOMAIN applications' /\ applications'[a] = after
      /\ SaveResidences(work) /\ today' = today
  BY <1>1, <1>2 DEF SaveApplication
<1>4. IsSaved(row, work, after) /\ after \in ApplicationRow
  BY <1>1, <1>2, SavedFields DEF IsSaved
<1>5. IsSaved(after, work, again) /\ again \in ApplicationRow
  <2>1. IsSaved(after, work, again)
    BY <1>1, <1>4, SavedFields
  <2> QED
    BY <2>1 DEF IsSaved
<1>6. again = after
  <2>1. after.history \in Seq(HistoryRow)
    BY <1>4 DEF ApplicationRow
  <2>2. again.history = after.history
    BY <1>2, <1>5, <2>1, ConcatEmptySeq DEF IsSaved
  <2>3. /\ again.unit = after.unit /\ again.applicant = after.applicant
        /\ again.status = after.status /\ again.information = after.information
        /\ again.informationCompleted = after.informationCompleted
        /\ again.residencesCompleted = after.residencesCompleted
        /\ again.reviewComment = after.reviewComment
        /\ again.managerNotes = after.managerNotes
    BY <1>4, <1>5 DEF IsSaved, Column
  <2> QED
    BY <1>4, <1>5, <2>2, <2>3, SameRow
<1>7. \A p : LoadOwnedEditable(a, p) => LoadOwnedEditable(a, p)'
  BY <1>1, <1>3, <1>4 DEF LoadOwnedEditable, OwnedBy, IsOwnedBy, IsSaved, Column
<1>8. NoResidencesIn(work) => UNCHANGED <<residences, issuedResidenceIds>>
  BY <1>3, NoResidencesSaved
<1>9. CASE InformationDecided(work, a, after) /\ NoResidencesIn(work)
  <2>1. PICK p \in Applicants, i \in Answers :
           /\ Writes(work, InformationColumns)
           /\ LoadOwnedEditable(a, p)
           /\ after = [row EXCEPT !.information = i, !.informationCompleted = TRUE]
    BY <1>1, <1>9, Zenon DEF InformationDecided
  <2>2. again = [after EXCEPT !.information = i, !.informationCompleted = TRUE]
    BY <1>2, <1>6, <2>1 DEF ApplicationRow
  <2>3. InformationDecided(work, a, again)'
    BY <1>3, <1>7, <2>1, <2>2, Zenon DEF InformationDecided
  <2> QED
    BY <1>1, <1>2, <1>3, <1>9, <2>3, Zenon DEF ChangeDecided, RowDecided
<1>10. CASE HistoryDecided(work, a, after) /\ NoResidencesIn(work)
  <2>1. PICK p \in Applicants :
           /\ Writes(work, {"residencesCompleted"})
           /\ LoadOwnedEditable(a, p)
           /\ ResidencesOf(a) # {}
           /\ after = [row EXCEPT !.residencesCompleted = TRUE]
    BY <1>1, <1>10, Zenon DEF HistoryDecided
  <2>2. again = [after EXCEPT !.residencesCompleted = TRUE]
    BY <1>2, <1>6, <2>1 DEF ApplicationRow
  <2>3. ResidencesOf(a)' # {}
    BY <1>8, <1>10, <2>1 DEF ResidencesOf
  <2>4. HistoryDecided(work, a, again)'
    BY <1>3, <1>7, <2>1, <2>2, <2>3, Zenon DEF HistoryDecided
  <2> QED
    BY <1>1, <1>2, <1>3, <1>10, <2>4, Zenon DEF ChangeDecided, RowDecided
<1>11. CASE NotesDecided(work, a, after) /\ NoResidencesIn(work)
  <2>1. PICK m \in Managers, n \in Field(Notes) :
           /\ Writes(work, {"managerNotes"})
           /\ after = [row EXCEPT !.managerNotes = Trimmed(n)]
    BY <1>1, <1>11, Zenon DEF NotesDecided
  <2>2. again = [after EXCEPT !.managerNotes = Trimmed(n)]
    BY <1>2, <1>6, <2>1 DEF ApplicationRow
  <2>3. NotesDecided(work, a, again)'
    BY <1>3, <2>1, <2>2, Zenon DEF NotesDecided
  <2> QED
    BY <1>1, <1>2, <1>3, <1>11, <2>3, Zenon DEF ChangeDecided, RowDecided
<1>12. CASE ResidencesDecided(work, a, after)
  <2>1. PICK p \in Applicants :
          /\ Writes(work, {"residencesCompleted"})
          /\ LoadOwnedEditable(a, p)
          /\ \/ \E input \in ResidenceInputs : work.inserted = {RowFor(a, input)}
             \/ \E r \in ResidenceIds, input \in ResidenceInputs :
                   /\ ValidResidenceDates(input)
                   /\ r \in ResidencesOf(a)
                   /\ work.inserted = {} /\ work.deleted = {}
                   /\ DOMAIN work.updated \subseteq {r}
                   /\ r \in DOMAIN work.updated => work.updated[r] = RowFor(a, input)
                   /\ r \notin DOMAIN work.updated => residences[r] = RowFor(a, input)
             \/ \E r \in ResidencesOf(a) : work.deleted = {r}
    BY <1>12, Zenon DEF ResidencesDecided
  <2>2. /\ DOMAIN residences' = DOMAIN residences \ work.deleted
        /\ issuedResidenceIds' = issuedResidenceIds
        /\ \A r \in DOMAIN residences \ work.deleted :
              residences'[r] = IF r \in DOMAIN work.updated THEN work.updated[r]
                               ELSE residences[r]
    BY <1>3, NoneInserted
  <2>3. ~ \E input \in ResidenceInputs : work.inserted = {RowFor(a, input)}
    OBVIOUS
  <2>4. ASSUME NEW r \in ResidenceIds, NEW input \in ResidenceInputs,
               ValidResidenceDates(input), r \in ResidencesOf(a), work.deleted = {},
               DOMAIN work.updated \subseteq {r},
               r \in DOMAIN work.updated => work.updated[r] = RowFor(a, input),
               r \notin DOMAIN work.updated => residences[r] = RowFor(a, input)
        PROVE  ResidencesDecided(work, a, again)'
    <3>1. r \in DOMAIN residences
      BY <2>4 DEF ResidencesOf, ResidencesIn
    <3>2. r \in DOMAIN residences' /\ residences'[r] = RowFor(a, input)
      BY <2>2, <2>4, <3>1
    <3>3. r \in ResidencesOf(a)'
      BY <3>2 DEF ResidencesOf, ResidencesIn, RowFor
    <3>4. ValidResidenceDates(input)'
      BY <1>3, <2>4 DEF ValidResidenceDates
    <3>5. again = applications'[a]
      BY <1>3, <1>6
    <3>6. /\ work.inserted = {} /\ work.deleted = {} /\ LoadOwnedEditable(a, p)'
          /\ r \notin DOMAIN work.updated => residences'[r] = RowFor(a, input)
      BY <1>7, <2>1, <2>4, <3>2
    <3> QED
      BY <2>1, <2>4, <3>3, <3>4, <3>5, <3>6, Zenon DEF ResidencesDecided
  <2>5. ASSUME NEW r \in ResidencesOf(a), work.deleted = {r}
        PROVE  IsSpent(work)'
    <3>1. r \in DOMAIN residences /\ r \in issuedResidenceIds
      BY DEF ResidencesOf, ResidencesIn, Inv, Tables, TablesTyped, TypeOK
    <3>2. r \notin DOMAIN residences' /\ r \in issuedResidenceIds' /\ r \in work.deleted
      BY <2>2, <2>5, <3>1
    <3> QED
      BY <1>2, <3>2 DEF IsSpent
  <2>6. ResidencesDecided(work, a, again)' \/ IsSpent(work)'
    BY <2>1, <2>3, <2>4, <2>5
  <2>7. ResidencesDecided(work, a, again)' => ChangeDecided(work)'
    BY <1>1, <1>2, <1>3, Zenon DEF ChangeDecided
  <2> QED
    BY <2>6, <2>7
<1> QED
  BY <1>2, <1>9, <1>10, <1>11, <1>12 DEF Edits

\* Work whose answer is lost stands, to be sent again.
LEMMA RepeatStands ==
    ASSUME Inv, Inv', NEW work, IsWork(work), Stands("Saving", work), Save(work),
           Repeatable(work)
    PROVE  Stands("Saving", work)'
<1>1. CASE work.kind = "Delete"
  <2>1. SaveDelete(work) /\ RemovalStands("Saving", work)
    BY <1>1, StandsFor
  <2>2. applications' = applications
    BY <2>1, RemovedAlone
  <2>3. RemovalStands("Saving", work)'
    BY <2>1, <2>2, Zenon DEF RemovalStands
  <2> QED
    BY <2>3, Zenon DEF Stands
<1>2. CASE work.kind = "Application"
  <2>1. /\ SaveApplication(work) /\ IsChange(work)
        /\ work.inserted = {}
        /\ work.leases # {} \/ "status" \notin DOMAIN work.writes
    BY <1>2, StandsFor DEF IsWork, IsInsert, IsDelete, Repeatable
  <2>2. /\ ChangeDecided(work) \/ SendsNotes(work)
        /\ leases' = leases \cup work.leases
    BY <2>1, SavedRows
  <2>3. CASE work.leases # {}
    <3>1. IsSpent(work)'
      BY <1>2, <2>2, <2>3 DEF IsSpent
    <3> QED
      BY <3>1, Zenon DEF Stands
  <2>4. CASE SendsNotes(work)
    <3>1. SendsNotes(work)'
      BY <2>4, Zenon DEF SendsNotes
    <3> QED
      BY <3>1, Zenon DEF Stands
  <2>5. CASE ChangeDecided(work) /\ "status" \notin DOMAIN work.writes
    <3>1. ChangeDecided(work)' \/ IsSpent(work)'
      BY <2>1, <2>5, EditRepeats
    <3> QED
      BY <3>1, Zenon DEF Stands
  <2> QED
    BY <2>1, <2>2, <2>3, <2>4, <2>5
<1> QED
  BY <1>1, <1>2 DEF Repeatable

----------------------------------------------------------------------------
(* Every step is a step of the use cases, or none *)

\* What the requests under way have decided stands.
AllStand ==
    \A s \in Slots : requests[s] # Idle => Stands(requests[s].phase, requests[s].work)

\* The work of a request under way.
LEMMA RequestsHaveWork ==
    ASSUME Inv, NEW s \in Slots, requests[s] # Idle
    PROVE  IsWork(requests[s].work)
<1>1. IsRequest(requests[s])
  BY DEF Inv, RequestsSound
<1>2. PICK operation, phase, attempts, work :
         /\ requests[s] = [operation |-> operation, phase |-> phase, work |-> work,
                           attempts |-> attempts]
         /\ IsWork(work)
  BY <1>1, Zenon DEF IsRequest
<1>3. requests[s].work = work
  BY <1>2
<1> QED
  BY <1>2, <1>3

\* Beside a step of one request the decisions of the others stand, when it does not
\* disturb them.
LEMMA OthersStand ==
    ASSUME Inv, Inv', AllStand, NEW s \in Slots,
           \A t \in Slots \ {s} :
              /\ requests'[t] = requests[t]
              /\ requests[t] # Idle => Undisturbed(requests[t].work),
           requests'[s] # Idle => Stands(requests[s].phase, requests[s].work)'
    PROVE  AllStand'
<1> SUFFICES ASSUME NEW t \in Slots, t # s, requests'[t] # Idle
             PROVE  Stands(requests[t].phase, requests[t].work)'
  BY Zenon DEF AllStand
<1>1. requests'[t] = requests[t] /\ requests[t] # Idle
  OBVIOUS
<1>2. PICK phase, work : phase = requests[t].phase /\ work = requests[t].work
  OBVIOUS
<1>3. Stands(phase, work)
  BY <1>1, <1>2, Zenon DEF AllStand
<1>4. Undisturbed(work) /\ IsWork(work)
  BY <1>1, <1>2, RequestsHaveWork
<1>5. Stands(phase, work)'
  BY <1>3, <1>4, StandsStays
<1>6. requests'[t].phase = phase /\ requests'[t].work = work
  BY <1>1, <1>2
<1> QED
  BY <1>5, <1>6, Zenon DEF Stands, StartStands, RemovalStands, IsSpent, SendsNotes

\* A request that arrives.
LEMMA ArrivalStutters ==
    ASSUME Inv, Inv', AllStand, NEW s \in Slots, Arrives(s)
    PROVE  AllStand' /\ UNCHANGED vars
<1>1. PICK operation, phase, work :
         Begin(s, operation, phase, work) /\ Decided(phase, work)
  BY DEF Arrives
<1>2. /\ UNCHANGED vars
      /\ requests' = [requests EXCEPT ![s] = Request(operation, phase, work)]
  BY <1>1 DEF Begin
<1>3. requests = [t \in Slots |-> requests[t]]
  BY DEF Inv, RequestsSound
<1>4. /\ requests'[s] = Request(operation, phase, work)
      /\ \A t \in Slots \ {s} : requests'[t] = requests[t]
  BY <1>2, <1>3
<1>5. requests'[s].phase = phase /\ requests'[s].work = work
  BY <1>4 DEF Request
<1>6. CASE requests'[s] = Idle
  BY <1>2, <1>4, <1>6, QuietUndisturbed, OthersStand
<1>7. CASE requests'[s] # Idle
  <2>1. IsWork(work)
    <3>1. IsRequest(requests[s])'
      BY <1>7 DEF Inv, RequestsSound
    <3>2. PICK o, ph, n, w :
             /\ requests'[s] = [operation |-> o, phase |-> ph, work |-> w, attempts |-> n]
             /\ IsWork(w)
      BY <3>1, Zenon DEF IsRequest
    <3>3. requests'[s].work = w
      BY <3>2
    <3> QED
      BY <1>5, <3>2, <3>3
  <2>2. Stands(phase, work)'
    BY <1>1, <1>2, <2>1, DecidedStands, QuietUndisturbed, StandsStays
  <2>3. Stands(requests[s].phase, requests[s].work)'
    BY <1>5, <2>2, Zenon DEF Stands, StartStands, RemovalStands, IsSpent, SendsNotes
  <2> QED
    BY <1>2, <1>4, <2>3, QuietUndisturbed, OthersStand
<1> QED
  BY <1>6, <1>7

\* A request whose next query lets it go on.
LEMMA GoesOn ==
    ASSUME Inv, Inv', AllStand, NEW s \in Slots, requests[s] # Idle, NEW phase,
           Proceed(s, phase), Stands(phase, requests[s].work)
    PROVE  AllStand' /\ UNCHANGED vars
<1>1. requests = [t \in Slots |-> requests[t]] /\ IsRequest(requests[s])
  BY DEF Inv, RequestsSound
<1>2. PICK operation, before, attempts, work :
         requests[s] = [operation |-> operation, phase |-> before, work |-> work,
                        attempts |-> attempts]
  BY <1>1 DEF IsRequest
<1>3. UNCHANGED vars /\ requests' = [requests EXCEPT ![s].phase = phase]
  BY DEF Proceed
<1>4. /\ requests'[s].phase = phase /\ requests'[s].work = work /\ requests[s].work = work
      /\ \A t \in Slots \ {s} : requests'[t] = requests[t]
  BY <1>1, <1>2, <1>3
<1>5. Stands(phase, work) /\ IsWork(work)
  BY <1>4, RequestsHaveWork
<1>6. Stands(phase, work)'
  BY <1>3, <1>5, QuietUndisturbed, StandsStays
<1>7. Stands(requests[s].phase, requests[s].work)'
  BY <1>4, <1>6, Zenon DEF Stands, StartStands, RemovalStands, IsSpent, SendsNotes
<1> QED
  BY <1>3, <1>4, <1>7, QuietUndisturbed, OthersStand

\* A request that ends leaves the slots of the others as they are.
LEMMA Finished ==
    ASSUME Inv, NEW s \in Slots, Finish(s)
    PROVE  requests'[s] = Idle /\ \A t \in Slots \ {s} : requests'[t] = requests[t]
BY DEF Inv, RequestsSound, Finish

\* A request that fails, or is abandoned.
LEMMA RefusalStutters ==
    ASSUME Inv, Inv', AllStand, NEW s \in Slots, Refuse(s)
    PROVE  AllStand' /\ UNCHANGED vars
<1>1. UNCHANGED vars /\ Finish(s)
  BY DEF Refuse
<1> QED
  BY <1>1, Finished, QuietUndisturbed, OthersStand

\* The queries of StartAsync and of DeleteUnitAsync.
LEMMA QueriesStutter ==
    ASSUME Inv, Inv', AllStand, NEW s \in Slots,
           StartLoadUnit(s) \/ DeleteCheckLeases(s) \/ DeleteCheckApplications(s)
    PROVE  AllStand' /\ UNCHANGED vars
<1> DEFINE work == requests[s].work
<1>1. requests[s] # Idle
  BY DEF StartLoadUnit, DeleteCheckLeases, DeleteCheckApplications, InPhase
<1>2. Stands(requests[s].phase, work)
  BY <1>1, Zenon DEF AllStand
<1>3. CASE StartLoadUnit(s)
  <2>1. requests[s].phase = "OpenChecked"
    BY <1>3 DEF StartLoadUnit, InPhase
  <2>2. StartStands("OpenChecked", work)
    <3>1. "OpenChecked" # "Saving" /\ "OpenChecked" \notin {"UnitLoaded", "LeasesChecked", "Saving"}
      OBVIOUS
    <3> QED
      BY <1>2, <2>1, <3>1 DEF Stands
  <2>3. PICK u \in Units, p \in Applicants :
           work = Insert(StartedApplication(u, p)) /\ OpenApplications(u, p) = {}
    BY <2>2 DEF StartStands
  <2>4. work.row.unit = u
    BY <2>3 DEF Insert, StartedApplication
  <2>5. CASE u \in units /\ IsUnitAvailableOn(LeasesOf(u), today)
    <3>1. StartStands("Saving", work)
      BY <2>3, <2>5 DEF StartStands
    <3>2. Stands("Saving", work)
      BY <3>1 DEF Stands
    <3>3. Proceed(s, "Saving")
      BY <1>3, <2>4, <2>5 DEF StartLoadUnit
    <3> QED
      BY <1>1, <3>2, <3>3, GoesOn
  <2>6. CASE ~(u \in units /\ IsUnitAvailableOn(LeasesOf(u), today))
    <3>1. Refuse(s)
      BY <1>3, <2>4, <2>6 DEF StartLoadUnit
    <3> QED
      BY <3>1, RefusalStutters
  <2> QED
    BY <2>5, <2>6
<1>4. CASE DeleteCheckLeases(s)
  <2>1. requests[s].phase = "UnitLoaded"
    BY <1>4 DEF DeleteCheckLeases, InPhase
  <2>2. RemovalStands("UnitLoaded", work)
    <3>1. "UnitLoaded" # "Saving" /\ "UnitLoaded" \notin {"OpenChecked", "Saving"}
      OBVIOUS
    <3> QED
      BY <1>2, <2>1, <3>1 DEF Stands
  <2>3. RemovalStands("LeasesChecked", work)
    BY <2>2 DEF RemovalStands
  <2>4. Stands("LeasesChecked", work)
    BY <2>3 DEF Stands
  <2>5. Proceed(s, "LeasesChecked") \/ Refuse(s)
    BY <1>4 DEF DeleteCheckLeases
  <2> QED
    BY <1>1, <2>4, <2>5, GoesOn, RefusalStutters
<1>5. CASE DeleteCheckApplications(s)
  <2>1. requests[s].phase = "LeasesChecked"
    BY <1>5 DEF DeleteCheckApplications, InPhase
  <2>2. RemovalStands("LeasesChecked", work)
    <3>1. "LeasesChecked" # "Saving" /\ "LeasesChecked" \notin {"OpenChecked", "Saving"}
      OBVIOUS
    <3> QED
      BY <1>2, <2>1, <3>1 DEF Stands
  <2>3. PICK u \in Units : work = Delete(u)
    BY <2>2 DEF RemovalStands
  <2>4. work.unit = u
    BY <2>3 DEF Delete
  <2>5. CASE ~ \E a \in DOMAIN applications : applications[a].unit = u
    <3>1. RemovalStands("Saving", work)
      BY <2>3, <2>5 DEF RemovalStands
    <3>2. Stands("Saving", work)
      BY <3>1 DEF Stands
    <3>3. Proceed(s, "Saving")
      BY <1>5, <2>4, <2>5 DEF DeleteCheckApplications
    <3> QED
      BY <1>1, <3>2, <3>3, GoesOn
  <2>6. CASE \E a \in DOMAIN applications : applications[a].unit = u
    <3>1. Refuse(s)
      BY <1>5, <2>4, <2>6 DEF DeleteCheckApplications
    <3> QED
      BY <3>1, RefusalStutters
  <2> QED
    BY <2>5, <2>6
<1> QED
  BY <1>3, <1>4, <1>5

\* The save of a request is its use case, and disturbs no other request.
LEMMA SaveAsideActs ==
    ASSUME ConflictsApart, Inv, AllStand, NEW s \in Slots, Saving(s), Save(WorkOf(s))
    PROVE  /\ Stands("Saving", WorkOf(s)) /\ IsWork(WorkOf(s))
           /\ [Next]_vars
           /\ \A t \in Slots \ {s} : requests[t] # Idle => Undisturbed(requests[t].work)
<1>1. requests[s] # Idle /\ requests[s].phase = "Saving"
  BY DEF Saving, InPhase
<1>2. PICK v : v = WorkOf(s)
  OBVIOUS
<1>3. v = requests[s].work
  BY <1>2 DEF WorkOf
<1>4. Stands("Saving", v)
  BY <1>1, <1>3, Zenon DEF AllStand
<1>5. IsWork(v)
  BY <1>1, <1>3, RequestsHaveWork
<1>6. ASSUME NEW t \in Slots \ {s}, requests[t] # Idle
      PROVE  Undisturbed(requests[t].work)
  <2>1. PICK w : w = requests[t].work
    OBVIOUS
  <2>2. ~Conflict(v, w)
    BY <1>1, <1>3, <1>6, <2>1, Zenon DEF ConflictsApart, WorkOf
  <2>3. Undisturbed(w)
    BY <1>2, <1>4, <1>5, <2>2, SaveLeaves
  <2> QED
    BY <2>1, <2>3
<1>7. [Next]_vars
  BY <1>2, <1>4, <1>5, SaveOfStandingActs
<1> QED
  BY <1>2, <1>4, <1>5, <1>6, <1>7

\* A save whose answer arrives.
LEMMA CommitActs ==
    ASSUME ConflictsApart, Inv, Inv', AllStand, NEW s \in Slots, Commit(s)
    PROVE  AllStand' /\ [Next]_vars
<1>1. Saving(s) /\ Save(WorkOf(s)) /\ Finish(s)
  BY DEF Commit
<1>2. /\ [Next]_vars
      /\ \A t \in Slots \ {s} : requests[t] # Idle => Undisturbed(requests[t].work)
  BY <1>1, SaveAsideActs
<1>3. requests'[s] = Idle /\ \A t \in Slots \ {s} : requests'[t] = requests[t]
  BY <1>1, Finished
<1>4. AllStand'
  BY <1>2, <1>3, OthersStand
<1> QED
  BY <1>2, <1>4

\* A save whose answer is lost, and that may be repeated: it stands for another one.
LEMMA UnansweredActs ==
    ASSUME ConflictsApart, Inv, Inv', AllStand, NEW s \in Slots, CommitUnanswered(s),
           Repeatable(WorkOf(s))
    PROVE  AllStand' /\ [Next]_vars
<1>1. /\ Saving(s) /\ Save(WorkOf(s))
      /\ requests' = [requests EXCEPT ![s].attempts = @ + 1]
  BY DEF CommitUnanswered
<1>2. /\ Stands("Saving", WorkOf(s)) /\ IsWork(WorkOf(s))
      /\ [Next]_vars
      /\ \A t \in Slots \ {s} : requests[t] # Idle => Undisturbed(requests[t].work)
  BY <1>1, SaveAsideActs
<1>3. requests = [t \in Slots |-> requests[t]] /\ IsRequest(requests[s])
  BY <1>1 DEF Inv, RequestsSound, Saving, InPhase
<1>4. PICK operation, phase, attempts, work :
         requests[s] = [operation |-> operation, phase |-> phase, work |-> work,
                        attempts |-> attempts]
  BY <1>3 DEF IsRequest
<1>5. /\ requests'[s].phase = phase /\ requests'[s].work = work
      /\ \A t \in Slots \ {s} : requests'[t] = requests[t]
  BY <1>1, <1>3, <1>4
<1>6. phase = "Saving" /\ WorkOf(s) = work
  BY <1>1, <1>4 DEF Saving, InPhase, WorkOf
<1>7. Stands("Saving", work)'
  BY <1>1, <1>2, <1>6, RepeatStands
<1>8. Stands(requests[s].phase, requests[s].work)'
  BY <1>5, <1>6, <1>7, Zenon DEF Stands, StartStands, RemovalStands, IsSpent, SendsNotes
<1>9. AllStand'
  BY <1>2, <1>5, <1>8, OthersStand
<1> QED
  BY <1>2, <1>9

\* Every request that arrives has decided on the rows as they are.
LEMMA AllDecide ==
    ASSUME Inv, NEW s \in Slots,
           \/ \E p \in Applicants : ApplicantArrives(s, p)
           \/ \E m \in Managers : ManagerArrives(s, m)
    PROVE  Arrives(s)
<1>1. ASSUME NEW p \in Applicants, ApplicantArrives(s, p)
      PROVE  Arrives(s)
  BY <1>1, StartDecides, LoadApplicantInformationDecides, LoadResidenceHistoryDecides,
     LoadToAddResidenceDecides, LoadToUpdateResidenceDecides, LoadToRemoveResidenceDecides,
     LoadToSubmitDecides, LoadToWithdrawDecides DEF ApplicantArrives
<1>2. ASSUME NEW m \in Managers, ManagerArrives(s, m)
      PROVE  Arrives(s)
  BY <1>2, LoadToApproveDecides, LoadToRejectDecides, LoadToSaveNotesDecides,
     DeleteUnitDecides DEF ManagerArrives
<1> QED
  BY <1>1, <1>2

\* Every step is a step of the use cases or changes no table.
LEMMA AtomicStep ==
    ASSUME ConflictsApart, Inv, Inv', AllStand, [ConcurrentNext]_allVars,
           [RepeatsAreSafe]_allVars, [DaysPassAside]_allVars
    PROVE  AllStand' /\ [Next]_vars
<1>1. ASSUME NEW s \in Slots,
             \/ \E p \in Applicants : ApplicantArrives(s, p)
             \/ \E m \in Managers : ManagerArrives(s, m)
      PROVE  AllStand' /\ UNCHANGED vars
  BY <1>1, AllDecide, ArrivalStutters
<1>2. ASSUME NEW s \in Slots, Advance(s)
      PROVE  AllStand' /\ [Next]_vars
  <2>1. CASE StartLoadUnit(s) \/ DeleteCheckLeases(s) \/ DeleteCheckApplications(s)
    BY <2>1, QueriesStutter
  <2>2. CASE Commit(s)
    BY <2>2, CommitActs
  <2>3. CASE SaveFails(s)
    BY <2>3, RefusalStutters DEF SaveFails
  <2> QED
    BY <1>2, <2>1, <2>2, <2>3 DEF Advance
<1>3. ASSUME NEW s \in Slots, Abandon(s)
      PROVE  AllStand' /\ UNCHANGED vars
  BY <1>3, RefusalStutters DEF Abandon
<1>4. ASSUME NEW s \in Slots, CommitUnanswered(s), ~UNCHANGED allVars
      PROVE  AllStand' /\ [Next]_vars
  <2>1. Repeatable(WorkOf(s))
    BY <1>4 DEF RepeatsAreSafe
  <2> QED
    BY <1>4, <2>1, UnansweredActs
<1>5. CASE Clock
  <2>1. /\ today \in Int /\ today' = today + 1
        /\ UNCHANGED requests
        /\ DayPasses
    BY <1>5, CalendarAssumption
    DEF Clock, DayPasses, requestVars, Inv, Tables, TablesTyped, TypeOK
  <2>2. today' # today
    BY <2>1
  <2>3. \A s \in Slots : requests[s] # Idle => \A u \in Units : ~NeedsVacancy(requests[s].work, u)
    BY <2>2 DEF DaysPassAside, allVars, vars, WorkOf
  <2>4. ASSUME NEW s \in Slots, requests'[s] # Idle
        PROVE  Stands(requests[s].phase, requests[s].work)'
    <3>1. PICK phase, work : phase = requests[s].phase /\ work = requests[s].work
      OBVIOUS
    <3>2. requests[s] # Idle /\ requests'[s].phase = phase /\ requests'[s].work = work
      BY <2>1, <2>4, <3>1
    <3>3. Stands(phase, work) /\ IsWork(work)
      BY <3>1, <3>2, RequestsHaveWork, Zenon DEF AllStand
    <3>4. Undisturbed(work)
      BY <1>5, <2>3, <3>1, <3>2, ClockUndisturbed
    <3>5. Stands(phase, work)'
      BY <3>3, <3>4, StandsStays
    <3> QED
      BY <3>2, <3>5, Zenon DEF Stands, StartStands, RemovalStands, IsSpent, SendsNotes
  <2>5. AllStand'
    BY <2>4, Zenon DEF AllStand
  <2> QED
    BY <2>1, <2>5 DEF Next
<1>6. CASE UNCHANGED allVars
  <2>1. UNCHANGED vars /\ UNCHANGED requests
    BY <1>6 DEF allVars, requestVars
  <2>2. ASSUME NEW s \in Slots, requests'[s] # Idle
        PROVE  Stands(requests[s].phase, requests[s].work)'
    <3>1. PICK phase, work : phase = requests[s].phase /\ work = requests[s].work
      OBVIOUS
    <3>2. requests[s] # Idle /\ requests'[s].phase = phase /\ requests'[s].work = work
      BY <2>1, <2>2, <3>1
    <3>3. Stands(phase, work) /\ IsWork(work)
      BY <3>1, <3>2, RequestsHaveWork, Zenon DEF AllStand
    <3>4. Stands(phase, work)'
      BY <2>1, <3>3, QuietUndisturbed, StandsStays
    <3> QED
      BY <3>2, <3>4, Zenon DEF Stands, StartStands, RemovalStands, IsSpent, SendsNotes
  <2>3. AllStand'
    BY <2>2, Zenon DEF AllStand
  <2> QED
    BY <2>1, <2>3
<1> QED
  BY <1>1, <1>2, <1>3, <1>4, <1>5, <1>6 DEF ConcurrentNext

----------------------------------------------------------------------------
(* The theorem *)

\* Handlers that overlap act one after the other: as long as no two requests under
\* way are in each other's way, only saves that may be repeated are sent again and
\* the date does not change beside work that needs a unit free, the queries and
\* saves of the handlers amount to the use cases as RentalApplicationService has
\* them, each at the moment of its save with every guard true then.  Requests about
\* one unit and even one application may overlap: a manager's notes and any other
\* request, the two sections of a draft, a withdrawal and a removal.
THEOREM RequestsWithoutConflictsAreAtomic ==
    ConcurrentSpec /\ []ConflictsApart
            /\ [][RepeatsAreSafe]_allVars /\ [][DaysPassAside]_allVars
        => ActsAtomically
<1>1. ConcurrentInit => Init /\ AllStand
  BY DEF ConcurrentInit, AllStand
<1>2. Inv /\ Inv' /\ AllStand /\ ConflictsApart /\ [ConcurrentNext]_allVars
         /\ [RepeatsAreSafe]_allVars /\ [DaysPassAside]_allVars => AllStand' /\ [Next]_vars
  BY AtomicStep
<1> QED
  BY <1>1, <1>2, InvHolds, PTL DEF ConcurrentSpec, ActsAtomically, Spec

=============================================================================
