------------------- MODULE RentalApplicationService_proofs -------------------
(***************************************************************************)
(* Theorems about the lifecycle of rental applications, for every set of   *)
(* users, units, applications and texts, every calendar and every          *)
(* consistent seed.                                                        *)
(***************************************************************************)
EXTENDS RentalApplicationService, TLAPS

----------------------------------------------------------------------------
(* Rows *)

\* A blank text is stored as null, any other as it is.
LEMMA TrimmedType ==
    ASSUME NEW Texts, NEW t \in Field(Texts)
    PROVE  Trimmed(t) \in Texts \cup {NoText}
BY DEF Field, Trimmed, IsBlank

\* A text that is not blank is kept.
LEMMA TrimmedKept ==
    ASSUME NEW Texts, NEW t \in Field(Texts), ~IsBlank(t)
    PROVE  Trimmed(t) = t /\ t \in Texts
BY DEF Field, Trimmed, IsBlank

\* A started application is a row.
LEMMA StartedType ==
    ASSUME NEW u \in Units, NEW p \in Applicants
    PROVE  StartedApplication(u, p) \in ApplicationRow
<1>1. [fromStatus |-> NoStatus, toStatus |-> "Draft", changedBy |-> p,
       comment |-> StartedComment] \in HistoryRow
  BY DEF HistoryRow, ApplicationStatus, NoStatus, Users
<1> QED
  BY <1>1 DEF StartedApplication, ApplicationRow, ApplicationStatus

\* A transition of a row is a row, and what it does to each column.
LEMMA TransitionType ==
    ASSUME NEW row \in ApplicationRow, NEW to \in ApplicationStatus,
           NEW user \in Users, NEW c \in Field(Comments)
    PROVE  /\ TransitionTo(row, to, user, c) \in ApplicationRow
           /\ TransitionTo(row, to, user, c).status = to
           /\ TransitionTo(row, to, user, c).unit = row.unit
           /\ TransitionTo(row, to, user, c).applicant = row.applicant
<1> DEFINE entry == [fromStatus |-> row.status, toStatus |-> to,
                     changedBy |-> user, comment |-> Trimmed(c)]
<1>1. entry \in HistoryRow
  BY TrimmedType DEF HistoryRow, ApplicationRow
<1>2. row.history \in Seq(HistoryRow)
  BY DEF ApplicationRow
<1>3. Append(row.history, entry) \in Seq(HistoryRow)
  BY <1>1, <1>2
<1>4. TransitionTo(row, to, user, c) =
        [row EXCEPT !.status = to, !.history = Append(row.history, entry)]
  BY DEF TransitionTo, ApplicationRow
<1> HIDE DEF entry
<1> QED
  BY <1>3, <1>4 DEF ApplicationRow

\* A reviewed row is a row.
LEMMA ReviewedType ==
    ASSUME NEW row \in ApplicationRow, NEW o \in ReviewOutcome,
           NEW m \in Managers, NEW c \in Field(Comments)
    PROVE  Reviewed(row, o, m, c) \in ApplicationRow
<1>1. ToStatus[o] \in ApplicationStatus
  BY DEF ToStatus, ReviewOutcome, ApplicationStatus
<1>2. TransitionTo(row, ToStatus[o], m, c) \in ApplicationRow
  BY <1>1, TransitionType DEF Users
<1> QED
  BY <1>2, TrimmedType DEF Reviewed, ApplicationRow

\* A submitted row is a row.
LEMMA SubmittedType ==
    ASSUME NEW row \in ApplicationRow, NEW p \in Applicants
    PROVE  [TransitionTo(row, "Submitted", p, NoText) EXCEPT !.reviewComment = NoText]
               \in ApplicationRow
<1>1. TransitionTo(row, "Submitted", p, NoText) \in ApplicationRow
  BY TransitionType DEF Users, ApplicationStatus, Field
<1> QED
  BY <1>1 DEF ApplicationRow

----------------------------------------------------------------------------
(* What a step does to one application *)

\* Neither section changes, nor its stamp.
SameContent(before, after) ==
    /\ after.information = before.information
    /\ after.informationCompleted = before.informationCompleted
    /\ after.residencesCompleted = before.residencesCompleted

\* An edit of the sections, while that is allowed, or of the notes.
IsEdit(before, after) ==
    /\ ~IsEditable(before.status) => SameContent(before, after)
    /\ \/ after.information \in Answers
       \/ /\ after.information = before.information
          /\ after.informationCompleted = before.informationCompleted
    /\ after.unit = before.unit
    /\ after.applicant = before.applicant
    /\ after.status = before.status
    /\ after.history = before.history
    /\ after.reviewComment = before.reviewComment

IsSubmission(before, after) ==
    /\ CanSubmit(before.status)
    /\ AllSectionsCompleted(before)
    /\ after = [TransitionTo(before, "Submitted", before.applicant, NoText)
                   EXCEPT !.reviewComment = NoText]

IsWithdrawal(before, after) ==
    /\ CanWithdraw(before.status)
    /\ \E c \in Field(Comments) :
          after = TransitionTo(before, "Withdrawn", before.applicant, c)

IsReview(before, after) ==
    /\ CanReview(before.status)
    /\ \E m \in Managers, o \in ReviewOutcome, c \in Field(Comments) :
          /\ ~(RequiresComment(o) /\ IsBlank(c))
          /\ after = Reviewed(before, o, m, c)

IsRowStep(before, after) ==
    \/ IsEdit(before, after)
    \/ IsSubmission(before, after)
    \/ IsWithdrawal(before, after)
    \/ IsReview(before, after)

\* A step of the applications table: rows stay, each takes a row step, and the
\* only new row, if there is one, is a draft whose applicant had no open
\* application for the unit.
IsTableStep ==
    /\ DOMAIN applications \subseteq DOMAIN applications'
    /\ \A a \in DOMAIN applications : IsRowStep(applications[a], applications'[a])
    /\ \A a, b \in DOMAIN applications' \ DOMAIN applications : a = b
    /\ \A a \in DOMAIN applications' \ DOMAIN applications :
          \E u \in Units, p \in Applicants :
             /\ applications'[a] = StartedApplication(u, p)
             /\ OpenApplications(u, p) = {}
             /\ u \in units

\* A step that replaces one row by a row, and takes a row step, is a table step
\* and keeps the table's type.
LEMMA OneRow ==
    ASSUME TypeOK, NEW a \in DOMAIN applications, NEW row \in ApplicationRow,
           IsRowStep(applications[a], row),
           applications' = [applications EXCEPT ![a] = row]
    PROVE  /\ IsTableStep
           /\ DOMAIN applications' = DOMAIN applications
           /\ applications' \in [DOMAIN applications' -> ApplicationRow]
<1>1. DOMAIN applications' = DOMAIN applications
  OBVIOUS
<1>2. \A b \in DOMAIN applications : applications'[b] = IF b = a THEN row ELSE applications[b]
  OBVIOUS
<1>3. \A b \in DOMAIN applications : IsRowStep(applications[b], applications'[b])
  BY <1>2 DEF IsRowStep, IsEdit, SameContent
<1>4. applications' \in [DOMAIN applications' -> ApplicationRow]
  BY <1>1, <1>2 DEF TypeOK
<1> QED
  BY <1>1, <1>3, <1>4 DEF IsTableStep

\* An unchanged table takes a table step.
LEMMA NoRow ==
    ASSUME UNCHANGED applications
    PROVE  IsTableStep
BY DEF IsTableStep, IsRowStep, IsEdit, SameContent

----------------------------------------------------------------------------
(* Each operation keeps the types and takes a table step *)

\* Starting an application adds one draft.
LEMMA StartStep ==
    ASSUME TypeOK, NEW u \in Units, NEW p \in Applicants, Start(u, p)
    PROVE  TypeOK' /\ IsTableStep
<1>1. PICK a \in ApplicationIds \ DOMAIN applications :
          applications' = [b \in DOMAIN applications \cup {a} |->
                              IF b = a THEN StartedApplication(u, p)
                                       ELSE applications[b]]
  BY DEF Start
<1>2. DOMAIN applications' = DOMAIN applications \cup {a}
  BY <1>1
<1>3. \A b \in DOMAIN applications : applications'[b] = applications[b]
  BY <1>1
<1>4. applications'[a] = StartedApplication(u, p)
  BY <1>1
<1>5. applications' \in [DOMAIN applications' -> ApplicationRow]
  BY <1>1, <1>2, StartedType DEF TypeOK
<1>6. IsTableStep
  BY <1>2, <1>3, <1>4 DEF IsTableStep, IsRowStep, IsEdit, SameContent, Start
<1> QED
  BY <1>2, <1>5, <1>6 DEF TypeOK, Start

\* Saving the applicant information is an edit of one row.
LEMMA SaveApplicantInformationStep ==
    ASSUME TypeOK, NEW a \in ApplicationIds, NEW p \in Applicants,
           NEW i \in Answers \cup {Incomplete}, SaveApplicantInformation(a, p, i)
    PROVE  TypeOK' /\ IsTableStep
<1> DEFINE row == [applications[a] EXCEPT !.information = i,
                                          !.informationCompleted = TRUE]
<1>1. /\ a \in DOMAIN applications
      /\ IsEditable(applications[a].status)
      /\ i \in Answers
  BY DEF SaveApplicantInformation, LoadOwnedEditable, OwnedBy
<1>2. applications' = [applications EXCEPT ![a] = row]
  BY DEF SaveApplicantInformation
<1>3. row \in ApplicationRow /\ IsEdit(applications[a], row)
  BY <1>1 DEF TypeOK, ApplicationRow, IsEdit, SameContent
<1> QED
  BY <1>1, <1>2, <1>3, OneRow DEF TypeOK, SaveApplicantInformation, IsRowStep

\* Stamping the residence history is an edit of one row.
LEMMA CompleteResidenceHistoryStep ==
    ASSUME TypeOK, NEW a \in ApplicationIds, NEW p \in Applicants,
           CompleteResidenceHistory(a, p)
    PROVE  TypeOK' /\ IsTableStep
<1> DEFINE row == [applications[a] EXCEPT !.residencesCompleted = TRUE]
<1>1. a \in DOMAIN applications /\ IsEditable(applications[a].status)
  BY DEF CompleteResidenceHistory, LoadOwnedEditable, OwnedBy
<1>2. applications' = [applications EXCEPT ![a] = row]
  BY DEF CompleteResidenceHistory
<1>3. row \in ApplicationRow /\ IsEdit(applications[a], row)
  BY <1>1 DEF TypeOK, ApplicationRow, IsEdit, SameContent
<1> QED
  BY <1>1, <1>2, <1>3, OneRow DEF TypeOK, CompleteResidenceHistory, IsRowStep

\* Adding a residence touches no application row.
LEMMA AddResidenceStep ==
    ASSUME TypeOK, NEW a \in ApplicationIds, NEW p \in Applicants,
           NEW input \in ResidenceInputs, AddResidence(a, p, input)
    PROVE  TypeOK' /\ IsTableStep
<1>1. PICK r \in ResidenceIds \ issuedResidenceIds :
          /\ residences' = [s \in DOMAIN residences \cup {r} |->
                               IF s = r THEN RowFor(a, input) ELSE residences[s]]
          /\ issuedResidenceIds' = issuedResidenceIds \cup {r}
  BY DEF AddResidence
<1>2. RowFor(a, input) \in ResidenceRow
  BY SeedAssumption DEF RowFor, ResidenceRow
<1>3. residences' \in [DOMAIN residences' -> ResidenceRow]
  BY <1>1, <1>2 DEF TypeOK
<1>4. DOMAIN residences' \subseteq issuedResidenceIds'
  BY <1>1 DEF TypeOK
<1>5. issuedResidenceIds' \subseteq ResidenceIds
  BY <1>1 DEF TypeOK
<1> QED
  BY <1>3, <1>4, <1>5, NoRow DEF TypeOK, AddResidence

\* Updating a residence touches no application row.
LEMMA UpdateResidenceStep ==
    ASSUME TypeOK, NEW a \in ApplicationIds, NEW p \in Applicants,
           NEW r \in ResidenceIds, NEW input \in ResidenceInputs,
           UpdateResidence(a, p, r, input)
    PROVE  TypeOK' /\ IsTableStep
<1>1. RowFor(a, input) \in ResidenceRow
  BY SeedAssumption DEF RowFor, ResidenceRow
<1>2. residences' \in [DOMAIN residences' -> ResidenceRow]
  BY <1>1 DEF TypeOK, UpdateResidence
<1>3. DOMAIN residences' = DOMAIN residences
  BY DEF UpdateResidence
<1> QED
  BY <1>2, <1>3, NoRow DEF TypeOK, UpdateResidence

\* Removing a residence is an edit of the row whose stamp it may take back.
LEMMA RemoveResidenceStep ==
    ASSUME TypeOK, NEW a \in ApplicationIds, NEW p \in Applicants,
           NEW r \in ResidenceIds, RemoveResidence(a, p, r)
    PROVE  TypeOK' /\ IsTableStep
<1> DEFINE row == [applications[a] EXCEPT !.residencesCompleted =
                       IF ResidencesOf(a) = {r} THEN FALSE ELSE @]
<1>1. a \in DOMAIN applications /\ IsEditable(applications[a].status)
  BY DEF RemoveResidence, LoadOwnedEditable, OwnedBy
<1>2. applications' = [applications EXCEPT ![a] = row]
  BY DEF RemoveResidence
<1>3. row \in ApplicationRow /\ IsEdit(applications[a], row)
  BY <1>1 DEF TypeOK, ApplicationRow, IsEdit, SameContent
<1>4. residences' \in [DOMAIN residences' -> ResidenceRow]
  BY DEF TypeOK, RemoveResidence
<1>5. DOMAIN residences' \subseteq DOMAIN residences
  BY DEF RemoveResidence
<1> QED
  BY <1>1, <1>2, <1>3, <1>4, <1>5, OneRow DEF TypeOK, RemoveResidence, IsRowStep

\* Submitting is a submission of one row.
LEMMA SubmitStep ==
    ASSUME TypeOK, NEW a \in ApplicationIds, NEW p \in Applicants, Submit(a, p)
    PROVE  TypeOK' /\ IsTableStep
<1> DEFINE row == [TransitionTo(applications[a], "Submitted", p, NoText)
                      EXCEPT !.reviewComment = NoText]
<1>1. a \in DOMAIN applications /\ p = applications[a].applicant
  BY DEF Submit, OwnedBy, IsOwnedBy
<1>2. applications' = [applications EXCEPT ![a] = row]
  BY DEF Submit
<1>3. row \in ApplicationRow
  BY <1>1, SubmittedType DEF TypeOK
<1>4. IsSubmission(applications[a], row)
  BY <1>1 DEF Submit, IsSubmission
<1> QED
  BY <1>1, <1>2, <1>3, <1>4, OneRow DEF TypeOK, Submit, IsRowStep

\* Withdrawing is a withdrawal of one row.
LEMMA WithdrawStep ==
    ASSUME TypeOK, NEW a \in ApplicationIds, NEW p \in Applicants,
           NEW c \in Field(Comments), Withdraw(a, p, c)
    PROVE  TypeOK' /\ IsTableStep
<1> DEFINE row == TransitionTo(applications[a], "Withdrawn", p, c)
<1>1. a \in DOMAIN applications /\ p = applications[a].applicant
  BY DEF Withdraw, OwnedBy, IsOwnedBy
<1>2. applications' = [applications EXCEPT ![a] = row]
  BY DEF Withdraw
<1>3. row \in ApplicationRow
  BY <1>1, TransitionType DEF TypeOK, Users, ApplicationStatus
<1>4. IsWithdrawal(applications[a], row)
  BY <1>1 DEF Withdraw, IsWithdrawal
<1> QED
  BY <1>1, <1>2, <1>3, <1>4, OneRow DEF TypeOK, Withdraw, IsRowStep

\* Approving is a review of one row and inserts a lease row.
LEMMA ApproveStep ==
    ASSUME TypeOK, NEW a \in ApplicationIds, NEW m \in Managers,
           NEW d \in Days, NEW c \in Field(Comments), Approve(a, m, d, c)
    PROVE  TypeOK' /\ IsTableStep
<1> DEFINE row == Reviewed(applications[a], "Approve", m, c)
<1>1. a \in DOMAIN applications /\ "Approve" \in ReviewOutcome
  BY DEF Approve, ReviewOutcome
<1>2. applications' = [applications EXCEPT ![a] = row]
  BY DEF Approve
<1>3. row \in ApplicationRow
  BY <1>1, ReviewedType DEF TypeOK
<1>4. ~RequiresComment("Approve")
  BY DEF RequiresComment
<1>5. IsReview(applications[a], row)
  BY <1>1, <1>4 DEF Approve, IsReview
<1>6. IssuedLease(a, applications[a], d) \in LeaseRow
  BY <1>1, CalendarAssumption DEF IssuedLease, LeaseRow, TypeOK, ApplicationRow
<1> QED
  BY <1>1, <1>2, <1>3, <1>5, <1>6, OneRow DEF TypeOK, Approve, IsRowStep

\* Returning and denying are reviews of one row.
LEMMA RejectStep ==
    ASSUME TypeOK, NEW a \in ApplicationIds, NEW m \in Managers,
           NEW o \in {"Return", "Deny"}, NEW c \in Field(Comments),
           Reject(a, m, o, c)
    PROVE  TypeOK' /\ IsTableStep
<1> DEFINE row == Reviewed(applications[a], o, m, c)
<1>1. a \in DOMAIN applications /\ o \in ReviewOutcome
  BY DEF Reject, ReviewOutcome
<1>2. applications' = [applications EXCEPT ![a] = row]
  BY DEF Reject
<1>3. row \in ApplicationRow
  BY <1>1, ReviewedType DEF TypeOK
<1>4. IsReview(applications[a], row)
  BY <1>1 DEF Reject, IsReview
<1> QED
  BY <1>1, <1>2, <1>3, <1>4, OneRow DEF TypeOK, Reject, IsRowStep

\* Saving the notes is an edit of one row.
LEMMA SaveManagerNotesStep ==
    ASSUME TypeOK, NEW a \in ApplicationIds, NEW n \in Field(Notes),
           SaveManagerNotes(a, n)
    PROVE  TypeOK' /\ IsTableStep
<1> DEFINE row == [applications[a] EXCEPT !.managerNotes = Trimmed(n)]
<1>1. a \in DOMAIN applications /\ Trimmed(n) \in Notes \cup {NoText}
  BY TrimmedType DEF SaveManagerNotes
<1>2. applications' = [applications EXCEPT ![a] = row]
  BY DEF SaveManagerNotes
<1>3. row \in ApplicationRow /\ IsEdit(applications[a], row)
  BY <1>1 DEF TypeOK, ApplicationRow, IsEdit, SameContent
<1> QED
  BY <1>1, <1>2, <1>3, OneRow DEF TypeOK, SaveManagerNotes, IsRowStep

\* Removing a unit and the passing of a day touch no application row.
LEMMA OtherSteps ==
    ASSUME TypeOK, \/ \E u \in Units : DeleteUnit(u)
                   \/ DayPasses
                   \/ UNCHANGED vars
    PROVE  TypeOK' /\ IsTableStep
<1>1. CASE \E u \in Units : DeleteUnit(u)
  BY <1>1, NoRow DEF TypeOK, DeleteUnit
<1>2. CASE DayPasses
  BY <1>2, NoRow DEF TypeOK, DayPasses
<1>3. CASE UNCHANGED vars
  BY <1>3, NoRow DEF TypeOK, vars
<1> QED
  BY <1>1, <1>2, <1>3

\* Every step keeps the types and is a table step.
LEMMA TableStep ==
    ASSUME TypeOK, [Next]_vars
    PROVE  TypeOK' /\ IsTableStep
<1>1. ASSUME NEW p \in Applicants, ApplicantRequest(p)
      PROVE  TypeOK' /\ IsTableStep
  BY <1>1, StartStep, SaveApplicantInformationStep, CompleteResidenceHistoryStep,
     AddResidenceStep, UpdateResidenceStep, RemoveResidenceStep, SubmitStep,
     WithdrawStep DEF ApplicantRequest
<1>2. ASSUME NEW m \in Managers, ManagerRequest(m)
      PROVE  TypeOK' /\ IsTableStep
  BY <1>2, ApproveStep, RejectStep, SaveManagerNotesStep DEF ManagerRequest
<1> QED
  BY <1>1, <1>2, OtherSteps DEF Next

----------------------------------------------------------------------------

\* The tables hold rows of their types in every reachable state.
THEOREM TypeCorrect == Spec => []TypeOK
<1>1. Init => TypeOK
  BY SeedAssumption DEF Init, TypeOK
<1>2. TypeOK /\ [Next]_vars => TypeOK'
  BY TableStep
<1> QED
  BY <1>1, <1>2, PTL DEF Spec

----------------------------------------------------------------------------
(* Row steps, as moves of the state machine *)

\* The row moves to a status, and the move is the last entry of its history.
IsMove(before, after, to, user, comment) ==
    /\ CanTransition(before.status, to)
    /\ SameContent(before, after)
    /\ after.unit = before.unit
    /\ after.applicant = before.applicant
    /\ after.status = to
    /\ after.history = Append(before.history,
          [fromStatus |-> before.status, toStatus |-> to,
           changedBy |-> user, comment |-> comment])

\* TransitionTo is a move, and leaves the review comment alone.
LEMMA TransitionMoves ==
    ASSUME NEW row \in ApplicationRow, NEW to \in ApplicationStatus,
           NEW user, NEW c, CanTransition(row.status, to)
    PROVE  /\ IsMove(row, TransitionTo(row, to, user, c), to, user, Trimmed(c))
           /\ TransitionTo(row, to, user, c).reviewComment = row.reviewComment
BY DEF TransitionTo, ApplicationRow, IsMove, SameContent

\* A submission is a move by the owner that clears the review comment.
LEMMA SubmissionMoves ==
    ASSUME NEW before \in ApplicationRow, NEW after, IsSubmission(before, after)
    PROVE  /\ IsMove(before, after, "Submitted", before.applicant, NoText)
           /\ after.reviewComment = NoText
<1> DEFINE moved == TransitionTo(before, "Submitted", before.applicant, NoText)
<1>1. CanTransition(before.status, "Submitted") /\ "Submitted" \in ApplicationStatus
  BY DEF IsSubmission, CanSubmit, ApplicationStatus
<1>2. IsMove(before, moved, "Submitted", before.applicant, Trimmed(NoText))
  BY <1>1, TransitionMoves
<1>3. Trimmed(NoText) = NoText
  BY DEF Trimmed
<1>4. moved \in ApplicationRow
  BY <1>1, TransitionType DEF ApplicationRow, Users, Field
<1>5. after = [moved EXCEPT !.reviewComment = NoText]
  BY DEF IsSubmission
<1> HIDE DEF moved
<1> QED
  BY <1>2, <1>3, <1>4, <1>5 DEF IsMove, SameContent, ApplicationRow

\* A withdrawal is a move by the owner that keeps the review comment.
LEMMA WithdrawalMoves ==
    ASSUME NEW before \in ApplicationRow, NEW after, IsWithdrawal(before, after)
    PROVE  \E c \in Comments \cup {NoText} :
              /\ IsMove(before, after, "Withdrawn", before.applicant, c)
              /\ after.reviewComment = before.reviewComment
<1>1. PICK c \in Field(Comments) :
          after = TransitionTo(before, "Withdrawn", before.applicant, c)
  BY DEF IsWithdrawal
<1>2. CanTransition(before.status, "Withdrawn") /\ "Withdrawn" \in ApplicationStatus
  BY DEF IsWithdrawal, CanWithdraw, ApplicationStatus
<1> QED
  BY <1>1, <1>2, TransitionMoves, TrimmedType

\* A review is a move by a manager whose comment becomes the review comment.
LEMMA ReviewMoves ==
    ASSUME NEW before \in ApplicationRow, NEW after, IsReview(before, after)
    PROVE  \E m \in Managers, to \in {"Approved", "Returned", "Denied"},
              c \in Comments \cup {NoText} :
              /\ IsMove(before, after, to, m, c)
              /\ after.reviewComment = c
              /\ to # "Approved" => c \in Comments
<1>1. PICK m \in Managers, o \in ReviewOutcome, c \in Field(Comments) :
          /\ ~(RequiresComment(o) /\ IsBlank(c))
          /\ after = Reviewed(before, o, m, c)
  BY DEF IsReview
<1> DEFINE to == ToStatus[o]
           moved == TransitionTo(before, to, m, c)
<1>2. /\ to \in {"Approved", "Returned", "Denied"}
      /\ to # "Approved" => RequiresComment(o)
  BY DEF ToStatus, ReviewOutcome, RequiresComment
<1>3. before.status = "Submitted"
  BY DEF IsReview, CanReview
<1>4. CanTransition(before.status, to) /\ to \in ApplicationStatus
  BY <1>2, <1>3 DEF CanTransition, Transitions, ApplicationStatus
<1>5. IsMove(before, moved, to, m, Trimmed(c))
  BY <1>4, TransitionMoves
<1>6. moved \in ApplicationRow
  BY <1>4, TransitionType DEF Users
<1>7. after = [moved EXCEPT !.reviewComment = Trimmed(c)]
  BY <1>1 DEF Reviewed
<1>8. Trimmed(c) \in Comments \cup {NoText} /\ (~IsBlank(c) => Trimmed(c) \in Comments)
  BY TrimmedType, TrimmedKept
<1> HIDE DEF moved, to
<1>9. IsMove(before, after, to, m, Trimmed(c)) /\ after.reviewComment = Trimmed(c)
  BY <1>5, <1>6, <1>7 DEF IsMove, SameContent, ApplicationRow
<1> QED
  BY <1>1, <1>2, <1>8, <1>9

\* A row step is an edit or a move, made by whom the audit trail names.
LEMMA RowStepCases ==
    ASSUME NEW before \in ApplicationRow, NEW after, IsRowStep(before, after)
    PROVE  \/ IsEdit(before, after)
           \/ \E to \in ApplicationStatus, user \in Users, c \in Comments \cup {NoText} :
                 /\ IsMove(before, after, to, user, c)
                 /\ IF to \in {"Approved", "Returned", "Denied"}
                    THEN user \in Managers /\ (to # "Approved" => c \in Comments)
                    ELSE user = before.applicant
                 /\ after.reviewComment =
                       CASE to \in {"Approved", "Returned", "Denied"} -> c
                         [] to = "Withdrawn" -> before.reviewComment
                         [] OTHER -> NoText
<1>1. CASE IsSubmission(before, after)
  BY <1>1, SubmissionMoves DEF ApplicationStatus, ApplicationRow, Users
<1>2. CASE IsWithdrawal(before, after)
  BY <1>2, WithdrawalMoves DEF ApplicationStatus, ApplicationRow, Users
<1>3. CASE IsReview(before, after)
  BY <1>3, ReviewMoves DEF ApplicationStatus, Users
<1> QED
  BY <1>1, <1>2, <1>3 DEF IsRowStep

----------------------------------------------------------------------------
(* The audit trail *)

\* The trail and the feedback of an application just started.
LEMMA StartedTrail ==
    ASSUME NEW u \in Units, NEW p \in Applicants
    PROVE  /\ IsAuditTrail(StartedApplication(u, p))
           /\ IsAttributed(StartedApplication(u, p))
           /\ ShowsCurrentFeedback(StartedApplication(u, p))
BY DEF StartedApplication, IsAuditTrail, IsAttributed, ShowsCurrentFeedback,
       FeedbackEntry, NoStatus

\* An edit leaves the trail and the feedback as they were.
LEMMA EditKeepsTrail ==
    ASSUME NEW before, NEW after, IsEdit(before, after)
    PROVE  /\ IsAuditTrail(before) => IsAuditTrail(after)
           /\ IsAttributed(before) => IsAttributed(after)
           /\ ShowsCurrentFeedback(before) => ShowsCurrentFeedback(after)
BY DEF IsEdit, IsAuditTrail, IsAttributed, ShowsCurrentFeedback, FeedbackEntry

\* The entries of a history after a move.
LEMMA MoveEntries ==
    ASSUME NEW before \in ApplicationRow, NEW after, NEW to, NEW user, NEW c,
           IsMove(before, after, to, user, c)
    PROVE  /\ Len(before.history) \in Nat
           /\ Len(after.history) = Len(before.history) + 1
           /\ \A i \in 1..Len(before.history) : after.history[i] = before.history[i]
           /\ after.history[Len(before.history) + 1] =
                 [fromStatus |-> before.status, toStatus |-> to,
                  changedBy |-> user, comment |-> c]
<1>1. before.history \in Seq(HistoryRow)
  BY DEF ApplicationRow
<1> QED
  BY <1>1 DEF IsMove

\* A row step keeps the audit trail a path, and attributed.
LEMMA TrailRowStep ==
    ASSUME NEW before \in ApplicationRow, NEW after, IsRowStep(before, after),
           IsAuditTrail(before), IsAttributed(before)
    PROVE  IsAuditTrail(after) /\ IsAttributed(after)
<1>1. CASE IsEdit(before, after)
  BY <1>1, EditKeepsTrail
<1>2. ASSUME NEW to \in ApplicationStatus, NEW user \in Users,
             NEW c \in Comments \cup {NoText},
             IsMove(before, after, to, user, c),
             IF to \in {"Approved", "Returned", "Denied"}
             THEN user \in Managers /\ (to # "Approved" => c \in Comments)
             ELSE user = before.applicant
      PROVE  IsAuditTrail(after) /\ IsAttributed(after)
  <2> DEFINE n == Len(before.history)
  <2>1. /\ n \in Nat
        /\ Len(after.history) = n + 1
        /\ \A i \in 1..n : after.history[i] = before.history[i]
        /\ after.history[n + 1] = [fromStatus |-> before.status, toStatus |-> to,
                                   changedBy |-> user, comment |-> c]
    BY <1>2, MoveEntries
  <2>2. /\ CanTransition(before.status, to)
        /\ after.status = to
        /\ after.applicant = before.applicant
    BY <1>2 DEF IsMove
  <2>3. /\ n >= 1
        /\ before.history[1].fromStatus = NoStatus
        /\ before.history[1].toStatus = "Draft"
        /\ before.history[n].toStatus = before.status
        /\ \A i \in 2..n :
              /\ before.history[i].fromStatus = before.history[i-1].toStatus
              /\ CanTransition(before.history[i].fromStatus, before.history[i].toStatus)
    BY DEF IsAuditTrail
  <2> HIDE DEF n
  <2>4. \A i \in 2..(n + 1) :
           /\ after.history[i].fromStatus = after.history[i-1].toStatus
           /\ CanTransition(after.history[i].fromStatus, after.history[i].toStatus)
    <3> SUFFICES ASSUME NEW i \in 2..(n + 1)
                 PROVE  /\ after.history[i].fromStatus = after.history[i-1].toStatus
                        /\ CanTransition(after.history[i].fromStatus,
                                         after.history[i].toStatus)
      OBVIOUS
    <3>1. CASE i = n + 1
      <4>1. after.history[i - 1] = before.history[n]
        BY <3>1, <2>1, <2>3
      <4> QED
        BY <3>1, <4>1, <2>1, <2>2, <2>3
    <3>2. CASE i # n + 1
      <4>1. i \in 2..n /\ i \in 1..n /\ i - 1 \in 1..n
        BY <3>2, <2>1
      <4> QED
        BY <4>1, <2>1, <2>3
    <3> QED
      BY <3>1, <3>2
  <2>5. IsAuditTrail(after)
    BY <2>1, <2>2, <2>3, <2>4 DEF IsAuditTrail
  <2>6. \A i \in 1..(n + 1) :
           LET entry == after.history[i]
           IN  IF entry.toStatus \in {"Approved", "Returned", "Denied"}
               THEN /\ entry.changedBy \in Managers
                    /\ entry.toStatus # "Approved" => entry.comment \in Comments
               ELSE entry.changedBy = after.applicant
    <3> SUFFICES ASSUME NEW i \in 1..(n + 1)
                 PROVE  LET entry == after.history[i]
                        IN  IF entry.toStatus \in {"Approved", "Returned", "Denied"}
                            THEN /\ entry.changedBy \in Managers
                                 /\ entry.toStatus # "Approved" => entry.comment \in Comments
                            ELSE entry.changedBy = after.applicant
      OBVIOUS
    <3>1. CASE i = n + 1
      BY <3>1, <2>1, <2>2, <1>2
    <3>2. CASE i # n + 1
      <4>1. i \in 1..n
        BY <3>2, <2>1
      <4> QED
        BY <4>1, <2>1, <2>2 DEF IsAttributed, n
    <3> QED
      BY <3>1, <3>2
  <2> QED
    BY <2>1, <2>5, <2>6 DEF IsAttributed
<1> QED
  BY <1>1, <1>2, RowStepCases

\* A row step keeps the feedback current.
LEMMA FeedbackRowStep ==
    ASSUME NEW before \in ApplicationRow, NEW after, IsRowStep(before, after),
           IsAuditTrail(before), ShowsCurrentFeedback(before)
    PROVE  ShowsCurrentFeedback(after)
<1>1. CASE IsEdit(before, after)
  BY <1>1, EditKeepsTrail
<1>2. ASSUME NEW to \in ApplicationStatus, NEW user \in Users,
             NEW c \in Comments \cup {NoText},
             IsMove(before, after, to, user, c),
             after.reviewComment =
                CASE to \in {"Approved", "Returned", "Denied"} -> c
                  [] to = "Withdrawn" -> before.reviewComment
                  [] OTHER -> NoText
      PROVE  ShowsCurrentFeedback(after)
  <2> DEFINE n == Len(before.history)
  <2>1. /\ n \in Nat
        /\ Len(after.history) = n + 1
        /\ \A i \in 1..n : after.history[i] = before.history[i]
        /\ after.history[n + 1] = [fromStatus |-> before.status, toStatus |-> to,
                                   changedBy |-> user, comment |-> c]
    BY <1>2, MoveEntries
  <2>2. after.status = to /\ CanTransition(before.status, to)
    BY <1>2 DEF IsMove
  <2>3. n >= 1
    BY DEF IsAuditTrail
  <2>4. CASE to = "Withdrawn"
    <3>1. before.status # "Withdrawn"
      BY <2>2, <2>4 DEF CanTransition, Transitions
    <3>2. FeedbackEntry(before) = before.history[n]
      BY <3>1 DEF FeedbackEntry
    <3> HIDE DEF n
    <3>3. FeedbackEntry(after) = before.history[n]
      <4>1. FeedbackEntry(after) = after.history[(n + 1) - 1]
        BY <2>1, <2>2, <2>4 DEF FeedbackEntry
      <4>2. (n + 1) - 1 = n /\ n \in 1..n
        BY <2>1, <2>3
      <4> QED
        BY <2>1, <4>1, <4>2
    <3>4. after.reviewComment = before.reviewComment
      BY <1>2, <2>4
    <3> QED
      BY <3>2, <3>3, <3>4 DEF ShowsCurrentFeedback
  <2>5. CASE to # "Withdrawn"
    <3>1. FeedbackEntry(after) = after.history[n + 1]
      BY <2>1, <2>2, <2>5 DEF FeedbackEntry
    <3>2. after.reviewComment =
             IF to \in {"Approved", "Returned", "Denied"} THEN c ELSE NoText
      BY <1>2, <2>5
    <3> QED
      BY <2>1, <3>1, <3>2 DEF ShowsCurrentFeedback
  <2> QED
    BY <2>4, <2>5
<1> QED
  BY <1>1, <1>2, RowStepCases

\* The history of every application is a path of the state machine from its
\* start to its present status, each step made by someone entitled to it.
THEOREM AuditTrailHolds == Spec => []AuditTrail
<1>1. Init => AuditTrail
  BY SeedAssumption DEF Init, AuditTrail
<1>2. TypeOK /\ AuditTrail /\ [Next]_vars => AuditTrail'
  <2> SUFFICES ASSUME TypeOK, AuditTrail, [Next]_vars,
                      NEW a \in DOMAIN applications'
               PROVE  IsAuditTrail(applications'[a]) /\ IsAttributed(applications'[a])
    BY DEF AuditTrail
  <2>1. IsTableStep
    BY TableStep
  <2>2. CASE a \in DOMAIN applications
    BY <2>1, <2>2, TrailRowStep DEF TypeOK, AuditTrail, IsTableStep
  <2>3. CASE a \notin DOMAIN applications
    BY <2>1, <2>3, StartedTrail DEF IsTableStep
  <2> QED
    BY <2>2, <2>3
<1> QED
  BY <1>1, <1>2, TypeCorrect, PTL DEF Spec

\* The review comment shown to the applicant is the one of the review in force.
THEOREM FeedbackHolds == Spec => []FeedbackIsCurrent
<1>1. Init => FeedbackIsCurrent
  BY SeedAssumption DEF Init, FeedbackIsCurrent
<1>2. TypeOK /\ AuditTrail /\ FeedbackIsCurrent /\ [Next]_vars => FeedbackIsCurrent'
  <2> SUFFICES ASSUME TypeOK, AuditTrail, FeedbackIsCurrent, [Next]_vars,
                      NEW a \in DOMAIN applications'
               PROVE  ShowsCurrentFeedback(applications'[a])
    BY DEF FeedbackIsCurrent
  <2>1. IsTableStep
    BY TableStep
  <2>2. CASE a \in DOMAIN applications
    BY <2>1, <2>2, FeedbackRowStep DEF TypeOK, AuditTrail, FeedbackIsCurrent, IsTableStep
  <2>3. CASE a \notin DOMAIN applications
    BY <2>1, <2>3, StartedTrail DEF IsTableStep
  <2> QED
    BY <2>2, <2>3
<1> QED
  BY <1>1, <1>2, TypeCorrect, AuditTrailHolds, PTL DEF Spec

----------------------------------------------------------------------------
(* One open application *)

\* No step reopens an application.
LEMMA NoReopening ==
    ASSUME NEW before \in ApplicationRow, NEW after, IsRowStep(before, after)
    PROVE  /\ after.unit = before.unit
           /\ after.applicant = before.applicant
           /\ before.status \notin OpenStatuses => IsEdit(before, after)
           /\ after.status \in OpenStatuses => before.status \in OpenStatuses
<1>1. CASE IsEdit(before, after)
  BY <1>1 DEF IsEdit
<1>2. ASSUME NEW to, NEW user, NEW c, IsMove(before, after, to, user, c)
      PROVE  /\ after.unit = before.unit
             /\ after.applicant = before.applicant
             /\ before.status \in OpenStatuses
  BY <1>2 DEF IsMove, CanTransition, OpenStatuses, IsTerminal
<1> QED
  BY <1>1, <1>2, RowStepCases

\* An applicant has at most one open application for a unit.
THEOREM OneOpenHolds == Spec => []OneOpenApplication
<1>1. Init => OneOpenApplication
  BY SeedAssumption DEF Init, OneOpenApplication
<1>2. TypeOK /\ OneOpenApplication /\ [Next]_vars => OneOpenApplication'
  <2> SUFFICES ASSUME TypeOK, OneOpenApplication, [Next]_vars,
                      NEW a \in DOMAIN applications', NEW b \in DOMAIN applications',
                      applications'[a].unit = applications'[b].unit,
                      applications'[a].applicant = applications'[b].applicant,
                      applications'[a].status \in OpenStatuses,
                      applications'[b].status \in OpenStatuses
               PROVE  a = b
    BY DEF OneOpenApplication, NoTwoOpen
  <2>1. IsTableStep
    BY TableStep
  <2>2. \A x \in DOMAIN applications :
           /\ applications'[x].unit = applications[x].unit
           /\ applications'[x].applicant = applications[x].applicant
           /\ applications'[x].status \in OpenStatuses => applications[x].status \in OpenStatuses
    BY <2>1, NoReopening DEF TypeOK, IsTableStep
  <2>3. \A x \in DOMAIN applications' \ DOMAIN applications, y \in DOMAIN applications :
           ~ /\ applications'[x].unit = applications'[y].unit
             /\ applications'[x].applicant = applications'[y].applicant
             /\ applications'[y].status \in OpenStatuses
    <3> SUFFICES ASSUME NEW x \in DOMAIN applications' \ DOMAIN applications,
                        NEW y \in DOMAIN applications,
                        applications'[x].unit = applications'[y].unit,
                        applications'[x].applicant = applications'[y].applicant,
                        applications'[y].status \in OpenStatuses
                 PROVE  FALSE
      OBVIOUS
    <3>1. PICK u \in Units, p \in Applicants :
             applications'[x] = StartedApplication(u, p) /\ OpenApplications(u, p) = {}
      BY <2>1 DEF IsTableStep
    <3>2. applications[y].unit = u /\ applications[y].applicant = p
      BY <2>2, <3>1 DEF StartedApplication
    <3> QED
      BY <2>2, <3>1, <3>2 DEF OpenApplications
  <2>4. CASE a \in DOMAIN applications /\ b \in DOMAIN applications
    BY <2>2, <2>4 DEF OneOpenApplication, NoTwoOpen
  <2>5. CASE a \notin DOMAIN applications /\ b \notin DOMAIN applications
    BY <2>1, <2>5 DEF IsTableStep
  <2> QED
    BY <2>3, <2>4, <2>5
<1> QED
  BY <1>1, <1>2, TypeCorrect, PTL DEF Spec

----------------------------------------------------------------------------
(* Leases *)

\* Some application is approved.
IsApproval ==
    \E a \in ApplicationIds, m \in Managers, d \in Days, c \in Field(Comments) :
        Approve(a, m, d, c)

\* The leases change in an approval only, and no other step approves.
LEMMA LeaseStep ==
    ASSUME TypeOK, [Next]_vars
    PROVE  \/ IsApproval
           \/ /\ leases' = leases
              /\ \A a \in DOMAIN applications :
                    applications'[a].status = "Approved" =>
                       applications[a].status = "Approved"
<1> DEFINE Goal == /\ leases' = leases
                   /\ \A a \in DOMAIN applications :
                         applications'[a].status = "Approved" =>
                            applications[a].status = "Approved"
<1>1. ASSUME NEW a \in DOMAIN applications, NEW row, row.status # "Approved",
             applications' = [applications EXCEPT ![a] = row], leases' = leases
      PROVE  Goal
  BY <1>1 DEF TypeOK
<1>2. ASSUME applications' = applications, leases' = leases
      PROVE  Goal
  BY <1>2
<1>3. ASSUME NEW u \in Units, NEW p \in Applicants, Start(u, p)
      PROVE  Goal
  BY <1>3 DEF Start
<1>4. ASSUME NEW a \in ApplicationIds, NEW p \in Applicants,
             NEW i \in Answers \cup {Incomplete}, SaveApplicantInformation(a, p, i)
      PROVE  Goal
  BY <1>4 DEF SaveApplicantInformation, LoadOwnedEditable, OwnedBy, TypeOK, ApplicationRow
<1>5. ASSUME NEW a \in ApplicationIds, NEW p \in Applicants,
             CompleteResidenceHistory(a, p)
      PROVE  Goal
  BY <1>5 DEF CompleteResidenceHistory, LoadOwnedEditable, OwnedBy, TypeOK, ApplicationRow
<1>6. ASSUME NEW a \in ApplicationIds, NEW p \in Applicants,
             NEW input \in ResidenceInputs, AddResidence(a, p, input)
      PROVE  Goal
  BY <1>6, <1>2 DEF AddResidence
<1>7. ASSUME NEW a \in ApplicationIds, NEW p \in Applicants, NEW r \in ResidenceIds,
             NEW input \in ResidenceInputs, UpdateResidence(a, p, r, input)
      PROVE  Goal
  BY <1>7, <1>2 DEF UpdateResidence
<1>8. ASSUME NEW a \in ApplicationIds, NEW p \in Applicants, NEW r \in ResidenceIds,
             RemoveResidence(a, p, r)
      PROVE  Goal
  BY <1>8 DEF RemoveResidence, LoadOwnedEditable, OwnedBy, TypeOK, ApplicationRow
<1>9. ASSUME NEW a \in ApplicationIds, NEW p \in Applicants, Submit(a, p)
      PROVE  Goal
  <2>1. a \in DOMAIN applications /\ applications[a] \in ApplicationRow
    BY <1>9 DEF Submit, OwnedBy, TypeOK
  <2>2. [TransitionTo(applications[a], "Submitted", p, NoText)
            EXCEPT !.reviewComment = NoText].status # "Approved"
    BY <2>1 DEF TransitionTo, ApplicationRow
  <2> QED
    BY <1>1, <1>9, <2>1, <2>2 DEF Submit
<1>10. ASSUME NEW a \in ApplicationIds, NEW p \in Applicants,
              NEW c \in Field(Comments), Withdraw(a, p, c)
       PROVE  Goal
  <2>1. a \in DOMAIN applications /\ applications[a] \in ApplicationRow
    BY <1>10 DEF Withdraw, OwnedBy, TypeOK
  <2>2. TransitionTo(applications[a], "Withdrawn", p, c).status # "Approved"
    BY <2>1 DEF TransitionTo, ApplicationRow
  <2> QED
    BY <1>1, <1>10, <2>1, <2>2 DEF Withdraw
<1>11. ASSUME NEW a \in ApplicationIds, NEW m \in Managers,
              NEW o \in {"Return", "Deny"}, NEW c \in Field(Comments), Reject(a, m, o, c)
       PROVE  Goal
  <2>1. a \in DOMAIN applications /\ applications[a] \in ApplicationRow
    BY <1>11 DEF Reject, TypeOK
  <2>2. ToStatus[o] # "Approved"
    BY DEF ToStatus
  <2>3. Reviewed(applications[a], o, m, c).status # "Approved"
    BY <2>1, <2>2 DEF Reviewed, TransitionTo, ApplicationRow
  <2> QED
    BY <1>1, <1>11, <2>1, <2>3 DEF Reject
<1>12. ASSUME NEW a \in ApplicationIds, NEW n \in Field(Notes), SaveManagerNotes(a, n)
       PROVE  Goal
  BY <1>12 DEF SaveManagerNotes, TypeOK, ApplicationRow
<1>13. ASSUME \/ \E u \in Units : DeleteUnit(u)
              \/ DayPasses
              \/ UNCHANGED vars
       PROVE  Goal
  BY <1>13, <1>2 DEF DeleteUnit, DayPasses, vars
<1>14. ASSUME NEW p \in Applicants, ApplicantRequest(p)
       PROVE  Goal
  BY <1>14, <1>3, <1>4, <1>5, <1>6, <1>7, <1>8, <1>9, <1>10 DEF ApplicantRequest
<1>15. ASSUME NEW m \in Managers, ManagerRequest(m)
       PROVE  IsApproval \/ Goal
  BY <1>15, <1>11, <1>12 DEF ManagerRequest, IsApproval
<1> QED
  BY <1>13, <1>14, <1>15 DEF Next

\* What an approval does.
LEMMA ApprovalEffect ==
    ASSUME TypeOK, NEW a \in ApplicationIds, NEW m \in Managers, NEW d \in Days,
           NEW c \in Field(Comments), Approve(a, m, d, c)
    PROVE  /\ a \in DOMAIN applications
           /\ applications[a].status = "Submitted"
           /\ DOMAIN applications' = DOMAIN applications
           /\ applications'[a].status = "Approved"
           /\ applications'[a].unit = applications[a].unit
           /\ applications'[a].applicant = applications[a].applicant
           /\ \A b \in DOMAIN applications : b # a => applications'[b] = applications[b]
           /\ leases' = leases \cup {IssuedLease(a, applications[a], d)}
           /\ IssuedLease(a, applications[a], d) \in LeaseRow
           /\ \A k \in LeasesOf(applications[a].unit) :
                 TermsDisjoint(k, IssuedLease(a, applications[a], d))
<1> DEFINE row == Reviewed(applications[a], "Approve", m, c)
           new == IssuedLease(a, applications[a], d)
<1>1. a \in DOMAIN applications /\ applications[a] \in ApplicationRow
  BY DEF Approve, TypeOK
<1>2. applications' = [applications EXCEPT ![a] = row]
  BY DEF Approve
<1>3. /\ row.status = "Approved"
      /\ row.unit = applications[a].unit
      /\ row.applicant = applications[a].applicant
  BY <1>1 DEF Reviewed, TransitionTo, ToStatus, ApplicationRow
<1>4. /\ new \in LeaseRow
      /\ new.startDate = d
      /\ new.endDate = EndDateFor(d)
  BY <1>1, CalendarAssumption DEF IssuedLease, LeaseRow, ApplicationRow
<1>5. ASSUME NEW k \in LeasesOf(applications[a].unit)
      PROVE  TermsDisjoint(k, new)
  <2>1. k \in LeaseRow
    BY DEF LeasesOf, TypeOK
  <2>2. k.startDate \in Int /\ k.endDate \in Int /\ d \in Int /\ EndDateFor(d) \in Int
    BY <2>1, CalendarAssumption DEF LeaseRow
  <2>3. ~ (k.startDate <= EndDateFor(d) /\ k.endDate >= d)
    BY <1>5 DEF Approve, CanIssueLease, ConflictsWithExisting, Overlaps
  <2> HIDE DEF new
  <2> QED
    BY <1>4, <2>2, <2>3 DEF TermsDisjoint
<1>6. applications[a].status = "Submitted" /\ leases' = leases \cup {new}
  BY DEF Approve, CanReview
<1> HIDE DEF row
<1> QED
  BY <1>1, <1>2, <1>3, <1>4, <1>5, <1>6 DEF TypeOK

\* No day of a unit is let twice.
THEOREM NoDoubleLettingHolds == Spec => []NoDoubleLetting
<1>1. Init => NoDoubleLetting
  BY SeedAssumption DEF Init, NoDoubleLetting
<1>2. TypeOK /\ NoDoubleLetting /\ [Next]_vars => NoDoubleLetting'
  <2> SUFFICES ASSUME TypeOK, NoDoubleLetting, [Next]_vars
               PROVE  NoDoubleLetting'
    OBVIOUS
  <2>1. CASE leases' = leases
    BY <2>1 DEF NoDoubleLetting
  <2>2. ASSUME NEW a \in ApplicationIds, NEW m \in Managers, NEW d \in Days,
               NEW c \in Field(Comments), Approve(a, m, d, c)
        PROVE  NoDoubleLetting'
    <3> DEFINE new == IssuedLease(a, applications[a], d)
    <3>1. /\ leases' = leases \cup {new}
          /\ \A k \in LeasesOf(applications[a].unit) : TermsDisjoint(k, new)
      BY <2>2, ApprovalEffect
    <3>2. new.unit = applications[a].unit
      BY DEF IssuedLease
    <3> HIDE DEF new
    <3>3. \A k \in leases : k.unit = new.unit => TermsDisjoint(k, new) /\ TermsDisjoint(new, k)
      BY <3>1, <3>2 DEF LeasesOf, TermsDisjoint
    <3> QED
      BY <3>1, <3>3 DEF NoDoubleLetting
  <2> QED
    BY <2>1, <2>2, LeaseStep DEF IsApproval
<1> QED
  BY <1>1, <1>2, TypeCorrect, PTL DEF Spec

\* An application is Approved exactly when it has a lease, which is its own.
THEOREM ApprovedIffLeasedHolds == Spec => []ApprovedIffLeased
<1>1. Init => ApprovedIffLeased
  BY SeedAssumption DEF Init, ApprovedIffLeased
<1>2. TypeOK /\ ApprovedIffLeased /\ [Next]_vars => ApprovedIffLeased'
  <2> SUFFICES ASSUME TypeOK, ApprovedIffLeased, [Next]_vars
               PROVE  ApprovedIffLeased'
    OBVIOUS
  <2>1. \A l \in leases :
           /\ l.application \in DOMAIN applications
           /\ applications[l.application].status = "Approved"
           /\ l.unit = applications[l.application].unit
           /\ l.tenant = applications[l.application].applicant
           /\ l.endDate = EndDateFor(l.startDate)
    BY DEF ApprovedIffLeased, LeasesMatch
  <2>2. /\ \A a \in DOMAIN applications :
              applications[a].status = "Approved" => \E l \in leases : l.application = a
        /\ \A k, l \in leases : k.application = l.application => k = l
    BY DEF ApprovedIffLeased, LeasesMatch
  <2>3. IsTableStep
    BY TableStep
  <2>4. CASE /\ leases' = leases
             /\ \A a \in DOMAIN applications :
                   applications'[a].status = "Approved" => applications[a].status = "Approved"
    <3>1. \A a \in DOMAIN applications :
             applications[a].status = "Approved" =>
                /\ applications'[a].status = "Approved"
                /\ applications'[a].unit = applications[a].unit
                /\ applications'[a].applicant = applications[a].applicant
      <4>1. "Approved" \notin OpenStatuses
        BY DEF OpenStatuses, IsTerminal, Transitions
      <4> QED
        BY <2>3, <4>1, NoReopening DEF IsTableStep, IsEdit, TypeOK
    <3>2. \A a \in DOMAIN applications' \ DOMAIN applications :
             applications'[a].status # "Approved"
      BY <2>3 DEF IsTableStep, StartedApplication
    <3>3. DOMAIN applications \subseteq DOMAIN applications'
      BY <2>3 DEF IsTableStep
    <3>4. \A l \in leases' :
             /\ l.application \in DOMAIN applications'
             /\ applications'[l.application].status = "Approved"
             /\ l.unit = applications'[l.application].unit
             /\ l.tenant = applications'[l.application].applicant
             /\ l.endDate = EndDateFor(l.startDate)
      BY <2>1, <2>4, <3>1, <3>3
    <3>5. \A a \in DOMAIN applications' :
             applications'[a].status = "Approved" => \E l \in leases' : l.application = a
      BY <2>2, <2>4, <3>2
    <3> QED
      BY <2>2, <2>4, <3>4, <3>5 DEF ApprovedIffLeased, LeasesMatch
  <2>5. ASSUME NEW a \in ApplicationIds, NEW m \in Managers, NEW d \in Days,
               NEW c \in Field(Comments), Approve(a, m, d, c)
        PROVE  ApprovedIffLeased'
    <3> DEFINE new == IssuedLease(a, applications[a], d)
    <3>1. /\ a \in DOMAIN applications
          /\ applications[a].status = "Submitted"
          /\ DOMAIN applications' = DOMAIN applications
          /\ applications'[a].status = "Approved"
          /\ applications'[a].unit = applications[a].unit
          /\ applications'[a].applicant = applications[a].applicant
          /\ \A b \in DOMAIN applications : b # a => applications'[b] = applications[b]
          /\ leases' = leases \cup {new}
      BY <2>5, ApprovalEffect
    <3>2. /\ new.application = a
          /\ new.unit = applications[a].unit
          /\ new.tenant = applications[a].applicant
          /\ new.endDate = EndDateFor(new.startDate)
      BY DEF IssuedLease
    <3> HIDE DEF new
    <3>3. \A l \in leases : l.application # a
      BY <2>1, <3>1
    <3>4. \A l \in leases' :
             /\ l.application \in DOMAIN applications'
             /\ applications'[l.application].status = "Approved"
             /\ l.unit = applications'[l.application].unit
             /\ l.tenant = applications'[l.application].applicant
             /\ l.endDate = EndDateFor(l.startDate)
      BY <2>1, <3>1, <3>2, <3>3
    <3>5. \A b \in DOMAIN applications' :
             applications'[b].status = "Approved" => \E l \in leases' : l.application = b
      BY <2>2, <3>1, <3>2
    <3>6. \A k, l \in leases' : k.application = l.application => k = l
      BY <2>2, <3>1, <3>2, <3>3
    <3> QED
      BY <3>4, <3>5, <3>6 DEF ApprovedIffLeased, LeasesMatch
  <2> QED
    BY <2>4, <2>5, LeaseStep DEF IsApproval
<1> QED
  BY <1>1, <1>2, TypeCorrect, PTL DEF Spec

\* A decided application keeps its status, its history and its comment, and no
\* lease goes away.
THEOREM DecisionsStand == Spec => DecisionsAreFinal
<1>1. TypeOK /\ [Next]_vars => DecisionFinal
  <2> SUFFICES ASSUME TypeOK, [Next]_vars
               PROVE  DecisionFinal
    OBVIOUS
  <2>1. IsTableStep
    BY TableStep
  <2>2. leases \subseteq leases'
    BY LeaseStep, ApprovalEffect DEF IsApproval
  <2>3. \A a \in DOMAIN applications :
           IsTerminal(applications[a].status) => IsEdit(applications[a], applications'[a])
    BY <2>1, NoReopening DEF IsTableStep, TypeOK, OpenStatuses
  <2> QED
    BY <2>1, <2>2, <2>3 DEF DecisionFinal, IsEdit, IsTableStep
<1>2. TypeOK /\ [Next]_vars => [DecisionFinal]_vars
  BY <1>1
<1> QED
  BY <1>2, TypeCorrect, PTL DEF Spec, DecisionsAreFinal

\* The audit trail grows by the entry of one transition at a time.
THEOREM TrailGrowth == Spec => TrailOnlyGrows
<1>1. TypeOK /\ [Next]_vars => TrailGrows
  <2> SUFFICES ASSUME TypeOK, [Next]_vars, NEW a \in DOMAIN applications
               PROVE  LET before == applications[a]
                          after  == applications'[a]
                      IN  /\ after.unit = before.unit
                          /\ after.applicant = before.applicant
                          /\ \/ after.history = before.history /\ after.status = before.status
                             \/ \E e \in HistoryRow :
                                   /\ after.history = Append(before.history, e)
                                   /\ e.fromStatus = before.status
                                   /\ e.toStatus = after.status
    BY DEF TrailGrows
  <2> DEFINE before == applications[a]
             after == applications'[a]
  <2>1. before \in ApplicationRow /\ IsRowStep(before, after)
    BY TableStep DEF TypeOK, IsTableStep
  <2> HIDE DEF before, after
  <2>2. CASE IsEdit(before, after)
    BY <2>2 DEF IsEdit, before, after
  <2>3. ASSUME NEW to \in ApplicationStatus, NEW user \in Users,
               NEW c \in Comments \cup {NoText}, IsMove(before, after, to, user, c)
        PROVE  /\ after.unit = before.unit
               /\ after.applicant = before.applicant
               /\ \E e \in HistoryRow : /\ after.history = Append(before.history, e)
                                        /\ e.fromStatus = before.status
                                        /\ e.toStatus = after.status
    <3> DEFINE entry == [fromStatus |-> before.status, toStatus |-> to,
                         changedBy |-> user, comment |-> c]
    <3>1. entry \in HistoryRow
      BY <2>1 DEF HistoryRow, ApplicationRow
    <3> QED
      BY <2>3, <3>1 DEF IsMove
  <2> QED
    BY <2>1, <2>2, <2>3, RowStepCases DEF before, after
<1>2. TypeOK /\ [Next]_vars => [TrailGrows]_vars
  BY <1>1
<1> QED
  BY <1>2, TypeCorrect, PTL DEF Spec, TrailOnlyGrows

----------------------------------------------------------------------------
(* Residences *)

\* What a step does to the residences of an application: nothing unless it may be
\* edited, and a stamp that is there afterwards was there before with the
\* residences it vouches for, or there are residences now.
IsResidenceStep ==
    /\ \A a \in DOMAIN applications :
          /\ ~IsEditable(applications[a].status) =>
                /\ ResidencesIn(residences', a) = ResidencesOf(a)
                /\ \A r \in ResidencesOf(a) : residences'[r] = residences[r]
          /\ applications'[a].residencesCompleted =>
                \/ ResidencesIn(residences', a) # {}
                \/ /\ applications[a].residencesCompleted
                   /\ ResidencesOf(a) \subseteq ResidencesIn(residences', a)
    /\ \A r \in DOMAIN residences' :
          \/ residences'[r].application \in DOMAIN applications
          \/ /\ r \in DOMAIN residences
             /\ residences'[r].application = residences[r].application

\* A step that changes no residence and sets no stamp.
LEMMA NoResidenceStep ==
    ASSUME residences' = residences,
           \A a \in DOMAIN applications :
              applications'[a].residencesCompleted => applications[a].residencesCompleted
    PROVE  IsResidenceStep
BY DEF IsResidenceStep, ResidencesOf, ResidencesIn

\* A step of one row that changes no residence and keeps the row's stamp.
LEMMA RowKeepsStamp ==
    ASSUME TypeOK, NEW a \in DOMAIN applications, NEW row,
           row.residencesCompleted = applications[a].residencesCompleted,
           applications' = [applications EXCEPT ![a] = row],
           residences' = residences
    PROVE  IsResidenceStep
BY NoResidenceStep DEF TypeOK

\* An added residence belongs to an application that may be edited.
LEMMA AddResidenceEffect ==
    ASSUME TypeOK, NEW a \in ApplicationIds, NEW p \in Applicants,
           NEW input \in ResidenceInputs, AddResidence(a, p, input)
    PROVE  IsResidenceStep
<1>1. PICK r \in ResidenceIds \ issuedResidenceIds :
          residences' = [s \in DOMAIN residences \cup {r} |->
                             IF s = r THEN RowFor(a, input) ELSE residences[s]]
  BY DEF AddResidence
<1>2. /\ a \in DOMAIN applications
      /\ IsEditable(applications[a].status)
      /\ applications' = applications
  BY DEF AddResidence, LoadOwnedEditable, OwnedBy
<1>3. r \notin DOMAIN residences
  BY DEF TypeOK
<1>4. RowFor(a, input).application = a
  BY DEF RowFor
<1>5. DOMAIN residences' = DOMAIN residences \cup {r}
  BY <1>1
<1>6. \A s \in DOMAIN residences : residences'[s] = residences[s]
  BY <1>1, <1>3
<1>7. residences'[r].application = a
  BY <1>1, <1>4
<1> QED
  BY <1>2, <1>3, <1>5, <1>6, <1>7 DEF IsResidenceStep, ResidencesOf, ResidencesIn

\* An updated residence stays with its application.
LEMMA UpdateResidenceEffect ==
    ASSUME TypeOK, NEW a \in ApplicationIds, NEW p \in Applicants,
           NEW r \in ResidenceIds, NEW input \in ResidenceInputs,
           UpdateResidence(a, p, r, input)
    PROVE  IsResidenceStep
<1>1. /\ IsEditable(applications[a].status)
      /\ a \in DOMAIN applications
      /\ applications' = applications
      /\ r \in DOMAIN residences
      /\ residences[r].application = a
      /\ residences' = [residences EXCEPT ![r] = RowFor(a, input)]
  BY DEF UpdateResidence, LoadOwnedEditable, OwnedBy, ResidencesOf, ResidencesIn
<1>2. RowFor(a, input).application = a
  BY DEF RowFor
<1>3. \A s \in DOMAIN residences :
         /\ residences'[s].application = residences[s].application
         /\ s # r => residences'[s] = residences[s]
  BY <1>1, <1>2
<1>4. DOMAIN residences' = DOMAIN residences
  BY <1>1
<1> QED
  BY <1>1, <1>3, <1>4 DEF IsResidenceStep, ResidencesOf, ResidencesIn

\* Without its last residence an application has no stamp.
LEMMA RemoveResidenceEffect ==
    ASSUME TypeOK, NEW a \in ApplicationIds, NEW p \in Applicants,
           NEW r \in ResidenceIds, RemoveResidence(a, p, r)
    PROVE  IsResidenceStep
<1>1. /\ IsEditable(applications[a].status)
      /\ a \in DOMAIN applications
      /\ r \in ResidencesOf(a)
      /\ residences' = [s \in DOMAIN residences \ {r} |-> residences[s]]
  BY DEF RemoveResidence, LoadOwnedEditable, OwnedBy
<1>2. /\ applications'[a].residencesCompleted =
            IF ResidencesOf(a) = {r} THEN FALSE ELSE applications[a].residencesCompleted
      /\ \A b \in DOMAIN applications : b # a => applications'[b] = applications[b]
  BY <1>1 DEF RemoveResidence, TypeOK, ApplicationRow
<1>3. \A b \in DOMAIN applications :
         b # a => /\ ResidencesIn(residences', b) = ResidencesOf(b)
                  /\ \A s \in ResidencesOf(b) : residences'[s] = residences[s]
  BY <1>1 DEF ResidencesOf, ResidencesIn
<1>4. ResidencesIn(residences', a) = ResidencesOf(a) \ {r}
  BY <1>1 DEF ResidencesOf, ResidencesIn
<1>5. applications'[a].residencesCompleted => ResidencesIn(residences', a) # {}
  BY <1>1, <1>2, <1>4
<1>6. \A s \in DOMAIN residences' :
         s \in DOMAIN residences /\ residences'[s].application = residences[s].application
  BY <1>1
<1> QED
  BY <1>1, <1>2, <1>3, <1>5, <1>6 DEF IsResidenceStep

\* Every step is a residence step.
LEMMA ResidenceStep ==
    ASSUME TypeOK, [Next]_vars
    PROVE  IsResidenceStep
<1>1. ASSUME NEW u \in Units, NEW p \in Applicants, Start(u, p)
      PROVE  IsResidenceStep
  BY <1>1, NoResidenceStep DEF Start
<1>2. ASSUME NEW a \in ApplicationIds, NEW p \in Applicants,
             NEW i \in Answers \cup {Incomplete}, SaveApplicantInformation(a, p, i)
      PROVE  IsResidenceStep
  BY <1>2, RowKeepsStamp DEF SaveApplicantInformation, LoadOwnedEditable, OwnedBy,
     TypeOK, ApplicationRow
<1>3. ASSUME NEW a \in ApplicationIds, NEW p \in Applicants,
             CompleteResidenceHistory(a, p)
      PROVE  IsResidenceStep
  BY <1>3 DEF CompleteResidenceHistory, LoadOwnedEditable, OwnedBy, TypeOK,
     IsResidenceStep, ResidencesOf, ResidencesIn
<1>4. ASSUME NEW a \in ApplicationIds, NEW p \in Applicants, Submit(a, p)
      PROVE  IsResidenceStep
  <2> DEFINE row == [TransitionTo(applications[a], "Submitted", p, NoText)
                        EXCEPT !.reviewComment = NoText]
  <2>1. a \in DOMAIN applications /\ applications[a] \in ApplicationRow
    BY <1>4 DEF Submit, OwnedBy, TypeOK
  <2>2. row.residencesCompleted = applications[a].residencesCompleted
    BY <2>1 DEF TransitionTo, ApplicationRow
  <2> QED
    BY <1>4, <2>1, <2>2, RowKeepsStamp DEF Submit
<1>5. ASSUME NEW a \in ApplicationIds, NEW p \in Applicants,
             NEW c \in Field(Comments), Withdraw(a, p, c)
      PROVE  IsResidenceStep
  <2>1. a \in DOMAIN applications /\ applications[a] \in ApplicationRow
    BY <1>5 DEF Withdraw, OwnedBy, TypeOK
  <2>2. TransitionTo(applications[a], "Withdrawn", p, c).residencesCompleted
           = applications[a].residencesCompleted
    BY <2>1 DEF TransitionTo, ApplicationRow
  <2> QED
    BY <1>5, <2>1, <2>2, RowKeepsStamp DEF Withdraw
<1>6. ASSUME NEW a \in ApplicationIds, NEW m, NEW o, NEW c, a \in DOMAIN applications,
             applications' = [applications EXCEPT ![a] = Reviewed(@, o, m, c)],
             residences' = residences
      PROVE  IsResidenceStep
  <2>1. applications[a] \in ApplicationRow
    BY <1>6 DEF TypeOK
  <2>2. Reviewed(applications[a], o, m, c).residencesCompleted
           = applications[a].residencesCompleted
    BY <2>1 DEF Reviewed, TransitionTo, ApplicationRow
  <2> QED
    BY <1>6, <2>2, RowKeepsStamp
<1>7. ASSUME NEW a \in ApplicationIds, NEW n \in Field(Notes), SaveManagerNotes(a, n)
      PROVE  IsResidenceStep
  BY <1>7, RowKeepsStamp DEF SaveManagerNotes, TypeOK, ApplicationRow
<1>8. ASSUME \/ \E u \in Units : DeleteUnit(u)
             \/ DayPasses
             \/ UNCHANGED vars
      PROVE  IsResidenceStep
  BY <1>8, NoResidenceStep DEF DeleteUnit, DayPasses, vars
<1>9. ASSUME NEW p \in Applicants, ApplicantRequest(p)
      PROVE  IsResidenceStep
  BY <1>9, <1>1, <1>2, <1>3, <1>4, <1>5, AddResidenceEffect, UpdateResidenceEffect,
     RemoveResidenceEffect DEF ApplicantRequest
<1>10. ASSUME NEW m \in Managers, ManagerRequest(m)
       PROVE  IsResidenceStep
  BY <1>10, <1>6, <1>7 DEF ManagerRequest, Approve, Reject
<1> QED
  BY <1>8, <1>9, <1>10 DEF Next

\* A row step keeps what a submitted row must have.
LEMMA SectionsRowStep ==
    ASSUME NEW before \in ApplicationRow, NEW after, IsRowStep(before, after),
           before.informationCompleted => before.information \in Answers,
           before.status \in {"Submitted", "Approved", "Denied"} =>
              AllSectionsCompleted(before)
    PROVE  /\ after.informationCompleted => after.information \in Answers
           /\ after.status \in {"Submitted", "Approved", "Denied"} =>
                 AllSectionsCompleted(after)
<1>1. CASE IsEdit(before, after)
  BY <1>1 DEF IsEdit, SameContent, AllSectionsCompleted, IsEditable
<1>2. CASE IsSubmission(before, after)
  <2>1. SameContent(before, after) /\ AllSectionsCompleted(before)
    BY <1>2, SubmissionMoves DEF IsMove, IsSubmission
  <2> QED
    BY <2>1 DEF SameContent, AllSectionsCompleted
<1>3. CASE IsWithdrawal(before, after)
  <2>1. SameContent(before, after) /\ after.status = "Withdrawn"
    BY <1>3, WithdrawalMoves DEF IsMove
  <2> QED
    BY <2>1 DEF SameContent
<1>4. CASE IsReview(before, after)
  <2>1. SameContent(before, after) /\ before.status = "Submitted"
    BY <1>4, ReviewMoves DEF IsMove, IsReview, CanReview
  <2> QED
    BY <2>1 DEF SameContent, AllSectionsCompleted
<1> QED
  BY <1>1, <1>2, <1>3, <1>4 DEF IsRowStep

\* A section stamped as completed holds what it needs, and what has been
\* submitted had both sections stamped.
THEOREM SectionsCompleteHolds == Spec => []SectionsComplete
<1>1. Init => SectionsComplete
  BY SeedAssumption DEF Init, SectionsComplete
<1>2. TypeOK /\ SectionsComplete /\ [Next]_vars => SectionsComplete'
  <2> SUFFICES ASSUME TypeOK, SectionsComplete, [Next]_vars,
                      NEW a \in DOMAIN applications'
               PROVE  /\ applications'[a].informationCompleted =>
                            applications'[a].information \in Answers
                      /\ applications'[a].residencesCompleted =>
                            ResidencesIn(residences', a) # {}
                      /\ applications'[a].status \in {"Submitted", "Approved", "Denied"} =>
                            AllSectionsCompleted(applications'[a])
    BY DEF SectionsComplete, SectionsHold, StampedSectionsHold
  <2>1. IsTableStep /\ IsResidenceStep
    BY TableStep, ResidenceStep
  <2>2. CASE a \in DOMAIN applications
    <3>1. /\ applications[a] \in ApplicationRow
          /\ IsRowStep(applications[a], applications'[a])
      BY <2>1, <2>2 DEF TypeOK, IsTableStep
    <3>2. /\ applications[a].informationCompleted => applications[a].information \in Answers
          /\ applications[a].residencesCompleted => ResidencesOf(a) # {}
          /\ applications[a].status \in {"Submitted", "Approved", "Denied"} =>
                AllSectionsCompleted(applications[a])
      BY <2>2 DEF SectionsComplete, SectionsHold, StampedSectionsHold, ResidencesOf
    <3>3. applications'[a].residencesCompleted => ResidencesIn(residences', a) # {}
      BY <2>1, <2>2, <3>2 DEF IsResidenceStep
    <3> QED
      BY <3>1, <3>2, <3>3, SectionsRowStep
  <2>3. CASE a \notin DOMAIN applications
    BY <2>1, <2>3 DEF IsTableStep, StartedApplication
  <2> QED
    BY <2>2, <2>3
<1> QED
  BY <1>1, <1>2, TypeCorrect, PTL DEF Spec

\* Unless an application is Draft or Returned, no step changes its content.
THEOREM ContentStaysFrozen == Spec => SubmittedContentIsFrozen
<1>1. TypeOK /\ [Next]_vars => ContentFrozen
  <2> SUFFICES ASSUME TypeOK, [Next]_vars, NEW a \in DOMAIN applications,
                      ~IsEditable(applications[a].status)
               PROVE  /\ SameContent(applications[a], applications'[a])
                      /\ ResidencesIn(residences', a) = ResidencesOf(a)
                      /\ \A r \in ResidencesOf(a) : residences'[r] = residences[r]
    BY DEF ContentFrozen, SameContent
  <2>1. IsTableStep /\ IsResidenceStep
    BY TableStep, ResidenceStep
  <2>2. /\ applications[a] \in ApplicationRow
        /\ IsRowStep(applications[a], applications'[a])
    BY <2>1 DEF TypeOK, IsTableStep
  <2>3. SameContent(applications[a], applications'[a])
    BY <2>2, RowStepCases DEF IsEdit, IsMove
  <2> QED
    BY <2>1, <2>3 DEF IsResidenceStep
<1>2. TypeOK /\ [Next]_vars => [ContentFrozen]_vars
  BY <1>1
<1> QED
  BY <1>2, TypeCorrect, PTL DEF Spec, SubmittedContentIsFrozen

----------------------------------------------------------------------------
(* References *)

\* A unit goes away only when no application and no lease refers to it.
LEMMA UnitStep ==
    ASSUME [Next]_vars
    PROVE  \/ units' = units
           \/ \E u \in Units :
                 /\ units' = units \ {u}
                 /\ UNCHANGED <<applications, leases>>
                 /\ \A l \in leases : l.unit # u
                 /\ \A a \in DOMAIN applications : applications[a].unit # u
<1>1. ASSUME NEW p \in Applicants, ApplicantRequest(p)
      PROVE  units' = units
  BY <1>1 DEF ApplicantRequest, Start, SaveApplicantInformation,
     CompleteResidenceHistory, AddResidence, UpdateResidence, RemoveResidence,
     Submit, Withdraw
<1>2. ASSUME NEW m \in Managers, ManagerRequest(m)
      PROVE  units' = units
  BY <1>2 DEF ManagerRequest, Approve, Reject, SaveManagerNotes
<1>3. ASSUME NEW u \in Units, DeleteUnit(u)
      PROVE  /\ units' = units \ {u}
             /\ UNCHANGED <<applications, leases>>
             /\ \A l \in leases : l.unit # u
             /\ \A a \in DOMAIN applications : applications[a].unit # u
  BY <1>3 DEF DeleteUnit, LeasesOf
<1>4. DayPasses \/ UNCHANGED vars => units' = units
  BY DEF DayPasses, vars
<1> QED
  BY <1>1, <1>2, <1>3, <1>4 DEF Next

\* No row refers to a row that is gone.
THEOREM ReferencesStand == Spec => []ReferencesHold
<1>1. Init => ReferencesHold
  BY SeedAssumption DEF Init, ReferencesHold, ApplicationRow, LeaseRow
<1>2. TypeOK /\ ReferencesHold /\ [Next]_vars => ReferencesHold'
  <2> SUFFICES ASSUME TypeOK, ReferencesHold, [Next]_vars
               PROVE  ReferencesHold'
    OBVIOUS
  <2>1. IsTableStep /\ IsResidenceStep
    BY TableStep, ResidenceStep
  <2>2. \A r \in DOMAIN residences' : residences'[r].application \in DOMAIN applications'
    BY <2>1 DEF ReferencesHold, IsTableStep, IsResidenceStep
  <2>3. CASE units' = units
    <3>1. \A a \in DOMAIN applications' : applications'[a].unit \in units
      <4>1. \A a \in DOMAIN applications : applications'[a].unit = applications[a].unit
        BY <2>1, NoReopening DEF IsTableStep, TypeOK
      <4>2. \A a \in DOMAIN applications' \ DOMAIN applications :
               applications'[a].unit \in units
        BY <2>1 DEF IsTableStep, StartedApplication
      <4> QED
        BY <4>1, <4>2 DEF ReferencesHold
    <3>2. \A l \in leases' : l.unit \in units
      <4>1. CASE leases' = leases
        BY <4>1 DEF ReferencesHold
      <4>2. ASSUME NEW a \in ApplicationIds, NEW m \in Managers, NEW d \in Days,
                   NEW c \in Field(Comments), Approve(a, m, d, c)
            PROVE  \A l \in leases' : l.unit \in units
        <5> DEFINE new == IssuedLease(a, applications[a], d)
        <5>1. a \in DOMAIN applications /\ leases' = leases \cup {new}
          BY <4>2, ApprovalEffect
        <5>2. new.unit = applications[a].unit
          BY DEF IssuedLease
        <5> HIDE DEF new
        <5> QED
          BY <5>1, <5>2 DEF ReferencesHold
      <4> QED
        BY <4>1, <4>2, LeaseStep DEF IsApproval
    <3> QED
      BY <2>2, <2>3, <3>1, <3>2 DEF ReferencesHold
  <2>4. ASSUME NEW u \in Units,
               units' = units \ {u},
               UNCHANGED <<applications, leases>>,
               \A l \in leases : l.unit # u,
               \A a \in DOMAIN applications : applications[a].unit # u
        PROVE  ReferencesHold'
    BY <2>2, <2>4 DEF ReferencesHold
  <2> QED
    BY <2>3, <2>4, UnitStep
<1> QED
  BY <1>1, <1>2, TypeCorrect, PTL DEF Spec

----------------------------------------------------------------------------
(* The lifecycle implements UnitOccupancy *)

\* The unit-days of one lease.
TermDays(l) ==
    {[unit |-> l.unit, day |-> d, tenant |-> l.tenant] : d \in l.startDate..l.endDate}

\* A unit-day is let when it belongs to the term of a lease.
LEMMA LetDaysMember ==
    ASSUME NEW o
    PROVE  o \in LetDays <=> \E l \in leases : o \in TermDays(l)
BY DEF LetDays, TermDays

\* An approval lets the days of a term that nobody has.
LEMMA ApprovalLets ==
    ASSUME TypeOK, NEW a \in ApplicationIds, NEW m \in Managers, NEW d \in Days,
           NEW c \in Field(Comments), Approve(a, m, d, c)
    PROVE  Occupied!Next
<1> DEFINE new == IssuedLease(a, applications[a], d)
<1>1. /\ a \in DOMAIN applications
      /\ leases' = leases \cup {new}
      /\ new \in LeaseRow
      /\ \A k \in LeasesOf(applications[a].unit) : TermsDisjoint(k, new)
  BY ApprovalEffect
<1>2. /\ new.startDate = d
      /\ new.endDate = EndDateFor(d)
      /\ new.unit = applications[a].unit
  BY DEF IssuedLease
<1> HIDE DEF new
<1>3. new.unit \in Units /\ new.tenant \in Applicants
  BY <1>1 DEF LeaseRow
<1>4. LetDays' = LetDays \cup TermDays(new)
  BY <1>1 DEF LetDays, TermDays
<1>5. ASSUME NEW o \in LetDays, o.unit = new.unit
      PROVE  o.day \notin new.startDate..new.endDate
  <2>1. PICK k \in leases : o \in TermDays(k)
    BY LetDaysMember
  <2>2. PICK e \in k.startDate..k.endDate :
           o = [unit |-> k.unit, day |-> e, tenant |-> k.tenant]
    BY <2>1 DEF TermDays
  <2>3. k \in LeaseRow /\ k.unit = new.unit /\ o.day = e
    BY <1>5, <2>2 DEF TypeOK
  <2>4. TermsDisjoint(k, new)
    BY <1>1, <1>2, <2>3 DEF LeasesOf
  <2>5. k.startDate \in Int /\ k.endDate \in Int /\ new.startDate \in Int /\ new.endDate \in Int
    BY <1>1, <2>3, CalendarAssumption DEF LeaseRow
  <2> QED
    BY <2>2, <2>3, <2>4, <2>5 DEF TermsDisjoint
<1>6. Occupied!Let(new.unit, new.tenant, new.startDate, new.endDate)
  BY <1>4, <1>5 DEF Occupied!Let, Occupied!Free, TermDays
<1>7. new.startDate \in Days \cup {EndDateFor(x) : x \in Days}
      /\ new.endDate \in Days \cup {EndDateFor(x) : x \in Days}
  BY <1>2
<1> QED
  BY <1>3, <1>6, <1>7 DEF Occupied!Next

\* Terms without a common day let no day to two tenants.
LEMMA DaysLetOnce ==
    ASSUME TypeOK, NoDoubleLetting
    PROVE  Occupied!OneTenantADay
<1> SUFFICES ASSUME NEW o \in LetDays, NEW q \in LetDays,
                    o.unit = q.unit, o.day = q.day
             PROVE  o = q
  BY DEF Occupied!OneTenantADay
<1>1. PICK k \in leases : o \in TermDays(k)
  BY LetDaysMember
<1>2. PICK l \in leases : q \in TermDays(l)
  BY LetDaysMember
<1>3. PICK d \in k.startDate..k.endDate :
         o = [unit |-> k.unit, day |-> d, tenant |-> k.tenant]
  BY <1>1 DEF TermDays
<1>4. PICK e \in l.startDate..l.endDate :
         q = [unit |-> l.unit, day |-> e, tenant |-> l.tenant]
  BY <1>2 DEF TermDays
<1>5. k \in LeaseRow /\ l \in LeaseRow
  BY DEF TypeOK
<1>6. /\ k.startDate \in Int /\ k.endDate \in Int
      /\ l.startDate \in Int /\ l.endDate \in Int
  BY <1>5, CalendarAssumption DEF LeaseRow
<1>7. d = e /\ k.unit = l.unit
  BY <1>3, <1>4
<1>8. k = l
  BY <1>6, <1>7 DEF NoDoubleLetting, TermsDisjoint
<1> QED
  BY <1>3, <1>4, <1>7, <1>8

\* On every day a unit has at most one tenant: the days covered by leases, whatever
\* approvals, start dates and withdrawals came before (RentalApplication.IssueLease).
THEOREM UnitsHaveOneTenant == Spec => []Occupied!OneTenantADay
BY TypeCorrect, NoDoubleLettingHolds, DaysLetOnce, PTL

\* The lifecycle keeps the promise of UnitOccupancy.
THEOREM LifecycleKeepsOccupancy == Spec => KeepsOccupancy
<1>1. Init => Occupied!Init
  <2> SUFFICES ASSUME Init PROVE Occupied!Init
    OBVIOUS
  <2>1. TypeOK
    BY SeedAssumption DEF Init, TypeOK
  <2>2. NoDoubleLetting
    BY SeedAssumption DEF Init, NoDoubleLetting
  <2> QED
    BY DaysLetOnce, <2>1, <2>2 DEF Occupied!Init
<1>2. TypeOK /\ [Next]_vars => [Occupied!Next]_LetDays
  <2> SUFFICES ASSUME TypeOK, [Next]_vars
               PROVE  Occupied!Next \/ LetDays' = LetDays
    OBVIOUS
  <2>1. leases' = leases => LetDays' = LetDays
    BY DEF LetDays
  <2> QED
    BY <2>1, LeaseStep, ApprovalLets DEF IsApproval
<1> QED
  BY <1>1, <1>2, TypeCorrect, PTL DEF Spec, KeepsOccupancy, Occupied!Spec

=============================================================================
