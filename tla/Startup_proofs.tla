--------------------------- MODULE Startup_proofs ---------------------------
(***************************************************************************)
(* What a start of the web application leaves in the database, whatever    *)
(* the numbers of users and units, the calendar and the stops: theorems    *)
(* of Startup.                                                             *)
(***************************************************************************)
EXTENDS Startup, GregorianCalendar_proofs, FiniteSetTheorems, SequenceTheorems, TLAPS

----------------------------------------------------------------------------
(* A seeded application *)

\* What the tables promise of one row.
IsSound(row) == IsAuditTrail(row) /\ IsAttributed(row) /\ ShowsCurrentFeedback(row)

Entry(from, to, user, comment) ==
    [fromStatus |-> from, toStatus |-> to, changedBy |-> user, comment |-> comment]

\* A transition, column by column.
LEMMA TransitionColumns ==
    ASSUME NEW row \in ApplicationRow, NEW to \in ApplicationStatus,
           NEW user \in Users, NEW c \in Comments \cup {NoText}
    PROVE  /\ TransitionTo(row, to, user, c) =
                 [row EXCEPT !.status = to,
                             !.history = Append(row.history, Entry(row.status, to, user, c))]
           /\ TransitionTo(row, to, user, c) \in ApplicationRow
<1>1. Trimmed(c) = c
  BY DistinctValues DEF Trimmed, IsBlank
<1>2. row.history \in Seq(HistoryRow) /\ row.status \in ApplicationStatus
  BY DEF ApplicationRow
<1>3. Entry(row.status, to, user, c) \in HistoryRow
  BY <1>2 DEF Entry, HistoryRow
<1>4. TransitionTo(row, to, user, c) =
         [row EXCEPT !.status = to,
                     !.history = Append(row.history, Entry(row.status, to, user, c))]
  BY <1>1 DEF TransitionTo, Entry, ApplicationRow
<1>5. Append(row.history, Entry(row.status, to, user, c)) \in Seq(HistoryRow)
  BY <1>2, <1>3
<1> QED
  BY <1>4, <1>5 DEF ApplicationRow

\* The draft a seeded application begins as.
Begun(status, unit, applicant, answers) ==
    [StartedApplication(unit, applicant) EXCEPT
        !.information = answers,
        !.informationCompleted = TRUE,
        !.residencesCompleted = (status # "Draft")]

\* What all seeded applications have in common.
LEMMA BegunColumns ==
    ASSUME NEW status \in ApplicationStatus, NEW u \in Units, NEW p \in Applicants, NEW answers \in Answers
    PROVE  /\ Begun(status, u, p, answers) \in ApplicationRow
           /\ Begun(status, u, p, answers).unit = u
           /\ Begun(status, u, p, answers).applicant = p
           /\ Begun(status, u, p, answers).status = "Draft"
           /\ Begun(status, u, p, answers).information = answers
           /\ Begun(status, u, p, answers).informationCompleted
           /\ Begun(status, u, p, answers).residencesCompleted <=> status # "Draft"
           /\ Begun(status, u, p, answers).reviewComment = NoText
           /\ Begun(status, u, p, answers).history =
                 << Entry(NoStatus, "Draft", p, StartedComment) >>
<1>1. Entry(NoStatus, "Draft", p, StartedComment) \in HistoryRow
  BY DEF Entry, HistoryRow, ApplicationStatus, NoStatus, Users
<1>2. << Entry(NoStatus, "Draft", p, StartedComment) >> \in Seq(HistoryRow)
  BY <1>1
<1> DEFINE draft ==
        [unit                 |-> u,
         applicant            |-> p,
         status               |-> "Draft",
         information          |-> Profile,
         informationCompleted |-> FALSE,
         residencesCompleted  |-> FALSE,
         reviewComment        |-> NoText,
         managerNotes         |-> NoText,
         history              |-> << Entry(NoStatus, "Draft", p, StartedComment) >>]
<1>3. StartedApplication(u, p) = draft
  BY DEF StartedApplication, Entry
<1>4. Begun(status, u, p, answers) =
        [draft EXCEPT !.information = answers, !.informationCompleted = TRUE,
                      !.residencesCompleted = (status # "Draft")]
  BY <1>3 DEF Begun
<1>5. Begun(status, u, p, answers) =
        [unit                 |-> u,
         applicant            |-> p,
         status               |-> "Draft",
         information          |-> answers,
         informationCompleted |-> TRUE,
         residencesCompleted  |-> (status # "Draft"),
         reviewComment        |-> NoText,
         managerNotes         |-> NoText,
         history              |-> << Entry(NoStatus, "Draft", p, StartedComment) >>]
  BY <1>4
<1>6. Begun(status, u, p, answers) \in ApplicationRow
  BY <1>2, <1>5 DEF ApplicationRow, ApplicationStatus
<1>7. /\ Begun(status, u, p, answers).informationCompleted
      /\ Begun(status, u, p, answers).residencesCompleted <=> status # "Draft"
  <2>1. Begun(status, u, p, answers).informationCompleted = TRUE
    BY <1>5
  <2>2. Begun(status, u, p, answers).residencesCompleted = (status # "Draft")
    BY <1>5
  <2> QED
    BY <2>1, <2>2, Zenon
<1>8. /\ Begun(status, u, p, answers).unit = u
      /\ Begun(status, u, p, answers).applicant = p
      /\ Begun(status, u, p, answers).status = "Draft"
      /\ Begun(status, u, p, answers).information = answers
  BY <1>5
<1>9. /\ Begun(status, u, p, answers).reviewComment = NoText
      /\ Begun(status, u, p, answers).history = << Entry(NoStatus, "Draft", p, StartedComment) >>
  BY <1>5
<1> QED
  BY <1>6, <1>7, <1>8, <1>9

\* The columns that a transition leaves alone.
SameDetails(row, before) ==
    /\ row.unit = before.unit
    /\ row.applicant = before.applicant
    /\ row.information = before.information
    /\ row.informationCompleted = before.informationCompleted
    /\ row.residencesCompleted = before.residencesCompleted

LEMMA TransitionKeeps ==
    ASSUME NEW row \in ApplicationRow, NEW to \in ApplicationStatus,
           NEW user \in Users, NEW c \in Comments \cup {NoText}
    PROVE  /\ TransitionTo(row, to, user, c) \in ApplicationRow
           /\ SameDetails(TransitionTo(row, to, user, c), row)
           /\ TransitionTo(row, to, user, c).status = to
           /\ TransitionTo(row, to, user, c).reviewComment = row.reviewComment
           /\ TransitionTo(row, to, user, c).history =
                 Append(row.history, Entry(row.status, to, user, c))
<1> DEFINE entries == Append(row.history, Entry(row.status, to, user, c))
<1>1. /\ TransitionTo(row, to, user, c) = [row EXCEPT !.status = to, !.history = entries]
      /\ TransitionTo(row, to, user, c) \in ApplicationRow
  BY TransitionColumns
<1> HIDE DEF entries
<1>2. /\ TransitionTo(row, to, user, c).status = to
      /\ TransitionTo(row, to, user, c).history = entries
      /\ TransitionTo(row, to, user, c).reviewComment = row.reviewComment
      /\ SameDetails(TransitionTo(row, to, user, c), row)
  BY <1>1 DEF ApplicationRow, SameDetails
<1> QED
  BY <1>1, <1>2 DEF entries

\* A review is a transition that also keeps its comment for the applicant.
LEMMA ReviewedKeeps ==
    ASSUME NEW row \in ApplicationRow, NEW o \in ReviewOutcome,
           NEW m \in Managers, NEW c \in Comments
    PROVE  /\ Reviewed(row, o, m, c) \in ApplicationRow
           /\ SameDetails(Reviewed(row, o, m, c), row)
           /\ Reviewed(row, o, m, c).status = ToStatus[o]
           /\ Reviewed(row, o, m, c).reviewComment = c
           /\ Reviewed(row, o, m, c).history =
                 Append(row.history, Entry(row.status, ToStatus[o], m, c))
<1> DEFINE moved == TransitionTo(row, ToStatus[o], m, c)
<1>1. ToStatus[o] \in ApplicationStatus
  BY DEF ToStatus, ReviewOutcome, ApplicationStatus
<1>2. /\ moved \in ApplicationRow
      /\ SameDetails(moved, row)
      /\ moved.status = ToStatus[o]
      /\ moved.history = Append(row.history, Entry(row.status, ToStatus[o], m, c))
  BY <1>1, TransitionKeeps DEF Users
<1>3. Trimmed(c) = c
  BY DistinctValues DEF Trimmed, IsBlank
<1>4. Reviewed(row, o, m, c) = [moved EXCEPT !.reviewComment = c]
  BY <1>3 DEF Reviewed
<1> HIDE DEF moved
<1>5. /\ Reviewed(row, o, m, c) \in ApplicationRow
      /\ SameDetails(Reviewed(row, o, m, c), moved)
      /\ Reviewed(row, o, m, c).status = moved.status
      /\ Reviewed(row, o, m, c).reviewComment = c
      /\ Reviewed(row, o, m, c).history = moved.history
  BY <1>2, <1>4 DEF ApplicationRow, SameDetails
<1> QED
  BY <1>2, <1>5 DEF SameDetails

\* A sequence that grows by one, written out.
LEMMA AppendToOne == ASSUME NEW a, NEW b PROVE Append(<<a>>, b) = <<a, b>>
<1> DEFINE S     == {a, b}
           left  == Append(<<a>>, b)
           right == <<a, b>>
<1>1. Len(<<a>>) = 1 /\ <<a>> \in Seq(S) /\ right \in Seq(S)
  OBVIOUS
<1>2. left \in Seq(S) /\ Len(left) = 2 /\ left[1] = a /\ left[2] = b
  BY <1>1, AppendProperties
<1>3. Len(right) = 2 /\ right[1] = a /\ right[2] = b
  OBVIOUS
<1>4. \A i \in 1..2 : i = 1 \/ i = 2
  OBVIOUS
<1> HIDE DEF S, left, right
<1>5. \A i \in 1..Len(left) : left[i] = right[i]
  BY <1>2, <1>3, <1>4
<1> QED
  BY <1>1, <1>2, <1>3, <1>5, SeqEqual DEF left, right

LEMMA AppendToTwo == ASSUME NEW a, NEW b, NEW c PROVE Append(<<a, b>>, c) = <<a, b, c>>
<1> DEFINE S     == {a, b, c}
           left  == Append(<<a, b>>, c)
           right == <<a, b, c>>
<1>1. Len(<<a, b>>) = 2 /\ <<a, b>> \in Seq(S) /\ right \in Seq(S)
  OBVIOUS
<1>2. left \in Seq(S) /\ Len(left) = 3 /\ left[1] = a /\ left[2] = b /\ left[3] = c
  BY <1>1, AppendProperties
<1>3. Len(right) = 3 /\ right[1] = a /\ right[2] = b /\ right[3] = c
  OBVIOUS
<1>4. \A i \in 1..3 : i = 1 \/ i = 2 \/ i = 3
  OBVIOUS
<1> HIDE DEF S, left, right
<1>5. \A i \in 1..Len(left) : left[i] = right[i]
  BY <1>2, <1>3, <1>4
<1> QED
  BY <1>1, <1>2, <1>3, <1>5, SeqEqual DEF left, right

\* The entries of a seeded application.
FirstEntry(p) == Entry(NoStatus, "Draft", p, StartedComment)

SecondEntry(p) == Entry("Draft", "Submitted", p, NoText)

ThirdEntry(status, p, m, c) ==
    Entry("Submitted", status, IF status = "Withdrawn" THEN p ELSE m, c)

\* What a seeded application says: its columns and its audit trail.
IsSeeded(row, status, u, p, m, answers, c) ==
    /\ row \in ApplicationRow
    /\ row.unit = u
    /\ row.applicant = p
    /\ row.status = status
    /\ row.information = answers
    /\ row.informationCompleted
    /\ row.residencesCompleted <=> status # "Draft"
    /\ row.reviewComment = IF status \in {"Approved", "Returned", "Denied"} THEN c ELSE NoText
    /\ row.history = IF status = "Draft" THEN << FirstEntry(p) >>
                     ELSE IF status = "Submitted"
                          THEN << FirstEntry(p), SecondEntry(p) >>
                          ELSE << FirstEntry(p), SecondEntry(p), ThirdEntry(status, p, m, c) >>

LEMMA SeededColumns ==
    ASSUME NEW status \in ApplicationStatus, NEW u \in Units, NEW p \in Applicants,
           NEW m \in Managers, NEW answers \in Answers, NEW c \in Comments
    PROVE  IsSeeded(SeededApplication(status, u, p, m, answers, c), status, u, p, m, answers, c)
<1> SUFFICES ASSUME NEW row, row = SeededApplication(status, u, p, m, answers, c)
             PROVE  IsSeeded(row, status, u, p, m, answers, c)
  OBVIOUS
<1> DEFINE begun     == Begun(status, u, p, answers)
           submitted == TransitionTo(begun, "Submitted", p, NoText)
<1>1. /\ begun \in ApplicationRow /\ begun.unit = u /\ begun.applicant = p
      /\ begun.status = "Draft" /\ begun.information = answers
      /\ begun.informationCompleted
      /\ begun.residencesCompleted <=> status # "Draft"
      /\ begun.reviewComment = NoText
      /\ begun.history = << FirstEntry(p) >>
  BY BegunColumns, SMT DEF FirstEntry
<1>2. row = CASE status = "Draft"     -> begun
              [] status = "Submitted" -> submitted
              [] status = "Returned"  -> Reviewed(submitted, "Return", m, c)
              [] status = "Denied"    -> Reviewed(submitted, "Deny", m, c)
              [] status = "Approved"  -> Reviewed(submitted, "Approve", m, c)
              [] status = "Withdrawn" -> TransitionTo(submitted, "Withdrawn", p, c)
  BY DEF SeededApplication, Begun
<1> HIDE DEF begun
<1>3. /\ submitted \in ApplicationRow /\ SameDetails(submitted, begun)
      /\ submitted.status = "Submitted" /\ submitted.reviewComment = NoText
      /\ submitted.history = Append(<< FirstEntry(p) >>, SecondEntry(p))
  <2>1. /\ "Submitted" \in ApplicationStatus /\ p \in Users
        /\ NoText \in Comments \cup {NoText}
        /\ begun \in ApplicationRow
    BY <1>1 DEF ApplicationStatus, Users
  <2>2. Entry(begun.status, "Submitted", p, NoText) = SecondEntry(p)
    BY <1>1 DEF SecondEntry
  <2>3. submitted \in ApplicationRow
    BY <2>1, TransitionKeeps
  <2>4. SameDetails(submitted, begun)
    BY <2>1, TransitionKeeps
  <2>5. submitted.status = "Submitted"
    BY <2>1, TransitionKeeps
  <2>6. submitted.reviewComment = begun.reviewComment
    BY <2>1, TransitionKeeps
  <2>7. submitted.history = Append(begun.history, Entry(begun.status, "Submitted", p, NoText))
    BY <2>1, TransitionKeeps, Zenon
  <2> QED
    BY <1>1, <2>2, <2>3, <2>4, <2>5, <2>6, <2>7
<1>4. submitted.history = << FirstEntry(p), SecondEntry(p) >>
  BY <1>3, AppendToOne
<1> HIDE DEF submitted
<1>5. /\ "Return" \in ReviewOutcome /\ ToStatus["Return"] = "Returned"
      /\ "Deny" \in ReviewOutcome /\ ToStatus["Deny"] = "Denied"
      /\ "Approve" \in ReviewOutcome /\ ToStatus["Approve"] = "Approved"
  BY DEF ReviewOutcome, ToStatus
<1>6. CASE status = "Draft"
  BY <1>1, <1>2, <1>6 DEF IsSeeded
<1>7. CASE status = "Submitted"
  BY <1>1, <1>2, <1>3, <1>4, <1>7 DEF SameDetails, IsSeeded
<1>8. ASSUME NEW o \in ReviewOutcome, ToStatus[o] = status,
             row = Reviewed(submitted, o, m, c), status \notin {"Draft", "Submitted", "Withdrawn"}
      PROVE  /\ row \in ApplicationRow /\ SameDetails(row, begun) /\ row.status = status
             /\ row.reviewComment = c
             /\ row.history = << FirstEntry(p), SecondEntry(p), ThirdEntry(status, p, m, c) >>
  <2>1. /\ row \in ApplicationRow /\ SameDetails(row, submitted) /\ row.status = status
        /\ row.reviewComment = c
        /\ row.history = Append(submitted.history, Entry("Submitted", status, m, c))
    <3>1. /\ Reviewed(submitted, o, m, c) \in ApplicationRow
          /\ SameDetails(Reviewed(submitted, o, m, c), submitted)
          /\ Reviewed(submitted, o, m, c).status = ToStatus[o]
          /\ Reviewed(submitted, o, m, c).reviewComment = c
          /\ Reviewed(submitted, o, m, c).history =
                Append(submitted.history, Entry(submitted.status, ToStatus[o], m, c))
      BY <1>3, ReviewedKeeps
    <3> QED
      BY <1>3, <1>8, <3>1
  <2>2. ThirdEntry(status, p, m, c) = Entry("Submitted", status, m, c)
    BY <1>8 DEF ThirdEntry
  <2>3. row.history = << FirstEntry(p), SecondEntry(p), ThirdEntry(status, p, m, c) >>
    BY <1>4, <2>1, <2>2, AppendToTwo
  <2> QED
    BY <1>3, <2>1, <2>3 DEF SameDetails
<1>9. CASE status \in {"Returned", "Denied", "Approved"}
  <2>1. /\ row \in ApplicationRow /\ SameDetails(row, begun) /\ row.status = status
        /\ row.reviewComment = c
        /\ row.history = << FirstEntry(p), SecondEntry(p), ThirdEntry(status, p, m, c) >>
    <3>1. CASE status = "Returned"
      BY <1>2, <1>5, <1>8, <3>1
    <3>2. CASE status = "Denied"
      BY <1>2, <1>5, <1>8, <3>2
    <3>3. CASE status = "Approved"
      BY <1>2, <1>5, <1>8, <3>3
    <3> QED
      BY <1>9, <3>1, <3>2, <3>3
  <2> QED
    BY <1>1, <1>9, <2>1 DEF SameDetails, IsSeeded
<1>10. CASE status = "Withdrawn"
  <2>1. row = TransitionTo(submitted, "Withdrawn", p, c)
    BY <1>2, <1>10
  <2>2. /\ row \in ApplicationRow /\ SameDetails(row, submitted) /\ row.status = status
        /\ row.reviewComment = NoText
        /\ row.history = Append(submitted.history, Entry("Submitted", "Withdrawn", p, c))
    <3> DEFINE moved == TransitionTo(submitted, "Withdrawn", p, c)
    <3>1. "Withdrawn" \in ApplicationStatus /\ p \in Users /\ c \in Comments \cup {NoText}
      BY DEF ApplicationStatus, Users
    <3>2. moved \in ApplicationRow
      BY <1>3, <3>1, TransitionKeeps
    <3>3. SameDetails(moved, submitted)
      BY <1>3, <3>1, TransitionKeeps
    <3>4. moved.status = "Withdrawn"
      BY <1>3, <3>1, TransitionKeeps
    <3>5. moved.reviewComment = submitted.reviewComment
      BY <1>3, <3>1, TransitionKeeps
    <3>6. moved.history = Append(submitted.history, Entry(submitted.status, "Withdrawn", p, c))
      BY <1>3, <3>1, TransitionKeeps
    <3> HIDE DEF moved
    <3>7. row = moved
      BY <2>1 DEF moved
    <3> QED
      BY <1>3, <1>10, <3>2, <3>3, <3>4, <3>5, <3>6, <3>7
  <2>3. ThirdEntry(status, p, m, c) = Entry("Submitted", "Withdrawn", p, c)
    BY <1>10 DEF ThirdEntry
  <2>4. row.history = << FirstEntry(p), SecondEntry(p), ThirdEntry(status, p, m, c) >>
    BY <1>4, <2>2, <2>3, AppendToTwo
  <2> QED
    BY <1>1, <1>3, <1>10, <2>2, <2>4 DEF SameDetails, IsSeeded
<1> QED
  BY <1>6, <1>7, <1>9, <1>10 DEF ApplicationStatus

\* The history, the names on it and the comment shown fit the status.
LEMMA SeededIsSound ==
    ASSUME NEW status \in ApplicationStatus, NEW u \in Units, NEW p \in Applicants,
           NEW m \in Managers, NEW answers \in Answers, NEW c \in Comments
    PROVE  IsSound(SeededApplication(status, u, p, m, answers, c))
<1> DEFINE row == SeededApplication(status, u, p, m, answers, c)
           h == row.history
<1>1. /\ row.applicant = p /\ row.status = status
      /\ row.reviewComment = IF status \in {"Approved", "Returned", "Denied"} THEN c ELSE NoText
      /\ h = IF status = "Draft" THEN << FirstEntry(p) >>
             ELSE IF status = "Submitted"
                  THEN << FirstEntry(p), SecondEntry(p) >>
                  ELSE << FirstEntry(p), SecondEntry(p), ThirdEntry(status, p, m, c) >>
  BY SeededColumns DEF IsSeeded
<1> HIDE DEF row
<1>2. /\ FirstEntry(p).fromStatus = NoStatus /\ FirstEntry(p).toStatus = "Draft"
      /\ FirstEntry(p).changedBy = p
      /\ SecondEntry(p).fromStatus = "Draft" /\ SecondEntry(p).toStatus = "Submitted"
      /\ SecondEntry(p).changedBy = p
      /\ ThirdEntry(status, p, m, c).fromStatus = "Submitted"
      /\ ThirdEntry(status, p, m, c).toStatus = status
      /\ ThirdEntry(status, p, m, c).changedBy = IF status = "Withdrawn" THEN p ELSE m
      /\ ThirdEntry(status, p, m, c).comment = c
  BY DEF FirstEntry, SecondEntry, ThirdEntry, Entry
<1>3. CanTransition("Draft", "Submitted")
  BY DEF CanTransition, Transitions, ApplicationStatus
<1>4. CASE status = "Draft"
  <2>1. Len(h) = 1 /\ h[1] = FirstEntry(p) /\ \A i \in 1..Len(h) : i = 1
    <3>1. h = << FirstEntry(p) >>
      BY <1>1, <1>4, Zenon
    <3> HIDE DEF h
    <3> QED
      BY <3>1
  <2> HIDE DEF h
  <2>2. IsAuditTrail(row)
    BY <1>1, <1>2, <1>4, <2>1 DEF IsAuditTrail, h
  <2>3. IsAttributed(row)
    BY <1>1, <1>2, <1>4, <2>1 DEF IsAttributed, h
  <2>4. ShowsCurrentFeedback(row)
    BY <1>1, <1>2, <1>4, <2>1 DEF ShowsCurrentFeedback, FeedbackEntry, h
  <2> QED
    BY <2>2, <2>3, <2>4 DEF IsSound, row
<1>5. CASE status = "Submitted"
  <2>1. /\ Len(h) = 2 /\ h[1] = FirstEntry(p) /\ h[2] = SecondEntry(p)
        /\ \A i \in 1..Len(h) : i = 1 \/ i = 2
    <3>1. h = << FirstEntry(p), SecondEntry(p) >>
      BY <1>1, <1>5, Zenon
    <3> HIDE DEF h
    <3> QED
      BY <3>1
  <2> HIDE DEF h
  <2>2. IsAuditTrail(row)
    BY <1>1, <1>2, <1>3, <1>5, <2>1 DEF IsAuditTrail, h
  <2>3. IsAttributed(row)
    BY <1>1, <1>2, <1>5, <2>1 DEF IsAttributed, h
  <2>4. ShowsCurrentFeedback(row)
    BY <1>1, <1>2, <1>5, <2>1 DEF ShowsCurrentFeedback, FeedbackEntry, h
  <2> QED
    BY <2>2, <2>3, <2>4 DEF IsSound, row
<1>6. CASE status \notin {"Draft", "Submitted"}
  <2>1. /\ Len(h) = 3 /\ h[1] = FirstEntry(p) /\ h[2] = SecondEntry(p)
        /\ h[3] = ThirdEntry(status, p, m, c)
        /\ \A i \in 1..Len(h) : i = 1 \/ i = 2 \/ i = 3
    <3>1. h = << FirstEntry(p), SecondEntry(p), ThirdEntry(status, p, m, c) >>
      BY <1>1, <1>6, Zenon
    <3> HIDE DEF h
    <3> QED
      BY <3>1
  <2>2. CanTransition("Submitted", status)
    BY <1>6 DEF CanTransition, Transitions, ApplicationStatus
  <2> HIDE DEF h
  <2>3. IsAuditTrail(row)
    BY <1>1, <1>2, <1>3, <2>1, <2>2 DEF IsAuditTrail, h
  <2>4. IsAttributed(row)
    BY <1>1, <1>2, <1>6, <2>1 DEF IsAttributed, ApplicationStatus, h
  <2>5. ShowsCurrentFeedback(row)
    <3>1. CASE status = "Withdrawn"
      BY <1>1, <1>2, <2>1, <3>1 DEF ShowsCurrentFeedback, FeedbackEntry, h
    <3>2. CASE status # "Withdrawn"
      BY <1>1, <1>2, <1>6, <2>1, <3>2
      DEF ShowsCurrentFeedback, FeedbackEntry, ApplicationStatus, h
    <3> QED
      BY <3>1, <3>2
  <2> QED
    BY <2>3, <2>4, <2>5 DEF IsSound, row
<1> QED
  BY <1>4, <1>5, <1>6 DEF row

----------------------------------------------------------------------------
(* The rows of the plan *)

LEMMA PlanPlaces ==
    /\ Len(Plan) = 10 /\ BlockedPlace = 11
    /\ ActivePlaces = {6, 7} /\ FirstActive = 6
    /\ Plan[1].status = "Draft" /\ Plan[2].status = "Draft"
    /\ Plan[3].status = "Submitted" /\ Plan[4].status = "Submitted"
    /\ Plan[5].status = "Returned"
    /\ Plan[6].status = "Approved" /\ Plan[7].status = "Approved" /\ Plan[8].status = "Approved"
    /\ Plan[9].status = "Denied" /\ Plan[10].status = "Withdrawn"
<1>1. Len(Plan) = 10 /\ BlockedPlace = 11
  BY DEF Plan, BlockedPlace
<1>2. /\ Plan[1].status = "Draft" /\ Plan[2].status = "Draft"
      /\ Plan[3].status = "Submitted" /\ Plan[4].status = "Submitted"
      /\ Plan[5].status = "Returned"
      /\ Plan[6].status = "Approved" /\ Plan[7].status = "Approved" /\ Plan[8].status = "Approved"
      /\ Plan[9].status = "Denied" /\ Plan[10].status = "Withdrawn"
  BY DEF Plan
<1>3. /\ ~Plan[1].active /\ ~Plan[2].active /\ ~Plan[3].active /\ ~Plan[4].active
      /\ ~Plan[5].active /\ Plan[6].active /\ Plan[7].active /\ ~Plan[8].active
      /\ ~Plan[9].active /\ ~Plan[10].active
  BY DEF Plan
<1>4. \A i \in 1..10 : Plan[i].active <=> i \in {6, 7}
  <2>1. \A i \in 1..10 : \/ i = 1 \/ i = 2 \/ i = 3 \/ i = 4 \/ i = 5
                         \/ i = 6 \/ i = 7 \/ i = 8 \/ i = 9 \/ i = 10
    OBVIOUS
  <2> QED
    BY <1>3, <2>1
<1>5. ActivePlaces = {6, 7}
  BY <1>1, <1>4 DEF ActivePlaces
<1>6. FirstActive = 6
  <2>1. \E i \in ActivePlaces : \A j \in ActivePlaces : i <= j
    BY <1>5
  <2>2. FirstActive \in ActivePlaces /\ \A j \in ActivePlaces : FirstActive <= j
    BY <2>1 DEF FirstActive
  <2> QED
    BY <1>5, <2>2
<1> QED
  BY <1>1, <1>2, <1>5, <1>6

\* The status the plan gives to a place.
StatusAt(i) == IF i = BlockedPlace THEN "Submitted" ELSE Plan[i].status

Places == 1..BlockedPlace

LEMMA PlacesAre ==
    \A i \in Places : \/ i = 1 \/ i = 2 \/ i = 3 \/ i = 4 \/ i = 5 \/ i = 6
                      \/ i = 7 \/ i = 8 \/ i = 9 \/ i = 10 \/ i = 11
  BY PlanPlaces DEF Places

\* Every status has a place, approved applications have places 6 to 8, and an
\* application that is open has not the place of an active lease.
LEMMA StatusesPlanned ==
    /\ \A i \in Places : StatusAt(i) \in ApplicationStatus
    /\ \A s \in ApplicationStatus : \E i \in Places : StatusAt(i) = s
    /\ \A i \in Places : StatusAt(i) = "Approved" => i \in 6..8
    /\ StatusAt(6) = "Approved"
<1>1. /\ StatusAt(1) = "Draft" /\ StatusAt(2) = "Draft" /\ StatusAt(3) = "Submitted"
      /\ StatusAt(4) = "Submitted" /\ StatusAt(5) = "Returned" /\ StatusAt(6) = "Approved"
      /\ StatusAt(7) = "Approved" /\ StatusAt(8) = "Approved" /\ StatusAt(9) = "Denied"
      /\ StatusAt(10) = "Withdrawn" /\ StatusAt(11) = "Submitted"
  BY PlanPlaces DEF StatusAt
<1>2. \A i \in Places : StatusAt(i) \in ApplicationStatus
  BY <1>1, PlacesAre DEF ApplicationStatus
<1>3. \A i \in Places : StatusAt(i) = "Approved" => i \in 6..8
  BY <1>1, PlacesAre
<1>4. \A s \in ApplicationStatus : \E i \in Places : StatusAt(i) = s
  <2>1. 1 \in Places /\ 3 \in Places /\ 5 \in Places /\ 6 \in Places /\ 9 \in Places /\ 10 \in Places
    BY PlanPlaces DEF Places
  <2> QED
    BY <1>1, <2>1 DEF ApplicationStatus
<1> QED
  BY <1>1, <1>2, <1>3, <1>4

\* The unit of a place: a unit of its own, except that the last one shares.
UnitAt(i) == UnitOrder[IF i = BlockedPlace THEN 6 ELSE i]

LEMMA UnitsPlanned ==
    /\ \A i \in Places : UnitAt(i) \in PlannedUnits /\ UnitAt(i) \in Units
    /\ \A i, j \in Places : UnitAt(i) = UnitAt(j) => \/ i = j \/ i = BlockedPlace \/ j = BlockedPlace
    /\ \A i \in Places : UnitAt(i) = UnitAt(BlockedPlace) => i \in {6, BlockedPlace}
<1>1. /\ UnitOrder \in Seq(Units) /\ Len(UnitOrder) \in Nat /\ Len(UnitOrder) >= 10
      /\ \A i, j \in 1..Len(UnitOrder) : UnitOrder[i] = UnitOrder[j] => i = j
  BY StartupAssumption, PlanPlaces
<1> DEFINE at(i) == IF i = BlockedPlace THEN 6 ELSE i
<1>2. \A i \in Places : at(i) \in 1..Len(UnitOrder)
  BY <1>1, PlanPlaces DEF Places
<1>3. \A i \in Places : UnitAt(i) \in PlannedUnits /\ UnitAt(i) \in Units
  BY <1>1, <1>2 DEF UnitAt, PlannedUnits
<1>4. \A i, j \in Places : UnitAt(i) = UnitAt(j) => at(i) = at(j)
  BY <1>1, <1>2 DEF UnitAt
<1>5. BlockedPlace \in Places
  BY PlanPlaces DEF Places
<1> QED
  BY <1>3, <1>4, <1>5

\* The application for a place of the plan.
IsPlanned(row, i, answers) ==
    /\ row \in ApplicationRow
    /\ IsSound(row)
    /\ row.status = StatusAt(i)
    /\ row.unit = UnitAt(i)
    /\ row.information = answers
    /\ row.informationCompleted
    /\ row.residencesCompleted <=> StatusAt(i) # "Draft"

LEMMA RowsPlanned ==
    ASSUME NEW i \in Places, NEW m \in Managers, NEW answers \in Answers, NEW c \in Comments
    PROVE  IsPlanned(RowAt(i, m, answers, c), i, answers)
<1>1. /\ ApplicantOrder \in Seq(Applicants) /\ Len(ApplicantOrder) \in Nat
      /\ Len(ApplicantOrder) > 0
  BY StartupAssumption
<1> DEFINE n == IF i = BlockedPlace THEN Len(ApplicantOrder)
                                   ELSE ((i - 1) % Len(ApplicantOrder)) + 1
           p == ApplicantOrder[n]
           row == SeededApplication(StatusAt(i), UnitAt(i), p, m, answers, c)
<1>2. i \in Int /\ i >= 1
  BY PlanPlaces DEF Places
<1>3. n \in 1..Len(ApplicantOrder)
  <2>1. (i - 1) % Len(ApplicantOrder) \in 0..(Len(ApplicantOrder) - 1)
    BY <1>1, <1>2
  <2> QED
    BY <1>1, <2>1
<1>4. p \in Applicants
  BY <1>1, <1>3
<1>5. StatusAt(i) \in ApplicationStatus /\ UnitAt(i) \in Units
  BY StatusesPlanned, UnitsPlanned
<1>6. RowAt(i, m, answers, c) = row
  BY PlanPlaces DEF RowAt, StatusAt, UnitAt
<1> HIDE DEF p, n
<1>7. /\ row \in ApplicationRow
      /\ row.status = StatusAt(i)
      /\ row.unit = UnitAt(i)
      /\ row.information = answers
      /\ row.residencesCompleted <=> StatusAt(i) # "Draft"
      /\ row.informationCompleted
  <2>1. IsSeeded(row, StatusAt(i), UnitAt(i), p, m, answers, c)
    BY <1>4, <1>5, SeededColumns
  <2> HIDE DEF row
  <2> QED
    BY <2>1, Zenon DEF IsSeeded
<1>8. IsSound(row)
  BY <1>4, <1>5, SeededIsSound
<1> HIDE DEF row
<1> QED
  BY <1>6, <1>7, <1>8, Zenon DEF IsPlanned

----------------------------------------------------------------------------
(* What is inserted *)

PlannedIds == {ApplicationOrder[i] : i \in Places}

\* Places and identity values belong together, one to one.
LEMMA PlacesOfIds ==
    /\ PlannedIds \subseteq ApplicationIds
    /\ \A a \in PlannedIds : PlaceOf(a) \in Places /\ ApplicationOrder[PlaceOf(a)] = a
    /\ \A i \in Places : ApplicationOrder[i] \in PlannedIds /\ PlaceOf(ApplicationOrder[i]) = i
<1>1. /\ ApplicationOrder \in Seq(ApplicationIds)
      /\ Len(ApplicationOrder) \in Nat /\ Len(ApplicationOrder) >= 11
      /\ \A i, j \in 1..Len(ApplicationOrder) :
            ApplicationOrder[i] = ApplicationOrder[j] => i = j
  BY StartupAssumption, PlanPlaces
<1>2. Places \subseteq 1..Len(ApplicationOrder)
  BY <1>1, PlanPlaces DEF Places
<1>3. \A a \in PlannedIds : PlaceOf(a) \in Places /\ ApplicationOrder[PlaceOf(a)] = a
  <2>1. SUFFICES ASSUME NEW a \in PlannedIds
                 PROVE  PlaceOf(a) \in Places /\ ApplicationOrder[PlaceOf(a)] = a
    OBVIOUS
  <2>2. \E i \in 1..BlockedPlace : ApplicationOrder[i] = a
    BY DEF PlannedIds, Places
  <2> QED
    BY <2>2 DEF PlaceOf, Places
<1>4. \A i \in Places : ApplicationOrder[i] \in PlannedIds /\ PlaceOf(ApplicationOrder[i]) = i
  <2>1. SUFFICES ASSUME NEW i \in Places
                 PROVE  ApplicationOrder[i] \in PlannedIds /\ PlaceOf(ApplicationOrder[i]) = i
    OBVIOUS
  <2>2. ApplicationOrder[i] \in PlannedIds
    BY DEF PlannedIds
  <2>3. /\ PlaceOf(ApplicationOrder[i]) \in Places
        /\ ApplicationOrder[PlaceOf(ApplicationOrder[i])] = ApplicationOrder[i]
    BY <1>3, <2>2
  <2> QED
    BY <1>1, <1>2, <2>2, <2>3
<1>5. PlannedIds \subseteq ApplicationIds
  BY <1>1, <1>2 DEF PlannedIds
<1> QED
  BY <1>3, <1>4, <1>5

\* What the tables of applications, residences and leases keep.
RowsHold(apps, table, leaseRows) ==
    /\ DOMAIN apps \subseteq ApplicationIds
    /\ apps \in [DOMAIN apps -> ApplicationRow]
    /\ {apps[a].status : a \in DOMAIN apps} = ApplicationStatus
    /\ \A a \in DOMAIN apps : IsSound(apps[a])
    /\ LeasesMatch(apps, leaseRows)
    /\ NoTwoOpen(apps)
    /\ SectionsHold(apps, table)
    /\ \A k, l \in leaseRows : k.unit = l.unit /\ k # l => TermsDisjoint(k, l)

LEMMA InsertedHold ==
    ASSUME InsertApplications
    PROVE  /\ RowsHold(applications', residences', leases')
           /\ \A a \in DOMAIN applications' : applications'[a].unit \in PlannedUnits
<1>1. PICK months \in [ActivePlaces -> MonthsDrawn], m \in Managers,
           answers \in Answers, c \in Comments :
        LET ids    == {ApplicationOrder[i] : i \in 1..BlockedPlace}
            rows   == [a \in ids |-> RowAt(PlaceOf(a), m, answers, c)]
            drafts == {a \in ids : rows[a].status = "Draft"}
        IN  /\ applications' = rows
            /\ \E housed \in SUBSET drafts :
                  residences' = [a \in housed \cup (ids \ drafts) |-> [application |-> a]]
            /\ leases' = {SeededLease(a, rows[a], today, MonthsAgo(PlaceOf(a), months)) :
                             a \in {b \in ids : rows[b].status = "Approved"}}
  BY DEF InsertApplications
<1> DEFINE apps   == applications'
           drafts == {a \in PlannedIds : apps[a].status = "Draft"}
<1>2. apps = [a \in PlannedIds |-> RowAt(PlaceOf(a), m, answers, c)]
  BY <1>1 DEF PlannedIds, Places
<1>3. PICK housed \in SUBSET drafts :
         residences' = [a \in housed \cup (PlannedIds \ drafts) |-> [application |-> a]]
  BY <1>1 DEF PlannedIds, Places
<1>4. leases' = {SeededLease(a, apps[a], today, MonthsAgo(PlaceOf(a), months)) :
                    a \in {b \in PlannedIds : apps[b].status = "Approved"}}
  BY <1>1 DEF PlannedIds, Places
<1> DEFINE begins(a) == AddMonths(today, -MonthsAgo(PlaceOf(a), months))
<1>5. leases' = {IssuedLease(a, apps[a], begins(a)) :
                    a \in {b \in PlannedIds : apps[b].status = "Approved"}}
  BY <1>4 DEF SeededLease
<1> HIDE DEF begins
<1>6. DOMAIN apps = PlannedIds
  BY <1>2
<1>7. \A a \in PlannedIds :
         /\ PlaceOf(a) \in Places
         /\ apps[a] \in ApplicationRow
         /\ IsSound(apps[a])
         /\ apps[a].status = StatusAt(PlaceOf(a))
         /\ apps[a].unit = UnitAt(PlaceOf(a))
         /\ apps[a].information = answers
         /\ apps[a].informationCompleted
         /\ apps[a].residencesCompleted <=> StatusAt(PlaceOf(a)) # "Draft"
  <2>1. SUFFICES ASSUME NEW a \in PlannedIds
                 PROVE  /\ PlaceOf(a) \in Places
                        /\ apps[a] \in ApplicationRow
                        /\ IsSound(apps[a])
                        /\ apps[a].status = StatusAt(PlaceOf(a))
                        /\ apps[a].unit = UnitAt(PlaceOf(a))
                        /\ apps[a].information = answers
                        /\ apps[a].informationCompleted
                        /\ apps[a].residencesCompleted <=> StatusAt(PlaceOf(a)) # "Draft"
    OBVIOUS
  <2>2. PlaceOf(a) \in Places
    BY PlacesOfIds
  <2>3. apps[a] = RowAt(PlaceOf(a), m, answers, c)
    BY <1>2
  <2>4. IsPlanned(apps[a], PlaceOf(a), answers)
    BY <2>2, <2>3, RowsPlanned
  <2> HIDE DEF apps
  <2> QED
    BY <2>2, <2>4, Zenon DEF IsPlanned
<1>8. \A a, b \in PlannedIds : PlaceOf(a) = PlaceOf(b) => a = b
  BY PlacesOfIds
<1> HIDE DEF apps
<1>9. {apps[a].status : a \in DOMAIN apps} = ApplicationStatus
  <2>1. \A s \in ApplicationStatus : \E a \in PlannedIds : apps[a].status = s
    <3>1. SUFFICES ASSUME NEW s \in ApplicationStatus
                   PROVE  \E a \in PlannedIds : apps[a].status = s
      OBVIOUS
    <3>2. PICK i \in Places : StatusAt(i) = s
      BY StatusesPlanned
    <3>3. ApplicationOrder[i] \in PlannedIds /\ PlaceOf(ApplicationOrder[i]) = i
      BY PlacesOfIds
    <3> QED
      BY <1>7, <3>2, <3>3
  <2>2. \A a \in PlannedIds : apps[a].status \in ApplicationStatus
    BY <1>7, StatusesPlanned
  <2> QED
    BY <1>6, <2>1, <2>2
<1>10. \A l \in leases' : /\ l.application \in PlannedIds
                          /\ apps[l.application].status = "Approved"
                          /\ l = IssuedLease(l.application, apps[l.application], begins(l.application))
  BY <1>5 DEF IssuedLease
<1>11. LeasesMatch(apps, leases')
  <2>1. \A l \in leases' :
           /\ l.application \in DOMAIN apps
           /\ apps[l.application].status = "Approved"
           /\ l.unit = apps[l.application].unit
           /\ l.tenant = apps[l.application].applicant
           /\ l.endDate = EndDateFor(l.startDate)
    BY <1>6, <1>10 DEF IssuedLease
  <2>2. \A a \in DOMAIN apps :
           apps[a].status = "Approved" => \E l \in leases' : l.application = a
    <3>1. SUFFICES ASSUME NEW a \in DOMAIN apps, apps[a].status = "Approved"
                   PROVE  \E l \in leases' : l.application = a
      OBVIOUS
    <3>2. IssuedLease(a, apps[a], begins(a)) \in leases'
      BY <1>5, <1>6, <3>1
    <3>3. IssuedLease(a, apps[a], begins(a)).application = a
      BY DEF IssuedLease
    <3> QED
      BY <3>2, <3>3
  <2>3. \A k, l \in leases' : k.application = l.application => k = l
    BY <1>10
  <2> QED
    BY <2>1, <2>2, <2>3 DEF LeasesMatch
<1>12. \A a, b \in PlannedIds : /\ apps[a].status = "Approved" /\ apps[b].status = "Approved"
                                /\ apps[a].unit = apps[b].unit
                                => a = b
  <2>1. \A a \in PlannedIds : apps[a].status = "Approved" => PlaceOf(a) # BlockedPlace
    BY <1>7, StatusesPlanned, PlanPlaces
  <2> QED
    BY <1>7, <1>8, <2>1, UnitsPlanned
<1>13. \A k, l \in leases' : k.unit = l.unit /\ k # l => TermsDisjoint(k, l)
  <2>1. \A l \in leases' : l.unit = apps[l.application].unit
    BY <1>10 DEF IssuedLease
  <2> QED
    BY <1>10, <1>12, <2>1
<1>14. NoTwoOpen(apps)
  <2>1. "Approved" \notin OpenStatuses
    BY DEF OpenStatuses, IsTerminal, Transitions
  <2>2. ASSUME NEW a \in PlannedIds, NEW b \in PlannedIds, apps[a].unit = apps[b].unit,
               apps[a].status \in OpenStatuses, apps[b].status \in OpenStatuses
        PROVE  a = b
    <3>1. /\ PlaceOf(a) \in Places /\ PlaceOf(b) \in Places
          /\ UnitAt(PlaceOf(a)) = UnitAt(PlaceOf(b))
          /\ PlaceOf(a) # 6 /\ PlaceOf(b) # 6
      BY <1>7, <2>1, <2>2, StatusesPlanned
    <3>2. PlaceOf(a) = PlaceOf(b)
      BY <3>1, UnitsPlanned
    <3> QED
      BY <1>8, <3>2
  <2> QED
    BY <1>6, <2>2 DEF NoTwoOpen
<1>15. SectionsHold(apps, residences')
  <2>1. \A a \in PlannedIds : a \notin drafts => ResidencesIn(residences', a) # {}
    <3>1. SUFFICES ASSUME NEW a \in PlannedIds, a \notin drafts
                   PROVE  a \in DOMAIN residences' /\ residences'[a].application = a
      BY DEF ResidencesIn
    <3> HIDE DEF drafts
    <3>2. a \in housed \cup (PlannedIds \ drafts)
      BY <3>1
    <3>3. DOMAIN residences' = housed \cup (PlannedIds \ drafts)
      BY <1>3
    <3>4. residences'[a] = [application |-> a]
      BY <1>3, <3>2
    <3> QED
      BY <3>2, <3>3, <3>4
  <2>2. SUFFICES ASSUME NEW a \in PlannedIds
                 PROVE  /\ StampedSectionsHold(apps[a], ResidencesIn(residences', a))
                        /\ apps[a].status \in {"Submitted", "Approved", "Denied"}
                              => AllSectionsCompleted(apps[a])
    BY <1>6 DEF SectionsHold
  <2>3. apps[a].information \in Answers
    BY <1>7
  <2>4. apps[a].residencesCompleted <=> apps[a].status # "Draft"
    BY <1>7, Zenon
  <2>5. apps[a].residencesCompleted => ResidencesIn(residences', a) # {}
    BY <2>1, <2>4
  <2>6. apps[a].informationCompleted
    BY <1>7, Zenon
  <2> QED
    BY <2>3, <2>4, <2>5, <2>6 DEF StampedSectionsHold, AllSectionsCompleted
<1>16. /\ DOMAIN apps \subseteq ApplicationIds
       /\ apps \in [DOMAIN apps -> ApplicationRow]
  <2>1. \A a \in DOMAIN apps : apps[a] \in ApplicationRow
    BY <1>6, <1>7
  <2>2. apps = [a \in DOMAIN apps |-> apps[a]]
    BY <1>2 DEF apps
  <2> QED
    BY <1>6, <2>1, <2>2, PlacesOfIds
<1>17. \A a \in DOMAIN apps : IsSound(apps[a]) /\ apps[a].unit \in PlannedUnits
  BY <1>6, <1>7, UnitsPlanned
<1> QED
  BY <1>9, <1>11, <1>13, <1>14, <1>15, <1>16, <1>17 DEF RowsHold, apps

----------------------------------------------------------------------------
(* The inductive invariant *)

\* An account that has been created and given its role.
Joined(user) == user \in DOMAIN accounts /\ accounts[user] = {SeedRole(user)}

Complete ==
    /\ roles = Roles
    /\ unitTypes = UnitTypeNames
    /\ \A user \in SeededUsers : Joined(user)

Looping == {"accounts", "membership"}

\* The loop of a step is within its bounds.
CursorFits ==
    /\ step \in Steps
    /\ step = "roles" => cursor \in 1..2
    /\ step \in Looping => cursor \in 1..Len(SeedOrder)
    /\ step \notin Looping \cup {"roles"} => cursor = 1

\* What the steps of a start have behind them when the next one begins.
SeededSoFar ==
    /\ step = "roles" /\ cursor = 2 => "Applicant" \in roles
    /\ step \notin {"down", "roles"} => roles = Roles
    /\ step \notin {"down", "roles", "unitTypes"} => unitTypes = UnitTypeNames
    /\ step \in Looping => \A i \in 1..(cursor - 1) : Joined(SeedOrder[i])
    /\ step = "membership" => SeedOrder[cursor] \in DOMAIN accounts
    /\ step \in {"properties", "applications", "serving"} =>
          \A user \in SeededUsers : Joined(user)
    /\ step = "applications" => units # {}
    /\ step = "serving" => DOMAIN applications # {}

\* An account has its role or, after a stop, none; a seeded one has no other.
AccountsFit ==
    /\ accounts \in [DOMAIN accounts -> SUBSET Roles]
    /\ DOMAIN accounts \subseteq SeededUsers \cup Visitors
    /\ \A user \in DOMAIN accounts :
          accounts[user] = {} \/ \E role \in Roles : accounts[user] = {role}
    /\ \A user \in DOMAIN accounts \cap SeededUsers : accounts[user] \subseteq {SeedRole(user)}

\* A registration under way is the only one of its account, which is new.
RegistrationsFit ==
    /\ registering \subseteq [user : DOMAIN accounts, role : Roles]
    /\ registering # {} => step = "serving"
    /\ \A r \in registering : r.user \notin SeededUsers /\ accounts[r.user] = {}
    /\ \A q, r \in registering : q.user = r.user => q = r

\* The other tables: nothing is applied for before the seeding is complete.
DataFit ==
    /\ roles \subseteq Roles
    /\ unitTypes \subseteq UnitTypeNames
    /\ units \subseteq Units
    /\ today \in Days
    /\ applications \in [DOMAIN applications -> ApplicationRow]
    /\ DOMAIN applications \subseteq ApplicationIds
    /\ DOMAIN applications = {} => units \in {{}, PlannedUnits}
    /\ DOMAIN applications # {} =>
          /\ Complete
          /\ RowsHold(applications, residences, leases)
          /\ \A a \in DOMAIN applications : applications[a].unit \in units

StartInv == CursorFits /\ SeededSoFar /\ AccountsFit /\ RegistrationsFit /\ DataFit

LEMMA SeedOrderRange ==
    /\ Len(SeedOrder) \in Nat /\ Len(SeedOrder) >= 2
    /\ \A i \in 1..Len(SeedOrder) : SeedOrder[i] \in SeededUsers
    /\ \A user \in SeededUsers : \E i \in 1..Len(SeedOrder) : SeedOrder[i] = user
<1>1. /\ ManagerOrder \in Seq(Users) /\ ApplicantOrder \in Seq(Users)
      /\ Len(ManagerOrder) \in Nat /\ Len(ManagerOrder) > 0
      /\ Len(ApplicantOrder) \in Nat /\ Len(ApplicantOrder) > 0
  BY StartupAssumption DEF Users
<1>2. Len(SeedOrder) = Len(ManagerOrder) + Len(ApplicantOrder)
  BY <1>1, ConcatProperties DEF SeedOrder
<1>3. /\ \A i \in 1..Len(SeedOrder) : SeedOrder[i] \in SeededUsers
      /\ \A user \in SeededUsers : \E i \in 1..Len(SeedOrder) : SeedOrder[i] = user
  BY DEF SeededUsers
<1> QED
  BY <1>1, <1>2, <1>3

LEMMA SeedRoleKnown == \A user : SeedRole(user) \in Roles
  BY DEF SeedRole, Roles

LEMMA RoleOrderIs == Len(RoleOrder) = 2 /\ RoleOrder[1] = "Applicant" /\ RoleOrder[2] = "PropertyManager"
  BY DEF RoleOrder

LEMMA AccountAdded ==
    ASSUME NEW user, user \notin DOMAIN accounts, accounts' = Added(accounts, user, {})
    PROVE  /\ DOMAIN accounts' = DOMAIN accounts \cup {user}
           /\ \A k \in DOMAIN accounts : accounts'[k] = accounts[k]
           /\ accounts'[user] = {}
           /\ accounts' = [k \in DOMAIN accounts' |-> accounts'[k]]
<1>1. accounts' = [k \in DOMAIN accounts \cup {user} |-> IF k = user THEN {} ELSE accounts[k]]
  BY DEF Added
<1>2. DOMAIN accounts' = DOMAIN accounts \cup {user}
  BY <1>1
<1>3. \A k \in DOMAIN accounts : accounts'[k] = accounts[k]
  BY <1>1
<1>4. accounts'[user] = {}
  BY <1>1
<1>5. accounts' = [k \in DOMAIN accounts' |-> accounts'[k]]
  BY <1>1, <1>2
<1> QED
  BY <1>2, <1>3, <1>4, <1>5

LEMMA PlannedUnitsThere == PlannedUnits # {} /\ PlannedUnits \subseteq Units
<1>1. UnitOrder \in Seq(Units) /\ Len(UnitOrder) \in Nat /\ Len(UnitOrder) >= 10
  BY StartupAssumption, PlanPlaces
<1>2. UnitOrder[1] \in PlannedUnits
  BY <1>1 DEF PlannedUnits
<1> QED
  BY <1>1, <1>2 DEF PlannedUnits

LEMMA StartInvInit == Init => StartInv
<1> SUFFICES ASSUME Init PROVE StartInv
  OBVIOUS
<1>1. DOMAIN NoRows = {} /\ NoRows = [k \in {} |-> NoRows[k]]
  BY DEF NoRows
<1>2. CursorFits /\ SeededSoFar
  BY DEF Init, CursorFits, SeededSoFar, Steps, Looping
<1>3. AccountsFit
  BY <1>1 DEF Init, AccountsFit
<1>4. RegistrationsFit
  BY DEF Init, RegistrationsFit
<1>5. DataFit
  BY <1>1 DEF Init, DataFit
<1> QED
  BY <1>2, <1>3, <1>4, <1>5 DEF StartInv

----------------------------------------------------------------------------
(* Every step keeps it *)

LEMMA StutterKeeps == StartInv /\ UNCHANGED vars => StartInv'
  BY DEF StartInv, CursorFits, SeededSoFar, AccountsFit, RegistrationsFit, DataFit, Complete,
         Joined, Looping, vars, process, identity, rentals

LEMMA ProcessKeeps == StartInv /\ (StartProcess \/ Stop \/ DaysPass) => StartInv'
<1> USE DEF process, identity, rentals
<1>1. ASSUME StartInv, StartProcess PROVE StartInv'
  <2>1. CursorFits'
    BY <1>1 DEF StartInv, CursorFits, StartProcess, Steps, Looping
  <2>2. SeededSoFar'
    BY <1>1 DEF StartInv, SeededSoFar, StartProcess, Looping
  <2>3. AccountsFit'
    BY <1>1 DEF StartInv, AccountsFit, StartProcess
  <2>4. RegistrationsFit'
    BY <1>1 DEF StartInv, RegistrationsFit, StartProcess
  <2>5. DataFit'
    BY <1>1 DEF StartInv, DataFit, StartProcess, Complete, Joined
  <2> QED
    BY <2>1, <2>2, <2>3, <2>4, <2>5 DEF StartInv
<1>2. ASSUME StartInv, Stop PROVE StartInv'
  <2>1. CursorFits'
    BY <1>2 DEF StartInv, CursorFits, Stop, Steps, Looping
  <2>2. SeededSoFar'
    BY <1>2 DEF StartInv, SeededSoFar, Stop, Looping
  <2>3. AccountsFit'
    BY <1>2 DEF StartInv, AccountsFit, Stop
  <2>4. RegistrationsFit'
    BY <1>2 DEF StartInv, RegistrationsFit, Stop
  <2>5. DataFit'
    BY <1>2 DEF StartInv, DataFit, Stop, Complete, Joined
  <2> QED
    BY <2>1, <2>2, <2>3, <2>4, <2>5 DEF StartInv
<1>3. ASSUME StartInv, DaysPass PROVE StartInv'
  <2>1. CursorFits'
    BY <1>3 DEF StartInv, CursorFits, DaysPass, Looping
  <2>2. SeededSoFar'
    BY <1>3 DEF StartInv, SeededSoFar, DaysPass, Looping, Joined
  <2>3. AccountsFit'
    BY <1>3 DEF StartInv, AccountsFit, DaysPass
  <2>4. RegistrationsFit'
    BY <1>3 DEF StartInv, RegistrationsFit, DaysPass
  <2>5. DataFit'
    BY <1>3 DEF StartInv, DataFit, DaysPass, Complete, Joined
  <2> QED
    BY <2>1, <2>2, <2>3, <2>4, <2>5 DEF StartInv
<1> QED
  BY <1>1, <1>2, <1>3

LEMMA RolesKeeps == StartInv /\ (SeedARole \/ SeedUnitTypes) => StartInv'
<1> USE DEF identity, rentals
<1>1. ASSUME StartInv, SeedARole PROVE StartInv'
  <2>1. /\ step = "roles" /\ cursor \in 1..2
        /\ roles' = roles \cup {RoleOrder[cursor]} /\ roles \subseteq Roles
        /\ IF cursor < 2 THEN step' = "roles" /\ cursor' = cursor + 1
                         ELSE step' = "unitTypes" /\ cursor' = 1
        /\ UNCHANGED <<registering, accounts, unitTypes, units, applications, residences, leases, today>>
    BY <1>1, RoleOrderIs DEF StartInv, CursorFits, DataFit, SeedARole, GoOn
  <2>2. roles \subseteq roles' /\ roles' \subseteq Roles
    <3>1. cursor = 1 \/ cursor = 2
      BY <2>1
    <3> QED
      BY <2>1, <3>1, RoleOrderIs DEF Roles
  <2>3. CursorFits'
    BY <2>1 DEF CursorFits, Steps, Looping
  <2>4. SeededSoFar'
    <3>1. CASE cursor = 1
      BY <2>1, <3>1, RoleOrderIs DEF SeededSoFar, Looping
    <3>2. CASE cursor = 2
      <4>1. "Applicant" \in roles
        BY <1>1, <2>1, <3>2 DEF StartInv, SeededSoFar
      <4>2. roles' = Roles
        BY <2>1, <2>2, <3>2, <4>1, RoleOrderIs DEF Roles
      <4> QED
        BY <2>1, <3>2, <4>2 DEF SeededSoFar, Looping
    <3> QED
      BY <2>1, <3>1, <3>2
  <2>5. AccountsFit'
    BY <1>1, <2>1 DEF StartInv, AccountsFit
  <2>6. RegistrationsFit'
    BY <1>1, <2>1 DEF StartInv, RegistrationsFit
  <2>7. DataFit'
    BY <1>1, <2>1, <2>2 DEF StartInv, DataFit, Complete, Joined
  <2> QED
    BY <2>3, <2>4, <2>5, <2>6, <2>7 DEF StartInv
<1>2. ASSUME StartInv, SeedUnitTypes PROVE StartInv'
  <2>1. unitTypes' = UnitTypeNames /\ roles = Roles /\ cursor' = 1
    BY <1>2 DEF StartInv, DataFit, SeededSoFar, SeedUnitTypes
  <2>2. CursorFits'
    BY <1>2, SeedOrderRange DEF CursorFits, SeedUnitTypes, Steps, Looping
  <2>3. SeededSoFar'
    BY <1>2, <2>1 DEF SeededSoFar, SeedUnitTypes, Looping
  <2>4. AccountsFit'
    BY <1>2 DEF StartInv, AccountsFit, SeedUnitTypes
  <2>5. RegistrationsFit'
    BY <1>2 DEF StartInv, RegistrationsFit, SeedUnitTypes
  <2>6. DataFit'
    BY <1>2, <2>1 DEF StartInv, DataFit, SeedUnitTypes, Complete, Joined
  <2> QED
    BY <2>2, <2>3, <2>4, <2>5, <2>6 DEF StartInv
<1> QED
  BY <1>1, <1>2

LEMMA AccountsKeep == StartInv /\ (SeedAccount \/ SeedMembership) => StartInv'
<1> USE DEF identity, rentals
<1>1. ASSUME StartInv, SeedAccount PROVE StartInv'
  <2> DEFINE user == SeedOrder[cursor]
  <2>1. /\ step = "accounts" /\ step' = "membership" /\ cursor' = cursor
        /\ cursor \in 1..Len(SeedOrder) /\ user \in SeededUsers
        /\ accounts' = IF user \in DOMAIN accounts THEN accounts ELSE Added(accounts, user, {})
        /\ UNCHANGED <<registering, roles, unitTypes, units, applications, residences, leases, today>>
    BY <1>1, SeedOrderRange DEF StartInv, CursorFits, Looping, SeedAccount
  <2> HIDE DEF user
  <2>2. /\ DOMAIN accounts' = DOMAIN accounts \cup {user}
        /\ \A k \in DOMAIN accounts : accounts'[k] = accounts[k]
        /\ user \notin DOMAIN accounts => accounts'[user] = {}
        /\ accounts' = [k \in DOMAIN accounts' |-> accounts'[k]]
    <3>1. CASE user \in DOMAIN accounts
      BY <1>1, <2>1, <3>1 DEF StartInv, AccountsFit
    <3>2. CASE user \notin DOMAIN accounts
      <4>1. accounts' = Added(accounts, user, {})
        BY <2>1, <3>2
      <4> QED
        BY <3>2, <4>1, AccountAdded
    <3> QED
      BY <3>1, <3>2
  <2>3. \A u : Joined(u) => Joined(u)'
    BY <2>2 DEF Joined
  <2>4. CursorFits'
    BY <2>1 DEF CursorFits, Steps, Looping
  <2>5. SeededSoFar'
    <3>1. /\ roles = Roles /\ unitTypes = UnitTypeNames
          /\ \A i \in 1..(cursor - 1) : Joined(SeedOrder[i])
      BY <1>1, <2>1 DEF StartInv, SeededSoFar, Looping
    <3>2. SeedOrder[cursor]' \in DOMAIN accounts'
      BY <2>1, <2>2 DEF user
    <3>3. \A i \in 1..(cursor' - 1) : Joined(SeedOrder[i])'
      BY <2>1, <2>3, <3>1
    <3> QED
      BY <2>1, <3>1, <3>2, <3>3 DEF SeededSoFar, Looping
  <2>6. AccountsFit'
    <3>1. \A k \in DOMAIN accounts' :
             accounts'[k] = {} \/ (k \in DOMAIN accounts /\ accounts'[k] = accounts[k])
      BY <2>2
    <3> QED
      BY <1>1, <2>1, <2>2, <3>1 DEF StartInv, AccountsFit
  <2>7. RegistrationsFit'
    BY <1>1, <2>1, <2>2 DEF StartInv, RegistrationsFit
  <2>8. Complete => Complete'
    BY <2>1, <2>3 DEF Complete
  <2>9. DataFit'
    BY <1>1, <2>1, <2>8 DEF StartInv, DataFit
  <2> QED
    BY <2>4, <2>5, <2>6, <2>7, <2>9 DEF StartInv
<1>2. ASSUME StartInv, SeedMembership PROVE StartInv'
  <2> DEFINE user == SeedOrder[cursor]
  <2>1. /\ step = "membership" /\ cursor \in 1..Len(SeedOrder)
        /\ user \in SeededUsers /\ user \in DOMAIN accounts
        /\ accounts[user] \subseteq {SeedRole(user)}
        /\ accounts' = [accounts EXCEPT ![user] = @ \cup {SeedRole(user)}]
        /\ IF cursor < Len(SeedOrder) THEN step' = "accounts" /\ cursor' = cursor + 1
                                      ELSE step' = "properties" /\ cursor' = 1
        /\ UNCHANGED <<registering, roles, unitTypes, units, applications, residences, leases, today>>
    BY <1>2, SeedOrderRange
    DEF StartInv, CursorFits, SeededSoFar, AccountsFit, Looping, SeedMembership, GoOn
  <2>2. /\ DOMAIN accounts' = DOMAIN accounts
        /\ \A k \in DOMAIN accounts : k # user => accounts'[k] = accounts[k]
        /\ accounts'[user] = {SeedRole(user)}
        /\ accounts' = [k \in DOMAIN accounts' |-> accounts'[k]]
    BY <1>2, <2>1 DEF StartInv, AccountsFit
  <2>3. \A u : u = user \/ Joined(u) => Joined(u)'
    <3>1. ASSUME NEW u, u = user PROVE Joined(u)'
      BY <2>1, <2>2, <3>1 DEF Joined
    <3>2. ASSUME NEW u, Joined(u), u # user PROVE Joined(u)'
      BY <2>2, <3>2 DEF Joined
    <3> QED
      BY <3>1, <3>2
  <2>4. CursorFits'
    BY <2>1, SeedOrderRange DEF CursorFits, Steps, Looping
  <2>5. SeededSoFar'
    <3>1. /\ roles = Roles /\ unitTypes = UnitTypeNames
          /\ \A i \in 1..(cursor - 1) : Joined(SeedOrder[i])
      BY <1>2, <2>1 DEF StartInv, SeededSoFar, Looping
    <3>2. \A i \in 1..cursor : Joined(SeedOrder[i])'
      <4>1. \A i \in 1..cursor : i = cursor \/ i \in 1..(cursor - 1)
        BY <2>1, SeedOrderRange
      <4> QED
        BY <2>3, <3>1, <4>1
    <3>3. CASE cursor < Len(SeedOrder)
      BY <2>1, <3>1, <3>2, <3>3 DEF SeededSoFar, Looping
    <3>4. CASE cursor = Len(SeedOrder)
      <4>1. \A u \in SeededUsers : Joined(u)'
        BY <3>2, <3>4, SeedOrderRange
      <4> QED
        BY <2>1, <3>1, <3>4, <4>1 DEF SeededSoFar, Looping
    <3> QED
      BY <2>1, <3>3, <3>4, SeedOrderRange
  <2>6. AccountsFit'
    <3>1. SeedRole(user) \in Roles
      BY SeedRoleKnown
    <3> HIDE DEF user
    <3> QED
      BY <1>2, <2>1, <2>2, <3>1 DEF StartInv, AccountsFit
  <2>7. RegistrationsFit'
    BY <1>2, <2>1, <2>2 DEF StartInv, RegistrationsFit
  <2>8. Complete => Complete'
    BY <2>1, <2>3 DEF Complete
  <2>9. DataFit'
    BY <1>2, <2>1, <2>8 DEF StartInv, DataFit
  <2> QED
    BY <2>4, <2>5, <2>6, <2>7, <2>9 DEF StartInv
<1> QED
  BY <1>1, <1>2

LEMMA TablesKeep == StartInv /\ (SeedProperties \/ SeedApplications) => StartInv'
<1> USE DEF identity, rentals
<1>1. ASSUME StartInv, SeedProperties PROVE StartInv'
  <2>1. /\ step = "properties" /\ step' = "applications" /\ cursor' = 1
        /\ units' = IF units = {} THEN PlannedUnits ELSE units
        /\ UNCHANGED <<registering, roles, accounts, unitTypes, applications, residences, leases, today>>
    BY <1>1 DEF SeedProperties
  <2>2. DOMAIN applications # {} => units # {}
    BY <1>1 DEF StartInv, DataFit
  <2>3. units' # {} /\ units' \subseteq Units
    BY <1>1, <2>1, PlannedUnitsThere DEF StartInv, DataFit
  <2>4. CursorFits'
    BY <2>1 DEF CursorFits, Steps, Looping
  <2>5. SeededSoFar'
    BY <1>1, <2>1, <2>3 DEF StartInv, SeededSoFar, Looping, Joined
  <2>6. AccountsFit'
    BY <1>1, <2>1 DEF StartInv, AccountsFit
  <2>7. RegistrationsFit'
    BY <1>1, <2>1 DEF StartInv, RegistrationsFit
  <2>8. Complete => Complete'
    BY <2>1 DEF Complete, Joined
  <2>9. DataFit'
    <3>1. CASE DOMAIN applications = {}
      BY <1>1, <2>1, <2>3, <3>1 DEF StartInv, DataFit
    <3>2. CASE DOMAIN applications # {}
      BY <1>1, <2>1, <2>2, <2>3, <2>8, <3>2 DEF StartInv, DataFit
    <3> QED
      BY <3>1, <3>2
  <2> QED
    BY <2>4, <2>5, <2>6, <2>7, <2>9 DEF StartInv
<1>2. ASSUME StartInv, SeedApplications PROVE StartInv'
  <2>1. /\ step = "applications" /\ step' = "serving" /\ cursor' = 1
        /\ UNCHANGED <<registering, roles, accounts, unitTypes, units, today>>
    BY <1>2 DEF SeedApplications
  <2>2. Complete /\ Complete'
    BY <1>2, <2>1 DEF StartInv, SeededSoFar, Complete, Joined
  <2>3. DOMAIN applications' # {} /\ DataFit'
    <3>1. CASE DOMAIN applications = {}
      <4>1. units = PlannedUnits
        BY <1>2, <2>1, <3>1 DEF StartInv, DataFit, SeededSoFar
      <4>2. /\ RowsHold(applications', residences', leases')
            /\ \A a \in DOMAIN applications' : applications'[a].unit \in units'
        BY <1>2, <2>1, <3>1, <4>1, InsertedHold DEF SeedApplications
      <4>3. DOMAIN applications' # {}
        BY <4>2 DEF RowsHold, ApplicationStatus
      <4>4. /\ applications' \in [DOMAIN applications' -> ApplicationRow]
            /\ DOMAIN applications' \subseteq ApplicationIds
        BY <4>2 DEF RowsHold
      <4> QED
        BY <1>2, <2>1, <2>2, <4>2, <4>3, <4>4 DEF StartInv, DataFit
    <3>2. CASE DOMAIN applications # {}
      <4>1. UNCHANGED <<applications, residences, leases>>
        BY <1>2, <3>2 DEF SeedApplications
      <4> QED
        BY <1>2, <2>1, <2>2, <3>2, <4>1 DEF StartInv, DataFit
    <3> QED
      BY <3>1, <3>2
  <2>4. CursorFits'
    BY <2>1 DEF CursorFits, Steps, Looping
  <2>5. SeededSoFar'
    BY <2>1, <2>2, <2>3 DEF SeededSoFar, Looping, Complete
  <2>6. AccountsFit'
    BY <1>2, <2>1 DEF StartInv, AccountsFit
  <2>7. RegistrationsFit'
    BY <1>2, <2>1 DEF StartInv, RegistrationsFit
  <2> QED
    BY <2>3, <2>4, <2>5, <2>6, <2>7 DEF StartInv
<1> QED
  BY <1>1, <1>2

LEMMA RegisteringKeeps ==
    ASSUME StartInv,
           \/ \E user \in Visitors, role \in Roles : Register(user, role)
           \/ \E r \in registering : JoinRole(r) \/ RegisterFails(r)
    PROVE  StartInv'
<1> USE DEF identity, rentals
<1>1. ASSUME NEW user \in Visitors, NEW role \in Roles, Register(user, role) PROVE StartInv'
  <2>1. /\ step = "serving" /\ user \notin DOMAIN accounts
        /\ accounts' = Added(accounts, user, {})
        /\ registering' = registering \cup {[user |-> user, role |-> role]}
        /\ UNCHANGED <<step, cursor, roles, unitTypes, units, applications, residences, leases, today>>
    BY <1>1 DEF Register
  <2>2. /\ DOMAIN accounts' = DOMAIN accounts \cup {user}
        /\ \A k \in DOMAIN accounts : accounts'[k] = accounts[k]
        /\ accounts'[user] = {}
        /\ accounts' = [k \in DOMAIN accounts' |-> accounts'[k]]
    BY <2>1, AccountAdded
  <2>3. user \notin SeededUsers
    BY <2>1 DEF StartInv, SeededSoFar, Joined
  <2>4. \A u : Joined(u) => Joined(u)'
    BY <2>2 DEF Joined
  <2>5. CursorFits'
    BY <2>1 DEF StartInv, CursorFits, Looping
  <2>6. SeededSoFar'
    BY <2>1, <2>4 DEF StartInv, SeededSoFar, Looping
  <2>7. AccountsFit'
    <3>1. \A k \in DOMAIN accounts' :
             \/ k = user /\ accounts'[k] = {}
             \/ k \in DOMAIN accounts /\ accounts'[k] = accounts[k]
      BY <2>2
    <3> QED
      BY <2>2, <3>1 DEF StartInv, AccountsFit
  <2>8. RegistrationsFit'
    <3>1. \A r \in registering : r.user \in DOMAIN accounts /\ r.role \in Roles
                                 /\ r = [user |-> r.user, role |-> r.role]
      BY DEF StartInv, RegistrationsFit
    <3> DEFINE new == [user |-> user, role |-> role]
    <3>2. new.user = user /\ new.role = role
      OBVIOUS
    <3> HIDE DEF new
    <3>3. registering' = registering \cup {new}
      BY <2>1 DEF new
    <3>4. registering' \subseteq [user : DOMAIN accounts', role : Roles]
      BY <2>1, <2>2, <3>1
    <3>5. \A r \in registering' : r.user \notin SeededUsers /\ accounts'[r.user] = {}
      BY <2>2, <2>3, <3>1, <3>2, <3>3 DEF StartInv, RegistrationsFit
    <3>6. \A q, r \in registering' : q.user = r.user => q = r
      BY <2>1, <3>1, <3>2, <3>3 DEF StartInv, RegistrationsFit
    <3> QED
      BY <2>1, <3>4, <3>5, <3>6 DEF RegistrationsFit
  <2>9. Complete => Complete'
    BY <2>1, <2>4 DEF Complete
  <2>10. DataFit'
    BY <2>1, <2>9 DEF StartInv, DataFit
  <2> QED
    BY <2>5, <2>6, <2>7, <2>8, <2>10 DEF StartInv
<1>2. ASSUME NEW r \in registering, JoinRole(r) PROVE StartInv'
  <2>1. /\ step = "serving"
        /\ r.user \in DOMAIN accounts /\ r.role \in Roles
        /\ r.user \notin SeededUsers /\ accounts[r.user] = {}
        /\ accounts' = [accounts EXCEPT ![r.user] = @ \cup {r.role}]
        /\ registering' = registering \ {r}
        /\ UNCHANGED <<step, cursor, roles, unitTypes, units, applications, residences, leases, today>>
    BY <1>2 DEF StartInv, RegistrationsFit, JoinRole
  <2>2. /\ DOMAIN accounts' = DOMAIN accounts
        /\ \A k \in DOMAIN accounts : k # r.user => accounts'[k] = accounts[k]
        /\ accounts'[r.user] = {r.role}
        /\ accounts' = [k \in DOMAIN accounts' |-> accounts'[k]]
    BY <2>1 DEF StartInv, AccountsFit
  <2>3. \A u \in SeededUsers : Joined(u) => Joined(u)'
    BY <2>1, <2>2 DEF Joined
  <2>4. CursorFits'
    BY <2>1 DEF StartInv, CursorFits, Looping
  <2>5. SeededSoFar'
    BY <2>1, <2>3 DEF StartInv, SeededSoFar, Looping
  <2>6. AccountsFit'
    <3>1. \A k \in DOMAIN accounts' :
             \/ k \notin SeededUsers /\ accounts'[k] = {r.role} /\ r.role \in Roles
             \/ accounts'[k] = accounts[k]
      BY <2>1, <2>2
    <3> QED
      BY <2>2, <3>1 DEF StartInv, AccountsFit
  <2>7. RegistrationsFit'
    <3>1. \A q \in registering' : q \in registering /\ q.user # r.user
      BY <2>1 DEF StartInv, RegistrationsFit
    <3> QED
      BY <2>1, <2>2, <3>1 DEF StartInv, RegistrationsFit
  <2>8. Complete => Complete'
    BY <2>1, <2>3 DEF Complete
  <2>9. DataFit'
    BY <2>1, <2>8 DEF StartInv, DataFit
  <2> QED
    BY <2>4, <2>5, <2>6, <2>7, <2>9 DEF StartInv
<1>3. ASSUME NEW r \in registering, RegisterFails(r) PROVE StartInv'
  <2>1. /\ registering' \subseteq registering
        /\ UNCHANGED <<step, cursor, roles, accounts, unitTypes, units, applications,
                       residences, leases, today>>
    BY <1>3 DEF RegisterFails
  <2>2. CursorFits'
    BY <2>1 DEF StartInv, CursorFits, Looping
  <2>3. SeededSoFar'
    BY <2>1 DEF StartInv, SeededSoFar, Looping, Joined
  <2>4. AccountsFit'
    BY <2>1 DEF StartInv, AccountsFit
  <2>5. RegistrationsFit'
    BY <2>1 DEF StartInv, RegistrationsFit
  <2>6. DataFit'
    BY <2>1 DEF StartInv, DataFit, Complete, Joined
  <2> QED
    BY <2>2, <2>3, <2>4, <2>5, <2>6 DEF StartInv
<1> QED
  BY <1>1, <1>2, <1>3

LEMMA RemovalKeeps == ASSUME StartInv, NEW unit \in Units, RemoveUnit(unit) PROVE StartInv'
<1>1. /\ step = "serving"
      /\ \A a \in DOMAIN applications : applications[a].unit # unit
      /\ units' = units \ {unit}
      /\ UNCHANGED <<step, cursor, registering, roles, accounts, unitTypes, applications,
                     residences, leases, today>>
  BY DEF RemoveUnit, process, identity
<1>2. CursorFits'
  BY <1>1 DEF StartInv, CursorFits, Looping
<1>3. SeededSoFar'
  BY <1>1 DEF StartInv, SeededSoFar, Looping, Joined
<1>4. AccountsFit'
  BY <1>1 DEF StartInv, AccountsFit
<1>5. RegistrationsFit'
  BY <1>1 DEF StartInv, RegistrationsFit
<1>6. DataFit'
  <2>1. DOMAIN applications # {}
    BY <1>1 DEF StartInv, SeededSoFar
  <2>2. Complete => Complete'
    BY <1>1 DEF Complete, Joined
  <2> QED
    BY <1>1, <2>1, <2>2 DEF StartInv, DataFit
<1> QED
  BY <1>2, <1>3, <1>4, <1>5, <1>6 DEF StartInv

LEMMA StartInvStep == StartInv /\ [Next]_vars => StartInv'
  BY StutterKeeps, ProcessKeeps, RolesKeeps, AccountsKeep, TablesKeep, RegisteringKeeps,
     RemovalKeeps
  DEF Next, Seed

LEMMA StartInvHolds == Spec => []StartInv
<1>1. Spec => Init /\ [][Next]_vars
  BY DEF Spec
<1> QED
  BY <1>1, StartInvInit, StartInvStep, PTL

----------------------------------------------------------------------------
(* The terms of the seeded leases *)

\* The calendar of Startup is the one the theorems of GregorianCalendar_proofs are about.
LEMMA CalendarIs ==
    ASSUME NEW n
    PROVE  /\ \A k : Calendar!PlusMonths(n, k) = PlusMonths(n, k)
           /\ Calendar!DateOf(n) = DateOf(n)
           /\ \A m, d : Calendar!DayNumber(n, m, d) = DayNumber(n, m, d)
<1>1. \A y : Calendar!IsLeapYear(y) = IsLeapYear(y)
  BY DEF Calendar!IsLeapYear, IsLeapYear
<1>2. \A y, m : Calendar!DaysInMonth(y, m) = DaysInMonth(y, m)
  BY <1>1, Zenon DEF Calendar!DaysInMonth, DaysInMonth
<1>3. \A y : Calendar!DaysBeforeYear(y) = DaysBeforeYear(y)
  BY DEF Calendar!DaysBeforeYear, DaysBeforeYear
<1>4. \A y, m : Calendar!DaysBeforeMonth(y, m) = DaysBeforeMonth(y, m)
  BY <1>1, Zenon DEF Calendar!DaysBeforeMonth, DaysBeforeMonth
<1>5. \A y, m, d : Calendar!DayNumber(y, m, d) = DayNumber(y, m, d)
  BY <1>3, <1>4, Zenon DEF Calendar!DayNumber, DayNumber
<1>6. Calendar!DateOf(n) = DateOf(n)
  BY DEF Calendar!DateOf, DateOf, Calendar!DaysBeforeYear, DaysBeforeYear, Calendar!DaysBeforeMonth, DaysBeforeMonth, Calendar!DaysInMonth, DaysInMonth, Calendar!IsLeapYear, IsLeapYear
<1>7. \A k : Calendar!PlusMonths(n, k) = PlusMonths(n, k)
  BY <1>2, <1>5, <1>6, Zenon DEF Calendar!PlusMonths, PlusMonths
<1> QED
  BY <1>5, <1>6, <1>7

\* The calendar's dates lie at least fourteen months after its first.
LEMMA FarEnough ==
    ASSUME NEW d \in Days
    PROVE  d \in Nat /\ MonthIndex(d) \in Nat /\ MonthIndex(d) >= 27
<1>1. d \in Nat /\ d >= DayNumber(2, 3, 1)
  BY SeedingDatesAssumption, CalendarIs, Zenon
<1>2. IsDate(2, 3, 1)
  BY DEF IsDate, DaysInMonth
<1>3. DayNumber(2, 3, 1) \in Nat /\ MonthIndex(DayNumber(2, 3, 1)) = 27
  BY <1>2, DateOfDayNumber DEF MonthIndex
<1>4. MonthIndex(d) \in Nat
  BY <1>1, MonthIndexIs
<1>5. ~(MonthIndex(d) < 27)
  <2> HIDE DEF MonthIndex
  <2> QED
    BY <1>1, <1>3, EarlierMonth
<1> QED
  BY <1>1, <1>4, <1>5

\* The term that began so many months ago.
LEMMA TermBegunAgo ==
    ASSUME NEW d \in Days, NEW k \in 1..14, NEW l,
           l.startDate = AddMonths(d, -k), l.endDate = EndDateFor(l.startDate)
    PROVE  /\ k <= 11 => IsActiveOn(l, d)
           /\ k >= 13 => l.endDate < d /\ ~IsActiveOn(l, d)
           /\ IsCalendarYear(l)
<1> DEFINE start == l.startDate
           anniversary == PlusMonths(start, 12)
<1>1. d \in Nat /\ MonthIndex(d) \in Nat /\ MonthIndex(d) >= 27
  BY FarEnough
<1>2. start = PlusMonths(d, -k) /\ AddMonths(start, TermMonths) = PlusMonths(start, 12)
  <2>1. AddMonths(d, -k) = Calendar!PlusMonths(d, -k)
        /\ AddMonths(Calendar!PlusMonths(d, -k), TermMonths) = Calendar!PlusMonths(Calendar!PlusMonths(d, -k), TermMonths)
    BY SeedingDatesAssumption
  <2> QED
    BY <2>1, CalendarIs, Zenon DEF TermMonths
<1>3. l.endDate = anniversary - 1
  BY <1>2 DEF EndDateFor
<1> HIDE DEF start
<1>4. start \in Nat /\ MonthIndex(start) = MonthIndex(d) - k
  <2>1. -k \in Int /\ MonthIndex(d) + (-k) >= 13 /\ MonthIndex(d) + (-k) = MonthIndex(d) - k
    BY <1>1
  <2> HIDE DEF MonthIndex
  <2>2. PlusMonths(d, -k) \in Nat /\ MonthIndex(PlusMonths(d, -k)) = MonthIndex(d) + (-k)
    BY <1>1, <2>1, PlusMonthsCounts
  <2> QED
    BY <1>2, <2>1, <2>2
<1>5. anniversary \in Nat /\ MonthIndex(anniversary) = (MonthIndex(d) - k) + 12
  BY <1>1, <1>4, PlusMonthsCounts
<1> HIDE DEF anniversary
<1>6. k <= 11 => start < d /\ d < anniversary
  BY <1>1, <1>4, <1>5, EarlierMonth
<1>7. k >= 13 => anniversary < d
  BY <1>1, <1>4, <1>5, EarlierMonth
<1>8. k <= 11 => IsActiveOn(l, d)
  BY <1>1, <1>3, <1>4, <1>5, <1>6 DEF IsActiveOn, start
<1>9. k >= 13 => l.endDate < d /\ ~IsActiveOn(l, d)
  BY <1>1, <1>3, <1>5, <1>7 DEF IsActiveOn
<1>10. IsCalendarYear(l)
  <2>1. l.endDate + 1 = anniversary
    BY <1>3, <1>5
  <2>2. Calendar!DateOf(l.startDate) = DateOf(start) /\ Calendar!DateOf(l.endDate + 1) = DateOf(PlusMonths(start, 12))
    BY <2>1, CalendarIs, Zenon DEF start, anniversary
  <2> QED
    BY <1>4, <2>2, TwelveMonthsAreAYear, Zenon DEF IsCalendarYear
<1> QED
  BY <1>8, <1>9, <1>10

\* What is inserted, as far as the terms of the leases go.
LEMMA TermsInserted ==
    ASSUME InsertApplications, today \in Days
    PROVE  SeededAsPlanned
<1>1. PICK months \in [ActivePlaces -> MonthsDrawn], m \in Managers,
           answers \in Answers, c \in Comments :
        LET ids    == {ApplicationOrder[i] : i \in 1..BlockedPlace}
            rows   == [a \in ids |-> RowAt(PlaceOf(a), m, answers, c)]
        IN  /\ applications' = rows
            /\ leases' = {SeededLease(a, rows[a], today, MonthsAgo(PlaceOf(a), months)) :
                             a \in {b \in ids : rows[b].status = "Approved"}}
  BY DEF InsertApplications
<1> DEFINE apps == applications'
           ago(a) == MonthsAgo(PlaceOf(a), months)
           approved == {b \in PlannedIds : apps[b].status = "Approved"}
<1>2. apps = [a \in PlannedIds |-> RowAt(PlaceOf(a), m, answers, c)]
  BY <1>1 DEF PlannedIds, Places
<1>3. leases' = {IssuedLease(a, apps[a], AddMonths(today, -ago(a))) : a \in approved}
  BY <1>1 DEF PlannedIds, Places, SeededLease
<1>4. \A a \in PlannedIds :
         /\ PlaceOf(a) \in Places
         /\ apps[a].status = StatusAt(PlaceOf(a))
         /\ apps[a].unit = UnitAt(PlaceOf(a))
  <2>1. SUFFICES ASSUME NEW a \in PlannedIds
                 PROVE  /\ PlaceOf(a) \in Places
                        /\ apps[a].status = StatusAt(PlaceOf(a))
                        /\ apps[a].unit = UnitAt(PlaceOf(a))
    OBVIOUS
  <2>2. PlaceOf(a) \in Places
    BY PlacesOfIds
  <2>3. IsPlanned(apps[a], PlaceOf(a), answers)
    BY <1>2, <2>2, RowsPlanned
  <2> HIDE DEF apps
  <2> QED
    BY <2>2, <2>3, Zenon DEF IsPlanned
<1>5. \A a \in approved : /\ ago(a) \in 1..14
                          /\ PlaceOf(a) \in ActivePlaces => ago(a) <= 11
                          /\ PlaceOf(a) \notin ActivePlaces => ago(a) >= 13
  <2>1. \A i \in ActivePlaces : months[i] \in 1..10
    BY <1>1, SeedingDatesAssumption
  <2>2. \A i : IF i \in ActivePlaces THEN MonthsAgo(i, months) \in 1..10 ELSE MonthsAgo(i, months) = 14
    BY <2>1 DEF MonthsAgo
  <2> HIDE DEF approved
  <2> QED
    BY <2>2
<1> HIDE DEF apps, ago
<1>6. \A l \in leases' :
         /\ l.application \in approved
         /\ l.unit = apps[l.application].unit
         /\ l.startDate = AddMonths(today, -ago(l.application))
         /\ l.endDate = EndDateFor(l.startDate)
  BY <1>3 DEF IssuedLease
<1>7. \A a \in approved : \E l \in leases' : l.application = a
  <2>1. SUFFICES ASSUME NEW a \in approved PROVE \E l \in leases' : l.application = a
    OBVIOUS
  <2>2. IssuedLease(a, apps[a], AddMonths(today, -ago(a))) \in leases'
    BY <1>3
  <2>3. IssuedLease(a, apps[a], AddMonths(today, -ago(a))).application = a
    BY DEF IssuedLease
  <2> QED
    BY <2>2, <2>3
<1>8. \A l \in leases' : /\ PlaceOf(l.application) \in ActivePlaces => IsActiveOn(l, today)
                         /\ PlaceOf(l.application) \notin ActivePlaces =>
                               l.endDate < today /\ ~IsActiveOn(l, today)
                         /\ IsCalendarYear(l)
  <2>1. SUFFICES ASSUME NEW l \in leases'
                 PROVE  /\ PlaceOf(l.application) \in ActivePlaces => IsActiveOn(l, today)
                        /\ PlaceOf(l.application) \notin ActivePlaces =>
                              l.endDate < today /\ ~IsActiveOn(l, today)
                        /\ IsCalendarYear(l)
    OBVIOUS
  <2>2. /\ ago(l.application) \in 1..14
        /\ PlaceOf(l.application) \in ActivePlaces => ago(l.application) <= 11
        /\ PlaceOf(l.application) \notin ActivePlaces => ago(l.application) >= 13
    BY <1>5, <1>6
  <2>3. l.startDate = AddMonths(today, -ago(l.application)) /\ l.endDate = EndDateFor(l.startDate)
    BY <1>6
  <2>4. /\ ago(l.application) <= 11 => IsActiveOn(l, today)
        /\ ago(l.application) >= 13 => l.endDate < today /\ ~IsActiveOn(l, today)
        /\ IsCalendarYear(l)
    BY <2>2, <2>3, TermBegunAgo, Zenon
  <2> QED
    BY <2>2, <2>4, Zenon
<1> DEFINE active == {l \in leases' : IsActiveOn(l, today)}
<1>9. \A l \in leases' : l \in active <=> PlaceOf(l.application) \in ActivePlaces
  BY <1>8
<1>10. \A i \in ActivePlaces : ApplicationOrder[i] \in approved /\ PlaceOf(ApplicationOrder[i]) = i
  <2>1. ActivePlaces \subseteq Places /\ \A i \in ActivePlaces : StatusAt(i) = "Approved"
    BY PlanPlaces DEF Places, StatusAt
  <2> QED
    BY <1>4, <2>1, PlacesOfIds
<1>11. {l.application : l \in active} = {ApplicationOrder[i] : i \in ActivePlaces}
  <2>1. ASSUME NEW l \in active PROVE \E i \in ActivePlaces : l.application = ApplicationOrder[i]
    <3>1. PlaceOf(l.application) \in ActivePlaces /\ l.application \in PlannedIds
      BY <1>6, <1>9
    <3>2. ApplicationOrder[PlaceOf(l.application)] = l.application
      BY <3>1, PlacesOfIds
    <3> QED
      BY <3>1, <3>2
  <2>2. ASSUME NEW i \in ActivePlaces PROVE \E l \in active : l.application = ApplicationOrder[i]
    <3>1. PICK l \in leases' : l.application = ApplicationOrder[i]
      BY <1>7, <1>10
    <3>2. l \in active
      BY <1>9, <1>10, <3>1
    <3> QED
      BY <3>1, <3>2
  <2> HIDE DEF active
  <2> QED
    BY <2>1, <2>2
<1>12. \A l \in leases' \ active : l.endDate < today
  BY <1>8, <1>9
<1> DEFINE unit == applications'[ApplicationOrder[BlockedPlace]].unit
<1>13. \A d \in Days : ~CanIssueLease({l \in leases' : l.unit = unit}, today, d)
  <2>1. BlockedPlace \in Places /\ 6 \in ActivePlaces /\ 6 \in Places
    BY PlanPlaces DEF Places
  <2>2. unit = UnitAt(BlockedPlace) /\ UnitAt(BlockedPlace) = UnitAt(6)
    BY <1>4, <2>1, PlacesOfIds, PlanPlaces DEF apps, UnitAt
  <2>3. PICK l \in leases' : l.application = ApplicationOrder[6]
    BY <1>7, <1>10, <2>1
  <2>4. IsActiveOn(l, today)
    BY <1>8, <1>10, <2>1, <2>3
  <2>5. l.unit = UnitAt(6)
    BY <1>4, <1>6, <1>10, <2>1, <2>3
  <2> QED
    BY <2>2, <2>3, <2>4, <2>5 DEF CanIssueLease, ConflictsWithExisting
<1> QED
  BY <1>8, <1>11, <1>12, <1>13, Zenon DEF SeededAsPlanned

----------------------------------------------------------------------------
(* The theorems *)

\* In every state the tables and the process have the values their types allow.
THEOREM StartupTypesHold == Spec => []TypeOK
<1>1. StartInv => TypeOK
  <2> SUFFICES ASSUME StartInv PROVE TypeOK
    OBVIOUS
  <2>1. cursor \in 1..(IF step = "roles" THEN Len(RoleOrder) ELSE Len(SeedOrder))
    BY RoleOrderIs, SeedOrderRange DEF StartInv, CursorFits, Looping
  <2> QED
    BY <2>1 DEF StartInv, CursorFits, AccountsFit, RegistrationsFit, DataFit, TypeOK
<1> QED
  BY <1>1, StartInvHolds, PTL

\* Requests are served only over a database that is completely seeded, however
\* many starts were cut off before (DbSeeder.SeedAsync, Program.cs).
THEOREM ServedDatabaseIsSeeded == Spec => []ServesSeeded
<1>1. StartInv => ServesSeeded
  <2> SUFFICES ASSUME StartInv, step = "serving" PROVE ServesSeeded
    BY DEF ServesSeeded
  <2>1. /\ Complete
        /\ RowsHold(applications, residences, leases)
        /\ \A a \in DOMAIN applications : applications[a].unit \in units
    BY DEF StartInv, SeededSoFar, DataFit
  <2>2. \A a \in DOMAIN applications :
           /\ IsAuditTrail(applications[a])
           /\ IsAttributed(applications[a])
           /\ ShowsCurrentFeedback(applications[a])
    BY <2>1 DEF RowsHold, IsSound
  <2> QED
    BY <2>1, <2>2 DEF ServesSeeded, Complete, Joined, RowsHold
<1> QED
  BY <1>1, StartInvHolds, PTL

\* An account has one role at most, whatever was cut off and registered again
\* (DbSeeder.EnsureUserAsync, AccountController.Register).
THEOREM AccountsHaveOneRole == Spec => []OneRoleEach
<1>1. StartInv => OneRoleEach
  <2> SUFFICES ASSUME StartInv, NEW user \in DOMAIN accounts
               PROVE  Cardinality(accounts[user]) <= 1
    BY DEF OneRoleEach
  <2>1. accounts[user] = {} \/ \E role \in Roles : accounts[user] = {role}
    BY DEF StartInv, AccountsFit
  <2>2. CASE accounts[user] = {}
    BY <2>2, FS_EmptySet
  <2>3. ASSUME NEW role \in Roles, accounts[user] = {role}
        PROVE  Cardinality(accounts[user]) <= 1
    BY <2>3, FS_Singleton
  <2> QED
    BY <2>1, <2>2, <2>3
<1> QED
  BY <1>1, StartInvHolds, PTL

\* A start over a database that has applications changes no table: what has been
\* seeded is not seeded again (DbSeeder.SeedAsync).
THEOREM SeedingIsIdempotent == Spec => LaterStartsChangeNothing
<1>1. ASSUME StartInv, [Next]_vars PROVE StartLeavesDataAlone
  <2> SUFFICES ASSUME DOMAIN applications # {}, step # "serving"
               PROVE  UNCHANGED <<identity, unitTypes, rentals>>
    BY DEF StartLeavesDataAlone
  <2> USE DEF identity, rentals
  <2>1. /\ Complete /\ units # {} /\ registering = {}
        /\ accounts = [k \in DOMAIN accounts |-> accounts[k]]
    <3>1. Complete /\ registering = {}
      BY <1>1 DEF StartInv, DataFit, RegistrationsFit
    <3>2. units # {}
      BY <1>1 DEF StartInv, DataFit
    <3>3. accounts = [k \in DOMAIN accounts |-> accounts[k]]
      BY <1>1 DEF StartInv, AccountsFit
    <3> QED
      BY <3>1, <3>2, <3>3
  <2>2. CASE UNCHANGED vars
    BY <2>2 DEF vars
  <2>3. CASE StartProcess \/ Stop \/ DaysPass
    BY <2>3 DEF StartProcess, Stop, DaysPass
  <2>4. CASE SeedARole
    <3>1. cursor = 1 \/ cursor = 2
      BY <1>1, <2>4 DEF StartInv, CursorFits, SeedARole
    <3>2. RoleOrder[cursor] \in roles
      BY <2>1, <3>1, RoleOrderIs DEF Complete, Roles
    <3> QED
      BY <2>4, <3>2 DEF SeedARole
  <2>5. CASE SeedUnitTypes
    BY <2>1, <2>5 DEF SeedUnitTypes, Complete
  <2>6. CASE SeedAccount
    <3>1. SeedOrder[cursor] \in DOMAIN accounts
      BY <1>1, <2>1, <2>6, SeedOrderRange
      DEF StartInv, CursorFits, Looping, SeedAccount, Complete, Joined
    <3> QED
      BY <2>6, <3>1 DEF SeedAccount
  <2>7. CASE SeedMembership
    <3> DEFINE user == SeedOrder[cursor]
    <3>1. user \in DOMAIN accounts /\ accounts[user] = {SeedRole(user)}
      BY <1>1, <2>1, <2>7, SeedOrderRange
      DEF StartInv, CursorFits, Looping, SeedMembership, Complete, Joined
    <3>2. accounts' = [accounts EXCEPT ![user] = @ \cup {SeedRole(user)}]
      BY <2>7 DEF SeedMembership
    <3> HIDE DEF user
    <3>3. accounts' = accounts
      BY <2>1, <3>1, <3>2
    <3> QED
      BY <2>7, <3>3 DEF SeedMembership
  <2>8. CASE SeedProperties
    BY <2>1, <2>8 DEF SeedProperties
  <2>9. CASE SeedApplications
    BY <2>9 DEF SeedApplications
  <2>10. ~ \E user \in Visitors, role \in Roles : Register(user, role)
    BY DEF Register
  <2>11. ~ \E r \in registering : JoinRole(r) \/ RegisterFails(r)
    BY <2>1
  <2>12. ~ \E unit \in Units : RemoveUnit(unit)
    BY DEF RemoveUnit
  <2> QED
    BY <1>1, <2>2, <2>3, <2>4, <2>5, <2>6, <2>7, <2>8, <2>9, <2>10, <2>11, <2>12 DEF Next, Seed
<1>2. StartInv /\ [Next]_vars => [StartLeavesDataAlone]_vars
  BY <1>1
<1>3. Spec => [][Next]_vars
  BY DEF Spec
<1>4. []StartInv /\ [][Next]_vars => [][StartLeavesDataAlone]_vars
  BY <1>2, PTL
<1> QED
  BY <1>3, <1>4, StartInvHolds DEF LaterStartsChangeNothing

\* Whatever the day of the seeding: the leases meant to be active are, the one meant
\* to have expired has, the last application is blocked by one of them, and every
\* term is a calendar year (DbSeeder.SeedApplicationsAsync, LeaseRules.EndDateFor).
THEOREM LeasesAreSeededAsPlanned == Spec => LeasesSeededAsPlanned
<1>1. ASSUME StartInv, [Next]_vars PROVE SeededAsPlanned
  <2> SUFFICES ASSUME applications' # applications PROVE SeededAsPlanned
    BY DEF SeededAsPlanned
  <2> USE DEF identity, rentals
  <2>1. SeedApplications
    <3>1. ~ UNCHANGED vars
      BY DEF vars
    <3>2. ~ (StartProcess \/ Stop \/ DaysPass)
      BY DEF StartProcess, Stop, DaysPass
    <3>3. ~ (SeedARole \/ SeedUnitTypes \/ SeedAccount \/ SeedMembership \/ SeedProperties)
      BY DEF SeedARole, SeedUnitTypes, SeedAccount, SeedMembership, SeedProperties
    <3>4. ~ \E user \in Visitors, role \in Roles : Register(user, role)
      BY DEF Register
    <3>5. ~ \E r \in registering : JoinRole(r) \/ RegisterFails(r)
      BY DEF JoinRole, RegisterFails
    <3>6. ~ \E unit \in Units : RemoveUnit(unit)
      BY DEF RemoveUnit
    <3> QED
      BY <1>1, <3>1, <3>2, <3>3, <3>4, <3>5, <3>6 DEF Next, Seed
  <2>2. InsertApplications
    BY <2>1 DEF SeedApplications
  <2>3. today \in Days
    BY <1>1 DEF StartInv, DataFit
  <2> QED
    BY <2>2, <2>3, TermsInserted
<1>2. StartInv /\ [Next]_vars => [SeededAsPlanned]_vars
  BY <1>1
<1>3. Spec => [][Next]_vars
  BY DEF Spec
<1>4. []StartInv /\ [][Next]_vars => [][SeededAsPlanned]_vars
  BY <1>2, PTL
<1> QED
  BY <1>3, <1>4, StartInvHolds DEF LeasesSeededAsPlanned

=============================================================================
