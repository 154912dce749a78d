---------------------- MODULE ConcurrentRequests_proofs ----------------------
(***************************************************************************)
(* What the tables guarantee whatever the interleaving of requests, for    *)
(* any number of requests in progress and of retries: theorems of          *)
(* ConcurrentRequests.  The work that waits to be saved was decided on     *)
(* rows that may have changed since; the invariant says what of that       *)
(* decision remains true.                                                  *)
(***************************************************************************)
EXTENDS ConcurrentRequests, RentalApplicationService_proofs, FiniteSetTheorems,
        SequenceTheorems

----------------------------------------------------------------------------
(* Rows whose trail is legal *)

Reviews == {"Approved", "Returned", "Denied"}

\* The entry was made by someone entitled to it.
IsEntitled(entry, applicant) ==
    IF entry.toStatus \in Reviews
    THEN /\ entry.changedBy \in Managers
         /\ entry.toStatus # "Approved" => entry.comment \in Comments
    ELSE entry.changedBy = applicant

\* What EntriesAreLegal says of a row, and that the trail has its first entry.
IsLegal(row) ==
    /\ Len(row.history) >= 1
    /\ row.history[1].fromStatus = NoStatus
    /\ row.history[Len(row.history)].toStatus = row.status
    /\ \A i \in 2..Len(row.history) :
          CanTransition(row.history[i].fromStatus, row.history[i].toStatus)
    /\ \A i \in 1..Len(row.history) : IsEntitled(row.history[i], row.applicant)

WasApproved(row) ==
    \E i \in 1..Len(row.history) : row.history[i].toStatus = "Approved"

----------------------------------------------------------------------------
(* The work of a request *)

\* The written columns hold what a row may hold.
AreWrites(writes) ==
    \E row \in ApplicationRow : \A c \in DOMAIN writes : writes[c] = row[c]

\* The status is written with the entry of a legal step to it, or not at all.
AreEntries(entries, writes) ==
    \/ entries = <<>> /\ "status" \notin DOMAIN writes
    \/ \E e \in HistoryRow :
          /\ entries = <<e>>
          /\ CanTransition(e.fromStatus, e.toStatus)
          /\ "status" \in DOMAIN writes
          /\ writes["status"] = e.toStatus

\* One lease at most, with the entry of its approval.
AreLeases(newLeases, entries, a) ==
    /\ \A l \in newLeases : l \in LeaseRow /\ l.application = a
    /\ \A k, l \in newLeases : k = l
    /\ newLeases # {} => \E e \in HistoryRow : entries = <<e>> /\ e.toStatus = "Approved"

AreResidences(work) ==
    /\ IsFiniteSet(work.inserted)
    /\ \A row \in work.inserted : row \in ResidenceRow /\ row.application = work.application
    /\ \A r \in DOMAIN work.updated :
          work.updated[r] \in ResidenceRow /\ work.updated[r].application = work.application

IsChange(work) ==
    /\ work.kind = "Application"
    /\ AreWrites(work.writes)
    /\ AreEntries(work.entries, work.writes)
    /\ AreLeases(work.leases, work.entries, work.application)
    /\ AreResidences(work)

IsInsert(work) ==
    /\ work.kind = "Insert"
    /\ \E u \in Units, p \in Applicants : work.row = StartedApplication(u, p)

IsDelete(work) == work.kind = "Delete"

IsWork(work) == IsChange(work) \/ IsInsert(work) \/ IsDelete(work)

\* The part of the decision that no other request can make untrue: whose
\* application it is, and for which unit.
Suits(work, row) ==
    /\ \A l \in work.leases : l.unit = row.unit /\ l.tenant = row.applicant
    /\ \A i \in 1..Len(work.entries) : IsEntitled(work.entries[i], row.applicant)

StillSuits(work) ==
    work.kind = "Application" =>
        /\ work.application \in issuedApplicationIds
        /\ work.application \in DOMAIN applications => Suits(work, applications[work.application])

Phases == {"OpenChecked", "UnitLoaded", "LeasesChecked", "Saving"}

IsRequest(request) ==
    \E operation, phase, attempts, work :
        /\ operation \in AllOperations /\ phase \in Phases /\ attempts \in 0..MaxRetries
        /\ request = [operation |-> operation, phase |-> phase, work |-> work,
                      attempts |-> attempts]
        /\ IsWork(work)
        /\ StillSuits(work)

----------------------------------------------------------------------------
(* The invariant *)

TablesTyped ==
    /\ TypeOK
    /\ DOMAIN applications \subseteq issuedApplicationIds
    /\ issuedApplicationIds \subseteq ApplicationIds

TrailsLegal == \A a \in DOMAIN applications : IsLegal(applications[a])

LeasesApproved ==
    /\ \A k, l \in leases : k.application = l.application => k = l
    /\ \A l \in leases :
          /\ l.application \in DOMAIN applications
          /\ l.unit = applications[l.application].unit
          /\ l.tenant = applications[l.application].applicant
          /\ WasApproved(applications[l.application])

Tables == TablesTyped /\ TrailsLegal /\ LeasesApproved /\ ReferencesHold

RequestsSound ==
    /\ requests = [s \in Slots |-> requests[s]]
    /\ \A s \in Slots : requests[s] # Idle => IsRequest(requests[s])

Inv == Tables /\ RequestsSound

\* An id names the same application of the same applicant, or none, from when it
\* has been handed out.
OwnersStay ==
    /\ issuedApplicationIds \subseteq issuedApplicationIds'
    /\ \A a \in DOMAIN applications' \cap issuedApplicationIds :
          /\ a \in DOMAIN applications
          /\ applications'[a].unit = applications[a].unit
          /\ applications'[a].applicant = applications[a].applicant

\* The statements of ConcurrentRequests follow.
LEMMA InvImplies == Inv => ConcurrentTypeOK /\ LeaseHasItsApproval /\ EntriesAreLegal
<1> SUFFICES ASSUME Inv PROVE ConcurrentTypeOK /\ LeaseHasItsApproval /\ EntriesAreLegal
  OBVIOUS
<1>1. ConcurrentTypeOK
  BY DEF Inv, Tables, TablesTyped, RequestsSound, IsRequest, Phases, ConcurrentTypeOK
<1>2. LeaseHasItsApproval
  BY DEF Inv, Tables, LeasesApproved, WasApproved, LeaseHasItsApproval
<1>3. EntriesAreLegal
  BY DEF Inv, Tables, TrailsLegal, IsLegal, IsEntitled, Reviews, IsAttributed, EntriesAreLegal
<1> QED
  BY <1>1, <1>2, <1>3

\* The seeded tables satisfy it, and nothing waits to be saved.
LEMMA InitInv == ConcurrentInit => Inv
<1> SUFFICES ASSUME ConcurrentInit PROVE Inv
  OBVIOUS
<1>1. TablesTyped
  BY SeedAssumption DEF ConcurrentInit, Init, TablesTyped, TypeOK
<1>2. \A a \in DOMAIN applications : IsAuditTrail(applications[a]) /\ IsAttributed(applications[a])
  BY SeedAssumption DEF ConcurrentInit, Init
<1>3. TrailsLegal
  BY <1>2 DEF TrailsLegal, IsLegal, IsEntitled, Reviews, IsAuditTrail, IsAttributed
<1>4. LeasesApproved
  <2>1. LeasesMatch(applications, leases)
    BY SeedAssumption DEF ConcurrentInit, Init
  <2>2. \A a \in DOMAIN applications :
           applications[a].status = "Approved" => WasApproved(applications[a])
    <3> SUFFICES ASSUME NEW a \in DOMAIN applications, applications[a].status = "Approved"
                 PROVE  WasApproved(applications[a])
      OBVIOUS
    <3>1. applications[a].history \in Seq(HistoryRow)
      BY <1>1 DEF TablesTyped, TypeOK, ApplicationRow
    <3>2. Len(applications[a].history) \in 1..Len(applications[a].history)
      BY <1>2, <3>1 DEF IsAuditTrail
    <3> QED
      BY <1>2, <3>2 DEF IsAuditTrail, WasApproved
  <2> QED
    BY <2>1, <2>2 DEF LeasesMatch, LeasesApproved
<1>5. ReferencesHold
  BY SeedAssumption DEF ConcurrentInit, Init, ReferencesHold, ApplicationRow, LeaseRow
<1>6. RequestsSound
  BY DEF ConcurrentInit, RequestsSound
<1> QED
  BY <1>1, <1>3, <1>4, <1>5, <1>6 DEF Inv, Tables

----------------------------------------------------------------------------
(* Saving *)

\* The entries of a history after a save.
LEMMA SavedHistory ==
    ASSUME NEW history \in Seq(HistoryRow), NEW entries, NEW writes,
           AreEntries(entries, writes)
    PROVE  /\ entries \in Seq(HistoryRow)
           /\ history \o entries \in Seq(HistoryRow)
           /\ Len(history) \in Nat /\ Len(entries) \in {0, 1}
           /\ Len(history \o entries) = Len(history) + Len(entries)
           /\ \A i \in 1..Len(history) : (history \o entries)[i] = history[i]
           /\ Len(entries) = 1 => /\ (history \o entries)[Len(history) + 1] = entries[1]
                                  /\ CanTransition(entries[1].fromStatus, entries[1].toStatus)
                                  /\ "status" \in DOMAIN writes
                                  /\ writes["status"] = entries[1].toStatus
           /\ Len(entries) = 0 => "status" \notin DOMAIN writes
<1>1. Len(history) \in Nat
  BY LenProperties
<1>2. /\ entries \in Seq(HistoryRow)
      /\ \/ Len(entries) = 0 /\ "status" \notin DOMAIN writes
         \/ /\ Len(entries) = 1
            /\ CanTransition(entries[1].fromStatus, entries[1].toStatus)
            /\ "status" \in DOMAIN writes
            /\ writes["status"] = entries[1].toStatus
  <2>1. CASE entries = <<>> /\ "status" \notin DOMAIN writes
    BY <2>1
  <2>2. CASE \E e \in HistoryRow :
                /\ entries = <<e>>
                /\ CanTransition(e.fromStatus, e.toStatus)
                /\ "status" \in DOMAIN writes
                /\ writes["status"] = e.toStatus
    <3>1. PICK e \in HistoryRow :
                /\ entries = <<e>>
                /\ CanTransition(e.fromStatus, e.toStatus)
                /\ "status" \in DOMAIN writes
                /\ writes["status"] = e.toStatus
      BY <2>2
    <3>2. entries \in Seq(HistoryRow) /\ Len(entries) = 1 /\ entries[1] = e
      BY <3>1
    <3> QED
      BY <3>1, <3>2
  <2> QED
    BY <2>1, <2>2 DEF AreEntries
<1>3. /\ history \o entries \in Seq(HistoryRow)
      /\ Len(history \o entries) = Len(history) + Len(entries)
      /\ \A i \in 1..Len(history) + Len(entries) : (history \o entries)[i] =
            IF i <= Len(history) THEN history[i] ELSE entries[i - Len(history)]
  BY <1>2, ConcatProperties
<1>4. \A i \in 1..Len(history) : i \in 1..Len(history) + Len(entries) /\ i <= Len(history)
  BY <1>1, <1>2
<1>5. Len(entries) = 1 => /\ Len(history) + 1 \in 1..Len(history) + Len(entries)
                          /\ ~(Len(history) + 1 <= Len(history))
                          /\ (Len(history) + 1) - Len(history) = 1
  BY <1>1
<1>6. \A i \in 1..Len(history) : (history \o entries)[i] = history[i]
  BY <1>3, <1>4
<1>7. Len(entries) = 1 => (history \o entries)[Len(history) + 1] = entries[1]
  BY <1>3, <1>5
<1> QED
  BY <1>1, <1>2, <1>3, <1>6, <1>7

\* A saved row is a row of the same unit and applicant.
LEMMA SavedType ==
    ASSUME NEW row \in ApplicationRow, NEW work, IsChange(work)
    PROVE  /\ SavedRow(row, work) \in ApplicationRow
           /\ SavedRow(row, work).unit = row.unit
           /\ SavedRow(row, work).applicant = row.applicant
           /\ SavedRow(row, work).history = row.history \o work.entries
           /\ SavedRow(row, work).status = Column(work, "status", row.status)
<1>1. PICK written \in ApplicationRow :
         \A c \in DOMAIN work.writes : work.writes[c] = written[c]
  BY DEF IsChange, AreWrites
<1>2. /\ Column(work, "status", row.status) \in ApplicationStatus
      /\ Column(work, "information", row.information) \in Answers \cup {Profile}
      /\ Column(work, "informationCompleted", row.informationCompleted) \in BOOLEAN
      /\ Column(work, "residencesCompleted", row.residencesCompleted) \in BOOLEAN
      /\ Column(work, "reviewComment", row.reviewComment) \in Comments \cup {NoText}
      /\ Column(work, "managerNotes", row.managerNotes) \in Notes \cup {NoText}
  BY <1>1 DEF Column, ApplicationRow
<1>3. row.history \o work.entries \in Seq(HistoryRow)
  BY SavedHistory DEF IsChange, ApplicationRow
<1> QED
  BY <1>2, <1>3 DEF SavedRow, ApplicationRow

\* A legal row stays legal, and an approval of it stays on record.
LEMMA SavedLegal ==
    ASSUME NEW row \in ApplicationRow, IsLegal(row),
           NEW work, IsChange(work), Suits(work, row)
    PROVE  /\ IsLegal(SavedRow(row, work))
           /\ WasApproved(row) \/ work.leases # {} => WasApproved(SavedRow(row, work))
<1> DEFINE saved == SavedRow(row, work)
           history == row.history
           entries == work.entries
<1>1. /\ saved \in ApplicationRow
      /\ saved.applicant = row.applicant
      /\ saved.history = history \o entries
      /\ saved.status = Column(work, "status", row.status)
  BY SavedType
<1>2. history \in Seq(HistoryRow) /\ AreEntries(entries, work.writes)
  BY DEF IsChange, ApplicationRow
<1>3. /\ Len(history) \in Nat /\ Len(entries) \in {0, 1}
      /\ Len(history \o entries) = Len(history) + Len(entries)
      /\ \A i \in 1..Len(history) : (history \o entries)[i] = history[i]
      /\ Len(entries) = 1 => /\ (history \o entries)[Len(history) + 1] = entries[1]
                             /\ CanTransition(entries[1].fromStatus, entries[1].toStatus)
                             /\ "status" \in DOMAIN work.writes
                             /\ work.writes["status"] = entries[1].toStatus
      /\ Len(entries) = 0 => "status" \notin DOMAIN work.writes
  BY <1>2, SavedHistory
<1>4. /\ Len(history) >= 1
      /\ history[1].fromStatus = NoStatus
      /\ history[Len(history)].toStatus = row.status
      /\ \A i \in 2..Len(history) : CanTransition(history[i].fromStatus, history[i].toStatus)
      /\ \A i \in 1..Len(history) : IsEntitled(history[i], row.applicant)
  BY DEF IsLegal
<1>5. \A i \in 1..Len(entries) : IsEntitled(entries[i], row.applicant)
  BY DEF Suits
<1>6. work.leases # {} => Len(entries) = 1 /\ entries[1].toStatus = "Approved"
  BY DEF IsChange, AreLeases
<1>7. saved.status = IF Len(entries) = 1 THEN entries[1].toStatus ELSE row.status
  BY <1>1, <1>3 DEF Column
<1> HIDE DEF saved, history, entries
<1>8. CASE Len(entries) = 0
  <2>1. /\ Len(saved.history) = Len(history)
        /\ \A i \in 1..Len(history) : saved.history[i] = history[i]
    BY <1>1, <1>3, <1>8
  <2> QED
    BY <1>1, <1>3, <1>4, <1>6, <1>7, <1>8, <2>1 DEF IsLegal, WasApproved, saved, history
<1>9. CASE Len(entries) = 1
  <2> DEFINE n == Len(history)
  <2>1. /\ Len(saved.history) = n + 1
        /\ \A i \in 1..n : saved.history[i] = history[i]
        /\ saved.history[n + 1] = entries[1]
    BY <1>1, <1>3, <1>9
  <2>2. \A i \in 1..(n + 1) : i \in 1..n \/ i = n + 1
    BY <1>3
  <2>3. \A i \in 2..(n + 1) : i \in 2..n \/ i = n + 1
    BY <1>3
  <2>4. n \in Nat /\ n >= 1
    BY <1>3, <1>4
  <2> HIDE DEF n
  <2>5. IsLegal(saved)
    <3>1. \A i \in 2..(n + 1) :
             CanTransition(saved.history[i].fromStatus, saved.history[i].toStatus)
      BY <1>3, <1>4, <1>9, <2>1, <2>3, <2>4 DEF n
    <3>2. \A i \in 1..(n + 1) : IsEntitled(saved.history[i], saved.applicant)
      BY <1>1, <1>4, <1>5, <1>9, <2>1, <2>2 DEF n
    <3>3. saved.history[1].fromStatus = NoStatus
      BY <1>4, <2>1, <2>4
    <3> QED
      BY <1>7, <1>9, <2>1, <2>4, <3>1, <3>2, <3>3 DEF IsLegal
  <2>6. WasApproved(row) => WasApproved(saved)
    BY <2>1, <2>2, <2>4 DEF WasApproved, n, history
  <2>7. work.leases # {} => WasApproved(saved)
    BY <1>6, <2>1, <2>4 DEF WasApproved
  <2> QED
    BY <2>5, <2>6, <2>7 DEF saved
<1> QED
  BY <1>3, <1>8, <1>9

\* Saving the residences of an application keeps their table.
LEMMA SaveResidencesKeeps ==
    ASSUME Tables, NEW work, IsChange(work), work.application \in ApplicationIds,
           work.application \in DOMAIN applications,
           DOMAIN work.updated \subseteq DOMAIN residences, SaveResidences(work)
    PROVE  /\ DOMAIN residences' \subseteq issuedResidenceIds'
           /\ issuedResidenceIds' \subseteq ResidenceIds
           /\ residences' \in [DOMAIN residences' -> ResidenceRow]
           /\ \A r \in DOMAIN residences' : residences'[r].application \in DOMAIN applications
<1> DEFINE first == CHOOSE row \in work.inserted : TRUE
<1>1. PICK new \in SUBSET (ResidenceIds \ issuedResidenceIds) :
        /\ Cardinality(new) = Cardinality(work.inserted)
        /\ issuedResidenceIds' = issuedResidenceIds \cup new
        /\ residences' = [r \in new \cup (DOMAIN residences \ work.deleted) |->
              CASE r \in new                 -> first
                [] r \in DOMAIN work.updated -> work.updated[r]
                [] OTHER                     -> residences[r]]
  BY DEF SaveResidences
<1>2. AreResidences(work)
  BY DEF IsChange
<1>3. new # {} => first \in work.inserted
  <2>1. new \subseteq ResidenceIds
    OBVIOUS
  <2>2. IsFiniteSet(new)
    BY <2>1, RequestAssumption, FS_Subset
  <2>3. new # {} => \E row \in work.inserted : TRUE
    BY <1>1, <1>2, <2>2, FS_EmptySet DEF AreResidences
  <2> QED
    BY <2>3
<1> HIDE DEF first
<1>4. /\ DOMAIN residences \subseteq issuedResidenceIds
      /\ issuedResidenceIds \subseteq ResidenceIds
      /\ \A r \in DOMAIN residences : /\ residences[r] \in ResidenceRow
                                      /\ residences[r].application \in DOMAIN applications
  BY DEF Tables, TablesTyped, TypeOK, ReferencesHold
<1>5. DOMAIN residences' = new \cup (DOMAIN residences \ work.deleted)
  BY <1>1
<1>6. ASSUME NEW r \in DOMAIN residences'
      PROVE  residences'[r] \in ResidenceRow /\ residences'[r].application \in DOMAIN applications
  <2>1. CASE r \in new
    <3>1. r \in new \cup (DOMAIN residences \ work.deleted)
      BY <2>1
    <3>2. residences'[r] = CASE r \in new             -> first
                         [] r \in DOMAIN work.updated -> work.updated[r]
                         [] OTHER                     -> residences[r]
      BY <1>1, <3>1
    <3>3. r \notin DOMAIN work.updated
      BY <1>4, <2>1
    <3>4. residences'[r] = first
      BY <2>1, <3>2, <3>3
    <3> QED
      BY <1>2, <1>3, <2>1, <3>4 DEF AreResidences
  <2>2. CASE r \notin new /\ r \in DOMAIN work.updated
    <3>1. residences'[r] = work.updated[r]
      BY <1>1, <1>5, <2>2
    <3> QED
      BY <1>2, <2>2, <3>1 DEF AreResidences
  <2>3. CASE r \notin new /\ r \notin DOMAIN work.updated
    <3>1. residences'[r] = residences[r]
      BY <1>1, <1>5, <2>3
    <3> QED
      BY <1>4, <1>5, <2>3, <3>1
  <2> QED
    BY <2>1, <2>2, <2>3
<1>7. residences' = [r \in DOMAIN residences' |-> residences'[r]]
  BY <1>1
<1> QED
  BY <1>1, <1>4, <1>5, <1>6, <1>7

\* Saving a change of an application: its row, its lease, its residences.
LEMMA SaveApplicationKeeps ==
    ASSUME Tables, NEW work, IsWork(work), StillSuits(work), SaveApplication(work)
    PROVE  Tables' /\ OwnersStay /\ LeaseStays
<1> DEFINE a     == work.application
           row   == applications[a]
           saved == SavedRow(row, work)
<1>1. IsChange(work)
  BY DEF IsWork, IsChange, IsInsert, IsDelete, SaveApplication
<1>2. /\ a \in DOMAIN applications
      /\ a \in ApplicationIds
      /\ row \in ApplicationRow
      /\ IsLegal(row)
      /\ Suits(work, row)
  BY DEF SaveApplication, CanSaveApplication, StillSuits, Tables, TablesTyped, TypeOK,
         TrailsLegal
<1>3. saved \in ApplicationRow /\ saved.unit = row.unit /\ saved.applicant = row.applicant
  BY <1>1, <1>2, SavedType
<1>4. IsLegal(saved) /\ (WasApproved(row) \/ work.leases # {} => WasApproved(saved))
  BY <1>1, <1>2, SavedLegal
<1>5. applications' = [applications EXCEPT ![a] = saved]
  BY DEF SaveApplication
<1> HIDE DEF saved
<1>6. /\ DOMAIN applications' = DOMAIN applications
      /\ applications'[a] = saved
      /\ \A b \in DOMAIN applications : b # a => applications'[b] = applications[b]
  BY <1>2, <1>5
<1>7. /\ leases' = leases \cup work.leases
      /\ SaveResidences(work)
      /\ DOMAIN work.updated \subseteq DOMAIN residences
      /\ UNCHANGED <<units, today, issuedApplicationIds>>
      /\ \A l \in work.leases : ~ \E k \in leases : k.application = l.application
  BY DEF SaveApplication, CanSaveApplication
<1>8. /\ \A l \in work.leases : /\ l \in LeaseRow /\ l.application = a
                                /\ l.unit = row.unit /\ l.tenant = row.applicant
      /\ \A k, l \in work.leases : k = l
  BY <1>1, <1>2 DEF IsChange, AreLeases, Suits
<1>9. /\ DOMAIN residences' \subseteq issuedResidenceIds'
      /\ issuedResidenceIds' \subseteq ResidenceIds
      /\ residences' \in [DOMAIN residences' -> ResidenceRow]
      /\ \A r \in DOMAIN residences' : residences'[r].application \in DOMAIN applications
  BY <1>1, <1>2, <1>7, SaveResidencesKeeps
<1>10. OwnersStay
  BY <1>2, <1>3, <1>6, <1>7 DEF OwnersStay
<1>11. LeaseStays
  BY <1>2, <1>6, <1>7, <1>8 DEF LeaseStays, Tables, LeasesApproved
<1>12. TablesTyped'
  <2>1. applications' \in [DOMAIN applications' -> ApplicationRow]
    BY <1>3, <1>5, <1>6 DEF Tables, TablesTyped, TypeOK
  <2> QED
    BY <1>6, <1>7, <1>8, <1>9, <2>1 DEF Tables, TablesTyped, TypeOK
<1>13. TrailsLegal'
  BY <1>4, <1>6 DEF Tables, TrailsLegal
<1>14. LeasesApproved'
  <2>1. \A k, l \in leases' : k.application = l.application => k = l
    BY <1>7, <1>8 DEF Tables, LeasesApproved
  <2>2. ASSUME NEW l \in leases'
        PROVE  /\ l.application \in DOMAIN applications'
               /\ l.unit = applications'[l.application].unit
               /\ l.tenant = applications'[l.application].applicant
               /\ WasApproved(applications'[l.application])
    <3>1. CASE l \in leases
      BY <1>3, <1>4, <1>6, <3>1 DEF Tables, LeasesApproved
    <3>2. CASE l \in work.leases
      BY <1>2, <1>3, <1>4, <1>6, <1>8, <3>2
    <3> QED
      BY <1>7, <3>1, <3>2
  <2> QED
    BY <2>1, <2>2 DEF LeasesApproved
<1>15. ReferencesHold'
  <2>1. row.unit \in units
    BY <1>2 DEF Tables, ReferencesHold
  <2> QED
    BY <1>3, <1>6, <1>7, <1>8, <1>9, <2>1 DEF Tables, ReferencesHold
<1> QED
  BY <1>10, <1>11, <1>12, <1>13, <1>14, <1>15 DEF Tables

\* Inserting a started application.
LEMMA SaveInsertKeeps ==
    ASSUME Tables, NEW work, IsWork(work), SaveInsert(work)
    PROVE  Tables' /\ OwnersStay /\ LeaseStays
<1>1. PICK u \in Units, p \in Applicants : work.row = StartedApplication(u, p)
  BY DEF IsWork, IsChange, IsInsert, IsDelete, SaveInsert
<1>2. PICK a \in ApplicationIds \ issuedApplicationIds :
        /\ applications' = [b \in DOMAIN applications \cup {a} |->
                               IF b = a THEN work.row ELSE applications[b]]
        /\ issuedApplicationIds' = issuedApplicationIds \cup {a}
  BY DEF SaveInsert
<1>3. /\ work.row.unit \in units
      /\ UNCHANGED <<units, residences, issuedResidenceIds, leases, today>>
  BY DEF SaveInsert, CanSaveInsert
<1>4. work.row \in ApplicationRow /\ IsLegal(work.row)
  <2>1. work.row \in ApplicationRow
    BY <1>1, StartedType
  <2>2. /\ Len(work.row.history) = 1
        /\ work.row.history[1].fromStatus = NoStatus
        /\ work.row.history[1].toStatus = "Draft"
        /\ work.row.history[1].changedBy = work.row.applicant
        /\ work.row.status = "Draft"
    BY <1>1 DEF StartedApplication
  <2>3. IsLegal(work.row)
    BY <2>2 DEF IsLegal, IsEntitled, Reviews
  <2> QED
    BY <2>1, <2>3
<1>5. DOMAIN applications \subseteq issuedApplicationIds /\ a \notin DOMAIN applications
  BY <1>2 DEF Tables, TablesTyped
<1>6. /\ DOMAIN applications' = DOMAIN applications \cup {a}
      /\ applications'[a] = work.row
      /\ \A b \in DOMAIN applications : applications'[b] = applications[b]
  BY <1>2, <1>5
<1>7. OwnersStay
  BY <1>2, <1>6 DEF OwnersStay
<1>8. LeaseStays
  BY <1>3, <1>6 DEF LeaseStays, Tables, LeasesApproved
<1>9. TablesTyped'
  <2>1. applications' \in [DOMAIN applications' -> ApplicationRow]
    <3>1. \A b \in DOMAIN applications' : applications'[b] \in ApplicationRow
      BY <1>4, <1>6 DEF Tables, TablesTyped, TypeOK
    <3> QED
      BY <1>2, <1>6, <3>1
  <2> QED
    BY <1>2, <1>3, <1>5, <1>6, <2>1 DEF Tables, TablesTyped, TypeOK
<1>10. TrailsLegal'
  BY <1>4, <1>6 DEF Tables, TrailsLegal
<1>11. LeasesApproved'
  BY <1>3, <1>6 DEF Tables, LeasesApproved
<1>12. ReferencesHold'
  BY <1>3, <1>6 DEF Tables, ReferencesHold
<1> QED
  BY <1>7, <1>8, <1>9, <1>10, <1>11, <1>12 DEF Tables

\* Removing a unit, with its applications, their residences and history: none of
\* them has a lease.
LEMMA SaveDeleteKeeps ==
    ASSUME Tables, NEW work, SaveDelete(work)
    PROVE  Tables' /\ OwnersStay /\ LeaseStays
<1> DEFINE kept == {a \in DOMAIN applications : applications[a].unit # work.unit}
<1>1. /\ applications' = [a \in kept |-> applications[a]]
      /\ residences' = [r \in {q \in DOMAIN residences :
                                  residences[q].application \in kept} |-> residences[r]]
      /\ units' = units \ {work.unit}
      /\ LeasesOf(work.unit) = {}
      /\ UNCHANGED <<issuedResidenceIds, leases, today, issuedApplicationIds>>
  BY DEF SaveDelete, CanSaveDelete
<1>2. \A l \in leases : l.unit # work.unit
  BY <1>1 DEF LeasesOf
<1>3. /\ kept \subseteq DOMAIN applications
      /\ \A a \in kept : applications[a].unit # work.unit
      /\ \A l \in leases : l.application \in kept
  BY <1>2 DEF Tables, LeasesApproved
<1>4. /\ DOMAIN applications' = kept
      /\ \A a \in kept : applications'[a] = applications[a]
  BY <1>1
<1>5. /\ DOMAIN residences' \subseteq DOMAIN residences
      /\ \A r \in DOMAIN residences' : /\ residences'[r] = residences[r]
                                       /\ residences'[r].application \in kept
  BY <1>1
<1> HIDE DEF kept
<1>6. OwnersStay
  BY <1>1, <1>3, <1>4 DEF OwnersStay
<1>7. LeaseStays
  BY <1>1, <1>3, <1>4 DEF LeaseStays
<1>8. TablesTyped'
  <2>1. applications' \in [DOMAIN applications' -> ApplicationRow]
    BY <1>1, <1>3, <1>4 DEF Tables, TablesTyped, TypeOK
  <2>2. residences' \in [DOMAIN residences' -> ResidenceRow]
    <3>1. \A r \in DOMAIN residences' : residences'[r] \in ResidenceRow
      BY <1>5 DEF Tables, TablesTyped, TypeOK
    <3> QED
      BY <1>1, <3>1
  <2> QED
    BY <1>1, <1>3, <1>4, <1>5, <2>1, <2>2 DEF Tables, TablesTyped, TypeOK
<1>9. TrailsLegal'
  BY <1>3, <1>4 DEF Tables, TrailsLegal
<1>10. LeasesApproved'
  BY <1>1, <1>3, <1>4 DEF Tables, LeasesApproved
<1>11. ReferencesHold'
  BY <1>1, <1>2, <1>3, <1>4, <1>5 DEF Tables, ReferencesHold
<1> QED
  BY <1>6, <1>7, <1>8, <1>9, <1>10, <1>11 DEF Tables

\* Whatever a save does keeps the tables.
LEMMA SaveKeeps ==
    ASSUME Tables, NEW work, IsWork(work), StillSuits(work), Save(work)
    PROVE  Tables' /\ OwnersStay /\ LeaseStays
BY SaveApplicationKeeps, SaveInsertKeeps, SaveDeleteKeeps DEF Save

----------------------------------------------------------------------------
(* The requests beside a step *)

\* Work that suits its application goes on to suit it.
LEMMA StaysSuited ==
    ASSUME OwnersStay, NEW work, StillSuits(work)
    PROVE  StillSuits(work)'
BY DEF OwnersStay, StillSuits, Suits

\* Requests that nothing touches stay sound.
LEMMA RequestsStay ==
    ASSUME Inv, OwnersStay, UNCHANGED requests
    PROVE  RequestsSound'
<1>1. ASSUME NEW t \in Slots, requests[t] # Idle
      PROVE  IsRequest(requests[t])'
  <2>1. PICK operation, phase, attempts, work :
           /\ operation \in AllOperations /\ phase \in Phases /\ attempts \in 0..MaxRetries
           /\ requests[t] = [operation |-> operation, phase |-> phase, work |-> work,
                             attempts |-> attempts]
           /\ IsWork(work)
           /\ StillSuits(work)
    BY <1>1 DEF IsRequest, Inv, RequestsSound
  <2>2. StillSuits(work)'
    BY <2>1, StaysSuited
  <2> QED
    BY <2>1, <2>2 DEF IsRequest
<1> QED
  BY <1>1 DEF RequestsSound, Inv

\* A slot takes the next form of its request.
Holds(s) ==
    \E operation, phase, attempts, work :
        /\ operation \in AllOperations /\ phase \in Phases /\ attempts \in 0..MaxRetries
        /\ requests' = [requests EXCEPT ![s] =
               [operation |-> operation, phase |-> phase, work |-> work,
                attempts |-> attempts]]
        /\ IsWork(work)
        /\ StillSuits(work)

\* A step that keeps the tables and changes one slot keeps the invariant.
LEMMA SlotStep ==
    ASSUME Inv, Tables', OwnersStay, NEW s \in Slots,
           Finish(s) \/ Holds(s)
    PROVE  Inv'
<1>1. /\ requests' = [t \in Slots |-> requests'[t]]
      /\ \A t \in Slots : t # s => requests'[t] = requests[t]
  BY DEF Inv, RequestsSound, Finish, Holds
<1>2. ASSUME NEW t \in Slots, requests'[t] = requests[t], requests[t] # Idle
      PROVE  IsRequest(requests[t])'
  <2>1. IsRequest(requests[t])
    BY <1>2 DEF Inv, RequestsSound
  <2>2. PICK operation, phase, attempts, work :
           /\ operation \in AllOperations /\ phase \in Phases /\ attempts \in 0..MaxRetries
           /\ requests[t] = [operation |-> operation, phase |-> phase, work |-> work,
                             attempts |-> attempts]
           /\ IsWork(work)
           /\ StillSuits(work)
    BY <2>1 DEF IsRequest
  <2>3. StillSuits(work)'
    BY <2>2, StaysSuited
  <2> QED
    BY <1>2, <2>2, <2>3 DEF IsRequest
<1>3. requests'[s] # Idle /\ requests'[s] # requests[s] => IsRequest(requests[s])'
  <2> SUFFICES ASSUME requests'[s] # Idle, requests'[s] # requests[s]
               PROVE  IsRequest(requests[s])'
    OBVIOUS
  <2>1. requests = [t \in Slots |-> requests[t]]
    BY DEF Inv, RequestsSound
  <2>2. Holds(s)
    BY <2>1 DEF Finish
  <2>3. PICK operation, phase, attempts, work :
           /\ operation \in AllOperations /\ phase \in Phases /\ attempts \in 0..MaxRetries
           /\ requests' = [requests EXCEPT ![s] =
                  [operation |-> operation, phase |-> phase, work |-> work,
                   attempts |-> attempts]]
           /\ IsWork(work)
           /\ StillSuits(work)
    BY <2>2 DEF Holds
  <2>4. StillSuits(work)'
    BY <2>3, StaysSuited
  <2>5. requests'[s] = [operation |-> operation, phase |-> phase, work |-> work,
                        attempts |-> attempts]
    BY <2>1, <2>3
  <2> QED
    BY <2>3, <2>4, <2>5 DEF IsRequest
<1>4. \A t \in Slots : requests'[t] # Idle => IsRequest(requests[t])'
  BY <1>1, <1>2, <1>3
<1>5. RequestsSound'
  BY <1>1, <1>4 DEF RequestsSound
<1> QED
  BY <1>5 DEF Inv

\* Nobody's application changes hands while the tables stay as they are.
LEMMA TablesStay ==
    ASSUME Tables, UNCHANGED <<vars, issuedApplicationIds>>
    PROVE  Tables' /\ OwnersStay /\ LeaseStays
<1>1. OwnersStay /\ LeaseStays
  BY DEF vars, OwnersStay, LeaseStays, Tables, LeasesApproved
<1>2. TablesTyped'
  BY DEF vars, Tables, TablesTyped, TypeOK
<1>3. TrailsLegal' /\ LeasesApproved' /\ ReferencesHold'
  BY DEF vars, Tables, TrailsLegal, LeasesApproved, ReferencesHold
<1> QED
  BY <1>1, <1>2, <1>3 DEF Tables

\* A request that arrives with such work.
LEMMA BeginKeeps ==
    ASSUME Inv, NEW s \in Slots, NEW operation, NEW phase \in Phases, NEW work,
           IsWork(work), StillSuits(work), Begin(s, operation, phase, work)
    PROVE  Inv' /\ LeaseStays
<1>1. Holds(s)
  <2>1. operation \in AllOperations /\ 0 \in 0..MaxRetries
    BY RequestAssumption DEF Begin
  <2>2. requests' = [requests EXCEPT ![s] =
           [operation |-> operation, phase |-> phase, work |-> work, attempts |-> 0]]
    BY DEF Begin, Request
  <2> QED
    BY <2>1, <2>2, Zenon DEF Holds
<1>2. Tables' /\ OwnersStay /\ LeaseStays
  BY TablesStay DEF Inv, Begin
<1> QED
  BY <1>1, <1>2, SlotStep

\* A request that goes on to its next query or to its save.
LEMMA ProceedKeeps ==
    ASSUME Inv, NEW s \in Slots, requests[s] # Idle, NEW phase \in Phases, Proceed(s, phase)
    PROVE  Inv' /\ LeaseStays
<1>1. IsRequest(requests[s])
  BY DEF Inv, RequestsSound
<1>2. PICK operation, before, attempts, work :
         /\ operation \in AllOperations /\ before \in Phases /\ attempts \in 0..MaxRetries
         /\ requests[s] = [operation |-> operation, phase |-> before, work |-> work,
                           attempts |-> attempts]
         /\ IsWork(work)
         /\ StillSuits(work)
  BY <1>1 DEF IsRequest
<1>3. requests' = [requests EXCEPT ![s] =
         [operation |-> operation, phase |-> phase, work |-> work, attempts |-> attempts]]
  <2>1. [requests[s] EXCEPT !.phase = phase] =
           [operation |-> operation, phase |-> phase, work |-> work, attempts |-> attempts]
    BY <1>2
  <2>2. requests' = [requests EXCEPT ![s] = [requests[s] EXCEPT !.phase = phase]]
    BY DEF Proceed
  <2> QED
    BY <2>1, <2>2
<1>4. Holds(s)
  BY <1>2, <1>3 DEF Holds
<1>5. Tables' /\ OwnersStay /\ LeaseStays
  BY TablesStay DEF Inv, Proceed
<1> QED
  BY <1>4, <1>5, SlotStep

\* A request that ends without a save.
LEMMA RefuseKeeps ==
    ASSUME Inv, NEW s \in Slots, Refuse(s)
    PROVE  Inv' /\ LeaseStays
<1>1. Tables' /\ OwnersStay /\ LeaseStays
  BY TablesStay DEF Inv, Refuse
<1> QED
  BY <1>1, SlotStep DEF Refuse

----------------------------------------------------------------------------
(* What a request decides, as work to save *)

\* The columns to write hold what a row may hold.
LEMMA ChangesWritten ==
    ASSUME NEW loaded, NEW assigned \in ApplicationRow, NEW columns, NEW stamps
    PROVE  /\ AreWrites(Changes(loaded, assigned, columns, stamps))
           /\ \A d : d \in DOMAIN Changes(loaded, assigned, columns, stamps) <=>
                        d \in stamps \/ (d \in columns /\ assigned[d] # loaded[d])
           /\ \A d \in DOMAIN Changes(loaded, assigned, columns, stamps) :
                  Changes(loaded, assigned, columns, stamps)[d] = assigned[d]
BY DEF Changes, AreWrites

\* Writes that leave the status alone.
LEMMA ChangesAside ==
    ASSUME NEW loaded, NEW assigned \in ApplicationRow, NEW columns, NEW stamps,
           "status" \notin columns, "status" \notin stamps
    PROVE  /\ AreWrites(Changes(loaded, assigned, columns, stamps))
           /\ "status" \notin DOMAIN Changes(loaded, assigned, columns, stamps)
BY ChangesWritten

\* An edit: no status, no entry, no lease.
LEMMA EditWork ==
    ASSUME Tables, NEW a \in DOMAIN applications, NEW work,
           work.kind = "Application", work.application = a,
           AreWrites(work.writes), "status" \notin DOMAIN work.writes,
           work.entries = <<>>, work.leases = {}, AreResidences(work)
    PROVE  IsWork(work) /\ StillSuits(work)
<1>1. IsWork(work)
  BY DEF IsWork, IsChange, AreEntries, AreLeases
<1>2. a \in issuedApplicationIds
  BY DEF Tables, TablesTyped
<1>3. Suits(work, applications[a])
  BY DEF Suits
<1> QED
  BY <1>1, <1>2, <1>3 DEF StillSuits

\* The row moves, and the one who moves it is entitled to.
IsEntitledMove(before, after) ==
    \E to \in ApplicationStatus, user \in Users, c \in Comments \cup {NoText} :
        /\ IsMove(before, after, to, user, c)
        /\ IF to \in Reviews
           THEN user \in Managers /\ (to # "Approved" => c \in Comments)
           ELSE user = before.applicant

\* Submissions, withdrawals and reviews are such moves.
LEMMA EntitledMoves ==
    ASSUME NEW before \in ApplicationRow, NEW after,
           IsSubmission(before, after) \/ IsWithdrawal(before, after)
              \/ IsReview(before, after)
    PROVE  IsEntitledMove(before, after)
<1>1. before.applicant \in Users /\ before.applicant \in Applicants
  BY DEF ApplicationRow, Users
<1>2. CASE IsSubmission(before, after)
  <2>1. IsMove(before, after, "Submitted", before.applicant, NoText)
    BY <1>2, SubmissionMoves
  <2> QED
    BY <1>1, <2>1 DEF IsEntitledMove, Reviews, ApplicationStatus
<1>3. CASE IsWithdrawal(before, after)
  <2>1. \E c \in Comments \cup {NoText} :
           IsMove(before, after, "Withdrawn", before.applicant, c)
    BY <1>3, WithdrawalMoves
  <2> QED
    BY <1>1, <2>1 DEF IsEntitledMove, Reviews, ApplicationStatus
<1>4. CASE IsReview(before, after)
  <2>1. PICK m \in Managers, to \in {"Approved", "Returned", "Denied"},
             c \in Comments \cup {NoText} :
           /\ IsMove(before, after, to, m, c)
           /\ to # "Approved" => c \in Comments
    BY <1>4, ReviewMoves
  <2> QED
    BY <2>1 DEF IsEntitledMove, Reviews, ApplicationStatus, Users
<1> QED
  BY <1>2, <1>3, <1>4

\* A transition: the status with its entry, and the lease of an approval.
LEMMA MoveWork ==
    ASSUME Tables, NEW a \in DOMAIN applications, NEW after \in ApplicationRow,
           IsEntitledMove(applications[a], after), NEW work,
           work.kind = "Application", work.application = a,
           work.writes = Changes(applications[a], after, {"status", "reviewComment"}, {}),
           work.entries = << after.history[Len(after.history)] >>,
           work.leases # {} =>
              /\ after.status = "Approved"
              /\ \E l \in LeaseRow : /\ work.leases = {l}
                                     /\ l.application = a
                                     /\ l.unit = applications[a].unit
                                     /\ l.tenant = applications[a].applicant,
           AreResidences(work)
    PROVE  IsWork(work) /\ StillSuits(work)
<1> DEFINE row == applications[a]
<1>1. row \in ApplicationRow /\ a \in issuedApplicationIds
  BY DEF Tables, TablesTyped, TypeOK
<1>2. PICK to \in ApplicationStatus, user \in Users, c \in Comments \cup {NoText} :
        /\ IsMove(row, after, to, user, c)
        /\ IF to \in Reviews
           THEN user \in Managers /\ (to # "Approved" => c \in Comments)
           ELSE user = row.applicant
  BY DEF IsEntitledMove
<1> DEFINE entry == [fromStatus |-> row.status, toStatus |-> to,
                     changedBy |-> user, comment |-> c]
<1>3. /\ after.status = to
      /\ after.history = Append(row.history, entry)
      /\ CanTransition(row.status, to)
  BY <1>2 DEF IsMove
<1>4. entry \in HistoryRow
  BY <1>1 DEF HistoryRow, ApplicationRow
<1>5. after.history[Len(after.history)] = entry
  BY <1>1, <1>3, <1>4 DEF ApplicationRow
<1>6. IsEntitled(entry, row.applicant)
  BY <1>2 DEF IsEntitled
<1>7. /\ entry.fromStatus = row.status
      /\ entry.toStatus = to
  OBVIOUS
<1> HIDE DEF entry
<1>8. row.status # to
  BY <1>1, <1>3 DEF CanTransition, Transitions, ApplicationStatus
<1>9. /\ AreWrites(work.writes)
      /\ "status" \in DOMAIN work.writes
      /\ work.writes["status"] = to
  <2> DEFINE columns == {"status", "reviewComment"}
             changes == Changes(row, after, columns, {})
  <2>1. /\ AreWrites(changes)
        /\ \A d : d \in DOMAIN changes <=> d \in {} \/ (d \in columns /\ after[d] # row[d])
        /\ \A d \in DOMAIN changes : changes[d] = after[d]
    BY ChangesWritten
  <2>2. "status" \in columns /\ after["status"] = to /\ row["status"] # to
    BY <1>3, <1>8
  <2>3. work.writes = changes
    OBVIOUS
  <2> HIDE DEF changes, columns
  <2> QED
    BY <2>1, <2>2, <2>3
<1>10. AreEntries(work.entries, work.writes)
  BY <1>3, <1>4, <1>5, <1>7, <1>9 DEF AreEntries
<1>11. AreLeases(work.leases, work.entries, a)
  BY <1>3, <1>4, <1>5, <1>7 DEF AreLeases
<1>12. IsWork(work)
  BY <1>9, <1>10, <1>11 DEF IsWork, IsChange
<1>13. Suits(work, row)
  <2>1. \A l \in work.leases : l.unit = row.unit /\ l.tenant = row.applicant
    OBVIOUS
  <2>2. \A i \in 1..Len(work.entries) : work.entries[i] = entry
    BY <1>5
  <2> QED
    BY <1>6, <2>1, <2>2 DEF Suits
<1> QED
  BY <1>1, <1>12, <1>13 DEF StillSuits

----------------------------------------------------------------------------
(* The queries of each handler *)

\* Work on an application holds its columns and no row of another table.
LEMMA WorkFields ==
    ASSUME NEW a, NEW writes
    PROVE  /\ Work(a, writes).kind = "Application"
           /\ Work(a, writes).application = a
           /\ Work(a, writes).writes = writes
           /\ Work(a, writes).entries = <<>>
           /\ Work(a, writes).leases = {}
           /\ AreResidences(Work(a, writes))
<1>1. DOMAIN NoResidences = {}
  BY DEF NoResidences
<1>2. IsFiniteSet({})
  BY FS_EmptySet
<1> QED
  BY <1>1, <1>2 DEF Work, AreResidences

\* No column to write.
LEMMA NothingWritten ==
    ASSUME Tables, NEW a \in DOMAIN applications
    PROVE  AreWrites(NoWrites) /\ "status" \notin DOMAIN NoWrites
<1>1. DOMAIN NoWrites = {}
  BY DEF NoWrites
<1>2. applications[a] \in ApplicationRow
  BY DEF Tables, TablesTyped, TypeOK
<1> QED
  BY <1>1, <1>2 DEF AreWrites

\* StartAsync.
LEMMA StartKeeps ==
    ASSUME Inv, NEW s \in Slots, NEW u \in Units, NEW p \in Applicants,
           StartQuery(s, u, p)
    PROVE  Inv' /\ LeaseStays
<1> DEFINE work == Insert(StartedApplication(u, p))
<1>1. IsWork(work) /\ StillSuits(work)
  BY DEF Insert, IsWork, IsInsert, StillSuits
<1>2. Begin(s, "Start", "OpenChecked", work)
  BY DEF StartQuery
<1> HIDE DEF work
<1> QED
  BY <1>1, <1>2, BeginKeeps DEF Phases

\* SaveApplicantInformationAsync.
LEMMA LoadApplicantInformationKeeps ==
    ASSUME Inv, NEW s \in Slots, NEW a, NEW p \in Applicants,
           NEW i \in Answers \cup {Incomplete}, LoadApplicantInformation(s, a, p, i)
    PROVE  Inv' /\ LeaseStays
<1> DEFINE row    == applications[a]
           filled == [row EXCEPT !.information = i, !.informationCompleted = TRUE]
           writes == Changes(row, filled, {"information"}, {"informationCompleted"})
           work   == Work(a, writes)
<1>1. a \in DOMAIN applications /\ i \in Answers
  BY DEF LoadApplicantInformation, LoadOwnedEditable, OwnedBy
<1>2. filled \in ApplicationRow
  BY <1>1 DEF Inv, Tables, TablesTyped, TypeOK, ApplicationRow
<1>3. Begin(s, "SaveApplicantInformation", "Saving", work)
  BY DEF LoadApplicantInformation
<1> HIDE DEF filled
<1>4. AreWrites(writes) /\ "status" \notin DOMAIN writes
  <2>1. "status" \notin {"information"} /\ "status" \notin {"informationCompleted"}
    OBVIOUS
  <2> QED
    BY <1>2, <2>1, ChangesAside, Zenon
<1> HIDE DEF writes
<1>5. IsWork(work) /\ StillSuits(work)
  BY <1>1, <1>4, WorkFields, EditWork DEF Inv
<1> HIDE DEF work
<1> QED
  BY <1>3, <1>5, BeginKeeps DEF Phases

\* CompleteResidenceHistoryAsync.
LEMMA LoadResidenceHistoryKeeps ==
    ASSUME Inv, NEW s \in Slots, NEW a, NEW p \in Applicants, LoadResidenceHistory(s, a, p)
    PROVE  Inv' /\ LeaseStays
<1> DEFINE row     == applications[a]
           stamped == [row EXCEPT !.residencesCompleted = TRUE]
           writes  == Changes(row, stamped, {}, {"residencesCompleted"})
           work    == Work(a, writes)
<1>1. a \in DOMAIN applications
  BY DEF LoadResidenceHistory, LoadOwnedEditable, OwnedBy
<1>2. stamped \in ApplicationRow
  BY <1>1 DEF Inv, Tables, TablesTyped, TypeOK, ApplicationRow
<1>3. Begin(s, "CompleteResidenceHistory", "Saving", work)
  BY DEF LoadResidenceHistory
<1> HIDE DEF stamped
<1>4. AreWrites(writes) /\ "status" \notin DOMAIN writes
  <2>1. "status" \notin {} /\ "status" \notin {"residencesCompleted"}
    OBVIOUS
  <2> QED
    BY <1>2, <2>1, ChangesAside, Zenon
<1> HIDE DEF writes
<1>5. IsWork(work) /\ StillSuits(work)
  BY <1>1, <1>4, WorkFields, EditWork DEF Inv
<1> HIDE DEF work
<1> QED
  BY <1>3, <1>5, BeginKeeps DEF Phases

\* A residence as a form describes it.
LEMMA RowForType ==
    ASSUME NEW a \in ApplicationIds, NEW input \in ResidenceInputs
    PROVE  RowFor(a, input) \in ResidenceRow /\ RowFor(a, input).application = a
BY SeedAssumption DEF RowFor, ResidenceRow

\* AddResidenceAsync.
LEMMA LoadToAddResidenceKeeps ==
    ASSUME Inv, NEW s \in Slots, NEW a \in ApplicationIds, NEW p \in Applicants,
           NEW input \in ResidenceInputs, LoadToAddResidence(s, a, p, input)
    PROVE  Inv' /\ LeaseStays
<1> DEFINE work == [Work(a, NoWrites) EXCEPT !.inserted = {RowFor(a, input)}]
<1>1. a \in DOMAIN applications
  BY DEF LoadToAddResidence, LoadOwnedEditable, OwnedBy
<1>2. Begin(s, "AddResidence", "Saving", work)
  BY DEF LoadToAddResidence
<1>3. /\ work.kind = "Application" /\ work.application = a /\ work.writes = NoWrites
      /\ work.entries = <<>> /\ work.leases = {}
      /\ work.inserted = {RowFor(a, input)} /\ work.updated = NoResidences
  BY DEF Work
<1> HIDE DEF work
<1>4. AreResidences(work)
  <2>1. IsFiniteSet(work.inserted)
    BY <1>3, FS_Singleton
  <2>2. DOMAIN work.updated = {}
    BY <1>3 DEF NoResidences
  <2> QED
    BY <1>3, <2>1, <2>2, RowForType DEF AreResidences
<1>5. IsWork(work) /\ StillSuits(work)
  BY <1>1, <1>3, <1>4, NothingWritten, EditWork DEF Inv
<1> QED
  BY <1>2, <1>5, BeginKeeps DEF Phases

\* UpdateResidenceAsync.
LEMMA LoadToUpdateResidenceKeeps ==
    ASSUME Inv, NEW s \in Slots, NEW a \in ApplicationIds, NEW p \in Applicants,
           NEW r, NEW input \in ResidenceInputs, LoadToUpdateResidence(s, a, p, r, input)
    PROVE  Inv' /\ LeaseStays
<1> DEFINE changed == {r} \ {x \in {r} : residences[x] = RowFor(a, input)}
           rows    == [q \in changed |-> RowFor(a, input)]
           work    == [Work(a, NoWrites) EXCEPT !.updated = rows]
<1>1. a \in DOMAIN applications
  BY DEF LoadToUpdateResidence, LoadOwnedEditable, OwnedBy
<1>2. Begin(s, "UpdateResidence", "Saving", work)
  BY DEF LoadToUpdateResidence
<1> HIDE DEF changed
<1>3. \A q \in DOMAIN rows : rows[q] = RowFor(a, input)
  OBVIOUS
<1> HIDE DEF rows
<1>4. /\ work.kind = "Application" /\ work.application = a /\ work.writes = NoWrites
      /\ work.entries = <<>> /\ work.leases = {}
      /\ work.inserted = {} /\ work.updated = rows
  BY DEF Work
<1> HIDE DEF work
<1>5. AreResidences(work)
  <2>1. IsFiniteSet(work.inserted)
    BY <1>4, FS_EmptySet
  <2> QED
    BY <1>3, <1>4, <2>1, RowForType DEF AreResidences
<1>6. IsWork(work) /\ StillSuits(work)
  BY <1>1, <1>4, <1>5, NothingWritten, EditWork DEF Inv
<1> QED
  BY <1>2, <1>6, BeginKeeps DEF Phases

\* RemoveResidenceAsync.
LEMMA LoadToRemoveResidenceKeeps ==
    ASSUME Inv, NEW s \in Slots, NEW a, NEW p \in Applicants, NEW r,
           LoadToRemoveResidence(s, a, p, r)
    PROVE  Inv' /\ LeaseStays
<1> DEFINE row     == applications[a]
           emptied == [row EXCEPT !.residencesCompleted =
                          IF ResidencesOf(a) = {r} THEN FALSE ELSE @]
           writes  == Changes(row, emptied, {"residencesCompleted"}, {})
           work    == [Work(a, writes) EXCEPT !.deleted = {r}]
<1>1. a \in DOMAIN applications
  BY DEF LoadToRemoveResidence, LoadOwnedEditable, OwnedBy
<1>2. emptied \in ApplicationRow
  BY <1>1 DEF Inv, Tables, TablesTyped, TypeOK, ApplicationRow
<1>3. Begin(s, "RemoveResidence", "Saving", work)
  BY DEF LoadToRemoveResidence
<1> HIDE DEF emptied
<1>4. AreWrites(writes) /\ "status" \notin DOMAIN writes
  <2>1. "status" \notin {"residencesCompleted"} /\ "status" \notin {}
    OBVIOUS
  <2> QED
    BY <1>2, <2>1, ChangesAside, Zenon
<1> HIDE DEF writes
<1>5. /\ work.kind = "Application" /\ work.application = a /\ work.writes = writes
      /\ work.entries = <<>> /\ work.leases = {}
      /\ work.inserted = {} /\ work.updated = NoResidences
  BY DEF Work
<1> HIDE DEF work
<1>6. AreResidences(work)
  <2>1. IsFiniteSet(work.inserted)
    BY <1>5, FS_EmptySet
  <2>2. DOMAIN work.updated = {}
    BY <1>5 DEF NoResidences
  <2> QED
    BY <1>5, <2>1, <2>2 DEF AreResidences
<1>7. IsWork(work) /\ StillSuits(work)
  BY <1>1, <1>4, <1>5, <1>6, EditWork DEF Inv
<1> QED
  BY <1>3, <1>7, BeginKeeps DEF Phases

\* SaveManagerNotesAsync.
LEMMA LoadToSaveNotesKeeps ==
    ASSUME Inv, NEW s \in Slots, NEW a, NEW n \in Field(Notes), LoadToSaveNotes(s, a, n)
    PROVE  Inv' /\ LeaseStays
<1> DEFINE row    == applications[a]
           noted  == [row EXCEPT !.managerNotes = Trimmed(n)]
           writes == Changes(row, noted, {"managerNotes"}, {})
           work   == Work(a, writes)
<1>1. a \in DOMAIN applications
  BY DEF LoadToSaveNotes
<1>2. noted \in ApplicationRow
  BY <1>1, TrimmedType DEF Inv, Tables, TablesTyped, TypeOK, ApplicationRow
<1>3. Begin(s, "SaveManagerNotes", "Saving", work)
  BY DEF LoadToSaveNotes
<1> HIDE DEF noted
<1>4. AreWrites(writes) /\ "status" \notin DOMAIN writes
  <2>1. "status" \notin {"managerNotes"} /\ "status" \notin {}
    OBVIOUS
  <2> QED
    BY <1>2, <2>1, ChangesAside, Zenon
<1> HIDE DEF writes
<1>5. IsWork(work) /\ StillSuits(work)
  BY <1>1, <1>4, WorkFields, EditWork DEF Inv
<1> HIDE DEF work
<1> QED
  BY <1>3, <1>5, BeginKeeps DEF Phases

\* DeleteUnitAsync.
LEMMA DeleteUnitQueryKeeps ==
    ASSUME Inv, NEW s \in Slots, NEW u, DeleteUnitQuery(s, u)
    PROVE  Inv' /\ LeaseStays
<1> DEFINE work == Delete(u)
<1>1. IsWork(work) /\ StillSuits(work)
  BY DEF Delete, IsWork, IsDelete, StillSuits
<1>2. Begin(s, "DeleteUnit", "UnitLoaded", work)
  BY DEF DeleteUnitQuery
<1> HIDE DEF work
<1> QED
  BY <1>1, <1>2, BeginKeeps DEF Phases

\* The work of a transition holds the status, the comment and the entry.
LEMMA TransitionFields ==
    ASSUME NEW a, NEW after
    PROVE  /\ TransitionWork(a, after).kind = "Application"
           /\ TransitionWork(a, after).application = a
           /\ TransitionWork(a, after).writes =
                  Changes(applications[a], after, {"status", "reviewComment"}, {})
           /\ TransitionWork(a, after).entries = << after.history[Len(after.history)] >>
           /\ TransitionWork(a, after).leases = {}
           /\ AreResidences(TransitionWork(a, after))
<1> DEFINE writes  == Changes(applications[a], after, {"status", "reviewComment"}, {})
           entries == << after.history[Len(after.history)] >>
           work    == [Work(a, writes) EXCEPT !.entries = entries]
<1>1. TransitionWork(a, after) = work
  BY DEF TransitionWork
<1> HIDE DEF writes, entries
<1>2. /\ work.kind = "Application" /\ work.application = a /\ work.writes = writes
      /\ work.entries = entries /\ work.leases = {}
      /\ work.inserted = {} /\ work.updated = NoResidences
  BY DEF Work
<1>3. IsFiniteSet({}) /\ DOMAIN NoResidences = {}
  BY FS_EmptySet DEF NoResidences
<1> HIDE DEF work
<1>4. AreResidences(work)
  BY <1>2, <1>3 DEF AreResidences
<1> QED
  BY <1>1, <1>2, <1>4 DEF writes, entries

\* A transition without a lease.
LEMMA PlainMove ==
    ASSUME Tables, NEW a \in DOMAIN applications, NEW after \in ApplicationRow,
           IsEntitledMove(applications[a], after)
    PROVE  IsWork(TransitionWork(a, after)) /\ StillSuits(TransitionWork(a, after))
<1> DEFINE work == TransitionWork(a, after)
<1>1. /\ work.kind = "Application"
      /\ work.application = a
      /\ work.writes = Changes(applications[a], after, {"status", "reviewComment"}, {})
      /\ work.entries = << after.history[Len(after.history)] >>
      /\ work.leases = {}
      /\ AreResidences(work)
  BY TransitionFields
<1> HIDE DEF work
<1>2. IsWork(work) /\ StillSuits(work)
  BY <1>1, MoveWork
<1> QED
  BY <1>2 DEF work

\* SubmitAsync.
LEMMA LoadToSubmitKeeps ==
    ASSUME Inv, NEW s \in Slots, NEW a, NEW p \in Applicants, LoadToSubmit(s, a, p)
    PROVE  Inv' /\ LeaseStays
<1> DEFINE row   == applications[a]
           after == [TransitionTo(row, "Submitted", p, NoText) EXCEPT !.reviewComment = NoText]
           work  == TransitionWork(a, after)
<1>1. a \in DOMAIN applications /\ p = row.applicant
  BY DEF LoadToSubmit, OwnedBy, IsOwnedBy
<1>2. row \in ApplicationRow
  BY <1>1 DEF Inv, Tables, TablesTyped, TypeOK
<1>3. after \in ApplicationRow
  BY <1>2, SubmittedType
<1>4. IsSubmission(row, after)
  BY <1>1 DEF LoadToSubmit, IsSubmission
<1>5. Begin(s, "Submit", "Saving", work)
  BY DEF LoadToSubmit
<1> HIDE DEF after
<1>6. IsWork(work) /\ StillSuits(work)
  BY <1>1, <1>2, <1>3, <1>4, EntitledMoves, PlainMove DEF Inv
<1> HIDE DEF work
<1> QED
  BY <1>5, <1>6, BeginKeeps DEF Phases

\* WithdrawAsync.
LEMMA LoadToWithdrawKeeps ==
    ASSUME Inv, NEW s \in Slots, NEW a, NEW p \in Applicants,
           NEW c \in Field(Comments), LoadToWithdraw(s, a, p, c)
    PROVE  Inv' /\ LeaseStays
<1> DEFINE row   == applications[a]
           after == TransitionTo(row, "Withdrawn", p, c)
           work  == TransitionWork(a, after)
<1>1. a \in DOMAIN applications /\ p = row.applicant
  BY DEF LoadToWithdraw, OwnedBy, IsOwnedBy
<1>2. row \in ApplicationRow
  BY <1>1 DEF Inv, Tables, TablesTyped, TypeOK
<1>3. after \in ApplicationRow
  BY <1>2, TransitionType DEF Users, ApplicationStatus
<1>4. IsWithdrawal(row, after)
  BY <1>1 DEF LoadToWithdraw, IsWithdrawal
<1>5. Begin(s, "Withdraw", "Saving", work)
  BY DEF LoadToWithdraw
<1> HIDE DEF after
<1>6. IsWork(work) /\ StillSuits(work)
  BY <1>1, <1>2, <1>3, <1>4, EntitledMoves, PlainMove DEF Inv
<1> HIDE DEF work
<1> QED
  BY <1>5, <1>6, BeginKeeps DEF Phases

\* ReviewAsync with the outcome Approve: the lease goes with the transition.
LEMMA LoadToApproveKeeps ==
    ASSUME Inv, NEW s \in Slots, NEW a \in ApplicationIds, NEW m \in Managers,
           NEW d \in Days, NEW c \in Field(Comments), LoadToApprove(s, a, m, d, c)
    PROVE  Inv' /\ LeaseStays
<1> DEFINE row   == applications[a]
           after == Reviewed(row, "Approve", m, c)
           lease == IssuedLease(a, row, d)
           move  == TransitionWork(a, after)
           work  == [move EXCEPT !.leases = {lease}]
<1>1. a \in DOMAIN applications /\ "Approve" \in ReviewOutcome
  BY DEF LoadToApprove, ReviewOutcome
<1>2. row \in ApplicationRow
  BY <1>1 DEF Inv, Tables, TablesTyped, TypeOK
<1>3. after \in ApplicationRow
  BY <1>1, <1>2, ReviewedType
<1>4. IsEntitledMove(row, after)
  <2>1. ~RequiresComment("Approve")
    BY DEF RequiresComment
  <2>2. IsReview(row, after)
    BY <1>1, <2>1 DEF LoadToApprove, IsReview
  <2> QED
    BY <1>2, <2>2, EntitledMoves
<1>5. after.status = "Approved"
  <2>1. ToStatus["Approve"] = "Approved"
    BY DEF ToStatus
  <2>2. /\ TransitionTo(row, "Approved", m, c) \in ApplicationRow
        /\ TransitionTo(row, "Approved", m, c).status = "Approved"
    BY <1>2, TransitionType DEF Users, ApplicationStatus
  <2>3. after = [TransitionTo(row, "Approved", m, c) EXCEPT !.reviewComment = Trimmed(c)]
    BY <2>1 DEF Reviewed
  <2> QED
    BY <2>2, <2>3 DEF ApplicationRow
<1>6. /\ lease \in LeaseRow /\ lease.application = a
      /\ lease.unit = row.unit /\ lease.tenant = row.applicant
  BY <1>2, CalendarAssumption DEF IssuedLease, LeaseRow, ApplicationRow
<1>7. Begin(s, "Approve", "Saving", work)
  BY DEF LoadToApprove
<1> HIDE DEF after, lease
<1>8. /\ move.kind = "Application"
      /\ move.application = a
      /\ move.writes = Changes(row, after, {"status", "reviewComment"}, {})
      /\ move.entries = << after.history[Len(after.history)] >>
      /\ AreResidences(move)
  BY TransitionFields
<1>9. DOMAIN move = {"kind", "application", "writes", "entries", "leases", "inserted",
                     "updated", "deleted"}
  BY DEF TransitionWork, Work
<1> HIDE DEF move
<1>10. /\ work.kind = "Application" /\ work.application = a /\ work.leases = {lease}
       /\ work.writes = move.writes /\ work.entries = move.entries
       /\ work.inserted = move.inserted /\ work.updated = move.updated
  BY <1>8, <1>9
<1> HIDE DEF work
<1>11. AreResidences(work)
  BY <1>8, <1>10 DEF AreResidences
<1>12. IsWork(work) /\ StillSuits(work)
  BY <1>1, <1>3, <1>4, <1>5, <1>6, <1>8, <1>10, <1>11, MoveWork DEF Inv
<1> QED
  BY <1>7, <1>12, BeginKeeps DEF Phases

\* ReviewAsync with the outcomes Return and Deny.
LEMMA LoadToRejectKeeps ==
    ASSUME Inv, NEW s \in Slots, NEW a, NEW m \in Managers,
           NEW o \in {"Return", "Deny"}, NEW c \in Field(Comments),
           LoadToReject(s, a, m, o, c)
    PROVE  Inv' /\ LeaseStays
<1> DEFINE row   == applications[a]
           after == Reviewed(row, o, m, c)
           work  == TransitionWork(a, after)
<1>1. a \in DOMAIN applications /\ o \in ReviewOutcome
  BY DEF LoadToReject, ReviewOutcome
<1>2. row \in ApplicationRow
  BY <1>1 DEF Inv, Tables, TablesTyped, TypeOK
<1>3. after \in ApplicationRow
  BY <1>1, <1>2, ReviewedType
<1>4. IsReview(row, after)
  BY <1>1 DEF LoadToReject, IsReview
<1>5. Begin(s, o, "Saving", work)
  BY DEF LoadToReject
<1> HIDE DEF after
<1>6. IsWork(work) /\ StillSuits(work)
  BY <1>1, <1>2, <1>3, <1>4, EntitledMoves, PlainMove DEF Inv
<1> HIDE DEF work
<1> QED
  BY <1>5, <1>6, BeginKeeps DEF Phases

\* The transaction commits, answered or not.
LEMMA CommitKeeps ==
    ASSUME Inv, NEW s \in Slots, Commit(s) \/ CommitUnanswered(s)
    PROVE  Inv' /\ LeaseStays
<1>1. requests[s] # Idle /\ Save(requests[s].work)
  BY DEF Commit, CommitUnanswered, Saving, InPhase, WorkOf
<1>2. IsRequest(requests[s])
  BY <1>1 DEF Inv, RequestsSound
<1>3. PICK operation, phase, attempts, work :
         /\ operation \in AllOperations /\ phase \in Phases /\ attempts \in 0..MaxRetries
         /\ requests[s] = [operation |-> operation, phase |-> phase, work |-> work,
                           attempts |-> attempts]
         /\ IsWork(work)
         /\ StillSuits(work)
  BY <1>2 DEF IsRequest
<1>4. requests[s].work = work /\ requests[s].attempts = attempts
  BY <1>3
<1>5. Tables' /\ OwnersStay /\ LeaseStays
  BY <1>1, <1>3, <1>4, SaveKeeps DEF Inv
<1>6. CASE Commit(s)
  BY <1>5, <1>6, SlotStep DEF Commit
<1>7. CASE CommitUnanswered(s)
  <2>1. attempts + 1 \in 0..MaxRetries
    <3>1. attempts \in 0..MaxRetries /\ attempts < MaxRetries
      BY <1>3, <1>4, <1>7 DEF CommitUnanswered
    <3> QED
      BY <3>1, RequestAssumption
  <2>2. [requests[s] EXCEPT !.attempts = @ + 1] =
           [operation |-> operation, phase |-> phase, work |-> work,
            attempts |-> attempts + 1]
    BY <1>3
  <2>3. requests' = [requests EXCEPT ![s] =
           [operation |-> operation, phase |-> phase, work |-> work,
            attempts |-> attempts + 1]]
    BY <1>7, <2>2 DEF CommitUnanswered
  <2>4. Holds(s)
    BY <1>3, <2>1, <2>3, Zenon DEF Holds
  <2> QED
    BY <1>5, <2>4, SlotStep
<1> QED
  BY <1>6, <1>7

\* A day passes.
LEMMA ClockKeeps ==
    ASSUME Inv, Clock
    PROVE  Inv' /\ LeaseStays
<1>1. /\ today' \in Days
      /\ UNCHANGED <<units, applications, residences, issuedResidenceIds, leases,
                     requests, issuedApplicationIds>>
  BY DEF Clock, DayPasses, requestVars
<1>2. OwnersStay /\ LeaseStays
  BY <1>1 DEF OwnersStay, LeaseStays, Inv, Tables, LeasesApproved
<1>3. TablesTyped'
  BY <1>1 DEF Inv, Tables, TablesTyped, TypeOK
<1>4. TrailsLegal' /\ LeasesApproved' /\ ReferencesHold'
  BY <1>1 DEF Inv, Tables, TrailsLegal, LeasesApproved, ReferencesHold
<1>5. RequestsSound'
  BY <1>1, <1>2, RequestsStay
<1> QED
  BY <1>2, <1>3, <1>4, <1>5 DEF Inv, Tables

----------------------------------------------------------------------------
(* The theorems *)

\* Every step keeps the invariant, and every lease.
LEMMA ConcurrentStep == Inv /\ [ConcurrentNext]_allVars => Inv' /\ LeaseStays
<1> SUFFICES ASSUME Inv, [ConcurrentNext]_allVars PROVE Inv' /\ LeaseStays
  OBVIOUS
<1>1. ASSUME NEW s \in Slots, NEW p \in Applicants, ApplicantArrives(s, p)
      PROVE  Inv' /\ LeaseStays
  BY <1>1, StartKeeps, LoadApplicantInformationKeeps, LoadResidenceHistoryKeeps,
     LoadToAddResidenceKeeps, LoadToUpdateResidenceKeeps, LoadToRemoveResidenceKeeps,
     LoadToSubmitKeeps, LoadToWithdrawKeeps DEF ApplicantArrives
<1>2. ASSUME NEW s \in Slots, NEW m \in Managers, ManagerArrives(s, m)
      PROVE  Inv' /\ LeaseStays
  BY <1>2, LoadToApproveKeeps, LoadToRejectKeeps, LoadToSaveNotesKeeps,
     DeleteUnitQueryKeeps DEF ManagerArrives
<1>3. ASSUME NEW s \in Slots, Advance(s)
      PROVE  Inv' /\ LeaseStays
  <2>1. CASE StartLoadUnit(s)
    BY <2>1, ProceedKeeps, RefuseKeeps DEF StartLoadUnit, InPhase, Phases
  <2>2. CASE DeleteCheckLeases(s)
    BY <2>2, ProceedKeeps, RefuseKeeps DEF DeleteCheckLeases, InPhase, Phases
  <2>3. CASE DeleteCheckApplications(s)
    BY <2>3, ProceedKeeps, RefuseKeeps DEF DeleteCheckApplications, InPhase, Phases
  <2>4. CASE Commit(s)
    BY <2>4, CommitKeeps
  <2>5. CASE SaveFails(s)
    BY <2>5, RefuseKeeps DEF SaveFails
  <2> QED
    BY <1>3, <2>1, <2>2, <2>3, <2>4, <2>5 DEF Advance
<1>4. ASSUME NEW s \in Slots, CommitUnanswered(s)
      PROVE  Inv' /\ LeaseStays
  BY <1>4, CommitKeeps
<1>5. ASSUME NEW s \in Slots, Abandon(s)
      PROVE  Inv' /\ LeaseStays
  BY <1>5, RefuseKeeps DEF Abandon
<1>6. CASE Clock
  BY <1>6, ClockKeeps
<1>7. CASE UNCHANGED allVars
  <2>1. UNCHANGED <<vars, issuedApplicationIds>> /\ UNCHANGED requests
    BY <1>7 DEF allVars, requestVars
  <2>2. Tables' /\ OwnersStay /\ LeaseStays
    BY <2>1, TablesStay DEF Inv
  <2>3. RequestsSound'
    BY <2>1, <2>2, RequestsStay
  <2> QED
    BY <2>2, <2>3 DEF Inv
<1> QED
  BY <1>1, <1>2, <1>3, <1>4, <1>5, <1>6, <1>7 DEF ConcurrentNext

\* The invariant holds throughout.
LEMMA InvHolds == ConcurrentSpec => []Inv
<1>1. ConcurrentInit => Inv
  BY InitInv
<1>2. Inv /\ [ConcurrentNext]_allVars => Inv'
  BY ConcurrentStep
<1> QED
  BY <1>1, <1>2, PTL DEF ConcurrentSpec

\* The tables and the requests keep their types however many requests overlap,
\* and no id is in use that has not been handed out.
THEOREM ConcurrentTypesHold == ConcurrentSpec => []ConcurrentTypeOK
<1>1. Inv => ConcurrentTypeOK
  BY InvImplies
<1> QED
  BY <1>1, InvHolds, PTL

\* However many managers approve at once, and whatever is sent twice, no
\* application has two leases, and no lease stands without the entry of its
\* approval (ReviewAsync, the unique index on Leases.RentalApplicationId).
THEOREM ApprovalsStayOnRecord == ConcurrentSpec => []LeaseHasItsApproval
<1>1. Inv => LeaseHasItsApproval
  BY InvImplies
<1> QED
  BY <1>1, InvHolds, PTL

\* A save decided on a row that has changed since still leaves only entries the
\* state machine allows, made by those entitled to them, the last of which names
\* the status (RentalApplication.TransitionTo).
THEOREM EntriesStayLegal == ConcurrentSpec => []EntriesAreLegal
<1>1. Inv => EntriesAreLegal
  BY InvImplies
<1> QED
  BY <1>1, InvHolds, PTL

\* No row refers to a row that is gone, although units are removed while requests
\* about them are under way (the foreign keys of ApplicationDbContext).
THEOREM ReferencesStayWhole == ConcurrentSpec => []ReferencesHold
<1>1. Inv => ReferencesHold
  BY DEF Inv, Tables
<1> QED
  BY <1>1, InvHolds, PTL

\* No request makes a lease disappear, nor the application it was issued for.
THEOREM LeasesAreKept == ConcurrentSpec => LeasesStay
<1>1. Inv /\ [ConcurrentNext]_allVars => LeaseStays
  BY ConcurrentStep
<1> QED
  BY <1>1, InvHolds, PTL DEF ConcurrentSpec, LeasesStay

----------------------------------------------------------------------------
(* Requests end *)

\* A step of another request, or of none, leaves a request as it is; an answer that
\* is lost leaves it where it was.
LEMMA OthersLeaveIt ==
    ASSUME Inv, NEW s \in Slots, requests[s] # Idle, [ConcurrentNext]_allVars, ~Advance(s)
    PROVE  requests'[s] = Idle \/ requests'[s].phase = requests[s].phase
<1>1. requests = [t \in Slots |-> requests[t]] /\ IsRequest(requests[s])
  BY DEF Inv, RequestsSound
<1>2. ASSUME NEW t \in Slots, t # s, NEW request, requests' = [requests EXCEPT ![t] = request]
      PROVE  requests'[s] = requests[s]
  BY <1>1, <1>2
<1>3. ASSUME NEW t \in Slots, NEW operation, NEW phase, NEW work,
             Begin(t, operation, phase, work)
      PROVE  requests'[s] = requests[s]
  BY <1>2, <1>3 DEF Begin
<1>4. ASSUME NEW t \in Slots, t # s, Finish(t) \/ \E phase : Proceed(t, phase)
      PROVE  requests'[s] = requests[s]
  BY <1>1, <1>4 DEF Finish, Proceed
<1>5. ASSUME NEW t \in Slots, NEW p, ApplicantArrives(t, p)
      PROVE  requests'[s] = requests[s]
  BY <1>3, <1>5 DEF ApplicantArrives, StartQuery, LoadApplicantInformation,
     LoadResidenceHistory, LoadToAddResidence, LoadToUpdateResidence,
     LoadToRemoveResidence, LoadToSubmit, LoadToWithdraw
<1>6. ASSUME NEW t \in Slots, NEW m, ManagerArrives(t, m)
      PROVE  requests'[s] = requests[s]
  BY <1>3, <1>6 DEF ManagerArrives, LoadToApprove, LoadToReject, LoadToSaveNotes,
     DeleteUnitQuery
<1>7. ASSUME NEW t \in Slots, t # s, Advance(t)
      PROVE  requests'[s] = requests[s]
  BY <1>4, <1>7 DEF Advance, StartLoadUnit, DeleteCheckLeases, DeleteCheckApplications,
     Commit, SaveFails, Refuse
<1>8. ASSUME NEW t \in Slots, CommitUnanswered(t)
      PROVE  requests'[s].phase = requests[s].phase
  <2>1. requests' = [requests EXCEPT ![t].attempts = @ + 1]
    BY <1>8 DEF CommitUnanswered
  <2>2. CASE t = s
    BY <1>1, <2>1, <2>2 DEF IsRequest
  <2>3. CASE t # s
    BY <1>1, <2>1, <2>3
  <2> QED
    BY <2>2, <2>3
<1>9. ASSUME NEW t \in Slots, Abandon(t)
      PROVE  requests'[s] \in {Idle, requests[s]}
  BY <1>1, <1>9 DEF Abandon, Refuse, Finish
<1>10. CASE Clock \/ UNCHANGED allVars
  BY <1>10 DEF Clock, requestVars, allVars
<1> QED
  BY <1>5, <1>6, <1>7, <1>8, <1>9, <1>10 DEF ConcurrentNext

\* A handler goes from query to query to its save, and ends with it.
LEMMA HandlerGoesOn ==
    ASSUME Inv, NEW s \in Slots, requests[s] # Idle, Advance(s)
    PROVE  \/ requests'[s] = Idle
           \/ requests[s].phase = "OpenChecked" /\ requests'[s].phase = "Saving"
           \/ requests[s].phase = "UnitLoaded" /\ requests'[s].phase = "LeasesChecked"
           \/ requests[s].phase = "LeasesChecked" /\ requests'[s].phase = "Saving"
<1>1. requests = [t \in Slots |-> requests[t]] /\ IsRequest(requests[s])
  BY DEF Inv, RequestsSound
<1>2. Finish(s) => requests'[s] = Idle
  BY <1>1 DEF Finish
<1>3. ASSUME NEW phase, Proceed(s, phase)
      PROVE  requests'[s].phase = phase
  BY <1>1, <1>3 DEF Proceed, IsRequest
<1> QED
  BY <1>2, <1>3 DEF Advance, StartLoadUnit, DeleteCheckLeases, DeleteCheckApplications,
     Commit, SaveFails, Refuse, InPhase

\* The values that a save takes from an identity column are there.
IdsFor(work) ==
    /\ work.kind = "Insert" => ApplicationIds \ issuedApplicationIds # {}
    /\ work.kind = "Application" =>
          \E new \in SUBSET (ResidenceIds \ issuedResidenceIds) :
              Cardinality(new) = Cardinality(work.inserted)

\* The identity columns do not run out.
IdsRemain == \A s \in Slots : Saving(s) => IdsFor(WorkOf(s))

\* A query can be answered, and a save commits or fails: what the guards of the
\* handler's actions say of ENABLED, which has no rules in the prover.
AdvanceEnabled ==
    \A s \in Slots :
        \/ InPhase(s, "OpenChecked")
        \/ InPhase(s, "UnitLoaded")
        \/ InPhase(s, "LeasesChecked")
        \/ Saving(s) /\ (CanSave(WorkOf(s)) => IdsFor(WorkOf(s)))
        => ENABLED <<Advance(s)>>_allVars

\* Every request ends, whatever the others do to its rows and however often its
\* answers are lost, for any number of requests at a time, as long as the identity
\* columns do not run out: each query is asked once, and a save that is sent again commits
\* again or fails.
THEOREM RequestsComeToAnEnd == ConcurrentSpec /\ []IdsRemain /\ []AdvanceEnabled => RequestsEnd
<1>1. ASSUME NEW s \in Slots
      PROVE  ConcurrentSpec /\ []IdsRemain /\ []AdvanceEnabled => (requests[s] # Idle ~> requests[s] = Idle)
  <2> DEFINE At(phase) == requests[s] # Idle /\ requests[s].phase = phase
             Going     == requests[s] # Idle
             Opened    == At("OpenChecked")
             Loaded    == At("UnitLoaded")
             Checked   == At("LeasesChecked")
             AtSave    == At("Saving")
             Ended     == requests[s] = Idle
  <2>1. Inv /\ Going => Opened \/ Loaded \/ Checked \/ AtSave
    BY DEF Inv, RequestsSound, IsRequest, Phases
  <2>2. /\ Inv /\ Opened /\ [ConcurrentNext]_allVars => Opened' \/ AtSave' \/ Ended'
        /\ Inv /\ Loaded /\ [ConcurrentNext]_allVars => Loaded' \/ Checked' \/ Ended'
        /\ Inv /\ Checked /\ [ConcurrentNext]_allVars => Checked' \/ AtSave' \/ Ended'
        /\ Inv /\ AtSave /\ [ConcurrentNext]_allVars => AtSave' \/ Ended'
    BY OthersLeaveIt, HandlerGoesOn
  <2>3. /\ Inv /\ Opened /\ <<ConcurrentNext /\ Advance(s)>>_allVars => AtSave' \/ Ended'
        /\ Inv /\ Loaded /\ <<ConcurrentNext /\ Advance(s)>>_allVars => Checked' \/ Ended'
        /\ Inv /\ Checked /\ <<ConcurrentNext /\ Advance(s)>>_allVars => AtSave' \/ Ended'
        /\ Inv /\ AtSave /\ <<ConcurrentNext /\ Advance(s)>>_allVars => Ended'
    BY HandlerGoesOn
  <2>4. IdsRemain /\ AdvanceEnabled /\ (Opened \/ Loaded \/ Checked \/ AtSave)
        => ENABLED <<Advance(s)>>_allVars
    BY DEF IdsRemain, AdvanceEnabled, Saving, InPhase
  <2>5. Fairness => WF_allVars(Advance(s))
    <3>1. Fairness => Served(s)
      BY DEF Fairness
    <3> QED
      BY <3>1, PTL DEF Served
  <2> HIDE DEF Going, Opened, Loaded, Checked, AtSave, Ended
  <2>6. ConcurrentSpec /\ []IdsRemain /\ []AdvanceEnabled => (Going ~> Ended)
    BY <2>1, <2>2, <2>3, <2>4, <2>5, InvHolds, PTL DEF ConcurrentSpec
  <2> QED
    BY <2>6, PTL DEF Going, Ended
<1> QED
  BY <1>1 DEF RequestsEnd

=============================================================================
