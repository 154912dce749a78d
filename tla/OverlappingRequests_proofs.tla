--------------------- MODULE OverlappingRequests_proofs ---------------------
(***************************************************************************)
(* Which requests must not overlap for what the documents promise to hold: *)
(* TLC refutes three statements about requests that run side by side       *)
(* (RivalApprovals, LateApplication, StaleDecision).  Each of them, and    *)
(* what else the lifecycle promises of statuses, trails and leases, holds  *)
(* whatever runs at the same time as long as the requests that could       *)
(* refute it are kept apart.                                               *)
(***************************************************************************)
EXTENDS AtomicRequests_proofs

\* What the request of a slot is about to save, by kind.
Saves(s, kind) == requests[s] # Idle /\ requests[s].work.kind = kind

\* It has decided on the status of an application.
Decides(s) ==
    Saves(s, "Application") /\ "status" \in DOMAIN requests[s].work.writes

\* Two approvals for one unit do not overlap.
ApprovalsApart ==
    \A s, t \in Slots :
        Saves(s, "Application") /\ Saves(t, "Application") =>
            \A k \in requests[s].work.leases, l \in requests[t].work.leases :
                k.unit = l.unit => s = t

\* An application is not started while its unit is being removed.
StartsApart ==
    \A s, t \in Slots :
        Saves(s, "Insert") /\ Saves(t, "Delete") =>
            requests[s].work.row.unit # requests[t].work.unit

\* Two decisions about one application do not overlap.
DecisionsApart ==
    \A s, t \in Slots :
        Decides(s) /\ Decides(t)
            /\ requests[s].work.application = requests[t].work.application => s = t

----------------------------------------------------------------------------
(* What goes on to be true of a decision that has not been saved yet *)

\* Its lease is clear of those of the unit, unless it has been saved already.
LeaseFits(work) ==
    work.kind = "Application" =>
        \A l \in work.leases, k \in leases :
            k.unit = l.unit => k.application = l.application \/ TermsDisjoint(k, l)

\* Its application has not been decided, unless by this decision.
StatusFits(work) ==
    /\ work.kind = "Application"
    /\ work.application \in DOMAIN applications
    /\ "status" \in DOMAIN work.writes
    => \/ ~IsTerminal(applications[work.application].status)
       \/ applications[work.application].status = work.writes["status"]

\* Nobody has applied for the unit.
RemovalFits(phase, work) ==
    work.kind = "Delete" =>
        /\ phase # "OpenChecked"
        /\ phase = "Saving" => \A a \in DOMAIN applications : applications[a].unit # work.unit

LettingsFit == \A s \in Slots : requests[s] # Idle => LeaseFits(requests[s].work)

DecisionsFit == \A s \in Slots : requests[s] # Idle => StatusFits(requests[s].work)

RemovalsFit ==
    \A s \in Slots :
        requests[s] # Idle => RemovalFits(requests[s].phase, requests[s].work)

----------------------------------------------------------------------------
(* What has just been decided fits *)

LEMMA LeaseDecided ==
    ASSUME TypeOK, NEW work, ChangeDecided(work)
    PROVE  LeaseFits(work)
<1> DEFINE a == work.application
           row == applications[a]
<1>1. CASE work.leases = {}
  BY <1>1 DEF LeaseFits
<1>2. ASSUME ApprovalDecided(work, a, SavedRow(row, work))
      PROVE  LeaseFits(work)
  <2>1. PICK d \in Days :
           /\ CanIssueLease(LeasesOf(row.unit), today, d)
           /\ work.leases = {IssuedLease(a, row, d)}
    BY <1>2 DEF ApprovalDecided
  <2> DEFINE new == IssuedLease(a, row, d)
  <2>2. new.unit = row.unit /\ new.startDate = d /\ new.endDate = EndDateFor(d)
    BY DEF IssuedLease
  <2>3. ASSUME NEW k \in leases, k.unit = new.unit
        PROVE  TermsDisjoint(k, new)
    <3>1. k \in LeaseRow /\ k \in LeasesOf(row.unit)
      BY <2>2, <2>3 DEF LeasesOf, TypeOK
    <3>2. k.startDate \in Int /\ k.endDate \in Int /\ d \in Int /\ EndDateFor(d) \in Int
      BY <3>1, CalendarAssumption DEF LeaseRow
    <3>3. ~ (k.startDate <= EndDateFor(d) /\ k.endDate >= d)
      BY <2>1, <3>1 DEF CanIssueLease, ConflictsWithExisting, Overlaps
    <3> HIDE DEF new
    <3>4. QED
      BY <2>2, <3>2, <3>3 DEF TermsDisjoint
  <2> HIDE DEF new
  <2>4. QED
    BY <2>1, <2>3 DEF LeaseFits, new
<1>3. QED
  BY <1>1, <1>2 DEF ChangeDecided

\* What the handlers make of a row: they decide only on what is not decided.
LEMMA StatusDecided ==
    ASSUME TypeOK, NEW work, ChangeDecided(work)
    PROVE  StatusFits(work)
<1> DEFINE a == work.application
           row == applications[a]
           after == SavedRow(row, work)
<1>1. SUFFICES ASSUME "status" \in DOMAIN work.writes, IsTerminal(row.status)
               PROVE  row.status = work.writes["status"]
  BY DEF StatusFits
<1>2. a \in DOMAIN applications /\ row \in ApplicationRow
  BY DEF ChangeDecided, TypeOK
<1>3. after.status = work.writes["status"]
  BY <1>1, <1>2 DEF SavedRow, Column, ApplicationRow
<1>4. ~CanSubmit(row.status) /\ ~CanWithdraw(row.status) /\ ~CanReview(row.status)
  BY <1>1 DEF IsTerminal, CanSubmit, CanWithdraw, CanReview, CanTransition, Transitions
<1>5. \/ RowDecided(work, a, after)
      \/ ApprovalDecided(work, a, after)
      \/ ResidencesDecided(work, a, after)
  BY DEF ChangeDecided
<1> HIDE DEF after
<1>6. \/ InformationDecided(work, a, after) \/ HistoryDecided(work, a, after) \/ NotesDecided(work, a, after)
      \/ ResidencesDecided(work, a, after)
  BY <1>4, <1>5 DEF RowDecided, ApprovalDecided, SubmissionDecided, WithdrawalDecided,
                    RejectionDecided
<1>7. after.status = row.status
  <2>1. CASE InformationDecided(work, a, after)
    BY <1>2, <2>1 DEF InformationDecided, ApplicationRow
  <2>2. CASE HistoryDecided(work, a, after)
    BY <1>2, <2>2 DEF HistoryDecided, ApplicationRow
  <2>3. CASE NotesDecided(work, a, after)
    BY <1>2, <2>3 DEF NotesDecided, ApplicationRow
  <2>4. CASE ResidencesDecided(work, a, after)
    <3>1. \/ after = row
          \/ \E r \in ResidenceIds :
                after = [row EXCEPT !.residencesCompleted =
                            IF ResidencesOf(a) = {r} THEN FALSE ELSE @]
      BY <2>4, Zenon DEF ResidencesDecided
    <3>2. QED
      BY <1>2, <3>1 DEF ApplicationRow
  <2>5. QED
    BY <1>6, <2>1, <2>2, <2>3, <2>4
<1>8. QED
  BY <1>3, <1>7

LEMMA DecidedFits ==
    ASSUME TypeOK, NEW phase, NEW work, Decided(phase, work)
    PROVE  LeaseFits(work) /\ StatusFits(work) /\ RemovalFits(phase, work)
<1>1. CASE ChangeDecided(work)
  BY <1>1, LeaseDecided, StatusDecided DEF ChangeDecided, RemovalFits
<1>2. CASE StartDecided(phase, work)
  BY <1>2 DEF StartDecided, Insert, LeaseFits, StatusFits, RemovalFits
<1>3. CASE phase \in {"UnitLoaded", "LeasesChecked", "Saving"} /\ RemovalDecided(phase, work)
  BY <1>3 DEF RemovalDecided, Delete, LeaseFits, StatusFits, RemovalFits
<1>4. QED
  BY <1>1, <1>2, <1>3 DEF Decided

----------------------------------------------------------------------------
(* The steps, by what they do to the requests *)

\* A request commits, answered or not.
Commits(s) ==
    /\ Saving(s)
    /\ Save(requests[s].work)
    /\ \/ Finish(s)
       \/ requests' = [requests EXCEPT ![s].attempts = @ + 1]

\* A query of a request that goes on; the last one of a removal has found no
\* application.
Queries(s) ==
    \E phase \in Phases :
        /\ requests[s] # Idle
        /\ Proceed(s, phase)
        /\ phase # "OpenChecked"
        /\ requests[s].work.kind = "Delete" /\ phase = "Saving" =>
              \/ requests[s].phase = "OpenChecked"
              \/ \A a \in DOMAIN applications : applications[a].unit # requests[s].work.unit

\* A step that changes no request and no table.
Rests == UNCHANGED <<requests, units, applications, leases>>

LEMMA StepKinds ==
    ASSUME Inv, [ConcurrentNext]_allVars
    PROVE  \/ \E s \in Slots : Arrives(s) \/ Queries(s) \/ Refuse(s) \/ Commits(s)
           \/ Rests
<1>1. ASSUME NEW s \in Slots, StartLoadUnit(s)
      PROVE  Queries(s) \/ Refuse(s)
  BY <1>1 DEF StartLoadUnit, InPhase, Queries, Phases
<1>2. ASSUME NEW s \in Slots, DeleteCheckLeases(s)
      PROVE  Queries(s) \/ Refuse(s)
  BY <1>2 DEF DeleteCheckLeases, InPhase, Queries, Phases
<1>3. ASSUME NEW s \in Slots, DeleteCheckApplications(s)
      PROVE  Queries(s) \/ Refuse(s)
  BY <1>3 DEF DeleteCheckApplications, InPhase, Queries, Phases
<1>4. ASSUME NEW s \in Slots, Commit(s) \/ CommitUnanswered(s)
      PROVE  Commits(s)
  BY <1>4 DEF Commit, CommitUnanswered, Commits, WorkOf
<1>5. ASSUME NEW s \in Slots, SaveFails(s) \/ Abandon(s)
      PROVE  Refuse(s)
  BY <1>5 DEF SaveFails, Abandon
<1>6. CASE Clock \/ UNCHANGED allVars
  BY <1>6 DEF Clock, DayPasses, requestVars, allVars, vars, Rests
<1>7. QED
  BY <1>1, <1>2, <1>3, <1>4, <1>5, <1>6, AllDecide DEF ConcurrentNext, Advance

\* What a step that saves nothing leaves of the requests and the tables: a
\* request goes on with its work, or is new.
LEMMA QuietStep ==
    ASSUME Inv, NEW s \in Slots, Arrives(s) \/ Queries(s) \/ Refuse(s)
    PROVE  /\ UNCHANGED <<units, applications, leases>>
           /\ \A t \in Slots : requests'[t] # Idle =>
                 \/ Decided(requests'[t].phase, requests'[t].work)
                 \/ /\ requests[t] # Idle
                    /\ requests'[t].work = requests[t].work
                    /\ \/ requests'[t].phase = requests[t].phase
                       \/ /\ requests'[t].phase # "OpenChecked"
                          /\ requests[t].work.kind = "Delete" /\ requests'[t].phase = "Saving" =>
                                \/ requests[t].phase = "OpenChecked"
                                \/ \A a \in DOMAIN applications :
                                      applications[a].unit # requests[t].work.unit
<1>1. requests = [t \in Slots |-> requests[t]]
  BY DEF Inv, RequestsSound
<1>2. CASE Refuse(s)
  BY <1>1, <1>2 DEF Refuse, Finish, vars
<1>3. CASE Arrives(s)
  <2>1. PICK operation, phase, work :
           Begin(s, operation, phase, work) /\ Decided(phase, work)
    BY <1>3 DEF Arrives
  <2>2. /\ UNCHANGED <<units, applications, leases>>
        /\ requests' = [requests EXCEPT ![s] = Request(operation, phase, work)]
    BY <2>1 DEF Begin, vars
  <2>3. requests'[s].phase = phase /\ requests'[s].work = work
    BY <1>1, <2>2 DEF Request
  <2>4. \A t \in Slots : t # s => requests'[t] = requests[t]
    BY <1>1, <2>2
  <2>5. QED
    BY <2>1, <2>2, <2>3, <2>4
<1>4. CASE Queries(s)
  <2>1. PICK phase \in Phases :
          /\ requests[s] # Idle
          /\ Proceed(s, phase)
          /\ phase # "OpenChecked"
          /\ requests[s].work.kind = "Delete" /\ phase = "Saving" =>
                \/ requests[s].phase = "OpenChecked"
                \/ \A a \in DOMAIN applications : applications[a].unit # requests[s].work.unit
    BY <1>4 DEF Queries
  <2>2. /\ UNCHANGED <<units, applications, leases>>
        /\ requests' = [requests EXCEPT ![s].phase = phase]
    BY <2>1 DEF Proceed, vars
  <2>3. requests'[s].phase = phase /\ requests'[s].work = requests[s].work
    <3>1. IsRequest(requests[s])
      BY <2>1 DEF Inv, RequestsSound
    <3>2. QED
      BY <1>1, <2>2, <3>1 DEF IsRequest
  <2>4. \A t \in Slots : t # s => requests'[t] = requests[t]
    BY <1>1, <2>2
  <2>5. QED
    BY <2>1, <2>2, <2>3, <2>4
<1>5. QED
  BY <1>2, <1>3, <1>4

\* A request that commits goes on with its work or ends; the others stay.
LEMMA CommitStep ==
    ASSUME Inv, NEW s \in Slots, Commits(s)
    PROVE  /\ requests[s] # Idle /\ requests[s].phase = "Saving"
           /\ IsWork(requests[s].work)
           /\ \A t \in Slots : requests'[t] # Idle =>
                 /\ requests[t] # Idle
                 /\ requests'[t].work = requests[t].work
                 /\ requests'[t].phase = requests[t].phase
<1>1. requests = [t \in Slots |-> requests[t]]
  BY DEF Inv, RequestsSound
<1>2. requests[s] # Idle /\ requests[s].phase = "Saving"
  BY DEF Commits, Saving, InPhase
<1>3. IsRequest(requests[s])
  BY <1>2 DEF Inv, RequestsSound
<1>4. IsWork(requests[s].work)
  BY <1>3 DEF IsRequest
<1>5. ASSUME requests' = [requests EXCEPT ![s].attempts = @ + 1]
      PROVE  requests'[s].work = requests[s].work /\ requests'[s].phase = requests[s].phase
  BY <1>1, <1>3, <1>5 DEF IsRequest
<1>6. ASSUME NEW t \in Slots, t # s
      PROVE  requests'[t] = requests[t]
  BY <1>1, <1>6 DEF Commits, Finish
<1>7. Finish(s) => requests'[s] = Idle
  BY <1>1 DEF Finish
<1>8. QED
  BY <1>2, <1>4, <1>5, <1>6, <1>7 DEF Commits

\* A commit that leaves its request in progress has counted it.
LEMMA ResentCounts ==
    ASSUME Inv, NEW s \in Slots, Commits(s), requests'[s] # Idle
    PROVE  requests'[s].attempts # 0
<1>1. requests[s] # Idle
  BY CommitStep
<1>2. requests = [t \in Slots |-> requests[t]] /\ IsRequest(requests[s])
  BY <1>1 DEF Inv, RequestsSound
<1>3. requests' = [requests EXCEPT ![s].attempts = @ + 1]
  BY <1>2 DEF Commits, Finish
<1>4. requests[s].attempts \in Nat
  BY <1>2, RequestAssumption DEF IsRequest
<1>5. requests'[s].attempts = requests[s].attempts + 1
  BY <1>2, <1>3 DEF IsRequest
<1>6. QED
  BY <1>4, <1>5

\* Every decision goes on to fit while nothing is saved.
LEMMA QuietFits ==
    ASSUME Inv, Rests \/ \E s \in Slots : Arrives(s) \/ Queries(s) \/ Refuse(s)
    PROVE  /\ LettingsFit => LettingsFit'
           /\ DecisionsFit => DecisionsFit'
           /\ RemovalsFit => RemovalsFit'
<1>1. /\ UNCHANGED <<units, applications, leases>>
      /\ \A t \in Slots : requests'[t] # Idle =>
            \/ Decided(requests'[t].phase, requests'[t].work)
            \/ /\ requests[t] # Idle
               /\ requests'[t].work = requests[t].work
               /\ \/ requests'[t].phase = requests[t].phase
                  \/ /\ requests'[t].phase # "OpenChecked"
                     /\ requests[t].work.kind = "Delete" /\ requests'[t].phase = "Saving" =>
                           \/ requests[t].phase = "OpenChecked"
                           \/ \A a \in DOMAIN applications :
                                 applications[a].unit # requests[t].work.unit
  BY QuietStep DEF Rests
<1>2. \A phase, work :
         /\ LeaseFits(work) => LeaseFits(work)'
         /\ StatusFits(work) => StatusFits(work)'
         /\ RemovalFits(phase, work) => RemovalFits(phase, work)'
  BY <1>1 DEF LeaseFits, StatusFits, RemovalFits
<1>3. \A phase, work :
         Decided(phase, work) => LeaseFits(work) /\ StatusFits(work) /\ RemovalFits(phase, work)
  BY DecidedFits DEF Inv, Tables, TablesTyped
<1>4. ASSUME NEW t \in Slots, requests'[t] # Idle
      PROVE  /\ LettingsFit => LeaseFits(requests[t].work)'
             /\ DecisionsFit => StatusFits(requests[t].work)'
             /\ RemovalsFit => RemovalFits(requests[t].phase, requests[t].work)'
  <2>1. PICK phase, work : phase = requests'[t].phase /\ work = requests'[t].work
    OBVIOUS
  <2>2. /\ LettingsFit => LeaseFits(work)
        /\ DecisionsFit => StatusFits(work)
        /\ RemovalsFit => RemovalFits(phase, work)
    <3>1. CASE Decided(phase, work)
      BY <1>3, <3>1
    <3>2. CASE ~Decided(phase, work)
      BY <1>1, <1>4, <2>1, <3>2 DEF LettingsFit, DecisionsFit, RemovalsFit, RemovalFits
    <3>3. QED
      BY <3>1, <3>2
  <2>3. /\ LettingsFit => LeaseFits(work)'
        /\ DecisionsFit => StatusFits(work)'
        /\ RemovalsFit => RemovalFits(phase, work)'
    BY <1>2, <2>2
  <2>4. QED
    BY <2>1, <2>3 DEF LeaseFits, StatusFits, RemovalFits
<1>5. QED
  BY <1>4 DEF LettingsFit, DecisionsFit, RemovalsFit

----------------------------------------------------------------------------
(* Approvals of one unit kept apart *)

\* A lease is saved next to leases it is clear of, and no other approval has
\* been decided for its unit.
LEMMA LettingCommits ==
    ASSUME Inv, ApprovalsApart, LettingsFit, NoDoubleLetting, NEW s \in Slots, Commits(s)
    PROVE  LettingsFit' /\ NoDoubleLetting'
<1> DEFINE work == requests[s].work
<1>1. /\ requests[s] # Idle
      /\ IsWork(work)
      /\ \A t \in Slots : requests'[t] # Idle =>
            requests[t] # Idle /\ requests'[t].work = requests[t].work
  BY CommitStep
<1>2. CASE leases' = leases
  BY <1>1, <1>2 DEF LettingsFit, LeaseFits, NoDoubleLetting
<1>3. CASE SaveApplication(work)
  <2>1. /\ work.kind = "Application"
        /\ leases' = leases \cup work.leases
        /\ \A l \in work.leases : ~ \E k \in leases : k.application = l.application
    BY <1>3 DEF SaveApplication, CanSaveApplication
  <2>2. \A k, l \in work.leases : k = l
    BY <1>1, <2>1 DEF IsWork, IsChange, IsInsert, IsDelete, AreLeases
  <2>3. \A l \in work.leases, k \in leases : k.unit = l.unit => TermsDisjoint(k, l)
    BY <1>1, <2>1 DEF LettingsFit, LeaseFits
  <2>4. NoDoubleLetting'
    BY <2>1, <2>2, <2>3 DEF NoDoubleLetting, TermsDisjoint
  <2>5. ASSUME NEW t \in Slots, requests'[t] # Idle, requests'[t].work.kind = "Application",
               NEW l \in requests'[t].work.leases, NEW k \in leases', k.unit = l.unit
        PROVE  k.application = l.application \/ TermsDisjoint(k, l)
    <3>1. requests[t] # Idle /\ requests'[t].work = requests[t].work
      BY <1>1, <2>5
    <3>2. CASE k \in leases
      BY <2>5, <3>1, <3>2 DEF LettingsFit, LeaseFits
    <3>3. CASE k \in work.leases
      <4>1. t = s
        BY <1>1, <2>1, <2>5, <3>1, <3>3 DEF ApprovalsApart, Saves
      <4>2. QED
        BY <2>2, <2>5, <3>1, <3>3, <4>1
    <3>4. QED
      BY <2>1, <2>5, <3>2, <3>3
  <2>6. QED
    BY <2>4, <2>5 DEF LettingsFit, LeaseFits
<1>4. QED
  BY <1>2, <1>3 DEF Commits, Save, SaveInsert, SaveDelete

\* A unit is never let twice for one day as long as no two approvals for it
\* overlap: whatever other requests run at the same time, however often a save is
\* sent again and whenever the date changes (ReviewAsync decides on the leases it
\* has read; the run RivalApprovals overlaps two approvals).
THEOREM LettingsApartAreSafe == ConcurrentSpec /\ []ApprovalsApart => []NoDoubleLetting
<1>1. ConcurrentInit => LettingsFit /\ NoDoubleLetting
  BY SeedAssumption DEF ConcurrentInit, Init, LettingsFit, NoDoubleLetting
<1>2. Inv /\ ApprovalsApart /\ LettingsFit /\ NoDoubleLetting /\ [ConcurrentNext]_allVars
         => LettingsFit' /\ NoDoubleLetting'
  <2> SUFFICES ASSUME Inv, ApprovalsApart, LettingsFit, NoDoubleLetting,
                      [ConcurrentNext]_allVars
               PROVE  LettingsFit' /\ NoDoubleLetting'
    OBVIOUS
  <2>1. CASE \E s \in Slots : Commits(s)
    BY <2>1, LettingCommits
  <2>2. CASE Rests \/ \E s \in Slots : Arrives(s) \/ Queries(s) \/ Refuse(s)
    <3>1. leases' = leases
      BY <2>2, QuietStep DEF Rests
    <3>2. QED
      BY <2>2, <3>1, QuietFits DEF NoDoubleLetting
  <2>3. QED
    BY <2>1, <2>2, StepKinds
<1>3. QED
  BY InvHolds, <1>1, <1>2, PTL DEF ConcurrentSpec

----------------------------------------------------------------------------
(* Applications are not started for a unit that is being removed *)

\* An application is saved only for units that no removal has found unused.
LEMMA RemovalCommits ==
    ASSUME Inv, StartsApart, RemovalsFit, NEW s \in Slots, Commits(s)
    PROVE  RemovalsFit'
<1> DEFINE work == requests[s].work
<1>1. /\ requests[s] # Idle
      /\ \A t \in Slots : requests'[t] # Idle =>
            /\ requests[t] # Idle
            /\ requests'[t].work = requests[t].work
            /\ requests'[t].phase = requests[t].phase
  BY CommitStep
<1>2. ASSUME NEW t \in Slots, requests'[t] # Idle, requests'[t].work.kind = "Delete",
             requests'[t].phase = "Saving", NEW a \in DOMAIN applications'
      PROVE  applications'[a].unit # requests'[t].work.unit
  <2>1. /\ requests[t] # Idle /\ requests[t].work.kind = "Delete"
        /\ requests'[t].work = requests[t].work
        /\ \A b \in DOMAIN applications : applications[b].unit # requests[t].work.unit
    BY <1>1, <1>2 DEF RemovalsFit, RemovalFits
  <2>2. CASE a \in DOMAIN applications /\ applications'[a].unit = applications[a].unit
    BY <2>1, <2>2
  <2>3. CASE work.kind = "Insert" /\ applications'[a] = work.row
    BY <1>1, <2>1, <2>3 DEF StartsApart, Saves
  <2>4. CASE SaveApplication(work)
    <3>1. work.application \in DOMAIN applications
          /\ applications' = [applications EXCEPT
                                 ![work.application] = SavedRow(@, work)]
      BY <2>4 DEF SaveApplication, CanSaveApplication
    <3>2. applications[work.application] \in ApplicationRow
      BY <3>1 DEF Inv, Tables, TablesTyped, TypeOK
    <3>3. SavedRow(applications[work.application], work).unit
             = applications[work.application].unit
      BY <3>2 DEF SavedRow, ApplicationRow
    <3>4. QED
      BY <1>2, <2>2, <3>1, <3>3
  <2>5. CASE SaveInsert(work)
    BY <1>2, <2>2, <2>3, <2>5 DEF SaveInsert
  <2>6. CASE SaveDelete(work)
    BY <1>2, <2>2, <2>6 DEF SaveDelete
  <2>7. QED
    BY <2>4, <2>5, <2>6 DEF Commits, Save
<1>3. ASSUME NEW t \in Slots, requests'[t] # Idle, requests'[t].work.kind = "Delete"
      PROVE  requests'[t].phase # "OpenChecked"
  BY <1>1, <1>3 DEF RemovalsFit, RemovalFits
<1>4. QED
  BY <1>2, <1>3 DEF RemovalsFit, RemovalFits

LEMMA RemovalsAlwaysFit == ConcurrentSpec /\ []StartsApart => []RemovalsFit
<1>1. ConcurrentInit => RemovalsFit
  BY DEF ConcurrentInit, RemovalsFit
<1>2. Inv /\ StartsApart /\ RemovalsFit /\ [ConcurrentNext]_allVars => RemovalsFit'
  BY StepKinds, QuietFits, RemovalCommits
<1>3. QED
  BY InvHolds, <1>1, <1>2, PTL DEF ConcurrentSpec

\* The units change when a removal is saved, and it found no application.
LEMMA UnitsRemoved ==
    ASSUME Inv, RemovalsFit, [ConcurrentNext]_allVars, units' # units
    PROVE  \E u \in units :
              /\ units' = units \ {u}
              /\ LeasesOf(u) = {}
              /\ \A a \in DOMAIN applications : applications[a].unit # u
<1>1. PICK s \in Slots : Commits(s)
  BY StepKinds, QuietStep DEF Rests
<1>2. SaveDelete(requests[s].work)
  BY <1>1 DEF Commits, Save, SaveApplication, SaveInsert
<1>3. requests[s] # Idle /\ requests[s].phase = "Saving"
  BY <1>1, CommitStep
<1>4. QED
  BY <1>2, <1>3 DEF SaveDelete, CanSaveDelete, RemovalsFit, RemovalFits

\* A unit is removed only while nothing refers to it, as long as no application
\* for it is started while it is being removed: whatever other requests run at
\* the same time (DeleteUnitAsync asks for applications before it saves, and the
\* cascade takes those that come later; the run LateApplication lets one come).
THEOREM RemovalsApartAreSafe == ConcurrentSpec /\ []StartsApart => RemovalIsBlocked
<1> DEFINE Blocked ==
        \A u \in units \ units' :
            /\ LeasesOf(u) = {}
            /\ \A a \in DOMAIN applications : applications[a].unit # u
<1>1. Inv /\ RemovalsFit /\ [ConcurrentNext]_allVars => [Blocked]_allVars
  BY UnitsRemoved
<1>2. QED
  BY InvHolds, RemovalsAlwaysFit, <1>1, PTL DEF ConcurrentSpec, RemovalIsBlocked

----------------------------------------------------------------------------
(* Decisions about one application kept apart *)

\* The status a save leaves: what it writes, or what was there.
LEMMA SavedStatus ==
    ASSUME TypeOK, NEW work, SaveApplication(work)
    PROVE  /\ work.kind = "Application"
           /\ work.application \in DOMAIN applications
           /\ DOMAIN applications' = DOMAIN applications
           /\ \A a \in DOMAIN applications :
                 a # work.application => applications'[a] = applications[a]
           /\ "status" \in DOMAIN work.writes =>
                 applications'[work.application].status = work.writes["status"]
           /\ "status" \notin DOMAIN work.writes =>
                 applications'[work.application].status = applications[work.application].status
<1>1. /\ work.kind = "Application"
      /\ work.application \in DOMAIN applications
      /\ applications' = [applications EXCEPT ![work.application] = SavedRow(@, work)]
  BY DEF SaveApplication, CanSaveApplication
<1>2. applications[work.application] \in ApplicationRow /\ applications = [a \in DOMAIN applications |-> applications[a]]
  BY <1>1 DEF TypeOK
<1>3. SavedRow(applications[work.application], work).status
         = Column(work, "status", applications[work.application].status)
  BY <1>2 DEF SavedRow, ApplicationRow
<1>4. QED
  BY <1>1, <1>2, <1>3 DEF Column

\* A save changes no status that has been decided, and no other decision about
\* its application is under way.
LEMMA DecisionCommits ==
    ASSUME Inv, DecisionsApart, DecisionsFit, NEW s \in Slots, Commits(s)
    PROVE  /\ DecisionsFit'
           /\ \A a \in DOMAIN applications \cap DOMAIN applications' :
                 IsTerminal(applications[a].status) =>
                    applications'[a].status = applications[a].status
<1> DEFINE work == requests[s].work
<1>1. /\ requests[s] # Idle
      /\ \A t \in Slots : requests'[t] # Idle =>
            requests[t] # Idle /\ requests'[t].work = requests[t].work
  BY CommitStep
<1>2. TypeOK /\ DOMAIN applications \subseteq issuedApplicationIds
  BY DEF Inv, Tables, TablesTyped
<1>3. ASSUME NEW t \in Slots, requests[t] # Idle, requests[t].work.kind = "Application"
      PROVE  requests[t].work.application \in issuedApplicationIds
  BY <1>3 DEF Inv, RequestsSound, IsRequest, StillSuits
<1>4. CASE \A a \in DOMAIN applications' \cap issuedApplicationIds :
              a \in DOMAIN applications /\ applications'[a] = applications[a]
  BY <1>1, <1>2, <1>3, <1>4 DEF DecisionsFit, StatusFits
<1>5. CASE SaveApplication(work)
  <2>1. \A a \in DOMAIN applications :
           IsTerminal(applications[a].status) =>
              applications'[a].status = applications[a].status
    BY <1>1, <1>2, <1>5, SavedStatus DEF DecisionsFit, StatusFits
  <2>2. ASSUME NEW t \in Slots, requests'[t] # Idle,
               requests'[t].work.kind = "Application",
               requests'[t].work.application \in DOMAIN applications',
               "status" \in DOMAIN requests'[t].work.writes
        PROVE  \/ ~IsTerminal(applications'[requests'[t].work.application].status)
               \/ applications'[requests'[t].work.application].status
                     = requests'[t].work.writes["status"]
    <3> DEFINE a == requests[t].work.application
    <3>1. requests[t] # Idle /\ requests'[t].work = requests[t].work
      BY <1>1, <2>2
    <3>2. a \in DOMAIN applications
      BY <1>2, <1>5, <2>2, <3>1, SavedStatus
    <3>3. \/ ~IsTerminal(applications[a].status)
          \/ applications[a].status = requests[t].work.writes["status"]
      BY <2>2, <3>1, <3>2 DEF DecisionsFit, StatusFits
    <3>4. CASE applications'[a].status = applications[a].status
      BY <3>1, <3>3, <3>4
    <3>5. CASE applications'[a].status # applications[a].status
      <4>1. a = work.application /\ "status" \in DOMAIN work.writes
            /\ applications'[a].status = work.writes["status"]
        BY <1>2, <1>5, <3>2, <3>5, SavedStatus
      <4>2. work.kind = "Application"
        BY <1>2, <1>5, SavedStatus
      <4>3. t = s
        BY <1>1, <2>2, <3>1, <4>1, <4>2 DEF DecisionsApart, Decides, Saves
      <4>4. QED
        BY <3>1, <4>1, <4>3
    <3>6. QED
      BY <3>4, <3>5
  <2>3. QED
    BY <2>1, <2>2 DEF DecisionsFit, StatusFits
<1>6. CASE SaveInsert(work)
  BY <1>2, <1>4, <1>6 DEF SaveInsert
<1>7. CASE SaveDelete(work)
  BY <1>2, <1>4, <1>7 DEF SaveDelete
<1>8. QED
  BY <1>5, <1>6, <1>7 DEF Commits, Save

\* No step changes a decided status.
LEMMA DecisionStep ==
    ASSUME Inv, DecisionsApart, DecisionsFit, [ConcurrentNext]_allVars
    PROVE  /\ DecisionsFit'
           /\ \A a \in DOMAIN applications \cap DOMAIN applications' :
                 IsTerminal(applications[a].status) =>
                    applications'[a].status = applications[a].status
<1>1. CASE \E s \in Slots : Commits(s)
  BY <1>1, DecisionCommits
<1>2. CASE Rests \/ \E s \in Slots : Arrives(s) \/ Queries(s) \/ Refuse(s)
  <2>1. applications' = applications
    BY <1>2, QuietStep DEF Rests
  <2>2. QED
    BY <1>2, <2>1, QuietFits
<1>3. QED
  BY <1>1, <1>2, StepKinds

LEMMA DecisionsAlwaysFit == ConcurrentSpec /\ []DecisionsApart => []DecisionsFit
<1>1. ConcurrentInit => DecisionsFit
  BY DEF ConcurrentInit, DecisionsFit
<1>2. Inv /\ DecisionsApart /\ DecisionsFit /\ [ConcurrentNext]_allVars => DecisionsFit'
  BY DecisionStep
<1>3. QED
  BY InvHolds, <1>1, <1>2, PTL DEF ConcurrentSpec

\* An application goes only with a unit that is removed.
LEMMA ApplicationsStay ==
    ASSUME Inv, RemovalsFit, [ConcurrentNext]_allVars
    PROVE  DOMAIN applications \subseteq DOMAIN applications'
<1>1. CASE Rests \/ \E s \in Slots : Arrives(s) \/ Queries(s) \/ Refuse(s)
  BY <1>1, QuietStep DEF Rests
<1>2. ASSUME NEW s \in Slots, Commits(s)
      PROVE  DOMAIN applications \subseteq DOMAIN applications'
  <2> DEFINE work == requests[s].work
  <2>1. CASE SaveApplication(work)
    BY <2>1, SavedStatus DEF Inv, Tables, TablesTyped
  <2>2. CASE SaveInsert(work)
    BY <2>2 DEF SaveInsert
  <2>3. CASE SaveDelete(work)
    <3>1. requests[s] # Idle /\ requests[s].phase = "Saving"
      BY <1>2, CommitStep
    <3>2. \A a \in DOMAIN applications : applications[a].unit # work.unit
      BY <2>3, <3>1 DEF SaveDelete, RemovalsFit, RemovalFits
    <3>3. QED
      BY <2>3, <3>2 DEF SaveDelete
  <2>4. QED
    BY <1>2, <2>1, <2>2, <2>3 DEF Commits, Save
<1>3. QED
  BY <1>1, <1>2, StepKinds

\* A decided or withdrawn application keeps its status as long as no two decisions
\* about it overlap and it is not started while its unit is being removed:
\* whatever other requests run at the same time and however often a save is sent
\* again (RentalApplication.TransitionTo and ReviewAsync decide on the status they
\* have read; the run StaleDecision overlaps two decisions).
THEOREM DecisionsApartAreFinal ==
    ConcurrentSpec /\ []DecisionsApart /\ []StartsApart => TerminalStatusStays
<1> DEFINE Stays ==
        \A a \in DOMAIN applications :
            IsTerminal(applications[a].status) =>
               /\ a \in DOMAIN applications'
               /\ applications'[a].status = applications[a].status
<1>1. Inv /\ DecisionsApart /\ DecisionsFit /\ RemovalsFit /\ [ConcurrentNext]_allVars
         => [Stays]_allVars
  BY DecisionStep, ApplicationsStay
<1>2. QED
  BY InvHolds, DecisionsAlwaysFit, RemovalsAlwaysFit, <1>1, PTL
  DEF ConcurrentSpec, TerminalStatusStays

----------------------------------------------------------------------------
(* Starts of one applicant for one unit kept apart *)

\* An applicant's requests to start an application for one unit do not overlap.
StartersApart ==
    \A s, t \in Slots :
        /\ Saves(s, "Insert") /\ Saves(t, "Insert")
        /\ requests[s].work.row.unit = requests[t].work.row.unit
        /\ requests[s].work.row.applicant = requests[t].work.row.applicant
        => s = t

\* No such request is sent again.
StartsSentOnce == \A s \in Slots : Saves(s, "Insert") => requests[s].attempts = 0

\* The applicant has no open application for the unit.
NothingOpen(row) ==
    \A a \in DOMAIN applications :
        /\ applications[a].unit = row.unit
        /\ applications[a].applicant = row.applicant
        => IsTerminal(applications[a].status)

\* A start that has not been saved yet goes on to be the first.
StartsFit ==
    \A s \in Slots :
        Saves(s, "Insert") /\ requests[s].attempts = 0 => NothingOpen(requests[s].work.row)

\* Open means undecided.
LEMMA OpenIsUndecided ==
    ASSUME TypeOK
    PROVE  \A a \in DOMAIN applications :
              applications[a].status \in OpenStatuses <=> ~IsTerminal(applications[a].status)
BY DEF TypeOK, ApplicationRow, OpenStatuses

\* A start has been decided when its applicant had no open application.
LEMMA StartDecidedFits ==
    ASSUME TypeOK, NEW phase, NEW work, Decided(phase, work), work.kind = "Insert"
    PROVE  NothingOpen(work.row)
<1>1. StartDecided(phase, work)
  BY DEF Decided, RemovalDecided, Delete, ChangeDecided
<1>2. PICK u \in Units, p \in Applicants :
         work = Insert(StartedApplication(u, p)) /\ OpenApplications(u, p) = {}
  BY <1>1 DEF StartDecided
<1>3. work.row.unit = u /\ work.row.applicant = p
  BY <1>2 DEF Insert, StartedApplication
<1>4. QED
  BY <1>2, <1>3, OpenIsUndecided DEF OpenApplications, NothingOpen

\* Requests that nothing is saved for keep their attempts.
LEMMA QuietAttempts ==
    ASSUME Inv, NEW s \in Slots, Arrives(s) \/ Queries(s) \/ Refuse(s),
           NEW t \in Slots, requests'[t] # Idle,
           ~Decided(requests'[t].phase, requests'[t].work)
    PROVE  requests'[t].attempts = requests[t].attempts
<1>1. requests = [r \in Slots |-> requests[r]]
  BY DEF Inv, RequestsSound
<1>2. CASE Refuse(s)
  BY <1>1, <1>2 DEF Refuse, Finish
<1>3. CASE Arrives(s)
  <2>1. PICK operation, phase, work :
           Begin(s, operation, phase, work) /\ Decided(phase, work)
    BY <1>3 DEF Arrives
  <2>2. requests' = [requests EXCEPT ![s] = Request(operation, phase, work)]
    BY <2>1 DEF Begin
  <2>3. requests'[s].phase = phase /\ requests'[s].work = work
    BY <1>1, <2>2 DEF Request
  <2>4. t # s
    BY <2>1, <2>3
  <2>5. QED
    BY <1>1, <2>2, <2>4
<1>4. CASE Queries(s)
  <2>1. PICK phase \in Phases :
           requests[s] # Idle /\ requests' = [requests EXCEPT ![s].phase = phase]
    BY <1>4 DEF Queries, Proceed
  <2>2. IsRequest(requests[s])
    BY <2>1 DEF Inv, RequestsSound
  <2>3. QED
    BY <1>1, <2>1, <2>2 DEF IsRequest
<1>5. QED
  BY <1>2, <1>3, <1>4

LEMMA QuietStarts ==
    ASSUME Inv, StartsFit, Rests \/ \E s \in Slots : Arrives(s) \/ Queries(s) \/ Refuse(s)
    PROVE  StartsFit'
<1>1. UNCHANGED applications
  BY QuietStep DEF Rests
<1>2. ASSUME NEW t \in Slots, requests'[t] # Idle, requests'[t].work.kind = "Insert",
             requests'[t].attempts = 0
      PROVE  NothingOpen(requests'[t].work.row)
  <2>1. CASE Decided(requests'[t].phase, requests'[t].work)
    BY <1>2, <2>1, StartDecidedFits DEF Inv, Tables, TablesTyped
  <2>2. CASE Rests
    BY <1>2, <2>2 DEF Rests, StartsFit, Saves
  <2>3. CASE ~Decided(requests'[t].phase, requests'[t].work) /\ ~Rests
    <3>1. /\ requests[t] # Idle
          /\ requests'[t].work = requests[t].work
          /\ requests'[t].attempts = requests[t].attempts
      BY <1>2, <2>3, QuietStep, QuietAttempts
    <3>2. QED
      BY <1>2, <3>1 DEF StartsFit, Saves
  <2>4. QED
    BY <2>1, <2>2, <2>3
<1>3. QED
  BY <1>1, <1>2 DEF StartsFit, Saves, NothingOpen

\* A save that starts no application opens none.
LEMMA OpensNone ==
    ASSUME Inv, DecisionsApart, DecisionsFit, NEW s \in Slots, Commits(s),
           ~SaveInsert(requests[s].work), NEW a \in DOMAIN applications'
    PROVE  /\ a \in DOMAIN applications
           /\ applications'[a].unit = applications[a].unit
           /\ applications'[a].applicant = applications[a].applicant
           /\ IsTerminal(applications[a].status) => IsTerminal(applications'[a].status)
<1> DEFINE work == requests[s].work
<1>1. CASE SaveDelete(work)
  BY <1>1 DEF SaveDelete
<1>2. CASE SaveApplication(work)
  <2>1. /\ work.application \in DOMAIN applications
        /\ applications' = [applications EXCEPT ![work.application] = SavedRow(@, work)]
    BY <1>2 DEF SaveApplication, CanSaveApplication
  <2>2. a \in DOMAIN applications
    BY <2>1
  <2>3. applications[work.application] \in ApplicationRow
    BY <2>1 DEF Inv, Tables, TablesTyped, TypeOK
  <2>4. /\ SavedRow(applications[work.application], work).unit
              = applications[work.application].unit
        /\ SavedRow(applications[work.application], work).applicant
              = applications[work.application].applicant
    BY <2>3 DEF SavedRow, ApplicationRow
  <2>5. IsTerminal(applications[a].status) => applications'[a].status = applications[a].status
    BY <2>2, DecisionCommits
  <2>6. QED
    BY <2>1, <2>2, <2>4, <2>5
<1>3. QED
  BY <1>1, <1>2 DEF Commits, Save

\* Of the starts that wait, those not sent yet are other requests.
LEMMA StartsBeside ==
    ASSUME Inv, NEW s \in Slots, Commits(s), NEW t \in Slots,
           Saves(t, "Insert")', requests'[t].attempts = 0
    PROVE  t # s /\ requests[t] # Idle /\ requests'[t] = requests[t]
<1>1. requests = [r \in Slots |-> requests[r]]
  BY DEF Inv, RequestsSound
<1>2. requests'[t] # Idle
  BY DEF Saves
<1>3. t # s
  BY <1>2, ResentCounts
<1>4. QED
  BY <1>1, <1>2, <1>3 DEF Commits, Finish

\* A save starts an application where none is open, or opens none.
LEMMA StartCommits ==
    ASSUME Inv, Inv', DecisionsApart, DecisionsFit, StartersApart, StartsSentOnce, StartsFit,
           OneOpenApplication, NEW s \in Slots, Commits(s)
    PROVE  StartsFit' /\ OneOpenApplication'
<1> DEFINE work == requests[s].work
<1>1. requests[s] # Idle
  BY CommitStep
<1>2. \A a, b \in DOMAIN applications :
         /\ applications[a].unit = applications[b].unit
         /\ applications[a].applicant = applications[b].applicant
         /\ ~IsTerminal(applications[a].status)
         /\ ~IsTerminal(applications[b].status)
         => a = b
  BY OpenIsUndecided DEF OneOpenApplication, NoTwoOpen, Inv, Tables, TablesTyped
<1>3. SUFFICES /\ \A a, b \in DOMAIN applications' :
                    /\ applications'[a].unit = applications'[b].unit
                    /\ applications'[a].applicant = applications'[b].applicant
                    /\ ~IsTerminal(applications'[a].status)
                    /\ ~IsTerminal(applications'[b].status)
                    => a = b
               /\ \A t \in Slots :
                    Saves(t, "Insert")' /\ requests'[t].attempts = 0 =>
                       NothingOpen(requests[t].work.row)'
  <2>1. \A a \in DOMAIN applications' :
           applications'[a].status \in OpenStatuses <=> ~IsTerminal(applications'[a].status)
    BY DEF Inv, Tables, TablesTyped, TypeOK, ApplicationRow, OpenStatuses
  <2>2. QED
    BY <1>3, <2>1 DEF OneOpenApplication, NoTwoOpen, StartsFit
<1>4. ASSUME NEW t \in Slots, Saves(t, "Insert")', requests'[t].attempts = 0
      PROVE  /\ t # s /\ requests'[t] = requests[t]
             /\ NothingOpen(requests[t].work.row)
             /\ SaveInsert(work) => \/ requests[t].work.row.unit # work.row.unit
                                    \/ requests[t].work.row.applicant # work.row.applicant
  <2>1. t # s /\ requests[t] # Idle /\ requests'[t] = requests[t]
    BY <1>4, StartsBeside
  <2>2. Saves(t, "Insert") /\ requests[t].attempts = 0
    BY <1>4, <2>1 DEF Saves
  <2>3. QED
    BY <1>1, <2>1, <2>2 DEF StartsFit, StartersApart, SaveInsert, Saves
<1>5. CASE ~SaveInsert(work)
  <2>1. \A a \in DOMAIN applications' :
           /\ a \in DOMAIN applications
           /\ applications'[a].unit = applications[a].unit
           /\ applications'[a].applicant = applications[a].applicant
           /\ IsTerminal(applications[a].status) => IsTerminal(applications'[a].status)
    BY <1>5, OpensNone
  <2>2. QED
    BY <1>2, <1>4, <2>1 DEF NothingOpen
<1>6. CASE SaveInsert(work)
  <2>1. PICK new \in ApplicationIds \ issuedApplicationIds :
           applications' = [b \in DOMAIN applications \cup {new} |->
                               IF b = new THEN work.row ELSE applications[b]]
    BY <1>6 DEF SaveInsert
  <2>2. NothingOpen(work.row)
    BY <1>1, <1>6 DEF StartsFit, StartsSentOnce, Saves, SaveInsert
  <2>3. QED
    BY <1>2, <1>4, <1>6, <2>1, <2>2 DEF NothingOpen
<1>7. QED
  BY <1>5, <1>6

\* An applicant has at most one open application for a unit as long as no two
\* starts of one applicant for one unit overlap, no start is sent again after a
\* lost answer, and no two decisions about one application overlap: whatever other
\* requests run at the same time (StartAsync looks for an open application before
\* it inserts; a status overwritten by a stale decision would open one again).
THEOREM StartsApartOpenOne ==
    ConcurrentSpec /\ []DecisionsApart /\ []StartersApart /\ []StartsSentOnce
        => []OneOpenApplication
<1>1. ConcurrentInit => StartsFit /\ OneOpenApplication
  BY SeedAssumption DEF ConcurrentInit, Init, StartsFit, Saves, OneOpenApplication
<1>2. Inv /\ Inv' /\ DecisionsApart /\ DecisionsFit /\ StartersApart /\ StartsSentOnce
         /\ StartsFit /\ OneOpenApplication /\ [ConcurrentNext]_allVars
         => StartsFit' /\ OneOpenApplication'
  <2> SUFFICES ASSUME Inv, Inv', DecisionsApart, DecisionsFit, StartersApart,
                      StartsSentOnce, StartsFit, OneOpenApplication,
                      [ConcurrentNext]_allVars
               PROVE  StartsFit' /\ OneOpenApplication'
    OBVIOUS
  <2>1. CASE \E s \in Slots : Commits(s)
    BY <2>1, StartCommits
  <2>2. CASE Rests \/ \E s \in Slots : Arrives(s) \/ Queries(s) \/ Refuse(s)
    <3>1. applications' = applications
      BY <2>2, QuietStep DEF Rests
    <3>2. QED
      BY <2>2, <3>1, QuietStarts DEF OneOpenApplication
  <2>3. QED
    BY <2>1, <2>2, StepKinds
<1>3. QED
  BY InvHolds, DecisionsAlwaysFit, <1>1, <1>2, PTL DEF ConcurrentSpec

----------------------------------------------------------------------------
(* Approvals and their leases *)

\* An approval brings a lease of a full term, or has already brought it.
ApprovalFits(work) ==
    work.kind = "Application" =>
        /\ "status" \in DOMAIN work.writes /\ work.writes["status"] = "Approved" =>
              work.leases # {} \/ \E l \in leases : l.application = work.application
        /\ \A l \in work.leases : l.endDate = EndDateFor(l.startDate)

ApprovalsFit == \A s \in Slots : requests[s] # Idle => ApprovalFits(requests[s].work)

LEMMA ApprovalDecidedFits ==
    ASSUME TypeOK, ApprovedIffLeased, NEW phase, NEW work, Decided(phase, work)
    PROVE  ApprovalFits(work)
<1> DEFINE a == work.application
           row == applications[a]
           after == SavedRow(row, work)
<1>1. CASE StartDecided(phase, work) \/ RemovalDecided(phase, work)
  BY <1>1 DEF StartDecided, Insert, RemovalDecided, Delete, ApprovalFits
<1>2. CASE ChangeDecided(work)
  <2>1. a \in DOMAIN applications /\ row \in ApplicationRow
    BY <1>2 DEF ChangeDecided, TypeOK
  <2>2. "status" \in DOMAIN work.writes => after.status = work.writes["status"]
    BY <2>1 DEF SavedRow, Column, ApplicationRow
  <2>3. row.status = "Approved" => \E l \in leases : l.application = a
    BY <2>1 DEF ApprovedIffLeased, LeasesMatch
  <2> HIDE DEF after
  <2>4. CASE ApprovalDecided(work, a, after)
    <3>1. PICK d \in Days : work.leases = {IssuedLease(a, row, d)}
      BY <2>4 DEF ApprovalDecided
    <3>2. QED
      BY <3>1 DEF ApprovalFits, IssuedLease
  <2>5. CASE work.leases = {} /\ after.status = row.status
    BY <2>2, <2>3, <2>5 DEF ApprovalFits
  <2>6. CASE work.leases = {} /\ after.status # "Approved"
    BY <2>2, <2>6 DEF ApprovalFits
  <2>7. ASSUME work.leases = {}, RowDecided(work, a, after)
        PROVE  after.status = row.status \/ after.status # "Approved"
    <3>1. CASE InformationDecided(work, a, after)
      BY <2>1, <3>1 DEF InformationDecided, ApplicationRow
    <3>2. CASE HistoryDecided(work, a, after)
      BY <2>1, <3>2 DEF HistoryDecided, ApplicationRow
    <3>3. CASE NotesDecided(work, a, after)
      BY <2>1, <3>3 DEF NotesDecided, ApplicationRow
    <3>4. CASE SubmissionDecided(work, a, after)
      BY <2>1, <3>4 DEF SubmissionDecided, TransitionTo, ApplicationRow
    <3>5. CASE WithdrawalDecided(work, a, after)
      BY <2>1, <3>5 DEF WithdrawalDecided, TransitionTo, ApplicationRow
    <3>6. CASE RejectionDecided(work, a, after)
      <4>1. PICK m \in Managers, o \in {"Return", "Deny"}, c \in Field(Comments) :
               after = Reviewed(row, o, m, c)
        BY <3>6 DEF RejectionDecided
      <4>2. after.status = ToStatus[o]
        BY <2>1, <4>1 DEF Reviewed, TransitionTo, ApplicationRow
      <4>3. QED
        BY <4>2 DEF ToStatus
    <3>7. QED
      BY <2>7, <3>1, <3>2, <3>3, <3>4, <3>5, <3>6 DEF RowDecided
  <2>8. ASSUME ResidencesDecided(work, a, after)
        PROVE  after.status = row.status
    <3>1. \/ after = row
          \/ \E r \in ResidenceIds :
                after = [row EXCEPT !.residencesCompleted =
                            IF ResidencesOf(a) = {r} THEN FALSE ELSE @]
      BY <2>8, Zenon DEF ResidencesDecided
    <3>2. QED
      BY <2>1, <3>1 DEF ApplicationRow
  <2>9. \/ work.leases = {} /\ RowDecided(work, a, after)
        \/ ApprovalDecided(work, a, after)
        \/ work.leases = {} /\ ResidencesDecided(work, a, after)
    BY <1>2 DEF ChangeDecided, after
  <2>10. QED
    BY <2>4, <2>5, <2>6, <2>7, <2>8, <2>9
<1>3. QED
  BY <1>1, <1>2 DEF Decided

\* What a save leaves of approvals and leases.
LEMMA ApprovalCommits ==
    ASSUME Inv, Inv', DecisionsApart, DecisionsFit, ApprovalsFit, ApprovedIffLeased,
           NEW s \in Slots, Commits(s)
    PROVE  ApprovalsFit' /\ ApprovedIffLeased'
<1> DEFINE work == requests[s].work
<1>1. /\ requests[s] # Idle
      /\ IsWork(work)
      /\ \A t \in Slots : requests'[t] # Idle =>
            requests[t] # Idle /\ requests'[t].work = requests[t].work
  BY CommitStep
<1>2. leases \subseteq leases'
  BY DEF Commits, Save, SaveApplication, SaveInsert, SaveDelete
<1>3. ApprovalsFit'
  BY <1>1, <1>2 DEF ApprovalsFit, ApprovalFits
<1>4. \A a \in DOMAIN applications \cap DOMAIN applications' :
         applications[a].status = "Approved" => applications'[a].status = "Approved"
  BY DecisionCommits DEF IsTerminal, Transitions
<1>5. /\ \A l \in leases' :
            /\ l.application \in DOMAIN applications'
            /\ l.unit = applications'[l.application].unit
            /\ l.tenant = applications'[l.application].applicant
      /\ \A k, l \in leases' : k.application = l.application => k = l
  BY DEF Inv, Tables, LeasesApproved
<1>6. /\ \A l \in leases :
            /\ l.application \in DOMAIN applications
            /\ applications[l.application].status = "Approved"
            /\ l.endDate = EndDateFor(l.startDate)
      /\ \A a \in DOMAIN applications :
            applications[a].status = "Approved" => \E l \in leases : l.application = a
  BY DEF ApprovedIffLeased, LeasesMatch
<1>7. ASSUME NEW l \in leases'
      PROVE  applications'[l.application].status = "Approved" /\ l.endDate = EndDateFor(l.startDate)
  <2>1. CASE l \in leases
    BY <1>4, <1>5, <1>6, <2>1
  <2>2. CASE l \notin leases
    <3>1. SaveApplication(work) /\ l \in work.leases
      BY <1>7, <2>2 DEF Commits, Save, SaveApplication, SaveInsert, SaveDelete
    <3>2. work.kind = "Application" /\ IsChange(work)
      BY <1>1, <3>1 DEF SaveApplication, IsWork, IsInsert, IsDelete
    <3>3. /\ l.application = work.application
          /\ "status" \in DOMAIN work.writes
          /\ work.writes["status"] = "Approved"
      <4>1. PICK e \in HistoryRow : work.entries = <<e>> /\ e.toStatus = "Approved"
        BY <3>1, <3>2 DEF IsChange, AreLeases
      <4>2. l.application = work.application
        BY <3>1, <3>2 DEF IsChange, AreLeases
      <4>3. CASE work.entries = <<>> /\ "status" \notin DOMAIN work.writes
        BY <4>1, <4>3
      <4>4. ASSUME NEW h \in HistoryRow, work.entries = <<h>>,
                   "status" \in DOMAIN work.writes, work.writes["status"] = h.toStatus
            PROVE  "status" \in DOMAIN work.writes /\ work.writes["status"] = "Approved"
        <5>1. h = e
          BY <4>1, <4>4
        <5>2. QED
          BY <4>1, <4>4, <5>1
      <4>5. QED
        BY <3>2, <4>2, <4>3, <4>4 DEF IsChange, AreEntries
    <3>4. applications'[l.application].status = "Approved"
      BY <3>1, <3>3, SavedStatus DEF Inv, Tables, TablesTyped
    <3>5. l.endDate = EndDateFor(l.startDate)
      BY <1>1, <3>1, <3>2 DEF ApprovalsFit, ApprovalFits
    <3>6. QED
      BY <3>4, <3>5
  <2>3. QED
    BY <2>1, <2>2
<1>8. ASSUME NEW a \in DOMAIN applications', applications'[a].status = "Approved"
      PROVE  \E l \in leases' : l.application = a
  <2>1. CASE a \in DOMAIN applications /\ applications[a].status = "Approved"
    BY <1>2, <1>6, <2>1
  <2>2. CASE SaveApplication(work)
    <3>1. CASE "status" \in DOMAIN work.writes /\ a = work.application
      <4>1. work.kind = "Application" /\ work.writes["status"] = "Approved"
            /\ leases' = leases \cup work.leases
        BY <1>8, <2>2, <3>1, SavedStatus DEF Inv, Tables, TablesTyped, SaveApplication
      <4>2. CASE work.leases # {}
        <5>1. IsChange(work)
          BY <1>1, <4>1 DEF IsWork, IsInsert, IsDelete
        <5>2. QED
          BY <3>1, <4>1, <4>2, <5>1 DEF IsChange, AreLeases
      <4>3. CASE work.leases = {}
        BY <1>1, <1>2, <3>1, <4>1, <4>3 DEF ApprovalsFit, ApprovalFits
      <4>4. QED
        BY <4>2, <4>3
    <3>2. CASE ~("status" \in DOMAIN work.writes /\ a = work.application)
      <4>1. a \in DOMAIN applications /\ applications[a].status = "Approved"
        BY <1>8, <2>2, <3>2, SavedStatus DEF Inv, Tables, TablesTyped
      <4>2. QED
        BY <2>1, <4>1
    <3>3. QED
      BY <3>1, <3>2
  <2>3. CASE SaveInsert(work)
    <3>1. work.row.status = "Draft"
      <4>1. work.kind = "Insert"
        BY <2>3 DEF SaveInsert
      <4>2. PICK u \in Units, p \in Applicants : work.row = StartedApplication(u, p)
        BY <1>1, <4>1 DEF IsWork, IsChange, IsInsert, IsDelete
      <4>3. QED
        BY <4>2 DEF StartedApplication
    <3>2. QED
      BY <1>8, <2>1, <2>3, <3>1 DEF SaveInsert
  <2>4. CASE SaveDelete(work)
    BY <1>8, <2>1, <2>4 DEF SaveDelete
  <2>5. QED
    BY <2>2, <2>3, <2>4 DEF Commits, Save
<1>9. QED
  BY <1>3, <1>5, <1>7, <1>8 DEF ApprovedIffLeased, LeasesMatch

\* An application is Approved exactly when it has its lease as long as no two
\* decisions about one application overlap: whatever other requests run at the
\* same time and however often a save is sent again (ReviewAsync saves the status
\* and the lease together; a stale decision that overwrites the status would leave
\* a lease without an approved application).
THEOREM DecisionsApartMatchLeases ==
    ConcurrentSpec /\ []DecisionsApart => []ApprovedIffLeased
<1>1. ConcurrentInit => ApprovalsFit /\ ApprovedIffLeased
  BY SeedAssumption DEF ConcurrentInit, Init, ApprovalsFit, ApprovedIffLeased
<1>2. Inv /\ Inv' /\ DecisionsApart /\ DecisionsFit /\ ApprovalsFit /\ ApprovedIffLeased
         /\ [ConcurrentNext]_allVars => ApprovalsFit' /\ ApprovedIffLeased'
  <2> SUFFICES ASSUME Inv, Inv', DecisionsApart, DecisionsFit, ApprovalsFit,
                      ApprovedIffLeased, [ConcurrentNext]_allVars
               PROVE  ApprovalsFit' /\ ApprovedIffLeased'
    OBVIOUS
  <2>1. CASE \E s \in Slots : Commits(s)
    BY <2>1, ApprovalCommits
  <2>2. CASE Rests \/ \E s \in Slots : Arrives(s) \/ Queries(s) \/ Refuse(s)
    <3>1. /\ UNCHANGED <<applications, leases>>
          /\ \A t \in Slots : requests'[t] # Idle =>
                \/ Decided(requests'[t].phase, requests'[t].work)
                \/ requests[t] # Idle /\ requests'[t].work = requests[t].work
      BY <2>2, QuietStep DEF Rests
    <3>2. \A t \in Slots : requests'[t] # Idle => ApprovalFits(requests'[t].work)
      BY <3>1, ApprovalDecidedFits DEF ApprovalsFit, Inv, Tables, TablesTyped
    <3>3. QED
      BY <3>1, <3>2 DEF ApprovalsFit, ApprovalFits, ApprovedIffLeased
  <2>3. QED
    BY <2>1, <2>2, StepKinds
<1>3. QED
  BY InvHolds, DecisionsAlwaysFit, <1>1, <1>2, PTL DEF ConcurrentSpec

----------------------------------------------------------------------------
(* The trail of an application *)

\* No decision about an application is sent again.
DecisionsSentOnce == \A s \in Slots : Decides(s) => requests[s].attempts = 0

\* The entry a decision brings starts from the status of its application.
TrailFits(work) ==
    work.kind = "Application" /\ work.application \in DOMAIN applications =>
        \A i \in 1..Len(work.entries) :
            work.entries[i].fromStatus = applications[work.application].status

TrailsFit == \A s \in Slots : requests[s] # Idle => TrailFits(requests[s].work)

\* Each entry starts where the one before it ended.
IsChained(row) ==
    /\ row.history[1].toStatus = "Draft"
    /\ \A i \in 2..Len(row.history) :
          row.history[i].fromStatus = row.history[i-1].toStatus

TrailsChained == \A a \in DOMAIN applications : IsChained(applications[a])

LEMMA ChainedTrails ==
    ASSUME Inv, TrailsChained
    PROVE  AuditTrail
BY DEF Inv, Tables, TrailsLegal, IsLegal, IsEntitled, Reviews, TrailsChained, IsChained,
       AuditTrail, IsAuditTrail, IsAttributed

\* What has just been decided starts from the status that was read.
LEMMA TrailDecidedFits ==
    ASSUME TypeOK, NEW phase, NEW work, Decided(phase, work), IsWork(work)
    PROVE  TrailFits(work)
<1> DEFINE a == work.application
           row == applications[a]
           after == SavedRow(row, work)
<1>1. SUFFICES ASSUME work.kind = "Application", a \in DOMAIN applications
               PROVE  \A i \in 1..Len(work.entries) : work.entries[i].fromStatus = row.status
  BY DEF TrailFits
<1>2. ChangeDecided(work)
  BY <1>1 DEF Decided, StartDecided, Insert, RemovalDecided, Delete
<1>3. AreEntries(work.entries, work.writes)
  BY <1>1 DEF IsWork, IsChange, IsInsert, IsDelete
<1>4. row \in ApplicationRow /\ row.history \in Seq(HistoryRow)
  BY <1>1 DEF TypeOK, ApplicationRow
<1>5. CASE work.entries = <<>>
  BY <1>5
<1>6. ASSUME NEW e \in HistoryRow, work.entries = <<e>>
      PROVE  e.fromStatus = row.status
  <2>1. after.history = row.history \o <<e>>
    BY <1>4, <1>6 DEF SavedRow, ApplicationRow
  <2>2. /\ Len(after.history) = Len(row.history) + 1
        /\ after.history[Len(row.history) + 1] = e
    BY <1>4, <1>6, <2>1
  <2> HIDE DEF after
  <2>3. after.history # row.history
    BY <1>4, <2>2
  <2>4. ASSUME NEW to, NEW user, NEW c,
               after.history = TransitionTo(row, to, user, c).history
        PROVE  e.fromStatus = row.status
    <3> DEFINE f == [fromStatus |-> row.status, toStatus |-> to,
                     changedBy |-> user, comment |-> Trimmed(c)]
    <3>1. after.history = Append(row.history, f)
      BY <1>4, <2>4 DEF TransitionTo, ApplicationRow
    <3>2. after.history[Len(row.history) + 1] = f
      BY <1>4, <3>1
    <3>3. QED
      BY <2>2, <3>2
  <2>5. ASSUME NEW o, NEW m, NEW c, after = Reviewed(row, o, m, c)
        PROVE  e.fromStatus = row.status
    <3>1. after.history = TransitionTo(row, ToStatus[o], m, c).history
      BY <1>4, <2>5 DEF Reviewed, TransitionTo, ApplicationRow
    <3>2. QED
      BY <2>4, <3>1
  <2>6. CASE InformationDecided(work, a, after)
    BY <1>4, <2>3, <2>6 DEF InformationDecided, ApplicationRow
  <2>7. CASE HistoryDecided(work, a, after)
    BY <1>4, <2>3, <2>7 DEF HistoryDecided, ApplicationRow
  <2>8. CASE NotesDecided(work, a, after)
    BY <1>4, <2>3, <2>8 DEF NotesDecided, ApplicationRow
  <2>9. CASE ResidencesDecided(work, a, after)
    <3>1. \/ after = row
          \/ \E r \in ResidenceIds :
                after = [row EXCEPT !.residencesCompleted =
                            IF ResidencesOf(a) = {r} THEN FALSE ELSE @]
      BY <2>9, Zenon DEF ResidencesDecided
    <3>2. QED
      BY <1>4, <2>3, <3>1 DEF ApplicationRow
  <2>10. CASE SubmissionDecided(work, a, after)
    <3>1. PICK p \in Applicants :
             after = [TransitionTo(row, "Submitted", p, NoText) EXCEPT !.reviewComment = NoText]
      BY <2>10 DEF SubmissionDecided
    <3>2. after.history = TransitionTo(row, "Submitted", p, NoText).history
      BY <1>4, <3>1 DEF TransitionTo, ApplicationRow
    <3>3. QED
      BY <2>4, <3>2
  <2>11. CASE WithdrawalDecided(work, a, after)
    BY <2>4, <2>11 DEF WithdrawalDecided
  <2>12. CASE RejectionDecided(work, a, after)
    BY <2>5, <2>12 DEF RejectionDecided
  <2>13. CASE ApprovalDecided(work, a, after)
    BY <2>5, <2>13 DEF ApprovalDecided
  <2>14. RowDecided(work, a, after) \/ ApprovalDecided(work, a, after)
            \/ ResidencesDecided(work, a, after)
    BY <1>2 DEF ChangeDecided, after
  <2>15. QED
    BY <2>6, <2>7, <2>8, <2>9, <2>10, <2>11, <2>12, <2>13, <2>14 DEF RowDecided
<1>7. ASSUME NEW e \in HistoryRow, work.entries = <<e>>, NEW i \in 1..Len(work.entries)
      PROVE  work.entries[i] = e
  BY <1>7
<1>8. QED
  BY <1>3, <1>5, <1>6, <1>7 DEF AreEntries

\* An entry is saved after the one that led to the status it starts from.
LEMMA TrailCommits ==
    ASSUME Inv, Inv', DecisionsApart, DecisionsSentOnce', TrailsFit, TrailsChained,
           NEW s \in Slots, Commits(s)
    PROVE  TrailsFit' /\ TrailsChained'
<1> DEFINE work == requests[s].work
<1>1. /\ requests[s] # Idle
      /\ IsWork(work)
      /\ \A t \in Slots : requests'[t] # Idle =>
            requests[t] # Idle /\ requests'[t].work = requests[t].work
  BY CommitStep
<1>2. TypeOK /\ DOMAIN applications \subseteq issuedApplicationIds
  BY DEF Inv, Tables, TablesTyped
<1>3. ASSUME NEW t \in Slots, requests[t] # Idle, requests[t].work.kind = "Application"
      PROVE  /\ requests[t].work.application \in issuedApplicationIds
             /\ AreEntries(requests[t].work.entries, requests[t].work.writes)
  BY <1>3 DEF Inv, RequestsSound, IsRequest, StillSuits, IsWork, IsChange, IsInsert, IsDelete
<1>4. ASSUME \A a \in DOMAIN applications' \cap issuedApplicationIds :
                a \in DOMAIN applications /\ applications'[a] = applications[a]
      PROVE  TrailsFit'
  BY <1>1, <1>3, <1>4 DEF TrailsFit, TrailFits
<1>5. CASE SaveApplication(work)
  <2>1. ASSUME NEW t \in Slots, requests'[t] # Idle,
               requests'[t].work.kind = "Application",
               requests'[t].work.application \in DOMAIN applications',
               NEW i \in 1..Len(requests'[t].work.entries)
        PROVE  requests'[t].work.entries[i].fromStatus
                  = applications'[requests'[t].work.application].status
    <3> DEFINE a == requests[t].work.application
    <3>1. requests[t] # Idle /\ requests'[t].work = requests[t].work
      BY <1>1, <2>1
    <3>2. a \in DOMAIN applications
      BY <1>2, <1>5, <2>1, <3>1, SavedStatus
    <3>3. requests[t].work.entries[i].fromStatus = applications[a].status
      BY <2>1, <3>1, <3>2 DEF TrailsFit, TrailFits
    <3>4. Decides(t) /\ Decides(t)'
      <4>1. requests[t].work.entries # <<>>
        BY <2>1, <3>1
      <4>2. QED
        BY <1>3, <2>1, <3>1, <4>1 DEF AreEntries, Decides, Saves
    <3>5. t # s
      BY <3>4, ResentCounts DEF DecisionsSentOnce, Decides, Saves
    <3>6. applications'[a].status = applications[a].status
      <4>1. a = work.application => "status" \notin DOMAIN work.writes
        BY <1>1, <1>2, <1>5, <3>4, <3>5, SavedStatus DEF DecisionsApart, Decides, Saves
      <4>2. QED
        BY <1>2, <1>5, <3>2, <4>1, SavedStatus
    <3>7. QED
      BY <3>1, <3>3, <3>6
  <2>2. TrailsFit'
    BY <2>1 DEF TrailsFit, TrailFits
  <2>3. ASSUME NEW a \in DOMAIN applications'
        PROVE  IsChained(applications'[a])
    <3>1. a \in DOMAIN applications /\ IsChained(applications[a])
      BY <1>2, <1>5, SavedStatus DEF TrailsChained
    <3>2. CASE a # work.application
      BY <1>2, <1>5, <3>1, <3>2, SavedStatus
    <3>3. CASE a = work.application
      <4> DEFINE row == applications[a]
                 after == applications'[a]
                 n == Len(row.history)
      <4>1. row \in ApplicationRow /\ row.history \in Seq(HistoryRow)
        BY <1>2, <3>1 DEF TypeOK, ApplicationRow
      <4>2. after.history = row.history \o work.entries
        BY <1>5, <3>1, <3>3, <4>1 DEF SaveApplication, SavedRow, ApplicationRow
      <4>3. n \in Nat /\ n >= 1 /\ row.history[n].toStatus = row.status
        BY <3>1, <4>1 DEF Inv, Tables, TrailsLegal, IsLegal
      <4>4. work.kind = "Application"
        BY <1>5 DEF SaveApplication
      <4>5. CASE work.entries = <<>>
        <5>1. after.history = row.history
          BY <4>1, <4>2, <4>5
        <5>2. QED
          BY <3>1, <5>1 DEF IsChained
      <4>6. ASSUME NEW e \in HistoryRow, work.entries = <<e>>
            PROVE  IsChained(after)
        <5>1. e.fromStatus = row.status
          BY <1>1, <3>1, <3>3, <4>4, <4>6 DEF TrailsFit, TrailFits
        <5>2. /\ Len(after.history) = n + 1
              /\ \A i \in 1..n : after.history[i] = row.history[i]
              /\ after.history[n + 1] = e
          BY <4>1, <4>2, <4>6
        <5> HIDE DEF after, n
        <5>3. ASSUME NEW i \in 2..Len(after.history)
              PROVE  after.history[i].fromStatus = after.history[i-1].toStatus
          <6>1. CASE i = n + 1
            <7>1. i - 1 = n /\ n \in 1..n
              BY <4>3, <6>1
            <7>2. QED
              BY <4>3, <5>1, <5>2, <6>1, <7>1
          <6>2. CASE i # n + 1
            <7>1. i \in 2..n /\ i \in 1..n /\ i - 1 \in 1..n
              BY <4>3, <5>2, <6>2
            <7>2. QED
              BY <3>1, <5>2, <7>1 DEF IsChained, n
          <6>3. QED
            BY <6>1, <6>2
        <5>4. after.history[1].toStatus = "Draft"
          BY <3>1, <4>3, <5>2 DEF IsChained
        <5>5. QED
          BY <5>3, <5>4 DEF IsChained
      <4>7. QED
        BY <1>1, <1>3, <4>4, <4>5, <4>6 DEF AreEntries
    <3>4. QED
      BY <3>2, <3>3
  <2>4. QED
    BY <2>2, <2>3 DEF TrailsChained
<1>6. CASE SaveInsert(work)
  <2>1. PICK new \in ApplicationIds \ issuedApplicationIds :
           applications' = [b \in DOMAIN applications \cup {new} |->
                               IF b = new THEN work.row ELSE applications[b]]
    BY <1>6 DEF SaveInsert
  <2>2. TrailsFit'
    BY <1>1, <1>2, <1>3, <2>1 DEF TrailsFit, TrailFits
  <2>3. IsChained(work.row)
    <3>1. work.kind = "Insert"
      BY <1>6 DEF SaveInsert
    <3>2. PICK u \in Units, p \in Applicants : work.row = StartedApplication(u, p)
      BY <1>1, <3>1 DEF IsWork, IsChange, IsInsert, IsDelete
    <3>3. QED
      BY <3>2 DEF StartedApplication, IsChained
  <2>4. QED
    BY <2>1, <2>2, <2>3 DEF TrailsChained
<1>7. CASE SaveDelete(work)
  <2>1. \A a \in DOMAIN applications' :
           a \in DOMAIN applications /\ applications'[a] = applications[a]
    BY <1>7 DEF SaveDelete
  <2>2. QED
    BY <1>4, <2>1 DEF TrailsChained
<1>8. QED
  BY <1>5, <1>6, <1>7 DEF Commits, Save

\* The history of an application is one path of the state machine, from its start
\* to its present status, as long as no two decisions about one application
\* overlap and none is sent again after a lost answer: whatever other requests run
\* at the same time (RentalApplication.TransitionTo appends an entry from the
\* status it has read; a decision sent again appends its entry twice).
THEOREM DecisionsApartKeepTheTrail ==
    ConcurrentSpec /\ []DecisionsApart /\ []DecisionsSentOnce => []AuditTrail
<1>1. ConcurrentInit => TrailsFit /\ TrailsChained
  BY SeedAssumption DEF ConcurrentInit, Init, TrailsFit, TrailsChained, IsChained, IsAuditTrail
<1>2. Inv /\ Inv' /\ DecisionsApart /\ DecisionsSentOnce' /\ TrailsFit /\ TrailsChained
         /\ [ConcurrentNext]_allVars => TrailsFit' /\ TrailsChained'
  <2> SUFFICES ASSUME Inv, Inv', DecisionsApart, DecisionsSentOnce', TrailsFit,
                      TrailsChained, [ConcurrentNext]_allVars
               PROVE  TrailsFit' /\ TrailsChained'
    OBVIOUS
  <2>1. CASE \E s \in Slots : Commits(s)
    BY <2>1, TrailCommits
  <2>2. CASE Rests \/ \E s \in Slots : Arrives(s) \/ Queries(s) \/ Refuse(s)
    <3>1. /\ applications' = applications
          /\ \A t \in Slots : requests'[t] # Idle =>
                \/ Decided(requests'[t].phase, requests'[t].work)
                \/ requests[t] # Idle /\ requests'[t].work = requests[t].work
      BY <2>2, QuietStep DEF Rests
    <3>2. \A t \in Slots : requests'[t] # Idle => IsWork(requests'[t].work)
      BY DEF Inv, RequestsSound, IsRequest
    <3>3. \A t \in Slots : requests'[t] # Idle => TrailFits(requests'[t].work)
      BY <3>1, <3>2, TrailDecidedFits DEF TrailsFit, Inv, Tables, TablesTyped
    <3>4. QED
      BY <3>1, <3>3 DEF TrailsFit, TrailFits, TrailsChained
  <2>3. QED
    BY <2>1, <2>2, StepKinds
<1>3. Inv /\ TrailsChained => AuditTrail
  BY ChainedTrails
<1>4. QED
  BY InvHolds, <1>1, <1>2, <1>3, PTL DEF ConcurrentSpec

----------------------------------------------------------------------------
(* Requests without conflicts *)

\* Everything the lifecycle promises holds of handlers that overlap, as long as no
\* two under way are in each other's way, only saves that may be repeated are sent
\* again and the date does not change beside work that needs a unit free: they act
\* as the use cases do.
THEOREM ConflictsApartKeepTheLifecycle ==
    ConcurrentSpec /\ []ConflictsApart
            /\ [][RepeatsAreSafe]_allVars /\ [][DaysPassAside]_allVars
        => /\ []NoDoubleLetting /\ []ApprovedIffLeased /\ []OneOpenApplication
           /\ []AuditTrail /\ []FeedbackIsCurrent /\ []SectionsComplete
           /\ DecisionsAreFinal /\ TrailOnlyGrows /\ SubmittedContentIsFrozen
           /\ KeepsOccupancy
BY RequestsWithoutConflictsAreAtomic, NoDoubleLettingHolds, ApprovedIffLeasedHolds,
   OneOpenHolds, AuditTrailHolds, FeedbackHolds, SectionsCompleteHolds, DecisionsStand,
   TrailGrowth, ContentStaysFrozen, LifecycleKeepsOccupancy, PTL DEF ActsAtomically

=============================================================================
