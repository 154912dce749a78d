------------------------------ MODULE Startup ------------------------------
(***************************************************************************)
(* The start of the web application: it seeds the database                 *)
(* (PropertyManagement.Infrastructure/Seeding/DbSeeder.cs, SeedAsync) and  *)
(* only then serves requests (PropertyManagement.Web/Program.cs), among    *)
(* them registrations (AccountController.Register).  Every save is a step. *)
(* The process may stop between any two; it is then started again, perhaps *)
(* on a later day, and finds what had been saved.                          *)
(***************************************************************************)
EXTENDS DbSeeder, FiniteSets

CONSTANTS
    ManagerOrder,      \* seeded managers and applicants, by their number
    ApplicantOrder,
    Visitors,          \* e-mail addresses people register with
    UnitTypeNames,     \* active and inactive
    UnitOrder,         \* the seeded units, as they are shuffled
    ApplicationOrder,  \* identity values of the applications table, in order
    MonthsDrawn        \* bound: ages of an active lease, of the 1..10 the code draws

VARIABLES
    step,          \* where the process is: down, in a step of SeedAsync, or serving
    cursor,        \* the loop of that step: the role or user it has reached
    registering,   \* registrations whose account exists and whose role is to come
    roles,         \* the tables: roles,
    accounts,      \*   users, each with its roles,
    unitTypes, units, applications, residences, leases,
    today          \* the server's local date

process == <<step, cursor, registering>>

identity == <<roles, accounts>>

rentals == <<units, applications, residences, leases>>

vars == <<process, identity, unitTypes, rentals, today>>

RoleOrder == <<"Applicant", "PropertyManager">>

Roles == {"Applicant", "PropertyManager"}

SeedOrder == ManagerOrder \o ApplicantOrder

SeededUsers == {SeedOrder[i] : i \in 1..Len(SeedOrder)}

SeedRole(user) == IF user \in Managers THEN "PropertyManager" ELSE "Applicant"

Calendar == INSTANCE GregorianCalendar

PlannedUnits == {UnitOrder[i] : i \in 1..Len(UnitOrder)}

\* There are seeded users, and as many units and ids as the plan has places.
ASSUME StartupAssumption ==
    /\ ManagerOrder \in Seq(Managers) /\ Len(ManagerOrder) > 0
    /\ ApplicantOrder \in Seq(Applicants) /\ Len(ApplicantOrder) > 0
    /\ UnitOrder \in Seq(Units)
    /\ Len(UnitOrder) >= Len(Plan)
    /\ \A i, j \in 1..Len(UnitOrder) : UnitOrder[i] = UnitOrder[j] => i = j
    /\ ApplicationOrder \in Seq(ApplicationIds)
    /\ Len(ApplicationOrder) > Len(Plan)
    /\ \A i, j \in 1..Len(ApplicationOrder) : ApplicationOrder[i] = ApplicationOrder[j] => i = j

\* AddMonths is the platform's, on dates from March of the year 2 on: the terms that
\* began fourteen months before them are in the calendar too.
ASSUME SeedingDatesAssumption ==
    /\ MonthsDrawn \subseteq 1..10
    /\ Days \subseteq Nat
    /\ \A d \in Days : d >= Calendar!DayNumber(2, 3, 1)
    /\ \A d \in Days, n \in 1..14 :
          LET start == Calendar!PlusMonths(d, -n)
          IN  /\ AddMonths(d, -n) = start
              /\ AddMonths(start, TermMonths) = Calendar!PlusMonths(start, TermMonths)

NoRows == [x \in {} |-> NoText]

\* One row more in a table.
Added(table, key, row) == [k \in DOMAIN table \cup {key} |-> IF k = key THEN row ELSE table[k]]

Init ==
    /\ step = "down" /\ cursor = 1 /\ registering = {}
    /\ roles = {} /\ accounts = NoRows
    /\ unitTypes = {} /\ units = {}
    /\ applications = NoRows /\ residences = NoRows /\ leases = {}
    /\ today \in Days

----------------------------------------------------------------------------
(* The process *)

\* Migrations have been applied when the first step of the seeder is reached.
StartProcess ==
    /\ step = "down"
    /\ step' = "roles" /\ cursor' = 1
    /\ UNCHANGED <<registering, identity, unitTypes, rentals, today>>

\* What the process had in memory is lost.
Stop ==
    /\ step # "down"
    /\ step' = "down" /\ cursor' = 1 /\ registering' = {}
    /\ UNCHANGED <<identity, unitTypes, rentals, today>>

DaysPass ==
    /\ \E d \in Days : d > today /\ today' = d
    /\ UNCHANGED <<process, identity, unitTypes, rentals>>

----------------------------------------------------------------------------
(* SeedAsync *)

\* Faulty variant: the loop goes one item too far.
GoOnPast(n, next, step2) ==
    IF cursor <= n THEN step' = step2 /\ cursor' = cursor + 1
                   ELSE step' = next  /\ cursor' = 1

\* The loop over n items goes on, or the step after it begins.
GoOn(n, next, step2) ==
    IF cursor < n THEN step' = step2 /\ cursor' = cursor + 1
                  ELSE step' = next  /\ cursor' = 1

SeedARole ==
    /\ step = "roles"
    /\ roles' = roles \cup {RoleOrder[cursor]}
    /\ GoOn(Len(RoleOrder), "unitTypes", "roles")
    /\ UNCHANGED <<registering, accounts, unitTypes, rentals, today>>

\* The missing ones are inserted together.
SeedUnitTypes ==
    /\ step = "unitTypes"
    /\ unitTypes' = unitTypes \cup UnitTypeNames
    /\ step' = "accounts" /\ cursor' = 1
    /\ UNCHANGED <<registering, identity, rentals, today>>

\* Faulty variant: an account is created without looking for it first, and the
\* start goes on when that succeeds.
SeedAccountUnchecked ==
    /\ step = "accounts"
    /\ SeedOrder[cursor] \notin DOMAIN accounts
    /\ accounts' = Added(accounts, SeedOrder[cursor], {})
    /\ step' = "membership"
    /\ UNCHANGED <<cursor, registering, roles, unitTypes, rentals, today>>

\* Faulty variant: only a new account is given its role.
SeedAccountSkipping ==
    /\ step = "accounts"
    /\ LET user == SeedOrder[cursor]
       IN  IF user \in DOMAIN accounts
           THEN accounts' = accounts /\ GoOn(Len(SeedOrder), "properties", "accounts")
           ELSE step' = "membership" /\ cursor' = cursor /\ accounts' = Added(accounts, user, {})
    /\ UNCHANGED <<registering, roles, unitTypes, rentals, today>>

SeedAccount ==
    /\ step = "accounts"
    /\ LET user == SeedOrder[cursor]
       IN  accounts' = IF user \in DOMAIN accounts THEN accounts ELSE Added(accounts, user, {})
    /\ step' = "membership"
    /\ UNCHANGED <<cursor, registering, roles, unitTypes, rentals, today>>

\* An account that a stop has left without its role is given it now.
SeedMembership ==
    /\ step = "membership"
    /\ LET user == SeedOrder[cursor]
       IN  accounts' = [accounts EXCEPT ![user] = @ \cup {SeedRole(user)}]
    /\ GoOn(Len(SeedOrder), "properties", "accounts")
    /\ UNCHANGED <<registering, roles, unitTypes, rentals, today>>

\* Properties and units in one save, unless there is a property: a property
\* without units cannot be the only one, since applications keep units.
SeedProperties ==
    /\ step = "properties"
    /\ units' = IF units = {} THEN PlannedUnits ELSE units
    /\ step' = "applications" /\ cursor' = 1
    /\ UNCHANGED <<registering, identity, unitTypes, applications, residences, leases,
                   today>>

ActivePlaces == {i \in 1..Len(Plan) : Plan[i].active}

\* The place after the plan's: a submitted application for the first unit that has
\* an active lease.
BlockedPlace == Len(Plan) + 1

FirstActive == CHOOSE i \in ActivePlaces : \A j \in ActivePlaces : i <= j

RowAt(i, manager, answers, comment) ==
    IF i = BlockedPlace
    THEN SeededApplication("Submitted", UnitOrder[FirstActive],
                           ApplicantOrder[Len(ApplicantOrder)], manager, answers, comment)
    ELSE SeededApplication(Plan[i].status, UnitOrder[i],
                           ApplicantOrder[((i - 1) % Len(ApplicantOrder)) + 1],
                           manager, answers, comment)

\* Faulty variant: an active lease may have begun a year ago.
UpToAYearAgo(i, months) == IF i \in ActivePlaces THEN months[i] + 2 ELSE 14

MonthsAgo(i, months) == IF i \in ActivePlaces THEN months[i] ELSE 14

\* Identity values are handed out in the order of insertion.
PlaceOf(a) == CHOOSE i \in 1..BlockedPlace : ApplicationOrder[i] = a

\* The rows of the plan with their residences and leases, in one save.  A draft may
\* have residences, every other application has.
InsertApplications ==
    \E months \in [ActivePlaces -> MonthsDrawn], manager \in Managers,
       answers \in Answers, comment \in Comments :
          LET ids    == {ApplicationOrder[i] : i \in 1..BlockedPlace}
              rows   == [a \in ids |-> RowAt(PlaceOf(a), manager, answers, comment)]
              drafts == {a \in ids : rows[a].status = "Draft"}
          IN  /\ applications' = rows
              /\ \E housed \in SUBSET drafts :
                    residences' = [a \in housed \cup (ids \ drafts) |-> [application |-> a]]
              /\ leases' = {SeededLease(a, rows[a], today, MonthsAgo(PlaceOf(a), months)) :
                               a \in {b \in ids : rows[b].status = "Approved"}}

\* Faulty variant: the applications are inserted on every start.
SeedApplicationsAlways ==
    /\ step = "applications"
    /\ InsertApplications
    /\ step' = "serving" /\ cursor' = 1
    /\ UNCHANGED <<registering, identity, unitTypes, units, today>>

\* Skipped when there is an application; the server serves from then on.
SeedApplications ==
    /\ step = "applications"
    /\ IF DOMAIN applications = {}
       THEN InsertApplications
       ELSE UNCHANGED <<applications, residences, leases>>
    /\ step' = "serving" /\ cursor' = 1
    /\ UNCHANGED <<registering, identity, unitTypes, units, today>>

Seed ==
    \/ SeedARole
    \/ SeedUnitTypes
    \/ SeedAccount
    \/ SeedMembership
    \/ SeedProperties
    \/ SeedApplications

----------------------------------------------------------------------------
(* While the server serves: registrations, and a removal as an example of     *)
(* what managers do to seeded rows                                            *)

\* Faulty variant: the answer of CreateAsync is not looked at.
RegisterAnyway(user, role) ==
    /\ step = "serving"
    /\ accounts' = IF user \in DOMAIN accounts THEN accounts ELSE Added(accounts, user, {})
    /\ registering' = registering \cup {[user |-> user, role |-> role]}
    /\ UNCHANGED <<step, cursor, roles, unitTypes, rentals, today>>

\* Register, first save: refused when the address has an account.
Register(user, role) ==
    /\ step = "serving"
    /\ user \notin DOMAIN accounts
    /\ accounts' = Added(accounts, user, {})
    /\ registering' = registering \cup {[user |-> user, role |-> role]}
    /\ UNCHANGED <<step, cursor, roles, unitTypes, rentals, today>>

\* Register, second save; the user is signed in.
JoinRole(r) ==
    /\ r \in registering
    /\ accounts' = [accounts EXCEPT ![r.user] = @ \cup {r.role}]
    /\ registering' = registering \ {r}
    /\ UNCHANGED <<step, cursor, roles, unitTypes, rentals, today>>

\* The second save fails and the request with it: the account stays as it is.
RegisterFails(r) ==
    /\ r \in registering
    /\ registering' = registering \ {r}
    /\ UNCHANGED <<step, cursor, identity, unitTypes, rentals, today>>

\* CatalogService.DeleteUnitAsync
RemoveUnit(unit) ==
    /\ step = "serving"
    /\ unit \in units
    /\ \A a \in DOMAIN applications : applications[a].unit # unit
    /\ units' = units \ {unit}
    /\ UNCHANGED <<process, identity, unitTypes, applications, residences, leases,
                   today>>

----------------------------------------------------------------------------
Next ==
    \/ StartProcess
    \/ Stop
    \/ DaysPass
    \/ Seed
    \/ \E user \in Visitors, role \in Roles : Register(user, role)
    \/ \E r \in registering : JoinRole(r) \/ RegisterFails(r)
    \/ \E unit \in Units : RemoveUnit(unit)

\* A stopped process is started again (restart: unless-stopped in
\* docker-compose.yml) and a started one runs.
Fairness == WF_vars(StartProcess) /\ WF_vars(Seed)

Spec == Init /\ [][Next]_vars /\ Fairness

----------------------------------------------------------------------------
(* Properties *)

Steps == {"down", "roles", "unitTypes", "accounts", "membership", "properties",
          "applications", "serving"}

TypeOK ==
    /\ step \in Steps
    /\ cursor \in 1..(IF step = "roles" THEN Len(RoleOrder) ELSE Len(SeedOrder))
    /\ registering \subseteq [user : DOMAIN accounts, role : Roles]
    /\ roles \subseteq Roles
    /\ accounts \in [DOMAIN accounts -> SUBSET Roles]
    /\ DOMAIN accounts \subseteq SeededUsers \cup Visitors
    /\ unitTypes \subseteq UnitTypeNames
    /\ units \subseteq Units
    /\ applications \in [DOMAIN applications -> ApplicationRow]
    /\ DOMAIN applications \subseteq ApplicationIds
    /\ today \in Days

\* Requests are served only over a database that has all it was to be seeded with,
\* however often the starts before were cut off, and that database keeps what the
\* use cases rely on (RentalApplicationService, SeedAssumption).
ServesSeeded ==
    step = "serving" =>
        /\ roles = Roles
        /\ unitTypes = UnitTypeNames
        /\ \A user \in SeededUsers :
              user \in DOMAIN accounts /\ accounts[user] = {SeedRole(user)}
        /\ {applications[a].status : a \in DOMAIN applications} = ApplicationStatus
        /\ \A a \in DOMAIN applications :
              /\ applications[a].unit \in units
              /\ IsAuditTrail(applications[a])
              /\ IsAttributed(applications[a])
              /\ ShowsCurrentFeedback(applications[a])
        /\ LeasesMatch(applications, leases)
        /\ NoTwoOpen(applications)
        /\ SectionsHold(applications, residences)
        /\ \A k, l \in leases : k.unit = l.unit /\ k # l => TermsDisjoint(k, l)

\* Once it has been seeded, the database is left alone by every later start: its
\* applications stay, and what a manager has removed stays removed (SeedAsync is
\* said to be idempotent).
StartLeavesDataAlone ==
    DOMAIN applications # {} /\ step # "serving" =>
        UNCHANGED <<identity, unitTypes, rentals>>

LaterStartsChangeNothing == [][StartLeavesDataAlone]_vars

\* The term of a lease is a calendar year: it ends on the day before the same
\* date, or on 27 February when it began on a 29th.
IsCalendarYear(l) ==
    LET first == Calendar!DateOf(l.startDate)
        next  == Calendar!DateOf(l.endDate + 1)
    IN  /\ next.year = first.year + 1
        /\ next.month = first.month
        /\ next.day = IF first.month = 2 /\ first.day = 29 THEN 28 ELSE first.day

\* Whatever the day of the seeding, and whatever months and leap days lie behind
\* it: the leases meant to be active are, the one meant to have expired has, the
\* application that is to demonstrate the guard on approvals is blocked by it, and
\* every term is a calendar year (SeedApplicationsAsync, LeaseRules.EndDateFor).
SeededAsPlanned ==
    applications' # applications =>
        LET active == {l \in leases' : IsActiveOn(l, today)}
            unit   == applications'[ApplicationOrder[BlockedPlace]].unit
        IN  /\ {l.application : l \in active} = {ApplicationOrder[i] : i \in ActivePlaces}
            /\ \A l \in leases' \ active : l.endDate < today
            /\ \A d \in Days : ~CanIssueLease({l \in leases' : l.unit = unit}, today, d)
            /\ \A l \in leases' : IsCalendarYear(l)

LeasesSeededAsPlanned == [][SeededAsPlanned]_vars

\* An account has one role at most, as the use cases presuppose (DistinctValues):
\* registering an address again adds none.
OneRoleEach == \A user \in DOMAIN accounts : Cardinality(accounts[user]) <= 1

\* A start comes to serve, however far the earlier ones got before they were cut
\* off, unless the process is stopped again and again.
StartsSucceed == <>[][~Stop]_vars => (step # "serving" ~> step = "serving")

=============================================================================
