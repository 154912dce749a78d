# Verification of Harbor Property Management

TLA+ models of the rental application of this repository (`src/`, ASP.NET Core
MVC, EF Core on SQL Server, Bootstrap), TLC configurations that check them on
small instances, and TLAPS proofs for every value of the constants. Paths below
are relative to the repository; `PROJECT.json` maps every definition to its lines.

## The system

Applicants browse units, start an application, fill in two sections, submit it
and may withdraw it. Property managers maintain properties and units, review
submitted applications (approve with a lease start date, return, deny) and keep
notes. Everything but the client script is one ASP.NET process over one database.

| Component | State | Operations | Hard behaviour | Correct when |
|---|---|---|---|---|
| Workflow rules (`Domain/Rules/ApplicationWorkflow`) | none | predicates on statuses, `ToStatus` | the transition table and the predicates are written separately | the histories it allows are paths of one state machine |
| Lease rules (`Domain/Rules/LeaseRules`) | none | `EndDateFor`, availability, conflicts | inclusive bounds, terms in the past or the future | no day of a unit is let twice |
| Entities (`Domain/Entities`) | one row each | `Start`, `TransitionTo`, `IssueLease` | status, history, comment and lease change together | they agree after every use case |
| Rental-application use cases (`RentalApplicationService`) | applications, residences, history, leases | 10 commands | each decides on loaded rows and saves later | section stamps, comments, decisions and leases stay consistent |
| Property catalog (`CatalogService`) | properties, units | 6 commands, browse queries | several queries before one save; cascades and restricting foreign keys | numbers unique, no orphan units, let units stay |
| Persistence (`ApplicationDbContext`, configurations, migration) | the tables | `SaveChanges` with change tracking, retries | no row versions; a lost answer is retried up to ten times | see "One step at a time" below |
| Seeder (`DbSeeder`) | the initial tables | `SeedAsync` on every start | several saves, skipped when a table has rows | the tables satisfy what the use cases rely on |
| Modal dialog (`wwwroot/js/site.js` and Bootstrap's `Modal`) | tracker, content, listeners, fetches, the refreshed part of the page | open, close, load, submit, replace | Bootstrap ignores `show`/`hide` in transitions; answers in any order | dialogs that should be open open, those that should be closed close; what is reported as saved is on the page |
| Pages and section wizard (`ApplicationQueryService`, `ApplicationsController`, `ResidencesController`) | none | queries, `Continue`, `Back`, paging | flags computed for one moment, used at another | flags agree with the guards of the commands |
| Accounts (`AccountController`, ASP.NET Identity) | users, roles, lock-outs | register, sign in, sign out | account and role are two saves | no account has two roles, seeded ones have theirs |

Controllers translate form posts into service calls; services reach the tables
only through `IApplicationDbContext`; the two services meet in the tables
(`units`, `applications`, `leases`). The client meets the server in the
`X-Modal-Result` header. There are no background jobs and no messages.

### One step at a time

A handler runs queries, decides, and calls `SaveChanges` once. Two handlers of
the server interleave between these points. The models therefore make **each
query and each `SaveChanges` an atomic step** (READ COMMITTED, and a save is one
transaction), and take from the code:

- No entity has a row version: a save writes the columns the handler changed,
  over whatever the row holds by then.
- A save fails as a whole when a row it updates or deletes has gone (EF's affected-row
  check) or when a foreign key or a unique index is violated. These are
  the only things that relate a save to the present state of the tables.
- `EnableRetryOnFailure` (`DependencyInjection.cs:21`): a commit whose answer is
  lost is sent again, with the same work.
- A request may be abandoned (cancellation token, process stop) before it saves.
- A rejected request changes nothing, so it is a disabled action in the atomic
  model, and ends the request in the concurrent ones.

## Modules

| Module | Models | Kind |
|---|---|---|
| `ApplicationWorkflow` | `ApplicationWorkflow.cs`, statuses and outcomes | operators |
| `LeaseRules` | `LeaseRules.cs`; the calendar is the constant `AddMonths` | operators |
| `RentalApplication` | rows of applications, residences, history and leases; `Start`, `TransitionTo`, `IssueLease`; what a row promises (`IsAuditTrail`, `IsAttributed`, `ShowsCurrentFeedback`, ...) | operators |
| `RentalApplicationService` | the 10 commands and `DeleteUnitAsync`, one atomic action each, and the date | state machine |
| `UnitOccupancy` | on every day a unit has at most one tenant, and what is let stays let | abstract specification |
| `ConcurrentRequests` | the same commands split into queries and saves, several requests in progress; extends `RentalApplicationService` | state machine |
| `Catalog` | the six catalog commands split likewise, beside applications being started and approved | state machine |
| `Pages` | the flags, the opening section and the blocking issues of `GetDetailsAsync`, `BrowseUnitsAsync`, the wizard's `Continue`; extends `RentalApplicationService` | operators |
| `ModalDialog` | `site.js` with Bootstrap's `Modal`, and the server's two steps for a posted form: save, then render | state machine |
| `DbSeeder` | the plan of the seeder, the rows of seeded applications and leases | operators |
| `GregorianCalendar` | the platform's `DateOnly`: day numbers, leap years, months added with clamping | operators |
| `Startup` | every save of `SeedAsync`, stops and restarts, the two saves of `Register`; extends `DbSeeder` | state machine |
| `MC...` | small instances | instances |
| `..._proofs` | theorems about the module they are named after; `AtomicRequests_proofs` and `OverlappingRequests_proofs` are about `ConcurrentRequests`, `GregorianCalendar_proofs` about operators | proofs |

State and code: `applications`, `residences`, `leases`, `units`, `properties` are
the tables, functions from ids to rows (in `Catalog`, `properties` is the set of ids, since
nothing is decided by the columns of a property); `history` is a column because entries are
only ever appended with their application. `issuedResidenceIds` (and
`issuedApplicationIds`) are identity columns: a value is never handed out twice. `today`
is the `Today` each service reads from its `TimeProvider`. `requests` holds, per
slot, the operation, the point the handler has reached and the *work* its change
tracker will send. Action names are those of the methods without `Async`;
`ReviewAsync` is `Approve` and `Reject`. Each action that changes a status has two guards on it, as
the code has: the handler's (`CanSubmit`, `CanWithdraw`, `CanReview`) and the one of `TransitionTo` itself
(`AllowsTransition`).

What is abstracted: texts are model values (`NoText` is null, `Blank` is only
whitespace), rents, timestamps and the names and addresses of properties are left out, a unit number is a class of
numbers equal after trimming and collation, the lookup of unit types is constant (no use
case changes it). Applicants and managers are disjoint, since registration gives an
account one role. `Catalog` may recycle an id once no row and no request refers to it,
which nothing can observe.

Definitions marked "Faulty variant" are never used by a specification: each is a
plausible bug, and replacing the code's definition by it violates a property
(`PROJECT.json`, "mutants"), which shows that the property is about the code.

### Composition and refinement

- `RentalApplicationService` implements `UnitOccupancy` (`KeepsOccupancy`): a let
  unit-day is in the image when some lease covers it. Checked and proved.
- `Startup` ends where `RentalApplicationService` begins: `ServesSeeded` is what
  `SeedAssumption` presupposes, stated with the same operators (`LeasesMatch`, `NoTwoOpen`,
  `SectionsHold`, `IsAuditTrail`, ...), for the tables the whole plan of the seeder leaves.
- `Pages` adds to `RentalApplicationService` what is shown in a state; `OffersAgree` compares
  it with `ENABLED` of the command behind each button.
- `ConcurrentRequests` with one slot implements `RentalApplicationService`
  (`ActsAtomically`): splitting the handlers adds no behaviour as long as requests
  do not overlap. With two slots it does, and the violation runs show where. That
  run has one date, because `Today` is read at the start of a handler; the theorem
  `RequestsWithoutConflictsAreAtomic` covers any dates, and any number of requests that overlap
  as long as they are not in each other's way.

## Runs

| Run | Question | Bounds |
|---|---|---|
| `letting` | one request at a time: double letting, approvals and leases, open applications, pages against commands, final decisions, growing trail, `UnitOccupancy` | two rival applications, a third let for its last day, room for a fourth; 3 units, 4 dates (a model day is six months, a term two days), 4 history entries |
| `editing` | sections and stamps, the audit trail, the comment on display, frozen content | one returned application and room for one more, 3 residences, valid, reversed and not-yet-valid dates, 6 history entries: a full second round of submission and review |
| `review_races` | what survives two overlapping submissions, reviews, withdrawals and notes, with a lost answer | one application, 2 slots, one retry |
| `unit_races` | references and leases while a unit is removed under an application | one unit, two application ids, 2 slots |
| `one_at_a_time` | `ActsAtomically`, all 13 operations | one slot, 2 units, 2 application and residence ids |
| `catalog_races` | unique numbers, foreign keys, inactive types, let units, termination; whether the guards cover the schema as long as requests do not overlap | 2 slots, one retry, 2 properties, 2 units (one of each seeded, the unit with an inactive type), 2 numbers, 2 types |
| `modal` | tracker, single submission, dialogs close and appear, the review form, what is on the page | 2 forms and the review form, 1 fetch under way, one form's changes followed to the page |
| `startup` | complete data whatever the stops, later starts leave it alone, calendar terms, roles | the whole plan; 2 managers, 2 applicants, 11 units; 6 dates around ends of months, 29 February and a new year; leases 1 or 10 months old; any number of stops |
| `rival_approvals`, `stale_decision`, `late_application`, `modal_reopens` | statements of the repository that the code does not keep (below) | the smallest instance with the overlap; two forms |

Two slots suffice for the races of interest: each relates what one handler read
to what one other saved; any number of others may precede them in the run,
since slots are reused. One retry shows a re-sent save, applied twice or after
another save; ten differ only in length. Two model days per term over four dates give
adjacent, overlapping and equal terms, terms that start before today, today and later,
and a lease that expires while applications wait. Three forms give the one in the
dialog, the one it replaces and one still under way; one fetch suffices, since the answers
to forms render content beside it. `Followed` names the forms whose changes the model
carries from the save to the page: every form behaves alike, so one is enough to follow.
In `startup` the two ages of an active lease are the ends of the range the code draws
from, and the six seeded applicants are two, which makes the plan wrap around more often,
not less. In `catalog_races` the seeded unit can be removed, so two units are
enough for two additions at a time. `HistoryBound`, `RoomToInsert`,
`RoomToAdd` and `MaxLoads` are the bounds that appear in guards; each is commented at its
definition. `unit_races` does not check deadlock: once its only unit has been removed
nobody has anything left to ask for.

### Properties

Atomic (`RentalApplicationService`): `NoDoubleLetting`, `ApprovedIffLeased`,
`AuditTrail`, `OneOpenApplication`, `SectionsComplete`, `FeedbackIsCurrent`,
`ReferencesHold`; steps: `DecisionsAreFinal`, `TrailOnlyGrows`,
`SubmittedContentIsFrozen`. (`Pages`): `OffersAgree`: a button is offered exactly when its
command would not be refused, a disabled Submit lists its reasons, and a page opens at the
section that is still missing.
Whatever the interleaving (`ConcurrentRequests`): `LeaseHasItsApproval` (one lease
per application, never without the entry of its approval), `EntriesAreLegal` (each entry
is a legal step by someone entitled, although two entries may start from one status),
`ReferencesHold`, `LeasesStay`, `RequestsEnd`. (`Catalog`): `UnitNumbersUnique`,
`UnitsHaveProperty`, `InactiveTypesFade`, `LetUnitsStay`, `RequestsEnd`, and of behaviours
in which requests do not overlap `GuardsSuffice`: a first save fails only if a lease was issued
meanwhile, or if the form of a new unit named the unit that has its number, since
`CreateUnitAsync` hands the posted `Id` to the check (`CatalogService.cs:115`, `222`).
(`ModalDialog`): `TrackerAgrees`, `OneSubmission`,
`SavedDialogsClose` (the answer to a saved form closes its dialog, except when the dialog is
hiding to be shown again), `DialogsAppear`, `SavedIsShown` (an answer that reports a form as saved
shows its change), `ReviewFormAgrees` (the fields follow the outcome, also in a form the server
has sent back).
Across stops (`Startup`): `ServesSeeded`, `LaterStartsChangeNothing` (the seeder calls itself
idempotent), `LeasesSeededAsPlanned` (active, expired and blocking leases on every date, each
term a calendar year), `OneRoleEach`, `StartsSucceed`.

### Fairness

`WF(Advance(s))` for every slot: a request that has been taken is a running handler; its
next query or save needs nothing that another request holds between steps, and a
save either commits or fails. Arrivals, lost answers, abandonment, the date and
applications started or approved beside the catalog are not fair.
`WF(TransitionEnds)` in the dialog: Bootstrap ends a transition on the browser's
`transitionend` or on a timer of its own (`executeAfterTransition`). Answers
to fetches are not assumed to come: the liveness properties of the dialog speak of
what is owed once an answer has come.
`WF(StartProcess)` and `WF(Seed)` in `Startup`: the container is restarted unless it has been
stopped by hand (`docker-compose.yml:30`), and a started process runs. Stops are not bounded, so
`StartsSucceed` presupposes that they cease.

### Disagreements shown

1. `rival_approvals`: the README says an overlapping term is rejected "so a second
   lease can never be issued". Two approvals that both load the leases before either
   saves issue two leases for one unit; no constraint relates the terms of leases.
2. `stale_decision`: "Approved, Denied and Withdrawn are terminal". A withdrawal
   saved between the load and the save of an approval is overwritten.
3. `late_application`: "Removing a property or unit is blocked while it has leases or
   applications". A draft inserted after the query is deleted by the cascade. (Leases
   are safe: their foreign key restricts, see `LeasesStay` and `LetUnitsStay`.)
4. `modal_reopens`: "X-Modal-Result: refresh -> close the modal". A form that is
   rendered while an earlier one fades, and saved before that has faded, finds `closeModal` with nothing
   to do (`site.js:33`); the listener `openModal` has left (`site.js:26`) then shows the saved form
   again, and it stays.

The README lists concurrency handling for multi-applicant applications as not
implemented; the first three are what that costs. They need requests that overlap, and
`OverlappingRequests_proofs` says which: keep that pair apart and the statement holds
whatever else runs at the same time.

Some behaviour of the models is surprising but contradicts no statement. Content
rendered while the dialog is opening is hidden again when an earlier answer has deferred its
close to the end of the opening (`site.js:32`). An older fragment that arrives later takes
a newer change off the page (`site.js:119`). A visitor's account whose registration is cut off
stays without a role (`AccountController.cs:45`). `PROJECT.json` lists them as hazards.

## Proofs

All with TLAPS, for every value of the constants that satisfies the named assumptions:
`DistinctValues` (`RentalApplication`: null and blank differ from texts, applicants
from managers), `CalendarAssumption` (`LeaseRules`: dates are integers and `AddMonths`
yields integers; nothing about month lengths),
`SeedAssumption` (the initial tables are typed and satisfy what the use cases rely on; TLC
evaluates it on the seeder's rows), `RequestAssumption` (`ConcurrentRequests`: retries are a
number, there are finitely many residence ids), `StartupAssumption` (`Startup`: somebody is seeded
in each role, and there are different units and ids enough for the plan), `SeedingDatesAssumption`
(`Startup`: seeding happens on a date of the platform's calendar, from March of year 2 on, and
`AddMonths` is that calendar's for the terms it plans; only `LeasesAreSeededAsPlanned` uses it),
`CatalogAssumption` and `ModalAssumption` likewise.

`RentalApplicationService_proofs`: `TypeCorrect`; the invariants
`NoDoubleLettingHolds`, `ApprovedIffLeasedHolds`, `AuditTrailHolds`, `FeedbackHolds`,
`OneOpenHolds`, `SectionsCompleteHolds`, `ReferencesStand`; the step properties
`DecisionsStand`, `TrailGrowth`, `ContentStaysFrozen`; the refinement
`LifecycleKeepsOccupancy`, and with it `UnitsHaveOneTenant`, what `UnitOccupancy` promises. Types come first, then each invariant relative to the ones before:
- a new lease conflicts with none of its unit by the guard of `IssueLease`, so terms stay
  disjoint, whatever the calendar;
- `ApprovedIffLeased` needs that nothing leaves a terminal status, which is read off
  the transition table;
- `AuditTrail` and `FeedbackIsCurrent` are inductive row by row: lemmas on
  `TransitionTo` say what appending an entry does to them;
- `SectionsComplete` needs that only editable applications gain or lose a residence, and
  that the stamp goes with the last one;
- the refinement rests on `NoDoubleLetting`: an approval lets exactly the days of the new lease,
  which are free.

`ConcurrentRequests_proofs`: `ConcurrentTypesHold`, `ApprovalsStayOnRecord`,
`EntriesStayLegal`, `ReferencesStayWhole`, `LeasesAreKept`, `RequestsComeToAnEnd`, for any number of overlapping
requests and retries. What a request decided may be stale when it is saved, so the
invariant `Inv` splits it. What holds of the work by itself (`IsWork`): it writes values of the
columns' types, a status only with the entry of a legal step to it, a lease only with the entry of
an approval. What no other request can make untrue (`StillSuits`): its lease and its
entry are for the unit and the applicant of its application, because an id that has been handed
out never names another application (`OwnersStay`, which is why ids not yet handed out are
part of the state). Nothing is claimed of the status that was loaded: that is what
`stale_decision` shows to be lost. The tables need `ReferencesHold` beside what the
theorems say, since the unit of a new lease must still be there; that no approval is
appended to a row that is gone comes from the affected-row check in `CanSaveApplication`, and that a
removal takes no lease along from `CanSaveDelete`.

`AtomicRequests_proofs`: `RequestsWithoutConflictsAreAtomic`, that `ActsAtomically` holds for any
number of requests in progress, under three premises on the behaviour; the run `one_at_a_time`, with
its one slot, is the smallest case.

- `ConflictsApart`: no two requests under way are in each other's way (`Conflict`): two changes to
  one part of an application (a change of status is about all of it, notes about none), a lease and
  work that needs its unit free (a start, a submission, an approval), an applicant's two starts for a unit,
  a start for a unit and the removal of the unit. Everything else may overlap: requests about
  different units, a manager's notes and any other request, the two sections of a draft, a withdrawal and the
  approval of a rival. Without it the violation runs of `ConcurrentRequests` are counterexamples.
- `RepeatsAreSafe`: the saves sent again after a lost answer are removals, approvals (the unique index
  refuses the second) and changes without an entry or a new residence. Without it a transition sent twice
  leaves two entries, and a draft or residence inserted twice two rows.
- `DaysPassAside`: the date does not change while work is under way that needs a unit free. A handler
  reads the date once; without it a lease may be saved that was checked against the day before.

The invariant `AllStand` says of each request under way that what its queries have found still stands
(`Stands`). Its work turns the row, as it is now, into what the use case makes of it
(`ChangeDecided`: `RowDecided`, `ApprovalDecided`, `ResidencesDecided`; `SavedAs` shows that writing only the
changed columns comes to the same), and the earlier queries of `StartAsync` and `DeleteUnitAsync`
still have their answers. Two cases are weaker: notes stand whatever has become of their row (`SendsNotes`),
and a save that has been made and sent again may be one that is refused from now on (`IsSpent`).
`Undisturbed` says that a step leaves alone what a decision rests on; then the decision
stands after it (`StandsStays`). A save leaves undisturbed every request that it does not conflict with
(`SaveLeaves`), a save that may be repeated stands for the next time (`RepeatStands`), and a save of what
stands is a step of `RentalApplicationService` or changes nothing (`SaveOfStandingActs`). Every
other step changes no table.

`OverlappingRequests_proofs`: which requests have to be kept apart for which statement, again for any number
of requests. Unless the table says otherwise, saves may be sent again, requests abandoned and the
date may change at any time.

| Theorem | Holds | As long as |
|---|---|---|
| `LettingsApartAreSafe` | `NoDoubleLetting` (refuted by `rival_approvals`) | no two approvals for one unit overlap (`ApprovalsApart`) |
| `DecisionsApartAreFinal` | `TerminalStatusStays` (refuted by `stale_decision`) | no two decisions about one application overlap (`DecisionsApart`), and `StartsApart` |
| `RemovalsApartAreSafe` | `RemovalIsBlocked` (refuted by `late_application`) | no application is started for a unit that is being removed (`StartsApart`) |
| `DecisionsApartMatchLeases` | `ApprovedIffLeased` | `DecisionsApart` |
| `DecisionsApartKeepTheTrail` | `AuditTrail` | `DecisionsApart`, and no decision is sent again: it would append its entry twice |
| `StartsApartOpenOne` | `OneOpenApplication` | `DecisionsApart`, no two starts of one applicant for one unit overlap, and none is sent again: it has no natural key |
| `ConflictsApartKeepTheLifecycle` | every property of the lifecycle and its refinement | the premises of `RequestsWithoutConflictsAreAtomic`, from which it follows |

A decision is about an application's status (submission, withdrawal, review). Each proof adds to `Inv`
what goes on to be true of a decision that waits to be saved: its lease is clear of the
unit's (`LettingsFit`), its application is not decided (`DecisionsFit`), nobody has applied for the
unit (`RemovalsFit`), the applicant has no open application (`StartsFit`), an approval brings its
lease (`ApprovalsFit`), its entry starts from the present status (`TrailsFit`). The premise is used
exactly where another request's save could make that untrue.

`Catalog_proofs`: `TypeCorrect`, `NumbersStayUnique`, `UnitsStayInProperties`,
`InactiveTypesOnlyFade`, `LetUnitsRemain`, `RequestsComeToAnEnd`, for any number of overlapping
requests and retries. The invariant is `TypeOK`, the two table invariants and
`PendingSelectable`: the work that waits to be saved writes no inactive type. Without it
`InactiveTypesFade` is not inductive, since the save itself does not look at the lookup:
the reason it holds is that change tracking leaves out a type equal to the loaded one.
`TypeOK` has `leased \subseteq applied \subseteq DOMAIN units`, which carries `LetUnitsStay`:
a removal consults the leases of *all* units that would go, as they are at the save.
`GuardsSufficeAlone` states `GuardsSuffice` for behaviours in which no two requests overlap
(`OneRequestAtATime`): `UnsavedFits` keeps what the queries of the request in
progress have found until its first save. With overlap it is false, since two requests may take one number;
and the query for the number leaves out the unit the form names, so that of a new unit it says only that no
other unit has the number.

`ModalDialog_proofs`: `TypeCorrect`, `TrackerStaysInStep`, `FormsGoOnce`, `ReviewFormFits`,
`ReportsShow`, `DialogsComeUp`, `SavedDialogsGo`. `Tracked` adds to `TrackerAgrees` that the backdrop leaves only when the dialog
has gone: in that phase Bootstrap would accept `show()` but the hidden event is yet to come.
`Fits` says that the review form is as its script leaves it. `Reports` follows a
submission: what the server has saved is in `saved`, and what it has rendered since is in `read`;
it needs `OneSubmission`, or one answer could be mistaken for another's.

`Startup_proofs`: `StartupTypesHold`, `ServedDatabaseIsSeeded`, `SeedingIsIdempotent`,
`AccountsHaveOneRole`, for any numbers of users and units, any calendar and any number of stops.
First what is inserted: `SeededColumns` follows the domain's operations through a seeded
application, `SeededIsSound` reads the audit trail off it, and `InsertedHold` puts the rows of the
plan together (`NoTwoOpen` needs that the blocked application's unit is one whose other application
is approved, and terms are disjoint because approved places have units of their own). Then `StartInv`:
what each step has behind it (`SeededSoFar`), in the loop over the users the accounts before
the cursor; that a registration under way belongs to an account that is not seeded and has no role
(`RegistrationsFit`), without which `JoinRole` might give a second one; and that applications are
there only when everything before them is (`DataFit`), which makes a later start find
nothing to do at any step. `LeasesAreSeededAsPlanned`: which leases are active, expired or blocking
depends on the calendar, so it rests on `GregorianCalendar_proofs` and `SeedingDatesAssumption`.

`GregorianCalendar_proofs`: day numbers and dates are inverse to each other (`DayNumberOfDate`,
`DateOfDayNumber`), adding months leads exactly that many months on (`PlusMonthsCounts`), and twelve
months later is the same date of the next year, 28 February after a 29th (`TwelveMonthsAreAYear`).
Days in different months are ordered as their months are (`EarlierMonth`), which decides which
seeded leases are over.

*Liveness.* `RequestsComeToAnEnd` (both modules), `DialogsComeUp` and `SavedDialogsGo` state
`RequestsEnd`, `DialogsAppear` and `SavedDialogsClose`. Each follows a chain of stages with the rule
for weak fairness: a request goes from query to query to its save, and a save commits or fails
(`HandlerGoesOn`), while what the others do leaves it where it is (`OthersLeaveIt`); what the
dialog owes (`Promised`: what is to come up waits for a transition to end or is up, what is to close
is closing or has a close deferred) is invariant, and the transitions it waits for end one after the
other (`TransitionsEnd`), at most the fading of an old dialog, of its backdrop, and an opening.
The prover has no rules for ENABLED, so the theorems take as premises what can be read off the
actions, each of which is guards and an assignment to every variable:
`EndsEnabled` (a transition that is under way can end) and `AdvanceEnabled` (a query can be answered; a
save fails unless `CanSave`, and commits if there are ids for its rows). `IdsRemain` says that there
are: in the models `RoomToInsert` and `RoomToAdd` see to it, in the program the range of an int column.

Only model-checked: `OffersAgree` (`Pages` compares flags with ENABLED itself) and
`StartsSucceed` (the loop over the seeded users needs an induction over their number under
temporal operators). Every other property of a run is the subject of a theorem.

## Not modelled

Lists with their sorting and paging, the redirects of the section wizard, sign-in and lock-out
(ASP.NET Identity's), toasts, focus and client-side validation, isolation levels other
than READ COMMITTED, the year 9999, views and host configuration. `Startup` does not re-send a save
whose answer was lost (`EnableRetryOnFailure`): applications seeded twice would break `ServesSeeded`.
`PROJECT.json` lists each component with its status, and the hazards no property covers with the reason.

## Plan

Done, in this order: rules and rows; the atomic use cases with their proofs;
`ConcurrentRequests` with its proofs, those of requests about different units and those of the
requests that must not overlap; `Catalog` with its proofs; `ModalDialog` with its proofs; `Pages`;
`Startup` with the calendar and their proofs; the page and the review form in `ModalDialog`.
Next:

1. Re-sent saves in `Startup`.
2. The wizard's redirects as a state machine of its own.
