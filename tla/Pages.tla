------------------------------- MODULE Pages -------------------------------
(***************************************************************************)
(* What the pages offer: the flags that decide which section, buttons and  *)
(* unit cards a user sees                                                  *)
(* (PropertyManagement.Application/Applications/ApplicationQueryService,   *)
(* CatalogService.BrowseUnitsAsync, the section wizard of                  *)
(* ApplicationsController).  They are computed by queries of their own     *)
(* beside the guards of the commands they lead to.                         *)
(***************************************************************************)
EXTENDS RentalApplicationService

\* GetDetailsAsync finds the application and shows it to the user.
IsShown(a, user) ==
    /\ a \in DOMAIN applications
    /\ applications[a].applicant = user \/ user \in Managers

IsOwner(a, user) == IsShown(a, user) /\ applications[a].applicant = user

ShowsEditable(a, user) == IsOwner(a, user) /\ IsEditable(applications[a].status)

UnitIsAvailable(a) == IsUnitAvailableOn(LeasesOf(applications[a].unit), today)

\* Faulty variant: submission is offered as soon as the sections are completed.
ShowsSubmitOnceCompleted(a, user) ==
    /\ IsOwner(a, user)
    /\ CanSubmit(applications[a].status)
    /\ AllSectionsCompleted(applications[a])

ShowsSubmit(a, user) ==
    /\ IsOwner(a, user)
    /\ CanSubmit(applications[a].status)
    /\ AllSectionsCompleted(applications[a])
    /\ UnitIsAvailable(a)

ShowsWithdraw(a, user) == IsOwner(a, user) /\ CanWithdraw(applications[a].status)

ShowsReview(a, user) ==
    IsShown(a, user) /\ user \in Managers /\ CanReview(applications[a].status)

\* The reasons listed beside a disabled Submit button.
BlockingIssues(a) ==
    LET row == applications[a]
    IN  {issue \in {"information", "residences", "unit"} :
            CASE issue = "information" -> ~row.informationCompleted
              [] issue = "residences"  -> ~row.residencesCompleted
              [] issue = "unit"        -> ~UnitIsAvailable(a) /\ ~IsTerminal(row.status)}

\* The section a page opens at.
DefaultSection(a, user) ==
    CASE ~ShowsEditable(a, user)               -> "Summary"
      [] ~applications[a].informationCompleted -> "ApplicantInformation"
      [] ~applications[a].residencesCompleted  -> "ResidenceHistory"
      [] OTHER                                 -> "Summary"

\* The Continue button of the page, saved before the next section is shown.
ContinueFrom(section, a, user) ==
    /\ ShowsEditable(a, user)
    /\ \/ /\ section = "ApplicantInformation"
          /\ \E i \in Answers \cup {Incomplete} : SaveApplicantInformation(a, user, i)
       \/ /\ section = "ResidenceHistory"
          /\ CompleteResidenceHistory(a, user)

\* The units an applicant may browse: the query's own test for an active lease.
BrowsedUnits ==
    {u \in units : ~ \E l \in leases : l.unit = u /\ l.startDate <= today /\ l.endDate >= today}

\* A unit card leads to the applicant's open application, or has a Start button.
ShowsStart(unit, applicant) ==
    unit \in BrowsedUnits /\ OpenApplications(unit, applicant) = {}

----------------------------------------------------------------------------
\* Pages and commands agree, though each has its own conditions: a button is there
\* exactly when pressing it is not refused; a Submit button that is disabled has
\* its reasons listed; and an applicant who opens the page is led to the section
\* that still has to be completed (src/README.md, "Submit is only enabled on the
\* Summary once both sections have been completed and the unit is still
\* available").
OffersAgree ==
    /\ \A a \in ApplicationIds, p \in Applicants :
          /\ ShowsEditable(a, p) <=> ENABLED \E i \in Answers : SaveApplicantInformation(a, p, i)
          /\ a \in DOMAIN applications /\ HistoryBound(a) =>
                /\ ShowsSubmit(a, p) <=> ENABLED Submit(a, p)
                /\ ShowsWithdraw(a, p) <=> ENABLED Withdraw(a, p, NoText)
          /\ ShowsEditable(a, p) =>
                LET section == DefaultSection(a, p)
                IN  /\ ShowsSubmit(a, p) <=> BlockingIssues(a) = {}
                    /\ section = "Summary" <=> BlockingIssues(a) \subseteq {"unit"}
                    /\ section = "ApplicantInformation" => ENABLED ContinueFrom(section, a, p)
                    /\ section = "ResidenceHistory" =>
                          (ENABLED ContinueFrom(section, a, p) <=> ResidencesOf(a) # {})
    /\ \A a \in DOMAIN applications, m \in Managers :
          HistoryBound(a) =>
             (ShowsReview(a, m) <=> ENABLED \E c \in Comments : Reject(a, m, "Return", c))
    /\ ApplicationIds # DOMAIN applications =>
          \A u \in Units, p \in Applicants : ShowsStart(u, p) <=> ENABLED Start(u, p)

=============================================================================
