\* Two managers and two applicants are seeded; a visitor registers, with a new address
\* or a seeded one.
SPECIFICATION Spec
CONSTANTS
    m1 = m1
    m2 = m2
    p1 = p1
    p2 = p2
    v1 = v1
    Profile = Profile
    StartedComment = StartedComment
    NoText = NoText
    Blank = Blank
    Units = {1, 2, 3, 4, 5, 6, 7, 8, 9, 10, 11}
    Applicants = {p1, p2}
    Managers = {m1, m2}
    ApplicationIds = {1, 2, 3, 4, 5, 6, 7, 8, 9, 10, 11}
    ResidenceIds = {1, 2, 3, 4, 5, 6, 7, 8, 9, 10, 11}
    Answers = {"i1"}
    Comments = {"c1"}
    Notes = {}
    AddMonths <- Gregorian
    Days <- Dates
    ManagerOrder <- TwoManagers
    ApplicantOrder <- TwoApplicants
    UnitOrder <- ElevenUnits
    ApplicationOrder <- ElevenIds
    Visitors = {v1, p1}
    UnitTypeNames = {"Studio", "Loft"}
    MonthsDrawn = {1, 10}
INVARIANTS
    TypeOK
    ServesSeeded
    OneRoleEach
PROPERTIES
    LaterStartsChangeNothing
    LeasesSeededAsPlanned
    StartsSucceed
