SPECIFICATION ConcurrentSpec
CONSTANTS
    p1 = p1
    p2 = p2
    m1 = m1
    u1 = u1
    u2 = u2
    a1 = a1
    a2 = a2
    a3 = a3
    a4 = a4
    r1 = r1
    r2 = r2
    r3 = r3
    i1 = i1
    i2 = i2
    c1 = c1
    n1 = n1
    s1 = s1
    s2 = s2
    Profile = Profile
    StartedComment = StartedComment
    NoText = NoText
    Blank = Blank
    Incomplete = Incomplete
    Idle = Idle
    Units = {u1}
    Applicants = {p1}
    Managers = {m1}
    ApplicationIds = {a1, a2}
    ResidenceIds = {r1, r2}
    Answers = {i1}
    Comments = {c1}
    Notes = {}
    AddMonths <- HalfYears
    Days <- OneDay
    ResidenceInputs <- Forms
    SeedApplications <- NoApplications
    SeedResidences <- NoneResiding
    SeedLeases <- NoLeases
    FirstDay = 1
    MaxHistory = 3
    Slots = {s1, s2}
    MaxRetries = 0
    Operations = {"Start", "SaveApplicantInformation", "AddResidence", "RemoveResidence", "CompleteResidenceHistory", "Submit", "Approve", "DeleteUnit"}
INVARIANTS
    ReferencesHold
PROPERTIES
    LeasesStay
    RequestsEnd
CHECK_DEADLOCK FALSE
