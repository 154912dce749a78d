SPECIFICATION Spec
CONSTANTS
    p1 = p1
    p2 = p2
    m1 = m1
    u1 = u1
    u2 = u2
    u3 = u3
    a1 = a1
    a2 = a2
    a3 = a3
    a4 = a4
    r1 = r1
    r2 = r2
    r3 = r3
    r4 = r4
    i1 = i1
    c1 = c1
    n1 = n1
    Profile = Profile
    StartedComment = StartedComment
    NoText = NoText
    Blank = Blank
    Incomplete = Incomplete
    Units = {u1}
    Applicants = {p1, p2}
    Managers = {m1}
    ApplicationIds = {a1, a2}
    ResidenceIds = {r1, r2, r3}
    Answers = {i1}
    Comments = {c1}
    Notes = {n1}
    AddMonths <- HalfYears
    Days <- MCDays
    ResidenceInputs <- Forms
    SeedApplications <- ReturnedApplication
    SeedResidences <- ReturnedResidence
    SeedLeases <- NoLeases
    FirstDay = 1
    MaxHistory = 6
INVARIANTS
    SectionsComplete
    AuditTrail
    FeedbackIsCurrent
PROPERTIES
    SubmittedContentIsFrozen
