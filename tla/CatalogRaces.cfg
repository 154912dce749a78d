\* Two managers at a time on two properties and two units, one of them not there
\* at first: every pair of operations overlaps in every way, beside applications
\* that are started and approved; a save whose answer is lost is sent again.
CONSTANTS
    p1 = p1
    u1 = u1
    n1 = n1
    inactive = inactive
    None = None
    Idle = Idle
    Properties = {p1, p2}
    Units = {u1, u2}
    Numbers = {n1, n2}
    Types = {active, inactive}
    ActiveTypes = {active}
    SeedProperties <- OneProperty
    SeedUnits <- LegacyUnit
    Slots = {s1, s2}
    MaxRetries = 1
SPECIFICATION Spec
INVARIANTS
    TypeOK
    UnitNumbersUnique
    UnitsHaveProperty
PROPERTIES
    InactiveTypesFade
    LetUnitsStay
    RequestsEnd
    GuardsSuffice
