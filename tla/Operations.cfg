SPECIFICATION Spec
CONSTANTS
    i1 = i1  m1 = m1  m2 = m2  s1 = s1  q1 = q1  q2 = q2
    Interfaces = {i1}
    Modulus = 8
    Forever = 9
    MaxCounter = 2
    MaxNow = 2
    Missing = Missing
    Files = {1, 2, 3, 5}
    First = 1
    Inside = {2, 3}
    Migrators = {m1, m2}
    Requests = {q1, q2}
    Limit = 2
    Window = 2
    MaxInstant = 4
    MaxCount = 3
    Servers = {s1}
    Verdicts = {"online"}
    None = None
INVARIANTS
    TypesOK
    RefusalsExplained
    RateNeverOverstates
    LedgerMatchesSchema
    SuccessMeansApplied
    BurstBounded
    MaintenanceKept
PROPERTIES
    ViewCatchesUp
    StreamEnds
