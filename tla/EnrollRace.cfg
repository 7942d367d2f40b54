SPECIFICATION Either
CONSTANTS
    t1 = t1  s1 = s1  s2 = s2  m1 = m1  m2 = m2  h1 = h1  h2 = h2
    e1 = e1  p1 = p1  w1 = w1  c1 = c1
    Tokens = {t1}
    Servers = {s1, s2}
    Machines = {m1, m2}
    Handlers = {h1, h2}
    Null = Null
    ServerIds = {w1}
    Enrollments = {e1}
    EnrolledServer <- FirstServer
    Places = {p1}
    Terminals = {c1}
    Nothing = Nothing
SYMMETRY Interchangeable
INVARIANTS
    TypeOK
    HelperTypeOK
    OneServerPerToken
    RevokedMakesNothing
    IdentitySurvives
    IdsUnique
    TunnelsHaveProfiles
    LaunchedIsKnown
PROPERTIES
    KeepsPromise
