SPECIFICATION Spec
CONSTANTS
    s1 = s1  s2 = s2  k1 = k1  k2 = k2  k3 = k3  k4 = k4  k5 = k5
    t1 = t1  t2 = t2  h1 = h1  h2 = h2
    Rows = {s1, s2}
    Tokens = {k1, k2, k3}
    Tabs = {t1, t2}
    Requests = {h1, h2}
    Null = Null
SYMMETRY Interchangeable
INVARIANTS
    TypeOK
    UsedOnce
    CookieSurvives
PROPERTY
    CookieKept
