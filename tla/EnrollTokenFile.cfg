SPECIFICATION Spec
CONSTANTS
    t1 = t1  t2 = t2  s1 = s1  s2 = s2  m1 = m1  m2 = m2  h1 = h1  h2 = h2
    Tokens = {t1}
    Servers = {s1}
    Machines = {m1}
    Handlers = {h1}
    Null = Null
INVARIANTS
    TokenFileRemoved
