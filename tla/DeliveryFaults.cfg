SPECIFICATION Spec
CONSTANTS
    a1 = a1  a2 = a2  a3 = a3  a4 = a4  a5 = a5  h1 = h1  h2 = h2
    Samples = {a1, a2, a3}
    Handlers = {h1, h2}
    MaxQueue = 2
    Attempts = 2
    Fresh = {"early", "fine", "bad"}
    Null = Null
SYMMETRY Interchangeable
INVARIANTS
    TypeOK
    AcceptedIsStored
    EvaluatedOnce
