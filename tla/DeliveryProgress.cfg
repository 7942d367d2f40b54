SPECIFICATION FairSpec
CONSTANTS
    a1 = a1  a2 = a2  a3 = a3  a4 = a4  a5 = a5  h1 = h1  h2 = h2
    Samples = {a1, a2, a3}
    Handlers = {h1}
    MaxQueue = 2
    Attempts = 2
    Fresh = {"fine", "bad"}
    Null = Null
PROPERTIES
    QueueMoves
    OnlyBadAreDropped
