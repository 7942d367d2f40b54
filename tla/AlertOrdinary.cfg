SPECIFICATION OrderedSpec
CONSTANTS
    r1 = r1  r2 = r2  s1 = s1  e1 = e1  e2 = e2  c1 = c1  h1 = h1  m1 = m1
    Rules = {r1, r2}
    Connectivity = {r2}
    Servers = {s1}
    ServerOf <- OneServer
    Events = {e1, e2}
    Channels = {c1}
    Standing = {c1}
    Handlers = {h1}
    Monitors = {m1}
    Severities = {"critical"}
    Windows = {1}
    Cooldowns = {2}
    OfflineAfter = 1
    MaxLag = 1
    MaxLead = 0
    MaxTime = 3
    MaxEdits = 0
    Null = Null
SYMMETRY Rows
INVARIANTS
    CooldownKept
    WindowKept
    TypeOK
    PayloadMatchesPath
    AnnouncementEnds
