SPECIFICATION Spec
CONSTANTS
    r1 = r1  r2 = r2  s1 = s1  e1 = e1  e2 = e2  c1 = c1  c2 = c2  h1 = h1  h2 = h2  m1 = m1
    Rules = {r1}
    Connectivity = {}
    Servers = {s1}
    ServerOf <- OneServer
    Events = {e1, e2}
    Channels = {c1}
    Standing = {c1}
    Handlers = {h1, h2}
    Monitors = {}
    Severities = {"critical"}
    Windows = {1}
    Cooldowns = {1}
    OfflineAfter = 1
    MaxLag = 0
    MaxLead = 1
    MaxTime = 0
    MaxEdits = 0
    Null = Null
PROPERTY
    ResolvedIsFinal
