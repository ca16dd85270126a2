SPECIFICATION MCSpec
CONSTANTS
    u1 = u1
    u2 = u2
    d1 = d1
    d2 = d2
    c1 = c1
    c2 = c2
    e1 = e1
    Units = {u1, u2}
    Asked = u1
    Rows <- MCRows
    Closures <- MCClosures
    Writers = {w1, w2}
    Requests = {r1}
    Ttl = 2
    MaxTime = 1
    MaxChanges = 2
    MaxFaults = 1
    Docs = {d1, d2}
    Chunks = {c1, c2}
    Rels = {e1}
    DocOf <- MCDocOf
    EndsOf <- MCEndsOf
    EdgePoints = 2
    Intents = {"fact", "bridge", "automatic"}
    Limit = 3
    MaxItems = 2
    ChunkCost = 2
    RelCost = 1
    Budgets = {4, 5}
INVARIANT TypeOK
INVARIANT CachedScopeCurrent
INVARIANT ScopeWasLive
INVARIANT OnlyReadableDelivered
INVARIANT ContextWhole
CHECK_DEADLOCK FALSE
