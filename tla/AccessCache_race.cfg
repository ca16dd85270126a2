SPECIFICATION AccessSpec
CONSTANTS
    Units = {u1, u2}
    Asked = u1
    Rows <- MCRows
    Closures <- MCClosures
    Writers = {w1, w2}
    Requests = {r1}
    Ttl = 1
    MaxTime = 1
    MaxChanges = 2
    MaxFaults = 0
INVARIANT StaleEntryDetected
CHECK_DEADLOCK FALSE
