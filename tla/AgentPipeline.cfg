SPECIFICATION Spec
CONSTANTS
    Alerts <- MCAlerts
    Payloads <- MCSharedPayloads
    Allowlist = {}
    Denylist = {}
    Workers = {w1, w2}
    SourceCap = 1
    QueueCap = 1
    TTL = 0
    MaxTime = 1
    MaxDeliveries <- MCDeliveries
SYMMETRY WorkerSymmetry
INVARIANTS
    TypeOK
    OncePerTTL
    Accounted
    NoSendOnClosedResults
