SPECIFICATION FairSpec
CONSTANTS
    Alerts = {}
    Payloads <- MCUnnamedPayloads
    Allowlist = {}
    Denylist = {}
    Workers = {w1}
    SourceCap = 1
    QueueCap = 1
    TTL = 0
    MaxTime = 1
    MaxDeliveries <- MCLiveDeliveries
PROPERTIES
    ShutdownCompletes
    QueueDrains
