SPECIFICATION FairSpec
CONSTANTS
    Clients = {c1, c2}
    Emitters = {e1}
    id = id
    Ids = {id}
    ConnId <- MCConnId
INVARIANTS
    TypeOK
    ClosedOnce
    NoWriteAfterReturn
PROPERTIES
    EmitReturns
    HandlerReturns
