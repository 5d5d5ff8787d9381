SPECIFICATION Spec
CONSTANTS
    Objects <- SelectObjects
    Specs <- SelectSpecs
    Initial <- SelectInitial
    ExternalLabels = {"com", "net", "org", "commerce"}
    MaxChanges = 3
    MaxErrors = 1
    MaxCrashes = 1
CHECK_DEADLOCK FALSE
INVARIANTS
    TypeOK
    RealNodeBacked
    SelectsPodsComplete
