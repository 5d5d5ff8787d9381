SPECIFICATION Spec
CONSTANTS
    Objects <- KindObjects
    Specs <- KindSpecs
    Initial <- KindInitial
    ExternalLabels = {"com", "net", "org", "commerce"}
    MaxChanges = 2
    MaxErrors = 0
    MaxCrashes = 0
CHECK_DEADLOCK FALSE
INVARIANTS
    RealNodeBacked
    NodesComplete
