SPECIFICATION FairSpec
CONSTANTS
    Objects <- SelectObjects
    Specs <- SelectSpecs
    Initial <- LiveInitial
    ExternalLabels = {"com", "net", "org", "commerce"}
    MaxChanges = 2
    MaxErrors = 1
    MaxCrashes = 0
CHECK_DEADLOCK FALSE
PROPERTIES
    EdgesRestored
    StaleEdgesVanish
