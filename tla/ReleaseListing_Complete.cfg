SPECIFICATION SpecLookup
CONSTANTS
    PageSize = 2
    MaxPages = 2
    MaxReleases = 3
    ActionsToken = TRUE
INVARIANT AbsentIsComplete
CHECK_DEADLOCK FALSE
