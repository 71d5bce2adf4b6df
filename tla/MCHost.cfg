CONSTANTS
    Suites <- AllSuites
    MaterialMayGo = TRUE
    Kinds <- EveryKind
    HealthAttempts = 2
    ReadyAttempts = 2
    MaxClients = 2
    KeySets = {"public", "malformed"}
    AllDefects <- KnownDefects
    PageSize = 2
    MaxPages = 2
    MaxReleases = 5
    ActionsToken = FALSE
SPECIFICATION SpecHost
INVARIANTS FailedUpUnwinds OfficialRunsOnFinalStack LanePassIsComplete StackIsTornDown BoundaryEvidenceIsOwn BoundaryLeavesNothing KmsLeavesNothing ExitAccountsForOffers StaleWaitingIsTheOnlyWindow SoundServicePasses PassedSessionsAreSound AbsentIsExhaustive
PROPERTIES AnswerIsTrue MartyOutlivesItsUsers LookupEnds
CHECK_DEADLOCK FALSE
