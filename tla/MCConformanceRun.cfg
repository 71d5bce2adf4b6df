CONSTANTS
    m1 = m1
    m2 = m2
    NoModule = NoModule
    Plan <- TwoModules
    Settings <- EachDeclaration
    DynamicGovernance = TRUE
SPECIFICATION FairSpec
INVARIANTS PassedIsComplete ReturnLeavesNoHook DeliveredIsAccountable OverlapIsTheOnlyWindow ExcusedModuleHasFinished
PROPERTY RunEnds
CHECK_DEADLOCK FALSE
