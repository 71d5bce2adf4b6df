CONSTANTS
    m1 = m1
    m2 = m2
    NoModule = NoModule
    Plan <- TwoModules
    Settings <- EachDeclaration
    DynamicGovernance = TRUE
SPECIFICATION Spec
INVARIANT OneIssuerEntity
CHECK_DEADLOCK FALSE
