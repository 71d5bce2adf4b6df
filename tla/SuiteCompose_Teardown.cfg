CONSTANTS
    Suites <- AllSuites
    MaterialMayGo = TRUE
SPECIFICATION Spec
INVARIANT TeardownNeedsNoMaterial
