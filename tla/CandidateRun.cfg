CONSTANTS
    Runs = {r1, r2}
    Candidates = {i1, i2}
    Other = Other
    None = None
SPECIFICATION Spec
INVARIANTS OwnImageOnly ReturnLeavesNothing ResultAgreesWithEvidence
PROPERTIES ForeignTagsKept OnlyRacersTakeTags
SYMMETRY Symmetry
CHECK_DEADLOCK FALSE
