CONSTANTS
    Runs = {r1}
    Candidates = {i1}
    Other = Other
    None = None
SPECIFICATION Spec
INVARIANT GovernanceWasJudged
CHECK_DEADLOCK FALSE
