SPECIFICATION Spec
CONSTANTS
    ReleaseIds = {r1, r2}
    NoId = NoId
    MaxAttempts = 2
INVARIANT ReturnRefusesItsDraft
CHECK_DEADLOCK FALSE
