SPECIFICATION Spec
CONSTANTS
    ReleaseIds = {r1, r2}
    NoId = NoId
    MaxAttempts = 2
INVARIANT PassedReceiptIsQualified
CHECK_DEADLOCK FALSE
