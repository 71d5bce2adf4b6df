\* Three releases: the draft of the probe and two of others.
SPECIFICATION FairSpec
CONSTANTS
    ReleaseIds = {r1, r2, r3}
    NoId = NoId
    MaxAttempts = 2
INVARIANTS ReturnIsQualified DraftIsRecoverable
PROPERTIES ForeignUntouched RemovalRaceIsTheOnlyWindow FixtureSpec Terminates
CHECK_DEADLOCK FALSE
