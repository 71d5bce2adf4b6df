CONSTANTS
    r1 = r1
    r2 = r2
    c1 = c1
    c2 = c2
    l1 = l1
    l2 = l2
    Runs <- MCRuns
    Commits <- MCCommits
    CommitOf <- MCCommitOf
    Lanes <- MCLanes
    Other = Other
    NoOne = NoOne
    NoCommit = NoCommit
    MaxAttempts = 2
SPECIFICATION Spec
SYMMETRY LaneSymmetry
INVARIANTS PublishedIsQualified OneReleaseOfOurs
PROPERTIES MovedTagIsNotPublished GatedSpec
