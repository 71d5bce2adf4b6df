CONSTANTS
    Runs = {r1, r2}
    Modes <- EveryMode
    Attempts = 2
    Paths = {p1, p2}
    NoRun = NoRun
    Earlier = Earlier
SPECIFICATION SpecPaired
SYMMETRY Interchangeable
INVARIANTS ActiveRestsOnActive FixturesAreOwn KeysAreOnFile
CHECK_DEADLOCK FALSE
