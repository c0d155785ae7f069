\* A live game: no windows, one open phase stepped by the simulation loop, whose
\* worker and engine may fail.
SPECIFICATION Spec
CONSTANTS
    Players = {h, p}
    Host = h
    Live = TRUE
    Reveals = {"disputing"}
    HasAllSubmitted = FALSE
    Rounds = 2
    MoveWindow = 0
    Overrides = {}
    DisputeWindow = 0
    DecisionWindow = 0
    LeaderboardWindow = 0
    Grace = 1
    MaxTickFailures = 2
    Faults = {"crash", "worker"}
    StartAgain = TRUE
    MaxRuns = 3
    MaxTimers = 3
    h = h
    p = p
INVARIANTS LiveWorldRuns
CHECK_DEADLOCK FALSE
