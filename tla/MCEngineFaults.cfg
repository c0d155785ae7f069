\* Crashes, and operations that reject part way, in a game whose rounds may set
\* their own answer window.
SPECIFICATION Spec
CONSTANTS
    Players = {h, p}
    Host = h
    Live = FALSE
    Reveals = {"guessing"}
    HasAllSubmitted = TRUE
    Rounds = 1
    MoveWindow = 1
    Overrides = {2}
    DisputeWindow = 1
    DecisionWindow = 1
    LeaderboardWindow = 1
    Grace = 1
    MaxTickFailures = 2
    Faults = {"crash", "worker", "redis"}
    StartAgain = FALSE
    MaxRuns = 2
    MaxTimers = 2
    h = h
    p = p
INVARIANTS CountdownsAreBacked
PROPERTIES PlaysTheLifecycle
CHECK_DEADLOCK FALSE
