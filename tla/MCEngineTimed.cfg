\* A game that may ask its players to guess or to dispute, with every window timed
\* but that of a guess: two players, two rounds, one restart, under fair timers.
SPECIFICATION FairSpec
CONSTANTS
    Players = {h, p}
    Host = h
    Live = FALSE
    Reveals = {"guessing", "disputing"}
    HasAllSubmitted = TRUE
    Rounds = 2
    MoveWindow = 1
    Overrides = {}
    DisputeWindow = 1
    DecisionWindow = 0
    LeaderboardWindow = 2
    Grace = 1
    MaxTickFailures = 2
    Faults = {}
    StartAgain = FALSE
    MaxRuns = 2
    MaxTimers = 2
    h = h
    p = p
INVARIANTS PausedMeansFrozen AnswerTimeKept NoEarlyClose
PROPERTIES AnswerRoundCloses
CHECK_DEADLOCK FALSE
