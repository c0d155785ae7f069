\* A game of two rounds, restarted once, with any two faults.
SPECIFICATION FairSpec
CONSTANTS
    Rounds = 2
    Balance = 4
    Faults = {"engine", "control", "reply"}
    MaxRuns = 2
    MaxGames = 1
    MaxFaults = 2
INVARIANTS ReportedIsBilled NothingForgotten
PROPERTIES ChargesOnce OperationsEnd
CHECK_DEADLOCK FALSE
