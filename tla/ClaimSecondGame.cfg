\* A one-round game started twice in a room, without a fault.
SPECIFICATION Spec
CONSTANTS
    Rounds = 1
    Balance = 4
    Faults = {}
    MaxRuns = 1
    MaxGames = 2
    MaxFaults = 0
INVARIANTS ReportedRoundsArePaid
CHECK_DEADLOCK FALSE
