\* Each of the seven live games in turn, played through its screens.
SPECIFICATION ScreensSpec
CONSTANTS
    ann = ann
    bob = bob
    cat = cat
    dan = dan
    k1 = k1
    k2 = k2
    k3 = k3
    Empty = Empty
    Tables <- MCTables
    Games = {"reversi", "checkers", "chess", "teeter-tower", "nightleaf", "brambles", "whispergrove"}
    ReversiSize = 4
    CheckersSize = 6
    HomeRows = 1
    CheckersOpenings <- MCCheckersOpenings
    ChessOpenings <- MCChessOpenings
    MaxLeaf = 5
    FinalTier = 2
    MaxBuds = 2
    Fireflies = 1
    BannerTicks = 2
    Cards = {k1, k2, k3}
    Sprints = 2
    SprintTicks = 3
    StartLeaves = 2
    OtherLeaves = 1
    SaplingLeaves = 1
    DeadwoodLeaves = 1
    Levels = 2
    Goal = 2
    Par = 1
    BeatTicks = 2
    MaxSettleTicks = 2
    MaxPlaced = 2
    MaxPlies <- MCMaxPlies
    MaxRestarts = 1
INVARIANTS PositionsSound TurnCanBeTaken OffersAreGood
PROPERTIES PiecesAccountedFor ClockRunsOut
CHECK_DEADLOCK FALSE
