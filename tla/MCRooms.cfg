\* A host with two lanes of requests and a page, and a guest.
SPECIFICATION SpecPages
CONSTANTS
    ann = ann
    bob = bob
    trivia = trivia
    chess = chess
    red = red
    blue = blue
    Sessions = {ann, bob}
    HostSessions = {ann}
    Lanes <- MCLanes
    Games = {trivia, chess}
    Palettes = {red, blue}
    MinPlayers <- MCMin
    MaxPlayers <- MCMax
    Wishes = {"remote"}
    Repertoires <- MCRepertoires
    MaxInFlight = 2
    MaxIds = 3
    MaxFaults = 2
    Owner = ann
    DefaultGame = trivia
    MaxLoads = 1
    MaxMishaps = 1
INVARIANTS KickedStayOut PlayedByThoseCounted OwnActsStick TokenFits
PROPERTIES SeatKept ExitEndsInTheLobby
CHECK_DEADLOCK FALSE
SYMMETRY MCSymmetry
