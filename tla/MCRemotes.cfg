\* One player's device at a small table of each game, through a lost connection and a reload or a restart.
SPECIFICATION SpecRemote
CONSTANTS
    ann = ann
    bob = bob
    cat = cat
    dan = dan
    c1 = c1
    c2 = c2
    f1 = f1
    f2 = f2
    f3 = f3
    p1 = p1
    p2 = p2
    p3 = p3
    r1 = r1
    r2 = r2
    s1 = s1
    s2 = s2
    s3 = s3
    d1 = d1
    d2 = d2
    w1 = w1
    w2 = w2
    Tables <- MCTables
    Games = {"trivia", "liar-liar", "zinger", "odd-bird", "same-branch", "sketchy", "lone-leaf"}
    Rounds <- MCRounds
    TriviaBank <- MCTriviaBank
    TriviaCompositions <- MCCompositions
    Clues = {c1, c2}
    Setups = {c1, c2}
    Spectrums = {c1, c2}
    Fakes = {f1, f2}
    Roosts = {r1, r2}
    Perches = {p1, p2}
    Buds <- MCBuds
    Sliders <- MCSliders
    Seeds = {s1, s2}
    Decoys = {d1, d2}
    LeafBank <- MCLeafBank
    Words = {w1}
    Band <- MCBand
    MaxDrops = 1
    Owners <- MCOwners
    MaxFresh = 1
INVARIANTS NobodyLockedOut LockedInMeansHeld CatchUpIsComplete SecretsKept
CHECK_DEADLOCK FALSE
