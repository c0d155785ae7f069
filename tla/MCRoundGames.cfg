\* Each of the nine games in turn, at a table of three that may lose a connection.
SPECIFICATION Spec
CONSTANTS
    ann = ann
    bob = bob
    cat = cat
    dan = dan
    c1 = c1
    c2 = c2
    f1 = f1
    f2 = f2
    f3 = f3
    p1 = p1
    p2 = p2
    p3 = p3
    r1 = r1
    r2 = r2
    s1 = s1
    s2 = s2
    s3 = s3
    d1 = d1
    d2 = d2
    w1 = w1
    w2 = w2
    Tables <- MCTables
    Games = {"trivia", "liar-liar", "zinger", "odd-bird", "same-branch", "sketchy", "lone-leaf", "stub", "decider"}
    Rounds <- MCRounds
    TriviaBank <- MCTriviaBank
    TriviaCompositions <- MCCompositions
    Clues = {c1, c2}
    Setups = {c1, c2}
    Spectrums = {c1, c2}
    Fakes = {f1, f2, f3}
    Roosts = {r1, r2}
    Perches = {p1, p2, p3}
    Buds <- MCBuds
    Sliders <- MCSliders
    Seeds = {s1, s2, s3}
    Decoys = {d1, d2}
    LeafBank <- MCLeafBank
    Words = {w1, w2}
    Band <- MCBand
    MaxDrops = 2
    Typed <- MCTyped
INVARIANTS TableCanClose BankLasts OptionsTellApart PointsAddUp
CHECK_DEADLOCK FALSE
