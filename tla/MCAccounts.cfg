\* Two people, one with three devices that hold a session, and what outlives each other.
SPECIFICATION FairSpec
CONSTANTS
    ann = ann
    bob = bob
    tag1 = tag1
    root = root
    bea = bea
    Bad = Bad
    Tabs = {"work", "spare", "away", "other"}
    Device <- MCDevice
    Owner <- MCOwner
    Tags = {tag1}
    Values = {"new"}
    LoginMax = 1
    LoginMaxPerIp = 2
    SignupMax = 2
    SessionTtl = 1
    Window = 1
    Repertoires <- MCRepertoires
    MaxFaults <- MCMaxFaults
    Consoles = {"front", "back"}
    Root = root
    Emails = {root, bea}
    Passwords = {"first", "second"}
    FirstPassword = "first"
    AdminTtl = 1
    Duties <- MCDuties
INVARIANTS OwnAccount DeletedIsGone
PROPERTIES EndedForGood LocksOpen
CHECK_DEADLOCK FALSE
