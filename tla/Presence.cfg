\* Two connections, of any two devices or of one that reconnects, with every hazard.
SPECIFICATION Spec
CONSTANTS
    ann = ann
    bob = bob
    screen = screen
    Roster = {ann, bob}
    Host = ann
    Viewers = {screen}
    MaxSockets = 2
    Hazards = {"overlap", "early", "redis", "worker", "crash"}
INVARIANTS NoFrameMissed PresenceSettles NobodyWaitsForAPresentHost
CHECK_DEADLOCK FALSE
