\* Two sessions, room for one worker or for both; three threads may be started.
SPECIFICATION FairSpec
CONSTANTS
    k1 = k1
    k2 = k2
    Keys = {k1, k2}
    Caps = {1, 2}
    MaxSpawns = 3
    MaxCalls = 2
INVARIANTS OwnReply
PROPERTIES FailureIsContained CallsEnd
CHECK_DEADLOCK FALSE
