\* The application, the event tasks and a radio that may do anything.
SPECIFICATION FairSpec
CONSTANTS
    Reasons = {"AUTH_FAIL", "BEACON_TIMEOUT", "AUTH_EXPIRE"}
    MaxEvents = 2
    QueueLength = 2
    Networks = {1}
    Patience = 1
    MaxDelay = 2
    ShortMod = 4
    WordMod = 5
INVARIANT StatusSettles
PROPERTY GivesUpOnTime
PROPERTY StatusCatchesUp
PROPERTY WaitsEnd
