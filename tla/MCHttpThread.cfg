\* The poll is a background thread.
SPECIFICATION Spec
CONSTANTS
    MaxRequests = 2
    Processed = {2}
    Timeout = 2
    LostLimit = 3
    Background = TRUE
    ClockAtZero = FALSE
INVARIANT AnsweredWithOwnResponse
