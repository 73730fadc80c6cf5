\* The poll runs between the calls of the main thread.
SPECIFICATION Spec
CONSTANTS
    MaxRequests = 3
    Processed = {2}
    Timeout = 2
    LostLimit = 3
    Background = FALSE
    ClockAtZero = FALSE
INVARIANT TypeOK
INVARIANT AnsweredWithOwnResponse
INVARIANT AnsweredOnce
 
