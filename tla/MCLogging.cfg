\* A build that reads the lock in every round; three threads that log at will.
SPECIFICATION FairSpec
CONSTANTS
    Threads = {t1, t2, t3}
    Pieces = 2
    ReadOnce = FALSE
INVARIANT LockHasOwner
PROPERTY LockIsFreed
