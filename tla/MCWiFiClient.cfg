\* Any sequence of calls, on a connection that may close or break.
SPECIFICATION FairSpec
CONSTANTS
    Size = 3
    FlushSize = 2
    MaxRetry = 2
    Chunk = 2
    MaxBytes = 4
    MaxRead = 4
    MaxWrite = 3
INVARIANT TypeOK
INVARIANT NoByteAstray
INVARIANT SoundConnectionKept
INVARIANT WireFollowsSource
PROPERTY CallsReturn
