\* Every version text of up to five segments; five numbers exceed the copy.
SPECIFICATION Spec
CONSTANTS
    Current <- MCCurrent
    MaxPart = 1
    MaxSegments = 5
    CopySize = 8
    Nothing = Nothing
INVARIANT VerdictIsRight
INVARIANT StaleOnlyAfterChange
