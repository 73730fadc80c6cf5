\* Responses that arrive in packets cut anywhere, or never completely.
SPECIFICATION FairSpec
CONSTANTS
    Responses <- MCResponses
    LineMax = 4
    MaxLength = 2
    Processed = {TRUE, FALSE}
INVARIANT SuccessIsPrefix
INVARIANT LengthIsDeclared
INVARIANT WholeResponseTaken
PROPERTY PollEnds
