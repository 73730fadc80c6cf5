\* The sessions of three clients and resets, without end.
SPECIFICATION UcFairSpec
CONSTANTS
    SecSize = 2
    PartSectors = 1
    SizeT = 64
    oldFw = oldFw
    newFw = newFw
    unsigned = unsigned
    text = text
    Images = {oldFw, text}
    ImgLen <- MCShortLen
    WithMagic <- MCWithMagic
    Genuine <- MCGenuine
    HasSpiffs = TRUE
    Surplus = 0
    EndModes = {FALSE}
    MinChunk = 1
    MaxChunk = 2
    Blank = Blank
    Magic = Magic
    Garbage = Garbage
    Torn = Torn
    Tears = {{}, {1}}
    NoDigest = NoDigest
    NoPart = NoPart
    MinLength = 1
    Lengths = {1, 2, 3}
    Invitations <- MCInvitations
    Password = TRUE
    Tries = 1
INVARIANT RestartsIntoSent
INVARIANT InstallsInvited
INVARIANT FailuresAreClean
PROPERTY SessionsEnd
