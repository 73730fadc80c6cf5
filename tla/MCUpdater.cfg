\* Clients that keep to the declared size and call end(false).
SPECIFICATION Spec
CONSTANTS
    SecSize = 2
    PartSectors = 2
    SizeT = 64
    oldFw = oldFw
    newFw = newFw
    unsigned = unsigned
    text = text
    Images = {newFw, unsigned, text}
    ImgLen <- MCImgLen
    WithMagic <- MCWithMagic
    Genuine <- MCGenuine
    HasSpiffs = FALSE
    Surplus = 0
    EndModes = {FALSE}
    MinChunk = 1
    MaxChunk = 3
    Blank = Blank
    Magic = Magic
    Garbage = Garbage
    Torn = Torn
    Tears <- MCTears
    NoDigest = NoDigest
    NoPart = NoPart
INVARIANT TypeOK
INVARIANT PartialNotBootable
INVARIANT TouchesTargetOnly
PROPERTY SelectsWhatWasSent
PROPERTY ImplementsAtomicUpdate
