\* Any client: a byte too many, empty writes, end(true).
SPECIFICATION FairSpec
CONSTANTS
    SecSize = 2
    PartSectors = 2
    SizeT = 64
    oldFw = oldFw
    newFw = newFw
    unsigned = unsigned
    text = text
    Images = {newFw, text}
    ImgLen <- MCImgLen
    WithMagic <- MCWithMagic
    Genuine <- MCGenuine
    HasSpiffs = FALSE
    Surplus = 1
    EndModes = {FALSE, TRUE}
    MinChunk = 0
    MaxChunk = 3
    Blank = Blank
    Magic = Magic
    Garbage = Garbage
    Torn = Torn
    Tears <- MCTears
    NoDigest = NoDigest
    NoPart = NoPart
INVARIANT BusyAgrees
PROPERTY DigestProtects
PROPERTY CallsReturn
