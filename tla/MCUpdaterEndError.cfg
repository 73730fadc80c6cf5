\* end(true) and what it then selects for the next boot.
SPECIFICATION Spec
CONSTANTS
    SecSize = 2
    PartSectors = 2
    SizeT = 64
    oldFw = oldFw
    newFw = newFw
    unsigned = unsigned
    text = text
    Images = {oldFw, newFw}
    ImgLen <- MCImgLen
    WithMagic <- MCWithMagic
    Genuine <- MCGenuine
    HasSpiffs = FALSE
    Surplus = 0
    EndModes = {TRUE}
    MinChunk = 1
    MaxChunk = 3
    Blank = Blank
    Magic = Magic
    Garbage = Garbage
    Torn = Torn
    Tears <- MCTears
    NoDigest = NoDigest
    NoPart = NoPart
PROPERTY ErrorFailsEnd
