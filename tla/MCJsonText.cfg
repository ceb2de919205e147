SPECIFICATION Spec
CONSTANTS
    Values <- MCValues
    Programs <- MCPrograms
    Lengths = {0, 1, 6, 9, 30}
    DefaultLength = 4
    MaxInt = 40
    Texts <- MCTexts
    NestingLimit = 2
    NumberBuffer = 6
    CodePoints <- MCCodePoints
    Nothing = Nothing
CHECK_DEADLOCK FALSE
INVARIANTS BufferSound PrintKeepsNothing SpareByteSuffices StaysInside ParseKeepsNothing StringsFit RoundTrip MinifyUnformats AcceptsDocuments
