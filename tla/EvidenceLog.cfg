\* A window of four bytes, pages of one record and a browser that keeps two, and
\* only the later one if both are long.
SPECIFICATION Spec
CONSTANTS
    Records = {1, 2, 3, 4}
    Size <- Lengths
    Unreadable = {3}
    MaxRead = 4
    Limit = 1
    MaxRows = 2
    MaxChars = 3
    MaxLines = 3
    MaxFaults = 1
    MaxMoves = 1
INVARIANTS
    ViewIsFaithful
PROPERTIES
    ImplementsRecordLog
    ViewerCatchesUp
