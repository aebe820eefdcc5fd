\* MemIOHandler against the file-cursor contract; SeekAfterRead = FALSE.
CONSTANTS
    Lengths <- MCLengths
    Requests <- MCRequests
    Offsets <- MCOffsets
    Whences <- MCWhences
    WIDTH = 8
    SeekAfterRead = FALSE
SPECIFICATION Spec
INVARIANT TypeOK
PROPERTY ImplementsFileCursor
