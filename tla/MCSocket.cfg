\* A buffer of two bytes and streams of four: the buffer fills, wraps to its
\* start and is read in pieces.
SPECIFICATION Spec
CONSTANTS
    BUFFER_SIZE = 2
    Bytes <- MCBytes
    Blank = Blank
    NoCall = NoCall
    MaxSent = 4
    MaxWritten = 4
    MaxSize = 3
INVARIANTS
    TypeOK
    ReadInOrder
    RecvHasRoom
    WriteInOrder
PROPERTY ShortOnlyAtEnd
