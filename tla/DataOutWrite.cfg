CONSTANTS
    Requests <- MCWriteThenRead
    FifoDepth = 8
    WordSize = 4
SPECIFICATION Spec
PROPERTY StopsAtEnd
