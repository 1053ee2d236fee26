CONSTANTS
    Requests <- MCRequests
    FifoDepth = 8
    WordSize = 4
SPECIFICATION FairSpec
INVARIANTS PathInv ReadsAnswer StatusComesSoon
PROPERTIES StopsAtEnd AnswersEnd
