SPECIFICATION FairSpec
CONSTANTS
    BUFSIZE = 4
    Texts <- MCTexts
    NumNodes = 3
    SegmentRows = 1
INVARIANTS TypeOK WordsRead TotalCounts
PROPERTIES CountingEnds
CHECK_DEADLOCK FALSE
