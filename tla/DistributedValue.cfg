SPECIFICATION FairSpec
CONSTANTS
    NumNodes = 3
    MaxNumRows = 2
    Home = 1
    RowLimit = 7
    NoDf = NoDf
INVARIANTS TypeOK ReadersFindEveryRow CachedRowsRight EachRowStoredOnce
PROPERTIES MapVisitsInOrder MapTerminates
