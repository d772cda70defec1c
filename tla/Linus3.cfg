SPECIFICATION FairSpec
CONSTANTS
    NumNodes = 3
    NumProjects = 2
    NumUsers = 3
    LINUS = 0
    DEGREES = 2
    SegmentRows = 1
    Commits <- MCCommits
INVARIANTS TypeOK DegreesExact NodesAgree
PROPERTIES PublishedOnce AllFinish
CHECK_DEADLOCK FALSE
