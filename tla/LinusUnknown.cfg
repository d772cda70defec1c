SPECIFICATION Spec
CONSTANTS
    NumNodes = 3
    NumProjects = 2
    NumUsers = 3
    LINUS = 0
    DEGREES = 2
    SegmentRows = 1
    Commits <- UnknownCommits
INVARIANT UnknownIgnored
CHECK_DEADLOCK FALSE
