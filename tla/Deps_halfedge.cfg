SPECIFICATION MCSpec
CONSTANTS
    MaxNodes = 3
    MaxEdges = 2
    Omega = 2
    Clients <- OnlyCareful
INVARIANTS ActivesIsCount
