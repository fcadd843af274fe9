SPECIFICATION MCFairSpec
CONSTANTS
    MaxNodes = 3
    MaxEdges = 2
    Omega = 2
    Clients <- Everyone
INVARIANTS KahnCount ListIsFired TheRule
PROPERTIES NoEarlyFiring PhasesOnlyAdvance FiredNodesRun
