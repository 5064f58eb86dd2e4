SPECIFICATION FairSpec
CONSTANTS
    N = 4
INVARIANTS LivePathsDecide StepsAreComplete OwnOutputUnlessSkipped
PROPERTIES RunEnds
