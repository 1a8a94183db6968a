SPECIFICATION OptSpec
CONSTANTS
    Sizes = {0, 1, 2, 3, 4, 5}
    Rank <- MCRank
    Matrices <- MCMatrices
    ExhaustiveMax = 4
    MaxIterations = 2
    Threshold = 0
CHECK_DEADLOCK FALSE
INVARIANTS ExhaustiveIsOptimal TwoOptSettles
