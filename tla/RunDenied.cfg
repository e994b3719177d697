SPECIFICATION FairSpec
CONSTANTS
    w1 = w1
    w2 = w2
    Workers = {w1, w2}
    Batches <- RevokedCall
PROPERTY DeniedRunEnds
CHECK_DEADLOCK FALSE
