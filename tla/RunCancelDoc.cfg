SPECIFICATION Spec
CONSTANTS
    w1 = w1
    w2 = w2
    Workers = {w1, w2}
    Batches <- FreeCall
SYMMETRY WorkerSymmetry
INVARIANT CanceledRunHasNoOpenEffect
CHECK_DEADLOCK FALSE
