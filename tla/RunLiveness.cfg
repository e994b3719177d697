SPECIFICATION FairSpec
CONSTANTS
    w1 = w1
    w2 = w2
    Workers = {w1, w2}
    Batches <- ApprovedCall
PROPERTIES CancelTerminates DispatchedIsSettled
CHECK_DEADLOCK FALSE
