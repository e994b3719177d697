SPECIFICATION Spec
CONSTANTS
    w1 = w1
    w2 = w2
    Workers = {w1, w2}
    Batches <- AllBatches
SYMMETRY WorkerSymmetry
INVARIANTS TypeOK EffectAtMostOnce ApprovedBeforeEffect
    ReceiptsTellTheTruth UnknownOutcomeIsReconciled WaitingIsAnswerable
    SettledIffTerminal ResultsInCallOrder
CHECK_DEADLOCK FALSE
