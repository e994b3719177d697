SPECIFICATION FairSpec
CONSTANTS
    Keys = {mutation, read}
    ReadOnly = {read}
    ReplaySafe = {read}
    Leases = {l1, l2, l3}
    ReservedBytes = 2
    SettledBytes = 1
    MaximumBytes = 4
    MaximumExecutions = 2
    MaxStarts = 2
    MaxRestarts = 1
INVARIANTS TypeOK AccountIsExact OneExecutionPerKey CompletionIsKept
    CanceledHadNoEffect
PROPERTY CommittedIsReleased
CHECK_DEADLOCK FALSE
