-------------------------- MODULE MC_RunExecution --------------------------
(***************************************************************************)
(* Instances of RunExecution for TLC.  Two workers are a holder and its    *)
(* successor; they differ in nothing but their names.                      *)
(***************************************************************************)
EXTENDS RunExecution, TLC

CONSTANTS w1, w2

\* Sound for the safety runs; the liveness runs do without it.
WorkerSymmetry == Permutations(Workers)

Batch(size, needsApproval, parallel, mayRevoke, maxFaults) ==
    [size |-> size, needsApproval |-> needsApproval, parallel |-> parallel,
     mayRevoke |-> mayRevoke, maxFaults |-> maxFaults]

\* An approved call whose policy may be revoked, two parallel calls, and two
\* calls in order of which the second waits for an approval.
AllBatches ==
    {Batch(1, {1}, FALSE, TRUE, 2), Batch(2, {}, TRUE, FALSE, 1),
     Batch(2, {2}, FALSE, FALSE, 2)}
ApprovedCall == {Batch(1, {1}, FALSE, FALSE, 1)}
FreeCall == {Batch(1, {}, FALSE, FALSE, 1)}
RevokedCall == {Batch(1, {}, FALSE, TRUE, 0)}
=============================================================================
