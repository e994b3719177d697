------------------------ MODULE RunExecutionControl ------------------------
(***************************************************************************)
(* The control layer of the proofs about RunExecution, for any workers,    *)
(* any batches of any size and any number of faults: what the place at     *)
(* which the holder of the lease stands says about the run and its         *)
(* records.  Control is inductive by itself and the ground of the layers   *)
(* in RunExecutionProofs.                                                  *)
(***************************************************************************)
EXTENDS RunExecution, FiniteSetTheorems, SequenceTheorems, TLAPS

\* Where a worker is inside the handling of one tool call.
CallAt ==
    {"prepare", "prepareReceipt", "approve", "commit", "toolCanceled", "ask",
     "reconciled", "resume", "resumed", "superseded", "cancelReceipt",
     "settleUnknown"}

\* Where the holder of the lease works on the batch, where it expects the run
\* to be running, waiting or reconciling, and where it has seen a cancel
\* request.
BatchAt == {"prepare", "prepareReceipt", "approve", "resolve", "commit"}
RunningAt ==
    BatchAt \cup {"deny", "sampling", "toolCanceled", "permanent", "resumed",
                  "superseded", "cancelReceipt", "cancelPrepared"}
StartingAt == {"policy", "start", "fail"}
WaitingAt == {"waiting", "supersede"}
ReconcilingAt == {"reconcile", "ask", "reconciled", "resume"}
CancelingAt ==
    {"supersede", "superseded", "cancelReceipt", "cancel", "settleUnknown",
     "confirm", "cancelPrepared"}

Undispatched == {"none", "prepared"}

-----------------------------------------------------------------------------
(* Control.                                                                *)

\* What a worker remembers while it is at a place, with its lease or without:
\* a call or an attempt.
Placed(pc, c, s) ==
    /\ pc \in CallAt => c \in Calls
    /\ pc = "cancelPrepared" => s \in Calls

\* What the holder of the lease may rely on at a place.
Held(pc, c, s) ==
    /\ pc \in RunningAt => run.status = "running"
    /\ pc \in StartingAt => run.status \in {"queued", "running"}
    /\ pc \in WaitingAt => run.status = "waitingApproval"
    /\ pc \in ReconcilingAt => run.status = "reconciling"
    /\ pc \in CancelingAt => run.cancelRequested
    /\ pc \in BatchAt => requested
    /\ pc \in BatchAt \ {"resolve"} => c \in Pending
    /\ pc = "resolve" => Pending # {}
    /\ pc = "sampling" => s = modelStep /\ batchDone
    /\ pc = "prepareReceipt" => receipts[c] = "none"
    /\ pc = "approve" => receipts[c] # "none"
    /\ pc = "cancelPrepared" => receipts[s] = "prepared"

PlaceAt(w) == Placed(wk[w].pc, wk[w].call, wk[w].att)
HolderAt(w) == Held(wk[w].pc, wk[w].call, wk[w].att)

\* The run and the records that refer to it.
RunInv ==
    /\ run.status # "suspended"
    /\ run.status = "waitingApproval" => run.waitingApproval \in Calls
    /\ run.status = "reconciling" =>
          /\ run.reconciliationReceiptId \in Calls
          /\ receipts[run.reconciliationReceiptId] \notin Undispatched
    /\ ~requested =>
          results = <<>> /\ \A c \in Calls : receipts[c] = "none"
    /\ SettledIffTerminal

Control ==
    /\ TypeOK /\ RunInv
    /\ \A w \in Workers : PlaceAt(w) /\ (item = w => HolderAt(w))

-----------------------------------------------------------------------------
(* Operators.                                                              *)

\* A set of natural numbers that is not empty has its minimum.
LEMMA MinIn ==
    ASSUME NEW S \in SUBSET Nat, S # {}
    PROVE  Min(S) \in S /\ \A y \in S : Min(S) <= y
<1>1. PICK m \in S : \A y \in S : <<y, m>> \notin OpToRel(<, Nat)
    BY NatLessThanWellFounded, WFMin, Zenon
<1>2. \A y \in S : ~(y < m)
    BY <1>1, Zenon DEF OpToRel
<1>3. \A y \in S : m <= y
    BY <1>2
<1> QED
    BY <1>3 DEF Min

\* The batch has at least one call, and calls are among the steps.
LEMMA Sizes ==
    ASSUME batch \in Batches
    PROVE  /\ N \in Nat \ {0} /\ Calls \subseteq Nat
           /\ NeedsApproval \subseteq Calls
           /\ MaxFaults \in Nat
           /\ Calls \subseteq Steps /\ FirstStep \in Steps /\ NextStep \in Steps
           /\ FirstStep \notin Calls /\ NextStep \notin Calls
           /\ FirstStep # NextStep /\ NoStep \notin Steps
           /\ Calls # {}
BY BatchAssumption DEF N, Calls, NeedsApproval, MaxFaults, Steps, FirstStep,
    NextStep, NoStep

-----------------------------------------------------------------------------
(* Moves of a worker.                                                      *)

CallResults ==
    Resolutions \cup {"none", "recovering", "dispatched", "started"}
Memories ==
    [pc: Locations, call: 0 .. N, att: Steps \cup {NoStep},
     res: [Calls -> CallResults]]

\* w comes to a place with a call and an attempt; nobody else moves.
Comes(w, pc, c, s) ==
    /\ wk' \in [Workers -> Memories]
    /\ wk'[w].pc = pc /\ wk'[w].call = c /\ wk'[w].att = s
    /\ \A v \in Workers \ {w} : wk'[v] = wk[v]

\* It keeps what it knows of the calls' results, or has another one for d.
Moved(w, pc, c, s) == Comes(w, pc, c, s) /\ wk'[w].res = wk[w].res
Learned(w, pc, c, s, d, r) ==
    /\ Comes(w, pc, c, s)
    /\ wk'[w].res = [wk[w].res EXCEPT ![d] = r]

LEMMA ReplaceOne ==
    ASSUME wk \in [Workers -> Memories], NEW w \in Workers, NEW m \in Memories,
           wk' = [wk EXCEPT ![w] = m]
    PROVE  /\ wk' \in [Workers -> Memories]
           /\ wk'[w] = m
           /\ \A v \in Workers \ {w} : wk'[v] = wk[v]
OBVIOUS

LEMMA GotoMoved ==
    ASSUME wk \in [Workers -> Memories], NEW w \in Workers,
           NEW pc \in Locations, Goto(w, pc)
    PROVE  Moved(w, pc, wk[w].call, wk[w].att)
<1> DEFINE m == [wk[w] EXCEPT !.pc = pc]
<1>1. m \in Memories /\ m.pc = pc /\ m.call = wk[w].call /\ m.att = wk[w].att
      /\ m.res = wk[w].res
    BY DEF Memories
<1>2. wk' = [wk EXCEPT ![w] = m]
    BY DEF Goto
<1> HIDE DEF m
<1> QED
    BY <1>1, <1>2, ReplaceOne DEF Moved, Comes

LEMMA GotoCallMoved ==
    ASSUME wk \in [Workers -> Memories], NEW w \in Workers,
           NEW pc \in Locations, NEW c \in 0 .. N, GotoCall(w, pc, c)
    PROVE  Moved(w, pc, c, wk[w].att)
<1> DEFINE m == [wk[w] EXCEPT !.pc = pc, !.call = c]
<1>1. m \in Memories /\ m.pc = pc /\ m.call = c /\ m.att = wk[w].att
      /\ m.res = wk[w].res
    BY DEF Memories
<1>2. wk' = [wk EXCEPT ![w] = m]
    BY DEF GotoCall
<1> HIDE DEF m
<1> QED
    BY <1>1, <1>2, ReplaceOne DEF Moved, Comes

LEMMA GotoWithMoved ==
    ASSUME wk \in [Workers -> Memories], NEW w \in Workers,
           NEW pc \in Locations, NEW s \in Steps \cup {NoStep}, GotoWith(w, pc, s)
    PROVE  Moved(w, pc, wk[w].call, s)
<1> DEFINE m == [wk[w] EXCEPT !.pc = pc, !.att = s]
<1>1. m \in Memories /\ m.pc = pc /\ m.call = wk[w].call /\ m.att = s
      /\ m.res = wk[w].res
    BY DEF Memories
<1>2. wk' = [wk EXCEPT ![w] = m]
    BY DEF GotoWith
<1> HIDE DEF m
<1> QED
    BY <1>1, <1>2, ReplaceOne DEF Moved, Comes

LEMMA ResolveLearned ==
    ASSUME wk \in [Workers -> Memories], NEW w \in Workers,
           NEW c \in Calls, NEW r \in CallResults, Resolve(w, c, r)
    PROVE  Learned(w, wk[w].pc, wk[w].call, wk[w].att, c, r)
<1> DEFINE m == [wk[w] EXCEPT !.res[c] = r]
<1>1. m \in Memories /\ m.pc = wk[w].pc /\ m.call = wk[w].call
      /\ m.att = wk[w].att /\ m.res = [wk[w].res EXCEPT ![c] = r]
    BY DEF Memories
<1>2. wk' = [wk EXCEPT ![w] = m]
    BY DEF Resolve
<1> HIDE DEF m
<1> QED
    BY <1>1, <1>2, ReplaceOne DEF Learned, Comes

LEMMA AnswerLearned ==
    ASSUME wk \in [Workers -> Memories], NEW w \in Workers,
           NEW pc \in Locations, NEW c \in Calls, NEW r \in CallResults, c \in 0 .. N,
           wk' = [wk EXCEPT ![w].call = c, ![w].pc = pc, ![w].res[c] = r]
    PROVE  Learned(w, pc, c, wk[w].att, c, r)
<1> DEFINE m == [wk[w] EXCEPT !.call = c, !.pc = pc, !.res[c] = r]
<1>1. m \in Memories /\ m.pc = pc /\ m.call = c
      /\ m.att = wk[w].att /\ m.res = [wk[w].res EXCEPT ![c] = r]
    BY DEF Memories
<1>2. wk' = [wk EXCEPT ![w] = m]
    OBVIOUS
<1> HIDE DEF m
<1> QED
    BY <1>1, <1>2, ReplaceOne DEF Learned, Comes

LEMMA LeaveMoved ==
    ASSUME wk \in [Workers -> Memories], batch \in Batches,
           NEW w \in Workers, Leave(w)
    PROVE  /\ wk' \in [Workers -> Memories]
           /\ wk'[w] = IdleWorker /\ wk'[w].pc = "idle"
           /\ \A c \in Calls : wk'[w].res[c] = "none"
           /\ \A v \in Workers \ {w} : wk'[v] = wk[v]
<1>1. /\ IdleWorker \in Memories /\ IdleWorker.pc = "idle"
      /\ \A c \in Calls : IdleWorker.res[c] = "none"
  <2>1. N \in Nat
      BY Sizes
  <2> QED
    BY <2>1 DEF IdleWorker, Memories, CallResults, Locations
<1>2. wk' = [wk EXCEPT ![w] = IdleWorker]
    BY DEF Leave
<1> HIDE DEF IdleWorker
<1> QED
    BY <1>1, <1>2, ReplaceOne

\* The constants of the batch stay; worker states have the shape TypeOK says.
Fixed == /\ batch' = batch /\ N' = N /\ Calls' = Calls /\ Steps' = Steps
         /\ NoStep' = NoStep /\ NextStep' = NextStep /\ Memories' = Memories
         /\ NeedsApproval' = NeedsApproval /\ Parallel' = Parallel
         /\ MaxFaults' = MaxFaults

LEMMA FixedBatch == batch' = batch => Fixed
BY DEF Fixed, N, Calls, Steps, NoStep, NextStep, NeedsApproval, Parallel,
       MaxFaults, Memories

LEMMA WorkerTypes == TypeOK => wk \in [Workers -> Memories]
BY DEF TypeOK, Memories, CallResults

EntryStates ==
    {"none", "running", "interrupted", "acked", "unknownOutcome", "completed",
     "canceled"}

\* What TypeOK says of everything but the workers' states.
StoreTypes ==
    /\ run \in RunState /\ batch \in Batches
    /\ item \in Workers \cup {"pending", "expired", "settled"}
    /\ requested \in BOOLEAN /\ revoked \in BOOLEAN
    /\ results \in Seq(Calls)
    /\ receipts \in [Calls -> ReceiptStatuses]
    /\ approvals \in [Calls -> ApprovalStatuses]
    /\ attempts \in [Steps -> AttemptStatuses]
    /\ entry \in [Workers -> [Calls -> EntryStates]]
    /\ provider \in [Calls -> {"none", "running", "done", "voided"}]
    /\ effects \in [Calls -> Nat]
    /\ faults \in 0 .. MaxFaults

LEMMA TypesSplit ==
    /\ TypeOK <=> StoreTypes /\ wk \in [Workers -> Memories]
    /\ TypeOK' <=> StoreTypes' /\ wk' \in [Workers -> Memories']
BY DEF TypeOK, StoreTypes, EntryStates, Memories, CallResults

\* Places about which nothing is claimed.
FreeAt == {"idle", "step", "continue", "error"}

LEMMA FreePlace ==
    ASSUME NEW pc \in FreeAt, NEW c, NEW s
    PROVE  Placed(pc, c, s) /\ Held(pc, c, s)
BY DEF Placed, Held, FreeAt, CallAt, BatchAt, RunningAt, StartingAt, WaitingAt,
       ReconcilingAt, CancelingAt

LEMMA StoreTypesKept ==
    ASSUME StoreTypes, UNCHANGED <<store, process, env>>
    PROVE  StoreTypes'
<1>1. Fixed
    BY FixedBatch DEF env
<1> QED
    BY <1>1 DEF StoreTypes, Fixed, store, process, env

\* What is to be shown when the holder moves and changes the store: nobody
\* else learns anything.
LEMMA HolderMove ==
    ASSUME Control, NEW w \in Workers, item = w,
           NEW pc, NEW c, NEW s, Comes(w, pc, c, s),
           StoreTypes', RunInv', batch' = batch,
           item' \in {w, "pending", "expired", "settled"},
           Placed(pc, c, s), item' = w => Held(pc, c, s)'
    PROVE  Control'
<1>0. Fixed
    BY FixedBatch
<1>1. TypeOK'
    BY <1>0, TypesSplit DEF Comes, Fixed
<1>2. ASSUME NEW v \in Workers \ {w}
      PROVE  PlaceAt(v)' /\ item' # v
    BY <1>0, WorkerAssumption DEF Control, PlaceAt, Placed, Fixed, Comes
<1>3. PlaceAt(w)' /\ (item' = w => HolderAt(w)')
    BY <1>0 DEF Comes, PlaceAt, Placed, HolderAt, Held, Fixed
<1> QED
    BY <1>1, <1>2, <1>3 DEF Control

\* The same when it gives its lease up and forgets the run.
LEMMA HolderLeaves ==
    ASSUME Control, NEW w \in Workers, item = w, Leave(w),
           StoreTypes', RunInv', batch' = batch,
           item' \in {w, "pending", "expired", "settled"}
    PROVE  Control'
<1>0. Fixed
    BY FixedBatch
<1>1. /\ wk' \in [Workers -> Memories] /\ wk'[w].pc = "idle"
      /\ \A v \in Workers \ {w} : wk'[v] = wk[v]
    BY LeaveMoved, TypesSplit DEF Control, StoreTypes
<1>2. TypeOK'
    BY <1>0, <1>1, TypesSplit DEF Fixed
<1>3. ASSUME NEW v \in Workers \ {w}
      PROVE  PlaceAt(v)' /\ item' # v
    BY <1>0, <1>1, WorkerAssumption DEF Control, PlaceAt, Placed, Fixed
<1>4. PlaceAt(w)' /\ HolderAt(w)'
    BY <1>1, FreePlace DEF PlaceAt, HolderAt, Placed, Held, FreeAt, CallAt, BatchAt,
       RunningAt, StartingAt, WaitingAt, ReconcilingAt, CancelingAt
<1> QED
    BY <1>2, <1>3, <1>4 DEF Control

\* The same when the store is left alone, whoever holds the lease.
LEMMA StoreKept ==
    ASSUME Control, NEW w \in Workers, UNCHANGED <<store, batch>>, StoreTypes',
           wk' \in [Workers -> Memories],
           \A v \in Workers \ {w} : wk'[v] = wk[v],
           PlaceAt(w)', item = w => HolderAt(w)'
    PROVE  Control'
<1> USE DEF store
<1>1. Fixed
    BY FixedBatch
<1>2. \A v \in Workers \ {w} : PlaceAt(v)'
    BY <1>1 DEF Control, PlaceAt, Placed, Fixed
<1>3. ASSUME NEW v \in Workers \ {w}, item' = v
      PROVE  HolderAt(v)'
    BY <1>1, <1>3 DEF Control, HolderAt, Held, Fixed, Pending, modelStep, batchDone
<1>4. RunInv'
    BY <1>1 DEF Control, RunInv, Fixed, SettledIffTerminal
<1>5. TypeOK'
    BY <1>1, TypesSplit DEF Fixed
<1> QED
    BY <1>2, <1>3, <1>4, <1>5 DEF Control

\* A step that only moves a worker.
LEMMA LocalMove ==
    ASSUME Control, NEW w \in Workers, NEW pc, NEW c, NEW s,
           Comes(w, pc, c, s), localStep,
           Placed(pc, c, s), item = w => Held(pc, c, s)
    PROVE  Control'
<1>1. StoreTypes' /\ Fixed
    BY StoreTypesKept, TypesSplit, FixedBatch DEF localStep, Control, env
<1>2. PlaceAt(w)'
    BY <1>1 DEF Comes, PlaceAt, Placed, Fixed
<1>3. item = w => HolderAt(w)'
    BY <1>1 DEF Comes, HolderAt, Held, Fixed, localStep, store, Pending, modelStep,
        batchDone
<1> QED
    BY <1>1, <1>2, <1>3, StoreKept DEF localStep, env, Comes

LEMMA LocalLeave ==
    ASSUME Control, NEW w \in Workers, Leave(w), localStep
    PROVE  Control'
<1>1. /\ wk' \in [Workers -> Memories] /\ wk'[w].pc = "idle"
      /\ \A v \in Workers \ {w} : wk'[v] = wk[v]
    BY LeaveMoved, TypesSplit DEF Control, StoreTypes
<1>2. StoreTypes'
    BY StoreTypesKept, TypesSplit DEF localStep, Control
<1>3. PlaceAt(w)' /\ HolderAt(w)'
    BY <1>1 DEF PlaceAt, HolderAt, Placed, Held, CallAt, BatchAt, RunningAt,
       StartingAt, WaitingAt, ReconcilingAt, CancelingAt
<1> QED
    BY <1>1, <1>2, <1>3, StoreKept DEF localStep, env

\* The facts at the beginning of every case below.
LEMMA Begin ==
    ASSUME Control, NEW w \in Workers
    PROVE  /\ TypeOK /\ StoreTypes /\ RunInv /\ wk \in [Workers -> Memories]
           /\ PlaceAt(w) /\ (item = w => HolderAt(w))
           /\ wk[w].pc \in Locations
           /\ wk[w].call \in 0 .. N /\ wk[w].att \in Steps \cup {NoStep}
           /\ wk[w].res \in [Calls -> CallResults]
           /\ Calls \subseteq 0 .. N /\ Calls \subseteq Steps
           /\ Pending \subseteq Calls
           /\ Pending # {} => Min(Pending) \in Pending
<1>1. /\ TypeOK /\ StoreTypes /\ RunInv /\ wk \in [Workers -> Memories]
      /\ PlaceAt(w) /\ (item = w => HolderAt(w))
    BY TypesSplit DEF Control
<1>2. /\ wk[w].pc \in Locations
      /\ wk[w].call \in 0 .. N /\ wk[w].att \in Steps \cup {NoStep}
      /\ wk[w].res \in [Calls -> CallResults]
    BY <1>1 DEF Memories
<1>3. Calls \subseteq 0 .. N /\ Calls \subseteq Steps /\ Calls \subseteq Nat
    BY <1>1, Sizes DEF StoreTypes, Calls
<1>4. Pending \subseteq Calls
    BY DEF Pending
<1> QED
    BY <1>1, <1>2, <1>3, <1>4, MinIn

LEMMA LocalSteps ==
    ASSUME Control, NEW w \in Workers,
        \/ evaluatePolicy(w) \/ resumePendingTools(w)
        \/ samplingFailed(w) \/ samplingCanceled(w)
        \/ batchResolved(w) \/ commitRejected(w) \/ afterToolCanceled(w)
        \/ afterResumed(w) \/ drained(w) \/ cancelConflict(w) \/ denyRefused(w)
        \/ cancelPreparedRefused(w) \/ leaseLost(w)
    PROVE  Control'
<1> USE Begin DEF Moved, HolderAt, Held, PlaceAt, Placed, Holding, At, CallAt, BatchAt,
        RunningAt, StartingAt, WaitingAt, ReconcilingAt, CancelingAt
<1> DEFINE c == wk[w].call
           s == wk[w].att
<1>1. ASSUME NEW pc \in FreeAt, Goto(w, pc), localStep
      PROVE  Control'
    BY <1>1, GotoMoved, FreePlace, LocalMove DEF FreeAt, Locations
<1>2. CASE evaluatePolicy(w)
  <2>1. PICK pc \in {"fail", "deny", "start"} :
          /\ Goto(w, pc)
          /\ run.status = "queued" => pc # "deny"
      BY <1>2 DEF evaluatePolicy
  <2>2. Moved(w, pc, c, s)
      BY <2>1, GotoMoved DEF Locations
  <2>3. Placed(pc, c, s) /\ (item = w => Held(pc, c, s))
      BY <1>2, <2>1 DEF evaluatePolicy
  <2> QED
      BY <1>2, <2>2, <2>3, LocalMove DEF evaluatePolicy
<1>3. CASE resumePendingTools(w)
  <2>1. Moved(w, "prepare", Min(Pending), s)
      BY <1>3, GotoCallMoved DEF resumePendingTools, Locations
  <2>2. Placed("prepare", Min(Pending), s) /\ Held("prepare", Min(Pending), s)
      BY <1>3 DEF resumePendingTools
  <2> QED
      BY <1>3, <2>1, <2>2, LocalMove DEF resumePendingTools
<1>4. CASE samplingFailed(w)
  <2>1. Moved(w, "fail", c, s)
      BY <1>4, GotoMoved DEF samplingFailed, Locations
  <2>2. Placed("fail", c, s) /\ Held("fail", c, s)
      BY <1>4 DEF samplingFailed
  <2> QED
      BY <1>4, <2>1, <2>2, LocalMove DEF samplingFailed
<1>5. CASE samplingCanceled(w)
  <2>1. CASE Goto(w, "cancel")
    <3>1. Moved(w, "cancel", c, s)
        BY <2>1, GotoMoved DEF Locations
    <3>2. Placed("cancel", c, s) /\ Held("cancel", c, s)
        BY <1>5 DEF samplingCanceled
    <3> QED
        BY <1>5, <3>1, <3>2, LocalMove DEF samplingCanceled
  <2>2. CASE Goto(w, "error")
      BY <1>1, <1>5, <2>2 DEF samplingCanceled, FreeAt
  <2> QED
      BY <1>5, <2>1, <2>2 DEF samplingCanceled
<1>6. CASE batchResolved(w)
  <2>1. Pending # {}
      BY <1>6 DEF batchResolved
  <2>2. Moved(w, "commit", Min(Pending), s)
      BY <1>6, <2>1, GotoCallMoved DEF batchResolved, Locations
  <2>3. Placed("commit", Min(Pending), s) /\ Held("commit", Min(Pending), s)
      BY <1>6, <2>1 DEF batchResolved
  <2> QED
      BY <1>6, <2>2, <2>3, LocalMove DEF batchResolved
<1>7. CASE commitRejected(w) \/ cancelConflict(w) \/ denyRefused(w)
    BY <1>1, <1>7 DEF commitRejected, cancelConflict, denyRefused, FreeAt
<1>8. CASE afterToolCanceled(w)
  <2>1. CASE run.cancelRequested
    <3>1. Moved(w, "cancel", c, c)
        BY <1>8, <2>1, GotoWithMoved DEF afterToolCanceled, Locations
    <3>2. Placed("cancel", c, c) /\ Held("cancel", c, c)
        BY <2>1
    <3> QED
        BY <1>8, <3>1, <3>2, LocalMove DEF afterToolCanceled
  <2>2. CASE ~run.cancelRequested
    <3>1. Moved(w, "permanent", c, s)
        BY <1>8, <2>2, GotoMoved DEF afterToolCanceled, Locations
    <3>2. Placed("permanent", c, s) /\ Held("permanent", c, s)
        BY <1>8 DEF afterToolCanceled
    <3> QED
        BY <1>8, <3>1, <3>2, LocalMove DEF afterToolCanceled
  <2> QED
      BY <2>1, <2>2
<1>9. CASE afterResumed(w)
  <2>1. PICK pc \in {"cancel", "fail"} :
          /\ GotoWith(w, pc, c)
          /\ pc = "cancel" => run.cancelRequested
      BY <1>9 DEF afterResumed
  <2>2. Moved(w, pc, c, c)
      BY <1>9, <2>1, GotoWithMoved DEF afterResumed, Locations
  <2>3. Placed(pc, c, c) /\ Held(pc, c, c)
      BY <1>9, <2>1 DEF afterResumed
  <2> QED
      BY <1>9, <2>2, <2>3, LocalMove DEF afterResumed
<1>10. CASE drained(w)
  <2>1. Moved(w, "confirm", c, s)
      BY <1>10, GotoMoved DEF drained, Locations
  <2>2. Placed("confirm", c, s) /\ Held("confirm", c, s)
      BY <1>10 DEF drained
  <2> QED
      BY <1>10, <2>1, <2>2, LocalMove DEF drained
<1>11. CASE cancelPreparedRefused(w) \/ leaseLost(w)
    BY <1>11, LocalLeave DEF cancelPreparedRefused, leaseLost
<1> QED
    BY <1>2, <1>3, <1>4, <1>5, <1>6, <1>7, <1>8, <1>9, <1>10, <1>11

-----------------------------------------------------------------------------
(* Steps of the holder that begin or end an attempt.                       *)

LEMMA AttemptTypes ==
    ASSUME StoreTypes, NEW s
    PROVE  /\ begin(s) => attempts' \in [Steps -> AttemptStatuses]
           /\ \A status \in AttemptStatuses :
                /\ finish(s, status) => attempts' \in [Steps -> AttemptStatuses]
                /\ finishIfAny(s, status) => attempts' \in [Steps -> AttemptStatuses]
<1>1. begin(s) => attempts' \in [Steps -> AttemptStatuses]
    BY DEF StoreTypes, begin, AttemptStatuses
<1>2. ASSUME NEW status \in AttemptStatuses
      PROVE  finish(s, status) => attempts' \in [Steps -> AttemptStatuses]
    BY DEF StoreTypes, finish
<1>3. ASSUME NEW status \in AttemptStatuses
      PROVE  finishIfAny(s, status) => attempts' \in [Steps -> AttemptStatuses]
    BY <1>2 DEF StoreTypes, finishIfAny
<1> QED
    BY <1>1, <1>2, <1>3

\* No part of Control but the types speaks of attempts.
LEMMA AttemptMove ==
    ASSUME Control, NEW w \in Workers, NEW pc, NEW c, NEW s, item = w,
           Comes(w, pc, c, s), attemptStep,
           attempts' \in [Steps -> AttemptStatuses],
           Placed(pc, c, s), Held(pc, c, s)
    PROVE  Control'
<1>1. Fixed /\ batch' = batch
    BY FixedBatch DEF attemptStep, env
<1>2. StoreTypes'
    BY <1>1, TypesSplit DEF Control, StoreTypes, attemptStep, Fixed, process, env
<1>3. RunInv'
    BY <1>1 DEF Control, RunInv, Fixed, SettledIffTerminal, attemptStep
<1>4. Held(pc, c, s)' /\ item' = w
    BY <1>1 DEF Held, Fixed, attemptStep, Pending, modelStep, batchDone
<1> QED
    BY <1>1, <1>2, <1>3, <1>4, HolderMove

LEMMA AttemptSteps ==
    ASSUME Control, NEW w \in Workers,
        \/ denyRun(w) \/ beginModelAttempt(w) \/ beginToolExecution(w)
        \/ callRefused(w) \/ beginToolReconciliation(w) \/ recoverSuperseded(w)
        \/ drainUnknown(w) \/ cancelPreparedApprovedTool(w) \/ beginCancelAttempt(w)
        \/ \E c \in Calls : beginToolRecovery(w, c)
    PROVE  Control'
<1> USE Begin, AttemptTypes DEF Moved, HolderAt, Held, PlaceAt, Placed, Holding, At, CallAt,
        BatchAt, RunningAt, StartingAt, WaitingAt, ReconcilingAt, CancelingAt
<1> DEFINE c == wk[w].call
           s == wk[w].att
<1>0. batch \in Batches
    BY DEF StoreTypes
<1>1. CASE denyRun(w)
  <2>1. Moved(w, "fail", c, FirstStep)
      BY <1>0, <1>1, Sizes, GotoWithMoved DEF denyRun, Locations
  <2>2. Placed("fail", c, FirstStep) /\ Held("fail", c, FirstStep)
      BY <1>1 DEF denyRun
  <2> QED
      BY <1>1, <2>1, <2>2, AttemptMove DEF denyRun
<1>2. CASE beginModelAttempt(w)
  <2>1. modelStep \in Steps
      BY <1>0, Sizes DEF modelStep
  <2>2. Moved(w, "sampling", c, modelStep)
      BY <1>2, <2>1, GotoWithMoved DEF beginModelAttempt, Locations
  <2>3. Placed("sampling", c, modelStep) /\ Held("sampling", c, modelStep)
      BY <1>2 DEF beginModelAttempt
  <2> QED
      BY <1>2, <2>2, <2>3, AttemptMove DEF beginModelAttempt
<1>3. CASE beginToolExecution(w)
  <2>1. PICK pc \in {"approve", "prepareReceipt"} :
          /\ Goto(w, pc)
          /\ pc = "approve" <=> receipts[c] # "none"
          /\ attempts' \in [Steps -> AttemptStatuses]
      BY <1>3 DEF beginToolExecution, StoreTypes
  <2>2. Moved(w, pc, c, s)
      BY <2>1, GotoMoved DEF Locations
  <2>3. Placed(pc, c, s) /\ Held(pc, c, s)
      BY <1>3, <2>1 DEF beginToolExecution
  <2> QED
      BY <1>3, <2>1, <2>2, <2>3, AttemptMove DEF beginToolExecution
<1>4. CASE callRefused(w)
  <2>1. Moved(w, "fail", c, c)
      BY <1>4, GotoWithMoved DEF callRefused, Locations
  <2>2. Placed("fail", c, c) /\ Held("fail", c, c)
      BY <1>4 DEF callRefused
  <2>3. attempts' \in [Steps -> AttemptStatuses]
      BY <1>4 DEF callRefused, StoreTypes
  <2> QED
      BY <1>4, <2>1, <2>2, <2>3, AttemptMove DEF callRefused
<1>5. CASE beginToolReconciliation(w)
  <2> DEFINE d == run.reconciliationReceiptId
             pc == IF isOpen(d) THEN "ask" ELSE "reconciled"
             r == IF isOpen(d) THEN wk[w].res[d] ELSE receipts[d]
  <2>1. d \in Calls /\ receipts[d] \in ReceiptStatuses \ Undispatched
      BY <1>5 DEF beginToolReconciliation, RunInv, StoreTypes
  <2>2. r \in CallResults
      BY <2>1 DEF CallResults, Resolutions, isOpen, ReceiptStatuses, Undispatched
  <2>3. wk' = [wk EXCEPT ![w].call = d, ![w].pc = pc, ![w].res[d] = r]
      BY <1>5 DEF beginToolReconciliation
  <2>4. Learned(w, pc, d, s, d, r)
    <3>1. pc \in Locations
        BY DEF Locations
    <3> HIDE DEF pc, r, d
    <3> QED
        BY <2>1, <2>2, <2>3, <3>1, AnswerLearned
  <2>5. Placed(pc, d, s) /\ Held(pc, d, s)
      BY <1>5, <2>1 DEF beginToolReconciliation
  <2> HIDE DEF pc, r, d
  <2> QED
      BY <1>5, <2>4, <2>5, AttemptMove DEF beginToolReconciliation, Learned, d
<1>6. CASE recoverSuperseded(w)
  <2>1. Moved(w, "cancelReceipt", c, s)
      BY <1>6, GotoMoved DEF recoverSuperseded, Locations
  <2>2. Placed("cancelReceipt", c, s) /\ Held("cancelReceipt", c, s)
      BY <1>6 DEF recoverSuperseded
  <2> QED
      BY <1>6, <2>1, <2>2, AttemptMove DEF recoverSuperseded
<1>7. CASE drainUnknown(w)
  <2> DEFINE d == Min(DrainUnknown(w))
  <2>1. d \in DrainUnknown(w) /\ d \in Calls
      BY <1>0, <1>7, MinIn, Sizes DEF drainUnknown, DrainUnknown
  <2>2. Moved(w, "settleUnknown", d, s)
      BY <1>7, <2>1, GotoCallMoved DEF drainUnknown, Locations
  <2>3. Placed("settleUnknown", d, s) /\ Held("settleUnknown", d, s)
      BY <1>7, <2>1 DEF drainUnknown
  <2> QED
      BY <1>7, <2>2, <2>3, AttemptMove DEF drainUnknown
<1>8. CASE cancelPreparedApprovedTool(w)
  <2> DEFINE d == Min(PreparedApproved)
  <2>1. PreparedApproved \subseteq Calls /\ PreparedApproved # {}
      BY <1>8 DEF cancelPreparedApprovedTool, NeedsPreparedCancel, PreparedApproved
  <2>2. d \in PreparedApproved /\ d \in Calls
      BY <1>0, <2>1, MinIn, Sizes
  <2>3. receipts[d] = "prepared"
      BY <2>2 DEF PreparedApproved
  <2>4. Moved(w, "cancelPrepared", c, d)
      BY <1>8, <2>2, GotoWithMoved DEF cancelPreparedApprovedTool, Locations
  <2>5. Placed("cancelPrepared", c, d) /\ Held("cancelPrepared", c, d)
      BY <1>8, <2>2, <2>3 DEF cancelPreparedApprovedTool, NeedsPreparedCancel
  <2> QED
      BY <1>8, <2>4, <2>5, AttemptMove DEF cancelPreparedApprovedTool
<1>9. CASE beginCancelAttempt(w)
  <2>1. Moved(w, "confirm", c, FirstStep)
      BY <1>0, <1>9, Sizes, GotoWithMoved DEF beginCancelAttempt, Locations
  <2>2. Placed("confirm", c, FirstStep) /\ Held("confirm", c, FirstStep)
      BY <1>9 DEF beginCancelAttempt
  <2> QED
      BY <1>9, <2>1, <2>2, AttemptMove DEF beginCancelAttempt
<1>10. CASE \E d \in Calls : beginToolRecovery(w, d)
  <2>1. PICK d \in Calls : beginToolRecovery(w, d)
      BY <1>10
  <2>2. PICK r \in CallResults : Resolve(w, d, r)
      BY <2>1 DEF beginToolRecovery, CallResults
  <2>3. Learned(w, wk[w].pc, c, s, d, r)
      BY <2>2, ResolveLearned
  <2> QED
      BY <2>1, <2>3, AttemptMove DEF beginToolRecovery, Turn, Learned
<1> QED
    BY <1>1, <1>2, <1>3, <1>4, <1>5, <1>6, <1>7, <1>8, <1>9, <1>10

-----------------------------------------------------------------------------
(* Steps that end with the work item given back or the run over.           *)

\* The events that this module commits, as the reducer applies them.
LEMMA Reduced ==
    ASSUME run \in RunState, NEW ref \in Nat
    PROVE  /\ Commit("run.started", ref) =>
                run.status = "queued" /\ run' = [run EXCEPT !.status = "running"]
           /\ Commit("run.approval.required", ref) =>
                /\ run.status = "running"
                /\ run' = [run EXCEPT !.status = "waitingApproval",
                                      !.waitingApproval = ref]
           /\ Commit("run.resumed", ref) =>
                run' = [run EXCEPT !.status = "running", !.waitingApproval = NoRef,
                                   !.reconciliationReceiptId = NoRef]
           /\ Commit("run.reconciliation.required", ref) =>
                /\ run.status = "running"
                /\ run' = [run EXCEPT !.status = "reconciling",
                                      !.reconciliationReceiptId = ref]
           /\ Commit("run.cancel.requested", ref) =>
                /\ ~isTerminal(run.status)
                /\ run' = [run EXCEPT !.cancelRequested = TRUE]
           /\ Commit("run.completed", ref) =>
                run.status = "running" /\ run' = [run EXCEPT !.status = "completed"]
           /\ Commit("run.failed", ref) => run' = [run EXCEPT !.status = "failed"]
           /\ Commit("run.canceled", ref) =>
                /\ run.status # "reconciling"
                /\ run' = [run EXCEPT !.status = "canceled"]
           /\ Commit("activity", ref) => run.status = "running" /\ run' = run
BY DEF Commit, accepts, requiredStatus, reduceRunLifecycleEvent

\* The work item goes back and nothing Control speaks of changes.
LEMMA GivesBack ==
    ASSUME Control, NEW w \in Workers, item = w, item' \in {w, "pending", "expired"},
           Leave(w), UNCHANGED <<run, requested, results, receipts, batch>>, StoreTypes'
    PROVE  Control'
<1>1. Fixed
    BY FixedBatch
<1>2. RunInv'
    BY <1>1, WorkerAssumption DEF Control, RunInv, Fixed, SettledIffTerminal
<1> QED
    BY <1>2, HolderLeaves

\* The broker's state stays one, whatever is acknowledged.
LEMMA AcknowledgeTypes ==
    ASSUME StoreTypes, NEW w \in Workers, NEW c \in Calls, NEW status,
           Acknowledge(w, c, status)
    PROVE  entry' \in [Workers -> [Calls -> EntryStates]]
<1>1. acknowledged(entry[w][c], status) \in EntryStates
    BY DEF StoreTypes, acknowledged, EntryStates
<1>2. [entry[w] EXCEPT ![c] = acknowledged(entry[w][c], status)] \in [Calls -> EntryStates]
    BY <1>1 DEF StoreTypes
<1>3. entry' = [entry EXCEPT
                  ![w] = [entry[w] EXCEPT ![c] = acknowledged(entry[w][c], status)]]
    BY DEF Acknowledge
<1> QED
    BY <1>2, <1>3 DEF StoreTypes

LEMMA ReleaseSteps ==
    ASSUME Control, NEW w \in Workers,
        \/ yieldClaim(w) \/ recheckApproval(w) \/ drainFailed(w)
        \/ retryActiveAttempt(w) \/ retryToolReconciliation(w)
    PROVE  Control'
<1> USE Begin, AttemptTypes DEF Holding, Release
<1>1. CASE yieldClaim(w) \/ recheckApproval(w) \/ drainFailed(w)
  <2>1. item = w /\ Leave(w) /\ item' = "pending" /\ releaseStep
      BY <1>1 DEF yieldClaim, recheckApproval, drainFailed
  <2>2. Fixed /\ batch' = batch
      BY <2>1, FixedBatch DEF releaseStep, env
  <2>3. StoreTypes'
      BY <2>1, <2>2 DEF StoreTypes, releaseStep, Fixed, process, env
  <2> QED
      BY <2>1, <2>2, <2>3, GivesBack DEF releaseStep
<1>2. CASE retryActiveAttempt(w)
  <2>1. item = w /\ Leave(w) /\ item' = "pending"
      BY <1>2 DEF retryActiveAttempt
  <2>2. Fixed /\ batch' = batch
      BY <1>2, FixedBatch DEF retryActiveAttempt, env
  <2>3. attempts' \in [Steps -> AttemptStatuses]
      BY <1>2 DEF retryActiveAttempt, AttemptStatuses
  <2>4. StoreTypes'
      BY <1>2, <2>1, <2>2, <2>3 DEF retryActiveAttempt, StoreTypes, Fixed, process, env
  <2> QED
      BY <1>2, <2>1, <2>2, <2>4, GivesBack DEF retryActiveAttempt
<1>3. CASE retryToolReconciliation(w)
  <2>1. item = w /\ Leave(w) /\ item' = "pending"
      BY <1>3 DEF retryToolReconciliation
  <2>2. Fixed /\ batch' = batch
      BY <1>3, FixedBatch DEF retryToolReconciliation, env
  <2>3. /\ attempts' \in [Steps -> AttemptStatuses]
        /\ entry' \in [Workers -> [Calls -> EntryStates]]
      BY <1>3, AcknowledgeTypes
      DEF retryToolReconciliation, AttemptStatuses, At, PlaceAt, Placed, CallAt
  <2>4. StoreTypes'
      BY <1>3, <2>1, <2>2, <2>3 DEF retryToolReconciliation, StoreTypes, Fixed, env
  <2> QED
      BY <1>3, <2>1, <2>2, <2>4, GivesBack DEF retryToolReconciliation
<1> QED
    BY <1>1, <1>2, <1>3

\* A terminal event ends the run and settles its work item.
LEMMA TerminalSteps ==
    ASSUME Control, NEW w \in Workers,
           completeTextRun(w) \/ failRun(w) \/ permanentError(w) \/ confirmCanceled(w)
    PROVE  Control'
<1> USE Begin, AttemptTypes DEF Holding
<1>1. ASSUME NEW type \in {"run.completed", "run.failed", "run.canceled"}, NEW s,
             item = w, commitTerminal(w, type, s), terminalStep
      PROVE  Control'
  <2>1. /\ run' \in RunState
        /\ run'.status \in {"completed", "failed", "canceled"}
      BY <1>1, Reduced DEF commitTerminal, StoreTypes, RunState, RunStatuses, NoRef
  <2>2. Fixed /\ batch' = batch
      BY <1>1, FixedBatch DEF terminalStep, env
  <2>3. attempts' \in [Steps -> AttemptStatuses]
      BY <1>1 DEF commitTerminal, AttemptStatuses
  <2>4. StoreTypes'
      BY <1>1, <2>1, <2>2, <2>3 DEF commitTerminal, terminalStep, StoreTypes, Fixed, process, env
  <2>5. RunInv'
      BY <1>1, <2>1, <2>2 DEF commitTerminal, terminalStep, RunInv, Fixed,
        SettledIffTerminal, isTerminal
  <2> QED
      BY <1>1, <2>2, <2>4, <2>5, HolderLeaves DEF commitTerminal
<1>2. CASE completeTextRun(w) \/ failRun(w)
    BY <1>1, <1>2 DEF completeTextRun, failRun
<1>3. CASE confirmCanceled(w)
  <2>1. PICK s : commitTerminal(w, "run.canceled", s)
      BY <1>3 DEF confirmCanceled
  <2> QED
      BY <1>1, <1>3, <2>1 DEF confirmCanceled
<1>4. CASE permanentError(w)
  <2>1. CASE commitTerminal(w, "run.failed", currentAttempt)
      BY <1>1, <1>4, <2>1 DEF permanentError
  <2>2. CASE /\ run.cancelRequested
             /\ GotoWith(w, "cancel", NoStep)
             /\ UNCHANGED <<run, item, attempts>>
    <3>1. Moved(w, "cancel", wk[w].call, NoStep)
        BY <2>2, GotoWithMoved DEF Locations
    <3>2. Placed("cancel", wk[w].call, NoStep) /\ Held("cancel", wk[w].call, NoStep)
        BY <2>2 DEF Placed, Held, CallAt, BatchAt, RunningAt, StartingAt, WaitingAt,
            ReconcilingAt, CancelingAt
    <3> QED
        BY <1>4, <2>2, <3>1, <3>2, LocalMove
        DEF permanentError, terminalStep, localStep, store, Moved
  <2> QED
      BY <1>4, <2>1, <2>2 DEF permanentError
<1> QED
    BY <1>2, <1>3, <1>4

-----------------------------------------------------------------------------
(* Steps of the holder that write a receipt.                               *)

LEMMA ReceiptMove ==
    ASSUME Control, NEW w \in Workers, NEW pc, NEW c, NEW s, item = w,
           Comes(w, pc, c, s), StoreTypes', requested,
           UNCHANGED <<batch, run, item, requested, results>>,
           run.status = "reconciling" =>
               receipts'[run.reconciliationReceiptId] \notin Undispatched,
           Placed(pc, c, s), Held(pc, c, s)'
    PROVE  Control'
<1>1. Fixed
    BY FixedBatch
<1>2. RunInv'
    BY <1>1 DEF Control, RunInv, Fixed, SettledIffTerminal
<1> QED
    BY <1>1, <1>2, HolderMove

LEMMA AcknowledgeMoved ==
    ASSUME StoreTypes, wk \in [Workers -> Memories], NEW w \in Workers,
           NEW c \in Calls, NEW status, NEW pc \in Locations, NEW next \in 0 .. N,
           AcknowledgeThen(w, c, status, pc, next)
    PROVE  /\ entry' \in [Workers -> [Calls -> EntryStates]]
           /\ \/ Moved(w, pc, next, wk[w].att)
              \/ Moved(w, "error", wk[w].call, wk[w].att)
<1>1. CASE canAcknowledge(entry[w][c], status)
    BY <1>1, AcknowledgeTypes, GotoCallMoved DEF AcknowledgeThen
<1>2. CASE ~canAcknowledge(entry[w][c], status)
  <2>1. UNCHANGED entry /\ Goto(w, "error")
      BY <1>2 DEF AcknowledgeThen
  <2>2. Moved(w, "error", wk[w].call, wk[w].att)
      BY <2>1, GotoMoved DEF Locations
  <2> QED
      BY <2>1, <2>2 DEF StoreTypes
<1> QED
    BY <1>1, <1>2

LEMMA ReceiptSteps ==
    ASSUME Control, NEW w \in Workers,
        \/ prepareToolExecution(w) \/ \E c \in Calls : dispatchToolExecution(w, c)
        \/ commitCanceled(w) \/ reconciledCanceled(w)
        \/ reconciledAfterCancellation(w) \/ cancelSuperseded(w)
        \/ drainResult(w) \/ cancelPreparedReceipt(w)
    PROVE  Control'
<1> USE Begin DEF HolderAt, Held, PlaceAt, Placed, Holding, At, CallAt,
        BatchAt, RunningAt, StartingAt, WaitingAt, ReconcilingAt, CancelingAt
<1>. PICK c \in 0 .. N, s \in Steps \cup {NoStep} :
        c = wk[w].call /\ s = wk[w].att
    OBVIOUS
<1>0. /\ batch \in Batches
      /\ \A d \in Calls : receipts[d] # "none" => requested
      /\ run.status = "reconciling" => requested
    BY DEF StoreTypes, RunInv, Undispatched
<1>1. CASE prepareToolExecution(w)
  <2>1. Moved(w, "approve", c, s)
      BY <1>1, GotoMoved DEF prepareToolExecution, Locations
  <2>2. Fixed /\ batch' = batch
      BY <1>1, FixedBatch DEF prepareToolExecution, receiptStep, env
  <2>3. c \in Calls /\ run.status = "running" /\ requested
      BY <1>1 DEF prepareToolExecution
  <2>4. receipts' \in [Calls -> ReceiptStatuses] /\ receipts'[c] = "prepared"
      BY <1>1, <2>3 DEF prepareToolExecution, StoreTypes, ReceiptStatuses
  <2>5. StoreTypes'
      BY <1>1, <2>2, <2>4 DEF prepareToolExecution, receiptStep, StoreTypes, Fixed, process, env
  <2>6. c \in Pending /\ Pending' = Pending /\ run' = run /\ requested' = requested
      BY <1>1, <2>2 DEF prepareToolExecution, receiptStep, Pending, Fixed
  <2>7. Placed("approve", c, s) /\ Held("approve", c, s)'
      BY <2>3, <2>4, <2>6
  <2> QED
      BY <1>1, <2>1, <2>2, <2>3, <2>5, <2>7, ReceiptMove DEF prepareToolExecution, receiptStep, Moved
<1>2. CASE \E d \in Calls : dispatchToolExecution(w, d)
  <2>1. PICK d \in Calls : dispatchToolExecution(w, d)
      BY <1>2
  <2>2. Learned(w, "resolve", c, s, d, "dispatched")
      BY <2>1, ResolveLearned DEF dispatchToolExecution, Turn, CallResults
  <2>3. Fixed /\ batch' = batch
      BY <2>1, FixedBatch DEF dispatchToolExecution, receiptStep, env
  <2>4. run.status = "running" /\ requested /\ Pending # {}
      BY <2>1 DEF dispatchToolExecution, Turn
  <2>5. receipts' \in [Calls -> ReceiptStatuses]
      BY <2>1 DEF dispatchToolExecution, StoreTypes, ReceiptStatuses
  <2>6. StoreTypes'
      BY <2>1, <2>3, <2>5 DEF dispatchToolExecution, receiptStep, StoreTypes, Fixed, process, env
  <2>7. Placed("resolve", c, s) /\ Held("resolve", c, s)'
      BY <2>1, <2>3, <2>4 DEF dispatchToolExecution, receiptStep, Pending, Fixed
  <2> QED
      BY <2>1, <2>2, <2>3, <2>4, <2>6, <2>7, ReceiptMove
      DEF dispatchToolExecution, receiptStep, Learned
<1>3. ASSUME NEW pc \in {"toolCanceled", "resume"}, c \in Calls, item = w, requested,
             run.status = IF pc = "resume" THEN "reconciling" ELSE "running",
             NEW status \in {"canceled", "completed"}, resolve(c, status),
             AcknowledgeThen(w, c, status, pc, c),
             UNCHANGED <<run, item, requested, results, approvals, attempts, provider,
                         effects, env>>
      PROVE  Control'
  <2>1. Fixed /\ batch' = batch
      BY <1>3, FixedBatch DEF env
  <2>2. /\ entry' \in [Workers -> [Calls -> EntryStates]]
        /\ Moved(w, pc, c, s) \/ Moved(w, "error", c, s)
    <3>1. pc \in Locations
        BY DEF Locations
    <3> QED
        BY <1>3, <3>1, AcknowledgeMoved
  <2>3. /\ receipts' \in [Calls -> ReceiptStatuses]
        /\ \A d \in Calls : receipts'[d] \in Undispatched => receipts[d] \in Undispatched
      BY <1>3 DEF resolve, StoreTypes, ReceiptStatuses, Undispatched
  <2>4. StoreTypes'
      BY <1>3, <2>1, <2>2, <2>3 DEF StoreTypes, Fixed, env
  <2>5. Placed(pc, c, s) /\ Held(pc, c, s)'
      BY <1>3, <2>1
  <2>6. Placed("error", c, s) /\ Held("error", c, s)'
      OBVIOUS
  <2>7. run.status = "reconciling" =>
          receipts'[run.reconciliationReceiptId] \notin Undispatched
      BY <2>3 DEF RunInv
  <2> QED
      BY <1>3, <2>1, <2>2, <2>4, <2>5, <2>6, <2>7, ReceiptMove DEF Moved
<1>4. CASE commitCanceled(w)
    BY <1>3, <1>4 DEF commitCanceled, cancelReceiptOf
<1>5. CASE reconciledCanceled(w)
    BY <1>0, <1>3, <1>5 DEF reconciledCanceled, cancelReceiptOf
<1>6. CASE reconciledAfterCancellation(w)
    BY <1>0, <1>3, <1>6 DEF reconciledAfterCancellation
<1>7. CASE cancelSuperseded(w)
  <2>1. c \in Calls /\ run.status = "running" /\ run.cancelRequested /\ requested
      BY <1>0, <1>7 DEF cancelSuperseded
  <2>2. Moved(w, "cancel", c, c)
      BY <1>7, <2>1, GotoWithMoved DEF cancelSuperseded, Locations
  <2>3. Fixed /\ batch' = batch
      BY <1>7, FixedBatch DEF cancelSuperseded, receiptStep, env
  <2>4. receipts' \in [Calls -> ReceiptStatuses]
      BY <1>7, <2>1 DEF cancelSuperseded, resolve, StoreTypes, ReceiptStatuses
  <2>5. StoreTypes'
      BY <1>7, <2>3, <2>4 DEF cancelSuperseded, receiptStep, StoreTypes, Fixed, process, env
  <2>6. Placed("cancel", c, c) /\ Held("cancel", c, c)'
      BY <1>7, <2>1 DEF cancelSuperseded, receiptStep
  <2> QED
      BY <1>7, <2>1, <2>2, <2>3, <2>5, <2>6, ReceiptMove DEF cancelSuperseded, receiptStep, Moved
<1>8. CASE drainResult(w)
  <2> DEFINE d == Min(Drainable(w))
  <2>1. d \in Drainable(w) /\ d \in Calls
      BY <1>0, <1>8, MinIn, Sizes DEF drainResult, Drainable
  <2>2. /\ resolve(d, entry[w][d]) /\ entry[w][d] \in {"completed", "canceled"}
        /\ entry' = [entry EXCEPT ![w][d] = "none"]
        /\ requested
      BY <1>0, <1>8, <2>1 DEF drainResult, Drainable, isOpen
  <2> HIDE DEF d
  <2>3. Fixed /\ batch' = batch
      BY <1>8, FixedBatch DEF drainResult, env
  <2>4. /\ receipts' \in [Calls -> ReceiptStatuses]
        /\ \A e \in Calls : receipts'[e] \in Undispatched => receipts[e] \in Undispatched
      BY <2>1, <2>2 DEF resolve, StoreTypes, ReceiptStatuses, Undispatched
  <2>5. entry' \in [Workers -> [Calls -> EntryStates]]
      BY <2>1, <2>2 DEF StoreTypes, EntryStates
  <2>6. StoreTypes'
      BY <1>8, <2>3, <2>4, <2>5 DEF drainResult, StoreTypes, Fixed, env
  <2>7. Comes(w, "cancel", c, s)
      BY <1>8, <2>3 DEF drainResult, Comes, Fixed
  <2>8. Placed("cancel", c, s) /\ Held("cancel", c, s)'
      BY <1>8 DEF drainResult
  <2>9. run.status = "reconciling" =>
          receipts'[run.reconciliationReceiptId] \notin Undispatched
      BY <2>4 DEF RunInv
  <2> QED
      BY <1>8, <2>2, <2>3, <2>6, <2>7, <2>8, <2>9, ReceiptMove DEF drainResult
<1>9. CASE cancelPreparedReceipt(w)
  <2>1. s \in Calls /\ run.status = "running" /\ run.cancelRequested /\ requested
      BY <1>0, <1>9 DEF cancelPreparedReceipt
  <2>2. Moved(w, "confirm", c, s)
      BY <1>9, GotoMoved DEF cancelPreparedReceipt, Locations
  <2>3. Fixed /\ batch' = batch
      BY <1>9, FixedBatch DEF cancelPreparedReceipt, receiptStep, env
  <2>4. receipts' \in [Calls -> ReceiptStatuses]
      BY <1>9, <2>1 DEF cancelPreparedReceipt, resolve, StoreTypes, ReceiptStatuses
  <2>5. StoreTypes'
      BY <1>9, <2>3, <2>4 DEF cancelPreparedReceipt, receiptStep, StoreTypes, Fixed, process, env
  <2>6. Placed("confirm", c, s) /\ Held("confirm", c, s)'
      BY <1>9, <2>1 DEF cancelPreparedReceipt, receiptStep
  <2> QED
      BY <1>9, <2>1, <2>2, <2>3, <2>5, <2>6, ReceiptMove DEF cancelPreparedReceipt, receiptStep, Moved
<1> QED
    BY <1>1, <1>2, <1>4, <1>5, <1>6, <1>7, <1>8, <1>9

-----------------------------------------------------------------------------
(* Steps of the holder that leave the store alone but not the broker.      *)

\* A lease is held only while the run goes on.
LEMMA RunGoesOn ==
    ASSUME Control, NEW w \in Workers, item = w
    PROVE  /\ run.status \in {"queued", "running", "waitingApproval", "reconciling"}
           /\ item \notin {"pending", "expired", "settled"}
BY WorkerAssumption DEF Control, TypeOK, RunInv, SettledIffTerminal, isTerminal,
    RunState, RunStatuses

\* Only the broker's memory of a result changes.
LEMMA BrokerTypes ==
    ASSUME StoreTypes, UNCHANGED <<store, provider, effects, env>>,
           entry' \in [Workers -> [Calls -> EntryStates]]
    PROVE  StoreTypes'
<1>1. Fixed
    BY FixedBatch DEF env
<1> QED
    BY <1>1 DEF StoreTypes, Fixed, store, env

LEMMA BrokerMove ==
    ASSUME Control, NEW w \in Workers, item = w, NEW pc, NEW c, NEW s,
           Comes(w, pc, c, s), UNCHANGED <<store, batch>>, StoreTypes',
           Placed(pc, c, s), Held(pc, c, s)
    PROVE  Control'
<1>1. Fixed
    BY FixedBatch
<1>2. PlaceAt(w)'
    BY <1>1 DEF Comes, PlaceAt, Placed, Fixed
<1>3. HolderAt(w)'
    BY <1>1 DEF Comes, HolderAt, Held, Fixed, store, Pending, modelStep, batchDone
<1> QED
    BY <1>1, <1>2, <1>3, StoreKept DEF Comes

LEMMA ClaimStep ==
    ASSUME Control, NEW w \in Workers, executeClaimStep(w)
    PROVE  Control'
<1> USE Begin DEF Moved, Placed, Held, Holding, At, CallAt,
        BatchAt, RunningAt, StartingAt, WaitingAt, ReconcilingAt, CancelingAt
<1>. PICK c \in 0 .. N, s \in Steps \cup {NoStep} :
        c = wk[w].call /\ s = wk[w].att
    OBVIOUS
<1>1. item = w /\ UNCHANGED <<store, provider, effects, env>> /\ batch' = batch
    BY DEF executeClaimStep, env
<1>2. run.status \in {"queued", "running", "waitingApproval", "reconciling"}
    BY <1>1, RunGoesOn
<1>3. PICK pc \in {"supersede", "cancel", "waiting", "error", "reconcile", "policy"} :
        /\ Goto(w, pc)
        /\ pc \in {"supersede", "cancel"} => run.cancelRequested
        /\ pc \in {"supersede", "waiting"} => run.status = "waitingApproval"
        /\ pc = "reconcile" => run.status = "reconciling"
        /\ pc = "policy" => run.status \in {"queued", "running"}
    BY <1>2 DEF executeClaimStep
<1>4. Moved(w, pc, c, s)
    BY <1>3, GotoMoved DEF Locations
<1>5. entry' \in [Workers -> [Calls -> EntryStates]]
  <2>1. CASE UNCHANGED entry
      BY <2>1 DEF StoreTypes
  <2> DEFINE e == [d \in Calls |-> IF d \in Committed(w)
                                     THEN acknowledged(entry[w][d], receipts[d])
                                     ELSE entry[w][d]]
  <2>2. CASE entry' = [entry EXCEPT ![w] = e]
    <3>1. entry[w] \in [Calls -> EntryStates]
        BY DEF StoreTypes
    <3>2. \A d \in Calls : acknowledged(entry[w][d], receipts[d]) \in EntryStates
        BY <3>1 DEF acknowledged, EntryStates
    <3>3. e \in [Calls -> EntryStates]
        BY <3>1, <3>2
    <3> HIDE DEF e
    <3> QED
        BY <2>2, <3>3 DEF StoreTypes
  <2> QED
      BY <2>1, <2>2 DEF executeClaimStep
<1>6. StoreTypes'
    BY <1>1, <1>5, BrokerTypes
<1>7. Placed(pc, c, s) /\ Held(pc, c, s)
    BY <1>3
<1> QED
    BY <1>1, <1>4, <1>6, <1>7, BrokerMove DEF Moved

LEMMA CallPrepared ==
    ASSUME Control, NEW w \in Workers, callPrepared(w)
    PROVE  Control'
<1> USE Begin DEF HolderAt, PlaceAt, Placed, Held, Holding, At, CallAt,
        BatchAt, RunningAt, StartingAt, WaitingAt, ReconcilingAt, CancelingAt
<1>. PICK c \in 0 .. N, s \in Steps \cup {NoStep} :
        c = wk[w].call /\ s = wk[w].att
    OBVIOUS
<1>1. /\ item = w /\ UNCHANGED <<store, provider, effects, env>> /\ batch' = batch
      /\ run.status = "running" /\ requested /\ c \in Pending /\ c \in Calls
    BY DEF callPrepared, env
<1>2. PendingAfter(c) \subseteq Pending
      /\ (PendingAfter(c) # {} => Min(PendingAfter(c)) \in PendingAfter(c))
  <2>1. PendingAfter(c) \subseteq Pending
      BY DEF PendingAfter
  <2> QED
      BY <2>1, MinIn, Sizes DEF StoreTypes
<1>3. PICK pc \in {"prepare", "resolve"}, next \in Pending :
        \/ AcknowledgeThen(w, c, receipts[c], pc, next)
        \/ GotoCall(w, pc, next) /\ UNCHANGED entry
  <2>1. CASE PendingAfter(c) # {}
      BY <1>1, <1>2, <2>1 DEF callPrepared
  <2>2. CASE PendingAfter(c) = {}
      BY <1>1, <2>2 DEF callPrepared
  <2> QED
      BY <2>1, <2>2
<1>4. /\ entry' \in [Workers -> [Calls -> EntryStates]]
      /\ Moved(w, pc, next, s) \/ Moved(w, "error", c, s)
  <2>1. pc \in Locations /\ next \in 0 .. N
      BY DEF Locations
  <2>2. CASE AcknowledgeThen(w, c, receipts[c], pc, next)
      BY <1>1, <2>1, <2>2, AcknowledgeMoved
  <2>3. CASE GotoCall(w, pc, next) /\ UNCHANGED entry
      BY <2>1, <2>3, GotoCallMoved DEF StoreTypes
  <2> QED
      BY <1>3, <2>2, <2>3
<1>5. StoreTypes'
    BY <1>1, <1>4, BrokerTypes
<1>6. Placed(pc, next, s) /\ Held(pc, next, s)
    BY <1>1
<1>7. Placed("error", c, s) /\ Held("error", c, s)
    OBVIOUS
<1> QED
    BY <1>1, <1>4, <1>5, <1>6, <1>7, BrokerMove DEF Moved

LEMMA ContinueRun ==
    ASSUME Control, NEW w \in Workers, continueRun(w)
    PROVE  Control'
<1> USE Begin
<1>1. PICK m \in Memories :
        m.pc = "step" /\ wk' = [wk EXCEPT ![w] = m]
  <2>1. N \in Nat
      BY Sizes DEF StoreTypes
  <2>2. [IdleWorker EXCEPT !.pc = "step"] \in Memories
      BY <2>1 DEF IdleWorker, Memories, CallResults, Locations
  <2>3. [IdleWorker EXCEPT !.pc = "step"].pc = "step"
      BY DEF IdleWorker
  <2> QED
      BY <2>2, <2>3 DEF continueRun
<1>2. Comes(w, "step", m.call, m.att)
    BY <1>1, ReplaceOne DEF Comes
<1>3. Placed("step", m.call, m.att) /\ Held("step", m.call, m.att)
    BY FreePlace DEF FreeAt
<1> QED
    BY <1>2, <1>3, LocalMove DEF continueRun

-----------------------------------------------------------------------------
(* Steps of the holder that commit an event of the run.                    *)

LEMMA StartRun ==
    ASSUME Control, NEW w \in Workers, startRun(w)
    PROVE  Control'
<1> USE Begin DEF PlaceAt, Placed, Held, Holding, At, CallAt,
        BatchAt, RunningAt, StartingAt, WaitingAt, ReconcilingAt, CancelingAt
<1>. PICK c \in 0 .. N, s \in Steps \cup {NoStep} :
        c = wk[w].call /\ s = wk[w].att
    OBVIOUS
<1>1. item = w /\ item' = w /\ batch' = batch /\ wk' = wk /\ wk[w].pc = "start"
    BY DEF startRun, env
<1>2. run' = [run EXCEPT !.status = "running"]
    BY Reduced DEF startRun, NoRef, StoreTypes
<1>3. run' \in RunState /\ run'.status = "running"
    BY <1>2 DEF StoreTypes, RunState, RunStatuses
<1>4. Fixed
    BY <1>1, FixedBatch
<1>5. StoreTypes'
    BY <1>3, <1>4 DEF startRun, StoreTypes, Fixed, process, env
<1>6. RunInv'
    BY <1>1, <1>3, <1>4, RunGoesOn DEF startRun, RunInv, Fixed, SettledIffTerminal, isTerminal
<1>7. Comes(w, "start", c, s)
    BY <1>1 DEF Comes
<1>8. Placed("start", c, s) /\ Held("start", c, s)'
    BY <1>3
<1> QED
    BY <1>1, <1>5, <1>6, <1>7, <1>8, HolderMove

LEMMA CommitToolSample ==
    ASSUME Control, NEW w \in Workers, commitToolSample(w)
    PROVE  Control'
<1> USE Begin DEF Placed, Held, Holding, At, CallAt,
        BatchAt, RunningAt, StartingAt, WaitingAt, ReconcilingAt, CancelingAt
<1>. PICK c \in 0 .. N, s \in Steps \cup {NoStep} :
        c = wk[w].call /\ s = wk[w].att
    OBVIOUS
<1>1. item = w /\ item' = w /\ batch' = batch /\ requested' /\ s = FirstStep
    BY DEF commitToolSample, env
<1>2. run' = run /\ run.status = "running"
    BY Reduced DEF commitToolSample, NoRef, StoreTypes
<1>3. Fixed
    BY <1>1, FixedBatch
<1>4. attempts' \in [Steps -> AttemptStatuses]
    BY AttemptTypes DEF commitToolSample, AttemptStatuses
<1>5. StoreTypes'
    BY <1>1, <1>2, <1>3, <1>4 DEF commitToolSample, StoreTypes, Fixed, process, env
<1>6. RunInv'
    BY <1>1, <1>2, <1>3 DEF commitToolSample, RunInv, Fixed, SettledIffTerminal
<1>7. Min(Calls) \in Calls
    BY MinIn, Sizes DEF StoreTypes
<1>8. ~requested /\ Pending' = Calls
  <2>1. s = modelStep
      BY DEF commitToolSample, HolderAt
  <2>2. ~requested
      BY <1>1, <2>1, Sizes DEF modelStep, StoreTypes
  <2>3. results' = <<>>
      BY <2>2 DEF RunInv, commitToolSample
  <2> QED
      BY <1>3, <2>2, <2>3 DEF Pending, Fixed
<1>. PICK d \in Calls : d = Min(Calls)
    BY <1>7
<1>9. Moved(w, "prepare", d, s)
    BY <1>7, GotoCallMoved DEF commitToolSample, Locations
<1>10. Placed("prepare", d, s) /\ Held("prepare", d, s)'
    BY <1>1, <1>2, <1>8
<1> QED
    BY <1>1, <1>5, <1>6, <1>9, <1>10, HolderMove DEF Moved

LEMMA RequireToolApproval ==
    ASSUME Control, NEW w \in Workers, requireToolApproval(w)
    PROVE  Control'
<1> USE Begin DEF PlaceAt, Placed, Holding, At, CallAt
<1>. PICK c \in 0 .. N : c = wk[w].call
    OBVIOUS
<1>0. c \in Nat
    BY Sizes DEF StoreTypes
<1>1. item = w /\ item' = "pending" /\ batch' = batch /\ Leave(w) /\ c \in Calls
    BY DEF requireToolApproval, Release, env
<1>2. run' = [run EXCEPT !.status = "waitingApproval", !.waitingApproval = c]
    BY <1>0, Reduced DEF requireToolApproval, StoreTypes
<1>3. run' \in RunState /\ run'.status = "waitingApproval" /\ run'.waitingApproval = c
    BY <1>0, <1>2 DEF StoreTypes, RunState, RunStatuses
<1>4. Fixed
    BY <1>1, FixedBatch
<1>5. approvals' \in [Calls -> ApprovalStatuses]
    BY DEF requireToolApproval, StoreTypes, ApprovalStatuses
<1>6. StoreTypes'
    BY <1>1, <1>3, <1>4, <1>5 DEF requireToolApproval, StoreTypes, Fixed, process, env
<1>7. RunInv'
    BY <1>1, <1>3, <1>4 DEF requireToolApproval, RunInv, Fixed, SettledIffTerminal, isTerminal
<1> QED
    BY <1>1, <1>6, <1>7, HolderLeaves

LEMMA UnknownOutcome ==
    ASSUME Control, NEW w \in Workers, commitToolExecutionUnknownOutcome(w)
    PROVE  Control'
<1> USE Begin DEF PlaceAt, Placed, Holding, At, CallAt
<1>. PICK c \in 0 .. N : c = wk[w].call
    OBVIOUS
<1>0. c \in Nat
    BY Sizes DEF StoreTypes
<1>1. /\ item = w /\ item' = "pending" /\ batch' = batch /\ Leave(w) /\ c \in Calls
      /\ requested /\ requested' = requested
    BY DEF commitToolExecutionUnknownOutcome, Release, env, isOpen, RunInv
<1>2. run' = [run EXCEPT !.status = "reconciling", !.reconciliationReceiptId = c]
    BY <1>0, Reduced DEF commitToolExecutionUnknownOutcome, StoreTypes
<1>3. run' \in RunState /\ run'.status = "reconciling" /\ run'.reconciliationReceiptId = c
    BY <1>0, <1>2 DEF StoreTypes, RunState, RunStatuses
<1>4. Fixed
    BY <1>1, FixedBatch
<1>5. /\ receipts' \in [Calls -> ReceiptStatuses]
      /\ receipts'[c] = "unknownOutcome"
    BY <1>1 DEF commitToolExecutionUnknownOutcome, StoreTypes, ReceiptStatuses
<1>6. attempts' \in [Steps -> AttemptStatuses]
    BY AttemptTypes DEF commitToolExecutionUnknownOutcome, AttemptStatuses
<1>7. entry' \in [Workers -> [Calls -> EntryStates]]
    BY <1>1, AcknowledgeTypes DEF commitToolExecutionUnknownOutcome
<1>8. StoreTypes'
    BY <1>1, <1>3, <1>4, <1>5, <1>6, <1>7
    DEF commitToolExecutionUnknownOutcome, StoreTypes, Fixed, env
<1>9. RunInv'
    BY <1>1, <1>3, <1>4, <1>5 DEF RunInv, Fixed, SettledIffTerminal, isTerminal, Undispatched
<1> QED
    BY <1>1, <1>8, <1>9, HolderLeaves

\* A paused run goes on.
LEMMA ResumeMove ==
    ASSUME Control, NEW w \in Workers, item = w,
           Commit("run.resumed", NoRef),
           UNCHANGED <<item, requested, results, receipts, attempts, process, env>>,
           approvals' \in [Calls -> ApprovalStatuses],
           NEW pc \in {"continue", "resumed", "superseded"}, NEW c \in 0 .. N,
           Moved(w, pc, c, wk[w].att),
           pc \in {"resumed", "superseded"} => c \in Calls,
           pc = "superseded" => run.cancelRequested
    PROVE  Control'
<1> USE Begin
<1>. PICK s \in Steps \cup {NoStep} : s = wk[w].att
    OBVIOUS
<1>1. batch' = batch /\ Fixed
    BY FixedBatch DEF env
<1>2. run' = [run EXCEPT !.status = "running", !.waitingApproval = NoRef,
                         !.reconciliationReceiptId = NoRef]
    BY Reduced DEF NoRef, StoreTypes
<1>3. /\ run' \in RunState /\ run'.status = "running"
      /\ run'.cancelRequested = run.cancelRequested
    BY <1>2 DEF StoreTypes, RunState, RunStatuses, NoRef
<1>4. StoreTypes'
    BY <1>1, <1>3 DEF StoreTypes, Fixed, process, env
<1>5. RunInv'
    BY <1>1, <1>3, RunGoesOn DEF RunInv, Fixed, SettledIffTerminal, isTerminal
<1>6. Placed(pc, c, s) /\ Held(pc, c, s)'
    BY <1>3 DEF Placed, Held, CallAt, BatchAt, RunningAt, StartingAt, WaitingAt,
        ReconcilingAt, CancelingAt
<1> QED
    BY <1>1, <1>4, <1>5, <1>6, HolderMove DEF Moved

LEMMA ResumeSteps ==
    ASSUME Control, NEW w \in Workers,
           resumeToolReconciliation(w) \/ supersedeToolApproval(w)
           \/ expireToolApproval(w)
    PROVE  Control'
<1> USE Begin DEF PlaceAt, Placed, HolderAt, Held, Holding, At, CallAt
<1>1. CASE resumeToolReconciliation(w)
  <2>1. Moved(w, "resumed", wk[w].call, wk[w].att)
      BY <1>1, GotoMoved DEF resumeToolReconciliation, Locations
  <2>2. approvals' \in [Calls -> ApprovalStatuses]
      BY <1>1 DEF resumeToolReconciliation, runStep, StoreTypes
  <2>3. wk[w].call \in Calls
      BY <1>1 DEF resumeToolReconciliation
  <2> QED
      BY <1>1, <2>1, <2>2, <2>3, ResumeMove DEF resumeToolReconciliation, runStep
<1>2. CASE supersedeToolApproval(w)
  <2>1. run.waitingApproval \in Calls /\ run.cancelRequested
      BY <1>2 DEF supersedeToolApproval, RunInv, WaitingAt, CancelingAt
  <2>2. Moved(w, "superseded", run.waitingApproval, wk[w].att)
      BY <1>2, <2>1, GotoCallMoved DEF supersedeToolApproval, Locations
  <2>3. approvals' \in [Calls -> ApprovalStatuses]
      BY <1>2 DEF supersedeToolApproval, decide, StoreTypes, ApprovalStatuses
  <2> QED
      BY <1>2, <2>1, <2>2, <2>3, ResumeMove DEF supersedeToolApproval
<1>3. CASE expireToolApproval(w)
  <2>1. Moved(w, "continue", wk[w].call, wk[w].att)
      BY <1>3, GotoMoved DEF expireToolApproval, Locations
  <2>2. approvals' \in [Calls -> ApprovalStatuses]
      BY <1>3 DEF expireToolApproval, decide, StoreTypes, ApprovalStatuses
  <2> QED
      BY <1>3, <2>1, <2>2, ResumeMove DEF expireToolApproval
<1> QED
    BY <1>1, <1>2, <1>3

\* A result closes its call: the call is no longer pending, the others are.
LEMMA OneFewerPending ==
    ASSUME StoreTypes, batch' = batch, NEW c \in Calls, results' = Append(results, c)
    PROVE  /\ results' \in Seq(Calls) /\ Len(results') = Len(results) + 1
           /\ results'[Len(results) + 1] = c
           /\ \A i \in DOMAIN results : results'[i] = results[i]
           /\ DOMAIN results' = DOMAIN results \cup {Len(results) + 1}
           /\ Pending' = Pending \ {c}
<1>1. Fixed
    BY FixedBatch
<1>2. results \in Seq(Calls)
    BY DEF StoreTypes
<1>3. /\ results' \in Seq(Calls) /\ Len(results') = Len(results) + 1
      /\ results'[Len(results) + 1] = c
      /\ \A i \in DOMAIN results : results'[i] = results[i]
      /\ DOMAIN results' = DOMAIN results \cup {Len(results) + 1}
    BY <1>2
<1>4. {results'[i] : i \in DOMAIN results'} = {results[i] : i \in DOMAIN results} \cup {c}
    BY <1>3
<1>5. Pending' = Pending \ {c}
    BY <1>1, <1>4 DEF Pending, Fixed
<1> QED
    BY <1>3, <1>5

LEMMA CompletionSteps ==
    ASSUME Control, NEW w \in Workers, commitCompleted(w) \/ reconciledCompleted(w)
    PROVE  Control'
<1> USE Begin DEF HolderAt, PlaceAt, Placed, Held, Holding, At, CallAt,
        BatchAt, RunningAt, StartingAt, WaitingAt, ReconcilingAt, CancelingAt
<1>. PICK c \in 0 .. N, s \in Steps \cup {NoStep} :
        c = wk[w].call /\ s = wk[w].att
    OBVIOUS
<1>1. /\ item = w /\ UNCHANGED <<item, requested, approvals, provider, effects, env>>
      /\ commitToolExecutionCompletion(c) /\ c \in Calls /\ batch' = batch
    BY DEF commitCompleted, reconciledCompleted, env
<1>2. Fixed /\ requested
    BY <1>1, FixedBatch DEF commitToolExecutionCompletion, isOpen, RunInv
<1>3. run' \in RunState /\ run'.status = "running"
    BY <1>1 DEF commitToolExecutionCompletion, reduceRunLifecycleEvent, StoreTypes,
        RunState, RunStatuses, NoRef
<1>4. results' \in Seq(Calls) /\ Pending' = Pending \ {c}
    BY <1>1, OneFewerPending DEF commitToolExecutionCompletion
<1>5. /\ receipts' \in [Calls -> ReceiptStatuses]
      /\ attempts' \in [Steps -> AttemptStatuses]
    BY <1>1, AttemptTypes
    DEF commitToolExecutionCompletion, resolve, StoreTypes, ReceiptStatuses, AttemptStatuses
<1>6. RunInv'
    BY <1>1, <1>2, <1>3, RunGoesOn DEF RunInv, Fixed, SettledIffTerminal, isTerminal
<1>7. ASSUME NEW pc \in {"commit", "continue"}, NEW next \in Calls,
             AcknowledgeThen(w, c, "completed", pc, next),
             pc = "commit" => next \in Pending \ {c}
      PROVE  Control'
  <2>1. pc \in Locations /\ next \in 0 .. N
      BY DEF Locations
  <2>2. /\ entry' \in [Workers -> [Calls -> EntryStates]]
        /\ Moved(w, pc, next, s) \/ Moved(w, "error", c, s)
      BY <1>1, <1>7, <2>1, AcknowledgeMoved
  <2>3. StoreTypes'
      BY <1>1, <1>2, <1>3, <1>4, <1>5, <2>2 DEF StoreTypes, Fixed, env
  <2>4. Placed(pc, next, s) /\ Held(pc, next, s)'
      BY <1>1, <1>2, <1>3, <1>4, <1>7
  <2>5. Placed("error", c, s) /\ Held("error", c, s)'
      OBVIOUS
  <2> QED
      BY <1>1, <1>6, <2>2, <2>3, <2>4, <2>5, HolderMove DEF Moved
<1>8. CASE commitCompleted(w)
  <2>1. CASE PendingAfter(c) # {}
    <3>1. /\ PendingAfter(c) \subseteq Pending \ {c} /\ PendingAfter(c) \subseteq Calls
          /\ PendingAfter(c) \subseteq Nat
        BY Sizes DEF PendingAfter, StoreTypes
    <3>2. Min(PendingAfter(c)) \in PendingAfter(c)
        BY <2>1, <3>1, MinIn
    <3> QED
        BY <1>7, <1>8, <2>1, <3>1, <3>2 DEF commitCompleted
  <2>2. CASE PendingAfter(c) = {}
      BY <1>1, <1>7, <1>8, <2>2 DEF commitCompleted
  <2> QED
      BY <2>1, <2>2
<1>9. CASE reconciledCompleted(w)
    BY <1>1, <1>7, <1>9 DEF reconciledCompleted
<1> QED
    BY <1>8, <1>9

-----------------------------------------------------------------------------
(* Steps that a worker may take without its lease, and the tool's own.     *)

\* Workers learn results and the broker and the tool move.
LEMMA ResultsMove ==
    ASSUME Control, UNCHANGED <<store, batch>>, StoreTypes',
           wk' \in [Workers -> Memories],
           \A v \in Workers : /\ wk'[v].pc = wk[v].pc /\ wk'[v].call = wk[v].call
                              /\ wk'[v].att = wk[v].att
    PROVE  Control'
<1> USE DEF store
<1>1. Fixed
    BY FixedBatch
<1>2. ASSUME NEW v \in Workers
      PROVE  PlaceAt(v)' /\ (item' = v => HolderAt(v)')
  <2>1. PICK pc, c, s : pc = wk[v].pc /\ c = wk[v].call /\ s = wk[v].att
      OBVIOUS
  <2>2. pc = wk'[v].pc /\ c = wk'[v].call /\ s = wk'[v].att
      BY <2>1
  <2>3. Placed(pc, c, s) /\ (item = v => Held(pc, c, s))
      BY <2>1 DEF Control, PlaceAt, HolderAt
  <2>4. Placed(pc, c, s)' /\ (item = v => Held(pc, c, s)')
      BY <1>1, <2>3 DEF Placed, Held, Fixed, Pending, modelStep, batchDone
  <2> QED
      BY <2>2, <2>4 DEF PlaceAt, HolderAt
<1>3. RunInv'
    BY <1>1 DEF Control, RunInv, Fixed, SettledIffTerminal
<1>4. TypeOK'
    BY <1>1, TypesSplit DEF Fixed
<1> QED
    BY <1>2, <1>3, <1>4 DEF Control

LEMMA LearnedResults ==
    ASSUME NEW w \in Workers, NEW c \in Calls, NEW r \in CallResults, TypeOK,
           Resolve(w, c, r)
    PROVE  /\ wk' \in [Workers -> Memories]
           /\ \A v \in Workers : /\ wk'[v].pc = wk[v].pc /\ wk'[v].call = wk[v].call
                                 /\ wk'[v].att = wk[v].att
BY TypesSplit, ResolveLearned DEF Learned, Comes

LEMMA AnswerTypes ==
    ASSUME StoreTypes, NEW w \in Workers, NEW c \in Calls, NEW status, Answer(w, c, status)
    PROVE  /\ status \in {"completed", "canceled", "unknownOutcome"}
           /\ provider' \in [Calls -> {"none", "running", "done", "voided"}]
BY DEF Answer, settledAs, StoreTypes, EntryStates

LEMMA BatchSteps ==
    ASSUME Control, NEW w \in Workers, NEW c \in Calls,
        \/ reuseReceipt(w, c) \/ startEffect(w, c) \/ abortBeforeStart(w, c)
        \/ interruptTool(w, c)
        \/ \E status \in Resolutions : recoverToolExecution(w, c, status)
    PROVE  Control'
<1> USE Begin
<1>1. PICK r \in CallResults : Resolve(w, c, r)
    BY DEF reuseReceipt, startEffect, abortBeforeStart, interruptTool,
        recoverToolExecution, CallResults, Resolutions
<1>2. UNCHANGED <<store, batch>> /\ UNCHANGED env
    BY DEF reuseReceipt, startEffect, abortBeforeStart, interruptTool,
        recoverToolExecution, localStep, env
<1>3. Fixed
    BY <1>2, FixedBatch
<1>4. /\ provider' \in [Calls -> {"none", "running", "done", "voided"}]
      /\ effects' \in [Calls -> Nat]
      /\ entry' \in [Workers -> [Calls -> EntryStates]]
  <2>1. CASE reuseReceipt(w, c) \/ abortBeforeStart(w, c)
      BY <2>1 DEF reuseReceipt, abortBeforeStart, localStep, process, StoreTypes
  <2>2. CASE startEffect(w, c)
    <3>1. \E e \in EntryStates : entry' = [entry EXCEPT ![w][c] = e]
        BY <2>2 DEF startEffect, EntryStates
    <3>2. /\ provider' = [provider EXCEPT ![c] = "running"] \/ provider' = provider
          /\ effects' = [effects EXCEPT ![c] = effects[c] + 1] \/ effects' = effects
        BY <2>2 DEF startEffect
    <3>3. /\ provider \in [Calls -> {"none", "running", "done", "voided"}]
          /\ effects \in [Calls -> Nat]
        BY DEF StoreTypes
    <3>4. effects' \in [Calls -> Nat]
        BY <3>2, <3>3
    <3>5. provider' \in [Calls -> {"none", "running", "done", "voided"}]
        BY <3>2, <3>3
    <3> QED
        BY <3>1, <3>4, <3>5 DEF StoreTypes
  <2>3. CASE interruptTool(w, c)
      BY <2>3 DEF interruptTool, StoreTypes, EntryStates
  <2>4. CASE \E status \in Resolutions : recoverToolExecution(w, c, status)
      BY <2>4, AnswerTypes DEF recoverToolExecution, StoreTypes
  <2> QED
      BY <2>1, <2>2, <2>3, <2>4
<1>5. StoreTypes'
    BY <1>2, <1>3, <1>4 DEF StoreTypes, store, env, Fixed
<1> QED
    BY <1>1, <1>2, <1>5, LearnedResults, ResultsMove

LEMMA ToolSteps ==
    ASSUME Control, NEW c \in Calls, toolEnds(c)
    PROVE  Control'
<1>0. TypeOK /\ StoreTypes /\ wk \in [Workers -> Memories]
    BY TypesSplit DEF Control
<1>1. PICK r \in CallResults : ResolveStarted(c, r)
    BY DEF toolEnds, toolFinished, toolThrew, CallResults, Resolutions
<1>2. UNCHANGED <<store, effects, env, batch>> /\ Fixed
    BY FixedBatch DEF toolEnds, toolFinished, toolThrew, env
<1>3. provider' \in [Calls -> {"none", "running", "done", "voided"}]
    BY <1>0 DEF toolEnds, toolFinished, toolThrew, StoreTypes
<1>4. entry' \in [Workers -> [Calls -> EntryStates]]
  <2>1. PICK f \in [Workers -> EntryStates] :
          entry' = [v \in Workers |-> [entry[v] EXCEPT ![c] = f[v]]]
    <3>1. CASE toolFinished(c)
      <4> DEFINE f == [v \in Workers |->
                        IF entry[v][c] \in {"running", "interrupted", "acked"}
                          THEN "completed" ELSE entry[v][c]]
      <4>1. f \in [Workers -> EntryStates]
          BY <1>0 DEF StoreTypes, EntryStates
      <4>2. entry' = [v \in Workers |-> [entry[v] EXCEPT ![c] = f[v]]]
          BY <1>0, <3>1 DEF toolFinished, StoreTypes
      <4> QED
          BY <4>1, <4>2
    <3>2. CASE \E outcome \in {"done", "voided"} : toolThrew(c, outcome)
      <4> DEFINE f == [v \in Workers |->
                        CASE entry[v][c] \in {"running", "interrupted"} -> "unknownOutcome"
                          [] entry[v][c] = "acked" -> "none"
                          [] OTHER -> entry[v][c]]
      <4>1. f \in [Workers -> EntryStates]
          BY <1>0 DEF StoreTypes, EntryStates
      <4>2. entry' = [v \in Workers |-> [entry[v] EXCEPT ![c] = f[v]]]
          BY <1>0, <3>2 DEF toolThrew, StoreTypes
      <4> QED
          BY <4>1, <4>2
    <3> QED
        BY <3>1, <3>2 DEF toolEnds
  <2> QED
      BY <1>0, <2>1 DEF StoreTypes
<1>5. StoreTypes'
    BY <1>0, <1>2, <1>3, <1>4 DEF StoreTypes, store, env, Fixed
<1>6. ASSUME NEW v \in Workers
      PROVE  /\ [wk[v] EXCEPT !.res[c] = r] \in Memories
             /\ wk[v] \in Memories
    BY <1>0 DEF Memories
<1>7. wk' \in [Workers -> Memories]
    BY <1>1, <1>6 DEF ResolveStarted
<1>8. ASSUME NEW v \in Workers
      PROVE  /\ wk'[v].pc = wk[v].pc /\ wk'[v].call = wk[v].call
             /\ wk'[v].att = wk[v].att
    BY <1>0, <1>1 DEF ResolveStarted, Memories
<1> QED
    BY <1>2, <1>5, <1>7, <1>8, ResultsMove

LEMMA AskToolRuntime ==
    ASSUME Control, NEW w \in Workers, NEW status \in Resolutions, askToolRuntime(w, status)
    PROVE  Control'
<1> USE Begin DEF HolderAt, PlaceAt, Placed, Held, At, CallAt,
        BatchAt, RunningAt, StartingAt, WaitingAt, ReconcilingAt, CancelingAt
<1>. PICK c \in 0 .. N, s \in Steps \cup {NoStep} :
        c = wk[w].call /\ s = wk[w].att
    OBVIOUS
<1>1. /\ c \in Calls /\ Answer(w, c, status) /\ wk[w].pc = "ask"
      /\ UNCHANGED <<store, entry, effects, env, batch>>
      /\ wk' = [wk EXCEPT ![w].pc = "reconciled", ![w].res[c] = status]
    BY DEF askToolRuntime, env
<1>2. Learned(w, "reconciled", c, s, c, status)
  <2> DEFINE m == [wk[w] EXCEPT !.pc = "reconciled", !.res[c] = status]
  <2>1. "reconciled" \in Locations /\ status \in CallResults
      BY DEF CallResults, Locations
  <2>2. m \in Memories /\ m.pc = "reconciled" /\ m.call = c /\ m.att = s
        /\ m.res = [wk[w].res EXCEPT ![c] = status]
      BY <1>1, <2>1 DEF Memories
  <2>3. wk' = [wk EXCEPT ![w] = m]
      BY <1>1
  <2> HIDE DEF m
  <2> QED
      BY <2>2, <2>3, ReplaceOne DEF Learned, Comes
<1>3. Fixed
    BY <1>1, FixedBatch
<1>4. provider' \in [Calls -> {"none", "running", "done", "voided"}]
    BY <1>1, AnswerTypes
<1>5. StoreTypes'
    BY <1>1, <1>3, <1>4 DEF StoreTypes, store, env, Fixed
<1>6. Placed("reconciled", c, s)'
    BY <1>1, <1>3 DEF Fixed
<1>7. item = w => Held("reconciled", c, s)'
    BY <1>1 DEF store
<1> QED
    BY <1>1, <1>2, <1>5, <1>6, <1>7, StoreKept DEF Learned, Comes

-----------------------------------------------------------------------------
(* Errors, faults and the lease.                                           *)

LEMMA HandleError ==
    ASSUME Control, NEW w \in Workers, handleError(w)
    PROVE  Control'
<1> USE Begin DEF Holding
<1>. PICK c \in 0 .. N : c = wk[w].call
    OBVIOUS
<1>1. /\ item = w /\ UNCHANGED <<run, requested, results, receipts, approvals, process, env>>
      /\ batch' = batch
    BY DEF handleError, env
<1>2. Fixed
    BY <1>1, FixedBatch
<1>3. attempts' \in [Steps -> AttemptStatuses] /\ item' \in {w, "pending"}
    BY <1>1, AttemptTypes DEF handleError, StoreTypes, AttemptStatuses, Release
<1>4. StoreTypes'
    BY <1>1, <1>2, <1>3 DEF StoreTypes, Fixed, process, env
<1>5. CASE Release(w)
    BY <1>1, <1>3, <1>4, <1>5, GivesBack DEF Release
<1>6. CASE run.cancelRequested /\ GotoWith(w, "cancel", NoStep) /\ item' = item
  <2>. PICK s : s = NoStep
      OBVIOUS
  <2>1. Moved(w, "cancel", c, s)
      BY <1>6, GotoWithMoved DEF Locations
  <2>2. Placed("cancel", c, s) /\ Held("cancel", c, s)'
      BY <1>1, <1>6 DEF Placed, Held, CallAt, BatchAt, RunningAt, StartingAt, WaitingAt,
          ReconcilingAt, CancelingAt
  <2>3. RunInv'
      BY <1>1, <1>2, <1>6 DEF RunInv, Fixed, SettledIffTerminal
  <2> QED
      BY <1>1, <1>4, <1>6, <2>1, <2>2, <2>3, HolderMove DEF Moved
<1> QED
    BY <1>5, <1>6 DEF handleError

\* Only the lease, the attempts and the environment change, and nobody who
\* has the lease afterwards relies on anything.
LEMMA LeaseMove ==
    ASSUME Control, StoreTypes', UNCHANGED <<run, requested, results, receipts, batch>>,
           wk' \in [Workers -> Memories],
           \A v \in Workers :
               \/ wk'[v] = wk[v] /\ (item' = v => item = v)
               \/ wk'[v].pc \in FreeAt,
           item' = "settled" <=> item = "settled"
    PROVE  Control'
<1>1. Fixed
    BY FixedBatch
<1>2. ASSUME NEW v \in Workers
      PROVE  PlaceAt(v)' /\ (item' = v => HolderAt(v)')
  <2>1. CASE wk'[v] = wk[v] /\ (item' = v => item = v)
    <3>1. PICK pc, c, s : pc = wk[v].pc /\ c = wk[v].call /\ s = wk[v].att
        OBVIOUS
    <3>2. pc = wk'[v].pc /\ c = wk'[v].call /\ s = wk'[v].att
        BY <2>1, <3>1
    <3>3. Placed(pc, c, s) /\ (item = v => Held(pc, c, s))
        BY <3>1 DEF Control, PlaceAt, HolderAt
    <3>4. Placed(pc, c, s)' /\ (item = v => Held(pc, c, s)')
        BY <1>1, <3>3 DEF Placed, Held, Fixed, Pending, modelStep, batchDone
    <3> QED
        BY <2>1, <3>2, <3>4 DEF PlaceAt, HolderAt
  <2>2. CASE wk'[v].pc \in FreeAt
      BY <2>2 DEF PlaceAt, HolderAt, Placed, Held, FreeAt, CallAt, BatchAt, RunningAt,
          StartingAt, WaitingAt, ReconcilingAt, CancelingAt
  <2> QED
      BY <2>1, <2>2
<1>3. RunInv'
    BY <1>1 DEF Control, RunInv, Fixed, SettledIffTerminal
<1>4. TypeOK'
    BY <1>1, TypesSplit DEF Fixed
<1> QED
    BY <1>2, <1>3, <1>4 DEF Control

LEMMA FaultTypes ==
    ASSUME StoreTypes, Fault
    PROVE  faults' \in 0 .. MaxFaults /\ UNCHANGED <<revoked, batch>> /\ Fixed
BY Sizes, FixedBatch DEF StoreTypes, Fault

LEMMA CallFails ==
    ASSUME Control, NEW w \in Workers, callFails(w)
    PROVE  Control'
<1> USE Begin
<1>1. /\ item = w /\ UNCHANGED <<run, requested, results, receipts, approvals, attempts, process>>
      /\ faults' \in 0 .. MaxFaults /\ UNCHANGED <<revoked, batch>> /\ Fixed
    BY FaultTypes DEF callFails
<1>2. item' \in {w, "pending"} /\ "settled" \notin {w, "pending"}
    BY <1>1, WorkerAssumption DEF callFails, Release
<1>3. StoreTypes'
    BY <1>1, <1>2 DEF StoreTypes, Fixed, process
<1>4. CASE Leave(w)
    BY <1>1, <1>2, <1>3, <1>4, GivesBack
<1>5. CASE Goto(w, "error") /\ UNCHANGED item
  <2>1. Moved(w, "error", wk[w].call, wk[w].att)
      BY <1>5, GotoMoved DEF Locations
  <2>2. wk' \in [Workers -> Memories] /\ wk'[w].pc \in FreeAt
        /\ \A v \in Workers \ {w} : wk'[v] = wk[v]
      BY <2>1 DEF Moved, Comes, FreeAt
  <2> QED
      BY <1>1, <1>3, <1>5, <2>2, LeaseMove
<1>6. CASE /\ UNCHANGED item
           /\ \E c \in Pending : Resolve(w, c, "rejected")
  <2>1. PICK c \in Calls : Resolve(w, c, "rejected")
      BY <1>6
  <2>2. /\ wk' \in [Workers -> Memories]
        /\ \A v \in Workers : /\ wk'[v].pc = wk[v].pc /\ wk'[v].call = wk[v].call
                              /\ wk'[v].att = wk[v].att
      BY <2>1, LearnedResults DEF CallResults, Resolutions
  <2> QED
      BY <1>1, <1>3, <1>6, <2>2, ResultsMove DEF store
<1> QED
    BY <1>4, <1>5, <1>6 DEF callFails, Release

LEMMA Crash ==
    ASSUME Control, NEW w \in Workers, crash(w)
    PROVE  Control'
<1> USE Begin
<1>1. /\ UNCHANGED <<store, provider, effects>> /\ Leave(w)
      /\ faults' \in 0 .. MaxFaults /\ UNCHANGED <<revoked, batch>> /\ Fixed
    BY FaultTypes DEF crash
<1>2. entry' \in [Workers -> [Calls -> EntryStates]]
  <2> DEFINE e == [c \in Calls |-> "none"]
  <2>1. e \in [Calls -> EntryStates] /\ entry' = [entry EXCEPT ![w] = e]
      BY DEF crash, EntryStates
  <2> HIDE DEF e
  <2> QED
      BY <2>1 DEF StoreTypes
<1>3. StoreTypes'
    BY <1>1, <1>2 DEF StoreTypes, Fixed, store
<1>4. /\ wk' \in [Workers -> Memories] /\ wk'[w].pc \in FreeAt
      /\ \A v \in Workers \ {w} : wk'[v] = wk[v]
    BY <1>1, LeaveMoved DEF StoreTypes, FreeAt
<1> QED
    BY <1>1, <1>3, <1>4, LeaseMove DEF store

LEMMA LeaseSteps ==
    ASSUME Control, NEW w \in Workers,
           expireLease(w) \/ expireAbandoned(w) \/ claimNextWorkItem(w)
    PROVE  Control'
<1> USE Begin
<1>1. CASE expireLease(w) \/ expireAbandoned(w)
  <2>1. /\ UNCHANGED <<run, requested, results, receipts, approvals, attempts, wk, process>>
        /\ item = w /\ item' = "expired"
        /\ faults' \in 0 .. MaxFaults /\ UNCHANGED <<revoked, batch>> /\ Fixed
      BY <1>1, FaultTypes, FixedBatch DEF expireLease, expireAbandoned, env, StoreTypes
  <2>2. StoreTypes'
      BY <2>1 DEF StoreTypes, Fixed, process
  <2>3. \A v \in Workers : item' # v
      BY <2>1, WorkerAssumption
  <2>4. item # "settled"
      BY <2>1, WorkerAssumption
  <2> QED
      BY <2>1, <2>2, <2>3, <2>4, LeaseMove
<1>2. CASE claimNextWorkItem(w)
  <2>1. /\ UNCHANGED <<run, requested, results, receipts, approvals, process, env, batch>>
        /\ item' = w /\ item \in {"pending", "expired"} /\ Fixed
      BY <1>2, FixedBatch DEF claimNextWorkItem, env
  <2>2. attempts' \in [Steps -> AttemptStatuses]
      BY <1>2 DEF claimNextWorkItem, StoreTypes, AttemptStatuses
  <2>3. StoreTypes'
      BY <2>1, <2>2 DEF StoreTypes, Fixed, process, env
  <2>4. Moved(w, "step", wk[w].call, wk[w].att)
      BY <1>2, GotoMoved DEF claimNextWorkItem, Locations
  <2>5. item # "settled" /\ item' # "settled"
      BY <2>1, WorkerAssumption
  <2> QED
      BY <2>1, <2>3, <2>4, <2>5, LeaseMove DEF Moved, Comes, FreeAt
<1> QED
    BY <1>1, <1>2

-----------------------------------------------------------------------------
(* People, and the whole of Next.                                          *)

LEMMA RequestCancel ==
    ASSUME Control, requestCancel
    PROVE  Control'
<1>1. TypeOK /\ StoreTypes /\ RunInv /\ wk \in [Workers -> Memories]
    BY TypesSplit DEF Control
<1>2. /\ UNCHANGED <<item, requested, results, receipts, approvals, attempts, wk, process, env>>
      /\ UNCHANGED batch /\ Fixed
    BY FixedBatch DEF requestCancel, env
<1>3. run' = [run EXCEPT !.cancelRequested = TRUE]
    BY <1>1, Reduced DEF requestCancel, StoreTypes, NoRef
<1>4. /\ run' \in RunState /\ run'.status = run.status /\ run'.cancelRequested
      /\ run'.waitingApproval = run.waitingApproval
      /\ run'.reconciliationReceiptId = run.reconciliationReceiptId
    BY <1>1, <1>3 DEF StoreTypes, RunState
<1>5. StoreTypes'
    BY <1>1, <1>2, <1>4 DEF StoreTypes, Fixed, process, env
<1>6. RunInv'
    BY <1>1, <1>2, <1>4 DEF RunInv, Fixed, SettledIffTerminal
<1>7. ASSUME NEW v \in Workers
      PROVE  PlaceAt(v)' /\ (item' = v => HolderAt(v)')
  <2>1. PICK pc, c, s : pc = wk[v].pc /\ c = wk[v].call /\ s = wk[v].att
      OBVIOUS
  <2>2. pc = wk'[v].pc /\ c = wk'[v].call /\ s = wk'[v].att
      BY <1>2, <2>1
  <2>3. Placed(pc, c, s) /\ (item = v => Held(pc, c, s))
      BY <2>1 DEF Control, PlaceAt, HolderAt
  <2>4. Placed(pc, c, s)' /\ (item = v => Held(pc, c, s)')
      BY <1>2, <1>4, <2>3 DEF Placed, Held, Fixed, Pending, modelStep, batchDone
  <2> QED
      BY <1>2, <2>2, <2>4 DEF PlaceAt, HolderAt
<1> QED
    BY <1>1, <1>2, <1>5, <1>6, <1>7, TypesSplit DEF Control, Fixed

LEMMA DecideToolApproval ==
    ASSUME Control, NEW outcome \in {"approved", "rejected"}, decideToolApproval(outcome)
    PROVE  Control'
<1>1. TypeOK /\ StoreTypes /\ RunInv /\ wk \in [Workers -> Memories]
    BY TypesSplit DEF Control
<1>2. /\ UNCHANGED <<item, requested, results, receipts, attempts, wk, process, env>>
      /\ UNCHANGED batch /\ Fixed /\ item = "pending"
    BY FixedBatch DEF decideToolApproval, env
<1>3. run' = [run EXCEPT !.status = "running", !.waitingApproval = NoRef,
                         !.reconciliationReceiptId = NoRef]
    BY <1>1, Reduced DEF decideToolApproval, StoreTypes, NoRef
<1>4. run' \in RunState /\ run'.status = "running"
    BY <1>1, <1>3 DEF StoreTypes, RunState, RunStatuses, NoRef
<1>5. approvals' \in [Calls -> ApprovalStatuses]
    BY <1>1 DEF decideToolApproval, decide, StoreTypes, ApprovalStatuses
<1>6. StoreTypes'
    BY <1>1, <1>2, <1>4, <1>5 DEF StoreTypes, Fixed, process, env
<1>7. RunInv'
    BY <1>1, <1>2, <1>4 DEF RunInv, Fixed, SettledIffTerminal, isTerminal
<1>8. \A v \in Workers : item' # v
    BY <1>2, WorkerAssumption
<1>9. \A v \in Workers : PlaceAt(v)'
    BY <1>2 DEF Control, PlaceAt, Placed, Fixed
<1> QED
    BY <1>1, <1>2, <1>6, <1>7, <1>8, <1>9, TypesSplit DEF Control, Fixed

LEMMA RevokeOrStutter ==
    ASSUME Control, revokePolicy \/ UNCHANGED vars
    PROVE  Control'
<1>1. TypeOK /\ StoreTypes /\ wk \in [Workers -> Memories]
    BY TypesSplit DEF Control
<1>2. UNCHANGED <<store, batch, wk, process, faults>> /\ Fixed /\ revoked' \in BOOLEAN
    BY <1>1, FixedBatch DEF revokePolicy, vars, env, StoreTypes
<1>3. StoreTypes'
    BY <1>1, <1>2 DEF StoreTypes, Fixed, process, store
<1> QED
    BY <1>1, <1>2, <1>3, ResultsMove

LEMMA WorkerSteps ==
    ASSUME Control, NEW w \in Workers, workerStep(w)
    PROVE  Control'
BY LocalSteps, AttemptSteps, ReleaseSteps, TerminalSteps, ReceiptSteps, ClaimStep,
   CallPrepared, ContinueRun, StartRun, CommitToolSample, RequireToolApproval,
   UnknownOutcome, ResumeSteps, CompletionSteps, BatchSteps, AskToolRuntime,
   HandleError, Zenon
DEF workerStep

LEMMA ControlInit == Init => Control
<1> SUFFICES ASSUME Init PROVE Control
    OBVIOUS
<1>1. batch \in Batches
    BY DEF Init
<1>2. N \in Nat /\ Calls \subseteq Nat /\ MaxFaults \in Nat
    BY <1>1, Sizes
<1>3. IdleWorker \in Memories
    BY <1>2 DEF IdleWorker, Memories, CallResults, Locations
<1>4. wk \in [Workers -> Memories] /\ \A w \in Workers : wk[w].pc = "idle"
    BY <1>3 DEF Init, IdleWorker
<1>5. /\ run \in RunState /\ run.status = "queued"
    BY DEF Init, createRun, RunState, RunStatuses, NoRef
<1>6. StoreTypes
  <2>1. /\ receipts \in [Calls -> ReceiptStatuses]
        /\ approvals \in [Calls -> ApprovalStatuses]
        /\ attempts \in [Steps -> AttemptStatuses]
      BY DEF Init, ReceiptStatuses, ApprovalStatuses, AttemptStatuses
  <2>2. /\ entry \in [Workers -> [Calls -> EntryStates]]
        /\ provider \in [Calls -> {"none", "running", "done", "voided"}]
        /\ effects \in [Calls -> Nat]
      BY DEF Init, EntryStates
  <2>3. results \in Seq(Calls)
      BY DEF Init
  <2>4. requested = FALSE /\ revoked = FALSE
      BY Zenon DEF Init
  <2>5. /\ item \in Workers \cup {"pending", "expired", "settled"}
        /\ faults \in 0 .. MaxFaults
      BY <1>2 DEF Init
  <2> QED
      BY <1>1, <1>5, <2>1, <2>2, <2>3, <2>4, <2>5 DEF StoreTypes
<1>7. RunInv
    BY <1>5 DEF Init, RunInv, SettledIffTerminal, isTerminal
<1>8. \A w \in Workers : PlaceAt(w) /\ item # w
    BY <1>4, WorkerAssumption DEF Init, PlaceAt, Placed, CallAt
<1> QED
    BY <1>4, <1>6, <1>7, <1>8, TypesSplit DEF Control

LEMMA ControlNext == Control /\ [Next]_vars => Control'
<1> SUFFICES ASSUME Control, [Next]_vars PROVE Control'
    OBVIOUS
<1>1. CASE \E w \in Workers : claimNextWorkItem(w) \/ expireLease(w) \/ expireAbandoned(w)
    BY <1>1, LeaseSteps
<1>2. CASE \E w \in Workers : workerStep(w)
    BY <1>2, WorkerSteps
<1>3. CASE \E c \in Calls : toolEnds(c)
    BY <1>3, ToolSteps
<1>4. CASE \E w \in Workers : callFails(w) \/ crash(w)
    BY <1>4, CallFails, Crash
<1>5. CASE requestCancel \/ \E outcome \in {"approved", "rejected"} : decideToolApproval(outcome)
    BY <1>5, RequestCancel, DecideToolApproval
<1>6. CASE revokePolicy \/ UNCHANGED vars
    BY <1>6, RevokeOrStutter
<1> QED
    BY <1>1, <1>2, <1>3, <1>4, <1>5, <1>6 DEF Next

THEOREM ControlHolds == Spec => []Control
BY ControlInit, ControlNext, PTL DEF Spec

\* Type correctness: the store, the workers' memories and the brokers keep
\* their shapes, so that a call number always names a call and a step an
\* attempt, whoever crashed in between.
THEOREM TypeCorrect == Spec => []TypeOK
<1>1. Control => TypeOK
    BY DEF Control
<1> QED
    BY <1>1, ControlHolds, PTL

\* The work item is settled by the commit that ends the run and by no other
\* (commitLeasedRunTerminal): no run is left without an item, no item outlives
\* its run.
THEOREM ItemsEndWithRuns == Spec => []SettledIffTerminal
<1>1. Control => SettledIffTerminal
    BY DEF Control, RunInv
<1> QED
    BY <1>1, ControlHolds, PTL
=============================================================================
