------------------------- MODULE RunExecutionProofs -------------------------
(***************************************************************************)
(* The theorems about what a run's tool calls do, in layers over           *)
(* RunExecutionControl.  Evidence: what receipts, brokers and workers say  *)
(* of a call is what became of it.  Batch: approvals, unknown outcomes and *)
(* results follow one another in the order of the calls.  Last, no effect  *)
(* without approval.  Each layer is inductive relative to those before it. *)
(***************************************************************************)
EXTENDS RunExecutionControl

-----------------------------------------------------------------------------
(* Evidence.                                                               *)

\* The tool has ruled the call out, or will never see it.
RuledOut(c) ==
    \/ provider[c] = "voided"
    \/ provider[c] = "none" /\ receipts[c] = "canceled"

\* Nothing reaches the tool before the receipt says dispatched.
FenceInv ==
    \A c \in Calls :
        receipts[c] \in Undispatched => effects[c] = 0 /\ provider[c] = "none"

\* Whoever is about to start a call is the only one, the call has not been
\* started, and it cannot be canceled unless the tool rules it out.
DispatchInv ==
    \A w \in Workers, c \in Calls : wk[w].res[c] = "dispatched" =>
        /\ effects[c] = 0
        /\ provider[c] \in {"none", "voided"}
        /\ receipts[c] \notin Undispatched
        /\ receipts[c] = "canceled" => provider[c] = "voided"
        /\ \A v \in Workers : wk[v].res[c] = "dispatched" => v = w

\* What workers and brokers remember of a call is true.
MemoryInv ==
    /\ \A w \in Workers, c \in Calls :
        /\ wk[w].res[c] = "completed" => provider[c] = "done"
        /\ wk[w].res[c] = "canceled" => RuledOut(c)
        /\ wk[w].res[c] = "recovering" => receipts[c] \notin Undispatched
        /\ entry[w][c] = "completed" => provider[c] = "done"
        /\ entry[w][c] = "canceled" => provider[c] = "voided"
    /\ \A w \in Workers :
        wk[w].pc = "ask" => receipts[wk[w].call] \notin Undispatched

Evidence ==
    FenceInv /\ DispatchInv /\ MemoryInv /\ EffectAtMostOnce /\ ReceiptsTellTheTruth

\* Results that claim nothing.
Vague == {"none", "rejected", "unknownOutcome", "started"}

\* Nobody learns anything about a call, begins to ask about one, or retains
\* another outcome.
NoNews ==
    \A v \in Workers :
        /\ wk'[v].pc = "ask" => wk[v].pc = "ask" /\ wk'[v].call = wk[v].call
        /\ \A d \in Calls : wk'[v].res[d] \in {wk[v].res[d]} \cup Vague
NoOutcome ==
    \A v \in Workers, d \in Calls :
        entry'[v][d] \in {"completed", "canceled"} => entry'[v][d] = entry[v][d]
NobodyLearns == NoNews /\ NoOutcome

LEMMA QuietKeepsEvidence ==
    ASSUME Control, Evidence, NobodyLearns,
           UNCHANGED <<receipts, provider, effects, batch>>
    PROVE  Evidence'
<1>1. Fixed /\ \A w \in Workers : wk[w].pc = "ask" => wk[w].call \in Calls
    BY FixedBatch DEF Control, PlaceAt, Placed, CallAt
<1>2. FenceInv' /\ EffectAtMostOnce' /\ ReceiptsTellTheTruth'
    BY <1>1 DEF Fixed, Evidence, FenceInv, EffectAtMostOnce, ReceiptsTellTheTruth
<1>3. DispatchInv'
    BY <1>1 DEF Fixed, Evidence, DispatchInv, NobodyLearns, NoNews, NoOutcome, Vague
<1>4. MemoryInv'
    BY <1>1 DEF Fixed, Evidence, MemoryInv, NobodyLearns, NoNews, NoOutcome, Vague, RuledOut
<1> QED
    BY <1>2, <1>3, <1>4 DEF Evidence

\* A receipt is written by someone who knows what it says.
LEMMA ReceiptKeepsEvidence ==
    ASSUME Control, Evidence, NobodyLearns, UNCHANGED <<provider, effects, batch>>,
           NEW c \in Calls, NEW r \in ReceiptStatuses \ {"dispatched"},
           receipts' = [receipts EXCEPT ![c] = r],
           r \in Undispatched => receipts[c] \in Undispatched,
           r = "completed" => provider[c] = "done",
           r = "canceled" => RuledOut(c) \/ receipts[c] \in Undispatched,
           r = "unknownOutcome" => isOpen(c)
    PROVE  Evidence'
<1>1. Fixed /\ \A w \in Workers : wk[w].pc = "ask" => wk[w].call \in Calls
    BY FixedBatch DEF Control, PlaceAt, Placed, CallAt
<1>2. /\ receipts'[c] = r
      /\ \A d \in Calls : d # c => receipts'[d] = receipts[d]
      /\ \A d \in Calls : receipts'[d] \in Undispatched => receipts[d] \in Undispatched
    BY DEF Control, TypeOK
<1>3. \A d \in Calls : RuledOut(d) => RuledOut(d)'
    BY <1>2 DEF RuledOut, Evidence, ReceiptsTellTheTruth, isOpen, ReceiptStatuses, Undispatched
<1>4. FenceInv'
    BY <1>1, <1>2 DEF Fixed, Evidence, FenceInv
<1>5. EffectAtMostOnce'
    BY <1>1 DEF Fixed, Evidence, EffectAtMostOnce
<1>6. ReceiptsTellTheTruth'
    BY <1>1, <1>2 DEF Fixed, Evidence, ReceiptsTellTheTruth, FenceInv, RuledOut
<1>7. DispatchInv'
    BY <1>1, <1>2 DEF Fixed, Evidence, DispatchInv, NobodyLearns, NoNews, NoOutcome, Vague, RuledOut, isOpen
<1>8. MemoryInv'
  <2>1. ASSUME NEW w \in Workers, NEW d \in Calls
        PROVE  /\ wk'[w].res[d] = "completed" => provider[d] = "done"
               /\ wk'[w].res[d] = "canceled" => RuledOut(d)
               /\ wk'[w].res[d] = "recovering" => receipts[d] \notin Undispatched
               /\ entry'[w][d] = "completed" => provider[d] = "done"
               /\ entry'[w][d] = "canceled" => provider[d] = "voided"
      BY DEF Evidence, MemoryInv, NobodyLearns, NoNews, NoOutcome, Vague
  <2>2. \A w \in Workers :
          wk'[w].pc = "ask" => receipts'[wk'[w].call] \notin Undispatched
      BY <1>1, <1>2 DEF Evidence, MemoryInv, NobodyLearns, NoNews
  <2> QED
      BY <1>1, <1>2, <1>3, <2>1, <2>2 DEF Fixed, MemoryInv
<1> QED
    BY <1>4, <1>5, <1>6, <1>7, <1>8 DEF Evidence

\* A worker learns something true, and the tool may rule the call out.
LEMMA LearnKeepsEvidence ==
    ASSUME Control, Evidence, NEW w \in Workers, NEW c \in Calls, NEW r, NEW pc, NEW s, NEW d \in 0 .. N,
           Learned(w, pc, d, s, c, r),
           UNCHANGED <<receipts, effects, entry, batch>>,
           \/ UNCHANGED provider
           \/ /\ provider' = [provider EXCEPT ![c] = "voided"]
              /\ provider[c] \in {"none", "voided"} /\ receipts[c] \notin Undispatched,
           r = "dispatched" => wk[w].res[c] = "dispatched",
           r = "completed" => provider[c] = "done",
           r = "canceled" => RuledOut(c)',
           r = "recovering" => receipts[c] \notin Undispatched,
           pc = "ask" => receipts[d] \notin Undispatched
    PROVE  Evidence'
<1>1. Fixed /\ \A v \in Workers : wk[v].pc = "ask" => wk[v].call \in Calls
    BY FixedBatch DEF Control, PlaceAt, Placed, CallAt
<1>2. /\ \A e \in Calls : e # c => provider'[e] = provider[e]
      /\ provider'[c] = provider[c] \/
           /\ provider'[c] = "voided" /\ provider[c] \in {"none", "voided"}
           /\ receipts[c] \notin Undispatched
    BY DEF Control, TypeOK
<1>3. /\ \A v \in Workers \ {w} : wk'[v] = wk[v]
      /\ wk'[w].pc = pc /\ wk'[w].call = d
      /\ wk'[w].res[c] = r
      /\ \A e \in Calls : e # c => wk'[w].res[e] = wk[w].res[e]
  <2>1. wk[w].res \in [Calls -> CallResults]
      BY Begin
  <2> QED
      BY <2>1 DEF Learned, Comes
<1>4. \A e \in Calls : RuledOut(e) => RuledOut(e)'
    BY <1>2 DEF RuledOut
<1>5. FenceInv' /\ EffectAtMostOnce' /\ ReceiptsTellTheTruth'
    BY <1>1, <1>2 DEF Fixed, Evidence, FenceInv, EffectAtMostOnce, ReceiptsTellTheTruth
<1>6. DispatchInv'
  <2>1. \A v \in Workers, e \in Calls :
          wk'[v].res[e] = "dispatched" => wk[v].res[e] = "dispatched"
      BY <1>3
  <2> QED
      BY <1>1, <1>2, <2>1 DEF Fixed, Evidence, DispatchInv
<1>7. MemoryInv'
  <2>1. ASSUME NEW v \in Workers, NEW e \in Calls
        PROVE  /\ wk'[v].res[e] = "completed" => provider'[e] = "done"
               /\ wk'[v].res[e] = "canceled" => RuledOut(e)'
               /\ wk'[v].res[e] = "recovering" => receipts[e] \notin Undispatched
    <3>1. CASE v = w /\ e = c
        BY <1>2, <1>3, <3>1
    <3>2. CASE wk'[v].res[e] = wk[v].res[e]
        BY <1>2, <1>4, <3>2 DEF Evidence, MemoryInv
    <3> QED
        BY <1>3, <3>1, <3>2
  <2>2. ASSUME NEW v \in Workers, NEW e \in Calls
        PROVE  /\ entry'[v][e] = "completed" => provider'[e] = "done"
               /\ entry'[v][e] = "canceled" => provider'[e] = "voided"
      BY <1>2 DEF Evidence, MemoryInv
  <2>3. ASSUME NEW v \in Workers, wk'[v].pc = "ask"
        PROVE  receipts'[wk'[v].call] \notin Undispatched
      BY <1>3, <2>3 DEF Evidence, MemoryInv
  <2> QED
      BY <1>1, <2>1, <2>2, <2>3 DEF Fixed, MemoryInv
<1> QED
    BY <1>5, <1>6, <1>7 DEF Evidence

\* Going to another place than "ask" teaches nothing.
Goes(w) ==
    \/ \E pc \in Locations \ {"ask"} :
          \/ Goto(w, pc) \/ \E c : GotoCall(w, pc, c) \/ \E s : GotoWith(w, pc, s)
    \/ Leave(w)

LEMMA MovesAreNoNews ==
    ASSUME Control, NEW w \in Workers, NEW pc \in Locations \ {"ask"}
    PROVE  /\ Goto(w, pc) => NoNews
           /\ \A c : GotoCall(w, pc, c) => NoNews
           /\ \A s : GotoWith(w, pc, s) => NoNews
<1>1. wk \in [Workers -> Memories] /\ wk[w] \in Memories
    BY Begin
<1>2. Goto(w, pc) => NoNews
    BY <1>1 DEF Goto, NoNews, Memories
<1>3. \A c : GotoCall(w, pc, c) => NoNews
    BY <1>1 DEF GotoCall, NoNews, Memories
<1>4. \A s : GotoWith(w, pc, s) => NoNews
    BY <1>1 DEF GotoWith, NoNews, Memories
<1> QED
    BY <1>2, <1>3, <1>4

LEMMA LeavingIsNoNews ==
    ASSUME Control, NEW w \in Workers, Leave(w)
    PROVE  NoNews
BY Begin, LeaveMoved DEF StoreTypes, NoNews, Vague

LEMMA VagueIsNoNews ==
    ASSUME Control, NEW w \in Workers, NEW c \in Calls, NEW r \in Vague, Resolve(w, c, r)
    PROVE  NoNews
<1>1. r \in CallResults
    BY DEF Vague, CallResults, Resolutions
<1>2. Learned(w, wk[w].pc, wk[w].call, wk[w].att, c, r)
    BY <1>1, Begin, ResolveLearned
<1>3. wk[w].res \in [Calls -> CallResults]
    BY Begin
<1> QED
    BY <1>2, <1>3 DEF Learned, Comes, NoNews

LEMMA NothingIsNoNews ==
    /\ UNCHANGED wk => NoNews
    /\ UNCHANGED entry => NoOutcome
BY DEF NoNews, NoOutcome

LEMMA AcknowledgementsAreNoNews ==
    ASSUME Control, NEW w \in Workers, NEW c \in Calls, NEW status
    PROVE  /\ Acknowledge(w, c, status) => NoOutcome
           /\ \A pc \in Locations \ {"ask"} : \A next :
                AcknowledgeThen(w, c, status, pc, next) => NobodyLearns
<1>1. Acknowledge(w, c, status) => NoOutcome
  <2>1. entry \in [Workers -> [Calls -> EntryStates]]
      BY Begin DEF StoreTypes
  <2>2. acknowledged(entry[w][c], status) \in {entry[w][c], "acked", "none"}
      BY DEF acknowledged
  <2> QED
      BY <2>1, <2>2 DEF Acknowledge, NoOutcome
<1>2. ASSUME NEW pc \in Locations \ {"ask"}, NEW next,
             AcknowledgeThen(w, c, status, pc, next)
      PROVE  NobodyLearns
  <2>1. CASE Acknowledge(w, c, status) /\ GotoCall(w, pc, next)
      BY <1>1, <2>1, MovesAreNoNews DEF NobodyLearns
  <2>2. CASE UNCHANGED entry /\ Goto(w, "error")
      BY <2>2, MovesAreNoNews, NothingIsNoNews DEF NobodyLearns, Locations
  <2> QED
      BY <1>2, <2>1, <2>2 DEF AcknowledgeThen
<1> QED
    BY <1>1, <1>2

\* Steps that bear on no call's outcome.
Quiet == NobodyLearns /\ UNCHANGED <<receipts, provider, effects, batch>>

LEMMA QuietMoves ==
    ASSUME Control, NEW w \in Workers,
        \/ evaluatePolicy(w) \/ resumePendingTools(w)
        \/ samplingFailed(w) \/ samplingCanceled(w)
        \/ batchResolved(w) \/ commitRejected(w) \/ afterToolCanceled(w)
        \/ afterResumed(w) \/ drained(w) \/ cancelConflict(w) \/ denyRefused(w)
        \/ cancelPreparedRefused(w) \/ leaseLost(w)
        \/ denyRun(w) \/ beginModelAttempt(w) \/ beginToolExecution(w)
        \/ callRefused(w) \/ recoverSuperseded(w)
        \/ drainUnknown(w) \/ cancelPreparedApprovedTool(w) \/ beginCancelAttempt(w)
        \/ yieldClaim(w) \/ recheckApproval(w) \/ drainFailed(w)
        \/ retryActiveAttempt(w)
        \/ completeTextRun(w) \/ failRun(w) \/ permanentError(w) \/ confirmCanceled(w)
        \/ commitToolSample(w) \/ requireToolApproval(w)
        \/ resumeToolReconciliation(w) \/ supersedeToolApproval(w)
        \/ expireToolApproval(w) \/ handleError(w)
    PROVE  Quiet
<1> USE DEF Goes, Locations
<1>1. CASE \/ evaluatePolicy(w) \/ resumePendingTools(w)
           \/ samplingFailed(w) \/ samplingCanceled(w)
           \/ batchResolved(w) \/ commitRejected(w) \/ afterToolCanceled(w)
           \/ afterResumed(w) \/ drained(w) \/ cancelConflict(w) \/ denyRefused(w)
           \/ cancelPreparedRefused(w) \/ leaseLost(w)
  <2>1. Goes(w)
      BY <1>1 DEF evaluatePolicy, resumePendingTools, samplingFailed, samplingCanceled,
          batchResolved, commitRejected, afterToolCanceled, afterResumed, drained,
          cancelConflict, denyRefused, cancelPreparedRefused, leaseLost
  <2>2. localStep
      BY <1>1 DEF evaluatePolicy, resumePendingTools, samplingFailed, samplingCanceled,
          batchResolved, commitRejected, afterToolCanceled, afterResumed, drained,
          cancelConflict, denyRefused, cancelPreparedRefused, leaseLost
  <2>3. NoNews
      BY <2>1, MovesAreNoNews, LeavingIsNoNews
  <2> QED
      BY <2>2, <2>3, NothingIsNoNews
      DEF localStep, store, process, env, Quiet, NobodyLearns
<1>2. CASE \/ denyRun(w) \/ beginModelAttempt(w) \/ beginToolExecution(w)
           \/ callRefused(w) \/ recoverSuperseded(w)
           \/ drainUnknown(w) \/ cancelPreparedApprovedTool(w) \/ beginCancelAttempt(w)
  <2>1. Goes(w)
      BY <1>2 DEF denyRun, beginModelAttempt, beginToolExecution, callRefused,
          recoverSuperseded, drainUnknown, cancelPreparedApprovedTool, beginCancelAttempt
  <2>2. attemptStep
      BY <1>2 DEF denyRun, beginModelAttempt, beginToolExecution, callRefused,
          recoverSuperseded, drainUnknown, cancelPreparedApprovedTool, beginCancelAttempt
  <2>3. NoNews
      BY <2>1, MovesAreNoNews, LeavingIsNoNews
  <2> QED
      BY <2>2, <2>3, NothingIsNoNews
      DEF attemptStep, process, env, Quiet, NobodyLearns
<1>3. CASE \/ yieldClaim(w) \/ recheckApproval(w) \/ drainFailed(w)
           \/ retryActiveAttempt(w)
           \/ completeTextRun(w) \/ failRun(w) \/ permanentError(w) \/ confirmCanceled(w)
           \/ commitToolSample(w) \/ requireToolApproval(w)
           \/ resumeToolReconciliation(w) \/ supersedeToolApproval(w)
           \/ expireToolApproval(w) \/ handleError(w)
  <2>1. Goes(w)
      BY <1>3 DEF yieldClaim, recheckApproval, drainFailed, retryActiveAttempt,
          completeTextRun, failRun, permanentError, confirmCanceled, commitToolSample,
          requireToolApproval, resumeToolReconciliation, supersedeToolApproval,
          expireToolApproval, handleError, Release, commitTerminal
  <2>2. UNCHANGED <<receipts, process, env>>
      BY <1>3 DEF yieldClaim, recheckApproval, drainFailed, retryActiveAttempt,
          completeTextRun, failRun, permanentError, confirmCanceled, commitToolSample,
          requireToolApproval, resumeToolReconciliation, supersedeToolApproval,
          expireToolApproval, handleError, releaseStep, terminalStep, runStep
  <2>3. NoNews
      BY <2>1, MovesAreNoNews, LeavingIsNoNews
  <2> QED
      BY <2>2, <2>3, NothingIsNoNews DEF process, env, Quiet, NobodyLearns
<1> QED
    BY <1>1, <1>2, <1>3

LEMMA QuietClaims ==
    ASSUME Control, NEW w \in Workers,
        \/ startRun(w) \/ continueRun(w) \/ executeClaimStep(w) \/ callPrepared(w)
        \/ retryToolReconciliation(w)
        \/ \E c \in Calls : abortBeforeStart(w, c) \/ interruptTool(w, c)
    PROVE  Quiet
<1> USE DEF Quiet, NobodyLearns, store, process, env, localStep
<1>1. CASE startRun(w)
    BY <1>1, NothingIsNoNews DEF startRun
<1>2. CASE continueRun(w)
  <2>1. IdleWorker.res \in [Calls -> Vague]
      BY DEF IdleWorker, Vague
  <2>2. /\ wk'[w].pc = "step" /\ wk'[w].res = IdleWorker.res
        /\ \A v \in Workers \ {w} : wk'[v] = wk[v]
      BY <1>2, Begin DEF continueRun, IdleWorker
  <2>3. NoNews
      BY <2>1, <2>2 DEF NoNews
  <2> QED
      BY <1>2, <2>3, NothingIsNoNews DEF continueRun
<1>3. CASE executeClaimStep(w)
  <2>1. NoNews
      BY <1>3, MovesAreNoNews DEF executeClaimStep, Locations
  <2>2. entry \in [Workers -> [Calls -> EntryStates]]
      BY Begin DEF StoreTypes
  <2>3. \A c \in Calls : acknowledged(entry[w][c], receipts[c]) \in {entry[w][c], "acked", "none"}
      BY DEF acknowledged
  <2>4. NoOutcome
      BY <1>3, <2>2, <2>3 DEF executeClaimStep, NoOutcome
  <2> QED
      BY <1>3, <2>1, <2>4 DEF executeClaimStep
<1>4. CASE callPrepared(w)
  <2>. PICK c \in Calls : c = wk[w].call
      BY <1>4, Begin DEF callPrepared, Holding, At, PlaceAt, Placed, CallAt
  <2> DEFINE next == IF PendingAfter(c) # {} THEN Min(PendingAfter(c)) ELSE c
             pc == IF PendingAfter(c) # {} THEN "prepare" ELSE "resolve"
  <2>1. AcknowledgeThen(w, c, receipts[c], pc, next) \/ (GotoCall(w, pc, next) /\ UNCHANGED entry)
      BY <1>4 DEF callPrepared
  <2>2. pc \in Locations \ {"ask"}
      BY DEF Locations
  <2> HIDE DEF pc, next
  <2>3. NobodyLearns
    <3>1. CASE AcknowledgeThen(w, c, receipts[c], pc, next)
        BY <2>2, <3>1, AcknowledgementsAreNoNews
    <3>2. CASE GotoCall(w, pc, next) /\ UNCHANGED entry
        BY <2>2, <3>2, MovesAreNoNews, NothingIsNoNews
    <3> QED
        BY <2>1, <3>1, <3>2
  <2> QED
      BY <1>4, <2>3 DEF callPrepared
<1>5. CASE retryToolReconciliation(w)
  <2>1. wk[w].call \in Calls
      BY <1>5, Begin DEF retryToolReconciliation, Holding, At, PlaceAt, Placed, CallAt
  <2> QED
      BY <1>5, <2>1, AcknowledgementsAreNoNews, LeavingIsNoNews
      DEF retryToolReconciliation, Release
<1>6. CASE \E c \in Calls : abortBeforeStart(w, c)
    BY <1>6, VagueIsNoNews, NothingIsNoNews DEF abortBeforeStart, Vague
<1>7. CASE \E c \in Calls : interruptTool(w, c)
  <2>1. PICK c \in Calls : interruptTool(w, c)
      BY <1>7
  <2>2. NoNews
      BY <2>1, VagueIsNoNews DEF interruptTool, Vague
  <2>3. NoOutcome
      BY <2>1, Begin DEF interruptTool, StoreTypes, NoOutcome
  <2> QED
      BY <2>1, <2>2, <2>3 DEF interruptTool
<1> QED
    BY <1>1, <1>2, <1>3, <1>4, <1>5, <1>6, <1>7

LEMMA QuietOthers ==
    ASSUME Control,
        \/ \E w \in Workers : \/ claimNextWorkItem(w) \/ callFails(w) \/ crash(w)
                              \/ expireLease(w) \/ expireAbandoned(w)
        \/ requestCancel \/ revokePolicy \/ UNCHANGED vars
        \/ \E outcome \in {"approved", "rejected"} : decideToolApproval(outcome)
    PROVE  Quiet
<1> USE DEF Quiet, NobodyLearns, store, process, env
<1>1. CASE \E w \in Workers : claimNextWorkItem(w)
    BY <1>1, MovesAreNoNews, NothingIsNoNews DEF claimNextWorkItem, Locations
<1>2. CASE \E w \in Workers : callFails(w)
  <2>1. PICK w \in Workers : callFails(w)
      BY <1>2
  <2>2. \/ Goto(w, "error") \/ Leave(w)
        \/ \E c \in Calls : Resolve(w, c, "rejected")
      BY <2>1 DEF callFails, Release, Pending
  <2>3. NoNews
      BY <2>1, <2>2, MovesAreNoNews, LeavingIsNoNews, VagueIsNoNews DEF Locations, Vague
  <2> QED
      BY <2>1, <2>3, NothingIsNoNews DEF callFails, Fault
<1>3. CASE \E w \in Workers : crash(w)
  <2>1. PICK w \in Workers : crash(w)
      BY <1>3
  <2>2. NoNews
      BY <2>1, LeavingIsNoNews DEF crash
  <2>3. NoOutcome
    <3> DEFINE e == [c \in Calls |-> "none"]
    <3>1. entry' = [entry EXCEPT ![w] = e] /\ \A c \in Calls : e[c] = "none"
        BY <2>1 DEF crash
    <3>2. entry \in [Workers -> [Calls -> EntryStates]]
        BY <2>1, Begin DEF StoreTypes
    <3> HIDE DEF e
    <3> QED
        BY <3>1, <3>2 DEF NoOutcome
  <2> QED
      BY <2>1, <2>2, <2>3 DEF crash, Fault
<1>4. CASE \E w \in Workers : expireLease(w) \/ expireAbandoned(w)
    BY <1>4, NothingIsNoNews DEF expireLease, expireAbandoned, Fault
<1>5. CASE requestCancel \/ revokePolicy \/ UNCHANGED vars
    BY <1>5, NothingIsNoNews DEF requestCancel, revokePolicy, vars
<1>6. CASE \E outcome \in {"approved", "rejected"} : decideToolApproval(outcome)
    BY <1>6, NothingIsNoNews DEF decideToolApproval
<1> QED
    BY <1>1, <1>2, <1>3, <1>4, <1>5, <1>6

\* The steps that write a receipt have the evidence for it.
LEMMA ReceiptsEvidence ==
    ASSUME Control, Evidence, NEW w \in Workers,
        \/ prepareToolExecution(w) \/ commitCompleted(w) \/ reconciledCompleted(w)
        \/ commitToolExecutionUnknownOutcome(w) \/ commitCanceled(w)
        \/ reconciledCanceled(w) \/ reconciledAfterCancellation(w)
        \/ cancelSuperseded(w) \/ drainResult(w) \/ cancelPreparedReceipt(w)
    PROVE  Evidence'
<1> USE Begin DEF ReceiptStatuses, Undispatched
<1>. PICK c \in 0 .. N, s \in Steps \cup {NoStep} : c = wk[w].call /\ s = wk[w].att
    OBVIOUS
<1>0. /\ wk[w].pc \in CallAt => c \in Calls
      /\ wk[w].pc = "cancelPrepared" => s \in Calls
      /\ item = w /\ wk[w].pc = "prepareReceipt" => receipts[c] = "none"
      /\ item = w /\ wk[w].pc = "cancelPrepared" => receipts[s] = "prepared"
    BY DEF PlaceAt, Placed, HolderAt, Held
<1>1. CASE prepareToolExecution(w)
  <2>1. c \in Calls /\ receipts[c] = "none"
      BY <1>0, <1>1 DEF prepareToolExecution, Holding, At, CallAt
  <2>2. NobodyLearns
      BY <1>1, MovesAreNoNews, NothingIsNoNews
      DEF prepareToolExecution, receiptStep, process, NobodyLearns, Locations
  <2> QED
      BY <1>1, <2>1, <2>2, ReceiptKeepsEvidence DEF prepareToolExecution, receiptStep, process, env
<1>2. ASSUME c \in Calls, commitToolExecutionCompletion(c), wk[w].res[c] = "completed",
             NEW pc \in Locations \ {"ask"}, NEW next,
             AcknowledgeThen(w, c, "completed", pc, next),
             UNCHANGED <<provider, effects, env>>
      PROVE  Evidence'
  <2>1. NobodyLearns
      BY <1>2, AcknowledgementsAreNoNews
  <2>2. provider[c] = "done"
      BY <1>2 DEF Evidence, MemoryInv
  <2> QED
      BY <1>2, <2>1, <2>2, ReceiptKeepsEvidence
      DEF commitToolExecutionCompletion, resolve, env
<1>3. CASE commitCompleted(w)
    BY <1>0, <1>2, <1>3 DEF commitCompleted, Holding, At, CallAt, Locations
<1>4. CASE reconciledCompleted(w)
    BY <1>0, <1>2, <1>4 DEF reconciledCompleted, Holding, At, CallAt, Locations
<1>5. CASE commitToolExecutionUnknownOutcome(w)
  <2>1. c \in Calls
      BY <1>0, <1>5 DEF commitToolExecutionUnknownOutcome, Holding, At, CallAt
  <2>2. NobodyLearns
      BY <1>5, <2>1, AcknowledgementsAreNoNews, LeavingIsNoNews
      DEF commitToolExecutionUnknownOutcome, Release, NobodyLearns
  <2> QED
      BY <1>5, <2>1, <2>2, ReceiptKeepsEvidence DEF commitToolExecutionUnknownOutcome, isOpen, env
<1>6. ASSUME c \in Calls, wk[w].res[c] = "canceled",
             NEW pc \in Locations \ {"ask"}, cancelReceiptOf(w, c, pc),
             UNCHANGED <<provider, effects, env>>
      PROVE  Evidence'
  <2>1. NobodyLearns
      BY <1>6, AcknowledgementsAreNoNews DEF cancelReceiptOf
  <2>2. RuledOut(c)
      BY <1>6 DEF Evidence, MemoryInv
  <2> QED
      BY <1>6, <2>1, <2>2, ReceiptKeepsEvidence DEF cancelReceiptOf, resolve, env
<1>7. CASE commitCanceled(w) \/ reconciledCanceled(w)
    BY <1>0, <1>6, <1>7 DEF commitCanceled, reconciledCanceled, Holding, At, CallAt, Locations
<1>8. CASE reconciledAfterCancellation(w)
  <2>1. c \in Calls /\ wk[w].res[c] = "completed"
      BY <1>0, <1>8 DEF reconciledAfterCancellation, Holding, At, CallAt
  <2>2. NobodyLearns
      BY <1>8, <2>1, AcknowledgementsAreNoNews DEF reconciledAfterCancellation, Locations
  <2>3. provider[c] = "done"
      BY <2>1 DEF Evidence, MemoryInv
  <2> QED
      BY <1>8, <2>1, <2>2, <2>3, ReceiptKeepsEvidence DEF reconciledAfterCancellation, resolve, env
<1>9. CASE cancelSuperseded(w)
  <2>1. c \in Calls /\ receipts[c] = "prepared"
      BY <1>0, <1>9 DEF cancelSuperseded, Holding, At, CallAt
  <2>2. NobodyLearns
      BY <1>9, MovesAreNoNews, NothingIsNoNews
      DEF cancelSuperseded, receiptStep, process, NobodyLearns, Locations
  <2> QED
      BY <1>9, <2>1, <2>2, ReceiptKeepsEvidence DEF cancelSuperseded, resolve, receiptStep, process, env
<1>10. CASE cancelPreparedReceipt(w)
  <2>1. s \in Calls /\ receipts[s] = "prepared"
      BY <1>0, <1>10 DEF cancelPreparedReceipt, Holding, At
  <2>2. NobodyLearns
      BY <1>10, MovesAreNoNews, NothingIsNoNews
      DEF cancelPreparedReceipt, receiptStep, process, NobodyLearns, Locations
  <2> QED
      BY <1>10, <2>1, <2>2, ReceiptKeepsEvidence
      DEF cancelPreparedReceipt, resolve, receiptStep, process, env
<1>11. CASE drainResult(w)
  <2> DEFINE d == Min(Drainable(w))
  <2>1. d \in Drainable(w) /\ d \in Calls
      BY <1>11, MinIn, Sizes DEF drainResult, Drainable, StoreTypes
  <2>2. /\ resolve(d, entry[w][d]) /\ entry[w][d] \in {"completed", "canceled"}
        /\ entry' = [entry EXCEPT ![w][d] = "none"]
      BY <1>11, <2>1 DEF drainResult, Drainable
  <2> HIDE DEF d
  <2>3. NoOutcome
      BY <2>1, <2>2 DEF NoOutcome, StoreTypes
  <2>4. NobodyLearns
      BY <1>11, <2>3, NothingIsNoNews DEF drainResult, NobodyLearns
  <2>5. /\ entry[w][d] = "completed" => provider[d] = "done"
        /\ entry[w][d] = "canceled" => RuledOut(d)
      BY <2>1 DEF Evidence, MemoryInv, RuledOut
  <2> QED
      BY <1>11, <2>1, <2>2, <2>4, <2>5, ReceiptKeepsEvidence DEF drainResult, resolve, env
<1> QED
    BY <1>1, <1>3, <1>4, <1>5, <1>7, <1>8, <1>9, <1>10, <1>11

\* The steps by which a worker learns about a call.
LEMMA LearningEvidence ==
    ASSUME Control, Evidence, NEW w \in Workers,
        \/ beginToolReconciliation(w)
        \/ \E status \in Resolutions : askToolRuntime(w, status)
        \/ \E c \in Calls :
              \/ beginToolRecovery(w, c) \/ reuseReceipt(w, c)
              \/ \E status \in Resolutions : recoverToolExecution(w, c, status)
    PROVE  Evidence'
<1> USE Begin DEF Undispatched
<1>1. ASSUME NEW c \in Calls, NEW status, Answer(w, c, status), receipts[c] \notin Undispatched
      PROVE  /\ \/ UNCHANGED provider
                \/ /\ provider' = [provider EXCEPT ![c] = "voided"]
                   /\ provider[c] \in {"none", "voided"}
             /\ status \in {"completed", "canceled", "unknownOutcome"}
             /\ status = "completed" => provider[c] = "done"
             /\ status = "canceled" => provider'[c] = "voided"
  <2>1. provider \in [Calls -> {"none", "running", "done", "voided"}]
      BY DEF StoreTypes
  <2>2. /\ entry[w][c] = "completed" => provider[c] = "done"
        /\ entry[w][c] = "canceled" => provider[c] = "voided"
      BY DEF Evidence, MemoryInv
  <2> QED
      BY <1>1, <2>1, <2>2 DEF Answer, settledAs
<1>2. CASE beginToolReconciliation(w)
  <2> DEFINE d == run.reconciliationReceiptId
             pc == IF isOpen(d) THEN "ask" ELSE "reconciled"
             r == IF isOpen(d) THEN wk[w].res[d] ELSE receipts[d]
  <2>1. d \in Calls /\ receipts[d] \in ReceiptStatuses \ Undispatched
      BY <1>2 DEF beginToolReconciliation, RunInv, StoreTypes, Holding, At, HolderAt, Held,
          ReconcilingAt
  <2>2. r \in CallResults
      BY <2>1 DEF CallResults, Resolutions, isOpen, ReceiptStatuses
  <2>3. wk' = [wk EXCEPT ![w].call = d, ![w].pc = pc, ![w].res[d] = r]
      BY <1>2 DEF beginToolReconciliation
  <2>4. Learned(w, pc, d, wk[w].att, d, r)
    <3>1. pc \in Locations
        BY DEF Locations
    <3> HIDE DEF pc, r, d
    <3> QED
        BY <2>1, <2>2, <2>3, <3>1, AnswerLearned
  <2>5. /\ pc = "ask" => receipts[d] \notin Undispatched
        /\ ~isOpen(d) => receipts[d] \in {"completed", "canceled"}
      BY <2>1 DEF isOpen, ReceiptStatuses
  <2>6. UNCHANGED <<receipts, provider, effects, entry, batch>>
      BY <1>2 DEF beginToolReconciliation, attemptStep, process, env
  <2>7. /\ r = "dispatched" => wk[w].res[d] = "dispatched"
        /\ r = "completed" => provider[d] = "done"
        /\ r = "canceled" => RuledOut(d)
        /\ r = "recovering" => receipts[d] \notin Undispatched
      BY <2>1, <2>5 DEF Evidence, ReceiptsTellTheTruth, MemoryInv, RuledOut
  <2> HIDE DEF pc, r
  <2>. PICK e \in Calls : e = d
      BY <2>1
  <2>8. r = "canceled" => RuledOut(e)'
      BY <2>6, <2>7 DEF RuledOut
  <2> HIDE DEF d
  <2> QED
      BY <2>1, <2>4, <2>5, <2>6, <2>7, <2>8, LearnKeepsEvidence
<1>3. CASE \E status \in Resolutions : askToolRuntime(w, status)
  <2>. PICK c \in 0 .. N, s \in Steps \cup {NoStep} : c = wk[w].call /\ s = wk[w].att
      OBVIOUS
  <2>1. PICK status \in Resolutions : askToolRuntime(w, status)
      BY <1>3
  <2>2. /\ c \in Calls /\ Answer(w, c, status) /\ receipts[c] \notin Undispatched
        /\ UNCHANGED <<receipts, effects, entry, batch>>
        /\ wk' = [wk EXCEPT ![w].pc = "reconciled", ![w].res[c] = status]
      BY <2>1 DEF askToolRuntime, At, PlaceAt, Placed, CallAt, Evidence, MemoryInv, store, env
  <2>3. Learned(w, "reconciled", c, s, c, status)
    <3> DEFINE m == [wk[w] EXCEPT !.pc = "reconciled", !.res[c] = status]
    <3>1. "reconciled" \in Locations /\ status \in CallResults
        BY DEF CallResults, Locations
    <3>2. m \in Memories /\ m.pc = "reconciled" /\ m.call = c /\ m.att = s
          /\ m.res = [wk[w].res EXCEPT ![c] = status]
        BY <2>2, <3>1 DEF Memories
    <3>3. wk' = [wk EXCEPT ![w] = m]
        BY <2>2
    <3> HIDE DEF m
    <3> QED
        BY <3>2, <3>3, ReplaceOne DEF Learned, Comes
  <2>4. status = "canceled" => RuledOut(c)'
      BY <1>1, <2>2 DEF RuledOut
  <2> QED
      BY <1>1, <2>2, <2>3, <2>4, LearnKeepsEvidence
<1>4. ASSUME NEW c \in Calls, NEW r \in CallResults, Resolve(w, c, r),
             UNCHANGED <<receipts, effects, entry, batch>>,
             \/ UNCHANGED provider
             \/ /\ provider' = [provider EXCEPT ![c] = "voided"]
                /\ provider[c] \in {"none", "voided"} /\ receipts[c] \notin Undispatched,
             r # "dispatched", wk[w].pc # "ask",
             r = "completed" => provider[c] = "done",
             r = "canceled" => RuledOut(c)',
             r = "recovering" => receipts[c] \notin Undispatched
      PROVE  Evidence'
  <2>. PICK pc \in Locations, d \in 0 .. N, s \in Steps \cup {NoStep} :
          pc = wk[w].pc /\ d = wk[w].call /\ s = wk[w].att
      OBVIOUS
  <2>1. Learned(w, pc, d, s, c, r)
      BY <1>4, ResolveLearned
  <2> QED
      BY <1>4, <2>1, LearnKeepsEvidence
<1>5. CASE \E c \in Calls : beginToolRecovery(w, c)
  <2>1. PICK c \in Calls : beginToolRecovery(w, c)
      BY <1>5
  <2>2. PICK r \in {"recovering", "none"} :
          Resolve(w, c, r) /\ (r = "recovering" => isOpen(c))
      BY <2>1 DEF beginToolRecovery
  <2> QED
      BY <1>4, <2>1, <2>2
      DEF beginToolRecovery, Turn, At, attemptStep, process, env, isOpen, CallResults
<1>6. CASE \E c \in Calls : reuseReceipt(w, c)
  <2>1. PICK c \in Calls : reuseReceipt(w, c)
      BY <1>6
  <2>2. PICK r \in {"completed", "canceled"} : Resolve(w, c, r) /\ receipts[c] = r
      BY <2>1 DEF reuseReceipt
  <2>3. /\ UNCHANGED <<receipts, effects, entry, batch, provider>> /\ wk[w].pc # "ask"
      BY <2>1 DEF reuseReceipt, Turn, At, localStep, store, process, env
  <2>4. /\ r = "completed" => provider[c] = "done"
        /\ r = "canceled" => RuledOut(c)'
      BY <2>2, <2>3 DEF Evidence, ReceiptsTellTheTruth, RuledOut
  <2> QED
      BY <1>4, <2>2, <2>3, <2>4 DEF CallResults, Resolutions
<1>7. CASE \E c \in Calls, status \in Resolutions : recoverToolExecution(w, c, status)
  <2>1. PICK c \in Calls, status \in Resolutions : recoverToolExecution(w, c, status)
      BY <1>7
  <2>2. /\ Answer(w, c, status) /\ Resolve(w, c, status) /\ wk[w].pc # "ask"
        /\ UNCHANGED <<receipts, effects, entry, batch>> /\ receipts[c] \notin Undispatched
      BY <2>1 DEF recoverToolExecution, Turn, At, store, env, Evidence, MemoryInv
  <2>3. status = "canceled" => RuledOut(c)'
      BY <1>1, <2>2 DEF RuledOut
  <2> QED
      BY <1>1, <1>4, <2>2, <2>3 DEF CallResults
<1> QED
    BY <1>2, <1>3, <1>5, <1>6, <1>7

\* The fence goes up before anything happens, and nobody else is about to start.
LEMMA DispatchEvidence ==
    ASSUME Control, Evidence, NEW w \in Workers, NEW c \in Calls, dispatchToolExecution(w, c)
    PROVE  Evidence'
<1> USE Begin DEF Undispatched
<1>1. /\ receipts[c] = "prepared" /\ receipts' = [receipts EXCEPT ![c] = "dispatched"]
      /\ Resolve(w, c, "dispatched")
      /\ UNCHANGED <<provider, effects, entry, batch>>
    BY DEF dispatchToolExecution, shouldExecute, receiptStep, process, env
<1>2. Fixed
    BY <1>1, FixedBatch
<1>3. /\ receipts'[c] = "dispatched"
      /\ \A d \in Calls : d # c => receipts'[d] = receipts[d]
    BY <1>1 DEF StoreTypes
<1>4. /\ \A v \in Workers \ {w} : wk'[v] = wk[v]
      /\ wk'[w].pc = wk[w].pc /\ wk'[w].call = wk[w].call
      /\ wk'[w].res[c] = "dispatched"
      /\ \A d \in Calls : d # c => wk'[w].res[d] = wk[w].res[d]
  <2>1. Learned(w, wk[w].pc, wk[w].call, wk[w].att, c, "dispatched")
      BY <1>1, ResolveLearned DEF CallResults
  <2>2. wk[w].res \in [Calls -> CallResults]
      OBVIOUS
  <2> QED
      BY <2>1, <2>2 DEF Learned, Comes
<1>5. \A v \in Workers : wk[v].res[c] \notin {"dispatched", "recovering", "completed", "canceled"}
    BY <1>1 DEF Evidence, DispatchInv, MemoryInv, FenceInv, RuledOut
<1>6. FenceInv' /\ EffectAtMostOnce' /\ ReceiptsTellTheTruth'
    BY <1>1, <1>2, <1>3 DEF Fixed, Evidence, FenceInv, EffectAtMostOnce, ReceiptsTellTheTruth
<1>7. DispatchInv'
  <2>1. effects[c] = 0 /\ provider[c] = "none"
      BY <1>1 DEF Evidence, FenceInv
  <2> QED
      BY <1>1, <1>2, <1>3, <1>4, <1>5, <2>1 DEF Fixed, Evidence, DispatchInv
<1>8. MemoryInv'
  <2>1. ASSUME NEW v \in Workers, NEW d \in Calls
        PROVE  /\ wk'[v].res[d] = "completed" => provider[d] = "done"
               /\ wk'[v].res[d] = "canceled" => RuledOut(d)'
               /\ wk'[v].res[d] = "recovering" => receipts'[d] \notin Undispatched
               /\ entry'[v][d] = "completed" => provider[d] = "done"
               /\ entry'[v][d] = "canceled" => provider[d] = "voided"
    <3>1. CASE d = c
        BY <1>1, <1>3, <1>4, <1>5, <3>1 DEF Evidence, MemoryInv
    <3>2. CASE d # c
        BY <1>1, <1>3, <1>4, <3>2 DEF Evidence, MemoryInv, RuledOut
    <3> QED
        BY <3>1, <3>2
  <2>2. ASSUME NEW v \in Workers, wk'[v].pc = "ask"
        PROVE  receipts'[wk'[v].call] \notin Undispatched
    <3>1. wk[v].pc = "ask" /\ wk'[v].call = wk[v].call
        BY <1>4, <2>2
    <3>2. wk[v].call \in Calls /\ receipts[wk[v].call] \notin Undispatched
        BY <3>1 DEF Control, PlaceAt, Placed, CallAt, Evidence, MemoryInv
    <3> QED
        BY <1>3, <3>1, <3>2
  <2> QED
      BY <1>1, <1>2, <2>1, <2>2 DEF Fixed, MemoryInv
<1> QED
    BY <1>6, <1>7, <1>8 DEF Evidence

\* The call is started by the one who may, unless the tool ruled it out.
LEMMA StartEvidence ==
    ASSUME Control, Evidence, NEW w \in Workers, NEW c \in Calls, startEffect(w, c)
    PROVE  Evidence'
<1> USE Begin DEF Undispatched
<1>1. /\ wk[w].res[c] = "dispatched" /\ UNCHANGED <<receipts, batch>>
    BY DEF startEffect, store, env
<1>2. /\ effects[c] = 0 /\ provider[c] \in {"none", "voided"}
      /\ receipts[c] \notin Undispatched
      /\ receipts[c] = "canceled" => provider[c] = "voided"
      /\ \A v \in Workers : wk[v].res[c] = "dispatched" => v = w
    BY <1>1 DEF Evidence, DispatchInv
<1>3. Fixed
    BY <1>1, FixedBatch
<1>4. PICK r \in {"started", "canceled"}, e \in {"running", "canceled"} :
        /\ Resolve(w, c, r) /\ entry' = [entry EXCEPT ![w][c] = e]
        /\ r = "started" <=> provider[c] # "voided"
        /\ e = "running" <=> provider[c] # "voided"
    BY DEF startEffect
<1>5. /\ \A v \in Workers \ {w} : wk'[v] = wk[v]
      /\ wk'[w].pc = wk[w].pc /\ wk'[w].call = wk[w].call
      /\ wk'[w].res[c] = r
      /\ \A d \in Calls : d # c => wk'[w].res[d] = wk[w].res[d]
  <2>1. r \in CallResults
      BY DEF CallResults, Resolutions
  <2>2. Learned(w, wk[w].pc, wk[w].call, wk[w].att, c, r)
      BY <1>4, <2>1, ResolveLearned
  <2>3. wk[w].res \in [Calls -> CallResults]
      OBVIOUS
  <2> QED
      BY <2>2, <2>3 DEF Learned, Comes
<1>6. /\ \A v \in Workers, d \in Calls : v # w \/ d # c => entry'[v][d] = entry[v][d]
      /\ entry'[w][c] = e
    BY <1>4 DEF StoreTypes
<1>7. /\ \A d \in Calls : d # c => provider'[d] = provider[d] /\ effects'[d] = effects[d]
      /\ provider[c] = "voided" => provider'[c] = "voided" /\ effects'[c] = 0
      /\ provider[c] # "voided" => provider'[c] = "running" /\ effects'[c] = 1
    BY <1>2 DEF startEffect, StoreTypes
<1>8. FenceInv' /\ EffectAtMostOnce' /\ ReceiptsTellTheTruth'
    BY <1>1, <1>2, <1>3, <1>7
    DEF Fixed, Evidence, FenceInv, EffectAtMostOnce, ReceiptsTellTheTruth
<1>9. DispatchInv'
  <2>1. ASSUME NEW v \in Workers, NEW d \in Calls, wk'[v].res[d] = "dispatched"
        PROVE  d # c /\ wk[v].res[d] = "dispatched"
      BY <1>2, <1>5, <2>1
  <2> QED
      BY <1>1, <1>3, <1>7, <2>1 DEF Fixed, Evidence, DispatchInv
<1>10. MemoryInv'
  <2>1. ASSUME NEW v \in Workers, NEW d \in Calls
        PROVE  /\ wk'[v].res[d] = "completed" => provider'[d] = "done"
               /\ wk'[v].res[d] = "canceled" => RuledOut(d)'
               /\ wk'[v].res[d] = "recovering" => receipts'[d] \notin Undispatched
               /\ entry'[v][d] = "completed" => provider'[d] = "done"
               /\ entry'[v][d] = "canceled" => provider'[d] = "voided"
    <3>1. CASE d # c
        BY <1>1, <1>5, <1>6, <1>7, <3>1 DEF Evidence, MemoryInv, RuledOut
    <3>2. CASE d = c /\ v = w
        BY <1>1, <1>4, <1>5, <1>6, <1>7, <3>2 DEF RuledOut
    <3>3. CASE d = c /\ v # w
        BY <1>1, <1>2, <1>5, <1>6, <1>7, <3>3 DEF Evidence, MemoryInv, RuledOut
    <3> QED
        BY <3>1, <3>2, <3>3
  <2>2. ASSUME NEW v \in Workers, wk'[v].pc = "ask"
        PROVE  receipts'[wk'[v].call] \notin Undispatched
      BY <1>1, <1>5, <2>2 DEF Evidence, MemoryInv
  <2> QED
      BY <1>3, <2>1, <2>2 DEF Fixed, MemoryInv
<1> QED
    BY <1>8, <1>9, <1>10 DEF Evidence

\* The tool ends a call that runs, and everyone who waits for it is told.
LEMMA ToolEvidence ==
    ASSUME Control, Evidence, NEW c \in Calls, toolEnds(c)
    PROVE  Evidence'
<1>0. StoreTypes /\ wk \in [Workers -> Memories]
    BY TypesSplit DEF Control
<1>1. provider[c] = "running" /\ UNCHANGED <<receipts, effects, batch>>
    BY DEF toolEnds, toolFinished, toolThrew, store, env
<1>2. Fixed
    BY <1>1, FixedBatch
<1>3. PICK p \in {"done", "voided"} :
        /\ provider' = [provider EXCEPT ![c] = p]
        /\ p = "voided" => \E outcome \in {"done", "voided"} : toolThrew(c, outcome)
    BY DEF toolEnds, toolFinished, toolThrew
<1>4. provider'[c] = p /\ \A d \in Calls : d # c => provider'[d] = provider[d]
    BY <1>0, <1>3 DEF StoreTypes
<1>5. /\ receipts[c] \notin Undispatched \cup {"completed", "canceled"}
      /\ \A v \in Workers : /\ wk[v].res[c] \notin {"dispatched", "completed", "canceled"}
                            /\ entry[v][c] \notin {"completed", "canceled"}
    BY <1>1 DEF Evidence, FenceInv, DispatchInv, MemoryInv, ReceiptsTellTheTruth, RuledOut
<1>6. PICK r \in {"completed", "rejected"} :
        ResolveStarted(c, r) /\ (r = "completed" => p = "done")
    BY <1>3, <1>4, <1>0 DEF toolEnds, toolFinished, toolThrew, StoreTypes
<1>7. ASSUME NEW v \in Workers
      PROVE  /\ wk'[v].pc = wk[v].pc /\ wk'[v].call = wk[v].call
             /\ \A d \in Calls : d # c => wk'[v].res[d] = wk[v].res[d]
             /\ wk'[v].res[c] \in {wk[v].res[c], r}
    BY <1>0, <1>6 DEF ResolveStarted, Memories
<1>8. ASSUME NEW v \in Workers
      PROVE  /\ \A d \in Calls : d # c => entry'[v][d] = entry[v][d]
             /\ entry'[v][c] = "completed" => p = "done"
             /\ entry'[v][c] # "canceled"
  <2>1. entry[v] \in [Calls -> EntryStates] /\ entry[v][c] \notin {"completed", "canceled"}
      BY <1>0, <1>5 DEF StoreTypes
  <2>2. CASE toolFinished(c)
      BY <1>0, <1>3, <1>4, <2>1, <2>2 DEF toolFinished, StoreTypes
  <2>3. CASE \E outcome \in {"done", "voided"} : toolThrew(c, outcome)
      BY <2>1, <2>3 DEF toolThrew
  <2> QED
      BY <2>2, <2>3 DEF toolEnds
<1>9. FenceInv' /\ EffectAtMostOnce' /\ ReceiptsTellTheTruth'
    BY <1>1, <1>2, <1>4, <1>5
    DEF Fixed, Evidence, FenceInv, EffectAtMostOnce, ReceiptsTellTheTruth
<1>10. DispatchInv'
  <2>1. ASSUME NEW v \in Workers, NEW d \in Calls, wk'[v].res[d] = "dispatched"
        PROVE  d # c /\ wk[v].res[d] = "dispatched"
      BY <1>5, <1>7, <2>1
  <2> QED
      BY <1>1, <1>2, <1>4, <2>1 DEF Fixed, Evidence, DispatchInv
<1>11. MemoryInv'
  <2>1. ASSUME NEW v \in Workers, NEW d \in Calls
        PROVE  /\ wk'[v].res[d] = "completed" => provider'[d] = "done"
               /\ wk'[v].res[d] = "canceled" => RuledOut(d)'
               /\ wk'[v].res[d] = "recovering" => receipts'[d] \notin Undispatched
               /\ entry'[v][d] = "completed" => provider'[d] = "done"
               /\ entry'[v][d] = "canceled" => provider'[d] = "voided"
    <3>1. CASE d # c
        BY <1>1, <1>4, <1>7, <1>8, <3>1 DEF Evidence, MemoryInv, RuledOut
    <3>2. CASE d = c
        BY <1>1, <1>4, <1>5, <1>6, <1>7, <1>8, <3>2 DEF Evidence, MemoryInv
    <3> QED
        BY <3>1, <3>2
  <2>2. ASSUME NEW v \in Workers, wk'[v].pc = "ask"
        PROVE  receipts'[wk'[v].call] \notin Undispatched
      BY <1>1, <1>7, <2>2 DEF Evidence, MemoryInv
  <2> QED
      BY <1>2, <2>1, <2>2 DEF Fixed, MemoryInv
<1> QED
    BY <1>9, <1>10, <1>11 DEF Evidence

LEMMA EvidenceInit == Init => Evidence
<1> SUFFICES ASSUME Init PROVE Evidence
    OBVIOUS
<1>1. \A w \in Workers : wk[w].pc = "idle" /\ \A c \in Calls : wk[w].res[c] = "none"
    BY DEF Init, IdleWorker
<1> QED
    BY <1>1 DEF Init, Evidence, FenceInv, DispatchInv, MemoryInv, EffectAtMostOnce,
        ReceiptsTellTheTruth, Undispatched

LEMMA EvidenceNext == Control /\ Evidence /\ [Next]_vars => Evidence'
<1> SUFFICES ASSUME Control, Evidence, [Next]_vars PROVE Evidence'
    OBVIOUS
<1>1. Quiet => Evidence'
    BY QuietKeepsEvidence DEF Quiet
<1>2. ASSUME NEW w \in Workers, workerStep(w)
      PROVE  Evidence'
    BY <1>1, <1>2, QuietMoves, QuietClaims, ReceiptsEvidence, LearningEvidence,
       DispatchEvidence, StartEvidence, Zenon
    DEF workerStep
<1> QED
    BY <1>1, <1>2, QuietOthers, ToolEvidence, Zenon DEF Next

-----------------------------------------------------------------------------
(* Steps after which nobody relies on more than before.                    *)

\* Where the holder of the lease relies on approvals, on the call that is
\* reconciled, or on the order of results.
PassAt ==
    {"prepare", "prepareReceipt", "approve", "resolve", "commit", "superseded",
     "cancelReceipt", "cancelPrepared"}
AskAt == {"ask", "reconciled", "resume"}
PlainAt == Locations \ (PassAt \cup AskAt)

\* Whoever has the lease after a step is where it was, with the lease, or at a
\* place that relies on none of these.
Plain ==
    \A v \in Workers : item' = v =>
        \/ /\ item = v /\ wk'[v].pc = wk[v].pc
           /\ wk'[v].call = wk[v].call /\ wk'[v].att = wk[v].att
        \/ wk'[v].pc \in PlainAt

\* What becomes of the lease when w has it.
KeepsOrGives(w) == item' \in {item, "pending", "expired", "settled"}

LEMMA PlainMove ==
    ASSUME Control, NEW w \in Workers, KeepsOrGives(w), NEW pc \in PlainAt
    PROVE  /\ Goto(w, pc) => Plain
           /\ \A c : GotoCall(w, pc, c) => Plain
           /\ \A s : GotoWith(w, pc, s) => Plain
<1>1. wk \in [Workers -> Memories] /\ \A v \in Workers : wk[v] \in Memories
    BY Begin
<1>2. \A v \in Workers : item' = v => item = v
    BY WorkerAssumption DEF KeepsOrGives
<1>3. Goto(w, pc) => Plain
    BY <1>1, <1>2 DEF Goto, Plain, Memories
<1>4. \A c : GotoCall(w, pc, c) => Plain
    BY <1>1, <1>2 DEF GotoCall, Plain, Memories
<1>5. \A s : GotoWith(w, pc, s) => Plain
    BY <1>1, <1>2 DEF GotoWith, Plain, Memories
<1> QED
    BY <1>3, <1>4, <1>5

LEMMA PlainLeave ==
    ASSUME Control, NEW w \in Workers, KeepsOrGives(w), Leave(w)
    PROVE  Plain
<1>1. \A v \in Workers : item' = v => item = v
    BY WorkerAssumption DEF KeepsOrGives
<1>2. wk'[w].pc = "idle" /\ \A v \in Workers \ {w} : wk'[v] = wk[v]
    BY Begin, LeaveMoved DEF StoreTypes
<1> QED
    BY <1>1, <1>2 DEF Plain, PlainAt, Locations, PassAt, AskAt

LEMMA PlainResolve ==
    ASSUME Control, NEW w \in Workers, NEW c \in Calls, NEW r, KeepsOrGives(w), Resolve(w, c, r)
    PROVE  Plain
<1>1. \A v \in Workers : item' = v => item = v
    BY WorkerAssumption DEF KeepsOrGives
<1>2. wk \in [Workers -> Memories] /\ \A v \in Workers : wk[v] \in Memories
    BY Begin
<1> QED
    BY <1>1, <1>2 DEF Plain, Resolve, Memories

LEMMA PlainStay ==
    ASSUME UNCHANGED <<wk, item>>
    PROVE  Plain
BY DEF Plain

LEMMA PlainAcknowledge ==
    ASSUME Control, NEW w \in Workers, UNCHANGED item, NEW pc \in PlainAt, NEW next,
           NEW c, NEW status, AcknowledgeThen(w, c, status, pc, next)
    PROVE  Plain
<1>1. GotoCall(w, pc, next) \/ Goto(w, "error")
    BY DEF AcknowledgeThen
<1>2. "error" \in PlainAt /\ KeepsOrGives(w)
    BY DEF PlainAt, Locations, PassAt, AskAt, KeepsOrGives
<1> QED
    BY <1>1, <1>2, PlainMove

\* The run and its records stay as they are.
Still == UNCHANGED <<run, requested, results, receipts, approvals, batch>>

GoesPlainly(w) ==
    \/ \E pc \in PlainAt :
          \/ Goto(w, pc) \/ \E c : GotoCall(w, pc, c) \/ \E s : GotoWith(w, pc, s)
    \/ Leave(w)

LEMMA PlainGoing ==
    ASSUME Control, NEW w \in Workers, KeepsOrGives(w), GoesPlainly(w)
    PROVE  Plain
BY PlainMove, PlainLeave DEF GoesPlainly

LEMMA StillMoves ==
    ASSUME Control, NEW w \in Workers,
        \/ evaluatePolicy(w) \/ samplingFailed(w) \/ samplingCanceled(w)
        \/ commitRejected(w) \/ afterToolCanceled(w)
        \/ afterResumed(w) \/ drained(w) \/ cancelConflict(w) \/ denyRefused(w)
        \/ cancelPreparedRefused(w) \/ leaseLost(w)
        \/ denyRun(w) \/ beginModelAttempt(w) \/ callRefused(w)
        \/ drainUnknown(w) \/ beginCancelAttempt(w)
        \/ yieldClaim(w) \/ recheckApproval(w) \/ drainFailed(w)
        \/ retryActiveAttempt(w) \/ handleError(w) \/ retryToolReconciliation(w)
        \/ executeClaimStep(w) \/ continueRun(w)
    PROVE  Plain /\ Still
<1> USE DEF Still, GoesPlainly, PlainAt, PassAt, AskAt, Locations, KeepsOrGives
<1>1. CASE \/ evaluatePolicy(w) \/ samplingFailed(w) \/ samplingCanceled(w)
           \/ commitRejected(w) \/ afterToolCanceled(w)
           \/ afterResumed(w) \/ drained(w) \/ cancelConflict(w) \/ denyRefused(w)
           \/ cancelPreparedRefused(w) \/ leaseLost(w)
  <2>1. GoesPlainly(w)
      BY <1>1 DEF evaluatePolicy, samplingFailed, samplingCanceled, commitRejected,
          afterToolCanceled, afterResumed, drained, cancelConflict, denyRefused,
          cancelPreparedRefused, leaseLost
  <2>2. localStep
      BY <1>1 DEF evaluatePolicy, samplingFailed, samplingCanceled, commitRejected,
          afterToolCanceled, afterResumed, drained, cancelConflict, denyRefused,
          cancelPreparedRefused, leaseLost
  <2> QED
      BY <2>1, <2>2, PlainGoing DEF localStep, store, env
<1>2. CASE \/ denyRun(w) \/ beginModelAttempt(w) \/ callRefused(w)
           \/ drainUnknown(w) \/ beginCancelAttempt(w)
  <2>1. GoesPlainly(w)
      BY <1>2 DEF denyRun, beginModelAttempt, callRefused, drainUnknown, beginCancelAttempt
  <2>2. attemptStep
      BY <1>2 DEF denyRun, beginModelAttempt, callRefused, drainUnknown, beginCancelAttempt
  <2> QED
      BY <2>1, <2>2, PlainGoing DEF attemptStep, env
<1>3. CASE \/ yieldClaim(w) \/ recheckApproval(w) \/ drainFailed(w)
           \/ retryActiveAttempt(w) \/ handleError(w) \/ retryToolReconciliation(w)
           \/ executeClaimStep(w)
  <2>1. GoesPlainly(w)
      BY <1>3 DEF yieldClaim, recheckApproval, drainFailed, retryActiveAttempt,
          handleError, retryToolReconciliation, executeClaimStep, Release
  <2>2. KeepsOrGives(w)
      BY <1>3 DEF yieldClaim, recheckApproval, drainFailed, retryActiveAttempt,
          handleError, retryToolReconciliation, executeClaimStep, Release, store
  <2>3. Still
      BY <1>3 DEF yieldClaim, recheckApproval, drainFailed, retryActiveAttempt,
          handleError, retryToolReconciliation, executeClaimStep, releaseStep, store, env
  <2> QED
      BY <2>1, <2>2, <2>3, PlainGoing
<1>4. CASE continueRun(w)
  <2>1. wk'[w].pc = "step" /\ \A v \in Workers \ {w} : wk'[v] = wk[v]
      BY <1>4, Begin DEF continueRun, IdleWorker
  <2> QED
      BY <1>4, <2>1 DEF continueRun, localStep, store, env, Plain
<1> QED
    BY <1>1, <1>2, <1>3, <1>4

LEMMA StillResults ==
    ASSUME Control, NEW w \in Workers, NEW c \in Calls,
        \/ beginToolRecovery(w, c) \/ reuseReceipt(w, c) \/ startEffect(w, c)
        \/ abortBeforeStart(w, c) \/ interruptTool(w, c)
        \/ \E status \in Resolutions : recoverToolExecution(w, c, status)
    PROVE  Plain /\ Still
<1>1. \E r : Resolve(w, c, r)
    BY DEF beginToolRecovery, reuseReceipt, startEffect, abortBeforeStart, interruptTool,
        recoverToolExecution
<1>2. Still /\ KeepsOrGives(w)
    BY DEF beginToolRecovery, reuseReceipt, startEffect, abortBeforeStart, interruptTool,
        recoverToolExecution, attemptStep, localStep, store, env, Still, KeepsOrGives
<1> QED
    BY <1>1, <1>2, PlainResolve

LEMMA StillOthers ==
    ASSUME Control,
        \/ \E w \in Workers : \/ claimNextWorkItem(w) \/ callFails(w) \/ crash(w)
                              \/ expireLease(w) \/ expireAbandoned(w)
        \/ revokePolicy \/ UNCHANGED vars \/ \E c \in Calls : toolEnds(c)
    PROVE  Plain /\ Still
<1> USE DEF Still, store, process, env, KeepsOrGives
<1>0. {"step", "error"} \subseteq PlainAt
    BY DEF PlainAt, PassAt, AskAt, Locations
<1>1. CASE \E w \in Workers : claimNextWorkItem(w)
  <2>1. PICK w \in Workers : claimNextWorkItem(w)
      BY <1>1
  <2>2. wk'[w].pc = "step" /\ item' = w
      BY <2>1, Begin DEF claimNextWorkItem, Goto
  <2> QED
      BY <1>0, <2>1, <2>2 DEF claimNextWorkItem, Plain
<1>2. CASE \E w \in Workers : callFails(w)
  <2>1. PICK w \in Workers : callFails(w)
      BY <1>2
  <2>2. \/ Goto(w, "error") \/ Leave(w)
        \/ \E c \in Calls : Resolve(w, c, "rejected")
      BY <2>1 DEF callFails, Release, Pending
  <2>3. Still /\ KeepsOrGives(w)
      BY <2>1 DEF callFails, Release, Fault
  <2> QED
      BY <1>0, <2>2, <2>3, PlainMove, PlainLeave, PlainResolve
<1>3. CASE \E w \in Workers : crash(w)
    BY <1>3, PlainLeave DEF crash, Fault
<1>4. CASE \E w \in Workers : expireLease(w) \/ expireAbandoned(w)
    BY <1>4, WorkerAssumption DEF expireLease, expireAbandoned, Fault, Plain
<1>5. CASE revokePolicy \/ UNCHANGED vars
    BY <1>5, PlainStay DEF revokePolicy, vars
<1>6. CASE \E c \in Calls : toolEnds(c)
  <2>0. PICK c \in Calls :
            \E r : ResolveStarted(c, r) /\ UNCHANGED store /\ UNCHANGED env
      BY <1>6 DEF toolEnds, toolFinished, toolThrew
  <2>1. PICK r : ResolveStarted(c, r) /\ UNCHANGED store /\ UNCHANGED env
      BY <2>0
  <2>2. \A v \in Workers : wk[v] \in Memories
      BY Begin
  <2>3. ASSUME NEW v \in Workers
        PROVE  /\ wk'[v].pc = wk[v].pc /\ wk'[v].call = wk[v].call
               /\ wk'[v].att = wk[v].att
      BY <2>1, <2>2 DEF ResolveStarted, Memories
  <2> QED
      BY <2>1, <2>3 DEF Plain
<1> QED
    BY <1>1, <1>2, <1>3, <1>4, <1>5, <1>6

-----------------------------------------------------------------------------
(* Approvals, unknown outcomes and the order of results.                   *)

Decided(c) == approvals[c] \notin {"none", "required"}

\* Nothing is dispatched without approval, and a receipt is closed only after
\* its approval was decided.
ApprovalInv ==
    \A c \in NeedsApproval :
        /\ receipts[c] \in {"dispatched", "unknownOutcome", "completed"} =>
              approvals[c] = "approved"
        /\ receipts[c] = "canceled" => Decided(c)

\* What the holder knows of approvals: the calls it has gone past are approved,
\* and what it is about to cancel was decided.
Passed(pc, c, s) ==
    /\ pc \in {"prepare", "prepareReceipt", "approve"} =>
          \A d \in Pending \cap NeedsApproval : d < c => approvals[d] = "approved"
    /\ pc \in {"resolve", "commit"} =>
          \A d \in Pending \cap NeedsApproval : approvals[d] = "approved"
    /\ pc \in {"superseded", "cancelReceipt"} => Decided(c)
    /\ pc = "cancelPrepared" => Decided(s)

\* It reconciles the call the run names and resumes a closed one.
Reconciles(pc, c) ==
    /\ pc \in {"ask", "reconciled"} => c = run.reconciliationReceiptId
    /\ pc = "resume" => receipts[c] # "unknownOutcome"

\* It commits the result of the first pending call.
CommitsNext(pc, c) == pc = "commit" => c = Len(results) + 1

Relies(pc, c, s) == Passed(pc, c, s) /\ Reconciles(pc, c) /\ CommitsNext(pc, c)

HolderRelies ==
    \A w \in Workers : item = w => Relies(wk[w].pc, wk[w].call, wk[w].att)

\* A run that reconciles and is not to be canceled waits for the next result.
AwaitedIsNext ==
    run.status = "reconciling" /\ ~run.cancelRequested =>
        run.reconciliationReceiptId = Len(results) + 1

Records ==
    /\ ApprovalInv /\ WaitingIsAnswerable /\ UnknownOutcomeIsReconciled
    /\ AwaitedIsNext /\ ResultsInCallOrder

Batch == HolderRelies /\ Records

LEMMA StillKeepsBatch ==
    ASSUME Control, Batch, Plain, Still
    PROVE  Batch'
<1>1. Fixed /\ Pending' = Pending
    BY FixedBatch DEF Still, Pending, Fixed
<1>2. Records'
    BY <1>1 DEF Still, Batch, Records, Fixed, ApprovalInv, Decided, WaitingIsAnswerable,
        UnknownOutcomeIsReconciled, AwaitedIsNext, ResultsInCallOrder
<1>3. ASSUME NEW v \in Workers, item' = v
      PROVE  Relies(wk[v].pc, wk[v].call, wk[v].att)'
  <2>1. PICK pc, c, s : pc = wk'[v].pc /\ c = wk'[v].call /\ s = wk'[v].att
      OBVIOUS
  <2>2. CASE item = v /\ pc = wk[v].pc /\ c = wk[v].call /\ s = wk[v].att
    <3>1. Relies(pc, c, s)
        BY <2>2 DEF Batch, HolderRelies
    <3>2. Relies(pc, c, s)'
        BY <1>1, <3>1 DEF Still, Fixed, Relies, Passed, Decided, Reconciles, CommitsNext
    <3> QED
        BY <2>1, <3>2
  <2>3. CASE pc \in PlainAt
    <3>1. Relies(pc, c, s)'
        BY <2>3 DEF PlainAt, PassAt, AskAt, Relies, Passed, Reconciles, CommitsNext
    <3> QED
        BY <2>1, <3>1
  <2> QED
      BY <1>3, <2>1, <2>2, <2>3 DEF Plain
<1> QED
    BY <1>2, <1>3 DEF Batch, HolderRelies

\* When the holder, if there is one, is at a plain place it relies on nothing.
LEMMA NothingToRelyOn ==
    ASSUME \A v \in Workers : item' = v => wk'[v].pc \in PlainAt
    PROVE  HolderRelies'
BY DEF HolderRelies, PlainAt, PassAt, AskAt, Relies, Passed, Reconciles, CommitsNext

\* The records stay and the holder comes to a place whose reliance is justified.
LEMMA HolderBatch ==
    ASSUME Control, Batch, NEW w \in Workers, item = w, item' = w,
           Still, NEW pc, NEW c, NEW s, Comes(w, pc, c, s),
           Relies(pc, c, s)
    PROVE  Batch'
<1>1. Fixed /\ Pending' = Pending
    BY FixedBatch DEF Still, Pending, Fixed
<1>2. Records'
    BY <1>1 DEF Still, Batch, Records, Fixed, ApprovalInv, Decided, WaitingIsAnswerable,
        UnknownOutcomeIsReconciled, AwaitedIsNext, ResultsInCallOrder
<1>3. Relies(pc, c, s)'
    BY <1>1 DEF Still, Fixed, Relies, Passed, Decided, Reconciles, CommitsNext
<1>4. HolderRelies'
    BY <1>3 DEF HolderRelies, Comes
<1> QED
    BY <1>2, <1>4 DEF Batch

\* The results are the first calls; the others are pending.
LEMMA PendingIsRest ==
    ASSUME StoreTypes, ResultsInCallOrder
    PROVE  /\ Len(results) \in 0 .. N
           /\ Pending = {d \in Calls : d > Len(results)}
<1>1. results \in Seq(Calls) /\ Len(results) \in Nat /\ DOMAIN results = 1 .. Len(results)
    BY DEF StoreTypes
<1>2. N \in Nat \ {0} /\ Calls = 1 .. N
    BY Sizes DEF StoreTypes, Calls
<1>3. \A i \in 1 .. Len(results) : results[i] = i
    BY <1>1 DEF ResultsInCallOrder
<1>4. Len(results) <= N
  <2>1. CASE Len(results) = 0
      BY <1>2, <2>1
  <2>2. CASE Len(results) # 0
    <3>1. Len(results) \in 1 .. Len(results)
        BY <1>1, <2>2
    <3>2. results[Len(results)] \in Calls
        BY <1>1, <3>1
    <3> QED
        BY <1>2, <1>3, <3>1, <3>2
  <2> QED
      BY <2>1, <2>2
<1>5. {results[i] : i \in DOMAIN results} = 1 .. Len(results)
    BY <1>1, <1>3
<1> QED
    BY <1>1, <1>2, <1>4, <1>5 DEF Pending

LEMMA StepTypes ==
    ASSUME Control, NEW w \in Workers, workerStep(w), batch' = batch
    PROVE  wk' \in [Workers -> Memories]
BY WorkerSteps, TypesSplit, FixedBatch DEF Control, Fixed

\* Steps of the holder that leave the records alone and take it somewhere else.
LEMMA HolderMoves ==
    ASSUME Control, Batch, NEW w \in Workers,
        \/ resumePendingTools(w) \/ batchResolved(w) \/ beginToolExecution(w)
        \/ recoverSuperseded(w) \/ cancelPreparedApprovedTool(w)
        \/ beginToolReconciliation(w) \/ callPrepared(w)
        \/ \E status \in Resolutions : askToolRuntime(w, status)
    PROVE  Batch'
<1> USE Begin DEF Still
<1>. PICK c \in 0 .. N, s \in Steps \cup {NoStep} : c = wk[w].call /\ s = wk[w].att
    OBVIOUS
<1>0. /\ N \in Nat /\ Calls \subseteq Nat /\ Calls = 1 .. N
      /\ item = w => Relies(wk[w].pc, c, s)
    BY Sizes DEF StoreTypes, Batch, HolderRelies, Calls
<1>1. CASE resumePendingTools(w)
  <2>. PICK m \in Pending : m = Min(Pending) /\ \A d \in Pending : m <= d
      BY <1>0, <1>1, MinIn DEF resumePendingTools
  <2>1. Moved(w, "prepare", m, s)
      BY <1>1, GotoCallMoved DEF resumePendingTools, Locations
  <2>2. Relies("prepare", m, s)
      BY <1>0 DEF Relies, Passed, Reconciles, CommitsNext
  <2>3. item = w /\ item' = w /\ Still
      BY <1>1 DEF resumePendingTools, Holding, localStep, store, env
  <2> QED
      BY <2>1, <2>2, <2>3, HolderBatch DEF Moved
<1>2. CASE batchResolved(w)
  <2>1. wk[w].pc = "resolve" /\ item = w /\ item' = w /\ Still
      BY <1>2 DEF batchResolved, Holding, At, localStep, store, env
  <2>. PICK m \in Pending : m = Min(Pending) /\ \A d \in Pending : m <= d
      BY <1>0, <2>1, MinIn DEF HolderAt, Held
  <2>2. Moved(w, "commit", m, s)
      BY <1>2, GotoCallMoved DEF batchResolved, Locations
  <2>3. m = Len(results) + 1
    <3>1. /\ Len(results) \in 0 .. N
          /\ Pending = {d \in Calls : d > Len(results)}
        BY PendingIsRest DEF Batch, Records
    <3>2. Len(results) + 1 \in Pending
        BY <1>0, <2>1, <3>1 DEF HolderAt, Held
    <3>3. m \in Nat /\ Len(results) \in Nat /\ m > Len(results)
        BY <1>0, <3>1
    <3>4. m <= Len(results) + 1
        BY <3>2
    <3> QED
        BY <3>3, <3>4
  <2>4. Relies("commit", m, s)
      BY <1>0, <2>1, <2>3 DEF Relies, Passed, Reconciles, CommitsNext
  <2> QED
      BY <2>1, <2>2, <2>4, HolderBatch DEF Moved
<1>3. CASE beginToolExecution(w)
  <2>1. wk[w].pc = "prepare" /\ item = w /\ item' = w /\ Still
      BY <1>3 DEF beginToolExecution, Holding, At, attemptStep, env
  <2>2. PICK pc \in {"approve", "prepareReceipt"} : Moved(w, pc, c, s)
      BY <1>3, GotoMoved DEF beginToolExecution, Locations
  <2>3. Relies(pc, c, s)
      BY <1>0, <2>1 DEF Relies, Passed, Reconciles, CommitsNext
  <2> QED
      BY <2>1, <2>2, <2>3, HolderBatch DEF Moved
<1>4. CASE recoverSuperseded(w)
  <2>1. wk[w].pc = "superseded" /\ item = w /\ item' = w /\ Still
      BY <1>4 DEF recoverSuperseded, Holding, At, attemptStep, env
  <2>2. Moved(w, "cancelReceipt", c, s)
      BY <1>4, GotoMoved DEF recoverSuperseded, Locations
  <2>3. Relies("cancelReceipt", c, s)
      BY <1>0, <2>1 DEF Relies, Passed, Reconciles, CommitsNext
  <2> QED
      BY <2>1, <2>2, <2>3, HolderBatch DEF Moved
<1>5. CASE cancelPreparedApprovedTool(w)
  <2>1. item = w /\ item' = w /\ Still
      BY <1>5 DEF cancelPreparedApprovedTool, Holding, attemptStep, env
  <2>2. PreparedApproved \subseteq Calls /\ PreparedApproved # {}
      BY <1>5 DEF cancelPreparedApprovedTool, NeedsPreparedCancel, PreparedApproved
  <2>. PICK d \in PreparedApproved : d = Min(PreparedApproved)
      BY <1>0, <2>2, MinIn
  <2>3. Moved(w, "cancelPrepared", c, d)
      BY <1>5, <2>2, GotoWithMoved DEF cancelPreparedApprovedTool, Locations
  <2>4. Decided(d)
      BY DEF PreparedApproved, Decided
  <2>5. Relies("cancelPrepared", c, d)
      BY <2>4 DEF Relies, Passed, Reconciles, CommitsNext
  <2> QED
      BY <2>1, <2>3, <2>5, HolderBatch DEF Moved
<1>6. CASE beginToolReconciliation(w)
  <2>. PICK d \in Calls : d = run.reconciliationReceiptId
      BY <1>6 DEF beginToolReconciliation, RunInv, Holding, At, HolderAt, Held, ReconcilingAt
  <2>1. item = w /\ item' = w /\ Still
      BY <1>6 DEF beginToolReconciliation, Holding, attemptStep, env
  <2>2. PICK pc \in {"ask", "reconciled"} : wk'[w].pc = pc
      BY <1>6 DEF beginToolReconciliation, Memories
  <2>3. /\ wk'[w].call = d
        /\ \A v \in Workers \ {w} : wk'[v] = wk[v]
      BY <1>6 DEF beginToolReconciliation, Memories
  <2>. PICK a : a = wk'[w].att
      OBVIOUS
  <2>4. Relies(pc, d, a)
      BY DEF Relies, Passed, Reconciles, CommitsNext
  <2>5. wk' \in [Workers -> Memories]
      BY <1>6, <2>1, StepTypes DEF workerStep
  <2> QED
      BY <2>1, <2>2, <2>3, <2>4, <2>5, HolderBatch DEF Comes
<1>7. CASE callPrepared(w)
  <2>1. /\ wk[w].pc = "approve" /\ item = w /\ item' = w /\ Still /\ mayProceed(c)
        /\ c \in Pending
      BY <1>7 DEF callPrepared, Holding, At, store, env, HolderAt, Held, BatchAt
  <2>2. \A d \in Pending \cap NeedsApproval : d <= c => approvals[d] = "approved"
      BY <1>0, <2>1 DEF mayProceed, Relies, Passed
  <2>3. PICK pc \in {"prepare", "resolve"}, next \in Calls :
          /\ \/ AcknowledgeThen(w, c, receipts[c], pc, next)
             \/ GotoCall(w, pc, next)
          /\ pc = "prepare" => \A d \in Pending : d < next => d <= c
          /\ pc = "resolve" => \A d \in Pending : d <= c
    <3>1. CASE PendingAfter(c) # {}
      <4>1. PendingAfter(c) \subseteq Nat /\ PendingAfter(c) \subseteq Calls
          BY <1>0 DEF PendingAfter
      <4>2. PICK m \in PendingAfter(c) :
              m = Min(PendingAfter(c)) /\ \A d \in PendingAfter(c) : m <= d
          BY <3>1, <4>1, MinIn
      <4>3. ASSUME NEW d \in Pending, d < m
            PROVE  d <= c
        <5>1. d \in Nat /\ m \in Nat /\ c \in Nat
            BY <1>0, <2>1, <4>1
        <5>2. d > c => d \in PendingAfter(c)
            BY DEF PendingAfter
        <5> QED
            BY <4>2, <4>3, <5>1, <5>2
      <4> QED
          BY <1>7, <3>1, <4>1, <4>2, <4>3 DEF callPrepared
    <3>2. CASE PendingAfter(c) = {}
      <4>1. \A d \in Pending : d <= c
          BY <1>0, <3>2 DEF PendingAfter
      <4> QED
          BY <1>7, <2>1, <3>2, <4>1 DEF callPrepared
    <3> QED
        BY <3>1, <3>2
  <2>4. Moved(w, pc, next, s) \/ Moved(w, "error", c, s)
      BY <2>3, GotoCallMoved, GotoMoved DEF AcknowledgeThen, Locations
  <2>5. Relies(pc, next, s)
      BY <2>2, <2>3 DEF Relies, Passed, Reconciles, CommitsNext
  <2>6. Relies("error", c, s)
      BY DEF Relies, Passed, Reconciles, CommitsNext
  <2> QED
      BY <2>1, <2>4, <2>5, <2>6, HolderBatch DEF Moved
<1>8. CASE \E status \in Resolutions : askToolRuntime(w, status)
  <2>1. PICK status \in Resolutions : askToolRuntime(w, status)
      BY <1>8
  <2>2. /\ wk[w].pc = "ask" /\ item' = item /\ Still
        /\ wk' = [wk EXCEPT ![w].pc = "reconciled", ![w].res[c] = status]
      BY <2>1 DEF askToolRuntime, At, store, env
  <2>3. /\ wk'[w].pc = "reconciled" /\ wk'[w].call = c /\ wk'[w].att = s
        /\ \A v \in Workers \ {w} : wk'[v] = wk[v]
      BY <2>2 DEF Memories
  <2>4. CASE item = w
    <3>1. Relies("reconciled", c, s)
        BY <1>0, <2>2, <2>4 DEF Relies, Passed, Reconciles, CommitsNext
    <3>2. wk' \in [Workers -> Memories]
        BY <2>1, <2>2, StepTypes DEF workerStep
    <3> QED
        BY <2>2, <2>3, <2>4, <3>1, <3>2, HolderBatch DEF Comes
  <2>5. CASE item # w
      BY <2>2, <2>3, <2>5, StillKeepsBatch DEF Plain
  <2> QED
      BY <2>4, <2>5
<1> QED
    BY <1>1, <1>2, <1>3, <1>4, <1>5, <1>6, <1>7, <1>8

LEMMA HolderReliance ==
    ASSUME NEW w \in Workers, item' = w, NEW pc, NEW c, NEW s, Comes(w, pc, c, s),
           Relies(pc, c, s)'
    PROVE  HolderRelies'
BY DEF HolderRelies, Comes

\* Someone who may writes a receipt while the run stays as it is.
LEMMA ReceiptRecords ==
    ASSUME Control, Batch, NEW c \in Calls, NEW r \in ReceiptStatuses \ {"unknownOutcome"},
           receipts' = [receipts EXCEPT ![c] = r],
           UNCHANGED <<run, approvals, results, requested, batch>>,
           c \in NeedsApproval =>
               /\ r \in {"dispatched", "completed"} => approvals[c] = "approved"
               /\ r = "canceled" => Decided(c),
           receipts[c] = "completed" => r = "completed",
           run.status = "waitingApproval" => receipts[c] # "prepared"
    PROVE  Records'
<1>1. Fixed
    BY FixedBatch
<1>2. StoreTypes /\ NeedsApproval \subseteq Calls /\ RunInv
    BY TypesSplit, Sizes DEF Control, StoreTypes
<1>3. receipts'[c] = r /\ \A d \in Calls : d # c => receipts'[d] = receipts[d]
    BY <1>2 DEF StoreTypes
<1>4. ApprovalInv'
    BY <1>1, <1>2, <1>3 DEF Fixed, Batch, Records, ApprovalInv, Decided
<1>5. WaitingIsAnswerable'
    BY <1>1, <1>2, <1>3 DEF Fixed, Batch, Records, WaitingIsAnswerable, RunInv
<1>6. UnknownOutcomeIsReconciled' /\ AwaitedIsNext'
    BY <1>1, <1>3 DEF Fixed, Batch, Records, UnknownOutcomeIsReconciled, AwaitedIsNext
<1>7. ResultsInCallOrder'
  <2>1. \A i \in DOMAIN results : results[i] \in Calls
      BY <1>2 DEF StoreTypes
  <2> QED
      BY <1>1, <1>3, <2>1 DEF Fixed, Batch, Records, ResultsInCallOrder
<1> QED
    BY <1>4, <1>5, <1>6, <1>7 DEF Records

LEMMA ReceiptBatch ==
    ASSUME Control, Evidence, Batch, NEW w \in Workers,
        \/ prepareToolExecution(w) \/ \E c \in Calls : dispatchToolExecution(w, c)
        \/ commitCanceled(w) \/ reconciledCanceled(w)
        \/ reconciledAfterCancellation(w) \/ cancelSuperseded(w)
        \/ drainResult(w) \/ cancelPreparedReceipt(w)
    PROVE  Batch'
<1> USE Begin DEF ReceiptStatuses, Batch
<1>. PICK c \in 0 .. N, s \in Steps \cup {NoStep} : c = wk[w].call /\ s = wk[w].att
    OBVIOUS
<1>0. /\ batch' = batch /\ item = w /\ item' = w /\ Fixed
      /\ UNCHANGED <<run, approvals, results, requested>> /\ Pending' = Pending
  <2>1. batch' = batch /\ item = w /\ item' = w
        /\ UNCHANGED <<run, approvals, results, requested>>
      BY DEF prepareToolExecution, dispatchToolExecution, commitCanceled,
          reconciledCanceled, reconciledAfterCancellation, cancelSuperseded, drainResult,
          cancelPreparedReceipt, Holding, receiptStep, env
  <2> QED
      BY <2>1, FixedBatch DEF Fixed, Pending
<1>1. /\ HolderAt(w) /\ Relies(wk[w].pc, c, s) /\ ApprovalInv
      /\ wk[w].pc \in CallAt => c \in Calls
      /\ wk[w].pc = "cancelPrepared" => s \in Calls
    BY <1>0 DEF HolderRelies, PlaceAt, Placed, Records
<1>2. CASE prepareToolExecution(w)
  <2>1. wk[w].pc = "prepareReceipt" /\ c \in Calls
      BY <1>1, <1>2 DEF prepareToolExecution, Holding, At, CallAt
  <2>2. run.status = "running" /\ receipts[c] = "none"
      BY <1>1, <2>1 DEF HolderAt, Held, RunningAt, BatchAt
  <2>3. Records'
      BY <1>0, <1>2, <2>1, <2>2, ReceiptRecords DEF prepareToolExecution
  <2>4. Moved(w, "approve", c, s)
      BY <1>2, GotoMoved DEF prepareToolExecution, Locations
  <2>5. Relies("approve", c, s)'
      BY <1>0, <1>1, <2>1 DEF Relies, Passed, Reconciles, CommitsNext, Fixed
  <2> QED
      BY <1>0, <2>3, <2>4, <2>5, HolderReliance DEF Moved
<1>3. CASE \E d \in Calls : dispatchToolExecution(w, d)
  <2>1. PICK d \in Calls : dispatchToolExecution(w, d)
      BY <1>3
  <2>2. wk[w].pc = "resolve" /\ d \in Pending
      BY <2>1 DEF dispatchToolExecution, Turn, At
  <2>3. run.status = "running" /\ receipts[d] = "prepared"
      BY <1>1, <2>1, <2>2 DEF HolderAt, Held, RunningAt, BatchAt, dispatchToolExecution,
          shouldExecute
  <2>4. d \in NeedsApproval => approvals[d] = "approved"
      BY <1>1, <2>2 DEF Relies, Passed
  <2>5. Records'
      BY <1>0, <2>1, <2>3, <2>4, ReceiptRecords DEF dispatchToolExecution
  <2>6. Learned(w, "resolve", c, s, d, "dispatched")
      BY <2>1, <2>2, ResolveLearned DEF dispatchToolExecution, CallResults
  <2>7. Relies("resolve", c, s)'
      BY <1>0, <1>1, <2>2 DEF Relies, Passed, Reconciles, CommitsNext, Fixed
  <2> QED
      BY <1>0, <2>5, <2>6, <2>7, HolderReliance DEF Learned
<1>4. CASE commitCanceled(w)
  <2>1. wk[w].pc = "commit" /\ c \in Calls /\ c \in Pending
      BY <1>1, <1>4 DEF commitCanceled, Holding, At, CallAt, HolderAt, Held, BatchAt
  <2>2. run.status = "running"
      BY <1>1, <2>1 DEF HolderAt, Held, RunningAt, BatchAt
  <2>3. c \in NeedsApproval => Decided(c)
      BY <1>1, <2>1 DEF Relies, Passed, Decided
  <2>4. Records'
      BY <1>0, <1>4, <2>1, <2>2, <2>3, ReceiptRecords DEF commitCanceled, cancelReceiptOf, resolve
  <2>5. wk'[w].pc \in {"toolCanceled", "error"}
      BY <1>4 DEF commitCanceled, cancelReceiptOf, AcknowledgeThen, Goto, GotoCall, Memories
  <2>6. \A v \in Workers : item' = v => wk'[v].pc \in PlainAt
      BY <1>0, <2>5 DEF PlainAt, PassAt, AskAt, Locations
  <2> QED
      BY <2>4, <2>6, NothingToRelyOn
<1>5. ASSUME c \in Calls, NEW r \in {"completed", "canceled"}, resolve(c, r),
             AcknowledgeThen(w, c, r, "resume", c), Records'
      PROVE  Batch'
  <2>1. Moved(w, "resume", c, s) \/ Moved(w, "error", c, s)
      BY <1>5, GotoMoved, GotoCallMoved DEF AcknowledgeThen, Locations
  <2>2. receipts'[c] # "unknownOutcome"
      BY <1>5 DEF resolve, StoreTypes
  <2>3. Relies("resume", c, s)' /\ Relies("error", c, s)'
      BY <2>2 DEF Relies, Passed, Reconciles, CommitsNext
  <2> QED
      BY <1>0, <1>5, <2>1, <2>3, HolderReliance DEF Moved
<1>6. ASSUME wk[w].pc = "reconciled"
      PROVE  /\ c \in Calls /\ run.status = "reconciling"
             /\ receipts[c] \in {"dispatched", "unknownOutcome", "completed", "canceled"}
  <2>1. run.status = "reconciling" /\ c = run.reconciliationReceiptId
      BY <1>1, <1>6 DEF HolderAt, Held, ReconcilingAt, Relies, Reconciles
  <2>2. c \in Calls /\ receipts[c] \notin Undispatched /\ receipts[c] \in ReceiptStatuses
      BY <2>1 DEF RunInv, StoreTypes
  <2> QED
      BY <2>1, <2>2 DEF Undispatched
<1>7. CASE reconciledCanceled(w)
  <2>1. /\ wk[w].pc = "reconciled" /\ resolve(c, "canceled") /\ receipts[c] # "completed"
        /\ AcknowledgeThen(w, c, "canceled", "resume", c)
      BY <1>7 DEF reconciledCanceled, Holding, At, cancelReceiptOf
  <2>2. c \in NeedsApproval => Decided(c)
      BY <1>1, <1>6, <2>1 DEF ApprovalInv, Decided
  <2>3. Records'
      BY <1>0, <1>6, <2>1, <2>2, ReceiptRecords DEF resolve
  <2> QED
      BY <1>5, <1>6, <2>1, <2>3
<1>8. CASE reconciledAfterCancellation(w)
  <2>1. /\ wk[w].pc = "reconciled" /\ resolve(c, "completed") /\ wk[w].res[c] = "completed"
        /\ AcknowledgeThen(w, c, "completed", "resume", c)
      BY <1>8 DEF reconciledAfterCancellation, Holding, At
  <2>2. receipts[c] # "canceled"
      BY <1>6, <2>1 DEF Evidence, MemoryInv, ReceiptsTellTheTruth
  <2>3. c \in NeedsApproval => approvals[c] = "approved"
      BY <1>1, <1>6, <2>1, <2>2 DEF ApprovalInv
  <2>4. Records'
      BY <1>0, <1>6, <2>1, <2>3, ReceiptRecords DEF resolve
  <2> QED
      BY <1>5, <1>6, <2>1, <2>4
<1>9. CASE cancelSuperseded(w)
  <2>1. wk[w].pc = "cancelReceipt" /\ c \in Calls /\ receipts[c] = "prepared"
      BY <1>1, <1>9 DEF cancelSuperseded, Holding, At, CallAt
  <2>2. run.status = "running" /\ Decided(c)
      BY <1>1, <2>1 DEF HolderAt, Held, RunningAt, Relies, Passed
  <2>3. Records'
      BY <1>0, <1>9, <2>1, <2>2, ReceiptRecords DEF cancelSuperseded, resolve
  <2>4. wk'[w].pc = "cancel"
      BY <1>9 DEF cancelSuperseded, GotoWith, Memories
  <2>5. \A v \in Workers : item' = v => wk'[v].pc \in PlainAt
      BY <1>0, <2>4 DEF PlainAt, PassAt, AskAt, Locations
  <2> QED
      BY <2>3, <2>5, NothingToRelyOn
<1>10. CASE drainResult(w)
  <2>. PICK d \in Drainable(w) : d = Min(Drainable(w)) /\ d \in Calls
      BY <1>10, MinIn, Sizes DEF drainResult, Drainable, StoreTypes
  <2>1. /\ wk[w].pc = "cancel" /\ wk' = wk /\ resolve(d, entry[w][d])
        /\ entry[w][d] \in {"completed", "canceled"} /\ isOpen(d)
      BY <1>10 DEF drainResult, Drainable, Holding, At
  <2>2. d \in NeedsApproval => approvals[d] = "approved"
      BY <1>1, <2>1 DEF ApprovalInv, isOpen
  <2>3. Records'
      BY <1>0, <2>1, <2>2, ReceiptRecords DEF resolve, isOpen, Decided
  <2>4. \A v \in Workers : item' = v => wk'[v].pc \in PlainAt
      BY <1>0, <2>1 DEF PlainAt, PassAt, AskAt, Locations
  <2> QED
      BY <2>3, <2>4, NothingToRelyOn
<1>11. CASE cancelPreparedReceipt(w)
  <2>1. wk[w].pc = "cancelPrepared" /\ s \in Calls
      BY <1>1, <1>11 DEF cancelPreparedReceipt, Holding, At
  <2>2. run.status = "running" /\ Decided(s) /\ receipts[s] = "prepared"
      BY <1>1, <2>1 DEF HolderAt, Held, RunningAt, Relies, Passed
  <2>3. Records'
      BY <1>0, <1>11, <2>1, <2>2, ReceiptRecords DEF cancelPreparedReceipt, resolve
  <2>4. wk'[w].pc = "confirm"
      BY <1>11 DEF cancelPreparedReceipt, Goto, Memories
  <2>5. \A v \in Workers : item' = v => wk'[v].pc \in PlainAt
      BY <1>0, <2>4 DEF PlainAt, PassAt, AskAt, Locations
  <2> QED
      BY <2>3, <2>5, NothingToRelyOn
<1> QED
    BY <1>2, <1>3, <1>4, <1>7, <1>8, <1>9, <1>10, <1>11

\* The run moves on or ends and its records stay.
LEMMA RunRecords ==
    ASSUME Control, Batch, UNCHANGED <<receipts, approvals, results, batch>>,
           ~isTerminal(run.status),
           run'.status \notin {"waitingApproval", "reconciling"},
           run.status = "reconciling" => \A c \in Calls : receipts[c] # "unknownOutcome",
           run.status = "waitingApproval" => run'.status = "canceled",
           run'.status = "completed" /\ requested' => Len(results) = N
    PROVE  Records'
<1>1. Fixed
    BY FixedBatch
<1>2. ApprovalInv'
    BY <1>1 DEF Fixed, Batch, Records, ApprovalInv, Decided
<1>3. WaitingIsAnswerable'
    BY <1>1 DEF Fixed, Batch, Records, WaitingIsAnswerable, isTerminal
<1>4. UnknownOutcomeIsReconciled' /\ AwaitedIsNext'
    BY <1>1 DEF Fixed, Batch, Records, UnknownOutcomeIsReconciled, AwaitedIsNext
<1>5. ResultsInCallOrder'
    BY <1>1 DEF Fixed, Batch, Records, ResultsInCallOrder
<1> QED
    BY <1>2, <1>3, <1>4, <1>5 DEF Records

\* The approval a run waits for is decided and the run goes on.
LEMMA DecidedRecords ==
    ASSUME Control, Batch, UNCHANGED <<receipts, results, requested, batch>>,
           run.status = "waitingApproval", Commit("run.resumed", NoRef),
           NEW status \in {"approved", "rejected", "expired", "superseded"},
           decide(run.waitingApproval, status)
    PROVE  /\ Records' /\ run'.status = "running"
           /\ approvals'[run.waitingApproval] = status
           /\ run.waitingApproval \in Calls
<1>1. Fixed /\ StoreTypes /\ RunInv /\ NeedsApproval \subseteq Calls
    BY FixedBatch, TypesSplit, Sizes DEF Control, StoreTypes
<1>. PICK c \in Calls : c = run.waitingApproval
    BY <1>1 DEF RunInv
<1>2. /\ approvals[c] = "required" /\ receipts[c] = "prepared"
      /\ \A d \in Calls : d # c => approvals[d] # "required"
    BY DEF Batch, Records, WaitingIsAnswerable
<1>3. run'.status = "running"
    BY <1>1, Reduced DEF StoreTypes, NoRef, RunState
<1>4. approvals'[c] = status /\ \A d \in Calls : d # c => approvals'[d] = approvals[d]
    BY <1>1 DEF StoreTypes, decide
<1>5. ApprovalInv'
    BY <1>1, <1>2, <1>4 DEF Fixed, Batch, Records, ApprovalInv, Decided
<1>6. WaitingIsAnswerable'
    BY <1>1, <1>2, <1>3, <1>4 DEF Fixed, WaitingIsAnswerable
<1>7. UnknownOutcomeIsReconciled' /\ AwaitedIsNext'
    BY <1>1, <1>3 DEF Fixed, Batch, Records, UnknownOutcomeIsReconciled, AwaitedIsNext
<1>8. ResultsInCallOrder'
    BY <1>1, <1>3 DEF Fixed, Batch, Records, ResultsInCallOrder
<1> QED
    BY <1>3, <1>4, <1>5, <1>6, <1>7, <1>8 DEF Records

LEMMA RunBatch ==
    ASSUME Control, Batch, NEW w \in Workers,
        \/ completeTextRun(w) \/ failRun(w) \/ permanentError(w) \/ confirmCanceled(w)
        \/ startRun(w) \/ commitToolSample(w) \/ resumeToolReconciliation(w)
        \/ supersedeToolApproval(w) \/ expireToolApproval(w) \/ requireToolApproval(w)
    PROVE  Batch'
<1> USE Begin DEF Batch
<1>. PICK c \in 0 .. N, s \in Steps \cup {NoStep} : c = wk[w].call /\ s = wk[w].att
    OBVIOUS
<1>0. /\ batch' = batch /\ item = w /\ Fixed
      /\ UNCHANGED <<results, receipts>> /\ Pending' = Pending
  <2>1. batch' = batch /\ item = w /\ UNCHANGED <<results, receipts>>
      BY DEF completeTextRun, failRun, permanentError, confirmCanceled, startRun,
          commitToolSample, resumeToolReconciliation, supersedeToolApproval,
          expireToolApproval, requireToolApproval, Holding, terminalStep, runStep, env
  <2> QED
      BY <2>1, FixedBatch DEF Fixed, Pending
<1>1. /\ HolderAt(w) /\ Relies(wk[w].pc, c, s)
      /\ wk[w].pc \in CallAt => c \in Calls
      /\ ~isTerminal(run.status) /\ run.status # "suspended"
    BY <1>0, RunGoesOn DEF HolderRelies, PlaceAt, Placed, isTerminal
<1>2. \A v \in Workers : item # "settled" /\ v # "settled" /\ v # "pending"
    BY <1>0, WorkerAssumption
<1>3. ASSUME NEW type \in {"run.completed", "run.failed", "run.canceled"}, NEW a,
             commitTerminal(w, type, a), terminalStep,
             type \in {"run.completed", "run.failed"} => run.status \in {"queued", "running"},
             type = "run.completed" => (requested => Pending = {})
      PROVE  Batch'
  <2>1. /\ run'.status \in {"completed", "failed", "canceled"}
        /\ type = "run.completed" <=> run'.status = "completed"
        /\ type = "run.canceled" <=> run'.status = "canceled"
        /\ run.status # "reconciling"
      BY <1>3, Reduced DEF commitTerminal, StoreTypes, RunState, NoRef
  <2>2. run'.status = "completed" /\ requested' => Len(results) = N
    <3>1. requested' = requested
        BY <1>3 DEF terminalStep
    <3>2. /\ Len(results) \in 0 .. N /\ Pending = {d \in Calls : d > Len(results)}
        BY PendingIsRest DEF Records
    <3>3. N \in Nat \ {0} /\ N \in Calls
        BY Sizes DEF StoreTypes, Calls
    <3> QED
        BY <1>3, <2>1, <3>1, <3>2, <3>3
  <2>3. Records'
      BY <1>0, <1>1, <1>3, <2>1, <2>2, RunRecords DEF terminalStep
  <2>4. \A v \in Workers : item' # v
      BY <1>2, <1>3 DEF commitTerminal
  <2> QED
      BY <2>3, <2>4, NothingToRelyOn
<1>4. CASE completeTextRun(w)
  <2>1. run.status = "running" /\ (requested => Pending = {})
      BY <1>1, <1>4 DEF completeTextRun, Holding, At, HolderAt, Held, RunningAt, batchDone
  <2> QED
      BY <1>3, <1>4, <2>1 DEF completeTextRun
<1>5. CASE failRun(w)
  <2>1. run.status \in {"queued", "running"}
      BY <1>1, <1>5 DEF failRun, Holding, At, HolderAt, Held, StartingAt
  <2> QED
      BY <1>3, <1>5, <2>1 DEF failRun
<1>6. CASE permanentError(w)
  <2>1. run.status = "running"
      BY <1>1, <1>6 DEF permanentError, Holding, At, HolderAt, Held, RunningAt
  <2>2. CASE commitTerminal(w, "run.failed", currentAttempt)
      BY <1>3, <1>6, <2>1, <2>2 DEF permanentError
  <2>3. CASE GotoWith(w, "cancel", NoStep) /\ UNCHANGED <<run, item, attempts>>
    <3>1. Still
        BY <1>0, <1>6, <2>3 DEF permanentError, Still, terminalStep
    <3>2. Plain
        BY <2>3, PlainMove DEF KeepsOrGives, PlainAt, PassAt, AskAt, Locations
    <3> QED
        BY <3>1, <3>2, StillKeepsBatch
  <2> QED
      BY <1>6, <2>2, <2>3 DEF permanentError
<1>7. CASE confirmCanceled(w)
  <2>1. PICK a : commitTerminal(w, "run.canceled", a) /\ terminalStep
      BY <1>7 DEF confirmCanceled
  <2> QED
      BY <1>3, <2>1
<1>8. CASE startRun(w)
  <2>1. run.status = "queued" /\ run'.status = "running"
      BY <1>8, Reduced DEF startRun, StoreTypes, NoRef, RunState
  <2>2. Records'
      BY <1>0, <1>1, <1>8, <2>1, RunRecords DEF startRun
  <2>3. \A v \in Workers : item' = v => wk'[v].pc \in PlainAt
      BY <1>0, <1>8 DEF startRun, Holding, At, PlainAt, PassAt, AskAt, Locations
  <2> QED
      BY <2>2, <2>3, NothingToRelyOn
<1>9. CASE commitToolSample(w)
  <2>1. run.status = "running" /\ run' = run /\ item' = w
      BY <1>0, <1>9, Reduced DEF commitToolSample, StoreTypes, NoRef, RunState
  <2>2. Records'
      BY <1>0, <1>1, <1>9, <2>1, RunRecords DEF commitToolSample
  <2>. PICK m \in Calls : m = Min(Calls) /\ \A d \in Calls : m <= d
      BY MinIn, Sizes DEF StoreTypes
  <2>3. Moved(w, "prepare", m, s)
      BY <1>9, GotoCallMoved DEF commitToolSample, Locations
  <2>4. Relies("prepare", m, s)'
    <3>1. Pending' \subseteq Calls /\ Calls \subseteq Nat
        BY <1>0, Sizes DEF StoreTypes
    <3>2. \A d \in Pending' : ~(d < m)
        BY <3>1
    <3> QED
        BY <3>2 DEF Relies, Passed, Reconciles, CommitsNext
  <2> QED
      BY <2>1, <2>2, <2>3, <2>4, HolderReliance DEF Moved
<1>10. CASE resumeToolReconciliation(w)
  <2>1. /\ run.status = "reconciling" /\ run.reconciliationReceiptId = c
        /\ receipts[c] # "unknownOutcome"
      BY <1>1, <1>10 DEF resumeToolReconciliation, Holding, At, HolderAt, Held, ReconcilingAt,
          Relies, Reconciles
  <2>2. run'.status = "running"
      BY <1>10, Reduced DEF resumeToolReconciliation, StoreTypes, NoRef, RunState
  <2>3. \A d \in Calls : receipts[d] # "unknownOutcome"
      BY <2>1 DEF Records, UnknownOutcomeIsReconciled
  <2>4. Records'
      BY <1>0, <1>1, <1>10, <2>1, <2>2, <2>3, RunRecords DEF resumeToolReconciliation, runStep
  <2>5. wk'[w].pc = "resumed" /\ item' = w
      BY <1>0, <1>10 DEF resumeToolReconciliation, runStep, Goto, Memories
  <2>6. \A v \in Workers : item' = v => wk'[v].pc \in PlainAt
      BY <2>5 DEF PlainAt, PassAt, AskAt, Locations
  <2> QED
      BY <2>4, <2>6, NothingToRelyOn
<1>11. CASE supersedeToolApproval(w)
  <2>. PICK d : d = run.waitingApproval
      OBVIOUS
  <2>1. run.status = "waitingApproval" /\ item' = w
      BY <1>0, <1>1, <1>11 DEF supersedeToolApproval, Holding, At, HolderAt, Held, WaitingAt
  <2>2. Records' /\ approvals'[d] = "superseded" /\ d \in Calls
      BY <1>0, <1>11, <2>1, DecidedRecords DEF supersedeToolApproval
  <2>3. Moved(w, "superseded", d, s)
      BY <1>11, <2>2, GotoCallMoved DEF supersedeToolApproval, Locations
  <2>4. Relies("superseded", d, s)'
      BY <2>2 DEF Relies, Passed, Reconciles, CommitsNext, Decided
  <2> QED
      BY <2>1, <2>2, <2>3, <2>4, HolderReliance DEF Moved
<1>12. CASE expireToolApproval(w)
  <2>1. run.status = "waitingApproval" /\ item' = w
      BY <1>0, <1>1, <1>12 DEF expireToolApproval, Holding, At, HolderAt, Held, WaitingAt
  <2>2. Records'
      BY <1>0, <1>12, <2>1, DecidedRecords DEF expireToolApproval
  <2>3. wk'[w].pc = "continue"
      BY <1>12 DEF expireToolApproval, Goto, Memories
  <2>4. \A v \in Workers : item' = v => wk'[v].pc \in PlainAt
      BY <2>1, <2>3 DEF PlainAt, PassAt, AskAt, Locations
  <2> QED
      BY <2>2, <2>4, NothingToRelyOn
<1>13. CASE requireToolApproval(w)
  <2>1. /\ wk[w].pc = "approve" /\ c \in NeedsApproval /\ c \in Calls /\ approvals[c] = "none"
        /\ approvals' = [approvals EXCEPT ![c] = "required"]
        /\ requested' = requested
      BY <1>1, <1>13 DEF requireToolApproval, Holding, At, CallAt
  <2>2. receipts[c] = "prepared"
    <3>1. receipts[c] # "none" /\ receipts[c] \in ReceiptStatuses
        BY <1>1, <2>1 DEF HolderAt, Held, StoreTypes
    <3> QED
        BY <2>1, <3>1 DEF Records, ApprovalInv, Decided, ReceiptStatuses
  <2>3. /\ run.status = "running"
        /\ run' = [run EXCEPT !.status = "waitingApproval", !.waitingApproval = c]
    <3>1. c \in Nat
        BY Sizes DEF StoreTypes
    <3> QED
        BY <1>13, <3>1, Reduced DEF requireToolApproval, StoreTypes
  <2>4. run'.status = "waitingApproval" /\ run'.waitingApproval = c
      BY <2>3 DEF StoreTypes, RunState
  <2>5. approvals'[c] = "required" /\ \A d \in Calls : d # c => approvals'[d] = approvals[d]
      BY <2>1 DEF StoreTypes
  <2>6. ApprovalInv'
    <3>1. NeedsApproval \subseteq Calls
        BY Sizes DEF StoreTypes
    <3> QED
        BY <1>0, <2>2, <2>5, <3>1 DEF Fixed, Records, ApprovalInv, Decided
  <2>7. WaitingIsAnswerable'
      BY <1>0, <2>2, <2>3, <2>4, <2>5 DEF Fixed, Records, WaitingIsAnswerable
  <2>8. UnknownOutcomeIsReconciled' /\ AwaitedIsNext' /\ ResultsInCallOrder'
      BY <1>0, <2>1, <2>3, <2>4 DEF Fixed, Records, UnknownOutcomeIsReconciled, AwaitedIsNext,
          ResultsInCallOrder
  <2>9. \A v \in Workers : item' # v
      BY <1>2, <1>13 DEF requireToolApproval, Release
  <2> QED
      BY <2>6, <2>7, <2>8, <2>9, NothingToRelyOn DEF Records
<1> QED
    BY <1>4, <1>5, <1>6, <1>7, <1>8, <1>9, <1>10, <1>11, <1>12, <1>13

\* An outcome nobody knows is recorded with the run that reconciles it.
LEMMA UnknownBatch ==
    ASSUME Control, Batch, NEW w \in Workers, commitToolExecutionUnknownOutcome(w)
    PROVE  Batch'
<1> USE Begin DEF Batch
<1>. PICK c \in 0 .. N, s \in Steps \cup {NoStep} : c = wk[w].call /\ s = wk[w].att
    OBVIOUS
<1>1. /\ item = w /\ item' = "pending" /\ batch' = batch /\ Fixed /\ isOpen(c)
      /\ UNCHANGED <<results, approvals, requested>>
      /\ receipts' = [receipts EXCEPT ![c] = "unknownOutcome"]
      /\ Commit("run.reconciliation.required", c)
    BY FixedBatch DEF commitToolExecutionUnknownOutcome, Holding, Release, env
<1>2. c \in Calls /\ c \in Nat /\ NeedsApproval \subseteq Calls
    BY <1>1, Sizes DEF commitToolExecutionUnknownOutcome, PlaceAt, Placed, Holding, At, CallAt,
        StoreTypes
<1>3. /\ run.status = "running" /\ run'.status = "reconciling"
      /\ run'.reconciliationReceiptId = c /\ run'.cancelRequested = run.cancelRequested
  <2>1. /\ run.status = "running"
        /\ run' = [run EXCEPT !.status = "reconciling", !.reconciliationReceiptId = c]
      BY <1>1, <1>2, Reduced DEF StoreTypes
  <2> QED
      BY <2>1 DEF StoreTypes, RunState
<1>4. receipts'[c] = "unknownOutcome" /\ \A d \in Calls : d # c => receipts'[d] = receipts[d]
    BY <1>1, <1>2 DEF StoreTypes
<1>5. ApprovalInv'
    BY <1>1, <1>2, <1>4 DEF Fixed, Records, ApprovalInv, Decided, isOpen
<1>6. WaitingIsAnswerable'
    BY <1>1, <1>3 DEF Fixed, Records, WaitingIsAnswerable
<1>7. UnknownOutcomeIsReconciled'
    BY <1>1, <1>3, <1>4 DEF Fixed, Records, UnknownOutcomeIsReconciled
<1>8. AwaitedIsNext'
  <2>1. run.cancelRequested \/ wk[w].pc = "commit"
      BY <1>1 DEF commitToolExecutionUnknownOutcome, Holding, At, HolderAt, Held, CancelingAt
  <2>2. wk[w].pc = "commit" => c = Len(results) + 1
      BY <1>1 DEF HolderRelies, Relies, CommitsNext
  <2> QED
      BY <1>1, <1>3, <2>1, <2>2 DEF AwaitedIsNext
<1>9. ResultsInCallOrder'
  <2>1. \A i \in DOMAIN results : results[i] \in Calls
      BY DEF StoreTypes
  <2> QED
      BY <1>1, <1>3, <1>4, <2>1 DEF Fixed, Records, ResultsInCallOrder, isOpen
<1>10. \A v \in Workers : item' # v
    BY <1>1, WorkerAssumption
<1> QED
    BY <1>5, <1>6, <1>7, <1>8, <1>9, <1>10, NothingToRelyOn DEF Records

\* A result enters the history: it is that of the first pending call.
LEMMA CompletionRecords ==
    ASSUME Control, Batch, NEW c \in Calls, c = Len(results) + 1,
           commitToolExecutionCompletion(c), UNCHANGED <<requested, approvals, batch>>
    PROVE  /\ Records' /\ Len(results') = Len(results) + 1
           /\ Pending = {d \in Calls : d > Len(results)}
           /\ Pending' = {d \in Calls : d > Len(results) + 1}
<1>1. Fixed /\ StoreTypes /\ RunInv /\ NeedsApproval \subseteq Calls /\ Calls \subseteq Nat
      /\ Records
    BY FixedBatch, TypesSplit, Sizes DEF Control, StoreTypes, Batch
<1>2. /\ Len(results) \in 0 .. N
      /\ Pending = {d \in Calls : d > Len(results)}
    BY <1>1, PendingIsRest DEF Records
<1>3. /\ results' = Append(results, c) /\ isOpen(c)
      /\ receipts' = [receipts EXCEPT ![c] = "completed"]
      /\ run.status \in {"running", "reconciling"}
    BY DEF commitToolExecutionCompletion, resolve
<1>4. /\ results' \in Seq(Calls) /\ Len(results') = Len(results) + 1
      /\ results'[Len(results) + 1] = c
      /\ \A i \in DOMAIN results : results'[i] = results[i]
      /\ DOMAIN results' = DOMAIN results \cup {Len(results) + 1}
      /\ Pending' = Pending \ {c}
    BY <1>1, <1>3, OneFewerPending
<1>5. run'.status = "running"
    BY <1>1 DEF commitToolExecutionCompletion, reduceRunLifecycleEvent, StoreTypes, RunState
<1>6. receipts'[c] = "completed" /\ \A d \in Calls : d # c => receipts'[d] = receipts[d]
    BY <1>1, <1>3 DEF StoreTypes
<1>7. ApprovalInv'
    BY <1>1, <1>3, <1>6 DEF Fixed, Records, ApprovalInv, Decided, isOpen
<1>8. WaitingIsAnswerable' /\ AwaitedIsNext'
    BY <1>1, <1>3, <1>5 DEF Fixed, Records, WaitingIsAnswerable, AwaitedIsNext
<1>9. UnknownOutcomeIsReconciled'
  <2>1. ASSUME NEW d \in Calls, d # c
        PROVE  receipts[d] # "unknownOutcome"
    <3>1. CASE run.status = "running"
        BY <1>1, <3>1 DEF Records, UnknownOutcomeIsReconciled
    <3>2. CASE run.status = "reconciling"
      <4>1. run.reconciliationReceiptId = c
          BY <1>1, <3>2 DEF Records, AwaitedIsNext, commitToolExecutionCompletion
      <4> QED
          BY <1>1, <2>1, <4>1 DEF Records, UnknownOutcomeIsReconciled
    <3> QED
        BY <1>3, <3>1, <3>2
  <2> QED
      BY <1>1, <1>6, <2>1 DEF Fixed, UnknownOutcomeIsReconciled
<1>10. ResultsInCallOrder'
  <2>1. /\ results = [i \in 1 .. Len(results) |-> i]
        /\ DOMAIN results = 1 .. Len(results)
        /\ \A i \in DOMAIN results : results[i] \in Calls /\ receipts[results[i]] = "completed"
      BY <1>1 DEF Records, ResultsInCallOrder, StoreTypes
  <2>2. \A i \in DOMAIN results' : results'[i] = i
      BY <1>4, <2>1
  <2>3. results' = [i \in 1 .. Len(results') |-> i]
      BY <1>4, <2>2
  <2>4. \A i \in DOMAIN results' : receipts'[results'[i]] = "completed"
      BY <1>4, <1>6, <2>1
  <2> QED
      BY <1>5, <2>3, <2>4 DEF ResultsInCallOrder
<1>11. Pending' = {d \in Calls : d > Len(results) + 1}
  <2>1. Len(results) \in Nat
      BY <1>1 DEF StoreTypes
  <2>2. \A d \in Nat : d > Len(results) /\ d # c <=> d > Len(results) + 1
      BY <2>1
  <2>3. Calls' = Calls
      BY <1>1 DEF Fixed
  <2> QED
      BY <1>1, <1>2, <1>4, <2>2, <2>3
<1> QED
    BY <1>2, <1>4, <1>7, <1>8, <1>9, <1>10, <1>11 DEF Records

LEMMA CompletionBatch ==
    ASSUME Control, Batch, NEW w \in Workers, commitCompleted(w) \/ reconciledCompleted(w)
    PROVE  Batch'
<1> USE Begin DEF Batch
<1>. PICK c \in 0 .. N, s \in Steps \cup {NoStep} : c = wk[w].call /\ s = wk[w].att
    OBVIOUS
<1>1. /\ item = w /\ item' = w /\ batch' = batch /\ Fixed
      /\ UNCHANGED <<requested, approvals>> /\ commitToolExecutionCompletion(c)
    BY FixedBatch DEF commitCompleted, reconciledCompleted, Holding, env
<1>2. /\ c \in Calls /\ Relies(wk[w].pc, c, s) /\ HolderAt(w)
    BY <1>1 DEF commitCompleted, reconciledCompleted, PlaceAt, Placed, Holding, At, CallAt,
        HolderRelies
<1>3. c = Len(results) + 1
  <2>1. CASE wk[w].pc = "commit"
      BY <1>2, <2>1 DEF Relies, CommitsNext
  <2>2. CASE wk[w].pc = "reconciled"
    <3>1. run.status = "reconciling" /\ c = run.reconciliationReceiptId /\ ~run.cancelRequested
        BY <1>1, <1>2, <2>2
        DEF HolderAt, Held, ReconcilingAt, Relies, Reconciles, commitToolExecutionCompletion
    <3> QED
        BY <3>1 DEF Records, AwaitedIsNext
  <2> QED
      BY <2>1, <2>2 DEF commitCompleted, reconciledCompleted, Holding, At
<1>4. /\ Records' /\ Len(results') = Len(results) + 1
      /\ Pending = {d \in Calls : d > Len(results)}
      /\ Pending' = {d \in Calls : d > Len(results) + 1}
    BY <1>1, <1>2, <1>3, CompletionRecords
<1>5. Len(results) \in Nat /\ Calls \subseteq Nat /\ NeedsApproval \subseteq Calls
    BY Sizes DEF StoreTypes
<1>6. ASSUME NEW pc \in {"commit", "continue"}, NEW next \in Calls,
             AcknowledgeThen(w, c, "completed", pc, next),
             pc = "commit" => wk[w].pc = "commit" /\ next = Len(results) + 2
      PROVE  Batch'
  <2>1. pc \in Locations /\ next \in 0 .. N
      BY DEF Locations
  <2>2. Moved(w, pc, next, s) \/ Moved(w, "error", c, s)
      BY <1>2, <1>6, <2>1, AcknowledgeMoved
  <2>3. Relies(pc, next, s)'
    <3>1. pc = "commit" => \A d \in Pending \cap NeedsApproval : approvals[d] = "approved"
        BY <1>2, <1>6 DEF Relies, Passed
    <3>2. Pending' \subseteq Pending
      <4>1. \A d \in Nat : d > Len(results) + 1 => d > Len(results)
          BY <1>5
      <4> QED
          BY <1>4, <1>5, <4>1
    <3>3. pc = "commit" =>
             /\ \A d \in Pending' \cap NeedsApproval' : approvals'[d] = "approved"
             /\ next = Len(results') + 1
        BY <1>1, <1>4, <1>5, <1>6, <3>1, <3>2 DEF Fixed
    <3> QED
        BY <3>3 DEF Relies, Passed, Reconciles, CommitsNext
  <2>4. Relies("error", c, s)'
      BY DEF Relies, Passed, Reconciles, CommitsNext
  <2>5. HolderRelies'
      BY <1>1, <2>2, <2>3, <2>4, HolderReliance DEF Moved
  <2> QED
      BY <1>4, <2>5
<1>7. CASE commitCompleted(w)
  <2>1. CASE PendingAfter(c) # {}
    <3>1. PendingAfter(c) = {d \in Calls : d > c} /\ PendingAfter(c) \subseteq Nat
      <4>1. \A d \in Nat : d > c => d > Len(results)
          BY <1>3, <1>5
      <4> QED
          BY <1>4, <1>5, <4>1 DEF PendingAfter
    <3>. PICK m \in Calls : m = Min(PendingAfter(c)) /\ m > c
                            /\ \A d \in PendingAfter(c) : m <= d
        BY <2>1, <3>1, MinIn
    <3>2. c \in Nat /\ m \in 1 .. N /\ N \in Nat
        BY <1>2, <1>5, Sizes DEF Calls, StoreTypes
    <3>3. c + 1 \in Calls
        BY <3>2 DEF Calls
    <3>4. m <= c + 1
      <4>1. c + 1 > c
          BY <3>2
      <4> QED
          BY <3>1, <3>3, <4>1
    <3>5. m = c + 1
        BY <3>2, <3>4
    <3>6. AcknowledgeThen(w, c, "completed", "commit", m) /\ wk[w].pc = "commit"
        BY <1>7, <2>1 DEF commitCompleted, Holding, At
    <3> QED
        BY <1>3, <1>5, <1>6, <3>5, <3>6
  <2>2. CASE PendingAfter(c) = {}
      BY <1>2, <1>6, <1>7, <2>2 DEF commitCompleted
  <2> QED
      BY <2>1, <2>2
<1>8. CASE reconciledCompleted(w)
    BY <1>2, <1>6, <1>8 DEF reconciledCompleted
<1> QED
    BY <1>7, <1>8

-----------------------------------------------------------------------------
(* People.                                                                 *)

LEMMA RequestBatch ==
    ASSUME Control, Batch, requestCancel
    PROVE  Batch'
<1>1. StoreTypes /\ Records /\ HolderRelies
    BY TypesSplit DEF Control, Batch
<1>2. /\ UNCHANGED <<item, requested, results, receipts, approvals, wk, batch>>
      /\ Fixed /\ Pending' = Pending
  <2>1. UNCHANGED <<item, requested, results, receipts, approvals, wk, batch>>
      BY DEF requestCancel, env
  <2> QED
      BY <2>1, FixedBatch DEF Fixed, Pending
<1>3. ~isTerminal(run.status) /\ run' = [run EXCEPT !.cancelRequested = TRUE]
    BY <1>1, Reduced DEF requestCancel, StoreTypes, NoRef
<1>4. /\ run'.status = run.status /\ run'.waitingApproval = run.waitingApproval
      /\ run'.cancelRequested /\ run'.reconciliationReceiptId = run.reconciliationReceiptId
    BY <1>1, <1>3 DEF StoreTypes, RunState
<1>5. ApprovalInv' /\ WaitingIsAnswerable'
    BY <1>1, <1>2, <1>4 DEF Fixed, Records, ApprovalInv, Decided, WaitingIsAnswerable
<1>6. UnknownOutcomeIsReconciled' /\ AwaitedIsNext' /\ ResultsInCallOrder'
    BY <1>1, <1>2, <1>4 DEF Fixed, Records, UnknownOutcomeIsReconciled, AwaitedIsNext,
        ResultsInCallOrder
<1>7. ASSUME NEW v \in Workers, item' = v
      PROVE  Relies(wk[v].pc, wk[v].call, wk[v].att)'
  <2>1. PICK pc, c, s : pc = wk[v].pc /\ c = wk[v].call /\ s = wk[v].att
      OBVIOUS
  <2>2. pc = wk'[v].pc /\ c = wk'[v].call /\ s = wk'[v].att /\ Relies(pc, c, s)
      BY <1>1, <1>2, <1>7, <2>1 DEF HolderRelies
  <2>3. Relies(pc, c, s)'
      BY <1>2, <1>4, <2>2 DEF Fixed, Relies, Passed, Decided, Reconciles, CommitsNext
  <2> QED
      BY <2>2, <2>3
<1> QED
    BY <1>5, <1>6, <1>7 DEF Batch, Records, HolderRelies

LEMMA DecisionBatch ==
    ASSUME Control, Batch, NEW outcome \in {"approved", "rejected"},
           decideToolApproval(outcome)
    PROVE  Batch'
<1>1. Records'
    BY DecidedRecords DEF decideToolApproval, env
<1>2. \A v \in Workers : item' # v
    BY WorkerAssumption DEF decideToolApproval
<1> QED
    BY <1>1, <1>2, NothingToRelyOn DEF Batch

LEMMA BatchInit == Init => Batch
<1> SUFFICES ASSUME Init PROVE Batch
    OBVIOUS
<1>1. N \in Nat \ {0} /\ NeedsApproval \subseteq Calls
    BY Sizes DEF Init
<1>2. results = [i \in 1 .. Len(results) |-> i]
  <2>1. results = <<>> /\ Len(results) = 0
      BY DEF Init
  <2> QED
      BY <2>1
<1>3. \A v \in Workers : item # v
    BY WorkerAssumption DEF Init
<1>4. Records
    BY <1>1, <1>2 DEF Init, Records, ApprovalInv, WaitingIsAnswerable, createRun,
        UnknownOutcomeIsReconciled, AwaitedIsNext, ResultsInCallOrder
<1> QED
    BY <1>3, <1>4 DEF Batch, HolderRelies

LEMMA BatchNext == Control /\ Evidence /\ Batch /\ [Next]_vars => Batch'
<1> SUFFICES ASSUME Control, Evidence, Batch, [Next]_vars PROVE Batch'
    OBVIOUS
<1>1. Plain /\ Still => Batch'
    BY StillKeepsBatch
<1>2. ASSUME NEW w \in Workers, workerStep(w)
      PROVE  Batch'
    BY <1>1, <1>2, StillMoves, StillResults, HolderMoves, ReceiptBatch, RunBatch,
       UnknownBatch, CompletionBatch, Zenon
    DEF workerStep
<1> QED
    BY <1>1, <1>2, StillOthers, RequestBatch, DecisionBatch, Zenon DEF Next

-----------------------------------------------------------------------------
(* No effect without approval.                                             *)

\* An approval that was given is not taken back.
StaysApproved ==
    \A c \in Calls : approvals[c] = "approved" => approvals'[c] = "approved"

\* No step starts an effect, except the one that calls the tool.
NothingStarts == UNCHANGED <<effects, batch>> /\ StaysApproved

LEMMA WorkersAlone ==
    ASSUME NEW w \in Workers,
        \/ evaluatePolicy(w) \/ samplingFailed(w) \/ samplingCanceled(w)
        \/ commitRejected(w) \/ afterToolCanceled(w)
        \/ afterResumed(w) \/ drained(w) \/ cancelConflict(w) \/ denyRefused(w)
        \/ cancelPreparedRefused(w) \/ leaseLost(w)
        \/ denyRun(w) \/ beginModelAttempt(w) \/ callRefused(w)
        \/ drainUnknown(w) \/ beginCancelAttempt(w)
        \/ yieldClaim(w) \/ recheckApproval(w) \/ drainFailed(w)
        \/ retryActiveAttempt(w) \/ handleError(w) \/ retryToolReconciliation(w)
        \/ executeClaimStep(w) \/ continueRun(w)
    PROVE  NothingStarts
<1> USE DEF NothingStarts, StaysApproved, localStep, attemptStep, releaseStep, store,
        process, env
<1>1. CASE \/ evaluatePolicy(w) \/ samplingFailed(w) \/ samplingCanceled(w)
           \/ commitRejected(w) \/ afterToolCanceled(w)
           \/ afterResumed(w) \/ drained(w) \/ cancelConflict(w) \/ denyRefused(w)
           \/ cancelPreparedRefused(w) \/ leaseLost(w)
    BY <1>1 DEF evaluatePolicy, samplingFailed, samplingCanceled, commitRejected,
        afterToolCanceled, afterResumed, drained, cancelConflict, denyRefused,
        cancelPreparedRefused, leaseLost
<1>2. CASE \/ denyRun(w) \/ beginModelAttempt(w) \/ callRefused(w)
           \/ drainUnknown(w) \/ beginCancelAttempt(w)
           \/ yieldClaim(w) \/ recheckApproval(w) \/ drainFailed(w)
           \/ retryActiveAttempt(w)
    BY <1>2 DEF denyRun, beginModelAttempt, callRefused, drainUnknown, beginCancelAttempt,
        yieldClaim, recheckApproval, drainFailed, retryActiveAttempt
<1>3. CASE \/ handleError(w) \/ retryToolReconciliation(w)
           \/ executeClaimStep(w) \/ continueRun(w)
    BY <1>3 DEF handleError, retryToolReconciliation, executeClaimStep, continueRun
<1> QED
    BY <1>1, <1>2, <1>3

LEMMA RecordsAlone ==
    ASSUME NEW w \in Workers,
        \/ completeTextRun(w) \/ failRun(w) \/ permanentError(w) \/ confirmCanceled(w)
        \/ startRun(w) \/ commitToolSample(w) \/ resumeToolReconciliation(w)
        \/ resumePendingTools(w) \/ batchResolved(w) \/ beginToolExecution(w)
        \/ recoverSuperseded(w) \/ cancelPreparedApprovedTool(w)
        \/ beginToolReconciliation(w) \/ callPrepared(w)
        \/ prepareToolExecution(w)
        \/ commitCanceled(w) \/ reconciledCanceled(w)
        \/ reconciledAfterCancellation(w) \/ cancelSuperseded(w)
        \/ drainResult(w) \/ cancelPreparedReceipt(w)
        \/ commitToolExecutionUnknownOutcome(w)
        \/ commitCompleted(w) \/ reconciledCompleted(w)
        \/ \E status \in Resolutions : askToolRuntime(w, status)
    PROVE  NothingStarts
<1> USE DEF NothingStarts, StaysApproved, localStep, attemptStep, releaseStep, store,
        process, env, receiptStep, runStep, terminalStep
<1>1. CASE \/ completeTextRun(w) \/ failRun(w) \/ permanentError(w) \/ confirmCanceled(w)
           \/ startRun(w) \/ commitToolSample(w) \/ resumeToolReconciliation(w)
    BY <1>1 DEF completeTextRun, failRun, permanentError, confirmCanceled, startRun,
        commitToolSample, resumeToolReconciliation
<1>2. CASE \/ resumePendingTools(w) \/ batchResolved(w) \/ beginToolExecution(w)
           \/ recoverSuperseded(w) \/ cancelPreparedApprovedTool(w)
           \/ beginToolReconciliation(w) \/ callPrepared(w)
    BY <1>2 DEF resumePendingTools, batchResolved, beginToolExecution, recoverSuperseded,
        cancelPreparedApprovedTool, beginToolReconciliation, callPrepared
<1>3. CASE \/ prepareToolExecution(w) \/ commitCanceled(w) \/ reconciledCanceled(w)
           \/ reconciledAfterCancellation(w) \/ cancelSuperseded(w)
           \/ drainResult(w) \/ cancelPreparedReceipt(w)
    BY <1>3 DEF prepareToolExecution, commitCanceled, reconciledCanceled,
        reconciledAfterCancellation, cancelSuperseded, drainResult, cancelPreparedReceipt
<1>4. CASE \/ commitToolExecutionUnknownOutcome(w)
           \/ commitCompleted(w) \/ reconciledCompleted(w)
           \/ \E status \in Resolutions : askToolRuntime(w, status)
    BY <1>4 DEF commitToolExecutionUnknownOutcome, commitCompleted, reconciledCompleted,
        askToolRuntime
<1> QED
    BY <1>1, <1>2, <1>3, <1>4

LEMMA CallsAlone ==
    ASSUME NEW w \in Workers, NEW c \in Calls,
        \/ beginToolRecovery(w, c) \/ reuseReceipt(w, c) \/ dispatchToolExecution(w, c)
        \/ abortBeforeStart(w, c) \/ interruptTool(w, c)
        \/ \E status \in Resolutions : recoverToolExecution(w, c, status)
    PROVE  NothingStarts
BY DEF NothingStarts, StaysApproved, localStep, attemptStep, store, process, env, receiptStep,
    beginToolRecovery, reuseReceipt, dispatchToolExecution,
    abortBeforeStart, interruptTool, recoverToolExecution

\* An approval is decided once.
LEMMA DecisionsAlone ==
    ASSUME Control,
        \/ \E w \in Workers : \/ supersedeToolApproval(w) \/ expireToolApproval(w)
                              \/ requireToolApproval(w)
        \/ \E outcome \in {"approved", "rejected"} : decideToolApproval(outcome)
    PROVE  NothingStarts
<1>1. approvals \in [Calls -> ApprovalStatuses]
    BY TypesSplit DEF Control, StoreTypes
<1>2. ASSUME NEW c, NEW from \in {"none", "required"}, NEW to,
             approvals[c] = from, approvals' = [approvals EXCEPT ![c] = to]
      PROVE  StaysApproved
    BY <1>1, <1>2 DEF StaysApproved
<1>3. ASSUME NEW c, NEW to, decide(c, to)
      PROVE  StaysApproved
    BY <1>2, <1>3 DEF decide
<1>4. CASE \E w \in Workers : supersedeToolApproval(w) \/ expireToolApproval(w)
    BY <1>3, <1>4 DEF supersedeToolApproval, expireToolApproval, process, env, NothingStarts
<1>5. CASE \E w \in Workers : requireToolApproval(w)
    BY <1>2, <1>5 DEF requireToolApproval, process, env, NothingStarts
<1>6. CASE \E outcome \in {"approved", "rejected"} : decideToolApproval(outcome)
    BY <1>3, <1>6 DEF decideToolApproval, process, env, NothingStarts
<1> QED
    BY <1>4, <1>5, <1>6

LEMMA OthersAlone ==
    ASSUME
        \/ \E w \in Workers : \/ claimNextWorkItem(w) \/ callFails(w) \/ crash(w)
                              \/ expireLease(w) \/ expireAbandoned(w)
        \/ requestCancel \/ revokePolicy \/ UNCHANGED vars \/ \E c \in Calls : toolEnds(c)
    PROVE  NothingStarts
BY DEF NothingStarts, StaysApproved, store, process, env, vars, claimNextWorkItem, callFails,
    crash, expireLease, expireAbandoned, Fault, requestCancel, revokePolicy, toolEnds,
    toolFinished, toolThrew

\* What is about to start was dispatched, and what was dispatched was approved.
LEMMA StartsApproved ==
    ASSUME Control, Evidence, Batch, ApprovedBeforeEffect, NEW w \in Workers, NEW c \in Calls,
           startEffect(w, c)
    PROVE  ApprovedBeforeEffect'
<1>1. StoreTypes /\ NeedsApproval \subseteq Calls
    BY TypesSplit, Sizes DEF Control, StoreTypes
<1>2. UNCHANGED <<approvals, batch>> /\ NeedsApproval' = NeedsApproval
    BY FixedBatch DEF startEffect, store, env, Fixed
<1>3. /\ receipts[c] \notin {"none", "prepared"}
      /\ receipts[c] = "canceled" => provider[c] = "voided"
      /\ receipts[c] \in ReceiptStatuses
    BY <1>1 DEF startEffect, Evidence, DispatchInv, Undispatched, StoreTypes
<1>4. c \in NeedsApproval /\ provider[c] # "voided" => approvals[c] = "approved"
    BY <1>3 DEF Batch, Records, ApprovalInv, ReceiptStatuses
<1>5. \A d \in Calls : effects'[d] # effects[d] => d = c /\ provider[c] # "voided"
    BY <1>1 DEF startEffect, StoreTypes
<1> QED
    BY <1>1, <1>2, <1>4, <1>5 DEF ApprovedBeforeEffect

LEMMA ApprovedNext ==
    Control /\ Evidence /\ Batch /\ ApprovedBeforeEffect /\ [Next]_vars =>
        ApprovedBeforeEffect'
<1> SUFFICES ASSUME Control, Evidence, Batch, ApprovedBeforeEffect, [Next]_vars
             PROVE  ApprovedBeforeEffect'
    OBVIOUS
<1>1. ASSUME NothingStarts
      PROVE  ApprovedBeforeEffect'
  <2>1. NeedsApproval' = NeedsApproval /\ NeedsApproval \subseteq Calls
      BY <1>1, FixedBatch, TypesSplit, Sizes DEF NothingStarts, Fixed, Control, StoreTypes
  <2> QED
      BY <1>1, <2>1 DEF NothingStarts, StaysApproved, ApprovedBeforeEffect
<1>2. ASSUME NEW w \in Workers, workerStep(w)
      PROVE  ApprovedBeforeEffect'
    BY <1>1, <1>2, WorkersAlone, RecordsAlone, CallsAlone, DecisionsAlone, StartsApproved,
       Zenon
    DEF workerStep
<1> QED
    BY <1>1, <1>2, OthersAlone, DecisionsAlone, Zenon DEF Next

-----------------------------------------------------------------------------
(* The theorems.                                                           *)

IInv == Control /\ Evidence /\ Batch /\ ApprovedBeforeEffect

LEMMA Invariance == Spec => []IInv
<1>1. Init => IInv
  <2>1. Init => ApprovedBeforeEffect
    <3>1. Init => NeedsApproval \subseteq Calls
        BY Sizes DEF Init
    <3> QED
        BY <3>1 DEF Init, ApprovedBeforeEffect
  <2> QED
      BY <2>1, ControlInit, EvidenceInit, BatchInit DEF IInv
<1>2. IInv /\ [Next]_vars => IInv'
    BY ControlNext, EvidenceNext, BatchNext, ApprovedNext DEF IInv
<1> QED
    BY <1>1, <1>2, PTL DEF Spec

\* A tool call takes effect at most once: the receipt is dispatched before the
\* effect starts (dispatchToolExecution), a receipt that is open is asked about
\* and never executed again, and a broker that lost the lease cannot be about
\* to start what its successor has started.
THEOREM EffectsAreSingle == Spec => []EffectAtMostOnce
<1>1. IInv => EffectAtMostOnce
    BY DEF IInv, Evidence
<1> QED
    BY <1>1, Invariance, PTL

\* Nothing is done that had to be approved and was not, even by a worker whose
\* lease is gone: a batch is resolved only once all its calls have passed
\* the loop of #executeToolCalls, and a decided approval is not decided again.
THEOREM EffectsAreApproved == Spec => []ApprovedBeforeEffect
<1>1. IInv => ApprovedBeforeEffect
    BY DEF IInv
<1> QED
    BY <1>1, Invariance, PTL

\* A closed receipt tells what became of the call: completed that it was done,
\* canceled that it was not and that the tool will refuse it.
THEOREM ReceiptsAreTrue == Spec => []ReceiptsTellTheTruth
<1>1. IInv => ReceiptsTellTheTruth
    BY DEF IInv, Evidence
<1> QED
    BY <1>1, Invariance, PTL

\* An unknown outcome is recorded in the commit that makes its run reconcile
\* it, and closed before the run goes on.
THEOREM UnknownIsReconciled == Spec => []UnknownOutcomeIsReconciled
<1>1. IInv => UnknownOutcomeIsReconciled
    BY DEF IInv, Batch, Records
<1> QED
    BY <1>1, Invariance, PTL

\* A waiting run names an approval that is still to be decided, of a call that
\* was not dispatched, and nothing else waits for a decision
\* (requireToolApproval, decideToolApproval, #cancelWaitingApproval).
THEOREM WaitingRunsAreAnswerable == Spec => []WaitingIsAnswerable
<1>1. IInv => WaitingIsAnswerable
    BY DEF IInv, Batch, Records
<1> QED
    BY <1>1, Invariance, PTL

\* The results of a batch are committed in the order of its calls, each once
\* and with its completed receipt, all of them before the model answers:
\* #executeToolCalls commits them from the first pending one on, and the
\* reconciliation that completes a call completes that one.
THEOREM ResultsAreInOrder == Spec => []ResultsInCallOrder
<1>1. IInv => ResultsInCallOrder
    BY DEF IInv, Batch, Records
<1> QED
    BY <1>1, Invariance, PTL
=============================================================================
