---------------------------- MODULE RunExecution ----------------------------
(***************************************************************************)
(* Runtime workers executing one run.  A worker claims the run's work      *)
(* item, loads the run and moves it on by one durable step after another:  *)
(* sample the model, prepare and dispatch the tool calls it asked for,     *)
(* wait for approvals, reconcile outcomes nobody knows, cancel.  Every     *)
(* store call is fenced by the lease (WorkQueue); what a worker does       *)
(* outside the store, starting an effect above all, is not.  So a worker   *)
(* that lost its lease, or died between two calls, meets its successor.    *)
(*                                                                         *)
(* Granularity: one action per store transaction or call to the tool       *)
(* runtime, with the reads that lead to it.  Whoever holds the lease is    *)
(* the only writer of the run, except for a cancel request and an approval *)
(* decision, so a read followed by a commit at the revision read is one    *)
(* action here: what arrives in between makes the commit fail, as it does  *)
(* when it arrives before the read.                                        *)
(*                                                                         *)
(* Tool calls are mutations whose outcome can be reconciled; read-only     *)
(* calls may be repeated and are left out.  The model asks for one batch   *)
(* of N calls at most.  Lease epochs are not counted: a claim turns every  *)
(* running attempt into a stale one, which is what the epoch check of      *)
(* validateCurrent sees.                                                   *)
(***************************************************************************)
EXTENDS RunLifecycle, Sequences, FiniteSetsExt

CONSTANTS
    Workers,        \* runtime worker processes
    Batches         \* the requests of the model and circumstances to consider

ASSUME BatchAssumption ==
    \A b \in Batches :
        /\ DOMAIN b =
             {"size", "needsApproval", "parallel", "mayRevoke", "maxFaults"}
        /\ b.size \in Nat \ {0}
        /\ b.needsApproval \subseteq 1 .. b.size
        /\ b.parallel \in BOOLEAN /\ b.mayRevoke \in BOOLEAN
        /\ b.maxFaults \in Nat
ASSUME WorkerAssumption ==
    Workers \cap {"pending", "expired", "settled"} = {}

VARIABLES
    run,        \* the RunState
    item,       \* the work item: pending, expired, settled or its holder
    requested,  \* whether the batch of tool calls was committed
    results,    \* the tool.completed events, in the order of the log
    receipts,   \* the tool execution receipt of each call
    approvals,  \* the tool approval of each call
    attempts,   \* the current attempt of each step
    wk,         \* per worker: where it is and what it remembers
    entry,      \* per worker and call: the execution its broker retains
    provider,   \* external: what really became of each call
    effects,    \* history: how often the effect of a call was started
    faults,     \* faults so far
    revoked,    \* the pinned execution policy no longer matches
    batch       \* the tool calls the model asks for; never changes

\* Tool calls in the batch, those whose policy requires an approval per action,
\* whether all of its tools may run in parallel, whether the execution policy
\* may stop matching, and the bound on crashes, expiries and failed calls.
N == batch.size
NeedsApproval == batch.needsApproval
Parallel == batch.parallel
MayRevoke == batch.mayRevoke
MaxFaults == batch.maxFaults

Calls == 1 .. N
AnyCall == UNION {1 .. b.size : b \in Batches}

\* The steps that own attempts: the first model step (its identifier is the
\* work item's), one per tool call, and the model step after the batch.
FirstStep == 0
NextStep == N + 1
Steps == 0 .. N + 1
NoStep == N + 2

store == <<run, item, requested, results, receipts, approvals, attempts>>
process == <<entry, provider, effects>>
env == <<faults, revoked, batch>>
vars == <<store, wk, process, env>>

ReceiptStatuses ==
    {"none", "prepared", "dispatched", "unknownOutcome", "completed",
     "canceled"}
ApprovalStatuses ==
    {"none", "required", "approved", "rejected", "expired", "superseded"}
AttemptStatuses == {"none", "running", "stale", "ready", "done"}
Resolutions == {"completed", "canceled", "unknownOutcome", "rejected"}
Locations ==
    {"idle", "step", "waiting", "policy", "deny", "start", "sampling",
     "prepare", "prepareReceipt", "approve", "resolve", "commit",
     "toolCanceled", "permanent", "fail", "continue", "reconcile", "ask",
     "reconciled", "resume", "resumed", "supersede", "superseded",
     "cancelReceipt", "cancel", "settleUnknown", "confirm", "cancelPrepared",
     "error"}

IdleWorker ==
    [pc |-> "idle", call |-> 0, att |-> NoStep,
     res |-> [c \in Calls |-> "none"]]

-----------------------------------------------------------------------------
\* What a step leaves alone that is local to its worker, begins an attempt,
\* gives the work item back, ends the run, writes a receipt, or commits an event.
localStep == UNCHANGED <<store, process, env>>
attemptStep ==
    UNCHANGED <<run, item, requested, results, receipts, approvals, process, env>>
releaseStep ==
    UNCHANGED <<run, requested, results, receipts, approvals, attempts, process,
                env>>
terminalStep == UNCHANGED <<requested, results, receipts, approvals, process, env>>
receiptStep ==
    UNCHANGED <<run, item, requested, results, approvals, attempts, process, env>>
runStep ==
    UNCHANGED <<item, requested, results, receipts, approvals, attempts, process,
                env>>

\* Pieces of the handlers.

At(w, pc) == wk[w].pc = pc

\* The worker is at pc and its store calls pass the lease check.
Holding(w, pc) == At(w, pc) /\ item = w

Goto(w, pc) == wk' = [wk EXCEPT ![w].pc = pc]
GotoCall(w, pc, c) == wk' = [wk EXCEPT ![w].pc = pc, ![w].call = c]
GotoWith(w, pc, s) == wk' = [wk EXCEPT ![w].pc = pc, ![w].att = s]
Leave(w) == wk' = [wk EXCEPT ![w] = IdleWorker]

\* retryWorkItem and the end of this wake.
Release(w) == item' = "pending" /\ Leave(w)

Commit(type, ref) ==
    /\ accepts(run, type)
    /\ run' = reduceRunLifecycleEvent(run, type, ref)

\* startRunAttempt and finishRunAttempt.
canBegin(s) == attempts[s] \in {"none", "stale", "ready"}
beginAbandoned(s) ==
    canBegin(s) /\ attempts' = [attempts EXCEPT ![s] = "abandoned"]
begin(s) == canBegin(s) /\ attempts' = [attempts EXCEPT ![s] = "running"]
finish(s, status) ==
    /\ attempts[s] = "running"
    /\ attempts' = [attempts EXCEPT ![s] = status]
finishIfAny(s, status) ==
    IF s = NoStep THEN UNCHANGED attempts ELSE finish(s, status)

\* A terminal event settles the work item and ends the attempt with it.
commitTerminalOnly(w, type, s) ==
    /\ Commit(type, NoRef)
    /\ finishIfAny(s, "done")
    /\ Release(w)
commitTerminal(w, type, s) ==
    /\ Commit(type, NoRef)
    /\ finishIfAny(s, "done")
    /\ item' = "settled"
    /\ Leave(w)

Pending == Calls \ {results[i] : i \in DOMAIN results}
PendingAfter(c) == {d \in Pending : d > c}

\* #currentAttempt: the first model step, if this claim is running it.
currentAttempt ==
    IF attempts[FirstStep] = "running" THEN FirstStep ELSE NoStep

\* What the broker of a process reports for a retained execution.  An
\* interrupted mutation counts as unknown while its handler still runs.
settledAsCanceled(e) ==
    CASE e \in {"completed", "canceled", "unknownOutcome"} -> e
      [] e \in {"interrupted", "acked"} -> "canceled"
      [] OTHER -> "none"
settledAs(e) ==
    CASE e \in {"completed", "canceled", "unknownOutcome"} -> e
      [] e \in {"interrupted", "acked"} -> "unknownOutcome"
      [] OTHER -> "none"

isOpenIfUnknown(c) == receipts[c] = "unknownOutcome"
isOpen(c) == receipts[c] \in {"dispatched", "unknownOutcome"}

\* Only a prepared receipt is dispatched; an open one is asked about instead.
shouldExecuteAgain(c) == receipts[c] \in {"prepared", "dispatched"}
shouldExecute(c) == receipts[c] = "prepared"

\* resolve: the receipt takes its final status.
resolveKeepsUnknown(c, status) ==
    receipts' = [receipts EXCEPT ![c] =
                   IF @ = "unknownOutcome" THEN @ ELSE status]
resolve(c, status) == receipts' = [receipts EXCEPT ![c] = status]

\* decide and terminate: the approval takes its final status.
decideUnless(c, status) ==
    approvals' = [approvals EXCEPT ![c] =
                    IF status = "superseded" THEN @ ELSE status]
decide(c, status) ==
    /\ approvals[c] = "required"
    /\ approvals' = [approvals EXCEPT ![c] = status]

\* acknowledgeCommittedToolResult: the broker forgets a result the store has.
\* It refuses when it retains another outcome, except that a committed
\* unknown outcome leaves a stronger local result alone.
canAcknowledge(e, status) ==
    \/ e = "none"
    \/ settledAs(e) = status
    \/ status = "unknownOutcome" /\ settledAs(e) \in {"completed", "canceled"}
acknowledged(e, status) ==
    IF settledAs(e) # status THEN e
    ELSE IF e \in {"interrupted", "acked"} THEN "acked" ELSE "none"

Acknowledge(w, c, status) ==
    entry' = [entry EXCEPT ![w][c] = acknowledged(@, status)]

\* Acknowledge and go on at pc; a refusal is an error like any other.
AcknowledgeThen(w, c, status, pc, next) ==
    IF canAcknowledge(entry[w][c], status)
      THEN Acknowledge(w, c, status) /\ GotoCall(w, pc, next)
      ELSE UNCHANGED entry /\ Goto(w, "error")

-----------------------------------------------------------------------------
Init ==
    /\ batch \in Batches
    /\ run = createRun
    /\ item = "pending"
    /\ requested = FALSE
    /\ results = <<>>
    /\ receipts = [c \in Calls |-> "none"]
    /\ approvals = [c \in Calls |-> "none"]
    /\ attempts = [s \in Steps |-> "none"]
    /\ wk = [w \in Workers |-> IdleWorker]
    /\ entry = [w \in Workers |-> [c \in Calls |-> "none"]]
    /\ provider = [c \in Calls |-> "none"]
    /\ effects = [c \in Calls |-> 0]
    /\ faults = 0
    /\ revoked = FALSE

\* Claiming and loading ------------------------------------------------------

claimNextWorkItem(w) ==
    /\ At(w, "idle")
    /\ item \in {"pending", "expired"}
    /\ item' = w
    /\ attempts' = [s \in Steps |->
                      IF attempts[s] = "running" THEN "stale" ELSE attempts[s]]
    /\ Goto(w, "step")
    /\ UNCHANGED <<run, requested, results, receipts, approvals, process, env>>

\* reconcileCommittedToolResults: the retained results the store already has.
Committed(w) ==
    {c \in Calls : /\ settledAs(entry[w][c]) # "none"
                   /\ receipts[c] \in {"completed", "canceled", "unknownOutcome"}}

executeClaimStep(w) ==
    /\ Holding(w, "step")
    /\ \/ /\ run.cancelRequested /\ run.status # "reconciling"
          /\ Goto(w, IF run.status = "waitingApproval" THEN "supersede"
                                                       ELSE "cancel")
          /\ UNCHANGED entry
       \/ /\ ~run.cancelRequested /\ run.status = "waitingApproval"
          /\ Goto(w, "waiting")
          /\ UNCHANGED entry
       \/ /\ run.cancelRequested => run.status = "reconciling"
          /\ run.status # "waitingApproval"
          /\ \E c \in Committed(w) : ~canAcknowledge(entry[w][c], receipts[c])
          /\ Goto(w, "error")
          /\ UNCHANGED entry
       \/ /\ run.cancelRequested => run.status = "reconciling"
          /\ run.status # "waitingApproval"
          /\ \A c \in Committed(w) : canAcknowledge(entry[w][c], receipts[c])
          /\ entry' = [entry EXCEPT ![w] = [c \in Calls |->
                         IF c \in Committed(w)
                           THEN acknowledged(entry[w][c], receipts[c])
                           ELSE entry[w][c]]]
          /\ Goto(w, IF run.status = "reconciling" THEN "reconcile"
                                                   ELSE "policy")
    /\ UNCHANGED <<store, provider, effects, env>>

\* runWithExecutionBudget: after a committed boundary the worker goes on with
\* the same claim or yields it.
continueRun(w) ==
    /\ Holding(w, "continue")
    /\ wk' = [wk EXCEPT ![w] = [IdleWorker EXCEPT !.pc = "step"]]
    /\ localStep

yieldClaim(w) ==
    /\ Holding(w, "continue")
    /\ Release(w)
    /\ releaseStep

\* A run waiting for approval ------------------------------------------------

expireToolApproval(w) ==
    /\ Holding(w, "waiting")
    /\ decide(run.waitingApproval, "expired")
    /\ Commit("run.resumed", NoRef)
    /\ Goto(w, "continue")
    /\ UNCHANGED <<item, requested, results, receipts, attempts, process, env>>

recheckApproval(w) ==
    /\ Holding(w, "waiting")
    /\ Release(w)
    /\ releaseStep

\* Policy, start and the model -----------------------------------------------

evaluatePolicy(w) ==
    /\ Holding(w, "policy")
    /\ \/ /\ revoked
          /\ Goto(w, IF run.status = "queued" THEN "fail" ELSE "deny")
       \/ ~revoked /\ Goto(w, "start")
    /\ localStep

\* A denied running run is failed through an attempt of the first model step.
denyRun(w) ==
    /\ Holding(w, "deny")
    /\ ~run.cancelRequested
    /\ begin(FirstStep)
    /\ GotoWith(w, "fail", FirstStep)
    /\ attemptStep

startRun(w) ==
    /\ Holding(w, "start")
    /\ run.status = "queued"
    /\ Commit("run.started", NoRef)
    /\ UNCHANGED <<item, requested, results, receipts, approvals, attempts, wk,
                   process, env>>

\* Tool calls that were requested and have no result come first.
resumePendingTools(w) ==
    /\ Holding(w, "start")
    /\ run.status = "running"
    /\ requested /\ Pending # {}
    /\ GotoCall(w, "prepare", Min(Pending))
    /\ localStep

\* The model is asked again only when every call of the batch has its result.
batchDoneUnchecked == TRUE
batchDone == requested => Pending = {}

modelStep == IF requested THEN NextStep ELSE FirstStep

beginModelAttempt(w) ==
    /\ Holding(w, "start")
    /\ run.status = "running" /\ ~run.cancelRequested
    /\ batchDone
    /\ begin(modelStep)
    /\ GotoWith(w, "sampling", modelStep)
    /\ attemptStep

commitToolSample(w) ==
    /\ Holding(w, "sampling")
    /\ wk[w].att = FirstStep
    /\ Commit("activity", NoRef)
    /\ requested' = TRUE
    /\ finish(FirstStep, "done")
    /\ GotoCall(w, "prepare", Min(Calls))
    /\ UNCHANGED <<item, results, receipts, approvals, process, env>>

completeTextRun(w) ==
    /\ Holding(w, "sampling")
    /\ commitTerminal(w, "run.completed", wk[w].att)
    /\ terminalStep

\* A permanent model error.
samplingFailed(w) ==
    /\ Holding(w, "sampling")
    /\ ~run.cancelRequested
    /\ Goto(w, "fail")
    /\ localStep

retryActiveAttempt(w) ==
    /\ Holding(w, "sampling")
    /\ ~run.cancelRequested
    /\ finish(wk[w].att, "ready")
    /\ Release(w)
    /\ UNCHANGED <<run, requested, results, receipts, approvals, process, env>>

\* The cancel request ends the sampling, with its attempt at hand or through
\* the error that retryAttempt throws.
samplingCanceled(w) ==
    /\ Holding(w, "sampling")
    /\ run.cancelRequested
    /\ \E pc \in {"cancel", "error"} : Goto(w, pc)
    /\ localStep

failRun(w) ==
    /\ Holding(w, "fail")
    /\ commitTerminal(w, "run.failed", wk[w].att)
    /\ terminalStep

\* Preparing the batch ---------------------------------------------------------

\* beginToolExecution: an existing receipt is taken over as it is, otherwise an
\* attempt is begun and then its receipt is prepared.
beginToolExecution(w) ==
    /\ Holding(w, "prepare")
    /\ run.status = "running" /\ ~run.cancelRequested
    /\ LET c == wk[w].call IN
         \/ /\ receipts[c] # "none"
            /\ Goto(w, "approve")
            /\ UNCHANGED attempts
         \/ /\ receipts[c] = "none"
            /\ begin(c)
            /\ Goto(w, "prepareReceipt")
    /\ attemptStep

prepareToolExecution(w) ==
    /\ Holding(w, "prepareReceipt")
    /\ attempts[wk[w].call] = "running"
    /\ receipts' = [receipts EXCEPT ![wk[w].call] = "prepared"]
    /\ Goto(w, "approve")
    /\ receiptStep

\* The run pauses on the approval and gives its work item back, in one commit.
requireToolApproval(w) ==
    LET c == wk[w].call IN
    /\ Holding(w, "approve")
    /\ c \in NeedsApproval /\ approvals[c] = "none"
    /\ Commit("run.approval.required", c)
    /\ approvals' = [approvals EXCEPT ![c] = "required"]
    /\ Release(w)
    /\ UNCHANGED <<requested, results, receipts, attempts, process, env>>

\* An approval answers for its call unless it was refused or ran out.
mayProceedIfNotRejected(c) ==
    c \in NeedsApproval => approvals[c] \notin {"none", "rejected"}
mayProceed(c) == c \in NeedsApproval => approvals[c] = "approved"

\* The call may go ahead; a receipt that is already closed lets the broker
\* forget its copy of the result.
callPrepared(w) ==
    LET c == wk[w].call IN
    /\ Holding(w, "approve")
    /\ mayProceed(c)
    /\ LET next == IF PendingAfter(c) # {} THEN Min(PendingAfter(c)) ELSE c
           pc == IF PendingAfter(c) # {} THEN "prepare" ELSE "resolve"
       IN IF receipts[c] \in {"completed", "canceled"}
            THEN AcknowledgeThen(w, c, receipts[c], pc, next)
            ELSE GotoCall(w, pc, next) /\ UNCHANGED entry
    /\ UNCHANGED <<store, provider, effects, env>>

callRefused(w) ==
    LET c == wk[w].call IN
    /\ Holding(w, "approve")
    /\ c \in NeedsApproval
    /\ approvals[c] \in {"rejected", "expired", "superseded"}
    /\ \/ attempts[c] = "running" /\ UNCHANGED attempts
       \/ begin(c)
    /\ GotoWith(w, "fail", c)
    /\ attemptStep

\* Resolving the batch: resolveToolBatch ---------------------------------------

\* Parallel calls go on independently; a sequential call starts when the ones
\* before it are completed.
Turn(w, c) ==
    /\ At(w, "resolve")
    /\ c \in Pending
    /\ Parallel \/ \A d \in Pending : d < c => wk[w].res[d] = "completed"

Resolve(w, c, status) == wk' = [wk EXCEPT ![w].res[c] = status]

\* A receipt of an earlier claim needs an attempt of this one.
beginToolRecovery(w, c) ==
    /\ Turn(w, c) /\ item = w
    /\ wk[w].res[c] = "none"
    /\ begin(c)
    /\ Resolve(w, c, IF isOpen(c) /\ ~shouldExecute(c) THEN "recovering"
                                                      ELSE "none")
    /\ attemptStep

reuseReceipt(w, c) ==
    /\ Turn(w, c) /\ item = w
    /\ wk[w].res[c] = "none" /\ attempts[c] = "running"
    /\ receipts[c] \in {"completed", "canceled"}
    /\ Resolve(w, c, receipts[c])
    /\ localStep

\* The durable dispatch fence comes before the effect.
dispatchToolExecution(w, c) ==
    /\ Turn(w, c) /\ item = w
    /\ wk[w].res[c] = "none" /\ attempts[c] = "running"
    /\ shouldExecute(c)
    /\ receipts' = [receipts EXCEPT ![c] = "dispatched"]
    /\ Resolve(w, c, "dispatched")
    /\ receiptStep

\* The call reaches the tool.  The worker checked its lease locally, the tool
\* cannot.  A tool that ruled the call out before refuses it.
startEffect(w, c) ==
    /\ Turn(w, c)
    /\ wk[w].res[c] = "dispatched"
    /\ \/ /\ provider[c] # "voided"
          /\ provider' = [provider EXCEPT ![c] = "running"]
          /\ effects' = [effects EXCEPT ![c] = @ + 1]
          /\ entry' = [entry EXCEPT ![w][c] = "running"]
          /\ Resolve(w, c, "started")
       \/ /\ provider[c] = "voided"
          /\ entry' = [entry EXCEPT ![w][c] = "canceled"]
          /\ Resolve(w, c, "canceled")
          /\ UNCHANGED <<provider, effects>>
    /\ UNCHANGED <<store, env>>

\* withWorkerToolDispatch refuses to start: the cancellation watcher or the
\* lease heartbeat aborted the batch.
abortBeforeStart(w, c) ==
    /\ Turn(w, c)
    /\ wk[w].res[c] = "dispatched"
    /\ run.cancelRequested \/ item # w
    /\ Resolve(w, c, "rejected")
    /\ localStep

\* What the tool runtime answers about a call that was dispatched before: what
\* this process retains, else what the tool itself can tell.
Answer(w, c, status) ==
    \/ /\ settledAs(entry[w][c]) # "none"
       /\ status = settledAs(entry[w][c])
       /\ UNCHANGED provider
    \/ /\ entry[w][c] = "none"
       /\ \/ status = "unknownOutcome" /\ UNCHANGED provider
          \/ /\ status = "completed" /\ provider[c] = "done"
             /\ UNCHANGED provider
          \/ /\ status = "canceled" /\ provider[c] \in {"none", "voided"}
             /\ provider' = [provider EXCEPT ![c] = "voided"]

recoverToolExecution(w, c, status) ==
    /\ Turn(w, c)
    /\ wk[w].res[c] = "recovering"
    /\ Answer(w, c, status)
    /\ Resolve(w, c, status)
    /\ UNCHANGED <<store, entry, effects, env>>

\* The worker waits for what it started, in whatever state the batch is.
ResolveStarted(c, status) ==
    wk' = [w \in Workers |->
             IF wk[w].res[c] = "started"
               THEN [wk[w] EXCEPT !.res[c] = status] ELSE wk[w]]

\* publishResult: the tool finished, in time or after the worker stopped
\* waiting.  A completion is stronger evidence than an unknown outcome.
toolFinished(c) ==
    /\ provider[c] = "running"
    /\ provider' = [provider EXCEPT ![c] = "done"]
    /\ entry' = [w \in Workers |->
                   IF entry[w][c] \in {"running", "interrupted", "acked"}
                     THEN [entry[w] EXCEPT ![c] = "completed"] ELSE entry[w]]
    /\ ResolveStarted(c, "completed")
    /\ UNCHANGED <<store, effects, env>>

\* failed: the adapter threw, which proves nothing about the effect.
toolThrew(c, outcome) ==
    /\ provider[c] = "running"
    /\ provider' = [provider EXCEPT ![c] = outcome]
    /\ entry' = [w \in Workers |->
                   CASE entry[w][c] \in {"running", "interrupted"} ->
                          [entry[w] EXCEPT ![c] = "unknownOutcome"]
                     [] entry[w][c] = "acked" -> [entry[w] EXCEPT ![c] = "none"]
                     [] OTHER -> entry[w]]
    /\ ResolveStarted(c, "rejected")
    /\ UNCHANGED <<store, effects, env>>

\* interrupted: a cancellation, a lost lease or the tool's timeout ends the
\* wait, not the effect.
interruptTool(w, c) ==
    /\ entry[w][c] = "running"
    /\ entry' = [entry EXCEPT ![w][c] = "interrupted"]
    /\ Resolve(w, c, "unknownOutcome")
    /\ UNCHANGED <<store, provider, effects, env>>

batchResolved(w) ==
    /\ Holding(w, "resolve")
    /\ \/ \A c \in Pending : wk[w].res[c] \in Resolutions
       \/ /\ ~Parallel
          /\ \E c \in Pending : wk[w].res[c] \in Resolutions \ {"completed"}
    /\ GotoCall(w, "commit", Min(Pending))
    /\ localStep

\* Committing the batch in call order ------------------------------------------

\* The attempt, the receipt and the result are one commit, which also resumes
\* a reconciling run.
commitToolExecutionCompletion(c) ==
    /\ run.status \in {"running", "reconciling"} /\ ~run.cancelRequested
    /\ isOpen(c)
    /\ run' = IF run.status = "reconciling"
                THEN reduceRunLifecycleEvent(run, "run.resumed", NoRef) ELSE run
    /\ results' = Append(results, c)
    /\ resolve(c, "completed")
    /\ finish(c, "done")

commitCompleted(w) ==
    LET c == wk[w].call IN
    /\ Holding(w, "commit")
    /\ wk[w].res[c] = "completed"
    /\ commitToolExecutionCompletion(c)
    /\ IF PendingAfter(c) # {}
         THEN AcknowledgeThen(w, c, "completed", "commit", Min(PendingAfter(c)))
         ELSE AcknowledgeThen(w, c, "completed", "continue", c)
    /\ UNCHANGED <<item, requested, approvals, provider, effects, env>>

\* Receipt, attempt, run and work item move together: nobody sees an unknown
\* outcome without the run that must reconcile it.
commitToolExecutionUnknownOutcome(w) ==
    LET c == wk[w].call IN
    /\ \/ Holding(w, "settleUnknown")
       \/ Holding(w, "commit") /\ wk[w].res[c] = "unknownOutcome"
    /\ isOpen(c)
    /\ Commit("run.reconciliation.required", c)
    /\ receipts' = [receipts EXCEPT ![c] = "unknownOutcome"]
    /\ finish(c, "ready")
    /\ Release(w)
    /\ Acknowledge(w, c, "unknownOutcome")
    /\ UNCHANGED <<requested, results, approvals, provider, effects, env>>

\* cancelToolExecutionReceipt and the acknowledgement after it.
cancelReceiptOf(w, c, pc) ==
    /\ receipts[c] # "completed"
    /\ resolve(c, "canceled")
    /\ AcknowledgeThen(w, c, "canceled", pc, c)

commitCanceled(w) ==
    /\ Holding(w, "commit")
    /\ wk[w].res[wk[w].call] = "canceled"
    /\ cancelReceiptOf(w, wk[w].call, "toolCanceled")
    /\ UNCHANGED <<run, item, requested, results, approvals, attempts, provider,
                   effects, env>>

commitRejectedSkips(w) ==
    LET c == wk[w].call IN
    /\ Holding(w, "commit")
    /\ wk[w].res[c] = "rejected"
    /\ IF PendingAfter(c) # {} THEN GotoCall(w, "commit", Min(PendingAfter(c)))
                               ELSE Goto(w, "error")
    /\ localStep
commitRejected(w) ==
    /\ Holding(w, "commit")
    /\ wk[w].res[wk[w].call] = "rejected"
    /\ Goto(w, "error")
    /\ localStep

afterToolCanceled(w) ==
    /\ Holding(w, "toolCanceled")
    /\ IF run.cancelRequested THEN GotoWith(w, "cancel", wk[w].call)
                              ELSE Goto(w, "permanent")
    /\ localStep

\* PermanentWorkerError in #runWithStoreAccess.
permanentError(w) ==
    /\ Holding(w, "permanent")
    /\ \/ /\ run.cancelRequested
          /\ GotoWith(w, "cancel", NoStep)
          /\ UNCHANGED <<run, item, attempts>>
       \/ commitTerminal(w, "run.failed", currentAttempt)
    /\ terminalStep

\* Reconciling: #reconcileToolClaim ----------------------------------------------

beginToolReconciliation(w) ==
    LET c == run.reconciliationReceiptId IN
    /\ Holding(w, "reconcile")
    /\ begin(c)
    /\ wk' = [wk EXCEPT ![w].call = c,
                        ![w].pc = IF isOpen(c) THEN "ask" ELSE "reconciled",
                        ![w].res[c] = IF isOpen(c) THEN @ ELSE receipts[c]]
    /\ attemptStep

\* toolRuntime.reconcile, or toolRuntime.cancel for a run that is to be
\* canceled: the answers are the same, only what the tool may do differs.
askToolRuntime(w, status) ==
    LET c == wk[w].call IN
    /\ At(w, "ask")
    /\ Answer(w, c, status)
    /\ wk' = [wk EXCEPT ![w].pc = "reconciled", ![w].res[c] = status]
    /\ UNCHANGED <<store, entry, effects, env>>

retryToolReconciliation(w) ==
    LET c == wk[w].call IN
    /\ Holding(w, "reconciled")
    /\ wk[w].res[c] = "unknownOutcome"
    /\ finish(c, "ready")
    /\ Release(w)
    /\ Acknowledge(w, c, "unknownOutcome")
    /\ UNCHANGED <<run, requested, results, receipts, approvals, provider,
                   effects, env>>

reconciledCanceled(w) ==
    /\ Holding(w, "reconciled")
    /\ wk[w].res[wk[w].call] = "canceled"
    /\ cancelReceiptOf(w, wk[w].call, "resume")
    /\ UNCHANGED <<run, item, requested, results, approvals, attempts, provider,
                   effects, env>>

reconciledCompleted(w) ==
    LET c == wk[w].call IN
    /\ Holding(w, "reconciled")
    /\ wk[w].res[c] = "completed"
    /\ commitToolExecutionCompletion(c)
    /\ AcknowledgeThen(w, c, "completed", "continue", c)
    /\ UNCHANGED <<item, requested, approvals, provider, effects, env>>

\* completeToolExecutionAfterCancellation: the receipt keeps the evidence, the
\* model's history does not get the result.
reconciledAfterCancellation(w) ==
    LET c == wk[w].call IN
    /\ Holding(w, "reconciled")
    /\ wk[w].res[c] = "completed"
    /\ run.cancelRequested
    /\ resolve(c, "completed")
    /\ AcknowledgeThen(w, c, "completed", "resume", c)
    /\ UNCHANGED <<run, item, requested, results, approvals, attempts, provider,
                   effects, env>>

resumeToolReconciliation(w) ==
    /\ Holding(w, "resume")
    /\ run.reconciliationReceiptId = wk[w].call
    /\ Commit("run.resumed", NoRef)
    /\ Goto(w, "resumed")
    /\ runStep

afterResumed(w) ==
    /\ Holding(w, "resumed")
    /\ GotoWith(w, IF run.cancelRequested THEN "cancel" ELSE "fail", wk[w].call)
    /\ localStep

\* Canceling a run that waits for approval: #cancelWaitingApproval ---------------

supersedeToolApproval(w) ==
    LET c == run.waitingApproval IN
    /\ Holding(w, "supersede")
    /\ decide(c, "superseded")
    /\ Commit("run.resumed", NoRef)
    /\ GotoCall(w, "superseded", c)
    /\ UNCHANGED <<item, requested, results, receipts, attempts, process, env>>

recoverSuperseded(w) ==
    /\ Holding(w, "superseded")
    /\ begin(wk[w].call)
    /\ Goto(w, "cancelReceipt")
    /\ attemptStep

cancelSuperseded(w) ==
    /\ Holding(w, "cancelReceipt")
    /\ receipts[wk[w].call] = "prepared"
    /\ resolve(wk[w].call, "canceled")
    /\ GotoWith(w, "cancel", wk[w].call)
    /\ receiptStep

\* Canceling: #cancel --------------------------------------------------------------

\* settleCanceledToolResults looks only at what this process retains.
Drainable(w) ==
    {c \in Calls : isOpen(c) /\ entry[w][c] \in {"completed", "canceled"}}
DrainUnknown(w) ==
    {c \in Calls : isOpen(c) /\ settledAs(entry[w][c]) = "unknownOutcome"}
DrainMismatch(w) ==
    {c \in Calls : /\ settledAs(entry[w][c]) # "none" /\ ~isOpen(c)
                   /\ ~canAcknowledge(entry[w][c], receipts[c])}

drainResult(w) ==
    /\ Holding(w, "cancel")
    /\ Drainable(w) # {}
    /\ LET c == Min(Drainable(w)) IN
         /\ resolve(c, entry[w][c])
         /\ entry' = [entry EXCEPT ![w][c] = "none"]
    /\ UNCHANGED <<run, item, requested, results, approvals, attempts, wk,
                   provider, effects, env>>

\* tool_cancellation_settlement_failed: a refused acknowledgement, or an
\* attempt this claim cannot begin a second time.
drainFailed(w) ==
    /\ Holding(w, "cancel")
    /\ \/ DrainMismatch(w) # {}
       \/ /\ Drainable(w) = {} /\ DrainUnknown(w) # {}
          /\ ~canBegin(Min(DrainUnknown(w)))
    /\ Release(w)
    /\ releaseStep

drainUnknown(w) ==
    /\ Holding(w, "cancel")
    /\ DrainMismatch(w) = {} /\ Drainable(w) = {} /\ DrainUnknown(w) # {}
    /\ begin(Min(DrainUnknown(w)))
    /\ GotoCall(w, "settleUnknown", Min(DrainUnknown(w)))
    /\ attemptStep

drained(w) ==
    /\ Holding(w, "cancel")
    /\ DrainMismatch(w) = {} /\ Drainable(w) = {} /\ DrainUnknown(w) = {}
    /\ Goto(w, "confirm")
    /\ localStep

\* The call whose decided approval the run last waited for, if its receipt is
\* still only prepared.
PreparedApproved ==
    LET asked == {c \in Calls : approvals[c] # "none"} IN
    {c \in asked : /\ c = Max(asked) /\ approvals[c] # "required"
                   /\ receipts[c] = "prepared"}

NeedsPreparedCancel(w) ==
    wk[w].att = NoStep /\ run.status = "running" /\ PreparedApproved # {}

cancelPreparedApprovedTool(w) ==
    /\ Holding(w, "confirm")
    /\ NeedsPreparedCancel(w)
    /\ LET c == Min(PreparedApproved) IN
         begin(c) /\ GotoWith(w, "cancelPrepared", c)
    /\ attemptStep

cancelPreparedReceipt(w) ==
    /\ Holding(w, "cancelPrepared")
    /\ resolve(wk[w].att, "canceled")
    /\ Goto(w, "confirm")
    /\ receiptStep

\* A run that started but never began an attempt gets one to be canceled.
NeedsCancelAttempt(w) ==
    /\ wk[w].att = NoStep /\ run.status = "running"
    /\ attempts[FirstStep] = "none"

beginCancelAttempt(w) ==
    /\ Holding(w, "confirm")
    /\ ~NeedsPreparedCancel(w) /\ NeedsCancelAttempt(w)
    /\ begin(FirstStep)
    /\ GotoWith(w, "confirm", FirstStep)
    /\ attemptStep

confirmCanceled(w) ==
    /\ Holding(w, "confirm")
    /\ ~NeedsPreparedCancel(w) /\ ~NeedsCancelAttempt(w)
    /\ commitTerminal(w, "run.canceled",
                      IF wk[w].att = NoStep THEN currentAttempt ELSE wk[w].att)
    /\ terminalStep

\* Errors -----------------------------------------------------------------------

\* execution_cancel_pending and its relatives: a cancel request arrived that
\* the handler had not seen.
cancelConflict(w) ==
    /\ \/ \E pc \in {"deny", "start", "prepare", "fail"} : Holding(w, pc)
       \/ /\ Holding(w, "approve")
          /\ wk[w].call \in NeedsApproval /\ approvals[wk[w].call] = "none"
       \/ Holding(w, "commit") /\ wk[w].res[wk[w].call] = "completed"
    /\ run.cancelRequested
    /\ Goto(w, "error")
    /\ localStep

\* step_terminal: the first model step is over, it takes no other attempt.
denyRefused(w) ==
    /\ Holding(w, "deny") /\ ~canBegin(FirstStep)
    /\ Goto(w, "error")
    /\ localStep

\* attempt_epoch_not_advanced escapes from #cancel: the wake ends and the lease
\* is left to expire.
cancelPreparedRefused(w) ==
    /\ Holding(w, "confirm") /\ NeedsPreparedCancel(w)
    /\ ~canBegin(Min(PreparedApproved))
    /\ Leave(w)
    /\ localStep

\* The catch-all of #runWithStoreAccess.
handleError(w) ==
    /\ Holding(w, "error")
    /\ \/ /\ run.status = "reconciling"
          /\ Release(w)
          /\ UNCHANGED attempts
       \/ /\ run.status # "reconciling" /\ run.cancelRequested
          /\ GotoWith(w, "cancel", NoStep)
          /\ UNCHANGED <<item, attempts>>
       \/ /\ run.status # "reconciling" /\ ~run.cancelRequested
          /\ finishIfAny(currentAttempt, "ready")
          /\ Release(w)
    /\ UNCHANGED <<run, requested, results, receipts, approvals, process, env>>

\* The worker learns that its lease is gone, once everything it started settled.
leaseLost(w) ==
    /\ ~At(w, "idle") /\ item # w
    /\ \A c \in Calls : wk[w].res[c] # "started"
    /\ Leave(w)
    /\ localStep

Fault == faults < MaxFaults /\ faults' = faults + 1 /\ UNCHANGED <<revoked, batch>>

\* A store or runtime call fails, or its answer is lost after it took effect.
\* The error goes to the handler, a busy store or a full runtime gives the work
\* item back at once, and what fails in a handler ends the wake.
callFails(w) ==
    /\ Fault
    /\ ~At(w, "idle") /\ item = w
    /\ \/ /\ wk[w].pc \notin {"resolve", "error", "permanent", "cancel",
                              "settleUnknown", "confirm", "cancelPrepared"}
          /\ Goto(w, "error")
          /\ UNCHANGED item
       \/ /\ wk[w].pc = "resolve"
          /\ \E c \in Pending : /\ Turn(w, c)
                                /\ wk[w].res[c] \in {"none", "recovering", "dispatched"}
                                /\ Resolve(w, c, "rejected")
          /\ UNCHANGED item
       \/ /\ wk[w].pc \notin {"resolve", "error", "permanent", "cancelPrepared"}
          /\ Release(w)
       \/ /\ wk[w].pc \in {"error", "permanent", "confirm", "cancelPrepared"}
          /\ Leave(w)
          /\ UNCHANGED item
    /\ UNCHANGED <<run, requested, results, receipts, approvals, attempts,
                   process>>

\* The process dies and with it everything its broker retained.
crash(w) ==
    /\ Fault
    /\ ~At(w, "idle") \/ \E c \in Calls : entry[w][c] # "none"
    /\ Leave(w)
    /\ entry' = [entry EXCEPT ![w] = [c \in Calls |-> "none"]]
    /\ UNCHANGED <<store, provider, effects>>

\* The lease of a live worker expires before its next renewal ...
expireLease(w) ==
    /\ Fault
    /\ ~At(w, "idle") /\ item = w
    /\ item' = "expired"
    /\ UNCHANGED <<run, requested, results, receipts, approvals, attempts, wk,
                   process>>

\* ... and that of a worker that is gone expires sooner or later.
expireAbandoned(w) ==
    /\ At(w, "idle") /\ item = w
    /\ item' = "expired"
    /\ UNCHANGED <<run, requested, results, receipts, approvals, attempts, wk,
                   process, env>>

\* People -------------------------------------------------------------------------

requestCancel ==
    /\ Commit("run.cancel.requested", NoRef)
    /\ UNCHANGED <<item, requested, results, receipts, approvals, attempts, wk,
                   process, env>>

decideToolApproval(outcome) ==
    LET c == run.waitingApproval IN
    /\ run.status = "waitingApproval" /\ ~run.cancelRequested
    /\ item = "pending"
    /\ decide(c, outcome)
    /\ Commit("run.resumed", NoRef)
    /\ UNCHANGED <<item, requested, results, receipts, attempts, wk, process,
                   env>>

revokePolicy ==
    /\ MayRevoke /\ ~revoked
    /\ revoked' = TRUE
    /\ UNCHANGED <<store, wk, process, faults, batch>>

-----------------------------------------------------------------------------
\* What a worker does of its own accord while it has the run.
workerStep(w) ==
    \/ executeClaimStep(w) \/ continueRun(w) \/ yieldClaim(w)
    \/ expireToolApproval(w) \/ recheckApproval(w)
    \/ evaluatePolicy(w) \/ denyRun(w) \/ startRun(w) \/ resumePendingTools(w)
    \/ beginModelAttempt(w) \/ commitToolSample(w) \/ completeTextRun(w)
    \/ samplingFailed(w) \/ retryActiveAttempt(w) \/ samplingCanceled(w)
    \/ failRun(w)
    \/ beginToolExecution(w) \/ prepareToolExecution(w)
    \/ requireToolApproval(w) \/ callPrepared(w) \/ callRefused(w)
    \/ \E c \in Calls : \/ beginToolRecovery(w, c) \/ reuseReceipt(w, c)
                       \/ dispatchToolExecution(w, c) \/ startEffect(w, c)
                       \/ abortBeforeStart(w, c) \/ interruptTool(w, c)
                       \/ \E status \in Resolutions :
                             recoverToolExecution(w, c, status)
    \/ batchResolved(w) \/ commitCompleted(w)
    \/ commitToolExecutionUnknownOutcome(w) \/ commitCanceled(w)
    \/ commitRejected(w) \/ afterToolCanceled(w) \/ permanentError(w)
    \/ beginToolReconciliation(w)
    \/ \E status \in Resolutions : askToolRuntime(w, status)
    \/ retryToolReconciliation(w) \/ reconciledCanceled(w)
    \/ reconciledCompleted(w) \/ reconciledAfterCancellation(w)
    \/ resumeToolReconciliation(w) \/ afterResumed(w)
    \/ supersedeToolApproval(w) \/ recoverSuperseded(w) \/ cancelSuperseded(w)
    \/ drainResult(w) \/ drainFailed(w) \/ drainUnknown(w) \/ drained(w)
    \/ cancelPreparedApprovedTool(w) \/ cancelPreparedReceipt(w)
    \/ beginCancelAttempt(w) \/ confirmCanceled(w)
    \/ cancelConflict(w) \/ denyRefused(w) \/ cancelPreparedRefused(w)
    \/ handleError(w) \/ leaseLost(w)

toolEnds(c) ==
    toolFinished(c) \/ \E outcome \in {"done", "voided"} : toolThrew(c, outcome)

Next ==
    \/ \E w \in Workers : claimNextWorkItem(w)
    \/ \E w \in Workers : workerStep(w)
    \/ \E c \in Calls : toolEnds(c)
    \/ \E w \in Workers : callFails(w) \/ crash(w) \/ expireLease(w)
    \/ \E w \in Workers : expireAbandoned(w)
    \/ requestCancel
    \/ \E outcome \in {"approved", "rejected"} : decideToolApproval(outcome)
    \/ revokePolicy

Spec == Init /\ [][Next]_vars

\* A worker keeps executing and polling, abandoned leases expire, tools end,
\* and a tool that is asked again and again eventually gives a definite answer.
definiteAnswer(w) ==
    \E status \in {"completed", "canceled"} : askToolRuntime(w, status)

Fairness ==
    /\ \A w \in Workers : /\ WF_vars(workerStep(w))
                          /\ SF_vars(claimNextWorkItem(w))
                          /\ WF_vars(expireAbandoned(w))
                          /\ SF_vars(definiteAnswer(w))
    /\ \A c \in AnyCall : WF_vars(c \in Calls /\ toolEnds(c))

FairSpec == Spec /\ Fairness

-----------------------------------------------------------------------------
\* The shapes of the durable and of the process-local state.
TypeOK ==
    /\ run \in RunState /\ batch \in Batches
    /\ item \in Workers \cup {"pending", "expired", "settled"}
    /\ requested \in BOOLEAN /\ revoked \in BOOLEAN
    /\ results \in Seq(Calls)
    /\ receipts \in [Calls -> ReceiptStatuses]
    /\ approvals \in [Calls -> ApprovalStatuses]
    /\ attempts \in [Steps -> AttemptStatuses]
    /\ wk \in [Workers ->
               [pc: Locations, call: 0 .. N, att: Steps \cup {NoStep},
                res: [Calls -> Resolutions \cup
                                {"none", "recovering", "dispatched", "started"}]]]
    /\ entry \in [Workers -> [Calls -> {"none", "running", "interrupted", "acked",
                                       "unknownOutcome", "completed",
                                       "canceled"}]]
    /\ provider \in [Calls -> {"none", "running", "done", "voided"}]
    /\ effects \in [Calls -> Nat]
    /\ faults \in 0 .. MaxFaults

\* A tool call takes effect at most once, whatever crashes, lease changes,
\* retries and recoveries happen between dispatch and result
\* (dispatchToolExecution before execute, reconcile afterwards).
EffectAtMostOnce == \A c \in Calls : effects[c] <= 1

\* A call that needs an approval takes effect only if it was approved, not if
\* the approval was rejected, expired, superseded or never asked for
\* (requireToolApproval, #executeToolCalls).
ApprovedBeforeEffect ==
    \A c \in NeedsApproval : effects[c] > 0 => approvals[c] = "approved"

\* A closed receipt tells the truth about the tool, for good: completed means
\* that the effect happened, canceled that it did not and will not, even if a
\* worker that was fenced out is still about to start it.
ReceiptsTellTheTruth ==
    \A c \in Calls :
        /\ receipts[c] = "completed" => provider[c] = "done"
        /\ receipts[c] = "canceled" => provider[c] \in {"none", "voided"}

\* An outcome nobody knows always has a run that is reconciling exactly it
\* (commitToolExecutionUnknownOutcome, #reconcileToolClaim).
UnknownOutcomeIsReconciled ==
    \A c \in Calls :
        receipts[c] = "unknownOutcome" =>
            /\ run.status = "reconciling"
            /\ run.reconciliationReceiptId = c

\* A run that waits can be answered: it waits for a required approval of a
\* call that was prepared and not dispatched, and a required approval has a run
\* waiting for it or one that was canceled.
WaitingIsAnswerable ==
    /\ run.status = "waitingApproval" =>
         /\ approvals[run.waitingApproval] = "required"
         /\ receipts[run.waitingApproval] = "prepared"
    /\ \A c \in Calls :
         approvals[c] = "required" =>
             \/ run.status = "waitingApproval" /\ run.waitingApproval = c
             \/ run.status = "canceled"

\* The work item is settled exactly when the run is over: no run is left
\* without an item that brings it to an end, no item outlives its run.
SettledIffTerminal == item = "settled" <=> isTerminal(run.status)

\* The model sees the results of the batch in the order of its calls, each one
\* once and backed by a completed receipt, and all of them before it answers.
ResultsInCallOrder ==
    /\ results = [i \in 1 .. Len(results) |-> i]
    /\ \A i \in DOMAIN results : receipts[results[i]] = "completed"
    /\ run.status = "completed" /\ requested => Len(results) = N

\* A requested cancel brings the run to its end, as canceled, wherever it was:
\* waiting, sampling, in a tool call, reconciling, or between two workers.
CancelTerminates == run.cancelRequested ~> run.status = "canceled"

\* A dispatched call does not stay open while its run goes on.
DispatchedIsSettled ==
    \A c \in AnyCall :
        c \in Calls /\ receipts[c] = "dispatched" ~>
            receipts[c] \in {"completed", "canceled"} \/ isTerminal(run.status)

\* Expectations of the repository that the code does not meet ---------------------

\* The runtime worker's README: an unknown mutation reconciles before the
\* cancellation becomes terminal, so a canceled run has no call that took
\* effect and whose receipt is still open (confirmCanceled).
CanceledRunHasNoOpenEffect ==
    run.status = "canceled" =>
        \A c \in Calls : effects[c] > 0 => ~isOpen(c)

\* The worker's tests: a run whose pinned execution policy no longer matches
\* fails closed, so it comes to its end (#executeClaimStep).
DeniedRunEnds == revoked ~> isTerminal(run.status)
=============================================================================
