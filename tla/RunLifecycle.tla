---------------------------- MODULE RunLifecycle ----------------------------
(***************************************************************************)
(* The reducer of the domain package: which lifecycle event a run accepts  *)
(* in which state, and the state it leaves.  The rest of the system keeps  *)
(* a run only as the replay of such events, so these operators are the     *)
(* vocabulary of every module that commits one.                            *)
(*                                                                         *)
(* Kept of RunState: the status, the cancel flag and the two references    *)
(* that say what a paused run waits for.  Approval and receipt identifiers *)
(* are positive numbers, NoRef is null.  Events that record model and tool *)
(* activity change none of this and share the type "activity"; goal        *)
(* accounting and goal steering, which only differ from one another in     *)
(* when they are accepted, are "accounting" and "steering".                *)
(***************************************************************************)
EXTENDS Naturals

NoRef == 0

RunStatuses ==
    {"queued", "running", "waitingApproval", "suspended", "reconciling",
     "completed", "failed", "canceled"}

RunState ==
    [status: RunStatuses, cancelRequested: BOOLEAN,
     waitingApproval: Nat, reconciliationReceiptId: Nat]

EventTypes ==
    {"run.created", "run.started", "run.approval.required", "run.resumed",
     "run.suspended", "run.reconciliation.required", "run.cancel.requested",
     "run.completed", "run.failed", "run.canceled",
     "accounting", "steering", "activity"}

isTerminal(status) == status \in {"completed", "failed", "canceled"}

createRun ==
    [status |-> "queued", cancelRequested |-> FALSE,
     waitingApproval |-> NoRef, reconciliationReceiptId |-> NoRef]

\* After a cancel request only what leads to run.canceled is accepted.
cancelProgressUnlessWaiting(r, type) ==
    r.cancelRequested =>
        \/ type \in {"run.canceled", "accounting"}
        \/ type = "run.reconciliation.required" /\ r.status = "running"
        \/ type = "run.resumed" /\ r.status = "reconciling"
validateCancelProgress(r, type) ==
    r.cancelRequested =>
        \/ type \in {"run.canceled", "accounting"}
        \/ type = "run.reconciliation.required" /\ r.status = "running"
        \/ /\ type = "run.resumed"
           /\ r.status \in {"reconciling", "waitingApproval"}

\* The statuses from which the reducer accepts an event of a type.
requiredStatus(type) ==
    CASE type = "run.started" -> {"queued"}
      [] type = "run.resumed" -> {"waitingApproval", "suspended", "reconciling"}
      [] type \in {"run.approval.required", "run.suspended", "run.completed",
                   "run.reconciliation.required", "activity"} -> {"running"}
      [] type = "run.canceled" -> RunStatuses \ {"reconciling"}
      [] type = "run.created" -> {}
      [] OTHER -> RunStatuses

accepts(r, type) ==
    /\ ~isTerminal(r.status)
    /\ validateCancelProgress(r, type)
    /\ r.status \in requiredStatus(type)
    /\ type = "run.canceled" => r.cancelRequested

\* The next state; `ref' is the approval or receipt the event names.
reduceRunLifecycleEvent(r, type, ref) ==
    CASE type = "run.started" -> [r EXCEPT !.status = "running"]
      [] type = "run.approval.required" ->
           [r EXCEPT !.status = "waitingApproval", !.waitingApproval = ref]
      [] type = "run.resumed" ->
           [r EXCEPT !.status = "running", !.waitingApproval = NoRef,
                     !.reconciliationReceiptId = NoRef]
      [] type = "run.suspended" -> [r EXCEPT !.status = "suspended"]
      [] type = "run.reconciliation.required" ->
           [r EXCEPT !.status = "reconciling", !.reconciliationReceiptId = ref]
      [] type = "run.cancel.requested" -> [r EXCEPT !.cancelRequested = TRUE]
      [] type = "run.completed" -> [r EXCEPT !.status = "completed"]
      [] type = "run.failed" -> [r EXCEPT !.status = "failed"]
      [] type = "run.canceled" -> [r EXCEPT !.status = "canceled"]
      [] OTHER -> r
=============================================================================
