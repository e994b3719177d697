------------------------- MODULE RetainedExecutions -------------------------
(***************************************************************************)
(* The tool broker's retained executions in one process: a reservation     *)
(* takes its share of the process's result budget before anything is       *)
(* dispatched, an entry owns the physical execution and its result until   *)
(* the host acknowledges that the result is committed, and an interruption *)
(* (timeout, cancellation, closing worker) stops the waiting, not the      *)
(* physical execution.  The host is modelled as far as it decides what is  *)
(* reserved, executed, committed and acknowledged; nothing here keeps its  *)
(* loops over one command apart.                                           *)
(***************************************************************************)
EXTENDS Integers, FiniteSets

CONSTANTS
    Keys,               \* idempotency keys, one command each
    ReadOnly,           \* commands without external effect
    ReplaySafe,         \* reads that may simply be repeated
    Leases,             \* names for the leases on the budget
    ReservedBytes,      \* what a reservation takes of the budget
    SettledBytes,       \* what a settled entry keeps of it
    MaximumBytes,
    MaximumExecutions,
    MaxStarts,          \* how often a command's execution is started
    MaxRestarts

ASSUME KindAssumption == ReplaySafe \subseteq ReadOnly /\ ReadOnly \subseteq Keys
ASSUME BudgetAssumption ==
    /\ SettledBytes \in Nat \ {0}
    /\ ReservedBytes \in Nat /\ SettledBytes <= ReservedBytes
    /\ MaximumBytes \in Nat
    /\ MaximumExecutions \in Nat \ {0}
ASSUME BoundAssumption == MaxStarts \in Nat /\ MaxRestarts \in Nat

VARIABLES
    lease,        \* the bytes of each lease, 0 if nobody holds it
    bytes,        \* the account's sum
    reservation,  \* who reserved with the lease: a key and a stage, or none
    entry,        \* the retained entry of each key, or none
    running,      \* physical executions of the key that have not ended
    receipt,      \* the durable receipt of the key
    starts,       \* physical executions of the key started, ever
    completed,    \* the physical execution ended with a result
    look,         \* the maintenance pass over one entry
    restarts

vars == <<lease, bytes, reservation, entry, running, receipt, starts,
          completed, look, restarts>>

Mutation == Keys \ ReadOnly
Statuses == {"completed", "canceled", "unknownOutcome"}
NoReservation == [key |-> "none", stage |-> "free"]
NoEntry == [present |-> FALSE]
NoLook == [stage |-> "none"]

Entries ==
    [present : {TRUE}, lease : Leases, pending : BOOLEAN,
     settled : Statuses \cup {"none"},
     resolution : Statuses \cup {"waiting", "rejected"},
     recovery : Statuses \cup {"none"},
     interruption : {"none", "wait", "cancel"},
     acknowledgement : Statuses \cup {"none"}]

Receipts == Statuses \cup {"prepared", "dispatched"}

Looks ==
    [stage : {"scanned"}, key : Keys, status : Statuses]
    \cup [stage : {"read"}, key : Keys, status : Statuses, receipt : Receipts]

TypeOK ==
    /\ lease \in [Leases -> 0..ReservedBytes]
    /\ bytes \in 0..MaximumBytes
    /\ reservation \in [Leases -> {NoReservation} \cup
                          [key : Keys, stage : {"held", "dispatched"}]]
    /\ entry \in [Keys -> Entries \cup {NoEntry}]
    /\ running \in [Keys -> 0..MaxStarts]
    /\ receipt \in [Keys -> Receipts]
    /\ starts \in [Keys -> 0..MaxStarts]
    /\ completed \in [Keys -> BOOLEAN]
    /\ look \in Looks \cup {NoLook}
    /\ restarts \in 0..MaxRestarts

Init ==
    /\ lease = [l \in Leases |-> 0]
    /\ bytes = 0
    /\ reservation = [l \in Leases |-> NoReservation]
    /\ entry = [k \in Keys |-> NoEntry]
    /\ running = [k \in Keys |-> 0]
    /\ receipt = [k \in Keys |-> "prepared"]
    /\ starts = [k \in Keys |-> 0]
    /\ completed = [k \in Keys |-> FALSE]
    /\ look = NoLook
    /\ restarts = 0

Present(k) == entry[k].present
Pending(k) == Present(k) /\ entry[k].pending

-----------------------------------------------------------------------------
(* The budget.                                                             *)

Fits ==
    /\ Cardinality({l \in Leases : lease[l] > 0}) < MaximumExecutions
    /\ bytes + ReservedBytes <= MaximumBytes

Lend(l) ==
    /\ Fits
    /\ lease[l] = 0
    /\ lease' = [lease EXCEPT ![l] = ReservedBytes]
    /\ bytes' = bytes + ReservedBytes

Shrink(l) ==
    /\ lease' = [lease EXCEPT ![l] = SettledBytes]
    /\ bytes' = bytes - (lease[l] - SettledBytes)

ReturnReserved(l) ==
    /\ lease' = [lease EXCEPT ![l] = 0]
    /\ bytes' = bytes - ReservedBytes

\* Releasing a lease a second time does nothing.
Return(l) ==
    /\ lease' = [lease EXCEPT ![l] = 0]
    /\ bytes' = bytes - lease[l]

RemoveEntryOnly(k) ==
    /\ entry' = [entry EXCEPT ![k] = NoEntry]
    /\ UNCHANGED <<lease, bytes>>
Remove(k) ==
    /\ entry' = [entry EXCEPT ![k] = NoEntry]
    /\ Return(entry[k].lease)

-----------------------------------------------------------------------------
(* Reserving and starting.                                                 *)

\* The host reserves before it dispatches a prepared command, and before it
\* reconciles a replay-safe read by executing it again.  A key that is
\* retained answers with its entry and reserves nothing.
Reserve(l, k) ==
    /\ ~Present(k)
    /\ Lend(l)
    /\ \/ /\ receipt[k] = "prepared"
          /\ reservation' = [reservation EXCEPT
                                ![l] = [key |-> k, stage |-> "held"]]
       \/ /\ receipt[k] = "dispatched"
          /\ k \in ReplaySafe
          /\ reservation' = [reservation EXCEPT
                                ![l] = [key |-> k, stage |-> "dispatched"]]
    /\ UNCHANGED <<entry, running, receipt, starts, completed, look, restarts>>

DispatchAgain(l) ==
    LET k == reservation[l].key IN
    /\ reservation[l].stage = "held"
    /\ receipt' = [receipt EXCEPT ![k] = "dispatched"]
    /\ reservation' = [reservation EXCEPT ![l].stage = "dispatched"]
    /\ UNCHANGED <<lease, bytes, entry, running, starts, completed, look, restarts>>

\* The receipt says dispatched before the execution may start.
Dispatch(l) ==
    LET k == reservation[l].key IN
    /\ reservation[l].stage = "held"
    /\ receipt[k] = "prepared"
    /\ receipt' = [receipt EXCEPT ![k] = "dispatched"]
    /\ reservation' = [reservation EXCEPT ![l].stage = "dispatched"]
    /\ UNCHANGED <<lease, bytes, entry, running, starts, completed, look, restarts>>

\* The host gives the reservation up: dispatching failed or lost its lease.
ReleaseReservation(l) ==
    /\ reservation[l].stage # "free"
    /\ reservation' = [reservation EXCEPT ![l] = NoReservation]
    /\ Return(l)
    /\ UNCHANGED <<entry, running, receipt, starts, completed, look, restarts>>

StartedEntry(l) ==
    [present |-> TRUE, lease |-> l, pending |-> TRUE, settled |-> "none",
     resolution |-> "waiting", recovery |-> "none",
     interruption |-> "none", acknowledgement |-> "none"]

\* Interrupted before the handler was called: canceled, with no effect.
AbortedEntry(l) ==
    [present |-> TRUE, lease |-> l, pending |-> FALSE, settled |-> "canceled",
     resolution |-> "canceled", recovery |-> "canceled",
     interruption |-> "cancel", acknowledgement |-> "none"]

Starts(k) ==
    /\ starts[k] < MaxStarts
    /\ starts' = [starts EXCEPT ![k] = @ + 1]
    /\ running' = [running EXCEPT ![k] = @ + 1]

\* A retained entry that appeared since the reservation answers instead.
Execute(l) ==
    LET k == reservation[l].key IN
    /\ reservation[l].stage = "dispatched"
    /\ reservation' = [reservation EXCEPT ![l] = NoReservation]
    /\ \/ /\ Present(k)
          /\ Return(l)
          /\ UNCHANGED <<entry, running, starts>>
       \/ /\ ~Present(k)
          /\ Starts(k)
          /\ entry' = [entry EXCEPT ![k] = StartedEntry(l)]
          /\ UNCHANGED <<lease, bytes>>
       \/ /\ ~Present(k)
          /\ entry' = [entry EXCEPT ![k] = AbortedEntry(l)]
          /\ Shrink(l)
          /\ UNCHANGED <<running, starts>>
    /\ UNCHANGED <<receipt, completed, look, restarts>>

\* A receipt was dispatched and nothing is retained: unless the command can
\* be executed again its outcome is unknown.
Reconcile(k) ==
    /\ receipt[k] = "dispatched"
    /\ ~Present(k)
    /\ k \notin ReplaySafe
    /\ receipt' = [receipt EXCEPT ![k] = "unknownOutcome"]
    /\ UNCHANGED <<lease, bytes, reservation, entry, running, starts, completed,
                   look, restarts>>

-----------------------------------------------------------------------------
(* Interruption and the physical end.                                      *)

UncertainAsCanceled(k) == "canceled"
Uncertain(k) == IF k \in Mutation THEN "unknownOutcome" ELSE "canceled"

\* A timeout or a closing worker makes the host stop waiting for a read;
\* anything else, and any interruption of a mutation, settles it.
Interrupt(k) ==
    /\ Pending(k)
    /\ entry[k].interruption = "none"
    /\ \/ /\ k \in ReadOnly
          /\ entry' = [entry EXCEPT ![k].interruption = "wait",
                                    ![k].resolution = "rejected"]
       \/ entry' = [entry EXCEPT ![k].interruption = "cancel",
                                 ![k].settled = Uncertain(k),
                                 ![k].recovery = Uncertain(k),
                                 ![k].resolution = Uncertain(k)]
    /\ UNCHANGED <<lease, bytes, reservation, running, receipt, starts,
                   completed, look, restarts>>

\* A durable cancellation also ends the waiting of a read that is waited for.
Cancel(k) ==
    /\ Pending(k)
    /\ entry[k].interruption # "cancel"
    /\ entry' = [entry EXCEPT ![k].interruption = "cancel",
                              ![k].settled = Uncertain(k),
                              ![k].recovery = Uncertain(k),
                              ![k].resolution =
                                  IF @ = "waiting" THEN Uncertain(k) ELSE @]
    /\ UNCHANGED <<lease, bytes, reservation, running, receipt, starts,
                   completed, look, restarts>>

PublishedFirst(k, status) ==
    IF entry[k].interruption = "cancel" THEN entry[k].settled ELSE status

\* A canceled read stays canceled; a mutation's late completion is stronger
\* evidence than the unknown outcome reported before.
Published(k, status) ==
    IF k \in ReadOnly /\ entry[k].interruption = "cancel"
    THEN entry[k].settled
    ELSE status

\* An acknowledgement given early counts only for the status it named.
SettledEntry(k, status) ==
    [entry[k] EXCEPT
        !.pending = FALSE,
        !.settled = status,
        !.recovery = IF entry[k].interruption # "none" THEN status ELSE @,
        !.resolution = IF @ = "waiting" THEN status ELSE @,
        !.acknowledgement = "none"]

\* A read nobody waits for and that brought no result is forgotten.
Forgets(k, status) ==
    entry[k].interruption = "wait" /\ status # "completed" /\ k \in ReplaySafe

\* The physical execution ends with a result, or with the uncertainty of an
\* execution that was aborted or says it does not know.
Publish(k, ended) ==
    LET status == Published(k, ended) IN
    /\ Pending(k)
    /\ ended \in {"completed", Uncertain(k)}
    /\ running' = [running EXCEPT ![k] = @ - 1]
    /\ completed' = [completed EXCEPT ![k] = @ \/ ended = "completed"]
    /\ IF Forgets(k, status) \/ entry[k].acknowledgement = status
         THEN Remove(k)
         ELSE /\ entry' = [entry EXCEPT ![k] = SettledEntry(k, status)]
              /\ Shrink(entry[k].lease)
    /\ UNCHANGED <<reservation, receipt, starts, look, restarts>>

\* The adapter throws.  Only a replay-safe read forgets that it was started;
\* a mutation keeps an unknown outcome for recovery.
Fail(k) ==
    /\ Pending(k)
    /\ entry[k].interruption = "none"
    /\ running' = [running EXCEPT ![k] = @ - 1]
    /\ IF k \in ReplaySafe
         THEN Remove(k)
         ELSE LET fence == IF k \in Mutation THEN "unknownOutcome" ELSE "none" IN
              /\ entry' = [entry EXCEPT ![k].pending = FALSE,
                                        ![k].resolution = "rejected",
                                        ![k].settled = fence,
                                        ![k].recovery = fence]
              /\ Shrink(entry[k].lease)
    /\ UNCHANGED <<reservation, receipt, starts, completed, look, restarts>>

-----------------------------------------------------------------------------
(* Committing and acknowledging.                                           *)

\* The host commits an outcome it was given, early or late; what is unknown
\* may still become known, nothing else changes.
Commit(k) ==
    /\ Present(k)
    /\ receipt[k] \in {"dispatched", "unknownOutcome"}
    /\ \E status \in Statuses \cap {entry[k].resolution, entry[k].recovery} :
          /\ status # receipt[k]
          /\ receipt' = [receipt EXCEPT ![k] = status]
    /\ UNCHANGED <<lease, bytes, reservation, entry, running, starts,
                   completed, look, restarts>>

\* A committed receipt releases the entry if both tell the same outcome.
\* While the execution still runs the acknowledgement is only noted.
Acknowledge(k, status) ==
    /\ Present(k)
    /\ entry[k].settled = status
    /\ IF entry[k].pending
         THEN /\ entry' = [entry EXCEPT ![k].acknowledgement = status]
              /\ UNCHANGED <<lease, bytes>>
         ELSE Remove(k)

\* The host acknowledges what it has just committed.
AcknowledgeCommitted(k) ==
    /\ receipt[k] \in Statuses
    /\ Acknowledge(k, receipt[k])
    /\ UNCHANGED <<reservation, running, receipt, starts, completed, look, restarts>>

\* Maintenance takes the metadata of a settled entry ...
Scan(k) ==
    /\ look = NoLook
    /\ Present(k)
    /\ entry[k].settled # "none"
    /\ look' = [stage |-> "scanned", key |-> k, status |-> entry[k].settled]
    /\ UNCHANGED <<lease, bytes, reservation, entry, running, receipt, starts,
                   completed, restarts>>

\* ... reads the receipt of its action from the store ...
ReadReceipt ==
    /\ look.stage = "scanned"
    /\ look' = [stage |-> "read", key |-> look.key, status |-> look.status,
                receipt |-> receipt[look.key]]
    /\ UNCHANGED <<lease, bytes, reservation, entry, running, receipt, starts,
                   completed, restarts>>

\* ... and acknowledges it, unless it is not settled, or unknown where the
\* entry knows more.
VouchesIfKnown(k, status, scanned) == status \in Statuses \ {"unknownOutcome"}
Vouches(k, status, scanned) ==
    /\ status \in Statuses
    /\ status = "unknownOutcome" => scanned = "unknownOutcome"

Maintain ==
    /\ look.stage = "read"
    /\ look' = NoLook
    /\ IF /\ Vouches(look.key, look.receipt, look.status)
          /\ Present(look.key)
          /\ entry[look.key].settled = look.receipt
         THEN Acknowledge(look.key, look.receipt)
         ELSE UNCHANGED <<lease, bytes, entry>>
    /\ UNCHANGED <<reservation, running, receipt, starts, completed, restarts>>

\* The process dies with everything it retained; receipts survive it.
Restart ==
    /\ restarts < MaxRestarts
    /\ restarts' = restarts + 1
    /\ lease' = [l \in Leases |-> 0]
    /\ bytes' = 0
    /\ reservation' = [l \in Leases |-> NoReservation]
    /\ entry' = [k \in Keys |-> NoEntry]
    /\ running' = [k \in Keys |-> 0]
    /\ completed' = [k \in Keys |-> FALSE]
    /\ look' = NoLook
    /\ UNCHANGED <<receipt, starts>>

-----------------------------------------------------------------------------
Ends(k) == Fail(k) \/ \E ended \in Statuses : Publish(k, ended)

Next ==
    \/ \E l \in Leases :
          \/ \E k \in Keys : Reserve(l, k)
          \/ Dispatch(l) \/ ReleaseReservation(l) \/ Execute(l)
    \/ \E k \in Keys :
          \/ Reconcile(k) \/ Interrupt(k) \/ Cancel(k) \/ Ends(k)
          \/ Commit(k) \/ AcknowledgeCommitted(k) \/ Scan(k)
    \/ ReadReceipt \/ Maintain \/ Restart

Spec == Init /\ [][Next]_vars

\* Every poll of a worker's loop runs a maintenance pass.  A scan moves the
\* entry it visits behind the others, so each settled one has its turn again
\* and again, and the store answers.  Nothing makes a handler end or the host
\* commit, acknowledge, reconcile or execute: its run may have gone on, or have
\* been canceled, in another process.
Fairness ==
    /\ \A k \in Keys : SF_vars(Scan(k))
    /\ WF_vars(ReadReceipt)
    /\ WF_vars(Maintain)

FairSpec == Spec /\ Fairness

-----------------------------------------------------------------------------
(* Properties.                                                             *)

\* Leases at the full share, held for a reservation or an execution that has
\* not ended, and leases that settled entries keep.
Reserved == {l \in Leases : reservation[l] # NoReservation}
Open == Reserved \cup {entry[k].lease : k \in {j \in Keys : Pending(j)}}
Kept == {entry[k].lease : k \in {j \in Keys : Present(j) /\ ~Pending(j)}}

Share(l) ==
    IF l \in Open THEN ReservedBytes ELSE IF l \in Kept THEN SettledBytes ELSE 0

\* The account of the result budget is exact and within its limits, and every
\* lease has one owner: a path that forgets to give its lease back, or gives
\* back that of another, would exhaust the budget or overdraw it.
AccountIsExact ==
    /\ bytes = ReservedBytes * Cardinality(Open) + SettledBytes * Cardinality(Kept)
    /\ bytes <= MaximumBytes
    /\ Cardinality(Open \cup Kept) <= MaximumExecutions
    /\ \A l \in Leases : lease[l] = Share(l)
    /\ \A j, k \in Keys :
          Present(j) /\ Present(k) /\ entry[j].lease = entry[k].lease => j = k
    /\ \A k \in Keys : Present(k) => entry[k].lease \notin Reserved

\* A command is not executed beside an execution of it that still runs, even
\* after the host stopped waiting for that one; a mutation is started once.
OneExecutionPerKey ==
    \A k \in Keys :
        /\ running[k] <= 1
        /\ k \in Mutation => starts[k] <= 1

\* The result of a mutation stays retained until its receipt says completed,
\* though an unknown outcome was reported, committed or acknowledged before
\* the execution ended.
CompletionIsKept ==
    \A k \in Mutation :
        completed[k] /\ receipt[k] # "completed" =>
            Present(k) /\ entry[k].settled = "completed"

\* A mutation recorded as canceled was never started: it had no effect.
CanceledHadNoEffect ==
    \A k \in Mutation : receipt[k] = "canceled" => starts[k] = 0

\* An entry that has settled and whose receipt tells the same outcome, unknown
\* or not, is released in the end and its share of the budget returned, even if
\* the host never acknowledges what it committed: a pass of #inspect meets it,
\* though the entry, the receipt and others may change between its steps.
\* An entry whose receipt was never committed is kept till the process ends.
CommittedIsReleased ==
    \A k \in Keys :
        (Present(k) /\ ~Pending(k) /\ receipt[k] = entry[k].settled) ~> ~Present(k)
=============================================================================
