----------------------------- MODULE WorkQueue -----------------------------
(***************************************************************************)
(* The durable lease queue of the store package: Work Items (runs to       *)
(* execute) and Outbox messages share it.  A record is pending, leased or  *)
(* settled.  Claiming it grants a lease with a fresh epoch; the holder     *)
(* renews, settles or retries it, and every such call names the epoch it   *)
(* was granted.  An expired lease is claimable again, so a holder that is  *)
(* slow, paused or dead may wake up beside its successor.                  *)
(*                                                                         *)
(* `leases' is what the claimants remember: a claimant may keep a lease    *)
(* for as long as it likes, use it late, or forget it in a crash.          *)
(* A lease identifier is generated for each claim, so it tells apart what  *)
(* the epoch of the item tells apart; the epoch stands for both.           *)
(***************************************************************************)
EXTENDS Naturals

CONSTANTS
    Items,          \* work items (or outbox messages)
    Owners,         \* claimants: runtime workers (or outbox dispatchers)
    NoOwner,        \* the null owner of a record without a lease
    LeaseDuration,  \* leaseDurationMs
    RetryDelays,    \* the retryAfterMs values in use
    ClaimOrder,     \* "oldestReady" for work items, "insertion" for the outbox
    MaxNow,         \* bound: the clock stops here
    MaxEpoch        \* bound: an item is claimed at most this often

ASSUME OwnersAssumption == NoOwner \notin Owners
ASSUME LeaseAssumption == LeaseDuration \in Nat \ {0}
ASSUME DelayAssumption == RetryDelays \subseteq Nat
ASSUME BoundAssumption == MaxNow \in Nat /\ MaxEpoch \in Nat
ASSUME OrderAssumption == ClaimOrder \in {"oldestReady", "insertion"}

VARIABLES
    now,        \* the lease clock
    records,    \* the QueueRecord of every item
    inserted,   \* how many records were inserted so far
    leases,     \* per owner, the leases it believes it holds
    wakeOwed,   \* history: a cancellation wake not yet followed by a claim
    passed      \* history: passed[j][i] claims of i overtook the ready item j

vars == <<now, records, inserted, leases, wakeOwed, passed>>

Statuses == {"absent", "pending", "leased", "settled"}

QueueRecord ==
    [status: Statuses, availableAt: Nat, owner: Owners \cup {NoOwner},
     epoch: Nat, expiresAt: Nat, wake: BOOLEAN, ordinal: Nat]

Lease == [item: Items, epoch: Nat]

\* The record a newly enqueued item gets.
queueRecord(createdAt, ordinal) ==
    [status |-> "pending", availableAt |-> createdAt, owner |-> NoOwner,
     epoch |-> 0, expiresAt |-> 0, wake |-> FALSE, ordinal |-> ordinal]

clearExpiry(r) == [r EXCEPT !.expiresAt = 0]
clearLease(r) == [r EXCEPT !.owner = NoOwner, !.expiresAt = 0]

\* A mutating call is accepted only from the current, unexpired lease.
validateRecordOwner(r, o, epoch, t) ==
    r.status = "leased" /\ r.owner = o /\ r.expiresAt > t
validateRecordLease(r, o, epoch, t) ==
    /\ r.status = "leased"
    /\ r.owner = o
    /\ r.epoch = epoch
    /\ r.expiresAt > t

isClaimableAnyLease(r, t) ==
    \/ r.status = "pending" /\ r.availableAt <= t
    \/ r.status = "leased"
isClaimable(r, t) ==
    \/ r.status = "pending" /\ r.availableAt <= t
    \/ r.status = "leased" /\ r.expiresAt <= t

\* Since when a record is claimable.
readyAt(r) == IF r.status = "pending" THEN r.availableAt ELSE r.expiresAt

\* The scan order of claimNext: insertion order, or oldest readiness first
\* with equal readiness in insertion order.
precedesByInsertion(r, s) == r.ordinal < s.ordinal
precedes(r, s) ==
    IF ClaimOrder = "insertion"
      THEN r.ordinal < s.ordinal
      ELSE \/ readyAt(r) < readyAt(s)
           \/ readyAt(r) = readyAt(s) /\ r.ordinal < s.ordinal

claimed(r, o, t) ==
    [r EXCEPT !.status = "leased", !.owner = o, !.epoch = @ + 1,
              !.expiresAt = t + LeaseDuration, !.wake = FALSE]

renewedBackwards(r, t) == [r EXCEPT !.expiresAt = t - 2 * LeaseDuration]
renewed(r, t) == [r EXCEPT !.expiresAt = t + LeaseDuration]

settled(r) == [clearLease(r) EXCEPT !.status = "settled"]

retriedLate(r, delay, t) ==
    [clearLease(r) EXCEPT !.status = "pending", !.availableAt = t + delay,
                          !.wake = FALSE]
retried(r, delay, t) ==
    [clearLease(r) EXCEPT !.status = "pending",
                          !.availableAt = IF r.wake THEN t ELSE t + delay,
                          !.wake = FALSE]

\* A cancel request for a reconciling run pulls its work item forward.
woken(r, t) ==
    [r EXCEPT !.availableAt = IF @ <= t THEN @ ELSE t, !.wake = TRUE]

available(r, t) == [r EXCEPT !.availableAt = t]

-----------------------------------------------------------------------------
absentRecord == [queueRecord(0, 0) EXCEPT !.status = "absent"]

Init ==
    /\ now = 0
    /\ records = [i \in Items |-> absentRecord]
    /\ inserted = 0
    /\ leases = [o \in Owners |-> {}]
    /\ wakeOwed = [i \in Items |-> FALSE]
    /\ passed = [j \in Items |-> [i \in Items |-> 0]]

Tick ==
    /\ now < MaxNow
    /\ now' = now + 1
    /\ UNCHANGED <<records, inserted, leases, wakeOwed, passed>>

\* A run commit inserts its work item.
Enqueue(i) ==
    /\ records[i].status = "absent"
    /\ inserted' = inserted + 1
    /\ records' = [records EXCEPT ![i] = queueRecord(now, inserted')]
    /\ UNCHANGED <<now, leases, wakeOwed, passed>>

\* j was ready before this instant and i was claimed instead of it.
Overtaken(j) == isClaimable(records[j], now) /\ readyAt(records[j]) < now

claimNext(o, i) ==
    /\ isClaimable(records[i], now)
    /\ \A j \in Items \ {i} :
         isClaimable(records[j], now) => precedes(records[i], records[j])
    /\ records[i].epoch < MaxEpoch
    /\ records' = [records EXCEPT ![i] = claimed(@, o, now)]
    /\ leases' = [leases EXCEPT ![o] =
                    @ \cup {[item |-> i, epoch |-> records[i].epoch + 1]}]
    /\ wakeOwed' = [wakeOwed EXCEPT ![i] = FALSE]
    /\ passed' = [j \in Items |->
                    [k \in Items |->
                       IF j = i THEN 0
                       ELSE IF k = i /\ Overtaken(j) THEN passed[j][k] + 1
                       ELSE passed[j][k]]]
    /\ UNCHANGED <<now, inserted>>

Holds(o, l) ==
    /\ l \in leases[o]
    /\ validateRecordLease(records[l.item], o, l.epoch, now)

Forget(o, l) == leases' = [leases EXCEPT ![o] = @ \ {l}]

renewWorkItemLease(o, l) ==
    /\ Holds(o, l)
    /\ records' = [records EXCEPT ![l.item] = renewed(@, now)]
    /\ UNCHANGED <<now, inserted, leases, wakeOwed, passed>>

settle(o, l) ==
    /\ Holds(o, l)
    /\ records' = [records EXCEPT ![l.item] = settled(@)]
    /\ Forget(o, l)
    /\ UNCHANGED <<now, inserted, wakeOwed, passed>>

retry(o, l, delay) ==
    /\ Holds(o, l)
    /\ records' = [records EXCEPT ![l.item] = retried(@, delay, now)]
    /\ Forget(o, l)
    /\ UNCHANGED <<now, inserted, wakeOwed, passed>>

\* A goal mutation cancels a queued run and takes its item away from whoever
\* holds it.
forceSettle(i) ==
    /\ records[i].status \in {"pending", "leased"}
    /\ records' = [records EXCEPT ![i] = settled(@)]
    /\ passed' = [passed EXCEPT ![i] = [k \in Items |-> 0]]
    /\ UNCHANGED <<now, inserted, leases, wakeOwed>>

\* The cancel request of a reconciling run.  A run takes one such request, the
\* queue does not depend on it.
cancellationWake(i) ==
    /\ records[i].status \in {"pending", "leased"}
    /\ records' = [records EXCEPT ![i] = woken(@, now)]
    /\ wakeOwed' = [wakeOwed EXCEPT ![i] = TRUE]
    /\ UNCHANGED <<now, inserted, leases, passed>>

\* A tool approval decision releases the item its run was held on.
decisionWake(i) ==
    /\ records[i].status = "pending"
    /\ records' = [records EXCEPT ![i] = available(@, now)]
    /\ passed' = [passed EXCEPT ![i] = [k \in Items |-> 0]]
    /\ UNCHANGED <<now, inserted, leases, wakeOwed>>

\* A claimant crashes, or is told by the store that its lease is gone.
loseLease(o, l) ==
    /\ l \in leases[o]
    /\ Forget(o, l)
    /\ UNCHANGED <<now, records, inserted, wakeOwed, passed>>

Next ==
    \/ Tick
    \/ \E i \in Items : Enqueue(i)
    \/ \E o \in Owners, i \in Items : claimNext(o, i)
    \/ \E o \in Owners : \E l \in leases[o] : renewWorkItemLease(o, l)
    \/ \E o \in Owners : \E l \in leases[o] : settle(o, l)
    \/ \E o \in Owners : \E l \in leases[o] :
         \E delay \in RetryDelays : retry(o, l, delay)
    \/ \E i \in Items : forceSettle(i)
    \/ \E i \in Items : cancellationWake(i)
    \/ \E i \in Items : decisionWake(i)
    \/ \E o \in Owners : \E l \in leases[o] : loseLease(o, l)

Spec == Init /\ [][Next]_vars

-----------------------------------------------------------------------------
\* The shapes of the queue's records and of the leases handed out.
TypeOK ==
    /\ now \in Nat
    /\ records \in [Items -> QueueRecord]
    /\ inserted \in Nat
    /\ leases \in [Owners -> SUBSET Lease]
    /\ wakeOwed \in [Items -> BOOLEAN]
    /\ passed \in [Items -> [Items -> Nat]]

\* What the records and the remembered leases have to do with each other:
\* a lease is never ahead of the record's epoch, an epoch was granted to one
\* owner only, and the owner in a leased record is the one that was granted
\* its current epoch.
LeaseInv ==
    /\ \A o \in Owners : \A l \in leases[o] :
         /\ l.epoch \in 1 .. records[l.item].epoch
         /\ \A p \in Owners : l \in leases[p] => p = o
         /\ /\ records[l.item].status = "leased"
            /\ records[l.item].epoch = l.epoch
            => records[l.item].owner = o
    /\ \A i \in Items :
         /\ records[i].status = "leased" => records[i].owner \in Owners
         /\ records[i].status # "leased" => records[i].owner = NoOwner
         /\ records[i].status = "absent" => records[i].epoch = 0

\* A lease that stopped being valid, because it expired or was given up,
\* never becomes valid again: no renewal, retry or later claim revives the
\* fenced-out worker (validateClaimedLease).
LostLeaseStaysLost ==
    [][\A o \in Owners : \A l \in leases[o] :
         l \in leases'[o] /\ ~Holds(o, l) => ~Holds(o, l)']_vars

\* A cancellation wake is never lost: until the next claim the item, once
\* pending, is available at once, also when the wake came while it was leased
\* and the holder then asked for a long retry delay (retry, claimNext).
WakeIsNotDelayed ==
    \A i \in Items :
        wakeOwed[i] /\ records[i].status = "pending"
            => records[i].availableAt <= now

\* No starvation among work items: while an item stays ready, another item is
\* claimed in its place at most once, however often that other item is
\* retried, woken or abandoned (oldestReady).
PassedAtMostOnce ==
    ClaimOrder = "oldestReady" =>
        \A i, j \in Items : passed[j][i] <= 1

\* The inductive strengthening of PassedAtMostOnce: an item that was claimed
\* in place of the ready item j is now behind j.
PassedInv ==
    ClaimOrder = "oldestReady" =>
        \A i, j \in Items :
            /\ passed[j][i] <= 1
            /\ passed[j][i] > 0 =>
                 /\ i # j
                 /\ isClaimable(records[j], now)
                 /\ readyAt(records[j]) < now
                 /\ records[i].status # "absent"
                 /\ records[i].status # "settled"
                      => readyAt(records[i]) > readyAt(records[j])

\* The queue implements fenced ownership: an unexpired lease is ownership.
Owned(i) == records[i].status = "leased" /\ records[i].expiresAt > now

Fenced == INSTANCE FencedOwnership WITH
    phase <- [i \in Items |->
                IF records[i].status = "settled" THEN "done"
                ELSE IF Owned(i) THEN "owned" ELSE "free"],
    holder <- [i \in Items |->
                IF Owned(i) THEN records[i].owner ELSE NoOwner],
    token <- [i \in Items |-> records[i].epoch]

\* Every behaviour of the queue is one of the abstract specification.
FencedSpec == Fenced!Spec
=============================================================================
