--------------------------- MODULE WorkQueueProofs ---------------------------
(***************************************************************************)
(* What the durable queue guarantees for any number of items and owners,   *)
(* any lease duration, any retry delays and any bounds.                    *)
(***************************************************************************)
EXTENDS WorkQueue, TLAPS

\* The result of every record operation is a record again.
LEMMA NewRecordType ==
    ASSUME NEW t \in Nat, NEW n \in Nat
    PROVE  /\ queueRecord(t, n) \in QueueRecord
           /\ absentRecord \in QueueRecord
<1>1. queueRecord(t, n) \in QueueRecord
  BY DEF queueRecord, QueueRecord, Statuses
<1>2. absentRecord \in QueueRecord
  BY DEF absentRecord, queueRecord, QueueRecord, Statuses
<1> QED BY <1>1, <1>2

LEMMA ClaimedType ==
    ASSUME NEW r \in QueueRecord, NEW o \in Owners, NEW t \in Nat
    PROVE  claimed(r, o, t) \in QueueRecord
<1>1. t + LeaseDuration \in Nat
  BY LeaseAssumption
<1>2. r.epoch + 1 \in Nat
  BY DEF QueueRecord
<1> QED BY <1>1, <1>2 DEF claimed, QueueRecord, Statuses

LEMMA RetriedType ==
    ASSUME NEW r \in QueueRecord, NEW t \in Nat, NEW d \in Nat
    PROVE  retried(r, d, t) \in QueueRecord
<1> DEFINE at == IF r.wake THEN t ELSE t + d
<1>1. at \in Nat
  OBVIOUS
<1> HIDE DEF at
<1>2. [clearLease(r) EXCEPT !.status = "pending", !.availableAt = at,
                            !.wake = FALSE] \in QueueRecord
  BY <1>1 DEF clearLease, QueueRecord, Statuses
<1> QED BY <1>2 DEF retried, at

LEMMA RecordTypes ==
    ASSUME NEW r \in QueueRecord, NEW t \in Nat
    PROVE  /\ renewed(r, t) \in QueueRecord
           /\ settled(r) \in QueueRecord
           /\ woken(r, t) \in QueueRecord
           /\ available(r, t) \in QueueRecord
<1> USE DEF QueueRecord, Statuses
<1>1. renewed(r, t) \in QueueRecord
  BY LeaseAssumption DEF renewed
<1>2. settled(r) \in QueueRecord
  BY DEF settled, clearLease
<1>3. woken(r, t) \in QueueRecord
  BY DEF woken
<1>4. available(r, t) \in QueueRecord
  BY DEF available
<1> QED BY <1>1, <1>2, <1>3, <1>4

\* The type invariant is inductive: no operation of the queue produces a
\* record or a lease of another shape.
THEOREM TypeCorrect == Spec => []TypeOK
<1>1. Init => TypeOK
  BY NewRecordType DEF Init, TypeOK
<1>2. TypeOK /\ [Next]_vars => TypeOK'
  <2> SUFFICES ASSUME TypeOK, [Next]_vars PROVE TypeOK'
    OBVIOUS
  <2> USE DEF TypeOK
  <2>1. CASE Tick
    BY <2>1 DEF Tick
  <2>2. ASSUME NEW i \in Items, Enqueue(i) PROVE TypeOK'
    <3>1. queueRecord(now, inserted') \in QueueRecord
      BY <2>2, NewRecordType DEF Enqueue
    <3> QED BY <2>2, <3>1 DEF Enqueue
  <2>3. ASSUME NEW o \in Owners, NEW i \in Items, claimNext(o, i)
        PROVE  TypeOK'
    <3>1. claimed(records[i], o, now) \in QueueRecord
      BY ClaimedType
    <3>2. records' \in [Items -> QueueRecord]
      BY <2>3, <3>1 DEF claimNext
    <3>3. records[i].epoch + 1 \in Nat
      BY DEF QueueRecord
    <3>4. leases' \in [Owners -> SUBSET Lease]
      BY <2>3, <3>3 DEF claimNext, Lease
    <3>5. passed' \in [Items -> [Items -> Nat]]
      BY <2>3 DEF claimNext
    <3> QED BY <2>3, <3>2, <3>4, <3>5 DEF claimNext
  <2>4. ASSUME NEW o \in Owners, NEW l \in leases[o], renewWorkItemLease(o, l)
        PROVE  TypeOK'
    <3>0. l.item \in Items
      BY DEF Lease
    <3>1. renewed(records[l.item], now) \in QueueRecord
      BY <3>0, RecordTypes
    <3> QED BY <2>4, <3>1 DEF renewWorkItemLease
  <2>5. ASSUME NEW o \in Owners, NEW l \in leases[o], settle(o, l)
        PROVE  TypeOK'
    <3>0. l.item \in Items
      BY DEF Lease
    <3>1. settled(records[l.item]) \in QueueRecord
      BY <3>0, RecordTypes
    <3> QED BY <2>5, <3>1 DEF settle, Forget
  <2>6. ASSUME NEW o \in Owners, NEW l \in leases[o],
               NEW delay \in RetryDelays, retry(o, l, delay)
        PROVE  TypeOK'
    <3>0. l.item \in Items
      BY DEF Lease
    <3>1. retried(records[l.item], delay, now) \in QueueRecord
      BY <3>0, RetriedType, DelayAssumption
    <3> QED BY <2>6, <3>1 DEF retry, Forget
  <2>7. ASSUME NEW i \in Items, forceSettle(i) PROVE TypeOK'
    <3>1. settled(records[i]) \in QueueRecord
      BY RecordTypes
    <3> QED BY <2>7, <3>1 DEF forceSettle
  <2>8. ASSUME NEW i \in Items, cancellationWake(i) PROVE TypeOK'
    <3>1. woken(records[i], now) \in QueueRecord
      BY RecordTypes
    <3> QED BY <2>8, <3>1 DEF cancellationWake
  <2>9. ASSUME NEW i \in Items, decisionWake(i) PROVE TypeOK'
    <3>1. available(records[i], now) \in QueueRecord
      BY RecordTypes
    <3> QED BY <2>9, <3>1 DEF decisionWake
  <2>10. ASSUME NEW o \in Owners, NEW l \in leases[o], loseLease(o, l)
         PROVE  TypeOK'
    BY <2>10 DEF loseLease, Forget
  <2>11. CASE UNCHANGED vars
    BY <2>11 DEF vars
  <2> QED
    BY <2>1, <2>2, <2>3, <2>4, <2>5, <2>6, <2>7, <2>8, <2>9, <2>10, <2>11
       DEF Next
<1> QED BY <1>1, <1>2, PTL DEF Spec

-----------------------------------------------------------------------------
\* What each record operation does to the fields the invariants speak of.
LEMMA FreshFields ==
    ASSUME NEW t \in Nat, NEW n \in Nat
    PROVE  /\ queueRecord(t, n).status = "pending"
           /\ queueRecord(t, n).owner = NoOwner
           /\ queueRecord(t, n).epoch = 0
           /\ queueRecord(t, n).availableAt = t
           /\ absentRecord.status = "absent"
           /\ absentRecord.owner = NoOwner
           /\ absentRecord.epoch = 0
  BY DEF queueRecord, absentRecord

LEMMA ClaimedFields ==
    ASSUME NEW r \in QueueRecord, NEW o \in Owners, NEW t \in Nat
    PROVE  /\ claimed(r, o, t).status = "leased"
           /\ claimed(r, o, t).owner = o
           /\ claimed(r, o, t).epoch = r.epoch + 1
           /\ claimed(r, o, t).expiresAt = t + LeaseDuration
           /\ claimed(r, o, t).availableAt = r.availableAt
  BY DEF claimed, QueueRecord

LEMMA RenewedFields ==
    ASSUME NEW r \in QueueRecord, NEW t \in Nat
    PROVE  /\ renewed(r, t).status = r.status
           /\ renewed(r, t).owner = r.owner
           /\ renewed(r, t).epoch = r.epoch
           /\ renewed(r, t).expiresAt = t + LeaseDuration
           /\ renewed(r, t).availableAt = r.availableAt
           /\ renewed(r, t).wake = r.wake
  BY DEF renewed, QueueRecord

LEMMA SettledFields ==
    ASSUME NEW r \in QueueRecord
    PROVE  /\ settled(r).status = "settled"
           /\ settled(r).owner = NoOwner
           /\ settled(r).epoch = r.epoch
           /\ settled(r).availableAt = r.availableAt
  BY DEF settled, clearLease, QueueRecord

LEMMA RetriedFields ==
    ASSUME NEW r \in QueueRecord, NEW t \in Nat, NEW d \in Nat
    PROVE  /\ retried(r, d, t).status = "pending"
           /\ retried(r, d, t).owner = NoOwner
           /\ retried(r, d, t).epoch = r.epoch
           /\ retried(r, d, t).availableAt = IF r.wake THEN t ELSE t + d
  BY DEF retried, clearLease, QueueRecord

LEMMA WokenFields ==
    ASSUME NEW r \in QueueRecord, NEW t \in Nat
    PROVE  /\ woken(r, t).status = r.status
           /\ woken(r, t).owner = r.owner
           /\ woken(r, t).epoch = r.epoch
           /\ woken(r, t).expiresAt = r.expiresAt
           /\ woken(r, t).availableAt =
                IF r.availableAt <= t THEN r.availableAt ELSE t
           /\ woken(r, t).wake = TRUE
  BY DEF woken, QueueRecord

LEMMA AvailableFields ==
    ASSUME NEW r \in QueueRecord, NEW t \in Nat
    PROVE  /\ available(r, t).status = r.status
           /\ available(r, t).owner = r.owner
           /\ available(r, t).epoch = r.epoch
           /\ available(r, t).expiresAt = r.expiresAt
           /\ available(r, t).availableAt = t
           /\ available(r, t).wake = r.wake
  BY DEF available, QueueRecord

-----------------------------------------------------------------------------
\* A step that neither grants an epoch nor changes the owner of a lease that
\* stays in force keeps the bookkeeping of the leases.
LEMMA LeaseFrame ==
    ASSUME TypeOK, LeaseInv,
           NEW i \in Items, NEW r \in QueueRecord,
           records' = [records EXCEPT ![i] = r],
           r.epoch = records[i].epoch,
           r.status = "leased" => /\ records[i].status = "leased"
                                  /\ r.owner = records[i].owner,
           r.status # "leased" => r.owner = NoOwner,
           r.status # "absent",
           \A o \in Owners : leases'[o] \subseteq leases[o]
    PROVE  LeaseInv'
<1>1. \A o \in Owners : \A l \in leases[o] : l.item \in Items
  BY DEF TypeOK, Lease
<1>2. records'[i] = r /\ \A j \in Items \ {i} : records'[j] = records[j]
  BY DEF TypeOK
<1>3. \A j \in Items :
         /\ records'[j].status = "leased" => records'[j].owner \in Owners
         /\ records'[j].status # "leased" => records'[j].owner = NoOwner
         /\ records'[j].status = "absent" => records'[j].epoch = 0
  BY <1>2 DEF LeaseInv
<1>4. ASSUME NEW o \in Owners, NEW l \in leases'[o]
      PROVE  /\ l.epoch \in 1 .. records'[l.item].epoch
             /\ \A p \in Owners : l \in leases'[p] => p = o
             /\ /\ records'[l.item].status = "leased"
                /\ records'[l.item].epoch = l.epoch
                => records'[l.item].owner = o
  <2>1. l \in leases[o] /\ l.item \in Items
    BY <1>1
  <2>2. CASE l.item = i
    BY <1>2, <2>1, <2>2 DEF LeaseInv
  <2>3. CASE l.item # i
    BY <1>2, <2>1, <2>3 DEF LeaseInv
  <2> QED BY <2>2, <2>3
<1> QED BY <1>3, <1>4 DEF LeaseInv

LEMMA LeaseInvStep == TypeOK /\ TypeOK' /\ LeaseInv /\ [Next]_vars => LeaseInv'
<1> SUFFICES ASSUME TypeOK, TypeOK', LeaseInv, [Next]_vars PROVE LeaseInv'
  OBVIOUS
<1>l. \A o \in Owners : \A l \in leases[o] : l.item \in Items /\ l.epoch \in Nat
  BY DEF TypeOK, Lease
<1>r. \A i \in Items : records[i] \in QueueRecord /\ records[i].epoch \in Nat
  BY DEF TypeOK, QueueRecord
<1>n. now \in Nat /\ inserted' \in Nat
  BY DEF TypeOK
<1>f. ASSUME NEW o \in Owners, NEW l \in leases[o], Forget(o, l)
      PROVE  \A p \in Owners : leases'[p] \subseteq leases[p]
  BY <1>f DEF Forget, TypeOK
<1>h. ASSUME NEW o \in Owners, NEW l \in leases[o], Holds(o, l)
      PROVE  records[l.item].status = "leased"
  BY <1>h DEF Holds, validateRecordLease
<1>1. CASE Tick
  BY <1>1 DEF Tick, LeaseInv
<1>2. ASSUME NEW i \in Items, Enqueue(i) PROVE LeaseInv'
  <2>1. records[i].status = "absent"
    BY <1>2 DEF Enqueue
  <2>2. records' = [records EXCEPT ![i] = queueRecord(now, inserted')]
    BY <1>2 DEF Enqueue
  <2>3. leases' = leases
    BY <1>2 DEF Enqueue
  <2>4. queueRecord(now, inserted').epoch = records[i].epoch
    BY <1>n, <2>1, FreshFields DEF LeaseInv
  <2> HIDE DEF queueRecord
  <2> QED BY <1>n, <2>2, <2>3, <2>4, FreshFields, NewRecordType, LeaseFrame
<1>3. ASSUME NEW o \in Owners, NEW i \in Items, claimNext(o, i)
      PROVE  LeaseInv'
  <2> DEFINE c == claimed(records[i], o, now)
             new == [item |-> i, epoch |-> records[i].epoch + 1]
  <2>1. /\ c.status = "leased"
        /\ c.owner = o
        /\ c.epoch = records[i].epoch + 1
    BY <1>n, <1>r, ClaimedFields
  <2> HIDE DEF c
  <2>2. records'[i] = c /\ \A j \in Items \ {i} : records'[j] = records[j]
    BY <1>3 DEF claimNext, TypeOK, c
  <2>3. /\ leases'[o] = leases[o] \cup {new}
        /\ \A p \in Owners \ {o} : leases'[p] = leases[p]
    BY <1>3 DEF claimNext, TypeOK
  <2>4. new.item = i /\ new.epoch = records[i].epoch + 1
    OBVIOUS
  <2> HIDE DEF new
  <2>5. \A j \in Items :
         /\ records'[j].status = "leased" => records'[j].owner \in Owners
         /\ records'[j].status # "leased" => records'[j].owner = NoOwner
         /\ records'[j].status = "absent" => records'[j].epoch = 0
    BY <2>1, <2>2 DEF LeaseInv
  <2>6. \A p \in Owners : new \notin leases[p]
    BY <1>r, <2>4 DEF LeaseInv
  <2>7. ASSUME NEW p \in Owners, NEW l \in leases'[p]
        PROVE  /\ l.epoch \in 1 .. records'[l.item].epoch
               /\ \A q \in Owners : l \in leases'[q] => q = p
               /\ /\ records'[l.item].status = "leased"
                  /\ records'[l.item].epoch = l.epoch
                  => records'[l.item].owner = p
    <3>1. CASE l = new
      <4>1. p = o
        BY <2>3, <2>6, <3>1
      <4>2. \A q \in Owners : l \in leases'[q] => q = p
        BY <2>3, <2>6, <3>1
      <4>3. l.epoch \in 1 .. records'[l.item].epoch
        BY <1>r, <2>1, <2>2, <2>4, <3>1
      <4> QED BY <2>1, <2>2, <2>4, <3>1, <4>1, <4>2, <4>3
    <3>2. CASE l # new
      <4>1. l \in leases[p] /\ l.item \in Items /\ l.epoch \in Nat
        BY <1>l, <2>3, <3>2
      <4>2. /\ l.epoch \in 1 .. records[l.item].epoch
            /\ \A q \in Owners : l \in leases[q] => q = p
        BY <4>1 DEF LeaseInv
      <4>3. \A q \in Owners : l \in leases'[q] => q = p
        BY <2>3, <3>2, <4>2
      <4>4. CASE l.item = i
        <5>1. l.epoch \in 1 .. records'[l.item].epoch
          BY <1>r, <2>1, <2>2, <4>2, <4>4
        <5>2. records'[l.item].epoch # l.epoch
          BY <1>r, <2>1, <2>2, <4>2, <4>4
        <5> QED BY <4>3, <5>1, <5>2
      <4>5. CASE l.item # i
        BY <2>2, <4>1, <4>3, <4>5 DEF LeaseInv
      <4> QED BY <4>4, <4>5
    <3> QED BY <3>1, <3>2
  <2> QED BY <2>5, <2>7 DEF LeaseInv
<1>4. ASSUME NEW o \in Owners, NEW l \in leases[o], renewWorkItemLease(o, l)
      PROVE  LeaseInv'
  <2> DEFINE r == renewed(records[l.item], now)
  <2>1. /\ records' = [records EXCEPT ![l.item] = r]
        /\ leases' = leases
        /\ records[l.item].status = "leased"
    BY <1>4, <1>h DEF renewWorkItemLease
  <2>2. l.item \in Items /\ records[l.item] \in QueueRecord
    BY <1>l, <1>r
  <2>3. /\ r \in QueueRecord
        /\ r.status = records[l.item].status
        /\ r.owner = records[l.item].owner
        /\ r.epoch = records[l.item].epoch
    BY <1>n, <2>2, RenewedFields, RecordTypes
  <2> HIDE DEF r
  <2> QED BY <2>1, <2>2, <2>3, LeaseFrame
<1>5. ASSUME NEW o \in Owners, NEW l \in leases[o], settle(o, l)
      PROVE  LeaseInv'
  <2>1. /\ records' = [records EXCEPT ![l.item] = settled(records[l.item])]
        /\ \A p \in Owners : leases'[p] \subseteq leases[p]
    BY <1>5, <1>f DEF settle
  <2>2. l.item \in Items /\ records[l.item] \in QueueRecord
    BY <1>l, <1>r
  <2> QED BY <1>n, <2>1, <2>2, SettledFields, RecordTypes, LeaseFrame
<1>6. ASSUME NEW o \in Owners, NEW l \in leases[o],
             NEW delay \in RetryDelays, retry(o, l, delay)
      PROVE  LeaseInv'
  <2> DEFINE r == retried(records[l.item], delay, now)
  <2>1. /\ records' = [records EXCEPT ![l.item] = r]
        /\ \A p \in Owners : leases'[p] \subseteq leases[p]
    BY <1>6, <1>f DEF retry
  <2>2. l.item \in Items /\ records[l.item] \in QueueRecord /\ delay \in Nat
    BY <1>l, <1>r, DelayAssumption
  <2>3. /\ r \in QueueRecord
        /\ r.status = "pending"
        /\ r.owner = NoOwner
        /\ r.epoch = records[l.item].epoch
    BY <1>n, <2>2, RetriedFields, RetriedType
  <2> HIDE DEF r
  <2> QED BY <2>1, <2>2, <2>3, LeaseFrame
<1>7. ASSUME NEW i \in Items, forceSettle(i) PROVE LeaseInv'
  <2>1. /\ records' = [records EXCEPT ![i] = settled(records[i])]
        /\ leases' = leases
    BY <1>7 DEF forceSettle
  <2> QED BY <1>n, <1>r, <2>1, SettledFields, RecordTypes, LeaseFrame
<1>8. ASSUME NEW i \in Items, cancellationWake(i) PROVE LeaseInv'
  <2> DEFINE r == woken(records[i], now)
  <2>1. /\ records' = [records EXCEPT ![i] = r]
        /\ leases' = leases
        /\ records[i].status \in {"pending", "leased"}
    BY <1>8 DEF cancellationWake
  <2>2. records[i].status # "leased" => records[i].owner = NoOwner
    BY DEF LeaseInv
  <2>3. /\ r \in QueueRecord
        /\ r.status = records[i].status
        /\ r.owner = records[i].owner
        /\ r.epoch = records[i].epoch
    BY <1>n, <1>r, WokenFields, RecordTypes
  <2> HIDE DEF r
  <2> QED BY <2>1, <2>2, <2>3, LeaseFrame
<1>9. ASSUME NEW i \in Items, decisionWake(i) PROVE LeaseInv'
  <2> DEFINE r == available(records[i], now)
  <2>1. /\ records' = [records EXCEPT ![i] = r]
        /\ leases' = leases
        /\ records[i].status = "pending"
    BY <1>9 DEF decisionWake
  <2>2. records[i].status # "leased" => records[i].owner = NoOwner
    BY DEF LeaseInv
  <2>3. /\ r \in QueueRecord
        /\ r.status = records[i].status
        /\ r.owner = records[i].owner
        /\ r.epoch = records[i].epoch
    BY <1>n, <1>r, AvailableFields, RecordTypes
  <2> HIDE DEF r
  <2> QED BY <2>1, <2>2, <2>3, LeaseFrame
<1>10. ASSUME NEW o \in Owners, NEW l \in leases[o], loseLease(o, l)
       PROVE  LeaseInv'
  <2>1. records' = records /\ \A p \in Owners : leases'[p] \subseteq leases[p]
    BY <1>10, <1>f DEF loseLease
  <2> QED BY <2>1 DEF LeaseInv
<1>11. CASE UNCHANGED vars
  BY <1>11 DEF vars, LeaseInv
<1> QED
  BY <1>1, <1>2, <1>3, <1>4, <1>5, <1>6, <1>7, <1>8, <1>9, <1>10, <1>11
     DEF Next

\* One lease, one owner: an epoch is granted to one owner only and the owner
\* in a leased record is the one its current epoch was granted to.
THEOREM LeaseCorrect == Spec => []LeaseInv
<1>1. Init => LeaseInv
  BY FreshFields DEF Init, LeaseInv
<1> QED BY <1>1, TypeCorrect, LeaseInvStep, PTL DEF Spec

-----------------------------------------------------------------------------
\* What a step may do to the record of one item, as far as leases go.
Kept(r, s) ==
    /\ s.status = r.status
    /\ s.owner = r.owner
    /\ s.epoch = r.epoch
    /\ s.expiresAt = r.expiresAt

Opened(r, s) ==
    \/ r.status = "absent" /\ s.status = "pending" /\ s.epoch = 0
    \/ /\ r.status = "leased" /\ r.expiresAt > now
       /\ s.status = "pending" /\ s.epoch = r.epoch

Closed(r, s) ==
    /\ r.status \in {"pending", "leased"}
    /\ s.status = "settled"
    /\ s.epoch = r.epoch

Granted(r, s) ==
    /\ isClaimable(r, now)
    /\ s.status = "leased"
    /\ s.owner \in Owners
    /\ s.epoch = r.epoch + 1
    /\ s.expiresAt = now + LeaseDuration

Extended(r, s) ==
    /\ r.status = "leased" /\ r.expiresAt > now
    /\ s.status = r.status
    /\ s.owner = r.owner
    /\ s.epoch = r.epoch
    /\ s.expiresAt = now + LeaseDuration

RecordStep(i, s) ==
    /\ records' = [records EXCEPT ![i] = s]
    /\ \/ Kept(records[i], s) \/ Opened(records[i], s) \/ Closed(records[i], s)
       \/ Granted(records[i], s) \/ Extended(records[i], s)

LEMMA StepShape ==
    ASSUME TypeOK, Next
    PROVE  \/ records' = records /\ now' \in {now, now + 1}
           \/ now' = now /\ \E i \in Items : \E s \in QueueRecord : RecordStep(i, s)
<1>l. \A o \in Owners : \A l \in leases[o] : l.item \in Items
  BY DEF TypeOK, Lease
<1>r. \A i \in Items : records[i] \in QueueRecord
  BY DEF TypeOK
<1>n. now \in Nat /\ inserted + 1 \in Nat
  BY DEF TypeOK
<1>h. ASSUME NEW o \in Owners, NEW l \in leases[o], Holds(o, l)
      PROVE  records[l.item].status = "leased" /\ records[l.item].expiresAt > now
  BY <1>h DEF Holds, validateRecordLease
<1>1. CASE Tick
  BY <1>1 DEF Tick
<1>2. ASSUME NEW i \in Items, Enqueue(i)
      PROVE  now' = now /\ \E s \in QueueRecord : RecordStep(i, s)
  <2> DEFINE s == queueRecord(now, inserted + 1)
  <2>1. s \in QueueRecord /\ s.status = "pending" /\ s.epoch = 0
    BY <1>n, FreshFields, NewRecordType
  <2>2. /\ records' = [records EXCEPT ![i] = s] /\ now' = now
        /\ records[i].status = "absent"
    BY <1>2 DEF Enqueue
  <2> HIDE DEF s
  <2>3. RecordStep(i, s)
    BY <2>1, <2>2 DEF RecordStep, Opened
  <2> QED BY <2>1, <2>2, <2>3
<1>3. ASSUME NEW o \in Owners, NEW i \in Items, claimNext(o, i)
      PROVE  now' = now /\ \E s \in QueueRecord : RecordStep(i, s)
  <2> DEFINE s == claimed(records[i], o, now)
  <2>1. s \in QueueRecord
    BY <1>n, <1>r, ClaimedType
  <2>2. /\ s.status = "leased" /\ s.owner = o
        /\ s.epoch = records[i].epoch + 1
        /\ s.expiresAt = now + LeaseDuration
    BY <1>n, <1>r, ClaimedFields
  <2>3. /\ records' = [records EXCEPT ![i] = s] /\ now' = now
        /\ isClaimable(records[i], now)
    BY <1>3 DEF claimNext
  <2> HIDE DEF s
  <2>4. RecordStep(i, s)
    BY <2>2, <2>3 DEF RecordStep, Granted
  <2> QED BY <2>1, <2>3, <2>4
<1>4. ASSUME NEW o \in Owners, NEW l \in leases[o], renewWorkItemLease(o, l)
      PROVE  now' = now /\ \E s \in QueueRecord : RecordStep(l.item, s)
  <2> DEFINE s == renewed(records[l.item], now)
  <2>1. s \in QueueRecord
    BY <1>n, <1>r, <1>l, RecordTypes
  <2>2. /\ s.status = records[l.item].status /\ s.owner = records[l.item].owner
        /\ s.epoch = records[l.item].epoch
        /\ s.expiresAt = now + LeaseDuration
    BY <1>n, <1>r, <1>l, RenewedFields
  <2>3. /\ records' = [records EXCEPT ![l.item] = s] /\ now' = now
        /\ records[l.item].status = "leased" /\ records[l.item].expiresAt > now
    BY <1>4, <1>h DEF renewWorkItemLease
  <2> HIDE DEF s
  <2>4. RecordStep(l.item, s)
    BY <2>2, <2>3 DEF RecordStep, Extended
  <2> QED BY <2>1, <2>3, <2>4
<1>5. ASSUME NEW o \in Owners, NEW l \in leases[o], settle(o, l)
      PROVE  now' = now /\ \E s \in QueueRecord : RecordStep(l.item, s)
  <2> DEFINE s == settled(records[l.item])
  <2>1. s \in QueueRecord
    BY <1>n, <1>r, <1>l, RecordTypes
  <2>2. s.status = "settled" /\ s.epoch = records[l.item].epoch
    BY <1>r, <1>l, SettledFields
  <2>3. /\ records' = [records EXCEPT ![l.item] = s] /\ now' = now
        /\ records[l.item].status = "leased"
    BY <1>5, <1>h DEF settle
  <2> HIDE DEF s
  <2>4. RecordStep(l.item, s)
    BY <2>2, <2>3 DEF RecordStep, Closed
  <2> QED BY <2>1, <2>3, <2>4
<1>6. ASSUME NEW o \in Owners, NEW l \in leases[o],
             NEW delay \in RetryDelays, retry(o, l, delay)
      PROVE  now' = now /\ \E s \in QueueRecord : RecordStep(l.item, s)
  <2> DEFINE s == retried(records[l.item], delay, now)
  <2>1. s \in QueueRecord
    BY <1>n, <1>r, <1>l, RetriedType, DelayAssumption
  <2>2. s.status = "pending" /\ s.epoch = records[l.item].epoch
    BY <1>n, <1>r, <1>l, RetriedFields, DelayAssumption
  <2>3. /\ records' = [records EXCEPT ![l.item] = s] /\ now' = now
        /\ records[l.item].status = "leased" /\ records[l.item].expiresAt > now
    BY <1>6, <1>h DEF retry
  <2> HIDE DEF s
  <2>4. RecordStep(l.item, s)
    BY <2>2, <2>3 DEF RecordStep, Opened
  <2> QED BY <2>1, <2>3, <2>4
<1>7. ASSUME NEW i \in Items, forceSettle(i)
      PROVE  now' = now /\ \E s \in QueueRecord : RecordStep(i, s)
  <2> DEFINE s == settled(records[i])
  <2>1. s \in QueueRecord
    BY <1>n, <1>r, RecordTypes
  <2>2. s.status = "settled" /\ s.epoch = records[i].epoch
    BY <1>r, SettledFields
  <2>3. /\ records' = [records EXCEPT ![i] = s] /\ now' = now
        /\ records[i].status \in {"pending", "leased"}
    BY <1>7 DEF forceSettle
  <2> HIDE DEF s
  <2>4. RecordStep(i, s)
    BY <2>2, <2>3 DEF RecordStep, Closed
  <2> QED BY <2>1, <2>3, <2>4
<1>8. ASSUME NEW i \in Items, cancellationWake(i)
      PROVE  now' = now /\ \E s \in QueueRecord : RecordStep(i, s)
  <2> DEFINE s == woken(records[i], now)
  <2>1. s \in QueueRecord
    BY <1>n, <1>r, RecordTypes
  <2>2. Kept(records[i], s)
    BY <1>n, <1>r, WokenFields DEF Kept
  <2>3. records' = [records EXCEPT ![i] = s] /\ now' = now
    BY <1>8 DEF cancellationWake
  <2> HIDE DEF s
  <2>4. RecordStep(i, s)
    BY <2>2, <2>3 DEF RecordStep
  <2> QED BY <2>1, <2>3, <2>4
<1>9. ASSUME NEW i \in Items, decisionWake(i)
      PROVE  now' = now /\ \E s \in QueueRecord : RecordStep(i, s)
  <2> DEFINE s == available(records[i], now)
  <2>1. s \in QueueRecord
    BY <1>n, <1>r, RecordTypes
  <2>2. Kept(records[i], s)
    BY <1>n, <1>r, AvailableFields DEF Kept
  <2>3. records' = [records EXCEPT ![i] = s] /\ now' = now
    BY <1>9 DEF decisionWake
  <2> HIDE DEF s
  <2>4. RecordStep(i, s)
    BY <2>2, <2>3 DEF RecordStep
  <2> QED BY <2>1, <2>3, <2>4
<1>10. ASSUME NEW o \in Owners, NEW l \in leases[o], loseLease(o, l)
       PROVE  records' = records /\ now' = now
  BY <1>10 DEF loseLease
<1> QED
  BY <1>1, <1>2, <1>3, <1>4, <1>5, <1>6, <1>7, <1>8, <1>9, <1>10, <1>l
     DEF Next

\* Only a claim or a renewal moves an expiry forward: the claim raises the
\* epoch above every lease already handed out, and the renewal is the act of
\* the owner whose lease still holds.
LEMMA LostLeaseStep ==
    ASSUME TypeOK, LeaseInv, [Next]_vars,
           NEW o \in Owners, NEW l \in leases[o], l \in leases'[o], ~Holds(o, l)
    PROVE  ~Holds(o, l)'
<1>1. CASE UNCHANGED vars
  BY <1>1 DEF vars, Holds
<1>2. CASE Next
  <2>0. /\ l.item \in Items /\ l.epoch \in Nat /\ l.epoch <= records[l.item].epoch
        /\ records[l.item].epoch \in Nat /\ records[l.item].expiresAt \in Nat
        /\ now \in Nat
    BY DEF TypeOK, Lease, LeaseInv, QueueRecord
  <2>1. CASE records' = records /\ now' \in {now, now + 1}
    BY <2>0, <2>1 DEF Holds, validateRecordLease
  <2>2. ASSUME NEW i \in Items, NEW s \in QueueRecord, RecordStep(i, s),
               now' = now
        PROVE  ~Holds(o, l)'
    <3>1. CASE i # l.item
      <4>1. records'[l.item] = records[l.item]
        BY <2>0, <2>2, <3>1 DEF RecordStep, TypeOK
      <4> QED BY <2>2, <4>1 DEF Holds, validateRecordLease
    <3>2. CASE i = l.item
      <4>1. records'[l.item] = s
        BY <2>0, <2>2, <3>2 DEF RecordStep, TypeOK
      <4>2. ASSUME validateRecordLease(s, o, l.epoch, now) PROVE FALSE
        BY <2>0, <2>2, <3>2, <4>2
           DEF Holds, validateRecordLease, RecordStep, Kept, Opened, Closed,
               Granted, Extended
      <4> QED BY <2>2, <4>1, <4>2 DEF Holds
    <3> QED BY <3>1, <3>2
  <2> QED BY <1>2, <2>1, <2>2, StepShape
<1> QED BY <1>1, <1>2

\* A worker that lost its lease never gets it back (validateClaimedLease):
\* for any number of workers and items, and any interleaving of expiry,
\* renewal, retry and later claims.
THEOREM LostLeasesStayLost == Spec => LostLeaseStaysLost
<1>1. TypeOK /\ LeaseInv /\ [Next]_vars
        => [\A o \in Owners : \A l \in leases[o] :
              l \in leases'[o] /\ ~Holds(o, l) => ~Holds(o, l)']_vars
  BY LostLeaseStep
<1> QED BY <1>1, TypeCorrect, LeaseCorrect, PTL DEF Spec, LostLeaseStaysLost

-----------------------------------------------------------------------------
\* The queue implements fenced ownership.
LEMMA FencedInit == Init => Fenced!Init
  BY FreshFields
     DEF Init, Fenced!Init, Owned

\* Every step of the queue is a step of the abstract specification or a
\* stutter: the clock takes away the leases that expire, all at once.
LEMMA FencedStep ==
    ASSUME TypeOK, LeaseInv, [Next]_vars
    PROVE  [Fenced!Next]_(Fenced!vars)
<1> USE DEF Fenced!vars
<1>1. CASE UNCHANGED vars
  BY <1>1 DEF vars, Owned
<1>2. CASE records' = records /\ now' \in {now, now + 1}
  <2> DEFINE S == {i \in Items : Owned(i) /\ records'[i].expiresAt <= now'}
  <2>1. /\ \A i \in Items : records[i].expiresAt \in Nat
        /\ now \in Nat
    BY DEF TypeOK, QueueRecord
  <2>2. \A i \in Items : Owned(i)' <=> Owned(i) /\ i \notin S
    BY <1>2, <2>1 DEF Owned
  <2>3. \A i \in S : Owned(i) /\ records[i].status = "leased"
    BY DEF Owned
  <2>4. S \in SUBSET Items
    OBVIOUS
  <2> HIDE DEF S
  <2>5. Fenced!Lose(S)
    BY <1>2, <2>2, <2>3, <2>4 DEF Fenced!Lose
  <2>6. \E T \in SUBSET Items : Fenced!Lose(T)
    BY <2>4, <2>5, Zenon DEF Fenced!Lose
  <2>7. Fenced!Next
    BY <2>6 DEF Fenced!Next
  <2> QED BY <2>7
<1>3. ASSUME NEW i \in Items, NEW s \in QueueRecord, RecordStep(i, s),
             now' = now
      PROVE  [Fenced!Next]_(Fenced!vars)
  <2>1. /\ records'[i] = s
        /\ \A j \in Items \ {i} : records'[j] = records[j]
        /\ records[i] \in QueueRecord
    BY <1>3 DEF RecordStep, TypeOK
  <2>2. \A j \in Items \ {i} : Owned(j)' = Owned(j)
    BY <1>3, <2>1 DEF Owned
  <2>3. CASE Kept(records[i], s)
    <3>1. Owned(i)' = Owned(i)
      BY <1>3, <2>1, <2>3 DEF Owned, Kept
    <3> QED BY <2>1, <2>2, <2>3, <3>1 DEF Kept
  <2>4. CASE Opened(records[i], s)
    <3>1. ~Owned(i)' /\ s.status = "pending" /\ records[i].epoch = s.epoch
      BY <2>1, <2>4 DEF Owned, Opened, LeaseInv
    <3>2. CASE Owned(i)
      <4>1. Fenced!Lose({i})
        BY <2>1, <2>2, <3>1, <3>2 DEF Fenced!Lose, Owned
      <4> QED BY <4>1 DEF Fenced!Next
    <3>3. CASE ~Owned(i)
      BY <2>1, <2>2, <2>4, <3>1, <3>3 DEF Opened
    <3> QED BY <3>2, <3>3
  <2>5. CASE Closed(records[i], s)
    <3>1. ~Owned(i)'
      BY <2>1, <2>5 DEF Owned, Closed
    <3>2. Fenced!Finish(i)
      BY <2>1, <2>2, <2>5, <3>1 DEF Fenced!Finish, Closed
    <3> QED BY <3>2 DEF Fenced!Next
  <2>6. CASE Granted(records[i], s)
    <3>1. Owned(i)'
      BY <1>3, <2>1, <2>6, LeaseAssumption DEF Owned, Granted, TypeOK
    <3>2. ~Owned(i) /\ records[i].status # "settled"
      BY <2>1, <2>6 DEF Owned, Granted, isClaimable, TypeOK, QueueRecord
    <3>3. Fenced!Grant(i, s.owner)
      BY <2>1, <2>2, <2>6, <3>1, <3>2 DEF Fenced!Grant, Granted
    <3> QED BY <2>6, <3>3 DEF Fenced!Next, Granted
  <2>7. CASE Extended(records[i], s)
    <3>1. Owned(i) /\ Owned(i)'
      BY <1>3, <2>1, <2>7, LeaseAssumption DEF Owned, Extended, TypeOK
    <3> QED BY <2>1, <2>2, <2>7, <3>1 DEF Extended
  <2> QED BY <1>3, <2>3, <2>4, <2>5, <2>6, <2>7 DEF RecordStep
<1> QED BY <1>1, <1>2, <1>3, StepShape

\* The lease queue implements fenced ownership: one owner at a time, a token
\* that grows with every grant, and no grant after an item is done.
THEOREM QueueImplementsFencing == Spec => FencedSpec
<1> QED
  BY FencedInit, FencedStep, TypeCorrect, LeaseCorrect, PTL
     DEF Spec, FencedSpec, Fenced!Spec

-----------------------------------------------------------------------------
\* WakeIsNotDelayed is not inductive by itself: while the item is leased the
\* wake must be remembered in the record until the lease is given up.
WakeInv ==
    \A i \in Items : wakeOwed[i] =>
        /\ records[i].status = "pending" => records[i].availableAt <= now
        /\ records[i].status = "leased" => records[i].wake = TRUE

\* A step that changes at most the record and the debt of item i keeps WakeInv
\* if it keeps it for i.
LEMMA WakeFrame ==
    ASSUME TypeOK, WakeInv, NEW i \in Items, NEW s,
           records' = [records EXCEPT ![i] = s],
           \A j \in Items \ {i} : wakeOwed'[j] = wakeOwed[j],
           now' = now,
           wakeOwed'[i] => /\ s.status = "pending" => s.availableAt <= now
                           /\ s.status = "leased" => s.wake = TRUE
    PROVE  WakeInv'
  BY DEF WakeInv, TypeOK

LEMMA WakeInvStep == TypeOK /\ WakeInv /\ [Next]_vars => WakeInv'
<1> SUFFICES ASSUME TypeOK, WakeInv, [Next]_vars PROVE WakeInv'
  OBVIOUS
<1>l. \A o \in Owners : \A l \in leases[o] : l.item \in Items
  BY DEF TypeOK, Lease
<1>r. \A i \in Items : records[i] \in QueueRecord /\ records[i].availableAt \in Nat
  BY DEF TypeOK, QueueRecord
<1>n. now \in Nat /\ inserted + 1 \in Nat
  BY DEF TypeOK
<1>1. CASE Tick
  BY <1>1, <1>r, <1>n DEF Tick, WakeInv
<1>2. ASSUME NEW i \in Items, Enqueue(i) PROVE WakeInv'
  <2> DEFINE s == queueRecord(now, inserted + 1)
  <2>1. s.status = "pending" /\ s.availableAt <= now
    BY <1>n, FreshFields
  <2>2. records' = [records EXCEPT ![i] = s] /\ now' = now /\ wakeOwed' = wakeOwed
    BY <1>2 DEF Enqueue
  <2> HIDE DEF s
  <2> QED BY <2>1, <2>2, WakeFrame
<1>3. ASSUME NEW o \in Owners, NEW i \in Items, claimNext(o, i) PROVE WakeInv'
  <2>1. /\ records' = [records EXCEPT ![i] = claimed(records[i], o, now)]
        /\ now' = now
        /\ wakeOwed' = [wakeOwed EXCEPT ![i] = FALSE]
    BY <1>3 DEF claimNext
  <2>2. ~wakeOwed'[i] /\ \A j \in Items \ {i} : wakeOwed'[j] = wakeOwed[j]
    BY <2>1 DEF TypeOK
  <2> QED BY <2>1, <2>2, WakeFrame
<1>4. ASSUME NEW o \in Owners, NEW l \in leases[o], renewWorkItemLease(o, l)
      PROVE  WakeInv'
  <2> DEFINE s == renewed(records[l.item], now)
  <2>1. s.status = records[l.item].status /\ s.wake = records[l.item].wake
    BY <1>l, <1>r, <1>n, RenewedFields
  <2>2. /\ records' = [records EXCEPT ![l.item] = s] /\ now' = now
        /\ wakeOwed' = wakeOwed /\ records[l.item].status = "leased"
    BY <1>4 DEF renewWorkItemLease, Holds, validateRecordLease
  <2> HIDE DEF s
  <2>3. wakeOwed[l.item] => s.wake = TRUE
    BY <1>l, <2>1, <2>2 DEF WakeInv
  <2> QED BY <1>l, <2>1, <2>2, <2>3, WakeFrame
<1>5. ASSUME NEW o \in Owners, NEW l \in leases[o], settle(o, l) PROVE WakeInv'
  <2> DEFINE s == settled(records[l.item])
  <2>1. s.status = "settled"
    BY <1>l, <1>r, SettledFields
  <2>2. /\ records' = [records EXCEPT ![l.item] = s] /\ now' = now
        /\ wakeOwed' = wakeOwed
    BY <1>5 DEF settle
  <2> HIDE DEF s
  <2> QED BY <1>l, <2>1, <2>2, WakeFrame
<1>6. ASSUME NEW o \in Owners, NEW l \in leases[o],
             NEW delay \in RetryDelays, retry(o, l, delay)
      PROVE  WakeInv'
  <2> DEFINE s == retried(records[l.item], delay, now)
  <2>1. /\ s.status = "pending"
        /\ s.availableAt = IF records[l.item].wake THEN now ELSE now + delay
    BY <1>l, <1>r, <1>n, RetriedFields, DelayAssumption
  <2>2. /\ records' = [records EXCEPT ![l.item] = s] /\ now' = now
        /\ wakeOwed' = wakeOwed /\ records[l.item].status = "leased"
    BY <1>6 DEF retry, Holds, validateRecordLease
  <2> HIDE DEF s
  <2>3. wakeOwed[l.item] => s.availableAt <= now
    BY <1>l, <1>n, <2>1, <2>2 DEF WakeInv
  <2>4. l.item \in Items
    BY <1>l
  <2> QED BY <2>1, <2>2, <2>3, <2>4, WakeFrame
<1>7. ASSUME NEW i \in Items, forceSettle(i) PROVE WakeInv'
  <2> DEFINE s == settled(records[i])
  <2>1. s.status = "settled"
    BY <1>r, SettledFields
  <2>2. /\ records' = [records EXCEPT ![i] = s] /\ now' = now
        /\ wakeOwed' = wakeOwed
    BY <1>7 DEF forceSettle
  <2> HIDE DEF s
  <2> QED BY <2>1, <2>2, WakeFrame
<1>8. ASSUME NEW i \in Items, cancellationWake(i) PROVE WakeInv'
  <2> DEFINE s == woken(records[i], now)
  <2>0. /\ s.availableAt = IF records[i].availableAt <= now
                             THEN records[i].availableAt ELSE now
        /\ s.wake = TRUE
    BY <1>r, <1>n, WokenFields
  <2>2. /\ records' = [records EXCEPT ![i] = s] /\ now' = now
        /\ \A j \in Items \ {i} : wakeOwed'[j] = wakeOwed[j]
    BY <1>8 DEF cancellationWake, TypeOK
  <2> HIDE DEF s
  <2>1. s.availableAt <= now /\ s.wake = TRUE
    BY <1>r, <1>n, <2>0
  <2> QED BY <2>1, <2>2, WakeFrame
<1>9. ASSUME NEW i \in Items, decisionWake(i) PROVE WakeInv'
  <2> DEFINE s == available(records[i], now)
  <2>1. s.status = records[i].status /\ s.availableAt <= now
    BY <1>r, <1>n, AvailableFields
  <2>2. /\ records' = [records EXCEPT ![i] = s] /\ now' = now
        /\ wakeOwed' = wakeOwed /\ records[i].status = "pending"
    BY <1>9 DEF decisionWake
  <2> HIDE DEF s
  <2> QED BY <2>1, <2>2, WakeFrame
<1>10. ASSUME NEW o \in Owners, NEW l \in leases[o], loseLease(o, l)
       PROVE  WakeInv'
  BY <1>10 DEF loseLease, WakeInv
<1>11. CASE UNCHANGED vars
  BY <1>11 DEF vars, WakeInv
<1> QED
  BY <1>1, <1>2, <1>3, <1>4, <1>5, <1>6, <1>7, <1>8, <1>9, <1>10, <1>11
     DEF Next

\* A cancel request for a reconciling run is acted on at the next claim, not
\* after the retry delay its holder asks for.
THEOREM WakesAreNotDelayed == Spec => []WakeIsNotDelayed
<1>1. Init => WakeInv
  BY DEF Init, WakeInv
<1>2. WakeInv => WakeIsNotDelayed
  BY DEF WakeInv, WakeIsNotDelayed
<1> QED BY <1>1, <1>2, TypeCorrect, WakeInvStep, PTL DEF Spec

-----------------------------------------------------------------------------
\* What PassedInv says of one pair: i was claimed n times in place of j.
Behind(j, i, n, recs, t) ==
    /\ n <= 1
    /\ n > 0 =>
         /\ i # j
         /\ isClaimable(recs[j], t)
         /\ readyAt(recs[j]) < t
         /\ recs[i].status # "absent"
         /\ recs[i].status # "settled" => readyAt(recs[i]) > readyAt(recs[j])

LEMMA PassedPairs ==
    PassedInv <=> (ClaimOrder = "oldestReady" =>
        \A i, j \in Items : Behind(j, i, passed[j][i], records, now))
  BY DEF PassedInv, Behind

LEMMA ReadyType ==
    ASSUME NEW r \in QueueRecord PROVE readyAt(r) \in Nat
  BY DEF readyAt, QueueRecord

\* A step on item i keeps PassedInv if what i had been passed by is forgotten
\* or i stays ready as it was, and if i does not move ahead of a ready item.
LEMMA PassedFrame ==
    ASSUME TypeOK, ClaimOrder = "oldestReady",
           \A k, j \in Items : Behind(j, k, passed[j][k], records, now),
           NEW i \in Items, NEW s \in QueueRecord,
           records' = [records EXCEPT ![i] = s],
           now' = now,
           \A j \in Items \ {i} : passed'[j] = passed[j],
           \A k \in Items :
              \/ passed'[i][k] = 0
              \/ /\ passed'[i][k] = passed[i][k]
                 /\ passed[i][k] > 0 => /\ isClaimable(s, now)
                                        /\ readyAt(s) = readyAt(records[i]),
           s.status # "absent",
           \/ s.status = "settled"
           \/ readyAt(s) >= now
           \/ /\ records[i].status # "settled"
              /\ readyAt(s) >= readyAt(records[i])
    PROVE  \A k, j \in Items : Behind(j, k, passed'[j][k], records', now')
<1> SUFFICES ASSUME NEW k \in Items, NEW j \in Items
             PROVE  Behind(j, k, passed'[j][k], records', now')
  OBVIOUS
<1>1. /\ records'[i] = s
      /\ \A m \in Items \ {i} : records'[m] = records[m]
      /\ now \in Nat /\ passed[j][k] \in Nat
      /\ records[j] \in QueueRecord /\ records[k] \in QueueRecord
  BY DEF TypeOK
<1>2. /\ readyAt(s) \in Nat /\ readyAt(records[j]) \in Nat
      /\ readyAt(records[k]) \in Nat
  BY <1>1, ReadyType
<1>3. Behind(j, k, passed[j][k], records, now)
  OBVIOUS
<1>4. CASE j = i
  <2>1. CASE passed'[i][k] = 0
    BY <1>4, <2>1 DEF Behind
  <2>2. CASE /\ passed'[i][k] = passed[i][k] /\ passed[i][k] > 0
             /\ isClaimable(s, now) /\ readyAt(s) = readyAt(records[i])
    BY <1>1, <1>2, <1>3, <1>4, <2>2 DEF Behind
  <2>3. CASE passed'[i][k] = passed[i][k] /\ ~(passed[i][k] > 0)
    BY <1>1, <1>4, <2>3 DEF Behind
  <2> QED BY <2>1, <2>2, <2>3
<1>5. CASE j # i /\ k = i
  <2>1. passed'[j][k] = passed[j][k] /\ records'[j] = records[j]
    BY <1>1, <1>5
  <2> QED BY <1>1, <1>2, <1>3, <1>5, <2>1 DEF Behind
<1>6. CASE j # i /\ k # i
  BY <1>1, <1>3, <1>6 DEF Behind
<1> QED BY <1>4, <1>5, <1>6

LEMMA PassedInvStep == TypeOK /\ PassedInv /\ [Next]_vars => PassedInv'
<1> DEFINE All == \A k, j \in Items : Behind(j, k, passed[j][k], records, now)
           AllP == \A k, j \in Items : Behind(j, k, passed'[j][k], records', now')
<1> SUFFICES ASSUME TypeOK, ClaimOrder = "oldestReady", All, [Next]_vars
             PROVE  AllP
  BY PassedPairs DEF PassedInv, Behind
<1>l. \A o \in Owners : \A l \in leases[o] : l.item \in Items
  BY DEF TypeOK, Lease
<1>r. \A i \in Items : /\ records[i] \in QueueRecord
                       /\ records[i].availableAt \in Nat
                       /\ records[i].expiresAt \in Nat
  BY DEF TypeOK, QueueRecord
<1>n. now \in Nat /\ inserted + 1 \in Nat
  BY DEF TypeOK
<1>p. \A i, k \in Items : passed[i][k] \in Nat
  BY DEF TypeOK
<1>z. ASSUME NEW i \in Items, ~isClaimable(records[i], now)
      PROVE  \A k \in Items : passed[i][k] = 0
  BY <1>p, <1>z DEF Behind
<1>h. ASSUME NEW o \in Owners, NEW l \in leases[o], Holds(o, l)
      PROVE  /\ l.item \in Items
             /\ records[l.item].status = "leased"
             /\ records[l.item].expiresAt > now
             /\ \A k \in Items : passed[l.item][k] = 0
  <2>1. /\ l.item \in Items
        /\ records[l.item].status = "leased"
        /\ records[l.item].expiresAt > now
    BY <1>h, <1>l DEF Holds, validateRecordLease
  <2>2. ~isClaimable(records[l.item], now)
    BY <1>n, <1>r, <2>1 DEF isClaimable
  <2> QED BY <1>z, <2>1, <2>2
<1>1. CASE Tick
  <2>1. records' = records /\ passed' = passed /\ now' = now + 1
    BY <1>1 DEF Tick
  <2>2. ASSUME NEW j \in Items, isClaimable(records[j], now)
        PROVE  isClaimable(records[j], now + 1)
    BY <1>n, <1>r, <2>2 DEF isClaimable
  <2>3. ASSUME NEW j \in Items, readyAt(records[j]) < now
        PROVE  readyAt(records[j]) < now + 1
    BY <1>n, <1>r, <2>3, ReadyType
  <2> QED BY <2>1, <2>2, <2>3 DEF Behind
<1>2. ASSUME NEW i \in Items, Enqueue(i) PROVE AllP
  <2> DEFINE s == queueRecord(now, inserted + 1)
  <2>1. s \in QueueRecord /\ s.status = "pending" /\ s.availableAt = now
    BY <1>n, FreshFields, NewRecordType
  <2>2. records' = [records EXCEPT ![i] = s] /\ now' = now /\ passed' = passed
    BY <1>2 DEF Enqueue
  <2>3. \A k \in Items : passed[i][k] = 0
    BY <1>2, <1>z DEF Enqueue, isClaimable
  <2> HIDE DEF s
  <2>4. readyAt(s) >= now
    BY <1>n, <2>1 DEF readyAt
  <2> QED BY <2>1, <2>2, <2>3, <2>4, PassedFrame
<1>3. ASSUME NEW o \in Owners, NEW i \in Items, claimNext(o, i) PROVE AllP
  <2> DEFINE s == claimed(records[i], o, now)
  <2>1. s.status = "leased" /\ s.expiresAt = now + LeaseDuration
    BY <1>n, <1>r, ClaimedFields
  <2>2. /\ records' = [records EXCEPT ![i] = s] /\ now' = now
        /\ isClaimable(records[i], now)
        /\ \A j \in Items \ {i} : isClaimable(records[j], now)
                                    => precedes(records[i], records[j])
    BY <1>3 DEF claimNext
  <2>3. /\ \A k \in Items : passed'[i][k] = 0
        /\ \A j, k \in Items : j # i /\ k # i => passed'[j][k] = passed[j][k]
        /\ \A j \in Items \ {i} :
             passed'[j][i] = IF Overtaken(j) THEN passed[j][i] + 1 ELSE passed[j][i]
    BY <1>3 DEF claimNext
  <2> HIDE DEF s
  <2>4. records'[i] = s /\ \A m \in Items \ {i} : records'[m] = records[m]
    BY <2>2 DEF TypeOK
  <2>5. ASSUME NEW j \in Items, NEW k \in Items
        PROVE  Behind(j, k, passed'[j][k], records', now')
    <3>1. CASE j = i
      BY <2>3, <3>1 DEF Behind
    <3>2. CASE j # i /\ k # i
      BY <2>2, <2>3, <2>4, <3>2 DEF Behind
    <3>3. CASE j # i /\ k = i
      <4>0. /\ readyAt(records[i]) \in Nat /\ readyAt(records[j]) \in Nat
            /\ readyAt(s) = now + LeaseDuration
            /\ now + LeaseDuration > now
        BY <1>r, <1>n, <2>1, ReadyType, LeaseAssumption DEF readyAt
      <4>1. records[i].status \notin {"absent", "settled"}
        BY <2>2 DEF isClaimable
      <4>2. isClaimable(records[j], now) => readyAt(records[i]) <= readyAt(records[j])
        BY <2>2, <3>3, <4>0 DEF precedes
      <4>3. Behind(j, i, passed[j][i], records, now)
        OBVIOUS
      <4>4. passed[j][i] = 0
        BY <1>p, <4>0, <4>1, <4>2, <4>3 DEF Behind
      <4>5. CASE Overtaken(j)
        <5>1. passed'[j][i] = 1
          BY <2>3, <3>3, <4>4, <4>5
        <5>2. isClaimable(records[j], now) /\ readyAt(records[j]) < now
          BY <4>5 DEF Overtaken
        <5>3. readyAt(s) > readyAt(records[j])
          BY <1>n, <4>0, <5>2, LeaseAssumption
        <5> QED BY <2>1, <2>2, <2>4, <3>3, <5>1, <5>2, <5>3 DEF Behind
      <4>6. CASE ~Overtaken(j)
        BY <2>3, <3>3, <4>4, <4>6 DEF Behind
      <4> QED BY <4>5, <4>6
    <3> QED BY <3>1, <3>2, <3>3
  <2> QED BY <2>5
<1>4. ASSUME NEW o \in Owners, NEW l \in leases[o], renewWorkItemLease(o, l)
      PROVE  AllP
  <2> DEFINE s == renewed(records[l.item], now)
  <2>0. /\ l.item \in Items /\ records[l.item].status = "leased"
        /\ \A k \in Items : passed[l.item][k] = 0
    BY <1>4, <1>h DEF renewWorkItemLease
  <2>1. /\ s \in QueueRecord /\ s.status = "leased"
        /\ s.expiresAt = now + LeaseDuration
    BY <1>r, <1>n, <2>0, RenewedFields, RecordTypes
  <2>2. records' = [records EXCEPT ![l.item] = s] /\ now' = now /\ passed' = passed
    BY <1>4 DEF renewWorkItemLease
  <2> HIDE DEF s
  <2>3. readyAt(s) >= now
    BY <1>n, <2>1, LeaseAssumption DEF readyAt
  <2> QED BY <2>0, <2>1, <2>2, <2>3, PassedFrame
<1>5. ASSUME NEW o \in Owners, NEW l \in leases[o], settle(o, l) PROVE AllP
  <2> DEFINE s == settled(records[l.item])
  <2>0. l.item \in Items /\ \A k \in Items : passed[l.item][k] = 0
    BY <1>5, <1>h DEF settle
  <2>1. s \in QueueRecord /\ s.status = "settled"
    BY <1>r, <1>n, <2>0, SettledFields, RecordTypes
  <2>2. records' = [records EXCEPT ![l.item] = s] /\ now' = now /\ passed' = passed
    BY <1>5 DEF settle
  <2> HIDE DEF s
  <2> QED BY <2>0, <2>1, <2>2, PassedFrame
<1>6. ASSUME NEW o \in Owners, NEW l \in leases[o],
             NEW delay \in RetryDelays, retry(o, l, delay)
      PROVE  AllP
  <2> DEFINE s == retried(records[l.item], delay, now)
  <2>0. l.item \in Items /\ \A k \in Items : passed[l.item][k] = 0
    BY <1>6, <1>h DEF retry
  <2>1. /\ s \in QueueRecord /\ s.status = "pending"
        /\ s.availableAt = IF records[l.item].wake THEN now ELSE now + delay
    BY <1>r, <1>n, <2>0, RetriedFields, RetriedType, DelayAssumption
  <2>2. records' = [records EXCEPT ![l.item] = s] /\ now' = now /\ passed' = passed
    BY <1>6 DEF retry
  <2> HIDE DEF s
  <2>3. readyAt(s) >= now
    BY <1>n, <2>1, DelayAssumption DEF readyAt
  <2> QED BY <2>0, <2>1, <2>2, <2>3, PassedFrame
<1>7. ASSUME NEW i \in Items, forceSettle(i) PROVE AllP
  <2> DEFINE s == settled(records[i])
  <2>1. s \in QueueRecord /\ s.status = "settled"
    BY <1>r, <1>n, SettledFields, RecordTypes
  <2>2. /\ records' = [records EXCEPT ![i] = s] /\ now' = now
        /\ \A k \in Items : passed'[i][k] = 0
        /\ \A j \in Items \ {i} : passed'[j] = passed[j]
    BY <1>7 DEF forceSettle, TypeOK
  <2> HIDE DEF s
  <2>3. s.status # "absent"
    BY <2>1
  <2>4. \A k \in Items :
           \/ passed'[i][k] = 0
           \/ /\ passed'[i][k] = passed[i][k]
              /\ passed[i][k] > 0 => /\ isClaimable(s, now)
                                     /\ readyAt(s) = readyAt(records[i])
    BY <2>2
  <2>5. records' = [records EXCEPT ![i] = s] /\ now' = now
    BY <2>2
  <2>6. \A j \in Items \ {i} : passed'[j] = passed[j]
    BY <2>2
  <2> QED BY <2>1, <2>3, <2>4, <2>5, <2>6, PassedFrame
<1>8. ASSUME NEW i \in Items, cancellationWake(i) PROVE AllP
  <2> DEFINE s == woken(records[i], now)
  <2>1. /\ s \in QueueRecord /\ s.status = records[i].status
        /\ s.expiresAt = records[i].expiresAt
        /\ s.availableAt = IF records[i].availableAt <= now
                             THEN records[i].availableAt ELSE now
    BY <1>r, <1>n, WokenFields, RecordTypes
  <2>2. /\ records' = [records EXCEPT ![i] = s] /\ now' = now
        /\ passed' = passed
        /\ records[i].status \in {"pending", "leased"}
    BY <1>8 DEF cancellationWake
  <2> HIDE DEF s
  <2>3. isClaimable(records[i], now)
          => isClaimable(s, now) /\ readyAt(s) = readyAt(records[i])
    BY <1>r, <1>n, <2>1 DEF isClaimable, readyAt
  <2>4. readyAt(s) >= now \/ readyAt(s) >= readyAt(records[i])
    BY <1>r, <1>n, <2>1 DEF readyAt
  <2>5. \A k \in Items : passed[i][k] > 0 => isClaimable(records[i], now)
    BY DEF Behind
  <2> QED BY <2>1, <2>2, <2>3, <2>4, <2>5, PassedFrame
<1>9. ASSUME NEW i \in Items, decisionWake(i) PROVE AllP
  <2> DEFINE s == available(records[i], now)
  <2>1. s \in QueueRecord /\ s.status = records[i].status /\ s.availableAt = now
    BY <1>r, <1>n, AvailableFields, RecordTypes
  <2>2. /\ records' = [records EXCEPT ![i] = s] /\ now' = now
        /\ \A k \in Items : passed'[i][k] = 0
        /\ \A j \in Items \ {i} : passed'[j] = passed[j]
        /\ records[i].status = "pending"
    BY <1>9 DEF decisionWake, TypeOK
  <2> HIDE DEF s
  <2>3. readyAt(s) >= now /\ s.status # "absent"
    BY <1>n, <2>1, <2>2 DEF readyAt
  <2>4. \A k \in Items :
           \/ passed'[i][k] = 0
           \/ /\ passed'[i][k] = passed[i][k]
              /\ passed[i][k] > 0 => /\ isClaimable(s, now)
                                     /\ readyAt(s) = readyAt(records[i])
    BY <2>2
  <2>5. records' = [records EXCEPT ![i] = s] /\ now' = now
    BY <2>2
  <2>6. \A j \in Items \ {i} : passed'[j] = passed[j]
    BY <2>2
  <2> QED BY <2>1, <2>3, <2>4, <2>5, <2>6, PassedFrame
<1>10. ASSUME NEW o \in Owners, NEW l \in leases[o], loseLease(o, l) PROVE AllP
  BY <1>10 DEF loseLease
<1>11. CASE UNCHANGED vars
  BY <1>11 DEF vars
<1> QED
  BY <1>1, <1>2, <1>3, <1>4, <1>5, <1>6, <1>7, <1>8, <1>9, <1>10, <1>11
     DEF Next

\* Work items do not starve: while one stays ready, any other item is claimed
\* in its place at most once (oldestReady), for any number of items and
\* workers.
THEOREM ReadyItemsDoNotStarve == Spec => []PassedAtMostOnce
<1>1. Init => PassedInv
  <2> SUFFICES ASSUME Init PROVE PassedInv
    OBVIOUS
  <2>1. \A i, j \in Items : passed[j][i] = 0
    BY DEF Init
  <2> QED BY <2>1 DEF PassedInv
<1>2. PassedInv => PassedAtMostOnce
  BY DEF PassedInv, PassedAtMostOnce
<1> QED BY <1>1, <1>2, TypeCorrect, PassedInvStep, PTL DEF Spec
=============================================================================
