---------------------- MODULE RetainedExecutionsProofs ----------------------
(***************************************************************************)
(* Theorems about RetainedExecutions, for any commands, leases, limits and *)
(* number of restarts.  The invariant comes in two layers: Budget, who has *)
(* which share of the budget and what runs, and Outcomes, what is known of *)
(* a mutation.  Budget is inductive by itself, Outcomes relative to it.    *)
(***************************************************************************)
EXTENDS RetainedExecutions, FiniteSetTheorems, TLAPS

\* Every share of the budget has one owner, the account counts the shares, and
\* physical executions run exactly for the entries that are pending.
Owners ==
    /\ \A l \in Leases : lease[l] = Share(l)
    /\ \A j, k \in Keys :
          Present(j) /\ Present(k) /\ entry[j].lease = entry[k].lease => j = k
    /\ \A k \in Keys : Present(k) => entry[k].lease \notin Reserved

Account ==
    /\ IsFiniteSet(Open) /\ IsFiniteSet(Kept)
    /\ bytes = ReservedBytes * Cardinality(Open) + SettledBytes * Cardinality(Kept)
    /\ bytes <= MaximumBytes
    /\ Cardinality(Open \cup Kept) <= MaximumExecutions

Running == \A k \in Keys : running[k] = IF Pending(k) THEN 1 ELSE 0

\* A canceled entry has told a status.
Told ==
    \A k \in Keys :
        Present(k) /\ entry[k].interruption = "cancel" => entry[k].settled # "none"

Budget == TypeOK /\ Owners /\ Account /\ Running /\ Told

\* The one reservation a mutation is executed with.
MayStart(l, k) == reservation[l] = [key |-> k, stage |-> "dispatched"]

\* A mutation is dispatched once, before anything of it is started or retained.
FenceOf(k) ==
    /\ starts[k] <= 1
    /\ receipt[k] = "prepared" =>
          /\ ~Present(k) /\ starts[k] = 0
          /\ \A l \in Leases : ~MayStart(l, k)
    /\ \A l \in Leases : MayStart(l, k) =>
          /\ ~Present(k) /\ starts[k] = 0
          /\ receipt[k] \in {"dispatched", "unknownOutcome"}
          /\ \A m \in Leases : MayStart(m, k) => m = l

\* What is retained of a mutation is true: only one that never started is
\* canceled, one that still runs has told nothing but its uncertainty, and a
\* completion is retained until the receipt has it.
TaleOf(k) ==
    /\ Pending(k) =>
          /\ starts[k] = 1 /\ ~completed[k]
          /\ entry[k].settled \in {"none", "unknownOutcome"}
          /\ entry[k].acknowledgement \in {"none", "unknownOutcome"}
    /\ completed[k] => starts[k] = 1
    /\ Present(k) /\ "canceled" \in {entry[k].resolution, entry[k].recovery} =>
          starts[k] = 0
    /\ completed[k] /\ receipt[k] # "completed" =>
          Present(k) /\ entry[k].settled = "completed"
    /\ receipt[k] = "canceled" => starts[k] = 0

OutcomeOf(k) == FenceOf(k) /\ TaleOf(k)

\* A receipt that maintenance has read and that is closed is still the same.
Looking ==
    look.stage = "read" /\ look.receipt \in {"completed", "canceled"} =>
        receipt[look.key] = look.receipt

Outcomes == Looking /\ \A k \in Mutation : OutcomeOf(k)

-----------------------------------------------------------------------------
(* The account.                                                            *)

LEMMA Shares ==
    /\ SettledBytes \in Nat /\ ReservedBytes \in Nat
    /\ 0 < SettledBytes /\ SettledBytes <= ReservedBytes
    /\ MaximumBytes \in Nat /\ MaximumExecutions \in Nat
BY BudgetAssumption

LEMMA Times ==
    ASSUME NEW a \in Nat, NEW n \in Nat
    PROVE  /\ a * n \in Nat /\ a * (n + 1) = a * n + a
           /\ n > 0 => a * (n - 1) = a * n - a /\ a <= a * n
<1>1. a * n \in Nat /\ a * (n + 1) = a * n + a /\ a * (n - 1) = a * n - a
    OBVIOUS
<1>2. ASSUME n > 0
      PROVE  a <= a * n
  <2>1. a * (n - 1) >= 0
      BY <1>2
  <2> QED
      BY <1>1, <2>1
<1> QED
    BY <1>1, <1>2

\* The account counts nonnegative shares.
LEMMA Counts ==
    ASSUME Account
    PROVE  /\ Cardinality(Open) \in Nat /\ Cardinality(Kept) \in Nat
           /\ ReservedBytes * Cardinality(Open) \in Nat
           /\ SettledBytes * Cardinality(Kept) \in Nat
           /\ bytes \in 0 .. MaximumBytes
           /\ IsFiniteSet(Open \cup Kept) /\ Cardinality(Open \cup Kept) \in Nat
<1>1. Cardinality(Open) \in Nat /\ Cardinality(Kept) \in Nat
    BY FS_CardinalityType DEF Account
<1>2. IsFiniteSet(Open \cup Kept) /\ Cardinality(Open \cup Kept) \in Nat
    BY FS_Union, FS_CardinalityType DEF Account
<1>3. ReservedBytes * Cardinality(Open) \in Nat /\ SettledBytes * Cardinality(Kept) \in Nat
    BY <1>1, Shares, Times
<1> QED
    BY <1>1, <1>2, <1>3, Shares DEF Account

\* A reservation is taken into an account it fits in.
LEMMA AccountLends ==
    ASSUME Account, NEW l \in Leases, l \notin Open \cup Kept,
           Open' = Open \cup {l}, Kept' = Kept, bytes' = bytes + ReservedBytes,
           Cardinality(Open \cup Kept) < MaximumExecutions, bytes' <= MaximumBytes
    PROVE  Account' /\ bytes' \in 0 .. MaximumBytes
<1> USE Shares, Counts
<1>1. IsFiniteSet(Open') /\ Cardinality(Open') = Cardinality(Open) + 1
    BY FS_AddElement DEF Account
<1>2. ReservedBytes * Cardinality(Open') = ReservedBytes * Cardinality(Open) + ReservedBytes
    BY <1>1, Times
<1>3. Open' \cup Kept' = (Open \cup Kept) \cup {l}
    OBVIOUS
<1>4. Cardinality(Open' \cup Kept') = Cardinality(Open \cup Kept) + 1
    BY <1>3, FS_AddElement
<1>5. IsFiniteSet(Kept') /\ SettledBytes * Cardinality(Kept') = SettledBytes * Cardinality(Kept)
    BY DEF Account
<1>6. bytes' = ReservedBytes * Cardinality(Open') + SettledBytes * Cardinality(Kept')
    BY <1>2, <1>5 DEF Account
<1>7. Cardinality(Open' \cup Kept') <= MaximumExecutions
    BY <1>4
<1>8. Account'
    BY <1>1, <1>5, <1>6, <1>7 DEF Account
<1>9. bytes' \in 0 .. MaximumBytes
    BY DEF Account
<1> QED
    BY <1>8, <1>9

\* A full share is given back.
LEMMA AccountReturns ==
    ASSUME Account, NEW l \in Open, l \notin Kept,
           Open' = Open \ {l}, Kept' = Kept, bytes' = bytes - ReservedBytes
    PROVE  Account' /\ bytes' \in 0 .. MaximumBytes
<1> USE Shares, Counts
<1>1. IsFiniteSet(Open') /\ Cardinality(Open') = Cardinality(Open) - 1
    BY FS_RemoveElement DEF Account
<1>2. Cardinality(Open) > 0 /\ Cardinality(Open') \in Nat
    BY <1>1, FS_CardinalityType
<1>3. /\ ReservedBytes * Cardinality(Open') = ReservedBytes * Cardinality(Open) - ReservedBytes
      /\ ReservedBytes <= ReservedBytes * Cardinality(Open)
    BY <1>1, <1>2, Times
<1>4. Open' \cup Kept' = (Open \cup Kept) \ {l}
    OBVIOUS
<1>5. Cardinality(Open' \cup Kept') = Cardinality(Open \cup Kept) - 1
    BY <1>4, FS_RemoveElement
<1>6. IsFiniteSet(Kept') /\ SettledBytes * Cardinality(Kept') = SettledBytes * Cardinality(Kept)
    BY DEF Account
<1>7. bytes' = ReservedBytes * Cardinality(Open') + SettledBytes * Cardinality(Kept')
    BY <1>3, <1>6 DEF Account
<1>8. bytes' \in 0 .. MaximumBytes
    BY <1>3 DEF Account
<1>9. Cardinality(Open' \cup Kept') <= MaximumExecutions
    BY <1>5 DEF Account
<1> QED
    BY <1>1, <1>6, <1>7, <1>8, <1>9 DEF Account

\* A share shrinks to what a settled entry keeps.
LEMMA AccountShrinks ==
    ASSUME Account, NEW l \in Open, l \notin Kept, Open' = Open \ {l},
           Kept' = Kept \cup {l}, bytes' = bytes - (ReservedBytes - SettledBytes)
    PROVE  Account' /\ bytes' \in 0 .. MaximumBytes
<1> USE Shares, Counts
<1>1. IsFiniteSet(Open') /\ Cardinality(Open') = Cardinality(Open) - 1
    BY FS_RemoveElement DEF Account
<1>2. Cardinality(Open) > 0 /\ Cardinality(Open') \in Nat
    BY <1>1, FS_CardinalityType
<1>3. /\ ReservedBytes * Cardinality(Open') = ReservedBytes * Cardinality(Open) - ReservedBytes
      /\ ReservedBytes <= ReservedBytes * Cardinality(Open)
    BY <1>1, <1>2, Times
<1>4. IsFiniteSet(Kept') /\ Cardinality(Kept') = Cardinality(Kept) + 1
    BY FS_AddElement DEF Account
<1>5. SettledBytes * Cardinality(Kept') = SettledBytes * Cardinality(Kept) + SettledBytes
    BY <1>4, Times
<1>6. Open' \cup Kept' = Open \cup Kept
    OBVIOUS
<1>7. bytes' = ReservedBytes * Cardinality(Open') + SettledBytes * Cardinality(Kept')
    BY <1>3, <1>5 DEF Account
<1>8. bytes' \in 0 .. MaximumBytes
    BY <1>3 DEF Account
<1>9. Cardinality(Open' \cup Kept') <= MaximumExecutions
    BY <1>6 DEF Account
<1> QED
    BY <1>1, <1>4, <1>7, <1>8, <1>9 DEF Account

\* What a settled entry keeps is given back.
LEMMA AccountForgets ==
    ASSUME Account, NEW l \in Kept, l \notin Open,
           Open' = Open, Kept' = Kept \ {l}, bytes' = bytes - SettledBytes
    PROVE  Account' /\ bytes' \in 0 .. MaximumBytes
<1> USE Shares, Counts
<1>1. IsFiniteSet(Kept') /\ Cardinality(Kept') = Cardinality(Kept) - 1
    BY FS_RemoveElement DEF Account
<1>2. Cardinality(Kept) > 0 /\ Cardinality(Kept') \in Nat
    BY <1>1, FS_CardinalityType
<1>3. /\ SettledBytes * Cardinality(Kept') = SettledBytes * Cardinality(Kept) - SettledBytes
      /\ SettledBytes <= SettledBytes * Cardinality(Kept)
    BY <1>1, <1>2, Times
<1>4. Open' \cup Kept' = (Open \cup Kept) \ {l}
    OBVIOUS
<1>5. Cardinality(Open' \cup Kept') = Cardinality(Open \cup Kept) - 1
    BY <1>4, FS_RemoveElement
<1>6. IsFiniteSet(Open') /\ ReservedBytes * Cardinality(Open') = ReservedBytes * Cardinality(Open)
    BY DEF Account
<1>7. bytes' = ReservedBytes * Cardinality(Open') + SettledBytes * Cardinality(Kept')
    BY <1>3, <1>6 DEF Account
<1>8. bytes' \in 0 .. MaximumBytes
    BY <1>3 DEF Account
<1>9. Cardinality(Open' \cup Kept') <= MaximumExecutions
    BY <1>5 DEF Account
<1> QED
    BY <1>1, <1>6, <1>7, <1>8, <1>9 DEF Account

-----------------------------------------------------------------------------
(* Who owns a lease.                                                       *)

Shapes ==
    /\ lease \in [Leases -> 0 .. ReservedBytes]
    /\ entry \in [Keys -> Entries \cup {NoEntry}]
    /\ reservation \in [Leases -> {NoReservation} \cup
                          [key : Keys, stage : {"held", "dispatched"}]]

LEMMA EntryShape ==
    ASSUME Shapes, NEW k \in Keys
    PROVE  /\ Present(k) \in BOOLEAN
           /\ Present(k) => entry[k] \in Entries
           /\ ~Present(k) => entry[k] = NoEntry
<1>1. entry[k] \in Entries \/ entry[k] = NoEntry
    BY DEF Shapes
<1>2. ASSUME NEW e \in Entries
      PROVE  e.present = TRUE
    BY DEF Entries
<1>3. NoEntry.present = FALSE
    BY DEF NoEntry
<1> QED
    BY <1>1, <1>2, <1>3 DEF Present

\* A lease is open, kept or free, and one entry answers for it at most.
LEMMA Leased ==
    ASSUME Shapes, Owners
    PROVE  /\ Open \subseteq Leases /\ Kept \subseteq Leases
           /\ Open \cap Kept = {}
           /\ {l \in Leases : lease[l] > 0} = Open \cup Kept
           /\ \A l \in Leases : reservation[l] # NoReservation <=> l \in Reserved
           /\ \A k \in Keys : Pending(k) => entry[k].lease \in Open
           /\ \A k \in Keys : Present(k) /\ ~Pending(k) => entry[k].lease \in Kept
<1>1. \A k \in Keys : Present(k) => entry[k].lease \in Leases
    BY EntryShape DEF Entries
<1>2. Open \subseteq Leases /\ Kept \subseteq Leases
    BY <1>1 DEF Open, Kept, Reserved, Pending
<1>3. Open \cap Kept = {}
    BY DEF Open, Kept, Owners, Pending
<1>4. \A l \in Leases : lease[l] > 0 <=> l \in Open \cup Kept
    BY Shares DEF Owners, Share
<1> QED
    BY <1>2, <1>3, <1>4 DEF Open, Kept, Reserved, Pending

SameEntry(j) ==
    /\ Present(j)' = Present(j)
    /\ Present(j) =>
          entry'[j].lease = entry[j].lease /\ entry'[j].pending = entry[j].pending

\* Nothing moves: what an entry tells changes, or the stage of a reservation.
LEMMA SharesUnmoved ==
    ASSUME Shapes, Owners, Account, UNCHANGED <<lease, bytes>>,
           \A l \in Leases : reservation'[l] = NoReservation <=> reservation[l] = NoReservation,
           \A j \in Keys : SameEntry(j)
    PROVE  Owners' /\ Account'
<1>1. \A j \in Keys : Pending(j)' = Pending(j)
    BY EntryShape DEF SameEntry, Pending, Entries
<1>2. Reserved' = Reserved
    BY DEF Reserved
<1>3. Open' = Open /\ Kept' = Kept
    BY <1>1, <1>2 DEF Open, Kept, SameEntry, Pending
<1>4. \A l \in Leases : Share(l)' = Share(l)
    BY <1>3 DEF Share
<1>5. Account'
    BY <1>3 DEF Account
<1>6. Owners'
    BY <1>2, <1>4 DEF Owners, SameEntry
<1> QED
    BY <1>5, <1>6

\* The shares after one lease has gone from open, kept or free to another.
LEMMA SharesMove ==
    ASSUME Shapes, Owners, NEW l \in Leases, NEW share \in {0, SettledBytes, ReservedBytes},
           lease' = [lease EXCEPT ![l] = share],
           \A m \in Leases \ {l} : m \in Open' <=> m \in Open,
           \A m \in Leases \ {l} : m \in Kept' <=> m \in Kept,
           share = Share(l)'
    PROVE  \A m \in Leases : lease'[m] = Share(m)'
<1>1. lease'[l] = share /\ \A m \in Leases \ {l} : lease'[m] = lease[m]
    BY DEF Shapes
<1>2. \A m \in Leases \ {l} : Share(m)' = Share(m)
    BY DEF Share
<1> QED
    BY <1>1, <1>2 DEF Owners

LEMMA ReserveMoves ==
    ASSUME Shapes, Owners, Account, NEW l \in Leases, NEW k \in Keys, Reserve(l, k)
    PROVE  Owners' /\ Account' /\ bytes' \in 0 .. MaximumBytes
<1>1. /\ lease[l] = 0 /\ lease' = [lease EXCEPT ![l] = ReservedBytes]
      /\ bytes' = bytes + ReservedBytes /\ bytes' <= MaximumBytes
      /\ Cardinality({m \in Leases : lease[m] > 0}) < MaximumExecutions
      /\ UNCHANGED entry
    BY DEF Reserve, Lend, Fits
<1>2. /\ reservation'[l] # NoReservation
      /\ \A m \in Leases : m # l => reservation'[m] = reservation[m]
    BY DEF Reserve, Shapes, NoReservation
<1>3. Open \subseteq Leases /\ Kept \subseteq Leases /\ l \notin Open \cup Kept
      /\ Cardinality(Open \cup Kept) < MaximumExecutions
  <2>1. {m \in Leases : lease[m] > 0} = Open \cup Kept
      BY Leased
  <2>2. l \notin {m \in Leases : lease[m] > 0}
      BY <1>1
  <2> QED
      BY <1>1, <2>1, <2>2, Leased
<1>4. Reserved' = Reserved \cup {l}
    BY <1>2 DEF Reserved
<1>5. \A j \in Keys : (Pending(j)' <=> Pending(j)) /\ (Present(j)' <=> Present(j))
    BY <1>1 DEF Pending, Present
<1>6. Open' = Open \cup {l} /\ Kept' = Kept
    BY <1>1, <1>4, <1>5 DEF Open, Kept
<1>7. Account' /\ bytes' \in 0 .. MaximumBytes
    BY <1>1, <1>3, <1>6, AccountLends
<1>8. \A m \in Leases : lease'[m] = Share(m)'
    BY <1>1, <1>6, SharesMove DEF Share
<1>9. \A j \in Keys : Present(j) => entry[j].lease # l
    BY <1>3 DEF Open, Kept
<1> QED
    BY <1>1, <1>4, <1>5, <1>7, <1>8, <1>9 DEF Owners

\* A reservation ends and its lease is free again.
LEMMA ReleaseMoves ==
    ASSUME Shapes, Owners, Account, NEW l \in Leases, reservation[l] # NoReservation,
           reservation' = [reservation EXCEPT ![l] = NoReservation], Return(l),
           UNCHANGED entry
    PROVE  Owners' /\ Account' /\ bytes' \in 0 .. MaximumBytes
<1>1. l \in Open /\ l \notin Kept /\ l \in Reserved /\ lease[l] = ReservedBytes
    BY Leased DEF Owners, Share, Open
<1>2. /\ lease' = [lease EXCEPT ![l] = 0] /\ bytes' = bytes - ReservedBytes
    BY <1>1 DEF Return
<1>3. Reserved' = Reserved \ {l}
    BY DEF Reserved, Shapes
<1>4. \A j \in Keys : (Pending(j)' <=> Pending(j)) /\ (Present(j)' <=> Present(j))
    BY DEF Pending, Present
<1>5. \A j \in Keys : Present(j) => entry[j].lease # l
    BY <1>1 DEF Owners
<1>6. Open' = Open \ {l} /\ Kept' = Kept
    BY <1>3, <1>4, <1>5 DEF Open, Kept, Pending
<1>7. Account' /\ bytes' \in 0 .. MaximumBytes
    BY <1>1, <1>2, <1>6, AccountReturns
<1>8. \A m \in Leases : lease'[m] = Share(m)'
    BY <1>1, <1>2, <1>6, SharesMove DEF Share
<1> QED
    BY <1>3, <1>4, <1>7, <1>8 DEF Owners

\* The entry of k and its lease after a step that changes no other entry.
LEMMA OneEntry ==
    ASSUME Shapes, NEW k \in Keys, NEW e \in Entries \cup {NoEntry},
           entry' = [entry EXCEPT ![k] = e]
    PROVE  /\ entry'[k] = e /\ \A j \in Keys \ {k} : entry'[j] = entry[j]
           /\ \A j \in Keys \ {k} : (Pending(j)' <=> Pending(j)) /\ (Present(j)' <=> Present(j))
<1>1. entry'[k] = e /\ \A j \in Keys \ {k} : entry'[j] = entry[j]
    BY DEF Shapes
<1> QED
    BY <1>1 DEF Pending, Present

\* A reservation becomes an entry: pending with the full share, or settled at
\* once with what a settled entry keeps.
LEMMA StartMoves ==
    ASSUME Shapes, Owners, Account, NEW l \in Leases, NEW k \in Keys, ~Present(k),
           reservation[l] # NoReservation,
           reservation' = [reservation EXCEPT ![l] = NoReservation],
           NEW e \in Entries, e.lease = l, entry' = [entry EXCEPT ![k] = e],
           IF e.pending THEN UNCHANGED <<lease, bytes>> ELSE Shrink(l)
    PROVE  Owners' /\ Account' /\ bytes' \in 0 .. MaximumBytes
<1>1. l \in Open /\ l \notin Kept /\ l \in Reserved /\ lease[l] = ReservedBytes
    BY Leased DEF Owners, Share, Open
<1>2. Reserved' = Reserved \ {l}
    BY DEF Reserved, Shapes
<1>3. /\ entry'[k] = e /\ \A j \in Keys \ {k} : entry'[j] = entry[j]
      /\ \A j \in Keys \ {k} : (Pending(j)' <=> Pending(j)) /\ (Present(j)' <=> Present(j))
    BY OneEntry
<1>4. \A j \in Keys : Present(j) => entry[j].lease # l
    BY <1>1 DEF Owners
<1>5. Present(k)' /\ (Pending(k)' <=> e.pending)
    BY <1>3 DEF Present, Pending, Entries
<1>6. \A j \in Keys : Pending(j) => Present(j) /\ j # k
    BY DEF Pending
<1>7. /\ \A j, i \in Keys : Present(j)' /\ Present(i)' /\ entry'[j].lease = entry'[i].lease => j = i
      /\ \A j \in Keys : Present(j)' => entry'[j].lease \notin Reserved'
    BY <1>2, <1>3, <1>4, <1>5 DEF Owners
<1>8. CASE e.pending
  <2>1. Open' = Open /\ Kept' = Kept
    <3>1. \A m : m \in Open' <=> m \in Open
        BY <1>1, <1>2, <1>3, <1>4, <1>5, <1>6, <1>8 DEF Open
    <3>2. \A m : m \in Kept' <=> m \in Kept
        BY <1>3, <1>5, <1>8 DEF Kept
    <3> QED
        BY <3>1, <3>2
  <2>2. Account' /\ bytes' \in 0 .. MaximumBytes
      BY <1>8, <2>1, Counts DEF Account
  <2>3. \A m \in Leases : lease'[m] = Share(m)'
      BY <1>8, <2>1 DEF Owners, Share
  <2> QED
      BY <1>7, <2>2, <2>3 DEF Owners
<1>9. CASE ~e.pending
  <2>1. lease' = [lease EXCEPT ![l] = SettledBytes] /\ bytes' = bytes - (ReservedBytes - SettledBytes)
      BY <1>1, <1>9 DEF Shrink
  <2>2. Open' = Open \ {l} /\ Kept' = Kept \cup {l}
    <3>1. \A m : m \in Open' <=> m \in Open /\ m # l
        BY <1>1, <1>2, <1>3, <1>4, <1>5, <1>6, <1>9 DEF Open
    <3>2. \A m : m \in Kept' <=> m \in Kept \/ m = l
        BY <1>3, <1>5, <1>9 DEF Kept
    <3> QED
        BY <3>1, <3>2
  <2>3. Account' /\ bytes' \in 0 .. MaximumBytes
      BY <1>1, <2>1, <2>2, AccountShrinks
  <2>4. \A m \in Leases : lease'[m] = Share(m)'
      BY <1>1, <2>1, <2>2, SharesMove DEF Share
  <2> QED
      BY <1>7, <2>3, <2>4 DEF Owners
<1> QED
    BY <1>8, <1>9

\* The execution of an entry ends and the entry stays, settled.
LEMMA SettleMoves ==
    ASSUME Shapes, Owners, Account, NEW k \in Keys, Pending(k), UNCHANGED reservation,
           NEW e \in Entries, e.lease = entry[k].lease, ~e.pending,
           entry' = [entry EXCEPT ![k] = e], Shrink(entry[k].lease)
    PROVE  Owners' /\ Account' /\ bytes' \in 0 .. MaximumBytes
<1>. PICK l \in Leases : l = entry[k].lease
    BY EntryShape DEF Pending, Entries
<1>1. l \in Open /\ l \notin Kept /\ lease[l] = ReservedBytes
    BY Leased DEF Owners, Share
<1>2. /\ entry'[k] = e /\ \A j \in Keys \ {k} : entry'[j] = entry[j]
      /\ \A j \in Keys \ {k} : (Pending(j)' <=> Pending(j)) /\ (Present(j)' <=> Present(j))
    BY OneEntry
<1>3. Present(k) /\ Present(k)' /\ ~Pending(k)' /\ Reserved' = Reserved
    BY <1>2 DEF Present, Pending, Entries, Reserved
<1>4. /\ \A j \in Keys : Present(j) /\ entry[j].lease = l => j = k
      /\ l \notin Reserved
    BY <1>3 DEF Owners
<1>5. /\ \A j, i \in Keys : Present(j)' /\ Present(i)' /\ entry'[j].lease = entry'[i].lease => j = i
      /\ \A j \in Keys : Present(j)' => entry'[j].lease \notin Reserved'
    BY <1>2, <1>3, <1>4 DEF Owners
<1>6. lease' = [lease EXCEPT ![l] = SettledBytes] /\ bytes' = bytes - (ReservedBytes - SettledBytes)
    BY <1>1 DEF Shrink
<1>7. \A j \in Keys : Pending(j) => Present(j)
    BY DEF Pending
<1>8. Open' = Open \ {l} /\ Kept' = Kept \cup {l}
  <2>1. \A m : m \in Open' <=> m \in Open /\ m # l
      BY <1>2, <1>3, <1>4, <1>7 DEF Open
  <2>2. \A m : m \in Kept' <=> m \in Kept \/ m = l
      BY <1>2, <1>3 DEF Kept
  <2> QED
      BY <2>1, <2>2
<1>9. Account' /\ bytes' \in 0 .. MaximumBytes
    BY <1>1, <1>6, <1>8, AccountShrinks
<1>10. \A m \in Leases : lease'[m] = Share(m)'
    BY <1>1, <1>6, <1>8, SharesMove DEF Share
<1> QED
    BY <1>5, <1>9, <1>10 DEF Owners

\* An entry is removed with its share, the full one or what it kept.
LEMMA RemoveMoves ==
    ASSUME Shapes, Owners, Account, NEW k \in Keys, Present(k), UNCHANGED reservation,
           Remove(k)
    PROVE  Owners' /\ Account' /\ bytes' \in 0 .. MaximumBytes
<1>. PICK l \in Leases : l = entry[k].lease
    BY EntryShape DEF Entries
<1>1. /\ entry'[k] = NoEntry /\ \A j \in Keys \ {k} : entry'[j] = entry[j]
      /\ \A j \in Keys \ {k} : (Pending(j)' <=> Pending(j)) /\ (Present(j)' <=> Present(j))
    BY OneEntry DEF Remove
<1>2. ~Present(k)' /\ ~Pending(k)' /\ Reserved' = Reserved
    BY <1>1 DEF Present, Pending, NoEntry, Reserved
<1>3. /\ \A j \in Keys : Present(j) /\ entry[j].lease = l => j = k
      /\ l \notin Reserved
    BY DEF Owners
<1>4. /\ \A j, i \in Keys : Present(j)' /\ Present(i)' /\ entry'[j].lease = entry'[i].lease => j = i
      /\ \A j \in Keys : Present(j)' => entry'[j].lease \notin Reserved'
    BY <1>1, <1>2 DEF Owners
<1>5. lease' = [lease EXCEPT ![l] = 0] /\ bytes' = bytes - lease[l]
    BY DEF Remove, Return
<1>6. \A j \in Keys : Pending(j) => Present(j)
    BY DEF Pending
<1>7. Open' = Open \ {l} /\ Kept' = Kept \ {l}
  <2>1. \A m : m \in Open' <=> m \in Open /\ m # l
      BY <1>1, <1>2, <1>3, <1>6 DEF Open
  <2>2. \A m : m \in Kept' <=> m \in Kept /\ m # l
      BY <1>1, <1>2, <1>3 DEF Kept
  <2> QED
      BY <2>1, <2>2
<1>8. Account' /\ bytes' \in 0 .. MaximumBytes
  <2>1. CASE Pending(k)
    <3>1. l \in Open /\ l \notin Kept /\ lease[l] = ReservedBytes
        BY <2>1, Leased DEF Owners, Share
    <3> QED
        BY <1>5, <1>7, <3>1, AccountReturns
  <2>2. CASE ~Pending(k)
    <3>1. l \in Kept /\ l \notin Open /\ lease[l] = SettledBytes
        BY <2>2, Leased DEF Owners, Share
    <3> QED
        BY <1>5, <1>7, <3>1, AccountForgets
  <2> QED
      BY <2>1, <2>2
<1>9. \A m \in Leases : lease'[m] = Share(m)'
    BY <1>5, <1>7, SharesMove DEF Share
<1> QED
    BY <1>4, <1>8, <1>9 DEF Owners

-----------------------------------------------------------------------------
(* Entries that a step writes.                                             *)

LEMMA NewEntries ==
    ASSUME NEW l \in Leases
    PROVE  StartedEntry(l) \in Entries /\ AbortedEntry(l) \in Entries
BY DEF StartedEntry, AbortedEntry, Entries, Statuses

LEMMA UncertainStatus ==
    ASSUME NEW k \in Keys
    PROVE  Uncertain(k) \in {"unknownOutcome", "canceled"}
           /\ (k \in Mutation => Uncertain(k) = "unknownOutcome")
BY DEF Uncertain

\* An interruption says what is uncertain and leaves the rest of the entry.
LEMMA InterruptedEntry ==
    ASSUME Shapes, NEW k \in Keys, Interrupt(k) \/ Cancel(k)
    PROVE  /\ Pending(k)
           /\ \E e \in Entries :
                 /\ entry' = [entry EXCEPT ![k] = e]
                 /\ e.lease = entry[k].lease /\ e.pending = entry[k].pending
                 /\ e.acknowledgement = entry[k].acknowledgement
                 /\ e.interruption = "cancel" => e.settled # "none"
                 /\ k \in Mutation =>
                       /\ e.settled = "unknownOutcome" /\ e.recovery = "unknownOutcome"
                       /\ e.resolution \in {"unknownOutcome", entry[k].resolution}
<1>1. Pending(k) /\ entry[k] \in Entries
    BY EntryShape DEF Interrupt, Cancel, Pending
<1>. DEFINE u == Uncertain(k)
            r == IF entry[k].resolution = "waiting" THEN u ELSE entry[k].resolution
<1>2. u \in Statuses /\ (k \in Mutation => u = "unknownOutcome")
    BY UncertainStatus DEF Statuses
<1>3. ASSUME entry' = [entry EXCEPT ![k].interruption = "wait", ![k].resolution = "rejected"],
             k \in ReadOnly
      PROVE  \E e \in Entries :
                 /\ entry' = [entry EXCEPT ![k] = e]
                 /\ e.lease = entry[k].lease /\ e.pending = entry[k].pending
                 /\ e.acknowledgement = entry[k].acknowledgement
                 /\ e.interruption = "wait"
                 /\ k \notin Mutation
  <2>. DEFINE e == [entry[k] EXCEPT !.interruption = "wait", !.resolution = "rejected"]
  <2>1. /\ e \in Entries /\ e.lease = entry[k].lease /\ e.pending = entry[k].pending
        /\ e.acknowledgement = entry[k].acknowledgement /\ e.interruption = "wait"
      BY <1>1 DEF Entries
  <2>2. entry' = [entry EXCEPT ![k] = e]
      BY <1>3 DEF Shapes
  <2>3. k \notin Mutation
      BY <1>3 DEF Mutation
  <2> QED
      BY <2>1, <2>2, <2>3
<1>4. ASSUME NEW x \in {u, r},
             entry' = [entry EXCEPT ![k].interruption = "cancel", ![k].settled = u,
                                    ![k].recovery = u, ![k].resolution = x]
      PROVE  \E e \in Entries :
                 /\ entry' = [entry EXCEPT ![k] = e]
                 /\ e.lease = entry[k].lease /\ e.pending = entry[k].pending
                 /\ e.acknowledgement = entry[k].acknowledgement
                 /\ e.settled = u /\ e.recovery = u /\ e.resolution = x
  <2>. DEFINE e == [entry[k] EXCEPT !.interruption = "cancel", !.settled = u,
                                    !.recovery = u, !.resolution = x]
  <2>1. x \in Statuses \cup {"waiting", "rejected"}
      BY <1>1, <1>2 DEF Entries
  <2>2. /\ e \in Entries /\ e.lease = entry[k].lease /\ e.pending = entry[k].pending
        /\ e.acknowledgement = entry[k].acknowledgement
        /\ e.settled = u /\ e.recovery = u /\ e.resolution = x
      BY <1>1, <1>2, <2>1 DEF Entries
  <2>3. entry' = [entry EXCEPT ![k] = e]
      BY <1>4 DEF Shapes
  <2> QED
      BY <2>2, <2>3
<1>5. CASE Interrupt(k)
  <2>1. CASE k \in ReadOnly /\ entry' = [entry EXCEPT ![k].interruption = "wait",
                                                      ![k].resolution = "rejected"]
      BY <1>1, <1>3, <2>1
  <2>2. CASE entry' = [entry EXCEPT ![k].interruption = "cancel", ![k].settled = u,
                                    ![k].recovery = u, ![k].resolution = u]
    <3>1. u \in {u, r} /\ u # "none"
        BY <1>2 DEF Statuses
    <3> HIDE DEF u, r
    <3> QED
        BY <1>1, <1>2, <1>4, <2>2, <3>1
  <2> QED
      BY <1>5, <2>1, <2>2 DEF Interrupt
<1>6. CASE Cancel(k)
  <2>1. entry' = [entry EXCEPT ![k].interruption = "cancel", ![k].settled = u,
                                    ![k].recovery = u, ![k].resolution = r]
      BY <1>6 DEF Cancel, Shapes
  <2>2. r \in {u, r} /\ r \in {u, entry[k].resolution} /\ u # "none"
      BY <1>2 DEF Statuses
  <2> HIDE DEF u, r
  <2> QED
      BY <1>1, <1>2, <1>4, <2>1, <2>2
<1> QED
    BY <1>5, <1>6

\* The entry of an execution that has ended tells its status.
LEMMA EndedEntry ==
    ASSUME Shapes, NEW k \in Keys, Pending(k), NEW status \in Statuses
    PROVE  \E e \in Entries :
              /\ e = SettledEntry(k, status)
              /\ e.lease = entry[k].lease /\ ~e.pending /\ e.settled = status
              /\ e.recovery \in {status, entry[k].recovery}
              /\ e.resolution \in {status, entry[k].resolution}
<1>1. entry[k] \in Entries
    BY EntryShape DEF Pending
<1>. PICK a \in Statuses \cup {"none"} :
        a = IF entry[k].interruption # "none" THEN status ELSE entry[k].recovery
    BY <1>1 DEF Entries
<1>. PICK b \in Statuses \cup {"waiting", "rejected"} :
        b = IF entry[k].resolution = "waiting" THEN status ELSE entry[k].resolution
    BY <1>1 DEF Entries
<1>. PICK e : e = [entry[k] EXCEPT !.pending = FALSE, !.settled = status, !.recovery = a,
                                   !.resolution = b, !.acknowledgement = "none"]
    OBVIOUS
<1>2. e = SettledEntry(k, status)
    BY <1>1 DEF SettledEntry, Entries
<1>3. e \in Entries /\ e.lease = entry[k].lease /\ ~e.pending
    BY <1>1 DEF Entries
<1>4. e.settled = status /\ e.recovery = a /\ e.resolution = b
    BY <1>1 DEF Entries
<1> QED
    BY <1>2, <1>3, <1>4

\* An execution that threw leaves its entry, rejected and fenced, or no entry.
LEMMA FailedEntry ==
    ASSUME Shapes, NEW k \in Keys, Fail(k)
    PROVE  /\ Pending(k) /\ running' = [running EXCEPT ![k] = @ - 1]
           /\ UNCHANGED <<reservation, receipt, starts, completed, look, restarts>>
           /\ \/ k \notin Mutation /\ Remove(k)
              \/ \E e \in Entries :
                    /\ entry' = [entry EXCEPT ![k] = e] /\ Shrink(entry[k].lease)
                    /\ e.lease = entry[k].lease /\ ~e.pending /\ e.interruption = "none"
                    /\ e.resolution # "canceled" /\ e.recovery # "canceled"
<1>1. Pending(k) /\ entry[k] \in Entries
    BY EntryShape DEF Fail, Pending
<1>2. CASE k \in ReplaySafe
    BY <1>1, <1>2, KindAssumption DEF Fail, Mutation
<1>3. CASE k \notin ReplaySafe
  <2>. PICK fence \in {"unknownOutcome", "none"} :
          /\ entry' = [entry EXCEPT ![k].pending = FALSE, ![k].resolution = "rejected",
                                    ![k].settled = fence, ![k].recovery = fence]
          /\ Shrink(entry[k].lease)
      BY <1>3 DEF Fail
  <2>. DEFINE e == [entry[k] EXCEPT !.pending = FALSE, !.resolution = "rejected",
                                    !.settled = fence, !.recovery = fence]
  <2>1. /\ e \in Entries /\ e.lease = entry[k].lease /\ ~e.pending /\ e.interruption = "none"
        /\ e.resolution # "canceled" /\ e.recovery # "canceled"
      BY <1>1 DEF Entries, Statuses, Fail
  <2>2. entry' = [entry EXCEPT ![k] = e]
      BY DEF Shapes
  <2> QED
      BY <1>1, <2>1, <2>2 DEF Fail
<1> QED
    BY <1>2, <1>3

-----------------------------------------------------------------------------
(* Budget is inductive.                                                    *)

LEMMA Parts ==
    ASSUME Budget
    PROVE  /\ Shapes /\ Owners /\ Account
           /\ lease \in [Leases -> 0 .. ReservedBytes]
           /\ entry \in [Keys -> Entries \cup {NoEntry}]
           /\ running \in [Keys -> 0 .. MaxStarts] /\ receipt \in [Keys -> Receipts]
           /\ starts \in [Keys -> 0 .. MaxStarts] /\ completed \in [Keys -> BOOLEAN]
           /\ look \in Looks \cup {NoLook} /\ restarts \in 0 .. MaxRestarts
           /\ bytes \in 0 .. MaximumBytes
           /\ MaxStarts \in Nat
BY BoundAssumption DEF Budget, TypeOK, Shapes

LEMMA Whole ==
    ASSUME Shapes', Owners', Account', bytes' \in 0 .. MaximumBytes,
           running' \in [Keys -> 0 .. MaxStarts], receipt' \in [Keys -> Receipts],
           starts' \in [Keys -> 0 .. MaxStarts], completed' \in [Keys -> BOOLEAN],
           look' \in Looks \cup {NoLook}, restarts' \in 0 .. MaxRestarts, Running', Told'
    PROVE  Budget'
BY DEF Budget, TypeOK, Shapes

\* Steps that leave the budget alone.
LEMMA IdleSteps ==
    ASSUME Budget,
        \/ \E k \in Keys : Reconcile(k) \/ Commit(k) \/ Scan(k)
        \/ ReadReceipt \/ UNCHANGED vars
    PROVE  Budget'
<1> USE Parts
<1>1. UNCHANGED <<lease, bytes, reservation, entry, running, starts, completed, restarts>>
    BY DEF Reconcile, Commit, Scan, ReadReceipt, vars
<1>2. Owners' /\ Account' /\ Shapes' /\ Running' /\ Told'
  <2>1. \A j \in Keys : SameEntry(j)
      BY <1>1 DEF SameEntry, Present
  <2>2. Owners' /\ Account'
      BY <1>1, <2>1, SharesUnmoved
  <2>3. Shapes' /\ Running' /\ Told'
      BY <1>1 DEF Shapes, Budget, Running, Pending, Present, Told
  <2> QED
      BY <2>2, <2>3
<1>3. receipt' \in [Keys -> Receipts]
  <2>1. CASE \E k \in Keys : Reconcile(k)
      BY <2>1 DEF Reconcile, Receipts, Statuses
  <2>2. CASE \E k \in Keys : Commit(k)
      BY <2>2 DEF Commit, Receipts
  <2>3. CASE UNCHANGED receipt
      BY <2>3
  <2> QED
      BY <2>1, <2>2, <2>3 DEF Scan, ReadReceipt, vars
<1>4. look' \in Looks \cup {NoLook}
  <2>1. CASE \E k \in Keys : Scan(k)
    <3>. PICK k \in Keys : Scan(k)
        BY <2>1
    <3>1. entry[k].settled \in Statuses
        BY EntryShape DEF Scan, Entries
    <3> QED
        BY <3>1 DEF Scan, Looks
  <2>2. CASE ReadReceipt
    <3>1. look.stage = "scanned" /\ look \in Looks
        BY <2>2 DEF ReadReceipt, NoLook
    <3>2. look.key \in Keys /\ look.status \in Statuses
        BY <3>1 DEF Looks
    <3> QED
        BY <2>2, <3>2 DEF ReadReceipt, Looks
  <2>3. CASE UNCHANGED look
      BY <2>3
  <2> QED
      BY <2>1, <2>2, <2>3 DEF Reconcile, Commit, vars
<1> QED
    BY <1>1, <1>2, <1>3, <1>4, Whole

LEMMA HeldShape ==
    ASSUME Shapes, NEW l \in Leases, reservation[l].stage # "free"
    PROVE  /\ reservation[l] # NoReservation /\ reservation[l].key \in Keys
           /\ reservation[l] \in [key : Keys, stage : {"held", "dispatched"}]
BY DEF Shapes, NoReservation

LEMMA DispatchBudget ==
    ASSUME Budget, NEW l \in Leases, Dispatch(l)
    PROVE  Budget'
<1> USE Parts
<1>1. UNCHANGED <<lease, bytes, entry, running, starts, completed, look, restarts>>
    BY DEF Dispatch
<1>2. /\ reservation[l] \in [key : Keys, stage : {"held", "dispatched"}]
      /\ reservation[l] # NoReservation
    BY HeldShape DEF Dispatch
<1>. PICK r : r = [reservation[l] EXCEPT !.stage = "dispatched"]
    OBVIOUS
<1>3. r \in [key : Keys, stage : {"held", "dispatched"}] /\ r # NoReservation
    BY <1>2 DEF NoReservation
<1>4. reservation' = [reservation EXCEPT ![l] = r]
    BY DEF Dispatch, Shapes
<1>5. Shapes'
    BY <1>1, <1>3, <1>4 DEF Shapes
<1>6. Owners' /\ Account'
  <2>1. \A m \in Leases : reservation'[m] = NoReservation <=> reservation[m] = NoReservation
      BY <1>2, <1>3, <1>4 DEF Shapes
  <2>2. \A j \in Keys : SameEntry(j)
      BY <1>1 DEF SameEntry, Present
  <2> QED
      BY <1>1, <2>1, <2>2, SharesUnmoved
<1>7. Running' /\ Told'
    BY <1>1 DEF Budget, Running, Pending, Present, Told
<1>8. receipt' \in [Keys -> Receipts]
    BY DEF Dispatch, Receipts
<1> QED
    BY <1>1, <1>5, <1>6, <1>7, <1>8, Whole

LEMMA InterruptBudget ==
    ASSUME Budget, NEW k \in Keys, Interrupt(k) \/ Cancel(k)
    PROVE  Budget'
<1> USE Parts
<1>1. UNCHANGED <<lease, bytes, reservation, running, receipt, starts, completed, look,
                  restarts>>
    BY DEF Interrupt, Cancel
<1>. PICK e \in Entries : /\ entry' = [entry EXCEPT ![k] = e]
                          /\ e.lease = entry[k].lease /\ e.pending = entry[k].pending
                          /\ e.interruption = "cancel" => e.settled # "none"
    BY InterruptedEntry
<1>2. Shapes'
    BY <1>1 DEF Shapes
<1>3. /\ entry'[k] = e /\ \A j \in Keys \ {k} : entry'[j] = entry[j]
      /\ \A j \in Keys \ {k} : (Pending(j)' <=> Pending(j)) /\ (Present(j)' <=> Present(j))
    BY OneEntry
<1>4. Pending(k) /\ Pending(k)' /\ Present(k) /\ Present(k)'
    BY <1>3, InterruptedEntry DEF Pending, Present, Entries
<1>5. \A j \in Keys : SameEntry(j)
  <2>1. \A j \in Keys : Present(j)' = Present(j)
      BY <1>2, <1>3, <1>4 DEF Present
  <2> QED
      BY <1>3, <2>1 DEF SameEntry
<1>6. Owners' /\ Account'
    BY <1>1, <1>5, SharesUnmoved
<1>7. Running' /\ Told'
    BY <1>1, <1>3, <1>4 DEF Budget, Running, Told
<1> QED
    BY <1>1, <1>2, <1>6, <1>7, Whole

LEMMA ReserveBudget ==
    ASSUME Budget, NEW l \in Leases, NEW k \in Keys, Reserve(l, k)
    PROVE  Budget'
<1> USE Parts
<1>1. UNCHANGED <<entry, running, receipt, starts, completed, look, restarts>>
    BY DEF Reserve
<1>2. Owners' /\ Account' /\ bytes' \in 0 .. MaximumBytes
    BY ReserveMoves
<1>3. Shapes'
  <2>1. lease' \in [Leases -> 0 .. ReservedBytes]
      BY Shares DEF Reserve, Lend
  <2>2. reservation' \in [Leases -> {NoReservation} \cup
                             [key : Keys, stage : {"held", "dispatched"}]]
      BY DEF Reserve, Shapes
  <2> QED
      BY <1>1, <2>1, <2>2 DEF Shapes
<1>4. Running' /\ Told'
    BY <1>1 DEF Budget, Running, Pending, Present, Told
<1> QED
    BY <1>1, <1>2, <1>3, <1>4, Whole

LEMMA ReleaseBudget ==
    ASSUME Budget, NEW l \in Leases, ReleaseReservation(l)
    PROVE  Budget'
<1> USE Parts
<1>1. /\ UNCHANGED <<entry, running, receipt, starts, completed, look, restarts>>
      /\ reservation[l] # NoReservation /\ Return(l)
      /\ reservation' = [reservation EXCEPT ![l] = NoReservation]
    BY HeldShape DEF ReleaseReservation
<1>2. Owners' /\ Account' /\ bytes' \in 0 .. MaximumBytes
    BY <1>1, ReleaseMoves
<1>3. Shapes'
    BY <1>1, Shares DEF Shapes, Return
<1>4. Running' /\ Told'
    BY <1>1 DEF Budget, Running, Pending, Present, Told
<1> QED
    BY <1>1, <1>2, <1>3, <1>4, Whole

LEMMA ExecuteBudget ==
    ASSUME Budget, NEW l \in Leases, Execute(l)
    PROVE  Budget'
<1> USE Parts
<1>1. /\ UNCHANGED <<receipt, completed, look, restarts>>
      /\ reservation[l] # NoReservation /\ reservation[l].key \in Keys
      /\ reservation' = [reservation EXCEPT ![l] = NoReservation]
    BY HeldShape DEF Execute
<1>. PICK k \in Keys : k = reservation[l].key
    BY <1>1
<1>2. CASE Present(k) /\ Return(l) /\ UNCHANGED <<entry, running, starts>>
  <2>1. Owners' /\ Account' /\ bytes' \in 0 .. MaximumBytes
      BY <1>1, <1>2, ReleaseMoves
  <2>2. Shapes'
      BY <1>1, <1>2, Shares DEF Shapes, Return
  <2>3. Running' /\ Told'
      BY <1>2 DEF Budget, Running, Pending, Present, Told
  <2> QED
      BY <1>1, <1>2, <2>1, <2>2, <2>3, Whole
<1>3. CASE ~Present(k) /\ Starts(k) /\ entry' = [entry EXCEPT ![k] = StartedEntry(l)]
           /\ UNCHANGED <<lease, bytes>>
  <2>. PICK e \in Entries : e = StartedEntry(l)
      BY NewEntries
  <2>1. e.lease = l /\ e.pending /\ e.present
      BY DEF StartedEntry
  <2>2. Owners' /\ Account' /\ bytes' \in 0 .. MaximumBytes
      BY <1>1, <1>3, <2>1, StartMoves
  <2>3. Shapes'
      BY <1>1, <1>3 DEF Shapes
  <2>4. /\ entry'[k] = e
        /\ \A j \in Keys \ {k} : (Pending(j)' <=> Pending(j)) /\ (Present(j)' <=> Present(j))
      BY <1>3, OneEntry
  <2>5. Pending(k)' /\ running[k] = 0
      BY <1>3, <2>1, <2>4 DEF Pending, Present, Budget, Running
  <2>6. /\ running'[k] = 1 /\ \A j \in Keys \ {k} : running'[j] = running[j]
        /\ running' \in [Keys -> 0 .. MaxStarts] /\ starts' \in [Keys -> 0 .. MaxStarts]
      BY <1>3, <2>5 DEF Starts
  <2>7. Running' /\ Told'
    <3>1. e.interruption = "none" /\ \A j \in Keys \ {k} : entry'[j] = entry[j]
        BY <1>3, OneEntry DEF StartedEntry
    <3> QED
        BY <2>4, <2>5, <2>6, <3>1 DEF Budget, Running, Told
  <2> QED
      BY <1>1, <2>2, <2>3, <2>6, <2>7, Whole
<1>4. CASE ~Present(k) /\ entry' = [entry EXCEPT ![k] = AbortedEntry(l)] /\ Shrink(l)
           /\ UNCHANGED <<running, starts>>
  <2>. PICK e \in Entries : e = AbortedEntry(l)
      BY NewEntries
  <2>1. e.lease = l /\ ~e.pending /\ e.present
      BY DEF AbortedEntry
  <2>2. Owners' /\ Account' /\ bytes' \in 0 .. MaximumBytes
      BY <1>1, <1>4, <2>1, StartMoves
  <2>3. Shapes'
      BY <1>1, <1>4, Shares DEF Shapes, Shrink
  <2>4. /\ entry'[k] = e
        /\ \A j \in Keys \ {k} : (Pending(j)' <=> Pending(j)) /\ (Present(j)' <=> Present(j))
      BY <1>4, OneEntry
  <2>5. ~Pending(k)' /\ ~Pending(k)
      BY <1>4, <2>1, <2>4 DEF Pending
  <2>6. Running' /\ Told'
    <3>1. e.settled = "canceled" /\ \A j \in Keys \ {k} : entry'[j] = entry[j]
        BY <1>4, OneEntry DEF AbortedEntry
    <3> QED
        BY <1>4, <2>4, <2>5, <3>1 DEF Budget, Running, Told
  <2> QED
      BY <1>1, <1>4, <2>2, <2>3, <2>6, Whole
<1> QED
    BY <1>2, <1>3, <1>4 DEF Execute

\* What an execution's end does to the budget: the entry is settled or gone.
LEMMA EndBudget ==
    ASSUME Budget, NEW k \in Keys, Pending(k), running' = [running EXCEPT ![k] = @ - 1],
           completed' \in [Keys -> BOOLEAN],
           UNCHANGED <<reservation, receipt, starts, look, restarts>>,
           \/ Remove(k)
           \/ \E e \in Entries :
                 /\ e.lease = entry[k].lease /\ ~e.pending
                 /\ e.interruption = "cancel" => e.settled # "none"
                 /\ entry' = [entry EXCEPT ![k] = e] /\ Shrink(entry[k].lease)
    PROVE  Budget'
<1> USE Parts
<1>. PICK l \in Leases : l = entry[k].lease
    BY EntryShape DEF Pending, Entries
<1>1. running[k] = 1 /\ Present(k)
    BY DEF Budget, Running, Pending
<1>2. ASSUME NEW e \in Entries \cup {NoEntry}, entry' = [entry EXCEPT ![k] = e],
             ~Pending(k)', e = NoEntry \/ (e.interruption = "cancel" => e.settled # "none")
      PROVE  Running' /\ running' \in [Keys -> 0 .. MaxStarts] /\ Told'
  <2>1. \A j \in Keys \ {k} : Pending(j)' <=> Pending(j)
      BY <1>2, OneEntry
  <2>2. /\ running'[k] = 0 /\ \A j \in Keys \ {k} : running'[j] = running[j]
        /\ running' \in [Keys -> 0 .. MaxStarts]
      BY <1>1
  <2>3. Told'
    <3>1. entry'[k] = e /\ \A j \in Keys \ {k} : entry'[j] = entry[j]
          /\ \A i \in Keys \ {k} : Present(i)' <=> Present(i)
        BY <1>2, OneEntry
    <3>2. e = NoEntry => ~Present(k)'
        BY <3>1 DEF Present, NoEntry
    <3> QED
        BY <1>2, <3>1, <3>2 DEF Budget, Told
  <2> QED
      BY <1>2, <2>1, <2>2, <2>3 DEF Budget, Running
<1>3. CASE Remove(k)
  <2>1. entry' = [entry EXCEPT ![k] = NoEntry]
      BY <1>3 DEF Remove
  <2>2. Owners' /\ Account' /\ bytes' \in 0 .. MaximumBytes
      BY <1>1, <1>3, RemoveMoves
  <2>3. Shapes'
      BY <1>3, <2>1, Shares DEF Shapes, Remove, Return
  <2>4. ~Pending(k)'
      BY <2>1, OneEntry DEF Pending, Present, NoEntry
  <2> QED
      BY <1>2, <2>1, <2>2, <2>3, <2>4, Whole
<1>4. ASSUME NEW e \in Entries, e.lease = entry[k].lease, ~e.pending,
             e.interruption = "cancel" => e.settled # "none",
             entry' = [entry EXCEPT ![k] = e], Shrink(entry[k].lease)
      PROVE  Budget'
  <2>1. Owners' /\ Account' /\ bytes' \in 0 .. MaximumBytes
      BY <1>4, SettleMoves
  <2>2. Shapes'
      BY <1>4, Shares DEF Shapes, Shrink
  <2>3. ~Pending(k)'
      BY <1>4, OneEntry DEF Pending
  <2> QED
      BY <1>2, <1>4, <2>1, <2>2, <2>3, Whole
<1> QED
    BY <1>3, <1>4

\* What the end of an execution tells is one of the statuses.
LEMMA PublishedStatus ==
    ASSUME Shapes, Told, NEW k \in Keys, NEW ended \in Statuses, Publish(k, ended)
    PROVE  /\ Published(k, ended) \in Statuses
           /\ k \in Mutation => Published(k, ended) = ended /\ ended # "canceled"
<1>1. entry[k] \in Entries /\ Present(k)
    BY EntryShape DEF Publish, Pending
<1> QED
    BY <1>1, UncertainStatus DEF Told, Entries, Published, Mutation, Publish

LEMMA EndsBudget ==
    ASSUME Budget, NEW k \in Keys, Ends(k)
    PROVE  Budget'
<1> USE Parts
<1>1. CASE Fail(k)
    BY <1>1, FailedEntry, EndBudget
<1>2. ASSUME NEW ended \in Statuses, Publish(k, ended)
      PROVE  Budget'
  <2>. PICK status \in Statuses : status = Published(k, ended)
      BY <1>2, PublishedStatus DEF Budget
  <2>1. /\ Pending(k) /\ running' = [running EXCEPT ![k] = @ - 1]
        /\ UNCHANGED <<reservation, receipt, starts, look, restarts>>
        /\ completed' \in [Keys -> BOOLEAN]
      BY <1>2 DEF Publish
  <2>2. CASE Remove(k)
      BY <2>1, <2>2, EndBudget
  <2>3. CASE entry' = [entry EXCEPT ![k] = SettledEntry(k, status)] /\ Shrink(entry[k].lease)
    <3>. PICK e \in Entries : /\ e = SettledEntry(k, status)
                              /\ e.lease = entry[k].lease /\ ~e.pending /\ e.settled = status
        BY <2>1, EndedEntry
    <3>1. e.settled # "none"
        BY DEF Statuses
    <3> QED
        BY <2>1, <2>3, <3>1, EndBudget
  <2> QED
      BY <1>2, <2>2, <2>3 DEF Publish
<1> QED
    BY <1>1, <1>2 DEF Ends

\* An acknowledgement is noted in a pending entry and removes a settled one.
LEMMA AcknowledgeBudget ==
    ASSUME Budget, NEW k \in Keys, NEW status \in Statuses, Acknowledge(k, status),
           UNCHANGED <<reservation, running, receipt, starts, completed, restarts>>,
           look' \in Looks \cup {NoLook}
    PROVE  Budget'
<1> USE Parts
<1>1. Present(k) /\ entry[k] \in Entries
    BY EntryShape DEF Acknowledge
<1>2. CASE entry[k].pending /\ entry' = [entry EXCEPT ![k].acknowledgement = status]
           /\ UNCHANGED <<lease, bytes>>
  <2>. PICK e : e = [entry[k] EXCEPT !.acknowledgement = status]
      OBVIOUS
  <2>1. /\ e \in Entries /\ e.lease = entry[k].lease /\ e.pending = entry[k].pending
        /\ e.settled = entry[k].settled /\ e.interruption = entry[k].interruption /\ e.present
      BY <1>1 DEF Entries
  <2>2. entry' = [entry EXCEPT ![k] = e]
      BY <1>2 DEF Shapes
  <2>3. Shapes'
      BY <1>2, <2>1, <2>2 DEF Shapes
  <2>4. /\ entry'[k] = e /\ \A j \in Keys \ {k} : entry'[j] = entry[j]
        /\ \A j \in Keys \ {k} : (Pending(j)' <=> Pending(j)) /\ (Present(j)' <=> Present(j))
      BY <2>1, <2>2, OneEntry
  <2>5. Present(k)' /\ Pending(k) /\ Pending(k)'
      BY <1>1, <1>2, <2>1, <2>4 DEF Pending, Present
  <2>6. \A j \in Keys : SameEntry(j)
    <3>1. \A j \in Keys : Present(j)' = Present(j)
        BY <1>1, <2>3, <2>4, <2>5 DEF Present
    <3> QED
        BY <2>1, <2>4, <3>1 DEF SameEntry
  <2>7. Owners' /\ Account'
      BY <1>2, <2>6, SharesUnmoved
  <2>8. Running' /\ Told'
      BY <1>1, <2>1, <2>4, <2>5 DEF Budget, Running, Told
  <2> QED
      BY <1>2, <2>3, <2>7, <2>8, Whole
<1>3. CASE ~entry[k].pending /\ Remove(k)
  <2>1. Owners' /\ Account' /\ bytes' \in 0 .. MaximumBytes
      BY <1>1, <1>3, RemoveMoves
  <2>2. Shapes'
    <3>1. /\ entry' = [entry EXCEPT ![k] = NoEntry]
          /\ lease' = [lease EXCEPT ![entry[k].lease] = 0]
        BY <1>3 DEF Remove, Return
    <3>. PICK l : l = entry[k].lease
        OBVIOUS
    <3>2. lease' \in [Leases -> 0 .. ReservedBytes]
      <4>1. lease' = [lease EXCEPT ![l] = 0] /\ 0 \in 0 .. ReservedBytes
          BY <3>1, Shares
      <4> QED
          BY <4>1
    <3>3. entry' \in [Keys -> Entries \cup {NoEntry}]
        BY <3>1
    <3> QED
        BY <3>2, <3>3 DEF Shapes
  <2>3. /\ entry'[k] = NoEntry /\ \A j \in Keys \ {k} : entry'[j] = entry[j]
        /\ \A j \in Keys \ {k} : (Pending(j)' <=> Pending(j)) /\ (Present(j)' <=> Present(j))
      BY <1>3, OneEntry DEF Remove
  <2>4. ~Present(k)' /\ ~Pending(k)' /\ ~Pending(k)
      BY <1>3, <2>3 DEF Present, Pending, NoEntry
  <2>5. Running' /\ Told'
      BY <2>3, <2>4 DEF Budget, Running, Told
  <2> QED
      BY <2>1, <2>2, <2>5, Whole
<1> QED
    BY <1>1, <1>2, <1>3 DEF Acknowledge

\* What maintenance has read it looked at before.
LEMMA LookShape ==
    ASSUME Budget, look.stage = "read"
    PROVE  /\ look.key \in Keys /\ look.status \in Statuses /\ look.receipt \in Receipts
BY Parts DEF Looks, NoLook

LEMMA RestartBudget ==
    ASSUME Budget, Restart
    PROVE  Budget'
<1> USE Parts
<1>1. /\ lease' = [l \in Leases |-> 0] /\ bytes' = 0
      /\ reservation' = [l \in Leases |-> NoReservation] /\ entry' = [k \in Keys |-> NoEntry]
    BY DEF Restart
<1>2. \A k \in Keys : ~Present(k)' /\ ~Pending(k)'
    BY <1>1 DEF Present, Pending, NoEntry
<1>3. Open' = {} /\ Kept' = {}
    BY <1>1, <1>2 DEF Open, Kept, Reserved
<1>4. Owners'
    BY <1>1, <1>2, <1>3 DEF Owners, Share
<1>5. Account'
  <2>1. Cardinality({}) = 0 /\ IsFiniteSet({}) /\ {} \cup {} = {}
      BY FS_EmptySet
  <2> QED
      BY <1>1, <1>3, <2>1, Shares DEF Account
<1>6. Shapes' /\ bytes' \in 0 .. MaximumBytes
    BY <1>1, Shares DEF Shapes
<1>7. Running' /\ Told'
    BY <1>2 DEF Restart, Running, Told
<1>8. restarts' \in 0 .. MaxRestarts
    BY BoundAssumption DEF Restart
<1> QED
    BY <1>4, <1>5, <1>6, <1>7, <1>8, Whole DEF Restart

LEMMA BudgetInit == Init => Budget
<1> SUFFICES ASSUME Init PROVE Budget
    OBVIOUS
<1>1. \A k \in Keys : ~Present(k) /\ ~Pending(k)
    BY DEF Init, Present, Pending, NoEntry
<1>2. Open = {} /\ Kept = {}
    BY <1>1 DEF Init, Open, Kept, Reserved
<1>3. Owners
    BY <1>1, <1>2 DEF Init, Owners, Share
<1>4. Account
  <2>1. Cardinality({}) = 0 /\ IsFiniteSet({}) /\ {} \cup {} = {}
      BY FS_EmptySet
  <2> QED
      BY <1>2, <2>1, Shares DEF Init, Account
<1>5. TypeOK
    BY Shares, BoundAssumption DEF Init, TypeOK, Receipts
<1>6. Running /\ Told
    BY <1>1 DEF Init, Running, Told
<1> QED
    BY <1>3, <1>4, <1>5, <1>6 DEF Budget

LEMMA BudgetNext == Budget /\ [Next]_vars => Budget'
<1> SUFFICES ASSUME Budget, [Next]_vars PROVE Budget'
    OBVIOUS
<1>1. ASSUME NEW k \in Keys, AcknowledgeCommitted(k)
      PROVE  Budget'
    BY <1>1, Parts, AcknowledgeBudget DEF AcknowledgeCommitted
<1>2. CASE Maintain
  <2>1. look.stage = "read" /\ look' = NoLook
        /\ UNCHANGED <<reservation, running, receipt, starts, completed, restarts>>
      BY <1>2 DEF Maintain
  <2>2. CASE Acknowledge(look.key, look.receipt) /\ look.receipt \in Statuses
      BY <2>1, <2>2, LookShape, AcknowledgeBudget
  <2>3. CASE UNCHANGED <<lease, bytes, entry>>
    <3>1. Owners' /\ Account'
      <4>1. \A j \in Keys : SameEntry(j)
          BY <2>3 DEF SameEntry, Present
      <4> QED
          BY <2>1, <2>3, <4>1, Parts, SharesUnmoved
    <3>2. Shapes' /\ Running' /\ Told'
        BY <2>1, <2>3, Parts DEF Shapes, Budget, Running, Pending, Present, Told
    <3> QED
        BY <2>1, <2>3, <3>1, <3>2, Parts, Whole
  <2> QED
      BY <1>2, <2>2, <2>3 DEF Maintain, Vouches
<1> QED
    BY <1>1, <1>2, IdleSteps, DispatchBudget, InterruptBudget, ReserveBudget, ReleaseBudget,
       ExecuteBudget, EndsBudget, RestartBudget
    DEF Next

-----------------------------------------------------------------------------
(* Outcomes.                                                               *)

\* Nothing of a mutation's history changes.
SameHistory(k) ==
    /\ starts'[k] = starts[k] /\ completed'[k] = completed[k]
    /\ receipt'[k] = receipt[k]

\* An entry tells nothing worse than before: it was not canceled and, if it is
\* the retained completion, it stays.
SameTale(k) ==
    /\ Present(k)' <=> Present(k)
    /\ Pending(k)' <=> Pending(k)
    /\ Present(k) =>
          /\ entry'[k].settled = entry[k].settled
          /\ entry'[k].acknowledgement = entry[k].acknowledgement
          /\ entry'[k].resolution = entry[k].resolution
          /\ entry'[k].recovery = entry[k].recovery

\* A mutation that a step does not touch keeps its outcome.
LEMMA Untouched ==
    ASSUME NEW k \in Mutation, OutcomeOf(k), SameHistory(k), SameTale(k),
           \A l \in Leases : MayStart(l, k)' => MayStart(l, k)
    PROVE  OutcomeOf(k)'
<1>1. FenceOf(k)'
    BY DEF OutcomeOf, FenceOf, SameHistory, SameTale
<1>2. TaleOf(k)'
    BY DEF OutcomeOf, TaleOf, SameHistory, SameTale, Pending
<1> QED
    BY <1>1, <1>2 DEF OutcomeOf

\* A closed receipt stays closed, so what maintenance read is still true.
LEMMA LookingStays ==
    ASSUME Budget, Looking, UNCHANGED look \/ look' = NoLook,
           \A k \in Keys : receipt[k] \in {"completed", "canceled"} => receipt'[k] = receipt[k]
    PROVE  Looking'
BY LookShape DEF Looking, NoLook

LEMMA MutationKey ==
    ASSUME NEW k \in Mutation
    PROVE  k \in Keys /\ k \notin ReadOnly /\ k \notin ReplaySafe
BY KindAssumption DEF Mutation

\* Steps that change nothing of what the outcomes speak of.
LEMMA QuietOutcomes ==
    ASSUME Outcomes, UNCHANGED <<entry, starts, completed, receipt>>,
           \A k \in Mutation, l \in Leases : MayStart(l, k)' => MayStart(l, k)
    PROVE  \A k \in Mutation : OutcomeOf(k)'
<1>1. \A k \in Keys : SameHistory(k) /\ SameTale(k)
    BY DEF SameHistory, SameTale, Present, Pending
<1> QED
    BY <1>1, MutationKey, Untouched DEF Outcomes

LEMMA QuietSteps ==
    ASSUME Budget, Outcomes,
        \/ \E k \in Keys : Scan(k)
        \/ \E l \in Leases : ReleaseReservation(l) \/ \E k \in Keys : Reserve(l, k)
        \/ ReadReceipt \/ UNCHANGED vars
    PROVE  Outcomes'
<1> USE Parts
<1>1. UNCHANGED <<entry, starts, completed, receipt>>
    BY DEF Scan, ReleaseReservation, Reserve, ReadReceipt, vars
<1>2. \A k \in Mutation, l \in Leases : MayStart(l, k)' => MayStart(l, k)
  <2>1. CASE \E l \in Leases : ReleaseReservation(l)
      BY <2>1 DEF ReleaseReservation, MayStart, NoReservation, Shapes
  <2>2. CASE \E l \in Leases, k \in Keys : Reserve(l, k)
    <3>. PICK l \in Leases, k \in Keys : Reserve(l, k)
        BY <2>2
    <3>1. /\ \A m \in Leases \ {l} : reservation'[m] = reservation[m]
          /\ \/ reservation'[l] = [key |-> k, stage |-> "held"]
             \/ k \in ReplaySafe /\ reservation'[l] = [key |-> k, stage |-> "dispatched"]
        BY DEF Reserve, Shapes
    <3> QED
        BY <3>1, MutationKey DEF MayStart
  <2>3. CASE UNCHANGED reservation
      BY <2>3 DEF MayStart
  <2> QED
      BY <2>1, <2>2, <2>3 DEF Scan, ReadReceipt, vars
<1>3. Looking'
  <2>1. CASE ReadReceipt
      BY <2>1 DEF ReadReceipt, Looking
  <2>2. CASE \E k \in Keys : Scan(k)
      BY <2>2 DEF Scan, Looking
  <2>3. CASE UNCHANGED <<look, receipt>>
      BY <2>3 DEF Outcomes, Looking
  <2> QED
      BY <1>1, <2>1, <2>2, <2>3 DEF ReleaseReservation, Reserve, vars
<1> QED
    BY <1>1, <1>2, <1>3, QuietOutcomes DEF Outcomes

\* A receipt moves on while the entries and the executions stay.
LEMMA ReceiptOutcomes ==
    ASSUME Budget, Outcomes, NEW j \in Keys, Reconcile(j) \/ Commit(j)
    PROVE  Outcomes'
<1> USE Parts
<1>1. /\ UNCHANGED <<reservation, entry, starts, completed, look>>
      /\ receipt[j] \in {"dispatched", "unknownOutcome"}
    BY DEF Reconcile, Commit
<1>. PICK status \in Statuses : receipt' = [receipt EXCEPT ![j] = status]
    BY DEF Reconcile, Commit, Statuses
<1>2. receipt'[j] = status /\ \A k \in Keys \ {j} : receipt'[k] = receipt[k]
    OBVIOUS
<1>3. \/ ~Present(j) /\ status = "unknownOutcome"
      \/ Present(j) /\ status \in {entry[j].resolution, entry[j].recovery}
    BY <1>2 DEF Reconcile, Commit
<1>4. Looking'
    BY <1>1, <1>2, LookingStays DEF Outcomes
<1>5. ASSUME NEW k \in Mutation
      PROVE  OutcomeOf(k)'
  <2>1. OutcomeOf(k) /\ k \in Keys
      BY MutationKey DEF Outcomes
  <2>2. CASE k # j
    <3>1. SameHistory(k) /\ SameTale(k)
        BY <1>1, <1>2, <2>1, <2>2 DEF SameHistory, SameTale, Present, Pending
    <3> QED
        BY <1>1, <2>1, <3>1, Untouched DEF MayStart
  <2>3. CASE k = j
    <3>1. FenceOf(k)'
        BY <1>1, <1>2, <1>3, <2>1, <2>3
        DEF OutcomeOf, FenceOf, MayStart, Present, Statuses
    <3>2. TaleOf(k)'
        BY <1>1, <1>2, <1>3, <2>1, <2>3 DEF OutcomeOf, TaleOf, Present, Pending
    <3> QED
        BY <3>1, <3>2 DEF OutcomeOf
  <2> QED
      BY <2>2, <2>3
<1> QED
    BY <1>4, <1>5 DEF Outcomes

\* A dispatch opens the one chance to start.
LEMMA DispatchOutcomes ==
    ASSUME Budget, Outcomes, NEW l \in Leases, Dispatch(l)
    PROVE  Outcomes'
<1> USE Parts
<1>1. UNCHANGED <<entry, starts, completed, look>> /\ reservation[l].stage = "held"
    BY DEF Dispatch
<1>. PICK j \in Keys : j = reservation[l].key
    BY HeldShape DEF Dispatch
<1>2. /\ receipt[j] = "prepared" /\ receipt'[j] = "dispatched"
      /\ \A k \in Keys \ {j} : receipt'[k] = receipt[k]
    BY DEF Dispatch
<1>3. /\ \A m \in Leases \ {l} : reservation'[m] = reservation[m]
      /\ reservation'[l].key = j
  <2>1. reservation[l] \in [key : Keys, stage : {"held", "dispatched"}]
      BY <1>1, HeldShape
  <2> QED
      BY <2>1 DEF Dispatch, Shapes
<1>4. Looking'
    BY <1>1, <1>2, LookingStays DEF Outcomes
<1>5. ASSUME NEW k \in Mutation
      PROVE  OutcomeOf(k)'
  <2>1. OutcomeOf(k) /\ k \in Keys
      BY MutationKey DEF Outcomes
  <2>2. CASE k # j
    <3>1. SameHistory(k) /\ SameTale(k)
        BY <1>1, <1>2, <2>1, <2>2 DEF SameHistory, SameTale, Present, Pending
    <3>2. \A m \in Leases : MayStart(m, k)' => MayStart(m, k)
        BY <1>3, <2>2 DEF MayStart
    <3> QED
        BY <2>1, <3>1, <3>2, Untouched
  <2>3. CASE k = j
    <3>1. /\ ~Present(k) /\ starts[k] = 0 /\ \A m \in Leases : ~MayStart(m, k)
        BY <1>2, <2>1, <2>3 DEF OutcomeOf, FenceOf
    <3>2. \A m \in Leases : MayStart(m, k)' => m = l
        BY <1>3, <3>1 DEF MayStart
    <3>3. FenceOf(k)'
        BY <1>1, <1>2, <2>3, <3>1, <3>2 DEF FenceOf, Present
    <3>4. TaleOf(k)'
        BY <1>1, <1>2, <2>1, <2>3, <3>1 DEF OutcomeOf, TaleOf, Present, Pending
    <3> QED
        BY <3>3, <3>4 DEF OutcomeOf
  <2> QED
      BY <2>2, <2>3
<1> QED
    BY <1>4, <1>5 DEF Outcomes

\* An entry changes: the mutations with another key keep their outcome.
LEMMA OtherOutcomes ==
    ASSUME Budget, Outcomes, NEW j \in Keys, NEW e \in Entries \cup {NoEntry},
           entry' = [entry EXCEPT ![j] = e],
           \A k \in Keys \ {j} : SameHistory(k),
           \A k \in Mutation, l \in Leases : MayStart(l, k)' => MayStart(l, k),
           j \in Mutation => OutcomeOf(j)'
    PROVE  \A k \in Mutation : OutcomeOf(k)'
<1>. TAKE k \in Mutation
<1>1. OutcomeOf(k) /\ k \in Keys
    BY MutationKey DEF Outcomes
<1>2. CASE k = j
    BY <1>2
<1>3. CASE k # j
  <2>1. SameTale(k)
      BY <1>1, <1>3, Parts, OneEntry DEF SameTale
  <2> QED
      BY <1>1, <1>3, <2>1, Untouched
<1> QED
    BY <1>2, <1>3

\* The chance is taken: the mutation starts, or is canceled before it does.
LEMMA ExecuteOutcomes ==
    ASSUME Budget, Outcomes, NEW l \in Leases, Execute(l)
    PROVE  Outcomes'
<1> USE Parts
<1>1. /\ UNCHANGED <<receipt, completed, look>> /\ reservation[l].stage = "dispatched"
      /\ reservation' = [reservation EXCEPT ![l] = NoReservation]
    BY DEF Execute
<1>2. reservation[l] \in [key : Keys, stage : {"held", "dispatched"}]
    BY HeldShape DEF Execute
<1>. PICK j \in Keys : j = reservation[l].key
    BY <1>2
<1>3. /\ MayStart(l, j)
      /\ \A k, m : m \in Leases /\ MayStart(m, k)' => MayStart(m, k) /\ m # l
    BY <1>1, <1>2 DEF MayStart, NoReservation, Shapes
<1>4. Looking'
    BY <1>1, LookingStays DEF Outcomes
<1>5. j \in Mutation =>
         /\ OutcomeOf(j) /\ ~Present(j) /\ starts[j] = 0
         /\ receipt[j] \in {"dispatched", "unknownOutcome"}
         /\ \A m \in Leases : ~MayStart(m, j)'
    BY <1>3 DEF Outcomes, OutcomeOf, FenceOf
<1>6. CASE Present(j) /\ UNCHANGED <<entry, starts>>
  <2>1. \A k \in Mutation : OutcomeOf(k)'
      BY <1>1, <1>3, <1>6, QuietOutcomes
  <2> QED
      BY <1>4, <2>1 DEF Outcomes
<1>7. CASE ~Present(j) /\ Starts(j) /\ entry' = [entry EXCEPT ![j] = StartedEntry(l)]
  <2>. PICK e \in Entries : e = StartedEntry(l)
      BY NewEntries
  <2>1. entry'[j] = e /\ starts'[j] = starts[j] + 1
        /\ \A k \in Keys \ {j} : starts'[k] = starts[k]
      BY <1>7, OneEntry DEF Starts
  <2>2. /\ e.settled = "none" /\ e.acknowledgement = "none"
        /\ e.resolution = "waiting" /\ e.recovery = "none"
      BY DEF StartedEntry
  <2>3. \A k \in Keys \ {j} : SameHistory(k)
      BY <1>1, <2>1 DEF SameHistory
  <2>4. ASSUME j \in Mutation
        PROVE  OutcomeOf(j)'
    <3>1. starts'[j] = 1 /\ ~completed[j]
        BY <1>5, <2>1, <2>4 DEF OutcomeOf, TaleOf
    <3>2. FenceOf(j)'
        BY <1>1, <1>5, <2>4, <3>1 DEF FenceOf
    <3>3. TaleOf(j)'
        BY <1>1, <1>5, <2>1, <2>2, <2>4, <3>1 DEF TaleOf
    <3> QED
        BY <3>2, <3>3 DEF OutcomeOf
  <2> QED
      BY <1>3, <1>4, <1>7, <2>3, <2>4, OtherOutcomes DEF Outcomes
<1>8. CASE ~Present(j) /\ entry' = [entry EXCEPT ![j] = AbortedEntry(l)] /\ UNCHANGED starts
  <2>. PICK e \in Entries : e = AbortedEntry(l)
      BY NewEntries
  <2>1. entry'[j] = e /\ ~e.pending
      BY <1>8, OneEntry DEF AbortedEntry
  <2>2. \A k \in Keys \ {j} : SameHistory(k)
      BY <1>1, <1>8 DEF SameHistory
  <2>3. ASSUME j \in Mutation
        PROVE  OutcomeOf(j)'
    <3>1. ~completed[j] /\ ~Pending(j)'
        BY <1>5, <2>1, <2>3 DEF OutcomeOf, TaleOf, Pending
    <3>2. FenceOf(j)'
        BY <1>1, <1>5, <1>8, <2>3 DEF FenceOf
    <3>3. TaleOf(j)'
        BY <1>1, <1>5, <1>8, <2>3, <3>1 DEF TaleOf
    <3> QED
        BY <3>2, <3>3 DEF OutcomeOf
  <2> QED
      BY <1>3, <1>4, <1>8, <2>2, <2>3, OtherOutcomes DEF Outcomes
<1> QED
    BY <1>6, <1>7, <1>8 DEF Execute

LEMMA InterruptOutcomes ==
    ASSUME Budget, Outcomes, NEW j \in Keys, Interrupt(j) \/ Cancel(j)
    PROVE  Outcomes'
<1> USE Parts
<1>1. UNCHANGED <<reservation, receipt, starts, completed, look>>
    BY DEF Interrupt, Cancel
<1>. PICK e \in Entries :
        /\ entry' = [entry EXCEPT ![j] = e]
        /\ e.pending = entry[j].pending /\ e.acknowledgement = entry[j].acknowledgement
        /\ j \in Mutation =>
              /\ e.settled = "unknownOutcome" /\ e.recovery = "unknownOutcome"
              /\ e.resolution \in {"unknownOutcome", entry[j].resolution}
    BY InterruptedEntry
<1>2. Looking'
    BY <1>1, LookingStays DEF Outcomes
<1>3. (\A k \in Keys : SameHistory(k)) /\ \A k, l : MayStart(l, k)' => MayStart(l, k)
    BY <1>1 DEF SameHistory, MayStart
<1>4. ASSUME j \in Mutation
      PROVE  OutcomeOf(j)'
  <2>1. OutcomeOf(j) /\ Pending(j) /\ Present(j) /\ entry'[j] = e /\ Present(j)'
      BY <1>4, InterruptedEntry, OneEntry DEF Outcomes, Pending, Present, Entries
  <2>2. FenceOf(j)'
      BY <1>1, <2>1 DEF OutcomeOf, FenceOf, MayStart
  <2>3. TaleOf(j)'
      BY <1>1, <1>4, <2>1 DEF OutcomeOf, TaleOf
  <2> QED
      BY <2>2, <2>3 DEF OutcomeOf
<1> QED
    BY <1>2, <1>3, <1>4, OtherOutcomes DEF Outcomes

LEMMA FailOutcomes ==
    ASSUME Budget, Outcomes, NEW j \in Keys, Fail(j)
    PROVE  Outcomes'
<1> USE Parts
<1>1. UNCHANGED <<reservation, receipt, starts, completed, look>> /\ Pending(j)
    BY FailedEntry
<1>2. Looking'
    BY <1>1, LookingStays DEF Outcomes
<1>3. (\A k \in Keys : SameHistory(k)) /\ \A k, l : MayStart(l, k)' => MayStart(l, k)
    BY <1>1 DEF SameHistory, MayStart
<1>4. CASE j \notin Mutation /\ Remove(j)
    BY <1>2, <1>3, <1>4, OtherOutcomes DEF Outcomes, Remove
<1>5. ASSUME NEW e \in Entries, entry' = [entry EXCEPT ![j] = e], ~e.pending,
             e.resolution # "canceled" /\ e.recovery # "canceled"
      PROVE  Outcomes'
  <2>1. ASSUME j \in Mutation
        PROVE  OutcomeOf(j)'
    <3>1. OutcomeOf(j) /\ Present(j) /\ entry'[j] = e /\ ~Pending(j)'
        BY <1>1, <1>5, <2>1, OneEntry DEF Outcomes, Pending
    <3>2. FenceOf(j)'
        BY <1>1, <3>1 DEF OutcomeOf, FenceOf, MayStart
    <3>3. TaleOf(j)'
        BY <1>1, <1>5, <3>1 DEF OutcomeOf, TaleOf
    <3> QED
        BY <3>2, <3>3 DEF OutcomeOf
  <2> QED
      BY <1>2, <1>3, <1>5, <2>1, OtherOutcomes DEF Outcomes
<1> QED
    BY <1>4, <1>5, FailedEntry

\* A mutation's end tells what it was, and its completion is not forgotten.
LEMMA PublishOutcomes ==
    ASSUME Budget, Outcomes, NEW j \in Keys, NEW ended \in Statuses, Publish(j, ended)
    PROVE  Outcomes'
<1> USE Parts
<1>. PICK status \in Statuses : status = Published(j, ended)
    BY PublishedStatus DEF Budget
<1>1. /\ UNCHANGED <<reservation, receipt, starts, look>> /\ Pending(j)
      /\ completed'[j] = (completed[j] \/ ended = "completed")
      /\ \A k \in Keys \ {j} : completed'[k] = completed[k]
    BY DEF Publish
<1>2. Looking'
    BY <1>1, LookingStays DEF Outcomes
<1>3. /\ \A k \in Keys \ {j} : SameHistory(k)
      /\ \A k, l : MayStart(l, k)' => MayStart(l, k)
    BY <1>1 DEF SameHistory, MayStart
<1>4. ASSUME j \in Mutation
      PROVE  /\ OutcomeOf(j) /\ starts[j] = 1 /\ ~completed[j] /\ Present(j)
             /\ status = ended /\ status # "canceled"
             /\ completed'[j] <=> status = "completed"
             /\ receipt[j] # "canceled"
             /\ entry[j].acknowledgement \in {"none", "unknownOutcome"}
             /\ entry[j].resolution # "canceled" /\ entry[j].recovery # "canceled"
  <2>1. OutcomeOf(j) /\ Present(j)
      BY <1>1, <1>4 DEF Outcomes, Pending
  <2>2. /\ starts[j] = 1 /\ ~completed[j] /\ receipt[j] # "canceled"
        /\ entry[j].acknowledgement \in {"none", "unknownOutcome"}
        /\ entry[j].resolution # "canceled" /\ entry[j].recovery # "canceled"
      BY <1>1, <2>1 DEF OutcomeOf, TaleOf
  <2>3. status = ended /\ status # "canceled"
      BY <1>4, PublishedStatus DEF Budget
  <2> QED
      BY <1>1, <2>1, <2>2, <2>3
<1>5. j \in Mutation => FenceOf(j)'
  <2>1. ASSUME j \in Mutation
        PROVE  receipt[j] # "prepared" /\ \A l \in Leases : ~MayStart(l, j)
      BY <1>4, <2>1 DEF OutcomeOf, FenceOf
  <2> QED
      BY <1>1, <1>4, <2>1 DEF FenceOf, MayStart
<1>6. CASE Remove(j) /\ (Forgets(j, status) \/ entry[j].acknowledgement = status)
  <2>1. ASSUME j \in Mutation
        PROVE  OutcomeOf(j)'
    <3>1. status # "completed"
        BY <1>4, <1>6, <2>1, MutationKey DEF Forgets
    <3>2. ~Present(j)'
        BY <1>6, OneEntry DEF Remove, Present, NoEntry
    <3>3. TaleOf(j)'
        BY <1>1, <1>4, <2>1, <3>1, <3>2 DEF TaleOf, Pending
    <3> QED
        BY <1>5, <2>1, <3>3 DEF OutcomeOf
  <2> QED
      BY <1>2, <1>3, <1>6, <2>1, OtherOutcomes DEF Outcomes, Remove
<1>7. CASE entry' = [entry EXCEPT ![j] = SettledEntry(j, status)]
  <2>. PICK e \in Entries :
          /\ entry' = [entry EXCEPT ![j] = e] /\ ~e.pending /\ e.settled = status
          /\ e.recovery \in {status, entry[j].recovery}
          /\ e.resolution \in {status, entry[j].resolution}
      BY <1>1, <1>7, EndedEntry
  <2>1. ASSUME j \in Mutation
        PROVE  OutcomeOf(j)'
    <3>1. entry'[j] = e /\ Present(j)' /\ ~Pending(j)'
        BY OneEntry DEF Present, Pending, Entries
    <3>2. TaleOf(j)'
        BY <1>1, <1>4, <2>1, <3>1 DEF TaleOf
    <3> QED
        BY <1>5, <2>1, <3>2 DEF OutcomeOf
  <2> QED
      BY <1>2, <1>3, <2>1, OtherOutcomes DEF Outcomes
<1> QED
    BY <1>6, <1>7 DEF Publish

\* An acknowledgement forgets a completion only if the receipt has it.
LEMMA AcknowledgeOutcomes ==
    ASSUME Budget, Outcomes, NEW j \in Keys, NEW status \in Statuses,
           Acknowledge(j, status), status = "completed" => receipt[j] = "completed",
           UNCHANGED <<reservation, receipt, starts, completed>>,
           UNCHANGED look \/ look' = NoLook
    PROVE  Outcomes'
<1> USE Parts
<1>1. Looking'
    BY LookingStays DEF Outcomes
<1>2. (\A k \in Keys : SameHistory(k)) /\ \A k, l : MayStart(l, k)' => MayStart(l, k)
    BY DEF SameHistory, MayStart
<1>3. Present(j) /\ entry[j] \in Entries /\ entry[j].settled = status
    BY EntryShape DEF Acknowledge
<1>4. CASE entry[j].pending /\ entry' = [entry EXCEPT ![j].acknowledgement = status]
  <2>. PICK e : e = [entry[j] EXCEPT !.acknowledgement = status]
      OBVIOUS
  <2>1. /\ e \in Entries /\ e.pending = entry[j].pending /\ e.settled = entry[j].settled
        /\ e.resolution = entry[j].resolution /\ e.recovery = entry[j].recovery
        /\ e.acknowledgement = status /\ e.present
      BY <1>3 DEF Entries
  <2>2. entry' = [entry EXCEPT ![j] = e]
      BY <1>4 DEF Shapes
  <2>3. ASSUME j \in Mutation
        PROVE  OutcomeOf(j)'
    <3>1. OutcomeOf(j) /\ Pending(j) /\ entry'[j] = e /\ Present(j)'
        BY <1>3, <1>4, <2>1, <2>2, <2>3, OneEntry DEF Outcomes, Pending, Present
    <3>2. status = "unknownOutcome"
        BY <1>3, <3>1 DEF OutcomeOf, TaleOf, Statuses
    <3>3. FenceOf(j)'
        BY <1>3, <3>1 DEF OutcomeOf, FenceOf, MayStart
    <3>4. TaleOf(j)'
        BY <1>3, <2>1, <3>1, <3>2 DEF OutcomeOf, TaleOf
    <3> QED
        BY <3>3, <3>4 DEF OutcomeOf
  <2> QED
      BY <1>1, <1>2, <2>1, <2>2, <2>3, OtherOutcomes DEF Outcomes
<1>5. CASE Remove(j)
  <2>1. ASSUME j \in Mutation
        PROVE  OutcomeOf(j)'
    <3>1. OutcomeOf(j) /\ ~Present(j)'
        BY <1>5, <2>1, OneEntry DEF Outcomes, Remove, Present, NoEntry
    <3>2. FenceOf(j)'
        BY <1>3, <3>1 DEF OutcomeOf, FenceOf, MayStart
    <3>3. TaleOf(j)'
        BY <1>3, <3>1 DEF OutcomeOf, TaleOf, Pending
    <3> QED
        BY <3>2, <3>3 DEF OutcomeOf
  <2> QED
      BY <1>1, <1>2, <1>5, <2>1, OtherOutcomes DEF Outcomes, Remove
<1> QED
    BY <1>4, <1>5 DEF Acknowledge

LEMMA RestartOutcomes ==
    ASSUME Budget, Outcomes, Restart
    PROVE  Outcomes'
<1>1. Looking'
    BY DEF Restart, Looking, NoLook
<1>2. ASSUME NEW k \in Mutation
      PROVE  OutcomeOf(k)'
  <2>1. OutcomeOf(k) /\ k \in Keys
      BY MutationKey DEF Outcomes
  <2>2. ~Present(k)' /\ ~completed'[k] /\ receipt'[k] = receipt[k] /\ starts'[k] = starts[k]
        /\ \A l \in Leases : ~MayStart(l, k)'
      BY <2>1 DEF Restart, Present, NoEntry, MayStart, NoReservation
  <2> QED
      BY <2>1, <2>2 DEF OutcomeOf, FenceOf, TaleOf, Pending
<1> QED
    BY <1>1, <1>2 DEF Outcomes

LEMMA OutcomesInit == Init => Outcomes
BY MutationKey DEF Init, Outcomes, Looking, NoLook, OutcomeOf, FenceOf, TaleOf, Present,
    Pending, NoEntry, MayStart, NoReservation

LEMMA OutcomesNext == Budget /\ Outcomes /\ [Next]_vars => Outcomes'
<1> SUFFICES ASSUME Budget, Outcomes, [Next]_vars PROVE Outcomes'
    OBVIOUS
<1>1. ASSUME NEW k \in Keys, AcknowledgeCommitted(k)
      PROVE  Outcomes'
    BY <1>1, AcknowledgeOutcomes DEF AcknowledgeCommitted
<1>2. CASE Maintain
  <2>1. look.stage = "read" /\ look' = NoLook
        /\ UNCHANGED <<reservation, receipt, starts, completed>>
      BY <1>2 DEF Maintain
  <2>2. CASE Acknowledge(look.key, look.receipt) /\ look.receipt \in Statuses
    <3>1. look.receipt = "completed" => receipt[look.key] = "completed"
        BY <2>1 DEF Outcomes, Looking
    <3> QED
        BY <2>1, <2>2, <3>1, LookShape, AcknowledgeOutcomes
  <2>3. CASE UNCHANGED entry
    <3>1. Looking'
        BY <2>1 DEF Looking, NoLook
    <3>2. \A k \in Mutation, l \in Leases : MayStart(l, k)' => MayStart(l, k)
        BY <2>1 DEF MayStart
    <3> QED
        BY <2>1, <2>3, <3>1, <3>2, QuietOutcomes DEF Outcomes
  <2> QED
      BY <1>2, <2>2, <2>3 DEF Maintain, Vouches
<1>3. ASSUME NEW k \in Keys, Ends(k)
      PROVE  Outcomes'
    BY <1>3, FailOutcomes, PublishOutcomes DEF Ends
<1> QED
    BY <1>1, <1>2, <1>3, QuietSteps, ReceiptOutcomes, DispatchOutcomes, ExecuteOutcomes,
       InterruptOutcomes, RestartOutcomes
    DEF Next

-----------------------------------------------------------------------------
(* The theorems.                                                           *)

IInv == Budget /\ Outcomes

LEMMA Invariance == Spec => []IInv
<1>1. Init => IInv
    BY BudgetInit, OutcomesInit DEF IInv
<1>2. IInv /\ [Next]_vars => IInv'
    BY BudgetNext, OutcomesNext DEF IInv
<1> QED
    BY <1>1, <1>2, PTL DEF Spec

\* The retained map, the leases and the journal of a device host stay in the
\* shapes the executor gives them.
THEOREM TypeCorrect == Spec => []TypeOK
<1>1. IInv => TypeOK
    BY DEF IInv, Budget
<1> QED
    BY <1>1, Invariance, PTL

\* The result budget: however executions are reserved, aborted, interrupted,
\* settled, acknowledged and forgotten, the bytes in use are those of the live
\* leases, within the limits, and every lease has exactly one owner.
THEOREM AccountsAreExact == Spec => []AccountIsExact
<1>1. IInv => AccountIsExact
    BY DEF IInv, Budget, Owners, Account, AccountIsExact
<1> QED
    BY <1>1, Invariance, PTL

\* The executor never runs a command beside an execution of it that has not
\* ended, and starts a mutation once, restarts of the host included.
THEOREM ExecutionsAreSingle == Spec => []OneExecutionPerKey
<1>1. ASSUME IInv, NEW k \in Keys
      PROVE  running[k] <= 1 /\ (k \in Mutation => starts[k] <= 1)
  <2>1. running[k] <= 1
      BY <1>1 DEF IInv, Budget, Running
  <2>2. k \in Mutation => starts[k] <= 1
      BY <1>1 DEF IInv, Outcomes, OutcomeOf, FenceOf
  <2> QED
      BY <2>1, <2>2
<1>2. IInv => OneExecutionPerKey
    BY <1>1 DEF OneExecutionPerKey
<1> QED
    BY <1>2, Invariance, PTL

\* What a mutation has completed stays retained until the receipt says so,
\* whatever was reported, committed or acknowledged of it before.
THEOREM CompletionsAreKept == Spec => []CompletionIsKept
<1>1. IInv => CompletionIsKept
    BY DEF IInv, Outcomes, OutcomeOf, TaleOf, CompletionIsKept
<1> QED
    BY <1>1, Invariance, PTL

\* A receipt that tells the run a mutation was canceled is true of it: its
\* handler was never called.
THEOREM CanceledIsUntouched == Spec => []CanceledHadNoEffect
<1>1. IInv => CanceledHadNoEffect
    BY DEF IInv, Outcomes, OutcomeOf, TaleOf, CanceledHadNoEffect
<1> QED
    BY <1>1, Invariance, PTL

=============================================================================
