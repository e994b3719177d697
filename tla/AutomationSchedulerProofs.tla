----------------------- MODULE AutomationSchedulerProofs -----------------------
(***************************************************************************)
(* Theorems about AutomationScheduler, for any schedulers, automations,    *)
(* schedules and limits.  The invariant ties each scheduler's place in its *)
(* scan, its cache and the log of started runs to the committed receipts.  *)
(***************************************************************************)
EXTENDS AutomationScheduler, SequenceTheorems, WellFoundedInduction, TLAPS

\* The cache is a map: one occurrence for an automation.
OnePerAutomation(q) ==
    \A i, j \in 1..Len(q) : q[i][1] = q[j][1] => i = j

\* A scheduler that is busy with a record has one, and it is due; an answered
\* occurrence has its receipt; a page is listed only while the wake may read one.
Place(s) ==
    /\ scan[s].stage \in {"checking", "loading", "committing", "answered"} =>
          scan[s].rest # {} /\ Occurrence(s)[2] # 0
    /\ scan[s].stage = "answered" => Occurrence(s) \in receipts
    /\ scan[s].stage = "listing" => scan[s].pages < MaxPages

Memory(s) ==
    /\ Len(cache[s]) <= CacheLimit
    /\ OnePerAutomation(cache[s])
    /\ \A i \in 1..Len(cache[s]) : cache[s][i] \in receipts

\* Every run that was started has its receipt, and no other run has the same.
Log ==
    /\ \A i \in 1..Len(log) : log[i] \in receipts
    /\ InvokedAtMostOnce

IInv == TypeOK /\ Log /\ \A s \in Schedulers : Place(s) /\ Memory(s)

-----------------------------------------------------------------------------
(* The record a scan is at.                                                *)

LEMMA Limits ==
    /\ N \in Nat /\ Anchor \in [Automations -> Nat \ {0}]
    /\ Interval \in [Automations -> Nat]
    /\ PageSize \in Nat \ {0} /\ MaxPages \in Nat \ {0} /\ CacheLimit \in Nat
    /\ MaxClock \in Nat \ {0} /\ MaxDisturbances \in Nat
BY ScheduleAssumption, LimitAssumption

LEMMA Greatest ==
    ASSUME NEW T \in SUBSET Automations, T # {}
    PROVE  \E a \in T : \A b \in T : b <= a
<1> DEFINE U == {N - a : a \in T}
<1>1. N \in Nat /\ \A a \in T : a \in 1..N
    BY Limits DEF Automations
<1>2. \A a \in T : N - a \in Nat
    BY <1>1
<1>3. U \subseteq Nat /\ U # {}
    BY <1>2
<1>4. PICK x \in U : \A y \in U : ~(<<y, x>> \in OpToRel(<, Nat))
    BY <1>3, NatLessThanWellFounded, WFMin
<1>5. \A y \in U : ~(y < x)
    BY <1>3, <1>4 DEF OpToRel
<1>6. PICK a \in T : x = N - a
    BY <1>4
<1>7. ASSUME NEW b \in T
      PROVE  b <= a
  <2>1. ~(N - b < N - a)
      BY <1>5, <1>6
  <2> QED
      BY <1>1, <2>1
<1> QED
    BY <1>7

LEMMA CurrentIsLeft ==
    ASSUME NEW s \in Schedulers, scan[s].rest \in SUBSET Automations, scan[s].rest # {}
    PROVE  Current(s) \in scan[s].rest /\ Current(s) \in Automations
BY Greatest DEF Current

LEMMA Multiple ==
    ASSUME NEW x \in Nat, NEW d \in Nat \ {0}
    PROVE  (x \div d) * d \in 0..x
<1>1. x \div d \in Nat
    OBVIOUS
<1>2. x = d * (x \div d) + (x % d) /\ x % d \in Nat
    OBVIOUS
<1>3. (x \div d) * d = d * (x \div d)
    BY <1>1
<1>4. d * (x \div d) \in Nat
    BY <1>1
<1> QED
    BY <1>2, <1>3, <1>4

\* An occurrence is due at the time of the scan at the latest.
LEMMA LatestIsDue ==
    ASSUME NEW a \in Automations, NEW now \in 0..MaxClock
    PROVE  Latest(a, now) \in 0..MaxClock
<1> USE Limits
<1>1. Anchor[a] \in Nat \ {0} /\ Interval[a] \in Nat
    OBVIOUS
<1>2. ASSUME ~(now < Anchor[a]), Interval[a] # 0
      PROVE  Latest(a, now) \in 0..MaxClock
  <2>1. now - Anchor[a] \in Nat
      BY <1>1, <1>2
  <2>2. ((now - Anchor[a]) \div Interval[a]) * Interval[a] \in 0..(now - Anchor[a])
      BY <1>1, <1>2, <2>1, Multiple
  <2>3. Latest(a, now) =
          Anchor[a] + ((now - Anchor[a]) \div Interval[a]) * Interval[a]
      BY <1>2 DEF Latest
  <2> QED
      BY <1>1, <2>2, <2>3
<1> QED
    BY <1>1, <1>2 DEF Latest

LEMMA OccurrenceIsOne ==
    ASSUME TypeOK, NEW s \in Schedulers, scan[s].rest # {}, Occurrence(s)[2] # 0
    PROVE  Occurrence(s) \in Occurrences
<1>1. scan[s].rest \in SUBSET Automations /\ scan[s].now \in 0..MaxClock
    BY DEF TypeOK, Scans
<1>2. Current(s) \in Automations
    BY <1>1, CurrentIsLeft
<1>3. Latest(Current(s), scan[s].now) \in 0..MaxClock
    BY <1>1, <1>2, LatestIsDue
<1> QED
    BY <1>2, <1>3, Limits DEF Occurrence, Occurrences

-----------------------------------------------------------------------------
(* The cache.                                                              *)

\* Deleting an automation leaves the others in their order.
LEMMA Deleted ==
    ASSUME NEW q \in Seq(Occurrences), OnePerAutomation(q), NEW a \in Automations
    PROVE  /\ Without(q, a) \in Seq(Occurrences)
           /\ Len(Without(q, a)) <= Len(q)
           /\ OnePerAutomation(Without(q, a))
           /\ \A i \in 1..Len(Without(q, a)) :
                 /\ Without(q, a)[i][1] # a
                 /\ \E j \in 1..Len(q) : Without(q, a)[i] = q[j]
<1> DEFINE held == {i \in 1..Len(q) : q[i][1] = a}
<1>1. CASE held = {}
  <2>1. Without(q, a) = q
      BY <1>1 DEF Without
  <2> QED
      BY <1>1, <2>1
<1>2. CASE held # {}
  <2>1. PICK at \in held : Without(q, a) = SubSeq(q, 1, at - 1) \o SubSeq(q, at + 1, Len(q))
      BY <1>2 DEF Without
  <2>2. at \in 1..Len(q) /\ q[at][1] = a /\ Len(q) \in Nat
      OBVIOUS
  <2>3. \A i \in 1..Len(q) : i # at => q[i][1] # a
      BY <2>2 DEF OnePerAutomation
  <2>4. PICK before : before = SubSeq(q, 1, at - 1)
      OBVIOUS
  <2>5. PICK after : after = SubSeq(q, at + 1, Len(q))
      OBVIOUS
  <2>6. PICK r : r = before \o after
      OBVIOUS
  <2>7. /\ before \in Seq(Occurrences) /\ Len(before) = at - 1
        /\ \A i \in 1..at - 1 : before[i] = q[i]
    <3>1. 1 \in Int /\ at - 1 \in Int /\ \A i \in 1..at - 1 : q[i] \in Occurrences
        BY <2>2
    <3> QED
        BY <2>2, <2>4, <3>1, SubSeqProperties
  <2>8. /\ after \in Seq(Occurrences) /\ Len(after) = Len(q) - at
        /\ \A i \in 1..Len(q) - at : after[i] = q[at + i]
    <3>1. at + 1 \in Int /\ Len(q) \in Int /\ \A i \in at + 1..Len(q) : q[i] \in Occurrences
        BY <2>2
    <3>2. /\ after \in Seq(Occurrences)
          /\ Len(after) = IF at + 1 <= Len(q) THEN Len(q) - (at + 1) + 1 ELSE 0
          /\ \A i \in 1..Len(q) - (at + 1) + 1 : after[i] = q[at + 1 + i - 1]
        BY <2>5, <3>1, SubSeqProperties
    <3>3. Len(after) = Len(q) - at
        BY <2>2, <3>2
    <3>4. ASSUME NEW i \in 1..Len(q) - at
          PROVE  after[i] = q[at + i]
      <4>1. i \in 1..Len(q) - (at + 1) + 1 /\ at + 1 + i - 1 = at + i
          BY <2>2
      <4> QED
          BY <3>2, <4>1
    <3> QED
        BY <3>2, <3>3, <3>4
  <2>9. /\ r \in Seq(Occurrences) /\ Len(r) = Len(before) + Len(after)
         /\ \A i \in 1..Len(before) + Len(after) : r[i] =
                IF i <= Len(before) THEN before[i] ELSE after[i - Len(before)]
    <3>1. before \in Seq(Occurrences) /\ after \in Seq(Occurrences)
        BY <2>7, <2>8
    <3> QED
        BY <2>6, <3>1, ConcatProperties, Zenon
  <2>10. r \in Seq(Occurrences) /\ Len(r) = Len(q) - 1
      BY <2>2, <2>7, <2>8, <2>9
  <2>11. \A i \in 1..Len(r) : r[i] = IF i < at THEN q[i] ELSE q[i + 1]
    <3>1. ASSUME NEW i \in 1..Len(r)
          PROVE  r[i] = IF i <= Len(before) THEN before[i] ELSE after[i - Len(before)]
        BY <2>9
    <3>2. ASSUME NEW i \in 1..Len(r), i < at
          PROVE  r[i] = q[i]
      <4>1. i \in 1..at - 1 /\ i <= Len(before)
          BY <2>2, <2>7, <2>10, <3>2
      <4> QED
          BY <2>7, <3>1, <4>1
    <3>3. ASSUME NEW i \in 1..Len(r), ~(i < at)
          PROVE  r[i] = q[i + 1]
      <4>1. r[i] = after[i - Len(before)] /\ i - Len(before) = i - at + 1
          BY <2>2, <2>7, <2>8, <2>10, <3>1, <3>3
      <4>2. i - at + 1 \in 1..Len(q) - at /\ at + (i - at + 1) = i + 1
          BY <2>2, <2>10, <3>3
      <4> QED
          BY <2>8, <4>1, <4>2
    <3> QED
        BY <3>2, <3>3
  <2>12. OnePerAutomation(r)
    <3> SUFFICES ASSUME NEW i \in 1..Len(r), NEW j \in 1..Len(r), r[i][1] = r[j][1]
                 PROVE  i = j
        BY DEF OnePerAutomation
    <3> DEFINE Old(k) == IF k < at THEN k ELSE k + 1
    <3>1. ASSUME NEW k \in 1..Len(r)
          PROVE  Old(k) \in 1..Len(q) /\ r[k] = q[Old(k)]
        BY <2>2, <2>10, <2>11
    <3>2. q[Old(i)][1] = q[Old(j)][1]
        BY <3>1
    <3>3. Old(i) = Old(j)
        BY <3>1, <3>2 DEF OnePerAutomation
    <3> QED
        BY <2>2, <2>10, <3>1, <3>2, <3>3
  <2>13. ASSUME NEW i \in 1..Len(r)
         PROVE  r[i][1] # a /\ \E j \in 1..Len(q) : r[i] = q[j]
    <3>1. PICK m \in 1..Len(q) : r[i] = q[m] /\ m # at
      <4>1. CASE i < at
        <5>1. i \in 1..Len(q) /\ i # at /\ r[i] = q[i]
            BY <2>2, <2>10, <2>11, <4>1
        <5> QED
            BY <5>1
      <4>2. CASE ~(i < at)
        <5>1. i + 1 \in 1..Len(q) /\ i + 1 # at /\ r[i] = q[i + 1]
            BY <2>2, <2>10, <2>11, <4>2
        <5> QED
            BY <5>1
      <4> QED
          BY <4>1, <4>2
    <3> QED
        BY <2>3, <3>1
  <2>14. Without(q, a) = r
      BY <2>1, <2>4, <2>5, <2>6
  <2> QED
      BY <2>2, <2>10, <2>13, <2>12, <2>14
<1> QED
    BY <1>1, <1>2

\* What is remembered is the new occurrence and some of the old ones.
LEMMA Remembered ==
    ASSUME NEW s \in Schedulers, cache[s] \in Seq(Occurrences), Len(cache[s]) <= CacheLimit,
           OnePerAutomation(cache[s]), NEW o \in Occurrences
    PROVE  /\ Remember(s, o) \in Seq(Occurrences)
           /\ Len(Remember(s, o)) <= CacheLimit
           /\ OnePerAutomation(Remember(s, o))
           /\ \A i \in 1..Len(Remember(s, o)) :
                 \/ Remember(s, o)[i] = o
                 \/ \E j \in 1..Len(cache[s]) : Remember(s, o)[i] = cache[s][j]
<1>1. o[1] \in Automations
    BY DEF Occurrences
<1>2. /\ Without(cache[s], o[1]) \in Seq(Occurrences)
      /\ Len(Without(cache[s], o[1])) <= Len(cache[s])
      /\ OnePerAutomation(Without(cache[s], o[1]))
      /\ \A i \in 1..Len(Without(cache[s], o[1])) :
            /\ Without(cache[s], o[1])[i][1] # o[1]
            /\ \E j \in 1..Len(cache[s]) : Without(cache[s], o[1])[i] = cache[s][j]
    BY <1>1, Deleted, Zenon
<1>3. PICK w : w = Without(cache[s], o[1])
    OBVIOUS
<1>4. /\ w \in Seq(Occurrences) /\ Len(w) <= Len(cache[s]) /\ OnePerAutomation(w)
      /\ \A i \in 1..Len(w) :
            w[i][1] # o[1] /\ \E j \in 1..Len(cache[s]) : w[i] = cache[s][j]
    BY <1>2, <1>3
<1>5. PICK added : added = Append(w, o)
    OBVIOUS
<1>6. /\ added \in Seq(Occurrences) /\ added # <<>> /\ Len(added) = Len(w) + 1
      /\ \A i \in 1..Len(w) : added[i] = w[i]
      /\ added[Len(w) + 1] = o
    BY <1>4, <1>5, AppendProperties
<1>7. ASSUME NEW i \in 1..Len(added)
      PROVE  \/ i \in 1..Len(w) /\ added[i] = w[i] /\ added[i][1] # o[1]
             \/ i = Len(w) + 1 /\ added[i] = o
  <2>1. i \in 1..Len(w) \/ i = Len(w) + 1
      BY <1>4, <1>6
  <2> QED
      BY <1>4, <1>6, <2>1
<1>8. OnePerAutomation(added)
  <2> SUFFICES ASSUME NEW i \in 1..Len(added), NEW j \in 1..Len(added),
                      added[i][1] = added[j][1]
               PROVE  i = j
      BY DEF OnePerAutomation
  <2>1. CASE i \in 1..Len(w) /\ j \in 1..Len(w)
      BY <1>4, <1>6, <2>1 DEF OnePerAutomation
  <2> QED
      BY <1>7, <2>1
<1>9. \A i \in 1..Len(added) :
          added[i] = o \/ \E j \in 1..Len(cache[s]) : added[i] = cache[s][j]
    BY <1>4, <1>7
<1>10. CASE CacheLimit = 0
  <2>1. Remember(s, o) = cache[s]
      BY <1>10 DEF Remember
  <2> QED
      BY <2>1
<1>11. CASE CacheLimit # 0 /\ ~(Len(added) > CacheLimit)
  <2>1. Remember(s, o) = added
      BY <1>3, <1>5, <1>11 DEF Remember
  <2> QED
      BY <1>6, <1>8, <1>9, <1>11, <2>1, Limits
<1>12. CASE CacheLimit # 0 /\ Len(added) > CacheLimit
  <2>1. Remember(s, o) = Tail(added)
      BY <1>3, <1>5, <1>12 DEF Remember
  <2>2. PICK r : r = Tail(added)
      OBVIOUS
  <2>3. /\ r \in Seq(Occurrences)
        /\ Len(r) = Len(added) - 1
        /\ \A i \in 1..Len(r) : r[i] = added[i + 1]
      BY <1>6, <2>2, HeadTailProperties, Zenon
  <2>4. \A i \in 1..Len(r) : i + 1 \in 1..Len(added)
      BY <2>3
  <2>5. OnePerAutomation(r)
      BY <1>8, <2>3, <2>4 DEF OnePerAutomation
  <2>6. Len(r) <= CacheLimit
      BY <1>4, <1>6, <2>3, Limits
  <2> QED
      BY <1>9, <2>1, <2>3, <2>4, <2>5, <2>6, <2>2
<1> QED
    BY <1>10, <1>11, <1>12

-----------------------------------------------------------------------------
(* What a step of one scheduler keeps.                                     *)

LEMMA SameRecord ==
    ASSUME NEW s \in Schedulers, scan'[s].rest = scan[s].rest, scan'[s].now = scan[s].now
    PROVE  Occurrence(s)' = Occurrence(s)
BY DEF Occurrence, Current

\* Receipts are only added: a scheduler that does not move keeps its place.
LEMMA PlaceStays ==
    ASSUME NEW s \in Schedulers, Place(s), scan'[s] = scan[s], receipts \subseteq receipts'
    PROVE  Place(s)'
BY SameRecord DEF Place

LEMMA MemoryStays ==
    ASSUME NEW s \in Schedulers, Memory(s), cache'[s] = cache[s], receipts \subseteq receipts'
    PROVE  Memory(s)'
BY DEF Memory

\* Between two records nothing is claimed.
LEMMA PlaceBetween ==
    ASSUME NEW s \in Schedulers, scan'[s].stage \in {"idle", "next"}
    PROVE  Place(s)'
BY DEF Place

LEMMA Going ==
    ASSUME TypeOK, NEW s \in Schedulers, NEW stage \in Stages, Goto(s, stage)
    PROVE  /\ scan' \in [Schedulers -> Scans]
           /\ \A t \in Schedulers : t # s => scan'[t] = scan[t]
           /\ scan'[s].stage = stage /\ scan'[s].rest = scan[s].rest
           /\ scan'[s].now = scan[s].now /\ scan'[s].pages = scan[s].pages
           /\ Occurrence(s)' = Occurrence(s)
<1>1. scan \in [Schedulers -> Scans]
    BY DEF TypeOK
<1>2. scan' = [scan EXCEPT ![s].stage = stage]
    BY DEF Goto
<1>3. PICK r : r = scan[s]
    OBVIOUS
<1>4. r \in Scans
    BY <1>1, <1>3
<1>5. [r EXCEPT !.stage = stage] \in Scans
    BY <1>4 DEF Scans
<1>6. scan' = [scan EXCEPT ![s] = [r EXCEPT !.stage = stage]]
    BY <1>2, <1>3
<1>7. scan' \in [Schedulers -> Scans] /\ \A t \in Schedulers : t # s => scan'[t] = scan[t]
    BY <1>1, <1>5, <1>6
<1>8. scan'[s] = [r EXCEPT !.stage = stage]
    BY <1>1, <1>6
<1>9. /\ scan'[s].stage = stage /\ scan'[s].rest = scan[s].rest
      /\ scan'[s].now = scan[s].now /\ scan'[s].pages = scan[s].pages
    BY <1>3, <1>4, <1>8 DEF Scans
<1> QED
    BY <1>7, <1>9, SameRecord

LEMMA Advancing ==
    ASSUME TypeOK, NEW s \in Schedulers, scan[s].rest # {}, Advance(s)
    PROVE  /\ scan' \in [Schedulers -> Scans] /\ cursor' \in [Schedulers -> 0..N]
           /\ \A t \in Schedulers : t # s => scan'[t] = scan[t]
           /\ scan'[s].stage = "next"
<1>1. scan \in [Schedulers -> Scans] /\ cursor \in [Schedulers -> 0..N]
    BY DEF TypeOK
<1>2. PICK r : r = scan[s]
    OBVIOUS
<1>3. r \in Scans /\ r.rest \in SUBSET Automations
    BY <1>1, <1>2 DEF Scans
<1>4. PICK c : c = Current(s)
    OBVIOUS
<1>5. c \in Automations
    BY <1>2, <1>3, <1>4, CurrentIsLeft
<1>6. PICK n : n = [r EXCEPT !.stage = "next", !.rest = @ \ {c}, !.seen = 0]
    OBVIOUS
<1>7. n \in Scans /\ n.stage = "next"
    BY <1>3, <1>6 DEF Scans, Stages
<1>8. scan' = [scan EXCEPT ![s] = n]
    BY <1>1, <1>2, <1>4, <1>6 DEF Advance
<1>9. cursor' \in [Schedulers -> 0..N]
    BY <1>1, <1>4, <1>5, Limits DEF Advance, Automations
<1> QED
    BY <1>1, <1>7, <1>8, <1>9

\* A step of scheduler s that commits nothing.
LEMMA OwnStep ==
    ASSUME IInv, NEW s \in Schedulers, UNCHANGED <<worldVars, storeVars>>,
           disturbances' \in 0..MaxDisturbances,
           scan' \in [Schedulers -> Scans], cursor' \in [Schedulers -> 0..N],
           cache' \in [Schedulers -> Seq(Occurrences)],
           \A t \in Schedulers : t # s => scan'[t] = scan[t] /\ cache'[t] = cache[t],
           Place(s)', Memory(s)'
    PROVE  IInv'
<1>1. \A t \in Schedulers : Place(t)' /\ Memory(t)'
    BY PlaceStays, MemoryStays DEF IInv, storeVars
<1>2. TypeOK'
    BY <1>1 DEF IInv, TypeOK, Memory, storeVars, worldVars
<1>3. Log'
    BY DEF IInv, Log, InvokedAtMostOnce, storeVars
<1> QED
    BY <1>1, <1>2, <1>3 DEF IInv

-----------------------------------------------------------------------------
(* The actions of a scheduler.                                             *)

LEMMA Shape ==
    ASSUME TypeOK, NEW s \in Schedulers
    PROVE  /\ scan \in [Schedulers -> Scans] /\ scan[s] \in Scans
           /\ cursor \in [Schedulers -> 0..N] /\ cache \in [Schedulers -> Seq(Occurrences)]
           /\ disturbances \in 0..MaxDisturbances
           /\ clock \in 1..MaxClock /\ created \in 0..N
BY DEF TypeOK

LEMMA Replaced ==
    ASSUME TypeOK, NEW s \in Schedulers, NEW r \in Scans, scan' = [scan EXCEPT ![s] = r]
    PROVE  /\ scan' \in [Schedulers -> Scans] /\ scan'[s] = r
           /\ \A t \in Schedulers : t # s => scan'[t] = scan[t]
BY Shape

LEMMA NoScanIsOne == NoScan \in Scans /\ NoScan.stage = "idle"
BY Limits DEF NoScan, Scans, Stages

LEMMA WakeKeeps ==
    ASSUME IInv, NEW s \in Schedulers, Wake(s)
    PROVE  IInv'
<1>1. TypeOK /\ Memory(s)
    BY DEF IInv
<1>2. PICK r : r = [NoScan EXCEPT !.stage = "listing", !.now = clock]
    OBVIOUS
<1>3. r \in Scans /\ r.stage = "listing" /\ r.pages < MaxPages
  <2>1. NoScan \in Scans /\ NoScan.pages = 0
      BY NoScanIsOne DEF NoScan
  <2>2. clock \in 0..MaxClock /\ 0 < MaxPages
      BY <1>1, Shape, Limits
  <2> QED
      BY <1>2, <2>1, <2>2 DEF Scans, Stages
<1>4. /\ scan' = [scan EXCEPT ![s] = r]
      /\ UNCHANGED <<worldVars, storeVars, cursor, cache, disturbances>>
    BY <1>2 DEF Wake
<1>5. Memory(s)'
    BY <1>1, <1>4, MemoryStays DEF storeVars
<1>6. /\ scan' \in [Schedulers -> Scans] /\ scan'[s] = r
      /\ \A t \in Schedulers : t # s => scan'[t] = scan[t]
    BY <1>1, <1>3, <1>4, Replaced
<1>7. Place(s)'
    BY <1>3, <1>6 DEF Place
<1> QED
    BY <1>1, <1>4, <1>5, <1>6, <1>7, Shape, OwnStep

LEMMA ListKeeps ==
    ASSUME IInv, NEW s \in Schedulers, List(s)
    PROVE  IInv'
<1>1. TypeOK /\ Memory(s) /\ Place(s)
    BY DEF IInv
<1>2. PICK page : page = PageAfter(cursor[s])
    OBVIOUS
<1>3. page \in SUBSET Automations
    BY <1>1, <1>2, Limits, Shape DEF PageAfter, Automations
<1>4. PICK last : last = (Cardinality(page) < PageSize)
    OBVIOUS
<1>5. last \in BOOLEAN
    BY <1>4
<1>6. PICK o : o = scan[s]
    OBVIOUS
<1>7. o \in Scans /\ o.pages < MaxPages
    BY <1>1, <1>6, Shape DEF List, At, Place
<1>8. PICK r : r = [o EXCEPT !.stage = "next", !.rest = page, !.last = last,
                             !.pages = @ + 1]
    OBVIOUS
<1>9. o.pages + 1 \in 0..MaxPages
    BY <1>7, Limits DEF Scans
<1>10. r \in Scans /\ r.stage = "next"
    BY <1>3, <1>5, <1>7, <1>8, <1>9 DEF Scans, Stages
<1>11. /\ scan' = [scan EXCEPT ![s] = r]
       /\ UNCHANGED <<worldVars, storeVars, cursor, cache, disturbances>>
    BY <1>1, <1>2, <1>4, <1>6, <1>8, Shape DEF List
<1>12. Memory(s)'
    BY <1>1, <1>11, MemoryStays DEF storeVars
<1>13. /\ UNCHANGED <<worldVars, storeVars>> /\ disturbances' \in 0..MaxDisturbances
       /\ cursor' \in [Schedulers -> 0..N] /\ cache' \in [Schedulers -> Seq(Occurrences)]
       /\ \A t \in Schedulers : t # s => cache'[t] = cache[t]
    BY <1>1, <1>11, Shape
<1>14. r \in Scans /\ r.stage \in {"idle", "next"} /\ scan' = [scan EXCEPT ![s] = r]
    BY <1>10, <1>11
<1>15. /\ scan' \in [Schedulers -> Scans] /\ scan'[s] = r
       /\ \A t \in Schedulers : t # s => scan'[t] = scan[t]
    BY <1>1, <1>14, Replaced
<1>16. Place(s)'
    BY <1>14, <1>15, PlaceBetween
<1> QED
    BY <1>12, <1>13, <1>15, <1>16, OwnStep

\* A step that leaves the record and remembers it, or not.
LEMMA LeavesRecord ==
    ASSUME IInv, NEW s \in Schedulers, scan[s].rest # {}, Advance(s),
           UNCHANGED <<worldVars, storeVars>>, UNCHANGED disturbances \/ Disturb,
           \/ UNCHANGED cache
           \/ /\ Occurrence(s)[2] # 0
              /\ Occurrence(s) \in receipts
              /\ cache' = [cache EXCEPT ![s] = Remember(s, Occurrence(s))]
    PROVE  IInv'
<1>1. TypeOK /\ Memory(s)
    BY DEF IInv
<1>2. /\ scan' \in [Schedulers -> Scans] /\ cursor' \in [Schedulers -> 0..N]
      /\ \A t \in Schedulers : t # s => scan'[t] = scan[t]
      /\ Place(s)'
    BY <1>1, Advancing, PlaceBetween
<1>3. receipts' = receipts /\ disturbances' \in 0..MaxDisturbances
    BY <1>1, Shape, Limits DEF storeVars, Disturb
<1>4. CASE UNCHANGED cache
  <2>1. Memory(s)'
      BY <1>1, <1>3, <1>4, MemoryStays
  <2> QED
      BY <1>1, <1>2, <1>3, <1>4, <2>1, Shape, OwnStep
<1>5. CASE /\ Occurrence(s)[2] # 0
           /\ Occurrence(s) \in receipts
           /\ cache' = [cache EXCEPT ![s] = Remember(s, Occurrence(s))]
  <2>1. PICK o : o = Occurrence(s)
      OBVIOUS
  <2>2. o \in Occurrences /\ o \in receipts
      BY <1>1, <1>5, <2>1, OccurrenceIsOne
  <2>3. PICK r : r = Remember(s, o)
      OBVIOUS
  <2>4. cache \in [Schedulers -> Seq(Occurrences)] /\ cache[s] \in Seq(Occurrences)
      BY <1>1, Shape
  <2>5. /\ r \in Seq(Occurrences) /\ Len(r) <= CacheLimit /\ OnePerAutomation(r)
        /\ \A i \in 1..Len(r) : r[i] = o \/ \E j \in 1..Len(cache[s]) : r[i] = cache[s][j]
      BY <1>1, <2>2, <2>3, <2>4, Remembered DEF Memory
  <2>6. cache' = [cache EXCEPT ![s] = r]
      BY <1>5, <2>1, <2>3
  <2>7. /\ cache' \in [Schedulers -> Seq(Occurrences)] /\ cache'[s] = r
        /\ \A t \in Schedulers : t # s => cache'[t] = cache[t]
      BY <2>4, <2>5, <2>6
  <2>8. \A i \in 1..Len(r) : r[i] \in receipts
      BY <1>1, <2>2, <2>5 DEF Memory
  <2>9. Memory(s)'
      BY <1>3, <2>5, <2>7, <2>8 DEF Memory
  <2> QED
      BY <1>2, <1>3, <2>7, <2>9, OwnStep
<1> QED
    BY <1>4, <1>5

LEMMA SkipKeeps ==
    ASSUME IInv, NEW s \in Schedulers, Skip(s)
    PROVE  IInv'
<1>1. /\ scan[s].rest # {} /\ Advance(s)
      /\ UNCHANGED <<worldVars, storeVars, disturbances>>
    BY DEF Skip
<1>2. CASE UNCHANGED cache
    BY <1>1, <1>2, LeavesRecord
<1>3. CASE /\ Occurrence(s)[2] # 0 /\ Remembers(s, Occurrence(s))
           /\ cache' = [cache EXCEPT ![s] = Remember(s, Occurrence(s))]
  <2>1. Occurrence(s) \in receipts
      BY <1>3 DEF IInv, Memory, Remembers
  <2> QED
      BY <1>1, <1>3, <2>1, LeavesRecord
<1> QED
    BY <1>2, <1>3 DEF Skip

LEMMA AnsweredKeeps ==
    ASSUME IInv, NEW s \in Schedulers, Answered(s)
    PROVE  IInv'
<1>1. /\ scan[s].rest # {} /\ Occurrence(s)[2] # 0 /\ Occurrence(s) \in receipts
    BY DEF Answered, At, IInv, Place
<1> QED
    BY <1>1, LeavesRecord DEF Answered

LEMMA EndOfPageKeeps ==
    ASSUME IInv, NEW s \in Schedulers, EndOfPage(s)
    PROVE  IInv'
<1>1. TypeOK /\ Memory(s)
    BY DEF IInv
<1>2. /\ Memory(s)' /\ UNCHANGED <<worldVars, storeVars>>
      /\ disturbances' \in 0..MaxDisturbances
      /\ cache' \in [Schedulers -> Seq(Occurrences)]
      /\ \A t \in Schedulers : t # s => cache'[t] = cache[t]
    BY <1>1, MemoryStays, Shape DEF EndOfPage, storeVars
<1>3. cursor' \in [Schedulers -> 0..N]
    BY <1>1, Limits, Shape DEF EndOfPage
<1>4. CASE scan' = [scan EXCEPT ![s] = NoScan]
  <2>1. /\ scan' \in [Schedulers -> Scans] /\ scan'[s] = NoScan
        /\ \A t \in Schedulers : t # s => scan'[t] = scan[t]
      BY <1>1, <1>4, NoScanIsOne, Replaced
  <2>2. Place(s)'
      BY <2>1, NoScanIsOne, PlaceBetween
  <2> QED
      BY <1>2, <1>3, <2>1, <2>2, OwnStep
<1>5. CASE Goto(s, "listing") /\ scan[s].pages < MaxPages
  <2>1. /\ scan' \in [Schedulers -> Scans]
        /\ \A t \in Schedulers : t # s => scan'[t] = scan[t]
        /\ scan'[s].stage = "listing" /\ scan'[s].pages = scan[s].pages
      BY <1>1, <1>5, Going DEF Stages
  <2>2. Place(s)'
      BY <1>5, <2>1 DEF Place
  <2> QED
      BY <1>2, <1>3, <2>1, <2>2, OwnStep
<1> QED
    BY <1>4, <1>5 DEF EndOfPage

LEMMA ThreadFoundKeeps ==
    ASSUME IInv, NEW s \in Schedulers, ReadThread(s), thread # "deleted"
    PROVE  IInv'
<1>1. TypeOK /\ Memory(s)
    BY DEF IInv
<1>2. PICK o : o = scan[s]
    OBVIOUS
<1>3. PICK r : r = [o EXCEPT !.stage = "checking", !.seen = revision]
    OBVIOUS
<1>4. o \in Scans /\ revision \in Nat
    BY <1>1, <1>2, Shape DEF TypeOK
<1>5. r \in Scans /\ r.stage = "checking" /\ r.rest = o.rest /\ r.now = o.now
    BY <1>3, <1>4 DEF Scans, Stages
<1>6. /\ scan' = [scan EXCEPT ![s] = r]
      /\ UNCHANGED <<worldVars, storeVars, cursor, cache, disturbances>>
      /\ scan[s].rest # {} /\ Occurrence(s)[2] # 0
    BY <1>1, <1>2, <1>3, Shape DEF ReadThread
<1>7. /\ scan' \in [Schedulers -> Scans] /\ scan'[s] = r
      /\ \A t \in Schedulers : t # s => scan'[t] = scan[t]
    BY <1>1, <1>5, <1>6, Shape
<1>8. Occurrence(s)' = Occurrence(s)
    BY <1>2, <1>5, <1>7, SameRecord
<1>9. Place(s)'
    BY <1>2, <1>5, <1>6, <1>7, <1>8 DEF Place
<1>10. Memory(s)'
    BY <1>1, <1>6, MemoryStays DEF storeVars
<1>11. /\ UNCHANGED <<worldVars, storeVars>> /\ disturbances' \in 0..MaxDisturbances
       /\ cursor' \in [Schedulers -> 0..N] /\ cache' \in [Schedulers -> Seq(Occurrences)]
       /\ \A t \in Schedulers : t # s => cache'[t] = cache[t]
    BY <1>1, <1>6, Shape
<1> QED
    BY <1>7, <1>9, <1>10, <1>11, OwnStep

LEMMA ReadThreadKeeps ==
    ASSUME IInv, NEW s \in Schedulers, ReadThread(s)
    PROVE  IInv'
<1>1. CASE thread = "deleted"
    BY <1>1, LeavesRecord DEF ReadThread
<1> QED
    BY <1>1, ThreadFoundKeeps

\* A step to a later stage with the same record.
LEMMA GoesOn ==
    ASSUME IInv, NEW s \in Schedulers, NEW stage \in {"loading", "committing", "answered"},
           scan[s].stage \in {"checking", "loading"}, Goto(s, stage),
           stage = "answered" => Occurrence(s) \in receipts,
           UNCHANGED <<worldVars, storeVars, cursor, cache, disturbances>>
    PROVE  IInv'
<1>1. TypeOK /\ Memory(s) /\ scan[s].rest # {} /\ Occurrence(s)[2] # 0
    BY DEF IInv, Place
<1>2. stage \in Stages
    BY DEF Stages
<1>3. /\ scan' \in [Schedulers -> Scans]
      /\ \A t \in Schedulers : t # s => scan'[t] = scan[t]
      /\ scan'[s].stage = stage /\ scan'[s].rest = scan[s].rest
      /\ Occurrence(s)' = Occurrence(s)
    BY <1>1, <1>2, Going
<1>4. Place(s)'
    BY <1>1, <1>3 DEF Place, storeVars
<1>5. Memory(s)'
    BY <1>1, MemoryStays DEF storeVars
<1> QED
    BY <1>1, <1>3, <1>4, <1>5, Shape, OwnStep

LEMMA CheckReceiptKeeps ==
    ASSUME IInv, NEW s \in Schedulers, CheckReceipt(s)
    PROVE  IInv'
<1>1. CASE Occurrence(s) \in receipts
    BY <1>1, GoesOn DEF CheckReceipt, At
<1>2. CASE Occurrence(s) \notin receipts
    BY <1>2, GoesOn DEF CheckReceipt, At
<1> QED
    BY <1>1, <1>2

LEMMA LoadContextKeeps ==
    ASSUME IInv, NEW s \in Schedulers, LoadContext(s)
    PROVE  IInv'
<1>1. CASE thread = "active" /\ revision = scan[s].seen
    BY <1>1, GoesOn DEF LoadContext, At
<1>2. CASE ~(thread = "active" /\ revision = scan[s].seen)
  <2>1. scan[s].rest # {}
      BY DEF LoadContext, At, IInv, Place
  <2> QED
      BY <1>2, <2>1, LeavesRecord DEF LoadContext
<1> QED
    BY <1>1, <1>2

LEMMA DeniedKeeps ==
    ASSUME IInv, NEW s \in Schedulers, Denied(s)
    PROVE  IInv'
<1>1. scan[s].rest # {}
    BY DEF Denied, IInv, Place
<1> QED
    BY <1>1, LeavesRecord DEF Denied

\* The scan is given up, with or without what the process knew.
LEMMA GivesUp ==
    ASSUME IInv, NEW s \in Schedulers, Refused(s) \/ Restart(s)
    PROVE  IInv'
<1>1. TypeOK /\ Memory(s)
    BY DEF IInv
<1>2. /\ UNCHANGED <<worldVars, storeVars>>
      /\ scan' \in [Schedulers -> Scans] /\ scan'[s] = NoScan
      /\ \A t \in Schedulers : t # s => scan'[t] = scan[t]
    BY <1>1, NoScanIsOne, Replaced DEF Refused, Restart
<1>3. Place(s)'
    BY <1>2, NoScanIsOne, PlaceBetween
<1>4. disturbances' \in 0..MaxDisturbances
    BY <1>1, Shape, Limits DEF Refused, Restart, Disturb
<1>5. CASE Refused(s)
  <2>1. Memory(s)'
      BY <1>1, <1>5, MemoryStays DEF Refused, storeVars
  <2>2. /\ cursor' \in [Schedulers -> 0..N] /\ cache' \in [Schedulers -> Seq(Occurrences)]
        /\ \A t \in Schedulers : t # s => cache'[t] = cache[t]
      BY <1>1, <1>5, Shape DEF Refused
  <2> QED
      BY <1>2, <1>4, <1>3, <2>1, <2>2, OwnStep
<1>6. CASE Restart(s)
  <2>1. cursor' \in [Schedulers -> 0..N]
      BY <1>1, <1>6, Shape, Limits DEF Restart
  <2>2. cache' = [cache EXCEPT ![s] = <<>>] /\ <<>> \in Seq(Occurrences)
      BY <1>6 DEF Restart
  <2>3. /\ cache' \in [Schedulers -> Seq(Occurrences)] /\ cache'[s] = <<>>
        /\ \A t \in Schedulers : t # s => cache'[t] = cache[t]
      BY <1>1, <2>2, Shape
  <2>4. Len(cache'[s]) = 0
      BY <2>3
  <2>5. Memory(s)'
      BY <2>4, Limits DEF Memory, OnePerAutomation
  <2> QED
      BY <1>2, <1>4, <1>3, <2>1, <2>3, <2>5, OwnStep
<1> QED
    BY <1>5, <1>6

-----------------------------------------------------------------------------
(* The transaction.                                                        *)

LEMMA Transacts ==
    ASSUME IInv, NEW s \in Schedulers, Occurrence(s) \in Occurrences, Transact(s)
    PROVE  /\ revision' \in Nat /\ openRuns' \in Nat /\ log' \in Seq(Occurrences)
           /\ receipts' \subseteq Occurrences /\ receipts \subseteq receipts'
           /\ Log'
           /\ Admissible(s) => Occurrence(s) \in receipts'
<1>1. /\ revision \in Nat /\ openRuns \in Nat /\ log \in Seq(Occurrences)
      /\ receipts \subseteq Occurrences /\ Log
    BY DEF IInv, TypeOK
<1>2. CASE UNCHANGED storeVars /\ ~(Occurrence(s) \notin receipts /\ Admissible(s))
  <2>1. Log'
      BY <1>1, <1>2 DEF Log, InvokedAtMostOnce, storeVars
  <2> QED
      BY <1>1, <1>2, <2>1 DEF storeVars
<1>3. CASE Occurrence(s) \notin receipts /\ StartRun(Occurrence(s))
  <2>1. PICK o : o = Occurrence(s)
      OBVIOUS
  <2>2. /\ o \in Occurrences /\ o \notin receipts
        /\ log' = Append(log, o) /\ receipts' = receipts \cup {o}
        /\ revision' = revision + 1 /\ openRuns' = openRuns + 1
      BY <1>3, <2>1 DEF StartRun
  <2>3. /\ log' \in Seq(Occurrences) /\ Len(log') = Len(log) + 1
        /\ \A i \in 1..Len(log) : log'[i] = log[i]
        /\ log'[Len(log) + 1] = o
      BY <1>1, <2>2, AppendProperties
  <2>4. ASSUME NEW i \in 1..Len(log')
        PROVE  \/ i \in 1..Len(log) /\ log'[i] = log[i] /\ log'[i] \in receipts
               \/ i = Len(log) + 1 /\ log'[i] = o
    <3>1. i \in 1..Len(log) \/ i = Len(log) + 1
        BY <1>1, <2>3
    <3> QED
        BY <1>1, <2>3, <3>1 DEF Log
  <2>5. \A i \in 1..Len(log') : log'[i] \in receipts'
      BY <2>2, <2>4
  <2>6. ASSUME NEW i \in 1..Len(log'), NEW j \in 1..Len(log'), i # j
        PROVE  log'[i] # log'[j]
    <3>1. CASE i \in 1..Len(log) /\ j \in 1..Len(log)
        BY <1>1, <2>3, <2>6, <3>1 DEF Log, InvokedAtMostOnce
    <3> QED
        BY <2>2, <2>4, <2>6, <3>1
  <2>7. Log'
      BY <2>5, <2>6 DEF Log, InvokedAtMostOnce
  <2> QED
      BY <1>1, <2>1, <2>2, <2>3, <2>7
<1> QED
    BY <1>2, <1>3 DEF Transact

\* Whatever became of the transaction, the scheduler goes on.
LEMMA CommitKeeps ==
    ASSUME IInv, NEW s \in Schedulers, Commit(s) \/ CommitLost(s)
    PROVE  IInv'
<1>1. /\ TypeOK /\ scan[s].stage = "committing"
      /\ scan[s].rest # {} /\ Occurrence(s)[2] # 0
    BY DEF IInv, Place, Commit, CommitLost, At
<1>2. Transact(s) /\ UNCHANGED <<worldVars, cache>>
    BY DEF Commit, CommitLost
<1>3. /\ revision' \in Nat /\ openRuns' \in Nat /\ log' \in Seq(Occurrences)
      /\ receipts' \subseteq Occurrences /\ receipts \subseteq receipts'
      /\ Log'
      /\ Admissible(s) => Occurrence(s) \in receipts'
    BY <1>1, <1>2, OccurrenceIsOne, Transacts
<1>4. disturbances' \in 0..MaxDisturbances
    BY <1>1, Shape, Limits DEF Commit, CommitLost, Disturb
<1>5. /\ scan' \in [Schedulers -> Scans] /\ cursor' \in [Schedulers -> 0..N]
      /\ \A t \in Schedulers : t # s => scan'[t] = scan[t]
      /\ Place(s)'
  <2>1. CASE Advance(s)
      BY <1>1, <2>1, Advancing, PlaceBetween
  <2>2. CASE /\ Goto(s, "answered") /\ UNCHANGED cursor
             /\ Occurrence(s) \in receipts \/ Admissible(s)
    <3>1. /\ scan' \in [Schedulers -> Scans]
          /\ \A t \in Schedulers : t # s => scan'[t] = scan[t]
          /\ scan'[s].stage = "answered" /\ scan'[s].rest = scan[s].rest
          /\ Occurrence(s)' = Occurrence(s)
        BY <1>1, <2>2, Going DEF Stages
    <3>2. Place(s)'
        BY <1>1, <1>3, <2>2, <3>1 DEF Place
    <3> QED
        BY <1>1, <2>2, <3>1, <3>2, Shape
  <2> QED
      BY <2>1, <2>2 DEF Commit, CommitLost
<1>6. \A t \in Schedulers : Place(t)' /\ Memory(t)'
    BY <1>2, <1>3, <1>5, PlaceStays, MemoryStays DEF IInv
<1>7. TypeOK'
  <2>1. \A t \in Schedulers : Len(cache'[t]) <= CacheLimit
      BY <1>6 DEF Memory
  <2> QED
      BY <1>1, <1>2, <1>3, <1>4, <1>5, <2>1 DEF TypeOK, worldVars
<1> QED
    BY <1>3, <1>6, <1>7 DEF IInv

-----------------------------------------------------------------------------
(* The invariant.                                                          *)

Environment ==
    \/ Tick \/ Create \/ UserActs \/ Archive \/ Unarchive \/ Delete
    \/ BeginSwitch \/ EndSwitch \/ RunSettles

\* Ticks, creations, users and runs leave the schedulers and the receipts alone.
LEMMA WorldKeeps ==
    ASSUME IInv, Environment \/ UNCHANGED vars
    PROVE  IInv'
<1>1. UNCHANGED <<scan, cursor, cache, log, receipts>>
    BY DEF Environment, Tick, Create, UserActs, Archive, Unarchive, Delete, SetThread,
           BeginSwitch, EndSwitch, SetSwitching, RunSettles, storeVars, worldVars, vars
<1>2. Log'
    BY <1>1 DEF IInv, Log, InvokedAtMostOnce
<1>3. \A s \in Schedulers : Place(s)' /\ Memory(s)'
    BY <1>1, PlaceStays, MemoryStays DEF IInv
<1>4. /\ clock' \in 1..MaxClock /\ created' \in 0..N /\ disturbances' \in 0..MaxDisturbances
      /\ thread' \in {"active", "archived", "deleted"} /\ switching' \in BOOLEAN
      /\ revision' \in Nat /\ openRuns' \in Nat
  <2>1. /\ clock \in 1..MaxClock /\ created \in 0..N /\ disturbances \in 0..MaxDisturbances
        /\ thread \in {"active", "archived", "deleted"} /\ switching \in BOOLEAN
        /\ revision \in Nat /\ openRuns \in Nat
      BY DEF IInv, TypeOK
  <2>2. CASE Tick
      BY <2>1, <2>2, Limits DEF Tick, storeVars
  <2>3. CASE Create
      BY <2>1, <2>3, Limits DEF Create, storeVars
  <2>4. CASE UserActs
      BY <2>1, <2>4, Limits DEF UserActs, Disturb, worldVars
  <2>5. CASE Archive \/ Unarchive \/ Delete
      BY <2>1, <2>5, Limits DEF Archive, Unarchive, Delete, SetThread, Disturb
  <2>6. CASE BeginSwitch \/ EndSwitch
    <3>1. switching' \in BOOLEAN
        BY <2>6, Zenon DEF BeginSwitch, EndSwitch, SetSwitching
    <3>2. UNCHANGED <<clock, created, thread, revision, openRuns>>
        BY <2>6 DEF BeginSwitch, EndSwitch, SetSwitching, storeVars
    <3>3. disturbances' \in 0..MaxDisturbances
      <4>1. UNCHANGED disturbances \/ Disturb
          BY <2>6, Zenon DEF BeginSwitch, EndSwitch
      <4> QED
          BY <2>1, <4>1, Limits DEF Disturb
    <3> QED
        BY <2>1, <3>1, <3>2, <3>3
  <2>7. CASE RunSettles
      BY <2>1, <2>7 DEF RunSettles, worldVars
  <2>8. CASE UNCHANGED vars
      BY <2>1, <2>8 DEF vars
  <2> QED
      BY <2>2, <2>3, <2>4, <2>5, <2>6, <2>7, <2>8 DEF Environment
<1>5. TypeOK'
    BY <1>1, <1>4 DEF IInv, TypeOK
<1> QED
    BY <1>2, <1>3, <1>5 DEF IInv

LEMMA InvariantInit == Init => IInv
<1> SUFFICES ASSUME Init PROVE IInv
    OBVIOUS
<1>1. <<>> \in Seq(Occurrences) /\ Len(<<>>) = 0
    OBVIOUS
<1>2. TypeOK
  <2>1. switching \in BOOLEAN
      BY Zenon DEF Init
  <2>2. scan \in [Schedulers -> Scans] /\ cache \in [Schedulers -> Seq(Occurrences)]
      BY <1>1, NoScanIsOne DEF Init
  <2> QED
      BY <1>1, <2>1, <2>2, Limits DEF Init, TypeOK
<1>3. Log
    BY <1>1 DEF Init, Log, InvokedAtMostOnce
<1>4. ASSUME NEW s \in Schedulers
      PROVE  Place(s) /\ Memory(s)
  <2>1. scan[s].stage = "idle" /\ cache[s] = <<>>
      BY NoScanIsOne DEF Init
  <2>2. Place(s)
      BY <2>1 DEF Place
  <2>3. Memory(s)
      BY <1>1, <2>1, Limits DEF Memory, OnePerAutomation
  <2> QED
      BY <2>2, <2>3
<1> QED
    BY <1>2, <1>3, <1>4 DEF IInv

LEMMA InvariantNext == IInv /\ [Next]_vars => IInv'
<1> SUFFICES ASSUME IInv, [Next]_vars PROVE IInv'
    OBVIOUS
<1>1. ASSUME NEW s \in Schedulers, Scanning(s)
      PROVE  IInv'
    BY <1>1, WakeKeeps, ListKeeps, SkipKeeps, EndOfPageKeeps, ReadThreadKeeps,
       CheckReceiptKeeps, LoadContextKeeps, CommitKeeps, AnsweredKeeps DEF Scanning
<1>2. ASSUME NEW s \in Schedulers,
             CommitLost(s) \/ Refused(s) \/ Denied(s) \/ Restart(s)
      PROVE  IInv'
    BY <1>2, CommitKeeps, GivesUp, DeniedKeeps
<1> QED
    BY <1>1, <1>2, WorldKeeps DEF Next, Environment

LEMMA Invariance == Spec => []IInv
    BY InvariantInit, InvariantNext, PTL DEF Spec

-----------------------------------------------------------------------------
(* The theorems.                                                           *)

\* The schedulers' scans, cursors and caches and the store keep their shapes;
\* a cache holds no more than its limit.
THEOREM TypeCorrect == Spec => []TypeOK
<1>1. IInv => TypeOK
    BY DEF IInv
<1> QED
    BY <1>1, Invariance, PTL

\* The receipt committed with a run keeps any scheduler, however stale what it
\* read before, from starting a second run for the same occurrence.
THEOREM OccurrencesRunOnce == Spec => []InvokedAtMostOnce
<1>1. IInv => InvokedAtMostOnce
    BY DEF IInv, Log
<1> QED
    BY <1>1, Invariance, PTL

\* What a scheduler skips because it remembers it has been committed, through
\* conflicts, lost answers, evictions and restarts.
THEOREM MemoryIsTrue == Spec => []RememberedIsCommitted
<1>1. IInv => RememberedIsCommitted
    BY DEF IInv, Memory, RememberedIsCommitted
<1> QED
    BY <1>1, Invariance, PTL

\* The cache is the map the code keeps: it never holds two occurrences of one
\* automation, which is what deleting from it relies on.
THEOREM CacheIsMap == Spec => [](\A s \in Schedulers : OnePerAutomation(cache[s]))
<1>1. IInv => \A s \in Schedulers : OnePerAutomation(cache[s])
    BY DEF IInv, Memory
<1> QED
    BY <1>1, Invariance, PTL

=============================================================================
