------------------------ MODULE OutboxAdmissionProofs ------------------------
(***************************************************************************)
(* Theorems about OutboxAdmission, for any dispatchers, stores and limits: *)
(* the slots of the process and the hints between a wake, a drain and the  *)
(* waiting list.                                                           *)
(***************************************************************************)
EXTENDS OutboxAdmission, SequenceTheorems, FiniteSetTheorems, TLAPS

\* The lists are lists without repetition, nobody waits who drains, and nobody
\* is in them who is closed.
Process ==
    /\ drain \in [Dispatchers -> Calls]
    /\ closed \in [Dispatchers -> BOOLEAN] /\ changed \in [Dispatchers -> BOOLEAN]
    /\ immediates \in Seq(Dispatchers) /\ IsInjective(immediates)
    /\ deferred \in Seq(Dispatchers) /\ IsInjective(deferred)
    /\ Len(deferred) <= MaxDeferred
    /\ \A d \in Dispatchers :
          /\ drain[d] # "none" => d \notin Waiting
          /\ closed[d] => d \notin Scheduled \cup Waiting

\* Where a hint is kept, if the list has room for everyone.
HeldFor(d) ==
    changed[d] /\ ~closed[d] => drain[d] # "none" \/ d \in Scheduled \cup Waiting

Hints == MaxDeferred >= Cardinality(Dispatchers) => \A d \in Dispatchers : HeldFor(d)

\* A drain claims only within its budget, and what it delivered is counted anew.
Numbers ==
    /\ started \in [Dispatchers -> BOOLEAN]
    /\ delivered \in [Dispatchers -> 0 .. MaxBatch + 1]
    /\ work \in [Stores -> Nat] /\ commits \in [Stores -> Nat]
    /\ faults \in 0 .. MaxFaults
    /\ \A d \in Dispatchers :
          /\ drain[d] \in {"claim", "deliver", "empty"} => delivered[d] < MaxBatch
          /\ drain[d] = "none" => delivered[d] = 0

IInv == Process /\ Hints /\ SlotsMatchDrains /\ Numbers

-----------------------------------------------------------------------------
(* Lists of dispatchers.                                                   *)

\* What fails for some numbers fails for a least one.
LEMMA Least ==
    ASSUME NEW T \in SUBSET Nat, T # {}
    PROVE  \E n \in T : n = 0 \/ (n - 1 \in Nat /\ n - 1 \notin T)
<1>1. PICK n \in T : \A m \in T : ~(<<m, n>> \in OpToRel(<, Nat))
    BY NatLessThanWellFounded, WFMin
<1>2. \A m \in T : ~(m < n)
    BY <1>1 DEF OpToRel
<1>3. n \in Nat /\ (n # 0 => n - 1 \in Nat /\ n - 1 < n)
    OBVIOUS
<1> QED
    BY <1>2, <1>3

\* What the recursion over the prefixes of a list computes; it has a solution.
Filters(g, list, set) ==
    g = [n \in 0 .. Len(list) |->
            IF n = 0 THEN <<>>
            ELSE IF list[n] \in set THEN Append(g[n - 1], list[n])
            ELSE g[n - 1]]

LEMMA FiltersSolved ==
    ASSUME NEW list \in Seq(Dispatchers), NEW set
    PROVE  \E g : Filters(g, list, set)
<1> DEFINE Next1(g, n) == IF n = 0 THEN <<>>
                          ELSE IF list[n] \in set THEN Append(g[n - 1], list[n])
                          ELSE g[n - 1]
           Solves(g, k) == g = [n \in 0 .. k |-> Next1(g, n)]
           T == {k \in Nat : ~\E g : Solves(g, k)}
<1>1. ASSUME T # {}
      PROVE  FALSE
  <2>1. PICK k \in T : k = 0 \/ (k - 1 \in Nat /\ k - 1 \notin T)
      BY <1>1, Least
  <2>2. CASE k = 0
    <3>1. Solves([n \in 0 .. 0 |-> <<>>], 0)
        OBVIOUS
    <3> QED
        BY <2>1, <2>2, <3>1
  <2>3. CASE k # 0
    <3>1. PICK g : Solves(g, k - 1)
        BY <2>1, <2>3
    <3>2. PICK h : h = [n \in 0 .. k |-> IF n = k THEN Next1(g, k) ELSE g[n]]
        OBVIOUS
    <3>3. \A n \in 0 .. k - 1 : h[n] = g[n]
        BY <3>2
    <3>4. ASSUME NEW n \in 0 .. k
          PROVE  h[n] = Next1(h, n)
      <4>1. CASE n = k
        <5>1. k - 1 \in 0 .. k - 1 /\ h[k - 1] = g[k - 1]
            BY <2>1, <2>3, <3>3
        <5>2. h[k] = Next1(g, k)
            BY <2>1, <3>2
        <5> QED
            BY <4>1, <5>1, <5>2
      <4>2. CASE n # k /\ n # 0
        <5>1. n \in 0 .. k - 1 /\ n - 1 \in 0 .. k - 1
            BY <2>1, <4>2
        <5>2. h[n] = g[n] /\ h[n - 1] = g[n - 1]
            BY <3>3, <5>1
        <5>3. g[n] = Next1(g, n)
            BY <3>1, <5>1
        <5> QED
            BY <5>2, <5>3
      <4>3. CASE n # k /\ n = 0
        <5>1. n \in 0 .. k - 1
            BY <2>1, <4>3
        <5> QED
            BY <3>1, <3>3, <4>3, <5>1
      <4> QED
          BY <4>1, <4>2, <4>3
    <3>5. Solves(h, k)
      <4>1. h = [n \in 0 .. k |-> h[n]]
          BY <3>2
      <4> QED
          BY <3>4, <4>1
    <3> QED
        BY <2>1, <3>5
  <2> QED
      BY <2>2, <2>3
<1>2. Len(list) \in Nat
    OBVIOUS
<1>3. \E g : Solves(g, Len(list))
  <2> HIDE DEF Solves
  <2> QED
      BY <1>1, <1>2
<1>4. PICK g : Solves(g, Len(list))
    BY <1>3
<1>5. Filters(g, list, set)
    BY <1>4 DEF Filters
<1> QED
    BY <1>5

\* What a list is filtered to: its members in the set, none of them twice.
LEMMA AmongList ==
    ASSUME NEW list \in Seq(Dispatchers), NEW set
    PROVE  /\ Among(list, set) \in Seq(Dispatchers)
           /\ Len(Among(list, set)) <= Len(list)
           /\ ToSet(Among(list, set)) = ToSet(list) \cap set
           /\ IsInjective(list) => IsInjective(Among(list, set))
<1>1. Among(list, set) = (CHOOSE g : Filters(g, list, set))[Len(list)]
    BY DEF Among, Filters
<1>2. PICK F : F = CHOOSE g : Filters(g, list, set)
    OBVIOUS
<1>3. Filters(F, list, set)
    BY <1>2, FiltersSolved
<1>4. Len(list) \in Nat /\ \A i \in 1 .. Len(list) : list[i] \in Dispatchers
    OBVIOUS
<1>5. F[0] = <<>>
    BY <1>3, <1>4 DEF Filters
<1>6. ASSUME NEW n \in 1 .. Len(list)
      PROVE  F[n] = IF list[n] \in set THEN Append(F[n - 1], list[n]) ELSE F[n - 1]
  <2>1. n \in 0 .. Len(list) /\ n # 0
      OBVIOUS
  <2> QED
      BY <1>3, <2>1 DEF Filters
<1> DEFINE Upto(n) == {list[i] : i \in 1 .. n}
           Good(n) == /\ F[n] \in Seq(Dispatchers)
                      /\ Len(F[n]) <= n
                      /\ ToSet(F[n]) = Upto(n) \cap set
                      /\ IsInjective(list) => IsInjective(F[n])
<1>7. Good(0)
  <2>1. F[0] \in Seq(Dispatchers) /\ Len(F[0]) = 0
      BY <1>5
  <2>2. ToSet(F[0]) = {} /\ Upto(0) = {}
      BY <1>5 DEF ToSet
  <2>3. IsInjective(F[0])
      BY <1>5 DEF IsInjective
  <2> QED
      BY <2>1, <2>2, <2>3
<1>8. ASSUME NEW n \in 1 .. Len(list), Good(n - 1)
      PROVE  Good(n)
  <2>1. PICK p : p = F[n - 1]
      OBVIOUS
  <2>2. /\ p \in Seq(Dispatchers) /\ Len(p) <= n - 1 /\ Len(p) \in Nat
        /\ ToSet(p) = Upto(n - 1) \cap set
        /\ IsInjective(list) => IsInjective(p)
      BY <1>8, <2>1
  <2>3. Upto(n) = Upto(n - 1) \cup {list[n]}
    <3>1. \A i \in 1 .. n : i \in 1 .. n - 1 \/ i = n
        OBVIOUS
    <3>2. n \in 1 .. n /\ \A i \in 1 .. n - 1 : i \in 1 .. n
        OBVIOUS
    <3> QED
        BY <3>1, <3>2
  <2>4. CASE list[n] \notin set
    <3>1. F[n] = p
        BY <1>6, <2>1, <2>4
    <3>2. ToSet(p) = Upto(n) \cap set
        BY <2>2, <2>3, <2>4
    <3> HIDE DEF Upto
    <3> QED
        BY <2>2, <3>1, <3>2
  <2>5. CASE list[n] \in set
    <3>1. PICK q : q = F[n]
        OBVIOUS
    <3>2. q = Append(p, list[n]) /\ list[n] \in Dispatchers
        BY <1>4, <1>6, <2>1, <2>5, <3>1
    <3>3. /\ q \in Seq(Dispatchers) /\ Len(q) = Len(p) + 1
          /\ \A i \in 1 .. Len(p) : q[i] = p[i]
          /\ q[Len(p) + 1] = list[n]
        BY <2>2, <3>2, AppendProperties
    <3>4. DOMAIN q = 1 .. Len(p) + 1 /\ DOMAIN p = 1 .. Len(p)
        BY <2>2, <3>3
    <3>5. \A i \in 1 .. Len(p) + 1 : i \in 1 .. Len(p) \/ i = Len(p) + 1
        BY <2>2
    <3>6. ToSet(q) = ToSet(p) \cup {list[n]}
      <4>1. Len(p) + 1 \in 1 .. Len(p) + 1 /\ \A i \in 1 .. Len(p) : i \in 1 .. Len(p) + 1
          BY <2>2
      <4> QED
          BY <3>3, <3>4, <3>5, <4>1 DEF ToSet
    <3>7. ToSet(q) = Upto(n) \cap set
      <4> HIDE DEF Upto
      <4> QED
          BY <2>2, <2>3, <2>5, <3>6
    <3>8. ASSUME IsInjective(list)
          PROVE  IsInjective(q)
      <4>1. list[n] \notin ToSet(p)
        <5>1. ASSUME NEW i \in 1 .. n - 1
              PROVE  list[i] # list[n]
          <6>1. DOMAIN list = 1 .. Len(list)
              OBVIOUS
          <6>2. i \in 1 .. Len(list) /\ i # n
              BY <1>4
          <6> QED
              BY <3>8, <6>1, <6>2 DEF IsInjective
        <5> QED
            BY <2>2, <5>1
      <4>2. \A i \in 1 .. Len(p) : p[i] \in ToSet(p)
          BY <3>4 DEF ToSet
      <4> QED
          BY <2>2, <3>3, <3>4, <3>5, <3>8, <4>1, <4>2 DEF IsInjective
    <3>9. Len(q) <= n
        BY <2>2, <3>3
    <3> HIDE DEF Upto
    <3> QED
        BY <3>1, <3>3, <3>7, <3>8, <3>9
  <2> QED
      BY <2>4, <2>5
<1>9. Good(Len(list))
  <2> DEFINE T == {n \in 0 .. Len(list) : ~Good(n)}
  <2> HIDE DEF Good
  <2>1. ASSUME T # {}
        PROVE  FALSE
    <3>1. T \in SUBSET Nat
        OBVIOUS
    <3>2. PICK n \in T : n = 0 \/ (n - 1 \in Nat /\ n - 1 \notin T)
        BY <2>1, <3>1, Least
    <3>3. n # 0
        BY <1>7, <3>2
    <3>4. n \in 1 .. Len(list) /\ n - 1 \in 0 .. Len(list)
        BY <1>4, <3>2, <3>3
    <3> QED
        BY <1>8, <3>2, <3>3, <3>4
  <2> QED
      BY <1>4, <2>1
<1>10. Upto(Len(list)) = ToSet(list)
  <2>1. DOMAIN list = 1 .. Len(list)
      OBVIOUS
  <2> QED
      BY <2>1 DEF ToSet
<1> HIDE DEF Upto
<1> QED
    BY <1>1, <1>2, <1>9, <1>10

LEMMA ListShape ==
    ASSUME NEW list \in Seq(Dispatchers)
    PROVE  /\ Len(list) \in Nat /\ DOMAIN list = 1 .. Len(list)
           /\ \A i \in 1 .. Len(list) : list[i] \in Dispatchers
           /\ ToSet(list) = {list[i] : i \in 1 .. Len(list)}
           /\ ToSet(list) \subseteq Dispatchers
<1>1. Len(list) \in Nat /\ DOMAIN list = 1 .. Len(list)
    OBVIOUS
<1>2. \A i \in 1 .. Len(list) : list[i] \in Dispatchers
    OBVIOUS
<1>3. ToSet(list) = {list[i] : i \in 1 .. Len(list)}
    BY <1>1 DEF ToSet
<1> QED
    BY <1>1, <1>2, <1>3

LEMMA EmptyList ==
    /\ <<>> \in Seq(Dispatchers) /\ Len(<<>>) = 0
    /\ ToSet(<<>>) = {} /\ IsInjective(<<>>)
BY DEF ToSet, IsInjective

LEMMA WithoutList ==
    ASSUME NEW list \in Seq(Dispatchers), IsInjective(list), NEW d \in Dispatchers
    PROVE  /\ Without(list, d) \in Seq(Dispatchers) /\ IsInjective(Without(list, d))
           /\ Len(Without(list, d)) <= Len(list)
           /\ ToSet(Without(list, d)) = ToSet(list) \ {d}
BY AmongList, ListShape DEF Without

LEMMA AppendList ==
    ASSUME NEW list \in Seq(Dispatchers), NEW d \in Dispatchers
    PROVE  /\ Append(list, d) \in Seq(Dispatchers)
           /\ Len(Append(list, d)) = Len(list) + 1
           /\ ToSet(Append(list, d)) = ToSet(list) \cup {d}
           /\ IsInjective(list) /\ d \notin ToSet(list) => IsInjective(Append(list, d))
<1>1. PICK q : q = Append(list, d)
    OBVIOUS
<1>2. /\ q \in Seq(Dispatchers) /\ Len(q) = Len(list) + 1
      /\ \A i \in 1 .. Len(list) : q[i] = list[i]
      /\ q[Len(list) + 1] = d
    BY <1>1, AppendProperties
<1>3. /\ Len(list) \in Nat /\ DOMAIN list = 1 .. Len(list)
      /\ \A i \in 1 .. Len(list) : list[i] \in ToSet(list)
      /\ DOMAIN q = 1 .. Len(list) + 1
    BY <1>2, ListShape
<1>4. /\ \A i \in 1 .. Len(list) + 1 : i \in 1 .. Len(list) \/ i = Len(list) + 1
      /\ Len(list) + 1 \in 1 .. Len(list) + 1
      /\ \A i \in 1 .. Len(list) : i \in 1 .. Len(list) + 1
    BY <1>3
<1>5. ToSet(q) = ToSet(list) \cup {d}
    BY <1>2, <1>3, <1>4 DEF ToSet
<1>6. ASSUME IsInjective(list), d \notin ToSet(list)
      PROVE  IsInjective(q)
    BY <1>2, <1>3, <1>4, <1>6 DEF IsInjective
<1> QED
    BY <1>1, <1>2, <1>5, <1>6

LEMMA TailList ==
    ASSUME NEW list \in Seq(Dispatchers), list # <<>>
    PROVE  /\ Tail(list) \in Seq(Dispatchers) /\ Head(list) \in Dispatchers
           /\ ToSet(list) = ToSet(Tail(list)) \cup {Head(list)}
           /\ IsInjective(list) => IsInjective(Tail(list))
<1>1. PICK q : q = Tail(list)
    OBVIOUS
<1>2. PICK h : h = Head(list)
    OBVIOUS
<1>3. /\ q \in Seq(Dispatchers) /\ Len(q) = Len(list) - 1
      /\ \A i \in 1 .. Len(q) : q[i] = list[i + 1]
      /\ h = list[1] /\ h \in Dispatchers
    BY <1>1, <1>2, HeadTailProperties
<1>4. /\ Len(list) \in Nat \ {0} /\ DOMAIN list = 1 .. Len(list)
      /\ ToSet(list) = {list[i] : i \in 1 .. Len(list)}
      /\ DOMAIN q = 1 .. Len(q) /\ ToSet(q) = {q[i] : i \in 1 .. Len(q)}
    BY <1>3, ListShape, EmptySeq
<1>5. /\ \A i \in 1 .. Len(list) : i = 1 \/ (i - 1 \in 1 .. Len(q) /\ i - 1 + 1 = i)
      /\ 1 \in 1 .. Len(list)
      /\ \A i \in 1 .. Len(q) : i + 1 \in 1 .. Len(list)
    BY <1>3, <1>4
<1>6. ToSet(list) = ToSet(q) \cup {h}
  <2>1. ASSUME NEW i \in 1 .. Len(list)
        PROVE  list[i] \in ToSet(q) \cup {h}
    <3>1. CASE i = 1
        BY <1>3, <3>1
    <3>2. CASE i # 1
      <4>1. i - 1 \in 1 .. Len(q) /\ q[i - 1] = list[i]
          BY <1>3, <1>5, <3>2
      <4> QED
          BY <1>4, <4>1
    <3> QED
        BY <3>1, <3>2
  <2>2. h \in ToSet(list) /\ \A i \in 1 .. Len(q) : q[i] \in ToSet(list)
      BY <1>3, <1>4, <1>5
  <2> QED
      BY <1>4, <2>1, <2>2
<1>7. ASSUME IsInjective(list)
      PROVE  IsInjective(q)
  <2>1. ASSUME NEW i \in 1 .. Len(q), NEW j \in 1 .. Len(q), q[i] = q[j]
        PROVE  i = j
    <3>1. i + 1 = j + 1
        BY <1>3, <1>4, <1>5, <1>7, <2>1 DEF IsInjective
    <3> QED
        BY <3>1
  <2> QED
      BY <1>4, <2>1 DEF IsInjective
<1> QED
    BY <1>1, <1>2, <1>3, <1>6, <1>7

LEMMA JoinedList ==
    ASSUME NEW p \in Seq(Dispatchers), NEW q \in Seq(Dispatchers)
    PROVE  /\ p \o q \in Seq(Dispatchers)
           /\ ToSet(p \o q) = ToSet(p) \cup ToSet(q)
           /\ IsInjective(p) /\ IsInjective(q) /\ ToSet(p) \cap ToSet(q) = {} =>
                 IsInjective(p \o q)
<1>1. PICK r : r = p \o q
    OBVIOUS
<1>2. /\ r \in Seq(Dispatchers) /\ Len(r) = Len(p) + Len(q)
      /\ \A i \in 1 .. Len(p) + Len(q) :
            r[i] = IF i <= Len(p) THEN p[i] ELSE q[i - Len(p)]
    BY <1>1, ConcatProperties
<1>3. /\ Len(p) \in Nat /\ Len(q) \in Nat
      /\ DOMAIN p = 1 .. Len(p) /\ DOMAIN q = 1 .. Len(q) /\ DOMAIN r = 1 .. Len(r)
      /\ ToSet(p) = {p[i] : i \in 1 .. Len(p)} /\ ToSet(q) = {q[i] : i \in 1 .. Len(q)}
      /\ ToSet(r) = {r[i] : i \in 1 .. Len(r)}
    BY <1>2, ListShape
<1>4. ASSUME NEW i \in 1 .. Len(r)
      PROVE  \/ i \in 1 .. Len(p) /\ r[i] = p[i]
             \/ i - Len(p) \in 1 .. Len(q) /\ r[i] = q[i - Len(p)]
    BY <1>2, <1>3
<1>5. /\ \A i \in 1 .. Len(p) : i \in 1 .. Len(r) /\ r[i] = p[i]
      /\ \A i \in 1 .. Len(q) : i + Len(p) \in 1 .. Len(r) /\ r[i + Len(p)] = q[i]
  <2>1. ASSUME NEW i \in 1 .. Len(q)
        PROVE  i + Len(p) \in 1 .. Len(r) /\ r[i + Len(p)] = q[i]
    <3>1. /\ i + Len(p) \in 1 .. Len(p) + Len(q) /\ ~(i + Len(p) <= Len(p))
          /\ i + Len(p) - Len(p) = i
        BY <1>3
    <3> QED
        BY <1>2, <3>1
  <2> QED
      BY <1>2, <1>3, <2>1
<1>6. ToSet(r) = ToSet(p) \cup ToSet(q)
  <2>1. \A i \in 1 .. Len(r) : r[i] \in ToSet(p) \cup ToSet(q)
      BY <1>3, <1>4
  <2>2. /\ \A i \in 1 .. Len(p) : p[i] \in ToSet(r)
        /\ \A i \in 1 .. Len(q) : q[i] \in ToSet(r)
      BY <1>3, <1>5
  <2> QED
      BY <1>3, <2>1, <2>2
<1>7. ASSUME IsInjective(p), IsInjective(q), ToSet(p) \cap ToSet(q) = {}
      PROVE  IsInjective(r)
  <2>1. ASSUME NEW i \in 1 .. Len(r), NEW j \in 1 .. Len(r), r[i] = r[j]
        PROVE  i = j
    <3>1. CASE i \in 1 .. Len(p) /\ r[i] = p[i] /\ j \in 1 .. Len(p) /\ r[j] = p[j]
        BY <1>3, <1>7, <2>1, <3>1 DEF IsInjective
    <3>2. CASE /\ i - Len(p) \in 1 .. Len(q) /\ r[i] = q[i - Len(p)]
               /\ j - Len(p) \in 1 .. Len(q) /\ r[j] = q[j - Len(p)]
      <4>1. i - Len(p) = j - Len(p)
          BY <1>3, <1>7, <2>1, <3>2 DEF IsInjective
      <4> QED
          BY <1>3, <4>1
    <3>3. CASE \/ r[i] \in ToSet(p) /\ r[j] \in ToSet(q)
               \/ r[i] \in ToSet(q) /\ r[j] \in ToSet(p)
        BY <1>7, <2>1, <3>3
    <3> QED
        BY <1>3, <1>4, <3>1, <3>2, <3>3
  <2> QED
      BY <1>3, <2>1 DEF IsInjective
<1> QED
    BY <1>1, <1>2, <1>6, <1>7

LEMMA FirstOfList ==
    ASSUME NEW list \in Seq(Dispatchers), NEW n \in 0 .. Len(list)
    PROVE  /\ SubSeq(list, 1, n) \in Seq(Dispatchers)
           /\ ToSet(SubSeq(list, 1, n)) \subseteq ToSet(list)
           /\ IsInjective(list) => IsInjective(SubSeq(list, 1, n))
<1>1. PICK q : q = SubSeq(list, 1, n)
    OBVIOUS
<1>2. /\ Len(list) \in Nat /\ DOMAIN list = 1 .. Len(list)
      /\ \A i \in 1 .. n : list[i] \in Dispatchers /\ i \in 1 .. Len(list)
      /\ ToSet(list) = {list[i] : i \in 1 .. Len(list)}
    BY ListShape
<1>3. /\ q \in Seq(Dispatchers)
      /\ Len(q) = IF 1 <= n THEN n - 1 + 1 ELSE 0
      /\ \A i \in 1 .. n - 1 + 1 : q[i] = list[1 + i - 1]
    BY <1>1, <1>2, SubSeqProperties
<1>4. Len(q) = n
    BY <1>3
<1>5. ASSUME NEW i \in 1 .. n
      PROVE  q[i] = list[i]
  <2>1. i \in 1 .. n - 1 + 1 /\ 1 + i - 1 = i
      OBVIOUS
  <2> QED
      BY <1>3, <2>1
<1>6. DOMAIN q = 1 .. n /\ ToSet(q) = {q[i] : i \in 1 .. n}
    BY <1>3, <1>4, ListShape
<1>7. ToSet(q) \subseteq ToSet(list)
    BY <1>2, <1>5, <1>6
<1>8. IsInjective(list) => IsInjective(q)
    BY <1>2, <1>5, <1>6 DEF IsInjective
<1> QED
    BY <1>1, <1>3, <1>7, <1>8

\* A list without repetition that lacks someone has room for it.
LEMMA Room ==
    ASSUME NEW list \in Seq(Dispatchers), IsInjective(list),
           NEW d \in Dispatchers, d \notin ToSet(list)
    PROVE  Len(list) < Cardinality(Dispatchers)
<1> DEFINE T == Dispatchers \ {d}
<1>1. /\ IsFiniteSet(T) /\ Cardinality(T) = Cardinality(Dispatchers) - 1
      /\ Cardinality(Dispatchers) \in Nat
    BY DispatcherAssumption, FS_RemoveElement, FS_CardinalityType
<1>2. list \in [1 .. Len(list) -> T]
  <2>1. \A i \in 1 .. Len(list) : list[i] \in T
      BY ListShape
  <2>2. list = [i \in 1 .. Len(list) |-> list[i]]
      OBVIOUS
  <2> QED
      BY <2>1, <2>2
<1>3. list \in Injection(1 .. Len(list), T)
    BY <1>2 DEF Injection
<1>4. Cardinality(1 .. Len(list)) <= Cardinality(T)
    BY <1>1, <1>3, FS_Injection
<1>5. Len(list) \in Nat
    BY ListShape
<1>6. Cardinality(1 .. Len(list)) = Len(list)
  <2>1. 1 \in Int /\ Len(list) \in Int
      BY <1>5
  <2>2. Cardinality(1 .. Len(list)) = IF 1 > Len(list) THEN 0 ELSE Len(list) - 1 + 1
      BY <2>1, FS_Interval
  <2> QED
      BY <1>5, <2>2
<1> QED
    BY <1>1, <1>4, <1>5, <1>6

-----------------------------------------------------------------------------
(* Wakes.                                                                  *)

LEMMA Limits ==
    /\ StoreOf \in [Dispatchers -> Stores]
    /\ MaxActive \in Nat \ {0} /\ MaxBatch \in Nat \ {0} /\ MaxDeferred \in Nat
    /\ MaxCommits \in Nat /\ MaxFaults \in Nat
    /\ IsFiniteSet(Dispatchers) /\ Cardinality(Dispatchers) \in Nat
BY StoreAssumption, LimitAssumption, BoundAssumption, DispatcherAssumption, FS_CardinalityType

\* What may remain of the immediates when d is woken.
Remains(rest, d) ==
    /\ rest \in Seq(Dispatchers) /\ IsInjective(rest)
    /\ ToSet(rest) \subseteq Scheduled /\ Scheduled \ {d} \subseteq ToSet(rest)

\* A dispatcher that finds no slot waits, unless no hint was given to it.
LEMMA Deferring ==
    ASSUME Process, NEW d \in Dispatchers, drain[d] = "none", Defer(d)
    PROVE  /\ deferred' \in Seq(Dispatchers) /\ IsInjective(deferred')
           /\ Len(deferred') <= MaxDeferred
           /\ Waiting \subseteq Waiting' /\ Waiting' \subseteq Waiting \cup {d}
           /\ MaxDeferred >= Cardinality(Dispatchers) /\ changed[d] => d \in Waiting'
<1>1. deferred \in Seq(Dispatchers) /\ IsInjective(deferred) /\ Len(deferred) <= MaxDeferred
    BY DEF Process
<1>2. Len(deferred) \in Nat
    BY <1>1, ListShape
<1>3. CASE changed[d] /\ d \notin Waiting /\ Len(deferred) < MaxDeferred
  <2>1. deferred' = Append(deferred, d)
      BY <1>3 DEF Defer
  <2>2. /\ deferred' \in Seq(Dispatchers) /\ Len(deferred') = Len(deferred) + 1
        /\ ToSet(deferred') = ToSet(deferred) \cup {d} /\ IsInjective(deferred')
      BY <1>1, <1>3, <2>1, AppendList DEF Waiting
  <2> QED
      BY <1>2, <1>3, <2>2, Limits DEF Waiting
<1>4. CASE ~(changed[d] /\ d \notin Waiting /\ Len(deferred) < MaxDeferred)
  <2>1. deferred' = deferred
      BY <1>4 DEF Defer
  <2>2. MaxDeferred >= Cardinality(Dispatchers) /\ changed[d] => d \in Waiting
      BY <1>1, <1>2, <1>4, Room, Limits DEF Waiting
  <2> QED
      BY <1>1, <2>1, <2>2 DEF Waiting
<1> QED
    BY <1>3, <1>4

\* A wake changes the lists and the hint of its dispatcher only.
LEMMA WakeKeepsProcess ==
    ASSUME Process, NEW d \in Dispatchers, NEW rest, Remains(rest, d), wake(d, rest),
           ~closed[d], UNCHANGED closed
    PROVE  Process'
<1>1. /\ drain \in [Dispatchers -> Calls] /\ changed \in [Dispatchers -> BOOLEAN]
      /\ deferred \in Seq(Dispatchers) /\ IsInjective(deferred)
      /\ Len(deferred) <= MaxDeferred
      /\ \A e \in Dispatchers : /\ drain[e] # "none" => e \notin Waiting
                                /\ closed[e] => e \notin Scheduled \cup Waiting
      /\ rest \in Seq(Dispatchers) /\ IsInjective(rest) /\ ToSet(rest) \subseteq Scheduled
      /\ closed' \in [Dispatchers -> BOOLEAN]
    BY DEF Process, Remains
<1>2. CASE drain[d] # "none" /\ immediates' = rest /\ UNCHANGED <<drain, changed, deferred>>
  <2>1. Waiting' = Waiting /\ Scheduled' \subseteq Scheduled
      BY <1>1, <1>2 DEF Waiting, Scheduled
  <2>2. \A e \in Dispatchers : /\ drain'[e] # "none" => e \notin Waiting'
                               /\ closed'[e] => e \notin Scheduled' \cup Waiting'
      BY <1>1, <1>2, <2>1
  <2> QED
      BY <1>1, <1>2, <2>2 DEF Process
<1>3. CASE drain[d] = "none" /\ immediates' = rest /\ Defer(d)
  <2>1. /\ deferred' \in Seq(Dispatchers) /\ IsInjective(deferred')
        /\ Len(deferred') <= MaxDeferred /\ Waiting' \subseteq Waiting \cup {d}
      BY <1>3, Deferring
  <2>2. UNCHANGED <<drain, changed>>
      BY <1>3 DEF Defer
  <2>3. Scheduled' \subseteq Scheduled
      BY <1>1, <1>3 DEF Scheduled
  <2>4. \A e \in Dispatchers : /\ drain'[e] # "none" => e \notin Waiting'
                               /\ closed'[e] => e \notin Scheduled' \cup Waiting'
      BY <1>1, <1>3, <2>1, <2>2, <2>3
  <2> QED
      BY <1>1, <1>3, <2>1, <2>2, <2>4 DEF Process
<1>4. CASE drain[d] = "none" /\ immediates' = Without(rest, d) /\ Admit(d)
  <2>1. /\ immediates' \in Seq(Dispatchers) /\ IsInjective(immediates')
        /\ Scheduled' \subseteq Scheduled
      BY <1>1, <1>4, WithoutList DEF Scheduled
  <2>2. /\ deferred' \in Seq(Dispatchers) /\ IsInjective(deferred')
        /\ Len(deferred') <= Len(deferred) /\ Waiting' = Waiting \ {d}
      BY <1>1, <1>4, WithoutList DEF Admit, Waiting
  <2>3. Len(deferred') <= MaxDeferred
    <3>1. Len(deferred) \in Nat /\ Len(deferred') \in Nat
        BY <1>1, <2>2, ListShape
    <3> QED
        BY <1>1, <2>2, <3>1, Limits
  <2>4. /\ drain' = [drain EXCEPT ![d] = "claim"] /\ changed' = [changed EXCEPT ![d] = FALSE]
      BY <1>4 DEF Admit
  <2>5. drain' \in [Dispatchers -> Calls] /\ changed' \in [Dispatchers -> BOOLEAN]
      BY <1>1, <2>4 DEF Calls
  <2>6. \A e \in Dispatchers : /\ drain'[e] # "none" => e \notin Waiting'
                               /\ closed'[e] => e \notin Scheduled' \cup Waiting'
      BY <1>1, <2>1, <2>2, <2>4
  <2> QED
      BY <1>1, <2>1, <2>2, <2>3, <2>5, <2>6 DEF Process
<1> QED
    BY <1>2, <1>3, <1>4 DEF wake

\* A hint that wakes its dispatcher is taken, kept, or waits.
LEMMA WakeKeepsHints ==
    ASSUME Process, Hints, NEW d \in Dispatchers, NEW rest, Remains(rest, d), wake(d, rest),
           UNCHANGED closed
    PROVE  Hints'
<1> SUFFICES ASSUME MaxDeferred >= Cardinality(Dispatchers), NEW e \in Dispatchers,
                    changed'[e], ~closed'[e]
             PROVE  drain'[e] # "none" \/ e \in Scheduled' \cup Waiting'
    BY DEF Hints, HeldFor
<1>1. HeldFor(e)
    BY DEF Hints
<1>2. /\ drain \in [Dispatchers -> Calls] /\ changed \in [Dispatchers -> BOOLEAN]
      /\ deferred \in Seq(Dispatchers) /\ IsInjective(deferred)
      /\ rest \in Seq(Dispatchers) /\ IsInjective(rest)
      /\ Scheduled \ {d} \subseteq ToSet(rest)
    BY DEF Process, Remains
<1>3. CASE drain[d] # "none" /\ immediates' = rest /\ UNCHANGED <<drain, changed, deferred>>
    BY <1>1, <1>2, <1>3 DEF HeldFor, Scheduled, Waiting
<1>4. CASE drain[d] = "none" /\ immediates' = rest /\ Defer(d)
  <2>1. /\ Waiting \subseteq Waiting'
        /\ MaxDeferred >= Cardinality(Dispatchers) /\ changed[d] => d \in Waiting'
      BY <1>4, Deferring
  <2>2. UNCHANGED <<drain, changed>>
      BY <1>4 DEF Defer
  <2> QED
      BY <1>1, <1>2, <1>4, <2>1, <2>2 DEF HeldFor, Scheduled
<1>5. CASE drain[d] = "none" /\ immediates' = Without(rest, d) /\ Admit(d)
  <2>1. Scheduled' = ToSet(rest) \ {d} /\ Waiting' = Waiting \ {d}
      BY <1>2, <1>5, WithoutList DEF Admit, Scheduled, Waiting
  <2>2. drain' = [drain EXCEPT ![d] = "claim"] /\ changed' = [changed EXCEPT ![d] = FALSE]
      BY <1>5 DEF Admit
  <2>3. e # d
      BY <1>2, <2>2
  <2> QED
      BY <1>1, <1>2, <2>1, <2>2, <2>3 DEF HeldFor
<1> QED
    BY <1>3, <1>4, <1>5 DEF wake

LEMMA SlotCount ==
    ASSUME SlotsMatchDrains
    PROVE  IsFiniteSet(Draining) /\ activeDrains \in Nat /\ activeDrains <= MaxActive
<1>1. IsFiniteSet(Draining) /\ Cardinality(Draining) \in Nat
    BY Limits, FS_Subset, FS_CardinalityType DEF Draining
<1> QED
    BY <1>1 DEF SlotsMatchDrains

LEMMA AdmitKeepsSlots ==
    ASSUME Process, SlotsMatchDrains, NEW d \in Dispatchers, drain[d] = "none",
           ~isBlocked(d), Admit(d)
    PROVE  SlotsMatchDrains'
<1>1. /\ drain \in [Dispatchers -> Calls]
      /\ drain' = [drain EXCEPT ![d] = "claim"]
      /\ activeDrains' = activeDrains + 1
      /\ activeStores' = activeStores \cup {StoreOf[d]}
    BY DEF Process, Admit
<1>2. Draining' = Draining \cup {d} /\ d \notin Draining
    BY <1>1 DEF Draining
<1>3. activeDrains < MaxActive /\ StoreOf[d] \notin activeStores
    BY SlotCount, Limits DEF isBlocked
<1>4. activeDrains' = Cardinality(Draining') /\ activeDrains' <= MaxActive
  <2>1. Cardinality(Draining \cup {d}) = Cardinality(Draining) + 1
      BY <1>2, SlotCount, FS_AddElement
  <2>2. activeDrains = Cardinality(Draining) /\ activeDrains \in Nat
      BY SlotCount DEF SlotsMatchDrains
  <2> QED
      BY <1>1, <1>2, <1>3, <2>1, <2>2, Limits
<1>5. activeStores' = {StoreOf[e] : e \in Draining'}
    BY <1>1, <1>2 DEF SlotsMatchDrains
<1>6. \A e, f \in Draining' : StoreOf[e] = StoreOf[f] => e = f
    BY <1>2, <1>3 DEF SlotsMatchDrains
<1> QED
    BY <1>4, <1>5, <1>6 DEF SlotsMatchDrains

LEMMA WakeKeepsSlots ==
    ASSUME Process, SlotsMatchDrains, NEW d \in Dispatchers, NEW rest, wake(d, rest)
    PROVE  SlotsMatchDrains'
<1>1. CASE UNCHANGED <<drain, slots>>
    BY <1>1 DEF SlotsMatchDrains, Draining, slots
<1> QED
    BY <1>1, AdmitKeepsSlots DEF wake, Defer

\* What a wake does to the numbers of its dispatcher.
LEMMA WakeKeepsNumbers ==
    ASSUME Process, Numbers, NEW d \in Dispatchers, NEW rest, wake(d, rest),
           started' \in [Dispatchers -> BOOLEAN],
           work' \in [Stores -> Nat], commits' \in [Stores -> Nat], UNCHANGED faults
    PROVE  Numbers'
<1>1. delivered' = delivered
    BY DEF wake, Defer, Admit
<1>2. CASE UNCHANGED drain
    BY <1>1, <1>2 DEF Numbers
<1>3. CASE drain[d] = "none" /\ drain' = [drain EXCEPT ![d] = "claim"]
  <2>1. delivered[d] < MaxBatch
      BY <1>3, Limits DEF Numbers
  <2> QED
      BY <1>1, <1>3, <2>1 DEF Numbers, Process
<1> QED
    BY <1>2, <1>3 DEF wake, Defer, Admit

LEMMA WakeKeeps ==
    ASSUME IInv, NEW d \in Dispatchers, NEW rest, Remains(rest, d), wake(d, rest),
           ~closed[d], UNCHANGED <<closed, faults>>, started' \in [Dispatchers -> BOOLEAN],
           work' \in [Stores -> Nat], commits' \in [Stores -> Nat]
    PROVE  IInv'
<1>1. Process /\ Hints /\ SlotsMatchDrains /\ Numbers
    BY DEF IInv
<1> QED
    BY <1>1, WakeKeepsProcess, WakeKeepsHints, WakeKeepsSlots, WakeKeepsNumbers DEF IInv

LEMMA RemainsAll ==
    ASSUME Process, NEW d \in Dispatchers
    PROVE  Remains(immediates, d)
BY DEF Process, Remains, Scheduled

LEMMA RemainsTail ==
    ASSUME Process, immediates # <<>>
    PROVE  Head(immediates) \in Dispatchers /\ Remains(Tail(immediates), Head(immediates))
BY TailList DEF Process, Remains, Scheduled

LEMMA StartKeeps ==
    ASSUME IInv, NEW d \in Dispatchers, start(d) \/ scan(d)
    PROVE  IInv'
<1>1. Remains(immediates, d)
    BY RemainsAll DEF IInv
<1>2. /\ started' \in [Dispatchers -> BOOLEAN]
      /\ work' \in [Stores -> Nat] /\ commits' \in [Stores -> Nat]
      /\ ~closed[d] /\ UNCHANGED <<closed, faults>> /\ wake(d, immediates)
    BY DEF IInv, Numbers, start, scan, owner, stored
<1> QED
    BY <1>1, <1>2, WakeKeeps

LEMMA CommitAndWakeKeeps ==
    ASSUME IInv, NEW d \in Dispatchers, commitAndWake(d)
    PROVE  IInv'
<1>1. Remains(immediates, d)
    BY RemainsAll DEF IInv
<1>2. StoreOf[d] \in Stores /\ work \in [Stores -> Nat] /\ commits \in [Stores -> Nat]
    BY Limits DEF IInv, Numbers
<1>3. work' \in [Stores -> Nat] /\ commits' \in [Stores -> Nat]
    BY <1>2 DEF commitAndWake
<1>4. /\ started' \in [Dispatchers -> BOOLEAN]
      /\ ~closed[d] /\ UNCHANGED <<closed, faults>> /\ wake(d, immediates)
    BY DEF IInv, Numbers, commitAndWake, owner
<1> QED
    BY <1>1, <1>3, <1>4, WakeKeeps

LEMMA AvailabilityWakeKeeps ==
    ASSUME IInv, NEW d \in Dispatchers, availabilityWake(d)
    PROVE  IInv'
<1>1. /\ Head(immediates) = d /\ Remains(Tail(immediates), d) /\ ~closed[d]
      /\ ToSet(Tail(immediates)) \subseteq Scheduled
  <2>1. immediates \in Seq(Dispatchers) /\ immediates # <<>> /\ Head(immediates) = d
      BY DEF availabilityWake, IInv, Process
  <2>2. d \in Scheduled /\ ToSet(Tail(immediates)) \subseteq Scheduled
      BY <2>1, TailList DEF Scheduled
  <2> QED
      BY <2>1, <2>2, RemainsTail DEF IInv, Process
<1>2. UNCHANGED <<started, closed, work, commits, faults>>
    BY DEF availabilityWake, owner, stored
<1>3. CASE wake(d, Tail(immediates))
  <2>1. /\ started' \in [Dispatchers -> BOOLEAN]
        /\ work' \in [Stores -> Nat] /\ commits' \in [Stores -> Nat]
      BY <1>2 DEF IInv, Numbers
  <2> QED
      BY <1>1, <1>2, <1>3, <2>1, WakeKeeps
<1>4. CASE /\ ~changed[d] /\ immediates' = Tail(immediates)
           /\ UNCHANGED <<drain, delivered, changed, deferred, slots>>
  <2>1. Waiting' = Waiting /\ Scheduled' \subseteq Scheduled
      BY <1>1, <1>4 DEF Waiting, Scheduled
  <2>2. Process'
      BY <1>1, <1>2, <1>4, <2>1 DEF IInv, Process, Remains
  <2>3. Hints'
      BY <1>1, <1>2, <1>4 DEF IInv, Hints, HeldFor, Remains, Scheduled, Waiting
  <2>4. SlotsMatchDrains'
      BY <1>4 DEF IInv, SlotsMatchDrains, Draining, slots
  <2>5. Numbers'
      BY <1>2, <1>4 DEF IInv, Numbers
  <2> QED
      BY <2>2, <2>3, <2>4, <2>5 DEF IInv
<1> QED
    BY <1>3, <1>4 DEF availabilityWake

-----------------------------------------------------------------------------
(* The end of a drain.                                                     *)

\* Who is woken waited for a slot; nobody else leaves the waiting list.
LEMMA Woken ==
    ASSUME Process, NEW free \in Int, NEW busy
    PROVE  LET ready == wakeDeferredAvailability(free, busy)
               woken == Among(ready, Dispatchers \ Scheduled)
               rest == Among(deferred, Dispatchers \ ToSet(ready))
           IN  /\ woken \in Seq(Dispatchers) /\ IsInjective(woken)
               /\ rest \in Seq(Dispatchers) /\ IsInjective(rest)
               /\ Len(rest) <= MaxDeferred
               /\ ToSet(woken) \subseteq Waiting \ Scheduled
               /\ ToSet(rest) \subseteq Waiting
               /\ Waiting \subseteq ToSet(rest) \cup ToSet(woken) \cup Scheduled
<1>1. /\ deferred \in Seq(Dispatchers) /\ IsInjective(deferred)
      /\ Len(deferred) <= MaxDeferred /\ Waiting = ToSet(deferred)
    BY DEF Process, Waiting
<1>2. PICK eligible : eligible = Among(deferred, {o \in Dispatchers : StoreOf[o] \notin busy})
    OBVIOUS
<1>3. /\ eligible \in Seq(Dispatchers) /\ IsInjective(eligible)
      /\ ToSet(eligible) \subseteq Waiting /\ Len(eligible) \in Nat
    BY <1>1, <1>2, AmongList, ListShape
<1>4. PICK ready : ready = wakeDeferredAvailability(free, busy)
    OBVIOUS
<1>5. ready \in Seq(Dispatchers) /\ IsInjective(ready) /\ ToSet(ready) \subseteq Waiting
  <2>1. CASE free < Len(eligible) /\ free >= 0
    <3>1. free \in 0 .. Len(eligible) /\ ready = SubSeq(eligible, 1, free)
        BY <1>2, <1>3, <1>4, <2>1 DEF wakeDeferredAvailability
    <3> QED
        BY <1>3, <3>1, FirstOfList
  <2>2. CASE free < Len(eligible) /\ free < 0
    <3>1. ready = SubSeq(eligible, 1, free)
        BY <1>2, <1>3, <1>4, <2>2 DEF wakeDeferredAvailability
    <3>2. ready = <<>>
        BY <2>2, <3>1, SubSeqEmpty
    <3> QED
        BY <3>2, EmptyList
  <2>3. CASE ~(free < Len(eligible))
    <3>1. Len(eligible) \in 0 .. Len(eligible) /\ ready = SubSeq(eligible, 1, Len(eligible))
        BY <1>2, <1>3, <1>4, <2>3 DEF wakeDeferredAvailability
    <3> QED
        BY <1>3, <3>1, FirstOfList
  <2> QED
      BY <1>3, <2>1, <2>2, <2>3
<1>6. PICK woken : woken = Among(ready, Dispatchers \ Scheduled)
    OBVIOUS
<1>7. /\ woken \in Seq(Dispatchers) /\ IsInjective(woken)
      /\ ToSet(woken) = ToSet(ready) \cap (Dispatchers \ Scheduled)
    BY <1>5, <1>6, AmongList
<1>8. PICK rest : rest = Among(deferred, Dispatchers \ ToSet(ready))
    OBVIOUS
<1>9. /\ rest \in Seq(Dispatchers) /\ IsInjective(rest) /\ Len(rest) <= Len(deferred)
      /\ ToSet(rest) = Waiting \cap (Dispatchers \ ToSet(ready))
    BY <1>1, <1>8, AmongList
<1>10. Len(rest) <= MaxDeferred
    BY <1>1, <1>9, ListShape, Limits
<1>11. Waiting \subseteq Dispatchers
    BY <1>1, ListShape
<1>12. /\ ToSet(woken) \subseteq Waiting \ Scheduled /\ ToSet(rest) \subseteq Waiting
       /\ Waiting \subseteq ToSet(rest) \cup ToSet(woken) \cup Scheduled
    BY <1>5, <1>7, <1>9, <1>11
<1> QED
    BY <1>4, <1>6, <1>7, <1>8, <1>9, <1>10, <1>12

\* The lists after a drain.
LEMMA EndsLists ==
    ASSUME Process, SlotsMatchDrains, NEW d \in Dispatchers, drain[d] # "none",
           NEW more \in BOOLEAN, endDrain(d, more)
    PROVE  /\ immediates' \in Seq(Dispatchers) /\ IsInjective(immediates')
           /\ deferred' \in Seq(Dispatchers) /\ IsInjective(deferred')
           /\ Len(deferred') <= MaxDeferred
           /\ Waiting' \subseteq Waiting /\ Scheduled \subseteq Scheduled'
           /\ Waiting \subseteq Waiting' \cup Scheduled'
           /\ Scheduled' \subseteq Scheduled \cup Waiting \cup {d}
           /\ closed[d] => d \notin Scheduled'
           /\ (changed[d] \/ more) /\ ~closed[d] => d \in Scheduled'
<1>1. activeDrains \in Nat /\ MaxActive - (activeDrains - 1) \in Int
    BY SlotCount, Limits
<1>2. PICK ready : ready = wakeDeferredAvailability(MaxActive - (activeDrains - 1),
                                                    activeStores \ {StoreOf[d]})
    OBVIOUS
<1>3. PICK woken : woken = Among(ready, Dispatchers \ Scheduled)
    OBVIOUS
<1>4. PICK late : late = rearmed(d, changed[d] \/ more)
    OBVIOUS
<1>5. /\ deferred' = Among(deferred, Dispatchers \ ToSet(ready))
      /\ immediates' = (immediates \o woken) \o late
    BY <1>2, <1>3, <1>4 DEF endDrain
<1>6. /\ woken \in Seq(Dispatchers) /\ IsInjective(woken)
      /\ deferred' \in Seq(Dispatchers) /\ IsInjective(deferred')
      /\ Len(deferred') <= MaxDeferred
      /\ ToSet(woken) \subseteq Waiting \ Scheduled
      /\ Waiting' \subseteq Waiting
      /\ Waiting \subseteq Waiting' \cup ToSet(woken) \cup Scheduled
    BY <1>1, <1>2, <1>3, <1>5, Woken DEF Waiting
<1>7. /\ immediates \in Seq(Dispatchers) /\ IsInjective(immediates) /\ d \notin Waiting
      /\ closed[d] => d \notin Scheduled
    BY DEF Process
<1>8. PICK first : first = immediates \o woken
    OBVIOUS
<1>9. /\ first \in Seq(Dispatchers) /\ ToSet(first) = Scheduled \cup ToSet(woken)
      /\ IsInjective(first)
    BY <1>6, <1>7, <1>8, JoinedList DEF Scheduled
<1>10. CASE (changed[d] \/ more) /\ ~closed[d] /\ d \notin Scheduled
  <2>1. late = <<d>>
      BY <1>4, <1>10 DEF rearmed
  <2>2. late = Append(<<>>, d)
      BY <2>1
  <2>3. late \in Seq(Dispatchers) /\ ToSet(late) = {d} /\ IsInjective(late)
      BY <2>2, EmptyList, AppendList
  <2>4. /\ immediates' \in Seq(Dispatchers) /\ IsInjective(immediates')
        /\ Scheduled' = Scheduled \cup ToSet(woken) \cup {d}
    <3>1. immediates' = first \o late
        BY <1>5, <1>8
    <3>2. ToSet(first) \cap ToSet(late) = {}
        BY <1>6, <1>7, <1>9, <1>10, <2>3
    <3>3. /\ first \o late \in Seq(Dispatchers) /\ IsInjective(first \o late)
          /\ ToSet(first \o late) = ToSet(first) \cup ToSet(late)
        BY <1>9, <2>3, <3>2, JoinedList
    <3> QED
        BY <1>9, <2>3, <3>1, <3>3 DEF Scheduled
  <2> QED
      BY <1>6, <1>10, <2>4
<1>11. CASE ~((changed[d] \/ more) /\ ~closed[d] /\ d \notin Scheduled)
  <2>1. late = <<>>
      BY <1>4, <1>11 DEF rearmed
  <2>2. immediates' = first
      BY <1>5, <1>8, <1>9, <2>1
  <2>3. /\ immediates' \in Seq(Dispatchers) /\ IsInjective(immediates')
        /\ Scheduled' = Scheduled \cup ToSet(woken)
      BY <1>9, <2>2 DEF Scheduled
  <2> QED
      BY <1>6, <1>7, <1>11, <2>3
<1> QED
    BY <1>10, <1>11

LEMMA ReleaseKeepsSlots ==
    ASSUME Process, SlotsMatchDrains, NEW d \in Dispatchers, drain[d] # "none",
           drain' = [drain EXCEPT ![d] = "none"], release(d)
    PROVE  SlotsMatchDrains'
<1>1. drain \in [Dispatchers -> Calls]
    BY DEF Process
<1>2. Draining' = Draining \ {d} /\ d \in Draining
    BY <1>1 DEF Draining
<1>3. activeDrains' = activeDrains - 1 /\ activeStores' = activeStores \ {StoreOf[d]}
    BY DEF release
<1>4. activeDrains' = Cardinality(Draining') /\ activeDrains' <= MaxActive
  <2>1. Cardinality(Draining \ {d}) = Cardinality(Draining) - 1
      BY <1>2, SlotCount, FS_RemoveElement
  <2>2. activeDrains = Cardinality(Draining) /\ activeDrains \in Nat /\ activeDrains <= MaxActive
      BY SlotCount DEF SlotsMatchDrains
  <2> QED
      BY <1>2, <1>3, <2>1, <2>2, Limits
<1>5. activeStores' = {StoreOf[e] : e \in Draining'}
  <2>1. \A e \in Draining : StoreOf[e] = StoreOf[d] => e = d
      BY <1>2 DEF SlotsMatchDrains
  <2> QED
      BY <1>2, <1>3, <2>1 DEF SlotsMatchDrains
<1>6. \A e, f \in Draining' : StoreOf[e] = StoreOf[f] => e = f
    BY <1>2 DEF SlotsMatchDrains
<1> QED
    BY <1>4, <1>5, <1>6 DEF SlotsMatchDrains

\* A drain ends, whatever it met.
LEMMA EndKeeps ==
    ASSUME IInv, NEW d \in Dispatchers, drain[d] # "none", NEW more \in BOOLEAN,
           endDrain(d, more),
           work' \in [Stores -> Nat], UNCHANGED commits, faults' \in 0 .. MaxFaults
    PROVE  IInv'
<1>1. Process /\ Hints /\ SlotsMatchDrains /\ Numbers
    BY DEF IInv
<1>2. /\ drain' = [drain EXCEPT ![d] = "none"] /\ delivered' = [delivered EXCEPT ![d] = 0]
      /\ changed' = [changed EXCEPT ![d] = @ \/ more] /\ UNCHANGED <<started, closed>>
      /\ release(d)
    BY DEF endDrain, owner
<1>3. /\ drain \in [Dispatchers -> Calls] /\ changed \in [Dispatchers -> BOOLEAN]
      /\ closed \in [Dispatchers -> BOOLEAN]
      /\ delivered \in [Dispatchers -> 0 .. MaxBatch + 1]
    BY <1>1 DEF Process, Numbers
<1>4. /\ immediates' \in Seq(Dispatchers) /\ IsInjective(immediates')
      /\ deferred' \in Seq(Dispatchers) /\ IsInjective(deferred')
      /\ Len(deferred') <= MaxDeferred
      /\ Waiting' \subseteq Waiting /\ Scheduled \subseteq Scheduled'
      /\ Waiting \subseteq Waiting' \cup Scheduled'
      /\ Scheduled' \subseteq Scheduled \cup Waiting \cup {d}
      /\ closed[d] => d \notin Scheduled'
      /\ (changed[d] \/ more) /\ ~closed[d] => d \in Scheduled'
    BY <1>1, EndsLists
<1>5. Process'
  <2>1. drain' \in [Dispatchers -> Calls] /\ closed' \in [Dispatchers -> BOOLEAN]
      BY <1>2, <1>3 DEF Calls
  <2>2. changed' \in [Dispatchers -> BOOLEAN]
      BY <1>2, <1>3
  <2>3. \A e \in Dispatchers : /\ drain'[e] # "none" => e \notin Waiting'
                               /\ closed'[e] => e \notin Scheduled' \cup Waiting'
      BY <1>1, <1>2, <1>3, <1>4 DEF Process
  <2> QED
      BY <1>4, <2>1, <2>2, <2>3 DEF Process
<1>6. Hints'
  <2> SUFFICES ASSUME MaxDeferred >= Cardinality(Dispatchers), NEW e \in Dispatchers,
                      changed'[e], ~closed'[e]
               PROVE  drain'[e] # "none" \/ e \in Scheduled' \cup Waiting'
      BY DEF Hints, HeldFor
  <2>1. CASE e = d
    <3>1. changed[d] \/ more
        BY <1>2, <1>3, <2>1
    <3> QED
        BY <1>2, <1>4, <2>1, <3>1
  <2>2. CASE e # d
    <3>1. changed[e] /\ ~closed[e] /\ drain'[e] = drain[e]
        BY <1>2, <1>3, <2>2
    <3>2. drain[e] # "none" \/ e \in Scheduled \cup Waiting
        BY <1>1, <3>1 DEF Hints, HeldFor
    <3> QED
        BY <1>4, <3>1, <3>2
  <2> QED
      BY <2>1, <2>2
<1>7. SlotsMatchDrains'
    BY <1>1, <1>2, ReleaseKeepsSlots
<1>8. Numbers'
  <2>1. delivered' \in [Dispatchers -> 0 .. MaxBatch + 1]
      BY <1>2, <1>3, Limits
  <2>2. \A e \in Dispatchers :
            /\ drain'[e] \in {"claim", "deliver", "empty"} => delivered'[e] < MaxBatch
            /\ drain'[e] = "none" => delivered'[e] = 0
      BY <1>1, <1>2, <1>3 DEF Numbers
  <2> QED
      BY <1>1, <1>2, <2>1, <2>2 DEF Numbers
<1> QED
    BY <1>5, <1>6, <1>7, <1>8 DEF IInv

-----------------------------------------------------------------------------
(* The store calls of a drain.                                             *)

\* The drain goes on with another call: its slot and the hints stay.
LEMMA CallKeeps ==
    ASSUME IInv, NEW d \in Dispatchers, drain[d] # "none", NEW call \in Calls \ {"none"},
           drain' = [drain EXCEPT ![d] = call], UNCHANGED <<owner, hints, slots>>,
           Numbers'
    PROVE  IInv'
<1>1. /\ drain \in [Dispatchers -> Calls] /\ Process /\ Hints /\ SlotsMatchDrains
      /\ UNCHANGED <<closed, changed, immediates, deferred, activeDrains, activeStores>>
    BY DEF IInv, Process, owner, hints, slots
<1>2. /\ drain' \in [Dispatchers -> Calls]
      /\ \A e \in Dispatchers : drain'[e] = "none" <=> drain[e] = "none"
    BY <1>1
<1>3. Process'
    BY <1>1, <1>2 DEF Process, Waiting, Scheduled
<1>4. Hints'
    BY <1>1, <1>2 DEF Hints, HeldFor, Scheduled, Waiting
<1>5. Draining' = Draining
    BY <1>2 DEF Draining
<1>6. SlotsMatchDrains'
    BY <1>1, <1>5 DEF SlotsMatchDrains
<1> QED
    BY <1>3, <1>4, <1>6 DEF IInv

\* Work given back to the store, or taken from it.
LEMMA WorkKept ==
    ASSUME Numbers, NEW s \in Stores,
           \/ work' = [work EXCEPT ![s] = @ + 1]
           \/ work[s] > 0 /\ work' = [work EXCEPT ![s] = @ - 1]
    PROVE  work' \in [Stores -> Nat]
<1>1. work \in [Stores -> Nat] /\ work[s] \in Nat
    BY DEF Numbers
<1>2. CASE work' = [work EXCEPT ![s] = @ + 1]
    BY <1>1, <1>2
<1>3. CASE work[s] > 0 /\ work' = [work EXCEPT ![s] = @ - 1]
  <2>1. work[s] - 1 \in Nat
      BY <1>1, <1>3
  <2> QED
      BY <1>1, <1>3, <2>1
<1> QED
    BY <1>2, <1>3

LEMMA ClaimKeeps ==
    ASSUME IInv, NEW d \in Dispatchers, claimEvaluated(d)
    PROVE  IInv'
<1>1. /\ drain[d] = "claim" /\ drain \in [Dispatchers -> Calls] /\ Numbers
      /\ StoreOf[d] \in Stores /\ UNCHANGED <<delivered, owner, hints, slots, commits, faults>>
    BY Limits DEF claimEvaluated, IInv, Process
<1>2. PICK call \in {"deliver", "empty"} : drain' = [drain EXCEPT ![d] = call]
    BY DEF claimEvaluated
<1>3. work' \in [Stores -> Nat]
  <2>1. CASE UNCHANGED work
      BY <1>1, <2>1 DEF Numbers
  <2>2. CASE work[StoreOf[d]] > 0 /\ work' = [work EXCEPT ![StoreOf[d]] = @ - 1]
      BY <1>1, <2>2, WorkKept
  <2> QED
      BY <2>1, <2>2 DEF claimEvaluated
<1>4. Numbers'
    BY <1>1, <1>2, <1>3 DEF Numbers, owner
<1>5. call \in Calls \ {"none"} /\ drain[d] # "none"
    BY <1>1 DEF Calls
<1> QED
    BY <1>1, <1>2, <1>4, <1>5, CallKeeps

LEMMA PublishedKeeps ==
    ASSUME IInv, NEW d \in Dispatchers, NEW n \in 1 .. 2, publishedEvents(d, n)
    PROVE  IInv'
<1>1. /\ drain[d] = "deliver" /\ drain \in [Dispatchers -> Calls] /\ Numbers
      /\ drain' = [drain EXCEPT ![d] = "acknowledge"]
      /\ delivered' = [delivered EXCEPT ![d] = @ + n]
      /\ UNCHANGED <<owner, hints, slots, stored>>
    BY DEF publishedEvents, IInv, Process
<1>2. delivered \in [Dispatchers -> 0 .. MaxBatch + 1] /\ delivered[d] < MaxBatch
    BY <1>1 DEF Numbers
<1>3. delivered[d] + n \in 0 .. MaxBatch + 1
    BY <1>2, Limits
<1>4. delivered' \in [Dispatchers -> 0 .. MaxBatch + 1]
    BY <1>1, <1>2, <1>3
<1>5. \A e \in Dispatchers :
          /\ drain'[e] \in {"claim", "deliver", "empty"} => delivered'[e] < MaxBatch
          /\ drain'[e] = "none" => delivered'[e] = 0
    BY <1>1, <1>2 DEF Numbers
<1>6. Numbers'
    BY <1>1, <1>4, <1>5 DEF Numbers, owner, stored
<1>7. "acknowledge" \in Calls \ {"none"} /\ drain[d] # "none"
    BY <1>1 DEF Calls
<1> QED
    BY <1>1, <1>6, <1>7, CallKeeps

LEMMA AcknowledgedKeeps ==
    ASSUME IInv, NEW d \in Dispatchers, acknowledged(d)
    PROVE  IInv'
<1>1. /\ drain[d] = "acknowledge" /\ drain \in [Dispatchers -> Calls] /\ Numbers
      /\ UNCHANGED stored
    BY DEF acknowledged, IInv, Process
<1>2. /\ work' \in [Stores -> Nat] /\ UNCHANGED commits /\ faults' \in 0 .. MaxFaults
    BY <1>1 DEF Numbers, stored
<1>3. CASE endDrain(d, TRUE) \/ endDrain(d, FALSE)
    BY <1>1, <1>2, <1>3, EndKeeps
<1>4. CASE /\ delivered[d] < MaxBatch /\ drain' = [drain EXCEPT ![d] = "claim"]
           /\ UNCHANGED <<delivered, owner, hints, slots>>
  <2>1. Numbers'
      BY <1>1, <1>4 DEF Numbers, owner, stored
  <2>2. "claim" \in Calls \ {"none"} /\ drain[d] # "none"
      BY <1>1 DEF Calls
  <2> QED
      BY <1>4, <2>1, <2>2, CallKeeps
<1> QED
    BY <1>3, <1>4 DEF acknowledged

LEMMA EndingKeeps ==
    ASSUME IInv, NEW d \in Dispatchers,
           nothingClaimed(d) \/ abandonClaim(d) \/ claimFails(d) \/ retryAnswered(d)
    PROVE  IInv'
<1>1. Numbers /\ StoreOf[d] \in Stores
    BY Limits DEF IInv
<1>2. drain[d] # "none" /\ endDrain(d, FALSE) /\ UNCHANGED commits
    BY DEF nothingClaimed, abandonClaim, claimFails, retryAnswered, stored
<1>3. work' \in [Stores -> Nat]
  <2>1. CASE UNCHANGED work
      BY <1>1, <2>1 DEF Numbers
  <2>2. CASE work' = [work EXCEPT ![StoreOf[d]] = @ + 1]
      BY <1>1, <2>2, WorkKept
  <2> QED
      BY <2>1, <2>2 DEF nothingClaimed, abandonClaim, claimFails, retryAnswered, stored
<1>4. faults' \in 0 .. MaxFaults
  <2>1. CASE UNCHANGED faults
      BY <1>1, <2>1 DEF Numbers
  <2>2. CASE faults < MaxFaults /\ faults' = faults + 1
      BY <1>1, <2>2, Limits DEF Numbers
  <2> QED
      BY <2>1, <2>2 DEF nothingClaimed, abandonClaim, claimFails, retryAnswered, stored
<1> QED
    BY <1>2, <1>3, <1>4, EndKeeps

LEMMA DeliveryFailsKeeps ==
    ASSUME IInv, NEW d \in Dispatchers, deliveryFails(d)
    PROVE  IInv'
<1>1. /\ drain[d] # "none" /\ drain \in [Dispatchers -> Calls] /\ Numbers
      /\ StoreOf[d] \in Stores /\ UNCHANGED commits
    BY Limits DEF deliveryFails, IInv, Process
<1>2. faults' \in 0 .. MaxFaults
    BY <1>1, Limits DEF deliveryFails, Numbers
<1>3. CASE /\ drain' = [drain EXCEPT ![d] = "retry"]
           /\ UNCHANGED <<work, delivered, owner, hints, slots>>
  <2>1. Numbers'
      BY <1>1, <1>2, <1>3 DEF Numbers, owner
  <2>2. "retry" \in Calls \ {"none"}
      BY DEF Calls
  <2> QED
      BY <1>1, <1>3, <2>1, <2>2, CallKeeps
<1>4. CASE work' = [work EXCEPT ![StoreOf[d]] = @ + 1] /\ endDrain(d, FALSE)
  <2>1. work' \in [Stores -> Nat]
      BY <1>1, <1>4, WorkKept
  <2> QED
      BY <1>1, <1>2, <1>4, <2>1, EndKeeps
<1> QED
    BY <1>3, <1>4 DEF deliveryFails

-----------------------------------------------------------------------------
(* Hints, commits and closing.                                             *)

LEMMA NotifyKeeps ==
    ASSUME IInv, NEW d \in Dispatchers, notifyAvailability(d)
    PROVE  IInv'
<1>1. /\ ~closed[d] /\ changed' = [changed EXCEPT ![d] = TRUE]
      /\ UNCHANGED <<drain, delivered, started, closed, deferred, activeDrains, activeStores,
                     work, commits, faults>>
    BY DEF notifyAvailability, owner, slots, stored
<1>2. Process /\ Hints /\ changed \in [Dispatchers -> BOOLEAN] /\ immediates \in Seq(Dispatchers)
    BY DEF IInv, Process
<1>3. /\ immediates' \in Seq(Dispatchers) /\ IsInjective(immediates')
      /\ Scheduled \subseteq Scheduled' /\ Scheduled' \subseteq Scheduled \cup {d}
      /\ drain[d] # "none" \/ d \in Scheduled' \cup Waiting
  <2>1. CASE d \in Waiting \cup Scheduled \/ drain[d] # "none"
    <3>1. immediates' = immediates
        BY <2>1 DEF notifyAvailability
    <3> QED
        BY <1>2, <2>1, <3>1 DEF Process, Scheduled
  <2>2. CASE d \notin Waiting \cup Scheduled /\ drain[d] = "none"
    <3>1. immediates' = Append(immediates, d)
        BY <2>2 DEF notifyAvailability
    <3> QED
        BY <1>2, <2>2, <3>1, AppendList DEF Process, Scheduled
  <2> QED
      BY <2>1, <2>2
<1>4. Waiting' = Waiting /\ Draining' = Draining
    BY <1>1 DEF Waiting, Draining
<1>5. Process'
  <2>1. changed' \in [Dispatchers -> BOOLEAN]
      BY <1>1, <1>2
  <2>2. \A e \in Dispatchers : /\ drain'[e] # "none" => e \notin Waiting'
                               /\ closed'[e] => e \notin Scheduled' \cup Waiting'
      BY <1>1, <1>2, <1>3, <1>4 DEF Process
  <2> QED
      BY <1>1, <1>2, <1>3, <2>1, <2>2 DEF Process
<1>6. Hints'
    BY <1>1, <1>2, <1>3, <1>4 DEF Hints, HeldFor
<1>7. SlotsMatchDrains'
    BY <1>1, <1>4 DEF IInv, SlotsMatchDrains
<1>8. Numbers'
    BY <1>1 DEF IInv, Numbers
<1> QED
    BY <1>5, <1>6, <1>7, <1>8 DEF IInv

LEMMA CommitKeeps ==
    ASSUME IInv, NEW s \in Stores, commit(s)
    PROVE  IInv'
<1>1. UNCHANGED <<drain, delivered, started, closed, changed, immediates, deferred,
                  activeDrains, activeStores, faults>>
    BY DEF commit, owner, hints, slots
<1>2. Process' /\ Hints' /\ SlotsMatchDrains'
    BY <1>1 DEF IInv, Process, Hints, HeldFor, SlotsMatchDrains, Draining, Waiting, Scheduled
<1>3. work' \in [Stores -> Nat] /\ commits' \in [Stores -> Nat]
  <2>1. work \in [Stores -> Nat] /\ commits \in [Stores -> Nat]
      BY DEF IInv, Numbers
  <2> QED
      BY <2>1 DEF commit
<1>4. Numbers'
    BY <1>1, <1>3 DEF IInv, Numbers
<1> QED
    BY <1>2, <1>4 DEF IInv

LEMMA CloseKeeps ==
    ASSUME IInv, NEW d \in Dispatchers, close(d)
    PROVE  IInv'
<1>1. /\ closed' = [closed EXCEPT ![d] = TRUE] /\ started' = [started EXCEPT ![d] = FALSE]
      /\ changed' = [changed EXCEPT ![d] = FALSE]
      /\ UNCHANGED <<drain, delivered, activeDrains, activeStores, work, commits, faults>>
    BY DEF close, slots, stored
<1>2. /\ closed \in [Dispatchers -> BOOLEAN] /\ changed \in [Dispatchers -> BOOLEAN]
      /\ started \in [Dispatchers -> BOOLEAN] /\ Process /\ Hints /\ Numbers
    BY DEF IInv, Process, Numbers
<1>3. /\ immediates' \in Seq(Dispatchers) /\ IsInjective(immediates')
      /\ Scheduled' = Scheduled \ {d}
    BY <1>2, WithoutList DEF close, Process, Scheduled
<1>4. /\ deferred' \in Seq(Dispatchers) /\ IsInjective(deferred')
      /\ Len(deferred') <= Len(deferred) /\ Waiting' = Waiting \ {d}
    BY <1>2, WithoutList DEF close, Process, Waiting
<1>5. Len(deferred') <= MaxDeferred
  <2>1. Len(deferred) \in Nat /\ Len(deferred') \in Nat /\ Len(deferred) <= MaxDeferred
      BY <1>2, <1>4, ListShape DEF Process
  <2> QED
      BY <1>4, <2>1, Limits
<1>6. Process'
  <2>1. /\ closed' \in [Dispatchers -> BOOLEAN] /\ changed' \in [Dispatchers -> BOOLEAN]
        /\ drain' \in [Dispatchers -> Calls]
      BY <1>1, <1>2 DEF Process
  <2>2. \A e \in Dispatchers : /\ drain'[e] # "none" => e \notin Waiting'
                               /\ closed'[e] => e \notin Scheduled' \cup Waiting'
      BY <1>1, <1>2, <1>3, <1>4 DEF Process
  <2> QED
      BY <1>3, <1>4, <1>5, <2>1, <2>2 DEF Process
<1>7. Hints'
    BY <1>1, <1>2, <1>3, <1>4 DEF Hints, HeldFor
<1>8. SlotsMatchDrains'
    BY <1>1 DEF IInv, SlotsMatchDrains, Draining
<1>9. Numbers'
    BY <1>1, <1>2 DEF Numbers
<1> QED
    BY <1>6, <1>7, <1>8, <1>9 DEF IInv

LEMMA StutterKeeps ==
    ASSUME IInv, UNCHANGED vars
    PROVE  IInv'
BY DEF IInv, Process, Hints, HeldFor, SlotsMatchDrains, Draining, Numbers, Waiting, Scheduled,
       vars, owner, hints, slots, stored

-----------------------------------------------------------------------------
(* The invariant.                                                          *)

LEMMA InvariantInit == Init => IInv
<1> SUFFICES ASSUME Init PROVE IInv
    OBVIOUS
<1>1. Process
  <2>1. Waiting = {} /\ Scheduled = {}
      BY EmptyList DEF Init, Waiting, Scheduled
  <2> QED
      BY <2>1, EmptyList, Limits DEF Init, Process, Calls
<1>2. Hints
    BY DEF Init, Hints, HeldFor
<1>3. Draining = {}
    BY DEF Init, Draining
<1>4. SlotsMatchDrains
    BY <1>3, FS_EmptySet, Limits DEF Init, SlotsMatchDrains
<1>5. Numbers
    BY Limits DEF Init, Numbers
<1> QED
    BY <1>1, <1>2, <1>4, <1>5 DEF IInv

LEMMA DispatcherKeeps ==
    ASSUME IInv, NEW d \in Dispatchers,
           \/ start(d) \/ scan(d) \/ commitAndWake(d)
           \/ notifyAvailability(d) \/ availabilityWake(d)
           \/ drainStep(d) \/ claimFails(d) \/ deliveryFails(d)
           \/ close(d)
    PROVE  IInv'
<1>1. CASE drainStep(d) \/ claimFails(d)
    BY <1>1, ClaimKeeps, EndingKeeps, PublishedKeeps, AcknowledgedKeeps DEF drainStep
<1> QED
    BY <1>1, StartKeeps, CommitAndWakeKeeps, NotifyKeeps, AvailabilityWakeKeeps,
       DeliveryFailsKeeps, CloseKeeps

LEMMA InvariantNext == IInv /\ [Next]_vars => IInv'
    BY DispatcherKeeps, CommitKeeps, StutterKeeps DEF Next

LEMMA Invariance == Spec => []IInv
    BY InvariantInit, InvariantNext, PTL DEF Spec

-----------------------------------------------------------------------------
(* The theorems.                                                           *)

\* The lists, counters and flags of the process keep their shapes; a dispatcher
\* has one immediate at most and waits once.
THEOREM TypeCorrect == Spec => []TypeOK
<1>1. ASSUME IInv
      PROVE  TypeOK
  <2>1. activeStores \subseteq Stores
      BY <1>1, Limits DEF IInv, SlotsMatchDrains, Draining
  <2>2. activeDrains \in Nat
      BY <1>1, SlotCount DEF IInv
  <2> QED
      BY <1>1, <2>1, <2>2 DEF IInv, Process, Numbers, TypeOK
<1> QED
    BY <1>1, Invariance, PTL

\* The module-wide slots are those of the drains in flight, closed and replaced
\* dispatchers included: none leaks, none is used twice, no store is drained twice.
THEOREM SlotsAreDrains == Spec => []SlotsMatchDrains
<1>1. IInv => SlotsMatchDrains
    BY DEF IInv
<1> QED
    BY <1>1, Invariance, PTL

\* A hint of availability reaches a drain, an immediate or the waiting list, and
\* is not lost between them, when the list has room for everyone.
THEOREM HintsAreHeld == Spec => []HintIsHeld
<1>1. IInv => HintIsHeld
    BY DEF IInv, Hints, HeldFor, HintIsHeld
<1> QED
    BY <1>1, Invariance, PTL

\* Only an open dispatcher is woken.
LEMMA WokenIsOpen ==
    ASSUME IInv, NEW d \in Dispatchers, availabilityWake(d)
    PROVE  ~closed[d]
<1>1. immediates \in Seq(Dispatchers) /\ immediates # <<>> /\ Head(immediates) = d
    BY DEF availabilityWake, IInv, Process
<1>2. d \in Scheduled
    BY <1>1, TailList DEF Scheduled
<1> QED
    BY <1>2 DEF IInv, Process

\* A step of dispatcher d makes a call for d only, and only while it is open.
LEMMA CallsWhileOpen ==
    ASSUME IInv, NEW d \in Dispatchers, NEW e \in Dispatchers, closed[e],
           drain'[e] \in {"claim", "acknowledge", "retry"},
           \/ start(d) \/ scan(d) \/ commitAndWake(d)
           \/ notifyAvailability(d) \/ availabilityWake(d)
           \/ drainStep(d) \/ claimFails(d) \/ deliveryFails(d)
           \/ close(d)
    PROVE  drain'[e] = drain[e]
<1>1. drain \in [Dispatchers -> Calls]
    BY DEF IInv, Process
<1>2. CASE ~closed[d] /\ \E rest : wake(d, rest)
  <2>1. drain' = drain \/ drain' = [drain EXCEPT ![d] = "claim"]
      BY <1>2 DEF wake, Defer, Admit
  <2> QED
      BY <1>1, <1>2, <2>1
<1>3. CASE \E more \in BOOLEAN : endDrain(d, more)
  <2>1. drain' = [drain EXCEPT ![d] = "none"]
      BY <1>3 DEF endDrain
  <2> QED
      BY <1>1, <2>1
<1>4. CASE UNCHANGED drain
    BY <1>4
<1>5. CASE \E call \in Calls :
              /\ drain' = [drain EXCEPT ![d] = call]
              /\ call \in {"deliver", "empty"} \/ ~closed[d]
    BY <1>1, <1>5
<1>6. CASE start(d) \/ scan(d) \/ commitAndWake(d)
    BY <1>2, <1>6 DEF start, scan, commitAndWake
<1>7. CASE availabilityWake(d)
    BY <1>2, <1>4, <1>7, WokenIsOpen DEF availabilityWake
<1>8. CASE notifyAvailability(d) \/ close(d)
    BY <1>4, <1>8 DEF notifyAvailability, close
<1>9. CASE nothingClaimed(d) \/ abandonClaim(d) \/ retryAnswered(d) \/ claimFails(d)
    BY <1>3, <1>9 DEF nothingClaimed, abandonClaim, retryAnswered, claimFails
<1>10. CASE claimEvaluated(d) \/ \E n \in 1 .. 2 : publishedEvents(d, n)
    BY <1>5, <1>10 DEF claimEvaluated, publishedEvents, Calls
<1>11. CASE acknowledged(d)
    BY <1>3, <1>5, <1>11 DEF acknowledged, mayClaimNext, Calls
<1>12. CASE deliveryFails(d)
    BY <1>3, <1>5, <1>12 DEF deliveryFails, Calls
<1> QED
    BY <1>6, <1>7, <1>8, <1>9, <1>10, <1>11, <1>12 DEF drainStep

\* After close() the dispatcher begins no call to the store, whatever answers
\* arrive and whoever hands on a slot.
THEOREM ClosedIsQuiet == Spec => QuietAfterClose
<1>1. ASSUME IInv, [Next]_vars, NEW e \in Dispatchers, closed[e],
             drain'[e] \in {"claim", "acknowledge", "retry"}
      PROVE  drain'[e] = drain[e]
  <2>1. CASE \E s \in Stores : commit(s)
      BY <2>1 DEF commit
  <2>2. CASE UNCHANGED vars
      BY <2>2 DEF vars
  <2> QED
      BY <1>1, <2>1, <2>2, CallsWhileOpen DEF Next
<1>2. IInv /\ [Next]_vars =>
          [\A d \in Dispatchers :
              closed[d] /\ drain'[d] \in {"claim", "acknowledge", "retry"} =>
                  drain'[d] = drain[d]]_vars
    BY <1>1
<1> QED
    BY <1>2, Invariance, PTL DEF Spec, QuietAfterClose

=============================================================================
