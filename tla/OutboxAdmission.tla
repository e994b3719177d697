--------------------------- MODULE OutboxAdmission ---------------------------
(***************************************************************************)
(* When an outbox dispatcher may drain.  A process holds several           *)
(* dispatchers; each belongs to a store and drains it in bounded batches.  *)
(* A drain starts from a wake: the scan timer, a request that committed    *)
(* something, or a hint that another process did.  At most MaxActive       *)
(* drains run at a time and at most one per store, counting those whose    *)
(* dispatcher was closed while a store call was still unanswered.  A hint  *)
(* that meets a full house is kept in a waiting list, and the end of a     *)
(* drain hands its slot on.                                                *)
(*                                                                         *)
(* A drain is its store calls: claim a message, deliver it, acknowledge    *)
(* it.  What delivery does is EventDelivery's subject; here a message that *)
(* is not acknowledged is available again.                                 *)
(***************************************************************************)
EXTENDS Naturals, SequencesExt

CONSTANTS
    Dispatchers,    \* OutboxDispatcher objects of the process
    Stores,         \* run stores
    StoreOf,        \* the store of each dispatcher
    MaxActive,      \* MAX_ACTIVE_DRAINS
    MaxDeferred,    \* MAX_DEFERRED_AVAILABILITY_OWNERS
    MaxBatch,       \* maxBatchSize
    MaxCommits,     \* bound: messages committed to each store
    MaxFaults       \* bound: failed store calls and deliveries

ASSUME StoreAssumption == StoreOf \in [Dispatchers -> Stores]
ASSUME LimitAssumption ==
    /\ MaxActive \in Nat \ {0} /\ MaxBatch \in Nat \ {0}
    /\ MaxDeferred \in Nat
ASSUME DispatcherAssumption == IsFiniteSet(Dispatchers)
ASSUME BoundAssumption == MaxCommits \in Nat /\ MaxFaults \in Nat

VARIABLES
    drain,          \* per dispatcher: the store call its drain waits for, if any
    delivered,      \* per dispatcher: publishedEvents of this drain
    started,        \* per dispatcher: its scan timer is armed
    closed,         \* per dispatcher: close() was called
    changed,        \* per dispatcher: availabilityChanged, the dirty bit
    immediates,     \* scheduled availability wakes, in the order they will run
    deferred,       \* deferredAvailability, in the order of the Map
    activeDrains,   \* slots taken
    activeStores,   \* stores being drained
    work,           \* per store: messages that can be claimed
    commits,        \* per store: messages committed so far
    faults          \* faults so far

owner == <<started, closed>>
hints == <<changed, immediates, deferred>>
slots == <<activeDrains, activeStores>>
stored == <<work, commits, faults>>
vars == <<drain, delivered, owner, hints, slots, stored>>

Calls == {"none", "claim", "deliver", "empty", "acknowledge", "retry"}

Init ==
    /\ drain = [d \in Dispatchers |-> "none"]
    /\ delivered = [d \in Dispatchers |-> 0]
    /\ started = [d \in Dispatchers |-> FALSE]
    /\ closed = [d \in Dispatchers |-> FALSE]
    /\ changed = [d \in Dispatchers |-> FALSE]
    /\ immediates = <<>>
    /\ deferred = <<>>
    /\ activeDrains = 0
    /\ activeStores = {}
    /\ work = [s \in Stores |-> 0]
    /\ commits = [s \in Stores |-> 0]
    /\ faults = 0

-----------------------------------------------------------------------------
\* Waking

Waiting == ToSet(deferred)
Scheduled == ToSet(immediates)

\* The members of a list that are in a set, in the order of the list.
Among(list, set) ==
    LET first[n \in 0 .. Len(list)] ==
            IF n = 0 THEN <<>>
            ELSE IF list[n] \in set THEN Append(first[n - 1], list[n])
            ELSE first[n - 1]
    IN  first[Len(list)]

\* clearImmediate, and deletion from the waiting list.
Without(list, d) == Among(list, Dispatchers \ {d})

\* A closed owner's unanswered call keeps its slot and its store.
isBlockedBySlots(d) == activeDrains >= MaxActive
isBlocked(d) == activeDrains >= MaxActive \/ StoreOf[d] \in activeStores

\* A blocked wake that carries a hint waits for a slot, if the list has room.
DeferAgain(d) ==
    /\ deferred' = IF changed[d] /\ Len(deferred) < MaxDeferred
                     THEN Append(deferred, d)
                     ELSE deferred
    /\ UNCHANGED <<drain, delivered, changed, slots>>
Defer(d) ==
    /\ deferred' = IF changed[d] /\ d \notin Waiting /\ Len(deferred) < MaxDeferred
                     THEN Append(deferred, d)
                     ELSE deferred
    /\ UNCHANGED <<drain, delivered, changed, slots>>

Admit(d) ==
    /\ activeDrains' = activeDrains + 1
    /\ activeStores' = activeStores \cup {StoreOf[d]}
    /\ drain' = [drain EXCEPT ![d] = "claim"]
    /\ changed' = [changed EXCEPT ![d] = FALSE]
    /\ deferred' = Without(deferred, d)
    /\ UNCHANGED delivered

\* wake() of an open dispatcher, with the immediates that remain unless the
\* drain is admitted, which clears its own.
wake(d, remaining) ==
    \/ /\ drain[d] # "none"
       /\ immediates' = remaining
       /\ UNCHANGED <<drain, delivered, changed, deferred, slots>>
    \/ /\ drain[d] = "none" /\ isBlocked(d)
       /\ immediates' = remaining
       /\ Defer(d)
    \/ /\ drain[d] = "none" /\ ~isBlocked(d)
       /\ Admit(d)
       /\ immediates' = Without(remaining, d)

start(d) ==
    /\ ~closed[d] /\ ~started[d]
    /\ started' = [started EXCEPT ![d] = TRUE]
    /\ wake(d, immediates)
    /\ UNCHANGED <<closed, stored>>

scan(d) ==
    /\ started[d] /\ ~closed[d]
    /\ wake(d, immediates)
    /\ UNCHANGED <<owner, stored>>

\* Another process commits: nobody here knows before a scan or a hint.
commit(s) ==
    /\ commits[s] < MaxCommits
    /\ commits' = [commits EXCEPT ![s] = @ + 1]
    /\ work' = [work EXCEPT ![s] = @ + 1]
    /\ UNCHANGED <<drain, delivered, owner, hints, slots, faults>>

\* A request commits and wakes the dispatcher (wakeOutbox).
commitAndWake(d) ==
    /\ ~closed[d]
    /\ commits[StoreOf[d]] < MaxCommits
    /\ commits' = [commits EXCEPT ![StoreOf[d]] = @ + 1]
    /\ work' = [work EXCEPT ![StoreOf[d]] = @ + 1]
    /\ wake(d, immediates)
    /\ UNCHANGED <<owner, faults>>

\* The database file changed: a hint, right or wrong.
notifyAvailability(d) ==
    /\ ~closed[d]
    /\ changed' = [changed EXCEPT ![d] = TRUE]
    /\ immediates' = IF d \in Waiting \cup Scheduled \/ drain[d] # "none"
                       THEN immediates
                       ELSE Append(immediates, d)
    /\ UNCHANGED <<drain, delivered, owner, deferred, slots, stored>>

availabilityWake(d) ==
    /\ immediates # <<>> /\ Head(immediates) = d
    /\ \/ changed[d] /\ wake(d, Tail(immediates))
       \/ /\ ~changed[d]
          /\ immediates' = Tail(immediates)
          /\ UNCHANGED <<drain, delivered, changed, deferred, slots>>
    /\ UNCHANGED <<owner, stored>>

-----------------------------------------------------------------------------
\* Draining

\* The first owners of the list that have a free store, one per free slot.
wakeDeferredAvailability(free, busy) ==
    LET eligible == Among(deferred, {o \in Dispatchers : StoreOf[o] \notin busy}) IN
    SubSeq(eligible, 1, IF free < Len(eligible) THEN free ELSE Len(eligible))

\* scheduleAvailabilityWake at the end of a drain: a hint that came meanwhile
\* found the drain in flight and left only its dirty bit.
rearmedNever(d, dirty) == <<>>
rearmed(d, dirty) ==
    IF dirty /\ ~closed[d] /\ d \notin Scheduled THEN <<d>> ELSE <<>>

\* The slot and the store are given back also when the owner is closed by now.
releaseIfOpen(d) ==
    /\ activeDrains' = IF closed[d] THEN activeDrains ELSE activeDrains - 1
    /\ activeStores' = activeStores \ {StoreOf[d]}
release(d) ==
    /\ activeDrains' = activeDrains - 1
    /\ activeStores' = activeStores \ {StoreOf[d]}

\* drainSafely and clear: `more' says that the batch was full.
endDrain(d, more) ==
    LET busy == activeStores \ {StoreOf[d]}
        ready == wakeDeferredAvailability(MaxActive - (activeDrains - 1), busy)
        woken == Among(ready, Dispatchers \ Scheduled)
    IN  /\ drain' = [drain EXCEPT ![d] = "none"]
        /\ delivered' = [delivered EXCEPT ![d] = 0]
        /\ release(d)
        /\ changed' = [changed EXCEPT ![d] = @ \/ more]
        /\ deferred' = Among(deferred, Dispatchers \ ToSet(ready))
        /\ immediates' = immediates \o woken \o rearmed(d, changed[d] \/ more)
        /\ UNCHANGED owner

\* The store evaluates the claim; the answer is still on its way.
claimEvaluated(d) ==
    LET s == StoreOf[d] IN
    /\ drain[d] = "claim"
    /\ \/ /\ work[s] > 0
          /\ work' = [work EXCEPT ![s] = @ - 1]
          /\ drain' = [drain EXCEPT ![d] = "deliver"]
       \/ /\ work[s] = 0
          /\ drain' = [drain EXCEPT ![d] = "empty"]
          /\ UNCHANGED work
    /\ UNCHANGED <<delivered, owner, hints, slots, commits, faults>>

nothingClaimed(d) ==
    /\ drain[d] = "empty"
    /\ endDrain(d, FALSE)
    /\ UNCHANGED stored

\* The n events of the message are published and, unless the dispatcher was
\* closed, it is acknowledged.
publishedEvents(d, n) ==
    /\ drain[d] = "deliver" /\ ~closed[d]
    /\ drain' = [drain EXCEPT ![d] = "acknowledge"]
    /\ delivered' = [delivered EXCEPT ![d] = @ + n]
    /\ UNCHANGED <<owner, hints, slots, stored>>

\* A claim of a closed dispatcher is left to the expiry of its lease.
abandonClaim(d) ==
    /\ drain[d] = "deliver" /\ closed[d]
    /\ work' = [work EXCEPT ![StoreOf[d]] = @ + 1]
    /\ endDrain(d, FALSE)
    /\ UNCHANGED <<commits, faults>>

mayClaimNextAnyway(d) == TRUE
mayClaimNext(d) == ~closed[d]

\* Every message has an event, so the budget of events is spent no later than
\* that of messages.
acknowledged(d) ==
    /\ drain[d] = "acknowledge"
    /\ \/ /\ delivered[d] >= MaxBatch
          /\ endDrain(d, TRUE)
       \/ /\ delivered[d] < MaxBatch /\ mayClaimNext(d)
          /\ drain' = [drain EXCEPT ![d] = "claim"]
          /\ UNCHANGED <<delivered, owner, hints, slots>>
       \/ /\ delivered[d] < MaxBatch /\ ~mayClaimNext(d)
          /\ endDrain(d, FALSE)
    /\ UNCHANGED stored

\* A claim fails: the drain ends.
claimFails(d) ==
    /\ drain[d] \in {"claim", "empty"}
    /\ faults < MaxFaults /\ faults' = faults + 1
    /\ endDrain(d, FALSE)
    /\ UNCHANGED <<work, commits>>

\* The delivery or the acknowledgement fails: the message is retried later, by
\* a call of its own or, when the dispatcher is closed, by its lease's expiry.
deliveryFails(d) ==
    /\ drain[d] \in {"deliver", "acknowledge"}
    /\ faults < MaxFaults /\ faults' = faults + 1
    /\ \/ /\ ~closed[d]
          /\ drain' = [drain EXCEPT ![d] = "retry"]
          /\ UNCHANGED <<work, delivered, owner, hints, slots>>
       \/ /\ closed[d]
          /\ work' = [work EXCEPT ![StoreOf[d]] = @ + 1]
          /\ endDrain(d, FALSE)
    /\ UNCHANGED commits

retryAnswered(d) ==
    /\ drain[d] = "retry"
    /\ work' = [work EXCEPT ![StoreOf[d]] = @ + 1]
    /\ endDrain(d, FALSE)
    /\ UNCHANGED <<commits, faults>>

-----------------------------------------------------------------------------
\* Closing

\* The promise resolves when the drain settles or a grace period is over;
\* the drain that is left behind keeps its slot.
close(d) ==
    /\ ~closed[d]
    /\ closed' = [closed EXCEPT ![d] = TRUE]
    /\ started' = [started EXCEPT ![d] = FALSE]
    /\ deferred' = Without(deferred, d)
    /\ changed' = [changed EXCEPT ![d] = FALSE]
    /\ immediates' = Without(immediates, d)
    /\ UNCHANGED <<drain, delivered, slots, stored>>

-----------------------------------------------------------------------------
drainStep(d) ==
    \/ claimEvaluated(d) \/ nothingClaimed(d)
    \/ \E n \in 1 .. 2 : publishedEvents(d, n)
    \/ abandonClaim(d) \/ acknowledged(d) \/ retryAnswered(d)

Next ==
    \/ \E s \in Stores : commit(s)
    \/ \E d \in Dispatchers :
          \/ start(d) \/ scan(d) \/ commitAndWake(d)
          \/ notifyAvailability(d) \/ availabilityWake(d)
          \/ drainStep(d) \/ claimFails(d) \/ deliveryFails(d)
          \/ close(d)

Spec == Init /\ [][Next]_vars

\* Immediates run, store calls are answered, and the scan timer does not always
\* fire just when the slots are taken.
freeScan(d) == drain[d] = "none" /\ ~isBlocked(d) /\ scan(d)

Of(s) == {d \in Dispatchers : StoreOf[d] = s}

Fairness ==
    /\ WF_vars(\E d \in Dispatchers : availabilityWake(d))
    /\ \A s \in Stores : /\ WF_vars(\E d \in Of(s) : drainStep(d))
                        /\ SF_vars(\E d \in Of(s) : freeScan(d))

FairSpec == Spec /\ Fairness

-----------------------------------------------------------------------------
\* The shapes of the process state; an owner has one immediate and waits once.
TypeOK ==
    /\ drain \in [Dispatchers -> Calls]
    /\ delivered \in [Dispatchers -> 0 .. MaxBatch + 1]
    /\ started \in [Dispatchers -> BOOLEAN]
    /\ closed \in [Dispatchers -> BOOLEAN]
    /\ changed \in [Dispatchers -> BOOLEAN]
    /\ immediates \in Seq(Dispatchers) /\ IsInjective(immediates)
    /\ deferred \in Seq(Dispatchers) /\ IsInjective(deferred)
    /\ Len(deferred) <= MaxDeferred
    /\ activeDrains \in Nat
    /\ activeStores \in SUBSET Stores
    /\ work \in [Stores -> Nat] /\ commits \in [Stores -> Nat]
    /\ faults \in 0 .. MaxFaults

Draining == {d \in Dispatchers : drain[d] # "none"}

\* The slots and stores in use are exactly those of the drains in flight, also
\* of dispatchers that were closed and replaced meanwhile: no more than
\* MaxActive drains, never two on one store, and no slot leaks (wake, clear).
SlotsMatchDrains ==
    /\ activeDrains = Cardinality(Draining)
    /\ activeDrains <= MaxActive
    /\ activeStores = {StoreOf[d] : d \in Draining}
    /\ \A d, e \in Draining : StoreOf[d] = StoreOf[e] => d = e

\* A hint is never dropped between a wake, a drain and the waiting list: an open
\* dispatcher with its dirty bit set drains, has a wake scheduled or waits for a
\* slot, as long as the list has room for everyone.
HintIsHeld ==
    MaxDeferred >= Cardinality(Dispatchers) =>
        \A d \in Dispatchers :
            changed[d] /\ ~closed[d] =>
                drain[d] # "none" \/ d \in Scheduled \cup Waiting

\* A closed dispatcher begins no store call (#drainBatch): what it has in flight
\* may be answered late, but nothing follows from the answer.
QuietAfterClose ==
    [][\A d \in Dispatchers :
          closed[d] /\ drain'[d] \in {"claim", "acknowledge", "retry"} =>
              drain'[d] = drain[d]]_vars

\* What is committed is claimed, with hints or without, through full houses,
\* failed drains and replaced dispatchers, if a started dispatcher of the store
\* stays open (the scan).
WorkIsDrained ==
    \A s \in Stores :
        work[s] > 0 ~>
            \/ work[s] = 0
            \/ \A d \in Dispatchers : StoreOf[d] = s => ~started[d]
=============================================================================
