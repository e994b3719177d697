------------------------ MODULE AutomationScheduler ------------------------
(***************************************************************************)
(* The schedulers of the control API processes and the durable store       *)
(* through which each due occurrence of an automation becomes one run.     *)
(* A scheduler scans the scheduled automations page by page, newest first, *)
(* from a cursor it keeps between wakes; it reads the thread's revision,   *)
(* looks for the occurrence's receipt, loads the context and commits the   *)
(* invocation, and other schedulers, users and runs may act between any    *)
(* two of these calls.  The automations modelled share one thread.         *)
(***************************************************************************)
EXTENDS Integers, Sequences, FiniteSets

CONSTANTS
    Schedulers,
    N,              \* how many automations are created
    Anchor,         \* each automation's nextRunAt
    Interval,       \* its intervalSeconds, 0 for a schedule of type once
    PageSize,
    MaxPages,       \* maxPagesPerWake
    CacheLimit,     \* completedAutomationCacheLimit
    MaxClock,
    MaxDisturbances \* user activity, restarts, refusals, failed calls

\* Automations are numbered in the order of their creation.
Automations == 1..N

ASSUME ScheduleAssumption ==
    /\ N \in Nat
    /\ Anchor \in [Automations -> Nat \ {0}]
    /\ Interval \in [Automations -> Nat]
ASSUME LimitAssumption ==
    /\ PageSize \in Nat \ {0} /\ MaxPages \in Nat \ {0}
    /\ CacheLimit \in Nat
    /\ MaxClock \in Nat \ {0} /\ MaxDisturbances \in Nat

VARIABLES
    clock,
    created,    \* automations 1..created exist
    thread,     \* its status
    switching,  \* a change of the tenant's provider settings is pending
    revision,   \* of the thread
    openRuns,   \* runs of the thread not terminal or with unsettled work
    log,        \* the runs that were started: automation and occurrence
    receipts,   \* the receipts by idempotency key: automation and occurrence
    scan,       \* each scheduler's scan
    cursor,     \* where its next page begins, 0 for the first page
    cache,      \* the occurrences it remembers as completed, oldest first
    disturbances

vars == <<clock, created, thread, switching, revision, openRuns, log,
          receipts, scan, cursor, cache, disturbances>>
storeVars == <<revision, openRuns, log, receipts>>
worldVars == <<clock, created, thread, switching>>

Stages == {"idle", "listing", "next", "checking", "loading", "committing",
           "answered"}
Occurrences == Automations \X (1..MaxClock)
Scans == [stage : Stages, now : 0..MaxClock, rest : SUBSET Automations,
          last : BOOLEAN, pages : 0..MaxPages, seen : Nat]

TypeOK ==
    /\ clock \in 1..MaxClock
    /\ created \in 0..N
    /\ thread \in {"active", "archived", "deleted"}
    /\ switching \in BOOLEAN
    /\ revision \in Nat
    /\ openRuns \in Nat
    /\ log \in Seq(Occurrences)
    /\ receipts \subseteq Occurrences
    /\ scan \in [Schedulers -> Scans]
    /\ cursor \in [Schedulers -> 0..N]
    /\ cache \in [Schedulers -> Seq(Occurrences)]
    /\ \A s \in Schedulers : Len(cache[s]) <= CacheLimit
    /\ disturbances \in 0..MaxDisturbances

NoScan == [stage |-> "idle", now |-> 0, rest |-> {}, last |-> FALSE,
           pages |-> 0, seen |-> 0]

Init ==
    /\ clock = 1
    /\ created = 0
    /\ thread = "active"
    /\ switching = FALSE
    /\ revision = 0
    /\ openRuns = 0
    /\ log = <<>>
    /\ receipts = {}
    /\ scan = [s \in Schedulers |-> NoScan]
    /\ cursor = [s \in Schedulers |-> 0]
    /\ cache = [s \in Schedulers |-> <<>>]
    /\ disturbances = 0

-----------------------------------------------------------------------------
(* Definitions of the scan.                                                *)

\* The latest occurrence due, 0 if there is none yet.
Latest(a, now) ==
    IF now < Anchor[a] THEN 0
    ELSE IF Interval[a] = 0 THEN Anchor[a]
    ELSE Anchor[a] + ((now - Anchor[a]) \div Interval[a]) * Interval[a]

\* The newest PageSize scheduled automations that come after the cursor.
PageAfter(before) ==
    LET scheduled == {a \in 1..created : before = 0 \/ a < before} IN
    {a \in scheduled :
        Cardinality({b \in scheduled : b > a}) < PageSize}

\* The record the scan is at: the newest one left of the page.
Current(s) == CHOOSE a \in scan[s].rest : \A b \in scan[s].rest : b <= a
Occurrence(s) == <<Current(s), Latest(Current(s), scan[s].now)>>

Remembers(s, o) == \E i \in 1..Len(cache[s]) : cache[s][i] = o

\* The map without an automation, which has one occurrence in it at most.
Without(q, a) ==
    LET held == {i \in 1..Len(q) : q[i][1] = a}
        at == CHOOSE i \in held : TRUE IN
    IF held = {} THEN q ELSE SubSeq(q, 1, at - 1) \o SubSeq(q, at + 1, Len(q))

RememberAll(s, o) == Append(Without(cache[s], o[1]), o)

\* One occurrence is remembered for an automation, the oldest is evicted.
Remember(s, o) ==
    LET added == Append(Without(cache[s], o[1]), o) IN
    IF CacheLimit = 0 THEN cache[s]
    ELSE IF Len(added) > CacheLimit THEN Tail(added)
    ELSE added

At(s, stage) == scan[s].stage = stage
Goto(s, stage) == scan' = [scan EXCEPT ![s].stage = stage]

Disturb ==
    /\ disturbances < MaxDisturbances
    /\ disturbances' = disturbances + 1

\* The scan is done with the current record, whatever came of it.
Advance(s) ==
    /\ cursor' = [cursor EXCEPT ![s] = Current(s)]
    /\ scan' = [scan EXCEPT ![s].stage = "next",
                            ![s].rest = @ \ {Current(s)},
                            ![s].seen = 0]

-----------------------------------------------------------------------------
(* A scheduler.                                                            *)

\* The timer wakes it; the scan keeps the time at which it began.
Wake(s) ==
    /\ At(s, "idle")
    /\ scan' = [scan EXCEPT ![s] = [NoScan EXCEPT !.stage = "listing",
                                                  !.now = clock]]
    /\ UNCHANGED <<worldVars, storeVars, cursor, cache, disturbances>>

List(s) ==
    /\ At(s, "listing")
    /\ LET page == PageAfter(cursor[s]) IN
       scan' = [scan EXCEPT ![s].stage = "next",
                            ![s].rest = page,
                            ![s].last = Cardinality(page) < PageSize,
                            ![s].pages = @ + 1]
    /\ UNCHANGED <<worldVars, storeVars, cursor, cache, disturbances>>

\* Nothing is due, or the cache says that it was done.
Skip(s) ==
    /\ At(s, "next")
    /\ scan[s].rest # {}
    /\ \/ /\ Occurrence(s)[2] = 0
          /\ UNCHANGED cache
       \/ /\ Occurrence(s)[2] # 0
          /\ Remembers(s, Occurrence(s))
          /\ cache' = [cache EXCEPT ![s] = Remember(s, Occurrence(s))]
    /\ Advance(s)
    /\ UNCHANGED <<worldVars, storeVars, disturbances>>

EndOfPageKeepsCursor(s) ==
    /\ At(s, "next")
    /\ scan[s].rest = {}
    /\ IF scan[s].last \/ scan[s].pages = MaxPages
         THEN scan' = [scan EXCEPT ![s] = NoScan]
         ELSE Goto(s, "listing")
    /\ UNCHANGED <<worldVars, storeVars, cursor, cache, disturbances>>

\* A short page is the last: the next wake starts again from the newest.
EndOfPage(s) ==
    /\ At(s, "next")
    /\ scan[s].rest = {}
    /\ \/ /\ scan[s].last
          /\ cursor' = [cursor EXCEPT ![s] = 0]
          /\ scan' = [scan EXCEPT ![s] = NoScan]
       \/ /\ ~scan[s].last
          /\ scan[s].pages = MaxPages
          /\ scan' = [scan EXCEPT ![s] = NoScan]
          /\ UNCHANGED cursor
       \/ /\ ~scan[s].last
          /\ scan[s].pages < MaxPages
          /\ Goto(s, "listing")
          /\ UNCHANGED cursor
    /\ UNCHANGED <<worldVars, storeVars, cache, disturbances>>

\* A due occurrence that is not remembered: the thread's revision is read.
\* A deleted thread is not found.
ReadThread(s) ==
    /\ At(s, "next")
    /\ scan[s].rest # {}
    /\ Occurrence(s)[2] # 0
    /\ ~Remembers(s, Occurrence(s))
    /\ \/ /\ thread # "deleted"
          /\ scan' = [scan EXCEPT ![s].stage = "checking", ![s].seen = revision]
          /\ UNCHANGED cursor
       \/ /\ thread = "deleted"
          /\ Advance(s)
    /\ UNCHANGED <<worldVars, storeVars, cache, disturbances>>

\* A receipt under the occurrence's key is the answer.
CheckReceipt(s) ==
    /\ At(s, "checking")
    /\ Goto(s, IF Occurrence(s) \in receipts THEN "answered" ELSE "loading")
    /\ UNCHANGED <<worldVars, storeVars, cursor, cache, disturbances>>

\* The thread must be active, and at the revision that was read.
LoadContext(s) ==
    /\ At(s, "loading")
    /\ IF thread = "active" /\ revision = scan[s].seen
         THEN Goto(s, "committing") /\ UNCHANGED cursor
         ELSE Advance(s)
    /\ UNCHANGED <<worldVars, storeVars, cache, disturbances>>

\* The fences the store checks in the transaction.
Admissible(s) ==
    /\ ~switching
    /\ thread = "active"
    /\ revision = scan[s].seen
    /\ openRuns = 0

\* Message, history, run, outbox, work item and receipt in one transaction.
StartRunWithoutReceipt(o) ==
    /\ revision' = revision + 1
    /\ openRuns' = openRuns + 1
    /\ log' = Append(log, o)
    /\ UNCHANGED receipts
StartRun(o) ==
    /\ revision' = revision + 1
    /\ openRuns' = openRuns + 1
    /\ log' = Append(log, o)
    /\ receipts' = receipts \cup {o}

\* What the transaction does: replay the receipt, start the run, or conflict.
Transact(s) ==
    IF Occurrence(s) \notin receipts /\ Admissible(s)
    THEN StartRun(Occurrence(s))
    ELSE UNCHANGED storeVars

CommitAnswered(s) ==
    /\ At(s, "committing")
    /\ Transact(s)
    /\ Goto(s, "answered")
    /\ UNCHANGED <<worldVars, cursor, cache, disturbances>>

Commit(s) ==
    /\ At(s, "committing")
    /\ Transact(s)
    /\ IF Occurrence(s) \in receipts \/ Admissible(s)
         THEN Goto(s, "answered") /\ UNCHANGED cursor
         ELSE Advance(s)
    /\ UNCHANGED <<worldVars, cache, disturbances>>

\* The transaction takes place, its answer does not arrive.
CommitLost(s) ==
    /\ At(s, "committing")
    /\ Transact(s)
    /\ Advance(s)
    /\ Disturb
    /\ UNCHANGED <<worldVars, cache>>

Answered(s) ==
    /\ At(s, "answered")
    /\ cache' = [cache EXCEPT ![s] = Remember(s, Occurrence(s))]
    /\ Advance(s)
    /\ UNCHANGED <<worldVars, storeVars, disturbances>>

\* Storage admission refuses new work: the scan ends at this record.
Refused(s) ==
    /\ scan[s].stage \in {"listing", "checking"}
    /\ scan' = [scan EXCEPT ![s] = NoScan]
    /\ Disturb
    /\ UNCHANGED <<worldVars, storeVars, cursor, cache>>

\* The actor may not run the automation, or a call fails without effect: the
\* record is passed over.
Denied(s) ==
    /\ scan[s].stage \in {"checking", "loading", "committing"}
    /\ Advance(s)
    /\ Disturb
    /\ UNCHANGED <<worldVars, storeVars, cache>>

\* The process restarts with an empty cache and from the first page.
Restart(s) ==
    /\ scan' = [scan EXCEPT ![s] = NoScan]
    /\ cursor' = [cursor EXCEPT ![s] = 0]
    /\ cache' = [cache EXCEPT ![s] = <<>>]
    /\ Disturb
    /\ UNCHANGED <<worldVars, storeVars>>

-----------------------------------------------------------------------------
(* The rest of the system.                                                 *)

Tick ==
    /\ clock < MaxClock
    /\ clock' = clock + 1
    /\ UNCHANGED <<created, thread, switching, storeVars, scan, cursor, cache,
                   disturbances>>

Create ==
    /\ created < N
    /\ ~switching
    /\ thread = "active"
    /\ created' = created + 1
    /\ UNCHANGED <<clock, thread, switching, storeVars, scan, cursor, cache,
                   disturbances>>

\* A user starts a run, or changes the thread without one.
UserActs ==
    /\ Disturb
    /\ thread # "deleted"
    /\ revision' = revision + 1
    /\ \/ openRuns' = openRuns
       \/ /\ thread = "active" /\ ~switching
          /\ openRuns = 0
          /\ openRuns' = 1
    /\ UNCHANGED <<worldVars, log, receipts, scan, cursor, cache>>

SetThread(status) ==
    /\ thread' = status
    /\ revision' = revision + 1
    /\ UNCHANGED <<clock, created, switching, openRuns, log, receipts, scan,
                   cursor, cache>>

Archive == thread = "active" /\ SetThread("archived") /\ Disturb
Unarchive == thread = "archived" /\ SetThread("active") /\ UNCHANGED disturbances

\* Only a thread without open runs can be deleted.
Delete ==
    /\ thread # "deleted"
    /\ openRuns = 0
    /\ SetThread("deleted")
    /\ Disturb

SetSwitching(pending) ==
    /\ switching' = pending
    /\ UNCHANGED <<clock, created, thread, storeVars, scan, cursor, cache>>

\* A terminal run whose work is not settled does not keep it from beginning.
BeginSwitch == ~switching /\ SetSwitching(TRUE) /\ Disturb

\* It is finalized, aborted, or expires.
EndSwitch == switching /\ SetSwitching(FALSE) /\ UNCHANGED disturbances

\* A run ends and its work is settled; a completed one, which needs the
\* thread active, adds its message to it.
RunSettles ==
    /\ openRuns > 0
    /\ openRuns' = openRuns - 1
    /\ \/ thread = "active" /\ revision' = revision + 1
       \/ UNCHANGED revision
    /\ UNCHANGED <<worldVars, log, receipts, scan, cursor, cache, disturbances>>

-----------------------------------------------------------------------------
Scanning(s) ==
    \/ Wake(s) \/ List(s) \/ Skip(s) \/ EndOfPage(s)
    \/ ReadThread(s) \/ CheckReceipt(s) \/ LoadContext(s)
    \/ Commit(s) \/ Answered(s)

Next ==
    \/ \E s \in Schedulers :
          Scanning(s) \/ CommitLost(s) \/ Refused(s) \/ Denied(s)
          \/ Restart(s)
    \/ Tick \/ Create \/ UserActs \/ Archive \/ Unarchive \/ Delete
    \/ BeginSwitch \/ EndSwitch \/ RunSettles

Spec == Init /\ [][Next]_vars

\* Timers fire and calls are answered.  Nothing makes a user act, a thread be
\* restored, a run or a switch end, or the clock reach a given time.
FairSpec == Spec /\ \A s \in Schedulers : WF_vars(Scanning(s))

-----------------------------------------------------------------------------
(* Properties.                                                             *)

\* Each occurrence of an automation starts at most one run, though several
\* schedulers find it due, answers are lost and processes restart.
InvokedAtMostOnce ==
    \A i, j \in 1..Len(log) : i # j => log[i] # log[j]

\* A scheduler remembers an occurrence as completed only if its run was
\* committed: what it skips without asking the store is really done.
RememberedIsCommitted ==
    \A s \in Schedulers : \A i \in 1..Len(cache[s]) : cache[s][i] \in receipts

\* The thread takes a new run, and goes on to: it stays active, no change of the
\* provider settings stays pending, and no run stays open for ever.
ThreadTakesRuns ==
    /\ <>[](thread = "active" /\ ~switching)
    /\ []<>(openRuns = 0)

\* Once the clock and the users rest, and as long as the thread takes runs, the
\* latest due occurrence of every automation is invoked: neither a thread that
\* was busy, archived or refusing for a while, nor a conflict, nor the pages
\* before it make the scan of #scanDueAutomations miss an automation for ever.
LatestIsInvoked ==
    ThreadTakesRuns =>
        <>[](\A a \in 1..created :
                Latest(a, clock) # 0 => <<a, Latest(a, clock)>> \in receipts)
=============================================================================
