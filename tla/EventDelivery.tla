---------------------------- MODULE EventDelivery ----------------------------
(***************************************************************************)
(* How committed run events reach the clients that follow a run.  A commit *)
(* appends events and one outbox message that names their range.  The      *)
(* dispatcher of the control process claims messages, reads the events     *)
(* they name, hands them to a durable consumer, publishes them to the      *)
(* event hub and acknowledges.  A client's stream subscribes to the hub,   *)
(* first reads the log from the client's cursor and then follows its       *)
(* subscription, dropping what it has.  A subscription that falls behind   *)
(* is closed; the client reconnects with the last sequence it got.         *)
(*                                                                         *)
(* One run, one control process at a time; a restart loses the hub, the    *)
(* streams and the drain, and leaves the claimed message to the expiry of  *)
(* its lease.  No two drains of a store overlap (OutboxAdmission), so the  *)
(* epoch of a lease is not needed to tell claims apart.                    *)
(***************************************************************************)
EXTENDS Naturals, SequencesExt

CONSTANTS
    Clients,        \* clients that follow the run
    MaxEvents,      \* bound: events of the run; the last one ends it
    MaxPending,     \* maxPendingEvents of a subscription
    PageSize,       \* EVENT_PAGE_SIZE
    MaxFaults,      \* bound: restarts, lost leases, answers and connections
    MaxRefusals     \* bound: failures before an event is published

ASSUME SizeAssumption ==
    /\ MaxEvents \in Nat \ {0} /\ MaxPending \in Nat \ {0}
    /\ PageSize \in Nat \ {0}
ASSUME BoundAssumption == MaxFaults \in Nat /\ MaxRefusals \in Nat

VARIABLES
    log,        \* how many events are committed
    outbox,     \* the messages, in the order of insertion
    disp,       \* the dispatcher: the call it waits for, the message, the event
    closed,     \* the dispatcher was closed
    sub,        \* per client: its subscription to the hub
    stream,     \* per client: the handler of its connection
    seen,       \* per client: the events it got over all connections
    published,  \* history: events published to the hub at least once
    refused,    \* history: events whose delivery was refused
    faults, refusals

vars == <<log, outbox, disp, closed, sub, stream, seen, published, refused,
          faults, refusals>>

bounds == <<refused, faults, refusals>>
reader == <<sub, stream, seen>>

Events == 1 .. MaxEvents
Message == [from: Events, through: Events,
            status: {"pending", "delayed", "leased", "expired", "settled"}]

Idle == [at |-> "idle", msg |-> 0, event |-> 0]
NoSubscription == [open |-> FALSE, queue |-> <<>>]
NoStream == [at |-> "off", page |-> <<>>, full |-> FALSE, hand |-> 0]

Cursor(c) == IF seen[c] = <<>> THEN 0 ELSE Last(seen[c])

Init ==
    /\ log = 0
    /\ outbox = <<>>
    /\ disp = Idle
    /\ closed = FALSE
    /\ sub = [c \in Clients |-> NoSubscription]
    /\ stream = [c \in Clients |-> NoStream]
    /\ seen = [c \in Clients |-> <<>>]
    /\ published = {}
    /\ refused = {}
    /\ faults = 0 /\ refusals = 0

-----------------------------------------------------------------------------
\* The store

\* One message for one event (run.updated) or for a range of output
\* (run.events.available).
commit(n) ==
    /\ log + n <= MaxEvents
    /\ log' = log + n
    /\ outbox' = Append(outbox, [from |-> log + 1, through |-> log + n,
                                 status |-> "pending"])
    /\ UNCHANGED <<disp, closed, reader, published, bounds>>

Claimable == {m \in DOMAIN outbox : outbox[m].status \in {"pending", "expired"}}

SetStatus(m, status) == outbox' = [outbox EXCEPT ![m].status = status]

\* The delay after retryOutbox is over.
delayEnds(m) ==
    /\ outbox[m].status = "delayed"
    /\ SetStatus(m, "pending")
    /\ UNCHANGED <<log, disp, closed, reader, published, bounds>>

\* A claim nobody works on any more, or one that took too long.
leaseExpires(m) ==
    /\ outbox[m].status = "leased"
    /\ \/ disp.msg # m /\ UNCHANGED faults
       \/ disp.msg = m /\ faults < MaxFaults /\ faults' = faults + 1
    /\ SetStatus(m, "expired")
    /\ UNCHANGED <<log, disp, closed, reader, published, refused, refusals>>

-----------------------------------------------------------------------------
\* The dispatcher: #drainBatch and #publish

Goto(at) == disp' = [disp EXCEPT !.at = at]
StopDrain == disp' = Idle

\* #publish of a closed dispatcher returns early ...
PublishOn(at) == Goto(IF closed THEN "published" ELSE at)

\* ... and so does #drainBatch, before its next call.
DrainOnAnyway(at) == Goto(at)
DrainOn(at) == IF closed THEN StopDrain ELSE Goto(at)

wake ==
    /\ disp.at = "idle" /\ ~closed
    /\ Goto("claim")
    /\ UNCHANGED <<log, outbox, closed, reader, published, bounds>>

claimNextOutbox ==
    /\ disp.at = "claim"
    /\ \/ /\ Claimable = {}
          /\ StopDrain
          /\ UNCHANGED outbox
       \/ /\ Claimable # {}
          /\ LET m == Min(Claimable) IN
               /\ SetStatus(m, "leased")
               /\ disp' = [at |-> "claimed", msg |-> m, event |-> outbox[m].from]
    /\ UNCHANGED <<log, closed, reader, published, bounds>>

\* The answers to the claim, to listRunEvents and of the durable consumer.
claimAnswered ==
    /\ disp.at = "claimed"
    /\ DrainOn("read")
    /\ UNCHANGED <<log, outbox, closed, reader, published, bounds>>

listRunEvents ==
    /\ disp.at = "read"
    /\ PublishOn("consume")
    /\ UNCHANGED <<log, outbox, closed, reader, published, bounds>>

consumeRunEvents ==
    /\ disp.at = "consume"
    /\ PublishOn("publish")
    /\ UNCHANGED <<log, outbox, closed, reader, published, bounds>>

\* RunEventSubscription.push: to the stream that waits, else into the queue; a
\* full queue closes the subscription, and its stream ends when it comes to it.
queued(s, st) == s.open /\ st.at # "waiting"
pushUnbounded(s, st, e) ==
    IF queued(s, st) THEN [s EXCEPT !.queue = Append(@, e)] ELSE s
pushDropping(s, st, e) ==
    IF queued(s, st) /\ Len(s.queue) < MaxPending
      THEN [s EXCEPT !.queue = Append(@, e)] ELSE s
push(s, st, e) ==
    CASE ~queued(s, st) -> s
      [] queued(s, st) /\ Len(s.queue) < MaxPending ->
            [s EXCEPT !.queue = Append(@, e)]
      [] OTHER -> NoSubscription

handed(s, st, e) ==
    IF s.open /\ st.at = "waiting" THEN [st EXCEPT !.at = "write", !.hand = e]
    ELSE st

\* RunEventHub.publish; a range is published event by event, and a dispatcher
\* closed between two of them stops.
afterPublish ==
    IF disp.event < outbox[disp.msg].through
      THEN disp' = [disp EXCEPT !.event = @ + 1]
      ELSE Goto("published")

publish ==
    /\ disp.at = "publish"
    /\ \/ closed /\ Goto("published") /\ UNCHANGED <<sub, stream, published>>
       \/ /\ ~closed
          /\ sub' = [c \in Clients |-> push(sub[c], stream[c], disp.event)]
          /\ stream' = [c \in Clients |-> handed(sub[c], stream[c], disp.event)]
          /\ published' = published \cup {disp.event}
          /\ afterPublish
    /\ UNCHANGED <<log, outbox, closed, seen, bounds>>

\* What was not published because the dispatcher closed is not acknowledged.
publishReturns ==
    /\ disp.at = "published"
    /\ DrainOn("acknowledge")
    /\ UNCHANGED <<log, outbox, closed, reader, published, bounds>>

\* The lease is checked; without it the call fails and so does the retry.
acknowledgeOutbox ==
    /\ disp.at = "acknowledge"
    /\ \/ /\ outbox[disp.msg].status = "leased"
          /\ SetStatus(disp.msg, "settled")
          /\ disp' = IF closed THEN Idle ELSE [Idle EXCEPT !.at = "claim"]
       \/ /\ outbox[disp.msg].status # "leased"
          /\ StopDrain
          /\ UNCHANGED outbox
    /\ UNCHANGED <<log, closed, reader, published, bounds>>

\* retryOutbox, unless closed; without the lease or by an error of its own it
\* does nothing.  The drain ends either way.
RetryClaim ==
    /\ \/ UNCHANGED outbox
       \/ ~closed /\ outbox[disp.msg].status = "leased" /\ SetStatus(disp.msg, "delayed")
    /\ StopDrain

\* A claim whose answer is lost, a read or a durable consumer that fails:
\* nothing of the message is published for now.
refuse ==
    /\ refusals < MaxRefusals /\ refusals' = refusals + 1
    /\ \/ disp.at = "claimed" /\ StopDrain /\ UNCHANGED outbox
       \/ disp.at \in {"read", "consume"} /\ RetryClaim
    /\ refused' = refused \cup (outbox[disp.msg].from .. outbox[disp.msg].through)
    /\ UNCHANGED <<log, closed, reader, published, faults>>

\* The acknowledgement fails, or only its answer is lost.
acknowledgeFails ==
    /\ disp.at = "acknowledge"
    /\ faults < MaxFaults /\ faults' = faults + 1
    /\ \/ RetryClaim
       \/ /\ outbox[disp.msg].status = "leased"
          /\ SetStatus(disp.msg, "settled")
          /\ StopDrain
    /\ UNCHANGED <<log, closed, reader, published, refused, refusals>>

\* Shutdown: the dispatcher is closed first, then the hub with every
\* subscription.
close ==
    /\ ~closed
    /\ faults < MaxFaults /\ faults' = faults + 1
    /\ closed' = TRUE
    /\ UNCHANGED <<log, outbox, disp, reader, published, refused, refusals>>

closeHub ==
    /\ closed
    /\ sub' = [c \in Clients |-> NoSubscription]
    /\ UNCHANGED <<log, outbox, disp, closed, stream, seen, published, bounds>>

\* The next process: after a shutdown, or after a crash.
restart ==
    /\ \/ closed /\ UNCHANGED faults
       \/ ~closed /\ faults < MaxFaults /\ faults' = faults + 1
    /\ closed' = FALSE
    /\ disp' = Idle
    /\ sub' = [c \in Clients |-> NoSubscription]
    /\ stream' = [c \in Clients |-> NoStream]
    /\ UNCHANGED <<log, outbox, seen, published, refused, refusals>>

-----------------------------------------------------------------------------
\* Streams: streamRunEvents

Page(c) ==
    LET through == IF Cursor(c) + PageSize < log THEN Cursor(c) + PageSize ELSE log
    IN  [i \in 1 .. through - Cursor(c) |-> Cursor(c) + i]

\* The client connects with its cursor; the subscription comes before the first
\* page is read.
connect(c) ==
    /\ stream[c].at = "off" /\ ~closed
    /\ Cursor(c) < MaxEvents
    /\ sub' = [sub EXCEPT ![c] = [open |-> TRUE, queue |-> <<>>]]
    /\ stream' = [stream EXCEPT ![c] = [NoStream EXCEPT !.at = "read"]]
    /\ UNCHANGED <<log, outbox, disp, closed, seen, published, bounds>>

readPage(c) ==
    /\ stream[c].at = "read"
    /\ stream' = [stream EXCEPT ![c] = [at |-> "replay", page |-> Page(c),
                                        full |-> Len(Page(c)) = PageSize,
                                        hand |-> 0]]
    /\ UNCHANGED <<log, outbox, disp, closed, sub, seen, published, bounds>>

Write(c, e) == seen' = [seen EXCEPT ![c] = Append(@, e)]

\* End of the handler: the subscription is closed and the connection ends.
EndStream(c) ==
    /\ stream' = [stream EXCEPT ![c] = NoStream]
    /\ sub' = [sub EXCEPT ![c] = NoSubscription]

\* subscription.next(): the next event, the end, or a wait.
NextEvent(c) ==
    \/ /\ sub[c].queue # <<>>
       /\ stream' = [stream EXCEPT ![c] = [NoStream EXCEPT !.at = "write",
                                           !.hand = Head(sub[c].queue)]]
       /\ sub' = [sub EXCEPT ![c].queue = Tail(@)]
    \/ /\ sub[c].queue = <<>> /\ sub[c].open
       /\ stream' = [stream EXCEPT ![c] = [NoStream EXCEPT !.at = "waiting"]]
       /\ UNCHANGED sub
    \/ sub[c].queue = <<>> /\ ~sub[c].open /\ EndStream(c)

replayEvent(c) ==
    /\ stream[c].at = "replay" /\ stream[c].page # <<>>
    /\ LET e == Head(stream[c].page) IN
         /\ Write(c, e)
         /\ \/ e = MaxEvents /\ EndStream(c)
            \/ /\ e # MaxEvents
               /\ stream' = [stream EXCEPT ![c].page = Tail(@)]
               /\ UNCHANGED sub
    /\ UNCHANGED <<log, outbox, disp, closed, published, bounds>>

pageDone(c) ==
    /\ stream[c].at = "replay" /\ stream[c].page = <<>>
    /\ \/ /\ stream[c].full
          /\ stream' = [stream EXCEPT ![c].at = "read"]
          /\ UNCHANGED sub
       \/ ~stream[c].full /\ NextEvent(c)
    /\ UNCHANGED <<log, outbox, disp, closed, seen, published, bounds>>

isNew(c, e) == e > Cursor(c)

followEvent(c) ==
    LET e == stream[c].hand IN
    /\ stream[c].at = "write"
    /\ \/ ~isNew(c, e) /\ NextEvent(c) /\ UNCHANGED seen
       \/ isNew(c, e) /\ e # MaxEvents /\ Write(c, e) /\ NextEvent(c)
       \/ isNew(c, e) /\ e = MaxEvents /\ Write(c, e) /\ EndStream(c)
    /\ UNCHANGED <<log, outbox, disp, closed, published, bounds>>

\* A stream whose subscription the hub closes while it waits.
subscriptionClosed(c) ==
    /\ stream[c].at = "waiting" /\ ~sub[c].open
    /\ EndStream(c)
    /\ UNCHANGED <<log, outbox, disp, closed, seen, published, bounds>>

disconnect(c) ==
    /\ stream[c].at # "off"
    /\ faults < MaxFaults /\ faults' = faults + 1
    /\ EndStream(c)
    /\ UNCHANGED <<log, outbox, disp, closed, seen, published, refused,
                   refusals>>

-----------------------------------------------------------------------------
dispatcherStep ==
    \/ wake \/ claimNextOutbox \/ claimAnswered \/ listRunEvents
    \/ consumeRunEvents \/ publish \/ publishReturns \/ acknowledgeOutbox

streamStep(c) ==
    \/ connect(c) \/ readPage(c) \/ replayEvent(c) \/ pageDone(c)
    \/ followEvent(c) \/ subscriptionClosed(c)

timePasses == \E m \in DOMAIN outbox : delayEnds(m) \/ leaseExpires(m)

Next ==
    \/ \E n \in 1 .. 2 : commit(n)
    \/ timePasses
    \/ dispatcherStep \/ refuse \/ acknowledgeFails
    \/ close \/ closeHub \/ restart
    \/ \E c \in Clients : streamStep(c) \/ disconnect(c)

\* The dispatcher scans and its calls are answered, delays and abandoned leases
\* end, a process that shut down is started again, clients keep following.
Fairness ==
    /\ WF_vars(dispatcherStep)
    /\ WF_vars(timePasses)
    /\ WF_vars(closed /\ restart)
    /\ \A c \in Clients : WF_vars(streamStep(c))

Spec == Init /\ [][Next]_vars
FairSpec == Spec /\ Fairness

-----------------------------------------------------------------------------
\* The shapes of the store, the dispatcher and the streams, and the bound on
\* what a subscription holds.
TypeOK ==
    /\ log \in 0 .. MaxEvents
    /\ outbox \in Seq(Message)
    /\ disp \in [at: {"idle", "claim", "claimed", "read", "consume", "publish",
                      "published", "acknowledge"},
                 msg: 0 .. Len(outbox), event: 0 .. log]
    /\ closed \in BOOLEAN
    /\ \A c \in Clients :
          /\ sub[c].open \in BOOLEAN
          /\ sub[c].queue \in Seq(Events) /\ Len(sub[c].queue) <= MaxPending
          /\ stream[c].at \in {"off", "read", "replay", "waiting", "write"}
          /\ stream[c].page \in Seq(Events) /\ stream[c].hand \in 0 .. log
          /\ seen[c] \in Seq(Events)
    /\ published \subseteq Events
    /\ refused \subseteq Events
    /\ faults \in 0 .. MaxFaults /\ refusals \in 0 .. MaxRefusals

\* At-least-once: a message is settled only after each of its events was
\* published, however the dispatcher was closed, restarted or fenced in between
\* (#publish returns early when closed, #drainBatch then must not acknowledge).
SettledWasPublished ==
    \A m \in DOMAIN outbox :
        outbox[m].status = "settled" =>
            outbox[m].from .. outbox[m].through \subseteq published

\* A client that follows the run sees events once and in order, and in the end
\* the last one, through restarts, redeliveries, overflows and reconnects; it
\* misses only events whose delivery failed before they were published, so
\* without such a failure it sees all of them.
Following == INSTANCE EventStream WITH
    Clients <- Clients, MaxEvents <- MaxEvents, log <- log,
    refused <- refused, seen <- seen
StreamSpec == Following!Spec

\* The control API's README: committed events arrive through live SSE, and a
\* reconnect reads on from the last sequence.  So what a client has is an
\* initial part of the log, without gaps (retryOutbox, streamRunEvents).
SeenHasNoGap == \A c \in Clients : \A i \in DOMAIN seen[c] : seen[c][i] = i
=============================================================================
