-------------------------- MODULE DeviceConnection --------------------------
(***************************************************************************)
(* The connections of one device to the device gateways, and the leased    *)
(* route that says which connection is the current one.  A gateway accepts *)
(* a socket in several asynchronous steps (claim the route, welcome the    *)
(* device, remove the session it replaces, register), renews the route by  *)
(* a heartbeat, and removes a session when its socket closes or its        *)
(* renewal is refused.  Between a request to the route store, its effect   *)
(* there and its answer anything else may happen.  Devices do not share    *)
(* state, so one device stands for each.                                   *)
(***************************************************************************)
EXTENDS Naturals

CONSTANTS
    N,            \* how many connections the device opens
    Gateways,
    NoGateway,
    MaxFaults     \* how often something fails, ends or expires

ASSUME ConnectionAssumption == N \in Nat
ASSUME GatewayAssumption == NoGateway \notin Gateways
ASSUME FaultAssumption == MaxFaults \in Nat

\* Connections are numbered in the order the device opens them.
Connections == 1..N
NoConn == 0

VARIABLES
    route,     \* the route store's row: connection, epoch, whether leased
    stage,     \* how far a gateway's accept of the connection has come
    home,      \* the gateway a connection was made to
    open,      \* the connection's session is open
    epoch,     \* the epoch the connection claimed, 0 before
    sessions,  \* each gateway's registered connection: its #sessions map
    renew,     \* the connection's renewal request, on its way or answered
    removal,   \* the release of the connection's route
    replaces,  \* whose removal an accept is waiting for
    faults     \* the faults so far

vars == <<route, stage, home, open, epoch, sessions, renew, removal, replaces,
          faults>>

Stages == {"new", "claiming", "orphan", "claimed", "welcoming", "rejecting",
           "replacing", "established", "ended"}

TypeOK ==
    /\ route \in [conn : Connections \cup {NoConn}, epoch : Nat, live : BOOLEAN]
    /\ stage \in [Connections -> Stages]
    /\ home \in [Connections -> Gateways \cup {NoGateway}]
    /\ open \in [Connections -> BOOLEAN]
    /\ epoch \in [Connections -> Nat]
    /\ sessions \in [Gateways -> Connections \cup {NoConn}]
    /\ renew \in [Connections -> {"idle", "asked", "renewed", "refused"}]
    /\ removal \in [Connections -> {"none", "releasing", "done", "failed"}]
    /\ replaces \in [Connections -> Connections \cup {NoConn}]
    /\ faults \in 0..MaxFaults

Init ==
    /\ route = [conn |-> NoConn, epoch |-> 0, live |-> FALSE]
    /\ stage = [c \in Connections |-> "new"]
    /\ home = [c \in Connections |-> NoGateway]
    /\ open = [c \in Connections |-> FALSE]
    /\ epoch = [c \in Connections |-> 0]
    /\ sessions = [g \in Gateways |-> NoConn]
    /\ renew = [c \in Connections |-> "idle"]
    /\ removal = [c \in Connections |-> "none"]
    /\ replaces = [c \in Connections |-> NoConn]
    /\ faults = 0

\* What the environment may do a bounded number of times.
Fault ==
    /\ faults < MaxFaults
    /\ faults' = faults + 1

-----------------------------------------------------------------------------
(* The route store.                                                        *)

\* A claim always succeeds and always advances the epoch.
ClaimedRoute(c) == [conn |-> c, epoch |-> route.epoch + 1, live |-> TRUE]

\* Gateway, connection and epoch of the fence are those of the route.
SameFence(c) == route.conn = c /\ route.epoch = epoch[c]

RenewableIfLeased(c) == route.live
RenewableIfFenced(c) == SameFence(c)
Renewable(c) == SameFence(c) /\ route.live

ReleasedUnfenced(c) == [route EXCEPT !.live = FALSE]
ReleasedRoute(c) ==
    IF SameFence(c) THEN [route EXCEPT !.live = FALSE] ELSE route

\* The lease runs out: the clock passes leaseExpiresAt.
Expire ==
    /\ route.live
    /\ route' = [route EXCEPT !.live = FALSE]
    /\ Fault
    /\ UNCHANGED <<stage, home, open, epoch, sessions, renew, removal, replaces>>

-----------------------------------------------------------------------------
(* Accepting a connection.                                                 *)

\* The device's hello is verified and the claim is sent to the store.
Connect(c, g) ==
    /\ stage[c] = "new"
    /\ \A d \in Connections : d < c => stage[d] # "new"
    /\ stage' = [stage EXCEPT ![c] = "claiming"]
    /\ home' = [home EXCEPT ![c] = g]
    /\ open' = [open EXCEPT ![c] = TRUE]
    /\ UNCHANGED <<route, epoch, sessions, renew, removal, replaces, faults>>

\* The claim takes effect; "orphan" if the gateway died after sending it.
Claim(c) ==
    /\ stage[c] \in {"claiming", "orphan"}
    /\ route' = ClaimedRoute(c)
    /\ epoch' = [epoch EXCEPT ![c] = route.epoch + 1]
    /\ stage' = [stage EXCEPT ![c] =
                    IF @ = "claiming" THEN "claimed" ELSE "ended"]
    /\ UNCHANGED <<home, open, sessions, renew, removal, replaces, faults>>

\* The claim throws, before its effect or after it: the session is closed.
ClaimFails(c) ==
    /\ stage[c] \in {"claiming", "claimed", "orphan"}
    /\ stage' = [stage EXCEPT ![c] = "ended"]
    /\ open' = [open EXCEPT ![c] = FALSE]
    /\ Fault
    /\ UNCHANGED <<route, home, epoch, sessions, renew, removal, replaces>>

ClaimedIfOpen(c) ==
    /\ stage[c] = "claimed" /\ open[c]
    /\ stage' = [stage EXCEPT ![c] = "welcoming"]
    /\ UNCHANGED <<route, home, open, epoch, sessions, renew, removal, replaces,
                   faults>>

\* The claim is answered.  A session that closed meanwhile gives it back.
Claimed(c) ==
    /\ stage[c] = "claimed"
    /\ IF open[c]
         THEN /\ stage' = [stage EXCEPT ![c] = "welcoming"]
              /\ UNCHANGED removal
         ELSE /\ stage' = [stage EXCEPT ![c] = "rejecting"]
              /\ removal' = [removal EXCEPT ![c] = "releasing"]
    /\ UNCHANGED <<route, home, open, epoch, sessions, renew, replaces, faults>>

\* The send fails, as it does when the session has closed.
WelcomeFails(c) ==
    /\ stage[c] = "welcoming"
    /\ stage' = [stage EXCEPT ![c] = "rejecting"]
    /\ removal' = [removal EXCEPT ![c] = "releasing"]
    /\ IF open[c] THEN Fault ELSE UNCHANGED faults
    /\ UNCHANGED <<route, home, open, epoch, sessions, renew, replaces>>

\* The release after a failed accept has settled; the socket is closed.
Rejected(c) ==
    /\ stage[c] = "rejecting"
    /\ removal[c] \in {"done", "failed"}
    /\ stage' = [stage EXCEPT ![c] = "ended"]
    /\ open' = [open EXCEPT ![c] = FALSE]
    /\ UNCHANGED <<route, home, epoch, sessions, renew, removal, replaces, faults>>

\* The entry enters the map, its heartbeat starts.
Registers(c) ==
    /\ sessions' = [sessions EXCEPT ![home[c]] = c]
    /\ stage' = [stage EXCEPT ![c] = "established"]

\* The part of #remove that runs before its first await.
UnregisteredLater(c) == sessions
UnregisteredToNull(c) ==
    [g \in Gateways |-> IF sessions[g] = c THEN NoGateway ELSE sessions[g]]
Unregistered(c) ==
    [g \in Gateways |-> IF sessions[g] = c THEN NoConn ELSE sessions[g]]

\* The welcome is sent.  A registered session is closed and its removal
\* awaited; otherwise the new one is registered at once.
Welcomed(c) ==
    LET existing == sessions[home[c]] IN
    /\ stage[c] = "welcoming"
    /\ open[c]
    /\ \/ /\ existing = NoConn
          /\ Registers(c)
          /\ UNCHANGED <<open, removal, replaces>>
       \/ /\ existing # NoConn
          /\ open' = [open EXCEPT ![existing] = FALSE]
          /\ sessions' = Unregistered(existing)
          /\ removal' = [removal EXCEPT ![existing] = "releasing"]
          /\ replaces' = [replaces EXCEPT ![c] = existing]
          /\ stage' = [stage EXCEPT ![c] = "replacing"]
    /\ UNCHANGED <<route, home, epoch, renew, faults>>

\* The awaited removal has settled.  The map is not looked at again, nor is
\* the session: it may have closed during the wait.  A failed removal fails
\* the accept, and the server closes the socket.
Replaced(c) ==
    /\ stage[c] = "replacing"
    /\ \/ /\ removal[replaces[c]] = "done"
          /\ Registers(c)
          /\ UNCHANGED open
       \/ /\ removal[replaces[c]] = "failed"
          /\ stage' = [stage EXCEPT ![c] = "ended"]
          /\ open' = [open EXCEPT ![c] = FALSE]
          /\ UNCHANGED sessions
    /\ UNCHANGED <<route, home, epoch, renew, removal, replaces, faults>>

-----------------------------------------------------------------------------
(* An established connection.                                              *)

\* The session closes; an entry not yet being removed is removed.
Closes(c) ==
    /\ open' = [open EXCEPT ![c] = FALSE]
    /\ IF stage[c] = "established" /\ removal[c] = "none"
         THEN /\ sessions' = Unregistered(c)
              /\ removal' = [removal EXCEPT ![c] = "releasing"]
         ELSE UNCHANGED <<sessions, removal>>

\* The socket closes under the session, or the gateway closes its sessions.
Disconnect(c) ==
    /\ open[c]
    /\ Closes(c)
    /\ Fault
    /\ UNCHANGED <<route, stage, home, epoch, renew, replaces>>

\* The heartbeat fires.
Heartbeat(c) ==
    /\ stage[c] = "established"
    /\ removal[c] = "none"
    /\ renew[c] = "idle"
    /\ renew' = [renew EXCEPT ![c] = "asked"]
    /\ UNCHANGED <<route, stage, home, open, epoch, sessions, removal, replaces, faults>>

\* The renewal takes effect at the store, or is refused there.
Renew(c) ==
    /\ renew[c] = "asked"
    /\ IF Renewable(c)
         THEN /\ route' = [route EXCEPT !.live = TRUE]
              /\ renew' = [renew EXCEPT ![c] = "renewed"]
         ELSE /\ renew' = [renew EXCEPT ![c] = "refused"]
              /\ UNCHANGED route
    /\ UNCHANGED <<stage, home, open, epoch, sessions, removal, replaces, faults>>

\* The renewal throws: it is handled as a refusal.
RenewFails(c) ==
    /\ renew[c] \in {"asked", "renewed"}
    /\ renew' = [renew EXCEPT ![c] = "refused"]
    /\ Fault
    /\ UNCHANGED <<route, stage, home, open, epoch, sessions, removal, replaces>>

\* The renewal is answered.
Renewed(c) ==
    /\ stage[c] = "established"
    /\ renew[c] \in {"renewed", "refused"}
    /\ renew' = [renew EXCEPT ![c] = "idle"]
    /\ IF renew[c] = "refused"
         THEN Closes(c)
         ELSE UNCHANGED <<open, sessions, removal>>
    /\ UNCHANGED <<route, stage, home, epoch, replaces, faults>>

\* The release takes effect and is answered.
Release(c) ==
    /\ removal[c] = "releasing"
    /\ route' = ReleasedRoute(c)
    /\ removal' = [removal EXCEPT ![c] = "done"]
    /\ UNCHANGED <<stage, home, open, epoch, sessions, renew, replaces, faults>>

\* The release throws, before its effect or after it.
ReleaseFails(c) ==
    /\ removal[c] = "releasing"
    /\ route' \in {route, ReleasedRoute(c)}
    /\ removal' = [removal EXCEPT ![c] = "failed"]
    /\ Fault
    /\ UNCHANGED <<stage, home, open, epoch, sessions, renew, replaces>>

\* The gateway's process dies.  Requests it sent may still reach the store.
Crash(g) ==
    LET dying == {c \in Connections :
                    home[c] = g /\ stage[c] \notin {"ended", "orphan"}} IN
    /\ dying # {}
    /\ open' = [c \in Connections |-> open[c] /\ c \notin dying]
    /\ stage' = [c \in Connections |->
                    IF c \notin dying THEN stage[c]
                    ELSE IF stage[c] = "claiming" THEN "orphan" ELSE "ended"]
    /\ sessions' = [sessions EXCEPT ![g] = NoConn]
    /\ Fault
    /\ UNCHANGED <<route, home, epoch, renew, removal, replaces>>

-----------------------------------------------------------------------------
\* The steps of accept that some answer from outside lets continue.
Accepting(c) ==
    \/ Claim(c) \/ ClaimFails(c) \/ Claimed(c)
    \/ WelcomeFails(c) \/ Rejected(c) \/ Welcomed(c) \/ Replaced(c)

Next ==
    \/ Expire
    \/ \E c \in Connections :
          \/ \E g \in Gateways : Connect(c, g)
          \/ Accepting(c)
          \/ Disconnect(c)
          \/ Heartbeat(c) \/ Renew(c) \/ RenewFails(c) \/ Renewed(c)
          \/ Release(c) \/ ReleaseFails(c)
    \/ \E g \in Gateways : Crash(g)

Spec == Init /\ [][Next]_vars

\* Requests to the store are answered or fail, sends complete or fail, and
\* the interval timer fires while the process lives.  Nothing makes a device
\* connect or disconnect, a lease run out or a gateway die.
Fairness ==
    \A c \in Connections :
        /\ WF_vars(Accepting(c))
        /\ WF_vars(Heartbeat(c))
        /\ WF_vars(Renew(c) \/ RenewFails(c))
        /\ WF_vars(Renewed(c))
        /\ WF_vars(Release(c) \/ ReleaseFails(c))

FairSpec == Spec /\ Fairness

-----------------------------------------------------------------------------
(* Properties.                                                             *)

\* A delayed renewal or release of an older connection never changes a newer
\* connection's route: the epoch only grows, a route ended by release or
\* expiry is never revived, and only its own connection's removal (or the
\* clock alone) ends it.
RouteFenced ==
    [][/\ route'.epoch >= route.epoch
       /\ route'.epoch = route.epoch =>
            /\ route'.conn = route.conn
            /\ route'.live => route.live
       /\ route.live /\ ~route'.live =>
            \/ removal' # removal /\ removal[route.conn] = "releasing"
            \/ UNCHANGED <<removal, renew, stage, open, sessions>>]_vars

\* Once a connection's removal has succeeded its route is no longer leased,
\* even if a renewal it sent before reaches the store after the release.
ReleasedStaysReleased ==
    \A c \in Connections :
        removal[c] = "done" => ~(route.conn = c /\ route.live)

\* The registered entry of a gateway is one whose heartbeat still runs: it
\* is established there and nobody has begun to remove it.
RegisteredIsAttended ==
    \A g \in Gateways : sessions[g] # NoConn =>
        /\ home[sessions[g]] = g
        /\ stage[sessions[g]] = "established"
        /\ removal[sessions[g]] = "none"

\* A connection whose route a newer connection has taken, on this gateway or
\* another, is closed in the end: its heartbeat finds out.  The device opens
\* finitely many, so none is left once it has stopped.
Superseded(c) == epoch[c] > 0 /\ route.epoch > epoch[c]

SupersededCloses ==
    <>[](\A c \in Connections : Superseded(c) => ~open[c])

\* Every accept comes to an end, though it may wait for another session's
\* removal.
AcceptSettles ==
    <>[](\A c \in Connections :
            stage[c] \in {"new", "orphan", "established", "ended"})

\* The connection that holds the route is open and its accept is complete.
Connected(c) ==
    /\ stage[c] = "established"
    /\ open[c]
    /\ Renewable(c)

Registered(c) == \E g \in Gateways : sessions[g] = c

\* A device whose connection keeps the route is found under it: dispatch at
\* the gateway the route names compares the route's connection with the
\* registered session's and refuses when they differ.
ConnectedIsReachable ==
    \A c \in Connections :
        [](Connected(c) => <>(Registered(c) \/ ~Connected(c)))
=============================================================================
