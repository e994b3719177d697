----------------------- MODULE DeviceConnectionProofs -----------------------
(***************************************************************************)
(* Theorems about DeviceConnection, for any number of connections and      *)
(* gateways and without a bound on faults: the fencing of routes, and what *)
(* a gateway has registered.                                               *)
(***************************************************************************)
EXTENDS DeviceConnection, TLAPS

\* A connection that was made has its gateway.
HomeInv == \A c \in Connections : stage[c] # "new" => home[c] \in Gateways

\* The route's epoch is the one its connection claimed.
EpochInv == route.conn \in Connections => epoch[route.conn] = route.epoch

\* Nobody removes a connection that is still being accepted.
AcceptInv ==
    \A c \in Connections :
        stage[c] \in {"new", "claiming", "orphan", "claimed", "welcoming",
                      "replacing"} => removal[c] = "none"

IInv ==
    /\ TypeOK /\ HomeInv /\ EpochInv /\ AcceptInv
    /\ RegisteredIsAttended /\ ReleasedStaysReleased

\* The actions, one by one, for the proofs by cases.
Step(c) ==
    \/ \E g \in Gateways : Connect(c, g)
    \/ Claim(c) \/ ClaimFails(c) \/ Claimed(c)
    \/ WelcomeFails(c) \/ Rejected(c) \/ Welcomed(c) \/ Replaced(c)
    \/ Disconnect(c)
    \/ Heartbeat(c) \/ Renew(c) \/ RenewFails(c) \/ Renewed(c)
    \/ Release(c) \/ ReleaseFails(c)

-----------------------------------------------------------------------------
\* Every step is one of a connection, an expiry, a crash, or stutters.
LEMMA NextCases ==
    ASSUME [Next]_vars
    PROVE  \/ Expire
           \/ \E c \in Connections : Step(c)
           \/ \E g \in Gateways : Crash(g)
           \/ UNCHANGED vars
BY DEF Next, Accepting, Step

\* No connection is numbered as the absence of one.
LEMMA NoConnIsNone == NoConn \notin Connections
BY ConnectionAssumption DEF NoConn, Connections

\* The initial state satisfies the invariant.
LEMMA InitIInv == Init => IInv
<1> SUFFICES ASSUME Init PROVE IInv
    OBVIOUS
<1>1. TypeOK
    BY ConnectionAssumption, FaultAssumption DEF Init, TypeOK, Connections, NoConn, Stages
<1>2. HomeInv /\ AcceptInv /\ RegisteredIsAttended /\ ReleasedStaysReleased
    BY DEF Init, HomeInv, AcceptInv, RegisteredIsAttended, ReleasedStaysReleased
<1>3. EpochInv
    BY ConnectionAssumption DEF Init, EpochInv, Connections, NoConn
<1> QED
    BY <1>1, <1>2, <1>3 DEF IInv

\* A session's close keeps the types of what it changes.
LEMMA ClosesType ==
    ASSUME TypeOK, NEW c \in Connections, Closes(c)
    PROVE  /\ open' \in [Connections -> BOOLEAN]
           /\ sessions' \in [Gateways -> Connections \cup {NoConn}]
           /\ removal' \in [Connections -> {"none", "releasing", "done", "failed"}]
<1> USE DEF TypeOK
<1>1. Unregistered(c) \in [Gateways -> Connections \cup {NoConn}]
    BY DEF Unregistered
<1>2. CASE stage[c] = "established" /\ removal[c] = "none"
    BY <1>1, <1>2 DEF Closes
<1>3. CASE ~(stage[c] = "established" /\ removal[c] = "none")
    BY <1>3 DEF Closes
<1> QED
    BY <1>2, <1>3

\* Each step of a connection keeps the types and the gateways.
LEMMA StepType ==
    ASSUME TypeOK, HomeInv, NEW c \in Connections, Step(c)
    PROVE  TypeOK' /\ HomeInv'
<1> USE DEF TypeOK, HomeInv, Stages, Fault
<1>1. CASE \E g \in Gateways : Connect(c, g)
    BY <1>1 DEF Connect
<1>2. CASE Claim(c)
    BY <1>2 DEF Claim, ClaimedRoute
<1>3. CASE ClaimFails(c)
    BY <1>3, FaultAssumption DEF ClaimFails
<1>4. CASE Claimed(c)
    BY <1>4 DEF Claimed
<1>5. CASE WelcomeFails(c)
    BY <1>5, FaultAssumption DEF WelcomeFails
<1>6. CASE Rejected(c)
    BY <1>6 DEF Rejected
<1>7. CASE Welcomed(c)
  <2> DEFINE existing == sessions[home[c]]
  <2>1. home[c] \in Gateways /\ existing \in Connections \cup {NoConn}
      BY <1>7 DEF Welcomed
  <2>2. CASE existing = NoConn
      BY <1>7, <2>1, <2>2 DEF Welcomed, Registers
  <2>3. CASE existing # NoConn
    <3>1. /\ open' = [open EXCEPT ![existing] = FALSE]
          /\ sessions' = Unregistered(existing)
          /\ removal' = [removal EXCEPT ![existing] = "releasing"]
          /\ replaces' = [replaces EXCEPT ![c] = existing]
          /\ stage' = [stage EXCEPT ![c] = "replacing"]
          /\ stage[c] = "welcoming"
          /\ UNCHANGED <<route, home, epoch, renew, faults>>
        BY <1>7, <2>3 DEF Welcomed
    <3>2. sessions' \in [Gateways -> Connections \cup {NoConn}]
        BY <3>1 DEF Unregistered
    <3> HIDE DEF existing
    <3> QED
        BY <2>1, <3>1, <3>2
  <2> QED
      BY <2>2, <2>3
<1>8. CASE Replaced(c)
  <2>1. CASE removal[replaces[c]] = "done"
      BY <1>8, <2>1 DEF Replaced, Registers
  <2>2. CASE removal[replaces[c]] = "failed"
      BY <1>8, <2>2 DEF Replaced
  <2> QED
      BY <1>8, <2>1, <2>2 DEF Replaced
<1>9. CASE Disconnect(c)
  <2>1. /\ open' \in [Connections -> BOOLEAN]
        /\ sessions' \in [Gateways -> Connections \cup {NoConn}]
        /\ removal' \in [Connections -> {"none", "releasing", "done", "failed"}]
      BY <1>9, ClosesType DEF Disconnect
  <2> QED
      BY <1>9, <2>1, FaultAssumption DEF Disconnect
<1>10. CASE Heartbeat(c)
    BY <1>10 DEF Heartbeat
<1>11. CASE Renew(c)
    BY <1>11 DEF Renew
<1>12. CASE RenewFails(c)
    BY <1>12, FaultAssumption DEF RenewFails
<1>13. CASE Renewed(c)
  <2>1. CASE renew[c] = "refused"
    <3>1. /\ open' \in [Connections -> BOOLEAN]
          /\ sessions' \in [Gateways -> Connections \cup {NoConn}]
          /\ removal' \in [Connections -> {"none", "releasing", "done", "failed"}]
        BY <1>13, <2>1, ClosesType DEF Renewed
    <3> QED
        BY <1>13, <2>1, <3>1 DEF Renewed
  <2>2. CASE renew[c] = "renewed"
      BY <1>13, <2>2 DEF Renewed
  <2> QED
      BY <1>13, <2>1, <2>2 DEF Renewed
<1>14. CASE Release(c)
    BY <1>14 DEF Release, ReleasedRoute
<1>15. CASE ReleaseFails(c)
  <2>1. route' \in [conn : Connections \cup {NoConn}, epoch : Nat,
                    live : BOOLEAN]
    <3>1. ReleasedRoute(c) \in [conn : Connections \cup {NoConn}, epoch : Nat,
                                live : BOOLEAN]
        BY DEF ReleasedRoute
    <3> QED
        BY <1>15, <3>1 DEF ReleaseFails
  <2> QED
      BY <1>15, <2>1, FaultAssumption DEF ReleaseFails
<1> QED
    BY <1>1, <1>2, <1>3, <1>4, <1>5, <1>6, <1>7, <1>8, <1>9, <1>10, <1>11,
       <1>12, <1>13, <1>14, <1>15 DEF Step

\* Removal begins with a registered connection or at the end of its accept.
LEMMA StepAccept ==
    ASSUME TypeOK, HomeInv, AcceptInv, RegisteredIsAttended, NEW c \in Connections, Step(c)
    PROVE  AcceptInv' /\ RegisteredIsAttended'
<1> USE DEF TypeOK, HomeInv, AcceptInv, RegisteredIsAttended
<1> USE NoConnIsNone
<1>1. CASE \E g \in Gateways : Connect(c, g)
    BY <1>1 DEF Connect
<1>2. CASE Claim(c)
    BY <1>2 DEF Claim, ClaimedRoute
<1>3. CASE ClaimFails(c)
    BY <1>3 DEF ClaimFails
<1>4. CASE Claimed(c)
  <2>1. CASE open[c]
      BY <1>4, <2>1 DEF Claimed
  <2>2. CASE ~open[c]
      BY <1>4, <2>2 DEF Claimed
  <2> QED
      BY <2>1, <2>2
<1>5. CASE WelcomeFails(c)
    BY <1>5 DEF WelcomeFails
<1>6. CASE Rejected(c)
    BY <1>6 DEF Rejected
<1>7. CASE Welcomed(c)
  <2> DEFINE existing == sessions[home[c]]
  <2>1. home[c] \in Gateways /\ existing \in Connections \cup {NoConn}
      BY <1>7 DEF Welcomed
  <2>2. CASE existing = NoConn
      BY <1>7, <2>1, <2>2 DEF Welcomed, Registers
  <2>3. CASE existing # NoConn
    <3>1. /\ existing \in Connections
          /\ sessions' = Unregistered(existing)
          /\ removal' = [removal EXCEPT ![existing] = "releasing"]
          /\ stage' = [stage EXCEPT ![c] = "replacing"]
          /\ stage[c] = "welcoming"
          /\ UNCHANGED <<route, home, epoch, renew>>
        BY <1>7, <2>1, <2>3 DEF Welcomed
    <3>2. stage[existing] = "established" /\ home[existing] = home[c]
        BY <2>1, <3>1
    <3> HIDE DEF existing
    <3> QED
        BY <2>1, <3>1, <3>2 DEF Unregistered
  <2> QED
      BY <2>2, <2>3
<1>8. CASE Replaced(c)
  <2>1. CASE removal[replaces[c]] = "done"
      BY <1>8, <2>1 DEF Replaced, Registers
  <2>2. CASE removal[replaces[c]] = "failed"
      BY <1>8, <2>2 DEF Replaced
  <2> QED
      BY <1>8, <2>1, <2>2 DEF Replaced
<1>9. CASE Disconnect(c)
  <2>1. CASE stage[c] = "established" /\ removal[c] = "none"
      BY <1>9, <2>1 DEF Disconnect, Closes, Unregistered
  <2>2. CASE ~(stage[c] = "established" /\ removal[c] = "none")
      BY <1>9, <2>2 DEF Disconnect, Closes
  <2> QED
      BY <2>1, <2>2
<1>10. CASE Heartbeat(c)
    BY <1>10 DEF Heartbeat
<1>11. CASE Renew(c)
    BY <1>11 DEF Renew, Renewable
<1>12. CASE RenewFails(c)
    BY <1>12 DEF RenewFails
<1>13. CASE Renewed(c)
  <2>1. CASE renew[c] = "refused" /\ removal[c] = "none"
      BY <1>13, <2>1 DEF Renewed, Closes, Unregistered
  <2>2. CASE ~(renew[c] = "refused" /\ removal[c] = "none")
      BY <1>13, <2>2 DEF Renewed, Closes
  <2> QED
      BY <2>1, <2>2
<1>14. CASE Release(c)
    BY <1>14 DEF Release, ReleasedRoute, SameFence
<1>15. CASE ReleaseFails(c)
    BY <1>15 DEF ReleaseFails, ReleasedRoute, SameFence
<1> QED
    BY <1>1, <1>2, <1>3, <1>4, <1>5, <1>6, <1>7, <1>8,
       <1>9, <1>10, <1>11, <1>12, <1>13, <1>14, <1>15 DEF Step

\* A claim is the only step that moves an epoch, and it moves both.
LEMMA StepEpoch ==
    ASSUME TypeOK, EpochInv, NEW c \in Connections, Step(c)
    PROVE  EpochInv'
<1> USE DEF TypeOK, EpochInv
<1>1. CASE \E g \in Gateways : Connect(c, g)
    BY <1>1 DEF Connect
<1>2. CASE Claim(c)
    BY <1>2 DEF Claim, ClaimedRoute
<1>3. CASE ClaimFails(c)
    BY <1>3 DEF ClaimFails
<1>4. CASE Claimed(c)
    BY <1>4 DEF Claimed
<1>5. CASE WelcomeFails(c)
    BY <1>5 DEF WelcomeFails
<1>6. CASE Rejected(c)
    BY <1>6 DEF Rejected
<1>7. CASE Welcomed(c)
    BY <1>7 DEF Welcomed, Registers, Unregistered
<1>8. CASE Replaced(c)
    BY <1>8 DEF Replaced, Registers
<1>9. CASE Disconnect(c)
    BY <1>9 DEF Disconnect, Closes, Unregistered
<1>10. CASE Heartbeat(c)
    BY <1>10 DEF Heartbeat
<1>11. CASE Renew(c)
    BY <1>11 DEF Renew, Renewable
<1>12. CASE RenewFails(c)
    BY <1>12 DEF RenewFails
<1>13. CASE Renewed(c)
    BY <1>13 DEF Renewed, Closes, Unregistered
<1>14. CASE Release(c)
    BY <1>14 DEF Release, ReleasedRoute, SameFence
<1>15. CASE ReleaseFails(c)
    BY <1>15 DEF ReleaseFails, ReleasedRoute, SameFence
<1> QED
    BY <1>1, <1>2, <1>3, <1>4, <1>5, <1>6, <1>7, <1>8,
       <1>9, <1>10, <1>11, <1>12, <1>13, <1>14, <1>15 DEF Step

\* A released route is neither renewed nor claimed again by its connection.
LEMMA StepReleased ==
    ASSUME TypeOK, HomeInv, EpochInv, AcceptInv, RegisteredIsAttended,
           ReleasedStaysReleased, NEW c \in Connections, Step(c)
    PROVE  ReleasedStaysReleased'
<1> USE DEF TypeOK, HomeInv, EpochInv, AcceptInv, RegisteredIsAttended,
           ReleasedStaysReleased
<1> USE NoConnIsNone
<1>1. CASE \E g \in Gateways : Connect(c, g)
    BY <1>1 DEF Connect
<1>2. CASE Claim(c)
    BY <1>2 DEF Claim, ClaimedRoute
<1>3. CASE ClaimFails(c)
    BY <1>3 DEF ClaimFails
<1>4. CASE Claimed(c)
  <2>1. CASE open[c]
      BY <1>4, <2>1 DEF Claimed
  <2>2. CASE ~open[c]
      BY <1>4, <2>2 DEF Claimed
  <2> QED
      BY <2>1, <2>2
<1>5. CASE WelcomeFails(c)
    BY <1>5 DEF WelcomeFails
<1>6. CASE Rejected(c)
    BY <1>6 DEF Rejected
<1>7. CASE Welcomed(c)
  <2> DEFINE existing == sessions[home[c]]
  <2>1. home[c] \in Gateways /\ existing \in Connections \cup {NoConn}
      BY <1>7 DEF Welcomed
  <2>2. CASE existing = NoConn
      BY <1>7, <2>1, <2>2 DEF Welcomed, Registers
  <2>3. CASE existing # NoConn
    <3>1. /\ existing \in Connections
          /\ sessions' = Unregistered(existing)
          /\ removal' = [removal EXCEPT ![existing] = "releasing"]
          /\ stage' = [stage EXCEPT ![c] = "replacing"]
          /\ stage[c] = "welcoming"
          /\ UNCHANGED <<route, home, epoch, renew>>
        BY <1>7, <2>1, <2>3 DEF Welcomed
    <3>2. stage[existing] = "established" /\ home[existing] = home[c]
        BY <2>1, <3>1
    <3> HIDE DEF existing
    <3> QED
        BY <2>1, <3>1, <3>2 DEF Unregistered
  <2> QED
      BY <2>2, <2>3
<1>8. CASE Replaced(c)
  <2>1. CASE removal[replaces[c]] = "done"
      BY <1>8, <2>1 DEF Replaced, Registers
  <2>2. CASE removal[replaces[c]] = "failed"
      BY <1>8, <2>2 DEF Replaced
  <2> QED
      BY <1>8, <2>1, <2>2 DEF Replaced
<1>9. CASE Disconnect(c)
  <2>1. CASE stage[c] = "established" /\ removal[c] = "none"
      BY <1>9, <2>1 DEF Disconnect, Closes, Unregistered
  <2>2. CASE ~(stage[c] = "established" /\ removal[c] = "none")
      BY <1>9, <2>2 DEF Disconnect, Closes
  <2> QED
      BY <2>1, <2>2
<1>10. CASE Heartbeat(c)
    BY <1>10 DEF Heartbeat
<1>11. CASE Renew(c)
    BY <1>11 DEF Renew, Renewable
<1>12. CASE RenewFails(c)
    BY <1>12 DEF RenewFails
<1>13. CASE Renewed(c)
  <2>1. CASE renew[c] = "refused" /\ removal[c] = "none"
      BY <1>13, <2>1 DEF Renewed, Closes, Unregistered
  <2>2. CASE ~(renew[c] = "refused" /\ removal[c] = "none")
      BY <1>13, <2>2 DEF Renewed, Closes
  <2> QED
      BY <2>1, <2>2
<1>14. CASE Release(c)
    BY <1>14 DEF Release, ReleasedRoute, SameFence
<1>15. CASE ReleaseFails(c)
    BY <1>15 DEF ReleaseFails, ReleasedRoute, SameFence
<1> QED
    BY <1>1, <1>2, <1>3, <1>4, <1>5, <1>6, <1>7, <1>8,
       <1>9, <1>10, <1>11, <1>12, <1>13, <1>14, <1>15 DEF Step

\* The death of a gateway empties its map and ends its connections' accepts.
LEMMA CrashIInv ==
    ASSUME IInv, NEW g \in Gateways, Crash(g)
    PROVE  IInv'
<1> DEFINE dying == {c \in Connections :
                        home[c] = g /\ stage[c] \notin {"ended", "orphan"}}
<1>1. /\ open' = [c \in Connections |-> open[c] /\ c \notin dying]
      /\ stage' = [c \in Connections |->
                      IF c \notin dying THEN stage[c]
                      ELSE IF stage[c] = "claiming" THEN "orphan" ELSE "ended"]
      /\ sessions' = [sessions EXCEPT ![g] = NoConn]
      /\ Fault
      /\ UNCHANGED <<route, home, epoch, renew, removal, replaces>>
    BY DEF Crash
<1>2. TypeOK'
  <2>1. open' \in [Connections -> BOOLEAN] /\ stage' \in [Connections -> Stages]
      BY <1>1 DEF IInv, TypeOK, Stages
  <2> QED
      BY <1>1, <2>1, FaultAssumption DEF IInv, TypeOK, Fault
<1>3. HomeInv'
    BY <1>1 DEF IInv, HomeInv
<1>4. EpochInv' /\ ReleasedStaysReleased'
    BY <1>1 DEF IInv, EpochInv, ReleasedStaysReleased
<1>5. AcceptInv'
    BY <1>1 DEF IInv, AcceptInv, TypeOK, Stages
<1>6. RegisteredIsAttended'
  <2> SUFFICES ASSUME NEW h \in Gateways, sessions'[h] # NoConn
               PROVE  /\ home'[sessions'[h]] = h
                      /\ stage'[sessions'[h]] = "established"
                      /\ removal'[sessions'[h]] = "none"
      BY DEF RegisteredIsAttended
  <2>1. h # g /\ sessions'[h] = sessions[h] /\ sessions[h] \in Connections
      BY <1>1 DEF IInv, TypeOK
  <2>2. /\ home[sessions[h]] = h
        /\ stage[sessions[h]] = "established"
        /\ removal[sessions[h]] = "none"
      BY <2>1 DEF IInv, RegisteredIsAttended
  <2> QED
      BY <1>1, <2>1, <2>2
<1> QED
    BY <1>2, <1>3, <1>4, <1>5, <1>6 DEF IInv

\* Every step keeps the invariant.
LEMMA StepIInv == IInv /\ [Next]_vars => IInv'
<1> SUFFICES ASSUME IInv, [Next]_vars PROVE IInv'
    OBVIOUS
<1>1. CASE Expire
  <2>1. TypeOK'
    <3>1. route' \in [conn : Connections \cup {NoConn}, epoch : Nat,
                      live : BOOLEAN]
        BY <1>1 DEF IInv, TypeOK, Expire
    <3>2. faults' \in 0..MaxFaults
        BY <1>1, FaultAssumption DEF IInv, TypeOK, Expire, Fault
    <3> QED
        BY <1>1, <3>1, <3>2 DEF IInv, TypeOK, Expire
  <2>2. HomeInv' /\ AcceptInv' /\ RegisteredIsAttended'
      BY <1>1 DEF IInv, HomeInv, AcceptInv, RegisteredIsAttended, Expire
  <2>3. EpochInv' /\ ReleasedStaysReleased'
      BY <1>1 DEF IInv, TypeOK, EpochInv, ReleasedStaysReleased, Expire
  <2> QED
      BY <2>1, <2>2, <2>3 DEF IInv
<1>2. CASE \E c \in Connections : Step(c)
  <2>1. PICK c \in Connections : Step(c)
      BY <1>2
  <2>2. TypeOK' /\ HomeInv'
      BY <2>1, StepType DEF IInv
  <2>3. AcceptInv' /\ RegisteredIsAttended'
      BY <2>1, StepAccept DEF IInv
  <2>4. EpochInv'
      BY <2>1, StepEpoch DEF IInv
  <2>5. ReleasedStaysReleased'
      BY <2>1, StepReleased DEF IInv
  <2> QED
      BY <2>2, <2>3, <2>4, <2>5 DEF IInv
<1>3. CASE \E g \in Gateways : Crash(g)
    BY <1>3, CrashIInv
<1>4. CASE UNCHANGED vars
    BY <1>4 DEF vars, IInv, TypeOK, HomeInv, EpochInv, AcceptInv,
                RegisteredIsAttended, ReleasedStaysReleased
<1> QED
    BY <1>1, <1>2, <1>3, <1>4, NextCases

\* The invariant holds in every reachable state.
LEMMA Invariance == Spec => []IInv
<1> QED
    BY InitIInv, StepIInv, PTL DEF Spec

\* What RouteFenced says of one step.
Fenced ==
    /\ route'.epoch >= route.epoch
    /\ route'.epoch = route.epoch =>
         /\ route'.conn = route.conn
         /\ route'.live => route.live
    /\ route.live /\ ~route'.live =>
         \/ removal' # removal /\ removal[route.conn] = "releasing"
         \/ UNCHANGED <<removal, renew, stage, open, sessions>>

\* A step that leaves the route alone is fenced.
LEMMA SameRoute == TypeOK /\ UNCHANGED route => Fenced
BY DEF TypeOK, Fenced

\* A release ends the route only of the connection that is being removed.
LEMMA ReleaseFenced ==
    ASSUME TypeOK, NEW c \in Connections, removal[c] = "releasing",
           route' = ReleasedRoute(c), removal' # removal
    PROVE  Fenced
<1>1. CASE SameFence(c)
    BY <1>1 DEF TypeOK, ReleasedRoute, SameFence, Fenced
<1>2. CASE ~SameFence(c)
    BY <1>2, SameRoute DEF ReleasedRoute
<1> QED
    BY <1>1, <1>2

\* Every step of a connection is fenced.
LEMMA StepFenced ==
    ASSUME TypeOK, NEW c \in Connections, Step(c)
    PROVE  Fenced
<1>1. CASE Claim(c)
    BY <1>1 DEF Claim, ClaimedRoute, TypeOK, Fenced
<1>2. CASE Renew(c)
    BY <1>2, SameRoute DEF Renew, Renewable, TypeOK, Fenced
<1>3. CASE Release(c)
  <2>1. removal' # removal
      BY <1>3 DEF Release, TypeOK
  <2> QED
      BY <1>3, <2>1, ReleaseFenced DEF Release
<1>4. CASE ReleaseFails(c)
  <2>1. removal' # removal
      BY <1>4 DEF ReleaseFails, TypeOK
  <2> QED
      BY <1>4, <2>1, ReleaseFenced, SameRoute DEF ReleaseFails
<1>5. CASE UNCHANGED route
    BY <1>5, SameRoute
<1> QED
    BY <1>1, <1>2, <1>3, <1>4, <1>5
    DEF Step, Connect, ClaimFails, Claimed, WelcomeFails, Rejected, Welcomed,
        Replaced, Disconnect, Heartbeat, RenewFails, Renewed

\* Every step is fenced.
LEMMA NextFenced == TypeOK /\ [Next]_vars => [Fenced]_vars
<1> SUFFICES ASSUME TypeOK, [Next]_vars PROVE [Fenced]_vars
    OBVIOUS
<1>1. CASE Expire
    BY <1>1 DEF Expire, TypeOK, Fenced
<1>2. CASE \E c \in Connections : Step(c)
    BY <1>2, StepFenced
<1>3. CASE \E g \in Gateways : Crash(g)
    BY <1>3, SameRoute DEF Crash
<1> QED
    BY <1>1, <1>2, <1>3, NextCases

-----------------------------------------------------------------------------
\* Type correctness: routes, sessions, requests and removals stay in their
\* sets, so that a gateway's map never holds what is not a connection (the
\* gateway's #sessions and the route store's row).
THEOREM TypeCorrect == Spec => []TypeOK
<1>1. IInv => TypeOK
    BY DEF IInv
<1> QED
    BY <1>1, Invariance, PTL

\* What a gateway has registered is a connection of its own, established and
\* not being removed: #remove takes the entry out before its first await, and
\* no accept that waited for a removal brings a removed one back.
THEOREM SessionsAreAttended == Spec => []RegisteredIsAttended
<1>1. IInv => RegisteredIsAttended
    BY DEF IInv
<1> QED
    BY <1>1, Invariance, PTL

\* A connection whose route was released does not hold a leased route again:
\* a renewal that reaches the store late is refused there.
THEOREM ReleasesAreFinal == Spec => []ReleasedStaysReleased
<1>1. IInv => ReleasedStaysReleased
    BY DEF IInv
<1> QED
    BY <1>1, Invariance, PTL

\* The fence of the route store: epochs only grow, no step revives a route
\* under its epoch, and only its own connection's removal, or the clock, ends
\* one.
THEOREM RoutesAreFenced == Spec => RouteFenced
<1>1. IInv /\ [Next]_vars => [Fenced]_vars
    BY NextFenced DEF IInv
<1>2. Spec => [][Fenced]_vars
    BY <1>1, Invariance, PTL DEF Spec
<1> QED
    BY <1>2 DEF RouteFenced, Fenced
=============================================================================
