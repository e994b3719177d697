------------------------- MODULE EventDeliveryProofs -------------------------
(***************************************************************************)
(* Theorems about EventDelivery, for any clients, any log, queues and      *)
(* pages of any size and any number of faults: what is settled was         *)
(* published, and every step is a step of EventStream or none.  The        *)
(* invariant says what a stream has ahead of it: its line, the event in    *)
(* its hand and then its subscription's queue, in the order of the log but *)
(* for events it has and events that were refused, and whatever of the log *)
(* is in neither is still ahead of the dispatcher.                         *)
(***************************************************************************)
EXTENDS EventDelivery, SequenceTheorems, WellFoundedInduction, TLAPS

-----------------------------------------------------------------------------
(* The store and the dispatcher.                                           *)

Places == {"idle", "claim", "claimed", "read", "consume", "publish", "published",
           "acknowledge"}
Subscription == [open: BOOLEAN, queue: Seq(Events)]
Handler == [at: {"off", "read", "replay", "waiting", "write"},
            page: Seq(Events), full: BOOLEAN, hand: 0 .. MaxEvents]

Types ==
    /\ log \in 0 .. MaxEvents
    /\ outbox \in Seq(Message)
    /\ disp \in [at: Places, msg: Nat, event: 0 .. MaxEvents]
    /\ closed \in BOOLEAN
    /\ sub \in [Clients -> Subscription]
    /\ stream \in [Clients -> Handler]
    /\ seen \in [Clients -> Seq(Events)]
    /\ published \subseteq Events
    /\ refused \subseteq 1 .. log
    /\ faults \in 0 .. MaxFaults /\ refusals \in 0 .. MaxRefusals

\* The messages name ranges of the log, one after the other.
Ranges ==
    /\ \A m \in 1 .. Len(outbox) :
          outbox[m].from <= outbox[m].through /\ outbox[m].through <= log
    /\ \A m, n \in 1 .. Len(outbox) :
          m < n => outbox[m].through < outbox[n].from

Carried(m) == outbox[m].from .. outbox[m].through

\* Where the dispatcher is in its message, and what of it is published.
Handling ==
    /\ disp.msg <= Len(outbox)
    /\ disp.msg = 0 <=> disp.at \in {"idle", "claim"}
    /\ disp.msg = 0 => disp.event = 0
    /\ disp.msg # 0 => disp.event \in Carried(disp.msg)
    /\ disp.at \in {"claimed", "read", "consume"} =>
          disp.event = outbox[disp.msg].from
    /\ disp.at = "publish" =>
          outbox[disp.msg].from .. disp.event - 1 \subseteq published
    /\ disp.at = "acknowledge" \/ (disp.at = "published" /\ ~closed) =>
          Carried(disp.msg) \subseteq published

\* Events the dispatcher has yet to publish before it passes on to later ones.
Unpublished(m, f) ==
    \/ m > disp.msg /\ outbox[m].status \in {"pending", "expired"}
    \/ /\ m = disp.msg /\ disp.at \in {"claimed", "read", "consume", "publish"}
       /\ disp.event <= f

Ahead == {f \in 1 .. log :
             \E m \in 1 .. Len(outbox) : f \in Carried(m) /\ Unpublished(m, f)}

-----------------------------------------------------------------------------
(* The clients.                                                            *)

\* What a stream goes through next, without the page it replays.
Line(st, s) == IF st.at = "write" THEN <<st.hand>> \o s.queue ELSE s.queue

Shape(st, s, cur, end) ==
    /\ cur <= end
    /\ Len(s.queue) <= MaxPending
    /\ ~s.open \/ st.at = "waiting" => s.queue = <<>>
    /\ st.hand <= end
    /\ \A i \in 1 .. Len(s.queue) : s.queue[i] <= end
    /\ st.at # "replay" => st.page = <<>>
    /\ cur + Len(st.page) <= end
    /\ \A i \in 1 .. Len(st.page) : st.page[i] = cur + i

\* A stream that reads no further page.
Live(st) ==
    st.at \in {"waiting", "write"} \/ (st.at = "replay" /\ ~st.full)

\* Of what comes after k, the line holds an event only after those before it.
InOrder(l, k, R) ==
    \A i \in 1 .. Len(l) : \A f \in k + 1 .. l[i] - 1 :
        f \in R \/ \E j \in 1 .. i - 1 : l[j] = f

\* And what is not in it is to come.
Complete(l, k, end, R, A) ==
    \A f \in k + 1 .. end : f \in R \/ f \in A \/ \E j \in 1 .. Len(l) : l[j] = f

Tracks(st, s, cur, end, R) ==
    /\ Shape(st, s, cur, end)
    /\ Live(st) => InOrder(Line(st, s), cur + Len(st.page), R)

Awaits(st, s, cur, end, R, A) ==
    Live(st) /\ s.open => Complete(Line(st, s), cur + Len(st.page), end, R, A)

ClientInv(c) ==
    /\ Tracks(stream[c], sub[c], Cursor(c), log, refused)
    /\ ~closed => Awaits(stream[c], sub[c], Cursor(c), log, refused, Ahead)

IInv ==
    /\ Types /\ Ranges /\ Handling /\ SettledWasPublished
    /\ \A c \in Clients : ClientInv(c)

-----------------------------------------------------------------------------
(* Lines.                                                                  *)

LEMMA SizesTyped ==
    /\ MaxEvents \in Nat \ {0} /\ MaxPending \in Nat \ {0} /\ PageSize \in Nat \ {0}
    /\ Events \subseteq Nat
    /\ \A q \in Seq(Events) : q \in Seq(Nat)
BY SizeAssumption DEF Events

LEMMA PrependProperties ==
    ASSUME NEW x \in Nat, NEW q \in Seq(Nat)
    PROVE  /\ <<x>> \o q \in Seq(Nat) /\ Len(<<x>> \o q) = Len(q) + 1
           /\ (<<x>> \o q)[1] = x
           /\ \A i \in 1 .. Len(q) : (<<x>> \o q)[i + 1] = q[i]
<1>1. <<x>> \in Seq(Nat) /\ Len(<<x>>) = 1 /\ <<x>>[1] = x
    OBVIOUS
<1>2. PICK p : p = <<x>>
    OBVIOUS
<1>3. p \in Seq(Nat) /\ Len(p) = 1 /\ p[1] = x
    BY <1>1, <1>2
<1>4. /\ p \o q \in Seq(Nat) /\ Len(p \o q) = Len(p) + Len(q)
      /\ \A i \in 1 .. Len(p) + Len(q) :
            (p \o q)[i] = IF i <= Len(p) THEN p[i] ELSE q[i - Len(p)]
    BY <1>3, ConcatProperties
<1>5. \A i \in 1 .. Len(q) : (p \o q)[i + 1] = q[i]
    BY <1>3, <1>4
<1> QED
    BY <1>2, <1>3, <1>4, <1>5

LEMMA HeadFirst ==
    ASSUME NEW q \in Seq(Nat), q # <<>>
    PROVE  /\ Head(q) \in Nat /\ Tail(q) \in Seq(Nat)
           /\ Head(q) = q[1] /\ Len(q) >= 1
           /\ Len(Tail(q)) = Len(q) - 1
           /\ \A i \in 1 .. Len(q) - 1 : Tail(q)[i] = q[i + 1]
BY HeadTailProperties

LEMMA HeadBack ==
    ASSUME NEW q \in Seq(Nat), q # <<>>
    PROVE  <<Head(q)>> \o Tail(q) = q
<1>1. PICK x \in Nat, t \in Seq(Nat) : x = Head(q) /\ t = Tail(q)
    BY HeadFirst
<1>2. /\ x = q[1] /\ Len(q) >= 1 /\ Len(t) = Len(q) - 1
      /\ \A i \in 1 .. Len(q) - 1 : t[i] = q[i + 1]
    BY <1>1, HeadFirst
<1>3. PICK l \in Seq(Nat) : l = <<x>> \o t
    BY PrependProperties
<1>4. /\ Len(l) = Len(t) + 1 /\ l[1] = x
      /\ \A i \in 1 .. Len(t) : l[i + 1] = t[i]
    BY <1>3, PrependProperties
<1>5. ASSUME NEW i \in 1 .. Len(q)
      PROVE  l[i] = q[i]
  <2>1. CASE i = 1
      BY <2>1, <1>2, <1>4
  <2>2. CASE i # 1
    <3>1. i - 1 \in 1 .. Len(q) - 1 /\ (i - 1) + 1 = i
        BY <2>2
    <3> QED
        BY <3>1, <1>2, <1>4
  <2> QED
      BY <2>1, <2>2
<1>6. l = q
  <2>1. Len(l) = Len(q)
      BY <1>2, <1>4
  <2> QED
      BY <1>5, <2>1, SeqEqual
<1> QED
    BY <1>1, <1>3, <1>6

LEMMA PrependAppend ==
    ASSUME NEW x \in Nat, NEW q \in Seq(Nat), NEW e \in Nat
    PROVE  <<x>> \o Append(q, e) = Append(<<x>> \o q, e)
<1>1. PICK l \in Seq(Nat), t \in Seq(Nat) : l = <<x>> \o q /\ t = Append(q, e)
    BY PrependProperties, AppendProperties
<1>2. /\ Len(l) = Len(q) + 1 /\ l[1] = x
      /\ \A i \in 1 .. Len(q) : l[i + 1] = q[i]
    BY <1>1, PrependProperties
<1>3. /\ Len(t) = Len(q) + 1 /\ t[Len(q) + 1] = e
      /\ \A i \in 1 .. Len(q) : t[i] = q[i]
    BY <1>1, AppendProperties
<1>4. PICK a \in Seq(Nat), b \in Seq(Nat) : a = <<x>> \o t /\ b = Append(l, e)
    BY PrependProperties, AppendProperties
<1>5. /\ Len(a) = Len(t) + 1 /\ a[1] = x
      /\ \A i \in 1 .. Len(t) : a[i + 1] = t[i]
    BY <1>4, PrependProperties
<1>6. /\ Len(b) = Len(l) + 1 /\ b[Len(l) + 1] = e
      /\ \A i \in 1 .. Len(l) : b[i] = l[i]
    BY <1>4, AppendProperties
<1>7. ASSUME NEW i \in 1 .. Len(a)
      PROVE  a[i] = b[i]
  <2>1. CASE i = 1
      BY <2>1, <1>2, <1>5, <1>6
  <2>2. CASE i # 1
    <3>1. PICK j \in 1 .. Len(t) : i = j + 1
      <4>1. i - 1 \in 1 .. Len(t) /\ i = (i - 1) + 1
          BY <2>2, <1>5
      <4> QED
          BY <4>1
    <3>2. a[i] = t[j]
        BY <3>1, <1>5
    <3>3. CASE j = Len(q) + 1
        BY <3>1, <3>2, <3>3, <1>2, <1>3, <1>6
    <3>4. CASE j # Len(q) + 1
      <4>1. j \in 1 .. Len(q) /\ i \in 1 .. Len(l)
          BY <3>1, <3>4, <1>2, <1>3
      <4> QED
          BY <4>1, <3>1, <3>2, <1>2, <1>3, <1>6
    <3> QED
        BY <3>3, <3>4
  <2> QED
      BY <2>1, <2>2
<1>8. Len(a) = Len(b)
    BY <1>2, <1>3, <1>5, <1>6
<1>9. a = b
    BY <1>7, <1>8, SeqEqual
<1> QED
    BY <1>1, <1>4, <1>9

\* A line may end with an event if whatever is missing before it was refused.
LEMMA InOrderAppend ==
    ASSUME NEW l \in Seq(Nat), NEW e \in Nat, NEW k \in Nat, NEW R,
           InOrder(l, k, R),
           \A f \in k + 1 .. e - 1 : f \in R \/ \E j \in 1 .. Len(l) : l[j] = f
    PROVE  InOrder(Append(l, e), k, R)
<1>1. PICK a : a = Append(l, e)
    OBVIOUS
<1>2. /\ a \in Seq(Nat) /\ Len(a) = Len(l) + 1 /\ a[Len(l) + 1] = e
      /\ \A i \in 1 .. Len(l) : a[i] = l[i]
    BY <1>1, AppendProperties
<1>3. ASSUME NEW i \in 1 .. Len(a), NEW f \in k + 1 .. a[i] - 1, f \notin R
      PROVE  \E j \in 1 .. i - 1 : a[j] = f
  <2>1. CASE i = Len(l) + 1
    <3>1. PICK j \in 1 .. Len(l) : l[j] = f
        BY <1>2, <1>3, <2>1
    <3> QED
        BY <1>2, <2>1, <3>1
  <2>2. CASE i # Len(l) + 1
    <3>1. i \in 1 .. Len(l) /\ a[i] = l[i]
        BY <1>2, <1>3, <2>2
    <3>2. PICK j \in 1 .. i - 1 : l[j] = f
        BY <1>3, <3>1 DEF InOrder
    <3>3. a[j] = l[j]
        BY <1>2, <3>1
    <3> QED
        BY <3>2, <3>3
  <2> QED
      BY <2>1, <2>2
<1> QED
    BY <1>1, <1>3 DEF InOrder

\* When the first event of a line is written or dropped, the rest is in order.
LEMMA InOrderTail ==
    ASSUME NEW x \in Nat, NEW q \in Seq(Nat), NEW k \in Nat, NEW n \in Nat, NEW R,
           InOrder(<<x>> \o q, k, R), k <= n, x <= n
    PROVE  InOrder(q, n, R)
<1>1. PICK l : l = <<x>> \o q
    OBVIOUS
<1>2. /\ Len(l) = Len(q) + 1 /\ l[1] = x
      /\ \A i \in 1 .. Len(q) : l[i + 1] = q[i]
    BY <1>1, PrependProperties
<1>3. ASSUME NEW i \in 1 .. Len(q), NEW f \in n + 1 .. q[i] - 1, f \notin R
      PROVE  \E j \in 1 .. i - 1 : q[j] = f
  <2>1. i + 1 \in 1 .. Len(l) /\ f \in k + 1 .. l[i + 1] - 1
      BY <1>2, <1>3
  <2>2. PICK j \in 1 .. (i + 1) - 1 : l[j] = f
      BY <1>1, <1>3, <2>1 DEF InOrder
  <2>3. j # 1 /\ j - 1 \in 1 .. i - 1 /\ j - 1 \in 1 .. Len(q) /\ (j - 1) + 1 = j
      BY <1>2, <1>3, <2>2
  <2>4. q[j - 1] = l[j]
      BY <1>2, <2>2, <2>3
  <2> QED
      BY <2>2, <2>3, <2>4
<1> QED
    BY <1>3 DEF InOrder

LEMMA CompleteTail ==
    ASSUME NEW x \in Nat, NEW q \in Seq(Nat), NEW k \in Nat, NEW n \in Nat,
           NEW end \in Nat, NEW R, NEW A,
           Complete(<<x>> \o q, k, end, R, A), k <= n, x <= n
    PROVE  Complete(q, n, end, R, A)
<1>1. PICK l : l = <<x>> \o q
    OBVIOUS
<1>2. /\ Len(l) = Len(q) + 1 /\ l[1] = x
      /\ \A i \in 1 .. Len(q) : l[i + 1] = q[i]
    BY <1>1, PrependProperties
<1>3. ASSUME NEW f \in n + 1 .. end, f \notin R, f \notin A
      PROVE  \E j \in 1 .. Len(q) : q[j] = f
  <2>1. PICK j \in 1 .. Len(l) : l[j] = f
      BY <1>1, <1>3 DEF Complete
  <2>2. j # 1 /\ j - 1 \in 1 .. Len(q)
      BY <1>2, <1>3, <2>1
  <2>3. q[j - 1] = l[j]
      BY <1>2, <2>2
  <2> QED
      BY <2>1, <2>2, <2>3
<1> QED
    BY <1>3 DEF Complete

\* What is first in line comes after refused events only.
LEMMA InOrderFirst ==
    ASSUME NEW x \in Nat, NEW q \in Seq(Nat), NEW k \in Nat, NEW R,
           InOrder(<<x>> \o q, k, R)
    PROVE  /\ k + 1 .. x - 1 \subseteq R
           /\ InOrder(<<x>> \o <<>>, k, R)
<1>1. PICK l : l = <<x>> \o q
    OBVIOUS
<1>2. Len(l) = Len(q) + 1 /\ l[1] = x
    BY <1>1, PrependProperties
<1>3. k + 1 .. x - 1 \subseteq R
    BY <1>1, <1>2 DEF InOrder
<1>4. PICK m : m = <<x>> \o <<>>
    OBVIOUS
<1>5. Len(m) = 1 /\ m[1] = x
  <2>1. <<>> \in Seq(Nat) /\ Len(<<>>) = 0
      OBVIOUS
  <2> QED
      BY <1>4, <2>1, PrependProperties
<1>6. InOrder(m, k, R)
    BY <1>3, <1>5 DEF InOrder
<1> QED
    BY <1>3, <1>4, <1>6

-----------------------------------------------------------------------------
(* Moves of a stream.                                                      *)

LEMMA LineTyped ==
    ASSUME NEW st \in Handler, NEW s \in Subscription
    PROVE  Line(st, s) \in Seq(Nat) /\ s.queue \in Seq(Nat) /\ st.hand \in Nat
           /\ st.page \in Seq(Nat) /\ Len(st.page) \in Nat
<1>1. s.queue \in Seq(Events) /\ st.page \in Seq(Events) /\ st.hand \in Nat
    BY SizesTyped DEF Handler, Subscription
<1>2. s.queue \in Seq(Nat) /\ st.page \in Seq(Nat)
    BY <1>1, SizesTyped
<1> QED
    BY <1>1, <1>2, PrependProperties DEF Line

\* The log grows, more events are refused.
LEMMA TracksKept ==
    ASSUME NEW st \in Handler, NEW s \in Subscription, NEW cur \in Nat,
           NEW end \in Nat, NEW end2 \in Nat, NEW R, NEW R2,
           end <= end2, R \subseteq R2, Tracks(st, s, cur, end, R)
    PROVE  Tracks(st, s, cur, end2, R2)
<1>1. Shape(st, s, cur, end2)
  <2>1. /\ s.queue \in Seq(Nat) /\ st.hand \in Nat /\ Len(st.page) \in Nat
        /\ \A i \in 1 .. Len(s.queue) : s.queue[i] \in Nat
      BY LineTyped
  <2> QED
      BY <2>1 DEF Tracks, Shape
<1>2. ASSUME InOrder(Line(st, s), cur + Len(st.page), R)
      PROVE  InOrder(Line(st, s), cur + Len(st.page), R2)
    BY <1>2 DEF InOrder
<1> QED
    BY <1>1, <1>2 DEF Tracks

LEMMA AwaitsKept ==
    ASSUME NEW st \in Handler, NEW s \in Subscription, NEW cur \in Nat,
           NEW end \in Nat, NEW end2 \in Nat, NEW R, NEW R2, NEW A, NEW A2,
           end <= end2, R \subseteq R2, A \subseteq A2 \cup R2,
           end + 1 .. end2 \subseteq A2, Awaits(st, s, cur, end, R, A)
    PROVE  Awaits(st, s, cur, end2, R2, A2)
<1>1. PICK k \in Nat : k = cur + Len(st.page)
    BY LineTyped
<1>2. PICK l : l = Line(st, s)
    OBVIOUS
<1>3. ASSUME Complete(l, k, end, R, A)
      PROVE  Complete(l, k, end2, R2, A2)
  <2>1. \A f \in k + 1 .. end2 : f \in k + 1 .. end \/ f \in end + 1 .. end2
      OBVIOUS
  <2> QED
      BY <1>3, <2>1 DEF Complete
<1> QED
    BY <1>1, <1>2, <1>3 DEF Awaits

\* subscription.next(), by what it leaves.
Continues(s, s2, st2) ==
    \/ /\ s.queue # <<>>
       /\ st2 = [NoStream EXCEPT !.at = "write", !.hand = Head(s.queue)]
       /\ s2 = [s EXCEPT !.queue = Tail(s.queue)]
    \/ /\ s.queue = <<>> /\ s.open
       /\ st2 = [NoStream EXCEPT !.at = "waiting"] /\ s2 = s
    \/ st2 = NoStream /\ s2 = NoSubscription

LEMMA Blank ==
    /\ NoStream \in Handler /\ NoSubscription \in Subscription
    /\ NoStream.at = "off" /\ NoStream.page = <<>> /\ NoStream.hand = 0
    /\ ~NoSubscription.open /\ NoSubscription.queue = <<>> /\ ~NoStream.full
BY SizesTyped DEF NoStream, NoSubscription, Handler, Subscription

LEMMA ContinuesTyped ==
    ASSUME NEW s \in Subscription, NEW s2, NEW st2, Continues(s, s2, st2)
    PROVE  s2 \in Subscription /\ st2 \in Handler
<1>1. s.queue \in Seq(Events)
    BY DEF Subscription
<1>2. CASE s.queue # <<>> /\ st2 = [NoStream EXCEPT !.at = "write", !.hand = Head(s.queue)]
           /\ s2 = [s EXCEPT !.queue = Tail(s.queue)]
  <2>1. PICK q : q = s.queue
      OBVIOUS
  <2>2. Head(q) \in Events /\ Tail(q) \in Seq(Events)
      BY <1>1, <1>2, <2>1, HeadTailProperties
  <2>3. s2 \in Subscription
      BY <1>2, <2>1, <2>2 DEF Subscription
  <2>4. PICK e \in 0 .. MaxEvents : e = Head(s.queue)
      BY <2>1, <2>2 DEF Events
  <2>5. st2 \in Handler
      BY <1>2, <2>4, Blank DEF Handler, NoStream
  <2> QED
      BY <2>3, <2>5
<1>3. CASE st2 = [NoStream EXCEPT !.at = "waiting"] /\ s2 = s
    BY <1>3, Blank DEF Handler, NoStream
<1>4. CASE st2 = NoStream /\ s2 = NoSubscription
    BY <1>4, Blank
<1> QED
    BY <1>2, <1>3, <1>4 DEF Continues

\* A stream that has no page left and no event in its hand goes on.
LEMMA ContinuesTracks ==
    ASSUME NEW s \in Subscription, NEW s2, NEW st2, Continues(s, s2, st2),
           NEW k \in Nat, NEW end \in Nat, NEW R, k <= end,
           Len(s.queue) <= MaxPending,
           \A i \in 1 .. Len(s.queue) : s.queue[i] <= end,
           ~s.open => s.queue = <<>>,
           InOrder(s.queue, k, R)
    PROVE  Tracks(st2, s2, k, end, R)
<1>1. s.queue \in Seq(Nat) /\ s.queue \in Seq(Events)
    BY SizesTyped DEF Subscription
<1>2. PICK q \in Seq(Nat) : q = s.queue
    BY <1>1
<1>3. Len(<<>>) = 0
    OBVIOUS
<1>4. CASE q # <<>> /\ st2 = [NoStream EXCEPT !.at = "write", !.hand = Head(q)]
           /\ s2 = [s EXCEPT !.queue = Tail(q)]
  <2>1. /\ st2.at = "write" /\ st2.hand = Head(q) /\ st2.page = <<>>
        /\ s2.queue = Tail(q) /\ s2.open = s.open
      BY <1>4 DEF NoStream, Subscription
  <2>2. PICK x \in Nat, t \in Seq(Nat) : x = Head(q) /\ t = Tail(q)
      BY <1>4, HeadFirst
  <2>3. /\ x = q[1] /\ Len(q) >= 1 /\ Len(t) = Len(q) - 1
        /\ \A i \in 1 .. Len(q) - 1 : t[i] = q[i + 1]
      BY <1>4, <2>2, HeadFirst
  <2>4. s.open
      BY <1>2, <1>4
  <2>5. Shape(st2, s2, k, end)
    <3>1. Len(t) <= MaxPending /\ x <= end
        BY <1>2, <2>3, SizesTyped
    <3>2. ASSUME NEW i \in 1 .. Len(t)
          PROVE  t[i] <= end
      <4>1. i \in 1 .. Len(q) - 1 /\ i + 1 \in 1 .. Len(q)
          BY <2>3
      <4> QED
          BY <4>1, <1>2, <2>3
    <3> QED
        BY <1>3, <2>1, <2>2, <2>4, <3>1, <3>2 DEF Shape
  <2>6. Line(st2, s2) = q
      BY <1>4, <2>1, HeadBack DEF Line
  <2>7. k + Len(st2.page) = k
      BY <1>3, <2>1
  <2> QED
      BY <1>2, <2>5, <2>6, <2>7 DEF Tracks
<1>5. CASE q = <<>> /\ s.open /\ st2 = [NoStream EXCEPT !.at = "waiting"] /\ s2 = s
  <2>1. st2.at = "waiting" /\ st2.page = <<>> /\ st2.hand = 0
      BY <1>5 DEF NoStream
  <2>2. k + Len(st2.page) = k
      BY <1>3, <2>1
  <2>3. Shape(st2, s2, k, end)
    <3>1. s2.queue = <<>> /\ s2.open /\ Len(s2.queue) = 0 /\ Len(st2.page) = 0
        BY <1>2, <1>3, <1>5, <2>1
    <3>2. Len(s2.queue) <= MaxPending /\ st2.hand <= end
        BY <2>1, <3>1, SizesTyped
    <3>3. \A i \in 1 .. Len(st2.page) : st2.page[i] = k + i
        BY <3>1
    <3>4. \A i \in 1 .. Len(s2.queue) : s2.queue[i] <= end
        BY <3>1
    <3> QED
        BY <2>1, <2>2, <3>1, <3>2, <3>3, <3>4 DEF Shape
  <2>4. Line(st2, s2) = s.queue
      BY <1>5, <2>1 DEF Line
  <2> QED
      BY <2>2, <2>3, <2>4 DEF Tracks
<1>6. CASE st2 = NoStream /\ s2 = NoSubscription
    BY <1>3, <1>6, Blank, SizesTyped DEF Tracks, Shape, Live
<1> QED
    BY <1>2, <1>4, <1>5, <1>6, Zenon DEF Continues

LEMMA ContinuesAwaits ==
    ASSUME NEW s \in Subscription, NEW s2, NEW st2, Continues(s, s2, st2),
           NEW k \in Nat, NEW end \in Nat, NEW R, NEW A,
           s.open => Complete(s.queue, k, end, R, A)
    PROVE  Awaits(st2, s2, k, end, R, A)
<1>1. s.queue \in Seq(Nat)
    BY SizesTyped DEF Subscription
<1>2. PICK q \in Seq(Nat) : q = s.queue
    BY <1>1
<1>3. Len(<<>>) = 0
    OBVIOUS
<1>4. CASE q # <<>> /\ st2 = [NoStream EXCEPT !.at = "write", !.hand = Head(q)]
           /\ s2 = [s EXCEPT !.queue = Tail(q)]
  <2>1. /\ st2.at = "write" /\ st2.hand = Head(q) /\ st2.page = <<>>
        /\ s2.queue = Tail(q) /\ s2.open = s.open
      BY <1>4 DEF NoStream, Subscription
  <2>2. Line(st2, s2) = q
      BY <1>4, <2>1, HeadFirst, HeadBack DEF Line
  <2>3. k + Len(st2.page) = k
      BY <1>3, <2>1
  <2> QED
      BY <1>2, <2>1, <2>2, <2>3 DEF Awaits
<1>5. CASE q = <<>> /\ s.open /\ st2 = [NoStream EXCEPT !.at = "waiting"] /\ s2 = s
  <2>1. st2.at = "waiting" /\ st2.page = <<>> /\ k + Len(st2.page) = k
      BY <1>3, <1>5 DEF NoStream
  <2>2. Line(st2, s2) = s.queue
      BY <1>5, <2>1 DEF Line
  <2> QED
      BY <1>5, <2>1, <2>2 DEF Awaits
<1>6. CASE st2 = NoStream /\ s2 = NoSubscription
    BY <1>6, Blank DEF Awaits
<1> QED
    BY <1>2, <1>4, <1>5, <1>6, Zenon DEF Continues

\* RunEventHub.publish, by what it leaves of a subscription and its stream: they
\* do not change, the event is last in line, or the queue was full.
LEMMA Published ==
    ASSUME NEW st \in Handler, NEW s \in Subscription, NEW e \in Events,
           NEW cur \in Nat, NEW end \in Nat, e <= end, Shape(st, s, cur, end)
    PROVE  LET s2 == push(s, st, e)  st2 == handed(s, st, e) IN
           /\ s2 \in Subscription /\ st2 \in Handler
           /\ Shape(st2, s2, cur, end)
           /\ st2.page = st.page /\ (Live(st2) <=> Live(st))
           /\ \/ ~s.open /\ s2 = s /\ st2 = st
              \/ s.open /\ s2.open /\ Line(st2, s2) = Append(Line(st, s), e)
              \/ /\ s.open /\ ~s2.open /\ st2 = st
                 /\ Line(st2, s2) =
                       IF st.at = "write" THEN <<st.hand>> \o <<>> ELSE <<>>
<1> DEFINE s2 == push(s, st, e)
           st2 == handed(s, st, e)
<1>1. /\ s.queue \in Seq(Events) /\ s.open \in BOOLEAN
      /\ s.queue \in Seq(Nat) /\ st.hand \in Nat /\ e \in Nat /\ e \in 0 .. MaxEvents
    BY SizesTyped, LineTyped DEF Subscription, Events
<1>2. CASE ~s.open
  <2>1. ~queued(s, st)
      BY <1>2 DEF queued
  <2>2. s2 = s /\ st2 = st
      BY <1>2, <2>1 DEF push, handed
  <2> QED
      BY <1>2, <2>2
<1>3. CASE s.open /\ st.at = "waiting"
  <2>1. ~queued(s, st)
      BY <1>3 DEF queued
  <2>2. s2 = s /\ st2 = [st EXCEPT !.at = "write", !.hand = e]
      BY <1>3, <2>1 DEF push, handed
  <2>3. /\ st2 \in Handler /\ st2.at = "write" /\ st2.hand = e
        /\ st2.page = st.page /\ st2.full = st.full
      BY <1>1, <2>2 DEF Handler
  <2>4. s.queue = <<>>
      BY <1>3 DEF Shape
  <2>5. Shape(st2, s2, cur, end)
      BY <1>3, <2>2, <2>3, <2>4 DEF Shape
  <2>6. Line(st, s) = <<>> /\ Line(st2, s2) = <<e>> \o <<>>
      BY <1>3, <2>2, <2>3, <2>4 DEF Line
  <2>7. <<e>> \o <<>> = Append(<<>>, e)
      OBVIOUS
  <2>8. Live(st) /\ Live(st2)
      BY <1>3, <2>3 DEF Live
  <2> QED
      BY <1>3, <2>2, <2>3, <2>5, <2>6, <2>7, <2>8
<1>4. CASE s.open /\ st.at # "waiting" /\ Len(s.queue) < MaxPending
  <2>1. queued(s, st)
      BY <1>4 DEF queued
  <2>2. s2 = [s EXCEPT !.queue = Append(@, e)] /\ st2 = st
      BY <1>4, <2>1 DEF push, handed
  <2>3. PICK q \in Seq(Events) : q = s.queue
      BY <1>1
  <2>4. PICK a \in Seq(Events) : a = Append(q, e)
      BY AppendProperties
  <2>5. /\ Len(a) = Len(q) + 1 /\ a[Len(q) + 1] = e
        /\ \A i \in 1 .. Len(q) : a[i] = q[i]
      BY <2>4, AppendProperties
  <2>6. s2.queue = a /\ s2.open /\ s2 \in Subscription
      BY <1>4, <2>2, <2>3, <2>4 DEF Subscription
  <2>7. \A i \in 1 .. Len(a) : a[i] <= end
    <3>1. ASSUME NEW i \in 1 .. Len(a)
          PROVE  i = Len(q) + 1 \/ i \in 1 .. Len(q)
        BY <2>5
    <3> QED
        BY <2>3, <2>5, <3>1 DEF Shape
  <2>8. Len(a) <= MaxPending
      BY <1>4, <2>3, <2>5, SizesTyped
  <2>9. Shape(st2, s2, cur, end)
      BY <1>4, <2>2, <2>6, <2>7, <2>8 DEF Shape
  <2>10. Line(st2, s2) = Append(Line(st, s), e)
    <3>1. CASE st.at = "write"
      <4>1. PICK x \in Nat : x = st.hand
          BY <1>1
      <4>2. <<x>> \o Append(q, e) = Append(<<x>> \o q, e)
          BY <1>1, <2>3, PrependAppend
      <4> QED
          BY <2>2, <2>3, <2>4, <2>6, <3>1, <4>1, <4>2 DEF Line
    <3>2. CASE st.at # "write"
        BY <2>2, <2>3, <2>4, <2>6, <3>2 DEF Line
    <3> QED
        BY <3>1, <3>2
  <2> QED
      BY <1>4, <2>2, <2>6, <2>9, <2>10
<1>5. CASE s.open /\ st.at # "waiting" /\ ~(Len(s.queue) < MaxPending)
  <2>1. queued(s, st)
      BY <1>5 DEF queued
  <2>2. s2 = NoSubscription /\ st2 = st
      BY <1>5, <2>1 DEF push, handed
  <2>3. Len(<<>>) = 0 /\ MaxPending \in Nat
      BY SizesTyped
  <2>4. Shape(st2, s2, cur, end)
      BY <1>5, <2>2, <2>3, Blank DEF Shape
  <2>5. Line(st2, s2) = IF st.at = "write" THEN <<st.hand>> \o <<>> ELSE <<>>
      BY <2>2, Blank DEF Line
  <2> QED
      BY <1>5, <2>2, <2>4, <2>5, Blank
<1> QED
    BY <1>1, <1>2, <1>3, <1>4, <1>5

\* What is missing before the published event was refused.
LEMMA PublishedTracks ==
    ASSUME NEW st \in Handler, NEW s \in Subscription, NEW e \in Events,
           NEW cur \in Nat, NEW end \in Nat, NEW R, NEW A, e <= end,
           Tracks(st, s, cur, end, R), Awaits(st, s, cur, end, R, A),
           \A f \in A : e <= f
    PROVE  Tracks(handed(s, st, e), push(s, st, e), cur, end, R)
<1>1. PICK s2, st2 : s2 = push(s, st, e) /\ st2 = handed(s, st, e)
    OBVIOUS
<1>2. /\ s2 \in Subscription /\ st2 \in Handler
      /\ Shape(st2, s2, cur, end)
      /\ st2.page = st.page /\ (Live(st2) <=> Live(st))
      /\ \/ ~s.open /\ s2 = s /\ st2 = st
         \/ s.open /\ s2.open /\ Line(st2, s2) = Append(Line(st, s), e)
         \/ /\ s.open /\ ~s2.open /\ st2 = st
            /\ Line(st2, s2) =
                  IF st.at = "write" THEN <<st.hand>> \o <<>> ELSE <<>>
    BY <1>1, Published DEF Tracks
<1>3. PICK l \in Seq(Nat), k \in Nat : l = Line(st, s) /\ k = cur + Len(st.page)
    BY LineTyped
<1>4. SUFFICES ASSUME Live(st)
               PROVE  InOrder(Line(st2, s2), k, R)
    BY <1>1, <1>2, <1>3 DEF Tracks
<1>5. InOrder(l, k, R)
    BY <1>3, <1>4 DEF Tracks
<1>6. CASE s.open /\ s2.open /\ Line(st2, s2) = Append(l, e)
  <2>1. ASSUME NEW f \in k + 1 .. e - 1, f \notin R
        PROVE  \E j \in 1 .. Len(l) : l[j] = f
    <3>1. f \in k + 1 .. end /\ ~(e <= f)
        BY SizesTyped
    <3> QED
        BY <1>3, <1>4, <1>6, <2>1, <3>1 DEF Awaits, Complete
  <2>2. e \in Nat
      BY SizesTyped
  <2> QED
      BY <1>5, <1>6, <2>1, <2>2, InOrderAppend
<1>7. CASE Line(st2, s2) = IF st.at = "write" THEN <<st.hand>> \o <<>> ELSE <<>>
  <2>1. CASE st.at = "write"
    <3>1. InOrder(<<st.hand>> \o s.queue, k, R)
        BY <1>3, <1>5, <2>1 DEF Line
    <3> QED
        BY <1>7, <2>1, <3>1, LineTyped, InOrderFirst
  <2>2. CASE st.at # "write"
    <3>1. Line(st2, s2) = <<>> /\ Len(<<>>) = 0
        BY <1>7, <2>2
    <3> QED
        BY <3>1 DEF InOrder
  <2> QED
      BY <2>1, <2>2
<1> QED
    BY <1>2, <1>3, <1>5, <1>6, <1>7

LEMMA PublishedAwaits ==
    ASSUME NEW st \in Handler, NEW s \in Subscription, NEW e \in Events,
           NEW cur \in Nat, NEW end \in Nat, NEW R, NEW A, NEW A2, e <= end,
           Shape(st, s, cur, end), Awaits(st, s, cur, end, R, A),
           A \subseteq A2 \cup {e}
    PROVE  Awaits(handed(s, st, e), push(s, st, e), cur, end, R, A2)
<1>1. PICK s2, st2 : s2 = push(s, st, e) /\ st2 = handed(s, st, e)
    OBVIOUS
<1>2. /\ st2.page = st.page /\ (Live(st2) <=> Live(st))
      /\ \/ ~s.open /\ s2 = s /\ st2 = st
         \/ s.open /\ s2.open /\ Line(st2, s2) = Append(Line(st, s), e)
         \/ s.open /\ ~s2.open
    BY <1>1, Published
<1>3. PICK l \in Seq(Nat), k \in Nat : l = Line(st, s) /\ k = cur + Len(st.page)
    BY LineTyped
<1>4. SUFFICES ASSUME Live(st), s2.open
               PROVE  Complete(Line(st2, s2), k, end, R, A2)
    BY <1>1, <1>2, <1>3 DEF Awaits
<1>5. s.open /\ Line(st2, s2) = Append(l, e)
    BY <1>2, <1>3, <1>4
<1>6. PICK a : a = Append(l, e)
    OBVIOUS
<1>7. /\ Len(a) = Len(l) + 1 /\ a[Len(l) + 1] = e
      /\ \A i \in 1 .. Len(l) : a[i] = l[i]
    BY <1>6, SizesTyped, AppendProperties
<1>8. Complete(l, k, end, R, A)
    BY <1>3, <1>4, <1>5 DEF Awaits
<1>9. ASSUME NEW f \in k + 1 .. end, f \notin R, f \notin A2
      PROVE  \E j \in 1 .. Len(a) : a[j] = f
  <2>1. CASE f = e
      BY <1>7, <2>1
  <2>2. CASE f # e
    <3>1. PICK j \in 1 .. Len(l) : l[j] = f
        BY <1>8, <1>9, <2>2 DEF Complete
    <3>2. j \in 1 .. Len(a) /\ a[j] = f
        BY <1>7, <3>1
    <3> QED
        BY <3>2
  <2> QED
      BY <2>1, <2>2
<1> QED
    BY <1>5, <1>6, <1>9 DEF Complete

-----------------------------------------------------------------------------
(* Steps of the store and the dispatcher.                                  *)

LEMMA CursorTyped ==
    ASSUME Types, NEW c \in Clients
    PROVE  /\ Cursor(c) \in Nat /\ stream[c] \in Handler /\ sub[c] \in Subscription
           /\ seen[c] \in Seq(Events)
           /\ log \in Nat /\ closed \in BOOLEAN
<1>1. PICK q \in Seq(Events) : q = seen[c]
    BY DEF Types
<1>2. q # <<>> => q[Len(q)] \in Events
    BY EmptySeq, LenProperties, ElementOfSeq
<1>3. Cursor(c) \in Nat
    BY <1>1, <1>2, SizesTyped DEF Cursor, Last
<1> QED
    BY <1>1, <1>3, SizesTyped DEF Types

\* No stream moves: the log may grow, more may be refused, and what was ahead of
\* the dispatcher stays ahead of it, is refused, or it is closed.
LEMMA OthersMove ==
    ASSUME IInv, UNCHANGED reader, log' \in Nat, log <= log',
           refused \subseteq refused',
           \/ closed'
           \/ /\ ~closed /\ Ahead \subseteq Ahead' \cup refused'
              /\ log + 1 .. log' \subseteq Ahead'
    PROVE  \A c \in Clients : ClientInv(c)'
<1> SUFFICES ASSUME NEW c \in Clients
             PROVE  ClientInv(c)'
    OBVIOUS
<1>1. /\ Types /\ ClientInv(c)
    BY DEF IInv
<1>2. PICK st \in Handler, s \in Subscription, k \in Nat :
          st = stream[c] /\ s = sub[c] /\ k = Cursor(c)
    BY <1>1, CursorTyped
<1>3. stream'[c] = st /\ sub'[c] = s /\ Cursor(c)' = k /\ log \in Nat
    BY <1>1, <1>2, CursorTyped DEF reader, Cursor
<1>4. Tracks(st, s, k, log', refused')
    BY <1>1, <1>2, <1>3, TracksKept DEF ClientInv
<1>5. ASSUME ~closed'
      PROVE  Awaits(st, s, k, log', refused', Ahead')
    BY <1>1, <1>2, <1>3, <1>5, AwaitsKept DEF ClientInv
<1> QED
    BY <1>3, <1>4, <1>5 DEF ClientInv

\* Statuses may change, ranges do not.
Marked ==
    /\ Len(outbox') = Len(outbox)
    /\ \A m \in 1 .. Len(outbox) :
          outbox'[m].from = outbox[m].from /\ outbox'[m].through = outbox[m].through

LEMMA MarkStatus ==
    ASSUME Types, Ranges, SettledWasPublished, NEW m \in 1 .. Len(outbox),
           NEW status \in {"pending", "delayed", "leased", "expired", "settled"},
           SetStatus(m, status), published' = published,
           status = "settled" => Carried(m) \subseteq published
    PROVE  /\ outbox' \in Seq(Message) /\ Marked /\ SettledWasPublished'
           /\ outbox'[m].status = status
           /\ \A n \in 1 .. Len(outbox) : n # m => outbox'[n].status = outbox[n].status
<1>1. outbox \in Seq(Message) /\ DOMAIN outbox = 1 .. Len(outbox)
    BY DEF Types
<1>2. PICK v : v = [outbox[m] EXCEPT !.status = status]
    OBVIOUS
<1>3. outbox[m] \in Message
    BY <1>1
<1>4. /\ v \in Message /\ v.from = outbox[m].from /\ v.through = outbox[m].through
      /\ v.status = status
    BY <1>2, <1>3 DEF Message
<1>5. outbox' = [outbox EXCEPT ![m] = v]
    BY <1>2 DEF SetStatus
<1>6. outbox' \in Seq(Message) /\ Len(outbox') = Len(outbox)
    BY <1>1, <1>4, <1>5, ExceptSeq
<1>7. /\ outbox'[m] = v
      /\ \A n \in 1 .. Len(outbox) : n # m => outbox'[n] = outbox[n]
    BY <1>1, <1>5
<1>8. Marked
    BY <1>4, <1>6, <1>7 DEF Marked
<1>9. DOMAIN outbox' = 1 .. Len(outbox)
    BY <1>1, <1>5
<1>10. SettledWasPublished'
  <2>1. ASSUME NEW n \in 1 .. Len(outbox), outbox'[n].status = "settled"
        PROVE  outbox'[n].from .. outbox'[n].through \subseteq published
    <3>1. CASE n = m
        BY <1>4, <1>7, <2>1, <3>1 DEF Carried
    <3>2. CASE n # m
        BY <1>1, <1>7, <2>1, <3>2 DEF SettledWasPublished
    <3> QED
        BY <3>1, <3>2
  <2> QED
      BY <1>9, <2>1 DEF SettledWasPublished
<1> QED
    BY <1>4, <1>6, <1>7, <1>8, <1>10

\* A step of the dispatcher or of a lease publishes nothing.  What it still had to
\* publish before it goes on, it still has, or that was refused, or it is closed.
LEMMA DispatcherMoves ==
    ASSUME IInv, UNCHANGED <<log, reader, published>>, Types', Handling',
           Marked, SettledWasPublished', refused \subseteq refused',
           \/ closed'
           \/ /\ ~closed
              /\ \A m \in 1 .. Len(outbox) : \A f \in Carried(m) :
                    Unpublished(m, f) => Unpublished(m, f)' \/ f \in refused'
    PROVE  IInv'
<1>1. Types /\ Ranges
    BY DEF IInv
<1>2. log \in Nat
    BY <1>1, SizesTyped DEF Types
<1>3. Ranges'
    BY <1>1 DEF Ranges, Marked
<1>4. ASSUME ~closed'
      PROVE  Ahead \subseteq Ahead' \cup refused'
  <2>1. ASSUME NEW f \in Ahead
        PROVE  f \in Ahead' \cup refused'
    <3>1. PICK m \in 1 .. Len(outbox) : f \in Carried(m) /\ Unpublished(m, f)
        BY DEF Ahead
    <3>2. Unpublished(m, f)' \/ f \in refused'
        BY <1>4, <3>1
    <3>3. m \in 1 .. Len(outbox') /\ f \in Carried(m)' /\ f \in 1 .. log'
        BY <3>1 DEF Marked, Carried, Ahead
    <3> QED
        BY <3>2, <3>3 DEF Ahead
  <2> QED
      BY <2>1
<1>5. log + 1 .. log' = {}
    BY <1>2
<1>6. \A c \in Clients : ClientInv(c)'
    BY <1>2, <1>4, <1>5, OthersMove
<1> QED
    BY <1>3, <1>6 DEF IInv

LEMMA GotoLeaves ==
    ASSUME Types, NEW at \in Places, Goto(at)
    PROVE  /\ disp' \in [at: Places, msg: Nat, event: 0 .. MaxEvents]
           /\ disp'.at = at /\ disp'.msg = disp.msg /\ disp'.event = disp.event
BY DEF Types, Goto

LEMMA StopLeaves ==
    ASSUME StopDrain
    PROVE  /\ disp' \in [at: Places, msg: Nat, event: 0 .. MaxEvents]
           /\ disp'.at = "idle" /\ disp'.msg = 0 /\ disp'.event = 0
BY SizesTyped DEF StopDrain, Idle, Places

LEMMA MessageTyped ==
    ASSUME Types, NEW m \in 1 .. Len(outbox)
    PROVE  /\ outbox[m] \in Message /\ outbox[m].from \in Nat
           /\ outbox[m].through \in Nat
           /\ outbox[m].from \in Events /\ outbox[m].through \in Events
<1>1. outbox[m] \in Message
    BY DEF Types
<1> QED
    BY <1>1, SizesTyped DEF Message

LEMMA CommitKeeps ==
    ASSUME IInv, NEW n \in 1 .. 2, commit(n)
    PROVE  IInv'
<1>1. Types /\ Ranges /\ Handling /\ SettledWasPublished
    BY DEF IInv
<1>2. log \in Nat /\ log' = log + n /\ log' \in 0 .. MaxEvents /\ log' \in Nat
    BY <1>1, SizesTyped DEF Types, commit
<1>3. PICK v : v = [from |-> log + 1, through |-> log + n, status |-> "pending"]
    OBVIOUS
<1>4. /\ v \in Message /\ v.from = log + 1 /\ v.through = log + n
      /\ v.status = "pending"
    BY <1>2, <1>3, SizesTyped DEF Message, Events
<1>5. outbox \in Seq(Message) /\ Len(outbox) \in Nat /\ outbox' = Append(outbox, v)
    BY <1>1, <1>3 DEF Types, commit
<1>6. /\ outbox' \in Seq(Message) /\ Len(outbox') = Len(outbox) + 1
      /\ outbox'[Len(outbox) + 1] = v
      /\ \A m \in 1 .. Len(outbox) : outbox'[m] = outbox[m]
    BY <1>4, <1>5, AppendProperties
<1>7. Types'
    BY <1>1, <1>2, <1>6 DEF Types, commit, reader, bounds
<1>8. Ranges'
  <2>1. ASSUME NEW m \in 1 .. Len(outbox')
        PROVE  /\ outbox'[m].from <= outbox'[m].through
               /\ outbox'[m].through <= log'
    <3>1. CASE m = Len(outbox) + 1
        BY <1>2, <1>4, <1>6, <3>1
    <3>2. CASE m # Len(outbox) + 1
      <4>1. m \in 1 .. Len(outbox)
          BY <1>5, <1>6, <3>2
      <4> QED
          BY <1>1, <1>2, <1>6, <4>1, MessageTyped DEF Ranges
    <3> QED
        BY <3>1, <3>2
  <2>2. ASSUME NEW m \in 1 .. Len(outbox'), NEW j \in 1 .. Len(outbox'), m < j
        PROVE  outbox'[m].through < outbox'[j].from
    <3>1. m \in 1 .. Len(outbox)
        BY <1>5, <1>6, <2>2
    <3>2. CASE j = Len(outbox) + 1
        BY <1>1, <1>2, <1>4, <1>6, <3>1, <3>2, MessageTyped DEF Ranges
    <3>3. CASE j # Len(outbox) + 1
      <4>1. j \in 1 .. Len(outbox)
          BY <1>5, <1>6, <3>3
      <4> QED
          BY <1>1, <1>6, <2>2, <3>1, <4>1 DEF Ranges
    <3> QED
        BY <3>2, <3>3
  <2> QED
      BY <2>1, <2>2 DEF Ranges
<1>9. disp' = disp /\ closed' = closed /\ published' = published /\ refused' = refused
    BY DEF commit, bounds
<1>10. Handling'
  <2>1. disp.msg \in Nat /\ disp.msg <= Len(outbox')
      BY <1>1, <1>5, <1>6 DEF Types, Handling
  <2>2. CASE disp.msg = 0
      BY <1>1, <1>9, <2>1, <2>2 DEF Handling
  <2>3. CASE disp.msg # 0
    <3>1. disp.msg \in 1 .. Len(outbox)
        BY <1>1, <2>1, <2>3 DEF Handling
    <3>2. outbox'[disp.msg] = outbox[disp.msg]
        BY <1>6, <3>1
    <3> QED
        BY <1>1, <1>9, <2>1, <2>3, <3>2 DEF Handling, Carried
  <2> QED
      BY <2>2, <2>3
<1>11. SettledWasPublished'
  <2>1. DOMAIN outbox = 1 .. Len(outbox) /\ DOMAIN outbox' = 1 .. Len(outbox')
      BY <1>5, <1>6
  <2>2. ASSUME NEW m \in 1 .. Len(outbox'), outbox'[m].status = "settled"
        PROVE  outbox'[m].from .. outbox'[m].through \subseteq published
    <3>1. m # Len(outbox) + 1
        BY <1>4, <1>6, <2>2
    <3>2. m \in 1 .. Len(outbox)
        BY <1>5, <1>6, <3>1
    <3> QED
        BY <1>1, <1>6, <2>1, <2>2, <3>2 DEF SettledWasPublished
  <2> QED
      BY <1>9, <2>1, <2>2 DEF SettledWasPublished
<1>12. Ahead \subseteq Ahead'
  <2>1. ASSUME NEW f \in Ahead
        PROVE  f \in Ahead'
    <3>1. PICK m \in 1 .. Len(outbox) : f \in Carried(m) /\ Unpublished(m, f)
        BY DEF Ahead
    <3>2. m \in 1 .. Len(outbox') /\ f \in 1 .. log'
        BY <1>2, <1>5, <1>6 DEF Ahead
    <3>3. f \in Carried(m)' /\ Unpublished(m, f)'
        BY <1>6, <1>9, <3>1 DEF Carried, Unpublished
    <3> QED
        BY <3>2, <3>3 DEF Ahead
  <2> QED
      BY <2>1
<1>13. log + 1 .. log' \subseteq Ahead'
  <2>1. ASSUME NEW f \in log + 1 .. log'
        PROVE  f \in Ahead'
    <3>1. PICK m : m = Len(outbox) + 1
        OBVIOUS
    <3>2. m \in 1 .. Len(outbox') /\ f \in 1 .. log' /\ m > disp'.msg
        BY <1>1, <1>2, <1>5, <1>6, <1>9, <3>1 DEF Handling, Types
    <3>3. f \in Carried(m)' /\ Unpublished(m, f)'
        BY <1>2, <1>4, <1>6, <3>1, <3>2 DEF Carried, Unpublished
    <3> QED
        BY <3>2, <3>3 DEF Ahead
  <2> QED
      BY <2>1
<1>14. \A c \in Clients : ClientInv(c)'
  <2>1. log <= log' /\ UNCHANGED reader /\ refused \subseteq refused'
      BY <1>2, <1>9 DEF commit
  <2>2. closed' \/ ~closed
      BY <1>9
  <2> QED
      BY <1>2, <1>12, <1>13, <2>1, <2>2, OthersMove
<1> QED
    BY <1>7, <1>8, <1>10, <1>11, <1>14 DEF IInv

\* The same messages.
LEMMA SameMessages ==
    ASSUME Types, SettledWasPublished, UNCHANGED <<outbox, published>>
    PROVE  Marked /\ SettledWasPublished' /\ outbox' \in Seq(Message)
BY DEF Types, Marked, SettledWasPublished

LEMMA HandlingKept ==
    ASSUME Types, Handling, Marked, UNCHANGED <<disp, closed, published>>
    PROVE  Handling'
<1>1. disp.msg \in Nat /\ disp.msg <= Len(outbox) /\ Len(outbox) \in Nat
    BY DEF Types, Handling
<1>2. CASE disp.msg = 0
    BY <1>1, <1>2 DEF Handling, Marked
<1>3. CASE disp.msg # 0
  <2>1. disp.msg \in 1 .. Len(outbox)
      BY <1>1, <1>3
  <2>2. /\ outbox'[disp.msg].from = outbox[disp.msg].from
        /\ outbox'[disp.msg].through = outbox[disp.msg].through
      BY <2>1 DEF Marked
  <2> QED
      BY <1>1, <1>3, <2>2 DEF Handling, Marked, Carried
<1> QED
    BY <1>2, <1>3

\* The dispatcher is done with its message, or has none.
LEMMA HandlingIdle ==
    ASSUME disp'.at \in {"idle", "claim"}, disp'.msg = 0, disp'.event = 0,
           Len(outbox') \in Nat
    PROVE  Handling'
BY DEF Handling

LEMMA BusyMessage ==
    ASSUME Types, Handling, disp.at \notin {"idle", "claim"}
    PROVE  /\ disp.msg \in 1 .. Len(outbox) /\ disp.msg > 0
           /\ disp.event \in Carried(disp.msg)
           /\ outbox[disp.msg].from \in Nat /\ outbox[disp.msg].through \in Nat
           /\ outbox[disp.msg].from >= 1
           /\ disp.event \in Nat
           /\ Len(outbox) \in Nat
<1>1. disp.msg \in 1 .. Len(outbox) /\ Len(outbox) \in Nat /\ disp.msg > 0
    BY DEF Types, Handling
<1>2. disp.event \in Carried(disp.msg)
    BY <1>1 DEF Handling
<1>3. /\ outbox[disp.msg].from \in Nat /\ outbox[disp.msg].through \in Nat
      /\ outbox[disp.msg].from \in Events
    BY <1>1, MessageTyped
<1> QED
    BY <1>1, <1>2, <1>3 DEF Carried, Events

\* A message becomes claimable.
LEMMA BecomesClaimable ==
    ASSUME IInv, NEW m \in DOMAIN outbox, NEW status \in {"pending", "expired"},
           SetStatus(m, status), outbox[m].status \notin {"pending", "expired"},
           UNCHANGED <<log, disp, closed, reader, published, refused, refusals>>,
           faults' \in 0 .. MaxFaults
    PROVE  IInv'
<1>1. Types /\ Ranges /\ Handling /\ SettledWasPublished
    BY DEF IInv
<1>2. m \in 1 .. Len(outbox)
    BY <1>1 DEF Types
<1>3. /\ outbox' \in Seq(Message) /\ Marked /\ SettledWasPublished'
      /\ \A n \in 1 .. Len(outbox) : n # m => outbox'[n].status = outbox[n].status
      /\ outbox'[m].status = status
    BY <1>1, <1>2, MarkStatus
<1>4. Types'
    BY <1>1, <1>3 DEF Types, reader
<1>5. Handling'
    BY <1>1, <1>3, HandlingKept
<1>6. \A n \in 1 .. Len(outbox) : \A f \in Carried(n) :
          Unpublished(n, f) => Unpublished(n, f)'
    BY <1>3 DEF Unpublished
<1>7. closed' \/ ~closed
    OBVIOUS
<1> QED
    BY <1>3, <1>4, <1>5, <1>6, <1>7, DispatcherMoves

LEMMA TimeKeeps ==
    ASSUME IInv, timePasses
    PROVE  IInv'
<1>1. PICK m \in DOMAIN outbox : delayEnds(m) \/ leaseExpires(m)
    BY DEF timePasses
<1>2. faults \in 0 .. MaxFaults /\ MaxFaults \in Nat
    BY BoundAssumption DEF IInv, Types
<1>3. CASE delayEnds(m)
    BY <1>2, <1>3, BecomesClaimable DEF delayEnds, bounds
<1>4. CASE leaseExpires(m)
  <2>1. faults' \in 0 .. MaxFaults
      BY <1>2, <1>4 DEF leaseExpires
  <2> QED
      BY <1>4, <2>1, BecomesClaimable DEF leaseExpires
<1> QED
    BY <1>1, <1>3, <1>4

\* A step that changes only where the dispatcher is.
LEMMA PlaceMoves ==
    ASSUME IInv, UNCHANGED <<log, outbox, closed, reader, published, bounds>>,
           disp' \in [at: Places, msg: Nat, event: 0 .. MaxEvents],
           Handling',
           closed \/ \A m \in 1 .. Len(outbox) : \A f \in Carried(m) :
                         Unpublished(m, f) => Unpublished(m, f)'
    PROVE  IInv'
<1>1. Types /\ Ranges /\ Handling /\ SettledWasPublished
    BY DEF IInv
<1>2. Marked /\ SettledWasPublished'
    BY <1>1, SameMessages
<1>3. Types'
    BY <1>1 DEF Types, reader, bounds
<1>4. refused \subseteq refused'
    BY DEF bounds
<1>5. closed' \/ (~closed /\ closed' = closed)
    OBVIOUS
<1> QED
    BY <1>2, <1>3, <1>4, <1>5, DispatcherMoves

LEMMA WakeKeeps ==
    ASSUME IInv, wake
    PROVE  IInv'
<1>1. Types /\ Handling
    BY DEF IInv
<1>2. "claim" \in Places
    BY DEF Places
<1>3. /\ disp' \in [at: Places, msg: Nat, event: 0 .. MaxEvents]
      /\ disp'.at = "claim" /\ disp'.msg = disp.msg /\ disp'.event = disp.event
    BY <1>1, <1>2, GotoLeaves DEF wake
<1>4. disp.msg = 0 /\ disp.event = 0
    BY <1>1 DEF Handling, wake
<1>5. Len(outbox') \in Nat
    BY <1>1 DEF Types, wake
<1>6. Handling'
    BY <1>3, <1>4, <1>5, HandlingIdle
<1>7. \A m \in 1 .. Len(outbox) : \A f \in Carried(m) :
          Unpublished(m, f) => Unpublished(m, f)'
    BY <1>3 DEF Unpublished, wake
<1> QED
    BY <1>3, <1>6, <1>7, PlaceMoves DEF wake

\* A set of natural numbers that is not empty has its minimum.
LEMMA MinIn ==
    ASSUME NEW S \in SUBSET Nat, S # {}
    PROVE  Min(S) \in S /\ \A y \in S : Min(S) <= y
<1>1. PICK m \in S : \A y \in S : <<y, m>> \notin OpToRel(<, Nat)
    BY NatLessThanWellFounded, WFMin, Zenon
<1>2. \A y \in S : ~(y < m)
    BY <1>1, Zenon DEF OpToRel
<1>3. \A y \in S : m <= y
    BY <1>2
<1> QED
    BY <1>3 DEF Min

LEMMA ClaimKeeps ==
    ASSUME IInv, claimNextOutbox
    PROVE  IInv'
<1>1. Types /\ Ranges /\ Handling /\ SettledWasPublished
    BY DEF IInv
<1>2. disp.msg = 0 /\ disp.at = "claim"
    BY <1>1 DEF Handling, claimNextOutbox
<1>3. UNCHANGED <<log, closed, reader, published, bounds>>
    BY DEF claimNextOutbox
<1>4. CASE StopDrain /\ UNCHANGED outbox
  <2>1. Handling'
    <3>1. Len(outbox') \in Nat
        BY <1>1, <1>4 DEF Types
    <3> QED
        BY <1>4, <3>1, StopLeaves, HandlingIdle
  <2>2. \A m \in 1 .. Len(outbox) : \A f \in Carried(m) :
            Unpublished(m, f) => Unpublished(m, f)'
      BY <1>2, <1>4, StopLeaves DEF Unpublished
  <2> QED
      BY <1>3, <1>4, <2>1, <2>2, StopLeaves, PlaceMoves
<1>5. CASE Claimable # {} /\ ~(StopDrain /\ UNCHANGED outbox)
  <2>1. DOMAIN outbox = 1 .. Len(outbox) /\ Claimable \subseteq Nat
      BY <1>1 DEF Types, Claimable
  <2>2. PICK m \in Claimable : m = Min(Claimable) /\ \A n \in Claimable : m <= n
      BY <1>5, <2>1, MinIn
  <2>3. /\ SetStatus(m, "leased")
        /\ disp' = [at |-> "claimed", msg |-> m, event |-> outbox[m].from]
      BY <1>5, <2>2 DEF claimNextOutbox
  <2>4. m \in 1 .. Len(outbox) /\ m \in Nat /\ m # 0
      BY <1>1, <2>1, <2>2 DEF Claimable, Types
  <2>5. /\ outbox' \in Seq(Message) /\ Marked /\ SettledWasPublished'
        /\ \A n \in 1 .. Len(outbox) : n # m => outbox'[n].status = outbox[n].status
      BY <1>1, <1>3, <2>3, <2>4, MarkStatus
  <2>6. /\ outbox[m].from \in Events /\ outbox[m].from \in Nat
        /\ outbox[m].through \in Nat
      BY <1>1, <2>4, MessageTyped
  <2>7. Types'
    <3>1. outbox[m].from \in 0 .. MaxEvents
        BY <2>6, SizesTyped DEF Events
    <3>2. disp' \in [at: Places, msg: Nat, event: 0 .. MaxEvents]
        BY <2>3, <2>4, <3>1 DEF Places
    <3> QED
        BY <1>1, <1>3, <2>5, <3>2 DEF Types, reader, bounds
  <2>8. Handling'
    <3>1. outbox'[m].from = outbox[m].from /\ outbox'[m].through = outbox[m].through
        BY <2>4, <2>5 DEF Marked
    <3>2. outbox[m].from \in outbox[m].from .. outbox[m].through
        BY <1>1, <2>4, <2>6 DEF Ranges
    <3>3. disp'.at = "claimed" /\ disp'.msg = m /\ disp'.event = outbox[m].from
        BY <2>3
    <3>4. m <= Len(outbox')
        BY <2>4, <2>5 DEF Marked
    <3> QED
        BY <2>4, <3>1, <3>2, <3>3, <3>4 DEF Handling, Carried
  <2>9. ASSUME NEW n \in 1 .. Len(outbox), NEW f \in Carried(n), Unpublished(n, f)
        PROVE  Unpublished(n, f)'
    <3>1. n \in Claimable
        BY <1>2, <2>1, <2>9 DEF Unpublished, Claimable
    <3>2. CASE n = m
      <4>1. outbox[m].from <= f
          BY <2>6, <2>9, <3>2 DEF Carried
      <4> QED
          BY <2>3, <3>2, <4>1 DEF Unpublished
    <3>3. CASE n # m
      <4>1. n > m
          BY <2>2, <2>4, <3>1, <3>3
      <4> QED
          BY <2>3, <2>5, <3>1, <3>3, <4>1 DEF Unpublished, Claimable
    <3> QED
        BY <3>2, <3>3
  <2>10. UNCHANGED <<log, reader, published>> /\ refused \subseteq refused'
         /\ (closed' \/ ~closed)
      BY <1>3 DEF bounds
  <2> QED
      BY <2>5, <2>7, <2>8, <2>9, <2>10, DispatcherMoves
<1> QED
    BY <1>4, <1>5 DEF claimNextOutbox

\* A closed dispatcher stops or returns, what it has not published is excused.
LEMMA GoesOn ==
    ASSUME IInv, UNCHANGED <<log, outbox, closed, reader, published, bounds>>,
           disp.at \in {"claimed", "read", "consume", "publish", "published"},
           NEW at \in {"read", "consume", "publish", "published", "acknowledge"},
           Goto(at),
           closed => at = "published",
           ~closed => <<disp.at, at>> \in {<<"claimed", "read">>, <<"read", "consume">>,
                          <<"consume", "publish">>, <<"published", "acknowledge">>}
    PROVE  IInv'
<1>1. Types /\ Handling
    BY DEF IInv
<1>2. at \in Places
    BY DEF Places
<1>3. /\ disp' \in [at: Places, msg: Nat, event: 0 .. MaxEvents]
      /\ disp'.at = at /\ disp'.msg = disp.msg /\ disp'.event = disp.event
    BY <1>1, <1>2, GotoLeaves
<1>4. /\ disp.msg \in 1 .. Len(outbox) /\ disp.msg > 0
      /\ outbox[disp.msg].from \in Nat
    BY <1>1, BusyMessage
<1>5. CASE closed
  <2>1. Handling'
      BY <1>1, <1>3, <1>4, <1>5 DEF Handling, Carried
  <2> QED
      BY <1>3, <1>5, <2>1, PlaceMoves
<1>6. CASE ~closed
  <2>1. ~closed' /\ outbox' = outbox /\ published' = published
      BY <1>6
  <2>2. CASE disp.at = "claimed" /\ at = "read"
    <3>1. Handling'
        BY <1>1, <1>3, <1>4, <2>1, <2>2 DEF Handling, Carried
    <3>2. \A m \in 1 .. Len(outbox) : \A f \in Carried(m) :
              Unpublished(m, f) => Unpublished(m, f)'
        BY <1>3, <2>1, <2>2 DEF Unpublished
    <3> QED
        BY <1>3, <3>1, <3>2, PlaceMoves
  <2>3. CASE disp.at = "read" /\ at = "consume"
    <3>1. Handling'
        BY <1>1, <1>3, <1>4, <2>1, <2>3 DEF Handling, Carried
    <3>2. \A m \in 1 .. Len(outbox) : \A f \in Carried(m) :
              Unpublished(m, f) => Unpublished(m, f)'
        BY <1>3, <2>1, <2>3 DEF Unpublished
    <3> QED
        BY <1>3, <3>1, <3>2, PlaceMoves
  <2>4. CASE disp.at = "consume" /\ at = "publish"
    <3>1. disp.event = outbox[disp.msg].from
        BY <1>1, <2>4 DEF Handling
    <3>2. outbox[disp.msg].from .. disp.event - 1 = {}
        BY <1>4, <3>1
    <3>3. Handling'
        BY <1>1, <1>3, <1>4, <2>1, <2>4, <3>2 DEF Handling, Carried
    <3>4. \A m \in 1 .. Len(outbox) : \A f \in Carried(m) :
              Unpublished(m, f) => Unpublished(m, f)'
        BY <1>3, <2>1, <2>4 DEF Unpublished
    <3> QED
        BY <1>3, <3>3, <3>4, PlaceMoves
  <2>5. CASE disp.at = "published" /\ at = "acknowledge"
    <3>1. Handling'
        BY <1>1, <1>3, <1>4, <1>6, <2>1, <2>5 DEF Handling, Carried
    <3>2. \A m \in 1 .. Len(outbox) : \A f \in Carried(m) :
              Unpublished(m, f) => Unpublished(m, f)'
        BY <1>3, <2>1, <2>5 DEF Unpublished
    <3> QED
        BY <1>3, <3>1, <3>2, PlaceMoves
  <2> QED
      BY <1>6, <2>2, <2>3, <2>4, <2>5
<1> QED
    BY <1>5, <1>6

LEMMA StopsClosed ==
    ASSUME IInv, UNCHANGED <<log, outbox, closed, reader, published, bounds>>,
           closed, StopDrain
    PROVE  IInv'
<1>1. Len(outbox') \in Nat
    BY DEF IInv, Types
<1>2. Handling'
    BY <1>1, StopLeaves, HandlingIdle
<1> QED
    BY <1>2, StopLeaves, PlaceMoves

LEMMA AnswersKeep ==
    ASSUME IInv, claimAnswered \/ listRunEvents \/ consumeRunEvents \/ publishReturns
    PROVE  IInv'
<1>1. CASE claimAnswered
  <2>1. CASE closed
      BY <1>1, <2>1, StopsClosed DEF claimAnswered, DrainOn
  <2>2. CASE ~closed
      BY <1>1, <2>2, GoesOn DEF claimAnswered, DrainOn
  <2> QED
      BY <2>1, <2>2
<1>2. CASE listRunEvents
  <2>1. CASE closed
    <3>1. Goto("published")
        BY <1>2, <2>1 DEF listRunEvents, PublishOn
    <3> QED
        BY <1>2, <2>1, <3>1, GoesOn DEF listRunEvents
  <2>2. CASE ~closed
    <3>1. Goto("consume")
        BY <1>2, <2>2 DEF listRunEvents, PublishOn
    <3> QED
        BY <1>2, <2>2, <3>1, GoesOn DEF listRunEvents
  <2> QED
      BY <2>1, <2>2
<1>3. CASE consumeRunEvents
  <2>1. CASE closed
    <3>1. Goto("published")
        BY <1>3, <2>1 DEF consumeRunEvents, PublishOn
    <3> QED
        BY <1>3, <2>1, <3>1, GoesOn DEF consumeRunEvents
  <2>2. CASE ~closed
    <3>1. Goto("publish")
        BY <1>3, <2>2 DEF consumeRunEvents, PublishOn
    <3> QED
        BY <1>3, <2>2, <3>1, GoesOn DEF consumeRunEvents
  <2> QED
      BY <2>1, <2>2
<1>4. CASE publishReturns
  <2>1. CASE closed
      BY <1>4, <2>1, StopsClosed DEF publishReturns, DrainOn
  <2>2. CASE ~closed
      BY <1>4, <2>2, GoesOn DEF publishReturns, DrainOn
  <2> QED
      BY <2>1, <2>2
<1> QED
    BY <1>1, <1>2, <1>3, <1>4

\* The dispatcher leaves its message, the status of which may change: what it had
\* yet to publish was refused.
LEMMA LeavesMessage ==
    ASSUME IInv, disp.at \in {"claimed", "read", "consume", "acknowledge"},
           UNCHANGED <<log, closed, reader, published>>,
           disp' \in [at: Places, msg: Nat, event: 0 .. MaxEvents],
           disp'.at \in {"idle", "claim"}, disp'.msg = 0, disp'.event = 0,
           \/ UNCHANGED outbox
           \/ SetStatus(disp.msg, "delayed")
           \/ SetStatus(disp.msg, "settled") /\ disp.at = "acknowledge",
           refused \subseteq refused', refused' \subseteq 1 .. log,
           disp.at # "acknowledge" => Carried(disp.msg) \subseteq refused',
           faults' \in 0 .. MaxFaults, refusals' \in 0 .. MaxRefusals
    PROVE  IInv'
<1>1. Types /\ Ranges /\ Handling /\ SettledWasPublished
    BY DEF IInv
<1>2. disp.msg \in 1 .. Len(outbox) /\ disp.msg > 0
    BY <1>1, BusyMessage
<1>3. /\ outbox' \in Seq(Message) /\ Marked /\ SettledWasPublished'
      /\ \A n \in 1 .. Len(outbox) : n # disp.msg => outbox'[n].status = outbox[n].status
  <2>1. CASE UNCHANGED outbox
      BY <1>1, <2>1, SameMessages
  <2>2. CASE SetStatus(disp.msg, "delayed")
      BY <1>1, <1>2, <2>2, MarkStatus
  <2>3. CASE SetStatus(disp.msg, "settled") /\ disp.at = "acknowledge"
    <3>1. Carried(disp.msg) \subseteq published
        BY <1>1, <2>3 DEF Handling
    <3> QED
        BY <1>1, <1>2, <2>3, <3>1, MarkStatus
  <2> QED
      BY <2>1, <2>2, <2>3
<1>4. Types'
    BY <1>1, <1>3 DEF Types, reader
<1>5. Handling'
  <2>1. Len(outbox') \in Nat
      BY <1>3
  <2> QED
      BY <2>1, HandlingIdle
<1>6. ASSUME NEW m \in 1 .. Len(outbox), NEW f \in Carried(m), Unpublished(m, f)
      PROVE  Unpublished(m, f)' \/ f \in refused'
  <2>1. CASE m > disp.msg /\ outbox[m].status \in {"pending", "expired"}
    <3>1. m # disp.msg /\ m > disp'.msg
        BY <1>1, <2>1 DEF Types
    <3> QED
        BY <1>3, <2>1, <3>1 DEF Unpublished
  <2>2. CASE m = disp.msg /\ disp.at \in {"claimed", "read", "consume", "publish"}
      BY <1>6, <2>2
  <2> QED
      BY <1>6, <2>1, <2>2 DEF Unpublished
<1>7. closed' \/ ~closed
    OBVIOUS
<1> QED
    BY <1>3, <1>4, <1>5, <1>6, <1>7, DispatcherMoves

LEMMA AcknowledgeKeeps ==
    ASSUME IInv, acknowledgeOutbox \/ acknowledgeFails
    PROVE  IInv'
<1>1. Types
    BY DEF IInv
<1>2. /\ faults \in 0 .. MaxFaults /\ refusals \in 0 .. MaxRefusals
      /\ MaxFaults \in Nat /\ refused \subseteq 1 .. log
    BY <1>1, BoundAssumption DEF Types
<1>3. CASE acknowledgeOutbox
  <2>1. /\ disp' \in [at: Places, msg: Nat, event: 0 .. MaxEvents]
        /\ disp'.at \in {"idle", "claim"} /\ disp'.msg = 0 /\ disp'.event = 0
    <3>1. disp' = Idle \/ disp' = [Idle EXCEPT !.at = "claim"]
        BY <1>3 DEF acknowledgeOutbox, StopDrain
    <3> QED
        BY <3>1, SizesTyped DEF Idle, Places
  <2> QED
      BY <1>2, <1>3, <2>1, LeavesMessage DEF acknowledgeOutbox, bounds
<1>4. CASE acknowledgeFails
  <2>1. faults' \in 0 .. MaxFaults
      BY <1>2, <1>4 DEF acknowledgeFails
  <2>2. StopDrain
      BY <1>4 DEF acknowledgeFails, RetryClaim
  <2> QED
      BY <1>2, <1>4, <2>1, <2>2, StopLeaves, LeavesMessage
         DEF acknowledgeFails, RetryClaim
<1> QED
    BY <1>3, <1>4

LEMMA RefuseKeeps ==
    ASSUME IInv, refuse
    PROVE  IInv' /\ refused' \in SUBSET (1 .. log) /\ refused \subseteq refused'
<1>1. Types /\ Ranges /\ Handling
    BY DEF IInv
<1>2. /\ faults \in 0 .. MaxFaults /\ refusals \in 0 .. MaxRefusals
      /\ MaxRefusals \in Nat /\ refused \subseteq 1 .. log
    BY <1>1, BoundAssumption DEF Types
<1>3. disp.at \in {"claimed", "read", "consume"}
    BY DEF refuse
<1>4. /\ disp.msg \in 1 .. Len(outbox)
      /\ outbox[disp.msg].from \in Nat /\ outbox[disp.msg].through \in Nat
      /\ outbox[disp.msg].from >= 1
    BY <1>1, <1>3, BusyMessage
<1>5. refused' = refused \cup Carried(disp.msg)
    BY DEF refuse, Carried
<1>6. Carried(disp.msg) \subseteq 1 .. log
  <2>1. outbox[disp.msg].through <= log /\ log \in Nat
      BY <1>1, <1>4, SizesTyped DEF Ranges, Types
  <2> QED
      BY <1>4, <2>1 DEF Carried
<1>7. refusals' \in 0 .. MaxRefusals
    BY <1>2 DEF refuse
<1>8. StopDrain /\ (UNCHANGED outbox \/ SetStatus(disp.msg, "delayed"))
    BY DEF refuse, RetryClaim
<1>9. faults' \in 0 .. MaxFaults
    BY <1>2 DEF refuse
<1>10. UNCHANGED <<log, closed, reader, published>>
    BY DEF refuse
<1>11. refused \subseteq refused' /\ refused' \subseteq 1 .. log
       /\ Carried(disp.msg) \subseteq refused'
    BY <1>2, <1>5, <1>6
<1>12. IInv'
    BY <1>3, <1>7, <1>8, <1>9, <1>10, <1>11, StopLeaves, LeavesMessage
<1> QED
    BY <1>11, <1>12

LEMMA CloseKeeps ==
    ASSUME IInv, close
    PROVE  IInv'
<1>1. Types /\ Handling /\ SettledWasPublished /\ Ranges
    BY DEF IInv
<1>2. closed' /\ UNCHANGED <<log, outbox, disp, reader, published, refused, refusals>>
    BY DEF close
<1>3. faults' \in 0 .. MaxFaults
    BY <1>1, BoundAssumption DEF Types, close
<1>4. Types'
    BY <1>1, <1>2, <1>3 DEF Types, close, reader
<1>5. Handling'
    BY <1>1, <1>2 DEF Handling, Carried
<1>6. Marked /\ SettledWasPublished'
    BY <1>1, <1>2, SameMessages
<1> QED
    BY <1>2, <1>4, <1>5, <1>6, DispatcherMoves

\* Either the range goes on after event e, or e was its last.
Passes(m, e) ==
    /\ disp' \in [at: Places, msg: Nat, event: 0 .. MaxEvents]
    /\ disp'.msg = m
    /\ \/ /\ disp'.at = "publish" /\ disp'.event = e + 1
          /\ e + 1 \in Carried(m)
          /\ outbox[m].from .. (e + 1) - 1 \subseteq published'
       \/ /\ disp'.at = "published" /\ disp'.event = e
          /\ e = outbox[m].through /\ Carried(m) \subseteq published'

LEMMA PublishPasses ==
    ASSUME Types, Ranges, Handling, disp.at = "publish", afterPublish,
           published' = published \cup {disp.event}
    PROVE  Passes(disp.msg, disp.event)
<1>1. PICK m, e : m = disp.msg /\ e = disp.event
    OBVIOUS
<1>2. /\ m \in 1 .. Len(outbox) /\ e \in Carried(m)
      /\ outbox[m].from \in Nat /\ outbox[m].through \in Nat /\ e \in Nat
    BY <1>1, BusyMessage
<1>3. outbox[m].through \in Events /\ outbox[m].from <= e /\ e <= outbox[m].through
    BY <1>2, MessageTyped DEF Carried
<1>4. outbox[m].from .. e \subseteq published'
  <2>1. outbox[m].from .. e - 1 \subseteq published
      BY <1>1 DEF Handling
  <2>2. \A f \in outbox[m].from .. e : f = e \/ f \in outbox[m].from .. e - 1
      BY <1>2
  <2> QED
      BY <1>1, <2>1, <2>2
<1>5. CASE e < outbox[m].through
  <2>1. disp' = [disp EXCEPT !.event = e + 1]
      BY <1>1, <1>5 DEF afterPublish
  <2>2. e + 1 \in 0 .. MaxEvents
      BY <1>2, <1>3, <1>5, SizesTyped DEF Events
  <2>3. /\ disp' \in [at: Places, msg: Nat, event: 0 .. MaxEvents]
        /\ disp'.at = "publish" /\ disp'.msg = m /\ disp'.event = e + 1
      BY <1>1, <2>1, <2>2 DEF Types
  <2>4. e + 1 \in Carried(m) /\ (e + 1) - 1 = e
      BY <1>2, <1>3, <1>5 DEF Carried
  <2> QED
      BY <1>1, <1>4, <2>3, <2>4 DEF Passes
<1>6. CASE ~(e < outbox[m].through)
  <2>1. Goto("published") /\ e = outbox[m].through
      BY <1>1, <1>2, <1>3, <1>6 DEF afterPublish
  <2>2. "published" \in Places
      BY DEF Places
  <2>3. /\ disp' \in [at: Places, msg: Nat, event: 0 .. MaxEvents]
        /\ disp'.at = "published" /\ disp'.msg = m /\ disp'.event = e
      BY <1>1, <2>1, <2>2, GotoLeaves
  <2> QED
      BY <1>1, <1>4, <2>1, <2>3 DEF Passes, Carried
<1> QED
    BY <1>5, <1>6

LEMMA PublishKeeps ==
    ASSUME IInv, publish
    PROVE  IInv'
<1>1. Types /\ Ranges /\ Handling /\ SettledWasPublished
    BY DEF IInv
<1>2. disp.at = "publish" /\ UNCHANGED <<log, outbox, closed, seen, bounds>>
    BY DEF publish
<1>3. CASE closed /\ Goto("published") /\ UNCHANGED <<sub, stream, published>>
    BY <1>2, <1>3, GoesOn DEF reader
<1>4. CASE ~closed /\ sub' = [c \in Clients |-> push(sub[c], stream[c], disp.event)]
           /\ stream' = [c \in Clients |-> handed(sub[c], stream[c], disp.event)]
           /\ published' = published \cup {disp.event}
           /\ afterPublish
  <2>1. PICK m, e : m = disp.msg /\ e = disp.event
      OBVIOUS
  <2>2. /\ m \in 1 .. Len(outbox) /\ m > 0 /\ e \in Carried(m)
        /\ outbox[m].from \in Nat /\ outbox[m].through \in Nat
        /\ outbox[m].from >= 1 /\ e \in Nat /\ Len(outbox) \in Nat
      BY <1>1, <1>2, <2>1, BusyMessage
  <2>3. log \in Nat /\ log <= MaxEvents /\ outbox[m].through <= log
      BY <1>1, <2>2, SizesTyped DEF Types, Ranges
  <2>4. e \in Events /\ e <= log /\ outbox[m].from <= e /\ e <= outbox[m].through
      BY <2>2, <2>3, SizesTyped DEF Carried, Events
  <2>5. Passes(m, e)
      BY <1>1, <1>2, <1>4, <2>1, PublishPasses
  <2>6. Handling'
      BY <1>2, <2>2, <2>5 DEF Passes, Handling, Carried
  <2>7. \A f \in Ahead : e <= f
    <3>1. ASSUME NEW f \in Ahead
          PROVE  e <= f
      <4>1. PICK n \in 1 .. Len(outbox) : f \in Carried(n) /\ Unpublished(n, f)
          BY DEF Ahead
      <4>2. CASE n > m
        <5>1. outbox[m].through < outbox[n].from /\ outbox[n].from <= f /\ f \in Nat
            BY <1>1, <2>2, <4>1, <4>2, MessageTyped DEF Ranges, Carried
        <5>2. outbox[n].from \in Nat
            BY <1>1, MessageTyped
        <5> QED
            BY <2>2, <2>4, <5>1, <5>2
      <4>3. CASE ~(n > m)
          BY <2>1, <4>1, <4>3 DEF Unpublished
      <4> QED
          BY <4>2, <4>3
    <3> QED
        BY <3>1
  <2>8. Ahead \subseteq Ahead' \cup {e}
    <3>1. ASSUME NEW f \in Ahead, f # e
          PROVE  f \in Ahead'
      <4>1. PICK n \in 1 .. Len(outbox) : f \in Carried(n) /\ Unpublished(n, f)
          BY DEF Ahead
      <4>2. n \in 1 .. Len(outbox') /\ f \in Carried(n)' /\ f \in 1 .. log'
          BY <1>2, <4>1 DEF Ahead, Carried
      <4>3. CASE n > m /\ outbox[n].status \in {"pending", "expired"}
        <5>1. Unpublished(n, f)'
            BY <1>2, <2>5, <4>3 DEF Unpublished, Passes
        <5> QED
            BY <4>2, <5>1 DEF Ahead
      <4>4. CASE n = m /\ e <= f
        <5>1. e + 1 <= f /\ f <= outbox[m].through /\ ~(e = outbox[m].through)
            BY <2>2, <3>1, <4>1, <4>4 DEF Carried
        <5>2. disp'.at = "publish" /\ disp'.event = e + 1 /\ disp'.msg = m
            BY <2>2, <2>5, <5>1 DEF Passes
        <5>3. Unpublished(n, f)'
            BY <4>4, <5>1, <5>2 DEF Unpublished
        <5> QED
            BY <4>2, <5>3 DEF Ahead
      <4> QED
          BY <2>1, <4>1, <4>3, <4>4 DEF Unpublished
    <3> QED
        BY <3>1
  <2>9. ASSUME NEW c \in Clients
        PROVE  /\ sub'[c] \in Subscription /\ stream'[c] \in Handler
               /\ ClientInv(c)'
    <3>1. PICK st \in Handler, s \in Subscription, k \in Nat :
              st = stream[c] /\ s = sub[c] /\ k = Cursor(c)
        BY <1>1, CursorTyped
    <3>2. sub'[c] = push(s, st, e) /\ stream'[c] = handed(s, st, e)
        BY <1>4, <2>1, <3>1
    <3>3. Tracks(st, s, k, log, refused) /\ Awaits(st, s, k, log, refused, Ahead)
        BY <1>4, <3>1 DEF IInv, ClientInv
    <3>4. Shape(st, s, k, log)
        BY <3>3 DEF Tracks
    <3>5. sub'[c] \in Subscription /\ stream'[c] \in Handler
        BY <2>3, <2>4, <3>2, <3>4, Published
    <3>6. Tracks(handed(s, st, e), push(s, st, e), k, log, refused)
        BY <2>3, <2>4, <2>7, <3>3, PublishedTracks
    <3>7. Awaits(handed(s, st, e), push(s, st, e), k, log, refused, Ahead')
        BY <2>3, <2>4, <2>8, <3>3, <3>4, PublishedAwaits
    <3>8. Cursor(c)' = k /\ log' = log /\ refused' = refused
        BY <1>2, <3>1 DEF Cursor, bounds
    <3> QED
        BY <3>2, <3>5, <3>6, <3>7, <3>8 DEF ClientInv
  <2>10. Types'
    <3>1. sub' \in [Clients -> Subscription] /\ stream' \in [Clients -> Handler]
        BY <1>4, <2>9
    <3>2. published' \subseteq Events
        BY <1>1, <1>4, <2>1, <2>4 DEF Types
    <3> QED
        BY <1>1, <1>2, <2>5, <3>1, <3>2 DEF Types, Passes, bounds
  <2>11. Ranges' /\ SettledWasPublished'
    <3>1. published \subseteq published'
        BY <1>4
    <3> QED
        BY <1>1, <1>2, <3>1 DEF Ranges, SettledWasPublished
  <2> QED
      BY <2>6, <2>9, <2>10, <2>11 DEF IInv
<1> QED
    BY <1>3, <1>4 DEF publish

LEMMA CloseHubKeeps ==
    ASSUME IInv, closeHub
    PROVE  IInv'
<1>1. Types /\ Ranges /\ Handling /\ SettledWasPublished
    BY DEF IInv
<1>2. /\ closed /\ sub' = [c \in Clients |-> NoSubscription]
      /\ UNCHANGED <<log, outbox, disp, closed, stream, seen, published, bounds>>
    BY DEF closeHub
<1>3. Types'
    BY <1>1, <1>2, Blank DEF Types, bounds
<1>4. Ranges' /\ Handling' /\ SettledWasPublished'
    BY <1>1, <1>2 DEF Ranges, Handling, SettledWasPublished, Carried
<1>5. ASSUME NEW c \in Clients
      PROVE  ClientInv(c)'
  <2>1. PICK st \in Handler, s \in Subscription, k \in Nat :
            st = stream[c] /\ s = sub[c] /\ k = Cursor(c)
      BY <1>1, CursorTyped
  <2>2. Tracks(st, s, k, log, refused)
      BY <2>1 DEF IInv, ClientInv
  <2>3. Shape(st, NoSubscription, k, log)
    <3>1. Len(<<>>) = 0
        OBVIOUS
    <3> QED
        BY <2>2, <3>1, Blank, SizesTyped DEF Tracks, Shape
  <2>4. ASSUME Live(st)
        PROVE  InOrder(Line(st, NoSubscription), k + Len(st.page), refused)
    <3>1. PICK n \in Nat : n = k + Len(st.page)
        BY LineTyped
    <3>2. CASE st.at = "write"
      <4>1. InOrder(<<st.hand>> \o s.queue, n, refused)
          BY <2>2, <2>4, <3>1, <3>2 DEF Tracks, Line
      <4>2. InOrder(<<st.hand>> \o <<>>, n, refused)
          BY <4>1, LineTyped, InOrderFirst
      <4> QED
          BY <3>1, <3>2, <4>2, Blank DEF Line
    <3>3. CASE st.at # "write"
      <4>1. Line(st, NoSubscription) = <<>> /\ Len(<<>>) = 0
          BY <3>3, Blank DEF Line
      <4> QED
          BY <4>1 DEF InOrder
    <3> QED
        BY <3>2, <3>3
  <2>5. /\ stream'[c] = st /\ sub'[c] = NoSubscription /\ Cursor(c)' = k
        /\ log' = log /\ refused' = refused /\ closed'
      BY <1>2, <2>1 DEF Cursor, bounds
  <2> QED
      BY <2>3, <2>4, <2>5 DEF ClientInv, Tracks
<1> QED
    BY <1>3, <1>4, <1>5 DEF IInv

\* A client without a stream, whatever it has.
LEMMA OffTracks ==
    ASSUME NEW k \in Nat, NEW end \in Nat, NEW R, NEW A, k <= end
    PROVE  /\ Tracks(NoStream, NoSubscription, k, end, R)
           /\ Awaits(NoStream, NoSubscription, k, end, R, A)
<1>1. Len(<<>>) = 0
    OBVIOUS
<1>2. ~Live(NoStream)
    BY Blank DEF Live
<1>3. Shape(NoStream, NoSubscription, k, end)
    BY <1>1, Blank, SizesTyped DEF Shape
<1> QED
    BY <1>2, <1>3 DEF Tracks, Awaits

LEMMA RestartKeeps ==
    ASSUME IInv, restart
    PROVE  IInv'
<1>1. Types /\ Ranges /\ Handling /\ SettledWasPublished
    BY DEF IInv
<1>2. /\ closed' = FALSE /\ disp' = Idle
      /\ sub' = [c \in Clients |-> NoSubscription]
      /\ stream' = [c \in Clients |-> NoStream]
      /\ UNCHANGED <<log, outbox, seen, published, refused, refusals>>
    BY DEF restart
<1>3. faults' \in 0 .. MaxFaults
    BY <1>1, BoundAssumption DEF Types, restart
<1>4. /\ disp' \in [at: Places, msg: Nat, event: 0 .. MaxEvents]
      /\ disp'.at = "idle" /\ disp'.msg = 0 /\ disp'.event = 0
    BY <1>2, StopLeaves DEF StopDrain
<1>5. Types'
    BY <1>1, <1>2, <1>3, <1>4, Blank DEF Types
<1>6. Handling'
  <2>1. Len(outbox') \in Nat
      BY <1>1, <1>2 DEF Types
  <2> QED
      BY <1>4, <2>1, HandlingIdle
<1>7. Ranges' /\ SettledWasPublished'
    BY <1>1, <1>2 DEF Ranges, SettledWasPublished
<1>8. ASSUME NEW c \in Clients
      PROVE  ClientInv(c)'
  <2>1. PICK k \in Nat : k = Cursor(c)
      BY <1>1, CursorTyped
  <2>2. k <= log /\ log \in Nat
      BY <1>1, <2>1, CursorTyped DEF IInv, ClientInv, Tracks, Shape
  <2>3. /\ stream'[c] = NoStream /\ sub'[c] = NoSubscription /\ Cursor(c)' = k
        /\ log' = log /\ refused' = refused
      BY <1>2, <2>1 DEF Cursor
  <2> QED
      BY <2>2, <2>3, OffTracks DEF ClientInv
<1> QED
    BY <1>5, <1>6, <1>7, <1>8 DEF IInv

-----------------------------------------------------------------------------
(* Steps of a stream.                                                      *)

End(q) == IF q = <<>> THEN 0 ELSE Last(q)

\* A client gets nothing, or what comes next but for refused events.
GetsNext(c, q) ==
    \/ q = seen[c]
    \/ \E e \in Cursor(c) + 1 .. log :
          /\ Cursor(c) + 1 .. e - 1 \subseteq refused
          /\ q = Append(seen[c], e)

LEMMA WriteNext ==
    ASSUME Types, NEW c \in Clients, NEW e \in Cursor(c) + 1 .. log
    PROVE  /\ Append(seen[c], e) \in Seq(Events) /\ End(Append(seen[c], e)) = e
           /\ e \in Events /\ e \in Nat /\ e <= log
<1>1. e \in Events /\ e \in Nat /\ e <= log
    BY CursorTyped, SizesTyped DEF Types, Events
<1>2. PICK q \in Seq(Events) : q = seen[c]
    BY CursorTyped
<1>3. PICK a \in Seq(Events) : a = Append(q, e)
    BY <1>1, AppendProperties
<1>4. a # <<>> /\ Len(a) = Len(q) + 1 /\ a[Len(q) + 1] = e
    BY <1>1, <1>3, AppendProperties
<1> QED
    BY <1>1, <1>2, <1>3, <1>4 DEF End, Last

LEMMA Unmoved ==
    ASSUME Types, NEW c \in Clients
    PROVE  /\ sub = [sub EXCEPT ![c] = sub[c]]
           /\ stream = [stream EXCEPT ![c] = stream[c]]
           /\ seen = [seen EXCEPT ![c] = seen[c]]
           /\ End(seen[c]) = Cursor(c)
BY DEF Types, End, Cursor

LEMMA StreamMoves ==
    ASSUME IInv, NEW c \in Clients, NEW st \in Handler, NEW s \in Subscription,
           NEW q \in Seq(Events),
           UNCHANGED <<log, outbox, disp, closed, published, refused, refusals>>,
           faults' \in 0 .. MaxFaults,
           stream' = [stream EXCEPT ![c] = st], sub' = [sub EXCEPT ![c] = s],
           seen' = [seen EXCEPT ![c] = q],
           Tracks(st, s, End(q), log, refused),
           ~closed => Awaits(st, s, End(q), log, refused, Ahead)
    PROVE  IInv'
<1>1. Types /\ Ranges /\ Handling /\ SettledWasPublished
    BY DEF IInv
<1>2. Types'
    BY <1>1 DEF Types
<1>3. Ranges' /\ Handling' /\ SettledWasPublished'
    BY <1>1 DEF Ranges, Handling, SettledWasPublished, Carried
<1>4. Ahead' = Ahead
    BY DEF Ahead, Unpublished, Carried
<1>5. ASSUME NEW d \in Clients
      PROVE  ClientInv(d)'
  <2>1. CASE d = c
    <3>1. stream'[d] = st /\ sub'[d] = s /\ seen'[d] = q
        BY <1>1, <2>1 DEF Types
    <3>2. Cursor(d)' = End(q)
        BY <3>1 DEF Cursor, End
    <3> QED
        BY <1>4, <3>1, <3>2 DEF ClientInv
  <2>2. CASE d # c
    <3>1. stream'[d] = stream[d] /\ sub'[d] = sub[d] /\ seen'[d] = seen[d]
        BY <1>1, <2>2 DEF Types
    <3>2. Cursor(d)' = Cursor(d)
        BY <3>1 DEF Cursor
    <3>3. ClientInv(d)
        BY DEF IInv
    <3> QED
        BY <1>4, <3>1, <3>2, <3>3 DEF ClientInv
  <2> QED
      BY <2>1, <2>2
<1> QED
    BY <1>2, <1>3, <1>5 DEF IInv

LEMMA NextEventContinues ==
    ASSUME Types, NEW c \in Clients, NextEvent(c)
    PROVE  \E s \in Subscription, st \in Handler :
              /\ Continues(sub[c], s, st)
              /\ sub' = [sub EXCEPT ![c] = s]
              /\ stream' = [stream EXCEPT ![c] = st]
<1>1. sub[c] \in Subscription /\ sub \in [Clients -> Subscription]
    BY DEF Types
<1>2. CASE /\ sub[c].queue # <<>>
           /\ stream' = [stream EXCEPT ![c] = [NoStream EXCEPT !.at = "write",
                                               !.hand = Head(sub[c].queue)]]
           /\ sub' = [sub EXCEPT ![c].queue = Tail(@)]
  <2>1. PICK s, st : /\ s = [sub[c] EXCEPT !.queue = Tail(sub[c].queue)]
                     /\ st = [NoStream EXCEPT !.at = "write",
                                              !.hand = Head(sub[c].queue)]
      OBVIOUS
  <2>2. Continues(sub[c], s, st)
      BY <1>2, <2>1 DEF Continues
  <2>3. sub' = [sub EXCEPT ![c] = s]
      BY <1>1, <1>2, <2>1
  <2> QED
      BY <1>1, <1>2, <2>1, <2>2, <2>3, ContinuesTyped
<1>3. CASE /\ sub[c].queue = <<>> /\ sub[c].open
           /\ stream' = [stream EXCEPT ![c] = [NoStream EXCEPT !.at = "waiting"]]
           /\ UNCHANGED sub
  <2>1. PICK st : st = [NoStream EXCEPT !.at = "waiting"]
      OBVIOUS
  <2>2. Continues(sub[c], sub[c], st)
      BY <1>3, <2>1 DEF Continues
  <2> QED
      BY <1>1, <1>3, <2>1, <2>2, Unmoved, ContinuesTyped
<1>4. CASE sub[c].queue = <<>> /\ ~sub[c].open /\ EndStream(c)
  <2>1. Continues(sub[c], NoSubscription, NoStream)
      BY DEF Continues
  <2> QED
      BY <1>4, <2>1, Blank DEF EndStream
<1> QED
    BY <1>2, <1>3, <1>4 DEF NextEvent

\* The handler ends, with whatever the client has.
LEMMA StreamEnds ==
    ASSUME IInv, NEW c \in Clients, EndStream(c), NEW q \in Seq(Events),
           seen' = [seen EXCEPT ![c] = q], End(q) \in Nat, End(q) <= log,
           UNCHANGED <<log, outbox, disp, closed, published, refused, refusals>>,
           faults' \in 0 .. MaxFaults
    PROVE  IInv'
<1>1. log \in Nat
    BY SizesTyped DEF IInv, Types
<1>2. /\ Tracks(NoStream, NoSubscription, End(q), log, refused)
      /\ Awaits(NoStream, NoSubscription, End(q), log, refused, Ahead)
    BY <1>1, OffTracks
<1>3. NoStream \in Handler /\ NoSubscription \in Subscription
    BY Blank
<1>4. /\ stream' = [stream EXCEPT ![c] = NoStream]
      /\ sub' = [sub EXCEPT ![c] = NoSubscription]
    BY DEF EndStream
<1> QED
    BY <1>2, <1>3, <1>4, StreamMoves

\* The handler has nothing in its hand and goes on to the next event.
LEMMA StreamContinues ==
    ASSUME IInv, NEW c \in Clients, NextEvent(c), NEW q \in Seq(Events),
           seen' = [seen EXCEPT ![c] = q], End(q) \in Nat, End(q) <= log,
           UNCHANGED <<log, outbox, disp, closed, published, refused, refusals>>,
           faults' \in 0 .. MaxFaults,
           InOrder(sub[c].queue, End(q), refused),
           ~closed /\ sub[c].open =>
              Complete(sub[c].queue, End(q), log, refused, Ahead)
    PROVE  IInv'
<1>1. Types /\ log \in Nat /\ ClientInv(c)
    BY SizesTyped DEF IInv, Types
<1>2. PICK s2 \in Subscription, st2 \in Handler :
          /\ Continues(sub[c], s2, st2)
          /\ sub' = [sub EXCEPT ![c] = s2]
          /\ stream' = [stream EXCEPT ![c] = st2]
    BY <1>1, NextEventContinues
<1>3. PICK s \in Subscription : s = sub[c]
    BY <1>1, CursorTyped
<1>4. /\ Len(s.queue) <= MaxPending
      /\ \A i \in 1 .. Len(s.queue) : s.queue[i] <= log
      /\ ~s.open => s.queue = <<>>
    BY <1>1, <1>3 DEF ClientInv, Tracks, Shape
<1>5. Tracks(st2, s2, End(q), log, refused)
    BY <1>1, <1>2, <1>3, <1>4, ContinuesTracks
<1>6. ~closed => Awaits(st2, s2, End(q), log, refused, Ahead)
    BY <1>1, <1>2, <1>3, ContinuesAwaits
<1> QED
    BY <1>2, <1>5, <1>6, StreamMoves

LEMMA FaultTyped ==
    ASSUME Types, faults' = faults \/ (faults < MaxFaults /\ faults' = faults + 1)
    PROVE  faults' \in 0 .. MaxFaults
BY BoundAssumption DEF Types

LEMMA ConnectKeeps ==
    ASSUME IInv, NEW c \in Clients, connect(c)
    PROVE  IInv'
<1>1. Types /\ ClientInv(c)
    BY DEF IInv
<1>2. PICK s, st : /\ s = [open |-> TRUE, queue |-> <<>>]
                   /\ st = [NoStream EXCEPT !.at = "read"]
    OBVIOUS
<1>3. s \in Subscription /\ s.open /\ s.queue = <<>>
    BY <1>2 DEF Subscription
<1>4. st \in Handler /\ st.at = "read" /\ st.page = <<>> /\ st.hand = 0
    BY <1>2, Blank DEF NoStream, Handler
<1>5. Cursor(c) \in Nat /\ log \in Nat /\ Cursor(c) <= log
    BY <1>1, CursorTyped DEF ClientInv, Tracks, Shape
<1>6. Shape(st, s, Cursor(c), log)
  <2>1. Len(<<>>) = 0
      OBVIOUS
  <2> QED
      BY <1>3, <1>4, <1>5, <2>1, SizesTyped DEF Shape
<1>7. ~Live(st)
    BY <1>4 DEF Live
<1>8. /\ Tracks(st, s, Cursor(c), log, refused)
      /\ Awaits(st, s, Cursor(c), log, refused, Ahead)
    BY <1>6, <1>7 DEF Tracks, Awaits
<1>9. /\ UNCHANGED <<log, outbox, disp, closed, published, refused, refusals>>
      /\ faults' = faults /\ seen' = seen
      /\ sub' = [sub EXCEPT ![c] = s] /\ stream' = [stream EXCEPT ![c] = st]
    BY <1>2 DEF connect, bounds
<1>10. /\ seen' = [seen EXCEPT ![c] = seen[c]] /\ End(seen[c]) = Cursor(c)
       /\ seen[c] \in Seq(Events)
    BY <1>1, <1>9, Unmoved, CursorTyped
<1>11. faults' \in 0 .. MaxFaults
    BY <1>1, <1>9, FaultTyped
<1> QED
    BY <1>3, <1>4, <1>8, <1>9, <1>10, <1>11, StreamMoves

\* A page is the log from the cursor on; one that is not full ends with the log.
LEMMA PageReads ==
    ASSUME Types, NEW c \in Clients, Cursor(c) <= log
    PROVE  /\ Page(c) \in Seq(Events)
           /\ Cursor(c) + Len(Page(c)) <= log
           /\ \A i \in 1 .. Len(Page(c)) : Page(c)[i] = Cursor(c) + i
           /\ Len(Page(c)) # PageSize => Cursor(c) + Len(Page(c)) = log
<1>1. PICK k \in Nat : k = Cursor(c)
    BY CursorTyped
<1>2. log \in Nat /\ log <= MaxEvents /\ PageSize \in Nat \ {0} /\ MaxEvents \in Nat
    BY SizesTyped DEF Types
<1>3. PICK t \in Nat : t = IF k + PageSize < log THEN k + PageSize ELSE log
    BY <1>2
<1>4. PICK n \in Nat : n = t - k /\ t = k + n
  <2>1. t - k \in Nat /\ t = k + (t - k)
      BY <1>1, <1>2, <1>3
  <2> QED
      BY <2>1
<1>5. t <= log /\ (n # PageSize => t = log)
    BY <1>1, <1>2, <1>3, <1>4
<1>6. PICK p : p = [i \in 1 .. n |-> k + i]
    OBVIOUS
<1>7. p \in [1 .. n -> Events]
    BY <1>2, <1>4, <1>5, <1>6 DEF Events
<1>8. p \in Seq(Events) /\ Len(p) = n
    BY <1>7
<1>9. Page(c) = p
    BY <1>1, <1>3, <1>4, <1>6 DEF Page
<1> QED
    BY <1>1, <1>4, <1>5, <1>6, <1>8, <1>9

LEMMA ReadPageKeeps ==
    ASSUME IInv, NEW c \in Clients, readPage(c)
    PROVE  IInv'
<1>1. Types /\ ClientInv(c) /\ stream[c].at = "read"
    BY DEF IInv, readPage
<1>2. PICK p, k : p = Page(c) /\ k = Cursor(c)
    OBVIOUS
<1>3. k \in Nat /\ log \in Nat /\ k <= log
    BY <1>1, <1>2, CursorTyped DEF ClientInv, Tracks, Shape
<1>4. /\ p \in Seq(Events) /\ k + Len(p) <= log
      /\ \A i \in 1 .. Len(p) : p[i] = k + i
      /\ Len(p) # PageSize => k + Len(p) = log
    BY <1>1, <1>2, <1>3, PageReads
<1>5. PICK st : st = [at |-> "replay", page |-> p, full |-> Len(p) = PageSize,
                      hand |-> 0]
    OBVIOUS
<1>6. /\ st.at = "replay" /\ st.page = p /\ st.hand = 0
      /\ st.full = (Len(p) = PageSize)
    BY <1>5
<1>7. st \in Handler
  <2>1. (Len(p) = PageSize) \in BOOLEAN
      OBVIOUS
  <2> QED
      BY <1>4, <1>5, <2>1, SizesTyped DEF Handler
<1>8. PICK s \in Subscription : s = sub[c]
    BY <1>1, CursorTyped
<1>9. s.queue \in Seq(Nat) /\ Shape(stream[c], s, k, log)
    BY <1>1, <1>2, <1>8, LineTyped, CursorTyped DEF ClientInv, Tracks
<1>10. Shape(st, s, k, log)
    BY <1>1, <1>3, <1>4, <1>6, <1>9 DEF Shape
<1>11. Line(st, s) = s.queue
    BY <1>6 DEF Line
<1>12. ASSUME Live(st)
       PROVE  /\ InOrder(s.queue, k + Len(p), refused)
              /\ Complete(s.queue, k + Len(p), log, refused, Ahead)
  <2>1. ~st.full
      BY <1>6, <1>12 DEF Live
  <2>2. k + Len(p) = log
      BY <1>4, <1>6, <2>1
  <2>3. \A i \in 1 .. Len(s.queue) : s.queue[i] \in Nat /\ s.queue[i] <= log
      BY <1>9 DEF Shape
  <2>4. \A i \in 1 .. Len(s.queue) : log + 1 .. s.queue[i] - 1 = {}
      BY <1>3, <2>3
  <2>5. log + 1 .. log = {}
      BY <1>3
  <2> QED
      BY <2>2, <2>4, <2>5 DEF InOrder, Complete
<1>13. Tracks(st, s, k, log, refused) /\ Awaits(st, s, k, log, refused, Ahead)
    BY <1>6, <1>10, <1>11, <1>12 DEF Tracks, Awaits
<1>14. /\ UNCHANGED <<log, outbox, disp, closed, published, refused, refusals>>
       /\ faults' = faults /\ seen' = seen /\ sub' = sub
       /\ stream' = [stream EXCEPT ![c] = st]
    BY <1>2, <1>5 DEF readPage, bounds
<1>15. /\ seen' = [seen EXCEPT ![c] = seen[c]] /\ End(seen[c]) = k
       /\ sub' = [sub EXCEPT ![c] = s] /\ seen[c] \in Seq(Events)
    BY <1>1, <1>2, <1>8, <1>14, Unmoved, CursorTyped
<1>16. faults' \in 0 .. MaxFaults
    BY <1>1, <1>14, FaultTyped
<1> QED
    BY <1>7, <1>13, <1>14, <1>15, <1>16, StreamMoves

\* What the client of c got in a step.
Gets(c) ==
    UNCHANGED <<log, refused>> /\ \E q : seen' = [seen EXCEPT ![c] = q] /\ GetsNext(c, q)

LEMMA WritesNext ==
    ASSUME NEW c \in Clients, NEW e \in Cursor(c) + 1 .. log,
           Cursor(c) + 1 .. e - 1 \subseteq refused, Write(c, e),
           UNCHANGED <<log, refused>>
    PROVE  Gets(c) /\ seen' = [seen EXCEPT ![c] = Append(seen[c], e)]
<1>1. seen' = [seen EXCEPT ![c] = Append(seen[c], e)]
    BY DEF Write
<1>2. GetsNext(c, Append(seen[c], e))
    BY DEF GetsNext
<1> QED
    BY <1>1, <1>2 DEF Gets

LEMMA ReplayKeeps ==
    ASSUME IInv, NEW c \in Clients, replayEvent(c)
    PROVE  IInv' /\ Gets(c)
<1>1. Types /\ ClientInv(c) /\ stream[c].at = "replay" /\ stream[c].page # <<>>
    BY DEF IInv, replayEvent
<1>2. PICK st0 \in Handler, s \in Subscription, k \in Nat :
          st0 = stream[c] /\ s = sub[c] /\ k = Cursor(c)
    BY <1>1, CursorTyped
<1>3. PICK p \in Seq(Events) : p = st0.page
    BY DEF Handler
<1>4. log \in Nat /\ Tracks(st0, s, k, log, refused) /\ p \in Seq(Nat)
    BY <1>1, <1>2, <1>3, CursorTyped, LineTyped DEF ClientInv
<1>5. PICK e : e = Head(p)
    OBVIOUS
<1>6. /\ p # <<>> /\ e = p[1] /\ Len(p) >= 1 /\ Len(p) \in Nat
      /\ Tail(p) \in Seq(Events) /\ Len(Tail(p)) = Len(p) - 1
      /\ \A i \in 1 .. Len(p) - 1 : Tail(p)[i] = p[i + 1]
  <2>1. p # <<>>
      BY <1>1, <1>2, <1>3
  <2>2. Tail(p) \in Seq(Events)
      BY <2>1, HeadTailProperties
  <2> QED
      BY <1>4, <1>5, <2>1, <2>2, HeadFirst
<1>7. /\ k + Len(p) <= log /\ \A i \in 1 .. Len(p) : p[i] = k + i
    BY <1>3, <1>4 DEF Tracks, Shape
<1>8. e = k + 1 /\ e \in k + 1 .. log
    BY <1>4, <1>6, <1>7
<1>9. PICK q \in Seq(Events) : q = Append(seen[c], e)
    BY <1>1, <1>2, <1>8, WriteNext
<1>10. End(q) = e /\ e \in Nat /\ e <= log
    BY <1>1, <1>2, <1>8, <1>9, WriteNext
<1>11. /\ UNCHANGED <<log, outbox, disp, closed, published, refused, refusals>>
       /\ faults' = faults /\ Write(c, e)
    BY <1>2, <1>3, <1>5 DEF replayEvent, bounds
<1>12. Gets(c) /\ seen' = [seen EXCEPT ![c] = q]
  <2>1. k + 1 .. e - 1 = {}
      BY <1>8
  <2> QED
      BY <1>2, <1>8, <1>9, <1>11, <2>1, WritesNext
<1>13. faults' \in 0 .. MaxFaults
    BY <1>1, <1>11, FaultTyped
<1>14. CASE e = MaxEvents /\ EndStream(c)
    BY <1>10, <1>11, <1>12, <1>13, <1>14, StreamEnds
<1>15. CASE /\ e # MaxEvents
            /\ stream' = [stream EXCEPT ![c].page = Tail(@)]
            /\ UNCHANGED sub
  <2>1. PICK st : st = [st0 EXCEPT !.page = Tail(p)]
      OBVIOUS
  <2>2. /\ st \in Handler /\ st.page = Tail(p) /\ st.at = st0.at
        /\ st.full = st0.full /\ st.hand = st0.hand
      BY <1>6, <2>1 DEF Handler
  <2>3. stream' = [stream EXCEPT ![c] = st]
      BY <1>1, <1>2, <1>3, <1>15, <2>1 DEF Types
  <2>4. e + Len(Tail(p)) = k + Len(p)
      BY <1>6, <1>8
  <2>5. \A i \in 1 .. Len(Tail(p)) : Tail(p)[i] = e + i
    <3>1. ASSUME NEW i \in 1 .. Len(Tail(p))
          PROVE  Tail(p)[i] = e + i
      <4>1. i \in 1 .. Len(p) - 1 /\ i + 1 \in 1 .. Len(p)
          BY <1>6
      <4>2. Tail(p)[i] = k + (i + 1)
          BY <1>6, <1>7, <4>1
      <4> QED
          BY <1>8, <4>1, <4>2
    <3> QED
        BY <3>1
  <2>6. Line(st, s) = Line(st0, s) /\ (Live(st) <=> Live(st0))
      BY <2>2 DEF Line, Live
  <2>7. Shape(st, s, e, log)
      BY <1>1, <1>2, <1>4, <1>7, <1>10, <1>3, <2>2, <2>4, <2>5 DEF Tracks, Shape
  <2>8. Tracks(st, s, e, log, refused)
      BY <1>3, <1>4, <2>2, <2>4, <2>6, <2>7 DEF Tracks
  <2>9. ~closed => Awaits(st, s, e, log, refused, Ahead)
      BY <1>1, <1>2, <1>3, <2>2, <2>4, <2>6 DEF ClientInv, Awaits
  <2>10. sub' = [sub EXCEPT ![c] = s]
      BY <1>1, <1>2, <1>15, Unmoved
  <2> QED
      BY <1>10, <1>11, <1>12, <1>13, <2>2, <2>3, <2>8, <2>9, <2>10, StreamMoves
<1>16. \/ e = MaxEvents /\ EndStream(c)
       \/ /\ e # MaxEvents
          /\ stream' = [stream EXCEPT ![c].page = Tail(@)]
          /\ UNCHANGED sub
    BY <1>2, <1>3, <1>5 DEF replayEvent
<1> QED
    BY <1>12, <1>14, <1>15, <1>16

LEMMA PageDoneKeeps ==
    ASSUME IInv, NEW c \in Clients, pageDone(c)
    PROVE  IInv'
<1>1. Types /\ ClientInv(c) /\ stream[c].at = "replay" /\ stream[c].page = <<>>
    BY DEF IInv, pageDone
<1>2. PICK st0 \in Handler, s \in Subscription, k \in Nat :
          st0 = stream[c] /\ s = sub[c] /\ k = Cursor(c)
    BY <1>1, CursorTyped
<1>3. /\ UNCHANGED <<log, outbox, disp, closed, published, refused, refusals>>
      /\ faults' = faults /\ seen' = seen
    BY DEF pageDone, bounds
<1>4. /\ seen' = [seen EXCEPT ![c] = seen[c]] /\ End(seen[c]) = k
      /\ seen[c] \in Seq(Events)
    BY <1>1, <1>2, <1>3, Unmoved, CursorTyped
<1>5. faults' \in 0 .. MaxFaults
    BY <1>1, <1>3, FaultTyped
<1>6. log \in Nat /\ k <= log /\ k + Len(st0.page) = k
      /\ Tracks(st0, s, k, log, refused)
    BY <1>1, <1>2, CursorTyped DEF ClientInv, Tracks, Shape
<1>7. CASE stream[c].full /\ stream' = [stream EXCEPT ![c].at = "read"] /\ UNCHANGED sub
  <2>1. PICK st : st = [st0 EXCEPT !.at = "read"]
      OBVIOUS
  <2>2. /\ st \in Handler /\ st.at = "read" /\ st.page = st0.page
        /\ st.hand = st0.hand
      BY <2>1 DEF Handler
  <2>3. stream' = [stream EXCEPT ![c] = st]
      BY <1>1, <1>2, <1>7, <2>1 DEF Types
  <2>4. Shape(st, s, k, log) /\ ~Live(st)
      BY <1>1, <1>2, <1>6, <2>2 DEF Tracks, Shape, Live
  <2>5. Tracks(st, s, k, log, refused) /\ Awaits(st, s, k, log, refused, Ahead)
      BY <2>4 DEF Tracks, Awaits
  <2>6. sub' = [sub EXCEPT ![c] = s]
      BY <1>1, <1>2, <1>7, Unmoved
  <2> QED
      BY <1>3, <1>4, <1>5, <2>2, <2>3, <2>5, <2>6, StreamMoves
<1>8. CASE ~stream[c].full /\ NextEvent(c)
  <2>1. Live(st0) /\ Line(st0, s) = s.queue
      BY <1>1, <1>2, <1>8 DEF Live, Line
  <2>2. InOrder(s.queue, k, refused)
      BY <1>6, <2>1 DEF Tracks
  <2>3. ~closed /\ s.open => Complete(s.queue, k, log, refused, Ahead)
      BY <1>1, <1>2, <1>6, <2>1 DEF ClientInv, Awaits
  <2> QED
      BY <1>2, <1>3, <1>4, <1>5, <1>6, <1>8, <2>2, <2>3, StreamContinues
<1> QED
    BY <1>7, <1>8 DEF pageDone

LEMMA FollowKeeps ==
    ASSUME IInv, NEW c \in Clients, followEvent(c)
    PROVE  IInv' /\ Gets(c)
<1>1. Types /\ ClientInv(c) /\ stream[c].at = "write"
    BY DEF IInv, followEvent
<1>2. PICK st0 \in Handler, s \in Subscription, k \in Nat :
          st0 = stream[c] /\ s = sub[c] /\ k = Cursor(c)
    BY <1>1, CursorTyped
<1>3. PICK e \in Nat : e = st0.hand
    BY LineTyped
<1>4. log \in Nat /\ Tracks(st0, s, k, log, refused) /\ s.queue \in Seq(Nat)
    BY <1>1, <1>2, CursorTyped, LineTyped DEF ClientInv
<1>5. /\ k + Len(st0.page) = k /\ k <= log /\ e <= log
      /\ Live(st0) /\ Line(st0, s) = <<e>> \o s.queue
  <2>1. st0.page = <<>> /\ Len(<<>>) = 0
      BY <1>1, <1>2, <1>4 DEF Tracks, Shape
  <2> QED
      BY <1>1, <1>2, <1>3, <1>4, <2>1 DEF Tracks, Shape, Live, Line
<1>6. InOrder(<<e>> \o s.queue, k, refused)
    BY <1>4, <1>5 DEF Tracks
<1>7. ~closed /\ s.open => Complete(<<e>> \o s.queue, k, log, refused, Ahead)
    BY <1>1, <1>2, <1>5 DEF ClientInv, Awaits
<1>8. UNCHANGED <<log, outbox, disp, closed, published, refused, refusals>>
      /\ faults' = faults
    BY DEF followEvent, bounds
<1>9. faults' \in 0 .. MaxFaults
    BY <1>1, <1>8, FaultTyped
<1>10. CASE ~isNew(c, e) /\ NextEvent(c) /\ UNCHANGED seen
  <2>1. e <= k
      BY <1>2, <1>10 DEF isNew
  <2>2. InOrder(s.queue, k, refused)
      BY <1>4, <1>6, <2>1, InOrderTail
  <2>3. ~closed /\ s.open => Complete(s.queue, k, log, refused, Ahead)
      BY <1>4, <1>7, <2>1, CompleteTail
  <2>4. /\ seen' = [seen EXCEPT ![c] = seen[c]] /\ End(seen[c]) = k
        /\ seen[c] \in Seq(Events)
      BY <1>1, <1>2, <1>10, Unmoved, CursorTyped
  <2>5. IInv'
      BY <1>2, <1>5, <1>8, <1>9, <1>10, <2>2, <2>3, <2>4, StreamContinues
  <2>6. Gets(c)
      BY <1>8, <2>4 DEF Gets, GetsNext
  <2> QED
      BY <2>5, <2>6
<1>11. CASE isNew(c, e) /\ Write(c, e) /\ ((e # MaxEvents /\ NextEvent(c)) \/ EndStream(c))
  <2>1. e \in k + 1 .. log /\ k <= e
      BY <1>2, <1>3, <1>4, <1>5, <1>11 DEF isNew
  <2>2. k + 1 .. e - 1 \subseteq refused
      BY <1>4, <1>6, InOrderFirst
  <2>3. PICK q \in Seq(Events) : q = Append(seen[c], e)
      BY <1>1, <1>2, <2>1, WriteNext
  <2>4. End(q) = e
      BY <1>1, <1>2, <2>1, <2>3, WriteNext
  <2>5. Gets(c) /\ seen' = [seen EXCEPT ![c] = q]
      BY <1>2, <1>8, <1>11, <2>1, <2>2, <2>3, WritesNext
  <2>6. CASE EndStream(c)
      BY <1>3, <1>5, <1>8, <1>9, <2>4, <2>5, <2>6, StreamEnds
  <2>7. CASE NextEvent(c)
    <3>1. InOrder(s.queue, e, refused)
        BY <1>4, <1>6, <2>1, InOrderTail
    <3>2. ~closed /\ s.open => Complete(s.queue, e, log, refused, Ahead)
        BY <1>4, <1>7, <2>1, CompleteTail
    <3> QED
        BY <1>2, <1>3, <1>5, <1>8, <1>9, <2>4, <2>5, <2>7, <3>1, <3>2, StreamContinues
  <2> QED
      BY <1>11, <2>5, <2>6, <2>7
<1> QED
    BY <1>2, <1>3, <1>10, <1>11 DEF followEvent

LEMMA EndingsKeep ==
    ASSUME IInv, NEW c \in Clients, subscriptionClosed(c) \/ disconnect(c)
    PROVE  IInv'
<1>1. Types /\ ClientInv(c)
    BY DEF IInv
<1>2. /\ UNCHANGED <<log, outbox, disp, closed, published, refused, refusals>>
      /\ faults' = faults \/ (faults < MaxFaults /\ faults' = faults + 1)
      /\ seen' = seen /\ EndStream(c)
    BY DEF subscriptionClosed, disconnect, bounds
<1>3. /\ seen' = [seen EXCEPT ![c] = seen[c]] /\ End(seen[c]) = Cursor(c)
      /\ seen[c] \in Seq(Events) /\ Cursor(c) \in Nat
    BY <1>1, <1>2, Unmoved, CursorTyped
<1>4. Cursor(c) <= log
    BY <1>1 DEF ClientInv, Tracks, Shape
<1>5. faults' \in 0 .. MaxFaults
    BY <1>1, <1>2, FaultTyped
<1> QED
    BY <1>2, <1>3, <1>4, <1>5, StreamEnds

-----------------------------------------------------------------------------
(* The specification.                                                      *)

LEMMA InitHolds ==
    ASSUME Init
    PROVE  IInv
<1>1. Len(outbox) = 0 /\ outbox \in Seq(Message) /\ DOMAIN outbox = {}
    BY DEF Init
<1>2. /\ disp \in [at: Places, msg: Nat, event: 0 .. MaxEvents]
      /\ disp.at = "idle" /\ disp.msg = 0 /\ disp.event = 0
    BY SizesTyped DEF Init, Idle, Places
<1>3. Types
  <2>1. /\ sub \in [Clients -> Subscription] /\ stream \in [Clients -> Handler]
        /\ seen \in [Clients -> Seq(Events)]
      BY Blank DEF Init
  <2>2. /\ log \in 0 .. MaxEvents /\ closed \in BOOLEAN
        /\ published \subseteq Events /\ refused \subseteq 1 .. log
    <3>1. log \in 0 .. MaxEvents
        BY SizesTyped DEF Init
    <3>2. published \subseteq Events /\ refused \subseteq 1 .. log
        BY DEF Init
    <3> QED
        BY <3>1, <3>2, Zenon DEF Init
  <2>3. faults \in 0 .. MaxFaults /\ refusals \in 0 .. MaxRefusals
      BY BoundAssumption DEF Init
  <2> QED
      BY <1>1, <1>2, <2>1, <2>2, <2>3 DEF Types
<1>4. Ranges /\ Handling /\ SettledWasPublished
    BY <1>1, <1>2 DEF Ranges, Handling, SettledWasPublished
<1>5. ASSUME NEW c \in Clients
      PROVE  ClientInv(c)
  <2>1. /\ stream[c] = NoStream /\ sub[c] = NoSubscription /\ Cursor(c) = 0
        /\ log = 0
      BY DEF Init, Cursor
  <2> QED
      BY <2>1, OffTracks DEF ClientInv
<1> QED
    BY <1>3, <1>4, <1>5 DEF IInv

LEMMA NextKeeps ==
    ASSUME IInv, [Next]_vars
    PROVE  IInv'
<1>1. CASE \E n \in 1 .. 2 : commit(n)
    BY <1>1, CommitKeeps
<1>2. CASE timePasses
    BY <1>2, TimeKeeps
<1>3. CASE dispatcherStep
    BY <1>3, WakeKeeps, ClaimKeeps, AnswersKeep, PublishKeeps, AcknowledgeKeeps
       DEF dispatcherStep
<1>4. CASE refuse \/ acknowledgeFails
    BY <1>4, RefuseKeeps, AcknowledgeKeeps
<1>5. CASE close \/ closeHub \/ restart
    BY <1>5, CloseKeeps, CloseHubKeeps, RestartKeeps
<1>6. ASSUME NEW c \in Clients, streamStep(c) \/ disconnect(c)
      PROVE  IInv'
    BY <1>6, ConnectKeeps, ReadPageKeeps, ReplayKeeps, PageDoneKeeps, FollowKeeps,
       EndingsKeep DEF streamStep
<1>7. CASE UNCHANGED vars
  <2>1. Types' /\ Ranges' /\ Handling' /\ SettledWasPublished'
      BY <1>7 DEF IInv, vars, Types, Ranges, Handling, SettledWasPublished, Carried
  <2>2. Ahead' = Ahead
      BY <1>7 DEF vars, Ahead, Unpublished, Carried
  <2>3. \A c \in Clients : ClientInv(c)'
      BY <1>7, <2>2 DEF IInv, vars, ClientInv, Cursor
  <2> QED
      BY <2>1, <2>3 DEF IInv
<1> QED
    BY <1>1, <1>2, <1>3, <1>4, <1>5, <1>6, <1>7 DEF Next

LEMMA Invariant == Spec => []IInv
<1>1. Init => IInv
    BY InitHolds
<1>2. IInv /\ [Next]_vars => IInv'
    BY NextKeeps
<1> QED
    BY <1>1, <1>2, PTL DEF Spec

\* The shapes of the store, the dispatcher, the subscriptions and the streams,
\* and the bound on what a subscription holds, for every step of the process.
THEOREM TypeCorrect == Spec => []TypeOK
<1>1. ASSUME IInv
      PROVE  TypeOK
  <2>1. Types /\ Handling /\ Ranges
      BY <1>1 DEF IInv
  <2>2. disp \in [at: Places, msg: 0 .. Len(outbox), event: 0 .. log]
    <3>1. disp.msg \in 0 .. Len(outbox)
        BY <2>1 DEF Types, Handling
    <3>2. CASE disp.msg = 0
      <4>1. disp.event \in 0 .. log
          BY <2>1, <3>2, SizesTyped DEF Types, Handling
      <4> QED
          BY <2>1, <3>1, <4>1 DEF Types
    <3>3. CASE disp.msg # 0
      <4>1. disp.at \notin {"idle", "claim"}
          BY <2>1, <3>3 DEF Handling
      <4>2. /\ disp.event \in Carried(disp.msg) /\ disp.event \in Nat
            /\ disp.msg \in 1 .. Len(outbox)
            /\ outbox[disp.msg].from \in Nat /\ outbox[disp.msg].through \in Nat
          BY <2>1, <4>1, BusyMessage
      <4>3. disp.event \in 0 .. log
          BY <2>1, <4>2, SizesTyped DEF Ranges, Carried, Types
      <4> QED
          BY <2>1, <3>1, <4>3 DEF Types
    <3> QED
        BY <3>2, <3>3
  <2>3. ASSUME NEW c \in Clients
        PROVE  /\ sub[c].open \in BOOLEAN
               /\ sub[c].queue \in Seq(Events) /\ Len(sub[c].queue) <= MaxPending
               /\ stream[c].at \in {"off", "read", "replay", "waiting", "write"}
               /\ stream[c].page \in Seq(Events) /\ stream[c].hand \in 0 .. log
               /\ seen[c] \in Seq(Events)
    <3>1. /\ sub[c] \in Subscription /\ stream[c] \in Handler /\ seen[c] \in Seq(Events)
          /\ log \in Nat
        BY <2>1, CursorTyped
    <3>2. Shape(stream[c], sub[c], Cursor(c), log)
        BY <1>1 DEF IInv, ClientInv, Tracks
    <3>3. stream[c].hand \in Nat
        BY <3>1, LineTyped
    <3> QED
        BY <3>1, <3>2, <3>3 DEF Subscription, Handler, Shape
  <2>4. refused \subseteq Events
      BY <2>1, SizesTyped DEF Types, Events
  <2> QED
      BY <2>1, <2>2, <2>3, <2>4 DEF Types, TypeOK, Places
<1> QED
    BY <1>1, Invariant, PTL

\* A message is settled only after each of its events was published, however the
\* dispatcher was closed, restarted or fenced in between (#publish, #drainBatch).
THEOREM SettledIsPublished == Spec => []SettledWasPublished
<1>1. IInv => SettledWasPublished
    BY DEF IInv
<1> QED
    BY <1>1, Invariant, PTL

LEMMA StepFollows ==
    ASSUME IInv, [Next]_vars
    PROVE  [Following!Next]_(Following!vars)
<1>1. Types
    BY DEF IInv
<1>2. log \in Nat
    BY <1>1, SizesTyped DEF Types
<1>3. ASSUME NEW n \in 1 .. 2, commit(n)
      PROVE  Following!Grow
    BY <1>2, <1>3, SizesTyped DEF commit, reader, bounds, Following!Grow
<1>4. ASSUME refuse
      PROVE  Following!Refuse
    BY <1>4, RefuseKeeps DEF refuse, reader, Following!Refuse
<1>5. ASSUME NEW c \in Clients, Gets(c)
      PROVE  Following!Deliver(c) \/ UNCHANGED Following!vars
  <2>1. PICK q : seen' = [seen EXCEPT ![c] = q] /\ GetsNext(c, q)
      BY <1>5 DEF Gets
  <2>2. UNCHANGED <<log, refused>>
      BY <1>5 DEF Gets
  <2>3. CASE q = seen[c]
      BY <1>1, <2>1, <2>2, <2>3 DEF Types, Following!vars
  <2>4. CASE \E e \in Cursor(c) + 1 .. log :
                /\ Cursor(c) + 1 .. e - 1 \subseteq refused
                /\ q = Append(seen[c], e)
    <3>1. PICK e \in Cursor(c) + 1 .. log :
              /\ Cursor(c) + 1 .. e - 1 \subseteq refused
              /\ q = Append(seen[c], e)
        BY <2>4
    <3>2. Following!Got(c) = Cursor(c)
        BY DEF Following!Got, Cursor, Last
    <3>3. seen' = [seen EXCEPT ![c] = Append(@, e)]
        BY <2>1, <3>1
    <3> QED
        BY <2>2, <3>1, <3>2, <3>3 DEF Following!Deliver
  <2> QED
      BY <2>1, <2>3, <2>4 DEF GetsNext
<1>6. ASSUME timePasses \/ dispatcherStep \/ acknowledgeFails
             \/ close \/ closeHub \/ restart
      PROVE  UNCHANGED Following!vars
  <2>1. CASE timePasses
      BY <2>1 DEF timePasses, delayEnds, leaseExpires, reader, bounds, Following!vars
  <2>2. CASE dispatcherStep
      BY <2>2 DEF dispatcherStep, wake, claimNextOutbox, claimAnswered, listRunEvents,
         consumeRunEvents, publish, publishReturns, acknowledgeOutbox, reader, bounds,
         Following!vars
  <2>3. CASE acknowledgeFails \/ close \/ closeHub \/ restart
      BY <2>3 DEF acknowledgeFails, close, closeHub, restart, reader, bounds,
         Following!vars
  <2> QED
      BY <1>6, <2>1, <2>2, <2>3
<1>7. ASSUME NEW c \in Clients, streamStep(c) \/ disconnect(c)
      PROVE  Following!Deliver(c) \/ UNCHANGED Following!vars
  <2>1. CASE replayEvent(c) \/ followEvent(c)
      BY <1>5, <2>1, ReplayKeeps, FollowKeeps
  <2>2. CASE connect(c) \/ readPage(c) \/ pageDone(c) \/ subscriptionClosed(c)
             \/ disconnect(c)
      BY <2>2 DEF connect, readPage, pageDone, subscriptionClosed, disconnect, bounds,
         Following!vars
  <2> QED
      BY <1>7, <2>1, <2>2 DEF streamStep
<1>8. CASE UNCHANGED vars
    BY <1>8 DEF vars, Following!vars
<1> QED
    BY <1>3, <1>4, <1>6, <1>7, <1>8 DEF Next, Following!Next

\* Every step of the dispatcher, the hub and the streams is, for the log and what
\* the clients have, a step of EventStream or none: a client gets events in the
\* order of the log, none twice, and passes over refused ones only.
THEOREM DeliveryImplementsStream == Spec => Following!Steps
<1>1. Init => Following!Init
    BY DEF Init, Following!Init
<1>2. IInv /\ [Next]_vars => [Following!Next]_(Following!vars)
    BY StepFollows
<1> QED
    BY <1>1, <1>2, Invariant, PTL DEF Spec, Following!Steps
=============================================================================
