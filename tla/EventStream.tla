----------------------------- MODULE EventStream -----------------------------
(***************************************************************************)
(* What following a run promises: the log of a run grows, and every client *)
(* that follows it sees events in the order of the log, none twice, and in *)
(* the end its last one.  It passes over an event only if the delivery of  *)
(* that event was refused once.                                            *)
(***************************************************************************)
EXTENDS Naturals, Sequences

CONSTANTS
    Clients,    \* clients that follow the run
    MaxEvents   \* bound: events of the run

VARIABLES
    log,        \* how many events are committed; event i has sequence i
    refused,    \* events whose delivery was refused before
    seen        \* per client: the events it got, in the order it got them

vars == <<log, refused, seen>>

Init == log = 0 /\ refused = {} /\ seen = [c \in Clients |-> <<>>]

Grow == log' \in log + 1 .. MaxEvents /\ UNCHANGED <<refused, seen>>

Refuse ==
    /\ refused' \in SUBSET (1 .. log)
    /\ refused \subseteq refused'
    /\ UNCHANGED <<log, seen>>

Got(c) == IF seen[c] = <<>> THEN 0 ELSE seen[c][Len(seen[c])]

Deliver(c) ==
    \E e \in Got(c) + 1 .. log :
        /\ Got(c) + 1 .. e - 1 \subseteq refused
        /\ seen' = [seen EXCEPT ![c] = Append(@, e)]
        /\ UNCHANGED <<log, refused>>

Next == Grow \/ Refuse \/ \E c \in Clients : Deliver(c)

Steps == Init /\ [][Next]_vars
Spec == Steps /\ \A c \in Clients : WF_vars(Deliver(c))
=============================================================================
