-------------------------- MODULE FencedOwnership --------------------------
(***************************************************************************)
(* What the durable queue promises, without clocks, delays or records:     *)
(* an item is free, owned by one claimant, or done; each grant carries a   *)
(* higher token than every grant before it; nobody takes an owned item     *)
(* away except by withdrawing it for good; done is final.                  *)
(***************************************************************************)
EXTENDS Naturals

CONSTANTS Items, Owners, NoOwner

VARIABLES
    phase,   \* free, owned or done
    holder,  \* who owns it, NoOwner if nobody does
    token    \* the token of the last grant

vars == <<phase, holder, token>>

Init ==
    /\ phase = [i \in Items |-> "free"]
    /\ holder = [i \in Items |-> NoOwner]
    /\ token = [i \in Items |-> 0]

Grant(i, o) ==
    /\ phase[i] = "free"
    /\ phase' = [phase EXCEPT ![i] = "owned"]
    /\ holder' = [holder EXCEPT ![i] = o]
    /\ token' = [token EXCEPT ![i] = @ + 1]

\* Owners give items back, or the passing of time takes several away at once.
Lose(S) ==
    /\ \A i \in S : phase[i] = "owned"
    /\ phase' = [i \in Items |-> IF i \in S THEN "free" ELSE phase[i]]
    /\ holder' = [i \in Items |-> IF i \in S THEN NoOwner ELSE holder[i]]
    /\ UNCHANGED token

\* The owner finishes the item, or the item is withdrawn from everybody.
Finish(i) ==
    /\ phase[i] # "done"
    /\ phase' = [phase EXCEPT ![i] = "done"]
    /\ holder' = [holder EXCEPT ![i] = NoOwner]
    /\ UNCHANGED token

Next ==
    \/ \E i \in Items, o \in Owners : Grant(i, o)
    \/ \E S \in SUBSET Items : Lose(S)
    \/ \E i \in Items : Finish(i)

Spec == Init /\ [][Next]_vars
=============================================================================
