------------------------------ MODULE Delivery ------------------------------
(***************************************************************************)
(* What a sink promises for the observations an agent prints: it may lose  *)
(* some and reorder them, but it takes nothing that was not printed and    *)
(* nothing twice.                                                          *)
(***************************************************************************)
EXTENDS Sequences

VARIABLES
    sent,       \* the set of observations handed over
    delivered   \* the sequence of those that arrived

vars == <<sent, delivered>>

Arrived(o) == \E i \in DOMAIN delivered : delivered[i] = o

Init == sent = {} /\ delivered = << >>

Send(o) ==
    /\ o \notin sent
    /\ sent' = sent \cup {o}
    /\ UNCHANGED delivered

Deliver(o) ==
    /\ o \in sent /\ ~Arrived(o)
    /\ delivered' = Append(delivered, o)
    /\ UNCHANGED sent

Next == (\E o \in sent' : Send(o)) \/ (\E o \in sent : Deliver(o))

Spec == Init /\ [][Next]_vars
=============================================================================
