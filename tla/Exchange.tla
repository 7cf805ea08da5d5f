------------------------------ MODULE Exchange ------------------------------
(***************************************************************************)
(* What a client run promises its user, whatever the network does: it asks *)
(* in order, it reports an answer only to what it has asked last, and only *)
(* an answer a responder really gave to this run.                          *)
(***************************************************************************)
CONSTANTS
    Run,        \* the client runs, one run id each
    Stage       \* what a run can ask: "probe", or "syn", "psh" and "fin"

VARIABLE
    ledger      \* what each run asked, what it was answered, what it accepted

vars == ledger

Nothing == [asked |-> {}, answered |-> {}, accepted |-> {}]

Init == ledger = [r \in Run |-> Nothing]

\* What must have been asked, and what accepted, before a stage is asked.
AskedBefore == [probe |-> {}, syn |-> {}, psh |-> {"syn"}, fin |-> {"syn", "psh"}]
AcceptedBefore == [probe |-> {}, syn |-> {}, psh |-> {"syn"}, fin |-> {"syn"}]

\* The run asks a stage, once.
Ask(r, s) ==
    /\ s \notin ledger[r].asked
    /\ AskedBefore[s] \subseteq ledger[r].asked
    /\ AcceptedBefore[s] \subseteq ledger[r].accepted
    /\ ledger' = [ledger EXCEPT ![r].asked = @ \cup {s}]

\* A responder answers it; the answer may get lost, and come more than once.
Answer(r, s) ==
    /\ s \in ledger[r].asked
    /\ ledger' = [ledger EXCEPT ![r].answered = @ \cup {s}]

\* The run takes the answer to the stage it asked last.
Last(r, s) == \A t \in ledger[r].asked : s \notin AskedBefore[t]

Accept(r, s) ==
    /\ s \in ledger[r].answered /\ Last(r, s)
    /\ ledger' = [ledger EXCEPT ![r].accepted = @ \cup {s}]

\* Taking an answer and asking the next stage are one step of the client.
AcceptAndAsk(r, s, t) ==
    /\ s \in ledger[r].answered /\ Last(r, s)
    /\ t \notin ledger[r].asked
    /\ AskedBefore[t] \subseteq ledger[r].asked
    /\ AcceptedBefore[t] \subseteq ledger[r].accepted \cup {s}
    /\ ledger' = [ledger EXCEPT ![r].accepted = @ \cup {s}, ![r].asked = @ \cup {t}]

Next ==
    \E r \in Run, s \in Stage :
        \/ Ask(r, s) \/ Answer(r, s) \/ Accept(r, s)
        \/ \E t \in Stage : AcceptAndAsk(r, s, t)

Spec == Init /\ [][Next]_vars
=============================================================================
