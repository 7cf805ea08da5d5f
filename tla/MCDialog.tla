------------------------------ MODULE MCDialog ------------------------------
(***************************************************************************)
(* Two client runs started on one host: with the default source port they  *)
(* share a 4-tuple, and so a flow entry of the responder.                   *)
(***************************************************************************)
EXTENDS Dialog

Line(cmd, sport, vni, response) ==
    [cmd |-> cmd, sport |-> sport, dport |-> 80, vni |-> vni, response |-> response]

Pair(p, q) == [r \in Run |-> IF r = "p" THEN p ELSE q]

Tcp1 == Line("tcp", 1, 0, TRUE)

\* A dialog beside a handshake on its own 4-tuple and on another; shorter commands.
Pairs == {
    Pair(Tcp1, Line("htcp", 1, 0, TRUE)),
    Pair(Tcp1, Line("htcp", 2, 0, TRUE)),
    Pair(Line("udp", 1, 0, TRUE), Line("icmp", 2, 0, TRUE)),
    Pair(Line("vxlan", 1, 7, TRUE), Line("udp", 1, 0, FALSE)),
    Pair(Line("vxlan", 1, 7, TRUE), Line("vxlan", 1, 8, TRUE)),
    Pair(Line("htcp", 1, 0, TRUE), Line("htcp", 1, 0, FALSE))}

\* The first flow's sequence numbers wrap around within the dialog.
Isns == [k \in {<<1, 80>>, <<2, 80>>} |-> IF k[1] = 1 THEN 13 ELSE 2]

ASSUME PairsAssumption == PortsDiffer /\ NoWrap
=============================================================================
