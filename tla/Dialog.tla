------------------------------- MODULE Dialog -------------------------------
(***************************************************************************)
(* Client runs on one host (client/main.go, client/sniffer.go) against the *)
(* responder of one VM (agent/responder.go), over a network that delays,   *)
(* reorders, loses and duplicates frames.                                  *)
(*                                                                         *)
(* A run asks one probe, or a TCP handshake, data and a FIN.  It waits for *)
(* each answer with a deadline and never sends anything again.  Its        *)
(* AF_PACKET sniffer is bound to no interface, so it captures every marked *)
(* frame of the host: its own, those of other runs, and the replies.       *)
(*                                                                         *)
(* The responder keeps, per 4-tuple, the next sequence number it will use. *)
(* The host's TCP knows of no such connection and may reset it.            *)
(*                                                                         *)
(* A frame is its run id, what recvMatch and buildTCPReply look at, and    *)
(* its payload length.  kind stands for the protocol and the ICMP type or  *)
(* TCP flags; all runs have the same two addresses, so the ports are the   *)
(* 4-tuple.  Sequence numbers are modulo Mod, in the code 2^32.  A frame   *)
(* captured and unread and a reply still on its way are not told apart:    *)
(* both may be read now, later or never.                                   *)
(***************************************************************************)
EXTENDS Integers, Sequences, FiniteSets

CONSTANTS
    Run, NoRun,     \* run ids, and none (a reset carries no payload)
    Scenario,       \* the command lines: functions from Run to Flags
    Isn,            \* serverISN: 4-tuple -> initial sequence number
    Mod,            \* the sequence numbers are 0..Mod-1
    ClientIsn,      \* clientISN
    MetaLen,        \* length of a signed or bare meta
    LabelLen,       \* length of "TRACEFLOW-PING"
    FlowCap,        \* the cap on r.flows, in the code 4096
    KernelResets,   \* whether the host's TCP may reset what it does not know
    MaxFaults       \* bound: how many frames are duplicated or reset

Command == {"icmp", "udp", "vxlan", "htcp", "tcp"}
Flags == [cmd : Command, sport : Nat, dport : Nat, vni : Nat, response : BOOLEAN]

ASSUME DialogAssumption ==
    /\ NoRun \notin Run
    /\ \A s \in Scenario : s \in [Run -> Flags]
    /\ \A s \in Scenario, r \in Run : <<s[r].sport, s[r].dport>> \in DOMAIN Isn
    /\ Mod \in Nat \ {0} /\ \A k \in DOMAIN Isn : Isn[k] \in 0..(Mod - 1)
    /\ ClientIsn \in 0..(Mod - 1)
    /\ MetaLen \in Nat \ {0} /\ LabelLen \in Nat
    /\ FlowCap \in Nat /\ MaxFaults \in Nat
    /\ KernelResets \in BOOLEAN

VARIABLES
    flags,      \* the command line of each run
    pc,         \* where each run is: the answer it waits for
    wire,       \* frames on their way to the VM
    heard,      \* frames that pass the client's host, for every sniffer to read
    flows,      \* responder.flows: 4-tuple -> serverNext
    faults,
    ledger,     \* history: what each run asked, was answered and accepted
    served,     \* history: the TCP segments the responder sent to each run
    torn        \* history: the runs whose flow entry was lost or overwritten

vars == <<flags, pc, wire, heard, flows, faults, ledger, served, torn>>

Kind == {"echo", "echoreply", "udp", "syn", "synack", "ack", "psh", "fin", "rst"}
Tcp == {"syn", "synack", "ack", "psh", "fin", "rst"}
Waiting == {"reply", "synack", "data", "fin"}
Stage == {"probe", "syn", "psh", "fin"}
StageOf(kind) == IF kind \in Stage THEN kind ELSE "probe"

Ex == INSTANCE Exchange

Frame == [run : Run \cup {NoRun}, to : {"vm", "host"}, kind : Kind,
          sport : Nat, dport : Nat, vni : Nat, need : BOOLEAN,
          seq : 0..(Mod - 1), ack : 0..(Mod - 1), len : Nat]

\* uint32 addition.
Plus(n, k) == (n + k) % Mod
Drop(f, k) == [x \in DOMAIN f \ {k} |-> f[x]]
Put(f, k, v) == [x \in DOMAIN f \cup {k} |-> IF x = k THEN v ELSE f[x]]
FlowKey(m) == <<m.sport, m.dport>>

Init ==
    /\ flags \in Scenario
    /\ pc = [r \in Run |-> "start"]
    /\ wire = {} /\ heard = {} /\ flows = << >> /\ faults = 0
    /\ ledger = [r \in Run |-> Ex!Nothing]
    /\ served = [r \in Run |-> << >>]
    /\ torn = {}

-----------------------------------------------------------------------------
(* The client.                                                             *)

\* A frame of run r, its meta asking for a response when the flag does.
Probe(r, kind, seq, len) ==
    [run |-> r, to |-> "vm", kind |-> kind,
     sport |-> flags[r].sport, dport |-> flags[r].dport, vni |-> flags[r].vni,
     need |-> flags[r].response, seq |-> seq, ack |-> 0, len |-> len]

DataLen == MetaLen + LabelLen

SynSeg(r) == Probe(r, "syn", ClientIsn, MetaLen)
AckSeg(r) == Probe(r, "ack", Plus(ClientIsn, 1), MetaLen)
DataSeg(r) == Probe(r, "psh", Plus(ClientIsn, 1), DataLen)
FinSeg(r) == Probe(r, "fin", Plus(ClientIsn, 1 + DataLen), MetaLen)

\* Run r sends fs, which every sniffer of the host sees, and goes on to wait at `next`.
Emit(r, fs, next) ==
    /\ pc' = [pc EXCEPT ![r] = next]
    /\ wire' = wire \cup fs
    /\ heard' = heard \cup fs

Asks(r, s) == ledger' = [ledger EXCEPT ![r].asked = @ \cup {s}]
Accepts(r, s) == ledger' = [ledger EXCEPT ![r].accepted = @ \cup {s}]
AcceptsAndAsks(r, s, t) ==
    ledger' = [ledger EXCEPT ![r].accepted = @ \cup {s}, ![r].asked = @ \cup {t}]

\* runICMP, runUDP, runVXLAN: send, and wait only with --response.
StartProbe(r) ==
    /\ pc[r] = "start" /\ flags[r].cmd \in {"icmp", "udp", "vxlan"}
    /\ Emit(r, {Probe(r, IF flags[r].cmd = "udp" THEN "udp" ELSE "echo", 0, MetaLen)},
            IF flags[r].response THEN "reply" ELSE "done")
    /\ Asks(r, "probe")
    /\ UNCHANGED <<flags, flows, faults, served, torn>>

\* runTCP: send the SYN, and wait for the SYN/ACK with or without --response.
StartTCP(r) ==
    /\ pc[r] = "start" /\ flags[r].cmd \in {"htcp", "tcp"}
    /\ Emit(r, {SynSeg(r)}, "synack")
    /\ Asks(r, "syn")
    /\ UNCHANGED <<flags, flows, faults, served, torn>>

\* Fault: the run id is not compared.
Match_AnyRun(r, c) ==
    LET mine == c.dport = flags[r].sport
    IN  CASE pc[r] = "synack" -> c.kind = "synack" /\ mine
          [] pc[r] = "data"   -> c.kind = "psh" /\ mine
          [] pc[r] = "fin"    -> c.kind = "fin" /\ mine
          [] pc[r] = "reply"  -> IF flags[r].cmd = "udp" THEN c.kind = "udp" /\ mine
                                 ELSE c.kind = "echoreply"

\* recvMatch: the run id, then the match function of the call.
Match(r, c) ==
    LET mine == c.dport = flags[r].sport
    IN  /\ c.run = r
        /\ CASE pc[r] = "synack" -> c.kind = "synack" /\ mine
             [] pc[r] = "data"   -> c.kind = "psh" /\ mine
             [] pc[r] = "fin"    -> c.kind = "fin" /\ mine
             [] pc[r] = "reply"  ->
                  CASE flags[r].cmd = "udp"   -> c.kind = "udp" /\ mine
                    [] flags[r].cmd = "icmp"  -> c.kind = "echoreply"
                    [] flags[r].cmd = "vxlan" -> c.kind = "echoreply" /\ c.vni = flags[r].vni

\* recvMatch reads a frame that matches; the run goes on from the call.
RecvMatch(r, c) ==
    /\ pc[r] \in Waiting /\ c \in heard /\ Match(r, c)
    /\ CASE pc[r] = "synack" /\ flags[r].cmd = "tcp" ->
              Emit(r, {AckSeg(r), DataSeg(r)}, "data") /\ AcceptsAndAsks(r, "syn", "psh")
         [] pc[r] = "synack" /\ flags[r].cmd = "htcp" ->
              Emit(r, {AckSeg(r)}, "done") /\ Accepts(r, "syn")
         [] pc[r] = "data" ->
              Emit(r, {FinSeg(r)}, "fin") /\ AcceptsAndAsks(r, "psh", "fin")
         [] pc[r] = "fin" -> Emit(r, {}, "done") /\ Accepts(r, "fin")
         [] pc[r] = "reply" -> Emit(r, {}, "done") /\ Accepts(r, "probe")
    /\ UNCHANGED <<flags, flows, faults, served, torn>>

\* Fault: the wait for data starts over instead of giving up.
Timeout_Again(r) ==
    /\ pc[r] \in Waiting
    /\ IF pc[r] = "data" THEN UNCHANGED <<pc, wire, heard>> ELSE Emit(r, {}, "done")
    /\ UNCHANGED <<flags, flows, faults, ledger, served, torn>>

\* The deadline passes: without data the dialog goes on to the FIN, everything else
\* ends the run.
Timeout(r) ==
    /\ pc[r] \in Waiting
    /\ IF pc[r] = "data" THEN Emit(r, {FinSeg(r)}, "fin") /\ Asks(r, "fin")
                         ELSE Emit(r, {}, "done") /\ UNCHANGED ledger
    /\ UNCHANGED <<flags, flows, faults, served, torn>>

-----------------------------------------------------------------------------
(* The responder.                                                          *)

\* The reply to m: addresses and ports swapped, flag bytes cleared, same payload.
Reply(m, kind, seq, ack) ==
    [m EXCEPT !.to = "host", !.kind = kind, !.sport = m.dport, !.dport = m.sport,
              !.need = FALSE, !.seq = seq, !.ack = ack]

Nil == [out |-> {}, flows |-> flows]
One(reply, table) == [out |-> {reply}, flows |-> table]

\* The sequence number of the next segment on k: tracked, or derived.
ServerNext(k) == IF k \in DOMAIN flows THEN flows[k] ELSE Plus(Isn[k], 1)

\* Fault: the SYN/ACK's payload is not counted.
OnSyn_NoEcho(m, k) ==
    One(Reply(m, "synack", Isn[k], Plus(m.seq, 1)),
        Put(IF Cardinality(DOMAIN flows) > FlowCap THEN << >> ELSE flows, k, Plus(Isn[k], 1)))

\* SYN: the table is emptied when it outgrew its cap; the next sequence number is
\* past the SYN and the echoed payload.
OnSyn(m, k) ==
    One(Reply(m, "synack", Isn[k], Plus(m.seq, 1)),
        Put(IF Cardinality(DOMAIN flows) > FlowCap THEN << >> ELSE flows,
            k, Plus(Isn[k], 1 + m.len)))

\* FIN: the flow is forgotten.
OnFin(m, k) ==
    One(Reply(m, "fin", ServerNext(k), Plus(m.seq, m.len + 1)), Drop(flows, k))

\* Fault: the label is left out of the ack.
OnPsh_AckMeta(m, k) ==
    One(Reply(m, "psh", ServerNext(k), Plus(m.seq, MetaLen)),
        Put(flows, k, Plus(ServerNext(k), m.len)))

\* Data: echoed, advancing our sequence; an unknown flow is entered.
OnPsh(m, k) ==
    One(Reply(m, "psh", ServerNext(k), Plus(m.seq, m.len)),
        Put(flows, k, Plus(ServerNext(k), m.len)))

\* buildTCPReply: a reset only forgets the flow; a bare ACK, or a segment that asks
\* for no response, does nothing.
BuildTCPReply(m) ==
    CASE m.kind = "rst" -> [out |-> {}, flows |-> Drop(flows, FlowKey(m))]
      [] m.kind = "syn" /\ m.need -> OnSyn(m, FlowKey(m))
      [] m.kind = "fin" /\ m.need -> OnFin(m, FlowKey(m))
      [] m.kind = "psh" /\ m.need -> OnPsh(m, FlowKey(m))
      [] OTHER -> Nil

\* buildReplyL4, and its VXLAN wrapping, which keeps the VNI.
BuildReplyL4(m) ==
    CASE m.kind \in Tcp -> BuildTCPReply(m)
      [] m.kind = "echo" /\ m.need -> One(Reply(m, "echoreply", 0, 0), flows)
      [] m.kind = "udp" /\ m.need  -> One(Reply(m, "udp", 0, 0), flows)
      [] OTHER -> Nil

\* A fault is one of a bounded number.
Failing(yes) ==
    /\ yes => faults < MaxFaults
    /\ faults' = faults + (IF yes THEN 1 ELSE 0)

\* The sequence numbers a segment takes: its payload, and one for a SYN or FIN.
Segment(m, lost) ==
    [kind |-> m.kind, seq |-> m.seq,
     size |-> m.len + (IF m.kind = "psh" THEN 0 ELSE 1),
     clean |-> m.run \notin lost]

\* The runs served so far on a flow whose entry the step removes or overwrites.
LostFlows(m, table) ==
    (DOMAIN flows \ DOMAIN table) \cup (IF m.kind = "syn" THEN {FlowKey(m)} ELSE {})
Tears(m, table) ==
    {r \in Run : /\ served[r] # << >>
                 /\ <<flags[r].sport, flags[r].dport>> \in LostFlows(m, table)}

\* Loop and handle: a frame for the VM reaches the responder.  (A SYN overwrites the
\* entry before its segment is numbered, a FIN removes it after.)
Handle(m, dup) ==
    /\ m \in wire /\ Failing(dup)
    /\ wire' = IF dup THEN wire ELSE wire \ {m}
    /\ LET b == BuildReplyL4(m)
           lost == torn \cup Tears(m, b.flows)
       IN  /\ flows' = b.flows
           /\ heard' = heard \cup b.out
           /\ torn' = lost
           /\ ledger' = IF b.out = {} THEN ledger
                        ELSE [ledger EXCEPT ![m.run].answered = @ \cup {StageOf(m.kind)}]
           /\ served' = [r \in Run |->
                IF \E f \in b.out : f.run = r /\ f.kind \in Tcp
                THEN Append(served[r], Segment(CHOOSE f \in b.out : TRUE,
                                               IF m.kind = "syn" THEN lost ELSE torn))
                ELSE served[r]]
    /\ UNCHANGED <<flags, pc>>

\* External: the host's TCP answers a segment of a connection it does not know.
Reset(m) ==
    /\ KernelResets /\ m \in heard /\ m.to = "host" /\ m.kind \in Tcp /\ Failing(TRUE)
    /\ wire' = wire \cup {[run |-> NoRun, to |-> "vm", kind |-> "rst",
                           sport |-> m.dport, dport |-> m.sport, vni |-> m.vni,
                           need |-> FALSE, seq |-> m.ack, ack |-> 0, len |-> 0]}
    /\ UNCHANGED <<flags, pc, heard, flows, ledger, served, torn>>

-----------------------------------------------------------------------------
Client(r) ==
    StartProbe(r) \/ StartTCP(r) \/ Timeout(r) \/ \E c \in heard : RecvMatch(r, c)

Network ==
    \/ \E m \in wire, dup \in BOOLEAN : Handle(m, dup)
    \/ \E m \in heard : Reset(m)

Next == Network \/ \E r \in Run : Client(r)

Spec == Init /\ [][Next]_vars

\* The clock of a waiting client reaches the deadline.
FairSpec == Spec /\ \A r \in Run : WF_vars(Timeout(r))

-----------------------------------------------------------------------------
(* Properties.                                                             *)

\* Every variable keeps its type; sequence numbers stay in their width.
TypeOK ==
    /\ flags \in Scenario
    /\ pc \in [Run -> Waiting \cup {"start", "done"}]
    /\ wire \subseteq Frame /\ heard \subseteq Frame
    /\ DOMAIN flows \subseteq DOMAIN Isn /\ \A k \in DOMAIN flows : flows[k] \in 0..(Mod - 1)
    /\ faults \in 0..MaxFaults /\ torn \subseteq Run
    /\ ledger \in [Run -> [asked : SUBSET Stage, answered : SUBSET Stage,
                           accepted : SUBSET Stage]]

\* "Replies are caught with an AF_PACKET sniffer and matched by run id": although the
\* sniffer also sees the run's own frames, those of other runs and late replies, a run
\* asks its stages in order and accepts only a responder's answer to what it asked last.
ImplementsExchange == Ex!Spec

Overlap(s, t) ==
    \E i \in 0..(s.size - 1), j \in 0..(t.size - 1) : Plus(s.seq, i) = Plus(t.seq, j)

\* buildTCPReply advances past what it sent: as long as a run's flow entry is neither
\* removed nor overwritten, no two segments sent to it share a sequence number.
SequenceIntact ==
    \A r \in Run : \A i, j \in DOMAIN served[r] :
        i < j /\ served[r][j].clean => ~Overlap(served[r][i], served[r][j])

\* No run has the same source and destination port.
PortsDiffer == \A s \in Scenario, r \in Run : s[r].sport # s[r].dport

\* The numbers of a flow do not come all the way round: the duplicates and the data of all
\* the dialogs, with a SYN/ACK and a FIN, fit the width.
Dialogs(s) == {r \in Run : s[r].cmd = "tcp"}
NoWrap ==
    \A s \in Scenario :
        /\ IsFiniteSet(Dialogs(s))
        /\ 2 * (1 + MetaLen) + (Cardinality(Dialogs(s)) + MaxFaults) * DataLen <= Mod

\* The client's arithmetic and the responder's agree: a reply acknowledges exactly up
\* to the segment the client will send next.
AcksWhatComesNext ==
    \A m \in heard :
        m.to = "host" => /\ m.kind = "synack" => m.ack = DataSeg(m.run).seq
                         /\ m.kind = "psh"    => m.ack = FinSeg(m.run).seq

\* Every wait of the client has a deadline: a run that started ends, whatever is lost.
RunEnds == \A r \in Run : pc[r] # "start" ~> pc[r] = "done"
=============================================================================
