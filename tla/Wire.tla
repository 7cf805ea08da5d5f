-------------------------------- MODULE Wire --------------------------------
(***************************************************************************)
(* One probe on the wire and back: the client's command line becomes a     *)
(* frame (client/main.go, internal/pkt, internal/tfmeta), the network may  *)
(* retag it, the kernel program and the responder each take it apart, the  *)
(* responder builds the reply (agent/responder.go), and the client's       *)
(* sniffer takes that apart (client/sniffer.go).  The three parsers were   *)
(* written separately, one of them in C.                                   *)
(*                                                                         *)
(* A frame is its headers: Ethernet with its VLAN tags, IP with its number *)
(* of extension headers, transport, and the payload, which is a meta or,   *)
(* behind a VXLAN header, another frame.  An address is a pair of family   *)
(* and name.  Lengths, checksums and timestamps are left out, and with     *)
(* them the exits for frames that are too short.                           *)
(***************************************************************************)
EXTENDS Integers, Sequences

CONSTANTS
    Flags,      \* command lines
    Agents,     \* the responders a probe may meet
    Port,       \* what OVS and OVN know of the tap named by --iface
    VidMod,     \* VLAN ids are modulo this, in the code 4096
    VniMod,     \* VNIs are modulo this, in the code 2^24
    Stag,       \* the tag a provider's bridge puts in front
    MaxExt      \* extension headers routers insert in an IPv6 probe

VxlanPort == 4789
NoKey == "nokey"
Fam(ip) == ip[1]
NoIp == <<"none", "none">>
NoMac == "nomac"

\* The flags of the client's four commands, and what an agent's responder is made with.
Address == {"v4", "v6"} \X STRING
CommandLine ==
    [cmd: {"icmp", "udp", "tcp", "vxlan"}, seg: {"syn", "psh", "fin"}, dst: Address,
     src: Address \cup {NoIp}, innerSrc: Address \cup {NoIp}, innerDst: Address \cup {NoIp},
     sport: Nat, dport: Nat, vni: Nat, vlan: Nat, iface: BOOLEAN, dstMAC: STRING,
     srcMAC: STRING, asVM: BOOLEAN, key: STRING, response: BOOLEAN, deliver: BOOLEAN]
AgentFlags ==
    [ips: SUBSET Address, mode: {"auto", "regular", "vxlan"}, key: STRING, tcpRespond: BOOLEAN]

ASSUME WireAssumption ==
    /\ Flags \subseteq CommandLine /\ Agents \subseteq AgentFlags
    /\ Port.mac \in STRING /\ Port.ips \in Seq(Address)
    /\ VidMod \in Nat \ {0, 1} /\ VniMod \in Nat \ {0, 1}
    /\ Stag \in 1..(VidMod - 1) /\ MaxExt \in Nat

VARIABLES
    flags,      \* the command line, with what applyAsVM filled in
    agent,      \* the responder
    pc,         \* "start", "sent", "arrived", "handled", "fatal"
    frame,      \* the probe as sent and then as it arrives: a set of at most one
    aux,        \* the VLAN id the NIC took out of it, 0 for none
    reply       \* the responder's frame: a set of at most one

vars == <<flags, agent, pc, frame, aux, reply>>

\* The first of some positions in a list.
Earliest(S) == CHOOSE k \in S : \A j \in S : k <= j

-----------------------------------------------------------------------------
(* internal/tfmeta and internal/pkt.                                       *)

\* An HMAC is known by its key and by what it covers.
Sign(core, key) == <<key, core>>

Signed(core, key) ==
    [core |-> core, sig |-> IF key = NoKey THEN << >> ELSE Sign(core, key)]

Verify(p, key) == key = NoKey \/ p.sig = Sign(p.core, key)

\* Unmarshal: the magic.  A VXLAN header in its place is not one.
IsMeta(p) == "core" \in DOMAIN p

ICMP(type, p) == [type |-> type, payload |-> p]
UDP(sport, dport, p) == [sport |-> sport, dport |-> dport, payload |-> p]
TCP(sport, dport, seg, p) == [sport |-> sport, dport |-> dport, seg |-> seg, payload |-> p]

\* IPv4 and IPv6.  tos is the DSCP and the ECN bits, which the network may set.
IP(fam, dscp, proto, src, dst, l4) ==
    [fam |-> fam, tos |-> <<dscp, 0>>, exts |-> 0, proto |-> proto, src |-> src, dst |-> dst,
     l4 |-> l4]

\* The level-1 filter, tos & 0xFC = ToS.
ToS == 62
Marked(l3) == l3.tos[1] = ToS

Ethernet(dst, src, l3) == [dst |-> dst, src |-> src, tags |-> << >>, et |-> l3.fam, l3 |-> l3]

EthernetVLAN(dst, src, vid, l3) == [Ethernet(dst, src, l3) EXCEPT !.tags = <<vid % VidMod>>]

VXLAN(vni, inner) == [vni |-> vni % VniMod, inner |-> inner]

\* The I flag, 0x08 of the first byte.  A meta starts with "T" = 0x54, where it is clear.
IFlag(p) == "vni" \in DOMAIN p

-----------------------------------------------------------------------------
(* The client's way out: client/main.go.                                   *)

\* applyAsVM: what the command line leaves open comes from the tap.
FirstOf(ips, fam) ==
    LET same == {k \in DOMAIN ips : Fam(ips[k]) = fam}
    IN  IF same = {} THEN NoIp ELSE ips[Earliest(same)]

ApplyAsVM(f) ==
    IF ~f.asVM \/ ~f.iface THEN f
    ELSE [f EXCEPT !.srcMAC = IF @ = NoMac THEN Port.mac ELSE @,
                   !.src = IF @ = NoIp THEN FirstOf(Port.ips, Fam(f.dst)) ELSE @]

\* emit: a raw IP socket serves plain IPv4 only.
ByL2(f) == Fam(f.dst) = "v6" \/ f.vlan > 0 \/ f.iface

\* log.Fatal: in applyAsVM, at the head of runVXLAN, in sendL2.
Fatal(f) ==
    \/ f.asVM /\ (~f.iface \/ f.src = NoIp \/ f.srcMAC = NoMac)
    \/ f.cmd = "vxlan" /\ (f.innerSrc = NoIp \/ f.innerDst = NoIp \/ f.vni = 0)
    \/ ByL2(f) /\ (~f.iface \/ f.dstMAC = NoMac)

\* srcIP: --src, or the address the kernel would use towards dst.
SrcIP(f) == IF f.src # NoIp THEN f.src ELSE <<Fam(f.dst), "host">>

Dport(f, default) == IF f.dport = 0 THEN default ELSE f.dport

\* newMeta and payload.
Payload(f) == Signed([deliver |-> f.deliver, need |-> f.response], f.key)

\* icmpL3, with the echo request of either family.
IcmpL3(src, dst, p) ==
    IF Fam(dst) = "v6" THEN IP("v6", ToS, "icmpv6", src, dst, ICMP(128, p))
                       ELSE IP("v4", ToS, "icmp", src, dst, ICMP(8, p))

UdpL3(src, dst, sport, dport, p) == IP(Fam(dst), ToS, "udp", src, dst, UDP(sport, dport, p))

\* send in runTCP; f.seg is the segment whose answer is awaited.
TcpL3(f) == IP(Fam(f.dst), ToS, "tcp", SrcIP(f), f.dst,
               TCP(f.sport, Dport(f, 80), f.seg, Payload(f)))

\* runVXLAN: the outer header is not marked.
VxlanL3(f) ==
    LET inner == Ethernet("dummy", "dummy", IcmpL3(f.innerSrc, f.innerDst, Payload(f)))
    IN  IP(Fam(f.dst), 0, "udp", SrcIP(f), f.dst, UDP(f.sport, VxlanPort, VXLAN(f.vni, inner)))

ProbeL3(f) ==
    CASE f.cmd = "icmp"  -> IcmpL3(SrcIP(f), f.dst, Payload(f))
      [] f.cmd = "udp"   -> UdpL3(SrcIP(f), f.dst, f.sport, Dport(f, 7), Payload(f))
      [] f.cmd = "tcp"   -> TcpL3(f)
      [] f.cmd = "vxlan" -> VxlanL3(f)

\* sendL2: one tag when --vlan is given, whatever 12 bits of it remain.
SendL2(f, l3) ==
    LET smac == IF f.srcMAC = NoMac THEN "nic" ELSE f.srcMAC
    IN  IF f.vlan > 0 THEN EthernetVLAN(f.dstMAC, smac, f.vlan, l3)
                      ELSE Ethernet(f.dstMAC, smac, l3)

\* sendIP: the kernel routes the packet and frames it.
SendIP(l3) == Ethernet("router", "nic", l3)

Emit(f) == IF ByL2(f) THEN SendL2(f, ProbeL3(f)) ELSE SendIP(ProbeL3(f))

-----------------------------------------------------------------------------
(* The parsers.  All three remove at most two tags and keep the first      *)
(* VLAN id that is not 0.                                                  *)

Untag(e, n) ==
    LET depth == IF Len(e.tags) < n THEN Len(e.tags) ELSE n
        seen  == {k \in 1..depth : e.tags[k] # 0}
    IN  [et |-> IF Len(e.tags) > n THEN "vlan" ELSE e.et,
         vlan |-> IF seen = {} THEN 0 ELSE e.tags[Earliest(seen)]]
IsIP(et) == et \in {"v4", "v6"}

\* parse_l2, parse_ipv4 and parse_ipv6, parse_l4_and_meta of bpf/traceflow.c.  The
\* program walks extension headers, up to four.
KernelReads(e) ==
    /\ IsIP(Untag(e, 2).et)
    /\ Marked(e.l3)
    /\ e.l3.exts <= 4
    /\ IsMeta(e.l3.l4.payload)

\* parse_vxlan up to the inner frame; the outer header has no extensions.
KernelVxlan(e) ==
    /\ IsIP(Untag(e, 2).et)
    /\ e.l3.exts = 0 /\ e.l3.proto = "udp"
    /\ e.l3.l4.dport = VxlanPort
    /\ IFlag(e.l3.l4.payload)

\* Fault: AUTO does not fall back to the plain reading.
KernelReading_NoFallback(e, mode) ==
    IF mode # "regular" /\ KernelVxlan(e) /\ KernelReads(e.l3.l4.payload.inner) THEN "vxlan"
    ELSE IF mode = "regular" /\ KernelReads(e) THEN "regular"
    ELSE "none"

\* Mode selection in handle: what the frame is read as, "none" when it does not match.
KernelReading(e, mode) ==
    IF mode # "regular" /\ KernelVxlan(e) /\ KernelReads(e.l3.l4.payload.inner) THEN "vxlan"
    ELSE IF mode # "vxlan" /\ KernelReads(e) THEN "regular"
    ELSE "none"

\* Fault: one tag only.
ParseL2_OneTag(e) == Untag(e, 1)

\* parseL2 of agent/responder.go.
ParseL2(e) == Untag(e, 2)

\* parseIPv4 and parseIPv6 with the protocol switch after them: an extension header is
\* taken for the transport.
Transport(l3) == IF l3.exts = 0 THEN l3.proto ELSE "ext"

\* outerUDP and the port, in isVXLANFrame and in handleVXLAN.
IsVXLANFrame(e) ==
    IsIP(ParseL2(e).et) /\ Transport(e.l3) = "udp" /\ e.l3.l4.dport = VxlanPort

-----------------------------------------------------------------------------
(* The responder: agent/responder.go.  A reply is a set of at most one.    *)

\* sanitize clears the flag bytes, and signs again what was signed when it has a key.
Sanitize(p, key) ==
    LET core == [deliver |-> FALSE, need |-> FALSE]
    IN  [core |-> core, sig |-> IF key # NoKey /\ p.sig # << >> THEN Sign(core, key) ELSE p.sig]

\* The condition in front of every reply, with authOK.
Gate(p, r) == IsMeta(p) /\ p.core.need /\ ~p.core.deliver /\ Verify(p, r.key)

\* Source and destination port of the reply.
Ports(l4) == <<l4.dport, l4.sport>>

\* The segment that answers a segment.
Answer(seg) == IF seg = "syn" THEN "synack" ELSE seg

\* The transport part of buildReplyL4 and buildTCPReply.  (Dialog has the sequence numbers.)
ReplyL4(proto, l4, r) ==
    LET p == Sanitize(l4.payload, r.key)
    IN  CASE proto = "icmp"   -> ICMP(0, p)
          [] proto = "icmpv6" -> ICMP(129, p)
          [] proto = "udp"    -> UDP(Ports(l4)[1], Ports(l4)[2], p)
          [] proto = "tcp"    -> TCP(Ports(l4)[1], Ports(l4)[2], Answer(l4.seg), p)

BuildReplyL4(l3, r) ==
    IF /\ Transport(l3) # "ext"
       /\ Gate(l3.l4.payload, r)
       /\ l3.proto # "tcp" \/ r.tcpRespond
    THEN {IP(l3.fam, ToS, l3.proto, l3.dst, l3.src, ReplyL4(l3.proto, l3.l4, r))}
    ELSE {}

BuildReply(et, l3, r) ==
    IF IsIP(et) /\ Marked(l3) /\ l3.dst \in r.ips THEN BuildReplyL4(l3, r) ELSE {}

\* frameL2: an id of 0 is no tag.
FrameL2(dst, src, vid, l3) ==
    IF vid # 0 THEN EthernetVLAN(dst, src, vid, l3) ELSE Ethernet(dst, src, l3)

\* Fault: the offloaded tag is not consulted.
OrVlan_Inline(inline, offloaded) == inline

OrVlan(inline, offloaded) == IF inline # 0 THEN inline ELSE offloaded

HandleRegular(e, vid, r) ==
    LET l2 == ParseL2(e)
    IN  {FrameL2(e.src, e.dst, OrVlan(l2.vlan, vid), l3) : l3 \in BuildReply(l2.et, e.l3, r)}

\* Fault: the reply goes to the port the probe came from, as other replies do.
OuterUDP_Swap(l4, p) == UDP(VxlanPort, l4.sport, p)

\* Both outer ports of an encapsulated reply are 4789.
OuterUDP(l4, p) == UDP(VxlanPort, VxlanPort, p)

\* handleVXLAN re-encapsulates the inner reply and swaps the outer addresses.
HandleVXLAN(e, vid, r) ==
    IF ~IsVXLANFrame(e) \/ ~IFlag(e.l3.l4.payload) THEN {}
    ELSE LET vx == e.l3.l4.payload
             i  == vx.inner
             Inner(l3) == VXLAN(vx.vni, FrameL2(i.src, i.dst, ParseL2(i).vlan, l3))
             Outer(l3) == IP(e.l3.fam, 0, "udp", e.l3.dst, e.l3.src, OuterUDP(e.l3.l4, Inner(l3)))
         IN  {FrameL2(e.src, e.dst, OrVlan(ParseL2(e).vlan, vid), Outer(l3)) :
                 l3 \in BuildReply(ParseL2(i).et, i.l3, r)}

Handle(e, vid, r) ==
    IF r.mode = "vxlan" \/ (r.mode = "auto" /\ IsVXLANFrame(e))
    THEN HandleVXLAN(e, vid, r) ELSE HandleRegular(e, vid, r)

-----------------------------------------------------------------------------
(* The client's way in: client/sniffer.go and the matchers of client/main.go. *)

StripL2(e) == Untag(e, 2)

\* outerUDP and the port.
ToVxlanPort(e) ==
    IsIP(StripL2(e).et) /\ Transport(e.l3) = "udp" /\ e.l3.l4.dport = VxlanPort

\* parseMarked: UDP to 4789 must be VXLAN, and then it is the inner frame that counts.
\* A capture is the VNI and the header the filters passed.
ParseMarked(e) ==
    LET inner == IF ToVxlanPort(e) THEN e.l3.l4.payload.inner ELSE e
    IN  IF \/ ToVxlanPort(e) /\ ~IFlag(e.l3.l4.payload)
           \/ ~IsIP(StripL2(inner).et)
           \/ ~Marked(inner.l3)
           \/ Transport(inner.l3) = "ext"
           \/ ~IsMeta(inner.l3.l4.payload)
        THEN {}
        ELSE {[vni |-> IF ToVxlanPort(e) THEN e.l3.l4.payload.vni ELSE 0, l3 |-> inner.l3]}

IsEchoReply(c) ==
    \/ c.l3.proto = "icmp" /\ c.l3.l4.type = 0
    \/ c.l3.proto = "icmpv6" /\ c.l3.l4.type = 129

\* The match functions of the four commands.
Matches(f, c) ==
    CASE f.cmd = "icmp"  -> IsEchoReply(c)
      [] f.cmd = "vxlan" -> c.vni = f.vni /\ IsEchoReply(c)
      [] f.cmd = "udp"   -> c.l3.proto = "udp" /\ c.l3.l4.dport = f.sport
      [] f.cmd = "tcp"   -> /\ c.l3.proto = "tcp" /\ c.l3.l4.dport = f.sport
                            /\ c.l3.l4.seg = Answer(f.seg)

Accepts(f, e) == \E c \in ParseMarked(e) : Matches(f, c)

-----------------------------------------------------------------------------
Init ==
    /\ flags \in Flags
    /\ agent \in Agents
    /\ pc = "start"
    /\ frame = {} /\ aux = 0 /\ reply = {}

\* main: applyAsVM, then the command.
Run ==
    /\ pc = "start"
    /\ flags' = ApplyAsVM(flags)
    /\ IF Fatal(flags') THEN pc' = "fatal" /\ UNCHANGED frame
                        ELSE pc' = "sent" /\ frame' = {Emit(flags')}
    /\ UNCHANGED <<agent, aux, reply>>

\* Routers may mark congestion and insert extension headers.
Routed(l3, ce, exts) == [l3 EXCEPT !.tos = <<@[1], IF ce THEN 3 ELSE @[2]>>, !.exts = exts]

\* The network: a bridge may push a tag, routers may change an IP header, the extensions
\* only in IPv6, and the NIC at the agent may take the outermost tag out.
Arrive(push, ce, exts, offload) ==
    /\ pc = "sent"
    /\ pc' = "arrived"
    /\ \E e \in frame :
        LET tags == IF push THEN <<Stag>> \o e.tags ELSE e.tags
            off  == offload /\ tags # << >>
        IN  /\ exts > 0 => e.l3.fam = "v6"
            /\ frame' = {[e EXCEPT !.tags = IF off THEN Tail(tags) ELSE tags,
                                   !.l3 = Routed(@, ce, exts)]}
            /\ aux' = IF off THEN Head(tags) ELSE 0
    /\ UNCHANGED <<flags, agent, reply>>

\* Loop: auxVLAN and handle.
Respond ==
    /\ pc = "arrived"
    /\ pc' = "handled"
    /\ reply' = UNION {Handle(e, aux, agent) : e \in frame}
    /\ UNCHANGED <<flags, agent, frame, aux>>

Next ==
    \/ Run
    \/ \E push, ce, offload \in BOOLEAN, exts \in 0..MaxExt : Arrive(push, ce, exts, offload)
    \/ Respond

Spec == Init /\ [][Next]_vars

-----------------------------------------------------------------------------
(* What the frame is to module Frames, on which the models of whole        *)
(* networks are built.                                                     *)

F == INSTANCE Frames WITH Ip <- {"v4", "v6"} \X {"host", "vm"}, Vni <- 0..(VniMod - 1)

WrapOf(e) == [encap |-> KernelVxlan(e), wire |-> 0, tunnel |-> 0]

FrameOf(e, key) ==
    LET l3 == IF KernelVxlan(e) THEN e.l3.l4.payload.inner.l3 ELSE e.l3
        p  == l3.l4.payload
    IN  [src |-> l3.src, dst |-> l3.dst, marked |-> Marked(l3), magic |-> IsMeta(p),
         proto |-> IF l3.proto = "icmpv6" THEN "icmp" ELSE l3.proto,
         seg |-> IF l3.proto = "tcp" THEN l3.l4.seg ELSE "none",
         vxport |-> l3.proto = "udp" /\ l3.l4.dport = VxlanPort,
         need |-> p.core.need, deliver |-> p.core.deliver, signed |-> Verify(p, key)]

ResponderOf(r) ==
    [ips |-> r.ips, mode |-> r.mode, tcpRespond |-> r.tcpRespond, hmac |-> r.key # NoKey]

-----------------------------------------------------------------------------
(* Properties.                                                             *)

\* The command line asks for something the headers can carry back: a VNI of 24 bits, and
\* no UDP source port 4789, on which parseMarked expects VXLAN.
Expressible(f) == (f.cmd = "vxlan" => f.vni < VniMod) /\ (f.cmd = "udp" => f.sport # VxlanPort)

\* Whatever way a probe went out and whatever tags it met, the reply the responder
\* builds passes the filters of the client's sniffer and the match of its command.
ReplyRecognised == \A e \in reply : Expressible(flags) => Accepts(flags, e)

\* The tags that name a VLAN: an id of 0 is only a priority.
Tagged(tags) == {k \in DOMAIN tags : tags[k] # 0}
AtMostOne(S) == \A j, k \in S : j = k

\* A reply leaves in the VLAN its probe came in, whether the tag was in the bytes, in
\* the NIC's metadata or a priority tag, as long as there was one tag and not two.
VlanPreserved ==
    \A e \in frame, r \in reply :
        LET came == <<aux>> \o e.tags
        IN  AtMostOne(Tagged(came)) =>
                /\ AtMostOne(Tagged(r.tags))
                /\ {r.tags[k] : k \in Tagged(r.tags)} = {came[k] : k \in Tagged(came)}

\* Both parsers agree with module Frames on every frame without extension headers: the
\* kernel program matches it, and the responder replies to it, when Frames says so.
DecisionsAsInFrames ==
    pc = "handled" => \A e \in frame : e.l3.exts = 0 =>
        LET f == FrameOf(e, agent.key)
            w == WrapOf(e)
        IN  /\ (KernelReading(e, agent.mode) # "none") <=> F!Matched(f, w, agent.mode)
            /\ (reply # {}) <=> F!Replies(f, w, ResponderOf(agent))

\* What the kernel program intercepts at the destination the responder answers, tags,
\* offload and congestion marks notwithstanding.  Left out: probes that do not
\* authenticate, plain UDP to 4789 where VXLAN is looked for, and extension headers,
\* which the kernel program walks and the responder does not.
InterceptedIsAnswered ==
    pc = "handled" => \A e \in frame :
        LET f == FrameOf(e, agent.key)
        IN  /\ KernelReading(e, agent.mode) = "regular"
            /\ F!DoDrop(f, "REGULAR", agent.ips, TRUE, agent.tcpRespond)
            /\ f.signed /\ e.l3.exts = 0 /\ ~(f.vxport /\ agent.mode = "auto")
            => reply # {}

\* handle: "AUTO picks VXLAN vs regular the same way the eBPF program does".
AutoPicksAlike ==
    \A e \in frame : pc = "handled" /\ agent.mode = "auto" /\ KernelReading(e, "auto") # "none" =>
        (KernelReading(e, "auto") = "vxlan" <=> IsVXLANFrame(e))
=============================================================================
