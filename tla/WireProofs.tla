----------------------------- MODULE WireProofs -----------------------------
(***************************************************************************)
(* The three parsers agree on every probe that any command line can send,  *)
(* for any responder, any VLAN tag in front and any number of extension    *)
(* headers.                                                                *)
(***************************************************************************)
EXTENDS Wire, SequenceTheorems, TLAPS

Vid == 0..(VidMod - 1)

\* What applyAsVM leaves of the types of the flags, as far as the headers need it.
Typed(f) ==
    /\ f.cmd \in {"icmp", "udp", "tcp", "vxlan"} /\ f.seg \in {"syn", "psh", "fin"}
    /\ f.dst \in Address
    /\ f.sport \in Nat /\ f.dport \in Nat /\ f.vni \in Nat /\ f.vlan \in Nat

\* A frame that arrives is the one that was sent but for its tags, its ECN bits and its
\* extension headers.
AsSent(e, f) ==
    /\ e.et = ProbeL3(f).fam /\ e.l3.fam = ProbeL3(f).fam /\ e.l3.proto = ProbeL3(f).proto
    /\ e.l3.src = ProbeL3(f).src /\ e.l3.dst = ProbeL3(f).dst /\ e.l3.l4 = ProbeL3(f).l4
    /\ e.l3.tos[1] = ProbeL3(f).tos[1] /\ e.l3.exts \in Nat
    /\ e.tags \in Seq(Vid) /\ Len(e.tags) <= 2

WireInv ==
    /\ Typed(flags) /\ agent \in AgentFlags /\ aux \in Vid
    /\ pc \in {"start", "sent", "arrived", "handled", "fatal"}
    /\ pc \in {"start", "fatal"} => frame = {}
    /\ pc = "sent" => frame = {Emit(flags)}
    /\ pc \in {"arrived", "handled"} => \E e : frame = {e} /\ AsSent(e, flags)
    /\ pc # "handled" => reply = {}
    /\ pc = "handled" => reply = UNION {Handle(e, aux, agent) : e \in frame}

-----------------------------------------------------------------------------
(* The headers.                                                            *)

\* A meta is not taken for a VXLAN header, nor the other way round.
LEMMA Payloads ==
    /\ \A f : IsMeta(Payload(f)) /\ ~IFlag(Payload(f))
    /\ \A vni, inner : IFlag(VXLAN(vni, inner)) /\ ~IsMeta(VXLAN(vni, inner))
    /\ \A p, key : IsMeta(Sanitize(p, key))
  BY DEF IsMeta, IFlag, Payload, Signed, VXLAN, Sanitize

\* What a probe that is not encapsulated looks like.
LEMMA PlainProbe ==
    ASSUME NEW f, Typed(f), f.cmd # "vxlan"
    PROVE  LET l3 == ProbeL3(f)
           IN  /\ IsIP(l3.fam) /\ l3.tos[1] = ToS /\ l3.dst = f.dst
               /\ l3.l4.payload = Payload(f)
               /\ f.cmd = "icmp" => l3.proto \in {"icmp", "icmpv6"}
               /\ f.cmd = "udp" => l3.proto = "udp" /\ l3.l4.sport = f.sport
               /\ f.cmd = "tcp" => l3.proto = "tcp" /\ l3.l4.sport = f.sport /\ l3.l4.seg = f.seg
<1>1. Fam(f.dst) \in {"v4", "v6"}
  BY DEF Typed, Address, Fam
<1>2. CASE f.cmd = "icmp"
  <2>1. ProbeL3(f) = IcmpL3(SrcIP(f), f.dst, Payload(f))
    BY <1>2 DEF ProbeL3
  <2> QED
    BY <1>2, <2>1 DEF IcmpL3, IP, ICMP, IsIP
<1>3. CASE f.cmd = "udp"
  <2>1. ProbeL3(f) = UdpL3(SrcIP(f), f.dst, f.sport, Dport(f, 7), Payload(f))
    BY <1>3 DEF ProbeL3
  <2> QED
    BY <1>1, <1>3, <2>1 DEF UdpL3, IP, UDP, IsIP
<1>4. CASE f.cmd = "tcp"
  <2>1. ProbeL3(f) = TcpL3(f)
    BY <1>4 DEF ProbeL3
  <2> QED
    BY <1>1, <1>4, <2>1 DEF TcpL3, IP, TCP, IsIP
<1> QED
  BY <1>2, <1>3, <1>4 DEF Typed

\* The frame inside an encapsulated probe.
InnerOf(f) == Ethernet("dummy", "dummy", IcmpL3(f.innerSrc, f.innerDst, Payload(f)))

\* What an encapsulated probe looks like.
LEMMA TunnelProbe ==
    ASSUME NEW f, Typed(f), f.cmd = "vxlan"
    PROVE  LET l3 == ProbeL3(f)
           IN  /\ IsIP(l3.fam) /\ l3.tos[1] # ToS /\ l3.proto = "udp"
               /\ l3.l4.sport = f.sport /\ l3.l4.dport = VxlanPort
               /\ l3.l4.payload = VXLAN(f.vni, InnerOf(f))
<1>1. Fam(f.dst) \in {"v4", "v6"}
  BY DEF Typed, Address, Fam
<1>2. ProbeL3(f) = VxlanL3(f)
  BY DEF ProbeL3
<1> QED
  BY <1>1, <1>2 DEF VxlanL3, InnerOf, IP, UDP, IsIP, ToS

\* The inner frame: an echo request of one of the families, marked and untagged.
LEMMA InnerFrame ==
    ASSUME NEW f
    PROVE  LET i == InnerOf(f)
           IN  /\ i.tags = << >> /\ IsIP(i.et) /\ i.et = i.l3.fam
               /\ i.l3.tos[1] = ToS /\ i.l3.exts = 0 /\ i.l3.dst = f.innerDst
               /\ i.l3.proto \in {"icmp", "icmpv6"} /\ i.l3.l4.payload = Payload(f)
<1>1. CASE Fam(f.innerDst) = "v6"
  BY <1>1 DEF InnerOf, Ethernet, IcmpL3, IP, ICMP, IsIP
<1>2. CASE Fam(f.innerDst) # "v6"
  BY <1>2 DEF InnerOf, Ethernet, IcmpL3, IP, ICMP, IsIP
<1> QED
  BY Zenon, <1>1, <1>2

-----------------------------------------------------------------------------
(* Tags.                                                                   *)

\* With two tags at most, a parser reaches the IP header, and has the first VLAN id
\* that is not 0.
LEMMA UntagTwo ==
    ASSUME NEW e, e.tags \in Seq(Vid), Len(e.tags) <= 2
    PROVE  LET u == Untag(e, 2)
               n == Len(e.tags)
           IN  /\ u.et = e.et /\ u.vlan \in Vid
               /\ n = 0 => u.vlan = 0
               /\ n >= 1 /\ e.tags[1] # 0 => u.vlan = e.tags[1]
               /\ n = 2 /\ e.tags[1] = 0 => u.vlan = e.tags[2]
               /\ n = 1 /\ e.tags[1] = 0 => u.vlan = 0
<1> DEFINE n == Len(e.tags)
           seen == {k \in 1..n : e.tags[k] # 0}
           u == Untag(e, 2)
<1>1. n \in {0, 1, 2} /\ VidMod \in Nat /\ VidMod >= 2
      /\ \A k \in 1..n : e.tags[k] \in Vid
  <2>1. n \in Nat /\ \A k \in 1..n : e.tags[k] \in Vid
    BY Zenon, LenProperties, ElementOfSeq
  <2>0. n <= 2
    BY Zenon
  <2> HIDE DEF n
  <2>2. n \in {0, 1, 2}
    BY <2>0, <2>1
  <2>3. VidMod \in Nat /\ VidMod >= 2
    BY WireAssumption
  <2> QED
    BY Zenon, <2>1, <2>2, <2>3 DEF n
<1>2. u = [et |-> e.et, vlan |-> IF seen = {} THEN 0 ELSE e.tags[Earliest(seen)]]
  <2>1. (IF n < 2 THEN n ELSE 2) = n /\ ~(n > 2)
    BY <1>1
  <2> QED
    BY Zenon, <2>1 DEF Untag
<1> HIDE DEF u
<1>3. u.et = e.et /\ u.vlan = IF seen = {} THEN 0 ELSE e.tags[Earliest(seen)]
  BY <1>2
<1>4. 0 \in Vid
  BY <1>1 DEF Vid
<1>5. CASE n = 0
  <2>1. seen = {}
    BY <1>5
  <2> QED
    BY <1>3, <1>4, <1>5, <2>1 DEF u
<1>6. CASE n \in {1, 2} /\ e.tags[1] # 0
  <2>1. 1 \in seen /\ \A k \in seen : 1 <= k
    BY <1>6
  <2>2. Earliest(seen) = 1
    <3> HIDE DEF seen
    <3>1. \A k \in seen : k \in Nat
      BY DEF seen
    <3> QED
      BY <2>1, <3>1 DEF Earliest
  <2>3. u.vlan = e.tags[1]
    BY Zenon, <1>3, <2>1, <2>2
  <2> QED
    BY <1>1, <1>3, <1>6, <2>3 DEF u
<1>7. CASE n = 1 /\ e.tags[1] = 0
  <2>1. seen = {}
    BY <1>7
  <2> QED
    BY <1>3, <1>4, <1>7, <2>1 DEF u
<1>8. CASE n = 2 /\ e.tags[1] = 0 /\ e.tags[2] = 0
  <2>1. seen = {}
    BY <1>8
  <2> QED
    BY <1>3, <1>4, <1>8, <2>1 DEF u
<1>9. CASE n = 2 /\ e.tags[1] = 0 /\ e.tags[2] # 0
  <2>1. seen = {2}
    BY <1>9
  <2>2. Earliest(seen) = 2
    BY <2>1 DEF Earliest
  <2>3. u.vlan = e.tags[2]
    BY Zenon, <1>3, <2>1, <2>2
  <2> QED
    BY <1>1, <1>3, <1>9, <2>3 DEF u
<1> QED
  BY Zenon, <1>1, <1>5, <1>6, <1>7, <1>8, <1>9

FramedAs(r, v, l3) ==
    /\ r.l3 = l3 /\ r.et = l3.fam /\ r.tags = IF v # 0 THEN <<v>> ELSE << >>
    /\ Untag(r, 2).et = l3.fam

\* The frame of a reply: tagged when it has a VLAN id, and readable.
LEMMA FramedReply == \A d, s, l3 : \A v \in Vid : FramedAs(FrameL2(d, s, v, l3), v, l3)
<1> SUFFICES ASSUME NEW d, NEW s, NEW l3, NEW v \in Vid, NEW r, r = FrameL2(d, s, v, l3)
             PROVE  FramedAs(r, v, l3)
  BY Zenon
<1>1. v % VidMod = v
  BY WireAssumption DEF Vid
<1>2. r.l3 = l3 /\ r.et = l3.fam /\ r.tags = IF v # 0 THEN <<v>> ELSE << >>
  BY <1>1 DEF FrameL2, EthernetVLAN, Ethernet
<1>3. r.tags \in Seq(Vid) /\ Len(r.tags) <= 2
  BY <1>2
<1>4. Untag(r, 2).et = r.et
  BY Zenon, <1>3, UntagTwo
<1> QED
  BY Zenon, <1>2, <1>4 DEF FramedAs

-----------------------------------------------------------------------------
(* The responder.                                                          *)

\* The responder reads the IP header of whatever arrives.
LEMMA Readable ==
    ASSUME NEW e, NEW f, Typed(f), AsSent(e, f)
    PROVE  IsIP(Untag(e, 2).et) /\ Untag(e, 2).et = e.et /\ Untag(e, 2).vlan \in Vid
<1>1. IsIP(ProbeL3(f).fam)
  BY Zenon, PlainProbe, TunnelProbe
<1> QED
  BY Zenon, <1>1, UntagTwo DEF AsSent

\* Where the responder answers a plain probe, and with what.
PlainAnswer(e, f, a) ==
    /\ a.mode # "vxlan" /\ ~(a.mode = "auto" /\ e.l3.proto = "udp" /\ e.l3.l4.dport = VxlanPort)
    /\ e.l3.exts = 0 /\ f.dst \in a.ips
    /\ Gate(Payload(f), a) /\ (e.l3.proto # "tcp" \/ a.tcpRespond)
PlainReply(e, v, a) ==
    FrameL2(e.src, e.dst, OrVlan(Untag(e, 2).vlan, v),
            IP(e.l3.fam, ToS, e.l3.proto, e.l3.dst, e.l3.src, ReplyL4(e.l3.proto, e.l3.l4, a)))

\* handle on a plain probe: UDP to 4789 is only looked at as VXLAN, and is none.
LEMMA HandlePlain ==
    ASSUME NEW e, NEW f, Typed(f), AsSent(e, f), f.cmd # "vxlan", NEW a \in AgentFlags, NEW v
    PROVE  Handle(e, v, a) = IF PlainAnswer(e, f, a) THEN {PlainReply(e, v, a)} ELSE {}
<1>1. /\ IsIP(Untag(e, 2).et) /\ e.l3.tos[1] = ToS /\ e.l3.dst = f.dst
      /\ e.l3.l4.payload = Payload(f) /\ e.l3.proto \in {"icmp", "icmpv6", "udp", "tcp"}
  BY Zenon, Readable, PlainProbe DEF AsSent, Typed
<1>2. ~IFlag(e.l3.l4.payload)
  BY Zenon, <1>1, Payloads
<1>3. a.mode \in {"auto", "regular", "vxlan"}
  BY DEF AgentFlags
<1>4. HandleVXLAN(e, v, a) = {}
  BY Zenon, <1>2 DEF HandleVXLAN
<1>5. Transport(e.l3) = "ext" <=> e.l3.exts # 0
  BY Zenon, <1>1 DEF Transport
<1>6. IsVXLANFrame(e) <=> e.l3.exts = 0 /\ e.l3.proto = "udp" /\ e.l3.l4.dport = VxlanPort
  BY Zenon, <1>1 DEF IsVXLANFrame, ParseL2, Transport
<1> DEFINE l3r == IP(e.l3.fam, ToS, e.l3.proto, e.l3.dst, e.l3.src, ReplyL4(e.l3.proto, e.l3.l4, a))
           cond == /\ e.l3.exts = 0 /\ f.dst \in a.ips
                   /\ Gate(Payload(f), a) /\ (e.l3.proto # "tcp" \/ a.tcpRespond)
<1>7. BuildReply(Untag(e, 2).et, e.l3, a) = IF cond THEN {l3r} ELSE {}
  BY Zenon, <1>1, <1>5 DEF BuildReply, BuildReplyL4, Marked
<1> HIDE DEF l3r, cond
<1>8. HandleRegular(e, v, a) = IF cond THEN {PlainReply(e, v, a)} ELSE {}
  <2>1. HandleRegular(e, v, a) = {FrameL2(e.src, e.dst, OrVlan(Untag(e, 2).vlan, v), l3) :
                                    l3 \in BuildReply(Untag(e, 2).et, e.l3, a)}
    BY Zenon DEF HandleRegular, ParseL2
  <2>2. CASE cond
    BY <1>7, <2>1, <2>2 DEF PlainReply, l3r
  <2>3. CASE ~cond
    BY <1>7, <2>1, <2>3
  <2> QED
    BY Zenon, <2>2, <2>3
<1>9. CASE a.mode = "vxlan" \/ (a.mode = "auto" /\ IsVXLANFrame(e))
  BY Zenon, <1>4, <1>6, <1>9 DEF Handle, PlainAnswer
<1>10. CASE ~(a.mode = "vxlan" \/ (a.mode = "auto" /\ IsVXLANFrame(e)))
  <2>1. PlainAnswer(e, f, a) <=> cond
    BY Zenon, <1>6, <1>10 DEF PlainAnswer, cond
  <2>2. Handle(e, v, a) = HandleRegular(e, v, a)
    BY Zenon, <1>10 DEF Handle
  <2> QED
    BY Zenon, <1>8, <2>1, <2>2
<1> QED
  BY Zenon, <1>9, <1>10

\* Where the responder answers an encapsulated probe, and with what.
TunnelAnswer(e, f, a) ==
    /\ a.mode # "regular" /\ e.l3.exts = 0
    /\ f.innerDst \in a.ips /\ Gate(Payload(f), a)
TunnelReply(e, f, v, a) ==
    LET i == InnerOf(f)
        l3 == IP(i.l3.fam, ToS, i.l3.proto, i.l3.dst, i.l3.src, ReplyL4(i.l3.proto, i.l3.l4, a))
        vx == VXLAN(f.vni % VniMod, FrameL2(i.src, i.dst, 0, l3))
    IN  FrameL2(e.src, e.dst, OrVlan(Untag(e, 2).vlan, v),
                IP(e.l3.fam, 0, "udp", e.l3.dst, e.l3.src, OuterUDP(e.l3.l4, vx)))

\* handle on an encapsulated probe; read as a plain frame it is not marked.
LEMMA HandleTunnel ==
    ASSUME NEW e, NEW f, Typed(f), AsSent(e, f), f.cmd = "vxlan", NEW a \in AgentFlags, NEW v
    PROVE  Handle(e, v, a) = IF TunnelAnswer(e, f, a) THEN {TunnelReply(e, f, v, a)} ELSE {}
<1> DEFINE i == InnerOf(f)
           p == VXLAN(f.vni, i)
           cond == f.innerDst \in a.ips /\ Gate(Payload(f), a)
           l3r == IP(i.l3.fam, ToS, i.l3.proto, i.l3.dst, i.l3.src,
                     ReplyL4(i.l3.proto, i.l3.l4, a))
<1>1. /\ IsIP(Untag(e, 2).et) /\ e.l3.tos[1] # ToS /\ e.l3.proto = "udp"
      /\ e.l3.l4.dport = VxlanPort /\ e.l3.l4.payload = p
  BY Zenon, Readable, TunnelProbe DEF AsSent
<1>2. /\ i.tags = << >> /\ IsIP(i.et) /\ i.l3.tos[1] = ToS /\ i.l3.exts = 0
      /\ i.l3.dst = f.innerDst /\ i.l3.proto \in {"icmp", "icmpv6"} /\ i.l3.l4.payload = Payload(f)
  BY Zenon, InnerFrame
<1>3. Untag(i, 2).et = i.et /\ Untag(i, 2).vlan = 0
  <2>1. i.tags \in Seq(Vid) /\ Len(i.tags) <= 2 /\ Len(i.tags) = 0
    BY <1>2
  <2> QED
    BY Zenon, <2>1, UntagTwo
<1>4. p.vni = f.vni % VniMod /\ p.inner = i /\ IFlag(p)
  BY DEF VXLAN, IFlag
<1> HIDE DEF i, p
<1>5. HandleRegular(e, v, a) = {}
  <2>1. BuildReply(Untag(e, 2).et, e.l3, a) = {}
    BY Zenon, <1>1 DEF BuildReply, Marked
  <2> QED
    BY <2>1 DEF HandleRegular, ParseL2
<1>6. IsVXLANFrame(e) <=> e.l3.exts = 0
  <2>1. Transport(e.l3) = "udp" <=> e.l3.exts = 0
    BY <1>1 DEF Transport
  <2> QED
    BY Zenon, <1>1, <2>1 DEF IsVXLANFrame, ParseL2
<1>7. BuildReply(Untag(i, 2).et, i.l3, a) = IF cond THEN {l3r} ELSE {}
  <2>1. Transport(i.l3) # "ext" /\ i.l3.proto # "tcp"
    BY Zenon, <1>2 DEF Transport
  <2> QED
    BY Zenon, <1>2, <1>3, <2>1 DEF BuildReply, BuildReplyL4, Marked
<1>8. ASSUME IsVXLANFrame(e)
      PROVE  HandleVXLAN(e, v, a) = IF cond THEN {TunnelReply(e, f, v, a)} ELSE {}
  <2> DEFINE Made(l3) ==
               FrameL2(e.src, e.dst, OrVlan(Untag(e, 2).vlan, v),
                       IP(e.l3.fam, 0, "udp", e.l3.dst, e.l3.src,
                          OuterUDP(e.l3.l4, VXLAN(f.vni % VniMod, FrameL2(i.src, i.dst, 0, l3)))))
  <2>1. HandleVXLAN(e, v, a) = {Made(l3) : l3 \in BuildReply(Untag(i, 2).et, i.l3, a)}
    <3>1. /\ e.l3.l4.payload.vni = f.vni % VniMod /\ e.l3.l4.payload.inner = i
          /\ IFlag(e.l3.l4.payload)
      BY Zenon, <1>1, <1>4
    <3> QED
      BY <1>3, <1>8, <3>1 DEF HandleVXLAN, ParseL2
  <2>2. Made(l3r) = TunnelReply(e, f, v, a)
    BY Zenon DEF TunnelReply, i
  <2> HIDE DEF Made, cond, l3r
  <2>3. CASE cond
    BY <1>7, <2>1, <2>2, <2>3
  <2>4. CASE ~cond
    BY <1>7, <2>1, <2>4
  <2> QED
    BY Zenon, <2>3, <2>4
<1>9. ASSUME ~IsVXLANFrame(e) PROVE HandleVXLAN(e, v, a) = {}
  BY Zenon, <1>9 DEF HandleVXLAN
<1>10. a.mode \in {"auto", "regular", "vxlan"}
  BY DEF AgentFlags
<1>11. TunnelAnswer(e, f, a) <=> a.mode # "regular" /\ IsVXLANFrame(e) /\ cond
  BY Zenon, <1>6 DEF TunnelAnswer
<1> HIDE DEF cond
<1>12. CASE a.mode = "regular"
  BY <1>5, <1>11, <1>12 DEF Handle
<1>13. CASE a.mode # "regular" /\ IsVXLANFrame(e)
  BY Zenon, <1>8, <1>10, <1>11, <1>13 DEF Handle
<1>14. CASE a.mode # "regular" /\ ~IsVXLANFrame(e)
  BY Zenon, <1>5, <1>9, <1>11, <1>14 DEF Handle
<1> QED
  BY Zenon, <1>12, <1>13, <1>14

-----------------------------------------------------------------------------
(* The client.                                                             *)

\* The VLAN id of a reply fits in a tag.
LEMMA ReplyVid ==
    ASSUME NEW e, NEW f, Typed(f), AsSent(e, f), NEW v \in Vid
    PROVE  OrVlan(Untag(e, 2).vlan, v) \in Vid
  BY Zenon, Readable DEF OrVlan

\* The reply to a plain probe passes the filters of the sniffer and the match.
LEMMA PlainRecognised ==
    ASSUME NEW e, NEW f, Typed(f), AsSent(e, f), f.cmd # "vxlan", Expressible(f),
           NEW a \in AgentFlags, NEW v \in Vid
    PROVE  Accepts(f, PlainReply(e, v, a))
<1> DEFINE r == PlainReply(e, v, a)
           l4 == ReplyL4(e.l3.proto, e.l3.l4, a)
           l3 == IP(e.l3.fam, ToS, e.l3.proto, e.l3.dst, e.l3.src, l4)
           c == [vni |-> 0, l3 |-> l3]
<1>1. /\ IsIP(e.l3.fam)
      /\ f.cmd = "icmp" => e.l3.proto \in {"icmp", "icmpv6"}
      /\ f.cmd = "udp" => e.l3.proto = "udp" /\ e.l3.l4.sport = f.sport
      /\ f.cmd = "tcp" => e.l3.proto = "tcp" /\ e.l3.l4.sport = f.sport /\ e.l3.l4.seg = f.seg
  BY Zenon, PlainProbe DEF AsSent
<1>2. r.l3 = l3 /\ Untag(r, 2).et = l3.fam
  <2>1. r = FrameL2(e.src, e.dst, OrVlan(Untag(e, 2).vlan, v), l3)
    BY Zenon DEF PlainReply
  <2>2. OrVlan(Untag(e, 2).vlan, v) \in Vid
    BY Zenon, ReplyVid
  <2> HIDE DEF r, l3
  <2>3. FramedAs(r, OrVlan(Untag(e, 2).vlan, v), l3)
    BY Zenon, <2>1, <2>2, FramedReply
  <2> QED
    BY Zenon, <2>3 DEF FramedAs
<1>3. /\ l3.fam = e.l3.fam /\ l3.proto = e.l3.proto /\ l3.exts = 0 /\ l3.tos[1] = ToS
      /\ l3.l4 = l4 /\ c.l3 = l3
  BY DEF IP
<1>4. /\ e.l3.proto = "icmp" => l4 = ICMP(0, Sanitize(e.l3.l4.payload, a.key))
      /\ e.l3.proto = "icmpv6" => l4 = ICMP(129, Sanitize(e.l3.l4.payload, a.key))
      /\ e.l3.proto = "udp" =>
            l4 = UDP(e.l3.l4.dport, e.l3.l4.sport, Sanitize(e.l3.l4.payload, a.key))
      /\ e.l3.proto = "tcp" =>
            l4 = TCP(e.l3.l4.dport, e.l3.l4.sport, Answer(e.l3.l4.seg),
                     Sanitize(e.l3.l4.payload, a.key))
  BY DEF ReplyL4, Ports
<1> HIDE DEF r, l3, l4, c
<1>5. /\ IsMeta(l4.payload)
      /\ e.l3.proto = "icmp" => l4.type = 0
      /\ e.l3.proto = "icmpv6" => l4.type = 129
      /\ e.l3.proto = "udp" => l4.dport = e.l3.l4.sport
      /\ e.l3.proto = "tcp" => l4.dport = e.l3.l4.sport /\ l4.seg = Answer(e.l3.l4.seg)
  <2>1. e.l3.proto \in {"icmp", "icmpv6", "udp", "tcp"}
    BY <1>1 DEF Typed
  <2>2. l4.payload = Sanitize(e.l3.l4.payload, a.key)
    BY <1>4, <2>1 DEF ICMP, UDP, TCP
  <2>3. IsMeta(Sanitize(e.l3.l4.payload, a.key))
    BY Zenon, Payloads
  <2> QED
    BY <1>4, <2>2, <2>3 DEF ICMP, UDP, TCP
<1>6. ~ToVxlanPort(r)
  <2>1. e.l3.proto = "udp" => l4.dport # VxlanPort
    BY Zenon, <1>1, <1>5 DEF Expressible, Typed
  <2>2. Transport(l3) = e.l3.proto
    BY Zenon, <1>3 DEF Transport
  <2> QED
    BY Zenon, <1>2, <1>3, <2>1, <2>2 DEF ToVxlanPort
<1>7. Transport(l3) # "ext"
  BY <1>1, <1>3 DEF Transport, Typed
<1>8. ParseMarked(r) = {c}
  BY <1>1, <1>2, <1>3, <1>5, <1>6, <1>7 DEF ParseMarked, StripL2, Marked, c
<1>9. Matches(f, c)
  <2>1. CASE f.cmd = "icmp"
    BY <1>1, <1>3, <1>5, <2>1 DEF Matches, IsEchoReply
  <2>2. CASE f.cmd = "udp"
    BY <1>1, <1>3, <1>5, <2>2 DEF Matches
  <2>3. CASE f.cmd = "tcp"
    BY <1>1, <1>3, <1>5, <2>3 DEF Matches
  <2> QED
    BY Zenon, <2>1, <2>2, <2>3 DEF Typed
<1> QED
  BY Zenon, <1>8, <1>9 DEF Accepts, r

\* The reply to an encapsulated probe is taken out of its encapsulation, and has the VNI
\* that was asked for.
LEMMA TunnelRecognised ==
    ASSUME NEW e, NEW f, Typed(f), AsSent(e, f), f.cmd = "vxlan", Expressible(f),
           NEW a \in AgentFlags, NEW v \in Vid
    PROVE  Accepts(f, TunnelReply(e, f, v, a))
<1> DEFINE r == TunnelReply(e, f, v, a)
           i == InnerOf(f)
           l4 == ReplyL4(i.l3.proto, i.l3.l4, a)
           l3 == IP(i.l3.fam, ToS, i.l3.proto, i.l3.dst, i.l3.src, l4)
           ir == FrameL2(i.src, i.dst, 0, l3)
           vx == VXLAN(f.vni % VniMod, ir)
           outer == IP(e.l3.fam, 0, "udp", e.l3.dst, e.l3.src, OuterUDP(e.l3.l4, vx))
           c == [vni |-> f.vni, l3 |-> l3]
<1>1. IsIP(e.l3.fam)
  BY Zenon, TunnelProbe DEF AsSent
<1>2. IsIP(i.l3.fam) /\ i.l3.proto \in {"icmp", "icmpv6"}
  BY Zenon, InnerFrame
<1>3. r.l3 = outer /\ Untag(r, 2).et = outer.fam
  <2>1. r = FrameL2(e.src, e.dst, OrVlan(Untag(e, 2).vlan, v), outer)
    BY Zenon DEF TunnelReply
  <2>2. OrVlan(Untag(e, 2).vlan, v) \in Vid
    BY Zenon, ReplyVid
  <2> HIDE DEF r, outer
  <2>3. FramedAs(r, OrVlan(Untag(e, 2).vlan, v), outer)
    BY Zenon, <2>1, <2>2, FramedReply
  <2> QED
    BY Zenon, <2>3 DEF FramedAs
<1>4. /\ outer.fam = e.l3.fam /\ outer.proto = "udp" /\ outer.exts = 0
      /\ outer.l4.dport = VxlanPort /\ outer.l4.payload = vx
  BY DEF IP, OuterUDP, UDP
<1>5. 0 \in Vid /\ (f.vni % VniMod) % VniMod = f.vni
  <2>1. f.vni \in Nat /\ f.vni < VniMod
    BY Zenon DEF Typed, Expressible
  <2> QED
    BY <2>1, WireAssumption DEF Vid
<1>6. vx.vni = f.vni /\ vx.inner = ir /\ IFlag(vx)
  <2>1. vx.vni = (f.vni % VniMod) % VniMod /\ vx.inner = ir /\ IFlag(vx)
    BY DEF VXLAN, IFlag
  <2> QED
    BY Zenon, <1>5, <2>1
<1>7. ir.l3 = l3 /\ Untag(ir, 2).et = l3.fam
  <2>1. ir = FrameL2(i.src, i.dst, 0, l3)
    BY Zenon
  <2> HIDE DEF ir, l3
  <2>2. FramedAs(ir, 0, l3)
    BY Zenon, <1>5, <2>1, FramedReply
  <2> QED
    BY Zenon, <2>2 DEF FramedAs
<1>8. /\ l3.fam = i.l3.fam /\ l3.proto = i.l3.proto /\ l3.exts = 0 /\ l3.tos[1] = ToS
      /\ l3.l4 = l4
  BY DEF IP
<1> HIDE DEF i
<1>9. /\ i.l3.proto = "icmp" => l4.type = 0
      /\ i.l3.proto = "icmpv6" => l4.type = 129
      /\ l4.payload = Sanitize(i.l3.l4.payload, a.key)
  BY <1>2 DEF ReplyL4, ICMP
<1> HIDE DEF r, l3, l4, ir, vx, outer
<1>10. IsMeta(l4.payload)
  <2>1. IsMeta(Sanitize(i.l3.l4.payload, a.key))
    BY Zenon, Payloads
  <2> QED
    BY <1>9, <2>1
<1>11. ToVxlanPort(r)
  BY Zenon, <1>1, <1>3, <1>4 DEF ToVxlanPort, StripL2, Transport
<1>12. Transport(l3) # "ext"
  BY <1>2, <1>8 DEF Transport
<1>13. r.l3.l4.payload = vx
  BY Zenon, <1>3, <1>4
<1>14. ParseMarked(r) = {c}
  BY <1>2, <1>6, <1>7, <1>8, <1>10, <1>11, <1>12, <1>13 DEF ParseMarked, StripL2, Marked
<1>15. Matches(f, c)
  BY <1>2, <1>8, <1>9 DEF Matches, IsEchoReply
<1> QED
  BY Zenon, <1>14, <1>15 DEF Accepts, r

-----------------------------------------------------------------------------
(* The VLAN of a reply.                                                    *)

\* The ids a frame came with, the NIC's before those in the bytes.
LEMMA CameWith ==
    ASSUME NEW tags \in Seq(Vid), Len(tags) <= 2, NEW v \in Vid
    PROVE  LET came == <<v>> \o tags
               n == Len(tags)
           IN  /\ n \in {0, 1, 2} /\ DOMAIN came = 1..(1 + n) /\ came[1] = v
               /\ \A k \in 1..n : came[1 + k] = tags[k]
<1> DEFINE came == <<v>> \o tags
           n == Len(tags)
<1>1. n \in Nat /\ n <= 2 /\ <<v>> \in Seq(Vid) /\ Len(<<v>>) = 1 /\ <<v>>[1] = v
  BY LenProperties
<1>2. /\ came \in Seq(Vid) /\ Len(came) = 1 + n
      /\ \A k \in 1..(1 + n) : came[k] = IF k <= 1 THEN <<v>>[k] ELSE tags[k - 1]
  BY Zenon, <1>1, ConcatProperties
<1> HIDE DEF came, n
<1>3. DOMAIN came = 1..(1 + n)
  BY Zenon, <1>2, LenProperties
<1>4. n \in {0, 1, 2} /\ came[1] = v
  BY <1>1, <1>2
<1>5. ASSUME NEW k \in 1..n PROVE came[1 + k] = tags[k]
  <2> DEFINE j == 1 + k
  <2>1. j \in 1..(1 + n) /\ ~(j <= 1) /\ j - 1 = k
    BY <1>1
  <2> HIDE DEF j
  <2>2. came[j] = tags[k]
    BY Zenon, <1>2, <2>1
  <2> QED
    BY Zenon, <2>2 DEF j
<1> QED
  BY Zenon, <1>3, <1>4, <1>5 DEF came, n

\* The tags of r name the VLAN that v, taken out by the NIC, and the tags name.
InVlanOf(r, v, tags) ==
    LET came == <<v>> \o tags
    IN  /\ AtMostOne(Tagged(r.tags))
        /\ {r.tags[k] : k \in Tagged(r.tags)} = {came[k] : k \in Tagged(came)}

\* A reply that is framed as the responder does it has the VLAN the probe came in.
LEMMA VlanKept ==
    ASSUME NEW e, e.tags \in Seq(Vid), Len(e.tags) <= 2, NEW v \in Vid,
           NEW r, NEW l3, FramedAs(r, OrVlan(Untag(e, 2).vlan, v), l3),
           AtMostOne(Tagged(<<v>> \o e.tags))
    PROVE  InVlanOf(r, v, e.tags)
<1> SUFFICES LET came == <<v>> \o e.tags
             IN  /\ AtMostOne(Tagged(r.tags))
                 /\ {r.tags[k] : k \in Tagged(r.tags)} = {came[k] : k \in Tagged(came)}
  BY Zenon DEF InVlanOf
<1> DEFINE came == <<v>> \o e.tags
           n == Len(e.tags)
           u == Untag(e, 2).vlan
           vid == OrVlan(u, v)
           T == Tagged(came)
<1>1. /\ n \in {0, 1, 2} /\ DOMAIN came = 1..(1 + n) /\ came[1] = v
      /\ \A k \in 1..n : came[1 + k] = e.tags[k]
  BY Zenon, CameWith
<1>2. /\ n = 0 => u = 0
      /\ n >= 1 /\ e.tags[1] # 0 => u = e.tags[1]
      /\ n = 2 /\ e.tags[1] = 0 => u = e.tags[2]
      /\ n = 1 /\ e.tags[1] = 0 => u = 0
  BY Zenon, UntagTwo
<1>3. r.tags = IF vid # 0 THEN <<vid>> ELSE << >>
  BY Zenon DEF FramedAs
<1>4. T = {k \in 1..(1 + n) : came[k] # 0} /\ \A j, k \in T : j = k
  BY Zenon, <1>1 DEF Tagged, AtMostOne
<1>5. vid = IF u # 0 THEN u ELSE v
  BY Zenon DEF OrVlan
<1> HIDE DEF came, n, u, vid, T
<1>6. CASE vid = 0
  <2>1. u = 0 /\ v = 0
    BY Zenon, <1>5, <1>6
  <2>2. \A k \in 1..n : e.tags[k] = 0
    BY <1>1, <1>2, <2>1
  <2>3. \A k \in 1..(1 + n) : came[k] = 0
    <3>1. ASSUME NEW k \in 1..(1 + n) PROVE k = 1 \/ \E j \in 1..n : k = 1 + j
      <4>1. k = 1 \/ (k - 1 \in 1..n /\ k = 1 + (k - 1))
        BY <1>1
      <4> QED
        BY Zenon, <4>1
    <3> QED
      BY Zenon, <1>1, <2>1, <2>2, <3>1
  <2>4. T = {}
    BY Zenon, <1>4, <2>3
  <2>5. r.tags = << >>
    BY Zenon, <1>3, <1>6
  <2>6. Tagged(r.tags) = {}
    BY <2>5 DEF Tagged
  <2>7. AtMostOne(Tagged(r.tags))
    BY Zenon, <2>6 DEF AtMostOne
  <2>8. {r.tags[k] : k \in Tagged(r.tags)} = {came[k] : k \in T}
    BY Zenon, <2>4, <2>6
  <2> QED
    BY Zenon, <2>7, <2>8 DEF T, came
<1>7. CASE vid # 0
  <2>1. PICK k \in T : came[k] = vid
    <3>1. CASE u = 0
      <4>1. 1 \in 1..(1 + n)
        BY <1>1
      <4> QED
        BY Zenon, <1>1, <1>4, <1>5, <1>7, <3>1, <4>1
    <3>2. CASE u # 0
      <4>1. \E j \in 1..n : e.tags[j] = u
        BY <1>1, <1>2, <3>2
      <4>2. PICK j \in 1..n : e.tags[j] = u
        BY Zenon, <4>1
      <4>3. 1 + j \in 1..(1 + n) /\ came[1 + j] = u
        BY <1>1, <4>2
      <4> QED
        BY Zenon, <1>4, <1>5, <1>7, <3>2, <4>3
    <3> QED
      BY Zenon, <3>1, <3>2
  <2>2. {came[j] : j \in T} = {vid}
    BY Zenon, <1>4, <2>1
  <2>3. r.tags = <<vid>>
    BY Zenon, <1>3, <1>7
  <2>4. Tagged(r.tags) = {1} /\ r.tags[1] = vid
    BY <1>7, <2>3 DEF Tagged
  <2>5. AtMostOne(Tagged(r.tags))
    BY Zenon, <2>4 DEF AtMostOne
  <2>6. {r.tags[j] : j \in Tagged(r.tags)} = {vid}
    BY Zenon, <2>4
  <2> QED
    BY Zenon, <2>2, <2>5, <2>6 DEF T, came
<1> QED
  BY Zenon, <1>6, <1>7

\* Both kinds of reply are framed that way.
LEMMA RepliesFramed ==
    ASSUME NEW e, NEW f, Typed(f), AsSent(e, f), NEW v \in Vid, NEW a \in AgentFlags,
           NEW r \in Handle(e, v, a)
    PROVE  \E l3 : FramedAs(r, OrVlan(Untag(e, 2).vlan, v), l3)
<1>1. OrVlan(Untag(e, 2).vlan, v) \in Vid
  BY Zenon, ReplyVid
<1>2. \E l3 : r = FrameL2(e.src, e.dst, OrVlan(Untag(e, 2).vlan, v), l3)
  <2>1. CASE f.cmd = "vxlan"
    <3>1. r = TunnelReply(e, f, v, a)
      BY Zenon, <2>1, HandleTunnel
    <3> QED
      BY Zenon, <3>1 DEF TunnelReply
  <2>2. CASE f.cmd # "vxlan"
    <3>1. r = PlainReply(e, v, a)
      BY Zenon, <2>2, HandlePlain
    <3> QED
      BY Zenon, <3>1 DEF PlainReply
  <2> QED
    BY Zenon, <2>1, <2>2
<1> QED
  BY Zenon, <1>1, <1>2, FramedReply

-----------------------------------------------------------------------------
(* The kernel program, and module Frames.                                  *)

\* What the kernel program makes of a plain probe.
LEMMA PlainReading ==
    ASSUME NEW e, NEW f, Typed(f), AsSent(e, f), f.cmd # "vxlan", NEW mode
    PROVE  /\ ~KernelVxlan(e)
           /\ KernelReading(e, mode) = IF mode # "vxlan" /\ e.l3.exts <= 4 THEN "regular" ELSE "none"
<1>1. /\ IsIP(Untag(e, 2).et) /\ e.l3.tos[1] = ToS /\ e.l3.l4.payload = Payload(f)
  BY Zenon, Readable, PlainProbe DEF AsSent
<1>2. IsMeta(e.l3.l4.payload) /\ ~IFlag(e.l3.l4.payload)
  BY Zenon, <1>1, Payloads
<1>3. ~KernelVxlan(e)
  BY Zenon, <1>2 DEF KernelVxlan
<1>4. KernelReads(e) <=> e.l3.exts <= 4
  BY Zenon, <1>1, <1>2 DEF KernelReads, Marked
<1> QED
  BY Zenon, <1>3, <1>4 DEF KernelReading

\* What it makes of an encapsulated one.
LEMMA TunnelReading ==
    ASSUME NEW e, NEW f, Typed(f), AsSent(e, f), f.cmd = "vxlan", NEW mode
    PROVE  /\ KernelVxlan(e) <=> e.l3.exts = 0
           /\ e.l3.l4.payload.inner = InnerOf(f)
           /\ KernelReading(e, mode) = IF mode # "regular" /\ e.l3.exts = 0 THEN "vxlan" ELSE "none"
<1>1. /\ IsIP(Untag(e, 2).et) /\ e.l3.tos[1] # ToS /\ e.l3.proto = "udp"
      /\ e.l3.l4.dport = VxlanPort /\ e.l3.l4.payload = VXLAN(f.vni, InnerOf(f))
  BY Zenon, Readable, TunnelProbe DEF AsSent
<1>2. IFlag(e.l3.l4.payload)
  BY Zenon, <1>1, Payloads
<1>3. KernelVxlan(e) <=> e.l3.exts = 0
  BY Zenon, <1>1, <1>2 DEF KernelVxlan
<1>4. e.l3.l4.payload.inner = InnerOf(f)
  BY <1>1 DEF VXLAN
<1>5. ~KernelReads(e)
  BY Zenon, <1>1 DEF KernelReads, Marked
<1>6. KernelReads(InnerOf(f))
  <2> DEFINE i == InnerOf(f)
  <2>1. /\ i.tags = << >> /\ IsIP(i.et) /\ i.l3.tos[1] = ToS /\ i.l3.exts = 0
        /\ i.l3.l4.payload = Payload(f)
    BY Zenon, InnerFrame
  <2> HIDE DEF i
  <2>2. i.tags \in Seq(Vid) /\ Len(i.tags) <= 2 /\ i.l3.exts <= 4
    BY <2>1
  <2>3. Untag(i, 2).et = i.et
    BY Zenon, <2>2, UntagTwo
  <2>4. IsMeta(i.l3.l4.payload)
    BY Zenon, <2>1, Payloads
  <2>5. KernelReads(i)
    BY Zenon, <2>1, <2>2, <2>3, <2>4 DEF KernelReads, Marked
  <2> QED
    BY Zenon, <2>5 DEF i
<1> QED
  BY Zenon, <1>3, <1>4, <1>5, <1>6 DEF KernelReading

\* What module Frames makes of a plain probe.
PlainFrame(e, f, key, g) ==
    /\ g.marked /\ g.magic /\ g.dst = f.dst
    /\ g.proto = IF e.l3.proto = "icmpv6" THEN "icmp" ELSE e.l3.proto
    /\ g.seg = IF e.l3.proto = "tcp" THEN e.l3.l4.seg ELSE "none"
    /\ g.vxport <=> e.l3.proto = "udp" /\ e.l3.l4.dport = VxlanPort
    /\ g.need = Payload(f).core.need /\ g.deliver = Payload(f).core.deliver
    /\ g.signed <=> Verify(Payload(f), key)

\* FrameOf has the fields of its header.
LEMMA PlainFields ==
    ASSUME NEW e, NEW f, Typed(f), AsSent(e, f), f.cmd # "vxlan", NEW a \in AgentFlags
    PROVE  /\ PlainFrame(e, f, a.key, FrameOf(e, a.key)) /\ ~WrapOf(e).encap
           /\ e.l3.proto \in {"icmp", "icmpv6", "udp", "tcp"}
           /\ e.l3.proto = "tcp" => e.l3.l4.seg \in {"syn", "psh", "fin"}
<1> DEFINE g == FrameOf(e, a.key)
           p == Payload(f)
<1>1. ~KernelVxlan(e)
  BY Zenon, PlainReading
<1>2. /\ e.l3.tos[1] = ToS /\ e.l3.l4.payload = p /\ e.l3.dst = f.dst
      /\ e.l3.proto \in {"icmp", "icmpv6", "udp", "tcp"}
      /\ e.l3.proto = "tcp" => e.l3.l4.seg \in {"syn", "psh", "fin"}
  BY Zenon, PlainProbe DEF AsSent, Typed
<1>3. IsMeta(p)
  BY Zenon, Payloads
<1>4. PlainFrame(e, f, a.key, g)
  <2> HIDE DEF p
  <2>1. g = [src |-> e.l3.src, dst |-> e.l3.dst, marked |-> Marked(e.l3), magic |-> IsMeta(p),
             proto |-> IF e.l3.proto = "icmpv6" THEN "icmp" ELSE e.l3.proto,
             seg |-> IF e.l3.proto = "tcp" THEN e.l3.l4.seg ELSE "none",
             vxport |-> e.l3.proto = "udp" /\ e.l3.l4.dport = VxlanPort,
             need |-> p.core.need, deliver |-> p.core.deliver, signed |-> Verify(p, a.key)]
    BY Zenon, <1>1, <1>2 DEF FrameOf
  <2> HIDE DEF g
  <2>2. /\ g.marked /\ g.magic /\ g.dst = f.dst
        /\ g.proto = IF e.l3.proto = "icmpv6" THEN "icmp" ELSE e.l3.proto
        /\ g.seg = IF e.l3.proto = "tcp" THEN e.l3.l4.seg ELSE "none"
        /\ g.vxport <=> e.l3.proto = "udp" /\ e.l3.l4.dport = VxlanPort
        /\ g.need = p.core.need /\ g.deliver = p.core.deliver /\ (g.signed <=> Verify(p, a.key))
    BY Zenon, <1>2, <1>3, <2>1 DEF Marked
  <2> QED
    BY Zenon, <2>2 DEF PlainFrame, p
<1>5. ~WrapOf(e).encap
  BY Zenon, <1>1 DEF WrapOf
<1> QED
  BY Zenon, <1>2, <1>4, <1>5

\* Without extension headers, kernel and responder decide about a plain probe as Frames has it.
LEMMA PlainDecisions ==
    ASSUME NEW e, NEW f, Typed(f), AsSent(e, f), f.cmd # "vxlan", NEW a \in AgentFlags,
           e.l3.exts = 0
    PROVE  LET g == FrameOf(e, a.key)
               w == WrapOf(e)
           IN  /\ (KernelReading(e, a.mode) # "none") <=> F!Matched(g, w, a.mode)
               /\ PlainAnswer(e, f, a) <=> F!Replies(g, w, ResponderOf(a))
<1> DEFINE g == FrameOf(e, a.key)
           w == WrapOf(e)
           q == ResponderOf(a)
           p == Payload(f)
<1>1. ~KernelVxlan(e) /\ KernelReading(e, a.mode) = IF a.mode # "vxlan" THEN "regular" ELSE "none"
  <2>1. e.l3.exts <= 4
    OBVIOUS
  <2> QED
    BY Zenon, <2>1, PlainReading
<1>2. /\ e.l3.proto \in {"icmp", "icmpv6", "udp", "tcp"}
      /\ e.l3.proto = "tcp" => e.l3.l4.seg \in {"syn", "psh", "fin"}
  BY Zenon, PlainFields
<1>3. IsMeta(p)
  BY Zenon, Payloads
<1>4. a.mode \in {"auto", "regular", "vxlan"}
  BY DEF AgentFlags
<1>5. /\ g.marked /\ g.magic /\ g.dst = f.dst
      /\ g.proto = IF e.l3.proto = "icmpv6" THEN "icmp" ELSE e.l3.proto
      /\ g.seg = IF e.l3.proto = "tcp" THEN e.l3.l4.seg ELSE "none"
      /\ g.vxport <=> e.l3.proto = "udp" /\ e.l3.l4.dport = VxlanPort
      /\ g.need = p.core.need /\ g.deliver = p.core.deliver /\ (g.signed <=> Verify(p, a.key))
  <2>1. PlainFrame(e, f, a.key, g)
    BY Zenon, PlainFields
  <2> QED
    BY Zenon, <2>1 DEF PlainFrame
<1>6. ~w.encap
  BY Zenon, PlainFields
<1>7. q.ips = a.ips /\ q.mode = a.mode /\ q.tcpRespond = a.tcpRespond /\ (q.hmac <=> a.key # NoKey)
  BY Zenon DEF ResponderOf
<1> HIDE DEF g, w, q, p
<1>8. (KernelReading(e, a.mode) # "none") <=> F!Matched(g, w, a.mode)
  BY Zenon, <1>1, <1>4, <1>5, <1>6 DEF F!Matched, F!ParseVxlan, F!ParseRegular, F!ParseL3, F!ParseL4AndMeta
<1>9. F!Gate(g, q) <=> Gate(p, a)
  <2>1. F!AuthOK(g, q) <=> Verify(p, a.key)
    BY Zenon, <1>5, <1>7 DEF F!AuthOK, Verify
  <2> QED
    BY Zenon, <1>3, <1>5, <2>1 DEF F!Gate, Gate
<1>10. F!BuildReply(g, q) <=> /\ f.dst \in a.ips /\ Gate(p, a)
                             /\ (e.l3.proto # "tcp" \/ a.tcpRespond)
  BY Zenon, <1>2, <1>5, <1>7, <1>9 DEF F!BuildReply, F!BuildReplyL4, F!BuildTCPReply
<1>11. F!IsVXLANFrame(g, w) <=> e.l3.proto = "udp" /\ e.l3.l4.dport = VxlanPort
  BY Zenon, <1>2, <1>5, <1>6 DEF F!IsVXLANFrame
<1>12. ~F!HandleVXLAN(g, w, q) /\ (F!HandleRegular(g, w, q) <=> F!BuildReply(g, q))
  BY Zenon, <1>6 DEF F!HandleVXLAN, F!HandleRegular
<1>13. PlainAnswer(e, f, a) <=> F!Replies(g, w, q)
  BY Zenon, <1>4, <1>7, <1>10, <1>11, <1>12 DEF PlainAnswer, F!Replies, p
<1> QED
  BY Zenon, <1>8, <1>13 DEF g, w, q

\* The same for an encapsulated probe.
LEMMA TunnelDecisions ==
    ASSUME NEW e, NEW f, Typed(f), AsSent(e, f), f.cmd = "vxlan", NEW a \in AgentFlags,
           e.l3.exts = 0
    PROVE  LET g == FrameOf(e, a.key)
               w == WrapOf(e)
           IN  /\ (KernelReading(e, a.mode) # "none") <=> F!Matched(g, w, a.mode)
               /\ TunnelAnswer(e, f, a) <=> F!Replies(g, w, ResponderOf(a))
<1> DEFINE g == FrameOf(e, a.key)
           w == WrapOf(e)
           q == ResponderOf(a)
           p == Payload(f)
           i == InnerOf(f)
<1>1. /\ KernelVxlan(e) /\ e.l3.l4.payload.inner = i
      /\ KernelReading(e, a.mode) = IF a.mode # "regular" THEN "vxlan" ELSE "none"
  <2>1. /\ KernelVxlan(e) <=> e.l3.exts = 0
        /\ e.l3.l4.payload.inner = i
        /\ KernelReading(e, a.mode) =
             IF a.mode # "regular" /\ e.l3.exts = 0 THEN "vxlan" ELSE "none"
    BY Zenon, TunnelReading
  <2> QED
    BY Zenon, <2>1
<1>2. /\ i.l3.tos[1] = ToS /\ i.l3.l4.payload = p /\ i.l3.dst = f.innerDst
      /\ i.l3.proto \in {"icmp", "icmpv6"}
  BY Zenon, InnerFrame
<1>3. IsMeta(p)
  BY Zenon, Payloads
<1>4. a.mode \in {"auto", "regular", "vxlan"}
  BY DEF AgentFlags
<1> HIDE DEF i, p
<1>5. /\ g.marked /\ g.magic /\ g.dst = f.innerDst /\ g.proto = "icmp"
      /\ g.need = p.core.need /\ g.deliver = p.core.deliver /\ (g.signed <=> Verify(p, a.key))
  <2>1. g = [src |-> i.l3.src, dst |-> i.l3.dst, marked |-> Marked(i.l3), magic |-> IsMeta(p),
             proto |-> IF i.l3.proto = "icmpv6" THEN "icmp" ELSE i.l3.proto,
             seg |-> IF i.l3.proto = "tcp" THEN i.l3.l4.seg ELSE "none",
             vxport |-> i.l3.proto = "udp" /\ i.l3.l4.dport = VxlanPort,
             need |-> p.core.need, deliver |-> p.core.deliver, signed |-> Verify(p, a.key)]
    BY Zenon, <1>1, <1>2 DEF FrameOf
  <2> HIDE DEF g
  <2>2. g.proto = "icmp"
    BY <1>2, <2>1
  <2> QED
    BY Zenon, <1>2, <1>3, <2>1, <2>2 DEF Marked
<1>6. w.encap
  BY Zenon, <1>1 DEF WrapOf
<1>7. q.ips = a.ips /\ q.mode = a.mode /\ q.tcpRespond = a.tcpRespond /\ (q.hmac <=> a.key # NoKey)
  BY Zenon DEF ResponderOf
<1> HIDE DEF g, w, q
<1>8. (KernelReading(e, a.mode) # "none") <=> F!Matched(g, w, a.mode)
  BY Zenon, <1>1, <1>4, <1>5, <1>6 DEF F!Matched, F!ParseVxlan, F!ParseRegular, F!ParseL3, F!ParseL4AndMeta
<1>9. F!Gate(g, q) <=> Gate(p, a)
  <2>1. F!AuthOK(g, q) <=> Verify(p, a.key)
    BY Zenon, <1>5, <1>7 DEF F!AuthOK, Verify
  <2> QED
    BY Zenon, <1>3, <1>5, <2>1 DEF F!Gate, Gate
<1>10. F!BuildReply(g, q) <=> f.innerDst \in a.ips /\ Gate(p, a)
  BY <1>5, <1>7, <1>9 DEF F!BuildReply, F!BuildReplyL4
<1>11. F!IsVXLANFrame(g, w)
  BY Zenon, <1>6 DEF F!IsVXLANFrame
<1>12. ~F!HandleRegular(g, w, q) /\ (F!HandleVXLAN(g, w, q) <=> F!BuildReply(g, q))
  BY Zenon, <1>6 DEF F!HandleVXLAN, F!HandleRegular
<1>13. TunnelAnswer(e, f, a) <=> F!Replies(g, w, q)
  BY Zenon, <1>4, <1>7, <1>10, <1>11, <1>12 DEF TunnelAnswer, F!Replies, p
<1> QED
  BY Zenon, <1>8, <1>13 DEF g, w, q

-----------------------------------------------------------------------------
(* One probe's way.                                                        *)

\* A probe of any command is one IP header, without extensions.
LEMMA ProbeIsIP ==
    ASSUME NEW f, Typed(f)
    PROVE  \E fam, dscp, proto, src, dst, l4 : ProbeL3(f) = IP(fam, dscp, proto, src, dst, l4)
<1>1. CASE f.cmd = "icmp"
  <2>1. ProbeL3(f) = IcmpL3(SrcIP(f), f.dst, Payload(f))
    BY <1>1 DEF ProbeL3
  <2> QED
    BY Zenon, <2>1 DEF IcmpL3
<1>2. CASE f.cmd = "udp"
  <2>1. ProbeL3(f) = UdpL3(SrcIP(f), f.dst, f.sport, Dport(f, 7), Payload(f))
    BY <1>2 DEF ProbeL3
  <2> QED
    BY Zenon, <2>1 DEF UdpL3
<1>3. CASE f.cmd = "tcp"
  <2>1. ProbeL3(f) = TcpL3(f)
    BY <1>3 DEF ProbeL3
  <2> QED
    BY Zenon, <2>1 DEF TcpL3
<1>4. CASE f.cmd = "vxlan"
  <2>1. ProbeL3(f) = VxlanL3(f)
    BY <1>4 DEF ProbeL3
  <2> QED
    BY Zenon, <2>1 DEF VxlanL3
<1> QED
  BY Zenon, <1>1, <1>2, <1>3, <1>4 DEF Typed

\* An Ethernet frame with these tags and this IP header.
IsFrame(e, t, l3) ==
    \E d, s : e = [dst |-> d, src |-> s, tags |-> t, et |-> l3.fam, l3 |-> l3]

\* emit frames it with one tag at most.
LEMMA Emitted ==
    ASSUME NEW f, Typed(f)
    PROVE  \E t \in Seq(Vid) : Len(t) <= 1 /\ IsFrame(Emit(f), t, ProbeL3(f))
<1>1. << >> \in Seq(Vid) /\ Len(<< >>) <= 1
  OBVIOUS
<1>2. <<f.vlan % VidMod>> \in Seq(Vid) /\ Len(<<f.vlan % VidMod>>) <= 1
  <2>1. f.vlan % VidMod \in Vid
    BY WireAssumption DEF Typed, Vid
  <2> QED
    BY <2>1
<1>3. CASE ByL2(f) /\ f.vlan > 0
  <2> DEFINE smac == IF f.srcMAC = NoMac THEN "nic" ELSE f.srcMAC
  <2>1. Emit(f) = EthernetVLAN(f.dstMAC, smac, f.vlan, ProbeL3(f))
    BY Zenon, <1>3 DEF Emit, SendL2
  <2>2. Emit(f) = [dst |-> f.dstMAC, src |-> smac, tags |-> <<f.vlan % VidMod>>,
                   et |-> ProbeL3(f).fam, l3 |-> ProbeL3(f)]
    BY <2>1 DEF EthernetVLAN, Ethernet
  <2> QED
    BY Zenon, <1>2, <2>2 DEF IsFrame
<1>4. CASE ByL2(f) /\ ~(f.vlan > 0)
  <2>1. Emit(f) = Ethernet(f.dstMAC, IF f.srcMAC = NoMac THEN "nic" ELSE f.srcMAC, ProbeL3(f))
    BY Zenon, <1>4 DEF Emit, SendL2
  <2> QED
    BY Zenon, <1>1, <2>1 DEF Ethernet, IsFrame
<1>5. CASE ~ByL2(f)
  <2>1. Emit(f) = Ethernet("router", "nic", ProbeL3(f))
    BY Zenon, <1>5 DEF Emit, SendIP
  <2> QED
    BY Zenon, <1>1, <2>1 DEF Ethernet, IsFrame
<1> QED
  BY Zenon, <1>3, <1>4, <1>5

\* A frame with an Ethernet type, tags and an IP header.
Has(e, et, tags, l3) == e.et = et /\ e.tags = tags /\ e.l3 = l3

\* New tags and a new IP header leave the Ethernet type.
LEMMA Reframed ==
    ASSUME NEW e, NEW t, NEW l3, IsFrame(e, t, l3)
    PROVE  /\ e.tags = t /\ e.l3 = l3
           /\ \A t2, m : Has([e EXCEPT !.tags = t2, !.l3 = m], l3.fam, t2, m)
  BY DEF Has, IsFrame

\* What routers leave of an IP header.
Carried(m, l3) ==
    /\ m.fam = l3.fam /\ m.proto = l3.proto /\ m.src = l3.src /\ m.dst = l3.dst
    /\ m.l4 = l3.l4 /\ m.tos[1] = l3.tos[1]

\* They leave that of a probe.
LEMMA RoutedProbe ==
    ASSUME NEW f, Typed(f), NEW ce, NEW exts, NEW m, m = Routed(ProbeL3(f), ce, exts)
    PROVE  Carried(m, ProbeL3(f)) /\ m.exts = exts
<1> DEFINE l3 == ProbeL3(f)
<1>1. PICK fam, dscp, proto, src, dst, l4 : l3 = IP(fam, dscp, proto, src, dst, l4)
  BY Zenon, ProbeIsIP
<1> HIDE DEF l3
<1>2. /\ m.fam = l3.fam /\ m.proto = l3.proto /\ m.src = l3.src /\ m.dst = l3.dst
      /\ m.l4 = l3.l4 /\ m.tos[1] = dscp /\ m.exts = exts
  BY <1>1 DEF IP, Routed, l3
<1>3. l3.tos[1] = dscp
  BY <1>1 DEF IP
<1> QED
  BY Zenon, <1>2, <1>3 DEF l3, Carried

\* Pushing one tag and taking the outermost out leaves two tags at most.
LEMMA Retagged ==
    ASSUME NEW t \in Seq(Vid), Len(t) <= 1, NEW push \in BOOLEAN, NEW off \in BOOLEAN
    PROVE  LET tags == IF push THEN <<Stag>> \o t ELSE t
               take == off /\ tags # << >>
               rest == IF take THEN Tail(tags) ELSE tags
           IN  /\ rest \in Seq(Vid) /\ Len(rest) <= 2
               /\ (IF take THEN Head(tags) ELSE 0) \in Vid
<1> DEFINE tags == IF push THEN <<Stag>> \o t ELSE t
<1>1. Stag \in Vid /\ 0 \in Vid /\ <<Stag>> \in Seq(Vid) /\ Len(<<Stag>>) = 1 /\ Len(t) \in Nat
  BY WireAssumption, LenProperties DEF Vid
<1>2. tags \in Seq(Vid) /\ Len(tags) <= 2 /\ Len(tags) \in Nat
  <2>1. CASE push
    <3>1. <<Stag>> \o t \in Seq(Vid) /\ Len(<<Stag>> \o t) = Len(<<Stag>>) + Len(t)
      BY Zenon, <1>1, ConcatProperties
    <3>2. tags = <<Stag>> \o t
      BY Zenon, <2>1
    <3>3. Len(<<Stag>>) + Len(t) <= 2 /\ Len(<<Stag>>) + Len(t) \in Nat
      BY <1>1
    <3> QED
      BY Zenon, <3>1, <3>2, <3>3
  <2>2. CASE ~push
    <3>1. Len(t) <= 2
      BY <1>1
    <3> QED
      BY Zenon, <1>1, <2>2, <3>1
  <2> QED
    BY Zenon, <2>1, <2>2
<1> HIDE DEF tags
<1>3. tags # << >> => Head(tags) \in Vid /\ Tail(tags) \in Seq(Vid) /\ Len(Tail(tags)) <= 2
  BY <1>2, HeadTailProperties
<1> QED
  BY Zenon, <1>1, <1>2, <1>3 DEF tags

\* applyAsVM changes the source only.
SameTarget(g, f) ==
    /\ g.cmd = f.cmd /\ g.seg = f.seg /\ g.dst = f.dst /\ g.sport = f.sport
    /\ g.dport = f.dport /\ g.vni = f.vni /\ g.vlan = f.vlan

\* So the flags it leaves still have their types.
LEMMA StaysTyped ==
    ASSUME NEW f \in CommandLine
    PROVE  Typed(ApplyAsVM(f))
<1>1. Typed(f)
  BY DEF CommandLine, Typed
<1>2. CASE ~f.asVM \/ ~f.iface
  BY Zenon, <1>1, <1>2 DEF ApplyAsVM
<1>3. CASE ~(~f.asVM \/ ~f.iface)
  <2>1. PICK m, x : ApplyAsVM(f) = [f EXCEPT !.srcMAC = m, !.src = x]
    BY Zenon, <1>3 DEF ApplyAsVM
  <2>2. SameTarget(ApplyAsVM(f), f)
    BY <2>1 DEF CommandLine, SameTarget
  <2> QED
    BY Zenon, <1>1, <2>2 DEF Typed, SameTarget
<1> QED
  BY Zenon, <1>2, <1>3

\* The frame e that f emits is e2 on its arrival: with tags after the network pushed its own
\* or not, x of the outermost taken by the card or 0, and with t2 left.
Crosses(f, push, ce, exts, off, e, tags, take, x, t2, e2) ==
    /\ e = Emit(f) /\ tags = (IF push THEN <<Stag>> \o e.tags ELSE e.tags)
    /\ take = (off /\ tags # << >>) /\ t2 = (IF take THEN Tail(tags) ELSE tags)
    /\ x = (IF take THEN Head(tags) ELSE 0)
    /\ e2 = [e EXCEPT !.tags = t2, !.l3 = Routed(@, ce, exts)]

\* A frame arrives as it was sent but for what the network may change.
LEMMA Arrives ==
    ASSUME NEW f, Typed(f), NEW e, NEW push \in BOOLEAN, NEW ce, NEW exts \in Nat,
           NEW off \in BOOLEAN, NEW tags, NEW take, NEW x, NEW t2, NEW e2,
           Crosses(f, push, ce, exts, off, e, tags, take, x, t2, e2)
    PROVE  AsSent(e2, f) /\ x \in Vid
<1>0. /\ e = Emit(f) /\ tags = (IF push THEN <<Stag>> \o e.tags ELSE e.tags)
      /\ take = (off /\ tags # << >>) /\ t2 = (IF take THEN Tail(tags) ELSE tags)
      /\ x = (IF take THEN Head(tags) ELSE 0)
      /\ e2 = [e EXCEPT !.tags = t2, !.l3 = Routed(@, ce, exts)]
  BY Zenon DEF Crosses
<1> DEFINE l3 == ProbeL3(f)
           m == Routed(l3, ce, exts)
<1>1. PICK t \in Seq(Vid) : Len(t) <= 1 /\ IsFrame(e, t, l3)
  BY Zenon, <1>0, Emitted
<1>2. /\ e.tags = t /\ e.l3 = l3
      /\ \A a, b : Has([e EXCEPT !.tags = a, !.l3 = b], l3.fam, a, b)
  BY Zenon, <1>1, Reframed
<1>3. Carried(m, l3) /\ m.exts = exts
  BY Zenon, RoutedProbe
<1> HIDE DEF l3
<1>4. t2 \in Seq(Vid) /\ Len(t2) <= 2 /\ x \in Vid
  BY Zenon, <1>0, <1>1, <1>2, Retagged
<1>5. e2 = [e EXCEPT !.tags = t2, !.l3 = m]
  BY Zenon, <1>0, <1>2
<1> HIDE DEF m
<1>6. Has(e2, l3.fam, t2, m)
  <2>1. Has([e EXCEPT !.tags = t2, !.l3 = m], l3.fam, t2, m)
    BY Zenon, <1>2
  <2> QED
    BY <2>1, <1>5
<1> QED
  BY Zenon, <1>3, <1>4, <1>6 DEF AsSent, Has, Carried, l3

-----------------------------------------------------------------------------
(* The invariant.                                                          *)

\* Of the command line before applyAsVM, and of the probe after it.
WireInductive == WireInv /\ (pc = "start" => flags \in CommandLine)

\* The first state has it.
LEMMA WireInitial == Init => WireInductive
<1> SUFFICES ASSUME Init PROVE WireInductive
  BY Zenon
<1>1. flags \in CommandLine /\ agent \in AgentFlags
  BY Zenon, WireAssumption DEF Init
<1>2. Typed(flags)
  BY <1>1 DEF CommandLine, Typed
<1>3. 0 \in Vid
  BY WireAssumption DEF Vid
<1> QED
  BY Zenon, <1>1, <1>2, <1>3 DEF Init, WireInductive, WireInv

\* Every step keeps it.
LEMMA WireStep == WireInductive /\ [Next]_vars => WireInductive'
<1> SUFFICES ASSUME WireInductive, [Next]_vars PROVE WireInductive'
  BY Zenon
<1>1. CASE Run
  <2>1. pc = "start" /\ frame = {} /\ reply = {} /\ flags \in CommandLine
    BY Zenon, <1>1 DEF Run, WireInductive, WireInv
  <2>2. Typed(flags')
    BY Zenon, <1>1, <2>1, StaysTyped DEF Run
  <2>3. agent' \in AgentFlags /\ aux' \in Vid /\ reply' = {}
    BY Zenon, <1>1, <2>1 DEF Run, WireInductive, WireInv
  <2>4. CASE Fatal(flags')
    <3>1. pc' = "fatal" /\ frame' = {}
      BY Zenon, <1>1, <2>1, <2>4 DEF Run
    <3> QED
      BY Zenon, <2>2, <2>3, <3>1 DEF WireInductive, WireInv
  <2>5. CASE ~Fatal(flags')
    <3>1. pc' = "sent" /\ frame' = {Emit(flags')}
      BY Zenon, <1>1, <2>1, <2>5 DEF Run
    <3>2. frame' = {Emit(flags)'}
      BY Zenon, <3>1 
    <3> QED
      BY Zenon, <2>2, <2>3, <3>1, <3>2 DEF WireInductive, WireInv
  <2> QED
    BY Zenon, <2>4, <2>5
<1>2. ASSUME NEW push \in BOOLEAN, NEW ce \in BOOLEAN, NEW off \in BOOLEAN,
             NEW exts \in 0..MaxExt, Arrive(push, ce, exts, off)
      PROVE  WireInductive'
  <2>1. /\ pc = "sent" /\ pc' = "arrived" /\ reply' = {} /\ flags' = flags /\ agent' = agent
        /\ Typed(flags) /\ agent \in AgentFlags /\ frame = {Emit(flags)}
    BY Zenon, <1>2 DEF Arrive, WireInductive, WireInv
  <2> DEFINE e == Emit(flags)
             tags == IF push THEN <<Stag>> \o e.tags ELSE e.tags
             take == off /\ tags # << >>
             x == IF take THEN Head(tags) ELSE 0
             t2 == IF take THEN Tail(tags) ELSE tags
             e2 == [e EXCEPT !.tags = t2, !.l3 = Routed(@, ce, exts)]
  <2>2. frame' = {e2} /\ aux' = x
    BY Zenon, <1>2, <2>1 DEF Arrive
  <2>3. exts \in Nat
    BY WireAssumption
  <2>4. AsSent(e2, flags) /\ x \in Vid
    <3>1. Typed(flags) /\ Crosses(flags, push, ce, exts, off, e, tags, take, x, t2, e2)
      BY Zenon, <2>1 DEF Crosses
    <3> HIDE DEF e, tags, take, x, t2, e2
    <3> QED
      BY Zenon, <2>3, <3>1, Arrives
  <2> HIDE DEF e, tags, take, x, t2, e2
  <2>5. aux' \in Vid /\ \E y : frame' = {y} /\ AsSent(y, flags)
    BY Zenon, <2>2, <2>4
  <2>6. \E y : frame' = {y} /\ AsSent(y, flags')
    BY Zenon, <2>1, <2>5
  <2> QED
    BY Zenon, <2>1, <2>5, <2>6 DEF WireInductive, WireInv, Typed
<1>3. CASE Respond
  <2>1. /\ pc = "arrived" /\ pc' = "handled" /\ flags' = flags /\ agent' = agent
        /\ frame' = frame /\ aux' = aux /\ reply' = UNION {Handle(e, aux, agent) : e \in frame}
    BY Zenon, <1>3 DEF Respond
  <2>2. \E e : frame = {e} /\ AsSent(e, flags)
    BY Zenon, <2>1 DEF WireInductive, WireInv
  <2>3. reply' = UNION {Handle(e, aux', agent') : e \in frame'}
    BY <2>1
  <2>4. \E e : frame' = {e} /\ AsSent(e, flags')
    BY Zenon, <2>1, <2>2
  <2> QED
    BY Zenon, <2>1, <2>3, <2>4 DEF WireInductive, WireInv
<1>4. CASE UNCHANGED vars
  <2>1. /\ pc' = pc /\ flags' = flags /\ agent' = agent /\ frame' = frame /\ aux' = aux
        /\ reply' = reply
    BY Zenon, <1>4 DEF vars
  <2>2. pc' \in {"arrived", "handled"} => \E e : frame' = {e} /\ AsSent(e, flags')
    <3>1. pc \in {"arrived", "handled"} => \E e : frame = {e} /\ AsSent(e, flags)
      BY Zenon DEF WireInductive, WireInv
    <3> HIDE DEF WireInductive
    <3> QED
      BY Zenon, <2>1, <3>1
  <2>3. pc' = "handled" => reply' = UNION {Handle(e, aux', agent') : e \in frame'}
    BY <2>1 DEF WireInductive, WireInv
  <2>4. pc' = "sent" => frame' = {Emit(flags')}
    BY Zenon, <2>1 DEF WireInductive, WireInv
  <2> QED
    BY Zenon, <2>1, <2>2, <2>3, <2>4 DEF WireInductive, WireInv, Typed
<1> QED
  BY Zenon, <1>1, <1>2, <1>3, <1>4 DEF Next

\* What holds of the probe at every stage of its way, whatever the flags, the network and
\* the agent: the responder meets the client's headers, but for tags, ECN and extensions.
THEOREM WireInvariant == Spec => []WireInductive
  BY PTL, WireInitial, WireStep DEF Spec

-----------------------------------------------------------------------------
(* The properties.                                                         *)

\* What there is after the responder's turn.
LEMMA AfterResponse ==
    ASSUME WireInductive, pc = "handled"
    PROVE  /\ Typed(flags) /\ agent \in AgentFlags /\ aux \in Vid
           /\ \E e : frame = {e} /\ AsSent(e, flags) /\ reply = Handle(e, aux, agent)
<1>1. /\ Typed(flags) /\ agent \in AgentFlags /\ aux \in Vid
      /\ reply = UNION {Handle(e, aux, agent) : e \in frame}
      /\ \E e : frame = {e} /\ AsSent(e, flags)
  BY Zenon DEF WireInductive, WireInv
<1>2. PICK e : frame = {e} /\ AsSent(e, flags)
  BY Zenon, <1>1
<1>3. reply = Handle(e, aux, agent)
  BY <1>1, <1>2
<1> QED
  BY Zenon, <1>1, <1>2, <1>3

\* For every command line, every agent and whatever the network does to tags, congestion
\* bits and extension headers: a reply of the responder (agent/responder.go) passes the
\* sniffer of the client and the match of its command (client/sniffer.go, client/main.go).
THEOREM RepliesRecognised == Spec => []ReplyRecognised
<1>1. WireInductive => ReplyRecognised
  <2> SUFFICES ASSUME WireInductive, NEW r \in reply, Expressible(flags)
               PROVE  Accepts(flags, r)
    BY Zenon DEF ReplyRecognised
  <2>1. pc = "handled"
    BY Zenon DEF WireInductive, WireInv
  <2>2. Typed(flags) /\ agent \in AgentFlags /\ aux \in Vid
    BY Zenon, <2>1, AfterResponse
  <2>3. PICK e : AsSent(e, flags) /\ reply = Handle(e, aux, agent)
    BY Zenon, <2>1, AfterResponse
  <2>4. CASE flags.cmd = "vxlan"
    <3>1. r = TunnelReply(e, flags, aux, agent)
      BY Zenon, <2>2, <2>3, <2>4, HandleTunnel
    <3>2. Accepts(flags, TunnelReply(e, flags, aux, agent))
      BY Zenon, <2>2, <2>3, <2>4, TunnelRecognised
    <3> QED
      BY Zenon, <3>1, <3>2
  <2>5. CASE flags.cmd # "vxlan"
    <3>1. r = PlainReply(e, aux, agent)
      BY Zenon, <2>2, <2>3, <2>5, HandlePlain
    <3>2. Accepts(flags, PlainReply(e, aux, agent))
      BY Zenon, <2>2, <2>3, <2>5, PlainRecognised
    <3> QED
      BY Zenon, <3>1, <3>2
  <2> QED
    BY Zenon, <2>4, <2>5
<1> QED
  BY PTL, <1>1, WireInvariant

\* For every VLAN id and stack of two tags, offloaded or not: the reply leaves in the VLAN
\* its probe came in (orVLAN and frameL2 of agent/responder.go).
THEOREM RepliesKeepVlan == Spec => []VlanPreserved
<1>1. WireInductive => VlanPreserved
  <2> SUFFICES ASSUME WireInductive, NEW e \in frame, NEW r \in reply,
                      AtMostOne(Tagged(<<aux>> \o e.tags))
               PROVE  InVlanOf(r, aux, e.tags)
    BY Zenon DEF VlanPreserved, InVlanOf
  <2>1. pc = "handled"
    BY Zenon DEF WireInductive, WireInv
  <2>2. Typed(flags) /\ agent \in AgentFlags /\ aux \in Vid
    BY Zenon, <2>1, AfterResponse
  <2>3. AsSent(e, flags) /\ reply = Handle(e, aux, agent)
    BY Zenon, <2>1, AfterResponse
  <2>4. PICK l3 : FramedAs(r, OrVlan(Untag(e, 2).vlan, aux), l3)
    BY Zenon, <2>2, <2>3, RepliesFramed
  <2>5. e.tags \in Seq(Vid) /\ Len(e.tags) <= 2
    BY Zenon, <2>3 DEF AsSent
  <2> QED
    BY Zenon, <2>2, <2>4, <2>5, VlanKept
<1> QED
  BY PTL, <1>1, WireInvariant

\* What module Frames says of a frame is what the two parsers, the C one of the kernel
\* program and the Go one of the responder, do with its headers.
THEOREM FramesIsFaithful == Spec => []DecisionsAsInFrames
<1>1. WireInductive => DecisionsAsInFrames
  <2> SUFFICES ASSUME WireInductive, pc = "handled", NEW e \in frame, e.l3.exts = 0
               PROVE  LET f == FrameOf(e, agent.key)
                          w == WrapOf(e)
                      IN  /\ (KernelReading(e, agent.mode) # "none") <=> F!Matched(f, w, agent.mode)
                          /\ (reply # {}) <=> F!Replies(f, w, ResponderOf(agent))
    BY Zenon DEF DecisionsAsInFrames
  <2>1. Typed(flags) /\ agent \in AgentFlags /\ aux \in Vid
    BY Zenon, AfterResponse
  <2>2. AsSent(e, flags) /\ reply = Handle(e, aux, agent)
    BY Zenon, AfterResponse
  <2>3. CASE flags.cmd = "vxlan"
    <3>1. (reply # {}) <=> TunnelAnswer(e, flags, agent)
      BY Zenon, <2>1, <2>2, <2>3, HandleTunnel
    <3> QED
      BY Zenon, <2>1, <2>2, <2>3, <3>1, TunnelDecisions
  <2>4. CASE flags.cmd # "vxlan"
    <3>1. (reply # {}) <=> PlainAnswer(e, flags, agent)
      BY Zenon, <2>1, <2>2, <2>4, HandlePlain
    <3> QED
      BY Zenon, <2>1, <2>2, <2>4, <3>1, PlainDecisions
  <2> QED
    BY Zenon, <2>3, <2>4
<1> QED
  BY PTL, <1>1, WireInvariant

\* A probe the kernel program drops at its destination (do_drop of bpf/traceflow.c) on the
\* assumption that the responder answers it is answered, for every frame a client can
\* send: the conditions it needs beside do_drop are those the property names.
THEOREM InterceptedAnswered == Spec => []InterceptedIsAnswered
<1>1. WireInductive => InterceptedIsAnswered
  <2> SUFFICES ASSUME WireInductive, pc = "handled", NEW e \in frame,
                      KernelReading(e, agent.mode) = "regular",
                      F!DoDrop(FrameOf(e, agent.key), "REGULAR", agent.ips, TRUE, agent.tcpRespond),
                      FrameOf(e, agent.key).signed, e.l3.exts = 0,
                      ~(FrameOf(e, agent.key).vxport /\ agent.mode = "auto")
               PROVE  reply # {}
    BY Zenon DEF InterceptedIsAnswered
  <2> DEFINE g == FrameOf(e, agent.key)
             p == Payload(flags)
  <2>1. Typed(flags) /\ agent \in AgentFlags /\ aux \in Vid
    BY Zenon, AfterResponse
  <2>2. AsSent(e, flags) /\ reply = Handle(e, aux, agent)
    BY Zenon, AfterResponse
  <2>3. flags.cmd # "vxlan"
    BY Zenon, <2>1, <2>2, TunnelReading
  <2>4. PlainFrame(e, flags, agent.key, g)
    BY Zenon, <2>1, <2>2, <2>3, PlainFields
  <2>5. agent.mode # "vxlan"
    BY Zenon, <2>1, <2>2, <2>3, PlainReading
  <2>6. IsMeta(p)
    BY Zenon, Payloads
  <2>7. g.need /\ ~g.deliver /\ g.dst \in agent.ips /\ (g.proto # "tcp" \/ agent.tcpRespond)
    BY Zenon DEF F!DoDrop
  <2>8. Gate(p, agent)
    BY Zenon, <2>4, <2>6, <2>7 DEF Gate, PlainFrame
  <2>9. flags.dst \in agent.ips /\ (e.l3.proto # "tcp" \/ agent.tcpRespond)
    BY Zenon, <2>4, <2>7 DEF PlainFrame
  <2>10. ~(agent.mode = "auto" /\ e.l3.proto = "udp" /\ e.l3.l4.dport = VxlanPort)
    BY Zenon, <2>4 DEF PlainFrame
  <2>11. PlainAnswer(e, flags, agent)
    BY Zenon, <2>5, <2>8, <2>9, <2>10 DEF PlainAnswer
  <2> QED
    BY Zenon, <2>1, <2>2, <2>3, <2>11, HandlePlain
<1> QED
  BY PTL, <1>1, WireInvariant

\* In AUTO mode the responder picks as the kernel program does for what it matches,
\* except for a plain UDP probe to the VXLAN port without extension headers.
AutoPicksButForPort ==
    \A e \in frame : pc = "handled" /\ agent.mode = "auto" /\ KernelReading(e, "auto") # "none" =>
        ((KernelReading(e, "auto") = "vxlan" <=> IsVXLANFrame(e))
            <=> ~(flags.cmd = "udp" /\ Dport(flags, 7) = VxlanPort /\ e.l3.exts = 0))

\* "AUTO picks VXLAN vs regular the same way the eBPF program does" (handle): for every
\* frame a client can send that holds but in one case, the one in which isVXLANFrame goes by
\* the port alone, and in that case it never holds.
THEOREM AutoDiffersByPort == Spec => []AutoPicksButForPort
<1>1. WireInductive => AutoPicksButForPort
  <2> SUFFICES ASSUME WireInductive, pc = "handled", NEW e \in frame,
                      KernelReading(e, "auto") # "none"
               PROVE  (KernelReading(e, "auto") = "vxlan" <=> IsVXLANFrame(e))
                         <=> ~(flags.cmd = "udp" /\ Dport(flags, 7) = VxlanPort /\ e.l3.exts = 0)
    BY Zenon DEF AutoPicksButForPort
  <2>1. Typed(flags)
    BY Zenon, AfterResponse
  <2>2. AsSent(e, flags)
    BY Zenon, AfterResponse
  <2>3. ParseL2(e).et = Untag(e, 2).et /\ IsIP(Untag(e, 2).et)
    BY Zenon, <2>1, <2>2, Readable DEF ParseL2
  <2>4. CASE flags.cmd = "vxlan"
    <3>1. KernelReading(e, "auto") = "vxlan" /\ e.l3.exts = 0
      BY Zenon, <2>1, <2>2, <2>4, TunnelReading
    <3>2. e.l3.proto = "udp" /\ e.l3.l4.dport = VxlanPort
      BY Zenon, <2>1, <2>2, <2>4, TunnelProbe DEF AsSent
    <3>3. IsVXLANFrame(e)
      BY Zenon, <2>3, <3>1, <3>2 DEF IsVXLANFrame, Transport
    <3> QED
      BY Zenon, <2>4, <3>1, <3>3
  <2>5. CASE flags.cmd # "vxlan"
    <3>1. KernelReading(e, "auto") = "regular"
      BY Zenon, <2>1, <2>2, <2>5, PlainReading
    <3>2. e.l3.proto = "udp" <=> flags.cmd = "udp"
      BY Zenon, <2>1, <2>2, <2>5, PlainProbe DEF AsSent, Typed
    <3>3. flags.cmd = "udp" => e.l3.l4.dport = Dport(flags, 7)
      <4>1. flags.cmd = "udp" => ProbeL3(flags).l4.dport = Dport(flags, 7)
        BY DEF ProbeL3, UdpL3, IP, UDP
      <4> QED
        BY Zenon, <2>2, <4>1 DEF AsSent
    <3>4. IsVXLANFrame(e) <=> flags.cmd = "udp" /\ Dport(flags, 7) = VxlanPort /\ e.l3.exts = 0
      <4>1. CASE e.l3.exts = 0
        BY Zenon, <2>3, <3>2, <3>3, <4>1 DEF IsVXLANFrame, Transport
      <4>2. CASE e.l3.exts # 0
        BY Zenon, <4>2 DEF IsVXLANFrame, Transport
      <4> QED
        BY Zenon, <4>1, <4>2
    <3> QED
      BY Zenon, <3>1, <3>4
  <2> QED
    BY Zenon, <2>4, <2>5
<1> QED
  BY PTL, <1>1, WireInvariant
=============================================================================
