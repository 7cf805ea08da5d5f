------------------------------- MODULE Frames -------------------------------
(***************************************************************************)
(* What the kernel program (bpf/traceflow.c) and the userspace responder   *)
(* (agent/responder.go) decide about one frame.  The two parse the same    *)
(* bytes independently, in C and in Go, and the system is only correct     *)
(* when their decisions agree: the kernel drops a probe on the assumption  *)
(* that the responder answers it.                                          *)
(*                                                                         *)
(* A frame is abstracted to the fields either side branches on:            *)
(*   src, dst   the inner addresses                                        *)
(*   marked     the DSCP of the inner header is 62 (level-1 filter)        *)
(*   magic      the payload starts with a whole traceflow_meta (level 2)   *)
(*   proto, seg the transport, and the kind of segment when it is TCP      *)
(*   vxport     it is UDP to port 4789                                     *)
(*   need, deliver   the two flag bytes of the meta (the sender writes     *)
(*              only 0 and 1, tfmeta.Marshal)                              *)
(*   signed     the payload carries an HMAC that verifies under the key    *)
(* Encapsulation is a property of the hop, not of the frame: the same      *)
(* probe is inside VXLAN on the underlay and plain on a tap.               *)
(***************************************************************************)
EXTENDS Naturals

CONSTANTS
    Ip,         \* addresses of the VMs and of the senders
    Vni         \* VXLAN network identifiers on the wire; 0 is none

ASSUME VniAssumption == Vni \subseteq Nat /\ 0 \in Vni

Mode == {"auto", "regular", "vxlan"}
Proto == {"icmp", "udp", "tcp"}
Seg == {"none", "syn", "synack", "ack", "psh", "fin", "rst"}

Frame ==
    [src: Ip, dst: Ip, marked: BOOLEAN, magic: BOOLEAN, proto: Proto, seg: Seg,
     vxport: BOOLEAN, need: BOOLEAN, deliver: BOOLEAN, signed: BOOLEAN]

\* The encapsulation of a frame where a hook sees it: `encap` is a VXLAN header
\* with a valid VNI `wire`; `tunnel` is the tunnel key of the skb (0: none).
Wrap == [encap: BOOLEAN, wire: Vni, tunnel: Vni]

-----------------------------------------------------------------------------
(* The kernel program.                                                     *)

\* parse_l4_and_meta: the transport header is whole and the magic follows it.
ParseL4AndMeta(f) == f.magic

\* parse_ipv4, parse_ipv6, parse_l3: the DSCP filter, then the transport.
ParseL3(f) == f.marked /\ ParseL4AndMeta(f)

\* parse_vxlan: UDP to 4789 with the I flag, then the inner frame.  A marked
\* payload cannot pass for a VXLAN header: its first byte is "T" = 0x54, in
\* which the I flag 0x08 is clear.
ParseVxlan(f, w) == w.encap /\ ParseL3(f)

\* parse_regular: the frame itself.  Read this way an encapsulated frame shows
\* its VXLAN header where the magic should be.
ParseRegular(f, w) == ~w.encap /\ ParseL3(f)

\* Mode selection: VXLAN first, and regular when that fails and the mode is AUTO.
Matched(f, w, mode) ==
    \/ mode \in {"vxlan", "auto"} /\ ParseVxlan(f, w)
    \/ mode \in {"regular", "auto"} /\ ParseRegular(f, w)

\* Fault: the tunnel key is not consulted.
ObsVni_NoTunnelKey(w, dev, key) ==
    IF w.encap THEN w.wire ELSE IF dev # {} THEN CHOOSE v \in dev : TRUE ELSE 0

\* Device enrichment.  dev is the set holding the interface's iface_vni entry,
\* empty when it has none; key is the skb tunnel key, which only TC can read.
ObsVni(w, dev, key) ==
    LET parsed == IF w.encap THEN w.wire ELSE 0
        tagged == IF parsed = 0 /\ dev # {} THEN CHOOSE v \in dev : TRUE ELSE parsed
    IN  IF tagged = 0 THEN key ELSE tagged

ObsType(w, dev, key) ==
    IF \/ w.encap
       \/ dev # {}
       \/ key # 0
    THEN "VXLAN" ELSE "REGULAR"

\* Faults: one conjunct of do_drop is missing, or TCP is never dropped.
DoDrop_IgnoreNeed(f, type, local, respond, tcpRespond) ==
    ~f.deliver /\ f.dst \in local /\ type # "VXLAN" /\ respond /\ (f.proto # "tcp" \/ tcpRespond)
DoDrop_IgnoreDeliver(f, type, local, respond, tcpRespond) ==
    f.need /\ f.dst \in local /\ type # "VXLAN" /\ respond /\ (f.proto # "tcp" \/ tcpRespond)
DoDrop_IgnoreTcpFlag(f, type, local, respond, tcpRespond) ==
    f.need /\ ~f.deliver /\ f.dst \in local /\ type # "VXLAN" /\ respond
DoDrop_NeverTcp(f, type, local, respond, tcpRespond) ==
    f.need /\ ~f.deliver /\ f.dst \in local /\ type # "VXLAN" /\ respond /\ f.proto # "tcp"

\* do_drop, the same expression in handle and in traceflow_xdp: the probe wants
\* an answer, does not ask for delivery, is for an address in local_ips, is not
\* VXLAN, and this agent answers its protocol.
DoDrop(f, type, local, respond, tcpRespond) ==
    /\ f.need
    /\ ~f.deliver
    /\ f.dst \in local
    /\ type # "VXLAN"
    /\ respond
    /\ f.proto # "tcp" \/ tcpRespond

ObsAction(drop) == IF drop THEN "INTERCEPTED" ELSE "FORWARDED"

-----------------------------------------------------------------------------
(* The responder.  r is [ips, mode, tcpRespond, hmac]: the addresses it     *)
(* answers for, the interface type, and whether TCP and HMAC are on.        *)

Responder == [ips: SUBSET Ip, mode: Mode, tcpRespond: BOOLEAN, hmac: BOOLEAN]

AuthOK(f, r) == r.hmac => f.signed

\* The gate in front of every reply: a meta that asks for a response, not for
\* delivery, and authenticates.
Gate(f, r) == f.magic /\ f.need /\ ~f.deliver /\ AuthOK(f, r)

\* buildTCPReply: RST replies nothing, and of the gated segments SYN, FIN and
\* PSH are answered; a bare ACK only completes the handshake.
BuildTCPReply(f, r) ==
    /\ r.tcpRespond
    /\ Gate(f, r)
    /\ f.seg \in {"syn", "fin", "psh"}

\* Fault: the UDP case is missing.
BuildReplyL4_NoUdp(f, r) ==
    IF f.proto = "tcp" THEN BuildTCPReply(f, r) ELSE f.proto = "icmp" /\ Gate(f, r)

BuildReplyL4(f, r) ==
    IF f.proto = "tcp" THEN BuildTCPReply(f, r) ELSE Gate(f, r)

\* buildReply: the DSCP filter and "is the destination one of mine".
BuildReply(f, r) == f.marked /\ f.dst \in r.ips /\ BuildReplyL4(f, r)

\* isVXLANFrame: UDP to 4789, whatever follows.
IsVXLANFrame(f, w) == w.encap \/ (f.proto = "udp" /\ f.vxport)

\* handleVXLAN: needs the I flag, which a plain UDP/4789 probe does not have.
HandleVXLAN(f, w, r) == w.encap /\ BuildReply(f, r)

\* handleRegular: an encapsulated frame shows its underlay address, never a VM's.
HandleRegular(f, w, r) == ~w.encap /\ BuildReply(f, r)

\* handle: does the responder send a reply to this frame?
Replies(f, w, r) ==
    CASE r.mode = "vxlan"   -> HandleVXLAN(f, w, r)
      [] r.mode = "regular" -> HandleRegular(f, w, r)
      [] OTHER -> IF IsVXLANFrame(f, w) THEN HandleVXLAN(f, w, r)
                                        ELSE HandleRegular(f, w, r)

\* Fault: the reply keeps the flag bytes of the probe.
ReplyFrame_KeepFlags(f, r) == [f EXCEPT !.src = f.dst, !.dst = f.src]

\* sanitize and the address swap: the reply is marked like the probe, with both
\* flag bytes cleared, and signed again when the agent has a key (without one,
\* clearing the flags breaks whatever signature the probe carried).  It goes to
\* the sender's port, which is not 4789.
ReplyFrame(f, r) ==
    [f EXCEPT !.src = f.dst, !.dst = f.src,
              !.seg = IF f.seg = "syn" THEN "synack" ELSE f.seg,
              !.vxport = FALSE,
              !.need = FALSE, !.deliver = FALSE,
              !.signed = r.hmac]
=============================================================================
