----------------------------- MODULE Intercept ------------------------------
(***************************************************************************)
(* One probe and the replies to it, travelling through the interfaces of a *)
(* network in which every node runs an agent.  At each interface a packet  *)
(* passes the hooks in the order the kernel runs them:                     *)
(*     arriving:  XDP program, packet sockets, TC ingress program          *)
(*     leaving:   TC egress program, packet sockets                        *)
(* The programs observe and may drop (bpf/traceflow.c handle and           *)
(* traceflow_xdp); a packet socket with a responder takes a copy, which    *)
(* the responder's own goroutine handles later (agent/responder.go).       *)
(* How main, run, attachStatic and the tap watcher's attachLocked turn the *)
(* command line into programs, responders and local_ips is in the          *)
(* operators Attached, ResponderOf and LocalIps.                           *)
(***************************************************************************)
EXTENDS Frames, Sequences

CONSTANTS
    Node,           \* the hosts (network namespaces) running an agent
    Iface,          \* all their interfaces
    NodeOf,         \* the node of each interface
    Tap,            \* the interfaces OVS lists as VM taps
    VxlanDev,       \* the interfaces that are per-tenant VXLAN netdevs
    DevVni,         \* the fixed VNI of each of those (0: collect_metadata)
    Deployments,    \* the agent command lines and OVN databases to consider
    Journeys,       \* the routes a probe may take
    Home,           \* the node each address lives on, if it is one of ours
    Probes          \* the frames a client may send

Dir == {"in", "out"}
Hop == [iface: Iface, dir: Dir, encap: BOOLEAN, wire: Vni, tunnel: Vni]

\* The agent's flags, and the addresses the watcher resolved for each tap.
Opts == [iface: SUBSET Iface, mode: Mode, respond: BOOLEAN, tcpRespond: BOOLEAN,
         localIPs: SUBSET Ip, watch: BOOLEAN, watchVXLAN: BOOLEAN, hmac: BOOLEAN,
         xdp: BOOLEAN, xdpTCEgress: BOOLEAN]
Deployment == [opts: [Node -> Opts], tapIPs: [Tap -> SUBSET Ip]]

\* A journey ends at the destination VM's own stack or leaves the network.
Journey == [hops: Seq(Hop), dst: Ip, end: {"vm", "away"}]

ASSUME InterceptAssumption ==
    /\ NodeOf \in [Iface -> Node]
    /\ Tap \subseteq Iface
    /\ VxlanDev \subseteq Iface
    /\ DevVni \in [VxlanDev -> Vni]
    /\ Deployments \subseteq Deployment
    /\ Journeys \subseteq Journey
    /\ \A j \in Journeys : j.hops # <<>>
    /\ DOMAIN Home \subseteq Ip
    /\ Probes \subseteq Frame

VARIABLES
    dep,        \* the deployment, fixed at start-up
    pkts,       \* the packets sent so far: the probe, then the replies
    sock,       \* copies waiting in packet sockets: <<packet, hop>> indices
    answered,   \* the copies a responder has replied to
    obs         \* one record per hook that matched a packet

vars == <<dep, pkts, sock, answered, obs>>

Stage == {"xdp", "sock", "tc", "dropped", "done"}
End == {"vm", "away", "sender"}
Packet == [frame: Frame, hops: Seq(Hop), end: End, at: Nat, stage: Stage]
Observation == [pkt: Nat, hop: Nat, hook: {"xdp", "tc"}, vni: Vni,
                type: {"VXLAN", "REGULAR"}, action: {"FORWARDED", "INTERCEPTED"},
                lost: BOOLEAN]

-----------------------------------------------------------------------------
(* Start-up: from flags to programs, responders and map contents.          *)

OptsOf(i) == dep.opts[NodeOf[i]]

\* main: a watch mode overrides --iface-type=vxlan.
IfType(o) ==
    IF (o.watch \/ o.watchVXLAN) /\ o.mode = "vxlan" THEN "auto" ELSE o.mode

\* The programs are attached to --iface, to the taps and to the VXLAN netdevs.
Attached(i) ==
    LET o == OptsOf(i)
    IN  \/ i \in o.iface
        \/ o.watch /\ i \in Tap
        \/ o.watchVXLAN /\ i \in VxlanDev

\* Fault: TC ingress stays attached beside XDP.
HasTC_Both(i, dir) == OptsOf(i).xdp => OptsOf(i).xdpTCEgress

\* attachIface: TC in both directions, or XDP, with TC egress on request.
HasTC(i, dir) ==
    LET o == OptsOf(i) IN o.xdp => (dir = "out" /\ o.xdpTCEgress)
HasXDP(i) == OptsOf(i).xdp

\* attachStatic answers for --local-ip on --iface; attachLocked answers on each
\* tap for the addresses resolved for it.  No addresses means no responder.
AnswersFor(i) ==
    LET o == OptsOf(i)
    IN  IF ~o.respond THEN {}
        ELSE IF i \in o.iface THEN o.localIPs
        ELSE IF o.watch /\ i \in Tap THEN dep.tapIPs[i]
        ELSE {}

ResponderOf(i) ==
    LET o == OptsOf(i)
    IN  [ips |-> AnswersFor(i), mode |-> IfType(o),
         tcpRespond |-> o.tcpRespond, hmac |-> o.hmac]

\* addLocalIPs: run registers --local-ip, attachLocked what each tap answers for.
\* The map belongs to the node: every program on the node consults all of it.
LocalIps(n) ==
    dep.opts[n].localIPs
        \cup UNION {AnswersFor(i) : i \in {t \in Tap : NodeOf[t] = n}}

\* The interface's iface_vni entry, put there by the VXLAN watcher.
DevEntry(i) ==
    IF OptsOf(i).watchVXLAN /\ i \in VxlanDev THEN {DevVni[i]} ELSE {}

-----------------------------------------------------------------------------
(* Packets.                                                                *)

FirstStage(h) == IF h.dir = "in" THEN "xdp" ELSE "tc"

NewPacket(f, hops, end) ==
    [frame |-> f, hops |-> hops, end |-> end, at |-> 1, stage |-> FirstStage(hops[1])]

HopOf(p) == p.hops[p.at]

\* The packet after its last hook of the current hop.
Advance(p) ==
    IF p.at = Len(p.hops)
    THEN [p EXCEPT !.stage = "done"]
    ELSE [p EXCEPT !.at = p.at + 1, !.stage = FirstStage(p.hops[p.at + 1])]

\* A client sends a probe into the network.
Send(f, j) ==
    /\ pkts = <<>>
    /\ f.dst = j.dst
    /\ pkts' = <<NewPacket(f, j.hops, j.end)>>
    /\ UNCHANGED <<dep, sock, answered, obs>>

\* The body handle and traceflow_xdp share: match, tag, decide, record in the
\* ring buffer (or count it lost when the ring is full), return the verdict.
Handle(k, hook, key, next) ==
    LET p == pkts[k]
        h == HopOf(p)
        o == OptsOf(h.iface)
        type == ObsType(h, DevEntry(h.iface), key)
        drop == DoDrop(p.frame, type, LocalIps(NodeOf[h.iface]), o.respond, o.tcpRespond)
    IN  IF Matched(p.frame, h, IfType(o))
        THEN /\ \E full \in BOOLEAN :
                   obs' = Append(obs,
                       [pkt |-> k, hop |-> p.at, hook |-> hook,
                        vni |-> ObsVni(h, DevEntry(h.iface), key), type |-> type,
                        action |-> ObsAction(drop),
                        lost |-> full])
             /\ pkts' = [pkts EXCEPT ![k] = IF drop THEN [p EXCEPT !.stage = "dropped"]
                                                    ELSE next]
        ELSE pkts' = [pkts EXCEPT ![k] = next] /\ UNCHANGED obs

Skip(k, next) == pkts' = [pkts EXCEPT ![k] = next] /\ UNCHANGED obs

\* traceflow_xdp: the tunnel key is out of its reach.
XdpHook(k) ==
    LET p == pkts[k]
        i == HopOf(p).iface
        next == [p EXCEPT !.stage = "sock"]
    IN  /\ p.stage = "xdp"
        /\ IF Attached(i) /\ HasXDP(i)
           THEN Handle(k, "xdp", 0, next)
           ELSE Skip(k, next)
        /\ UNCHANGED <<dep, sock, answered>>

\* traceflow_ingress and traceflow_egress.
TcHook(k) ==
    LET p == pkts[k]
        h == HopOf(p)
        next == IF h.dir = "in" THEN Advance(p) ELSE [p EXCEPT !.stage = "sock"]
    IN  /\ p.stage = "tc"
        /\ IF Attached(h.iface) /\ HasTC(h.iface, h.dir)
           THEN Handle(k, "tc", h.tunnel, next)
           ELSE Skip(k, next)
        /\ UNCHANGED <<dep, sock, answered>>

\* The packet sockets bound to the interface each get a copy; the socket a reply
\* was sent through does not hear it.
SockTap(k) ==
    LET p == pkts[k]
        h == HopOf(p)
        own == k > 1 /\ p.at = 1
    IN  /\ p.stage = "sock"
        /\ sock' = IF AnswersFor(h.iface) # {} /\ ~own
                   THEN sock \cup {<<k, p.at>>} ELSE sock
        /\ pkts' = [pkts EXCEPT ![k] = IF h.dir = "in" THEN [p EXCEPT !.stage = "tc"]
                                                       ELSE Advance(p)]
        /\ UNCHANGED <<dep, answered, obs>>

Flip(h) == [h EXCEPT !.dir = IF h.dir = "in" THEN "out" ELSE "in"]

\* Where a reply to packet p sent from its hop n goes.  It leaves by the interface
\* the responder is bound to: back the way p came if p was arriving there, and
\* after p, towards p's own destination, if p was leaving.
ReplyHops(p, n) ==
    IF p.hops[n].dir = "in"
    THEN [m \in 1..n |-> Flip(p.hops[n + 1 - m])]
    ELSE SubSeq(p.hops, n, Len(p.hops))

ReplyEnd(p, n) == IF p.hops[n].dir = "in" THEN "sender" ELSE p.end

\* Loop: the responder takes one copy and handles it.
Respond(c) ==
    LET p == pkts[c[1]]
        h == p.hops[c[2]]
        r == ResponderOf(h.iface)
    IN  /\ c \in sock
        /\ sock' = sock \ {c}
        /\ IF Replies(p.frame, h, r)
           THEN /\ pkts' = Append(pkts, NewPacket(ReplyFrame(p.frame, r),
                                                  ReplyHops(p, c[2]), ReplyEnd(p, c[2])))
                /\ answered' = answered \cup {c}
           ELSE UNCHANGED <<pkts, answered>>
        /\ UNCHANGED <<dep, obs>>

-----------------------------------------------------------------------------

Init ==
    /\ dep \in Deployments
    /\ pkts = <<>>
    /\ sock = {}
    /\ answered = {}
    /\ obs = <<>>

Step(k) == XdpHook(k) \/ SockTap(k) \/ TcHook(k)

Next ==
    \/ \E f \in Probes, j \in Journeys : Send(f, j)
    \/ \E k \in DOMAIN pkts : Step(k)
    \/ \E c \in sock : Respond(c)

Spec == Init /\ [][Next]_vars

\* Packets keep moving and the responder's goroutine keeps running.
Fairness ==
    /\ WF_vars(\E k \in DOMAIN pkts : Step(k))
    /\ WF_vars(\E c \in sock : Respond(c))

FairSpec == Spec /\ Fairness

-----------------------------------------------------------------------------
(* Conditions on the deployment and on the probe's journey, under which     *)
(* properties hold that not every run has.                                 *)

\* Agents with --iface and --local-ip and TC programs: neither watcher, no XDP.
StaticAgents ==
    \A n \in Node : LET o == dep.opts[n] IN ~o.watch /\ ~o.watchVXLAN /\ ~o.xdp

\* No overlay, and the probe leaves no node whose agent answers for its destination.
PlainJourney ==
    /\ 1 \in DOMAIN pkts
    /\ \A n \in DOMAIN pkts[1].hops :
           LET h == pkts[1].hops[n] IN
           /\ ~h.encap /\ h.tunnel = 0
           /\ h.dir = "out" => pkts[1].frame.dst \notin OptsOf(h.iface).localIPs

\* The client has the agents' key and does not send to UDP port 4789.
AcceptedProbe ==
    LET f == pkts[1].frame IN
    /\ \A n \in Node : dep.opts[n].hmac => f.signed
    /\ ~(f.proto = "udp" /\ f.vxport)

\* An agent is given only addresses of its own node, by flag or by the OVN database.
AddressesAtHome ==
    \A n \in Node :
        \A a \in dep.opts[n].localIPs \cup UNION {dep.tapIPs[t] : t \in {t \in Tap : NodeOf[t] = n}} :
            a \in DOMAIN Home /\ Home[a] = n

\* All that hop h tells is tenant v: on the wire, in the tunnel key and on the netdev.
\* On a collect_metadata netdev only the key tells, and XDP cannot read it.
TenantHop(v, h) ==
    /\ h.encap => h.wire = v
    /\ h.tunnel \in {0, v}
    /\ ~h.encap /\ h.iface \in VxlanDev =>
           LET o == OptsOf(h.iface) IN
           o.watchVXLAN => \/ DevVni[h.iface] = v
                           \/ DevVni[h.iface] = 0 /\ h.tunnel = v /\ ~o.xdp
TenantJourney(v) ==
    1 \in DOMAIN pkts /\ \A n \in DOMAIN pkts[1].hops : TenantHop(v, pkts[1].hops[n])

-----------------------------------------------------------------------------
(* Properties.                                                             *)

TypeOK ==
    /\ dep \in Deployments
    /\ pkts \in Seq(Packet)
    /\ \A k \in DOMAIN pkts : pkts[k].at \in DOMAIN pkts[k].hops
    /\ obs \in Seq(Observation)
    /\ sock \subseteq Nat \X Nat
    /\ answered \subseteq Nat \X Nat
    /\ \A c \in sock \cup answered :
           c[1] \in DOMAIN pkts /\ c[2] \in 1..pkts[c[1]].at

Dropped(k) == pkts[k].stage = "dropped"
WillReply(c) ==
    LET p == pkts[c[1]]
        h == p.hops[c[2]]
    IN  Replies(p.frame, h, ResponderOf(h.iface))

\* A bare ACK has no reply of its own.
ExpectsReply(f) == f.proto = "tcp" => f.seg \in {"syn", "psh", "fin"}

\* Packet k was, or is about to be, answered from its hop n.
TakenCare(k, n) ==
    \/ <<k, n>> \in answered
    \/ <<k, n>> \in sock /\ WillReply(<<k, n>>)

\* The hop at which packet p is dropped is an ingress hook behind the packet
\* socket, the responder there answers for the destination and accepts the key,
\* and the two parsers read the frame the same way.
Covered(p) ==
    LET h == HopOf(p)
        r == ResponderOf(h.iface)
    IN  /\ h.dir = "in"
        /\ ~OptsOf(h.iface).xdp
        /\ p.frame.dst \in r.ips
        /\ AuthOK(p.frame, r)
        /\ ~(r.mode # "regular" /\ p.frame.proto = "udp" /\ p.frame.vxport)

\* "The kernel drops it only when it will answer" (README.en.md): when handle or
\* traceflow_xdp has dropped a packet, a responder has replied to it or holds a
\* copy that it is going to reply to.
DroppedIsAnswered ==
    \A k \in DOMAIN pkts :
        Dropped(k) /\ ExpectsReply(pkts[k].frame) => \E n \in 1..pkts[k].at : TakenCare(k, n)

\* It holds of static agents that share the client's key, for a probe that meets no
\* overlay, whatever the flags, protocol and interleaving (handle, responder.handle).
StaticDropIsAnswered ==
    StaticAgents /\ PlainJourney /\ AcceptedProbe => DroppedIsAnswered

\* What remains of it without a condition on the deployment: a packet dropped at an interface
\* whose own responder covers it is answered there.  What the violations of
\* DroppedIsAnswered have in common is a drop at an interface that does not.
CoveredDropIsAnswered ==
    \A k \in DOMAIN pkts :
        Dropped(k) /\ ExpectsReply(pkts[k].frame) /\ Covered(pkts[k]) => TakenCare(k, pkts[k].at)

\* "so the VM's own stack does not reply too (no double reply)" (traceflow.c):
\* of static agents, and for a probe that meets no overlay, no packet is answered
\* twice, and none that an agent answered also reaches the destination's own stack.
NoDoubleReply ==
    StaticAgents /\ PlainJourney => \A c \in answered :
        /\ \A d \in answered : d[1] = c[1] => d = c
        /\ ~(pkts[c[1]].stage = "done" /\ pkts[c[1]].end = "vm")

\* "never on a transit or source hop" (traceflow.c, local_ips): a packet is only
\* dropped on the node of its destination, and not where its sender lives.
TransitNeverDrops ==
    \A k \in DOMAIN pkts :
        LET n == NodeOf[HopOf(pkts[k]).iface]
            f == pkts[k].frame
        IN  Dropped(k) =>
                /\ f.dst \in DOMAIN Home /\ Home[f.dst] = n
                /\ f.src \in DOMAIN Home => Home[f.src] # n

\* What holds of it: agents with addresses of their own node drop a packet only on
\* the node of its destination, be that also the node of its sender.
DropsAtHome ==
    AddressesAtHome => \A k \in DOMAIN pkts :
        LET dst == pkts[k].frame.dst IN
        Dropped(k) => dst \in DOMAIN Home /\ Home[dst] = NodeOf[HopOf(pkts[k]).iface]

\* --deliver (client flag): a probe that asks for delivery is neither dropped by
\* any program nor answered by any responder, on whatever node.
DeliverHonoured ==
    \A k \in DOMAIN pkts :
        pkts[k].frame.deliver => ~Dropped(k) /\ \A c \in answered : c[1] # k

\* sanitize: "triggers no second response and is never intercepted".  Whatever
\* agents a reply meets, none drops it or answers it, so replies do not echo.
RepliesAreQuiet ==
    /\ \A k \in DOMAIN pkts : k > 1 => ~Dropped(k)
    /\ \A c \in answered : c[1] = 1

\* What an observation says is what happened: it reads INTERCEPTED exactly when
\* the packet ended there, and no hop of a packet is recorded twice, even where
\* an XDP and a TC program share the interface.
ObservationsMatchFate ==
    \A n \in DOMAIN obs :
        LET o == obs[n] IN
        /\ o.action = "INTERCEPTED" <=> (Dropped(o.pkt) /\ pkts[o.pkt].at = o.hop)
        /\ \A m \in DOMAIN obs :
              (obs[m].pkt = o.pkt /\ obs[m].hop = o.hop) => m = n

\* The VNI of a run: on a journey of tenant v every record that is typed VXLAN
\* carries v, whether handle read it off the wire, from the device's iface_vni entry
\* or from the tunnel key, and for the replies as for the probe.
VniConsistent ==
    \A v \in Vni \ {0} :
        TenantJourney(v) => \A m \in DOMAIN obs : obs[m].type = "VXLAN" => obs[m].vni = v

Answerable(p) ==
    \E n \in DOMAIN p.hops :
        Replies(p.frame, p.hops[n], ResponderOf(p.hops[n].iface))

\* A probe that a static responder on its way, without an overlay, would answer
\* (Loop, handle) is answered, and the answer reaches the sender.
AnswerReachesSender ==
    (StaticAgents /\ PlainJourney /\ Answerable(pkts[1])) ~>
        \E k \in DOMAIN pkts : pkts[k].stage = "done" /\ pkts[k].end = "sender"

\* A probe sent with --deliver comes out at the end of its journey.
DeliverReachesEnd ==
    (pkts # <<>> /\ pkts[1].frame.deliver) ~> (pkts # <<>> /\ pkts[1].stage = "done")

=============================================================================
