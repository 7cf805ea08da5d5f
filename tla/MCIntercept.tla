---------------------------- MODULE MCIntercept -----------------------------
(***************************************************************************)
(* Two networks.  The routed one of tests/test_veth_multinetns.sh: host S  *)
(* on node a, a router r, host D on node b, each node with a statically    *)
(* attached agent.  And a hypervisor h with an uplink eth0, the taps ta    *)
(* and tb of its VMs A and B, VXLAN netdevs vx and vy with a fixed VNI     *)
(* each and a collect_metadata VXLAN netdev md.  C is a remote host.       *)
(***************************************************************************)
EXTENDS Intercept

MCNodeOf == [i \in Iface |-> CASE i = "a1" -> "a" [] i \in {"r1", "r2"} -> "r"
                               [] i = "b1" -> "b" [] OTHER -> "h"]
MCDevVni == [vx |-> 100, vy |-> 200, md |-> 0]
MCHome == [S |-> "a", D |-> "b", A |-> "h", B |-> "h"]

Plain(i, d) == [iface |-> i, dir |-> d, encap |-> FALSE, wire |-> 0, tunnel |-> 0]
Encap(v, i, d) == [Plain(i, d) EXCEPT !.encap = TRUE, !.wire = v]
Keyed(v, i, d) == [Plain(i, d) EXCEPT !.tunnel = v]
Route(hops, ip, e) == [hops |-> hops, dst |-> ip, end |-> e]

\* Over the router, ...
ToD == Route(<<Plain("a1", "out"), Plain("r1", "in"), Plain("r2", "out"), Plain("b1", "in")>>,
             "D", "vm")
\* ... within the hypervisor, to and from it without an overlay, ...
Local == Route(<<Plain("ta", "in"), Plain("tb", "out")>>, "B", "vm")
Inbound == Route(<<Plain("eth0", "in"), Plain("ta", "out")>>, "A", "vm")
Outbound == Route(<<Plain("ta", "in"), Plain("eth0", "out")>>, "C", "away")
\* ... and over the VXLAN netdevs, for the tenants 100 and 200.
OverVx(v, dev) == Route(<<Encap(v, "eth0", "in"), Plain(dev, "in"), Plain("ta", "out")>>, "A", "vm")
OverMd(v) == Route(<<Encap(v, "eth0", "in"), Keyed(v, "md", "in"), Plain("ta", "out")>>, "A", "vm")
OutVx == Route(<<Plain("ta", "in"), Plain("vx", "out"), Encap(100, "eth0", "out")>>, "C", "away")

AllJourneys ==
    {ToD, Local, Inbound, Outbound, OverVx(100, "vx"), OverVx(200, "vy"), OverMd(100),
     OverMd(200), OutVx}
InboundJourney == {Inbound}
LocalJourney == {Local}

\* No interface, no responder: a node without an agent.
Idle == [iface |-> {}, mode |-> "auto", respond |-> FALSE, tcpRespond |-> FALSE, localIPs |-> {},
         watch |-> FALSE, watchVXLAN |-> FALSE, hmac |-> FALSE, xdp |-> FALSE,
         xdpTCEgress |-> FALSE]
NoTapIPs == [ta |-> {}, tb |-> {}]

Static(i, ips, m, resp, tcp, key) ==
    [Idle EXCEPT !.iface = {i}, !.mode = m, !.respond = resp, !.tcpRespond = tcp,
                 !.localIPs = ips, !.hmac = key]

\* The sender's own agent answers for the sender; the router's is observe-only.
Routed(m, respS, respD, tcp, key) ==
    [opts |-> [n \in Node |->
        CASE n = "a" -> Static("a1", {"S"}, m, respS, tcp, key)
          [] n = "r" -> Static("r1", {}, m, TRUE, tcp, key)
          [] n = "b" -> Static("b1", {"D"}, m, respD, tcp, key)
          [] OTHER -> Idle],
     tapIPs |-> NoTapIPs]

\* Every combination of the flags, all agents sharing the key and the mode.
RoutedDeployments ==
    {Routed(m, rs, rd, tcp, key) :
        m \in {"auto", "regular"}, rs \in BOOLEAN, rd \in BOOLEAN,
        tcp \in BOOLEAN, key \in BOOLEAN}

Flags(ifs, ips, w, wv, resp) ==
    [Idle EXCEPT !.iface = ifs, !.respond = resp, !.tcpRespond = TRUE, !.localIPs = ips,
                 !.watch = w, !.watchVXLAN = wv]
Deploy(o, a, b) ==
    [opts |-> [n \in Node |-> IF n = "h" THEN o ELSE Idle], tapIPs |-> [ta |-> a, tb |-> b]]

\* Pinned to the uplink and answering for both VMs; observing every tap.
Pinned == Flags({"eth0"}, {"A", "B"}, FALSE, FALSE, TRUE)
Observing == Flags({"eth0"}, {}, TRUE, TRUE, FALSE)
\* --watch as documented: a responder on each tap.
Watch == Deploy(Flags({}, {}, TRUE, FALSE, TRUE), {"A"}, {"B"})

\* Those three, the overlay, a mixture, an authenticating and two XDP deployments.
HypervisorDeployments ==
    {Watch, Deploy(Pinned, {}, {}), Deploy(Observing, {"A"}, {"B"}),
     Deploy([Pinned EXCEPT !.watchVXLAN = TRUE], {}, {}),
     Deploy(Flags({"eth0"}, {"A"}, TRUE, TRUE, TRUE), {}, {"B"}),
     Deploy([Pinned EXCEPT !.hmac = TRUE], {}, {}),
     Deploy([Pinned EXCEPT !.xdp = TRUE], {}, {}),
     Deploy([Observing EXCEPT !.xdp = TRUE, !.xdpTCEgress = TRUE], {"A"}, {"B"})}

AllDeployments == RoutedDeployments \cup HypervisorDeployments
WatchDeployment == {Watch}

Probe(s, d, pr, sg, n, dl, key) ==
    [src |-> s, dst |-> d, marked |-> TRUE, magic |-> TRUE, proto |-> pr, seg |-> sg,
     vxport |-> FALSE, need |-> n, deliver |-> dl, signed |-> key]

ProtoSeg == {<<"icmp", "none">>, <<"udp", "none">>} \cup
            {<<"tcp", s>> : s \in {"syn", "ack", "psh", "fin"}}

\* To D the client has the agents' key; some traffic merely shares the DSCP, and
\* some UDP goes to the VXLAN port.  On the hypervisor it has no key.
ToDProbes ==
    {Probe("S", "D", x[1], x[2], n, d, TRUE) : x \in ProtoSeg, n \in BOOLEAN, d \in BOOLEAN}
Lookalike ==
    {[Probe("S", "D", x[1], x[2], TRUE, FALSE, FALSE) EXCEPT !.magic = FALSE] : x \in ProtoSeg}
ToVxlanPort == {[Probe("S", "D", "udp", "none", TRUE, FALSE, TRUE) EXCEPT !.vxport = TRUE]}
VmProbes ==
    {Probe(p[1], p[2], x[1], x[2], n, d, FALSE) :
        p \in {<<"A", "B">>, <<"C", "A">>, <<"A", "C">>},
        x \in {<<"icmp", "none">>, <<"udp", "none">>, <<"tcp", "syn">>},
        n \in BOOLEAN, d \in BOOLEAN}
MCProbes == ToDProbes \cup Lookalike \cup ToVxlanPort \cup VmProbes
=============================================================================
