------------------------------- MODULE MCWire -------------------------------
(* Command lines of every kind, each with the options that can change what *)
(* it puts on the wire, against agents of every mode and key.              *)
EXTENDS Wire

Ips(host) == {<<fam, host>> : fam \in {"v4", "v6"}}

\* The tap has an IPv6 address only, so --as-vm resolves half of the probes.
Tap == [mac |-> "vmmac", ips |-> << <<"v6", "tapvm">> >>]

Blank ==
    [cmd |-> "icmp", seg |-> "syn", src |-> NoIp, dst |-> <<"v4", "vm">>, innerSrc |-> NoIp,
     innerDst |-> NoIp, sport |-> 40000, dport |-> 0, vni |-> 0, vlan |-> 0, iface |-> TRUE,
     dstMAC |-> "gw", srcMAC |-> NoMac, asVM |-> FALSE, key |-> NoKey,
     response |-> TRUE, deliver |-> FALSE]

\* The ways to send: the address family, the tag (4096 is a tag of id 0), the link.
Ways(b) ==
    {[b EXCEPT !.dst = d, !.vlan = v, !.iface = i, !.dstMAC = m] :
        d \in Ips("vm"), v \in {0, 5, VidMod}, i \in BOOLEAN, m \in {"gw", NoMac}}

Pings == Ways(Blank) \cup
    {[Blank EXCEPT !.asVM = TRUE, !.dst = d, !.iface = i] : d \in Ips("vm"), i \in BOOLEAN}

Datagrams ==
    UNION {Ways([Blank EXCEPT !.cmd = "udp", !.sport = p[1], !.dport = p[2]]) :
              p \in {<<40000, 0>>, <<40000, VxlanPort>>, <<VxlanPort, 7>>, <<7, 7>>}}

Segments ==
    UNION {Ways([Blank EXCEPT !.cmd = "tcp", !.seg = s]) : s \in {"syn", "psh", "fin"}}

Tunnels ==
    UNION {Ways([Blank EXCEPT !.cmd = "vxlan", !.vni = n, !.innerSrc = <<fam, "host">>,
                              !.innerDst = <<fam, "vm">>]) :
              n \in {0, 7, VniMod + 7}, fam \in {"v4", "v6"}}

\* Keys and flag bytes, on a probe of each command.
Metas ==
    {[b EXCEPT !.key = k, !.response = n, !.deliver = d] :
        k \in {NoKey, "k1", "k2"}, n, d \in BOOLEAN,
        b \in {Blank, [Blank EXCEPT !.cmd = "udp"], [Blank EXCEPT !.cmd = "tcp"],
               [Blank EXCEPT !.cmd = "vxlan", !.vni = 7, !.innerSrc = <<"v4", "host">>,
                             !.innerDst = <<"v4", "vm">>]}}

CommandLines == Pings \cup Datagrams \cup Segments \cup Tunnels \cup Metas

Responders ==
    {[ips |-> Ips("vm"), mode |-> m, key |-> k, tcpRespond |-> TRUE] :
        m \in {"auto", "regular", "vxlan"}, k \in {NoKey, "k1"}}
    \cup {[ips |-> {}, mode |-> "auto", key |-> NoKey, tcpRespond |-> TRUE],
          [ips |-> Ips("vm"), mode |-> "auto", key |-> NoKey, tcpRespond |-> FALSE]}
=============================================================================
