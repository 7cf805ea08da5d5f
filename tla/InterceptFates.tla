--------------------------- MODULE InterceptFates ---------------------------
(***************************************************************************)
(* What becomes of a packet at each hook of Intercept and what the records *)
(* say of it, for every topology, deployment and probe; and what follows   *)
(* for the deployments the named conditions of Intercept describe.         *)
(***************************************************************************)
EXTENDS InterceptProofs

\* handle's match and do_drop for packet p at its hop n, tunnel key `key`.
MatchAt(p, n) == Matched(p.frame, p.hops[n], IfType(OptsOf(p.hops[n].iface)))
DropAt(p, n, key) ==
    LET h == p.hops[n]
        o == OptsOf(h.iface)
    IN  DoDrop(p.frame, ObsType(h, DevEntry(h.iface), key), LocalIps(NodeOf[h.iface]),
               o.respond, o.tcpRespond)

\* The tunnel key the program at p's stage reads.
KeyAt(p) == IF p.stage = "xdp" THEN 0 ELSE HopOf(p).tunnel

\* A TC program sees packets of hop h.
TcAt(h) == Attached(h.iface) /\ HasTC(h.iface, h.dir)

\* Where a packet goes that is not dropped at its stage.
Onto(p, q) ==
    \/ q.at = p.at /\ q.stage = "done"
    \/ q.at = p.at + 1 /\ q.stage = FirstStage(HopOf(q))
Progress(p, q) ==
    LET inward == HopOf(p).dir = "in" IN
    \/ p.stage = "xdp" /\ q.at = p.at /\ q.stage = "sock"
    \/ p.stage = "sock" /\ inward /\ q.at = p.at /\ q.stage = "tc"
    \/ p.stage = "tc" /\ ~inward /\ q.at = p.at /\ q.stage = "sock"
    \/ p.stage = "sock" /\ ~inward /\ Onto(p, q)
    \/ p.stage = "tc" /\ inward /\ Onto(p, q)

\* A step that records nothing, and one that records r.
Silent(p, q) ==
    /\ Progress(p, q)
    /\ p.stage = "tc" /\ TcAt(HopOf(p)) => ~MatchAt(p, p.at)
Recorded(k, q, r) ==
    LET p == pkts[k]
        h == HopOf(p)
        drop == DropAt(p, p.at, KeyAt(p))
    IN  /\ r.pkt = k /\ r.hop = p.at
        /\ r.vni = ObsVni(h, DevEntry(h.iface), KeyAt(p))
        /\ r.type = ObsType(h, DevEntry(h.iface), KeyAt(p))
        /\ r.action = ObsAction(drop)
        /\ Attached(h.iface) /\ MatchAt(p, p.at)
        /\ (p.stage = "xdp" /\ HasXDP(h.iface)) \/ (p.stage = "tc" /\ HasTC(h.iface, h.dir))
        /\ IF drop THEN q.at = p.at /\ q.stage = "dropped" ELSE Progress(p, q)

\* A hook takes packet k to q.
Fate(k, q) ==
    /\ q \in Placed /\ pkts' = [pkts EXCEPT ![k] = q]
    /\ q.frame = pkts[k].frame /\ q.hops = pkts[k].hops /\ q.end = pkts[k].end
    /\ dep' = dep /\ answered' = answered
    /\ \/ Silent(pkts[k], q) /\ obs' = obs
       \/ \E r \in Observation : Recorded(k, q, r) /\ obs' = Append(obs, r)

-----------------------------------------------------------------------------
(* Every hook decides a fate.                                              *)

\* The next hop, or the end of the journey (Advance).
LEMMA AdvanceOnto ==
    ASSUME NEW p \in Placed
    PROVE  /\ Advance(p) \in Placed /\ Onto(p, Advance(p))
           /\ Advance(p).frame = p.frame /\ Advance(p).hops = p.hops /\ Advance(p).end = p.end
<1>1. Advance(p) \in Placed /\ Moved(p, Advance(p))
  BY Zenon, AdvanceType
<1>2. p \in [frame: Frame, hops: Seq(Hop), end: End, at: Nat, stage: Stage]
  BY Zenon DEF Placed, Packet
<1>3. CASE p.at = Len(p.hops)
  <2>1. Advance(p) = [p EXCEPT !.stage = "done"]
    BY Zenon, <1>3 DEF Advance
  <2>2. Advance(p).at = p.at /\ Advance(p).stage = "done"
    BY Zenon, <1>2, <2>1
  <2> QED
    BY Zenon, <1>1, <2>2 DEF Onto, Moved
<1>4. CASE p.at # Len(p.hops)
  <2> DEFINE st == FirstStage(p.hops[p.at + 1])
  <2>1. Advance(p) = [p EXCEPT !.at = p.at + 1, !.stage = st]
    BY Zenon, <1>4 DEF Advance
  <2>2. Advance(p).at = p.at + 1 /\ Advance(p).stage = st
    <3> HIDE DEF st
    <3> QED BY Zenon, <1>2, <2>1
  <2>3. st = FirstStage(HopOf(Advance(p)))
    BY Zenon, <1>1, <2>2 DEF HopOf, Moved
  <2> QED
    BY Zenon, <1>1, <2>2, <2>3 DEF Onto, Moved
<1> QED
  BY Zenon, <1>3, <1>4

\* The body handle and traceflow_xdp share (Handle).
LEMMA HandleFate ==
    ASSUME TypeOK, NEW k \in DOMAIN pkts, NEW hook \in {"xdp", "tc"}, NEW next \in Placed,
           Handle(k, hook, KeyAt(pkts[k]), next), pkts[k].stage = hook,
           Attached(HopOf(pkts[k]).iface), Progress(pkts[k], next),
           hook = "xdp" => HasXDP(HopOf(pkts[k]).iface),
           hook = "tc" => HasTC(HopOf(pkts[k]).iface, HopOf(pkts[k]).dir),
           next.frame = pkts[k].frame, next.hops = pkts[k].hops, next.end = pkts[k].end,
           dep' = dep, answered' = answered
    PROVE  \E q \in Placed : Fate(k, q)
<1> DEFINE p == pkts[k]
           h == HopOf(p)
           o == OptsOf(h.iface)
           key == KeyAt(p)
           type == ObsType(h, DevEntry(h.iface), key)
           drop == DropAt(p, p.at, key)
           vni == ObsVni(h, DevEntry(h.iface), key)
           gone == [p EXCEPT !.stage = "dropped"]
<1>1. p \in Placed /\ h \in Hop /\ o \in Opts
  BY Zenon, SetupType
<1>2. key \in Vni
  BY Zenon, <1>1, VniAssumption DEF KeyAt, Hop
<1>3. vni \in Vni
  BY Zenon, <1>1, <1>2, ObsVniType
<1>4. k \in Nat /\ p.at \in Nat
  BY <1>1, LenProperties DEF TypeOK, Placed, Packet
<1>5. /\ gone \in Placed /\ gone.stage = "dropped" /\ gone.at = p.at
      /\ gone.frame = p.frame /\ gone.hops = p.hops /\ gone.end = p.end
  BY Zenon, <1>1, StageType DEF Stage
<1>6. drop = DoDrop(p.frame, type, LocalIps(NodeOf[h.iface]), o.respond, o.tcpRespond)
  BY Zenon DEF DropAt, HopOf
<1>7. MatchAt(p, p.at) <=> Matched(p.frame, h, IfType(o))
  BY Zenon DEF MatchAt, HopOf
<1>8. CASE MatchAt(p, p.at)
  <2>1. PICK full \in BOOLEAN :
           obs' = Append(obs, [pkt |-> k, hop |-> p.at, hook |-> hook, vni |-> vni,
                               type |-> type, action |-> ObsAction(drop), lost |-> full])
    BY Zenon, <1>6, <1>7, <1>8 DEF Handle
  <2> DEFINE r == [pkt |-> k, hop |-> p.at, hook |-> hook, vni |-> vni,
                   type |-> type, action |-> ObsAction(drop), lost |-> full]
             q == IF drop THEN gone ELSE next
  <2>2. type \in {"VXLAN", "REGULAR"} /\ ObsAction(drop) \in {"FORWARDED", "INTERCEPTED"}
    BY Zenon DEF ObsType, ObsAction
  <2>3. r \in Observation
    <3> HIDE DEF type, drop, vni, p
    <3> QED BY <1>3, <1>4, <2>2 DEF Observation
  <2>4. pkts' = [pkts EXCEPT ![k] = q]
    BY Zenon, <1>6, <1>7, <1>8 DEF Handle
  <2>5. q \in Placed /\ q.frame = p.frame /\ q.hops = p.hops /\ q.end = p.end
    BY Zenon, <1>5
  <2>6. Recorded(k, q, r)
    <3>1. IF drop THEN q.at = p.at /\ q.stage = "dropped" ELSE Progress(p, q)
      BY Zenon, <1>5
    <3>2. (p.stage = "xdp" /\ HasXDP(h.iface)) \/ (p.stage = "tc" /\ HasTC(h.iface, h.dir))
      <4>1. hook = "xdp" \/ hook = "tc"
        OBVIOUS
      <4> QED
        BY Zenon, <4>1
    <3>3. r.pkt = k /\ r.hop = p.at /\ r.vni = vni /\ r.type = type /\ r.action = ObsAction(drop)
      BY Zenon
    <3> HIDE DEF r, q
    <3> QED
      BY Zenon, <1>8, <3>1, <3>2, <3>3 DEF Recorded
  <2>7. obs' = Append(obs, r)
    BY Zenon, <2>1
  <2> HIDE DEF r, q
  <2> QED
    BY Zenon, <2>3, <2>4, <2>5, <2>6, <2>7 DEF Fate
<1>9. CASE ~MatchAt(p, p.at)
  BY Zenon, <1>7, <1>9 DEF Handle, Fate, Silent
<1> QED
  BY Zenon, <1>8, <1>9

\* Whatever the hook, one packet meets one fate.
LEMMA StepFate ==
    ASSUME TypeOK, NEW k \in DOMAIN pkts, Step(k)
    PROVE  \E q \in Placed : Fate(k, q)
<1> DEFINE p == pkts[k]
           h == HopOf(p)
           onSock == [p EXCEPT !.stage = "sock"]
           onTc == [p EXCEPT !.stage = "tc"]
<1>1. p \in Placed
  BY Zenon, SetupType
<1>2. /\ onSock \in Placed /\ onSock.stage = "sock" /\ onSock.at = p.at
      /\ onSock.frame = p.frame /\ onSock.hops = p.hops /\ onSock.end = p.end
  BY Zenon, <1>1, StageType DEF Stage
<1>3. /\ onTc \in Placed /\ onTc.stage = "tc" /\ onTc.at = p.at
      /\ onTc.frame = p.frame /\ onTc.hops = p.hops /\ onTc.end = p.end
  BY Zenon, <1>1, StageType DEF Stage
<1>4. /\ Advance(p) \in Placed /\ Onto(p, Advance(p))
      /\ Advance(p).frame = p.frame /\ Advance(p).hops = p.hops /\ Advance(p).end = p.end
  BY Zenon, <1>1, AdvanceOnto
<1>5. CASE XdpHook(k)
  <2>1. p.stage = "xdp" /\ dep' = dep /\ answered' = answered
    BY Zenon, <1>5 DEF XdpHook
  <2>2. Progress(p, onSock)
    BY Zenon, <1>2, <2>1 DEF Progress
  <2>3. CASE Attached(h.iface) /\ HasXDP(h.iface)
    <3>1. Handle(k, "xdp", KeyAt(p), onSock)
      BY Zenon, <1>5, <2>1, <2>3 DEF XdpHook, KeyAt
    <3> HIDE DEF onSock
    <3> QED
      BY Zenon, <1>2, <2>1, <2>2, <2>3, <3>1, HandleFate
  <2>4. CASE ~(Attached(h.iface) /\ HasXDP(h.iface))
    <3>1. pkts' = [pkts EXCEPT ![k] = onSock] /\ obs' = obs
      BY Zenon, <1>5, <2>4 DEF XdpHook, Skip
    <3> HIDE DEF onSock
    <3> QED
      BY Zenon, <1>2, <2>1, <2>2, <3>1 DEF Fate, Silent
  <2> QED
    BY Zenon, <2>3, <2>4
<1>6. CASE SockTap(k)
  <2>1. /\ p.stage = "sock" /\ dep' = dep /\ answered' = answered /\ obs' = obs
        /\ pkts' = [pkts EXCEPT ![k] = IF h.dir = "in" THEN onTc ELSE Advance(p)]
    BY Zenon, <1>6 DEF SockTap
  <2>2. CASE h.dir = "in"
    <3>1. Silent(p, onTc) /\ pkts' = [pkts EXCEPT ![k] = onTc]
      BY Zenon, <1>3, <2>1, <2>2 DEF Silent, Progress
    <3> HIDE DEF onTc
    <3> QED
      BY Zenon, <1>3, <2>1, <3>1 DEF Fate
  <2>3. CASE h.dir # "in"
    <3>1. Silent(p, Advance(p)) /\ pkts' = [pkts EXCEPT ![k] = Advance(p)]
      BY Zenon, <1>4, <2>1, <2>3 DEF Silent, Progress
    <3> QED
      BY Zenon, <1>4, <2>1, <3>1 DEF Fate
  <2> QED
    BY Zenon, <2>2, <2>3
<1>7. CASE TcHook(k)
  <2> DEFINE next == IF h.dir = "in" THEN Advance(p) ELSE onSock
  <2>1. p.stage = "tc" /\ dep' = dep /\ answered' = answered
    BY Zenon, <1>7 DEF TcHook
  <2>2. /\ next \in Placed /\ Progress(p, next)
        /\ next.frame = p.frame /\ next.hops = p.hops /\ next.end = p.end
    BY Zenon, <1>2, <1>4, <2>1 DEF Progress
  <2>3. CASE TcAt(h)
    <3>1. Handle(k, "tc", KeyAt(p), next)
      BY Zenon, <1>7, <2>1, <2>3 DEF TcHook, KeyAt, TcAt
    <3> HIDE DEF next
    <3> QED
      BY Zenon, <2>1, <2>2, <2>3, <3>1, HandleFate DEF TcAt
  <2>4. CASE ~TcAt(h)
    <3>1. pkts' = [pkts EXCEPT ![k] = next] /\ obs' = obs
      BY Zenon, <1>7, <2>4 DEF TcHook, Skip, TcAt
    <3> HIDE DEF next
    <3> QED
      BY Zenon, <2>1, <2>2, <2>4, <3>1 DEF Fate, Silent
  <2> QED
    BY Zenon, <2>3, <2>4
<1> QED
  BY Zenon, <1>5, <1>6, <1>7 DEF Step
-----------------------------------------------------------------------------
(* The invariant of the records.  A packet that still has a program of its *)
(* hop before it has no record there, so the record that program makes is  *)
(* the hop's only one; a TC program behind the packet has left a record,   *)
(* and has dropped the packet if it was to be dropped.                     *)

EntersInward ==
    \A k \in DOMAIN pkts : pkts[k].stage = "xdp" => HopOf(pkts[k]).dir = "in"

\* A program of p's current hop may still record p.
Awaits(p) ==
    LET h == HopOf(p)
        byXdp == h.dir = "in" /\ HasXDP(h.iface)
    IN  \/ p.stage = "xdp"
        \/ p.stage = "tc" /\ ~byXdp
        \/ p.stage = "sock" /\ h.dir = "in" /\ ~byXdp

RecordsPlaced ==
    \A n \in DOMAIN obs :
        LET p == pkts[obs[n].pkt] IN
        /\ obs[n].pkt \in DOMAIN pkts
        /\ obs[n].hop \in 1..p.at
        /\ obs[n].hop = p.at => ~Awaits(p)

\* The TC program of hop n, if there is one, is behind packet p.
TcPassed(p, n) ==
    \/ n < p.at
    \/ p.stage \in {"done", "dropped"}
    \/ p.stage = "sock" /\ HopOf(p).dir # "in"

\* What a TC program has done to a packet it matched at hop n.
Judged(k, n) ==
    LET p == pkts[k] IN
    /\ \E m \in DOMAIN obs : obs[m].pkt = k /\ obs[m].hop = n
    /\ DropAt(p, n, p.hops[n].tunnel) => n = p.at /\ p.stage = "dropped"

HooksJudge ==
    \A k \in DOMAIN pkts : \A n \in 1..pkts[k].at :
        TcPassed(pkts[k], n) /\ TcAt(pkts[k].hops[n]) /\ MatchAt(pkts[k], n) => Judged(k, n)

\* A packet is dropped by a program on the interface it is at, for an address in
\* the node's local_ips.
DropsLocal ==
    \A k \in DOMAIN pkts :
        LET i == HopOf(pkts[k]).iface IN
        Dropped(k) => Attached(i) /\ pkts[k].frame.dst \in LocalIps(NodeOf[i])

FateInv ==
    /\ TypeOK /\ EntersInward /\ RecordsPlaced /\ ObservationsMatchFate
    /\ HooksJudge /\ DropsLocal

\* Nothing an agent decides changes while it runs: the deployment is fixed.
LEMMA AgentsFixed ==
    ASSUME dep' = dep
    PROVE  /\ \A i : (Attached(i)' <=> Attached(i)) /\ (HasXDP(i)' <=> HasXDP(i))
           /\ \A h : TcAt(h)' <=> TcAt(h)
           /\ \A n : LocalIps(n)' = LocalIps(n)
           /\ \A p, n : MatchAt(p, n)' <=> MatchAt(p, n)
           /\ \A p, n, key : DropAt(p, n, key)' <=> DropAt(p, n, key)
           /\ \A p : Awaits(p)' <=> Awaits(p)
<1>1. \A i : OptsOf(i)' = OptsOf(i)
  BY Zenon DEF OptsOf
<1>2. \A i : (Attached(i)' <=> Attached(i)) /\ (HasXDP(i)' <=> HasXDP(i))
  BY Zenon, <1>1 DEF Attached, HasXDP
<1>3. \A h : TcAt(h)' <=> TcAt(h)
  BY Zenon, <1>1, <1>2 DEF TcAt, HasTC
<1>4. \A i : AnswersFor(i)' = AnswersFor(i)
  BY Zenon DEF AnswersFor, OptsOf
<1>5. \A n : LocalIps(n)' = LocalIps(n)
  BY Zenon, <1>4 DEF LocalIps
<1>6. \A p, n : MatchAt(p, n)' <=> MatchAt(p, n)
  BY Zenon, <1>1 DEF MatchAt
<1>7. \A i : DevEntry(i)' = DevEntry(i)
  BY Zenon, <1>1 DEF DevEntry
<1>8. \A p, n, key : DropAt(p, n, key)' <=> DropAt(p, n, key)
  BY Zenon, <1>1, <1>5, <1>7 DEF DropAt
<1>9. \A p : Awaits(p)' <=> Awaits(p)
  BY Zenon, <1>2 DEF Awaits
<1> QED
  BY Zenon, <1>2, <1>3, <1>5, <1>6, <1>8, <1>9

\* A packet that moves stays, or goes on to the next hop.
LEMMA FateBasics ==
    ASSUME TypeOK, NEW k \in DOMAIN pkts, NEW q \in Placed, Fate(k, q)
    PROVE  /\ DOMAIN pkts' = DOMAIN pkts /\ pkts'[k] = q
           /\ \A m \in DOMAIN pkts : m # k => pkts'[m] = pkts[m]
           /\ pkts[k].at \in Nat /\ pkts[k].at >= 1 /\ q.at \in Nat
           /\ q.at = pkts[k].at \/ (q.at = pkts[k].at + 1 /\ q.stage = FirstStage(HopOf(q)))
           /\ pkts[k].stage \in {"xdp", "sock", "tc"}
           /\ q.at = pkts[k].at => HopOf(q) = HopOf(pkts[k])
           /\ \A m \in DOMAIN pkts : pkts'[m].frame = pkts[m].frame /\ pkts'[m].hops = pkts[m].hops
                                     /\ pkts'[m].end = pkts[m].end
<1>1. /\ DOMAIN pkts' = DOMAIN pkts /\ pkts'[k] = q
      /\ \A m \in DOMAIN pkts : m # k => pkts'[m] = pkts[m]
  BY Zenon DEF TypeOK, Fate
<1>2. pkts[k].at \in Nat /\ pkts[k].at >= 1 /\ q.at \in Nat
  BY SetupType, LenProperties DEF Placed, Packet
<1>3. q.at = pkts[k].at \/ (q.at = pkts[k].at + 1 /\ q.stage = FirstStage(HopOf(q)))
  BY Zenon DEF Fate, Silent, Recorded, Progress, Onto
<1>4. pkts[k].stage \in {"xdp", "sock", "tc"}
  BY Zenon DEF Fate, Silent, Recorded, Progress
<1>5. q.at = pkts[k].at => HopOf(q) = HopOf(pkts[k])
  BY Zenon DEF Fate, HopOf
<1> QED
  BY Zenon, <1>1, <1>2, <1>3, <1>4, <1>5 DEF Fate

\* The records grow by at most one.
LEMMA FateRecords ==
    ASSUME TypeOK, NEW k \in DOMAIN pkts, NEW q \in Placed, Fate(k, q)
    PROVE  /\ \A n \in DOMAIN obs : n \in DOMAIN obs' /\ obs'[n] = obs[n]
           /\ \A n \in DOMAIN obs' : n \notin DOMAIN obs =>
                  Recorded(k, q, obs'[n]) /\ DOMAIN obs' = DOMAIN obs \cup {n}
           /\ Silent(pkts[k], q) \/ \E n \in DOMAIN obs' : n \notin DOMAIN obs
<1>1. CASE Silent(pkts[k], q) /\ obs' = obs
  BY Zenon, <1>1
<1>2. ASSUME NEW r \in Observation, Recorded(k, q, r), obs' = Append(obs, r)
      PROVE  /\ \A n \in DOMAIN obs : n \in DOMAIN obs' /\ obs'[n] = obs[n]
             /\ \A n \in DOMAIN obs' : n \notin DOMAIN obs =>
                    Recorded(k, q, obs'[n]) /\ DOMAIN obs' = DOMAIN obs \cup {n}
             /\ \E n \in DOMAIN obs' : n \notin DOMAIN obs
  <2>1. obs \in Seq(Observation)
    BY Zenon DEF TypeOK
  <2>2. /\ Len(obs') = Len(obs) + 1 /\ obs' \in Seq(Observation)
        /\ \A n \in 1..Len(obs) : obs'[n] = obs[n]
        /\ obs'[Len(obs) + 1] = r
    BY <1>2, <2>1, AppendProperties
  <2>3. DOMAIN obs = 1..Len(obs) /\ Len(obs) \in Nat /\ DOMAIN obs' = 1..Len(obs')
    BY Zenon, <2>1, <2>2, LenProperties
  <2>4. /\ DOMAIN obs' = DOMAIN obs \cup {Len(obs) + 1} /\ Len(obs) + 1 \notin DOMAIN obs
        /\ \A n \in DOMAIN obs' : n \notin DOMAIN obs => n = Len(obs) + 1
    BY <2>2, <2>3
  <2> QED
    BY Zenon, <1>2, <2>2, <2>3, <2>4
<1> QED
  BY Zenon, <1>1, <1>2 DEF Fate

\* Of the programs of one hop, XDP and TC ingress exclude each other (attachIface):
\* the program that records a packet is the one the packet was waiting for.
LEMMA RecordedAwaited ==
    ASSUME EntersInward, NEW k \in DOMAIN pkts, NEW q, NEW r, Recorded(k, q, r)
    PROVE  Awaits(pkts[k])
BY Zenon DEF Recorded, Awaits, HasTC, HasXDP

-----------------------------------------------------------------------------
(* Every hook keeps the invariant of the records, conjunct by conjunct.    *)

\* XDP is only reached by arriving packets.
LEMMA FateEnters ==
    ASSUME TypeOK, EntersInward, NEW k \in DOMAIN pkts, NEW q \in Placed, Fate(k, q)
    PROVE  EntersInward'
<1>1. q.stage = "xdp" => HopOf(q).dir = "in"
  BY Zenon DEF Fate, Silent, Recorded, Progress, Onto, FirstStage
<1>2. /\ DOMAIN pkts' = DOMAIN pkts /\ pkts'[k] = q
      /\ \A m \in DOMAIN pkts : m # k => pkts'[m] = pkts[m]
  BY Zenon, FateBasics
<1> QED
  BY Zenon, <1>1, <1>2 DEF EntersInward, HopOf

\* Where a record of the packet's current hop exists, no program is to come.
LEMMA FatePlaced ==
    ASSUME FateInv, NEW k \in DOMAIN pkts, NEW q \in Placed, Fate(k, q)
    PROVE  RecordsPlaced'
<1> DEFINE p == pkts[k]
<1>0. TypeOK /\ EntersInward /\ RecordsPlaced
  BY Zenon DEF FateInv
<1>1. /\ DOMAIN pkts' = DOMAIN pkts /\ pkts'[k] = q
      /\ \A m \in DOMAIN pkts : m # k => pkts'[m] = pkts[m]
  BY Zenon, <1>0, FateBasics
<1>2. p.at \in Nat /\ p.at >= 1 /\ q.at \in Nat /\ (q.at = p.at \/ q.at = p.at + 1)
      /\ (q.at = p.at => HopOf(q) = HopOf(p))
  BY Zenon, <1>0, FateBasics
<1>3. \A x : Awaits(x)' <=> Awaits(x)
  BY Zenon, AgentsFixed DEF Fate
<1>4. q.at = p.at /\ ~Awaits(p) => ~Awaits(q)
  <2>1. q.at = p.at => q.at # p.at + 1
    BY <1>2
  <2> QED
    BY Zenon, <1>2, <2>1 DEF Fate, Silent, Recorded, Progress, Onto, Awaits
<1>5. ASSUME NEW n \in DOMAIN obs
      PROVE  LET x == pkts'[obs[n].pkt] IN
             /\ obs[n].pkt \in DOMAIN pkts
             /\ obs[n].hop \in 1..x.at
             /\ obs[n].hop = x.at => ~Awaits(x)
  <2>1. CASE obs[n].pkt # k
    BY Zenon, <1>0, <1>1, <2>1 DEF RecordsPlaced
  <2>2. CASE obs[n].pkt = k
    <3>1. k \in DOMAIN pkts /\ obs[n].hop \in 1..p.at /\ (obs[n].hop = p.at => ~Awaits(p))
      BY Zenon, <1>0, <2>2 DEF RecordsPlaced
    <3>2. obs[n].hop \in 1..q.at /\ (obs[n].hop = q.at => q.at = p.at)
      BY <1>2, <3>1
    <3> QED
      BY Zenon, <1>1, <1>4, <2>2, <3>1, <3>2
  <2> QED
    BY Zenon, <2>1, <2>2
<1>6. ASSUME NEW r, Recorded(k, q, r)
      PROVE  r.pkt = k /\ r.hop \in 1..q.at /\ (r.hop = q.at => ~Awaits(q))
  <2>1. r.pkt = k /\ r.hop = p.at
    BY Zenon, <1>6 DEF Recorded
  <2>2. r.hop \in 1..q.at
    BY <1>2, <2>1
  <2>3. q.at = p.at => ~Awaits(q)
    <3> SUFFICES ASSUME q.at = p.at PROVE ~Awaits(q)
      BY Zenon
    <3>1. HopOf(q) = HopOf(p) /\ q.at # p.at + 1
      BY <1>2
    <3>2. CASE p.stage = "xdp"
      BY Zenon, <1>0, <1>6, <3>1, <3>2 DEF Recorded, Progress, Awaits, EntersInward
    <3>3. CASE p.stage = "tc"
      BY Zenon, <1>6, <3>1, <3>3 DEF Recorded, Progress, Onto, Awaits
    <3> QED
      BY Zenon, <1>6, <3>2, <3>3 DEF Recorded
  <2> QED
    BY Zenon, <2>1, <2>2, <2>3
<1>7. \A n \in DOMAIN obs : n \in DOMAIN obs' /\ obs'[n] = obs[n]
  BY Zenon, <1>0, FateRecords
<1>8. ASSUME NEW n \in DOMAIN obs', n \notin DOMAIN obs PROVE Recorded(k, q, obs'[n])
  BY Zenon, <1>0, <1>8, FateRecords
<1> QED
  BY Zenon, <1>1, <1>3, <1>5, <1>6, <1>7, <1>8 DEF RecordsPlaced

\* INTERCEPTED is written for the packets that are dropped and no others, and the
\* second record of a hop is never written.
LEMMA FateMatches ==
    ASSUME FateInv, NEW k \in DOMAIN pkts, NEW q \in Placed, Fate(k, q)
    PROVE  ObservationsMatchFate'
<1> DEFINE p == pkts[k]
           Says(o, x) == (o.action = "INTERCEPTED") <=> (x.stage = "dropped" /\ x.at = o.hop)
<1>0. TypeOK /\ EntersInward /\ RecordsPlaced /\ ObservationsMatchFate
  BY Zenon DEF FateInv
<1>1. /\ DOMAIN pkts' = DOMAIN pkts /\ pkts'[k] = q
      /\ \A m \in DOMAIN pkts : m # k => pkts'[m] = pkts[m]
      /\ p.stage \in {"xdp", "sock", "tc"}
  BY Zenon, <1>0, FateBasics
<1>2. \A n \in DOMAIN obs : n \in DOMAIN obs' /\ obs'[n] = obs[n]
  BY Zenon, <1>0, FateRecords
<1>3. ASSUME NEW n \in DOMAIN obs', n \notin DOMAIN obs
      PROVE  Recorded(k, q, obs'[n]) /\ DOMAIN obs' = DOMAIN obs \cup {n}
  BY Zenon, <1>0, <1>3, FateRecords
<1>4. \A x : Progress(p, x) => x.stage # "dropped"
  BY Zenon DEF Progress, Onto, FirstStage
<1>5. ASSUME NEW n \in DOMAIN obs', n \notin DOMAIN obs
      PROVE  /\ obs'[n].pkt = k /\ obs'[n].hop = p.at /\ Says(obs'[n], q)
             /\ \A m \in DOMAIN obs : ~(obs[m].pkt = k /\ obs[m].hop = p.at)
  <2>1. Recorded(k, q, obs'[n])
    BY Zenon, <1>3, <1>5
  <2>2. Awaits(p)
    BY Zenon, <1>0, <2>1, RecordedAwaited
  <2>3. Says(obs'[n], q)
    BY Zenon, <1>4, <2>1 DEF Recorded, ObsAction
  <2>4. \A m \in DOMAIN obs : ~(obs[m].pkt = k /\ obs[m].hop = p.at)
    BY Zenon, <1>0, <2>2 DEF RecordsPlaced
  <2> QED
    BY Zenon, <2>1, <2>3, <2>4 DEF Recorded
<1>6. ASSUME NEW n \in DOMAIN obs PROVE Says(obs[n], pkts'[obs[n].pkt])
  <2>1. obs[n].pkt \in DOMAIN pkts /\ Says(obs[n], pkts[obs[n].pkt])
    BY Zenon, <1>0 DEF RecordsPlaced, ObservationsMatchFate, Dropped
  <2>2. CASE obs[n].pkt # k
    BY Zenon, <1>1, <2>1, <2>2
  <2>3. CASE obs[n].pkt = k
    <3>1. obs[n].action # "INTERCEPTED"
      BY Zenon, <1>1, <2>1, <2>3
    <3>2. CASE q.stage # "dropped"
      BY Zenon, <1>1, <2>3, <3>1, <3>2
    <3>3. CASE q.stage = "dropped"
      <4>1. ~Silent(p, q)
        BY Zenon, <1>4, <3>3 DEF Silent
      <4>2. PICK m \in DOMAIN obs' : m \notin DOMAIN obs /\ Recorded(k, q, obs'[m])
        BY Zenon, <1>0, <4>1, FateRecords
      <4>3. q.at = p.at
        BY Zenon, <1>4, <3>3, <4>2 DEF Recorded
      <4>4. obs[n].hop # p.at
        BY Zenon, <1>5, <2>3, <4>2
      <4> QED
        BY Zenon, <1>1, <2>3, <3>1, <4>3, <4>4
    <3> QED
      BY Zenon, <3>2, <3>3
  <2> QED
    BY Zenon, <2>2, <2>3
<1>7. ASSUME NEW n \in DOMAIN obs' PROVE Says(obs'[n], pkts'[obs'[n].pkt])
  <2>1. CASE n \in DOMAIN obs
    BY Zenon, <1>2, <1>6, <2>1
  <2>2. CASE n \notin DOMAIN obs
    <3> HIDE DEF Says
    <3> QED BY Zenon, <1>1, <1>5, <2>2
  <2> QED
    BY Zenon, <2>1, <2>2
<1>8. ASSUME NEW n \in DOMAIN obs', NEW m \in DOMAIN obs',
             obs'[m].pkt = obs'[n].pkt, obs'[m].hop = obs'[n].hop
      PROVE  m = n
  <2>1. CASE n \in DOMAIN obs /\ m \in DOMAIN obs
    BY Zenon, <1>0, <1>2, <1>8, <2>1 DEF ObservationsMatchFate
  <2>2. CASE n \in DOMAIN obs /\ m \notin DOMAIN obs
    BY Zenon, <1>2, <1>5, <1>8, <2>2
  <2>3. CASE n \notin DOMAIN obs /\ m \in DOMAIN obs
    BY Zenon, <1>2, <1>5, <1>8, <2>3
  <2>4. CASE n \notin DOMAIN obs /\ m \notin DOMAIN obs
    BY Zenon, <1>3, <2>4
  <2> QED
    BY Zenon, <2>1, <2>2, <2>3, <2>4
<1> QED
  BY Zenon, <1>7, <1>8 DEF ObservationsMatchFate, Dropped
\* HooksJudge' with the packets' new values written out.
LEMMA JudgeNext ==
    ASSUME dep' = dep,
           \A m \in DOMAIN pkts' : \A n \in 1..pkts'[m].at :
               TcPassed(pkts'[m], n) /\ TcAt(pkts'[m].hops[n]) /\ MatchAt(pkts'[m], n) =>
                   /\ \E x \in DOMAIN obs' : obs'[x].pkt = m /\ obs'[x].hop = n
                   /\ DropAt(pkts'[m], n, pkts'[m].hops[n].tunnel) =>
                          n = pkts'[m].at /\ pkts'[m].stage = "dropped"
    PROVE  HooksJudge'
<1> SUFFICES ASSUME NEW m \in DOMAIN pkts', NEW n \in 1..pkts'[m].at,
                    TcPassed(pkts[m], n)', TcAt(pkts[m].hops[n])', MatchAt(pkts[m], n)'
             PROVE  Judged(m, n)'
  BY Zenon DEF HooksJudge
<1>1. TcPassed(pkts'[m], n)
  BY Zenon DEF TcPassed, HopOf
<1>2. TcAt(pkts'[m].hops[n]) /\ MatchAt(pkts'[m], n)
  BY Zenon, AgentsFixed
<1>3. DropAt(pkts[m], n, pkts[m].hops[n].tunnel)' <=> DropAt(pkts'[m], n, pkts'[m].hops[n].tunnel)
  BY Zenon, AgentsFixed
<1> QED
  BY Zenon, <1>1, <1>2, <1>3 DEF Judged

\* A matching TC program records the packet, and lets none pass that is to be
\* dropped.
LEMMA FateJudged ==
    ASSUME FateInv, NEW k \in DOMAIN pkts, NEW q \in Placed, Fate(k, q)
    PROVE  HooksJudge'
<1> DEFINE p == pkts[k]
           Logged(m, n) == \E x \in DOMAIN obs : obs[x].pkt = m /\ obs[x].hop = n
           LoggedNext(m, n) == \E x \in DOMAIN obs' : obs'[x].pkt = m /\ obs'[x].hop = n
           Spares(x, n) == DropAt(x, n, x.hops[n].tunnel) => n = x.at /\ x.stage = "dropped"
<1>0. TypeOK /\ EntersInward /\ HooksJudge
  BY Zenon DEF FateInv
<1>1. /\ DOMAIN pkts' = DOMAIN pkts /\ pkts'[k] = q
      /\ \A m \in DOMAIN pkts : m # k => pkts'[m] = pkts[m]
      /\ p.stage \in {"xdp", "sock", "tc"}
  BY Zenon, <1>0, FateBasics
<1>2. /\ p.at \in Nat /\ p.at >= 1 /\ q.at \in Nat
      /\ q.at = p.at \/ (q.at = p.at + 1 /\ q.stage = FirstStage(HopOf(q)))
      /\ (q.at = p.at => HopOf(q) = HopOf(p))
  BY Zenon, <1>0, FateBasics
<1>3. /\ \A x, n : MatchAt(x, n)' <=> MatchAt(x, n)
      /\ \A x, n, key : DropAt(x, n, key)' <=> DropAt(x, n, key)
      /\ \A h : TcAt(h)' <=> TcAt(h)
  BY Zenon, AgentsFixed DEF Fate
<1>4. \A m, n : Logged(m, n) => LoggedNext(m, n)
  BY Zenon, <1>0, FateRecords
<1>5. q.frame = p.frame /\ q.hops = p.hops
  BY Zenon DEF Fate
<1>6. \A n, key : /\ MatchAt(q, n) <=> MatchAt(p, n)
                  /\ DropAt(q, n, key) <=> DropAt(p, n, key)
  BY Zenon, <1>5 DEF MatchAt, DropAt
<1>7. \A n \in 1..p.at : TcPassed(p, n) /\ TcAt(p.hops[n]) /\ MatchAt(p, n) =>
                             Logged(k, n) /\ Spares(p, n)
  BY Zenon, <1>0 DEF HooksJudge, Judged
<1>8. ASSUME NEW n \in 1..q.at, TcPassed(q, n), TcAt(q.hops[n]), MatchAt(q, n)
      PROVE  LoggedNext(k, n) /\ Spares(q, n)
  <2>1. TcAt(p.hops[n]) /\ MatchAt(p, n)
    BY Zenon, <1>5, <1>6, <1>8
  <2>2. CASE n < p.at
    <3>1. n \in 1..p.at /\ n # p.at
      BY <1>2, <2>2
    <3>2. Logged(k, n) /\ Spares(p, n)
      BY Zenon, <1>7, <2>1, <2>2, <3>1 DEF TcPassed
    <3>3. LoggedNext(k, n)
      BY Zenon, <1>4, <3>2
    <3>4. ~DropAt(q, n, q.hops[n].tunnel)
      BY Zenon, <1>5, <1>6, <3>1, <3>2
    <3> QED
      BY Zenon, <3>3, <3>4
  <2>3. CASE n = p.at
    <3>1. n \in 1..p.at
      BY <1>2, <2>3
    <3>2. CASE p.stage = "sock" /\ HopOf(p).dir # "in"
      <4>1. Logged(k, n) /\ Spares(p, n)
        BY Zenon, <1>7, <2>1, <3>1, <3>2 DEF TcPassed
      <4>2. ~DropAt(p, n, p.hops[n].tunnel)
        BY Zenon, <3>2, <4>1
      <4>3. LoggedNext(k, n)
        BY Zenon, <1>4, <4>1
      <4>4. ~DropAt(q, n, q.hops[n].tunnel)
        BY Zenon, <1>5, <1>6, <4>2
      <4> QED
        BY Zenon, <4>3, <4>4
    <3>3. CASE p.stage = "sock" /\ HopOf(p).dir = "in"
      <4>1. q.at = p.at /\ q.stage = "tc"
        BY Zenon, <3>3 DEF Fate, Silent, Recorded, Progress
      <4>2. ~TcPassed(q, n)
        BY <1>2, <2>3, <4>1 DEF TcPassed
      <4> QED
        BY Zenon, <1>8, <4>2
    <3>4. CASE p.stage = "xdp"
      <4>1. HopOf(p).dir = "in" /\ ~HasXDP(HopOf(p).iface)
        BY Zenon, <1>0, <2>1, <2>3, <3>4 DEF EntersInward, TcAt, HasTC, HasXDP, HopOf
      <4>2. q.at = p.at /\ q.stage = "sock"
        BY Zenon, <3>4, <4>1 DEF Fate, Silent, Recorded, Progress
      <4>3. ~TcPassed(q, n)
        BY <1>2, <2>3, <4>1, <4>2 DEF TcPassed
      <4> QED
        BY Zenon, <1>8, <4>3
    <3>5. CASE p.stage = "tc"
      <4>1. ~Silent(p, q)
        BY Zenon, <2>1, <2>3, <3>5 DEF Silent, HopOf
      <4>2. PICK x \in DOMAIN obs' : Recorded(k, q, obs'[x])
        BY Zenon, <1>0, <4>1, FateRecords
      <4>3. LoggedNext(k, n)
        BY Zenon, <2>3, <4>2 DEF Recorded
      <4>4. DropAt(p, n, p.hops[n].tunnel) => q.at = p.at /\ q.stage = "dropped"
        BY Zenon, <2>3, <3>5, <4>2 DEF Recorded, KeyAt, HopOf
      <4> QED
        BY Zenon, <1>5, <1>6, <2>3, <4>3, <4>4
    <3> QED
      BY Zenon, <1>1, <3>2, <3>3, <3>4, <3>5
  <2>4. CASE n > p.at
    <3>1. q.at = p.at + 1 /\ n = q.at /\ q.stage = FirstStage(HopOf(q))
      BY <1>2, <2>4
    <3>2. ~TcPassed(q, n)
      BY <1>2, <3>1 DEF TcPassed, FirstStage
    <3> QED
      BY Zenon, <1>8, <3>2
  <2> QED
    BY <1>2, <2>2, <2>3, <2>4
<1>9. ASSUME NEW m \in DOMAIN pkts, m # k, NEW n \in 1..pkts[m].at,
             TcPassed(pkts[m], n), TcAt(pkts[m].hops[n]), MatchAt(pkts[m], n)
      PROVE  LoggedNext(m, n) /\ Spares(pkts[m], n)
  <2>1. Judged(m, n)
    BY Zenon, <1>0, <1>9 DEF HooksJudge
  <2>2. Logged(m, n) /\ Spares(pkts[m], n)
    BY Zenon, <2>1 DEF Judged
  <2> QED
    BY Zenon, <1>4, <2>2
<1>10. ASSUME NEW m \in DOMAIN pkts, NEW n \in 1..pkts'[m].at,
              TcPassed(pkts'[m], n), TcAt(pkts'[m].hops[n]), MatchAt(pkts'[m], n)
       PROVE  LoggedNext(m, n) /\ Spares(pkts'[m], n)
  <2> HIDE DEF LoggedNext, Spares
  <2>1. CASE m = k
    BY Zenon, <1>1, <1>8, <1>10, <2>1
  <2>2. CASE m # k
    BY Zenon, <1>1, <1>9, <1>10, <2>2
  <2> QED
    BY Zenon, <2>1, <2>2
<1>11. dep' = dep
  BY Zenon DEF Fate
<1>12. \A m \in DOMAIN pkts' : \A n \in 1..pkts'[m].at :
           TcPassed(pkts'[m], n) /\ TcAt(pkts'[m].hops[n]) /\ MatchAt(pkts'[m], n) =>
               LoggedNext(m, n) /\ Spares(pkts'[m], n)
  <2> HIDE DEF LoggedNext, Spares
  <2> QED
    BY Zenon, <1>1, <1>10
<1> QED
  BY Zenon, <1>11, <1>12, JudgeNext

\* do_drop is TRUE only for an address the node's agent put in local_ips.
LEMMA FateLocal ==
    ASSUME FateInv, NEW k \in DOMAIN pkts, NEW q \in Placed, Fate(k, q)
    PROVE  DropsLocal'
<1> DEFINE p == pkts[k]
<1>0. TypeOK /\ DropsLocal
  BY Zenon DEF FateInv
<1>1. /\ DOMAIN pkts' = DOMAIN pkts /\ pkts'[k] = q
      /\ \A m \in DOMAIN pkts : m # k => pkts'[m] = pkts[m]
  BY Zenon, <1>0, FateBasics
<1>2. /\ \A i : Attached(i)' <=> Attached(i)
      /\ \A n : LocalIps(n)' = LocalIps(n)
  BY Zenon, AgentsFixed DEF Fate
<1>3. q.stage = "dropped" => /\ Attached(HopOf(q).iface)
                             /\ q.frame.dst \in LocalIps(NodeOf[HopOf(q).iface])
  <2> SUFFICES ASSUME q.stage = "dropped"
               PROVE  Attached(HopOf(q).iface) /\ q.frame.dst \in LocalIps(NodeOf[HopOf(q).iface])
    BY Zenon
  <2>1. ~Progress(p, q)
    BY Zenon DEF Progress, Onto, FirstStage
  <2>2. PICK r \in Observation : Recorded(k, q, r)
    BY Zenon, <2>1 DEF Fate, Silent
  <2>3. q.at = p.at /\ DropAt(p, p.at, KeyAt(p)) /\ Attached(HopOf(p).iface)
    BY Zenon, <2>1, <2>2 DEF Recorded
  <2>4. HopOf(q) = HopOf(p) /\ q.frame = p.frame
    BY Zenon, <2>3 DEF Fate, HopOf
  <2> QED
    BY Zenon, <2>3, <2>4 DEF DropAt, DoDrop, HopOf
<1> QED
  BY Zenon, <1>0, <1>1, <1>2, <1>3 DEF DropsLocal, Dropped, HopOf

\* A packet that was dropped was so at an interface of an agent for its destination.
LocalDrop(p) ==
    p.stage = "dropped" => /\ Attached(HopOf(p).iface)
                           /\ p.frame.dst \in LocalIps(NodeOf[HopOf(p).iface])

\* As the deployment is fixed, today's addresses decide for tomorrow's packets.
LEMMA LocalNext ==
    ASSUME dep' = dep, \A m \in DOMAIN pkts' : LocalDrop(pkts'[m])
    PROVE  DropsLocal'
<1>1. /\ \A i : Attached(i)' <=> Attached(i)
      /\ \A n : LocalIps(n)' = LocalIps(n)
  BY Zenon, AgentsFixed
<1> QED
  BY Zenon, <1>1 DEF DropsLocal, Dropped, HopOf, LocalDrop

\* A packet that has just been sent has met no hook, so it changes no record.
LEMMA AppendFate ==
    ASSUME FateInv, NEW q \in Placed, pkts' = Append(pkts, q), Fresh(q), dep' = dep, obs' = obs,
           sock' \subseteq sock, answered' \subseteq answered \cup sock
    PROVE  FateInv'
<1>1. /\ TypeOK' /\ DOMAIN pkts' = DOMAIN pkts \cup {Len(pkts) + 1}
      /\ pkts'[Len(pkts) + 1] = q
      /\ \A m \in DOMAIN pkts : pkts'[m] = pkts[m]
  BY Zenon, AppendType DEF FateInv
<1> DEFINE new == Len(pkts) + 1
<1>2. /\ \A i : (Attached(i)' <=> Attached(i)) /\ (HasXDP(i)' <=> HasXDP(i))
      /\ \A h : TcAt(h)' <=> TcAt(h)
      /\ \A n : LocalIps(n)' = LocalIps(n)
      /\ \A p, n : MatchAt(p, n)' <=> MatchAt(p, n)
      /\ \A p, n, key : DropAt(p, n, key)' <=> DropAt(p, n, key)
      /\ \A p : Awaits(p)' <=> Awaits(p)
  BY Zenon, AgentsFixed
<1>3. /\ q.at = 1 /\ q.stage \notin {"dropped", "done", "sock"}
      /\ q.stage = "xdp" => HopOf(q).dir = "in"
  BY Zenon DEF Fresh, FirstStage
<1>4. EntersInward'
  BY Zenon, <1>1, <1>3 DEF FateInv, EntersInward, HopOf
<1>5. RecordsPlaced'
  BY Zenon, <1>1, <1>2 DEF FateInv, RecordsPlaced
<1>6. ObservationsMatchFate'
  <2>1. \A n \in DOMAIN obs : pkts'[obs[n].pkt] = pkts[obs[n].pkt]
    BY Zenon, <1>1 DEF FateInv, RecordsPlaced
  <2>2. ASSUME NEW n \in DOMAIN obs
        PROVE  /\ obs[n].action = "INTERCEPTED" <=> (/\ pkts'[obs[n].pkt].stage = "dropped"
                                                   /\ pkts'[obs[n].pkt].at = obs[n].hop)
               /\ \A m \in DOMAIN obs :
                     (obs[m].pkt = obs[n].pkt /\ obs[m].hop = obs[n].hop) => m = n
    <3>1. pkts'[obs[n].pkt] = pkts[obs[n].pkt]
      BY Zenon, <2>1
    <3> QED
      BY Zenon, <3>1 DEF FateInv, ObservationsMatchFate, Dropped
  <2> HIDE DEF FateInv
  <2> QED
    BY Zenon, <2>2 DEF ObservationsMatchFate, Dropped
<1>7. HooksJudge'
  <2>1. ASSUME NEW n \in 1..q.at PROVE ~TcPassed(q, n)
    BY <1>3 DEF TcPassed
  <2>2. ASSUME NEW m \in DOMAIN pkts, NEW n \in 1..pkts[m].at,
               TcPassed(pkts[m], n), TcAt(pkts[m].hops[n]), MatchAt(pkts[m], n)
        PROVE  Judged(m, n)
    BY Zenon, <2>2 DEF FateInv, HooksJudge
  <2>3. ASSUME NEW m \in DOMAIN pkts', NEW n \in 1..pkts'[m].at,
               TcPassed(pkts'[m], n), TcAt(pkts'[m].hops[n]), MatchAt(pkts'[m], n)
        PROVE  /\ \E x \in DOMAIN obs' : obs'[x].pkt = m /\ obs'[x].hop = n
               /\ DropAt(pkts'[m], n, pkts'[m].hops[n].tunnel) =>
                      n = pkts'[m].at /\ pkts'[m].stage = "dropped"
    <3>1. m \in DOMAIN pkts /\ pkts'[m] = pkts[m]
      BY Zenon, <1>1, <2>1, <2>3
    <3>2. Judged(m, n)
      BY Zenon, <2>2, <2>3, <3>1
    <3> QED
      BY Zenon, <3>1, <3>2 DEF Judged
  <2> QED
    BY Zenon, <2>3, JudgeNext
<1>8. DropsLocal'
  <2>1. \A m \in DOMAIN pkts : LocalDrop(pkts[m])
    BY Zenon DEF FateInv, DropsLocal, Dropped, LocalDrop
  <2>2. ASSUME NEW m \in DOMAIN pkts' PROVE LocalDrop(pkts'[m])
    <3>1. CASE pkts'[m] = q
      BY Zenon, <1>3, <3>1 DEF LocalDrop
    <3>2. CASE m \in DOMAIN pkts /\ pkts'[m] = pkts[m]
      BY Zenon, <2>1, <3>2
    <3> QED
      BY Zenon, <1>1, <3>1, <3>2
  <2> QED
    BY Zenon, <2>2, LocalNext
<1> QED
  BY Zenon, <1>1, <1>4, <1>5, <1>6, <1>7, <1>8 DEF FateInv

\* Nothing that the invariant speaks of changes.
LEMMA IdleFate ==
    ASSUME FateInv, TypeOK', pkts' = pkts, dep' = dep, obs' = obs
    PROVE  FateInv'
<1>1. /\ \A i : (Attached(i)' <=> Attached(i)) /\ (HasXDP(i)' <=> HasXDP(i))
      /\ \A h : TcAt(h)' <=> TcAt(h)
      /\ \A n : LocalIps(n)' = LocalIps(n)
      /\ \A p, n : MatchAt(p, n)' <=> MatchAt(p, n)
      /\ \A p, n, key : DropAt(p, n, key)' <=> DropAt(p, n, key)
      /\ \A p : Awaits(p)' <=> Awaits(p)
  BY Zenon, AgentsFixed
<1>2. EntersInward' /\ RecordsPlaced' /\ ObservationsMatchFate'
  BY Zenon, <1>1 DEF FateInv, EntersInward, RecordsPlaced, ObservationsMatchFate, Dropped, HopOf
<1>3. DropsLocal'
  BY Zenon, <1>1 DEF FateInv, DropsLocal, Dropped, HopOf
<1>4. HooksJudge'
  <2>1. \A m \in DOMAIN pkts : \A n \in 1..pkts[m].at :
            TcPassed(pkts[m], n) /\ TcAt(pkts[m].hops[n]) /\ MatchAt(pkts[m], n) =>
                /\ \E x \in DOMAIN obs : obs[x].pkt = m /\ obs[x].hop = n
                /\ DropAt(pkts[m], n, pkts[m].hops[n].tunnel) =>
                       n = pkts[m].at /\ pkts[m].stage = "dropped"
    BY Zenon DEF FateInv, HooksJudge, Judged
  <2>2. ASSUME NEW m \in DOMAIN pkts', NEW n \in 1..pkts'[m].at,
               TcPassed(pkts'[m], n), TcAt(pkts'[m].hops[n]), MatchAt(pkts'[m], n)
        PROVE  /\ \E x \in DOMAIN obs' : obs'[x].pkt = m /\ obs'[x].hop = n
               /\ DropAt(pkts'[m], n, pkts'[m].hops[n].tunnel) =>
                      n = pkts'[m].at /\ pkts'[m].stage = "dropped"
    BY <2>1, <2>2
  <2> QED
    BY Zenon, <2>2, JudgeNext
<1> QED
  BY Zenon, <1>2, <1>3, <1>4 DEF FateInv

\* The invariant of the records holds in every reachable state.
THEOREM FateInvariant == Spec => []FateInv
<1>1. Init => FateInv
  BY EmptySeq DEF Init, FateInv, TypeOK, EntersInward, RecordsPlaced, ObservationsMatchFate,
                  HooksJudge, DropsLocal
<1>2. FateInv /\ [Next]_vars => FateInv'
  <2> SUFFICES ASSUME FateInv, [Next]_vars PROVE FateInv'
    OBVIOUS
  <2>0. TypeOK
    BY Zenon DEF FateInv
  <2>1. ASSUME NEW f \in Probes, NEW j \in Journeys, Send(f, j) PROVE FateInv'
    BY Zenon, <2>0, <2>1, SendMoves, AppendFate
  <2>2. ASSUME NEW k \in DOMAIN pkts, Step(k) PROVE FateInv'
    <3>1. TypeOK'
      BY Zenon, <2>0, <2>2, StepMoves, StepType
    <3>2. PICK q \in Placed : Fate(k, q)
      BY Zenon, <2>0, <2>2, StepFate
    <3>3. EntersInward'
      BY Zenon, <3>2, FateEnters DEF FateInv
    <3> QED
      BY Zenon, <3>1, <3>2, <3>3, FatePlaced, FateMatches, FateJudged, FateLocal DEF FateInv
  <2>3. ASSUME NEW c \in sock, Respond(c) PROVE FateInv'
    <3>1. RespondOutcome(c)
      BY Zenon, <2>0, <2>3, RespondMoves
    <3>2. CASE pkts' = pkts /\ answered' = answered
      <4>1. TypeOK'
        BY Zenon, <2>0, <3>1, <3>2 DEF RespondOutcome, TypeOK
      <4> QED
        BY Zenon, <3>1, <3>2, <4>1, IdleFate DEF RespondOutcome
    <3>3. CASE answered' = answered \cup {c} /\ \E q \in Placed : pkts' = Append(pkts, q) /\ Fresh(q)
      BY Zenon, <3>1, <3>3, AppendFate DEF RespondOutcome
    <3> QED
      BY Zenon, <3>1, <3>2, <3>3 DEF RespondOutcome
  <2>4. CASE UNCHANGED vars
    <3>1. TypeOK'
      BY Zenon, <2>0, <2>4 DEF vars, TypeOK
    <3> QED
      BY Zenon, <2>4, <3>1, IdleFate DEF vars
  <2> QED
    BY Zenon, <2>1, <2>2, <2>3, <2>4 DEF Next
<1> QED
  BY <1>1, <1>2, PTL DEF Spec

\* For every topology and deployment a record reads INTERCEPTED exactly when the
\* packet ended at that hop, and no hop of a packet is recorded twice, although XDP
\* and TC programs may share an interface (handle, traceflow_xdp, attachIface).
THEOREM RecordsMatchFate == Spec => []ObservationsMatchFate
<1>1. FateInv => ObservationsMatchFate
  BY Zenon DEF FateInv
<1> QED
  BY <1>1, FateInvariant, PTL
-----------------------------------------------------------------------------
(* Where a dropped probe is answered by the interface that dropped it.  A   *)
(* socket has a copy only of what has passed it, and of the programs only   *)
(* TC ingress comes behind the sockets.                                     *)

\* Packet p has passed the packet sockets of its hop.
SocketsPassed(p) ==
    LET h == HopOf(p) IN
    \/ h.dir = "in" /\ p.stage \in {"tc", "done"}
    \/ h.dir = "in" /\ p.stage = "dropped" /\ ~OptsOf(h.iface).xdp
    \/ h.dir # "in" /\ p.stage = "done"
CopiesBehind ==
    \A c \in sock \cup answered : c[2] = pkts[c[1]].at => SocketsPassed(pkts[c[1]])

\* A hook leaves the copies behind the packet, and takes one as the packet passes.
LEMMA StepCopies ==
    ASSUME TypeOK, CopiesBehind, NEW k \in DOMAIN pkts, Step(k)
    PROVE  CopiesBehind'
<1> DEFINE p == pkts[k]
           here == <<k, p.at>>
<1>1. PICK q \in Placed : Fate(k, q)
  BY Zenon, StepFate
<1>2. /\ DOMAIN pkts' = DOMAIN pkts /\ pkts'[k] = q
      /\ \A m \in DOMAIN pkts : m # k => pkts'[m] = pkts[m]
      /\ p.at \in Nat /\ p.stage \in {"xdp", "sock", "tc"}
      /\ q.at = p.at \/ q.at = p.at + 1
  BY Zenon, <1>1, FateBasics
<1>3. /\ dep' = dep /\ q.hops = p.hops
      /\ \/ Silent(p, q)
         \/ \E r \in Observation : Recorded(k, q, r)
  BY Zenon, <1>1 DEF Fate
<1>4. answered' = answered /\ (sock' = sock \/ (p.stage = "sock" /\ sock' = sock \cup {here}))
  BY Zenon DEF Step, XdpHook, TcHook, SockTap
<1>5. \A r : SocketsPassed(r)' <=> SocketsPassed(r)
  BY Zenon, <1>3 DEF SocketsPassed, OptsOf
<1>6. ASSUME q.at = p.at, p.stage = "sock" \/ SocketsPassed(p) PROVE SocketsPassed(q)
  <2>1. HopOf(q) = HopOf(p) /\ q.at # p.at + 1
    <3>1. q.at # p.at + 1
      BY <1>2, <1>6
    <3> QED
      BY Zenon, <1>3, <1>6, <3>1 DEF HopOf
  <2>2. p.stage = "sock" \/ (p.stage = "tc" /\ HopOf(p).dir = "in")
    BY Zenon, <1>2, <1>6 DEF SocketsPassed
  <2>3. CASE Progress(p, q)
    BY Zenon, <2>1, <2>2, <2>3 DEF Progress, Onto, SocketsPassed
  <2>4. CASE /\ p.stage = "tc" /\ HasTC(HopOf(p).iface, HopOf(p).dir) /\ q.stage = "dropped"
    <3>1. ~OptsOf(HopOf(p).iface).xdp
      BY Zenon, <2>2, <2>4 DEF HasTC
    <3> QED
      BY Zenon, <2>1, <2>2, <2>4, <3>1 DEF SocketsPassed
  <2>5. \A r : Recorded(k, q, r) =>
            \/ Progress(p, q)
            \/ p.stage = "xdp"
            \/ p.stage = "tc" /\ HasTC(HopOf(p).iface, HopOf(p).dir) /\ q.stage = "dropped"
    BY Zenon DEF Recorded
  <2> QED
    BY Zenon, <1>3, <2>2, <2>3, <2>4, <2>5 DEF Silent
<1>7. ASSUME NEW c \in sock \cup answered, c[2] = pkts'[c[1]].at PROVE SocketsPassed(pkts'[c[1]])
  <2>1. c[1] \in DOMAIN pkts /\ c[2] \in 1..pkts[c[1]].at
    BY Zenon DEF TypeOK
  <2>2. CASE c[1] # k
    BY Zenon, <1>2, <1>7, <2>1, <2>2 DEF CopiesBehind
  <2>3. CASE c[1] = k
    <3>1. q.at = p.at
      BY <1>2, <1>7, <2>1, <2>3
    <3> QED
      BY Zenon, <1>2, <1>6, <1>7, <2>3, <3>1 DEF CopiesBehind
  <2> QED
    BY Zenon, <2>2, <2>3
<1>8. ASSUME p.stage = "sock", here[2] = pkts'[here[1]].at PROVE SocketsPassed(pkts'[here[1]])
  BY Zenon, <1>2, <1>6, <1>8
<1>9. ASSUME NEW c \in sock' \cup answered', c[2] = pkts'[c[1]].at PROVE SocketsPassed(pkts'[c[1]])
  BY Zenon, <1>4, <1>7, <1>8, <1>9
<1> QED
  BY Zenon, <1>5, <1>9 DEF CopiesBehind

\* In every reachable state a copy's packet has passed the sockets of the copy's hop.
LEMMA CopiesInvariant == Spec => []CopiesBehind
<1>1. Init => CopiesBehind
  BY Zenon DEF Init, CopiesBehind
<1>2. TypeOK /\ CopiesBehind /\ [Next]_vars => CopiesBehind'
  <2> SUFFICES ASSUME TypeOK, CopiesBehind, [Next]_vars PROVE CopiesBehind'
    BY Zenon
  <2>1. ASSUME NEW q, pkts' = Append(pkts, q) \/ pkts' = pkts, dep' = dep,
               sock' \cup answered' \subseteq sock \cup answered
        PROVE  CopiesBehind'
    <3>1. \A m \in DOMAIN pkts : pkts'[m] = pkts[m]
      <4>1. pkts \in Seq(Packet)
        BY Zenon DEF TypeOK
      <4>2. ASSUME pkts' = Append(pkts, q) PROVE \A m \in DOMAIN pkts : pkts'[m] = pkts[m]
        BY <4>1, <4>2
      <4> QED
        BY Zenon, <2>1, <4>2
    <3>2. \A c \in sock' \cup answered' : c[1] \in DOMAIN pkts /\ c \in sock \cup answered
      BY Zenon, <2>1 DEF TypeOK
    <3>3. \A r : SocketsPassed(r)' <=> SocketsPassed(r)
      BY Zenon, <2>1 DEF SocketsPassed, OptsOf
    <3> QED
      BY Zenon, <3>1, <3>2, <3>3 DEF CopiesBehind
  <2>2. ASSUME NEW f \in Probes, NEW j \in Journeys, Send(f, j) PROVE CopiesBehind'
    <3>1. \E q \in Placed : pkts' = Append(pkts, q)
      BY Zenon, <2>2, SendMoves
    <3>2. dep' = dep /\ sock' = sock /\ answered' = answered
      BY Zenon, <2>2 DEF Send
    <3> QED
      BY Zenon, <2>1, <3>1, <3>2
  <2>3. ASSUME NEW k \in DOMAIN pkts, Step(k) PROVE CopiesBehind'
    BY Zenon, <2>3, StepCopies
  <2>4. ASSUME NEW c \in sock, Respond(c) PROVE CopiesBehind'
    <3>1. /\ dep' = dep /\ sock' = sock \ {c}
          /\ answered' = answered \/ answered' = answered \cup {c}
          /\ pkts' = pkts \/ \E q : pkts' = Append(pkts, q)
      BY Zenon, <2>4 DEF Respond
    <3>2. sock' \cup answered' \subseteq sock \cup answered
      BY Zenon, <3>1
    <3> QED
      BY Zenon, <2>1, <3>1, <3>2
  <2>5. CASE UNCHANGED vars
    BY Zenon, <2>1, <2>5 DEF vars
  <2> QED
    BY Zenon, <2>2, <2>3, <2>4, <2>5 DEF Next
<1> QED
  BY <1>1, <1>2, TypeCorrect, PTL DEF Spec

\* An interface answers the probe it has dropped exactly if it covers it.
AnsweredWhereCovered ==
    \A k \in DOMAIN pkts :
        Dropped(k) /\ ExpectsReply(pkts[k].frame) =>
            (TakenCare(k, pkts[k].at) <=> Covered(pkts[k]))

\* "The kernel drops it only when it will answer" (README.en.md), for every deployment: the
\* interface that drops a probe answers it when TC ingress drops it and the responder there
\* has the address, the key and the same reading of the frame.  In all other cases, XDP and
\* TC egress included, it does not, and only a responder passed before can have.
THEOREM DropsAnsweredWhereCovered == Spec => []AnsweredWhereCovered
<1>1. SafeInv /\ CopiesBehind /\ CoveredDropIsAnswered => AnsweredWhereCovered
  <2> SUFFICES ASSUME SafeInv, CopiesBehind, NEW k \in DOMAIN pkts, Dropped(k),
                      TakenCare(k, pkts[k].at)
               PROVE  Covered(pkts[k])
    BY Zenon DEF AnsweredWhereCovered, CoveredDropIsAnswered
  <2> DEFINE p == pkts[k]
             h == HopOf(p)
             f == p.frame
             r == ResponderOf(h.iface)
             c == <<k, p.at>>
  <2>1. c \in sock \cup answered /\ WillReply(c)
    BY Zenon DEF TakenCare, SafeInv, AnsweredGated
  <2>2. c[1] = k /\ c[2] = p.at
    BY Zenon
  <2>3. SocketsPassed(p)
    <3> HIDE DEF c
    <3> QED
      BY Zenon, <2>1, <2>2 DEF CopiesBehind
  <2>4. h.dir = "in" /\ ~OptsOf(h.iface).xdp
    BY Zenon, <2>3 DEF SocketsPassed, Dropped
  <2>5. Replies(f, h, r)
    BY Zenon, <2>1, <2>2 DEF WillReply, HopOf
  <2>6. ~h.encap
    BY Zenon DEF SafeInv, DropKnown, DropFacts
  <2>7. BuildReply(f, r) /\ (r.mode # "regular" => ~IsVXLANFrame(f, h))
    BY Zenon, <2>5, <2>6 DEF Replies, HandleVXLAN, HandleRegular
  <2>8. f.dst \in r.ips /\ AuthOK(f, r)
    BY Zenon, <2>7 DEF BuildReply, BuildReplyL4, BuildTCPReply, Gate
  <2> QED
    BY Zenon, <2>4, <2>7, <2>8 DEF Covered, IsVXLANFrame
<1> QED
  BY <1>1, SafeInvariant, CopiesInvariant, CoveredDropsAnswered, PTL

-----------------------------------------------------------------------------
(* Static agents.                                                           *)

\* Without watchers and XDP an interface has TC programs if it is an --iface, its
\* responder answers for --local-ip, and that is all local_ips holds.
LEMMA StaticFacts ==
    ASSUME StaticAgents, TypeOK, NEW i \in Iface
    PROVE  LET o == OptsOf(i) IN
           /\ o \in Opts /\ ~o.xdp /\ \A dir : HasTC(i, dir)
           /\ Attached(i) <=> i \in o.iface
           /\ LocalIps(NodeOf[i]) = o.localIPs
           /\ \A a \in AnswersFor(i) : o.respond /\ i \in o.iface /\ a \in o.localIPs
           /\ o.respond /\ i \in o.iface => AnswersFor(i) = o.localIPs
           /\ DevEntry(i) = {}
<1>1. NodeOf[i] \in Node /\ dep \in Deployments /\ dep \in Deployment
  BY Zenon, InterceptAssumption DEF TypeOK
<1>2. OptsOf(i) \in Opts /\ ~OptsOf(i).watch /\ ~OptsOf(i).watchVXLAN /\ ~OptsOf(i).xdp
  BY Zenon, <1>1 DEF StaticAgents, OptsOf, Deployment
<1>3. \A a \in AnswersFor(i) : OptsOf(i).respond /\ i \in OptsOf(i).iface /\ a \in OptsOf(i).localIPs
  BY Zenon, <1>2 DEF AnswersFor
<1>4. ASSUME NEW t \in Tap, NodeOf[t] = NodeOf[i] PROVE AnswersFor(t) \subseteq dep.opts[NodeOf[i]].localIPs
  <2>1. OptsOf(t) = dep.opts[NodeOf[i]] /\ ~OptsOf(t).watch
    BY Zenon, <1>2, <1>4 DEF OptsOf
  <2> QED
    BY Zenon, <2>1 DEF AnswersFor
<1>5. LocalIps(NodeOf[i]) = OptsOf(i).localIPs
  BY Zenon, <1>4 DEF LocalIps, OptsOf
<1> QED
  BY Zenon, <1>2, <1>3, <1>5 DEF Attached, HasTC, AnswersFor, DevEntry

\* "The kernel drops it only when it will answer": with static agents that share the
\* client's key, a probe that meets no overlay, expects a reply and is dropped has
\* been answered or is about to be (handle, responder.handle).
THEOREM StaticDropsAnswered == Spec => []StaticDropIsAnswered
<1>1. SafeInv /\ FateInv /\ CoveredDropIsAnswered => StaticDropIsAnswered
  <2> SUFFICES ASSUME SafeInv, FateInv, TypeOK, CoveredDropIsAnswered,
                      StaticAgents, PlainJourney, AcceptedProbe,
                      NEW k \in DOMAIN pkts, Dropped(k), ExpectsReply(pkts[k].frame)
               PROVE  \E n \in 1..pkts[k].at : TakenCare(k, n)
    BY Zenon DEF StaticDropIsAnswered, DroppedIsAnswered, FateInv
  <2> DEFINE p == pkts[k]
             h == HopOf(p)
             o == OptsOf(h.iface)
  <2>1. p \in Placed /\ h \in Hop /\ k \in Nat /\ k >= 1 /\ p.at \in 1..p.at
    <3>1. p \in Placed /\ h \in Hop
      BY Zenon, SetupType DEF TypeOK
    <3>2. p.at \in Nat /\ p.at >= 1
      BY <3>1, LenProperties DEF Placed, Packet
    <3> QED
      BY <3>1, <3>2, LenProperties DEF TypeOK
  <2>2. DropFacts(p) /\ Attached(h.iface) /\ p.frame.dst \in LocalIps(NodeOf[h.iface])
    BY Zenon DEF SafeInv, DropKnown, FateInv, DropsLocal
  <2>3. k = 1
    BY <2>1, <2>2 DEF SafeInv, QuietFlags, DropFacts
  <2>4. h.iface \in Iface /\ h.dir \in {"in", "out"} /\ dep \in Deployments
        /\ NodeOf[h.iface] \in Node
    BY Zenon, <2>1, InterceptAssumption DEF Hop, Dir, TypeOK
  <2>5. /\ ~o.xdp /\ h.iface \in o.iface /\ o.respond
        /\ p.frame.dst \in o.localIPs /\ AnswersFor(h.iface) = o.localIPs
    BY Zenon, <2>2, <2>4, StaticFacts DEF DropFacts
  <2>6. h.dir = "in"
    <3>1. p.at \in DOMAIN p.hops /\ h = p.hops[p.at] /\ p.frame.dst \in o.localIPs
      BY Zenon, <2>1, <2>5 DEF Placed, HopOf
    <3>2. h.dir # "out"
      BY Zenon, <2>3, <3>1 DEF PlainJourney
    <3> QED
      BY Zenon, <2>4, <3>2
  <2>7. (o.hmac => p.frame.signed) /\ ~(p.frame.proto = "udp" /\ p.frame.vxport)
    BY Zenon, <2>3, <2>4 DEF AcceptedProbe, OptsOf
  <2>8. Covered(p)
    BY Zenon, <2>5, <2>6, <2>7 DEF Covered, ResponderOf, AuthOK
  <2> QED
    BY Zenon, <2>1, <2>8 DEF CoveredDropIsAnswered
<1> QED
  BY <1>1, SafeInvariant, FateInvariant, CoveredDropsAnswered, PTL

\* A static responder answers only where the program beside it drops.
LEMMA StaticAnswerDrops ==
    ASSUME StaticAgents, PlainJourney, TypeOK, 1 \in DOMAIN pkts,
           NEW n \in DOMAIN pkts[1].hops, WillReply(<<1, n>>)
    PROVE  /\ TcAt(pkts[1].hops[n]) /\ MatchAt(pkts[1], n)
           /\ DropAt(pkts[1], n, pkts[1].hops[n].tunnel)
<1> DEFINE p == pkts[1]
           h == p.hops[n]
           o == OptsOf(h.iface)
           r == ResponderOf(h.iface)
<1>1. p \in Placed
  BY Zenon, SetupType
<1>2. h \in Hop
  BY <1>1, ElementOfSeq DEF Placed, Packet
<1>3. h.iface \in Iface /\ h.dir \in {"in", "out"}
  BY Zenon, <1>2 DEF Hop, Dir
<1>4. ~h.encap /\ h.tunnel = 0
  BY Zenon DEF PlainJourney
<1>5. Replies(p.frame, h, r)
  BY Zenon DEF WillReply
<1>6. BuildReply(p.frame, r) /\ r.mode # "vxlan"
  BY Zenon, <1>4, <1>5 DEF Replies, HandleVXLAN, HandleRegular
<1>7. r.mode = IfType(o) /\ r.ips = AnswersFor(h.iface) /\ r.tcpRespond = o.tcpRespond
  BY Zenon DEF ResponderOf
<1>8. /\ o \in Opts /\ Attached(h.iface) /\ HasTC(h.iface, h.dir) /\ DevEntry(h.iface) = {}
      /\ o.respond /\ p.frame.dst \in LocalIps(NodeOf[h.iface])
  <2>1. p.frame.dst \in AnswersFor(h.iface)
    BY Zenon, <1>6, <1>7 DEF BuildReply
  <2>2. /\ o \in Opts /\ HasTC(h.iface, h.dir) /\ DevEntry(h.iface) = {}
        /\ Attached(h.iface) <=> h.iface \in o.iface
        /\ LocalIps(NodeOf[h.iface]) = o.localIPs
        /\ \A a \in AnswersFor(h.iface) : o.respond /\ h.iface \in o.iface /\ a \in o.localIPs
    BY Zenon, <1>3, StaticFacts
  <2> QED
    BY Zenon, <2>1, <2>2
<1>9. /\ p.frame.marked /\ p.frame.magic /\ p.frame.need /\ ~p.frame.deliver
      /\ p.frame.proto = "tcp" => o.tcpRespond
  BY Zenon, <1>6, <1>7 DEF BuildReply, BuildReplyL4, BuildTCPReply, Gate
<1>10. IfType(o) \in {"regular", "auto"}
  <2>1. IfType(o) \in Mode
    BY Zenon, <1>8 DEF IfType, Opts, Mode
  <2> QED
    BY Zenon, <1>6, <1>7, <2>1 DEF Mode
<1>11. MatchAt(p, n)
  BY Zenon, <1>4, <1>9, <1>10 DEF MatchAt, Matched, ParseRegular, ParseL3, ParseL4AndMeta
<1>12. ObsType(h, DevEntry(h.iface), h.tunnel) = "REGULAR"
  BY Zenon, <1>4, <1>8 DEF ObsType
<1>13. DropAt(p, n, h.tunnel)
  BY Zenon, <1>8, <1>9, <1>12 DEF DropAt, DoDrop
<1> QED
  BY Zenon, <1>8, <1>11, <1>13 DEF TcAt

\* "no double reply": with static agents a probe that meets no overlay is not
\* answered twice, and when an agent answered it does not reach the destination's own
\* stack (the drop in handle comes before the stack; every answer has its drop).
THEOREM StaticNoDoubleReply == Spec => []NoDoubleReply
<1>1. SafeInv /\ FateInv /\ RepliesAreQuiet => NoDoubleReply
  <2> SUFFICES ASSUME SafeInv, FateInv, TypeOK, RepliesAreQuiet, StaticAgents, PlainJourney
               PROVE  NoDoubleReply
    BY Zenon DEF NoDoubleReply, FateInv
  <2>1. ASSUME NEW c \in answered
        PROVE  /\ c[1] = 1 /\ 1 \in DOMAIN pkts
               /\ c[2] = pkts[1].at /\ pkts[1].stage # "done" /\ c = <<c[1], c[2]>>
    <3>1. c[1] = 1 /\ 1 \in DOMAIN pkts /\ c[2] \in 1..pkts[1].at /\ WillReply(c)
      BY Zenon DEF RepliesAreQuiet, TypeOK, SafeInv, AnsweredGated
    <3>2. c = <<1, c[2]>>
      <4>1. c \in Nat \X Nat
        BY Zenon DEF TypeOK
      <4>2. c = <<c[1], c[2]>>
        BY <4>1
      <4> QED
        BY Zenon, <3>1, <4>2
    <3>3. c[2] \in DOMAIN pkts[1].hops /\ pkts[1].at \in Nat
      BY <3>1, SetupType, LenProperties DEF Placed, Packet
    <3>4. WillReply(<<1, c[2]>>)
      BY Zenon, <3>1, <3>2
    <3>5. /\ TcAt(pkts[1].hops[c[2]]) /\ MatchAt(pkts[1], c[2])
          /\ DropAt(pkts[1], c[2], pkts[1].hops[c[2]].tunnel)
      BY Zenon, <3>1, <3>3, <3>4, StaticAnswerDrops
    <3>6. TcPassed(pkts[1], c[2]) => c[2] = pkts[1].at /\ pkts[1].stage = "dropped"
      BY Zenon, <3>1, <3>5 DEF FateInv, HooksJudge, Judged
    <3>7. pkts[1].stage # "done"
      BY Zenon, <3>6 DEF TcPassed
    <3>8. ~(c[2] < pkts[1].at)
      BY <3>3, <3>6 DEF TcPassed
    <3>9. c[2] = pkts[1].at
      BY <3>1, <3>3, <3>8
    <3> QED
      BY Zenon, <3>1, <3>2, <3>7, <3>9
  <2> QED
    BY Zenon, <2>1 DEF NoDoubleReply
<1> QED
  BY <1>1, SafeInvariant, FateInvariant, RepliesStayQuiet, PTL

\* What holds of "never on a transit or source hop": agents that are given only
\* addresses of their own node drop a packet on no other node than its destination's
\* (do_drop consults the node's local_ips).  The sender may live on that node too.
THEOREM DropsAtDestination == Spec => []DropsAtHome
<1>1. FateInv => DropsAtHome
  <2> SUFFICES ASSUME FateInv, TypeOK, AddressesAtHome, NEW k \in DOMAIN pkts, Dropped(k)
               PROVE  LET dst == pkts[k].frame.dst IN
                      dst \in DOMAIN Home /\ Home[dst] = NodeOf[HopOf(pkts[k]).iface]
    BY Zenon DEF DropsAtHome, FateInv
  <2> DEFINE p == pkts[k]
             n == NodeOf[HopOf(p).iface]
  <2>1. p \in Placed /\ HopOf(p) \in Hop
    BY Zenon, SetupType
  <2>2. p.frame.dst \in LocalIps(n)
    BY Zenon DEF FateInv, DropsLocal
  <2>3. n \in Node
    BY Zenon, <2>1, InterceptAssumption DEF Hop
  <2>4. ASSUME NEW t \in Tap, NodeOf[t] = n, NEW a \in AnswersFor(t)
        PROVE  a \in dep.opts[n].localIPs \cup dep.tapIPs[t]
    BY Zenon, <2>4 DEF AnswersFor, OptsOf
  <2>5. \A a \in LocalIps(n) : a \in DOMAIN Home /\ Home[a] = n
    <3> HIDE DEF n
    <3> SUFFICES ASSUME NEW a \in LocalIps(n) PROVE a \in DOMAIN Home /\ Home[a] = n
      BY Zenon
    <3>1. CASE a \in dep.opts[n].localIPs
      BY Zenon, <2>3, <3>1 DEF AddressesAtHome
    <3>2. ASSUME NEW t \in Tap, NodeOf[t] = n, a \in dep.tapIPs[t]
          PROVE  a \in DOMAIN Home /\ Home[a] = n
      <4>1. a \in UNION {dep.tapIPs[x] : x \in {x \in Tap : NodeOf[x] = n}}
        BY <3>2
      <4> QED
        BY Zenon, <2>3, <4>1 DEF AddressesAtHome
    <3>3. a \in dep.opts[n].localIPs \/ \E t \in Tap : NodeOf[t] = n /\ a \in AnswersFor(t)
      BY Zenon DEF LocalIps
    <3> QED
      BY Zenon, <2>4, <3>1, <3>2, <3>3
  <2> QED
    BY Zenon, <2>2, <2>5
<1> QED
  BY <1>1, FateInvariant, PTL
-----------------------------------------------------------------------------
(* The VNI of the records.                                                 *)

RoutesOf(v) ==
    \A k \in DOMAIN pkts : \A n \in DOMAIN pkts[k].hops : TenantHop(v, pkts[k].hops[n])
RecordsOf(v) == \A m \in DOMAIN obs : obs[m].type = "VXLAN" => obs[m].vni = v
TaggedInv == \A v \in Vni \ {0} : TenantJourney(v) => RoutesOf(v) /\ RecordsOf(v)

\* Whose traffic a hop carries does not change: the deployment is fixed.
LEMMA TenantFixed ==
    ASSUME dep' = dep
    PROVE  \A v, h : TenantHop(v, h)' <=> TenantHop(v, h)
<1>1. \A i : OptsOf(i)' = OptsOf(i)
  BY Zenon DEF OptsOf
<1> QED
  BY Zenon, <1>1 DEF TenantHop

\* A reply travels hops of its probe, in the probe's direction or the other one.
LEMMA ReplyRoute ==
    ASSUME NEW v, NEW p \in Placed, NEW n \in 1..p.at,
           \A x \in DOMAIN p.hops : TenantHop(v, p.hops[x])
    PROVE  \A m \in DOMAIN ReplyHops(p, n) : TenantHop(v, ReplyHops(p, n)[m])
<1>1. /\ p.hops \in Seq(Hop) /\ Len(p.hops) \in Nat /\ DOMAIN p.hops = 1..Len(p.hops)
      /\ p.at \in 1..Len(p.hops)
  BY Zenon, LenProperties DEF Placed, Packet
<1>2. n \in 1..Len(p.hops) /\ n \in Nat
  BY <1>1
<1>3. ASSUME NEW h \in Hop, TenantHop(v, h) PROVE TenantHop(v, Flip(h))
  <2>1. /\ Flip(h).encap = h.encap /\ Flip(h).wire = h.wire /\ Flip(h).tunnel = h.tunnel
        /\ Flip(h).iface = h.iface
    BY Zenon DEF Flip, Hop
  <2> QED
    BY Zenon, <1>3, <2>1 DEF TenantHop
<1>4. \A x \in 1..Len(p.hops) : p.hops[x] \in Hop /\ TenantHop(v, p.hops[x])
  BY Zenon, <1>1, ElementOfSeq
<1>5. CASE p.hops[n].dir = "in"
  <2>1. ReplyHops(p, n) = [m \in 1..n |-> Flip(p.hops[n + 1 - m])]
    BY Zenon, <1>5 DEF ReplyHops
  <2>2. \A m \in 1..n : n + 1 - m \in 1..Len(p.hops)
    BY <1>2
  <2>3. \A m \in 1..n : TenantHop(v, Flip(p.hops[n + 1 - m]))
    BY Zenon, <1>3, <1>4, <2>2
  <2> QED
    BY Zenon, <2>1, <2>3
<1>6. CASE p.hops[n].dir # "in"
  <2>1. ReplyHops(p, n) = SubSeq(p.hops, n, Len(p.hops))
    BY Zenon, <1>6 DEF ReplyHops
  <2>2. /\ DOMAIN SubSeq(p.hops, n, Len(p.hops)) = 1..(Len(p.hops) - n + 1)
        /\ \A m \in 1..(Len(p.hops) - n + 1) : SubSeq(p.hops, n, Len(p.hops))[m] = p.hops[n + m - 1]
    BY <1>1, <1>2, SubSeqProperties
  <2>3. \A m \in 1..(Len(p.hops) - n + 1) : n + m - 1 \in 1..Len(p.hops)
    BY <1>1, <1>2
  <2> QED
    BY Zenon, <1>4, <2>1, <2>2, <2>3
<1> QED
  BY Zenon, <1>5, <1>6

\* Wherever the VNI of a VXLAN record comes from, it is the tenant's (the device
\* enrichment of handle).
LEMMA TenantVni ==
    ASSUME NEW v \in Vni \ {0}, TypeOK, NEW k \in DOMAIN pkts, NEW q, NEW r, Recorded(k, q, r),
           TenantHop(v, HopOf(pkts[k])), r.type = "VXLAN"
    PROVE  r.vni = v
<1> DEFINE h == HopOf(pkts[k])
           o == OptsOf(h.iface)
           dev == DevEntry(h.iface)
           key == KeyAt(pkts[k])
<1>1. r.vni = ObsVni(h, dev, key) /\ ObsType(h, dev, key) = "VXLAN"
  BY Zenon DEF Recorded
<1>2. v # 0
  OBVIOUS
<1>3. CASE h.encap
  BY Zenon, <1>1, <1>2, <1>3 DEF ObsVni, TenantHop
<1>4. CASE ~h.encap /\ dev = {}
  <2>1. ObsVni(h, dev, key) = key /\ key # 0
    BY Zenon, <1>1, <1>4 DEF ObsVni, ObsType
  <2>2. key = v
    BY Zenon, <2>1 DEF KeyAt, TenantHop
  <2> QED
    BY Zenon, <1>1, <2>1, <2>2
<1>5. CASE ~h.encap /\ dev # {}
  <2>1. o.watchVXLAN /\ h.iface \in VxlanDev /\ dev = {DevVni[h.iface]}
    BY Zenon, <1>5 DEF DevEntry
  <2>2. \/ DevVni[h.iface] = v
        \/ DevVni[h.iface] = 0 /\ h.tunnel = v /\ ~o.xdp
    BY Zenon, <1>5, <2>1 DEF TenantHop
  <2>3. ObsVni(h, dev, key) = IF DevVni[h.iface] = 0 THEN key ELSE DevVni[h.iface]
    <3>1. (CHOOSE x \in dev : TRUE) = DevVni[h.iface]
      BY Zenon, <2>1
    <3> QED
      BY Zenon, <1>5, <3>1 DEF ObsVni
  <2>4. ~o.xdp => key = h.tunnel
    BY Zenon DEF Recorded, KeyAt, HasXDP
  <2> QED
    BY <1>1, <1>2, <2>2, <2>3, <2>4
<1> QED
  BY Zenon, <1>3, <1>4, <1>5

\* One more packet on a route of the tenant.
LEMMA AppendTagged ==
    ASSUME NEW v, TypeOK, RoutesOf(v), RecordsOf(v), NEW q \in Placed, pkts' = Append(pkts, q),
           dep' = dep, obs' = obs, sock' \subseteq sock, answered' \subseteq answered \cup sock,
           \A n \in DOMAIN q.hops : TenantHop(v, q.hops[n])
    PROVE  RoutesOf(v)' /\ RecordsOf(v)'
<1>1. /\ DOMAIN pkts' = DOMAIN pkts \cup {Len(pkts) + 1}
      /\ pkts'[Len(pkts) + 1] = q
      /\ \A m \in DOMAIN pkts : pkts'[m] = pkts[m]
  BY Zenon, AppendType
<1>2. \A k \in DOMAIN pkts' : \A n \in DOMAIN pkts'[k].hops : TenantHop(v, pkts'[k].hops[n])
  <2>1. \A k \in DOMAIN pkts : \A n \in DOMAIN pkts[k].hops : TenantHop(v, pkts[k].hops[n])
    BY Zenon DEF RoutesOf
  <2>2. ASSUME NEW k \in DOMAIN pkts' PROVE pkts'[k] = q \/ (k \in DOMAIN pkts /\ pkts'[k] = pkts[k])
    BY Zenon, <1>1
  <2> QED
    BY Zenon, <2>1, <2>2
<1>3. RoutesOf(v)'
  BY Zenon, <1>2, TenantFixed DEF RoutesOf
<1> QED
  BY Zenon, <1>3 DEF RecordsOf

\* On a journey of one tenant every record typed VXLAN, of the probe or of a reply,
\* carries the tenant's VNI, whether handle read it off the wire, from iface_vni or
\* from the tunnel key.
THEOREM TenantVniConsistent == Spec => []VniConsistent
<1>1. Init => TaggedInv
  BY EmptySeq DEF Init, TaggedInv, TenantJourney
<1>2. FateInv /\ TaggedInv /\ [Next]_vars => TaggedInv'
  <2> SUFFICES ASSUME FateInv, TaggedInv, [Next]_vars, NEW v \in Vni \ {0}, TenantJourney(v)'
               PROVE  RoutesOf(v)' /\ RecordsOf(v)'
    BY Zenon DEF TaggedInv
  <2>0. TypeOK
    BY Zenon DEF FateInv
  <2>1. ASSUME NEW f \in Probes, NEW j \in Journeys, Send(f, j) PROVE RoutesOf(v)' /\ RecordsOf(v)'
    <3> DEFINE q == NewPacket(f, j.hops, j.end)
    <3>1. pkts = <<>> /\ pkts' = <<q>> /\ obs' = obs
      BY Zenon, <2>1 DEF Send
    <3> HIDE DEF q
    <3>2. DOMAIN pkts = {} /\ DOMAIN pkts' = {1}
      BY <3>1
    <3>3. DOMAIN obs = {}
      BY Zenon, <3>2 DEF FateInv, RecordsPlaced
    <3>4. RoutesOf(v)'
      BY Zenon, <3>2 DEF RoutesOf, TenantJourney
    <3> QED
      BY Zenon, <3>1, <3>3, <3>4 DEF RecordsOf
  <2>2. ASSUME NEW k \in DOMAIN pkts, Step(k) PROVE RoutesOf(v)' /\ RecordsOf(v)'
    <3>1. PICK q \in Placed : Fate(k, q)
      BY Zenon, <2>0, <2>2, StepFate
    <3>2. /\ DOMAIN pkts' = DOMAIN pkts /\ dep' = dep
          /\ \A m \in DOMAIN pkts : pkts'[m].hops = pkts[m].hops
      BY Zenon, <2>0, <3>1, FateBasics DEF Fate
    <3>3. \A m \in DOMAIN pkts :
              (\A n \in DOMAIN pkts[m].hops : TenantHop(v, pkts[m].hops[n]))'
              <=> \A n \in DOMAIN pkts[m].hops : TenantHop(v, pkts[m].hops[n])
      BY Zenon, <3>2, TenantFixed
    <3>4. TenantJourney(v)
      BY Zenon, <3>2, <3>3 DEF TenantJourney
    <3>5. RoutesOf(v) /\ RecordsOf(v)
      BY Zenon, <3>4 DEF TaggedInv
    <3>6. RoutesOf(v)'
      BY Zenon, <3>2, <3>3, <3>5 DEF RoutesOf
    <3>7. TenantHop(v, HopOf(pkts[k]))
      <4>1. pkts[k].at \in DOMAIN pkts[k].hops
        BY Zenon, <2>0 DEF TypeOK
      <4> QED
        BY Zenon, <3>5, <4>1 DEF RoutesOf, HopOf
    <3>8. /\ \A n \in DOMAIN obs : n \in DOMAIN obs' /\ obs'[n] = obs[n]
          /\ \A n \in DOMAIN obs' : n \notin DOMAIN obs => Recorded(k, q, obs'[n])
      BY Zenon, <2>0, <3>1, FateRecords
    <3>9. ASSUME NEW n \in DOMAIN obs', obs'[n].type = "VXLAN" PROVE obs'[n].vni = v
      <4>1. CASE n \in DOMAIN obs
        BY Zenon, <3>5, <3>8, <3>9, <4>1 DEF RecordsOf
      <4>2. CASE n \notin DOMAIN obs
        BY Zenon, <2>0, <3>7, <3>8, <3>9, <4>2, TenantVni
      <4> QED
        BY Zenon, <4>1, <4>2
    <3> QED
      BY Zenon, <3>6, <3>9 DEF RecordsOf
  <2>3. ASSUME NEW c \in sock, Respond(c) PROVE RoutesOf(v)' /\ RecordsOf(v)'
    <3> DEFINE p == pkts[c[1]]
    <3>1. RespondOutcome(c)
      BY Zenon, <2>0, <2>3, RespondMoves
    <3>2. dep' = dep /\ obs' = obs
      BY Zenon, <2>3 DEF Respond
    <3>3. c[1] \in DOMAIN pkts /\ c[2] \in 1..p.at /\ p \in Placed /\ pkts \in Seq(Packet)
      BY Zenon, <2>0, SetupType DEF TypeOK
    <3>4. 1 \in DOMAIN pkts
      BY <3>3, LenProperties
    <3>5. pkts'[1] = pkts[1]
      <4>1. \A q \in Placed : pkts' = Append(pkts, q) => \A m \in DOMAIN pkts : pkts'[m] = pkts[m]
        BY <3>3, AppendProperties, LenProperties DEF Placed
      <4> QED
        BY Zenon, <3>1, <3>4, <4>1 DEF RespondOutcome
    <3>6. TenantJourney(v)
      BY Zenon, <3>2, <3>4, <3>5, TenantFixed DEF TenantJourney
    <3>7. RoutesOf(v) /\ RecordsOf(v)
      BY Zenon, <3>6 DEF TaggedInv
    <3>8. CASE pkts' = pkts
      BY Zenon, <3>2, <3>7, <3>8, TenantFixed DEF RoutesOf, RecordsOf
    <3>9. ASSUME NEW q \in Placed, pkts' = Append(pkts, q) PROVE RoutesOf(v)' /\ RecordsOf(v)'
      <4>1. PICK f, e : pkts' = Append(pkts, NewPacket(f, ReplyHops(p, c[2]), e)) \/ pkts' = pkts
        BY Zenon, <2>3 DEF Respond
      <4>2. /\ Len(pkts') = Len(pkts) + 1 /\ pkts'[Len(pkts) + 1] = q /\ Len(pkts) \in Nat
        <5>1. pkts \in Seq(Packet) /\ q \in Packet
          BY Zenon, <2>0 DEF TypeOK, Placed
        <5> QED
          BY <3>9, <5>1, AppendProperties, LenProperties
      <4>3. pkts' # pkts
        BY <4>2
      <4>4. q = NewPacket(f, ReplyHops(p, c[2]), e)
        <5> DEFINE x == NewPacket(f, ReplyHops(p, c[2]), e)
        <5>1. pkts' = Append(pkts, x)
          BY Zenon, <4>1, <4>3
        <5> HIDE DEF x
        <5>2. pkts'[Len(pkts) + 1] = x
          BY <2>0, <4>2, <5>1 DEF TypeOK
        <5> QED
          BY Zenon, <4>2, <5>2 DEF x
      <4>5. q.hops = ReplyHops(p, c[2])
        BY Zenon, <4>4 DEF NewPacket
      <4>6. \A n \in DOMAIN p.hops : TenantHop(v, p.hops[n])
        BY Zenon, <3>3, <3>7 DEF RoutesOf
      <4>7. \A n \in DOMAIN q.hops : TenantHop(v, q.hops[n])
        BY Zenon, <3>3, <4>5, <4>6, ReplyRoute
      <4>8. sock' \subseteq sock /\ answered' \subseteq answered \cup sock
        BY Zenon, <3>1 DEF RespondOutcome
      <4> QED
        BY Zenon, <2>0, <3>2, <3>7, <3>9, <4>7, <4>8, AppendTagged
    <3> QED
      BY Zenon, <3>1, <3>8, <3>9 DEF RespondOutcome
  <2>4. CASE UNCHANGED vars
    BY Zenon, <2>4, TenantFixed DEF vars, TaggedInv, TenantJourney, RoutesOf, RecordsOf
  <2> QED
    BY Zenon, <2>1, <2>2, <2>3, <2>4 DEF Next
<1>3. TaggedInv => VniConsistent
  BY Zenon DEF TaggedInv, RecordsOf, VniConsistent
<1> QED
  BY <1>1, <1>2, <1>3, FateInvariant, PTL DEF Spec
=============================================================================
