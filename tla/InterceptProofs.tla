-------------------------- MODULE InterceptProofs ---------------------------
(***************************************************************************)
(* What holds of Intercept for every topology, deployment and probe.       *)
(***************************************************************************)
EXTENDS Intercept, SequenceTheorems, TLAPS

\* A packet between two steps: its position is one of its hops.
Placed == {p \in Packet : p.at \in DOMAIN p.hops}

\* What the program knew of a packet it dropped.
DropFacts(p) ==
    LET f == p.frame
        o == OptsOf(HopOf(p).iface)
    IN  /\ f.need /\ ~f.deliver /\ f.marked /\ f.magic
        /\ ~HopOf(p).encap /\ IfType(o) # "vxlan"
        /\ o.respond
        /\ f.proto = "tcp" => o.tcpRespond

\* The packet sockets of hop n have been offered packet p.
PastSock(p, n) ==
    LET h == HopOf(p) IN
    \/ n < p.at
    \/ p.stage = "done"
    \/ h.dir = "in" /\ p.stage = "tc"
    \/ h.dir = "in" /\ p.stage = "dropped" /\ ~OptsOf(h.iface).xdp

\* A packet that has just been sent.
Fresh(q) == q.at = 1 /\ q.stage = FirstStage(HopOf(q))

\* A step takes packet p to q.
Moved(p, q) ==
    /\ q.frame = p.frame /\ q.hops = p.hops /\ q.end = p.end
    /\ p.at <= q.at
    /\ q.stage = "dropped" => q.at = p.at /\ DropFacts(p)

-----------------------------------------------------------------------------

\* The first stage of a hop is a stage (FirstStage).
LEMMA FirstStageType ==
    ASSUME NEW h \in Hop
    PROVE  FirstStage(h) \in {"xdp", "tc"} /\ FirstStage(h) \in Stage
BY Zenon DEF FirstStage, Stage

\* A packet put on a non-empty route is well placed (NewPacket).
LEMMA NewPacketType ==
    ASSUME NEW f \in Frame, NEW hs \in Seq(Hop), hs # <<>>, NEW e \in End
    PROVE  /\ NewPacket(f, hs, e) \in Placed
           /\ NewPacket(f, hs, e).frame = f
           /\ Fresh(NewPacket(f, hs, e))
<1>1. Len(hs) \in Nat /\ Len(hs) > 0 /\ 1 \in DOMAIN hs
  BY EmptySeq, LenProperties
<1>2. hs[1] \in Hop
  BY <1>1, ElementOfSeq
<1>3. FirstStage(hs[1]) \in {"xdp", "tc"} /\ FirstStage(hs[1]) \in Stage
  BY Zenon, <1>2, FirstStageType
<1> QED
  BY Zenon, <1>1, <1>3 DEF NewPacket, Placed, Packet, Fresh, HopOf

\* Moving a packet to its next hop keeps it well placed (Advance).
LEMMA AdvanceType ==
    ASSUME NEW p \in Placed
    PROVE  /\ Advance(p) \in Placed
           /\ Moved(p, Advance(p))
           /\ Advance(p).stage \in {"done", "xdp", "tc"}
           /\ Advance(p).stage = "done" => Advance(p).at = p.at
           /\ Advance(p).stage # "done" => Advance(p).at = p.at + 1
           /\ Advance(p).stage = "tc" => HopOf(Advance(p)).dir # "in"
<1>1. p.hops \in Seq(Hop) /\ p.at \in 1..Len(p.hops) /\ Len(p.hops) \in Nat /\ p \in Packet
      /\ p.at \in Nat
  BY Zenon, LenProperties DEF Placed, Packet
<1>2. CASE p.at = Len(p.hops)
  BY <1>1, <1>2 DEF Advance, Placed, Packet, Stage, Moved
<1>3. CASE p.at # Len(p.hops)
  <2>1. p.at + 1 \in DOMAIN p.hops /\ p.hops[p.at + 1] \in Hop
    BY <1>1, <1>3, ElementOfSeq
  <2>2. FirstStage(p.hops[p.at + 1]) \in {"xdp", "tc"} /\ FirstStage(p.hops[p.at + 1]) \in Stage
    BY Zenon, <2>1, FirstStageType
  <2>3. FirstStage(p.hops[p.at + 1]) = "tc" => p.hops[p.at + 1].dir # "in"
    BY Zenon DEF FirstStage
  <2> DEFINE q == [p EXCEPT !.at = p.at + 1, !.stage = FirstStage(p.hops[p.at + 1])]
  <2>4. Advance(p) = q
    BY Zenon, <1>3 DEF Advance
  <2>5. q \in Packet /\ q.at = p.at + 1 /\ q.hops = p.hops /\ q.frame = p.frame
        /\ q.end = p.end /\ q.stage = FirstStage(p.hops[p.at + 1])
    <3>1. \A st \in Stage, n \in Nat :
            LET r == [p EXCEPT !.at = n, !.stage = st]
            IN  r \in Packet /\ r.at = n /\ r.hops = p.hops /\ r.frame = p.frame
                /\ r.end = p.end /\ r.stage = st
      BY Zenon, <1>1 DEF Packet
    <3>2. p.at + 1 \in Nat
      BY <1>1
    <3> QED
      BY Zenon, <2>2, <3>1, <3>2
  <2> HIDE DEF q
  <2> QED
    BY <1>1, <2>1, <2>2, <2>3, <2>4, <2>5 DEF Placed, Moved, HopOf
<1> QED
  BY Zenon, <1>2, <1>3

\* Changing the stage of a packet changes nothing else.
LEMMA StageType ==
    ASSUME NEW p \in Placed, NEW st \in Stage
    PROVE  LET q == [p EXCEPT !.stage = st]
           IN  /\ q \in Placed /\ q.stage = st /\ q.at = p.at
               /\ q.frame = p.frame /\ q.hops = p.hops /\ q.end = p.end
BY Zenon DEF Placed, Packet

\* Current hops and agent options have their types.
LEMMA SetupType ==
    ASSUME TypeOK, NEW k \in DOMAIN pkts
    PROVE  /\ pkts[k] \in Placed
           /\ HopOf(pkts[k]) \in Hop
           /\ OptsOf(HopOf(pkts[k]).iface) \in Opts
<1>1. pkts[k] \in Placed
  BY ElementOfSeq DEF TypeOK, Placed
<1>2. HopOf(pkts[k]) \in Hop
  BY <1>1, ElementOfSeq DEF Placed, Packet, HopOf
<1>3. OptsOf(HopOf(pkts[k]).iface) \in Opts
  BY Zenon, <1>2, InterceptAssumption DEF TypeOK, Hop, OptsOf, Deployment
<1> QED
  BY Zenon, <1>1, <1>2, <1>3

\* The VNI of an observation is one of the wire's, the device's or the key's.
LEMMA ObsVniType ==
    ASSUME NEW h \in Hop, NEW key \in Vni
    PROVE  ObsVni(h, DevEntry(h.iface), key) \in Vni
<1>1. CASE DevEntry(h.iface) = {}
  BY Zenon, <1>1, VniAssumption DEF ObsVni, Hop
<1>2. CASE DevEntry(h.iface) # {}
  <2>1. h.iface \in VxlanDev /\ DevEntry(h.iface) = {DevVni[h.iface]}
    BY Zenon, <1>2 DEF DevEntry
  <2>2. DevVni[h.iface] \in Vni
    BY Zenon, <2>1, InterceptAssumption
  <2>3. (CHOOSE v \in DevEntry(h.iface) : TRUE) \in Vni
    BY Zenon, <2>1, <2>2
  <2> QED
    BY Zenon, <2>3, VniAssumption DEF ObsVni, Hop
<1> QED
  BY Zenon, <1>1, <1>2

\* The record of a packet at a hook is an observation, and a dropped packet
\* passed every test of do_drop (handle, traceflow_xdp).
LEMMA HandleMoves ==
    ASSUME TypeOK, NEW k \in DOMAIN pkts, NEW hook \in {"xdp", "tc"}, NEW key \in Vni,
           NEW next \in Placed, Moved(pkts[k], next), next.stage # "dropped",
           Handle(k, hook, key, next)
    PROVE  /\ obs' \in Seq(Observation)
           /\ \/ pkts' = [pkts EXCEPT ![k] = next]
              \/ /\ pkts' = [pkts EXCEPT ![k] = [pkts[k] EXCEPT !.stage = "dropped"]]
                 /\ DropFacts(pkts[k])
<1> DEFINE p == pkts[k]
           h == HopOf(p)
           o == OptsOf(h.iface)
           type == ObsType(h, DevEntry(h.iface), key)
           drop == DoDrop(p.frame, type, LocalIps(NodeOf[h.iface]), o.respond, o.tcpRespond)
           vni == ObsVni(h, DevEntry(h.iface), key)
<1>1. p \in Placed /\ h \in Hop /\ o \in Opts
  BY Zenon, SetupType
<1>2. vni \in Vni
  BY Zenon, <1>1, ObsVniType
<1>3. k \in Nat /\ p.at \in Nat /\ obs \in Seq(Observation)
  BY <1>1, LenProperties DEF TypeOK, Placed, Packet
<1>4. CASE Matched(p.frame, h, IfType(o))
  <2>1. PICK full \in BOOLEAN :
           obs' = Append(obs, [pkt |-> k, hop |-> p.at, hook |-> hook, vni |-> vni,
                               type |-> type, action |-> ObsAction(drop), lost |-> full])
    BY Zenon, <1>4 DEF Handle
  <2>2. type \in {"VXLAN", "REGULAR"} /\ ObsAction(drop) \in {"FORWARDED", "INTERCEPTED"}
    BY Zenon DEF ObsType, ObsAction
  <2>3. [pkt |-> k, hop |-> p.at, hook |-> hook, vni |-> vni, type |-> type,
         action |-> ObsAction(drop), lost |-> full] \in Observation
    <3> HIDE DEF type, drop, vni, p
    <3> QED BY <1>2, <1>3, <2>2 DEF Observation
  <2>4. obs' \in Seq(Observation)
    BY Zenon, <1>3, <2>1, <2>3, AppendProperties
  <2>5. pkts' = [pkts EXCEPT ![k] = IF drop THEN [p EXCEPT !.stage = "dropped"] ELSE next]
    BY Zenon, <1>4 DEF Handle
  <2>6. p.frame.marked /\ p.frame.magic
    BY Zenon, <1>4 DEF Matched, ParseVxlan, ParseRegular, ParseL3, ParseL4AndMeta
  <2>7. drop => DropFacts(p)
    <3>1. drop => ~h.encap
      BY Zenon DEF DoDrop, ObsType
    <3>2. ~h.encap => IfType(o) # "vxlan"
      BY Zenon, <1>4 DEF Matched, ParseVxlan
    <3> QED
      BY Zenon, <2>6, <3>1, <3>2 DEF DoDrop, DropFacts
  <2> QED
    BY Zenon, <2>4, <2>5, <2>7
<1>5. CASE ~Matched(p.frame, h, IfType(o))
  BY Zenon, <1>3, <1>5 DEF Handle
<1> QED
  BY Zenon, <1>4, <1>5

\* Taking packet k from p to q offers it to the sockets of every hop it passes.
Offered(k, p, q) ==
    \A n \in 1..q.at : PastSock(q, n) =>
        \/ n \in 1..p.at /\ PastSock(p, n)
        \/ n = p.at /\ (<<k, n>> \in sock' \/ AnswersFor(HopOf(p).iface) = {} \/ k > 1)

\* The outcome of a hook for the packet at it: one packet moves.
StepOutcome(k) ==
    /\ \E q \in Placed : /\ pkts' = [pkts EXCEPT ![k] = q]
                         /\ Moved(pkts[k], q)
                         /\ Offered(k, pkts[k], q)
    /\ obs' \in Seq(Observation)
    /\ sock \subseteq sock' /\ sock' \subseteq sock \cup {<<k, pkts[k].at>>}
    /\ dep' = dep /\ answered' = answered

\* The XDP program passes the packet on to the sockets or drops it.
LEMMA XdpHookOutcome ==
    ASSUME TypeOK, NEW k \in DOMAIN pkts, XdpHook(k)
    PROVE  StepOutcome(k)
<1> DEFINE p == pkts[k]
           next == [p EXCEPT !.stage = "sock"]
           gone == [p EXCEPT !.stage = "dropped"]
<1>1. p \in Placed /\ HopOf(p) \in Hop /\ p.at \in Nat /\ p.at >= 1
  BY SetupType, LenProperties DEF Placed, Packet
<1>2. /\ next \in Placed /\ next.stage = "sock" /\ next.at = p.at
      /\ next.frame = p.frame /\ next.hops = p.hops /\ next.end = p.end
  BY Zenon, <1>1, StageType DEF Stage
<1>3. /\ gone \in Placed /\ gone.stage = "dropped" /\ gone.at = p.at
      /\ gone.frame = p.frame /\ gone.hops = p.hops /\ gone.end = p.end
  BY Zenon, <1>1, StageType DEF Stage
<1>4. p.stage = "xdp" /\ dep' = dep /\ answered' = answered /\ sock' = sock
  BY Zenon DEF XdpHook
<1>5. Moved(p, next) /\ Offered(k, p, next)
  BY <1>1, <1>2 DEF Moved, Offered, PastSock
<1>6. DropFacts(p) => Moved(p, gone)
  BY <1>1, <1>3 DEF Moved
<1>7. HasXDP(HopOf(p).iface) => Offered(k, p, gone)
  BY Zenon, <1>1, <1>3 DEF Offered, PastSock, HasXDP, HopOf
<1>8. CASE Attached(HopOf(p).iface) /\ HasXDP(HopOf(p).iface)
  <2>1. Handle(k, "xdp", 0, next)
    BY Zenon, <1>8 DEF XdpHook
  <2>2. /\ obs' \in Seq(Observation)
        /\ \/ pkts' = [pkts EXCEPT ![k] = next]
           \/ pkts' = [pkts EXCEPT ![k] = gone] /\ DropFacts(p)
    <3>1. 0 \in Vni BY VniAssumption
    <3>2. next.stage # "dropped" BY <1>2
    <3> HIDE DEF next
    <3> QED BY <1>2, <1>5, <2>1, <3>1, <3>2, HandleMoves
  <2> HIDE DEF next, gone
  <2> QED
    BY Zenon, <1>2, <1>3, <1>4, <1>5, <1>6, <1>7, <1>8, <2>2 DEF StepOutcome
<1>9. CASE ~(Attached(HopOf(p).iface) /\ HasXDP(HopOf(p).iface))
  <2>1. pkts' = [pkts EXCEPT ![k] = next] /\ obs' = obs
    BY Zenon, <1>9 DEF XdpHook, Skip
  <2> HIDE DEF next, gone
  <2> QED
    BY Zenon, <1>2, <1>4, <1>5, <2>1 DEF StepOutcome, TypeOK
<1> QED
  BY Zenon, <1>8, <1>9

\* The TC programs pass the packet on or drop it.
LEMMA TcHookOutcome ==
    ASSUME TypeOK, NEW k \in DOMAIN pkts, TcHook(k)
    PROVE  StepOutcome(k)
<1> DEFINE p == pkts[k]
           h == HopOf(p)
           next == IF h.dir = "in" THEN Advance(p) ELSE [p EXCEPT !.stage = "sock"]
           gone == [p EXCEPT !.stage = "dropped"]
<1>1. p \in Placed /\ h \in Hop /\ p.at \in Nat /\ p.at >= 1
  BY SetupType, LenProperties DEF Placed, Packet
<1>2. p.stage = "tc" /\ dep' = dep /\ answered' = answered /\ sock' = sock
  BY Zenon DEF TcHook
<1>3. /\ gone \in Placed /\ gone.stage = "dropped" /\ gone.at = p.at
      /\ gone.frame = p.frame /\ gone.hops = p.hops /\ gone.end = p.end
  BY Zenon, <1>1, StageType DEF Stage
<1>4. /\ next \in Placed /\ next.stage # "dropped"
      /\ Moved(p, next) /\ Offered(k, p, next)
  <2>1. CASE h.dir = "in"
    <3>1. next = Advance(p)
      BY Zenon, <2>1
    <3>2. \A n \in 1..p.at : PastSock(p, n)
      BY Zenon, <1>2, <2>1 DEF PastSock
    <3>3. Offered(k, p, Advance(p))
      BY <1>1, <3>2, AdvanceType DEF Offered, PastSock
    <3> QED
      BY Zenon, <1>1, <3>1, <3>3, AdvanceType
  <2>2. CASE h.dir # "in"
    <3> DEFINE q == [p EXCEPT !.stage = "sock"]
    <3>1. next = q
      BY Zenon, <2>2
    <3>2. /\ q \in Placed /\ q.stage = "sock" /\ q.at = p.at
          /\ q.frame = p.frame /\ q.hops = p.hops /\ q.end = p.end
      BY Zenon, <1>1, StageType DEF Stage
    <3> HIDE DEF q
    <3> QED
      BY <1>1, <3>1, <3>2 DEF Moved, Offered, PastSock
  <2> QED
    BY Zenon, <2>1, <2>2
<1>5. DropFacts(p) => Moved(p, gone)
  BY <1>1, <1>3 DEF Moved
<1>6. Offered(k, p, gone)
  BY Zenon, <1>1, <1>2, <1>3 DEF Offered, PastSock, HopOf
<1>7. CASE Attached(h.iface) /\ HasTC(h.iface, h.dir)
  <2>1. Handle(k, "tc", h.tunnel, next)
    BY Zenon, <1>7 DEF TcHook
  <2>2. /\ obs' \in Seq(Observation)
        /\ \/ pkts' = [pkts EXCEPT ![k] = next]
           \/ pkts' = [pkts EXCEPT ![k] = gone] /\ DropFacts(p)
    <3>1. h.tunnel \in Vni BY <1>1 DEF Hop
    <3> HIDE DEF next
    <3> QED BY <1>4, <2>1, <3>1, HandleMoves
  <2> HIDE DEF next, gone
  <2> QED
    BY Zenon, <1>2, <1>3, <1>4, <1>5, <1>6, <2>2 DEF StepOutcome
<1>8. CASE ~(Attached(h.iface) /\ HasTC(h.iface, h.dir))
  <2>1. pkts' = [pkts EXCEPT ![k] = next] /\ obs' = obs
    BY Zenon, <1>8 DEF TcHook, Skip
  <2> HIDE DEF next, gone
  <2> QED
    BY Zenon, <1>2, <1>4, <2>1 DEF StepOutcome, TypeOK
<1> QED
  BY Zenon, <1>7, <1>8

\* The packet sockets pass every packet on.
LEMMA SockTapOutcome ==
    ASSUME TypeOK, NEW k \in DOMAIN pkts, SockTap(k)
    PROVE  StepOutcome(k)
<1> DEFINE p == pkts[k]
           h == HopOf(p)
           q == IF h.dir = "in" THEN [p EXCEPT !.stage = "tc"] ELSE Advance(p)
<1>1. p \in Placed /\ h \in Hop /\ p.at \in Nat /\ p.at >= 1
  BY SetupType, LenProperties DEF Placed, Packet
<1>2. /\ pkts' = [pkts EXCEPT ![k] = q]
      /\ dep' = dep /\ answered' = answered /\ obs' = obs
      /\ sock \subseteq sock' /\ sock' \subseteq sock \cup {<<k, p.at>>}
  BY Zenon DEF SockTap
<1>3. <<k, p.at>> \in sock' \/ AnswersFor(h.iface) = {} \/ k > 1
  BY Zenon DEF SockTap
<1>4. q \in Placed /\ Moved(p, q) /\ Offered(k, p, q)
  <2>1. CASE h.dir = "in"
    <3> DEFINE r == [p EXCEPT !.stage = "tc"]
    <3>1. q = r
      BY Zenon, <2>1
    <3>2. /\ r \in Placed /\ r.stage = "tc" /\ r.at = p.at
          /\ r.frame = p.frame /\ r.hops = p.hops /\ r.end = p.end
      BY Zenon, <1>1, StageType DEF Stage
    <3> HIDE DEF r
    <3> QED
      BY <1>1, <1>3, <3>1, <3>2 DEF Moved, Offered, PastSock
  <2>2. CASE h.dir # "in"
    <3>1. q = Advance(p)
      BY Zenon, <2>2
    <3>2. Offered(k, p, Advance(p))
      BY <1>1, <1>3, AdvanceType DEF Offered, PastSock
    <3> QED
      BY Zenon, <1>1, <3>1, <3>2, AdvanceType
  <2> QED
    BY Zenon, <2>1, <2>2
<1> HIDE DEF q
<1> QED
  BY Zenon, <1>2, <1>4 DEF StepOutcome, TypeOK

\* Any hook at all.
LEMMA StepMoves ==
    ASSUME TypeOK, NEW k \in DOMAIN pkts, Step(k)
    PROVE  StepOutcome(k)
BY Zenon, XdpHookOutcome, TcHookOutcome, SockTapOutcome DEF Step

-----------------------------------------------------------------------------
(* Replies.                                                                *)

\* Whatever the mode, a reply is sent only to a probe that passes the gate.
LEMMA RepliesGate ==
    ASSUME NEW f, NEW w, NEW r, Replies(f, w, r)
    PROVE  f.need /\ ~f.deliver /\ f.dst \in r.ips
<1>1. BuildReply(f, r)
  BY Zenon DEF Replies, HandleVXLAN, HandleRegular
<1> QED
  BY Zenon, <1>1 DEF BuildReply, BuildReplyL4, BuildTCPReply, Gate

\* A reply is a frame, with both flag bytes cleared (sanitize).
LEMMA ReplyFrameType ==
    ASSUME NEW f \in Frame, NEW r, r.hmac \in BOOLEAN
    PROVE  /\ ReplyFrame(f, r) \in Frame
           /\ ~ReplyFrame(f, r).need /\ ~ReplyFrame(f, r).deliver
<1>1. (IF f.seg = "syn" THEN "synack" ELSE f.seg) \in Seg
  BY Zenon DEF Frame, Seg
<1>2. \A sg \in Seg, sd \in BOOLEAN :
        LET g == [f EXCEPT !.src = f.dst, !.dst = f.src, !.seg = sg, !.vxport = FALSE,
                           !.need = FALSE, !.deliver = FALSE, !.signed = sd]
        IN  g \in Frame /\ ~g.need /\ ~g.deliver
  BY Zenon DEF Frame
<1> QED
  BY Zenon, <1>1, <1>2 DEF ReplyFrame

\* The route of a reply is a non-empty route.
LEMMA ReplyHopsType ==
    ASSUME NEW p \in Placed, NEW n \in 1..p.at
    PROVE  /\ ReplyHops(p, n) \in Seq(Hop) /\ ReplyHops(p, n) # <<>>
           /\ ReplyEnd(p, n) \in End
<1>1. /\ p.hops \in Seq(Hop) /\ Len(p.hops) \in Nat /\ p.at \in 1..Len(p.hops)
      /\ p.end \in End
  BY Zenon, LenProperties DEF Placed, Packet
<1>2. n \in 1..Len(p.hops) /\ n \in Nat
  BY <1>1
<1>3. \A h \in Hop : Flip(h) \in Hop
  BY Zenon DEF Flip, Hop, Dir
<1>4. CASE p.hops[n].dir = "in"
  <2> DEFINE back == [m \in 1..n |-> Flip(p.hops[n + 1 - m])]
  <2>1. \A m \in 1..n : back[m] \in Hop
    <3> SUFFICES ASSUME NEW m \in 1..n PROVE Flip(p.hops[n + 1 - m]) \in Hop
      OBVIOUS
    <3>1. n + 1 - m \in 1..Len(p.hops)
      BY <1>1, <1>2
    <3>2. p.hops[n + 1 - m] \in Hop
      BY Zenon, <1>1, <3>1, ElementOfSeq
    <3> QED
      BY Zenon, <1>3, <3>2
  <2>2. back \in Seq(Hop) /\ Len(back) = n
    <3>1. back \in [1..n -> Hop]
      BY Zenon, <2>1
    <3> QED
      BY <1>2, <3>1
  <2>3. ReplyHops(p, n) = back
    BY Zenon, <1>4 DEF ReplyHops
  <2>4. back # <<>>
    BY <1>2, <2>2
  <2> QED
    BY Zenon, <1>4, <2>2, <2>3, <2>4 DEF ReplyEnd, End
<1>5. CASE p.hops[n].dir # "in"
  <2>1. SubSeq(p.hops, n, Len(p.hops)) \in Seq(Hop)
        /\ Len(SubSeq(p.hops, n, Len(p.hops))) = Len(p.hops) - n + 1
    BY <1>1, <1>2, SubSeqProperties
  <2>2. SubSeq(p.hops, n, Len(p.hops)) # <<>>
    <3> DEFINE rest == SubSeq(p.hops, n, Len(p.hops))
    <3>1. rest \in Seq(Hop) /\ Len(rest) > 0
      BY <1>1, <1>2, <2>1
    <3>2. \A s \in Seq(Hop) : Len(s) > 0 => s # <<>>
      BY EmptySeq
    <3> QED
      BY Zenon, <3>1, <3>2
  <2> QED
    BY Zenon, <1>1, <1>5, <2>1, <2>2 DEF ReplyHops, ReplyEnd
<1> QED
  BY Zenon, <1>4, <1>5

\* The outcome of handling a copy: nothing, or one more packet in flight.
RespondOutcome(c) ==
    /\ dep' = dep /\ obs' = obs /\ sock' = sock \ {c} /\ c \in sock
    /\ \/ ~WillReply(c) /\ pkts' = pkts /\ answered' = answered
       \/ /\ WillReply(c) /\ answered' = answered \cup {c}
          /\ \E q \in Placed : /\ pkts' = Append(pkts, q)
                               /\ ~q.frame.need /\ ~q.frame.deliver
                               /\ Fresh(q)

\* Loop and handle of the responder.
LEMMA RespondMoves ==
    ASSUME TypeOK, NEW c \in sock, Respond(c)
    PROVE  RespondOutcome(c)
<1> DEFINE p == pkts[c[1]]
           h == p.hops[c[2]]
           r == ResponderOf(h.iface)
<1>1. c[1] \in DOMAIN pkts /\ c[2] \in 1..p.at
  BY Zenon DEF TypeOK
<1>2. p \in Placed
  BY Zenon, <1>1, SetupType
<1>3. c[2] \in DOMAIN p.hops
  BY <1>1, <1>2, LenProperties DEF Placed, Packet
<1>4. h \in Hop /\ p.frame \in Frame
  BY <1>2, <1>3, ElementOfSeq DEF Placed, Packet
<1>5. r.hmac \in BOOLEAN
  BY Zenon, <1>4, InterceptAssumption DEF TypeOK, Hop, OptsOf, Deployment, Opts, ResponderOf
<1>6. dep' = dep /\ obs' = obs /\ sock' = sock \ {c} /\ c \in sock
  BY Zenon DEF Respond
<1>7. CASE Replies(p.frame, h, r)
  <2> DEFINE q == NewPacket(ReplyFrame(p.frame, r), ReplyHops(p, c[2]), ReplyEnd(p, c[2]))
  <2>1. pkts' = Append(pkts, q) /\ answered' = answered \cup {c}
    BY Zenon, <1>7 DEF Respond
  <2>2. /\ ReplyFrame(p.frame, r) \in Frame
        /\ ~ReplyFrame(p.frame, r).need /\ ~ReplyFrame(p.frame, r).deliver
    <3>1. ASSUME NEW f \in Frame, NEW s, s.hmac \in BOOLEAN
          PROVE  /\ ReplyFrame(f, s) \in Frame
                 /\ ~ReplyFrame(f, s).need /\ ~ReplyFrame(f, s).deliver
      BY <3>1, ReplyFrameType
    <3> HIDE DEF r
    <3> QED
      BY <1>4, <1>5, <3>1
  <2>3. /\ ReplyHops(p, c[2]) \in Seq(Hop) /\ ReplyHops(p, c[2]) # <<>>
        /\ ReplyEnd(p, c[2]) \in End
    <3>1. ASSUME NEW x \in Placed, NEW m \in 1..x.at
          PROVE  /\ ReplyHops(x, m) \in Seq(Hop) /\ ReplyHops(x, m) # <<>>
                 /\ ReplyEnd(x, m) \in End
      BY Zenon, ReplyHopsType
    <3> QED
      BY Zenon, <1>1, <1>2, <3>1
  <2>4. q \in Placed /\ q.frame = ReplyFrame(p.frame, r) /\ Fresh(q)
    BY Zenon, <2>2, <2>3, NewPacketType
  <2>5. WillReply(c)
    BY Zenon, <1>7 DEF WillReply
  <2> HIDE DEF q
  <2> QED
    BY Zenon, <1>6, <2>1, <2>2, <2>4, <2>5 DEF RespondOutcome
<1>8. CASE ~Replies(p.frame, h, r)
  BY Zenon, <1>6, <1>8 DEF RespondOutcome, Respond, WillReply
<1> QED
  BY Zenon, <1>7, <1>8

-----------------------------------------------------------------------------
(* The type invariant.                                                     *)

\* Replacing one packet by one further along its route keeps the types.
LEMMA StepType ==
    ASSUME TypeOK, NEW k \in DOMAIN pkts, StepOutcome(k)
    PROVE  TypeOK'
<1>1. PICK q \in Placed : pkts' = [pkts EXCEPT ![k] = q] /\ Moved(pkts[k], q)
  BY Zenon DEF StepOutcome
<1>2. pkts \in Seq(Packet) /\ k \in 1..Len(pkts) /\ q \in Packet
  BY Zenon, <1>1, LenProperties DEF TypeOK, Placed
<1>3. /\ pkts' \in Seq(Packet) /\ DOMAIN pkts' = DOMAIN pkts
      /\ pkts'[k] = q /\ \A m \in DOMAIN pkts : m # k => pkts'[m] = pkts[m]
  BY Zenon, <1>1, <1>2, ExceptSeq, LenProperties
<1>4. \A m \in DOMAIN pkts' : pkts'[m].at \in DOMAIN pkts'[m].hops
  BY Zenon, <1>1, <1>3 DEF TypeOK, Placed
<1>5. pkts[k].at \in Nat /\ pkts[k].at >= 1 /\ q.at \in Nat
  BY <1>1, SetupType, LenProperties DEF Placed, Packet
<1>6. \A m \in DOMAIN pkts : pkts[m].at \in Nat /\ pkts'[m].at \in Nat /\ pkts[m].at <= pkts'[m].at
  BY <1>1, <1>3, SetupType DEF Moved, Placed, Packet
<1>7. \A c \in sock \cup answered : c[1] \in DOMAIN pkts' /\ c[2] \in 1..pkts'[c[1]].at
  BY <1>3, <1>6 DEF TypeOK
<1>8. k \in DOMAIN pkts' /\ pkts[k].at \in 1..pkts'[k].at /\ <<k, pkts[k].at>> \in Nat \X Nat
  BY <1>2, <1>3, <1>5, <1>6
<1>9. \A c \in sock' \cup answered' : c[1] \in DOMAIN pkts' /\ c[2] \in 1..pkts'[c[1]].at
  BY <1>7, <1>8 DEF StepOutcome
<1>10. sock' \subseteq Nat \X Nat /\ answered' \subseteq Nat \X Nat
  BY Zenon, <1>8 DEF StepOutcome, TypeOK
<1> QED
  BY Zenon, <1>3, <1>4, <1>9, <1>10 DEF StepOutcome, TypeOK

\* One more packet at the first hop of its route keeps the types.
LEMMA AppendType ==
    ASSUME TypeOK, NEW q \in Placed, pkts' = Append(pkts, q), dep' = dep, obs' = obs,
           sock' \subseteq sock, answered' \subseteq answered \cup sock
    PROVE  /\ TypeOK'
           /\ DOMAIN pkts' = DOMAIN pkts \cup {Len(pkts) + 1}
           /\ pkts'[Len(pkts) + 1] = q
           /\ \A m \in DOMAIN pkts : pkts'[m] = pkts[m]
<1>1. pkts \in Seq(Packet) /\ q \in Packet
  BY Zenon DEF TypeOK, Placed
<1>2. /\ pkts' \in Seq(Packet) /\ Len(pkts') = Len(pkts) + 1
      /\ \A m \in 1..Len(pkts) : pkts'[m] = pkts[m]
      /\ pkts'[Len(pkts) + 1] = q
  BY <1>1, AppendProperties
<1>3. /\ DOMAIN pkts = 1..Len(pkts) /\ Len(pkts) \in Nat
      /\ DOMAIN pkts' = DOMAIN pkts \cup {Len(pkts) + 1}
  BY <1>1, <1>2, LenProperties
<1>4. \A m \in DOMAIN pkts' : pkts'[m].at \in DOMAIN pkts'[m].hops
  BY Zenon, <1>2, <1>3 DEF TypeOK, Placed
<1>5. \A c \in sock' \cup answered' : c[1] \in DOMAIN pkts' /\ c[2] \in 1..pkts'[c[1]].at
  BY Zenon, <1>2, <1>3 DEF TypeOK
<1> QED
  BY Zenon, <1>2, <1>3, <1>4, <1>5 DEF TypeOK

\* A client's probe is the first packet (Send).
LEMMA SendMoves ==
    ASSUME TypeOK, NEW f \in Probes, NEW j \in Journeys, Send(f, j)
    PROVE  /\ \E q \in Placed : pkts' = Append(pkts, q) /\ Fresh(q)
           /\ pkts = <<>> /\ dep' = dep /\ obs' = obs /\ sock' = sock /\ answered' = answered
<1>1. f \in Frame /\ j.hops \in Seq(Hop) /\ j.hops # <<>> /\ j.end \in End
  BY Zenon, InterceptAssumption DEF Journey, End
<1>2. NewPacket(f, j.hops, j.end) \in Placed /\ Fresh(NewPacket(f, j.hops, j.end))
  BY Zenon, <1>1, NewPacketType
<1>3. pkts = <<>> /\ pkts' = <<NewPacket(f, j.hops, j.end)>>
  BY Zenon DEF Send
<1>4. pkts' = Append(pkts, NewPacket(f, j.hops, j.end))
  BY <1>3
<1> QED
  BY Zenon, <1>2, <1>3, <1>4 DEF Send

\* Every variable keeps its type, for every topology, deployment and probe.
THEOREM TypeCorrect == Spec => []TypeOK
<1>1. Init => TypeOK
  BY EmptySeq DEF Init, TypeOK
<1>2. TypeOK /\ [Next]_vars => TypeOK'
  <2> SUFFICES ASSUME TypeOK, [Next]_vars PROVE TypeOK'
    OBVIOUS
  <2>1. ASSUME NEW f \in Probes, NEW j \in Journeys, Send(f, j) PROVE TypeOK'
    BY Zenon, <2>1, SendMoves, AppendType
  <2>2. ASSUME NEW k \in DOMAIN pkts, Step(k) PROVE TypeOK'
    BY Zenon, <2>2, StepMoves, StepType
  <2>3. ASSUME NEW c \in sock, Respond(c) PROVE TypeOK'
    <3>1. RespondOutcome(c)
      BY Zenon, <2>3, RespondMoves
    <3>2. CASE pkts' = pkts /\ answered' = answered
      BY Zenon, <3>1, <3>2 DEF RespondOutcome, TypeOK
    <3>3. CASE answered' = answered \cup {c} /\ \E q \in Placed : pkts' = Append(pkts, q)
      BY Zenon, <3>1, <3>3, AppendType DEF RespondOutcome
    <3> QED
      BY Zenon, <3>1, <3>2, <3>3 DEF RespondOutcome
  <2>4. CASE UNCHANGED vars
    BY Zenon, <2>4 DEF vars, TypeOK
  <2> QED
    BY Zenon, <2>1, <2>2, <2>3, <2>4 DEF Next
<1> QED
  BY <1>1, <1>2, PTL DEF Spec

-----------------------------------------------------------------------------
(* Safety.  The inductive invariant says what a drop and a reply prove of   *)
(* the packet, that replies carry no flags, and that the probe's copies are *)
(* not lost between the socket and the responder.                           *)

QuietFlags ==
    \A k \in DOMAIN pkts : k > 1 => ~pkts[k].frame.need /\ ~pkts[k].frame.deliver
DropKnown == \A k \in DOMAIN pkts : Dropped(k) => DropFacts(pkts[k])
AnsweredGated == \A c \in answered : WillReply(c)
CopiesKept ==
    \A k \in DOMAIN pkts : k = 1 =>
        \A n \in 1..pkts[k].at :
            PastSock(pkts[k], n) => <<k, n>> \in sock \cup answered \/ ~WillReply(<<k, n>>)

SafeInv == TypeOK /\ QuietFlags /\ DropKnown /\ AnsweredGated /\ CopiesKept

\* What a packet's frame, route and agents determine does not change while the
\* packet moves.
LEMMA Stable ==
    ASSUME dep' = dep, NEW c, pkts'[c[1]].frame = pkts[c[1]].frame,
           pkts'[c[1]].hops = pkts[c[1]].hops
    PROVE  WillReply(c)' <=> WillReply(c)
<1>1. \A i : ResponderOf(i)' = ResponderOf(i)
  BY Zenon DEF ResponderOf, AnswersFor, OptsOf
<1> QED
  BY Zenon, <1>1 DEF WillReply

\* A responder without addresses replies to nothing.
LEMMA NoAddressesNoReply ==
    ASSUME NEW k, NEW n, AnswersFor(pkts[k].hops[n].iface) = {}
    PROVE  ~WillReply(<<k, n>>)
<1>1. ResponderOf(pkts[k].hops[n].iface).ips = {}
  BY Zenon DEF ResponderOf
<1> QED
  BY Zenon, <1>1, RepliesGate DEF WillReply

\* A hook keeps the invariant.
LEMMA StepSafe ==
    ASSUME SafeInv, NEW k \in DOMAIN pkts, Step(k)
    PROVE  SafeInv'
<1>1. StepOutcome(k) /\ TypeOK
  BY Zenon, StepMoves DEF SafeInv
<1>2. TypeOK'
  BY Zenon, <1>1, StepType
<1>3. PICK q \in Placed : /\ pkts' = [pkts EXCEPT ![k] = q]
                          /\ Moved(pkts[k], q)
                          /\ Offered(k, pkts[k], q)
  BY Zenon, <1>1 DEF StepOutcome
<1>4. /\ DOMAIN pkts' = DOMAIN pkts /\ pkts'[k] = q
      /\ \A m \in DOMAIN pkts : m # k => pkts'[m] = pkts[m]
  BY Zenon, <1>1, <1>3 DEF TypeOK
<1>5. dep' = dep /\ answered' = answered /\ sock \subseteq sock'
  BY Zenon, <1>1 DEF StepOutcome
<1>6. \A m \in DOMAIN pkts : pkts'[m].frame = pkts[m].frame /\ pkts'[m].hops = pkts[m].hops
  BY Zenon, <1>3, <1>4 DEF Moved
<1>7. QuietFlags'
  BY Zenon, <1>4, <1>6 DEF SafeInv, QuietFlags
<1>8. DropKnown'
  <2> SUFFICES ASSUME NEW m \in DOMAIN pkts, pkts'[m].stage = "dropped"
               PROVE  DropFacts(pkts[m])'
    BY Zenon, <1>4 DEF DropKnown, Dropped
  <2>1. DropFacts(pkts[m]) /\ pkts'[m].at = pkts[m].at
    BY Zenon, <1>3, <1>4 DEF SafeInv, DropKnown, Dropped, Moved
  <2> QED
    BY Zenon, <1>5, <1>6, <2>1 DEF DropFacts, HopOf, OptsOf, IfType
<1>9. AnsweredGated'
  <2> SUFFICES ASSUME NEW c \in answered PROVE WillReply(c)'
    BY Zenon, <1>5 DEF AnsweredGated
  <2>1. c[1] \in DOMAIN pkts /\ WillReply(c)
    BY Zenon DEF SafeInv, AnsweredGated, TypeOK
  <2> QED
    BY Zenon, <1>5, <1>6, <2>1, Stable
<1>10. CopiesKept'
  <2> SUFFICES ASSUME NEW m \in DOMAIN pkts, m = 1, NEW n \in 1..pkts'[m].at,
                      PastSock(pkts[m], n)'
               PROVE  <<m, n>> \in sock' \cup answered' \/ ~WillReply(<<m, n>>)'
    BY Zenon, <1>4 DEF CopiesKept
  <2>1. WillReply(<<m, n>>)' <=> WillReply(<<m, n>>)
    BY Zenon, <1>5, <1>6, Stable
  <2>2. CASE m # k
    <3>1. pkts'[m] = pkts[m]
      BY Zenon, <1>4, <2>2
    <3>2. PastSock(pkts[m], n)
      BY Zenon, <1>5, <3>1 DEF PastSock, OptsOf
    <3> QED
      BY Zenon, <1>5, <2>1, <3>1, <3>2 DEF SafeInv, CopiesKept
  <2>3. CASE m = k
    <3>1. n \in 1..q.at /\ PastSock(q, n)
      BY Zenon, <1>4, <1>5, <2>3 DEF PastSock, OptsOf
    <3>2. CASE n \in 1..pkts[k].at /\ PastSock(pkts[k], n)
      BY Zenon, <1>5, <2>1, <2>3, <3>2 DEF SafeInv, CopiesKept
    <3>3. CASE n = pkts[k].at /\ <<k, n>> \in sock'
      BY Zenon, <2>3, <3>3
    <3>4. CASE n = pkts[k].at /\ AnswersFor(HopOf(pkts[k]).iface) = {}
      BY Zenon, <2>1, <2>3, <3>4, NoAddressesNoReply DEF HopOf
    <3> QED
      BY <1>3, <2>3, <3>1, <3>2, <3>3, <3>4 DEF Offered
  <2> QED
    BY Zenon, <2>2, <2>3
<1> QED
  BY Zenon, <1>2, <1>7, <1>8, <1>9, <1>10 DEF SafeInv

\* One more packet, at its first hop and quiet if it is a reply, keeps the
\* invariant.
LEMMA AppendSafe ==
    ASSUME SafeInv, NEW q \in Placed, pkts' = Append(pkts, q), dep' = dep, obs' = obs,
           Fresh(q), pkts # <<>> => ~q.frame.need /\ ~q.frame.deliver,
           sock' \subseteq sock, answered \subseteq answered', answered' \subseteq answered \cup sock,
           sock \cup answered \subseteq sock' \cup answered',
           \A c \in answered' : WillReply(c)
    PROVE  SafeInv'
<1>1. /\ TypeOK' /\ DOMAIN pkts' = DOMAIN pkts \cup {Len(pkts) + 1}
      /\ pkts'[Len(pkts) + 1] = q
      /\ \A m \in DOMAIN pkts : pkts'[m] = pkts[m]
  BY Zenon, AppendType DEF SafeInv
<1>2. pkts \in Seq(Packet) /\ DOMAIN pkts = 1..Len(pkts) /\ Len(pkts) \in Nat
  BY Zenon, LenProperties DEF SafeInv, TypeOK
<1>3. QuietFlags'
  <2>1. Len(pkts) + 1 > 1 => pkts # <<>>
    BY <1>2
  <2> QED
    BY Zenon, <1>1, <1>2, <2>1 DEF SafeInv, QuietFlags
<1>4. DropKnown'
  <2>1. q.stage # "dropped"
    BY Zenon DEF Fresh, FirstStage
  <2>2. ASSUME NEW m \in DOMAIN pkts', pkts'[m].stage = "dropped"
        PROVE  DropFacts(pkts[m])'
    <3>1. m \in DOMAIN pkts /\ pkts'[m] = pkts[m]
      BY Zenon, <1>1, <2>1, <2>2
    <3>2. DropFacts(pkts[m])
      BY Zenon, <2>2, <3>1 DEF SafeInv, DropKnown, Dropped
    <3> QED
      BY Zenon, <3>1, <3>2 DEF DropFacts, HopOf, OptsOf, IfType
  <2> QED
    BY Zenon, <2>2 DEF DropKnown, Dropped
<1>5. \A c \in sock \cup answered : c[1] \in DOMAIN pkts
  BY Zenon DEF SafeInv, TypeOK
<1>6. AnsweredGated'
  BY Zenon, <1>1, <1>5, Stable DEF AnsweredGated
<1>7. CopiesKept'
  <2> SUFFICES ASSUME NEW m \in DOMAIN pkts', m = 1, NEW n \in 1..pkts'[m].at,
                      PastSock(pkts[m], n)'
               PROVE  <<m, n>> \in sock' \cup answered' \/ ~WillReply(<<m, n>>)'
    BY Zenon DEF CopiesKept
  <2>1. CASE m \in DOMAIN pkts
    <3>1. pkts'[m] = pkts[m] /\ (WillReply(<<m, n>>)' <=> WillReply(<<m, n>>))
      BY Zenon, <1>1, <2>1, Stable
    <3>2. PastSock(pkts[m], n)
      BY Zenon, <3>1 DEF PastSock, OptsOf
    <3> QED
      BY Zenon, <2>1, <3>1, <3>2 DEF SafeInv, CopiesKept
  <2>2. CASE m \notin DOMAIN pkts
    <3>1. pkts'[m] = q
      BY Zenon, <1>1, <2>2
    <3> QED
      BY <3>1 DEF PastSock, Fresh, FirstStage, HopOf
  <2> QED
    BY Zenon, <2>1, <2>2
<1> QED
  BY Zenon, <1>1, <1>3, <1>4, <1>6, <1>7 DEF SafeInv

\* The invariant holds in every reachable state.
THEOREM SafeInvariant == Spec => []SafeInv
<1>1. Init => SafeInv
  BY EmptySeq DEF Init, SafeInv, TypeOK, QuietFlags, DropKnown, AnsweredGated, CopiesKept
<1>2. SafeInv /\ [Next]_vars => SafeInv'
  <2> SUFFICES ASSUME SafeInv, [Next]_vars PROVE SafeInv'
    OBVIOUS
  <2>1. ASSUME NEW f \in Probes, NEW j \in Journeys, Send(f, j) PROVE SafeInv'
    <3>1. PICK q \in Placed : pkts' = Append(pkts, q) /\ Fresh(q)
      BY Zenon, <2>1, SendMoves DEF SafeInv
    <3>2. pkts = <<>> /\ dep' = dep /\ obs' = obs /\ sock' = sock /\ answered' = answered
      BY Zenon, <2>1, SendMoves DEF SafeInv
    <3> QED
      BY Zenon, <3>1, <3>2, AppendSafe DEF SafeInv, AnsweredGated
  <2>2. ASSUME NEW k \in DOMAIN pkts, Step(k) PROVE SafeInv'
    BY Zenon, <2>2, StepSafe
  <2>3. ASSUME NEW c \in sock, Respond(c) PROVE SafeInv'
    <3>1. RespondOutcome(c)
      BY Zenon, <2>3, RespondMoves DEF SafeInv
    <3>2. CASE ~WillReply(c) /\ pkts' = pkts /\ answered' = answered
      <4>1. TypeOK'
        BY Zenon, <3>1, <3>2 DEF RespondOutcome, SafeInv, TypeOK
      <4>2. dep' = dep /\ sock' = sock \ {c}
        BY Zenon, <3>1 DEF RespondOutcome
      <4>3. QuietFlags' /\ DropKnown'
        BY Zenon, <3>2, <4>2 DEF SafeInv, QuietFlags, DropKnown, Dropped, DropFacts, HopOf, OptsOf, IfType
      <4>4. \A d : WillReply(d)' <=> WillReply(d)
        BY Zenon, <3>2, <4>2, Stable
      <4>5. AnsweredGated'
        BY Zenon, <3>2, <4>4 DEF SafeInv, AnsweredGated
      <4>6. \A k, n : PastSock(pkts[k], n)' <=> PastSock(pkts[k], n)
        BY Zenon, <3>2, <4>2 DEF PastSock, HopOf, OptsOf
      <4>7. CopiesKept'
        BY Zenon, <3>2, <4>2, <4>4, <4>6 DEF SafeInv, CopiesKept
      <4> QED
        BY Zenon, <4>1, <4>3, <4>5, <4>7 DEF SafeInv
    <3>3. CASE WillReply(c) /\ answered' = answered \cup {c}
               /\ \E q \in Placed : pkts' = Append(pkts, q) /\ Fresh(q)
                                    /\ ~q.frame.need /\ ~q.frame.deliver
      BY Zenon, <3>1, <3>3, AppendSafe DEF RespondOutcome, SafeInv, AnsweredGated
    <3> QED
      BY Zenon, <3>1, <3>2, <3>3 DEF RespondOutcome
  <2>4. CASE UNCHANGED vars
    <3>1. dep' = dep /\ pkts' = pkts /\ sock' = sock /\ answered' = answered /\ obs' = obs
      BY Zenon, <2>4 DEF vars
    <3>2. /\ \A d : WillReply(d)' <=> WillReply(d)
          /\ \A k, n : PastSock(pkts[k], n)' <=> PastSock(pkts[k], n)
      BY Zenon, <3>1, Stable DEF PastSock, HopOf, OptsOf
    <3>3. DropKnown' /\ QuietFlags' /\ TypeOK'
      BY Zenon, <3>1 DEF SafeInv, TypeOK, QuietFlags, DropKnown, Dropped, DropFacts, HopOf, OptsOf, IfType
    <3> QED
      BY Zenon, <3>1, <3>2, <3>3 DEF SafeInv, AnsweredGated, CopiesKept
  <2> QED
    BY Zenon, <2>1, <2>2, <2>3, <2>4 DEF Next
<1> QED
  BY <1>1, <1>2, PTL DEF Spec

\* Replies do not echo: no agent, however deployed, drops or answers a reply
\* another agent sent (sanitize clears the flag bytes).
THEOREM RepliesStayQuiet == Spec => []RepliesAreQuiet
<1>1. SafeInv => RepliesAreQuiet
  <2> SUFFICES ASSUME SafeInv PROVE RepliesAreQuiet
    OBVIOUS
  <2>1. \A k \in DOMAIN pkts : k > 1 => ~Dropped(k)
    BY Zenon DEF SafeInv, QuietFlags, DropKnown, DropFacts
  <2>2. ASSUME NEW c \in answered PROVE c[1] = 1
    <3>1. WillReply(c) /\ c[1] \in DOMAIN pkts
      BY Zenon, <2>2 DEF SafeInv, AnsweredGated, TypeOK
    <3>2. pkts[c[1]].frame.need
      BY Zenon, <3>1, RepliesGate DEF WillReply
    <3>3. c[1] \in Nat /\ c[1] >= 1
      BY <3>1, LenProperties DEF SafeInv, TypeOK
    <3> QED
      BY <3>1, <3>2, <3>3 DEF SafeInv, QuietFlags
  <2> QED
    BY Zenon, <2>1, <2>2 DEF RepliesAreQuiet
<1> QED
  BY <1>1, SafeInvariant, PTL

\* A probe sent with --deliver is neither dropped nor answered by any agent.
THEOREM DeliverIsHonoured == Spec => []DeliverHonoured
<1>1. SafeInv => DeliverHonoured
  <2> SUFFICES ASSUME SafeInv, NEW k \in DOMAIN pkts, pkts[k].frame.deliver
               PROVE  ~Dropped(k) /\ \A c \in answered : c[1] # k
    BY Zenon DEF DeliverHonoured
  <2>1. ~Dropped(k)
    BY Zenon DEF SafeInv, DropKnown, DropFacts
  <2>2. \A c \in answered : c[1] # k
    BY Zenon, RepliesGate DEF SafeInv, AnsweredGated, WillReply
  <2> QED
    BY Zenon, <2>1, <2>2
<1> QED
  BY <1>1, SafeInvariant, PTL

\* A packet the program drops at an interface whose responder covers it has been
\* answered there, or its copy is waiting for a responder that will answer it.
THEOREM CoveredDropsAnswered == Spec => []CoveredDropIsAnswered
<1>1. SafeInv => CoveredDropIsAnswered
  <2> SUFFICES ASSUME SafeInv, NEW k \in DOMAIN pkts, Dropped(k),
                      ExpectsReply(pkts[k].frame), Covered(pkts[k])
               PROVE  TakenCare(k, pkts[k].at)
    BY Zenon DEF CoveredDropIsAnswered
  <2> DEFINE p == pkts[k]
             h == HopOf(p)
             f == p.frame
             r == ResponderOf(h.iface)
  <2>1. p \in Placed /\ h \in Hop /\ OptsOf(h.iface) \in Opts
    BY Zenon, SetupType DEF SafeInv
  <2>2. DropFacts(p)
    BY Zenon DEF SafeInv, DropKnown
  <2>3. k = 1
    <3>1. DOMAIN pkts = 1..Len(pkts) /\ Len(pkts) \in Nat
      <4>1. pkts \in Seq(Packet)
        BY Zenon DEF SafeInv, TypeOK
      <4> QED
        BY Zenon, <4>1, LenProperties
    <3>2. k \in Nat /\ k >= 1
      BY <3>1
    <3> QED
      BY <2>2, <3>2 DEF SafeInv, QuietFlags, DropFacts
  <2>4. PastSock(p, p.at) /\ p.at \in 1..p.at
    <3>1. PastSock(p, p.at)
      BY Zenon DEF Dropped, Covered, PastSock
    <3>2. p.hops \in Seq(Hop) /\ p.at \in DOMAIN p.hops
      BY Zenon, <2>1 DEF Placed, Packet
    <3>3. \A s \in Seq(Hop) : \A n \in DOMAIN s : n \in 1..n
      BY LenProperties
    <3> QED
      BY Zenon, <3>1, <3>2, <3>3
  <2>5. BuildReply(f, r)
    <3>1. r.tcpRespond = OptsOf(h.iface).tcpRespond
      BY Zenon DEF ResponderOf
    <3>2. Gate(f, r)
      BY Zenon, <2>2 DEF DropFacts, Covered, Gate
    <3> QED
      BY Zenon, <2>2, <3>1, <3>2 DEF DropFacts, Covered, ExpectsReply, BuildReply, BuildReplyL4, BuildTCPReply
  <2>6. ~h.encap /\ r.mode # "vxlan"
    BY Zenon, <2>2 DEF DropFacts, ResponderOf
  <2>7. r.mode # "regular" => ~IsVXLANFrame(f, h)
    BY Zenon, <2>6 DEF Covered, IsVXLANFrame
  <2>8. Replies(f, h, r)
    BY Zenon, <2>5, <2>6, <2>7 DEF Replies, HandleRegular
  <2>9. WillReply(<<k, p.at>>)
    BY Zenon, <2>8 DEF WillReply, HopOf
  <2>10. <<k, p.at>> \in sock \cup answered
    BY Zenon, <2>3, <2>4, <2>9 DEF SafeInv, CopiesKept
  <2> QED
    BY Zenon, <2>9, <2>10 DEF TakenCare
<1> QED
  BY <1>1, SafeInvariant, PTL
=============================================================================
