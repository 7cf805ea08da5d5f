---------------------------- MODULE DialogProofs ----------------------------
(***************************************************************************)
(* The client's runs, proved for any number of runs, any command lines,     *)
(* lengths and width of the sequence numbers: they implement Exchange, the  *)
(* responder acknowledges what they will send next, and the segments it     *)
(* sends on a living flow do not overlap.                                   *)
(***************************************************************************)
EXTENDS Dialog, TLAPS

\* Where a run is tells what it has asked and accepted.
Stand(where, cmd, l) ==
    /\ l.answered \subseteq l.asked
    /\ where = "start" => l.asked = {} /\ l.accepted = {}
    /\ where = "reply" => l.asked = {"probe"} /\ cmd \in {"icmp", "udp", "vxlan"}
    /\ where = "synack" => l.asked = {"syn"} /\ l.accepted = {} /\ cmd \in {"htcp", "tcp"}
    /\ where = "data" => l.asked = {"syn", "psh"} /\ l.accepted = {"syn"}
    /\ where = "fin" => l.asked = {"syn", "psh", "fin"} /\ "syn" \in l.accepted

Progress == \A r \in Run : Stand(pc[r], flags[r].cmd, ledger[r])

\* A frame to the VM is a reset, or a run sent it: it has the run's ports, the run has
\* asked its stage, and its numbers are the client's.
Sent(m) ==
    \/ m.kind = "rst" /\ m.run = NoRun
    \/ /\ m.run \in Run
       /\ m.sport = flags[m.run].sport /\ m.dport = flags[m.run].dport
       /\ \/ m.kind \in {"echo", "udp"} /\ "probe" \in ledger[m.run].asked
          \/ m.kind = "ack"
          \/ m.kind = "syn" /\ "syn" \in ledger[m.run].asked /\ m.seq = ClientIsn
          \/ /\ m.kind = "psh" /\ "psh" \in ledger[m.run].asked
             /\ m.seq = Plus(ClientIsn, 1) /\ m.len = DataLen
          \/ m.kind = "fin" /\ "fin" \in ledger[m.run].asked

\* A frame to the host is the responder's answer to a stage of its run.
Answered(m) ==
    /\ m.run \in Run
    /\ \/ m.kind \in {"echoreply", "udp"} /\ "probe" \in ledger[m.run].answered
       \/ m.kind = "synack" /\ "syn" \in ledger[m.run].answered /\ m.ack = Plus(ClientIsn, 1)
       \/ /\ m.kind = "psh" /\ "psh" \in ledger[m.run].answered
          /\ m.ack = Plus(Plus(ClientIsn, 1), DataLen)
       \/ m.kind = "fin" /\ "fin" \in ledger[m.run].answered

Traffic ==
    /\ \A m \in wire : m.to = "vm" /\ Sent(m)
    /\ \A m \in heard : IF m.to = "vm" THEN Sent(m) ELSE Answered(m)

SafeInv == TypeOK /\ Progress /\ Traffic

-----------------------------------------------------------------------------
(* Facts about the operators.                                              *)

\* uint32 arithmetic stays in its width.
LEMMA PlusType == \A n, k \in Nat : Plus(n, k) \in 0..(Mod - 1)
BY DialogAssumption DEF Plus

\* The remainder of a number written as quotient and remainder.
LEMMA Remainder ==
    ASSUME NEW p \in Nat, NEW v \in 0..(Mod - 1)
    PROVE  (Mod * p + v) % Mod = v
<1> DEFINE x == Mod * p + v
           q == x \div Mod
           u == x % Mod
<1>1. Mod \in Nat \ {0} /\ x \in Int
  BY DialogAssumption
<1>2. q \in Int /\ u \in 0..(Mod - 1) /\ x = Mod * q + u
  BY <1>1
<1>3. \A d \in Nat : Mod * d \in Nat
  BY <1>1
<1> HIDE DEF q, u
<1>4. CASE p > q
  <2> DEFINE d == p - q - 1
  <2>1. d \in Nat /\ p = q + 1 + d
    BY <1>2, <1>4
  <2> HIDE DEF d
  <2>2. Mod * p = Mod * q + Mod + Mod * d
    BY <1>1, <1>2, <2>1
  <2>3. Mod * d \in Nat /\ Mod * q \in Int /\ Mod * p \in Int
    BY <1>1, <1>2, <1>3, <2>1
  <2> QED
    BY <1>1, <1>2, <2>2, <2>3
<1>5. CASE p < q
  <2> DEFINE d == q - p - 1
  <2>1. d \in Nat /\ q = p + 1 + d
    BY <1>2, <1>5
  <2> HIDE DEF d
  <2>2. Mod * q = Mod * p + Mod + Mod * d
    BY <1>1, <1>2, <2>1
  <2>3. Mod * d \in Nat /\ Mod * q \in Int /\ Mod * p \in Int
    BY <1>1, <1>2, <1>3, <2>1
  <2> QED
    BY <1>1, <1>2, <2>2, <2>3
<1>6. CASE p = q
  BY <1>1, <1>2, <1>6 DEF u
<1> QED
  BY <1>2, <1>4, <1>5, <1>6

\* Adding twice modulo Mod, as the responder does, is adding the sum once.
LEMMA PlusPlus == \A n, j, k \in Nat : Plus(Plus(n, j), k) = Plus(n, j + k)
<1> SUFFICES ASSUME NEW n \in Nat, NEW j \in Nat, NEW k \in Nat
             PROVE  (((n + j) % Mod) + k) % Mod = (n + (j + k)) % Mod
  BY Zenon DEF Plus
<1> DEFINE q == (n + j) \div Mod
           r == (n + j) % Mod
           t == (r + k) \div Mod
           u == (r + k) % Mod
<1>1. q \in Nat /\ r \in 0..(Mod - 1) /\ n + j = Mod * q + r
  BY DialogAssumption
<1>2. t \in Nat /\ u \in 0..(Mod - 1) /\ r + k = Mod * t + u
  BY <1>1, DialogAssumption
<1>3. n + (j + k) = Mod * (q + t) + u
  BY <1>1, <1>2, DialogAssumption
<1>4. \A p \in Nat, v \in 0..(Mod - 1) : (Mod * p + v) % Mod = v
  BY Zenon, Remainder
<1>5. q + t \in Nat
  BY <1>1, <1>2
<1> HIDE DEF q, t, r, u
<1>6. (n + (j + k)) % Mod = u
  BY Zenon, <1>2, <1>3, <1>4, <1>5
<1> QED
  BY Zenon, <1>6 DEF u, r

\* A run's frame, and the responder's reply to a frame.
LEMMA ProbeType ==
    ASSUME TypeOK, NEW r \in Run, NEW kind \in Kind, NEW seq \in 0..(Mod - 1), NEW len \in Nat
    PROVE  /\ Probe(r, kind, seq, len) \in Frame
           /\ LET f == Probe(r, kind, seq, len)
              IN  /\ f.to = "vm" /\ f.run = r /\ f.kind = kind /\ f.seq = seq /\ f.len = len
                  /\ f.sport = flags[r].sport /\ f.dport = flags[r].dport
<1>1. flags[r] \in Flags
  BY Zenon, DialogAssumption DEF TypeOK
<1>2. 0 \in 0..(Mod - 1)
  BY DialogAssumption
<1> QED
  BY Zenon, <1>1, <1>2 DEF Probe, Frame, Flags

LEMMA ReplyType ==
    ASSUME NEW m \in Frame, NEW kind \in Kind, NEW seq \in 0..(Mod - 1), NEW ack \in 0..(Mod - 1)
    PROVE  LET f == Reply(m, kind, seq, ack)
           IN  /\ f \in Frame /\ f.to = "host" /\ f.run = m.run /\ f.kind = kind
               /\ f.ack = ack /\ f.dport = m.sport
BY Zenon DEF Reply, Frame

\* The frames stay what they are while the ledger grows.
LEMMA TrafficKept ==
    ASSUME flags' = flags, NEW m,
           \A r \in Run : /\ ledger[r].asked \subseteq ledger'[r].asked
                          /\ ledger[r].answered \subseteq ledger'[r].answered
    PROVE  (Sent(m) => Sent(m)') /\ (Answered(m) => Answered(m)')
BY Zenon DEF Sent, Answered

\* Where the ledger of run r changes to entry e, the others keep theirs.
LEMMA LedgerStep ==
    ASSUME TypeOK, NEW r \in Run, NEW s \in Stage, NEW t \in Stage
    PROVE  /\ Asks(r, s) => ledger' = [ledger EXCEPT ![r] =
                [asked |-> ledger[r].asked \cup {s}, answered |-> ledger[r].answered,
                 accepted |-> ledger[r].accepted]]
           /\ Accepts(r, s) => ledger' = [ledger EXCEPT ![r] =
                [asked |-> ledger[r].asked, answered |-> ledger[r].answered,
                 accepted |-> ledger[r].accepted \cup {s}]]
           /\ AcceptsAndAsks(r, s, t) => ledger' = [ledger EXCEPT ![r] =
                [asked |-> ledger[r].asked \cup {t}, answered |-> ledger[r].answered,
                 accepted |-> ledger[r].accepted \cup {s}]]
<1>1. ledger[r] = [asked |-> ledger[r].asked, answered |-> ledger[r].answered,
                   accepted |-> ledger[r].accepted]
  BY Zenon DEF TypeOK
<1> QED
  BY Zenon, <1>1 DEF TypeOK, Asks, Accepts, AcceptsAndAsks

-----------------------------------------------------------------------------
(* The invariant.                                                          *)

Entry == [asked : SUBSET Stage, answered : SUBSET Stage, accepted : SUBSET Stage]

\* A step of run r: it sends frames of its own, and its place fits its ledger.
LEMMA EmitSafe ==
    ASSUME SafeInv, NEW r \in Run, NEW next \in Waiting \cup {"done"},
           pc' = [pc EXCEPT ![r] = next], NEW e \in Entry, ledger' = [ledger EXCEPT ![r] = e],
           ledger[r].asked \subseteq e.asked, e.answered = ledger[r].answered,
           Stand(next, flags[r].cmd, e), UNCHANGED <<flags, flows, faults, torn>>,
           \A f \in wire' : f \in wire \/ (f \in Frame /\ f.to = "vm" /\ Sent(f)'),
           \A f \in heard' : f \in heard \/ (f \in Frame /\ f.to = "vm" /\ Sent(f)')
    PROVE  SafeInv'
<1>1. TypeOK /\ Progress /\ Traffic
  BY Zenon DEF SafeInv
<1>2. TypeOK'
  BY Zenon, <1>1 DEF TypeOK, Entry
<1>3. \A q \in Run : /\ ledger'[q] = IF q = r THEN e ELSE ledger[q]
                     /\ pc'[q] = IF q = r THEN next ELSE pc[q]
  BY Zenon, <1>1 DEF TypeOK
<1>4. Progress'
  BY <1>1, <1>3 DEF Progress
<1>5. \A q \in Run : /\ ledger[q].asked \subseteq ledger'[q].asked
                     /\ ledger[q].answered \subseteq ledger'[q].answered
  BY Zenon, <1>3
<1>6. \A m : (Sent(m) => Sent(m)') /\ (Answered(m) => Answered(m)')
  BY Zenon, <1>5, TrafficKept
<1>7. Traffic'
  BY Zenon, <1>1, <1>6 DEF Traffic, Sent, Answered
<1> QED
  BY Zenon, <1>2, <1>4, <1>7 DEF SafeInv

\* The client's segments.
LEMMA Segments ==
    ASSUME TypeOK, NEW r \in Run
    PROVE  /\ \A f \in {SynSeg(r), AckSeg(r), DataSeg(r), FinSeg(r)} :
                /\ f \in Frame /\ f.to = "vm" /\ f.run = r
                /\ f.sport = flags[r].sport /\ f.dport = flags[r].dport
           /\ SynSeg(r).kind = "syn" /\ SynSeg(r).seq = ClientIsn /\ AckSeg(r).kind = "ack"
           /\ DataSeg(r).kind = "psh" /\ DataSeg(r).seq = Plus(ClientIsn, 1)
           /\ DataSeg(r).len = DataLen
           /\ FinSeg(r).kind = "fin" /\ FinSeg(r).seq = Plus(ClientIsn, 1 + DataLen)
<1>1. /\ ClientIsn \in 0..(Mod - 1) /\ ClientIsn \in Nat /\ MetaLen \in Nat /\ DataLen \in Nat
      /\ 1 + DataLen \in Nat
  BY DialogAssumption DEF DataLen
<1>2. Plus(ClientIsn, 1) \in 0..(Mod - 1) /\ Plus(ClientIsn, 1 + DataLen) \in 0..(Mod - 1)
  BY Zenon, <1>1, PlusType
<1>3. {"syn", "ack", "psh", "fin"} \subseteq Kind
  BY Zenon DEF Kind
<1> QED
  BY <1>1, <1>2, <1>3, ProbeType DEF SynSeg, AckSeg, DataSeg, FinSeg

\* A run starts.
LEMMA StartSafe ==
    ASSUME SafeInv, NEW r \in Run, StartProbe(r) \/ StartTCP(r)
    PROVE  SafeInv'
<1>0. TypeOK /\ Stand(pc[r], flags[r].cmd, ledger[r]) /\ ledger[r] \in Entry /\ flags' = flags
  BY Zenon DEF SafeInv, Progress, TypeOK, Entry, StartProbe, StartTCP
<1>1. pc[r] = "start" /\ ledger[r].asked = {} /\ ledger[r].accepted = {} /\ ledger[r].answered = {}
  BY Zenon, <1>0 DEF Stand, StartProbe, StartTCP
<1>2. ASSUME NEW s \in Stage, Asks(r, s)
      PROVE  \E e \in Entry : /\ ledger' = [ledger EXCEPT ![r] = e] /\ ledger'[r] = e
                              /\ e.asked = {s} /\ e.answered = {} /\ e.accepted = {}
  <2> DEFINE e == [asked |-> ledger[r].asked \cup {s}, answered |-> ledger[r].answered,
                   accepted |-> ledger[r].accepted]
  <2>1. ledger' = [ledger EXCEPT ![r] = e]
    BY Zenon, <1>0, <1>2, LedgerStep
  <2>2. e \in Entry /\ e.asked = {s} /\ e.answered = {} /\ e.accepted = {}
    BY Zenon, <1>1 DEF Entry
  <2>3. ledger'[r] = e
    BY Zenon, <1>0, <2>1 DEF TypeOK
  <2> QED
    BY Zenon, <2>1, <2>2, <2>3
<1>3. CASE StartProbe(r)
  <2> DEFINE kind == IF flags[r].cmd = "udp" THEN "udp" ELSE "echo"
             f == Probe(r, kind, 0, MetaLen)
             next == IF flags[r].response THEN "reply" ELSE "done"
  <2>1. /\ Emit(r, {f}, next) /\ Asks(r, "probe") /\ flags[r].cmd \in {"icmp", "udp", "vxlan"}
        /\ UNCHANGED <<flags, flows, faults, torn>>
    BY Zenon, <1>3 DEF StartProbe
  <2>2. kind \in {"udp", "echo"} /\ kind \in Kind /\ next \in {"reply", "done"}
    BY Zenon DEF Kind
  <2>3. 0 \in 0..(Mod - 1) /\ MetaLen \in Nat
    BY DialogAssumption
  <2>4. /\ f \in Frame /\ f.to = "vm" /\ f.run = r /\ f.kind = kind
        /\ f.sport = flags[r].sport /\ f.dport = flags[r].dport
    BY <1>0, <2>2, <2>3, ProbeType
  <2> HIDE DEF f, next, kind
  <2>5. PICK e \in Entry : /\ ledger' = [ledger EXCEPT ![r] = e] /\ ledger'[r] = e
                           /\ e.asked = {"probe"} /\ e.answered = {} /\ e.accepted = {}
    BY Zenon, <1>2, <2>1 DEF Stage
  <2>6. Stand(next, flags[r].cmd, e)
    BY Zenon, <2>1, <2>2, <2>5 DEF Stand
  <2>7. \A g \in {f} : g \in Frame /\ g.to = "vm" /\ Sent(g)'
    BY Zenon, <1>0, <2>2, <2>4, <2>5 DEF Sent
  <2> QED
    BY Zenon, <1>1, <2>1, <2>2, <2>5, <2>6, <2>7, EmitSafe DEF Waiting, Sent, Emit
<1>4. CASE StartTCP(r)
  <2>1. /\ Emit(r, {SynSeg(r)}, "synack") /\ Asks(r, "syn") /\ flags[r].cmd \in {"htcp", "tcp"}
        /\ UNCHANGED <<flags, flows, faults, torn>>
    BY Zenon, <1>4 DEF StartTCP
  <2>2. PICK e \in Entry : /\ ledger' = [ledger EXCEPT ![r] = e] /\ ledger'[r] = e
                           /\ e.asked = {"syn"} /\ e.answered = {} /\ e.accepted = {}
    BY Zenon, <1>2, <2>1 DEF Stage
  <2>3. Stand("synack", flags[r].cmd, e)
    BY Zenon, <2>1, <2>2 DEF Stand
  <2>4. \A g \in {SynSeg(r)} : g \in Frame /\ g.to = "vm" /\ Sent(g)'
    BY <1>0, <2>2, Segments DEF Sent
  <2> QED
    BY Zenon, <1>1, <2>1, <2>2, <2>3, <2>4, EmitSafe DEF Waiting, Sent, Emit
<1> QED
  BY Zenon, <1>3, <1>4

\* What reading a matching frame makes a run do, by where it is.
LEMMA RecvCases ==
    ASSUME SafeInv, NEW r \in Run, NEW c \in heard, RecvMatch(r, c)
    PROVE  /\ UNCHANGED <<flags, flows, faults, torn>>
           /\ \/ /\ pc[r] = "synack" /\ flags[r].cmd = "tcp"
                 /\ Emit(r, {AckSeg(r), DataSeg(r)}, "data") /\ AcceptsAndAsks(r, "syn", "psh")
              \/ /\ pc[r] = "synack" /\ Emit(r, {AckSeg(r)}, "done") /\ Accepts(r, "syn")
              \/ /\ pc[r] = "data" /\ Emit(r, {FinSeg(r)}, "fin") /\ AcceptsAndAsks(r, "psh", "fin")
              \/ /\ pc[r] = "fin" /\ Emit(r, {}, "done") /\ Accepts(r, "fin")
              \/ /\ pc[r] = "reply" /\ Emit(r, {}, "done") /\ Accepts(r, "probe")
<1>1. pc[r] \in Waiting /\ UNCHANGED <<flags, flows, faults, torn>>
  BY Zenon DEF RecvMatch
<1>2. pc[r] = "synack" => flags[r].cmd \in {"htcp", "tcp"}
  BY Zenon DEF SafeInv, Progress, Stand
<1>3. CASE pc[r] = "synack" /\ flags[r].cmd = "tcp"
  BY Zenon, <1>1, <1>3 DEF RecvMatch
<1>4. CASE pc[r] = "synack" /\ flags[r].cmd = "htcp"
  BY Zenon, <1>1, <1>4 DEF RecvMatch
<1>5. CASE pc[r] = "data"
  BY Zenon, <1>1, <1>5 DEF RecvMatch
<1>6. CASE pc[r] = "fin"
  BY Zenon, <1>1, <1>6 DEF RecvMatch
<1>7. CASE pc[r] = "reply"
  BY Zenon, <1>1, <1>7 DEF RecvMatch
<1> QED
  BY Zenon, <1>1, <1>2, <1>3, <1>4, <1>5, <1>6, <1>7 DEF Waiting

\* The frames of a run that are sent with stage t asked.
LEMMA SegmentsSent ==
    ASSUME SafeInv, NEW r \in Run, flags' = flags
    PROVE  /\ \A f \in {AckSeg(r)} : f \in Frame /\ f.to = "vm" /\ Sent(f)'
           /\ "psh" \in ledger'[r].asked =>
                \A f \in {DataSeg(r)} : f \in Frame /\ f.to = "vm" /\ Sent(f)'
           /\ "fin" \in ledger'[r].asked =>
                \A f \in {FinSeg(r)} : f \in Frame /\ f.to = "vm" /\ Sent(f)'
<1>1. TypeOK
  BY Zenon DEF SafeInv
<1>2. \A f \in {AckSeg(r), DataSeg(r), FinSeg(r)} :
        f \in Frame /\ f.to = "vm" /\ f.run = r /\ f.sport = flags[r].sport /\ f.dport = flags[r].dport
  BY <1>1, Segments
<1>3. \A f \in {AckSeg(r)} : f.kind = "ack"
  BY <1>1, Segments
<1>4. \A f \in {DataSeg(r)} : f.kind = "psh" /\ f.seq = Plus(ClientIsn, 1) /\ f.len = DataLen
  BY <1>1, Segments
<1>5. \A f \in {FinSeg(r)} : f.kind = "fin"
  BY <1>1, Segments
<1> QED
  BY Zenon, <1>2, <1>3, <1>4, <1>5 DEF Sent

\* A run reads an answer, or its deadline passes.
LEMMA WaitSafe ==
    ASSUME SafeInv, NEW r \in Run, Timeout(r) \/ \E c \in heard : RecvMatch(r, c)
    PROVE  SafeInv'
<1>0. /\ TypeOK /\ Stand(pc[r], flags[r].cmd, ledger[r]) /\ ledger[r] \in Entry
      /\ UNCHANGED <<flags, flows, faults, torn>>
  BY Zenon, RecvCases DEF SafeInv, Progress, TypeOK, Entry, Timeout
<1>1. ASSUME NEW a \in SUBSET Stage, NEW b \in SUBSET Stage, NEW next \in Waiting \cup {"done"},
             NEW fs, Emit(r, fs, next), ledger[r].asked \subseteq a,
             ledger' = [ledger EXCEPT ![r] =
                [asked |-> a, answered |-> ledger[r].answered, accepted |-> b]],
             \/ next = "done"
             \/ next = "data" /\ a = {"syn", "psh"} /\ b = {"syn"} /\ fs = {AckSeg(r), DataSeg(r)}
             \/ next = "fin" /\ a = {"syn", "psh", "fin"} /\ "syn" \in b /\ fs = {FinSeg(r)},
             next = "done" => fs \subseteq {AckSeg(r)}
      PROVE  SafeInv'
  <2> DEFINE e == [asked |-> a, answered |-> ledger[r].answered, accepted |-> b]
  <2>1. e \in Entry /\ e.asked = a /\ e.answered = ledger[r].answered /\ e.accepted = b
    BY Zenon, <1>0 DEF Entry
  <2>2. ledger' = [ledger EXCEPT ![r] = e] /\ ledger'[r].asked = a
    BY Zenon, <1>0, <1>1 DEF TypeOK
  <2> HIDE DEF e
  <2>3. Stand(next, flags[r].cmd, e)
    BY Zenon, <1>0, <1>1, <2>1 DEF Stand
  <2>4. \A f \in fs : f \in Frame /\ f.to = "vm" /\ Sent(f)'
    <3>1. \A f \in {AckSeg(r)} : f \in Frame /\ f.to = "vm" /\ Sent(f)'
      BY Zenon, <1>0, SegmentsSent
    <3>2. CASE next = "data"
      <4>1. \A f \in {DataSeg(r)} : f \in Frame /\ f.to = "vm" /\ Sent(f)'
        BY Zenon, <1>0, <1>1, <2>2, <3>2, SegmentsSent
      <4> QED
        BY Zenon, <1>1, <3>1, <3>2, <4>1
    <3>3. CASE next = "fin"
      <4>1. fs = {FinSeg(r)} /\ "fin" \in ledger'[r].asked
        BY Zenon, <1>1, <2>2, <3>3
      <4> QED
        BY Zenon, <1>0, <4>1, SegmentsSent
    <3>4. CASE next = "done"
      BY Zenon, <1>1, <3>1, <3>4
    <3> QED
      BY Zenon, <1>1, <3>2, <3>3, <3>4
  <2>5. wire' = wire \cup fs /\ heard' = heard \cup fs /\ pc' = [pc EXCEPT ![r] = next]
    BY Zenon, <1>1 DEF Emit
  <2>6. /\ \A f \in wire' : f \in wire \/ (f \in Frame /\ f.to = "vm" /\ Sent(f)')
        /\ \A f \in heard' : f \in heard \/ (f \in Frame /\ f.to = "vm" /\ Sent(f)')
    BY Zenon, <2>4, <2>5 DEF Sent
  <2>7. /\ e \in Entry /\ ledger[r].asked \subseteq e.asked /\ e.answered = ledger[r].answered
        /\ ledger' = [ledger EXCEPT ![r] = e] /\ pc' = [pc EXCEPT ![r] = next]
    BY Zenon, <1>1, <2>1, <2>2, <2>5
  <2> QED
    BY Zenon, <1>0, <2>3, <2>6, <2>7, EmitSafe DEF Sent
<1> DEFINE l == ledger[r]
<1>2. l = [asked |-> l.asked, answered |-> l.answered, accepted |-> l.accepted]
      /\ l.asked \subseteq Stage /\ l.accepted \subseteq Stage
  BY Zenon, <1>0 DEF Entry
<1>3. CASE Timeout(r) /\ pc[r] = "data"
  <2>1. Emit(r, {FinSeg(r)}, "fin") /\ Asks(r, "fin")
    BY Zenon, <1>3 DEF Timeout
  <2>2. l.asked = {"syn", "psh"} /\ l.accepted = {"syn"}
    BY Zenon, <1>0, <1>3 DEF Stand
  <2>3. ledger' = [ledger EXCEPT ![r] =
            [asked |-> l.asked \cup {"fin"}, answered |-> l.answered, accepted |-> l.accepted]]
    BY Zenon, <1>0, <2>1, LedgerStep DEF Stage
  <2>4. l.asked \cup {"fin"} = {"syn", "psh", "fin"} /\ l.asked \cup {"fin"} \subseteq Stage
    BY Zenon, <2>2 DEF Stage
  <2> HIDE DEF l
  <2> QED
    BY Zenon, <1>1, <1>2, <2>1, <2>2, <2>3, <2>4 DEF l, Waiting
<1>4. CASE Timeout(r) /\ pc[r] # "data"
  <2>1. Emit(r, {}, "done") /\ ledger' = ledger
    BY Zenon, <1>4 DEF Timeout
  <2>2. ledger' = [ledger EXCEPT ![r] =
            [asked |-> l.asked, answered |-> l.answered, accepted |-> l.accepted]]
    BY Zenon, <1>0, <1>2, <2>1 DEF TypeOK
  <2> QED
    BY Zenon, <1>1, <1>2, <2>1, <2>2
<1>5. ASSUME NEW c \in heard, RecvMatch(r, c) PROVE SafeInv'
  <2>1. CASE /\ pc[r] = "synack" /\ flags[r].cmd = "tcp"
             /\ Emit(r, {AckSeg(r), DataSeg(r)}, "data") /\ AcceptsAndAsks(r, "syn", "psh")
    <3>1. l.asked = {"syn"} /\ l.accepted = {}
      BY Zenon, <1>0, <2>1 DEF Stand
    <3>2. ledger' = [ledger EXCEPT ![r] = [asked |-> l.asked \cup {"psh"},
              answered |-> l.answered, accepted |-> l.accepted \cup {"syn"}]]
      BY Zenon, <1>0, <2>1, LedgerStep DEF Stage
    <3>3. /\ l.asked \cup {"psh"} = {"syn", "psh"} /\ l.accepted \cup {"syn"} = {"syn"}
          /\ {"syn", "psh"} \subseteq Stage /\ {"syn"} \subseteq Stage
      BY Zenon, <3>1 DEF Stage
    <3> QED
      BY Zenon, <1>1, <1>2, <2>1, <3>1, <3>2, <3>3 DEF Waiting
  <2>2. CASE pc[r] = "data" /\ Emit(r, {FinSeg(r)}, "fin") /\ AcceptsAndAsks(r, "psh", "fin")
    <3>1. l.asked = {"syn", "psh"} /\ l.accepted = {"syn"}
      BY Zenon, <1>0, <2>2 DEF Stand
    <3>2. ledger' = [ledger EXCEPT ![r] = [asked |-> l.asked \cup {"fin"},
              answered |-> l.answered, accepted |-> l.accepted \cup {"psh"}]]
      BY Zenon, <1>0, <2>2, LedgerStep DEF Stage
    <3>3. /\ l.asked \cup {"fin"} = {"syn", "psh", "fin"} /\ "syn" \in l.accepted \cup {"psh"}
          /\ {"syn", "psh", "fin"} \subseteq Stage /\ l.accepted \cup {"psh"} \subseteq Stage
      BY Zenon, <3>1 DEF Stage
    <3> QED
      BY Zenon, <1>1, <1>2, <2>2, <3>1, <3>2, <3>3 DEF Waiting
  <2>3. ASSUME NEW s \in Stage, NEW fs \in SUBSET {AckSeg(r)}, Emit(r, fs, "done"), Accepts(r, s)
        PROVE  SafeInv'
    <3>1. ledger' = [ledger EXCEPT ![r] = [asked |-> l.asked, answered |-> l.answered,
              accepted |-> l.accepted \cup {s}]]
      BY Zenon, <1>0, <2>3, LedgerStep
    <3>2. l.accepted \cup {s} \subseteq Stage
      BY Zenon, <1>2
    <3> QED
      BY Zenon, <1>1, <1>2, <2>3, <3>1, <3>2
  <2> QED
    BY Zenon, <1>5, <2>1, <2>2, <2>3, RecvCases DEF Stage
<1> QED
  BY Zenon, <1>3, <1>4, <1>5

\* The responder's table keeps its type, and its reply answers the stage of the frame.
Flows(table) == DOMAIN table \subseteq DOMAIN Isn /\ \A k \in DOMAIN table : table[k] \in 0..(Mod - 1)

LEMMA TableType ==
    ASSUME NEW table, Flows(table), NEW k \in DOMAIN Isn, NEW n \in 0..(Mod - 1)
    PROVE  Flows(Drop(table, k)) /\ Flows(Put(table, k, n))
BY Zenon DEF Flows, Drop, Put

\* What answers m: a frame to the host of the same run, of the kind that goes with its stage.
Answers(f, m) ==
    /\ f \in Frame /\ f.to = "host" /\ f.run = m.run
    /\ \/ f.kind \in {"echoreply", "udp"} /\ StageOf(m.kind) = "probe"
       \/ f.kind = "synack" /\ StageOf(m.kind) = "syn" /\ f.ack = Plus(m.seq, 1)
       \/ f.kind = "psh" /\ StageOf(m.kind) = "psh" /\ f.ack = Plus(m.seq, m.len)
       \/ f.kind = "fin" /\ StageOf(m.kind) = "fin"

LEMMA BuildLemma ==
    ASSUME SafeInv, NEW m \in wire
    PROVE  /\ Flows(BuildReplyL4(m).flows)
           /\ \A f \in BuildReplyL4(m).out : Answers(f, m)
           /\ BuildReplyL4(m).out # {} => m.run \in Run /\ m.kind \in {"echo", "udp", "syn", "psh", "fin"}
<1>0. TypeOK /\ m \in Frame /\ Sent(m) /\ Flows(flows)
  BY Zenon DEF SafeInv, TypeOK, Traffic, Flows
<1>1. CASE m.kind = "rst"
  <2>1. BuildReplyL4(m) = [out |-> {}, flows |-> Drop(flows, FlowKey(m))]
    BY Zenon, <1>1 DEF BuildReplyL4, BuildTCPReply, Tcp
  <2>2. Flows(Drop(flows, FlowKey(m)))
    BY Zenon, <1>0 DEF Flows, Drop
  <2> QED
    BY <2>1, <2>2
<1>2. CASE m.kind # "rst"
  <2>0. m.run \in Run /\ m.kind \in {"echo", "udp", "ack", "syn", "psh", "fin"}
    BY Zenon, <1>0, <1>2 DEF Sent
  <2>1. FlowKey(m) \in DOMAIN Isn
    <3>1. m.sport = flags[m.run].sport /\ m.dport = flags[m.run].dport
      BY Zenon, <1>0, <1>2 DEF Sent
    <3>2. <<flags[m.run].sport, flags[m.run].dport>> \in DOMAIN Isn
      BY Zenon, <1>0, <2>0, DialogAssumption DEF TypeOK
    <3> QED
      BY Zenon, <3>1, <3>2 DEF FlowKey
  <2>2. /\ m.seq \in Nat /\ m.len \in Nat /\ 0 \in 0..(Mod - 1) /\ Isn[FlowKey(m)] \in 0..(Mod - 1)
        /\ m.len + 1 \in Nat /\ 1 + m.len \in Nat /\ Isn[FlowKey(m)] \in Nat
    BY <1>0, <2>1, DialogAssumption DEF Frame
  <2>3. ServerNext(FlowKey(m)) \in 0..(Mod - 1)
    BY Zenon, <1>0, <2>1, <2>2, PlusType DEF ServerNext, Flows
  <2>4. ServerNext(FlowKey(m)) \in Nat
    BY <2>3, DialogAssumption
  <2>5. CASE m.kind = "syn" /\ m.need
    <3> DEFINE isn == Isn[FlowKey(m)]
               ack == Plus(m.seq, 1)
               f == Reply(m, "synack", isn, ack)
               table == IF Cardinality(DOMAIN flows) > FlowCap THEN << >> ELSE flows
               n == Plus(Isn[FlowKey(m)], 1 + m.len)
    <3>1. BuildReplyL4(m) = [out |-> {f}, flows |-> Put(table, FlowKey(m), n)]
      <4>1. OnSyn(m, FlowKey(m)) = [out |-> {f}, flows |-> Put(table, FlowKey(m), n)]
        BY Zenon DEF OnSyn, One
      <4>2. BuildReplyL4(m) = OnSyn(m, FlowKey(m))
        BY Zenon, <2>5 DEF BuildReplyL4, BuildTCPReply, Tcp
      <4> QED
        BY Zenon, <4>1, <4>2
    <3>2. Flows(table)
      <4>1. Flows(<< >>)
        BY DEF Flows
      <4> QED
        BY Zenon, <1>0, <4>1
    <3>3. n \in 0..(Mod - 1) /\ Plus(m.seq, 1) \in 0..(Mod - 1) /\ "synack" \in Kind
      BY Zenon, <2>2, <2>4, PlusType DEF Kind
    <3>4. isn \in 0..(Mod - 1) /\ ack \in 0..(Mod - 1)
      BY Zenon, <2>2, <3>3
    <3> HIDE DEF table, n, isn, ack
    <3>5. f \in Frame /\ f.to = "host" /\ f.run = m.run /\ f.kind = "synack" /\ f.ack = ack
      BY <1>0, <3>3, <3>4, ReplyType
    <3> HIDE DEF f
    <3>6. Flows(Put(table, FlowKey(m), n))
      BY Zenon, <2>1, <3>2, <3>3, TableType
    <3>7. Answers(f, m)
      BY Zenon, <2>5, <3>5 DEF Answers, StageOf, Stage, ack
    <3> QED
      BY <2>0, <2>5, <3>1, <3>6, <3>7
  <2>6. CASE m.kind = "fin" /\ m.need
    <3> DEFINE f == Reply(m, "fin", ServerNext(FlowKey(m)), Plus(m.seq, m.len + 1))
    <3>1. BuildReplyL4(m) = [out |-> {f}, flows |-> Drop(flows, FlowKey(m))]
      BY Zenon, <2>6 DEF BuildReplyL4, BuildTCPReply, Tcp, OnFin, One
    <3>2. Plus(m.seq, m.len + 1) \in 0..(Mod - 1) /\ "fin" \in Kind
      BY Zenon, <2>2, PlusType DEF Kind
    <3>3. f \in Frame /\ f.to = "host" /\ f.run = m.run /\ f.kind = "fin"
      BY <1>0, <2>3, <3>2, ReplyType
    <3> HIDE DEF f
    <3>4. Flows(Drop(flows, FlowKey(m)))
      BY Zenon, <1>0, <2>1, <2>3, TableType
    <3>5. Answers(f, m)
      BY Zenon, <2>6, <3>3 DEF Answers, StageOf, Stage
    <3> QED
      BY <2>0, <2>6, <3>1, <3>4, <3>5
  <2>7. CASE m.kind = "psh" /\ m.need
    <3> DEFINE f == Reply(m, "psh", ServerNext(FlowKey(m)), Plus(m.seq, m.len))
               n == Plus(ServerNext(FlowKey(m)), m.len)
    <3>1. BuildReplyL4(m) = [out |-> {f}, flows |-> Put(flows, FlowKey(m), n)]
      BY Zenon, <2>7 DEF BuildReplyL4, BuildTCPReply, Tcp, OnPsh, One
    <3>2. n \in 0..(Mod - 1) /\ Plus(m.seq, m.len) \in 0..(Mod - 1) /\ "psh" \in Kind
      BY Zenon, <2>2, <2>4, PlusType DEF Kind
    <3>3. f \in Frame /\ f.to = "host" /\ f.run = m.run /\ f.kind = "psh" /\ f.ack = Plus(m.seq, m.len)
      BY <1>0, <2>3, <3>2, ReplyType
    <3> HIDE DEF f, n
    <3>4. Flows(Put(flows, FlowKey(m), n))
      BY Zenon, <1>0, <2>1, <3>2, TableType
    <3>5. Answers(f, m)
      BY Zenon, <2>7, <3>3 DEF Answers, StageOf, Stage
    <3> QED
      BY <2>0, <2>7, <3>1, <3>4, <3>5
  <2>8. CASE m.kind \in {"echo", "udp"} /\ m.need
    <3> DEFINE kind == IF m.kind = "echo" THEN "echoreply" ELSE "udp"
               f == Reply(m, kind, 0, 0)
    <3>1. BuildReplyL4(m) = [out |-> {f}, flows |-> flows]
      BY Zenon, <2>8 DEF BuildReplyL4, Tcp, One
    <3>2. kind \in {"echoreply", "udp"} /\ kind \in Kind
      BY Zenon DEF Kind
    <3>3. f \in Frame /\ f.to = "host" /\ f.run = m.run /\ f.kind = kind
      BY <1>0, <2>2, <3>2, ReplyType
    <3> HIDE DEF f, kind
    <3>4. Answers(f, m)
      BY Zenon, <2>8, <3>2, <3>3 DEF Answers, StageOf, Stage
    <3> QED
      BY <1>0, <2>0, <2>8, <3>1, <3>4
  <2>9. CASE m.kind = "ack" \/ ~m.need
    <3>1. BuildReplyL4(m) = [out |-> {}, flows |-> flows]
      BY Zenon, <2>0, <2>9 DEF BuildReplyL4, BuildTCPReply, Tcp, Nil
    <3> QED
      BY <1>0, <3>1
  <2> QED
    BY Zenon, <2>0, <2>5, <2>6, <2>7, <2>8, <2>9
<1> QED
  BY Zenon, <1>1, <1>2

\* The responder handles a frame.
LEMMA HandleSafe ==
    ASSUME SafeInv, NEW m \in wire, NEW dup \in BOOLEAN, Handle(m, dup)
    PROVE  /\ SafeInv'
           /\ \/ ledger' = ledger
              \/ /\ m.run \in Run /\ StageOf(m.kind) \in ledger[m.run].asked
                 /\ ledger' = [ledger EXCEPT ![m.run].answered = @ \cup {StageOf(m.kind)}]
<1> DEFINE b == BuildReplyL4(m)
           st == StageOf(m.kind)
<1>0. /\ TypeOK /\ Progress /\ Traffic /\ m \in Frame /\ Sent(m)
  BY Zenon DEF SafeInv, TypeOK, Traffic
<1>1. /\ Flows(b.flows) /\ \A f \in b.out : Answers(f, m)
      /\ b.out # {} => m.run \in Run /\ m.kind \in {"echo", "udp", "syn", "psh", "fin"}
  BY Zenon, BuildLemma
<1>2. /\ wire' \subseteq wire /\ flows' = b.flows /\ heard' = heard \cup b.out
      /\ UNCHANGED <<flags, pc>> /\ torn' = torn \cup Tears(m, b.flows)
      /\ ledger' = IF b.out = {} THEN ledger ELSE [ledger EXCEPT ![m.run].answered = @ \cup {st}]
  BY Zenon DEF Handle
<1>3. faults' \in 0..MaxFaults
  BY <1>0, DialogAssumption DEF Handle, Failing, TypeOK
<1> HIDE DEF b, st
<1>4. b.out # {} => st \in Stage /\ st \in ledger[m.run].asked
  BY Zenon, <1>0, <1>1 DEF st, StageOf, Stage, Sent
<1>5. ledger' \in [Run -> Entry]
  BY <1>0, <1>1, <1>2, <1>4 DEF TypeOK, Entry
<1>6. \A r \in Run : /\ ledger'[r].asked = ledger[r].asked /\ ledger'[r].accepted = ledger[r].accepted
                     /\ ledger[r].answered \subseteq ledger'[r].answered
                     /\ \/ ledger'[r].answered = ledger[r].answered
                        \/ /\ b.out # {} /\ r = m.run
                           /\ ledger'[r].answered = ledger[r].answered \cup {st}
  BY Zenon, <1>0, <1>1, <1>2 DEF TypeOK
<1>7. Progress'
  BY <1>0, <1>2, <1>4, <1>6 DEF Progress, Stand
<1>8. \A f \in heard' : f \in Frame
  BY Zenon, <1>0, <1>1, <1>2 DEF TypeOK, Answers
<1>9. TypeOK'
  <2>1. torn' \subseteq Run
    BY Zenon, <1>0, <1>2 DEF TypeOK, Tears
  <2> QED
    BY Zenon, <1>0, <1>1, <1>2, <1>3, <1>5, <1>8, <2>1 DEF TypeOK, Flows, Entry
<1>10. \A g : (Sent(g) => Sent(g)') /\ (Answered(g) => Answered(g)')
  BY Zenon, <1>2, <1>6, TrafficKept
<1>11. ASSUME NEW f \in b.out PROVE f.to # "vm" /\ Answered(f)'
  <2>1. st \in ledger'[m.run].answered /\ m.run \in Run
    BY Zenon, <1>0, <1>1, <1>2 DEF TypeOK
  <2>2. Answers(f, m)
    BY Zenon, <1>1
  <2>3. f.to = "host" /\ f.run = m.run
    BY Zenon, <2>2 DEF Answers
  <2>4. CASE f.kind \in {"echoreply", "udp"} /\ st = "probe"
    BY Zenon, <2>1, <2>3, <2>4 DEF Answered
  <2>5. CASE f.kind = "synack" /\ st = "syn" /\ f.ack = Plus(m.seq, 1)
    <3>1. m.kind = "syn" /\ m.seq = ClientIsn
      BY Zenon, <1>0, <1>1, <2>5 DEF st, StageOf, Sent
    <3> QED
      BY Zenon, <2>1, <2>3, <2>5, <3>1 DEF Answered
  <2>6. CASE f.kind = "psh" /\ st = "psh" /\ f.ack = Plus(m.seq, m.len)
    <3>1. m.kind = "psh" /\ m.seq = Plus(ClientIsn, 1) /\ m.len = DataLen
      BY Zenon, <1>0, <1>1, <2>6 DEF st, StageOf, Sent
    <3> QED
      BY Zenon, <2>1, <2>3, <2>6, <3>1 DEF Answered
  <2>7. CASE f.kind = "fin" /\ st = "fin"
    BY Zenon, <2>1, <2>3, <2>7 DEF Answered
  <2> QED
    BY Zenon, <2>2, <2>3, <2>4, <2>5, <2>6, <2>7 DEF Answers, st
<1>12. Traffic'
  <2>1. ASSUME NEW g \in wire' PROVE g.to = "vm" /\ Sent(g)'
    BY Zenon, <1>0, <1>2, <1>10 DEF Traffic
  <2>2. ASSUME NEW g \in heard' PROVE IF g.to = "vm" THEN Sent(g)' ELSE Answered(g)'
    BY Zenon, <1>0, <1>2, <1>10, <1>11 DEF Traffic
  <2> QED
    BY Zenon, <2>1, <2>2 DEF Traffic
<1>13. \/ ledger' = ledger
       \/ /\ m.run \in Run /\ st \in ledger[m.run].asked
          /\ ledger' = [ledger EXCEPT ![m.run].answered = @ \cup {st}]
  BY Zenon, <1>1, <1>2, <1>4
<1> QED
  BY Zenon, <1>7, <1>9, <1>12, <1>13 DEF SafeInv, st

\* The host's TCP resets a connection.
LEMMA ResetSafe ==
    ASSUME SafeInv, NEW m \in heard, Reset(m)
    PROVE  SafeInv'
<1> DEFINE f == [run |-> NoRun, to |-> "vm", kind |-> "rst",
                 sport |-> m.dport, dport |-> m.sport, vni |-> m.vni,
                 need |-> FALSE, seq |-> m.ack, ack |-> 0, len |-> 0]
<1>0. /\ TypeOK /\ Progress /\ Traffic /\ m \in Frame
      /\ UNCHANGED <<flags, pc, heard, flows, ledger, served, torn>> /\ wire' = wire \cup {f}
  BY Zenon DEF SafeInv, TypeOK, Reset
<1>1. f \in Frame /\ f.to = "vm" /\ f.kind = "rst" /\ f.run = NoRun
  <2>1. 0 \in 0..(Mod - 1) /\ 0 \in Nat /\ "rst" \in Kind
    BY DialogAssumption DEF Kind
  <2>2. m.sport \in Nat /\ m.dport \in Nat /\ m.vni \in Nat /\ m.ack \in 0..(Mod - 1)
    BY Zenon, <1>0 DEF Frame
  <2> QED
    BY Zenon, <2>1, <2>2 DEF Frame
<1> HIDE DEF f
<1>2. faults' \in 0..MaxFaults
  BY <1>0, DialogAssumption DEF Reset, Failing, TypeOK
<1>3. TypeOK' /\ Progress'
  BY Zenon, <1>0, <1>1, <1>2 DEF TypeOK, Progress
<1>4. Traffic'
  BY <1>0, <1>1 DEF Traffic, Sent, Answered
<1> QED
  BY Zenon, <1>3, <1>4 DEF SafeInv

\* The dialog begins with nothing sent.
LEMMA SafeInitial ==
    ASSUME Init
    PROVE  SafeInv
<1>1. TypeOK
  <2>1. flags \in Scenario /\ pc \in [Run -> Waiting \cup {"start", "done"}]
    BY Zenon DEF Init
  <2>2. /\ wire \subseteq Frame /\ heard \subseteq Frame /\ torn \subseteq Run
        /\ DOMAIN flows \subseteq DOMAIN Isn /\ \A k \in DOMAIN flows : flows[k] \in 0..(Mod - 1)
    BY DEF Init
  <2>3. faults \in 0..MaxFaults
    BY DialogAssumption DEF Init
  <2>4. ledger \in [Run -> [asked : SUBSET Stage, answered : SUBSET Stage,
                            accepted : SUBSET Stage]]
    BY Zenon DEF Init, Ex!Nothing
  <2> QED
    BY Zenon, <2>1, <2>2, <2>3, <2>4 DEF TypeOK
<1>2. Progress /\ Traffic
  BY Zenon DEF Init, Progress, Stand, Traffic, Ex!Nothing
<1> QED
  BY Zenon, <1>1, <1>2 DEF SafeInv

\* Nothing happens.
LEMMA SafeIdle ==
    ASSUME SafeInv, UNCHANGED vars
    PROVE  SafeInv'
<1>1. UNCHANGED <<flags, pc, wire, heard, flows, faults, ledger, torn>>
  BY Zenon DEF vars
<1>2. TypeOK'
  BY Zenon, <1>1 DEF SafeInv, TypeOK
<1>3. Progress'
  BY Zenon, <1>1 DEF SafeInv, Progress
<1>4. Traffic'
  BY <1>1 DEF SafeInv, Traffic, Sent, Answered
<1> QED
  BY Zenon, <1>2, <1>3, <1>4 DEF SafeInv

\* Every step of a run, of the network and of the responder.
LEMMA SafeInvariant == Spec => []SafeInv
<1>1. Init => SafeInv
  BY Zenon, SafeInitial
<1>2. SafeInv /\ [Next]_vars => SafeInv'
  <2> SUFFICES ASSUME SafeInv, [Next]_vars PROVE SafeInv'
    OBVIOUS
  <2>1. CASE Network
    BY Zenon, <2>1, HandleSafe, ResetSafe DEF Network
  <2>2. CASE \E r \in Run : Client(r)
    BY Zenon, <2>2, StartSafe, WaitSafe DEF Client
  <2> QED
    BY Zenon, <2>1, <2>2, SafeIdle DEF Next
<1> QED
  BY <1>1, <1>2, PTL DEF Spec

-----------------------------------------------------------------------------
(* The properties.                                                         *)

\* Every variable keeps its type, the sequence numbers their width.
THEOREM TypeCorrect == Spec => []TypeOK
<1>1. SafeInv => TypeOK
  BY Zenon DEF SafeInv
<1> QED
  BY <1>1, SafeInvariant, PTL

\* The client's and the responder's arithmetic agree, also where it wraps around: a reply
\* acknowledges exactly up to the segment that the client sends next.
THEOREM RepliesAckNext == Spec => []AcksWhatComesNext
<1>1. SafeInv => AcksWhatComesNext
  <2> SUFFICES ASSUME SafeInv, NEW m \in heard, m.to = "host"
               PROVE  /\ m.kind = "synack" => m.ack = DataSeg(m.run).seq
                      /\ m.kind = "psh" => m.ack = FinSeg(m.run).seq
    BY Zenon DEF AcksWhatComesNext
  <2>1. TypeOK /\ Answered(m) /\ m.run \in Run
    BY Zenon DEF SafeInv, Traffic, Answered
  <2>2. DataSeg(m.run).seq = Plus(ClientIsn, 1) /\ FinSeg(m.run).seq = Plus(ClientIsn, 1 + DataLen)
    BY Zenon, <2>1, Segments
  <2>3. ClientIsn \in Nat /\ 1 \in Nat /\ DataLen \in Nat
    BY DialogAssumption DEF DataLen
  <2>4. Plus(Plus(ClientIsn, 1), DataLen) = Plus(ClientIsn, 1 + DataLen)
    BY Zenon, <2>3, PlusPlus
  <2> QED
    BY Zenon, <2>1, <2>2, <2>4 DEF Answered
<1> QED
  BY <1>1, SafeInvariant, PTL

-----------------------------------------------------------------------------
(* The refinement.                                                         *)

\* What a run reads as its answer is one: not its own frame, which the sniffer sees too,
\* nor another run's.
LEMMA MatchIsAnswer ==
    ASSUME SafeInv, PortsDiffer, NEW r \in Run, NEW c \in heard, pc[r] \in Waiting, Match(r, c)
    PROVE  /\ pc[r] = "synack" => "syn" \in ledger[r].answered
           /\ pc[r] = "data" => "psh" \in ledger[r].answered
           /\ pc[r] = "fin" => "fin" \in ledger[r].answered
           /\ pc[r] = "reply" => "probe" \in ledger[r].answered
<1>0. /\ c.run = r /\ r # NoRun /\ flags[r].sport # flags[r].dport
      /\ IF c.to = "vm" THEN Sent(c) ELSE Answered(c)
  BY Zenon, DialogAssumption DEF SafeInv, TypeOK, Traffic, Match, PortsDiffer
<1>1. c.to = "vm" => /\ c.dport # flags[r].sport
                     /\ c.kind \in {"echo", "udp", "ack", "syn", "psh", "fin"}
  BY Zenon, <1>0 DEF Sent
<1>2. CASE pc[r] = "synack"
  <2>1. c.kind = "synack"
    BY Zenon, <1>2 DEF Match
  <2> QED
    BY Zenon, <1>0, <1>1, <1>2, <2>1 DEF Answered
<1>3. CASE pc[r] = "data"
  <2>1. c.kind = "psh" /\ c.dport = flags[r].sport
    BY Zenon, <1>3 DEF Match
  <2> QED
    BY Zenon, <1>0, <1>1, <1>3, <2>1 DEF Answered
<1>4. CASE pc[r] = "fin"
  <2>1. c.kind = "fin" /\ c.dport = flags[r].sport
    BY Zenon, <1>4 DEF Match
  <2> QED
    BY Zenon, <1>0, <1>1, <1>4, <2>1 DEF Answered
<1>5. CASE pc[r] = "reply"
  <2>1. flags[r].cmd \in {"icmp", "udp", "vxlan"}
    BY Zenon, <1>5 DEF SafeInv, Progress, Stand
  <2>2. c.kind = "echoreply" \/ (c.kind = "udp" /\ c.dport = flags[r].sport)
    BY Zenon, <1>5, <2>1 DEF Match
  <2> QED
    BY Zenon, <1>0, <1>1, <1>5, <2>2 DEF Answered
<1> QED
  BY Zenon, <1>2, <1>3, <1>4, <1>5 DEF Waiting

\* Every step of the dialog is a step of Exchange or leaves the ledger alone.
LEMMA StepRefines ==
    ASSUME SafeInv, PortsDiffer, [Next]_vars
    PROVE  [Ex!Next]_ledger
<1>1. /\ \A s \in Stage : s = "probe" \/ s = "syn" => Ex!AskedBefore[s] = {} /\ Ex!AcceptedBefore[s] = {}
      /\ Ex!AskedBefore["psh"] = {"syn"} /\ Ex!AcceptedBefore["psh"] = {"syn"}
      /\ Ex!AskedBefore["fin"] = {"syn", "psh"} /\ Ex!AcceptedBefore["fin"] = {"syn"}
  BY DEF Ex!AskedBefore, Ex!AcceptedBefore, Stage
<1>2. CASE UNCHANGED vars
  BY Zenon, <1>2 DEF vars
<1>3. ASSUME NEW m \in wire, NEW dup \in BOOLEAN, Handle(m, dup) PROVE [Ex!Next]_ledger
  <2>1. StageOf(m.kind) \in Stage
    BY Zenon DEF StageOf, Stage
  <2>2. \/ ledger' = ledger
        \/ m.run \in Run /\ Ex!Answer(m.run, StageOf(m.kind))
    BY Zenon, <1>3, HandleSafe DEF Ex!Answer
  <2> QED
    BY Zenon, <2>1, <2>2 DEF Ex!Next
<1>4. ASSUME NEW m \in heard, Reset(m) PROVE [Ex!Next]_ledger
  BY Zenon, <1>4 DEF Reset
<1>5. ASSUME NEW r \in Run, Client(r) PROVE [Ex!Next]_ledger
  <2>0. Stand(pc[r], flags[r].cmd, ledger[r])
    BY Zenon DEF SafeInv, Progress
  <2>1. CASE StartProbe(r)
    <3>1. ledger[r].asked = {} /\ Asks(r, "probe") /\ "probe" \in Stage
      BY Zenon, <2>0, <2>1 DEF StartProbe, Stand, Stage
    <3>2. Ex!Ask(r, "probe")
      BY Zenon, <1>1, <3>1 DEF Ex!Ask, Asks
    <3> QED
      BY Zenon, <3>1, <3>2 DEF Ex!Next
  <2>2. CASE StartTCP(r)
    <3>1. ledger[r].asked = {} /\ Asks(r, "syn") /\ "syn" \in Stage
      BY Zenon, <2>0, <2>2 DEF StartTCP, Stand, Stage
    <3>2. Ex!Ask(r, "syn")
      BY Zenon, <1>1, <3>1 DEF Ex!Ask, Asks
    <3> QED
      BY Zenon, <3>1, <3>2 DEF Ex!Next
  <2>3. CASE Timeout(r)
    <3>1. CASE pc[r] # "data"
      BY Zenon, <2>3, <3>1 DEF Timeout
    <3>2. CASE pc[r] = "data"
      <4>1. ledger[r].asked = {"syn", "psh"} /\ ledger[r].accepted = {"syn"} /\ Asks(r, "fin")
        BY Zenon, <2>0, <2>3, <3>2 DEF Timeout, Stand
      <4>2. Ex!Ask(r, "fin") /\ "fin" \in Stage
        BY Zenon, <1>1, <4>1 DEF Ex!Ask, Asks, Stage
      <4> QED
        BY Zenon, <4>2 DEF Ex!Next
    <3> QED
      BY Zenon, <3>1, <3>2
  <2>4. ASSUME NEW c \in heard, RecvMatch(r, c) PROVE [Ex!Next]_ledger
    <3>0. pc[r] \in Waiting /\ Match(r, c) /\ {"probe", "syn", "psh", "fin"} = Stage
      BY Zenon, <2>4 DEF RecvMatch, Stage
    <3>1. CASE pc[r] = "synack" /\ AcceptsAndAsks(r, "syn", "psh")
      <4>1. ledger[r].asked = {"syn"} /\ ledger[r].accepted = {} /\ "syn" \in ledger[r].answered
        BY Zenon, <2>0, <3>0, <3>1, MatchIsAnswer DEF Stand
      <4>2. Ex!AcceptAndAsk(r, "syn", "psh")
        BY Zenon, <1>1, <3>0, <3>1, <4>1 DEF Ex!AcceptAndAsk, Ex!Last, AcceptsAndAsks
      <4> QED
        BY Zenon, <3>0, <4>2 DEF Ex!Next
    <3>2. CASE pc[r] = "data" /\ AcceptsAndAsks(r, "psh", "fin")
      <4>1. /\ ledger[r].asked = {"syn", "psh"} /\ ledger[r].accepted = {"syn"}
            /\ "psh" \in ledger[r].answered
        BY Zenon, <2>0, <3>0, <3>2, MatchIsAnswer DEF Stand
      <4>2. Ex!AcceptAndAsk(r, "psh", "fin")
        BY Zenon, <1>1, <3>0, <3>2, <4>1 DEF Ex!AcceptAndAsk, Ex!Last, AcceptsAndAsks
      <4> QED
        BY Zenon, <3>0, <4>2 DEF Ex!Next
    <3>3. CASE pc[r] = "synack" /\ Accepts(r, "syn")
      <4>1. ledger[r].asked = {"syn"} /\ "syn" \in ledger[r].answered
        BY Zenon, <2>0, <3>0, <3>3, MatchIsAnswer DEF Stand
      <4>2. Ex!Accept(r, "syn")
        BY Zenon, <1>1, <3>0, <3>3, <4>1 DEF Ex!Accept, Ex!Last, Accepts
      <4> QED
        BY Zenon, <3>0, <4>2 DEF Ex!Next
    <3>4. CASE pc[r] = "fin" /\ Accepts(r, "fin")
      <4>1. ledger[r].asked = {"syn", "psh", "fin"} /\ "fin" \in ledger[r].answered
        BY Zenon, <2>0, <3>0, <3>4, MatchIsAnswer DEF Stand
      <4>2. Ex!Accept(r, "fin")
        BY Zenon, <1>1, <3>0, <3>4, <4>1 DEF Ex!Accept, Ex!Last, Accepts
      <4> QED
        BY Zenon, <3>0, <4>2 DEF Ex!Next
    <3>5. CASE pc[r] = "reply" /\ Accepts(r, "probe")
      <4>1. ledger[r].asked = {"probe"} /\ "probe" \in ledger[r].answered
        BY Zenon, <2>0, <3>0, <3>5, MatchIsAnswer DEF Stand
      <4>2. Ex!Accept(r, "probe")
        BY Zenon, <1>1, <3>0, <3>5, <4>1 DEF Ex!Accept, Ex!Last, Accepts
      <4> QED
        BY Zenon, <3>0, <4>2 DEF Ex!Next
    <3> QED
      BY Zenon, <2>4, <3>1, <3>2, <3>3, <3>4, <3>5, RecvCases
  <2> QED
    BY Zenon, <1>5, <2>1, <2>2, <2>3, <2>4 DEF Client
<1> QED
  BY Zenon, <1>2, <1>3, <1>4, <1>5 DEF Next, Network

\* "Replies are caught with an AF_PACKET sniffer and matched by run id": however frames are
\* delayed, lost, duplicated or reset, a run whose ports differ asks its stages in order,
\* each once, and accepts only a responder's answer to what it asked last.
THEOREM DialogImplementsExchange == PortsDiffer => (Spec => ImplementsExchange)
<1> SUFFICES ASSUME PortsDiffer PROVE Spec => Ex!Spec
  BY Zenon DEF ImplementsExchange
<1>1. Init => Ex!Init
  BY Zenon DEF Init, Ex!Init
<1>2. SafeInv /\ [Next]_vars => [Ex!Next]_(Ex!vars)
  BY Zenon, StepRefines DEF Ex!vars
<1> QED
  BY <1>1, <1>2, SafeInvariant, PTL DEF Spec, Ex!Spec

\* What Exchange means: a run accepts answers a responder gave it, to questions it asked, and
\* it sends data only on a connection whose SYN/ACK it has, and the FIN after the data.
Honest(b) ==
    /\ b.accepted \subseteq b.answered /\ b.answered \subseteq b.asked
    /\ "psh" \in b.asked => "syn" \in b.accepted
    /\ "fin" \in b.asked => "psh" \in b.asked
BooksHonest == \A r \in Run : Honest(ledger[r])

Book == [asked : SUBSET Stage, answered : SUBSET Stage, accepted : SUBSET Stage]

\* One run's step keeps the others' books.
LEMMA OneBook ==
    ASSUME ledger \in [Run -> Book], BooksHonest, NEW r \in Run, NEW b \in Book, Honest(b),
           ledger' = [ledger EXCEPT ![r] = b]
    PROVE  ledger' \in [Run -> Book] /\ BooksHonest'
<1>1. ledger' \in [Run -> Book]
  BY Zenon
<1>2. \A q \in Run : ledger'[q] = b \/ ledger'[q] = ledger[q]
  BY Zenon
<1>3. \A q \in Run : Honest(ledger'[q])
  BY Zenon, <1>2 DEF BooksHonest
<1> QED
  BY Zenon, <1>1, <1>3 DEF BooksHonest

\* It follows from the abstract specification alone.
LEMMA ExchangeMeans == Ex!Spec => []BooksHonest
<1> DEFINE Inv == ledger \in [Run -> Book] /\ BooksHonest
<1>1. Ex!Init => Inv
  <2> SUFFICES ASSUME Ex!Init PROVE Inv
    BY Zenon
  <2>1. Ex!Nothing \in Book /\ Honest(Ex!Nothing)
    BY DEF Ex!Nothing, Book, Honest
  <2> QED
    BY Zenon, <2>1 DEF Ex!Init, BooksHonest
<1>2. Inv /\ [Ex!Next]_(Ex!vars) => Inv'
  <2> SUFFICES ASSUME Inv, Ex!Next \/ UNCHANGED Ex!vars PROVE Inv'
    BY Zenon
  <2>1. ASSUME NEW r \in Run PROVE ledger[r] \in Book /\ Honest(ledger[r])
    BY Zenon DEF BooksHonest
  <2>2. ASSUME NEW r \in Run, NEW s \in Stage, Ex!Ask(r, s) PROVE Inv'
    <3> DEFINE b == [ledger[r] EXCEPT !.asked = @ \cup {s}]
    <3>1. ledger' = [ledger EXCEPT ![r] = b]
      BY Zenon, <2>2 DEF Ex!Ask
    <3>2. /\ Ex!AskedBefore[s] \subseteq ledger[r].asked
          /\ Ex!AcceptedBefore[s] \subseteq ledger[r].accepted
      BY Zenon, <2>2 DEF Ex!Ask
    <3>3. b \in Book /\ Honest(b)
      BY <2>1, <3>2 DEF Book, Honest, Ex!AskedBefore, Ex!AcceptedBefore
    <3> HIDE DEF b
    <3> QED
      BY Zenon, <3>1, <3>3, OneBook
  <2>3. ASSUME NEW r \in Run, NEW s \in Stage, Ex!Answer(r, s) PROVE Inv'
    <3> DEFINE b == [ledger[r] EXCEPT !.answered = @ \cup {s}]
    <3>1. ledger' = [ledger EXCEPT ![r] = b] /\ s \in ledger[r].asked
      BY Zenon, <2>3 DEF Ex!Answer
    <3>2. b \in Book /\ Honest(b)
      BY <2>1, <3>1 DEF Book, Honest
    <3> HIDE DEF b
    <3> QED
      BY Zenon, <3>1, <3>2, OneBook
  <2>4. ASSUME NEW r \in Run, NEW s \in Stage, Ex!Accept(r, s) PROVE Inv'
    <3> DEFINE b == [ledger[r] EXCEPT !.accepted = @ \cup {s}]
    <3>1. ledger' = [ledger EXCEPT ![r] = b] /\ s \in ledger[r].answered
      BY Zenon, <2>4 DEF Ex!Accept
    <3>2. b \in Book /\ Honest(b)
      BY <2>1, <3>1 DEF Book, Honest
    <3> HIDE DEF b
    <3> QED
      BY Zenon, <3>1, <3>2, OneBook
  <2>5. ASSUME NEW r \in Run, NEW s \in Stage, NEW t \in Stage, Ex!AcceptAndAsk(r, s, t) PROVE Inv'
    <3> DEFINE b == [ledger[r] EXCEPT !.accepted = @ \cup {s}, !.asked = @ \cup {t}]
    <3>1. ledger' = [ledger EXCEPT ![r] = b] /\ s \in ledger[r].answered
      BY <2>1, <2>5 DEF Ex!AcceptAndAsk
    <3>2. /\ Ex!AskedBefore[t] \subseteq ledger[r].asked
          /\ Ex!AcceptedBefore[t] \subseteq ledger[r].accepted \cup {s}
      BY Zenon, <2>5 DEF Ex!AcceptAndAsk
    <3>3. /\ t = "psh" => "syn" \in ledger[r].accepted \cup {s}
          /\ t = "fin" => "psh" \in ledger[r].asked
      BY <3>2 DEF Ex!AskedBefore, Ex!AcceptedBefore
    <3>4. /\ b \in Book /\ b.answered = ledger[r].answered
          /\ b.accepted = ledger[r].accepted \cup {s} /\ b.asked = ledger[r].asked \cup {t}
      BY <2>1 DEF Book
    <3>5. Honest(b)
      <4> HIDE DEF b
      <4> QED
        BY Zenon, <2>1, <3>1, <3>3, <3>4 DEF Honest
    <3> HIDE DEF b
    <3> QED
      BY Zenon, <3>1, <3>4, <3>5, OneBook
  <2>6. CASE UNCHANGED Ex!vars
    BY Zenon, <2>6 DEF Ex!vars, BooksHonest
  <2> HIDE DEF Inv
  <2> QED
    BY Zenon, <2>2, <2>3, <2>4, <2>5, <2>6 DEF Ex!Next
<1>3. Inv => BooksHonest
  BY Zenon
<1> HIDE DEF Inv
<1> QED
  BY <1>1, <1>2, <1>3, PTL DEF Ex!Spec

\* A client run reports an answer only if a responder gave it one, to what it asked, and it
\* sends data and FIN only after the SYN/ACK, whatever is delayed, duplicated or reset, and
\* with other runs on the same host (runTCP, runUDP and runICMP of client/main.go).
THEOREM ReportsAreReal == PortsDiffer => (Spec => []BooksHonest)
  BY DialogImplementsExchange, ExchangeMeans, PTL DEF ImplementsExchange

-----------------------------------------------------------------------------
(* The sequence numbers of a flow.                                         *)

FlowOf(r) == <<flags[r].sport, flags[r].dport>>

\* The runs whose data has been handled, and how far at most a flow's number has come
\* since the first segment to a run: a SYN/ACK and the data, each once or duplicated.
Handled == {r \in Run : "psh" \in ledger[r].asked /\ DataSeg(r) \notin wire}
Spent == 1 + MetaLen + (Cardinality(Handled) + faults) * DataLen

\* The number n is past the segment s, by at most max; and past all of a list.
Behind(s, n, max) == \E d \in Nat : s.size <= d /\ d <= max /\ n = Plus(s.seq, d)
Past(list, n, max) == \A i \in DOMAIN list : Behind(list[i], n, max)

\* The flow's number is past everything that was sent to the run.
Tracked(r) == FlowOf(r) \in DOMAIN flows /\ Past(served[r], flows[FlowOf(r)], Spent)

Intact(list) ==
    \A i, j \in DOMAIN list : i < j /\ list[j].clean => ~Overlap(list[i], list[j])

\* Data and FIN come after a SYN that was answered.
Begun(r) ==
    /\ "psh" \in ledger[r].asked => flags[r].cmd = "tcp"
    /\ "fin" \in ledger[r].asked => "psh" \in ledger[r].asked
    /\ "psh" \in ledger[r].asked \/ "syn" \in ledger[r].answered => served[r] # << >>

\* A run has one segment of each kind.
Own(m) ==
    /\ m.kind = "syn" => m = SynSeg(m.run)
    /\ m.kind = "psh" => m = DataSeg(m.run)
    /\ m.kind = "fin" => m = FinSeg(m.run)

Sized == [kind : Kind, seq : 0..(Mod - 1), size : Nat, clean : BOOLEAN]

NumberInv ==
    /\ SafeInv /\ served \in [Run -> Seq(Sized)]
    /\ \A r \in Run : Begun(r)
    /\ \A r \in Run : r \notin torn /\ served[r] # << >> => Tracked(r)
    /\ \A m \in wire : Own(m)
    /\ \A r \in Run : Intact(served[r])

\* Numbers less than a full turn apart differ.
LEMMA PlusDiffer ==
    ASSUME NEW n \in Nat, NEW a \in Nat, NEW c \in Nat, a < c, c < Mod
    PROVE  Plus(n, a) # Plus(n, c)
<1> SUFFICES ASSUME Plus(n, a) = Plus(n, c) PROVE FALSE
  OBVIOUS
<1> DEFINE p == (n + a) \div Mod
           q == (n + c) \div Mod
           u == Plus(n, a)
<1>1. Mod \in Nat \ {0}
  BY DialogAssumption
<1>2. p \in Nat /\ q \in Nat /\ u \in 0..(Mod - 1) /\ n + a = Mod * p + u /\ n + c = Mod * q + u
  BY <1>1 DEF Plus
<1> HIDE DEF p, q, u
<1>3. \A d \in Nat : Mod * d \in Nat
  BY <1>1
<1>4. CASE q > p
  <2> DEFINE d == q - p - 1
  <2>1. d \in Nat /\ q = p + 1 + d
    BY <1>2, <1>4
  <2> HIDE DEF d
  <2>2. Mod * q = Mod * p + Mod + Mod * d
    BY <1>1, <1>2, <2>1
  <2>3. Mod * d \in Nat /\ Mod * q \in Nat /\ Mod * p \in Nat
    BY <1>2, <1>3, <2>1
  <2> QED
    BY <1>1, <1>2, <2>2, <2>3
<1>5. CASE q <= p
  <2> DEFINE d == p - q
  <2>1. d \in Nat /\ p = q + d
    BY <1>2, <1>5
  <2> HIDE DEF d
  <2>2. Mod * p = Mod * q + Mod * d
    BY <1>1, <1>2, <2>1
  <2>3. Mod * d \in Nat /\ Mod * q \in Nat /\ Mod * p \in Nat
    BY <1>2, <1>3, <2>1
  <2> QED
    BY <1>1, <1>2, <2>2, <2>3
<1> QED
  BY <1>2, <1>4, <1>5

\* A segment that starts past the end of another, within a full turn, shares no number
\* with it.
LEMMA Apart ==
    ASSUME NEW s \in Sized, NEW t \in Sized, NEW d \in Nat,
           s.size <= d, d + t.size <= Mod, t.seq = Plus(s.seq, d)
    PROVE  ~Overlap(s, t)
<1> SUFFICES ASSUME NEW i \in 0..(s.size - 1), NEW j \in 0..(t.size - 1),
                    Plus(s.seq, i) = Plus(t.seq, j)
             PROVE  FALSE
  BY Zenon DEF Overlap
<1>1. /\ s.size \in Nat /\ t.size \in Nat /\ s.seq \in Nat
  BY DialogAssumption DEF Sized
<1>2. i \in Nat /\ j \in Nat /\ i < d + j /\ d + j < Mod /\ d + j \in Nat
  BY <1>1, DialogAssumption
<1>3. Plus(Plus(s.seq, d), j) = Plus(s.seq, d + j)
  <2>1. \A p \in Nat : Plus(Plus(p, d), j) = Plus(p, d + j)
    BY Zenon, <1>2, PlusPlus
  <2> QED
    BY Zenon, <1>1, <2>1
<1> QED
  BY Zenon, <1>1, <1>2, <1>3, PlusDiffer


\* Past a segment is past it when more is allowed, and when the number moves on.
LEMMA BehindMore ==
    ASSUME NEW s \in Sized, NEW n, NEW max \in Nat, NEW more \in Nat, max <= more, Behind(s, n, max)
    PROVE  Behind(s, n, more)
BY DEF Behind

LEMMA BehindPlus ==
    ASSUME NEW s \in Sized, NEW n, NEW max \in Nat, NEW k \in Nat, Behind(s, n, max)
    PROVE  Behind(s, Plus(n, k), max + k)
<1>1. PICK d \in Nat : s.size <= d /\ d <= max /\ n = Plus(s.seq, d)
  BY Zenon DEF Behind
<1>2. s.seq \in Nat /\ s.size \in Nat
  BY DialogAssumption DEF Sized
<1>3. Plus(Plus(s.seq, d), k) = Plus(s.seq, d + k)
  <2>1. \A p \in Nat : Plus(Plus(p, d), k) = Plus(p, d + k)
    BY SMT, PlusPlus
  <2> QED
    BY Zenon, <1>2, <2>1
<1>4. d + k \in Nat /\ s.size <= d + k /\ d + k <= max + k
  BY <1>1, <1>2
<1> QED
  BY Zenon, <1>1, <1>3, <1>4 DEF Behind

\* A segment sent at the flow's number is apart from all it is past.
LEMMA PastApart ==
    ASSUME NEW list \in Seq(Sized), NEW n, NEW max \in Nat, Past(list, n, max),
           NEW t \in Sized, t.seq = n, max + t.size <= Mod, NEW i \in DOMAIN list
    PROVE  ~Overlap(list[i], t)
<1>1. list[i] \in Sized
  OBVIOUS
<1>2. PICK d \in Nat : list[i].size <= d /\ d <= max /\ n = Plus(list[i].seq, d)
  BY Zenon DEF Past, Behind
<1>3. d + t.size <= Mod
  BY <1>2, DialogAssumption DEF Sized
<1> QED
  BY Zenon, <1>1, <1>2, <1>3, Apart

\* One more segment in the list.
LEMMA OneMore ==
    ASSUME NEW list \in Seq(Sized), NEW t \in Sized, Intact(list),
           t.clean => \A i \in DOMAIN list : ~Overlap(list[i], t)
    PROVE  /\ Append(list, t) \in Seq(Sized) /\ Append(list, t) # << >>
           /\ Intact(Append(list, t))
           /\ \A n, max : Past(list, n, max) /\ Behind(t, n, max) => Past(Append(list, t), n, max)
<1> DEFINE more == Append(list, t)
<1>1. /\ more \in Seq(Sized) /\ DOMAIN list = 1..Len(list) /\ Len(list) \in Nat
      /\ DOMAIN more = 1..(Len(list) + 1) /\ more[Len(list) + 1] = t
      /\ \A i \in 1..Len(list) : more[i] = list[i]
  OBVIOUS
<1>2. more # << >>
  BY <1>1
<1> HIDE DEF more
<1>3. Intact(more)
  <2> SUFFICES ASSUME NEW i \in DOMAIN more, NEW j \in DOMAIN more, i < j, more[j].clean
               PROVE  ~Overlap(more[i], more[j])
    BY Zenon DEF Intact
  <2>1. i \in DOMAIN list /\ more[i] = list[i]
    BY <1>1
  <2>2. CASE j \in DOMAIN list
    BY Zenon, <1>1, <2>1, <2>2 DEF Intact
  <2>3. CASE j \notin DOMAIN list
    <3>1. j = Len(list) + 1
      BY <1>1, <2>3
    <3> QED
      BY Zenon, <1>1, <2>1, <3>1
  <2> QED
    BY Zenon, <2>2, <2>3
<1>4. ASSUME NEW n, NEW max, Past(list, n, max), Behind(t, n, max) PROVE Past(more, n, max)
  <2> SUFFICES ASSUME NEW i \in DOMAIN more PROVE Behind(more[i], n, max)
    BY Zenon DEF Past
  <2>1. i \in 1..Len(list) \/ i = Len(list) + 1
    BY <1>1
  <2> QED
    BY Zenon, <1>1, <1>4, <2>1 DEF Past
<1> QED
  BY Zenon, <1>1, <1>2, <1>3, <1>4 DEF more

LEMMA PastMore ==
    ASSUME NEW list \in Seq(Sized), NEW n, NEW max \in Nat, Past(list, n, max)
    PROVE  /\ \A more \in Nat : max <= more => Past(list, n, more)
           /\ \A k \in Nat : Past(list, Plus(n, k), max + k)
<1>1. \A i \in DOMAIN list : list[i] \in Sized
  OBVIOUS
<1> QED
  BY Zenon, <1>1, BehindMore, BehindPlus DEF Past

\* What is needed of finite sets. Counted, below, takes it from the library, which is not
\* in scope before that: the provers are several times slower with it.
Counting ==
    \A S : IsFiniteSet(S) =>
        /\ Cardinality(S) \in Nat
        /\ \A T \in SUBSET S : IsFiniteSet(T) /\ Cardinality(T) <= Cardinality(S)
        /\ \A x : x \notin S => Cardinality(S \cup {x}) = Cardinality(S) + 1
Bounded == NoWrap /\ Counting

\* What the dialogs of a host can spend leaves room for a FIN.
LEMMA SpentFits ==
    ASSUME Bounded, NEW s \in Scenario, NEW H, H \subseteq Dialogs(s), NEW n \in 0..MaxFaults
    PROVE  LET spent == 1 + MetaLen + (Cardinality(H) + n) * DataLen
           IN  /\ IsFiniteSet(H) /\ Cardinality(H) \in Nat /\ spent \in Nat
               /\ spent + (1 + MetaLen) <= Mod
<1> DEFINE c == Cardinality(H)
           t == Cardinality(Dialogs(s))
<1>1. IsFiniteSet(Dialogs(s)) /\ 2 * (1 + MetaLen) + (t + MaxFaults) * DataLen <= Mod
  BY Zenon DEF Bounded, NoWrap
<1>2. IsFiniteSet(H) /\ c <= t
  BY Zenon, <1>1 DEF Bounded, Counting
<1>3. c \in Nat /\ t \in Nat
  BY Zenon, <1>1, <1>2 DEF Bounded, Counting
<1>4. n \in Nat /\ n <= MaxFaults /\ MaxFaults \in Nat /\ MetaLen \in Nat /\ DataLen \in Nat
      /\ Mod \in Nat
  BY DialogAssumption DEF DataLen
<1> HIDE DEF c, t
<1>5. PICK e \in Nat : t + MaxFaults = (c + n) + e
  <2>1. (t + MaxFaults) - (c + n) \in Nat
    BY <1>2, <1>3, <1>4
  <2> QED
    BY <1>3, <1>4, <2>1
<1>6. (t + MaxFaults) * DataLen = (c + n) * DataLen + e * DataLen
  BY <1>3, <1>4, <1>5
<1>7. (c + n) * DataLen \in Nat /\ e * DataLen \in Nat
  BY <1>3, <1>4
<1> QED
  BY <1>1, <1>2, <1>3, <1>4, <1>6, <1>7 DEF c

-----------------------------------------------------------------------------
(* The steps.                                                              *)

\* What the bound on a flow's number is made of.
LEMMA Budget ==
    ASSUME NumberInv, Bounded
    PROVE  /\ IsFiniteSet(Handled) /\ Cardinality(Handled) \in Nat /\ faults \in 0..MaxFaults
           /\ Spent \in Nat /\ 1 + MetaLen <= Spent /\ Spent + (1 + MetaLen) <= Mod
<1>1. Handled \subseteq Dialogs(flags) /\ flags \in Scenario /\ faults \in 0..MaxFaults
  BY Zenon DEF NumberInv, SafeInv, TypeOK, Begun, Handled, Dialogs
<1>2. /\ IsFiniteSet(Handled) /\ Cardinality(Handled) \in Nat
      /\ Spent \in Nat /\ Spent + (1 + MetaLen) <= Mod
  BY Zenon, <1>1, SpentFits DEF Spent
<1>3. MetaLen \in Nat /\ DataLen \in Nat /\ faults \in Nat
  BY <1>1, DialogAssumption DEF DataLen
<1>4. (Cardinality(Handled) + faults) * DataLen \in Nat
  BY <1>2, <1>3
<1>5. 1 + MetaLen <= Spent
  BY <1>3, <1>4 DEF Spent
<1> QED
  BY Zenon, <1>1, <1>2, <1>5

\* What the segments are does not change.
LEMMA SegmentsFixed ==
    ASSUME flags' = flags
    PROVE  \A r : /\ SynSeg(r)' = SynSeg(r) /\ DataSeg(r)' = DataSeg(r) /\ FinSeg(r)' = FinSeg(r)
                  /\ FlowOf(r)' = FlowOf(r)
BY Zenon DEF SynSeg, DataSeg, FinSeg, Probe, FlowOf

\* Run r sends frames of its own, its data when it asks it.
Emits(r, fs) ==
    /\ UNCHANGED <<flags, flows, faults, served, torn>> /\ wire' = wire \cup fs
    /\ \A f \in fs : Own(f) /\ f.run = r
    /\ \A q \in Run : /\ ledger'[q].answered = ledger[q].answered
                      /\ q # r => ledger'[q].asked = ledger[q].asked
    /\ ledger[r].asked \subseteq ledger'[r].asked
    /\ DataSeg(r) \in fs => "psh" \notin ledger[r].asked
    /\ "psh" \in ledger'[r].asked => "psh" \in ledger[r].asked \/ DataSeg(r) \in fs

\* A client's step leaves the responder's numbers alone.
LEMMA EmitNumbers ==
    ASSUME NumberInv, SafeInv', NEW r \in Run, NEW fs, Emits(r, fs), Begun(r)'
    PROVE  NumberInv'
<1>0. /\ UNCHANGED <<flags, flows, faults, served, torn>> /\ wire' = wire \cup fs
      /\ \A f \in fs : Own(f) /\ f.run = r
      /\ \A q \in Run : /\ ledger'[q].answered = ledger[q].answered
                        /\ q # r => ledger'[q].asked = ledger[q].asked
      /\ ledger[r].asked \subseteq ledger'[r].asked
      /\ DataSeg(r) \in fs => "psh" \notin ledger[r].asked
      /\ "psh" \in ledger'[r].asked => "psh" \in ledger[r].asked \/ DataSeg(r) \in fs
  BY Zenon DEF Emits
<1>1. \A q : /\ SynSeg(q)' = SynSeg(q) /\ DataSeg(q)' = DataSeg(q) /\ FinSeg(q)' = FinSeg(q)
             /\ FlowOf(q)' = FlowOf(q)
  BY Zenon, <1>0, SegmentsFixed
<1>2. \A q \in Run : DataSeg(q).run = q
  BY Zenon, Segments DEF NumberInv, SafeInv
<1>3. \A q \in Run : q \in Handled' <=> q \in Handled
  <2> SUFFICES ASSUME NEW q \in Run
               PROVE  "psh" \in ledger'[q].asked /\ DataSeg(q) \notin wire' <=>
                      "psh" \in ledger[q].asked /\ DataSeg(q) \notin wire
    BY Zenon, <1>0, <1>1 DEF Handled
  <2>1. CASE q = r
    BY Zenon, <1>0, <2>1
  <2>2. CASE q # r
    BY Zenon, <1>0, <1>2, <2>2
  <2> QED
    BY Zenon, <1>0, <2>1, <2>2
<1>4. Handled' = Handled
  BY Zenon, <1>3 DEF Handled
<1>5. Spent' = Spent
  BY Zenon, <1>0, <1>4 DEF Spent
<1>6. \A q \in Run : Begun(q)'
  BY Zenon, <1>0 DEF NumberInv, Begun
<1>7. \A q \in Run : q \notin torn' /\ served'[q] # << >> => Tracked(q)'
  BY Zenon, <1>0, <1>1, <1>5 DEF NumberInv, Tracked
<1>8. \A m \in wire' : Own(m)'
  BY Zenon, <1>0, <1>1 DEF NumberInv, Own
<1> QED
  BY Zenon, <1>0, <1>6, <1>7, <1>8 DEF NumberInv

\* The segments of a run are its own.
LEMMA OwnSegments ==
    ASSUME TypeOK, NEW r \in Run
    PROVE  /\ \A f \in {SynSeg(r), AckSeg(r), DataSeg(r), FinSeg(r)} : Own(f) /\ f.run = r
           /\ DataSeg(r) \notin {SynSeg(r), AckSeg(r), FinSeg(r)}
<1>1. /\ SynSeg(r).run = r /\ AckSeg(r).run = r /\ DataSeg(r).run = r /\ FinSeg(r).run = r
      /\ SynSeg(r).kind = "syn" /\ AckSeg(r).kind = "ack" /\ DataSeg(r).kind = "psh"
      /\ FinSeg(r).kind = "fin"
  BY Zenon, Segments
<1>2. Own(SynSeg(r)) /\ Own(AckSeg(r)) /\ Own(DataSeg(r)) /\ Own(FinSeg(r))
  BY Zenon, <1>1 DEF Own
<1> QED
  BY Zenon, <1>1, <1>2

\* A run starts.
LEMMA StartNumbers ==
    ASSUME NumberInv, NEW r \in Run, StartProbe(r) \/ StartTCP(r)
    PROVE  NumberInv'
<1>0. /\ SafeInv /\ TypeOK /\ Stand(pc[r], flags[r].cmd, ledger[r]) /\ ledger[r] \in Entry
      /\ Begun(r) /\ UNCHANGED <<flags, flows, faults, served, torn>> /\ pc[r] = "start"
  BY Zenon DEF NumberInv, SafeInv, Progress, TypeOK, Entry, StartProbe, StartTCP
<1>1. SafeInv' /\ ledger[r].asked = {}
  BY Zenon, <1>0, StartSafe DEF Stand
<1>2. ASSUME NEW s \in {"probe", "syn"}, Asks(r, s), NEW f, wire' = wire \cup {f}, Own(f), f.run = r,
             f # DataSeg(r)
      PROVE  NumberInv'
  <2>1. /\ \A q \in Run : /\ ledger'[q].answered = ledger[q].answered
                          /\ q # r => ledger'[q].asked = ledger[q].asked
        /\ ledger'[r].asked = {s}
    BY Zenon, <1>0, <1>1, <1>2 DEF Asks, TypeOK, Entry
  <2>2. "psh" \notin ledger'[r].asked /\ "fin" \notin ledger'[r].asked
    BY Zenon, <2>1
  <2>3. Begun(r)'
    BY Zenon, <1>0, <2>1, <2>2 DEF Begun
  <2>4. Emits(r, {f})
    BY Zenon, <1>0, <1>1, <1>2, <2>1, <2>2 DEF Emits
  <2> QED
    BY Zenon, <1>1, <2>3, <2>4, EmitNumbers
<1>3. CASE StartProbe(r)
  <2> DEFINE kind == IF flags[r].cmd = "udp" THEN "udp" ELSE "echo"
             f == Probe(r, kind, 0, MetaLen)
  <2>1. wire' = wire \cup {f} /\ Asks(r, "probe") /\ kind \in {"udp", "echo"} /\ kind \in Kind
    BY Zenon, <1>3 DEF StartProbe, Emit, Kind
  <2>2. 0 \in 0..(Mod - 1) /\ MetaLen \in Nat
    BY DialogAssumption
  <2>3. f.run = r /\ f.kind = kind
    BY <1>0, <2>1, <2>2, ProbeType
  <2> HIDE DEF f, kind
  <2>4. DataSeg(r).kind = "psh"
    BY Zenon, <1>0, Segments
  <2> QED
    BY Zenon, <1>2, <2>1, <2>3, <2>4 DEF Own
<1>4. CASE StartTCP(r)
  <2>1. wire' = wire \cup {SynSeg(r)} /\ Asks(r, "syn")
    BY Zenon, <1>4 DEF StartTCP, Emit
  <2> QED
    BY Zenon, <1>0, <1>2, <2>1, OwnSegments
<1> QED
  BY Zenon, <1>3, <1>4

\* A run reads an answer, or its deadline passes.
LEMMA WaitNumbers ==
    ASSUME NumberInv, NEW r \in Run, Timeout(r) \/ \E c \in heard : RecvMatch(r, c)
    PROVE  NumberInv'
<1>0. /\ SafeInv /\ TypeOK /\ Stand(pc[r], flags[r].cmd, ledger[r]) /\ ledger[r] \in Entry
      /\ Begun(r) /\ UNCHANGED <<flags, flows, faults, served, torn>>
  BY Zenon DEF NumberInv, SafeInv, Progress, TypeOK, Entry, Timeout, RecvMatch
<1>1. SafeInv'
  BY Zenon, <1>0, WaitSafe
<1> DEFINE Asked(a) == /\ \A q \in Run : /\ ledger'[q].answered = ledger[q].answered
                                         /\ q # r => ledger'[q].asked = ledger[q].asked
                       /\ ledger'[r].asked = ledger[r].asked \cup a
<1>2. /\ \A s, t : AcceptsAndAsks(r, s, t) => Asked({t})
      /\ \A s : Accepts(r, s) => Asked({})
      /\ \A s : Asks(r, s) => Asked({s})
      /\ ledger' = ledger => Asked({})
  <2>1. ledger \in [Run -> Entry]
    BY Zenon, <1>0 DEF TypeOK, Entry
  <2>2. ASSUME NEW s, NEW t, AcceptsAndAsks(r, s, t) PROVE Asked({t})
    BY <2>1, <2>2 DEF AcceptsAndAsks, Entry
  <2>3. ASSUME NEW s, Accepts(r, s) PROVE Asked({})
    BY <2>1, <2>3 DEF Accepts, Entry
  <2>4. ASSUME NEW s, Asks(r, s) PROVE Asked({s})
    BY <2>1, <2>4 DEF Asks, Entry
  <2>5. ASSUME ledger' = ledger PROVE Asked({})
    BY Zenon, <2>5
  <2> QED
    BY Zenon, <2>2, <2>3, <2>4, <2>5
<1>3. ASSUME Asked({}), NEW fs \in SUBSET {AckSeg(r)}, wire' = wire \cup fs PROVE NumberInv'
  <2>1. Begun(r)'
    BY Zenon, <1>0, <1>3 DEF Begun
  <2>2. Emits(r, fs)
    BY Zenon, <1>0, <1>3, OwnSegments DEF Emits
  <2> QED
    BY Zenon, <1>1, <2>1, <2>2, EmitNumbers
<1>4. ASSUME pc[r] = "data", Asked({"fin"}), wire' = wire \cup {FinSeg(r)} PROVE NumberInv'
  <2>1. ledger[r].asked = {"syn", "psh"}
    BY Zenon, <1>0, <1>4 DEF Stand
  <2>2. Begun(r)'
    BY Zenon, <1>0, <1>4, <2>1 DEF Begun
  <2>3. Emits(r, {FinSeg(r)})
    BY Zenon, <1>0, <1>4, <2>1, OwnSegments DEF Emits
  <2> QED
    BY Zenon, <1>1, <2>2, <2>3, EmitNumbers
<1>5. ASSUME pc[r] = "synack", flags[r].cmd = "tcp", Asked({"psh"}), served[r] # << >>,
             wire' = wire \cup {AckSeg(r), DataSeg(r)}
      PROVE  NumberInv'
  <2>1. ledger[r].asked = {"syn"}
    BY Zenon, <1>0, <1>5 DEF Stand
  <2>2. Begun(r)'
    BY Zenon, <1>0, <1>5, <2>1 DEF Begun
  <2>3. Emits(r, {AckSeg(r), DataSeg(r)})
    <3>1. \A f \in {AckSeg(r), DataSeg(r)} : Own(f) /\ f.run = r
      BY Zenon, <1>0, OwnSegments
    <3> QED
      BY Zenon, <1>0, <1>5, <2>1, <3>1 DEF Emits
  <2> QED
    BY Zenon, <1>1, <2>2, <2>3, EmitNumbers
<1>6. ASSUME NEW c \in heard, RecvMatch(r, c), pc[r] = "synack" PROVE served[r] # << >>
  <2>1. c.run = r /\ c.kind = "synack"
    BY Zenon, <1>6 DEF RecvMatch, Match
  <2>2. IF c.to = "vm" THEN Sent(c) ELSE Answered(c)
    BY Zenon, <1>0 DEF SafeInv, Traffic
  <2>3. "syn" \in ledger[r].answered
    BY Zenon, <2>1, <2>2 DEF Sent, Answered
  <2> QED
    BY Zenon, <1>0, <2>3 DEF Begun
<1>7. ASSUME NEW c \in heard, RecvMatch(r, c) PROVE NumberInv'
  BY Zenon, <1>0, <1>2, <1>3, <1>4, <1>5, <1>6, <1>7, RecvCases DEF Emit
<1>8. CASE Timeout(r)
  BY Zenon, <1>2, <1>3, <1>4, <1>8 DEF Timeout, Emit
<1> QED
  BY Zenon, <1>7, <1>8

\* One more frame handled or duplicated.
LEMMA SpentMore ==
    ASSUME NEW c \in Nat, NEW n \in Nat
    PROVE  /\ 1 + MetaLen + ((c + 1) + n) * DataLen = (1 + MetaLen + (c + n) * DataLen) + DataLen
           /\ 1 + MetaLen + (c + (n + 1)) * DataLen = (1 + MetaLen + (c + n) * DataLen) + DataLen
<1>1. MetaLen \in Nat /\ DataLen \in Nat
  BY DialogAssumption DEF DataLen
<1>2. (c + n) * DataLen \in Nat /\ ((c + n) + 1) * DataLen = (c + n) * DataLen + DataLen
  BY <1>1
<1>3. (c + 1) + n = (c + n) + 1 /\ c + (n + 1) = (c + n) + 1
  OBVIOUS
<1> QED
  BY <1>1, <1>2, <1>3

\* The host's TCP resets a connection.
LEMMA ResetNumbers ==
    ASSUME NumberInv, Bounded, NEW m \in heard, Reset(m)
    PROVE  NumberInv'
<1> DEFINE f == [run |-> NoRun, to |-> "vm", kind |-> "rst",
                 sport |-> m.dport, dport |-> m.sport, vni |-> m.vni,
                 need |-> FALSE, seq |-> m.ack, ack |-> 0, len |-> 0]
<1>0. /\ SafeInv /\ TypeOK /\ UNCHANGED <<flags, pc, heard, flows, ledger, served, torn>>
      /\ wire' = wire \cup {f} /\ f.kind = "rst"
  BY Zenon DEF NumberInv, SafeInv, Reset
<1> HIDE DEF f
<1>1. SafeInv'
  BY Zenon, <1>0, ResetSafe
<1>2. \A q : /\ SynSeg(q)' = SynSeg(q) /\ DataSeg(q)' = DataSeg(q) /\ FinSeg(q)' = FinSeg(q)
             /\ FlowOf(q)' = FlowOf(q)
  BY Zenon, <1>0, SegmentsFixed
<1>3. \A q \in Run : DataSeg(q).kind = "psh"
  BY Zenon, <1>0, Segments
<1>4. \A q \in Run : q \in Handled' <=> q \in Handled
  BY Zenon, <1>0, <1>2, <1>3 DEF Handled
<1>5. Handled' = Handled
  BY Zenon, <1>4 DEF Handled
<1>6. Cardinality(Handled) \in Nat /\ faults \in Nat /\ faults' = faults + 1 /\ Spent \in Nat
  BY Budget DEF Reset, Failing
<1>7. Spent' = Spent + DataLen
  BY Zenon, <1>5, <1>6, SpentMore DEF Spent
<1>8. Spent' \in Nat /\ Spent <= Spent'
  BY <1>6, <1>7, DialogAssumption DEF DataLen
<1>9. \A q \in Run : q \notin torn' /\ served'[q] # << >> => Tracked(q)'
  BY Zenon, <1>0, <1>2, <1>6, <1>8, PastMore DEF NumberInv, Tracked
<1>10. \A g \in wire' : Own(g)'
  BY Zenon, <1>0, <1>2 DEF NumberInv, Own
<1>11. \A q \in Run : Begun(q)'
  BY Zenon, <1>0 DEF NumberInv, Begun
<1> QED
  BY Zenon, <1>0, <1>1, <1>9, <1>10, <1>11 DEF NumberInv

\* What handling a frame does to the bound.
LEMMA HandleSpends ==
    ASSUME NumberInv, Bounded, NEW m \in wire, NEW dup \in BOOLEAN, Handle(m, dup)
    PROVE  /\ Spent' \in Nat /\ Spent <= Spent'
           /\ m.kind = "psh" => Spent' = Spent + DataLen /\ Spent' <= Mod
<1>0. /\ SafeInv /\ TypeOK /\ flags' = flags /\ wire' = (IF dup THEN wire ELSE wire \ {m})
      /\ faults' = faults + (IF dup THEN 1 ELSE 0) /\ Own(m) /\ Sent(m)
  BY Zenon DEF NumberInv, SafeInv, Traffic, Handle, Failing
<1>1. SafeInv' /\ \A r \in Run : ledger'[r].asked = ledger[r].asked
  <2>1. ledger \in [Run -> Entry]
    BY Zenon, <1>0 DEF TypeOK, Entry
  <2>2. ASSUME NEW x \in Run, NEW st, ledger' = [ledger EXCEPT ![x].answered = @ \cup {st}]
        PROVE  \A r \in Run : ledger'[r].asked = ledger[r].asked
    BY <2>1, <2>2 DEF Entry
  <2> QED
    BY Zenon, <1>0, <2>2, HandleSafe
<1>2. \A q : DataSeg(q)' = DataSeg(q)
  BY Zenon, <1>0, SegmentsFixed
<1>3. \A q \in Run : DataSeg(q).kind = "psh" /\ DataSeg(q).run = q
  BY Zenon, <1>0, Segments
<1>4. /\ Cardinality(Handled) \in Nat /\ IsFiniteSet(Handled) /\ faults \in Nat /\ Spent \in Nat
      /\ DataLen \in Nat /\ Mod \in Nat /\ MetaLen \in Nat
  BY Budget, DialogAssumption DEF DataLen
<1>5. ASSUME m.kind = "psh" PROVE Spent' = Spent + DataLen
  <2>1. m.run \in Run /\ m = DataSeg(m.run) /\ "psh" \in ledger[m.run].asked
    BY Zenon, <1>0, <1>5 DEF Own, Sent
  <2>2. CASE dup
    <3>1. Handled' = Handled
      BY Zenon, <1>0, <1>1, <1>2, <2>2 DEF Handled
    <3>2. faults' = faults + 1
      BY Zenon, <1>0, <2>2
    <3> QED
      BY Zenon, <1>4, <3>1, <3>2, SpentMore DEF Spent
  <2>3. CASE ~dup
    <3>1. wire' = wire \ {m} /\ faults' = faults
      BY <1>0, <1>4, <2>3
    <3>2. m.run \notin Handled
      BY Zenon, <2>1 DEF Handled
    <3>3. \A q \in Run : q \in Handled' <=> q \in Handled \/ q = m.run
      BY Zenon, <1>1, <1>2, <1>3, <2>1, <3>1 DEF Handled
    <3>4. Handled' = Handled \cup {m.run}
      BY Zenon, <2>1, <3>3 DEF Handled
    <3>5. Cardinality(Handled') = Cardinality(Handled) + 1
      BY Zenon, <1>4, <3>2, <3>4 DEF Bounded, Counting
    <3>6. 1 + MetaLen + ((Cardinality(Handled) + 1) + faults) * DataLen = Spent + DataLen
      BY Zenon, <1>4, SpentMore DEF Spent
    <3> QED
      BY Zenon, <3>1, <3>5, <3>6 DEF Spent
  <2> QED
    BY Zenon, <2>2, <2>3
<1>6. ASSUME m.kind # "psh" PROVE Spent' = Spent \/ Spent' = Spent + DataLen
  <2>1. \A q \in Run : q \in Handled' <=> q \in Handled
    BY Zenon, <1>0, <1>1, <1>2, <1>3, <1>6 DEF Handled
  <2>2. Handled' = Handled
    BY Zenon, <2>1 DEF Handled
  <2>3. CASE faults' = faults
    BY Zenon, <2>2, <2>3 DEF Spent
  <2>4. CASE faults' = faults + 1
    BY Zenon, <1>4, <2>2, <2>4, SpentMore DEF Spent
  <2> QED
    BY <1>0, <1>4, <2>3, <2>4
<1>7. Spent' \in Nat /\ Spent <= Spent'
  BY <1>4, <1>5, <1>6
<1>8. Spent' <= Mod
  <2>1. flags \in Scenario /\ Handled' \subseteq Dialogs(flags) /\ faults' \in 0..MaxFaults
    BY Zenon, <1>0, <1>1 DEF NumberInv, SafeInv, TypeOK, Begun, Handled, Dialogs
  <2>2. Spent' + (1 + MetaLen) <= Mod
    BY Zenon, <2>1, SpentFits DEF Spent
  <2>3. \A x \in Nat : x + (1 + MetaLen) <= Mod => x <= Mod
    BY <1>4
  <2> QED
    BY Zenon, <1>7, <2>2, <2>3
<1> QED
  BY Zenon, <1>5, <1>7, <1>8

\* What the step has to leave true of the segments of run r.
Kept(r) ==
    /\ served'[r] \in Seq(Sized) /\ Intact(served'[r])
    /\ r \notin torn' /\ served'[r] # << >> => Tracked(r)'

\* Handling a frame tears the flows it removes or overwrites.
LEMMA HandleTears ==
    ASSUME NEW m, NEW dup, Handle(m, dup), NEW r \in Run, r \notin torn'
    PROVE  /\ r \notin torn
           /\ served[r] # << >> =>
                /\ FlowOf(r) \in DOMAIN flows => FlowOf(r) \in DOMAIN flows'
                /\ m.kind = "syn" => FlowOf(r) # FlowKey(m)
<1>1. torn' = torn \cup Tears(m, flows')
  BY Zenon DEF Handle
<1>2. served[r] # << >> => FlowOf(r) \notin LostFlows(m, flows')
  BY Zenon, <1>1 DEF Tears, FlowOf
<1> QED
  BY Zenon, <1>1, <1>2 DEF LostFlows

\* A run that is sent nothing, and whose flow stays or moves on with another's data.
LEMMA OthersKept ==
    ASSUME NumberInv, Bounded, NEW m \in wire, NEW dup \in BOOLEAN, Handle(m, dup), NEW r \in Run,
           served'[r] = served[r],
           FlowOf(r) \in DOMAIN flows /\ FlowOf(r) \in DOMAIN flows' =>
              \/ flows'[FlowOf(r)] = flows[FlowOf(r)]
              \/ m.kind = "syn" /\ FlowOf(r) = FlowKey(m)
              \/ m.kind = "psh" /\ flows'[FlowOf(r)] = Plus(flows[FlowOf(r)], DataLen)
    PROVE  Kept(r)
<1>1. served[r] \in Seq(Sized) /\ Intact(served[r])
  BY Zenon DEF NumberInv
<1>2. ASSUME r \notin torn', served[r] # << >> PROVE Tracked(r)'
  <2>1. Tracked(r)
    BY Zenon, <1>2, HandleTears DEF NumberInv
  <2>2. FlowOf(r) \in DOMAIN flows' /\ (m.kind = "syn" => FlowOf(r) # FlowKey(m))
    BY Zenon, <1>2, <2>1, HandleTears DEF Tracked
  <2>3. /\ Spent \in Nat /\ Spent' \in Nat /\ Spent <= Spent' /\ DataLen \in Nat
        /\ m.kind = "psh" => Spent' = Spent + DataLen
    <3>1. Spent \in Nat /\ DataLen \in Nat
      BY Budget, DialogAssumption DEF DataLen
    <3> QED
      BY Zenon, <3>1, HandleSpends
  <2>4. Past(served[r], flows[FlowOf(r)], Spent)
    BY Zenon, <2>1 DEF Tracked
  <2>5. Past(served[r], flows[FlowOf(r)], Spent')
    BY Zenon, <1>1, <2>3, <2>4, PastMore
  <2>6. m.kind = "psh" => Past(served[r], Plus(flows[FlowOf(r)], DataLen), Spent')
    BY Zenon, <1>1, <2>3, <2>4, PastMore
  <2>7. FlowOf(r)' = FlowOf(r)
    BY Zenon DEF Handle, FlowOf
  <2>8. Past(served'[r], flows'[FlowOf(r)], Spent')
    BY Zenon, <2>1, <2>2, <2>5, <2>6 DEF Tracked
  <2> QED
    BY Zenon, <2>2, <2>7, <2>8 DEF Tracked
<1> QED
  BY Zenon, <1>1, <1>2 DEF Kept

\* The answer to m is f, and t is what the run is served with it.
Serves(m, f, t) ==
    /\ BuildReplyL4(m).out = {f} /\ m.run \in Run /\ f.run = m.run /\ f.kind \in Tcp
    /\ t = Segment(f, IF m.kind = "syn" THEN torn' ELSE torn)

\* The segment to the frame's run is the last of its list.
LEMMA ServedOne ==
    ASSUME NEW m, NEW dup, Handle(m, dup), served \in [Run -> Seq(Sized)], NEW f, NEW t,
           Serves(m, f, t)
    PROVE  /\ served' = [served EXCEPT ![m.run] = Append(served[m.run], t)]
           /\ served'[m.run] = Append(served[m.run], t)
           /\ \A r \in Run : r # m.run => served'[r] = served[r]
<1>1. torn' = torn \cup Tears(m, BuildReplyL4(m).flows)
  BY Zenon DEF Handle
<1>2. (CHOOSE g \in {f} : TRUE) = f
  OBVIOUS
<1>3. served' = [r \in Run |-> IF \E g \in {f} : g.run = r /\ g.kind \in Tcp
                               THEN Append(served[r], Segment(CHOOSE g \in {f} : TRUE,
                                            IF m.kind = "syn" THEN torn' ELSE torn))
                               ELSE served[r]]
  BY Zenon, <1>1 DEF Handle, Serves
<1>4. served' = [r \in Run |-> IF r = m.run THEN Append(served[r], t) ELSE served[r]]
  BY Zenon, <1>2, <1>3 DEF Serves
<1> QED
  BY Zenon, <1>4 DEF Serves

\* The segments' lengths.
LEMMA Lengths ==
    ASSUME TypeOK, NEW r \in Run
    PROVE  SynSeg(r).len = MetaLen /\ DataSeg(r).len = DataLen /\ FinSeg(r).len = MetaLen
BY Zenon DEF SynSeg, DataSeg, FinSeg, Probe

\* What an answered segment was, what is sent, and what is entered in the table.
LEMMA AnsweredSegment ==
    ASSUME NumberInv, NEW m \in wire, m.kind \in {"syn", "psh", "fin"}, m.need
    PROVE  /\ m.run \in Run /\ FlowKey(m) = FlowOf(m.run) /\ FlowKey(m) \in DOMAIN Isn
           /\ m.len = (IF m.kind = "psh" THEN DataLen ELSE MetaLen) /\ m.len \in Nat
           /\ m.kind # "syn" => served[m.run] # << >>
           /\ ServerNext(FlowKey(m)) \in 0..(Mod - 1) /\ Isn[FlowKey(m)] \in 0..(Mod - 1)
           /\ \E f : /\ f.run = m.run /\ f.kind \in Tcp /\ f.len = m.len
                     /\ f.kind = (IF m.kind = "syn" THEN "synack" ELSE m.kind)
                     /\ f.seq = (IF m.kind = "syn" THEN Isn[FlowKey(m)] ELSE ServerNext(FlowKey(m)))
                     /\ BuildReplyL4(m).out = {f}
           /\ BuildReplyL4(m).flows =
                CASE m.kind = "syn" ->
                       Put(IF Cardinality(DOMAIN flows) > FlowCap THEN << >> ELSE flows,
                           FlowKey(m), Plus(Isn[FlowKey(m)], 1 + m.len))
                  [] m.kind = "psh" -> Put(flows, FlowKey(m), Plus(ServerNext(FlowKey(m)), m.len))
                  [] m.kind = "fin" -> Drop(flows, FlowKey(m))
<1>0. SafeInv /\ TypeOK /\ m \in Frame /\ Sent(m) /\ Own(m)
  BY Zenon DEF NumberInv, SafeInv, TypeOK, Traffic
<1>1. /\ m.run \in Run /\ m.sport = flags[m.run].sport /\ m.dport = flags[m.run].dport
      /\ m.kind \in ledger[m.run].asked
  BY Zenon, <1>0 DEF Sent
<1>2. FlowKey(m) = FlowOf(m.run) /\ FlowOf(m.run) \in DOMAIN Isn
  BY Zenon, <1>0, <1>1, DialogAssumption DEF FlowKey, FlowOf, TypeOK
<1>3. m.len = (IF m.kind = "psh" THEN DataLen ELSE MetaLen) /\ m.len \in Nat
  BY Zenon, <1>0, <1>1, Lengths DEF Own, Frame
<1>4. m.kind # "syn" => served[m.run] # << >>
  BY Zenon, <1>1 DEF NumberInv, Begun
<1>5. Isn[FlowKey(m)] \in 0..(Mod - 1)
  BY Zenon, <1>2, DialogAssumption
<1>6. ServerNext(FlowKey(m)) \in 0..(Mod - 1)
  <2>1. Isn[FlowKey(m)] \in Nat /\ 1 \in Nat
    BY <1>5, DialogAssumption
  <2>2. Plus(Isn[FlowKey(m)], 1) \in 0..(Mod - 1)
    BY Zenon, <2>1, PlusType
  <2> QED
    BY Zenon, <1>0, <2>2 DEF ServerNext, TypeOK
<1> DEFINE k == FlowKey(m)
           kind == IF m.kind = "syn" THEN "synack" ELSE m.kind
           seq == IF m.kind = "syn" THEN Isn[k] ELSE ServerNext(k)
           ack == CASE m.kind = "syn" -> Plus(m.seq, 1)
                    [] m.kind = "psh" -> Plus(m.seq, m.len)
                    [] m.kind = "fin" -> Plus(m.seq, m.len + 1)
           f == Reply(m, kind, seq, ack)
<1>7. f.run = m.run /\ f.kind = kind /\ f.len = m.len /\ f.seq = seq /\ kind \in Tcp
  BY <1>0 DEF Reply, Frame, Tcp
<1>8. CASE m.kind = "syn"
  <2>1. BuildReplyL4(m) = OnSyn(m, k)
    BY Zenon, <1>8 DEF BuildReplyL4, BuildTCPReply, Tcp
  <2>2. kind = "synack" /\ seq = Isn[k] /\ ack = Plus(m.seq, 1)
    BY Zenon, <1>8
  <2>3. f = Reply(m, "synack", Isn[k], Plus(m.seq, 1))
    BY Zenon, <2>2
  <2> HIDE DEF f, kind, seq, ack
  <2>4. BuildReplyL4(m).out = {f} /\ BuildReplyL4(m).flows =
            Put(IF Cardinality(DOMAIN flows) > FlowCap THEN << >> ELSE flows, k, Plus(Isn[k], 1 + m.len))
    <3>1. BuildReplyL4(m) = [out |-> {f}, flows |->
            Put(IF Cardinality(DOMAIN flows) > FlowCap THEN << >> ELSE flows, k, Plus(Isn[k], 1 + m.len))]
      BY Zenon, <2>1, <2>3 DEF OnSyn, One
    <3> QED
      BY <3>1
  <2> HIDE DEF k
  <2> QED
    BY Zenon, <1>1, <1>2, <1>3, <1>4, <1>5, <1>6, <1>7, <1>8, <2>2, <2>4 DEF k
<1>9. CASE m.kind = "psh"
  <2>1. BuildReplyL4(m) = OnPsh(m, k)
    BY Zenon, <1>9 DEF BuildReplyL4, BuildTCPReply, Tcp
  <2>2. kind = "psh" /\ seq = ServerNext(k) /\ ack = Plus(m.seq, m.len)
    BY Zenon, <1>9
  <2>3. f = Reply(m, "psh", ServerNext(k), Plus(m.seq, m.len))
    BY Zenon, <2>2
  <2> HIDE DEF f, kind, seq, ack
  <2>4. BuildReplyL4(m).out = {f} /\ BuildReplyL4(m).flows = Put(flows, k, Plus(ServerNext(k), m.len))
    <3>1. BuildReplyL4(m) = [out |-> {f}, flows |->
            Put(flows, k, Plus(ServerNext(k), m.len))]
      BY Zenon, <2>1, <2>3 DEF OnPsh, One
    <3> QED
      BY <3>1
  <2> HIDE DEF k
  <2> QED
    BY Zenon, <1>1, <1>2, <1>3, <1>4, <1>5, <1>6, <1>7, <1>9, <2>2, <2>4 DEF k
<1>10. CASE m.kind = "fin"
  <2>1. BuildReplyL4(m) = OnFin(m, k)
    BY Zenon, <1>10 DEF BuildReplyL4, BuildTCPReply, Tcp
  <2>2. kind = "fin" /\ seq = ServerNext(k) /\ ack = Plus(m.seq, m.len + 1)
    BY Zenon, <1>10
  <2>3. f = Reply(m, "fin", ServerNext(k), Plus(m.seq, m.len + 1))
    BY Zenon, <2>2
  <2> HIDE DEF f, kind, seq, ack
  <2>4. BuildReplyL4(m).out = {f} /\ BuildReplyL4(m).flows = Drop(flows, k)
    <3>1. BuildReplyL4(m) = [out |-> {f}, flows |->
            Drop(flows, k)]
      BY Zenon, <2>1, <2>3 DEF OnFin, One
    <3> QED
      BY <3>1
  <2> HIDE DEF k
  <2> QED
    BY Zenon, <1>1, <1>2, <1>3, <1>4, <1>5, <1>6, <1>7, <1>10, <2>2, <2>4 DEF k
<1> QED
  BY Zenon, <1>8, <1>9, <1>10

\* The table after an entry is put or dropped.
IsPut(new, table, k, v) ==
    /\ k \in DOMAIN new /\ new[k] = v
    /\ \A j \in DOMAIN new : j # k => j \in DOMAIN table /\ new[j] = table[j]
IsDrop(new, table, k) ==
    \A j \in DOMAIN new : j # k /\ j \in DOMAIN table /\ new[j] = table[j]

LEMMA TableStep ==
    ASSUME NEW table, NEW k, NEW v
    PROVE  /\ IsPut(Put(table, k, v), table, k, v) /\ IsDrop(Drop(table, k), table, k)
           /\ \A any : IsPut(Put(<< >>, k, v), any, k, v)
<1>1. DOMAIN << >> = {}
  OBVIOUS
<1> QED
  BY Zenon, <1>1 DEF Put, Drop, IsPut, IsDrop

\* A SYN is answered: a run that was served before is torn, another begins.
LEMMA SynNumbers ==
    ASSUME NumberInv, Bounded, NEW m \in wire, NEW dup \in BOOLEAN, Handle(m, dup), m.kind = "syn", m.need
    PROVE  /\ \A r \in Run : Kept(r)
           /\ served'[m.run] # << >> /\ \A r \in Run : r # m.run => served'[r] = served[r]
           /\ DOMAIN served' = Run
<1> DEFINE k == FlowKey(m)
           table == IF Cardinality(DOMAIN flows) > FlowCap THEN << >> ELSE flows
           n == Plus(Isn[k], 1 + m.len)
<1>0. served \in [Run -> Seq(Sized)] /\ flows' = BuildReplyL4(m).flows /\ flags' = flags
  BY Zenon DEF NumberInv, Handle
<1>1. /\ m.run \in Run /\ k = FlowOf(m.run) /\ m.len = MetaLen /\ m.len \in Nat
      /\ Isn[k] \in 0..(Mod - 1) /\ flows' = Put(table, k, n)
  BY Zenon, <1>0, AnsweredSegment
<1>2. PICK f : /\ f.run = m.run /\ f.kind \in Tcp /\ f.len = m.len /\ f.kind = "synack"
               /\ f.seq = Isn[k] /\ BuildReplyL4(m).out = {f}
  BY Zenon, AnsweredSegment
<1> DEFINE t == Segment(f, torn')
<1>3. /\ served' = [served EXCEPT ![m.run] = Append(served[m.run], t)]
      /\ served'[m.run] = Append(served[m.run], t)
      /\ \A r \in Run : r # m.run => served'[r] = served[r]
  <2>1. t = Segment(f, IF m.kind = "syn" THEN torn' ELSE torn)
    BY Zenon
  <2> HIDE DEF t
  <2>2. Serves(m, f, t)
    BY Zenon, <1>1, <1>2, <2>1 DEF Serves
  <2> QED
    BY Zenon, <1>0, <2>2, ServedOne
<1>4. t \in Sized /\ t.seq = Isn[k] /\ t.size = 1 + m.len /\ (t.clean <=> m.run \notin torn')
  <2>1. f.len + 1 = 1 + m.len /\ 1 + m.len \in Nat
    BY <1>1, <1>2
  <2>2. "synack" \in Kind /\ (m.run \notin torn') \in BOOLEAN
    BY Zenon DEF Kind
  <2> QED
    BY Zenon, <1>1, <1>2, <2>1, <2>2 DEF Segment, Sized
<1> HIDE DEF table, t, n, k
<1>5. IsPut(flows', flows, k, n)
  <2>1. CASE table = << >>
    BY Zenon, <1>1, <2>1, TableStep
  <2>2. CASE table = flows
    BY Zenon, <1>1, <2>2, TableStep
  <2> QED
    BY Zenon, <2>1, <2>2 DEF table
<1>6. served[m.run] # << >> => m.run \in torn'
  BY Zenon, <1>1, HandleTears DEF k
<1>7. /\ Append(served[m.run], t) \in Seq(Sized) /\ Append(served[m.run], t) # << >>
      /\ Intact(Append(served[m.run], t))
      /\ \A x, max : Past(served[m.run], x, max) /\ Behind(t, x, max) => Past(Append(served[m.run], t), x, max)
  <2>1. served[m.run] \in Seq(Sized) /\ Intact(served[m.run])
    BY Zenon, <1>1 DEF NumberInv
  <2>2. t.clean => \A i \in DOMAIN served[m.run] : ~Overlap(served[m.run][i], t)
    <3>1. DOMAIN << >> = {}
      OBVIOUS
    <3> QED
      BY Zenon, <1>4, <1>6, <3>1
  <2> QED
    BY Zenon, <1>4, <2>1, <2>2, OneMore
<1>8. ASSUME m.run \notin torn' PROVE Tracked(m.run)'
  <2>1. Past(served[m.run], n, Spent')
    <3>1. served[m.run] = << >>
      BY Zenon, <1>6, <1>8
    <3>2. DOMAIN << >> = {}
      OBVIOUS
    <3> QED
      BY Zenon, <3>1, <3>2 DEF Past
  <2>2. Behind(t, n, Spent')
    <3>1. 1 + m.len \in Nat /\ t.size <= 1 + m.len /\ 1 + m.len <= Spent'
      <4>1. Spent \in Nat /\ Spent' \in Nat /\ Spent <= Spent' /\ 1 + MetaLen <= Spent
        BY Zenon, Budget, HandleSpends
      <4> QED
        BY <1>1, <1>4, <4>1
    <3> QED
      BY Zenon, <1>4, <3>1 DEF Behind, n
  <2>3. FlowOf(m.run)' = k
    BY Zenon, <1>0, <1>1 DEF FlowOf
  <2>4. k \in DOMAIN flows' /\ flows'[k] = n
    BY Zenon, <1>5 DEF IsPut
  <2>5. Past(Append(served[m.run], t), n, Spent')
    BY Zenon, <1>7, <2>1, <2>2
  <2>6. Past(served'[m.run], flows'[k], Spent')
    BY Zenon, <1>3, <2>4, <2>5
  <2> QED
    BY Zenon, <2>3, <2>4, <2>6 DEF Tracked
<1>9. Kept(m.run)
  BY Zenon, <1>3, <1>7, <1>8 DEF Kept
<1>10. ASSUME NEW r \in Run, r # m.run PROVE Kept(r)
  BY Zenon, <1>3, <1>5, <1>10, OthersKept DEF k, IsPut
<1>11. DOMAIN served' = Run
  BY Zenon, <1>0, <1>3
<1> QED
  BY Zenon, <1>3, <1>7, <1>9, <1>10, <1>11

\* Data or a FIN is answered from the flow's number.
LEMMA SegmentNumbers ==
    ASSUME NumberInv, Bounded, NEW m \in wire, NEW dup \in BOOLEAN, Handle(m, dup),
           m.kind \in {"psh", "fin"}, m.need
    PROVE  /\ \A r \in Run : Kept(r)
           /\ served'[m.run] # << >> /\ \A r \in Run : r # m.run => served'[r] = served[r]
           /\ DOMAIN served' = Run
<1> DEFINE k == FlowKey(m)
           n == ServerNext(k)
<1>0. served \in [Run -> Seq(Sized)] /\ flows' = BuildReplyL4(m).flows /\ flags' = flags
  BY Zenon DEF NumberInv, Handle
<1>1. /\ m.run \in Run /\ k = FlowOf(m.run) /\ m.len \in Nat /\ served[m.run] # << >>
      /\ m.len = (IF m.kind = "psh" THEN DataLen ELSE MetaLen) /\ n \in 0..(Mod - 1)
      /\ m.kind = "psh" => IsPut(flows', flows, k, Plus(n, m.len))
      /\ m.kind = "fin" => IsDrop(flows', flows, k)
  <2>1. /\ m.run \in Run /\ k = FlowOf(m.run) /\ m.len \in Nat /\ served[m.run] # << >>
        /\ m.len = (IF m.kind = "psh" THEN DataLen ELSE MetaLen) /\ n \in 0..(Mod - 1)
        /\ m.kind = "psh" => flows' = Put(flows, k, Plus(n, m.len))
        /\ m.kind = "fin" => flows' = Drop(flows, k)
    BY Zenon, <1>0, AnsweredSegment
  <2> HIDE DEF k, n
  <2> QED
    BY Zenon, <2>1, TableStep
<1>2. PICK f : /\ f.run = m.run /\ f.kind \in Tcp /\ f.len = m.len /\ f.kind = m.kind
               /\ f.seq = n /\ BuildReplyL4(m).out = {f}
  BY Zenon, AnsweredSegment
<1> DEFINE t == Segment(f, torn)
           size == IF m.kind = "psh" THEN DataLen ELSE 1 + MetaLen
<1>3. /\ served' = [served EXCEPT ![m.run] = Append(served[m.run], t)]
      /\ served'[m.run] = Append(served[m.run], t)
      /\ \A r \in Run : r # m.run => served'[r] = served[r]
  <2>1. (IF m.kind = "syn" THEN torn' ELSE torn) = torn
    BY Zenon
  <2>2. Segment(f, IF m.kind = "syn" THEN torn' ELSE torn) = t
    BY Zenon, <2>1
  <2> HIDE DEF t
  <2>3. Serves(m, f, t)
    BY Zenon, <1>1, <1>2, <2>2 DEF Serves
  <2> QED
    BY Zenon, <1>0, <2>3, ServedOne
<1>4. t \in Sized /\ t.seq = n /\ t.size = size /\ (t.clean <=> m.run \notin torn)
  <2>1. f.len + (IF f.kind = "psh" THEN 0 ELSE 1) = size /\ size \in Nat
    <3>1. MetaLen \in Nat /\ DataLen \in Nat
      BY DialogAssumption DEF DataLen
    <3>2. f.kind = m.kind /\ f.len = (IF m.kind = "psh" THEN DataLen ELSE MetaLen)
      BY Zenon, <1>1, <1>2
    <3> QED
      BY <3>1, <3>2
  <2>2. m.kind \in Kind /\ (m.run \notin torn) \in BOOLEAN
    BY Zenon DEF Kind
  <2> HIDE DEF size, n
  <2> QED
    BY Zenon, <1>1, <1>2, <2>1, <2>2 DEF Segment, Sized
<1>5. /\ Spent \in Nat /\ Spent' \in Nat /\ Spent <= Spent' /\ Spent + size <= Mod
      /\ DataLen \in Nat /\ DataLen <= Spent + DataLen
      /\ m.kind = "psh" => Spent' = Spent + DataLen
  <2>1. /\ Spent \in Nat /\ Spent' \in Nat /\ Spent <= Spent' /\ Spent + (1 + MetaLen) <= Mod
        /\ m.kind = "psh" => Spent' = Spent + DataLen /\ Spent' <= Mod
    BY Zenon, Budget, HandleSpends
  <2>2. DataLen \in Nat
    BY DialogAssumption DEF DataLen
  <2> QED
    BY <2>1, <2>2
<1> HIDE DEF t, n, k, size
<1>6. m.run \notin torn => n = flows[k] /\ k \in DOMAIN flows /\ Past(served[m.run], n, Spent)
  <2>1. m.run \notin torn => Tracked(m.run)
    BY Zenon, <1>1 DEF NumberInv
  <2> QED
    BY Zenon, <1>1, <2>1 DEF Tracked, n, ServerNext
<1>7. /\ Append(served[m.run], t) \in Seq(Sized) /\ Append(served[m.run], t) # << >>
      /\ Intact(Append(served[m.run], t))
      /\ \A x, max : Past(served[m.run], x, max) /\ Behind(t, x, max) => Past(Append(served[m.run], t), x, max)
  <2>1. served[m.run] \in Seq(Sized) /\ Intact(served[m.run])
    BY Zenon, <1>1 DEF NumberInv
  <2>2. t.clean => \A i \in DOMAIN served[m.run] : ~Overlap(served[m.run][i], t)
    BY Zenon, <1>4, <1>5, <1>6, <2>1, PastApart
  <2> QED
    BY Zenon, <1>4, <2>1, <2>2, OneMore
<1>8. ASSUME m.run \notin torn' PROVE Tracked(m.run)'
  <2>1. m.run \notin torn /\ k \in DOMAIN flows'
    BY Zenon, <1>1, <1>6, <1>8, HandleTears
  <2>2. m.kind = "psh"
    BY Zenon, <1>1, <2>1 DEF IsDrop
  <2>3. flows'[k] = Plus(n, DataLen)
    BY Zenon, <1>1, <2>2 DEF IsPut
  <2>4. Past(served[m.run], Plus(n, DataLen), Spent')
    <3>1. served[m.run] \in Seq(Sized) /\ Past(served[m.run], n, Spent)
      BY Zenon, <1>0, <1>1, <1>6, <2>1
    <3>2. Past(served[m.run], Plus(n, DataLen), Spent + DataLen)
      BY Zenon, <1>5, <3>1, PastMore
    <3> QED
      BY Zenon, <1>5, <2>2, <3>2
  <2>5. Behind(t, Plus(n, DataLen), Spent')
    <3>1. t.size <= DataLen /\ DataLen <= Spent'
      BY <1>4, <1>5, <2>2 DEF size
    <3> QED
      BY Zenon, <1>4, <1>5, <3>1 DEF Behind
  <2>6. FlowOf(m.run)' = k
    BY Zenon, <1>0, <1>1 DEF FlowOf
  <2>7. Past(served'[m.run], Plus(n, DataLen), Spent')
    BY Zenon, <1>3, <1>7, <2>4, <2>5
  <2>8. FlowOf(m.run)' \in DOMAIN flows' /\ flows'[FlowOf(m.run)'] = Plus(n, DataLen)
    BY Zenon, <2>1, <2>3, <2>6
  <2> QED
    BY Zenon, <2>7, <2>8 DEF Tracked
<1>9. Kept(m.run)
  BY Zenon, <1>3, <1>7, <1>8 DEF Kept
<1>10. ASSUME NEW r \in Run, r # m.run PROVE Kept(r)
  <2>1. FlowOf(r) \in DOMAIN flows /\ FlowOf(r) \in DOMAIN flows' =>
          \/ flows'[FlowOf(r)] = flows[FlowOf(r)]
          \/ m.kind = "psh" /\ flows'[FlowOf(r)] = Plus(flows[FlowOf(r)], DataLen)
    <3>1. CASE m.kind = "fin"
      BY Zenon, <1>1, <3>1 DEF IsDrop
    <3>2. CASE m.kind = "psh" /\ FlowOf(r) # k
      BY Zenon, <1>1, <3>2 DEF IsPut
    <3>3. CASE m.kind = "psh" /\ FlowOf(r) = k /\ k \in DOMAIN flows
      <4>1. n = flows[k] /\ flows'[k] = Plus(n, DataLen)
        BY Zenon, <1>1, <3>3 DEF n, ServerNext, IsPut
      <4> QED
        BY Zenon, <3>3, <4>1
    <3> QED
      BY Zenon, <3>1, <3>2, <3>3
  <2> QED
    BY Zenon, <1>3, <1>10, <2>1, OthersKept
<1>11. DOMAIN served' = Run
  BY Zenon, <1>0, <1>3
<1> QED
  BY Zenon, <1>3, <1>7, <1>9, <1>10, <1>11

\* Nothing is sent on a flow: a reset, a bare ACK, no response asked, or no TCP.
LEMMA QuietNumbers ==
    ASSUME NumberInv, Bounded, NEW m \in wire, NEW dup \in BOOLEAN, Handle(m, dup),
           ~(m.kind \in {"syn", "psh", "fin"} /\ m.need)
    PROVE  /\ \A r \in Run : Kept(r)
           /\ served' = served /\ (m.kind = "syn" => ledger' = ledger)
<1>0. /\ served \in [Run -> Seq(Sized)] /\ Sent(m) /\ flows' = BuildReplyL4(m).flows
      /\ ledger' = (IF BuildReplyL4(m).out = {} THEN ledger
                    ELSE [ledger EXCEPT ![m.run].answered = @ \cup {StageOf(m.kind)}])
  BY Zenon DEF NumberInv, SafeInv, Traffic, Handle
<1>1. /\ \A f \in BuildReplyL4(m).out : f.kind \notin Tcp
      /\ m.kind = "syn" => BuildReplyL4(m).out = {}
      /\ flows' = flows \/ flows' = Drop(flows, FlowKey(m))
  <2>1. CASE m.kind = "rst"
    <3>1. BuildReplyL4(m) = [out |-> {}, flows |-> Drop(flows, FlowKey(m))]
      BY Zenon, <2>1 DEF BuildReplyL4, BuildTCPReply, Tcp
    <3> QED
      BY <1>0, <2>1, <3>1
  <2>2. CASE m.kind \in {"echo", "udp"} /\ m.need
    <3> DEFINE kind == IF m.kind = "echo" THEN "echoreply" ELSE "udp"
               f == Reply(m, kind, 0, 0)
    <3>1. BuildReplyL4(m) = [out |-> {f}, flows |-> flows]
      BY Zenon, <2>2 DEF BuildReplyL4, Tcp, One
    <3>2. kind \notin Tcp /\ kind \in Kind /\ 0 \in 0..(Mod - 1) /\ m \in Frame
      BY <2>2, DialogAssumption DEF Tcp, Kind, NumberInv, SafeInv, TypeOK
    <3> HIDE DEF kind
    <3>3. f.kind = kind
      BY <3>2, ReplyType
    <3> HIDE DEF f
    <3> QED
      BY <1>0, <2>2, <3>1, <3>2, <3>3
  <2>3. CASE m.kind # "rst" /\ ~(m.kind \in {"echo", "udp"} /\ m.need)
    <3>1. m.kind = "ack" \/ ~m.need
      BY Zenon, <1>0, <2>3 DEF Sent
    <3>2. BuildReplyL4(m) = [out |-> {}, flows |-> flows]
      BY Zenon, <1>0, <2>3, <3>1 DEF BuildReplyL4, BuildTCPReply, Tcp, Nil
    <3> QED
      BY <1>0, <3>2
  <2> QED
    BY Zenon, <2>1, <2>2, <2>3
<1>2. served' = served
  <2>1. \A r \in Run : ~\E f \in BuildReplyL4(m).out : f.run = r /\ f.kind \in Tcp
    BY Zenon, <1>1
  <2>2. served' = [r \in Run |-> served[r]]
    BY Zenon, <2>1 DEF Handle
  <2> QED
    BY Zenon, <1>0, <2>2
<1>3. \A k \in DOMAIN flows : k \in DOMAIN flows' => flows'[k] = flows[k]
  <2>1. IsDrop(Drop(flows, FlowKey(m)), flows, FlowKey(m))
    BY Zenon, TableStep
  <2> QED
    BY Zenon, <1>1, <2>1 DEF IsDrop
<1>4. ASSUME NEW r \in Run PROVE Kept(r)
  BY Zenon, <1>2, <1>3, OthersKept
<1> QED
  BY Zenon, <1>0, <1>1, <1>2, <1>4

\* The responder handles a frame.
LEMMA HandleNumbers ==
    ASSUME NumberInv, Bounded, NEW m \in wire, NEW dup \in BOOLEAN, Handle(m, dup)
    PROVE  NumberInv'
<1>0. /\ SafeInv /\ TypeOK /\ flags' = flags /\ wire' \subseteq wire
      /\ served \in [Run -> Seq(Sized)]
  BY Zenon DEF NumberInv, SafeInv, Handle
<1>1. SafeInv'
  BY Zenon, <1>0, HandleSafe
<1>2. \A r \in Run : /\ ledger'[r].asked = ledger[r].asked
                     /\ "syn" \in ledger'[r].answered =>
                          \/ "syn" \in ledger[r].answered
                          \/ r = m.run /\ m.kind = "syn" /\ ledger' # ledger
  <2>1. ledger \in [Run -> Entry]
    BY Zenon, <1>0 DEF TypeOK, Entry
  <2>3. StageOf(m.kind) = "syn" => m.kind = "syn"
    BY Zenon DEF StageOf
  <2>4. CASE ledger' = ledger
    BY Zenon, <2>4
  <2>5. CASE ledger' # ledger
    <3> DEFINE x == m.run
               st == StageOf(m.kind)
    <3>1. x \in Run /\ ledger' = [ledger EXCEPT ![x].answered = @ \cup {st}]
      BY Zenon, <1>0, <2>5, HandleSafe
    <3> HIDE DEF x, st
    <3>2. \A r \in Run : /\ ledger'[r].asked = ledger[r].asked
                         /\ ledger'[r].answered = ledger[r].answered \cup (IF r = x THEN {st} ELSE {})
      BY <2>1, <3>1 DEF Entry
    <3>3. ASSUME NEW r \in Run, "syn" \in ledger'[r].answered, "syn" \notin ledger[r].answered
          PROVE  r = m.run /\ m.kind = "syn"
      <4>1. "syn" \in (IF r = x THEN {st} ELSE {})
        BY Zenon, <3>2, <3>3
      <4> QED
        BY Zenon, <2>3, <4>1 DEF x, st
    <3> QED
      BY Zenon, <2>5, <3>2, <3>3
  <2> QED
    BY Zenon, <2>4, <2>5
<1>3. /\ \A r \in Run : Kept(r)
      /\ \A r \in Run : served[r] # << >> => served'[r] # << >>
      /\ m.kind = "syn" => ledger' = ledger \/ served'[m.run] # << >>
      /\ DOMAIN served' = Run
  <2>1. CASE m.kind = "syn" /\ m.need
    BY Zenon, <2>1, SynNumbers
  <2>2. CASE m.kind \in {"psh", "fin"} /\ m.need
    BY Zenon, <2>2, SegmentNumbers
  <2>3. CASE ~(m.kind \in {"syn", "psh", "fin"} /\ m.need)
    BY Zenon, <1>0, <2>3, QuietNumbers
  <2> QED
    BY Zenon, <2>1, <2>2, <2>3
<1>4. \A r \in Run : Begun(r)'
  BY Zenon, <1>0, <1>2, <1>3 DEF NumberInv, Begun
<1>5. \A g \in wire' : Own(g)'
  BY Zenon, <1>0, SegmentsFixed DEF NumberInv, Own
<1>6. served' \in [Run -> Seq(Sized)]
  <2>1. served' = [r \in DOMAIN served' |-> served'[r]]
    BY Zenon DEF Handle
  <2> QED
    BY Zenon, <1>3, <2>1 DEF Kept
<1> QED
  BY Zenon, <1>1, <1>3, <1>4, <1>5, <1>6 DEF NumberInv, Kept

-----------------------------------------------------------------------------
(* The library's facts about finite sets.                                  *)

\* What the definitions of FiniteSets say, for Dialog's instance of that module.
LEMMA SetsAre ==
    /\ \A S : Cardinality(S) = LET CS[T \in SUBSET S] ==
                                       IF T = {} THEN 0 ELSE 1 + CS[T \ {CHOOSE x : x \in T}]
                               IN  CS[S]
    /\ \A S : IsFiniteSet(S) <=>
                \E seq \in Seq(S) : \A s \in S : \E n \in 1..Len(seq) : seq[n] = s
BY Zenon DEF Cardinality, IsFiniteSet

Size(S) == Cardinality(S)
Finite(S) == IsFiniteSet(S)

LOCAL INSTANCE FiniteSetTheorems

\* The library's instance of FiniteSets defines the same.
LEMMA SameSets == \A S : Cardinality(S) = Size(S) /\ (IsFiniteSet(S) <=> Finite(S))
BY Zenon, SetsAre DEF Cardinality, IsFiniteSet, Size, Finite

\* The bound on a flow's number counts the runs that were answered: a finite set has no
\* more members than one it is part of, and one more with another member.
LEMMA Counted == Counting
<1> SUFFICES ASSUME NEW S, IsFiniteSet(S)
             PROVE  /\ Cardinality(S) \in Nat
                    /\ \A T \in SUBSET S : IsFiniteSet(T) /\ Cardinality(T) <= Cardinality(S)
                    /\ \A x : x \notin S => Cardinality(S \cup {x}) = Cardinality(S) + 1
  BY Zenon, SameSets DEF Counting, Size, Finite
<1>1. Cardinality(S) \in Nat
  BY Zenon, FS_CardinalityType
<1>2. \A T \in SUBSET S : IsFiniteSet(T) /\ Cardinality(T) <= Cardinality(S)
  BY Zenon, FS_Subset
<1>3. \A x : x \notin S => Cardinality(S \cup {x}) = Cardinality(S) + 1
  BY Zenon, FS_AddElement
<1> QED
  BY Zenon, <1>1, <1>2, <1>3

\* As long as the numbers of a flow do not come all the way round: no two segments sent to
\* a run share a sequence number while its flow entry lives, whatever is lost, duplicated,
\* reordered or reset, and with other runs on the same 4-tuple (buildTCPReply).
THEOREM SegmentsApart == NoWrap => (Spec => []SequenceIntact)
<1> SUFFICES ASSUME Bounded PROVE Spec => []SequenceIntact
  BY Zenon, Counted DEF Bounded
<1>1. Init => NumberInv
  <2> SUFFICES ASSUME Init, SafeInv PROVE NumberInv
    BY Zenon, SafeInitial
  <2>1. DOMAIN << >> = {} /\ << >> \in Seq(Sized)
    OBVIOUS
  <2>2. served = [r \in Run |-> << >>] /\ wire = {} /\ \A r \in Run : served[r] = << >>
    BY Zenon DEF Init
  <2>3. \A r \in Run : ledger[r].asked = {} /\ ledger[r].answered = {}
    BY Zenon DEF Init, Ex!Nothing
  <2>4. \A r \in Run : Begun(r)
    BY Zenon, <2>3 DEF Begun
  <2>5. \A r \in Run : Intact(served[r])
    BY Zenon, <2>1, <2>2 DEF Intact
  <2> QED
    BY Zenon, <2>1, <2>2, <2>4, <2>5 DEF NumberInv
<1>2. NumberInv /\ [Next]_vars => NumberInv'
  <2> SUFFICES ASSUME NumberInv, [Next]_vars PROVE NumberInv'
    OBVIOUS
  <2>1. CASE Network
    BY Zenon, <2>1, HandleNumbers, ResetNumbers DEF Network
  <2>2. CASE \E r \in Run : Client(r)
    BY Zenon, <2>2, StartNumbers, WaitNumbers DEF Client
  <2>3. CASE UNCHANGED vars
    <3>1. UNCHANGED <<flags, pc, wire, heard, flows, faults, ledger, served, torn>>
      BY Zenon, <2>3 DEF vars
    <3>2. SafeInv'
      BY Zenon, <2>3, SafeIdle DEF NumberInv
    <3>3. Handled' = Handled /\ \A r : FlowOf(r)' = FlowOf(r)
      <4>1. \A r : DataSeg(r)' = DataSeg(r) /\ FlowOf(r)' = FlowOf(r)
        BY Zenon, <3>1, SegmentsFixed
      <4>2. \A r : r \in Handled' <=> r \in Handled
        BY Zenon, <3>1, <4>1 DEF Handled
      <4> QED
        BY Zenon, <4>1, <4>2
    <3>4. \A r \in Run : Begun(r)' /\ (r \notin torn' /\ served'[r] # << >> => Tracked(r)')
      BY Zenon, <3>1, <3>3 DEF NumberInv, Begun, Tracked, Spent
    <3>5. \A m \in wire' : Own(m)'
      BY Zenon, <3>1, SegmentsFixed DEF NumberInv, Own
    <3> QED
      BY Zenon, <3>1, <3>2, <3>4, <3>5 DEF NumberInv
  <2> QED
    BY Zenon, <2>1, <2>2, <2>3 DEF Next
<1>3. NumberInv => SequenceIntact
  BY Zenon DEF NumberInv, Intact, SequenceIntact
<1> QED
  BY <1>1, <1>2, <1>3, PTL DEF Spec
=============================================================================
