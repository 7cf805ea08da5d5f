--------------------------- MODULE PipelineProofs ---------------------------
(***************************************************************************)
(* What holds of an agent's pipeline for every number of records, every    *)
(* capacity of the ring and of the queues and every set of sinks.          *)
(***************************************************************************)
EXTENDS Pipeline, SequenceTheorems, TLAPS

Elems(s) == {s[i] : i \in DOMAIN s}
Increasing(s) == \A i, j \in DOMAIN s : i < j => s[i].n < s[j].n

\* The names in both caches are numbers.
CachesOK ==
    /\ \A k \in DOMAIN ifCache : ifCache[k] \in Nat
    /\ \A k \in DOMAIN lsCache : lsCache[k] \in Nat

TypeInv == TypeOK /\ CachesOK

\* The elements of a sequence over S are in S.
LEMMA ElemsLemma ==
    ASSUME NEW S, NEW s \in Seq(S)
    PROVE  Elems(s) \subseteq S
<1>1. \A i \in DOMAIN s : s[i] \in S
  BY Zenon, LenProperties, ElementOfSeq
<1> QED
  BY Zenon, <1>1 DEF Elems

\* Taking the first element of a queue in increasing order.
LEMMA TailLemma ==
    ASSUME NEW S, NEW s \in Seq(S), s # << >>
    PROVE  /\ Head(s) \in S /\ Head(s) \in Elems(s)
           /\ Tail(s) \in Seq(S) /\ Len(Tail(s)) = Len(s) - 1
           /\ Elems(Tail(s)) \subseteq Elems(s)
           /\ Increasing(s) => Increasing(Tail(s))
           /\ Increasing(s) => \A x \in Elems(Tail(s)) : Head(s).n < x.n
<1>1. Len(s) \in Nat /\ Len(s) > 0 /\ DOMAIN s = 1..Len(s)
  BY EmptySeq, LenProperties
<1>2. Head(s) = s[1] /\ 1 \in DOMAIN s /\ s[1] \in S
  BY <1>1, HeadTailProperties, ElementOfSeq
<1>3. Tail(s) \in Seq(S) /\ Len(Tail(s)) = Len(s) - 1 /\ DOMAIN Tail(s) = 1..(Len(s) - 1)
  BY Zenon, <1>1, HeadTailProperties, LenProperties
<1>4. \A i \in DOMAIN Tail(s) : Tail(s)[i] = s[i + 1] /\ i + 1 \in DOMAIN s /\ i \in Nat /\ i > 0
  <2>1. \A i \in 1..Len(Tail(s)) : Tail(s)[i] = s[i + 1]
    BY Zenon, HeadTailProperties
  <2> QED
    BY <1>1, <1>3, <2>1
<1>5. Elems(Tail(s)) \subseteq Elems(s)
  BY Zenon, <1>4 DEF Elems
<1>6. ASSUME Increasing(s)
      PROVE  Increasing(Tail(s)) /\ \A x \in Elems(Tail(s)) : Head(s).n < x.n
  <2>1. \A i, j \in DOMAIN Tail(s) : i < j => Tail(s)[i].n < Tail(s)[j].n
    <3>1. \A i, j \in DOMAIN Tail(s) : i < j => i + 1 < j + 1
      BY <1>4
    <3> QED
      BY Zenon, <1>4, <1>6, <3>1 DEF Increasing
  <2>2. \A i \in DOMAIN Tail(s) : s[1].n < s[i + 1].n
    <3>1. \A i \in DOMAIN Tail(s) : 1 < i + 1
      BY <1>4
    <3> QED
      BY Zenon, <1>2, <1>4, <1>6, <3>1 DEF Increasing
  <2> QED
    BY Zenon, <1>2, <1>4, <2>1, <2>2 DEF Increasing, Elems
<1> QED
  BY Zenon, <1>2, <1>3, <1>5, <1>6 DEF Elems

\* Appending to it something newer than all of it.
LEMMA AppendLemma ==
    ASSUME NEW S, NEW s \in Seq(S), NEW o \in S
    PROVE  /\ Append(s, o) \in Seq(S) /\ Len(Append(s, o)) = Len(s) + 1
           /\ Elems(Append(s, o)) = Elems(s) \cup {o}
           /\ Increasing(s) /\ (\A x \in Elems(s) : x.n < o.n) => Increasing(Append(s, o))
<1>1. Len(s) \in Nat /\ DOMAIN s = 1..Len(s)
  BY Zenon, LenProperties
<1>2. /\ Append(s, o) \in Seq(S) /\ Len(Append(s, o)) = Len(s) + 1
      /\ \A i \in 1..Len(s) : Append(s, o)[i] = s[i]
      /\ Append(s, o)[Len(s) + 1] = o
  BY AppendProperties
<1>3. DOMAIN Append(s, o) = 1..(Len(s) + 1)
  BY Zenon, <1>2, LenProperties
<1>4. \A i \in 1..(Len(s) + 1) : i = Len(s) + 1 \/ i \in 1..Len(s)
  BY <1>1
<1>5. 1..Len(s) \subseteq 1..(Len(s) + 1) /\ Len(s) + 1 \in 1..(Len(s) + 1)
  BY <1>1
<1>6. Elems(Append(s, o)) = Elems(s) \cup {o}
  BY Zenon, <1>1, <1>2, <1>3, <1>4, <1>5 DEF Elems
<1>7. ASSUME Increasing(s), \A x \in Elems(s) : x.n < o.n,
             NEW i \in DOMAIN Append(s, o), NEW j \in DOMAIN Append(s, o), i < j
      PROVE  Append(s, o)[i].n < Append(s, o)[j].n
  <2>1. i \in 1..Len(s)
    BY <1>1, <1>3, <1>7
  <2>2. CASE j = Len(s) + 1
    BY Zenon, <1>1, <1>2, <1>7, <2>1, <2>2 DEF Elems
  <2>3. CASE j \in 1..Len(s)
    BY Zenon, <1>1, <1>2, <1>7, <2>1, <2>3 DEF Increasing
  <2> QED
    BY Zenon, <1>3, <1>4, <1>7, <2>2, <2>3
<1> QED
  BY Zenon, <1>2, <1>6, <1>7 DEF Increasing

\* A cache of numbers stays one.
LEMMA CachedNat ==
    ASSUME NEW cache, NEW key, NEW answer \in Nat, \A k \in DOMAIN cache : cache[k] \in Nat
    PROVE  \A k \in DOMAIN Cached(cache, key, answer) : Cached(cache, key, answer)[k] \in Nat
  BY Zenon DEF Cached, Put

\* The observation a round of readLoop prints.
LEMMA ReadLemma ==
    ASSUME TypeInv, ring # << >>, NEW link \in Nat, NEW switch \in Nat, Read(link, switch)
    PROVE  LET o == Enrich(Head(ring), ifCache', lsCache')
           IN  /\ o \in Named /\ o.n = Head(ring).n
               /\ o.ifindex = Head(ring).ifindex /\ o.vni = Head(ring).vni
               /\ Emit(o) /\ CachesOK'
<1> DEFINE h == Head(ring)
           o == Enrich(h, ifCache', lsCache')
<1>1. h \in Record
  BY Zenon, TailLemma DEF TypeInv, TypeOK
<1>2. /\ ifCache' = Cached(ifCache, h.ifindex, link)
      /\ lsCache' = IF h.vni = 0 THEN lsCache ELSE Cached(lsCache, h.vni, switch)
      /\ Emit(o)
  BY Zenon DEF Read
<1>3. \A k \in DOMAIN ifCache' : ifCache'[k] \in Nat
  <2>1. \A k \in DOMAIN ifCache : ifCache[k] \in Nat
    BY Zenon DEF TypeInv, CachesOK
  <2> QED
    BY Zenon, <1>2, <2>1, CachedNat
<1>4. \A k \in DOMAIN lsCache' : lsCache'[k] \in Nat
  <2>1. \A k \in DOMAIN lsCache : lsCache[k] \in Nat
    BY Zenon DEF TypeInv, CachesOK
  <2>2. CASE h.vni = 0
    BY Zenon, <1>2, <2>1, <2>2
  <2>3. CASE h.vni # 0
    BY Zenon, <1>2, <2>1, <2>3, CachedNat
  <2> QED
    BY Zenon, <2>2, <2>3
<1>5. NameIn(ifCache', h.ifindex) \in Nat /\ NameIn(lsCache', h.vni) \in Nat
  BY Zenon, <1>3, <1>4 DEF NameIn, NoName
<1>6. o = [n |-> h.n, ifindex |-> h.ifindex, vni |-> h.vni, iface |-> NameIn(ifCache', h.ifindex),
           switch |-> IF h.vni = 0 THEN NoName ELSE NameIn(lsCache', h.vni)]
  BY Zenon DEF Enrich
<1>7. /\ o \in Named /\ o.n = h.n /\ o.ifindex = h.ifindex /\ o.vni = h.vni
  BY <1>1, <1>5, <1>6 DEF Named, Record, NoName
<1> QED
  BY Zenon, <1>2, <1>3, <1>4, <1>7 DEF CachesOK

\* A record that passes the ring's capacity is of the right type and newer than all.
LEMMA CaptureLemma ==
    ASSUME TypeInv, NEW h \in Header, Capture(h)
    PROVE  /\ made' = made + 1 /\ made' \in 0..MaxRecords
           /\ \/ ring' = ring
              \/ \E x \in Record : x.n = made + 1 /\ Len(ring) < RingCap /\ ring' = Append(ring, x)
<1> DEFINE x == [n |-> made + 1, ifindex |-> h.ifindex, vni |-> h.vni]
<1>1. made' = made + 1 /\ made' \in 0..MaxRecords /\ made + 1 \in 1..MaxRecords
  BY PipelineAssumption DEF TypeInv, TypeOK, Capture
<1>2. x \in Record /\ x.n = made + 1
  BY Zenon, <1>1, PipelineAssumption DEF Record
<1>3. ring' = ring \/ (Len(ring) < RingCap /\ ring' = Append(ring, x))
  BY Zenon DEF Capture
<1> QED
  BY Zenon, <1>1, <1>2, <1>3

\* What emit does to the queue and to the spans.
LEMMA EmitLemma ==
    ASSUME TypeInv, NEW o \in Named, Emit(o)
    PROVE  /\ printed' = printed \cup {o} /\ printed' \subseteq Named
           /\ queue' = queue \/ ("collector" \in sinks /\ queue' = Append(queue, o))
           /\ queue' \in Seq(Named) /\ Len(queue') <= QueueCap
           /\ spans' = spans \/ spans' = Append(spans, o)
           /\ spans' \in Seq(Named) /\ Len(spans') <= SpanCap
<1>1. /\ Append(queue, o) \in Seq(Named) /\ Len(Append(queue, o)) = Len(queue) + 1
      /\ Append(spans, o) \in Seq(Named) /\ Len(Append(spans, o)) = Len(spans) + 1
      /\ Len(queue) \in Nat /\ Len(spans) \in Nat
  BY AppendLemma, LenProperties DEF TypeInv, TypeOK
<1>2. /\ queue' \in Seq(Named) /\ Len(queue') <= QueueCap
      /\ queue' = queue \/ ("collector" \in sinks /\ queue' = Append(queue, o))
  BY <1>1, PipelineAssumption DEF TypeInv, TypeOK, Emit, Export
<1>3. /\ spans' \in Seq(Named) /\ Len(spans') <= SpanCap
      /\ spans' = spans \/ spans' = Append(spans, o)
  BY <1>1, PipelineAssumption DEF TypeInv, TypeOK, Emit, Export
<1> QED
  BY Zenon, <1>2, <1>3 DEF Emit, Export, TypeInv, TypeOK

\* Types and capacities are kept by every step.
LEMMA TypeStep == TypeInv /\ [Next]_vars => TypeInv'
<1> SUFFICES ASSUME TypeInv, [Next]_vars PROVE TypeInv'
  OBVIOUS
<1> USE DEF TypeInv, TypeOK, CachesOK
<1>1. ASSUME NEW h \in Header, Capture(h) PROVE TypeInv'
  <2>1. made' \in 0..MaxRecords /\ ring' \in Seq(Record) /\ Len(ring') <= RingCap
    <3>1. CASE ring' = ring
      BY Zenon, <1>1, <3>1, CaptureLemma
    <3>2. ASSUME NEW x \in Record, Len(ring) < RingCap, ring' = Append(ring, x)
          PROVE  ring' \in Seq(Record) /\ Len(ring') <= RingCap
      BY <3>2, AppendLemma, LenProperties, PipelineAssumption
    <3> QED
      BY Zenon, <1>1, <3>1, <3>2, CaptureLemma
  <2> QED
    BY Zenon, <1>1, <2>1 DEF Capture, stopping, names, channel, shipper, server, otlp
<1>2. ASSUME ring # << >>, NEW link \in {NoName, Head(ring).ifindex},
             NEW switch \in {NoName, Head(ring).vni}, Read(link, switch)
      PROVE  TypeInv'
  <2>1. Head(ring) \in Record /\ Tail(ring) \in Seq(Record) /\ Len(Tail(ring)) = Len(ring) - 1
        /\ Len(ring) \in Nat
    BY Zenon, <1>2, TailLemma, LenProperties
  <2>2. link \in Nat /\ switch \in Nat
    BY <2>1 DEF NoName, Record
  <2>3. PICK o \in Named : Emit(o) /\ CachesOK'
    BY Zenon, <1>2, <2>2, ReadLemma
  <2>4. /\ printed' \subseteq Named /\ queue' \in Seq(Named) /\ Len(queue') <= QueueCap
        /\ spans' \in Seq(Named) /\ Len(spans') <= SpanCap
    BY Zenon, <2>3, EmitLemma
  <2>5. ring' = Tail(ring) /\ ring' \in Seq(Record) /\ Len(ring') <= RingCap
    BY <1>2, <2>1, PipelineAssumption DEF Read
  <2> QED
    BY Zenon, <1>2, <2>3, <2>4, <2>5 DEF Read, stopping, shipper, server
<1>3. CASE ReadBad
  <2>1. Tail(ring) \in Seq(Record) /\ Len(Tail(ring)) = Len(ring) - 1 /\ Len(ring) \in Nat
    BY Zenon, <1>3, TailLemma, LenProperties DEF ReadBad
  <2> QED
    BY <1>3, <2>1, PipelineAssumption
    DEF ReadBad, stopping, names, channel, shipper, server, otlp
<1>4. CASE Signal \/ CloseReader \/ ReadClosed \/ CloseQueue \/ Wait \/ Exit
  BY Zenon, <1>4 DEF Signal, CloseReader, ReadClosed, CloseQueue, Wait, Exit,
              kernel, stopping, names, channel, shipper, server, otlp
<1>5. CASE Ship
  <2>1. /\ Head(queue) \in Named /\ Tail(queue) \in Seq(Named)
        /\ Len(Tail(queue)) = Len(queue) - 1 /\ Len(queue) \in Nat
    BY Zenon, <1>5, TailLemma, LenProperties DEF Ship
  <2> QED
    BY <1>5, <2>1, PipelineAssumption DEF Ship, kernel, stopping, names, otlp
<1>6. CASE PostReturns \/ ShipEnds
  BY <1>6 DEF PostReturns, ShipEnds, kernel, stopping, names, channel, server, otlp
<1>7. ASSUME NEW o \in posts, Store(o) PROVE TypeInv'
  <2>1. Append(stored, o) \in Seq(Named)
    BY Zenon, <1>7, AppendLemma
  <2> QED
    BY Zenon, <1>7, <2>1 DEF Store, kernel, stopping, names, channel, shipper, otlp
<1>8. CASE ExportSpan
  <2>1. /\ Head(spans) \in Named /\ Tail(spans) \in Seq(Named)
        /\ Len(Tail(spans)) = Len(spans) - 1 /\ Len(spans) \in Nat
    BY Zenon, <1>8, TailLemma, LenProperties DEF ExportSpan
  <2>2. Append(exported, Head(spans)) \in Seq(Named)
    BY Zenon, <2>1, AppendLemma
  <2> QED
    BY <1>8, <2>1, <2>2, PipelineAssumption
    DEF ExportSpan, kernel, stopping, names, channel, shipper, server
<1>9. CASE UNCHANGED vars
  BY Zenon, <1>9 DEF vars, kernel, stopping, names, channel, shipper, server, otlp
<1> QED
  BY Zenon, <1>1, <1>2, <1>3, <1>4, <1>5, <1>6, <1>7, <1>8, <1>9 DEF Next, ReadLoop, ShipLoop, Close

-----------------------------------------------------------------------------
(* Records are numbered, and everything between the ring and the sinks     *)
(* moves in the order of the numbers.                                      *)

RingInOrder ==
    /\ Increasing(ring)
    /\ \A x \in Elems(ring) : x.n <= made
    /\ \A o \in printed : o.n <= made
    /\ \A o \in printed, x \in Elems(ring) : o.n < x.n
    /\ \A o, p \in printed : o.n = p.n => o = p

QueueInOrder ==
    /\ Increasing(queue)
    /\ Elems(queue) \subseteq printed /\ tried \subseteq printed
    /\ \A o \in Elems(queue), t \in tried : t.n < o.n

\* A POST is acted upon once; one that is not late is the one being made, the newest.
PostsOnce ==
    /\ posts \subseteq tried /\ current \subseteq tried
    /\ Elems(stored) \subseteq tried /\ Elems(stored) \cap posts = {}
    /\ \A o \in current, t \in tried : t.n <= o.n
    /\ posts \subseteq late \cup current

SpansInOrder ==
    /\ Increasing(spans) /\ Increasing(exported)
    /\ Elems(spans) \subseteq printed /\ Elems(exported) \subseteq printed
    /\ \A e \in Elems(exported), x \in Elems(spans) : e.n < x.n

FlowInv == TypeInv /\ RingInOrder /\ QueueInOrder /\ PostsOnce /\ SpansInOrder /\ InOrderUnlessLate

\* The round of readLoop, in those terms: the observation is newer than all others.
LEMMA ReadIsNew ==
    ASSUME TypeInv, RingInOrder, ring # << >>, NEW link \in {NoName, Head(ring).ifindex},
           NEW switch \in {NoName, Head(ring).vni}, Read(link, switch)
    PROVE  \E o \in Named :
               /\ Emit(o) /\ o \notin printed
               /\ \A p \in printed : p.n < o.n
               /\ o.n <= made
               /\ \A x \in Elems(Tail(ring)) : o.n < x.n
<1>1. Head(ring) \in Record /\ ring \in Seq(Record)
  BY Zenon, TailLemma DEF TypeInv, TypeOK
<1>2. link \in Nat /\ switch \in Nat
  BY <1>1 DEF NoName, Record
<1>3. PICK o \in Named : Emit(o) /\ o.n = Head(ring).n
  BY Zenon, <1>2, ReadLemma
<1>4. Head(ring) \in Elems(ring) /\ \A x \in Elems(Tail(ring)) : Head(ring).n < x.n
  BY Zenon, <1>1, TailLemma DEF RingInOrder
<1>5. (\A p \in printed : p.n < o.n) /\ o.n <= made
  BY Zenon, <1>3, <1>4 DEF RingInOrder
<1>6. o \notin printed
  <2>1. o.n \in Nat
    BY DEF Named
  <2> QED
    BY <1>5, <2>1
<1> QED
  BY Zenon, <1>3, <1>4, <1>5, <1>6

\* The ring: Capture appends the newest record, readLoop takes the oldest.
LEMMA RingStep == TypeInv /\ RingInOrder /\ [Next]_vars => RingInOrder'
<1> SUFFICES ASSUME TypeInv, RingInOrder, [Next]_vars PROVE RingInOrder'
  OBVIOUS
<1>1. ring \in Seq(Record) /\ made \in Nat /\ printed \subseteq Named
  BY DEF TypeInv, TypeOK
<1>2. \A x \in Elems(ring) : x.n \in Nat
  <2>1. Elems(ring) \subseteq Record
    BY Zenon, <1>1, ElemsLemma
  <2>2. \A x \in Record : x.n \in Nat
    BY DEF Record
  <2> QED
    BY Zenon, <2>1, <2>2
<1>3. \A o \in printed : o.n \in Nat
  BY <1>1 DEF Named
<1>4. ASSUME NEW h \in Header, Capture(h) PROVE RingInOrder'
  <2>1. made' = made + 1 /\ printed' = printed
    BY Zenon, <1>4, CaptureLemma DEF Capture
  <2>2. CASE ring' = ring
    BY <1>1, <1>2, <1>3, <2>1, <2>2 DEF RingInOrder
  <2>3. ASSUME NEW x \in Record, x.n = made + 1, ring' = Append(ring, x) PROVE RingInOrder'
    <3>1. Elems(ring') = Elems(ring) \cup {x}
      BY <1>1, <2>3, AppendLemma
    <3>2. \A y \in Elems(ring) : y.n < x.n
      BY <1>1, <1>2, <2>3 DEF RingInOrder
    <3>3. Increasing(ring')
      BY Zenon, <1>1, <2>3, <3>2, AppendLemma DEF RingInOrder
    <3>4. \A y \in Elems(ring') : y.n <= made'
      BY <1>1, <1>2, <2>1, <2>3, <3>1 DEF RingInOrder
    <3>5. \A o \in printed' : o.n <= made' /\ o.n < x.n
      BY <1>1, <1>3, <2>1, <2>3 DEF RingInOrder
    <3>6. \A o \in printed', y \in Elems(ring') : o.n < y.n
      BY Zenon, <2>1, <3>1, <3>5 DEF RingInOrder
    <3> QED
      BY Zenon, <2>1, <3>3, <3>4, <3>5, <3>6 DEF RingInOrder
  <2> QED
    BY Zenon, <1>4, <2>2, <2>3, CaptureLemma
<1>5. ASSUME ring # << >>, NEW link \in {NoName, Head(ring).ifindex},
             NEW switch \in {NoName, Head(ring).vni}, Read(link, switch)
      PROVE  RingInOrder'
  <2>1. PICK o \in Named : /\ Emit(o) /\ o \notin printed
                           /\ \A p \in printed : p.n < o.n
                           /\ o.n <= made
                           /\ \A x \in Elems(Tail(ring)) : o.n < x.n
    BY Zenon, <1>5, ReadIsNew
  <2>2. ring' = Tail(ring) /\ made' = made /\ printed' = printed \cup {o}
    BY Zenon, <1>5, <2>1 DEF Read, Emit
  <2>3. Increasing(ring') /\ Elems(ring') \subseteq Elems(ring)
    BY Zenon, <1>1, <1>5, <2>2, TailLemma DEF RingInOrder
  <2>4. \A p, q \in printed' : p.n = q.n => p = q
    <3>1. \A p \in printed : p.n # o.n
      <4>1. o.n \in Nat
        BY DEF Named
      <4> QED
        BY <1>3, <2>1, <4>1
    <3> QED
      BY Zenon, <2>2, <3>1 DEF RingInOrder
  <2> QED
    BY Zenon, <2>1, <2>2, <2>3, <2>4 DEF RingInOrder
<1>6. CASE ReadBad
  <2>1. /\ ring' = Tail(ring) /\ made' = made /\ printed' = printed
        /\ Increasing(ring') /\ Elems(ring') \subseteq Elems(ring)
    BY Zenon, <1>1, <1>6, TailLemma DEF RingInOrder, ReadBad
  <2> QED
    BY Zenon, <2>1 DEF RingInOrder
<1>7. CASE UNCHANGED <<ring, made, printed>>
  BY Zenon, <1>7 DEF RingInOrder
<1>8. ASSUME NEW o \in posts, Store(o) PROVE UNCHANGED <<ring, made, printed>>
  BY Zenon, <1>8 DEF Store, kernel
<1>9. CASE \/ Signal \/ CloseReader \/ ReadClosed \/ CloseQueue \/ Wait \/ Exit
           \/ Ship \/ PostReturns \/ ShipEnds \/ ExportSpan \/ UNCHANGED vars
  <2>1. UNCHANGED <<ring, made, printed>>
    BY Zenon, <1>9 DEF Signal, CloseReader, ReadClosed, CloseQueue, Wait, Exit, Ship, PostReturns,
                ShipEnds, ExportSpan, vars, kernel
  <2> QED
    BY Zenon, <2>1, <1>7
<1> QED
  BY Zenon, <1>4, <1>5, <1>6, <1>7, <1>8, <1>9 DEF Next, ReadLoop, ShipLoop, Close

\* emitter.queue: emit appends the observation of the newest record read.
LEMMA QueueStep == TypeInv /\ RingInOrder /\ QueueInOrder /\ [Next]_vars => QueueInOrder'
<1> SUFFICES ASSUME TypeInv, RingInOrder, QueueInOrder, [Next]_vars PROVE QueueInOrder'
  OBVIOUS
<1>1. queue \in Seq(Named) /\ printed \subseteq Named
  BY Zenon DEF TypeInv, TypeOK
<1>2. ASSUME ring # << >>, NEW link \in {NoName, Head(ring).ifindex},
             NEW switch \in {NoName, Head(ring).vni}, Read(link, switch)
      PROVE  QueueInOrder'
  <2>1. PICK o \in Named : Emit(o) /\ \A p \in printed : p.n < o.n
    BY Zenon, <1>2, ReadIsNew
  <2>2. printed' = printed \cup {o} /\ tried' = tried /\ (queue' = queue \/ queue' = Append(queue, o))
    BY Zenon, <1>2, <2>1, EmitLemma DEF Read, shipper
  <2>3. CASE queue' = queue
    BY Zenon, <2>2, <2>3 DEF QueueInOrder
  <2>4. CASE queue' = Append(queue, o)
    <3>1. Elems(queue') = Elems(queue) \cup {o}
      BY <1>1, <2>4, AppendLemma
    <3>2. Increasing(queue')
      BY Zenon, <1>1, <2>1, <2>4, AppendLemma DEF QueueInOrder
    <3> QED
      BY Zenon, <2>1, <2>2, <3>1, <3>2 DEF QueueInOrder
  <2> QED
    BY Zenon, <2>2, <2>3, <2>4
<1>3. CASE Ship
  <2>1. /\ queue' = Tail(queue) /\ tried' = tried \cup {Head(queue)} /\ printed' = printed
        /\ queue # << >>
    BY Zenon, <1>3 DEF Ship
  <2>2. /\ Head(queue) \in Elems(queue) /\ Elems(queue') \subseteq Elems(queue)
        /\ Increasing(queue') /\ \A x \in Elems(queue') : Head(queue).n < x.n
    BY Zenon, <1>1, <2>1, TailLemma DEF QueueInOrder
  <2> QED
    BY Zenon, <2>1, <2>2 DEF QueueInOrder
<1>4. CASE UNCHANGED <<queue, printed, tried>>
  BY Zenon, <1>4 DEF QueueInOrder
<1>5. ASSUME NEW h \in Header, Capture(h) PROVE UNCHANGED <<queue, printed, tried>>
  BY Zenon, <1>5 DEF Capture, channel, shipper
<1>6. ASSUME NEW o \in posts, Store(o) PROVE UNCHANGED <<queue, printed, tried>>
  BY Zenon, <1>6 DEF Store, channel, shipper
<1>7. CASE \/ Signal \/ CloseReader \/ ReadBad \/ ReadClosed \/ CloseQueue \/ Wait \/ Exit
           \/ PostReturns \/ ShipEnds \/ ExportSpan \/ UNCHANGED vars
  <2>1. UNCHANGED <<queue, printed, tried>>
    BY Zenon, <1>7 DEF Signal, CloseReader, ReadBad, ReadClosed, CloseQueue, Wait, Exit, PostReturns,
                ShipEnds, ExportSpan, vars, channel, shipper
  <2> QED
    BY Zenon, <2>1, <1>4
<1> QED
  BY Zenon, <1>2, <1>3, <1>4, <1>5, <1>6, <1>7 DEF Next, ReadLoop, ShipLoop, Close

\* The POSTs, and the order in which the collector acts on them.
LEMMA PostsStep ==
    TypeInv /\ RingInOrder /\ QueueInOrder /\ PostsOnce /\ InOrderUnlessLate /\ [Next]_vars
        => PostsOnce' /\ InOrderUnlessLate'
<1> SUFFICES ASSUME TypeInv, RingInOrder, QueueInOrder, PostsOnce, InOrderUnlessLate, [Next]_vars
             PROVE  PostsOnce' /\ InOrderUnlessLate'
  OBVIOUS
<1>1. stored \in Seq(Named) /\ queue \in Seq(Named) /\ tried \subseteq Named
  BY Zenon DEF TypeInv, TypeOK
<1>2. CASE Ship
  <2>1. /\ queue # << >> /\ current' = {Head(queue)} /\ posts' = posts \cup {Head(queue)}
        /\ tried' = tried \cup {Head(queue)} /\ late' = late /\ stored' = stored /\ current = {}
    BY Zenon, <1>2 DEF Ship
  <2>2. Head(queue) \in Elems(queue) /\ Head(queue) \in Named
    BY Zenon, <1>1, <2>1, TailLemma
  <2>3. Head(queue).n \in Nat /\ \A t \in tried : t.n < Head(queue).n /\ t.n \in Nat
    <3>1. \A x \in Named : x.n \in Nat
      BY DEF Named
    <3> QED
      BY Zenon, <1>1, <2>2, <3>1 DEF QueueInOrder
  <2>4. Head(queue) \notin tried
    BY <2>3
  <2>5. \A o \in current', t \in tried' : t.n <= o.n
    BY <2>1, <2>3
  <2>6. PostsOnce'
    BY Zenon, <2>1, <2>4, <2>5 DEF PostsOnce
  <2>7. InOrderUnlessLate'
    BY Zenon, <2>1 DEF InOrderUnlessLate
  <2> QED
    BY Zenon, <2>6, <2>7
<1>3. CASE PostReturns
  <2>1. /\ current' = {} /\ late' = late \cup (current \cap posts)
        /\ UNCHANGED <<posts, tried, stored>>
    BY Zenon, <1>3 DEF PostReturns, server
  <2> QED
    BY Zenon, <2>1 DEF PostsOnce, InOrderUnlessLate
<1>4. ASSUME NEW o \in posts, Store(o) PROVE PostsOnce' /\ InOrderUnlessLate'
  <2>1. posts' = posts \ {o} /\ UNCHANGED <<current, tried, late>>
    BY Zenon, <1>4 DEF Store, shipper
  <2>2. CASE stored' = stored
    BY Zenon, <2>1, <2>2 DEF PostsOnce, InOrderUnlessLate
  <2>3. CASE stored' = Append(stored, o)
    <3>1. o \in tried /\ o \in Named
      BY Zenon, <1>1, <1>4 DEF PostsOnce
    <3>2. Elems(stored') = Elems(stored) \cup {o}
      BY <1>1, <2>3, <3>1, AppendLemma
    <3>3. PostsOnce'
      BY Zenon, <1>4, <2>1, <3>1, <3>2 DEF PostsOnce
    <3>4. o \notin late => \A x \in Elems(stored) : x.n < o.n
      <4> SUFFICES ASSUME o \notin late, NEW x \in Elems(stored) PROVE x.n < o.n
        OBVIOUS
      <4>1. x \in tried /\ x # o /\ o \in current
        BY Zenon, <1>4 DEF PostsOnce
      <4>2. x.n <= o.n
        BY Zenon, <4>1 DEF PostsOnce
      <4>3. x.n # o.n
        BY Zenon, <3>1, <4>1 DEF RingInOrder, QueueInOrder
      <4>4. x.n \in Nat /\ o.n \in Nat
        BY <1>1, <3>1, <4>1 DEF Named
      <4> QED
        BY <4>2, <4>3, <4>4
    <3>5. /\ Len(stored) \in Nat /\ DOMAIN stored = 1..Len(stored)
          /\ DOMAIN stored' = 1..(Len(stored) + 1) /\ stored'[Len(stored) + 1] = o
          /\ \A i \in 1..Len(stored) : stored'[i] = stored[i]
      BY <1>1, <2>3, <3>1, AppendProperties, LenProperties
    <3>6. ASSUME NEW i \in DOMAIN stored', NEW j \in DOMAIN stored', i < j, stored'[j] \notin late
          PROVE  stored'[i].n < stored'[j].n
      <4>1. i \in 1..Len(stored) /\ (j = Len(stored) + 1 \/ j \in 1..Len(stored))
        BY <3>5, <3>6
      <4>2. CASE j = Len(stored) + 1
        BY Zenon, <3>4, <3>5, <3>6, <4>1, <4>2 DEF Elems
      <4>3. CASE j \in 1..Len(stored)
        BY Zenon, <3>5, <3>6, <4>1, <4>3 DEF InOrderUnlessLate
      <4> QED
        BY Zenon, <4>1, <4>2, <4>3
    <3>7. InOrderUnlessLate'
      BY Zenon, <2>1, <3>6 DEF InOrderUnlessLate
    <3> QED
      BY Zenon, <3>3, <3>7
  <2> QED
    BY Zenon, <1>4, <2>2, <2>3 DEF Store
<1>5. CASE UNCHANGED <<posts, current, tried, late, stored>>
  BY Zenon, <1>5 DEF PostsOnce, InOrderUnlessLate
<1>6. ASSUME NEW h \in Header, Capture(h) PROVE UNCHANGED <<posts, current, tried, late, stored>>
  BY Zenon, <1>6 DEF Capture, shipper, server
<1>7. ASSUME NEW link, NEW switch, Read(link, switch)
      PROVE  UNCHANGED <<posts, current, tried, late, stored>>
  BY Zenon, <1>7 DEF Read, shipper, server
<1>8. CASE \/ Signal \/ CloseReader \/ ReadBad \/ ReadClosed \/ CloseQueue \/ Wait \/ Exit
           \/ ShipEnds \/ ExportSpan \/ UNCHANGED vars
  <2>1. UNCHANGED <<posts, current, tried, late, stored>>
    BY Zenon, <1>8 DEF Signal, CloseReader, ReadBad, ReadClosed, CloseQueue, Wait, Exit, ShipEnds,
                ExportSpan, vars, shipper, server
  <2> QED
    BY Zenon, <2>1, <1>5
<1> QED
  BY Zenon, <1>2, <1>3, <1>4, <1>5, <1>6, <1>7, <1>8 DEF Next, ReadLoop, ShipLoop, Close

\* The batch processor's queue and what it exported, likewise.
LEMMA SpansStep == TypeInv /\ RingInOrder /\ SpansInOrder /\ [Next]_vars => SpansInOrder'
<1> SUFFICES ASSUME TypeInv, RingInOrder, SpansInOrder, [Next]_vars PROVE SpansInOrder'
  OBVIOUS
<1>1. spans \in Seq(Named) /\ exported \in Seq(Named) /\ printed \subseteq Named
  BY Zenon DEF TypeInv, TypeOK
<1>2. ASSUME ring # << >>, NEW link \in {NoName, Head(ring).ifindex},
             NEW switch \in {NoName, Head(ring).vni}, Read(link, switch)
      PROVE  SpansInOrder'
  <2>1. PICK o \in Named : Emit(o) /\ \A p \in printed : p.n < o.n
    BY Zenon, <1>2, ReadIsNew
  <2>2. /\ printed' = printed \cup {o} /\ exported' = exported
        /\ spans' = spans \/ spans' = Append(spans, o)
    BY Zenon, <1>2, <2>1, EmitLemma DEF Read
  <2>3. CASE spans' = spans
    BY Zenon, <2>2, <2>3 DEF SpansInOrder
  <2>4. CASE spans' = Append(spans, o)
    <3>1. Elems(spans') = Elems(spans) \cup {o}
      BY <1>1, <2>4, AppendLemma
    <3>2. Increasing(spans')
      BY Zenon, <1>1, <2>1, <2>4, AppendLemma DEF SpansInOrder
    <3> QED
      BY Zenon, <2>1, <2>2, <3>1, <3>2 DEF SpansInOrder
  <2> QED
    BY Zenon, <2>2, <2>3, <2>4
<1>3. CASE ExportSpan
  <2>1. /\ spans # << >> /\ spans' = Tail(spans) /\ exported' = Append(exported, Head(spans))
        /\ printed' = printed
    BY Zenon, <1>3 DEF ExportSpan
  <2>2. /\ Head(spans) \in Elems(spans) /\ Elems(spans') \subseteq Elems(spans)
        /\ Increasing(spans') /\ \A x \in Elems(spans') : Head(spans).n < x.n
        /\ Head(spans) \in Named
    BY Zenon, <1>1, <2>1, TailLemma DEF SpansInOrder
  <2>3. Elems(exported') = Elems(exported) \cup {Head(spans)}
    BY <1>1, <2>1, <2>2, AppendLemma
  <2>4. Increasing(exported')
    BY Zenon, <1>1, <2>1, <2>2, AppendLemma DEF SpansInOrder
  <2> QED
    BY Zenon, <2>1, <2>2, <2>3, <2>4 DEF SpansInOrder
<1>4. CASE UNCHANGED <<spans, exported, printed>>
  BY Zenon, <1>4 DEF SpansInOrder
<1>5. ASSUME NEW h \in Header, Capture(h) PROVE UNCHANGED <<spans, exported, printed>>
  BY Zenon, <1>5 DEF Capture, otlp
<1>6. ASSUME NEW o \in posts, Store(o) PROVE UNCHANGED <<spans, exported, printed>>
  BY Zenon, <1>6 DEF Store, otlp
<1>7. CASE \/ Signal \/ CloseReader \/ ReadBad \/ ReadClosed \/ CloseQueue \/ Wait \/ Exit
           \/ Ship \/ PostReturns \/ ShipEnds \/ UNCHANGED vars
  <2>1. UNCHANGED <<spans, exported, printed>>
    BY Zenon, <1>7 DEF Signal, CloseReader, ReadBad, ReadClosed, CloseQueue, Wait, Exit, Ship,
                PostReturns, ShipEnds, vars, otlp
  <2> QED
    BY Zenon, <2>1, <1>4
<1> QED
  BY Zenon, <1>2, <1>3, <1>4, <1>5, <1>6, <1>7 DEF Next, ReadLoop, ShipLoop, Close

\* Nothing has been captured when newEmitter returns.
LEMMA FlowInit == Init => FlowInv
<1> SUFFICES ASSUME Init PROVE FlowInv
  OBVIOUS
<1>1. \A S : << >> \in Seq(S)
  BY Zenon, EmptySeq
<1>2. Len(<< >>) = 0 /\ DOMAIN << >> = {} /\ Elems(<< >>) = {} /\ Increasing(<< >>)
  BY DEF Elems, Increasing
<1>3. TypeInv
  BY <1>1, <1>2, PipelineAssumption DEF Init, TypeInv, TypeOK, CachesOK
<1>4. RingInOrder /\ QueueInOrder /\ PostsOnce /\ SpansInOrder
  BY Zenon, <1>2 DEF Init, RingInOrder, QueueInOrder, PostsOnce, SpansInOrder
<1>5. InOrderUnlessLate
  BY Zenon, <1>2 DEF Init, InOrderUnlessLate
<1> QED
  BY Zenon, <1>3, <1>4, <1>5 DEF FlowInv

\* No goroutine's step takes an observation out of order.
LEMMA FlowStep == FlowInv /\ [Next]_vars => FlowInv'
<1> SUFFICES ASSUME FlowInv, [Next]_vars PROVE FlowInv'
  OBVIOUS
<1>1. TypeInv'
  BY Zenon, TypeStep DEF FlowInv
<1>2. RingInOrder'
  BY Zenon, RingStep DEF FlowInv
<1>3. QueueInOrder'
  BY Zenon, QueueStep DEF FlowInv
<1>4. PostsOnce' /\ InOrderUnlessLate'
  BY Zenon, PostsStep DEF FlowInv
<1>5. SpansInOrder'
  BY Zenon, SpansStep DEF FlowInv
<1> QED
  BY Zenon, <1>1, <1>2, <1>3, <1>4, <1>5 DEF FlowInv

\* The order in ring, queue, POSTs and spans holds throughout a run of the agent.
LEMMA FlowAlways == Spec => []FlowInv
  BY FlowInit, FlowStep, PTL DEF Spec

\* No variable leaves its type, the ring and both queues never exceed their capacity,
\* whatever the capacities are.
THEOREM PipelineTypes == Spec => []TypeOK
<1>1. FlowInv => TypeOK
  BY Zenon DEF FlowInv, TypeInv
<1> QED
  BY <1>1, FlowAlways, PTL

\* shipLoop: the collector receives an agent's observations in the order of the ring,
\* except those whose POST the client had given up on.
THEOREM StoresInOrder == Spec => []InOrderUnlessLate
<1>1. FlowInv => InOrderUnlessLate
  BY Zenon DEF FlowInv
<1> QED
  BY <1>1, FlowAlways, PTL

\* otlpSink.export: the backend gets an agent's observations in the order of the ring, each
\* at most once, however many the full queue of the batch processor loses.
THEOREM BackendInOrder == Spec => []Increasing(exported)
<1>1. FlowInv => Increasing(exported)
  BY Zenon DEF FlowInv, SpansInOrder
<1> QED
  BY <1>1, FlowAlways, PTL

-----------------------------------------------------------------------------
(* The pipeline implements Delivery, once for each sink.                   *)

\* What a step does to stdout: nothing, or one new observation.
LEMMA PrintedStep ==
    ASSUME FlowInv, [Next]_vars
    PROVE  \/ printed' = printed
           \/ /\ \E o \in printed' : o \notin printed /\ printed' = printed \cup {o}
              /\ UNCHANGED <<stored, exported>>
<1>1. ASSUME ring # << >>, NEW link \in {NoName, Head(ring).ifindex},
             NEW switch \in {NoName, Head(ring).vni}, Read(link, switch)
      PROVE  /\ \E o \in printed' : o \notin printed /\ printed' = printed \cup {o}
             /\ UNCHANGED <<stored, exported>>
  <2>1. PICK o \in Named : Emit(o) /\ o \notin printed
    BY Zenon, <1>1, ReadIsNew DEF FlowInv
  <2>2. printed' = printed \cup {o} /\ UNCHANGED <<stored, exported>>
    BY Zenon, <1>1, <2>1 DEF Emit, Read, server
  <2> QED
    BY Zenon, <2>1, <2>2
<1>2. ASSUME NEW h \in Header, Capture(h) PROVE printed' = printed
  BY Zenon, <1>2 DEF Capture
<1>3. ASSUME NEW o \in posts, Store(o) PROVE printed' = printed
  BY Zenon, <1>3 DEF Store
<1>4. CASE \/ Signal \/ CloseReader \/ ReadBad \/ ReadClosed \/ CloseQueue \/ Wait \/ Exit
           \/ Ship \/ PostReturns \/ ShipEnds \/ ExportSpan \/ UNCHANGED vars
  BY Zenon, <1>4 DEF Signal, CloseReader, ReadBad, ReadClosed, CloseQueue, Wait, Exit, Ship,
              PostReturns, ShipEnds, ExportSpan, vars
<1> QED
  BY Zenon, <1>1, <1>2, <1>3, <1>4 DEF Next, ReadLoop, ShipLoop, Close

\* emit, shipLoop and the collector implement Delivery: what the collector stores was
\* printed, and nothing is stored twice, whatever times out.
THEOREM CollectorStoresOnce == Spec => StoresAtMostOnce
<1>1. Init => ToCollector!Init
  BY Zenon DEF Init, ToCollector!Init
<1>2. FlowInv /\ [Next]_vars => [ToCollector!Next]_(ToCollector!vars)
  <2> SUFFICES ASSUME FlowInv, [Next]_vars PROVE ToCollector!Next \/ UNCHANGED ToCollector!vars
    OBVIOUS
  <2>1. ASSUME NEW o \in printed', o \notin printed, printed' = printed \cup {o}, stored' = stored
        PROVE  ToCollector!Next
    BY Zenon, <2>1 DEF ToCollector!Next, ToCollector!Send
  <2>2. ASSUME NEW o \in posts, Store(o) PROVE ToCollector!Next \/ UNCHANGED ToCollector!vars
    <3>1. o \in printed /\ o \notin Elems(stored)
      BY Zenon DEF FlowInv, PostsOnce, QueueInOrder
    <3>2. ~ToCollector!Arrived(o)
      BY Zenon, <3>1 DEF ToCollector!Arrived, Elems
    <3>3. printed' = printed /\ (stored' = stored \/ stored' = Append(stored, o))
      BY Zenon, <2>2 DEF Store
    <3> QED
      BY Zenon, <3>1, <3>2, <3>3 DEF ToCollector!Next, ToCollector!Deliver, ToCollector!vars
  <2>3. (\E o \in posts : Store(o)) \/ stored' = stored
    BY Zenon DEF Next, Capture, Signal, CloseReader, ReadLoop, Read, ReadBad, ReadClosed, ShipLoop,
           Ship, PostReturns, ShipEnds, Close, CloseQueue, Wait, Exit, ExportSpan, vars, server
  <2> QED
    BY Zenon, <2>1, <2>2, <2>3, PrintedStep DEF ToCollector!vars
<1> QED
  BY <1>1, <1>2, FlowAlways, PTL DEF Spec, StoresAtMostOnce, ToCollector!Spec

\* otlpSink.export and the batch processor implement Delivery as well.
THEOREM BackendGetsOnce == Spec => ExportsAtMostOnce
<1>1. Init => ToBackend!Init
  BY Zenon DEF Init, ToBackend!Init
<1>2. FlowInv /\ [Next]_vars => [ToBackend!Next]_(ToBackend!vars)
  <2> SUFFICES ASSUME FlowInv, [Next]_vars PROVE ToBackend!Next \/ UNCHANGED ToBackend!vars
    OBVIOUS
  <2>1. ASSUME NEW o \in printed', o \notin printed, printed' = printed \cup {o}, exported' = exported
        PROVE  ToBackend!Next
    BY Zenon, <2>1 DEF ToBackend!Next, ToBackend!Send
  <2>2. CASE ExportSpan
    <3> DEFINE o == Head(spans)
    <3>1. spans \in Seq(Named) /\ spans # << >>
      BY Zenon, <2>2 DEF FlowInv, TypeInv, TypeOK, ExportSpan
    <3>2. o \in Elems(spans) /\ o \in Named
      BY Zenon, <3>1, TailLemma
    <3>3. o \in printed /\ \A e \in Elems(exported) : e.n < o.n
      BY Zenon, <3>2 DEF FlowInv, SpansInOrder
    <3>4. o.n \in Nat
      BY <3>2 DEF Named
    <3>5. o \notin Elems(exported)
      BY <3>3, <3>4
    <3>6. ~ToBackend!Arrived(o)
      BY Zenon, <3>5 DEF ToBackend!Arrived, Elems
    <3>7. printed' = printed /\ exported' = Append(exported, o)
      BY Zenon, <2>2 DEF ExportSpan
    <3> QED
      BY Zenon, <3>3, <3>6, <3>7 DEF ToBackend!Next, ToBackend!Deliver
  <2>3. ExportSpan \/ exported' = exported
    BY Zenon DEF Next, Capture, Signal, CloseReader, ReadLoop, Read, ReadBad, ReadClosed, ShipLoop,
           Ship, PostReturns, ShipEnds, Store, Close, CloseQueue, Wait, Exit, vars, otlp
  <2> QED
    BY Zenon, <2>1, <2>2, <2>3, PrintedStep DEF ToBackend!vars
<1> QED
  BY <1>1, <1>2, FlowAlways, PTL DEF Spec, ExportsAtMostOnce, ToBackend!Spec

\* What Delivery means for the collector: it has each observation at most once, and none
\* that was not printed.
StoredOnce ==
    /\ Elems(stored) \subseteq printed
    /\ \A i, j \in DOMAIN stored : stored[i] = stored[j] => i = j

\* It follows from the abstract specification alone.
LEMMA DeliveryMeans == ToCollector!Spec => []StoredOnce
<1> DEFINE Inv == stored \in Seq(printed) /\ StoredOnce
<1>1. ToCollector!Init => Inv
  <2> SUFFICES ASSUME ToCollector!Init PROVE Inv
    BY Zenon
  <2>1. stored = << >> /\ printed = {}
    BY Zenon DEF ToCollector!Init
  <2>2. << >> \in Seq({}) /\ DOMAIN << >> = {}
    BY EmptySeq
  <2> QED
    BY Zenon, <2>1, <2>2 DEF StoredOnce, Elems
<1>2. Inv /\ [ToCollector!Next]_(ToCollector!vars) => Inv'
  <2> SUFFICES ASSUME Inv, ToCollector!Next \/ UNCHANGED ToCollector!vars PROVE Inv'
    BY Zenon
  <2>1. Len(stored) \in Nat /\ DOMAIN stored = 1..Len(stored)
    BY Zenon, LenProperties
  <2>2. CASE stored' = stored /\ printed \subseteq printed'
    <3>1. stored \in Seq(printed')
      <4>1. \A i \in 1..Len(stored) : stored[i] \in printed'
        BY Zenon, <2>2, ElementOfSeq
      <4> QED
        BY <2>1, <4>1
    <3> QED
      BY Zenon, <2>2, <3>1 DEF StoredOnce, Elems
  <2>3. ASSUME NEW o \in printed, ToCollector!Deliver(o) PROVE Inv'
    <3>1. /\ stored' = Append(stored, o) /\ printed' = printed
          /\ \A i \in DOMAIN stored : stored[i] # o
      BY Zenon, <2>3 DEF ToCollector!Deliver, ToCollector!Arrived
    <3>2. /\ Append(stored, o) \in Seq(printed) /\ Len(Append(stored, o)) = Len(stored) + 1
          /\ Elems(Append(stored, o)) = Elems(stored) \cup {o}
      BY AppendLemma
    <3>3. /\ \A i \in 1..Len(stored) : stored'[i] = stored[i]
          /\ stored'[Len(stored) + 1] = o
      BY <3>1, AppendProperties
    <3>4. \A i \in DOMAIN stored' : i = Len(stored) + 1 \/ i \in DOMAIN stored
      <4>1. DOMAIN stored' = 1..(Len(stored) + 1)
        BY Zenon, <3>1, <3>2, LenProperties
      <4> QED
        BY <2>1, <4>1
    <3>5. \A i, j \in DOMAIN stored' : stored'[i] = stored'[j] => i = j
      <4>1. \A i \in DOMAIN stored : stored'[i] = stored[i] /\ stored'[i] # o
        BY Zenon, <2>1, <3>1, <3>3
      <4>2. \A i, j \in DOMAIN stored : stored[i] = stored[j] => i = j
        BY Zenon DEF StoredOnce
      <4> HIDE DEF Inv
      <4> QED
        BY Zenon, <3>3, <3>4, <4>1, <4>2
    <3> QED
      BY Zenon, <3>1, <3>2, <3>5 DEF StoredOnce
  <2>4. ASSUME NEW o \in printed', ToCollector!Send(o) PROVE Inv'
    <3>1. stored' = stored /\ printed \subseteq printed'
      BY Zenon, <2>4 DEF ToCollector!Send
    <3> QED
      BY Zenon, <2>2, <3>1
  <2>5. CASE UNCHANGED ToCollector!vars
    <3>1. stored' = stored /\ printed \subseteq printed'
      BY Zenon, <2>5 DEF ToCollector!vars
    <3> QED
      BY Zenon, <2>2, <3>1
  <2> QED
    BY Zenon, <2>3, <2>4, <2>5 DEF ToCollector!Next
<1>3. Inv => StoredOnce
  BY Zenon
<1> HIDE DEF Inv
<1> QED
  BY <1>1, <1>2, <1>3, PTL DEF ToCollector!Spec

\* The collector stores no observation twice and none that the agent did not print, though
\* a POST that timed out may still be acted upon (shipLoop, which retries nothing).
THEOREM CollectorHasEachOnce == Spec => []StoredOnce
  BY CollectorStoresOnce, DeliveryMeans, PTL DEF StoresAtMostOnce

-----------------------------------------------------------------------------
(* The end of the agent: shipLoop is done only when nothing can be queued  *)
(* any more and nothing is left.                                           *)

CloseInv ==
    /\ queueOpen \/ main \in {"wait", "flush", "exited"}
    /\ ship = "done" => queue = << >> /\ current = {}
    /\ ship = "done" /\ main \in {"read", "close"} => "collector" \notin sinks
    /\ "collector" \notin sinks => ship = "done"
    /\ main \in {"flush", "exited"} => ship = "done"
    /\ ship \in {"running", "done"}

\* The order of shutdown: reader, readLoop, queue, shipLoop, exit.
LEMMA CloseStep == CloseInv /\ [Next]_vars => CloseInv'
<1> SUFFICES ASSUME CloseInv, [Next]_vars PROVE CloseInv'
  OBVIOUS
<1> USE DEF CloseInv
<1>1. ASSUME NEW h \in Header, Capture(h) PROVE CloseInv'
  BY Zenon, <1>1 DEF Capture, channel, shipper
<1>2. ASSUME NEW link, NEW switch, Read(link, switch) PROVE CloseInv'
  <2>1. /\ main = "read" /\ main' = main
        /\ "collector" \notin sinks => queue' = queue
        /\ UNCHANGED <<queueOpen, ship, current, sinks>>
    BY Zenon, <1>2 DEF Read, Emit, shipper
  <2> QED
    BY Zenon, <2>1
<1>3. CASE Signal \/ CloseReader \/ ReadBad \/ ReadClosed
  BY Zenon, <1>3 DEF Signal, CloseReader, ReadBad, ReadClosed, channel, shipper
<1>4. CASE Ship
  BY Zenon, <1>4 DEF Ship
<1>5. CASE PostReturns \/ ShipEnds
  BY Zenon, <1>5 DEF PostReturns, ShipEnds, channel
<1>6. ASSUME NEW o \in posts, Store(o) PROVE CloseInv'
  BY Zenon, <1>6 DEF Store, channel, shipper
<1>7. CASE CloseQueue
  BY Zenon, <1>7 DEF CloseQueue, shipper
<1>8. CASE Wait \/ Exit
  BY Zenon, <1>8 DEF Wait, Exit, channel, shipper
<1>9. CASE ExportSpan \/ UNCHANGED vars
  BY Zenon, <1>9 DEF ExportSpan, vars, channel, shipper
<1> QED
  BY Zenon, <1>1, <1>2, <1>3, <1>4, <1>5, <1>6, <1>7, <1>8, <1>9 DEF Next, ReadLoop, ShipLoop, Close

\* It holds throughout.
LEMMA CloseAlways == Spec => []CloseInv
<1>1. Init => CloseInv
  BY Zenon DEF Init, CloseInv
<1> QED
  BY <1>1, CloseStep, PTL DEF Spec

\* emit never sends on a closed queue, however the signal, the goroutine that closes the
\* reader and readLoop interleave.
THEOREM NoSendOnClosed == Spec => []QueueOpenWhileReading
<1>1. CloseInv => QueueOpenWhileReading
  BY Zenon DEF CloseInv, QueueOpenWhileReading
<1> QED
  BY <1>1, CloseAlways, PTL

\* emitter.close returns only when shipLoop has posted all that was queued.
THEOREM CloseDrains == Spec => []CloseDrainsQueue
<1>1. CloseInv => CloseDrainsQueue
  BY Zenon DEF CloseInv, CloseDrainsQueue
<1> QED
  BY <1>1, CloseAlways, PTL
=============================================================================
