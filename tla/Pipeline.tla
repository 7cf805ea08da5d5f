------------------------------ MODULE Pipeline ------------------------------
(***************************************************************************)
(* An observation's way through one agent, from the eBPF ring buffer to    *)
(* stdout, the collector and the OTLP backend (readLoop and run in         *)
(* agent/main.go, agent/emit.go, agent/otlp.go, internal/observation), and *)
(* the end of the agent after a signal.                                    *)
(*                                                                         *)
(* Three goroutines of the agent take part: readLoop on the main           *)
(* goroutine, the one waiting for the signal, and the emitter's shipLoop.  *)
(* The ring buffer and the OTLP batch processor are external; of the       *)
(* collector, module Collector has the rest.  The http.Client gives up on  *)
(* a POST after 3 s; the collector may still act on it later.              *)
(*                                                                         *)
(* A record is its number, its ifindex and its VNI, 0 for none.  Enriched, *)
(* it also has the names of both, looked up and cached; a name is the      *)
(* number of what it names, and 0 is the empty string.                     *)
(***************************************************************************)
EXTENDS Integers, Sequences

CONSTANTS
    Header,         \* the pairs of ifindex and VNI a record can have
    Config,         \* the sets of sinks an agent may be started with
    RingCap,        \* records the ring holds
    QueueCap,       \* capacity of emitter.queue, in the code 1024
    SpanCap,        \* queue of the batch span processor
    MaxRecords      \* bound: how many records the eBPF programs make

ASSUME PipelineAssumption ==
    /\ Header \subseteq [ifindex : Nat \ {0}, vni : Nat]
    /\ Config \subseteq SUBSET {"collector", "otlp"}
    /\ RingCap \in Nat /\ QueueCap \in Nat /\ SpanCap \in Nat /\ MaxRecords \in Nat

VARIABLES
    made,       \* number of records made
    ring,       \* the ring buffer
    reader,     \* the ring-buffer reader: "open" or "closed"
    sig,        \* the signal: "none", "pending" or "taken"
    main,       \* where run is: "read", "close", "wait", "flush" or "exited"
    sinks,      \* which of "collector" and "otlp" are configured
    ifCache,    \* ifNameCache: ifindex -> name
    lsCache,    \* emitter.lsCache: VNI -> logical switch
    printed,    \* the observations on stdout
    queue,      \* emitter.queue
    queueOpen,
    ship,       \* shipLoop: "running" or "done"
    current,    \* what it is posting: one observation or none
    posts,      \* POSTs sent and not acted upon
    stored,     \* what the collector took, in its order
    spans,      \* the batch processor's queue
    exported,   \* what it exported, in order
    tried,      \* history: observations that were posted
    late        \* history: POSTs given up on before the collector acted on them

kernel == <<made, ring>>
stopping == <<reader, sig>>
names == <<ifCache, lsCache>>
channel == <<queue, queueOpen>>
shipper == <<ship, current, tried, late>>
server == <<posts, stored>>
otlp == <<spans, exported>>
vars == <<kernel, stopping, main, sinks, names, printed, channel, shipper, server, otlp>>

NoName == 0
Put(f, k, v) == [x \in DOMAIN f \cup {k} |-> IF x = k THEN v ELSE f[x]]

Init ==
    /\ made = 0 /\ ring = << >> /\ reader = "open" /\ sig = "none" /\ main = "read"
    /\ sinks \in Config
    /\ ifCache = << >> /\ lsCache = << >> /\ printed = {}
    /\ queue = << >> /\ queueOpen = TRUE
    /\ ship = IF "collector" \in sinks THEN "running" ELSE "done"
    /\ current = {} /\ tried = {} /\ late = {}
    /\ posts = {} /\ stored = << >> /\ spans = << >> /\ exported = << >>

-----------------------------------------------------------------------------
(* The kernel and the signal.                                              *)

\* A program on some interface observes a frame; a full ring loses the record.  The
\* programs stay attached until the emitter is closed.
Capture(h) ==
    /\ main # "exited" /\ made < MaxRecords
    /\ made' = made + 1
    /\ ring' = IF Len(ring) < RingCap
               THEN Append(ring, [n |-> made + 1, ifindex |-> h.ifindex, vni |-> h.vni])
               ELSE ring
    /\ UNCHANGED <<stopping, main, sinks, names, printed, channel, shipper, server, otlp>>

\* External: SIGINT or SIGTERM.  Later ones are not looked at.
Signal ==
    /\ sig = "none" /\ sig' = "pending"
    /\ UNCHANGED <<kernel, reader, main, sinks, names, printed, channel, shipper, server, otlp>>

\* Fault: the waiting goroutine closes the emitter's queue too.
CloseReader_Emitter ==
    /\ sig = "pending"
    /\ sig' = "taken" /\ reader' = "closed" /\ queueOpen' = FALSE
    /\ UNCHANGED <<kernel, main, sinks, names, printed, queue, shipper, server, otlp>>

\* The goroutine that waits for the signal.
CloseReader ==
    /\ sig = "pending"
    /\ sig' = "taken" /\ reader' = "closed"
    /\ UNCHANGED <<kernel, main, sinks, names, printed, channel, shipper, server, otlp>>

-----------------------------------------------------------------------------
(* readLoop, Enrich and emit.                                              *)

\* ifName and logicalSwitch: the cache after a lookup, which answers `answer` if it has
\* to be made.  A failed one is cached as well.
Cached(cache, key, answer) ==
    IF key \in DOMAIN cache THEN cache ELSE Put(cache, key, answer)

NameIn(cache, key) == IF key \in DOMAIN cache THEN cache[key] ELSE NoName

\* Enrich, and emit's own fields.
Enrich(raw, ifs, switches) ==
    [n |-> raw.n, ifindex |-> raw.ifindex, vni |-> raw.vni,
     iface |-> NameIn(ifs, raw.ifindex),
     switch |-> IF raw.vni = 0 THEN NoName ELSE NameIn(switches, raw.vni)]

\* otlpSink.export: one span, which the batch processor drops when its queue is full.
Export(o) ==
    spans' = IF "otlp" \in sinks /\ Len(spans) < SpanCap THEN Append(spans, o) ELSE spans

\* emit: printed, sent to the queue unless that would block, and exported.
Emit(o) ==
    /\ printed' = printed \cup {o}
    /\ queue' = IF "collector" \in sinks /\ Len(queue) < QueueCap THEN Append(queue, o) ELSE queue
    /\ Export(o)

\* One round of readLoop.  link and switch are what the lookups answer.
Read(link, switch) ==
    /\ main = "read" /\ reader = "open" /\ ring # << >>
    /\ ring' = Tail(ring)
    /\ ifCache' = Cached(ifCache, Head(ring).ifindex, link)
    /\ lsCache' = IF Head(ring).vni = 0 THEN lsCache ELSE Cached(lsCache, Head(ring).vni, switch)
    /\ Emit(Enrich(Head(ring), ifCache', lsCache'))
    /\ UNCHANGED <<made, stopping, main, sinks, queueOpen, shipper, server, exported>>

\* A record that does not parse is counted and skipped.
ReadBad ==
    /\ main = "read" /\ reader = "open" /\ ring # << >>
    /\ ring' = Tail(ring)
    /\ UNCHANGED <<made, stopping, main, sinks, names, printed, channel, shipper, server, otlp>>

\* rd.Read returns ErrClosed and readLoop returns.  (After another error it goes round.)
ReadClosed ==
    /\ main = "read" /\ reader = "closed"
    /\ main' = "close"
    /\ UNCHANGED <<kernel, stopping, sinks, names, printed, channel, shipper, server, otlp>>

-----------------------------------------------------------------------------
(* shipLoop, the collector and the batch processor.                        *)

\* Fault: every POST gets a goroutine of its own.
Ship_Async ==
    /\ ship = "running" /\ current = {} /\ queue # << >>
    /\ queue' = Tail(queue)
    /\ posts' = posts \cup {Head(queue)} /\ tried' = tried \cup {Head(queue)}
    /\ UNCHANGED <<kernel, stopping, main, sinks, names, printed, queueOpen, ship, current,
                   late, stored, otlp>>

\* The next observation is taken from the queue and posted.
Ship ==
    /\ ship = "running" /\ current = {} /\ queue # << >>
    /\ queue' = Tail(queue)
    /\ current' = {Head(queue)}
    /\ posts' = posts \cup {Head(queue)} /\ tried' = tried \cup {Head(queue)}
    /\ UNCHANGED <<kernel, stopping, main, sinks, names, printed, queueOpen, ship, late,
                   stored, otlp>>

\* The collector's handler gets a POST, now or after the client gave up: add takes the
\* observation in, or drops it at the run's cap.  Or the POST never arrives.
Store(o) ==
    /\ o \in posts
    /\ posts' = posts \ {o}
    /\ stored' \in {stored, Append(stored, o)}
    /\ UNCHANGED <<kernel, stopping, main, sinks, names, printed, channel, shipper, otlp>>

\* Faults: a POST that failed is queued again; the loop is left, without wg.Done.
PostReturns_Retry ==
    /\ current # {}
    /\ current' = {}
    /\ late' = late \cup (current \cap posts)
    /\ queue' = IF current \subseteq posts /\ queueOpen /\ Len(queue) < QueueCap
                THEN Append(queue, CHOOSE o \in current : TRUE) ELSE queue
    /\ UNCHANGED <<kernel, stopping, main, sinks, names, printed, queueOpen, ship, tried,
                   server, otlp>>
PostReturns_Quit ==
    /\ current # {}
    /\ current' = IF current \subseteq posts THEN current ELSE {}
    /\ late' = late \cup (current \cap posts)
    /\ UNCHANGED <<kernel, stopping, main, sinks, names, printed, channel, ship, tried,
                   server, otlp>>

\* client.Post returns: with the answer, an error or its timeout.  Nothing is retried.
PostReturns ==
    /\ current # {}
    /\ current' = {}
    /\ late' = late \cup (current \cap posts)
    /\ UNCHANGED <<kernel, stopping, main, sinks, names, printed, channel, ship, tried,
                   server, otlp>>

\* The range over the queue ends when it is closed and empty.
ShipEnds ==
    /\ ship = "running" /\ current = {} /\ ~queueOpen /\ queue = << >>
    /\ ship' = "done"
    /\ UNCHANGED <<kernel, stopping, main, sinks, names, printed, channel, current, tried,
                   late, server, otlp>>

\* External: the batch processor exports a span.
ExportSpan ==
    /\ spans # << >> /\ main # "exited"
    /\ exported' = Append(exported, Head(spans))
    /\ spans' = Tail(spans)
    /\ UNCHANGED <<kernel, stopping, main, sinks, names, printed, channel, shipper, server>>

-----------------------------------------------------------------------------
(* emitter.close, one of run's defers.                                     *)

CloseQueue ==
    /\ main = "close"
    /\ queueOpen' = ("collector" \notin sinks)
    /\ main' = IF "collector" \in sinks THEN "wait" ELSE "flush"
    /\ UNCHANGED <<kernel, stopping, sinks, names, printed, queue, shipper, server, otlp>>

\* Fault: close does not wait for shipLoop.
Wait_Not ==
    /\ main = "wait"
    /\ main' = "flush"
    /\ UNCHANGED <<kernel, stopping, sinks, names, printed, channel, shipper, server, otlp>>

\* e.wg.Wait()
Wait ==
    /\ main = "wait" /\ ship = "done"
    /\ main' = "flush"
    /\ UNCHANGED <<kernel, stopping, sinks, names, printed, channel, shipper, server, otlp>>

\* otlp.shutdown returns, everything flushed or after 3 s; the remaining defers run and
\* the process ends.
Exit ==
    /\ main = "flush"
    /\ main' = "exited"
    /\ UNCHANGED <<kernel, stopping, sinks, names, printed, channel, shipper, server, otlp>>

-----------------------------------------------------------------------------
ReadLoop ==
    \/ ring # << >> /\ \E link \in {NoName, Head(ring).ifindex},
                          switch \in {NoName, Head(ring).vni} : Read(link, switch)
    \/ ReadBad
    \/ ReadClosed
ShipLoop == Ship \/ PostReturns \/ ShipEnds
Close == CloseQueue \/ Wait \/ Exit

Next ==
    \/ \E h \in Header : Capture(h)
    \/ Signal \/ CloseReader
    \/ ReadLoop \/ ShipLoop \/ Close
    \/ \E o \in posts : Store(o)
    \/ ExportSpan

Spec == Init /\ [][Next]_vars

\* The agent's goroutines are scheduled; a POST ends, at the latest after its timeout.
FairSpec ==
    Spec /\ WF_vars(CloseReader) /\ WF_vars(ReadLoop) /\ WF_vars(ShipLoop) /\ WF_vars(Close)

-----------------------------------------------------------------------------
(* Properties.                                                             *)

Named == [n : 1..MaxRecords, ifindex : Nat, vni : Nat, iface : Nat, switch : Nat]
Record == [n : 1..MaxRecords, ifindex : Nat, vni : Nat]

\* Every variable keeps its type, and the ring and both queues their capacity.
TypeOK ==
    /\ made \in 0..MaxRecords
    /\ ring \in Seq(Record) /\ Len(ring) <= RingCap
    /\ reader \in {"open", "closed"} /\ sig \in {"none", "pending", "taken"}
    /\ main \in {"read", "close", "wait", "flush", "exited"}
    /\ sinks \in Config
    /\ printed \subseteq Named
    /\ queue \in Seq(Named) /\ Len(queue) <= QueueCap /\ queueOpen \in BOOLEAN
    /\ ship \in {"running", "done"}
    /\ current \subseteq Named /\ posts \subseteq Named /\ tried \subseteq Named
    /\ stored \in Seq(Named) /\ exported \in Seq(Named)
    /\ spans \in Seq(Named) /\ Len(spans) <= SpanCap

ToCollector == INSTANCE Delivery WITH sent <- printed, delivered <- stored
ToBackend == INSTANCE Delivery WITH sent <- printed, delivered <- exported

\* emit and shipLoop never post again what they posted, even when the POST failed or timed
\* out: the collector stores an observation at most once, and only one that was printed.
StoresAtMostOnce == ToCollector!Spec

\* otlpSink.export: the backend gets an observation at most once.
ExportsAtMostOnce == ToBackend!Spec

\* emit sends on e.queue, which would panic once close(e.queue) has run: the queue is
\* closed only after readLoop has returned, whenever the signal comes.
QueueOpenWhileReading == main = "read" => queueOpen

\* emitter.close: once run gets past wg.Wait, shipLoop has posted whatever emit had put
\* into the queue, and no POST is under way.
CloseDrainsQueue ==
    main \in {"flush", "exited"} => queue = << >> /\ current = {} /\ ship = "done"

\* shipLoop posts one observation at a time: the collector receives an agent's
\* observations in the order they were made, except those whose POST the client gave up on.
InOrderUnlessLate ==
    \A i, j \in DOMAIN stored :
        i < j /\ stored[j] \notin late => stored[i].n < stored[j].n

\* After a signal the reader is closed, readLoop returns, the queue drains and the agent
\* exits, whatever the collector does.
StopsAfterSignal == sig = "pending" ~> main = "exited"

=============================================================================
