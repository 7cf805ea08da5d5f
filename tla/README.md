# A TLA+ model of traceflow

traceflow follows a marked probe through a virtualised network. This directory
models its decisions, its protocol and its bookkeeping in TLA+, checks small instances
with TLC and proves the central facts for every instance with TLAPS. All paths below
are relative to the repository.

## 1. The system

| part | state | operations | works with |
|---|---|---|---|
| client (`client/`) | one run | send a probe or lead a TCP dialog, wait for each answer with a deadline | the network; everything the host's sniffer sees |
| eBPF programs (`bpf/traceflow.c`) | `config_map`, `local_ips`, `iface_vni`, the ring buffer, counters | `traceflow_ingress`, `traceflow_egress`, `traceflow_xdp` | every packet of an interface; the responder, by assumption |
| responder (`agent/responder.go`) | packet socket, addresses, TCP flows | `Loop`, `handle`, `Close` | copies of the packets of an interface |
| start-up (`agent/main.go`, `attach.go`) | flags | load, fill the maps, attach, defer the clean-up | everything in the agent |
| tap watcher (`agent/watch.go`, `internal/ovs`) | table of attachments | scan, `reconcile`, `closeAll` | OVS, `local_ips`, responders |
| VXLAN watcher (`agent/vxlanwatch.go`) | table of attachments | netlink events, `closeAll` | `iface_vni` |
| emitter (`agent/emit.go`, `otlp.go`) | queue of 1024, caches | `readLoop`, `emit`, `shipLoop`, `close` | ring buffer, collector, OTLP backend |
| collector (`collector/main.go`) | runs by id, order of ids | `POST /`, `GET /path`, `GET /paths` | emitters |
| `internal/tfmeta`, `observation`, `pkt` | none (one cache) | encode, decode, enrich | client, agent |

What is hard about it:

* The kernel program **drops** a probe because the responder, another program in
  another language that sees a copy at another time, **will answer** it. Where the
  copy is taken relative to the drop depends on the hook and on the direction, and
  three parsers (C, responder, client) must read the same frame alike.
* `local_ips` is one map per host, read by the programs of all its interfaces,
  and filled tap by tap.
* Replies are marked too, and pass all the agents of the probe's path. The client's
  sniffer sees its own frames and those of other runs.
* Both watchers work from a picture of the devices that is old when they act on it; an
  attachment has several parts, made and unmade one by one, each of which may fail.
* An observation passes three goroutines, two bounded buffers and an HTTP client that
  gives up on requests the server may still carry out.

`PROJECT.json` lists the hazards line by line.

## 2. The modules

**`Frames`** is the pure part of interception: what `handle`/`traceflow_xdp` and what
the responder decide about one frame. A frame keeps the fields either side branches
on; a payload that is not a meta is `magic = FALSE`, one that fails the HMAC is
`signed = FALSE`. The client writes only 0 and 1 into the two flag bytes.

**`Intercept`** moves a probe and the replies to it through the hooks of each
interface. `XdpHook`, `SockTap` and `TcHook` are the three places a packet visits, in
the kernel's order: XDP, packet sockets, TC on the way in; TC, packet sockets on the
way out. That order and the forwarding itself are facts about Linux, marked external.
`Respond` is one turn of `Loop`. The operators `Attached`, `HasTC`, `HasXDP`,
`AnswersFor`, `LocalIps`, `DevEntry` compute, from the flags, what start-up and the
watchers set up. The variable `dep` holds flags and resolved addresses and does not
change: this module asks what a steady deployment does, the watchers' modules how it
gets there. A ring buffer that is full is a choice in `Handle` (`lost`).

**`Wire`** takes the frame apart that `Frames` abstracts. It follows one probe from the
command line (`Build...`, `--as-vm`, VLAN and VNI cut to their fields), through a network
that adds a provider's tag, a congestion mark or an IPv6 extension header, and a NIC
that may take the tag out of the bytes, to the kernel's parser, the responder's parser
and its reply, and the client's parser. The property `DecisionsAsInFrames` ties it to
`Frames`, which it instantiates.

**`Dialog`** is any number of client runs on a host against a responder, over a network
that delays, reorders, loses and repeats frames. The run's program counter is the
`recvMatch` call it is in; the responder's state is the flow table of `buildTCPReply`.
Frames that may be read now, later or never stay in a set, so delay, loss and
reordering need no actions of their own; repetition does (`dup` in `Handle`). `Reset`
is the host's TCP, which knows nothing of these connections. **`Exchange`** is what a
run promises its user, and `Dialog` implements it: the mapping is the history `ledger`.

**`Pipeline`** has the goroutines `readLoop`, the signal's and `shipLoop`, the ring, the
queue, both caches, the POST that may be in flight or late, and the spans of the OTLP
batch processor. **`Delivery`** is the abstract channel, which may lose what it is given
but neither invents nor repeats it; it is instantiated twice, for the collector and for
the backend.

**`Collector`** has one action, `Root`, the handler of `/`; each store method holds
the mutex throughout and is one step. `hist` and `born` are history variables. A run
missing from the map is the empty sequence, as a Go map lookup gives it.
**`Timestamps`** prints an instant the way `RFC3339Nano` does, trailing zeros removed,
because the collector compares the printed form.

**`TapWatch`** has the watcher and the main goroutine as processes with the mutex
between them, and the taps as environment. The parts of `attachLocked` and
`detachLocked` are steps: looking the interface up, attaching the programs, opening and
closing the socket, every `Put` and `Delete`. The calls inside `attachIface` are one step
here; `VxlanWatch`, which calls the same function, takes them one by one. A device has an
ifindex that is never reused; unplugging it takes its programs along, as the kernel does,
but not the socket. `delLocalIPs` and `delBPFFilter` go on when a removal fails: the
history `stranded` holds the addresses that a failing `addLocalIPs` or `delLocalIPs` left,
`stuck` the devices on which a filter stayed. `--respond` is on.

**`VxlanWatch`** has the same two processes, and devices whose ifindex *is* reused once
free. `Attach` gives the calls of `attachIface` as a plan, phases of alternatives of
calls, and every call of the plan is a step that may fail. So may taking a classic filter
off (`left`) and deleting an `iface_vni` entry (`stale`), which the code logs or ignores;
a TCX or XDP link goes with its descriptor, whatever `Close` returns. The event channel,
the start-up list and the links that were listed but not yet handled are separate, so a
device can go and another come at any point.

`InterceptProofs`, `InterceptFates`, `WireProofs`, `CollectorProofs`, `PipelineProofs`,
`VxlanWatchProofs`, `TapWatchProofs` and `DialogProofs` hold the theorems. The `MC`
modules give the constants values. Operators whose names have an underscore
(`DoDrop_NeverTcp`) are faulty variants of the definition that follows them; they are not
part of the model and show that a property notices the fault.

## 3. The runs

Passing:

| run | question | bound, and why it is enough |
|---|---|---|
| `intercept` | drop, answer, single reply, quiet replies, true records, VNIs; answer and delivery happen | a sender - router - destination network with all 32 flag combinations, and a hypervisor with two VMs, a remote host and eight deployments, among them `--watch`, XDP, XDP with TC egress, `--hmac-key`, and mixtures; local, inbound and outbound traffic, plain and over fixed-VNI netdevs of two tenants and a `collect_metadata` one; one probe of every protocol, segment kind and flag byte: agents share no state but the packet, so more probes add nothing |
| `wire` | the three parsers and the reply's headers | every kind of command line against eight responders; fields have their real widths (12-bit VLAN id, 24-bit VNI); one extension header, one added tag |
| `dialog` | two runs against one responder over an unreliable network | six pairs of commands, with one 4-tuple or two; numbers modulo 16 that start at 13 and 14, so they wrap; a flow table cleared at the second SYN; two faults |
| `pipeline` | from the ring to collector and backend, and shutdown | three records, a ring of one, a queue of two, two spans, so that each overflows; no sink, the collector, or the backend; a VNI and none |
| `collector` | the store and the order of a path, agents in an offset zone | three ids for two places, two observations kept per run, six posts: an id is evicted, comes back and is evicted again; instants whose fractions have zero, one and two digits |
| `tapwatch` | table, responders and `local_ips` under churn, failures, a full map and shutdown; the table settles | two taps, one of which may be readdressed, four changes, one failure, and room in the map for one and a half taps: enough to unplug during an attach, to re-create a tap, to fail halfway through `addLocalIPs`, and to leave an address or a filter behind; that a second failure adds no case is what the proofs show |
| `vxlanwatch` | table, programs and `iface_vni` follow the devices; the watcher returns clean | two ifindexes and two VNIs, two changes and one failure on each of five kinds of host (TC with TCX, without it, and with clsact forced; XDP, and XDP with TC egress): a device goes and its index is reused at any point of an attachment |

What they check:

* `intercept`. Where the agents are static and no overlay is involved, a dropped probe is
  answered (`StaticDropIsAnswered`), by one agent and not by the VM as well
  (`NoDoubleReply`), and a probe that a responder would answer leads to a reply at the
  sender (`AnswerReachesSender`). Everywhere, a drop at TC ingress of an interface whose
  responder covers the packet is answered there (`CoveredDropIsAnswered`), no agent drops
  or answers a reply (`RepliesAreQuiet`), a `--deliver` probe arrives (`DeliverReachesEnd`),
  and a record reads INTERCEPTED exactly where the packet ended, with no hop recorded
  twice (`ObservationsMatchFate`). On a tenant's journey the records typed VXLAN, of the
  probe and of its replies, carry the tenant's VNI (`VniConsistent`).
* `wire`. The client accepts the reply to whatever it asked for (`ReplyRecognised`), the
  reply leaves in the probe's VLAN (`VlanPreserved`), what the program intercepts the
  responder answers (`InterceptedIsAnswered`), and both decide as `Frames` says
  (`DecisionsAsInFrames`), on which `intercept` rests.
* `dialog`. Segments sent to a run never overlap while its flow entry lives
  (`SequenceIntact`); a reply acknowledges up to the segment that comes next
  (`AcksWhatComesNext`); a run accepts only a responder's answer to what it asked last
  (`ImplementsExchange`); every run ends (`RunEnds`).
* `pipeline`. `emit` never sends on a closed channel (`QueueOpenWhileReading`), `close`
  returns after the queue is empty (`CloseDrainsQueue`), the collector receives in order
  except what the client gave up on (`InOrderUnlessLate`) and nothing twice
  (`StoresAtMostOnce`, an instance of `Delivery`), and a signal ends the agent
  (`StopsAfterSignal`).
* `collector`. `order` lists the stored ids, each once (`OrderMatchesRuns`), within the
  caps (`Bounded`). A run holds what was posted since it
  began, in that order (`RunsReflectPosts`), and a path is sorted by hop and time
  (`PathInTimeOrder`).
* `tapwatch`. Between two scans, `local_ips` holds the addresses of the table and the
  static ones, no fewer (`AttachedRegistered`) and no more (`RegisteredAttached`), and
  sockets and programs belong to the table (`NoOrphans`). Also during an attach, an
  address in the map has an open responder (`RegisteredIsServed`). The table settles on
  the plugged names (`Converges`). What a failed removal left is excepted by name.
* `vxlanwatch`. No program and no VNI is left behind (`NothingLeaks`, `VniKept`) but one
  whose own removal failed, and a device that gets its ifindex has its own VNI; whatever
  fallbacks it took, an attachment covers the directions asked for, once
  (`CoversDirections`). Once the updates about an ifindex are handled its device is
  attached with its own VNI, or a call failed (`FollowsDevices`). A watcher that returned
  has detached everything (`ReturnsClean`), and it does return (`StopsWatching`).

Deadlock is not checked where the modelled activity ends by itself (a probe arrives,
a run or a process ends, a bound on changes is spent).

Fairness is weak throughout, and given only to steps the code takes by itself.
`intercept`: packets keep moving and the responder's goroutine runs; the network loses
nothing there, and `Loop` blocks only in `recvmsg`. `dialog`: the deadline of each wait
passes (`Timeout`); nothing is assumed of the network. `pipeline`: the goroutine that
closes the reader, `readLoop`, `shipLoop` (the HTTP client has a timeout) and `close`.
`tapwatch` and `vxlanwatch`: the watcher's steps together; the ticker ticks, and nothing
the watcher calls blocks for ever. Failures, environment and shutdown have none.

Disagreements. These runs check a sentence of the documentation, or of a comment,
against the code, and TLC finds it violated; `PROJECT.json` quotes the sentence.

| run | property | what happens |
|---|---|---|
| `tap` | `DroppedIsAnswered` | a probe is dropped at egress of the tap, before its responder's socket |
| `local` | `TransitNeverDrops` | a probe from VM to VM on one hypervisor is dropped at the sender's tap, as `local_ips` is the host's, and nobody answers it |
| `collector_utc` | `PathInTimeOrder` | in UTC, `5.1Z` sorts after `5.12Z` |
| `tap_move` | `AttachedRegistered` | detaching the old tap unregisters the address now on the new one |
| `wire_auto` | `AutoPicksAlike` | plain UDP to port 4789 is regular to the program and VXLAN to the responder |

Two more sentences disagree with the code, each in a way one line of it shows.
`README.en.md:386` says old runs are "LRU-evicted": posting to a run again does not move
it in `order` (`collector/main.go:42`), so eviction is first in, first out, as `EvictionOrder`
proves. `README.en.md:682` and the comment at `traceflow.c:577` say that `traceflow_xdp` returns
`XDP_PASS`: it does for what it observes, but a probe for which `do_drop` holds gets
`XDP_DROP`, as in `Frames`.

### Conditions

The passing runs stay clear of these cases, or their properties exclude them.

Interception:

* `StaticDropIsAnswered` is about signed probes when the agents have a key (`do_drop` does
  not look at the HMAC, so an unsigned probe is dropped and `authOK` then refuses to
  answer it), not to UDP port 4789, with XDP off (a drop there precedes the packet
  sockets). The run has the other cases too.
* `NoDoubleReply` excludes overlays: an encapsulated probe is answered at the uplink and by
  the VM too (`responder.go:229`, `traceflow.c:530`).
* `VniConsistent` excludes XDP on a `collect_metadata` netdev, where no source tells the VNI.

Headers and dialog:

* `ReplyRecognised` excludes `udp --sport 4789`, whose reply the client parses as VXLAN,
  and a `--vni` of 2^24 and more, which comes back cut to 24 bits.
* `VlanPreserved` is about one tag: a QinQ frame's reply keeps one of its two ids.
* `InterceptedIsAnswered` excludes IPv6 extension headers, which the program walks and
  the responder does not.
* With `--sport` equal to `--dport` a run takes its own frame for the answer, so the
  ports of `dialog` differ.
* `SequenceIntact` holds while the flow entry lives. A FIN, a RST or a full table removes
  it, and data that comes later is answered from a number the SYN/ACK's payload has
  used (`responder.go:403`).

Watchers, pipeline and collector:

* `tapwatch`: an address has one owner. When `addLocalIPs` fails halfway, nothing removes
  what it has put (`watch.go:82`), nor what a failing `delLocalIPs` left (`agent/main.go:346`);
  `stranded` keeps these apart.
* `RegisteredIsServed` excludes the moment of a detach: `detachLocked` closes the
  responder before it deletes the addresses. No property demands that an address OVN
  assigns after the attach is registered, or that a tap re-created under its name between
  two scans is attached again: `reconcile` looks at names only (`watch.go:48`).
* A scan under way at shutdown attaches after `closeAll` (`main.go:220`): the properties
  of `tapwatch` hold then too, but programs attached with clsact outlive the process.
* `collector`: the cap is positive. At 0 the eviction loop removes the id just appended
  and the observation is stored under an id nothing will evict.

## 4. The proofs

TLAPS proves these for every value of the constants that satisfies the module's
assumption (`VniAssumption`, `InterceptAssumption`, `WireAssumption`,
`CollectorAssumption`, `PipelineAssumption`, `VxlanWatchAssumption`,
`TapWatchAssumption`, `DialogAssumption`: constants have their types, journeys are not
empty, the static addresses fit the map). None bounds the number of runs, devices, taps,
records, changes or failures.

Every safety property of the passing runs has its theorem. Some hold only of a kind of
deployment; the condition is then a named operator. Those of `Intercept` are antecedents
inside the property, so that one run has deployments of both kinds. The others are
hypotheses of the theorem, and an `ASSUME` of the `MC` module makes TLC evaluate them on
the run that checks the property (`Cap > 0` is read off `MCCollector.cfg`):

| condition | says | needed by |
|---|---|---|
| `StaticAgents` | agents have `--iface` and `--local-ip`, no watcher, no XDP | `StaticDropsAnswered`, `StaticNoDoubleReply` |
| `PlainJourney` | no overlay, and the probe leaves no node that answers for its destination | the same |
| `AcceptedProbe` | the client has the agents' key and avoids UDP port 4789 | `StaticDropsAnswered` |
| `AddressesAtHome` | an agent has only addresses of its own node, from flag or OVN | `DropsAtDestination` |
| `TenantJourney` | every hop of this probe tells one VNI, on the wire, in the tunnel key or on the netdev; no XDP where only the key tells | `TenantVniConsistent` |
| `Cap > 0` | the collector keeps at least one run | `CollectorProofs` |
| `StampsInOrder` | timestamps compare as the instants do | `PathSorted` |
| `Exclusive` | an address belongs to one tap name | `UnmovedStayRegistered`, `ServiceUninterrupted` |
| `PortsDiffer` | `--sport` is not `--dport` | `DialogImplementsExchange`, `ReportsAreReal` |
| `NoWrap` | the lengths of the segments that all dialogs and the duplicates can cause on one flow fit the width (2^32 in the code) | `SegmentsApart` |

The runs `tap`, `collector_utc` and `tap_move` violate `StaticAgents`, `StampsInOrder` and
`Exclusive`, and the property with them. For the five violations theorems say how far they
reach: `DropsAnsweredWhereCovered` for `tap`, `DropsAtDestination` for `local`, `UtcStampsOrder` for `collector_utc`,
`UnmovedStayRegistered` for `tap_move` and `AutoDiffersByPort` for `wire_auto`.

**`InterceptProofs`**

* `TypeCorrect`: `TypeOK` is inductive. One lemma per hook says how the packet it
  touches moves (`HandleMoves`, `XdpHookOutcome`, ...), so that the invariance proofs
  never open the hooks again.
* `SafeInvariant`: the inductive invariant `SafeInv`. Four facts are added to the type.
  Every reply has both flags clear (`QuietFlags`); a dropped packet satisfied `DoDrop`
  at the hop it is at (`DropKnown`); an answered copy passed the gate
  (`AnsweredGated`); and a packet that is past the socket of a hop with a responder is
  still in that socket, was answered from it, or was one the responder ignores
  (`CopiesKept`). None of the properties is inductive without them: a state in which
  a reply has `need` set, or a copy was lost, satisfies each property and steps out of it.
* `RepliesStayQuiet`, `DeliverIsHonoured`, `CoveredDropsAnswered` follow. The last is
  the contract between kernel and responder: `DoDrop` and `Covered` together imply
  `Replies`, and on ingress the copy is taken first.

**`InterceptFates`**

* `FateInvariant`: `FateInv` says what each hook a packet has passed must have done.
  Every record was made by the program at its hop, with the verdict the program reached
  there; a packet past a hop's program was judged by it (`HooksJudge`), and recorded if
  it matched. Records and packets are tied in both directions, which `RecordsMatchFate`
  alone does not do: a packet that moves on could have a record that says it ended.
* With `SafeInv`, `FateInv` gives `StaticDropsAnswered` and `StaticNoDoubleReply`. In a static
  deployment what a responder answers the program beside it drops (`StaticAnswerDrops`);
  that packet is on no later hop, so it is answered once and the VM never has it.
* `DropsAtDestination`: under `AddressesAtHome` a drop is on the node where the destination
  lives (`DropsAtHome`). A transit hop therefore never drops; a source hop does if sender
  and destination share the node, which is run `local`.
* `DropsAnsweredWhereCovered`: the converse of `CoveredDropsAnswered`, so that `Covered` is
  exactly when the interface that drops a probe answers it. `CopiesBehind` is the invariant:
  a socket has a copy of a packet only if the packet has passed the sockets of that hop, and
  TC ingress is the only program behind them. What XDP or TC egress drops is therefore
  answered by no responder of that interface, at most by one the probe passed earlier.
* `TenantVniConsistent`: a reply travels hops of its probe (`ReplyRoute`), so every hop is
  the tenant's, and each of the three sources of a VNI gives the tenant's (`TenantVni`).
  The invariant (`TaggedInv`) says this of every record, whichever tenant the probe is of.

**`WireProofs`**

* `WireInvariant`: `WireInductive` follows the probe by program counter. What arrives is
  what the client built, with any tags, a congestion mark and extension headers
  (`AsSent`), and what `reply` holds is `Handle` of it. So the properties become
  statements about pure operators, one lemma per parser and builder: what a builder
  writes (`Emitted`), how the frame reads to program and responder, what the responder
  builds from it (`HandlePlain`, `HandleTunnel`), and how that reads to the client.
* `RepliesRecognised`, `RepliesKeepVlan`, `FramesIsFaithful`, `InterceptedAnswered`: the
  run's four properties for all addresses, ports, VLAN ids, VNIs, keys and agents. The
  third justifies reading `Intercept`'s theorems as statements about frames.
* `AutoDiffersByPort`: in mode AUTO the two parsers pick the same reading of a frame, except
  of a plain UDP probe to the VXLAN port without extension headers, where they never do.

**`CollectorProofs`**, for `Cap > 0`

* `StoreInvariant`: `order` is injective, lists exactly the stored ids, is no longer
  than `Cap`, and is sorted by `born`, which never exceeds the length of `hist`.
* `OrderMatches`, `MemoryBounded`, `EvictionOrder` follow; the last also gives the
  action property `EvictsOnlyToMakeRoom`. The key lemma, `QueueProperties`, is that the
  eviction loop takes at most one id, since the queue was within the cap before.
* `RunsHoldTheirPosts`: `ReflectInv` adds that a stored run began with a post
  (`BornWithPost`), so that one that was evicted and came back is counted from its return.
  The posts of an id are a set of positions in `hist`, and the n-th of them is found by
  counting, so no recursion over `hist` is needed.
* `PathSorted`: the sort is defined by where each element goes, its rank. The rank is a
  bijection, by the theorems on finite sets, and puts smaller keys first, so nothing is
  lost, repeated or out of order. `OffsetPathSorted` discharges `StampsInOrder` for zones
  with an offset, for the model's fractions of two digits: the sign that ends the fraction
  is smaller than any digit, so a shorter fraction sorts first. In UTC the fraction ends in `Z`, which is larger.
  `StampsDiffer` finds the character that decides, for both zones; `UtcStampsOrder` says
  which pairs of instants UTC timestamps put in the wrong order (`Cut`), and
  `UtcPathSorted` that paths are in time order on UTC hosts without such a pair.

**`PipelineProofs`**

* `FlowInv`: the record numbers increase along the ring, then along the queue, and those
  in the ring are larger than those in the queue, which are larger than all that was
  posted. `StoresInOrder` and both refinements of `Delivery` (`CollectorStoresOnce`,
  `BackendGetsOnce`) rest on it: a record is posted once because its number is spent.
  So does `BackendInOrder`: the batch processor may lose spans but never swaps two.
* `CollectorHasEachOnce`: what `Delivery` means. From its steps alone, nothing is delivered
  twice and nothing that was not sent (`DeliveryMeans`); the refinement carries that over.
* `CloseInv`: the order of shutdown. The queue is closed only after `readLoop` returned,
  and `shipLoop` ends only on a closed, empty queue. `NoSendOnClosed`, `CloseDrains`.

**`VxlanWatchProofs`**

* `SafeInv`: the types, what the watcher holds at each program counter (`Shape`), and
  `NothingLeaks` with `VniKept`. `NoProgramLeaks`, `VniEntriesKept`,
  `WatcherReturnsClean`.
* `FollowInv`, for `DevicesAreFollowed`. With ifindexes reused, the table alone says
  nothing about the devices. The invariant says what the queue says (`QueueTells`): the
  updates about an ifindex after its last RTM_DELLINK describe the device that has it
  now. From it, an index is either still to be told about, or attended to (`Attended`),
  or absent with nothing left (`Absent`). That is why it matters that the agent
  subscribes before it lists.
* `AttachmentsCover`: `Staged` says how far through the plan of `attachIface` the watcher
  is and which programs that means, fallbacks included: for each kind of host a list of
  the stages between two calls (`TcStage`, `XdpStage`, `EgressStage`, `MixedStage`). A
  call that succeeds or fails leads to another stage, and the stages at which
  `attachIface` returns success have one program per direction.

**`TapWatchProofs`**

* `SafeInv` is stated by stage: who holds the mutex, and how far the attach or detach in
  progress has come, determines by how much table, sockets, programs and addresses
  may differ (`Control`, `Distinct`, `Table`, `Sockets`, `Programs`, `Addresses`). From
  it follow `AddressesAccounted`, `NothingOrphaned` and `RegisteredAreServed`.
* `UnmovedStayRegistered`: `AttachedRegistered` under `Exclusive`, addresses that belong to
  one tap name; run `tap_move` shows that it is needed. `KeptInv` adds that everybody
  deletes only addresses of the tap at hand.
* `ServiceUninterrupted`, under the same condition: the programs read `local_ips` without the
  mutex, so it is not enough that the map is right between two reconciles. At every step
  an attachment that is not itself being detached has its addresses and its responders.

**`DialogProofs`**

* `SafeInv`: each run's ledger agrees with its program counter (`Stand`), each frame of a
  run on the network is one its ledger says it sent, and each of a responder one it
  answered, with the numbers that follow from it (`Traffic`). `PlusPlus` is the modular
  arithmetic, so that `RepliesAckNext` holds for every modulus.
* `DialogImplementsExchange`, under `PortsDiffer`: `MatchIsAnswer` shows that what passes
  a wait's filter is a responder's answer to that run and stage; `StepRefines` maps
  every step to a step of `Exchange` or to none. `ReportsAreReal` draws the conclusion:
  `ExchangeMeans` shows from `Exchange` alone that accepted answers were given, given ones
  were asked for, and data and FIN follow the SYN/ACK.
* `SegmentsApart`: `SequenceIntact` under `NoWrap`. `SequenceIntact` looks at pairs of
  segments and says nothing of the flow's next number, so it is not inductive. `NumberInv`
  adds that, while the entry of a run's flow lives, its number is past the end of every
  segment sent to the run (`Tracked`), and by no more than `Spent`, which counts the runs
  whose data was handled and the faults so far. `HandleSpends` shows that each answered
  segment is paid for by one of the two, `Budget` that the sum stays within the width, and
  `PastApart` that a segment numbered from there overlaps none before it. The hypothesis
  is needed: numbers that come all the way round are used twice.

Model-checked only: liveness, which is beyond this prover (`AnswerReachesSender`,
`DeliverReachesEnd`, `Converges`, `RunEnds`, `StopsAfterSignal`, `StopsWatching`).

## 5. Not modelled

* The responder's file descriptor after `Close`: whether its number is reused while a
  `Loop` is in `recvmsg` is a matter of the kernel's descriptor table, not of this code.
* Byte offsets, lengths and checksums (among them a UDP checksum that comes out as 0),
  frames too short for a header, JSON, and the textual form of fields: formatting, which
  the unit tests cover. The record's latency is arithmetic on one field.
* Metrics: counters and an endpoint that only read state.
* The OTLP SDK and the kernel beyond the order of hooks, the life of devices and the map
  capacity: external, modelled from how the code uses them.
* Flag parsing, and errors of the steps of `run` before `readLoop`, which end the process.
* A static interface that is also a watched tap: the two attachments would share one
  clsact handle, and which one survives depends on the kernel's replacement rules.
* One model of a whole host, with the watchers driving `local_ips` under the hooks:
  `Intercept` takes what the watchers establish as given (`AnswersFor`, `LocalIps`), and
  `TapWatch` and `VxlanWatch` show how far it is established; their product is out of
  TLC's reach.
