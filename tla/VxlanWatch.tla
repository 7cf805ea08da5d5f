----------------------------- MODULE VxlanWatch -----------------------------
(***************************************************************************)
(* The agent's VXLAN watcher (agent/vxlanwatch.go): a goroutine that       *)
(* subscribes to netlink link events, attaches to the VXLAN devices that   *)
(* exist, then follows the events, while devices come and go, and while    *)
(* the main goroutine may shut the agent down.                             *)
(*                                                                         *)
(* Devices are known by their ifindex, which can be used again once free.  *)
(* The kernel drops a dead device's programs but not its iface_vni entry,  *)
(* which is the agent's.  Every system call of an attachment is a step of  *)
(* its own: the devices do not wait for the manager's mutex.               *)
(***************************************************************************)
EXTENDS Integers, Sequences, FiniteSets, Functions, Attach

CONSTANTS
    Index,      \* ifindexes
    Vni,        \* VNIs
    Host,       \* the hosts to consider, see Attach
    Stops,      \* whether the agent may be told to stop
    MaxChurn,   \* bound: how often a device is made, changed or removed
    MaxFaults   \* bound: how often a call fails or the event channel is closed

ASSUME VxlanWatchAssumption ==
    /\ Host \subseteq Hosts
    /\ Stops \in BOOLEAN /\ MaxChurn \in Nat /\ MaxFaults \in Nat

VARIABLES
    host,       \* this agent's host
    links,      \* the VXLAN devices: ifindex -> VNI
    hooks,      \* kernel: the programs on them, pairs of ifindex and hook
    vnis,       \* kernel: the iface_vni map
    events,     \* link updates the watcher has not received
    sub,        \* the subscription: "none", "open" or "closed"
    attached,   \* vxlanManager.attached: ifindex -> the hooks its detach removes
    lock,       \* who holds vxlanManager.mu
    w,          \* the watcher: where it is, the links it has listed, and in attach
                \* the device, the calls to make and the hooks made
    main,       \* the main goroutine: "running", "stopping" or "exited"
    churn, faults,
    failed,     \* history: ifindexes whose last attachment failed, in whole or part
    left,       \* history: programs still there because removing them failed
    stale       \* history: ifindexes whose iface_vni entry is, for the same reason

vars == <<host, links, hooks, vnis, events, sub, attached, lock, w, main, churn, faults,
          failed, left, stale>>
env == <<host, links, events, sub, churn>>

Live == DOMAIN links
Link == [idx : Index, vni : Vni]
Without(f, k) == Restrict(f, DOMAIN f \ {k})
Put(f, k, v) == [x \in DOMAIN f \cup {k} |-> IF x = k THEN v ELSE f[x]]
At(s) == w.pc = s /\ main # "exited"
Goto(s) == w' = [w EXCEPT !.pc = s]
Failing(yes) ==
    /\ yes => faults < MaxFaults
    /\ faults' = faults + (IF yes THEN 1 ELSE 0)

Init ==
    /\ host \in Host
    /\ links \in UNION {[D -> Vni] : D \in SUBSET Index}
    /\ hooks = {} /\ vnis = << >> /\ events = << >> /\ sub = "none"
    /\ attached = << >> /\ lock = "none" /\ main = "running"
    /\ w = [pc |-> "subscribe", listed |-> {}, link |-> {}, plan |-> << >>, made |-> {}]
    /\ churn = 0 /\ faults = 0 /\ failed = {}
    /\ left = {} /\ stale = {}

-----------------------------------------------------------------------------
(* The devices, made by OVN or another controller.                         *)

Notify(type, link) ==
    events' = IF sub = "open" THEN Append(events, [type |-> type, link |-> link]) ELSE events

\* RTM_NEWLINK, of a device that is new or has changed (its VNI cannot).
NewLink(l) ==
    /\ churn < MaxChurn /\ churn' = churn + 1
    /\ l.idx \in Live => links[l.idx] = l.vni
    /\ links' = Put(links, l.idx, l.vni)
    /\ Notify("new", l)
    /\ UNCHANGED <<host, hooks, vnis, sub, attached, lock, w, main, faults, failed, left, stale>>

\* RTM_DELLINK: the kernel drops the programs with the device.
DelLink(i) ==
    /\ churn < MaxChurn /\ churn' = churn + 1
    /\ i \in Live
    /\ links' = Without(links, i)
    /\ hooks' = {h \in hooks : h[1] # i}
    /\ left' = {h \in left : h[1] # i}
    /\ Notify("del", [idx |-> i, vni |-> links[i]])
    /\ UNCHANGED <<host, vnis, sub, attached, lock, w, main, faults, failed, stale>>

\* External: the netlink socket overflows, and its goroutine closes the channel.
Overrun ==
    /\ sub = "open" /\ Failing(TRUE)
    /\ sub' = "closed"
    /\ UNCHANGED <<host, links, hooks, vnis, events, churn, attached, lock, w, main, failed,
                   left, stale>>

-----------------------------------------------------------------------------
(* vxlanManager.                                                           *)

\* attach takes the mutex; a device that is in the table is left alone.
AttachStart(l) ==
    /\ lock = "none"
    /\ IF l.idx \in DOMAIN attached THEN UNCHANGED <<lock, failed>>
       ELSE lock' = "watcher" /\ failed' = failed \ {l.idx}

\* Where the watcher is after attach(l) has looked at the table, with rest left to list.
InAttach(l, rest, next) ==
    IF l.idx \in DOMAIN attached THEN [w EXCEPT !.pc = next, !.listed = rest]
    ELSE [w EXCEPT !.pc = "attach", !.listed = rest,
                   !.link = {l}, !.plan = Plan(host), !.made = {}]

On(i, made) == {<<i, h>> : h \in made}
Done(next) == [w EXCEPT !.pc = next, !.link = {}, !.plan = << >>, !.made = {}]
Return == IF w.listed = {} THEN "loop" ELSE "list"

\* delBPFFilter only logs that FilterDel failed: the programs among these that may stay.
\* A link is detached by closing it, whatever close returns.
Fallible(programs) == {h \in programs \cap hooks : h[2][1] = "clsact"}

\* One system call of attachIface, and what attachIface removes when it fails.
Call(l, result) ==
    LET call == NextCall(w.plan)
        made == On(l.idx, Hook(call))
        undone == On(l.idx, Undone(w.plan, result, w.made))
    IN  /\ At("attach") /\ w.plan # << >> /\ l \in w.link
        /\ result \in Results(host, l.idx \in Live, call)
        /\ Failing(result # "ok" /\ Results(host, l.idx \in Live, call) # {result})
        /\ IF result = "ok"
           THEN /\ hooks' = hooks \cup made
                /\ left' = left \ made
                /\ w' = [w EXCEPT !.plan = Advance(@), !.made = @ \cup Hook(call)]
                /\ UNCHANGED <<lock, failed>>
           ELSE /\ \E lost \in SUBSET Fallible(undone) :
                      hooks' = hooks \ (undone \ lost) /\ left' = (left \ undone) \cup lost
                /\ IF FallsBack(w.plan, result)
                   THEN /\ w' = [w EXCEPT !.plan = FallBack(@),
                                          !.made = @ \ Undone(w.plan, result, @)]
                        /\ UNCHANGED <<lock, failed>>
                   ELSE /\ w' = Done(Return)
                        /\ lock' = "none" /\ failed' = failed \cup {l.idx}
        /\ UNCHANGED <<env, vnis, attached, main, stale>>

\* The rest of attach: the VNI is registered, or that fails and is only logged; the
\* device enters the table.
Register(l, ok) ==
    /\ At("attach") /\ w.plan = << >> /\ l \in w.link /\ Failing(~ok)
    /\ vnis' = IF ok THEN Put(vnis, l.idx, l.vni) ELSE vnis
    /\ stale' = IF ok THEN stale \ {l.idx} ELSE stale
    /\ attached' = Put(attached, l.idx, w.made)
    /\ failed' = IF ok THEN failed ELSE failed \cup {l.idx}
    /\ lock' = "none" /\ w' = Done(Return)
    /\ UNCHANGED <<env, hooks, main, left>>

\* The programs of the devices in S, as the table has them.
Programs(S) == UNION {On(i, attached[i]) : i \in S \cap DOMAIN attached}

\* Faults: the VNI entry stays; the table entry stays.
Detach_KeepVni(S) ==
    /\ hooks' = hooks \ Programs(S)
    /\ attached' = Restrict(attached, DOMAIN attached \ S)
    /\ UNCHANGED <<vnis, faults, left, stale>>
Detach_KeepEntry(S) ==
    /\ hooks' = hooks \ Programs(S)
    /\ vnis' = Restrict(vnis, DOMAIN vnis \ S)
    /\ UNCHANGED <<attached, faults, left, stale>>

\* detachIdx, closeAll: programs, VNI entry and table entry of the devices in S.  The
\* table entry goes even if a FilterDel or an IfaceVni.Delete fails.
Detach(S) ==
    LET known == S \cap DOMAIN attached
    IN  \E lost \in SUBSET Fallible(Programs(S)), kept \in SUBSET (known \cap DOMAIN vnis) :
            /\ Failing(lost # {} \/ kept # {})
            /\ hooks' = hooks \ (Programs(S) \ lost)
            /\ vnis' = Restrict(vnis, DOMAIN vnis \ (known \ kept))
            /\ attached' = Restrict(attached, DOMAIN attached \ S)
            /\ left' = (left \ Programs(S)) \cup lost
            /\ stale' = (stale \ known) \cup kept

-----------------------------------------------------------------------------
(* runVXLANWatcher.                                                        *)

\* LinkSubscribe; the watcher gives up when it fails.
Subscribe(ok) ==
    /\ At("subscribe") /\ Failing(~ok)
    /\ sub' = IF ok THEN "open" ELSE sub
    /\ Goto(IF ok THEN "enumerate" ELSE "returned")
    /\ UNCHANGED <<host, links, hooks, vnis, events, churn, attached, lock, main, failed,
                   left, stale>>

\* LinkList: the devices of this moment, or none when it fails.
Enumerate(ok) ==
    /\ At("enumerate") /\ Failing(~ok)
    /\ LET found == IF ok THEN {[idx |-> i, vni |-> links[i]] : i \in Live} ELSE {}
       IN  w' = [w EXCEPT !.pc = IF found = {} THEN "loop" ELSE "list", !.listed = found]
    /\ failed' = IF ok THEN failed ELSE failed \cup Live
    /\ UNCHANGED <<env, hooks, vnis, attached, lock, main, left, stale>>

ListNext(l) ==
    /\ At("list") /\ l \in w.listed
    /\ AttachStart(l)
    /\ w' = InAttach(l, w.listed \ {l}, IF w.listed = {l} THEN "loop" ELSE "list")
    /\ UNCHANGED <<env, hooks, vnis, attached, main, faults, left, stale>>

\* A link update: RTM_DELLINK detaches, anything else attaches.
ReceiveNew ==
    /\ At("loop") /\ events # << >> /\ Head(events).type = "new"
    /\ events' = Tail(events)
    /\ AttachStart(Head(events).link)
    /\ w' = InAttach(Head(events).link, {}, "loop")
    /\ UNCHANGED <<host, links, sub, churn, hooks, vnis, attached, main, faults, left, stale>>

ReceiveDel ==
    /\ At("loop") /\ events # << >> /\ Head(events).type = "del" /\ lock = "none"
    /\ events' = Tail(events)
    /\ Detach({Head(events).link.idx})
    /\ UNCHANGED <<host, links, sub, churn, lock, w, main, failed>>

\* Faults: the watcher returns without closeAll; stop is not among its cases.
Finish_Plain ==
    /\ At("loop") /\ lock = "none"
    /\ main # "running" \/ (sub = "closed" /\ events = << >>)
    /\ sub' = "closed" /\ events' = << >>
    /\ Goto("returned")
    /\ UNCHANGED <<host, links, hooks, vnis, attached, churn, lock, main, faults, failed,
                   left, stale>>
Finish_NoStop ==
    /\ At("loop") /\ lock = "none"
    /\ sub = "closed" /\ events = << >>
    /\ Detach(DOMAIN attached)
    /\ Goto("returned")
    /\ UNCHANGED <<host, links, events, sub, churn, lock, main, failed>>

\* stop, or a closed channel: everything is detached and the watcher returns.  When an
\* update is also waiting, select may take that instead of stop.
Finish ==
    /\ At("loop") /\ lock = "none"
    /\ main # "running" \/ (sub = "closed" /\ events = << >>)
    /\ Detach(DOMAIN attached)
    /\ sub' = "closed" /\ events' = << >>
    /\ Goto("returned")
    /\ UNCHANGED <<host, links, churn, lock, main, failed>>

-----------------------------------------------------------------------------
(* The main goroutine: run's defers.                                       *)

\* close(stop)
CloseStop ==
    /\ Stops /\ main = "running" /\ main' = "stopping"
    /\ UNCHANGED <<env, hooks, vnis, attached, lock, w, faults, failed, left, stale>>

\* vm.closeAll(); before the agent exits the watcher may get another turn.
CloseAll ==
    /\ main = "stopping" /\ lock = "none"
    /\ main' = "closed"
    /\ Detach(DOMAIN attached)
    /\ UNCHANGED <<env, lock, w, failed>>

\* The process ends: its links and maps go with it, classic filters do not.
Exit ==
    /\ main = "closed" /\ main' = "exited"
    /\ hooks' = {h \in hooks : h[2][1] = "clsact"} /\ vnis' = << >>
    /\ UNCHANGED <<env, attached, lock, w, faults, failed, left, stale>>

-----------------------------------------------------------------------------
Devices ==
    \/ \E l \in Link : NewLink(l)
    \/ \E i \in Index : DelLink(i)

Watcher ==
    \/ \E ok \in BOOLEAN : Subscribe(ok) \/ Enumerate(ok)
    \/ \E l \in w.listed : ListNext(l)
    \/ \E l \in w.link :
        \/ \E result \in {"ok", "failed", "unsupported"} : Call(l, result)
        \/ \E ok \in BOOLEAN : Register(l, ok)
    \/ ReceiveNew \/ ReceiveDel \/ Finish

Next == Devices \/ Overrun \/ Watcher \/ CloseStop \/ CloseAll \/ Exit

Spec == Init /\ [][Next]_vars

\* The watcher is scheduled.
FairSpec == Spec /\ WF_vars(Watcher)

-----------------------------------------------------------------------------
(* Properties.                                                             *)

\* Every variable keeps its type.
TypeOK ==
    /\ host \in Host /\ Live \subseteq Index /\ links \in [Live -> Vni]
    /\ DOMAIN vnis \subseteq Index /\ DOMAIN attached \subseteq Index
    /\ events \in Seq([type : {"new", "del"}, link : Link])
    /\ w.link \subseteq Link /\ w.listed \subseteq Link
    /\ sub \in {"none", "open", "closed"} /\ lock \in {"none", "watcher"}
    /\ w.pc \in {"subscribe", "enumerate", "list", "attach", "loop", "returned"}
    /\ main \in {"running", "stopping", "closed", "exited"}
    /\ churn \in 0..MaxChurn /\ faults \in 0..MaxFaults

\* attachIface removes what it made when it fails, and detachIdx and closeAll all that a
\* closure made: every program on a device is one that the manager knows how to remove, or
\* one it tried to remove in vain.
NothingLeaks ==
    \A h \in hooks : \/ h[1] \in DOMAIN attached /\ h[2] \in attached[h[1]]
                     \/ \E l \in w.link : l.idx = h[1] /\ h[2] \in w.made
                     \/ h \in left

\* "XDP is ingress-only; tcEgress additionally attaches the TC egress program": whatever
\* fallbacks an attachment took, it covers the directions asked for, once each.
CoversDirections ==
    \A i \in DOMAIN attached :
        /\ Covered(attached[i]) = Wanted(host)
        /\ Cardinality(attached[i]) = Cardinality(Wanted(host))

\* The iface_vni map: no entry outlives its place in the manager's table, unless Delete
\* failed.
VniKept == DOMAIN vnis \subseteq DOMAIN attached \cup stale

\* No update about i is waiting, and the watcher is not at work on it.
Quiet(i) ==
    /\ sub = "open" /\ w.pc \in {"list", "attach", "loop"} /\ main = "running"
    /\ \A l \in w.link \cup w.listed : l.idx # i
    /\ \A k \in DOMAIN events : events[k].link.idx # i

\* "interfaces created or removed by OVN ... are followed in real time": subscribing before
\* listing misses nothing.  Once the updates about an ifindex are handled, its device, if
\* there is one, has all its programs and its own VNI, unless a call failed; and if there
\* is none, nothing is left of it, unless a removal failed.
FollowsDevices ==
    \A i \in Index : Quiet(i) =>
        IF i \in Live
        THEN i \in failed \/ /\ i \in DOMAIN attached /\ On(i, attached[i]) \subseteq hooks
                             /\ i \in DOMAIN vnis /\ vnis[i] = links[i]
        ELSE i \notin DOMAIN attached /\ (i \in DOMAIN vnis => i \in stale)

\* A watcher that returned, told to or not, has detached everything; what remains is what
\* it failed to remove.
ReturnsClean ==
    w.pc = "returned" =>
        DOMAIN attached = {} /\ hooks \subseteq left /\ DOMAIN vnis \subseteq stale

\* A watcher told to stop returns, unless the agent has exited before: neither it nor
\* closeAll waits for the mutex for ever.
StopsWatching == main = "stopping" ~> (w.pc = "returned" \/ main = "exited")
=============================================================================
