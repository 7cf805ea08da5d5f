------------------------------ MODULE TapWatch ------------------------------
(***************************************************************************)
(* The agent's tap watcher (agent/watch.go): a goroutine that re-scans OVS  *)
(* and reconciles its table of attachments with what it found, while taps   *)
(* come and go, and while the main goroutine may shut the agent down.       *)
(*                                                                         *)
(* An attachment is three things made one after the other (the eBPF         *)
(* programs on the device, a packet socket answering for the VM, the VM's   *)
(* addresses in the local_ips map) and unmade one after the other.  The     *)
(* mutex serialises reconcile and closeAll, but neither the taps nor the    *)
(* eBPF programs reading local_ips wait for it, so every one of these is a  *)
(* step of its own.  The calls of attachIface are one step here: nothing    *)
(* in them depends on what the watcher does between two of them, and        *)
(* VxlanWatch takes them one by one.                                       *)
(***************************************************************************)
EXTENDS Integers, FiniteSets, Functions

CONSTANTS
    Tap,        \* the names a VM tap can have
    NoName,     \* not one of them
    Ip,         \* VM addresses
    Owns,       \* the pairs <<tap, set of addresses>> a VM may be plugged with
    Static,     \* the addresses given with --local-ip
    MapCap,     \* max_entries of the local_ips map
    Stops,      \* whether the agent may be told to stop
    MaxChurn,   \* bound: how often a tap is plugged, unplugged or readdressed
    MaxFaults   \* bound: how often a system call or an OVS query fails

ASSUME TapWatchAssumption ==
    /\ NoName \notin Tap
    /\ Owns \subseteq Tap \X SUBSET Ip
    /\ Static \subseteq Ip
    /\ IsFiniteSet(Ip)
    /\ MapCap \in Nat /\ MaxChurn \in Nat /\ MaxFaults \in Nat
    /\ Cardinality(Static) <= MapCap
    /\ Stops \in BOOLEAN

VARIABLES
    taps,       \* the plugged taps: name -> its ifindex and its VM's addresses
    hooked,     \* the ifindexes carrying the agent's programs
    socks,      \* the open responder sockets: what they are bound to and answer for
    local,      \* the keys of local_ips
    attached,   \* tapManager.attached
    lock,       \* the holder of tapManager.mu
    pc,         \* where the watcher and the main goroutine are
    todo,       \* reconcile: the ports not yet looked at
    seen,       \* reconcile: the names found by this scan
    cur,        \* attachLocked: the port, its ifindex and its responder
    gone,       \* detachLocked: the name being detached
    left,       \* addLocalIPs or delLocalIPs: the addresses still to do
    churn, faults,
    stranded,   \* history: addresses left by a failing addLocalIPs or delLocalIPs
    stuck       \* history: the ifindexes from which a filter could not be removed

vars == <<taps, hooked, socks, local, attached, lock, pc, todo, seen, cur, gone,
          left, churn, faults, stranded, stuck>>

env == <<taps, churn>>

Idx == 1..MaxChurn
Who == {"watcher", "main"}
Dev == [idx : Idx, ips : SUBSET Ip]
Port == [name : Tap, ips : SUBSET Ip]
Attachment == [idx : Idx, resp : SUBSET Dev, ips : SUBSET Ip]
Steps == {"idle", "lock", "attach", "hook", "socket", "put", "sweep",
          "close", "del", "forget", "run", "done", "exited"}
NoPort == [name |-> NoName, ips |-> {}, idx |-> 0]

Names(f) == DOMAIN f
Drop(f, n) == Restrict(f, DOMAIN f \ {n})
Put(f, n, v) == [m \in DOMAIN f \cup {n} |-> IF m = n THEN v ELSE f[m]]
At(w, s) == pc[w] = s
Goto(w, s) == pc' = [pc EXCEPT ![w] = s]
Failing == faults < MaxFaults /\ faults' = faults + 1

Init ==
    /\ taps = << >> /\ hooked = {} /\ socks = {} /\ local = Static
    /\ attached = << >>
    /\ lock = "free"
    /\ pc = [watcher |-> "idle", main |-> "run"]
    /\ todo = {} /\ seen = {} /\ cur = NoPort /\ gone = NoName /\ left = {}
    /\ churn = 0 /\ faults = 0 /\ stranded = {} /\ stuck = {}

-----------------------------------------------------------------------------
(* The world the watcher follows.                                          *)

\* A tap appears, in OVS and as a device with a fresh ifindex.
Plug(t, ips) ==
    /\ churn < MaxChurn /\ t \notin Names(taps)
    /\ taps' = Put(taps, t, [idx |-> churn + 1, ips |-> ips])
    /\ churn' = churn + 1
    /\ UNCHANGED <<hooked, socks, local, attached, lock, pc, todo, seen, cur, gone, left, faults, stranded, stuck>>

\* A tap disappears: the kernel drops its programs with the device, while the
\* responder's socket stays open and bound to nothing.
Unplug(t) ==
    /\ churn < MaxChurn /\ t \in Names(taps)
    /\ hooked' = hooked \ {taps[t].idx} /\ stuck' = stuck \ {taps[t].idx}
    /\ taps' = Drop(taps, t)
    /\ churn' = churn + 1
    /\ UNCHANGED <<socks, local, attached, lock, pc, todo, seen, cur, gone, left, faults, stranded>>

\* The VM keeps its tap but OVN gives it other addresses.
Readdress(t, ips) ==
    /\ churn < MaxChurn /\ t \in Names(taps)
    /\ taps' = [taps EXCEPT ![t].ips = ips]
    /\ churn' = churn + 1
    /\ UNCHANGED <<hooked, socks, local, attached, lock, pc, todo, seen, cur, gone, left, faults, stranded, stuck>>

-----------------------------------------------------------------------------
(* Discovery: reconcileOnce, ovs.DiscoverPorts, resolveIPs.                *)

\* One scan: every tap OVS lists, each with its addresses or, when ovn-nbctl failed
\* for it, with none.  After a stop a tick may still be the branch select takes.
Discover ==
    /\ At("watcher", "idle")
    /\ \E unresolved \in SUBSET Names(taps) :
        /\ IF unresolved = {} THEN UNCHANGED faults ELSE Failing
        /\ todo' = {[name |-> t, ips |-> IF t \in unresolved THEN {} ELSE taps[t].ips]
                       : t \in Names(taps)}
    /\ Goto("watcher", "lock")
    /\ UNCHANGED <<env, hooked, socks, local, attached, lock, seen, cur, gone, left, stranded, stuck>>

\* ovs-vsctl failed: the scan is skipped.
DiscoverFails ==
    /\ At("watcher", "idle") /\ Failing
    /\ UNCHANGED <<env, hooked, socks, local, attached, lock, pc, todo, seen, cur, gone, left, stranded, stuck>>

\* reconcile takes the mutex and notes which names this scan saw.
Lock ==
    /\ At("watcher", "lock") /\ lock = "free"
    /\ lock' = "watcher"
    /\ seen' = {p.name : p \in todo}
    /\ Goto("watcher", "attach")
    /\ UNCHANGED <<env, hooked, socks, local, attached, todo, cur, gone, left, faults, stranded, stuck>>

-----------------------------------------------------------------------------
(* attachLocked.                                                           *)

\* The port already has an attachment under its name: continue.
Known(p) ==
    /\ At("watcher", "attach") /\ p \in todo
    /\ p.name \in Names(attached)
    /\ todo' = todo \ {p}
    /\ UNCHANGED <<env, hooked, socks, local, attached, lock, pc, seen, cur, gone, left, faults, stranded, stuck>>

Record(att) ==
    /\ attached' = Put(attached, cur'.name, att)
    /\ Goto("watcher", "attach")

\* InterfaceByName fails: the device is gone since the scan, or the call failed.
LookupFails(p) ==
    /\ At("watcher", "attach") /\ p \in todo /\ p.name \notin Names(attached)
    /\ IF p.name \in Names(taps) THEN Failing ELSE UNCHANGED faults
    /\ todo' = todo \ {p}
    /\ UNCHANGED <<env, hooked, socks, local, attached, lock, pc, seen, cur, gone, left, stranded, stuck>>

\* InterfaceByName finds the device that has the name now.
Lookup(p) ==
    /\ At("watcher", "attach") /\ p \in todo /\ p.name \notin Names(attached)
    /\ p.name \in Names(taps)
    /\ todo' = todo \ {p}
    /\ cur' = [name |-> p.name, ips |-> p.ips, idx |-> taps[p.name].idx]
    /\ Goto("watcher", "hook")
    /\ UNCHANGED <<env, hooked, socks, local, attached, lock, seen, gone, left, faults, stranded, stuck>>

Answers(c) == [idx |-> c.idx, ips |-> c.ips]
Alive(i) == \E t \in Names(taps) : taps[t].idx = i

\* An attach that fails halfway and leaves the ingress program on the device.
AttachFails_Leak ==
    /\ At("watcher", "hook")
    /\ IF Alive(cur.idx)
       THEN Failing /\ hooked' = hooked \cup {cur.idx}
       ELSE UNCHANGED <<faults, hooked>>
    /\ Goto("watcher", "attach")
    /\ UNCHANGED <<env, socks, local, attached, lock, todo, seen, cur, gone, left, stranded, stuck>>

\* attachIface fails, because the device is gone or a call failed.  The programs already
\* on the device come off again, unless removing a filter fails too.
AttachFails ==
    /\ At("watcher", "hook")
    /\ IF Alive(cur.idx) THEN Failing ELSE UNCHANGED faults
    /\ \/ UNCHANGED <<hooked, stuck>>
       \/ /\ Alive(cur.idx)
          /\ hooked' = hooked \cup {cur.idx} /\ stuck' = stuck \cup {cur.idx}
    /\ Goto("watcher", "attach")
    /\ UNCHANGED <<env, socks, local, attached, lock, todo, seen, cur, gone, left, stranded>>

\* attachIface puts the programs on the device that was looked up, if it is still there.
\* Without an address to answer for, that is all of the attachment.
AttachIface ==
    /\ At("watcher", "hook") /\ Alive(cur.idx)
    /\ hooked' = hooked \cup {cur.idx}
    /\ UNCHANGED cur
    /\ IF cur.ips = {}
       THEN Record([idx |-> cur.idx, resp |-> {}, ips |-> {}])
       ELSE Goto("watcher", "socket") /\ UNCHANGED attached
    /\ UNCHANGED <<env, socks, local, lock, todo, seen, gone, left, faults, stranded, stuck>>

\* newResponder opens a packet socket and binds it to the device.
OpenSocket ==
    /\ At("watcher", "socket") /\ Alive(cur.idx)
    /\ socks' = socks \cup {Answers(cur)}
    /\ left' = cur.ips
    /\ Goto("watcher", "put")
    /\ UNCHANGED <<env, hooked, local, attached, lock, todo, seen, cur, gone, faults, stranded, stuck>>

\* A failing newResponder after which the addresses are registered all the same.
OpenSocketFails_Register ==
    /\ At("watcher", "socket")
    /\ IF Alive(cur.idx) THEN Failing ELSE UNCHANGED faults
    /\ UNCHANGED cur
    /\ local' = local \cup cur.ips
    /\ Record([idx |-> cur.idx, resp |-> {}, ips |-> cur.ips])
    /\ UNCHANGED <<env, hooked, socks, lock, todo, seen, gone, left, stranded, stuck>>

\* newResponder fails: the tap is observed only.
OpenSocketFails ==
    /\ At("watcher", "socket")
    /\ IF Alive(cur.idx) THEN Failing ELSE UNCHANGED faults
    /\ UNCHANGED cur
    /\ Record([idx |-> cur.idx, resp |-> {}, ips |-> {}])
    /\ UNCHANGED <<env, hooked, socks, local, lock, todo, seen, gone, left, stranded, stuck>>

\* The map takes a key it has, or a new one while it has room.
Fits(ip) == ip \in local \/ Cardinality(local) < MapCap

\* addLocalIPs puts one address; the last one completes the attachment, which
\* remembers the addresses for its detach.
PutIp(ip) ==
    /\ At("watcher", "put") /\ ip \in left /\ Fits(ip)
    /\ local' = local \cup {ip}
    /\ left' = left \ {ip}
    /\ UNCHANGED cur
    /\ IF left' = {}
       THEN Record([idx |-> cur.idx, resp |-> {Answers(cur)}, ips |-> cur.ips])
       ELSE UNCHANGED <<attached, pc>>
    /\ UNCHANGED <<env, hooked, socks, lock, todo, seen, gone, faults, stranded, stuck>>

\* A failed put whose error is not looked at.
PutIpFails_Ignored(ip) ==
    /\ At("watcher", "put") /\ ip \in left /\ ~Fits(ip)
    /\ left' = {}
    /\ UNCHANGED cur
    /\ Record([idx |-> cur.idx, resp |-> {Answers(cur)}, ips |-> cur.ips])
    /\ UNCHANGED <<env, hooked, socks, local, lock, todo, seen, gone, faults, stranded, stuck>>

\* A put fails on a full map: addLocalIPs returns there, and the attachment is
\* recorded with its responder and without addresses, those already put included.
PutIpFails(ip) ==
    /\ At("watcher", "put") /\ ip \in left /\ ~Fits(ip)
    /\ left' = {} /\ stranded' = stranded \cup (cur.ips \ left)
    /\ UNCHANGED cur
    /\ Record([idx |-> cur.idx, resp |-> {Answers(cur)}, ips |-> {}])
    /\ UNCHANGED <<env, hooked, socks, local, lock, todo, seen, gone, faults, stuck>>

-----------------------------------------------------------------------------
(* detachLocked, called by reconcile for the names this scan did not see and by
   closeAll for every name.                                                *)

\* Fault: a sweep that detaches nothing.
Doomed_Never(w) == IF w = "watcher" THEN {} ELSE Names(attached)

\* The names the loop still has to detach.
Doomed(w) == IF w = "watcher" THEN Names(attached) \ seen ELSE Names(attached)

\* reconcile has looked at every port and turns to the attachments.
Sweep ==
    /\ At("watcher", "attach") /\ todo = {}
    /\ cur' = NoPort
    /\ Goto("watcher", "sweep")
    /\ UNCHANGED <<env, hooked, socks, local, attached, lock, todo, seen, gone, left, faults, stranded, stuck>>

\* att.detach(): the programs come off, wherever they still are.  delBPFFilter only logs
\* that a filter stays.
Detach(w, n) ==
    /\ At(w, "sweep") /\ lock = w /\ n \in Doomed(w)
    /\ gone' = n
    /\ \/ hooked' = hooked \ {attached[n].idx} /\ UNCHANGED <<faults, stuck>>
       \/ /\ attached[n].idx \in hooked /\ Failing
          /\ stuck' = stuck \cup {attached[n].idx} /\ UNCHANGED hooked
    /\ Goto(w, "close")
    /\ UNCHANGED <<env, socks, local, attached, lock, todo, seen, cur, left, stranded>>

\* att.resp.Close().
CloseSocket(w) ==
    /\ At(w, "close") /\ lock = w
    /\ socks' = socks \ attached[gone].resp
    /\ left' = attached[gone].ips
    /\ Goto(w, IF attached[gone].ips = {} THEN "forget" ELSE "del")
    /\ UNCHANGED <<env, hooked, local, attached, lock, todo, seen, cur, gone, faults, stranded, stuck>>

\* A detach that keeps the addresses registered.
DelIp_Keep(w, ip) ==
    /\ At(w, "del") /\ lock = w /\ ip \in left
    /\ left' = left \ {ip}
    /\ Goto(w, IF left' = {} THEN "forget" ELSE "del")
    /\ UNCHANGED <<env, hooked, socks, local, attached, lock, todo, seen, cur, gone, faults, stranded, stuck>>

\* delLocalIPs deletes one address.
DelIp(w, ip) ==
    /\ At(w, "del") /\ lock = w /\ ip \in left
    /\ local' = local \ {ip}
    /\ left' = left \ {ip}
    /\ Goto(w, IF left' = {} THEN "forget" ELSE "del")
    /\ UNCHANGED <<env, hooked, socks, attached, lock, todo, seen, cur, gone, faults, stranded, stuck>>

\* Delete fails, which delLocalIPs does not look at: the address stays in the map.
DelIpFails(w, ip) ==
    /\ At(w, "del") /\ lock = w /\ ip \in left /\ Failing
    /\ stranded' = stranded \cup ({ip} \cap local)
    /\ left' = left \ {ip}
    /\ Goto(w, IF left' = {} THEN "forget" ELSE "del")
    /\ UNCHANGED <<env, hooked, socks, local, attached, lock, todo, seen, cur, gone, stuck>>

\* delete(m.attached, name), and on to the next name.
Forget(w) ==
    /\ At(w, "forget") /\ lock = w
    /\ attached' = Drop(attached, gone)
    /\ gone' = NoName
    /\ Goto(w, "sweep")
    /\ UNCHANGED <<env, hooked, socks, local, lock, todo, seen, cur, left, faults, stranded, stuck>>

\* No name left: reconcile returns to the ticker, closeAll to run.
Unlock(w) ==
    /\ At(w, "sweep") /\ lock = w /\ Doomed(w) = {}
    /\ lock' = "free" /\ seen' = {}
    /\ Goto(w, IF w = "watcher" THEN "idle" ELSE "done")
    /\ UNCHANGED <<env, hooked, socks, local, attached, todo, cur, gone, left, faults, stranded, stuck>>

-----------------------------------------------------------------------------
(* Shutdown: a signal ends readLoop; run closes stop, then calls closeAll,  *)
(* waits for nobody, and the process exits.                                *)

Signal ==
    /\ Stops /\ At("main", "run")
    /\ Goto("main", "lock")
    /\ UNCHANGED <<env, hooked, socks, local, attached, lock, todo, seen, cur, gone, left, faults, stranded, stuck>>

CloseAll ==
    /\ At("main", "lock") /\ lock = "free"
    /\ lock' = "main"
    /\ Goto("main", "sweep")
    /\ UNCHANGED <<env, hooked, socks, local, attached, todo, seen, cur, gone, left, faults, stranded, stuck>>

\* runWatcher sees the closed stop channel.
WatcherReturns ==
    /\ At("watcher", "idle") /\ ~At("main", "run")
    /\ Goto("watcher", "done")
    /\ UNCHANGED <<env, hooked, socks, local, attached, lock, todo, seen, cur, gone, left, faults, stranded, stuck>>

\* The process ends, its goroutines wherever they are; its sockets go with it, the
\* filters a classic clsact attach put on a device stay.
Exit ==
    /\ At("main", "done")
    /\ pc' = [w \in Who |-> "exited"]
    /\ socks' = {}
    /\ UNCHANGED <<env, hooked, local, attached, lock, todo, seen, cur, gone, left, faults, stranded, stuck>>

-----------------------------------------------------------------------------
World ==
    \/ \E o \in Owns : Plug(o[1], o[2]) \/ Readdress(o[1], o[2])
    \/ \E t \in Tap : Unplug(t)

Attaching ==
    \/ Lock
    \/ \E p \in todo : Known(p) \/ LookupFails(p) \/ Lookup(p)
    \/ AttachFails \/ AttachIface
    \/ OpenSocket \/ OpenSocketFails
    \/ \E ip \in left : PutIp(ip) \/ PutIpFails(ip)
    \/ Sweep

Detaching(w) ==
    \/ \E n \in Names(attached) : Detach(w, n)
    \/ CloseSocket(w)
    \/ \E ip \in left : DelIp(w, ip) \/ DelIpFails(w, ip)
    \/ Forget(w)
    \/ Unlock(w)

Watcher == Discover \/ DiscoverFails \/ Attaching \/ Detaching("watcher") \/ WatcherReturns

Main == Signal \/ CloseAll \/ Detaching("main") \/ Exit

Next == World \/ Watcher \/ Main

Spec == Init /\ [][Next]_vars

\* The ticker keeps ticking and a goroutine that can run does.
FairSpec == Spec /\ WF_vars(Discover \/ Attaching \/ Detaching("watcher"))

-----------------------------------------------------------------------------
(* Properties.                                                             *)

\* Every variable keeps its type, the attachment table only known names.
TypeOK ==
    /\ Names(taps) \subseteq Tap /\ taps \in [Names(taps) -> Dev]
    /\ hooked \subseteq Idx /\ socks \subseteq Dev /\ local \subseteq Ip
    /\ Names(attached) \subseteq Tap /\ attached \in [Names(attached) -> Attachment]
    /\ lock \in Who \cup {"free"} /\ pc \in [Who -> Steps]
    /\ todo \subseteq Port /\ seen \subseteq Tap /\ left \subseteq Ip
    /\ cur = NoPort \/ cur \in [name : Tap, ips : SUBSET Ip, idx : Idx]
    /\ gone \in Tap \cup {NoName}
    /\ churn \in 0..MaxChurn /\ faults \in 0..MaxFaults /\ stranded \subseteq Ip /\ stuck \subseteq Idx

Quiet == lock = "free" /\ ~At("main", "exited")

\* An address belongs to one tap name, and the static ones to none.
Exclusive ==
    /\ \A o, p \in Owns : o[1] # p[1] => o[2] \cap p[2] = {}
    /\ \A o \in Owns : o[2] \cap Static = {}

\* "registered in the local_ips map" (tapAttachment.ips): between two reconciles, the
\* addresses of every attachment, and the static ones, are in the map, so the programs
\* intercept the probes sent to them.
AttachedRegistered ==
    Quiet => Static \cup UNION {attached[n].ips : n \in Names(attached)} \subseteq local

\* "removed on detach" (tapAttachment.ips): between two reconciles, no address is left
\* in the map that neither --local-ip nor an attachment accounts for, except those that
\* an addLocalIPs put before it failed or a delLocalIPs failed to delete.
RegisteredAttached ==
    Quiet => local \subseteq Static \cup stranded
                             \cup UNION {attached[n].ips : n \in Names(attached)}

\* Nothing is attached twice or forgotten: between two reconciles the open responders
\* are those of the table, and programs sit only on devices in the table, or on those from
\* which delBPFFilter failed to remove one.
NoOrphans ==
    Quiet => /\ socks = UNION {attached[n].resp : n \in Names(attached)}
             /\ hooked \subseteq stuck \cup {attached[n].idx : n \in Names(attached)}

Undoing == \E w \in Who : lock = w /\ pc[w] \in {"close", "del", "forget"}

Served(ip) == \E s \in socks : ip \in s.ips

\* "only now that a responder is ready to answer" (attachLocked): outside a detach,
\* also halfway through an attach, an address is in local_ips only while an open
\* responder answers for it, unless its addLocalIPs or an earlier delLocalIPs failed.
RegisteredIsServed ==
    (~Undoing /\ ~At("main", "exited")) => \A ip \in local \ (Static \cup stranded) : Served(ip)

\* Once taps stop changing and calls stop failing, the table of an agent that is not
\* told to stop settles on exactly the taps that are plugged.
Converges == <>[](At("main", "run") => Names(attached) = Names(taps))
=============================================================================
