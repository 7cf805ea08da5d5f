--------------------------- MODULE TapWatchProofs ---------------------------
(***************************************************************************)
(* What the tap watcher leaves behind, proved for any number of taps,      *)
(* addresses, failures and changes, and for a local_ips map of any size;   *)
(* and what it keeps registered as long as no address moves.               *)
(*                                                                         *)
(* The properties speak of the moments between two reconciles.  The        *)
(* invariant says what is true at every step of one, by the stage that the *)
(* holder of the mutex is in.                                              *)
(***************************************************************************)
EXTENDS TapWatch, TLAPS

\* Where the holder of tapManager.mu is.
Stage ==
    IF pc["main"] = "exited" THEN "exited" ELSE IF lock = "free" THEN "free" ELSE pc[lock]

\* The mutex is held exactly from Lock or CloseAll to Unlock.
Control ==
    /\ pc["main"] = "exited" => pc["watcher"] = "exited"
    /\ pc["main"] # "exited" =>
        /\ pc["watcher"] \in IF lock = "watcher"
                             THEN {"attach", "hook", "socket", "put", "sweep", "close", "del", "forget"}
                             ELSE {"idle", "lock", "done"}
        /\ pc["main"] \in IF lock = "main" THEN {"sweep", "close", "del", "forget"}
                          ELSE {"run", "lock", "done"}

Building == Stage \in {"hook", "socket", "put"}
Hooked == Stage \in {"socket", "put"}
Unmaking == Stage \in {"close", "del", "forget"}

\* An ifindex belongs to one name for good.
Distinct ==
    /\ \A t \in Names(taps) : taps[t].idx <= churn
    /\ \A n \in Names(attached) : attached[n].idx <= churn
    /\ \A t, u \in Names(taps) : taps[t].idx = taps[u].idx => t = u
    /\ \A n \in Names(attached), t \in Names(taps) : attached[n].idx = taps[t].idx => n = t
    /\ \A m, n \in Names(attached) : attached[m].idx = attached[n].idx => m = n
    /\ Building => /\ cur.name \in Tap /\ cur.idx \in Idx /\ cur.idx <= churn
                   /\ cur.name \notin Names(attached)
                   /\ \A t \in Names(taps) : taps[t].idx = cur.idx => t = cur.name
                   /\ \A n \in Names(attached) : attached[n].idx # cur.idx

\* A responder answers for the addresses its attachment registered.
Table ==
    /\ \A n \in Names(attached) :
        /\ \A s \in attached[n].resp : s.idx = attached[n].idx
        /\ attached[n].ips # {} => Answers(attached[n]) \in attached[n].resp
    /\ Unmaking => gone \in Names(attached)
    /\ Stage = "put" => left \subseteq cur.ips
    /\ Stage = "del" => left \subseteq attached[gone].ips

\* The attachments whose responder is open, and whose programs are on.
Serving == Names(attached) \ IF Stage \in {"del", "forget"} THEN {gone} ELSE {}
Hooking == Names(attached) \ IF Unmaking THEN {gone} ELSE {}

Sockets ==
    \A s \in Dev : s \in socks <=> \/ \E n \in Serving : s \in attached[n].resp
                                   \/ Stage = "put" /\ s = Answers(cur)

Programs ==
    \A i \in hooked : \/ \E n \in Hooking : i = attached[n].idx
                      \/ Hooked /\ i = cur.idx
                      \/ i \in stuck

Addresses ==
    \A ip \in local : \/ ip \in Static \cup stranded
                      \/ \E n \in Serving : ip \in attached[n].ips
                      \/ Stage = "put" /\ ip \in cur.ips /\ ip \notin left
                      \/ Stage = "del" /\ ip \in left

Core == Distinct /\ Table /\ Sockets /\ Programs /\ Addresses

SafeInv == TypeOK /\ Control /\ (Stage # "exited" => Core)

-----------------------------------------------------------------------------
(* Facts about the operators.                                              *)

\* Drop and Put change one entry of a table.
LEMMA DropLemma ==
    ASSUME NEW f, NEW n
    PROVE  /\ DOMAIN Drop(f, n) = DOMAIN f \ {n}
           /\ \A m \in DOMAIN f \ {n} : Drop(f, n)[m] = f[m]
BY Zenon DEF Drop, Restrict

LEMMA PutLemma ==
    ASSUME NEW f, NEW n, NEW v
    PROVE  /\ DOMAIN Put(f, n, v) = DOMAIN f \cup {n}
           /\ Put(f, n, v)[n] = v
           /\ \A m \in DOMAIN f : m # n => Put(f, n, v)[m] = f[m]
BY Zenon DEF Put

\* A goroutine at one of the steps of a reconcile holds the mutex, so its step is the stage.
LEMMA StageLemma ==
    ASSUME TypeOK, Control
    PROVE  /\ \A w \in Who : lock = w => Stage = pc[w]
           /\ pc["watcher"] \in {"attach", "hook", "socket", "put", "sweep", "close", "del", "forget"}
              => lock = "watcher"
           /\ \A w \in Who : pc[w] # "exited" => pc["main"] # "exited"
           /\ lock = "free" /\ pc["main"] # "exited" => Stage = "free"
BY Zenon DEF TypeOK, Control, Stage, Who

-----------------------------------------------------------------------------
(* Types and control.                                                      *)

\* Plugging, unplugging and readdressing a tap: the types.
LEMMA WorldTypes == SafeInv /\ World => TypeOK' /\ Control'
<1> SUFFICES ASSUME SafeInv, World PROVE TypeOK' /\ Control'
  OBVIOUS
<1> USE TapWatchAssumption
<1>0. /\ TypeOK /\ Control
      /\ UNCHANGED <<socks, local, attached, lock, pc, todo, seen, cur, gone, left, faults, stranded>>
      /\ stuck' \subseteq stuck
      /\ churn < MaxChurn /\ churn' = churn + 1 /\ churn \in 0..MaxChurn
  BY Zenon DEF SafeInv, TypeOK, World, Plug, Unplug, Readdress
<1>1. churn' \in 0..MaxChurn /\ churn' \in Idx
  BY <1>0 DEF Idx
<1>2. Names(taps)' \subseteq Tap /\ taps' \in [Names(taps)' -> Dev] /\ hooked' \subseteq Idx
  <2>1. ASSUME NEW o \in Owns, Plug(o[1], o[2])
        PROVE  Names(taps)' \subseteq Tap /\ taps' \in [Names(taps)' -> Dev] /\ hooked' \subseteq Idx
    <3>1. o[1] \in Tap /\ [idx |-> churn + 1, ips |-> o[2]] \in Dev
      BY Zenon, <1>0, <1>1 DEF Dev
    <3> DEFINE v == [idx |-> churn + 1, ips |-> o[2]]
    <3>2. taps' = Put(taps, o[1], v) /\ hooked' = hooked
      BY Zenon, <2>1 DEF Plug
    <3> HIDE DEF v
    <3> QED
      BY Zenon, <1>0, <3>1, <3>2 DEF Put, Names, TypeOK, v
  <2>2. ASSUME NEW o \in Owns, Readdress(o[1], o[2])
        PROVE  Names(taps)' \subseteq Tap /\ taps' \in [Names(taps)' -> Dev] /\ hooked' \subseteq Idx
    BY <1>0, <2>2 DEF Readdress, Names, TypeOK, Dev
  <2>3. ASSUME NEW t \in Tap, Unplug(t)
        PROVE  Names(taps)' \subseteq Tap /\ taps' \in [Names(taps)' -> Dev] /\ hooked' \subseteq Idx
    BY Zenon, <1>0, <2>3 DEF Unplug, Names, TypeOK, Drop, Restrict
  <2> QED
    BY Zenon, <2>1, <2>2, <2>3 DEF World
<1>3. TypeOK'
  BY Zenon, <1>0, <1>1, <1>2 DEF TypeOK, Names
<1>4. Control'
  BY Zenon, <1>0 DEF Control
<1> QED
  BY Zenon, <1>3, <1>4

\* What attachLocked records is an attachment, and recording it ends the work on a port.
LEMMA RecordTypes ==
    ASSUME TypeOK, Control, NEW att \in Attachment, cur'.name \in Tap, Record(att),
           pc["watcher"] \in {"hook", "socket", "put"}
    PROVE  /\ Names(attached)' \subseteq Tap /\ attached' \in [Names(attached)' -> Attachment]
           /\ pc' \in [Who -> Steps] /\ pc'["main"] = pc["main"] /\ pc'["watcher"] = "attach"
<1>1. attached' = Put(attached, cur'.name, att) /\ pc' = [pc EXCEPT !["watcher"] = "attach"]
  BY Zenon DEF Record, Goto
<1>2. Names(attached)' \subseteq Tap /\ attached' \in [Names(attached)' -> Attachment]
  BY Zenon, <1>1 DEF Put, Names, TypeOK
<1>3. pc' \in [Who -> Steps] /\ pc'["main"] = pc["main"] /\ pc'["watcher"] = "attach"
  BY Zenon, <1>1 DEF TypeOK, Who, Steps
<1> QED
  BY Zenon, <1>2, <1>3

\* The steps that leave the kernel and the table alone: the types.
LEMMA QuietTypes ==
    ASSUME SafeInv,
           \/ Discover \/ DiscoverFails \/ Lock \/ Sweep \/ WatcherReturns \/ Signal \/ CloseAll
           \/ \E p \in todo : Known(p) \/ LookupFails(p)
           \/ \E w \in Who : Unlock(w)
    PROVE  TypeOK' /\ Control'
<1> USE TapWatchAssumption
<1>0. /\ TypeOK /\ Control
      /\ UNCHANGED <<taps, churn, hooked, socks, local, attached, gone, left, stranded, stuck>>
  BY Zenon DEF SafeInv, Discover, DiscoverFails, Lock, Sweep, WatcherReturns, Signal, CloseAll, Known,
         LookupFails, Unlock, env
<1>1. faults' \in 0..MaxFaults
  <2>1. faults' = faults \/ (faults < MaxFaults /\ faults' = faults + 1)
    BY Zenon DEF Failing, Discover, DiscoverFails, Lock, Sweep, WatcherReturns, Signal, CloseAll,
           Known, LookupFails, Unlock
  <2> QED
    BY <1>0, <2>1 DEF TypeOK
<1>6. cur' = cur \/ cur' = NoPort
  BY Zenon DEF Discover, DiscoverFails, Lock, Sweep, WatcherReturns, Signal, CloseAll, Known,
         LookupFails, Unlock
<1>2. todo' \subseteq Port
  BY <1>0 DEF TypeOK, Port, Dev, Names, Discover, DiscoverFails, Lock, Sweep, WatcherReturns,
         Signal, CloseAll, Known, LookupFails, Unlock
<1>3. seen' \subseteq Tap
  BY <1>0 DEF TypeOK, Port, Discover, DiscoverFails, Lock, Sweep, WatcherReturns, Signal,
         CloseAll, Known, LookupFails, Unlock
<1>4. pc' \in [Who -> Steps] /\ lock' \in Who \cup {"free"} /\ Control'
  <2>1. CASE Discover \/ DiscoverFails \/ Lock \/ Sweep \/ WatcherReturns
    <3>1. CASE Discover \/ DiscoverFails
      BY Zenon, <1>0, <3>1 DEF TypeOK, Control, Who, Steps, At, Goto, Discover, DiscoverFails
    <3>2. CASE Lock \/ Sweep
      BY Zenon, <1>0, <3>2 DEF TypeOK, Control, Who, Steps, At, Goto, Lock, Sweep
    <3>3. CASE WatcherReturns
      BY Zenon, <1>0, <3>3 DEF TypeOK, Control, Who, Steps, At, Goto, WatcherReturns
    <3> QED
      BY Zenon, <2>1, <3>1, <3>2, <3>3
  <2>2. CASE Signal \/ CloseAll
    BY <1>0, <2>2 DEF TypeOK, Control, Who, Steps, At, Goto, Signal, CloseAll
  <2>3. CASE \E p \in todo : Known(p) \/ LookupFails(p)
    BY Zenon, <1>0, <2>3 DEF TypeOK, Control, Known, LookupFails
  <2>4. ASSUME NEW w \in Who, Unlock(w)
        PROVE  pc' \in [Who -> Steps] /\ lock' \in Who \cup {"free"} /\ Control'
    BY Zenon, <1>0, <2>4 DEF TypeOK, Control, Who, Steps, At, Goto, Unlock
  <2> QED
    BY Zenon, <2>1, <2>2, <2>3, <2>4
<1>5. TypeOK'
  BY Zenon, <1>0, <1>1, <1>2, <1>3, <1>4, <1>6 DEF TypeOK, Names
<1> QED
  BY Zenon, <1>4, <1>5

\* InterfaceByName finds a device: the types.
LEMMA LookupTypes ==
    ASSUME SafeInv, NEW p \in todo, Lookup(p)
    PROVE  TypeOK' /\ Control'
<1>0. /\ TypeOK /\ Control /\ p \in Port /\ p.name \in Names(taps) /\ taps[p.name] \in Dev
      /\ todo' = todo \ {p} /\ pc["watcher"] = "attach"
      /\ cur' = [name |-> p.name, ips |-> p.ips, idx |-> taps[p.name].idx]
      /\ pc' = [pc EXCEPT !["watcher"] = "hook"]
      /\ UNCHANGED <<taps, churn, hooked, socks, local, attached, lock, seen, gone, left, faults, stranded, stuck>>
  BY Zenon DEF SafeInv, TypeOK, Lookup, Names, Goto, At, env
<1>1. cur' \in [name : Tap, ips : SUBSET Ip, idx : Idx]
  BY Zenon, <1>0 DEF Port, Dev
<1>2. pc' \in [Who -> Steps] /\ pc'["main"] = pc["main"] /\ pc'["watcher"] = "hook"
  BY Zenon, <1>0 DEF TypeOK, Who, Steps
<1>3. lock = "watcher" /\ pc["main"] # "exited"
  BY Zenon, <1>0, StageLemma DEF Who
<1>4. Control'
  <2>1. lock' = "watcher" /\ Control
    BY Zenon, <1>0, <1>3
  <2> QED
    BY Zenon, <1>2, <1>3, <2>1 DEF Control
<1> QED
  BY Zenon, <1>0, <1>1, <1>2, <1>4 DEF TypeOK, Names

\* The steps of attachLocked that change the kernel or the table: the types.
LEMMA AttachTypes ==
    ASSUME SafeInv,
           \/ AttachFails \/ AttachIface \/ OpenSocket \/ OpenSocketFails
           \/ \E ip \in left : PutIp(ip) \/ PutIpFails(ip)
    PROVE  TypeOK' /\ Control'
<1> USE TapWatchAssumption
<1>0. TypeOK /\ Control
  BY Zenon DEF SafeInv
<1>1. UNCHANGED <<taps, churn, lock, todo, seen, gone, cur>>
  BY Zenon DEF AttachFails, AttachIface, OpenSocket, OpenSocketFails, PutIp, PutIpFails, env
<1>2. pc["watcher"] \in {"hook", "socket", "put"}
  BY Zenon DEF AttachFails, AttachIface, OpenSocket, OpenSocketFails, PutIp, PutIpFails, At
<1>3. lock = "watcher" /\ Stage = pc["watcher"] /\ pc["main"] # "exited"
  BY Zenon, <1>0, <1>2, StageLemma DEF Who
<1>4. cur \in [name : Tap, ips : SUBSET Ip, idx : Idx]
  BY <1>0, <1>2, <1>3 DEF SafeInv, Core, Distinct, Building, TypeOK, NoPort
<1>5. ASSUME pc' \in [Who -> Steps], pc'["main"] = pc["main"],
             pc'["watcher"] \in {"attach", "hook", "socket", "put"}
      PROVE  Control'
  BY Zenon, <1>0, <1>1, <1>3, <1>5 DEF Control
<1>10. CASE AttachFails
  <2>1. faults' \in 0..MaxFaults
    BY <1>0, <1>10 DEF AttachFails, Failing, TypeOK
  <2>2. /\ hooked' \subseteq Idx /\ stuck' \subseteq Idx
        /\ UNCHANGED <<socks, local, attached, left, stranded>>
        /\ pc' = [pc EXCEPT !["watcher"] = "attach"]
    BY Zenon, <1>0, <1>4, <1>10 DEF AttachFails, Goto, TypeOK
  <2>3. /\ pc' \in [Who -> Steps] /\ pc'["main"] = pc["main"] /\ pc'["watcher"] = "attach"
    BY Zenon, <1>0, <2>2 DEF TypeOK, Who, Steps
  <2> QED
    BY Zenon, <1>0, <1>1, <1>5, <2>1, <2>2, <2>3 DEF TypeOK, Names
<1>6. CASE AttachIface
  <2>1. /\ hooked' = hooked \cup {cur.idx} /\ cur.idx \in Idx
        /\ UNCHANGED <<socks, local, left, faults, stranded, stuck>>
    BY Zenon, <1>4, <1>6 DEF AttachIface
  <2>3. /\ Names(attached)' \subseteq Tap /\ attached' \in [Names(attached)' -> Attachment]
        /\ pc' \in [Who -> Steps] /\ pc'["main"] = pc["main"]
        /\ pc'["watcher"] \in {"attach", "hook", "socket", "put"}
    <3>1. CASE cur.ips = {}
      <4>1. [idx |-> cur.idx, resp |-> {}, ips |-> {}] \in Attachment
        BY Zenon, <2>1 DEF Attachment
      <4>2. Record([idx |-> cur.idx, resp |-> {}, ips |-> {}])
        BY Zenon, <1>6, <3>1 DEF AttachIface
      <4>3. cur'.name \in Tap
        BY Zenon, <1>1, <1>4
      <4> QED
        BY Zenon, <1>0, <1>2, <4>1, <4>2, <4>3, RecordTypes
    <3>2. CASE cur.ips # {}
      <4>1. attached' = attached /\ pc' = [pc EXCEPT !["watcher"] = "socket"]
        BY Zenon, <1>6, <3>2 DEF AttachIface, Goto
      <4> QED
        BY Zenon, <1>0, <4>1 DEF TypeOK, Names, Who, Steps
    <3> QED
      BY Zenon, <3>1, <3>2
  <2> QED
    BY Zenon, <1>0, <1>1, <1>5, <2>1, <2>3 DEF TypeOK, Names
<1>7. CASE OpenSocket
  <2>1. /\ cur \in [name : Tap, ips : SUBSET Ip, idx : Idx]
        /\ socks' = socks \cup {Answers(cur)} /\ left' = cur.ips
        /\ pc' = [pc EXCEPT !["watcher"] = "put"]
        /\ UNCHANGED <<hooked, local, attached, faults, stranded, stuck>>
    BY Zenon, <1>4, <1>7 DEF OpenSocket, Goto, At
  <2>2. Answers(cur) \in Dev
    BY Zenon, <2>1 DEF Answers, Dev
  <2>3. /\ pc' \in [Who -> Steps] /\ pc'["main"] = pc["main"]
        /\ pc'["watcher"] \in {"attach", "hook", "socket", "put"}
    BY Zenon, <1>0, <2>1 DEF TypeOK, Who, Steps
  <2> QED
    BY Zenon, <1>0, <1>1, <1>5, <2>1, <2>2, <2>3 DEF TypeOK, Names
<1>8. CASE OpenSocketFails
  <2>1. /\ cur \in [name : Tap, ips : SUBSET Ip, idx : Idx] /\ cur' = cur
        /\ Record([idx |-> cur.idx, resp |-> {}, ips |-> {}])
        /\ UNCHANGED <<hooked, socks, local, left, stranded, stuck>>
    BY Zenon, <1>4, <1>8 DEF OpenSocketFails, At
  <2>2. [idx |-> cur.idx, resp |-> {}, ips |-> {}] \in Attachment
    BY Zenon, <2>1 DEF Attachment
  <2>3. faults' \in 0..MaxFaults
    BY <1>0, <1>8 DEF OpenSocketFails, Failing, TypeOK
  <2>4. /\ Names(attached)' \subseteq Tap /\ attached' \in [Names(attached)' -> Attachment]
        /\ pc' \in [Who -> Steps] /\ pc'["main"] = pc["main"] /\ pc'["watcher"] = "attach"
    BY Zenon, <1>0, <1>2, <2>1, <2>2, RecordTypes
  <2> QED
    BY Zenon, <1>0, <1>1, <1>5, <2>1, <2>3, <2>4 DEF TypeOK, Names
<1>9. ASSUME NEW ip \in left, PutIp(ip) \/ PutIpFails(ip) PROVE TypeOK' /\ Control'
  <2>1. /\ cur \in [name : Tap, ips : SUBSET Ip, idx : Idx] /\ cur' = cur /\ ip \in Ip
        /\ UNCHANGED <<hooked, socks, faults, stuck>>
    BY Zenon, <1>0, <1>4, <1>9 DEF PutIp, PutIpFails, At, TypeOK
  <2>2. local' \subseteq Ip /\ left' \subseteq Ip /\ stranded' \subseteq Ip
    BY Zenon, <1>0, <1>9, <2>1 DEF PutIp, PutIpFails, TypeOK
  <2>3. Answers(cur) \in Dev
    BY Zenon, <2>1 DEF Answers, Dev
  <2>4. /\ [idx |-> cur.idx, resp |-> {Answers(cur)}, ips |-> cur.ips] \in Attachment
        /\ [idx |-> cur.idx, resp |-> {Answers(cur)}, ips |-> {}] \in Attachment
    BY Zenon, <2>1, <2>3 DEF Attachment
  <2>5. \/ Record([idx |-> cur.idx, resp |-> {Answers(cur)}, ips |-> cur.ips])
        \/ Record([idx |-> cur.idx, resp |-> {Answers(cur)}, ips |-> {}])
        \/ UNCHANGED <<attached, pc>>
    BY Zenon, <1>9 DEF PutIp, PutIpFails
  <2>6. /\ Names(attached)' \subseteq Tap /\ attached' \in [Names(attached)' -> Attachment]
        /\ pc' \in [Who -> Steps] /\ pc'["main"] = pc["main"]
        /\ pc'["watcher"] \in {"attach", "hook", "socket", "put"}
    <3>1. CASE UNCHANGED <<attached, pc>>
      BY Zenon, <1>0, <1>2, <3>1 DEF TypeOK, Names
    <3> QED
      BY Zenon, <1>0, <1>2, <2>1, <2>4, <2>5, <3>1, RecordTypes
  <2> QED
    BY Zenon, <1>0, <1>1, <1>5, <2>1, <2>2, <2>6 DEF TypeOK, Names
<1> QED
  BY Zenon, <1>6, <1>7, <1>8, <1>9, <1>10

\* The steps of detachLocked and the exit: the types.
LEMMA DetachTypes ==
    ASSUME SafeInv,
           \/ \E w \in Who : \/ \E n \in Names(attached) : Detach(w, n)
                             \/ CloseSocket(w)
                             \/ \E ip \in left : DelIp(w, ip) \/ DelIpFails(w, ip)
                             \/ Forget(w)
           \/ Exit
    PROVE  TypeOK' /\ Control'
<1> USE TapWatchAssumption
<1>0. /\ TypeOK /\ Control
      /\ UNCHANGED <<taps, churn, lock, todo, seen, cur>>
  BY Zenon DEF SafeInv, Detach, CloseSocket, DelIp, DelIpFails, Forget, Exit, env
<1>7. faults' \in 0..MaxFaults
  <2>1. faults' = faults \/ (faults < MaxFaults /\ faults' = faults + 1)
    BY Zenon DEF Failing, Detach, CloseSocket, DelIp, DelIpFails, Forget, Exit
  <2> QED
    BY <1>0, <2>1 DEF TypeOK
<1>1. CASE Exit
  <2>1. /\ pc' = [w \in Who |-> "exited"] /\ socks' = {}
        /\ UNCHANGED <<hooked, local, attached, gone, left, stranded, stuck>>
    BY Zenon, <1>1 DEF Exit
  <2>2. pc' \in [Who -> Steps] /\ pc'["main"] = "exited" /\ pc'["watcher"] = "exited"
    BY Zenon, <2>1 DEF Who, Steps
  <2> QED
    BY Zenon, <1>0, <1>7, <2>1, <2>2 DEF TypeOK, Names, Control
<1>2. ASSUME NEW w \in Who, NEW s \in {"close", "del", "forget", "sweep"},
             pc[w] \in {"close", "del", "forget", "sweep"}, lock = w, Goto(w, s)
      PROVE  pc' \in [Who -> Steps] /\ Control'
  BY Zenon, <1>0, <1>2 DEF TypeOK, Control, Who, Steps, Goto
<1>3. ASSUME NEW w \in Who, NEW n \in Names(attached), Detach(w, n) PROVE TypeOK' /\ Control'
  <2>1. /\ gone' = n /\ Goto(w, "close") /\ lock = w
        /\ pc[w] = "sweep" /\ UNCHANGED <<socks, local, attached, left, stranded>>
    BY Zenon, <1>3 DEF Detach, At
  <2>2. pc' \in [Who -> Steps] /\ Control'
    BY Zenon, <1>2, <2>1
  <2>3. hooked' \subseteq hooked /\ stuck' \subseteq stuck \cup hooked
    BY Zenon, <1>3 DEF Detach
  <2> QED
    BY Zenon, <1>0, <1>7, <2>1, <2>2, <2>3 DEF TypeOK, Names
<1>4. ASSUME NEW w \in Who, CloseSocket(w) PROVE TypeOK' /\ Control'
  <2>1. /\ socks' = socks \ attached[gone].resp /\ left' = attached[gone].ips /\ lock = w
        /\ pc[w] = "close" /\ UNCHANGED <<hooked, local, attached, gone, stranded, stuck>>
        /\ \E s \in {"close", "del", "forget", "sweep"} : Goto(w, s)
    BY Zenon, <1>4 DEF CloseSocket, At
  <2>2. gone \in Names(attached)
    BY Zenon, <1>0, <2>1, StageLemma DEF SafeInv, Core, Table, Unmaking
  <2>3. attached[gone].ips \subseteq Ip
    BY Zenon, <1>0, <2>2 DEF TypeOK, Attachment, Names
  <2>4. pc' \in [Who -> Steps] /\ Control'
    BY Zenon, <1>2, <2>1
  <2> QED
    BY Zenon, <1>0, <1>7, <2>1, <2>3, <2>4 DEF TypeOK, Names
<1>5. ASSUME NEW w \in Who, NEW ip \in left, DelIp(w, ip) \/ DelIpFails(w, ip)
      PROVE  TypeOK' /\ Control'
  <2>1. /\ left' = left \ {ip} /\ lock = w
        /\ pc[w] = "del" /\ UNCHANGED <<hooked, socks, attached, gone, stuck>>
        /\ \E s \in {"close", "del", "forget", "sweep"} : Goto(w, s)
    BY Zenon, <1>5 DEF DelIp, DelIpFails, At
  <2>2. pc' \in [Who -> Steps] /\ Control'
    BY Zenon, <1>2, <2>1
  <2>3. local' \subseteq local /\ stranded' \subseteq stranded \cup local
    BY Zenon, <1>5 DEF DelIp, DelIpFails
  <2> QED
    BY Zenon, <1>0, <1>7, <2>1, <2>2, <2>3 DEF TypeOK, Names
<1>6. ASSUME NEW w \in Who, Forget(w) PROVE TypeOK' /\ Control'
  <2>1. /\ attached' = Drop(attached, gone) /\ gone' = NoName /\ lock = w /\ Goto(w, "sweep")
        /\ pc[w] = "forget" /\ UNCHANGED <<hooked, socks, local, left, stranded, stuck>>
    BY Zenon, <1>6 DEF Forget, At
  <2>2. pc' \in [Who -> Steps] /\ Control'
    BY Zenon, <1>2, <2>1
  <2>3. Names(attached)' \subseteq Tap /\ attached' \in [Names(attached)' -> Attachment]
    BY Zenon, <1>0, <2>1 DEF TypeOK, Names, Drop, Restrict
  <2> QED
    BY Zenon, <1>0, <1>7, <2>1, <2>2, <2>3 DEF TypeOK, Names
<1> QED
  BY Zenon, <1>1, <1>3, <1>4, <1>5, <1>6

-----------------------------------------------------------------------------
(* The steps that are not the watcher's or touch nothing it made.          *)

\* The taps come and go without the watcher: an ifindex is never used again.
LEMMA WorldCore == SafeInv /\ World => (Stage' # "exited" => Core')
<1> SUFFICES ASSUME SafeInv, World, Stage # "exited" PROVE Core'
  BY Zenon DEF World, Plug, Unplug, Readdress, Stage
<1> USE DEF Names
<1>0. /\ TypeOK /\ Core /\ churn \in Nat /\ churn' = churn + 1 /\ Stage' = Stage
      /\ UNCHANGED <<socks, local, attached, cur, gone, left, stranded>>
      /\ \A i \in hooked' : i \in hooked /\ (i \in stuck => i \in stuck')
  <2>1. TypeOK /\ Core
    BY Zenon DEF SafeInv
  <2>2. /\ churn' = churn + 1
        /\ \A i \in hooked' : i \in hooked /\ (i \in stuck => i \in stuck')
        /\ UNCHANGED <<socks, local, attached, lock, pc, cur, gone, left, stranded>>
    BY Zenon DEF World, Plug, Unplug, Readdress
  <2> QED
    BY <2>1, <2>2, TapWatchAssumption DEF TypeOK, Stage
<1>1. Table' /\ Sockets' /\ Programs' /\ Addresses'
  BY <1>0 DEF Core, Table, Sockets, Programs, Addresses, Serving, Hooking, Unmaking,
         Hooked, Answers
<1>2. \A t \in DOMAIN taps' :
        \/ t \in DOMAIN taps /\ taps'[t].idx = taps[t].idx
        \/ t \notin DOMAIN taps /\ taps'[t].idx = churn + 1 /\ \A u \in DOMAIN taps' : u = t \/ u \in DOMAIN taps
  <2>1. ASSUME NEW o \in Owns, Plug(o[1], o[2]), NEW t \in DOMAIN taps'
        PROVE  \/ t \in DOMAIN taps /\ taps'[t].idx = taps[t].idx
               \/ /\ t \notin DOMAIN taps /\ taps'[t].idx = churn + 1
                  /\ \A u \in DOMAIN taps' : u = t \/ u \in DOMAIN taps
    BY Zenon, <2>1 DEF Plug, Put
  <2>2. ASSUME NEW o \in Owns, Readdress(o[1], o[2]), NEW t \in DOMAIN taps'
        PROVE  t \in DOMAIN taps /\ taps'[t].idx = taps[t].idx
    BY Zenon, <1>0, <2>2 DEF Readdress, TypeOK, Dev
  <2>3. ASSUME NEW u \in Tap, Unplug(u), NEW t \in DOMAIN taps'
        PROVE  t \in DOMAIN taps /\ taps'[t].idx = taps[t].idx
    <3>1. taps' = Drop(taps, u)
      BY Zenon, <2>3 DEF Unplug
    <3>2. /\ DOMAIN Drop(taps, u) = DOMAIN taps \ {u}
          /\ \A m \in DOMAIN taps \ {u} : Drop(taps, u)[m] = taps[m]
      BY Zenon, DropLemma
    <3> QED
      BY Zenon, <2>3, <3>1, <3>2
  <2> QED
    BY Zenon, <2>1, <2>2, <2>3 DEF World
<1>3. /\ \A t \in DOMAIN taps : taps[t].idx \in Nat
      /\ \A n \in DOMAIN attached : attached[n].idx \in Nat
      /\ Building => cur.idx \in Nat
  BY <1>0, TapWatchAssumption DEF TypeOK, Dev, Attachment, Idx, Core, Distinct
<1>4. Distinct'
  BY <1>0, <1>2, <1>3 DEF Core, Distinct, Building
<1> QED
  BY Zenon, <1>1, <1>4 DEF Core

\* The stages in which nothing is half done.
Settled == {"free", "attach", "sweep"}

\* Steps that do no work on an attachment: they keep the stage, or neither stage has one.
LEMMA QuietStage ==
    ASSUME SafeInv,
           \/ Discover \/ DiscoverFails \/ Lock \/ Sweep \/ WatcherReturns \/ Signal \/ CloseAll
           \/ \E p \in todo : Known(p) \/ LookupFails(p)
           \/ \E w \in Who : Unlock(w)
    PROVE  Stage # "exited" /\ (Stage' = Stage \/ (Stage \in Settled /\ Stage' \in Settled))
<1>1. TypeOK /\ Control
  BY Zenon DEF SafeInv
<1>2. CASE Discover \/ DiscoverFails \/ WatcherReturns \/ Signal
  BY Zenon, <1>1, <1>2 DEF TypeOK, Control, Stage, Who, Steps, At, Goto, Discover, DiscoverFails,
         WatcherReturns, Signal
<1>3. CASE Lock \/ Sweep \/ CloseAll
  BY Zenon, <1>1, <1>3 DEF TypeOK, Control, Stage, Settled, Who, Steps, At, Goto, Lock, Sweep, CloseAll
<1>4. CASE \E p \in todo : Known(p) \/ LookupFails(p)
  BY Zenon, <1>1, <1>4 DEF TypeOK, Control, Stage, Who, Steps, At, Known, LookupFails
<1>5. ASSUME NEW w \in Who, Unlock(w)
      PROVE  Stage # "exited" /\ Stage \in Settled /\ Stage' \in Settled
  BY Zenon, <1>1, <1>5 DEF TypeOK, Control, Stage, Settled, Who, Steps, At, Goto, Unlock
<1> QED
  BY Zenon, <1>2, <1>3, <1>4, <1>5

\* They forget the port that was worked on only where no work is done on it.
LEMMA QuietCur ==
    ASSUME SafeInv,
           \/ Discover \/ DiscoverFails \/ Lock \/ Sweep \/ WatcherReturns \/ Signal \/ CloseAll
           \/ \E p \in todo : Known(p) \/ LookupFails(p)
           \/ \E w \in Who : Unlock(w)
    PROVE  cur' = cur \/ Stage' \in Settled
<1>1. CASE Sweep
  <2>1. TypeOK /\ Control /\ pc["watcher"] = "attach" /\ lock' = lock
        /\ pc' = [pc EXCEPT !["watcher"] = "sweep"]
    BY Zenon, <1>1 DEF SafeInv, Sweep, At, Goto
  <2>2. lock = "watcher" /\ pc["main"] # "exited"
    BY Zenon, <2>1, StageLemma DEF Who
  <2>3. pc'["watcher"] = "sweep" /\ pc'["main"] = pc["main"]
    BY Zenon, <2>1 DEF TypeOK, Who
  <2> QED
    BY Zenon, <2>1, <2>2, <2>3 DEF Stage, Settled
<1>2. CASE ~Sweep
  BY Zenon, <1>2 DEF Discover, DiscoverFails, Lock, WatcherReturns, Signal, CloseAll, Known,
         LookupFails, Unlock
<1> QED
  BY Zenon, <1>1, <1>2

\* Between these stages the steps that leave the kernel and the table alone keep all.
LEMMA QuietCore ==
    ASSUME SafeInv, Stage # "exited", Stage' = Stage \/ (Stage \in Settled /\ Stage' \in Settled),
           cur' = cur \/ Stage' \in Settled,
           UNCHANGED <<taps, churn, hooked, socks, local, attached, gone, left, stranded, stuck>>
    PROVE  Core'
<1>1. Core
  BY Zenon DEF SafeInv
<1>2. Distinct'
  BY Zenon, <1>1 DEF Core, Distinct, Building, Names, Settled
<1>3. Table'
  BY Zenon, <1>1 DEF Core, Table, Unmaking, Answers, Names, Settled
<1>4. Sockets'
  BY Zenon, <1>1 DEF Core, Sockets, Serving, Answers, Names, Settled
<1>5. Programs'
  BY Zenon, <1>1 DEF Core, Programs, Hooking, Hooked, Unmaking, Names, Settled
<1>6. Addresses'
  BY Zenon, <1>1 DEF Core, Addresses, Serving, Names, Settled
<1> QED
  BY Zenon, <1>2, <1>3, <1>4, <1>5, <1>6 DEF Core

-----------------------------------------------------------------------------
(* The steps of an attachment and of its undoing.                          *)

\* What recording an attachment of cur does to the invariant.
LEMMA RecordCore ==
    ASSUME SafeInv, TypeOK', Control', NEW att \in Attachment, Record(att),
           Stage \in {"hook", "socket", "put"}, UNCHANGED <<taps, churn, lock, cur, stuck>>,
           hooked' \subseteq hooked \cup {cur.idx},
           att.idx = cur.idx, \A s \in att.resp : s = Answers(cur),
           att.ips # {} => att.ips = cur.ips /\ Answers(cur) \in att.resp,
           \A s \in Dev : s \in socks' <=> (\E n \in Names(attached) : s \in attached[n].resp) \/ s \in att.resp,
           \A ip \in local' : \/ ip \in Static \cup stranded'
                              \/ \E n \in Names(attached) : ip \in attached[n].ips
                              \/ ip \in att.ips
    PROVE  Core'
<1> USE DEF Names
<1>0. TypeOK /\ Control /\ Core
  BY Zenon DEF SafeInv
<1>1. attached' = Put(attached, cur.name, att) /\ pc' = [pc EXCEPT !["watcher"] = "attach"]
  BY Zenon DEF Record, Goto
<1>2. Stage' = "attach"
  <2>1. lock = "watcher" /\ pc["main"] # "exited"
    BY Zenon, <1>0 DEF Stage, Control, TypeOK, Who
  <2>2. pc'["watcher"] = "attach" /\ pc'["main"] = pc["main"]
    BY Zenon, <1>0, <1>1 DEF TypeOK, Who
  <2> QED
    BY Zenon, <2>1, <2>2 DEF Stage
<1>3. /\ DOMAIN attached' = DOMAIN attached \cup {cur.name} /\ attached'[cur.name] = att
      /\ \A n \in DOMAIN attached : attached'[n] = attached[n] /\ n # cur.name
      /\ cur.name \notin DOMAIN attached
  BY Zenon, <1>0, <1>1 DEF Put, Core, Distinct, Building
<1>4. Distinct'
  BY <1>0, <1>2, <1>3 DEF Core, Distinct, Building
<1>5. Table'
  <2>1. /\ \A s \in att.resp : s.idx = att.idx
        /\ att.ips # {} => Answers(att) \in att.resp
    BY DEF Answers
  <2>2. ASSUME NEW n \in DOMAIN attached'
        PROVE  /\ \A s \in attached'[n].resp : s.idx = attached'[n].idx
               /\ attached'[n].ips # {} => Answers(attached'[n]) \in attached'[n].resp
    <3>1. CASE n = cur.name
      BY Zenon, <1>3, <2>1, <3>1
    <3>2. CASE n \in DOMAIN attached
      BY <1>0, <1>3, <3>2 DEF Core, Table
    <3> QED
      BY Zenon, <1>3, <3>1, <3>2
  <2>3. ~Unmaking' /\ Stage' # "put" /\ Stage' # "del"
    BY Zenon, <1>2 DEF Unmaking
  <2> QED
    BY Zenon, <2>2, <2>3 DEF Table, Answers
<1>6. Programs'
  BY <1>0, <1>2, <1>3 DEF Core, Programs, Hooking, Unmaking, Hooked
<1>7. Sockets'
  BY Zenon, <1>2, <1>3 DEF Sockets, Serving
<1>8. Addresses'
  BY Zenon, <1>2, <1>3 DEF Addresses, Serving
<1> QED
  BY Zenon, <1>4, <1>5, <1>6, <1>7, <1>8 DEF Core

\* InterfaceByName gives a device whose name, and whose ifindex, is not in the table.
LEMMA LookupCore ==
    ASSUME SafeInv, TypeOK', NEW p \in todo, Lookup(p)
    PROVE  Core'
<1> USE DEF Names
<1>0. TypeOK /\ Control /\ p \in Port /\ At("watcher", "attach")
  BY Zenon DEF SafeInv, TypeOK, Lookup
<1>1. Stage = "attach" /\ lock = "watcher" /\ pc["main"] # "exited"
  BY Zenon, <1>0, StageLemma DEF At, Who
<1>2. /\ Core /\ p.name \in DOMAIN taps /\ p.name \notin DOMAIN attached /\ p.name \in Tap
      /\ cur' = [name |-> p.name, ips |-> p.ips, idx |-> taps[p.name].idx]
      /\ UNCHANGED <<taps, churn, hooked, socks, local, attached, lock, gone, left, stranded, stuck>>
      /\ pc' = [pc EXCEPT !["watcher"] = "hook"]
  BY Zenon, <1>0, <1>1 DEF SafeInv, Lookup, env, Port, Goto
<1>3. cur'.name = p.name /\ cur'.idx = taps[p.name].idx /\ cur'.idx \in Idx
  BY Zenon, <1>0, <1>2 DEF TypeOK, Dev
<1>4. Stage' = "hook"
  BY Zenon, <1>0, <1>1, <1>2 DEF Stage, TypeOK, Who
<1>5. Distinct'
  BY Zenon, <1>1, <1>2, <1>3, <1>4 DEF Core, Distinct, Building
<1>6. Table'
  BY Zenon, <1>1, <1>2, <1>4 DEF Core, Table, Unmaking, Answers
<1>7. Sockets'
  BY Zenon, <1>1, <1>2, <1>4 DEF Core, Sockets, Serving
<1>8. Programs'
  BY Zenon, <1>1, <1>2, <1>4 DEF Core, Programs, Hooking, Hooked, Unmaking
<1>9. Addresses'
  BY Zenon, <1>1, <1>2, <1>4 DEF Core, Addresses, Serving
<1> QED
  BY Zenon, <1>5, <1>6, <1>7, <1>8, <1>9 DEF Core

\* The responder is opened before the addresses are put, and an address that was put is
\* recorded, or stranded when a later put fails.
LEMMA AttachCore ==
    ASSUME SafeInv, TypeOK', Control',
           \/ AttachFails \/ AttachIface \/ OpenSocket \/ OpenSocketFails
           \/ \E ip \in left : PutIp(ip) \/ PutIpFails(ip)
    PROVE  Core'
<1> USE DEF Names
<1>0. TypeOK /\ Control /\ pc["watcher"] \in {"hook", "socket", "put"}
  BY Zenon DEF SafeInv, AttachFails, AttachIface, OpenSocket, OpenSocketFails, PutIp, PutIpFails, At
<1>1. /\ Stage = pc["watcher"] /\ lock = "watcher" /\ pc["main"] # "exited" /\ Core
      /\ UNCHANGED <<taps, churn, lock, cur, gone>>
  BY Zenon, <1>0, StageLemma
     DEF SafeInv, Who, AttachFails, AttachIface, OpenSocket, OpenSocketFails, PutIp, PutIpFails, env
<1>2. cur \in [name : Tap, ips : SUBSET Ip, idx : Idx] /\ Answers(cur) \in Dev
  BY <1>0, <1>1, TapWatchAssumption DEF Core, Distinct, Building, TypeOK, NoPort, Answers, Dev
<1>9. CASE AttachFails
  <2>1. /\ UNCHANGED <<socks, local, attached, left, stranded>> /\ Stage = "hook"
        /\ pc' = [pc EXCEPT !["watcher"] = "attach"]
    BY Zenon, <1>1, <1>9 DEF AttachFails, Goto, At
  <2>2. \A i \in hooked' : i \in stuck' \/ (i \in hooked /\ i \notin stuck)
    BY Zenon, <1>9 DEF AttachFails
  <2>3. Stage' = "attach"
    BY Zenon, <1>0, <1>1, <2>1 DEF Stage, TypeOK, Who
  <2>4. Distinct' /\ Table'
    BY Zenon, <1>1, <2>1, <2>3 DEF Core, Distinct, Table, Building, Unmaking, Answers
  <2>5. Sockets' /\ Addresses'
    BY Zenon, <1>1, <2>1, <2>3 DEF Core, Sockets, Addresses, Serving
  <2>6. Programs'
    BY Zenon, <1>1, <2>1, <2>2, <2>3 DEF Core, Programs, Hooking, Hooked, Unmaking
  <2> QED
    BY Zenon, <2>4, <2>5, <2>6 DEF Core
<1>10. ASSUME AttachIface, cur.ips = {} PROVE Core'
  <2> DEFINE att == [idx |-> cur.idx, resp |-> {}, ips |-> {}]
  <2>1. att \in Attachment /\ att.idx = cur.idx /\ att.resp = {} /\ att.ips = {}
    BY Zenon, <1>2 DEF Attachment
  <2>2. /\ Record(att) /\ Stage = "hook" /\ UNCHANGED <<socks, local, stranded, stuck>>
        /\ hooked' \subseteq hooked \cup {cur.idx}
    BY Zenon, <1>1, <1>10 DEF AttachIface, At
  <2> HIDE DEF att
  <2>3. \A s \in Dev : s \in socks' <=> (\E n \in Names(attached) : s \in attached[n].resp) \/ s \in att.resp
    BY Zenon, <1>1, <2>1, <2>2 DEF Core, Sockets, Serving
  <2>4. \A ip \in local' : \/ ip \in Static \cup stranded'
                           \/ \E n \in Names(attached) : ip \in attached[n].ips
                           \/ ip \in att.ips
    BY Zenon, <1>1, <2>1, <2>2 DEF Core, Addresses, Serving
  <2> QED
    BY Zenon, <1>1, <2>1, <2>2, <2>3, <2>4, RecordCore
<1>11. ASSUME AttachIface, cur.ips # {} PROVE Core'
  <2>1. /\ UNCHANGED <<socks, local, attached, left, stranded, stuck>> /\ Stage = "hook"
        /\ pc' = [pc EXCEPT !["watcher"] = "socket"] /\ hooked' = hooked \cup {cur.idx}
    BY Zenon, <1>1, <1>11 DEF AttachIface, Goto, At
  <2>2. Stage' = "socket"
    BY Zenon, <1>0, <1>1, <2>1 DEF Stage, TypeOK, Who
  <2>3. Distinct' /\ Table'
    BY Zenon, <1>1, <2>1, <2>2 DEF Core, Distinct, Table, Building, Unmaking, Answers
  <2>4. Sockets' /\ Addresses'
    BY Zenon, <1>1, <2>1, <2>2 DEF Core, Sockets, Addresses, Serving
  <2>5. Programs'
    BY Zenon, <1>1, <2>1, <2>2 DEF Core, Programs, Hooking, Hooked, Unmaking
  <2> QED
    BY Zenon, <2>3, <2>4, <2>5 DEF Core
<1>3. CASE OpenSocket
  <2>1. /\ socks' = socks \cup {Answers(cur)} /\ left' = cur.ips /\ Stage = "socket"
        /\ pc' = [pc EXCEPT !["watcher"] = "put"] /\ UNCHANGED <<hooked, stuck, local, attached, stranded>>
    BY Zenon, <1>1, <1>3 DEF OpenSocket, Goto, At
  <2>2. Stage' = "put"
    BY Zenon, <1>0, <1>1, <2>1 DEF Stage, TypeOK, Who
  <2>3. Distinct' /\ Table' /\ Programs'
    BY Zenon, <1>1, <2>1, <2>2
       DEF Core, Distinct, Table, Programs, Hooking, Hooked, Building, Unmaking, Answers
  <2>4. Sockets'
    BY Zenon, <1>1, <1>2, <2>1, <2>2 DEF Core, Sockets, Serving, Answers
  <2>5. Addresses'
    BY Zenon, <1>1, <2>1, <2>2 DEF Core, Addresses, Serving
  <2> QED
    BY Zenon, <2>3, <2>4, <2>5 DEF Core
<1>4. CASE OpenSocketFails
  <2> DEFINE att == [idx |-> cur.idx, resp |-> {}, ips |-> {}]
  <2>1. att \in Attachment /\ att.idx = cur.idx /\ att.resp = {} /\ att.ips = {}
    BY Zenon, <1>2 DEF Attachment
  <2>2. Record(att) /\ Stage = "socket" /\ UNCHANGED <<socks, local, stranded, hooked, stuck>>
    BY Zenon, <1>1, <1>4 DEF OpenSocketFails, At
  <2> HIDE DEF att
  <2>3. \A s \in Dev : s \in socks' <=> (\E n \in Names(attached) : s \in attached[n].resp) \/ s \in att.resp
    BY Zenon, <1>1, <2>1, <2>2 DEF Core, Sockets, Serving
  <2>4. \A ip \in local' : \/ ip \in Static \cup stranded'
                           \/ \E n \in Names(attached) : ip \in attached[n].ips
                           \/ ip \in att.ips
    BY Zenon, <1>1, <2>1, <2>2 DEF Core, Addresses, Serving
  <2> QED
    BY Zenon, <1>1, <2>1, <2>2, <2>3, <2>4, RecordCore
<1>5. ASSUME NEW ip \in left, PutIp(ip), left' = {} PROVE Core'
  <2> DEFINE att == [idx |-> cur.idx, resp |-> {Answers(cur)}, ips |-> cur.ips]
  <2>1. att \in Attachment /\ att.idx = cur.idx /\ att.resp = {Answers(cur)} /\ att.ips = cur.ips
    BY Zenon, <1>2 DEF Attachment
  <2>2. /\ Record(att) /\ Stage = "put" /\ local' = local \cup {ip} /\ left = {ip}
        /\ UNCHANGED <<socks, stranded, hooked, stuck>>
    BY Zenon, <1>1, <1>5 DEF PutIp, At
  <2> HIDE DEF att
  <2>3. \A s \in Dev : s \in socks' <=> (\E n \in Names(attached) : s \in attached[n].resp) \/ s \in att.resp
    BY Zenon, <1>1, <2>1, <2>2 DEF Core, Sockets, Serving
  <2>4. \A a \in local' : \/ a \in Static \cup stranded'
                          \/ \E n \in Names(attached) : a \in attached[n].ips
                          \/ a \in att.ips
    BY Zenon, <1>1, <2>1, <2>2 DEF Core, Addresses, Serving, Table
  <2> QED
    BY Zenon, <1>1, <2>1, <2>2, <2>3, <2>4, RecordCore
<1>6. ASSUME NEW ip \in left, PutIp(ip), left' # {} PROVE Core'
  <2>1. /\ UNCHANGED <<attached, pc, socks, stranded, hooked, stuck>> /\ Stage = "put" /\ left' = left \ {ip}
        /\ local' = local \cup {ip}
    BY Zenon, <1>1, <1>6 DEF PutIp, At
  <2>2. Stage' = "put"
    BY Zenon, <1>1, <2>1 DEF Stage
  <2>3. Distinct' /\ Table' /\ Programs' /\ Sockets'
    BY Zenon, <1>1, <2>1, <2>2 DEF Core, Distinct, Table, Programs, Sockets, Serving, Hooking, Hooked,
           Building, Unmaking, Answers
  <2>4. Addresses'
    BY Zenon, <1>1, <2>1, <2>2 DEF Core, Addresses, Serving, Table
  <2> QED
    BY Zenon, <2>3, <2>4 DEF Core
<1>7. ASSUME NEW ip \in left, PutIpFails(ip) PROVE Core'
  <2> DEFINE att == [idx |-> cur.idx, resp |-> {Answers(cur)}, ips |-> {}]
  <2>1. att \in Attachment /\ att.idx = cur.idx /\ att.resp = {Answers(cur)} /\ att.ips = {}
    BY Zenon, <1>2 DEF Attachment
  <2>2. /\ Record(att) /\ Stage = "put" /\ stranded' = stranded \cup (cur.ips \ left)
        /\ UNCHANGED <<socks, local, hooked, stuck>>
    BY Zenon, <1>1, <1>7 DEF PutIpFails, At
  <2> HIDE DEF att
  <2>3. \A s \in Dev : s \in socks' <=> (\E n \in Names(attached) : s \in attached[n].resp) \/ s \in att.resp
    BY Zenon, <1>1, <2>1, <2>2 DEF Core, Sockets, Serving
  <2>4. \A a \in local' : \/ a \in Static \cup stranded'
                          \/ \E n \in Names(attached) : a \in attached[n].ips
                          \/ a \in att.ips
    BY Zenon, <1>1, <2>1, <2>2 DEF Core, Addresses, Serving
  <2> QED
    BY Zenon, <1>1, <2>1, <2>2, <2>3, <2>4, RecordCore
<1> QED
  BY Zenon, <1>3, <1>4, <1>5, <1>6, <1>7, <1>9, <1>10, <1>11

\* detachLocked undoes one attachment, in the order programs, responder, addresses, entry;
\* no other attachment has its ifindex, so it closes no other's responder.
LEMMA DetachCore ==
    ASSUME SafeInv, TypeOK', NEW w \in Who,
           \/ \E n \in Names(attached) : Detach(w, n)
           \/ CloseSocket(w)
           \/ \E ip \in left : DelIp(w, ip) \/ DelIpFails(w, ip)
           \/ Forget(w)
    PROVE  Core'
<1> USE DEF Names
<1>0. /\ TypeOK /\ Control /\ lock = w /\ pc[w] \in {"sweep", "close", "del", "forget"}
      /\ UNCHANGED <<taps, churn, lock, cur>>
  BY Zenon DEF SafeInv, Detach, CloseSocket, DelIp, DelIpFails, Forget, At, env
<1>1. Stage = pc[w] /\ pc["main"] # "exited"
  BY Zenon, <1>0, StageLemma
<1>2. Core /\ (Stage # "sweep" => gone \in DOMAIN attached)
  BY Zenon, <1>0, <1>1 DEF SafeInv, Core, Table, Unmaking
<1>3. ASSUME NEW s \in {"sweep", "close", "del", "forget"}, Goto(w, s) PROVE Stage' = s
  <2>1. pc'[w] = s
    BY Zenon, <1>0, <1>3 DEF TypeOK, Goto
  <2>2. pc'["main"] # "exited"
    BY Zenon, <1>0, <1>1, <1>3 DEF TypeOK, Goto, Who
  <2>3. lock' # "free" /\ lock' = w
    BY Zenon, <1>0 DEF Who
  <2> QED
    BY Zenon, <2>1, <2>2, <2>3 DEF Stage
<1>4. ASSUME NEW n \in DOMAIN attached, Detach(w, n) PROVE Core'
  <2>1. /\ gone' = n /\ Goto(w, "close") /\ Stage = "sweep"
        /\ UNCHANGED <<socks, local, attached, left, stranded>>
    BY Zenon, <1>1, <1>4 DEF Detach, At
  <2>6. \A i \in hooked' : i \in stuck' \/ (i \in hooked /\ i \notin stuck /\ i # attached[n].idx)
    BY Zenon, <1>4 DEF Detach
  <2>2. Stage' = "close"
    BY Zenon, <1>3, <2>1
  <2>3. Distinct' /\ Table'
    BY Zenon, <1>0, <1>2, <2>1, <2>2 DEF Core, Distinct, Table, Building, Unmaking, Answers
  <2>4. Sockets' /\ Addresses'
    BY Zenon, <1>0, <1>2, <2>1, <2>2 DEF Core, Sockets, Addresses, Serving
  <2>5. Programs'
    BY Zenon, <1>0, <1>2, <2>1, <2>2, <2>6 DEF Core, Programs, Hooking, Hooked, Unmaking
  <2> QED
    BY Zenon, <2>3, <2>4, <2>5 DEF Core
<1>5. CASE CloseSocket(w)
  <2> DEFINE next == IF attached[gone].ips = {} THEN "forget" ELSE "del"
  <2>1. /\ socks' = socks \ attached[gone].resp /\ left' = attached[gone].ips /\ Goto(w, next)
        /\ Stage = "close" /\ UNCHANGED <<hooked, local, attached, gone, stranded, stuck>>
    BY Zenon, <1>1, <1>5 DEF CloseSocket, At
  <2>2. next \in {"del", "forget"} /\ (next = "forget" => attached[gone].ips = {})
    OBVIOUS
  <2> HIDE DEF next
  <2>3. Stage' = next
    BY <1>3, <2>1, <2>2
  <2>4. Distinct' /\ Table' /\ Programs'
    <3>1. Distinct'
      BY Zenon, <1>0, <1>2, <2>1, <2>2, <2>3 DEF Core, Distinct, Building
    <3>2. Table'
      BY Zenon, <1>0, <1>2, <2>1, <2>2, <2>3 DEF Core, Table, Unmaking, Answers
    <3>3. Programs'
      BY Zenon, <1>2, <2>1, <2>2, <2>3 DEF Core, Programs, Hooking, Hooked, Unmaking
    <3> QED
      BY Zenon, <3>1, <3>2, <3>3
  <2>5. Sockets'
    <3>1. \A n \in DOMAIN attached : \A s \in attached[n].resp :
             s \in attached[gone].resp => n = gone
      <4>1. gone \in DOMAIN attached
        BY Zenon, <1>2, <2>1
      <4>2. \A n \in DOMAIN attached : \A s \in attached[n].resp : s.idx = attached[n].idx
        BY Zenon, <1>2 DEF Core, Table
      <4>3. \A m, n \in DOMAIN attached : attached[m].idx = attached[n].idx => m = n
        BY Zenon, <1>2 DEF Core, Distinct
      <4>4. ASSUME NEW n \in DOMAIN attached, NEW s \in attached[n].resp, s \in attached[gone].resp
            PROVE  n = gone
        <5>1. s.idx = attached[n].idx /\ s.idx = attached[gone].idx
          BY Zenon, <4>1, <4>2, <4>4
        <5> QED
          BY Zenon, <4>1, <4>3, <5>1
      <4> QED
        BY Zenon, <4>4
    <3> QED
      BY Zenon, <1>0, <1>2, <2>1, <2>2, <2>3, <3>1 DEF Core, Sockets, Serving
  <2>6. Addresses'
    BY Zenon, <1>0, <1>2, <2>1, <2>2, <2>3 DEF Core, Addresses, Serving
  <2> QED
    BY Zenon, <2>4, <2>5, <2>6 DEF Core
<1>6. ASSUME NEW ip \in left, DelIp(w, ip) \/ DelIpFails(w, ip) PROVE Core'
  <2> DEFINE next == IF left' = {} THEN "forget" ELSE "del"
  <2>1. /\ left' = left \ {ip} /\ Goto(w, next) /\ Stage = "del"
        /\ UNCHANGED <<hooked, socks, attached, gone, stuck>>
    BY Zenon, <1>1, <1>6 DEF DelIp, DelIpFails, At
  <2>9. /\ local' \subseteq local /\ stranded \subseteq stranded'
        /\ ip \in local' => ip \in stranded'
    BY Zenon, <1>6 DEF DelIp, DelIpFails
  <2>2. next \in {"del", "forget"} /\ (next = "forget" => left' = {})
    OBVIOUS
  <2> HIDE DEF next
  <2>3. Stage' = next
    BY <1>3, <2>1, <2>2
  <2>4. Distinct'
    BY Zenon, <1>0, <1>2, <2>1, <2>2, <2>3 DEF Core, Distinct, Building
  <2>5. Table'
    BY Zenon, <1>0, <1>2, <2>1, <2>2, <2>3 DEF Core, Table, Unmaking, Answers
  <2>6. Programs'
    BY Zenon, <1>2, <2>1, <2>2, <2>3 DEF Core, Programs, Hooking, Hooked, Unmaking
  <2>7. Sockets'
    BY Zenon, <1>2, <2>1, <2>2, <2>3 DEF Core, Sockets, Serving
  <2>8. Addresses'
    BY Zenon, <1>0, <1>2, <2>1, <2>2, <2>3, <2>9 DEF Core, Addresses, Serving
  <2> QED
    BY Zenon, <2>4, <2>5, <2>6, <2>7, <2>8 DEF Core
<1>7. CASE Forget(w)
  <2>1. /\ attached' = Drop(attached, gone) /\ Goto(w, "sweep") /\ Stage = "forget"
        /\ UNCHANGED <<hooked, socks, local, left, stranded, stuck>>
    BY Zenon, <1>1, <1>7 DEF Forget, At
  <2>2. Stage' = "sweep"
    BY Zenon, <1>3, <2>1
  <2>3. /\ DOMAIN attached' = DOMAIN attached \ {gone}
        /\ \A n \in DOMAIN attached' : attached'[n] = attached[n]
    BY Zenon, <2>1, DropLemma
  <2>4. Distinct'
    <3>1. ~Building'
      BY Zenon, <2>2 DEF Building
    <3>2. \A n \in DOMAIN attached' : n \in DOMAIN attached /\ attached'[n].idx = attached[n].idx
      BY Zenon, <2>3
    <3>3. taps' = taps /\ churn' = churn /\ Distinct
      BY Zenon, <1>0, <1>2 DEF Core
    <3> QED
      BY <3>1, <3>2, <3>3 DEF Distinct
  <2>5. Table'
    <3>1. ASSUME NEW n \in DOMAIN attached'
          PROVE  /\ \A s \in attached'[n].resp : s.idx = attached'[n].idx
                 /\ attached'[n].ips # {} => Answers(attached'[n]) \in attached'[n].resp
      <4>1. n \in DOMAIN attached /\ attached'[n] = attached[n]
        BY Zenon, <2>3
      <4> QED
        BY <1>2, <4>1 DEF Core, Table
    <3>2. ~Unmaking' /\ Stage' # "put" /\ Stage' # "del"
      BY Zenon, <2>2 DEF Unmaking
    <3> QED
      BY Zenon, <3>1, <3>2 DEF Table, Answers
  <2>6. Sockets'
    BY Zenon, <1>0, <1>2, <2>1, <2>2, <2>3 DEF Core, Sockets, Serving
  <2>7. Addresses'
    BY Zenon, <1>0, <1>2, <2>1, <2>2, <2>3 DEF Core, Addresses, Serving
  <2>8. Programs'
    <3>1. ~Hooked /\ Hooking = DOMAIN attached' /\ Hooking' = DOMAIN attached'
      BY Zenon, <2>1, <2>2, <2>3 DEF Hooking, Hooked, Unmaking
    <3>2. ASSUME NEW i \in hooked', i \notin stuck' PROVE \E n \in Hooking' : i = attached'[n].idx
      <4>1. PICK n \in Hooking : i = attached[n].idx
        BY <1>2, <2>1, <3>1, <3>2 DEF Core, Programs
      <4> QED
        BY Zenon, <2>3, <3>1, <4>1
    <3> QED
      BY Zenon, <3>2 DEF Programs
  <2> QED
    BY Zenon, <2>4, <2>5, <2>6, <2>7, <2>8 DEF Core
<1> QED
  BY Zenon, <1>4, <1>5, <1>6, <1>7

\* At every step of every reconcile, of closeAll, and of the taps.
LEMMA SafeInvariant == Spec => []SafeInv
<1>1. Init => SafeInv
  <2> SUFFICES ASSUME Init PROVE SafeInv
    OBVIOUS
  <2>1. pc["main"] = "run" /\ pc["watcher"] = "idle" /\ pc \in [Who -> Steps]
    BY DEF Init, Who, Steps
  <2>2. TypeOK /\ Control
    <3>1. TypeOK
      <4>1. /\ Names(taps) \subseteq Tap /\ taps \in [Names(taps) -> Dev]
            /\ Names(attached) \subseteq Tap /\ attached \in [Names(attached) -> Attachment]
        BY DEF Init, Names
      <4>2. churn \in 0..MaxChurn /\ faults \in 0..MaxFaults /\ local \subseteq Ip
        BY TapWatchAssumption DEF Init
      <4> QED
        BY Zenon, <2>1, <4>1, <4>2 DEF Init, TypeOK
    <3>2. Control
      BY Zenon, <2>1 DEF Init, Control
    <3> QED
      BY Zenon, <3>1, <3>2
  <2>3. Stage = "free"
    BY Zenon, <2>1 DEF Init, Stage
  <2>4. Core
    BY <2>3 DEF Init, Core, Distinct, Table, Sockets, Programs, Addresses, Serving, Hooking,
           Building, Unmaking, Names
  <2> QED
    BY Zenon, <2>2, <2>4 DEF SafeInv
<1>2. SafeInv /\ [Next]_vars => SafeInv'
  <2> SUFFICES ASSUME SafeInv, [Next]_vars PROVE SafeInv'
    OBVIOUS
  <2>1. CASE World
    BY Zenon, <2>1, WorldTypes, WorldCore DEF SafeInv
  <2>7. CASE \E p \in todo : Lookup(p)
    BY Zenon, <2>7, LookupTypes, LookupCore DEF SafeInv
  <2>2. CASE \/ AttachFails \/ AttachIface \/ OpenSocket \/ OpenSocketFails
             \/ \E ip \in left : PutIp(ip) \/ PutIpFails(ip)
    BY Zenon, <2>2, AttachTypes, AttachCore DEF SafeInv
  <2>3. ASSUME NEW w \in Who,
               \/ \E n \in Names(attached) : Detach(w, n)
               \/ CloseSocket(w)
               \/ \E ip \in left : DelIp(w, ip) \/ DelIpFails(w, ip)
               \/ Forget(w)
        PROVE  SafeInv'
    BY Zenon, <2>3, DetachTypes, DetachCore DEF SafeInv
  <2>4. CASE Exit
    <3>1. pc'["main"] = "exited"
      BY Zenon, <2>4 DEF Exit, Who
    <3> QED
      BY Zenon, <2>4, <3>1, DetachTypes DEF SafeInv, Stage
  <2>5. CASE \/ Discover \/ DiscoverFails \/ Lock \/ Sweep \/ WatcherReturns \/ Signal \/ CloseAll
             \/ \E p \in todo : Known(p) \/ LookupFails(p)
             \/ \E w \in Who : Unlock(w)
    <3>1. TypeOK /\ Control /\ TypeOK' /\ Control'
      BY Zenon, <2>5, QuietTypes DEF SafeInv
    <3>2. UNCHANGED <<taps, churn, hooked, socks, local, attached, gone, left, stranded, stuck>>
      BY Zenon, <2>5 DEF Discover, DiscoverFails, Lock, Sweep, WatcherReturns, Signal, CloseAll, Known,
             LookupFails, Unlock, env
    <3>3. Stage # "exited" /\ (Stage' = Stage \/ (Stage \in Settled /\ Stage' \in Settled))
      BY Zenon, <2>5, QuietStage
    <3>4. cur' = cur \/ Stage' \in Settled
      BY Zenon, <2>5, QuietCur
    <3> QED
      BY Zenon, <3>1, <3>2, <3>3, <3>4, QuietCore DEF SafeInv
  <2>6. CASE UNCHANGED vars
    <3>1. /\ UNCHANGED <<taps, churn, hooked, socks, local, attached, gone, left, stranded, stuck>>
          /\ UNCHANGED <<lock, pc, todo, seen, faults, cur>>
      BY Zenon, <2>6 DEF vars
    <3>2. TypeOK' /\ Control' /\ Stage' = Stage
      BY Zenon, <3>1 DEF SafeInv, TypeOK, Control, Stage, Names
    <3> QED
      BY Zenon, <3>1, <3>2, QuietCore DEF SafeInv
  <2> QED
    BY Zenon, <2>1, <2>2, <2>3, <2>4, <2>5, <2>6, <2>7
       DEF Next, Watcher, Main, Attaching, Detaching, Who
<1> QED
  BY <1>1, <1>2, PTL DEF Spec

-----------------------------------------------------------------------------
(* The properties.                                                         *)

\* Every variable keeps its type.
THEOREM TypeCorrect == Spec => []TypeOK
<1>1. SafeInv => TypeOK
  BY Zenon DEF SafeInv
<1> QED
  BY <1>1, SafeInvariant, PTL

\* "removed on detach": between two reconciles every address in local_ips is static, an
\* attachment's, or was left there by an addLocalIPs or a delLocalIPs that failed.
THEOREM AddressesAccounted == Spec => []RegisteredAttached
<1>1. SafeInv => RegisteredAttached
  <2> SUFFICES ASSUME SafeInv, Quiet, NEW ip \in local
               PROVE  ip \in Static \cup stranded
                              \cup UNION {attached[n].ips : n \in Names(attached)}
    BY Zenon DEF RegisteredAttached
  <2>1. Stage = "free" /\ Core
    BY Zenon DEF SafeInv, Quiet, At, Stage
  <2> QED
    BY Zenon, <2>1 DEF Core, Addresses, Serving
<1> QED
  BY <1>1, SafeInvariant, PTL

\* Between two reconciles the open responders are those of the table, and programs sit
\* only on devices in the table, or where a filter could not be removed.
THEOREM NothingOrphaned == Spec => []NoOrphans
<1>1. SafeInv => NoOrphans
  <2> SUFFICES ASSUME SafeInv, Quiet
               PROVE  /\ socks = UNION {attached[n].resp : n \in Names(attached)}
                      /\ hooked \subseteq stuck \cup {attached[n].idx : n \in Names(attached)}
    BY Zenon DEF NoOrphans
  <2>1. Stage = "free" /\ Core /\ TypeOK
    BY Zenon DEF SafeInv, Quiet, At, Stage
  <2>2. socks \subseteq Dev /\ \A n \in Names(attached) : attached[n].resp \subseteq Dev
    BY Zenon, <2>1 DEF TypeOK, Attachment, Names
  <2>3. socks = UNION {attached[n].resp : n \in Names(attached)}
    BY Zenon, <2>1, <2>2 DEF Core, Sockets, Serving
  <2>4. hooked \subseteq stuck \cup {attached[n].idx : n \in Names(attached)}
    BY Zenon, <2>1 DEF Core, Programs, Hooking, Unmaking, Hooked
  <2> QED
    BY Zenon, <2>3, <2>4
<1> QED
  BY <1>1, SafeInvariant, PTL

\* "only now that a responder is ready to answer": outside a detach, at any step of an
\* attach, a registered address that is neither static nor stranded is being answered for.
THEOREM RegisteredAreServed == Spec => []RegisteredIsServed
<1>1. SafeInv => RegisteredIsServed
  <2> SUFFICES ASSUME SafeInv, ~Undoing, ~At("main", "exited"),
                      NEW ip \in local, ip \notin Static \cup stranded
               PROVE  \E s \in socks : ip \in s.ips
    BY Zenon DEF RegisteredIsServed, Served
  <2>1. Core /\ TypeOK /\ Control /\ Stage # "exited"
    BY Zenon DEF SafeInv, Stage, At, Control, TypeOK, Who
  <2>2. Stage \notin {"close", "del", "forget"}
    BY Zenon, <2>1 DEF Undoing, Stage, TypeOK, Who
  <2>3. ASSUME NEW n \in Names(attached), ip \in attached[n].ips
        PROVE  \E s \in socks : ip \in s.ips
    <3>1. Answers(attached[n]) \in attached[n].resp /\ ip \in Answers(attached[n]).ips
      BY Zenon, <2>1, <2>3 DEF Core, Table, Answers
    <3>2. attached[n].resp \subseteq Dev
      BY Zenon, <2>1 DEF TypeOK, Attachment, Names
    <3> QED
      BY Zenon, <2>1, <2>2, <3>1, <3>2 DEF Core, Sockets, Serving
  <2>4. CASE Stage = "put" /\ ip \in cur.ips
    <3>1. Answers(cur) \in Dev /\ ip \in Answers(cur).ips
      BY <2>1, <2>4, TapWatchAssumption DEF Core, Distinct, Building, TypeOK, NoPort, Answers, Dev
    <3> QED
      BY Zenon, <2>1, <2>4, <3>1 DEF Core, Sockets
  <2> QED
    BY Zenon, <2>1, <2>2, <2>3, <2>4 DEF Core, Addresses, Serving
<1> QED
  BY <1>1, SafeInvariant, PTL

-----------------------------------------------------------------------------
(* Addresses that never move.                                              *)

Mine(t, ips) == \A ip \in ips : \E o \in Owns : o[1] = t /\ ip \in o[2]

\* Everyone deals in the addresses of the tap at hand, and what was put and not deleted
\* is there.
Kept ==
    /\ \A t \in Names(taps) : Mine(t, taps[t].ips)
    /\ \A p \in todo : Mine(p.name, p.ips)
    /\ \A n \in Names(attached) : Mine(n, attached[n].ips)
    /\ Building => Mine(cur.name, cur.ips)
    /\ Static \subseteq local
    /\ \A n \in Serving : attached[n].ips \subseteq local
    /\ Stage = "put" => cur.ips \ left \subseteq local

KeptInv == Stage # "exited" => Kept

\* The watcher moves to another stage.
LEMMA MoveLemma ==
    ASSUME TypeOK, Control, NEW w \in Who, lock = w, lock' = lock, NEW s \in Steps, s # "exited",
           pc[w] # "exited", Goto(w, s)
    PROVE  Stage = pc[w] /\ Stage' = s /\ pc["main"] # "exited"
<1>1. Stage = pc[w] /\ pc["main"] # "exited"
  BY Zenon, StageLemma
<1>2. pc'[w] = s /\ pc'["main"] # "exited"
  BY Zenon, <1>1 DEF TypeOK, Goto, Who
<1>3. lock' # "free" /\ lock' = w
  BY Zenon DEF Who
<1> QED
  BY Zenon, <1>1, <1>2, <1>3 DEF Stage

\* A plugged or readdressed tap gets addresses of its own.
LEMMA WorldKept == SafeInv /\ KeptInv /\ World => KeptInv'
<1> SUFFICES ASSUME SafeInv, World, Stage # "exited", Kept PROVE Kept'
  BY Zenon DEF World, Plug, Unplug, Readdress, Stage, KeptInv
<1> USE DEF Names
<1>1. UNCHANGED <<local, attached, lock, pc, todo, cur, gone, left>> /\ TypeOK
  BY Zenon DEF SafeInv, World, Plug, Unplug, Readdress
<1>2. Stage' = Stage
  BY Zenon, <1>1 DEF Stage
<1>3. \A t \in DOMAIN taps' : Mine(t, taps'[t].ips)
  <2>1. ASSUME NEW o \in Owns, Plug(o[1], o[2]) PROVE \A t \in DOMAIN taps' : Mine(t, taps'[t].ips)
    <3>1. \A t \in DOMAIN taps' : \/ t = o[1] /\ taps'[t].ips = o[2]
                                  \/ t \in DOMAIN taps /\ taps'[t] = taps[t]
      BY Zenon, <2>1 DEF Plug, Put
    <3> QED
      BY Zenon, <3>1 DEF Kept, Mine
  <2>2. ASSUME NEW o \in Owns, Readdress(o[1], o[2])
        PROVE  \A t \in DOMAIN taps' : Mine(t, taps'[t].ips)
    <3>1. \A t \in DOMAIN taps' : \/ t = o[1] /\ taps'[t].ips = o[2]
                                  \/ t \in DOMAIN taps /\ taps'[t] = taps[t]
      BY Zenon, <1>1, <2>2 DEF Readdress, TypeOK, Dev
    <3> QED
      BY Zenon, <3>1 DEF Kept, Mine
  <2>3. ASSUME NEW t \in Tap, Unplug(t) PROVE \A u \in DOMAIN taps' : Mine(u, taps'[u].ips)
    <3>1. \A u \in DOMAIN taps' : u \in DOMAIN taps /\ taps'[u] = taps[u]
      <4>1. taps' = Drop(taps, t)
        BY Zenon, <2>3 DEF Unplug
      <4>2. /\ DOMAIN Drop(taps, t) = DOMAIN taps \ {t}
            /\ \A m \in DOMAIN taps \ {t} : Drop(taps, t)[m] = taps[m]
        BY Zenon, DropLemma
      <4> QED
        BY Zenon, <4>1, <4>2
    <3> QED
      BY Zenon, <3>1 DEF Kept
  <2> QED
    BY Zenon, <2>1, <2>2, <2>3 DEF World
<1> QED
  BY Zenon, <1>1, <1>2, <1>3 DEF Kept, Building, Serving

\* The steps that leave the kernel and the table alone.
LEMMA QuietKept ==
    ASSUME Stage # "exited", Kept, Stage' = Stage \/ (Stage \in Settled /\ Stage' \in Settled),
           cur' = cur \/ Stage' \in Settled, UNCHANGED <<taps, local, attached, gone, left>>,
           \A p \in todo' : \/ p \in todo
                            \/ p.name \in Names(taps) /\ p.ips \subseteq taps[p.name].ips
    PROVE  Kept'
BY Zenon DEF Kept, Mine, Serving, Building, Names, Settled

\* An attachment is recorded with addresses that are in the map.
LEMMA RecordKept ==
    ASSUME SafeInv, Kept, NEW att, Record(att), Stage' = "attach", Stage \notin {"del", "forget"},
           Mine(cur'.name, att.ips), att.ips \subseteq local', local \subseteq local',
           UNCHANGED <<taps, todo>>
    PROVE  Kept'
<1>1. /\ DOMAIN attached' = DOMAIN attached \cup {cur'.name} /\ attached'[cur'.name] = att
      /\ \A n \in DOMAIN attached : n # cur'.name => attached'[n] = attached[n]
  BY Zenon DEF Record, Put
<1> QED
  BY Zenon, <1>1 DEF Kept, Serving, Building, Names

\* InterfaceByName.
LEMMA LookupKept ==
    ASSUME SafeInv, Stage # "exited" => Kept, NEW p \in todo, Lookup(p)
    PROVE  Kept'
<1>1. /\ cur' = [name |-> p.name, ips |-> p.ips, idx |-> taps[p.name].idx]
      /\ pc["watcher"] = "attach" /\ Goto("watcher", "hook") /\ todo' \subseteq todo
      /\ UNCHANGED <<taps, lock, local, attached, gone, left>> /\ TypeOK /\ Control
  BY Zenon DEF SafeInv, Lookup, At, env
<1>2. cur'.name = p.name /\ cur'.ips = p.ips
  BY Zenon, <1>1
<1>3. lock = "watcher"
  BY Zenon, <1>1, StageLemma
<1>4. Stage = "attach" /\ Stage' = "hook"
  BY Zenon, <1>1, <1>3, MoveLemma DEF Who, Steps
<1> QED
  BY Zenon, <1>1, <1>2, <1>4 DEF Kept, Serving, Building, Names

\* The calls of attachLocked that change the kernel or the table.
LEMMA AttachKept ==
    ASSUME SafeInv, Stage # "exited" => Kept,
           \/ AttachFails \/ AttachIface \/ OpenSocket \/ OpenSocketFails
           \/ \E ip \in left : PutIp(ip) \/ PutIpFails(ip)
    PROVE  Kept'
<1> USE DEF Names
<1>0. /\ TypeOK /\ Control /\ pc["watcher"] \in {"hook", "socket", "put"}
      /\ UNCHANGED <<taps, lock, gone, todo, cur>>
  BY Zenon DEF SafeInv, AttachFails, AttachIface, OpenSocket, OpenSocketFails, PutIp, PutIpFails, At, env
<1>1. /\ lock = "watcher" /\ pc["main"] # "exited" /\ Stage = pc["watcher"]
  BY Zenon, <1>0, StageLemma DEF Who
<1>2. Kept /\ Core
  BY Zenon, <1>0, <1>1 DEF SafeInv
<1>3. \A s \in {"attach", "hook", "socket", "put"} : Goto("watcher", s) => Stage' = s
  BY Zenon, <1>0, <1>1, MoveLemma DEF Who, Steps
<1>4. \A att : Record(att) => Stage' = "attach"
  BY Zenon, <1>3 DEF Record
<1>10. CASE AttachFails
  <2>1. UNCHANGED <<local, attached, left>> /\ Stage = "hook" /\ Goto("watcher", "attach")
    BY Zenon, <1>1, <1>10 DEF AttachFails, At
  <2>2. Stage' = "attach"
    BY Zenon, <1>3, <2>1
  <2> QED
    BY Zenon, <1>0, <1>2, <2>1, <2>2 DEF Kept, Serving, Building
<1>5. CASE AttachIface
  <2>1. UNCHANGED <<local, left>> /\ Stage = "hook"
    BY Zenon, <1>1, <1>5 DEF AttachIface, At
  <2>3. CASE cur.ips = {}
    <3> DEFINE att == [idx |-> cur.idx, resp |-> {}, ips |-> {}]
    <3>1. Record(att) /\ att.ips = {}
      BY Zenon, <1>5, <2>3 DEF AttachIface
    <3> HIDE DEF att
    <3>2. Mine(cur'.name, att.ips)
      BY Zenon, <3>1 DEF Mine
    <3> QED
      BY Zenon, <1>0, <1>2, <1>4, <2>1, <3>1, <3>2, RecordKept
  <2>4. CASE cur.ips # {}
    <3>1. Goto("watcher", "socket") /\ attached' = attached
      BY Zenon, <1>5, <2>4 DEF AttachIface
    <3>2. Stage' = "socket"
      BY Zenon, <1>3, <3>1
    <3> QED
      BY Zenon, <1>0, <1>2, <2>1, <3>1, <3>2 DEF Kept, Serving, Building
  <2> QED
    BY Zenon, <2>3, <2>4
<1>6. CASE OpenSocket
  <2>1. /\ UNCHANGED <<local, attached, cur>> /\ left' = cur.ips /\ Stage = "socket"
        /\ Goto("watcher", "put")
    BY Zenon, <1>1, <1>6 DEF OpenSocket, At
  <2>2. Stage' = "put"
    BY Zenon, <1>3, <2>1
  <2> QED
    BY Zenon, <1>0, <1>2, <2>1, <2>2 DEF Kept, Serving, Building
<1>7. CASE OpenSocketFails
  <2> DEFINE att == [idx |-> cur.idx, resp |-> {}, ips |-> {}]
  <2>1. Record(att) /\ att.ips = {} /\ local' = local /\ Stage = "socket"
    BY Zenon, <1>1, <1>7 DEF OpenSocketFails, At
  <2> HIDE DEF att
  <2>2. Mine(cur'.name, att.ips)
    BY Zenon, <2>1 DEF Mine
  <2> QED
    BY Zenon, <1>0, <1>2, <1>4, <2>1, <2>2, RecordKept
<1>8. ASSUME NEW ip \in left, PutIp(ip) PROVE Kept'
  <2>1. /\ local' = local \cup {ip} /\ left' = left \ {ip} /\ cur' = cur /\ Stage = "put"
    BY Zenon, <1>1, <1>8 DEF PutIp, At
  <2>2. CASE left' = {}
    <3> DEFINE att == [idx |-> cur.idx, resp |-> {Answers(cur)}, ips |-> cur.ips]
    <3>1. Record(att) /\ att.ips = cur.ips
      BY Zenon, <1>8, <2>2 DEF PutIp
    <3> HIDE DEF att
    <3>2. Mine(cur'.name, att.ips) /\ att.ips \subseteq local'
      BY Zenon, <1>2, <2>1, <2>2, <3>1 DEF Kept, Building
    <3> QED
      BY Zenon, <1>0, <1>2, <1>4, <2>1, <3>1, <3>2, RecordKept
  <2>3. CASE left' # {}
    <3>1. UNCHANGED <<attached, pc>>
      BY Zenon, <1>8, <2>3 DEF PutIp
    <3>2. Stage' = "put"
      BY Zenon, <1>0, <2>1, <3>1 DEF Stage
    <3> QED
      BY Zenon, <1>0, <1>2, <2>1, <3>1, <3>2 DEF Kept, Serving, Building
  <2> QED
    BY Zenon, <2>2, <2>3
<1>9. ASSUME NEW ip \in left, PutIpFails(ip) PROVE Kept'
  <2> DEFINE att == [idx |-> cur.idx, resp |-> {Answers(cur)}, ips |-> {}]
  <2>1. Record(att) /\ att.ips = {} /\ local' = local /\ Stage = "put"
    BY Zenon, <1>1, <1>9 DEF PutIpFails, At
  <2> HIDE DEF att
  <2>2. Mine(cur'.name, att.ips)
    BY Zenon, <2>1 DEF Mine
  <2> QED
    BY Zenon, <1>0, <1>2, <1>4, <2>1, <2>2, RecordKept
<1> QED
  BY Zenon, <1>5, <1>6, <1>7, <1>8, <1>9, <1>10

\* detachLocked deletes addresses of the attachment it removes: no other's, and not a
\* static one.
LEMMA DetachKept ==
    ASSUME Exclusive, SafeInv, Stage # "exited" => Kept, NEW w \in Who,
           \/ \E n \in Names(attached) : Detach(w, n)
           \/ CloseSocket(w)
           \/ \E ip \in left : DelIp(w, ip) \/ DelIpFails(w, ip)
           \/ Forget(w)
    PROVE  Kept'
<1> USE DEF Names
<1>0. /\ TypeOK /\ Control /\ lock = w /\ pc[w] \in {"sweep", "close", "del", "forget"}
      /\ UNCHANGED <<taps, lock, todo, cur>>
  BY Zenon DEF SafeInv, Detach, CloseSocket, DelIp, DelIpFails, Forget, At, env
<1>1. /\ Stage = pc[w] /\ Core /\ Kept
  BY Zenon, <1>0, StageLemma DEF SafeInv
<1>2. \A s \in {"sweep", "close", "del", "forget"} : Goto(w, s) => Stage' = s
  BY Zenon, <1>0, MoveLemma DEF Steps
<1>3. ASSUME NEW n \in DOMAIN attached, Detach(w, n) PROVE Kept'
  <2>1. Goto(w, "close") /\ Stage = "sweep" /\ UNCHANGED <<local, attached, left>>
    BY Zenon, <1>1, <1>3 DEF Detach, At
  <2>2. Stage' = "close"
    BY Zenon, <1>2, <2>1
  <2> QED
    BY Zenon, <1>0, <1>1, <2>1, <2>2 DEF Kept, Serving, Building
<1>4. CASE CloseSocket(w)
  <2>1. /\ Goto(w, "forget") \/ Goto(w, "del")
        /\ Stage = "close" /\ UNCHANGED <<local, attached, gone>>
    BY Zenon, <1>1, <1>4 DEF CloseSocket, At
  <2>2. Stage' \in {"forget", "del"}
    BY Zenon, <1>2, <2>1
  <2> QED
    BY Zenon, <1>0, <1>1, <2>1, <2>2 DEF Kept, Serving, Building
<1>5. ASSUME NEW ip \in left, DelIp(w, ip) \/ DelIpFails(w, ip) PROVE Kept'
  <2>1. /\ Goto(w, "forget") \/ Goto(w, "del")
        /\ Stage = "del" /\ local \ {ip} \subseteq local' /\ UNCHANGED <<attached, gone>>
    BY Zenon, <1>1, <1>5 DEF DelIp, DelIpFails, At
  <2>2. Stage' \in {"forget", "del"}
    BY Zenon, <1>2, <2>1
  <2>3. gone \in DOMAIN attached /\ ip \in attached[gone].ips
    BY Zenon, <1>1, <2>1 DEF Core, Table, Unmaking
  <2>4. PICK o \in Owns : o[1] = gone /\ ip \in o[2]
    BY Zenon, <1>1, <2>3 DEF Kept, Mine
  <2>5. ip \notin Static
    BY Zenon, <2>4 DEF Exclusive
  <2>6. \A n \in DOMAIN attached : n # gone => ip \notin attached[n].ips
    BY <1>1, <2>4 DEF Exclusive, Kept, Mine
  <2> QED
    BY Zenon, <1>0, <1>1, <2>1, <2>2, <2>5, <2>6 DEF Kept, Serving, Building
<1>6. CASE Forget(w)
  <2>1. /\ attached' = Drop(attached, gone) /\ Goto(w, "sweep") /\ Stage = "forget" /\ local' = local
    BY Zenon, <1>1, <1>6 DEF Forget, At
  <2>2. Stage' = "sweep"
    BY Zenon, <1>2, <2>1
  <2>3. /\ DOMAIN attached' = DOMAIN attached \ {gone}
        /\ \A n \in DOMAIN attached' : attached'[n] = attached[n]
    BY Zenon, <2>1, DropLemma
  <2> QED
    BY Zenon, <1>0, <1>1, <2>1, <2>2, <2>3 DEF Kept, Serving, Building
<1> QED
  BY Zenon, <1>3, <1>4, <1>5, <1>6

\* What the stages above keep, all steps keep.
LEMMA KeptInvariant == Exclusive => (Spec => []KeptInv)
<1> SUFFICES ASSUME Exclusive PROVE Spec => []KeptInv
  OBVIOUS
<1>1. Init => KeptInv
  <2> SUFFICES ASSUME Init PROVE Kept
    BY Zenon DEF KeptInv
  <2>1. Stage = "free"
    BY Zenon DEF Init, Stage
  <2> QED
    <3>1. Names(taps) = {} /\ Names(attached) = {} /\ todo = {} /\ local = Static
      BY DEF Init, Names
    <3> QED
      BY Zenon, <2>1, <3>1 DEF Kept, Serving, Building
<1>2. SafeInv /\ KeptInv /\ [Next]_vars => KeptInv'
  <2> SUFFICES ASSUME SafeInv, KeptInv, [Next]_vars PROVE KeptInv'
    OBVIOUS
  <2>1. CASE World
    BY Zenon, <2>1, WorldKept
  <2>7. CASE \E p \in todo : Lookup(p)
    BY Zenon, <2>7, LookupKept DEF KeptInv
  <2>2. CASE \/ AttachFails \/ AttachIface \/ OpenSocket \/ OpenSocketFails
             \/ \E ip \in left : PutIp(ip) \/ PutIpFails(ip)
    BY Zenon, <2>2, AttachKept DEF KeptInv
  <2>3. ASSUME NEW w \in Who,
               \/ \E n \in Names(attached) : Detach(w, n)
               \/ CloseSocket(w)
               \/ \E ip \in left : DelIp(w, ip) \/ DelIpFails(w, ip)
               \/ Forget(w)
        PROVE  KeptInv'
    BY Zenon, <2>3, DetachKept DEF KeptInv
  <2>4. CASE Exit
    BY Zenon, <2>4 DEF Exit, Who, KeptInv, Stage
  <2>5. CASE \/ Discover \/ DiscoverFails \/ Lock \/ Sweep \/ WatcherReturns \/ Signal \/ CloseAll
             \/ \E p \in todo : Known(p) \/ LookupFails(p)
             \/ \E w \in Who : Unlock(w)
    <3>1. Stage # "exited" /\ (Stage' = Stage \/ (Stage \in Settled /\ Stage' \in Settled))
      BY Zenon, <2>5, QuietStage
    <3>4. cur' = cur \/ Stage' \in Settled
      BY Zenon, <2>5, QuietCur
    <3>2. UNCHANGED <<taps, local, attached, gone, left>>
      BY Zenon, <2>5 DEF Discover, DiscoverFails, Lock, Sweep, WatcherReturns, Signal, CloseAll, Known,
             LookupFails, Unlock, env
    <3>3. \A p \in todo' : \/ p \in todo
                           \/ p.name \in Names(taps) /\ p.ips \subseteq taps[p.name].ips
      <4>1. CASE Discover
        BY <4>1 DEF Discover
      <4>2. CASE \E p \in todo : Known(p) \/ LookupFails(p)
        BY Zenon, <4>2 DEF Known, LookupFails
      <4>3. CASE \/ DiscoverFails \/ Lock \/ Sweep \/ WatcherReturns \/ Signal \/ CloseAll
                 \/ \E w \in Who : Unlock(w)
        BY Zenon, <4>3 DEF DiscoverFails, Lock, Sweep, WatcherReturns, Signal, CloseAll, Unlock
      <4> QED
        BY Zenon, <2>5, <4>1, <4>2, <4>3
    <3> QED
      BY Zenon, <3>1, <3>2, <3>3, <3>4, QuietKept DEF KeptInv
  <2>6. CASE UNCHANGED vars
    <3>1. UNCHANGED <<taps, local, attached, lock, pc, todo, cur, gone, left>>
      BY Zenon, <2>6 DEF vars
    <3>2. Stage' = Stage
      BY Zenon, <3>1 DEF Stage
    <3> QED
      BY Zenon, <3>1, <3>2, QuietKept DEF KeptInv
  <2> QED
    BY Zenon, <2>1, <2>2, <2>3, <2>4, <2>5, <2>6, <2>7
       DEF Next, Watcher, Main, Attaching, Detaching, Who
<1> QED
  BY <1>1, <1>2, SafeInvariant, PTL DEF Spec

\* "registered in the local_ips map": while no address moves from one tap to another,
\* the addresses of every attachment and the static ones are in the map between two
\* reconciles.  (With addresses that move it is false, and a run shows how.)
THEOREM UnmovedStayRegistered == Exclusive => (Spec => []AttachedRegistered)
<1> SUFFICES ASSUME Exclusive PROVE Spec => []AttachedRegistered
  OBVIOUS
<1>1. KeptInv => AttachedRegistered
  <2> SUFFICES ASSUME KeptInv, Quiet
               PROVE  Static \cup UNION {attached[n].ips : n \in Names(attached)} \subseteq local
    BY Zenon DEF AttachedRegistered
  <2>1. Stage = "free" /\ Kept
    BY Zenon DEF KeptInv, Quiet, At, Stage
  <2> QED
    BY Zenon, <2>1 DEF Kept, Serving
<1> QED
  BY <1>1, KeptInvariant, PTL

\* The static addresses, and those of every tap that is not itself being detached, are in
\* the map, with the tap's responder open.
Uninterrupted ==
    ~At("main", "exited") =>
        /\ Static \subseteq local
        /\ \A n \in Names(attached) : \/ Undoing /\ n = gone
                                      \/ attached[n].ips \subseteq local /\ attached[n].resp \subseteq socks

\* The eBPF programs read local_ips without the mutex: while no address moves from one tap
\* to another they never miss one at any step of a reconcile or of closeAll, also when other
\* taps are attached and detached, calls fail and the map is full.
THEOREM ServiceUninterrupted == Exclusive => (Spec => []Uninterrupted)
<1> SUFFICES ASSUME Exclusive PROVE Spec => []Uninterrupted
  OBVIOUS
<1>1. SafeInv /\ KeptInv => Uninterrupted
  <2> SUFFICES ASSUME SafeInv, KeptInv, ~At("main", "exited")
               PROVE  /\ Static \subseteq local
                      /\ \A n \in Names(attached) :
                            \/ Undoing /\ n = gone
                            \/ attached[n].ips \subseteq local /\ attached[n].resp \subseteq socks
    BY Zenon DEF Uninterrupted
  <2>1. TypeOK /\ (lock # "free" => lock \in Who)
    BY Zenon DEF SafeInv, TypeOK
  <2>2. Stage # "exited"
    <3>1. lock # "free" => pc[lock] # "exited"
      BY Zenon, <2>1 DEF SafeInv, Control, At, Who
    <3> QED
      BY Zenon, <3>1 DEF Stage, At
  <2>3. Core /\ Kept
    BY Zenon, <2>2 DEF SafeInv, KeptInv
  <2>4. Stage \in {"del", "forget"} => Undoing
    BY Zenon, <2>1 DEF Stage, Undoing
  <2>5. ASSUME NEW n \in Names(attached), ~(Undoing /\ n = gone)
        PROVE  attached[n].ips \subseteq local /\ attached[n].resp \subseteq socks
    <3>1. n \in Serving
      BY Zenon, <2>4, <2>5 DEF Serving
    <3>2. attached[n].resp \subseteq Dev
      BY Zenon, <2>1 DEF TypeOK, Attachment, Names
    <3> QED
      BY Zenon, <2>3, <3>1, <3>2 DEF Core, Kept, Sockets
  <2> QED
    BY Zenon, <2>3, <2>5 DEF Kept
<1> QED
  BY <1>1, KeptInvariant, SafeInvariant, PTL
=============================================================================
