--------------------------- MODULE VxlanWatchProofs ---------------------------
(***************************************************************************)
(* What the VXLAN watcher guarantees for every set of devices, any number  *)
(* of changes and of failing calls.                                        *)
(*                                                                         *)
(* FollowsDevices speaks of ifindexes no update is waiting for.  Its       *)
(* inductive form speaks of every ifindex, by the last RTM_DELLINK about   *)
(* it that is still waiting: what the watcher has made of the device       *)
(* before that one does not matter, since handling it removes everything,  *)
(* and what follows it in the queue tells of the device there is now.      *)
(***************************************************************************)
EXTENDS VxlanWatch, TLAPS

\* The two kinds of update about i in a queue q.
IsDel(q, k, i) == q[k].type = "del" /\ q[k].link.idx = i
IsNew(q, k, i) == q[k].type = "new" /\ q[k].link.idx = i
HasNew(q, i) == \E k \in DOMAIN q : IsNew(q, k, i)

\* No RTM_DELLINK about i comes after the k-th update; none comes at all.
LastWord(q, k, i) == \A j \in DOMAIN q : j > k => ~IsDel(q, j, i)
Undisturbed(q, i) == \A j \in DOMAIN q : ~IsDel(q, j, i)

\* What waits in the queue is the truth about the devices ls: of a device that is there
\* the updates after its last removal tell, and if there is none, a removal is last.
QueueTells(q, ls, i) ==
    IF i \in DOMAIN ls
    THEN /\ \A k \in DOMAIN q : IsNew(q, k, i) /\ LastWord(q, k, i) => q[k].link.vni = ls[i]
         /\ Undisturbed(q, i) \/ \E k \in DOMAIN q : IsNew(q, k, i) /\ LastWord(q, k, i)
    ELSE \A k \in DOMAIN q : IsNew(q, k, i) => ~LastWord(q, k, i)

\* The watcher knows nothing of i.
Absent(i) ==
    /\ i \notin DOMAIN attached
    /\ \A l \in w.link \cup w.listed : l.idx # i

\* Device i's attachment is as it should be, failed, or still to be made.
Attended(i) ==
    /\ \A l \in w.link \cup w.listed : l.idx = i => l.vni = links[i]
    /\ \A l \in w.link : l.idx = i => On(i, w.made) \subseteq hooks
    /\ i \in DOMAIN attached => \/ i \in failed
                                \/ /\ On(i, attached[i]) \subseteq hooks
                                   /\ i \in DOMAIN vnis /\ vnis[i] = links[i]
    /\ \/ w.pc = "enumerate" \/ i \in DOMAIN attached \/ i \in failed
       \/ \E l \in w.link \cup w.listed : l.idx = i
       \/ HasNew(events, i)

Follows(i) ==
    /\ QueueTells(events, links, i)
    /\ Undisturbed(events, i) => IF i \in DOMAIN links THEN Attended(i) ELSE Absent(i)

FollowInv == (sub = "open" /\ main = "running") => \A i \in Index : Follows(i)

\* The watcher's record; it holds the mutex exactly while it attaches a device, one
\* that is not in the table.
Shape ==
    /\ w = [pc |-> w.pc, listed |-> w.listed, link |-> w.link, plan |-> w.plan, made |-> w.made]
    /\ IF w.pc = "attach"
       THEN lock = "watcher" /\ \E l \in Link : w.link = {l} /\ l.idx \notin DOMAIN attached
       ELSE lock = "none" /\ w.link = {} /\ w.made = {}
    /\ w.pc \in {"subscribe", "enumerate", "returned"} => DOMAIN attached = {}
    /\ w.pc \in {"subscribe", "enumerate"} => w.listed = {}
    /\ w.pc = "loop" => w.listed = {}
    /\ w.pc = "subscribe" => sub = "none"
    /\ sub = "open" => w.pc \in {"enumerate", "list", "attach", "loop"}
    /\ sub = "none" => events = << >>
    /\ \A h \in hooks : h = <<h[1], h[2]>>

SafeInv == TypeOK /\ Shape /\ NothingLeaks /\ VniKept

-----------------------------------------------------------------------------
(* Facts about the operators.                                              *)

Update == [type : {"new", "del"}, link : Link]

\* Taking the first update off the queue moves the others up by one.
LEMMA TailOfQueue ==
    ASSUME NEW q \in Seq(Update), q # << >>
    PROVE  /\ Tail(q) \in Seq(Update) /\ Head(q) = q[1] /\ Head(q) \in Update
           /\ 1 \in DOMAIN q
           /\ \A k \in DOMAIN Tail(q) : k + 1 \in DOMAIN q /\ Tail(q)[k] = q[k + 1]
           /\ \A k \in DOMAIN q : k # 1 => k - 1 \in DOMAIN Tail(q) /\ Tail(q)[k - 1] = q[k]
           /\ DOMAIN q \subseteq Nat /\ DOMAIN Tail(q) \subseteq Nat
  OBVIOUS

\* A new update goes to the end of the queue, and the others stay where they are.
LEMMA AppendToQueue ==
    ASSUME NEW q \in Seq(Update), NEW u \in Update
    PROVE  /\ Append(q, u) \in Seq(Update)
           /\ DOMAIN Append(q, u) = DOMAIN q \cup {Len(q) + 1}
           /\ \A k \in DOMAIN q : k < Len(q) + 1 /\ Append(q, u)[k] = q[k]
           /\ Append(q, u)[Len(q) + 1] = u
           /\ DOMAIN q \subseteq Nat /\ Len(q) + 1 \in Nat
  OBVIOUS

\* Restrict keeps the entries it is told to.
LEMMA RestrictLemma ==
    ASSUME NEW f, NEW S
    PROVE  /\ DOMAIN Restrict(f, S) = S
           /\ \A x \in S : Restrict(f, S)[x] = f[x]
BY Zenon DEF Restrict

\* An empty table has no entries.
LEMMA NoEntries == \A f : f = << >> => DOMAIN f = {}
OBVIOUS

\* A failed call undoes only what the attachment has made, and all of it when there is
\* no other way to go on.
LEMMA UndoneLemma ==
    ASSUME NEW plan, NEW result, NEW made
    PROVE  /\ Undone(plan, result, made) \subseteq made
           /\ ~FallsBack(plan, result) => Undone(plan, result, made) = made
BY Zenon DEF Undone

-----------------------------------------------------------------------------
(* The ways through attachIface: the calls still to make, and the hooks    *)
(* made so far.                                                            *)

TcxIn == <<"tcx", "ingress">>
TcxOut == <<"tcx", "egress">>
Qdisc == <<"clsact", "qdisc">>
FilterIn == <<"clsact", "ingress">>
FilterOut == <<"clsact", "egress">>
Native == <<"xdp", "native">>
Generic == <<"xdp", "generic">>

\* With the TC hooks.
TcStage(plan, made) ==
    \/ plan = <<<<<<TcxIn, TcxOut>>, <<Qdisc, FilterIn, FilterOut>>>>>> /\ made = {}
    \/ plan = <<<<<<TcxOut>>, <<Qdisc, FilterIn, FilterOut>>>>>> /\ made = {TcxIn}
    \/ plan = <<<<<<Qdisc, FilterIn, FilterOut>>>>>> /\ made = {}
    \/ plan = <<<<<<FilterIn, FilterOut>>>>>> /\ made = {}
    \/ plan = <<<<<<FilterOut>>>>>> /\ made = {FilterIn}
    \/ plan = << >> /\ made \in {{TcxIn, TcxOut}, {FilterIn, FilterOut}}

\* With XDP.
XdpStage(plan, made) ==
    \/ plan = <<<<<<Native>>, <<Generic>>>>>> /\ made = {}
    \/ plan = <<<<<<Generic>>>>>> /\ made = {}
    \/ plan = << >> /\ made \in {{Native}, {Generic}}

\* With XDP and then TC egress: x is the XDP hook.
EgressStage(plan, made, x) ==
    \/ plan = <<<<<<TcxOut>>, <<Qdisc, FilterOut>>>>>> /\ made = {x}
    \/ plan = <<<<<<Qdisc, FilterOut>>>>>> /\ made = {x}
    \/ plan = <<<<<<FilterOut>>>>>> /\ made = {x}
    \/ plan = << >> /\ made \in {{x, TcxOut}, {x, FilterOut}}
Egress == {<<<<TcxOut>>, <<Qdisc, FilterOut>>>>, <<<<Qdisc, FilterOut>>>>}
MixedStage(plan, made) ==
    \/ \E p \in Egress : plan = <<<<<<Native>>, <<Generic>>>>, p>> /\ made = {}
    \/ \E p \in Egress : plan = <<<<<<Generic>>>>, p>> /\ made = {}
    \/ EgressStage(plan, made, Native)
    \/ EgressStage(plan, made, Generic)

Stage(h, plan, made) ==
    /\ h.hook = "tc" => TcStage(plan, made)
    /\ h.hook = "xdp" => XdpStage(plan, made)
    /\ h.hook = "xdp+egress" => MixedStage(plan, made)

\* The watcher is at one of these stages, and a device in the table is past the last.
Staged ==
    /\ w.pc = "attach" => Stage(host, w.plan, w.made)
    /\ \A i \in DOMAIN attached : Stage(host, << >>, attached[i])

\* One list behind another, for the lengths at hand.
LEMMA PairOf ==
    ASSUME NEW a, NEW b
    PROVE  <<a>> \o <<b>> = <<a, b>>
<1> DEFINE S == {a, b}
           r == <<a>> \o <<b>>
           t == <<a, b>>
<1>1. /\ <<a>> \in Seq(S) /\ <<b>> \in Seq(S)
      /\ Len(<<a>>) = 1 /\ Len(<<b>>) = 1 /\ <<a>>[1] = a /\ <<b>>[1] = b
  OBVIOUS
<1>2. t \in Seq(S) /\ Len(t) = 2 /\ t[1] = a /\ t[2] = b
  OBVIOUS
<1>3. /\ r \in Seq(S) /\ Len(r) = Len(<<a>>) + Len(<<b>>)
      /\ \A i \in 1..(Len(<<a>>) + Len(<<b>>)) :
            r[i] = IF i <= Len(<<a>>) THEN <<a>>[i] ELSE <<b>>[i - Len(<<a>>)]
  BY <1>1
<1> HIDE DEF r, t, S
<1>4. Len(r) = 2 /\ r[1] = a /\ r[2] = b
  BY <1>1, <1>3
<1>5. \A i \in 1..Len(r) : r[i] = t[i]
  BY <1>2, <1>4
<1>6. r = t
  BY <1>2, <1>3, <1>4, <1>5
<1> QED
  BY Zenon, <1>6 DEF r, t

\* The same with two behind.
LEMMA TripleOf ==
    ASSUME NEW a, NEW b, NEW c
    PROVE  <<a>> \o <<b, c>> = <<a, b, c>>
<1> DEFINE S == {a, b, c}
           r == <<a>> \o <<b, c>>
           t == <<a, b, c>>
<1>1. /\ <<a>> \in Seq(S) /\ <<b, c>> \in Seq(S) /\ Len(<<a>>) = 1 /\ Len(<<b, c>>) = 2
      /\ <<a>>[1] = a /\ <<b, c>>[1] = b /\ <<b, c>>[2] = c
  OBVIOUS
<1>2. t \in Seq(S) /\ Len(t) = 3 /\ t[1] = a /\ t[2] = b /\ t[3] = c
  OBVIOUS
<1>3. /\ r \in Seq(S) /\ Len(r) = Len(<<a>>) + Len(<<b, c>>)
      /\ \A i \in 1..(Len(<<a>>) + Len(<<b, c>>)) :
            r[i] = IF i <= Len(<<a>>) THEN <<a>>[i] ELSE <<b, c>>[i - Len(<<a>>)]
  BY <1>1
<1> HIDE DEF r, t, S
<1>4. Len(r) = 3 /\ r[1] = a /\ r[2] = b /\ r[3] = c
  BY <1>1, <1>3
<1>5. \A i \in 1..Len(r) : r[i] = t[i]
  BY <1>2, <1>4
<1>6. r = t
  BY <1>2, <1>3, <1>4, <1>5
<1> QED
  BY Zenon, <1>6 DEF r, t

\* What is left after an alternative of one call.
LEMMA AdvanceLast ==
    /\ \A c : Advance(<<<<<<c>>>>>>) = << >> /\ NextCall(<<<<<<c>>>>>>) = c
    /\ \A c, p : Advance(<<<<<<c>>>>, p>>) = <<p>> /\ NextCall(<<<<<<c>>>>, p>>) = c
    /\ \A c, x : Advance(<<<<<<c>>, x>>>>) = << >> /\ NextCall(<<<<<<c>>, x>>>>) = c
    /\ \A c, x, p : Advance(<<<<<<c>>, x>>, p>>) = <<p>> /\ NextCall(<<<<<<c>>, x>>, p>>) = c
<1>1. ASSUME NEW c
      PROVE  Advance(<<<<<<c>>>>>>) = << >> /\ NextCall(<<<<<<c>>>>>>) = c
  BY DEF Advance, NextCall
<1>2. ASSUME NEW c, NEW p
      PROVE  Advance(<<<<<<c>>>>, p>>) = <<p>> /\ NextCall(<<<<<<c>>>>, p>>) = c
  BY DEF Advance, NextCall
<1>3. ASSUME NEW c, NEW x
      PROVE  Advance(<<<<<<c>>, x>>>>) = << >> /\ NextCall(<<<<<<c>>, x>>>>) = c
  BY DEF Advance, NextCall
<1>4. ASSUME NEW c, NEW x, NEW p
      PROVE  Advance(<<<<<<c>>, x>>, p>>) = <<p>> /\ NextCall(<<<<<<c>>, x>>, p>>) = c
  BY DEF Advance, NextCall
<1> QED
  BY Zenon, <1>1, <1>2, <1>3, <1>4

\* What is left after the first of two calls of the only alternative.
LEMMA AdvanceTwo ==
    ASSUME NEW c, NEW d
    PROVE  Advance(<<<<<<c, d>>>>>>) = <<<<<<d>>>>>> /\ NextCall(<<<<<<c, d>>>>>>) = c
  BY DEF Advance, NextCall

\* The same of three.
LEMMA AdvanceThree ==
    ASSUME NEW c, NEW d, NEW e
    PROVE  Advance(<<<<<<c, d, e>>>>>>) = <<<<<<d, e>>>>>> /\ NextCall(<<<<<<c, d, e>>>>>>) = c
  BY DEF Advance, NextCall

\* What is left after the first of two calls when there is another alternative.
LEMMA AdvanceFirst ==
    ASSUME NEW c, NEW d, NEW x
    PROVE  Advance(<<<<<<c, d>>, x>>>>) = <<<<<<d>>, x>>>> /\ NextCall(<<<<<<c, d>>, x>>>>) = c
<1>1. NextCall(<<<<<<c, d>>, x>>>>) = c
  BY Zenon DEF NextCall
<1>2. Advance(<<<<<<c, d>>, x>>>>) = <<<<<<d>>>> \o <<x>>>> \o << >>
  BY DEF Advance
<1>3. @ = <<<<<<d>>, x>>>>
  BY PairOf
<1> QED
  BY Zenon, <1>1, <1>2, <1>3

\* Where there is another alternative, and what the plan is then.
LEMMA FallBacks ==
    /\ \A x, y : FallBack(<<<<x, y>>>>) = <<<<y>>>>
    /\ \A x, y, p : FallBack(<<<<x, y>>, p>>) = <<<<y>>, p>>
    /\ \A x, r : ~FallsBack(<<<<x>>>>, r)
    /\ \A x, p, r : ~FallsBack(<<<<x>>, p>>, r)
<1>1. ASSUME NEW x, NEW y PROVE FallBack(<<<<x, y>>>>) = <<<<y>>>>
  BY DEF FallBack
<1>2. ASSUME NEW x, NEW y, NEW p PROVE FallBack(<<<<x, y>>, p>>) = <<<<y>>, p>>
  <2>1. FallBack(<<<<x, y>>, p>>) = <<<<y>>>> \o <<p>>
    BY DEF FallBack
  <2> QED
    BY Zenon, <2>1, PairOf
<1>3. ASSUME NEW x, NEW r PROVE ~FallsBack(<<<<x>>>>, r)
  BY DEF FallsBack
<1>4. ASSUME NEW x, NEW p, NEW r PROVE ~FallsBack(<<<<x>>, p>>, r)
  BY DEF FallsBack
<1> QED
  BY Zenon, <1>1, <1>2, <1>3, <1>4

\* What the calls leave on a device, and by which of them they are undone.
LEMMA Calls ==
    /\ Hook(TcxIn) = {TcxIn} /\ Hook(TcxOut) = {TcxOut} /\ Hook(Qdisc) = {}
    /\ Hook(FilterIn) = {FilterIn} /\ Hook(FilterOut) = {FilterOut}
    /\ Hook(Native) = {Native} /\ Hook(Generic) = {Generic}
    /\ TcxIn[1] = "tcx" /\ TcxOut[1] = "tcx" /\ Native[1] = "xdp" /\ Generic[1] = "xdp"
  BY Zenon DEF Hook, TcxIn, TcxOut, Qdisc, FilterIn, FilterOut, Native, Generic

\* attachIface starts at a stage of its hook.
LEMMA StagesBegin ==
    ASSUME NEW h \in Hosts
    PROVE  Stage(h, Plan(h), {})
<1>1. /\ Tcx(<<"ingress", "egress">>) = <<TcxIn, TcxOut>>
      /\ Tcx(<<"egress">>) = <<TcxOut>>
  BY DEF Tcx, TcxIn, TcxOut
<1>2. Clsact(<<"ingress", "egress">>) = <<Qdisc, FilterIn, FilterOut>>
  <2> DEFINE filters == [k \in DOMAIN <<"ingress", "egress">> |->
                            <<"clsact", <<"ingress", "egress">>[k]>>]
  <2>1. filters = <<FilterIn, FilterOut>>
    BY DEF FilterIn, FilterOut
  <2>2. Clsact(<<"ingress", "egress">>) = <<Qdisc>> \o filters
    BY Zenon DEF Clsact, Qdisc
  <2> HIDE DEF filters
  <2> QED
    BY Zenon, <2>1, <2>2, TripleOf
<1>3. Clsact(<<"egress">>) = <<Qdisc, FilterOut>>
  <2>1. [k \in DOMAIN <<"egress">> |-> <<"clsact", <<"egress">>[k]>>] = <<FilterOut>>
    BY DEF FilterOut
  <2> QED
    BY Zenon, <2>1, PairOf DEF Clsact, Qdisc
<1>4. XdpPhase = <<<<Native>>, <<Generic>>>>
  BY Zenon DEF XdpPhase, Native, Generic
<1>5. h.hook \in {"tc", "xdp", "xdp+egress"}
  BY Zenon DEF Hosts
<1>6. CASE h.hook = "tc"
  <2>1. Plan(h) = <<TcPhase(h, <<"ingress", "egress">>)>>
    BY Zenon, <1>6 DEF Plan
  <2>2. \/ Plan(h) = <<<<<<TcxIn, TcxOut>>, <<Qdisc, FilterIn, FilterOut>>>>>>
        \/ Plan(h) = <<<<<<Qdisc, FilterIn, FilterOut>>>>>>
    BY Zenon, <1>1, <1>2, <2>1 DEF TcPhase
  <2>3. TcStage(Plan(h), {})
    BY Zenon, <2>2 DEF TcStage
  <2>4. h.hook # "xdp" /\ h.hook # "xdp+egress"
    BY Zenon, <1>6
  <2> QED
    BY Zenon, <2>3, <2>4 DEF Stage
<1>7. CASE h.hook = "xdp"
  <2>1. Plan(h) = <<XdpPhase>>
    BY Zenon, <1>7 DEF Plan
  <2>2. XdpStage(Plan(h), {})
    BY Zenon, <1>4, <2>1 DEF XdpStage
  <2>3. h.hook # "tc" /\ h.hook # "xdp+egress"
    BY Zenon, <1>7
  <2> QED
    BY Zenon, <2>2, <2>3 DEF Stage
<1>8. CASE h.hook = "xdp+egress"
  <2>1. Plan(h) = <<XdpPhase, TcPhase(h, <<"egress">>)>>
    BY Zenon, <1>8 DEF Plan
  <2>2. TcPhase(h, <<"egress">>) \in Egress
    BY Zenon, <1>1, <1>3 DEF TcPhase, Egress
  <2>3. MixedStage(Plan(h), {})
    BY Zenon, <1>4, <2>1, <2>2 DEF MixedStage
  <2>4. h.hook # "tc" /\ h.hook # "xdp"
    BY Zenon, <1>8
  <2> QED
    BY Zenon, <2>3, <2>4 DEF Stage
<1> QED
  BY Zenon, <1>5, <1>6, <1>7, <1>8

\* A call that goes well leads to a stage of the hook, and one after which another
\* alternative is tried.
Leads(plan, made, St(_, _)) ==
    /\ St(Advance(plan), made \cup Hook(NextCall(plan)))
    /\ \A r : FallsBack(plan, r) => St(FallBack(plan), made \ Undone(plan, r, made))

\* One call with the TC hooks.
LEMMA TcStages ==
    ASSUME NEW plan, NEW made, TcStage(plan, made), plan # << >>
    PROVE  Leads(plan, made, TcStage)
<1>1. CASE plan = <<<<<<TcxIn, TcxOut>>, <<Qdisc, FilterIn, FilterOut>>>>>> /\ made = {}
  <2>1. /\ Advance(plan) = <<<<<<TcxOut>>, <<Qdisc, FilterIn, FilterOut>>>>>>
        /\ NextCall(plan) = TcxIn /\ FallBack(plan) = <<<<<<Qdisc, FilterIn, FilterOut>>>>>>
    BY <1>1, AdvanceFirst, FallBacks
  <2>2. made \cup Hook(NextCall(plan)) = {TcxIn} /\ \A r : made \ Undone(plan, r, made) = {}
    BY Zenon, <1>1, <2>1, Calls
  <2> QED
    BY Zenon, <2>1, <2>2 DEF Leads, TcStage
<1>2. CASE plan = <<<<<<TcxOut>>, <<Qdisc, FilterIn, FilterOut>>>>>> /\ made = {TcxIn}
  <2>1. /\ Advance(plan) = << >>
        /\ NextCall(plan) = TcxOut /\ FallBack(plan) = <<<<<<Qdisc, FilterIn, FilterOut>>>>>>
    BY Zenon, <1>2, AdvanceLast, FallBacks
  <2>2. made \cup Hook(NextCall(plan)) = {TcxIn, TcxOut}
    BY Zenon, <1>2, <2>1, Calls
  <2>3. \A r : FallsBack(plan, r) => made \ Undone(plan, r, made) = {}
    BY Zenon, <1>2, <2>1, Calls DEF Undone
  <2> QED
    BY Zenon, <2>1, <2>2, <2>3 DEF Leads, TcStage
<1>3. CASE plan = <<<<<<Qdisc, FilterIn, FilterOut>>>>>> /\ made = {}
  <2>1. /\ Advance(plan) = <<<<<<FilterIn, FilterOut>>>>>> /\ NextCall(plan) = Qdisc
        /\ \A r : ~FallsBack(plan, r)
    BY <1>3, AdvanceThree, FallBacks
  <2>2. made \cup Hook(NextCall(plan)) = {}
    BY Zenon, <1>3, <2>1, Calls
  <2> QED
    BY Zenon, <2>1, <2>2 DEF Leads, TcStage
<1>4. CASE plan = <<<<<<FilterIn, FilterOut>>>>>> /\ made = {}
  <2>1. /\ Advance(plan) = <<<<<<FilterOut>>>>>> /\ NextCall(plan) = FilterIn
        /\ \A r : ~FallsBack(plan, r)
    BY Zenon, <1>4, AdvanceTwo, FallBacks
  <2>2. made \cup Hook(NextCall(plan)) = {FilterIn}
    BY Zenon, <1>4, <2>1, Calls
  <2> QED
    BY Zenon, <2>1, <2>2 DEF Leads, TcStage
<1>5. CASE plan = <<<<<<FilterOut>>>>>> /\ made = {FilterIn}
  <2>1. /\ Advance(plan) = << >> /\ NextCall(plan) = FilterOut /\ \A r : ~FallsBack(plan, r)
    BY Zenon, <1>5, AdvanceLast, FallBacks
  <2>2. made \cup Hook(NextCall(plan)) = {FilterIn, FilterOut}
    BY Zenon, <1>5, <2>1, Calls
  <2> QED
    BY Zenon, <2>1, <2>2 DEF Leads, TcStage
<1> QED
  BY Zenon, <1>1, <1>2, <1>3, <1>4, <1>5 DEF TcStage

\* One call with XDP.
LEMMA XdpStages ==
    ASSUME NEW plan, NEW made, XdpStage(plan, made), plan # << >>
    PROVE  Leads(plan, made, XdpStage)
<1>1. CASE plan = <<<<<<Native>>, <<Generic>>>>>> /\ made = {}
  <2>1. /\ Advance(plan) = << >> /\ NextCall(plan) = Native
        /\ FallBack(plan) = <<<<<<Generic>>>>>>
    BY Zenon, <1>1, AdvanceLast, FallBacks
  <2>2. made \cup Hook(NextCall(plan)) = {Native} /\ \A r : made \ Undone(plan, r, made) = {}
    BY Zenon, <1>1, <2>1, Calls
  <2> QED
    BY Zenon, <2>1, <2>2 DEF Leads, XdpStage
<1>2. CASE plan = <<<<<<Generic>>>>>> /\ made = {}
  <2>1. /\ Advance(plan) = << >> /\ NextCall(plan) = Generic /\ \A r : ~FallsBack(plan, r)
    BY Zenon, <1>2, AdvanceLast, FallBacks
  <2>2. made \cup Hook(NextCall(plan)) = {Generic}
    BY Zenon, <1>2, <2>1, Calls
  <2> QED
    BY Zenon, <2>1, <2>2 DEF Leads, XdpStage
<1> QED
  BY Zenon, <1>1, <1>2 DEF XdpStage

\* One call of the egress phase, which leaves the XDP hook alone.
LEMMA EgressStages ==
    ASSUME NEW plan, NEW made, NEW x \in {Native, Generic}, EgressStage(plan, made, x),
           plan # << >>
    PROVE  /\ EgressStage(Advance(plan), made \cup Hook(NextCall(plan)), x)
           /\ \A r : FallsBack(plan, r) =>
                        EgressStage(FallBack(plan), made \ Undone(plan, r, made), x)
<1>1. CASE plan = <<<<<<TcxOut>>, <<Qdisc, FilterOut>>>>>> /\ made = {x}
  <2>1. /\ Advance(plan) = << >> /\ NextCall(plan) = TcxOut
        /\ FallBack(plan) = <<<<<<Qdisc, FilterOut>>>>>>
    BY Zenon, <1>1, AdvanceLast, FallBacks
  <2>2. made \cup Hook(NextCall(plan)) = {x, TcxOut}
    BY Zenon, <1>1, <2>1, Calls
  <2>3. \A r : FallsBack(plan, r) => made \ Undone(plan, r, made) = {x}
    <3>1. x[1] = "xdp" /\ TcxOut[1] = "tcx"
      BY Zenon, Calls
    <3> QED
      BY Zenon, <1>1, <2>1, <3>1 DEF Undone
  <2> QED
    BY Zenon, <2>1, <2>2, <2>3 DEF EgressStage
<1>2. CASE plan = <<<<<<Qdisc, FilterOut>>>>>> /\ made = {x}
  <2>1. /\ Advance(plan) = <<<<<<FilterOut>>>>>> /\ NextCall(plan) = Qdisc
        /\ \A r : ~FallsBack(plan, r)
    BY Zenon, <1>2, AdvanceTwo, FallBacks
  <2>2. made \cup Hook(NextCall(plan)) = {x}
    BY Zenon, <1>2, <2>1, Calls
  <2> QED
    BY Zenon, <2>1, <2>2 DEF EgressStage
<1>3. CASE plan = <<<<<<FilterOut>>>>>> /\ made = {x}
  <2>1. /\ Advance(plan) = << >> /\ NextCall(plan) = FilterOut /\ \A r : ~FallsBack(plan, r)
    BY Zenon, <1>3, AdvanceLast, FallBacks
  <2>2. made \cup Hook(NextCall(plan)) = {x, FilterOut}
    BY Zenon, <1>3, <2>1, Calls
  <2> QED
    BY Zenon, <2>1, <2>2 DEF EgressStage
<1> QED
  BY Zenon, <1>1, <1>2, <1>3 DEF EgressStage

\* One call with XDP and TC egress.
LEMMA MixedStages ==
    ASSUME NEW plan, NEW made, MixedStage(plan, made), plan # << >>
    PROVE  Leads(plan, made, MixedStage)
<1>1. \A p \in Egress : \A x : EgressStage(<<p>>, {x}, x)
  BY Zenon DEF Egress, EgressStage
<1>2. CASE \E p \in Egress : plan = <<<<<<Native>>, <<Generic>>>>, p>> /\ made = {}
  <2>1. PICK p \in Egress : plan = <<<<<<Native>>, <<Generic>>>>, p>> /\ made = {}
    BY Zenon, <1>2
  <2>2. /\ Advance(plan) = <<p>> /\ NextCall(plan) = Native
        /\ FallBack(plan) = <<<<<<Generic>>>>, p>>
    BY <2>1, AdvanceLast, FallBacks
  <2>3. made \cup Hook(NextCall(plan)) = {Native} /\ \A r : made \ Undone(plan, r, made) = {}
    BY Zenon, <2>1, <2>2, Calls
  <2> QED
    BY Zenon, <1>1, <2>2, <2>3 DEF Leads, MixedStage
<1>3. CASE \E p \in Egress : plan = <<<<<<Generic>>>>, p>> /\ made = {}
  <2>1. PICK p \in Egress : plan = <<<<<<Generic>>>>, p>> /\ made = {}
    BY Zenon, <1>3
  <2>2. Advance(plan) = <<p>> /\ NextCall(plan) = Generic /\ \A r : ~FallsBack(plan, r)
    BY Zenon, <2>1, AdvanceLast, FallBacks
  <2>3. made \cup Hook(NextCall(plan)) = {Generic}
    BY Zenon, <2>1, <2>2, Calls
  <2> QED
    BY Zenon, <1>1, <2>2, <2>3 DEF Leads, MixedStage
<1>4. CASE \E x \in {Native, Generic} : EgressStage(plan, made, x)
  BY Zenon, <1>4, EgressStages DEF Leads, MixedStage
<1> QED
  BY Zenon, <1>2, <1>3, <1>4 DEF MixedStage

\* One call of any attachment.
LEMMA Stages ==
    ASSUME NEW h, NEW plan, NEW made, Stage(h, plan, made), plan # << >>
    PROVE  /\ Stage(h, Advance(plan), made \cup Hook(NextCall(plan)))
           /\ \A r : FallsBack(plan, r) =>
                        Stage(h, FallBack(plan), made \ Undone(plan, r, made))
  BY Zenon, TcStages, XdpStages, MixedStages DEF Leads, Stage

\* The direction of a hook.
Direction(h) == IF h[1] = "xdp" THEN "ingress" ELSE h[2]

\* Which they are.
LEMMA Directions ==
    /\ Direction(Native) = "ingress" /\ Direction(Generic) = "ingress"
    /\ Direction(TcxIn) = "ingress" /\ Direction(TcxOut) = "egress"
    /\ Direction(FilterIn) = "ingress" /\ Direction(FilterOut) = "egress"
    /\ \A a : Covered({a}) = {Direction(a)}
    /\ \A a, b : Covered({a, b}) = {Direction(a), Direction(b)}
<1>1. /\ Direction(Native) = "ingress" /\ Direction(Generic) = "ingress"
      /\ Direction(TcxIn) = "ingress" /\ Direction(TcxOut) = "egress"
      /\ Direction(FilterIn) = "ingress" /\ Direction(FilterOut) = "egress"
  BY Zenon DEF Direction, Native, Generic, TcxIn, TcxOut, FilterIn, FilterOut
<1>2. \A S : Covered(S) = {Direction(h) : h \in S}
  BY Zenon DEF Covered, Direction
<1> HIDE DEF Direction
<1>3. \A a, b : {Direction(h) : h \in {a}} = {Direction(a)}
                /\ {Direction(h) : h \in {a, b}} = {Direction(a), Direction(b)}
  BY Zenon
<1> QED
  BY Zenon, <1>1, <1>2, <1>3

\* Two sets of one member, or two of two.
Paired(S, T) ==
    \/ \E a, c : S = {a} /\ T = {c}
    \/ \E a, b, c, d : a # b /\ c # d /\ S = {a, b} /\ T = {c, d}

\* At the last stage an attachment covers what its host wants.
LEMMA StagesEnd ==
    ASSUME NEW h \in Hosts, NEW made, Stage(h, << >>, made)
    PROVE  /\ Covered(made) = Wanted(h)
           /\ Paired(made, Wanted(h))
<1>1. h.hook \in {"tc", "xdp", "xdp+egress"}
  BY Zenon DEF Hosts
<1>2. \A x, y : <<x>> # << >> /\ <<x, y>> # << >>
  OBVIOUS
<1>3. CASE h.hook = "xdp"
  <2>1. made = {Native} \/ made = {Generic}
    BY Zenon, <1>2, <1>3 DEF Stage, XdpStage
  <2>2. Covered(made) = {"ingress"}
    BY Zenon, <2>1, Directions
  <2>3. Wanted(h) = {"ingress"}
    BY Zenon, <1>3 DEF Wanted
  <2>4. Paired(made, {"ingress"})
    BY Zenon, <2>1 DEF Paired
  <2> QED
    BY Zenon, <2>2, <2>3, <2>4
<1>4. CASE h.hook # "xdp"
  <2>1. \/ made = {TcxIn, TcxOut} \/ made = {FilterIn, FilterOut}
        \/ \E x \in {Native, Generic} : made = {x, TcxOut} \/ made = {x, FilterOut}
    BY Zenon, <1>1, <1>2, <1>4 DEF Stage, TcStage, MixedStage, EgressStage
  <2>2. /\ TcxIn # TcxOut /\ FilterIn # FilterOut
        /\ \A x \in {Native, Generic} : x # TcxOut /\ x # FilterOut
    BY DEF TcxIn, TcxOut, FilterIn, FilterOut, Native, Generic
  <2>3. Covered(made) = {"ingress", "egress"}
    <3> DEFINE Both == \E a, b : made = {a, b} /\ Direction(a) = "ingress" /\ Direction(b) = "egress"
    <3>a. made = {TcxIn, TcxOut} => Both
      BY Zenon, Directions
    <3>b. made = {FilterIn, FilterOut} => Both
      BY Zenon, Directions
    <3>c. ASSUME NEW x \in {Native, Generic}, made = {x, TcxOut} \/ made = {x, FilterOut} PROVE Both
      <4>1. Direction(x) = "ingress"
        BY Zenon, Directions
      <4> QED
        BY Zenon, <3>c, <4>1, Directions
    <3>1. PICK a, b : made = {a, b} /\ Direction(a) = "ingress" /\ Direction(b) = "egress"
      <4> HIDE DEF Both
      <4>1. Both
        BY Zenon, <2>1, <3>a, <3>b, <3>c
      <4> QED
        BY Zenon, <4>1 DEF Both
    <3>2. Covered({a, b}) = {Direction(a), Direction(b)}
      BY Zenon, Directions
    <3> QED
      BY Zenon, <3>1, <3>2
  <2>4. Wanted(h) = {"ingress", "egress"}
    BY Zenon, <1>4 DEF Wanted
  <2>5. \E a, b : a # b /\ made = {a, b}
    BY Zenon, <2>1, <2>2
  <2>6. "ingress" # "egress"
    BY Zenon
  <2>7. Paired(made, {"ingress", "egress"})
    BY Zenon, <2>5, <2>6 DEF Paired
  <2> QED
    BY Zenon, <2>3, <2>4, <2>7
<1> QED
  BY Zenon, <1>3, <1>4

-----------------------------------------------------------------------------
(* The table, the programs and the VNI map.                                *)

\* The devices change beneath the watcher: a removal only takes programs away.
LEMMA DevicesSafe ==
    ASSUME SafeInv, Devices
    PROVE  SafeInv'
<1>1. \A t \in {"new", "del"}, l \in Link : [type |-> t, link |-> l] \in Update
  BY Zenon DEF Update
<1>2. events \in Seq(Update)
  BY Zenon DEF SafeInv, TypeOK, Update
<1>3. CASE \E l \in Link : NewLink(l)
  <2>1. PICK l \in Link : NewLink(l)
    BY Zenon, <1>3
  <2>2. events' \in Seq(Update)
    BY Zenon, <1>1, <1>2, <2>1, AppendToQueue DEF NewLink, Notify
  <2>3. DOMAIN links' \subseteq Index /\ links' \in [DOMAIN links' -> Vni]
    BY Zenon, <2>1 DEF NewLink, Put, SafeInv, TypeOK, Live, Link
  <2>4. TypeOK'
    BY <2>1, <2>2, <2>3, VxlanWatchAssumption DEF NewLink, SafeInv, TypeOK, Live, Update
  <2>5. Shape'
    BY Zenon, <2>1 DEF NewLink, Notify, SafeInv, Shape
  <2>6. NothingLeaks' /\ VniKept'
    BY Zenon, <2>1 DEF NewLink, SafeInv, NothingLeaks, VniKept
  <2> QED
    BY Zenon, <2>4, <2>5, <2>6 DEF SafeInv
<1>4. CASE \E i \in Index : DelLink(i)
  <2>1. PICK i \in Index : DelLink(i)
    BY Zenon, <1>4
  <2>2. [idx |-> i, vni |-> links[i]] \in Link
    BY Zenon, <2>1 DEF DelLink, SafeInv, TypeOK, Live, Link
  <2>3. events' \in Seq(Update)
    BY Zenon, <1>1, <1>2, <2>1, <2>2, AppendToQueue DEF DelLink, Notify
  <2>4. DOMAIN links' \subseteq Index /\ links' \in [DOMAIN links' -> Vni]
    BY Zenon, <2>1 DEF DelLink, Without, Restrict, SafeInv, TypeOK, Live
  <2>5. TypeOK'
    BY <2>1, <2>3, <2>4, VxlanWatchAssumption DEF DelLink, SafeInv, TypeOK, Live, Update
  <2>6. Shape'
    BY Zenon, <2>1 DEF DelLink, Notify, SafeInv, Shape
  <2>7. NothingLeaks' /\ VniKept'
    BY Zenon, <2>1 DEF DelLink, SafeInv, NothingLeaks, VniKept
  <2> QED
    BY Zenon, <2>5, <2>6, <2>7 DEF SafeInv
<1> QED
  BY Zenon, <1>3, <1>4 DEF Devices

\* detachIdx and closeAll take a device's programs, VNI and entry away together.
LEMMA DetachSafe ==
    ASSUME SafeInv, NEW S, Detach(S), w.pc # "attach", w'.link = w.link, w'.made = w.made
    PROVE  /\ DOMAIN attached' = DOMAIN attached \ S /\ NothingLeaks' /\ VniKept'
           /\ \A h \in hooks' : h = <<h[1], h[2]>>
           /\ DOMAIN vnis' \subseteq DOMAIN vnis
           /\ faults' \in 0..MaxFaults
<1> DEFINE known == S \cap DOMAIN attached
           gone == Programs(S)
<1>1. PICK lost \in SUBSET Fallible(gone), kept \in SUBSET (known \cap DOMAIN vnis) :
        /\ Failing(lost # {} \/ kept # {})
        /\ hooks' = hooks \ (gone \ lost)
        /\ vnis' = Restrict(vnis, DOMAIN vnis \ (known \ kept))
        /\ attached' = Restrict(attached, DOMAIN attached \ S)
        /\ left' = (left \ gone) \cup lost
        /\ stale' = (stale \ known) \cup kept
  BY Zenon DEF Detach
<1>2. /\ DOMAIN attached' = DOMAIN attached \ S
      /\ \A i \in DOMAIN attached' : attached'[i] = attached[i]
      /\ DOMAIN vnis' = DOMAIN vnis \ (known \ kept)
  BY <1>1, RestrictLemma
<1>3. w.link = {}
  BY Zenon DEF SafeInv, Shape
<1>4. \A i \in known : On(i, attached[i]) \subseteq gone
  BY Zenon DEF Programs
<1> HIDE DEF gone
<1>5. ASSUME NEW h \in hooks', h \notin left'
      PROVE  h[1] \in DOMAIN attached' /\ h[2] \in attached'[h[1]]
  <2>1. h \in hooks /\ h \notin gone /\ h \notin left
    BY Zenon, <1>1, <1>5
  <2>2. h = <<h[1], h[2]>> /\ h[1] \in DOMAIN attached /\ h[2] \in attached[h[1]]
    BY Zenon, <1>3, <2>1 DEF SafeInv, Shape, NothingLeaks
  <2>3. h \in On(h[1], attached[h[1]])
    BY Zenon, <2>2 DEF On
  <2> QED
    BY Zenon, <1>2, <1>4, <2>1, <2>2, <2>3
<1>6. NothingLeaks'
  BY Zenon, <1>5 DEF NothingLeaks
<1>7. VniKept'
  BY Zenon, <1>1, <1>2 DEF SafeInv, VniKept
<1>8. hooks' \subseteq hooks
  BY Zenon, <1>1
<1>9. faults' \in 0..MaxFaults
  BY <1>1, VxlanWatchAssumption DEF SafeInv, TypeOK, Failing
<1> QED
  BY Zenon, <1>2, <1>6, <1>7, <1>8, <1>9 DEF SafeInv, Shape

\* attach looks at the table: it takes the mutex only for a device that is not there.
LEMMA AttachStartSafe ==
    ASSUME SafeInv, NEW l \in Link, NEW next \in {"list", "loop"}, w.pc \in {"list", "loop"},
           AttachStart(l), NEW rest \in SUBSET w.listed, w' = InAttach(l, rest, next),
           UNCHANGED <<host, links, sub, churn, hooks, vnis, attached, main, faults, left, stale>>,
           events' \in Seq(Update), sub = "none" => events' = << >>,
           next = "loop" => rest = {}
    PROVE  SafeInv'
<1>1. /\ w.pc # "attach" /\ w.link = {} /\ w.made = {} /\ lock = "none"
      /\ w = [pc |-> w.pc, listed |-> w.listed, link |-> w.link, plan |-> w.plan, made |-> w.made]
  BY Zenon DEF SafeInv, Shape
<1>2. CASE l.idx \in DOMAIN attached
  <2>1. /\ w' = [pc |-> next, listed |-> rest, link |-> {}, plan |-> w.plan, made |-> {}]
        /\ lock' = lock
    BY Zenon, <1>1, <1>2 DEF AttachStart, InAttach
  <2>2. TypeOK'
    BY <2>1 DEF SafeInv, TypeOK, Live, Update
  <2>3. Shape'
    BY <1>1, <2>1 DEF SafeInv, Shape
  <2>4. NothingLeaks' /\ VniKept'
    BY Zenon, <1>1, <2>1 DEF SafeInv, NothingLeaks, VniKept
  <2> QED
    BY Zenon, <2>2, <2>3, <2>4 DEF SafeInv
<1>3. CASE l.idx \notin DOMAIN attached
  <2>1. /\ w' = [pc |-> "attach", listed |-> rest, link |-> {l}, plan |-> Plan(host),
                 made |-> {}]
        /\ lock' = "watcher"
    BY Zenon, <1>1, <1>3 DEF AttachStart, InAttach
  <2>2. TypeOK'
    BY <2>1 DEF SafeInv, TypeOK, Live, Update
  <2>3. Shape'
    BY <1>1, <1>3, <2>1 DEF SafeInv, Shape
  <2>4. NothingLeaks' /\ VniKept'
    BY Zenon, <1>1, <2>1 DEF SafeInv, NothingLeaks, VniKept
  <2> QED
    BY Zenon, <2>2, <2>3, <2>4 DEF SafeInv
<1> QED
  BY Zenon, <1>2, <1>3

\* A call leaves a program that the attachment remembers, or takes away what it made.
LEMMA CallSafe ==
    ASSUME SafeInv, NEW l \in w.link, NEW result, Call(l, result)
    PROVE  SafeInv'
<1> DEFINE new == Hook(NextCall(w.plan))
           old == Undone(w.plan, result, w.made)
<1>1. /\ w.pc = "attach" /\ w.link = {l} /\ l \in Link /\ l.idx \notin DOMAIN attached
      /\ lock = "watcher"
      /\ w = [pc |-> w.pc, listed |-> w.listed, link |-> w.link, plan |-> w.plan, made |-> w.made]
  BY Zenon DEF SafeInv, Shape, Call, At
<1>2. faults' \in 0..MaxFaults
  BY VxlanWatchAssumption DEF SafeInv, TypeOK, Call, Failing
<1>3. old \subseteq w.made /\ (~FallsBack(w.plan, result) => old = w.made)
  BY Zenon, UndoneLemma
<1>4. \A S : \A h \in On(l.idx, S) : h = <<h[1], h[2]>> /\ h[1] = l.idx /\ h[2] \in S
  BY DEF On
<1>5. \A S : \A x \in S : <<l.idx, x>> \in On(l.idx, S)
  BY Zenon DEF On
<1>9. result # "ok" => /\ hooks' \subseteq hooks
                       /\ \A h \in hooks' : h \notin left' => h \notin On(l.idx, old) \cup left
  BY Zenon DEF Call
<1>10. VniKept'
  BY Zenon DEF SafeInv, VniKept, Call
<1>11. attached' = attached
  BY Zenon DEF Call
<1> HIDE DEF new, old
<1>6. CASE result = "ok"
  <2>1. /\ hooks' = hooks \cup On(l.idx, new) /\ left' = left \ On(l.idx, new) /\ lock' = lock
        /\ w' = [pc |-> "attach", listed |-> w.listed, link |-> {l}, plan |-> Advance(w.plan),
                 made |-> w.made \cup new]
    BY Zenon, <1>1, <1>6 DEF Call, new
  <2>2. TypeOK'
    BY Zenon, <1>1, <1>2, <2>1 DEF SafeInv, TypeOK, Live, Call, env
  <2>3. Shape'
    BY Zenon, <1>1, <1>4, <2>1 DEF SafeInv, Shape, Call, env
  <2>4. NothingLeaks'
    BY Zenon, <1>1, <1>4, <2>1 DEF SafeInv, NothingLeaks, Call
  <2> QED
    BY Zenon, <1>10, <2>2, <2>3, <2>4 DEF SafeInv
<1>7. CASE result # "ok" /\ FallsBack(w.plan, result)
  <2>1. /\ lock' = lock
        /\ w' = [pc |-> "attach", listed |-> w.listed, link |-> {l}, plan |-> FallBack(w.plan),
                 made |-> w.made \ old]
    BY Zenon, <1>1, <1>7 DEF Call, old
  <2>2. TypeOK'
    BY Zenon, <1>1, <1>2, <2>1 DEF SafeInv, TypeOK, Live, Call, env
  <2>3. Shape'
    BY Zenon, <1>1, <1>9, <1>7, <2>1 DEF SafeInv, Shape, Call, env
  <2>4. NothingLeaks'
    <3> SUFFICES ASSUME NEW h \in hooks', h \notin left'
                 PROVE  \/ h[1] \in DOMAIN attached' /\ h[2] \in attached'[h[1]]
                        \/ \E m \in w'.link : m.idx = h[1] /\ h[2] \in w'.made
      BY Zenon DEF NothingLeaks
    <3>1. h \in hooks /\ h = <<h[1], h[2]>> /\ h \notin On(l.idx, old) /\ h \notin left
      BY Zenon, <1>7, <1>9 DEF SafeInv, Shape
    <3>2. \/ h[1] \in DOMAIN attached /\ h[2] \in attached[h[1]]
          \/ l.idx = h[1] /\ h[2] \in w.made
      BY Zenon, <1>1, <3>1 DEF SafeInv, NothingLeaks
    <3> QED
      BY Zenon, <1>5, <1>11, <2>1, <3>1, <3>2
  <2> QED
    BY Zenon, <1>10, <2>2, <2>3, <2>4 DEF SafeInv
<1>8. CASE result # "ok" /\ ~FallsBack(w.plan, result)
  <2>1. /\ lock' = "none" /\ Return \in {"loop", "list"}
        /\ w' = [pc |-> Return, listed |-> w.listed, link |-> {}, plan |-> << >>, made |-> {}]
        /\ Return = "loop" => w.listed = {}
    BY Zenon, <1>1, <1>8 DEF Call, old, Done, Return
  <2>2. TypeOK'
    BY Zenon, <1>1, <1>2, <2>1 DEF SafeInv, TypeOK, Live, Call, env
  <2>3. Shape'
    BY Zenon, <1>1, <1>9, <1>8, <2>1 DEF SafeInv, Shape, Call, env
  <2>4. NothingLeaks'
    <3> SUFFICES ASSUME NEW h \in hooks', h \notin left'
                 PROVE  h[1] \in DOMAIN attached' /\ h[2] \in attached'[h[1]]
      BY Zenon DEF NothingLeaks
    <3>1. h \in hooks /\ h = <<h[1], h[2]>> /\ h \notin On(l.idx, old) /\ h \notin left
      BY Zenon, <1>8, <1>9 DEF SafeInv, Shape
    <3>2. \/ h[1] \in DOMAIN attached /\ h[2] \in attached[h[1]]
          \/ l.idx = h[1] /\ h[2] \in w.made
      BY Zenon, <1>1, <3>1 DEF SafeInv, NothingLeaks
    <3> QED
      BY Zenon, <1>3, <1>5, <1>8, <1>11, <3>1, <3>2
  <2> QED
    BY Zenon, <1>10, <2>2, <2>3, <2>4 DEF SafeInv
<1> QED
  BY Zenon, <1>6, <1>7, <1>8

\* The device enters the table with the programs it has.
LEMMA RegisterSafe ==
    ASSUME SafeInv, NEW l \in w.link, NEW ok \in BOOLEAN, Register(l, ok)
    PROVE  SafeInv'
<1>1. /\ w.pc = "attach" /\ w.link = {l} /\ l \in Link /\ l.idx \notin DOMAIN attached
      /\ lock = "watcher" /\ l.idx \in Index
      /\ w = [pc |-> w.pc, listed |-> w.listed, link |-> w.link, plan |-> w.plan, made |-> w.made]
  BY Zenon DEF SafeInv, Shape, Register, At, Link
<1>2. /\ Return \in {"loop", "list"} /\ (Return = "loop" => w.listed = {}) /\ lock' = "none"
      /\ w' = [pc |-> Return, listed |-> w.listed, link |-> {}, plan |-> << >>, made |-> {}]
  BY Zenon, <1>1 DEF Register, Done, Return
<1>3. /\ DOMAIN attached' = DOMAIN attached \cup {l.idx} /\ attached'[l.idx] = w.made
      /\ \A i \in DOMAIN attached : attached'[i] = attached[i]
  <2>1. attached' = Put(attached, l.idx, w.made)
    BY Zenon DEF Register
  <2> QED
    BY Zenon, <1>1, <2>1 DEF Put
<1>9. DOMAIN vnis' \subseteq DOMAIN vnis \cup {l.idx}
  <2>1. vnis' = Put(vnis, l.idx, l.vni) \/ vnis' = vnis
    BY Zenon DEF Register
  <2> QED
    BY Zenon, <2>1 DEF Put
<1>4. faults' \in 0..MaxFaults
  BY VxlanWatchAssumption DEF SafeInv, TypeOK, Register, Failing
<1>5. TypeOK'
  BY <1>1, <1>2, <1>3, <1>4, <1>9 DEF SafeInv, TypeOK, Live, Register, env
<1>6. Shape'
  BY <1>1, <1>2, <1>3 DEF SafeInv, Shape, Register, env
<1>7. NothingLeaks'
  BY Zenon, <1>1, <1>2, <1>3 DEF SafeInv, NothingLeaks, Register
<1>8. VniKept'
  BY Zenon, <1>3, <1>9 DEF SafeInv, VniKept, Register
<1> QED
  BY Zenon, <1>5, <1>6, <1>7, <1>8 DEF SafeInv

\* The steps of runVXLANWatcher.
LEMMA WatcherSafe ==
    ASSUME SafeInv, Watcher
    PROVE  SafeInv'
<1>1. w = [pc |-> w.pc, listed |-> w.listed, link |-> w.link, plan |-> w.plan, made |-> w.made]
  BY Zenon DEF SafeInv, Shape
<1>2. events \in Seq(Update)
  BY Zenon DEF SafeInv, TypeOK, Update
<1>3. ASSUME NEW ok \in BOOLEAN, Subscribe(ok) PROVE SafeInv'
  <2>1. faults' \in 0..MaxFaults
    BY <1>3, VxlanWatchAssumption DEF SafeInv, TypeOK, Subscribe, Failing
  <2>2. w' = [pc |-> IF ok THEN "enumerate" ELSE "returned", listed |-> w.listed,
              link |-> w.link, plan |-> w.plan, made |-> w.made]
    BY Zenon, <1>1, <1>3 DEF Subscribe, Goto
  <2>3. TypeOK' /\ NothingLeaks' /\ VniKept'
    BY Zenon, <1>3, <2>1, <2>2 DEF SafeInv, TypeOK, Live, Subscribe, NothingLeaks, VniKept
  <2>4. Shape'
    BY Zenon, <1>3, <2>2 DEF SafeInv, Shape, Subscribe, At
  <2> QED
    BY Zenon, <2>3, <2>4 DEF SafeInv
<1>4. ASSUME NEW ok \in BOOLEAN, Enumerate(ok) PROVE SafeInv'
  <2> DEFINE found == IF ok THEN {[idx |-> i, vni |-> links[i]] : i \in Live} ELSE {}
  <2>1. faults' \in 0..MaxFaults
    BY <1>4, VxlanWatchAssumption DEF SafeInv, TypeOK, Enumerate, Failing
  <2>2. found \subseteq Link
    BY DEF SafeInv, TypeOK, Live, Link
  <2>3. w' = [pc |-> IF found = {} THEN "loop" ELSE "list", listed |-> found,
              link |-> w.link, plan |-> w.plan, made |-> w.made]
    BY Zenon, <1>1, <1>4 DEF Enumerate
  <2> HIDE DEF found
  <2>6. UNCHANGED <<host, links, events, sub, churn, hooks, vnis, attached, lock, main, left, stale>>
    BY Zenon, <1>4 DEF Enumerate, env
  <2>4. TypeOK' /\ NothingLeaks' /\ VniKept'
    BY Zenon, <2>1, <2>2, <2>3, <2>6 DEF SafeInv, TypeOK, Live, NothingLeaks, VniKept
  <2>5. Shape'
    BY Zenon, <1>4, <2>3 DEF SafeInv, Shape, Enumerate, At, env
  <2> QED
    BY Zenon, <2>4, <2>5 DEF SafeInv
<1>5. ASSUME NEW l \in w.listed, ListNext(l) PROVE SafeInv'
  <2> DEFINE next == IF w.listed = {l} THEN "loop" ELSE "list"
  <2>2. next \in {"list", "loop"} /\ (next = "loop" => w.listed \ {l} = {})
    OBVIOUS
  <2>3. AttachStart(l) /\ w' = InAttach(l, w.listed \ {l}, next)
    BY Zenon, <1>5 DEF ListNext
  <2>4. l \in Link /\ w.pc = "list" /\ events' = events
    BY Zenon, <1>5 DEF SafeInv, TypeOK, ListNext, At, env
  <2>5. sub = "none" => events = << >>
    BY Zenon DEF SafeInv, Shape
  <2> HIDE DEF next
  <2> QED
    BY Zenon, <1>2, <1>5, <2>2, <2>3, <2>4, <2>5, AttachStartSafe DEF ListNext, env
<1>6. ASSUME ReceiveNew PROVE SafeInv'
  <2>1. /\ w.pc = "loop" /\ events # << >> /\ AttachStart(Head(events).link)
        /\ events' = Tail(events) /\ w' = InAttach(Head(events).link, {}, "loop")
        /\ UNCHANGED <<host, links, sub, churn, hooks, vnis, attached, main, faults, left, stale>>
    BY Zenon, <1>6 DEF ReceiveNew, At
  <2>2. Head(events).link \in Link /\ events' \in Seq(Update)
    BY Zenon, <1>2, <2>1, TailOfQueue DEF Update
  <2>3. sub # "none"
    BY Zenon, <2>1 DEF SafeInv, Shape
  <2> QED
    BY <2>1, <2>2, <2>3, AttachStartSafe
<1>7. ASSUME ReceiveDel PROVE SafeInv'
  <2>1. w.pc # "attach" /\ Detach({Head(events).link.idx}) /\ w' = w /\ events' \in Seq(Update)
    BY Zenon, <1>2, <1>7, TailOfQueue DEF ReceiveDel, At
  <2>2. /\ DOMAIN attached' = DOMAIN attached \ {Head(events).link.idx} /\ NothingLeaks' /\ VniKept'
        /\ \A h \in hooks' : h = <<h[1], h[2]>>
        /\ DOMAIN vnis' \subseteq DOMAIN vnis /\ faults' \in 0..MaxFaults
    BY Zenon, <2>1, DetachSafe
  <2>3. TypeOK'
    BY Zenon, <1>7, <2>1, <2>2 DEF SafeInv, TypeOK, Live, ReceiveDel, Update
  <2>4. Shape'
    BY Zenon, <1>7, <2>1, <2>2 DEF SafeInv, Shape, ReceiveDel, At
  <2> QED
    BY Zenon, <2>2, <2>3, <2>4 DEF SafeInv
<1>8. ASSUME Finish PROVE SafeInv'
  <2>1. /\ w.pc = "loop" /\ Detach(DOMAIN attached) /\ events' = << >> /\ sub' = "closed"
        /\ w' = [pc |-> "returned", listed |-> w.listed, link |-> w.link, plan |-> w.plan,
                 made |-> w.made]
    BY Zenon, <1>1, <1>8 DEF Finish, At, Goto
  <2>2. /\ DOMAIN attached' = {} /\ NothingLeaks' /\ VniKept'
        /\ \A h \in hooks' : h = <<h[1], h[2]>>
        /\ DOMAIN vnis' \subseteq DOMAIN vnis /\ faults' \in 0..MaxFaults
    BY Zenon, <2>1, DetachSafe
  <2>3. events' \in Seq(Update)
    BY <2>1
  <2>4. TypeOK'
    BY Zenon, <1>8, <2>1, <2>2, <2>3 DEF SafeInv, TypeOK, Live, Finish, Update
  <2>5. Shape'
    BY Zenon, <1>8, <2>1, <2>2 DEF SafeInv, Shape, Finish
  <2> QED
    BY Zenon, <2>2, <2>4, <2>5 DEF SafeInv
<1> QED
  BY Zenon, <1>3, <1>4, <1>5, <1>6, <1>7, <1>8, CallSafe, RegisterSafe DEF Watcher

\* Overrun and the steps of the main goroutine.
LEMMA OthersSafe ==
    ASSUME SafeInv, Overrun \/ CloseStop \/ CloseAll \/ Exit
    PROVE  SafeInv'
<1>1. CASE Overrun
  <2>1. faults' \in 0..MaxFaults
    BY <1>1, VxlanWatchAssumption DEF SafeInv, TypeOK, Overrun, Failing
  <2> QED
    BY Zenon, <1>1, <2>1 DEF SafeInv, TypeOK, Live, Shape, NothingLeaks, VniKept, Overrun
<1>2. CASE CloseStop
  BY Zenon, <1>2 DEF SafeInv, TypeOK, Live, Shape, NothingLeaks, VniKept, CloseStop, env
<1>3. CASE CloseAll
  <2>1. w.pc # "attach" /\ Detach(DOMAIN attached) /\ w' = w
    BY Zenon, <1>3 DEF SafeInv, Shape, CloseAll
  <2>2. /\ DOMAIN attached' = {} /\ NothingLeaks' /\ VniKept'
        /\ \A h \in hooks' : h = <<h[1], h[2]>>
        /\ DOMAIN vnis' \subseteq DOMAIN vnis /\ faults' \in 0..MaxFaults
    BY Zenon, <2>1, DetachSafe
  <2>3. TypeOK' /\ Shape'
    BY Zenon, <1>3, <2>1, <2>2 DEF SafeInv, TypeOK, Live, Shape, CloseAll, env
  <2> QED
    BY Zenon, <2>2, <2>3 DEF SafeInv
<1>4. CASE Exit
  <2>1. DOMAIN vnis' = {} /\ hooks' \subseteq hooks
    BY <1>4 DEF Exit
  <2> QED
    BY Zenon, <1>4, <2>1 DEF SafeInv, TypeOK, Live, Shape, NothingLeaks, VniKept, Exit, env
<1> QED
  BY Zenon, <1>1, <1>2, <1>3, <1>4

\* SafeInv is inductive.
LEMMA SafeInvariant == Spec => []SafeInv
<1>1. Init => SafeInv
  <2> SUFFICES ASSUME Init PROVE SafeInv
    OBVIOUS
  <2>1. DOMAIN attached = {} /\ DOMAIN vnis = {} /\ events \in Seq(Update)
    BY DEF Init
  <2>2. TypeOK
    BY <2>1, VxlanWatchAssumption DEF Init, TypeOK, Live, Update
  <2>3. Shape /\ NothingLeaks /\ VniKept
    BY Zenon, <2>1 DEF Init, Shape, NothingLeaks, VniKept
  <2> QED
    BY Zenon, <2>2, <2>3 DEF SafeInv
<1>2. SafeInv /\ [Next]_vars => SafeInv'
  <2>1. SafeInv /\ UNCHANGED vars => SafeInv'
    BY Zenon DEF vars, SafeInv, TypeOK, Live, Shape, NothingLeaks, VniKept
  <2> QED
    BY Zenon, <2>1, DevicesSafe, WatcherSafe, OthersSafe DEF Next
<1> QED
  BY <1>1, <1>2, PTL DEF Spec

\* attachIface, detachIdx and closeAll: for every host, every set of devices and any
\* number of failures, a program on a device is one the manager will remove, or one on
\* which a FilterDel failed.
THEOREM NoProgramLeaks == Spec => []NothingLeaks
BY SafeInvariant, PTL DEF SafeInv

\* iface_vni holds the VNI of no device outside the manager's table but those whose
\* Delete failed.
THEOREM VniEntriesKept == Spec => []VniKept
BY SafeInvariant, PTL DEF SafeInv

\* However runVXLANWatcher ends, and whatever main does meanwhile, it leaves nothing but
\* what it failed to remove.
THEOREM WatcherReturnsClean == Spec => []ReturnsClean
<1>1. SafeInv => ReturnsClean
  BY Zenon DEF SafeInv, Shape, NothingLeaks, VniKept, ReturnsClean
<1> QED
  BY <1>1, SafeInvariant, PTL

-----------------------------------------------------------------------------
(* What waits in the queue.                                                *)

\* An update about another device changes nothing for i.
LEMMA AppendOther ==
    ASSUME NEW q \in Seq(Update), NEW u \in Update, NEW i, u.link.idx # i, NEW ls, NEW new,
           i \in DOMAIN new <=> i \in DOMAIN ls, i \in DOMAIN ls => new[i] = ls[i],
           QueueTells(q, ls, i)
    PROVE  /\ QueueTells(Append(q, u), new, i)
           /\ Undisturbed(Append(q, u), i) <=> Undisturbed(q, i)
           /\ HasNew(Append(q, u), i) <=> HasNew(q, i)
<1> DEFINE n == Len(q) + 1
           r == Append(q, u)
<1>1. /\ DOMAIN r = DOMAIN q \cup {n} /\ r[n] = u
      /\ \A k \in DOMAIN q : k < n /\ k \in Nat /\ r[k] = q[k]
      /\ n \in Nat
  BY Zenon, AppendToQueue
<1> HIDE DEF n, r
<1>2. /\ \A k \in DOMAIN q : (IsDel(r, k, i) <=> IsDel(q, k, i)) /\ (IsNew(r, k, i) <=> IsNew(q, k, i))
      /\ ~IsDel(r, n, i) /\ ~IsNew(r, n, i)
  BY Zenon, <1>1 DEF IsDel, IsNew
<1>3. \A k \in DOMAIN q : LastWord(r, k, i) <=> LastWord(q, k, i)
  BY Zenon, <1>1, <1>2 DEF LastWord
<1>4. Undisturbed(r, i) <=> Undisturbed(q, i)
  BY Zenon, <1>1, <1>2 DEF Undisturbed
<1>5. QueueTells(r, new, i)
  BY Zenon, <1>1, <1>2, <1>3, <1>4 DEF QueueTells
<1>6. HasNew(r, i) <=> HasNew(q, i)
  BY Zenon, <1>1, <1>2 DEF HasNew
<1> QED
  BY Zenon, <1>4, <1>5, <1>6 DEF r

\* RTM_NEWLINK tells of the device that is there now.
LEMMA AppendNew ==
    ASSUME NEW q \in Seq(Update), NEW u \in Update, u.type = "new", NEW i, u.link.idx = i,
           NEW ls, NEW new, i \in DOMAIN new, new[i] = u.link.vni,
           i \in DOMAIN ls => new[i] = ls[i], QueueTells(q, ls, i)
    PROVE  /\ QueueTells(Append(q, u), new, i)
           /\ Undisturbed(Append(q, u), i) <=> Undisturbed(q, i)
           /\ HasNew(Append(q, u), i)
<1> DEFINE n == Len(q) + 1
           r == Append(q, u)
<1>1. /\ DOMAIN r = DOMAIN q \cup {n} /\ r[n] = u
      /\ \A k \in DOMAIN q : k < n /\ k \in Nat /\ r[k] = q[k]
      /\ n \in Nat
  BY Zenon, AppendToQueue
<1> HIDE DEF n, r
<1>2. /\ \A k \in DOMAIN q : (IsDel(r, k, i) <=> IsDel(q, k, i)) /\ (IsNew(r, k, i) <=> IsNew(q, k, i))
      /\ ~IsDel(r, n, i) /\ IsNew(r, n, i)
  BY Zenon, <1>1 DEF IsDel, IsNew
<1>3. /\ \A k \in DOMAIN q : LastWord(r, k, i) <=> LastWord(q, k, i)
      /\ LastWord(r, n, i)
  BY <1>1, <1>2 DEF LastWord
<1>4. Undisturbed(r, i) <=> Undisturbed(q, i)
  BY Zenon, <1>1, <1>2 DEF Undisturbed
<1>5. QueueTells(r, new, i)
  BY Zenon, <1>1, <1>2, <1>3, <1>4 DEF QueueTells
<1>6. HasNew(r, i)
  BY Zenon, <1>1, <1>2 DEF HasNew
<1> QED
  BY Zenon, <1>4, <1>5, <1>6 DEF r

\* RTM_DELLINK is the last word about a device that is gone.
LEMMA AppendDel ==
    ASSUME NEW q \in Seq(Update), NEW u \in Update, u.type = "del", NEW i, u.link.idx = i,
           NEW new, i \notin DOMAIN new
    PROVE  QueueTells(Append(q, u), new, i) /\ ~Undisturbed(Append(q, u), i)
<1> DEFINE n == Len(q) + 1
           r == Append(q, u)
<1>1. /\ DOMAIN r = DOMAIN q \cup {n} /\ r[n] = u
      /\ \A k \in DOMAIN q : k < n
  BY Zenon, AppendToQueue
<1> HIDE DEF n, r
<1>2. IsDel(r, n, i) /\ ~IsNew(r, n, i)
  BY Zenon, <1>1 DEF IsDel, IsNew
<1>3. \A k \in DOMAIN q : ~LastWord(r, k, i)
  BY Zenon, <1>1, <1>2 DEF LastWord
<1> QED
  BY Zenon, <1>1, <1>2, <1>3 DEF QueueTells, Undisturbed, r

\* Positions in the queue and in its tail differ by one.
LEMMA TailShift ==
    ASSUME NEW q \in Seq(Update), q # << >>, NEW i
    PROVE  /\ \A k \in DOMAIN Tail(q) :
                /\ IsDel(Tail(q), k, i) <=> IsDel(q, k + 1, i)
                /\ IsNew(Tail(q), k, i) <=> IsNew(q, k + 1, i)
                /\ LastWord(Tail(q), k, i) <=> LastWord(q, k + 1, i)
           /\ \A k \in DOMAIN q : k # 1 =>
                /\ IsDel(q, k, i) <=> IsDel(Tail(q), k - 1, i)
                /\ IsNew(q, k, i) <=> IsNew(Tail(q), k - 1, i)
                /\ k - 1 \in DOMAIN Tail(q) /\ (k - 1) + 1 = k
<1> DEFINE r == Tail(q)
<1>1. /\ 1 \in DOMAIN q /\ DOMAIN q \subseteq Nat /\ DOMAIN r \subseteq Nat
      /\ \A k \in DOMAIN r : k + 1 \in DOMAIN q /\ r[k] = q[k + 1]
      /\ \A k \in DOMAIN q : k # 1 => k - 1 \in DOMAIN r /\ r[k - 1] = q[k]
  BY Zenon, TailOfQueue
<1> HIDE DEF r
<1>2. \A k \in DOMAIN r : /\ IsDel(r, k, i) <=> IsDel(q, k + 1, i)
                          /\ IsNew(r, k, i) <=> IsNew(q, k + 1, i)
  BY Zenon, <1>1 DEF IsDel, IsNew
<1>3. \A k \in DOMAIN q : k # 1 => /\ IsDel(q, k, i) <=> IsDel(r, k - 1, i)
                                   /\ IsNew(q, k, i) <=> IsNew(r, k - 1, i)
  BY Zenon, <1>1 DEF IsDel, IsNew
<1>4. \A k \in DOMAIN r : LastWord(r, k, i) <=> LastWord(q, k + 1, i)
  <2> SUFFICES ASSUME NEW k \in DOMAIN r PROVE LastWord(r, k, i) <=> LastWord(q, k + 1, i)
    OBVIOUS
  <2>1. ASSUME LastWord(r, k, i), NEW j \in DOMAIN q, j > k + 1 PROVE ~IsDel(q, j, i)
    <3>1. j \in Nat /\ k \in Nat
      BY Zenon, <1>1
    <3>2. j # 1 /\ j - 1 > k
      BY <2>1, <3>1
    <3> QED
      BY Zenon, <1>1, <1>3, <2>1, <3>2 DEF LastWord
  <2>2. ASSUME LastWord(q, k + 1, i), NEW j \in DOMAIN r, j > k PROVE ~IsDel(r, j, i)
    BY <1>1, <1>2, <2>2 DEF LastWord
  <2> QED
    BY Zenon, <2>1, <2>2 DEF LastWord
<1> QED
  BY <1>1, <1>2, <1>3, <1>4 DEF r

\* The first update is handled.  If it is not a removal of i the queue goes on telling
\* about i, and only an RTM_NEWLINK about i can have been the one that announced it.
LEMMA TailKeeps ==
    ASSUME NEW q \in Seq(Update), q # << >>, NEW i, ~IsDel(q, 1, i), NEW ls, QueueTells(q, ls, i)
    PROVE  /\ QueueTells(Tail(q), ls, i)
           /\ Undisturbed(Tail(q), i) <=> Undisturbed(q, i)
           /\ HasNew(q, i) => IsNew(q, 1, i) \/ HasNew(Tail(q), i)
<1> DEFINE r == Tail(q)
<1>1. /\ 1 \in DOMAIN q /\ DOMAIN q \subseteq Nat /\ DOMAIN r \subseteq Nat
      /\ \A k \in DOMAIN r : k + 1 \in DOMAIN q /\ r[k] = q[k + 1]
      /\ \A k \in DOMAIN q : k # 1 => k - 1 \in DOMAIN r /\ r[k - 1] = q[k]
  BY Zenon, TailOfQueue
<1>2. /\ \A k \in DOMAIN r : /\ IsDel(r, k, i) <=> IsDel(q, k + 1, i)
                             /\ IsNew(r, k, i) <=> IsNew(q, k + 1, i)
                             /\ LastWord(r, k, i) <=> LastWord(q, k + 1, i)
      /\ \A k \in DOMAIN q : k # 1 => /\ IsDel(q, k, i) <=> IsDel(r, k - 1, i)
                                      /\ IsNew(q, k, i) <=> IsNew(r, k - 1, i)
                                      /\ k - 1 \in DOMAIN r /\ (k - 1) + 1 = k
  BY Zenon, TailShift
<1> HIDE DEF r
<1>5. Undisturbed(r, i) <=> Undisturbed(q, i)
  BY Zenon, <1>1, <1>2 DEF Undisturbed
<1>6. LastWord(q, 1, i) => Undisturbed(q, i)
  BY <1>1 DEF LastWord, Undisturbed
<1>8. QueueTells(r, ls, i)
  <2>1. CASE i \in DOMAIN ls
    <3>1. \A k \in DOMAIN r : IsNew(r, k, i) /\ LastWord(r, k, i) => r[k].link.vni = ls[i]
      BY <1>1, <1>2, <2>1 DEF QueueTells
    <3>2. ASSUME ~Undisturbed(r, i)
          PROVE  \E k \in DOMAIN r : IsNew(r, k, i) /\ LastWord(r, k, i)
      <4>1. PICK k \in DOMAIN q : IsNew(q, k, i) /\ LastWord(q, k, i)
        BY Zenon, <1>5, <2>1, <3>2 DEF QueueTells
      <4>2. k # 1
        BY Zenon, <1>5, <1>6, <3>2, <4>1
      <4>3. k - 1 \in DOMAIN r /\ IsNew(r, k - 1, i) /\ LastWord(r, k - 1, i)
        BY Zenon, <1>2, <4>1, <4>2
      <4> QED
        BY Zenon, <4>3
    <3> QED
      BY Zenon, <2>1, <3>1, <3>2 DEF QueueTells
  <2>2. CASE i \notin DOMAIN ls
    BY Zenon, <1>1, <1>2, <2>2 DEF QueueTells
  <2> QED
    BY Zenon, <2>1, <2>2
<1>9. HasNew(q, i) => IsNew(q, 1, i) \/ HasNew(r, i)
  BY Zenon, <1>1, <1>2 DEF HasNew
<1> QED
  BY Zenon, <1>5, <1>8, <1>9 DEF r

\* A removal of i is handled: if i is there nevertheless, its RTM_NEWLINK still waits.
LEMMA TailRemoval ==
    ASSUME NEW q \in Seq(Update), q # << >>, NEW i, IsDel(q, 1, i), NEW ls, QueueTells(q, ls, i)
    PROVE  /\ QueueTells(Tail(q), ls, i)
           /\ i \in DOMAIN ls => HasNew(Tail(q), i)
<1> DEFINE r == Tail(q)
<1>1. /\ 1 \in DOMAIN q /\ DOMAIN q \subseteq Nat /\ DOMAIN r \subseteq Nat
      /\ \A k \in DOMAIN r : k + 1 \in DOMAIN q /\ r[k] = q[k + 1]
      /\ \A k \in DOMAIN q : k # 1 => k - 1 \in DOMAIN r /\ r[k - 1] = q[k]
  BY Zenon, TailOfQueue
<1>2. /\ \A k \in DOMAIN r : /\ IsDel(r, k, i) <=> IsDel(q, k + 1, i)
                             /\ IsNew(r, k, i) <=> IsNew(q, k + 1, i)
                             /\ LastWord(r, k, i) <=> LastWord(q, k + 1, i)
      /\ \A k \in DOMAIN q : k # 1 => /\ IsDel(q, k, i) <=> IsDel(r, k - 1, i)
                                      /\ IsNew(q, k, i) <=> IsNew(r, k - 1, i)
                                      /\ k - 1 \in DOMAIN r /\ (k - 1) + 1 = k
  BY Zenon, TailShift
<1> HIDE DEF r
<1>5. ~IsNew(q, 1, i) /\ ~Undisturbed(q, i)
  BY Zenon, <1>1 DEF IsDel, IsNew, Undisturbed
<1>7. CASE i \in DOMAIN ls
  <2>1. PICK k \in DOMAIN q : IsNew(q, k, i) /\ LastWord(q, k, i)
    BY Zenon, <1>5, <1>7 DEF QueueTells
  <2>2. k - 1 \in DOMAIN r /\ IsNew(r, k - 1, i) /\ LastWord(r, k - 1, i)
    BY Zenon, <1>2, <1>5, <2>1
  <2>3. \A m \in DOMAIN r : IsNew(r, m, i) /\ LastWord(r, m, i) => r[m].link.vni = ls[i]
    BY <1>1, <1>2, <1>7 DEF QueueTells
  <2> QED
    BY Zenon, <1>7, <2>2, <2>3 DEF QueueTells, HasNew, r
<1>8. CASE i \notin DOMAIN ls
  BY Zenon, <1>1, <1>2, <1>8 DEF QueueTells, r
<1> QED
  BY Zenon, <1>7, <1>8

-----------------------------------------------------------------------------
(* The devices are followed.                                               *)

\* A device comes, changes or goes, and the queue tells.
LEMMA DevicesFollowed ==
    ASSUME SafeInv, FollowInv, Devices
    PROVE  FollowInv'
<1>1. sub' = sub /\ main' = main
  BY Zenon DEF Devices, NewLink, DelLink
<1> SUFFICES ASSUME sub = "open", main = "running", NEW i \in Index PROVE Follows(i)'
  BY Zenon, <1>1 DEF FollowInv
<1>2. /\ events \in Seq(Update) /\ QueueTells(events, links, i)
      /\ Undisturbed(events, i) => IF i \in DOMAIN links THEN Attended(i) ELSE Absent(i)
  BY Zenon DEF SafeInv, TypeOK, Update, FollowInv, Follows
<1>3. ASSUME NEW l \in Link, NewLink(l) PROVE Follows(i)'
  <2> DEFINE u == [type |-> "new", link |-> l]
  <2>1. /\ events' = Append(events, u) /\ u \in Update /\ u.type = "new" /\ u.link = l
        /\ UNCHANGED <<hooks, vnis, attached, w, failed>>
    BY Zenon, <1>3 DEF NewLink, Notify, Update
  <2>2. /\ DOMAIN links' = DOMAIN links \cup {l.idx} /\ links'[l.idx] = l.vni
        /\ \A j \in DOMAIN links : links'[j] = links[j]
    BY Zenon, <1>3 DEF NewLink, Put, Live
  <2> HIDE DEF u
  <2>3. CASE i # l.idx
    <3>1. QueueTells(events', links', i)
      BY Zenon, <1>2, <2>1, <2>2, <2>3, AppendOther
    <3>2. Undisturbed(events', i) <=> Undisturbed(events, i)
      BY Zenon, <1>2, <2>1, <2>2, <2>3, AppendOther
    <3>3. HasNew(events', i) <=> HasNew(events, i)
      BY Zenon, <1>2, <2>1, <2>2, <2>3, AppendOther
    <3>4. ASSUME Undisturbed(events', i)
          PROVE  IF i \in DOMAIN links' THEN Attended(i)' ELSE Absent(i)'
      BY Zenon, <1>2, <2>1, <2>2, <2>3, <3>2, <3>3, <3>4 DEF Attended, Absent
    <3> QED
      BY Zenon, <3>1, <3>4 DEF Follows
  <2>4. CASE i = l.idx
    <3>1. QueueTells(events', links', i)
      BY Zenon, <1>2, <2>1, <2>2, <2>4, AppendNew
    <3>2. Undisturbed(events', i) <=> Undisturbed(events, i)
      BY Zenon, <1>2, <2>1, <2>2, <2>4, AppendNew
    <3>3. HasNew(events', i)
      BY Zenon, <1>2, <2>1, <2>2, <2>4, AppendNew
    <3>4. ASSUME Undisturbed(events', i) PROVE Attended(i)'
      BY Zenon, <1>2, <2>1, <2>2, <2>4, <3>2, <3>3, <3>4 DEF Attended, Absent
    <3> QED
      BY Zenon, <2>2, <2>4, <3>1, <3>4 DEF Follows
  <2> QED
    BY Zenon, <2>3, <2>4
<1>4. ASSUME NEW d \in Index, DelLink(d) PROVE Follows(i)'
  <2> DEFINE u == [type |-> "del", link |-> [idx |-> d, vni |-> links[d]]]
  <2>1. d \in DOMAIN links /\ links[d] \in Vni
    BY Zenon, <1>4 DEF DelLink, Live, SafeInv, TypeOK
  <2>2. /\ events' = Append(events, u) /\ u \in Update /\ u.type = "del" /\ u.link.idx = d
        /\ UNCHANGED <<vnis, attached, w, failed>> /\ hooks' = {h \in hooks : h[1] # d}
    BY Zenon, <1>4, <2>1 DEF DelLink, Notify, Update, Link
  <2>3. /\ DOMAIN links' = DOMAIN links \ {d}
        /\ \A j \in DOMAIN links' : links'[j] = links[j]
    BY Zenon, <1>4 DEF DelLink, Without, Restrict
  <2> HIDE DEF u
  <2>4. CASE i # d
    <3>1. QueueTells(events', links', i)
      BY Zenon, <1>2, <2>2, <2>3, <2>4, AppendOther
    <3>2. Undisturbed(events', i) <=> Undisturbed(events, i)
      BY Zenon, <1>2, <2>2, <2>3, <2>4, AppendOther
    <3>3. HasNew(events', i) <=> HasNew(events, i)
      BY Zenon, <1>2, <2>2, <2>3, <2>4, AppendOther
    <3>4. \A S : On(i, S) \subseteq hooks => On(i, S) \subseteq hooks'
      BY <2>2, <2>4 DEF On
    <3>5. ASSUME Undisturbed(events', i)
          PROVE  IF i \in DOMAIN links' THEN Attended(i)' ELSE Absent(i)'
      BY Zenon, <1>2, <2>2, <2>3, <2>4, <3>2, <3>3, <3>4, <3>5 DEF Attended, Absent
    <3> QED
      BY Zenon, <3>1, <3>5 DEF Follows
  <2>5. CASE i = d
    <3>1. QueueTells(events', links', i) /\ ~Undisturbed(events', i)
      BY Zenon, <1>2, <2>2, <2>3, <2>5, AppendDel
    <3> QED
      BY Zenon, <3>1 DEF Follows
  <2> QED
    BY Zenon, <2>4, <2>5
<1> QED
  BY Zenon, <1>3, <1>4 DEF Devices

\* attach(l) begins, or finds l in the table; i's turn is not lost.
LEMMA AttachStartFollowed ==
    ASSUME SafeInv, NEW i \in Index, Follows(i), w.pc \in {"list", "loop"},
           NEW l \in Link, NEW rest \in SUBSET w.listed, w.listed \subseteq rest \cup {l},
           NEW next \in {"list", "loop"}, AttachStart(l), w' = InAttach(l, rest, next),
           UNCHANGED <<links, hooks, vnis, attached>>, QueueTells(events', links, i),
           Undisturbed(events', i) =>
               /\ Undisturbed(events, i) /\ (HasNew(events, i) => HasNew(events', i) \/ i = l.idx)
               /\ i = l.idx => i \in DOMAIN links /\ l.vni = links[i]
    PROVE  Follows(i)'
<1>1. /\ w.link = {}
      /\ w = [pc |-> w.pc, listed |-> w.listed, link |-> w.link, plan |-> w.plan, made |-> w.made]
  BY Zenon DEF SafeInv, Shape
<1> SUFFICES ASSUME Undisturbed(events', i)
             PROVE  IF i \in DOMAIN links THEN Attended(i)' ELSE Absent(i)'
  BY Zenon DEF Follows
<1>2. IF i \in DOMAIN links THEN Attended(i) ELSE Absent(i)
  BY Zenon DEF Follows
<1>3. CASE l.idx \in DOMAIN attached
  <2>1. w'.listed = rest /\ w'.link = {} /\ failed' = failed
    BY Zenon, <1>1, <1>3 DEF AttachStart, InAttach
  <2>2. i \in DOMAIN links => Attended(i)'
    BY Zenon, <1>1, <1>2, <1>3, <2>1 DEF Attended
  <2>3. i \notin DOMAIN links => Absent(i)'
    BY Zenon, <1>1, <1>2, <2>1 DEF Absent
  <2> QED
    BY Zenon, <2>2, <2>3
<1>4. CASE l.idx \notin DOMAIN attached
  <2>1. w'.listed = rest /\ w'.link = {l} /\ w'.made = {} /\ failed' = failed \ {l.idx}
    BY Zenon, <1>1, <1>4 DEF AttachStart, InAttach
  <2>2. On(i, {}) = {}
    BY Zenon DEF On
  <2>3. i \in DOMAIN links => Attended(i)'
    BY Zenon, <1>1, <1>2, <1>4, <2>1, <2>2 DEF Attended
  <2>4. i \notin DOMAIN links => Absent(i)'
    BY Zenon, <1>1, <1>2, <2>1 DEF Absent
  <2> QED
    BY Zenon, <2>3, <2>4
<1> QED
  BY Zenon, <1>3, <1>4

\* A call concerns the programs of one device only.
LEMMA CallFollowed ==
    ASSUME SafeInv, NEW l \in w.link, NEW result, Call(l, result), NEW i \in Index, Follows(i)
    PROVE  Follows(i)'
<1> DEFINE new == Hook(NextCall(w.plan))
           old == Undone(w.plan, result, w.made)
<1>1. /\ w.pc = "attach" /\ w.link = {l} /\ l.idx \notin DOMAIN attached
      /\ w = [pc |-> w.pc, listed |-> w.listed, link |-> w.link, plan |-> w.plan, made |-> w.made]
      /\ UNCHANGED <<links, events, vnis, attached>>
  BY Zenon DEF SafeInv, Shape, Call, At, env
<1> SUFFICES ASSUME Undisturbed(events, i)
             PROVE  IF i \in DOMAIN links THEN Attended(i)' ELSE Absent(i)'
  BY Zenon, <1>1 DEF Follows
<1>2. IF i \in DOMAIN links THEN Attended(i) ELSE Absent(i)
  BY Zenon DEF Follows
<1>3. \A S, T : On(l.idx, S \cup T) = On(l.idx, S) \cup On(l.idx, T)
  BY Zenon DEF On
<1>4. \A S, T : On(l.idx, S \ T) = On(l.idx, S) \ On(l.idx, T)
  BY DEF On
<1>5. \A S, T : i # l.idx => On(i, S) \cap On(l.idx, T) = {}
  BY DEF On
<1> HIDE DEF new, old
<1>6. CASE result = "ok"
  <2>1. /\ hooks' = hooks \cup On(l.idx, new) /\ failed' = failed
        /\ w'.listed = w.listed /\ w'.link = {l} /\ w'.made = w.made \cup new /\ w'.pc = w.pc
    BY Zenon, <1>1, <1>6 DEF Call, new
  <2>2. \A S : On(i, S) \subseteq hooks => On(i, S) \subseteq hooks'
    BY Zenon, <2>1
  <2>3. i \in DOMAIN links => Attended(i)'
    BY <1>1, <1>2, <1>3, <2>1, <2>2 DEF Attended
  <2>4. i \notin DOMAIN links => Absent(i)'
    BY Zenon, <1>1, <1>2, <2>1 DEF Absent
  <2> QED
    BY Zenon, <2>3, <2>4
<1>7. CASE result # "ok" /\ FallsBack(w.plan, result)
  <2>1. /\ hooks \ On(l.idx, old) \subseteq hooks' /\ failed' = failed
        /\ w'.listed = w.listed /\ w'.link = {l} /\ w'.made = w.made \ old /\ w'.pc = w.pc
    BY Zenon, <1>1, <1>7 DEF Call, old
  <2>2. \A S : i # l.idx /\ On(i, S) \subseteq hooks => On(i, S) \subseteq hooks'
    BY Zenon, <1>5, <2>1
  <2>3. i \in DOMAIN links => Attended(i)'
    BY <1>1, <1>2, <1>4, <2>1, <2>2 DEF Attended
  <2>4. i \notin DOMAIN links => Absent(i)'
    BY Zenon, <1>1, <1>2, <2>1 DEF Absent
  <2> QED
    BY Zenon, <2>3, <2>4
<1>8. CASE result # "ok" /\ ~FallsBack(w.plan, result)
  <2>1. /\ hooks \ On(l.idx, old) \subseteq hooks' /\ failed' = failed \cup {l.idx}
        /\ w'.listed = w.listed /\ w'.link = {} /\ w'.pc # "enumerate"
    BY Zenon, <1>1, <1>8 DEF Call, old, Done, Return
  <2>2. \A S : i # l.idx /\ On(i, S) \subseteq hooks => On(i, S) \subseteq hooks'
    BY Zenon, <1>5, <2>1
  <2>3. i \in DOMAIN links => Attended(i)'
    BY Zenon, <1>1, <1>2, <2>1, <2>2 DEF Attended
  <2>4. i \notin DOMAIN links => Absent(i)'
    BY Zenon, <1>1, <1>2, <2>1 DEF Absent
  <2> QED
    BY Zenon, <2>3, <2>4
<1> QED
  BY Zenon, <1>6, <1>7, <1>8

\* The device in w.link gets its entry; the others keep theirs.
LEMMA RegisterFollowed ==
    ASSUME SafeInv, NEW l \in w.link, NEW ok \in BOOLEAN, Register(l, ok),
           NEW i \in Index, Follows(i)
    PROVE  Follows(i)'
<1>1. /\ w.pc = "attach" /\ w.link = {l} /\ l.idx \notin DOMAIN attached
      /\ w = [pc |-> w.pc, listed |-> w.listed, link |-> w.link, plan |-> w.plan, made |-> w.made]
      /\ UNCHANGED <<links, events, hooks>>
  BY Zenon DEF SafeInv, Shape, Register, At, env
<1> SUFFICES ASSUME Undisturbed(events, i)
             PROVE  IF i \in DOMAIN links THEN Attended(i)' ELSE Absent(i)'
  BY Zenon, <1>1 DEF Follows
<1>2. IF i \in DOMAIN links THEN Attended(i) ELSE Absent(i)
  BY Zenon DEF Follows
<1>3. w'.listed = w.listed /\ w'.link = {} /\ w'.pc # "enumerate"
  BY Zenon, <1>1 DEF Register, Done, Return
<1>4. attached' = Put(attached, l.idx, w.made)
  BY Zenon DEF Register
<1>5. /\ DOMAIN attached' = DOMAIN attached \cup {l.idx} /\ attached'[l.idx] = w.made
      /\ \A j \in DOMAIN attached : attached'[j] = attached[j]
  BY Zenon, <1>1, <1>4 DEF Put
<1>6. CASE i = l.idx
  <2>1. i \in DOMAIN links /\ l.vni = links[i] /\ On(i, w.made) \subseteq hooks
    BY Zenon, <1>1, <1>2, <1>6 DEF Attended, Absent
  <2>2. CASE ok
    <3>1. vnis' = Put(vnis, l.idx, l.vni)
      BY Zenon, <2>2 DEF Register
    <3>2. i \in DOMAIN vnis' /\ vnis'[i] = l.vni
      BY Zenon, <1>6, <3>1 DEF Put
    <3>3. \A m \in w'.link \cup w'.listed : m.idx = i => m.vni = links[i]
      BY Zenon, <1>2, <1>3, <2>1 DEF Attended
    <3> QED
      BY Zenon, <1>1, <1>3, <1>5, <1>6, <2>1, <3>2, <3>3 DEF Attended
  <2>3. CASE ~ok
    <3>1. i \in failed'
      BY Zenon, <1>6, <2>3 DEF Register
    <3> QED
      BY Zenon, <1>1, <1>2, <1>3, <2>1, <3>1 DEF Attended
  <2> QED
    BY Zenon, <2>2, <2>3
<1>7. CASE i # l.idx
  <2>1. /\ i \in DOMAIN vnis' <=> i \in DOMAIN vnis
        /\ i \in DOMAIN vnis => vnis'[i] = vnis[i]
    <3>1. vnis' = Put(vnis, l.idx, l.vni) \/ vnis' = vnis
      BY Zenon DEF Register
    <3> QED
      BY Zenon, <1>7, <3>1 DEF Put
  <2>2. i \in failed' <=> i \in failed
    BY Zenon, <1>7 DEF Register
  <2>3. i \in DOMAIN links => Attended(i)'
    BY Zenon, <1>1, <1>2, <1>3, <1>5, <1>7, <2>1, <2>2 DEF Attended
  <2>4. i \notin DOMAIN links => Absent(i)'
    BY Zenon, <1>1, <1>2, <1>3, <1>5, <1>7, <2>1 DEF Absent
  <2> QED
    BY Zenon, <2>3, <2>4
<1> QED
  BY Zenon, <1>6, <1>7

\* Subscribing comes before listing: from then on every change is listed or announced.
LEMMA StartFollowed ==
    ASSUME SafeInv, FollowInv, NEW ok \in BOOLEAN, Subscribe(ok) \/ Enumerate(ok)
    PROVE  FollowInv'
<1>1. w = [pc |-> w.pc, listed |-> w.listed, link |-> w.link, plan |-> w.plan, made |-> w.made]
  BY Zenon DEF SafeInv, Shape
<1>2. w.pc \in {"subscribe", "enumerate"} =>
          DOMAIN attached = {} /\ w.link = {} /\ w.listed = {}
  BY Zenon DEF SafeInv, Shape
<1> SUFFICES ASSUME sub' = "open", main' = "running", NEW i \in Index PROVE Follows(i)'
  BY Zenon DEF FollowInv
<1>3. CASE Subscribe(ok)
  <2>1. /\ w.pc = "subscribe" /\ sub = "none" /\ events = << >> /\ ok
        /\ UNCHANGED <<links, events, hooks, vnis, attached>>
    BY Zenon, <1>3 DEF Subscribe, At, SafeInv, Shape
  <2>2. w'.pc = "enumerate" /\ w'.listed = {} /\ w'.link = {}
    BY Zenon, <1>1, <1>2, <1>3, <2>1 DEF Subscribe, Goto
  <2>3. DOMAIN events = {}
    BY <2>1
  <2>4. QueueTells(events, links, i)
    BY Zenon, <2>3 DEF QueueTells, Undisturbed
  <2>5. Attended(i)' /\ Absent(i)'
    BY Zenon, <1>2, <2>1, <2>2 DEF Attended, Absent
  <2> QED
    BY Zenon, <2>1, <2>4, <2>5 DEF Follows
<1>4. CASE Enumerate(ok)
  <2> DEFINE found == IF ok THEN {[idx |-> j, vni |-> links[j]] : j \in DOMAIN links} ELSE {}
  <2>1. /\ w.pc = "enumerate" /\ sub = "open" /\ main = "running"
        /\ UNCHANGED <<links, events, hooks, vnis, attached>>
        /\ failed' = IF ok THEN failed ELSE failed \cup DOMAIN links
    BY Zenon, <1>4 DEF Enumerate, At, env, Live
  <2>2. w'.listed = found /\ w'.link = {}
    BY Zenon, <1>1, <1>2, <1>4, <2>1 DEF Enumerate, Live
  <2>3. /\ \A l \in found : l.idx = i => i \in DOMAIN links /\ l.vni = links[i]
        /\ i \in DOMAIN links => ~ok \/ \E l \in found : l.idx = i
    <3>1. CASE ~ok
      BY Zenon, <3>1
    <3>2. CASE ok
      <4>1. found = {[idx |-> j, vni |-> links[j]] : j \in DOMAIN links}
        BY Zenon, <3>2
      <4> HIDE DEF found
      <4>2. \A l \in found : l.idx \in DOMAIN links /\ l.vni = links[l.idx]
        BY <4>1
      <4>3. i \in DOMAIN links => [idx |-> i, vni |-> links[i]] \in found
        BY Zenon, <4>1
      <4> QED
        BY Zenon, <4>2, <4>3
    <3> QED
      BY Zenon, <3>1, <3>2
  <2> HIDE DEF found
  <2>4. QueueTells(events, links, i)
    BY Zenon, <2>1 DEF FollowInv, Follows
  <2>5. i \in DOMAIN links => Attended(i)'
    BY Zenon, <1>2, <2>1, <2>2, <2>3 DEF Attended
  <2>6. i \notin DOMAIN links => Absent(i)'
    BY Zenon, <1>2, <2>1, <2>2, <2>3 DEF Absent
  <2> QED
    BY Zenon, <2>1, <2>4, <2>5, <2>6 DEF Follows
<1> QED
  BY Zenon, <1>3, <1>4

\* An update is received.
LEMMA ReceiveFollowed ==
    ASSUME SafeInv, ReceiveNew \/ ReceiveDel, NEW i \in Index, Follows(i)
    PROVE  Follows(i)'
<1> DEFINE u == Head(events)
           d == u.link.idx
<1>1. /\ events \in Seq(Update) /\ events # << >> /\ events' = Tail(events) /\ w.pc = "loop"
      /\ w.link = {} /\ w.listed = {} /\ links' = links /\ QueueTells(events, links, i)
  BY Zenon DEF SafeInv, TypeOK, Update, Shape, ReceiveNew, ReceiveDel, At, Follows
<1>2. u = events[1] /\ 1 \in DOMAIN events /\ u.link \in Link /\ DOMAIN events \subseteq Nat
  BY Zenon, <1>1, TailOfQueue DEF Update
<1> HIDE DEF u
<1>3. CASE ReceiveNew
  <2>1. /\ u.type = "new" /\ AttachStart(u.link) /\ w' = InAttach(u.link, {}, "loop")
        /\ UNCHANGED <<hooks, vnis, attached>>
    BY Zenon, <1>3 DEF ReceiveNew, u
  <2>2. ~IsDel(events, 1, i) /\ (IsNew(events, 1, i) => i = d)
    BY Zenon, <1>2, <2>1 DEF IsDel, IsNew
  <2>3. QueueTells(events', links, i)
    BY Zenon, <1>1, <2>2, TailKeeps
  <2>4. Undisturbed(events', i) <=> Undisturbed(events, i)
    BY Zenon, <1>1, <2>2, TailKeeps
  <2>5. HasNew(events, i) => HasNew(events', i) \/ i = d
    BY Zenon, <1>1, <2>2, TailKeeps
  <2>6. ASSUME Undisturbed(events, i), i = d PROVE i \in DOMAIN links /\ u.link.vni = links[i]
    <3>1. IsNew(events, 1, i) /\ LastWord(events, 1, i)
      BY Zenon, <1>2, <2>1, <2>6 DEF IsNew, LastWord, Undisturbed
    <3> QED
      BY Zenon, <1>1, <1>2, <3>1 DEF QueueTells
  <2> HIDE DEF d
  <2> QED
    BY Zenon, <1>1, <1>2, <2>1, <2>3, <2>4, <2>5, <2>6, AttachStartFollowed DEF d
<1>4. CASE ReceiveDel
  <2>1. u.type = "del" /\ w' = w /\ failed' = failed /\ Detach({d})
    BY Zenon, <1>4 DEF ReceiveDel, u
  <2>2. /\ hooks \ UNION {On(j, attached[j]) : j \in {d} \cap DOMAIN attached} \subseteq hooks'
        /\ DOMAIN attached' = DOMAIN attached \ {d}
        /\ \A j \in DOMAIN attached' : attached'[j] = attached[j]
        /\ \A j : j # d => (j \in DOMAIN vnis' <=> j \in DOMAIN vnis)
        /\ \A j \in DOMAIN vnis' : vnis'[j] = vnis[j]
    <3>1. PICK back :
            /\ hooks \ Programs({d}) \subseteq hooks'
            /\ vnis' = Restrict(vnis, DOMAIN vnis \ (({d} \cap DOMAIN attached) \ back))
            /\ attached' = Restrict(attached, DOMAIN attached \ {d})
      BY Zenon, <2>1 DEF Detach
    <3>2. /\ DOMAIN attached' = DOMAIN attached \ {d}
          /\ \A j \in DOMAIN attached' : attached'[j] = attached[j]
          /\ DOMAIN vnis' = DOMAIN vnis \ (({d} \cap DOMAIN attached) \ back)
          /\ \A j \in DOMAIN vnis' : vnis'[j] = vnis[j]
      BY <3>1, RestrictLemma
    <3> QED
      BY Zenon, <3>1, <3>2 DEF Programs
  <2>3. CASE i = d
    <3>1. IsDel(events, 1, i)
      BY Zenon, <1>2, <2>1, <2>3 DEF IsDel
    <3>2. QueueTells(events', links, i) /\ (i \in DOMAIN links => HasNew(events', i))
      BY Zenon, <1>1, <3>1, TailRemoval
    <3>3. i \notin DOMAIN attached'
      BY Zenon, <2>2, <2>3
    <3>4. i \in DOMAIN links => Attended(i)'
      BY Zenon, <1>1, <2>1, <3>2, <3>3 DEF Attended
    <3>5. i \notin DOMAIN links => Absent(i)'
      BY Zenon, <1>1, <2>1, <3>3 DEF Absent
    <3> QED
      BY Zenon, <1>1, <3>2, <3>4, <3>5 DEF Follows
  <2>4. CASE i # d
    <3>1. ~IsDel(events, 1, i) /\ ~IsNew(events, 1, i)
      BY Zenon, <1>2, <2>4 DEF IsDel, IsNew
    <3>2. QueueTells(events', links, i)
      BY Zenon, <1>1, <3>1, TailKeeps
    <3>3. Undisturbed(events', i) <=> Undisturbed(events, i)
      BY Zenon, <1>1, <3>1, TailKeeps
    <3>4. HasNew(events, i) => HasNew(events', i)
      BY Zenon, <1>1, <3>1, TailKeeps
    <3>5. \A S, T : On(i, S) \cap On(d, T) = {}
      BY <2>4 DEF On
    <3>6. \A S : On(i, S) \subseteq hooks => On(i, S) \subseteq hooks'
      BY <2>2, <3>5
    <3>7. ASSUME Undisturbed(events', i)
          PROVE  IF i \in DOMAIN links THEN Attended(i)' ELSE Absent(i)'
      <4>1. IF i \in DOMAIN links THEN Attended(i) ELSE Absent(i)
        BY Zenon, <3>3, <3>7 DEF Follows
      <4>2. /\ i \in DOMAIN attached' <=> i \in DOMAIN attached
            /\ i \in DOMAIN vnis' <=> i \in DOMAIN vnis
            /\ i \in DOMAIN attached => attached'[i] = attached[i]
            /\ i \in DOMAIN vnis => vnis'[i] = vnis[i]
        BY Zenon, <2>2, <2>4
      <4>3. i \in DOMAIN links => Attended(i)'
        BY Zenon, <1>1, <2>1, <3>4, <3>6, <4>1, <4>2 DEF Attended
      <4>4. i \notin DOMAIN links => Absent(i)'
        BY Zenon, <1>1, <2>1, <4>1, <4>2 DEF Absent
      <4> QED
        BY Zenon, <4>3, <4>4
    <3> QED
      BY Zenon, <1>1, <3>2, <3>7 DEF Follows
  <2> QED
    BY Zenon, <2>3, <2>4
<1> QED
  BY Zenon, <1>3, <1>4

\* The watcher's steps keep every device followed.
LEMMA WatcherFollowed == SafeInv /\ FollowInv /\ Watcher => FollowInv'
<1> SUFFICES ASSUME SafeInv, FollowInv, Watcher PROVE FollowInv'
  OBVIOUS
<1>1. CASE \E ok \in BOOLEAN : Subscribe(ok) \/ Enumerate(ok)
  BY Zenon, <1>1, StartFollowed
<1>2. CASE Finish
  BY Zenon, <1>2 DEF Finish, FollowInv
<1>3. CASE (\E l \in w.listed : ListNext(l))
           \/ (\E l \in w.link : \/ \E result \in {"ok", "failed", "unsupported"} : Call(l, result)
                                \/ \E ok \in BOOLEAN : Register(l, ok))
           \/ ReceiveNew \/ ReceiveDel
  <2>1. sub' = sub /\ main' = main
    BY Zenon, <1>3 DEF ListNext, Call, Register, ReceiveNew, ReceiveDel, env
  <2> SUFFICES ASSUME NEW i \in Index, Follows(i) PROVE Follows(i)'
    BY Zenon, <2>1 DEF FollowInv
  <2>2. ASSUME NEW l \in w.listed, ListNext(l) PROVE Follows(i)'
    <3>1. /\ w.pc = "list" /\ AttachStart(l) /\ l \in Link
          /\ UNCHANGED <<links, events, hooks, vnis, attached>>
          /\ w' = InAttach(l, w.listed \ {l}, IF w.listed = {l} THEN "loop" ELSE "list")
      BY Zenon, <2>2 DEF ListNext, At, env, SafeInv, TypeOK
    <3>2. QueueTells(events', links, i)
      BY Zenon, <3>1 DEF Follows
    <3>3. ASSUME Undisturbed(events, i), i = l.idx PROVE i \in DOMAIN links /\ l.vni = links[i]
      BY Zenon, <2>2, <3>3 DEF Follows, Attended, Absent
    <3>4. (IF w.listed = {l} THEN "loop" ELSE "list") \in {"list", "loop"}
      OBVIOUS
    <3>5. (w.listed \ {l}) \in SUBSET w.listed /\ w.listed \subseteq (w.listed \ {l}) \cup {l}
      OBVIOUS
    <3> QED
      BY Zenon, <3>1, <3>2, <3>3, <3>4, <3>5, AttachStartFollowed
  <2> QED
    BY Zenon, <1>3, <2>2, CallFollowed, RegisterFollowed, ReceiveFollowed
<1> QED
  BY Zenon, <1>1, <1>2, <1>3 DEF Watcher

\* Every step keeps the devices followed: once the subscription is closed or the agent
\* stops, there is nothing to follow.
LEMMA FollowInvariant == Spec => []FollowInv
<1>1. Init => FollowInv
  BY Zenon DEF Init, FollowInv
<1>2. SafeInv /\ FollowInv /\ [Next]_vars => FollowInv'
  <2> SUFFICES ASSUME SafeInv, FollowInv, [Next]_vars PROVE FollowInv'
    OBVIOUS
  <2>1. CASE Devices
    BY Zenon, <2>1, DevicesFollowed
  <2>2. CASE Watcher
    BY Zenon, <2>2, WatcherFollowed
  <2>3. CASE Overrun
    BY Zenon, <2>3 DEF Overrun, FollowInv
  <2>4. CASE CloseStop \/ CloseAll \/ Exit
    BY Zenon, <2>4 DEF CloseStop, CloseAll, Exit, FollowInv
  <2>5. CASE UNCHANGED vars
    <3>1. UNCHANGED <<links, hooks, vnis, events, sub, attached, w, main, failed>>
      BY Zenon, <2>5 DEF vars
    <3> QED
      BY Zenon, <3>1 DEF FollowInv, Follows, Attended, Absent
  <2> QED
    BY Zenon, <2>1, <2>2, <2>3, <2>4, <2>5 DEF Next
<1> QED
  BY <1>1, <1>2, SafeInvariant, PTL DEF Spec

\* "interfaces created or removed by OVN ... are followed in real time": whatever the
\* devices do between the subscription, the listing and the updates, once an ifindex is
\* quiet it is attached with its VNI, or its attachment failed, or nothing is left of it
\* but a VNI entry whose Delete failed.
THEOREM DevicesAreFollowed == Spec => []FollowsDevices
<1>1. SafeInv /\ FollowInv => FollowsDevices
  <2> SUFFICES ASSUME SafeInv, FollowInv, NEW i \in Index, Quiet(i)
               PROVE  IF i \in Live
                      THEN i \in failed \/ /\ i \in DOMAIN attached /\ On(i, attached[i]) \subseteq hooks
                                           /\ i \in DOMAIN vnis /\ vnis[i] = links[i]
                      ELSE i \notin DOMAIN attached /\ (i \in DOMAIN vnis => i \in stale)
    BY Zenon DEF FollowsDevices
  <2>1. Undisturbed(events, i) /\ ~HasNew(events, i)
    BY Zenon DEF Quiet, Undisturbed, HasNew, IsDel, IsNew
  <2>2. IF i \in Live THEN Attended(i) ELSE Absent(i)
    BY Zenon, <2>1 DEF FollowInv, Follows, Quiet, Live
  <2>3. w.pc # "enumerate" /\ \A l \in w.link \cup w.listed : l.idx # i
    BY Zenon DEF Quiet
  <2> QED
    BY Zenon, <2>1, <2>2, <2>3 DEF Attended, Absent, SafeInv, VniKept
<1> QED
  BY <1>1, SafeInvariant, FollowInvariant, PTL

-----------------------------------------------------------------------------
(* What an attachment covers.                                              *)

\* The stages are kept: only attach makes calls, and only the last stage enters the table.
LEMMA StagedStep == SafeInv /\ Staged /\ [Next]_vars => Staged'
<1> SUFFICES ASSUME SafeInv, Staged, [Next]_vars PROVE Staged'
  BY Zenon
<1>1. w = [pc |-> w.pc, listed |-> w.listed, link |-> w.link, plan |-> w.plan, made |-> w.made]
  BY Zenon DEF SafeInv, Shape
<1>2. host \in Hosts
  BY Zenon, VxlanWatchAssumption DEF SafeInv, TypeOK
<1>3. ASSUME NEW S, Detach(S), host' = host, w'.pc # "attach" PROVE Staged'
  <2>1. attached' = Restrict(attached, DOMAIN attached \ S)
    BY Zenon, <1>3 DEF Detach
  <2>2. \A i \in DOMAIN attached' : i \in DOMAIN attached /\ attached'[i] = attached[i]
    BY Zenon, <2>1, RestrictLemma
  <2> QED
    BY Zenon, <1>3, <2>2 DEF Staged
<1>4. ASSUME NEW l, NEW rest, NEW next, next # "attach", w' = InAttach(l, rest, next),
             host' = host, attached' = attached
      PROVE  Staged'
  <2>1. CASE l.idx \in DOMAIN attached
    <3>1. w'.pc = next
      BY Zenon, <1>1, <1>4, <2>1 DEF InAttach
    <3> QED
      BY Zenon, <1>4, <3>1 DEF Staged
  <2>2. CASE l.idx \notin DOMAIN attached
    <3>1. w'.plan = Plan(host) /\ w'.made = {}
      BY Zenon, <1>1, <1>4, <2>2 DEF InAttach
    <3>2. Stage(host, Plan(host), {})
      BY Zenon, <1>2, StagesBegin
    <3> QED
      BY Zenon, <1>4, <3>1, <3>2 DEF Staged
  <2> QED
    BY Zenon, <2>1, <2>2
<1>5. ASSUME w' = w, host' = host, attached' = attached PROVE Staged'
  BY Zenon, <1>5 DEF Staged
<1>6. CASE Devices \/ Overrun \/ CloseStop \/ Exit
  BY Zenon, <1>5, <1>6 DEF Devices, NewLink, DelLink, Overrun, CloseStop, Exit, env
<1>7. CASE CloseAll
  <2>1. w.pc # "attach" /\ w' = w /\ Detach(DOMAIN attached) /\ host' = host
    BY Zenon, <1>7 DEF SafeInv, Shape, CloseAll, env
  <2> QED
    BY Zenon, <1>3, <2>1
<1>8. CASE Watcher
  <2>1. ASSUME NEW ok \in BOOLEAN, Subscribe(ok) PROVE Staged'
    <3>1. w'.pc # "attach" /\ host' = host /\ attached' = attached
      BY Zenon, <1>1, <2>1 DEF Subscribe, Goto
    <3> QED
      BY Zenon, <3>1 DEF Staged
  <2>2. ASSUME NEW ok \in BOOLEAN, Enumerate(ok) PROVE Staged'
    <3>1. w'.pc # "attach" /\ host' = host /\ attached' = attached
      BY Zenon, <1>1, <2>2 DEF Enumerate, env
    <3> QED
      BY Zenon, <3>1 DEF Staged
  <2>3. ASSUME NEW l \in w.listed, ListNext(l) PROVE Staged'
    <3> DEFINE next == IF w.listed = {l} THEN "loop" ELSE "list"
    <3>1. next # "attach"
      BY Zenon
    <3>2. w' = InAttach(l, w.listed \ {l}, next) /\ host' = host /\ attached' = attached
      BY Zenon, <2>3 DEF ListNext, env
    <3> HIDE DEF next
    <3> QED
      BY Zenon, <1>4, <3>1, <3>2
  <2>4. ASSUME NEW l \in w.link, NEW result, Call(l, result) PROVE Staged'
    <3>1. /\ w.pc = "attach" /\ w.plan # << >> /\ host' = host /\ attached' = attached
      BY Zenon, <2>4 DEF Call, At, env
    <3>2. Stage(host, w.plan, w.made)
      BY Zenon, <3>1 DEF Staged
    <3>3. /\ Stage(host, Advance(w.plan), w.made \cup Hook(NextCall(w.plan)))
          /\ FallsBack(w.plan, result) =>
                Stage(host, FallBack(w.plan), w.made \ Undone(w.plan, result, w.made))
      BY Zenon, <3>1, <3>2, Stages
    <3>4. \/ w'.plan = Advance(w.plan) /\ w'.made = w.made \cup Hook(NextCall(w.plan))
          \/ /\ FallsBack(w.plan, result) /\ w'.plan = FallBack(w.plan)
             /\ w'.made = w.made \ Undone(w.plan, result, w.made)
          \/ w'.pc # "attach"
      BY Zenon, <1>1, <2>4 DEF Call, Done, Return
    <3> QED
      BY Zenon, <3>1, <3>3, <3>4 DEF Staged
  <2>5. ASSUME NEW l \in w.link, NEW ok \in BOOLEAN, Register(l, ok) PROVE Staged'
    <3>1. /\ w.pc = "attach" /\ w.plan = << >> /\ host' = host
          /\ attached' = Put(attached, l.idx, w.made)
      BY Zenon, <2>5 DEF Register, At, env
    <3>2. w'.pc # "attach"
      BY Zenon, <1>1, <2>5 DEF Register, Done, Return
    <3>3. Stage(host, << >>, w.made)
      BY Zenon, <3>1 DEF Staged
    <3>4. \A i \in DOMAIN attached' :
            attached'[i] = w.made \/ (i \in DOMAIN attached /\ attached'[i] = attached[i])
      BY Zenon, <3>1 DEF Put
    <3> QED
      BY Zenon, <3>1, <3>2, <3>3, <3>4 DEF Staged
  <2>6. CASE ReceiveNew
    <3>1. w' = InAttach(Head(events).link, {}, "loop") /\ host' = host /\ attached' = attached
      BY Zenon, <2>6 DEF ReceiveNew
    <3> QED
      BY Zenon, <1>4, <3>1
  <2>7. CASE ReceiveDel
    <3>1. w.pc # "attach" /\ w' = w /\ Detach({Head(events).link.idx}) /\ host' = host
      BY Zenon, <2>7 DEF ReceiveDel, At
    <3> QED
      BY Zenon, <1>3, <3>1
  <2>8. CASE Finish
    <3>1. w'.pc # "attach" /\ Detach(DOMAIN attached) /\ host' = host
      BY Zenon, <1>1, <2>8 DEF Finish, Goto
    <3> QED
      BY Zenon, <1>3, <3>1
  <2> QED
    BY Zenon, <1>8, <2>1, <2>2, <2>3, <2>4, <2>5, <2>6, <2>7, <2>8 DEF Watcher
<1>9. CASE UNCHANGED vars
  BY Zenon, <1>5, <1>9 DEF vars
<1> QED
  BY Zenon, <1>6, <1>7, <1>8, <1>9 DEF Next

-----------------------------------------------------------------------------
(* Counting hooks. The library's facts about finite sets are not in scope before    *)
(* this: the provers are several times slower with them.                            *)

\* What Cardinality is, for VxlanWatch's instance of FiniteSets.
LEMMA SetsAre ==
    \A S : Cardinality(S) = LET CS[T \in SUBSET S] ==
                                    IF T = {} THEN 0 ELSE 1 + CS[T \ {CHOOSE x : x \in T}]
                            IN  CS[S]
BY Zenon DEF Cardinality

Size(S) == Cardinality(S)
Counting == \A S, T : Paired(S, T) => Size(S) = Size(T)

\* An entry of the table is an attachment at its last stage.
LEMMA Covering ==
    ASSUME SafeInv, Staged, Counting
    PROVE  CoversDirections
<1> SUFFICES ASSUME NEW i \in DOMAIN attached
             PROVE  /\ Covered(attached[i]) = Wanted(host)
                    /\ Cardinality(attached[i]) = Cardinality(Wanted(host))
  BY Zenon DEF CoversDirections
<1>1. host \in Hosts /\ Stage(host, << >>, attached[i])
  BY Zenon, VxlanWatchAssumption DEF SafeInv, TypeOK, Staged
<1> QED
  BY Zenon, <1>1, StagesEnd DEF Counting, Size

LOCAL INSTANCE FiniteSetTheorems

\* The library's instance of FiniteSets defines the same.
LEMMA SameSets == \A S : Cardinality(S) = Size(S)
BY Zenon, SetsAre DEF Cardinality, Size

\* A pair of hooks is two of them.
LEMMA TwoHooks ==
    ASSUME NEW a, NEW b, a # b
    PROVE  Cardinality({a, b}) = 2
<1>1. IsFiniteSet({a}) /\ Cardinality({a}) = 1
  BY Zenon, FS_Singleton
<1>2. Cardinality({a} \cup {b}) = Cardinality({a}) + 1
  BY Zenon, <1>1, FS_AddElement
<1>3. {a} \cup {b} = {a, b}
  BY Zenon
<1> QED
  BY <1>1, <1>2, <1>3

\* Paired sets have as many members.
LEMMA Counted == Counting
<1> SUFFICES ASSUME NEW S, NEW T, Paired(S, T) PROVE Cardinality(S) = Cardinality(T)
  BY Zenon, SameSets DEF Counting
<1>1. CASE \E a, c : S = {a} /\ T = {c}
  BY Zenon, <1>1, FS_Singleton
<1>2. CASE \E a, b, c, d : a # b /\ c # d /\ S = {a, b} /\ T = {c, d}
  <2>1. PICK a, b, c, d : a # b /\ c # d /\ S = {a, b} /\ T = {c, d}
    BY Zenon, <1>2
  <2>2. Cardinality({a, b}) = 2 /\ Cardinality({c, d}) = 2
    BY Zenon, <2>1, TwoHooks
  <2> QED
    BY Zenon, <2>1, <2>2
<1> QED
  BY Zenon, <1>1, <1>2 DEF Paired

\* "XDP is ingress-only; tcEgress additionally attaches the TC egress program": on every
\* host and whatever calls of attachIface fail, a device in the manager's table has a
\* program in each direction asked for, and never two.
THEOREM AttachmentsCover == Spec => []CoversDirections
<1>1. Init => Staged
  <2> SUFFICES ASSUME Init PROVE Staged
    BY Zenon
  <2>1. attached = << >> /\ w.pc # "attach"
    BY Zenon DEF Init
  <2> QED
    BY Zenon, <2>1, NoEntries DEF Staged
<1>2. SafeInv /\ Staged => CoversDirections
  BY Zenon, Covering, Counted
<1> QED
  BY PTL, <1>1, <1>2, SafeInvariant, StagedStep DEF Spec
=============================================================================
