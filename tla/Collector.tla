----------------------------- MODULE Collector ------------------------------
(***************************************************************************)
(* The collector (collector/main.go): agents POST observations, which are  *)
(* grouped by run id in a bounded in-memory store, and GET /path returns a *)
(* run sorted by hop, then by timestamp.                                   *)
(*                                                                         *)
(* Every store method holds the mutex from its first to its last line, so  *)
(* each is one step, and the concurrent HTTP handlers interleave whole     *)
(* calls of add.  The readers path and ids change nothing and are          *)
(* operators.                                                              *)
(***************************************************************************)
EXTENDS Naturals, Sequences, FiniteSets

CONSTANTS
    Id,         \* run ids; NoId is the empty one
    NoId,
    Obs,        \* observations: [id, hop, ts, at], see below
    Cap,        \* --max-runs
    MaxObs,     \* maxObsPerRun
    MaxPosts    \* bound on the number of observations accepted

\* ts is the timestamp as the agent printed it, as character codes; at is the
\* instant it was printed from, which the collector does not see.
ASSUME CollectorAssumption ==
    /\ NoId \notin Id
    /\ Cap \in Nat /\ MaxObs \in Nat \ {0} /\ MaxPosts \in Nat
    /\ \A o \in Obs : /\ o.id \in Id \cup {NoId}
                      /\ o.hop \in Nat /\ o.at \in Nat
                      /\ o.ts \in Seq(Nat)

\* The bodies and methods of requests to "/".
Request == [method: {"POST", "GET"}, decodes: BOOLEAN, obs: Obs]

VARIABLES
    runs,       \* the map; a missing key reads as the empty slice, and no key
                \* is stored with one
    order,      \* ids in the order they were inserted
    hist,       \* history: every observation accepted
    born        \* history: where in hist the current run of an id began

vars == <<runs, order, hist, born>>

Stored == {id \in Id : runs[id] # <<>>}

-----------------------------------------------------------------------------
(* The store.                                                              *)

\* Fault: one run too many is kept.
Excess_Late(ids) == IF Len(ids) > Cap + 1 THEN Len(ids) - (Cap + 1) ELSE 0

\* The eviction loop of add, `for len(s.order) > s.cap`: how many ids it takes
\* off the front.
Excess(ids) == IF Len(ids) > Cap THEN Len(ids) - Cap ELSE 0

\* Fault: the run's slice is not deleted with its id.
Without_Leak(rs, gone) == rs

\* `delete(s.runs, old)` for every id taken off.
Without(rs, gone) == [id \in Id |-> IF id \in gone THEN <<>> ELSE rs[id]]

\* Fault: an insertion replaces what the run has when it is full.
Insert_Wrap(rs, o) ==
    [rs EXCEPT ![o.id] = IF Len(@) >= MaxObs THEN Append(Tail(@), o) ELSE Append(@, o)]

\* The per-run cap, and the append.
Insert(rs, o) ==
    [rs EXCEPT ![o.id] = IF Len(@) >= MaxObs THEN @ ELSE Append(@, o)]

\* store.add, for an id that has no run and for one that has.
AddNew(o) ==
    LET ids == Append(order, o.id)
        n == Excess(ids)
        gone == {ids[i] : i \in 1..n}
    IN  /\ o.id \notin Stored
        /\ order' = SubSeq(ids, n + 1, Len(ids))
        /\ runs' = Insert(Without(runs, gone), o)
        /\ born' = [born EXCEPT ![o.id] = Len(hist) + 1]

\* A further post does not move its run: runs are evicted in the order they began.
AddMore(o) ==
    /\ o.id \in Stored
    /\ runs' = Insert(runs, o)
    /\ UNCHANGED <<order, born>>

Add(o) ==
    /\ AddNew(o) \/ AddMore(o)
    /\ hist' = Append(hist, o)

\* The handler of "/": 405, 400 and 400 leave the store alone.
Root(req) ==
    IF req.method = "POST" /\ req.decodes /\ req.obs.id # NoId
    THEN Len(hist) < MaxPosts /\ Add(req.obs)
    ELSE UNCHANGED vars

\* String comparison, as Go's < does it.
Less(s, t) ==
    \E i \in 1..Len(t) :
        /\ Len(s) >= i - 1
        /\ \A j \in 1..(i - 1) : s[j] = t[j]
        /\ i > Len(s) \/ s[i] < t[i]

\* Fault: by time, then by hop.
Before_TimeFirst(a, b) == Less(a.ts, b.ts) \/ (a.ts = b.ts /\ a.hop < b.hop)

\* The less function of path.
Before(a, b) == IF a.hop # b.hop THEN a.hop < b.hop ELSE Less(a.ts, b.ts)

\* sort.SliceStable: the element that ends at place i is the one with i - 1
\* elements before it, equals keeping their order.
SliceStable(s) ==
    LET ahead(k) == {j \in DOMAIN s : Before(s[j], s[k]) \/ (~Before(s[k], s[j]) /\ j < k)}
    IN  [i \in DOMAIN s |-> s[CHOOSE k \in DOMAIN s : Cardinality(ahead(k)) = i - 1]]

\* store.path and store.ids.
Path(id) == SliceStable(runs[id])
Ids == [i \in DOMAIN order |-> [id |-> order[i], count |-> Len(runs[order[i]])]]

-----------------------------------------------------------------------------

Init ==
    /\ runs = [id \in Id |-> <<>>]
    /\ order = <<>>
    /\ hist = <<>>
    /\ born = [id \in Id |-> 0]

Next == \E req \in Request : Root(req)

Spec == Init /\ [][Next]_vars

-----------------------------------------------------------------------------
(* Properties.                                                             *)

TypeOK ==
    /\ runs \in [Id -> Seq(Obs)]
    /\ order \in Seq(Id)
    /\ hist \in Seq(Obs)
    /\ born \in [Id -> Nat]

\* The two halves of the store agree: order lists exactly the ids that have a
\* run, each once, so that eviction finds every run and /paths counts none twice.
OrderMatchesRuns ==
    /\ \A i, j \in DOMAIN order : order[i] = order[j] => i = j
    /\ {order[i] : i \in DOMAIN order} = Stored
    /\ \A i \in DOMAIN Ids : Ids[i].count # 0

\* "max number of runs retained" (field cap) and maxObsPerRun.
Bounded ==
    /\ Cardinality(Stored) <= Cap
    /\ \A id \in Id : Len(runs[id]) <= MaxObs

\* Where in hist the posts for id are since its run began, and which of them is
\* the one at j.
Posts(id) == {j \in born[id]..Len(hist) : hist[j].id = id}
Nth(id, j) == Cardinality({k \in Posts(id) : k <= j})

\* What a run holds is the beginning of what was posted for its id since the run
\* began, complete up to the per-run cap and in the order it was posted: nothing
\* is lost, doubled or left over from an evicted run of the same id.
RunsReflectPosts ==
    \A id \in Stored :
        LET count == Cardinality(Posts(id))
        IN  /\ Len(runs[id]) = IF count < MaxObs THEN count ELSE MaxObs
            /\ \A j \in Posts(id) :
                   Nth(id, j) <= MaxObs => runs[id][Nth(id, j)] = hist[j]

\* "insertion order of ids, for eviction" (collector/main.go): runs leave in the order
\* they began, however recently they were posted to or read.  README.en.md calls
\* --max-runs "LRU-evicted", which this is not.
EvictsOldest ==
    \A i, j \in DOMAIN order : i < j => born[order[i]] < born[order[j]]

\* The agents' timestamps compare as the instants they were printed from.
StampsInOrder == \A o, p \in Obs : Less(o.ts, p.ts) <=> o.at < p.at

\* "the run's observations, ordered by hop then time" (collector/main.go).
PathInTimeOrder ==
    \A id \in Id : LET p == Path(id) IN
        \A i, j \in DOMAIN p :
            i < j => p[i].hop < p[j].hop \/ (p[i].hop = p[j].hop /\ p[i].at <= p[j].at)

EvictionStep ==
    \A id \in Stored : runs'[id] = <<>> => id = order[1] /\ Len(order) = Cap /\ order' # order

\* A call of add takes away at most the run at the head of order, and only to make room.
EvictsOnlyToMakeRoom == [][EvictionStep]_vars
=============================================================================
