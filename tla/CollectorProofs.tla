-------------------------- MODULE CollectorProofs ---------------------------
(***************************************************************************)
(* What holds of the collector's store for any number of runs, any cap of  *)
(* at least one and any stream of observations.                            *)
(***************************************************************************)
EXTENDS Collector, Timestamps, SequenceTheorems, FunctionTheorems, FiniteSetTheorems, TLAPS

\* The parts of the inductive invariant besides the types.
Distinct == \A i, j \in DOMAIN order : order[i] = order[j] => i = j
Listed == \A id \in Id : (\E i \in DOMAIN order : order[i] = id) <=> runs[id] # <<>>
BornInPast == \A id \in Id : born[id] <= Len(hist)
RunBounded == \A id \in Id : Len(runs[id]) <= MaxObs

StoreInv ==
    /\ TypeOK /\ Distinct /\ Listed /\ BornInPast /\ RunBounded /\ EvictsOldest
    /\ Len(order) <= Cap

\* Inserting an observation makes its run non-empty, leaves the others alone and
\* respects the per-run cap.
LEMMA InsertProperties ==
    ASSUME NEW rs \in [Id -> Seq(Obs)], NEW o \in Obs, o.id \in Id,
           \A id \in Id : Len(rs[id]) <= MaxObs
    PROVE  /\ Insert(rs, o) \in [Id -> Seq(Obs)]
           /\ Insert(rs, o)[o.id] # <<>>
           /\ \A id \in Id : id # o.id => Insert(rs, o)[id] = rs[id]
           /\ \A id \in Id : Len(Insert(rs, o)[id]) <= MaxObs
<1>1. rs[o.id] \in Seq(Obs) /\ Len(rs[o.id]) \in Nat /\ MaxObs \in Nat \ {0}
  BY Zenon, LenProperties, CollectorAssumption
<1>2. CASE Len(rs[o.id]) >= MaxObs
  BY <1>1, <1>2 DEF Insert
<1>3. CASE ~(Len(rs[o.id]) >= MaxObs)
  <2>1. /\ Append(rs[o.id], o) \in Seq(Obs) /\ Append(rs[o.id], o) # <<>>
        /\ Len(Append(rs[o.id], o)) = Len(rs[o.id]) + 1
    BY <1>1, AppendProperties
  <2>2. Len(Append(rs[o.id], o)) <= MaxObs
    BY <1>1, <1>3, <2>1
  <2> QED
    BY Zenon, <1>3, <2>1, <2>2 DEF Insert
<1> QED
  BY Zenon, <1>2, <1>3

\* Deleting runs deletes exactly those.
LEMMA WithoutProperties ==
    ASSUME NEW rs \in [Id -> Seq(Obs)], NEW gone,
           \A id \in Id : Len(rs[id]) <= MaxObs
    PROVE  /\ Without(rs, gone) \in [Id -> Seq(Obs)]
           /\ \A id \in Id : Without(rs, gone)[id] = IF id \in gone THEN <<>> ELSE rs[id]
           /\ \A id \in Id : Len(Without(rs, gone)[id]) <= MaxObs
<1>1. \A id \in Id : Without(rs, gone)[id] = IF id \in gone THEN <<>> ELSE rs[id]
  BY Zenon DEF Without
<1>2. <<>> \in Seq(Obs) /\ Len(<<>>) = 0 /\ MaxObs \in Nat
  BY Zenon, EmptySeq, CollectorAssumption
<1>3. Without(rs, gone) \in [Id -> Seq(Obs)]
  BY Zenon, <1>2 DEF Without
<1> QED
  BY <1>1, <1>2, <1>3

\* With room for one run at least, the eviction loop runs at most once, and then
\* takes the oldest run and not the new one.
LEMMA QueueProperties ==
    ASSUME NEW ids \in Seq(Id), Len(ids) <= Cap + 1, Cap > 0
    PROVE  LET n == Excess(ids)
               rest == SubSeq(ids, n + 1, Len(ids))
           IN  /\ n \in {0, 1} /\ (n = 1 <=> Len(ids) = Cap + 1)
               /\ rest \in Seq(Id) /\ Len(rest) = Len(ids) - n /\ Len(rest) <= Cap
               /\ DOMAIN rest = 1..(Len(ids) - n)
               /\ \A i \in DOMAIN rest : rest[i] = ids[i + n] /\ i + n \in DOMAIN ids
<1> DEFINE n == Excess(ids)
           rest == SubSeq(ids, n + 1, Len(ids))
<1>1. Len(ids) \in Nat /\ Cap \in Nat /\ DOMAIN ids = 1..Len(ids)
  BY Zenon, LenProperties, CollectorAssumption
<1>2. n \in {0, 1} /\ (n = 1 <=> Len(ids) = Cap + 1) /\ Len(ids) - n <= Cap /\ n <= Len(ids)
  <2>1. \A l, c \in Nat : l <= c + 1 /\ c > 0 =>
          LET m == IF l > c THEN l - c ELSE 0
          IN  m \in {0, 1} /\ (m = 1 <=> l = c + 1) /\ l - m <= c /\ m <= l
    OBVIOUS
  <2> QED
    BY Zenon, <1>1, <2>1 DEF Excess
<1> HIDE DEF n
<1>3. n + 1 \in Int /\ Len(ids) \in Int /\ \A i \in (n + 1)..Len(ids) : ids[i] \in Id
  <2>1. n \in Nat
    BY <1>2
  <2>2. (n + 1)..Len(ids) \subseteq 1..Len(ids)
    BY <1>1, <2>1
  <2> QED
    BY <1>1, <2>1, <2>2, ElementOfSeq
<1>4. /\ rest \in Seq(Id)
      /\ Len(rest) = IF n + 1 <= Len(ids) THEN Len(ids) - (n + 1) + 1 ELSE 0
      /\ \A i \in 1..(Len(ids) - (n + 1) + 1) : rest[i] = ids[(n + 1) + i - 1]
  BY <1>3, SubSeqProperties
<1> HIDE DEF rest
<1>5. Len(rest) = Len(ids) - n
  <2>1. \A l, m \in Nat : m <= l => (IF m + 1 <= l THEN l - (m + 1) + 1 ELSE 0) = l - m
    OBVIOUS
  <2>2. n \in Nat /\ n <= Len(ids)
    BY <1>2
  <2>3. (IF n + 1 <= Len(ids) THEN Len(ids) - (n + 1) + 1 ELSE 0) = Len(ids) - n
    BY Zenon, <1>1, <2>1, <2>2
  <2> QED
    BY <1>4, <2>3
<1>6. DOMAIN rest = 1..(Len(ids) - n)
  BY Zenon, <1>4, <1>5, LenProperties
<1>7. ASSUME NEW i \in DOMAIN rest PROVE rest[i] = ids[i + n] /\ i + n \in DOMAIN ids
  <2>1. i \in 1..(Len(ids) - (n + 1) + 1) /\ (n + 1) + i - 1 = i + n /\ i + n \in 1..Len(ids)
    <3>1. \A l, m \in Nat : \A x \in 1..(l - m) :
            x \in 1..(l - (m + 1) + 1) /\ (m + 1) + x - 1 = x + m /\ x + m \in 1..l
      OBVIOUS
    <3>2. n \in Nat
      BY <1>2
    <3> QED
      BY Zenon, <1>1, <1>6, <1>7, <3>1, <3>2
  <2> QED
    BY Zenon, <1>1, <1>4, <2>1
<1> QED
  BY Zenon, <1>2, <1>4, <1>5, <1>6, <1>7 DEF n, rest

-----------------------------------------------------------------------------
(* Preservation.                                                           *)

\* A post for an id without a run (the branch of add with the eviction loop).
LEMMA AddNewStore ==
    ASSUME StoreInv, Cap > 0, NEW o \in Obs, o.id \in Id, AddNew(o), hist' = Append(hist, o)
    PROVE  /\ StoreInv'
           /\ \A id \in Id : runs[id] # <<>> /\ runs'[id] = <<>> =>
                  id = order[1] /\ Len(order) = Cap /\ order' # order
<1> DEFINE ids == Append(order, o.id)
           n == Excess(ids)
           rest == SubSeq(ids, n + 1, Len(ids))
           gone == {ids[i] : i \in 1..n}
           L == Len(order)
<1>1. /\ order \in Seq(Id) /\ Len(order) \in Nat /\ DOMAIN order = 1..Len(order)
      /\ Cap \in Nat /\ Len(order) <= Cap /\ runs \in [Id -> Seq(Obs)]
      /\ hist \in Seq(Obs) /\ Len(hist) \in Nat /\ born \in [Id -> Nat]
  BY Zenon, LenProperties, CollectorAssumption DEF StoreInv, TypeOK
<1>2. /\ ids \in Seq(Id) /\ Len(ids) = Len(order) + 1 /\ DOMAIN ids = 1..Len(ids)
      /\ \A i \in 1..Len(order) : ids[i] = order[i]
      /\ ids[Len(order) + 1] = o.id
  BY <1>1, AppendProperties, LenProperties
<1> HIDE DEF ids
<1>3. Len(ids) <= Cap + 1
  BY <1>1, <1>2
<1>4. /\ n \in {0, 1} /\ (n = 1 <=> Len(ids) = Cap + 1)
      /\ rest \in Seq(Id) /\ Len(rest) = Len(ids) - n /\ Len(rest) <= Cap
      /\ DOMAIN rest = 1..(Len(ids) - n)
      /\ \A i \in DOMAIN rest : rest[i] = ids[i + n] /\ i + n \in DOMAIN ids
  BY Zenon, <1>2, <1>3, QueueProperties
<1>5. order' = rest /\ runs' = Insert(Without(runs, gone), o) /\ runs[o.id] = <<>>
      /\ born' = [born EXCEPT ![o.id] = Len(hist) + 1]
  BY Zenon DEF AddNew, Stored, ids
<1> HIDE DEF n, rest
<1>a. /\ L \in Nat /\ DOMAIN order = 1..L /\ DOMAIN ids = 1..(L + 1) /\ L <= Cap
      /\ Len(ids) = L + 1
      /\ \A i \in 1..L : ids[i] = order[i]
      /\ ids[L + 1] = o.id
  BY Zenon, <1>1, <1>2
<1> HIDE DEF L
<1>b. n \in Nat /\ (n = 0 \/ n = 1) /\ (n = 1 <=> L = Cap) /\ DOMAIN order' = 1..(L + 1 - n)
  <2>1. n = 1 <=> L + 1 = Cap + 1
    BY Zenon, <1>4, <1>a
  <2>2. DOMAIN order' = 1..(L + 1 - n)
    BY <1>4, <1>5, <1>a
  <2>3. n \in Nat /\ (n = 0 \/ n = 1)
    BY <1>4
  <2>4. n = 1 <=> L = Cap
    BY <1>1, <1>a, <2>1
  <2> QED
    BY Zenon, <2>2, <2>3, <2>4
<1>6. o.id \notin {order[i] : i \in DOMAIN order}
  BY Zenon, <1>5 DEF StoreInv, Listed
<1>7. gone = IF n = 1 THEN {order[1]} ELSE {}
  <2>1. CASE n = 1
    <3>1. 1 \in 1..L
      BY <1>1, <1>a, <1>b, <2>1
    <3>2. ids[1] = order[1] /\ 1..n = {1}
      BY <1>a, <2>1, <3>1
    <3> QED
      BY Zenon, <2>1, <3>2
  <2>2. CASE n = 0
    BY <2>2
  <2> QED
    BY Zenon, <1>4, <2>1, <2>2
<1>8. \A i, j \in DOMAIN ids : ids[i] = ids[j] => i = j
  <2> SUFFICES ASSUME NEW i \in 1..(L + 1), NEW j \in 1..(L + 1), ids[i] = ids[j], i < j
               PROVE  FALSE
    BY <1>a
  <2>1. i \in 1..L
    BY <1>a
  <2>2. CASE j \in 1..L
    BY <1>a, <2>1, <2>2 DEF StoreInv, Distinct
  <2>3. CASE j = L + 1
    BY Zenon, <1>6, <1>a, <2>1, <2>3
  <2> QED
    BY <1>a, <2>2, <2>3
<1>9. o.id \notin gone
  <2>1. n = 1 => 1 \in DOMAIN order
    BY <1>1, <1>a, <1>b
  <2> QED
    BY Zenon, <1>6, <1>7, <2>1
<1> HIDE DEF gone
<1>10. /\ runs' \in [Id -> Seq(Obs)] /\ RunBounded' /\ runs'[o.id] # <<>>
       /\ \A id \in Id : id # o.id => runs'[id] = IF id \in gone THEN <<>> ELSE runs[id]
  <2>1. \A id \in Id : Len(runs[id]) <= MaxObs
    BY Zenon DEF StoreInv, RunBounded
  <2>2. /\ Without(runs, gone) \in [Id -> Seq(Obs)]
        /\ \A id \in Id : Without(runs, gone)[id] = IF id \in gone THEN <<>> ELSE runs[id]
        /\ \A id \in Id : Len(Without(runs, gone)[id]) <= MaxObs
    BY Zenon, <1>1, <2>1, WithoutProperties
  <2>3. ASSUME NEW rs \in [Id -> Seq(Obs)], \A id \in Id : Len(rs[id]) <= MaxObs
        PROVE  /\ Insert(rs, o) \in [Id -> Seq(Obs)]
               /\ Insert(rs, o)[o.id] # <<>>
               /\ \A id \in Id : id # o.id => Insert(rs, o)[id] = rs[id]
               /\ \A id \in Id : Len(Insert(rs, o)[id]) <= MaxObs
    BY Zenon, <2>3, InsertProperties
  <2> DEFINE kept == Without(runs, gone)
  <2> HIDE DEF kept
  <2>4. kept \in [Id -> Seq(Obs)] /\ \A id \in Id : Len(kept[id]) <= MaxObs
    BY Zenon, <2>2 DEF kept
  <2>5. \A id \in Id : kept[id] = IF id \in gone THEN <<>> ELSE runs[id]
    BY Zenon, <2>2 DEF kept
  <2>6. runs' = Insert(kept, o)
    BY Zenon, <1>5 DEF kept
  <2>7. /\ Insert(kept, o) \in [Id -> Seq(Obs)]
        /\ Insert(kept, o)[o.id] # <<>>
        /\ \A id \in Id : id # o.id => Insert(kept, o)[id] = kept[id]
        /\ \A id \in Id : Len(Insert(kept, o)[id]) <= MaxObs
    BY Zenon, <2>3, <2>4
  <2> QED
    BY Zenon, <2>5, <2>6, <2>7 DEF RunBounded
<1>11. \A i \in DOMAIN order' : order'[i] = ids[i + n] /\ i + n \in DOMAIN ids /\ i \in Nat
  BY <1>4, <1>5
<1>12. TypeOK'
  <2>1. hist' \in Seq(Obs)
    BY Zenon, <1>1, AppendProperties
  <2>2. born' \in [Id -> Nat]
    BY <1>1, <1>5
  <2> QED
    BY Zenon, <1>4, <1>5, <1>10, <2>1, <2>2 DEF TypeOK
<1>13. Distinct'
  BY <1>4, <1>8, <1>11 DEF Distinct
<1>14. Listed'
  <2> SUFFICES ASSUME NEW id \in Id
               PROVE  (\E i \in DOMAIN order' : order'[i] = id) <=> runs'[id] # <<>>
    BY Zenon DEF Listed
  <2>1. (\E i \in DOMAIN order' : order'[i] = id) <=> (\E j \in DOMAIN ids : j > n /\ ids[j] = id)
    <3>1. ASSUME NEW j \in DOMAIN ids, j > n PROVE \E i \in DOMAIN order' : order'[i] = ids[j]
      <4>1. j - n \in DOMAIN order' /\ (j - n) + n = j
        BY <1>a, <1>b, <3>1
      <4> QED
        BY Zenon, <1>11, <4>1
    <3>2. \A i \in DOMAIN order' : i + n > n
      BY <1>a, <1>b
    <3> QED
      BY Zenon, <1>11, <3>1, <3>2
  <2>2. (\E j \in DOMAIN ids : j > n /\ ids[j] = id) <=>
            id \notin gone /\ (\E j \in DOMAIN ids : ids[j] = id)
    <3>1. CASE n = 0
      BY <1>a, <1>7, <3>1
    <3>2. CASE n = 1
      <4>1. 1 \in DOMAIN ids /\ ids[1] = order[1] /\ gone = {ids[1]}
        BY <1>1, <1>a, <1>b, <1>7, <3>2
      <4>2. \A j \in DOMAIN ids : j > 1 <=> ids[j] # ids[1]
        BY <1>a, <1>8, <4>1
      <4> QED
        BY Zenon, <3>2, <4>1, <4>2
    <3> QED
      BY Zenon, <1>4, <3>1, <3>2
  <2>3. (\E j \in DOMAIN ids : ids[j] = id) <=> (id = o.id \/ \E j \in DOMAIN order : order[j] = id)
    <3>1. \A j \in 1..(L + 1) : j \in 1..L \/ j = L + 1
      BY <1>a
    <3>2. L + 1 \in 1..(L + 1) /\ 1..L \subseteq 1..(L + 1)
      BY <1>a
    <3> QED
      BY Zenon, <1>a, <3>1, <3>2
  <2>4. (\E j \in DOMAIN order : order[j] = id) <=> runs[id] # <<>>
    BY Zenon DEF StoreInv, Listed
  <2> QED
    BY Zenon, <1>9, <1>10, <2>1, <2>2, <2>3, <2>4
<1>15. Len(hist') = Len(hist) + 1
  BY Zenon, <1>1, AppendProperties
<1>16. BornInPast'
  BY <1>1, <1>5, <1>15 DEF StoreInv, BornInPast
<1>17. EvictsOldest'
  <2> SUFFICES ASSUME NEW i \in DOMAIN order', NEW j \in DOMAIN order', i < j
               PROVE  born'[order'[i]] < born'[order'[j]]
    BY Zenon DEF EvictsOldest
  <2>1. /\ order'[i] = ids[i + n] /\ order'[j] = ids[j + n]
        /\ i + n \in 1..L /\ j + n \in 1..(L + 1) /\ i + n < j + n
    BY <1>a, <1>b, <1>11
  <2>2. /\ order'[i] = order[i + n] /\ order'[i] # o.id /\ order'[i] \in Id
        /\ born'[order'[i]] = born[order[i + n]]
    <3>1. order'[i] = order[i + n]
      BY Zenon, <1>a, <2>1
    <3>2. order[i + n] # o.id /\ order[i + n] \in Id
      BY Zenon, <1>1, <1>a, <1>6, <2>1, ElementOfSeq
    <3> QED
      BY Zenon, <1>1, <1>5, <3>1, <3>2
  <2>3. CASE j + n = L + 1
    <3>1. born'[order'[j]] = Len(hist) + 1
      BY Zenon, <1>1, <1>a, <1>5, <2>1, <2>3
    <3>2. born[order[i + n]] <= Len(hist) /\ born[order[i + n]] \in Nat
      BY Zenon, <1>1, <2>2 DEF StoreInv, BornInPast
    <3> QED
      BY <1>1, <2>2, <3>1, <3>2
  <2>4. CASE j + n # L + 1
    <3>1. j + n \in 1..L
      BY <1>a, <2>1, <2>4
    <3>2. order'[j] = order[j + n] /\ order'[j] # o.id /\ order'[j] \in Id
      <4>1. order'[j] = order[j + n]
        BY Zenon, <1>a, <2>1, <3>1
      <4> QED
        BY <1>1, <1>a, <1>6, <3>1, <4>1, ElementOfSeq
    <3>3. born'[order'[j]] = born[order[j + n]]
      BY Zenon, <1>1, <1>5, <3>2
    <3> QED
      BY <1>a, <2>1, <2>2, <3>1, <3>3 DEF StoreInv, EvictsOldest
  <2> QED
    BY Zenon, <2>3, <2>4
<1>18. ASSUME NEW id \in Id, runs[id] # <<>>, runs'[id] = <<>>
       PROVE  id = order[1] /\ Len(order) = Cap /\ order' # order
  <2>1. id \in gone /\ n = 1 /\ id = order[1]
    BY Zenon, <1>7, <1>10, <1>18
  <2>2. Len(order) = Cap
    BY Zenon, <1>b, <2>1 DEF L
  <2>3. \E i \in DOMAIN order : order[i] = id
    BY Zenon, <1>18 DEF StoreInv, Listed
  <2>4. ~\E i \in DOMAIN order' : order'[i] = id
    BY Zenon, <1>14, <1>18 DEF Listed
  <2> QED
    BY Zenon, <2>1, <2>2, <2>3, <2>4
<1> QED
  BY Zenon, <1>4, <1>5, <1>10, <1>12, <1>13, <1>14, <1>16, <1>17, <1>18 DEF StoreInv

\* A post for an id that has a run changes only that run.
LEMMA AddMoreStore ==
    ASSUME StoreInv, NEW o \in Obs, o.id \in Id, AddMore(o), hist' = Append(hist, o)
    PROVE  /\ StoreInv'
           /\ \A id \in Id : runs[id] # <<>> => runs'[id] # <<>>
<1>1. /\ runs \in [Id -> Seq(Obs)] /\ hist \in Seq(Obs) /\ Len(hist) \in Nat /\ born \in [Id -> Nat]
      /\ \A id \in Id : Len(runs[id]) <= MaxObs
  BY Zenon, LenProperties DEF StoreInv, TypeOK, RunBounded
<1>2. runs' = Insert(runs, o) /\ order' = order /\ born' = born /\ runs[o.id] # <<>>
  BY Zenon DEF AddMore, Stored
<1>3. /\ runs' \in [Id -> Seq(Obs)] /\ runs'[o.id] # <<>>
      /\ \A id \in Id : id # o.id => runs'[id] = runs[id]
      /\ RunBounded'
  BY Zenon, <1>1, <1>2, InsertProperties DEF RunBounded
<1>4. hist' \in Seq(Obs) /\ Len(hist') = Len(hist) + 1
  BY Zenon, <1>1, AppendProperties
<1>5. TypeOK'
  BY Zenon, <1>2, <1>3, <1>4 DEF StoreInv, TypeOK
<1>6. Distinct' /\ EvictsOldest' /\ Len(order') <= Cap
  BY Zenon, <1>2 DEF StoreInv, Distinct, EvictsOldest
<1>7. Listed'
  BY Zenon, <1>2, <1>3 DEF StoreInv, Listed
<1>8. BornInPast'
  BY <1>1, <1>2, <1>4 DEF StoreInv, BornInPast
<1> QED
  BY Zenon, <1>2, <1>3, <1>5, <1>6, <1>7, <1>8 DEF StoreInv

\* One request, whichever it is.
LEMMA StoreStep ==
    ASSUME StoreInv, Cap > 0, [Next]_vars
    PROVE  StoreInv' /\ (EvictionStep \/ UNCHANGED vars)
<1>1. CASE UNCHANGED vars
  BY Zenon, <1>1 DEF vars, StoreInv, TypeOK, Distinct, Listed, BornInPast, RunBounded, EvictsOldest
<1>2. ASSUME NEW req \in Request, Root(req), req.method = "POST", req.decodes, req.obs.id # NoId
      PROVE  StoreInv' /\ EvictionStep
  <2> DEFINE o == req.obs
  <2>1. o \in Obs /\ o.id \in Id
    BY Zenon, <1>2, CollectorAssumption DEF Request
  <2>2. (AddNew(o) \/ AddMore(o)) /\ hist' = Append(hist, o)
    BY Zenon, <1>2 DEF Root, Add
  <2> HIDE DEF o
  <2>3. CASE AddNew(o)
    BY Zenon, <2>1, <2>2, <2>3, AddNewStore DEF EvictionStep, Stored
  <2>4. CASE AddMore(o)
    BY Zenon, <2>1, <2>2, <2>4, AddMoreStore DEF EvictionStep, Stored
  <2> QED
    BY Zenon, <2>2, <2>3, <2>4
<1>3. ASSUME NEW req \in Request, Root(req),
             ~(req.method = "POST" /\ req.decodes /\ req.obs.id # NoId)
      PROVE  UNCHANGED vars
  BY Zenon, <1>3 DEF Root
<1> QED
  BY Zenon, <1>1, <1>2, <1>3 DEF Next

-----------------------------------------------------------------------------
(* Theorems.                                                               *)

\* The inductive invariant of the store, for --max-runs of at least 1.
THEOREM StoreInvariant == ASSUME Cap > 0 PROVE Spec => []StoreInv
<1>1. Init => StoreInv
  <2> SUFFICES ASSUME Init PROVE StoreInv
    OBVIOUS
  <2>1. <<>> \in Seq(Obs) /\ <<>> \in Seq(Id) /\ Len(<<>>) = 0
    BY Zenon, EmptySeq
  <2>2. DOMAIN order = {}
    BY DEF Init
  <2>3. TypeOK /\ Len(order) <= Cap /\ RunBounded /\ BornInPast
    BY <2>1, CollectorAssumption DEF Init, TypeOK, RunBounded, BornInPast
  <2> QED
    BY Zenon, <2>2, <2>3 DEF Init, StoreInv, Distinct, Listed, EvictsOldest
<1>2. StoreInv /\ [Next]_vars => StoreInv'
  BY Zenon, StoreStep
<1> QED
  BY <1>1, <1>2, PTL DEF Spec

\* order and runs describe the same runs, each listed once and none empty.
THEOREM OrderMatches == ASSUME Cap > 0 PROVE Spec => []OrderMatchesRuns
<1>1. StoreInv => OrderMatchesRuns
  <2> SUFFICES ASSUME StoreInv PROVE OrderMatchesRuns
    OBVIOUS
  <2>1. \A i \in DOMAIN order : order[i] \in Id /\ runs[order[i]] # <<>>
    BY ElementOfSeq DEF StoreInv, TypeOK, Listed
  <2>2. {order[i] : i \in DOMAIN order} = Stored
    BY Zenon, <2>1 DEF StoreInv, Listed, Stored
  <2>3. \A i \in DOMAIN Ids : Ids[i].count # 0
    <3>1. \A s \in Seq(Obs) : s # <<>> => Len(s) # 0
      BY Zenon, EmptySeq
    <3> QED
      BY Zenon, <2>1, <3>1 DEF StoreInv, TypeOK, Ids
  <2> QED
    BY Zenon, <2>2, <2>3 DEF StoreInv, Distinct, OrderMatchesRuns
<1> QED
  BY <1>1, StoreInvariant, PTL

\* No more than --max-runs runs are retained, and no more than maxObsPerRun
\* observations of each.
THEOREM MemoryBounded == ASSUME Cap > 0 PROVE Spec => []Bounded
<1>1. StoreInv => Bounded
  <2> SUFFICES ASSUME StoreInv PROVE Bounded
    OBVIOUS
  <2>1. order \in Seq(Id) /\ Len(order) \in Nat /\ DOMAIN order = 1..Len(order) /\ Len(order) <= Cap
    BY Zenon, LenProperties DEF StoreInv, TypeOK
  <2>2. order \in [1..Len(order) -> Stored] /\ \A id \in Stored : \E i \in 1..Len(order) : order[i] = id
    BY <2>1, ElementOfSeq DEF StoreInv, Listed, Stored
  <2>3. order \in Surjection(1..Len(order), Stored)
    BY Zenon, <2>2, Fun_IsSurj
  <2>4. IsFiniteSet(1..Len(order)) /\ Cardinality(1..Len(order)) = Len(order)
    BY <2>1, FS_Interval
  <2>5. IsFiniteSet(Stored) /\ Cardinality(Stored) <= Cardinality(1..Len(order))
    BY Zenon, <2>3, <2>4, FS_Surjection
  <2>6. Cardinality(Stored) \in Nat
    BY Zenon, <2>5, FS_CardinalityType
  <2>7. Cardinality(Stored) <= Cap
    BY <2>1, <2>4, <2>5, <2>6, CollectorAssumption
  <2> QED
    BY Zenon, <2>7 DEF StoreInv, RunBounded, Bounded
<1> QED
  BY <1>1, StoreInvariant, PTL

\* Runs leave in the order of their first posts, later ones make no difference (add), and
\* a step takes away only the run that began first, and only when the store is full.
THEOREM EvictionOrder == ASSUME Cap > 0 PROVE Spec => []EvictsOldest /\ EvictsOnlyToMakeRoom
<1>1. StoreInv => EvictsOldest
  BY Zenon DEF StoreInv
<1>2. StoreInv /\ [Next]_vars => [EvictionStep]_vars
  BY Zenon, StoreStep
<1> QED
  BY <1>1, <1>2, StoreInvariant, PTL DEF Spec, EvictsOnlyToMakeRoom
-----------------------------------------------------------------------------
(* What a run holds.                                                       *)

\* A run began with a post.
BornWithPost == \A id \in Id : runs[id] # <<>> => born[id] >= 1
ReflectInv == StoreInv /\ BornWithPost /\ RunsReflectPosts

\* The posts of an id up to a position are finitely many, and no more than all.
LEMMA PostsFinite ==
    ASSUME TypeOK, NEW id \in Id
    PROVE  /\ IsFiniteSet(Posts(id)) /\ Cardinality(Posts(id)) \in Nat
           /\ \A j \in Posts(id) : Nth(id, j) \in 1..Cardinality(Posts(id))
<1>1. born[id] \in Nat /\ Len(hist) \in Nat
  BY Zenon, LenProperties DEF TypeOK
<1>2. IsFiniteSet(born[id]..Len(hist))
  BY <1>1, FS_Interval
<1>3. Posts(id) \in SUBSET (born[id]..Len(hist))
  BY Zenon DEF Posts
<1>4. IsFiniteSet(Posts(id)) /\ Cardinality(Posts(id)) \in Nat
  BY Zenon, <1>2, <1>3, FS_Subset, FS_CardinalityType
<1>5. ASSUME NEW j \in Posts(id) PROVE Nth(id, j) \in 1..Cardinality(Posts(id))
  <2> DEFINE T == {k \in Posts(id) : k <= j}
  <2>1. T \in SUBSET Posts(id)
    BY Zenon
  <2>2. j <= j
    BY <1>1, <1>3
  <2>3. T # {}
    BY Zenon, <2>2
  <2> HIDE DEF T
  <2>4. IsFiniteSet(T) /\ Cardinality(T) <= Cardinality(Posts(id)) /\ Cardinality(T) \in Nat
    BY Zenon, <1>4, <2>1, FS_Subset, FS_CardinalityType
  <2>5. Cardinality(T) # 0
    BY Zenon, <2>3, <2>4, FS_EmptySet
  <2>6. Nth(id, j) = Cardinality(T)
    BY Zenon DEF Nth, T
  <2> QED
    BY <1>4, <2>4, <2>5, <2>6
<1> QED
  BY Zenon, <1>4, <1>5

\* A post leaves the posts of the other runs what they were.
LEMMA PostsOfOthers ==
    ASSUME TypeOK, NEW o \in Obs, hist' = Append(hist, o), NEW id \in Id, born[id] >= 1,
           id # o.id, born'[id] = born[id]
    PROVE  /\ Posts(id)' = Posts(id)
           /\ \A j \in Posts(id) : hist'[j] = hist[j] /\ Nth(id, j)' = Nth(id, j)
<1>1. /\ hist \in Seq(Obs) /\ Len(hist) \in Nat /\ Len(hist') = Len(hist) + 1
      /\ \A j \in 1..Len(hist) : hist'[j] = hist[j]
      /\ hist'[Len(hist) + 1] = o /\ born[id] \in Nat
  BY AppendProperties, LenProperties DEF TypeOK
<1>2. \A j \in born[id]..Len(hist) : hist'[j] = hist[j]
  BY <1>1
<1>3. \A j : j \in born[id]..Len(hist') <=> j \in born[id]..Len(hist) \/ (j = Len(hist) + 1 /\ born[id] <= j)
  BY <1>1
<1>4. \A j : j \in Posts(id)' <=> j \in Posts(id)
  <2>1. \A j : j \in Posts(id)' <=> j \in born'[id]..Len(hist') /\ hist'[j].id = id
    BY Zenon DEF Posts
  <2>2. \A j : j \in Posts(id) <=> j \in born[id]..Len(hist) /\ hist[j].id = id
    BY Zenon DEF Posts
  <2>3. ASSUME NEW j, j \in Posts(id)' PROVE j \in Posts(id)
    <3>1. j # Len(hist) + 1
      BY Zenon, <1>1, <2>1, <2>3
    <3>2. j \in born[id]..Len(hist)
      BY Zenon, <1>3, <2>1, <2>3, <3>1
    <3> QED
      BY Zenon, <1>2, <2>1, <2>2, <2>3, <3>2
  <2>4. ASSUME NEW j, j \in Posts(id) PROVE j \in Posts(id)'
    <3>1. j \in born[id]..Len(hist')
      BY Zenon, <1>3, <2>2, <2>4
    <3> QED
      BY Zenon, <1>2, <2>1, <2>2, <2>4, <3>1
  <2> QED
    BY Zenon, <2>3, <2>4
<1>5. Posts(id)' = Posts(id)
  BY Zenon, <1>4
<1> QED
  BY Zenon, <1>2, <1>5 DEF Nth, Posts

\* A run that neither begins, grows nor ends still reflects its posts.
LEMMA OthersReflect ==
    ASSUME ReflectInv, NEW o \in Obs, hist' = Append(hist, o), NEW id \in Id,
           runs[id] # <<>>, runs'[id] = runs[id], id # o.id, born'[id] = born[id]
    PROVE  LET count == Cardinality(Posts(id)')
           IN  /\ Len(runs'[id]) = IF count < MaxObs THEN count ELSE MaxObs
               /\ \A j \in Posts(id)' : Nth(id, j)' <= MaxObs => runs'[id][Nth(id, j)'] = hist'[j]
<1>1. TypeOK /\ born[id] >= 1
  BY Zenon DEF ReflectInv, StoreInv, BornWithPost
<1>2. /\ Posts(id)' = Posts(id)
      /\ \A j \in Posts(id) : hist'[j] = hist[j] /\ Nth(id, j)' = Nth(id, j)
  BY Zenon, <1>1, PostsOfOthers
<1>3. LET count == Cardinality(Posts(id))
      IN  /\ Len(runs[id]) = IF count < MaxObs THEN count ELSE MaxObs
          /\ \A j \in Posts(id) : Nth(id, j) <= MaxObs => runs[id][Nth(id, j)] = hist[j]
  BY Zenon DEF ReflectInv, RunsReflectPosts, Stored
<1> QED
  BY Zenon, <1>2, <1>3

\* The run a post begins holds that post.
LEMMA NewReflects ==
    ASSUME ReflectInv, NEW o \in Obs, o.id \in Id, AddNew(o), hist' = Append(hist, o)
    PROVE  LET id == o.id
               count == Cardinality(Posts(id)')
           IN  /\ Len(runs'[id]) = IF count < MaxObs THEN count ELSE MaxObs
               /\ \A j \in Posts(id)' : Nth(id, j)' <= MaxObs => runs'[id][Nth(id, j)'] = hist'[j]
<1> DEFINE id == o.id
           last == Len(hist) + 1
<1>1. /\ runs \in [Id -> Seq(Obs)] /\ hist \in Seq(Obs) /\ Len(hist) \in Nat /\ born \in [Id -> Nat]
      /\ MaxObs \in Nat /\ MaxObs >= 1
  BY LenProperties, CollectorAssumption DEF ReflectInv, StoreInv, TypeOK
<1>2. /\ Len(hist') = last /\ hist'[last] = o
  BY <1>1, AppendProperties
<1>3. runs[id] = <<>> /\ born'[id] = last
  BY Zenon, <1>1 DEF AddNew, Stored
<1>4. runs'[id] = <<o>>
  <2>1. PICK gone : runs' = Insert(Without(runs, gone), o)
    BY Zenon DEF AddNew
  <2>2. Without(runs, gone)[id] = <<>> /\ DOMAIN Without(runs, gone) = Id
    BY Zenon, <1>3 DEF Without
  <2>3. runs'[id] = IF Len(<<>>) >= MaxObs THEN <<>> ELSE Append(<<>>, o)
    BY Zenon, <2>1, <2>2 DEF Insert
  <2>4. ~(Len(<<>>) >= MaxObs) /\ Append(<<>>, o) = <<o>>
    BY <1>1
  <2> QED
    BY Zenon, <2>3, <2>4
<1>5. Posts(id)' = {last}
  <2>1. last..Len(hist') = {last}
    BY <1>1, <1>2
  <2>2. Posts(id)' = {j \in born'[id]..Len(hist') : hist'[j].id = id}
    BY Zenon DEF Posts
  <2>3. Posts(id)' = {j \in {last} : hist'[j].id = id}
    BY Zenon, <1>3, <2>1, <2>2
  <2> QED
    BY Zenon, <1>2, <2>3
<1>6. Cardinality(Posts(id)') = 1
  BY Zenon, <1>5, FS_Singleton
<1>7. ASSUME NEW j, j = last PROVE Nth(id, j)' = 1
  <2>1. {k \in {last} : k <= j} = {last}
    BY <1>1, <1>7
  <2>2. Nth(id, j)' = Cardinality({k \in {last} : k <= j})
    BY Zenon, <1>5 DEF Nth
  <2> QED
    BY Zenon, <2>1, <2>2, FS_Singleton
<1>8. Len(<<o>>) = 1 /\ <<o>>[1] = o
  OBVIOUS
<1>9. (IF 1 < MaxObs THEN 1 ELSE MaxObs) = 1
  BY <1>1
<1>10. ASSUME NEW j \in Posts(id)' PROVE runs'[id][Nth(id, j)'] = hist'[j]
  BY Zenon, <1>2, <1>4, <1>5, <1>7, <1>8, <1>10
<1> QED
  BY Zenon, <1>4, <1>6, <1>8, <1>9, <1>10

\* A further post goes to the end of its run, until the run is full.
LEMMA MoreReflects ==
    ASSUME ReflectInv, NEW o \in Obs, o.id \in Id, AddMore(o), hist' = Append(hist, o)
    PROVE  LET id == o.id
               count == Cardinality(Posts(id)')
           IN  /\ Len(runs'[id]) = IF count < MaxObs THEN count ELSE MaxObs
               /\ \A j \in Posts(id)' : Nth(id, j)' <= MaxObs => runs'[id][Nth(id, j)'] = hist'[j]
<1> DEFINE id == o.id
           last == Len(hist) + 1
           P == Posts(id)
           n == Cardinality(Posts(id))
           r == runs[id]
<1>1. /\ runs \in [Id -> Seq(Obs)] /\ hist \in Seq(Obs) /\ Len(hist) \in Nat /\ born[id] \in Nat
      /\ MaxObs \in Nat /\ r \in Seq(Obs) /\ Len(r) \in Nat /\ TypeOK
  BY LenProperties, CollectorAssumption DEF ReflectInv, StoreInv, TypeOK
<1>2. /\ Len(hist') = last /\ hist'[last] = o
      /\ \A j \in 1..Len(hist) : hist'[j] = hist[j]
  BY <1>1, AppendProperties
<1>3. r # <<>> /\ born' = born /\ born[id] >= 1 /\ born[id] <= Len(hist)
  BY Zenon DEF AddMore, Stored, ReflectInv, BornWithPost, StoreInv, BornInPast
<1>4. /\ Len(r) = IF n < MaxObs THEN n ELSE MaxObs
      /\ \A j \in P : Nth(id, j) <= MaxObs => r[Nth(id, j)] = hist[j]
  BY Zenon, <1>3 DEF ReflectInv, RunsReflectPosts, Stored
<1>5. IsFiniteSet(P) /\ n \in Nat /\ \A j \in P : Nth(id, j) \in 1..n
  BY Zenon, <1>1, PostsFinite
<1>6. runs'[id] = IF Len(r) >= MaxObs THEN r ELSE Append(r, o)
  BY Zenon, <1>1 DEF AddMore, Insert
<1>7. Posts(id)' = P \cup {last} /\ last \notin P /\ \A j \in P : j \in Nat /\ j < last
  <2>1. /\ \A j : j \in born[id]..last <=> j \in born[id]..Len(hist) \/ j = last
        /\ last \notin born[id]..Len(hist)
        /\ \A j \in born[id]..Len(hist) : j \in 1..Len(hist) /\ j \in Nat /\ j < last
    BY <1>1, <1>3
  <2>2. \A j : j \in Posts(id)' <=> j \in born[id]..last /\ hist'[j].id = id
    BY Zenon, <1>2, <1>3 DEF Posts
  <2>3. \A j : j \in P <=> j \in born[id]..Len(hist) /\ hist[j].id = id
    BY Zenon DEF Posts
  <2>4. ASSUME NEW j PROVE j \in Posts(id)' <=> j \in P \cup {last}
    <3>1. CASE j = last
      BY Zenon, <1>2, <2>1, <2>2, <3>1
    <3>2. CASE j \in born[id]..Len(hist)
      <4>1. hist'[j] = hist[j] /\ j # last /\ j \in born[id]..last
        BY Zenon, <1>2, <2>1, <3>2
      <4>2. j \in Posts(id)' <=> j \in P
        BY Zenon, <2>2, <2>3, <3>2, <4>1
      <4> QED
        BY Zenon, <4>1, <4>2
    <3> QED
      BY Zenon, <2>1, <2>2, <2>3, <3>1, <3>2
  <2> HIDE DEF P
  <2> QED
    BY Zenon, <2>1, <2>3, <2>4
<1>8. Cardinality(Posts(id)') = n + 1
  BY Zenon, <1>5, <1>7, FS_AddElement
<1>9. ASSUME NEW j \in P PROVE Nth(id, j)' = Nth(id, j) /\ hist'[j] = hist[j]
  <2>1. {k \in P \cup {last} : k <= j} = {k \in P : k <= j}
    BY <1>1, <1>7, <1>9
  <2>2. Nth(id, j)' = Cardinality({k \in P \cup {last} : k <= j})
    BY Zenon, <1>7 DEF Nth
  <2>3. j \in 1..Len(hist)
    BY <1>1, <1>3, <1>9 DEF Posts
  <2> QED
    BY Zenon, <1>2, <2>1, <2>2, <2>3 DEF Nth
<1>10. ASSUME NEW j, j = last PROVE Nth(id, j)' = n + 1
  <2>1. {k \in P \cup {last} : k <= j} = P \cup {last}
    BY <1>1, <1>7, <1>10
  <2>2. Nth(id, j)' = Cardinality({k \in P \cup {last} : k <= j})
    BY Zenon, <1>7 DEF Nth
  <2> QED
    BY Zenon, <1>7, <1>8, <2>1, <2>2
<1> HIDE DEF P, n, r, id, last
<1>11. CASE Len(r) >= MaxObs
  <2>1. n >= MaxObs /\ Len(r) = MaxObs /\ ~(n + 1 <= MaxObs) /\ ~(n + 1 < MaxObs)
    BY <1>1, <1>4, <1>5, <1>11
  <2>2. runs'[id] = r
    BY Zenon, <1>6, <1>11
  <2>3. ASSUME NEW j \in P \cup {last}, Nth(id, j)' <= MaxObs PROVE r[Nth(id, j)'] = hist'[j]
    <3>1. CASE j \in P
      BY Zenon, <1>4, <1>9, <2>3, <3>1
    <3>2. CASE j = last
      BY Zenon, <1>10, <2>1, <2>3, <3>2
    <3> QED
      BY Zenon, <3>1, <3>2
  <2>4. Len(runs'[id]) = IF n + 1 < MaxObs THEN n + 1 ELSE MaxObs
    BY Zenon, <2>1, <2>2
  <2> QED
    BY Zenon, <1>7, <1>8, <2>2, <2>3, <2>4 DEF id
<1>12. CASE ~(Len(r) >= MaxObs)
  <2>1. n < MaxObs /\ Len(r) = n /\ n + 1 <= MaxObs
        /\ (IF n + 1 < MaxObs THEN n + 1 ELSE MaxObs) = n + 1
    BY <1>1, <1>4, <1>5, <1>12
  <2>2. /\ runs'[id] = Append(r, o) /\ Len(Append(r, o)) = n + 1
        /\ \A i \in 1..n : Append(r, o)[i] = r[i]
        /\ Append(r, o)[n + 1] = o
    BY <1>1, <1>6, <1>12, <2>1, AppendProperties
  <2>3. \A j \in P : Nth(id, j) <= MaxObs
    BY <1>1, <1>5, <2>1
  <2>4. ASSUME NEW j \in P PROVE runs'[id][Nth(id, j)'] = hist'[j]
    BY Zenon, <1>4, <1>5, <1>9, <2>2, <2>3
  <2>5. ASSUME NEW j, j = last PROVE runs'[id][Nth(id, j)'] = hist'[j]
    BY Zenon, <1>2, <1>10, <2>2, <2>5
  <2>6. ASSUME NEW j \in P \cup {last} PROVE runs'[id][Nth(id, j)'] = hist'[j]
    BY Zenon, <2>4, <2>5
  <2>7. Len(runs'[id]) = IF n + 1 < MaxObs THEN n + 1 ELSE MaxObs
    BY Zenon, <2>1, <2>2
  <2> QED
    BY Zenon, <1>7, <1>8, <2>6, <2>7 DEF id
<1> QED
  BY Zenon, <1>11, <1>12

\* One request, whichever it is.
LEMMA ReflectStep ==
    ASSUME ReflectInv, Cap > 0, [Next]_vars
    PROVE  ReflectInv'
<1>0. StoreInv'
  BY Zenon, StoreStep DEF ReflectInv
<1>1. CASE UNCHANGED vars
  <2>1. runs' = runs /\ hist' = hist /\ born' = born
    BY Zenon, <1>1 DEF vars
  <2>2. BornWithPost' /\ RunsReflectPosts'
    BY <2>1 DEF ReflectInv, BornWithPost, RunsReflectPosts, Stored, Posts, Nth
  <2> QED
    BY Zenon, <1>0, <2>2 DEF ReflectInv
<1>2. ASSUME NEW o \in Obs, o.id \in Id, AddNew(o) \/ AddMore(o), hist' = Append(hist, o)
      PROVE  ReflectInv'
  <2>1. runs \in [Id -> Seq(Obs)] /\ born \in [Id -> Nat] /\ Len(hist) \in Nat
    BY Zenon, LenProperties DEF ReflectInv, StoreInv, TypeOK
  <2>2. ASSUME NEW id \in Id, id # o.id, runs'[id] # <<>>
        PROVE  runs'[id] = runs[id] /\ runs[id] # <<>> /\ born'[id] = born[id]
    <3>1. CASE AddMore(o)
      BY Zenon, <2>1, <2>2, <3>1 DEF AddMore, Insert
    <3>2. CASE AddNew(o)
      <4>1. PICK gone : runs' = Insert(Without(runs, gone), o)
        BY Zenon, <3>2 DEF AddNew
      <4>2. runs'[id] = IF id \in gone THEN <<>> ELSE runs[id]
        BY Zenon, <2>2, <4>1 DEF Insert, Without
      <4>3. born' = [born EXCEPT ![o.id] = Len(hist) + 1]
        BY Zenon, <3>2 DEF AddNew
      <4> QED
        BY Zenon, <2>1, <2>2, <4>2, <4>3
    <3> QED
      BY Zenon, <1>2, <3>1, <3>2
  <2>3. born'[o.id] >= 1
    <3>1. CASE AddMore(o)
      BY Zenon, <1>2, <3>1 DEF AddMore, Stored, ReflectInv, BornWithPost
    <3>2. CASE AddNew(o)
      BY <1>2, <2>1, <3>2 DEF AddNew
    <3> QED
      BY Zenon, <1>2, <3>1, <3>2
  <2>4. BornWithPost'
    BY Zenon, <2>2, <2>3 DEF ReflectInv, BornWithPost
  <2>5. ASSUME NEW id \in Id, runs'[id] # <<>>
        PROVE  LET count == Cardinality(Posts(id)')
               IN  /\ Len(runs'[id]) = IF count < MaxObs THEN count ELSE MaxObs
                   /\ \A j \in Posts(id)' :
                          Nth(id, j)' <= MaxObs => runs'[id][Nth(id, j)'] = hist'[j]
    <3>1. CASE id # o.id
      BY Zenon, <1>2, <2>2, <2>5, <3>1, OthersReflect
    <3>2. CASE id = o.id /\ AddNew(o)
      BY Zenon, <1>2, <3>2, NewReflects
    <3>3. CASE id = o.id /\ AddMore(o)
      BY Zenon, <1>2, <3>3, MoreReflects
    <3> QED
      BY Zenon, <1>2, <3>1, <3>2, <3>3
  <2>6. RunsReflectPosts'
    BY Zenon, <2>5 DEF RunsReflectPosts, Stored
  <2> QED
    BY Zenon, <1>0, <2>4, <2>6 DEF ReflectInv
<1>3. ASSUME NEW req \in Request, Root(req), req.method = "POST", req.decodes, req.obs.id # NoId
      PROVE  ReflectInv'
  <2>1. req.obs \in Obs /\ req.obs.id \in Id
    BY Zenon, <1>3, CollectorAssumption DEF Request
  <2>2. (AddNew(req.obs) \/ AddMore(req.obs)) /\ hist' = Append(hist, req.obs)
    BY Zenon, <1>3 DEF Root, Add
  <2> QED
    BY Zenon, <1>2, <2>1, <2>2
<1>4. ASSUME NEW req \in Request, Root(req),
             ~(req.method = "POST" /\ req.decodes /\ req.obs.id # NoId)
      PROVE  UNCHANGED vars
  BY Zenon, <1>4 DEF Root
<1> QED
  BY Zenon, <1>1, <1>3, <1>4 DEF Next

\* A run holds the beginning of what was posted for its id since it began, complete
\* up to maxObsPerRun and in order, whatever was evicted in between (store.add).
THEOREM RunsHoldTheirPosts == ASSUME Cap > 0 PROVE Spec => []RunsReflectPosts
<1>1. Init /\ StoreInv => ReflectInv
  BY Zenon DEF Init, ReflectInv, BornWithPost, RunsReflectPosts, Stored
<1>2. ReflectInv /\ [Next]_vars => ReflectInv'
  BY Zenon, ReflectStep
<1>3. ReflectInv => RunsReflectPosts
  BY Zenon DEF ReflectInv
<1> QED
  BY <1>1, <1>2, <1>3, StoreInvariant, PTL DEF Spec
-----------------------------------------------------------------------------
(* What /path returns.                                                     *)

\* Where the timestamps compare as their instants, path's sort puts every element
\* of the run in one place of the result, by hop and then by time.
LEMMA SliceStableSorts ==
    ASSUME StampsInOrder, NEW s \in Seq(Obs)
    PROVE  LET p == SliceStable(s)
           IN  /\ DOMAIN p = DOMAIN s
               /\ \E f \in Bijection(DOMAIN s, DOMAIN s) : \A i \in DOMAIN s : p[i] = s[f[i]]
               /\ \A i, j \in DOMAIN p :
                      i < j => p[i].hop < p[j].hop \/ (p[i].hop = p[j].hop /\ p[i].at <= p[j].at)
<1> DEFINE n == Len(s)
           D == 1..n
           Prec(j, k) == \/ s[j].hop < s[k].hop
                         \/ /\ s[j].hop = s[k].hop
                            /\ s[j].at < s[k].at \/ (s[j].at = s[k].at /\ j < k)
           ahead(k) == {j \in D : Before(s[j], s[k]) \/ (~Before(s[k], s[j]) /\ j < k)}
           rank == [k \in D |-> Cardinality(ahead(k))]
           pi == [i \in D |-> CHOOSE k \in D : Cardinality(ahead(k)) = i - 1]
<1>1. n \in Nat /\ DOMAIN s = D /\ \A k \in D : s[k] \in Obs
  BY Zenon, LenProperties, ElementOfSeq
<1>2. \A k \in D : s[k].hop \in Nat /\ s[k].at \in Nat
  BY Zenon, <1>1, CollectorAssumption
<1>3. \A j, k \in D : Before(s[j], s[k]) \/ (~Before(s[k], s[j]) /\ j < k) <=> Prec(j, k)
  <2>1. \A j, k \in D : Less(s[j].ts, s[k].ts) <=> s[j].at < s[k].at
    BY Zenon, <1>1 DEF StampsInOrder
  <2> QED
    BY <1>1, <1>2, <2>1 DEF Before
<1>4. /\ \A j \in D : ~Prec(j, j)
      /\ \A j, k \in D : Prec(j, k) \/ Prec(k, j) \/ j = k
      /\ \A i, j, k \in D : Prec(i, j) /\ Prec(j, k) => Prec(i, k)
      /\ \A j, k \in D : Prec(j, k) => \/ s[j].hop < s[k].hop
                                       \/ s[j].hop = s[k].hop /\ s[j].at <= s[k].at
  <2>1. \A j \in D : j \in Nat
    BY <1>1
  <2>2. ASSUME NEW j \in D PROVE ~Prec(j, j)
    BY <1>2, <2>1, <2>2
  <2>3. ASSUME NEW j \in D, NEW k \in D PROVE Prec(j, k) \/ Prec(k, j) \/ j = k
    <3>1. /\ s[j].hop \in Nat /\ s[j].at \in Nat /\ j \in Nat
          /\ s[k].hop \in Nat /\ s[k].at \in Nat /\ k \in Nat
      BY Zenon, <1>2, <2>1
    <3> HIDE DEF D
    <3> QED
      BY <3>1
  <2>4. ASSUME NEW i \in D, NEW j \in D, NEW k \in D, Prec(i, j), Prec(j, k) PROVE Prec(i, k)
    <3>1. /\ s[i].hop \in Nat /\ s[i].at \in Nat /\ i \in Nat
          /\ s[j].hop \in Nat /\ s[j].at \in Nat /\ j \in Nat
          /\ s[k].hop \in Nat /\ s[k].at \in Nat /\ k \in Nat
      BY Zenon, <1>2, <2>1
    <3> HIDE DEF D
    <3>2. CASE s[i].hop = s[j].hop /\ s[j].hop = s[k].hop
      BY <2>4, <3>1, <3>2
    <3>3. CASE ~(s[i].hop = s[j].hop /\ s[j].hop = s[k].hop)
      BY <2>4, <3>1, <3>3
    <3> QED
      BY Zenon, <3>2, <3>3
  <2>5. ASSUME NEW j \in D, NEW k \in D, Prec(j, k)
        PROVE  \/ s[j].hop < s[k].hop
               \/ s[j].hop = s[k].hop /\ s[j].at <= s[k].at
    <3>1. s[j].at \in Nat /\ s[k].at \in Nat
      BY Zenon, <1>2
    <3> HIDE DEF D
    <3> QED
      BY <2>5, <3>1
  <2> HIDE DEF Prec
  <2> QED
    BY Zenon, <2>2, <2>3, <2>4, <2>5
<1>5. SliceStable(s) = [i \in D |-> s[pi[i]]]
  BY <1>1 DEF SliceStable
<1> HIDE DEF Prec
<1>6. /\ IsFiniteSet(D) /\ Cardinality(D) = n
      /\ IsFiniteSet(0..(n - 1)) /\ Cardinality(0..(n - 1)) = n
      /\ \A k \in D : ahead(k) = {j \in D : Prec(j, k)}
  <2>1. /\ 1 \in Int /\ n \in Int /\ 0 \in Int /\ n - 1 \in Int
        /\ (IF 1 > n THEN 0 ELSE n - 1 + 1) = n
        /\ (IF 0 > n - 1 THEN 0 ELSE n - 1 - 0 + 1) = n
    BY <1>1
  <2> HIDE DEF n
  <2> QED
    BY Zenon, <1>3, <2>1, FS_Interval
<1>7. \A k \in D : IsFiniteSet(ahead(k)) /\ Cardinality(ahead(k)) \in Nat
  BY Zenon, <1>6, FS_Subset, FS_CardinalityType
<1>8. ASSUME NEW j \in D, NEW S, IsFiniteSet(S), ahead(j) \cup {j} \subseteq S
      PROVE  rank[j] + 1 <= Cardinality(S)
  <2>1. j \notin ahead(j)
    BY Zenon, <1>4, <1>6
  <2> HIDE DEF ahead
  <2>2. Cardinality(ahead(j) \cup {j}) = Cardinality(ahead(j)) + 1
    BY Zenon, <1>7, <2>1, FS_AddElement
  <2>3. Cardinality(ahead(j) \cup {j}) <= Cardinality(S)
    BY Zenon, <1>8, FS_Subset
  <2> QED
    BY Zenon, <2>2, <2>3
<1>9. \A k \in D : rank[k] \in 0..(n - 1)
  <2>1. \A k \in D : rank[k] \in Nat /\ rank[k] + 1 <= n
    BY Zenon, <1>6, <1>7, <1>8
  <2> HIDE DEF rank
  <2> QED
    BY <1>1, <2>1
<1>10. \A j, k \in D : Prec(j, k) => rank[j] < rank[k]
  <2>1. ASSUME NEW j \in D, NEW k \in D, Prec(j, k) PROVE rank[j] + 1 <= rank[k]
    <3>1. ahead(j) \cup {j} \subseteq ahead(k)
      BY <1>4, <1>6, <2>1
    <3> HIDE DEF ahead
    <3> QED
      BY Zenon, <1>7, <1>8, <3>1
  <2> HIDE DEF rank
  <2> QED
    BY <1>1, <1>9, <2>1
<1>11. rank \in Injection(D, 0..(n - 1))
  <2>1. rank \in [D -> 0..(n - 1)]
    BY Zenon, <1>9
  <2> HIDE DEF rank
  <2>2. \A j, k \in D : rank[j] = rank[k] => j = k
    BY <1>1, <1>4, <1>9, <1>10
  <2> QED
    BY Zenon, <2>1, <2>2, Fun_IsInj
<1>12. \A i \in 0..(n - 1) : \E k \in D : rank[k] = i
  <2> HIDE DEF rank
  <2>1. rank \in Surjection(D, 0..(n - 1))
    BY Zenon, <1>6, <1>11, FS_Injection
  <2> QED
    BY Zenon, <2>1 DEF Surjection
<1>13. \A i \in D : pi[i] \in D /\ rank[pi[i]] = i - 1
  <2> HIDE DEF rank
  <2>1. \A i \in D : i - 1 \in 0..(n - 1)
    BY <1>1
  <2> QED
    BY Zenon, <1>12, <2>1 DEF rank
<1> HIDE DEF rank, pi, ahead
<1>14. ASSUME NEW i \in D, NEW j \in D, i < j PROVE Prec(pi[i], pi[j])
  <2>1. pi[i] # pi[j] /\ ~(rank[pi[j]] < rank[pi[i]])
    BY <1>1, <1>13, <1>14
  <2> QED
    BY Zenon, <1>4, <1>10, <1>13, <2>1
<1>15. pi \in Bijection(D, D)
  <2>1. pi \in [D -> D]
    BY Zenon, <1>13 DEF pi
  <2>2. \A i, j \in D : pi[i] = pi[j] => i = j
    BY <1>1, <1>13
  <2>3. pi \in Injection(D, D)
    BY Zenon, <2>1, <2>2, Fun_IsInj
  <2>4. pi \in Surjection(D, D)
    BY Zenon, <1>6, <2>3, FS_Injection
  <2> QED
    BY Zenon, <2>3, <2>4 DEF Bijection
<1>16. \A i, j \in D : i < j =>
         \/ s[pi[i]].hop < s[pi[j]].hop
         \/ s[pi[i]].hop = s[pi[j]].hop /\ s[pi[i]].at <= s[pi[j]].at
  BY Zenon, <1>4, <1>13, <1>14
<1>17. /\ DOMAIN SliceStable(s) = D
       /\ \A i \in D : SliceStable(s)[i] = s[pi[i]]
  BY Zenon, <1>5
<1> HIDE DEF D, n
<1>18. \E f \in Bijection(D, D) : \A i \in D : SliceStable(s)[i] = s[f[i]]
  BY Zenon, <1>15, <1>17
<1>19. \A i, j \in D : i < j =>
         \/ SliceStable(s)[i].hop < SliceStable(s)[j].hop
         \/ /\ SliceStable(s)[i].hop = SliceStable(s)[j].hop
            /\ SliceStable(s)[i].at <= SliceStable(s)[j].at
  BY <1>16, <1>17
<1> QED
  BY Zenon, <1>1, <1>17, <1>18, <1>19

\* Where the agents' timestamps compare as the instants they were printed from,
\* GET /path returns a run ordered by hop and then by time (store.path).
THEOREM PathSorted == ASSUME Cap > 0, StampsInOrder PROVE Spec => []PathInTimeOrder
<1>1. StoreInv => PathInTimeOrder
  <2>1. SUFFICES ASSUME StoreInv, NEW id \in Id
                 PROVE  LET p == Path(id) IN \A i, j \in DOMAIN p :
                          i < j => \/ p[i].hop < p[j].hop
                                   \/ p[i].hop = p[j].hop /\ p[i].at <= p[j].at
    BY Zenon DEF PathInTimeOrder
  <2>2. runs[id] \in Seq(Obs)
    BY Zenon, <2>1 DEF StoreInv, TypeOK
  <2> QED
    BY Zenon, <2>2, SliceStableSorts DEF Path
<1> QED
  BY <1>1, StoreInvariant, PTL
\* The instants of one round of the seconds digit, and the digits of one.
Instant == 0..999
Seconds(t) == t \div 100
Cents(t) == t % 100
Tens(c) == c \div 10
Ones(c) == c % 10

\* The digits decide the order of two instants.
LEMMA DigitsOrder ==
    /\ \A t \in Instant : /\ t \in Nat /\ Seconds(t) \in Nat /\ Cents(t) \in Nat
                          /\ Tens(Cents(t)) \in Nat /\ Ones(Cents(t)) \in Nat
                          /\ Seconds(t) % 10 = Seconds(t)
    /\ \A u, v \in Instant : u < v =>
          \/ Seconds(u) < Seconds(v)
          \/ Seconds(u) = Seconds(v) /\ Cents(u) = 0 /\ Cents(v) # 0
          \/ /\ Seconds(u) = Seconds(v) /\ Cents(u) # 0 /\ Cents(v) # 0
             /\ Tens(Cents(u)) < Tens(Cents(v))
          \/ /\ Seconds(u) = Seconds(v) /\ Cents(u) # 0 /\ Cents(v) # 0
             /\ Tens(Cents(u)) = Tens(Cents(v))
             /\ Ones(Cents(u)) < Ones(Cents(v)) /\ Ones(Cents(v)) # 0
<1>1. ASSUME NEW t \in Instant
      PROVE  /\ t \in Nat /\ Seconds(t) \in Nat /\ Cents(t) \in Nat
             /\ Tens(Cents(t)) \in Nat /\ Ones(Cents(t)) \in Nat
             /\ Seconds(t) % 10 = Seconds(t)
             /\ t = 100 * Seconds(t) + Cents(t) /\ Cents(t) < 100
             /\ Cents(t) = 10 * Tens(Cents(t)) + Ones(Cents(t)) /\ Ones(Cents(t)) < 10
  BY DEF Instant, Seconds, Cents, Tens, Ones
<1>2. ASSUME NEW u \in Instant, NEW v \in Instant, u < v
      PROVE  \/ Seconds(u) < Seconds(v)
             \/ Seconds(u) = Seconds(v) /\ Cents(u) = 0 /\ Cents(v) # 0
             \/ /\ Seconds(u) = Seconds(v) /\ Cents(u) # 0 /\ Cents(v) # 0
                /\ Tens(Cents(u)) < Tens(Cents(v))
             \/ /\ Seconds(u) = Seconds(v) /\ Cents(u) # 0 /\ Cents(v) # 0
                /\ Tens(Cents(u)) = Tens(Cents(v))
                /\ Ones(Cents(u)) < Ones(Cents(v)) /\ Ones(Cents(v)) # 0
  <2>1. \A qu, qv, cu, cv, au, av, bu, bv \in Nat :
          /\ cu < 100 /\ cv < 100 /\ bu < 10 /\ bv < 10
          /\ cu = 10 * au + bu /\ cv = 10 * av + bv
          /\ 100 * qu + cu < 100 * qv + cv
          => \/ qu < qv
             \/ qu = qv /\ cu = 0 /\ cv # 0
             \/ qu = qv /\ cu # 0 /\ cv # 0 /\ au < av
             \/ qu = qv /\ cu # 0 /\ cv # 0 /\ au = av /\ bu < bv /\ bv # 0
    OBVIOUS
  <2> QED
    BY <1>1, <1>2, <2>1
<1> QED
  BY Zenon, <1>1, <1>2

\* The elements of three sequences put together, the first of length one.
LEMMA ThreeParts ==
    ASSUME NEW d \in Nat, NEW f \in Seq(Nat), NEW z \in Seq(Nat), NEW x, x = <<d>> \o f \o z
    PROVE  /\ x \in Seq(Nat) /\ Len(x) = 1 + Len(f) + Len(z) /\ x[1] = d
           /\ \A i \in 1..Len(f) : x[1 + i] = f[i]
           /\ \A i \in 1..Len(z) : x[1 + Len(f) + i] = z[i]
<1> DEFINE w == <<d>> \o f
<1>0. x = w \o z
  BY Zenon
<1>1. <<d>> \in Seq(Nat) /\ Len(<<d>>) = 1 /\ <<d>>[1] = d /\ Len(f) \in Nat /\ Len(z) \in Nat
  BY LenProperties
<1>2. /\ w \in Seq(Nat) /\ Len(w) = 1 + Len(f)
      /\ \A i \in 1..(1 + Len(f)) : w[i] = IF i <= 1 THEN <<d>>[i] ELSE f[i - 1]
  BY Zenon, <1>1, ConcatProperties
<1> HIDE DEF w
<1>3. /\ x \in Seq(Nat) /\ Len(x) = Len(w) + Len(z)
      /\ \A i \in 1..(Len(w) + Len(z)) : x[i] = IF i <= Len(w) THEN w[i] ELSE z[i - Len(w)]
  <2> DEFINE y == w \o z
  <2>1. /\ y \in Seq(Nat) /\ Len(y) = Len(w) + Len(z)
        /\ \A i \in 1..(Len(w) + Len(z)) : y[i] = IF i <= Len(w) THEN w[i] ELSE z[i - Len(w)]
    BY Zenon, <1>2, ConcatProperties
  <2>2. x = y
    BY Zenon, <1>0
  <2> HIDE DEF y
  <2> QED
    BY Zenon, <2>1, <2>2
<1>4. 1 \in 1..(1 + Len(f)) /\ 1 \in 1..(Len(w) + Len(z)) /\ 1 <= Len(w) /\ 1 <= 1
  BY <1>1, <1>2
<1>5. x[1] = d
  BY Zenon, <1>1, <1>2, <1>3, <1>4
<1>6. ASSUME NEW i \in 1..Len(f) PROVE x[1 + i] = f[i]
  <2> DEFINE k == 1 + i
  <2>1. /\ k \in 1..(1 + Len(f)) /\ k \in 1..(Len(w) + Len(z))
        /\ k <= Len(w) /\ ~(k <= 1) /\ k - 1 = i
    BY <1>1, <1>2
  <2> HIDE DEF k
  <2>2. x[k] = f[i]
    BY Zenon, <1>2, <1>3, <2>1
  <2> QED
    BY Zenon, <2>2 DEF k
<1>7. ASSUME NEW i \in 1..Len(z) PROVE x[1 + Len(f) + i] = z[i]
  <2> DEFINE k == 1 + Len(f) + i
  <2>1. k \in 1..(Len(w) + Len(z)) /\ ~(k <= Len(w)) /\ k - Len(w) = i
    BY <1>1, <1>2
  <2> HIDE DEF k
  <2>2. x[k] = z[i]
    BY Zenon, <1>3, <2>1
  <2> QED
    BY Zenon, <2>2 DEF k
<1> QED
  BY Zenon, <1>2, <1>3, <1>5, <1>6, <1>7

\* What follows the digits: "Z", or the sign of the offset.
Mark == IF Zone = "utc" THEN 90 ELSE 43

\* The characters of a timestamp that decide a comparison.
LEMMA StampCharacters ==
    ASSUME NEW t \in Instant
    PROVE  /\ Stamp(t) \in Seq(Nat) /\ Len(Stamp(t)) >= 2
           /\ Stamp(t)[1] = Digit(Seconds(t))
           /\ Cents(t) = 0 => Stamp(t)[2] = Mark
           /\ Cents(t) # 0 =>
                /\ Len(Stamp(t)) >= 4
                /\ Stamp(t)[2] = 46 /\ Stamp(t)[3] = Digit(Tens(Cents(t)))
                /\ Stamp(t)[4] = IF Ones(Cents(t)) = 0 THEN Mark ELSE Digit(Ones(Cents(t)))
<1> DEFINE d == Digit(Seconds(t))
           f == Fraction(Cents(t))
           z == ZoneSuffix
           a == Digit(Tens(Cents(t)))
           b == Digit(Ones(Cents(t)))
<1>1. d \in Nat /\ a \in Nat /\ b \in Nat
  BY DigitsOrder DEF Digit
<1>2. (z = <<90>> /\ Mark = 90) \/ (z = <<43, 48, 50>> /\ Mark = 43)
  BY Zenon DEF ZoneSuffix, Mark
<1>3. Stamp(t) = <<d>> \o f \o z
  <2>1. Seconds(t) % 10 = Seconds(t)
    BY Zenon, DigitsOrder
  <2>2. Stamp(t) = <<Digit(Seconds(t) % 10)>> \o f \o z
    BY Zenon DEF Stamp, Seconds, Cents
  <2> QED
    BY Zenon, <2>1, <2>2
<1>4. f = IF Cents(t) = 0 THEN <<>> ELSE IF Ones(Cents(t)) = 0 THEN <<46, a>> ELSE <<46, a, b>>
  BY Zenon DEF Fraction, Tens, Ones
<1> HIDE DEF d, f, z, a, b
<1> HIDE DEF Mark
<1>5. /\ f \in Seq(Nat) /\ Len(f) \in Nat
      /\ z \in Seq(Nat) /\ Len(z) \in Nat /\ Len(z) >= 1 /\ z[1] = Mark
  <2>1. f \in Seq(Nat) /\ Len(f) \in Nat
    BY <1>1, <1>4
  <2>2. z \in Seq(Nat) /\ Len(z) \in Nat /\ Len(z) >= 1 /\ z[1] = Mark
    <3>1. CASE z = <<90>> /\ Mark = 90
      BY <3>1
    <3>2. CASE z = <<43, 48, 50>> /\ Mark = 43
      BY <3>2
    <3> QED
      BY Zenon, <1>2, <3>1, <3>2
  <2> QED
    BY Zenon, <2>1, <2>2
<1>6. /\ Stamp(t) \in Seq(Nat) /\ Len(Stamp(t)) = 1 + Len(f) + Len(z) /\ Stamp(t)[1] = d
      /\ \A i \in 1..Len(f) : Stamp(t)[1 + i] = f[i]
      /\ \A i \in 1..Len(z) : Stamp(t)[1 + Len(f) + i] = z[i]
  <2>1. d \in Nat /\ f \in Seq(Nat) /\ z \in Seq(Nat)
    BY Zenon, <1>1, <1>5
  <2> QED
    BY <1>3, <2>1, ThreeParts
<1>7. Len(Stamp(t)) >= 2 + Len(f) /\ Stamp(t)[1 + Len(f) + 1] = Mark
  BY <1>5, <1>6
<1>8. CASE Cents(t) = 0
  <2>1. Len(f) = 0 /\ 1 + Len(f) + 1 = 2 /\ 2 + Len(f) = 2
    BY <1>4, <1>8
  <2> QED
    BY Zenon, <1>6, <1>7, <1>8, <2>1 DEF d
<1>9. CASE Cents(t) # 0 /\ Ones(Cents(t)) = 0
  <2>1. Len(f) = 2 /\ 1 + Len(f) + 1 = 4 /\ f[1] = 46 /\ f[2] = a
    BY <1>4, <1>9
  <2>2. Stamp(t)[2] = 46 /\ Stamp(t)[3] = a /\ Len(Stamp(t)) >= 2 /\ Len(Stamp(t)) >= 4
    BY <1>5, <1>6, <2>1
  <2> QED
    BY Zenon, <1>6, <1>7, <1>9, <2>1, <2>2 DEF a, d
<1>10. CASE Cents(t) # 0 /\ Ones(Cents(t)) # 0
  <2>1. Len(f) = 3 /\ f[1] = 46 /\ f[2] = a /\ f[3] = b
    BY <1>4, <1>10
  <2>2. /\ Stamp(t)[2] = 46 /\ Stamp(t)[3] = a /\ Stamp(t)[4] = b
        /\ Len(Stamp(t)) >= 2 /\ Len(Stamp(t)) >= 4
    BY <1>5, <1>6, <2>1
  <2> QED
    BY Zenon, <1>6, <1>7, <1>10, <2>2 DEF a, b, d
<1> QED
  BY Zenon, <1>8, <1>9, <1>10

\* Of two strings at most one is less than the other.
LEMMA LessAsymmetric ==
    ASSUME NEW x \in Seq(Nat), NEW y \in Seq(Nat), Less(x, y)
    PROVE  ~Less(y, x)
<1>1. Len(x) \in Nat /\ Len(y) \in Nat
      /\ (\A i \in 1..Len(x) : x[i] \in Nat) /\ (\A i \in 1..Len(y) : y[i] \in Nat)
  BY Zenon, LenProperties, ElementOfSeq
<1>2. PICK i \in 1..Len(y) : /\ Len(x) >= i - 1
                             /\ \A j \in 1..(i - 1) : x[j] = y[j]
                             /\ i > Len(x) \/ x[i] < y[i]
  BY Zenon DEF Less
<1>3. SUFFICES ASSUME NEW k \in 1..Len(x), Len(y) >= k - 1,
                      \A j \in 1..(k - 1) : y[j] = x[j],
                      k > Len(y) \/ y[k] < x[k]
               PROVE  FALSE
  BY Zenon DEF Less
<1>4. CASE i < k
  BY <1>1, <1>2, <1>3, <1>4
<1>5. CASE k < i
  BY <1>1, <1>2, <1>3, <1>5
<1>6. CASE i = k
  BY <1>1, <1>2, <1>3, <1>6
<1> QED
  BY <1>1, <1>4, <1>5, <1>6

\* What decides between two strings that agree up to there.
LEMMA LessAt ==
    ASSUME NEW x \in Seq(Nat), NEW y \in Seq(Nat), NEW i \in 1..4, i <= Len(x), i <= Len(y),
           \A j \in 1..(i - 1) : x[j] = y[j]
    PROVE  (x[i] < y[i] => Less(x, y)) /\ (y[i] < x[i] => Less(y, x))
<1>1. i \in 1..Len(x) /\ i \in 1..Len(y) /\ Len(x) >= i - 1 /\ Len(y) >= i - 1
  BY LenProperties
<1>2. \A j \in 1..(i - 1) : y[j] = x[j]
  BY Zenon
<1> QED
  BY Zenon, <1>1, <1>2 DEF Less

\* Of s nothing but zeros is cut where t has another digit: "5.1" and "5.12", or "5" and "5.1".
Cut(s, t) ==
    /\ Seconds(s) = Seconds(t)
    /\ \/ Cents(s) = 0 /\ Cents(t) # 0
       \/ /\ Cents(s) # 0 /\ Cents(t) # 0 /\ Tens(Cents(s)) = Tens(Cents(t))
          /\ Ones(Cents(s)) = 0 /\ Ones(Cents(t)) # 0

\* Where two timestamps first differ: at a digit, or where the one ends of which zeros were cut.
LEMMA StampsDiffer ==
    ASSUME NEW u \in Instant, NEW v \in Instant, u < v
    PROVE  \E i \in 1..4 :
              /\ i <= Len(Stamp(u)) /\ i <= Len(Stamp(v))
              /\ \A j \in 1..(i - 1) : Stamp(u)[j] = Stamp(v)[j]
              /\ Cut(u, v) => Stamp(u)[i] = Mark /\ Stamp(v)[i] \in 46..57
              /\ ~Cut(u, v) => Stamp(u)[i] < Stamp(v)[i]
<1> DEFINE x == Stamp(u)
           y == Stamp(v)
           cu == Cents(u)
           cv == Cents(v)
<1>1. /\ x \in Seq(Nat) /\ Len(x) >= 2 /\ x[1] = Digit(Seconds(u))
      /\ cu = 0 => x[2] = Mark
      /\ cu # 0 => /\ Len(x) >= 4 /\ x[2] = 46 /\ x[3] = Digit(Tens(cu))
                   /\ x[4] = IF Ones(cu) = 0 THEN Mark ELSE Digit(Ones(cu))
  BY Zenon, StampCharacters
<1>2. /\ y \in Seq(Nat) /\ Len(y) >= 2 /\ y[1] = Digit(Seconds(v))
      /\ cv = 0 => y[2] = Mark
      /\ cv # 0 => /\ Len(y) >= 4 /\ y[2] = 46 /\ y[3] = Digit(Tens(cv))
                   /\ y[4] = IF Ones(cv) = 0 THEN Mark ELSE Digit(Ones(cv))
  BY Zenon, StampCharacters
<1>3. \/ Seconds(u) < Seconds(v)
      \/ Seconds(u) = Seconds(v) /\ cu = 0 /\ cv # 0
      \/ Seconds(u) = Seconds(v) /\ cu # 0 /\ cv # 0 /\ Tens(cu) < Tens(cv)
      \/ /\ Seconds(u) = Seconds(v) /\ cu # 0 /\ cv # 0 /\ Tens(cu) = Tens(cv)
         /\ Ones(cu) < Ones(cv) /\ Ones(cv) # 0
  BY Zenon, DigitsOrder
<1>4. /\ Seconds(u) \in Nat /\ Seconds(v) \in Nat /\ Tens(cu) \in Nat /\ Tens(cv) \in Nat
      /\ Ones(cu) \in Nat /\ Ones(cv) \in Nat
  BY Zenon, DigitsOrder
<1>5. Ones(cv) < 10 /\ Len(x) \in Nat /\ Len(y) \in Nat
  <2>1. Ones(cv) < 10
    BY DEF Instant, Cents, Ones
  <2> QED
    BY Zenon, <1>1, <1>2, <2>1, LenProperties
<1>6. Cut(u, v) <=> /\ Seconds(u) = Seconds(v)
                    /\ \/ cu = 0 /\ cv # 0
                       \/ /\ cu # 0 /\ cv # 0 /\ Tens(cu) = Tens(cv)
                          /\ Ones(cu) = 0 /\ Ones(cv) # 0
  BY Zenon DEF Cut
<1> HIDE DEF x, y, cu, cv
<1> DEFINE Goal(i) == /\ i <= Len(x) /\ i <= Len(y)
                      /\ \A j \in 1..(i - 1) : x[j] = y[j]
                      /\ Cut(u, v) => x[i] = Mark /\ y[i] \in 46..57
                      /\ ~Cut(u, v) => x[i] < y[i]
<1>7. SUFFICES \E i \in 1..4 : Goal(i)
  BY Zenon DEF x, y
<1>8. CASE Seconds(u) < Seconds(v)
  <2>1. ~Cut(u, v)
    BY <1>4, <1>6, <1>8
  <2>2. x[1] = Digit(Seconds(u)) /\ y[1] = Digit(Seconds(v)) /\ Len(x) >= 2 /\ Len(y) >= 2
    BY Zenon, <1>1, <1>2
  <2>3. x[1] < y[1] /\ 1 <= Len(x) /\ 1 <= Len(y)
    BY <1>4, <1>5, <1>8, <2>2 DEF Digit
  <2>4. 1 \in 1..4 /\ 1..(1 - 1) = {}
    OBVIOUS
  <2> QED
    BY Zenon, <2>1, <2>3, <2>4
<1>9. CASE Seconds(u) = Seconds(v) /\ cu = 0 /\ cv # 0
  <2>1. Cut(u, v) /\ x[1] = y[1] /\ x[2] = Mark /\ y[2] = 46
    BY Zenon, <1>1, <1>2, <1>6, <1>9
  <2>2. 46 \in 46..57 /\ 2 \in 1..4 /\ 2 <= Len(x) /\ 2 <= Len(y) /\ \A j \in 1..(2 - 1) : j = 1
    <3>1. Len(x) >= 2 /\ Len(y) >= 2
      BY Zenon, <1>1, <1>2
    <3> QED
      BY <1>5, <3>1
  <2>3. (\A j \in 1..(2 - 1) : x[j] = y[j]) /\ y[2] \in 46..57
    BY Zenon, <2>1, <2>2
  <2>4. Goal(2)
    BY Zenon, <2>1, <2>2, <2>3
  <2> HIDE DEF Goal
  <2> QED
    BY Zenon, <2>2, <2>4
<1>10. CASE Seconds(u) = Seconds(v) /\ cu # 0 /\ cv # 0 /\ Tens(cu) < Tens(cv)
  <2>1. x[1] = y[1] /\ x[2] = y[2] /\ x[3] = Digit(Tens(cu)) /\ y[3] = Digit(Tens(cv))
    BY Zenon, <1>1, <1>2, <1>10
  <2>2. x[3] < y[3] /\ Tens(cu) # Tens(cv)
    BY <1>4, <1>10, <2>1 DEF Digit
  <2>3. 3 \in 1..4 /\ 3 <= Len(x) /\ 3 <= Len(y) /\ \A j \in 1..(3 - 1) : j = 1 \/ j = 2
    <3>1. Len(x) >= 4 /\ Len(y) >= 4
      BY Zenon, <1>1, <1>2, <1>10
    <3> QED
      BY <1>5, <3>1
  <2>4. ~Cut(u, v)
    BY Zenon, <1>6, <1>10, <2>2
  <2>5. \A j \in 1..(3 - 1) : x[j] = y[j]
    BY Zenon, <2>1, <2>3
  <2>6. Goal(3)
    BY Zenon, <2>2, <2>3, <2>4, <2>5
  <2> HIDE DEF Goal
  <2> QED
    BY Zenon, <2>3, <2>6
<1>11. CASE /\ Seconds(u) = Seconds(v) /\ cu # 0 /\ cv # 0 /\ Tens(cu) = Tens(cv)
            /\ Ones(cu) < Ones(cv) /\ Ones(cv) # 0
  <2>1. x[1] = y[1] /\ x[2] = y[2] /\ x[3] = y[3] /\ y[4] = Digit(Ones(cv))
    BY Zenon, <1>1, <1>2, <1>11
  <2>2. Digit(Ones(cv)) \in 46..57 /\ Digit(Ones(cu)) < Digit(Ones(cv))
    <3>1. \A k, l \in Nat : k < l /\ l < 10 => 48 + l \in 46..57 /\ 48 + k < 48 + l
      OBVIOUS
    <3> QED
      BY Zenon, <1>4, <1>5, <1>11, <3>1 DEF Digit
  <2>3. 4 \in 1..4 /\ 4 <= Len(x) /\ 4 <= Len(y) /\ \A j \in 1..(4 - 1) : j = 1 \/ j = 2 \/ j = 3
    <3>1. Len(x) >= 4 /\ Len(y) >= 4
      BY Zenon, <1>1, <1>2, <1>11
    <3> QED
      BY <1>5, <3>1
  <2>4. Cut(u, v) <=> Ones(cu) = 0
    BY Zenon, <1>6, <1>11
  <2>5. x[4] = IF Ones(cu) = 0 THEN Mark ELSE Digit(Ones(cu))
    BY Zenon, <1>1, <1>11
  <2>6. Cut(u, v) => x[4] = Mark /\ y[4] \in 46..57
    BY Zenon, <2>1, <2>2, <2>4, <2>5
  <2>7. ~Cut(u, v) => x[4] < y[4]
    BY Zenon, <2>1, <2>2, <2>4, <2>5
  <2>8. \A j \in 1..(4 - 1) : x[j] = y[j]
    BY Zenon, <2>1, <2>3
  <2> QED
    BY Zenon, <2>3, <2>6, <2>7, <2>8
<1> QED
  BY Zenon, <1>3, <1>8, <1>9, <1>10, <1>11

\* East of Greenwich the "+" of the zone sorts before every digit and before the point; in
\* UTC the "Z" sorts after them.
LEMMA EarlierStamp ==
    ASSUME NEW u \in Instant, NEW v \in Instant, u < v
    PROVE  /\ (Zone = "offset" \/ ~Cut(u, v)) => Less(Stamp(u), Stamp(v))
           /\ (Zone = "utc" /\ Cut(u, v)) => Less(Stamp(v), Stamp(u))
<1>1. PICK i \in 1..4 : /\ i <= Len(Stamp(u)) /\ i <= Len(Stamp(v))
                        /\ \A j \in 1..(i - 1) : Stamp(u)[j] = Stamp(v)[j]
                        /\ Cut(u, v) => Stamp(u)[i] = Mark /\ Stamp(v)[i] \in 46..57
                        /\ ~Cut(u, v) => Stamp(u)[i] < Stamp(v)[i]
  BY Zenon, StampsDiffer
<1>2. Stamp(u) \in Seq(Nat) /\ Stamp(v) \in Seq(Nat)
  BY Zenon, StampCharacters
<1>3. /\ Stamp(u)[i] < Stamp(v)[i] => Less(Stamp(u), Stamp(v))
      /\ Stamp(v)[i] < Stamp(u)[i] => Less(Stamp(v), Stamp(u))
  BY Zenon, <1>1, <1>2, LessAt
<1>4. \A c \in 46..57 : 43 < c /\ c < 90
  OBVIOUS
<1>5. (Zone = "utc" => Mark = 90) /\ (Zone = "offset" => Mark = 43)
  BY Zenon DEF Mark
<1> QED
  BY Zenon, <1>1, <1>3, <1>4, <1>5

\* With every agent's host in one zone east of Greenwich, timestamps compare as the instants
\* they were printed from.
LEMMA OffsetStampsInOrder ==
    ASSUME Zone = "offset", NEW s \in Instant, NEW t \in Instant
    PROVE  Less(Stamp(s), Stamp(t)) <=> s < t
<1>1. Stamp(s) \in Seq(Nat) /\ Stamp(t) \in Seq(Nat)
  BY Zenon, StampCharacters
<1>2. s < t \/ t < s \/ s = t
  BY DEF Instant
<1>3. (s < t => Less(Stamp(s), Stamp(t))) /\ (t < s => Less(Stamp(t), Stamp(s)))
  BY Zenon, EarlierStamp
<1>4. (Less(Stamp(s), Stamp(t)) => ~Less(Stamp(t), Stamp(s))) /\ (s = t => ~Less(Stamp(s), Stamp(t)))
  BY Zenon, <1>1, LessAsymmetric
<1> QED
  BY Zenon, <1>2, <1>3, <1>4

\* On hosts in UTC the collector's string comparison puts an observation before a later one,
\* and after it exactly when time.Format has cut zeros of the earlier timestamp where the
\* later one goes on: "5.1Z" sorts after "5.12Z" (store.path; Enrich).
THEOREM UtcStampsOrder ==
    ASSUME Zone = "utc", NEW s \in Instant, NEW t \in Instant
    PROVE  Less(Stamp(s), Stamp(t)) <=> (s < t /\ ~Cut(s, t)) \/ (t < s /\ Cut(t, s))
<1>1. Stamp(s) \in Seq(Nat) /\ Stamp(t) \in Seq(Nat)
  BY Zenon, StampCharacters
<1>2. (s < t \/ t < s \/ s = t) /\ ~(s < t /\ t < s) /\ (s = t => ~(s < t) /\ ~(t < s))
  BY DEF Instant
<1>3. /\ s < t => IF Cut(s, t) THEN Less(Stamp(t), Stamp(s)) ELSE Less(Stamp(s), Stamp(t))
      /\ t < s => IF Cut(t, s) THEN Less(Stamp(s), Stamp(t)) ELSE Less(Stamp(t), Stamp(s))
  BY Zenon, EarlierStamp
<1>4. (Less(Stamp(s), Stamp(t)) => ~Less(Stamp(t), Stamp(s))) /\ (s = t => ~Less(Stamp(s), Stamp(t)))
  BY Zenon, <1>1, LessAsymmetric
<1> QED
  BY Zenon, <1>2, <1>3, <1>4

\* With every agent's host in one zone east of Greenwich, GET /path returns a run
\* ordered by hop and then by time (store.path; Enrich in internal/observation).
THEOREM OffsetPathSorted ==
    ASSUME Cap > 0, Zone = "offset",
           \A o \in Obs : o.at \in Instant /\ o.ts = Stamp(o.at)
    PROVE  Spec => []PathInTimeOrder
<1>1. StampsInOrder
  BY Zenon, OffsetStampsInOrder DEF StampsInOrder
<1> QED
  BY Zenon, <1>1, PathSorted

\* On hosts in UTC that holds as long as no timestamp is another with zeros cut, for example
\* when none of the clocks shows an instant that ends in a zero.
THEOREM UtcPathSorted ==
    ASSUME Cap > 0, Zone = "utc",
           \A o \in Obs : o.at \in Instant /\ o.ts = Stamp(o.at),
           \A o, p \in Obs : ~Cut(o.at, p.at)
    PROVE  Spec => []PathInTimeOrder
<1>1. StampsInOrder
  BY Zenon, UtcStampsOrder DEF StampsInOrder
<1> QED
  BY Zenon, <1>1, PathSorted
=============================================================================
