---------------------------- MODULE MCCollector -----------------------------
(***************************************************************************)
(* Agents on hosts in one time zone post observations of three runs.       *)
(***************************************************************************)
EXTENDS Collector, Timestamps

MkObs(id, hop, t) == [id |-> id, hop |-> hop, ts |-> Stamp(t), at |-> t]

\* One run is seen at two hops, at 5.00 s, 5.10 s and 5.12 s; two others once.
MCObs ==
    {MkObs("r1", 0, 512), MkObs("r1", 1, 500), MkObs("r1", 1, 510), MkObs("r1", 1, 512),
     MkObs("r2", 0, 500), MkObs("r3", 0, 500), MkObs(NoId, 0, 500)}

ASSUME StampsAssumption == Zone = "offset" => StampsInOrder
=============================================================================
