------------------------------ MODULE MCTapWatch ------------------------------
(***************************************************************************)
(* The tap watcher on a hypervisor with two tap names.                      *)
(***************************************************************************)
EXTENDS TapWatch

\* Every VM has two addresses of its own, of which OVN may change t1's second one.
OneOwner == {<<"t1", {"A", "A6"}>>, <<"t1", {"A", "A7"}>>, <<"t2", {"B", "B6"}>>}

\* An address moves between tap names, as when its VM is re-created.
Moving == {<<"t1", {"A"}>>, <<"t2", {"A"}>>}

ASSUME OwnersAssumption == Owns = OneOwner => Exclusive
=============================================================================
