---------------------------- MODULE MCVxlanWatch ----------------------------
(***************************************************************************)
(* The VXLAN watcher on hosts that take different ways through attachIface.*)
(***************************************************************************)
EXTENDS VxlanWatch

Machine(hook, tcx, forced) == [hook |-> hook, tcx |-> tcx, forced |-> forced]

Machines == {Machine("tc", TRUE, FALSE), Machine("tc", FALSE, FALSE),
             Machine("tc", TRUE, TRUE), Machine("xdp", TRUE, FALSE),
             Machine("xdp+egress", TRUE, FALSE)}
=============================================================================
