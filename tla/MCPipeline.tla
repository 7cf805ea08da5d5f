----------------------------- MODULE MCPipeline -----------------------------
(***************************************************************************)
(* One agent with one interface, seeing frames inside and outside a VXLAN. *)
(***************************************************************************)
EXTENDS Pipeline

Headers == {[ifindex |-> 1, vni |-> 7], [ifindex |-> 1, vni |-> 0]}
=============================================================================
