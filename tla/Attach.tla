------------------------------- MODULE Attach -------------------------------
(***************************************************************************)
(* The system calls with which an agent puts its programs on a device      *)
(* (agent/attach.go), as a plan: one phase after the other, each phase a   *)
(* list of alternatives, each alternative a list of calls.                 *)
(*                                                                         *)
(* A host is the --xdp and --xdp-tc-egress flags as one hook, whether the  *)
(* kernel has TCX, and whether TRACEFLOW_FORCE_CLSACT is set.              *)
(***************************************************************************)
EXTENDS Integers, Sequences

Hosts == [hook : {"tc", "xdp", "xdp+egress"}, tcx : BOOLEAN, forced : BOOLEAN]

\* attachTCX and the TCX part of attachEgressProg.
Tcx(dirs) == [k \in DOMAIN dirs |-> <<"tcx", dirs[k]>>]

\* attachClsact, attachClsactEgress: the qdisc, then one filter per direction.
Clsact(dirs) == <<<<"clsact", "qdisc">>>> \o [k \in DOMAIN dirs |-> <<"clsact", dirs[k]>>]

\* attachProg, attachEgressProg: TCX, then clsact; clsact alone when forced.
TcPhase(host, dirs) ==
    IF host.forced THEN <<Clsact(dirs)>> ELSE <<Tcx(dirs), Clsact(dirs)>>

\* attachXDP: native mode, then generic.
XdpPhase == <<<<<<"xdp", "native">>>>, <<<<"xdp", "generic">>>>>>

\* attachIface.
Plan(host) ==
    CASE host.hook = "tc"         -> <<TcPhase(host, <<"ingress", "egress">>)>>
      [] host.hook = "xdp"        -> <<XdpPhase>>
      [] host.hook = "xdp+egress" -> <<XdpPhase, TcPhase(host, <<"egress">>)>>

NextCall(plan) == plan[1][1][1]

\* External: what a call may return.  TCX is unsupported on an old kernel, and EINVAL
\* counts as that too.
Results(host, live, call) ==
    CASE ~live                              -> {"failed"}
      [] live /\ call[1] = "tcx"            ->
            IF host.tcx THEN {"ok", "failed", "unsupported"} ELSE {"unsupported"}
      [] OTHER                              -> {"ok", "failed"}

\* The plan after a call that went well.
Advance(plan) ==
    IF Len(plan[1][1]) = 1 THEN Tail(plan)
    ELSE <<<<Tail(plan[1][1])>> \o Tail(plan[1])>> \o Tail(plan)

\* Another alternative is tried after any XDP error, but only after "unsupported" for TCX.
FallsBack(plan, result) ==
    Len(plan[1]) > 1 /\ (NextCall(plan)[1] = "xdp" \/ result = "unsupported")
FallBack(plan) == <<Tail(plan[1])>> \o Tail(plan)

\* What a call that went well leaves on the device: the qdisc is nobody's.
Hook(call) == IF call[2] = "qdisc" THEN {} ELSE {call}

\* Faults: a failure removes nothing; only what the failed alternative made.
Undone_Nothing(plan, result, made) == {}
Undone_Part(plan, result, made) == {h \in made : h[1] = NextCall(plan)[1]}

\* What is to be removed after a failed call: the hooks of its alternative and, when there
\* is no other one, those of the earlier phases.  Removing a filter may fail in turn.
Undone(plan, result, made) ==
    IF FallsBack(plan, result) THEN {h \in made : h[1] = NextCall(plan)[1]} ELSE made

\* The directions a complete attachment covers.
Covered(made) == {IF h[1] = "xdp" THEN "ingress" ELSE h[2] : h \in made}
Wanted(host) == IF host.hook = "xdp" THEN {"ingress"} ELSE {"ingress", "egress"}
=============================================================================
