---------------------------- MODULE MCMpServices ----------------------------
EXTENDS MpServices

Kind(all, wait, single, timed) ==
  [all |-> all, wait |-> wait, single |-> single, timed |-> timed]

(* Every way to call without a timeout: one AP or all, blocking or not,     *)
(* serial or parallel. *)
MCForever     == {k \in Kinds : (k.single => k.all) /\ ~k.timed}

(* Calls with a timeout: serial on all APs with an event, parallel on all  *)
(* APs blocking, and on one AP in both ways.                               *)
MCTimed == {Kind(TRUE, TRUE, TRUE, TRUE), Kind(TRUE, FALSE, FALSE, TRUE),
            Kind(FALSE, TRUE, FALSE, TRUE), Kind(FALSE, FALSE, FALSE, TRUE)}

(* A serial call on all APs and a call on one, both with an event. *)
MCSwitch == {Kind(TRUE, TRUE, TRUE, FALSE), Kind(FALSE, TRUE, FALSE, TRUE)}
=============================================================================
