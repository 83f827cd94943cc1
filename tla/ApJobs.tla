------------------------------- MODULE ApJobs -------------------------------
(***************************************************************************)
(* What the MP services promise a caller, with no word on how: a call is   *)
(* accepted with a set of processors none of which serves another pending  *)
(* call; each of them runs the procedure at most once, and only while the  *)
(* call is pending; the call ends in "success" only when all of them have  *)
(* run it, or else in "timeout"; only a call that ends in "resources", for *)
(* lack of memory, leaves its procedures to run on.  MpServices implements *)
(* it.                                                                     *)
(***************************************************************************)
CONSTANTS
  Procs,    \* the logical processors
  Calls     \* names of accepted StartupThisAP / StartupAllAPs calls

VARIABLES
  status,   \* status[k]: "none", "pending", "success", "timeout" or "resources"
  assigned, \* assigned[k]: the processors call k was accepted for
  served    \* served[k]: those of them whose procedure has returned

vars == <<status, assigned, served>>

Init ==
  /\ status   = [k \in Calls |-> "none"]
  /\ assigned = [k \in Calls |-> {}]
  /\ served   = [k \in Calls |-> {}]

(* Processors that still owe a call a run of its procedure. *)
Live(k) == status[k] \in {"pending", "resources"}
Owing == UNION {assigned[k] \ served[k] : k \in {j \in Calls : Live(j)}}

Accept(k, P) ==
  /\ status[k] = "none"
  /\ P # {}
  /\ P \cap Owing = {}
  /\ status'   = [status EXCEPT ![k] = "pending"]
  /\ assigned' = [assigned EXCEPT ![k] = P]
  /\ UNCHANGED served

Serve(k, p) ==
  /\ Live(k)
  /\ p \in assigned[k] \ served[k]
  /\ served' = [served EXCEPT ![k] = @ \union {p}]
  /\ UNCHANGED <<status, assigned>>

Complete(k) ==
  /\ status[k] = "pending"
  /\ served[k] = assigned[k]
  /\ status' = [status EXCEPT ![k] = "success"]
  /\ UNCHANGED <<assigned, served>>

Expire(k) ==
  /\ status[k] = "pending"
  /\ status' = [status EXCEPT ![k] = "timeout"]
  /\ UNCHANGED <<assigned, served>>

Abandon(k) ==
  /\ status[k] = "pending"
  /\ status' = [status EXCEPT ![k] = "resources"]
  /\ UNCHANGED <<assigned, served>>

Next ==
  \E k \in Calls :
    \/ \E P \in SUBSET Procs : Accept(k, P)
    \/ \E p \in Procs : Serve(k, p)
    \/ Complete(k)
    \/ Expire(k)
    \/ Abandon(k)

Spec == Init /\ [][Next]_vars
=============================================================================
