---------------------------- MODULE ExchangeRole ----------------------------
(***************************************************************************)
(* SwitchBSP in detail: AsmExchangeRole of x64/MpFuncs.nasm lets the boot  *)
(* processor and an application processor trade stacks, descriptor tables  *)
(* and control flow while both run.  MpServices takes that exchange for    *)
(* one step; here are its spin locks and states, the stacks the processors *)
(* are on before, during and after it, and the line of the stack on which  *)
(* an idle AP is woken.                                                    *)
(*                                                                         *)
(* A processor that polls a lock takes and drops it again and again, so    *)
(* taking a lock and dropping it are separate steps.                       *)
(***************************************************************************)
EXTENDS Integers

CONSTANTS
  N,       \* mMPSystemData->NumberOfCpus
  Manner,  \* ExchangeInfo->WakeUpApManner: "Hlt" or "Run"
  Timeouts \* the callers of StartupThisAP give timeouts

ASSUME NAssumption      == N \in Nat \ {0}
ASSUME MannerAssumption == Manner \in {"Hlt", "Run"}
ASSUME TimeoutsAssumption == Timeouts \in BOOLEAN

Procs  == 0 .. N - 1
Boot   == N             \* the stack of the boot code that calls SwitchBSP
Stacks == 0 .. N        \* stack s \in Procs is the one that AP s starts on
Infos  == {"BSPInfo", "APInfo"}

VARIABLES
  BSP,     \* mMPSystemData->BSP
  State,   \* CpuData[p].State
  proc,    \* CpuData[p].Procedure
  pc,      \* where processor p is; in AsmExchangeRole by its labels
  rsp,     \* the stack p is on
  table,   \* GDTR and IDTR of p: those of the boot code or those of the APs
  intr,    \* p takes interrupts (EFLAGS.IF)
  signal,  \* BreakToRunApSignal at the top of stack s
  frame,   \* the caller of AsmExchangeRole and the flags pushed on stack s
  info,    \* mMPSystemData->BSPInfo and APInfo
  op       \* ProcessorNumber and OldInterruptState of SwitchBSP

cpuVars == <<State, proc>>
runVars == <<rsp, table, intr>>
vars    == <<BSP, cpuVars, pc, runVars, signal, frame, info, op>>

CpuState    == {"IDLE", "READY", "BUSY", "FINISHED"}
Procedures  == {"none", "task", "FutureBspProc"}
SwitchState == {"IDLE", "STORED", "LOADED"}
Tables      == {"boot", "ap"}
Labels      == {"TryLock1", "LockObtained1", "TryLock2", "LockObtained2", "Load",
                "TryLock3", "LockObtained3", "TryLock4", "LockObtained4"}
Phase       == Labels \union
               {"boot", "Push", "Pop", "switched", "wait",    \* SwitchBSP
                "parked", "woken", "task", "finish", "ack"}   \* the AP loop

TypeOK ==
  /\ BSP \in Procs
  /\ State \in [Procs -> CpuState]
  /\ proc \in [Procs -> Procedures]
  /\ pc \in [Procs -> Phase]
  /\ rsp \in [Procs -> Stacks]
  /\ table \in [Procs -> Tables]
  /\ intr \in [Procs -> BOOLEAN]
  /\ signal \in [Procs -> BOOLEAN]
  /\ frame \in [Stacks -> [ret : {"SwitchBSP", "FutureBspProc"}, intr : BOOLEAN]]
  /\ info \in [Infos -> [Lock : BOOLEAN, State : SwitchState, rsp : Stacks, table : Tables]]
  /\ op \in [target : Procs, intr : BOOLEAN]

Init ==
  /\ BSP = 0
  /\ State = [p \in Procs |-> "IDLE"]
  /\ proc = [p \in Procs |-> "none"]
  /\ pc = [p \in Procs |-> IF p = 0 THEN "boot" ELSE "parked"]
  /\ rsp = [p \in Procs |-> IF p = 0 THEN Boot ELSE p]
  /\ table = [p \in Procs |-> IF p = 0 THEN "boot" ELSE "ap"]
  /\ intr \in {f \in [Procs -> BOOLEAN] : \A p \in Procs \ {0} : ~f[p]}
  /\ signal = [p \in Procs |-> FALSE]
  /\ frame = [s \in Stacks |-> [ret |-> "SwitchBSP", intr |-> FALSE]]
  /\ info = [i \in Infos |-> [Lock |-> FALSE, State |-> "IDLE", rsp |-> Boot, table |-> "boot"]]
  /\ op = [target |-> 0, intr |-> intr[0]]

-----------------------------------------------------------------------------
(* Waking an AP.  INIT-SIPI-SIPI restarts it on its own stack; the run     *)
(* loop polls the top of the stack it is on, whichever that is.            *)

Restart(p, pcs) ==
  /\ pc' = [pcs EXCEPT ![p] = "woken"]
  /\ rsp' = [rsp EXCEPT ![p] = p]
  /\ table' = [table EXCEPT ![p] = "ap"]

(* pcs: where the processors are once the caller has moved on. *)
WakeUpAp(p, x, pcs) ==
  /\ proc' = [proc EXCEPT ![p] = x]
  /\ IF Manner = "Hlt"
       THEN Restart(p, pcs) /\ UNCHANGED signal
       ELSE /\ signal' = [signal EXCEPT ![p] = TRUE]
            /\ pc' = pcs
            /\ UNCHANGED <<rsp, table>>

(* Timing: by the time the boot code uses an AP again, every AP that was   *)
(* FINISHED is back in its idle loop.  What happens otherwise is in        *)
(* MpServices.                                                             *)
Settled == \A q \in Procs : pc[q] # "ack"

StartupThisAP(p) ==
  /\ pc[BSP] = "boot"
  /\ p # BSP /\ State[p] = "IDLE" /\ Settled
  /\ State' = [State EXCEPT ![p] = "READY"]
  /\ WakeUpAp(p, "task", pc)
  /\ UNCHANGED <<BSP, intr, frame, info, op>>

(* CheckThisAp: the AP is FINISHED, or its timeout has passed and it is    *)
(* reset (ResetProcessorToIdleState).                                      *)
Collect(p) ==
  /\ pc[BSP] = "boot"
  /\ p # BSP /\ State[p] = "FINISHED"
  /\ State' = [State EXCEPT ![p] = "IDLE"]
  /\ UNCHANGED <<BSP, proc, pc, runVars, signal, frame, info, op>>

Expire(p) ==
  /\ Timeouts
  /\ pc[BSP] = "boot"
  /\ p # BSP /\ State[p] \in {"READY", "BUSY"}
  /\ State' = [State EXCEPT ![p] = "IDLE"]
  /\ proc' = [proc EXCEPT ![p] = "none"]
  /\ Restart(p, pc)
  /\ UNCHANGED <<BSP, intr, signal, frame, info, op>>

-----------------------------------------------------------------------------
(* The idle loop of an AP and ApProcWrapper.                               *)

Break(p) ==
  /\ Manner = "Run"
  /\ pc[p] = "parked" /\ signal[rsp[p]]
  /\ pc' = [pc EXCEPT ![p] = "woken"]
  /\ UNCHANGED <<BSP, cpuVars, runVars, signal, frame, info, op>>

Enter(p) ==
  /\ pc[p] = "woken"
  /\ pc' = [pc EXCEPT ![p] = CASE proc[p] = "none" -> "parked"
                               [] proc[p] = "task" -> "task"
                               [] proc[p] = "FutureBspProc" -> "Push"]
  /\ State' = IF proc[p] = "none" THEN State ELSE [State EXCEPT ![p] = "BUSY"]
  /\ UNCHANGED <<BSP, proc, runVars, signal, frame, info, op>>

TaskReturns(p) ==
  /\ pc[p] = "task"
  /\ pc' = [pc EXCEPT ![p] = "finish"]
  /\ UNCHANGED <<BSP, cpuVars, runVars, signal, frame, info, op>>

Finish(p) ==
  /\ pc[p] = "finish"
  /\ pc' = [pc EXCEPT ![p] = "ack"]
  /\ proc' = [proc EXCEPT ![p] = "none"]
  /\ State' = [State EXCEPT ![p] = "FINISHED"]
  /\ UNCHANGED <<BSP, runVars, signal, frame, info, op>>

(* The signal is cleared on the stack with p's number, then p returns to   *)
(* the loop on the stack it is on.                                         *)
Ack(p) ==
  /\ pc[p] = "ack"
  /\ pc' = [pc EXCEPT ![p] = "parked"]
  /\ signal' = [signal EXCEPT ![p] = FALSE]
  /\ UNCHANGED <<BSP, cpuVars, runVars, frame, info, op>>

-----------------------------------------------------------------------------
(* SwitchBSP, up to the call of AsmExchangeRole.                           *)

(* Mistake: the states of the previous exchange are left in place. *)
ResetLock == [i \in Infos |-> [info[i] EXCEPT !.Lock = FALSE]]

ResetInfo == [i \in Infos |-> [info[i] EXCEPT !.Lock = FALSE, !.State = "IDLE"]]


(* Mistake: interrupts stay enabled during the exchange. *)
SwitchEnabled(q) ==
  /\ pc[BSP] = "boot"
  /\ q # BSP /\ State[q] = "IDLE" /\ Settled
  /\ op' = [target |-> q, intr |-> intr[BSP]]
  /\ info' = ResetInfo
  /\ WakeUpAp(q, "FutureBspProc", [pc EXCEPT ![BSP] = "Push"])
  /\ UNCHANGED <<BSP, State, frame, intr>>

SwitchBSP(q) ==
  /\ pc[BSP] = "boot"
  /\ q # BSP /\ State[q] = "IDLE" /\ Settled
  /\ op' = [target |-> q, intr |-> intr[BSP]]
  /\ intr' = [intr EXCEPT ![BSP] = FALSE]
  /\ info' = ResetInfo
  /\ WakeUpAp(q, "FutureBspProc", [pc EXCEPT ![BSP] = "Push"])
  /\ UNCHANGED <<BSP, State, frame>>

-----------------------------------------------------------------------------
(* AsmExchangeRole, run by the BSP and by the AP in FutureBspProc.         *)

Mine(p)   == IF p = BSP THEN "BSPInfo" ELSE "APInfo"
Others(p) == IF p = BSP THEN "APInfo" ELSE "BSPInfo"

Push(p) ==
  /\ pc[p] = "Push"
  /\ frame' = [frame EXCEPT ![rsp[p]] =
       [ret |-> IF p = BSP THEN "SwitchBSP" ELSE "FutureBspProc", intr |-> intr[p]]]
  /\ info' = [info EXCEPT ![Mine(p)].rsp = rsp[p], ![Mine(p)].table = table[p]]
  /\ pc' = [pc EXCEPT ![p] = "TryLock1"]
  /\ UNCHANGED <<BSP, cpuVars, runVars, signal, op>>

(* The byte lock of one's own or of the other's info: taken when vacant. *)
TryLock(p, label, i, next) ==
  /\ pc[p] = label
  /\ ~info[i].Lock
  /\ info' = [info EXCEPT ![i].Lock = TRUE]
  /\ pc' = [pc EXCEPT ![p] = next]
  /\ UNCHANGED <<BSP, cpuVars, runVars, signal, frame, op>>

Acquire(p) ==
  \/ TryLock(p, "TryLock1", Mine(p), "LockObtained1")
  \/ TryLock(p, "TryLock2", Others(p), "LockObtained2")
  \/ TryLock(p, "TryLock3", Mine(p), "LockObtained3")
  \/ TryLock(p, "TryLock4", Others(p), "LockObtained4")

(* Mistake: the lock is kept. *)
SetLocked(p, label, state, next) ==
  /\ pc[p] = label
  /\ info' = [info EXCEPT ![Mine(p)].State = state]
  /\ pc' = [pc EXCEPT ![p] = next]
  /\ UNCHANGED <<BSP, cpuVars, runVars, signal, frame, op>>

(* One's own state is set and the lock dropped. *)
SetState(p, label, state, next) ==
  /\ pc[p] = label
  /\ info' = [info EXCEPT ![Mine(p)].State = state, ![Mine(p)].Lock = FALSE]
  /\ pc' = [pc EXCEPT ![p] = next]
  /\ UNCHANGED <<BSP, cpuVars, runVars, signal, frame, op>>

(* The other's state is read and the lock dropped: go on, or try again. *)
SeeState(p, label, states, next, again) ==
  /\ pc[p] = label
  /\ info' = [info EXCEPT ![Others(p)].Lock = FALSE]
  /\ pc' = [pc EXCEPT ![p] = IF info[Others(p)].State \in states THEN next ELSE again]
  /\ UNCHANGED <<BSP, cpuVars, runVars, signal, frame, op>>

Store(p)      == SetState(p, "LockObtained1", "STORED", "TryLock2")
SeeStored(p)  == SeeState(p, "LockObtained2", {"STORED", "LOADED"}, "Load", "TryLock2")
SetLoaded(p)  == SetState(p, "LockObtained3", "LOADED", "TryLock4")
SeeLoaded(p)  == SeeState(p, "LockObtained4", {"LOADED"}, "Pop", "TryLock4")

(* The other's descriptor tables and stack pointer are loaded. *)
Load(p) ==
  /\ pc[p] = "Load"
  /\ rsp' = [rsp EXCEPT ![p] = info[Others(p)].rsp]
  /\ table' = [table EXCEPT ![p] = info[Others(p)].table]
  /\ pc' = [pc EXCEPT ![p] = "TryLock3"]
  /\ UNCHANGED <<BSP, cpuVars, intr, signal, frame, info, op>>

(* The registers are popped from the other's stack, and the return is the  *)
(* other's: into SwitchBSP, or from FutureBspProc into ApProcWrapper.      *)
Pop(p) ==
  /\ pc[p] = "Pop"
  /\ intr' = [intr EXCEPT ![p] = frame[rsp[p]].intr]
  /\ pc' = [pc EXCEPT ![p] = IF frame[rsp[p]].ret = "SwitchBSP" THEN "switched" ELSE "finish"]
  /\ UNCHANGED <<BSP, cpuVars, rsp, table, signal, frame, info, op>>

(* Mistake: interrupts are not enabled again. *)
LeaveDisabled(p) ==
  /\ pc[p] = "switched"
  /\ pc' = [pc EXCEPT ![p] = "wait"]
  /\ UNCHANGED <<BSP, cpuVars, runVars, signal, frame, info, op>>

(* SwitchBSP goes on: interrupts as they were, ... *)
EnableInterrupt(p) ==
  /\ pc[p] = "switched"
  /\ intr' = [intr EXCEPT ![p] = @ \/ op.intr]
  /\ pc' = [pc EXCEPT ![p] = "wait"]
  /\ UNCHANGED <<BSP, cpuVars, rsp, table, signal, frame, info, op>>

(* Mistake: the processor number is taken for a count. *)
SwitchOffByOne(p) ==
  /\ pc[p] = "wait"
  /\ State[BSP] = "FINISHED"
  /\ State' = [State EXCEPT ![BSP] = "IDLE"]
  /\ BSP' = op.target + 1
  /\ pc' = [pc EXCEPT ![p] = "boot"]
  /\ UNCHANGED <<proc, runVars, signal, frame, info, op>>

(* ... and once the old BSP is FINISHED as an AP, it is replaced. *)
SwitchDone(p) ==
  /\ pc[p] = "wait"
  /\ State[BSP] = "FINISHED"
  /\ State' = [State EXCEPT ![BSP] = "IDLE"]
  /\ BSP' = op.target
  /\ pc' = [pc EXCEPT ![p] = "boot"]
  /\ UNCHANGED <<proc, runVars, signal, frame, info, op>>

Exchange(p) ==
  \/ Push(p) \/ Acquire(p) \/ Store(p) \/ SeeStored(p) \/ Load(p) \/ SetLoaded(p)
  \/ SeeLoaded(p) \/ Pop(p)
Ap(p)     == Break(p) \/ Enter(p) \/ TaskReturns(p) \/ Finish(p) \/ Ack(p)
Switch(p) == EnableInterrupt(p) \/ SwitchDone(p)

Next == \E p \in Procs :
  \/ StartupThisAP(p) \/ Collect(p) \/ Expire(p) \/ SwitchBSP(p)
  \/ Ap(p) \/ Exchange(p) \/ Switch(p)

Spec == Init /\ [][Next]_vars

(* Every processor executes; a lock that is vacant again and again is      *)
(* taken in the end, however often the other processor polls it.           *)
Fairness == \A p \in Procs :
  /\ WF_vars(Ap(p)) /\ WF_vars(Exchange(p)) /\ WF_vars(Switch(p))
  /\ SF_vars(Acquire(p))

FairSpec == Spec /\ Fairness

-----------------------------------------------------------------------------
(* Correctness properties.                                                 *)

(* Where a processor neither pushes to nor pops from the stack it is on,   *)
(* and where it has left its stack for good: a halted AP is restarted.     *)
Quiet(p) == pc[p] \in Labels
Gone(p)  == Manner = "Hlt" /\ pc[p] = "parked"

(* Two processors are on one stack only while neither touches it.          *)
StackSafe ==
  \A p, q \in Procs : p # q /\ rsp[p] = rsp[q] =>
    \/ Gone(p) \/ Gone(q)
    \/ Quiet(p) /\ Quiet(q)

(* An interrupt is taken only by the processor that runs the boot code, on *)
(* its stack and through its descriptor tables.                            *)
InterruptSafe ==
  \A p \in Procs : intr[p] =>
    /\ pc[p] \in {"boot", "wait"}
    /\ rsp[p] = Boot /\ table[p] = "boot"

(* Between switches the boot code runs on the processor that BSP names,    *)
(* with interrupts as before the switch, and on no other.                  *)
BootThread ==
  \A p \in Procs : pc[p] = "boot" =>
    /\ p = BSP /\ rsp[p] = Boot /\ intr[p] = op.intr

(* SwitchBSP returns. *)
SwitchEnds == (pc[BSP] # "boot") ~> (pc[BSP] = "boot")
=============================================================================
