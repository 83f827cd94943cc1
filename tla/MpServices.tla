----------------------------- MODULE MpServices -----------------------------
(***************************************************************************)
(* The DXE MP services driver, Cpu/CpuInit/Dxe/MpService.c: the boot       *)
(* processor (BSP) hands procedures to application processors (APs) with   *)
(* StartupThisAP and StartupAllAPs, blocking or with a WaitEvent, and a    *)
(* 10 ms timer collects the answers of the non-blocking calls.             *)
(*                                                                         *)
(* The BSP runs three contexts on one stack: "main" (the caller), "notify" *)
(* (the notification function of a WaitEvent, called by SignalEvent above  *)
(* main) and "timer" (CheckApsStatus, which interrupts both).  A lower     *)
(* context does not move while a higher one is running.  The APs run       *)
(* ApProcWrapper truly in parallel.  A critical section under StateLock or *)
(* ProcedureLock holds one access, so it is one atomic step here.          *)
(***************************************************************************)
EXTENDS Integers, FiniteSets

CONSTANTS
  N,          \* mMPSystemData->NumberOfCpus
  MaxCalls,   \* bound: how many calls are accepted in one behaviour
  Manner,     \* ExchangeInfo->WakeUpApManner: "Hlt" or "Run"
  CallKinds,  \* the combinations of call parameters the callers use
  Usage       \* what else happens: calls made in other ways, AllocatePool failing

Procs == 0 .. N - 1
Calls == 1 .. MaxCalls
Kinds == [all : BOOLEAN, wait : BOOLEAN, single : BOOLEAN, timed : BOOLEAN]

ASSUME NAssumption      == N \in Nat \ {0}
ASSUME CallsAssumption  == MaxCalls \in Nat
ASSUME MannerAssumption == Manner \in {"Hlt", "Run"}
ASSUME KindsAssumption  == CallKinds \subseteq Kinds
ASSUME UsageAssumption  ==
  Usage \subseteq {"switchBSP", "enableDisable", "disableBusy", "overlap", "notifyCalls",
             "poolFull"}
(* In the run loop it matters which stack a processor is on after a switch: *)
(* that is modelled in ExchangeRole.                                       *)
ASSUME SwitchAssumption == "switchBSP" \in Usage => Manner = "Hlt"

NoCall    == 0    \* a NULL WaitEvent or Procedure
FutureBsp == -1   \* the procedure FutureBspProc of SwitchBSP

VARIABLES
  State,       \* CpuData[p].State
  Procedure,   \* CpuData[p].Procedure: the call it belongs to
  WaitEvent,   \* CpuData[p].WaitEvent of a StartupThisAP call
  clock,       \* CpuData[p].ExpectedTime against TotalTime
  signal,      \* BreakToRunApSignal of p holds SIGNAL | ApicId
  apc,         \* where processor p is in the idle loop and ApProcWrapper
  job,         \* the Procedure that ApProcWrapper of p has read
  CpuList,     \* CpuList[p]: p still owes the StartupAllAPs call an answer
  StartCount,  \* APs the StartupAllAPs call was given to
  FinishCount, \* APs of it that were collected
  SingleThread,\* mMPSystemData->SingleThread
  AllProc,     \* mMPSystemData->Procedure
  AllEvent,    \* mMPSystemData->WaitEvent
  AllClock,    \* mMPSystemData->ExpectedTime against TotalTime
  BSP,         \* mMPSystemData->BSP
  mStop,       \* mStopCheckApsStatus
  pc,          \* where each context of the BSP is
  cur,         \* its loop variable ProcessorNumber
  op,          \* its parameters and its call's name
  calls,       \* number of calls accepted so far
  result,      \* what the caller of each accepted call was told
  assigned,    \* the processors each call was accepted for
  served,      \* those whose procedure has returned
  failed,      \* the FailedCpuList reported
  signals      \* how often the WaitEvent of each call was signalled

cpuVars  == <<State, Procedure, signal, apc, job>>
thisVars == <<WaitEvent, clock>>
allVars  == <<CpuList, StartCount, FinishCount, SingleThread, AllProc, AllEvent, AllClock>>
ctxVars  == <<pc, cur, op>>
callVars == <<calls, result, assigned, served, failed, signals>>
vars     == <<cpuVars, thisVars, allVars, BSP, mStop, ctxVars, callVars>>

Contexts == {"main", "notify", "timer"}
CpuState == {"IDLE", "READY", "BUSY", "FINISHED", "DISABLED"}
Clock    == {"infinite", "running", "elapsed"}
ApPhase  == {"parked", "woken", "running", "returned", "cleared", "finished", "bsp"}
Phase    == {"idle", "Update", "AllAps", "AllReset", "AllSignal", "AllClear", "EachAp",
             "EachSignal", "EachClear", "Admit", "Scan", "Mark", "Wake", "Publish",
             "PollThis", "Exchange", "SwitchWait"}
Op == [all : BOOLEAN, wait : BOOLEAN, single : BOOLEAN, timed : BOOLEAN,
       target : Procs, id : 0 .. MaxCalls, poll : BOOLEAN, enable : BOOLEAN]

NoOp == [all |-> FALSE, wait |-> FALSE, single |-> FALSE, timed |-> FALSE,
         target |-> 0, id |-> NoCall, poll |-> FALSE, enable |-> FALSE]

TypeOK ==
  /\ State \in [Procs -> CpuState]
  /\ Procedure \in [Procs -> -1 .. MaxCalls]
  /\ WaitEvent \in [Procs -> 0 .. MaxCalls]
  /\ clock \in [Procs -> Clock]
  /\ signal \in [Procs -> BOOLEAN]
  /\ apc \in [Procs -> ApPhase]
  /\ job \in [Procs -> -1 .. MaxCalls]
  /\ CpuList \in [Procs -> BOOLEAN]
  /\ StartCount \in Nat
  /\ FinishCount \in Nat
  /\ SingleThread \in BOOLEAN
  /\ AllProc \in 0 .. MaxCalls
  /\ AllEvent \in 0 .. MaxCalls
  /\ AllClock \in Clock
  /\ BSP \in Procs
  /\ mStop \in BOOLEAN
  /\ pc \in [Contexts -> Phase]
  /\ cur \in [Contexts -> 0 .. N]
  /\ op \in [Contexts -> Op]
  /\ calls \in 0 .. MaxCalls
  /\ result \in [Calls -> {"none", "pending", "success", "timeout", "resources"}]
  /\ assigned \in [Calls -> SUBSET Procs]
  /\ served \in [Calls -> SUBSET Procs]
  /\ failed \in [Calls -> SUBSET Procs]
  /\ signals \in [Calls -> Nat]

-----------------------------------------------------------------------------
(* The processors after InitializeMpSystemData: every AP that passed its   *)
(* self test is idle, one that failed it is disabled, the BSP is processor *)
(* 0, and FillInProcessorInformation leaves the BSP's own State at IDLE.   *)
Init ==
  /\ State \in {s \in [Procs -> {"IDLE", "DISABLED"}] : s[0] = "IDLE"}
  /\ Procedure = [p \in Procs |-> NoCall]
  /\ WaitEvent = [p \in Procs |-> NoCall]
  /\ clock = [p \in Procs |-> "infinite"]
  /\ signal = [p \in Procs |-> FALSE]
  /\ apc = [p \in Procs |-> IF p = 0 THEN "bsp" ELSE "parked"]
  /\ job = [p \in Procs |-> NoCall]
  /\ CpuList = [p \in Procs |-> FALSE]
  /\ StartCount = 0
  /\ FinishCount = 0
  /\ SingleThread = FALSE
  /\ AllProc = NoCall
  /\ AllEvent = NoCall
  /\ AllClock = "infinite"
  /\ BSP = 0
  /\ mStop = FALSE
  /\ pc = [c \in Contexts |-> "idle"]
  /\ cur = [c \in Contexts |-> 0]
  /\ op = [c \in Contexts |-> NoOp]
  /\ calls = 0
  /\ result = [k \in Calls |-> "none"]
  /\ assigned = [k \in Calls |-> {}]
  /\ served = [k \in Calls |-> {}]
  /\ failed = [k \in Calls |-> {}]
  /\ signals = [k \in Calls |-> 0]

-----------------------------------------------------------------------------
(* Application processors: the idle loop and ApProcWrapper.                *)

ApStep(p, from, to) ==
  /\ apc[p] = from
  /\ apc' = [apc EXCEPT ![p] = to]
  /\ UNCHANGED <<thisVars, allVars, BSP, mStop, ctxVars>>

(* The run loop sees its signal and calls ApFunction, which is ApProcWrapper. *)
ApBreak(p) ==
  /\ Manner = "Run"
  /\ signal[p]
  /\ ApStep(p, "parked", "woken")
  /\ UNCHANGED <<State, Procedure, signal, job, callVars>>

(* ApProcWrapper finds no procedure and goes back to the idle loop. *)
ApNothing(p) ==
  /\ Procedure[p] = NoCall
  /\ ApStep(p, "woken", "parked")
  /\ UNCHANGED <<State, Procedure, signal, job, callVars>>

ApEnter(p) ==
  /\ Procedure[p] # NoCall
  /\ ApStep(p, "woken", "running")
  /\ job' = [job EXCEPT ![p] = Procedure[p]]
  /\ State' = [State EXCEPT ![p] = "BUSY"]
  /\ UNCHANGED <<Procedure, signal, callVars>>

(* The caller's procedure returns.  FutureBspProc returns in Exchange only. *)
ApReturn(p) ==
  /\ job[p] \in Calls
  /\ ApStep(p, "running", "returned")
  /\ served' = [served EXCEPT ![job[p]] = @ \union {p}]
  /\ UNCHANGED <<State, Procedure, signal, job, calls, result, assigned, failed, signals>>

ApClear(p) ==
  /\ ApStep(p, "returned", "cleared")
  /\ Procedure' = [Procedure EXCEPT ![p] = NoCall]
  /\ job' = [job EXCEPT ![p] = NoCall]
  /\ UNCHANGED <<State, signal, callVars>>

ApFinish(p) ==
  /\ ApStep(p, "cleared", "finished")
  /\ State' = [State EXCEPT ![p] = "FINISHED"]
  /\ UNCHANGED <<Procedure, signal, job, callVars>>

ApAck(p) ==
  /\ ApStep(p, "finished", "parked")
  /\ signal' = [signal EXCEPT ![p] = FALSE]
  /\ UNCHANGED <<State, Procedure, job, callVars>>

Ap(p) == \/ ApBreak(p) \/ ApNothing(p) \/ ApEnter(p) \/ ApReturn(p)
         \/ ApClear(p) \/ ApFinish(p) \/ ApAck(p)

(* WakeUpAp: by INIT-SIPI-SIPI, which restarts the AP wherever it was, or  *)
(* by writing the signal its run loop polls.                               *)
WakeUpAp(p, k) ==
  /\ Procedure' = [Procedure EXCEPT ![p] = k]
  /\ apc' = IF Manner = "Hlt" THEN [apc EXCEPT ![p] = "woken"] ELSE apc
  /\ job' = IF Manner = "Hlt" THEN [job EXCEPT ![p] = NoCall] ELSE job
  /\ signal' = IF Manner = "Hlt" THEN signal ELSE [signal EXCEPT ![p] = TRUE]

(* Mistake: the procedure is left in place, so the restarted AP runs it again. *)
ResetKeepingProcedure(p) ==
  /\ apc' = [apc EXCEPT ![p] = "woken"]
  /\ job' = [job EXCEPT ![p] = NoCall]
  /\ State' = [State EXCEPT ![p] = "IDLE"]
  /\ UNCHANGED <<Procedure, signal>>

ResetProcessorToIdleState(p) ==
  /\ Procedure' = [Procedure EXCEPT ![p] = NoCall]
  /\ apc' = [apc EXCEPT ![p] = "woken"]
  /\ job' = [job EXCEPT ![p] = NoCall]
  /\ State' = [State EXCEPT ![p] = "IDLE"]
  /\ UNCHANGED signal

-----------------------------------------------------------------------------
(* Contexts of the BSP.                                                    *)

Active(c) ==
  CASE c = "timer"  -> TRUE
    [] c = "notify" -> pc["timer"] = "idle"
    [] c = "main"   -> pc["timer"] = "idle" /\ pc["notify"] = "idle"

At(c, phase) == Active(c) /\ pc[c] = phase

Goto(c, phase, i) ==
  /\ pc' = [pc EXCEPT ![c] = phase]
  /\ cur' = [cur EXCEPT ![c] = i]

(* A StartupThisAP or StartupAllAPs call returns; all its exits allow      *)
(* CheckApsStatus again.                                                   *)
Return(c) ==
  /\ Goto(c, "idle", 0)
  /\ op' = [op EXCEPT ![c] = NoOp]
  /\ mStop' = FALSE

(* CheckTimeout, with the counters abstracted to "has the limit passed".   *)
CheckTimeout(t) == t = "elapsed"

(* Mistake: every timeout is taken for infinite. *)
CalculateNoTimeout(timed) == IF timed THEN "infinite" ELSE "infinite"

CalculateTimeout(timed) == IF timed THEN "running" ELSE "infinite"

(* The caller of call k is told r. *)
Report(k, r) == result' = [result EXCEPT ![k] = r]

-----------------------------------------------------------------------------
(* CheckAndUpdateApsStatus, first half: a pending StartupAllAPs call.      *)

Update(c) ==
  /\ At(c, "Update")
  /\ Goto(c, IF AllEvent # NoCall THEN "AllAps" ELSE "EachAp", 0)
  /\ UNCHANGED <<cpuVars, thisVars, allVars, BSP, mStop, op, callVars>>

(* CheckAllAps, one processor of its first loop: not listed, or not done.  *)
SkipAp(c) ==
  LET p == cur[c] IN
  /\ At(c, "AllAps") /\ p < N
  /\ ~(CpuList[p] /\ State[p] = "FINISHED")
  /\ Goto(c, "AllAps", p + 1)
  /\ UNCHANGED <<cpuVars, thisVars, allVars, BSP, mStop, op, callVars>>

Waiting(list) == {p \in Procs : list[p]}

GetNextWaitingProcessorNumber(list) ==
  CHOOSE p \in Waiting(list) : \A q \in Waiting(list) : p <= q

(* Mistake: single thread mode forgets to wake the next AP. *)
CollectWithoutNext(c) ==
  LET p == cur[c] IN
  /\ At(c, "AllAps") /\ p < N
  /\ CpuList[p] /\ State[p] = "FINISHED"
  /\ FinishCount' = FinishCount + 1
  /\ CpuList' = [CpuList EXCEPT ![p] = FALSE]
  /\ State' = [State EXCEPT ![p] = "IDLE"]
  /\ Goto(c, "AllAps", p + 1)
  /\ UNCHANGED <<Procedure, signal, apc, job, thisVars, StartCount, SingleThread, AllProc,
                 AllEvent, AllClock, BSP, mStop, op, callVars>>

(* ... listed and FINISHED: collect it; in single thread mode wake the next. *)
CollectAp(c) ==
  LET p == cur[c] IN
  /\ At(c, "AllAps") /\ p < N
  /\ CpuList[p] /\ State[p] = "FINISHED"
  /\ FinishCount' = FinishCount + 1
  /\ CpuList' = [CpuList EXCEPT ![p] = FALSE]
  /\ State' = [State EXCEPT ![p] = "IDLE"]
  /\ IF SingleThread /\ Waiting(CpuList') # {}
       THEN WakeUpAp(GetNextWaitingProcessorNumber(CpuList'), AllProc)
       ELSE UNCHANGED <<Procedure, signal, apc, job>>
  /\ Goto(c, "AllAps", p + 1)
  /\ UNCHANGED <<thisVars, StartCount, SingleThread, AllProc, AllEvent, AllClock,
                 BSP, mStop, op, callVars>>

(* CheckAllAps returns EFI_SUCCESS or EFI_TIMEOUT: a blocking call returns *)
(* it, CheckAndUpdateApsStatus signals the event.                          *)
Deliver(c) ==
  IF op[c].poll THEN Return(c)
                ELSE Goto(c, "AllSignal", 0) /\ UNCHANGED <<op, mStop>>

AllFinished(c) ==
  /\ At(c, "AllAps") /\ cur[c] = N
  /\ FinishCount = StartCount
  /\ Report(AllProc, "success")
  /\ Deliver(c)
  /\ UNCHANGED <<cpuVars, thisVars, allVars, BSP, calls, assigned, served, failed, signals>>

AllExpired(c) ==
  /\ At(c, "AllAps") /\ cur[c] = N
  /\ FinishCount # StartCount
  /\ CheckTimeout(AllClock)
  /\ Goto(c, "AllReset", 0)
  /\ UNCHANGED <<cpuVars, thisVars, allVars, BSP, mStop, op, callVars>>

(* EFI_OUT_OF_RESOURCES: no memory for the FailedCpuList.  The APs are left *)
(* as they are and the call is over.                                       *)
AllOutOfResources(c) ==
  /\ "poolFull" \in Usage
  /\ At(c, "AllAps") /\ cur[c] = N
  /\ FinishCount # StartCount
  /\ CheckTimeout(AllClock)
  /\ Report(AllProc, "resources")
  /\ Deliver(c)
  /\ UNCHANGED <<cpuVars, thisVars, allVars, BSP, calls, assigned, served, failed, signals>>

(* EFI_NOT_READY: poll again, or go on to the single calls. *)
AllNotReady(c) ==
  /\ At(c, "AllAps") /\ cur[c] = N
  /\ FinishCount # StartCount
  /\ ~CheckTimeout(AllClock)
  /\ Goto(c, IF op[c].poll THEN "AllAps" ELSE "EachAp", 0)
  /\ UNCHANGED <<cpuVars, thisVars, allVars, BSP, mStop, op, callVars>>

(* Mistake: only the APs that are BUSY are reset and reported. *)
AllResetBusy(c) ==
  LET p == cur[c] IN
  /\ At(c, "AllReset") /\ p < N
  /\ CpuList' = [CpuList EXCEPT ![p] = FALSE]
  /\ IF CpuList[p] /\ State[p] = "BUSY"
       THEN /\ ResetProcessorToIdleState(p)
            /\ failed' = [failed EXCEPT ![AllProc] = @ \union {p}]
       ELSE UNCHANGED <<cpuVars, failed>>
  /\ Goto(c, "AllReset", p + 1)
  /\ UNCHANGED <<thisVars, StartCount, FinishCount, SingleThread, AllProc, AllEvent, AllClock,
                 BSP, mStop, op, calls, result, assigned, served, signals>>

AllReset(c) ==
  LET p == cur[c] IN
  /\ At(c, "AllReset") /\ p < N
  /\ IF CpuList[p]
       THEN /\ ResetProcessorToIdleState(p)
            /\ CpuList' = [CpuList EXCEPT ![p] = FALSE]
            /\ failed' = [failed EXCEPT ![AllProc] = @ \union {p}]
       ELSE UNCHANGED <<cpuVars, CpuList, failed>>
  /\ Goto(c, "AllReset", p + 1)
  /\ UNCHANGED <<thisVars, StartCount, FinishCount, SingleThread, AllProc, AllEvent, AllClock,
                 BSP, mStop, op, calls, result, assigned, served, signals>>

AllTimeout(c) ==
  /\ At(c, "AllReset") /\ cur[c] = N
  /\ Report(AllProc, "timeout")
  /\ Deliver(c)
  /\ UNCHANGED <<cpuVars, thisVars, allVars, BSP, calls, assigned, served, failed, signals>>

Signal(k) == signals' = [signals EXCEPT ![k] = @ + 1]

AllSignal(c) ==
  /\ At(c, "AllSignal")
  /\ Signal(AllEvent)
  /\ Goto(c, "AllClear", 0)
  /\ UNCHANGED <<cpuVars, thisVars, allVars, BSP, mStop, op, calls, result, assigned, served, failed>>

(* Mistake: WaitEvent is not cleared after it was signalled. *)
AllKeep(c) ==
  /\ At(c, "AllClear")
  /\ Goto(c, "EachAp", 0)
  /\ UNCHANGED <<cpuVars, thisVars, allVars, BSP, mStop, op, callVars>>

AllClear(c) ==
  /\ At(c, "AllClear")
  /\ AllEvent' = NoCall
  /\ Goto(c, "EachAp", 0)
  /\ UNCHANGED <<cpuVars, thisVars, CpuList, StartCount, FinishCount, SingleThread, AllProc, AllClock,
                 BSP, mStop, op, callVars>>

-----------------------------------------------------------------------------
(* CheckThisAp(p) for the call k.                                          *)

ThisFinished(p, k) ==
  /\ State[p] = "FINISHED"
  /\ State' = [State EXCEPT ![p] = "IDLE"]
  /\ Report(k, "success")
  /\ UNCHANGED <<Procedure, signal, apc, job, failed>>

(* Mistake: the AP that timed out is not reset. *)
ThisAbandoned(p, k) ==
  /\ State[p] # "FINISHED"
  /\ CheckTimeout(clock[p])
  /\ State' = [State EXCEPT ![p] = "IDLE"]
  /\ Report(k, "timeout")
  /\ failed' = [failed EXCEPT ![k] = {p}]
  /\ UNCHANGED <<Procedure, signal, apc, job>>

ThisExpired(p, k) ==
  /\ State[p] # "FINISHED"
  /\ CheckTimeout(clock[p])
  /\ ResetProcessorToIdleState(p)
  /\ Report(k, "timeout")
  /\ failed' = [failed EXCEPT ![k] = {p}]

ThisNotReady(p) == State[p] # "FINISHED" /\ ~CheckTimeout(clock[p])

(* CheckAndUpdateApsStatus, second half: pending StartupThisAP calls.      *)

EachSkip(c) ==
  LET p == cur[c] IN
  /\ At(c, "EachAp") /\ p < N
  /\ WaitEvent[p] = NoCall \/ ThisNotReady(p)
  /\ Goto(c, "EachAp", p + 1)
  /\ UNCHANGED <<cpuVars, thisVars, allVars, BSP, mStop, op, callVars>>

EachDone(c) ==
  LET p == cur[c] IN
  /\ At(c, "EachAp") /\ p < N
  /\ WaitEvent[p] # NoCall
  /\ ThisFinished(p, WaitEvent[p]) \/ ThisExpired(p, WaitEvent[p])
  /\ Goto(c, "EachSignal", p)
  /\ UNCHANGED <<thisVars, allVars, BSP, mStop, op, calls, assigned, served, signals>>

EachSignal(c) ==
  /\ At(c, "EachSignal")
  /\ Signal(WaitEvent[cur[c]])
  /\ Goto(c, "EachClear", cur[c])
  /\ UNCHANGED <<cpuVars, thisVars, allVars, BSP, mStop, op, calls, result, assigned, served, failed>>

EachClear(c) ==
  LET p == cur[c] IN
  /\ At(c, "EachClear") /\ p < N
  /\ WaitEvent' = [WaitEvent EXCEPT ![p] = NoCall]
  /\ Goto(c, "EachAp", p + 1)
  /\ UNCHANGED <<cpuVars, clock, allVars, BSP, mStop, op, callVars>>

(* CheckAndUpdateApsStatus returns: to the timer, or to the caller's checks. *)
Updated(c) ==
  /\ At(c, "EachAp") /\ cur[c] = N
  /\ Goto(c, CASE c = "timer" -> "idle"
               [] c # "timer" /\ op[c].all -> "Scan"
               [] OTHER -> "Admit", 0)
  /\ UNCHANGED <<cpuVars, thisVars, allVars, BSP, mStop, op, callVars>>

CheckAndUpdateApsStatus(c) ==
  \/ Update(c) \/ SkipAp(c) \/ CollectAp(c)
  \/ AllFinished(c) \/ AllExpired(c) \/ AllOutOfResources(c) \/ AllNotReady(c)
  \/ AllReset(c) \/ AllTimeout(c)
  \/ AllSignal(c) \/ AllClear(c)
  \/ EachSkip(c) \/ EachDone(c) \/ EachSignal(c) \/ EachClear(c) \/ Updated(c)

(* CheckApsStatus: the timer event, every 10 ms, unless a call has         *)
(* suppressed it; SwitchBSP exchanges the roles with interrupts disabled.  *)
CheckApsStatus ==
  /\ pc["timer"] = "idle"
  /\ pc["main"] # "Exchange"
  /\ IF mStop THEN UNCHANGED <<pc, cur>> ELSE Goto("timer", "Update", 0)
  /\ UNCHANGED <<cpuVars, thisVars, allVars, BSP, mStop, op, callVars>>

-----------------------------------------------------------------------------
(* StartupThisAP and StartupAllAPs, past their parameter checks.           *)

(* The boot code starts calls when it is in none; a careful caller does    *)
(* not start a second StartupAllAPs before the WaitEvent of the first was  *)
(* signalled.  The notification function of an event may start a call when *)
(* SignalEvent runs it, before CheckAndUpdateApsStatus goes on.            *)
MayCall(c, kind) ==
  \/ /\ c = "main"
     /\ calls < MaxCalls
     /\ kind.all => AllEvent = NoCall \/ "overlap" \in Usage
  \/ /\ c = "notify"
     /\ "notifyCalls" \in Usage
     /\ calls < MaxCalls - 1
     /\ pc["main"] \in {"AllClear", "EachClear"}

(* Mistake: CheckApsStatus is not suppressed. *)
StartUnsuppressed(c, kind, p) ==
  /\ At(c, "idle")
  /\ MayCall(c, kind)
  /\ IF kind.all THEN p = 0 ELSE p # BSP
  /\ pc' = [pc EXCEPT ![c] = "Update"]
  /\ op' = [op EXCEPT ![c] = [NoOp EXCEPT !.all = kind.all, !.wait = kind.wait,
                                !.single = kind.single, !.timed = kind.timed, !.target = p]]
  /\ UNCHANGED <<cpuVars, thisVars, allVars, BSP, mStop, cur, callVars>>

StartCall(c, kind, p) ==
  /\ At(c, "idle")
  /\ MayCall(c, kind)
  /\ IF kind.all THEN p = 0 ELSE p # BSP
  /\ pc' = [pc EXCEPT ![c] = "Update"]
  /\ op' = [op EXCEPT ![c] = [NoOp EXCEPT !.all = kind.all, !.wait = kind.wait,
                                !.single = kind.single, !.timed = kind.timed, !.target = p]]
  /\ mStop' = TRUE
  /\ UNCHANGED <<cpuVars, thisVars, allVars, BSP, cur, callVars>>

Accept(c, P, i) ==
  /\ calls' = calls + 1
  /\ result' = [result EXCEPT ![calls'] = "pending"]
  /\ assigned' = [assigned EXCEPT ![calls'] = P]
  /\ op' = [op EXCEPT ![c].id = calls']
  /\ Goto(c, "Mark", i)
  /\ UNCHANGED <<served, failed, signals, mStop>>

(* Mistake: an AP that is busy is accepted. *)
AdmitBusy(c) ==
  LET p == op[c].target IN
  /\ At(c, "Admit")
  /\ IF State[p] # "DISABLED" THEN Accept(c, {p}, p)
                              ELSE Return(c) /\ UNCHANGED callVars
  /\ UNCHANGED <<cpuVars, thisVars, allVars, BSP>>

(* StartupThisAP: EFI_INVALID_PARAMETER when disabled, EFI_NOT_READY when  *)
(* not idle.                                                               *)
Admit(c) ==
  LET p == op[c].target IN
  /\ At(c, "Admit")
  /\ IF State[p] = "IDLE" THEN Accept(c, {p}, p)
                          ELSE Return(c) /\ UNCHANGED callVars
  /\ UNCHANGED <<cpuVars, thisVars, allVars, BSP>>

(* StartupAllAPs lists the idle APs and gives up at the first busy one. *)
Scan(c) ==
  LET p == cur[c]
      enabled == p # BSP /\ State[p] # "DISABLED"
      busy == enabled /\ State[p] # "IDLE" IN
  /\ At(c, "Scan") /\ p < N
  /\ CpuList' = [CpuList EXCEPT ![p] = enabled /\ ~busy]
  /\ IF busy THEN Return(c)
             ELSE Goto(c, "Scan", p + 1) /\ UNCHANGED <<op, mStop>>
  /\ UNCHANGED <<cpuVars, thisVars, StartCount, FinishCount, SingleThread, AllProc, AllEvent, AllClock,
                 BSP, callVars>>

(* Mistake: FinishCount still counts the APs of the previous call. *)
ScannedUncounted(c) ==
  /\ At(c, "Scan") /\ cur[c] = N
  /\ StartCount' = 0
  /\ IF Waiting(CpuList) # {} THEN Accept(c, Waiting(CpuList), 0)
                              ELSE Return(c) /\ UNCHANGED callVars
  /\ UNCHANGED <<cpuVars, thisVars, CpuList, FinishCount, SingleThread, AllProc, AllEvent, AllClock, BSP>>

(* All enabled APs are idle: dispatch, or EFI_NOT_STARTED without any. *)
Scanned(c) ==
  /\ At(c, "Scan") /\ cur[c] = N
  /\ FinishCount' = 0
  /\ StartCount' = 0
  /\ IF Waiting(CpuList) # {} THEN Accept(c, Waiting(CpuList), 0)
                              ELSE Return(c) /\ UNCHANGED callVars
  /\ UNCHANGED <<cpuVars, thisVars, CpuList, SingleThread, AllProc, AllEvent, AllClock, BSP>>

(* The AP is made READY before it is woken. *)
Mark(c) ==
  LET p == cur[c] IN
  /\ At(c, "Mark") /\ p < N
  /\ op[c].all => CpuList[p]
  /\ State' = [State EXCEPT ![p] = "READY"]
  /\ StartCount' = IF op[c].all THEN StartCount + 1 ELSE StartCount
  /\ Goto(c, "Wake", p)
  /\ UNCHANGED <<Procedure, signal, apc, job, thisVars, CpuList, FinishCount, SingleThread, AllProc,
                 AllEvent, AllClock, BSP, mStop, op, callVars>>

MarkSkip(c) ==
  LET p == cur[c] IN
  /\ At(c, "Mark") /\ op[c].all
  /\ \/ p < N /\ ~CpuList[p] /\ Goto(c, "Mark", p + 1)
     \/ p = N /\ Goto(c, "Publish", 0)
  /\ UNCHANGED <<cpuVars, thisVars, allVars, BSP, mStop, op, callVars>>

(* Mistake: single thread mode wakes every AP at once. *)
WakeEach(c) ==
  LET p == cur[c] IN
  /\ At(c, "Wake") /\ p < N
  /\ WakeUpAp(p, op[c].id)
  /\ IF op[c].all THEN Goto(c, "Mark", p + 1) ELSE Goto(c, "Publish", 0)
  /\ UNCHANGED <<State, thisVars, allVars, BSP, mStop, op, callVars>>

(* Single thread mode wakes the first AP only. *)
Wake(c) ==
  LET p == cur[c] IN
  /\ At(c, "Wake") /\ p < N
  /\ IF op[c].single /\ StartCount > 1
       THEN UNCHANGED <<Procedure, signal, apc, job>>
       ELSE WakeUpAp(p, op[c].id)
  /\ IF op[c].all THEN Goto(c, "Mark", p + 1) ELSE Goto(c, "Publish", 0)
  /\ UNCHANGED <<State, thisVars, allVars, BSP, mStop, op, callVars>>

EventOf(o) == IF o.wait THEN o.id ELSE NoCall

PublishThis(c) ==
  LET p == op[c].target IN
  /\ At(c, "Publish") /\ ~op[c].all
  /\ WaitEvent' = [WaitEvent EXCEPT ![p] = EventOf(op[c])]
  /\ clock' = [clock EXCEPT ![p] = CalculateTimeout(op[c].timed)]
  /\ IF op[c].wait THEN Return(c)
                   ELSE Goto(c, "PollThis", 0) /\ UNCHANGED <<op, mStop>>
  /\ UNCHANGED <<cpuVars, allVars, BSP, callVars>>

PublishAll(c) ==
  /\ At(c, "Publish") /\ op[c].all
  /\ AllProc' = op[c].id
  /\ SingleThread' = op[c].single
  /\ AllClock' = CalculateTimeout(op[c].timed)
  /\ AllEvent' = EventOf(op[c])
  /\ IF op[c].wait THEN Return(c)
                   ELSE /\ Goto(c, "AllAps", 0)
                        /\ op' = [op EXCEPT ![c].poll = TRUE]
                        /\ UNCHANGED mStop
  /\ UNCHANGED <<cpuVars, thisVars, CpuList, StartCount, FinishCount, BSP, callVars>>

(* A blocking StartupThisAP polls CheckThisAp until it is ready. *)
PollThis(c) ==
  LET p == op[c].target IN
  /\ At(c, "PollThis")
  /\ ThisFinished(p, op[c].id) \/ ThisExpired(p, op[c].id)
  /\ Return(c)
  /\ UNCHANGED <<thisVars, allVars, BSP, calls, assigned, served, signals>>

Dispatch(c) ==
  \/ Admit(c) \/ Scan(c) \/ Scanned(c) \/ Mark(c) \/ MarkSkip(c) \/ Wake(c)
  \/ PublishThis(c) \/ PublishAll(c) \/ PollThis(c)

-----------------------------------------------------------------------------
(* EnableDisableAP: ChangeCpuState whatever the AP is doing.  A careful    *)
(* caller leaves an AP alone that is serving a call.                       *)
EnableDisableAP(p, new) ==
  /\ "enableDisable" \in Usage
  /\ At("main", "idle")
  /\ p # BSP
  /\ State[p] \in {"IDLE", "DISABLED"} \/ "disableBusy" \in Usage
  /\ State' = [State EXCEPT ![p] = IF new THEN "IDLE" ELSE "DISABLED"]
  /\ UNCHANGED <<Procedure, signal, apc, job, thisVars, allVars, BSP, mStop, ctxVars, callVars>>

(* SwitchBSP: wake the future BSP in FutureBspProc, ... *)
SwitchBSP(p, enable) ==
  /\ "switchBSP" \in Usage
  /\ At("main", "idle")
  /\ p # BSP
  /\ State[p] = "IDLE"
  /\ WakeUpAp(p, FutureBsp)
  /\ Goto("main", "Exchange", 0)
  /\ op' = [op EXCEPT !["main"] = [NoOp EXCEPT !.target = p, !.enable = enable]]
  /\ UNCHANGED <<State, thisVars, allVars, BSP, mStop, callVars>>

(* ... both processors meet in AsmExchangeRole and leave it on each        *)
(* other's stack: the AP goes on in SwitchBSP, the old BSP returns from    *)
(* FutureBspProc into ApProcWrapper, ...                                   *)
Exchange ==
  LET p == op["main"].target IN
  /\ At("main", "Exchange")
  /\ apc[p] = "running" /\ job[p] = FutureBsp
  /\ apc' = [apc EXCEPT ![p] = "bsp", ![BSP] = "returned"]
  /\ Goto("main", "SwitchWait", 0)
  /\ UNCHANGED <<State, Procedure, signal, job, thisVars, allVars, BSP, mStop, op, callVars>>

(* Mistake: the new BSP goes on before the old one is FINISHED. *)
SwitchHurried ==
  /\ At("main", "SwitchWait")
  /\ State' = [State EXCEPT ![BSP] = IF op["main"].enable THEN "IDLE" ELSE "DISABLED"]
  /\ BSP' = op["main"].target
  /\ Goto("main", "idle", 0)
  /\ op' = [op EXCEPT !["main"] = NoOp]
  /\ UNCHANGED <<Procedure, signal, apc, job, thisVars, allVars, mStop, callVars>>

(* Mistake: the processor number is taken for a count. *)
SwitchOffByOne ==
  /\ At("main", "SwitchWait")
  /\ State[BSP] = "FINISHED"
  /\ State' = [State EXCEPT ![BSP] = IF op["main"].enable THEN "IDLE" ELSE "DISABLED"]
  /\ BSP' = op["main"].target + 1
  /\ Goto("main", "idle", 0)
  /\ op' = [op EXCEPT !["main"] = NoOp]
  /\ UNCHANGED <<Procedure, signal, apc, job, thisVars, allVars, mStop, callVars>>

(* ... and the new BSP waits for the old one to be FINISHED as an AP. *)
SwitchDone ==
  /\ At("main", "SwitchWait")
  /\ State[BSP] = "FINISHED"
  /\ State' = [State EXCEPT ![BSP] = IF op["main"].enable THEN "IDLE" ELSE "DISABLED"]
  /\ BSP' = op["main"].target
  /\ Goto("main", "idle", 0)
  /\ op' = [op EXCEPT !["main"] = NoOp]
  /\ UNCHANGED <<Procedure, signal, apc, job, thisVars, allVars, mStop, callVars>>

(* The limit of a call with a finite timeout passes. *)
Elapse(p) ==
  /\ clock[p] = "running"
  /\ WaitEvent[p] # NoCall \/ \E c \in Contexts : pc[c] = "PollThis" /\ op[c].target = p
  /\ clock' = [clock EXCEPT ![p] = "elapsed"]
  /\ UNCHANGED <<cpuVars, WaitEvent, allVars, BSP, mStop, ctxVars, callVars>>

ElapseAll ==
  /\ AllClock = "running"
  /\ AllEvent # NoCall \/ \E c \in Contexts : op[c].poll
  /\ AllClock' = "elapsed"
  /\ UNCHANGED <<cpuVars, thisVars, CpuList, StartCount, FinishCount, SingleThread, AllProc, AllEvent,
                 BSP, mStop, ctxVars, callVars>>

Callers == {"main", "notify"}

Context(c) == CheckAndUpdateApsStatus(c) \/ (c \in Callers /\ Dispatch(c))

Next ==
  \/ \E p \in Procs : Ap(p) \/ Elapse(p)
  \/ ElapseAll
  \/ CheckApsStatus
  \/ \E c \in Contexts : CheckAndUpdateApsStatus(c)
  \/ \E c \in Callers : Dispatch(c)
  \/ \E c \in Callers, kind \in CallKinds, p \in Procs : StartCall(c, kind, p)
  \/ \E p \in Procs, b \in BOOLEAN : EnableDisableAP(p, b) \/ SwitchBSP(p, b)
  \/ Exchange \/ SwitchDone

Spec == Init /\ [][Next]_vars

(* The BSP executes, its timer ticks and time passes; nothing is assumed   *)
(* of the APs, whose procedures may hang.                                  *)
BspFair ==
  /\ \A c \in Contexts : WF_vars(Context(c))
  /\ WF_vars(Exchange) /\ WF_vars(SwitchDone)
  /\ WF_vars(CheckApsStatus)
  /\ WF_vars(ElapseAll) /\ \A p \in Procs : WF_vars(Elapse(p))

(* The APs execute too, and the procedures given to them return. *)
ApFair == \A p \in Procs : WF_vars(Ap(p))

BspFairSpec == Spec /\ BspFair
FairSpec    == Spec /\ BspFair /\ ApFair

-----------------------------------------------------------------------------
(* Correctness properties.                                                 *)

Started(c)    == op[c].id # NoCall
AllPending    == \/ AllEvent # NoCall
                 \/ \E c \in Contexts : Started(c) /\ op[c].all
AllOwns(p)    == CpuList[p] /\ AllPending
ThisOwns(p)   == \/ WaitEvent[p] # NoCall
                 \/ \E c \in Contexts : Started(c) /\ ~op[c].all /\ op[c].target = p
SwitchOwns(p) == /\ pc["main"] \in {"Exchange", "SwitchWait"}
                 /\ p = op["main"].target

(* Every AP that is not available to the callers is owed to a call that    *)
(* still waits for it: an AP is never left READY, BUSY or FINISHED with    *)
(* nobody to collect it, which would make every later StartupAllAPs return *)
(* EFI_NOT_READY.  The exception is a call that ended for lack of memory:  *)
(* CheckAllAps returns without resetting its APs.                          *)
NoOrphan ==
  \A p \in Procs \ {BSP} :
    State[p] \in {"READY", "BUSY", "FINISHED"} =>
      \/ AllOwns(p) \/ ThisOwns(p) \/ SwitchOwns(p)
      \/ \E k \in Calls : result[k] = "resources" /\ p \in assigned[k]

(* No AP is awaited by a StartupAllAPs and a StartupThisAP at once: the    *)
(* FINISHED of one would be collected by the other.                        *)
SingleOwner == \A p \in Procs : ~(AllOwns(p) /\ ThisOwns(p))

(* While a StartupAllAPs call is pending, StartCount - FinishCount is the  *)
(* number of APs still listed: the call can neither complete early nor     *)
(* wait forever, and the FailedCpuList that CheckAllAps allocates from the *)
(* difference has room for every AP it reports.                            *)
Accounting ==
  AllProc # NoCall /\ result[AllProc] = "pending"
    /\ ~(\E c \in Contexts : Started(c) /\ op[c].all /\ ~op[c].poll)
    /\ ~(\E c \in Contexts : pc[c] = "AllReset")
  => StartCount = FinishCount + Cardinality(Waiting(CpuList))

(* A procedure runs on an AP only for a call that was accepted for this AP *)
(* and not yet answered, and only once: a timed out or collected procedure *)
(* never starts again.  Only a call that ended for lack of memory leaves   *)
(* its procedures running.                                                 *)
NoGhostRun ==
  \A p \in Procs : apc[p] = "running" /\ job[p] \in Calls =>
    /\ result[job[p]] \in {"pending", "resources"}
    /\ p \in assigned[job[p]] \ served[job[p]]

(* In single thread mode at most one AP is running the procedure. *)
OneAtATime ==
  SingleThread /\ AllPending /\ ~(\E c \in Contexts : Started(c) /\ ~op[c].poll)
  => \A p, q \in Procs :
       job[p] = AllProc /\ job[q] = AllProc /\ AllProc # NoCall => p = q

(* A timed out call names APs that failed, and every AP it does not name   *)
(* has run the procedure.                                                  *)
FailedListHonest ==
  \A k \in Calls : result[k] = "timeout" =>
    failed[k] # {} /\ assigned[k] \ failed[k] \subseteq served[k]

Answers == {"success", "timeout", "resources"}

(* The event of a call is signalled once, after the call was answered. *)
SignalledOnce ==
  \A k \in Calls : signals[k] <= 1 /\ (signals[k] = 1 => result[k] \in Answers)

(* The driver implements the caller's view of calls. *)
Jobs == INSTANCE ApJobs WITH status <- result
JobsSpec == Jobs!Spec

(* Every accepted call is answered, and its event, if any, is signalled. *)
Answered ==
  \A k \in Calls : result[k] = "pending" ~> result[k] \in Answers
EventSignalled ==
  \A k \in Calls :
    (AllEvent = k \/ \E p \in Procs : WaitEvent[p] = k) ~> signals[k] = 1

(* While a call is being carried out the timer does not check the APs.     *)
TimerSuppressed ==
  pc["timer"] # "idle" =>
    \A c \in {"main", "notify"} : pc[c] \in {"idle", "SwitchWait"}

(* An AP that was given a procedure and woken up runs. *)
WokenRuns ==
  \A p \in Procs : (State[p] = "READY" /\ Procedure[p] # NoCall) ~> State[p] # "READY"
=============================================================================
