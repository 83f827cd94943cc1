------------------------- MODULE MpServices_proof -------------------------
(***************************************************************************)
(* Theorems about MpServices for every number of processors, of calls,     *)
(* every wake-up manner and every way to call.                             *)
(***************************************************************************)
EXTENDS MpServices, TLAPS

USE NAssumption, CallsAssumption, MannerAssumption, KindsAssumption

(* Changing a function at one argument, which need not be in its domain,   *)
(* keeps its type.                                                         *)
LEMMA ExceptType ==
  ASSUME NEW S, NEW T, NEW f \in [S -> T], NEW x, NEW v, x \in S => v \in T
  PROVE  [f EXCEPT ![x] = v] \in [S -> T]
  OBVIOUS

LEMMA ExceptOutside ==
  ASSUME NEW S, NEW T, NEW f \in [S -> T], NEW x, NEW v, x \notin S
  PROVE  [f EXCEPT ![x] = v] = f
  OBVIOUS

(* The types of the operation records, and of what the helpers assign. *)
LEMMA NoOpType == NoOp \in Op
  BY DEF NoOp, Op, Procs, NoCall

LEMMA InitType == Init => TypeOK
  <1> SUFFICES ASSUME Init PROVE TypeOK
    OBVIOUS
  <1>1. 0 \in Procs /\ 0 \in 0 .. N /\ 0 \in 0 .. MaxCalls /\ 0 \in -1 .. MaxCalls
    BY DEF Procs
  <1>2. State \in [Procs -> CpuState]
    BY DEF Init, CpuState
  <1> QED
    BY <1>1, <1>2, NoOpType
    DEF Init, TypeOK, NoCall, Clock, ApPhase, Phase, CpuState

(* The steps of an application processor. *)
LEMMA ApType ==
  ASSUME TypeOK, NEW p \in Procs, Ap(p)
  PROVE  TypeOK'
  <1> USE DEF TypeOK, ApStep, thisVars, allVars, ctxVars, callVars, ApPhase, CpuState, NoCall
  <1>1. CASE ApBreak(p)   BY <1>1 DEF ApBreak
  <1>2. CASE ApNothing(p) BY <1>2 DEF ApNothing
  <1>3. CASE ApEnter(p)   BY <1>3 DEF ApEnter
  <1>4. CASE ApReturn(p)  BY <1>4 DEF ApReturn
  <1>5. CASE ApClear(p)   BY <1>5 DEF ApClear
  <1>6. CASE ApFinish(p)  BY <1>6 DEF ApFinish
  <1>7. CASE ApAck(p)     BY <1>7 DEF ApAck
  <1> QED BY <1>1, <1>2, <1>3, <1>4, <1>5, <1>6, <1>7 DEF Ap

(* What moving a context's program counter does to the types. *)
LEMMA GotoType ==
  ASSUME TypeOK, NEW c \in Contexts, NEW ph \in Phase, NEW i \in 0 .. N, Goto(c, ph, i)
  PROVE  pc' \in [Contexts -> Phase] /\ cur' \in [Contexts -> 0 .. N]
  BY DEF Goto, TypeOK

LEMMA ReturnType ==
  ASSUME TypeOK, NEW c \in Contexts, Return(c)
  PROVE  /\ pc' \in [Contexts -> Phase]
         /\ cur' \in [Contexts -> 0 .. N]
         /\ op' \in [Contexts -> Op]
         /\ mStop' \in BOOLEAN
  <1>1. "idle" \in Phase /\ 0 \in 0 .. N
    BY DEF Phase
  <1> QED BY <1>1, GotoType, NoOpType DEF Return, TypeOK

LEMMA WakeUpApType ==
  ASSUME TypeOK, NEW p, NEW k \in -1 .. MaxCalls, WakeUpAp(p, k)
  PROVE  /\ Procedure' \in [Procs -> -1 .. MaxCalls]
         /\ apc' \in [Procs -> ApPhase]
         /\ job' \in [Procs -> -1 .. MaxCalls]
         /\ signal' \in [Procs -> BOOLEAN]
  <1>0. Procedure' \in [Procs -> -1 .. MaxCalls]
    BY ExceptType DEF WakeUpAp, TypeOK
  <1>1. CASE Manner = "Hlt"
    <2>1. [apc EXCEPT ![p] = "woken"] \in [Procs -> ApPhase]
      BY ExceptType DEF TypeOK, ApPhase
    <2>2. [job EXCEPT ![p] = NoCall] \in [Procs -> -1 .. MaxCalls]
      <3>1. NoCall \in -1 .. MaxCalls
        BY DEF NoCall
      <3> QED BY <3>1, ExceptType DEF TypeOK
    <2> QED BY <1>0, <1>1, <2>1, <2>2 DEF WakeUpAp, TypeOK
  <1>2. CASE Manner # "Hlt"
    <2>1. [signal EXCEPT ![p] = TRUE] \in [Procs -> BOOLEAN]
      BY ExceptType DEF TypeOK
    <2> QED BY <1>0, <1>2, <2>1 DEF WakeUpAp, TypeOK
  <1> QED BY <1>1, <1>2

LEMMA ResetType ==
  ASSUME TypeOK, NEW p \in Procs, ResetProcessorToIdleState(p)
  PROVE  /\ Procedure' \in [Procs -> -1 .. MaxCalls]
         /\ apc' \in [Procs -> ApPhase]
         /\ job' \in [Procs -> -1 .. MaxCalls]
         /\ signal' \in [Procs -> BOOLEAN]
         /\ State' \in [Procs -> CpuState]
  BY DEF ResetProcessorToIdleState, TypeOK, ApPhase, NoCall, CpuState

LEMMA SignalType ==
  ASSUME TypeOK, NEW k, Signal(k)
  PROVE  signals' \in [Calls -> Nat]
  <1>1. CASE k \in Calls
    BY <1>1 DEF Signal, TypeOK
  <1>2. CASE k \notin Calls
    <2>1. signals \in [Calls -> Nat] /\ signals' = [signals EXCEPT ![k] = signals[k] + 1]
      BY DEF Signal, TypeOK
    <2>2. signals' = signals
      BY <1>2, <2>1, ExceptOutside
    <2> QED BY <2>1, <2>2
  <1> QED BY <1>1, <1>2

(* The loop variable names a processor while it is below N. *)
LEMMA CurIsProc ==
  ASSUME TypeOK, NEW c \in Contexts, cur[c] < N
  PROVE  cur[c] \in Procs /\ cur[c] + 1 \in 0 .. N
  BY DEF TypeOK, Procs

(* The two ways in which CheckAllAps gives its answer. *)
LEMMA DeliverType ==
  ASSUME TypeOK, NEW c \in Contexts, Deliver(c)
  PROVE  /\ pc' \in [Contexts -> Phase]
         /\ cur' \in [Contexts -> 0 .. N]
         /\ op' \in [Contexts -> Op]
         /\ mStop' \in BOOLEAN
  <1>1. "AllSignal" \in Phase /\ 0 \in 0 .. N
    BY DEF Phase
  <1>2. CASE op[c].poll
    BY <1>2, ReturnType DEF Deliver
  <1>3. CASE ~op[c].poll
    BY <1>1, <1>3, GotoType DEF Deliver, TypeOK
  <1> QED BY <1>2, <1>3

(* CheckAllAps and CheckThisAp, step by step. *)
LEMMA UpdateType ==
  ASSUME TypeOK, NEW c \in Contexts, CheckAndUpdateApsStatus(c)
  PROVE  TypeOK'
  <1> USE DEF cpuVars, thisVars, allVars, callVars
  <1>0. /\ {"idle", "AllAps", "AllReset", "AllSignal", "AllClear", "EachAp", "EachSignal",
            "EachClear", "Admit", "Scan"} \subseteq Phase
        /\ 0 \in 0 .. N
        /\ cur[c] \in 0 .. N
    BY DEF Phase, TypeOK
  <1>1. CASE Update(c)
    BY <1>0, <1>1, GotoType DEF Update, TypeOK
  <1>2. CASE SkipAp(c)
    BY <1>0, <1>2, GotoType, CurIsProc DEF SkipAp, TypeOK
  <1>3. CASE CollectAp(c)
    <2>1. pc' \in [Contexts -> Phase] /\ cur' \in [Contexts -> 0 .. N]
      BY <1>0, <1>3, GotoType, CurIsProc DEF CollectAp
    <2>2. /\ Procedure' \in [Procs -> -1 .. MaxCalls]
          /\ apc' \in [Procs -> ApPhase]
          /\ job' \in [Procs -> -1 .. MaxCalls]
          /\ signal' \in [Procs -> BOOLEAN]
      <3>1. AllProc \in -1 .. MaxCalls
        BY DEF TypeOK
      <3>2. CASE SingleThread /\ Waiting(CpuList') # {}
        <4>1. WakeUpAp(GetNextWaitingProcessorNumber(CpuList'), AllProc)
          BY <1>3, <3>2 DEF CollectAp
        <4> QED BY <3>1, <4>1, WakeUpApType
      <3>3. CASE ~(SingleThread /\ Waiting(CpuList') # {})
        <4>1. UNCHANGED <<Procedure, signal, apc, job>>
          BY <1>3, <3>3 DEF CollectAp
        <4> QED BY <4>1 DEF TypeOK
      <3> QED BY <3>2, <3>3
    <2>3. /\ State' \in [Procs -> CpuState]
          /\ CpuList' \in [Procs -> BOOLEAN]
          /\ FinishCount' \in Nat
      BY <1>3, CurIsProc DEF CollectAp, TypeOK, CpuState
    <2>4. UNCHANGED <<thisVars, StartCount, SingleThread, AllProc, AllEvent, AllClock,
                      BSP, mStop, op, callVars>>
      BY <1>3 DEF CollectAp
    <2> QED BY <2>1, <2>2, <2>3, <2>4 DEF TypeOK
  <1>4. CASE AllFinished(c)
    BY <1>4, DeliverType DEF AllFinished, Report, TypeOK
  <1>5. CASE AllExpired(c)
    BY <1>0, <1>5, GotoType DEF AllExpired, TypeOK
  <1>6. CASE AllNotReady(c)
    BY <1>0, <1>6, GotoType DEF AllNotReady, TypeOK
  <1>7. CASE AllReset(c)
    <2>1. /\ pc' \in [Contexts -> Phase] /\ cur' \in [Contexts -> 0 .. N]
          /\ cur[c] \in Procs
      BY <1>0, <1>7, GotoType, CurIsProc DEF AllReset
    <2>2. CASE CpuList[cur[c]]
      <3>1. ResetProcessorToIdleState(cur[c])
        BY <1>7, <2>2 DEF AllReset
      <3>2. /\ CpuList' \in [Procs -> BOOLEAN]
            /\ failed' \in [Calls -> SUBSET Procs]
        <4>1. CpuList' \in [Procs -> BOOLEAN]
          BY <1>7, <2>1, <2>2 DEF AllReset, TypeOK
        <4>2. CASE AllProc \in Calls
          BY <1>7, <2>1, <2>2, <4>1, <4>2 DEF AllReset, TypeOK
        <4>3. CASE AllProc \notin Calls
          <5>1. /\ failed \in [Calls -> SUBSET Procs]
                /\ failed' = [failed EXCEPT ![AllProc] = failed[AllProc] \union {cur[c]}]
            BY <1>7, <2>2 DEF AllReset, TypeOK
          <5>2. failed' = failed
            BY <4>3, <5>1, ExceptOutside
          <5> QED BY <4>1, <5>1, <5>2
        <4> QED BY <4>2, <4>3
      <3> QED BY <1>7, <2>1, <3>1, <3>2, ResetType DEF AllReset, TypeOK
    <2>3. CASE ~CpuList[cur[c]]
      BY <1>7, <2>1, <2>3 DEF AllReset, TypeOK
    <2> QED BY <2>2, <2>3
  <1>8. CASE AllTimeout(c)
    BY <1>8, DeliverType DEF AllTimeout, Report, TypeOK
  <1>9. CASE AllSignal(c)
    <2>1. pc' \in [Contexts -> Phase] /\ cur' \in [Contexts -> 0 .. N]
      BY <1>0, <1>9, GotoType DEF AllSignal
    <2> QED BY <1>9, <2>1, SignalType DEF AllSignal, TypeOK
  <1>10. CASE AllClear(c)
    BY <1>0, <1>10, GotoType DEF AllClear, TypeOK, NoCall
  <1>11. CASE EachSkip(c)
    BY <1>0, <1>11, GotoType, CurIsProc DEF EachSkip, TypeOK
  <1>12. CASE EachDone(c)
    <2> DEFINE p == cur[c]
    <2>1. /\ pc' \in [Contexts -> Phase] /\ cur' \in [Contexts -> 0 .. N]
          /\ p \in Procs
      BY <1>0, <1>12, GotoType, CurIsProc DEF EachDone
    <2>2. CASE ThisFinished(p, WaitEvent[p])
      BY <1>12, <2>1, <2>2 DEF EachDone, ThisFinished, Report, TypeOK, CpuState
    <2>3. CASE ThisExpired(p, WaitEvent[p])
      <3>1. ResetProcessorToIdleState(p)
        BY <2>3 DEF ThisExpired
      <3>2. result' \in [Calls -> {"none", "pending", "success", "timeout", "resources"}]
        BY <2>3 DEF ThisExpired, Report, TypeOK
      <3>3. failed' \in [Calls -> SUBSET Procs]
        BY <2>1, <2>3 DEF ThisExpired, TypeOK
      <3> QED BY <1>12, <2>1, <3>1, <3>2, <3>3, ResetType DEF EachDone, TypeOK
    <2> QED BY <1>12, <2>2, <2>3 DEF EachDone
  <1>13. CASE EachSignal(c)
    <2>1. pc' \in [Contexts -> Phase] /\ cur' \in [Contexts -> 0 .. N]
      BY <1>0, <1>13, GotoType DEF EachSignal
    <2> QED BY <1>13, <2>1, SignalType DEF EachSignal, TypeOK
  <1>14. CASE EachClear(c)
    BY <1>0, <1>14, GotoType, CurIsProc DEF EachClear, TypeOK, NoCall
  <1>15. CASE Updated(c)
    <2>1. pc' \in [Contexts -> Phase] /\ cur' \in [Contexts -> 0 .. N]
      BY <1>0, <1>15, GotoType DEF Updated
    <2> QED BY <1>15, <2>1 DEF Updated, TypeOK
  <1>16. CASE AllOutOfResources(c)
    BY <1>16, DeliverType DEF AllOutOfResources, Report, TypeOK
  <1> QED
    BY <1>1, <1>2, <1>3, <1>4, <1>5, <1>6, <1>7, <1>8, <1>9, <1>10, <1>11, <1>12, <1>13,
       <1>14, <1>15, <1>16 DEF CheckAndUpdateApsStatus

-----------------------------------------------------------------------------
(* A call is named when it is accepted, and MaxCalls bounds the names.  A  *)
(* caller keeps a name free from the moment its call starts: the boot code *)
(* one, and a notification function, which may run inside a call of the    *)
(* boot code that is not accepted yet, another one.                        *)

Reserving(c) ==
  \/ pc[c] \in {"Update", "AllSignal", "AllClear", "EachAp", "EachSignal", "EachClear",
                "Admit", "Scan"}
  \/ pc[c] \in {"AllAps", "AllReset"} /\ ~op[c].poll

Room ==
  /\ Reserving("main") => calls < MaxCalls
  /\ Reserving("notify") => calls < MaxCalls - 1

TypeInv == TypeOK /\ Room

LEMMA NamedOpType ==
  ASSUME NEW f \in [Contexts -> Op], NEW c \in Contexts, NEW k \in 0 .. MaxCalls
  PROVE  [f EXCEPT ![c].id = k] \in [Contexts -> Op]
  <1>1. [f[c] EXCEPT !.id = k] \in Op
    BY DEF Op
  <1>2. [f EXCEPT ![c].id = k] = [f EXCEPT ![c] = [f[c] EXCEPT !.id = k]]
    OBVIOUS
  <1> QED BY <1>1, <1>2

LEMMA AcceptType ==
  ASSUME TypeOK, calls < MaxCalls, NEW c \in Contexts, NEW P \in SUBSET Procs,
         NEW i \in 0 .. N, Accept(c, P, i)
  PROVE  /\ pc' \in [Contexts -> Phase] /\ cur' \in [Contexts -> 0 .. N]
         /\ op' \in [Contexts -> Op]
         /\ calls' \in 0 .. MaxCalls
         /\ result' \in [Calls -> {"none", "pending", "success", "timeout", "resources"}]
         /\ assigned' \in [Calls -> SUBSET Procs]
         /\ UNCHANGED <<served, failed, signals, mStop>>
  <1>1. "Mark" \in Phase
    BY DEF Phase
  <1>2. pc' \in [Contexts -> Phase] /\ cur' \in [Contexts -> 0 .. N]
    BY <1>1, GotoType DEF Accept
  <1>3. calls' \in 0 .. MaxCalls
    BY DEF Accept, TypeOK
  <1>4. op' \in [Contexts -> Op]
    <2>1. op \in [Contexts -> Op] /\ op' = [op EXCEPT ![c].id = calls']
      BY DEF Accept, TypeOK
    <2> QED BY <1>3, <2>1, NamedOpType
  <1>5. /\ result' \in [Calls -> {"none", "pending", "success", "timeout", "resources"}]
        /\ assigned' \in [Calls -> SUBSET Procs]
    BY DEF Accept, TypeOK
  <1> QED BY <1>2, <1>3, <1>4, <1>5 DEF Accept

(* StartupThisAP and StartupAllAPs, step by step. *)
LEMMA DispatchType ==
  ASSUME TypeOK, Room, NEW c \in Callers, Dispatch(c)
  PROVE  TypeOK'
  <1> USE DEF cpuVars, thisVars, allVars, callVars
  <1>0. /\ {"idle", "AllAps", "Admit", "Scan", "Mark", "Wake", "Publish", "PollThis"} \subseteq Phase
        /\ 0 \in 0 .. N
        /\ c \in Contexts
        /\ cur[c] \in 0 .. N
        /\ op[c] \in Op
    BY DEF Phase, TypeOK, Callers, Contexts
  <1>01. /\ op[c].target \in Procs /\ op[c].target \in 0 .. N
         /\ op[c].id \in 0 .. MaxCalls /\ op[c].id \in -1 .. MaxCalls
         /\ op[c].single \in BOOLEAN
    BY <1>0 DEF Op, Procs
  <1>00. pc[c] \in {"Admit", "Scan"} => calls < MaxCalls
    BY DEF Room, Reserving, Callers, TypeOK
  <1>1. CASE Admit(c)
    <2> DEFINE p == op[c].target
    <2>1. UNCHANGED <<cpuVars, thisVars, allVars, BSP>>
      BY <1>1 DEF Admit
    <2>2. CASE State[p] = "IDLE"
      <3>1. Accept(c, {p}, p) /\ calls < MaxCalls
        BY <1>00, <1>1, <2>2 DEF Admit, At
      <3>2. {p} \in SUBSET Procs
        BY <1>0, <1>01
      <3> HIDE DEF p
      <3>3. p \in 0 .. N
        BY <1>0, <1>01 DEF p
      <3> QED BY <1>0, <1>01, <2>1, <3>1, <3>2, <3>3, AcceptType DEF TypeOK
    <2>3. CASE State[p] # "IDLE"
      BY <1>0, <1>01, <1>1, <2>1, <2>3, ReturnType DEF Admit, TypeOK
    <2> QED BY <2>2, <2>3
  <1>2. CASE Scan(c)
    <2>1. CpuList' \in [Procs -> BOOLEAN]
      BY <1>2 DEF Scan, TypeOK
    <2>2. UNCHANGED <<cpuVars, thisVars, StartCount, FinishCount, SingleThread, AllProc, AllEvent,
                      AllClock, BSP, callVars>>
      BY <1>2 DEF Scan
    <2>3. CASE Return(c)
      BY <1>0, <1>01, <2>1, <2>2, <2>3, ReturnType DEF TypeOK
    <2>4. CASE Goto(c, "Scan", cur[c] + 1) /\ UNCHANGED <<op, mStop>>
      <3>1. cur[c] + 1 \in 0 .. N
        BY <1>0, <1>01, <1>2, CurIsProc DEF Scan
      <3> QED BY <1>0, <1>01, <2>1, <2>2, <2>4, <3>1, GotoType DEF TypeOK
    <2> QED BY <1>2, <2>3, <2>4 DEF Scan
  <1>3. CASE Scanned(c)
    <2>1. /\ UNCHANGED <<cpuVars, thisVars, CpuList, SingleThread, AllProc, AllEvent, AllClock, BSP>>
          /\ FinishCount' \in Nat /\ StartCount' \in Nat
      BY <1>3 DEF Scanned
    <2>2. CASE Accept(c, Waiting(CpuList), 0)
      <3>1. Waiting(CpuList) \in SUBSET Procs
        BY DEF Waiting
      <3>2. calls < MaxCalls
        BY <1>00, <1>3 DEF Scanned, At
      <3> QED BY <1>0, <1>01, <2>1, <2>2, <3>1, <3>2, AcceptType DEF TypeOK
    <2>3. CASE Return(c) /\ UNCHANGED callVars
      BY <1>0, <1>01, <2>1, <2>3, ReturnType DEF TypeOK
    <2> QED BY <1>3, <2>2, <2>3 DEF Scanned
  <1>4. CASE Mark(c)
    <2>1. pc' \in [Contexts -> Phase] /\ cur' \in [Contexts -> 0 .. N]
      BY <1>0, <1>01, <1>4, GotoType DEF Mark
    <2>2. State' \in [Procs -> CpuState]
      BY <1>4 DEF Mark, TypeOK, CpuState
    <2>3. StartCount' \in {StartCount, StartCount + 1}
      BY <1>4 DEF Mark
    <2>4. StartCount' \in Nat
      BY <2>3 DEF TypeOK
    <2>5. UNCHANGED <<Procedure, signal, apc, job, thisVars, CpuList, FinishCount, SingleThread,
                      AllProc, AllEvent, AllClock, BSP, mStop, op, callVars>>
      BY <1>4 DEF Mark
    <2> QED BY <2>1, <2>2, <2>4, <2>5 DEF TypeOK
  <1>5. CASE MarkSkip(c)
    <2>1. pc' \in [Contexts -> Phase] /\ cur' \in [Contexts -> 0 .. N]
      BY <1>0, <1>01, <1>5, GotoType, CurIsProc DEF MarkSkip
    <2> QED BY <1>5, <2>1 DEF MarkSkip, TypeOK
  <1>6. CASE Wake(c)
    <2>1. pc' \in [Contexts -> Phase] /\ cur' \in [Contexts -> 0 .. N]
      BY <1>0, <1>01, <1>6, GotoType, CurIsProc DEF Wake
    <2>2. UNCHANGED <<State, thisVars, allVars, BSP, mStop, op, callVars>>
      BY <1>6 DEF Wake
    <2>3. CASE WakeUpAp(cur[c], op[c].id)
      BY <1>0, <1>01, <2>1, <2>2, <2>3, WakeUpApType DEF TypeOK
    <2>4. CASE UNCHANGED <<Procedure, signal, apc, job>>
      BY <2>1, <2>2, <2>4 DEF TypeOK
    <2> QED BY <1>6, <2>3, <2>4 DEF Wake
  <1>7. CASE PublishThis(c)
    <2>1. /\ WaitEvent' \in [Procs -> 0 .. MaxCalls]
          /\ clock' \in [Procs -> Clock]
      BY <1>0, <1>01, <1>7 DEF PublishThis, TypeOK, EventOf, NoCall, CalculateTimeout, Clock
    <2>2. UNCHANGED <<cpuVars, allVars, BSP, callVars>>
      BY <1>7 DEF PublishThis
    <2>3. CASE Return(c)
      BY <1>0, <1>01, <2>1, <2>2, <2>3, ReturnType DEF TypeOK
    <2>4. CASE Goto(c, "PollThis", 0) /\ UNCHANGED <<op, mStop>>
      BY <1>0, <1>01, <2>1, <2>2, <2>4, GotoType DEF TypeOK
    <2> QED BY <1>7, <2>3, <2>4 DEF PublishThis
  <1>8. CASE PublishAll(c)
    <2>1. /\ AllProc' \in 0 .. MaxCalls /\ AllEvent' \in 0 .. MaxCalls
          /\ AllClock' \in Clock /\ SingleThread' \in BOOLEAN
      BY <1>0, <1>01, <1>8 DEF PublishAll, EventOf, NoCall, CalculateTimeout, Clock
    <2>2. UNCHANGED <<cpuVars, thisVars, CpuList, StartCount, FinishCount, BSP, callVars>>
      BY <1>8 DEF PublishAll
    <2>3. CASE Return(c)
      BY <1>0, <1>01, <2>1, <2>2, <2>3, ReturnType DEF TypeOK
    <2>4. CASE Goto(c, "AllAps", 0) /\ op' = [op EXCEPT ![c].poll = TRUE] /\ UNCHANGED mStop
      <3>1. op' \in [Contexts -> Op]
        BY <1>0, <1>01, <2>4 DEF TypeOK, Op
      <3> QED BY <1>0, <1>01, <2>1, <2>2, <2>4, <3>1, GotoType DEF TypeOK
    <2> QED BY <1>8, <2>3, <2>4 DEF PublishAll
  <1>9. CASE PollThis(c)
    <2> DEFINE p == op[c].target
    <2>1. /\ UNCHANGED <<thisVars, allVars, BSP, calls, assigned, served, signals>>
          /\ Return(c)
      BY <1>9 DEF PollThis
    <2>2. CASE ThisFinished(p, op[c].id)
      <3>1. /\ State' \in [Procs -> CpuState]
            /\ result' \in [Calls -> {"none", "pending", "success", "timeout", "resources"}]
            /\ UNCHANGED <<Procedure, signal, apc, job, failed>>
        BY <2>2 DEF ThisFinished, Report, TypeOK, CpuState
      <3> QED BY <1>0, <1>01, <2>1, <3>1, ReturnType DEF TypeOK
    <2>3. CASE ThisExpired(p, op[c].id)
      <3>1. ResetProcessorToIdleState(p)
        BY <2>3 DEF ThisExpired
      <3>2. /\ result' \in [Calls -> {"none", "pending", "success", "timeout", "resources"}]
            /\ failed' \in [Calls -> SUBSET Procs]
        BY <1>0, <1>01, <2>3 DEF ThisExpired, Report, TypeOK
      <3> HIDE DEF p
      <3>3. p \in Procs
        BY <1>0, <1>01 DEF p
      <3> QED BY <1>0, <1>01, <2>1, <3>1, <3>2, <3>3, ReturnType, ResetType DEF TypeOK
    <2> QED BY <1>9, <2>2, <2>3 DEF PollThis
  <1> QED
    BY <1>1, <1>2, <1>3, <1>4, <1>5, <1>6, <1>7, <1>8, <1>9 DEF Dispatch

(* The other steps of the boot code, the timer event and time. *)
LEMMA StartCallType ==
  ASSUME TypeOK, NEW c \in Callers, NEW kind \in CallKinds, NEW p \in Procs,
         StartCall(c, kind, p)
  PROVE  TypeOK'
  <1>1. c \in Contexts /\ "Update" \in Phase
    BY DEF Callers, Contexts, Phase
  <1>2. kind \in Kinds
    OBVIOUS
  <1>3. [NoOp EXCEPT !.all = kind.all, !.wait = kind.wait, !.single = kind.single,
                     !.timed = kind.timed, !.target = p] \in Op
    BY <1>2, NoOpType DEF Op, Kinds
  <1>4. /\ pc' \in [Contexts -> Phase]
        /\ op' \in [Contexts -> Op]
        /\ mStop' \in BOOLEAN
    BY <1>1, <1>3 DEF StartCall, TypeOK
  <1> QED BY <1>4 DEF StartCall, TypeOK, cpuVars, thisVars, allVars, callVars

LEMMA SwitchType ==
  ASSUME TypeOK, NEW p \in Procs, NEW b \in BOOLEAN, EnableDisableAP(p, b) \/ SwitchBSP(p, b)
  PROVE  TypeOK'
  <1> USE DEF cpuVars, thisVars, allVars, callVars, ctxVars
  <1>1. CASE EnableDisableAP(p, b)
    BY <1>1 DEF EnableDisableAP, TypeOK, CpuState
  <1>2. CASE SwitchBSP(p, b)
    <2>1. "Exchange" \in Phase /\ "main" \in Contexts /\ 0 \in 0 .. N /\ FutureBsp \in -1 .. MaxCalls
      BY DEF Phase, Contexts, FutureBsp
    <2>2. [NoOp EXCEPT !.target = p, !.enable = b] \in Op
      BY NoOpType DEF Op
    <2>3. op' \in [Contexts -> Op]
      BY <1>2, <2>1, <2>2 DEF SwitchBSP, TypeOK
    <2>4. /\ WakeUpAp(p, FutureBsp) /\ Goto("main", "Exchange", 0)
          /\ UNCHANGED <<State, thisVars, allVars, BSP, mStop, callVars>>
      BY <1>2 DEF SwitchBSP
    <2> QED BY <2>1, <2>3, <2>4, GotoType, WakeUpApType DEF TypeOK
  <1> QED BY <1>1, <1>2

LEMMA SwitchEndType ==
  ASSUME TypeOK, Exchange \/ SwitchDone
  PROVE  TypeOK'
  <1> USE DEF cpuVars, thisVars, allVars, callVars
  <1>1. /\ {"idle", "SwitchWait"} \subseteq Phase /\ "main" \in Contexts /\ 0 \in 0 .. N
        /\ op["main"] \in Op
    BY DEF Phase, Contexts, TypeOK
  <1>2. CASE Exchange
    <2>1. pc' \in [Contexts -> Phase] /\ cur' \in [Contexts -> 0 .. N]
      BY <1>1, <1>2, GotoType DEF Exchange
    <2>2. apc' \in [Procs -> ApPhase]
      BY <1>2 DEF Exchange, TypeOK, ApPhase
    <2> QED BY <1>2, <2>1, <2>2 DEF Exchange, TypeOK
  <1>3. CASE SwitchDone
    <2>1. pc' \in [Contexts -> Phase] /\ cur' \in [Contexts -> 0 .. N]
      BY <1>1, <1>3, GotoType DEF SwitchDone
    <2>2. /\ State' \in [Procs -> CpuState]
          /\ BSP' \in Procs
          /\ op' \in [Contexts -> Op]
      BY <1>1, <1>3, NoOpType DEF SwitchDone, TypeOK, CpuState, Op
    <2> QED BY <1>3, <2>1, <2>2 DEF SwitchDone, TypeOK
  <1> QED BY <1>2, <1>3

LEMMA TimeType ==
  ASSUME TypeOK,
         CheckApsStatus \/ ElapseAll \/ (\E p \in Procs : Elapse(p)) \/ UNCHANGED vars
  PROVE  TypeOK'
  <1> USE DEF cpuVars, thisVars, allVars, callVars, ctxVars, vars
  <1>1. CASE CheckApsStatus
    <2>1. "Update" \in Phase /\ "timer" \in Contexts /\ 0 \in 0 .. N
      BY DEF Phase, Contexts
    <2>2. pc' \in [Contexts -> Phase] /\ cur' \in [Contexts -> 0 .. N]
      BY <1>1, <2>1, GotoType DEF CheckApsStatus, TypeOK
    <2> QED BY <1>1, <2>2 DEF CheckApsStatus, TypeOK
  <1>2. CASE ElapseAll
    BY <1>2 DEF ElapseAll, TypeOK, Clock
  <1>3. CASE \E p \in Procs : Elapse(p)
    BY <1>3 DEF Elapse, TypeOK, Clock
  <1>4. CASE UNCHANGED vars
    BY <1>4 DEF TypeOK
  <1> QED BY <1>1, <1>2, <1>3, <1>4

(* A free name stays reserved. *)
LEMMA RoomStep ==
  ASSUME TypeOK, Room, [Next]_vars
  PROVE  Room'
  <1> USE DEF Room, Reserving
  <1>0. pc \in [Contexts -> Phase] /\ op \in [Contexts -> Op] /\ calls \in 0 .. MaxCalls
    BY DEF TypeOK
  <1>1. CASE UNCHANGED <<pc, op, calls>>
    BY <1>1
  <1>2. ASSUME NEW c \in Contexts, CheckAndUpdateApsStatus(c) PROVE Room'
    <2> USE DEF callVars, At, Active, Goto, Return, Deliver, Contexts, NoOp
    <2>1. CASE Update(c)      BY <1>0, <2>1 DEF Update
    <2>2. CASE SkipAp(c)      BY <1>0, <2>2 DEF SkipAp
    <2>3. CASE CollectAp(c)   BY <1>0, <2>3 DEF CollectAp
    <2>4. CASE AllFinished(c) BY <1>0, <2>4 DEF AllFinished
    <2>5. CASE AllExpired(c)  BY <1>0, <2>5 DEF AllExpired
    <2>6. CASE AllNotReady(c) BY <1>0, <2>6 DEF AllNotReady
    <2>7. CASE AllReset(c)    BY <1>0, <2>7 DEF AllReset
    <2>8. CASE AllTimeout(c)  BY <1>0, <2>8 DEF AllTimeout
    <2>9. CASE AllSignal(c)   BY <1>0, <2>9 DEF AllSignal
    <2>10. CASE AllClear(c)   BY <1>0, <2>10 DEF AllClear
    <2>11. CASE EachSkip(c)   BY <1>0, <2>11 DEF EachSkip
    <2>12. CASE EachDone(c)   BY <1>0, <2>12 DEF EachDone
    <2>13. CASE EachSignal(c) BY <1>0, <2>13 DEF EachSignal
    <2>14. CASE EachClear(c)  BY <1>0, <2>14 DEF EachClear
    <2>15. CASE Updated(c)    BY <1>0, <2>15 DEF Updated
    <2>16. CASE AllOutOfResources(c) BY <1>0, <2>16 DEF AllOutOfResources
    <2> QED BY <1>2, <2>1, <2>2, <2>3, <2>4, <2>5, <2>6, <2>7, <2>8, <2>9, <2>10, <2>11, <2>12,
               <2>13, <2>14, <2>15, <2>16 DEF CheckAndUpdateApsStatus
  <1>3. ASSUME NEW c \in Callers, Dispatch(c) PROVE Room'
    <2> USE DEF At, Active, Goto, Return, Contexts, Callers, NoOp
    <2>0. ASSUME NEW P, NEW i, Accept(c, P, i), Active(c), pc[c] \in {"Admit", "Scan"}
          PROVE  Room'
      <3> HIDE DEF Return
      <3>1. /\ pc' = [pc EXCEPT ![c] = "Mark"]
            /\ calls' = calls + 1
            /\ op' = [op EXCEPT ![c].id = calls + 1]
        BY <2>0 DEF Accept
      <3>2. \A d \in Contexts : d # c => pc'[d] = pc[d] /\ op'[d] = op[d]
        BY <1>0, <3>1
      <3>3. pc'[c] = "Mark"
        BY <1>0, <3>1
      <3>4. CASE c = "main"   BY <1>0, <2>0, <3>1, <3>2, <3>3, <3>4
      <3>5. CASE c = "notify" BY <1>0, <2>0, <3>1, <3>2, <3>3, <3>5
      <3> QED BY <3>4, <3>5
    <2>00. ASSUME Return(c), UNCHANGED callVars PROVE Room'
      BY <1>0, <2>00 DEF callVars
    <2>1. CASE Admit(c)
      <3>1. CASE State[op[c].target] = "IDLE"
        <4>1. /\ Accept(c, {op[c].target}, op[c].target)
              /\ Active(c) /\ pc[c] \in {"Admit", "Scan"}
          BY <2>1, <3>1 DEF Admit
        <4> QED BY <2>0, <4>1
      <3>2. CASE State[op[c].target] # "IDLE"
        <4>1. Return(c) /\ UNCHANGED callVars
          BY <2>1, <3>2 DEF Admit
        <4> QED BY <2>00, <4>1
      <3> QED BY <3>1, <3>2
    <2>2. CASE Scan(c)        BY <1>0, <2>2 DEF Scan, callVars
    <2>3. CASE Scanned(c)
      <3>1. CASE Waiting(CpuList) # {}
        <4>1. Accept(c, Waiting(CpuList), 0) /\ Active(c) /\ pc[c] \in {"Admit", "Scan"}
          BY <2>3, <3>1 DEF Scanned
        <4> QED BY <2>0, <4>1
      <3>2. CASE Waiting(CpuList) = {}
        <4>1. Return(c) /\ UNCHANGED callVars
          BY <2>3, <3>2 DEF Scanned
        <4> QED BY <2>00, <4>1
      <3> QED BY <3>1, <3>2
    <2>4. CASE Mark(c)        BY <1>0, <2>4 DEF Mark, callVars
    <2>5. CASE MarkSkip(c)    BY <1>0, <2>5 DEF MarkSkip, callVars
    <2>6. CASE Wake(c)        BY <1>0, <2>6 DEF Wake, callVars
    <2>7. CASE PublishThis(c) BY <1>0, <2>7 DEF PublishThis, callVars
    <2>8. CASE PublishAll(c)
      <3>1. pc[c] = "Publish" /\ calls' = calls /\ c \in Contexts
        BY <2>8 DEF PublishAll, callVars
      <3>2. \/ pc' = [pc EXCEPT ![c] = "idle"] /\ op' = [op EXCEPT ![c] = NoOp]
            \/ pc' = [pc EXCEPT ![c] = "AllAps"] /\ op' = [op EXCEPT ![c].poll = TRUE]
        <4>1. CASE op[c].wait  BY <2>8, <4>1 DEF PublishAll, callVars
        <4>2. CASE ~op[c].wait BY <2>8, <4>2 DEF PublishAll, callVars
        <4> QED BY <4>1, <4>2
      <3>3. \A d \in Contexts : d # c => pc'[d] = pc[d] /\ op'[d] = op[d]
        BY <1>0, <3>1, <3>2
      <3>4. pc'[c] = "idle" \/ (pc'[c] = "AllAps" /\ op'[c].poll)
        <4>1. op[c] \in Op
          BY <1>0, <3>1
        <4>2. [op[c] EXCEPT !.poll = TRUE].poll = TRUE
          BY <4>1 DEF Op
        <4> QED BY <1>0, <3>1, <3>2, <4>2
      <3>5. CASE c = "main"   BY <3>1, <3>3, <3>4, <3>5
      <3>6. CASE c = "notify" BY <3>1, <3>3, <3>4, <3>6
      <3> QED BY <3>5, <3>6
    <2>9. CASE PollThis(c)    BY <1>0, <2>9 DEF PollThis, callVars
    <2> QED BY <1>3, <2>1, <2>2, <2>3, <2>4, <2>5, <2>6, <2>7, <2>8, <2>9 DEF Dispatch
  <1>4. ASSUME NEW c \in Callers, NEW kind \in CallKinds, NEW p \in Procs, StartCall(c, kind, p)
        PROVE  Room'
    BY <1>0, <1>4 DEF StartCall, MayCall, At, Active, Callers, Contexts, callVars
  <1>5. ASSUME NEW p \in Procs, NEW b \in BOOLEAN, SwitchBSP(p, b) PROVE Room'
    BY <1>0, <1>5 DEF SwitchBSP, Goto, Contexts, callVars
  <1>6. CASE Exchange
    BY <1>0, <1>6 DEF Exchange, Goto, Contexts, callVars
  <1>7. CASE SwitchDone
    BY <1>0, <1>7 DEF SwitchDone, Goto, Contexts, callVars
  <1>8. CASE CheckApsStatus
    BY <1>0, <1>8 DEF CheckApsStatus, Goto, Contexts, callVars
  <1>9. ASSUME NEW p \in Procs, Ap(p) PROVE UNCHANGED <<pc, op, calls>>
    BY <1>9 DEF Ap, ApBreak, ApNothing, ApEnter, ApReturn, ApClear, ApFinish, ApAck, ApStep,
                callVars, ctxVars
  <1>10. ASSUME NEW p \in Procs, NEW b \in BOOLEAN, Elapse(p) \/ EnableDisableAP(p, b)
         PROVE  UNCHANGED <<pc, op, calls>>
    BY <1>10 DEF Elapse, EnableDisableAP, callVars, ctxVars
  <1>11. CASE UNCHANGED vars
    BY <1>1, <1>11 DEF vars, callVars, ctxVars
  <1>12. CASE ElapseAll
    BY <1>1, <1>12 DEF ElapseAll, callVars, ctxVars
  <1> QED
    <2> HIDE DEF Room, Reserving
    <2>1. CASE Next
      BY <1>1, <1>2, <1>3, <1>4, <1>5, <1>6, <1>7, <1>8, <1>9, <1>10, <1>12, <2>1 DEF Next
    <2> QED BY <1>11, <2>1

LEMMA TypeStep == TypeInv /\ [Next]_vars => TypeInv'
  <1> SUFFICES ASSUME TypeInv, [Next]_vars PROVE TypeInv'
    OBVIOUS
  <1> USE DEF TypeInv
  <1>1. TypeOK'
    BY ApType, UpdateType, DispatchType, StartCallType, SwitchType, SwitchEndType, TimeType
    DEF Next
  <1>2. Room'
    BY RoomStep
  <1> QED BY <1>1, <1>2

LEMMA TypeStart == Init => TypeInv
  <1>1. Init => Room
    BY DEF Init, Room, Reserving, Contexts
  <1> QED BY <1>1, InitType DEF TypeInv

(* Every variable has its type, for every number of processors and calls.  *)
THEOREM TypeCorrect == Spec => []TypeOK
  <1>1. TypeInv => TypeOK
    BY DEF TypeInv
  <1> QED BY <1>1, TypeStart, TypeStep, PTL DEF Spec

-----------------------------------------------------------------------------
(* CheckApsStatus does nothing while a call is under way, as long as no    *)
(* notification function starts a call of its own.  By itself that is not  *)
(* inductive: it rests on mStopCheckApsStatus being set all the while, and *)
(* on SwitchBSP leaving no instant between its exchange and the timer.     *)

Suppressed ==
  /\ pc["notify"] = "idle"
  /\ pc["timer"] # "idle" => pc["main"] \in {"idle", "SwitchWait"}
  /\ pc["main"] \notin {"idle", "Exchange", "SwitchWait"} => mStop

LEMMA SuppressedUpdate ==
  ASSUME TypeOK, Suppressed, NEW c \in Contexts, CheckAndUpdateApsStatus(c)
  PROVE  Suppressed'
  <1> USE DEF Suppressed, At, Active, Goto, Return, Deliver, Contexts
  <1>0. pc \in [Contexts -> Phase]
    BY DEF TypeOK
  <1>1. CASE Update(c)      BY <1>0, <1>1 DEF Update
  <1>2. CASE SkipAp(c)      BY <1>0, <1>2 DEF SkipAp
  <1>3. CASE CollectAp(c)   BY <1>0, <1>3 DEF CollectAp
  <1>4. CASE AllFinished(c) BY <1>0, <1>4 DEF AllFinished
  <1>5. CASE AllExpired(c)  BY <1>0, <1>5 DEF AllExpired
  <1>6. CASE AllNotReady(c) BY <1>0, <1>6 DEF AllNotReady
  <1>7. CASE AllReset(c)    BY <1>0, <1>7 DEF AllReset
  <1>8. CASE AllTimeout(c)  BY <1>0, <1>8 DEF AllTimeout
  <1>9. CASE AllSignal(c)   BY <1>0, <1>9 DEF AllSignal
  <1>10. CASE AllClear(c)   BY <1>0, <1>10 DEF AllClear
  <1>11. CASE EachSkip(c)   BY <1>0, <1>11 DEF EachSkip
  <1>12. CASE EachDone(c)   BY <1>0, <1>12 DEF EachDone
  <1>13. CASE EachSignal(c) BY <1>0, <1>13 DEF EachSignal
  <1>14. CASE EachClear(c)  BY <1>0, <1>14 DEF EachClear
  <1>15. CASE Updated(c)    BY <1>0, <1>15 DEF Updated
  <1>16. CASE AllOutOfResources(c) BY <1>0, <1>16 DEF AllOutOfResources
  <1> QED BY <1>1, <1>2, <1>3, <1>4, <1>5, <1>6, <1>7, <1>8, <1>9, <1>10, <1>11, <1>12, <1>13,
             <1>14, <1>15, <1>16 DEF CheckAndUpdateApsStatus

LEMMA SuppressedDispatch ==
  ASSUME TypeOK, Suppressed, NEW c \in Callers, Dispatch(c)
  PROVE  Suppressed'
  <1> USE DEF Suppressed, At, Active, Goto, Return, Accept, Contexts, Callers
  <1>0. pc \in [Contexts -> Phase]
    BY DEF TypeOK
  <1>1. CASE Admit(c)       BY <1>0, <1>1 DEF Admit
  <1>2. CASE Scan(c)        BY <1>0, <1>2 DEF Scan
  <1>3. CASE Scanned(c)     BY <1>0, <1>3 DEF Scanned
  <1>4. CASE Mark(c)        BY <1>0, <1>4 DEF Mark
  <1>5. CASE MarkSkip(c)    BY <1>0, <1>5 DEF MarkSkip
  <1>6. CASE Wake(c)        BY <1>0, <1>6 DEF Wake
  <1>7. CASE PublishThis(c) BY <1>0, <1>7 DEF PublishThis
  <1>8. CASE PublishAll(c)  BY <1>0, <1>8 DEF PublishAll
  <1>9. CASE PollThis(c)    BY <1>0, <1>9 DEF PollThis
  <1> QED BY <1>1, <1>2, <1>3, <1>4, <1>5, <1>6, <1>7, <1>8, <1>9 DEF Dispatch

LEMMA SuppressedStep ==
  ASSUME "notifyCalls" \notin Usage, TypeOK, Suppressed, [Next]_vars
  PROVE  Suppressed'
  <1>0. pc \in [Contexts -> Phase]
    BY DEF TypeOK
  <1>1. CASE UNCHANGED <<pc, mStop>>
    BY <1>1 DEF Suppressed
  <1>2. ASSUME NEW c \in Callers, NEW kind \in CallKinds, NEW p \in Procs, StartCall(c, kind, p)
        PROVE  Suppressed'
    <2>1. c = "main"
      BY <1>2 DEF StartCall, MayCall
    <2> QED BY <1>0, <1>2, <2>1 DEF StartCall, At, Active, Contexts, Suppressed
  <1>3. ASSUME NEW p \in Procs, NEW b \in BOOLEAN, SwitchBSP(p, b) PROVE Suppressed'
    BY <1>0, <1>3 DEF SwitchBSP, At, Active, Goto, Contexts, Suppressed
  <1>4. CASE Exchange
    BY <1>0, <1>4 DEF Exchange, At, Active, Goto, Contexts, Suppressed
  <1>5. CASE SwitchDone
    BY <1>0, <1>5 DEF SwitchDone, At, Active, Goto, Contexts, Suppressed
  <1>6. CASE CheckApsStatus
    BY <1>0, <1>6 DEF CheckApsStatus, Goto, Contexts, Suppressed
  <1>7. ASSUME NEW p \in Procs, Ap(p) PROVE UNCHANGED <<pc, mStop>>
    BY <1>7 DEF Ap, ApBreak, ApNothing, ApEnter, ApReturn, ApClear, ApFinish, ApAck, ApStep,
                ctxVars
  <1>8. ASSUME NEW p \in Procs, NEW b \in BOOLEAN, Elapse(p) \/ EnableDisableAP(p, b)
        PROVE  UNCHANGED <<pc, mStop>>
    BY <1>8 DEF Elapse, EnableDisableAP, ctxVars
  <1>9. CASE ElapseAll
    BY <1>1, <1>9 DEF ElapseAll, ctxVars
  <1>10. CASE UNCHANGED vars
    BY <1>1, <1>10 DEF vars, ctxVars
  <1>11. CASE Next
    BY <1>1, <1>2, <1>3, <1>4, <1>5, <1>6, <1>7, <1>8, <1>9, <1>11, SuppressedUpdate,
       SuppressedDispatch DEF Next
  <1> QED BY <1>10, <1>11

(* The timer checks the processors only between calls (mStopCheckApsStatus *)
(* of CheckApsStatus), whatever the callers do except calling from a       *)
(* notification function.                                                  *)
THEOREM TimerIsSuppressed ==
  ASSUME "notifyCalls" \notin Usage
  PROVE  Spec => []TimerSuppressed
  <1>1. Init => Suppressed
    BY DEF Init, Suppressed, Contexts
  <1>2. TypeOK /\ Suppressed /\ [Next]_vars => Suppressed'
    BY SuppressedStep
  <1>3. Suppressed => TimerSuppressed
    BY DEF Suppressed, TimerSuppressed
  <1> QED BY <1>1, <1>2, <1>3, TypeCorrect, PTL DEF Spec

=============================================================================
