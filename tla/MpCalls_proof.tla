----------------------------- MODULE MpCalls_proof -----------------------------
(***************************************************************************)
(* Theorems about who owns an AP and what becomes of a call, for every     *)
(* number of processors and of calls, in both wake-up manners, with and    *)
(* without SwitchBSP, EnableDisableAP and failing allocations.  Callers    *)
(* are careful: none starts a second StartupAllAPs before the WaitEvent of *)
(* the first was signalled, calls from a notification function, or enables *)
(* or disables an AP that serves a call.                                   *)
(***************************************************************************)
EXTENDS MpServices_proof, FiniteSetTheorems, WellFoundedInduction

Careful == {"overlap", "notifyCalls", "disableBusy"} \cap Usage = {}

(* The parameters of the caller's call; timer and notify have none.        *)
Id     == op["main"].id
ForAll == op["main"].all
Target == op["main"].target
Polls  == op["main"].poll

(***************************************************************************)
(* Control: where a context is says what its parameters are, and which     *)
(* calls are published.                                                    *)
(***************************************************************************)
Checking  == {"Update", "AllAps", "AllReset", "AllSignal", "AllClear",
              "EachAp", "EachSignal", "EachClear"}
Accepted  == {"Mark", "Wake", "Publish", "PollThis"}
Switching == pc["main"] \in {"Exchange", "SwitchWait"}
CtlParams ==
  /\ op["timer"] = NoOp /\ op["notify"] = NoOp
  /\ pc["timer"] \in Checking \union {"idle"}
  /\ pc["main"] = "idle" => op["main"] = NoOp
  /\ Id # NoCall <=> pc["main"] \in Accepted \/ Polls
  /\ Polls => pc["main"] \in {"AllAps", "AllReset"} /\ ForAll /\ AllProc = Id
  /\ pc["main"] \in {"Exchange", "SwitchWait", "Admit", "PollThis"} => ~ForAll
  /\ pc["main"] = "Scan" => ForAll
  /\ pc["main"] \in {"Mark", "Wake"} /\ ~ForAll => cur["main"] = Target
  /\ pc["main"] = "Wake" => cur["main"] \in Procs
  /\ pc["main"] \in Checking \union {"Admit"} => ForAll \/ Target # BSP

CtlEvents ==
  /\ ForAll => AllEvent = NoCall
  /\ AllEvent # NoCall => AllProc = AllEvent
  /\ \A c \in Contexts :
       /\ pc[c] \in {"AllSignal", "AllClear"} => AllEvent # NoCall
       /\ pc[c] \in {"AllAps", "AllReset"} => AllEvent # NoCall \/ op[c].poll
       /\ pc[c] \in {"EachSignal", "EachClear"} => cur[c] \in Procs /\ WaitEvent[cur[c]] # NoCall

Control == Suppressed /\ CtlParams /\ CtlEvents
-----------------------------------------------------------------------------
(* Facts that every step needs.                                            *)
LEMMA NoOpIs ==
  /\ NoOp \in Op /\ NoOp.id = NoCall /\ ~NoOp.all /\ ~NoOp.poll /\ ~NoOp.wait /\ ~NoOp.single
  BY NoOpType DEF NoOp

(* A context that goes on is alone: the other one is between two calls.    *)
LEMMA Turn ==
  ASSUME Control, NEW c \in Contexts, Active(c), pc[c] \notin {"idle", "Exchange", "SwitchWait"}
  PROVE  /\ pc["notify"] = "idle"
         /\ \/ c = "main" /\ pc["timer"] = "idle"
            \/ c = "timer" /\ pc["main"] \in {"idle", "SwitchWait"} /\ pc["timer"] \in Checking
                /\ op["timer"] = NoOp
  BY DEF Control, Suppressed, CtlParams, Contexts, Active

(* A context moves, and keeps its parameters.                              *)
LEMMA Moves ==
  ASSUME TypeOK, NEW c \in Contexts, NEW ph, NEW STATE i, Goto(c, ph, i)
  PROVE  /\ pc'[c] = ph /\ cur'[c] = i
         /\ \A d \in Contexts : d # c => pc'[d] = pc[d] /\ cur'[d] = cur[d]
  BY DEF Goto, TypeOK

LEMMA Returns ==
  ASSUME TypeOK, NEW c \in Contexts, Return(c)
  PROVE  /\ pc'[c] = "idle" /\ cur'[c] = 0 /\ op'[c] = NoOp
         /\ \A d \in Contexts : d # c => pc'[d] = pc[d] /\ cur'[d] = cur[d] /\ op'[d] = op[d]
  BY DEF Return, Goto, TypeOK

LEMMA Delivers ==
  ASSUME TypeOK, NEW c \in Contexts, Deliver(c)
  PROVE  /\ cur'[c] = 0
         /\ IF op[c].poll THEN pc'[c] = "idle" /\ op'[c] = NoOp
                          ELSE pc'[c] = "AllSignal" /\ op'[c] = op[c]
         /\ \A d \in Contexts : d # c => pc'[d] = pc[d] /\ cur'[d] = cur[d] /\ op'[d] = op[d]
  BY DEF Deliver, Return, Goto, TypeOK

LEMMA Accepts ==
  ASSUME TypeOK, NEW c \in Contexts, NEW STATE P, NEW STATE i, Accept(c, P, i)
  PROVE  /\ pc'[c] = "Mark" /\ cur'[c] = i /\ calls' = calls + 1
         /\ op'[c].id = calls + 1 /\ op'[c].id # NoCall
         /\ op'[c].all = op[c].all /\ op'[c].target = op[c].target /\ op'[c].poll = op[c].poll
         /\ op'[c].wait = op[c].wait /\ op'[c].single = op[c].single
         /\ \A d \in Contexts : d # c => pc'[d] = pc[d] /\ cur'[d] = cur[d] /\ op'[d] = op[d]
  <1>1. op \in [Contexts -> Op] /\ calls \in Nat /\ calls' = calls + 1
    BY DEF TypeOK, Accept
  <1>2. op' = [op EXCEPT ![c].id = calls']
    BY DEF Accept
  <1>3. op'[c] = [op[c] EXCEPT !.id = calls'] /\ \A d \in Contexts : d # c => op'[d] = op[d]
    BY <1>1, <1>2
  <1>4. /\ pc'[c] = "Mark" /\ cur'[c] = i
        /\ \A d \in Contexts : d # c => pc'[d] = pc[d] /\ cur'[d] = cur[d]
    BY Moves DEF Accept
  <1> QED BY <1>1, <1>3, <1>4 DEF Op, NoCall
-----------------------------------------------------------------------------
(* Control is kept.                                                        *)
LEMMA ControlUpdate ==
  ASSUME TypeOK, Control, NEW c \in Contexts, CheckAndUpdateApsStatus(c)
  PROVE  CtlParams' /\ CtlEvents'
  <1> USE DEF At, Contexts, NoCall, Checking, Accepted, Id, ForAll, Target, Polls, CtlParams, CtlEvents
  <1>0. /\ "main" \in Contexts /\ "timer" \in Contexts /\ "notify" \in Contexts
        /\ CtlParams /\ CtlEvents /\ op \in [Contexts -> Op] /\ cur \in [Contexts -> 0 .. N]
        /\ pc \in [Contexts -> Phase] /\ WaitEvent \in [Procs -> 0 .. MaxCalls]
    BY DEF Control, TypeOK
  <1>1. CASE Update(c)
    BY <1>0, <1>1, Turn, NoOpIs DEF Update, Goto, Procs, allVars, thisVars
  <1>2. CASE SkipAp(c)
    BY <1>0, <1>2, Turn, NoOpIs DEF SkipAp, Goto, Procs, allVars, thisVars
  <1>3. CASE CollectAp(c)
    BY <1>0, <1>3, Turn, NoOpIs DEF CollectAp, Goto, Procs, allVars, thisVars
  <1>4. CASE AllExpired(c)
    BY <1>0, <1>4, Turn, NoOpIs DEF AllExpired, Goto, Procs, allVars, thisVars
  <1>5. CASE AllNotReady(c)
    BY <1>0, <1>5, Turn, NoOpIs DEF AllNotReady, Goto, Procs, allVars, thisVars
  <1>6. CASE AllReset(c)
    BY <1>0, <1>6, Turn, NoOpIs DEF AllReset, Goto, Procs, allVars, thisVars
  <1>7. CASE AllSignal(c)
    BY <1>0, <1>7, Turn, NoOpIs DEF AllSignal, Goto, Procs, allVars, thisVars
  <1>8. CASE AllClear(c)
    BY <1>0, <1>8, Turn, NoOpIs DEF AllClear, Goto, Procs, allVars, thisVars
  <1>9. CASE EachSkip(c)
    BY <1>0, <1>9, Turn, NoOpIs DEF EachSkip, Goto, Procs, allVars, thisVars
  <1>10. CASE EachDone(c)
    <2>1. /\ pc[c] = "EachAp" /\ Active(c) /\ cur[c] \in Procs /\ WaitEvent[cur[c]] # NoCall
          /\ Goto(c, "EachSignal", cur[c]) /\ UNCHANGED <<thisVars, allVars, op, BSP>>
      BY <1>10, CurIsProc DEF EachDone
    <2> QED
      BY <1>0, <2>1, Turn, Moves DEF allVars, thisVars
  <1>11. CASE EachSignal(c)
    BY <1>0, <1>11, Turn, NoOpIs DEF EachSignal, Goto, Procs, allVars, thisVars
  <1>12. CASE EachClear(c)
    BY <1>0, <1>12, Turn, NoOpIs DEF EachClear, Goto, Procs, allVars, thisVars
  <1>13. CASE Updated(c)
    BY <1>0, <1>13, Turn, NoOpIs DEF Updated, Goto, Procs, allVars, thisVars
  <1>14. CASE AllFinished(c)
    BY <1>0, <1>14, Turn, NoOpIs, Delivers DEF AllFinished, allVars, thisVars
  <1>15. CASE AllOutOfResources(c)
    BY <1>0, <1>15, Turn, NoOpIs, Delivers DEF AllOutOfResources, allVars, thisVars
  <1>16. CASE AllTimeout(c)
    BY <1>0, <1>16, Turn, NoOpIs, Delivers DEF AllTimeout, allVars, thisVars
  <1> QED BY <1>1, <1>2, <1>3, <1>4, <1>5, <1>6, <1>7, <1>8, <1>9, <1>10, <1>11, <1>12, <1>13, <1>14, <1>15, <1>16 DEF CheckAndUpdateApsStatus

LEMMA ControlDispatch ==
  ASSUME TypeOK, Control, NEW c \in Callers, Dispatch(c)
  PROVE  CtlParams' /\ CtlEvents'
  <1> USE DEF At, Contexts, NoCall, Checking, Accepted, Id, ForAll, Target, Polls, CtlParams, CtlEvents
  <1>0. /\ "main" \in Contexts /\ "timer" \in Contexts /\ "notify" \in Contexts /\ c \in Contexts
        /\ CtlParams /\ CtlEvents /\ op \in [Contexts -> Op] /\ cur \in [Contexts -> 0 .. N]
        /\ pc \in [Contexts -> Phase] /\ WaitEvent \in [Procs -> 0 .. MaxCalls]
    BY DEF Control, TypeOK, Callers
  <1>1. CASE Admit(c)
    <2>1. c = "main" /\ pc[c] = "Admit" /\ Target \in Procs
      BY <1>0, <1>1, Turn DEF Admit, Callers, Op
    <2>2. CASE State[op[c].target] = "IDLE"
      <3>1. Accept(c, {op[c].target}, op[c].target)
        BY <1>1, <2>2 DEF Admit
      <3> QED BY <1>0, <1>1, <2>1, <3>1, Turn, Accepts DEF Admit, allVars, thisVars
    <2>3. CASE State[op[c].target] # "IDLE"
      <3>1. Return(c)
        BY <1>1, <2>3 DEF Admit
      <3> QED BY <1>0, <1>1, <2>1, <3>1, Turn, Returns, NoOpIs DEF Admit, allVars, thisVars
    <2> QED BY <2>2, <2>3
  <1>2. CASE Scan(c)
    BY <1>0, <1>2, Turn, NoOpIs, CurIsProc DEF Scan, Goto, Return, Accept, Procs, Op, allVars, thisVars, callVars, Callers
  <1>3. CASE Scanned(c)
    <2>1. c = "main" /\ pc[c] = "Scan"
      BY <1>0, <1>3, Turn DEF Scanned, Callers
    <2>2. CASE Waiting(CpuList) # {}
      <3>1. Accept(c, Waiting(CpuList), 0)
        BY <1>3, <2>2 DEF Scanned
      <3> QED BY <1>0, <1>3, <2>1, <3>1, Turn, Accepts DEF Scanned, allVars, thisVars
    <2>3. CASE Waiting(CpuList) = {}
      <3>1. Return(c)
        BY <1>3, <2>3 DEF Scanned
      <3> QED BY <1>0, <1>3, <2>1, <3>1, Turn, Returns, NoOpIs DEF Scanned, allVars, thisVars
    <2> QED BY <2>2, <2>3
  <1>4. CASE Mark(c)
    BY <1>0, <1>4, Turn, NoOpIs, CurIsProc DEF Mark, Goto, Return, Accept, Procs, Op, allVars, thisVars, callVars, Callers
  <1>5. CASE MarkSkip(c)
    BY <1>0, <1>5, Turn, NoOpIs, CurIsProc DEF MarkSkip, Goto, Return, Accept, Procs, Op, allVars, thisVars, callVars, Callers
  <1>6. CASE Wake(c)
    BY <1>0, <1>6, Turn, NoOpIs, CurIsProc DEF Wake, Goto, Return, Accept, Procs, Op, allVars, thisVars, callVars, Callers
  <1>7. CASE PublishThis(c)
    BY <1>0, <1>7, Turn, NoOpIs, CurIsProc DEF PublishThis, Goto, Return, Accept, Procs, Op, allVars, thisVars, callVars, Callers
  <1>8. CASE PublishAll(c)
    <2>1. c = "main" /\ pc[c] = "Publish" /\ op[c] \in Op
      BY <1>0, <1>8, Turn DEF PublishAll, Callers
    <2>2. CASE op[c].wait
      <3>1. Return(c) /\ AllEvent' = Id /\ AllProc' = Id /\ WaitEvent' = WaitEvent
        BY <1>8, <2>1, <2>2 DEF PublishAll, EventOf, thisVars
      <3> QED BY <1>0, <2>1, <3>1, Turn, Returns, NoOpIs DEF PublishAll
    <2>3. CASE ~op[c].wait
      <3>1. /\ Goto(c, "AllAps", 0) /\ AllEvent' = NoCall /\ AllProc' = Id /\ WaitEvent' = WaitEvent
            /\ op' = [op EXCEPT ![c].poll = TRUE]
        BY <1>8, <2>1, <2>3 DEF PublishAll, EventOf, thisVars
      <3>2. /\ op'[c] = [op[c] EXCEPT !.poll = TRUE] /\ op'["timer"] = op["timer"]
            /\ op'["notify"] = op["notify"]
        BY <1>0, <2>1, <3>1
      <3>3. op'[c].poll /\ op'[c].all /\ ~op'[c].wait /\ op'[c].id = Id
        BY <1>8, <2>1, <2>3, <3>2 DEF Op, PublishAll
      <3>4. pc'[c] = "AllAps" /\ \A d \in Contexts : d # c => pc'[d] = pc[d]
        BY <1>0, <3>1, Moves
      <3>5. pc["timer"] = "idle" /\ pc["notify"] = "idle"
        BY <1>8, <2>1, Turn DEF PublishAll
      <3> QED BY <1>0, <2>1, <3>1, <3>2, <3>3, <3>4, <3>5
    <2> QED BY <2>2, <2>3
  <1>9. CASE PollThis(c)
    BY <1>0, <1>9, Turn, NoOpIs, CurIsProc DEF PollThis, Goto, Return, Accept, Procs, Op, allVars, thisVars, callVars, Callers
  <1> QED BY <1>1, <1>2, <1>3, <1>4, <1>5, <1>6, <1>7, <1>8, <1>9 DEF Dispatch

(* What leaves the contexts alone. *)
LEMMA Elsewhere ==
  ASSUME NEW p \in Procs, NEW b \in BOOLEAN, Ap(p) \/ Elapse(p) \/ ElapseAll \/ EnableDisableAP(p, b)
  PROVE  UNCHANGED <<ctxVars, mStop, BSP, WaitEvent, CpuList, StartCount, FinishCount, SingleThread,
                     AllProc, AllEvent>>
  BY DEF Ap, ApBreak, ApNothing, ApEnter, ApReturn, ApClear, ApFinish, ApAck, ApStep, Elapse,
         ElapseAll, EnableDisableAP, ctxVars, thisVars, allVars

LEMMA ControlStep ==
  ASSUME Careful, TypeOK, Control, [Next]_vars
  PROVE  Control'
  <1> USE DEF At, Contexts, NoCall, Checking, Accepted, Id, ForAll, Target, Polls, CtlParams, CtlEvents
  <1>0. /\ "main" \in Contexts /\ "timer" \in Contexts /\ "notify" \in Contexts
        /\ CtlParams /\ CtlEvents /\ op \in [Contexts -> Op] /\ cur \in [Contexts -> 0 .. N]
        /\ pc \in [Contexts -> Phase] /\ Suppressed
    BY DEF Control, TypeOK
  <1>1. Suppressed'
    BY SuppressedStep DEF Careful, Control
  <1> SUFFICES CtlParams' /\ CtlEvents'
    BY <1>1 DEF Control
  <1>2. ASSUME UNCHANGED <<ctxVars, WaitEvent, AllProc, AllEvent, BSP>>
        PROVE  CtlParams' /\ CtlEvents'
    BY <1>0, <1>2 DEF ctxVars
  <1>3. ASSUME NEW c \in Callers, NEW kind \in CallKinds, NEW p \in Procs, StartCall(c, kind, p)
        PROVE  CtlParams' /\ CtlEvents'
    <2>1. c = "main" /\ pc["main"] = "idle" /\ pc["timer"] = "idle" /\ pc["notify"] = "idle"
      BY <1>3, <1>0 DEF StartCall, MayCall, Careful, Active, Suppressed
    <2>2. kind.all => AllEvent = NoCall
      BY <1>3, <2>1 DEF StartCall, MayCall, Careful
    <2>3. kind \in Kinds
      BY KindsAssumption
    <2>4. /\ op'["main"].all = kind.all /\ op'["main"].id = NoCall /\ ~op'["main"].poll
          /\ op'["timer"] = NoOp /\ op'["notify"] = NoOp /\ op'["main"].target = p
      BY <1>0, <1>3, <2>1, <2>3, NoOpIs DEF StartCall, Op, Kinds
    <2>5. /\ pc'["main"] = "Update" /\ pc'["timer"] = "idle" /\ pc'["notify"] = "idle"
          /\ UNCHANGED <<AllEvent, AllProc, WaitEvent, cur, BSP>> /\ (kind.all \/ p # BSP)
      BY <1>0, <1>3, <2>1 DEF StartCall, allVars, thisVars
    <2> QED BY <1>0, <2>2, <2>4, <2>5
  <1>4. ASSUME NEW p \in Procs, NEW b \in BOOLEAN, SwitchBSP(p, b) PROVE CtlParams' /\ CtlEvents'
    <2>1. /\ pc["main"] = "idle" /\ pc["timer"] = "idle" /\ pc["notify"] = "idle"
          /\ Goto("main", "Exchange", 0) /\ UNCHANGED <<AllEvent, AllProc, WaitEvent>>
      BY <1>4 DEF SwitchBSP, Active, thisVars, allVars
    <2>2. /\ ~op'["main"].all /\ op'["main"].id = NoCall /\ ~op'["main"].poll
          /\ op'["timer"] = NoOp /\ op'["notify"] = NoOp
      BY <1>0, <1>4, NoOpIs DEF SwitchBSP, Op
    <2> QED BY <1>0, <2>1, <2>2, Moves
  <1>5. CASE Exchange
    <2>1. /\ pc["main"] = "Exchange" /\ pc["timer"] = "idle" /\ pc["notify"] = "idle"
          /\ pc'["main"] = "SwitchWait" /\ pc'["timer"] = "idle" /\ pc'["notify"] = "idle"
          /\ UNCHANGED <<AllEvent, AllProc, WaitEvent, op>>
      BY <1>0, <1>5 DEF Exchange, Active, Goto, thisVars, allVars
    <2> QED BY <1>0, <2>1
  <1>6. CASE SwitchDone
    <2>1. /\ pc["timer"] = "idle" /\ pc["notify"] = "idle"
          /\ pc'["main"] = "idle" /\ pc'["timer"] = "idle" /\ pc'["notify"] = "idle"
          /\ op'["main"] = NoOp /\ op'["timer"] = NoOp /\ op'["notify"] = NoOp
          /\ UNCHANGED <<AllEvent, AllProc, WaitEvent>>
      BY <1>0, <1>6 DEF SwitchDone, Active, Goto, thisVars, allVars
    <2> QED BY <1>0, <2>1, NoOpIs
  <1>7. CASE CheckApsStatus
    <2>1. UNCHANGED <<AllEvent, AllProc, WaitEvent, op, BSP>>
      BY <1>7 DEF CheckApsStatus, thisVars, allVars
    <2>2. CASE UNCHANGED <<pc, cur>>
      BY <1>2, <2>1, <2>2 DEF ctxVars
    <2>3. CASE Goto("timer", "Update", 0)
      <3>1. /\ pc'["main"] = pc["main"] /\ pc'["timer"] = "Update" /\ pc'["notify"] = "idle"
            /\ cur'["main"] = cur["main"]
        BY <1>0, <2>3 DEF Goto, Suppressed
      <3>2. pc["main"] \in {"idle", "SwitchWait", "Exchange"}
        BY <1>0, <1>7, <2>3, <3>1 DEF CheckApsStatus, Suppressed
      <3> QED BY <1>0, <2>1, <3>1, <3>2
    <2> QED BY <1>7, <2>2, <2>3 DEF CheckApsStatus
  <1>8. CASE UNCHANGED vars
    <2>1. UNCHANGED <<ctxVars, WaitEvent, AllProc, AllEvent, BSP>>
      BY <1>8 DEF vars, thisVars, allVars
    <2> QED BY <1>2, <2>1
  <1>9. CASE Next
    <2>1. 0 \in Procs /\ TRUE \in BOOLEAN
      BY NAssumption DEF Procs
    <2>2. ASSUME NEW p \in Procs, NEW b \in BOOLEAN,
                 Ap(p) \/ Elapse(p) \/ ElapseAll \/ EnableDisableAP(p, b)
          PROVE  CtlParams' /\ CtlEvents'
      BY <1>2, <2>2, Elsewhere
    <2> HIDE DEF CtlParams, CtlEvents, Contexts
    <2> QED BY <1>3, <1>4, <1>5, <1>6, <1>7, <1>9, <2>1, <2>2, ControlUpdate, ControlDispatch
            DEF Next
  <1> QED BY <1>8, <1>9

LEMMA ControlStart == Init => Control
  BY NoOpIs DEF Init, Control, Suppressed, CtlParams, CtlEvents, Contexts, Checking, Accepted, Id,
     ForAll, Target, Polls, NoCall
-----------------------------------------------------------------------------
(***************************************************************************)
(* Ownership.  Listed and Serving are AllOwns and ThisOwns, as Control     *)
(* allows to say them.  An AP that is owned does not take part in a        *)
(* switch, is owned by one call, and is not IDLE, but before it is marked  *)
(* and after it was collected.                                             *)
(***************************************************************************)
Where(S)    == pc["main"] \in S \/ pc["timer"] \in S
Outside(p)  == p = BSP \/ SwitchOwns(p)
Pending     == AllEvent # NoCall \/ (Id # NoCall /\ ForAll)
Listed(p)   == CpuList[p] /\ Pending
Serving(p)  == Id # NoCall /\ ~ForAll /\ p = Target
Unmarked(p) == ForAll /\ \/ pc["main"] = "Mark" /\ p >= cur["main"]
                         \/ pc["main"] = "Wake" /\ p > cur["main"]
Closing(p)  == \/ pc["main"] \in {"EachSignal", "EachClear"} /\ cur["main"] = p
               \/ pc["timer"] \in {"EachSignal", "EachClear"} /\ cur["timer"] = p

Taken == {"READY", "BUSY", "FINISHED"}
Quiet == {"parked", "woken", "finished"}

(* State, Procedure and position of an AP that takes no part in a switch. *)
Works(p) ==
  /\ State[p] \in {"IDLE", "DISABLED", "FINISHED"} => Procedure[p] = NoCall /\ apc[p] \in Quiet
  /\ State[p] = "READY" => apc[p] \in Quiet /\ Procedure[p] # FutureBsp
  /\ State[p] = "BUSY" =>
       \/ apc[p] = "cleared" /\ Procedure[p] = NoCall
       \/ apc[p] \in {"running", "returned"} /\ Procedure[p] \in Calls /\ job[p] = Procedure[p]

Owned(p) ==
  /\ Listed(p) => /\ ~Outside(p) /\ WaitEvent[p] = NoCall /\ ~Serving(p)
                  /\ IF Unmarked(p) THEN State[p] = "IDLE" ELSE State[p] \in Taken
  /\ WaitEvent[p] # NoCall => /\ ~Outside(p) /\ ~Serving(p)
                              /\ IF Closing(p) THEN State[p] = "IDLE" ELSE State[p] \in Taken
  /\ Serving(p) => /\ ~Outside(p)
                   /\ IF pc["main"] = "Mark" THEN State[p] = "IDLE" ELSE State[p] \in Taken
  /\ pc["main"] = "Scan" /\ p < cur["main"] /\ CpuList[p] => p # BSP /\ State[p] = "IDLE"
  /\ pc["main"] = "Wake" /\ p = cur["main"] =>
       State[p] = "READY" /\ Procedure[p] = NoCall /\ (ForAll => CpuList[p])

(* The BSP, and the two processors of a switch. *)
Roles ==
  /\ Switching => Target # BSP /\ Manner = "Hlt"
  /\ Procedure[BSP] \notin Calls
  /\ pc["main"] # "SwitchWait" => apc[BSP] = "bsp" /\ State[BSP] # "FINISHED"
  /\ pc["main"] = "Exchange" =>
       /\ Procedure[Target] = FutureBsp
       /\ \/ apc[Target] = "woken" /\ State[Target] = "IDLE"
          \/ apc[Target] = "running" /\ State[Target] = "BUSY" /\ job[Target] = FutureBsp
  /\ pc["main"] = "SwitchWait" =>
       /\ apc[Target] = "bsp" /\ State[Target] = "BUSY" /\ Procedure[Target] = FutureBsp
       /\ \/ apc[BSP] = "returned" /\ State[BSP] # "FINISHED"
          \/ apc[BSP] = "cleared" /\ State[BSP] # "FINISHED" /\ Procedure[BSP] = NoCall
          \/ apc[BSP] \in {"finished", "parked"} /\ State[BSP] = "FINISHED" /\ Procedure[BSP] = NoCall

(* In single thread mode only the first of the listed APs has been woken. *)
Serial == IF AllEvent # NoCall THEN SingleThread ELSE op["main"].single
InTurn(p, q) ==
  Serial /\ Listed(p) /\ Listed(q) /\ q < p /\ ~Unmarked(p)
  => State[p] = "READY" /\ Procedure[p] = NoCall

(* StartCount and FinishCount. *)
Marked == {p \in Waiting(CpuList) : ~Unmarked(p)}
Counted ==
  /\ Pending /\ ~Where({"AllReset", "AllSignal", "AllClear"})
       => StartCount = FinishCount + Cardinality(Marked)
  /\ pc["main"] \in {"Mark", "Wake", "Publish"} /\ ForAll => FinishCount = 0
  /\ Polls => SingleThread = op["main"].single

Owners ==
  /\ \A p \in Procs : Owned(p)
  /\ \A p \in Procs : ~Outside(p) => Works(p)
  /\ Roles
  /\ \A p, q \in Procs : InTurn(p, q)
  /\ Counted

LEMMA SomeProcs ==
  ASSUME NEW S \in SUBSET Procs
  PROVE  /\ Cardinality(S) \in Nat
         /\ Cardinality(S) = 0 <=> S = {}
         /\ \A p \in S : Cardinality(S \ {p}) = Cardinality(S) - 1
         /\ \A p \in Procs \ S : Cardinality(S \union {p}) = Cardinality(S) + 1
  <1>1. IsFiniteSet(Procs)
    <2>1. 0 \in Int /\ N - 1 \in Int
      BY NAssumption
    <2> QED BY <2>1, FS_Interval DEF Procs
  <1>2. IsFiniteSet(S)
    BY <1>1, FS_Subset
  <1>3. Cardinality(S) \in Nat /\ (Cardinality(S) = 0 <=> S = {})
    BY <1>2, FS_CardinalityType, FS_EmptySet
  <1>4. ASSUME NEW p \in S PROVE Cardinality(S \ {p}) = Cardinality(S) - 1
    BY <1>2, FS_RemoveElement
  <1>5. ASSUME NEW p \in Procs \ S PROVE Cardinality(S \union {p}) = Cardinality(S) + 1
    BY <1>2, FS_AddElement
  <1> QED BY <1>3, <1>4, <1>5

(* GetNextWaitingProcessorNumber finds the least of the listed. *)
LEMMA NextWaiting ==
  ASSUME NEW list, Waiting(list) # {}
  PROVE  /\ GetNextWaitingProcessorNumber(list) \in Waiting(list)
         /\ \A q \in Waiting(list) : GetNextWaitingProcessorNumber(list) <= q
  <1> DEFINE Less == {ss \in Nat \X Nat : ss[1] < ss[2]}
  <1>1. Waiting(list) \subseteq Nat
    BY DEF Waiting, Procs
  <1>2. IsWellFoundedOn(Less, Nat)
    BY NatLessThanWellFounded DEF OpToRel
  <1>3. \E p \in Waiting(list) : \A q \in Waiting(list) : <<q, p>> \notin Less
    <2> HIDE DEF Less
    <2> QED BY <1>1, <1>2, WFMin
  <1>4. ASSUME NEW p \in Waiting(list), NEW q \in Waiting(list), <<q, p>> \notin Less
        PROVE  p <= q
    <2>1. p \in Nat /\ q \in Nat /\ <<q, p>> \in Nat \X Nat
      BY <1>1
    <2>2. ~(q < p)
      BY <1>4, <2>1
    <2> QED BY <2>1, <2>2
  <1>5. \E p \in Waiting(list) : \A q \in Waiting(list) : p <= q
    <2> HIDE DEF Less
    <2> QED BY <1>3, <1>4
  <1> QED BY <1>5 DEF GetNextWaitingProcessorNumber
-----------------------------------------------------------------------------
(* Owners is kept by a step that changes no processor and no listing, and  *)
(* moves contexts between phases in which a call owns nothing by position. *)
Settling == {"AllReset", "AllSignal", "AllClear"}

LEMMA Walk ==
  ASSUME TypeOK, Control, Control', Owners,
         UNCHANGED <<State, Procedure, apc, job, WaitEvent, SingleThread, BSP>>,
         UNCHANGED <<CpuList, StartCount, FinishCount>> \/ (pc'["main"] = "idle" /\ ~Pending'),
         Pending' => Pending /\ AllEvent' = AllEvent /\ (Where(Settling) => Where(Settling)'),
         Id' # NoCall \/ Switching' => op' = op,
         \/ pc'["main"] = pc["main"] /\ cur'["main"] = cur["main"]
         \/ /\ pc["main"] \in Checking \union {"idle", "Admit", "Scan", "PollThis"}
            /\ \/ pc'["main"] \in Checking \union {"idle", "Admit"}
               \/ pc'["main"] = "Scan" /\ cur'["main"] = 0,
         \A q \in Procs : Closing(q)' <=> Closing(q)
  PROVE  Owners'
  <1> USE DEF Id, ForAll, Target, Polls, Switching
  <1>0. /\ CtlParams /\ CtlEvents /\ CtlParams' /\ CtlEvents'
        /\ \A p \in Procs : Owned(p)
        /\ \A p \in Procs : ~Outside(p) => Works(p)
        /\ Roles
        /\ \A p, q \in Procs : InTurn(p, q)
        /\ Counted
    BY DEF Owners, Control
  <1>1. \A q \in Procs : Outside(q)' <=> Outside(q)
    BY DEF Outside, SwitchOwns, Checking
  <1>2. Id' # NoCall => op' = op /\ Id # NoCall
    OBVIOUS
  <1>3. \A q \in Procs : /\ Listed(q)' => Listed(q) /\ (Unmarked(q)' <=> Unmarked(q))
                         /\ Serving(q)' => Serving(q)
    BY <1>0, <1>2 DEF Listed, Pending, Serving, Unmarked, Checking, CtlParams, CtlEvents, Accepted, NoCall
  <1>4. ASSUME NEW q \in Procs PROVE Owned(q)'
    BY <1>0, <1>1, <1>2, <1>3, <1>4 DEF Owned, Checking, CtlParams, Accepted, Procs, Serving, Closing
  <1>5. ASSUME NEW q \in Procs, ~Outside(q)' PROVE Works(q)'
    BY <1>0, <1>1, <1>5 DEF Works
  <1>6. Roles'
    BY <1>0 DEF Roles, Checking
  <1>7. ASSUME NEW p \in Procs, NEW q \in Procs PROVE InTurn(p, q)'
    BY <1>0, <1>2, <1>3, <1>7 DEF InTurn, Serial, Listed, Pending
  <1>8. Counted'
    <2>1. Pending' => Marked' = Marked
      BY <1>3 DEF Marked, Listed, Waiting
    <2> QED BY <1>0, <1>2, <2>1 DEF Counted, CtlParams, Accepted, Checking, NoCall, Settling
  <1> QED BY <1>4, <1>5, <1>6, <1>7, <1>8 DEF Owners

LEMMA WalkOn ==
  ASSUME TypeOK, Control, Control', Owners, NEW c \in Contexts,
         Active(c), pc[c] \in Checking \ {"EachClear"},
         \A d \in Contexts : d # c => pc'[d] = pc[d] /\ cur'[d] = cur[d],
         UNCHANGED <<cpuVars, thisVars, allVars, BSP, op>>,
         pc'[c] \in Checking \union {"idle", "Admit"} \/ (pc'[c] = "Scan" /\ cur'[c] = 0),
         IF pc[c] = "EachSignal" THEN pc'[c] = "EachClear" /\ cur'[c] = cur[c]
                                 ELSE pc'[c] \notin {"EachSignal", "EachClear"},
         pc[c] \in Settling => pc'[c] \in Settling
  PROVE  Owners'
  <1>0. "main" \in Contexts /\ "timer" \in Contexts /\ op \in [Contexts -> Op]
    BY DEF Contexts, TypeOK
  <1>2. \/ c = "main" /\ pc["timer"] = "idle"
        \/ c = "timer" /\ pc["main"] \in {"idle", "SwitchWait"}
    BY Turn DEF Checking
  <1>3. UNCHANGED <<State, Procedure, apc, job, WaitEvent, CpuList, StartCount, FinishCount,
                    SingleThread, BSP, AllEvent, op>>
    BY DEF cpuVars, thisVars, allVars
  <1>4. \A q \in Procs : Closing(q)' <=> Closing(q)
    BY <1>0, <1>2 DEF Closing
  <1>5. Pending' => Pending /\ (Where(Settling) => Where(Settling)')
    BY <1>0, <1>2, <1>3 DEF Pending, Id, ForAll, Where, Settling
  <1> HIDE DEF Settling
  <1> QED BY <1>0, <1>2, <1>3, <1>4, <1>5, Walk DEF Checking

(* A StartupAllAPs call that nobody waits for any more owns nothing. *)
LEMMA Ends ==
  ASSUME TypeOK, Control, Control', Owners,
         UNCHANGED <<State, Procedure, apc, job, WaitEvent, CpuList, StartCount, FinishCount,
                     SingleThread, BSP>>,
         ~Pending', Id' = NoCall,
         \/ pc'["main"] = pc["main"] /\ cur'["main"] = cur["main"] /\ op' = op
         \/ /\ pc["main"] \in Checking \union {"idle", "Admit", "Scan", "PollThis"}
            /\ pc'["main"] \in Checking \union {"idle"},
         \A q \in Procs : ~Closing(q)' /\ ~Closing(q)
  PROVE  Owners'
  <1>1. Switching' => op' = op
    BY DEF Switching, Checking
  <1> QED BY <1>1, Walk

LEMMA Finishes ==
  ASSUME TypeOK, Control, Control', Owners, NEW c \in Contexts, At(c, "AllAps") \/ At(c, "AllReset"),
         Deliver(c), UNCHANGED <<cpuVars, thisVars, allVars, BSP>>
  PROVE  Owners'
  <1>0. /\ "main" \in Contexts /\ "timer" \in Contexts /\ op \in [Contexts -> Op]
        /\ CtlParams /\ CtlParams' /\ CtlEvents /\ CtlEvents' /\ Active(c)
        /\ pc[c] \in {"AllAps", "AllReset"}
    BY DEF Contexts, TypeOK, Control, At
  <1>1. CASE op[c].poll
    <2>1. c = "main" /\ pc["timer"] = "idle"
      BY <1>0, <1>1, Turn, NoOpIs DEF Contexts
    <2>2. /\ pc'["main"] = "idle" /\ op'["main"] = NoOp
          /\ pc'["timer"] = "idle" /\ op'["timer"] = op["timer"]
      BY <1>0, <1>1, <2>1, Delivers
    <2>3. AllEvent' = NoCall /\ Id' = NoCall /\ ~ForAll'
      BY <1>0, <1>1, <2>1, <2>2, NoOpIs DEF CtlParams, CtlEvents, Polls, allVars, Id, ForAll
    <2>4. UNCHANGED <<State, Procedure, apc, job, WaitEvent, CpuList, StartCount, FinishCount,
                      SingleThread, BSP>>
      BY DEF cpuVars, thisVars, allVars
    <2>5. \A q \in Procs : ~Closing(q)' /\ ~Closing(q)
      BY <1>0, <2>1, <2>2 DEF Closing
    <2>6. ~Pending'
      BY <2>3 DEF Pending
    <2> QED BY <1>0, <2>1, <2>2, <2>3, <2>4, <2>5, <2>6, Ends DEF Checking
  <1>2. CASE ~op[c].poll
    <2>1. Goto(c, "AllSignal", 0) /\ UNCHANGED op
      BY <1>2 DEF Deliver
    <2>2. pc'[c] = "AllSignal" /\ \A d \in Contexts : d # c => pc'[d] = pc[d] /\ cur'[d] = cur[d]
      BY <2>1, Moves
    <2> QED BY <1>0, <2>1, <2>2, WalkOn DEF Checking, Settling
  <1> QED BY <1>1, <1>2

LEMMA OwnersWalk ==
  ASSUME TypeOK, Control, Control', Owners, NEW c \in Contexts,
         \/ Update(c) \/ SkipAp(c) \/ AllExpired(c) \/ AllNotReady(c) \/ AllSignal(c)
         \/ EachSkip(c) \/ EachSignal(c) \/ Updated(c)
         \/ AllFinished(c) \/ AllOutOfResources(c) \/ AllTimeout(c)
  PROVE  Owners'
  <1>1. CASE AllFinished(c) \/ AllOutOfResources(c) \/ AllTimeout(c)
    BY <1>1, Finishes DEF AllFinished, AllOutOfResources, AllTimeout
  <1>2. CASE \/ Update(c) \/ SkipAp(c) \/ AllExpired(c) \/ AllNotReady(c) \/ AllSignal(c)
             \/ EachSkip(c) \/ EachSignal(c) \/ Updated(c)
    <2>1. /\ Active(c) /\ UNCHANGED <<cpuVars, thisVars, allVars, BSP, op>>
          /\ \A d \in Contexts : d # c => pc'[d] = pc[d] /\ cur'[d] = cur[d]
          /\ pc[c] \in Checking \ {"EachClear"}
      BY <1>2, Moves DEF Update, SkipAp, AllExpired, AllNotReady, AllSignal, EachSkip, EachSignal, Updated, At, Checking
    <2>2. \/ pc[c] \in {"Update", "AllAps", "EachAp"} /\ pc'[c] \in {"AllAps", "EachAp"}
          \/ pc[c] = "AllAps" /\ pc'[c] = "AllReset"
          \/ pc[c] = "AllSignal" /\ pc'[c] = "AllClear"
          \/ pc[c] = "EachSignal" /\ pc'[c] = "EachClear" /\ cur'[c] = cur[c]
          \/ pc[c] = "EachAp" /\ pc'[c] \in {"idle", "Scan", "Admit"} /\ cur'[c] = 0
      BY <1>2, Moves DEF Update, SkipAp, AllExpired, AllNotReady, AllSignal, EachSkip, EachSignal, Updated, At
    <2> QED BY <2>1, <2>2, WalkOn DEF Checking, Settling
  <1> QED BY <1>1, <1>2

(* What Owners and Control say, at hand. *)
LEMMA Opened ==
  ASSUME Control, Owners
  PROVE  /\ CtlParams /\ CtlEvents
         /\ \A p \in Procs : Owned(p)
         /\ \A p \in Procs : ~Outside(p) => Works(p)
         /\ Roles
         /\ \A p, q \in Procs : InTurn(p, q)
         /\ Counted
  BY DEF Owners, Control

(* A context that checks finds the APs marked, and nobody in an exchange.  *)
LEMMA CheckTurn ==
  ASSUME TypeOK, Control, NEW c \in Contexts, Active(c), pc[c] \in Checking,
         pc'[c] \in Checking, UNCHANGED op,
         \A d \in Contexts : d # c => pc'[d] = pc[d] /\ cur'[d] = cur[d]
  PROVE  /\ \/ c = "main" /\ pc["timer"] = "idle" /\ pc'["timer"] = "idle"
            \/ c = "timer" /\ pc["main"] \in {"idle", "SwitchWait"} /\ pc'["main"] = pc["main"]
         /\ pc["main"] \in Checking \union {"idle", "SwitchWait"}
         /\ pc'["main"] \in Checking \union {"idle", "SwitchWait"}
         /\ \A q \in Procs : /\ ~Unmarked(q) /\ ~Unmarked(q)'
                             /\ ~Serving(q) /\ ~Serving(q)'
                             /\ SwitchOwns(q)' <=> SwitchOwns(q)
         /\ Switching' <=> Switching
         /\ pc["main"] = "SwitchWait" <=> pc'["main"] = "SwitchWait"
  <1>0. "main" \in Contexts /\ "timer" \in Contexts /\ CtlParams
    BY DEF Contexts, Control
  <1>1. \/ c = "main" /\ pc["timer"] = "idle"
        \/ c = "timer" /\ pc["main"] \in {"idle", "SwitchWait"}
    BY Turn DEF Checking
  <1>2. \/ c = "main" /\ pc["timer"] = "idle" /\ pc'["timer"] = "idle"
        \/ c = "timer" /\ pc["main"] \in {"idle", "SwitchWait"} /\ pc'["main"] = pc["main"]
    BY <1>0, <1>1
  <1>3. /\ pc["main"] \in Checking \union {"idle", "SwitchWait"}
        /\ pc'["main"] \in Checking \union {"idle", "SwitchWait"}
    BY <1>0, <1>2
  <1>4. ASSUME NEW q \in Procs
        PROVE  /\ ~Unmarked(q) /\ ~Unmarked(q)' /\ ~Serving(q) /\ ~Serving(q)'
               /\ SwitchOwns(q)' <=> SwitchOwns(q)
    BY <1>0, <1>2, <1>3 DEF Unmarked, Serving, SwitchOwns, Checking, CtlParams, Accepted, Polls, ForAll, Id, Target
  <1>5. Switching' <=> Switching
    BY <1>2, <1>3 DEF Switching, Checking
  <1> QED BY <1>2, <1>3, <1>4, <1>5 DEF Checking

LEMMA OwnersAllClear ==
  ASSUME TypeOK, Control, Control', Owners, NEW c \in Contexts, AllClear(c)
  PROVE  Owners'
  <1>1. /\ Active(c) /\ pc[c] = "AllClear" /\ pc'[c] = "EachAp"
        /\ \A d \in Contexts : d # c => pc'[d] = pc[d] /\ cur'[d] = cur[d]
        /\ AllEvent' = NoCall /\ UNCHANGED op
    BY Moves DEF AllClear, At
  <1>2. UNCHANGED <<State, Procedure, apc, job, WaitEvent, CpuList, StartCount, FinishCount,
                    SingleThread, BSP>>
    BY DEF AllClear, cpuVars, thisVars
  <1>3. CtlParams /\ CtlEvents /\ "main" \in Contexts /\ "timer" \in Contexts
    BY DEF Control, Contexts
  <1>4. \/ c = "main" /\ pc["timer"] = "idle" /\ pc'["timer"] = "idle"
        \/ c = "timer" /\ pc["main"] \in {"idle", "SwitchWait"} /\ pc'["main"] = pc["main"]
    BY <1>1, <1>3, CheckTurn DEF Checking
  <1>5. Id = NoCall /\ ~ForAll
    BY <1>1, <1>3, <1>4 DEF CtlParams, CtlEvents, Polls, Accepted
  <1>6. \A q \in Procs : ~Closing(q)' /\ ~Closing(q)
    BY <1>1, <1>3, <1>4 DEF Closing
  <1>7. ~Pending' /\ Id' = NoCall
    BY <1>1, <1>5 DEF Pending, Id, ForAll
  <1> QED BY <1>1, <1>2, <1>3, <1>4, <1>6, <1>7, Ends DEF Checking

LEMMA OwnersEachClear ==
  ASSUME TypeOK, Control, Control', Owners, NEW c \in Contexts, EachClear(c)
  PROVE  Owners'
  <1> DEFINE p == cur[c]
  <1>1. /\ Active(c) /\ pc[c] = "EachClear" /\ pc'[c] = "EachAp"
        /\ \A d \in Contexts : d # c => pc'[d] = pc[d] /\ cur'[d] = cur[d]
        /\ UNCHANGED op
    BY Moves DEF EachClear, At
  <1>2. /\ UNCHANGED <<State, Procedure, apc, job, CpuList, StartCount, FinishCount,
                       SingleThread, BSP, AllEvent>>
        /\ p \in Procs /\ WaitEvent'[p] = NoCall
        /\ \A q \in Procs : q # p => WaitEvent'[q] = WaitEvent[q]
    BY CurIsProc DEF EachClear, cpuVars, allVars, TypeOK
  <1>3. "main" \in Contexts /\ "timer" \in Contexts
    BY DEF Contexts
  <1>4. /\ \/ c = "main" /\ pc["timer"] = "idle" /\ pc'["timer"] = "idle"
           \/ c = "timer" /\ pc["main"] \in {"idle", "SwitchWait"} /\ pc'["main"] = pc["main"]
        /\ \A q \in Procs : /\ ~Unmarked(q) /\ ~Unmarked(q)'
                            /\ ~Serving(q) /\ ~Serving(q)'
                            /\ SwitchOwns(q)' <=> SwitchOwns(q)
        /\ Switching' <=> Switching
        /\ pc["main"] = "SwitchWait" <=> pc'["main"] = "SwitchWait"
        /\ pc["main"] \in Checking \union {"idle", "SwitchWait"}
        /\ pc'["main"] \in Checking \union {"idle", "SwitchWait"}
    BY <1>1, CheckTurn DEF Checking
  <1>5. \A q \in Procs : ~Closing(q)' /\ (Closing(q) <=> q = p)
    BY <1>1, <1>3, <1>4 DEF Closing
  <1>6. (Pending' <=> Pending) /\ \A q \in Procs : Listed(q)' <=> Listed(q)
    BY <1>1, <1>2 DEF Pending, Listed, Id, ForAll
  <1> HIDE DEF p
  <1>7. ASSUME NEW q \in Procs PROVE Owned(q)'
    BY <1>2, <1>4, <1>5, <1>6, Opened DEF Owned, Outside, Checking
  <1>8. ASSUME NEW q \in Procs, ~Outside(q)' PROVE Works(q)'
    BY <1>2, <1>4, <1>8, Opened DEF Works, Outside
  <1>9. Roles'
    BY <1>1, <1>2, <1>4, Opened DEF Roles, Checking, Target
  <1>10. ASSUME NEW r \in Procs, NEW q \in Procs PROVE InTurn(r, q)'
    BY <1>1, <1>2, <1>4, <1>6, Opened DEF InTurn, Serial
  <1>11. Counted'
    <2>1. Marked' = Marked
      BY <1>2, <1>4 DEF Marked, Waiting
    <2> QED BY <1>1, <1>2, <1>3, <1>4, <1>6, <2>1, Opened DEF Counted, Where, Checking, Polls
  <1> QED BY <1>7, <1>8, <1>9, <1>10, <1>11 DEF Owners

(* A collected or reset AP can be given work again. *)
LEMMA ResetAp ==
  ASSUME TypeOK, NEW STATE p, p \in Procs, ResetProcessorToIdleState(p)
  PROVE  /\ State'[p] = "IDLE" /\ Procedure'[p] = NoCall /\ apc'[p] \in Quiet
         /\ \A q \in Procs : q # p => /\ State'[q] = State[q] /\ Procedure'[q] = Procedure[q]
                                      /\ apc'[q] = apc[q] /\ job'[q] = job[q]
  BY DEF ResetProcessorToIdleState, TypeOK, Quiet

LEMMA OwnersEachDone ==
  ASSUME TypeOK, Control, Control', Owners, NEW c \in Contexts, EachDone(c)
  PROVE  Owners'
  <1> DEFINE p == cur[c]
  <1>1. /\ Active(c) /\ pc[c] = "EachAp" /\ pc'[c] = "EachSignal" /\ cur'[c] = p
        /\ \A d \in Contexts : d # c => pc'[d] = pc[d] /\ cur'[d] = cur[d]
        /\ UNCHANGED op
    BY Moves DEF EachDone, At
  <1>2. /\ UNCHANGED <<WaitEvent, CpuList, StartCount, FinishCount, SingleThread, BSP, AllEvent>>
        /\ p \in Procs /\ WaitEvent[p] # NoCall
    BY CurIsProc DEF EachDone, thisVars, allVars
  <1>3. "main" \in Contexts /\ "timer" \in Contexts
    BY DEF Contexts
  <1>4. /\ \/ c = "main" /\ pc["timer"] = "idle" /\ pc'["timer"] = "idle"
           \/ c = "timer" /\ pc["main"] \in {"idle", "SwitchWait"} /\ pc'["main"] = pc["main"]
        /\ \A q \in Procs : /\ ~Unmarked(q) /\ ~Unmarked(q)'
                            /\ ~Serving(q) /\ ~Serving(q)'
                            /\ SwitchOwns(q)' <=> SwitchOwns(q)
        /\ Switching' <=> Switching
        /\ pc["main"] = "SwitchWait" <=> pc'["main"] = "SwitchWait"
        /\ pc["main"] \in Checking \union {"idle", "SwitchWait"}
        /\ pc'["main"] \in Checking \union {"idle", "SwitchWait"}
    BY <1>1, CheckTurn DEF Checking
  <1>5. \A q \in Procs : ~Closing(q) /\ (Closing(q)' <=> q = p)
    BY <1>1, <1>3, <1>4 DEF Closing
  <1>6. (Pending' <=> Pending) /\ \A q \in Procs : Listed(q)' <=> Listed(q)
    BY <1>1, <1>2 DEF Pending, Listed, Id, ForAll
  <1>7. ~Outside(p) /\ ~Listed(p) /\ State[p] \in Taken /\ Works(p)
    BY <1>2, <1>5, Opened DEF Owned
  <1>8. /\ State'[p] = "IDLE" /\ Procedure'[p] = NoCall /\ apc'[p] \in Quiet
        /\ \A q \in Procs : q # p => /\ State'[q] = State[q] /\ Procedure'[q] = Procedure[q]
                                     /\ apc'[q] = apc[q] /\ job'[q] = job[q]
    <2>1. CASE ThisFinished(p, WaitEvent[p])
      <3>1. State' = [State EXCEPT ![p] = "IDLE"] /\ UNCHANGED <<Procedure, apc, job>>
            /\ State[p] = "FINISHED"
        BY <2>1 DEF ThisFinished
      <3> QED BY <1>2, <1>7, <3>1 DEF Works, TypeOK
    <2>2. CASE ThisExpired(p, WaitEvent[p])
      <3>1. ResetProcessorToIdleState(p)
        BY <2>2 DEF ThisExpired
      <3> QED BY <1>2, <3>1, ResetAp
    <2> QED BY <2>1, <2>2 DEF EachDone
  <1> HIDE DEF p
  <1>9. ASSUME NEW q \in Procs PROVE Owned(q)'
    BY <1>2, <1>4, <1>5, <1>6, <1>7, <1>8, Opened DEF Owned, Outside, Checking
  <1>10. ASSUME NEW q \in Procs, ~Outside(q)' PROVE Works(q)'
    BY <1>2, <1>4, <1>8, <1>10, Opened DEF Works, Outside
  <1>11. Roles'
    <2>1. BSP \in Procs /\ BSP # p /\ (Switching => Target \in Procs /\ Target # p)
      BY <1>7 DEF Outside, SwitchOwns, TypeOK, Target, Switching, Op, Contexts
    <2> QED BY <1>1, <1>2, <1>4, <1>8, <2>1, Opened DEF Roles, Checking, Target, Switching
  <1>12. ASSUME NEW r \in Procs, NEW q \in Procs PROVE InTurn(r, q)'
    BY <1>1, <1>2, <1>4, <1>6, <1>7, <1>8, Opened DEF InTurn, Serial
  <1>13. Counted'
    <2>1. Marked' = Marked
      BY <1>2, <1>4 DEF Marked, Waiting
    <2> QED BY <1>1, <1>2, <1>3, <1>4, <1>6, <2>1, Opened DEF Counted, Where, Checking, Polls
  <1> QED BY <1>9, <1>10, <1>11, <1>12, <1>13 DEF Owners

LEMMA OwnersAllReset ==
  ASSUME TypeOK, Control, Control', Owners, NEW c \in Contexts, AllReset(c)
  PROVE  Owners'
  <1> DEFINE p == cur[c]
  <1>1. /\ Active(c) /\ pc[c] = "AllReset" /\ pc'[c] = "AllReset"
        /\ \A d \in Contexts : d # c => pc'[d] = pc[d] /\ cur'[d] = cur[d]
        /\ UNCHANGED op
    BY Moves DEF AllReset, At
  <1>2. /\ UNCHANGED <<WaitEvent, StartCount, FinishCount, SingleThread, BSP, AllEvent>>
        /\ p \in Procs
    BY CurIsProc DEF AllReset, thisVars
  <1>3. "main" \in Contexts /\ "timer" \in Contexts /\ CtlEvents /\ CtlParams
    BY DEF Contexts, Control
  <1>4. /\ \/ c = "main" /\ pc["timer"] = "idle" /\ pc'["timer"] = "idle"
           \/ c = "timer" /\ pc["main"] \in {"idle", "SwitchWait"} /\ pc'["main"] = pc["main"]
        /\ \A q \in Procs : /\ ~Unmarked(q) /\ ~Unmarked(q)'
                            /\ ~Serving(q) /\ ~Serving(q)'
                            /\ SwitchOwns(q)' <=> SwitchOwns(q)
        /\ Switching' <=> Switching
        /\ pc["main"] = "SwitchWait" <=> pc'["main"] = "SwitchWait"
        /\ pc["main"] \in Checking \union {"idle", "SwitchWait"}
        /\ pc'["main"] \in Checking \union {"idle", "SwitchWait"}
    BY <1>1, CheckTurn DEF Checking
  <1>5. \A q \in Procs : ~Closing(q) /\ ~Closing(q)'
    BY <1>1, <1>3, <1>4 DEF Closing
  <1>6. (Pending' <=> Pending) /\ Pending
    BY <1>1, <1>2, <1>3, <1>4, NoOpIs DEF Pending, Id, ForAll, CtlEvents, CtlParams, Polls
  <1>7. CpuList[p] => ~Outside(p) /\ WaitEvent[p] = NoCall
    BY <1>2, <1>6, Opened DEF Owned, Listed
  <1>8. /\ IF CpuList[p] THEN State'[p] = "IDLE" /\ Procedure'[p] = NoCall /\ apc'[p] \in Quiet
                         ELSE State'[p] = State[p] /\ Procedure'[p] = Procedure[p]
                              /\ apc'[p] = apc[p] /\ job'[p] = job[p]
        /\ ~CpuList'[p]
        /\ \A q \in Procs : q # p => /\ State'[q] = State[q] /\ Procedure'[q] = Procedure[q]
                                     /\ apc'[q] = apc[q] /\ job'[q] = job[q]
                                     /\ CpuList'[q] = CpuList[q]
    <2>1. CASE CpuList[p]
      <3>1. ResetProcessorToIdleState(p) /\ CpuList' = [CpuList EXCEPT ![p] = FALSE]
        BY <2>1 DEF AllReset
      <3> QED BY <1>2, <2>1, <3>1, ResetAp DEF TypeOK
    <2>2. CASE ~CpuList[p]
      BY <1>2, <2>2 DEF AllReset, cpuVars
    <2> QED BY <2>1, <2>2
  <1> HIDE DEF p
  <1>9. ASSUME NEW q \in Procs PROVE Owned(q)'
    BY <1>2, <1>4, <1>5, <1>6, <1>7, <1>8, Opened DEF Owned, Outside, Checking, Listed
  <1>10. ASSUME NEW q \in Procs, ~Outside(q)' PROVE Works(q)'
    BY <1>2, <1>4, <1>8, <1>10, Opened DEF Works, Outside
  <1>11. Roles'
    <2>1. BSP \in Procs /\ (Switching => Target \in Procs)
      BY DEF TypeOK, Target, Switching, Op, Contexts
    <2>2. CpuList[p] => BSP # p /\ (Switching => Target # p)
      BY <1>7 DEF Outside, SwitchOwns, Target, Switching
    <2> QED BY <1>1, <1>2, <1>4, <1>8, <2>1, <2>2, Opened DEF Roles, Checking, Target, Switching
  <1>12. ASSUME NEW r \in Procs, NEW q \in Procs PROVE InTurn(r, q)'
    BY <1>1, <1>2, <1>4, <1>6, <1>7, <1>8, Opened DEF InTurn, Serial, Listed
  <1>13. Counted'
    BY <1>1, <1>2, <1>3, <1>4, <1>6, Opened DEF Counted, Where, Checking, Polls
  <1> QED BY <1>9, <1>10, <1>11, <1>12, <1>13 DEF Owners

(* An AP that is between two procedures is woken for another. *)
LEMMA WakesUp ==
  ASSUME TypeOK, NEW STATE n, n \in Procs, NEW STATE k, WakeUpAp(n, k)
  PROVE  /\ Procedure'[n] = k
         /\ apc'[n] = "woken" \/ (apc'[n] = apc[n] /\ job'[n] = job[n])
         /\ \A q \in Procs : q # n => /\ Procedure'[q] = Procedure[q]
                                      /\ apc'[q] = apc[q] /\ job'[q] = job[q]
  BY DEF WakeUpAp, TypeOK

LEMMA OwnersCollect ==
  ASSUME TypeOK, Control, Control', Owners, NEW c \in Contexts, CollectAp(c)
  PROVE  Owners'
  <1> DEFINE p == cur[c]
             n == GetNextWaitingProcessorNumber(CpuList')
             next == SingleThread /\ Waiting(CpuList') # {}
  <1>1. /\ Active(c) /\ pc[c] = "AllAps" /\ pc'[c] = "AllAps"
        /\ \A d \in Contexts : d # c => pc'[d] = pc[d] /\ cur'[d] = cur[d]
        /\ UNCHANGED op
    BY Moves DEF CollectAp, At
  <1>2. /\ UNCHANGED <<WaitEvent, StartCount, SingleThread, BSP, AllEvent, AllProc>>
        /\ p \in Procs /\ CpuList[p] /\ State[p] = "FINISHED"
        /\ FinishCount' = FinishCount + 1
        /\ State' = [State EXCEPT ![p] = "IDLE"] /\ CpuList' = [CpuList EXCEPT ![p] = FALSE]
        /\ IF next THEN WakeUpAp(n, AllProc) ELSE UNCHANGED <<Procedure, signal, apc, job>>
    BY CurIsProc DEF CollectAp, thisVars
  <1>3. "main" \in Contexts /\ "timer" \in Contexts /\ CtlEvents /\ CtlParams
    BY DEF Contexts, Control
  <1>4. /\ \/ c = "main" /\ pc["timer"] = "idle" /\ pc'["timer"] = "idle"
           \/ c = "timer" /\ pc["main"] \in {"idle", "SwitchWait"} /\ pc'["main"] = pc["main"]
        /\ \A q \in Procs : /\ ~Unmarked(q) /\ ~Unmarked(q)'
                            /\ ~Serving(q) /\ ~Serving(q)'
                            /\ SwitchOwns(q)' <=> SwitchOwns(q)
        /\ Switching' <=> Switching
        /\ pc["main"] = "SwitchWait" <=> pc'["main"] = "SwitchWait"
        /\ pc["main"] \in Checking \union {"idle", "SwitchWait"}
        /\ pc'["main"] \in Checking \union {"idle", "SwitchWait"}
    BY <1>1, CheckTurn DEF Checking
  <1>5. \A q \in Procs : ~Closing(q) /\ ~Closing(q)'
    BY <1>1, <1>3, <1>4 DEF Closing
  <1>6. (Pending' <=> Pending) /\ Pending
    BY <1>1, <1>2, <1>3, <1>4, NoOpIs DEF Pending, Id, ForAll, CtlEvents, CtlParams, Polls
  <1>7. /\ State'[p] = "IDLE" /\ ~CpuList'[p]
        /\ \A q \in Procs : q # p => State'[q] = State[q] /\ CpuList'[q] = CpuList[q]
    BY <1>2 DEF TypeOK
  <1>8. ~Outside(p) /\ WaitEvent[p] = NoCall /\ Works(p)
    BY <1>2, <1>6, Opened DEF Owned, Listed
  <1> HIDE DEF p
  <1>9. next => /\ n \in Procs /\ n # p /\ CpuList[n]
                /\ \A q \in Procs : CpuList'[q] => n <= q
    <2>1. ASSUME next
          PROVE  n \in Waiting(CpuList') /\ \A q \in Waiting(CpuList') : n <= q
      BY <2>1, NextWaiting
    <2> HIDE DEF n, next
    <2> QED BY <1>7, <2>1 DEF Waiting
  <1>10. Serial <=> SingleThread
    BY <1>1, <1>2, <1>3, <1>4, Opened, NoOpIs DEF Serial, Counted, CtlEvents, CtlParams, Polls
  <1>11. next => State[n] = "READY" /\ Procedure[n] = NoCall /\ ~Outside(n) /\ Works(n)
    <2>1. ASSUME next PROVE InTurn(n, p) /\ InTurn(p, n) /\ Owned(n) /\ (~Outside(n) => Works(n))
      BY <1>2, <1>9, <2>1, Opened
    <2>2. next => SingleThread
      OBVIOUS
    <2> HIDE DEF n, next
    <2>3. next => n \in Procs /\ p \in Procs /\ n # p /\ (n < p \/ p < n)
      BY <1>2, <1>9 DEF Procs
    <2> QED BY <1>2, <1>4, <1>6, <1>9, <1>10, <2>1, <2>2, <2>3 DEF InTurn, Listed, Owned
  <1>12. /\ next => /\ Procedure'[n] = AllProc
                    /\ apc'[n] = "woken" \/ apc'[n] = apc[n]
         /\ \A q \in Procs : (next => q # n) =>
              Procedure'[q] = Procedure[q] /\ apc'[q] = apc[q] /\ job'[q] = job[q]
    <2>1. CASE next
      <3>1. WakeUpAp(n, AllProc) /\ n \in Procs
        BY <1>2, <1>9, <2>1
      <3> HIDE DEF n, next
      <3> QED BY <2>1, <3>1, WakesUp
    <2>2. CASE ~next
      BY <1>2, <2>2
    <2> QED BY <2>1, <2>2
  <1>13. AllProc # FutureBsp
    BY DEF TypeOK, FutureBsp
  <1> HIDE DEF n, next
  <1>14. ASSUME NEW q \in Procs PROVE Owned(q)'
    BY <1>2, <1>4, <1>5, <1>6, <1>7, <1>8, Opened DEF Owned, Outside, Checking, Listed
  <1>15. ASSUME NEW q \in Procs, ~Outside(q)' PROVE Works(q)'
    <2>1. ~Outside(q) /\ Works(q)
      BY <1>2, <1>4, <1>15, Opened DEF Outside
    <2>2. CASE next /\ q = n
      BY <1>7, <1>9, <1>11, <1>12, <1>13, <2>1, <2>2 DEF Works, Quiet
    <2>3. CASE ~(next /\ q = n)
      BY <1>2, <1>7, <1>12, <2>1, <2>3 DEF Works
    <2> QED BY <2>2, <2>3
  <1>16. Roles'
    <2>1. BSP \in Procs /\ (Switching => Target \in Procs)
      BY DEF TypeOK, Target, Switching, Op, Contexts
    <2>2. BSP # p /\ (Switching => Target # p)
      BY <1>8 DEF Outside, SwitchOwns, Target, Switching
    <2>3. next => BSP # n /\ (Switching => Target # n)
      BY <1>11 DEF Outside, SwitchOwns, Target, Switching
    <2> QED BY <1>1, <1>2, <1>4, <1>7, <1>12, <2>1, <2>2, <2>3, Opened
            DEF Roles, Checking, Target, Switching
  <1>17. ASSUME NEW r \in Procs, NEW q \in Procs PROVE InTurn(r, q)'
    <2>1. Serial' <=> Serial
      BY <1>1, <1>2 DEF Serial
    <2>2. SUFFICES ASSUME Serial, CpuList'[r], CpuList'[q], q < r
                   PROVE  State'[r] = "READY" /\ Procedure'[r] = NoCall
      BY <2>1 DEF InTurn, Listed
    <2>3. r # p /\ q # p /\ CpuList[r] /\ CpuList[q]
      BY <1>7, <2>2
    <2>4. State[r] = "READY" /\ Procedure[r] = NoCall
      BY <1>4, <1>6, <2>2, <2>3, Opened DEF InTurn, Listed
    <2>5. next => r # n
      BY <1>9, <2>2 DEF Procs
    <2> QED BY <1>7, <1>12, <2>3, <2>4, <2>5
  <1>18. Counted'
    <2>1. Marked' = Marked \ {p} /\ p \in Marked /\ Marked \in SUBSET Procs
      BY <1>2, <1>4, <1>7 DEF Marked, Waiting
    <2>2. Cardinality(Marked') = Cardinality(Marked) - 1 /\ Cardinality(Marked) \in Nat
      BY <2>1, SomeProcs
    <2>3. FinishCount \in Nat /\ StartCount \in Nat
      BY DEF TypeOK
    <2> QED BY <1>1, <1>2, <1>3, <1>4, <1>6, <2>2, <2>3, Opened DEF Counted, Where, Checking, Polls
  <1> QED BY <1>14, <1>15, <1>16, <1>17, <1>18 DEF Owners
-----------------------------------------------------------------------------
(* Owners is kept by the steps of StartupThisAP and StartupAllAPs.         *)
LEMMA MainTurn ==
  ASSUME Control, NEW c \in Callers, Active(c),
         pc[c] \in {"Admit", "Scan", "Mark", "Wake", "Publish", "PollThis"}
  PROVE  /\ c = "main" /\ "main" \in Contexts /\ "timer" \in Contexts /\ pc["timer"] = "idle"
         /\ CtlParams /\ CtlEvents
  BY Turn DEF Callers, Contexts, Control

LEMMA GivesUp ==
  ASSUME TypeOK, Control, Control', Owners, pc["timer"] = "idle", pc["main"] \in {"Admit", "Scan"},
         Return("main"), UNCHANGED <<State, Procedure, apc, job, WaitEvent, SingleThread, BSP, AllEvent>>,
         UNCHANGED <<CpuList, StartCount, FinishCount>> \/ ForAll
  PROVE  Owners'
  <1>1. "main" \in Contexts /\ "timer" \in Contexts /\ CtlParams /\ CtlEvents
    BY DEF Contexts, Control
  <1>2. /\ pc'["main"] = "idle" /\ op'["main"] = NoOp /\ pc'["timer"] = "idle"
    BY <1>1, Returns
  <1>3. Id' = NoCall /\ ~ForAll' /\ ~Switching'
    BY <1>2, NoOpIs DEF Id, ForAll, Switching
  <1>4. \A q \in Procs : ~Closing(q) /\ ~Closing(q)'
    BY <1>2 DEF Closing
  <1>5. Pending' => Pending /\ AllEvent' = AllEvent /\ ~Where(Settling)
    BY <1>3 DEF Pending, Where, Settling
  <1>6. UNCHANGED <<CpuList, StartCount, FinishCount>> \/ (pc'["main"] = "idle" /\ ~Pending')
    BY <1>1, <1>2, <1>3 DEF Pending, CtlEvents
  <1> QED BY <1>2, <1>3, <1>4, <1>5, <1>6, Walk

LEMMA OwnersAdmit ==
  ASSUME TypeOK, Control, Control', Owners, NEW c \in Callers, Admit(c)
  PROVE  Owners'
  <1>1. /\ c = "main" /\ pc["main"] = "Admit" /\ pc["timer"] = "idle"
        /\ "main" \in Contexts /\ "timer" \in Contexts /\ CtlParams /\ CtlEvents
    BY MainTurn DEF Admit, At
  <1>2. UNCHANGED <<State, Procedure, apc, job, WaitEvent, SingleThread, BSP, AllEvent,
                    CpuList, StartCount, FinishCount>>
    BY DEF Admit, cpuVars, thisVars, allVars
  <1>3. CASE State[Target] # "IDLE"
    <2>1. Return("main")
      BY <1>1, <1>3 DEF Admit, Target
    <2> QED BY <1>1, <1>2, <2>1, GivesUp
  <1>4. CASE State[Target] = "IDLE"
    <2>1. Accept("main", {Target}, Target)
      BY <1>1, <1>4 DEF Admit, Target
    <2>2. /\ pc'["main"] = "Mark" /\ pc'["timer"] = "idle" /\ cur'["main"] = Target
          /\ Id' # NoCall /\ Target' = Target /\ ForAll' = ForAll /\ Polls' = Polls
      BY <1>1, <2>1, Accepts DEF Target, Id, ForAll, Polls
    <2>3. ~ForAll /\ ~Polls /\ Target \in Procs /\ Target # BSP /\ Id = NoCall /\ ~Switching /\ ~Switching'
      BY <1>1, <2>2 DEF CtlParams, TypeOK, Op, Target, Switching, Accepted, Checking, Id, Polls
    <2>4. \A q \in Procs : ~Closing(q) /\ ~Closing(q)' /\ ~Unmarked(q) /\ ~Unmarked(q)'
      BY <1>1, <2>2, <2>3 DEF Closing, Unmarked
    <2>5. Pending' <=> Pending
      BY <1>2, <2>2, <2>3 DEF Pending
    <2>6. \A q \in Procs : (Listed(q)' <=> Listed(q)) /\ (Outside(q)' <=> Outside(q))
      BY <1>1, <1>2, <2>2, <2>3, <2>5 DEF Listed, Outside, SwitchOwns
    <2>7. \A q \in Procs : ~Serving(q) /\ (Serving(q)' <=> q = Target)
      BY <2>2, <2>3 DEF Serving
    <2>8. ~Listed(Target) /\ WaitEvent[Target] = NoCall /\ ~Outside(Target)
      BY <1>1, <1>4, <2>3, <2>4, Opened DEF Owned, Taken, Outside, SwitchOwns, Switching
    <2>9. ASSUME NEW q \in Procs PROVE Owned(q)'
      BY <1>1, <1>2, <1>4, <2>2, <2>4, <2>6, <2>7, <2>8, Opened DEF Owned
    <2>10. ASSUME NEW q \in Procs, ~Outside(q)' PROVE Works(q)'
      BY <1>2, <2>6, <2>10, Opened DEF Works
    <2>11. Roles'
      BY <1>1, <1>2, <2>2, <2>3, Opened DEF Roles, Switching
    <2>12. ASSUME NEW r \in Procs, NEW q \in Procs PROVE InTurn(r, q)'
      BY <1>2, <2>2, <2>3, <2>4, <2>6, Opened DEF InTurn, Serial, Listed, Pending
    <2>13. Counted'
      <3>1. Marked' = Marked
        BY <1>2, <2>4 DEF Marked, Waiting
      <3> QED BY <1>1, <1>2, <2>2, <2>3, <2>5, <3>1, Opened DEF Counted, Where
    <2> QED BY <2>9, <2>10, <2>11, <2>12, <2>13 DEF Owners
  <1> QED BY <1>3, <1>4

LEMMA OwnersScan ==
  ASSUME TypeOK, Control, Control', Owners, NEW c \in Callers, Scan(c)
  PROVE  Owners'
  <1> DEFINE p == cur["main"]
  <1>1. /\ c = "main" /\ pc["main"] = "Scan" /\ pc["timer"] = "idle"
        /\ "main" \in Contexts /\ "timer" \in Contexts /\ CtlParams /\ CtlEvents
    BY MainTurn DEF Scan, At
  <1>2. UNCHANGED <<State, Procedure, apc, job, WaitEvent, SingleThread, BSP, AllEvent,
                    StartCount, FinishCount>>
    BY DEF Scan, cpuVars, thisVars
  <1>3. ForAll /\ AllEvent = NoCall /\ Id = NoCall /\ ~Polls
    BY <1>1, NoOpIs DEF CtlParams, CtlEvents, Accepted, NoCall
  <1>4. CASE Return("main")
    BY <1>1, <1>2, <1>3, <1>4, GivesUp
  <1>5. CASE Goto("main", "Scan", p + 1) /\ UNCHANGED op
    <2>1. pc'["main"] = "Scan" /\ pc'["timer"] = "idle" /\ cur'["main"] = p + 1
      BY <1>1, <1>5, Moves DEF Goto, TypeOK
    <2>2. /\ p \in Procs
          /\ CpuList'[p] => p # BSP /\ State[p] = "IDLE"
          /\ \A q \in Procs : q # p => CpuList'[q] = CpuList[q]
      BY <1>1, CurIsProc DEF Scan, TypeOK
    <2>3. ~Pending /\ ~Pending'
      BY <1>2, <1>3, <1>5 DEF Pending, Id
    <2>4. \A q \in Procs : ~Closing(q) /\ ~Closing(q)' /\ ~Serving(q) /\ ~Serving(q)' /\ (Outside(q)' <=> Outside(q))
      BY <1>1, <1>2, <1>3, <1>5, <2>1 DEF Closing, Serving, Outside, SwitchOwns, Id
    <2>5. ASSUME NEW q \in Procs PROVE Owned(q)'
      <3>1. q < p + 1 => q < p \/ q = p
        BY <2>2 DEF Procs
      <3> HIDE DEF p
      <3> QED BY <1>1, <1>2, <2>1, <2>2, <2>3, <2>4, <2>5, <3>1, Opened DEF Owned, Listed, p
    <2>6. ASSUME NEW q \in Procs, ~Outside(q)' PROVE Works(q)'
      BY <1>2, <2>4, <2>6, Opened DEF Works
    <2>7. Roles'
      BY <1>1, <1>2, <1>5, <2>1, Opened DEF Roles, Switching
    <2>8. ASSUME NEW r \in Procs, NEW q \in Procs PROVE InTurn(r, q)'
      BY <2>3 DEF InTurn, Listed
    <2>9. Counted'
      BY <1>3, <1>5, <2>1, <2>3 DEF Counted, Polls
    <2> QED BY <2>5, <2>6, <2>7, <2>8, <2>9 DEF Owners
  <1> QED BY <1>1, <1>4, <1>5 DEF Scan

LEMMA OwnersScanned ==
  ASSUME TypeOK, Control, Control', Owners, NEW c \in Callers, Scanned(c)
  PROVE  Owners'
  <1>1. /\ c = "main" /\ pc["main"] = "Scan" /\ pc["timer"] = "idle" /\ cur["main"] = N
        /\ "main" \in Contexts /\ "timer" \in Contexts /\ CtlParams /\ CtlEvents
    BY MainTurn DEF Scanned, At
  <1>2. /\ UNCHANGED <<State, Procedure, apc, job, WaitEvent, SingleThread, BSP, AllEvent, CpuList>>
        /\ StartCount' = 0 /\ FinishCount' = 0
    BY DEF Scanned, cpuVars, thisVars
  <1>3. ForAll /\ AllEvent = NoCall /\ Id = NoCall /\ ~Polls
    BY <1>1, NoOpIs DEF CtlParams, CtlEvents, Accepted, NoCall
  <1>4. CASE Return("main")
    BY <1>1, <1>2, <1>3, <1>4, GivesUp
  <1>5. CASE Accept("main", Waiting(CpuList), 0)
    <2>1. /\ pc'["main"] = "Mark" /\ pc'["timer"] = "idle" /\ cur'["main"] = 0
          /\ Id' # NoCall /\ ForAll' /\ ~Polls'
      BY <1>1, <1>3, <1>5, Accepts DEF Id, ForAll, Polls
    <2>2. \A q \in Procs : Unmarked(q)' /\ ~Serving(q)' /\ ~Closing(q) /\ ~Closing(q)'
                           /\ (Outside(q)' <=> Outside(q))
      BY <1>1, <1>2, <2>1 DEF Unmarked, Serving, Closing, Outside, SwitchOwns, Procs
    <2>3. \A q \in Procs : CpuList[q] => q # BSP /\ State[q] = "IDLE" /\ WaitEvent[q] = NoCall /\ ~Outside(q)
      <3>1. ASSUME NEW q \in Procs, CpuList[q] PROVE q < cur["main"]
        BY <1>1, NAssumption DEF Procs
      <3> QED BY <1>1, <2>2, <3>1, Opened DEF Owned, Taken, Outside, SwitchOwns
    <2>4. ASSUME NEW q \in Procs PROVE Owned(q)'
      BY <1>1, <1>2, <2>1, <2>2, <2>3, Opened DEF Owned, Listed
    <2>5. ASSUME NEW q \in Procs, ~Outside(q)' PROVE Works(q)'
      BY <1>2, <2>2, <2>5, Opened DEF Works
    <2>6. Roles'
      BY <1>1, <1>2, <2>1, Opened DEF Roles, Switching
    <2>7. ASSUME NEW r \in Procs, NEW q \in Procs PROVE InTurn(r, q)'
      BY <2>2 DEF InTurn
    <2>8. Counted'
      <3>1. Marked' = {} /\ Cardinality({}) = 0
        BY <2>2, SomeProcs DEF Marked, Waiting
      <3> QED BY <1>2, <2>1, <3>1 DEF Counted, Where
    <2> QED BY <2>4, <2>5, <2>6, <2>7, <2>8 DEF Owners
  <1> QED BY <1>1, <1>4, <1>5 DEF Scanned

(* Owners is kept by a step that moves the caller on within its accepted   *)
(* call: what may change is told by the clauses that speak of positions.   *)
LEMMA OwnersMark ==
  ASSUME TypeOK, Control, Control', Owners, NEW c \in Callers, Mark(c)
  PROVE  Owners'
  <1> DEFINE p == cur["main"]
  <1>1. /\ c = "main" /\ pc["main"] = "Mark" /\ pc["timer"] = "idle"
        /\ "main" \in Contexts /\ "timer" \in Contexts /\ CtlParams /\ CtlEvents
    BY MainTurn DEF Mark, At
  <1>2. /\ UNCHANGED <<Procedure, apc, job, WaitEvent, SingleThread, BSP, AllEvent, CpuList, FinishCount, op>>
        /\ StartCount' = IF ForAll THEN StartCount + 1 ELSE StartCount
        /\ p \in Procs /\ (ForAll => CpuList[p])
    BY <1>1, CurIsProc DEF Mark, thisVars, ForAll
  <1>3. /\ pc'["main"] = "Wake" /\ pc'["timer"] = "idle" /\ cur'["main"] = p
    BY <1>1, Moves DEF Mark
  <1>4. State'[p] = "READY" /\ \A q \in Procs : q # p => State'[q] = State[q]
    BY <1>1, <1>2 DEF Mark, TypeOK
  <1>5. Id # NoCall /\ ~Polls
    BY <1>1 DEF CtlParams, Accepted
  <1>6. \A q \in Procs : /\ ~Closing(q) /\ ~Closing(q)' /\ (Outside(q)' <=> Outside(q))
                         /\ (Listed(q)' <=> Listed(q)) /\ (Serving(q)' <=> Serving(q))
    BY <1>1, <1>2, <1>3 DEF Closing, Outside, SwitchOwns, Listed, Pending, Serving, Id, ForAll, Target
  <1>7. \A q \in Procs : /\ ForAll => (Unmarked(q) <=> q >= p) /\ (Unmarked(q)' <=> q > p)
                         /\ ~ForAll => ~Unmarked(q) /\ ~Unmarked(q)' /\ (Serving(q) <=> q = p)
    BY <1>1, <1>2, <1>3, <1>5 DEF Unmarked, ForAll, Serving, CtlParams
  <1> HIDE DEF p
  <1>8. \A q \in Procs : /\ q = p => ~Unmarked(q)' /\ (ForAll => Unmarked(q))
                         /\ q # p => (Unmarked(q)' <=> Unmarked(q))
    BY <1>2, <1>7 DEF Procs
  <1>9. /\ State[p] = "IDLE" /\ ~Outside(p) /\ WaitEvent[p] = NoCall
        /\ IF ForAll THEN Listed(p) ELSE ~Listed(p)
    BY <1>1, <1>2, <1>5, <1>6, <1>7, <1>8, Opened DEF Owned, Listed, Pending, Taken
  <1>10. Procedure[p] = NoCall /\ apc[p] \in Quiet
    BY <1>2, <1>9, Opened DEF Works
  <1>11. ASSUME NEW q \in Procs PROVE Owned(q)'
    <2>1. CASE q = p
      BY <1>1, <1>2, <1>3, <1>4, <1>6, <1>8, <1>9, <1>10, <2>1 DEF Owned, Taken, Serving, ForAll, Id, Target
    <2>2. CASE q # p
      BY <1>1, <1>2, <1>3, <1>4, <1>6, <1>7, <1>8, <2>2, Opened DEF Owned, p, Serving, CtlParams
    <2> QED BY <2>1, <2>2
  <1>12. ASSUME NEW q \in Procs, ~Outside(q)' PROVE Works(q)'
    BY <1>2, <1>4, <1>6, <1>10, <1>12, Opened DEF Works, NoCall, FutureBsp
  <1>13. Roles'
    <2>1. BSP # p
      BY <1>9 DEF Outside
    <2> QED BY <1>1, <1>2, <1>3, <1>4, <2>1, Opened DEF Roles, Switching, TypeOK
  <1>14. ASSUME NEW r \in Procs, NEW q \in Procs PROVE InTurn(r, q)'
    BY <1>2, <1>4, <1>6, <1>8, <1>10, Opened DEF InTurn, Serial
  <1>15. Counted'
    <2>1. StartCount \in Nat /\ FinishCount \in Nat /\ Marked \in SUBSET Procs
      BY DEF TypeOK, Marked, Waiting
    <2>2. CASE ForAll
      <3>1. Marked' = Marked \union {p} /\ p \notin Marked
        BY <1>2, <1>8, <2>2 DEF Marked, Waiting
      <3>2. Cardinality(Marked') = Cardinality(Marked) + 1 /\ Cardinality(Marked) \in Nat
        BY <1>2, <2>1, <3>1, SomeProcs
      <3> QED BY <1>1, <1>2, <1>3, <1>5, <2>1, <2>2, <3>2, Opened DEF Counted, Where, Pending, Polls, Id, ForAll
    <2>3. CASE ~ForAll
      <3>1. Marked' = Marked
        BY <1>2, <1>7, <2>3 DEF Marked, Waiting
      <3> QED BY <1>1, <1>2, <1>3, <1>5, <2>3, <3>1, Opened DEF Counted, Where, Pending, Polls, Id, ForAll
    <2> QED BY <2>2, <2>3
  <1> QED BY <1>11, <1>12, <1>13, <1>14, <1>15 DEF Owners

LEMMA OwnersMarkSkip ==
  ASSUME TypeOK, Control, Control', Owners, NEW c \in Callers, MarkSkip(c)
  PROVE  Owners'
  <1>1. /\ c = "main" /\ pc["main"] = "Mark" /\ pc["timer"] = "idle"
        /\ "main" \in Contexts /\ "timer" \in Contexts /\ CtlParams /\ CtlEvents
    BY MainTurn DEF MarkSkip, At
  <1>2. /\ UNCHANGED <<State, Procedure, apc, job, WaitEvent, SingleThread, BSP, AllEvent, CpuList,
                       StartCount, FinishCount, op>>
        /\ ForAll /\ cur["main"] \in Nat
    BY <1>1 DEF MarkSkip, ForAll, cpuVars, thisVars, allVars, TypeOK
  <1>3. /\ pc'["timer"] = "idle"
        /\ \/ cur["main"] < N /\ ~CpuList[cur["main"]] /\ pc'["main"] = "Mark" /\ cur'["main"] = cur["main"] + 1
           \/ cur["main"] = N /\ pc'["main"] = "Publish"
    BY <1>1, Moves DEF MarkSkip, Goto, TypeOK
  <1>4. Id # NoCall /\ ~Polls /\ Pending /\ Pending' /\ ForAll'
    BY <1>1, <1>2 DEF CtlParams, Accepted, Pending, Id, ForAll
  <1>5. \A q \in Procs : /\ ~Closing(q) /\ ~Closing(q)' /\ (Outside(q)' <=> Outside(q))
                         /\ (Listed(q)' <=> Listed(q)) /\ ~Serving(q) /\ ~Serving(q)'
    BY <1>1, <1>2, <1>3, <1>4 DEF Closing, Outside, SwitchOwns, Listed, Pending, Serving
  <1>6. ASSUME NEW q \in Procs, CpuList[q] PROVE Unmarked(q)' <=> Unmarked(q)
    BY <1>1, <1>2, <1>3, <1>4, <1>6, NAssumption DEF Unmarked, Procs
  <1>7. ASSUME NEW q \in Procs PROVE Owned(q)'
    BY <1>1, <1>2, <1>3, <1>5, <1>6, Opened DEF Owned, Listed
  <1>8. ASSUME NEW q \in Procs, ~Outside(q)' PROVE Works(q)'
    BY <1>2, <1>5, <1>8, Opened DEF Works
  <1>9. Roles'
    BY <1>1, <1>2, <1>3, Opened DEF Roles, Switching
  <1>10. ASSUME NEW r \in Procs, NEW q \in Procs PROVE InTurn(r, q)'
    BY <1>2, <1>5, <1>6, Opened DEF InTurn, Serial, Listed
  <1>11. Counted'
    <2>1. Marked' = Marked
      BY <1>2, <1>6 DEF Marked, Waiting
    <2> QED BY <1>1, <1>2, <1>3, <1>4, <2>1, Opened DEF Counted, Where, Polls
  <1> QED BY <1>7, <1>8, <1>9, <1>10, <1>11 DEF Owners

LEMMA OwnersWake ==
  ASSUME TypeOK, Control, Control', Owners, NEW c \in Callers, Wake(c)
  PROVE  Owners'
  <1> DEFINE p == cur["main"]
             held == op["main"].single /\ StartCount > 1
  <1>1. /\ c = "main" /\ pc["main"] = "Wake" /\ pc["timer"] = "idle"
        /\ "main" \in Contexts /\ "timer" \in Contexts /\ CtlParams /\ CtlEvents
    BY MainTurn DEF Wake, At
  <1>2. /\ UNCHANGED <<State, WaitEvent, SingleThread, BSP, AllEvent, CpuList, StartCount, FinishCount, op>>
        /\ p \in Procs
        /\ IF held THEN UNCHANGED <<Procedure, signal, apc, job>> ELSE WakeUpAp(p, Id)
    BY <1>1, CurIsProc DEF Wake, thisVars, allVars, Id
  <1>3. /\ pc'["timer"] = "idle"
        /\ IF ForAll THEN pc'["main"] = "Mark" /\ cur'["main"] = p + 1 ELSE pc'["main"] = "Publish"
    BY <1>1, Moves DEF Wake, Goto, TypeOK, ForAll
  <1>4. /\ Id # NoCall /\ Id # FutureBsp /\ Id' = Id /\ ~Polls /\ ~Polls' /\ ForAll' = ForAll
        /\ ~Switching /\ ~Switching'
    BY <1>1, <1>2, <1>3 DEF CtlParams, Accepted, Id, Polls, ForAll, TypeOK, Op, FutureBsp, Switching
  <1>5. \A q \in Procs : /\ ~Closing(q) /\ ~Closing(q)' /\ (Outside(q)' <=> Outside(q))
                         /\ (Listed(q)' <=> Listed(q)) /\ (Serving(q)' <=> Serving(q))
    BY <1>1, <1>2, <1>3, <1>4 DEF Closing, Outside, SwitchOwns, Listed, Pending, Serving, Target
  <1>6. ASSUME NEW q \in Procs
        PROVE  /\ Unmarked(q)' <=> Unmarked(q)
               /\ q = p => ~Unmarked(q)
               /\ ~ForAll => ~Unmarked(q) /\ (Serving(q) <=> q = p)
    BY <1>1, <1>2, <1>3, <1>4 DEF Unmarked, Procs, Serving, CtlParams
  <1>7. /\ State[p] = "READY" /\ Procedure[p] = NoCall /\ (ForAll => CpuList[p])
        /\ ~Outside(p) /\ Works(p)
    BY <1>1, <1>2, <1>4, <1>6, Opened DEF Owned, Listed, Pending
  <1>8. /\ \A q \in Procs : (q # p \/ held) =>
              Procedure'[q] = Procedure[q] /\ apc'[q] = apc[q] /\ job'[q] = job[q]
        /\ ~held => Procedure'[p] = Id /\ apc'[p] \in {"woken", apc[p]}
    <2>1. CASE held
      BY <1>2, <2>1
    <2>2. CASE ~held
      <3>1. WakeUpAp(p, Id)
        BY <1>2, <2>2
      <3> HIDE DEF p, held
      <3> QED BY <1>2, <2>2, <3>1, WakesUp
    <2> QED BY <2>1, <2>2
  <1>9. held <=> op["main"].single /\ StartCount > 1
    OBVIOUS
  <1> HIDE DEF p, held
  <1>10. ASSUME NEW q \in Procs PROVE Owned(q)'
    BY <1>1, <1>2, <1>3, <1>4, <1>5, <1>6, Opened DEF Owned, Serving
  <1>11. ASSUME NEW q \in Procs, ~Outside(q)' PROVE Works(q)'
    BY <1>2, <1>4, <1>5, <1>7, <1>8, <1>11, Opened DEF Works, Quiet
  <1>12. Roles'
    <2>1. BSP # p /\ BSP \in Procs
      BY <1>7 DEF Outside, TypeOK
    <2> QED BY <1>1, <1>2, <1>3, <1>4, <1>8, <2>1, Opened DEF Roles, Switching
  <1>13. ASSUME NEW r \in Procs, NEW q \in Procs PROVE InTurn(r, q)'
    <2>1. SUFFICES ASSUME Serial, Listed(r), Listed(q), q < r, ~Unmarked(r)
                   PROVE  State'[r] = "READY" /\ Procedure'[r] = NoCall
      BY <1>2, <1>5, <1>6 DEF InTurn, Serial
    <2>2. State[r] = "READY" /\ Procedure[r] = NoCall
      BY <2>1, Opened DEF InTurn
    <2>3. CASE r # p \/ held
      BY <1>2, <1>8, <2>2, <2>3
    <2>4. CASE r = p /\ ~held
      <3>1. ForAll /\ AllEvent = NoCall /\ op["main"].single /\ Pending
        BY <1>1, <1>2, <1>4, <1>6, <2>1, <2>4, Opened DEF Serial, CtlEvents, Owned, Pending
      <3>2. ~Unmarked(q)
        BY <1>1, <2>1, <2>4 DEF Unmarked, Procs, p
      <3>3. p \in Marked /\ q \in Marked /\ p # q /\ Marked \in SUBSET Procs
        BY <1>2, <2>1, <2>4, <3>2 DEF Marked, Waiting, Listed, Procs
      <3>4. StartCount = Cardinality(Marked)
        BY <1>1, <3>1, SomeProcs, Opened DEF Counted, Where, Marked, Waiting
      <3>5. Cardinality(Marked) > 1
        <4> DEFINE M == Marked \ {p}
        <4>1. M \in SUBSET Procs /\ M # {}
          BY <3>3
        <4>2. Cardinality(Marked) \in Nat /\ Cardinality(M) = Cardinality(Marked) - 1
          BY <3>3, SomeProcs
        <4> HIDE DEF M
        <4>3. Cardinality(M) \in Nat /\ Cardinality(M) # 0
          BY <4>1, SomeProcs
        <4> QED BY <4>2, <4>3
      <3> QED BY <1>9, <2>4, <3>1, <3>4, <3>5
    <2> QED BY <2>3, <2>4
  <1>14. Counted'
    <2>1. Marked' = Marked
      BY <1>2, <1>6 DEF Marked, Waiting
    <2> QED BY <1>1, <1>2, <1>3, <1>4, <2>1, Opened DEF Counted, Where, Pending
  <1> QED BY <1>10, <1>11, <1>12, <1>13, <1>14 DEF Owners

LEMMA OwnersPublishThis ==
  ASSUME TypeOK, Control, Control', Owners, NEW c \in Callers, PublishThis(c)
  PROVE  Owners'
  <1>1. /\ c = "main" /\ pc["main"] = "Publish" /\ pc["timer"] = "idle"
        /\ "main" \in Contexts /\ "timer" \in Contexts /\ CtlParams /\ CtlEvents
    BY MainTurn DEF PublishThis, At
  <1>2. /\ UNCHANGED <<State, Procedure, apc, job, SingleThread, BSP, AllEvent, CpuList,
                       StartCount, FinishCount>>
        /\ ~ForAll /\ Target \in Procs
        /\ WaitEvent' = [WaitEvent EXCEPT ![Target] = EventOf(op["main"])]
    BY <1>1 DEF PublishThis, ForAll, cpuVars, allVars, Target, TypeOK, Op
  <1>3. Id # NoCall /\ ~Polls /\ (\A q \in Procs : Serving(q) <=> q = Target)
    BY <1>1, <1>2 DEF CtlParams, Accepted, Serving
  <1>4. /\ ~Outside(Target) /\ ~Listed(Target) /\ WaitEvent[Target] = NoCall /\ State[Target] \in Taken
    BY <1>1, <1>2, <1>3, Opened DEF Owned
  <1>5. \A q \in Procs : q # Target => WaitEvent'[q] = WaitEvent[q]
    BY <1>2 DEF TypeOK
  <1>6. /\ pc'["timer"] = "idle" /\ ~Switching' /\ ~ForAll'
        /\ IF op["main"].wait
             THEN pc'["main"] = "idle" /\ Id' = NoCall /\ WaitEvent'[Target] = Id
             ELSE pc'["main"] = "PollThis" /\ op' = op /\ WaitEvent'[Target] = NoCall
    <2>1. CASE op["main"].wait
      <3>1. Return("main") /\ EventOf(op["main"]) = Id
        BY <1>1, <2>1 DEF PublishThis, EventOf, Id
      <3>2. WaitEvent'[Target] = Id
        BY <1>2, <3>1 DEF TypeOK
      <3> QED BY <1>1, <2>1, <3>1, <3>2, Returns, NoOpIs DEF Id, ForAll, Switching
    <2>2. CASE ~op["main"].wait
      <3>1. Goto("main", "PollThis", 0) /\ op' = op /\ EventOf(op["main"]) = NoCall
        BY <1>1, <2>2 DEF PublishThis, EventOf
      <3>2. WaitEvent'[Target] = NoCall
        BY <1>2, <3>1 DEF TypeOK
      <3> QED BY <1>1, <1>2, <2>2, <3>1, <3>2, Moves DEF ForAll, Switching
    <2> QED BY <2>1, <2>2
  <1>7. \A q \in Procs : /\ ~Closing(q) /\ ~Closing(q)' /\ (Outside(q)' <=> Outside(q))
                         /\ (Listed(q)' <=> Listed(q)) /\ ~Unmarked(q) /\ ~Unmarked(q)'
    BY <1>1, <1>2, <1>6 DEF Closing, Outside, SwitchOwns, Switching, Listed, Pending, Unmarked
  <1>8. ASSUME NEW q \in Procs PROVE Owned(q)'
    <2>1. CASE q = Target
      BY <1>1, <1>2, <1>3, <1>4, <1>6, <1>7, <2>1 DEF Owned, Serving
    <2>2. CASE q # Target
      <3>1. Serving(q)' => FALSE
        BY <1>6, <2>2 DEF Serving, Id, Target
      <3> QED BY <1>1, <1>2, <1>5, <1>6, <1>7, <2>2, <3>1, Opened DEF Owned
    <2> QED BY <2>1, <2>2
  <1>9. ASSUME NEW q \in Procs, ~Outside(q)' PROVE Works(q)'
    BY <1>2, <1>7, <1>9, Opened DEF Works
  <1>10. Roles'
    BY <1>1, <1>2, <1>6, Opened DEF Roles, Switching
  <1>11. ASSUME NEW r \in Procs, NEW q \in Procs PROVE InTurn(r, q)'
    BY <1>2, <1>6, <1>7, Opened DEF InTurn, Serial, Listed, Pending
  <1>12. Counted'
    <2>1. Marked' = Marked
      BY <1>2, <1>7 DEF Marked, Waiting
    <2>2. Polls' => FALSE
      BY <1>3, <1>6, NoOpIs DEF Polls, Control, CtlParams
    <2> QED BY <1>1, <1>2, <1>3, <1>6, <2>1, <2>2, Opened DEF Counted, Where, Pending
  <1> QED BY <1>8, <1>9, <1>10, <1>11, <1>12 DEF Owners

LEMMA OwnersPublishAll ==
  ASSUME TypeOK, Control, Control', Owners, NEW c \in Callers, PublishAll(c)
  PROVE  Owners'
  <1>1. /\ c = "main" /\ pc["main"] = "Publish" /\ pc["timer"] = "idle"
        /\ "main" \in Contexts /\ "timer" \in Contexts /\ CtlParams /\ CtlEvents
    BY MainTurn DEF PublishAll, At
  <1>2. /\ UNCHANGED <<State, Procedure, apc, job, WaitEvent, BSP, CpuList, StartCount, FinishCount>>
        /\ ForAll /\ SingleThread' = op["main"].single /\ AllEvent' = EventOf(op["main"])
    BY <1>1 DEF PublishAll, ForAll, cpuVars, thisVars
  <1>3. Id # NoCall /\ ~Polls /\ AllEvent = NoCall /\ Pending
    BY <1>1, <1>2 DEF CtlParams, CtlEvents, Accepted, Pending
  <1>4. /\ pc'["timer"] = "idle" /\ ~Switching' /\ Pending'
        /\ IF op["main"].wait
             THEN pc'["main"] = "idle" /\ Id' = NoCall /\ AllEvent' = Id
             ELSE /\ pc'["main"] = "AllAps" /\ AllEvent' = NoCall
                  /\ op'["main"].single = op["main"].single /\ ForAll'
    <2>1. CASE op["main"].wait
      <3>1. Return("main") /\ AllEvent' = Id
        BY <1>1, <1>2, <2>1 DEF PublishAll, EventOf, Id
      <3> QED BY <1>1, <1>3, <2>1, <3>1, Returns, NoOpIs DEF Id, ForAll, Switching, Pending
    <2>2. CASE ~op["main"].wait
      <3>1. Goto("main", "AllAps", 0) /\ op' = [op EXCEPT !["main"].poll = TRUE] /\ AllEvent' = NoCall
        BY <1>1, <1>2, <2>2 DEF PublishAll, EventOf
      <3>2. op'["main"] = [op["main"] EXCEPT !.poll = TRUE]
        BY <1>1, <3>1 DEF TypeOK
      <3>3. /\ op'["main"].single = op["main"].single /\ op'["main"].all = op["main"].all
            /\ op'["main"].id = op["main"].id
        BY <1>1, <3>2 DEF TypeOK, Op
      <3> QED BY <1>1, <1>2, <1>3, <2>2, <3>1, <3>3, Moves DEF ForAll, Switching, Pending, Id
    <2> QED BY <2>1, <2>2
  <1>5. \A q \in Procs : /\ ~Closing(q) /\ ~Closing(q)' /\ (Outside(q)' <=> Outside(q))
                         /\ (Listed(q)' <=> Listed(q)) /\ ~Unmarked(q) /\ ~Unmarked(q)'
                         /\ ~Serving(q) /\ ~Serving(q)'
    BY <1>1, <1>2, <1>3, <1>4 DEF Closing, Outside, SwitchOwns, Switching, Listed, Unmarked, Serving
  <1>6. Serial' <=> Serial
    BY <1>2, <1>3, <1>4 DEF Serial
  <1>7. ASSUME NEW q \in Procs PROVE Owned(q)'
    BY <1>1, <1>2, <1>4, <1>5, Opened DEF Owned
  <1>8. ASSUME NEW q \in Procs, ~Outside(q)' PROVE Works(q)'
    BY <1>2, <1>5, <1>8, Opened DEF Works
  <1>9. Roles'
    BY <1>1, <1>2, <1>4, Opened DEF Roles, Switching
  <1>10. ASSUME NEW r \in Procs, NEW q \in Procs PROVE InTurn(r, q)'
    BY <1>2, <1>5, <1>6, Opened DEF InTurn
  <1>11. Counted'
    <2>1. Marked' = Marked
      BY <1>2, <1>5 DEF Marked, Waiting
    <2>2. Polls' => SingleThread' = op'["main"].single
      BY <1>2, <1>4 DEF Polls, Control, CtlParams
    <2> QED BY <1>1, <1>2, <1>3, <1>4, <2>1, <2>2, Opened DEF Counted, Where
  <1> QED BY <1>7, <1>8, <1>9, <1>10, <1>11 DEF Owners

LEMMA OwnersPollThis ==
  ASSUME TypeOK, Control, Control', Owners, NEW c \in Callers, PollThis(c)
  PROVE  Owners'
  <1> DEFINE p == op["main"].target
  <1>1. /\ c = "main" /\ pc["main"] = "PollThis" /\ pc["timer"] = "idle"
        /\ "main" \in Contexts /\ "timer" \in Contexts /\ CtlParams /\ CtlEvents
    BY MainTurn DEF PollThis, At
  <1>2. /\ UNCHANGED <<WaitEvent, SingleThread, BSP, AllEvent, CpuList, StartCount, FinishCount>>
        /\ Return("main") /\ p \in Procs /\ p = Target
    BY <1>1 DEF PollThis, thisVars, allVars, Target, TypeOK, Op
  <1>3. Id # NoCall /\ ~Polls /\ ~ForAll /\ Serving(p)
    BY <1>1, <1>2 DEF CtlParams, Accepted, Serving
  <1>4. ~Outside(p) /\ ~Listed(p) /\ WaitEvent[p] = NoCall /\ State[p] \in Taken /\ Works(p)
    BY <1>1, <1>2, <1>3, Opened DEF Owned
  <1>5. /\ pc'["main"] = "idle" /\ pc'["timer"] = "idle" /\ ~Switching' /\ Id' = NoCall /\ ~ForAll'
        /\ ~Polls'
    BY <1>1, <1>2, Returns, NoOpIs DEF Id, ForAll, Polls, Switching
  <1>6. /\ State'[p] = "IDLE" /\ Procedure'[p] = NoCall /\ apc'[p] \in Quiet
        /\ \A q \in Procs : q # p => /\ State'[q] = State[q] /\ Procedure'[q] = Procedure[q]
                                     /\ apc'[q] = apc[q] /\ job'[q] = job[q]
    <2>1. CASE ThisFinished(p, op["main"].id)
      <3>1. State' = [State EXCEPT ![p] = "IDLE"] /\ UNCHANGED <<Procedure, apc, job>>
            /\ State[p] = "FINISHED"
        BY <2>1 DEF ThisFinished
      <3> QED BY <1>2, <1>4, <3>1 DEF Works, TypeOK
    <2>2. CASE ThisExpired(p, op["main"].id)
      <3>1. ResetProcessorToIdleState(p)
        BY <2>2 DEF ThisExpired
      <3> QED BY <1>2, <3>1, ResetAp
    <2> QED BY <1>1, <2>1, <2>2 DEF PollThis
  <1>7. \A q \in Procs : /\ ~Closing(q) /\ ~Closing(q)' /\ (Outside(q)' <=> Outside(q))
                         /\ (Listed(q)' <=> Listed(q)) /\ ~Unmarked(q) /\ ~Unmarked(q)'
                         /\ ~Serving(q)'
    BY <1>1, <1>2, <1>3, <1>5 DEF Closing, Outside, SwitchOwns, Switching, Listed, Pending, Unmarked, Serving
  <1> HIDE DEF p
  <1>8. ASSUME NEW q \in Procs PROVE Owned(q)'
    BY <1>1, <1>2, <1>4, <1>5, <1>6, <1>7, Opened DEF Owned
  <1>9. ASSUME NEW q \in Procs, ~Outside(q)' PROVE Works(q)'
    BY <1>6, <1>7, <1>9, Opened DEF Works
  <1>10. Roles'
    <2>1. BSP # p /\ BSP \in Procs
      BY <1>4 DEF Outside, TypeOK
    <2> QED BY <1>1, <1>2, <1>5, <1>6, <2>1, Opened DEF Roles, Switching
  <1>11. ASSUME NEW r \in Procs, NEW q \in Procs PROVE InTurn(r, q)'
    BY <1>2, <1>4, <1>5, <1>6, <1>7, Opened DEF InTurn, Serial, Listed, Pending
  <1>12. Counted'
    <2>1. Marked' = Marked
      BY <1>2, <1>7 DEF Marked, Waiting
    <2> QED BY <1>1, <1>2, <1>3, <1>5, <2>1, Opened DEF Counted, Where, Pending
  <1> QED BY <1>8, <1>9, <1>10, <1>11, <1>12 DEF Owners
-----------------------------------------------------------------------------
(* Owners is kept by the APs and by the other calls.                       *)
LEMMA OwnersAp ==
  ASSUME TypeOK, Control, Owners, NEW p \in Procs, Ap(p)
  PROVE  Owners'
  <1>0. UNCHANGED <<pc, cur, op, WaitEvent, CpuList, StartCount, FinishCount, SingleThread, AllProc,
                    AllEvent, BSP>>
    BY Elsewhere DEF ctxVars
  <1>1. \A q \in Procs : /\ Outside(q)' <=> Outside(q)
                         /\ Listed(q)' <=> Listed(q)
                         /\ Serving(q)' <=> Serving(q)
                         /\ Unmarked(q)' <=> Unmarked(q)
                         /\ Closing(q)' <=> Closing(q)
    BY <1>0 DEF Outside, SwitchOwns, Listed, Pending, Serving, Unmarked, Closing, Id, ForAll, Target
  <1>2. \A q \in Procs : q # p => /\ State'[q] = State[q] /\ Procedure'[q] = Procedure[q]
                                  /\ apc'[q] = apc[q] /\ job'[q] = job[q]
    BY DEF Ap, ApBreak, ApNothing, ApEnter, ApReturn, ApClear, ApFinish, ApAck, ApStep, TypeOK
  <1>3. \/ /\ apc[p] = "parked" /\ apc'[p] = "woken" /\ Manner = "Run"
           /\ UNCHANGED <<State, Procedure, job>>
        \/ /\ apc[p] = "woken" /\ apc'[p] = "parked" /\ Procedure[p] = NoCall
           /\ UNCHANGED <<State, Procedure, job>>
        \/ /\ apc[p] = "woken" /\ apc'[p] = "running" /\ Procedure[p] # NoCall
           /\ job'[p] = Procedure[p] /\ State'[p] = "BUSY" /\ UNCHANGED Procedure
        \/ /\ apc[p] = "running" /\ apc'[p] = "returned" /\ job[p] \in Calls
           /\ UNCHANGED <<State, Procedure, job>>
        \/ /\ apc[p] = "returned" /\ apc'[p] = "cleared" /\ Procedure'[p] = NoCall
           /\ UNCHANGED State
        \/ /\ apc[p] = "cleared" /\ apc'[p] = "finished" /\ State'[p] = "FINISHED"
           /\ UNCHANGED Procedure
        \/ /\ apc[p] = "finished" /\ apc'[p] = "parked" /\ UNCHANGED <<State, Procedure, job>>
    BY DEF Ap, ApBreak, ApNothing, ApEnter, ApReturn, ApClear, ApFinish, ApAck, ApStep, TypeOK
  <1>4. Procedure[p] \in {NoCall, FutureBsp} \union Calls /\ State[p] \in CpuState
    BY CallsAssumption DEF TypeOK, Calls, NoCall, FutureBsp
  <1>5. CASE ~Outside(p)
    <2>1. Works(p)
      BY <1>5, Opened
    <2>2. /\ Works(p)'
          /\ State[p] \in Taken <=> State'[p] \in Taken
          /\ State[p] = "IDLE" <=> State'[p] = "IDLE"
          /\ State[p] = "READY" /\ Procedure[p] = NoCall => State'[p] = "READY" /\ Procedure'[p] = NoCall
      BY <1>3, <1>4, <2>1 DEF Works, Quiet, Taken, NoCall, FutureBsp, CpuState
    <2>3. ASSUME NEW q \in Procs PROVE Owned(q)'
      BY <1>0, <1>1, <1>2, <2>2, Opened DEF Owned, ForAll
    <2>4. ASSUME NEW q \in Procs, ~Outside(q)' PROVE Works(q)'
      BY <1>1, <1>2, <2>2, <2>4, Opened DEF Works
    <2>5. Roles'
      <3>1. BSP # p /\ BSP \in Procs /\ (Switching => Target # p /\ Target \in Procs)
        BY <1>5 DEF Outside, SwitchOwns, Switching, Target, TypeOK, Op, Contexts
      <3> QED BY <1>0, <1>2, <3>1, Opened DEF Roles, Switching, Target
    <2>6. ASSUME NEW r \in Procs, NEW q \in Procs PROVE InTurn(r, q)'
      BY <1>0, <1>1, <1>2, <2>2, Opened DEF InTurn, Serial
    <2>7. Counted'
      BY <1>0 , <1>1, Opened DEF Counted, Where, Marked, Waiting, Pending, Polls, Id, ForAll, Unmarked
    <2> QED BY <2>3, <2>4, <2>5, <2>6, <2>7 DEF Owners
  <1>6. CASE Outside(p)
    <2>1. ASSUME NEW q \in Procs PROVE Owned(q)'
      <3>1. CASE q # p
        BY <1>0, <1>1, <1>2, <3>1, Opened DEF Owned, ForAll
      <3>2. CASE q = p
        <4>1. ~Listed(q) /\ WaitEvent[q] = NoCall /\ ~Serving(q)
          BY <1>6, <3>2, Opened DEF Owned
        <4>2. pc["main"] = "Wake" => p # cur["main"]
          BY <3>2, <4>1, Opened DEF Owned, Listed, Pending, Serving, CtlParams, Accepted
        <4>3. ~(pc["main"] = "Scan" /\ p < cur["main"] /\ CpuList[p])
          BY <1>6, Opened DEF Owned, Outside, SwitchOwns
        <4> QED BY <1>0, <1>1, <3>2, <4>1, <4>2, <4>3 DEF Owned
      <3> QED BY <3>1, <3>2
    <2>2. ASSUME NEW q \in Procs, ~Outside(q)' PROVE Works(q)'
      BY <1>1, <1>2, <1>6, <2>2, Opened DEF Works
    <2>3. Roles'
      <3>1. CASE p = BSP
        <4>1. Switching => Target \in Procs /\ Target # p
          BY <3>1, Opened DEF Roles, Switching, Target, TypeOK, Op, Contexts
        <4>2. pc["main"] = "SwitchWait" /\ Manner = "Hlt"
          BY <1>3, <3>1, Opened DEF Roles, Switching
        <4>3. /\ Procedure'[p] \notin Calls
              /\ \/ apc'[p] = "cleared" /\ State'[p] # "FINISHED" /\ Procedure'[p] = NoCall
                 \/ apc'[p] \in {"finished", "parked"} /\ State'[p] = "FINISHED" /\ Procedure'[p] = NoCall
          BY <1>3, <3>1, <4>2, Opened DEF Roles, NoCall, Calls
        <4> QED BY <1>0, <1>2, <3>1, <4>1, <4>2, <4>3, Opened DEF Roles, Switching, Target
      <3>2. CASE Switching /\ p = Target
        <4>1. BSP # p /\ BSP \in Procs
          BY <3>2, Opened DEF Roles, TypeOK
        <4>2. pc["main"] = "Exchange"
          BY <1>3, <3>2, Opened DEF Roles, Switching
        <4>3. Procedure'[p] = FutureBsp /\ apc'[p] = "running" /\ State'[p] = "BUSY" /\ job'[p] = FutureBsp
          BY <1>3, <3>2, <4>2, Opened DEF Roles, FutureBsp, NoCall, Calls
        <4> QED BY <1>0, <1>2, <3>2, <4>1, <4>2, <4>3, Opened DEF Roles, Switching, Target
      <3> QED BY <1>6, <3>1, <3>2 DEF Outside, SwitchOwns, Switching, Target
    <2>4. ASSUME NEW r \in Procs, NEW q \in Procs PROVE InTurn(r, q)'
      <3>1. ~Listed(p)
        BY <1>6, Opened DEF Owned
      <3> QED BY <1>0, <1>1, <1>2, <3>1, Opened DEF InTurn, Serial
    <2>5. Counted'
      BY <1>0, <1>1, Opened DEF Counted, Where, Marked, Waiting, Pending, Polls, Id, ForAll, Unmarked
    <2> QED BY <2>1, <2>2, <2>3, <2>4, <2>5 DEF Owners
  <1> QED BY <1>5, <1>6

LEMMA OwnersCallers ==
  ASSUME TypeOK, Control, Control', Owners, Careful
  PROVE  /\ \A c \in Callers, kind \in CallKinds, p \in Procs : StartCall(c, kind, p) => Owners'
         /\ CheckApsStatus => Owners'
         /\ \A p \in Procs : Elapse(p) \/ ElapseAll => Owners'
         /\ UNCHANGED vars => Owners'
  <1>0. /\ "main" \in Contexts /\ "timer" \in Contexts /\ CtlParams /\ CtlParams' /\ Suppressed
        /\ pc \in [Contexts -> Phase] /\ op \in [Contexts -> Op]
    BY DEF Contexts, Control, TypeOK
  <1>1. ASSUME NEW c \in Callers, NEW kind \in CallKinds, NEW p \in Procs, StartCall(c, kind, p)
        PROVE  Owners'
    <2>1. c = "main" /\ pc["main"] = "idle" /\ pc["timer"] = "idle" /\ Id = NoCall /\ ~ForAll
      BY <1>0, <1>1, NoOpIs DEF StartCall, MayCall, Careful, At, Active, Suppressed, CtlParams, Id, ForAll, NoCall
    <2>2. kind \in Kinds
      BY KindsAssumption
    <2>3. Id' = NoCall
      BY <1>0, <1>1, <2>1, <2>2, NoOpIs DEF StartCall, Op, Kinds, Id
    <2>4. /\ pc'["main"] = "Update" /\ pc'["timer"] = "idle"
          /\ UNCHANGED <<State, Procedure, apc, job, WaitEvent, SingleThread, BSP, AllEvent,
                         CpuList, StartCount, FinishCount>>
      BY <1>0, <1>1, <2>1 DEF StartCall, cpuVars, allVars, thisVars
    <2>5. \A q \in Procs : ~Closing(q) /\ ~Closing(q)'
      BY <2>1, <2>4 DEF Closing
    <2>6. Pending' => Pending /\ ~Where(Settling)
      BY <2>1, <2>3, <2>4 DEF Pending, Where, Settling
    <2> QED BY <2>1, <2>3, <2>4, <2>5, <2>6, Walk DEF Switching, Checking
  <1>2. ASSUME UNCHANGED <<State, Procedure, apc, job, WaitEvent, SingleThread, BSP, AllEvent,
                           CpuList, StartCount, FinishCount, op>>,
               pc'["main"] = pc["main"], cur'["main"] = cur["main"],
               \/ pc'["timer"] = pc["timer"] /\ cur'["timer"] = cur["timer"]
               \/ pc["timer"] = "idle" /\ pc'["timer"] = "Update"
        PROVE  Owners'
    <2>1. \A q \in Procs : Closing(q)' <=> Closing(q)
      BY <1>2 DEF Closing
    <2>2. Pending' => Pending /\ (Where(Settling) => Where(Settling)')
      BY <1>2 DEF Pending, Id, ForAll, Where, Settling
    <2> QED BY <1>2, <2>1, <2>2, Walk
  <1>3. CASE CheckApsStatus
    <2>1. UNCHANGED <<State, Procedure, apc, job, WaitEvent, SingleThread, BSP, AllEvent,
                      CpuList, StartCount, FinishCount, op>>
      BY <1>3 DEF CheckApsStatus, cpuVars, thisVars, allVars
    <2>2. CASE UNCHANGED <<pc, cur>>
      BY <1>2, <2>1, <2>2
    <2>3. CASE Goto("timer", "Update", 0)
      <3>1. pc'["timer"] = "Update" /\ pc'["main"] = pc["main"] /\ cur'["main"] = cur["main"]
        BY <1>0, <2>3, Moves
      <3>2. pc["timer"] = "idle"
        BY <1>3 DEF CheckApsStatus
      <3> QED BY <1>2, <2>1, <3>1, <3>2
    <2> QED BY <1>3, <2>2, <2>3 DEF CheckApsStatus
  <1>4. ASSUME NEW p \in Procs, Elapse(p) \/ ElapseAll PROVE Owners'
    <2>1. UNCHANGED <<State, Procedure, apc, job, WaitEvent, SingleThread, BSP, AllEvent,
                      CpuList, StartCount, FinishCount, op, pc, cur>>
      BY <1>4 DEF Elapse, ElapseAll, cpuVars, thisVars, allVars, ctxVars
    <2> QED BY <1>2, <2>1
  <1>5. CASE UNCHANGED vars
    BY <1>2, <1>5 DEF vars, cpuVars, thisVars, allVars, ctxVars
  <1> QED BY <1>1, <1>3, <1>4, <1>5

LEMMA OwnersEnable ==
  ASSUME TypeOK, Control, Owners, Careful, NEW p \in Procs, NEW b \in BOOLEAN, EnableDisableAP(p, b)
  PROVE  Owners'
  <1>0. UNCHANGED <<pc, cur, op, WaitEvent, CpuList, StartCount, FinishCount, SingleThread, AllProc,
                    AllEvent, BSP>>
    BY Elsewhere DEF ctxVars
  <1>1. \A q \in Procs : /\ Outside(q)' <=> Outside(q)
                         /\ Listed(q)' <=> Listed(q)
                         /\ Serving(q)' <=> Serving(q)
                         /\ Unmarked(q)' <=> Unmarked(q)
                         /\ Closing(q)' <=> Closing(q)
    BY <1>0 DEF Outside, SwitchOwns, Listed, Pending, Serving, Unmarked, Closing, Id, ForAll, Target
  <1>2. /\ pc["main"] = "idle" /\ pc["timer"] = "idle" /\ p # BSP
        /\ State[p] \in {"IDLE", "DISABLED"} /\ State'[p] \in {"IDLE", "DISABLED"}
        /\ \A q \in Procs : q # p => State'[q] = State[q]
        /\ UNCHANGED <<Procedure, apc, job>>
    BY DEF EnableDisableAP, At, Active, Careful, TypeOK
  <1>3. \A q \in Procs : ~Unmarked(q) /\ ~Closing(q) /\ ~Serving(q)
    BY <1>2, Opened, NoOpIs DEF Unmarked, Closing, Serving, CtlParams, Id
  <1>4. ~Listed(p) /\ WaitEvent[p] = NoCall
    BY <1>2, <1>3, Opened DEF Owned, Taken
  <1>5. ASSUME NEW q \in Procs PROVE Owned(q)'
    BY <1>0, <1>1, <1>2, <1>3, <1>4, Opened DEF Owned
  <1>6. ASSUME NEW q \in Procs, ~Outside(q)' PROVE Works(q)'
    BY <1>1, <1>2, <1>6, Opened DEF Works
  <1>7. Roles'
    <2>1. BSP \in Procs
      BY DEF TypeOK
    <2> QED BY <1>0, <1>2, <2>1, Opened DEF Roles, Switching
  <1>8. ASSUME NEW r \in Procs, NEW q \in Procs PROVE InTurn(r, q)'
    BY <1>0, <1>1, <1>2, <1>4, Opened DEF InTurn, Serial
  <1>9. Counted'
    BY <1>0, <1>1, Opened DEF Counted, Where, Marked, Waiting, Pending, Polls, Id, ForAll, Unmarked
  <1> QED BY <1>5, <1>6, <1>7, <1>8, <1>9 DEF Owners

LEMMA OwnersSwitch ==
  ASSUME TypeOK, Control, Control', Owners, NEW p \in Procs, NEW b \in BOOLEAN, SwitchBSP(p, b)
  PROVE  Owners'
  <1>0. "main" \in Contexts /\ "timer" \in Contexts /\ op \in [Contexts -> Op]
    BY DEF Contexts, TypeOK
  <1>1. /\ pc["main"] = "idle" /\ pc["timer"] = "idle" /\ p # BSP /\ State[p] = "IDLE" /\ Manner = "Hlt"
        /\ UNCHANGED <<State, WaitEvent, CpuList, StartCount, FinishCount, SingleThread, AllEvent, BSP>>
    BY SwitchAssumption DEF SwitchBSP, At, Active, thisVars, allVars
  <1>2. /\ pc'["main"] = "Exchange" /\ pc'["timer"] = "idle"
        /\ Target' = p /\ ~ForAll' /\ Id' = NoCall /\ ~Polls'
    BY <1>0, <1>1, NoOpIs, Moves DEF SwitchBSP, Target, ForAll, Id, Polls, Op
  <1>3. /\ Procedure'[p] = FutureBsp /\ apc'[p] = "woken"
        /\ \A q \in Procs : q # p => /\ Procedure'[q] = Procedure[q]
                                     /\ apc'[q] = apc[q] /\ job'[q] = job[q]
    BY <1>1 DEF SwitchBSP, WakeUpAp, TypeOK
  <1>4. Id = NoCall /\ ~ForAll /\ (Pending' <=> Pending)
    BY <1>1, <1>2, Opened, NoOpIs DEF CtlParams, Id, ForAll, Pending
  <1>5. \A q \in Procs : /\ ~Unmarked(q) /\ ~Unmarked(q)' /\ ~Closing(q) /\ ~Closing(q)'
                         /\ ~Serving(q) /\ ~Serving(q)'
                         /\ Listed(q)' <=> Listed(q)
                         /\ Outside(q)' <=> Outside(q) \/ q = p
    BY <1>1, <1>2, <1>4 DEF Unmarked, Closing, Serving, Listed, Outside, SwitchOwns, Target
  <1>6. ~Listed(p) /\ WaitEvent[p] = NoCall
    BY <1>1, <1>5, Opened DEF Owned, Taken
  <1>7. ASSUME NEW q \in Procs PROVE Owned(q)'
    BY <1>1, <1>2, <1>5, <1>6, Opened DEF Owned
  <1>8. ASSUME NEW q \in Procs, ~Outside(q)' PROVE Works(q)'
    BY <1>1, <1>3, <1>5, <1>8, Opened DEF Works
  <1>9. Roles'
    <2>1. BSP \in Procs
      BY DEF TypeOK
    <2> QED BY <1>1, <1>2, <1>3, <2>1, Opened DEF Roles, Switching
  <1>10. ASSUME NEW r \in Procs, NEW q \in Procs PROVE InTurn(r, q)'
    BY <1>1, <1>2, <1>3, <1>4, <1>5, <1>6, Opened DEF InTurn, Serial, Listed, Pending
  <1>11. Counted'
    <2>1. Marked' = Marked
      BY <1>1, <1>5 DEF Marked, Waiting
    <2> QED BY <1>1, <1>2, <1>4, <2>1, Opened DEF Counted, Where
  <1> QED BY <1>7, <1>8, <1>9, <1>10, <1>11 DEF Owners

LEMMA OwnersExchange ==
  ASSUME TypeOK, Control, Control', Owners, Exchange
  PROVE  Owners'
  <1>0. "main" \in Contexts /\ "timer" \in Contexts /\ op \in [Contexts -> Op] /\ Target \in Procs /\ BSP \in Procs
    BY DEF Contexts, TypeOK, Target, Op
  <1>1. /\ pc["main"] = "Exchange" /\ pc["timer"] = "idle"
        /\ UNCHANGED <<State, Procedure, job, WaitEvent, CpuList, StartCount, FinishCount, SingleThread, AllEvent, BSP, op>>
        /\ apc[Target] = "running" /\ apc' = [apc EXCEPT ![Target] = "bsp", ![BSP] = "returned"]
    BY DEF Exchange, At, Active, thisVars, allVars, Target
  <1>2. pc'["main"] = "SwitchWait" /\ pc'["timer"] = "idle"
    BY <1>0, <1>1, Moves DEF Exchange
  <1>3. Target # BSP /\ apc'[Target] = "bsp" /\ apc'[BSP] = "returned"
        /\ \A q \in Procs : q # Target /\ q # BSP => apc'[q] = apc[q]
    BY <1>0, <1>1, Opened DEF Roles, Switching, TypeOK
  <1>4. \A q \in Procs : /\ ~Unmarked(q) /\ ~Unmarked(q)' /\ ~Closing(q) /\ ~Closing(q)'
                         /\ Serving(q)' <=> Serving(q)
                         /\ Listed(q)' <=> Listed(q)
                         /\ Outside(q)' <=> Outside(q)
                         /\ Outside(q) <=> q \in {BSP, Target}
    BY <1>1, <1>2 DEF Unmarked, Closing, Serving, Listed, Pending, Outside, SwitchOwns, Target, Id, ForAll
  <1>5. ASSUME NEW q \in Procs PROVE Owned(q)'
    BY <1>1, <1>2, <1>4, Opened DEF Owned
  <1>6. ASSUME NEW q \in Procs, ~Outside(q)' PROVE Works(q)'
    BY <1>1, <1>3, <1>4, <1>6, Opened DEF Works
  <1>7. Roles'
    <2>1. Target' = Target
      BY <1>1 DEF Target
    <2> QED BY <1>0, <1>1, <1>2, <1>3, <2>1, Opened DEF Roles, Switching
  <1>8. ASSUME NEW r \in Procs, NEW q \in Procs PROVE InTurn(r, q)'
    BY <1>1, <1>4, Opened DEF InTurn, Serial
  <1>9. Counted'
    <2>1. Marked' = Marked
      BY <1>1, <1>4 DEF Marked, Waiting
    <2> QED BY <1>1, <1>2, <2>1, Opened DEF Counted, Where, Pending, Polls, Id, ForAll
  <1> QED BY <1>5, <1>6, <1>7, <1>8, <1>9 DEF Owners

LEMMA OwnersSwitched ==
  ASSUME TypeOK, Control, Control', Owners, SwitchDone
  PROVE  Owners'
  <1>0. "main" \in Contexts /\ "timer" \in Contexts /\ op \in [Contexts -> Op] /\ Target \in Procs /\ BSP \in Procs
    BY DEF Contexts, TypeOK, Target, Op
  <1>1. /\ pc["main"] = "SwitchWait" /\ pc["timer"] = "idle" /\ State[BSP] = "FINISHED"
        /\ UNCHANGED <<Procedure, apc, job, WaitEvent, CpuList, StartCount, FinishCount, SingleThread, AllEvent>>
        /\ BSP' = Target /\ State'[BSP] \in {"IDLE", "DISABLED"}
        /\ \A q \in Procs : q # BSP => State'[q] = State[q]
    BY <1>0 DEF SwitchDone, At, Active, thisVars, allVars, Target, TypeOK
  <1>2. /\ pc'["main"] = "idle" /\ pc'["timer"] = "idle" /\ op'["main"] = NoOp
        /\ Id' = NoCall /\ ~ForAll' /\ ~Polls'
    BY <1>0, <1>1, Moves, NoOpIs DEF SwitchDone, Id, ForAll, Polls
  <1>3. /\ Target # BSP /\ apc[Target] = "bsp" /\ State[Target] = "BUSY" /\ Procedure[Target] = FutureBsp
        /\ apc[BSP] \in {"finished", "parked"} /\ Procedure[BSP] = NoCall
    BY <1>1, Opened DEF Roles, Switching
  <1>4. Id = NoCall /\ (Pending' <=> Pending)
    BY <1>1, <1>2, Opened, NoOpIs DEF CtlParams, Accepted, Polls, Pending
  <1>5. \A q \in Procs : /\ ~Unmarked(q) /\ ~Unmarked(q)' /\ ~Closing(q) /\ ~Closing(q)'
                         /\ ~Serving(q) /\ ~Serving(q)'
                         /\ Listed(q)' <=> Listed(q)
                         /\ Outside(q)' <=> q = Target
                         /\ Outside(q) <=> q \in {BSP, Target}
    BY <1>1, <1>2, <1>4 DEF Unmarked, Closing, Serving, Listed, Outside, SwitchOwns, Target
  <1>6. \A q \in Procs : q \in {BSP, Target} => ~Listed(q) /\ WaitEvent[q] = NoCall
    BY <1>5, Opened DEF Owned
  <1>7. ASSUME NEW q \in Procs PROVE Owned(q)'
    BY <1>1, <1>2, <1>5, <1>6, Opened DEF Owned
  <1>8. ASSUME NEW q \in Procs, ~Outside(q)' PROVE Works(q)'
    BY <1>1, <1>3, <1>5, <1>8, Opened DEF Works, Quiet
  <1>9. Roles'
    BY <1>0, <1>1, <1>2, <1>3 DEF Roles, Switching, FutureBsp, Calls
  <1>10. ASSUME NEW r \in Procs, NEW q \in Procs PROVE InTurn(r, q)'
    BY <1>0, <1>1, <1>2, <1>4, <1>5, <1>6, Opened DEF InTurn, Serial, Listed, Pending
  <1>11. Counted'
    <2>1. Marked' = Marked
      BY <1>1, <1>5 DEF Marked, Waiting
    <2> QED BY <1>1, <1>2, <1>4, <2>1, Opened DEF Counted, Where
  <1> QED BY <1>7, <1>8, <1>9, <1>10, <1>11 DEF Owners

LEMMA OwnersStart == Init => Owners
  <1> SUFFICES ASSUME Init PROVE Owners
    OBVIOUS
  <1>1. /\ op["main"] = NoOp /\ pc["main"] = "idle" /\ pc["timer"] = "idle" /\ AllEvent = NoCall /\ BSP = 0
        /\ 0 \in Procs
    BY NAssumption DEF Init, Contexts, Procs
  <1>2. ~Pending /\ ~Switching /\ ~Polls
    BY <1>1, NoOpIs DEF Pending, Switching, Polls, Id
  <1>3. \A p \in Procs : Owned(p)
    BY <1>1, <1>2, NoOpIs DEF Init, Owned, Listed, Serving, Id
  <1>4. \A p \in Procs : ~Outside(p) => Works(p)
    BY <1>1 DEF Init, Works, Outside, Quiet
  <1>5. Roles
    BY <1>1, <1>2 DEF Init, Roles, Calls, NoCall
  <1>6. \A p, q \in Procs : InTurn(p, q)
    BY <1>2 DEF InTurn, Listed
  <1>7. Counted
    BY <1>1, <1>2 DEF Counted
  <1> QED BY <1>3, <1>4, <1>5, <1>6, <1>7 DEF Owners

LEMMA OwnersStep ==
  ASSUME Careful, TypeOK, Control, Control', Owners, [Next]_vars
  PROVE  Owners'
  <1>1. ASSUME NEW c \in Contexts, CheckAndUpdateApsStatus(c) PROVE Owners'
    BY <1>1, OwnersWalk, OwnersCollect, OwnersAllReset, OwnersAllClear, OwnersEachDone, OwnersEachClear
       DEF CheckAndUpdateApsStatus
  <1>2. ASSUME NEW c \in Callers, Dispatch(c) PROVE Owners'
    BY <1>2, OwnersAdmit, OwnersScan, OwnersScanned, OwnersMark, OwnersMarkSkip, OwnersWake,
       OwnersPublishThis, OwnersPublishAll, OwnersPollThis DEF Dispatch
  <1>3. CASE Next
    <2>1. ASSUME NEW p \in Procs, Ap(p) PROVE Owners'
      BY <2>1, OwnersAp
    <2>2. ASSUME NEW p \in Procs, Elapse(p) \/ ElapseAll PROVE Owners'
      BY <2>2, OwnersCallers
    <2>3. ASSUME NEW c \in Callers, NEW kind \in CallKinds, NEW p \in Procs, StartCall(c, kind, p)
          PROVE  Owners'
      BY <2>3, OwnersCallers
    <2>4. ASSUME NEW p \in Procs, NEW b \in BOOLEAN, EnableDisableAP(p, b) \/ SwitchBSP(p, b)
          PROVE  Owners'
      BY <2>4, OwnersEnable, OwnersSwitch
    <2>5. CASE CheckApsStatus \/ Exchange \/ SwitchDone
      BY <2>5, OwnersCallers, OwnersExchange, OwnersSwitched
    <2>6. 0 \in Procs
      BY NAssumption DEF Procs
    <2> QED BY <1>1, <1>2, <1>3, <2>1, <2>2, <2>3, <2>4, <2>5, <2>6 DEF Next
  <1>4. CASE UNCHANGED vars
    BY <1>4, OwnersCallers
  <1> QED BY <1>3, <1>4

(* What the properties say of any context, Control lets one say of main.   *)
LEMMA OnlyMain ==
  ASSUME Control
  PROVE  /\ \A c \in Contexts : Started(c) => c = "main"
         /\ Pending <=> AllPending
         /\ \A p \in Procs : Listed(p) <=> AllOwns(p)
         /\ \A p \in Procs : ThisOwns(p) <=> WaitEvent[p] # NoCall \/ Serving(p)
  <1>1. "main" \in Contexts /\ CtlParams
    BY DEF Contexts, Control
  <1>2. \A c \in Contexts : Started(c) => c = "main"
    BY <1>1, NoOpIs DEF Contexts, Started, CtlParams
  <1>3. Pending <=> AllPending
    BY <1>1, <1>2 DEF Pending, AllPending, Started, Id, ForAll
  <1>4. \A p \in Procs : Listed(p) <=> AllOwns(p)
    BY <1>3 DEF Listed, AllOwns
  <1>5. \A p \in Procs : ThisOwns(p) <=> WaitEvent[p] # NoCall \/ Serving(p)
    BY <1>1, <1>2 DEF ThisOwns, Serving, Started, Id, ForAll, Target
  <1> QED BY <1>2, <1>3, <1>4, <1>5

(* No AP is awaited by a StartupAllAPs and a StartupThisAP at once, with   *)
(* any number of processors, in both wake-up manners, while the timer      *)
(* collects, APs finish, roles are exchanged and calls run out of memory.  *)
THEOREM OneCallPerAp ==
  ASSUME Careful
  PROVE  Spec => []SingleOwner
  <1>1. Control /\ Owners => SingleOwner
    BY OnlyMain, Opened DEF SingleOwner, Owned
  <1>2. Spec => []TypeOK
    BY TypeCorrect
  <1>3. Init => Control /\ Owners
    BY ControlStart, OwnersStart
  <1>4. TypeOK /\ Control /\ Owners /\ [Next]_vars => (Control /\ Owners)'
    BY ControlStep, OwnersStep
  <1> QED BY <1>1, <1>2, <1>3, <1>4, PTL DEF Spec

-----------------------------------------------------------------------------
(***************************************************************************)
(* Names.  A call that somebody still waits for is pending, until its      *)
(* answer was reported and while its event is being delivered; its name    *)
(* stands in one place.                                                    *)
(***************************************************************************)
Delivering == Where({"AllSignal", "AllClear"})
AllTold    == Where({"AllClear"})
Told(p)    == \/ pc["main"] = "EachClear" /\ cur["main"] = p
              \/ pc["timer"] = "EachClear" /\ cur["timer"] = p
Awaited(k, answered, told) ==
  /\ k <= calls
  /\ IF answered THEN result[k] \in Answers ELSE result[k] = "pending"
  /\ signals[k] = IF told THEN 1 ELSE 0

NamesId ==
  Id # NoCall => /\ Awaited(Id, FALSE, FALSE) /\ Id # AllEvent
                 /\ \A p \in Procs : WaitEvent[p] # Id
                 /\ ~ForAll => assigned[Id] = {Target}
NamesAll ==
  /\ AllProc <= calls
  /\ AllEvent # NoCall => /\ Awaited(AllEvent, Delivering, AllTold)
                          /\ \A p \in Procs : WaitEvent[p] # AllEvent
  /\ AllProc # NoCall /\ result[AllProc] = "pending" =>
       Polls \/ (AllEvent # NoCall /\ ~Delivering)
NamesThis(p) ==
  WaitEvent[p] # NoCall => /\ Awaited(WaitEvent[p], Closing(p), Told(p))
                           /\ assigned[WaitEvent[p]] = {p}
NamesFree ==
  \A k \in Calls : k > calls => result[k] = "none" /\ assigned[k] = {} /\ signals[k] = 0

Names ==
  /\ NamesId /\ NamesAll /\ NamesFree
  /\ \A p \in Procs : NamesThis(p)
  /\ SignalledOnce

LEMMA Ranges ==
  ASSUME TypeOK
  PROVE  /\ AllEvent \in 0 .. MaxCalls /\ AllProc \in 0 .. MaxCalls /\ Id \in 0 .. MaxCalls
         /\ WaitEvent \in [Procs -> 0 .. MaxCalls] /\ assigned \in [Calls -> SUBSET Procs]
         /\ calls \in Nat /\ calls <= MaxCalls /\ MaxCalls \in Nat /\ Target \in Procs
         /\ \A j \in Calls : j \in Nat /\ j # NoCall
         /\ \A j \in 0 .. MaxCalls : j # NoCall => j \in Calls
         /\ "main" \in Contexts /\ "timer" \in Contexts
  <1>1. "main" \in Contexts /\ "timer" \in Contexts
    BY DEF Contexts
  <1>2. op["main"] \in Op
    BY <1>1 DEF TypeOK
  <1>3. Id \in 0 .. MaxCalls /\ Target \in Procs
    BY <1>2 DEF Op, Id, Target
  <1>4. calls \in Nat /\ calls <= MaxCalls /\ MaxCalls \in Nat
    BY CallsAssumption DEF TypeOK
  <1>5. /\ \A j \in Calls : j \in Nat /\ j # NoCall
        /\ \A j \in 0 .. MaxCalls : j # NoCall => j \in Calls
    BY <1>4 DEF Calls, NoCall
  <1> QED BY <1>1, <1>3, <1>4, <1>5 DEF TypeOK

LEMMA NamesStart == Init => Names
  <1> SUFFICES ASSUME Init PROVE Names
    OBVIOUS
  <1>1. Id = NoCall /\ AllEvent = NoCall /\ AllProc = NoCall /\ calls = 0
    BY NoOpIs DEF Init, Contexts, Id
  <1>2. \A p \in Procs : WaitEvent[p] = NoCall
    BY DEF Init
  <1>3. \A k \in Calls : result[k] = "none" /\ assigned[k] = {} /\ signals[k] = 0
    BY DEF Init
  <1> QED BY <1>1, <1>2, <1>3 DEF Names, NamesId, NamesAll, NamesThis, NamesFree, SignalledOnce, NoCall

(* Steps that accept, answer and signal no call.                           *)
LEMMA NamesKept ==
  ASSUME TypeOK, TypeOK', Control, Control', Names,
         UNCHANGED <<calls, result, assigned, signals, AllProc>>,
         AllEvent' = AllEvent \/ (AllEvent' = NoCall /\ Delivering),
         \A q \in Procs : WaitEvent'[q] \in {WaitEvent[q], NoCall},
         Id' # NoCall => op' = op,
         Polls => Polls',
         AllEvent' # NoCall => (Delivering' <=> Delivering) /\ (AllTold' <=> AllTold),
         \A q \in Procs : WaitEvent'[q] # NoCall =>
                            (Closing(q)' <=> Closing(q)) /\ (Told(q)' <=> Told(q))
  PROVE  Names'
  <1>1. NamesId'
    BY DEF Names, NamesId, Id, ForAll, Target, Awaited, NoCall
  <1>2. NamesAll'
    BY DEF Names, NamesAll, Awaited, NoCall
  <1>3. ASSUME NEW p \in Procs PROVE NamesThis(p)'
    BY DEF Names, NamesThis, Awaited
  <1>4. NamesFree' /\ SignalledOnce'
    BY DEF Names, NamesFree, SignalledOnce
  <1> QED BY <1>1, <1>2, <1>3, <1>4 DEF Names

(* A context that checks and reports nothing. *)
LEMMA NamesWalk ==
  ASSUME TypeOK, TypeOK', Control, Control', Names, NEW c \in Contexts,
         Active(c), pc[c] \in Checking,
         \A d \in Contexts : d # c => pc'[d] = pc[d] /\ cur'[d] = cur[d],
         UNCHANGED <<calls, result, assigned, signals, AllProc, op>>,
         AllEvent' = AllEvent \/ (AllEvent' = NoCall /\ Delivering),
         \A q \in Procs : WaitEvent'[q] \in {WaitEvent[q], NoCall},
         AllEvent' # NoCall => pc[c] \notin {"AllSignal", "AllClear"},
         pc'[c] \notin {"AllSignal", "AllClear", "EachSignal", "EachClear"},
         \A q \in Procs : WaitEvent'[q] # NoCall => ~(pc[c] \in {"EachSignal", "EachClear"} /\ cur[c] = q)
  PROVE  Names'
  <1>0. "main" \in Contexts /\ "timer" \in Contexts
    BY DEF Contexts
  <1>1. \/ c = "main" /\ pc["timer"] = "idle"
        \/ c = "timer" /\ pc["main"] \in {"idle", "SwitchWait"}
    BY Turn DEF Checking
  <1>2. AllEvent' # NoCall => (Delivering' <=> Delivering) /\ (AllTold' <=> AllTold)
    BY <1>0, <1>1 DEF Delivering, AllTold, Where
  <1>3. ASSUME NEW q \in Procs, WaitEvent'[q] # NoCall
        PROVE  (Closing(q)' <=> Closing(q)) /\ (Told(q)' <=> Told(q))
    BY <1>0, <1>1, <1>3 DEF Closing, Told
  <1> QED BY <1>2, <1>3, NamesKept DEF Polls

LEMMA NamesUpdate ==
  ASSUME TypeOK, TypeOK', Control, Control', Names, NEW c \in Contexts,
         \/ Update(c) \/ SkipAp(c) \/ CollectAp(c) \/ AllExpired(c) \/ AllNotReady(c) \/ AllReset(c)
         \/ AllClear(c) \/ EachSkip(c) \/ EachClear(c)
  PROVE  Names'
  <1>1. CASE \/ Update(c) \/ SkipAp(c) \/ CollectAp(c) \/ AllExpired(c) \/ AllNotReady(c) \/ AllReset(c)
             \/ EachSkip(c)
    <2>1. /\ Active(c) /\ pc[c] \in Checking /\ pc[c] \notin {"AllSignal", "AllClear", "EachSignal", "EachClear"}
          /\ UNCHANGED <<calls, result, assigned, signals, AllProc, op, AllEvent, WaitEvent>>
          /\ \A d \in Contexts : d # c => pc'[d] = pc[d] /\ cur'[d] = cur[d]
          /\ pc'[c] \notin {"AllSignal", "AllClear", "EachSignal", "EachClear"}
      BY <1>1, Moves DEF Update, SkipAp, CollectAp, AllExpired, AllNotReady, AllReset, EachSkip, At, Checking,
         callVars, thisVars, allVars
    <2> QED BY <2>1, NamesWalk
  <1>2. CASE AllClear(c)
    <2>1. /\ Active(c) /\ pc[c] = "AllClear" /\ pc'[c] = "EachAp" /\ AllEvent' = NoCall
          /\ UNCHANGED <<calls, result, assigned, signals, AllProc, op, WaitEvent>>
          /\ \A d \in Contexts : d # c => pc'[d] = pc[d] /\ cur'[d] = cur[d]
      BY <1>2, Moves DEF AllClear, At, callVars, thisVars
    <2>2. Delivering
      BY <2>1, Turn DEF Delivering, Where
    <2> QED BY <2>1, <2>2, NamesWalk DEF Checking
  <1>3. CASE EachClear(c)
    <2>1. /\ Active(c) /\ pc[c] = "EachClear" /\ pc'[c] = "EachAp" /\ cur[c] \in Procs
          /\ WaitEvent' = [WaitEvent EXCEPT ![cur[c]] = NoCall]
          /\ UNCHANGED <<calls, result, assigned, signals, AllProc, op, AllEvent>>
          /\ \A d \in Contexts : d # c => pc'[d] = pc[d] /\ cur'[d] = cur[d]
      BY <1>3, Moves, CurIsProc DEF EachClear, At, callVars, allVars
    <2>2. WaitEvent'[cur[c]] = NoCall /\ \A q \in Procs : q # cur[c] => WaitEvent'[q] = WaitEvent[q]
      BY <2>1 DEF TypeOK
    <2> QED BY <2>1, <2>2, NamesWalk DEF Checking
  <1> QED BY <1>1, <1>2, <1>3

(* A call is answered: nobody else waits for it.                           *)
LEMMA Answering ==
  ASSUME TypeOK, NEW STATE k, k \in Calls, NEW STATE r, r \in Answers, Report(k, r)
  PROVE  /\ result'[k] = r
         /\ \A j \in Calls : j # k => result'[j] = result[j]
         /\ \A j \in Calls : result[j] \in Answers => result'[j] \in Answers
         /\ \A j \in Calls : result'[j] = "pending" => result[j] = "pending" /\ j # k
  BY DEF Report, TypeOK, Answers

LEMMA NamesAllDone ==
  ASSUME TypeOK, TypeOK', Control, Control', Names, NEW c \in Contexts, NEW r \in Answers,
         At(c, "AllAps") \/ At(c, "AllReset"), Report(AllProc, r), Deliver(c),
         UNCHANGED <<thisVars, allVars, calls, assigned, signals>>
  PROVE  Names'
  <1>0. /\ "main" \in Contexts /\ "timer" \in Contexts /\ CtlParams /\ CtlEvents /\ CtlParams' /\ CtlEvents'
        /\ Active(c) /\ pc[c] \in {"AllAps", "AllReset"} /\ op \in [Contexts -> Op]
        /\ UNCHANGED <<AllProc, AllEvent, WaitEvent>> /\ AllEvent \in 0 .. MaxCalls /\ AllProc \in 0 .. MaxCalls
        /\ WaitEvent \in [Procs -> 0 .. MaxCalls] /\ Id \in 0 .. MaxCalls
    BY DEF Contexts, Control, At, TypeOK, thisVars, allVars, Id, Op
  <1>1. \/ c = "main" /\ pc["timer"] = "idle"
        \/ c = "timer" /\ pc["main"] \in {"idle", "SwitchWait"} /\ op[c] = NoOp
    BY <1>0, Turn
  <1>2. CASE op[c].poll
    <2>1. c = "main" /\ Polls /\ Id = AllProc /\ Id # NoCall /\ AllEvent = NoCall
      BY <1>0, <1>1, <1>2, NoOpIs DEF Polls, CtlParams, CtlEvents
    <2>2. /\ pc'["main"] = "idle" /\ op'["main"] = NoOp /\ pc'["timer"] = "idle" /\ Id' = NoCall
      BY <1>0, <1>1, <1>2, <2>1, Delivers, NoOpIs DEF Id
    <2>3. AllProc \in Calls
      BY <1>0, <2>1 DEF Calls, NoCall
    <2>4. \A q \in Procs : ~Closing(q) /\ ~Closing(q)' /\ ~Told(q) /\ ~Told(q)' /\ WaitEvent[q] # AllProc
      BY <1>0, <1>1, <2>1, <2>2 DEF Closing, Told, Names, NamesId
    <2>5. NamesId' /\ NamesAll' /\ SignalledOnce' /\ NamesFree'
      BY <1>0, <2>1, <2>2, <2>3, Answering DEF Names, NamesId, NamesAll, NamesFree, SignalledOnce, Awaited, Answers, TypeOK
    <2>6. ASSUME NEW q \in Procs PROVE NamesThis(q)'
      BY <1>0, <2>3, <2>4, Answering DEF Names, NamesThis, Awaited, Calls, NoCall
    <2> QED BY <2>5, <2>6 DEF Names
  <1>3. CASE ~op[c].poll
    <2>1. /\ AllEvent # NoCall /\ AllProc = AllEvent
          /\ pc'[c] = "AllSignal" /\ op' = op /\ pc[c] \notin {"AllSignal", "AllClear"}
          /\ \A d \in Contexts : d # c => pc'[d] = pc[d] /\ cur'[d] = cur[d]
      BY <1>0, <1>3, Delivers DEF CtlEvents, Deliver
    <2>2. AllProc \in Calls
      BY <1>0, <2>1 DEF Calls, NoCall
    <2>3. /\ ~Delivering /\ Delivering' /\ ~AllTold /\ ~AllTold' /\ Id' = Id /\ Polls' = Polls
          /\ Target' = Target /\ ForAll' = ForAll
      BY <1>0, <1>1, <2>1 DEF Delivering, AllTold, Where, Id, Polls, Target, ForAll
    <2>4. \A q \in Procs : ~Closing(q) /\ ~Closing(q)' /\ ~Told(q) /\ ~Told(q)' /\ WaitEvent[q] # AllProc
      BY <1>0, <1>1, <2>1 DEF Closing, Told, Names, NamesAll
    <2>5. NamesId' /\ NamesAll' /\ NamesFree' /\ SignalledOnce'
      <3>1. NamesId'
        BY <1>0, <2>1, <2>2, <2>3, Answering DEF Names, NamesId, Awaited, Calls, NoCall
      <3>2. NamesAll'
        BY <1>0, <2>1, <2>2, <2>3, Answering DEF Names, NamesAll, Awaited, Answers
      <3>3. NamesFree' /\ SignalledOnce'
        BY <1>0, <2>1, <2>2, Answering DEF Names, NamesAll, NamesFree, SignalledOnce, TypeOK
      <3> QED BY <3>1, <3>2, <3>3
    <2>6. ASSUME NEW q \in Procs PROVE NamesThis(q)'
      BY <1>0, <2>2, <2>4, Answering DEF Names, NamesThis, Awaited, Calls, NoCall
    <2> QED BY <2>5, <2>6 DEF Names
  <1> QED BY <1>2, <1>3

LEMMA NamesEachDone ==
  ASSUME TypeOK, TypeOK', Control, Control', Names, NEW c \in Contexts, EachDone(c)
  PROVE  Names'
  <1> DEFINE p == cur[c]
             k == WaitEvent[p]
  <1>a. /\ Active(c) /\ pc[c] = "EachAp" /\ p \in Procs /\ k # NoCall
        /\ UNCHANGED <<AllProc, AllEvent, WaitEvent, calls, assigned, signals, op>>
    BY CurIsProc DEF EachDone, At, thisVars, allVars
  <1>b. /\ AllEvent \in 0 .. MaxCalls /\ AllProc \in 0 .. MaxCalls /\ Id \in 0 .. MaxCalls
        /\ WaitEvent \in [Procs -> 0 .. MaxCalls] /\ assigned \in [Calls -> SUBSET Procs]
        /\ "main" \in Contexts /\ "timer" \in Contexts /\ CtlParams /\ CtlParams'
    BY DEF Contexts, Control, TypeOK, Id, Op
  <1>c. k \in Calls
    BY <1>a, <1>b DEF Calls, NoCall
  <1>0. /\ "main" \in Contexts /\ "timer" \in Contexts /\ CtlParams /\ CtlParams'
        /\ Active(c) /\ pc[c] = "EachAp" /\ p \in Procs /\ k # NoCall /\ k \in Calls
        /\ UNCHANGED <<AllProc, AllEvent, WaitEvent, calls, assigned, signals, op>>
        /\ AllEvent \in 0 .. MaxCalls /\ AllProc \in 0 .. MaxCalls /\ Id \in 0 .. MaxCalls
        /\ WaitEvent \in [Procs -> 0 .. MaxCalls] /\ assigned \in [Calls -> SUBSET Procs]
    BY <1>a, <1>b, <1>c
  <1>1. /\ pc'[c] = "EachSignal" /\ cur'[c] = p
        /\ \A d \in Contexts : d # c => pc'[d] = pc[d] /\ cur'[d] = cur[d]
    BY Moves DEF EachDone
  <1>2. \/ c = "main" /\ pc["timer"] = "idle"
        \/ c = "timer" /\ pc["main"] \in {"idle", "SwitchWait"}
    BY <1>0, Turn
  <1>3. PICK r \in Answers : Report(k, r)
    BY DEF EachDone, ThisFinished, ThisExpired, Answers
  <1>4. /\ (Delivering' <=> Delivering) /\ (AllTold' <=> AllTold)
        /\ Id' = Id /\ Polls' = Polls /\ Target' = Target /\ ForAll' = ForAll
        /\ \A q \in Procs : ~Closing(q) /\ ~Told(q) /\ ~Told(q)' /\ (Closing(q)' <=> q = p)
    BY <1>0, <1>1, <1>2 DEF Delivering, AllTold, Where, Closing, Told, Id, Polls, Target, ForAll
  <1>5. /\ \A q \in Procs : q # p => WaitEvent[q] # k
        /\ AllEvent # k /\ (Id # NoCall => Id # k)
    <2>1. \A q \in Procs : WaitEvent[q] = k => assigned[k] = {q}
      BY <1>0 DEF Names, NamesThis
    <2>2. \A q \in Procs : WaitEvent[q] = k => q = p
      BY <1>0, <2>1
    <2>3. AllEvent # k
      BY <1>0 DEF Names, NamesAll
    <2>4. Id # NoCall => Id # k
      BY <1>0 DEF Names, NamesId
    <2> QED BY <2>2, <2>3, <2>4
  <1> HIDE DEF k, p
  <1>6. NamesId'
    BY <1>0, <1>3, <1>4, <1>5, Answering DEF Names, NamesId, Awaited, Calls, NoCall
  <1>7. NamesAll'
    BY <1>0, <1>3, <1>4, <1>5, Answering DEF Names, NamesAll, Awaited, Calls, NoCall
  <1>8. ASSUME NEW q \in Procs PROVE NamesThis(q)'
    BY <1>0, <1>3, <1>4, <1>5, Answering DEF Names, NamesThis, Awaited, Calls, NoCall, k
  <1>9. NamesFree' /\ SignalledOnce'
    <2>1. k <= calls
      BY <1>0 DEF Names, NamesThis, Awaited, k
    <2>2. calls \in Nat /\ \A j \in Calls : j \in Nat
      BY DEF TypeOK, Calls
    <2>3. \A j \in Calls : j > calls => j # k
      BY <1>0, <2>1, <2>2
    <2>4. NamesFree'
      BY <1>0, <1>3, <2>3, Answering DEF Names, NamesFree
    <2>5. SignalledOnce'
      BY <1>0, <1>3, Answering DEF Names, SignalledOnce
    <2> QED BY <2>4, <2>5
  <1> QED BY <1>6, <1>7, <1>8, <1>9 DEF Names

LEMMA NamesPollThis ==
  ASSUME TypeOK, TypeOK', Control, Control', Names, NEW c \in Callers, PollThis(c)
  PROVE  Names'
  <1>1. /\ c = "main" /\ pc["main"] = "PollThis" /\ pc["timer"] = "idle"
        /\ "main" \in Contexts /\ "timer" \in Contexts /\ CtlParams /\ CtlEvents
    BY MainTurn DEF PollThis, At
  <1>2. /\ Id # NoCall /\ ~ForAll /\ ~Polls /\ Id \in Calls
        /\ UNCHANGED <<AllProc, AllEvent, WaitEvent, calls, assigned, signals>> /\ Return(c)
    <2>1. Id # NoCall /\ ~ForAll /\ ~Polls
      BY <1>1 DEF CtlParams, Accepted
    <2> QED BY <2>1, Ranges DEF PollThis, thisVars, allVars
  <1>3. PICK r \in Answers : Report(Id, r)
    BY <1>1 DEF PollThis, ThisFinished, ThisExpired, Answers, Id
  <1>4. Id' = NoCall /\ pc'["main"] = "idle" /\ pc'["timer"] = "idle"
    BY <1>1, <1>2, Returns, NoOpIs DEF Id
  <1>5. /\ AllEvent # Id /\ \A q \in Procs : WaitEvent[q] # Id
        /\ \A q \in Procs : ~Closing(q) /\ ~Closing(q)' /\ ~Told(q) /\ ~Told(q)'
        /\ ~Delivering /\ ~Delivering' /\ ~AllTold /\ ~AllTold'
    BY <1>1, <1>2, <1>4 DEF Names, NamesId, Closing, Told, Delivering, AllTold, Where
  <1>6. /\ AllEvent \in 0 .. MaxCalls /\ AllProc \in 0 .. MaxCalls /\ WaitEvent \in [Procs -> 0 .. MaxCalls]
        /\ calls \in Nat /\ \A j \in Calls : j \in Nat
    BY Ranges
  <1>7. NamesId'
    BY <1>4 DEF NamesId
  <1>8. NamesAll'
    BY <1>2, <1>3, <1>5, <1>6, Answering DEF Names, NamesAll, Awaited, Calls, NoCall
  <1>9. ASSUME NEW q \in Procs PROVE NamesThis(q)'
    BY <1>2, <1>3, <1>5, <1>6, Answering DEF Names, NamesThis, Awaited, Calls, NoCall
  <1>10. \A j \in Calls : j > calls => j # Id
    BY <1>2, <1>6 DEF Names, NamesId, Awaited
  <1>11. NamesFree' /\ SignalledOnce'
    BY <1>2, <1>3, <1>10, Answering DEF Names, NamesFree, SignalledOnce
  <1> QED BY <1>7, <1>8, <1>9, <1>11 DEF Names

(* The event of a call is signalled. *)
LEMMA Telling ==
  ASSUME TypeOK, NEW STATE k, k \in Calls, Signal(k)
  PROVE  /\ signals'[k] = signals[k] + 1
         /\ \A j \in Calls : j # k => signals'[j] = signals[j]
  BY DEF Signal, TypeOK

LEMMA NamesAllSignal ==
  ASSUME TypeOK, TypeOK', Control, Control', Names, NEW c \in Contexts, AllSignal(c)
  PROVE  Names'
  <1>1. /\ Active(c) /\ pc[c] = "AllSignal" /\ pc'[c] = "AllClear" /\ Signal(AllEvent)
        /\ \A d \in Contexts : d # c => pc'[d] = pc[d] /\ cur'[d] = cur[d]
        /\ UNCHANGED <<AllProc, AllEvent, WaitEvent, calls, assigned, result, op>>
    BY Moves DEF AllSignal, At, thisVars, allVars
  <1>2. /\ AllEvent \in 0 .. MaxCalls /\ AllProc \in 0 .. MaxCalls /\ WaitEvent \in [Procs -> 0 .. MaxCalls]
        /\ Id \in 0 .. MaxCalls /\ calls \in Nat /\ \A j \in Calls : j \in Nat
        /\ "main" \in Contexts /\ "timer" \in Contexts /\ CtlEvents
    BY Ranges DEF Control
  <1>3. AllEvent # NoCall /\ AllEvent \in Calls
    BY <1>1, <1>2 DEF CtlEvents, Calls, NoCall
  <1>4. \/ c = "main" /\ pc["timer"] = "idle"
        \/ c = "timer" /\ pc["main"] \in {"idle", "SwitchWait"}
    BY <1>1, Turn
  <1>5. /\ \A q \in Procs : ~Closing(q) /\ ~Closing(q)' /\ ~Told(q) /\ ~Told(q)'
        /\ Delivering /\ Delivering' /\ ~AllTold /\ AllTold'
    BY <1>1, <1>2, <1>4 DEF Closing, Told, Delivering, AllTold, Where
  <1>6. /\ result[AllEvent] \in Answers /\ AllEvent <= calls /\ signals[AllEvent] = 0
        /\ \A q \in Procs : WaitEvent[q] # AllEvent
        /\ Id # NoCall => Id # AllEvent
    BY <1>3, <1>5 DEF Names, NamesAll, NamesId, Awaited
  <1>7. NamesId'
    BY <1>1, <1>2, <1>3, <1>6, Telling DEF Names, NamesId, Awaited, Calls, NoCall, Id, ForAll, Target
  <1>8. NamesAll'
    BY <1>1, <1>2, <1>3, <1>5, <1>6, Telling DEF Names, NamesAll, Awaited, Polls
  <1>9. ASSUME NEW q \in Procs PROVE NamesThis(q)'
    BY <1>1, <1>2, <1>3, <1>5, <1>6, Telling DEF Names, NamesThis, Awaited, Calls, NoCall
  <1>10. NamesFree' /\ SignalledOnce'
    BY <1>1, <1>2, <1>3, <1>6, Telling DEF Names, NamesFree, SignalledOnce
  <1> QED BY <1>7, <1>8, <1>9, <1>10 DEF Names

LEMMA NamesEachSignal ==
  ASSUME TypeOK, TypeOK', Control, Control', Names, NEW c \in Contexts, EachSignal(c)
  PROVE  Names'
  <1> DEFINE p == cur[c]
             k == WaitEvent[p]
  <1>1. /\ Active(c) /\ pc[c] = "EachSignal" /\ pc'[c] = "EachClear" /\ cur'[c] = p /\ Signal(k)
        /\ \A d \in Contexts : d # c => pc'[d] = pc[d] /\ cur'[d] = cur[d]
        /\ UNCHANGED <<AllProc, AllEvent, WaitEvent, calls, assigned, result, op>>
    BY Moves DEF EachSignal, At, thisVars, allVars
  <1>2. /\ AllEvent \in 0 .. MaxCalls /\ AllProc \in 0 .. MaxCalls /\ WaitEvent \in [Procs -> 0 .. MaxCalls]
        /\ Id \in 0 .. MaxCalls /\ calls \in Nat /\ \A j \in Calls : j \in Nat
        /\ "main" \in Contexts /\ "timer" \in Contexts /\ CtlEvents
    BY Ranges DEF Control
  <1>3. p \in Procs /\ k # NoCall
    BY <1>1 , <1>2 DEF CtlEvents
  <1>3a. k \in Calls
    BY <1>2, <1>3 DEF Calls, NoCall
  <1>4. \/ c = "main" /\ pc["timer"] = "idle"
        \/ c = "timer" /\ pc["main"] \in {"idle", "SwitchWait"}
    BY <1>1, Turn
  <1>5. /\ \A q \in Procs : (Closing(q) <=> q = p) /\ (Closing(q)' <=> q = p) /\ ~Told(q) /\ (Told(q)' <=> q = p)
        /\ (Delivering' <=> Delivering) /\ (AllTold' <=> AllTold)
    BY <1>1, <1>2, <1>3, <1>4 DEF Closing, Told, Delivering, AllTold, Where
  <1>6. result[k] \in Answers /\ k <= calls /\ signals[k] = 0 /\ assigned[k] = {p}
    BY <1>3, <1>5 DEF Names, NamesThis, Awaited
  <1>7. \A q \in Procs : WaitEvent[q] = k => assigned[k] = {q}
    BY <1>3 DEF Names, NamesThis
  <1>8. \A q \in Procs : WaitEvent[q] = k => q = p
    BY <1>6, <1>7
  <1>9. k # AllEvent /\ (Id # NoCall => Id # k)
    BY <1>3 DEF Names, NamesAll, NamesId
  <1> HIDE DEF k, p
  <1>10. NamesId'
    BY <1>1, <1>2, <1>3a, <1>9, Telling DEF Names, NamesId, Awaited, Calls, NoCall, Id, ForAll, Target
  <1>11. NamesAll'
    BY <1>1, <1>2, <1>3a, <1>5, <1>9, Telling DEF Names, NamesAll, Awaited, Polls, Calls, NoCall
  <1>12. ASSUME NEW q \in Procs PROVE NamesThis(q)'
    <2>1. CASE q = p
      BY <1>1, <1>3, <1>3a, <1>5, <1>6, <2>1, Telling DEF NamesThis, Awaited, k
    <2>2. CASE q # p
      BY <1>1, <1>2, <1>3a, <1>5, <1>8, <2>2, Telling DEF Names, NamesThis, Awaited, Calls, NoCall
    <2> QED BY <2>1, <2>2
  <1>13. NamesFree' /\ SignalledOnce'
    BY <1>1, <1>2, <1>3a, <1>6, Telling DEF Names, NamesFree, SignalledOnce
  <1> QED BY <1>10, <1>11, <1>12, <1>13 DEF Names

LEMMA NamesAccept ==
  ASSUME TypeOK, TypeOK', Control, Control', Names, pc["main"] \in {"Admit", "Scan"}, pc["timer"] = "idle",
         NEW STATE P, NEW STATE i, Accept("main", P, i), ~ForAll => P = {Target},
         UNCHANGED <<AllProc, AllEvent, WaitEvent>>
  PROVE  Names'
  <1>1. /\ Id' = calls + 1 /\ calls' = calls + 1 /\ ForAll' = ForAll /\ Target' = Target /\ Polls' = Polls
        /\ pc'["main"] = "Mark" /\ pc'["timer"] = "idle"
    BY Accepts DEF Contexts, Id, ForAll, Target, Polls
  <1>2. calls + 1 \in Calls
    BY <1>1, Ranges DEF TypeOK, Calls
  <1>3. /\ result'[calls + 1] = "pending" /\ assigned'[calls + 1] = P
        /\ \A j \in Calls : j # calls + 1 => result'[j] = result[j] /\ assigned'[j] = assigned[j]
        /\ UNCHANGED signals
    BY <1>1, <1>2 DEF Accept, TypeOK
  <1>4. /\ \A q \in Procs : ~Closing(q) /\ ~Closing(q)' /\ ~Told(q) /\ ~Told(q)'
        /\ ~Delivering /\ ~Delivering' /\ ~AllTold /\ ~AllTold'
    BY <1>1 DEF Closing, Told, Delivering, AllTold, Where
  <1>5. /\ AllProc <= calls /\ AllEvent <= calls /\ \A q \in Procs : WaitEvent[q] <= calls
    BY Ranges DEF Names, NamesAll, NamesThis, Awaited, NoCall
  <1>6. signals[calls + 1] = 0
    BY <1>2, Ranges DEF Names, NamesFree
  <1>7. NamesId'
    BY <1>1, <1>2, <1>3, <1>5, <1>6, Ranges DEF NamesId, Awaited
  <1>8. NamesAll'
    BY <1>1, <1>2, <1>3, <1>4, <1>5, Ranges DEF Names, NamesAll, Awaited
  <1>9. ASSUME NEW q \in Procs PROVE NamesThis(q)'
    BY <1>1, <1>2, <1>3, <1>4, <1>5, Ranges DEF Names, NamesThis, Awaited
  <1>10. NamesFree'
    BY <1>1, <1>2, <1>3, Ranges DEF Names, NamesFree
  <1>11. SignalledOnce'
    BY <1>2, <1>3, <1>6 DEF Names, SignalledOnce
  <1> QED BY <1>7, <1>8, <1>9, <1>10, <1>11 DEF Names

(* StartupThisAP and StartupAllAPs store the event of the call and leave. *)
LEMMA NamesPublish ==
  ASSUME TypeOK, TypeOK', Control, Control', Names, NEW c \in Callers, PublishThis(c) \/ PublishAll(c)
  PROVE  Names'
  <1>1. /\ c = "main" /\ pc["main"] = "Publish" /\ pc["timer"] = "idle"
        /\ "main" \in Contexts /\ "timer" \in Contexts /\ CtlParams /\ CtlEvents
        /\ UNCHANGED <<calls, result, assigned, signals>>
    BY MainTurn DEF PublishThis, PublishAll, At, callVars
  <1>2. Id # NoCall /\ ~Polls /\ Id \in Calls
    BY <1>1, Ranges DEF CtlParams, Accepted
  <1>3. /\ Awaited(Id, FALSE, FALSE) /\ Id # AllEvent /\ \A q \in Procs : WaitEvent[q] # Id
        /\ ~ForAll => assigned[Id] = {Target}
    BY <1>2 DEF Names, NamesId
  <1>4. ~Delivering /\ ~AllTold /\ \A q \in Procs : ~Closing(q) /\ ~Told(q)
    BY <1>1 DEF Closing, Told, Delivering, AllTold, Where
  <1>5. CASE PublishThis(c)
    <2>1. /\ ~ForAll /\ UNCHANGED <<AllProc, AllEvent>>
          /\ WaitEvent' = [WaitEvent EXCEPT ![Target] = IF op["main"].wait THEN Id ELSE NoCall]
      BY <1>1, <1>5 DEF PublishThis, EventOf, Id, Target, ForAll, allVars
    <2>2. /\ WaitEvent'[Target] = IF op["main"].wait THEN Id ELSE NoCall
          /\ \A q \in Procs : q # Target => WaitEvent'[q] = WaitEvent[q]
      BY <2>1, Ranges
    <2>3. CASE op["main"].wait
      <3>1. Id' = NoCall /\ pc'["main"] = "idle" /\ pc'["timer"] = "idle"
        <4>1. Return("main")
          BY <1>1, <1>5, <2>3 DEF PublishThis
        <4> QED BY <1>1, <4>1, Returns, NoOpIs DEF Id
      <3>2. ~Delivering' /\ ~AllTold' /\ \A q \in Procs : ~Closing(q)' /\ ~Told(q)'
        BY <3>1 DEF Closing, Told, Delivering, AllTold, Where
      <3>3. NamesId'
        BY <3>1 DEF NamesId
      <3>4. NamesAll'
        BY <1>1, <1>2, <1>3, <1>4, <2>1, <2>2, <2>3, <3>2 DEF Names, NamesAll, Awaited
      <3>5. ASSUME NEW q \in Procs PROVE NamesThis(q)'
        BY <1>1, <1>2, <1>3, <1>4, <2>1, <2>2, <2>3, <3>2 DEF Names, NamesThis, Awaited
      <3>6. NamesFree' /\ SignalledOnce'
        BY <1>1 DEF Names, NamesFree, SignalledOnce
      <3> QED BY <3>3, <3>4, <3>5, <3>6 DEF Names
    <2>4. CASE ~op["main"].wait
      <3>1. pc'["main"] = "PollThis" /\ pc'["timer"] = "idle" /\ op' = op
        <4>1. Goto("main", "PollThis", 0) /\ UNCHANGED op
          BY <1>1, <1>5, <2>4 DEF PublishThis
        <4> QED BY <1>1, <4>1, Moves
      <3>2. ~Delivering' /\ ~AllTold' /\ \A q \in Procs : ~Closing(q)' /\ ~Told(q)'
        BY <3>1 DEF Closing, Told, Delivering, AllTold, Where
      <3>3. \A q \in Procs : WaitEvent'[q] \in {WaitEvent[q], NoCall}
        BY <2>2, <2>4
      <3> QED BY <1>1, <1>2, <1>4, <2>1, <3>1, <3>2, <3>3, NamesKept
    <2> QED BY <2>3, <2>4
  <1>6. CASE PublishAll(c)
    <2>1. /\ ForAll /\ AllProc' = Id /\ AllEvent' = IF op["main"].wait THEN Id ELSE NoCall
          /\ WaitEvent' = WaitEvent
      BY <1>1, <1>6 DEF PublishAll, EventOf, Id, ForAll, thisVars
    <2>2. \/ op["main"].wait /\ Id' = NoCall /\ pc'["main"] = "idle"
          \/ ~op["main"].wait /\ Id' = Id /\ ForAll' /\ Polls' /\ pc'["main"] = "AllAps"
      <3>1. CASE op["main"].wait
        <4>1. Return("main")
          BY <1>1, <1>6, <3>1 DEF PublishAll
        <4> QED BY <1>1, <3>1, <4>1, Returns, NoOpIs DEF Id
      <3>2. CASE ~op["main"].wait
        <4>1. Goto("main", "AllAps", 0) /\ op' = [op EXCEPT !["main"].poll = TRUE]
          BY <1>1, <1>6, <3>2 DEF PublishAll
        <4>2. op \in [Contexts -> Op]
          BY DEF TypeOK
        <4>3. op'["main"] = [op["main"] EXCEPT !.poll = TRUE] /\ op["main"] \in Op
          BY <1>1, <4>1, <4>2
        <4> QED BY <1>1, <2>1, <3>2, <4>1, <4>3, Moves DEF Id, Polls, ForAll, Op
      <3> QED BY <3>1, <3>2
    <2>3. pc'["timer"] = "idle"
      <3>1. Goto("main", "AllAps", 0) \/ Return("main")
        BY <1>1, <1>6 DEF PublishAll
      <3> QED BY <1>1, <3>1, Returns, Moves DEF Contexts
    <2>4. ~Delivering' /\ ~AllTold' /\ \A q \in Procs : ~Closing(q)' /\ ~Told(q)'
      BY <2>2, <2>3 DEF Closing, Told, Delivering, AllTold, Where
    <2>5. NamesId'
      BY <1>1, <1>2, <1>3, <2>1, <2>2 DEF NamesId, Awaited
    <2>6. NamesAll'
      BY <1>1, <1>2, <1>3, <2>1, <2>2, <2>4 DEF NamesAll, Awaited
    <2>7. ASSUME NEW q \in Procs PROVE NamesThis(q)'
      BY <1>1, <1>4, <2>1, <2>4 DEF Names, NamesThis, Awaited
    <2>8. NamesFree' /\ SignalledOnce'
      BY <1>1 DEF Names, NamesFree, SignalledOnce
    <2> QED BY <2>5, <2>6, <2>7, <2>8 DEF Names
  <1> QED BY <1>5, <1>6

(* A caller that goes on without accepting or publishing its call. *)
LEMMA NamesOn ==
  ASSUME TypeOK, TypeOK', Control, Control', Names, NEW c \in Callers, Active(c),
         pc[c] \in {"Admit", "Scan", "Mark", "Wake"},
         UNCHANGED <<calls, result, assigned, signals, AllProc, AllEvent, WaitEvent>>,
         \/ Return(c)
         \/ \E ph \in {"Scan", "Mark", "Wake", "Publish"}, i \in 0 .. N : Goto(c, ph, i) /\ UNCHANGED op
  PROVE  Names'
  <1>1. /\ c = "main" /\ pc["timer"] = "idle" /\ "main" \in Contexts /\ "timer" \in Contexts /\ CtlParams
    BY MainTurn
  <1>2. ~Polls
    BY <1>1 DEF CtlParams
  <1>3. /\ pc'["main"] \in {"idle", "Scan", "Mark", "Wake", "Publish"} /\ pc'["timer"] = "idle"
        /\ Id' # NoCall => op' = op
    <2>1. CASE Return(c)
      BY <1>1, <2>1, Returns, NoOpIs DEF Id
    <2>2. ASSUME NEW ph \in {"Scan", "Mark", "Wake", "Publish"}, NEW i \in 0 .. N, Goto(c, ph, i), UNCHANGED op
          PROVE  /\ pc'["main"] \in {"idle", "Scan", "Mark", "Wake", "Publish"} /\ pc'["timer"] = "idle"
                 /\ Id' # NoCall => op' = op
      BY <1>1, <2>2, Moves
    <2> QED BY <2>1, <2>2
  <1>4. /\ ~Delivering /\ ~Delivering' /\ ~AllTold /\ ~AllTold'
        /\ \A q \in Procs : ~Closing(q) /\ ~Closing(q)' /\ ~Told(q) /\ ~Told(q)'
    BY <1>1, <1>3 DEF Closing, Told, Delivering, AllTold, Where
  <1> QED BY <1>2, <1>3, <1>4, NamesKept

LEMMA NamesDispatch ==
  ASSUME TypeOK, TypeOK', Control, Control', Names, NEW c \in Callers, Dispatch(c)
  PROVE  Names'
  <1>0. c \in Contexts
    BY DEF Callers, Contexts
  <1>1. CASE Admit(c)
    <2>1. /\ c = "main" /\ pc["main"] = "Admit" /\ pc["timer"] = "idle" /\ CtlParams /\ Active(c)
          /\ UNCHANGED <<AllProc, AllEvent, WaitEvent>>
      BY <1>1, MainTurn DEF Admit, At, thisVars, allVars
    <2>2. CASE Accept("main", {Target}, Target)
      BY <2>1, <2>2, NamesAccept
    <2>3. CASE Return(c) /\ UNCHANGED callVars
      BY <2>1, <2>3, NamesOn DEF callVars
    <2> QED BY <1>1, <2>1, <2>2, <2>3 DEF Admit, Target
  <1>2. CASE Scan(c)
    <2>1. /\ Active(c) /\ pc[c] = "Scan" /\ cur[c] < N
          /\ UNCHANGED <<calls, result, assigned, signals, AllProc, AllEvent, WaitEvent>>
          /\ Return(c) \/ (Goto(c, "Scan", cur[c] + 1) /\ UNCHANGED op)
      BY <1>2 DEF Scan, At, thisVars, callVars
    <2>2. cur[c] + 1 \in 0 .. N
      BY <1>0, <2>1, CurIsProc
    <2> QED BY <2>1, <2>2, NamesOn
  <1>3. CASE Scanned(c)
    <2>1. /\ c = "main" /\ pc["main"] = "Scan" /\ pc["timer"] = "idle" /\ ForAll /\ Active(c)
          /\ UNCHANGED <<AllProc, AllEvent, WaitEvent>>
      BY <1>3, MainTurn DEF Scanned, At, thisVars, CtlParams
    <2>2. CASE Accept("main", Waiting(CpuList), 0)
      BY <2>1, <2>2, NamesAccept
    <2>3. CASE Return(c) /\ UNCHANGED callVars
      BY <2>1, <2>3, NamesOn DEF callVars
    <2> QED BY <1>3, <2>1, <2>2, <2>3 DEF Scanned
  <1>4. CASE Mark(c) \/ MarkSkip(c) \/ Wake(c)
    <2>1. /\ Active(c) /\ pc[c] \in {"Mark", "Wake"} /\ UNCHANGED op
          /\ UNCHANGED <<calls, result, assigned, signals, AllProc, AllEvent, WaitEvent>>
          /\ \/ cur[c] < N /\ (Goto(c, "Wake", cur[c]) \/ Goto(c, "Mark", cur[c] + 1))
             \/ Goto(c, "Publish", 0)
      BY <1>4 DEF Mark, MarkSkip, Wake, At, thisVars, allVars, callVars
    <2>2. cur[c] < N => cur[c] + 1 \in 0 .. N /\ cur[c] \in 0 .. N
      BY <1>0, CurIsProc DEF Procs, TypeOK
    <2>3. 0 \in 0 .. N
      BY NAssumption
    <2> QED BY <2>1, <2>2, <2>3, NamesOn
  <1>5. CASE PublishThis(c) \/ PublishAll(c)
    BY <1>5, NamesPublish
  <1>6. CASE PollThis(c)
    BY <1>6, NamesPollThis
  <1> QED BY <1>1, <1>2, <1>3, <1>4, <1>5, <1>6 DEF Dispatch

LEMMA NamesCheck ==
  ASSUME TypeOK, TypeOK', Control, Control', Names, NEW c \in Contexts, CheckAndUpdateApsStatus(c)
  PROVE  Names'
  <1>1. CASE AllFinished(c) \/ AllOutOfResources(c) \/ AllTimeout(c)
    <2>1. /\ At(c, "AllAps") \/ At(c, "AllReset")
          /\ \E r \in Answers : Report(AllProc, r)
          /\ Deliver(c) /\ UNCHANGED <<thisVars, allVars, calls, assigned, signals>>
      BY <1>1 DEF AllFinished, AllOutOfResources, AllTimeout, Answers
    <2> QED BY <2>1, NamesAllDone
  <1>2. CASE Updated(c)
    <2>1. /\ Active(c) /\ pc[c] = "EachAp"
          /\ UNCHANGED <<calls, result, assigned, signals, AllProc, op, AllEvent, WaitEvent>>
          /\ \E ph \in {"idle", "Scan", "Admit"} : Goto(c, ph, 0)
      BY <1>2 DEF Updated, At, callVars, thisVars, allVars
    <2>2. pc'[c] \in {"idle", "Scan", "Admit"} /\ \A d \in Contexts : d # c => pc'[d] = pc[d] /\ cur'[d] = cur[d]
      BY <2>1, Moves
    <2> QED BY <2>1, <2>2, NamesWalk DEF Checking
  <1> QED BY <1>1, <1>2, NamesUpdate, NamesEachDone, NamesAllSignal, NamesEachSignal
          DEF CheckAndUpdateApsStatus

(* What starts no check and no call, or only starts one. *)
LEMMA NamesAside ==
  ASSUME TypeOK, TypeOK', Control, Control', Names,
         UNCHANGED <<calls, result, assigned, signals, AllProc, AllEvent, WaitEvent>>,
         \/ UNCHANGED <<pc, cur, op>>
         \/ pc["timer"] = "idle" /\ Goto("timer", "Update", 0) /\ UNCHANGED op
         \/ /\ pc["main"] \in {"idle", "Exchange", "SwitchWait"} /\ pc["timer"] = "idle"
            /\ pc'["main"] \in {"idle", "Update", "Exchange", "SwitchWait"} /\ pc'["timer"] = "idle"
            /\ Id' = NoCall
  PROVE  Names'
  <1>1. CASE UNCHANGED <<pc, cur, op>>
    <2>1. /\ Delivering' = Delivering /\ AllTold' = AllTold
          /\ \A q \in Procs : (Closing(q)' <=> Closing(q)) /\ (Told(q)' <=> Told(q))
      BY <1>1 DEF Closing, Told, Delivering, AllTold, Where
    <2> QED BY <1>1, <2>1, NamesKept DEF Polls
  <1>2. CASE pc["timer"] = "idle" /\ Goto("timer", "Update", 0) /\ UNCHANGED op
    <2>1. pc'["timer"] = "Update" /\ pc'["main"] = pc["main"] /\ cur'["main"] = cur["main"]
      BY <1>2, Moves DEF Contexts
    <2>2. /\ Delivering' <=> Delivering
          /\ AllTold' <=> AllTold
          /\ \A q \in Procs : (Closing(q)' <=> Closing(q)) /\ (Told(q)' <=> Told(q))
      BY <1>2, <2>1 DEF Closing, Told, Delivering, AllTold, Where
    <2> QED BY <1>2, <2>2, NamesKept DEF Polls
  <1>3. CASE /\ pc["main"] \in {"idle", "Exchange", "SwitchWait"} /\ pc["timer"] = "idle"
             /\ pc'["main"] \in {"idle", "Update", "Exchange", "SwitchWait"} /\ pc'["timer"] = "idle"
             /\ Id' = NoCall
    <2>1. ~Polls
      BY <1>3 DEF Control, CtlParams
    <2>2. /\ ~Delivering /\ ~Delivering' /\ ~AllTold /\ ~AllTold'
          /\ \A q \in Procs : ~Closing(q) /\ ~Closing(q)' /\ ~Told(q) /\ ~Told(q)'
      BY <1>3 DEF Closing, Told, Delivering, AllTold, Where
    <2> QED BY <1>3, <2>1, <2>2, NamesKept
  <1> QED BY <1>1, <1>2, <1>3

LEMMA NamesStep ==
  ASSUME Careful, TypeOK, TypeOK', Control, Control', Names, [Next]_vars
  PROVE  Names'
  <1>0. "main" \in Contexts /\ "timer" \in Contexts /\ Suppressed /\ op \in [Contexts -> Op]
    BY DEF Contexts, Control, TypeOK
  <1>1. ASSUME NEW p \in Procs, NEW b \in BOOLEAN,
               Ap(p) \/ Elapse(p) \/ ElapseAll \/ EnableDisableAP(p, b)
        PROVE  Names'
    <2>1. UNCHANGED <<calls, result, assigned, signals>>
      BY <1>1 DEF Ap, ApBreak, ApNothing, ApEnter, ApReturn, ApClear, ApFinish, ApAck, Elapse, ElapseAll,
         EnableDisableAP, callVars
    <2> QED BY <1>1, <2>1, Elsewhere, NamesAside DEF ctxVars
  <1>2. ASSUME NEW c \in Callers, NEW kind \in CallKinds, NEW p \in Procs, StartCall(c, kind, p)
        PROVE  Names'
    <2>1. c = "main" /\ pc["main"] = "idle" /\ pc["timer"] = "idle"
      BY <1>0, <1>2 DEF StartCall, MayCall, Careful, At, Active, Suppressed
    <2>2. kind \in Kinds
      BY KindsAssumption
    <2>3. Id' = NoCall
      BY <1>0, <1>2, <2>1, <2>2, NoOpIs DEF StartCall, Op, Kinds, Id
    <2>4. pc'["main"] = "Update" /\ pc'["timer"] = "idle"
      BY <1>0, <1>2, <2>1 DEF StartCall, TypeOK
    <2>5. UNCHANGED <<calls, result, assigned, signals, AllProc, AllEvent, WaitEvent>>
      BY <1>2 DEF StartCall, callVars, thisVars, allVars
    <2> QED BY <2>1, <2>3, <2>4, <2>5, NamesAside
  <1>3. ASSUME NEW p \in Procs, NEW b \in BOOLEAN, SwitchBSP(p, b) \/ Exchange \/ SwitchDone
        PROVE  Names'
    <2>1. /\ pc["main"] \in {"idle", "Exchange", "SwitchWait"} /\ pc["timer"] = "idle"
          /\ UNCHANGED <<calls, result, assigned, signals, AllProc, AllEvent, WaitEvent>>
          /\ \E ph \in {"idle", "Exchange", "SwitchWait"} : Goto("main", ph, 0)
      BY <1>3 DEF SwitchBSP, Exchange, SwitchDone, At, Active, callVars, thisVars, allVars
    <2>2. pc'["main"] \in {"idle", "Exchange", "SwitchWait"} /\ pc'["timer"] = "idle"
      BY <1>0, <2>1, Moves
    <2>3. Id = NoCall
      BY <2>1, NoOpIs DEF Control, CtlParams, Accepted, Polls
    <2>4. Id' = NoCall
      BY <1>0, <1>3, <2>3, NoOpIs DEF SwitchBSP, Exchange, SwitchDone, Id, Op
    <2> QED BY <2>1, <2>2, <2>4, NamesAside
  <1>4. CASE CheckApsStatus
    <2>1. UNCHANGED <<calls, result, assigned, signals, AllProc, AllEvent, WaitEvent, op>>
      BY <1>4 DEF CheckApsStatus, callVars, thisVars, allVars
    <2> QED BY <1>4, <2>1, NamesAside DEF CheckApsStatus
  <1>5. CASE UNCHANGED vars
    BY <1>5, NamesAside DEF vars, callVars, thisVars, allVars, ctxVars
  <1>6. CASE Next
    <2>1. 0 \in Procs /\ TRUE \in BOOLEAN
      BY NAssumption DEF Procs
    <2> QED BY <1>1, <1>2, <1>3, <1>4, <1>6, <2>1, NamesCheck, NamesDispatch DEF Next
  <1> QED BY <1>5, <1>6

(* The event of a call is signalled at most once, and after the call was   *)
(* answered, however the timer, the boot code and the APs interleave: the  *)
(* name of an answered call stands in no WaitEvent but the one that        *)
(* CheckAndUpdateApsStatus is about to clear.                              *)
THEOREM EventOnce ==
  ASSUME Careful
  PROVE  Spec => []SignalledOnce
  <1>1. Names => SignalledOnce
    BY DEF Names
  <1>2. Spec => []TypeOK
    BY TypeCorrect
  <1>3. Init => Control /\ Names
    BY ControlStart, NamesStart
  <1>4. TypeOK /\ TypeOK' /\ Control /\ Names /\ [Next]_vars => (Control /\ Names)'
    BY ControlStep, NamesStep
  <1> QED BY <1>1, <1>2, <1>3, <1>4, PTL DEF Spec

(* While a StartupAllAPs call is pending, StartCount and FinishCount count *)
(* the APs it still lists.  From the scan on, whoever marks, collects or   *)
(* resets an AP keeps the numbers and the list together.                   *)
THEOREM CountsAgree ==
  ASSUME Careful
  PROVE  Spec => []Accounting
  <1>1. ASSUME TypeOK, Control, Owners, Names PROVE Accounting
    <2> SUFFICES ASSUME AllProc # NoCall, result[AllProc] = "pending",
                        ~(\E c \in Contexts : Started(c) /\ op[c].all /\ ~op[c].poll),
                        ~(\E c \in Contexts : pc[c] = "AllReset")
                 PROVE  StartCount = FinishCount + Cardinality(Waiting(CpuList))
      BY DEF Accounting
    <2>1. "main" \in Contexts /\ "timer" \in Contexts
      BY DEF Contexts
    <2>2. Polls \/ (AllEvent # NoCall /\ ~Delivering)
      BY <1>1 DEF Names, NamesAll
    <2>3. Pending /\ ~Where({"AllReset", "AllSignal", "AllClear"})
      BY <1>1, <2>1, <2>2, Opened DEF Pending, Where, Delivering, CtlParams, Control, Suppressed
    <2>4. \A q \in Procs : ~Unmarked(q)
      BY <1>1, <2>1, Opened DEF Unmarked, CtlParams, Accepted, Started, Id, ForAll, Polls
    <2>5. Marked = Waiting(CpuList)
      BY <2>4 DEF Marked, Waiting
    <2> QED BY <1>1, <2>3, <2>5, Opened DEF Counted
  <1>2. Spec => []TypeOK
    BY TypeCorrect
  <1>3. Init => Control /\ Owners /\ Names
    BY ControlStart, OwnersStart, NamesStart
  <1>4. TypeOK /\ TypeOK' /\ Control /\ Owners /\ Names /\ [Next]_vars => (Control /\ Owners /\ Names)'
    BY ControlStep, OwnersStep, NamesStep
  <1> QED BY <1>1, <1>2, <1>3, <1>4, PTL DEF Spec
=============================================================================
