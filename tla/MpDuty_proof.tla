------------------------------ MODULE MpDuty_proof ------------------------------
(***************************************************************************)
(* Theorems about what becomes of a call and of the APs it was given to,   *)
(* under the assumptions of MpCalls_proof and from its invariants: no AP   *)
(* is forgotten, none runs a procedure for an answered call, single thread *)
(* mode runs one AP at a time, the FailedCpuList is honest; and the driver *)
(* implements ApJobs, what a caller is told of its calls.                  *)
(***************************************************************************)
EXTENDS MpCalls_proof

(* The StartupAllAPs call in progress is k; p still owes call k an answer. *)
Joint(k)   == AllEvent = k \/ (Id = k /\ ForAll)
Owes(p, k) == \/ Joint(k) /\ CpuList[p]
              \/ Id = k /\ Serving(p)
              \/ WaitEvent[p] = k
Done(p)    == State[p] = "FINISHED" \/ (State[p] = "BUSY" /\ apc[p] \in {"returned", "cleared"})

(* The Procedure of an AP names a call that waits for it or that ended for *)
(* lack of memory, from the wake-up until the AP clears it; an AP that a   *)
(* pending call was given to still owes it an answer, has run, or failed.  *)
Duty(p, k) ==
  /\ Owes(p, k) => p \in assigned[k]
  /\ Owes(p, k) /\ result[k] = "pending" =>
       Procedure[p] \in {NoCall, k} /\ (p \in served[k] <=> Done(p))
  /\ Procedure[p] = k =>
       /\ p \in assigned[k] /\ result[k] \in {"pending", "resources"}
       /\ result[k] = "pending" \/ Joint(k) => Owes(p, k)
       /\ p \in served[k] <=> apc[p] = "returned"
  /\ result[k] = "pending" /\ p \in assigned[k] =>
       Owes(p, k) \/ p \in served[k] \/ p \in failed[k]
  /\ p \in served[k] => p \in assigned[k]

(* What ApProcWrapper runs is what it found in Procedure.                  *)
Given(p) == job[p] \in Calls => Procedure[p] = job[p]

(* An AP that is not IDLE has an owner, or a call left it for lack of memory. *)
Left(p)  == \E k \in Calls : result[k] = "resources" /\ p \in assigned[k]
Owner(p) == Listed(p) \/ WaitEvent[p] # NoCall \/ Serving(p)
Cared(p) == ~Outside(p) /\ State[p] \in Taken => Owner(p) \/ Left(p)

(* CheckAllAps resets the listed APs from the first on, and there was one; *)
(* an answered StartupAllAPs call lists no AP unless memory was lacking.   *)
Resetting(c) ==
  pc[c] = "AllReset" =>
    /\ \A p \in Procs : p < cur[c] => ~CpuList[p]
    /\ failed[AllProc] # {} \/ Waiting(CpuList) # {}
Delivered == Delivering => \A p \in Procs : CpuList[p] => result[AllProc] = "resources"

Duties ==
  /\ \A p \in Procs, k \in Calls : Duty(p, k)
  /\ \A p \in Procs : Given(p) /\ Cared(p)
  /\ \A c \in Contexts : Resetting(c)
  /\ Delivered
  /\ FailedListHonest

Inv == Control /\ Owners /\ Names /\ Duties

LEMMA DutiesStart == Init => Duties
  <1> SUFFICES ASSUME Init PROVE Duties
    OBVIOUS
  <1>1. Id = NoCall /\ AllEvent = NoCall /\ BSP = 0 /\ ~Delivering
    BY NoOpIs DEF Init, Contexts, Id, Delivering, Where
  <1>2. \A p \in Procs : WaitEvent[p] = NoCall /\ Procedure[p] = NoCall /\ job[p] = NoCall /\ State[p] \notin Taken
    BY DEF Init, Taken
  <1>3. \A k \in Calls : /\ result[k] = "none" /\ assigned[k] = {} /\ served[k] = {} /\ failed[k] = {}
                         /\ k # NoCall
    BY CallsAssumption DEF Init, Calls, NoCall
  <1>4. \A c \in Contexts : pc[c] = "idle"
    BY DEF Init
  <1> QED BY <1>1, <1>2, <1>3, <1>4 DEF Duties, Duty, Owes, Joint, Serving, Given, Cared, Resetting, Delivered, FailedListHonest

LEMMA Unfolded ==
  ASSUME Inv
  PROVE  /\ Control /\ CtlParams /\ CtlEvents /\ Owners /\ Names /\ Duties
         /\ \A p \in Procs : Owned(p) /\ (~Outside(p) => Works(p)) /\ NamesThis(p)
         /\ Roles /\ NamesId /\ NamesAll /\ NamesFree
         /\ \A p \in Procs, k \in Calls : Duty(p, k)
         /\ \A p \in Procs : Given(p) /\ Cared(p)
  BY Opened DEF Inv, Names, Duties

(* Each AP owes an answer to one call, and each single call has one AP.    *)
LEMMA OneDebt ==
  ASSUME TypeOK, Inv, NEW p \in Procs, NEW k \in Calls, Owes(p, k)
  PROVE  /\ ~Outside(p)
         /\ \A j \in Calls : Owes(p, j) => j = k
         /\ Joint(k) => Listed(p) /\ ~Serving(p) /\ \A q \in Procs : WaitEvent[q] # k
         /\ WaitEvent[p] = k => ~Joint(k) /\ Id # k /\ \A q \in Procs : WaitEvent[q] = k => q = p
         /\ Id = k /\ ~ForAll => Serving(p) /\ ~Joint(k) /\ \A q \in Procs : WaitEvent[q] # k
  <1>1. k # NoCall /\ \A j \in Calls : j # NoCall
    BY Ranges
  <1>2. \A j \in Calls : Joint(j) /\ CpuList[p] => Listed(p)
    BY <1>1 DEF Joint, Listed, Pending
  <1>3. Listed(p) \/ Serving(p) \/ WaitEvent[p] # NoCall
    BY <1>1, <1>2 DEF Owes
  <1>4. /\ ~Outside(p)
        /\ Listed(p) => WaitEvent[p] = NoCall /\ ~Serving(p)
        /\ WaitEvent[p] # NoCall => ~Serving(p)
    BY <1>3, Unfolded DEF Owned
  <1>5. \A j \in Calls : Joint(j) /\ Joint(k) => j = k
    BY <1>1, Unfolded DEF Joint, CtlEvents
  <1>6. \A q \in Procs : WaitEvent[q] = k => assigned[k] = {q}
    BY <1>1, Unfolded DEF NamesThis
  <1>7. Joint(k) => \A q \in Procs : WaitEvent[q] # k
    BY <1>1, Unfolded DEF Joint, NamesAll, NamesId
  <1>8. Id = k => k # AllEvent /\ \A q \in Procs : WaitEvent[q] # k
    BY <1>1, Unfolded DEF NamesId
  <1>9. \A q \in Procs : WaitEvent[q] = k /\ WaitEvent[p] = k => q = p
    BY <1>6
  <1>10. \A j \in Calls : Owes(p, j) => j = k
    BY <1>1, <1>2, <1>4, <1>5 DEF Owes, Serving
  <1> QED BY <1>1, <1>2, <1>4, <1>7, <1>8, <1>9, <1>10 DEF Owes, Joint, Serving
-----------------------------------------------------------------------------
(* How single facts are kept.                                              *)
LEMMA DutyKept ==
  ASSUME NEW p \in Procs, NEW k \in Calls, Duty(p, k), result'[k] = result[k],
         p \in assigned'[k] <=> p \in assigned[k], p \in served'[k] <=> p \in served[k],
         p \in failed[k] => p \in failed'[k],
         Owes(p, k)' => Owes(p, k),
         result[k] = "pending" /\ Owes(p, k) => Owes(p, k)' \/ p \in served[k] \/ p \in failed'[k],
         Procedure'[p] = k => /\ Procedure[p] = k /\ (apc'[p] = "returned" <=> apc[p] = "returned")
                              /\ Joint(k)' => Joint(k)
                              /\ (result[k] = "pending" \/ Joint(k)) /\ Owes(p, k) => Owes(p, k)',
         Owes(p, k)' => Procedure'[p] \in {NoCall, Procedure[p]} /\ (Done(p)' <=> Done(p))
  PROVE  Duty(p, k)'
  BY DEF Duty

LEMMA DutyAnswered ==
  ASSUME NEW p \in Procs, NEW k \in Calls, Duty(p, k), result'[k] \in Answers,
         assigned'[k] = assigned[k], served'[k] = served[k],
         Owes(p, k)' => Owes(p, k),
         Procedure'[p] = k => /\ result'[k] = "resources" /\ Procedure[p] = k /\ apc'[p] = apc[p]
                              /\ Joint(k)' => Joint(k)
                              /\ Joint(k)' /\ Owes(p, k) => Owes(p, k)'
  PROVE  Duty(p, k)'
  BY DEF Duty, Answers

LEMMA CaredKept ==
  ASSUME TypeOK, NEW p \in Procs, Cared(p), Left(p) => Left(p)',
         ~Outside(p)' /\ State'[p] \in Taken => ~Outside(p) /\ State[p] \in Taken,
         State'[p] \in Taken /\ Owner(p) => Owner(p)' \/ Left(p)'
  PROVE  Cared(p)'
  BY DEF Cared

(* Lack of memory is not forgotten. *)
LEMMA LeftKept ==
  ASSUME TypeOK, NEW p \in Procs,
         \A k \in Calls : result[k] = "resources" => result'[k] = "resources" /\ assigned'[k] = assigned[k]
  PROVE  Left(p) => Left(p)'
  BY DEF Left

LEMMA HonestKept ==
  ASSUME TypeOK, TypeOK', FailedListHonest,
         \A k \in Calls : /\ served[k] \subseteq served'[k]
                          /\ result'[k] = "timeout" =>
                               \/ /\ result[k] = "timeout" /\ assigned'[k] = assigned[k] /\ failed'[k] = failed[k]
                               \/ failed'[k] # {} /\ assigned'[k] \ failed'[k] \subseteq served[k]
  PROVE  FailedListHonest'
  BY DEF FailedListHonest

(* A step in which no AP moves, no call is accepted or answered, and no    *)
(* debt is forgiven but of calls answered.                                 *)
LEMMA DutiesStill ==
  ASSUME TypeOK, TypeOK', Inv, Control',
         UNCHANGED <<State, Procedure, apc, job, result, assigned, served, failed>>,
         \A p \in Procs, k \in Calls : /\ Owes(p, k)' => Owes(p, k)
                                       /\ Joint(k)' => Joint(k)
                                       /\ result[k] = "pending" \/ Joint(k)' =>
                                            (Owes(p, k) => Owes(p, k)'),
         \A p \in Procs : Outside(p) => Outside(p)',
         \A p \in Procs : Owner(p) /\ State[p] \in Taken => Owner(p)' \/ Left(p),
         \A c \in Contexts : Resetting(c)', Delivered'
  PROVE  Duties'
  <1>1. ASSUME NEW p \in Procs, NEW k \in Calls PROVE Duty(p, k)'
    <2>1. Done(p)' <=> Done(p)
      BY DEF Done
    <2>2. Procedure[p] = k /\ Owes(p, k) /\ Joint(k) /\ ~Joint(k)' /\ ~Owes(p, k)' => result[k] # "pending"
      OBVIOUS
    <2> QED BY <2>1, Unfolded DEF Duty
  <1>2. ASSUME NEW p \in Procs PROVE Given(p)' /\ Cared(p)'
    <2>1. Left(p) <=> Left(p)'
      BY DEF Left
    <2>2. Cared(p)'
      BY <2>1, CaredKept, Unfolded
    <2> QED BY <2>2, Unfolded DEF Given
  <1>3. FailedListHonest'
    BY Unfolded DEF Duties, FailedListHonest
  <1> QED BY <1>1, <1>2, <1>3 DEF Duties

LEMMA Alone ==
  ASSUME Control, NEW c \in Contexts, Active(c), pc[c] \notin {"idle", "Exchange", "SwitchWait"}
  PROVE  /\ \A d \in Contexts : d # c => pc[d] \in {"idle", "SwitchWait"}
         /\ c = "main" \/ (c = "timer" /\ pc[c] \in Checking)
         /\ "main" \in Contexts /\ "timer" \in Contexts /\ "notify" \in Contexts
  BY Turn DEF Contexts

(* A context that checks and neither collects, resets nor answers. *)
LEMMA DutiesWalk ==
  ASSUME TypeOK, TypeOK', Inv, Control', NEW c \in Contexts, Active(c), pc[c] \in Checking,
         \A d \in Contexts : d # c => pc'[d] = pc[d] /\ cur'[d] = cur[d],
         UNCHANGED <<State, Procedure, apc, job, result, assigned, served, failed, AllProc, CpuList, op, BSP>>,
         AllEvent' = AllEvent \/ (AllEvent' = NoCall /\ pc[c] = "AllClear"),
         \A q \in Procs : WaitEvent'[q] = WaitEvent[q] \/ (WaitEvent'[q] = NoCall /\ Closing(q)),
         pc'[c] = "AllReset" => cur'[c] = 0 /\ Waiting(CpuList) # {},
         pc'[c] \in {"AllSignal", "AllClear"} => pc[c] \in {"AllSignal", "AllClear"}
  PROVE  Duties'
  <1>0. /\ \A d \in Contexts : d # c => pc[d] \in {"idle", "SwitchWait"}
        /\ c = "main" \/ c = "timer"
        /\ "main" \in Contexts /\ "timer" \in Contexts
    BY Alone, Unfolded DEF Checking
  <1>1. /\ Id' = Id /\ ForAll' = ForAll /\ (\A p \in Procs : Serving(p)' <=> Serving(p))
        /\ \A k \in Calls : k # NoCall
    BY Ranges DEF Id, ForAll, Serving, Target
  <1>2. pc[c] = "AllClear" => Delivering /\ AllEvent # NoCall /\ AllProc = AllEvent /\ AllEvent \in Calls
    BY <1>0, Unfolded, Ranges DEF Delivering, Where, CtlEvents
  <1>3. ASSUME NEW k \in Calls, pc[c] = "AllClear", AllEvent = k
        PROVE  result[k] \in Answers /\ ~(Id = k)
    BY <1>1, <1>2, <1>3, Unfolded DEF NamesAll, NamesId, Awaited
  <1>4. ASSUME NEW q \in Procs, NEW k \in Calls, WaitEvent[q] = k, WaitEvent'[q] # k
        PROVE  result[k] \in Answers /\ ~Joint(k) /\ State[q] \notin Taken
    <2>1. WaitEvent[q] # NoCall /\ Closing(q)
      BY <1>1, <1>4
    <2>2. State[q] \notin Taken /\ result[k] \in Answers
      BY <1>4, <2>1, Unfolded DEF NamesThis, Awaited, Owned, Taken
    <2>3. Owes(q, k)
      BY <1>4 DEF Owes
    <2> QED BY <1>4, <2>2, <2>3, OneDebt
  <1>5. ASSUME NEW p \in Procs, NEW k \in Calls
        PROVE  /\ Owes(p, k)' => Owes(p, k)
               /\ Joint(k)' => Joint(k)
               /\ result[k] = "pending" \/ Joint(k)' => (Owes(p, k) => Owes(p, k)')
    <2>1. Joint(k)' => Joint(k)
      BY <1>1 DEF Joint
    <2>2. Owes(p, k)' => Owes(p, k)
      BY <1>1, <2>1 DEF Owes
    <2>3. Joint(k) => Joint(k)' \/ result[k] \in Answers
      BY <1>1, <1>3 DEF Joint
    <2>4. ASSUME Owes(p, k), ~Owes(p, k)' PROVE result[k] \in Answers /\ ~Joint(k)'
      BY <1>1, <1>3, <1>4, <2>1, <2>3, <2>4 DEF Owes, Joint
    <2> QED BY <2>1, <2>2, <2>4 DEF Answers
  <1>6. ASSUME NEW p \in Procs PROVE Outside(p) => Outside(p)'
    BY <1>0 DEF Outside, SwitchOwns, Checking
  <1>7. ASSUME NEW p \in Procs, Owner(p), State[p] \in Taken PROVE Owner(p)' \/ Left(p)
    <2>1. CASE Listed(p)
      <3>1. CASE AllEvent' = AllEvent
        BY <1>1, <2>1, <3>1 DEF Owner, Listed, Pending
      <3>2. CASE AllEvent' # AllEvent
        <4>1. Owes(p, AllEvent) /\ result[AllEvent] = "resources" /\ AllEvent \in Calls
          BY <1>2, <2>1, <3>2, Unfolded DEF Owes, Joint, Listed, Duties, Delivered
        <4>2. Duty(p, AllEvent)
          BY <4>1, Unfolded
        <4> QED BY <4>1, <4>2 DEF Left, Duty
      <3> QED BY <3>1, <3>2
    <2>2. CASE WaitEvent[p] # NoCall
      <3>1. WaitEvent[p] \in Calls
        BY <2>2, Ranges
      <3>2. WaitEvent'[p] = WaitEvent[p]
        BY <1>4, <1>7, <3>1
      <3> QED BY <2>2, <3>2 DEF Owner
    <2>3. CASE Serving(p)
      BY <1>1, <2>3 DEF Owner
    <2> QED BY <1>7, <2>1, <2>2, <2>3 DEF Owner
  <1>8. ASSUME NEW d \in Contexts PROVE Resetting(d)'
    <2>1. CASE d = c
      BY <2>1, Ranges DEF Resetting, Procs, Waiting
    <2>2. CASE d # c
      BY <1>0, <2>2 DEF Resetting
    <2> QED BY <2>1, <2>2
  <1>9. Delivered'
    BY <1>0, Unfolded DEF Duties, Delivered, Delivering, Where
  <1> QED BY <1>5, <1>6, <1>7, <1>8, <1>9, DutiesStill

(* Where CheckAllAps compares the counts it asks whether an AP is listed.  *)
LEMMA AllCounted ==
  ASSUME TypeOK, Inv, NEW c \in Contexts, At(c, "AllAps")
  PROVE  FinishCount = StartCount <=> Waiting(CpuList) = {}
  <1>1. /\ \A d \in Contexts : d # c => pc[d] \in {"idle", "SwitchWait"}
        /\ c = "main" \/ c = "timer"
        /\ "main" \in Contexts /\ "timer" \in Contexts /\ pc[c] = "AllAps"
    BY Alone, Unfolded DEF At, Checking
  <1>2. Pending /\ ~Where({"AllReset", "AllSignal", "AllClear"})
    BY <1>1, Unfolded, NoOpIs DEF CtlEvents, CtlParams, Pending, Polls, Where, Id
  <1>3. Marked = Waiting(CpuList) /\ Waiting(CpuList) \in SUBSET Procs
    BY <1>1 DEF Marked, Unmarked, Waiting
  <1>4. StartCount = FinishCount + Cardinality(Waiting(CpuList))
    BY <1>2, <1>3, Opened DEF Inv, Counted
  <1>5. FinishCount \in Nat /\ StartCount \in Nat
    BY DEF TypeOK
  <1> QED BY <1>3, <1>4, <1>5, SomeProcs

LEMMA DutiesWalks ==
  ASSUME TypeOK, TypeOK', Inv, Control', NEW c \in Contexts,
         \/ Update(c) \/ SkipAp(c) \/ AllExpired(c) \/ AllNotReady(c) \/ AllSignal(c) \/ AllClear(c)
         \/ EachSkip(c) \/ EachSignal(c) \/ EachClear(c) \/ Updated(c)
  PROVE  Duties'
  <1>1. /\ Active(c) /\ pc[c] \in Checking
        /\ \A d \in Contexts : d # c => pc'[d] = pc[d] /\ cur'[d] = cur[d]
        /\ UNCHANGED <<State, Procedure, apc, job, result, assigned, served, failed, AllProc, CpuList, op, BSP>>
    BY Moves DEF Update, SkipAp, AllExpired, AllNotReady, AllSignal, AllClear, EachSkip, EachSignal, EachClear,
       Updated, At, Checking, cpuVars, allVars, callVars
  <1>2. CASE AllExpired(c)
    <2>1. /\ pc'[c] = "AllReset" /\ cur'[c] = 0 /\ UNCHANGED <<AllEvent, WaitEvent>>
          /\ At(c, "AllAps") /\ FinishCount # StartCount
      BY <1>2, Moves DEF AllExpired, allVars, thisVars
    <2>2. Waiting(CpuList) # {}
      BY <2>1, AllCounted
    <2> QED BY <1>1, <2>1, <2>2, DutiesWalk
  <1>3. CASE Update(c) \/ SkipAp(c) \/ AllNotReady(c) \/ EachSkip(c) \/ EachSignal(c) \/ Updated(c)
    <2>1. /\ pc'[c] \notin {"AllReset", "AllSignal", "AllClear"} /\ UNCHANGED <<AllEvent, WaitEvent>>
      BY <1>3, Moves DEF Update, SkipAp, AllNotReady, EachSkip, EachSignal, Updated, allVars, thisVars
    <2> QED BY <1>1, <2>1, DutiesWalk
  <1>4. CASE AllSignal(c)
    <2>1. /\ pc[c] = "AllSignal" /\ pc'[c] = "AllClear" /\ UNCHANGED <<AllEvent, WaitEvent>>
      BY <1>4, Moves DEF AllSignal, At, allVars, thisVars
    <2> QED BY <1>1, <2>1, DutiesWalk
  <1>5. CASE AllClear(c)
    <2>1. /\ pc[c] = "AllClear" /\ pc'[c] = "EachAp" /\ AllEvent' = NoCall /\ UNCHANGED WaitEvent
      BY <1>5, Moves DEF AllClear, At, thisVars
    <2> QED BY <1>1, <2>1, DutiesWalk
  <1>6. CASE EachClear(c)
    <2>1. /\ pc[c] = "EachClear" /\ pc'[c] = "EachAp" /\ AllEvent' = AllEvent
          /\ cur[c] \in Procs /\ WaitEvent' = [WaitEvent EXCEPT ![cur[c]] = NoCall]
      BY <1>6, Moves, CurIsProc DEF EachClear, At, allVars
    <2>2. c = "main" \/ c = "timer"
      BY <1>1, Alone, Unfolded DEF Checking
    <2>3. \A q \in Procs : WaitEvent'[q] = WaitEvent[q] \/ (WaitEvent'[q] = NoCall /\ Closing(q))
      BY <2>1, <2>2 DEF TypeOK, Closing
    <2> QED BY <1>1, <2>1, <2>3, DutiesWalk
  <1> QED BY <1>2, <1>3, <1>4, <1>5, <1>6

(* CheckAllAps answers the call. *)
LEMMA JointAtCheck ==
  ASSUME TypeOK, Inv, NEW c \in Contexts, At(c, "AllAps") \/ At(c, "AllReset")
  PROVE  /\ AllProc \in Calls /\ Joint(AllProc) /\ result[AllProc] = "pending" /\ ~Delivering
         /\ IF op[c].poll THEN c = "main" /\ Id = AllProc /\ ForAll /\ AllEvent = NoCall
                          ELSE AllEvent = AllProc
         /\ \A q \in Procs : ~Serving(q)
         /\ \A j \in Calls : Joint(j) => j = AllProc
         /\ \A d \in Contexts : d # c => pc[d] \in {"idle", "SwitchWait"}
         /\ c = "main" \/ c = "timer"
         /\ "main" \in Contexts /\ "timer" \in Contexts
         /\ \A q \in Procs : Outside(q) => q = BSP \/ c # "main"
  <1>1. /\ \A d \in Contexts : d # c => pc[d] \in {"idle", "SwitchWait"}
        /\ c = "main" \/ c = "timer"
        /\ "main" \in Contexts /\ "timer" \in Contexts /\ pc[c] \in {"AllAps", "AllReset"}
        /\ AllEvent # NoCall \/ op[c].poll
    BY Alone, Unfolded DEF At, Checking, CtlEvents
  <1>2. ~Delivering
    BY <1>1 DEF Delivering, Where
  <1>3. CASE op[c].poll
    <2>1. c = "main" /\ Polls /\ Id = AllProc /\ ForAll /\ AllEvent = NoCall /\ Id # NoCall
      BY <1>1, <1>3, Unfolded, NoOpIs DEF CtlParams, CtlEvents, Polls
    <2>2. AllProc \in Calls /\ result[AllProc] = "pending"
      BY <2>1, Ranges, Unfolded DEF NamesId, Awaited
    <2> QED BY <1>1, <1>2, <1>3, <2>1, <2>2, Ranges DEF Joint, Serving, Outside, SwitchOwns
  <1>4. CASE ~op[c].poll
    <2>1. AllEvent # NoCall /\ AllProc = AllEvent
      BY <1>1, <1>4, Unfolded DEF CtlEvents
    <2>2. AllProc \in Calls /\ result[AllProc] = "pending"
      BY <1>2, <2>1, Ranges, Unfolded DEF NamesAll, Awaited
    <2>3. ~ForAll /\ \A q \in Procs : ~Serving(q)
      BY <1>1, <1>4, <2>1, Unfolded DEF CtlEvents, CtlParams, Serving, Accepted, Polls, Id
    <2> QED BY <1>1, <1>2, <1>4, <2>1, <2>2, <2>3 DEF Joint, Outside, SwitchOwns
  <1> QED BY <1>3, <1>4

LEMMA DutiesAllDone ==
  ASSUME TypeOK, TypeOK', Inv, Control', NEW c \in Contexts, NEW r \in Answers,
         At(c, "AllAps") \/ At(c, "AllReset"), Report(AllProc, r), Deliver(c),
         UNCHANGED <<cpuVars, thisVars, allVars, BSP, assigned, served, failed>>,
         r # "resources" => Waiting(CpuList) = {},
         r = "timeout" => failed[AllProc] # {}
  PROVE  Duties'
  <1> DEFINE k == AllProc
  <1>1. /\ k \in Calls /\ Joint(k) /\ result[k] = "pending" /\ ~Delivering
        /\ IF op[c].poll THEN c = "main" /\ Id = k /\ ForAll /\ AllEvent = NoCall ELSE AllEvent = k
        /\ \A q \in Procs : ~Serving(q)
        /\ \A j \in Calls : Joint(j) => j = k
        /\ \A d \in Contexts : d # c => pc[d] \in {"idle", "SwitchWait"}
        /\ c = "main" \/ c = "timer"
        /\ "main" \in Contexts /\ "timer" \in Contexts
    BY JointAtCheck
  <1>2. /\ result'[k] = r
        /\ \A j \in Calls : j # k => result'[j] = result[j]
    BY <1>1, Answering
  <1>3. UNCHANGED <<State, Procedure, apc, job, CpuList, AllEvent, WaitEvent, AllProc, BSP>> /\ k' = k
    BY DEF cpuVars, thisVars, allVars
  <1>4. \/ /\ op[c].poll /\ pc'[c] = "idle" /\ Id' = NoCall
        \/ /\ ~op[c].poll /\ pc'[c] = "AllSignal" /\ op' = op
    BY <1>1, Delivers, NoOpIs DEF Id, Deliver
  <1>4a. \A d \in Contexts : d # c => pc'[d] = pc[d] /\ cur'[d] = cur[d]
    BY Delivers
  <1> HIDE DEF k
  <1>5. /\ \A j \in Calls : Joint(j)' => Joint(j) /\ ~op[c].poll
        /\ \A q \in Procs : ~Serving(q)'
        /\ ~op[c].poll => Joint(k)'
    <2>1. \A j \in Calls : j # NoCall
      BY Ranges
    <2>2. CASE op[c].poll /\ Id' = NoCall
      BY <1>1, <1>3, <2>1, <2>2 DEF Joint, Serving
    <2>3. CASE ~op[c].poll /\ op' = op
      BY <1>1, <1>3, <2>3 DEF Joint, Serving, Id, ForAll, Target
    <2> QED BY <1>4, <2>2, <2>3
  <1>6. ASSUME NEW p \in Procs, NEW j \in Calls
        PROVE  /\ Owes(p, j)' => Owes(p, j)
               /\ Owes(p, j) => Owes(p, j)' \/ (j = k /\ op[c].poll)
    <2>1. CpuList'[p] = CpuList[p] /\ WaitEvent'[p] = WaitEvent[p] /\ ~Serving(p) /\ ~Serving(p)'
      BY <1>1, <1>3, <1>5
    <2>2. Joint(j)' => Joint(j)
      BY <1>5
    <2>3. Joint(j) => Joint(j)' \/ (j = k /\ op[c].poll)
      <3>1. Joint(k)' /\ j = k => Joint(j)'
        BY <1>3
      <3> QED BY <1>1, <1>5, <3>1
    <2> QED BY <2>1, <2>2, <2>3 DEF Owes
  <1>7. ASSUME NEW p \in Procs, Owes(p, k) PROVE CpuList[p] /\ r = "resources"
    <2>1. CpuList[p]
      BY <1>1, <1>7, OneDebt DEF Listed
    <2> QED BY <2>1 DEF Waiting
  <1>8. ASSUME NEW p \in Procs, NEW j \in Calls PROVE Duty(p, j)'
    <2>1. Duty(p, j) /\ (Done(p)' <=> Done(p))
      BY <1>3, Unfolded DEF Done
    <2>2. CASE j # k
      BY <1>1, <1>2, <1>3, <1>5, <1>6, <2>1, <2>2, DutyKept
    <2>3. CASE j = k
      <3>1. Procedure[p] = k => Owes(p, k)
        BY <1>1, <2>1, <2>3 DEF Duty
      <3> QED BY <1>1, <1>2, <1>3, <1>5, <1>6, <1>7, <2>1, <2>3, <3>1, DutyAnswered
    <2> QED BY <2>2, <2>3
  <1>9. ASSUME NEW p \in Procs PROVE Given(p)' /\ Cared(p)'
    <2>1. Left(p) => Left(p)'
      BY <1>1, <1>2, LeftKept
    <2>2. Outside(p) => Outside(p)'
      BY <1>1, <1>3, <1>4, <1>4a DEF Outside, SwitchOwns, At
    <2>3. ASSUME Owner(p) PROVE Owner(p)' \/ Left(p)'
      <3>1. CASE WaitEvent[p] # NoCall
        BY <1>3, <3>1 DEF Owner
      <3>2. CASE CpuList[p] /\ ~op[c].poll
        BY <1>1, <1>3, <1>5, <3>2 DEF Owner, Listed, Pending, Joint, NoCall, Calls
      <3>3. CASE CpuList[p] /\ op[c].poll
        <4>1. Owes(p, k) /\ Duty(p, k)
          BY <1>1, <3>3, Unfolded DEF Owes
        <4>2. p \in assigned'[k] /\ result'[k] = "resources"
          BY <1>2, <1>7, <4>1 DEF Duty
        <4> QED BY <1>1, <4>2 DEF Left
      <3> QED BY <1>1, <2>3, <3>1, <3>2, <3>3 DEF Owner, Listed
    <2>4. Cared(p)'
      BY <1>3, <2>1, <2>2, <2>3, CaredKept, Unfolded
    <2> QED BY <1>3, <2>4, Unfolded DEF Given
  <1>10. ASSUME NEW d \in Contexts PROVE Resetting(d)'
    BY <1>1, <1>4, <1>4a DEF Resetting
  <1>11. Delivered'
    BY <1>1, <1>2, <1>3, <1>4, <1>4a DEF Delivered, Delivering, Where, Waiting, k
  <1>12. FailedListHonest'
    <2>1. ASSUME r = "timeout" PROVE failed[k] # {} /\ assigned[k] \ failed[k] \subseteq served[k]
      <3>1. \A p \in Procs : ~Owes(p, k)
        BY <1>7, <2>1
      <3>2. \A p \in assigned[k] : p \in Procs
        BY <1>1 DEF TypeOK
      <3> QED BY <1>1, <2>1, <3>1, <3>2, Unfolded DEF Duty, k
    <2> QED BY <1>1, <1>2, <2>1, HonestKept, Unfolded DEF Duties
  <1> QED BY <1>8, <1>9, <1>10, <1>11, <1>12 DEF Duties

(* CheckThisAp answers a StartupThisAP call. *)
LEMMA DutiesOneDone ==
  ASSUME TypeOK, TypeOK', Inv, NEW p \in Procs, NEW k \in Calls,
         Owes(p, k), ~Joint(k), result[k] = "pending", assigned[k] = {p},
         ThisFinished(p, k) \/ ThisExpired(p, k),
         UNCHANGED <<AllProc, assigned, served, BSP>>,
         \A q \in Procs, j \in Calls : /\ Owes(q, j)' => Owes(q, j)
                                       /\ Owes(q, j) => Owes(q, j)' \/ j = k
                                       /\ Joint(j)' <=> Joint(j),
         \A q \in Procs : Outside(q) => Outside(q)',
         \A q \in Procs : Owner(q) => Owner(q)' \/ q = p,
         \A d \in Contexts : pc'[d] # "AllReset",
         Delivered => Delivered'
  PROVE  Duties'
  <1>1. ~Outside(p) /\ Works(p) /\ \A j \in Calls : Owes(p, j) => j = k
    BY OneDebt, Unfolded
  <1>2. /\ State'[p] = "IDLE" /\ Procedure'[p] = NoCall
        /\ \A q \in Procs : q # p => /\ State'[q] = State[q] /\ Procedure'[q] = Procedure[q]
                                     /\ apc'[q] = apc[q] /\ job'[q] = job[q]
        /\ job'[p] \notin Calls
    <2>1. CASE ThisFinished(p, k)
      <3>1. State' = [State EXCEPT ![p] = "IDLE"] /\ UNCHANGED <<Procedure, apc, job>>
            /\ State[p] = "FINISHED"
        BY <2>1 DEF ThisFinished
      <3>2. Procedure[p] = NoCall /\ job[p] \notin Calls
        BY <1>1, <3>1, Unfolded, Ranges DEF Works, Given
      <3> QED BY <3>1, <3>2 DEF TypeOK
    <2>2. CASE ThisExpired(p, k)
      <3>1. ResetProcessorToIdleState(p)
        BY <2>2 DEF ThisExpired
      <3>2. job'[p] = NoCall
        BY <3>1 DEF ResetProcessorToIdleState, TypeOK
      <3> QED BY <3>1, <3>2, ResetAp, Ranges
    <2> QED BY <2>1, <2>2
  <1>3. \/ Report(k, "success") /\ failed' = failed
        \/ Report(k, "timeout") /\ failed' = [failed EXCEPT ![k] = {p}]
    BY DEF ThisFinished, ThisExpired
  <1>4. /\ result'[k] \in {"success", "timeout"}
        /\ \A j \in Calls : j # k => result'[j] = result[j] /\ failed'[j] = failed[j]
        /\ result'[k] = "timeout" => failed'[k] = {p}
    BY <1>3 DEF Report, TypeOK
  <1>5. ASSUME NEW q \in Procs, NEW j \in Calls PROVE Duty(q, j)'
    <2>1. Duty(q, j) /\ j # NoCall
      BY Unfolded, Ranges
    <2>2. q # p => (Done(q)' <=> Done(q))
      BY <1>2 DEF Done
    <2>3. CASE j # k /\ q # p
      BY <1>2, <1>4, <2>1, <2>2, <2>3, DutyKept
    <2>4. CASE j # k /\ q = p
      <3>1. ~Owes(q, j) /\ ~Owes(q, j)'
        BY <1>1, <2>4
      <3> QED BY <1>2, <1>4, <2>1, <2>4, <3>1, DutyKept
    <2>5. CASE j = k
      <3>1. Procedure'[q] # k
        BY <1>2, <2>1, <2>5 DEF Duty
      <3> QED BY <1>4, <2>1, <2>5, <3>1, DutyAnswered DEF Answers
    <2> QED BY <2>3, <2>4, <2>5
  <1>6. ASSUME NEW q \in Procs PROVE Given(q)' /\ Cared(q)'
    <2>1. Left(q) => Left(q)'
      BY <1>4, LeftKept
    <2>2. State'[q] \in Taken => q # p
      BY <1>2 DEF Taken
    <2>3. Cared(q)'
      BY <1>2, <2>1, <2>2, CaredKept, Unfolded
    <2>4. Given(q)'
      BY <1>2, Unfolded DEF Given
    <2> QED BY <2>3, <2>4
  <1>7. FailedListHonest'
    BY <1>4, HonestKept, Unfolded DEF Duties
  <1>8. (\A d \in Contexts : Resetting(d)') /\ Delivered'
    BY Unfolded DEF Duties, Resetting
  <1> QED BY <1>5, <1>6, <1>7, <1>8 DEF Duties

LEMMA DutiesEachDone ==
  ASSUME TypeOK, TypeOK', Inv, Control', NEW c \in Contexts, EachDone(c)
  PROVE  Duties'
  <1> DEFINE p == cur[c]
             k == WaitEvent[p]
  <1>1. /\ Active(c) /\ pc[c] = "EachAp" /\ p \in Procs /\ k # NoCall
        /\ UNCHANGED <<AllProc, AllEvent, WaitEvent, CpuList, assigned, served, BSP, op>>
    BY CurIsProc DEF EachDone, At, thisVars, allVars
  <1>2. /\ pc'[c] = "EachSignal" /\ cur'[c] = p
        /\ \A d \in Contexts : d # c => pc'[d] = pc[d] /\ cur'[d] = cur[d]
    BY Moves DEF EachDone
  <1>3. /\ \A d \in Contexts : d # c => pc[d] \in {"idle", "SwitchWait"}
        /\ c = "main" \/ c = "timer"
        /\ "main" \in Contexts /\ "timer" \in Contexts
    BY <1>1, Alone, Unfolded
  <1>4. k \in Calls /\ Owes(p, k)
    BY <1>1, Ranges DEF Owes
  <1>5. ~Closing(p)
    BY <1>1, <1>3 DEF Closing
  <1>6. result[k] = "pending" /\ assigned[k] = {p}
    BY <1>1, <1>5, Unfolded DEF NamesThis, Awaited
  <1>7. ~Joint(k)
    BY <1>4, OneDebt, <1>1
  <1>8. ThisFinished(p, k) \/ ThisExpired(p, k)
    BY DEF EachDone
  <1>9. \A q \in Procs : Owner(q)' <=> Owner(q)
    BY <1>1 DEF Owner, Listed, Pending, Serving, Id, ForAll, Target
  <1>10. /\ \A j \in Calls : Joint(j)' <=> Joint(j)
         /\ \A q \in Procs, j \in Calls : Owes(q, j)' <=> Owes(q, j)
    BY <1>1 DEF Owes, Joint, Serving, Id, ForAll, Target
  <1>11. \A q \in Procs : Outside(q) => Outside(q)'
    BY <1>1, <1>2, <1>3 DEF Outside, SwitchOwns
  <1>12. ~Delivering'
    BY <1>2, <1>3 DEF Delivering, Where
  <1>13. \A d \in Contexts : pc'[d] # "AllReset"
    BY <1>2, <1>3
  <1>14. Delivered'
    BY <1>12 DEF Delivered
  <1> HIDE DEF p, k
  <1> QED BY <1>1, <1>4, <1>6, <1>7, <1>8, <1>9, <1>10, <1>11, <1>13, <1>14, DutiesOneDone

LEMMA DutiesPollThis ==
  ASSUME TypeOK, TypeOK', Inv, Control', NEW c \in Callers, PollThis(c)
  PROVE  Duties'
  <1> DEFINE p == Target
             k == Id
  <1>1. /\ c = "main" /\ pc["main"] = "PollThis" /\ pc["timer"] = "idle"
        /\ "main" \in Contexts /\ "timer" \in Contexts /\ CtlParams /\ CtlEvents
        /\ pc["notify"] = "idle" /\ "notify" \in Contexts
    BY MainTurn, Unfolded DEF PollThis, At, Control, Suppressed, Contexts
  <1>2. /\ k # NoCall /\ ~ForAll /\ k \in Calls /\ p \in Procs
        /\ UNCHANGED <<AllProc, AllEvent, WaitEvent, CpuList, BSP, assigned, served>> /\ Return(c)
    <2>1. Id # NoCall /\ ~ForAll
      BY <1>1 DEF CtlParams, Accepted
    <2> QED BY <2>1, Ranges DEF PollThis, thisVars, allVars
  <1>3. /\ Id' = NoCall /\ pc'["main"] = "idle" /\ pc'["timer"] = "idle" /\ pc'["notify"] = "idle"
    BY <1>1, <1>2, Returns, NoOpIs DEF Id
  <1>4. Owes(p, k) /\ ~Joint(k) /\ result[k] = "pending" /\ assigned[k] = {p}
    BY <1>2, Unfolded DEF Owes, Joint, Serving, NamesId, Awaited
  <1>5. ThisFinished(p, k) \/ ThisExpired(p, k)
    BY <1>1 DEF PollThis, Id, Target
  <1>6. \A j \in Calls : j # NoCall
    BY Ranges
  <1>7. /\ \A j \in Calls : (Joint(j)' <=> Joint(j))
        /\ \A q \in Procs : ~Serving(q)' /\ (Serving(q) <=> q = p)
    BY <1>2, <1>3, <1>6 DEF Joint, Serving
  <1>8. ASSUME NEW q \in Procs, NEW j \in Calls
        PROVE  /\ Owes(q, j)' => Owes(q, j)
               /\ Owes(q, j) => Owes(q, j)' \/ j = k
    BY <1>2, <1>7 DEF Owes
  <1>9. ASSUME NEW q \in Procs PROVE Owner(q) => Owner(q)' \/ q = p
    BY <1>2, <1>3, <1>7 DEF Owner, Listed, Pending
  <1>10. \A q \in Procs : Outside(q) => Outside(q)'
    BY <1>1, <1>2 DEF Outside, SwitchOwns
  <1>11. \A d \in Contexts : pc'[d] # "AllReset"
    BY <1>3 DEF Contexts
  <1>12. Delivered'
    BY <1>3 DEF Delivered, Delivering, Where
  <1> HIDE DEF p, k
  <1> QED BY <1>2, <1>4, <1>5, <1>7, <1>8, <1>9, <1>10, <1>11, <1>12, DutiesOneDone

LEMMA DutiesAllReset ==
  ASSUME TypeOK, TypeOK', Inv, Control', NEW c \in Contexts, AllReset(c)
  PROVE  Duties'
  <1> DEFINE p == cur[c]
             k == AllProc
  <1>1. /\ Active(c) /\ pc[c] = "AllReset" /\ p \in Procs /\ p < N /\ At(c, "AllReset")
        /\ UNCHANGED <<AllProc, AllEvent, WaitEvent, result, assigned, served, BSP, op>>
    BY CurIsProc DEF AllReset, At, thisVars
  <1>2. /\ pc'[c] = "AllReset" /\ cur'[c] = p + 1
        /\ \A d \in Contexts : d # c => pc'[d] = pc[d] /\ cur'[d] = cur[d]
    BY Moves DEF AllReset
  <1>3. /\ k \in Calls /\ Joint(k) /\ result[k] = "pending" /\ ~Delivering
        /\ \A q \in Procs : ~Serving(q)
        /\ \A d \in Contexts : d # c => pc[d] \in {"idle", "SwitchWait"}
        /\ c = "main" \/ c = "timer"
        /\ "main" \in Contexts /\ "timer" \in Contexts
    BY <1>1, JointAtCheck
  <1>4. /\ Id' = Id /\ \A q \in Procs : Serving(q)' <=> Serving(q)
        /\ \A j \in Calls : Joint(j)' <=> Joint(j)
        /\ Pending' <=> Pending
    BY <1>1 DEF Joint, Serving, Pending, Id, ForAll, Target
  <1>5. \A q \in Procs : Outside(q) => Outside(q)'
    BY <1>1, <1>2, <1>3 DEF Outside, SwitchOwns
  <1>6. ~Delivering'
    BY <1>2, <1>3 DEF Delivering, Where
  <1>7. \A d \in Contexts : d # c => Resetting(d)'
    BY <1>2, <1>3 DEF Resetting
  <1>8. k' = k /\ Resetting(c)
    BY <1>1, Unfolded DEF Duties
  <1>9. CASE ~CpuList[p]
    <2>1. UNCHANGED <<State, Procedure, apc, job, CpuList, failed>>
      BY <1>9 DEF AllReset, cpuVars
    <2>2. \A q \in Procs, j \in Calls : Owes(q, j)' <=> Owes(q, j)
      BY <1>1, <1>4, <2>1 DEF Owes
    <2>3. \A q \in Procs : Owner(q)' <=> Owner(q)
      BY <1>1, <1>4, <2>1 DEF Owner, Listed
    <2>4. Resetting(c)'
      <3>1. \A q \in Procs : q < p + 1 => q < p \/ q = p
        BY <1>1 DEF Procs
      <3> QED BY <1>1, <1>2, <1>8, <1>9, <2>1, <3>1 DEF Resetting, Waiting
    <2>5. (\A d \in Contexts : Resetting(d)') /\ Delivered'
      BY <1>6, <1>7, <2>4 DEF Delivered
    <2> QED BY <1>1, <1>4, <1>5, <2>1, <2>2, <2>3, <2>5, DutiesStill
  <1>10. CASE CpuList[p]
    <2>1. /\ ResetProcessorToIdleState(p) /\ CpuList' = [CpuList EXCEPT ![p] = FALSE]
          /\ failed' = [failed EXCEPT ![k] = @ \union {p}]
      BY <1>10 DEF AllReset
    <2>2. /\ State'[p] = "IDLE" /\ Procedure'[p] = NoCall /\ job'[p] = NoCall
          /\ \A q \in Procs : q # p => /\ State'[q] = State[q] /\ Procedure'[q] = Procedure[q]
                                       /\ apc'[q] = apc[q] /\ job'[q] = job[q]
      BY <1>1, <2>1 DEF ResetProcessorToIdleState, TypeOK
    <2>3. /\ ~CpuList'[p] /\ \A q \in Procs : q # p => CpuList'[q] = CpuList[q]
          /\ p \in failed'[k]
          /\ \A j \in Calls : failed[j] \subseteq failed'[j] /\ (j # k => failed'[j] = failed[j])
      BY <1>1, <1>3, <2>1 DEF TypeOK
    <2>4. Owes(p, k) /\ \A j \in Calls : Owes(p, j) => j = k
      <3>1. Owes(p, k)
        BY <1>3, <1>10 DEF Owes
      <3> QED BY <1>1, <1>3, <3>1, OneDebt
    <2>5. ASSUME NEW q \in Procs, NEW j \in Calls
          PROVE  /\ Owes(q, j)' => Owes(q, j) /\ q # p
                 /\ Owes(q, j) => Owes(q, j)' \/ (q = p /\ j = k)
      <3>1. WaitEvent[p] # j
        <4>1. WaitEvent[p] # k
          BY <1>1, <1>3, <2>4, OneDebt
        <4> QED BY <2>4, <4>1 DEF Owes
      <3>2. CpuList'[q] => CpuList[q] /\ q # p
        BY <2>3
      <3>3. CpuList[q] => CpuList'[q] \/ q = p
        BY <2>3
      <3> HIDE DEF p, k
      <3> QED BY <1>1, <1>3, <1>4, <2>4, <3>1, <3>2, <3>3 DEF Owes
    <2> HIDE DEF p, k
    <2>6. ASSUME NEW q \in Procs, NEW j \in Calls PROVE Duty(q, j)'
      <3>1. Duty(q, j) /\ j # NoCall
        BY Unfolded, Ranges
      <3>2. q # p => (Done(q)' <=> Done(q))
        BY <2>2 DEF Done
      <3>3. q \in failed[j] => q \in failed'[j]
        BY <2>3
      <3> QED BY <1>1, <1>4, <2>2, <2>3, <2>5, <3>1, <3>2, <3>3, DutyKept
    <2>7. ASSUME NEW q \in Procs PROVE Given(q)' /\ Cared(q)'
      <3>1. Left(q) => Left(q)'
        BY <1>1, LeftKept
      <3>2. State'[q] \in Taken => q # p
        BY <2>2 DEF Taken
      <3>3. q # p => (Owner(q) => Owner(q)')
        BY <1>1, <1>4, <2>3 DEF Owner, Listed
      <3>4. Cared(q)'
        BY <1>5, <2>2, <3>1, <3>2, <3>3, CaredKept, Unfolded
      <3>5. Given(q)'
        BY <2>2, Unfolded, Ranges DEF Given
      <3> QED BY <3>4, <3>5
    <2>8. Resetting(c)'
      <3>1. \A q \in Procs : q < p + 1 => q < p \/ q = p
        BY <1>1 DEF Procs
      <3>2. \A q \in Procs : q < p + 1 => ~CpuList'[q]
        BY <1>1, <1>8, <2>3, <3>1 DEF Resetting, p
      <3>3. failed'[AllProc'] # {}
        BY <1>1, <2>3 DEF k
      <3> QED BY <1>2, <3>2, <3>3 DEF Resetting
    <2>9. FailedListHonest'
      BY <1>1, <1>3, <2>3, HonestKept, Unfolded DEF Duties
    <2> QED BY <1>6, <1>7, <2>6, <2>7, <2>8, <2>9 DEF Duties, Delivered
  <1> QED BY <1>9, <1>10

(* An AP that a pending call owns is given its procedure. *)
LEMMA DutyWoken ==
  ASSUME NEW q \in Procs, NEW k \in Calls, Duty(q, k), Works(q), State[q] = "READY", Procedure[q] = NoCall,
         Owes(q, k), Owes(q, k)', result[k] = "pending",
         State'[q] = "READY", Procedure'[q] = k, apc'[q] \in {"woken", apc[q]},
         result'[k] = result[k], assigned'[k] = assigned[k], served'[k] = served[k]
  PROVE  Duty(q, k)'
  <1>1. q \notin served[k] /\ q \in assigned[k]
    BY DEF Duty, Done
  <1>2. apc'[q] # "returned" /\ ~Done(q)'
    BY DEF Works, Quiet, Done
  <1> QED BY <1>1, <1>2 DEF Duty

LEMMA Waking ==
  ASSUME TypeOK, NEW STATE n, n \in Procs, NEW STATE k, WakeUpAp(n, k)
  PROVE  /\ Procedure'[n] = k /\ apc'[n] \in {"woken", apc[n]} /\ job'[n] \in {NoCall, job[n]}
         /\ \A q \in Procs : q # n => /\ Procedure'[q] = Procedure[q]
                                      /\ apc'[q] = apc[q] /\ job'[q] = job[q]
  BY DEF WakeUpAp, TypeOK

(* CheckAllAps collects p and, in single thread mode, wakes the one AP of W. *)
LEMMA Collects ==
  ASSUME TypeOK, Inv, NEW c \in Contexts, CollectAp(c)
  PROVE  \E W \in SUBSET Procs :
           /\ \A q \in W : /\ q # cur[c] /\ CpuList[q] /\ State[q] = "READY" /\ Procedure[q] = NoCall
                           /\ Procedure'[q] = AllProc /\ apc'[q] \in {"woken", apc[q]}
                           /\ job'[q] \in {NoCall, job[q]}
           /\ \A q \in Procs \ W : /\ Procedure'[q] = Procedure[q]
                                   /\ apc'[q] = apc[q] /\ job'[q] = job[q]
  <1> DEFINE p == cur[c]
             n == GetNextWaitingProcessorNumber(CpuList')
             next == SingleThread /\ Waiting(CpuList') # {}
  <1>1. /\ At(c, "AllAps") /\ p \in Procs /\ CpuList[p] /\ State[p] = "FINISHED"
        /\ CpuList' = [CpuList EXCEPT ![p] = FALSE]
        /\ IF next THEN WakeUpAp(n, AllProc) ELSE UNCHANGED <<Procedure, signal, apc, job>>
    BY CurIsProc DEF CollectAp, At
  <1>2. CASE ~next
    <2>1. /\ \A q \in {} : FALSE
          /\ \A q \in Procs \ {} : Procedure'[q] = Procedure[q] /\ apc'[q] = apc[q] /\ job'[q] = job[q]
      BY <1>1, <1>2
    <2> WITNESS {} \in SUBSET Procs
    <2> QED BY <2>1
  <1>3. CASE next
    <2>1. n \in Waiting(CpuList') /\ SingleThread /\ WakeUpAp(n, AllProc)
      BY <1>1, <1>3, NextWaiting
    <2> HIDE DEF n, next, p
    <2>2. n \in Procs /\ n # p /\ CpuList[n]
      BY <1>1, <2>1 DEF Waiting, TypeOK
    <2>3. \A q \in Procs : ~Unmarked(q)
      BY <1>1, JointAtCheck DEF At, Unmarked
    <2>4. Pending /\ Serial
      <3>1. CASE op[c].poll
        <4>1. c = "main" /\ ForAll /\ Id # NoCall /\ Polls /\ AllEvent = NoCall
          BY <1>1, <3>1, JointAtCheck, Ranges DEF Polls
        <4> QED BY <2>1, <4>1, Unfolded, Opened DEF Inv, Pending, Serial, Counted
      <3>2. CASE ~op[c].poll
        BY <1>1, <2>1, <3>2, JointAtCheck, Ranges DEF Pending, Serial
      <3> QED BY <3>1, <3>2
    <2>5. InTurn(n, p) /\ InTurn(p, n) /\ (n < p \/ p < n)
      BY <1>1, <2>2, Opened DEF Inv, Procs
    <2>6. State[n] = "READY" /\ Procedure[n] = NoCall
      BY <1>1, <2>2, <2>3, <2>4, <2>5 DEF InTurn, Listed
    <2>7. /\ Procedure'[n] = AllProc /\ apc'[n] \in {"woken", apc[n]} /\ job'[n] \in {NoCall, job[n]}
          /\ \A q \in Procs \ {n} : /\ Procedure'[q] = Procedure[q]
                                    /\ apc'[q] = apc[q] /\ job'[q] = job[q]
      BY <2>1, <2>2, Waking
    <2>8. {n} \in SUBSET Procs /\ p = cur[c]
      BY <2>2 DEF p
    <2> QED BY <2>2, <2>6, <2>7, <2>8
  <1> QED BY <1>2, <1>3

LEMMA DutiesCollect ==
  ASSUME TypeOK, TypeOK', Inv, NEW c \in Contexts, CollectAp(c)
  PROVE  Duties'
  <1> DEFINE p == cur[c]
             k == AllProc
  <1>1. /\ At(c, "AllAps") /\ p \in Procs /\ CpuList[p] /\ State[p] = "FINISHED"
        /\ CpuList' = [CpuList EXCEPT ![p] = FALSE] /\ State' = [State EXCEPT ![p] = "IDLE"]
        /\ UNCHANGED <<AllProc, AllEvent, WaitEvent, result, assigned, served, failed, BSP, op>>
    BY CurIsProc DEF CollectAp, At, thisVars, callVars
  <1>2. /\ pc'[c] = "AllAps"
        /\ \A d \in Contexts : d # c => pc'[d] = pc[d]
    BY Moves DEF CollectAp
  <1>3. /\ k \in Calls /\ Joint(k) /\ result[k] = "pending"
        /\ \A d \in Contexts : d # c => pc[d] \in {"idle", "SwitchWait"}
        /\ c = "main" \/ c = "timer"
        /\ "main" \in Contexts /\ "timer" \in Contexts
    BY <1>1, JointAtCheck
  <1>4. PICK W \in SUBSET Procs :
           /\ \A q \in W : /\ q # p /\ CpuList[q] /\ State[q] = "READY" /\ Procedure[q] = NoCall
                           /\ Procedure'[q] = k /\ apc'[q] \in {"woken", apc[q]}
                           /\ job'[q] \in {NoCall, job[q]}
           /\ \A q \in Procs \ W : /\ Procedure'[q] = Procedure[q]
                                   /\ apc'[q] = apc[q] /\ job'[q] = job[q]
    BY Collects
  <1>5. /\ Id' = Id /\ \A q \in Procs : Serving(q)' <=> Serving(q)
        /\ \A j \in Calls : Joint(j)' <=> Joint(j)
        /\ Pending' <=> Pending
    BY <1>1 DEF Joint, Serving, Pending, Id, ForAll, Target
  <1>6. /\ ~CpuList'[p] /\ \A q \in Procs : q # p => CpuList'[q] = CpuList[q] /\ State'[q] = State[q]
        /\ State'[p] = "IDLE"
    BY <1>1 DEF TypeOK
  <1>7. \A q \in Procs : CpuList[q] => Owes(q, k)
    BY <1>3 DEF Owes
  <1>8. \A q \in Procs : Outside(q) => Outside(q)'
    BY <1>1, <1>2, <1>3 DEF Outside, SwitchOwns, At
  <1>9. ~Delivering' /\ \A d \in Contexts : pc'[d] # "AllReset"
    BY <1>2, <1>3 DEF Delivering, Where
  <1> HIDE DEF p, k
  <1>10. ASSUME NEW q \in Procs, CpuList[q]
         PROVE  Works(q) /\ WaitEvent[q] # k /\ \A j \in Calls : Owes(q, j) => j = k
    BY <1>3, <1>7, <1>10, OneDebt, Unfolded
  <1>11. ASSUME NEW q \in Procs, NEW j \in Calls
         PROVE  /\ Owes(q, j)' => Owes(q, j) /\ q # p
                /\ Owes(q, j) => Owes(q, j)' \/ (q = p /\ j = k)
    <2>1. WaitEvent[p] # j
      BY <1>1, <1>10 DEF Owes
    <2>2. q = p => ~Serving(q)
      <3>1. Listed(p)
        BY <1>1, <1>3, <1>7, OneDebt
      <3> QED BY <1>1, <1>3, <1>7, OneDebt
    <2> QED BY <1>1, <1>5, <1>6, <1>10, <2>1, <2>2 DEF Owes
  <1>12. p \in served[k] /\ Procedure[p] = NoCall /\ p \notin W
    BY <1>1, <1>3, <1>4, <1>7, <1>10, Unfolded DEF Duty, Done, Works
  <1>13. ASSUME NEW q \in Procs, NEW j \in Calls PROVE Duty(q, j)'
    <2>1. Duty(q, j) /\ j # NoCall
      BY Unfolded, Ranges
    <2>2. CASE q \in W /\ j = k
      BY <1>1, <1>3, <1>4, <1>6, <1>7, <1>10, <1>11, <2>1, <2>2, DutyWoken
    <2>3. CASE q \in W /\ j # k
      BY <1>1, <1>4, <1>7, <1>10, <1>11, <2>1, <2>3, DutyKept
    <2>4. CASE q \notin W
      <3>1. q # p => (Done(q)' <=> Done(q))
        BY <1>4, <1>6, <2>4 DEF Done
      <3> QED BY <1>1, <1>4, <1>5, <1>11, <1>12, <2>1, <2>4, <3>1, DutyKept
    <2> QED BY <2>2, <2>3, <2>4
  <1>14. ASSUME NEW q \in Procs PROVE Given(q)' /\ Cared(q)'
    <2>1. Left(q) => Left(q)'
      BY <1>1, LeftKept
    <2>2. State'[q] \in Taken => q # p
      BY <1>6 DEF Taken
    <2>3. q # p => (Owner(q) => Owner(q)')
      BY <1>1, <1>5, <1>6 DEF Owner, Listed
    <2>4. Cared(q)'
      BY <1>6, <1>8, <2>1, <2>2, <2>3, CaredKept, Unfolded
    <2>5. Given(q)'
      BY <1>4, Unfolded, Ranges DEF Given
    <2> QED BY <2>4, <2>5
  <1>15. FailedListHonest'
    BY <1>1, Unfolded DEF Duties, FailedListHonest
  <1> QED BY <1>9, <1>13, <1>14, <1>15 DEF Duties, Delivered, Resetting

(* CheckAndUpdateApsStatus keeps Duties. *)
LEMMA DutiesCheck ==
  ASSUME TypeOK, TypeOK', Inv, Control', NEW c \in Contexts, CheckAndUpdateApsStatus(c)
  PROVE  Duties'
  <1>1. CASE AllFinished(c)
    <2>1. Waiting(CpuList) = {}
      BY <1>1, AllCounted DEF AllFinished
    <2> QED BY <1>1, <2>1, DutiesAllDone DEF AllFinished, Answers
  <1>2. CASE AllOutOfResources(c)
    BY <1>2, DutiesAllDone DEF AllOutOfResources, Answers
  <1>3. CASE AllTimeout(c)
    <2>1. At(c, "AllReset") /\ cur[c] = N /\ Resetting(c)
      BY <1>3, Unfolded DEF AllTimeout, Duties
    <2>2. \A q \in Procs : q < N
      BY NAssumption DEF Procs
    <2>3. Waiting(CpuList) = {}
      BY <2>1, <2>2 DEF Resetting, At, Waiting
    <2>4. failed[AllProc] # {}
      BY <2>1, <2>3 DEF Resetting, At
    <2> QED BY <1>3, <2>1, <2>3, <2>4, DutiesAllDone DEF AllTimeout, Answers
  <1> QED BY <1>1, <1>2, <1>3, DutiesWalks, DutiesCollect, DutiesEachDone, DutiesAllReset DEF CheckAndUpdateApsStatus
-----------------------------------------------------------------------------
(* StartupThisAP and StartupAllAPs.  The call accepted is a new one.       *)
LEMMA NewCall ==
  ASSUME TypeOK, TypeOK', Inv, NEW STATE P, P \in SUBSET Procs, NEW STATE i, Accept("main", P, i),
         pc["main"] \in {"Admit", "Scan"}, pc["timer"] = "idle", pc["notify"] = "idle",
         UNCHANGED <<cpuVars, thisVars, CpuList, AllProc, AllEvent, BSP>>,
         \A p \in Procs : p \in P <=> IF ForAll THEN CpuList[p] ELSE p = Target
  PROVE  \E k \in Calls :
           /\ result[k] = "none" /\ assigned[k] = {}
           /\ \A q \in Procs : q \notin served[k] /\ Procedure[q] # k
           /\ result' = [result EXCEPT ![k] = "pending"] /\ assigned' = [assigned EXCEPT ![k] = P]
           /\ \A j \in Calls : j # k => (Joint(j)' <=> Joint(j))
           /\ \A q \in Procs, j \in Calls : j # k => (Owes(q, j)' <=> Owes(q, j))
           /\ \A q \in Procs : (Owes(q, k)' <=> q \in P) /\ (Owner(q) => Owner(q)')
           /\ Id = NoCall /\ pc'["main"] = "Mark" /\ pc'["timer"] = "idle" /\ pc'["notify"] = "idle"
  <1>0. calls + 1 \in Calls
    <2>1. calls \in Nat /\ calls + 1 <= MaxCalls /\ MaxCalls \in Nat
      BY CallsAssumption DEF TypeOK, Accept
    <2> QED BY <2>1 DEF Calls
  <1> PICK k \in Calls : k = calls + 1
    BY <1>0
  <1>1. /\ pc'["main"] = "Mark" /\ pc'["timer"] = "idle" /\ pc'["notify"] = "idle"
        /\ Id' = k /\ (ForAll' <=> ForAll) /\ Target' = Target /\ calls' = k
    <2>1. "main" \in Contexts /\ "timer" \in Contexts /\ "notify" \in Contexts
      BY DEF Contexts
    <2> QED BY <2>1, Accepts DEF Id, ForAll, Target
  <1>2. /\ k \in Calls /\ k > calls /\ k # NoCall
        /\ \A j \in Calls : j # NoCall
    BY Ranges
  <1>3. /\ Id = NoCall /\ AllEvent # k /\ \A q \in Procs : WaitEvent[q] # k
    <2>1. Id = NoCall
      BY Unfolded DEF CtlParams, Accepted
    <2>2. AllEvent <= calls \/ AllEvent = NoCall
      BY Unfolded DEF NamesAll, Awaited
    <2>3. \A q \in Procs : WaitEvent[q] <= calls \/ WaitEvent[q] = NoCall
      BY Unfolded DEF NamesThis, Awaited
    <2> QED BY <1>2, <2>1, <2>2, <2>3, Ranges
  <1>4. /\ result[k] = "none" /\ assigned[k] = {}
        /\ \A q \in Procs : q \notin served[k] /\ Procedure[q] # k
    <2>1. result[k] = "none" /\ assigned[k] = {}
      BY <1>2, Unfolded DEF NamesFree
    <2> QED BY <1>2, <2>1, Unfolded DEF Duty
  <1>5. /\ result' = [result EXCEPT ![k] = "pending"] /\ assigned' = [assigned EXCEPT ![k] = P]
        /\ UNCHANGED <<served, failed>>
    BY <1>1 DEF Accept
  <1>6. UNCHANGED <<State, Procedure, apc, job, CpuList, AllEvent, WaitEvent, BSP>>
    BY DEF cpuVars, thisVars
  <1>8. \A j \in Calls : j # k => (Joint(j)' <=> Joint(j))
    BY <1>1, <1>2, <1>3, <1>6 DEF Joint
  <1>9. \A q \in Procs, j \in Calls : j # k => (Owes(q, j)' <=> Owes(q, j))
    BY <1>1, <1>2, <1>3, <1>6, <1>8 DEF Owes
  <1>10. \A q \in Procs : Owes(q, k)' <=> q \in P
    BY <1>1, <1>2, <1>3, <1>6 DEF Owes, Joint, Serving
  <1>11. \A q \in Procs : Owner(q) => Owner(q)'
    BY <1>1, <1>2, <1>3, <1>6 DEF Owner, Listed, Pending, Serving
  <1> QED BY <1>1, <1>3, <1>4, <1>5, <1>8, <1>9, <1>10, <1>11

LEMMA DutiesAccept ==
  ASSUME TypeOK, TypeOK', Inv, NEW STATE P, P \in SUBSET Procs, NEW STATE i, Accept("main", P, i),
         pc["main"] \in {"Admit", "Scan"}, pc["timer"] = "idle", pc["notify"] = "idle",
         UNCHANGED <<cpuVars, thisVars, CpuList, AllProc, AllEvent, BSP>>,
         \A p \in P : State[p] = "IDLE" /\ ~Outside(p),
         \A p \in Procs : p \in P <=> IF ForAll THEN CpuList[p] ELSE p = Target
  PROVE  Duties'
  <1> PICK k \in Calls :
        /\ result[k] = "none" /\ assigned[k] = {}
        /\ \A q \in Procs : q \notin served[k] /\ Procedure[q] # k
        /\ result' = [result EXCEPT ![k] = "pending"] /\ assigned' = [assigned EXCEPT ![k] = P]
        /\ \A j \in Calls : j # k => (Joint(j)' <=> Joint(j))
        /\ \A q \in Procs, j \in Calls : j # k => (Owes(q, j)' <=> Owes(q, j))
        /\ \A q \in Procs : (Owes(q, k)' <=> q \in P) /\ (Owner(q) => Owner(q)')
        /\ Id = NoCall /\ pc'["main"] = "Mark" /\ pc'["timer"] = "idle" /\ pc'["notify"] = "idle"
    BY NewCall
  <1>1. UNCHANGED <<served, failed, State, Procedure, apc, job, BSP>>
    BY DEF Accept, cpuVars
  <1>2. /\ result'[k] = "pending" /\ assigned'[k] = P
        /\ \A j \in Calls : j # k => result'[j] = result[j] /\ assigned'[j] = assigned[j]
    BY DEF TypeOK
  <1>3. ASSUME NEW q \in Procs, NEW j \in Calls PROVE Duty(q, j)'
    <2>1. Done(q)' <=> Done(q)
      BY <1>1 DEF Done
    <2>2. CASE j # k
      BY <1>1, <1>2, <2>1, <2>2, DutyKept, Unfolded
    <2>3. CASE j = k
      <3>1. q \in P => Procedure[q] = NoCall /\ ~Done(q)
        BY Unfolded DEF Works, Done
      <3> QED BY <1>1, <1>2, <2>1, <2>3, <3>1 DEF Duty
    <2> QED BY <2>2, <2>3
  <1>4. ASSUME NEW q \in Procs PROVE Given(q)' /\ Cared(q)'
    <2>1. Left(q) => Left(q)'
      BY <1>2, LeftKept
    <2>2. Outside(q) => Outside(q)'
      BY <1>1 DEF Outside, SwitchOwns
    <2> QED BY <1>1, <2>1, <2>2, CaredKept, Unfolded DEF Given
  <1>5. FailedListHonest'
    BY <1>1, <1>2, HonestKept, Unfolded DEF Duties
  <1>6. ~Delivering' /\ \A d \in Contexts : pc'[d] # "AllReset"
    BY DEF Delivering, Where, Contexts
  <1> QED BY <1>3, <1>4, <1>5, <1>6 DEF Duties, Delivered, Resetting

(* Where main does not deliver or reset, nobody does. *)
LEMMA NobodyDelivers ==
  ASSUME pc'["timer"] = "idle", pc'["notify"] = "idle", pc'["main"] \notin {"AllReset", "AllSignal", "AllClear"}
  PROVE  (\A c \in Contexts : Resetting(c)') /\ Delivered'
  BY DEF Contexts, Resetting, Delivered, Delivering, Where

(* A caller gives up before it accepted anything. *)
LEMMA DutiesGivesUp ==
  ASSUME TypeOK, TypeOK', Inv, Control', pc["timer"] = "idle", pc["notify"] = "idle",
         pc["main"] \in {"Admit", "Scan"},
         \/ Return("main")
         \/ pc["main"] = "Scan" /\ op' = op /\ pc'["timer"] = "idle" /\ pc'["notify"] = "idle" /\ pc'["main"] = "Scan",
         UNCHANGED <<State, Procedure, apc, job, result, assigned, served, failed, AllEvent, WaitEvent, BSP>>,
         UNCHANGED CpuList \/ pc["main"] = "Scan"
  PROVE  Duties'
  <1>1. /\ pc'["main"] \in {"Scan", "idle"} /\ pc'["timer"] = "idle" /\ pc'["notify"] = "idle" /\ Id' = NoCall
    <2>1. "main" \in Contexts /\ "timer" \in Contexts /\ "notify" \in Contexts
      BY DEF Contexts
    <2>2. Id = NoCall
      BY Unfolded DEF CtlParams, Accepted
    <2> QED BY <2>1, <2>2, Returns, NoOpIs DEF Id
  <1>2. Id = NoCall /\ \A j \in Calls : j # NoCall
    BY Unfolded, Ranges DEF CtlParams, Accepted
  <1>3. UNCHANGED CpuList \/ AllEvent = NoCall
    BY Unfolded DEF CtlParams, CtlEvents
  <1>4. /\ \A j \in Calls : Joint(j)' <=> Joint(j)
        /\ \A q \in Procs, j \in Calls : Owes(q, j)' <=> Owes(q, j)
        /\ \A q \in Procs : Owner(q)' <=> Owner(q)
    BY <1>1, <1>2, <1>3 DEF Joint, Owes, Serving, Owner, Listed, Pending
  <1>5. \A q \in Procs : Outside(q) => Outside(q)'
    BY DEF Outside, SwitchOwns
  <1>6. (\A c \in Contexts : Resetting(c)') /\ Delivered'
    BY <1>1, NobodyDelivers
  <1> QED BY <1>4, <1>5, <1>6, DutiesStill

LEMMA DutiesAdmit ==
  ASSUME TypeOK, TypeOK', Inv, Control', NEW c \in Callers, Admit(c)
  PROVE  Duties'
  <1>1. /\ c = "main" /\ pc["main"] = "Admit" /\ pc["timer"] = "idle" /\ pc["notify"] = "idle"
        /\ CtlParams /\ Target \in Procs
        /\ UNCHANGED <<cpuVars, thisVars, CpuList, AllProc, AllEvent, BSP>>
    <2>1. At(c, "Admit") /\ UNCHANGED <<cpuVars, thisVars, allVars, BSP>>
      BY DEF Admit
    <2>2. c = "main" /\ pc["main"] = "Admit" /\ CtlParams /\ Active("main")
      BY <2>1, MainTurn, Unfolded DEF At
    <2>3. pc["timer"] = "idle" /\ pc["notify"] = "idle"
      BY <2>2 DEF Active
    <2> QED BY <2>1, <2>2, <2>3, Ranges DEF allVars
  <1>2. CASE State[Target] = "IDLE"
    <2>1. Accept("main", {Target}, Target)
      BY <1>1, <1>2 DEF Admit, Target
    <2>2. ~ForAll /\ ~Outside(Target)
      BY <1>1 DEF CtlParams, Outside, SwitchOwns
    <2>3. {Target} \in SUBSET Procs
      BY <1>1
    <2> QED BY <1>1, <1>2, <2>1, <2>2, <2>3, DutiesAccept
  <1>3. CASE State[Target] # "IDLE"
    <2>1. Return("main") /\ UNCHANGED callVars
      BY <1>1, <1>3 DEF Admit, Target
    <2> QED BY <1>1, <2>1, DutiesGivesUp DEF cpuVars, thisVars, callVars
  <1> QED BY <1>2, <1>3

LEMMA DutiesScan ==
  ASSUME TypeOK, TypeOK', Inv, Control', NEW c \in Callers, Scan(c) \/ Scanned(c)
  PROVE  Duties'
  <1>1. /\ c = "main" /\ pc["main"] = "Scan" /\ pc["timer"] = "idle" /\ pc["notify"] = "idle"
        /\ CtlParams /\ ForAll
        /\ UNCHANGED <<cpuVars, thisVars, AllProc, AllEvent, BSP>>
    BY MainTurn, Unfolded DEF Scan, Scanned, At, Active, allVars, CtlParams
  <1>2. UNCHANGED <<State, Procedure, apc, job, AllEvent, WaitEvent, BSP>>
    BY <1>1 DEF cpuVars, thisVars
  <1>3. CASE Scan(c)
    <2>1. UNCHANGED callVars
      BY <1>3 DEF Scan
    <2>2. \/ Return("main")
          \/ Goto("main", "Scan", cur["main"] + 1) /\ op' = op
      BY <1>1, <1>3 DEF Scan
    <2>3. \/ Return("main")
          \/ op' = op /\ pc'["timer"] = "idle" /\ pc'["notify"] = "idle" /\ pc'["main"] = "Scan"
      BY <1>1, <2>2, Moves DEF Contexts
    <2> QED BY <1>1, <1>2, <2>1, <2>3, DutiesGivesUp DEF callVars
  <1>4. CASE Scanned(c)
    <2>1. UNCHANGED CpuList /\ cur["main"] = N
      BY <1>1, <1>4 DEF Scanned
    <2>2. CASE Waiting(CpuList) # {}
      <3>1. Accept("main", Waiting(CpuList), 0)
        BY <1>1, <1>4, <2>2 DEF Scanned
      <3>2. Waiting(CpuList) \in SUBSET Procs /\ \A q \in Procs : q \in Waiting(CpuList) <=> CpuList[q]
        BY DEF Waiting
      <3>3. \A q \in Waiting(CpuList) : State[q] = "IDLE" /\ ~Outside(q)
        <4>1. \A q \in Procs : q < N
          BY NAssumption DEF Procs
        <4> QED BY <1>1, <2>1, <3>2, <4>1, Unfolded DEF Owned, Outside, SwitchOwns
      <3> QED BY <1>1, <2>1, <3>1, <3>2, <3>3, DutiesAccept
    <2>3. CASE Waiting(CpuList) = {}
      <3>1. Return("main") /\ UNCHANGED callVars
        BY <1>1, <1>4, <2>3 DEF Scanned
      <3> QED BY <1>1, <1>2, <2>1, <3>1, DutiesGivesUp DEF callVars
    <2> QED BY <2>2, <2>3
  <1> QED BY <1>3, <1>4

(* Main goes on with an accepted call. *)
LEMMA MainGoesOn ==
  ASSUME TypeOK, Inv, NEW c \in Callers, NEW ph, At(c, ph), ph \in {"Mark", "Wake", "Publish"}
  PROVE  /\ c = "main" /\ pc["main"] = ph /\ pc["timer"] = "idle" /\ pc["notify"] = "idle"
         /\ CtlParams /\ CtlEvents /\ "main" \in Contexts
         /\ Id \in Calls /\ Id # NoCall /\ result[Id] = "pending" /\ ~Polls /\ Target \in Procs
         /\ \A q \in Procs : (ForAll /\ CpuList[q]) \/ Serving(q) => Owes(q, Id)
         /\ Pending <=> AllEvent # NoCall \/ ForAll
  <1>1. /\ c = "main" /\ pc["main"] = ph /\ Active("main")
        /\ CtlParams /\ CtlEvents /\ "main" \in Contexts
    BY MainTurn, Unfolded DEF At
  <1>2. pc["timer"] = "idle" /\ pc["notify"] = "idle"
    BY <1>1 DEF Active
  <1>3. Id # NoCall /\ ~Polls
    BY <1>1 DEF CtlParams, Accepted
  <1>4. Id \in Calls /\ result[Id] = "pending" /\ Target \in Procs
    BY <1>3, Ranges, Unfolded DEF NamesId, Awaited
  <1> QED BY <1>1, <1>2, <1>3, <1>4 DEF Owes, Joint, Pending, Serving

(* ... with the owners and their debts as they were. *)
LEMMA SameOwners ==
  ASSUME UNCHANGED <<op, CpuList, AllEvent, WaitEvent>>
  PROVE  /\ Id' = Id /\ (ForAll' <=> ForAll)
         /\ \A k \in Calls : Joint(k)' <=> Joint(k)
         /\ \A q \in Procs, k \in Calls : Owes(q, k)' <=> Owes(q, k)
         /\ \A q \in Procs : Owner(q)' <=> Owner(q)
  BY DEF Joint, Owes, Serving, Owner, Listed, Pending, Id, ForAll, Target

LEMMA DutiesMark ==
  ASSUME TypeOK, TypeOK', Inv, NEW c \in Callers, Mark(c)
  PROVE  Duties'
  <1> DEFINE p == cur[c]
  <1>1. /\ c = "main" /\ pc["main"] = "Mark" /\ pc["timer"] = "idle" /\ pc["notify"] = "idle"
        /\ CtlParams /\ CtlEvents /\ Id \in Calls /\ Id # NoCall /\ result[Id] = "pending"
        /\ \A q \in Procs : (ForAll /\ CpuList[q]) \/ Serving(q) => Owes(q, Id)
        /\ "main" \in Contexts
    BY MainGoesOn DEF Mark
  <1>2. /\ p \in Procs /\ State' = [State EXCEPT ![p] = "READY"] /\ (ForAll => CpuList[p])
        /\ UNCHANGED <<op, CpuList, AllEvent, WaitEvent, Procedure, apc, job, AllProc, BSP>>
        /\ UNCHANGED <<result, assigned, served, failed>>
    BY <1>1, CurIsProc DEF Mark, thisVars, callVars, ForAll
  <1>3. pc'["main"] = "Wake" /\ pc'["timer"] = "idle" /\ pc'["notify"] = "idle"
    BY <1>1, Moves DEF Mark, Contexts
  <1>4. /\ Id' = Id /\ \A k \in Calls : Joint(k)' <=> Joint(k)
        /\ \A q \in Procs, k \in Calls : Owes(q, k)' <=> Owes(q, k)
        /\ \A q \in Procs : Owner(q)' <=> Owner(q)
    BY <1>2, SameOwners
  <1>5. IF ForAll THEN Listed(p) /\ Unmarked(p) ELSE Serving(p)
    BY <1>1, <1>2 DEF Listed, Pending, Unmarked, Serving, CtlParams, Procs
  <1>6. State[p] = "IDLE" /\ ~Outside(p) /\ Owner(p)
    BY <1>1, <1>2, <1>5, Unfolded DEF Owned, Owner
  <1>7. Procedure[p] = NoCall
    BY <1>2, <1>6, Unfolded DEF Works
  <1>8. \A q \in Procs : q # p => State'[q] = State[q]
    BY <1>2 DEF TypeOK
  <1>9. State'[p] = "READY"
    BY <1>2 DEF TypeOK
  <1> HIDE DEF p
  <1>10. ASSUME NEW q \in Procs, NEW k \in Calls PROVE Duty(q, k)'
    <2>1. Done(q)' <=> Done(q)
      BY <1>2, <1>6, <1>8, <1>9 DEF Done
    <2> QED BY <1>2, <1>4, <2>1, DutyKept, Unfolded
  <1>11. ASSUME NEW q \in Procs PROVE Given(q)' /\ Cared(q)'
    <2>1. Left(q) => Left(q)'
      BY <1>2, LeftKept
    <2>2. CASE q = p
      BY <1>2, <1>4, <1>6, <2>2, Unfolded DEF Given, Cared
    <2>3. CASE q # p
      <3>1. Outside(q) => Outside(q)'
        BY <1>1, <1>2 DEF Outside, SwitchOwns
      <3> QED BY <1>2, <1>4, <1>8, <2>1, <2>3, <3>1, CaredKept, Unfolded DEF Given
    <2> QED BY <2>2, <2>3
  <1>12. FailedListHonest'
    BY <1>2, Unfolded DEF Duties, FailedListHonest
  <1> QED BY <1>3, <1>10, <1>11, <1>12, NobodyDelivers DEF Duties

LEMMA DutiesMarkSkip ==
  ASSUME TypeOK, TypeOK', Inv, Control', NEW c \in Callers, MarkSkip(c)
  PROVE  Duties'
  <1>1. /\ c = "main" /\ pc["main"] = "Mark" /\ pc["timer"] = "idle" /\ pc["notify"] = "idle"
        /\ "main" \in Contexts
    BY MainGoesOn DEF MarkSkip
  <1>2. /\ UNCHANGED <<op, CpuList, AllEvent, WaitEvent, State, Procedure, apc, job, BSP>>
        /\ UNCHANGED <<result, assigned, served, failed>>
    BY DEF MarkSkip, cpuVars, thisVars, allVars, callVars
  <1>3. pc'["main"] \in {"Mark", "Publish"} /\ pc'["timer"] = "idle" /\ pc'["notify"] = "idle"
    BY <1>1, Moves DEF MarkSkip, Contexts
  <1>4. (\A d \in Contexts : Resetting(d)') /\ Delivered'
    BY <1>3, NobodyDelivers
  <1>5. \A q \in Procs : Outside(q) => Outside(q)'
    BY <1>1, <1>2 DEF Outside, SwitchOwns
  <1> QED BY <1>2, <1>4, <1>5, SameOwners, DutiesStill

LEMMA DutiesWake ==
  ASSUME TypeOK, TypeOK', Inv, Control', NEW c \in Callers, Wake(c)
  PROVE  Duties'
  <1> DEFINE p == cur["main"]
  <1>1. /\ c = "main" /\ pc["main"] = "Wake" /\ pc["timer"] = "idle" /\ pc["notify"] = "idle"
        /\ CtlParams /\ CtlEvents /\ Id \in Calls /\ Id # NoCall /\ result[Id] = "pending"
        /\ \A q \in Procs : (ForAll /\ CpuList[q]) \/ Serving(q) => Owes(q, Id)
        /\ "main" \in Contexts
    BY MainGoesOn DEF Wake
  <1>2. /\ p \in Procs
        /\ UNCHANGED <<op, CpuList, AllEvent, WaitEvent, State, AllProc, BSP>>
        /\ UNCHANGED <<result, assigned, served, failed>>
        /\ UNCHANGED <<Procedure, apc, job>> \/ WakeUpAp(p, Id)
    BY <1>1, CurIsProc DEF Wake, thisVars, allVars, callVars, Id
  <1>3. pc'["main"] \in {"Mark", "Publish"} /\ pc'["timer"] = "idle" /\ pc'["notify"] = "idle"
    BY <1>1, Moves DEF Wake, Contexts
  <1>4. /\ Id' = Id /\ \A k \in Calls : Joint(k)' <=> Joint(k)
        /\ \A q \in Procs, k \in Calls : Owes(q, k)' <=> Owes(q, k)
        /\ \A q \in Procs : Owner(q)' <=> Owner(q)
    BY <1>2, SameOwners
  <1>5. (\A d \in Contexts : Resetting(d)') /\ Delivered'
    BY <1>3, NobodyDelivers
  <1>6. \A q \in Procs : Outside(q) => Outside(q)'
    BY <1>1, <1>2 DEF Outside, SwitchOwns
  <1>7. CASE UNCHANGED <<Procedure, apc, job>>
    BY <1>2, <1>4, <1>5, <1>6, <1>7, DutiesStill
  <1>8. CASE WakeUpAp(p, Id)
    <2>1. /\ Procedure'[p] = Id /\ apc'[p] \in {"woken", apc[p]} /\ job'[p] \in {NoCall, job[p]}
          /\ \A q \in Procs : q # p => /\ Procedure'[q] = Procedure[q]
                                       /\ apc'[q] = apc[q] /\ job'[q] = job[q]
      BY <1>2, <1>8, Waking
    <2>2. State[p] = "READY" /\ Procedure[p] = NoCall /\ (ForAll => CpuList[p])
      BY <1>1, <1>2, Unfolded DEF Owned
    <2>3. Owes(p, Id)
      BY <1>1, <1>2, <2>2 DEF Serving, CtlParams
    <2>4. Works(p) /\ \A j \in Calls : Owes(p, j) => j = Id
      BY <1>1, <1>2, <2>3, OneDebt, Unfolded
    <2> HIDE DEF p
    <2>5. ASSUME NEW q \in Procs, NEW k \in Calls PROVE Duty(q, k)'
      <3>1. Duty(q, k) /\ k # NoCall
        BY Unfolded, Ranges
      <3>2. CASE q = p /\ k = Id
        BY <1>1, <1>2, <1>4, <2>1, <2>2, <2>3, <2>4, <3>1, <3>2, DutyWoken
      <3>3. CASE q = p /\ k # Id
        BY <1>2, <1>4, <2>1, <2>4, <3>1, <3>3, DutyKept
      <3>4. CASE q # p
        <4>1. Done(q)' <=> Done(q)
          BY <1>2, <2>1, <3>4 DEF Done
        <4> QED BY <1>2, <1>4, <2>1, <3>1, <3>4, <4>1, DutyKept
      <3> QED BY <3>2, <3>3, <3>4
    <2>6. ASSUME NEW q \in Procs PROVE Given(q)' /\ Cared(q)'
      <3>1. Left(q) => Left(q)'
        BY <1>2, LeftKept
      <3>2. Cared(q)'
        BY <1>2, <1>4, <1>6, <3>1, CaredKept, Unfolded
      <3>3. Given(q)'
        BY <2>1, <2>2, Unfolded, Ranges DEF Given
      <3> QED BY <3>2, <3>3
    <2>7. FailedListHonest'
      BY <1>2, Unfolded DEF Duties, FailedListHonest
    <2> QED BY <1>5, <2>5, <2>6, <2>7 DEF Duties
  <1> QED BY <1>2, <1>7, <1>8

LEMMA PublishedThis ==
  ASSUME TypeOK, Inv, NEW c \in Callers, PublishThis(c)
  PROVE  /\ UNCHANGED <<State, Procedure, apc, job, result, assigned, served, failed>>
         /\ \A q \in Procs : (Owner(q)' <=> Owner(q)) /\ (Outside(q)' <=> Outside(q))
         /\ \A q \in Procs, k \in Calls : (Joint(k)' <=> Joint(k)) /\ (Owes(q, k)' <=> Owes(q, k))
         /\ pc'["timer"] = "idle" /\ pc'["notify"] = "idle" /\ pc'["main"] \in {"idle", "PollThis"}
  <1>1. /\ c = "main" /\ pc["main"] = "Publish" /\ pc["timer"] = "idle" /\ pc["notify"] = "idle"
        /\ Id \in Calls /\ Id # NoCall /\ Target \in Procs /\ "main" \in Contexts
        /\ CtlParams
    BY MainGoesOn DEF PublishThis
  <1>2. /\ UNCHANGED <<CpuList, AllEvent, State, Procedure, apc, job, BSP>>
        /\ UNCHANGED <<result, assigned, served, failed>> /\ ~ForAll
        /\ WaitEvent' = [WaitEvent EXCEPT ![Target] = EventOf(op["main"])]
    BY <1>1 DEF PublishThis, cpuVars, allVars, callVars, ForAll, Target
  <1>3. /\ Serving(Target) /\ WaitEvent[Target] = NoCall /\ \A q \in Procs : Serving(q) => q = Target
        /\ \A q \in Procs : q # Target => WaitEvent'[q] = WaitEvent[q]
        /\ WaitEvent'[Target] = IF op["main"].wait THEN Id ELSE NoCall
    BY <1>1, <1>2, Unfolded DEF Serving, Owned, TypeOK, EventOf, Id
  <1>4. /\ pc'["main"] \in {"idle", "PollThis"} /\ pc'["timer"] = "idle" /\ pc'["notify"] = "idle"
        /\ IF op["main"].wait THEN Id' = NoCall ELSE op' = op
    BY <1>1, Moves, Returns, NoOpIs DEF PublishThis, Contexts, Id
  <1>5. ASSUME NEW q \in Procs
        PROVE  /\ Owner(q)' <=> Owner(q)
               /\ \A k \in Calls : (Joint(k)' <=> Joint(k)) /\ (Owes(q, k)' <=> Owes(q, k))
    <2>1. \A k \in Calls : k # NoCall
      BY Ranges
    <2>2. CASE op["main"].wait
      BY <1>1, <1>2, <1>3, <1>4, <2>1, <2>2 DEF Owner, Listed, Pending, Joint, Owes, Serving
    <2>3. CASE ~op["main"].wait
      <3>1. op' = op /\ WaitEvent'[q] = WaitEvent[q]
        BY <1>3, <1>4, <2>3
      <3> QED BY <1>2, <3>1 DEF Owner, Listed, Pending, Joint, Owes, Serving, Id, ForAll, Target
    <2> QED BY <2>2, <2>3
  <1>6. \A q \in Procs : Outside(q)' <=> Outside(q)
    BY <1>1, <1>2, <1>4 DEF Outside, SwitchOwns
  <1> QED BY <1>2, <1>4, <1>5, <1>6

LEMMA PublishedAll ==
  ASSUME TypeOK, Inv, NEW c \in Callers, PublishAll(c)
  PROVE  /\ UNCHANGED <<State, Procedure, apc, job, result, assigned, served, failed>>
         /\ \A q \in Procs : (Owner(q)' <=> Owner(q)) /\ (Outside(q)' <=> Outside(q))
         /\ \A q \in Procs, k \in Calls : (Joint(k)' <=> Joint(k)) /\ (Owes(q, k)' <=> Owes(q, k))
         /\ pc'["timer"] = "idle" /\ pc'["notify"] = "idle" /\ pc'["main"] \in {"idle", "AllAps"}
  <1>1. /\ c = "main" /\ pc["main"] = "Publish" /\ pc["timer"] = "idle" /\ pc["notify"] = "idle"
        /\ Id \in Calls /\ Id # NoCall /\ "main" \in Contexts /\ "timer" \in Contexts /\ "notify" \in Contexts
        /\ CtlParams /\ CtlEvents
    BY MainGoesOn DEF PublishAll, Contexts
  <1>2. /\ UNCHANGED <<CpuList, WaitEvent, State, Procedure, apc, job, BSP>>
        /\ UNCHANGED <<result, assigned, served, failed>> /\ ForAll /\ AllEvent = NoCall
        /\ AllEvent' = IF op["main"].wait THEN Id ELSE NoCall
        /\ IF op["main"].wait THEN Return("main")
                              ELSE Goto("main", "AllAps", 0) /\ op' = [op EXCEPT !["main"].poll = TRUE]
    BY <1>1 DEF PublishAll, cpuVars, thisVars, callVars, ForAll, Id, EventOf, CtlEvents
  <1>3. /\ pc'["main"] \in {"idle", "AllAps"} /\ pc'["timer"] = "idle" /\ pc'["notify"] = "idle"
        /\ IF op["main"].wait THEN Id' = NoCall ELSE Id' = Id /\ ForAll'
    <2>1. CASE op["main"].wait
      BY <1>1, <1>2, <2>1, Returns, NoOpIs DEF Id
    <2>2. CASE ~op["main"].wait
      <3>1. op'["main"].id = op["main"].id /\ op'["main"].all = op["main"].all
        <4>1. op \in [Contexts -> Op]
          BY DEF TypeOK
        <4> QED BY <1>1, <1>2, <2>2, <4>1 DEF Op
      <3> QED BY <1>1, <1>2, <2>2, <3>1, Moves DEF Id, ForAll
    <2> QED BY <2>1, <2>2
  <1>4. ASSUME NEW q \in Procs
        PROVE  /\ Owner(q)' <=> Owner(q)
               /\ \A k \in Calls : (Joint(k)' <=> Joint(k)) /\ (Owes(q, k)' <=> Owes(q, k))
    <2>1. \A k \in Calls : k # NoCall
      BY Ranges
    <2>2. ~Serving(q) /\ ~Serving(q)' /\ (Pending' <=> Pending)
      BY <1>1, <1>2, <1>3 DEF Serving, Pending
    <2>3. \A k \in Calls : Joint(k)' <=> Joint(k)
      BY <1>1, <1>2, <1>3, <2>1 DEF Joint
    <2> QED BY <1>2, <2>2, <2>3 DEF Owner, Listed, Owes
  <1>5. \A q \in Procs : Outside(q)' <=> Outside(q)
    BY <1>1, <1>2, <1>3 DEF Outside, SwitchOwns
  <1> QED BY <1>2, <1>3, <1>4, <1>5

LEMMA DutiesPublish ==
  ASSUME TypeOK, TypeOK', Inv, Control', NEW c \in Callers, PublishThis(c) \/ PublishAll(c)
  PROVE  Duties'
  BY PublishedThis, PublishedAll, NobodyDelivers, DutiesStill

LEMMA DutiesDispatch ==
  ASSUME TypeOK, TypeOK', Inv, Control', NEW c \in Callers, Dispatch(c)
  PROVE  Duties'
  BY DutiesAdmit, DutiesScan, DutiesMark, DutiesMarkSkip, DutiesWake, DutiesPublish, DutiesPollThis
     DEF Dispatch
-----------------------------------------------------------------------------
(* The APs.                                                                *)
LEMMA Bystanders ==
  ASSUME Inv, UNCHANGED <<ctxVars, BSP, WaitEvent, CpuList, AllProc, AllEvent, result, assigned, failed>>
  PROVE  /\ \A k \in Calls : Joint(k)' <=> Joint(k)
         /\ \A q \in Procs, k \in Calls : Owes(q, k)' <=> Owes(q, k)
         /\ \A q \in Procs : (Owner(q)' <=> Owner(q)) /\ (Left(q) => Left(q)') /\ (Outside(q)' <=> Outside(q))
         /\ \A c \in Contexts : Resetting(c)'
         /\ Delivered'
  <1>1. UNCHANGED <<pc, cur, op>>
    BY DEF ctxVars
  <1>2. \A q \in Procs : (Left(q) => Left(q)') /\ (Outside(q)' <=> Outside(q))
    BY <1>1 DEF Left, Outside, SwitchOwns
  <1>3. \A c \in Contexts : Resetting(c)'
    BY <1>1, Unfolded DEF Duties, Resetting, Waiting
  <1>4. Delivered'
    BY <1>1, Unfolded DEF Duties, Delivered, Delivering, Where
  <1> QED BY <1>1, <1>2, <1>3, <1>4, SameOwners

LEMMA DutiesApKept ==
  ASSUME TypeOK, TypeOK', Inv, NEW p \in Procs,
         UNCHANGED <<ctxVars, BSP, WaitEvent, CpuList, AllProc, AllEvent, result, assigned, failed>>,
         \A k \in Calls : Duty(p, k)',
         Given(p)', ~Outside(p) /\ State'[p] \in Taken => State[p] \in Taken,
         \A q \in Procs : q # p => /\ State'[q] = State[q] /\ Procedure'[q] = Procedure[q]
                                   /\ apc'[q] = apc[q] /\ job'[q] = job[q],
         \A k \in Calls : served[k] \subseteq served'[k] /\ served'[k] \subseteq served[k] \union {p}
  PROVE  Duties'
  <1>1. /\ \A k \in Calls : Joint(k)' <=> Joint(k)
        /\ \A q \in Procs, k \in Calls : Owes(q, k)' <=> Owes(q, k)
        /\ \A q \in Procs : (Owner(q)' <=> Owner(q)) /\ (Left(q) => Left(q)') /\ (Outside(q)' <=> Outside(q))
        /\ \A c \in Contexts : Resetting(c)'
        /\ Delivered'
    BY Bystanders
  <1>2. ASSUME NEW q \in Procs, NEW k \in Calls PROVE Duty(q, k)'
    <2>1. CASE q # p
      <3>1. (Done(q)' <=> Done(q)) /\ (q \in served'[k] <=> q \in served[k])
        BY <2>1 DEF Done
      <3> QED BY <1>1, <2>1, <3>1, DutyKept, Unfolded
    <2> QED BY <2>1
  <1>3. ASSUME NEW q \in Procs PROVE Given(q)' /\ Cared(q)'
    <2>1. Cared(q)'
      BY <1>1, CaredKept, Unfolded
    <2>2. CASE q # p
      BY <2>1, <2>2, Unfolded DEF Given
    <2> QED BY <2>1, <2>2
  <1>4. FailedListHonest'
    BY HonestKept, Unfolded DEF Duties
  <1> QED BY <1>1, <1>2, <1>3, <1>4 DEF Duties

LEMMA DutiesAp ==
  ASSUME TypeOK, TypeOK', Inv, NEW p \in Procs, Ap(p)
  PROVE  Duties'
  <1>1. /\ UNCHANGED <<ctxVars, BSP, WaitEvent, CpuList, AllProc, AllEvent, result, assigned, failed>>
        /\ \E from \in {"parked", "woken", "running", "returned", "cleared", "finished"} : apc[p] = from
        /\ \A q \in Procs : q # p => /\ State'[q] = State[q] /\ Procedure'[q] = Procedure[q]
                                     /\ apc'[q] = apc[q] /\ job'[q] = job[q]
    BY DEF Ap, ApBreak, ApNothing, ApEnter, ApReturn, ApClear, ApFinish, ApAck, ApStep, thisVars, allVars, callVars, TypeOK
  <1>2. /\ \A k \in Calls : Joint(k)' <=> Joint(k)
        /\ \A k \in Calls : Owes(p, k)' <=> Owes(p, k)
        /\ \A k \in Calls : Owes(p, k) => Works(p)
        /\ ~Outside(p) => Works(p)
        /\ \A k \in Calls : Duty(p, k) /\ k # NoCall
        /\ Given(p)
    <2>1. \A k \in Calls : Owes(p, k) => Works(p)
      BY OneDebt, Unfolded
    <2> QED BY <1>1, <2>1, Bystanders, Unfolded, Ranges
  <1>3. CASE ApBreak(p) \/ ApNothing(p) \/ ApAck(p)
    <2>1. /\ UNCHANGED <<State, Procedure, job, served>>
          /\ apc[p] \in Quiet /\ apc'[p] \in Quiet
      BY <1>3 DEF ApBreak, ApNothing, ApAck, ApStep, callVars, TypeOK, Quiet
    <2>2. Done(p)' <=> Done(p)
      BY <2>1 DEF Done, Quiet
    <2>3. \A k \in Calls : Duty(p, k)'
      BY <1>1, <1>2, <2>1, <2>2, DutyKept DEF Quiet
    <2> QED BY <1>1, <1>2, <2>1, <2>3, DutiesApKept DEF Given
  <1>4. CASE ApEnter(p)
    <2>1. /\ UNCHANGED <<Procedure, served>> /\ apc[p] = "woken" /\ apc'[p] = "running"
          /\ Procedure[p] # NoCall /\ job'[p] = Procedure[p] /\ State'[p] = "BUSY"
      BY <1>4 DEF ApEnter, ApStep, callVars, TypeOK
    <2>2. /\ Works(p) => State[p] = "READY"
          /\ ~Done(p)'
      BY <2>1 DEF Works, Quiet, Done, TypeOK, CpuState
    <2>3. Works(p) => ~Done(p)
      BY <2>2 DEF Done
    <2>4. \A k \in Calls : Duty(p, k)'
      BY <1>1, <1>2, <2>1, <2>2, <2>3, DutyKept
    <2> QED BY <1>1, <1>2, <2>1, <2>2, <2>4, DutiesApKept DEF Given, Taken
  <1>5. CASE ApReturn(p)
    <2> DEFINE k == job[p]
    <2>1. /\ UNCHANGED <<State, Procedure, job>> /\ apc[p] = "running" /\ apc'[p] = "returned"
          /\ k \in Calls /\ served' = [served EXCEPT ![k] = @ \union {p}]
      BY <1>5 DEF ApReturn, ApStep, TypeOK
    <2>2. Procedure[p] = k /\ p \in assigned[k]
      BY <1>2, <2>1 DEF Given, Duty
    <2>3. Works(p) => State[p] = "BUSY"
      BY <2>1 DEF Works, Quiet, TypeOK, CpuState
    <2>4. \A j \in Calls : Owes(p, j) => Done(p)'
      BY <1>2, <2>1, <2>3 DEF Done
    <2>5. p \in served'[k] /\ \A j \in Calls : j # k => served'[j] = served[j]
      BY <2>1 DEF TypeOK
    <2> HIDE DEF k
    <2>6. ASSUME NEW j \in Calls PROVE Duty(p, j)'
      <3>1. Duty(p, j) /\ j # NoCall
        BY <1>2
      <3>2. CASE j = k
        BY <1>1, <1>2, <2>1, <2>2, <2>4, <2>5, <3>1, <3>2 DEF Duty
      <3>3. CASE j # k
        BY <1>1, <1>2, <2>1, <2>2, <2>5, <3>1, <3>3, Ranges DEF Duty
      <3> QED BY <3>2, <3>3
    <2>7. \A j \in Calls : served[j] \subseteq served'[j] /\ served'[j] \subseteq served[j] \union {p}
      BY <2>1 DEF TypeOK
    <2> QED BY <1>1, <1>2, <2>1, <2>6, <2>7, DutiesApKept DEF Given
  <1>6. CASE ApClear(p)
    <2>1. /\ UNCHANGED <<State, served>> /\ apc[p] = "returned" /\ apc'[p] = "cleared"
          /\ Procedure'[p] = NoCall /\ job'[p] = NoCall
      BY <1>6 DEF ApClear, ApStep, callVars, TypeOK
    <2>2. Done(p)' <=> Done(p)
      BY <2>1 DEF Done
    <2>3. \A k \in Calls : Duty(p, k)'
      BY <1>1, <1>2, <2>1, <2>2, DutyKept
    <2>4. Given(p)'
      BY <2>1, Ranges DEF Given
    <2> QED BY <1>1, <1>2, <2>1, <2>3, <2>4, DutiesApKept
  <1>7. CASE ApFinish(p)
    <2>1. /\ UNCHANGED <<Procedure, job, served>> /\ apc[p] = "cleared" /\ apc'[p] = "finished"
          /\ State'[p] = "FINISHED"
      BY <1>7 DEF ApFinish, ApStep, callVars, TypeOK
    <2>2. Works(p) => State[p] = "BUSY"
      BY <2>1 DEF Works, Quiet, TypeOK, CpuState
    <2>3. Works(p) => (Done(p)' <=> Done(p))
      BY <2>1, <2>2 DEF Done
    <2>4. \A k \in Calls : Duty(p, k)'
      BY <1>1, <1>2, <2>1, <2>3, DutyKept
    <2> QED BY <1>1, <1>2, <2>1, <2>2, <2>4, DutiesApKept DEF Given, Taken
  <1> QED BY <1>3, <1>4, <1>5, <1>6, <1>7 DEF Ap
-----------------------------------------------------------------------------
(* Everything else.                                                        *)
LEMMA DutiesAside ==
  ASSUME TypeOK, TypeOK', Inv, Control', UNCHANGED <<ctxVars, BSP, CpuList, AllProc, AllEvent, WaitEvent>>,
         UNCHANGED <<State, Procedure, apc, job, callVars>>
  PROVE  Duties'
  BY Bystanders, DutiesStill DEF callVars

LEMMA DutiesStartCall ==
  ASSUME Careful, TypeOK, TypeOK', Inv, Control',
         NEW c \in Callers, NEW kind \in CallKinds, NEW p \in Procs, StartCall(c, kind, p)
  PROVE  Duties'
  <1>1. /\ c = "main" /\ pc["main"] = "idle" /\ pc["timer"] = "idle" /\ pc["notify"] = "idle"
        /\ op["main"] = NoOp
    BY Unfolded DEF StartCall, MayCall, Careful, At, Active, CtlParams
  <1>2. UNCHANGED <<CpuList, AllEvent, WaitEvent, State, Procedure, apc, job, BSP, result, assigned, served, failed>>
    BY DEF StartCall, cpuVars, thisVars, allVars, callVars
  <1>3. pc'["main"] = "Update" /\ pc'["timer"] = "idle" /\ pc'["notify"] = "idle"
    BY <1>1 DEF StartCall, TypeOK, Contexts
  <1>4. Id = NoCall /\ Id' = NoCall
    <2>1. op \in [Contexts -> Op] /\ "main" \in Contexts
      BY DEF TypeOK, Contexts
    <2> QED BY <1>1, <2>1, NoOpIs DEF StartCall, Id, Op
  <1>5. /\ \A k \in Calls : Joint(k)' <=> Joint(k)
        /\ \A q \in Procs, k \in Calls : Owes(q, k)' <=> Owes(q, k)
        /\ \A q \in Procs : Owner(q)' <=> Owner(q)
    BY <1>2, <1>4, Ranges DEF Joint, Owes, Serving, Owner, Listed, Pending
  <1>6. (\A d \in Contexts : Resetting(d)') /\ Delivered'
    BY <1>3, NobodyDelivers
  <1>7. \A q \in Procs : Outside(q) => Outside(q)'
    BY <1>1, <1>2 DEF Outside, SwitchOwns
  <1> QED BY <1>2, <1>5, <1>6, <1>7, DutiesStill

LEMMA DutiesTimer ==
  ASSUME TypeOK, TypeOK', Inv, Control', CheckApsStatus
  PROVE  Duties'
  <1>1. /\ UNCHANGED <<op, CpuList, AllEvent, WaitEvent, State, Procedure, apc, job, BSP, AllProc, callVars>>
        /\ UNCHANGED <<pc, cur>> \/ (~mStop /\ Goto("timer", "Update", 0))
    BY DEF CheckApsStatus, cpuVars, thisVars, allVars
  <1>2. CASE UNCHANGED <<pc, cur>>
    BY <1>1, <1>2, DutiesAside DEF ctxVars
  <1>3. CASE ~mStop /\ Goto("timer", "Update", 0)
    <2>1. pc'["main"] = pc["main"] /\ pc'["notify"] = pc["notify"] /\ pc'["timer"] = "Update"
      BY <1>3, Moves DEF Contexts
    <2>2. pc["notify"] = "idle" /\ pc["main"] \in {"idle", "SwitchWait", "Exchange"}
      BY <1>3, Unfolded DEF Control, Suppressed
    <2>3. (\A d \in Contexts : Resetting(d)') /\ Delivered'
      BY <2>1, <2>2 DEF Contexts, Resetting, Delivered, Delivering, Where
    <2>4. \A q \in Procs : Outside(q) => Outside(q)'
      BY <1>1, <2>1 DEF Outside, SwitchOwns
    <2> QED BY <1>1, <2>3, <2>4, SameOwners, DutiesStill DEF callVars
  <1> QED BY <1>1, <1>2, <1>3

LEMMA DutiesEnable ==
  ASSUME Careful, TypeOK, TypeOK', Inv, NEW p \in Procs, NEW b \in BOOLEAN, EnableDisableAP(p, b)
  PROVE  Duties'
  <1>1. /\ UNCHANGED <<ctxVars, BSP, CpuList, AllProc, AllEvent, WaitEvent, Procedure, apc, job, callVars>>
        /\ State[p] \in {"IDLE", "DISABLED"} /\ State'[p] \in {"IDLE", "DISABLED"}
        /\ \A q \in Procs : q # p => State'[q] = State[q]
    BY DEF EnableDisableAP, Careful, thisVars, allVars, TypeOK
  <1>2. UNCHANGED <<result, assigned, served, failed>>
    BY <1>1 DEF callVars
  <1>3. Done(p)' <=> Done(p)
    BY <1>1 DEF Done
  <1>4. \A k \in Calls : Duty(p, k)'
    BY <1>1, <1>2, <1>3, Bystanders, DutyKept, Unfolded
  <1>5. Given(p)'
    BY <1>1, Unfolded DEF Given
  <1> QED BY <1>1, <1>2, <1>4, <1>5, DutiesApKept DEF Taken

LEMMA DutiesSwitch ==
  ASSUME TypeOK, TypeOK', Inv, NEW p \in Procs, NEW b \in BOOLEAN, SwitchBSP(p, b)
  PROVE  Duties'
  <1>1. /\ pc["main"] = "idle" /\ pc["timer"] = "idle" /\ pc["notify"] = "idle" /\ op["main"] = NoOp
        /\ p # BSP /\ State[p] = "IDLE"
        /\ UNCHANGED <<CpuList, AllEvent, WaitEvent, State, AllProc, BSP, result, assigned, served, failed>>
    BY Unfolded DEF SwitchBSP, At, Active, CtlParams, thisVars, allVars, callVars
  <1>2. pc'["main"] = "Exchange" /\ pc'["timer"] = "idle" /\ pc'["notify"] = "idle"
    BY <1>1, Moves DEF SwitchBSP, Contexts
  <1>3. Id = NoCall /\ Id' = NoCall
    <2>1. op \in [Contexts -> Op] /\ "main" \in Contexts
      BY DEF TypeOK, Contexts
    <2> QED BY <1>1, <2>1, NoOpIs DEF SwitchBSP, Id, Op
  <1>4. /\ \A k \in Calls : Joint(k)' <=> Joint(k)
        /\ \A q \in Procs, k \in Calls : Owes(q, k)' <=> Owes(q, k)
        /\ \A q \in Procs : Owner(q)' <=> Owner(q)
    BY <1>1, <1>3, Ranges DEF Joint, Owes, Serving, Owner, Listed, Pending
  <1>5. /\ Procedure'[p] = FutureBsp /\ job'[p] \in {NoCall, job[p]}
        /\ \A q \in Procs : q # p => /\ Procedure'[q] = Procedure[q]
                                     /\ apc'[q] = apc[q] /\ job'[q] = job[q]
    BY Waking DEF SwitchBSP
  <1>6. ~Outside(p) /\ ~Owner(p)
    <2>1. ~Outside(p) /\ ~Unmarked(p) /\ ~Closing(p) /\ ~Serving(p)
      BY <1>1, <1>3 DEF Outside, SwitchOwns, Unmarked, Closing, Serving
    <2> QED BY <1>1, <2>1, Unfolded DEF Owned, Owner, Taken
  <1>7. \A k \in Calls : ~Owes(p, k) /\ k # FutureBsp
    <2>1. \A k \in Calls : k # NoCall /\ k # FutureBsp
      BY Ranges DEF FutureBsp
    <2> QED BY <1>6, <2>1 DEF Owes, Owner, Joint, Listed, Pending
  <1>8. Procedure[p] = NoCall
    BY <1>1, <1>6, Unfolded DEF Works
  <1>9. ASSUME NEW q \in Procs, NEW k \in Calls PROVE Duty(q, k)'
    <2>1. CASE q = p
      BY <1>1, <1>4, <1>5, <1>7, <2>1, DutyKept, Unfolded
    <2>2. CASE q # p
      <3>1. Done(q)' <=> Done(q)
        BY <1>1, <1>5, <2>2 DEF Done
      <3> QED BY <1>1, <1>4, <1>5, <2>2, <3>1, DutyKept, Unfolded
    <2> QED BY <2>1, <2>2
  <1>10. ASSUME NEW q \in Procs PROVE Given(q)' /\ Cared(q)'
    <2>1. Left(q) => Left(q)'
      BY <1>1, LeftKept
    <2>2. Outside(q) => Outside(q)'
      BY <1>1 DEF Outside, SwitchOwns
    <2>3. Cared(q)'
      BY <1>1, <1>4, <2>1, <2>2, CaredKept, Unfolded
    <2>4. Given(q)'
      BY <1>5, <1>8, Unfolded, Ranges DEF Given
    <2> QED BY <2>3, <2>4
  <1>11. FailedListHonest'
    BY <1>1, Unfolded DEF Duties, FailedListHonest
  <1> QED BY <1>2, <1>9, <1>10, <1>11, NobodyDelivers DEF Duties

LEMMA DutiesExchange ==
  ASSUME TypeOK, TypeOK', Inv, Exchange
  PROVE  Duties'
  <1>1. /\ pc["main"] = "Exchange" /\ pc["timer"] = "idle" /\ pc["notify"] = "idle"
        /\ UNCHANGED <<op, CpuList, AllEvent, WaitEvent, State, Procedure, job, AllProc, BSP>>
        /\ UNCHANGED <<result, assigned, served, failed>>
        /\ apc' = [apc EXCEPT ![Target] = "bsp", ![BSP] = "returned"]
    BY DEF Exchange, At, Active, thisVars, allVars, callVars, Target
  <1>2. pc'["main"] = "SwitchWait" /\ pc'["timer"] = "idle" /\ pc'["notify"] = "idle"
    BY <1>1, Moves DEF Exchange, Contexts
  <1>3. /\ \A k \in Calls : Joint(k)' <=> Joint(k)
        /\ \A q \in Procs, k \in Calls : Owes(q, k)' <=> Owes(q, k)
        /\ \A q \in Procs : Owner(q)' <=> Owner(q)
    BY <1>1, SameOwners
  <1>4. \A q \in Procs : ~Outside(q) => apc'[q] = apc[q]
    BY <1>1 DEF Outside, SwitchOwns, Target, TypeOK
  <1>5. ASSUME NEW q \in Procs, Outside(q), NEW k \in Calls PROVE Procedure[q] # k /\ ~Owes(q, k)
    <2>1. q = BSP \/ q = Target
      BY <1>5 DEF Outside, SwitchOwns, Target
    <2>2. Procedure[q] # k
      BY <1>1, <2>1, Unfolded, Ranges DEF Roles, FutureBsp
    <2> QED BY <1>5, <2>2, OneDebt
  <1>6. ASSUME NEW q \in Procs, NEW k \in Calls PROVE Duty(q, k)'
    <2>1. CASE Outside(q)
      BY <1>1, <1>3, <1>5, <2>1, DutyKept, Unfolded
    <2>2. CASE ~Outside(q)
      <3>1. Done(q)' <=> Done(q)
        BY <1>1, <1>4, <2>2 DEF Done
      <3> QED BY <1>1, <1>3, <1>4, <2>2, <3>1, DutyKept, Unfolded
    <2> QED BY <2>1, <2>2
  <1>7. ASSUME NEW q \in Procs PROVE Given(q)' /\ Cared(q)'
    <2>1. Left(q) => Left(q)'
      BY <1>1, LeftKept
    <2>2. Outside(q)' <=> Outside(q)
      BY <1>1, <1>2 DEF Outside, SwitchOwns
    <2>3. Cared(q)'
      BY <1>1, <1>3, <2>1, <2>2, CaredKept, Unfolded
    <2> QED BY <1>1, <2>3, Unfolded DEF Given
  <1>8. FailedListHonest'
    BY <1>1, Unfolded DEF Duties, FailedListHonest
  <1> QED BY <1>2, <1>6, <1>7, <1>8, NobodyDelivers DEF Duties

LEMMA DutiesSwitched ==
  ASSUME TypeOK, TypeOK', Inv, SwitchDone
  PROVE  Duties'
  <1>1. /\ pc["main"] = "SwitchWait" /\ pc["timer"] = "idle" /\ pc["notify"] = "idle"
        /\ UNCHANGED <<CpuList, AllEvent, WaitEvent, Procedure, apc, job, AllProc>>
        /\ UNCHANGED <<result, assigned, served, failed>>
        /\ BSP' = Target /\ State'[BSP] \in {"IDLE", "DISABLED"}
        /\ \A q \in Procs : q # BSP => State'[q] = State[q]
        /\ "main" \in Contexts /\ CtlParams /\ State[BSP] = "FINISHED"
    BY Unfolded DEF SwitchDone, At, Active, thisVars, allVars, callVars, Target, TypeOK, Contexts
  <1>2. pc'["main"] = "idle" /\ pc'["timer"] = "idle" /\ pc'["notify"] = "idle"
    BY <1>1, Moves DEF SwitchDone, Contexts
  <1>3. Id = NoCall /\ Id' = NoCall
    <2>1. Id = NoCall
      BY <1>1 DEF CtlParams, Accepted
    <2>2. op'["main"] = NoOp
      BY <1>1 DEF SwitchDone, TypeOK
    <2> QED BY <2>1, <2>2, NoOpIs DEF Id
  <1>4. /\ \A k \in Calls : Joint(k)' <=> Joint(k)
        /\ \A q \in Procs, k \in Calls : Owes(q, k)' <=> Owes(q, k)
        /\ \A q \in Procs : Owner(q)' <=> Owner(q)
    BY <1>1, <1>3, Ranges DEF Joint, Owes, Serving, Owner, Listed, Pending
  <1>5. \A k \in Calls : Procedure[BSP] # k /\ ~Owes(BSP, k)
    <2>1. BSP \in Procs /\ Outside(BSP)
      BY DEF TypeOK, Outside
    <2>2. \A k \in Calls : Procedure[BSP] # k
      BY Unfolded DEF Roles
    <2> QED BY <2>1, <2>2, OneDebt
  <1>6. ASSUME NEW q \in Procs, NEW k \in Calls PROVE Duty(q, k)'
    <2>1. CASE q = BSP
      BY <1>1, <1>4, <1>5, <2>1, DutyKept, Unfolded
    <2>2. CASE q # BSP
      <3>1. Done(q)' <=> Done(q)
        BY <1>1, <2>2 DEF Done
      <3> QED BY <1>1, <1>4, <3>1, DutyKept, Unfolded
    <2> QED BY <2>1, <2>2
  <1>7. ASSUME NEW q \in Procs PROVE Given(q)' /\ Cared(q)'
    <2>1. Left(q) => Left(q)'
      BY <1>1, LeftKept
    <2>2. ~Outside(q)' /\ State'[q] \in Taken => ~Outside(q) /\ State[q] \in Taken
      BY <1>1 DEF Outside, SwitchOwns, Target, Taken
    <2>3. Cared(q)'
      BY <1>4, <2>1, <2>2, CaredKept, Unfolded
    <2> QED BY <1>1, <2>3, Unfolded DEF Given
  <1>8. FailedListHonest'
    BY <1>1, Unfolded DEF Duties, FailedListHonest
  <1> QED BY <1>2, <1>6, <1>7, <1>8, NobodyDelivers DEF Duties

LEMMA DutiesStep ==
  ASSUME Careful, TypeOK, TypeOK', Inv, Control', [Next]_vars
  PROVE  Duties'
  <1>1. ASSUME NEW p \in Procs, Elapse(p) PROVE Duties'
    BY <1>1, DutiesAside DEF Elapse, cpuVars, allVars
  <1>2. CASE ElapseAll
    BY <1>2, DutiesAside DEF ElapseAll, cpuVars, thisVars
  <1>3. CASE UNCHANGED vars
    BY <1>3, DutiesAside DEF vars, cpuVars, thisVars, allVars
  <1>4. CASE Next
    BY <1>1, <1>2, <1>4, DutiesAp, DutiesTimer, DutiesCheck, DutiesDispatch, DutiesStartCall, DutiesEnable,
       DutiesSwitch, DutiesExchange, DutiesSwitched DEF Next
  <1> QED BY <1>3, <1>4
-----------------------------------------------------------------------------
(* Inv holds whenever the driver runs. *)
LEMMA InvHolds ==
  ASSUME Careful
  PROVE  Spec => [](TypeOK /\ Inv)
  <1>1. Init => Inv
    BY ControlStart, OwnersStart, NamesStart, DutiesStart DEF Inv
  <1>2. TypeOK /\ TypeOK' /\ Inv /\ [Next]_vars => Inv'
    <2> SUFFICES ASSUME TypeOK, TypeOK', Inv, [Next]_vars PROVE Inv'
      OBVIOUS
    <2>1. Control' /\ Owners' /\ Names'
      BY Unfolded, ControlStep, OwnersStep, NamesStep
    <2> QED BY <2>1, DutiesStep DEF Inv
  <1> QED BY <1>1, <1>2, TypeCorrect, PTL DEF Spec

(* No AP is left READY, BUSY or FINISHED with nobody to collect it, unless *)
(* a call ended for lack of memory: whoever gives an AP up, be it by a     *)
(* collection, a timeout or a switch, leaves it idle, and a call keeps     *)
(* every AP it marked until it does.                                       *)
THEOREM NoneForgotten ==
  ASSUME Careful
  PROVE  Spec => []NoOrphan
  <1>1. ASSUME Inv PROVE NoOrphan
    <2> SUFFICES ASSUME NEW p \in Procs \ {BSP}, State[p] \in {"READY", "BUSY", "FINISHED"}
                 PROVE  \/ AllOwns(p) \/ ThisOwns(p) \/ SwitchOwns(p)
                        \/ \E k \in Calls : result[k] = "resources" /\ p \in assigned[k]
      BY DEF NoOrphan
    <2>1. SwitchOwns(p) \/ Owner(p) \/ Left(p)
      BY <1>1, Unfolded DEF Cared, Outside, Taken
    <2> QED BY <1>1, <2>1, OnlyMain, Unfolded DEF Owner, Left
  <1> QED BY <1>1, InvHolds, PTL

(* An AP runs a procedure only for a call that was given to it and that is *)
(* not answered, and only once, whenever the timer resets it and however   *)
(* late it sees its wake-up.                                               *)
THEOREM NoLateRun ==
  ASSUME Careful
  PROVE  Spec => []NoGhostRun
  <1>1. ASSUME Inv PROVE NoGhostRun
    <2> SUFFICES ASSUME NEW p \in Procs, apc[p] = "running", job[p] \in Calls
                 PROVE  /\ result[job[p]] \in {"pending", "resources"}
                        /\ p \in assigned[job[p]] \ served[job[p]]
      BY DEF NoGhostRun
    <2>1. Procedure[p] = job[p]
      BY <1>1, Unfolded DEF Given
    <2>2. Duty(p, job[p])
      BY <1>1, Unfolded
    <2> QED BY <2>1, <2>2 DEF Duty
  <1> QED BY <1>1, InvHolds, PTL

(* In single thread mode no two APs run the procedure at a time: the next  *)
(* one has no Procedure before CheckAllAps collected the one before it.    *)
THEOREM OneByOne ==
  ASSUME Careful
  PROVE  Spec => []OneAtATime
  <1>1. ASSUME TypeOK, Inv PROVE OneAtATime
    <2> SUFFICES ASSUME SingleThread, AllPending, ~(\E c \in Contexts : Started(c) /\ ~op[c].poll),
                        NEW p \in Procs, NEW q \in Procs,
                        job[p] = AllProc, job[q] = AllProc, AllProc # NoCall, p # q
                 PROVE  FALSE
      BY DEF OneAtATime
    <2>1. Pending /\ (Id # NoCall => Polls) /\ AllProc \in Calls
      BY <1>1, OnlyMain, Unfolded, Ranges DEF Started, Id, Polls
    <2>2. Joint(AllProc) /\ Serial /\ \A r \in Procs : ~Unmarked(r)
      BY <1>1, <2>1, Unfolded, Opened DEF Inv, Pending, Joint, Serial, Counted, Unmarked, CtlParams, CtlEvents, Accepted
    <2>3. ASSUME NEW r \in Procs, job[r] = AllProc PROVE Procedure[r] = AllProc /\ Listed(r)
      <3>1. Procedure[r] = AllProc /\ Duty(r, AllProc)
        BY <1>1, <2>1, <2>3, Unfolded DEF Given
      <3>2. Owes(r, AllProc)
        BY <2>2, <3>1 DEF Duty
      <3> QED BY <1>1, <2>1, <2>2, <3>1, <3>2, OneDebt
    <2>4. InTurn(p, q) /\ InTurn(q, p) /\ (p < q \/ q < p)
      BY <1>1, Opened DEF Inv, Procs
    <2> QED BY <2>2, <2>3, <2>4 DEF InTurn
  <1> QED BY <1>1, InvHolds, PTL

(* The FailedCpuList of a call that timed out names an AP, and every AP it *)
(* does not name has run the procedure, although APs finish while          *)
(* CheckAllAps walks the list and resets those it finds unfinished.        *)
THEOREM FailuresReported ==
  ASSUME Careful
  PROVE  Spec => []FailedListHonest
  <1>1. Inv => FailedListHonest
    BY DEF Inv, Duties
  <1> QED BY <1>1, InvHolds, PTL
-------------------------------------------------------------------------------
(***************************************************************************)
(* The driver implements ApJobs, what a caller is told of its calls, under *)
(* the assumptions of MpCalls_proof and from the invariant above.          *)
(***************************************************************************)
(* Only CheckAllAps, while it resets, has failures for a call that is not  *)
(* answered.                                                               *)
Unfailed ==
  \A k \in Calls : failed[k] # {} /\ result[k] \in {"none", "pending"} =>
    AllProc = k /\ \E c \in Contexts : pc[c] = "AllReset"

(* An AP that a call left for lack of memory, and that has not run yet, is *)
(* READY or BUSY for that call, and no other call wants it.                *)
Gone(p, k)    == result[k] = "resources" /\ p \in assigned[k] /\ p \notin served[k]
Running(p, k) == /\ State[p] \in {"READY", "BUSY"} /\ ~Done(p) /\ ~Outside(p)
                 /\ Procedure[p] \in {NoCall, k}
                 /\ \A j \in Calls : Owes(p, j) => j = k
RunsOn == \A p \in Procs, k \in Calls : Gone(p, k) => Running(p, k)

Rest == Unfailed /\ RunsOn

JobStep == Jobs!Next \/ UNCHANGED <<result, assigned, served>>

(* What a step may do to an AP that runs on: nothing, unless it is its own. *)
Untouched(p) == State'[p] = State[p] /\ Procedure'[p] = Procedure[p] /\ apc'[p] = apc[p]
Forsaken(p)  == /\ State[p] \in {"READY", "BUSY"} /\ ~Done(p)
                /\ \A j \in Calls : Owes(p, j) => result[j] # "pending"
NoReset == \A c \in Contexts : pc[c] # "AllReset"

LEMMA RestStart == Init => Rest
  BY CallsAssumption DEF Init, Rest, Unfailed, RunsOn, Gone

LEMMA RunsOnKept ==
  ASSUME RunsOn, NEW p \in Procs, NEW k \in Calls, Gone(p, k),
         Forsaken(p) => Untouched(p),
         Outside(p)' => Outside(p) \/ State[p] \notin {"READY", "BUSY"},
         \A j \in Calls : Owes(p, j)' => Owes(p, j) \/ State[p] \notin {"READY", "BUSY"}
  PROVE  Running(p, k)'
  <1>1. Running(p, k)
    BY DEF RunsOn
  <1>2. Forsaken(p)
    BY <1>1 DEF Forsaken, Running, Gone
  <1> QED BY <1>1, <1>2 DEF Running, Untouched, Done

(* A step of which the caller sees nothing. *)
LEMMA Silent ==
  ASSUME TypeOK, TypeOK', Rest, UNCHANGED <<result, assigned, served, failed>>,
         NoReset \/ UNCHANGED <<pc, AllProc>>,
         \A p \in Procs : Forsaken(p) => Untouched(p),
         \A p \in Procs : Outside(p)' => Outside(p) \/ State[p] \notin {"READY", "BUSY"},
         \A p \in Procs, j \in Calls : Owes(p, j)' => Owes(p, j)
  PROVE  Rest' /\ JobStep
  <1>1. Unfailed'
    BY DEF Rest, Unfailed, NoReset
  <1>2. ASSUME NEW p \in Procs, NEW k \in Calls, Gone(p, k)' PROVE Running(p, k)'
    <2>1. Gone(p, k)
      BY <1>2 DEF Gone
    <2> QED BY <2>1, RunsOnKept DEF Rest
  <1> QED BY <1>1, <1>2 DEF Rest, RunsOn, JobStep

(* An answer that is no lack of memory. *)
LEMMA Replies ==
  ASSUME TypeOK, TypeOK', Rest, NEW k \in Calls, NEW r \in {"success", "timeout"},
         Report(k, r), result[k] = "pending",
         UNCHANGED <<assigned, served>>,
         r = "success" => served[k] = assigned[k],
         \A j \in Calls : j # k => failed'[j] = failed[j],
         NoReset \/ AllProc = k,
         \A p \in Procs : Forsaken(p) => Untouched(p),
         \A p \in Procs : Outside(p)' => Outside(p) \/ State[p] \notin {"READY", "BUSY"},
         \A p \in Procs, j \in Calls : Owes(p, j)' => Owes(p, j)
  PROVE  Rest' /\ JobStep
  <1>1. result'[k] = r /\ \A j \in Calls : j # k => result'[j] = result[j]
    BY DEF Report, TypeOK
  <1>2. Unfailed'
    BY <1>1 DEF Rest, Unfailed, NoReset
  <1>3. ASSUME NEW p \in Procs, NEW j \in Calls, Gone(p, j)' PROVE Running(p, j)'
    <2>1. Gone(p, j)
      BY <1>1, <1>3 DEF Gone
    <2> QED BY <2>1, RunsOnKept DEF Rest
  <1>4. JobStep
    <2>1. Jobs!Complete(k) \/ Jobs!Expire(k)
      BY DEF Report, Jobs!Complete, Jobs!Expire
    <2> QED BY <2>1 DEF JobStep, Jobs!Next
  <1> QED BY <1>2, <1>3, <1>4 DEF Rest, RunsOn

(* No debt arises where calls and lists only go. *)
LEMMA OwesLess ==
  ASSUME TypeOK, op' = op \/ Id' = NoCall, AllEvent' \in {AllEvent, NoCall},
         \A q \in Procs : WaitEvent'[q] \in {WaitEvent[q], NoCall},
         \A q \in Procs : CpuList'[q] => CpuList[q] \/ (AllEvent = NoCall /\ Id = NoCall)
  PROVE  \A q \in Procs, j \in Calls : Owes(q, j)' => Owes(q, j)
  <1> SUFFICES ASSUME NEW q \in Procs, NEW j \in Calls, Owes(q, j)' PROVE Owes(q, j)
    OBVIOUS
  <1>1. j # NoCall
    BY Ranges
  <1>2. Id' = j => Id = j /\ (ForAll' <=> ForAll) /\ (Serving(q)' <=> Serving(q))
    BY <1>1 DEF Id, ForAll, Serving, Target
  <1> QED BY <1>1, <1>2 DEF Owes, Joint

LEMMA NobodyResets ==
  ASSUME Control, NEW c \in Contexts, Active(c), pc[c] \notin {"idle", "Exchange", "SwitchWait", "AllReset"}
  PROVE  NoReset
  BY Alone DEF NoReset
-----------------------------------------------------------------------------
(* CheckAndUpdateApsStatus.                                                *)
LEMMA JobsWalk ==
  ASSUME TypeOK, TypeOK', Inv, Rest, NEW c \in Contexts,
         \/ Update(c) \/ SkipAp(c) \/ AllExpired(c) \/ AllNotReady(c) \/ AllSignal(c) \/ AllClear(c)
         \/ EachSkip(c) \/ EachSignal(c) \/ EachClear(c) \/ Updated(c)
  PROVE  Rest' /\ JobStep
  <1>1. /\ Active(c) /\ pc[c] \in Checking \ {"AllReset"}
        /\ \A d \in Contexts : d # c => pc'[d] = pc[d]
        /\ pc'[c] \notin {"Exchange", "SwitchWait"}
        /\ UNCHANGED <<State, Procedure, apc, result, assigned, served, failed, CpuList, op, BSP>>
    BY Moves DEF Update, SkipAp, AllExpired, AllNotReady, AllSignal, AllClear, EachSkip, EachSignal, EachClear,
       Updated, At, Checking, cpuVars, allVars, callVars
  <1>2. AllEvent' \in {AllEvent, NoCall} /\ \A q \in Procs : WaitEvent'[q] \in {WaitEvent[q], NoCall}
    BY DEF Update, SkipAp, AllExpired, AllNotReady, AllSignal, AllClear, EachSkip, EachSignal, EachClear,
       Updated, thisVars, allVars, TypeOK
  <1>3. NoReset
    BY <1>1, NobodyResets, Unfolded DEF Checking
  <1>4. \A q \in Procs : Outside(q)' => Outside(q)
    <2>1. "main" \in Contexts
      BY DEF Contexts
    <2> QED BY <1>1, <2>1 DEF Outside, SwitchOwns
  <1> QED BY <1>1, <1>2, <1>3, <1>4, OwesLess, Silent DEF Untouched

LEMMA JobsCollect ==
  ASSUME TypeOK, TypeOK', Inv, Rest, NEW c \in Contexts, CollectAp(c)
  PROVE  Rest' /\ JobStep
  <1> DEFINE p == cur[c]
             k == AllProc
  <1>1. /\ At(c, "AllAps") /\ p \in Procs /\ State[p] = "FINISHED"
        /\ CpuList' = [CpuList EXCEPT ![p] = FALSE] /\ State' = [State EXCEPT ![p] = "IDLE"]
        /\ UNCHANGED <<AllEvent, WaitEvent, result, assigned, served, failed, BSP, op>>
    BY CurIsProc DEF CollectAp, At, thisVars, callVars
  <1>2. /\ pc'[c] = "AllAps"
        /\ \A d \in Contexts : d # c => pc'[d] = pc[d]
        /\ "main" \in Contexts
    BY Moves DEF CollectAp, Contexts
  <1>3. NoReset
    BY <1>1, NobodyResets, Unfolded DEF At
  <1>4. PICK W \in SUBSET Procs :
           /\ \A q \in W : /\ q # p /\ CpuList[q] /\ State[q] = "READY" /\ Procedure[q] = NoCall
                           /\ Procedure'[q] = k /\ apc'[q] \in {"woken", apc[q]}
                           /\ job'[q] \in {NoCall, job[q]}
           /\ \A q \in Procs \ W : /\ Procedure'[q] = Procedure[q]
                                   /\ apc'[q] = apc[q] /\ job'[q] = job[q]
    BY Collects
  <1>5. \A q \in Procs : q # p => State'[q] = State[q]
    BY <1>1 DEF TypeOK
  <1>6. \A q \in W : ~Forsaken(q)
    BY <1>1, <1>4, JointAtCheck DEF Forsaken, Owes
  <1>7. ~Forsaken(p)
    BY <1>1 DEF Forsaken
  <1>8. \A q \in Procs : Forsaken(q) => Untouched(q)
    BY <1>4, <1>5, <1>6, <1>7 DEF Untouched
  <1>9. \A q \in Procs : Outside(q)' => Outside(q)
    BY <1>1, <1>2 DEF Outside, SwitchOwns
  <1>10. \A q \in Procs : CpuList'[q] => CpuList[q]
    BY <1>1 DEF TypeOK
  <1> QED BY <1>1, <1>3, <1>8, <1>9, <1>10, OwesLess, Silent

LEMMA JobsAllReset ==
  ASSUME TypeOK, TypeOK', Inv, Rest, NEW c \in Contexts, AllReset(c)
  PROVE  Rest' /\ JobStep
  <1> DEFINE p == cur[c]
  <1>1. /\ At(c, "AllReset") /\ p \in Procs
        /\ UNCHANGED <<AllProc, AllEvent, WaitEvent, result, assigned, served, BSP, op>>
    BY CurIsProc DEF AllReset, At, thisVars
  <1>2. /\ pc'[c] = "AllReset"
        /\ \A d \in Contexts : d # c => pc'[d] = pc[d]
        /\ "main" \in Contexts
    BY Moves DEF AllReset, Contexts
  <1>3. AllProc \in Calls /\ Joint(AllProc) /\ result[AllProc] = "pending"
    BY <1>1, JointAtCheck
  <1>4. /\ \A q \in Procs : Outside(q)' => Outside(q)
        /\ \A q \in Procs : CpuList'[q] => CpuList[q]
        /\ \A j \in Calls : j # AllProc => failed'[j] = failed[j]
    BY <1>1, <1>2, <1>3 DEF Outside, SwitchOwns, AllReset, TypeOK
  <1>5. \A q \in Procs : Forsaken(q) => Untouched(q)
    <2>1. CASE ~CpuList[p]
      BY <2>1 DEF AllReset, cpuVars, Untouched
    <2>2. CASE CpuList[p]
      <3>1. ~Forsaken(p)
        BY <1>1, <1>3, <2>2 DEF Forsaken, Owes
      <3>2. ResetProcessorToIdleState(p)
        BY <2>2 DEF AllReset
      <3>3. \A q \in Procs : q # p => Untouched(q)
        BY <1>1, <3>2 DEF ResetProcessorToIdleState, Untouched, TypeOK
      <3> QED BY <3>1, <3>3
    <2> QED BY <2>1, <2>2
  <1>6. \A q \in Procs, j \in Calls : Owes(q, j)' => Owes(q, j)
    BY <1>1, <1>4, OwesLess
  <1>7. Unfailed'
    BY <1>1, <1>2, <1>4 DEF Rest, Unfailed
  <1>8. ASSUME NEW q \in Procs, NEW j \in Calls, Gone(q, j)' PROVE Running(q, j)'
    <2>1. Gone(q, j)
      BY <1>1, <1>8 DEF Gone
    <2> QED BY <1>4, <1>5, <1>6, <2>1, RunsOnKept DEF Rest
  <1> QED BY <1>1, <1>7, <1>8 DEF Rest, RunsOn, JobStep

(* The call that CheckAllAps answers. *)
LEMMA JobsAllDone ==
  ASSUME TypeOK, TypeOK', Inv, Rest, NEW c \in Contexts, AllFinished(c) \/ AllTimeout(c)
  PROVE  Rest' /\ JobStep
  <1>1. /\ At(c, "AllAps") \/ At(c, "AllReset")
        /\ UNCHANGED <<State, Procedure, apc, AllEvent, WaitEvent, CpuList, assigned, served, failed, BSP>>
        /\ Deliver(c)
    BY DEF AllFinished, AllTimeout, cpuVars, thisVars, allVars
  <1>2. AllProc \in Calls /\ Joint(AllProc) /\ result[AllProc] = "pending" /\ (c = "main" \/ c = "timer")
        /\ "main" \in Contexts
    BY <1>1, JointAtCheck
  <1>3. op' = op \/ Id' = NoCall
    BY <1>1, <1>2, JointAtCheck, NoOpIs, Delivers DEF Deliver, Id
  <1>4. \A q \in Procs : Outside(q)' => Outside(q)
    <2>1. pc'["main"] \in {"idle", "AllSignal"} \/ pc'["main"] = pc["main"]
      BY <1>1, <1>2, Delivers
    <2>2. pc'["main"] \in {"idle", "AllSignal"} \/ op'["main"] = op["main"]
      BY <1>1, <1>2, Delivers
    <2> QED BY <1>1, <2>1, <2>2, JointAtCheck DEF Outside, SwitchOwns, Target
  <1>5. \A q \in Procs, j \in Calls : Owes(q, j)' => Owes(q, j)
    BY <1>1, <1>3, OwesLess
  <1>6. NoReset \/ At(c, "AllReset")
    BY <1>1, NobodyResets, Unfolded DEF At
  <1>7. CASE AllFinished(c)
    <2>1. At(c, "AllAps") /\ Waiting(CpuList) = {} /\ Report(AllProc, "success") /\ NoReset
      BY <1>7, AllCounted, NobodyResets, Unfolded DEF AllFinished, At
    <2>2. ASSUME NEW p \in assigned[AllProc] PROVE p \in served[AllProc]
      <3>1. p \in Procs
        BY <1>2 DEF TypeOK
      <3>2. ~Owes(p, AllProc)
        BY <1>1, <1>2, <2>1, <3>1, OneDebt DEF Waiting, Listed
      <3>3. failed[AllProc] = {}
        BY <1>2, <2>1 DEF Rest, Unfailed, NoReset
      <3> QED BY <1>2, <3>1, <3>2, <3>3, Unfolded DEF Duty
    <2>3. \A p \in served[AllProc] : p \in assigned[AllProc]
      BY <1>2, Unfolded DEF Duty, TypeOK
    <2>4. served[AllProc] = assigned[AllProc]
      BY <2>2, <2>3
    <2> QED BY <1>1, <1>2, <1>4, <1>5, <2>1, <2>4, Replies DEF Untouched
  <1>8. CASE AllTimeout(c)
    <2>1. Report(AllProc, "timeout")
      BY <1>8 DEF AllTimeout
    <2> QED BY <1>1, <1>2, <1>4, <1>5, <2>1, Replies DEF Untouched
  <1> QED BY <1>7, <1>8

(* For lack of memory the APs are left as they are. *)
LEMMA JobsNoMemory ==
  ASSUME TypeOK, TypeOK', Inv, Rest, NEW c \in Contexts, AllOutOfResources(c)
  PROVE  Rest' /\ JobStep
  <1>1. /\ At(c, "AllAps") /\ Report(AllProc, "resources") /\ Deliver(c)
        /\ UNCHANGED <<State, Procedure, apc, AllEvent, WaitEvent, CpuList, assigned, served, failed, BSP>>
    BY DEF AllOutOfResources, cpuVars, thisVars, allVars
  <1>2. /\ AllProc \in Calls /\ Joint(AllProc) /\ result[AllProc] = "pending"
        /\ c = "main" \/ c = "timer"
        /\ "main" \in Contexts /\ "timer" \in Contexts
        /\ \A d \in Contexts : d # c => pc[d] \in {"idle", "SwitchWait"}
    BY <1>1, JointAtCheck
  <1> PICK k \in Calls : k = AllProc
    BY <1>2
  <1>3. op' = op \/ Id' = NoCall
    BY <1>1, <1>2, JointAtCheck, NoOpIs, Delivers DEF Deliver, Id
  <1>4. \A q \in Procs : Outside(q)' => Outside(q)
    <2>1. pc'["main"] \in {"idle", "AllSignal"} \/ pc'["main"] = pc["main"]
      BY <1>1, <1>2, Delivers
    <2>2. pc'["main"] \in {"idle", "AllSignal"} \/ op'["main"] = op["main"]
      BY <1>1, <1>2, Delivers
    <2> QED BY <1>1, <2>1, <2>2 DEF Outside, SwitchOwns, Target
  <1>5. \A q \in Procs, j \in Calls : Owes(q, j)' => Owes(q, j)
    BY <1>1, <1>3, OwesLess
  <1>6. NoReset
    BY <1>1, NobodyResets, Unfolded DEF At
  <1>7. result'[k] = "resources" /\ \A j \in Calls : j # k => result'[j] = result[j]
    BY <1>1 DEF Report, TypeOK
  <1>8. Unfailed'
    BY <1>1, <1>6, <1>7 DEF Rest, Unfailed, NoReset
  <1>9. ASSUME NEW p \in Procs, Gone(p, k)' PROVE Running(p, k)'
    <2>1. p \in assigned[k] /\ p \notin served[k]
      BY <1>1, <1>9 DEF Gone
    <2>2. failed[k] = {}
      BY <1>2, <1>6 DEF Rest, Unfailed, NoReset
    <2>3. Owes(p, k)
      BY <1>2, <2>1, <2>2, Unfolded DEF Duty
    <2>4. ~Done(p) /\ Procedure[p] \in {NoCall, k}
      BY <1>2, <2>1, <2>3, Unfolded DEF Duty
    <2>5. /\ ~Outside(p) /\ \A j \in Calls : Owes(p, j) => j = k
          /\ Listed(p)
      BY <1>2, <2>3, OneDebt
    <2>6. ~Unmarked(p)
      BY <1>1, <1>2 DEF At, Unmarked
    <2>7. State[p] \in {"READY", "BUSY"}
      BY <2>4, <2>5, <2>6, Unfolded DEF Owned, Taken, Done
    <2>8. ~Done(p)'
      BY <1>1, <2>4 DEF Done
    <2> QED BY <1>1, <1>4, <1>5, <2>4, <2>5, <2>7, <2>8 DEF Running
  <1>10. ASSUME NEW p \in Procs, NEW j \in Calls, j # k, Gone(p, j)' PROVE Running(p, j)'
    <2>1. Gone(p, j)
      BY <1>1, <1>7, <1>10 DEF Gone
    <2> QED BY <1>1, <1>4, <1>5, <2>1, RunsOnKept DEF Rest, Untouched
  <1>11. Jobs!Abandon(k)
    BY <1>1, <1>2 DEF Report, Jobs!Abandon
  <1> QED BY <1>8, <1>9, <1>10, <1>11 DEF Rest, RunsOn, JobStep, Jobs!Next

(* The call that CheckThisAp answers, for the timer or a blocking caller. *)
LEMMA JobsOneDone ==
  ASSUME TypeOK, TypeOK', Inv, Rest, NEW p \in Procs, NEW k \in Calls,
         Owes(p, k), result[k] = "pending", assigned[k] = {p},
         ThisFinished(p, k) \/ ThisExpired(p, k),
         UNCHANGED <<assigned, served>>, NoReset,
         \A q \in Procs : Outside(q)' => Outside(q),
         \A q \in Procs, j \in Calls : Owes(q, j)' => Owes(q, j)
  PROVE  Rest' /\ JobStep
  <1>1. ~Forsaken(p)
    BY DEF Forsaken
  <1>2. CASE ThisFinished(p, k)
    <2>1. /\ State[p] = "FINISHED" /\ State' = [State EXCEPT ![p] = "IDLE"]
          /\ Report(k, "success") /\ UNCHANGED <<Procedure, apc, failed>>
      BY <1>2 DEF ThisFinished
    <2>2. p \in served[k] /\ \A q \in Procs : q \in served[k] => q \in assigned[k]
      BY <2>1, Unfolded DEF Duty, Done
    <2>3. served[k] = assigned[k]
      BY <2>2 DEF TypeOK
    <2>4. \A q \in Procs : Forsaken(q) => Untouched(q)
      BY <1>1, <2>1 DEF Untouched, TypeOK
    <2> QED BY <2>1, <2>3, <2>4, Replies
  <1>3. CASE ThisExpired(p, k)
    <2>1. /\ ResetProcessorToIdleState(p) /\ Report(k, "timeout")
          /\ failed' = [failed EXCEPT ![k] = {p}]
      BY <1>3 DEF ThisExpired
    <2>2. \A q \in Procs : q # p => Untouched(q)
      BY <2>1 DEF ResetProcessorToIdleState, Untouched, TypeOK
    <2>3. \A j \in Calls : j # k => failed'[j] = failed[j]
      BY <2>1 DEF TypeOK
    <2> QED BY <1>1, <2>1, <2>2, <2>3, Replies
  <1> QED BY <1>2, <1>3

LEMMA JobsEachDone ==
  ASSUME TypeOK, TypeOK', Inv, Rest, NEW c \in Contexts, EachDone(c)
  PROVE  Rest' /\ JobStep
  <1> DEFINE p == cur[c]
             k == WaitEvent[p]
  <1>1. /\ Active(c) /\ pc[c] = "EachAp" /\ p \in Procs /\ k # NoCall
        /\ UNCHANGED <<AllEvent, WaitEvent, CpuList, assigned, served, BSP, op>>
        /\ ThisFinished(p, k) \/ ThisExpired(p, k)
    BY CurIsProc DEF EachDone, At, thisVars, allVars
  <1>2. /\ pc'[c] = "EachSignal" /\ \A d \in Contexts : d # c => pc'[d] = pc[d]
        /\ "main" \in Contexts
    BY Moves DEF EachDone, Contexts
  <1>3. /\ NoReset /\ ~Closing(p)
    <2>1. NoReset
      BY <1>1, NobodyResets, Unfolded
    <2>2. \A d \in Contexts : d # c => pc[d] \in {"idle", "SwitchWait"}
      BY <1>1, Alone, Unfolded
    <2> QED BY <1>1, <2>1, <2>2 DEF Closing, Contexts
  <1>4. k \in Calls /\ Owes(p, k) /\ result[k] = "pending" /\ assigned[k] = {p}
    BY <1>1, <1>3, Ranges, Unfolded DEF Owes, NamesThis, Awaited
  <1>5. \A q \in Procs : Outside(q)' => Outside(q)
    BY <1>1, <1>2 DEF Outside, SwitchOwns
  <1>6. \A q \in Procs, j \in Calls : Owes(q, j)' => Owes(q, j)
    BY <1>1, OwesLess
  <1> HIDE DEF p, k
  <1> QED BY <1>1, <1>3, <1>4, <1>5, <1>6, JobsOneDone

LEMMA JobsCheck ==
  ASSUME TypeOK, TypeOK', Inv, Rest, NEW c \in Contexts, CheckAndUpdateApsStatus(c)
  PROVE  Rest' /\ JobStep
  BY JobsWalk, JobsCollect, JobsAllDone, JobsNoMemory, JobsAllReset, JobsEachDone DEF CheckAndUpdateApsStatus
-----------------------------------------------------------------------------
(* StartupThisAP and StartupAllAPs.                                        *)

(* An AP that is IDLE while main admits or scans owes no call a run. *)
LEMMA IdleIsFree ==
  ASSUME TypeOK, Inv, Rest, NEW p \in Procs, NEW k \in Calls, State[p] = "IDLE",
         result[k] \in {"pending", "resources"}, p \in assigned[k],
         pc["main"] \in {"Admit", "Scan"}, pc["timer"] = "idle", pc["notify"] = "idle"
  PROVE  p \in served[k]
  <1>1. CASE result[k] = "resources"
    BY <1>1 DEF Rest, RunsOn, Gone, Running
  <1>2. CASE result[k] = "pending"
    <2>1. ~Unmarked(p) /\ ~Closing(p)
      BY DEF Unmarked, Closing
    <2>2. ~Owes(p, k)
      <3> SUFFICES ASSUME Owes(p, k) PROVE FALSE
        OBVIOUS
      <3>1. Owner(p)
        <4>1. k # NoCall
          BY Ranges
        <4> QED BY <4>1 DEF Owner, Owes, Joint, Listed, Pending
      <3> QED BY <2>1, <3>1, Unfolded DEF Owned, Owner, Taken
    <2>3. failed[k] = {}
      BY <1>2 DEF Rest, Unfailed, Contexts
    <2> QED BY <1>2, <2>2, <2>3, Unfolded DEF Duty
  <1> QED BY <1>1, <1>2

LEMMA JobsAccept ==
  ASSUME TypeOK, TypeOK', Inv, Rest, NEW STATE P, P \in SUBSET Procs, NEW STATE i, Accept("main", P, i),
         pc["main"] \in {"Admit", "Scan"}, pc["timer"] = "idle", pc["notify"] = "idle",
         UNCHANGED <<cpuVars, thisVars, CpuList, AllProc, AllEvent, BSP>>,
         P # {}, \A p \in P : State[p] = "IDLE",
         \A p \in Procs : p \in P <=> IF ForAll THEN CpuList[p] ELSE p = Target
  PROVE  Rest' /\ JobStep
  <1> PICK k \in Calls :
        /\ result[k] = "none"
        /\ result' = [result EXCEPT ![k] = "pending"] /\ assigned' = [assigned EXCEPT ![k] = P]
        /\ \A q \in Procs, j \in Calls : j # k => (Owes(q, j)' <=> Owes(q, j))
        /\ \A q \in Procs : Owes(q, k)' <=> q \in P
        /\ pc'["main"] = "Mark" /\ pc'["timer"] = "idle" /\ pc'["notify"] = "idle"
    BY NewCall
  <1>1. UNCHANGED <<served, failed, State, Procedure, apc, job, BSP>> /\ NoReset
    BY DEF Accept, cpuVars, NoReset, Contexts
  <1>2. /\ result'[k] = "pending" /\ assigned'[k] = P
        /\ \A j \in Calls : j # k => result'[j] = result[j] /\ assigned'[j] = assigned[j]
    BY DEF TypeOK
  <1>3. Unfailed'
    BY <1>1, <1>2 DEF Rest, Unfailed, NoReset
  <1>4. ASSUME NEW p \in Procs, NEW j \in Calls, Gone(p, j)' PROVE Running(p, j)'
    <2>1. Gone(p, j)
      BY <1>1, <1>2, <1>4 DEF Gone
    <2>2. Outside(p)' => Outside(p)
      BY <1>1 DEF Outside, SwitchOwns
    <2>3. \A h \in Calls : Owes(p, h)' => Owes(p, h) \/ State[p] \notin {"READY", "BUSY"}
      OBVIOUS
    <2> QED BY <1>1, <2>1, <2>2, <2>3, RunsOnKept DEF Rest, Untouched
  <1>5. Jobs!Accept(k, P)
    <2>1. ASSUME NEW p \in P, p \in Jobs!Owing PROVE FALSE
      <3>1. PICK j \in Calls : result[j] \in {"pending", "resources"} /\ p \in assigned[j] \ served[j]
        BY <2>1 DEF Jobs!Owing, Jobs!Live
      <3> QED BY <3>1, IdleIsFree
    <2> QED BY <1>1, <2>1 DEF Jobs!Accept
  <1> QED BY <1>3, <1>4, <1>5 DEF Rest, RunsOn, JobStep, Jobs!Next

LEMMA JobsGivesUp ==
  ASSUME TypeOK, TypeOK', Inv, Rest, pc["timer"] = "idle", pc["notify"] = "idle",
         pc["main"] \in {"Admit", "Scan"},
         \/ Return("main")
         \/ pc["main"] = "Scan" /\ op' = op /\ pc'["main"] = "Scan",
         UNCHANGED <<State, Procedure, apc, job, result, assigned, served, failed, AllEvent, WaitEvent, BSP>>,
         UNCHANGED CpuList \/ pc["main"] = "Scan"
  PROVE  Rest' /\ JobStep
  <1>1. pc'["main"] \in {"Scan", "idle"} /\ (op' = op \/ Id' = NoCall)
    <2>1. "main" \in Contexts
      BY DEF Contexts
    <2> QED BY <2>1, Returns, NoOpIs DEF Id
  <1>2. Id = NoCall /\ (UNCHANGED CpuList \/ AllEvent = NoCall)
    BY Unfolded DEF CtlParams, CtlEvents, Accepted
  <1>3. NoReset /\ \A q \in Procs : Outside(q)' => Outside(q)
    BY <1>1 DEF NoReset, Contexts, Outside, SwitchOwns
  <1>4. \A q \in Procs, j \in Calls : Owes(q, j)' => Owes(q, j)
    BY <1>1, <1>2, OwesLess
  <1> QED BY <1>3, <1>4, Silent DEF Untouched

LEMMA JobsAdmit ==
  ASSUME TypeOK, TypeOK', Inv, Rest, NEW c \in Callers, Admit(c)
  PROVE  Rest' /\ JobStep
  <1>1. /\ c = "main" /\ pc["main"] = "Admit" /\ pc["timer"] = "idle" /\ pc["notify"] = "idle"
        /\ CtlParams /\ Target \in Procs
        /\ UNCHANGED <<cpuVars, thisVars, CpuList, AllProc, AllEvent, BSP>>
    <2>1. At(c, "Admit") /\ UNCHANGED <<cpuVars, thisVars, allVars, BSP>>
      BY DEF Admit
    <2>2. c = "main" /\ pc["main"] = "Admit" /\ CtlParams /\ Active("main")
      BY <2>1, MainTurn, Unfolded DEF At
    <2>3. pc["timer"] = "idle" /\ pc["notify"] = "idle"
      BY <2>2 DEF Active
    <2> QED BY <2>1, <2>2, <2>3, Ranges DEF allVars
  <1>2. CASE State[Target] = "IDLE"
    <2>1. Accept("main", {Target}, Target)
      BY <1>1, <1>2 DEF Admit, Target
    <2>2. ~ForAll /\ {Target} \in SUBSET Procs
      BY <1>1 DEF CtlParams
    <2> QED BY <1>1, <1>2, <2>1, <2>2, JobsAccept
  <1>3. CASE State[Target] # "IDLE"
    <2>1. Return("main") /\ UNCHANGED callVars
      BY <1>1, <1>3 DEF Admit, Target
    <2> QED BY <1>1, <2>1, JobsGivesUp DEF cpuVars, thisVars, callVars
  <1> QED BY <1>2, <1>3

LEMMA JobsScan ==
  ASSUME TypeOK, TypeOK', Inv, Rest, NEW c \in Callers, Scan(c) \/ Scanned(c)
  PROVE  Rest' /\ JobStep
  <1>1. /\ c = "main" /\ pc["main"] = "Scan" /\ pc["timer"] = "idle" /\ pc["notify"] = "idle"
        /\ CtlParams /\ ForAll
        /\ UNCHANGED <<cpuVars, thisVars, AllProc, AllEvent, BSP>>
    BY MainTurn, Unfolded DEF Scan, Scanned, At, Active, allVars, CtlParams
  <1>2. UNCHANGED <<State, Procedure, apc, job, AllEvent, WaitEvent, BSP>>
    BY <1>1 DEF cpuVars, thisVars
  <1>3. CASE Scan(c)
    <2>1. UNCHANGED callVars
      BY <1>3 DEF Scan
    <2>2. \/ Return("main")
          \/ Goto("main", "Scan", cur["main"] + 1) /\ op' = op
      BY <1>1, <1>3 DEF Scan
    <2>3. Return("main") \/ (op' = op /\ pc'["main"] = "Scan")
      BY <1>1, <2>2, Moves DEF Contexts
    <2> QED BY <1>1, <1>2, <2>1, <2>3, JobsGivesUp DEF callVars
  <1>4. CASE Scanned(c)
    <2>1. UNCHANGED CpuList /\ cur["main"] = N
      BY <1>1, <1>4 DEF Scanned
    <2>2. CASE Waiting(CpuList) # {}
      <3>1. Accept("main", Waiting(CpuList), 0)
        BY <1>1, <1>4, <2>2 DEF Scanned
      <3>2. Waiting(CpuList) \in SUBSET Procs /\ \A q \in Procs : q \in Waiting(CpuList) <=> CpuList[q]
        BY DEF Waiting
      <3>3. \A q \in Waiting(CpuList) : State[q] = "IDLE"
        <4>1. \A q \in Procs : q < N
          BY NAssumption DEF Procs
        <4> QED BY <1>1, <2>1, <3>2, <4>1, Unfolded DEF Owned
      <3> QED BY <1>1, <2>1, <2>2, <3>1, <3>2, <3>3, JobsAccept
    <2>3. CASE Waiting(CpuList) = {}
      <3>1. Return("main") /\ UNCHANGED callVars
        BY <1>1, <1>4, <2>3 DEF Scanned
      <3> QED BY <1>1, <1>2, <2>1, <3>1, JobsGivesUp DEF callVars
    <2> QED BY <2>2, <2>3
  <1> QED BY <1>3, <1>4

LEMMA JobsMark ==
  ASSUME TypeOK, TypeOK', Inv, Rest, NEW c \in Callers, Mark(c) \/ MarkSkip(c) \/ Wake(c)
  PROVE  Rest' /\ JobStep
  <1>1. /\ c = "main" /\ pc["main"] \in {"Mark", "Wake"} /\ pc["timer"] = "idle" /\ pc["notify"] = "idle"
        /\ CtlParams /\ Id \in Calls /\ result[Id] = "pending"
        /\ \A q \in Procs : (ForAll /\ CpuList[q]) \/ Serving(q) => Owes(q, Id)
    BY MainGoesOn DEF Mark, MarkSkip, Wake, At
  <1>2. UNCHANGED <<op, CpuList, AllEvent, WaitEvent, BSP, result, assigned, served, failed>>
    BY DEF Mark, MarkSkip, Wake, thisVars, allVars, callVars
  <1>3. pc'["main"] \in {"Mark", "Wake", "Publish"}
    BY <1>1, Moves DEF Mark, MarkSkip, Wake, Contexts
  <1>4. NoReset /\ \A q \in Procs : Outside(q)' => Outside(q)
    BY <1>1, <1>2, <1>3 DEF NoReset, Contexts, Outside, SwitchOwns
  <1>5. \A q \in Procs, j \in Calls : Owes(q, j)' => Owes(q, j)
    BY <1>2, SameOwners
  <1>6. \A q \in Procs : Forsaken(q) => Untouched(q)
    <2>1. CASE MarkSkip(c)
      BY <2>1 DEF MarkSkip, cpuVars, Untouched
    <2>2. CASE Mark(c)
      <3> DEFINE p == cur["main"]
      <3>1. /\ p \in Procs /\ State' = [State EXCEPT ![p] = "READY"] /\ UNCHANGED <<Procedure, apc>>
            /\ pc["main"] = "Mark" /\ (ForAll => CpuList[p])
        BY <1>1, <2>2, CurIsProc DEF Mark, At, ForAll, Contexts
      <3>2. IF ForAll THEN Listed(p) /\ Unmarked(p) ELSE Serving(p)
        BY <1>1, <3>1, Ranges DEF Listed, Pending, Unmarked, Serving, CtlParams, Procs
      <3>3. State[p] = "IDLE"
        BY <3>1, <3>2, Unfolded DEF Owned
      <3> QED BY <3>1, <3>3 DEF Forsaken, Untouched, TypeOK
    <2>3. CASE Wake(c)
      <3> DEFINE p == cur["main"]
      <3>1. /\ p \in Procs /\ UNCHANGED State /\ pc["main"] = "Wake"
            /\ UNCHANGED <<Procedure, apc>> \/ WakeUpAp(p, Id)
        BY <1>1, <2>3, CurIsProc DEF Wake, At, Id, Contexts
      <3>2. Owes(p, Id)
        BY <1>1, <3>1, Unfolded, Ranges DEF Owned, Serving, CtlParams
      <3>3. ~Forsaken(p)
        BY <1>1, <3>2 DEF Forsaken
      <3>4. \A q \in Procs : q # p => Procedure'[q] = Procedure[q] /\ apc'[q] = apc[q]
        BY <3>1, Waking
      <3> QED BY <3>1, <3>3, <3>4 DEF Untouched
    <2> QED BY <2>1, <2>2, <2>3
  <1> QED BY <1>2, <1>4, <1>5, <1>6, Silent

LEMMA JobsPublish ==
  ASSUME TypeOK, TypeOK', Inv, Rest, NEW c \in Callers, PublishThis(c) \/ PublishAll(c)
  PROVE  Rest' /\ JobStep
  <1>1. NoReset
    BY MainGoesOn DEF PublishThis, PublishAll, NoReset, Contexts
  <1> QED BY <1>1, PublishedThis, PublishedAll, Silent DEF Untouched

LEMMA JobsPollThis ==
  ASSUME TypeOK, TypeOK', Inv, Rest, NEW c \in Callers, PollThis(c)
  PROVE  Rest' /\ JobStep
  <1> DEFINE p == Target
             k == Id
  <1>1. /\ c = "main" /\ pc["main"] = "PollThis" /\ pc["timer"] = "idle" /\ "main" \in Contexts
        /\ CtlParams /\ Active("main")
    BY MainTurn, Unfolded DEF PollThis, At
  <1>2. /\ k # NoCall /\ ~ForAll /\ k \in Calls /\ p \in Procs
        /\ UNCHANGED <<AllEvent, WaitEvent, CpuList, BSP, assigned, served>> /\ Return("main")
        /\ ThisFinished(p, k) \/ ThisExpired(p, k)
    <2>1. Id # NoCall /\ ~ForAll
      BY <1>1 DEF CtlParams, Accepted
    <2> QED BY <1>1, <2>1, Ranges DEF PollThis, thisVars, allVars, Id, Target
  <1>3. Owes(p, k) /\ result[k] = "pending" /\ assigned[k] = {p}
    BY <1>2, Unfolded DEF Owes, Serving, NamesId, Awaited
  <1>4. pc'["main"] = "idle" /\ Id' = NoCall
    BY <1>1, <1>2, Returns, NoOpIs DEF Id
  <1>5. NoReset
    BY <1>1, NobodyResets, Unfolded
  <1>6. \A q \in Procs : Outside(q)' => Outside(q)
    BY <1>2, <1>4 DEF Outside, SwitchOwns
  <1>7. \A q \in Procs, j \in Calls : Owes(q, j)' => Owes(q, j)
    BY <1>2, <1>4, OwesLess
  <1> HIDE DEF p, k
  <1> QED BY <1>2, <1>3, <1>5, <1>6, <1>7, JobsOneDone

LEMMA JobsDispatch ==
  ASSUME TypeOK, TypeOK', Inv, Rest, NEW c \in Callers, Dispatch(c)
  PROVE  Rest' /\ JobStep
  BY JobsAdmit, JobsScan, JobsMark, JobsPublish, JobsPollThis DEF Dispatch
-----------------------------------------------------------------------------
(* The APs, and everything else.                                           *)

(* An AP that runs on goes its own way, as far as it is not waited for. *)
LEMMA JobsAp ==
  ASSUME TypeOK, TypeOK', Inv, Rest, NEW p \in Procs, Ap(p)
  PROVE  Rest' /\ JobStep
  <1>1. /\ UNCHANGED <<ctxVars, BSP, WaitEvent, CpuList, AllProc, AllEvent, result, assigned, failed>>
        /\ \A q \in Procs : q # p => Untouched(q)
        /\ \A k \in Calls : served[k] \subseteq served'[k]
    <2>1. /\ UNCHANGED <<ctxVars, BSP, WaitEvent, CpuList, AllProc, AllEvent, result, assigned, failed>>
          /\ \E to \in ApPhase : apc' = [apc EXCEPT ![p] = to]
      BY DEF Ap, ApBreak, ApNothing, ApEnter, ApReturn, ApClear, ApFinish, ApAck, ApStep, thisVars, allVars,
             callVars, ApPhase
    <2>2. /\ UNCHANGED State \/ \E x \in {"BUSY", "FINISHED"} : State' = [State EXCEPT ![p] = x]
          /\ UNCHANGED Procedure \/ Procedure' = [Procedure EXCEPT ![p] = NoCall]
      BY DEF Ap, ApBreak, ApNothing, ApEnter, ApReturn, ApClear, ApFinish, ApAck
    <2>3. ASSUME NEW q \in Procs, q # p PROVE Untouched(q)
      BY <2>1, <2>2, <2>3 DEF TypeOK, Untouched
    <2>4. UNCHANGED served \/ served' = [served EXCEPT ![job[p]] = @ \union {p}]
      BY DEF Ap, ApBreak, ApNothing, ApEnter, ApReturn, ApClear, ApFinish, ApAck, callVars
    <2>5. \A k \in Calls : served[k] \subseteq served'[k]
      BY <2>4 DEF TypeOK
    <2> QED BY <2>1, <2>3, <2>5
  <1>2. /\ \A q \in Procs, k \in Calls : Owes(q, k)' <=> Owes(q, k)
        /\ \A q \in Procs : Outside(q)' <=> Outside(q)
    BY <1>1, Bystanders
  <1>3. Unfailed'
    BY <1>1 DEF Rest, Unfailed, ctxVars
  <1>4. ASSUME NEW k \in Calls, Gone(p, k)' PROVE Running(p, k)'
    <2>1. Gone(p, k) /\ Running(p, k)
      BY <1>1, <1>4 DEF Gone, Rest, RunsOn
    <2>2. Works(p)
      BY <2>1, Unfolded DEF Running
    <2>3. CASE ApBreak(p) \/ ApNothing(p) \/ ApAck(p)
      <3>1. UNCHANGED <<State, Procedure>> /\ apc'[p] \in Quiet
        BY <2>3 DEF ApBreak, ApNothing, ApAck, ApStep, Quiet, TypeOK
      <3> QED BY <1>2, <2>1, <3>1 DEF Running, Done, Quiet
    <2>4. CASE ApEnter(p)
      <3>1. UNCHANGED Procedure /\ apc'[p] = "running" /\ State'[p] = "BUSY"
        BY <2>4 DEF ApEnter, ApStep, TypeOK
      <3> QED BY <1>2, <2>1, <3>1 DEF Running, Done
    <2>5. CASE ApReturn(p)
      <3>1. apc[p] = "running" /\ served' = [served EXCEPT ![job[p]] = @ \union {p}] /\ job[p] \in Calls
        BY <2>5 DEF ApReturn, ApStep
      <3>2. job[p] = k
        BY <2>1, <2>2, <3>1, Ranges DEF Works, Running, Quiet
      <3>3. p \in served'[k]
        BY <3>1, <3>2 DEF TypeOK
      <3> QED BY <1>4, <3>3 DEF Gone
    <2>6. CASE ApClear(p) \/ ApFinish(p)
      <3>1. apc[p] \in {"returned", "cleared"}
        BY <2>6 DEF ApClear, ApFinish, ApStep
      <3> QED BY <2>1, <2>2, <3>1 DEF Works, Running, Done, Quiet
    <2> QED BY <2>3, <2>4, <2>5, <2>6 DEF Ap
  <1>5. ASSUME NEW q \in Procs, q # p, NEW k \in Calls, Gone(q, k)' PROVE Running(q, k)'
    <2>1. Gone(q, k)
      BY <1>1, <1>5 DEF Gone
    <2> QED BY <1>1, <1>2, <1>5, <2>1, RunsOnKept DEF Rest
  <1>6. JobStep
    <2>1. CASE ApReturn(p)
      <3> DEFINE k == job[p]
      <3>1. /\ k \in Calls /\ apc[p] = "running" /\ served' = [served EXCEPT ![k] = @ \union {p}]
        BY <2>1 DEF ApReturn, ApStep
      <3>2. Procedure[p] = k /\ Duty(p, k)
        BY <3>1, Unfolded DEF Given
      <3> HIDE DEF k
      <3>3. Jobs!Serve(k, p)
        BY <1>1, <3>1, <3>2 DEF Duty, Jobs!Serve, Jobs!Live
      <3> QED BY <3>1, <3>3 DEF JobStep, Jobs!Next
    <2>2. CASE ~ApReturn(p)
      BY <1>1, <2>2 DEF JobStep, Ap, ApBreak, ApNothing, ApEnter, ApClear, ApFinish, ApAck, callVars
    <2> QED BY <2>1, <2>2
  <1> QED BY <1>3, <1>4, <1>5, <1>6 DEF Rest, RunsOn

LEMMA JobsAside ==
  ASSUME TypeOK, TypeOK', Inv, Rest, UNCHANGED <<ctxVars, BSP, CpuList, AllProc, AllEvent, WaitEvent>>,
         UNCHANGED <<Procedure, apc, callVars>>,
         \A p \in Procs : State[p] \in {"READY", "BUSY"} => State'[p] = State[p]
  PROVE  Rest' /\ JobStep
  <1>1. UNCHANGED <<result, assigned, served, failed>> /\ UNCHANGED <<pc, AllProc>>
    BY DEF callVars, ctxVars
  <1>2. \A p \in Procs : Forsaken(p) => Untouched(p)
    BY DEF Forsaken, Untouched
  <1> QED BY <1>1, <1>2, Bystanders, Silent

(* Main begins or ends something between two calls. *)
LEMMA JobsBetween ==
  ASSUME TypeOK, TypeOK', Inv, Rest, pc["main"] \in {"idle", "Exchange", "SwitchWait"},
         pc["timer"] = "idle", pc["notify"] = "idle",
         op' = op \/ Id' = NoCall, UNCHANGED <<CpuList, AllEvent, WaitEvent, result, assigned, served, failed>>,
         \A p \in Procs : Forsaken(p) /\ ~Outside(p) => Untouched(p),
         \A p \in Procs : Outside(p)' => Outside(p) \/ State[p] = "IDLE"
  PROVE  Rest' /\ JobStep
  <1>1. \A q \in Procs, j \in Calls : Owes(q, j)' => Owes(q, j)
    BY OwesLess
  <1>2. Unfailed'
    BY DEF Rest, Unfailed, Contexts
  <1>3. ASSUME NEW p \in Procs, NEW k \in Calls, Gone(p, k)' PROVE Running(p, k)'
    <2>1. Gone(p, k)
      BY <1>3 DEF Gone
    <2>2. ~Outside(p)
      BY <2>1 DEF Rest, RunsOn, Running
    <2> QED BY <1>1, <2>1, <2>2, RunsOnKept DEF Rest
  <1> QED BY <1>2, <1>3 DEF Rest, RunsOn, JobStep

LEMMA JobsStartCall ==
  ASSUME Careful, TypeOK, TypeOK', Inv, Rest,
         NEW c \in Callers, NEW kind \in CallKinds, NEW p \in Procs, StartCall(c, kind, p)
  PROVE  Rest' /\ JobStep
  <1>1. c = "main" /\ pc["main"] = "idle" /\ pc["timer"] = "idle" /\ pc["notify"] = "idle"
    BY DEF StartCall, MayCall, Careful, At, Active
  <1>2. UNCHANGED <<CpuList, AllEvent, WaitEvent, State, Procedure, apc, BSP, result, assigned, served, failed>>
    BY DEF StartCall, cpuVars, thisVars, allVars, callVars
  <1>3. pc'["main"] = "Update" /\ Id' = NoCall
    <2>1. op \in [Contexts -> Op] /\ pc \in [Contexts -> Phase] /\ "main" \in Contexts
      BY DEF TypeOK, Contexts
    <2> QED BY <1>1, <2>1, NoOpIs DEF StartCall, Id, Op
  <1>4. \A q \in Procs : Outside(q)' => Outside(q)
    BY <1>2, <1>3 DEF Outside, SwitchOwns
  <1> QED BY <1>1, <1>2, <1>3, <1>4, JobsBetween DEF Untouched

LEMMA JobsSwitch ==
  ASSUME TypeOK, TypeOK', Inv, Rest, NEW p \in Procs, NEW b \in BOOLEAN, SwitchBSP(p, b)
  PROVE  Rest' /\ JobStep
  <1>1. /\ pc["main"] = "idle" /\ pc["timer"] = "idle" /\ pc["notify"] = "idle" /\ State[p] = "IDLE"
        /\ UNCHANGED <<CpuList, AllEvent, WaitEvent, State, BSP, result, assigned, served, failed>>
    BY DEF SwitchBSP, At, Active, thisVars, allVars, callVars
  <1>2. op'["main"].id = NoCall /\ op'["main"].target = p
    <2>1. op \in [Contexts -> Op] /\ "main" \in Contexts
      BY DEF TypeOK, Contexts
    <2> QED BY <2>1, NoOpIs DEF SwitchBSP, Op
  <1>3. \A q \in Procs : q # p => Untouched(q)
    BY <1>1, Waking DEF SwitchBSP, Untouched
  <1>4. ~Forsaken(p) /\ \A q \in Procs : Outside(q)' => Outside(q) \/ State[q] = "IDLE"
    BY <1>1, <1>2 DEF Forsaken, Outside, SwitchOwns
  <1> QED BY <1>1, <1>2, <1>3, <1>4, JobsBetween DEF Id

LEMMA JobsExchange ==
  ASSUME TypeOK, TypeOK', Inv, Rest, Exchange
  PROVE  Rest' /\ JobStep
  <1>1. /\ pc["main"] = "Exchange" /\ pc["timer"] = "idle" /\ pc["notify"] = "idle"
        /\ UNCHANGED <<op, CpuList, AllEvent, WaitEvent, State, Procedure, BSP, result, assigned, served, failed>>
        /\ apc' = [apc EXCEPT ![Target] = "bsp", ![BSP] = "returned"]
    BY DEF Exchange, At, Active, thisVars, allVars, callVars, Target
  <1>2. /\ \A q \in Procs : Outside(q)' => Outside(q)
        /\ \A q \in Procs : ~Outside(q) => Untouched(q)
    BY <1>1 DEF Outside, SwitchOwns, Target, Untouched, TypeOK
  <1> QED BY <1>1, <1>2, JobsBetween

LEMMA JobsSwitched ==
  ASSUME TypeOK, TypeOK', Inv, Rest, SwitchDone
  PROVE  Rest' /\ JobStep
  <1>1. /\ pc["main"] = "SwitchWait" /\ pc["timer"] = "idle" /\ pc["notify"] = "idle"
        /\ UNCHANGED <<CpuList, AllEvent, WaitEvent, Procedure, apc, result, assigned, served, failed>>
        /\ BSP' = Target /\ \A q \in Procs : q # BSP => State'[q] = State[q]
    BY DEF SwitchDone, At, Active, thisVars, allVars, callVars, Target, TypeOK
  <1>2. pc'["main"] = "idle" /\ Id' = NoCall
    <2>1. "main" \in Contexts
      BY DEF Contexts
    <2>2. op'["main"] = NoOp
      BY <2>1 DEF SwitchDone, TypeOK
    <2> QED BY <2>1, <2>2, NoOpIs, Moves DEF SwitchDone, Id
  <1>3. \A q \in Procs : Outside(q)' => Outside(q)
    BY <1>1, <1>2 DEF Outside, SwitchOwns, Target
  <1>4. \A q \in Procs : ~Outside(q) => Untouched(q)
    BY <1>1 DEF Outside, Untouched
  <1> QED BY <1>1, <1>2, <1>3, <1>4, JobsBetween

LEMMA JobsTimer ==
  ASSUME TypeOK, TypeOK', Inv, Rest, CheckApsStatus
  PROVE  Rest' /\ JobStep
  <1>1. /\ UNCHANGED <<op, CpuList, AllEvent, WaitEvent, State, Procedure, apc, BSP, AllProc, callVars>>
        /\ pc["timer"] = "idle"
        /\ UNCHANGED <<pc, cur>> \/ (~mStop /\ Goto("timer", "Update", 0))
    BY DEF CheckApsStatus, cpuVars, thisVars, allVars
  <1>2. CASE UNCHANGED <<pc, cur>>
    BY <1>1, <1>2, JobsAside DEF ctxVars
  <1>3. CASE ~mStop /\ Goto("timer", "Update", 0)
    <2>1. pc'["main"] = pc["main"]
      BY <1>3, Moves DEF Contexts
    <2>2. pc["notify"] = "idle" /\ pc["main"] \in {"idle", "SwitchWait", "Exchange"}
      BY <1>3, Unfolded DEF Control, Suppressed
    <2>3. \A q \in Procs : Outside(q)' => Outside(q)
      BY <1>1, <2>1 DEF Outside, SwitchOwns
    <2> QED BY <1>1, <2>2, <2>3, JobsBetween DEF callVars, Untouched
  <1> QED BY <1>1, <1>2, <1>3

LEMMA JobsNext ==
  ASSUME Careful, TypeOK, TypeOK', Inv, Rest, [Next]_vars
  PROVE  Rest' /\ JobStep
  <1>1. ASSUME NEW p \in Procs, Elapse(p) PROVE Rest' /\ JobStep
    BY <1>1, JobsAside DEF Elapse, cpuVars, allVars
  <1>2. CASE ElapseAll
    BY <1>2, JobsAside DEF ElapseAll, cpuVars, thisVars
  <1>3. CASE UNCHANGED vars
    BY <1>3, JobsAside DEF vars, cpuVars, thisVars, allVars
  <1>4. ASSUME NEW p \in Procs, NEW b \in BOOLEAN, EnableDisableAP(p, b) PROVE Rest' /\ JobStep
    <2>1. /\ UNCHANGED <<ctxVars, BSP, CpuList, AllProc, AllEvent, WaitEvent, Procedure, apc, callVars>>
          /\ State[p] \in {"IDLE", "DISABLED"} /\ \A q \in Procs : q # p => State'[q] = State[q]
      BY <1>4 DEF EnableDisableAP, Careful, thisVars, allVars, TypeOK
    <2> QED BY <2>1, JobsAside
  <1>5. CASE Next
    BY <1>1, <1>2, <1>4, <1>5, JobsAp, JobsTimer, JobsCheck, JobsDispatch, JobsStartCall,
       JobsSwitch, JobsExchange, JobsSwitched DEF Next
  <1> QED BY <1>3, <1>5

(* What a caller is told is what ApJobs promises: every answer, acceptance *)
(* and return of a procedure is a step of ApJobs, and everything else that *)
(* the driver does is hidden from the caller.                              *)
THEOREM DriverImplements ==
  ASSUME Careful
  PROVE  Spec => JobsSpec
  <1>1. Init => Jobs!Init
    BY DEF Init, Jobs!Init
  <1>2. Spec => [](TypeOK /\ Inv)
    BY InvHolds
  <1>3. Init => Rest
    BY RestStart
  <1>4. TypeOK /\ TypeOK' /\ Inv /\ Rest /\ [Next]_vars => Rest' /\ [Jobs!Next]_(Jobs!vars)
    BY JobsNext DEF JobStep, Jobs!vars
  <1> QED BY <1>1, <1>2, <1>3, <1>4, PTL DEF Spec, JobsSpec, Jobs!Spec
=============================================================================
