-------------------------------- MODULE ApIdle --------------------------------
(***************************************************************************)
(* The application processors (APs) between procedures: how they come up   *)
(* and are counted, the loops of x64/MpFuncs.nasm in which they wait, how  *)
(* the BSP wakes them, moves them to another wake-up buffer at the end of  *)
(* DXE (ReAllocateMemoryForAP) and leaves them to the operating system     *)
(* (ResetAps).  MpServices takes a wake-up for one step; here are the      *)
(* stores to the line on the stack that an AP monitors.                    *)
(*                                                                         *)
(* APs that come in after the BSP has counted them are followed into their *)
(* idle loops.  Such a boot goes no further: what processors that share a  *)
(* stack do to each other is undefined.                                    *)
(*                                                                         *)
(* APs are named by their APIC IDs.  The stores and reads of a processor   *)
(* that no other processor can tell apart are one step.                    *)
(***************************************************************************)
EXTENDS Integers, FiniteSets

CONSTANTS N,              \* threads of the package, the BSP among them
          IdleManners,    \* values of the policy ApIdleManner
          HandoffManners, \* values of the policy ApHandoffManner
          Hasty           \* the BSP turns to an AP that is about to clear its line

ASSUME ApIdleAssumption ==
  /\ N \in Nat \ {0}
  /\ IdleManners \subseteq {"Hlt", "Mwait", "Run"} /\ HandoffManners \subseteq {"Hlt", "Mwait32"}
  /\ Hasty \in BOOLEAN

Aps     == 1..N - 1
Stacks  == 0..N - 1
Buffers == {"old", "backup", "new"}
Manners == {"CounterInit", "Hlt", "Mwait", "Run", "Mwait32"}
Functions == {"NULL", "DetailedMpInitialization", "ApProcWrapper", "AsmRelocateApsInMwaitLoop"}

VARIABLES
  idle, handoff,    \* ApIdleManner, ApHandoffManner
  buffer,           \* ApFunction and WakeUpApManner of each wake-up buffer
  InitFlag, Number, \* InitFlag, and BistBuffer[a].Number
  counted,          \* the APs in NumberOfCpus
  wakeUpBuffer,     \* mAcpiCpuData->WakeUpBuffer
  mFinishedCount, mCpuCountSync,
  State, Procedure, \* CpuData[p].State, and whether CpuData[p].Procedure is set
  line,             \* MONITOR_MWAIT_DATA of each stack
  bsp, index,       \* where the BSP is, and for which AP or stack
  pc, at, stack,    \* where an AP is, in which buffer, on which stack
  wide,             \* the AP is in 64-bit mode
  armed, cstate,    \* the AP's monitor; the C-state that it read
  missed            \* what the AP was to see changed before it armed the monitor

policy == <<idle, handoff>>
rooms  == <<buffer, InitFlag, Number, counted, wakeUpBuffer>>
counts == <<mFinishedCount, mCpuCountSync>>
data   == <<State, Procedure>>
boot   == <<bsp, index>>
place  == <<at, stack, wide>>
wait   == <<armed, cstate, missed>>
vars   == <<policy, rooms, counts, data, line, boot, pc, place, wait>>

\* InitializeMpSystemData, up to INIT-SIPI-SIPI.  What is on the stacks is not known.
Init ==
  /\ idle \in IdleManners /\ handoff \in HandoffManners
  /\ buffer = [b \in Buffers |-> [ApFunction |-> "NULL", WakeUpApManner |-> "CounterInit"]]
  /\ InitFlag = TRUE /\ Number = [a \in Aps |-> 0] /\ counted = {} /\ wakeUpBuffer = "old"
  /\ mFinishedCount = 0 /\ mCpuCountSync = 0
  /\ State = [p \in Aps |-> "IDLE"] /\ Procedure = [p \in Aps |-> FALSE]
  /\ line = [s \in Stacks |-> [BreakToRunApSignal |-> 0, MwaitTargetCstate |-> "unknown"]]
  /\ bsp = "sipi" /\ index = 0
  /\ pc = [a \in Aps |-> "off"] /\ at = [a \in Aps |-> "old"] /\ stack = [a \in Aps |-> 0]
  /\ wide = [a \in Aps |-> TRUE]
  /\ armed = [a \in Aps |-> FALSE] /\ cstate = [a \in Aps |-> "unknown"]
  /\ missed = [a \in Aps |-> FALSE]

\* A store to a line goes off in every monitor that is armed on it.
Store(s) == armed' = [a \in Aps |-> armed[a] /\ stack[a] # s] /\ UNCHANGED <<cstate, missed>>
Signal(s, v) ==
  line' = [line EXCEPT ![s].BreakToRunApSignal = v] /\ Store(s)
TargetCstate(s, c) ==
  line' = [line EXCEPT ![s].MwaitTargetCstate = c] /\ Store(s)
-------------------------------------------------------------------------------
(***************************************************************************)
(* RendezvousFunnelProc, on an AP.                                         *)
(***************************************************************************)
Goto(a, p) == pc' = [pc EXCEPT ![a] = p]
Here(a)    == buffer[at[a]]

\* The first time an AP only makes itself known.
RendezvousFunnelProc(a) ==
  /\ \/ pc[a] = "start" /\ Goto(a, IF InitFlag THEN "checkin" ELSE "first") /\ UNCHANGED Number
     \/ pc[a] = "checkin" /\ Goto(a, "first") /\ Number' = [Number EXCEPT ![a] = 1]
  /\ UNCHANGED <<policy, buffer, InitFlag, counted, wakeUpBuffer, counts, data, line, boot, place, wait>>

\* Mistake: the AP does not wait for its first function.
ProgramStackAtOnce(a) ==
  /\ pc[a] = "first" /\ stack' = [stack EXCEPT ![a] = Number[a]]
  /\ Goto(a, "call")
  /\ UNCHANGED <<policy, rooms, counts, data, line, boot, at, wide, wait>>

\* WaitFirstApTaskAssigned, ProgramStack.
ProgramStack(a) ==
  /\ pc[a] = "first" /\ Here(a).ApFunction # "NULL"
  /\ stack' = [stack EXCEPT ![a] = Number[a]]
  /\ Goto(a, "call")
  /\ UNCHANGED <<policy, rooms, counts, data, line, boot, at, wide, wait>>

WakeUpThisAp64(a) ==
  /\ pc[a] = "call"
  /\ Goto(a, IF Here(a).ApFunction = "NULL" THEN "counter" ELSE Here(a).ApFunction)
  /\ UNCHANGED <<policy, rooms, counts, data, line, boot, place, wait>>

DetailedMpInitialization(a) ==
  /\ pc[a] = "DetailedMpInitialization" /\ Goto(a, "counter")
  /\ mFinishedCount' = mFinishedCount + 1
  /\ UNCHANGED <<policy, rooms, mCpuCountSync, data, line, boot, place, wait>>

\* ApProcWrapper does nothing without a procedure.  It reports FINISHED, and clears
\* the signal after that.
ApProcWrapper(a) ==
  /\ \/ /\ pc[a] = "ApProcWrapper" /\ Procedure[a]
        /\ State' = [State EXCEPT ![a] = "BUSY"] /\ Goto(a, "procedure")
        /\ UNCHANGED <<Procedure, line, wait>>
     \/ /\ pc[a] = "ApProcWrapper" /\ ~Procedure[a]
        /\ Goto(a, "counter") /\ UNCHANGED <<data, line, wait>>
     \/ /\ pc[a] = "procedure" /\ Goto(a, "clear")
        /\ Procedure' = [Procedure EXCEPT ![a] = FALSE]
        /\ State' = [State EXCEPT ![a] = "FINISHED"]
        /\ UNCHANGED <<line, wait>>
     \/ /\ pc[a] = "clear" /\ Goto(a, "counter")
        /\ Signal(Number[a], 0) /\ UNCHANGED data
  /\ UNCHANGED <<policy, rooms, counts, boot, place>>

\* Mistake: the AP is counted before its signal is cleared.
RelocateEarly(a) ==
  /\ \/ /\ pc[a] = "AsmRelocateApsInMwaitLoop" /\ Goto(a, "sync")
        /\ at' = [at EXCEPT ![a] = "new"] /\ mCpuCountSync' = mCpuCountSync - 1
        /\ UNCHANGED <<line, wait>>
     \/ /\ pc[a] = "sync" /\ Goto(a, "counter")
        /\ Signal(stack[a], 0) /\ UNCHANGED <<at, mCpuCountSync>>
  /\ UNCHANGED <<policy, rooms, mFinishedCount, data, boot, stack, wide>>

\* The addresses that it returns with are moved, the signal is cleared, and the AP
\* is counted.
AsmRelocateApsInMwaitLoop(a) ==
  /\ \/ /\ pc[a] = "AsmRelocateApsInMwaitLoop" /\ Goto(a, "sync")
        /\ at' = [at EXCEPT ![a] = "new"] /\ Signal(stack[a], 0)
        /\ UNCHANGED mCpuCountSync
     \/ /\ pc[a] = "sync" /\ Goto(a, "counter")
        /\ mCpuCountSync' = mCpuCountSync - 1 /\ UNCHANGED <<at, line, wait>>
  /\ UNCHANGED <<policy, rooms, mFinishedCount, data, boot, stack, wide>>

\* The line is zeroed once, while the AP waits for its manner.
CheckWakeUpCounterInit64(a) ==
  /\ \/ /\ pc[a] = "counter" /\ UNCHANGED <<line, wait>>
        /\ Goto(a, IF Here(a).WakeUpApManner = "CounterInit" THEN "zero" ELSE "manner")
     \/ /\ pc[a] = "zero" /\ Goto(a, "assigned")
        /\ line' = [line EXCEPT ![stack[a]] = [BreakToRunApSignal |-> 0, MwaitTargetCstate |-> "C1"]]
        /\ Store(stack[a])
     \/ /\ pc[a] = "assigned" /\ Here(a).WakeUpApManner # "CounterInit"
        /\ Goto(a, "manner") /\ UNCHANGED <<line, wait>>
  /\ UNCHANGED <<policy, rooms, counts, data, boot, place>>
-------------------------------------------------------------------------------
(***************************************************************************)
(* The idle loops.                                                         *)
(***************************************************************************)
\* CheckWakeUpManner64, and JumpToCompatibility32Mode for any other manner.
CheckWakeUpManner64(a) ==
  /\ pc[a] = "manner" /\ wide[a]
  /\ LET m == Here(a).WakeUpApManner IN
       /\ Goto(a, CASE m = "Hlt" -> "halt" [] m = "Mwait" -> "monitor"
                    [] m = "Run" -> "signal" [] OTHER -> "manner")
       /\ wide' = [wide EXCEPT ![a] = m \in {"Hlt", "Mwait", "Run"}]
  /\ UNCHANGED <<policy, rooms, counts, data, line, boot, at, stack, wait>>

CheckWakeUpManner32(a) ==
  /\ pc[a] = "manner" /\ ~wide[a]
  /\ Goto(a, IF Here(a).WakeUpApManner = "Mwait32" THEN "monitor" ELSE "signal")
  /\ UNCHANGED <<policy, rooms, counts, data, line, boot, place, wait>>

Signalled(a) == line[stack[a]].BreakToRunApSignal = a
MwaitManner(a) == IF wide[a] THEN "Mwait" ELSE "Mwait32"

\* Mistake: the C-state is read before the monitor is armed.
MonitorLate(a) ==
  /\ \/ /\ pc[a] = "monitor" /\ Goto(a, "target")
        /\ cstate' = [cstate EXCEPT ![a] = line[stack[a]].MwaitTargetCstate]
        /\ UNCHANGED <<armed, missed>>
     \/ /\ pc[a] = "target" /\ Goto(a, "mwait")
        /\ armed' = [armed EXCEPT ![a] = TRUE]
        /\ missed' = [missed EXCEPT ![a] = Signalled(a) \/ Here(a).WakeUpApManner # MwaitManner(a)]
        /\ UNCHANGED cstate
     \/ pc[a] = "mwait" /\ Goto(a, IF armed[a] THEN "asleep" ELSE "signal") /\ UNCHANGED wait
  /\ UNCHANGED <<policy, rooms, counts, data, line, boot, place>>

\* MONITOR, the read of MwaitTargetCstate, MWAIT.  The signal and the manner are not
\* looked at again in between.
ApMwaitLoop64(a) ==
  /\ \/ /\ pc[a] = "monitor" /\ Goto(a, "target")
        /\ armed' = [armed EXCEPT ![a] = TRUE]
        /\ missed' = [missed EXCEPT ![a] = Signalled(a) \/ Here(a).WakeUpApManner # MwaitManner(a)]
        /\ UNCHANGED cstate
     \/ /\ pc[a] = "target" /\ Goto(a, "mwait")
        /\ cstate' = [cstate EXCEPT ![a] = line[stack[a]].MwaitTargetCstate]
        /\ UNCHANGED <<armed, missed>>
     \/ pc[a] = "mwait" /\ Goto(a, IF armed[a] THEN "asleep" ELSE "signal") /\ UNCHANGED wait
  /\ UNCHANGED <<policy, rooms, counts, data, line, boot, place>>

Wake(a) ==
  /\ pc[a] = "asleep" /\ ~armed[a] /\ Goto(a, "signal")
  /\ UNCHANGED <<policy, rooms, counts, data, line, boot, place, wait>>

\* An SMI, or another unmasked event, breaks MWAIT.
Break(a) ==
  /\ pc[a] = "asleep" /\ Goto(a, "signal")
  /\ armed' = [armed EXCEPT ![a] = FALSE]
  /\ UNCHANGED <<policy, rooms, counts, data, line, boot, place, cstate, missed>>

\* CheckRunSignal64 and CheckRunSignal32, which goes back to 64-bit mode.
CheckRunSignal64(a) ==
  /\ pc[a] = "signal"
  /\ Goto(a, IF Signalled(a) THEN "call" ELSE "manner")
  /\ wide' = [wide EXCEPT ![a] = @ \/ Signalled(a)]
  /\ cstate' = [cstate EXCEPT ![a] = "unknown"] /\ missed' = [missed EXCEPT ![a] = FALSE]
  /\ UNCHANGED <<policy, rooms, counts, data, line, boot, at, stack, armed>>

Ap(a) ==
  \/ RendezvousFunnelProc(a) \/ ProgramStack(a) \/ WakeUpThisAp64(a)
  \/ DetailedMpInitialization(a) \/ ApProcWrapper(a) \/ AsmRelocateApsInMwaitLoop(a)
  \/ CheckWakeUpCounterInit64(a) \/ CheckWakeUpManner64(a) \/ CheckWakeUpManner32(a)
  \/ ApMwaitLoop64(a) \/ Wake(a) \/ CheckRunSignal64(a)
-------------------------------------------------------------------------------
(***************************************************************************)
(* The BSP brings the APs up: InitializeMpSystemData.                      *)
(***************************************************************************)
Assign(b, f, v) == buffer' = [buffer EXCEPT ![b][f] = v]

SendSipi ==
  /\ bsp = "sipi" /\ bsp' = "count"
  /\ pc' = [a \in Aps |-> "start"]
  /\ UNCHANGED <<policy, rooms, counts, data, line, index, place, wait>>

\* The wait ends when all APs have checked in, or without some of them: who has come
\* is numbered in the order of the APIC IDs.
CountApNumberAndCollectBist ==
  /\ bsp = "count" /\ bsp' = "detail"
  /\ counted' = {a \in Aps : Number[a] = 1}
  /\ Number' = [a \in Aps |-> IF a \in counted' THEN Cardinality({b \in counted' : b <= a})
                                                ELSE Number[a]]
  /\ InitFlag' = FALSE
  /\ UNCHANGED <<policy, buffer, wakeUpBuffer, counts, data, line, index, pc, place, wait>>

PollForInitialization ==
  /\ bsp = "detail" /\ bsp' = "poll"
  /\ Assign("old", "ApFunction", "DetailedMpInitialization")
  /\ UNCHANGED <<policy, InitFlag, Number, counted, wakeUpBuffer, counts, data, line, index, pc, place, wait>>

AssignManner ==
  /\ bsp = "poll" /\ mFinishedCount >= Cardinality(counted) /\ bsp' = "wrapper"
  /\ Assign("old", "WakeUpApManner", idle)
  /\ UNCHANGED <<policy, InitFlag, Number, counted, wakeUpBuffer, counts, data, line, index, pc, place, wait>>

\* mBackupBuffer is a copy of what the first buffer then holds.
AssignWrapper ==
  /\ bsp = "wrapper" /\ bsp' = "ready"
  /\ LET done == [buffer["old"] EXCEPT !.ApFunction = "ApProcWrapper"]
     IN  buffer' = [buffer EXCEPT !["old"] = done, !["backup"] = done]
  /\ UNCHANGED <<policy, InitFlag, Number, counted, wakeUpBuffer, counts, data, line, index, pc, place, wait>>
-------------------------------------------------------------------------------
(***************************************************************************)
(* Calls.                                                                  *)
(***************************************************************************)
Loop == {"manner", "monitor", "target", "mwait", "asleep", "signal", "halt"}

\* Timing: an AP that has reported FINISHED, or to be initialized, clears its line
\* before the BSP turns to it again.
Settled(p) == pc[p] \notin {"clear", "zero"} \/ Hasty

\* INIT-SIPI-SIPI restarts an AP at mAcpiCpuData->WakeUpBuffer.
Restart(p) ==
  /\ Goto(p, "start") /\ at' = [at EXCEPT ![p] = wakeUpBuffer]
  /\ wide' = [wide EXCEPT ![p] = TRUE] /\ armed' = [armed EXCEPT ![p] = FALSE]

WakeUpAp(p) ==
  /\ bsp = "ready" /\ counted = Aps /\ State[p] = "IDLE" /\ Settled(p)
  /\ State' = [State EXCEPT ![p] = "READY"] /\ Procedure' = [Procedure EXCEPT ![p] = TRUE]
  /\ IF buffer[wakeUpBuffer].WakeUpApManner = "Hlt"
     THEN Restart(p) /\ UNCHANGED <<stack, boot>>
     ELSE bsp' = "cstate" /\ index' = p /\ UNCHANGED <<pc, place, armed>>
  /\ UNCHANGED <<policy, rooms, counts, line, cstate, missed>>

\* The stores of WakeUpAp: MwaitTargetCstate, BreakToRunApSignal, and
\* WakeUpApVectorChangeFlag, which nobody reads.
WakeUpStores ==
  /\ \/ bsp = "cstate" /\ bsp' = "signal" /\ TargetCstate(index, "C1")
     \/ bsp = "signal" /\ bsp' = "flag" /\ Signal(index, index)
     \/ bsp = "flag" /\ bsp' = "ready" /\ Store(index) /\ UNCHANGED line
  /\ index' = IF bsp' = "ready" THEN 0 ELSE index
  /\ UNCHANGED <<policy, rooms, counts, data, pc, place>>

\* The caller, or the timer, which interrupts the BSP anywhere.
Collect(p) ==
  /\ State[p] = "FINISHED" /\ State' = [State EXCEPT ![p] = "IDLE"]
  /\ UNCHANGED <<policy, rooms, counts, Procedure, line, boot, pc, place, wait>>
-------------------------------------------------------------------------------
(***************************************************************************)
(* ReAllocateMemoryForAP, once, at the end of DXE.                         *)
(***************************************************************************)
ApRunning == \E p \in Aps : State[p] \in {"READY", "BUSY"}

\* Mistake: the BSP is counted too.
ToRelocateAll == N

\* How many relocate.
ToRelocate == N - 1

ReAllocateMemoryForAP ==
  /\ bsp = "ready" /\ counted = Aps /\ wakeUpBuffer = "old" /\ ~ApRunning /\ \A p \in Aps : Settled(p)
  /\ wakeUpBuffer' = "new"
  /\ IF idle = "Hlt"
     THEN /\ buffer' = [buffer EXCEPT !["new"] = buffer["backup"]]
          /\ UNCHANGED <<mCpuCountSync, boot>>
     ELSE /\ buffer' = [buffer EXCEPT !["new"] = buffer["backup"],
                                      !["old"].ApFunction = "AsmRelocateApsInMwaitLoop"]
          /\ mCpuCountSync' = ToRelocate /\ bsp' = "release" /\ index' = 0
  /\ UNCHANGED <<policy, InitFlag, Number, counted, mFinishedCount, data, line, pc, place, wait>>

\* Mistake: the last stack is left out.
ReleaseButLast ==
  /\ bsp = "release" /\ Signal(index, index)
  /\ IF index >= N - 2 THEN bsp' = "released" /\ index' = 0
                       ELSE index' = index + 1 /\ UNCHANGED bsp
  /\ UNCHANGED <<policy, rooms, counts, data, pc, place>>

\* Every line, that of the BSP's number too, gets the signal of its AP.
Release ==
  /\ bsp = "release" /\ Signal(index, index)
  /\ IF index = N - 1 THEN bsp' = "released" /\ index' = 0
                      ELSE index' = index + 1 /\ UNCHANGED bsp
  /\ UNCHANGED <<policy, rooms, counts, data, pc, place>>

\* Mistake: one AP too few is waited for.
ReleasedEarly ==
  /\ bsp = "released" /\ mCpuCountSync <= 1 /\ bsp' = "ready"
  /\ UNCHANGED <<policy, rooms, counts, data, line, index, pc, place, wait>>

Released ==
  /\ bsp = "released" /\ mCpuCountSync = 0 /\ bsp' = "ready"
  /\ UNCHANGED <<policy, rooms, counts, data, line, index, pc, place, wait>>
-------------------------------------------------------------------------------
(***************************************************************************)
(* ResetAps, when the operating system takes over.                         *)
(***************************************************************************)
\* Callers have no wake-up outstanding by then.
ResetAps ==
  /\ bsp = "ready" /\ wakeUpBuffer = "new" /\ \A p \in Aps : State[p] # "READY" \/ Hasty
  /\ Assign(wakeUpBuffer, "WakeUpApManner", handoff)
  /\ bsp' = (IF handoff = "Mwait32" \/ idle = "Mwait" THEN "change" ELSE "os") /\ index' = 0
  /\ UNCHANGED <<policy, InitFlag, Number, counted, wakeUpBuffer, counts, data, line, pc, place, wait>>

\* Mistake: APs are not woken to be halted.
ChangeWithoutStore ==
  /\ \/ /\ bsp = "change" /\ handoff = "Mwait32" /\ bsp' = "deep"
        /\ Store(index) /\ UNCHANGED <<line, index>>
     \/ /\ bsp = "deep" \/ (bsp = "change" /\ handoff = "Hlt")
        /\ IF bsp = "deep" THEN TargetCstate(index, "max") ELSE UNCHANGED <<line, wait>>
        /\ IF index = N - 1 THEN bsp' = "os" /\ index' = 0
                            ELSE bsp' = "change" /\ index' = index + 1
  /\ UNCHANGED <<policy, rooms, counts, data, pc, place>>

\* WakeUpApVectorChangeFlag of each line, then MwaitTargetCstate.
Change ==
  /\ \/ /\ bsp = "change" /\ handoff = "Mwait32" /\ bsp' = "deep"
        /\ Store(index) /\ UNCHANGED <<line, index>>
     \/ /\ bsp = "deep" \/ (bsp = "change" /\ handoff = "Hlt")
        /\ IF bsp = "deep" THEN TargetCstate(index, "max") ELSE Store(index) /\ UNCHANGED line
        /\ IF index = N - 1 THEN bsp' = "os" /\ index' = 0
                            ELSE bsp' = "change" /\ index' = index + 1
  /\ UNCHANGED <<policy, rooms, counts, data, pc, place>>

\* What the BSP goes on with by itself.
Bsp ==
  \/ SendSipi \/ CountApNumberAndCollectBist \/ PollForInitialization
  \/ AssignManner \/ AssignWrapper
  \/ WakeUpStores \/ Release \/ Released \/ Change

Next ==
  \/ Bsp \/ ReAllocateMemoryForAP \/ ResetAps
  \/ \E p \in Aps : WakeUpAp(p) \/ Collect(p) \/ Ap(p) \/ Break(p)

Spec == Init /\ [][Next]_vars

\* Processors execute and procedures return.  Nothing is said of events that break
\* MWAIT.
FairSpec == Spec /\ WF_vars(Bsp) /\ \A a \in Aps : WF_vars(Ap(a))
-------------------------------------------------------------------------------
(***************************************************************************)
(* Properties.                                                             *)
(***************************************************************************)
Placed == Loop \union {"call", "counter", "zero", "assigned", "procedure", "clear", "sync"}
               \union (Functions \ {"NULL"})

TypeOK ==
  /\ idle \in IdleManners /\ handoff \in HandoffManners
  /\ buffer \in [Buffers -> [ApFunction : Functions, WakeUpApManner : Manners]]
  /\ InitFlag \in BOOLEAN /\ Number \in [Aps -> Stacks] /\ counted \subseteq Aps /\ wakeUpBuffer \in {"old", "new"}
  /\ mFinishedCount \in Stacks /\ mCpuCountSync \in Stacks
  /\ State \in [Aps -> {"IDLE", "READY", "BUSY", "FINISHED"}] /\ Procedure \in [Aps -> BOOLEAN]
  /\ line \in [Stacks -> [BreakToRunApSignal : Stacks, MwaitTargetCstate : {"unknown", "C1", "max"}]]
  /\ bsp \in {"sipi", "count", "detail", "poll", "wrapper", "ready", "cstate", "signal", "flag",
              "release", "released", "change", "deep", "os"}
  /\ index \in Stacks
  /\ pc \in [Aps -> Placed \union {"off", "start", "checkin", "first"}]
  /\ at \in [Aps -> {"old", "new"}] /\ stack \in [Aps -> Stacks]
  /\ wide \in [Aps -> BOOLEAN] /\ armed \in [Aps -> BOOLEAN] /\ missed \in [Aps -> BOOLEAN]
  /\ cstate \in [Aps -> {"unknown", "C1", "max"}]

\* An AP that the BSP has counted is on a stack of its own, the one whose line the BSP
\* writes to wake it, whenever the count ended: it reads its Number when that has been
\* assigned.  One that came too late is on stack 0, or shares that of the first AP.
OwnStack ==
  \A a \in Aps : pc[a] \in Placed =>
    IF a \in counted
    THEN /\ stack[a] = Number[a] /\ Number[a] \in 1..Cardinality(counted)
         /\ \A b \in counted : Number[b] = Number[a] => b = a
    ELSE stack[a] \in {0, 1}

\* When ReAllocateMemoryForAP has returned, no AP is left in the old buffer, which
\* is not reserved, unless APs are halted there.
NoneLeftBehind ==
  wakeUpBuffer = "new" /\ bsp \notin {"release", "released"} /\ idle # "Hlt"
  => \A a \in Aps : at[a] = "new"

\* An AP that sleeps is in the C-state that its line asks for, or is about to be
\* woken: the line is monitored before MwaitTargetCstate is read.
RightSleep ==
  \A a \in Aps : pc[a] = "asleep" /\ armed[a] => cstate[a] = line[stack[a]].MwaitTargetCstate

\* The AP looked at its signal and its manner, they changed, and then it armed its
\* monitor and fell asleep.
Missed(a) == pc[a] = "asleep" /\ armed[a] /\ missed[a]

\* An AP that is given a procedure runs it, in every manner, before and after the
\* relocation, unless the store fell between its check and MONITOR.
WokenRuns == \A p \in Aps : State[p] = "READY" ~> (State[p] # "READY" \/ Missed(p))

\* InitializeMpSystemData and ReAllocateMemoryForAP return, though they wait for
\* APs without limit, with the same exception.
BspGoesOn == bsp \notin {"ready", "os"} ~> (bsp \in {"ready", "os"} \/ \E a \in Aps : Missed(a))

\* After ResetAps every AP is halted, or sleeps in 32-bit mode in the deepest C-state,
\* as the policy says; APs that were halted stay so.
AtRest(a) ==
  \/ pc[a] = "halt" /\ (handoff = "Hlt" \/ idle = "Hlt")
  \/ pc[a] = "asleep" /\ ~wide[a] /\ cstate[a] = "max" /\ handoff = "Mwait32"

HandedOff == \A a \in Aps : bsp = "os" ~> (AtRest(a) \/ Missed(a))
===============================================================================
