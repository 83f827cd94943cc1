# Kaby Lake silicon package 3.8.0: a TLA+ verification of its core

The repository is silicon initialisation firmware: drivers and libraries that run on
one boot processor, in PEI, DXE or SMM, and program registers from a policy. Most of
it is sequential. The parts with a logic of their own are those where several agents
act at once: the multiprocessor (MP) services, where the boot processor hands work to
application processors (APs) by shared memory and inter-processor interrupts; the HECI
transport to the management engine (ME); the SMI dispatcher; the flash and bus
controllers. This project models the MP services in three modules, because everything
that is hard about firmware meets there: processors in true parallel, a timer
interrupt, a notification function that re-enters the service, timeouts that race
answers, two processors that trade stacks, and APs that sleep on a monitored line.
Three more modules model the HECI transport, the SMI dispatcher and the flash driver.

All modules are plain TLA+. `tlc` checks them on small instances, `tlapm` checks the
theorems.

## 1. Inventory

Paths are relative to `src/KabylakeSiliconPkg` unless they start with `src/`.

| component | state it keeps | operations | what is hard | what makes it correct |
|---|---|---|---|---|
| **MP services, calls** `Cpu/CpuInit/Dxe/MpService.c` | per processor: State, Procedure, WaitEvent, ExpectedTime; for StartupAllAPs: CpuList, StartCount, FinishCount, WaitEvent; BSP; mStopCheckApsStatus | StartupThisAP, StartupAllAPs, EnableDisableAP, SwitchBSP; the timer CheckApsStatus; ApProcWrapper on the APs | APs in parallel; timer and notification functions above the caller; timeouts racing late answers; APs that hang | every accepted call is answered, its event signalled once, no procedure runs for a call that is over, no AP is left unavailable |
| **MP services, exchange of roles** `MpService.c` SwitchBSP, `Cpu/CpuInit/Dxe/x64/MpFuncs.nasm` AsmExchangeRole | two records with a byte lock, a state, a stack pointer and descriptor tables | the two-phase handshake of both processors | two processors on one stack, polling under the other's lock, code that continues on another processor | no one touches a shared stack, no interrupt in between, the boot code ends up on one processor |
| **AP bring-up and relocation** `Cpu/CpuInit/Dxe/MpCommon.c`, `MpFuncs.nasm` | wake-up buffers, BIST buffer, wake-up manner, monitored lines | broadcast INIT-SIPI-SIPI, counting, the idle loops, moving them to reserved memory, hand-off to the operating system | a store between the check of the signal and MONITOR, a wait without limit for APs that are going to sleep | every AP has its own stack, none sleeps through a wake-up or is left in freed memory |
| **HECI** `Me/Library/Private/PeiDxeHeciInitLib/HeciCore.c`, `Me/HeciInit` | host and ME circular buffers, control bits | packet write and read, send and receive, retries, reset handshake | the ME resets at any time; late answers after a retry | an answer belongs to the request it is returned for; every operation returns |
| **SMI dispatcher** `Pch/PchSmiDispatcher/Smm/PchSmmCore.c` | list of registrations, statuses cached for a round, the periodic timer | register, unregister, dispatch | a callback that unregisters while the list is walked; a source that fires again; shared enable bits and a shared status | every active source is served, no freed record is used, no timer callback is early |
| **SPI flash** `Pch/Library/Private/BasePchSpiCommonLib/SpiCommon.c`, `Pch/Spi` | write enable, prefetching, SMI enable, hardware sequencing registers | read, write, erase in cycles | an SMI handler that gives a command in the middle of one; an error in the middle; sizes | the bytes asked for and no others, protection restored on every exit, the BIOS region closed |
| SMBus, I2C `PchSmbusExec.c`, `Pch/I2cMaster` | controller status | transactions with retries | a retry of what was done | bus released on every exit |
| PCI host bridge `SystemAgent/PciHostBridge/Dxe` | resource nodes, phase | NotifyPhase, SubmitResources, ... | order of phases | no overlapping allocation |
| PEI core override `src/KabylakeFspPkg/Override/MdeModulePkg/Core/Pei` | PEIM and PPI lists | dispatch, install, notify | a PPI installed by a dispatched PEIM | every PEIM whose dependencies hold runs once |
| PEI MP services override `Override/UefiCpuPkg/CpuMpPei` | per-AP state | the PEI counterpart, blocking only | as above without timer and exchange | as above |
| SMM access and control, watchdog, reset, GPIO, root ports, SATA, power management, TXT, BIOS Guard, S3, ME services above HECI, memory initialisation, Hsti, config blocks | registers, tables from policy | sequential programming | order of writes, values of the silicon | per register |

The MP parts share `MP_SYSTEM_DATA` and the wake-up buffer. The callers reach them by
the `EFI_MP_SERVICES_PROTOCOL`; the APs by INIT-SIPI-SIPI or by a signal word in memory;
the timer by the DXE core; the caller's notification functions by `SignalEvent`. The
SPI driver shares its controller with its SMM twin, whose callers are callbacks of the
SMI dispatcher; the SMI for BIOS write protection reaches it the same way.
`PROJECT.json` lists each component with its sources, and each hazard at its line.

## 2. Modules

| module | models | what it is |
|---|---|---|
| `ApJobs` | what a caller of the MP services may rely on | abstract specification of calls |
| `MpServices` | `MpService.c`: calls, timer, APs | the detailed specification, which implements `ApJobs` |
| `MCMpServices` | | the combinations of call parameters used in the runs |
| `MpServices_proof` | | types and the timer of `MpServices` |
| `MpCalls_proof` | | who owns an AP, what counters and events say |
| `MpDuty_proof` | | what becomes of a call and of its APs, and that `MpServices` implements `ApJobs` |
| `ExchangeRole` | SwitchBSP with `AsmExchangeRole`, stacks and the idle line | detailed specification of what `MpServices` takes for the one step `Exchange` |
| `ExchangeRole_proof` | | its inductive invariant and theorems |
| `ApIdle` | the rendezvous and the idle loops of `MpFuncs.nasm`, WakeUpAp, InitializeMpSystemData, ReAllocateMemoryForAP, ResetAps | detailed specification of what `MpServices` takes for one step, the wake-up, and of what comes before and after the calls |
| `ApIdle_proof` | | its inductive invariant and theorems |
| `Heci`, `MCHeci` | `HeciCore.c` against an ME that may be late, silent or reset | transport of requests and answers |
| `Heci_proof` | | its inductive invariants and theorems |
| `SmiDispatch`, `MCSmiDispatch` | `PchSmmCore.c`, `PchSmmPeriodicTimer.c`, `PchSmmSw.c`, the TCO sources of `PchSmiDispatch.c`, `SmmControlDriver.c` and the hardware | dispatcher of SMIs |
| `SmiDispatch_proof` | | its inductive invariants and theorems |
| `SpiFlash`, `MCSpiFlash` | SendSpiCmd, the write protection hooks, the flash | flash driver with an SMI handler that interrupts it |
| `SpiFlash_proof` | | its inductive invariants and theorems |

### MpServices

*Contexts.* The BSP has one stack and three levels: `main`, the caller; `notify`, the
notification function of a WaitEvent, which `SignalEvent` runs above main; `timer`, the
10 ms event, above both. `Active(c)` lets a context move only while nothing above it
runs. `pc[c]`, `cur[c]` and `op[c]` are its position, its loop variable
`ProcessorNumber` and its parameters. Each pass of a loop is a step, so the APs and the
timer act between any two processors that a loop looks at.

*APs.* `apc[p]` is where a processor is: `parked` in its idle loop, `woken`, then through
ApProcWrapper: `running` the procedure it read, `returned`, `cleared` (Procedure = NULL),
`finished` (State = FINISHED), and back, with `BreakToRunApSignal = 0` last. A critical
section of one access is one step.

*Waking up.* In the HLT manner `WakeUpAp` restarts the AP wherever it is
(INIT-SIPI-SIPI); in the run-loop and MWAIT manners (`"Run"`) it writes the signal that
the loop polls. The two 32-bit manners write the same signal. `ResetProcessorToIdleState`
restarts the AP in every manner.

*Calls.* `calls`, `result`, `assigned`, `served`, `failed` and `signals` record what the
callers were told and which procedures returned. `Procedure[p]` holds the name of the
call the procedure came with, so that a run for the wrong call can be seen.

*Callers.* `CallKinds` fixes the parameters callers use, `Usage` what else they do:
`switchBSP`; `enableDisable` for EnableDisableAP on an AP that is IDLE or DISABLED;
`disableBusy`, on any; `overlap` for a second StartupAllAPs while one is pending;
`notifyCalls` for calls from notification functions; `poolFull` for an AllocatePool that
fails. An assumption confines `switchBSP` to the HLT manner: with the loops it matters
on which stack a processor idles after a switch, and that is `ExchangeRole`.

*Abstractions.* The clock is "no limit, limit ahead, limit passed". INIT-SIPI-SIPI
follows the write of Procedure as one step; the code waits 10 ms between INIT and SIPI.
Parameter checks that return before any state changes are left out, and so are
`Finished`, ProcArguments, health flags, and DisableInterrupt or EnableInterrupt
returning an error.

### ExchangeRole

One action per block of `AsmExchangeRole`, named by its labels: `Push` (registers, flags,
descriptor tables, stack pointer), `Acquire` (the four `TryLock` loops), `Store`,
`SeeStored`, `Load`, `SetLoaded`, `SeeLoaded`, `Pop` (flags, and the return address that
sends the processor on into SwitchBSP or into ApProcWrapper). `rsp[p]` names the stack a
processor is on: stack `p` for the AP numbered p, or `Boot`. `signal[s]` is the word at
the top of stack s that an AP idling on s polls; `frame[s]` is what the exchange pushed.
Around it are just enough calls (`StartupThisAP`, `Collect`, `Expire`) to use processors
again after a switch.

*Settled.* The boot code uses an AP only when no AP is between FINISHED and its idle
loop. The other case is the lost wake-up of `MpServices`; without this the same defect
would be found a second time here.

### ApJobs and the refinement

`ApJobs` knows calls, the processors each was accepted for and those that have served
it. A call is accepted only with processors that owe nothing to another call; a processor
serves only a call it was assigned to, once, while the call is live; `success` only when
all have served. `MpServices!JobsSpec` is `ApJobs!Spec` with `status <- result`: the runs
check every step of the driver against it.

### ApIdle

APs are named by their APIC IDs; `Number[a]` is what `BistBuffer[a].Number` says. `pc[a]`
names the labels of `MpFuncs.nasm`, and MONITOR, the read of `MwaitTargetCstate` and MWAIT
are three steps. `armed[a]` is the AP's monitor, which every store to its line
(`MONITOR_MWAIT_DATA` at the top of its stack) sets off, whichever field is written:
`WakeUpAp` stores to three. `at[a]` is the wake-up buffer whose code the AP runs and
whose `ApFunction` and `WakeUpApManner` it reads; the relocation changes these in the old
buffer only, which is how it finds its APs. The stacks hold anything at first.

*The window before MONITOR.* The loop checks signal and manner, and then arms the
monitor without looking again. A store in between wakes nobody. `missed[a]` records that
this happened, and the liveness properties except it (`Missed`). Without the exception
they hold for `IdleManners = {"Hlt", "Run"}` and are violated for `"Mwait"`, the default:
one store of WakeUpAp breaks the AP out of MWAIT, and the one that matters, the signal,
may fall into the window. An SMI, or the next wake-up, ends such a sleep.

*Late APs.* The wait of CountApNumberAndCollectBist is bounded, so it may end with any of the
APs: `counted` holds those that are in, numbered in the order of their APIC IDs. An AP
checks in by two steps, the read of `InitFlag` and the write of `Number`, so that one that has
found `InitFlag` set can still give itself the number 1 after the others have theirs. A late AP
leaves the rendezvous on the stack of number 0, the BSP's, or 1, the first AP's. `OwnStack`
says that this is all: no AP that was counted shares its stack with another counted one, and a
late one takes no stack but these two. The model follows such a boot into the idle loops; also
that a late AP is counted in `mFinishedCount`, so that the wait of PollForInitialization
(`MpService.c:1186`) may end while a counted AP is still initializing. After that, calls,
relocation and hand-off are for boots in which no AP was late (`counted = Aps`). What a late AP
does to the data of the others is not modelled: FillInProcessorInformation writes the `CpuData`
of the BSP or of the first AP once more, two APs push to one stack, and in ApProcWrapper WhoAmI
does not find an AP whose APIC ID has been overwritten.

*Assumptions.* `Settled`: the BSP does not turn to an AP that is about to clear or to zero its
line. This is the lost wake-up of `mp_lost_wakeup`; with `Hasty = TRUE`, which drops it, TLC
finds `WokenRuns` and `BspGoesOn` violated, the latter because the late clear erases the
signal of the relocation and the BSP waits for ever. No call is outstanding at the hand-off.
A timer may collect an AP anywhere, but wakes no other in the middle of the relocation.
APs that the policy halts stay in the old buffer, and `NoneLeftBehind` excepts
them, as the code does.

### Heci

One host thread, step by step: each wait (`sInit`, `sReady`, `pReady`, `rInit`, ...) is a
position that the register it polls lets it leave, or that it leaves by its timeout.
`h2m` and `m2h` are the circular buffers as sequences of words; a header says how many
words follow and whether the message is complete. Words carry the request they belong to,
so that an answer taken for another is seen. `after` says where ResetHeciInterface
returns to, because waits reset and resets wait. The ME takes packets (`MeTake`), answers
in one of `Shapes` (`MeAnswer`, `MeWrite`), may lose a request (`MeLose`) and may ask for a
reset at any time (`MeReset`, `MeReady`).

*Assumptions about the ME, which is not in the repository.* A reset empties both buffers
and what the ME was doing, and clears H_RDY or ME_RDY; the ME moves words only while both
sides are ready; it never overflows a buffer. Reading and writing a packet body is one
step. `MeHeciTimeoutsEnabled` and `MeHeciRetryEnabled` are set. The checks of the firmware
status are error exits that may be taken.

### SmiDispatch

`db` is `CallbackDataBase`, in the order of registration; `first`, `link` and `cur` are
`RecordInDb`, `LinkToExhaust` and `RecordToExhaust`. Steps of the dispatcher: cache the
statuses (`Round`), look for the first active record (`Search`), record by record, call each
record of its source (`Exhaust`, `CallbackReturns`), clear the source, clear what is pending, set
EOS. Between any two, events arrive and callbacks register or unregister. `due` holds the
records that ought to be called since their source became active, `seen` those of them that were
due when the round began and have not been called, and `age` how much time has passed for a
timer record, at least.

*Two levels of status.* A TCO source is active when its own bit of TCO1_STS is set (`sts`) and
SMI_STS.TCO is (`top`). SMI_STS is read once in a round (`cached`), TCO1_STS with every record.
PchTcoSmiClearSource and PchTcoClearNewCenturySts clear both, and SMI_STS.TCO with that for every
TCO source. `Relatch` says what the hardware, which is not in the repository, does then: TRUE,
the bit reads as set again while a status of the TCO remains. The run and the theorem
`AllCalled` have it TRUE. With `Relatch = FALSE` TLC finds `CalledBeforeClear` and `Served` violated:
the status of the second TCO source stays behind a cleared SMI_STS.TCO, and nobody looks at it
again. So the code relies on the one behaviour, and says so nowhere.

*Callbacks may unregister any record.* PchSmmCoreUnRegister accepts every handle, and the
dispatcher still reads three records after a callback: the one that `link` names (saved at line
854), the first that it called (`RecordInDb`, line 924), and the one whose callback has just
returned (lines 912 and 913), except by PCH_TCO_SMI_DISPATCH and its like, where
nothing of it is read. `InUse` names them, and `careless` records that a callback has removed
one. What the dispatcher does with memory that has been freed is undefined: such a walk goes no
further, and `NoFreedRecord` says that it comes about in no other way. It is violated as soon as
one of the three is left out of `InUse`. For two of them that contradicts the comment of lines
850 to 853, by which a callback may unregister itself.

*SmmControl.* Outside SMM, Activate is SmmClear followed by SmmTrigger, and Deactivate is SmmClear;
the caller does both in turn (`MpCommon.c:559`), in `caller`. SMIs may be taken in between.

*Assumptions.* SCI_EN is clear. Setting EOS while a source is active reads back 0, and
latches another SMI when SMM is left. A status bit remembers one event. The periodic timer
is that of the SWSMI group.

*What the model shows, and no property forbids.* ClearPendingSmiStatus clears a new century or a
software SMI that came up together with another source and whose turn has not come; its comments
speak of what is "not handled", and `CalledBeforeClear` excepts these two. Registering a record
clears the status that records of the same source wait for. Registering TcoTimeout clears its
status but not SMI_STS.TCO, and a status for which nobody is registered is cleared by nobody: EOS
cannot be set, and SMIs come without end. After an SMI that finds no record (`unheard`) EOS stays
clear until a caller of SmmControl sets it, although `SmmControlDriver.c:269` says that "SMM
Dispatcher should make sure that EOS is set". A Pause made in a callback of the timer lasts only
until its ClearSource programs the timer again. A callback of the timer that registers another
timer record changes `MinReqInterval` for the rest of the walk, so records behind may count a
longer interval than has passed (`hurried`).

### SpiFlash

Two callers, `dxe` and `smm`; a command of `smm` runs while `dxe` stands still, between any
two steps of its command (`Runs`). `hw` is the controller: one cycle with the caller that
gave it. A cycle may end, fail, be refused or outlive the wait of its caller. `done[a]`
records every byte that a cycle has moved and to or from which place of the buffer, so
`Covered` sees a byte at the wrong place as well as one left out. `lock` takes each
combination of SMI_LOCK, BC.LE, BC.EISS and GBL_SMI that the run lists.

*Assumptions about the flash and the controller.* A write wraps in its page; an erase with
a command the component lacks does nothing; without WPD, or from outside SMM with EISS,
a cycle that changes the BIOS region is refused and sets FCERR; the SMI for setting WPD is
taken at once. SRC and WPD are written in one step. `SMI_EN` is written back whole. `Covered`
speaks of `dxe` only when SMI_LOCK is clear: with it SMIs cannot be masked, as the note at
`SpiCommon.c:803` says. A command of no bytes runs one cycle all the same, an erase of
nothing erases a block, and `ByteCount` wraps; the model has it, and `Covered` speaks of
requests that move something (`Sane`), as nothing in the source says what else they mean. A cycle
that outlives its wait may still move bytes, when its command has failed: that is not counted in
`done`, so `Covered` is silent on it.

## 3. Runs

| run | question | result |
|---|---|---|
| `mp_switch` | Calls of all shapes with SwitchBSP and EnableDisableAP, HLT manner: is every AP owned by one call, do the counters agree? | holds |
| `mp_timeouts` | Timeouts against late answers, hanging APs, failing allocation, run loop: is `ApJobs` implemented, is every call answered? | holds |
| `mp_live` | Do events get signalled, when procedures return? | holds |
| `mp_overlap` | A second StartupAllAPs while one is pending | first event never signalled |
| `mp_lost_wakeup` | Run loop, a new call right after FINISHED | AP never runs |
| `role_switch` | SwitchBSP in detail among calls with timeouts, HLT manner | holds |
| `role_run` | SwitchBSP in detail in the run loop, calls without timeouts: are stacks safe where APs idle on each other's stacks? | holds |
| `ap_idle` | Bring-up with all, some or none of the APs, idle loops, calls, relocation and hand-off, all manners | holds |
| `heci` | Every HECI operation, an ME that is late, silent or resets | holds |
| `heci_ack` | HeciSendwAck after a late answer | body of an old answer returned as the new one |
| `smi` | Six records of four sources, events and registrations of any record at any step | holds |
| `spi` | Commands of a driver and of an SMI handler, all lock bits, failing cycles | holds |

Properties in words:

- `NoOrphan`: an AP that is READY, BUSY or FINISHED is owed to a call that still waits
  for it; otherwise every later StartupAllAPs would return EFI_NOT_READY. The one
  exception, which the code has, is a call ended by EFI_OUT_OF_RESOURCES.
- `SingleOwner`: no AP is awaited by two calls.
- `Accounting`: `StartCount - FinishCount` is the number of listed APs while a
  StartupAllAPs call is pending.
- `OneAtATime`: the single thread mode runs one AP at a time.
- `NoGhostRun`: a procedure runs only for a call not yet answered, and once.
- `FailedListHonest`: an AP that a timed out call does not name has run the procedure.
- `SignalledOnce`: one signal per event, after the answer.
- `TimerSuppressed`: the timer stays out of calls.
- `JobsSpec`: every step is one of `ApJobs`.
- `Answered`, `EventSignalled`, `WokenRuns`: liveness of calls, events, wake-ups.
- `StackSafe`: two processors share a stack only where neither touches it.
- `InterruptSafe`: interrupts only on the boot stack and tables; `BootThread`: the boot
  code is on the processor `BSP` names, interrupts as before; `SwitchEnds`: SwitchBSP
  returns.

- `OwnStack`: an AP that was counted is past the rendezvous on the stack whose line the BSP
  writes, and no other counted AP is; a late one is on the stack of number 0 or 1;
  `NoneLeftBehind`: after the relocation no AP runs in the old buffer; `RightSleep`: an AP
  asleep is in the C-state its line asks for; `BspGoesOn`: bring-up and relocation end;
  `HandedOff`: after ResetAps every AP is halted or in the deepest C-state.
- `NothingLeft`: after a success no word is left that a later call could take for its
  answer; `OwnAnswer`: a success returns the answer to its own attempt, whole;
  `WholeRequests`: the ME gets whole messages; `Returns`: operations end.
- `BitsStay`: registered sources stay enabled; `NoFreedRecord`: the dispatcher reads a freed
  record only if a callback has removed one of the three in use; `NotEarly`: no timer callback
  before its period; `CalledBeforeClear`: no clearing, that of the source or of what is pending,
  takes the status or SMI_STS.TCO from a record that was due when the round began and has not
  been called, but for the two that ClearPendingSmiStatus drops, and Deactivate takes away no
  software SMI; `Served`: every record is called after its source has become active, or the status
  is taken away by one who clears it.
- `Covered`, `Restored`, `LockedOut`: the bytes moved, the state given back, the BIOS region
  closed from outside SMM.

The three violations are disagreements between code and its own comments; `PROJECT.json`
quotes them under `findings`. `mp_lost_wakeup` concerns the manner the package uses by
default (`PeiCpuPolicyLib.c`, ApIdleManner = 2, the MWAIT loop, which wakes up by the same
signal). More is seen with constants that no run keeps: with `Usage = {"notifyCalls"}`
`TimerSuppressed` is violated, because a call from a notification function clears
mStopCheckApsStatus above the call it interrupts; and in the run loop with timeouts
`StackSafe` is, because a timeout restarts an AP on its own stack, on which another may
idle since a switch. With `ReqLens = {9}` `WholeRequests`, `NothingLeft` and `OwnAnswer` are
violated: for a request of `4 (CBD - 1) k + 1` bytes (k > 0) the lines 1178 to 1181 of
`HeciCore.c` set MessageComplete, by their comment for "our last packet in the message",
for the last packet but one as well, because line 1187 leaves one byte for another; the ME
takes that byte for a message of its own. `heci` has no such length, and `Lengths` in
`Heci` states that for the theorems. `role_switch` and `role_run` are the two cases for which the theorems
about `ExchangeRole` are proved.

*Mistakes.* A definition whose comment begins with "Mistake" is no part of the
specifications: it is a plausible wrong form of the definition that follows it. The list
`mutants` in `PROJECT.json` says which property of which run TLC finds violated when the
wrong form takes the place of the right one, so that no property holds whatever the
code does.

*Bounds.* `N = 3`: a BSP and two APs, the least number with an AP that is done while
another is not, a next AP for single thread mode, a bystander to a switch, and two
different APs to switch to in turn. `MaxCalls = 2`: a call and one
that follows or overlaps it; a defect needs at most an earlier and a later call.
`CallKinds` in `mp_timeouts` and `mp_switch` are four and two combinations, so that the
state space stays small; between the runs each parameter takes both values.
`ExchangeRole` and `ApIdle` have no bound on the number of calls: their states are finite.
`Heci`: buffers of three words hold one packet with a body of two, so a message of three
words is cut and both sides must wait for room; two attempts, two calls, one reset begun by
the ME; answers of one packet, of two, and longer than the caller's buffer. `SmiDispatch`:
two records for each of two sources, one source that shares an enable bit and SMI_STS.TCO, the
software SMI, three events and three registrations: two sources of the TCO and a third event in
the same round, or two registrations and a callback that unregisters. `SpiFlash`: sizes are scaled (unit 2, FDATA 4,
page 8, blocks 8 and 16, registers that wrap at 64, two components, the second without the
large erase), so that every case of the arithmetic comes up; the theorems are for all sizes.

*Deadlock* is checked but in `ap_idle`, which ends with APs halted under the operating
system, in `spi`, whose commands are bounded, and in `smi`, where a dispatcher that has read a
freed record goes no further. In `MpServices` the timer tick or a new
call is always possible; in `ExchangeRole` the boot code may start a switch or a call, or a
processor polls a lock. That a processor only polls for ever is for `SwitchEnds` to exclude.
In `Heci` callers may always reset.

*Fairness.* `BspFair`: the BSP executes, in each of its contexts, the timer ticks and
time passes (weak fairness). It says nothing about APs: `Answered` must hold when a
procedure hangs, and the run gives every call a timeout. `ApFair` adds that APs execute
and that procedures return; the calls in `mp_live` have no timeout, so nothing else
could end them. `ExchangeRole!Fairness` is weak fairness of every processor, and strong
fairness of taking a byte lock: the poller of `WaitForOtherStored` frees and retakes the
lock the other needs, and with weak fairness alone the other may never get it. The code
relies on the memory system for that: `xchg` is arbitrated between processors, and the
poller frees the lock in every round. `ApIdle!FairSpec`: the BSP goes on with what it has
begun, APs execute, procedures return; nothing is said of SMIs or other events that break
MWAIT. `Heci!FairSpec`: the host executes, nothing is said of the ME, so `Returns` rests on
timeouts alone. `SmiDispatch!FairSpec`: the dispatcher runs and callbacks return. It says
nothing of those who use SmmControl: `Served` must not rest on a SmmClear that sets EOS for
another. `SpiFlash` has no liveness.

## 4. Proofs

Every theorem is for any values of the constants that the named assumption of its module
allows: any number of processors, calls, switches, any sizes of flash and registers.

`MpServices_proof`
- `TypeCorrect`: `Spec => []TypeOK`. TypeOK is not inductive alone: `calls` stays
  within `MaxCalls` because a context that has started a call and not yet named it has
  a name left, also with a call in a notification function above it. That is the
  invariant `Room`.
- `TimerIsSuppressed`: `Spec => []TimerSuppressed` when notification functions make no
  calls. The inductive invariant `Suppressed` relates the position of main, of the timer
  and mStopCheckApsStatus. Without the assumption it is false (section 3).

`MpCalls_proof` and `MpDuty_proof` prove the other safety properties of
`MpServices` and the refinement. Their assumption `Careful` says that callers do three
things not: start a second StartupAllAPs while one is pending, call from a notification
function, enable or disable an AP that serves a call. The first is the defect of
`mp_overlap`, the second the one of section 3, and the third overwrites a State that
an AP and the collector rely on. Both manners, SwitchBSP, EnableDisableAP on other APs,
timeouts and failing allocations are in.

`MpCalls_proof`
- `OneCallPerAp`: `Spec => []SingleOwner`. `CountsAgree`: `[]Accounting`. `EventOnce`:
  `[]SignalledOnce`.

Its invariants are `Control` (the position of a context says what its parameters are, and
which WaitEvents are set), `Owners` and `Names`. `Owners` says for each AP: of the list,
its own WaitEvent and the call in progress only one may claim it, and then its State is
the one that the claimant's position implies (`Owned`); State, Procedure and the AP's
position agree (`Works`: an AP between entry and return is BUSY, FINISHED means an empty
Procedure), which an AP in a switch is exempt from (`Roles`); the listed APs of a serial
call take their turns in order (`InTurn`); the counters are the size of a set (`Counted`,
by cardinality). Without `Works` a collector could take the FINISHED of one call for that
of another, without `Roles` the old BSP's FINISHED after an exchange could be taken for an AP's.
`Names` says that no two places hold the name of one call, and that an answered call stands
in none but the one about to be cleared.

`MpDuty_proof`
- `NoneForgotten`: `Spec => []NoOrphan`. `NoLateRun`: `[]NoGhostRun`. `OneByOne`:
  `[]OneAtATime`. `FailuresReported`: `[]FailedListHonest`.

Its invariant `Duties` relates the call's view to the driver's, for each AP and call
(`Duty`): an AP that owes an answer was given the call and has served it exactly when it is
done; its Procedure is empty or names that call; an AP that owes no more has served the
call or failed it; a Procedure names only a call that is pending or that ended for lack of
memory. `Resetting` carries the fact that CheckAllAps has an AP to report from the
test of the timeout through the loop that resets.

Its second half is the refinement:
- `DriverImplements`: `Spec => JobsSpec`. Each action is shown to be a step of `ApJobs` or to
  leave what a caller sees alone. Beyond `Duties` this needs `RunsOn`: an AP that a call
  left running for lack of memory is wanted by no other call until it has returned, so it
  cannot be given a second one that its late return would be booked for.

TLC checked each part of these invariants on the instances of the runs before it was proved.

`ExchangeRole_proof`
- `RoleTypeCorrect`: `Spec => []TypeOK`.
- `StacksAreSafe`, `InterruptsAreSafe`, `BootThreadMoves`: the three safety properties
  when APs are halted, or in the loops when no AP is reset by a timeout. The assumption
  is needed: in the loops an AP may idle on the stack of another, and a timeout that
  restarts the other on its own stack puts two APs on one.

The inductive invariant `Inv` has five parts. `ApsOK`: State, Procedure and position of an
AP that takes no part in a switch agree, and in the HLT manner it works on its own stack.
`BootOK`: between switches the BSP is on the boot stack. `SwitchOK`: during a switch, for
the old BSP (`OldOK`) and the new one (`NewOK`), the state, stack pointer, tables and
frames in memory are those that the position of each implies, and `Handshake` relates the
two positions: neither loads before the other has stored in this switch, neither pops
before the other has loaded. `Exclusive`: outside of a switch no two processors are on
one stack, but for APs that are halted for good. Each action has a lemma that it keeps
`Inv`; `StackSafe` then follows from `Exclusive` and `Handshake`. The locks play no part
in it: each state byte has one writer, and the argument needs only that it is read whole.
TLC checked each part of `Inv`, for halted APs and for the run loop, before it was proved.

`ApIdle_proof`
- `IdleTypeCorrect`, `OwnStacks`, `NobodyLeftBehind`, `SleepsRight`: `Spec => []` of TypeOK,
  OwnStack, NoneLeftBehind and RightSleep, for any number of threads, every manner, and
  for `Hasty = TRUE` as well: how late an AP clears its line endangers liveness only.

The inductive invariant `Whole` is `SleepInv` (what an AP with an armed monitor has read is
still on its line) with one of two, by whether an AP was late. `LateInv`: nobody is called, the
counted APs are numbered by their rank (`Rank`) and are past checking in, the others have 0 or 1,
and each AP beyond the rendezvous is on the stack that follows from that. That ranks differ, and
lie between 1 and the number of counted APs, is the lemma `RankIs`; that the count makes the one
invariant out of the other, `BecomesLate`. `Inv`, when none was late, has six parts. `BringUpInv`:
how far the APs can be at each position of the BSP in bring-up, where nobody has written a signal
yet. `FreshInv`: nobody has a procedure before the count. `BufferInv`: what `ApFunction` and
`WakeUpApManner` of each buffer say. `NumberInv`: no AP passes ProgramStack before all have their
numbers. `PlaceInv`: an AP jumps to AsmRelocateApsInMwaitLoop only during a relocation and from
the old buffer. `CountInv`: mFinishedCount and mCpuCountSync are the sizes of the sets of APs that
each counts, `Coming` and `Behind`, so a counter at its goal says that the set is empty. TLC checked
these parts for `Hasty` FALSE and TRUE.

`SpiFlash_proof`
- `SpiTypeCorrect`: `Spec => []TypeOK`. It needs that sums and differences are taken
  modulo `Word`, and that a data count never exceeds `MaxData` nor a block `Word`.
- `AllRestored`: `Spec => []Restored`. `RestoreInv` says, for each position of both callers,
  what was saved and what is in force: `SmiInv` for the SMI enable, `CacheInv` for SRC,
  `WpdInv` (WPD is set only by a command that has opened the flash and will close it) and
  `LockInv`. An SMI handler's command in the middle of a driver's saves and restores
  what the driver has in force, not what the driver has saved.
- `BiosLockedOut`: `Spec => []LockedOut`, from `ClosedInv`: a cycle that was accepted was
  given when the bits let it in.
- `BytesCovered`: `Spec => []Covered`. `CopyInv` relates, position by position, the address,
  the bytes left and the offset in the buffer (`Position`), the size of the cycle on its way
  (`Sized`, `Loaded`, `Started`) and the bytes done. The arithmetic is in lemmas of its own:
  how the next page and the remainders behave, that a cycle never crosses a page or an
  erase block, that a cycle's bytes continue those before. `Undisturbed` and `OtherStep` show
  that a step of one caller leaves the other's part alone: with masked SMIs no step of
  an SMI handler falls into a driver's command, and a handler stands above the driver.

`SmiDispatch_proof`
- `SmiTypeCorrect`, `BitsStaySet`, `NoneFreed`, `NeverEarly`: `Spec => []` of TypeOK, BitsStay,
  NoFreedRecord and NotEarly, for any records, sources, periods and intervals.
- `AllCalled`: `Spec => CalledBeforeClear` if SMI_STS.TCO latches again (`Relatch`).

The lemmas about the list say what is on it, and in which order, after a record was
appended or taken out (`AppendIs`, `OtherIs`) and how `NextNode` advances; `Ahead(db, l)`
is what the walk has before it at l. `Walk`: the record that is called is behind the walk, in a
walk that has not been disturbed. `FreedStep`: a callback that takes none of the three records in
use leaves them on the list. `Timed`: a record that the walk has not reached has its tick
uncounted, so that `elapsed + MinReqInterval` is not more than the time that has passed; a new
interval is only set together with a cleared status. `Latched` and `Quiet` are about the hardware:
SMI_STS.TCO is set while a status of the TCO is, and while EOS is set nothing that is enabled is
active, so an SMI asserted is an SMI taken. `Owed` says what the round owes: a record of `seen` of
the dispatched source is still ahead of the walk, and the status of that source stays set, so
no second event can make a record due that was passed already. An event that comes during the
search may be found at a later record of its source, with earlier ones already passed over;
those are not in `seen`, and their event is lost with the next ClearSource.

`Heci_proof`, for every depth of the buffers, any number of attempts, calls and resets by
the ME
- `HeciTypeCorrect`: `Spec => []TypeOK`, whatever the ME answers and however long requests are.
- `HeciWholeRequests`: `Spec => []WholeRequests` under `Lengths`, which leaves out the
  lengths that HeciSend loses (section 3).
- `HeciNothingLeft`, `HeciOwnAnswer`: `Spec => []` of NothingLeft and OwnAnswer under `Lengths`
  and `Answers`. `Answers` says that the ME, which is not in the repository, answers in
  packets: a header, the words it announces, the next header, only the final one marked
  complete. Answers that are too long for the caller, or have packets without a body, are in.
  `MCHeci` has TLC evaluate both conditions on the instance of the runs.

The invariant `Inv` adds to the types what holds of the buffers (`Packed`: the host's
buffer is made of whole packets, without which the ME would take a body for a header),
which operation can be at which place (`Place`), that the attempts a request has
seen and those left add up (`Tried`), and that nothing moves while H_RST is set
(`InReset`). `Cut`: a packet is marked complete exactly if it is the last one. `Whole`:
in the host's buffer each packet continues the one before, the first continues what the ME
has put together, and at the end stands what HeciSend believes it has sent. `Own` says,
for every place in the code, what can be on its way, as long as nothing has failed since
the last reset: nothing, packets of this request that do not end it (`Unfinished`), the
whole request (`Requested`), the request owed (`Owed`), or its answer (`Answering`),
whose words in the ME's buffer and still to come are, after those the host is about to
take, packets at the offset up to which it has read. NothingLeft alone is far from
inductive: that nothing is left at the end is known only from the header the host read,
which ended the answer because every word before it was accounted for. The arithmetic on
sequences is in lemmas: what a buffer holds after a packet was put (`PutIs`,
`JoinedPut`) or taken (`PackedTake`, `JoinedTake`), what an answer is after its header or
a body was read (`HeaderGone`, `BodyGone`), that the ME moves words without changing the
stream (`StreamMoved`). TLC checked each part before it was proved, also with answers
of one empty packet and with bodies of two words.

Only model-checked: liveness (`Answered`, `EventSignalled`, `WokenRuns`, `SwitchEnds`,
`BspGoesOn`, `HandedOff`, `Returns`, `Served`), which is out of the prover's reach. Every
safety property that a run checks is proved, under the assumptions named above.

## 5. Not modelled, and the plan

Left out of the modelled parts:

- `ApIdle`: what late APs do to the data and stacks of others, and how such a boot goes on; BIST values,
  MTRRs, FPU; the manner RunLoop32,
  which no policy asks for; the CSM's copy of the buffer; exchanges of roles and resets
  by timeouts among these loops (`ExchangeRole` and `MpServices` have them with the loop as
  one state).
- `SmiDispatch`: the callback for Sx sleep, IoTrap, the sub-dispatchers for eSPI and GPIO,
  the PERIODIC timer group, sources that depend on SCI_EN, what follows the read of a freed record.
- `SpiFlash`: the reading of descriptor and SFDP tables, which gives the constants; changes
  that SMI handlers make to SMI_EN between the read and the write that masks it.
- `MpServices`: the arithmetic of CheckTimeout and CalculateTimeout.

Next, in order:

1. `MpTimeout`: CalculateTimeout and CheckTimeout on counters of bounded width that wrap
   and count down, against a reference.
2. SMBus, I2C and SMM access: bus transactions with retries; open, close and lock of SMRAM.
3. The PCI host bridge and the PEI dispatcher.

Left out for good: memory training and register programming (no control flow that a model
could get wrong, and by far most of the repository's lines), the debugger and setup
samples, ACPI tables, vendored EDK II build tools.
