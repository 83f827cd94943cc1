------------------------------- MODULE SpiFlash -------------------------------
(***************************************************************************)
(* Commands to the SPI flash: SendSpiCmd of Pch/Library/Private/           *)
(* BasePchSpiCommonLib/SpiCommon.c, with the write protection of the BIOS  *)
(* region of Pch/Spi/RuntimeDxe, Pch/Spi/Smm and PchBiosWriteProtect.c.    *)
(* One controller serves two callers: "dxe", a driver outside SMM, and     *)
(* "smm", an SMI handler, which runs while "dxe" stands still.  A command  *)
(* is cut into cycles, each of one page or one block of the flash.         *)
(***************************************************************************)
EXTENDS Integers

CONSTANTS Unit, MaxData,   \* 8 and 64: what the data count of a cycle may be
          Page,            \* 256: a cycle stays inside a page
          Small, Large,    \* SIZE_4KB, SIZE_64KB: blocks that can be erased
          Word,            \* 2^32: the width of addresses and counts
          FlashSize,       \* TotalFlashSize
          BiosBase, BiosSize, \* the BIOS region
          Component1Start, \* Component1StartAddr: 0 when there is one component
          Erases64K,       \* components whose SFDP table offers the large block
          Platforms,       \* what lock bits the firmware has set
          Requests,        \* for each caller, the commands it may give
          MaxCalls         \* bound on commands

Callers == {"dxe", "smm"}
Kinds   == {"read", "write", "erase", "sfdp", "jedec", "readStatus", "writeStatus"}

ASSUME SpiAssumption ==
  /\ {Unit, MaxData, Page, Small, Large, Word, FlashSize} \subseteq Nat \ {0}
  /\ {BiosBase, BiosSize, Component1Start, MaxCalls} \subseteq Nat
  /\ BiosBase + BiosSize <= FlashSize /\ FlashSize < Word
  /\ Large % Small = 0 /\ Large < Word
  /\ Erases64K \subseteq {0, 1}
  /\ Platforms \subseteq [smiLock : BOOLEAN, le : BOOLEAN, eiss : BOOLEAN, gbl : BOOLEAN]
  /\ \A a \in Callers : Requests[a] \subseteq
       [kind : Kinds, region : {"bios", "all", "unused"},
        first : 0..Word - 1, count : 0..Word - 1]

VARIABLES
  lock,            \* SMI_LOCK, BC.LE and BC.EISS, and GBL_SMI at the start
  gbl, wpd, cache, \* SMI_EN.GBL_SMI, BC.WPD; whether BC.SRC allows caching
  bioswr,          \* the SMI for setting WPD is pending
  hw,              \* FADDR, FDATA and HSFSC, and whose cycle it is
  pc, req, status, \* of each caller: position, request, Status
  addr, left, buf, \* HardwareSpiAddr, ByteCount, offset of Buffer
  n,               \* SpiDataCount
  smiSave, srcSave,\* SmiEnSave, BiosCtlSave
  done,            \* which flash bytes each request has moved, to or from which offset
  calls

platform == <<lock, gbl, wpd, cache, bioswr>>
transfer == <<addr, left, buf, n>>
saves    == <<smiSave, srcSave>>
vars == <<platform, hw, pc, req, status, transfer, saves, done, calls>>

NoReq == [kind |-> "read", region |-> "all", first |-> 0, count |-> 0]
NoCycle == [scip |-> FALSE, fcerr |-> FALSE, kind |-> "read", by |-> "dxe", accepted |-> FALSE,
            faddr |-> 0, fdbc |-> 0, fdata |-> [of |-> "flash", from |-> 0]]

Init ==
  /\ lock \in Platforms /\ gbl = lock.gbl
  /\ wpd = FALSE /\ cache = TRUE /\ bioswr = FALSE
  /\ hw = NoCycle
  /\ pc = [a \in Callers |-> "idle"] /\ req = [a \in Callers |-> NoReq]
  /\ status = [a \in Callers |-> "SUCCESS"]
  /\ addr = [a \in Callers |-> 0] /\ left = [a \in Callers |-> 0]
  /\ buf = [a \in Callers |-> 0] /\ n = [a \in Callers |-> 0]
  /\ smiSave = [a \in Callers |-> FALSE] /\ srcSave = [a \in Callers |-> TRUE]
  /\ done = [a \in Callers |-> {}] /\ calls = 0

\* Mistake: the sum has more than 32 bits.
AddWide(x, y) == x + y

\* Sums and differences of UINT32.
Add(x, y) == IF x + y < Word THEN x + y ELSE x + y - Word
Sub(x, y) == IF x >= y THEN x - y ELSE x - y + Word

Modifies(k)  == k \in {"write", "erase4K", "erase64K"}
Erasing(k)   == k \in {"erase4K", "erase64K"}
Changes(a)   == req[a].kind \in {"write", "erase"}
InBios(x)    == x >= BiosBase /\ x < BiosBase + BiosSize

\* SMIs are taken unless GBL_SMI is clear; with SMI_LOCK it cannot be cleared.  The
\* instruction that sets WPD is followed by its SMI at once.
SmiTaken == gbl
Runs(a) == a = "dxe" => pc["smm"] = "idle" /\ ~(bioswr /\ SmiTaken)
-------------------------------------------------------------------------------
(***************************************************************************)
(* The size of the next cycle.                                             *)
(***************************************************************************)
NextPage(x) == x - (x % Page) + Page

\* Data cycles end at a page; they move MaxData bytes, a multiple of Unit, or less
\* than Unit.
DataCount(x, count) ==
  LET inPage == IF x + count > NextPage(x) THEN NextPage(x) - x ELSE count
  IN  IF inPage >= MaxData THEN MaxData
      ELSE IF inPage >= Unit THEN inPage - (inPage % Unit) ELSE inPage

Component(x) == IF x < Component1Start THEN 0 ELSE 1

EraseCount(x, count) ==
  IF /\ count >= Large /\ count % Large = 0 /\ x % Large = 0
     /\ Component(x) \in Erases64K
  THEN Large ELSE Small

Count(k, x, count) ==
  CASE k \in {"read", "write", "sfdp"} -> DataCount(x, count)
    [] k = "erase" -> EraseCount(x, count)
    [] OTHER -> count

Cycle(k, c) == IF k # "erase" THEN k ELSE IF c = Small THEN "erase4K" ELSE "erase64K"
-------------------------------------------------------------------------------
(***************************************************************************)
(* The steps of SendSpiCmd.                                                *)
(***************************************************************************)
Goto(a, p) == pc' = [pc EXCEPT ![a] = p]
Fail(a, s) == Goto(a, "end") /\ status' = [status EXCEPT ![a] = s]

\* SmiEnSave is read; an SMI handler begins when an SMI is taken.
Begin(a, r) ==
  /\ pc[a] = "idle" /\ calls < MaxCalls /\ Runs(a)
  /\ a = "smm" => SmiTaken
  /\ req' = [req EXCEPT ![a] = r] /\ status' = [status EXCEPT ![a] = "SUCCESS"]
  /\ smiSave' = [smiSave EXCEPT ![a] = gbl]
  /\ done' = [done EXCEPT ![a] = {}] /\ calls' = calls + 1
  /\ Goto(a, "mask")
  /\ UNCHANGED <<platform, hw, transfer, srcSave>>

\* Mistake: SMIs stay enabled.
MaskNothing(a) ==
  /\ pc[a] = "mask" /\ Runs(a)
  /\ srcSave' = [srcSave EXCEPT ![a] = cache]
  /\ Goto(a, "protect")
  /\ UNCHANGED <<platform, hw, req, status, transfer, smiSave, done, calls>>

MaskSmi(a) ==
  /\ pc[a] = "mask" /\ Runs(a)
  /\ gbl' = IF lock.smiLock THEN gbl ELSE FALSE
  /\ srcSave' = [srcSave EXCEPT ![a] = cache]
  /\ Goto(a, "protect")
  /\ UNCHANGED <<lock, wpd, cache, bioswr, hw, req, status, transfer, smiSave, done, calls>>

\* Mistake: outside SMM the lock of the BIOS region is not asked for.
UnprotectAlways(a) ==
  /\ pc[a] = "protect" /\ Runs(a) /\ Goto(a, "ready")
  /\ IF Changes(a)
     THEN wpd' = TRUE /\ bioswr' = (bioswr \/ (lock.le /\ ~wpd)) /\ cache' = FALSE
     ELSE UNCHANGED <<wpd, bioswr, cache>>
  /\ UNCHANGED <<lock, gbl, hw, req, status, transfer, saves, done, calls>>

\* Writes and erases: DisableBiosWriteProtect, then prefetching and caching off.
Unprotect(a) ==
  /\ pc[a] = "protect" /\ Runs(a)
  /\ \/ /\ Changes(a) /\ ~(a = "dxe" /\ lock.eiss)
        /\ wpd' = TRUE /\ bioswr' = (bioswr \/ (lock.le /\ ~wpd)) /\ cache' = FALSE
        /\ Goto(a, "ready") /\ UNCHANGED status
     \/ /\ Changes(a) /\ a = "dxe" /\ lock.eiss
        /\ Fail(a, "ACCESS_DENIED") /\ UNCHANGED <<wpd, bioswr, cache>>
     \/ /\ ~Changes(a) /\ Goto(a, "ready") /\ UNCHANGED <<status, wpd, bioswr, cache>>
  /\ UNCHANGED <<lock, gbl, hw, req, transfer, saves, done, calls>>

\* WaitForSpiCycleComplete clears the flags of a cycle that is over; it gives up
\* on one that is not.
CycleOver == ~hw.scip
FlagsCleared == hw' = [hw EXCEPT !.fcerr = FALSE]
GiveUp(a) == hw.scip /\ Fail(a, "DEVICE_ERROR") /\ UNCHANGED hw

Base(r) == IF r.region = "all" THEN 0 ELSE BiosBase
Size(r) == IF r.region = "all" THEN FlashSize ELSE BiosSize

\* What is wrong with a request, in the order of the checks.
Verdict(r) ==
  CASE r.region = "unused" -> "DEVICE_ERROR"
    [] Add(r.first, r.count) > Size(r) -> "INVALID_PARAMETER"
    [] r.kind = "erase" /\ (r.count % Small # 0 \/ Add(Base(r), r.first) % Small # 0)
         -> "INVALID_PARAMETER"
    [] OTHER -> "SUCCESS"

\* The last cycle, whoever gave it, is over; the request is checked.
Check(a) ==
  /\ pc[a] = "ready" /\ Runs(a)
  /\ \/ GiveUp(a) /\ UNCHANGED transfer
     \/ /\ CycleOver /\ FlagsCleared
        /\ LET r == req[a] IN
           \/ /\ Verdict(r) # "SUCCESS" /\ Fail(a, Verdict(r)) /\ UNCHANGED transfer
           \/ /\ Verdict(r) = "SUCCESS" /\ Goto(a, "chunk") /\ UNCHANGED status
              /\ addr' = [addr EXCEPT ![a] = Add(Base(r), r.first)]
              /\ left' = [left EXCEPT ![a] = r.count]
              /\ buf'  = [buf EXCEPT ![a] = 0]
              /\ UNCHANGED n
  /\ UNCHANGED <<platform, req, saves, done, calls>>

\* The data of a write goes to FDATA, the address to FADDR.
LoadCycle(a) ==
  /\ pc[a] = "chunk" /\ Runs(a) /\ Goto(a, "go")
  /\ n' = [n EXCEPT ![a] = Count(req[a].kind, addr[a], left[a])]
  /\ hw' = [hw EXCEPT !.faddr = addr[a],
              !.fdata = IF req[a].kind \in {"write", "writeStatus"} /\ n'[a] > 0
                        THEN [of |-> a, from |-> buf[a]] ELSE @]
  /\ UNCHANGED <<platform, req, status, addr, left, buf, saves, done, calls>>

\* FDBC has room for MaxData - 1.  The controller refuses to change the BIOS region
\* while WPD is clear.
StartCycle(a) ==
  /\ pc[a] = "go" /\ Runs(a) /\ Goto(a, "wait")
  /\ hw' = [hw EXCEPT !.scip = TRUE, !.by = a, !.kind = Cycle(req[a].kind, n[a]),
              !.fdbc = (n[a] - 1) % MaxData,
              !.accepted = ~Changes(a) \/ wpd \/ ~InBios(hw.faddr)]
  /\ UNCHANGED <<platform, req, status, transfer, saves, done, calls>>

\* The driver takes the data of a read from FDATA.
Fetched(a) ==
  IF Changes(a) \/ req[a].kind = "writeStatus" THEN {}
  ELSE {<<hw.fdata.from + i, buf[a] + i>> : i \in 0..n[a] - 1}

FinishCycle(a) ==
  /\ pc[a] = "wait" /\ Runs(a)
  /\ \/ GiveUp(a) /\ UNCHANGED <<addr, left, buf, done>>
     \/ /\ CycleOver /\ FlagsCleared /\ hw.fcerr /\ Fail(a, "DEVICE_ERROR")
        /\ UNCHANGED <<addr, left, buf, done>>
     \/ /\ CycleOver /\ FlagsCleared /\ ~hw.fcerr
        /\ done' = [done EXCEPT ![a] = @ \union Fetched(a)]
        /\ addr' = [addr EXCEPT ![a] = Add(@, n[a])]
        /\ left' = [left EXCEPT ![a] = Sub(@, n[a])]
        /\ buf'  = [buf EXCEPT ![a] = @ + n[a]]
        /\ Goto(a, IF left'[a] > 0 THEN "chunk" ELSE "end") /\ UNCHANGED status
  /\ UNCHANGED <<platform, req, n, saves, calls>>

\* SendSpiCmdEnd, on every way out: EnableBiosWriteProtect, and BC.SRC as it was.
Protect(a) ==
  /\ pc[a] = "end" /\ Runs(a) /\ Goto(a, "unmask")
  /\ IF Changes(a) THEN wpd' = FALSE /\ cache' = srcSave[a]
     ELSE UNCHANGED <<wpd, cache>>
  /\ UNCHANGED <<lock, gbl, bioswr, hw, req, status, transfer, saves, done, calls>>

\* Mistake: SMIs are enabled, whatever they were.
UnmaskAlways(a) ==
  /\ pc[a] = "unmask" /\ Runs(a) /\ Goto(a, "idle")
  /\ gbl' = TRUE
  /\ UNCHANGED <<lock, wpd, cache, bioswr, hw, req, status, transfer, saves, done, calls>>

\* SMI_EN is written back as it was.
UnmaskSmi(a) ==
  /\ pc[a] = "unmask" /\ Runs(a) /\ Goto(a, "idle")
  /\ gbl' = IF lock.smiLock THEN gbl ELSE smiSave[a]
  /\ UNCHANGED <<lock, wpd, cache, bioswr, hw, req, status, transfer, saves, done, calls>>
-------------------------------------------------------------------------------
(***************************************************************************)
(* The write protection SMI, and the controller.                           *)
(***************************************************************************)
PchSpiBiosWpCallback ==
  /\ bioswr /\ SmiTaken /\ pc["smm"] = "idle"
  /\ bioswr' = FALSE /\ wpd' = FALSE
  /\ UNCHANGED <<lock, gbl, cache, hw, pc, req, status, transfer, saves, done, calls>>

\* What an accepted cycle does to the flash: a write wraps at the end of the page, an
\* erase covers the block, if the component knows blocks of that size.
Wrapped(x, i) == x - (x % Page) + (((x % Page) + i) % Page)
BlockSize(k)  == IF k = "erase4K" THEN Small ELSE Large
Effect ==
  LET a == hw.by IN
  CASE hw.kind = "write" ->
         {<<Wrapped(hw.faddr, i), IF hw.fdata.of = a THEN hw.fdata.from + i ELSE -1>> :
            i \in 0..hw.fdbc}
    [] Erasing(hw.kind) /\ (hw.kind = "erase4K" \/ Component(hw.faddr) \in Erases64K) ->
         LET block == hw.faddr - (hw.faddr % BlockSize(hw.kind))
         IN  {<<block + i, block + i - Add(Base(req[a]), req[a].first)>> :
                i \in 0..BlockSize(hw.kind) - 1}
    [] OTHER -> {}

\* A cycle ends, or fails.  One whose caller has given up may still end.
EndCycle(ok) ==
  /\ hw.scip
  /\ hw' = [hw EXCEPT !.scip = FALSE, !.fcerr = ~(ok /\ hw.accepted),
              !.fdata = IF hw.kind \in {"write", "writeStatus"} \/ Erasing(hw.kind) THEN @
                        ELSE [of |-> "flash", from |-> hw.faddr]]
  /\ done' = IF ok /\ hw.accepted /\ pc[hw.by] = "wait"
             THEN [done EXCEPT ![hw.by] = @ \union Effect] ELSE done
  /\ UNCHANGED <<platform, pc, req, status, transfer, saves, calls>>

SendSpiCmd(a) ==
  \/ MaskSmi(a) \/ Unprotect(a) \/ Check(a) \/ LoadCycle(a) \/ StartCycle(a)
  \/ FinishCycle(a) \/ Protect(a) \/ UnmaskSmi(a)

Next ==
  \/ \E a \in Callers : SendSpiCmd(a) \/ \E r \in Requests[a] : Begin(a, r)
  \/ PchSpiBiosWpCallback
  \/ \E ok \in BOOLEAN : EndCycle(ok)

Spec == Init /\ [][Next]_vars
-------------------------------------------------------------------------------
(***************************************************************************)
(* Properties.                                                             *)
(***************************************************************************)
Positions == {"idle", "mask", "protect", "ready", "chunk", "go", "wait", "end", "unmask"}

TypeOK ==
  /\ lock \in Platforms /\ {gbl, wpd, cache, bioswr} \subseteq BOOLEAN
  /\ hw \in [scip : BOOLEAN, fcerr : BOOLEAN, kind : (Kinds \ {"erase"}) \union {"erase4K", "erase64K"},
             by : Callers, accepted : BOOLEAN, faddr : 0..Word - 1, fdbc : 0..MaxData - 1,
             fdata : [of : Callers \union {"flash"}, from : Nat]]
  /\ pc \in [Callers -> Positions]
  /\ DOMAIN req = Callers /\ \A a \in Callers : req[a] \in Requests[a] \union {NoReq}
  /\ status \in [Callers -> {"SUCCESS", "ACCESS_DENIED", "DEVICE_ERROR", "INVALID_PARAMETER"}]
  /\ addr \in [Callers -> 0..Word - 1] /\ left \in [Callers -> 0..Word - 1]
  /\ buf \in [Callers -> Nat] /\ n \in [Callers -> 0..Word - 1]
  /\ smiSave \in [Callers -> BOOLEAN] /\ srcSave \in [Callers -> BOOLEAN]
  /\ calls \in 0..MaxCalls

\* A request that moves something and whose end is an address; the identification
\* and status cycles take what one cycle can carry.
Sane(r) ==
  /\ r.count > 0 /\ r.first + r.count < Word
  /\ r.kind \in {"jedec", "readStatus", "writeStatus"} => r.count <= MaxData

Wanted(r) == {<<Base(r) + r.first + i, i>> : i \in 0..r.count - 1}

\* A command moves every byte between its place in the flash and its place in the
\* buffer, or erases it, and touches no other byte of the flash, however it is cut
\* into cycles and whatever fails.  It is so for SMI handlers always, and outside SMM as
\* long as masking SMIs keeps the handlers' commands out of the controller.
Covered ==
  \A a \in Callers :
    LET r == req[a] IN
    Sane(r) /\ (a = "smm" \/ ~lock.smiLock) =>
      /\ done[a] \subseteq Wanted(r)
      /\ (pc[a] = "end" /\ status[a] = "SUCCESS" /\ r.kind # "writeStatus")
           => done[a] = Wanted(r)

\* When no command is under way the flash is protected, caching is as it was and so
\* is the global SMI enable, whichever way the commands returned and however they
\* interrupted each other.
Restored ==
  (\A a \in Callers : pc[a] = "idle") => ~wpd /\ cache /\ gbl = lock.gbl

\* Outside SMM nothing changes the BIOS region once it can only be updated in SMM:
\* with EISS, or when setting WPD raises an SMI that cannot be masked.
LockedOut ==
  hw.scip /\ hw.by = "dxe" /\ Modifies(hw.kind) /\ InBios(hw.faddr)
    /\ (lock.eiss \/ (lock.le /\ lock.smiLock /\ lock.gbl))
  => ~hw.accepted
===============================================================================
