---------------------------- MODULE SpiFlash_proof ----------------------------
(***************************************************************************)
(* Theorems about SendSpiCmd for every size of pages, blocks, units and    *)
(* regions, every platform and every set of commands.                      *)
(***************************************************************************)
EXTENDS SpiFlash, TLAPS

-------------------------------------------------------------------------------
(***************************************************************************)
(* Arithmetic.                                                             *)
(***************************************************************************)
LEMMA ModIs ==
  ASSUME NEW x \in Int, NEW m \in Nat \ {0}, NEW q \in Int, NEW r \in 0..m - 1,
         x = m * q + r
  PROVE  x % m = r
OBVIOUS

LEMMA ModZero ==
  ASSUME NEW m \in Nat \ {0}, NEW q \in Int
  PROVE  (m * q) % m = 0
OBVIOUS

LEMMA ModRange ==
  ASSUME NEW x \in Int, NEW m \in Nat \ {0}
  PROVE  x % m \in 0..m - 1
OBVIOUS

\* An offset that stays below the modulus adds to the remainder.
LEMMA ModPlus ==
  ASSUME NEW x \in Nat, NEW m \in Nat \ {0}, NEW y \in Nat, (x % m) + y < m
  PROVE  (x + y) % m = (x % m) + y
<1> DEFINE q == x \div m
           r == (x % m) + y
<1>1. q \in Int /\ x = (m * q) + (x % m) /\ x % m \in 0..m - 1
  OBVIOUS
<1>2. x + y = m * q + r
  BY <1>1
<1>3. r \in 0..m - 1
  BY <1>1
<1> HIDE DEF q, r
<1>4. (x + y) % m = r
  BY <1>1, <1>2, <1>3, ModIs
<1> QED
  BY <1>4 DEF r

\* What a multiple adds leaves no remainder.
LEMMA ModMultiple ==
  ASSUME NEW x \in Nat, NEW y \in Nat, NEW m \in Nat \ {0}, x % m = 0, y % m = 0
  PROVE  (x + y) % m = 0
<1> DEFINE q == x \div m
           p == y \div m
           s == q + p
<1>1. q \in Int /\ x = m * q
  OBVIOUS
<1>2. p \in Int /\ y = m * p
  OBVIOUS
<1>3. s \in Int /\ x + y = m * s
  BY <1>1, <1>2
<1> HIDE DEF q, p, s
<1> QED
  BY <1>3, ModZero

\* The sizes of the parts.
LEMMA Sizes ==
  /\ Unit \in Nat \ {0} /\ MaxData \in Nat \ {0} /\ Page \in Nat \ {0}
  /\ Small \in Nat \ {0} /\ Large \in Nat \ {0} /\ Word \in Nat \ {0}
  /\ BiosBase \in Nat /\ BiosSize \in Nat /\ FlashSize \in Nat
  /\ BiosBase + BiosSize <= FlashSize /\ FlashSize < Word /\ Large < Word
BY SpiAssumption DEF SpiAssumption

LEMMA SmallIsLess == Small <= Large
<1>1. SUFFICES ASSUME Large < Small PROVE FALSE
  BY Sizes
<1>2. Large % Small = Large
  BY <1>1, Sizes, ModIs, Large = Small * 0 + Large
<1> QED
  BY <1>2, Sizes, SpiAssumption DEF SpiAssumption

\* A data cycle moves something, no more than what is left, no more than FDATA
\* holds, and stays in its page.
LEMMA DataCountBounds ==
  ASSUME NEW x \in Nat, NEW c \in Nat
  PROVE  /\ DataCount(x, c) \in 0..c /\ DataCount(x, c) <= MaxData
         /\ c > 0 => DataCount(x, c) > 0
         /\ (x % Page) + DataCount(x, c) <= Page
<1>1. x % Page \in 0..Page - 1
  BY ModRange, Sizes
<1>2. NextPage(x) = x + Page - (x % Page)
  BY <1>1, Sizes DEF NextPage
<1> DEFINE inPage == IF x + c > NextPage(x) THEN NextPage(x) - x ELSE c
<1>3. /\ inPage \in 0..c /\ (c > 0 => inPage > 0)
      /\ (x % Page) + inPage <= Page
  BY <1>1, <1>2, Sizes
<1>4. DataCount(x, c) = IF inPage >= MaxData THEN MaxData
                        ELSE IF inPage >= Unit THEN inPage - (inPage % Unit) ELSE inPage
  BY DEF DataCount
<1> HIDE DEF inPage
<1>5. inPage % Unit \in 0..Unit - 1
  BY <1>3, ModRange, Sizes
<1> QED
  BY <1>1, <1>3, <1>4, <1>5, Sizes

\* The size of a cycle fits the width of ByteCount.
LEMMA CountType ==
  ASSUME NEW k, NEW x \in 0..Word - 1, NEW c \in 0..Word - 1
  PROVE  Count(k, x, c) \in 0..Word - 1
<1>1. DataCount(x, c) \in 0..c
  BY DataCountBounds, Sizes
<1>2. EraseCount(x, c) \in 0..Word - 1
  BY SmallIsLess, Sizes DEF EraseCount
<1> QED
  BY <1>1, <1>2, Sizes DEF Count
-------------------------------------------------------------------------------
(***************************************************************************)
(* Types.                                                                  *)
(***************************************************************************)
LEMMA RequestType ==
  ASSUME NEW a \in Callers, NEW r \in Requests[a] \union {NoReq}
  PROVE  /\ r.kind \in Kinds /\ r.region \in {"bios", "all", "unused"}
         /\ r.first \in 0..Word - 1 /\ r.count \in 0..Word - 1
BY Sizes, SpiAssumption DEF SpiAssumption, NoReq, Kinds

LEMMA SumType ==
  ASSUME NEW x \in 0..Word - 1, NEW y \in 0..Word - 1
  PROVE  Add(x, y) \in 0..Word - 1 /\ Sub(x, y) \in 0..Word - 1
BY Sizes DEF Add, Sub

CycleKinds == (Kinds \ {"erase"}) \union {"erase4K", "erase64K"}
Statuses   == {"SUCCESS", "ACCESS_DENIED", "DEVICE_ERROR", "INVALID_PARAMETER"}
DataType   == [of : Callers \union {"flash"}, from : Nat]

HwType == [scip : BOOLEAN, fcerr : BOOLEAN, kind : CycleKinds, by : Callers, accepted : BOOLEAN,
           faddr : 0..Word - 1, fdbc : 0..MaxData - 1, fdata : DataType]

LEMMA InitType == Init => TypeOK
<1> SUFFICES ASSUME Init PROVE TypeOK
  OBVIOUS
<1>1. lock \in Platforms /\ lock.gbl \in BOOLEAN
  BY SpiAssumption DEF SpiAssumption, Init
<1>2. hw \in HwType
  BY Sizes DEF Init, NoCycle, HwType, CycleKinds, DataType, Callers, Kinds
<1>3. MaxCalls \in Nat
  BY SpiAssumption DEF SpiAssumption
<1>4. 0 \in 0..Word - 1
  BY Sizes
<1>5. /\ addr \in [Callers -> 0..Word - 1] /\ left \in [Callers -> 0..Word - 1]
      /\ n \in [Callers -> 0..Word - 1] /\ buf \in [Callers -> Nat]
  BY <1>4 DEF Init
<1>6. /\ pc \in [Callers -> Positions] /\ status \in [Callers -> Statuses]
      /\ smiSave \in [Callers -> BOOLEAN] /\ srcSave \in [Callers -> BOOLEAN]
      /\ DOMAIN req = Callers /\ \A a \in Callers : req[a] \in Requests[a] \union {NoReq}
  BY DEF Init, Positions, Statuses
<1>7. {gbl, wpd, cache, bioswr} \subseteq BOOLEAN
  BY <1>1 DEF Init
<1>8. calls \in 0..MaxCalls
  BY <1>3 DEF Init
<1> QED
  BY <1>1, <1>2, <1>5, <1>6, <1>7, <1>8 DEF TypeOK, HwType, CycleKinds, DataType, Statuses

LEMMA ClearedType == ASSUME TypeOK, hw' = hw \/ FlagsCleared PROVE hw' \in HwType
<1>1. hw \in HwType
  BY DEF TypeOK, HwType, CycleKinds, DataType
<1>2. CASE FlagsCleared
  BY <1>1, <1>2 DEF FlagsCleared, HwType
<1> QED
  BY <1>1, <1>2

LEMMA NextType == TypeOK /\ [Next]_vars => TypeOK'
<1> SUFFICES ASSUME TypeOK, [Next]_vars PROVE TypeOK'
  OBVIOUS
<1> USE DEF TypeOK
<1>1. ASSUME NEW a \in Callers, NEW r \in Requests[a], Begin(a, r) PROVE TypeOK'
  BY <1>1, SpiAssumption DEF SpiAssumption, Begin, Goto, platform, transfer, Positions
<1>2. ASSUME NEW a \in Callers, MaskSmi(a) PROVE TypeOK'
  BY <1>2 DEF MaskSmi, Goto, transfer, Positions
<1>3. ASSUME NEW a \in Callers, Unprotect(a) PROVE TypeOK'
  <2>1. pc' \in [Callers -> Positions] /\ status' \in [Callers -> Statuses]
    BY <1>3 DEF Unprotect, Fail, Goto, Positions, Statuses
  <2>2. {wpd', cache', bioswr'} \subseteq BOOLEAN
    <3>1. lock.le \in BOOLEAN
      BY SpiAssumption DEF SpiAssumption
    <3> QED
      BY <1>3, <3>1 DEF Unprotect
  <2> QED
    BY <1>3, <2>1, <2>2 DEF Unprotect, transfer, saves, Statuses
<1>4. ASSUME NEW a \in Callers, Check(a) PROVE TypeOK'
  <2>1. hw' \in HwType
    <3>1. hw' = hw \/ FlagsCleared
      BY <1>4 DEF Check, GiveUp
    <3> HIDE DEF TypeOK
    <3> QED
      BY <3>1, ClearedType
  <2>2. req[a].first \in 0..Word - 1 /\ req[a].count \in 0..Word - 1
    BY RequestType
  <2>3. Base(req[a]) \in 0..Word - 1
    BY Sizes DEF Base
  <2>4. Add(Base(req[a]), req[a].first) \in 0..Word - 1
    BY <2>2, <2>3, SumType
  <2>5. Verdict(req[a]) \in Statuses
    BY DEF Verdict, Statuses
  <2>6. pc' \in [Callers -> Positions] /\ status' \in [Callers -> Statuses]
    BY <1>4, <2>5 DEF Check, GiveUp, Fail, Goto, Positions, Statuses
  <2>7. /\ addr' \in [Callers -> 0..Word - 1] /\ left' \in [Callers -> 0..Word - 1]
        /\ buf' \in [Callers -> Nat] /\ n' = n
    BY <1>4, <2>2, <2>4 DEF Check, transfer
  <2> QED
    BY <1>4, <2>1, <2>6, <2>7
       DEF Check, platform, saves, HwType, CycleKinds, DataType, Statuses
<1>5. ASSUME NEW a \in Callers, LoadCycle(a) PROVE TypeOK'
  <2>1. Count(req[a].kind, addr[a], left[a]) \in 0..Word - 1
    BY CountType
  <2>2. hw' \in HwType
    BY <1>5 DEF LoadCycle, HwType, CycleKinds, DataType
  <2> QED
    BY <1>5, <2>1, <2>2
       DEF LoadCycle, Goto, Positions, platform, saves, HwType, CycleKinds, DataType
<1>6. ASSUME NEW a \in Callers, StartCycle(a) PROVE TypeOK'
  <2>0. n[a] - 1 \in Int
    BY Sizes
  <2>1. (n[a] - 1) % MaxData \in 0..MaxData - 1
    BY <2>0, ModRange, Sizes
  <2>2. Cycle(req[a].kind, n[a]) \in CycleKinds
    BY RequestType DEF Cycle, CycleKinds
  <2>3. hw' \in HwType
    BY <1>6, <2>1, <2>2 DEF StartCycle, HwType, CycleKinds, DataType, Changes
  <2> QED
    BY <1>6, <2>3
       DEF StartCycle, Goto, Positions, platform, transfer, saves, HwType, CycleKinds, DataType
<1>7. ASSUME NEW a \in Callers, FinishCycle(a) PROVE TypeOK'
  <2>1. hw' \in HwType
    <3>1. hw' = hw \/ FlagsCleared
      BY <1>7 DEF FinishCycle, GiveUp
    <3> HIDE DEF TypeOK
    <3> QED
      BY <3>1, ClearedType
  <2>2. Add(addr[a], n[a]) \in 0..Word - 1 /\ Sub(left[a], n[a]) \in 0..Word - 1
    BY SumType
  <2>3. pc' \in [Callers -> Positions] /\ status' \in [Callers -> Statuses]
    BY <1>7 DEF FinishCycle, GiveUp, Fail, Goto, Positions, Statuses
  <2>4. /\ addr' \in [Callers -> 0..Word - 1] /\ left' \in [Callers -> 0..Word - 1]
        /\ buf' \in [Callers -> Nat]
    BY <1>7, <2>2, Sizes DEF FinishCycle
  <2> QED
    BY <1>7, <2>1, <2>3, <2>4
       DEF FinishCycle, platform, saves, HwType, CycleKinds, DataType, Statuses
<1>8. ASSUME NEW a \in Callers, Protect(a) PROVE TypeOK'
  BY <1>8 DEF Protect, Goto, transfer, saves, Positions
<1>9. ASSUME NEW a \in Callers, UnmaskSmi(a) PROVE TypeOK'
  BY <1>9 DEF UnmaskSmi, Goto, transfer, saves, Positions
<1>10. CASE PchSpiBiosWpCallback
  BY <1>10 DEF PchSpiBiosWpCallback, transfer, saves
<1>11. ASSUME NEW ok \in BOOLEAN, EndCycle(ok) PROVE TypeOK'
  <2> DEFINE d == IF hw.kind \in {"write", "writeStatus"} \/ Erasing(hw.kind) THEN hw.fdata
                  ELSE [of |-> "flash", from |-> hw.faddr]
             e == ~(ok /\ hw.accepted)
  <2>1. hw \in HwType /\ e \in BOOLEAN
    BY DEF HwType, CycleKinds, DataType
  <2>2. d \in DataType
    BY <2>1, Sizes DEF HwType, DataType
  <2>3. hw' = [hw EXCEPT !.scip = FALSE, !.fcerr = e, !.fdata = d]
    BY <1>11 DEF EndCycle
  <2> HIDE DEF d, e
  <2>4. hw' \in HwType
    BY <2>1, <2>2, <2>3 DEF HwType
  <2> QED
    BY <1>11, <2>4 DEF EndCycle, platform, transfer, saves, HwType, CycleKinds, DataType
<1>12. CASE UNCHANGED vars
  BY <1>12 DEF vars, platform, transfer, saves
<1> QED
  BY <1>1, <1>2, <1>3, <1>4, <1>5, <1>6, <1>7, <1>8, <1>9, <1>10, <1>11, <1>12
     DEF Next, SendSpiCmd

\* Every variable of SendSpiCmd keeps its type, addresses and counts their width.
THEOREM SpiTypeCorrect == Spec => []TypeOK
<1> QED
  BY InitType, NextType, PTL DEF Spec
-------------------------------------------------------------------------------
(***************************************************************************)
(* What commands change outside the flash: the SMI enable, the write       *)
(* protection and caching.  An SMI handler may interrupt a command that    *)
(* has done so, and changes and restores them inside it.                   *)
(***************************************************************************)
Masked(a) == pc[a] \notin {"idle", "mask"}
Opened(a) == Changes(a) /\ pc[a] \in {"ready", "chunk", "go", "wait", "end"}

\* SMIs are masked, if they can be, exactly while a command is under way.
SmiInv ==
  IF lock.smiLock THEN gbl = lock.gbl
  ELSE /\ \A a \in Callers : pc[a] # "idle" => smiSave[a] = lock.gbl
       /\ pc["smm"] # "idle" => ~Masked("dxe")
       /\ gbl = IF Masked("dxe") \/ Masked("smm") THEN FALSE ELSE lock.gbl

\* Caching is off, or saved as off, only inside a command that will restore it.
CacheInv ==
  /\ cache \/ Opened("dxe") \/ Opened("smm")
  /\ Masked("smm") => srcSave["smm"] \/ Opened("dxe")
  /\ Masked("dxe") => srcSave["dxe"]

WpdInv == wpd => Opened("dxe") \/ Opened("smm")

\* With EISS no change by "dxe" gets past Unprotect; with BC.LE and an SMI that
\* cannot be masked, it is pending whenever WPD is set outside SMM.
Guarded == lock.le /\ lock.smiLock /\ lock.gbl
LockInv ==
  /\ lock.eiss => ~(Changes("dxe") /\ pc["dxe"] \in {"ready", "chunk", "go", "wait"})
  /\ Guarded /\ wpd => bioswr \/ Opened("smm")

RestoreInv == SmiInv /\ CacheInv /\ WpdInv /\ LockInv

LEMMA InitRestore == Init => RestoreInv
BY DEF Init, RestoreInv, SmiInv, CacheInv, WpdInv, LockInv, Masked, Opened, Callers

Fields == /\ lock \in [smiLock : BOOLEAN, le : BOOLEAN, eiss : BOOLEAN, gbl : BOOLEAN]
          /\ gbl \in BOOLEAN /\ wpd \in BOOLEAN /\ cache \in BOOLEAN /\ bioswr \in BOOLEAN
          /\ pc \in [Callers -> Positions]
          /\ smiSave \in [Callers -> BOOLEAN] /\ srcSave \in [Callers -> BOOLEAN]
          /\ DOMAIN req = Callers

\* A command that has asked for what it needs and not yet given it back.
Within == {"ready", "chunk", "go", "wait", "end"}

\* Between Unprotect and Protect a command moves on without touching any of it.
LEMMA MovesOn ==
  ASSUME Fields, RestoreInv, NEW a \in Callers, NEW p, p \in Within, Goto(a, p),
         pc[a] \in Within \ {"end"},
         UNCHANGED <<lock, gbl, wpd, cache, bioswr, req, smiSave, srcSave>>
  PROVE  RestoreInv'
<1>1. \A c \in Callers : pc'[c] = IF c = a THEN p ELSE pc[c]
  BY DEF Fields, Goto
<1>2. \A c \in Callers : (pc'[c] = "idle" <=> pc[c] = "idle") /\ (Masked(c)' <=> Masked(c))
  BY <1>1 DEF Within, Masked
<1>3. \A c \in Callers : (Changes(c)' <=> Changes(c)) /\ (Opened(c)' <=> Opened(c))
  BY <1>1 DEF Within, Opened, Changes
<1>4. "dxe" \in Callers /\ "smm" \in Callers
  BY DEF Callers
<1>5. SmiInv'
  BY <1>2, <1>4 DEF RestoreInv, SmiInv
<1>6. CacheInv' /\ WpdInv'
  BY <1>2, <1>3, <1>4 DEF RestoreInv, CacheInv, WpdInv
<1>7. pc'["dxe"] \in {"ready", "chunk", "go", "wait"}
        => pc["dxe"] \in {"ready", "chunk", "go", "wait"}
  BY <1>1, <1>4 DEF Within
<1>8. LockInv'
  BY <1>3, <1>4, <1>7 DEF RestoreInv, LockInv, Guarded
<1> QED
  BY <1>5, <1>6, <1>8 DEF RestoreInv

LEMMA NextRestore == TypeOK /\ RestoreInv /\ [Next]_vars => RestoreInv'
<1> SUFFICES ASSUME TypeOK, RestoreInv, [Next]_vars PROVE RestoreInv'
  OBVIOUS
<1>0. Fields
  BY SpiAssumption DEF SpiAssumption, TypeOK, Fields
<1>1. ASSUME NEW a \in Callers, Check(a) PROVE RestoreInv'
  <2>1. /\ pc[a] = "ready"
        /\ UNCHANGED <<lock, gbl, wpd, cache, bioswr, req, smiSave, srcSave>>
    BY <1>1 DEF Check, platform, saves
  <2>2. Goto(a, "end") \/ Goto(a, "chunk")
    BY <1>1 DEF Check, GiveUp, Fail
  <2> QED
    BY <1>0, <2>1, <2>2, MovesOn DEF Within
<1>2. ASSUME NEW a \in Callers, LoadCycle(a) PROVE RestoreInv'
  <2>1. /\ pc[a] = "chunk"
        /\ UNCHANGED <<lock, gbl, wpd, cache, bioswr, req, smiSave, srcSave>>
    BY <1>2 DEF LoadCycle, platform, saves
  <2>2. Goto(a, "go")
    BY <1>2 DEF LoadCycle
  <2> QED
    BY <1>0, <2>1, <2>2, MovesOn DEF Within
<1>3. ASSUME NEW a \in Callers, StartCycle(a) PROVE RestoreInv'
  <2>1. /\ pc[a] = "go"
        /\ UNCHANGED <<lock, gbl, wpd, cache, bioswr, req, smiSave, srcSave>>
    BY <1>3 DEF StartCycle, platform, saves
  <2>2. Goto(a, "wait")
    BY <1>3 DEF StartCycle
  <2> QED
    BY <1>0, <2>1, <2>2, MovesOn DEF Within
<1>4. ASSUME NEW a \in Callers, FinishCycle(a) PROVE RestoreInv'
  <2>1. /\ pc[a] = "wait"
        /\ UNCHANGED <<lock, gbl, wpd, cache, bioswr, req, smiSave, srcSave>>
    BY <1>4 DEF FinishCycle, platform, saves
  <2>2. Goto(a, "end") \/ Goto(a, "chunk")
    BY <1>4 DEF FinishCycle, GiveUp, Fail
  <2> QED
    BY <1>0, <2>1, <2>2, MovesOn DEF Within
<1> USE DEF Fields, RestoreInv, SmiInv, CacheInv, WpdInv, LockInv, Guarded, Masked, Opened, Changes,
            Callers, Runs, SmiTaken
<1>5. ASSUME NEW a \in Callers, NEW r \in Requests[a], Begin(a, r) PROVE RestoreInv'
  BY <1>0, <1>5 DEF Begin, Goto, platform, transfer
<1>6. ASSUME NEW a \in Callers, MaskSmi(a) PROVE RestoreInv'
  BY <1>0, <1>6 DEF MaskSmi, Goto
<1>7. ASSUME NEW a \in Callers, Unprotect(a) PROVE RestoreInv'
  <2>1. CASE Changes(a) /\ ~(a = "dxe" /\ lock.eiss)
    <3>1. CASE a = "dxe"
      BY <1>0, <1>7, <2>1, <3>1 DEF Unprotect, Fail, Goto, saves
    <3>2. CASE a = "smm"
      BY <1>0, <1>7, <2>1, <3>2 DEF Unprotect, Fail, Goto, saves
    <3> QED
      BY <3>1, <3>2
  <2>2. CASE Changes(a) /\ a = "dxe" /\ lock.eiss
    <3>1. /\ pc[a] = "protect" /\ pc' = [pc EXCEPT ![a] = "end"] /\ pc["smm"] = "idle"
          /\ UNCHANGED <<lock, gbl, wpd, cache, bioswr, req, smiSave, srcSave>>
      BY <1>7, <2>2 DEF Unprotect, Fail, Goto, saves
    <3> QED
      BY <1>0, <2>2, <3>1
  <2>3. CASE ~Changes(a)
    <3>1. /\ pc[a] = "protect" /\ pc' = [pc EXCEPT ![a] = "ready"]
          /\ a = "dxe" => pc["smm"] = "idle"
          /\ UNCHANGED <<lock, gbl, wpd, cache, bioswr, req, smiSave, srcSave>>
      BY <1>7, <2>3 DEF Unprotect, Fail, Goto, saves
    <3> QED
      BY <1>0, <2>3, <3>1
  <2> QED
    BY <2>1, <2>2, <2>3
<1>8. ASSUME NEW a \in Callers, Protect(a) PROVE RestoreInv'
  BY <1>0, <1>8 DEF Protect, Goto, saves
<1>9. ASSUME NEW a \in Callers, UnmaskSmi(a) PROVE RestoreInv'
  BY <1>0, <1>9 DEF UnmaskSmi, Goto, saves
<1>10. CASE PchSpiBiosWpCallback
  BY <1>0, <1>10 DEF PchSpiBiosWpCallback, saves
<1>11. ASSUME NEW ok \in BOOLEAN, EndCycle(ok) PROVE RestoreInv'
  <2>1. UNCHANGED <<lock, gbl, wpd, cache, bioswr, req, smiSave, srcSave, pc>>
    BY <1>11 DEF EndCycle, platform, saves
  <2> QED
    BY <2>1
<1>12. CASE UNCHANGED vars
  BY <1>0, <1>12 DEF vars, platform, saves
<1> QED
  BY <1>1, <1>2, <1>3, <1>4, <1>5, <1>6, <1>7, <1>8, <1>9, <1>10, <1>11, <1>12
     DEF Next, SendSpiCmd

THEOREM RestoreInvariant == Spec => [](TypeOK /\ RestoreInv)
<1>1. Init => TypeOK /\ RestoreInv
  BY InitType, InitRestore
<1>2. TypeOK /\ RestoreInv /\ [Next]_vars => (TypeOK /\ RestoreInv)'
  BY NextType, NextRestore
<1> QED
  BY <1>1, <1>2, PTL DEF Spec

\* Protection, caching and the SMI enable are restored whenever no command is under
\* way, however the commands returned and however they interrupted each other.
THEOREM AllRestored == Spec => []Restored
<1>1. TypeOK /\ RestoreInv => Restored
  BY DEF TypeOK, RestoreInv, SmiInv, CacheInv, WpdInv, Masked, Opened, Restored, Callers
<1> QED
  BY <1>1, RestoreInvariant, PTL
-------------------------------------------------------------------------------
(***************************************************************************)
(* The BIOS region is closed to "dxe".  A cycle of "dxe" that is still     *)
(* running when its command is over is over when its next one begins, so   *)
(* that FADDR does not change under it.                                    *)
(***************************************************************************)
Loading(a) == pc[a] \in {"chunk", "go"}
ClosedInv ==
  /\ Loading("smm") => ~hw.scip
  /\ Loading("dxe") => ~(hw.scip /\ hw.by = "dxe")
  /\ LockedOut

LEMMA NextClosed == TypeOK /\ RestoreInv /\ ClosedInv /\ [Next]_vars => ClosedInv'
<1> SUFFICES ASSUME TypeOK, RestoreInv, ClosedInv, [Next]_vars PROVE ClosedInv'
  OBVIOUS
<1> DEFINE Parts == /\ lock \in [smiLock : BOOLEAN, le : BOOLEAN, eiss : BOOLEAN, gbl : BOOLEAN]
                    /\ pc \in [Callers -> Positions] /\ hw \in HwType
                    /\ SmiInv /\ WpdInv /\ LockInv
<1>0. Parts
  BY SpiAssumption DEF SpiAssumption, TypeOK, RestoreInv, HwType, CycleKinds, DataType
<1> USE DEF ClosedInv, LockedOut, Loading, Callers, Runs, SmiTaken
<1>1. ASSUME NEW a \in Callers, NEW r \in Requests[a], Begin(a, r) PROVE ClosedInv'
  BY <1>0, <1>1 DEF Begin, Goto, platform
<1>2. ASSUME NEW a \in Callers, MaskSmi(a) PROVE ClosedInv'
  BY <1>0, <1>2 DEF MaskSmi, Goto
<1>3. ASSUME NEW a \in Callers, Unprotect(a) PROVE ClosedInv'
  BY <1>0, <1>3 DEF Unprotect, Fail, Goto
<1>4. ASSUME NEW a \in Callers, Check(a) PROVE ClosedInv'
  <2>1. /\ UNCHANGED lock
        /\ \/ hw' = hw /\ pc' = [pc EXCEPT ![a] = "end"]
           \/ ~hw.scip /\ hw' = [hw EXCEPT !.fcerr = FALSE] /\ \E p \in Positions : pc' = [pc EXCEPT ![a] = p]
    BY <1>4 DEF Check, GiveUp, CycleOver, FlagsCleared, Fail, Goto, platform, Positions
  <2> QED
    BY <1>0, <2>1 DEF HwType
<1>5. ASSUME NEW a \in Callers, LoadCycle(a) PROVE ClosedInv'
  <2>1. /\ UNCHANGED lock /\ pc[a] = "chunk" /\ pc' = [pc EXCEPT ![a] = "go"]
        /\ hw'.scip = hw.scip /\ hw'.by = hw.by /\ hw'.kind = hw.kind /\ hw'.accepted = hw.accepted
        /\ a = "dxe" => pc["smm"] = "idle"
    BY <1>0, <1>5 DEF LoadCycle, Goto, platform, HwType
  <2>2. CASE a = "dxe"
    BY <1>0, <2>1, <2>2
  <2>3. CASE a = "smm"
    BY <1>0, <2>1, <2>3
  <2> QED
    BY <2>2, <2>3
<1>6. ASSUME NEW a \in Callers, StartCycle(a) PROVE ClosedInv'
  <2>1. /\ UNCHANGED <<lock>> /\ pc[a] = "go" /\ pc' = [pc EXCEPT ![a] = "wait"]
        /\ hw'.by = a /\ hw'.kind = Cycle(req[a].kind, n[a]) /\ hw'.faddr = hw.faddr
        /\ hw'.accepted = (~Changes(a) \/ wpd \/ ~InBios(hw.faddr))
        /\ a = "dxe" => pc["smm"] = "idle" /\ ~(bioswr /\ gbl)
    BY <1>0, <1>6 DEF StartCycle, Goto, platform, HwType
  <2>2. CASE a = "dxe"
    <3>0. req[a].kind \in Kinds
      BY RequestType DEF TypeOK
    <3>1. Modifies(hw'.kind) => Changes(a)
      BY <2>1, <3>0 DEF Modifies, Cycle, Changes, Kinds
    <3>2. Changes(a) /\ (lock.eiss \/ Guarded) => ~wpd
      BY <1>0, <2>1, <2>2 DEF LockInv, Guarded, SmiInv, Opened
    <3> QED
      BY <1>0, <2>1, <2>2, <3>1, <3>2 DEF Guarded
  <2>3. CASE a = "smm"
    BY <1>0, <2>1, <2>3
  <2> QED
    BY <2>2, <2>3
<1>7. ASSUME NEW a \in Callers, FinishCycle(a) PROVE ClosedInv'
  <2>1. /\ UNCHANGED lock
        /\ \/ hw' = hw /\ pc' = [pc EXCEPT ![a] = "end"]
           \/ ~hw.scip /\ hw' = [hw EXCEPT !.fcerr = FALSE] /\ \E p \in Positions : pc' = [pc EXCEPT ![a] = p]
    BY <1>7 DEF FinishCycle, GiveUp, CycleOver, FlagsCleared, Fail, Goto, platform, Positions
  <2> QED
    BY <1>0, <2>1 DEF HwType
<1>8. ASSUME NEW a \in Callers, Protect(a) PROVE ClosedInv'
  BY <1>0, <1>8 DEF Protect, Goto
<1>9. ASSUME NEW a \in Callers, UnmaskSmi(a) PROVE ClosedInv'
  BY <1>0, <1>9 DEF UnmaskSmi, Goto
<1>10. CASE PchSpiBiosWpCallback
  BY <1>0, <1>10 DEF PchSpiBiosWpCallback
<1>11. ASSUME NEW ok \in BOOLEAN, EndCycle(ok) PROVE ClosedInv'
  BY <1>0, <1>11 DEF EndCycle, platform, HwType
<1>12. CASE UNCHANGED vars
  BY <1>0, <1>12 DEF vars, platform
<1> QED
  BY <1>1, <1>2, <1>3, <1>4, <1>5, <1>6, <1>7, <1>8, <1>9, <1>10, <1>11, <1>12
     DEF Next, SendSpiCmd

\* Outside SMM nothing changes the BIOS region once it may only be updated in SMM,
\* by EISS or by an SMI on WPD that cannot be masked.
THEOREM BiosLockedOut == Spec => []LockedOut
<1>1. Init => ClosedInv
  BY DEF Init, ClosedInv, LockedOut, Loading, NoCycle, Callers
<1>2. TypeOK /\ RestoreInv /\ ClosedInv /\ [Next]_vars => ClosedInv'
  BY NextClosed
<1>3. ClosedInv => LockedOut
  BY DEF ClosedInv
<1> QED
  BY <1>1, <1>2, <1>3, RestoreInvariant, PTL DEF Spec
-------------------------------------------------------------------------------
(***************************************************************************)
(* What a command moves.  Careful(a): the command asks for something that  *)
(* can be had, and SMI handlers are kept out.                              *)
(***************************************************************************)
Careful(a) == Sane(req[a]) /\ (a = "smm" \/ ~lock.smiLock)
Place(a)   == Base(req[a]) + req[a].first
Bytes(p, b, k) == {<<p + i, b + i>> : i \in 0..k - 1}
Moved(a, k) == IF req[a].kind = "writeStatus" THEN {} ELSE Bytes(Place(a), 0, k)

\* The bytes of one more cycle.
LEMMA MoreBytes ==
  ASSUME NEW p \in Nat, NEW b \in Nat, NEW k \in Nat
  PROVE  Bytes(p, 0, b) \union Bytes(p + b, b, k) = Bytes(p, 0, b + k)
<1>1. ASSUME NEW i \in 0..(b + k) - 1
      PROVE  <<p + i, 0 + i>> \in Bytes(p, 0, b) \union Bytes(p + b, b, k)
  <2>1. CASE i < b
    BY <2>1 DEF Bytes
  <2>2. CASE i >= b
    <3>1. i - b \in 0..k - 1 /\ p + i = (p + b) + (i - b) /\ 0 + i = b + (i - b)
      BY <2>2
    <3> QED
      BY <3>1 DEF Bytes
  <2> QED
    BY <2>1, <2>2
<1>2. ASSUME NEW i \in 0..b - 1 PROVE <<p + i, 0 + i>> \in Bytes(p, 0, b + k)
  BY DEF Bytes
<1>3. ASSUME NEW i \in 0..k - 1 PROVE <<(p + b) + i, b + i>> \in Bytes(p, 0, b + k)
  <2>1. b + i \in 0..(b + k) - 1 /\ (p + b) + i = p + (b + i) /\ b + i = 0 + (b + i)
    OBVIOUS
  <2> QED
    BY <2>1 DEF Bytes
<1> QED
  BY <1>1, <1>2, <1>3 DEF Bytes

LEMMA FewerBytes ==
  ASSUME NEW p \in Nat, NEW j \in Nat, NEW k \in Nat, j <= k
  PROVE  Bytes(p, 0, j) \subseteq Bytes(p, 0, k)
BY DEF Bytes

\* A request that passes the checks lies in the flash.
LEMMA InFlash ==
  ASSUME NEW a \in Callers, NEW r \in Requests[a], Sane(r), Verdict(r) = "SUCCESS"
  PROVE  /\ Base(r) \in Nat /\ Base(r) + r.first + r.count < Word
         /\ Add(Base(r), r.first) = Base(r) + r.first
         /\ r.kind = "erase" => r.count % Small = 0 /\ (Base(r) + r.first) % Small = 0
<1>1. r.first \in Nat /\ r.count \in Nat /\ r.region \in {"bios", "all", "unused"}
  BY RequestType, Sizes
<1>2. Add(r.first, r.count) = r.first + r.count
  BY <1>1 DEF Sane, Add
<1>3. r.region # "unused" /\ ~(Add(r.first, r.count) > Size(r))
  BY DEF Verdict
<1>4. Base(r) \in Nat /\ Size(r) \in Nat /\ Base(r) + Size(r) <= FlashSize
  BY Sizes DEF Base, Size
<1>5. Base(r) + r.first + r.count < Word
  BY <1>1, <1>2, <1>3, <1>4, Sizes
<1>6. Add(Base(r), r.first) = Base(r) + r.first
  BY <1>1, <1>4, <1>5, Sizes DEF Add
<1>7. r.kind = "erase" => r.count % Small = 0 /\ Add(Base(r), r.first) % Small = 0
  BY <1>3 DEF Verdict
<1> QED
  BY <1>4, <1>5, <1>6, <1>7

\* Taking a multiple away leaves no remainder either.
LEMMA ModDifference ==
  ASSUME NEW x \in Nat, NEW y \in Nat, NEW m \in Nat \ {0}, x % m = 0, y % m = 0
  PROVE  (x - y) % m = 0
<1> DEFINE q == x \div m
           p == y \div m
           s == q - p
<1>1. q \in Int /\ x = m * q
  OBVIOUS
<1>2. p \in Int /\ y = m * p
  OBVIOUS
<1>3. s \in Int /\ x - y = m * s
  BY <1>1, <1>2
<1> HIDE DEF q, p, s
<1> QED
  BY <1>3, ModZero

\* An erase cycle covers whole blocks of what is left.
LEMMA EraseBounds ==
  ASSUME NEW x \in Nat, NEW c \in Nat \ {0}, x % Small = 0, c % Small = 0
  PROVE  LET e == EraseCount(x, c)
         IN  /\ e \in {Small, Large} /\ e \in 1..c /\ x % e = 0
             /\ (x + e) % Small = 0 /\ (c - e) % Small = 0
             /\ e # Small => Component(x) \in Erases64K
<1> DEFINE e == EraseCount(x, c)
<1>1. e \in {Small, Large} /\ x % e = 0 /\ (e # Small => Component(x) \in Erases64K /\ c >= Large)
  BY DEF EraseCount
<1>2. Small <= c
  <2>1. SUFFICES ASSUME c < Small PROVE FALSE
    BY Sizes
  <2>2. c % Small = c
    BY <2>1, Sizes, ModIs, c = Small * 0 + c
  <2> QED
    BY <2>2
<1>3. Small % Small = 0
  BY Sizes, ModZero, Small = Small * 1
<1>4. Large % Small = 0
  BY SpiAssumption DEF SpiAssumption
<1>5. e \in Nat /\ e % Small = 0
  BY <1>1, <1>3, <1>4, Sizes
<1>6. e \in 1..c
  BY <1>1, <1>2, Sizes
<1> HIDE DEF e
<1>7. (x + e) % Small = 0
  BY <1>5, Sizes, ModMultiple
<1>8. (c - e) % Small = 0
  BY <1>5, <1>6, Sizes, ModDifference
<1> QED
  BY <1>1, <1>6, <1>7, <1>8 DEF e

\* Where a command is, between its cycles: what is left begins where what was moved
\* ends, and is made of whole blocks when it is to be erased.
Position(a) ==
  LET r == req[a] IN
  /\ r \in Requests[a] /\ Verdict(r) = "SUCCESS"
  /\ buf[a] < r.count /\ addr[a] = Place(a) + buf[a] /\ left[a] = r.count - buf[a]
  /\ r.kind = "erase" => addr[a] % Small = 0 /\ left[a] % Small = 0
  /\ r.kind \in {"jedec", "readStatus", "writeStatus"} => left[a] <= MaxData

\* The next cycle.
Sized(a) ==
  /\ n[a] \in 1..left[a]
  /\ IF req[a].kind = "erase"
     THEN /\ n[a] \in {Small, Large} /\ addr[a] % n[a] = 0
          /\ (addr[a] + n[a]) % Small = 0 /\ (left[a] - n[a]) % Small = 0
          /\ n[a] # Small => Component(addr[a]) \in Erases64K
     ELSE /\ n[a] <= MaxData
          /\ req[a].kind = "write" => (addr[a] % Page) + n[a] <= Page

LEMMA CycleIsSized ==
  ASSUME TypeOK, NEW a \in Callers, Position(a), n[a] = Count(req[a].kind, addr[a], left[a])
  PROVE  Sized(a)
<1> DEFINE r == req[a]
<1>1. r.kind \in Kinds /\ r.count \in Nat
  BY RequestType, Sizes DEF TypeOK
<1>2. addr[a] \in Nat /\ left[a] \in Nat \ {0} /\ buf[a] \in Nat
  BY <1>1, Sizes DEF TypeOK, Position
<1>3. CASE r.kind = "erase"
  <2>1. n[a] = EraseCount(addr[a], left[a])
    BY <1>3 DEF Count
  <2>2. addr[a] % Small = 0 /\ left[a] % Small = 0
    BY <1>3 DEF Position
  <2> QED
    BY <1>2, <1>3, <2>1, <2>2, EraseBounds DEF Sized
<1>4. CASE r.kind \in {"read", "write", "sfdp"}
  <2>1. n[a] = DataCount(addr[a], left[a])
    BY <1>4 DEF Count
  <2> QED
    BY <1>2, <1>4, <2>1, DataCountBounds, Sizes DEF Sized
<1>5. CASE r.kind \in {"jedec", "readStatus", "writeStatus"}
  <2>1. n[a] = left[a] /\ left[a] <= MaxData
    BY <1>5 DEF Count, Position
  <2> QED
    BY <1>2, <1>5, <2>1 DEF Sized
<1> QED
  BY <1>1, <1>3, <1>4, <1>5 DEF Kinds

\* What the controller has been told when the cycle begins.
Loaded(a) ==
  /\ n[a] = Count(req[a].kind, addr[a], left[a]) /\ hw.faddr = addr[a]
  /\ req[a].kind = "write" => hw.fdata = [of |-> a, from |-> buf[a]]

Started(a) ==
  hw.by = a /\ hw.kind = Cycle(req[a].kind, n[a]) /\ hw.fdbc = (n[a] - 1) % MaxData

\* A cycle that changes the flash changes what it was sized for, and nothing else.
LEMMA EffectIsSized ==
  ASSUME TypeOK, NEW a \in Callers, Sane(req[a]), Position(a), Loaded(a), Started(a)
  PROVE  Effect = IF Changes(a) THEN Bytes(addr[a], buf[a], n[a]) ELSE {}
<1> DEFINE r == req[a]
           x == addr[a]
<1>1. Sized(a)
  BY CycleIsSized DEF Loaded
<1>2. r.kind \in Kinds /\ n[a] \in Nat \ {0} /\ x \in Nat /\ buf[a] \in Nat
  BY <1>1, RequestType, Sizes DEF TypeOK, Sized
<1>3. CASE r.kind = "write"
  <2>0. x % Page \in 0..Page - 1
    <3>1. x \in Int /\ Page \in Nat \ {0}
      BY <1>2, Sizes
    <3> HIDE DEF x
    <3> QED
      BY <3>1, ModRange
  <2>1. n[a] <= MaxData /\ (x % Page) + n[a] <= Page
    BY <1>1, <1>3 DEF Sized
  <2>2. hw.fdbc = n[a] - 1
    <3>1. n[a] - 1 \in 0..MaxData - 1 /\ n[a] - 1 = MaxData * 0 + (n[a] - 1)
      BY <1>2, <2>1, Sizes
    <3>2. (n[a] - 1) % MaxData = n[a] - 1
      BY <3>1, Sizes, ModIs
    <3> QED
      BY <3>2 DEF Started
  <2>3. \A i \in 0..n[a] - 1 : Wrapped(x, i) = x + i
    <3>1. TAKE i \in 0..n[a] - 1
    <3>2. x % Page \in 0..Page - 1
      BY <2>0
    <3>3. (x % Page) + i \in 0..Page - 1 /\ (x % Page) + i = Page * 0 + ((x % Page) + i)
      BY <1>2, <2>1, <3>2, Sizes
    <3>4. ((x % Page) + i) % Page = (x % Page) + i
      BY <3>3, Sizes, ModIs
    <3> QED
      BY <1>2, <3>2, <3>4 DEF Wrapped
  <2>4. hw.kind = "write" /\ hw.by = a /\ hw.faddr = x /\ hw.fdata = [of |-> a, from |-> buf[a]]
    BY <1>3 DEF Loaded, Started, Cycle
  <2>5. Effect = {<<Wrapped(x, i), buf[a] + i>> : i \in 0..n[a] - 1}
    <3>1. Effect = {<<Wrapped(hw.faddr, i), IF hw.fdata.of = hw.by THEN hw.fdata.from + i ELSE -1>> :
                      i \in 0..hw.fdbc}
      BY <2>4 DEF Effect, Erasing
    <3>2. hw.fdata.of = hw.by /\ hw.fdata.from = buf[a]
      BY <2>4
    <3> QED
      BY <2>2, <2>4, <3>1, <3>2
  <2>6. Effect = {<<x + i, buf[a] + i>> : i \in 0..n[a] - 1}
    BY <2>3, <2>5
  <2> QED
    BY <1>3, <2>6 DEF Changes, Bytes
<1>4. CASE r.kind = "erase"
  <2>1. n[a] \in {Small, Large} /\ x % n[a] = 0 /\ (n[a] # Small => Component(x) \in Erases64K)
    BY <1>1, <1>4 DEF Sized
  <2>2. hw.by = a /\ hw.faddr = x /\ hw.kind = IF n[a] = Small THEN "erase4K" ELSE "erase64K"
    BY <1>4 DEF Loaded, Started, Cycle
  <2>3. BlockSize(hw.kind) = n[a] /\ Erasing(hw.kind)
    BY <2>1, <2>2 DEF BlockSize, Erasing
  <2>4. Add(Base(r), r.first) = Place(a) /\ Place(a) \in Nat
    BY InFlash, RequestType DEF Position, Place
  <2>5. x = Place(a) + buf[a]
    BY DEF Position
  <2>6. \A i \in 0..n[a] - 1 : (x - 0) + i = x + i /\ (x - 0) + i - Place(a) = buf[a] + i
    BY <1>2, <2>4, <2>5
  <2>7. Effect = {<<(x - 0) + i, (x - 0) + i - Place(a)>> : i \in 0..n[a] - 1}
    BY <2>1, <2>2, <2>3, <2>4 DEF Effect
  <2>8. Effect = {<<x + i, buf[a] + i>> : i \in 0..n[a] - 1}
    BY <2>6, <2>7
  <2> QED
    BY <1>4, <2>8 DEF Changes, Bytes
<1>5. CASE r.kind \notin {"write", "erase"}
  <2>1. hw.kind \in Kinds \ {"write", "erase"}
    BY <1>2, <1>5 DEF Started, Cycle, Kinds
  <2> QED
    BY <1>5, <2>1 DEF Effect, Erasing, Changes, Kinds
<1> QED
  BY <1>3, <1>4, <1>5
-------------------------------------------------------------------------------
(***************************************************************************)
(* The invariant of a careful command, position by position.               *)
(***************************************************************************)
Before(a) == done[a] = {}

AtCycle(a) ==
  /\ Position(a)
  /\ pc[a] \in {"chunk", "go"} => ~hw.scip /\ done[a] = Moved(a, buf[a])
  /\ pc[a] \in {"go", "wait"} => Loaded(a)
  /\ pc[a] = "wait" =>
       /\ Started(a)
       /\ hw.scip \/ hw.fcerr \/ ~Changes(a) => done[a] = Moved(a, buf[a])
       /\ ~hw.scip /\ ~hw.fcerr =>
            /\ Changes(a) => done[a] = Moved(a, buf[a] + n[a])
            /\ ~Changes(a) /\ req[a].kind # "writeStatus" =>
                 hw.fdata = [of |-> "flash", from |-> addr[a]]

After(a) ==
  /\ done[a] \subseteq Moved(a, req[a].count)
  /\ pc[a] = "end" /\ status[a] = "SUCCESS" => done[a] = Moved(a, req[a].count)

CopyOK(a) ==
  /\ pc[a] # "idle" => req[a] \in Requests[a]
  /\ pc[a] \in {"mask", "protect", "ready"} => Before(a)
  /\ pc[a] \in {"chunk", "go", "wait"} => AtCycle(a)
  /\ pc[a] \in {"end", "unmask", "idle"} => After(a)

CopyInv == DOMAIN done = Callers /\ \A a \in Callers : Careful(a) => CopyOK(a)

LEMMA NothingMoved == ASSUME NEW a \in Callers PROVE Moved(a, 0) = {}
BY DEF Moved, Bytes

\* A command that stands still, while another moves, is not concerned.
LEMMA Undisturbed ==
  ASSUME NEW a \in Callers, CopyOK(a), pc[a] \in {"idle", "mask"},
         UNCHANGED <<pc[a], req[a], done[a], status[a]>>
  PROVE  CopyOK(a)'
BY DEF CopyOK, Before, After, Moved, Bytes, Place, Base

\* An SMI handler moves only while "dxe" is at rest, if that can mask SMIs, and
\* "dxe" only while no SMI handler is under way.
LEMMA OthersRest ==
  ASSUME TypeOK, RestoreInv, NEW a \in Callers, NEW b \in Callers, a # b, Careful(a),
         Runs(b), pc[b] # "idle" \/ (b = "smm" => SmiTaken)
  PROVE  pc[a] \in {"idle", "mask"}
<1>1. CASE a = "smm"
  BY <1>1 DEF Callers, Runs
<1>2. CASE a = "dxe"
  <2>1. ~lock.smiLock /\ b = "smm"
    BY <1>2 DEF Callers, Careful
  <2>2. lock.gbl \in BOOLEAN
    BY SpiAssumption DEF SpiAssumption, TypeOK
  <2> QED
    BY <1>2, <2>1, <2>2 DEF RestoreInv, SmiInv, Masked, SmiTaken
<1> QED
  BY <1>1, <1>2 DEF Callers

LEMMA OtherStep ==
  ASSUME TypeOK, RestoreInv, CopyInv, NEW a \in Callers, NEW b \in Callers, a # b, Careful(a),
         SendSpiCmd(b) \/ \E r \in Requests[b] : Begin(b, r)
  PROVE  CopyOK(a)'
<1>1. Runs(b) /\ (pc[b] # "idle" \/ (b = "smm" => SmiTaken))
  BY DEF SendSpiCmd, Begin, MaskSmi, Unprotect, Check, LoadCycle, StartCycle, FinishCycle,
         Protect, UnmaskSmi
<1>2. pc[a] \in {"idle", "mask"}
  BY <1>1, OthersRest
<1>3. /\ pc \in [Callers -> Positions] /\ status \in [Callers -> Statuses]
      /\ DOMAIN req = Callers /\ DOMAIN done = Callers
  BY DEF TypeOK, CopyInv, Statuses
<1>4. UNCHANGED <<pc[a], req[a], done[a], status[a]>>
  <2>1. CASE \E r \in Requests[b] : Begin(b, r)
    BY <1>3, <2>1 DEF Begin, Goto
  <2>2. CASE Check(b) \/ FinishCycle(b) \/ Unprotect(b)
    BY <1>3, <2>2 DEF Check, FinishCycle, Unprotect, GiveUp, Fail, Goto
  <2>3. CASE MaskSmi(b) \/ LoadCycle(b) \/ StartCycle(b) \/ Protect(b) \/ UnmaskSmi(b)
    BY <1>3, <2>3 DEF MaskSmi, LoadCycle, StartCycle, Protect, UnmaskSmi, Goto
  <2> QED
    BY <2>1, <2>2, <2>3 DEF SendSpiCmd
<1> QED
  BY <1>2, <1>4, Undisturbed DEF CopyInv

\* The steps of a careful command.
LEMMA CheckStep ==
  ASSUME TypeOK, NEW a \in Callers, Careful(a), DOMAIN done = Callers, CopyOK(a), Check(a)
  PROVE  CopyOK(a)'
<1> DEFINE r == req[a]
<1>1. r \in Requests[a] /\ done[a] = {} /\ UNCHANGED <<req, done>>
  BY DEF Check, CopyOK, Before
<1>2. CASE pc'[a] = "end"
  <2>1. status'[a] # "SUCCESS"
    BY <1>2 DEF Check, Fail, GiveUp, Goto, TypeOK
  <2>2. done'[a] = {} /\ req'[a] \in Requests[a]
    BY <1>1
  <2>3. After(a)'
    BY <2>1, <2>2 DEF After
  <2> QED
    BY <1>2, <2>2, <2>3 DEF CopyOK
<1>3. CASE pc'[a] # "end"
  <2>1. /\ ~hw.scip /\ hw' = [hw EXCEPT !.fcerr = FALSE] /\ Verdict(r) = "SUCCESS"
        /\ pc'[a] = "chunk" /\ addr'[a] = Add(Base(r), r.first) /\ left'[a] = r.count /\ buf'[a] = 0
    BY <1>3 DEF Check, GiveUp, Fail, Goto, CycleOver, FlagsCleared, TypeOK
  <2>2. /\ Base(r) \in Nat /\ Add(Base(r), r.first) = Place(a)
        /\ r.kind = "erase" => r.count % Small = 0 /\ Place(a) % Small = 0
    BY <1>1, <2>1, InFlash DEF Careful, Place
  <2>3. r.first \in Nat /\ r.count \in Nat /\ r.count > 0 /\ r.kind \in Kinds
    BY <1>1, RequestType, Sizes DEF Careful, Sane
  <2>4. Place(a) \in Nat
    BY <2>2, <2>3 DEF Place
  <2>5. Position(a)'
    BY <1>1, <2>1, <2>2, <2>3, <2>4 DEF Position, Place, Base, Verdict, Size, Careful, Sane
  <2>6. ~hw'.scip /\ Moved(a, 0)' = {}
    BY <1>1, <2>1 DEF TypeOK, Moved, Bytes
  <2>7. AtCycle(a)'
    BY <1>1, <2>1, <2>5, <2>6 DEF AtCycle
  <2> QED
    BY <1>1, <2>1, <2>7 DEF CopyOK
<1> QED
  BY <1>2, <1>3

\* Facts about a command on its cycles.
LEMMA OnCycle ==
  ASSUME TypeOK, NEW a \in Callers, Careful(a), Position(a)
  PROVE  /\ req[a] \in Requests[a] /\ req[a].kind \in Kinds /\ req[a].count \in Nat
         /\ addr[a] \in Nat /\ left[a] \in Nat \ {0} /\ buf[a] \in Nat /\ Place(a) \in Nat
         /\ buf[a] + left[a] = req[a].count /\ addr[a] = Place(a) + buf[a]
         /\ addr[a] + left[a] < Word
<1> DEFINE r == req[a]
<1>1. r \in Requests[a] /\ Sane(r) /\ Verdict(r) = "SUCCESS"
  BY DEF Position, Careful
<1>2. r.kind \in Kinds /\ r.count \in Nat /\ r.first \in Nat
  BY <1>1, RequestType, Sizes
<1>3. Base(r) \in Nat /\ Base(r) + r.first + r.count < Word
  BY <1>1, InFlash
<1>4. addr[a] \in Nat /\ buf[a] \in Nat /\ left[a] \in Nat
  BY Sizes DEF TypeOK
<1>5. Place(a) = Base(r) + r.first
  BY DEF Place
<1>6. buf[a] < r.count /\ addr[a] = Place(a) + buf[a] /\ left[a] = r.count - buf[a]
  BY DEF Position
<1> HIDE DEF r
<1>7. Place(a) \in Nat
  BY <1>2, <1>3, <1>5
<1>8. /\ left[a] \in Nat \ {0} /\ buf[a] + left[a] = r.count
      /\ addr[a] + left[a] = Base(r) + r.first + r.count
  BY <1>2, <1>3, <1>4, <1>5, <1>6
<1> QED
  BY <1>1, <1>2, <1>3, <1>4, <1>6, <1>7, <1>8 DEF r

LEMMA PositionStays ==
  ASSUME NEW a \in Callers, Position(a), UNCHANGED <<req, addr[a], left[a], buf[a]>>
  PROVE  Position(a)'
BY DEF Position, Place, Verdict, Base, Size

LEMMA LoadStep ==
  ASSUME TypeOK, NEW a \in Callers, Careful(a), CopyOK(a), LoadCycle(a)
  PROVE  CopyOK(a)'
<1> DEFINE r == req[a]
<1>1. AtCycle(a) /\ Position(a) /\ ~hw.scip /\ done[a] = Moved(a, buf[a]) /\ r \in Requests[a]
  BY DEF LoadCycle, CopyOK, AtCycle, Position
<1>2. UNCHANGED <<req, done, addr, left, buf>> /\ pc'[a] = "go"
  BY DEF LoadCycle, Goto, TypeOK
<1>3. n'[a] = Count(r.kind, addr[a], left[a])
  BY DEF LoadCycle, TypeOK
<1>4. r.kind = "write" => n'[a] > 0
  <2>1. r.kind = "write" => n'[a] = DataCount(addr[a], left[a])
    BY <1>3 DEF Count
  <2>2. addr[a] \in Nat /\ left[a] \in Nat /\ left[a] > 0
    BY <1>1, OnCycle
  <2>3. DataCount(addr[a], left[a]) > 0
    BY <2>2, DataCountBounds
  <2> QED
    BY <2>1, <2>3
<1>5. /\ hw'.faddr = addr[a] /\ ~hw'.scip
      /\ r.kind = "write" => hw'.fdata = [of |-> a, from |-> buf[a]]
  BY <1>1, <1>4 DEF LoadCycle, TypeOK
<1>6. Position(a)'
  BY <1>1, <1>2, PositionStays
<1>7. Loaded(a)'
  BY <1>2, <1>3, <1>5 DEF Loaded
<1>8. done'[a] = Moved(a, buf[a])'
  BY <1>1, <1>2 DEF Moved, Place, Base
<1>9. AtCycle(a)'
  BY <1>2, <1>5, <1>6, <1>7, <1>8 DEF AtCycle
<1> QED
  BY <1>1, <1>2, <1>9 DEF CopyOK

LEMMA StartStep ==
  ASSUME TypeOK, NEW a \in Callers, Careful(a), CopyOK(a), StartCycle(a)
  PROVE  CopyOK(a)'
<1>1. /\ AtCycle(a) /\ Position(a) /\ Loaded(a) /\ done[a] = Moved(a, buf[a])
      /\ req[a] \in Requests[a]
  BY DEF StartCycle, CopyOK, AtCycle, Position
<1>2. UNCHANGED <<req, done, addr, left, buf, n>> /\ pc'[a] = "wait"
  BY DEF StartCycle, Goto, TypeOK, transfer
<1>3. /\ hw'.scip /\ hw'.by = a /\ hw'.kind = Cycle(req[a].kind, n[a])
      /\ hw'.fdbc = (n[a] - 1) % MaxData /\ hw'.faddr = hw.faddr /\ hw'.fdata = hw.fdata
  BY DEF StartCycle, TypeOK
<1>4. Position(a)'
  BY <1>1, <1>2, PositionStays
<1>5. Loaded(a)' /\ Started(a)'
  BY <1>1, <1>2, <1>3 DEF Loaded, Started
<1>6. done'[a] = Moved(a, buf[a])'
  BY <1>1, <1>2 DEF Moved, Place, Base
<1>7. AtCycle(a)'
  BY <1>2, <1>3, <1>4, <1>5, <1>6 DEF AtCycle
<1> QED
  BY <1>1, <1>2, <1>7 DEF CopyOK
\* A failed command has moved what its finished cycles moved.
LEMMA MovedInside ==
  ASSUME TypeOK, NEW a \in Callers, Careful(a), Position(a)
  PROVE  Moved(a, buf[a]) \subseteq Moved(a, req[a].count)
<1>1. buf[a] \in Nat /\ req[a].count \in Nat /\ buf[a] <= req[a].count /\ Place(a) \in Nat
  BY OnCycle
<1> QED
  BY <1>1, FewerBytes DEF Moved

\* The bytes of the cycle that ends follow those moved before.
LEMMA OneMoreCycle ==
  ASSUME TypeOK, NEW a \in Callers, Careful(a), Position(a), n[a] \in Nat
  PROVE  Moved(a, buf[a]) \union (IF req[a].kind = "writeStatus" THEN {}
                                  ELSE Bytes(addr[a], buf[a], n[a]))
         = Moved(a, buf[a] + n[a])
<1>1. Place(a) \in Nat /\ buf[a] \in Nat /\ addr[a] = Place(a) + buf[a]
  BY OnCycle
<1>2. Bytes(Place(a), 0, buf[a]) \union Bytes(Place(a) + buf[a], buf[a], n[a])
        = Bytes(Place(a), 0, buf[a] + n[a])
  BY <1>1, MoreBytes
<1> QED
  BY <1>1, <1>2 DEF Moved

LEMMA FinishStep ==
  ASSUME TypeOK, NEW a \in Callers, Careful(a), DOMAIN done = Callers, CopyOK(a), FinishCycle(a)
  PROVE  CopyOK(a)'
<1> DEFINE r == req[a]
<1>1. /\ AtCycle(a) /\ Position(a) /\ Loaded(a) /\ Started(a) /\ r \in Requests[a]
      /\ pc[a] = "wait" /\ req' = req /\ n' = n
  BY DEF FinishCycle, CopyOK, AtCycle, Position
<1>2. CASE hw.scip \/ hw.fcerr
  <2>1. pc'[a] = "end" /\ status'[a] = "DEVICE_ERROR" /\ done' = done
    BY <1>2 DEF FinishCycle, GiveUp, Fail, Goto, CycleOver, TypeOK
  <2>2. done[a] = Moved(a, buf[a])
    BY <1>1, <1>2 DEF AtCycle
  <2>3. done[a] \subseteq Moved(a, r.count)
    BY <1>1, <2>2, MovedInside
  <2>4. done'[a] \subseteq Moved(a, req[a].count)'
    BY <1>1, <2>1, <2>3 DEF Moved, Place, Base
  <2>5. After(a)'
    BY <2>1, <2>4 DEF After
  <2> QED
    BY <1>1, <2>1, <2>5 DEF CopyOK
<1>3. CASE ~hw.scip /\ ~hw.fcerr
  <2> DEFINE c == n[a]
  <2>1. /\ hw'.scip = FALSE /\ done'[a] = done[a] \union Fetched(a) /\ status' = status
        /\ addr'[a] = Add(addr[a], c) /\ left'[a] = Sub(left[a], c) /\ buf'[a] = buf[a] + c
        /\ pc'[a] = IF left'[a] > 0 THEN "chunk" ELSE "end"
    BY <1>3 DEF FinishCycle, GiveUp, Fail, Goto, FlagsCleared, TypeOK
  <2>2. Sized(a)
    BY <1>1, CycleIsSized DEF Loaded
  <2>3. /\ r.kind \in Kinds /\ r.count \in Nat
        /\ addr[a] \in Nat /\ left[a] \in Nat \ {0} /\ buf[a] \in Nat /\ Place(a) \in Nat
        /\ buf[a] + left[a] = r.count /\ addr[a] = Place(a) + buf[a] /\ addr[a] + left[a] < Word
    BY <1>1, OnCycle
  <2>4. c \in Nat \ {0} /\ c <= left[a]
    BY <2>2, <2>3 DEF Sized
  <2>5. addr'[a] = addr[a] + c /\ left'[a] = left[a] - c
    BY <2>1, <2>3, <2>4, Sizes DEF Add, Sub
  <2>6. done'[a] = Moved(a, buf[a] + c)
    <3>1. CASE Changes(a)
      BY <1>1, <1>3, <2>1, <3>1 DEF AtCycle, Fetched
    <3>2. CASE ~Changes(a)
      <4>1. done[a] = Moved(a, buf[a])
        BY <1>1, <3>2 DEF AtCycle
      <4>2. CASE r.kind = "writeStatus"
        BY <2>1, <4>1, <4>2 DEF Fetched, Moved
      <4>3. CASE r.kind # "writeStatus"
        <5>1. hw.fdata = [of |-> "flash", from |-> addr[a]]
          BY <1>1, <1>3, <3>2, <4>3 DEF AtCycle
        <5>2. Fetched(a) = Bytes(addr[a], buf[a], c)
          BY <3>2, <4>3, <5>1 DEF Fetched, Bytes
        <5> QED
          BY <1>1, <2>1, <2>4, <4>1, <4>3, <5>2, OneMoreCycle
      <4> QED
        BY <4>2, <4>3
    <3> QED
      BY <3>1, <3>2
  <2>7. CASE left[a] - c > 0
    <3>1. buf'[a] < r.count /\ addr'[a] = Place(a) + buf'[a] /\ left'[a] = r.count - buf'[a]
      BY <2>1, <2>3, <2>4, <2>5, <2>7
    <3>2. r.kind = "erase" => addr'[a] % Small = 0 /\ left'[a] % Small = 0
      BY <2>2, <2>5 DEF Sized
    <3>3. r.kind \in {"jedec", "readStatus", "writeStatus"} => left'[a] <= MaxData
      <4>1. r.kind \in {"jedec", "readStatus", "writeStatus"} => left[a] <= MaxData
        BY <1>1 DEF Position
      <4> QED
        BY <2>3, <2>4, <2>5, <4>1, Sizes
    <3>4. Place(a)' = Place(a) /\ Verdict(req[a])' = Verdict(req[a])
      BY <1>1 DEF Place, Base, Verdict, Size
    <3>5. Position(a)'
      BY <1>1, <3>1, <3>2, <3>3, <3>4 DEF Position
    <3>6. pc'[a] = "chunk"
      BY <2>1, <2>5, <2>7
    <3>7. done'[a] = Moved(a, buf[a])'
      BY <1>1, <2>1, <2>6 DEF Moved, Place, Base
    <3>8. AtCycle(a)'
      BY <2>1, <3>5, <3>6, <3>7 DEF AtCycle
    <3> QED
      BY <1>1, <3>6, <3>8 DEF CopyOK
  <2>8. CASE ~(left[a] - c > 0)
    <3>1. pc'[a] = "end" /\ buf[a] + c = r.count
      BY <2>1, <2>3, <2>4, <2>5, <2>8
    <3>2. done'[a] = Moved(a, req[a].count)'
      BY <1>1, <2>6, <3>1 DEF Moved, Place, Base
    <3>3. After(a)'
      BY <3>2 DEF After
    <3> QED
      BY <1>1, <3>1, <3>3 DEF CopyOK
  <2> QED
    BY <2>7, <2>8
<1> QED
  BY <1>2, <1>3 DEF TypeOK

\* The controller ends a cycle of a careful command, or another one.
LEMMA EndStep ==
  ASSUME TypeOK, NEW a \in Callers, Careful(a), DOMAIN done = Callers, CopyOK(a),
         NEW ok \in BOOLEAN, EndCycle(ok)
  PROVE  CopyOK(a)'
<1>1. /\ UNCHANGED <<pc, req, status, addr, left, buf, n>> /\ hw.scip
  BY DEF EndCycle, transfer
<1>2. CASE pc[a] # "wait"
  <2>1. done'[a] = done[a]
    BY <1>2 DEF EndCycle
  <2>2. pc[a] \notin {"chunk", "go", "wait"}
    BY <1>1, <1>2 DEF CopyOK, AtCycle
  <2>3. After(a) => After(a)'
    BY <1>1, <2>1 DEF After, Moved, Place, Base
  <2> QED
    BY <1>1, <2>1, <2>2, <2>3 DEF CopyOK, Before
<1>3. CASE pc[a] = "wait"
  <2>1. /\ AtCycle(a) /\ Position(a) /\ Loaded(a) /\ Started(a)
        /\ done[a] = Moved(a, buf[a]) /\ hw.by = a /\ req[a] \in Requests[a]
    BY <1>1, <1>3 DEF CopyOK, AtCycle, Position, Started
  <2>2. Effect = IF Changes(a) THEN Bytes(addr[a], buf[a], n[a]) ELSE {}
    BY <2>1, EffectIsSized DEF Careful
  <2>3. /\ hw'.scip = FALSE /\ hw'.fcerr = ~(ok /\ hw.accepted) /\ hw'.by = hw.by
        /\ hw'.kind = hw.kind /\ hw'.faddr = hw.faddr /\ hw'.fdbc = hw.fdbc
        /\ hw'.fdata = IF hw.kind \in {"write", "writeStatus"} \/ Erasing(hw.kind) THEN hw.fdata
                       ELSE [of |-> "flash", from |-> hw.faddr]
    BY DEF EndCycle, TypeOK
  <2>4. n[a] \in Nat
    BY Sizes DEF TypeOK
  <2>5. Position(a)'
    BY <1>1, <2>1, PositionStays
  <2>6. hw.kind = Cycle(req[a].kind, n[a]) /\ hw.faddr = addr[a]
    BY <2>1 DEF Loaded, Started
  <2>7. Loaded(a)'
    <3>1. req[a].kind = "write" => hw'.fdata = hw.fdata
      BY <2>3, <2>6 DEF Cycle
    <3> QED
      BY <1>1, <2>1, <2>3, <3>1 DEF Loaded
  <2>8. Started(a)'
    BY <1>1, <2>1, <2>3 DEF Started
  <2>9. done'[a] = IF ok /\ hw.accepted THEN done[a] \union Effect ELSE done[a]
    BY <1>3, <2>1 DEF EndCycle
  <2>10. hw'.fcerr \/ ~Changes(a) => done'[a] = Moved(a, buf[a])
    BY <2>1, <2>2, <2>3, <2>9
  <2>11. ~hw'.fcerr /\ Changes(a) => done'[a] = Moved(a, buf[a] + n[a])
    <3>1. SUFFICES ASSUME ~hw'.fcerr, Changes(a) PROVE done'[a] = Moved(a, buf[a] + n[a])
      OBVIOUS
    <3>2. done'[a] = Moved(a, buf[a]) \union Bytes(addr[a], buf[a], n[a])
      BY <2>1, <2>2, <2>3, <2>9, <3>1
    <3>3. req[a].kind # "writeStatus"
      BY <3>1 DEF Changes
    <3> QED
      BY <2>1, <2>4, <3>2, <3>3, OneMoreCycle
  <2>12. ~Changes(a) /\ req[a].kind # "writeStatus" =>
           hw'.fdata = [of |-> "flash", from |-> addr[a]]
    <3>1. req[a].kind \in Kinds
      BY <2>1, OnCycle
    <3> QED
      BY <2>3, <2>6, <3>1 DEF Cycle, Changes, Erasing, Kinds
  <2>13. /\ Moved(a, buf[a])' = Moved(a, buf[a]) /\ Changes(a)' = Changes(a)
         /\ Moved(a, buf[a] + n[a])' = Moved(a, buf[a] + n[a])
    BY <1>1 DEF Moved, Place, Base, Changes
  <2>14. AtCycle(a)'
    BY <1>1, <1>3, <2>3, <2>5, <2>7, <2>8, <2>10, <2>11, <2>12, <2>13 DEF AtCycle
  <2> QED
    BY <1>1, <1>3, <2>1, <2>14 DEF CopyOK
<1> QED
  BY <1>2, <1>3
\* The steps of a command before and after its cycles.
LEMMA EdgeStep ==
  ASSUME TypeOK, NEW a \in Callers, CopyOK(a),
         MaskSmi(a) \/ Unprotect(a) \/ Protect(a) \/ UnmaskSmi(a)
  PROVE  CopyOK(a)'
<1>1. UNCHANGED <<req, done>>
  BY DEF MaskSmi, Unprotect, Protect, UnmaskSmi
<1>2. CASE MaskSmi(a) \/ (Unprotect(a) /\ pc'[a] = "ready")
  <2>1. Before(a) /\ req[a] \in Requests[a] /\ pc'[a] \in {"protect", "ready"}
    BY <1>2 DEF MaskSmi, Unprotect, Goto, CopyOK, TypeOK
  <2> QED
    BY <1>1, <2>1 DEF CopyOK, Before
<1>3. CASE Unprotect(a) /\ pc'[a] # "ready"
  <2>1. /\ Before(a) /\ req[a] \in Requests[a] /\ pc'[a] = "end"
        /\ status'[a] = "ACCESS_DENIED"
    BY <1>3 DEF Unprotect, Fail, Goto, CopyOK, TypeOK
  <2>2. After(a)'
    BY <1>1, <2>1 DEF Before, After
  <2> QED
    BY <1>1, <2>1, <2>2 DEF CopyOK
<1>4. CASE Protect(a) \/ UnmaskSmi(a)
  <2>1. After(a) /\ req[a] \in Requests[a] /\ pc'[a] \in {"unmask", "idle"}
    BY <1>4 DEF Protect, UnmaskSmi, Goto, CopyOK, TypeOK
  <2>2. After(a)'
    BY <1>1, <2>1 DEF After, Moved, Place, Base
  <2> QED
    BY <1>1, <2>1, <2>2 DEF CopyOK
<1> QED
  BY <1>2, <1>3, <1>4

LEMMA InitCopy == Init => CopyInv
BY DEF Init, CopyInv, CopyOK, After, Callers

LEMMA NextCopy == TypeOK /\ RestoreInv /\ CopyInv /\ [Next]_vars => CopyInv'
<1> SUFFICES ASSUME TypeOK, RestoreInv, CopyInv, [Next]_vars PROVE CopyInv'
  OBVIOUS
<1>1. DOMAIN done' = Callers
  BY DEF CopyInv, Next, SendSpiCmd, Begin, MaskSmi, Unprotect, Check, LoadCycle, StartCycle,
         FinishCycle, Protect, UnmaskSmi, PchSpiBiosWpCallback, EndCycle, vars
<1>2. SUFFICES ASSUME NEW a \in Callers, Careful(a)' PROVE CopyOK(a)'
  BY <1>1 DEF CopyInv
<1>3. ASSUME NEW r \in Requests[a], Begin(a, r) PROVE CopyOK(a)'
  <2>1. pc'[a] = "mask" /\ req'[a] = r /\ done'[a] = {}
    BY <1>3 DEF Begin, Goto, TypeOK, CopyInv
  <2> QED
    BY <2>1 DEF CopyOK, Before
<1>4. ASSUME ~\E r \in Requests[a] : Begin(a, r) PROVE Careful(a)
  <2>1. lock' = lock /\ req'[a] = req[a]
    <3>1. ASSUME NEW b \in Callers, NEW r \in Requests[b], Begin(b, r)
          PROVE  lock' = lock /\ req'[a] = req[a]
      BY <1>4, <3>1 DEF Begin, platform, TypeOK
    <3>2. ASSUME NEW b \in Callers, SendSpiCmd(b) PROVE lock' = lock /\ req' = req
      BY <3>2 DEF SendSpiCmd, MaskSmi, Unprotect, Check, LoadCycle, StartCycle, FinishCycle,
              Protect, UnmaskSmi, platform
    <3> QED
      BY <3>1, <3>2 DEF Next, PchSpiBiosWpCallback, EndCycle, vars, platform
  <2> QED
    BY <1>2, <2>1 DEF Careful
<1>5. SUFFICES ASSUME Careful(a), CopyOK(a), ~\E r \in Requests[a] : Begin(a, r)
               PROVE  CopyOK(a)'
  BY <1>3, <1>4 DEF CopyInv
<1>6. ASSUME NEW b \in Callers, b # a, SendSpiCmd(b) \/ \E r \in Requests[b] : Begin(b, r)
      PROVE  CopyOK(a)'
  BY <1>5, <1>6, OtherStep
<1>7. CASE SendSpiCmd(a)
  <2>1. DOMAIN done = Callers
    BY DEF CopyInv
  <2> QED
    BY <1>5, <1>7, <2>1, EdgeStep, CheckStep, LoadStep, StartStep, FinishStep DEF SendSpiCmd
<1>8. ASSUME NEW ok \in BOOLEAN, EndCycle(ok) PROVE CopyOK(a)'
  BY <1>5, <1>8, EndStep DEF CopyInv
<1>9. CASE PchSpiBiosWpCallback \/ UNCHANGED vars
  <2>1. UNCHANGED <<hw, pc, req, status, addr, left, buf, n, done>>
    BY <1>9 DEF PchSpiBiosWpCallback, vars, transfer
  <2> QED
    BY <1>5, <2>1 DEF CopyOK, Before, AtCycle, After, Position, Loaded, Started, Moved, Place, Base,
                      Verdict, Size, Changes
<1> QED
  BY <1>5, <1>6, <1>7, <1>8, <1>9 DEF Next

LEMMA CopyCovers == TypeOK /\ CopyInv => Covered
<1> SUFFICES ASSUME TypeOK, CopyInv, NEW a \in Callers, Careful(a)
             PROVE  /\ done[a] \subseteq Wanted(req[a])
                    /\ (pc[a] = "end" /\ status[a] = "SUCCESS" /\ req[a].kind # "writeStatus")
                         => done[a] = Wanted(req[a])
  BY DEF Covered, Careful
<1> DEFINE r == req[a]
<1>1. CopyOK(a) /\ pc[a] \in Positions
  BY DEF CopyInv, TypeOK
<1>2. r.count \in Nat /\ r.first \in Nat /\ Base(r) \in Nat
  BY RequestType, Sizes DEF TypeOK, Base
<1>3. Moved(a, r.count) = IF r.kind = "writeStatus" THEN {} ELSE Wanted(r)
  <2>1. \A i \in 0..r.count - 1 : 0 + i = i
    BY <1>2
  <2>2. Bytes(Place(a), 0, r.count) = Wanted(r)
    BY <2>1 DEF Bytes, Wanted, Place
  <2> QED
    BY <2>2 DEF Moved
<1>4. CASE pc[a] \in {"mask", "protect", "ready"}
  BY <1>1, <1>4 DEF CopyOK, Before
<1>5. CASE pc[a] \in {"chunk", "go", "wait"}
  <2>1. AtCycle(a) /\ Position(a)
    BY <1>1, <1>5 DEF CopyOK, AtCycle
  <2>2. Moved(a, buf[a]) \subseteq Moved(a, r.count)
    BY <2>1, MovedInside
  <2>3. CASE done[a] = Moved(a, buf[a])
    BY <1>3, <1>5, <2>2, <2>3
  <2>4. CASE done[a] # Moved(a, buf[a])
    <3>1. pc[a] = "wait" /\ Loaded(a) /\ done[a] = Moved(a, buf[a] + n[a])
      BY <1>5, <2>1, <2>4 DEF AtCycle, TypeOK
    <3>2. Sized(a)
      BY <2>1, <3>1, CycleIsSized DEF Loaded
    <3>3. /\ buf[a] \in Nat /\ left[a] \in Nat /\ buf[a] + left[a] = r.count /\ Place(a) \in Nat
      BY <2>1, OnCycle
    <3>4. buf[a] + n[a] \in Nat /\ buf[a] + n[a] <= r.count
      BY <3>2, <3>3 DEF Sized
    <3>5. Moved(a, buf[a] + n[a]) \subseteq Moved(a, r.count)
      BY <1>2, <3>3, <3>4, FewerBytes DEF Moved
    <3> QED
      BY <1>3, <1>5, <3>1, <3>5
  <2> QED
    BY <2>3, <2>4
<1>6. CASE pc[a] \in {"end", "unmask", "idle"}
  <2>1. After(a)
    BY <1>1, <1>6 DEF CopyOK
  <2> QED
    BY <1>3, <2>1 DEF After
<1> QED
  BY <1>1, <1>4, <1>5, <1>6 DEF Positions

\* A command moves every byte between its place in the flash and its place in the
\* buffer, and no other, however it is cut into cycles, whatever fails and whoever
\* interrupts it.
THEOREM BytesCovered == Spec => []Covered
<1> QED
  BY InitCopy, NextCopy, CopyCovers, SpiTypeCorrect, RestoreInvariant, PTL DEF Spec
===============================================================================
