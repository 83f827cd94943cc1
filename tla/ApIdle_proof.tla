----------------------------- MODULE ApIdle_proof -----------------------------
(***************************************************************************)
(* Theorems about the APs between procedures, for every number of threads, *)
(* every manner, and however late an AP clears its line: stacks, buffers   *)
(* and C-states.                                                           *)
(***************************************************************************)
EXTENDS ApIdle, FiniteSetTheorems, TLAPS

USE ApIdleAssumption DEF ApIdleAssumption

(***************************************************************************)
(* The inductive invariant.                                                *)
(***************************************************************************)
Unnumbered == bsp \in {"sipi", "count"}
Unassigned == bsp \in {"sipi", "count", "detail"}
Late       == ~Unnumbered /\ counted # Aps
BringUp    == bsp \in {"sipi", "count", "detail", "poll", "wrapper"}
Relocating == bsp \in {"release", "released"}
HandedOver == bsp \in {"change", "deep", "os"}
Moving     == wakeUpBuffer = "new" /\ idle # "Hlt"

\* How far the APs can be while the BSP brings them up.
BringUpInv ==
  /\ bsp = "sipi" => \A a \in Aps : pc[a] = "off" /\ Number[a] = 0
  /\ bsp = "count" => \A a \in Aps : pc[a] \in {"start", "checkin", "first"} /\ (Number[a] = 1 => pc[a] = "first")
  /\ bsp = "detail" => \A a \in Aps : pc[a] = "first"
  /\ bsp = "poll" => \A a \in Aps : pc[a] \in {"first", "call", "DetailedMpInitialization",
                                               "counter", "zero", "assigned"}
  /\ bsp = "wrapper" => \A a \in Aps : pc[a] \in Loop \union {"counter", "zero", "assigned"}
  /\ ~BringUp => \A a \in Aps : pc[a] # "DetailedMpInitialization"
  /\ BringUp => \A s \in Stacks : line[s].BreakToRunApSignal = 0

\* Nobody is called before the APs have numbers.
FreshInv ==
  Unnumbered => \A a \in Aps : State[a] = "IDLE" /\ ~Procedure[a] /\ Number[a] \in {0, 1}

\* What the buffers say.
BufferInv ==
  /\ Unassigned => buffer["old"].ApFunction = "NULL"
  /\ bsp \in {"poll", "wrapper"} => buffer["old"].ApFunction = "DetailedMpInitialization"
  /\ buffer["old"].WakeUpApManner = IF Unassigned \/ bsp = "poll" THEN "CounterInit" ELSE idle
  /\ ~BringUp =>
       /\ buffer["old"].ApFunction = IF Moving THEN "AsmRelocateApsInMwaitLoop" ELSE "ApProcWrapper"
       /\ buffer["backup"].ApFunction = "ApProcWrapper" /\ buffer["backup"].WakeUpApManner = idle
  /\ wakeUpBuffer = "new" =>
       /\ ~BringUp /\ buffer["new"].ApFunction = "ApProcWrapper"
       /\ ~HandedOver => buffer["new"].WakeUpApManner = idle
  /\ HandedOver => wakeUpBuffer = "new"
  /\ Relocating => Moving

\* Numbers are given once, before any AP reads its own.
NumberInv ==
  /\ InitFlag <=> Unnumbered
  /\ ~Unnumbered => \A a \in Aps : Number[a] = a /\ pc[a] # "checkin"
  /\ \A a \in Aps : pc[a] \in Placed => ~Unassigned /\ stack[a] = a

\* APs are in the old buffer, or have been moved to the new one.
PlaceInv ==
  /\ wakeUpBuffer = "old" => \A a \in Aps : at[a] = "old"
  /\ \A a \in Aps : pc[a] = "AsmRelocateApsInMwaitLoop" => Moving /\ at[a] = "old"
  /\ \A a \in Aps : pc[a] = "sync" => Moving /\ at[a] = "new"

\* The APs that have not yet been through DetailedMpInitialization, and those that
\* the relocation has not yet counted.
Coming == {a \in Aps : pc[a] \in {"off", "start", "checkin", "first", "call", "DetailedMpInitialization"}}
Behind == {a \in Aps : at[a] = "old" \/ pc[a] = "sync"}

CountInv ==
  /\ mFinishedCount = IF BringUp THEN N - 1 - Cardinality(Coming) ELSE N - 1
  /\ mCpuCountSync = IF Moving THEN Cardinality(Behind) ELSE 0
  /\ ~Relocating => mCpuCountSync = 0

\* What an armed AP has read is still on its line.
SleepInv ==
  \A a \in Aps : pc[a] \in {"mwait", "asleep"} /\ armed[a]
    => cstate[a] = line[stack[a]].MwaitTargetCstate

\* All of this, when no AP is late.
Inv == BringUpInv /\ FreshInv /\ BufferInv /\ NumberInv /\ PlaceInv /\ CountInv

\* When APs are late, nobody is called.  Of the numbers it is said in which order they
\* are, and who may have them.
Rank(a) == Cardinality({b \in counted : b <= a})

LateInv ==
  /\ bsp \in {"detail", "poll", "wrapper", "ready"} /\ ~InitFlag
  /\ wakeUpBuffer = "old" /\ \A a \in Aps : at[a] = "old"
  /\ buffer["old"].ApFunction \in {"NULL", "DetailedMpInitialization", "ApProcWrapper"}
  /\ bsp = "detail" => buffer["old"].ApFunction = "NULL" /\ \A a \in Aps : pc[a] \notin Placed
  /\ \A s \in Stacks : line[s].BreakToRunApSignal = 0
  /\ \A a \in Aps : /\ ~Procedure[a] /\ State[a] = "IDLE"
                    /\ pc[a] \notin {"off", "procedure", "clear", "AsmRelocateApsInMwaitLoop", "sync"}
  /\ mFinishedCount + Cardinality(Coming) <= N - 1
  /\ \A a \in Aps : IF a \in counted THEN Number[a] = Rank(a) /\ pc[a] \notin {"start", "checkin"}
                                    ELSE Number[a] \in {0, 1}
  /\ \A a \in Aps : pc[a] \in Placed =>
       stack[a] \in IF a \in counted THEN {Number[a]} ELSE {0, 1}

Whole == SleepInv /\ IF Late THEN LateInv ELSE Inv
-------------------------------------------------------------------------------
(***************************************************************************)
(* Facts about sets of APs, lines and buffers.                             *)
(***************************************************************************)
LEMMA ApsAre ==
  /\ IsFiniteSet(Aps) /\ Cardinality(Aps) = N - 1
  /\ Aps \subseteq Stacks /\ Aps \subseteq Nat /\ 0 \in Stacks /\ N - 1 \in Stacks
<1>1. IsFiniteSet(Aps) /\ Cardinality(Aps) = N - 1
  <2>1. N - 1 \in Int /\ 1 \in Int
    OBVIOUS
  <2>2. IsFiniteSet(1..N - 1) /\ Cardinality(1..N - 1) = IF 1 > N - 1 THEN 0 ELSE (N - 1) - 1 + 1
    BY <2>1, FS_Interval
  <2> QED
    BY <2>2 DEF Aps
<1> QED
  BY <1>1 DEF Aps, Stacks

LEMMA SomeAps ==
  ASSUME NEW S \in SUBSET Aps
  PROVE  /\ IsFiniteSet(S) /\ Cardinality(S) \in 0..N - 1
         /\ Cardinality(S) = 0 => S = {}
         /\ S = {} => Cardinality(S) = 0
         /\ \A a \in S : Cardinality(S) > 0 /\ Cardinality(S \ {a}) = Cardinality(S) - 1
<1>1. IsFiniteSet(S) /\ Cardinality(S) <= N - 1
  <2>1. IsFiniteSet(Aps) /\ Cardinality(Aps) = N - 1
    BY ApsAre
  <2>2. IsFiniteSet(S) /\ Cardinality(S) <= Cardinality(Aps)
    BY <2>1, FS_Subset, Zenon
  <2> QED
    BY <2>1, <2>2
<1>2. Cardinality(S) \in Nat
  BY <1>1, FS_CardinalityType
<1>3. Cardinality(S) = 0 <=> S = {}
  BY <1>1, FS_EmptySet
<1>4. ASSUME NEW a \in S PROVE Cardinality(S \ {a}) = Cardinality(S) - 1
  BY <1>1, FS_RemoveElement
<1> QED
  BY <1>1, <1>2, <1>3, <1>4

Line     == [BreakToRunApSignal : Stacks, MwaitTargetCstate : {"unknown", "C1", "max"}]
Room     == [ApFunction : Functions, WakeUpApManner : Manners]
Bits     == [Aps -> BOOLEAN]

LEMMA SignalType ==
  ASSUME line \in [Stacks -> Line], NEW s \in Stacks, NEW v \in Stacks, Signal(s, v)
  PROVE  line' \in [Stacks -> Line] /\ armed' \in Bits
<1>1. [line[s] EXCEPT !.BreakToRunApSignal = v] \in Line
  BY DEF Line
<1> QED
  BY <1>1 DEF Signal, Store, Bits

LEMMA TargetType ==
  ASSUME line \in [Stacks -> Line], NEW s \in Stacks, NEW c \in {"C1", "max"}, TargetCstate(s, c)
  PROVE  line' \in [Stacks -> Line] /\ armed' \in Bits
<1>1. [line[s] EXCEPT !.MwaitTargetCstate = c] \in Line
  BY DEF Line
<1> QED
  BY <1>1 DEF TargetCstate, Store, Bits

LEMMA HereType ==
  ASSUME TypeOK, NEW a \in Aps
  PROVE  /\ Here(a) \in Room /\ stack[a] \in Stacks
         /\ Here(a).ApFunction # "NULL" => Here(a).ApFunction \in Placed
BY DEF TypeOK, Here, Room, Buffers, Functions, Placed

LEMMA AssignType ==
  ASSUME buffer \in [Buffers -> Room], NEW b \in Buffers, NEW f, NEW v, Assign(b, f, v),
         \/ f = "ApFunction" /\ v \in Functions
         \/ f = "WakeUpApManner" /\ v \in Manners
  PROVE  buffer' \in [Buffers -> Room]
<1>1. [buffer[b] EXCEPT ![f] = v] \in Room
  BY DEF Room
<1> QED
  BY <1>1 DEF Assign

-------------------------------------------------------------------------------
(***************************************************************************)
(* Types.                                                                  *)
(***************************************************************************)
LEMMA InitType == Init => TypeOK
<1> SUFFICES ASSUME Init PROVE TypeOK
  OBVIOUS
<1>1. Stacks \subseteq Int /\ 0 \in Stacks
  BY DEF Stacks
<1>2. line \in [Stacks -> Line]
  BY <1>1 DEF Init, Line
<1>3. buffer \in [Buffers -> Room]
  BY DEF Init, Room, Functions, Manners
<1> QED
  BY <1>1, <1>2, <1>3 DEF Init, TypeOK, Line, Room

LEMMA ApType ==
  ASSUME TypeOK, Whole, NEW a \in Aps, Ap(a) \/ Break(a)
  PROVE  TypeOK'
<1> USE DEF TypeOK
<1>0. a \in Stacks /\ 0 \in Stacks /\ stack[a] \in Stacks /\ Number[a] \in Stacks
  BY ApsAre
<1>1. CASE RendezvousFunnelProc(a)
  <2>1. Number' \in [Aps -> Stacks]
    <3>1. 1 \in Stacks
      BY DEF Stacks, Aps
    <3> QED
      BY <1>1, <3>1 DEF RendezvousFunnelProc
  <2>2. pc' \in [Aps -> Placed \union {"off", "start", "checkin", "first"}]
    BY <1>1 DEF RendezvousFunnelProc, Goto
  <2> QED
    BY <1>1, <2>1, <2>2 DEF RendezvousFunnelProc, policy, counts, data, boot, place, wait
<1>2. CASE ProgramStack(a)
  BY <1>2, <1>0 DEF ProgramStack, Goto, policy, rooms, counts, data, boot, wait, Placed
<1>3. CASE WakeUpThisAp64(a)
  <2>1. pc' \in [Aps -> Placed \union {"off", "start", "checkin", "first"}]
    BY <1>3, HereType DEF WakeUpThisAp64, Goto, Placed
  <2> QED
    BY <1>3, <2>1 DEF WakeUpThisAp64, policy, rooms, counts, data, boot, place, wait
<1>4. CASE DetailedMpInitialization(a)
  <2>1. mFinishedCount' \in Stacks
    <3>1. a \in Coming
      BY <1>4 DEF DetailedMpInitialization, Coming
    <3>2. Coming \in SUBSET Aps
      BY DEF Coming
    <3>3. Cardinality(Coming) \in 1..N - 1
      BY <3>1, <3>2, SomeAps
    <3>4. mFinishedCount \in 0..N - 1 - Cardinality(Coming)
      <4>1. CASE Late
        BY <3>3, <4>1 DEF Whole, LateInv, Stacks
      <4>2. CASE ~Late
        <5>1. BringUp
          BY <1>4, <4>2 DEF DetailedMpInitialization, Whole, Inv, BringUpInv
        <5> QED
          BY <3>3, <4>2, <5>1 DEF Whole, Inv, CountInv
      <4> QED BY <4>1, <4>2
    <3>5. mFinishedCount' = mFinishedCount + 1
      BY <1>4 DEF DetailedMpInitialization
    <3>6. \A c \in 1..N - 1 : \A m \in 0..N - 1 - c : m + 1 \in 0..N - 1
      OBVIOUS
    <3> QED
      BY <3>3, <3>4, <3>5, <3>6, Zenon DEF Stacks
  <2> QED
    BY <1>4, <2>1 DEF DetailedMpInitialization, Goto, policy, rooms, data, boot, place, wait, Placed
<1>5. CASE ApProcWrapper(a)
  <2>1. line' \in [Stacks -> Line] /\ armed' \in Bits
    BY <1>5, <1>0, SignalType DEF ApProcWrapper, Line, Bits, wait, data
  <2>2. cstate' = cstate /\ missed' = missed
    BY <1>5 DEF ApProcWrapper, Signal, Store, wait
  <2>3. pc' \in [Aps -> Placed \union {"off", "start", "checkin", "first"}]
    BY <1>5 DEF ApProcWrapper, Goto, Placed
  <2>4. /\ State' \in [Aps -> {"IDLE", "READY", "BUSY", "FINISHED"}]
        /\ Procedure' \in [Aps -> BOOLEAN]
    BY <1>5 DEF ApProcWrapper, data
  <2> QED
    BY <1>5, <2>1, <2>2, <2>3, <2>4
       DEF ApProcWrapper, policy, rooms, counts, boot, place, Line, Bits
<1>6. CASE AsmRelocateApsInMwaitLoop(a)
  <2>1. line' \in [Stacks -> Line] /\ armed' \in Bits
    BY <1>6, <1>0, SignalType DEF AsmRelocateApsInMwaitLoop, Line, Bits, wait
  <2>2. cstate' = cstate /\ missed' = missed
    BY <1>6 DEF AsmRelocateApsInMwaitLoop, Signal, Store, wait
  <2>3. mCpuCountSync' \in Stacks
    <3>1. CASE pc[a] = "sync"
      <4>0. Inv
        BY <3>1 DEF Whole, LateInv
      <4>1. Moving /\ a \in Behind /\ Behind \in SUBSET Aps
        BY <3>1, <4>0 DEF Inv, PlaceInv, Behind
      <4>2. Cardinality(Behind) \in 1..N - 1
        BY <4>1, SomeAps
      <4>3. mCpuCountSync = Cardinality(Behind)
        BY <4>0, <4>1 DEF Inv, CountInv
      <4>4. mCpuCountSync' = mCpuCountSync - 1
        BY <1>6, <3>1 DEF AsmRelocateApsInMwaitLoop
      <4>5. \A c \in 1..N - 1 : c - 1 \in 0..N - 1
        OBVIOUS
      <4> QED
        BY <4>2, <4>3, <4>4, <4>5, Zenon DEF Stacks
    <3> QED
      BY <1>6, <3>1 DEF AsmRelocateApsInMwaitLoop
  <2>4. at' \in [Aps -> {"old", "new"}] /\ pc' \in [Aps -> Placed \union {"off", "start", "checkin", "first"}]
    BY <1>6 DEF AsmRelocateApsInMwaitLoop, Goto, Placed
  <2> QED
    BY <1>6, <2>1, <2>2, <2>3, <2>4
       DEF AsmRelocateApsInMwaitLoop, policy, rooms, data, boot, Line, Bits
<1>7. CASE CheckWakeUpCounterInit64(a)
  <2>0. [BreakToRunApSignal |-> 0, MwaitTargetCstate |-> "C1"] \in Line
    BY <1>0 DEF Line
  <2>1. line' \in [Stacks -> Line]
    BY <1>7, <1>0, <2>0 DEF CheckWakeUpCounterInit64, Line
  <2>3. armed' \in Bits /\ cstate' = cstate /\ missed' = missed
    <3>1. UNCHANGED wait \/ Store(stack[a])
      BY <1>7 DEF CheckWakeUpCounterInit64
    <3>2. armed \in Bits
      BY DEF Bits
    <3>3. CASE UNCHANGED wait
      BY <3>2, <3>3 DEF wait
    <3>4. CASE Store(stack[a])
      BY <3>4 DEF Store, Bits
    <3> QED
      BY <3>1, <3>3, <3>4
  <2>2. pc' \in [Aps -> Placed \union {"off", "start", "checkin", "first"}]
    BY <1>7 DEF CheckWakeUpCounterInit64, Goto, Placed, Loop
  <2> QED
    BY <1>7, <2>1, <2>2, <2>3
       DEF CheckWakeUpCounterInit64, policy, rooms, counts, data, boot, place, Line, Bits
<1>8. CASE CheckWakeUpManner64(a)
  BY <1>8 DEF CheckWakeUpManner64, Goto, policy, rooms, counts, data, boot, wait, Placed, Loop
<1>9. CASE CheckWakeUpManner32(a)
  BY <1>9 DEF CheckWakeUpManner32, Goto, policy, rooms, counts, data, boot, place, wait, Placed, Loop
<1>10. CASE ApMwaitLoop64(a)
  <2>1. line[stack[a]].MwaitTargetCstate \in {"unknown", "C1", "max"}
    BY <1>0
  <2>2. missed' \in [Aps -> BOOLEAN]
    <3> DEFINE m == Signalled(a) \/ Here(a).WakeUpApManner # MwaitManner(a)
    <3>1. missed' = [missed EXCEPT ![a] = m] \/ missed' = missed
      BY <1>10 DEF ApMwaitLoop64, wait
    <3>2. m \in BOOLEAN
      BY Zenon
    <3> HIDE DEF m
    <3> QED
      BY <3>1, <3>2
  <2>3. pc' \in [Aps -> Placed \union {"off", "start", "checkin", "first"}]
    BY <1>10 DEF ApMwaitLoop64, Goto, Placed, Loop
  <2>4. armed' \in [Aps -> BOOLEAN] /\ cstate' \in [Aps -> {"unknown", "C1", "max"}]
    BY <1>10, <2>1 DEF ApMwaitLoop64, wait
  <2> QED
    BY <1>10, <2>2, <2>3, <2>4
       DEF ApMwaitLoop64, policy, rooms, counts, data, boot, place
<1>11. CASE Wake(a)
  BY <1>11 DEF Wake, Goto, policy, rooms, counts, data, boot, place, wait, Placed, Loop
<1>12. CASE CheckRunSignal64(a)
  BY <1>12 DEF CheckRunSignal64, Goto, Signalled, policy, rooms, counts, data, boot, Placed, Loop
<1>13. CASE Break(a)
  BY <1>13 DEF Break, Goto, policy, rooms, counts, data, boot, place, Placed, Loop
<1> QED
  BY <1>1, <1>2, <1>3, <1>4, <1>5, <1>6, <1>7, <1>8, <1>9, <1>10, <1>11, <1>12, <1>13 DEF Ap

Boot == SendSipi \/ CountApNumberAndCollectBist \/ PollForInitialization
          \/ AssignManner \/ AssignWrapper
Called(p) == WakeUpAp(p) \/ Collect(p)
Moved == ReAllocateMemoryForAP \/ Release \/ Released \/ ResetAps \/ Change

LEMMA BootType == TypeOK /\ Boot => TypeOK'
<1> SUFFICES ASSUME TypeOK, Boot PROVE TypeOK'
  OBVIOUS
<1> USE DEF TypeOK
<1>1. CASE SendSipi
  BY <1>1 DEF SendSipi, policy, rooms, counts, data, place, wait
<1>2. CASE CountApNumberAndCollectBist
  <2>0. counted' \subseteq Aps
    BY <1>2 DEF CountApNumberAndCollectBist
  <2>1. ASSUME NEW a \in Aps PROVE Cardinality({b \in counted' : b <= a}) \in Stacks
    BY <2>0, SomeAps DEF Stacks
  <2>2. Number' \in [Aps -> Stacks]
    BY <1>2, <2>1 DEF CountApNumberAndCollectBist
  <2> QED
    BY <1>2, <2>0, <2>2 DEF CountApNumberAndCollectBist, policy, counts, data, place, wait
<1>3. CASE PollForInitialization
  <2>1. buffer' \in [Buffers -> Room]
    BY <1>3, AssignType DEF PollForInitialization, Room, Functions, Buffers
  <2> QED
    BY <1>3, <2>1 DEF PollForInitialization, policy, counts, data, place, wait, Room
<1>4. CASE AssignManner
  <2>1. idle \in Manners
    BY DEF Manners
  <2>2. buffer' \in [Buffers -> Room]
    BY <1>4, <2>1, AssignType DEF AssignManner, Room, Buffers
  <2> QED
    BY <1>4, <2>2 DEF AssignManner, policy, counts, data, place, wait, Room
<1>5. CASE AssignWrapper
  <2>1. [buffer["old"] EXCEPT !.ApFunction = "ApProcWrapper"] \in Room
    BY DEF Room, Buffers, Functions
  <2>2. buffer' \in [Buffers -> Room]
    BY <1>5, <2>1 DEF AssignWrapper, Room
  <2> QED
    BY <1>5, <2>2 DEF AssignWrapper, policy, counts, data, place, wait, Room
<1> QED
  BY <1>1, <1>2, <1>3, <1>4, <1>5 DEF Boot

LEMMA CallType ==
  TypeOK /\ (WakeUpStores \/ \E p \in Aps : Called(p)) => TypeOK'
<1> SUFFICES ASSUME TypeOK, WakeUpStores \/ \E p \in Aps : Called(p) PROVE TypeOK'
  OBVIOUS
<1> USE DEF TypeOK
<1>1. ASSUME NEW p \in Aps, WakeUpAp(p) PROVE TypeOK'
  <2>1. p \in Stacks
    BY ApsAre
  <2>0. \/ Restart(p) /\ UNCHANGED <<stack, boot>>
        \/ bsp' = "cstate" /\ index' = p /\ UNCHANGED <<pc, place, armed>>
    <3> HIDE DEF TypeOK
    <3> QED
      BY <1>1, Zenon DEF WakeUpAp
  <2>2. pc' \in [Aps -> Placed \union {"off", "start", "checkin", "first"}]
    BY <2>0 DEF Restart, Goto
  <2>3. at' \in [Aps -> {"old", "new"}]
    BY <2>0 DEF Restart, place
  <2>4. wide' \in [Aps -> BOOLEAN] /\ armed' \in [Aps -> BOOLEAN]
    <3>1. wide \in [Aps -> BOOLEAN] /\ armed \in [Aps -> BOOLEAN]
      OBVIOUS
    <3> HIDE DEF TypeOK
    <3>2. CASE Restart(p)
      BY <3>1, <3>2 DEF Restart
    <3>3. CASE UNCHANGED <<place, armed>>
      BY <3>1, <3>3 DEF place
    <3> QED
      BY <2>0, <3>2, <3>3
  <2>5. stack' = stack /\ bsp' \in {bsp, "cstate"} /\ index' \in Stacks
    BY <2>0, <2>1 DEF boot, place
  <2>6. /\ State' \in [Aps -> {"IDLE", "READY", "BUSY", "FINISHED"}]
        /\ Procedure' \in [Aps -> BOOLEAN]
        /\ UNCHANGED <<policy, rooms, counts, line, cstate, missed>>
    BY <1>1 DEF WakeUpAp
  <2> QED
    BY <2>2, <2>3, <2>4, <2>5, <2>6 DEF policy, rooms, counts
<1>2. ASSUME NEW p \in Aps, Collect(p) PROVE TypeOK'
  BY <1>2 DEF Collect, policy, rooms, counts, boot, place, wait
<1>3. CASE WakeUpStores
  <2>0. /\ line \in [Stacks -> Line] /\ index \in Stacks
        /\ \/ TargetCstate(index, "C1") \/ Signal(index, index)
           \/ Store(index) /\ UNCHANGED line
    BY <1>3 DEF WakeUpStores, Line
  <2>1. line' \in [Stacks -> Line] /\ armed' \in Bits
    <3>1. CASE TargetCstate(index, "C1")
      BY <2>0, <3>1, TargetType
    <3>2. CASE Signal(index, index)
      BY <2>0, <3>2, SignalType
    <3>3. CASE Store(index) /\ UNCHANGED line
      BY <2>0, <3>3 DEF Store, Bits
    <3> QED
      BY <2>0, <3>1, <3>2, <3>3
  <2>2. cstate' = cstate /\ missed' = missed
    BY <2>0 DEF Signal, TargetCstate, Store
  <2>3. index' \in Stacks /\ bsp' \in {"signal", "flag", "ready"}
    BY <1>3, ApsAre DEF WakeUpStores
  <2> QED
    BY <1>3, <2>1, <2>2, <2>3 DEF WakeUpStores, policy, rooms, counts, data, place, Line, Bits
<1> QED
  BY <1>1, <1>2, <1>3 DEF Called

LEMMA MoveType == TypeOK /\ Moved => TypeOK'
<1> SUFFICES ASSUME TypeOK, Moved PROVE TypeOK'
  OBVIOUS
<1> USE DEF TypeOK
<1>1. CASE ReAllocateMemoryForAP
  <2>1. /\ buffer["backup"] \in Room
        /\ [buffer["old"] EXCEPT !.ApFunction = "AsmRelocateApsInMwaitLoop"] \in Room
    BY DEF Room, Buffers, Functions
  <2>2. buffer' \in [Buffers -> Room]
    BY <1>1, <2>1 DEF ReAllocateMemoryForAP, Room, Buffers
  <2> QED
    BY <1>1, <2>2, ApsAre
       DEF ReAllocateMemoryForAP, ToRelocate, policy, data, place, wait, boot, Room
<1>2. CASE Release
  <2>1. line' \in [Stacks -> Line] /\ armed' \in Bits /\ cstate' = cstate /\ missed' = missed
    BY <1>2, SignalType DEF Release, Signal, Store, Line
  <2>2. index' \in Stacks
    <3>1. index' = IF index = N - 1 THEN 0 ELSE index + 1
      BY <1>2 DEF Release
    <3>2. \A i \in 0..N - 1 : i # N - 1 => i + 1 \in 0..N - 1
      OBVIOUS
    <3> QED
      BY <3>1, <3>2, ApsAre DEF Stacks
  <2> QED
    BY <1>2, <2>1, <2>2 DEF Release, policy, rooms, counts, data, place, Line, Bits
<1>3. CASE Released
  BY <1>3 DEF Released, policy, rooms, counts, data, place, wait
<1>4. CASE ResetAps
  <2>1. handoff \in Manners
    BY DEF Manners
  <2>2. buffer' \in [Buffers -> Room]
    BY <1>4, <2>1, AssignType DEF ResetAps, Room, Buffers
  <2> QED
    BY <1>4, <2>2, ApsAre DEF ResetAps, policy, counts, data, place, wait, Room
<1>5. CASE Change
  <2>1. line' \in [Stacks -> Line] /\ armed' \in Bits
    <3>1. CASE TargetCstate(index, "max")
      BY <3>1, TargetType DEF Line
    <3>2. CASE Store(index) /\ line' = line
      BY <3>2 DEF Store, Line, Bits
    <3> QED
      BY <1>5, <3>1, <3>2 DEF Change
  <2>2. cstate' = cstate /\ missed' = missed
    BY <1>5 DEF Change, TargetCstate, Store
  <2>3. index' \in Stacks /\ bsp' \in {"deep", "os", "change"}
    <3>1. \/ UNCHANGED index
          \/ index' = IF index = N - 1 THEN 0 ELSE index + 1
      <4>1. CASE UNCHANGED index
        BY <4>1
      <4>2. CASE bsp = "deep" \/ (bsp = "change" /\ handoff = "Hlt")
        BY <1>5, <4>2 DEF Change
      <4> QED
        BY <1>5, <4>1, <4>2 DEF Change
    <3>2. \A i \in 0..N - 1 : i # N - 1 => i + 1 \in 0..N - 1
      OBVIOUS
    <3>3. index' \in Stacks
      BY <3>1, <3>2, ApsAre DEF Stacks
    <3> QED
      BY <1>5, <3>3 DEF Change
  <2> QED
    BY <1>5, <2>1, <2>2, <2>3 DEF Change, policy, rooms, counts, data, place, Line, Bits
<1> QED
  BY <1>1, <1>2, <1>3, <1>4, <1>5 DEF Moved

LEMMA NextType == TypeOK /\ Whole /\ [Next]_vars => TypeOK'
<1> SUFFICES ASSUME TypeOK, Whole, [Next]_vars PROVE TypeOK'
  OBVIOUS
<1>1. CASE UNCHANGED vars
  BY <1>1 DEF TypeOK, vars, policy, rooms, counts, data, boot, place, wait
<1>2. CASE Next
  BY <1>2, ApType, BootType, CallType, MoveType DEF Next, Bsp, Boot, Called, Moved
<1> QED
  BY <1>1, <1>2

-------------------------------------------------------------------------------
(***************************************************************************)
(* Buffers and places.                                                     *)
(***************************************************************************)
LEMMA NextBuffer == TypeOK /\ Inv /\ ~Late /\ ~Late' /\ [Next]_vars => BufferInv'
<1> SUFFICES ASSUME TypeOK, Inv, ~Late, ~Late', [Next]_vars PROVE BufferInv'
  OBVIOUS
<1> USE DEF Inv, BufferInv, Unassigned, BringUp, Relocating, HandedOver, Moving
<1>0. buffer \in [Buffers -> Room] /\ idle \in Manners /\ wakeUpBuffer \in {"old", "new"}
  BY DEF TypeOK, Room, Manners
<1>1. ASSUME NEW a \in Aps, Ap(a) \/ Break(a) PROVE BufferInv'
  <2>1. UNCHANGED <<buffer, bsp, wakeUpBuffer, idle>>
    BY <1>1 DEF Ap, Break, RendezvousFunnelProc, ProgramStack, WakeUpThisAp64, DetailedMpInitialization,
       ApProcWrapper, AsmRelocateApsInMwaitLoop, CheckWakeUpCounterInit64, CheckWakeUpManner64,
       CheckWakeUpManner32, ApMwaitLoop64, Wake, CheckRunSignal64, policy, rooms, boot
  <2> QED
    BY <2>1
<1>2. CASE SendSipi
  BY <1>2 DEF SendSipi, policy, rooms
<1>3. CASE CountApNumberAndCollectBist
  BY <1>3 DEF CountApNumberAndCollectBist, policy
<1>4. CASE PollForInitialization
  BY <1>0, <1>4 DEF PollForInitialization, Assign, policy, Buffers, Room
<1>5. CASE AssignManner
  BY <1>0, <1>5 DEF AssignManner, Assign, policy, Buffers, Room
<1>6. CASE AssignWrapper
  BY <1>0, <1>6 DEF AssignWrapper, policy, Buffers, Room
<1>7. ASSUME NEW p \in Aps, WakeUpAp(p) PROVE BufferInv'
  BY <1>7 DEF WakeUpAp, Restart, policy, rooms, boot
<1>8. CASE WakeUpStores
  BY <1>8 DEF WakeUpStores, policy, rooms
<1>9. ASSUME NEW p \in Aps, Collect(p) PROVE BufferInv'
  BY <1>9 DEF Collect, policy, rooms, boot
<1>10. CASE ReAllocateMemoryForAP
  <2>1. \A b \in Buffers : buffer[b] \in Room
    BY <1>0
  <2> QED
    BY <1>0, <2>1, <1>10 DEF ReAllocateMemoryForAP, policy, boot, Buffers, Room
<1>11. CASE Release
  BY <1>11 DEF Release, policy, rooms
<1>12. CASE Released
  BY <1>12 DEF Released, policy, rooms
<1>13. CASE ResetAps
  BY <1>0, <1>13 DEF ResetAps, Assign, policy, Buffers, Room
<1>14. CASE Change
  BY <1>14 DEF Change, policy, rooms
<1>15. CASE UNCHANGED vars
  BY <1>15 DEF vars, policy, rooms, boot
<1> QED
  BY <1>1, <1>2, <1>3, <1>4, <1>5, <1>6, <1>7, <1>8, <1>9, <1>10, <1>11, <1>12, <1>13, <1>14, <1>15
     DEF Next, Bsp

LEMMA NextPlace == TypeOK /\ Inv /\ ~Late /\ ~Late' /\ [Next]_vars => PlaceInv'
<1> SUFFICES ASSUME TypeOK, Inv, ~Late, ~Late', [Next]_vars PROVE PlaceInv'
  OBVIOUS
<1> USE DEF Inv, PlaceInv, Moving
<1>0. pc \in [Aps -> Placed \union {"off", "start", "checkin", "first"}] /\ at \in [Aps -> {"old", "new"}]
  BY DEF TypeOK
<1>1. ASSUME NEW a \in Aps, Ap(a) \/ Break(a) PROVE PlaceInv'
  <2>0. UNCHANGED <<wakeUpBuffer, idle>>
    BY <1>1 DEF Ap, Break, RendezvousFunnelProc, ProgramStack, WakeUpThisAp64, DetailedMpInitialization,
       ApProcWrapper, AsmRelocateApsInMwaitLoop, CheckWakeUpCounterInit64, CheckWakeUpManner64,
       CheckWakeUpManner32, ApMwaitLoop64, Wake, CheckRunSignal64, policy, rooms
  <2>1. CASE AsmRelocateApsInMwaitLoop(a)
    BY <1>0, <2>0, <2>1 DEF AsmRelocateApsInMwaitLoop, Goto
  <2>2. CASE WakeUpThisAp64(a)
    <3>1. Here(a).ApFunction = "AsmRelocateApsInMwaitLoop" => Moving /\ at[a] = "old"
      BY <1>0 DEF Here, BufferInv, Unassigned, BringUp, Relocating, HandedOver, TypeOK
    <3>2. Here(a).ApFunction # "sync"
      BY HereType DEF Room, Functions
    <3> QED
      BY <1>0, <2>0, <2>2, <3>1, <3>2 DEF WakeUpThisAp64, Goto, place
  <2>3. CASE ~AsmRelocateApsInMwaitLoop(a) /\ ~WakeUpThisAp64(a)
    <3>1. at' = at /\ \E q : q \notin {"AsmRelocateApsInMwaitLoop", "sync"} /\ Goto(a, q)
      <4>1. CASE CheckWakeUpManner64(a)
        <5>1. at' = at /\ \E q \in Loop : Goto(a, q)
          BY <4>1 DEF CheckWakeUpManner64, Loop
        <5> QED
          BY <5>1 DEF Loop
      <4>2. CASE CheckWakeUpCounterInit64(a)
        BY <4>2 DEF CheckWakeUpCounterInit64, place
      <4>3. CASE ApProcWrapper(a)
        BY <4>3 DEF ApProcWrapper, place
      <4>4. CASE CheckWakeUpManner32(a) \/ CheckRunSignal64(a)
        BY <4>4 DEF CheckWakeUpManner32, CheckRunSignal64, place
      <4>5. CASE RendezvousFunnelProc(a) \/ ProgramStack(a) \/ DetailedMpInitialization(a)
        BY <4>5 DEF RendezvousFunnelProc, ProgramStack, DetailedMpInitialization, place
      <4>6. CASE ApMwaitLoop64(a) \/ Wake(a) \/ Break(a)
        BY <4>6 DEF ApMwaitLoop64, Wake, Break, place
      <4> QED
        BY <1>1, <2>3, <4>1, <4>2, <4>3, <4>4, <4>5, <4>6 DEF Ap
    <3> QED
      BY <1>0, <2>0, <3>1 DEF Goto
  <2> QED
    BY <2>1, <2>2, <2>3
<1>2. CASE SendSipi
  BY <1>0, <1>2 DEF SendSipi, policy, rooms, place
<1>3. CASE CountApNumberAndCollectBist \/ PollForInitialization \/ AssignManner \/ AssignWrapper
  BY <1>3 DEF CountApNumberAndCollectBist, PollForInitialization, AssignManner, AssignWrapper,
     policy, place
<1>4. ASSUME NEW p \in Aps, WakeUpAp(p) PROVE PlaceInv'
  <2>1. CASE buffer[wakeUpBuffer].WakeUpApManner = "Hlt"
    BY <1>0, <1>4, <2>1 DEF WakeUpAp, Restart, Goto, policy, rooms, TypeOK
  <2>2. CASE buffer[wakeUpBuffer].WakeUpApManner # "Hlt"
    BY <1>4, <2>2 DEF WakeUpAp, policy, rooms, place
  <2> QED
    BY <2>1, <2>2
<1>5. CASE WakeUpStores
  BY <1>5 DEF WakeUpStores, policy, rooms, place
<1>6. ASSUME NEW p \in Aps, Collect(p) PROVE PlaceInv'
  BY <1>6 DEF Collect, policy, rooms, place
<1>7. CASE ReAllocateMemoryForAP
  BY <1>7 DEF ReAllocateMemoryForAP, policy, place
<1>8. CASE Release \/ Released \/ ResetAps \/ Change
  BY <1>8 DEF Release, Released, ResetAps, Change, policy, rooms, place
<1>9. CASE UNCHANGED vars
  BY <1>9 DEF vars, policy, rooms, place
<1> QED
  BY <1>1, <1>2, <1>3, <1>4, <1>5, <1>6, <1>7, <1>8, <1>9 DEF Next, Bsp
-------------------------------------------------------------------------------
(***************************************************************************)
(* The beginning, and the numbers of APs.                                  *)
(***************************************************************************)
LEMMA InitInv == Init => Whole
<1> SUFFICES ASSUME Init PROVE Whole
  OBVIOUS
<1>1. BringUpInv /\ FreshInv
  BY DEF Init, BringUpInv, FreshInv, BringUp, Stacks
<1>2. BufferInv
  BY DEF Init, BufferInv, Unassigned, BringUp, Relocating, HandedOver, Moving, Buffers
<1>3. NumberInv /\ PlaceInv /\ SleepInv
  BY DEF Init, NumberInv, PlaceInv, SleepInv, Unnumbered, Unassigned, Placed, Loop, Functions
<1>4. CountInv
  <2>1. Coming = Aps
    BY DEF Init, Coming
  <2>2. Cardinality(Coming) = N - 1
    BY <2>1, ApsAre
  <2> QED
    BY <2>2 DEF Init, CountInv, BringUp, Moving, Relocating
<1>5. ~Late
  BY DEF Init, Late, Unnumbered
<1> QED
  BY <1>1, <1>2, <1>3, <1>4, <1>5 DEF Inv, Whole

\* An AP reaches a procedure of the firmware only by ProgramStack, from "first".
LEMMA Steps ==
  ASSUME TypeOK, NEW a \in Aps, Ap(a) \/ Break(a)
  PROVE  /\ \E q \in Placed \union {"checkin", "first"} : Goto(a, q)
         /\ pc[a] \notin Placed => RendezvousFunnelProc(a) \/ ProgramStack(a)
         /\ ~ProgramStack(a) => stack' = stack /\ (pc'[a] \in Placed => pc[a] \in Placed)
         /\ ~RendezvousFunnelProc(a) => Number' = Number /\ pc'[a] # "checkin"
         /\ counted' = counted
<1>0. pc \in [Aps -> Placed \union {"off", "start", "checkin", "first"}]
  BY DEF TypeOK
<1>00. "checkin" \notin Placed
  BY DEF Placed, Loop, Functions
<1>1. CASE RendezvousFunnelProc(a)
  BY <1>0, <1>1 DEF RendezvousFunnelProc, Goto, place, Placed, Loop, Functions
<1>2. CASE ProgramStack(a)
  BY <1>0, <1>2 DEF ProgramStack, Goto, rooms, Placed
<1>3. CASE WakeUpThisAp64(a)
  BY <1>0, <1>00, <1>3, HereType DEF WakeUpThisAp64, Goto, rooms, place, Placed
<1>4. CASE DetailedMpInitialization(a) \/ AsmRelocateApsInMwaitLoop(a)
  BY <1>0, <1>4 DEF DetailedMpInitialization, AsmRelocateApsInMwaitLoop, Goto, rooms, place, Placed, Functions
<1>5. CASE ApProcWrapper(a)
  BY <1>0, <1>5 DEF ApProcWrapper, Goto, rooms, place, Placed, Functions
<1>6. CASE CheckWakeUpCounterInit64(a)
  BY <1>0, <1>6 DEF CheckWakeUpCounterInit64, Goto, rooms, place, Placed, Loop
<1>7. CASE CheckWakeUpManner64(a)
  <2>1. \E q \in Loop : Goto(a, q)
    BY <1>7 DEF CheckWakeUpManner64, Loop
  <2> QED
    BY <1>0, <1>7, <2>1 DEF CheckWakeUpManner64, Goto, rooms, Placed, Loop
<1>8. CASE CheckWakeUpManner32(a) \/ CheckRunSignal64(a)
  BY <1>0, <1>8 DEF CheckWakeUpManner32, CheckRunSignal64, Goto, rooms, place, Placed, Loop
<1>9. CASE ApMwaitLoop64(a) \/ Wake(a) \/ Break(a)
  BY <1>0, <1>9 DEF ApMwaitLoop64, Wake, Break, Goto, rooms, place, Placed, Loop
<1> QED
  BY <1>1, <1>2, <1>3, <1>4, <1>5, <1>6, <1>7, <1>8, <1>9 DEF Ap

LEMMA NextNumber == TypeOK /\ Inv /\ ~Late /\ ~Late' /\ [Next]_vars => NumberInv'
<1> SUFFICES ASSUME TypeOK, Inv, ~Late, ~Late', [Next]_vars PROVE NumberInv'
  OBVIOUS
<1> USE DEF Inv, NumberInv, Unnumbered, Unassigned
<1>0. /\ pc \in [Aps -> Placed \union {"off", "start", "checkin", "first"}]
      /\ stack \in [Aps -> Stacks] /\ Number \in [Aps -> Stacks]
  BY DEF TypeOK
<1>1. ASSUME NEW a \in Aps, Ap(a) \/ Break(a) PROVE NumberInv'
  <2>1. UNCHANGED <<bsp, InitFlag>>
    BY <1>1 DEF Ap, Break, RendezvousFunnelProc, ProgramStack, WakeUpThisAp64, DetailedMpInitialization,
       ApProcWrapper, AsmRelocateApsInMwaitLoop, CheckWakeUpCounterInit64, CheckWakeUpManner64,
       CheckWakeUpManner32, ApMwaitLoop64, Wake, CheckRunSignal64, rooms, boot
  <2>2. CASE ProgramStack(a)
    <3>1. at[a] = "new" => ~Unassigned
      BY DEF PlaceInv, BufferInv, BringUp, TypeOK
    <3>2. ~Unassigned
      BY <2>2, <3>1 DEF ProgramStack, Here, BufferInv, TypeOK
    <3>3. Number' = Number /\ stack' = [stack EXCEPT ![a] = a]
      BY <2>2, <3>2 DEF ProgramStack, rooms
    <3>4. pc'[a] = "call" /\ \A b \in Aps : b # a => pc'[b] = pc[b]
      BY <1>0, <2>2 DEF ProgramStack, Goto
    <3> QED
      BY <1>0, <2>1, <3>2, <3>3, <3>4
  <2>3. CASE ~ProgramStack(a)
    <3>1. stack' = stack /\ (pc'[a] \in Placed => pc[a] \in Placed) /\ \A b \in Aps : b # a => pc'[b] = pc[b]
      BY <1>0, <1>1, <2>3, Steps DEF Goto
    <3>2. ~Unnumbered => Number' = Number /\ pc'[a] # "checkin"
      BY <1>0, <1>1, Steps DEF RendezvousFunnelProc, Goto
    <3> QED
      BY <2>1, <3>1, <3>2
  <2> QED
    BY <2>2, <2>3
<1>2. CASE SendSipi
  <2>1. "start" \notin Placed
    BY DEF Placed, Loop, Functions
  <2> QED
    BY <1>2, <2>1 DEF SendSipi, rooms, place
<1>3. CASE CountApNumberAndCollectBist
  <2>1. ASSUME NEW a \in Aps PROVE Cardinality({b \in Aps : b <= a}) = a
    <3>1. 1 \in Int /\ a \in Int /\ 1 <= a /\ {b \in Aps : b <= a} = 1..a
      BY DEF Aps
    <3>2. Cardinality(1..a) = IF 1 > a THEN 0 ELSE a - 1 + 1
      BY <3>1, FS_Interval
    <3>3. Cardinality({b \in Aps : b <= a}) = Cardinality(1..a)
      BY <3>1, Zenon
    <3> QED
      BY <3>1, <3>2, <3>3
  <2>2. \A a \in Aps : Number'[a] = a /\ Number[a] = 1
    <3>0. counted' = Aps
      BY <1>3 DEF CountApNumberAndCollectBist, Late
    <3>1. /\ Number' = [a \in Aps |-> IF a \in counted' THEN Cardinality({b \in counted' : b <= a})
                                                        ELSE Number[a]]
          /\ counted' = {a \in Aps : Number[a] = 1}
      BY <1>3 DEF CountApNumberAndCollectBist
    <3> QED
      BY <2>1, <3>0, <3>1
  <2>3. bsp = "count" /\ bsp' = "detail" /\ InitFlag' = FALSE /\ pc' = pc
    BY <1>3 DEF CountApNumberAndCollectBist
  <2>4. \A a \in Aps : pc'[a] \notin Placed /\ pc'[a] # "checkin"
    <3>1. \A a \in Aps : pc[a] = "first"
      BY <2>2, <2>3 DEF BringUpInv
    <3> QED
      BY <2>3, <3>1 DEF Placed, Loop, Functions
  <2>5. ~InitFlag' /\ ~Unnumbered'
    BY <2>3
  <2> QED
    BY <2>2, <2>4, <2>5
<1>4. CASE PollForInitialization \/ AssignManner \/ AssignWrapper
  BY <1>4 DEF PollForInitialization, AssignManner, AssignWrapper, place
<1>5. ASSUME NEW p \in Aps, WakeUpAp(p) PROVE NumberInv'
  <2>0. "start" \notin Placed
    BY DEF Placed, Loop, Functions
  <2>1. CASE buffer[wakeUpBuffer].WakeUpApManner = "Hlt"
    BY <1>0, <1>5, <2>0, <2>1 DEF WakeUpAp, Restart, Goto, rooms, boot
  <2>2. CASE buffer[wakeUpBuffer].WakeUpApManner # "Hlt"
    BY <1>5, <2>2 DEF WakeUpAp, rooms, place
  <2> QED
    BY <2>1, <2>2
<1>6. CASE WakeUpStores
  BY <1>6 DEF WakeUpStores, rooms, place
<1>7. ASSUME NEW p \in Aps, Collect(p) PROVE NumberInv'
  BY <1>7 DEF Collect, rooms, boot, place
<1>8. CASE ReAllocateMemoryForAP
  BY <1>8 DEF ReAllocateMemoryForAP, boot, place
<1>9. CASE Release \/ Released \/ ResetAps \/ Change
  BY <1>9 DEF Release, Released, ResetAps, Change, rooms, place
<1>10. CASE UNCHANGED vars
  BY <1>10 DEF vars, rooms, boot, place
<1> QED
  BY <1>1, <1>2, <1>3, <1>4, <1>5, <1>6, <1>7, <1>8, <1>9, <1>10 DEF Next, Bsp
-------------------------------------------------------------------------------
(***************************************************************************)
(* C-states.                                                               *)
(***************************************************************************)
\* An AP that goes anywhere but to sleep, after a write to some signal or none.
LEMMA Stays ==
  ASSUME TypeOK, SleepInv, NEW a \in Aps, NEW q, Goto(a, q), q \notin {"mwait", "asleep"},
         NEW s, Signal(s, 0) \/ UNCHANGED <<line, wait>>, stack' = stack
  PROVE  SleepInv'
<1>0. pc \in [Aps -> Placed \union {"off", "start", "checkin", "first"}]
  BY DEF TypeOK
<1>1. \A b \in Aps : pc'[b] = IF b = a THEN q ELSE pc[b]
  BY <1>0 DEF Goto
<1>2. CASE UNCHANGED <<line, wait>>
  BY <1>1, <1>2 DEF SleepInv, wait
<1>3. CASE Signal(s, 0)
  <2>1. cstate' = cstate /\ \A b \in Aps : armed'[b] => armed[b] /\ stack[b] # s
    BY <1>3 DEF Signal, Store
  <2>2. \A b \in Aps : stack[b] # s => line'[stack[b]] = line[stack[b]]
    <3>1. line \in [Stacks -> Line] /\ \A b \in Aps : stack[b] \in Stacks
      BY DEF TypeOK, Line
    <3> QED
      BY <1>3, <3>1 DEF Signal
  <2> QED
    BY <1>1, <2>1, <2>2 DEF SleepInv
<1> QED
  BY <1>2, <1>3

LEMMA NextSleep == TypeOK /\ SleepInv /\ [Next]_vars => SleepInv'
<1> SUFFICES ASSUME TypeOK, SleepInv, [Next]_vars PROVE SleepInv'
  OBVIOUS
<1> USE DEF SleepInv
<1>0. /\ pc \in [Aps -> Placed \union {"off", "start", "checkin", "first"}]
      /\ armed \in [Aps -> BOOLEAN] /\ cstate \in [Aps -> {"unknown", "C1", "max"}]
      /\ line \in [Stacks -> Line] /\ stack \in [Aps -> Stacks]
  BY DEF TypeOK, Line
\* A monitor on a line that is written is no longer armed.
<1>S. ASSUME NEW s, Store(s), pc' = pc, stack' = stack,
             \A t \in Stacks : t # s => line'[t] = line[t]
      PROVE  SleepInv'
  BY <1>0, <1>S DEF Store
<1>A. ASSUME NEW a \in Aps, Ap(a) \/ Break(a) PROVE SleepInv'
  <2>0. \E q \in Placed \union {"checkin", "first"} : Goto(a, q)
    BY <1>A, Steps
  <2>1. CASE ApProcWrapper(a)
    <3>1. Signal(Number[a], 0) \/ UNCHANGED <<line, wait>>
      BY <2>1 DEF ApProcWrapper
    <3>3. stack' = stack
      BY <2>1 DEF ApProcWrapper, place
    <3>2. \E q \in Placed \ {"mwait", "asleep"} : Goto(a, q)
      BY <2>1 DEF ApProcWrapper, Placed
    <3> QED
      BY <3>1, <3>2, <3>3, Stays
  <2>2. CASE AsmRelocateApsInMwaitLoop(a)
    <3>1. /\ Signal(stack[a], 0) \/ UNCHANGED <<line, wait>>
          /\ stack' = stack
      BY <2>2 DEF AsmRelocateApsInMwaitLoop
    <3>2. \E q \in Placed \ {"mwait", "asleep"} : Goto(a, q)
      BY <2>2 DEF AsmRelocateApsInMwaitLoop, Placed
    <3> QED
      BY <3>1, <3>2, Stays
  <2>3. CASE CheckWakeUpCounterInit64(a)
    <3>1. CASE pc[a] = "zero"
      <4>1. Goto(a, "assigned") /\ UNCHANGED stack
        BY <2>3, <3>1 DEF CheckWakeUpCounterInit64, place
      <4>2. Store(stack[a]) /\ \A s \in Stacks : s # stack[a] => line'[s] = line[s]
        BY <1>0, <2>3, <3>1 DEF CheckWakeUpCounterInit64
      <4> QED
        BY <1>0, <4>1, <4>2 DEF Goto, Store
    <3>2. CASE pc[a] # "zero"
      <4>1. UNCHANGED <<line, wait, stack>> /\ \E q \in {"zero", "manner"} : Goto(a, q)
        BY <2>3, <3>2 DEF CheckWakeUpCounterInit64, place
      <4> QED
        BY <1>0, <4>1 DEF Goto, wait
    <3> QED
      BY <3>1, <3>2
  <2>4. CASE CheckWakeUpManner64(a)
    <3>1. \E q \in Loop \ {"mwait", "asleep"} : Goto(a, q)
      BY <2>4 DEF CheckWakeUpManner64, Loop
    <3> QED
      BY <1>0, <2>4, <3>1 DEF CheckWakeUpManner64, Goto, wait
  <2>5. CASE CheckWakeUpManner32(a)
    BY <1>0, <2>5 DEF CheckWakeUpManner32, Goto, wait, place
  <2>6. CASE CheckRunSignal64(a)
    BY <1>0, <2>6 DEF CheckRunSignal64, Goto
  <2>7. CASE ApMwaitLoop64(a)
    BY <1>0, <2>7 DEF ApMwaitLoop64, Goto, wait, place
  <2>8. CASE Wake(a) \/ Break(a)
    BY <1>0, <2>8 DEF Wake, Break, Goto, wait, place
  <2>9. CASE RendezvousFunnelProc(a) \/ ProgramStack(a) \/ DetailedMpInitialization(a)
    BY <1>0, <2>9 DEF RendezvousFunnelProc, ProgramStack, DetailedMpInitialization, Goto, wait, place
  <2>10. CASE WakeUpThisAp64(a)
    <3>1. Here(a).ApFunction \notin {"mwait", "asleep"}
      BY HereType DEF Room, Functions
    <3> QED
      BY <1>0, <2>10, <3>1 DEF WakeUpThisAp64, Goto, wait, place
  <2> QED
    BY <1>A, <2>1, <2>2, <2>3, <2>4, <2>5, <2>6, <2>7, <2>8, <2>9, <2>10 DEF Ap
<1>1. CASE SendSipi
  BY <1>1 DEF SendSipi, wait
<1>2. CASE CountApNumberAndCollectBist \/ PollForInitialization \/ AssignManner \/ AssignWrapper
  BY <1>2 DEF CountApNumberAndCollectBist, PollForInitialization, AssignManner, AssignWrapper,
     place, wait
<1>3. ASSUME NEW p \in Aps, WakeUpAp(p) PROVE SleepInv'
  BY <1>0, <1>3 DEF WakeUpAp, Restart, Goto, place
<1>4. CASE WakeUpStores
  BY <1>S, <1>0, <1>4 DEF WakeUpStores, Signal, TargetCstate, place
<1>5. ASSUME NEW p \in Aps, Collect(p) PROVE SleepInv'
  BY <1>5 DEF Collect, place, wait
<1>6. CASE Release
  BY <1>S, <1>0, <1>6 DEF Release, Signal, place
<1>7. CASE Change
  BY <1>S, <1>0, <1>7 DEF Change, TargetCstate, place
<1>8. CASE ReAllocateMemoryForAP \/ Released \/ ResetAps
  BY <1>8 DEF ReAllocateMemoryForAP, Released, ResetAps, place, wait
<1>9. CASE UNCHANGED vars
  BY <1>9 DEF vars, place, wait
<1> QED
  BY <1>A, <1>1, <1>2, <1>3, <1>4, <1>5, <1>6, <1>7, <1>8, <1>9 DEF Next, Bsp

-------------------------------------------------------------------------------
(***************************************************************************)
(* Bring-up.                                                               *)
(***************************************************************************)
\* No AP is called while the BSP brings them up: nobody has written a signal.
LEMMA NotCalled == ASSUME TypeOK, Inv, BringUp, NEW a \in Aps PROVE ~Signalled(a)
BY ApsAre DEF Inv, BringUpInv, Signalled, TypeOK, Aps

LEMMA ApBringUp ==
  ASSUME TypeOK, Inv, NEW a \in Aps, Ap(a) \/ Break(a)
  PROVE  BringUpInv'
<1> USE DEF Inv, BringUpInv, BringUp
<1>0. /\ pc \in [Aps -> Placed \union {"off", "start", "checkin", "first"}]
      /\ line \in [Stacks -> Line] /\ Number \in [Aps -> Stacks]
  BY DEF TypeOK, Line
<1>1. bsp' = bsp /\ \E q \in Placed \union {"checkin", "first"} : Goto(a, q)
  <2>1. bsp' = bsp
    BY DEF Ap, Break, RendezvousFunnelProc, ProgramStack, WakeUpThisAp64, DetailedMpInitialization,
       ApProcWrapper, AsmRelocateApsInMwaitLoop, CheckWakeUpCounterInit64, CheckWakeUpManner64,
       CheckWakeUpManner32, ApMwaitLoop64, Wake, CheckRunSignal64, boot
  <2> QED
    BY <2>1, Steps
<1>2. BringUp => \A s \in Stacks : line'[s].BreakToRunApSignal = 0
  <2>1. CASE ApProcWrapper(a)
    BY <1>0, <2>1 DEF ApProcWrapper, Signal, data, Line
  <2>2. CASE AsmRelocateApsInMwaitLoop(a)
    BY <1>0, <2>2 DEF AsmRelocateApsInMwaitLoop, Signal, Line
  <2>3. CASE CheckWakeUpCounterInit64(a)
    BY <1>0, <2>3 DEF CheckWakeUpCounterInit64, Line
  <2>4. CASE UNCHANGED line
    BY <2>4
  <2> QED
    BY <2>1, <2>2, <2>3, <2>4 DEF Ap, Break, RendezvousFunnelProc, ProgramStack, WakeUpThisAp64,
       DetailedMpInitialization, CheckWakeUpManner64, CheckWakeUpManner32, ApMwaitLoop64, Wake, CheckRunSignal64
<1>3. Unassigned => bsp = "count" /\ RendezvousFunnelProc(a)
  <2>1. Unassigned => pc[a] \in {"off", "start", "checkin", "first"} /\ at[a] = "old" /\ Here(a).ApFunction = "NULL"
    BY DEF Unassigned, BufferInv, PlaceInv, Here, TypeOK
  <2> QED
    BY <2>1, Steps DEF Unassigned, ProgramStack, RendezvousFunnelProc, NumberInv, Placed, Loop, Functions
<1>4. CASE Unassigned
  BY <1>0, <1>1, <1>2, <1>3, <1>4 DEF Unassigned, RendezvousFunnelProc, Goto, NumberInv, Unnumbered
<1>5. CASE bsp = "poll"
  <2>0. /\ pc[a] \in {"first", "call", "DetailedMpInitialization", "counter", "zero", "assigned"}
        /\ at[a] = "old" /\ Here(a).ApFunction = "DetailedMpInitialization"
        /\ Here(a).WakeUpApManner = "CounterInit"
    BY <1>5 DEF Unassigned, BufferInv, PlaceInv, Here, TypeOK
  <2>1. pc'[a] \in {"call", "DetailedMpInitialization", "counter", "zero", "assigned"}
    BY <1>0, <2>0 DEF Ap, Break, RendezvousFunnelProc, ProgramStack, WakeUpThisAp64,
       DetailedMpInitialization, ApProcWrapper, AsmRelocateApsInMwaitLoop, CheckWakeUpCounterInit64,
       CheckWakeUpManner64, CheckWakeUpManner32, ApMwaitLoop64, Wake, CheckRunSignal64, Goto
  <2> QED
    BY <1>0, <1>1, <1>2, <1>5, <2>1 DEF Goto
<1>6. CASE bsp = "wrapper"
  <2>0. pc[a] \in Loop \union {"counter", "zero", "assigned"} /\ ~Signalled(a)
    BY <1>6, NotCalled
  <2>1. pc'[a] \in Loop \union {"counter", "zero", "assigned"}
    <3>1. CASE CheckWakeUpManner64(a)
      <4>1. \E q \in Loop : Goto(a, q)
        BY <3>1 DEF CheckWakeUpManner64, Loop
      <4> QED
        BY <1>0, <4>1 DEF Goto
    <3>2. CASE CheckWakeUpCounterInit64(a)
      BY <1>0, <3>2 DEF CheckWakeUpCounterInit64, Goto, Loop
    <3>3. CASE CheckWakeUpManner32(a) \/ CheckRunSignal64(a)
      BY <1>0, <2>0, <3>3 DEF CheckWakeUpManner32, CheckRunSignal64, Goto, Loop
    <3>4. CASE ApMwaitLoop64(a) \/ Wake(a) \/ Break(a)
      BY <1>0, <3>4 DEF ApMwaitLoop64, Wake, Break, Goto, Loop
    <3> QED
      BY <2>0, <3>1, <3>2, <3>3, <3>4 DEF Ap, RendezvousFunnelProc, ProgramStack, WakeUpThisAp64,
         DetailedMpInitialization, ApProcWrapper, AsmRelocateApsInMwaitLoop, Loop
  <2> QED
    BY <1>0, <1>1, <1>2, <1>6, <2>1 DEF Goto
<1>7. CASE ~BringUp
  <2>1. pc'[a] # "DetailedMpInitialization"
    <3>1. CASE WakeUpThisAp64(a)
      <4>1. Here(a).ApFunction # "DetailedMpInitialization"
        BY <1>7 DEF BufferInv, PlaceInv, Here, TypeOK, Buffers, Room
      <4> QED
        BY <1>0, <3>1, <4>1 DEF WakeUpThisAp64, Goto
    <3>2. CASE CheckWakeUpManner64(a)
      <4>1. \E q \in Loop : Goto(a, q)
        BY <3>2 DEF CheckWakeUpManner64, Loop
      <4> QED
        BY <1>0, <4>1 DEF Goto, Loop
    <3>3. CASE CheckWakeUpCounterInit64(a) \/ ApProcWrapper(a) \/ AsmRelocateApsInMwaitLoop(a)
      BY <1>0, <3>3 DEF CheckWakeUpCounterInit64, ApProcWrapper, AsmRelocateApsInMwaitLoop, Goto
    <3>4. CASE CheckWakeUpManner32(a) \/ CheckRunSignal64(a) \/ ApMwaitLoop64(a) \/ Wake(a) \/ Break(a)
      BY <1>0, <3>4 DEF CheckWakeUpManner32, CheckRunSignal64, ApMwaitLoop64, Wake, Break, Goto
    <3>5. CASE RendezvousFunnelProc(a) \/ ProgramStack(a) \/ DetailedMpInitialization(a)
      BY <1>0, <3>5 DEF RendezvousFunnelProc, ProgramStack, DetailedMpInitialization, Goto
    <3> QED
      BY <3>1, <3>2, <3>3, <3>4, <3>5 DEF Ap
  <2> QED
    BY <1>0, <1>1, <1>7, <2>1 DEF Goto
<1> QED
  BY <1>4, <1>5, <1>6, <1>7 DEF Unassigned

LEMMA NextBringUp == TypeOK /\ Inv /\ ~Late /\ ~Late' /\ [Next]_vars => BringUpInv'
<1> SUFFICES ASSUME TypeOK, Inv, ~Late, ~Late', [Next]_vars PROVE BringUpInv'
  OBVIOUS
<1> USE DEF Inv, BringUpInv, BringUp
<1>0. pc \in [Aps -> Placed \union {"off", "start", "checkin", "first"}]
  BY DEF TypeOK
<1>1. CASE SendSipi
  BY <1>1 DEF SendSipi, rooms
<1>2. CASE CountApNumberAndCollectBist
  BY <1>2 DEF CountApNumberAndCollectBist, Late, Unnumbered
<1>3. CASE PollForInitialization
  BY <1>3 DEF PollForInitialization
<1>4. CASE AssignManner
  <2>1. Coming \in SUBSET Aps /\ Cardinality(Coming) \in 0..N - 1
    BY SomeAps DEF Coming
  <2>2. Cardinality(Coming) = 0
    BY <1>4, <2>1, ApsAre DEF AssignManner, CountInv, Late, Unnumbered
  <2>3. Coming = {}
    BY <2>1, <2>2, SomeAps
  <2>4. \A a \in Aps : pc[a] \in {"counter", "zero", "assigned"}
    BY <1>4, <2>3 DEF AssignManner, Coming
  <2> QED
    BY <1>4, <2>4 DEF AssignManner
<1>5. CASE AssignWrapper
  <2>1. bsp = "wrapper" /\ bsp' = "ready" /\ pc' = pc
    BY <1>5 DEF AssignWrapper
  <2> QED
    BY <2>1 DEF Loop
<1>6. ASSUME NEW p \in Aps, WakeUpAp(p) PROVE BringUpInv'
  BY <1>0, <1>6 DEF WakeUpAp, Restart, Goto, boot
<1>7. CASE WakeUpStores
  BY <1>7 DEF WakeUpStores
<1>8. ASSUME NEW p \in Aps, Collect(p) PROVE BringUpInv'
  BY <1>8 DEF Collect, rooms, boot
<1>9. CASE ReAllocateMemoryForAP
  BY <1>9 DEF ReAllocateMemoryForAP, boot
<1>10. CASE Release \/ Released \/ ResetAps \/ Change
  BY <1>10 DEF Release, Released, ResetAps, Change
<1>11. CASE UNCHANGED vars
  BY <1>11 DEF vars, rooms, boot
<1> QED
  BY <1>1, <1>2, <1>3, <1>4, <1>5, <1>6, <1>7, <1>8, <1>9, <1>10, <1>11, ApBringUp DEF Next, Bsp

LEMMA NextFresh == TypeOK /\ Inv /\ [Next]_vars => FreshInv'
<1> SUFFICES ASSUME TypeOK, Inv, [Next]_vars, Unnumbered'
             PROVE  \A a \in Aps : State'[a] = "IDLE" /\ ~Procedure'[a] /\ Number'[a] \in {0, 1}
  BY DEF FreshInv
<1> USE DEF Inv, FreshInv, Unnumbered
<1>0. Number \in [Aps -> Stacks]
  BY DEF TypeOK
<1>1. ASSUME NEW a \in Aps, Ap(a) \/ Break(a)
      PROVE  \A b \in Aps : State'[b] = "IDLE" /\ ~Procedure'[b] /\ Number'[b] \in {0, 1}
  <2>1. bsp' = bsp
    BY <1>1 DEF Ap, Break, RendezvousFunnelProc, ProgramStack, WakeUpThisAp64, DetailedMpInitialization,
       ApProcWrapper, AsmRelocateApsInMwaitLoop, CheckWakeUpCounterInit64, CheckWakeUpManner64,
       CheckWakeUpManner32, ApMwaitLoop64, Wake, CheckRunSignal64, boot
  <2>2. pc[a] \notin Placed
    BY <2>1 DEF BringUpInv, Placed, Loop, Functions
  <2>3. RendezvousFunnelProc(a) \/ ProgramStack(a)
    BY <1>1, <2>2, Steps
  <2>4. UNCHANGED data
    BY <2>3 DEF RendezvousFunnelProc, ProgramStack
  <2>5. \A b \in Aps : Number'[b] \in {1, Number[b]}
    BY <1>0, <2>3 DEF RendezvousFunnelProc, ProgramStack, rooms
  <2> QED
    BY <2>1, <2>4, <2>5 DEF data
<1>2. CASE SendSipi \/ Change \/ UNCHANGED vars
  <2>1. Unnumbered /\ UNCHANGED <<data, rooms>>
    BY <1>2 DEF SendSipi, Change, vars, boot
  <2> QED
    BY <2>1 DEF data, rooms
<1>3. ASSUME NEW p \in Aps, WakeUpAp(p) \/ Collect(p) PROVE FALSE
  BY <1>3 DEF WakeUpAp, Collect, boot
<1> QED
  BY <1>1, <1>2, <1>3 DEF Next, Bsp, CountApNumberAndCollectBist, PollForInitialization, AssignManner,
     AssignWrapper, WakeUpStores, ReAllocateMemoryForAP, Release, Released, ResetAps, boot
-------------------------------------------------------------------------------
(***************************************************************************)
(* Counts.                                                                 *)
(***************************************************************************)
\* What an AP does to the two sets, and to the counters.
LEMMA ApCount ==
  ASSUME TypeOK, Inv, NEW a \in Aps, Ap(a) \/ Break(a)
  PROVE  /\ UNCHANGED <<bsp, wakeUpBuffer, idle>>
         /\ \/ BringUp /\ a \in Coming /\ Coming' = Coming \ {a} /\ mFinishedCount' = mFinishedCount + 1
            \/ (BringUp => Coming' = Coming) /\ mFinishedCount' = mFinishedCount
         /\ \/ Moving /\ a \in Behind /\ Behind' = Behind \ {a} /\ mCpuCountSync' = mCpuCountSync - 1
            \/ Behind' = Behind /\ mCpuCountSync' = mCpuCountSync
<1>0. /\ pc \in [Aps -> Placed \union {"off", "start", "checkin", "first"}] /\ at \in [Aps -> {"old", "new"}]
      /\ Here(a).ApFunction \in Functions
  BY HereType DEF TypeOK, Room
<1> DEFINE Early == {"off", "start", "checkin", "first", "call", "DetailedMpInitialization"}
<1>1. UNCHANGED <<bsp, wakeUpBuffer, idle>>
  BY DEF Ap, Break, RendezvousFunnelProc, ProgramStack, WakeUpThisAp64, DetailedMpInitialization,
     ApProcWrapper, AsmRelocateApsInMwaitLoop, CheckWakeUpCounterInit64, CheckWakeUpManner64,
     CheckWakeUpManner32, ApMwaitLoop64, Wake, CheckRunSignal64, policy, rooms, boot
<1>2. CASE DetailedMpInitialization(a)
  <2>1. BringUp /\ a \in Coming
    BY <1>2 DEF DetailedMpInitialization, Inv, BringUpInv, Coming
  <2>2. Coming' = Coming \ {a} /\ Behind' = Behind
    BY <1>0, <1>2 DEF DetailedMpInitialization, Goto, Coming, Behind, place
  <2> QED
    BY <1>1, <1>2, <2>1, <2>2 DEF DetailedMpInitialization
<1>3. CASE AsmRelocateApsInMwaitLoop(a)
  <2>1. Moving /\ ~BringUp
    BY <1>3 DEF AsmRelocateApsInMwaitLoop, Inv, PlaceInv, BufferInv, Moving
  <2>2. \/ pc[a] = "AsmRelocateApsInMwaitLoop" /\ Behind' = Behind /\ mCpuCountSync' = mCpuCountSync
        \/ a \in Behind /\ Behind' = Behind \ {a} /\ mCpuCountSync' = mCpuCountSync - 1
    BY <1>0, <1>3 DEF AsmRelocateApsInMwaitLoop, Goto, Behind, Inv, PlaceInv
  <2> QED
    BY <1>1, <1>3, <2>1, <2>2 DEF AsmRelocateApsInMwaitLoop
<1>4. CASE ~DetailedMpInitialization(a) /\ ~AsmRelocateApsInMwaitLoop(a)
  <2>1. \E q : /\ Goto(a, q) /\ at' = at /\ counts' = counts /\ pc[a] # "sync" /\ q # "sync"
               /\ BringUp => (pc[a] \in Early <=> q \in Early)
    <3>1. CASE RendezvousFunnelProc(a) \/ ProgramStack(a)
      BY <1>0, <3>1 DEF RendezvousFunnelProc, ProgramStack, place
    <3>2. CASE WakeUpThisAp64(a)
      <4>1. BringUp => Here(a).ApFunction = "DetailedMpInitialization"
        BY <3>2 DEF WakeUpThisAp64, Inv, BringUpInv, BufferInv, PlaceInv, BringUp, Here, TypeOK, Loop
      <4> QED
        BY <1>0, <3>2, <4>1 DEF WakeUpThisAp64, place, Functions
    <3>3. CASE ApProcWrapper(a)
      BY <3>3 DEF ApProcWrapper, place
    <3>4. CASE CheckWakeUpCounterInit64(a)
      BY <3>4 DEF CheckWakeUpCounterInit64, place
    <3>5. CASE CheckWakeUpManner64(a)
      <4>1. \E q \in Loop : Goto(a, q)
        BY <3>5 DEF CheckWakeUpManner64, Loop
      <4> QED
        BY <3>5, <4>1 DEF CheckWakeUpManner64, Loop
    <3>6. CASE CheckWakeUpManner32(a)
      BY <3>6 DEF CheckWakeUpManner32, place
    <3>7. CASE CheckRunSignal64(a)
      BY <3>7, NotCalled DEF CheckRunSignal64
    <3>8. CASE ApMwaitLoop64(a) \/ Wake(a) \/ Break(a)
      BY <3>8 DEF ApMwaitLoop64, Wake, Break, place
    <3> QED
      BY <1>4, <3>1, <3>2, <3>3, <3>4, <3>5, <3>6, <3>7, <3>8 DEF Ap
  <2>2. (BringUp => Coming' = Coming) /\ Behind' = Behind
    BY <1>0, <2>1 DEF Goto, Coming, Behind
  <2> QED
    BY <1>1, <2>1, <2>2 DEF counts
<1> QED
  BY <1>2, <1>3, <1>4

LEMMA NextCount == TypeOK /\ Inv /\ ~Late /\ ~Late' /\ [Next]_vars => CountInv'
<1> SUFFICES ASSUME TypeOK, Inv, ~Late, ~Late', [Next]_vars PROVE CountInv'
  OBVIOUS
<1> USE DEF Inv, CountInv, BringUp, Moving, Relocating
<1>0. /\ pc \in [Aps -> Placed \union {"off", "start", "checkin", "first"}] /\ at \in [Aps -> {"old", "new"}]
      /\ wakeUpBuffer \in {"old", "new"}
      /\ Coming \in SUBSET Aps /\ Behind \in SUBSET Aps
  BY DEF TypeOK, Coming, Behind
<1>A. ASSUME NEW a \in Aps, Ap(a) \/ Break(a) PROVE CountInv'
  <2>1. UNCHANGED <<bsp, wakeUpBuffer, idle>>
    BY <1>A, ApCount
  <2>2. mFinishedCount' = IF BringUp' THEN N - 1 - Cardinality(Coming') ELSE N - 1
    <3>1. CASE BringUp /\ a \in Coming /\ Coming' = Coming \ {a} /\ mFinishedCount' = mFinishedCount + 1
      <4>1. Cardinality(Coming) \in 0..N - 1 /\ Cardinality(Coming \ {a}) = Cardinality(Coming) - 1
        BY <1>0, <3>1, SomeAps
      <4> QED
        BY <2>1, <3>1, <4>1
    <3>2. CASE (BringUp => Coming' = Coming) /\ mFinishedCount' = mFinishedCount
      BY <2>1, <3>2
    <3> QED
      BY <1>A, <3>1, <3>2, ApCount
  <2>3. /\ mCpuCountSync' = IF Moving' THEN Cardinality(Behind') ELSE 0
        /\ ~Relocating' => mCpuCountSync' = 0
    <3>1. CASE Moving /\ a \in Behind /\ Behind' = Behind \ {a} /\ mCpuCountSync' = mCpuCountSync - 1
      <4>1. /\ Cardinality(Behind) \in 0..N - 1 /\ Cardinality(Behind) > 0
            /\ Cardinality(Behind \ {a}) = Cardinality(Behind) - 1
        BY <1>0, <3>1, SomeAps
      <4> QED
        BY <2>1, <3>1, <4>1
    <3>2. CASE Behind' = Behind /\ mCpuCountSync' = mCpuCountSync
      BY <2>1, <3>2
    <3> QED
      BY <1>A, <3>1, <3>2, ApCount
  <2> QED
    BY <2>2, <2>3
<1>1. CASE SendSipi
  <2>1. Coming' = Coming /\ wakeUpBuffer = "old"
    BY <1>0, <1>1 DEF SendSipi, Coming, BringUpInv, BufferInv
  <2> QED
    BY <1>1, <2>1 DEF SendSipi, policy, rooms, counts
<1>2. CASE CountApNumberAndCollectBist \/ PollForInitialization
  <2>1. Coming' = Coming /\ wakeUpBuffer = "old"
    BY <1>0, <1>2 DEF CountApNumberAndCollectBist, PollForInitialization, Coming, BufferInv
  <2> QED
    BY <1>2, <2>1 DEF CountApNumberAndCollectBist, PollForInitialization, policy, counts
<1>3. CASE AssignManner \/ AssignWrapper
  <2>1. Cardinality(Coming) = 0 /\ Coming' = Coming
    <3>1. CASE AssignManner
      <4>1. Cardinality(Coming) \in 0..N - 1
        BY <1>0, SomeAps
      <4> QED
        BY <3>1, <4>1, ApsAre DEF AssignManner, Coming, Late, Unnumbered
    <3>2. CASE AssignWrapper
      <4>1. Coming = {}
        BY <3>2 DEF AssignWrapper, Coming, BringUpInv, Loop
      <4> QED
        BY <1>0, <3>2, <4>1, SomeAps DEF AssignWrapper, Coming
    <3> QED
      BY <1>3, <3>1, <3>2
  <2>2. wakeUpBuffer' = "old"
    BY <1>0, <1>3 DEF AssignManner, AssignWrapper, BufferInv
  <2>3. mFinishedCount' = N - 1 /\ mCpuCountSync' = 0
    BY <1>3, <2>1, <2>2 DEF AssignManner, AssignWrapper, counts
  <2>4. bsp' \in {"wrapper", "ready"}
    BY <1>3 DEF AssignManner, AssignWrapper
  <2> QED
    BY <2>1, <2>2, <2>3, <2>4
<1>4. ASSUME NEW p \in Aps, WakeUpAp(p) PROVE CountInv'
  <2>0. bsp = "ready" /\ UNCHANGED <<wakeUpBuffer, idle, mFinishedCount, mCpuCountSync>>
    BY <1>4 DEF WakeUpAp, policy, rooms, counts
  <2>1. bsp' \in {"ready", "cstate"}
    BY <1>4 DEF WakeUpAp, boot
  <2>2. Moving => Behind' = Behind
    <3>1. CASE buffer[wakeUpBuffer].WakeUpApManner = "Hlt"
      BY <1>0, <2>0, <3>1 DEF BufferInv, Unassigned, HandedOver
    <3>2. CASE buffer[wakeUpBuffer].WakeUpApManner # "Hlt"
      BY <1>4, <3>2 DEF WakeUpAp, Behind, place
    <3> QED
      BY <3>1, <3>2
  <2> QED
    BY <2>0, <2>1, <2>2
<1>5. CASE WakeUpStores
  BY <1>5 DEF WakeUpStores, policy, rooms, counts, place, Behind
<1>6. ASSUME NEW p \in Aps, Collect(p) PROVE CountInv'
  BY <1>6 DEF Collect, policy, rooms, counts, boot, place, Behind, Coming
<1>7. CASE ReAllocateMemoryForAP
  <2>0. bsp = "ready" /\ wakeUpBuffer = "old" /\ wakeUpBuffer' = "new" /\ idle' = idle
        /\ mFinishedCount' = mFinishedCount /\ mCpuCountSync = 0
    BY <1>7 DEF ReAllocateMemoryForAP, policy
  <2>1. CASE idle = "Hlt"
    BY <1>7, <2>0, <2>1 DEF ReAllocateMemoryForAP, boot
  <2>2. CASE idle # "Hlt"
    <3>1. Behind' = Aps
      BY <1>0, <1>7, <2>0 DEF ReAllocateMemoryForAP, place, Behind, PlaceInv
    <3> QED
      BY <1>7, <2>0, <2>2, <3>1, ApsAre DEF ReAllocateMemoryForAP, ToRelocate
  <2> QED
    BY <2>1, <2>2
<1>8. CASE Release
  BY <1>8 DEF Release, policy, rooms, counts, place, Behind
<1>9. CASE Released
  BY <1>9 DEF Released, policy, rooms, counts, place, Behind
<1>10. CASE ResetAps \/ Change
  BY <1>10 DEF ResetAps, Change, policy, rooms, counts, place, Behind
<1>11. CASE UNCHANGED vars
  BY <1>11 DEF vars, policy, rooms, counts, boot, place, Behind, Coming
<1> QED
  BY <1>A, <1>1, <1>2, <1>3, <1>4, <1>5, <1>6, <1>7, <1>8, <1>9, <1>10, <1>11 DEF Next, Bsp
-------------------------------------------------------------------------------
(***************************************************************************)
(* Late APs.                                                               *)
(***************************************************************************)
LEMMA RankIs ==
  ASSUME counted \subseteq Aps, NEW a \in counted
  PROVE  /\ Rank(a) \in 1..Cardinality(counted)
         /\ \A b \in counted : Rank(a) = Rank(b) => a = b
<1>1. \A c \in counted : c \in Nat
  BY ApsAre
<1>2. \A c : {b \in counted : b <= c} \in SUBSET Aps /\ IsFiniteSet({b \in counted : b <= c})
  BY SomeAps
<1>3. IsFiniteSet(counted)
  BY SomeAps
<1>4. \A c : Cardinality({b \in counted : b <= c}) \in Nat
  BY <1>2, FS_CardinalityType
<1>5. ASSUME NEW c \in counted, NEW d \in counted, c < d PROVE Rank(c) < Rank(d)
  <2> DEFINE C == {b \in counted : b <= c}
             D == {b \in counted : b <= d}
  <2>1. d \in D /\ C \subseteq D \ {d} /\ D \in SUBSET Aps
    BY <1>1, <1>2, <1>5
  <2>2. IsFiniteSet(D \ {d}) /\ Cardinality(D \ {d}) = Cardinality(D) - 1
    BY <1>2, <2>1, SomeAps, FS_RemoveElement
  <2>3. Cardinality(C) <= Cardinality(D \ {d})
    BY <2>1, <2>2, FS_Subset
  <2>4. Cardinality(C) \in Nat /\ Cardinality(D) \in Nat
    BY <1>4
  <2>5. Rank(c) = Cardinality(C) /\ Rank(d) = Cardinality(D)
    BY DEF Rank
  <2> HIDE DEF C, D
  <2> QED
    BY <2>2, <2>3, <2>4, <2>5
<1>6. Rank(a) \in 1..Cardinality(counted)
  <2> DEFINE A == {b \in counted : b <= a}
  <2>1. a \in A /\ A \subseteq counted /\ A \in SUBSET Aps
    BY <1>1
  <2>2. Cardinality(A) > 0 /\ Cardinality(A) \in Nat
    BY <1>4, <2>1, SomeAps
  <2>3. Cardinality(A) <= Cardinality(counted)
    BY <1>3, <2>1, FS_Subset
  <2>4. Cardinality(counted) \in Nat /\ Rank(a) = Cardinality(A)
    BY <1>3, FS_CardinalityType DEF Rank
  <2> HIDE DEF A
  <2> QED
    BY <2>2, <2>3, <2>4
<1>7. ASSUME NEW b \in counted, Rank(a) = Rank(b), a # b PROVE FALSE
  <2>1. a < b \/ b < a
    BY <1>1, <1>7
  <2>2. Rank(a) \in Nat /\ Rank(b) \in Nat
    BY <1>4 DEF Rank
  <2> QED
    BY <1>5, <1>7, <2>1, <2>2
<1> QED
  BY <1>6, <1>7

\* The count ends without some of the APs.
LEMMA BecomesLate ==
  ASSUME TypeOK, Inv, ~Late, [Next]_vars, Late'
  PROVE  LateInv'
<1>1. CountApNumberAndCollectBist
  <2>1. bsp' # bsp \/ counted' # counted
    BY DEF Late, Unnumbered
  <2>2. ASSUME ~CountApNumberAndCollectBist PROVE counted' = counted /\ ~(bsp = "count" /\ bsp' # "count")
    <3>1. ASSUME NEW a \in Aps, Ap(a) \/ Break(a) PROVE counted' = counted /\ bsp' = bsp
      BY <3>1 DEF Ap, Break, RendezvousFunnelProc, ProgramStack, WakeUpThisAp64, DetailedMpInitialization,
         ApProcWrapper, AsmRelocateApsInMwaitLoop, CheckWakeUpCounterInit64, CheckWakeUpManner64,
         CheckWakeUpManner32, ApMwaitLoop64, Wake, CheckRunSignal64, rooms, boot
    <3>2. ASSUME NEW p \in Aps, WakeUpAp(p) \/ Collect(p) PROVE counted' = counted /\ (bsp # "count" \/ bsp' = bsp)
      BY <3>2 DEF WakeUpAp, Collect, rooms, boot
    <3>3. CASE Bsp \/ ReAllocateMemoryForAP \/ ResetAps \/ UNCHANGED vars
      BY <2>2, <3>3 DEF Bsp, SendSipi, PollForInitialization, AssignManner, AssignWrapper, WakeUpStores,
         Release, Released, Change, ReAllocateMemoryForAP, ResetAps, vars, rooms, boot
    <3> QED
      BY <3>1, <3>2, <3>3 DEF Next
  <2>3. bsp = "sipi" => bsp' \in {"sipi", "count"} \/ CountApNumberAndCollectBist
    <3>1. ASSUME NEW a \in Aps, Ap(a) \/ Break(a) PROVE bsp' = bsp
      BY <3>1 DEF Ap, Break, RendezvousFunnelProc, ProgramStack, WakeUpThisAp64, DetailedMpInitialization,
         ApProcWrapper, AsmRelocateApsInMwaitLoop, CheckWakeUpCounterInit64, CheckWakeUpManner64,
         CheckWakeUpManner32, ApMwaitLoop64, Wake, CheckRunSignal64, boot
    <3>2. ASSUME NEW p \in Aps, WakeUpAp(p) \/ Collect(p) PROVE bsp # "sipi" \/ bsp' = bsp
      BY <3>2 DEF WakeUpAp, Collect, boot
    <3>3. CASE Bsp \/ ReAllocateMemoryForAP \/ ResetAps \/ UNCHANGED vars
      BY <3>3 DEF Bsp, SendSipi, PollForInitialization, AssignManner, AssignWrapper, WakeUpStores,
         Release, Released, Change, ReAllocateMemoryForAP, ResetAps, vars, boot
    <3> QED
      BY <3>1, <3>2, <3>3 DEF Next
  <2> QED
    BY <2>1, <2>2, <2>3 DEF Late, Unnumbered
<1>2. /\ bsp = "count" /\ bsp' = "detail" /\ InitFlag' = FALSE /\ counted' = {a \in Aps : Number[a] = 1}
      /\ UNCHANGED <<buffer, wakeUpBuffer, counts, data, line, pc, place>>
      /\ \A a \in Aps : Number'[a] = IF a \in counted' THEN Cardinality({b \in counted' : b <= a})
                                                       ELSE Number[a]
  BY <1>1 DEF CountApNumberAndCollectBist
<1>3. /\ \A a \in Aps : pc[a] \in {"start", "checkin", "first"} /\ (Number[a] = 1 => pc[a] = "first")
      /\ \A s \in Stacks : line[s].BreakToRunApSignal = 0
      /\ buffer["old"].ApFunction = "NULL"
  BY <1>2 DEF Inv, BringUpInv, BufferInv, BringUp, Unassigned
<1>4. wakeUpBuffer = "old" /\ \A a \in Aps : at[a] = "old"
  BY <1>2 DEF Inv, BufferInv, PlaceInv, BringUp, TypeOK
<1>5. \A a \in Aps : Number[a] \in {0, 1} /\ ~Procedure[a] /\ State[a] = "IDLE"
  BY <1>2 DEF Inv, FreshInv, BringUpInv, Unnumbered
<1>6. mFinishedCount' + Cardinality(Coming') <= N - 1
  <2>1. Coming' = Coming /\ mFinishedCount' = mFinishedCount
    BY <1>2 DEF Coming, counts
  <2>2. mFinishedCount = N - 1 - Cardinality(Coming) /\ Cardinality(Coming) \in 0..N - 1
    BY <1>2, SomeAps DEF Inv, CountInv, BringUp, Coming
  <2> QED
    BY <2>1, <2>2
<1>7. {"start", "checkin", "first"} \intersect Placed = {}
  BY DEF Placed, Loop, Functions
<1>8. \A a \in Aps : Number'[a] = IF a \in counted' THEN Rank(a)' ELSE Number[a]
  BY <1>2 DEF Rank
<1> QED
  BY <1>2, <1>3, <1>4, <1>5, <1>6, <1>7, <1>8 DEF LateInv, data, place

\* What an AP can do then.
LEMMA ApLate ==
  ASSUME TypeOK, LateInv, NEW a \in Aps, Ap(a) \/ Break(a)
  PROVE  /\ UNCHANGED <<bsp, InitFlag, counted, wakeUpBuffer, at, buffer, data>>
         /\ \E q \in Loop \union {"first", "call", "counter", "zero", "assigned",
                                  "DetailedMpInitialization", "ApProcWrapper"} :
              Goto(a, q) /\ (a \in Coming \/ q \notin {"first", "call", "DetailedMpInitialization"})
         /\ mFinishedCount' \in Nat
         /\ mFinishedCount' = mFinishedCount
              \/ (a \in Coming /\ mFinishedCount' = mFinishedCount + 1 /\ Goto(a, "counter"))
         /\ \A s \in Stacks : line'[s].BreakToRunApSignal = 0
<1> USE DEF LateInv
<1>0. /\ pc \in [Aps -> Placed \union {"off", "start", "checkin", "first"}]
      /\ line \in [Stacks -> Line] /\ mFinishedCount \in Nat
      /\ Here(a) = buffer["old"] /\ ~Signalled(a)
  BY ApsAre DEF TypeOK, Line, Here, Stacks, Signalled, Aps
<1>1. CASE RendezvousFunnelProc(a)
  BY <1>0, <1>1 DEF RendezvousFunnelProc, Coming, boot, place, counts
<1>2. CASE ProgramStack(a)
  BY <1>0, <1>2 DEF ProgramStack, Coming, rooms, boot, counts
<1>3. CASE WakeUpThisAp64(a)
  BY <1>0, <1>3 DEF WakeUpThisAp64, Coming, rooms, boot, place, counts
<1>4. CASE DetailedMpInitialization(a)
  BY <1>0, <1>4 DEF DetailedMpInitialization, Coming, rooms, boot, place, counts
<1>5. CASE ApProcWrapper(a)
  BY <1>0, <1>5 DEF ApProcWrapper, Coming, rooms, boot, place, counts
<1>6. CASE AsmRelocateApsInMwaitLoop(a)
  BY <1>0, <1>6 DEF AsmRelocateApsInMwaitLoop
<1>7. CASE CheckWakeUpCounterInit64(a)
  <2>1. \A s \in Stacks : line'[s].BreakToRunApSignal = 0
    BY <1>0, <1>7 DEF CheckWakeUpCounterInit64, Line
  <2> QED
    BY <1>0, <1>7, <2>1 DEF CheckWakeUpCounterInit64, Loop, rooms, boot, place, counts
<1>8. CASE CheckWakeUpManner64(a)
  <2>1. \E q \in Loop : Goto(a, q)
    BY <1>8 DEF CheckWakeUpManner64, Loop
  <2> QED
    BY <1>0, <1>8, <2>1 DEF CheckWakeUpManner64, Loop, rooms, boot, counts
<1>9. CASE CheckWakeUpManner32(a) \/ CheckRunSignal64(a)
  BY <1>0, <1>9 DEF CheckWakeUpManner32, CheckRunSignal64, Loop, rooms, boot, place, counts
<1>10. CASE ApMwaitLoop64(a) \/ Wake(a) \/ Break(a)
  BY <1>0, <1>10 DEF ApMwaitLoop64, Wake, Break, Loop, rooms, boot, place, counts
<1> QED
  BY <1>1, <1>2, <1>3, <1>4, <1>5, <1>6, <1>7, <1>8, <1>9, <1>10 DEF Ap

LEMMA StaysLate ==
  ASSUME TypeOK, Late, LateInv, [Next]_vars
  PROVE  Late' /\ LateInv'
<1> USE DEF LateInv
<1>0. /\ pc \in [Aps -> Placed \union {"off", "start", "checkin", "first"}]
      /\ stack \in [Aps -> Stacks] /\ Number \in [Aps -> Stacks]
      /\ mFinishedCount \in Nat /\ Coming \in SUBSET Aps
      /\ buffer \in [Buffers -> Room] /\ "old" \in Buffers
      /\ {"start", "checkin", "first"} \intersect Placed = {}
  BY DEF TypeOK, Stacks, Coming, Room, Buffers, Placed, Loop, Functions
<1>1. ASSUME NEW a \in Aps, Ap(a) \/ Break(a) PROVE Late' /\ LateInv'
  <2>1. /\ UNCHANGED <<bsp, InitFlag, counted, wakeUpBuffer, at, buffer, data>>
        /\ mFinishedCount' \in Nat
        /\ \A s \in Stacks : line'[s].BreakToRunApSignal = 0
    BY <1>1, ApLate
  <2>2. PICK q \in Loop \union {"first", "call", "counter", "zero", "assigned",
                                "DetailedMpInitialization", "ApProcWrapper"} :
          Goto(a, q) /\ (a \in Coming \/ q \notin {"first", "call", "DetailedMpInitialization"})
    BY <1>1, ApLate
  <2>3. pc'[a] = q /\ \A b \in Aps : b # a => pc'[b] = pc[b]
    BY <1>0, <2>2 DEF Goto
  <2>4. mFinishedCount' + Cardinality(Coming') <= N - 1
    <3>1. Coming' \subseteq Coming
      BY <2>2, <2>3 DEF Coming, Loop
    <3>2. CASE mFinishedCount' = mFinishedCount
      <4>1. IsFiniteSet(Coming) /\ Cardinality(Coming) \in Nat /\ Cardinality(Coming') \in Nat
        BY <1>0, <3>1, SomeAps
      <4>2. Cardinality(Coming') <= Cardinality(Coming)
        BY <3>1, <4>1, FS_Subset
      <4> QED
        BY <1>0, <3>2, <4>1, <4>2
    <3>3. CASE a \in Coming /\ mFinishedCount' = mFinishedCount + 1 /\ Goto(a, "counter")
      <4>1. pc'[a] = "counter"
        BY <1>0, <3>3 DEF Goto
      <4>2. Coming' \subseteq Coming \ {a}
        BY <3>1, <4>1 DEF Coming
      <4>3. /\ IsFiniteSet(Coming \ {a}) /\ Cardinality(Coming \ {a}) = Cardinality(Coming) - 1
            /\ Cardinality(Coming) \in Nat /\ Cardinality(Coming') \in Nat
        BY <1>0, <3>1, <3>3, SomeAps
      <4>4. Cardinality(Coming') <= Cardinality(Coming \ {a})
        BY <4>2, <4>3, FS_Subset
      <4> QED
        BY <1>0, <3>3, <4>3, <4>4
    <3> QED
      BY <1>1, <3>2, <3>3, ApLate
  <2>5. /\ \A b \in Aps : b # a => Number'[b] = Number[b] /\ stack'[b] = stack[b]
        /\ a \in counted => Number'[a] = Number[a]
        /\ a \notin counted => Number'[a] \in {0, 1}
    <3>1. CASE RendezvousFunnelProc(a)
      BY <1>0, <3>1 DEF RendezvousFunnelProc, place
    <3>2. CASE ~RendezvousFunnelProc(a)
      BY <1>0, <1>1, <3>2, Steps DEF ProgramStack, rooms
    <3> QED BY <3>1, <3>2
  <2>6. q \in Placed => /\ bsp # "detail"
                        /\ stack'[a] \in IF a \in counted THEN {Number[a]} ELSE {0, 1}
                        /\ Number'[a] = Number[a]
    <3>1. CASE RendezvousFunnelProc(a)
      BY <1>0, <2>3, <3>1 DEF RendezvousFunnelProc, Goto
    <3>2. CASE ProgramStack(a)
      BY <1>0, <3>2 DEF ProgramStack, Here, rooms
    <3>3. CASE ~RendezvousFunnelProc(a) /\ ~ProgramStack(a)
      BY <1>1, <2>3, <3>3, Steps
    <3> QED BY <3>1, <3>2, <3>3
  <2>7. \A b \in Aps : Rank(b)' = Rank(b)
    BY <2>1 DEF Rank
  <2>8. bsp = "detail" => q \notin Placed
    BY <2>6
  <2>9. q \notin {"off", "procedure", "clear", "AsmRelocateApsInMwaitLoop", "sync", "start", "checkin"}
    BY <2>2 DEF Loop
  <2>10. \A b \in Aps : pc'[b] \in Placed =>
           stack'[b] \in IF b \in counted THEN {Number'[b]} ELSE {0, 1}
    BY <2>3, <2>5, <2>6
  <2>11. Late'
    BY <2>1 DEF Late, Unnumbered
  <2> QED
    BY <2>1, <2>3, <2>4, <2>5, <2>7, <2>8, <2>9, <2>10, <2>11 DEF data
<1>2. CASE PollForInitialization \/ AssignManner \/ AssignWrapper
  <2>1. /\ UNCHANGED <<InitFlag, counted, wakeUpBuffer, at, data, line, Number, pc, stack, mFinishedCount>>
        /\ bsp' \in {"poll", "wrapper", "ready"}
        /\ buffer'["old"].ApFunction \in {"NULL", "DetailedMpInitialization", "ApProcWrapper"}
    BY <1>0, <1>2 DEF PollForInitialization, AssignManner, AssignWrapper, Assign, place, counts, Room
  <2>2. Coming' = Coming /\ \A b \in Aps : Rank(b)' = Rank(b)
    BY <2>1 DEF Coming, Rank
  <2>3. Late'
    BY <2>1 DEF Late, Unnumbered
  <2> QED
    BY <2>1, <2>2, <2>3 DEF data
<1>3. CASE UNCHANGED vars
  <2>1. Coming' = Coming /\ \A b \in Aps : Rank(b)' = Rank(b)
    BY <1>3 DEF Coming, Rank, vars, rooms
  <2> QED
    BY <1>3, <2>1 DEF vars, rooms, counts, data, boot, place, Late, Unnumbered
<1>4. ASSUME NEW p \in Aps, WakeUpAp(p) \/ Collect(p) PROVE FALSE
  BY <1>4 DEF WakeUpAp, Collect, Late
<1> QED
  BY <1>1, <1>2, <1>3, <1>4 DEF Next, Bsp, SendSipi, CountApNumberAndCollectBist, WakeUpStores, Release,
     Released, Change, ReAllocateMemoryForAP, ResetAps, Late
-------------------------------------------------------------------------------
(***************************************************************************)
(* The theorems.                                                           *)
(***************************************************************************)
\* Every variable keeps its type, and the invariant holds.
THEOREM Invariance == Spec => [](TypeOK /\ Whole)
<1>1. Init => TypeOK /\ Whole
  BY InitType, InitInv
<1>2. TypeOK /\ Whole /\ [Next]_vars => (TypeOK /\ Whole)'
  <2> SUFFICES ASSUME TypeOK, Whole, [Next]_vars PROVE (TypeOK /\ Whole)'
    OBVIOUS
  <2>1. TypeOK' /\ SleepInv'
    BY NextType, NextSleep DEF Whole
  <2>2. CASE Late
    BY <2>1, <2>2, StaysLate DEF Whole
  <2>3. CASE ~Late /\ Late'
    BY <2>1, <2>3, BecomesLate DEF Whole
  <2>4. CASE ~Late /\ ~Late'
    <3>1. Inv'
      BY <2>4, NextBringUp, NextFresh, NextBuffer, NextNumber, NextPlace, NextCount DEF Whole, Inv
    <3> QED
      BY <2>1, <2>4, <3>1 DEF Whole
  <2> QED
    BY <2>2, <2>3, <2>4
<1> QED
  BY <1>1, <1>2, PTL DEF Spec

\* Every variable keeps its type: no counter of APs leaves the range of the APs there
\* are, and every procedure that an AP jumps to is one of the firmware's.
THEOREM IdleTypeCorrect == Spec => []TypeOK
BY Invariance, PTL

\* Whenever the BSP stops waiting for APs, each one that it has counted gets a stack of its
\* own, that of its number; those that come later get no other than 0 and the first AP's.
THEOREM OwnStacks == Spec => []OwnStack
<1>1. TypeOK /\ Whole => OwnStack
  <2> SUFFICES ASSUME TypeOK, Whole, NEW a \in Aps, pc[a] \in Placed
               PROVE  IF a \in counted
                      THEN /\ stack[a] = Number[a] /\ Number[a] \in 1..Cardinality(counted)
                           /\ \A b \in counted : Number[b] = Number[a] => b = a
                      ELSE stack[a] \in {0, 1}
    BY DEF OwnStack
  <2>1. CASE Late
    <3>1. counted \subseteq Aps
      BY DEF TypeOK
    <3>2. CASE a \in counted
      <4>1. Rank(a) \in 1..Cardinality(counted) /\ \A b \in counted : Rank(a) = Rank(b) => a = b
        BY <3>1, <3>2, RankIs
      <4>2. /\ \A b \in counted : Number[b] = Rank(b)
            /\ stack[a] = Number[a]
        BY <2>1, <3>1, <3>2 DEF Whole, LateInv
      <4> QED BY <3>2, <4>1, <4>2
    <3> QED
      BY <2>1, <3>2 DEF Whole, LateInv
  <2>2. CASE ~Late
    <3>1. ~Unassigned /\ stack[a] = a /\ \A b \in Aps : ~Unnumbered => Number[b] = b
      BY <2>2 DEF Whole, Inv, NumberInv
    <3>2. counted = Aps /\ ~Unnumbered
      BY <2>2, <3>1 DEF Late, Unassigned, Unnumbered
    <3>3. a \in 1..Cardinality(counted)
      BY <3>2, ApsAre DEF Aps
    <3> QED
      BY <3>1, <3>2, <3>3
  <2> QED
    BY <2>1, <2>2
<1> QED
  BY <1>1, Invariance, PTL

\* When ReAllocateMemoryForAP has returned, no AP that is not halted is left in the
\* old buffer.
THEOREM NobodyLeftBehind == Spec => []NoneLeftBehind
<1>1. TypeOK /\ Whole => NoneLeftBehind
  <2> SUFFICES ASSUME TypeOK, Whole, wakeUpBuffer = "new", bsp \notin {"release", "released"}, idle # "Hlt"
               PROVE  \A a \in Aps : at[a] = "new"
    BY DEF NoneLeftBehind
  <2>0. Inv
    BY DEF Whole, LateInv
  <2>1. Behind \in SUBSET Aps /\ Cardinality(Behind) = 0
    BY <2>0 DEF Inv, CountInv, Moving, Relocating, Behind
  <2>2. Behind = {}
    BY <2>1, SomeAps
  <2> QED
    BY <2>2 DEF Behind, TypeOK
<1> QED
  BY <1>1, Invariance, PTL

\* An AP that sleeps with its monitor armed is in the C-state that its line asks for.
THEOREM SleepsRight == Spec => []RightSleep
<1>1. Whole => RightSleep
  BY DEF Whole, SleepInv, RightSleep
<1> QED
  BY <1>1, Invariance, PTL
===============================================================================
