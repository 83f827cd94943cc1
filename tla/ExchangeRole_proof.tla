------------------------- MODULE ExchangeRole_proof -------------------------
(***************************************************************************)
(* Theorems about SwitchBSP for every number of processors: the stacks are *)
(* safe when APs are halted, and in the run loop as long as no AP is reset *)
(* by a timeout.                                                           *)
(***************************************************************************)
EXTENDS ExchangeRole, TLAPS

USE NAssumption, MannerAssumption, TimeoutsAssumption

-----------------------------------------------------------------------------
(* The inductive invariant.  old is the processor that gives up the boot   *)
(* code, new the one that takes it over.                                   *)

Switching == pc[BSP] # "boot"
new       == op.target

Unstored == {"Push", "TryLock1", "LockObtained1"}
Stored   == {"TryLock2", "LockObtained2", "Load", "TryLock3", "LockObtained3"}
Loaded   == {"TryLock4", "LockObtained4", "Pop"}
Leaving  == {"TryLock3", "LockObtained3", "TryLock4", "LockObtained4", "Pop"}
OldDone  == {"finish", "ack", "parked", "woken"}
NewDone  == {"switched", "wait"}
Coming   == {"parked", "woken"}

(* An AP that takes no part in a switch. *)
Bystander(p) == p # BSP /\ (Switching => p # new)

ApOK(p) ==
  /\ rsp[p] # Boot /\ table[p] = "ap" /\ ~intr[p]
  /\ \/ State[p] = "IDLE" /\ proc[p] = "none" /\ pc[p] \in {"parked", "woken", "ack"}
     \/ State[p] = "READY" /\ proc[p] = "task" /\ pc[p] \in {"parked", "woken"}
     \/ State[p] = "BUSY" /\ proc[p] = "task" /\ pc[p] \in {"task", "finish"}
     \/ State[p] = "FINISHED" /\ proc[p] = "none" /\ pc[p] \in {"parked", "woken", "ack"}
  /\ Manner = "Hlt" =>
       /\ pc[p] \in {"woken", "task", "finish"} => rsp[p] = p
       /\ pc[p] = "ack" => rsp[p] = p \/ (~Switching /\ rsp[p] = BSP)

ApsOK == \A p \in Procs : Bystander(p) => ApOK(p)

BootOK ==
  ~Switching =>
    /\ rsp[BSP] = Boot /\ table[BSP] = "boot" /\ intr[BSP] = op.intr
    /\ State[BSP] \in {"IDLE", "BUSY"}

(* The old BSP during the switch. *)
OldOK ==
  /\ pc[BSP] \in Unstored \union Stored \union Loaded \union OldDone
  /\ Manner = "Hlt" => pc[BSP] # "woken"
  /\ ~intr[BSP]
  /\ info["BSPInfo"].State = CASE pc[BSP] \in Unstored -> "IDLE"
                               [] pc[BSP] \in Stored -> "STORED"
                               [] OTHER -> "LOADED"
  /\ pc[BSP] # "Push" =>
       /\ info["BSPInfo"].rsp = Boot /\ info["BSPInfo"].table = "boot"
       /\ frame[Boot] = [ret |-> "SwitchBSP", intr |-> FALSE]
  /\ IF pc[BSP] \in Leaving \union OldDone
       THEN rsp[BSP] = info["APInfo"].rsp /\ table[BSP] = "ap"
       ELSE rsp[BSP] = Boot /\ table[BSP] = "boot"
  /\ IF pc[BSP] \in {"ack", "parked", "woken"}
       THEN State[BSP] = "FINISHED" /\ proc[BSP] = "none"
       ELSE State[BSP] \in {"IDLE", "BUSY"}

(* The new BSP during the switch. *)
NewOK ==
  /\ new # BSP
  /\ pc[new] \in Coming \union Unstored \union Stored \union Loaded \union NewDone
  /\ proc[new] = "FutureBspProc"
  /\ State[new] = IF pc[new] \in Coming THEN "IDLE" ELSE "BUSY"
  /\ intr[new] = (pc[new] = "wait" /\ op.intr)
  /\ info["APInfo"].State = CASE pc[new] \in Coming \union Unstored -> "IDLE"
                              [] pc[new] \in Stored -> "STORED"
                              [] OTHER -> "LOADED"
  /\ pc[new] \in Coming \union {"Push"} =>
       /\ rsp[new] # Boot /\ table[new] = "ap"
       /\ Manner = "Hlt" => pc[new] # "parked" /\ rsp[new] = new
  /\ pc[new] \notin Coming \union {"Push"} =>
       /\ info["APInfo"].rsp # Boot /\ info["APInfo"].table = "ap"
       /\ frame[info["APInfo"].rsp] = [ret |-> "FutureBspProc", intr |-> FALSE]
       /\ Manner = "Hlt" => info["APInfo"].rsp = new
       /\ \A p \in Procs : p # BSP /\ p # new /\ rsp[p] = info["APInfo"].rsp => Gone(p)
       /\ IF pc[new] \in Leaving \union NewDone
            THEN rsp[new] = Boot /\ table[new] = "boot"
            ELSE rsp[new] = info["APInfo"].rsp /\ table[new] = "ap"

(* Neither loads before the other has stored, nor pops before the other    *)
(* has loaded.                                                             *)
Handshake ==
  /\ pc[BSP] \in {"Load"} \union Leaving \union OldDone
       => pc[new] \notin Coming \union Unstored
  /\ pc[new] \in {"Load"} \union Leaving \union NewDone
       => pc[BSP] \notin Unstored
  /\ pc[BSP] \in {"Pop"} \union OldDone => pc[new] \in Loaded \union NewDone
  /\ pc[new] \in {"Pop"} \union NewDone => pc[BSP] \in Loaded \union OldDone

SwitchOK == Switching => OldOK /\ NewOK /\ Handshake

(* Outside the exchange no two processors share a stack, but for APs that  *)
(* are halted.                                                             *)
Exclusive ==
  \A p, q \in Procs : p # q /\ rsp[p] = rsp[q] =>
    \/ Gone(p) \/ Gone(q)
    \/ Switching /\ {p, q} = {BSP, new}

Inv == TypeOK /\ ApsOK /\ BootOK /\ SwitchOK /\ Exclusive

-----------------------------------------------------------------------------
Alone == Labels \union {"Push", "Pop"}

(* Only the two processors of a switch are in AsmExchangeRole. *)
LEMMA Roles ==
  ASSUME Inv, NEW p \in Procs, pc[p] \in Alone \union {"switched", "wait"}
  PROVE  /\ Switching /\ new \in Procs /\ BSP \in Procs /\ new # BSP
         /\ p = BSP \/ p = new
         /\ pc[p] \in {"switched", "wait"} => p = new
BY DEF Inv, TypeOK, ApsOK, ApOK, Bystander, SwitchOK, NewOK, OldOK, Switching, new, Alone, Labels,
       Unstored, Stored, Loaded, OldDone

(* The invariant holds when SwitchBSP is first called. *)
LEMMA InitInv == Init => Inv
<1> SUFFICES ASSUME Init PROVE Inv
  OBVIOUS
<1>1. TypeOK
  BY DEF Init, TypeOK, Procs, CpuState, Procedures, Phase, Stacks, Boot, Tables, Infos, SwitchState
<1>2. ~Switching /\ BSP = 0 /\ 0 \in Procs
  BY DEF Init, Switching, Procs
<1>3. ApsOK
  BY <1>2 DEF Init, ApsOK, ApOK, Bystander, Procs, Boot
<1>4. BootOK
  BY <1>2 DEF Init, BootOK
<1>5. SwitchOK
  BY <1>2 DEF SwitchOK
<1>6. Exclusive
  BY DEF Init, Exclusive, Procs, Boot
<1> QED
  BY <1>1, <1>3, <1>4, <1>5, <1>6 DEF Inv

Info == [Lock : BOOLEAN, State : SwitchState, rsp : Stacks, table : Tables]

(* WakeUpAp keeps the types of what it writes. *)
LEMMA WakeType ==
  ASSUME TypeOK, NEW p \in Procs, NEW x \in Procedures, NEW pcs \in [Procs -> Phase],
         WakeUpAp(p, x, pcs)
  PROVE  /\ proc' \in [Procs -> Procedures] /\ pc' \in [Procs -> Phase]
         /\ signal' \in [Procs -> BOOLEAN]
         /\ rsp' \in [Procs -> Stacks] /\ table' \in [Procs -> Tables]
<1>1. p \in Stacks /\ "woken" \in Phase /\ "ap" \in Tables
  BY DEF Procs, Stacks, Phase, Tables
<1>2. CASE Manner = "Hlt"
  <2>1. /\ pc' = [pcs EXCEPT ![p] = "woken"] /\ rsp' = [rsp EXCEPT ![p] = p]
        /\ table' = [table EXCEPT ![p] = "ap"] /\ signal' = signal
        /\ proc' = [proc EXCEPT ![p] = x]
    BY <1>2 DEF WakeUpAp, Restart
  <2>2. /\ proc \in [Procs -> Procedures] /\ signal \in [Procs -> BOOLEAN]
        /\ rsp \in [Procs -> Stacks] /\ table \in [Procs -> Tables]
    BY DEF TypeOK
  <2> QED
    BY <1>1, <2>1, <2>2
<1>3. CASE Manner # "Hlt"
  BY <1>3 DEF TypeOK, WakeUpAp
<1> QED
  BY <1>2, <1>3

(* The fields of an EXCHANGE_INFO that are written together. *)
LEMMA FieldTypes ==
  ASSUME NEW x \in Info, NEW k \in BOOLEAN, NEW s \in SwitchState, NEW r \in Stacks,
         NEW t \in Tables
  PROVE  /\ [x EXCEPT !.Lock = k] \in Info
         /\ [x EXCEPT !.State = s, !.Lock = k] \in Info
         /\ [x EXCEPT !.rsp = r, !.table = t] \in Info
BY DEF Info

(* One EXCHANGE_INFO replaced by another. *)
LEMMA UpdateType ==
  ASSUME info \in [Infos -> Info], NEW i \in Infos, NEW v, v \in Info
  PROVE  [info EXCEPT ![i] = v] \in [Infos -> Info]
OBVIOUS

(* Every step keeps the types. *)
LEMMA TypeStep == TypeOK /\ [Next]_vars => TypeOK'
<1> SUFFICES ASSUME TypeOK, [Next]_vars PROVE TypeOK'
  OBVIOUS
<1>a. \A p \in Procs : p \in Stacks
  BY DEF Procs, Stacks
<1>b. \A x \in Labels \union {"boot", "Push", "Pop", "switched", "wait", "parked", "woken",
                              "task", "finish", "ack"} : x \in Phase
  BY DEF Phase
<1>c. Infos = {"BSPInfo", "APInfo"} /\ \A p : Mine(p) \in Infos /\ Others(p) \in Infos
  BY DEF Infos, Mine, Others
<1>d. /\ info \in [Infos -> Info]
      /\ \A p \in Procs : rsp[p] \in Stacks /\ table[p] \in Tables
      /\ \A i \in Infos : /\ info[i].State \in SwitchState
                          /\ info[i].rsp \in Stacks /\ info[i].table \in Tables
  BY DEF TypeOK, Info
<1> USE DEF cpuVars, runVars
<1>0. CASE UNCHANGED vars
  BY <1>0 DEF vars, TypeOK
<1>1. ASSUME NEW p \in Procs, StartupThisAP(p) PROVE TypeOK'
  <2>1. WakeUpAp(p, "task", pc) /\ "task" \in Procedures /\ pc \in [Procs -> Phase]
    BY <1>1 DEF StartupThisAP, TypeOK, Procedures
  <2> QED
    BY <1>1, <2>1, WakeType DEF StartupThisAP, TypeOK, CpuState
<1>2. ASSUME NEW p \in Procs, Collect(p) PROVE TypeOK'
  BY <1>2 DEF Collect, TypeOK, CpuState
<1>3. ASSUME NEW p \in Procs, Expire(p) PROVE TypeOK'
  BY <1>3, <1>a, <1>b DEF Expire, Restart, TypeOK, CpuState, Procedures, Tables
<1>4. ASSUME NEW q \in Procs, SwitchBSP(q) PROVE TypeOK'
  <2>1. ResetInfo \in [Infos -> Info]
    BY <1>d DEF ResetInfo, Info, SwitchState
  <2>2. [pc EXCEPT ![BSP] = "Push"] \in [Procs -> Phase]
    BY <1>b DEF TypeOK
  <2>3. "FutureBspProc" \in Procedures
    BY DEF Procedures
  <2>4. WakeUpAp(q, "FutureBspProc", [pc EXCEPT ![BSP] = "Push"])
    BY <1>4 DEF SwitchBSP
  <2>5. /\ proc' \in [Procs -> Procedures] /\ pc' \in [Procs -> Phase]
        /\ signal' \in [Procs -> BOOLEAN]
        /\ rsp' \in [Procs -> Stacks] /\ table' \in [Procs -> Tables]
    BY <2>2, <2>3, <2>4, WakeType
  <2>6. intr' \in [Procs -> BOOLEAN] /\ op' \in [target : Procs, intr : BOOLEAN]
    BY <1>4 DEF SwitchBSP, TypeOK
  <2> QED
    BY <1>4, <2>1, <2>5, <2>6 DEF SwitchBSP, TypeOK, Info
<1>5. ASSUME NEW p \in Procs, Ap(p) PROVE TypeOK'
  <2>1. CASE Break(p)
    BY <2>1, <1>b DEF Break, TypeOK
  <2>2. CASE Enter(p)
    BY <2>2, <1>b DEF Enter, TypeOK, CpuState, Procedures
  <2>3. CASE TaskReturns(p)
    BY <2>3, <1>b DEF TaskReturns, TypeOK
  <2>4. CASE Finish(p)
    BY <2>4, <1>b DEF Finish, TypeOK, CpuState, Procedures
  <2>5. CASE Ack(p)
    BY <2>5, <1>b DEF Ack, TypeOK
  <2> QED
    BY <1>5, <2>1, <2>2, <2>3, <2>4, <2>5 DEF Ap
<1>6. ASSUME NEW p \in Procs, Push(p) PROVE TypeOK'
  <2> DEFINE i == Mine(p)
  <2>0. i \in Infos /\ [info[i] EXCEPT !.rsp = rsp[p], !.table = table[p]] \in Info
    BY <1>c, <1>d, FieldTypes
  <2>1. [info EXCEPT ![i].rsp = rsp[p], ![i].table = table[p]] \in [Infos -> Info]
    BY <1>d, <2>0, UpdateType
  <2>2. frame' \in [Stacks -> [ret : {"SwitchBSP", "FutureBspProc"}, intr : BOOLEAN]]
    BY <1>6, <1>d DEF Push, TypeOK
  <2>3. pc' \in [Procs -> Phase]
    BY <1>6, <1>b DEF Push, TypeOK, Labels
  <2> QED
    BY <1>6, <2>1, <2>2, <2>3 DEF Push, TypeOK, Info
<1>7. ASSUME NEW p \in Procs, Acquire(p) PROVE TypeOK'
  <2>1. PICK label \in Labels, i \in Infos, next \in Labels : TryLock(p, label, i, next)
    BY <1>7, <1>c DEF Acquire, Labels
  <2>2. [info EXCEPT ![i].Lock = TRUE] \in [Infos -> Info]
    <3>1. [info[i] EXCEPT !.Lock = TRUE] \in Info
      BY <1>d, FieldTypes
    <3> QED
      BY <1>d, <3>1, UpdateType
  <2> QED
    BY <1>b, <2>1, <2>2 DEF TryLock, TypeOK, Info
<1>8. ASSUME NEW p \in Procs, Store(p) \/ SetLoaded(p) PROVE TypeOK'
  <2>1. PICK label \in Labels, state \in SwitchState, next \in Labels :
          SetState(p, label, state, next)
    BY <1>8 DEF Store, SetLoaded, SwitchState, Labels
  <2> DEFINE i == Mine(p)
  <2>2. [info EXCEPT ![i].State = state, ![i].Lock = FALSE] \in [Infos -> Info]
    <3>1. i \in Infos /\ [info[i] EXCEPT !.State = state, !.Lock = FALSE] \in Info
      BY <1>c, <1>d, FieldTypes
    <3> QED
      BY <1>d, <3>1, UpdateType
  <2> QED
    BY <1>b, <2>1, <2>2 DEF SetState, TypeOK, Info
<1>9. ASSUME NEW p \in Procs, SeeStored(p) \/ SeeLoaded(p) PROVE TypeOK'
  <2> DEFINE i == Others(p)
  <2>1. [info EXCEPT ![i].Lock = FALSE] \in [Infos -> Info]
    <3>1. i \in Infos /\ [info[i] EXCEPT !.Lock = FALSE] \in Info
      BY <1>c, <1>d, FieldTypes
    <3> QED
      BY <1>d, <3>1, UpdateType
  <2>2. "Load" \in Phase /\ "TryLock2" \in Phase /\ "Pop" \in Phase /\ "TryLock4" \in Phase
    BY DEF Phase, Labels
  <2>3. pc' \in [Procs -> Phase]
    BY <1>9, <2>2 DEF SeeStored, SeeLoaded, SeeState, TypeOK
  <2> QED
    BY <1>9, <2>1, <2>3 DEF SeeStored, SeeLoaded, SeeState, TypeOK, Info
<1>10. ASSUME NEW p \in Procs, Load(p) PROVE TypeOK'
  BY <1>10, <1>b, <1>c, <1>d DEF Load, TypeOK, Labels
<1>11. ASSUME NEW p \in Procs, Pop(p) PROVE TypeOK'
  <2>1. frame[rsp[p]].intr \in BOOLEAN
    BY <1>d DEF TypeOK
  <2> QED
    BY <1>11, <1>b, <2>1 DEF Pop, TypeOK
<1>12. ASSUME NEW p \in Procs, Switch(p) PROVE TypeOK'
  <2>1. CASE EnableInterrupt(p)
    <3>1. (intr[p] \/ op.intr) \in BOOLEAN
      OBVIOUS
    <3>2. intr' = [intr EXCEPT ![p] = intr[p] \/ op.intr]
      BY <2>1 DEF EnableInterrupt
    <3>3. intr' \in [Procs -> BOOLEAN]
      BY <3>1, <3>2, Zenon DEF TypeOK
    <3>4. /\ pc' = [pc EXCEPT ![p] = "wait"] /\ "wait" \in Phase
          /\ BSP' = BSP /\ State' = State /\ proc' = proc /\ rsp' = rsp /\ table' = table
          /\ signal' = signal /\ frame' = frame /\ info' = info /\ op' = op
      BY <2>1, <1>b DEF EnableInterrupt
    <3>5. pc' \in [Procs -> Phase]
      BY <3>4 DEF TypeOK
    <3> QED
      BY <3>3, <3>4, <3>5, Zenon DEF TypeOK
  <2>2. CASE SwitchDone(p)
    BY <2>2, <1>b DEF SwitchDone, TypeOK, CpuState
  <2> QED
    BY <1>12, <2>1, <2>2 DEF Switch
<1> QED
  BY <1>0, <1>1, <1>2, <1>3, <1>4, <1>5, <1>6, <1>7, <1>8, <1>9, <1>10, <1>11, <1>12
     DEF Next, Exchange

-----------------------------------------------------------------------------
(* The boot code, outside a switch. *)

Safe == Manner = "Hlt" \/ ~Timeouts

(* Between switches only a halted AP sits on the stack of another AP. *)
LEMMA OthersStack ==
  ASSUME Inv, ~Switching, Manner = "Hlt", NEW p \in Procs, p # BSP,
         NEW q \in Procs, q # p, rsp[q] = p
  PROVE  Gone(q)
<1>1. q # BSP
  BY DEF Inv, BootOK, Boot, Procs
<1>2. ApOK(q)
  BY <1>1 DEF Inv, ApsOK, Bystander
<1>3. pc[q] \notin {"woken", "task", "finish", "ack"}
  BY <1>2 DEF ApOK
<1>4. pc[q] = "parked"
  BY <1>2, <1>3 DEF ApOK
<1> QED
  BY <1>4 DEF Gone

(* Waking, collecting and resetting an AP keep the invariant. *)
LEMMA DispatchInv ==
  ASSUME Inv, Safe, NEW p \in Procs, StartupThisAP(p) \/ Collect(p) \/ Expire(p)
  PROVE  ApsOK' /\ BootOK' /\ SwitchOK' /\ Exclusive'
<1> USE DEF cpuVars, runVars
<1>1. ~Switching /\ p # BSP /\ BSP' = BSP /\ BSP \in Procs /\ ApOK(p)
  BY DEF Inv, TypeOK, Switching, StartupThisAP, Collect, Expire, ApsOK, Bystander
<1>2. ~Switching'
  BY <1>1 DEF Switching, StartupThisAP, Collect, Expire, WakeUpAp, Restart, Inv, TypeOK
<1>3. ApsOK'
  <2> SUFFICES ASSUME NEW q \in Procs, q # BSP PROVE ApOK(q)'
    BY <1>1 DEF ApsOK, Bystander
  <2>1. ApOK(q)
    BY <1>1 DEF Inv, ApsOK, Bystander
  <2>2. CASE StartupThisAP(p)
    BY <1>1, <1>2, <2>1, <2>2
       DEF StartupThisAP, WakeUpAp, Restart, ApOK, Settled, Inv, TypeOK, Procs, Boot
  <2>3. CASE Collect(p)
    BY <1>1, <1>2, <2>1, <2>3 DEF Collect, ApOK, Inv, TypeOK
  <2>4. CASE Expire(p)
    BY <1>1, <1>2, <2>1, <2>4 DEF Expire, Restart, ApOK, Inv, TypeOK, Safe, Procs, Boot
  <2> QED
    BY <2>2, <2>3, <2>4
<1>4. BootOK'
  BY <1>1, <1>2 DEF BootOK, Inv, TypeOK, StartupThisAP, Collect, Expire, WakeUpAp, Restart
<1>5. SwitchOK'
  BY <1>2 DEF SwitchOK
<1>6. Exclusive'
  <2> SUFFICES ASSUME NEW q \in Procs, NEW r \in Procs, q # r, rsp'[q] = rsp'[r]
               PROVE  Gone(q)' \/ Gone(r)'
    BY DEF Exclusive
  <2>1. CASE rsp' = rsp /\ pc' = pc
    BY <1>1, <2>1 DEF Exclusive, Inv, Gone
  <2>2. CASE Restart(p, pc) /\ Manner = "Hlt"
    BY <1>1, <2>2, OthersStack DEF Restart, Exclusive, Inv, Gone, TypeOK
  <2> QED
    BY <2>1, <2>2 DEF StartupThisAP, Collect, Expire, WakeUpAp, Safe
<1> QED
  BY <1>3, <1>4, <1>5, <1>6

(* SwitchBSP, up to the exchange, establishes what the exchange needs. *)
LEMMA SwitchBSPInv ==
  ASSUME Inv, NEW q \in Procs, SwitchBSP(q)
  PROVE  ApsOK' /\ BootOK' /\ SwitchOK' /\ Exclusive'
<1> USE DEF cpuVars, runVars
<1>1. /\ ~Switching /\ q # BSP /\ BSP' = BSP /\ BSP \in Procs /\ ApOK(q)
      /\ State[q] = "IDLE" /\ \A p \in Procs : pc[p] # "ack"
  BY DEF Inv, TypeOK, Switching, SwitchBSP, ApsOK, Bystander, Settled
<1>2. Switching' /\ new' = q /\ pc'[BSP] = "Push" /\ proc'[q] = "FutureBspProc"
  BY <1>1 DEF Switching, SwitchBSP, WakeUpAp, Restart, Inv, TypeOK, new
<1>3. \A p \in Procs : p # q /\ p # BSP =>
        /\ pc'[p] = pc[p] /\ rsp'[p] = rsp[p] /\ table'[p] = table[p] /\ intr'[p] = intr[p]
        /\ State'[p] = State[p] /\ proc'[p] = proc[p]
  BY DEF SwitchBSP, WakeUpAp, Restart, Inv, TypeOK
<1>4. ApsOK'
  BY <1>1, <1>2, <1>3 DEF ApsOK, ApOK, Bystander, Inv
<1>5. BootOK'
  BY <1>2 DEF BootOK
<1>6. OldOK'
  <2>1. info'["BSPInfo"].State = "IDLE" /\ intr'[BSP] = FALSE
    BY <1>1 DEF SwitchBSP, ResetInfo, Infos, Inv, TypeOK
  <2>2. rsp'[BSP] = Boot /\ table'[BSP] = "boot" /\ State'[BSP] \in {"IDLE", "BUSY"}
    BY <1>1 DEF SwitchBSP, WakeUpAp, Restart, Inv, TypeOK, BootOK
  <2> QED
    BY <1>1, <1>2, <2>1, <2>2 DEF OldOK, Unstored, Stored, Loaded, Leaving, OldDone
<1>7. NewOK'
  <2>1. IF Manner = "Hlt" THEN pc'[q] = "woken" /\ rsp'[q] = q /\ table'[q] = "ap"
                          ELSE pc'[q] = pc[q] /\ rsp'[q] = rsp[q] /\ table'[q] = table[q]
    BY <1>1 DEF SwitchBSP, WakeUpAp, Restart, Inv, TypeOK
  <2>2. pc'[q] \in Coming /\ rsp'[q] # Boot /\ table'[q] = "ap"
    BY <1>1, <2>1 DEF ApOK, Coming, Procs, Boot
  <2>3. info'["APInfo"].State = "IDLE"
    BY <1>1 DEF SwitchBSP, ResetInfo, Infos, Inv, TypeOK
  <2>4. State'[q] = "IDLE" /\ intr'[q] = FALSE
    BY <1>1 DEF SwitchBSP, ApOK, Inv, TypeOK
  <2> QED
    BY <1>1, <1>2, <2>1, <2>2, <2>3, <2>4 DEF NewOK, Coming, Unstored, Stored, Loaded, NewDone
<1>8. Handshake'
  <2>1. pc'[q] \in Coming
    BY <1>1 DEF SwitchBSP, WakeUpAp, Restart, Inv, TypeOK, ApOK, Coming
  <2> QED
    BY <1>1, <1>2, <2>1 DEF Handshake, Coming, Leaving, OldDone, NewDone
<1>9. Exclusive'
  <2> SUFFICES ASSUME NEW p \in Procs, NEW r \in Procs, p # r, rsp'[p] = rsp'[r]
               PROVE  Gone(p)' \/ Gone(r)' \/ {p, r} = {BSP, q}
    BY <1>1, <1>2 DEF Exclusive
  <2>1. CASE Manner # "Hlt"
    BY <1>1, <2>1 DEF SwitchBSP, WakeUpAp, Exclusive, Inv, Gone
  <2>2. CASE Manner = "Hlt"
    BY <1>1, <1>2, <2>2, OthersStack DEF SwitchBSP, WakeUpAp, Restart, Exclusive, Inv, Gone, TypeOK
  <2> QED
    BY <2>1, <2>2
<1> QED
  BY <1>4, <1>5, <1>6, <1>7, <1>8, <1>9 DEF SwitchOK

-----------------------------------------------------------------------------
(* The loop of the APs. *)

(* What a step of an AP leaves alone. *)
LEMMA ApFrame ==
  ASSUME Inv, NEW p \in Procs, Ap(p)
  PROVE  /\ BSP' = BSP /\ op' = op /\ info' = info /\ frame' = frame
         /\ rsp' = rsp /\ table' = table /\ intr' = intr
         /\ \A q \in Procs : q # p => pc'[q] = pc[q] /\ State'[q] = State[q] /\ proc'[q] = proc[q]
         /\ \A q \in Procs : Gone(q) => Gone(q)'
BY DEF Ap, Break, Enter, TaskReturns, Finish, Ack, runVars, cpuVars, Inv, TypeOK, Gone

(* A step of an AP keeps the invariant, be it a bystander, the old BSP on  *)
(* its way to the idle loop, or the new one on its way to the exchange.    *)
LEMMA ApInv ==
  ASSUME Inv, NEW p \in Procs, Ap(p)
  PROVE  ApsOK' /\ BootOK' /\ SwitchOK' /\ Exclusive'
<1>1. /\ BSP \in Procs /\ pc \in [Procs -> Phase] /\ State \in [Procs -> CpuState]
      /\ proc \in [Procs -> Procedures]
  BY DEF Inv, TypeOK
<1>2. Switching' = Switching /\ new' = new
  <2>1. pc[p] \in {"parked", "woken", "task", "finish", "ack"}
    BY DEF Ap, Break, Enter, TaskReturns, Finish, Ack
  <2>2. pc'[p] # "boot"
    BY <1>1 DEF Ap, Break, Enter, TaskReturns, Finish, Ack, Procedures
  <2> QED
    BY <1>1, <2>1, <2>2, ApFrame DEF Switching, new
<1>3. Exclusive'
  BY <1>2, ApFrame DEF Exclusive, Inv
<1>4. CASE Bystander(p)
  <2>1. ApOK(p)
    BY <1>4 DEF Inv, ApsOK
  <2>2. ApOK(p)'
    <3>1. CASE Break(p)
      BY <1>1, <1>2, <2>1, <3>1 DEF Break, ApOK, cpuVars, runVars
    <3>2. CASE Enter(p)
      BY <1>1, <1>2, <2>1, <3>2 DEF Enter, ApOK, runVars
    <3>3. CASE TaskReturns(p)
      BY <1>1, <1>2, <2>1, <3>3 DEF TaskReturns, ApOK, cpuVars, runVars
    <3>4. CASE Finish(p)
      BY <1>1, <1>2, <2>1, <3>4 DEF Finish, ApOK, runVars
    <3>5. CASE Ack(p)
      BY <1>1, <1>2, <2>1, <3>5 DEF Ack, ApOK, cpuVars, runVars
    <3> QED
      BY <3>1, <3>2, <3>3, <3>4, <3>5 DEF Ap
  <2>3. ApsOK'
    BY <1>2, <2>2, ApFrame DEF ApsOK, ApOK, Bystander, Inv
  <2>4. BootOK'
    BY <1>1, <1>2, <1>4, ApFrame DEF BootOK, Bystander, Inv
  <2>5. SwitchOK'
    <3> SUFFICES ASSUME Switching PROVE OldOK' /\ NewOK' /\ Handshake'
      BY <1>2 DEF SwitchOK
    <3>1. OldOK /\ NewOK /\ Handshake /\ p # BSP /\ p # new /\ new \in Procs
      BY <1>4 DEF Inv, SwitchOK, Bystander, TypeOK, new
    <3>2. pc'[BSP] = pc[BSP] /\ State'[BSP] = State[BSP] /\ proc'[BSP] = proc[BSP]
      BY <1>1, <3>1, ApFrame
    <3>3. pc'[new] = pc[new] /\ State'[new] = State[new] /\ proc'[new] = proc[new]
      BY <3>1, ApFrame
    <3>4. OldOK'
      BY <3>1, <3>2, ApFrame DEF OldOK
    <3>5. NewOK'
      BY <1>2, <3>1, <3>3, ApFrame DEF NewOK
    <3>6. Handshake'
      BY <1>2, <3>1, <3>2, <3>3, ApFrame DEF Handshake
    <3> QED
      BY <3>4, <3>5, <3>6
  <2> QED
    BY <1>3, <2>3, <2>4, <2>5
<1>5. CASE ~Bystander(p)
  <2>1. Switching /\ new \in Procs /\ new # BSP /\ (p = BSP \/ p = new)
    BY <1>1, <1>5 DEF Ap, Break, Enter, TaskReturns, Finish, Ack, Bystander, Switching, Inv,
       SwitchOK, NewOK, TypeOK, new
  <2>2. OldOK /\ NewOK /\ Handshake
    BY <2>1 DEF Inv, SwitchOK
  <2>3. ApsOK'
    BY <1>2, <2>1, ApFrame DEF ApsOK, ApOK, Bystander, Inv
  <2>4. BootOK'
    BY <1>2, <2>1 DEF BootOK
  <2>5. CASE p = BSP
    <3>1. pc[BSP] \in OldDone /\ (Manner = "Hlt" => pc[BSP] # "woken")
      BY <1>1, <2>2, <2>5 DEF Ap, Break, Enter, TaskReturns, Finish, Ack, OldOK, Unstored, Stored,
         Loaded, OldDone
    <3>2. /\ pc'[BSP] \in {"ack", "parked", "woken"} /\ (Manner = "Hlt" => pc'[BSP] # "woken")
          /\ State'[BSP] = "FINISHED" /\ proc'[BSP] = "none"
      BY <1>1, <2>2, <2>5, <3>1 DEF Ap, Break, Enter, TaskReturns, Finish, Ack, OldOK, OldDone,
         cpuVars
    <3>3. pc'[new] = pc[new] /\ State'[new] = State[new] /\ proc'[new] = proc[new]
      BY <2>1, <2>5, ApFrame
    <3>4. OldOK'
      BY <2>2, <3>1, <3>2, ApFrame DEF OldOK, Unstored, Stored, Loaded, Leaving, OldDone
    <3>5. NewOK'
      BY <1>2, <2>2, <3>3, ApFrame DEF NewOK
    <3>6. Handshake'
      BY <1>2, <2>2, <3>1, <3>2, <3>3, ApFrame
         DEF Handshake, Leaving, OldDone, NewDone, Loaded, Unstored, Coming
    <3> QED
      BY <1>3, <2>1, <2>3, <2>4, <3>4, <3>5, <3>6 DEF SwitchOK
  <2>6. CASE p = new
    <3>1. pc[new] \in Coming
      BY <1>1, <2>2, <2>6 DEF Ap, Break, Enter, TaskReturns, Finish, Ack, NewOK, Unstored, Stored,
         Loaded, NewDone, Coming
    <3>2. /\ \/ pc'[new] = "woken" /\ pc[new] = "parked" /\ State'[new] = State[new]
             \/ pc'[new] = "Push" /\ State'[new] = "BUSY"
          /\ proc'[new] = "FutureBspProc"
      BY <1>1, <2>2, <2>6, <3>1 DEF Ap, Break, Enter, TaskReturns, Finish, Ack, NewOK, Coming,
         cpuVars
    <3>3. pc'[BSP] = pc[BSP] /\ State'[BSP] = State[BSP] /\ proc'[BSP] = proc[BSP]
      BY <1>1, <2>1, <2>6, ApFrame
    <3>4. OldOK'
      BY <2>2, <3>3, ApFrame DEF OldOK
    <3>5. NewOK'
      BY <1>2, <2>2, <3>1, <3>2, ApFrame DEF NewOK, Coming, Unstored, Stored, Loaded, Leaving,
         NewDone
    <3>6. Handshake'
      BY <1>2, <2>2, <3>1, <3>2, <3>3, ApFrame
         DEF Handshake, Leaving, OldDone, NewDone, Loaded, Unstored, Coming
    <3> QED
      BY <1>3, <2>1, <2>3, <2>4, <3>4, <3>5, <3>6 DEF SwitchOK
  <2> QED
    BY <2>1, <2>5, <2>6
<1> QED
  BY <1>4, <1>5

-----------------------------------------------------------------------------
(* AsmExchangeRole. *)

(* The exchange and SwitchBSP's EnableInterrupts after it. *)
Merge(p) == Push(p) \/ Acquire(p) \/ Store(p) \/ SeeStored(p) \/ Load(p) \/ SetLoaded(p)
            \/ SeeLoaded(p) \/ Pop(p) \/ EnableInterrupt(p)

(* What such a step leaves alone. *)
LEMMA MergeFrame ==
  ASSUME Inv, NEW p \in Procs, Merge(p)
  PROVE  /\ Switching /\ Switching' /\ BSP \in Procs /\ new \in Procs /\ new # BSP
         /\ p = BSP \/ p = new
         /\ OldOK /\ NewOK /\ Handshake
         /\ BSP' = BSP /\ op' = op /\ State' = State /\ proc' = proc /\ new' = new
         /\ \A q \in Procs : q # p =>
              pc'[q] = pc[q] /\ rsp'[q] = rsp[q] /\ table'[q] = table[q] /\ intr'[q] = intr[q]
         /\ \A q \in Procs : Gone(q) => Gone(q)'
         /\ pc[p] \in Alone \union {"switched"} /\ pc'[p] # "boot"
<1>1. pc[p] \in Alone \union {"switched"} /\ pc'[p] # "boot"
  BY DEF Merge, Push, Acquire, TryLock, Store, SetLoaded, SetState, SeeStored, SeeLoaded, SeeState,
     Load, Pop, EnableInterrupt, Alone, Labels, Inv, TypeOK
<1>2. /\ Switching /\ BSP \in Procs /\ new \in Procs /\ new # BSP /\ (p = BSP \/ p = new)
      /\ OldOK /\ NewOK /\ Handshake
  BY <1>1, Roles DEF Inv, SwitchOK
<1>3. /\ BSP' = BSP /\ op' = op /\ State' = State /\ proc' = proc
      /\ \A q \in Procs : q # p =>
           pc'[q] = pc[q] /\ rsp'[q] = rsp[q] /\ table'[q] = table[q] /\ intr'[q] = intr[q]
  BY DEF Merge, Push, Acquire, TryLock, Store, SetLoaded, SetState, SeeStored, SeeLoaded, SeeState,
     Load, Pop, EnableInterrupt, runVars, cpuVars, Inv, TypeOK
<1>4. \A q \in Procs : Gone(q) => Gone(q)'
  BY <1>1, <1>3 DEF Gone, Alone, Labels
<1> QED
  BY <1>1, <1>2, <1>3, <1>4 DEF Switching, new

(* What remains to be shown of a step of the exchange. *)
LEMMA MergeInv ==
  ASSUME Inv, NEW p \in Procs, Merge(p), OldOK', NewOK', Handshake', Exclusive'
  PROVE  ApsOK' /\ BootOK' /\ SwitchOK' /\ Exclusive'
<1>1. ApsOK'
  BY MergeFrame DEF ApsOK, ApOK, Bystander, Inv
<1> QED
  BY <1>1, MergeFrame DEF BootOK, SwitchOK

(* A step that loads no stack pointer. *)
LEMMA SameStacks ==
  ASSUME Inv, NEW p \in Procs, Merge(p), rsp' = rsp
  PROVE  Exclusive'
BY MergeFrame DEF Exclusive, Inv

(* Taking a lock. *)
LEMMA AcquireInv ==
  ASSUME Inv, NEW p \in Procs, Acquire(p)
  PROVE  OldOK' /\ NewOK' /\ Handshake' /\ Exclusive'
<1> USE MergeFrame DEF Merge
<1>1. PICK label, i, next : TryLock(p, label, i, next) /\ i \in Infos /\
        \/ label = "TryLock1" /\ next = "LockObtained1"
        \/ label = "TryLock2" /\ next = "LockObtained2"
        \/ label = "TryLock3" /\ next = "LockObtained3"
        \/ label = "TryLock4" /\ next = "LockObtained4"
  BY DEF Acquire, Mine, Others, Infos
<1>2. /\ rsp' = rsp /\ table' = table /\ intr' = intr /\ frame' = frame
      /\ pc' = [pc EXCEPT ![p] = next] /\ pc[p] = label
  BY <1>1 DEF TryLock, runVars
<1>3. \A j \in {"BSPInfo", "APInfo"} : /\ info'[j].State = info[j].State
                                     /\ info'[j].rsp = info[j].rsp
                                     /\ info'[j].table = info[j].table
  BY <1>1 DEF TryLock, Inv, TypeOK, Infos
<1>4. pc \in [Procs -> Phase]
  BY DEF Inv, TypeOK
<1>5. OldOK'
  BY <1>1, <1>2, <1>3, <1>4 DEF OldOK, Unstored, Stored, Loaded, Leaving, OldDone
<1>6. NewOK'
  BY <1>1, <1>2, <1>3, <1>4 DEF NewOK, Coming, Unstored, Stored, Loaded, Leaving, NewDone
<1>7. Handshake'
  BY <1>1, <1>2, <1>4 DEF Handshake, Coming, Unstored, Stored, Loaded, Leaving, OldDone, NewDone
<1> QED
  BY <1>2, <1>5, <1>6, <1>7, SameStacks

(* Pushing the registers and storing the stack pointer. *)
LEMMA PushInv ==
  ASSUME Inv, NEW p \in Procs, Push(p)
  PROVE  OldOK' /\ NewOK' /\ Handshake' /\ Exclusive'
<1> USE MergeFrame DEF Merge
<1>1. /\ rsp' = rsp /\ table' = table /\ intr' = intr
      /\ pc' = [pc EXCEPT ![p] = "TryLock1"] /\ pc[p] = "Push"
      /\ pc \in [Procs -> Phase] /\ rsp[p] \in Stacks
  BY DEF Push, runVars, Inv, TypeOK
<1>2. info' = [info EXCEPT ![Mine(p)].rsp = rsp[p], ![Mine(p)].table = table[p]]
  BY DEF Push
<1>3. info \in [{"BSPInfo", "APInfo"} -> Info]
  BY DEF Inv, TypeOK, Infos, Info
<1>4. /\ frame'[rsp[p]] = [ret |-> IF p = BSP THEN "SwitchBSP" ELSE "FutureBspProc",
                           intr |-> intr[p]]
      /\ \A s \in Stacks : s # rsp[p] => frame'[s] = frame[s]
  BY <1>1 DEF Push, Inv, TypeOK
<1>5. Handshake'
  BY <1>1 DEF Handshake, Coming, Unstored, Stored, Loaded, Leaving, OldDone, NewDone
<1>6. CASE p = BSP
  <2>1. rsp[p] = Boot /\ table[p] = "boot" /\ intr[p] = FALSE
    BY <1>1, <1>6 DEF OldOK, Leaving, OldDone
  <2>2. /\ info'["APInfo"] = info["APInfo"]
        /\ info'["BSPInfo"].State = info["BSPInfo"].State
        /\ info'["BSPInfo"].rsp = Boot /\ info'["BSPInfo"].table = "boot"
    BY <1>2, <1>3, <1>6, <2>1 DEF Mine, Info
  <2>3. frame'[Boot] = [ret |-> "SwitchBSP", intr |-> FALSE]
    BY <1>4, <1>6, <2>1
  <2>4. OldOK'
    BY <1>1, <1>6, <2>1, <2>2, <2>3 DEF OldOK, Unstored, Stored, Loaded, Leaving, OldDone
  <2>5. /\ info["APInfo"].rsp \in Stacks
        /\ info["APInfo"].rsp # Boot => frame'[info["APInfo"].rsp] = frame[info["APInfo"].rsp]
    BY <1>3, <1>4, <2>1 DEF Info
  <2>6. NewOK'
    BY <1>1, <1>6, <2>2, <2>5
       DEF NewOK, Coming, Unstored, Stored, Loaded, Leaving, NewDone
  <2> QED
    BY <1>1, <1>5, <2>4, <2>6, SameStacks
<1>7. CASE p = new
  <2>1. /\ rsp[p] # Boot /\ table[p] = "ap" /\ intr[p] = FALSE
        /\ Manner = "Hlt" => rsp[p] = p
    BY <1>1, <1>7 DEF NewOK, Coming
  <2>2. /\ info'["BSPInfo"] = info["BSPInfo"]
        /\ info'["APInfo"].State = info["APInfo"].State
        /\ info'["APInfo"].rsp = rsp[p] /\ info'["APInfo"].table = "ap"
    BY <1>2, <1>3, <1>7, <2>1 DEF Mine, Info
  <2>3. frame'[rsp[p]] = [ret |-> "FutureBspProc", intr |-> FALSE]
    BY <1>4, <1>7, <2>1
  <2>4. \A q \in Procs : q # BSP /\ q # new /\ rsp[q] = rsp[p] => Gone(q)
    BY <1>1, <1>7 DEF Exclusive, Gone, Inv
  <2>5. pc[BSP] \notin {"Load"} \union Leaving \union OldDone /\ frame'[Boot] = frame[Boot]
    BY <1>1, <1>4, <1>7, <2>1 DEF Handshake, Coming, Unstored, Boot, Stacks
  <2>6. OldOK'
    BY <1>1, <1>7, <2>2, <2>5
       DEF OldOK, Unstored, Stored, Loaded, Leaving, OldDone
  <2>7. pc'[new] = "TryLock1" /\ rsp'[new] = rsp[p] /\ table'[new] = "ap" /\ intr'[new] = FALSE
    BY <1>1, <1>7, <2>1
  <2>8. \A q \in Procs : q # BSP /\ q # new /\ rsp'[q] = rsp[p] => Gone(q)'
    BY <1>1, <2>4
  <2>9. State[new] = "BUSY" /\ proc[new] = "FutureBspProc" /\ info["APInfo"].State = "IDLE"
    BY <1>1, <1>7 DEF NewOK, Coming, Unstored, Stored, Loaded
  <2>10. /\ State'[new] = "BUSY" /\ proc'[new] = "FutureBspProc" /\ info'["APInfo"].State = "IDLE"
         /\ frame'[info'["APInfo"].rsp] = [ret |-> "FutureBspProc", intr |-> FALSE]
         /\ info'["APInfo"].rsp # Boot /\ rsp'[new] = info'["APInfo"].rsp
         /\ Manner = "Hlt" => info'["APInfo"].rsp = new
         /\ \A q \in Procs : q # BSP /\ q # new /\ rsp'[q] = info'["APInfo"].rsp => Gone(q)'
    BY <1>7, <2>1, <2>2, <2>3, <2>7, <2>8, <2>9
  <2>11. intr'[new] = (pc'[new] = "wait" /\ op.intr)
    <3>1. pc'[new] # "wait"
      BY <2>7
    <3> QED
      BY <2>7, <3>1, Zenon
  <2>12. NewOK'
    BY <2>2, <2>7, <2>10, <2>11 DEF NewOK, Coming, Unstored, Stored, Loaded, Leaving, NewDone
  <2> QED
    BY <1>1, <1>5, <2>6, <2>12, SameStacks
<1> QED
  BY <1>6, <1>7

(* Setting one's own state to STORED or LOADED. *)
LEMMA SetStateInv ==
  ASSUME Inv, NEW p \in Procs, Store(p) \/ SetLoaded(p)
  PROVE  OldOK' /\ NewOK' /\ Handshake' /\ Exclusive'
<1> USE MergeFrame DEF Merge
<1>1. PICK label, state, next : SetState(p, label, state, next) /\
        \/ label = "LockObtained1" /\ state = "STORED" /\ next = "TryLock2"
        \/ label = "LockObtained3" /\ state = "LOADED" /\ next = "TryLock4"
  BY DEF Store, SetLoaded
<1>2. /\ rsp' = rsp /\ table' = table /\ intr' = intr /\ frame' = frame
      /\ pc' = [pc EXCEPT ![p] = next] /\ pc[p] = label /\ pc \in [Procs -> Phase]
  BY <1>1 DEF SetState, runVars, Inv, TypeOK
<1>3. /\ info'[Mine(p)].State = state /\ info'[Others(p)].State = info[Others(p)].State
      /\ \A j \in {"BSPInfo", "APInfo"} : /\ info'[j].rsp = info[j].rsp
                                         /\ info'[j].table = info[j].table
  BY <1>1 DEF SetState, Inv, TypeOK, Infos, Mine, Others
<1>4. Handshake'
  BY <1>1, <1>2 DEF Handshake, Coming, Unstored, Stored, Loaded, Leaving, OldDone, NewDone
<1>5. OldOK'
  BY <1>1, <1>2, <1>3 DEF OldOK, Unstored, Stored, Loaded, Leaving, OldDone, Mine, Others
<1>6. NewOK'
  BY <1>1, <1>2, <1>3 DEF NewOK, Coming, Unstored, Stored, Loaded, Leaving, NewDone, Mine, Others
<1> QED
  BY <1>2, <1>4, <1>5, <1>6, SameStacks

(* Seeing the other's state. *)
LEMMA SeeStateInv ==
  ASSUME Inv, NEW p \in Procs, SeeStored(p) \/ SeeLoaded(p)
  PROVE  OldOK' /\ NewOK' /\ Handshake' /\ Exclusive'
<1> USE MergeFrame DEF Merge
<1>1. /\ rsp' = rsp /\ table' = table /\ intr' = intr /\ frame' = frame
      /\ pc \in [Procs -> Phase]
  BY DEF SeeStored, SeeLoaded, SeeState, runVars, Inv, TypeOK
<1>2. \A j \in {"BSPInfo", "APInfo"} : /\ info'[j].State = info[j].State
                                     /\ info'[j].rsp = info[j].rsp
                                     /\ info'[j].table = info[j].table
  BY DEF SeeStored, SeeLoaded, SeeState, Inv, TypeOK, Infos
<1>3. \/ pc[p] = "LockObtained2" /\ pc' = [pc EXCEPT ![p] = "TryLock2"]
      \/ /\ pc[p] = "LockObtained2" /\ pc' = [pc EXCEPT ![p] = "Load"]
         /\ info[Others(p)].State \in {"STORED", "LOADED"}
      \/ pc[p] = "LockObtained4" /\ pc' = [pc EXCEPT ![p] = "TryLock4"]
      \/ /\ pc[p] = "LockObtained4" /\ pc' = [pc EXCEPT ![p] = "Pop"]
         /\ info[Others(p)].State = "LOADED"
  BY DEF SeeStored, SeeLoaded, SeeState
<1>4. OldOK'
  BY <1>1, <1>2, <1>3 DEF OldOK, Unstored, Stored, Loaded, Leaving, OldDone
<1>5. NewOK'
  BY <1>1, <1>2, <1>3 DEF NewOK, Coming, Unstored, Stored, Loaded, Leaving, NewDone
<1>6. CASE p = BSP
  <2>1. /\ info["APInfo"].State \in {"STORED", "LOADED"} =>
             pc[new] \notin Coming \union Unstored
        /\ info["APInfo"].State = "LOADED" => pc[new] \in Loaded \union NewDone
    BY DEF NewOK, Coming, Unstored, Stored, Loaded, NewDone
  <2> QED
    BY <1>1, <1>3, <1>4, <1>5, <1>6, <2>1, SameStacks
       DEF Handshake, Coming, Unstored, Stored, Loaded, Leaving, OldDone, NewDone, Others
<1>7. CASE p = new
  <2>1. /\ info["BSPInfo"].State \in {"STORED", "LOADED"} => pc[BSP] \notin Unstored
        /\ info["BSPInfo"].State = "LOADED" => pc[BSP] \in Loaded \union OldDone
    BY DEF OldOK, Unstored, Stored, Loaded, OldDone
  <2> QED
    BY <1>1, <1>3, <1>4, <1>5, <1>7, <2>1, SameStacks
       DEF Handshake, Coming, Unstored, Stored, Loaded, Leaving, OldDone, NewDone, Others
<1> QED
  BY <1>6, <1>7

(* Loading the other's stack pointer: the other has stored it by then. *)
LEMMA LoadInv ==
  ASSUME Inv, NEW p \in Procs, Load(p)
  PROVE  OldOK' /\ NewOK' /\ Handshake' /\ Exclusive'
<1> USE MergeFrame DEF Merge
<1>1. /\ intr' = intr /\ frame' = frame /\ info' = info
      /\ pc' = [pc EXCEPT ![p] = "TryLock3"] /\ pc[p] = "Load" /\ pc \in [Procs -> Phase]
      /\ rsp'[p] = info[Others(p)].rsp /\ table'[p] = info[Others(p)].table
  BY DEF Load, Inv, TypeOK
<1>2. Handshake'
  BY <1>1 DEF Handshake, Coming, Unstored, Stored, Loaded, Leaving, OldDone, NewDone
<1>3. CASE p = BSP
  <2>1. pc[new] \notin Coming \union {"Push"}
    BY <1>1, <1>3 DEF Handshake, Unstored, Coming
  <2>2. /\ rsp'[BSP] = info["APInfo"].rsp /\ table'[BSP] = "ap"
        /\ \A q \in Procs : q # BSP /\ q # new /\ rsp[q] = rsp'[BSP] => Gone(q)
    BY <1>1, <1>3, <2>1 DEF Others, NewOK
  <2>3. OldOK'
    BY <1>1, <1>3, <2>2 DEF OldOK, Unstored, Stored, Loaded, Leaving, OldDone
  <2>4. NewOK'
    BY <1>1, <1>3 DEF NewOK
  <2>5. Exclusive'
    BY <1>3, <2>2 DEF Exclusive, Inv
  <2> QED
    BY <1>2, <2>3, <2>4, <2>5
<1>4. CASE p = new
  <2>1. pc[BSP] # "Push"
    BY <1>1, <1>4 DEF Handshake, Unstored
  <2>2. /\ rsp'[new] = Boot /\ table'[new] = "boot"
        /\ \A q \in Procs : q # BSP /\ q # new => rsp[q] # Boot
    BY <1>1, <1>4, <2>1 DEF Others, OldOK, Inv, ApsOK, ApOK, Bystander
  <2>3. OldOK'
    BY <1>1, <1>4 DEF OldOK
  <2>4. NewOK'
    BY <1>1, <1>4, <2>2 DEF NewOK, Coming, Unstored, Stored, Loaded, Leaving, NewDone
  <2>5. Exclusive'
    BY <1>4, <2>2 DEF Exclusive, Inv
  <2> QED
    BY <1>2, <2>3, <2>4, <2>5
<1> QED
  BY <1>3, <1>4

(* Popping the registers: the other has left this stack by then. *)
LEMMA PopInv ==
  ASSUME Inv, NEW p \in Procs, Pop(p)
  PROVE  OldOK' /\ NewOK' /\ Handshake' /\ Exclusive'
<1> USE MergeFrame DEF Merge
<1>1. /\ rsp' = rsp /\ table' = table /\ frame' = frame /\ info' = info
      /\ intr' = [intr EXCEPT ![p] = frame[rsp[p]].intr] /\ intr \in [Procs -> BOOLEAN]
      /\ pc' = [pc EXCEPT ![p] = IF frame[rsp[p]].ret = "SwitchBSP" THEN "switched" ELSE "finish"]
      /\ pc[p] = "Pop" /\ pc \in [Procs -> Phase]
  BY DEF Pop, Inv, TypeOK
<1>2. CASE p = BSP
  <2>1. pc[new] \in Loaded \union NewDone
    BY <1>1, <1>2 DEF Handshake
  <2>2. frame[rsp[BSP]] = [ret |-> "FutureBspProc", intr |-> FALSE]
    BY <1>1, <1>2, <2>1 DEF OldOK, NewOK, Leaving, Coming, Loaded, NewDone
  <2>3. pc'[BSP] = "finish" /\ intr'[BSP] = FALSE
    BY <1>1, <1>2, <2>2
  <2>4. OldOK'
    BY <1>1, <1>2, <2>3 DEF OldOK, Unstored, Stored, Loaded, Leaving, OldDone
  <2>5. NewOK'
    BY <1>1, <1>2 DEF NewOK
  <2>6. Handshake'
    BY <1>1, <1>2, <2>1, <2>3
       DEF Handshake, Coming, Unstored, Stored, Loaded, Leaving, OldDone, NewDone
  <2> QED
    BY <1>1, <2>4, <2>5, <2>6, SameStacks
<1>3. CASE p = new
  <2>1. pc[BSP] \in Loaded \union OldDone
    BY <1>1, <1>3 DEF Handshake
  <2>2. frame[rsp[new]] = [ret |-> "SwitchBSP", intr |-> FALSE]
    BY <1>1, <1>3, <2>1 DEF OldOK, NewOK, Leaving, Coming, Loaded, OldDone
  <2>3. pc'[new] = "switched" /\ intr'[new] = FALSE
    BY <1>1, <1>3, <2>2
  <2>4. OldOK'
    BY <1>1, <1>3 DEF OldOK
  <2>5. NewOK'
    <3>1. info["APInfo"].State = "LOADED" /\ rsp[new] = Boot /\ table[new] = "boot"
      BY <1>1, <1>3 DEF NewOK, Coming, Unstored, Stored, Loaded, Leaving
    <3>2. pc[new] = "Pop"
      BY <1>1, <1>3
    <3>3. pc'[new] # "wait"
      BY <2>3
    <3>4. intr'[new] = (pc'[new] = "wait" /\ op.intr)
      BY <2>3, <3>3, Zenon
    <3> QED
      BY <1>1, <2>3, <3>1, <3>2, <3>4 DEF NewOK, Coming, Unstored, Stored, Loaded, Leaving, NewDone
  <2>6. Handshake'
    BY <1>1, <1>3, <2>1, <2>3
       DEF Handshake, Coming, Unstored, Stored, Loaded, Leaving, OldDone, NewDone
  <2> QED
    BY <1>1, <2>4, <2>5, <2>6, SameStacks
<1> QED
  BY <1>2, <1>3

(* The new BSP restores the interrupts. *)
LEMMA EnableInterruptInv ==
  ASSUME Inv, NEW p \in Procs, EnableInterrupt(p)
  PROVE  OldOK' /\ NewOK' /\ Handshake' /\ Exclusive'
<1> USE MergeFrame DEF Merge
<1>1. /\ rsp' = rsp /\ table' = table /\ frame' = frame /\ info' = info
      /\ intr \in [Procs -> BOOLEAN] /\ op.intr \in BOOLEAN
      /\ pc' = [pc EXCEPT ![p] = "wait"] /\ pc[p] = "switched" /\ pc \in [Procs -> Phase]
  BY DEF EnableInterrupt, Inv, TypeOK
<1>2. p = new /\ intr[p] = FALSE
  BY <1>1 DEF OldOK, NewOK, Unstored, Stored, Loaded, OldDone
<1>3. intr'[p] = op.intr
  <2>1. intr'[p] = (intr[p] \/ op.intr)
    BY <1>1, Zenon DEF EnableInterrupt
  <2> QED
    BY <1>1, <1>2, <2>1, Zenon
<1>4. OldOK'
  BY <1>1, <1>2 DEF OldOK
<1>5. NewOK'
  BY <1>1, <1>2, <1>3 DEF NewOK, Coming, Unstored, Stored, Loaded, Leaving, NewDone
<1>6. Handshake'
  BY <1>1, <1>2 DEF Handshake, Coming, Unstored, Stored, Loaded, Leaving, OldDone, NewDone
<1> QED
  BY <1>1, <1>4, <1>5, <1>6, SameStacks

(* The new BSP takes over; the old one is an AP like any other. *)
LEMMA SwitchDoneInv ==
  ASSUME Inv, NEW p \in Procs, SwitchDone(p)
  PROVE  ApsOK' /\ BootOK' /\ SwitchOK' /\ Exclusive'
<1>1. /\ pc[p] = "wait" /\ State[BSP] = "FINISHED" /\ BSP' = new
      /\ pc' = [pc EXCEPT ![p] = "boot"] /\ State' = [State EXCEPT ![BSP] = "IDLE"]
      /\ proc' = proc /\ rsp' = rsp /\ table' = table /\ intr' = intr
      /\ op' = op /\ new' = new
      /\ pc \in [Procs -> Phase] /\ State \in [Procs -> CpuState]
  BY DEF SwitchDone, runVars, Inv, TypeOK, new
<1>2. /\ Switching /\ p = new /\ new \in Procs /\ BSP \in Procs /\ new # BSP
      /\ OldOK /\ NewOK /\ Handshake
  BY <1>1, Roles DEF Inv, SwitchOK
<1>3. ~Switching'
  BY <1>1, <1>2 DEF Switching
<1>4. pc[BSP] \in {"ack", "parked", "woken"} /\ proc[BSP] = "none"
  BY <1>1, <1>2 DEF OldOK, Unstored, Stored, Loaded, OldDone
<1>5. /\ rsp[BSP] = info["APInfo"].rsp /\ rsp[BSP] # Boot /\ table[BSP] = "ap"
      /\ Manner = "Hlt" => rsp[BSP] = new /\ pc[BSP] # "woken"
      /\ rsp[new] = Boot /\ table[new] = "boot" /\ intr[new] = op.intr /\ State[new] = "BUSY"
  BY <1>1, <1>2, <1>4 DEF OldOK, NewOK, OldDone, Coming, NewDone, Inv, TypeOK
<1>6. ApsOK'
  <2> SUFFICES ASSUME NEW q \in Procs, q # new PROVE ApOK(q)'
    BY <1>1, <1>3 DEF ApsOK, Bystander
  <2>1. CASE q = BSP
    BY <1>1, <1>2, <1>3, <1>4, <1>5, <2>1 DEF ApOK, OldOK
  <2>2. CASE q # BSP
    BY <1>1, <1>2, <1>3, <2>2 DEF ApOK, ApsOK, Bystander, Inv
  <2> QED
    BY <2>1, <2>2
<1>7. BootOK'
  BY <1>1, <1>2, <1>5 DEF BootOK
<1>8. SwitchOK'
  BY <1>3 DEF SwitchOK
<1>9. Exclusive'
  <2>1. \A q \in Procs : Gone(q) => Gone(q)'
    BY <1>1, <1>2 DEF Gone
  <2>2. rsp[BSP] # rsp[new]
    BY <1>5
  <2> QED
    BY <1>1, <1>2, <2>1, <2>2 DEF Exclusive, Inv
<1> QED
  BY <1>6, <1>7, <1>8, <1>9

-----------------------------------------------------------------------------
(* The theorems. *)

(* Every step keeps the invariant. *)
LEMMA NextInv == Inv /\ Safe /\ [Next]_vars => Inv'
<1> SUFFICES ASSUME Inv, Safe, [Next]_vars PROVE Inv'
  OBVIOUS
<1>1. TypeOK'
  BY TypeStep DEF Inv
<1>2. CASE UNCHANGED vars
  <2> USE <1>2 DEF vars, cpuVars, runVars, Inv
  <2>1. Switching' = Switching /\ new' = new /\ \A q \in Procs : Gone(q)' = Gone(q)
    BY DEF Switching, new, Gone
  <2>2. ApsOK'
    BY <2>1 DEF ApsOK, ApOK, Bystander
  <2>3. BootOK' /\ Exclusive'
    BY <2>1 DEF BootOK, Exclusive
  <2>4. SwitchOK'
    BY <2>1 DEF SwitchOK, OldOK, NewOK, Handshake
  <2> QED
    BY <1>1, <2>2, <2>3, <2>4
<1>3. ASSUME NEW p \in Procs, StartupThisAP(p) \/ Collect(p) \/ Expire(p) PROVE Inv'
  BY <1>1, <1>3, DispatchInv DEF Inv
<1>4. ASSUME NEW p \in Procs, SwitchBSP(p) PROVE Inv'
  BY <1>1, <1>4, SwitchBSPInv DEF Inv
<1>5. ASSUME NEW p \in Procs, Ap(p) PROVE Inv'
  BY <1>1, <1>5, ApInv DEF Inv
<1>6. ASSUME NEW p \in Procs, Merge(p) PROVE Inv'
  <2>1. OldOK' /\ NewOK' /\ Handshake' /\ Exclusive'
    BY <1>6, PushInv, AcquireInv, SetStateInv, SeeStateInv, LoadInv, PopInv, EnableInterruptInv
       DEF Merge
  <2> QED
    BY <1>1, <1>6, <2>1, MergeInv DEF Inv
<1>7. ASSUME NEW p \in Procs, SwitchDone(p) PROVE Inv'
  BY <1>1, <1>7, SwitchDoneInv DEF Inv
<1> QED
  BY <1>2, <1>3, <1>4, <1>5, <1>6, <1>7 DEF Next, Exchange, Switch, Merge

(* The invariant implies each of the three properties. *)
LEMMA InvStackSafe == Inv => StackSafe
<1> SUFFICES ASSUME Inv, NEW p \in Procs, NEW q \in Procs, p # q, rsp[p] = rsp[q],
                    ~Gone(p), ~Gone(q)
             PROVE  Quiet(p) /\ Quiet(q)
  BY DEF StackSafe
<1>0. Switching /\ {p, q} = {BSP, new}
  BY DEF Inv, Exclusive
<1>1. /\ (p = BSP /\ q = new) \/ (p = new /\ q = BSP)
      /\ OldOK /\ NewOK /\ Handshake
  BY <1>0 DEF Inv, SwitchOK
<1>2. rsp[BSP] = rsp[new] /\ pc[BSP] \in Phase /\ pc[new] \in Phase
  BY <1>1 DEF Inv, TypeOK
<1> USE DEF Quiet, Labels, Coming, Unstored, Stored, Loaded, Leaving, OldDone, NewDone
<1>3. CASE pc[BSP] \in Leaving \union OldDone
  <2>1. rsp[new] = info["APInfo"].rsp /\ pc[new] \notin Coming \union Unstored
    BY <1>1, <1>2, <1>3 DEF OldOK, Handshake
  <2>2. pc[new] \in {"TryLock2", "LockObtained2", "Load"}
    BY <1>1, <2>1 DEF NewOK
  <2> QED
    BY <1>1, <1>3, <2>2 DEF Handshake
<1>4. CASE pc[BSP] \notin Leaving \union OldDone
  <2>1. rsp[new] = Boot
    BY <1>1, <1>2, <1>4 DEF OldOK
  <2>2. pc[new] \in Leaving \union NewDone
    BY <1>1, <2>1 DEF NewOK
  <2> QED
    BY <1>1, <1>4, <2>2 DEF Handshake, OldOK
<1> QED
  BY <1>1, <1>3, <1>4

(* An interrupt is taken by the boot code only. *)
LEMMA InvInterruptSafe == Inv => InterruptSafe
<1> SUFFICES ASSUME Inv, NEW p \in Procs, intr[p]
             PROVE  pc[p] \in {"boot", "wait"} /\ rsp[p] = Boot /\ table[p] = "boot"
  BY DEF InterruptSafe
<1>1. ~Bystander(p)
  BY DEF Inv, ApsOK, ApOK
<1>2. CASE ~Switching
  BY <1>1, <1>2 DEF Inv, BootOK, Bystander, Switching
<1>3. CASE Switching
  <2>1. OldOK /\ NewOK /\ p = new
    BY <1>1, <1>3 DEF Inv, SwitchOK, OldOK, Bystander
  <2>2. pc[new] = "wait"
    BY <2>1 DEF NewOK
  <2> QED
    BY <2>1, <2>2 DEF NewOK, NewDone, Coming
<1> QED
  BY <1>2, <1>3

(* The boot code runs on one processor, which BSP names. *)
LEMMA InvBootThread == Inv => BootThread
BY DEF Inv, BootThread, ApsOK, ApOK, Bystander, BootOK, SwitchOK, NewOK, Switching, Coming, Unstored,
   Stored, Loaded, NewDone

(* Every variable of the exchange keeps its type, in both wake-up manners  *)
(* and with timeouts or without.                                           *)
THEOREM RoleTypeCorrect == Spec => []TypeOK
<1>1. Init => TypeOK
  BY InitInv DEF Inv
<1>2. TypeOK /\ [Next]_vars => TypeOK'
  BY TypeStep
<1> QED
  BY <1>1, <1>2, PTL DEF Spec

(* The invariant always holds. *)
LEMMA InvCorrect == ASSUME Safe PROVE Spec => []Inv
<1>1. Init => Inv
  BY InitInv
<1>2. Inv /\ [Next]_vars => Inv'
  BY NextInv
<1> QED
  BY <1>1, <1>2, PTL DEF Spec

(* Two processors are on one stack only where neither pushes to it nor     *)
(* pops from it, in the middle of AsmExchangeRole, or where one of them is *)
(* halted and starts on its own stack when it is woken.  This holds when   *)
(* APs are halted, and in the run loop when no AP is reset by a timeout.   *)
THEOREM StacksAreSafe ==
  ASSUME Manner = "Hlt" \/ ~Timeouts PROVE Spec => []StackSafe
<1>1. Spec => []Inv
  BY InvCorrect DEF Safe
<1> QED
  BY <1>1, InvStackSafe, PTL

(* From SwitchBSP's DisableInterrupts to its EnableInterrupts no processor *)
(* takes an interrupt on a stack or through tables that are not the boot   *)
(* code's.                                                                 *)
THEOREM InterruptsAreSafe ==
  ASSUME Manner = "Hlt" \/ ~Timeouts PROVE Spec => []InterruptSafe
<1>1. Spec => []Inv
  BY InvCorrect DEF Safe
<1> QED
  BY <1>1, InvInterruptSafe, PTL

(* SwitchBSP returns on the processor that mMPSystemData->BSP names, on    *)
(* the stack it was called on and with the interrupts as they were.        *)
THEOREM BootThreadMoves ==
  ASSUME Manner = "Hlt" \/ ~Timeouts PROVE Spec => []BootThread
<1>1. Spec => []Inv
  BY InvCorrect DEF Safe
<1> QED
  BY <1>1, InvBootThread, PTL
=============================================================================
