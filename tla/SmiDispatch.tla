------------------------------ MODULE SmiDispatch ------------------------------
(***************************************************************************)
(* The dispatcher of PCH SMIs, Pch/PchSmiDispatcher/Smm: a list of records *)
(* that SMM drivers register and unregister, and PchSmmCoreDispatcher,     *)
(* which calls them when their source is active.  Hardware events, and the *)
(* callbacks themselves, come between its steps.  All processors are in    *)
(* SMM meanwhile; SCI_EN is clear, as long as no ACPI OS has begun.        *)
(***************************************************************************)
EXTENDS Integers, SequencesExt

CONSTANTS Records,     \* handles of registrations
          Src,         \* the source each record registers for
          Value,       \* SwSmiInputValue of records for the software SMI
          Period,      \* Period of records for the timer, in ticks
          Interval,    \* SmiTickInterval of records for the timer
          MaxEvents,   \* bound on events
          MaxCalls,    \* bound on calls to Register and UnRegister
          Relatch      \* SMI_STS.TCO is set again while a TCO status is

\* The bits of SMI_EN in the source descriptors.  The bits of SMI_STS go by the same
\* names.
En == [Sw |-> {"APMC"}, NewCentury |-> {"TCO"}, TcoTimeout |-> {"TCO"},
       Timer |-> {"SWSMI_TMR"}]
Sources == DOMAIN En
Bits    == UNION {En[s] : s \in Sources}
Tco     == {"NewCentury", "TcoTimeout"}

NoRecord == "none"
End      == "end"     \* the head of the list

ASSUME SmiAssumption ==
  /\ {NoRecord, End} \intersect Records = {}
  /\ Src \in [Records -> Sources]
  /\ Value \in [Records -> Nat]
  /\ Period \in [Records -> Nat \ {0}] /\ Interval \in [Records -> Nat \ {0}]
  /\ MaxEvents \in Nat /\ MaxCalls \in Nat
  /\ Relatch \in BOOLEAN

VARIABLES
  db,            \* CallbackDataBase
  readyToLock,   \* mReadyToLock
  en, sts, port, \* SMI_EN, the statuses of the sources, APM_CNT
  top,           \* SMI_STS.TCO
  eos, smi,      \* EOS; an SMI is on its way to the processors
  unheard,       \* an SMI found no record, and EOS has not been set since
  caller,        \* what the user of SmmControl has to do next
  pc,            \* position of the dispatcher
  rounds,        \* EscapeCount
  cached,        \* SmiStsValue: SMI_STS at the beginning of the round
  seen,          \* the records that were due then and have not been called
  active, first, \* ActiveSource and RecordInDb
  link, cur,     \* LinkToExhaust and RecordToExhaust
  minReq,        \* MinReqInterval: the interval of the timer
  rate,          \* the interval the hardware is programmed with
  elapsed,       \* ElapsedTime of the records
  age,           \* time that has passed since then, at least
  paused,        \* the timer is paused
  due,           \* records not called since their source became active
  left,          \* records that are no longer registered
  careless,      \* a callback has unregistered a record that was in use
  hurried,       \* timer records when a callback of the timer registered one more
  events, calls

list  == <<db, readyToLock, left, careless, hurried>>
hw    == <<en, sts, top, port, eos, smi, unheard>>
timer == <<minReq, rate, elapsed, age, paused>>
walk  == <<cached, seen, active, first, link, cur>>
vars  == <<list, hw, caller, pc, rounds, walk, timer, due, events, calls>>

Registered(s) == {r \in ToSet(db) : Src[r] = s}
Position(r)   == CHOOSE i \in DOMAIN db : db[i] = r
Other(r)      == RemoveAt(db, Position(r))

\* GetNextNode
NextNode(r) == IF Position(r) = Len(db) THEN End ELSE db[Position(r) + 1]

\* SMI_STS, when the statuses S are set and TCO is t.
SmiSts(S, t) == (UNION {En[s] : s \in S \ Tco}) \union (IF t THEN {"TCO"} ELSE {})

\* SMI_STS.TCO after it has been cleared while the statuses S are set.
Cleared(S) == Relatch /\ S \intersect Tco # {}

Init ==
  /\ db = <<>> /\ readyToLock = FALSE /\ left = {} /\ careless = FALSE /\ hurried = {}
  /\ en = {} /\ sts = {} /\ top = FALSE /\ port = 0
  /\ eos = TRUE /\ smi = FALSE /\ unheard = FALSE
  /\ caller = "idle" /\ pc = "idle" /\ rounds = 0 /\ cached = {} /\ seen = {}
  /\ active = "Sw" /\ first = NoRecord /\ link = End /\ cur = NoRecord
  /\ minReq = 0 /\ rate = 0 /\ paused = FALSE
  /\ elapsed = [r \in Records |-> 0] /\ age = [r \in Records |-> 0]
  /\ due = {} /\ events = 0 /\ calls = 0
-------------------------------------------------------------------------------
(***************************************************************************)
(* Hardware.                                                               *)
(***************************************************************************)
\* With EOS set, a status that is enabled asserts an SMI and clears EOS.
Signal ==
  LET now == eos /\ SmiSts(sts', top') \intersect en' # {} IN
    smi' = (smi \/ now) /\ eos' = (eos /\ ~now) /\ UNCHANGED unheard

\* Something sets EOS: that reads as zero while a status asserts an SMI.
SetEos ==
  LET now == SmiSts(sts', top') \intersect en # {} IN
    smi' = (smi \/ now) /\ eos' = ~now /\ unheard' = FALSE

\* The records that ought to be called when s becomes active.
Addressed(s) == {r \in Registered(s) : s = "Sw" => Value[r] = port'}

\* A status of the TCO is set, whether or not somebody is registered for it.
Event(s) ==
  /\ s \in Tco \ sts
  /\ events < MaxEvents /\ events' = events + 1
  /\ sts' = sts \union {s} /\ top' = TRUE
  /\ UNCHANGED <<en, port>> /\ Signal
  /\ due' = due \union Addressed(s)
  /\ UNCHANGED <<list, caller, pc, rounds, walk, timer, calls>>

\* The timer runs while it is enabled.  A tick says that its interval has passed.
Tick ==
  /\ "SWSMI_TMR" \in en
  /\ events < MaxEvents /\ events' = events + 1
  /\ sts' = sts \union {"Timer"}
  /\ age' = [r \in Records |-> IF r \in Registered("Timer") THEN age[r] + rate ELSE age[r]]
  /\ UNCHANGED <<en, top, port>> /\ Signal
  /\ UNCHANGED <<list, caller, pc, rounds, walk, minReq, rate, elapsed, paused, due, calls>>
-------------------------------------------------------------------------------
(***************************************************************************)
(* SmmControl, used outside SMM: Activate, which is SmmClear and then      *)
(* SmmTrigger, and Deactivate, which is SmmClear.                          *)
(***************************************************************************)
SmmClear ==
  /\ pc = "idle" /\ ~smi
  /\ sts' = sts \ {"Sw"} /\ due' = {r \in due : Src[r] # "Sw"}
  /\ UNCHANGED <<en, top, port>> /\ SetEos
  /\ UNCHANGED <<list, pc, rounds, walk, timer, calls>>

Activate ==
  /\ caller = "idle" /\ caller' = "trigger" /\ SmmClear
  /\ events < MaxEvents /\ events' = events + 1

SmmTrigger(v) ==
  /\ caller = "trigger" /\ caller' = "clear"
  /\ pc = "idle" /\ ~smi
  /\ port' = v /\ sts' = sts \union {"Sw"} /\ en' = en \union En["Sw"]
  /\ UNCHANGED top /\ Signal
  /\ due' = due \union Addressed("Sw")
  /\ UNCHANGED <<list, pc, rounds, walk, timer, events, calls>>

\* Who triggers an SMI clears it.
Deactivate ==
  /\ caller = "clear" /\ caller' = "idle" /\ SmmClear /\ UNCHANGED events
-------------------------------------------------------------------------------
(***************************************************************************)
(* The periodic timer.                                                     *)
(***************************************************************************)
Least(S) == CHOOSE x \in S : \A y \in S : x <= y

\* Mistake: the interval is put down, but not programmed once the timer runs.
ProgramOnce(ticking) ==
  IF ticking = {} THEN en' = en \ En["Timer"] /\ UNCHANGED <<sts, minReq, rate, paused>>
  ELSE /\ minReq' = Least({Interval[r] : r \in ticking})
       /\ rate' = IF rate = 0 THEN minReq' ELSE rate
       /\ en' = en \union En["Timer"] /\ sts' = sts \ {"Timer"} /\ paused' = FALSE

\* The timer is restarted with the least interval of the records, or disabled.
PchSmmPeriodicTimerProgramTimers(ticking) ==
  IF ticking = {} THEN en' = en \ En["Timer"] /\ UNCHANGED <<sts, minReq, rate, paused>>
  ELSE /\ minReq' = Least({Interval[r] : r \in ticking})
       /\ rate' = minReq'
       /\ en' = en \union En["Timer"] /\ sts' = sts \ {"Timer"} /\ paused' = FALSE

\* Pause and Resume of PCH_SMM_PERIODIC_TIMER_CONTROL_PROTOCOL.
Pause ==
  /\ pc \in {"idle", "callback"} /\ Registered("Timer") # {} /\ calls < MaxCalls
  /\ calls' = calls + 1
  /\ en' = en \ En["Timer"] /\ paused' = TRUE
  /\ UNCHANGED <<list, sts, top, port, eos, smi, unheard, caller, pc, rounds, walk, minReq, rate,
                 elapsed, age, due, events>>

Resume ==
  /\ pc \in {"idle", "callback"} /\ paused /\ Registered("Timer") # {}
  /\ en' = en \union En["Timer"] /\ sts' = sts \ {"Timer"} /\ paused' = FALSE
  /\ UNCHANGED <<list, top, port, eos, smi, unheard, caller, pc, rounds, walk, minReq, rate,
                 elapsed, age, due, events, calls>>
-------------------------------------------------------------------------------
(***************************************************************************)
(* Registration, by drivers when they begin and by callbacks.              *)
(***************************************************************************)
SmmReadyToLock ==
  /\ pc = "idle" /\ readyToLock' = TRUE
  /\ UNCHANGED <<db, left, careless, hurried, hw, caller, pc, rounds, walk, timer, due, events,
                 calls>>

\* Both are refused after SmmReadyToLock.
Change ==
  /\ pc \in {"idle", "callback"} /\ ~readyToLock
  /\ calls < MaxCalls /\ calls' = calls + 1
  /\ UNCHANGED <<readyToLock, port, caller, pc, rounds, walk, events>>

\* Mistake: a record is put into the list again.
RegisterAgain(r) ==
  /\ Change
  /\ db' = Append(db, r) /\ en' = en \union En[Src[r]]
  /\ UNCHANGED <<left, careless, hurried, sts, top, timer, due>> /\ Signal

\* The record goes to the end of the list; its source is cleared and enabled.  Only
\* PchTcoClearNewCenturySts clears SMI_STS.TCO with it, if there is something to clear.
PchSmmCoreRegister(r) ==
  LET s == Src[r] IN
  /\ Change
  /\ r \notin ToSet(db) \union left
  /\ db' = Append(db, r) /\ UNCHANGED <<left, careless>>
  /\ hurried' = IF pc = "callback" /\ s = "Timer" /\ active = s
                THEN hurried \union Registered(s) \union {r} ELSE hurried
  /\ elapsed' = [elapsed EXCEPT ![r] = 0] /\ age' = [age EXCEPT ![r] = 0]
  /\ due' = {q \in due : Src[q] # s}
  /\ IF s = "Timer" THEN PchSmmPeriodicTimerProgramTimers(Registered(s) \union {r})
     ELSE /\ en' = en \union En[s] /\ sts' = sts \ {s}
          /\ UNCHANGED <<minReq, rate, paused>>
  /\ top' = IF s = "NewCentury" /\ s \in sts THEN Cleared(sts') ELSE top
  /\ Signal

\* Mistake: the bits stay only if another record has the same source.
UnneededOf(r) == IF \E q \in ToSet(Other(r)) : Src[q] = Src[r] THEN {} ELSE En[Src[r]]

\* The enable bits that no other record has.
Unneeded(r) == En[Src[r]] \ UNION {En[Src[q]] : q \in ToSet(Other(r))}

\* The records that PchSmmCoreDispatcher reads after a callback has returned: the
\* next one, the first one that was called, for its ClearSource, and the one that
\* has been called, for its ProtocolType, unless that is PchSmiDispatchType.
InUse == {link, first} \union ({cur} \ {r \in Records : Src[r] \in Tco})

\* Callers, callbacks too, may unregister any record.
PchSmmCoreUnRegister(r) ==
  /\ Change
  /\ r \in ToSet(db)
  /\ db' = Other(r) /\ left' = left \union {r} /\ UNCHANGED hurried
  /\ careless' = (careless \/ (pc = "callback" /\ r \in InUse))
  /\ en' = en \ Unneeded(r)
  /\ due' = due \ {r}
  /\ paused' = (paused /\ \E q \in ToSet(db') : Src[q] = "Timer")
  /\ UNCHANGED <<sts, top, eos, smi, unheard, minReq, rate, elapsed, age>>
-------------------------------------------------------------------------------
(***************************************************************************)
(* PchSmmCoreDispatcher.  What it does with a record that has been freed   *)
(* is undefined: here it goes no further.                                  *)
(***************************************************************************)
\* Without records nothing is done, and EOS stays clear.
Enter ==
  /\ pc = "idle" /\ smi /\ smi' = FALSE
  /\ IF db = <<>> THEN unheard' = ~eos /\ UNCHANGED <<pc, rounds>>
     ELSE pc' = "round" /\ rounds' = 3 /\ UNCHANGED unheard
  /\ UNCHANGED <<list, en, sts, top, port, eos, caller, walk, timer, due, events, calls>>

\* SMI_STS is read at the beginning of a round, what is not in it with every record.
SourceIsActive(r) == En[Src[r]] \subseteq cached \intersect en /\ Src[r] \in sts

\* With no record left a round does nothing.
Round ==
  /\ pc = "round" /\ rounds' = rounds - 1
  /\ cached' = SmiSts(sts, top) /\ seen' = due
  /\ IF db = <<>> THEN pc' = (IF rounds > 1 THEN "round" ELSE "idle") /\ UNCHANGED first
     ELSE pc' = "search" /\ first' = Head(db)
  /\ UNCHANGED <<list, hw, caller, active, link, cur, timer, due, events, calls>>

\* It looks for the first record whose source is active.
Search ==
  /\ pc = "search"
  /\ IF SourceIsActive(first)
     THEN pc' = "exhaust" /\ active' = Src[first] /\ link' = first /\ UNCHANGED first
     ELSE /\ first' = NextNode(first) /\ pc' = (IF first' = End THEN "pending" ELSE "search")
          /\ UNCHANGED <<active, link>>
  /\ UNCHANGED <<list, hw, caller, rounds, cached, seen, cur, timer, due, events, calls>>

\* PeriodicTimerGetContext
Count(r) == elapsed[r] + minReq

\* CmpContext
ContextsMatch(r) ==
  CASE Src[r] = "Sw"    -> Value[r] = port
    [] Src[r] = "Timer" -> Count(r) >= Period[r]
    [] OTHER            -> TRUE

\* One record of the list: the next one is taken down before it is called.
Exhaust ==
  /\ pc = "exhaust" /\ link \in ToSet(db)
  /\ link' = NextNode(link)
  /\ LET called == Src[link] = active /\ ContextsMatch(link) IN
       /\ pc' = IF called THEN "callback" ELSE "exhaust"
       /\ cur' = IF called THEN link ELSE cur
       /\ due' = IF called THEN due \ {link} ELSE due
       /\ seen' = IF called THEN seen \ {link} ELSE seen
       /\ elapsed' = IF active = "Timer" /\ Src[link] = active
                     THEN [elapsed EXCEPT ![link] = IF called THEN 0 ELSE Count(link)]
                     ELSE elapsed
  /\ UNCHANGED <<list, hw, caller, rounds, cached, active, first, minReq, rate, age, paused, events,
                 calls>>

\* Mistake: the next record is looked up when the callback has returned.
CallbackReturnsLate ==
  /\ pc = "callback" /\ pc' = "exhaust" /\ cur' = NoRecord
  /\ link' = IF cur \in ToSet(db) THEN NextNode(cur) ELSE cur
  /\ age' = IF active = "Timer" THEN [age EXCEPT ![cur] = 0] ELSE age
  /\ UNCHANGED <<list, hw, caller, rounds, cached, seen, active, first, minReq, rate, elapsed,
                 paused, due, events, calls>>

\* Line 913 reads the record that has been called, unless it is of PchSmiDispatchType.
CallbackReturns ==
  /\ pc = "callback" /\ pc' = "exhaust" /\ cur' = NoRecord
  /\ cur \in ToSet(db) \/ Src[cur] \in Tco
  /\ age' = IF active = "Timer" THEN [age EXCEPT ![cur] = 0] ELSE age
  /\ UNCHANGED <<list, hw, caller, rounds, cached, seen, active, first, link, minReq, rate, elapsed,
                 paused, due, events, calls>>

Exhausted ==
  /\ pc = "exhaust" /\ link = End /\ pc' = "clear"
  /\ UNCHANGED <<list, hw, caller, rounds, walk, timer, due, events, calls>>

\* Mistake: what is read of TCO1_STS is written back.
ClearSourceAll ==
  /\ pc = "clear" /\ first \in ToSet(db) /\ pc' = "pending"
  /\ IF active = "Timer" THEN PchSmmPeriodicTimerProgramTimers(Registered("Timer"))
     ELSE /\ sts' = sts \ (IF active \in Tco THEN Tco ELSE {active})
          /\ UNCHANGED <<en, minReq, rate, paused>>
  /\ top' = IF active \in Tco THEN Cleared(sts') ELSE top
  /\ due' = {r \in due : Src[r] \in sts => Src[r] \in sts'}
  /\ UNCHANGED <<list, port, eos, smi, unheard, caller, rounds, walk, elapsed, age, events, calls>>

\* ClearSource of the first record that was called: PchTcoSmiClearSource, which clears
\* SMI_STS.TCO of all sources of the TCO, PchTcoClearNewCenturySts, which does so if
\* its own status is still there, that of the timer, or PchSmmClearSource.
ClearSource ==
  /\ pc = "clear" /\ first \in ToSet(db) /\ pc' = "pending"
  /\ IF active = "Timer" THEN PchSmmPeriodicTimerProgramTimers(Registered("Timer"))
     ELSE sts' = sts \ {active} /\ UNCHANGED <<en, minReq, rate, paused>>
  /\ top' = IF active = "TcoTimeout" \/ (active = "NewCentury" /\ active \in sts)
            THEN Cleared(sts') ELSE top
  /\ due' = {r \in due : Src[r] # active}
  /\ UNCHANGED <<list, port, eos, smi, unheard, caller, rounds, walk, elapsed, age, events, calls>>

\* What SMI_STS said when the round began is cleared, handled or not: a new century,
\* with SMI_STS.TCO, and the software SMI.
ClearPendingSmiStatus ==
  /\ pc = "pending" /\ pc' = "eos"
  /\ LET century == "TCO" \in cached /\ "NewCentury" \in sts IN
       /\ sts' = sts \ ((IF century THEN {"NewCentury"} ELSE {})
                        \union (IF "APMC" \in cached THEN {"Sw"} ELSE {}))
       /\ top' = IF century THEN Cleared(sts') ELSE top
  /\ due' = {r \in due : Src[r] \in sts'}
  /\ UNCHANGED <<list, en, port, eos, smi, unheard, caller, rounds, walk, timer, events, calls>>

\* Mistake: EOS is not set again when the rounds are over.
SetAndCheckEosOnce ==
  /\ pc = "eos"
  /\ UNCHANGED <<en, sts, top, port>>
  /\ LET now == SmiSts(sts, top) \intersect en # {} IN
       /\ eos' = ~now /\ UNCHANGED smi /\ unheard' = FALSE
       /\ pc' = IF now /\ rounds > 0 THEN "round" ELSE "idle"
  /\ cached' = {} /\ seen' = {}
  /\ active' = "Sw" /\ first' = NoRecord /\ link' = End /\ cur' = NoRecord
  /\ UNCHANGED <<list, caller, rounds, timer, due, events, calls>>

\* PchSmmSetAndCheckEos, and the condition of the loop.  An SMI that is asserted is
\* taken when the processors leave SMM.  What the walk has found is not used again.
SetAndCheckEos ==
  /\ pc = "eos"
  /\ UNCHANGED <<en, sts, top, port>> /\ SetEos
  /\ pc' = IF ~eos' /\ rounds > 0 THEN "round" ELSE "idle"
  /\ cached' = {} /\ seen' = {}
  /\ active' = "Sw" /\ first' = NoRecord /\ link' = End /\ cur' = NoRecord
  /\ UNCHANGED <<list, caller, rounds, timer, due, events, calls>>

Dispatcher ==
  \/ Enter \/ Round \/ Search \/ Exhaust \/ CallbackReturns \/ Exhausted
  \/ ClearSource \/ ClearPendingSmiStatus \/ SetAndCheckEos

Next ==
  \/ Dispatcher
  \/ \E s \in Sources : Event(s)
  \/ Tick \/ \E v \in {Value[r] : r \in Records} : SmmTrigger(v)
  \/ Activate \/ Deactivate \/ SmmReadyToLock \/ Pause \/ Resume
  \/ \E r \in Records : PchSmmCoreRegister(r) \/ PchSmmCoreUnRegister(r)

Spec == Init /\ [][Next]_vars

\* The dispatcher runs and callbacks return.  Nothing is said of what others do.
FairSpec == Spec /\ WF_vars(Dispatcher)
-------------------------------------------------------------------------------
(***************************************************************************)
(* Properties.                                                             *)
(***************************************************************************)
TypeOK ==
  /\ db \in Seq(Records) /\ IsInjective(db)
  /\ left \subseteq Records \ ToSet(db) /\ due \subseteq ToSet(db)
  /\ hurried \subseteq Records /\ seen \subseteq Records
  /\ {readyToLock, careless, top, eos, smi, unheard, paused} \subseteq BOOLEAN
  /\ en \subseteq Bits /\ sts \subseteq Sources /\ cached \subseteq Bits
  /\ caller \in {"idle", "trigger", "clear"}
  /\ pc \in {"idle", "round", "search", "exhaust", "callback", "clear", "pending", "eos"}
  /\ rounds \in 0..3 /\ active \in Sources
  /\ first \in Records \union {NoRecord, End} /\ cur \in Records \union {NoRecord}
  /\ link \in Records \union {End}
  /\ elapsed \in [Records -> Nat] /\ age \in [Records -> Nat] /\ {minReq, rate, port} \subseteq Nat

\* The enable bits of every registered record are set, unless the timer is paused:
\* PchSmmCoreUnRegister takes no bit away that another record needs, and timers
\* keep running when records come and go.
BitsStay ==
  \A r \in ToSet(db) : En[Src[r]] \subseteq en \/ (paused /\ Src[r] = "Timer")

\* PchSmmCoreDispatcher reads no record that has been freed, whatever callbacks
\* register and unregister, themselves among them, as long as they leave alone the
\* three records that are still in use.
NoFreedRecord ==
  ~careless =>
    /\ pc \in {"exhaust", "callback"} => link \in ToSet(db) \union {End}
    /\ pc \in {"search", "exhaust", "callback", "clear"} => first \in ToSet(db)
    /\ pc = "callback" => cur \in ToSet(db) \/ Src[cur] \in Tco

\* No periodic callback is called before its Period has passed: MinReqInterval,
\* which every tick adds to ElapsedTime, is what the hardware is programmed with,
\* whoever has been registered or unregistered since.  A callback of the timer that
\* registers for the timer is excepted: the rest of the walk adds the new interval.
NotEarly ==
  /\ \A r \in ToSet(db) \ hurried : elapsed[r] <= age[r]
  /\ pc = "callback" /\ active = "Timer" /\ cur \notin hurried => age[cur] >= Period[cur]

\* What a record needs to be found: its status, and the one in SMI_STS.
Pending(r) == Src[r] \in sts /\ En[Src[r]] \subseteq SmiSts(sts, top)

\* No step that clears statuses, SMI_STS.TCO among them, takes one away from a record
\* that was due when the round began and has not been called, though callbacks come
\* and go and sources share SMI_STS.TCO.  ClearPendingSmiStatus does so for a new
\* century and a software SMI whose turn has not come.  Nor does Deactivate take a
\* software SMI away before it has been served, unless EOS was never set.
CalledBeforeClear ==
  [][/\ pc \in {"clear", "pending"} => \A r \in due \intersect seen :
          \/ Pending(r) => Pending(r)'
          \/ pc = "pending" /\ Src[r] \in {"NewCentury", "Sw"} \ {active}
     /\ Deactivate => unheard \/ due' = due]_vars

\* Every registered record is called after its source has become active, or its
\* status is taken away: no source is starved by those before it in the list, and
\* EOS is set again, so that the next SMI can come, unless one came when no record
\* was registered or a callback has freed a record in use.
Served == \A r \in Records : r \in due ~> (r \notin due \/ unheard \/ careless)
===============================================================================
