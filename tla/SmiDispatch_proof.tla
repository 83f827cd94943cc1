--------------------------- MODULE SmiDispatch_proof ---------------------------
(***************************************************************************)
(* Theorems about the SMI dispatcher for every set of records, of periods  *)
(* and intervals, and any number of events and registrations.              *)
(***************************************************************************)
EXTENDS SmiDispatch, SequenceTheorems, WellFoundedInduction, TLAPS

-------------------------------------------------------------------------------
(***************************************************************************)
(* The list.                                                               *)
(***************************************************************************)
\* The records of s from l on.
Ahead(s, l) == {r \in ToSet(s) : \E i, j \in DOMAIN s : i <= j /\ s[i] = l /\ s[j] = r}

Lists == {s \in Seq(Records) : IsInjective(s)}

LEMMA ListIs ==
  ASSUME NEW s \in Lists
  PROVE  /\ s \in Seq(Records) /\ Len(s) \in Nat /\ DOMAIN s = 1..Len(s)
         /\ \A i \in 1..Len(s) : s[i] \in Records /\ s[i] \in ToSet(s)
         /\ \A i, j \in 1..Len(s) : s[i] = s[j] => i = j
         /\ \A r \in ToSet(s) : r \in Records /\ \E i \in 1..Len(s) : s[i] = r
         /\ s = <<>> <=> ToSet(s) = {}
BY DEF Lists, IsInjective, ToSet

LEMMA PositionIs ==
  ASSUME db \in Lists, NEW r \in ToSet(db)
  PROVE  Position(r) \in 1..Len(db) /\ db[Position(r)] = r
<1>1. \E i \in DOMAIN db : db[i] = r
  BY DEF ToSet
<1> QED
  BY <1>1, ListIs DEF Position

\* A record that is unregistered leaves the others in their order.
LEMMA OtherIs ==
  ASSUME db \in Lists, NEW r \in ToSet(db)
  PROVE  /\ Other(r) \in Lists /\ ToSet(Other(r)) = ToSet(db) \ {r}
         /\ \A l : Ahead(Other(r), l) \subseteq Ahead(db, l)
         /\ \A l \in ToSet(db) : \A q \in Ahead(db, l) : q # r /\ l # r => q \in Ahead(Other(r), l)
<1> DEFINE k == Position(r)
           t == Other(r)
           u == SubSeq(db, 1, k - 1)
           v == SubSeq(db, k + 1, Len(db))
<1>1. /\ k \in 1..Len(db) /\ db[k] = r
      /\ db \in Seq(Records) /\ Len(db) \in Nat /\ DOMAIN db = 1..Len(db)
      /\ \A i \in 1..Len(db) : db[i] \in Records
      /\ \A i, j \in 1..Len(db) : db[i] = db[j] => i = j
  BY PositionIs, ListIs
<1>2. t = u \o v
  BY DEF Other, RemoveAt
<1> HIDE DEF k
<1>3. /\ u \in Seq(Records) /\ Len(u) = k - 1
      /\ \A i \in 1..k - 1 : u[i] = db[i]
  BY <1>1, SubSeqProperties
<1>4. /\ v \in Seq(Records) /\ Len(v) = Len(db) - k
      /\ \A i \in 1..Len(db) - k : v[i] = db[k + i]
  <2>1. k \in Int /\ k + 1 \in Int /\ Len(db) \in Int /\ k + 1 .. Len(db) \subseteq 1..Len(db)
        /\ (k + 1 <= Len(db) => Len(db) - (k + 1) + 1 = Len(db) - k)
        /\ (~(k + 1 <= Len(db)) => Len(db) - k = 0)
        /\ \A i \in 1..Len(db) - k : i \in 1..Len(db) - (k + 1) + 1 /\ (k + 1) + i - 1 = k + i
    <3>1. k \in 1..Len(db) /\ Len(db) \in Nat
      BY <1>1
    <3> QED BY <3>1
  <2>2. \A i \in k + 1 .. Len(db) : db[i] \in Records
    BY <1>1, <2>1
  <2>3. /\ v \in Seq(Records)
        /\ Len(v) = IF k + 1 <= Len(db) THEN Len(db) - (k + 1) + 1 ELSE 0
        /\ \A i \in 1..Len(db) - (k + 1) + 1 : v[i] = db[(k + 1) + i - 1]
    BY <2>1, <2>2, SubSeqProperties
  <2> QED BY <2>1, <2>3
<1> HIDE DEF u, v, t
<1>5. /\ t \in Seq(Records) /\ Len(t) = Len(db) - 1 /\ DOMAIN t = 1..Len(db) - 1
      /\ \A i \in 1..Len(db) - 1 : t[i] = IF i < k THEN db[i] ELSE db[i + 1]
  <2>1. /\ t \in Seq(Records) /\ Len(t) = Len(u) + Len(v)
        /\ \A i \in 1..Len(u) + Len(v) : t[i] = IF i <= Len(u) THEN u[i] ELSE v[i - Len(u)]
    BY <1>2, <1>3, <1>4, ConcatProperties
  <2>2. ASSUME NEW i \in 1..Len(db) - 1 PROVE t[i] = IF i < k THEN db[i] ELSE db[i + 1]
    <3>0. k \in 1..Len(db) /\ Len(db) \in Nat /\ Len(u) = k - 1 /\ Len(v) = Len(db) - k
      BY <1>1, <1>3, <1>4
    <3>1. t[i] = IF i <= Len(u) THEN u[i] ELSE v[i - Len(u)]
      <4>1. i \in 1..Len(u) + Len(v)
        BY <3>0
      <4> QED BY <2>1, <4>1
    <3>2. CASE i < k
      <4>1. i <= Len(u) /\ i \in 1..k - 1
        BY <3>0, <3>2
      <4> QED BY <1>3, <3>1, <3>2, <4>1
    <3>3. CASE ~(i < k)
      <4>1. /\ ~(i <= Len(u)) /\ i - Len(u) \in 1..Len(db) - k
            /\ k + (i - Len(u)) = i + 1
        BY <3>0, <3>3
      <4> QED BY <1>4, <3>1, <3>3, <4>1
    <3> QED BY <3>2, <3>3
  <2> QED BY <1>1, <1>3, <1>4, <2>1, <2>2
<1>6. \A i \in 1..Len(db) : i # k =>
        \E j \in 1..Len(t) : t[j] = db[i] /\ j = IF i < k THEN i ELSE i - 1
  BY <1>1, <1>5
<1>7. \A j \in 1..Len(t) :
        \E i \in 1..Len(db) : i # k /\ t[j] = db[i] /\ j = IF i < k THEN i ELSE i - 1
  BY <1>1, <1>5
<1>8. t \in Lists
  BY <1>1, <1>5, <1>7 DEF Lists, IsInjective
<1>9. ToSet(t) = ToSet(db) \ {r}
  <2>1. DOMAIN t = 1..Len(t)
    BY <1>1, <1>5
  <2>2. ASSUME NEW q \in ToSet(t) PROVE q \in ToSet(db) /\ q # r
    BY <1>1, <1>7, <2>1 DEF ToSet
  <2>3. ASSUME NEW q \in ToSet(db), q # r PROVE q \in ToSet(t)
    BY <1>1, <1>6, <2>1, <2>3 DEF ToSet
  <2> QED BY <2>2, <2>3
<1>10. ASSUME NEW l, NEW q \in Ahead(t, l) PROVE q \in Ahead(db, l)
  <2>1. PICK i \in 1..Len(t), j \in 1..Len(t) : i <= j /\ t[i] = l /\ t[j] = q
    BY <1>5, <1>10 DEF Ahead
  <2>2. PICK a \in 1..Len(db) : a # k /\ t[i] = db[a] /\ i = IF a < k THEN a ELSE a - 1
    BY <1>7
  <2>3. PICK b \in 1..Len(db) : b # k /\ t[j] = db[b] /\ j = IF b < k THEN b ELSE b - 1
    BY <1>7
  <2>4. a <= b
    BY <1>1, <2>1, <2>2, <2>3
  <2> QED BY <1>1, <2>1, <2>2, <2>3, <2>4 DEF Ahead, ToSet
<1>11. ASSUME NEW l \in ToSet(db), NEW q \in Ahead(db, l), q # r, l # r PROVE q \in Ahead(t, l)
  <2>1. PICK i \in 1..Len(db), j \in 1..Len(db) : i <= j /\ db[i] = l /\ db[j] = q
    BY <1>1, <1>11 DEF Ahead
  <2>2. PICK a \in 1..Len(t) : t[a] = db[i] /\ a = IF i < k THEN i ELSE i - 1
    BY <1>1, <1>6, <1>11, <2>1
  <2>3. PICK b \in 1..Len(t) : t[b] = db[j] /\ b = IF j < k THEN j ELSE j - 1
    BY <1>1, <1>6, <1>11, <2>1
  <2>4. a <= b
    BY <1>1, <1>11, <2>1, <2>2, <2>3
  <2> QED BY <1>5, <2>1, <2>2, <2>3, <2>4 DEF Ahead, ToSet
<1> QED
  BY <1>8, <1>9, <1>10, <1>11 DEF t

\* A record that is registered comes last.
LEMMA AppendIs ==
  ASSUME db \in Lists, NEW r \in Records, r \notin ToSet(db)
  PROVE  /\ Append(db, r) \in Lists /\ ToSet(Append(db, r)) = ToSet(db) \union {r}
         /\ \A l \in ToSet(db) : Ahead(db, l) \subseteq Ahead(Append(db, r), l)
         /\ \A l : l # r => Ahead(Append(db, r), l) \subseteq Ahead(db, l) \union {r}
<1> DEFINE t == Append(db, r)
<1>1. /\ db \in Seq(Records) /\ Len(db) \in Nat /\ DOMAIN db = 1..Len(db)
      /\ \A i, j \in 1..Len(db) : db[i] = db[j] => i = j
      /\ \A i \in 1..Len(db) : db[i] # r
  BY ListIs DEF ToSet
<1>2. /\ t \in Seq(Records) /\ Len(t) = Len(db) + 1 /\ DOMAIN t = 1..Len(db) + 1
      /\ \A i \in 1..Len(db) : t[i] = db[i]
      /\ t[Len(db) + 1] = r
  BY <1>1, AppendProperties
<1> HIDE DEF t
<1>3. \A i \in 1..Len(db) + 1 : i \in 1..Len(db) \/ i = Len(db) + 1
  BY <1>1
<1>4. t \in Lists
  BY <1>1, <1>2, <1>3 DEF Lists, IsInjective
<1>5. ToSet(t) = ToSet(db) \union {r}
  BY <1>1, <1>2, <1>3 DEF ToSet
<1>6. ASSUME NEW l, NEW q \in Ahead(db, l) PROVE q \in Ahead(t, l)
  <2>1. PICK i \in 1..Len(db), j \in 1..Len(db) : i <= j /\ db[i] = l /\ db[j] = q
    BY <1>1, <1>6 DEF Ahead
  <2> QED BY <1>1, <1>2, <2>1 DEF Ahead, ToSet
<1>7. ASSUME NEW l, l # r, NEW q \in Ahead(t, l) PROVE q \in Ahead(db, l) \union {r}
  <2>1. PICK i \in 1..Len(db) + 1, j \in 1..Len(db) + 1 : i <= j /\ t[i] = l /\ t[j] = q
    BY <1>2, <1>7 DEF Ahead
  <2>2. i \in 1..Len(db)
    BY <1>2, <1>3, <1>7, <2>1
  <2>3. CASE j \in 1..Len(db)
    BY <1>1, <1>2, <2>1, <2>2, <2>3 DEF Ahead, ToSet
  <2> QED BY <1>2, <1>3, <2>1, <2>3
<1> QED
  BY <1>4, <1>5, <1>6, <1>7 DEF t

\* The walk: what is ahead of the next node is what was ahead without this one.
LEMMA NextNodeIs ==
  ASSUME db \in Lists, NEW l \in ToSet(db)
  PROVE  /\ NextNode(l) \in ToSet(db) \union {End} /\ NextNode(l) # l
         /\ Ahead(db, NextNode(l)) = Ahead(db, l) \ {l}
         /\ l \in Ahead(db, l)
<1> DEFINE k == Position(l)
           n == NextNode(l)
<1>1. /\ k \in 1..Len(db) /\ db[k] = l /\ Len(db) \in Nat /\ DOMAIN db = 1..Len(db)
      /\ \A i \in 1..Len(db) : db[i] \in Records /\ db[i] \in ToSet(db)
      /\ \A i, j \in 1..Len(db) : db[i] = db[j] => i = j
      /\ End \notin Records
  BY PositionIs, ListIs, SmiAssumption
<1>2. n = IF k = Len(db) THEN End ELSE db[k + 1]
  BY DEF NextNode
<1> HIDE DEF k, n
<1>0. k \in 1..Len(db) /\ Len(db) \in Nat
  BY <1>1
<1>3. n \in ToSet(db) \union {End} /\ n # l
  <2>1. CASE k = Len(db)
    BY <1>1, <1>2, <2>1
  <2>2. CASE k # Len(db)
    <3>1. k + 1 \in 1..Len(db) /\ k + 1 # k
      BY <1>0, <2>2
    <3> QED BY <1>1, <1>2, <2>2, <3>1
  <2> QED BY <2>1, <2>2
<1>4. ASSUME NEW q \in Ahead(db, n) PROVE q \in Ahead(db, l) \ {l}
  <2>1. PICK i \in 1..Len(db), j \in 1..Len(db) : i <= j /\ db[i] = n /\ db[j] = q
    BY <1>1, <1>4 DEF Ahead
  <2>2. k # Len(db) /\ n = db[k + 1]
    <3>1. n # End
      BY <1>1, <2>1
    <3> QED BY <1>2, <3>1
  <2>3. k + 1 \in 1..Len(db)
    BY <1>0, <2>2
  <2>4. i = k + 1
    BY <1>1, <2>1, <2>2, <2>3
  <2>5. k <= j /\ j # k
    BY <1>1, <2>1, <2>4
  <2> QED BY <1>1, <2>1, <2>5 DEF Ahead
<1>5. ASSUME NEW q \in Ahead(db, l), q # l PROVE q \in Ahead(db, n)
  <2>1. PICK i \in 1..Len(db), j \in 1..Len(db) : i <= j /\ db[i] = l /\ db[j] = q
    BY <1>1, <1>5 DEF Ahead
  <2>2. i = k
    BY <1>1, <2>1
  <2>3. j # k
    BY <1>1, <1>5, <2>1
  <2>4. k + 1 \in 1..Len(db) /\ k + 1 <= j /\ k # Len(db)
    BY <1>0, <2>1, <2>2, <2>3
  <2> QED BY <1>1, <1>2, <2>1, <2>4 DEF Ahead
<1>6. l \in Ahead(db, l)
  <2>1. k <= k
    BY <1>1
  <2> QED BY <1>1, <2>1 DEF Ahead
<1> QED
  BY <1>3, <1>4, <1>5, <1>6 DEF n

\* A set of numbers that is not empty has a least element.
LEMMA LeastIs ==
  ASSUME NEW S \in SUBSET Nat, S # {}
  PROVE  Least(S) \in S /\ \A y \in S : Least(S) <= y
<1> DEFINE Less == OpToRel(<, Nat)
<1>1. PICK x \in S : \A y \in S : <<y, x>> \notin Less
  <2>1. IsWellFoundedOn(Less, Nat)
    BY NatLessThanWellFounded
  <2> HIDE DEF Less
  <2> QED BY <2>1, WFMin
<1>2. ASSUME NEW y \in S PROVE x <= y
  <2>1. x \in Nat /\ y \in Nat /\ <<y, x>> \in Nat \X Nat
    OBVIOUS
  <2>2. ~(y < x)
    BY <1>1, <2>1 DEF OpToRel
  <2> QED BY <2>1, <2>2
<1> QED
  BY <1>2 DEF Least

\* The search begins with everything ahead, and nothing is ahead of the end.
LEMMA HeadIs ==
  ASSUME db \in Lists
  PROVE  /\ db # <<>> => Head(db) \in ToSet(db) /\ ToSet(db) \subseteq Ahead(db, Head(db))
         /\ Ahead(db, End) = {} /\ End \notin ToSet(db)
<1>1. /\ Len(db) \in Nat /\ DOMAIN db = 1..Len(db)
      /\ \A i \in 1..Len(db) : db[i] \in Records /\ db[i] \in ToSet(db)
      /\ \A r \in ToSet(db) : r \in Records /\ \E i \in 1..Len(db) : db[i] = r
      /\ End \notin Records /\ db \in Seq(Records)
  BY ListIs, SmiAssumption
<1>2. ASSUME db # <<>> PROVE Head(db) \in ToSet(db) /\ ToSet(db) \subseteq Ahead(db, Head(db))
  <2>1. Head(db) = db[1] /\ 1 \in 1..Len(db)
    BY <1>1, <1>2, EmptySeq
  <2>2. ASSUME NEW r \in ToSet(db) PROVE r \in Ahead(db, db[1])
    <3>1. PICK i \in 1..Len(db) : db[i] = r
      BY <1>1
    <3> QED BY <1>1, <2>1, <3>1 DEF Ahead
  <2> QED BY <1>1, <2>1, <2>2
<1>3. Ahead(db, End) = {}
  BY <1>1 DEF Ahead
<1> QED
  BY <1>1, <1>2, <1>3
-------------------------------------------------------------------------------
(***************************************************************************)
(* Types.                                                                  *)
(***************************************************************************)
LEMMA SourcesAre ==
  /\ Sources = {"Sw", "NewCentury", "TcoTimeout", "Timer"}
  /\ En["Sw"] = {"APMC"} /\ En["NewCentury"] = {"TCO"} /\ En["TcoTimeout"] = {"TCO"}
  /\ En["Timer"] = {"SWSMI_TMR"}
  /\ Bits = {"APMC", "TCO", "SWSMI_TMR"}
  /\ \A s \in Sources : En[s] \subseteq Bits
BY DEF Sources, En, Bits

LEMMA TypeIs ==
  ASSUME TypeOK
  PROVE  /\ db \in Lists /\ ToSet(db) \subseteq Records
         /\ \A r \in Records : Src[r] \in Sources /\ Interval[r] \in Nat \ {0} /\ Period[r] \in Nat \ {0}
                               /\ Value[r] \in Nat
BY SmiAssumption, ListIs DEF TypeOK, Lists

\* SMI_STS has bits that SMI_EN has.
LEMMA SmiStsIs ==
  ASSUME NEW S \in SUBSET Sources, NEW x \in BOOLEAN
  PROVE  /\ SmiSts(S, x) \subseteq Bits
         /\ Cleared(S) \in BOOLEAN
         /\ "APMC" \in SmiSts(S, x) <=> "Sw" \in S
         /\ "SWSMI_TMR" \in SmiSts(S, x) <=> "Timer" \in S
         /\ "TCO" \in SmiSts(S, x) <=> x
<1>1. /\ SmiSts(S, x) \subseteq Bits
      /\ "APMC" \in SmiSts(S, x) <=> "Sw" \in S
      /\ "SWSMI_TMR" \in SmiSts(S, x) <=> "Timer" \in S
      /\ "TCO" \in SmiSts(S, x) <=> x
  <2>1. \A b : b \in SmiSts(S, x) <=> (\E s \in S \ Tco : b \in En[s]) \/ (b = "TCO" /\ x)
    <3> DEFINE U == UNION {En[s] : s \in S \ Tco}
    <3>1. \A b : b \in U <=> \E s \in S \ Tco : b \in En[s]
      OBVIOUS
    <3>2. SmiSts(S, x) = U \union (IF x THEN {"TCO"} ELSE {})
      BY DEF SmiSts
    <3> HIDE DEF U
    <3> QED BY <3>1, <3>2
  <2>2. \A s \in S \ Tco : s = "Sw" \/ s = "Timer"
    BY SourcesAre DEF Tco
  <2>3. "Sw" \notin Tco /\ "Timer" \notin Tco
    BY DEF Tco
  <2> QED BY <2>1, <2>2, <2>3, SourcesAre
<1>2. Cleared(S) \in BOOLEAN
  BY DEF Cleared
<1> QED BY <1>1, <1>2

\* A timer with records has an interval.
LEMMA ProgramIs ==
  ASSUME TypeOK, NEW ticking \in SUBSET Records, PchSmmPeriodicTimerProgramTimers(ticking)
  PROVE  /\ {minReq', rate'} \subseteq Nat
         /\ paused' \in BOOLEAN /\ en' \subseteq Bits /\ sts' \subseteq Sources
         /\ rate = minReq => rate' = minReq'
         /\ \A s \in Sources \ {"Timer"} : s \in sts' <=> s \in sts
         /\ \A s \in Sources \ {"Timer"} : En[s] \subseteq en <=> En[s] \subseteq en'
         /\ IF ticking = {} THEN sts' = sts /\ minReq' = minReq
                            ELSE "Timer" \notin sts' /\ En["Timer"] \subseteq en'
         /\ ticking = {} => en' \subseteq en
<1>0. /\ \A s \in Sources \ {"Timer"} : "SWSMI_TMR" \notin En[s]
      /\ minReq \in Nat /\ rate \in Nat /\ paused \in BOOLEAN /\ en \subseteq Bits /\ sts \subseteq Sources
      /\ "SWSMI_TMR" \in Bits /\ En["Timer"] = {"SWSMI_TMR"}
  BY SourcesAre DEF TypeOK
<1>1. CASE ticking = {}
  BY <1>0, <1>1 DEF PchSmmPeriodicTimerProgramTimers
<1>2. CASE ticking # {}
  <2>1. minReq' \in Nat
    <3> DEFINE S == {Interval[r] : r \in ticking}
    <3>1. S \in SUBSET Nat /\ S # {}
      BY <1>2, SmiAssumption
    <3>2. Least(S) \in Nat
      BY <3>1, LeastIs
    <3> QED BY <1>2, <3>2 DEF PchSmmPeriodicTimerProgramTimers
  <2> QED BY <1>0, <1>2, <2>1 DEF PchSmmPeriodicTimerProgramTimers
<1> QED BY <1>1, <1>2

\* What Register and ClearSource do to the timer and to statuses.
LEMMA RegisterIs ==
  ASSUME TypeOK, NEW r \in Records, PchSmmCoreRegister(r)
  PROVE  /\ db' \in Lists /\ ToSet(db') = ToSet(db) \union {r} /\ r \notin ToSet(db) \union left
         /\ {minReq', rate'} \subseteq Nat /\ paused' \in BOOLEAN /\ en' \subseteq Bits
         /\ sts' \subseteq sts /\ (rate = minReq => rate' = minReq')
         /\ Src[r] \notin sts'
         /\ \A s \in Sources : s # Src[r] /\ s \in sts => s \in sts'
         /\ \A s \in Sources : s # "Timer" /\ En[s] \subseteq en => En[s] \subseteq en'
         /\ En[Src[r]] \subseteq en'
         /\ Src[r] # "Timer" => UNCHANGED <<minReq, rate, paused>> /\ en \subseteq en'
<1>1. db' \in Lists /\ ToSet(db') = ToSet(db) \union {r} /\ r \notin ToSet(db) \union left
  BY TypeIs, AppendIs DEF PchSmmCoreRegister
<1>2. CASE Src[r] = "Timer"
  <2>1. Registered("Timer") \union {r} \in SUBSET Records
        /\ PchSmmPeriodicTimerProgramTimers(Registered("Timer") \union {r})
    BY <1>2, TypeIs DEF PchSmmCoreRegister, Registered
  <2>2. /\ {minReq', rate'} \subseteq Nat /\ paused' \in BOOLEAN /\ en' \subseteq Bits
        /\ (rate = minReq => rate' = minReq')
        /\ \A s \in Sources \ {"Timer"} : s \in sts' <=> s \in sts
        /\ \A s \in Sources \ {"Timer"} : En[s] \subseteq en <=> En[s] \subseteq en'
        /\ "Timer" \notin sts' /\ En["Timer"] \subseteq en'
        /\ sts' \subseteq Sources
    BY <2>1, ProgramIs
  <2>3. sts' \subseteq sts
    BY <2>2
  <2> QED BY <1>1, <1>2, <2>2, <2>3
<1>3. CASE Src[r] # "Timer"
  <2>1. En[Src[r]] \subseteq Bits /\ Src[r] \in Sources
    BY SourcesAre, TypeIs
  <2>2. en' = en \union En[Src[r]] /\ sts' = sts \ {Src[r]} /\ UNCHANGED <<minReq, rate, paused>>
    BY <1>3 DEF PchSmmCoreRegister
  <2> QED BY <1>1, <1>3, <2>1, <2>2 DEF TypeOK
<1> QED BY <1>2, <1>3

LEMMA ClearSourceIs ==
  ASSUME TypeOK, ClearSource
  PROVE  /\ {minReq', rate'} \subseteq Nat /\ paused' \in BOOLEAN /\ en' \subseteq Bits
         /\ sts' \subseteq sts /\ (rate = minReq => rate' = minReq')
         /\ \A s \in Sources : s \notin {active, "Timer"} /\ s \in sts => s \in sts'
         /\ \A s \in Sources : s # "Timer" /\ En[s] \subseteq en => En[s] \subseteq en'
         /\ active # "Timer" => active \notin sts' /\ en' = en /\ UNCHANGED <<minReq, rate, paused>>
         /\ active = "Timer" =>
              IF Registered("Timer") = {} THEN en' \subseteq en /\ minReq' = minReq /\ sts' = sts
              ELSE "Timer" \notin sts' /\ En["Timer"] \subseteq en'
<1>1. CASE active = "Timer"
  <2>1. Registered("Timer") \in SUBSET Records
        /\ PchSmmPeriodicTimerProgramTimers(Registered("Timer"))
    BY <1>1, TypeIs DEF ClearSource, Registered
  <2>2. /\ {minReq', rate'} \subseteq Nat /\ paused' \in BOOLEAN /\ en' \subseteq Bits
        /\ sts' \subseteq Sources /\ (rate = minReq => rate' = minReq')
        /\ \A s \in Sources \ {"Timer"} : s \in sts' <=> s \in sts
        /\ \A s \in Sources \ {"Timer"} : En[s] \subseteq en <=> En[s] \subseteq en'
        /\ IF Registered("Timer") = {} THEN sts' = sts /\ minReq' = minReq
                                       ELSE "Timer" \notin sts' /\ En["Timer"] \subseteq en'
        /\ Registered("Timer") = {} => en' \subseteq en
    BY <2>1, ProgramIs
  <2>3. sts' \subseteq sts
    BY <2>2
  <2> QED BY <1>1, <2>2, <2>3
<1>2. CASE active # "Timer"
  BY <1>2 DEF ClearSource, TypeOK
<1> QED BY <1>1, <1>2

\* The escape count, and the walk: the next record has not been called, and nobody comes
\* back who has been unregistered.
Walking == pc \in {"exhaust", "callback"}
Walk ==
  /\ pc = "round" => rounds >= 1
  /\ pc = "search" => first \in ToSet(db)
  /\ Walking => link \in ToSet(db) \union left \union {End}
  /\ pc = "callback" => /\ link # cur /\ cur \notin Ahead(db, link)
                        /\ cur \in ToSet(db) \union left /\ Src[cur] = active

\* What the hardware may do at any time leaves the dispatcher where it is.
Aside == UNCHANGED <<list, walk, pc, rounds>>

LEMMA TypeStep ==
  ASSUME TypeOK, Walk, [Next]_vars
  PROVE  TypeOK' /\ Walk'
<1> USE DEF Walk, Walking
<1>0. /\ TypeOK /\ db \in Lists /\ ToSet(db) \subseteq Records /\ SmiAssumption
      /\ \A S \in SUBSET Sources : Cleared(S) \in BOOLEAN
  BY TypeIs, SmiAssumption, SmiStsIs
<1>00. Aside => Walk'
  BY DEF Aside, list, walk
<1>a. /\ Signal => {smi', eos', unheard'} \subseteq BOOLEAN
      /\ SetEos => {smi', eos', unheard'} \subseteq BOOLEAN
  BY DEF Signal, SetEos, TypeOK
<1>1. CASE Enter
  <2>1. /\ pc' \in {"idle", "round"} /\ rounds' \in 0..3 /\ (pc' = "round" => rounds' >= 1)
    BY <1>1 DEF TypeOK, Enter
  <2>2. smi' \in BOOLEAN /\ unheard' \in BOOLEAN
    BY <1>1 DEF TypeOK, Enter
  <2> QED BY <1>1, <2>1, <2>2 DEF TypeOK, Enter, list, walk, timer
<1>2. CASE Round
  <2>1. /\ db' = db /\ left' = left /\ rounds' = rounds - 1 /\ seen' = due
        /\ cached' = SmiSts(sts, top) /\ UNCHANGED <<active, link, cur>>
        /\ \/ pc' \in {"round", "idle"} /\ first' = first /\ (pc' = "round" => rounds > 1)
           \/ db # <<>> /\ pc' = "search" /\ first' = Head(db)
    BY <1>2 DEF Round, list
  <2>2. cached' \subseteq Bits
    BY <2>1, SmiStsIs DEF TypeOK
  <2>3. rounds >= 1 /\ rounds \in 0..3
    BY <1>2 DEF Round, TypeOK
  <2>4. db # <<>> => Head(db) \in ToSet(db)
    BY <1>0, HeadIs
  <2>5. Walk' /\ rounds' \in 0..3
    BY <2>1, <2>3, <2>4
  <2>6. /\ first' \in Records \union {NoRecord, End} /\ seen' \subseteq Records
        /\ pc' \in {"round", "idle", "search"}
    BY <1>0, <2>1, <2>4 DEF TypeOK
  <2> QED BY <1>2, <2>1, <2>2, <2>5, <2>6 DEF TypeOK, Round, list, hw, timer
<1>3. CASE Search
  <2>1. first \in ToSet(db) /\ first \in Records /\ Src[first] \in Sources
    BY <1>0, <1>3, TypeIs DEF Search
  <2>2. NextNode(first) \in ToSet(db) \union {End}
    BY <1>0, <2>1, NextNodeIs
  <2>3. /\ db' = db /\ left' = left /\ UNCHANGED <<rounds, cached, seen, cur, due>>
        /\ \/ pc' = "exhaust" /\ active' = Src[first] /\ link' = first /\ first' = first
           \/ /\ first' = NextNode(first) /\ UNCHANGED <<active, link>>
              /\ pc' = IF first' = End THEN "pending" ELSE "search"
    BY <1>3 DEF Search, list
  <2>4. Walk'
    BY <2>1, <2>2, <2>3
  <2>5. /\ first' \in Records \union {NoRecord, End} /\ link' \in Records \union {End}
        /\ active' \in Sources /\ pc' \in {"exhaust", "pending", "search"}
    BY <1>0, <2>1, <2>2, <2>3 DEF TypeOK
  <2> QED BY <1>3, <2>3, <2>4, <2>5 DEF TypeOK, Search, list, hw, timer
<1>4. CASE Exhaust
  <2>1. link \in ToSet(db) /\ link \in Records
    BY <1>0, <1>4 DEF Exhaust
  <2>2. NextNode(link) \in ToSet(db) \union {End} /\ NextNode(link) # link
        /\ link \notin Ahead(db, NextNode(link))
    BY <1>0, <2>1, NextNodeIs
  <2>3. elapsed' \in [Records -> Nat]
    <3>1. elapsed[link] \in Nat /\ minReq \in Nat /\ Count(link) \in Nat
      BY <2>1 DEF TypeOK, Count
    <3> QED BY <1>4, <3>1 DEF TypeOK, Exhaust
  <2>4. /\ link' = NextNode(link) /\ db' = db /\ left' = left /\ active' = active
        /\ \/ pc' = "exhaust" /\ cur' = cur /\ due' = due /\ seen' = seen
           \/ pc' = "callback" /\ cur' = link /\ due' = due \ {link} /\ Src[link] = active
              /\ seen' = seen \ {link}
    BY <1>4 DEF Exhaust, list
  <2>5. TypeOK'
    <3>1. /\ pc' \in {"exhaust", "callback"} /\ due' \subseteq due /\ seen' \subseteq seen
          /\ cur' \in Records \union {NoRecord} /\ link' \in Records \union {End}
      BY <1>0, <2>1, <2>2, <2>4 DEF TypeOK
    <3>2. UNCHANGED <<list, hw, caller, rounds, cached, active, first, minReq, rate, age, paused>>
      BY <1>4 DEF Exhaust
    <3> QED BY <2>3, <3>1, <3>2 DEF TypeOK, list, hw
  <2>6. Walk'
    BY <2>1, <2>2, <2>4
  <2> QED BY <2>5, <2>6
<1>5. CASE CallbackReturns
  <2>1. age' \in [Records -> Nat]
    BY <1>5 DEF TypeOK, CallbackReturns
  <2> QED BY <1>5, <2>1 DEF TypeOK, CallbackReturns, list, hw
<1>6. CASE Exhausted
  BY <1>6 DEF TypeOK, Exhausted, list, hw, walk, timer
<1>7. CASE ClearSource
  <2>1. {minReq', rate'} \subseteq Nat /\ paused' \in BOOLEAN /\ en' \subseteq Bits /\ sts' \subseteq sts
    BY <1>7, ClearSourceIs
  <2>2. top' \in BOOLEAN
    <3>1. Cleared(sts') \in BOOLEAN
      BY <1>0, <2>1 DEF TypeOK
    <3> QED BY <1>7, <3>1 DEF ClearSource, TypeOK
  <2> QED BY <1>7, <2>1, <2>2 DEF TypeOK, ClearSource, list, walk
<1>8. CASE ClearPendingSmiStatus
  <2>1. sts' \subseteq sts /\ due' \subseteq due
    BY <1>8 DEF ClearPendingSmiStatus
  <2>2. top' \in BOOLEAN
    <3>1. Cleared(sts') \in BOOLEAN
      BY <1>0, <2>1 DEF TypeOK
    <3> QED BY <1>8, <3>1 DEF ClearPendingSmiStatus, TypeOK
  <2> QED BY <1>8, <2>1, <2>2 DEF TypeOK, ClearPendingSmiStatus, list, walk, timer
<1>9. CASE SetAndCheckEos
  <2>1. pc' \in {"round", "idle"} /\ (pc' = "round" => rounds > 0) /\ "Sw" \in Sources
    BY <1>9, SourcesAre DEF SetAndCheckEos
  <2> QED BY <1>9, <2>1, <1>a DEF TypeOK, SetAndCheckEos, list, timer
<1>10. ASSUME NEW s \in Sources, Event(s) PROVE TypeOK' /\ Walk'
  <2>1. Addressed(s) \subseteq ToSet(db) /\ top' = TRUE /\ due' = due \union Addressed(s)
    BY <1>10 DEF Event, Addressed, Registered
  <2> QED BY <1>10, <2>1, <1>a, <1>00 DEF TypeOK, Event, Aside, list, walk, timer
<1>11. CASE Tick
  <2>1. age' \in [Records -> Nat]
    BY <1>11 DEF TypeOK, Tick
  <2>2. sts' \subseteq Sources
    BY <1>11, SourcesAre DEF Tick, TypeOK
  <2> QED BY <1>11, <2>1, <2>2, <1>a, <1>00 DEF TypeOK, Tick, Aside, list, walk
<1>12. CASE SmmClear /\ caller' \in {"idle", "trigger"}
  <2>1. sts' \subseteq sts /\ due' \subseteq due
    BY <1>12 DEF SmmClear
  <2> QED BY <1>12, <2>1, <1>a, <1>00 DEF TypeOK, SmmClear, Aside, list, walk, timer
<1>13. ASSUME NEW r \in Records, SmmTrigger(Value[r]) PROVE TypeOK' /\ Walk'
  <2>1. En["Sw"] \subseteq Bits /\ "Sw" \in Sources /\ Value[r] \in Nat
    BY <1>0, SourcesAre, TypeIs
  <2>2. Addressed("Sw") \subseteq ToSet(db)
    BY DEF Addressed, Registered
  <2> QED BY <1>13, <2>1, <2>2, <1>a, <1>00 DEF TypeOK, SmmTrigger, Aside, list, walk, timer
<1>14. CASE SmmReadyToLock
  BY <1>14 DEF TypeOK, SmmReadyToLock, hw, walk, timer
<1>15. CASE Pause
  BY <1>15, <1>00 DEF TypeOK, Pause, Aside, list, walk
<1>16. CASE Resume
  BY <1>16, <1>00, SourcesAre DEF TypeOK, Resume, Aside, list, walk
<1>17. ASSUME NEW r \in Records, PchSmmCoreRegister(r) PROVE TypeOK' /\ Walk'
  <2>1. /\ db' \in Lists /\ ToSet(db') = ToSet(db) \union {r} /\ r \notin ToSet(db) \union left
        /\ {minReq', rate'} \subseteq Nat /\ paused' \in BOOLEAN /\ en' \subseteq Bits /\ sts' \subseteq sts
    BY <1>17, RegisterIs
  <2>2. \A l : l # r => Ahead(db', l) \subseteq Ahead(db, l) \union {r}
    BY <1>0, <1>17, <2>1, AppendIs DEF PchSmmCoreRegister
  <2>3. End # r
    BY <1>0 DEF SmiAssumption
  <2>4. elapsed' \in [Records -> Nat] /\ age' \in [Records -> Nat]
    BY <1>17 DEF PchSmmCoreRegister, TypeOK
  <2>5. top' \in BOOLEAN
    <3>1. Cleared(sts') \in BOOLEAN
      BY <1>0, <2>1 DEF TypeOK
    <3> QED BY <1>17, <3>1 DEF PchSmmCoreRegister, TypeOK
  <2>6. hurried' \subseteq Records
    BY <1>0, <1>17 DEF PchSmmCoreRegister, Registered, TypeOK
  <2>7. /\ UNCHANGED <<readyToLock, careless, port, caller, left>> /\ UNCHANGED <<pc, rounds, walk>>
        /\ due' \subseteq due /\ Signal
    BY <1>17 DEF PchSmmCoreRegister, Change
  <2>8. TypeOK'
    <3>1. left' \subseteq Records \ ToSet(db') /\ due' \subseteq ToSet(db') /\ sts' \subseteq Sources
      BY <2>1, <2>7 DEF TypeOK
    <3>2. db' \in Seq(Records) /\ IsInjective(db')
      BY <2>1 DEF Lists
    <3>3. {smi', eos', unheard'} \subseteq BOOLEAN
      BY <1>a, <2>7
    <3> QED BY <2>1, <2>4, <2>5, <2>6, <2>7, <3>1, <3>2, <3>3 DEF TypeOK, walk
  <2>9. UNCHANGED <<pc, rounds, link, cur, active, first, left>>
    BY <2>7 DEF walk
  <2> QED BY <2>1, <2>2, <2>3, <2>8, <2>9
<1>18. ASSUME NEW r \in Records, PchSmmCoreUnRegister(r) PROVE TypeOK' /\ Walk'
  <2>1. db' \in Lists /\ ToSet(db') = ToSet(db) \ {r} /\ \A l : Ahead(db', l) \subseteq Ahead(db, l)
    BY <1>0, <1>18, OtherIs DEF PchSmmCoreUnRegister
  <2>2. careless' \in BOOLEAN /\ paused' \in BOOLEAN
    BY <1>18 DEF PchSmmCoreUnRegister, TypeOK
  <2>3. TypeOK'
    BY <1>18, <2>1, <2>2 DEF TypeOK, PchSmmCoreUnRegister, Change, Lists, walk
  <2>4. UNCHANGED <<pc, rounds, link, cur, active, first>> /\ left' = left \union {r}
        /\ pc \in {"idle", "callback"}
    BY <1>18 DEF PchSmmCoreUnRegister, Change, walk
  <2> QED BY <2>1, <2>3, <2>4
<1>19. CASE UNCHANGED vars
  BY <1>19 DEF TypeOK, vars, list, hw, walk, timer
<1> QED
  BY <1>1, <1>2, <1>3, <1>4, <1>5, <1>6, <1>7, <1>8, <1>9, <1>10, <1>11, <1>12, <1>13, <1>14,
     <1>15, <1>16, <1>17, <1>18, <1>19 DEF Next, Dispatcher, Activate, Deactivate

LEMMA WalkHolds == Spec => [](TypeOK /\ Walk)
<1>1. Init => TypeOK /\ Walk
  <2>1. ASSUME Init PROVE TypeOK
    <3>1. db = <<>> /\ <<>> \in Seq(Records) /\ IsInjective(<<>>) /\ ToSet(<<>>) = {}
      BY <2>1, EmptySeq DEF Init, IsInjective, ToSet
    <3>2. "Sw" \in Sources
      BY SourcesAre
    <3>3. db \in Seq(Records) /\ IsInjective(db) /\ ToSet(db) = {}
      BY <3>1
    <3>4. elapsed \in [Records -> Nat] /\ age \in [Records -> Nat]
      BY <2>1 DEF Init
    <3>5. /\ left = {} /\ due = {} /\ en = {} /\ sts = {} /\ cached = {} /\ seen = {} /\ hurried = {}
          /\ rounds = 0 /\ active = "Sw" /\ pc = "idle" /\ caller = "idle"
          /\ first = NoRecord /\ cur = NoRecord /\ link = End /\ minReq = 0 /\ rate = 0 /\ port = 0
      BY <2>1 DEF Init
    <3>6. {readyToLock, careless, top, eos, smi, unheard, paused} \subseteq BOOLEAN
      BY <2>1 DEF Init
    <3>7. 0 \in 0..3 /\ {minReq, rate, port} \subseteq Nat
      BY <3>5
    <3> QED BY <3>2, <3>3, <3>4, <3>5, <3>6, <3>7 DEF TypeOK
  <2>2. Init => Walk
    BY DEF Init, Walk, Walking
  <2> QED BY <2>1, <2>2
<1>2. TypeOK /\ Walk /\ [Next]_vars => (TypeOK /\ Walk)'
  BY TypeStep
<1> QED
  BY <1>1, <1>2, PTL DEF Spec

\* Every variable of the dispatcher keeps its type, for every list of records: SMM drivers
\* and callbacks register and unregister in between, and EscapeCount never wraps.
THEOREM SmiTypeCorrect == Spec => []TypeOK
BY WalkHolds, PTL
-------------------------------------------------------------------------------
(***************************************************************************)
(* Enable bits.                                                            *)
(***************************************************************************)
LEMMA BitsStep ==
  ASSUME TypeOK, BitsStay, [Next]_vars
  PROVE  BitsStay'
<1> USE DEF BitsStay
<1>0. TypeOK /\ db \in Lists /\ \A r \in ToSet(db) : r \in Records /\ Src[r] \in Sources
  BY TypeIs
<1>1. CASE UNCHANGED <<db, paused>> /\ en \subseteq en'
  BY <1>1
<1>2. CASE ClearSource
  <2>0. db' = db
    BY <1>2 DEF ClearSource, list
  <2>1. CASE active = "Timer"
    <3>1. ASSUME NEW r \in ToSet(db) PROVE En[Src[r]] \subseteq en' \/ (paused' /\ Src[r] = "Timer")
      <4>1. CASE Src[r] = "Timer"
        <5>1. Registered("Timer") # {}
          BY <3>1, <4>1 DEF Registered
        <5> QED BY <1>2, <2>1, <4>1, <5>1, ClearSourceIs
      <4>2. CASE Src[r] # "Timer"
        BY <1>0, <1>2, <3>1, <4>2, ClearSourceIs
      <4> QED BY <4>1, <4>2
    <3> QED BY <2>0, <3>1
  <2>2. CASE active # "Timer"
    BY <1>1, <1>2, <2>0, <2>2, ClearSourceIs
  <2> QED BY <2>1, <2>2
<1>3. ASSUME NEW r \in Records, SmmTrigger(Value[r]) PROVE BitsStay'
  BY <1>1, <1>3 DEF SmmTrigger, list, timer
<1>4. CASE Pause
  BY <1>0, <1>4, SourcesAre DEF Pause, list
<1>5. CASE Resume
  BY <1>0, <1>5, SourcesAre DEF Resume, list
<1>6. ASSUME NEW r \in Records, PchSmmCoreRegister(r) PROVE BitsStay'
  <2>1. /\ ToSet(db') = ToSet(db) \union {r} /\ En[Src[r]] \subseteq en'
        /\ \A s \in Sources : s # "Timer" /\ En[s] \subseteq en => En[s] \subseteq en'
        /\ Src[r] # "Timer" => paused' = paused /\ en \subseteq en'
    BY <1>6, RegisterIs
  <2>2. ASSUME NEW q \in ToSet(db') PROVE En[Src[q]] \subseteq en' \/ (paused' /\ Src[q] = "Timer")
    <3>1. CASE Src[q] = Src[r]
      BY <2>1, <3>1
    <3>2. CASE Src[q] # Src[r] /\ Src[r] # "Timer"
      BY <1>0, <2>1, <2>2, <3>2
    <3>3. CASE Src[q] # Src[r] /\ Src[r] = "Timer"
      BY <1>0, <2>1, <2>2, <3>3
    <3> QED BY <3>1, <3>2, <3>3
  <2> QED BY <2>2
<1>7. ASSUME NEW r \in Records, PchSmmCoreUnRegister(r) PROVE BitsStay'
  <2>1. ToSet(db') = ToSet(db) \ {r} /\ ToSet(Other(r)) = ToSet(db')
    BY <1>0, <1>7, OtherIs DEF PchSmmCoreUnRegister
  <2>2. ASSUME NEW q \in ToSet(db') PROVE En[Src[q]] \subseteq en' \/ (paused' /\ Src[q] = "Timer")
    <3>1. En[Src[q]] \intersect Unneeded(r) = {}
      BY <2>1, <2>2 DEF Unneeded
    <3> QED BY <1>7, <2>1, <2>2, <3>1 DEF PchSmmCoreUnRegister
  <2> QED BY <2>2
<1>8. CASE Dispatcher /\ ~ClearSource
  BY <1>1, <1>8 DEF Dispatcher, Enter, Round, Search, Exhaust, CallbackReturns, Exhausted,
     ClearPendingSmiStatus, SetAndCheckEos, list, hw, timer
<1>9. ASSUME NEW s \in Sources, Event(s) PROVE BitsStay'
  BY <1>1, <1>9 DEF Event, list, timer
<1>10. CASE Tick \/ Activate \/ Deactivate \/ SmmReadyToLock \/ UNCHANGED vars
  BY <1>1, <1>10 DEF Tick, Activate, Deactivate, SmmClear, SmmReadyToLock, list, hw, timer, vars
<1> QED
  BY <1>2, <1>3, <1>4, <1>5, <1>6, <1>7, <1>8, <1>9, <1>10 DEF Next

\* PchSmmCoreUnRegister and the programming of the timer leave the bits of every other
\* record set, for any records that share sources and bits, while timers are paused and
\* resumed.
THEOREM BitsStaySet == Spec => []BitsStay
<1>1. Init => BitsStay
  BY DEF Init, BitsStay, ToSet
<1>2. TypeOK /\ BitsStay /\ [Next]_vars => BitsStay'
  BY BitsStep
<1> QED
  BY <1>1, <1>2, SmiTypeCorrect, PTL DEF Spec
-------------------------------------------------------------------------------
(***************************************************************************)
(* The walk.                                                               *)
(***************************************************************************)
LEMMA FreedStep ==
  ASSUME TypeOK, Walk, NoFreedRecord, [Next]_vars, Walk'
  PROVE  NoFreedRecord'
<1> USE DEF NoFreedRecord, Walk, Walking
<1>0. TypeOK /\ db \in Lists /\ End \notin ToSet(db)
  BY TypeIs, HeadIs
<1>1. CASE Exhaust
  <2>1. link \in ToSet(db) /\ NextNode(link) \in ToSet(db) \union {End}
    BY <1>0, <1>1, NextNodeIs DEF Exhaust
  <2>2. /\ db' = db /\ careless' = careless /\ first' = first /\ link' = NextNode(link)
        /\ pc = "exhaust" /\ (pc' = "exhaust" \/ (pc' = "callback" /\ cur' = link))
    BY <1>1 DEF Exhaust, list
  <2> QED BY <2>1, <2>2
<1>2. ASSUME NEW r \in Records, PchSmmCoreRegister(r) PROVE NoFreedRecord'
  <2>1. ToSet(db') = ToSet(db) \union {r}
    BY <1>2, RegisterIs
  <2>2. UNCHANGED <<careless, pc, first, link, cur>>
    BY <1>2 DEF PchSmmCoreRegister, Change, walk
  <2> QED BY <2>1, <2>2
<1>3. ASSUME NEW r \in Records, PchSmmCoreUnRegister(r) PROVE NoFreedRecord'
  <2>1. ToSet(db') = ToSet(db) \ {r} /\ r \in ToSet(db)
    BY <1>0, <1>3, OtherIs DEF PchSmmCoreUnRegister
  <2>2. /\ UNCHANGED <<pc, first, link, cur>> /\ pc \in {"idle", "callback"}
        /\ ~careless' => ~careless /\ (pc = "callback" => r \notin InUse)
    BY <1>3 DEF PchSmmCoreUnRegister, Change, walk
  <2>3. CASE pc = "callback" /\ ~careless'
    <3>1. r # link /\ r # first /\ (r = cur => Src[cur] \in Tco)
      BY <1>3, <2>2, <2>3 DEF InUse
    <3> QED BY <1>0, <2>1, <2>2, <2>3, <3>1
  <2> QED BY <2>2, <2>3
<1>4. CASE Search
  <2>1. /\ db' = db /\ careless' = careless /\ first \in ToSet(db)
        /\ \/ pc' = "exhaust" /\ link' = first /\ first' = first
           \/ pc' \in {"pending", "search"} /\ (pc' = "search" => first' \in ToSet(db'))
    BY <1>4 DEF Search, list
  <2> QED BY <2>1
<1>5. CASE Round
  <2>1. db' = db /\ pc' \in {"idle", "round", "search"}
    BY <1>5 DEF Round, list
  <2> QED BY <2>1
<1>6. CASE Dispatcher /\ ~Exhaust /\ ~Search /\ ~Round
  BY <1>6 DEF Dispatcher, Enter, CallbackReturns, Exhausted, ClearSource, ClearPendingSmiStatus,
     SetAndCheckEos, list, walk
<1>7. CASE UNCHANGED <<db, careless, pc>> /\ UNCHANGED walk
  BY <1>7 DEF walk
<1>8. ASSUME NEW s \in Sources, Event(s) PROVE NoFreedRecord'
  BY <1>7, <1>8 DEF Event, list
<1>9. ASSUME NEW r \in Records, SmmTrigger(Value[r]) PROVE NoFreedRecord'
  BY <1>7, <1>9 DEF SmmTrigger, list
<1>10. CASE Tick \/ Activate \/ Deactivate \/ SmmReadyToLock \/ Pause \/ Resume \/ UNCHANGED vars
  BY <1>7, <1>10 DEF Tick, Activate, Deactivate, SmmClear, SmmReadyToLock, Pause, Resume, list, vars
<1> QED
  BY <1>1, <1>2, <1>3, <1>4, <1>5, <1>6, <1>8, <1>9, <1>10 DEF Next

\* The walk reads no record that has been freed, for any list and however callbacks change
\* it, themselves and others included: it takes a callback that unregisters the next
\* record, the first one that was called, or, from outside PchSmiDispatchType, itself.
THEOREM NoneFreed == Spec => []NoFreedRecord
<1>1. Init => NoFreedRecord
  BY DEF Init, NoFreedRecord
<1>2. TypeOK /\ Walk /\ NoFreedRecord /\ [Next]_vars /\ Walk' => NoFreedRecord'
  BY FreedStep
<1> QED
  BY <1>1, <1>2, WalkHolds, PTL DEF Spec
-------------------------------------------------------------------------------
(***************************************************************************)
(* Time.  A record that the walk has not reached has its tick uncounted,   *)
(* from the tick on until the walk, or a new interval, takes it.           *)
(***************************************************************************)
Busy       == pc \in {"exhaust", "callback", "clear"}
Ticked(r)  == elapsed[r] + minReq <= age[r]
Timed ==
  /\ rate = minReq
  /\ NotEarly
  /\ "Timer" \in sts /\ ~(Busy /\ active = "Timer") =>
       \A r \in Registered("Timer") \ hurried : Ticked(r)
  /\ Walking /\ active = "Timer" =>
       \A r \in Ahead(db, link) \ hurried : Src[r] = "Timer" => Ticked(r)
  /\ pc = "callback" /\ active = "Timer" => elapsed[cur] = 0

LEMMA TimedStep ==
  ASSUME TypeOK, Walk, Timed, [Next]_vars, Walk', TypeOK'
  PROVE  Timed'
<1> USE DEF Timed, Walk, Walking, Busy, NotEarly, Ticked
<1>0. /\ TypeOK /\ db \in Lists /\ \A r \in ToSet(db) : r \in Records
      /\ \A l : Ahead(db, l) \subseteq ToSet(db)
      /\ elapsed \in [Records -> Nat] /\ age \in [Records -> Nat] /\ minReq \in Nat
      /\ left \subseteq Records
  BY TypeIs DEF TypeOK, Ahead
<1>1. CASE UNCHANGED <<db, hurried, minReq, rate, elapsed, age>> /\ ("Timer" \in sts' => "Timer" \in sts)
           /\ UNCHANGED walk /\ pc' = pc
  BY <1>1 DEF walk, Registered
<1>2. CASE Enter
  BY <1>2 DEF Enter, list, walk, timer, Registered
<1>3. CASE Round
  <2>1. UNCHANGED <<db, hurried, sts, minReq, rate, elapsed, age>> /\ pc = "round"
        /\ pc' \in {"round", "idle", "search"}
    BY <1>3 DEF Round, list, hw, timer
  <2> QED BY <2>1 DEF Registered
<1>4. CASE Search
  <2>1. UNCHANGED <<db, hurried, sts, minReq, rate, elapsed, age>> /\ pc = "search"
    BY <1>4 DEF Search, list, hw, timer
  <2>2. CASE pc' \notin {"exhaust", "callback", "clear"}
    BY <2>1, <2>2 DEF Registered
  <2>3. CASE pc' \in {"exhaust", "callback", "clear"}
    <3>1. SourceIsActive(first) /\ pc' = "exhaust" /\ active' = Src[first] /\ link' = first
      BY <1>4, <2>3 DEF Search
    <3>2. active' \in sts
      BY <3>1 DEF SourceIsActive
    <3>3. active' = "Timer" => \A r \in Ahead(db, link') \ hurried : Src[r] = "Timer" => Ticked(r)
      BY <1>0, <2>1, <3>2 DEF Registered
    <3> QED BY <2>1, <3>1, <3>3 DEF Registered
  <2> QED BY <2>2, <2>3
<1>5. CASE Exhaust
  <2>1. link \in ToSet(db) /\ link \in Records
    BY <1>0, <1>5 DEF Exhaust
  <2>2. Ahead(db, link') = Ahead(db, link) \ {link} /\ link \in Ahead(db, link)
    BY <1>5, <2>1, <1>0, NextNodeIs DEF Exhaust
  <2>3. UNCHANGED <<db, hurried, sts, minReq, rate, age, active>>
    BY <1>5 DEF Exhaust, list, hw
  <2>4. /\ \A r \in Records : r # link => elapsed'[r] = elapsed[r]
        /\ ~(active = "Timer" /\ Src[link] = active) => elapsed' = elapsed
    BY <1>5, <2>1, <1>0 DEF Exhaust
  <2>5. link \notin hurried => elapsed'[link] <= age[link]
    <3>1. CASE active = "Timer" /\ Src[link] = active /\ link \notin hurried
      <4>1. elapsed'[link] \in {0, elapsed[link] + minReq}
        BY <1>0, <1>5, <2>1, <3>1 DEF Exhaust, Count
      <4>2. elapsed[link] + minReq <= age[link] /\ age[link] \in Nat
        BY <1>0, <1>5, <2>1, <2>2, <3>1 DEF Exhaust
      <4> QED BY <4>1, <4>2
    <3> QED BY <1>0, <2>1, <2>4, <3>1
  <2>6. ASSUME pc' = "callback", active = "Timer"
        PROVE  elapsed'[cur'] = 0 /\ (cur' \notin hurried => age[cur'] >= Period[cur'])
    <3>1. cur' = link /\ Src[link] = active /\ ContextsMatch(link)
      BY <1>5, <2>6 DEF Exhaust
    <3>2. Count(link) >= Period[link]
      BY <2>6, <3>1 DEF ContextsMatch
    <3>3. elapsed'[link] = 0
      BY <1>0, <1>5, <2>1, <2>6, <3>1 DEF Exhaust
    <3>4. link \notin hurried => elapsed[link] + minReq <= age[link]
      BY <1>5, <2>2, <2>6, <3>1 DEF Exhaust
    <3>5. elapsed[link] \in Nat /\ minReq \in Nat /\ age[link] \in Nat /\ Period[link] \in Nat
      BY <1>0, <2>1, SmiAssumption
    <3> QED BY <3>1, <3>2, <3>3, <3>4, <3>5 DEF Count
  <2>7. pc \in {"exhaust", "callback", "clear"} /\ pc' \in {"exhaust", "callback"}
    BY <1>5 DEF Exhaust
  <2>8. NotEarly'
    BY <1>0, <2>3, <2>4, <2>5, <2>6
  <2>9. "Timer" \in sts /\ active # "Timer" =>
          \A r \in Registered("Timer") \ hurried : Ticked(r)'
    BY <2>3, <2>4
  <2>10. active = "Timer" => \A r \in Ahead(db, link') \ hurried : Src[r] = "Timer" => Ticked(r)'
    BY <1>0, <1>5, <2>2, <2>3, <2>4 DEF Exhaust
  <2> QED BY <2>3, <2>6, <2>7, <2>8, <2>9, <2>10 DEF Registered
<1>6. CASE CallbackReturns
  <2>1. /\ UNCHANGED <<db, hurried, sts, minReq, rate, active, link, elapsed>>
        /\ pc = "callback" /\ pc' = "exhaust"
    BY <1>6 DEF CallbackReturns, list, hw
  <2>2. cur \in Records
    BY <1>0, <2>1
  <2>3. /\ \A r \in Records : r # cur => age'[r] = age[r]
        /\ active = "Timer" => age'[cur] = 0 /\ elapsed[cur] = 0
        /\ active # "Timer" => age' = age
    BY <1>0, <1>6, <2>1, <2>2 DEF CallbackReturns
  <2>4. active = "Timer" => cur \notin Ahead(db, link)
    BY <2>1
  <2> QED BY <1>0, <2>1, <2>2, <2>3, <2>4 DEF Registered
<1>7. CASE Exhausted
  BY <1>7 DEF Exhausted, list, hw, walk, timer, Registered
<1>8. CASE ClearSource
  <2>1. UNCHANGED <<db, hurried, elapsed, age>> /\ pc = "clear" /\ pc' = "pending" /\ active' = active
    BY <1>8 DEF ClearSource, list, walk
  <2>2. /\ rate' = minReq' /\ sts' \subseteq sts
        /\ active # "Timer" => minReq' = minReq
        /\ active = "Timer" => Registered("Timer") = {} \/ "Timer" \notin sts'
    BY <1>8, ClearSourceIs
  <2> QED BY <2>1, <2>2 DEF Registered
<1>9. CASE ClearPendingSmiStatus
  BY <1>9 DEF ClearPendingSmiStatus, list, walk, timer, Registered
<1>10. CASE SetAndCheckEos
  BY <1>10 DEF SetAndCheckEos, list, timer, Registered
<1>11. ASSUME NEW s \in Sources, Event(s) PROVE Timed'
  <2>1. "Timer" \in sts' => "Timer" \in sts
    BY <1>11 DEF Event, Tco
  <2> QED BY <1>1, <1>11, <2>1 DEF Event, list, timer
<1>12. CASE Tick
  <2>1. UNCHANGED <<db, hurried, minReq, rate, elapsed, pc>> /\ UNCHANGED walk
    BY <1>12 DEF Tick, list
  <2>2. \A r \in Records : age'[r] = IF r \in Registered("Timer") THEN age[r] + minReq ELSE age[r]
    BY <1>0, <1>12 DEF Tick
  <2>3. \A r \in Records : age[r] <= age'[r] /\ elapsed[r] \in Nat /\ age[r] \in Nat /\ age'[r] \in Nat /\ Period[r] \in Nat
    BY <1>0, <2>2, SmiAssumption
  <2>4. \A r \in Registered("Timer") \ hurried : Ticked(r)'
    BY <1>0, <2>1, <2>2, <2>3 DEF Registered
  <2>5. \A r \in Ahead(db, link) : Src[r] = "Timer" => r \in Registered("Timer")
    BY <1>0 DEF Registered
  <2>6. pc = "callback" => cur \in Records
    BY <1>0
  <2>7. NotEarly'
    BY <1>0, <2>1, <2>3, <2>6 DEF walk
  <2> QED BY <2>1, <2>4, <2>5, <2>7 DEF walk, Registered
<1>13. ASSUME NEW r \in Records, SmmTrigger(Value[r]) PROVE Timed'
  BY <1>1, <1>13 DEF SmmTrigger, list, timer
<1>14. CASE Activate \/ Deactivate \/ SmmReadyToLock \/ Pause \/ Resume \/ UNCHANGED vars
  BY <1>1, <1>14 DEF Activate, Deactivate, SmmClear, SmmReadyToLock, Pause, Resume, list, hw, timer,
     vars
<1>15. ASSUME NEW r \in Records, PchSmmCoreRegister(r) PROVE Timed'
  <2>1. /\ db' \in Lists /\ ToSet(db') = ToSet(db) \union {r} /\ r \notin ToSet(db) \union left
        /\ rate' = minReq' /\ sts' \subseteq sts /\ Src[r] \notin sts'
        /\ Src[r] # "Timer" => minReq' = minReq
    BY <1>15, RegisterIs
  <2>2. \A l : l # r => Ahead(db', l) \subseteq Ahead(db, l) \union {r}
    BY <1>0, <1>15, <2>1, AppendIs DEF PchSmmCoreRegister
  <2>3. /\ UNCHANGED <<pc, active, first, link, cur>> /\ pc \in {"idle", "callback"}
        /\ hurried \subseteq hurried'
        /\ pc = "callback" /\ Src[r] = "Timer" /\ active = "Timer" =>
             hurried' = hurried \union Registered("Timer") \union {r}
    BY <1>15 DEF PchSmmCoreRegister, Change, walk
  <2>4. /\ \A q \in Records : q # r => elapsed'[q] = elapsed[q] /\ age'[q] = age[q]
        /\ elapsed'[r] = 0 /\ age'[r] = 0
    BY <1>0, <1>15 DEF PchSmmCoreRegister
  <2>5. pc = "callback" => cur \in ToSet(db) \union left /\ link \in ToSet(db) \union left \union {End}
                           /\ cur # r /\ link # r
    <3>1. pc = "callback" => /\ cur \in ToSet(db) \union left
                             /\ link \in ToSet(db) \union left \union {End}
      OBVIOUS
    <3>2. End # r
      BY SmiAssumption
    <3> QED BY <2>1, <3>1, <3>2
  <2>6. NotEarly'
    BY <1>0, <2>1, <2>3, <2>4, <2>5
  <2>7. "Timer" \in sts' /\ ~(Busy /\ active = "Timer") =>
          \A q \in Registered("Timer")' \ hurried' : Ticked(q)'
    <3>1. "Timer" \in sts' => "Timer" \in sts /\ Src[r] # "Timer" /\ minReq' = minReq
      BY <2>1
    <3> QED BY <1>0, <2>1, <2>3, <2>4, <3>1 DEF Registered
  <2>8. pc = "callback" /\ active = "Timer" =>
          \A q \in Ahead(db', link) \ hurried' : Src[q] = "Timer" => Ticked(q)'
    <3> SUFFICES ASSUME pc = "callback", active = "Timer", NEW q \in Ahead(db', link) \ hurried',
                        Src[q] = "Timer"
                 PROVE  Ticked(q)'
      OBVIOUS
    <3>1. q \in Ahead(db, link) \union {r}
      BY <2>1, <2>2, <2>5
    <3>2. q \in Registered("Timer") \union {r}
      BY <1>0, <3>1 DEF Registered
    <3>3. Src[r] # "Timer" /\ q # r
      BY <2>3, <3>2
    <3> QED BY <1>0, <2>1, <2>3, <2>4, <3>1, <3>3
  <2>9. pc = "callback" /\ active = "Timer" => elapsed'[cur] = 0
    BY <1>0, <2>1, <2>4, <2>5
  <2> QED BY <2>1, <2>3, <2>6, <2>7, <2>8, <2>9
<1>16. ASSUME NEW r \in Records, PchSmmCoreUnRegister(r) PROVE Timed'
  <2>1. ToSet(db') = ToSet(db) \ {r} /\ \A l : Ahead(db', l) \subseteq Ahead(db, l)
    BY <1>0, <1>16, OtherIs DEF PchSmmCoreUnRegister
  <2>2. UNCHANGED <<pc, active, link, cur, hurried, minReq, rate, elapsed, age, sts>>
    BY <1>16 DEF PchSmmCoreUnRegister, Change, walk
  <2> QED BY <2>1, <2>2 DEF Registered
<1> QED
  BY <1>2, <1>3, <1>4, <1>5, <1>6, <1>7, <1>8, <1>9, <1>10, <1>11, <1>12, <1>13, <1>14, <1>15,
     <1>16 DEF Next, Dispatcher

\* No callback of a timer comes before its Period, for any periods and intervals, with records
\* that come and go while the timer runs, is paused or is dispatched: MinReqInterval, which
\* the walk adds, is never more than the hardware has let pass, unless a callback of the
\* timer registers one more record for it.
THEOREM NeverEarly == Spec => []NotEarly
<1>1. Init => Timed
  BY DEF Init, Timed, NotEarly, ToSet, Registered, Ticked, Busy, Walking
<1>2. TypeOK /\ Walk /\ Timed /\ [Next]_vars /\ (TypeOK /\ Walk)' => Timed'
  BY TimedStep
<1>3. Timed => NotEarly
  BY DEF Timed
<1> QED
  BY <1>1, <1>2, <1>3, WalkHolds, PTL DEF Spec
-------------------------------------------------------------------------------
(***************************************************************************)
(* Statuses.  The hardware keeps SMI_STS.TCO set as long as a status of    *)
(* the TCO is; with EOS set nothing asserts an SMI.                        *)
(***************************************************************************)
Latched == sts \intersect Tco # {} => top
Quiet ==
  /\ Latched
  /\ eos => SmiSts(sts, top) \intersect en = {}
  /\ pc = "idle" /\ ~smi /\ ~eos => unheard
  /\ pc = "round" /\ db = <<>> => smi

\* What a status that is left alone is worth.
LEMMA PendingIs ==
  ASSUME NEW S \in SUBSET Sources, NEW x \in BOOLEAN, NEW s \in S,
         s # "Timer", S \intersect Tco # {} => x
  PROVE  En[s] \subseteq SmiSts(S, x)
<1>1. CASE s = "Sw"
  BY <1>1, SmiStsIs, SourcesAre
<1>2. CASE s # "Sw"
  <2>1. s \in Tco
    BY <1>2, SourcesAre DEF Tco
  <2>2. x
    BY <2>1
  <2>3. "TCO" \in SmiSts(S, x)
    BY <2>2, SmiStsIs
  <2>4. En[s] = {"TCO"}
    BY <2>1, SourcesAre DEF Tco
  <2> QED BY <2>3, <2>4
<1> QED BY <1>1, <1>2

\* Fewer statuses and enable bits, but for a timer that starts without its status.
LEMMA Falls ==
  ASSUME TypeOK, TypeOK', sts' \subseteq sts, top' => top, eos' = eos,
         SmiSts(sts, top) \intersect en = {} \/ ~eos,
         en' \subseteq en \/ ("Timer" \notin sts' /\ en' \subseteq en \union En["Timer"])
  PROVE  eos' => SmiSts(sts', top') \intersect en' = {}
<1>1. SmiSts(sts', top') \subseteq SmiSts(sts, top)
  <2>1. /\ sts \in SUBSET Sources /\ top \in BOOLEAN
        /\ sts' \in SUBSET Sources /\ top' \in BOOLEAN
    BY DEF TypeOK
  <2>2. /\ SmiSts(sts', top') \subseteq {"APMC", "TCO", "SWSMI_TMR"}
        /\ "APMC" \in SmiSts(sts', top') <=> "Sw" \in sts'
        /\ "SWSMI_TMR" \in SmiSts(sts', top') <=> "Timer" \in sts'
        /\ "TCO" \in SmiSts(sts', top') <=> top'
    BY <2>1, SmiStsIs, SourcesAre
  <2>3. /\ "APMC" \in SmiSts(sts, top) <=> "Sw" \in sts
        /\ "SWSMI_TMR" \in SmiSts(sts, top) <=> "Timer" \in sts
        /\ "TCO" \in SmiSts(sts, top) <=> top
    BY <2>1, SmiStsIs
  <2> QED BY <2>2, <2>3
<1>2. "Timer" \notin sts' => "SWSMI_TMR" \notin SmiSts(sts', top')
  BY SmiStsIs DEF TypeOK
<1> QED
  BY <1>1, <1>2, SourcesAre

LEMMA QuietStep ==
  ASSUME Relatch, TypeOK, TypeOK', Quiet, [Next]_vars
  PROVE  Quiet'
<1> USE DEF Quiet, Latched
<1>0. /\ TypeOK /\ TypeOK' /\ db \in Lists
      /\ \A S : S \intersect Tco # {} => Cleared(S)
      /\ Cleared(sts') => sts' \intersect Tco # {}
  BY TypeIs DEF Cleared
<1>1. Signal => /\ eos' => SmiSts(sts', top') \intersect en' = {}
                /\ ~smi' /\ ~eos' => ~smi /\ ~eos /\ unheard' = unheard
                /\ smi => smi'
  BY <1>0 DEF Signal, TypeOK
<1>2. SetEos => /\ eos' => SmiSts(sts', top') \intersect en = {}
                /\ ~eos' => smi'
                /\ smi => smi'
  BY <1>0 DEF SetEos, TypeOK
<1>3. CASE UNCHANGED <<en, sts, top, eos, smi>> /\ (~eos /\ pc' = "idle" /\ ~smi => unheard')
           /\ (pc' = "round" /\ db' = <<>> => smi)
  BY <1>3
<1>4. CASE Enter
  <2>1. UNCHANGED <<db, en, sts, top, eos>> /\ smi' = FALSE
        /\ IF db = <<>> THEN unheard' = ~eos /\ pc' = pc ELSE pc' = "round" /\ unheard' = unheard
    BY <1>4 DEF Enter, list
  <2>2. pc = "idle"
    BY <1>4 DEF Enter
  <2> QED BY <2>1, <2>2
<1>5. CASE Round
  <2>1. /\ UNCHANGED <<db, en, sts, top, eos, smi, unheard>> /\ pc = "round"
        /\ IF db = <<>> THEN pc' \in {"round", "idle"} ELSE pc' = "search"
    BY <1>5 DEF Round, list, hw
  <2> QED BY <2>1
<1>6. CASE Search \/ Exhaust \/ CallbackReturns \/ Exhausted
  <2>1. UNCHANGED hw /\ pc' \notin {"idle", "round"}
    BY <1>6 DEF Search, Exhaust, CallbackReturns, Exhausted
  <2> QED BY <1>3, <2>1 DEF hw
<1>7. CASE ClearSource
  <2>1. UNCHANGED <<eos, smi>> /\ pc' = "pending" /\ (top' = top \/ top' = Cleared(sts'))
        /\ sts' \subseteq sts
    BY <1>7, ClearSourceIs DEF ClearSource
  <2>2. top' => top
    BY <1>0, <2>1
  <2>3. en' \subseteq en \/ ("Timer" \notin sts' /\ en' \subseteq en \union En["Timer"])
    <3>1. CASE active = "Timer"
      BY <1>7, <3>1, SourcesAre DEF ClearSource, PchSmmPeriodicTimerProgramTimers
    <3>2. CASE active # "Timer"
      BY <1>7, <3>2 DEF ClearSource
    <3> QED BY <3>1, <3>2
  <2>4. eos' => SmiSts(sts', top') \intersect en' = {}
    BY <1>0, <2>1, <2>2, <2>3, Falls
  <2>5. Latched'
    BY <1>0, <2>1
  <2> QED BY <2>1, <2>4, <2>5
<1>8. CASE ClearPendingSmiStatus
  <2>1. UNCHANGED <<eos, smi, en>> /\ pc' = "eos" /\ (top' = top \/ top' = Cleared(sts'))
        /\ sts' \subseteq sts
    BY <1>8 DEF ClearPendingSmiStatus
  <2>2. top' => top
    BY <1>0, <2>1
  <2>3. eos' => SmiSts(sts', top') \intersect en' = {}
    BY <1>0, <2>1, <2>2, Falls
  <2>4. Latched'
    BY <1>0, <2>1
  <2> QED BY <2>1, <2>3, <2>4
<1>9. CASE SetAndCheckEos
  <2>1. UNCHANGED <<db, en, sts, top>> /\ SetEos /\ pc' \in {"round", "idle"} /\ (pc' = "round" => ~eos')
    BY <1>9 DEF SetAndCheckEos, list
  <2> QED BY <1>2, <2>1
<1>10. CASE SmmClear
  <2>1. UNCHANGED <<db, pc, en, top>> /\ SetEos /\ sts' \subseteq sts
    BY <1>10 DEF SmmClear, list
  <2> QED BY <1>2, <2>1
<1>11. ASSUME Signal, pc' = pc, Latched', db' # db => pc \in {"idle", "callback"} PROVE Quiet'
  BY <1>1, <1>11
<1>12. ASSUME NEW s \in Sources, Event(s) PROVE Quiet'
  <2>1. Latched'
    BY <1>12 DEF Event
  <2> QED BY <1>11, <1>12, <2>1 DEF Event, list
<1>13. CASE Tick
  <2>1. Latched'
    BY <1>13 DEF Tick, Tco
  <2> QED BY <1>11, <1>13, <2>1 DEF Tick, list
<1>14. ASSUME NEW r \in Records, SmmTrigger(Value[r]) PROVE Quiet'
  <2>1. Latched'
    BY <1>14 DEF SmmTrigger, Tco
  <2> QED BY <1>11, <1>14, <2>1 DEF SmmTrigger, list
<1>15. ASSUME NEW r \in Records, PchSmmCoreRegister(r) PROVE Quiet'
  <2>1. sts' \subseteq sts
    BY <1>15, RegisterIs
  <2>2. Latched'
    BY <1>0, <1>15, <2>1 DEF PchSmmCoreRegister
  <2> QED BY <1>11, <1>15, <2>2 DEF PchSmmCoreRegister, Change
<1>16. ASSUME NEW r \in Records, PchSmmCoreUnRegister(r) PROVE Quiet'
  <2>1. UNCHANGED <<sts, top, eos, smi, unheard, pc>> /\ en' \subseteq en /\ pc \in {"idle", "callback"}
    BY <1>16 DEF PchSmmCoreUnRegister, Change
  <2> QED BY <2>1
<1>17. CASE Pause \/ Resume
  <2>1. /\ UNCHANGED <<db, top, eos, smi, unheard, pc>> /\ sts' \subseteq sts
        /\ en' \subseteq en \/ ("Timer" \notin sts' /\ en' \subseteq en \union En["Timer"])
    BY <1>17 DEF Pause, Resume, list
  <2>2. eos' => SmiSts(sts', top') \intersect en' = {}
    BY <1>0, <2>1, Falls
  <2> QED BY <2>1, <2>2
<1>18. CASE SmmReadyToLock \/ UNCHANGED vars
  BY <1>3, <1>18 DEF SmmReadyToLock, vars, list, hw
<1> QED
  BY <1>4, <1>5, <1>6, <1>7, <1>8, <1>9, <1>10, <1>12, <1>13, <1>14, <1>15, <1>16, <1>17, <1>18
     DEF Next, Dispatcher, Activate, Deactivate
-------------------------------------------------------------------------------
(***************************************************************************)
(* What the walk owes.  A record that was due when the round began is      *)
(* ahead of it; with the end of the list reached none of the source that   *)
(* is about to be cleared is left.                                         *)
(***************************************************************************)
Addressee(r) == Src[r] # "Timer" /\ (Src[r] = "Sw" => Value[r] = port)
Owed ==
  /\ caller = "trigger" => "Sw" \notin sts
  /\ \A r \in due : Src[r] \in sts /\ Addressee(r)
  /\ \A r \in seen : Addressee(r)
  /\ seen \subseteq ToSet(db) \union left
  /\ pc = "idle" => seen = {}
  /\ pc = "search" => \A r \in seen : r \in due /\ r \in Ahead(db, first) /\ En[Src[r]] \subseteq cached
  /\ Walking => \A r \in seen \intersect ToSet(db) :
                  Src[r] = active /\ link \in ToSet(db) \union {End} => r \in Ahead(db, link)
  /\ pc \in {"clear", "pending"} => \A r \in seen \intersect ToSet(db) : Src[r] # active

LEMMA OwedStep ==
  ASSUME TypeOK, Walk, BitsStay, Latched, Owed, [Next]_vars
  PROVE  Owed'
<1> USE DEF Owed, Walk, Walking, Addressee
<1>0. /\ TypeOK /\ db \in Lists /\ due \subseteq ToSet(db) /\ left \subseteq Records
      /\ \A r \in ToSet(db) : r \in Records /\ Src[r] \in Sources
      /\ Ahead(db, End) = {} /\ End \notin ToSet(db)
  BY TypeIs, HeadIs DEF TypeOK
<1>1. CASE UNCHANGED <<db, left, port, due, caller, sts>> /\ UNCHANGED walk /\ pc' \in {pc, "round"}
  BY <1>1 DEF walk
<1>2. CASE Round
  <2>1. /\ UNCHANGED <<db, left, sts, port, due, caller>> /\ pc = "round" /\ seen' = due
        /\ cached' = SmiSts(sts, top)
        /\ IF db = <<>> THEN pc' \in {"round", "idle"} ELSE pc' = "search" /\ first' = Head(db)
    BY <1>2 DEF Round, list, hw
  <2>2. db = <<>> => due = {}
    BY <1>0, ListIs
  <2>3. db # <<>> => ToSet(db) \subseteq Ahead(db, Head(db))
    BY <1>0, HeadIs
  <2>4. \A r \in due : En[Src[r]] \subseteq cached'
    BY <2>1, PendingIs DEF TypeOK, Latched
  <2> QED BY <1>0, <2>1, <2>2, <2>3, <2>4
<1>3. CASE Search
  <2>1. first \in ToSet(db)
    BY <1>3 DEF Search
  <2>2. UNCHANGED <<db, left, sts, port, due, caller, seen, cached>> /\ pc = "search"
    BY <1>3 DEF Search, list, hw
  <2>3. CASE SourceIsActive(first)
    <3>1. pc' = "exhaust" /\ link' = first
      BY <1>3, <2>3 DEF Search
    <3> QED BY <2>2, <3>1
  <2>4. CASE ~SourceIsActive(first)
    <3>1. first' = NextNode(first) /\ pc' = (IF first' = End THEN "pending" ELSE "search")
      BY <1>3, <2>4 DEF Search
    <3>2. first \notin seen
      <4>1. SUFFICES ASSUME first \in seen PROVE FALSE
        OBVIOUS
      <4>2. Src[first] \in sts /\ En[Src[first]] \subseteq cached /\ Src[first] # "Timer"
        BY <2>2, <4>1
      <4>3. En[Src[first]] \subseteq en
        BY <2>1, <4>2 DEF BitsStay
      <4> QED BY <2>4, <4>2, <4>3 DEF SourceIsActive
    <3>3. Ahead(db, first') = Ahead(db, first) \ {first}
      BY <1>0, <2>1, <3>1, NextNodeIs
    <3> QED BY <1>0, <2>2, <3>1, <3>2, <3>3
  <2> QED BY <2>3, <2>4
<1>4. CASE Exhaust
  <2>1. link \in ToSet(db)
    BY <1>4 DEF Exhaust
  <2>2. Ahead(db, link') = Ahead(db, link) \ {link}
    BY <1>0, <1>4, <2>1, NextNodeIs DEF Exhaust
  <2>3. /\ UNCHANGED <<db, left, sts, port, active, caller>> /\ pc = "exhaust"
        /\ pc' \in {"exhaust", "callback"}
    BY <1>4 DEF Exhaust, list, hw
  <2>4. due' \subseteq due /\ seen' \subseteq seen
    BY <1>4 DEF Exhaust
  <2>5. link \in seen /\ Src[link] = active => link \notin seen'
    <3>1. link \in seen => ContextsMatch(link)
      BY DEF ContextsMatch
    <3> QED BY <1>4, <3>1 DEF Exhaust
  <2> QED BY <1>0, <2>1, <2>2, <2>3, <2>4, <2>5
<1>5. CASE CallbackReturns
  BY <1>5 DEF CallbackReturns, list, hw
<1>6. CASE Exhausted
  BY <1>0, <1>6 DEF Exhausted, list, hw, walk
<1>7. CASE ClearSource
  <2>1. /\ UNCHANGED <<db, left, port, active, caller, seen>> /\ pc = "clear" /\ pc' = "pending"
        /\ due' = {r \in due : Src[r] # active}
    BY <1>7 DEF ClearSource, list, walk
  <2>2. sts' \subseteq sts /\ \A s \in Sources : s \notin {active, "Timer"} /\ s \in sts => s \in sts'
    BY <1>7, ClearSourceIs
  <2> QED BY <1>0, <2>1, <2>2
<1>8. CASE ClearPendingSmiStatus
  <2>1. /\ UNCHANGED <<db, left, port, caller, seen>> /\ pc' = "eos" /\ sts' \subseteq sts
        /\ due' = {r \in due : Src[r] \in sts'}
    BY <1>8 DEF ClearPendingSmiStatus, list, walk
  <2> QED BY <2>1
<1>9. CASE SetAndCheckEos
  <2>1. UNCHANGED <<db, left, sts, port, due, caller>> /\ seen' = {} /\ pc' \in {"round", "idle"}
    BY <1>9 DEF SetAndCheckEos, list
  <2> QED BY <2>1
<1>10. ASSUME NEW s \in Sources, Event(s) PROVE Owed'
  <2>1. UNCHANGED <<db, left, port, pc, caller>> /\ UNCHANGED walk /\ s \notin {"Sw", "Timer"}
        /\ sts' = sts \union {s} /\ due' = due \union Addressed(s)
    BY <1>10 DEF Event, list, Tco
  <2>2. \A r \in Addressed(s) : Src[r] = s /\ r \in ToSet(db)
    BY DEF Addressed, Registered
  <2> QED BY <2>1, <2>2 DEF walk
<1>11. CASE Tick
  BY <1>11 DEF Tick, list, walk
<1>12. ASSUME NEW r \in Records, SmmTrigger(Value[r]) PROVE Owed'
  <2>1. /\ UNCHANGED <<db, left, pc>> /\ pc = "idle" /\ "Sw" \notin sts /\ port' = Value[r]
        /\ sts' = sts \union {"Sw"} /\ due' = due \union Addressed("Sw")
        /\ UNCHANGED seen /\ caller' = "clear"
    BY <1>12 DEF SmmTrigger, list, walk
  <2>2. \A q \in Addressed("Sw") : Src[q] = "Sw" /\ Value[q] = port'
    BY DEF Addressed, Registered
  <2> QED BY <2>1, <2>2
<1>13. CASE SmmClear
  BY <1>13 DEF SmmClear, list, walk
<1>14. CASE SmmReadyToLock \/ Pause \/ Enter
  BY <1>1, <1>14 DEF SmmReadyToLock, Pause, Enter, list, hw
<1>15. CASE Resume
  BY <1>15 DEF Resume, list, walk
<1>16. ASSUME NEW r \in Records, PchSmmCoreRegister(r) PROVE Owed'
  <2>1. \A l \in ToSet(db) : Ahead(db, l) \subseteq Ahead(db', l)
    BY <1>0, <1>16, AppendIs DEF PchSmmCoreRegister
  <2>2. /\ UNCHANGED <<pc, port, active, link, left, seen, caller>> /\ pc \in {"idle", "callback"}
        /\ due' = {q \in due : Src[q] # Src[r]}
    BY <1>16 DEF PchSmmCoreRegister, Change, walk
  <2>3. /\ ToSet(db') = ToSet(db) \union {r} /\ r \notin ToSet(db) \union left /\ sts' \subseteq sts
        /\ \A s \in Sources : s # Src[r] /\ s \in sts => s \in sts'
    BY <1>16, RegisterIs
  <2>4. seen \intersect ToSet(db') \subseteq ToSet(db) /\ r # End
    BY <2>3, SmiAssumption
  <2>5. pc = "callback" => \A q \in seen \intersect ToSet(db') :
          Src[q] = active /\ link \in ToSet(db') \union {End} => q \in Ahead(db', link)
    <3> SUFFICES ASSUME pc = "callback", NEW q \in seen \intersect ToSet(db'), Src[q] = active,
                        link \in ToSet(db') \union {End}
                 PROVE  q \in Ahead(db', link)
      OBVIOUS
    <3>1. link \in ToSet(db) \union {End}
      BY <2>3, <2>4
    <3>2. q \in Ahead(db, link)
      BY <2>4, <3>1
    <3>3. link \in ToSet(db)
      BY <1>0, <3>1, <3>2
    <3> QED BY <2>1, <3>2, <3>3
  <2>6. \A q \in due' : Src[q] \in sts' /\ Addressee(q)'
    BY <1>0, <2>2, <2>3
  <2> QED BY <2>2, <2>3, <2>5, <2>6
<1>17. ASSUME NEW r \in Records, PchSmmCoreUnRegister(r) PROVE Owed'
  <2>1. /\ \A l \in ToSet(db) : \A q \in Ahead(db, l) : q # r /\ l # r => q \in Ahead(db', l)
        /\ ToSet(db') = ToSet(db) \ {r} /\ r \in ToSet(db)
    BY <1>0, <1>17, OtherIs DEF PchSmmCoreUnRegister
  <2>2. /\ UNCHANGED <<pc, port, active, link, sts, seen, caller>> /\ pc \in {"idle", "callback"}
        /\ due' = due \ {r} /\ left' = left \union {r}
    BY <1>17 DEF PchSmmCoreUnRegister, Change, walk
  <2>3. pc = "callback" => \A q \in seen \intersect ToSet(db') :
          Src[q] = active /\ link \in ToSet(db') \union {End} => q \in Ahead(db', link)
    <3> SUFFICES ASSUME pc = "callback", NEW q \in seen \intersect ToSet(db'), Src[q] = active,
                        link \in ToSet(db') \union {End}
                 PROVE  q \in Ahead(db', link)
      OBVIOUS
    <3>1. q \in Ahead(db, link) /\ q # r
      BY <2>1
    <3>2. link \in ToSet(db) /\ link # r
      BY <1>0, <2>1, <3>1
    <3> QED BY <2>1, <3>1, <3>2
  <2> QED BY <2>1, <2>2, <2>3
<1>18. CASE UNCHANGED vars
  BY <1>1, <1>18 DEF vars, list, hw
<1> QED
  BY <1>2, <1>3, <1>4, <1>5, <1>6, <1>7, <1>8, <1>9, <1>10, <1>11, <1>12, <1>13, <1>14, <1>15,
     <1>16, <1>17, <1>18 DEF Next, Dispatcher, Activate, Deactivate

\* One step takes no status, and no share of SMI_STS.TCO, from a record that is owed a call.
LEMMA NotTaken ==
  ASSUME TypeOK, TypeOK', BitsStay, Quiet, Latched', Owed, Next
  PROVE  /\ pc \in {"clear", "pending"} => \A r \in due \intersect seen :
              \/ Pending(r) => Pending(r)'
              \/ pc = "pending" /\ Src[r] \in {"NewCentury", "Sw"} \ {active}
         /\ Deactivate => unheard \/ due' = due
<1>1. ASSUME pc \in {"clear", "pending"}, NEW r \in due \intersect seen
      PROVE  \/ Pending(r) => Pending(r)'
             \/ pc = "pending" /\ Src[r] \in {"NewCentury", "Sw"} \ {active}
  <2>1. r \in ToSet(db) /\ Src[r] \in sts /\ Src[r] # "Timer" /\ Src[r] # active /\ Src[r] \in Sources
    BY <1>1, TypeIs DEF Owed, Addressee, TypeOK
  <2>2. Src[r] \in sts' => Pending(r)'
    BY <2>1, PendingIs DEF TypeOK, Latched, Pending
  <2>3. CASE ClearSource
    BY <2>1, <2>2, <2>3, ClearSourceIs
  <2>4. CASE ClearPendingSmiStatus
    <3>1. CASE Src[r] = "TcoTimeout"
      <4>1. Src[r] \in sts'
        BY <2>1, <2>4, <3>1 DEF ClearPendingSmiStatus
      <4> QED BY <2>2, <4>1
    <3>2. CASE Src[r] # "TcoTimeout"
      BY <2>1, <2>4, <3>2, SourcesAre DEF ClearPendingSmiStatus
    <3> QED BY <3>1, <3>2
  <2>5. ASSUME NEW s \in Sources, Event(s) PROVE Pending(r)'
    BY <2>1, <2>2, <2>5 DEF Event
  <2>6. CASE Tick
    BY <2>1, <2>2, <2>6 DEF Tick
  <2> QED BY <1>1, <2>3, <2>4, <2>5, <2>6 DEF Next, Dispatcher, Enter, Round, Search, Exhaust,
     CallbackReturns, Exhausted, SetAndCheckEos, SmmTrigger, Activate, Deactivate, SmmClear,
     SmmReadyToLock, Pause, Resume, PchSmmCoreRegister, PchSmmCoreUnRegister, Change
<1>2. ASSUME Deactivate, ~unheard PROVE due' = due
  <2>1. pc = "idle" /\ ~smi /\ due' = {r \in due : Src[r] # "Sw"}
    BY <1>2 DEF Deactivate, SmmClear
  <2>2. SmiSts(sts, top) \intersect en = {}
    BY <1>2, <2>1 DEF Quiet
  <2>3. ASSUME NEW r \in due, Src[r] = "Sw" PROVE FALSE
    <3>1. "Sw" \in sts /\ r \in ToSet(db)
      BY <2>3 DEF Owed, TypeOK
    <3>2. "APMC" \in SmiSts(sts, top)
      BY <3>1, SmiStsIs DEF TypeOK
    <3>3. "APMC" \in en
      BY <2>3, <3>1, SourcesAre DEF BitsStay
    <3> QED BY <2>2, <3>2, <3>3
  <2> QED BY <2>1, <2>3
<1> QED BY <1>1, <1>2

\* No status that an uncalled record waits for is cleared with another source, though the
\* sources of the TCO share SMI_STS.TCO, however long the list, and however records come and
\* go and other events arrive between the callbacks; and a software SMI is served before
\* Deactivate.  The hardware has to set SMI_STS.TCO again as long as a status is left.
THEOREM AllCalled ==
  ASSUME Relatch
  PROVE  Spec => CalledBeforeClear
<1>1. Init => Quiet /\ Owed
  BY DEF Init, Quiet, Latched, Owed, Walking, Tco
<1>2. TypeOK /\ Walk /\ BitsStay /\ Quiet /\ Owed /\ [Next]_vars /\ (TypeOK /\ Walk)' => (Quiet /\ Owed)'
  BY QuietStep, OwedStep DEF Quiet
<1>3. /\ TypeOK /\ BitsStay /\ Quiet /\ Owed /\ [Next]_vars /\ (TypeOK /\ Walk)' /\ (Quiet /\ Owed)'
      => [/\ pc \in {"clear", "pending"} => \A r \in due \intersect seen :
               \/ Pending(r) => Pending(r)'
               \/ pc = "pending" /\ Src[r] \in {"NewCentury", "Sw"} \ {active}
          /\ Deactivate => unheard \/ due' = due]_vars
  BY NotTaken DEF Quiet
<1> QED
  BY <1>1, <1>2, <1>3, WalkHolds, BitsStaySet, PTL DEF Spec, CalledBeforeClear
===============================================================================
