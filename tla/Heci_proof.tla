------------------------------ MODULE Heci_proof ------------------------------
(***************************************************************************)
(* Theorems about Heci for every depth of the circular buffers, every      *)
(* number of attempts, of calls and of resets by the ME, answers of any    *)
(* number of packets and, but for one remainder, requests of any length.   *)
(***************************************************************************)
EXTENDS Heci, SequenceTheorems, TLAPS

\* Positions.
SendAt  == {"sCheck", "sInit", "sReady", "pReady", "pRoom", "pCheck"}
RecvAt  == {"rCheck", "rInit", "rReady", "rHead", "rBody", "rDone"}
Senders == {"ackRetry", "ack", "send"}
Resets  == {"reset", "reinit"}
Retried == {"ackRetry", "send", "receive"}
Waits   == DOMAIN AfterWait
Where   == IF pc = "reset" /\ after \in Waits THEN after ELSE pc

\* What the buffers hold, and how requests stand in theirs: packet by packet.
MsgWord == [head : {TRUE}, id : Ids, len : Nat, last : BOOLEAN, off : Nat, want : Nat]
             \union [head : {FALSE}, id : Ids]
Contents ==
  /\ h2m \in Seq(MsgWord) /\ m2h \in Seq(MsgWord) /\ out \in Seq(MsgWord)
  /\ owed \in Seq([id : Ids, whole : BOOLEAN]) /\ asm \in [id : Ids, bytes : Nat]

Next1(s, k) == k + Words(s[k].len) + 1
Packed(s) ==
  /\ s # <<>> => s[1].head
  /\ \A k \in 1..Len(s) : s[k].head =>
       Next1(s, k) - 1 <= Len(s) /\ (Next1(s, k) <= Len(s) => s[Next1(s, k)].head)

\* Which operation can be where, and which attempt it is.
Attempts == MaxTry - tries +
  (IF pc \in {"sCheck", "retry"} \/ (pc = "reset" /\ after = "retry") THEN 0 ELSE 1)
Place ==
  /\ Where \in SendAt => op.kind \in Senders
  /\ Where \in RecvAt => op.kind \in Acks
  /\ pc = "control" => op.kind \in Resets
  /\ pc = "reset" => /\ after = "user" <=> op.kind \in Resets
                     /\ after = "retry" => op.kind \in Retried
                     /\ after \in Waits => op.kind # "poll"
  /\ pc = "retry" => op.kind \in Retried
  /\ op.kind \in Senders => op.len \in ReqLens
  /\ Where \in SendAt \ {"sCheck"} => cur < op.len
Tried ==
  /\ op.kind \in Senders /\ pc # "idle" => id.try <= Attempts
  /\ op.kind = "ack" /\ pc # "idle" => id.try = Attempts

\* While H_RST is set nothing moves.
Quiet == m2h = <<>> /\ owed = <<>> /\ out = <<>>
Empty == Quiet /\ h2m = <<>>
InReset ==
  /\ pc = "reset" => hRst
  /\ hRst => /\ ~hRdy /\ Empty /\ asm = NoAsm
             /\ pc \in {"idle", "control", "reset", "retry", "sCheck", "rCheck", "sInit", "rInit"}

Base == Contents /\ Packed(h2m) /\ Place /\ Tried /\ InReset

\* A packet is marked complete if and only if it is the last.
Cut ==
  Where \in SendAt \ {"sCheck"} =>
    /\ \E i \in Nat : cur = Room * i
    /\ complete <=> pc = "pCheck" /\ SendLength(op.len - cur) = op.len - cur
\* Requests, as the ME gets them: every packet continues what the ME has, or what the
\* packet before holds of its message.
Fits(h, a)      == h.off = a.bytes /\ (h.off > 0 => h.id = a.id)
Continues(h, g) == IF h.last THEN g.off = 0 ELSE g.off = h.off + h.len /\ g.id = h.id
Joined(s, a) ==
  /\ s # <<>> => Fits(s[1], a)
  /\ \A k \in 1..Len(s) : s[k].head =>
       /\ s[k].last => s[k].off + s[k].len = s[k].want
       /\ Next1(s, k) <= Len(s) => Continues(s[k], s[Next1(s, k)])
\* Once the ME has taken all that is written, it has o bytes of the message i.
Leaves(h, o, i) == IF h.last THEN o = 0 ELSE o > 0 /\ h.off + h.len = o /\ h.id = i
AtEnd(s, a, o, i) ==
  IF s = <<>> THEN a.bytes = o /\ (o > 0 => a.id = i)
  ELSE \A k \in 1..Len(s) : s[k].head /\ Next1(s, k) > Len(s) => Leaves(s[k], o, i)
Sent ==
  CASE Where \in {"sInit", "sReady", "pReady", "pRoom"} -> cur
    [] pc = "pCheck" -> IF complete THEN 0 ELSE cur + SendLength(op.len - cur)
    [] OTHER -> 0
Unspoilt ==
  /\ \A k \in DOMAIN owed : owed[k].whole
  /\ Joined(h2m, asm)
  /\ pc # "retry" => AtEnd(h2m, asm, Sent, id)
Whole == meResets = 0 => ~meRst /\ (~dirty => Unspoilt)

\* Nothing has failed since the last reset.
Clean == ~dirty /\ pc # "retry" /\ ~(op.kind = "ack" /\ tries < MaxTry /\ pc # "idle")

\* What is on its way: packets of this request, the request owed, or its answer.
Stream == m2h \o out
Begun  == pc \in {"rBody", "rDone"} \/ (pc = "rHead" /\ got > 0)
Skip   == IF pc = "rBody" THEN hdr.len ELSE 0
Read   == IF pc = "rHead" THEN got ELSE IF pc \in {"rBody", "rDone"} THEN got + hdr.len ELSE 0
Unfinished ==
  Quiet /\ \A k \in 1..Len(h2m) : h2m[k].id = id /\ (h2m[k].head => ~h2m[k].last)
Requested ==
  /\ Quiet /\ ~Begun
  /\ \A k \in 1..Len(h2m) : h2m[k].id = id /\ (h2m[k].head /\ h2m[k].last => Next1(h2m, k) > Len(h2m))
Owed ==
  h2m = <<>> /\ m2h = <<>> /\ out = <<>> /\ ~Begun /\ Len(owed) = 1 /\ owed[1].id = id
AnswerTo(i, s, skip, off) ==
  /\ \A k \in 1..Len(s) : s[k].id = i
  /\ skip <= Len(s) /\ \A k \in 1..skip : ~s[k].head
  /\ Packets(s, skip + 1, off)
Answering ==
  /\ h2m = <<>> /\ owed = <<>> /\ AnswerTo(id, Stream, Skip, Read)
  /\ pc \in {"rBody", "rDone"} /\ hdr.last => Len(Stream) = Skip
OnItsWay == Empty \/ Requested \/ Owed \/ Answering

\* What is on its way where.
Fresh == Where \in {"rInit", "rReady"} => answer = {} /\ got = 0
NothingSent == pc \in {"sCheck", "sInit", "reset"} \/ (pc \in {"idle", "control"} /\ ~waiting)
HalfSent    == pc \in {"sReady", "pReady", "pRoom"} \/ (pc = "pCheck" /\ ~complete)
AllSent     == \/ (pc = "pCheck" /\ complete) \/ pc \in RecvAt
               \/ (pc \in {"idle", "control"} /\ waiting)
Own ==
  /\ Fresh
  /\ Clean => /\ NothingSent => Empty
              /\ HalfSent => Unfinished
              /\ AllSent => OnItsWay
              /\ pc = "rHead" => answer \subseteq {id}
              /\ pc \in {"rBody", "rDone"} => answer = {id}
-------------------------------------------------------------------------------
(***************************************************************************)
(* Facts about sizes and sequences.                                        *)
(***************************************************************************)
LEMMA Constants ==
  CBD \in Nat /\ CBD > 1 /\ MaxTry \in Nat \ {0} /\ RecLength \in Nat \ {0} /\ MaxCalls \in Nat
  /\ MaxResets \in Nat /\ ReqLens \subseteq Nat \ {0}
BY HeciAssumption

\* Length in words of a number of bytes.
LEMMA WordsOf ==
  ASSUME NEW n \in Nat
  PROVE  Words(n) \in Nat /\ n <= 4 * Words(n) /\ 4 * Words(n) <= n + 3
BY DEF Words

\* A packet takes all that is left, or as much as an empty buffer holds.
LEMMA SendSize ==
  ASSUME NEW left \in Nat \ {0}
  PROVE  /\ SendLength(left) \in 1..left /\ Words(SendLength(left)) \in 1..CBD - 1
         /\ SendLength(left) = left \/ (SendLength(left) = Room /\ Words(left) >= CBD)
<1>0. CBD \in Nat /\ CBD > 1
  BY Constants
<1>1. Words(left) \in Nat /\ left <= 4 * Words(left) /\ 4 * Words(left) <= left + 3
  BY WordsOf
<1>2. CASE CBD <= Words(left)
  <2>1. SendLength(left) = (CBD - 1) * 4 /\ (CBD - 1) * 4 \in Nat
    BY <1>0, <1>2 DEF SendLength
  <2>2. Words((CBD - 1) * 4) = CBD - 1
    BY <1>0 DEF Words
  <2> QED
    BY <1>0, <1>1, <1>2, <2>1, <2>2 DEF Room
<1>3. CASE ~(CBD <= Words(left))
  <2>1. SendLength(left) = left
    BY <1>3 DEF SendLength
  <2> QED
    BY <1>0, <1>1, <1>3, <2>1
<1> QED
  BY <1>2, <1>3

\* A sequence without its first n elements.
LEMMA Dropped ==
  ASSUME NEW S, NEW s \in Seq(S), NEW n \in Nat, n <= Len(s)
  PROVE  LET t == SubSeq(s, n + 1, Len(s))
         IN  /\ t \in Seq(S) /\ Len(t) = Len(s) - n
             /\ \A k \in 1..Len(s) - n : t[k] = s[k + n]
<1>1. /\ Len(s) \in Nat /\ n + 1 \in Int
      /\ \A i \in n + 1..Len(s) : s[i] \in S
  <2>1. \A i \in n + 1..Len(s) : i \in 1..Len(s)
    OBVIOUS
  <2> QED
    BY <2>1, ElementOfSeq
<1>2. /\ SubSeq(s, n + 1, Len(s)) \in Seq(S)
      /\ Len(SubSeq(s, n + 1, Len(s))) = IF n + 1 <= Len(s) THEN Len(s) - (n + 1) + 1 ELSE 0
      /\ \A i \in 1..Len(s) - (n + 1) + 1 : SubSeq(s, n + 1, Len(s))[i] = s[n + 1 + i - 1]
  BY <1>1, SubSeqProperties
<1>3. Len(s) - (n + 1) + 1 = Len(s) - n /\ \A i \in 1..Len(s) - n : n + 1 + i - 1 = i + n
  BY <1>1
<1>4. Len(SubSeq(s, n + 1, Len(s))) = Len(s) - n
  BY <1>1, <1>2
<1>5. \A k \in 1..Len(s) - n : SubSeq(s, n + 1, Len(s))[k] = s[k + n]
  BY <1>2, <1>3
<1> QED
  BY <1>2, <1>4, <1>5

\* A sequence without its head.
LEMMA TailIs ==
  ASSUME NEW S, NEW s \in Seq(S), s # <<>>
  PROVE  /\ Tail(s) \in Seq(S) /\ Len(Tail(s)) = Len(s) - 1 /\ Len(s) \in Nat \ {0}
         /\ \A k \in 1..Len(s) - 1 : Tail(s)[k] = s[k + 1]
         /\ Head(s) = s[1] /\ s[1] \in S
BY HeadTailProperties, EmptySeq, ElementOfSeq

\* Lengths and elements.
LEMMA NoneLeft ==
  ASSUME NEW S, NEW s \in Seq(S)
  PROVE  Len(s) \in Nat /\ (Len(s) = 0 <=> s = <<>>) /\ \A k \in 1..Len(s) : s[k] \in S
BY EmptySeq, ElementOfSeq

\* The words of a packet are words.
LEMMA WordTypes ==
  ASSUME NEW i \in Ids, NEW len \in Nat, NEW last \in BOOLEAN, NEW off \in Nat, NEW want \in Nat
  PROVE  Header(i, len, last, off, want) \in MsgWord /\ Body(i) \in MsgWord
BY DEF Header, Body, MsgWord

\* The words of a packet.
LEMMA PacketIs ==
  ASSUME NEW left \in Nat \ {0}, left <= op.len, op.len \in Nat, id \in Ids,
         complete \in BOOLEAN
  PROVE  LET n == Words(SendLength(left)) IN
         /\ Packet(left) \in Seq(MsgWord) /\ Len(Packet(left)) = n + 1 /\ n \in Nat
         /\ Packet(left)[1] = Header(id, SendLength(left), MessageComplete(left), op.len - left, op.len)
         /\ \A k \in 2..n + 1 : Packet(left)[k] = Body(id)
<1> DEFINE n == Words(SendLength(left))
           h == Header(id, SendLength(left), MessageComplete(left), op.len - left, op.len)
<1>1. SendLength(left) \in Nat /\ n \in Nat
  <2>1. SendLength(left) \in 1..left /\ n \in 1..CBD - 1
    BY SendSize
  <2> HIDE DEF n
  <2> QED
    BY <2>1, Constants
<1>2. MessageComplete(left) \in BOOLEAN
  BY DEF MessageComplete
<1>3. h \in MsgWord /\ Body(id) \in MsgWord
  <2>1. op.len - left \in Nat
    OBVIOUS
  <2> QED
    BY <1>1, <1>2, <2>1, WordTypes
<1>4. /\ Bodies(id, n) \in Seq(MsgWord) /\ Len(Bodies(id, n)) = n
      /\ \A k \in 1..n : Bodies(id, n)[k] = Body(id)
  BY <1>1, <1>3, IsASeq DEF Bodies
<1>5. <<h>> \in Seq(MsgWord) /\ Len(<<h>>) = 1 /\ <<h>>[1] = h
  BY <1>3
<1>6. Packet(left) = <<h>> \o Bodies(id, n)
  BY DEF Packet
<1> HIDE DEF h, n
<1>7. /\ Packet(left) \in Seq(MsgWord) /\ Len(Packet(left)) = 1 + n
      /\ \A k \in 1..1 + n : Packet(left)[k] = IF k <= 1 THEN <<h>>[k] ELSE Bodies(id, n)[k - 1]
  BY <1>4, <1>5, <1>6, ConcatProperties
<1>8. 1 + n = n + 1 /\ 1 \in 1..1 + n /\ \A k \in 2..n + 1 : k \in 1..1 + n /\ ~(k <= 1) /\ k - 1 \in 1..n
  BY <1>1
<1>9. Packet(left)[1] = h /\ \A k \in 2..n + 1 : Packet(left)[k] = Body(id)
  BY <1>4, <1>5, <1>7, <1>8
<1> QED
  BY <1>1, <1>7, <1>8, <1>9 DEF h, n

\* What a word of a buffer is.
LEMMA WordIs ==
  ASSUME NEW w \in MsgWord
  PROVE  /\ w.head \in BOOLEAN /\ w.id \in Ids
         /\ w.head => w.len \in Nat /\ w.last \in BOOLEAN /\ w.off \in Nat /\ w.want \in Nat
                      /\ Words(w.len) \in Nat
<1>1. CASE w \in [head : {TRUE}, id : Ids, len : Nat, last : BOOLEAN, off : Nat, want : Nat]
  <2>1. w.len \in Nat
    BY <1>1
  <2> QED
    BY <1>1, <2>1, WordsOf
<1>2. CASE w \in [head : {FALSE}, id : Ids]
  BY <1>2
<1> QED
  BY <1>1, <1>2 DEF MsgWord

\* Two sequences, one after the other.
LEMMA Joint ==
  ASSUME NEW S, NEW s \in Seq(S), NEW p \in Seq(S)
  PROVE  /\ s \o p \in Seq(S) /\ Len(s \o p) = Len(s) + Len(p) /\ Len(s) \in Nat /\ Len(p) \in Nat
         /\ \A k \in 1..Len(s) : (s \o p)[k] = s[k]
         /\ \A k \in 1..Len(p) : (s \o p)[Len(s) + k] = p[k]
<1>1. /\ s \o p \in Seq(S) /\ Len(s \o p) = Len(s) + Len(p)
      /\ \A i \in 1..Len(s) + Len(p) : (s \o p)[i] = IF i <= Len(s) THEN s[i] ELSE p[i - Len(s)]
  BY ConcatProperties
<1>2. Len(s) \in Nat /\ Len(p) \in Nat
  BY NoneLeft
<1>3. /\ \A k \in 1..Len(s) : k \in 1..Len(s) + Len(p) /\ k <= Len(s)
      /\ \A k \in 1..Len(p) : Len(s) + k \in 1..Len(s) + Len(p) /\ ~(Len(s) + k <= Len(s))
                              /\ Len(s) + k - Len(s) = k
  BY <1>2
<1> QED
  BY <1>1, <1>2, <1>3

\* The buffer after a packet was written.
LEMMA Written ==
  ASSUME h2m \in Seq(MsgWord), NEW left \in Nat \ {0}, left <= op.len, op.len \in Nat,
         id \in Ids, complete \in BOOLEAN, NEW t, t = h2m \o Packet(left)
  PROVE  LET l == Len(h2m)
             n == Words(SendLength(left))
         IN  /\ t \in Seq(MsgWord) /\ Len(t) = l + n + 1 /\ l \in Nat /\ n \in Nat
             /\ \A k \in 1..l : t[k] = h2m[k]
             /\ t[l + 1] = Header(id, SendLength(left), MessageComplete(left), op.len - left, op.len)
             /\ \A k \in l + 2..l + n + 1 : t[k] = Body(id)
<1> DEFINE n == Words(SendLength(left))
           p == Packet(left)
           h == Header(id, SendLength(left), MessageComplete(left), op.len - left, op.len)
<1>1. /\ p \in Seq(MsgWord) /\ Len(p) = n + 1 /\ n \in Nat /\ p[1] = h
      /\ \A k \in 2..n + 1 : p[k] = Body(id)
  BY PacketIs
<1>2. t = h2m \o p
  OBVIOUS
<1> HIDE DEF n, p, h
<1> QED
  <2>1. /\ t \in Seq(MsgWord) /\ Len(t) = Len(h2m) + n + 1 /\ Len(h2m) \in Nat
        /\ \A k \in 1..Len(h2m) : t[k] = h2m[k]
        /\ \A k \in 1..n + 1 : t[Len(h2m) + k] = p[k]
    <3>1. /\ h2m \o p \in Seq(MsgWord) /\ Len(h2m \o p) = Len(h2m) + Len(p) /\ Len(h2m) \in Nat
          /\ \A k \in 1..Len(h2m) : (h2m \o p)[k] = h2m[k]
          /\ \A k \in 1..Len(p) : (h2m \o p)[Len(h2m) + k] = p[k]
      <4>1. h2m \in Seq(MsgWord) /\ p \in Seq(MsgWord)
        BY <1>1
      <4> QED
        BY <4>1, Joint
    <3> QED
      BY <1>1, <1>2, <3>1
  <2>2. /\ 1 \in 1..n + 1
        /\ \A k \in Len(h2m) + 2..Len(h2m) + n + 1 :
             k - Len(h2m) \in 2..n + 1 /\ k - Len(h2m) \in 1..n + 1 /\ Len(h2m) + (k - Len(h2m)) = k
    BY <1>1, <2>1
  <2> QED
    BY <1>1, <2>1, <2>2 DEF n, h

\* A buffer of packets, and one more.
LEMMA PackedPut ==
  ASSUME NEW s \in Seq(MsgWord), Packed(s), NEW t \in Seq(MsgWord), NEW n \in Nat,
         Len(t) = Len(s) + n + 1, \A k \in 1..Len(s) : t[k] = s[k],
         t[Len(s) + 1].head, Words(t[Len(s) + 1].len) = n,
         \A k \in Len(s) + 2..Len(s) + n + 1 : ~t[k].head
  PROVE  Packed(t)
<1>0. Len(s) \in Nat /\ (Len(s) = 0 <=> s = <<>>)
  BY NoneLeft
<1>1. t[1].head
  <2>1. CASE s = <<>>
    BY <1>0, <2>1
  <2>2. CASE s # <<>>
    <3>1. 1 \in 1..Len(s)
      BY <1>0, <2>2
    <3> QED
      BY <2>2, <3>1 DEF Packed
  <2> QED
    BY <2>1, <2>2
<1>2. ASSUME NEW k \in 1..Len(t), t[k].head
      PROVE  /\ Next1(t, k) - 1 <= Len(t)
             /\ Next1(t, k) <= Len(t) => t[Next1(t, k)].head
  <2>1. k \in 1..Len(s) + 1
    BY <1>0, <1>2
  <2>2. CASE k = Len(s) + 1
    BY <1>0, <2>2 DEF Next1
  <2>3. CASE k \in 1..Len(s)
    <3>1. s[k] \in MsgWord /\ s[k].head /\ t[k] = s[k]
      BY <1>2, <2>3, NoneLeft
    <3>2. Words(s[k].len) \in Nat
      BY <3>1, WordIs
    <3>3. /\ Next1(t, k) = Next1(s, k) /\ Next1(s, k) \in Nat \ {0}
      BY <2>3, <3>1, <3>2 DEF Next1
    <3>4. Next1(s, k) - 1 <= Len(s) /\ (Next1(s, k) <= Len(s) => s[Next1(s, k)].head)
      BY <2>3, <3>1 DEF Packed
    <3>5. CASE Next1(s, k) <= Len(s)
      <4>1. Next1(s, k) \in 1..Len(s)
        BY <1>0, <3>3, <3>5
      <4> QED
        BY <1>0, <3>3, <3>4, <4>1
    <3>6. CASE ~(Next1(s, k) <= Len(s))
      <4>1. Next1(s, k) = Len(s) + 1
        BY <1>0, <3>3, <3>4, <3>6
      <4> QED
        BY <1>0, <3>3, <4>1
    <3> QED
      BY <3>5, <3>6
  <2> QED
    BY <1>0, <2>1, <2>2, <2>3
<1> QED
  BY <1>1, <1>2 DEF Packed

Shifted(s, t, n) ==
  /\ t \in Seq(MsgWord) /\ n \in Nat /\ n <= Len(s) /\ Len(t) = Len(s) - n
  /\ \A k \in 1..Len(s) - n : t[k] = s[k + n]

PacketSize(h) == Words(h.len) + 1

\* Without its first packet a buffer still holds whole packets, each where it was but for
\* the shift.
LEMMA PackedTake ==
  ASSUME NEW s \in Seq(MsgWord), Packed(s), NEW t, NEW n, n = PacketSize(s[1]), n # 0,
         Shifted(s, t, n)
  PROVE  /\ \A k \in 1..Len(t) : k + n \in 1..Len(s) /\ t[k] = s[k + n]
         /\ \A k \in 1..Len(t) : t[k].head =>
              Next1(t, k) = Next1(s, k + n) - n /\ Next1(t, k) \in Nat \ {0}
         /\ Packed(t)
<1> DEFINE l == Len(s)
<1>0. /\ l \in Nat /\ n \in Nat \ {0} /\ n <= l /\ Len(t) = l - n
      /\ \A k \in 1..l - n : t[k] = s[k + n]
  BY NoneLeft DEF Shifted
<1>1. \A k \in 1..l : s[k].head =>
        /\ Words(s[k].len) \in Nat /\ Next1(s, k) - 1 <= l
        /\ Next1(s, k) <= l => s[Next1(s, k)].head
  BY NoneLeft, WordIs DEF Packed
<1>2. n + 1 <= l => s[n + 1].head
  <2>1. 1 \in 1..l /\ s # <<>>
    BY <1>0, NoneLeft
  <2>2. s[1].head /\ Next1(s, 1) = n + 1
    BY <1>0, <1>1, <2>1 DEF Packed, Next1, PacketSize
  <2> QED
    BY <1>1, <2>1, <2>2
<1>3. t = <<>> <=> l - n = 0
  BY <1>0, NoneLeft DEF Shifted
<1> HIDE DEF l
<1>4. \A k \in 1..l - n : k + n \in 1..l
  BY <1>0
<1>5. ASSUME NEW k \in 1..l - n, t[k].head
      PROVE  /\ Next1(t, k) = Next1(s, k + n) - n /\ Next1(t, k) \in Nat \ {0}
             /\ Next1(t, k) - 1 <= l - n
             /\ Next1(t, k) <= l - n => t[Next1(t, k)].head
  <2>1. t[k] = s[k + n] /\ k + n \in 1..l /\ s[k + n].head
    BY <1>0, <1>4, <1>5
  <2>2. Next1(t, k) = k + Words(s[k + n].len) + 1 /\ Next1(s, k + n) = k + n + Words(s[k + n].len) + 1
    BY <2>1 DEF Next1
  <2>3. Words(s[k + n].len) \in Nat /\ Next1(s, k + n) - 1 <= l
        /\ (Next1(s, k + n) <= l => s[Next1(s, k + n)].head)
    BY <1>1, <2>1
  <2>4. /\ Next1(t, k) = Next1(s, k + n) - n /\ Next1(t, k) \in Nat \ {0}
        /\ Next1(t, k) - 1 <= l - n /\ Next1(t, k) + n = Next1(s, k + n)
        /\ Next1(t, k) <= l - n => Next1(s, k + n) <= l /\ Next1(t, k) \in 1..l - n
    <3> DEFINE w == Words(s[k + n].len)
    <3>1. l \in Nat /\ n \in Nat /\ k \in 1..l - n /\ w \in Nat /\ k + n + w + 1 - 1 <= l
      BY <1>0, <2>2, <2>3
    <3> HIDE DEF w
    <3>2. /\ k + w + 1 \in Nat \ {0} /\ k + w + 1 + n = k + n + w + 1 /\ k + w + 1 = k + n + w + 1 - n
          /\ k + w + 1 - 1 <= l - n
          /\ k + w + 1 <= l - n => k + n + w + 1 <= l /\ k + w + 1 \in 1..l - n
      BY <3>1
    <3> QED
      <4>1. Next1(t, k) = k + w + 1
        BY <2>2 DEF w
      <4>2. Next1(s, k + n) = k + n + w + 1
        BY <2>2 DEF w
      <4>3. Next1(t, k) = Next1(s, k + n) - n /\ Next1(t, k) \in Nat \ {0}
        BY <3>1, <3>2, <4>1, <4>2
      <4>4. Next1(t, k) - 1 <= l - n /\ Next1(t, k) + n = Next1(s, k + n)
        BY <3>1, <3>2, <4>1, <4>2
      <4>5. Next1(t, k) <= l - n => Next1(s, k + n) <= l /\ Next1(t, k) \in 1..l - n
        BY <3>1, <3>2, <4>1, <4>2
      <4> QED
        BY <4>3, <4>4, <4>5
  <2> QED
    BY <1>0, <2>3, <2>4
<1>6. l - n # 0 => t[1].head
  <2>1. l - n # 0 => 1 \in 1..l - n /\ n + 1 <= l /\ 1 + n = n + 1
    BY <1>0
  <2> QED
    BY <1>0, <1>2, <2>1
<1>7. Packed(t)
  BY <1>0, <1>3, <1>5, <1>6 DEF Packed
<1> QED
  BY <1>0, <1>4, <1>5, <1>7 DEF l

\* What MeTake leaves.
LEMMA TakenIs ==
  ASSUME NEW s \in Seq(MsgWord), Packed(s), s # <<>>
  PROVE  /\ s[1] = Head(s) /\ s[1] \in MsgWord /\ s[1].head /\ 1 \in 1..Len(s)
         /\ PacketSize(s[1]) \in Nat \ {0}
         /\ Shifted(s, SubSeq(s, Words(Head(s).len) + 2, Len(s)), PacketSize(s[1]))
<1> DEFINE n == Words(s[1].len) + 1
<1>0. /\ s[1] = Head(s) /\ s[1] \in MsgWord /\ s[1].head /\ 1 \in 1..Len(s) /\ Len(s) \in Nat
  BY TailIs, NoneLeft DEF Packed
<1>1. n \in Nat \ {0} /\ n <= Len(s) /\ n + 1 = Words(Head(s).len) + 2
  <2>1. Words(s[1].len) \in Nat
    BY <1>0, WordIs
  <2>2. Next1(s, 1) - 1 <= Len(s) /\ Next1(s, 1) = n + 1
    BY <1>0, <2>1 DEF Packed, Next1
  <2> QED
    BY <1>0, <2>1, <2>2
<1> HIDE DEF n
<1>2. Shifted(s, SubSeq(s, n + 1, Len(s)), n)
  BY <1>1, Dropped DEF Shifted
<1> QED
  BY <1>0, <1>1, <1>2 DEF n, PacketSize

\* What the ME answers.
LEMMA AnswerIs ==
  ASSUME NEW i \in Ids, NEW shape \in Shapes
  PROVE  LET a == AnswerWords(i, shape) IN
         /\ a \in Seq(MsgWord) /\ Len(a) = Len(shape) /\ Len(shape) \in Nat
         /\ \A k \in 1..Len(shape) : /\ a[k].head = shape[k].head /\ a[k].id = i
                                     /\ shape[k].head => /\ a[k].len = shape[k].len
                                                         /\ a[k].last = shape[k].last
                                                         /\ a[k].off = shape[k].off
<1> DEFINE w(k) == IF shape[k].head THEN Header(i, shape[k].len, shape[k].last, shape[k].off, 0)
                   ELSE Body(i)
<1>1. shape \in Seq(Word)
  BY HeciAssumption
<1>2. Len(shape) \in Nat /\ DOMAIN shape = 1..Len(shape) /\ \A k \in 1..Len(shape) : shape[k] \in Word
  BY <1>1, LenProperties, ElementOfSeq
<1>3. ASSUME NEW k \in 1..Len(shape)
      PROVE  /\ w(k) \in MsgWord /\ w(k).head = shape[k].head /\ w(k).id = i
             /\ shape[k].head => /\ w(k).len = shape[k].len /\ w(k).last = shape[k].last
                                 /\ w(k).off = shape[k].off
  <2>1. CASE shape[k] \in [head : {TRUE}, len : Nat, last : BOOLEAN, off : Nat]
    <3>1. shape[k].head = TRUE /\ shape[k].len \in Nat /\ shape[k].last \in BOOLEAN /\ shape[k].off \in Nat
      BY <2>1
    <3>2. w(k) = Header(i, shape[k].len, shape[k].last, shape[k].off, 0) /\ w(k) \in MsgWord
      BY <3>1, WordTypes
    <3> QED
      BY <3>1, <3>2 DEF Header
  <2>2. CASE shape[k] \in [head : {FALSE}]
    <3>1. shape[k].head = FALSE
      BY <2>2
    <3>2. w(k) = Body(i) /\ w(k) \in MsgWord
      BY <3>1, WordTypes
    <3> QED
      BY <3>1, <3>2 DEF Body
  <2> QED
    BY <1>2, <2>1, <2>2 DEF Word
<1>4. AnswerWords(i, shape) = [k \in 1..Len(shape) |-> w(k)]
  BY <1>2 DEF AnswerWords
<1> HIDE DEF w
<1>5. /\ [k \in 1..Len(shape) |-> w(k)] \in Seq(MsgWord) /\ Len([k \in 1..Len(shape) |-> w(k)]) = Len(shape)
      /\ \A k \in 1..Len(shape) : [j \in 1..Len(shape) |-> w(j)][k] = w(k)
  BY <1>2, <1>3, IsASeq
<1> QED
  BY <1>2, <1>3, <1>4, <1>5
-------------------------------------------------------------------------------
(***************************************************************************)
(* The first invariant, in two halves: the registers and buffers, and the  *)
(* host.                                                                   *)
(***************************************************************************)
World ==
  /\ hRdy \in BOOLEAN /\ hRst \in BOOLEAN /\ meRdy \in BOOLEAN /\ meRst \in BOOLEAN
  /\ Len(h2m) <= CBD /\ Len(m2h) <= CBD /\ meResets \in 0..MaxResets
  /\ Contents /\ Packed(h2m)

HostTypes ==
  /\ complete \in BOOLEAN /\ dirty \in BOOLEAN /\ waiting \in BOOLEAN
  /\ pc \in {"idle", "control", "reset", "retry"} \union SendAt \union RecvAt
  /\ after \in {"user", "retry"} \union Waits
  /\ op \in [kind : AllKinds, len : ReqLens \union {0}]
  /\ tries \in 1..MaxTry /\ id \in Ids
  /\ cur \in Nat /\ got \in Nat /\ hdr \in [len : Nat, last : BOOLEAN] /\ answer \subseteq Ids
  /\ result \in [status : Statuses, kind : AllKinds, id : Ids,
                 answer : SUBSET Ids, dirty : BOOLEAN]

HostInv == HostTypes /\ Place /\ Tried

Inv == World /\ HostInv /\ InReset

\* The waits, and what follows each.
LEMMA WaitsIs ==
  /\ Waits = {"sInit", "sReady", "pReady", "rInit", "rReady"}
  /\ AfterWait["sInit"] = "sReady" /\ AfterWait["sReady"] = "pReady" /\ AfterWait["pReady"] = "pRoom"
  /\ AfterWait["rInit"] = "rReady" /\ AfterWait["rReady"] = "rHead"
BY DEF Waits, AfterWait

\* Inv is the type invariant with its strengthening.
LEMMA InvIs == Inv <=> TypeOK /\ Base
<1>1. HostTypes /\ World <=> TypeOK /\ Contents /\ Packed(h2m)
  BY WaitsIs DEF HostTypes, World, TypeOK, Waits, SendAt, RecvAt
<1> QED
  BY <1>1 DEF Inv, HostInv, Base

\* The types of the fields.
LEMMA OpIs ==
  ASSUME HostTypes
  PROVE  /\ op.kind \in AllKinds /\ op.len \in Nat
         /\ id.call \in 0..MaxCalls /\ id.try \in 0..MaxTry
         /\ hdr.len \in Nat /\ hdr.last \in BOOLEAN
<1>1. op.kind \in AllKinds /\ op.len \in ReqLens \union {0} /\ hdr.len \in Nat /\ hdr.last \in BOOLEAN
  BY DEF HostTypes
<1>2. id.call \in 0..MaxCalls /\ id.try \in 0..MaxTry
  BY DEF HostTypes, Ids
<1>3. ReqLens \subseteq Nat /\ MaxCalls \in Nat /\ MaxTry \in Nat
  BY Constants
<1>4. op.len \in Nat
  <2>1. op.len \in ReqLens => op.len \in Nat
    BY <1>3
  <2>2. op.len \in {0} => op.len \in Nat
    OBVIOUS
  <2> QED
    BY <1>1, <2>1, <2>2
<1> QED
  BY <1>1, <1>2, <1>4

\* What ends an attempt.
LEMMA EndedHost ==
  ASSUME HostInv, NEW s \in Statuses, EndAttempt(s), op.kind \notin Resets, UNCHANGED <<op, id>>,
         cur' \in Nat, got' \in Nat, complete' \in BOOLEAN, answer' \subseteq Ids,
         hdr' \in [len : Nat, last : BOOLEAN],
         pc = "sCheck" => s = "UNSUPPORTED",
         pc \notin {"idle", "control", "retry"}, ~(pc = "reset" /\ after = "retry")
  PROVE  HostInv' /\ pc' \in {"idle", "sCheck", "retry"}
<1>0. HostTypes /\ Place /\ Tried
  BY DEF HostInv
<1>t. op.kind \in AllKinds /\ id.try \in Nat /\ tries \in Nat /\ MaxTry \in Nat /\ tries <= MaxTry
  BY <1>0, OpIs, Constants DEF HostTypes
<1>1. CASE Final(s)
  <2>1. Return(s)
    BY <1>1 DEF EndAttempt
  <2>2. pc' = "idle" /\ UNCHANGED <<after, tries>>
    BY <2>1 DEF Return
  <2>3. /\ result' \in [status : Statuses, kind : AllKinds, id : Ids, answer : SUBSET Ids, dirty : BOOLEAN]
        /\ dirty' \in BOOLEAN
    BY <1>0, <1>t, <2>1 DEF Return, HostTypes
  <2>4. waiting' \in BOOLEAN
    <3>1. waiting' = IF op.kind = "send" THEN s = "SUCCESS" ELSE NothingYet(s)
      BY <2>1 DEF Return, Resets
    <3>2. (s = "SUCCESS") \in BOOLEAN /\ NothingYet(s) \in BOOLEAN
      BY DEF NothingYet
    <3> QED
      BY <3>1, <3>2
  <2>5. HostTypes'
    BY <1>0, <2>2, <2>3, <2>4 DEF HostTypes
  <2>6. Place' /\ Tried'
    BY <1>0, <2>2, WaitsIs DEF Place, Tried, Where, SendAt, RecvAt
  <2> QED
    BY <2>2, <2>5, <2>6 DEF HostInv
<1>2. CASE ~Final(s)
  <2>1. /\ tries' = tries - 1 /\ UNCHANGED <<after, result, dirty, waiting>>
        /\ pc' = IF op.kind = "ack" THEN "sCheck" ELSE "retry"
    BY <1>2 DEF EndAttempt
  <2>2. tries # 1 /\ op.kind # "poll" /\ (op.kind = "ack" => ~Sending)
        /\ ~(op.kind # "ack" /\ s = "UNSUPPORTED")
    BY <1>2 DEF Final
  <2>3. tries' \in 1..MaxTry /\ tries' = tries - 1
    BY <1>0, <1>t, <2>1, <2>2 DEF HostTypes
  <2>4. op.kind \in Retried \union {"ack"}
    BY <1>t, <2>2 DEF AllKinds, Resets, Retried
  <2>5. HostTypes'
    BY <1>0, <2>1, <2>3 DEF HostTypes, SendAt
  <2>6. Place'
    <3>1. CASE op.kind = "ack"
      BY <1>0, <2>1, <3>1, WaitsIs DEF Place, Where, SendAt, RecvAt, Senders
    <3>2. CASE op.kind # "ack"
      BY <1>0, <2>1, <2>4, <3>2, WaitsIs DEF Place, Where, SendAt, RecvAt, Senders
    <3> QED
      BY <3>1, <3>2
  <2>7. pc # "sCheck"
    BY <2>2 DEF Sending
  <2>8. Attempts = MaxTry - tries + 1
    BY <2>7 DEF Attempts
  <2>9. Attempts' = MaxTry - tries'
    <3>1. Attempts' = MaxTry - tries' + 0
      BY <2>1 DEF Attempts
    <3> QED
      BY <1>t, <2>3, <3>1
  <2>10. Attempts' = Attempts
    BY <1>t, <2>3, <2>8, <2>9
  <2>11. Tried'
    BY <1>0, <2>10 DEF Tried
  <2> QED
    BY <2>1, <2>5, <2>6, <2>11 DEF HostInv
<1> QED
  BY <1>1, <1>2

\* The steps of the ME are none of the host's.
LEMMA HostKept == ASSUME HostInv, UNCHANGED host PROVE HostInv'
<1>1. UNCHANGED <<pc, after, op, tries, id, cur, complete, hdr, got, answer, result, dirty, waiting>>
  BY DEF host, xfer
<1> QED
  BY <1>1 DEF HostInv, HostTypes, Place, Tried, Where, Attempts

\* Steps that leave the registers and the buffers alone, and steps that empty them.
LEMMA WorldKept == ASSUME World, UNCHANGED <<regs, h2m, m2h, me, meResets>> PROVE World'
BY DEF World, Contents, regs, me, Packed, Next1

LEMMA EmptiedWorld ==
  ASSUME Emptied, hRdy' \in BOOLEAN, hRst' \in BOOLEAN, meRdy' \in BOOLEAN, meRst' \in BOOLEAN,
         meResets' \in 0..MaxResets
  PROVE  World'
<1>1. h2m' = <<>> /\ m2h' = <<>> /\ asm' = NoAsm /\ owed' = <<>> /\ out' = <<>>
  BY DEF Emptied
<1>2. Len(<<>>) = 0 /\ 0 <= CBD /\ 1..0 = {} /\ \A S : <<>> \in Seq(S)
  BY Constants, EmptySeq
<1>3. NoAsm \in [id : Ids, bytes : Nat]
  BY Constants DEF NoAsm, NoId, Ids
<1>4. Packed(<<>>)
  BY <1>2 DEF Packed
<1> QED
  BY <1>1, <1>2, <1>3, <1>4 DEF World, Contents

\* H_RST stays set where a reset failed, and the host goes nowhere that it could move words.
LEMMA InResetKept ==
  ASSUME InReset, UNCHANGED <<regs, h2m, m2h, me>>, pc' # "reset",
         pc' \in {"idle", "control", "retry", "sCheck", "rCheck", "sInit", "rInit"} \/ ~hRst
  PROVE  InReset'
BY DEF InReset, regs, me, Empty, Quiet
-------------------------------------------------------------------------------
(***************************************************************************)
(* One lemma for each action.                                              *)
(***************************************************************************)
\* A step to another place of the same attempt.
LEMMA GotoHost ==
  ASSUME HostInv, NEW p, Goto(p), UNCHANGED <<op, id>>,
         p \in {"rCheck", "sInit", "sReady", "pReady", "pRoom", "pCheck"} \union RecvAt,
         pc \notin {"sCheck", "retry", "idle", "control"}, ~(pc = "reset" /\ after = "retry"),
         cur' \in Nat, got' \in Nat, complete' \in BOOLEAN, answer' \subseteq Ids,
         hdr' \in [len : Nat, last : BOOLEAN],
         p \in SendAt => op.kind \in Senders /\ cur' < op.len,
         p \in RecvAt => op.kind \in Acks
  PROVE  HostInv'
<1>0. HostTypes /\ Place /\ Tried /\ pc' = p /\ UNCHANGED <<after, tries, result, dirty, waiting>>
  BY DEF HostInv, Goto
<1>1. HostTypes'
  BY <1>0 DEF HostTypes, SendAt, RecvAt
<1>2. Place'
  BY <1>0, WaitsIs DEF Place, Where, SendAt, RecvAt
<1>3. Attempts' = Attempts
  BY <1>0 DEF Attempts, RecvAt
<1>4. Tried'
  BY <1>0, <1>3 DEF Tried
<1> QED
  BY <1>1, <1>2, <1>4 DEF HostInv

LEMMA BeginResetInv ==
  ASSUME Inv, NEW from, BeginReset(from),
         \/ from = "user" /\ pc = "control"
         \/ from = "retry" /\ pc = "retry"
         \/ from \in Waits /\ from = pc /\ op.kind # "poll"
  PROVE  Inv'
<1>0. World /\ HostTypes /\ Place /\ Tried /\ InReset
  BY DEF Inv, HostInv
<1>1. /\ pc' = "reset" /\ after' = from /\ dirty' = FALSE /\ waiting' = FALSE
      /\ UNCHANGED <<meResets, op, tries, id, xfer, result>>
      /\ hRst => UNCHANGED <<regs, h2m, m2h, me>>
      /\ ~hRst => hRst' = TRUE /\ hRdy' = FALSE /\ meRdy' = FALSE /\ meRst' = meRst /\ Emptied
  BY DEF BeginReset
<1>2. World'
  <2>1. CASE hRst
    BY <1>0, <1>1, <2>1, WorldKept
  <2>2. CASE ~hRst
    BY <1>0, <1>1, <2>2, EmptiedWorld DEF World
  <2> QED
    BY <2>1, <2>2
<1>3. HostTypes'
  BY <1>0, <1>1, WaitsIs DEF HostTypes, xfer
<1>4. Place'
  <2>0. UNCHANGED <<op, cur>> /\ op.kind \in AllKinds
    BY <1>0, <1>1, OpIs DEF xfer
  <2>1. op.kind \in Senders => op.len \in ReqLens
    BY <1>0 DEF Place
  <2>2. CASE from \in Waits /\ from = pc /\ op.kind # "poll"
    <3>1. Where = from /\ Where' = from /\ pc # "reset" /\ from \notin {"user", "retry"}
      BY <1>1, <2>2, WaitsIs DEF Where
    <3>2. op.kind \in Senders \union Acks /\ op.kind \notin Resets
      BY <1>0, <2>2, <3>1, WaitsIs DEF Place, SendAt, RecvAt, Senders, Acks, Resets
    <3> QED
      BY <1>0, <1>1, <2>0, <2>1, <2>2, <3>1, <3>2 DEF Place
  <2>3. CASE from \in {"user", "retry"} /\ (from = "user" => pc = "control") /\ (from = "retry" => pc = "retry")
    <3>1. Where' = "reset"
      BY <1>1, <2>3, WaitsIs DEF Where
    <3>2. from = "user" => op.kind \in Resets
      BY <1>0, <2>3 DEF Place
    <3>3. from = "retry" => op.kind \in Retried /\ op.kind \notin Resets
      BY <1>0, <2>3 DEF Place, Retried, Resets
    <3> QED
      BY <1>0, <1>1, <2>0, <2>1, <2>3, <3>1, <3>2, <3>3, WaitsIs DEF Place, SendAt, RecvAt
  <2> QED
    BY <2>2, <2>3, WaitsIs
<1>5. Attempts' = Attempts
  BY <1>0, <1>1, WaitsIs DEF Attempts, Place, Where, SendAt, Senders, Resets
<1>6. Tried'
  <2>1. UNCHANGED <<op, id, Attempts>> /\ pc # "idle"
    BY <1>1, <1>5, WaitsIs
  <2> QED
    BY <1>0, <2>1 DEF Tried
<1>7. InReset'
  BY <1>0, <1>1 DEF InReset, Emptied, Empty, Quiet, regs, me
<1> QED
  BY <1>2, <1>3, <1>4, <1>6, <1>7 DEF Inv, HostInv

LEMMA FinishResetInv == ASSUME Inv, FinishReset PROVE Inv'
<1>0. World /\ HostInv /\ HostTypes /\ Place /\ Tried /\ InReset
  BY DEF Inv, HostInv
<1>1. /\ pc = "reset" /\ meRdy /\ hRst' = FALSE /\ hRdy' = TRUE /\ UNCHANGED <<meRdy, meRst>>
      /\ UNCHANGED <<h2m, m2h, me, meResets, op, id, xfer>>
      /\ IF after = "user" THEN Return("SUCCESS")
         ELSE Goto(IF after = "retry" THEN First(op.kind) ELSE AfterWait[after])
  BY DEF FinishReset
<1>2. World'
  BY <1>0, <1>1 DEF World, Contents, Packed, Next1, me
<1>3. HostInv' /\ pc' # "reset"
  <2>0. UNCHANGED <<cur, complete, hdr, got, answer>> /\ op.kind \in AllKinds
    BY <1>0, <1>1, OpIs DEF xfer
  <2>1. CASE after = "user"
    <3>1. Return("SUCCESS") /\ op.kind \in Resets
      BY <1>0, <1>1, <2>1 DEF Place
    <3>2. pc' = "idle" /\ UNCHANGED <<after, tries>>
      BY <3>1 DEF Return
    <3>3. HostTypes'
      <4>1. /\ result' \in [status : Statuses, kind : AllKinds, id : Ids, answer : SUBSET Ids, dirty : BOOLEAN]
            /\ dirty' \in BOOLEAN /\ waiting' = waiting
        BY <1>0, <2>0, <3>1 DEF Return, HostTypes, Statuses, Resets
      <4> QED
        BY <1>0, <1>1, <2>0, <3>2, <4>1 DEF HostTypes
    <3>4. Place' /\ Tried'
      BY <1>0, <1>1, <3>2, WaitsIs DEF Place, Tried, Where, SendAt, RecvAt
    <3> QED
      BY <3>2, <3>3, <3>4 DEF HostInv
  <2>2. CASE after = "retry"
    <3>1. pc' = First(op.kind) /\ UNCHANGED <<after, tries, result, dirty, waiting>> /\ op.kind \in Retried
      BY <1>0, <1>1, <2>2 DEF Goto, Place
    <3>2. pc' = IF op.kind = "receive" THEN "rCheck" ELSE "sCheck"
      BY <3>1 DEF First, Retried
    <3>3. HostTypes'
      BY <1>0, <1>1, <2>0, <3>1, <3>2 DEF HostTypes, SendAt, RecvAt
    <3>4. Place'
      BY <1>0, <1>1, <2>0, <3>1, <3>2, WaitsIs DEF Place, Where, SendAt, RecvAt, Senders, Acks, Retried
    <3>5. op.kind # "ack" /\ (op.kind \in Senders => Attempts' = Attempts)
      BY <1>1, <2>2, <3>1, <3>2 DEF Attempts, Senders, Retried
    <3>6. Tried'
      BY <1>0, <1>1, <3>5 DEF Tried
    <3> QED
      BY <3>2, <3>3, <3>4, <3>6 DEF HostInv
  <2>3. CASE after \notin {"user", "retry"}
    <3>1. Goto(AfterWait[after]) /\ after \in Waits /\ Where = after
      BY <1>0, <1>1, <2>3 DEF HostTypes, Where
    <3>2. /\ after \in SendAt => op.kind \in Senders /\ cur < op.len
          /\ after \in RecvAt => op.kind \in Acks
      BY <1>0, <3>1, WaitsIs DEF Place
    <3>3. /\ AfterWait[after] \in {"sReady", "pReady", "pRoom", "rReady", "rHead"}
          /\ AfterWait[after] \in SendAt => after \in SendAt
          /\ AfterWait[after] \in RecvAt => after \in RecvAt
      BY <3>1, WaitsIs DEF SendAt, RecvAt
    <3>4. HostInv'
      <4>1. /\ UNCHANGED <<op, id>> /\ cur' \in Nat /\ got' \in Nat /\ complete' \in BOOLEAN
            /\ answer' \subseteq Ids /\ hdr' \in [len : Nat, last : BOOLEAN]
        BY <1>0, <1>1, <2>0 DEF HostTypes
      <4>2. AfterWait[after] \in {"rCheck", "sInit", "sReady", "pReady", "pRoom", "pCheck"} \union RecvAt
        BY <3>3 DEF RecvAt
      <4> QED
        BY <1>0, <1>1, <2>0, <2>3, <3>1, <3>2, <3>3, <4>1, <4>2, GotoHost
    <3> QED
      BY <3>1, <3>3, <3>4 DEF Goto
  <2> QED
    BY <2>1, <2>2, <2>3
<1>4. InReset'
  BY <1>1, <1>3 DEF InReset
<1> QED
  BY <1>2, <1>3, <1>4 DEF Inv

\* An attempt that fails and changes nothing else.
LEMMA FailsAt ==
  ASSUME Inv, NEW s \in Statuses, EndAttempt(s), op.kind \notin Resets,
         UNCHANGED <<regs, h2m, m2h, me, meResets, op, id, xfer>>,
         pc = "sCheck" => s = "UNSUPPORTED",
         pc \notin {"idle", "control", "retry"}, ~(pc = "reset" /\ after = "retry")
  PROVE  Inv'
<1>0. World /\ HostInv /\ HostTypes /\ InReset
  BY DEF Inv, HostInv
<1>1. HostInv' /\ pc' \in {"idle", "sCheck", "retry"}
  BY <1>0, EndedHost DEF xfer, HostTypes
<1>2. World'
  BY <1>0, WorldKept
<1>3. InReset'
  BY <1>0, <1>1, InResetKept
<1> QED
  BY <1>1, <1>2, <1>3 DEF Inv

\* What a wait that is over makes of the attempt is an error.
LEMMA WaitFailsAt ==
  ASSUME NEW at, WaitFails(at)
  PROVE  \E s \in {"DEVICE_ERROR", "TIMEOUT"} : s \in Statuses /\ EndAttempt(s)
BY DEF WaitFails, Statuses

LEMMA ResetFailsInv == ASSUME Inv, ResetFails PROVE Inv'
<1>0. World /\ HostInv /\ HostTypes /\ Place /\ Tried /\ InReset
  BY DEF Inv, HostInv
<1>1. /\ pc = "reset" /\ UNCHANGED <<regs, h2m, m2h, me, meResets, op, id, xfer>>
      /\ IF after \in Waits THEN WaitFails(after)
         ELSE \E s \in {"TIMEOUT", "DEVICE_ERROR"} : Return(s)
  BY DEF ResetFails, Waits
<1>2. CASE after \in Waits
  <2>1. PICK s \in {"DEVICE_ERROR", "TIMEOUT"} : s \in Statuses /\ EndAttempt(s)
    BY <1>1, <1>2, WaitFailsAt
  <2>2. op.kind \notin Resets /\ after \notin {"user", "retry"}
    BY <1>0, <1>1, <1>2, WaitsIs DEF Place
  <2> QED
    BY <1>1, <2>1, <2>2, FailsAt
<1>3. CASE after \notin Waits
  <2>1. PICK s \in {"TIMEOUT", "DEVICE_ERROR"} : Return(s)
    BY <1>1, <1>3
  <2>2. pc' = "idle" /\ UNCHANGED <<after, tries>> /\ UNCHANGED <<op, id, cur, complete, hdr, got, answer>>
    BY <1>1, <2>1 DEF Return, xfer
  <2>3. op.kind \in AllKinds /\ s \in Statuses
    BY <1>0, OpIs DEF Statuses
  <2>4. /\ result' \in [status : Statuses, kind : AllKinds, id : Ids, answer : SUBSET Ids, dirty : BOOLEAN]
        /\ dirty' \in BOOLEAN
    BY <1>0, <2>1, <2>3 DEF Return, HostTypes
  <2>5. waiting' \in BOOLEAN
    BY <1>0, <2>1, <2>3, <1>1, <1>3 DEF Return, HostTypes, NothingYet
  <2>6. HostTypes'
    BY <1>0, <2>2, <2>4, <2>5 DEF HostTypes
  <2>7. Place' /\ Tried'
    BY <1>0, <2>2, WaitsIs DEF Place, Tried, Where, SendAt, RecvAt
  <2>8. World'
    BY <1>0, <1>1, WorldKept
  <2>9. InReset'
    BY <1>0, <1>1, <2>2, InResetKept
  <2> QED
    BY <2>6, <2>7, <2>8, <2>9 DEF Inv, HostInv
<1> QED
  BY <1>2, <1>3

LEMMA CheckForHeciResetInv == ASSUME Inv, CheckForHeciReset PROVE Inv'
<1>0. World /\ HostInv /\ HostTypes /\ Place /\ Tried /\ InReset
  BY DEF Inv, HostInv
<1>1. /\ pc \in {"sCheck", "rCheck"}
      /\ id' = IF pc = "sCheck" THEN [id EXCEPT !.try = @ + 1] ELSE id
      /\ cur' = 0 /\ complete' = FALSE /\ hdr' = NoHdr /\ got' = 0 /\ answer' = {}
      /\ UNCHANGED <<regs, h2m, m2h, me, meResets, op>>
      /\ IF op.kind = "poll" /\ ~(hRdy /\ meRdy) THEN EndAttempt("DEVICE_ERROR")
         ELSE IF pc = "sCheck" THEN Goto(IF hRdy THEN "sReady" ELSE "sInit")
         ELSE Goto(IF hRdy THEN "rReady" ELSE "rInit")
  BY DEF CheckForHeciReset
<1>2. World'
  BY <1>0, <1>1, WorldKept
<1>3. hdr' \in [len : Nat, last : BOOLEAN]
  BY <1>1 DEF NoHdr
<1>t. op.kind \in AllKinds /\ tries \in Nat /\ MaxTry \in Nat \ {0} /\ tries \in 1..MaxTry
  BY <1>0, OpIs, Constants DEF HostTypes
<1>4. CASE pc = "sCheck"
  <2>1. op.kind \in Senders /\ op.len \in ReqLens /\ op.kind # "poll"
    BY <1>0, <1>4, WaitsIs DEF Place, Where, SendAt, Senders
  <2>2. Attempts = MaxTry - tries /\ id.try <= Attempts /\ (op.kind = "ack" => id.try = Attempts)
    BY <1>0, <1>4, <1>t, <2>1 DEF Attempts, Tried
  <2>3. id.try \in 0..MaxTry /\ id.call \in 0..MaxCalls
    BY <1>0, OpIs
  <2>4. id'.try = id.try + 1 /\ id' \in Ids
    <3>1. id.try + 1 \in 0..MaxTry
      BY <1>t, <2>2, <2>3
    <3>2. id' = [id EXCEPT !.try = @ + 1] /\ id \in [call : 0..MaxCalls, try : 0..MaxTry]
      BY <1>0, <1>1, <1>4 DEF HostTypes, Ids
    <3> QED
      BY <3>1, <3>2 DEF Ids
  <2>5. pc' = (IF hRdy THEN "sReady" ELSE "sInit") /\ UNCHANGED <<after, tries, result, dirty, waiting>>
    BY <1>1, <1>4, <2>1 DEF Goto
  <2>6. HostTypes'
    BY <1>0, <1>1, <1>3, <2>4, <2>5 DEF HostTypes, SendAt
  <2>7. Place'
    <3>1. 0 < op.len
      <4>1. op.len \in Nat \ {0}
        BY <2>1, Constants
      <4> QED
        BY <4>1
    <3> QED
      BY <1>0, <1>1, <2>1, <2>5, <3>1, WaitsIs DEF Place, Where, SendAt, RecvAt
  <2>8. Attempts' = MaxTry - tries + 1
    BY <2>5 DEF Attempts
  <2>9. id'.try <= Attempts' /\ (op.kind = "ack" => id'.try = Attempts')
    BY <1>t, <2>2, <2>3, <2>4, <2>8
  <2>10. Tried'
    BY <1>1, <2>9 DEF Tried
  <2>11. InReset'
    BY <1>0, <1>1, <2>5 DEF InReset, regs, me, Empty, Quiet
  <2> QED
    BY <1>2, <2>6, <2>7, <2>10, <2>11 DEF Inv, HostInv
<1>5. CASE pc = "rCheck"
  <2>1. op.kind \in Acks /\ op.kind \notin Resets
    BY <1>0, <1>5, WaitsIs DEF Place, Where, RecvAt, Acks, Resets
  <2>2. /\ UNCHANGED <<op, id>> /\ cur' \in Nat /\ got' \in Nat /\ complete' \in BOOLEAN /\ answer' \subseteq Ids
    BY <1>1, <1>5
  <2>3. CASE op.kind = "poll" /\ ~(hRdy /\ meRdy)
    <3>1. EndAttempt("DEVICE_ERROR") /\ "DEVICE_ERROR" \in Statuses
      BY <1>1, <2>3 DEF Statuses
    <3>2. HostInv' /\ pc' \in {"idle", "sCheck", "retry"}
      BY <1>0, <1>3, <1>5, <2>1, <2>2, <3>1, EndedHost
    <3>3. InReset'
      BY <1>0, <1>1, <3>2, InResetKept
    <3> QED
      BY <1>2, <3>2, <3>3 DEF Inv
  <2>4. CASE ~(op.kind = "poll" /\ ~(hRdy /\ meRdy))
    <3>1. PICK p \in {"rReady", "rInit"} : Goto(p) /\ (hRdy <=> p = "rReady")
      BY <1>1, <1>5, <2>4
    <3>2. HostInv'
      <4>1. p \in RecvAt /\ p \notin SendAt
        BY DEF RecvAt, SendAt
      <4> QED
        BY <1>0, <1>3, <1>5, <2>1, <2>2, <3>1, <4>1, GotoHost
    <3>3. InReset'
      BY <1>0, <1>1, <3>1, InResetKept DEF InReset, Goto
    <3> QED
      BY <1>2, <3>2, <3>3 DEF Inv
  <2> QED
    BY <2>3, <2>4
<1> QED
  BY <1>1, <1>4, <1>5

LEMMA NotAllowedInv == ASSUME Inv, NotAllowed PROVE Inv'
<1>1. HostTypes /\ Place
  BY DEF Inv, HostInv
<1>2. /\ pc = "sCheck" /\ EndAttempt("UNSUPPORTED") /\ "UNSUPPORTED" \in Statuses
      /\ UNCHANGED <<regs, h2m, m2h, me, meResets, op, id, xfer>>
  BY DEF NotAllowed, Statuses
<1>3. op.kind \notin Resets
  BY <1>1, <1>2, WaitsIs DEF Place, Where, SendAt, Senders, Resets
<1> QED
  BY <1>2, <1>3, FailsAt

\* What is known at a wait.
LEMMA AtWait ==
  ASSUME Inv, pc \in Waits
  PROVE  /\ Where = pc /\ op.kind \notin Resets /\ pc \notin {"sCheck", "idle", "control", "retry", "reset"}
         /\ pc \in SendAt => op.kind \in Senders /\ cur < op.len
         /\ pc \in RecvAt => op.kind \in Acks
         /\ AfterWait[pc] \in {"sReady", "pReady", "pRoom", "rReady", "rHead"}
         /\ AfterWait[pc] \in SendAt => pc \in SendAt
         /\ AfterWait[pc] \in RecvAt => pc \in RecvAt
<1>1. Place
  BY DEF Inv, HostInv
<1>2. Where = pc /\ pc \in (SendAt \ {"sCheck"}) \union RecvAt
  BY WaitsIs DEF Where, SendAt, RecvAt
<1>3. op.kind \in Senders \union Acks
  BY <1>1, <1>2 DEF Place
<1>c. pc # "sCheck"
  BY <1>2 DEF SendAt, RecvAt
<1>4. op.kind \notin Resets
  BY <1>3 DEF Senders, Acks, Resets
<1>5. /\ pc \in SendAt => op.kind \in Senders /\ cur < op.len
      /\ pc \in RecvAt => op.kind \in Acks
  BY <1>1, <1>2, <1>c DEF Place
<1>6. /\ AfterWait[pc] \in {"sReady", "pReady", "pRoom", "rReady", "rHead"}
      /\ AfterWait[pc] \in SendAt => pc \in SendAt
      /\ AfterWait[pc] \in RecvAt => pc \in RecvAt
  BY WaitsIs DEF SendAt, RecvAt
<1> QED
  BY <1>2, <1>4, <1>5, <1>6, WaitsIs

LEMMA ReadyInv == ASSUME Inv, Ready PROVE Inv'
<1>0. World /\ HostInv /\ HostTypes /\ InReset
  BY DEF Inv, HostInv
<1>1. /\ pc \in Waits /\ meRdy /\ Goto(AfterWait[pc])
      /\ IF pc \in {"sInit", "rInit"} THEN hRdy' = TRUE /\ hRst' = FALSE ELSE UNCHANGED <<hRdy, hRst>>
      /\ UNCHANGED <<meRdy, meRst, h2m, m2h, me, meResets, op, id, xfer>>
  BY DEF Ready, Waits
<1>2. World'
  BY <1>0, <1>1 DEF World, Contents, Packed, Next1, me
<1>3. HostInv'
  <2>1. AfterWait[pc] \in {"rCheck", "sInit", "sReady", "pReady", "pRoom", "pCheck"} \union RecvAt
    BY <1>1, AtWait DEF RecvAt
  <2>2. /\ UNCHANGED <<op, id>> /\ cur' \in Nat /\ got' \in Nat /\ complete' \in BOOLEAN
        /\ answer' \subseteq Ids /\ hdr' \in [len : Nat, last : BOOLEAN] /\ cur' = cur
    BY <1>0, <1>1 DEF HostTypes, xfer
  <2>3. /\ pc \notin {"sCheck", "idle", "control", "retry", "reset"}
        /\ AfterWait[pc] \in SendAt => op.kind \in Senders /\ cur' < op.len
        /\ AfterWait[pc] \in RecvAt => op.kind \in Acks
    BY <1>1, <2>2, AtWait
  <2> QED
    BY <1>0, <1>1, <2>1, <2>2, <2>3, GotoHost
<1>4. InReset'
  <2>1. pc' = AfterWait[pc] /\ pc' # "reset"
    BY <1>1, AtWait DEF Goto
  <2>2. ~hRst'
    BY <1>0, <1>1, WaitsIs DEF InReset, World
  <2> QED
    BY <2>1, <2>2 DEF InReset
<1> QED
  BY <1>2, <1>3, <1>4 DEF Inv

LEMMA ResetAskedInv == ASSUME Inv, ResetAsked PROVE Inv'
<1>1. pc \in Waits /\ op.kind # "poll" /\ BeginReset(pc)
  BY DEF ResetAsked, Waits
<1> QED
  BY <1>1, BeginResetInv

LEMMA NotReadyInv == ASSUME Inv, NotReady PROVE Inv'
<1>1. /\ pc \in Waits /\ WaitFails(pc)
      /\ UNCHANGED <<regs, h2m, m2h, me, meResets, op, id, xfer>>
  BY DEF NotReady, Waits
<1>2. PICK s \in {"DEVICE_ERROR", "TIMEOUT"} : s \in Statuses /\ EndAttempt(s)
  BY <1>1, WaitFailsAt
<1> QED
  BY <1>1, <1>2, AtWait, FailsAt

LEMMA RetryResetInv == ASSUME Inv, RetryReset PROVE Inv'
BY BeginResetInv DEF RetryReset

LEMMA ControlResetInv == ASSUME Inv, ControlReset PROVE Inv'
BY BeginResetInv DEF ControlReset

\* What is known where a packet is written.
LEMMA AtPacket ==
  ASSUME Inv, pc \in {"pRoom", "pCheck"}
  PROVE  /\ op.kind \in Senders /\ op.kind \notin Resets /\ op.len \in Nat \ {0} /\ op.len \in ReqLens
         /\ op.len - cur \in Nat \ {0} /\ op.len - cur <= op.len /\ cur < op.len /\ cur \in Nat
         /\ op.len - (op.len - cur) = cur
         /\ SendLength(op.len - cur) \in 1..op.len - cur
         /\ Words(SendLength(op.len - cur)) \in 1..CBD - 1
<1>0. HostTypes /\ Place
  BY DEF Inv, HostInv
<1>1. op.kind \in Senders /\ op.len \in ReqLens /\ cur < op.len
  <2>1. Where = pc /\ pc \in SendAt /\ pc \notin {"sCheck"}
    BY DEF Where, SendAt
  <2> QED
    BY <1>0, <2>1 DEF Place
<1>2. op.len \in Nat \ {0} /\ cur \in Nat
  BY <1>0, <1>1, Constants DEF HostTypes
<1>3. op.len - cur \in Nat \ {0} /\ op.len - cur <= op.len /\ op.len - (op.len - cur) = cur
  BY <1>1, <1>2
<1> DEFINE left == op.len - cur
<1>4. SendLength(left) \in 1..left /\ Words(SendLength(left)) \in 1..CBD - 1
  <2> HIDE DEF left
  <2> QED
    BY <1>3, SendSize DEF left
<1>5. op.kind \notin Resets
  BY <1>1 DEF Senders, Resets
<1> QED
  BY <1>1, <1>2, <1>3, <1>4, <1>5

LEMMA HeciPacketWriteInv == ASSUME Inv, HeciPacketWrite PROVE Inv'
<1> DEFINE left == op.len - cur
<1>0. World /\ HostInv /\ HostTypes /\ InReset
  BY DEF Inv, HostInv
<1>1. /\ pc = "pRoom" /\ HasRoom(h2m, Words(SendLength(left)))
      /\ h2m' = h2m \o Packet(left) /\ complete' = MessageComplete(left) /\ Goto("pCheck")
      /\ UNCHANGED <<regs, m2h, me, meResets, op, id, cur, hdr, got, answer>>
  BY DEF HeciPacketWrite
<1>2. /\ op.kind \in Senders /\ cur < op.len /\ op.len \in Nat /\ left \in Nat \ {0} /\ left <= op.len
      /\ SendLength(left) \in 1..left /\ Words(SendLength(left)) \in 1..CBD - 1
  BY <1>1, AtPacket
<1>3. complete' \in BOOLEAN
  BY <1>0, <1>1 DEF MessageComplete, HostTypes
<1> HIDE DEF left
<1>4. HostInv'
  <2>1. /\ UNCHANGED <<op, id>> /\ cur' \in Nat /\ got' \in Nat /\ cur' = cur
        /\ answer' \subseteq Ids /\ hdr' \in [len : Nat, last : BOOLEAN]
    BY <1>0, <1>1 DEF HostTypes
  <2>2. "pCheck" \in SendAt /\ "pCheck" \notin RecvAt
    BY DEF SendAt, RecvAt
  <2> QED
    BY <1>0, <1>1, <1>2, <1>3, <2>1, <2>2, GotoHost
<1>5. World'
  <2> DEFINE n == Words(SendLength(left))
             h == Header(id, SendLength(left), MessageComplete(left), op.len - left, op.len)
  <2>1. h2m \in Seq(MsgWord) /\ Packed(h2m) /\ id \in Ids /\ complete \in BOOLEAN
    BY <1>0 DEF World, Contents, HostTypes
  <2>2. /\ h2m' \in Seq(MsgWord) /\ Len(h2m') = Len(h2m) + n + 1 /\ Len(h2m) \in Nat /\ n \in Nat
        /\ \A k \in 1..Len(h2m) : h2m'[k] = h2m[k]
        /\ h2m'[Len(h2m) + 1] = h
        /\ \A k \in Len(h2m) + 2..Len(h2m) + n + 1 : h2m'[k] = Body(id)
    BY <1>1, <1>2, <2>1, Written
  <2>3. h2m'[Len(h2m) + 1].head /\ Words(h2m'[Len(h2m) + 1].len) = n
    BY <2>2 DEF Header
  <2>4. \A k \in Len(h2m) + 2..Len(h2m) + n + 1 : ~h2m'[k].head
    BY <2>2 DEF Body
  <2>6. n + 1 <= CBD - Len(h2m)
    BY <1>1 DEF HasRoom
  <2> HIDE DEF n, h
  <2>5. Packed(h2m')
    BY <2>1, <2>2, <2>3, <2>4, PackedPut
  <2>7. Len(h2m') <= CBD
    BY <2>2, <2>6, Constants
  <2> QED
    BY <1>0, <1>1, <2>2, <2>5, <2>7 DEF World, Contents, regs, me
<1>6. InReset'
  BY <1>0, <1>1 DEF InReset, regs, Goto
<1> QED
  BY <1>4, <1>5, <1>6 DEF Inv

LEMMA NeverEmptiedInv == ASSUME Inv, NeverEmptied PROVE Inv'
<1>1. /\ pc = "pRoom" /\ EndAttempt("TIMEOUT") /\ "TIMEOUT" \in Statuses
      /\ UNCHANGED <<regs, h2m, m2h, me, meResets, op, id, xfer>>
  BY DEF NeverEmptied, Statuses
<1> QED
  BY <1>1, AtPacket, FailsAt

LEMMA PacketWrittenInv == ASSUME Inv, PacketWritten PROVE Inv'
<1> DEFINE sent == cur + SendLength(op.len - cur)
<1>0. World /\ HostInv /\ HostTypes /\ InReset
  BY DEF Inv, HostInv
<1>1. /\ pc = "pCheck" /\ cur' = (IF meRdy THEN sent ELSE cur)
      /\ UNCHANGED <<regs, h2m, m2h, me, meResets, op, id, complete, hdr, got, answer>>
      /\ IF ~meRdy THEN EndAttempt("DEVICE_ERROR")
         ELSE IF sent < op.len THEN Goto("pReady")
         ELSE IF op.kind = "send" THEN EndAttempt("SUCCESS")
         ELSE Goto("rCheck")
  BY DEF PacketWritten
<1>2. /\ op.kind \in Senders /\ op.kind \notin Resets /\ sent \in Nat /\ cur \in Nat
  <2>1. op.kind \in Senders /\ op.kind \notin Resets /\ cur \in Nat /\ op.len - cur \in Nat
        /\ SendLength(op.len - cur) \in 1..op.len - cur
    BY <1>1, AtPacket
  <2> QED
    BY <2>1
<1> HIDE DEF sent
<1>3. /\ UNCHANGED <<op, id>> /\ cur' \in Nat /\ got' \in Nat /\ complete' \in BOOLEAN
      /\ answer' \subseteq Ids /\ hdr' \in [len : Nat, last : BOOLEAN]
  BY <1>0, <1>1, <1>2 DEF HostTypes
<1>4. World'
  BY <1>0, <1>1, WorldKept
<1>5. ASSUME NEW s \in Statuses, EndAttempt(s) PROVE Inv'
  <2>1. HostInv' /\ pc' \in {"idle", "sCheck", "retry"}
    BY <1>0, <1>1, <1>2, <1>3, <1>5, EndedHost
  <2> QED
    BY <1>0, <1>1, <1>4, <2>1, InResetKept DEF Inv
<1>6. ASSUME NEW p \in {"pReady", "rCheck"}, Goto(p), p = "pReady" => cur' < op.len, p = "rCheck" => op.kind # "send"
      PROVE  Inv'
  <2>1. /\ p \in SendAt => op.kind \in Senders /\ cur' < op.len
        /\ p \in RecvAt => op.kind \in Acks
    BY <1>2, <1>6 DEF SendAt, RecvAt, Senders, Acks
  <2>2. HostInv'
    BY <1>0, <1>1, <1>3, <1>6, <2>1, GotoHost
  <2> QED
    BY <1>0, <1>1, <1>4, <1>6, <2>2, InResetKept DEF Inv, InReset, Goto
<1> QED
  BY <1>1, <1>5, <1>6 DEF Statuses

\* What is known where an answer is read.
LEMMA AtRead ==
  ASSUME Inv, pc \in {"rHead", "rBody", "rDone"}
  PROVE  /\ op.kind \in Acks /\ op.kind \notin Resets /\ ~hRst
         /\ hdr.len \in Nat /\ got \in Nat /\ got + hdr.len \in Nat
<1>0. HostTypes /\ Place /\ InReset
  BY DEF Inv, HostInv
<1>1. op.kind \in Acks
  BY <1>0 DEF Place, Where, RecvAt
<1>2. op.kind \notin Resets
  BY <1>1 DEF Resets, Acks
<1>3. hdr.len \in Nat /\ got \in Nat
  BY <1>0 DEF HostTypes
<1>4. ~hRst
  BY <1>0 DEF InReset
<1> QED
  BY <1>1, <1>2, <1>3, <1>4

\* The identity of a word that was read.
LEMMA AnswerTypes ==
  ASSUME World, NEW k \in 1..Len(m2h)
  PROVE  m2h[k] \in MsgWord /\ m2h[k].id \in Ids /\ Garbage \in Ids
<1>1. m2h[k] \in MsgWord
  BY NoneLeft DEF World, Contents
<1>2. Garbage \in Ids
  BY Constants DEF Garbage, Ids
<1> QED
  BY <1>1, <1>2, WordIs

LEMMA ReadHeaderInv == ASSUME Inv, ReadHeader PROVE Inv'
<1>0. World /\ HostInv /\ HostTypes /\ InReset
  BY DEF Inv, HostInv
<1>1. /\ pc = "rHead" /\ m2h # <<>> /\ m2h' = Tail(m2h)
      /\ UNCHANGED <<regs, h2m, me, meResets, op, id, cur, complete, got>>
      /\ answer' = answer \union {IF Head(m2h).head /\ Head(m2h).off = got
                                  THEN Head(m2h).id ELSE Garbage}
  BY DEF ReadHeader
<1>2. PICK h \in AsHeader(Head(m2h)) :
        /\ hdr' = h
        /\ IF h.len = 0 THEN Goto("rDone")
           ELSE IF h.len + 1 > CBD THEN EndAttempt("DEVICE_ERROR")
           ELSE IF h.len > RecLength - got THEN EndAttempt("BUFFER_TOO_SMALL")
           ELSE Goto("rBody")
  BY DEF ReadHeader
<1>3. /\ Tail(m2h) \in Seq(MsgWord) /\ Len(Tail(m2h)) = Len(m2h) - 1 /\ Len(m2h) \in Nat \ {0}
      /\ Head(m2h) = m2h[1] /\ m2h[1] \in MsgWord
  BY <1>0, <1>1, TailIs DEF World, Contents
<1>4. hdr' \in [len : Nat, last : BOOLEAN]
  <2>1. Head(m2h).head => Head(m2h).len \in Nat /\ Head(m2h).last \in BOOLEAN
    BY <1>3, WordIs
  <2> QED
    BY <1>2, <2>1, Constants DEF AsHeader
<1>5. answer' \subseteq Ids
  <2>1. 1 \in 1..Len(m2h)
    BY <1>3
  <2>2. Head(m2h).id \in Ids /\ Garbage \in Ids
    BY <1>0, <1>3, <2>1, AnswerTypes
  <2> QED
    BY <1>0, <1>1, <2>2 DEF HostTypes
<1>6. World'
  <2>1. Len(m2h') <= CBD
    BY <1>0, <1>1, <1>3, Constants DEF World
  <2> QED
    BY <1>0, <1>1, <1>3, <2>1 DEF World, Contents, Packed, Next1, regs, me
<1>7. /\ UNCHANGED <<op, id>> /\ cur' \in Nat /\ got' \in Nat /\ complete' \in BOOLEAN
  BY <1>0, <1>1 DEF HostTypes
<1>8. op.kind \in Acks /\ op.kind \notin Resets /\ ~hRst
  BY <1>1, AtRead
<1>9. HostInv' /\ pc' # "reset"
  <2>1. ASSUME NEW s \in {"DEVICE_ERROR", "BUFFER_TOO_SMALL"}, EndAttempt(s) PROVE HostInv' /\ pc' # "reset"
    <3>1. s \in Statuses
      BY DEF Statuses
    <3> QED
      BY <1>0, <1>1, <1>4, <1>5, <1>7, <1>8, <2>1, <3>1, EndedHost
  <2>2. ASSUME NEW p \in {"rDone", "rBody"}, Goto(p) PROVE HostInv' /\ pc' # "reset"
    <3>1. p \in RecvAt /\ p \notin SendAt
      BY DEF RecvAt, SendAt
    <3>2. HostInv'
      BY <1>0, <1>1, <1>4, <1>5, <1>7, <1>8, <2>2, <3>1, GotoHost
    <3> QED
      BY <2>2, <3>2 DEF Goto
  <2> QED
    BY <1>2, <2>1, <2>2
<1> QED
  BY <1>1, <1>6, <1>8, <1>9 DEF Inv, InReset, regs

LEMMA ReadBodyInv == ASSUME Inv, ReadBody PROVE Inv'
<1>0. World /\ HostInv /\ HostTypes /\ InReset
  BY DEF Inv, HostInv
<1>1. /\ pc = "rBody" /\ hdr.len <= Len(m2h) /\ m2h' = SubSeq(m2h, hdr.len + 1, Len(m2h)) /\ Goto("rDone")
      /\ answer' = answer \union {IF m2h[k].head THEN Garbage ELSE m2h[k].id : k \in 1..hdr.len}
      /\ UNCHANGED <<regs, h2m, me, meResets, op, id, cur, complete, hdr, got>>
  BY DEF ReadBody
<1>2. op.kind \in Acks /\ op.kind \notin Resets /\ ~hRst /\ hdr.len \in Nat
  BY <1>1, AtRead
<1>3. m2h \in Seq(MsgWord) /\ Len(m2h) \in Nat /\ Len(m2h) <= CBD
  BY <1>0, NoneLeft DEF World, Contents
<1>4. m2h' \in Seq(MsgWord) /\ Len(m2h') = Len(m2h) - hdr.len
  <2> DEFINE n == hdr.len
  <2>1. n \in Nat /\ n <= Len(m2h) /\ m2h' = SubSeq(m2h, n + 1, Len(m2h))
    BY <1>1, <1>2
  <2> HIDE DEF n
  <2>2. m2h' \in Seq(MsgWord) /\ Len(m2h') = Len(m2h) - n
    BY <1>3, <2>1, Dropped
  <2> QED
    BY <2>2 DEF n
<1>5. answer' \subseteq Ids
  <2>1. \A k \in 1..hdr.len : k \in 1..Len(m2h)
    BY <1>1, <1>2, <1>3
  <2>2. \A k \in 1..hdr.len : m2h[k].id \in Ids /\ Garbage \in Ids
    BY <1>0, <2>1, AnswerTypes
  <2>3. {IF m2h[k].head THEN Garbage ELSE m2h[k].id : k \in 1..hdr.len} \subseteq Ids
    BY <2>2
  <2> QED
    BY <1>0, <1>1, <2>3 DEF HostTypes
<1>6. World'
  <2>1. Len(m2h') <= CBD
    BY <1>2, <1>3, <1>4, Constants
  <2> QED
    BY <1>0, <1>1, <1>4, <2>1 DEF World, Contents, Packed, Next1, regs, me
<1>7. /\ UNCHANGED <<op, id>> /\ cur' \in Nat /\ got' \in Nat /\ complete' \in BOOLEAN
      /\ hdr' \in [len : Nat, last : BOOLEAN]
  BY <1>0, <1>1 DEF HostTypes
<1>8. HostInv'
  <2>1. "rDone" \in RecvAt /\ "rDone" \notin SendAt
    BY DEF RecvAt, SendAt
  <2> QED
    BY <1>0, <1>1, <1>2, <1>5, <1>7, <2>1, GotoHost
<1> QED
  BY <1>1, <1>2, <1>6, <1>8 DEF Inv, InReset, regs, Goto

LEMMA PacketReadInv == ASSUME Inv, PacketRead PROVE Inv'
<1>0. World /\ HostInv /\ HostTypes /\ InReset
  BY DEF Inv, HostInv
<1>1. /\ pc = "rDone" /\ got' = got + hdr.len
      /\ UNCHANGED <<regs, h2m, m2h, me, meResets, op, id, cur, complete, hdr, answer>>
      /\ IF hdr.len = 0 THEN EndAttempt(IF got = 0 /\ hdr.last THEN "SUCCESS" ELSE "NO_RESPONSE")
         ELSE IF ~meRdy THEN EndAttempt("DEVICE_ERROR")
         ELSE IF hdr.last THEN EndAttempt("SUCCESS")
         ELSE IF got' >= RecLength THEN EndAttempt("BUFFER_TOO_SMALL")
         ELSE Goto("rHead")
  BY DEF PacketRead
<1>2. op.kind \in Acks /\ op.kind \notin Resets /\ ~hRst /\ got' \in Nat
  BY <1>1, AtRead
<1>3. /\ UNCHANGED <<op, id>> /\ cur' \in Nat /\ complete' \in BOOLEAN
      /\ answer' \subseteq Ids /\ hdr' \in [len : Nat, last : BOOLEAN]
  BY <1>0, <1>1 DEF HostTypes
<1>4. World'
  BY <1>0, <1>1, WorldKept
<1>5. HostInv' /\ pc' # "reset"
  <2>1. ASSUME NEW s \in {"SUCCESS", "NO_RESPONSE", "DEVICE_ERROR", "BUFFER_TOO_SMALL"}, EndAttempt(s)
        PROVE  HostInv' /\ pc' # "reset"
    <3>1. s \in Statuses
      BY DEF Statuses
    <3> QED
      BY <1>0, <1>1, <1>2, <1>3, <2>1, <3>1, EndedHost
  <2>2. ASSUME Goto("rHead") PROVE HostInv' /\ pc' # "reset"
    <3>1. "rHead" \in RecvAt /\ "rHead" \notin SendAt
      BY DEF RecvAt, SendAt
    <3>2. HostInv'
      BY <1>0, <1>1, <1>2, <1>3, <2>2, <3>1, GotoHost
    <3> QED
      BY <2>2, <3>2 DEF Goto
  <2>3. ~(hdr.len = 0 /\ got = 0 /\ hdr.last) \/ (hdr.len = 0 /\ got = 0 /\ hdr.last)
    OBVIOUS
  <2> QED
    BY <1>1, <2>1, <2>2, <2>3
<1> QED
  BY <1>1, <1>2, <1>4, <1>5 DEF Inv, InReset, regs

LEMMA NoPacketInv == ASSUME Inv, NoPacket PROVE Inv'
<1>1. /\ pc \in {"rHead", "rBody"} /\ UNCHANGED <<regs, h2m, m2h, me, meResets, op, id, xfer>>
      /\ \E s \in {"NO_RESPONSE", "TIMEOUT"} : EndAttempt(s)
  BY DEF NoPacket
<1>2. PICK s \in {"NO_RESPONSE", "TIMEOUT"} : EndAttempt(s)
  BY <1>1
<1>3. s \in Statuses
  BY DEF Statuses
<1> QED
  BY <1>1, <1>2, <1>3, AtRead, FailsAt

LEMMA MeResetWaitFailsInv == ASSUME Inv, MeResetWaitFails PROVE Inv'
<1>0. World /\ HostTypes /\ Place /\ Tried /\ InReset
  BY DEF Inv, HostInv
<1>1. /\ pc = "control" /\ op.kind = "reinit" /\ Return("TIMEOUT")
      /\ UNCHANGED <<regs, h2m, m2h, me, meResets, op, id, xfer>>
  BY DEF MeResetWaitFails
<1>2. /\ pc' = "idle" /\ UNCHANGED <<after, tries, waiting>> /\ UNCHANGED <<op, id, cur, complete, hdr, got, answer>>
  BY <1>1 DEF Return, xfer
<1>3. /\ result' \in [status : Statuses, kind : AllKinds, id : Ids, answer : SUBSET Ids, dirty : BOOLEAN]
      /\ dirty' \in BOOLEAN
  <2>1. op.kind \in AllKinds /\ "TIMEOUT" \in Statuses
    BY <1>0, OpIs DEF Statuses
  <2> QED
    BY <1>0, <1>1, <2>1 DEF Return, HostTypes
<1>4. HostTypes'
  BY <1>0, <1>2, <1>3 DEF HostTypes
<1>5. Place' /\ Tried'
  BY <1>0, <1>2, WaitsIs DEF Place, Tried, Where, SendAt, RecvAt
<1> QED
  BY <1>0, <1>1, <1>2, <1>4, <1>5, WorldKept, InResetKept DEF Inv, HostInv

\* A call begins.
LEMMA BeginIs ==
  ASSUME World, HostTypes, NEW k \in AllKinds, NEW len \in ReqLens \union {0}, Begin(k, len),
         pc' \in {"sCheck", "rCheck", "control"}, id' \in Ids
  PROVE  HostTypes' /\ World' /\ tries' = MaxTry /\ op' = [kind |-> k, len |-> len]
<1>1. /\ op' = [kind |-> k, len |-> len] /\ tries' = MaxTry /\ result' = NoResult
      /\ cur' = 0 /\ complete' = FALSE /\ hdr' = NoHdr /\ got' = 0 /\ answer' = {}
      /\ UNCHANGED <<h2m, m2h, regs, me, meResets, after, dirty, waiting>>
  BY DEF Begin
<1>2. World'
  BY <1>1, WorldKept
<1>3. hdr' \in [len : Nat, last : BOOLEAN]
  BY <1>1 DEF NoHdr
<1>4. result' \in [status : Statuses, kind : AllKinds, id : Ids, answer : SUBSET Ids, dirty : BOOLEAN]
  <2>1. NoId \in Ids
    BY Constants DEF NoId, Ids
  <2>2. "NONE" \in Statuses /\ "reset" \in AllKinds
    BY DEF Statuses, AllKinds
  <2> QED
    BY <1>1, <2>1, <2>2 DEF NoResult
<1>5. HostTypes'
  <2>1. tries' \in 1..MaxTry
    BY <1>1, Constants
  <2> QED
    BY <1>1, <1>3, <1>4, <2>1 DEF HostTypes, SendAt, RecvAt
<1> QED
  BY <1>1, <1>2, <1>5

LEMMA RequestInv == ASSUME Inv, Request PROVE Inv'
<1>0. World /\ HostTypes /\ InReset
  BY DEF Inv, HostInv
<1>1. /\ pc = "idle" /\ ~waiting /\ id.call < MaxCalls /\ pc' = "sCheck"
      /\ id' = [call |-> id.call + 1, try |-> 0]
  BY DEF Request
<1>2. PICK k \in Senders, len \in ReqLens : Begin(k, len)
  BY DEF Request, Senders
<1>3. id' \in Ids
  <2>1. id.call \in 0..MaxCalls /\ MaxCalls \in Nat /\ MaxTry \in Nat
    BY <1>0, OpIs, Constants
  <2>2. id.call + 1 \in 0..MaxCalls /\ 0 \in 0..MaxTry
    BY <1>1, <2>1
  <2> QED
    BY <1>1, <2>2 DEF Ids
<1>4. k \in AllKinds
  BY DEF Senders, AllKinds
<1>5. HostTypes' /\ World' /\ tries' = MaxTry /\ op' = [kind |-> k, len |-> len]
  BY <1>0, <1>1, <1>2, <1>3, <1>4, BeginIs
<1>6. op'.kind = k /\ op'.len = len /\ id'.try = 0
  BY <1>1, <1>5
<1>7. Place'
  BY <1>1, <1>6, WaitsIs DEF Place, Where, SendAt, RecvAt
<1>8. Attempts' = 0
  <2>1. Attempts' = MaxTry - MaxTry + 0
    BY <1>1, <1>5 DEF Attempts
  <2> QED
    BY <2>1, Constants
<1>9. Tried'
  BY <1>6, <1>8 DEF Tried
<1>10. InReset'
  BY <1>0, <1>1, <1>2 DEF InReset, Begin, regs, me, Empty, Quiet
<1> QED
  BY <1>5, <1>7, <1>9, <1>10 DEF Inv, HostInv

\* The operations that send nothing.
LEMMA OtherCall ==
  ASSUME Inv, pc = "idle", NEW k \in AllKinds \ Senders, Begin(k, 0), UNCHANGED id,
         \/ pc' = "rCheck" /\ k \in Acks
         \/ pc' = "control" /\ k \in Resets
  PROVE  Inv'
<1>0. World /\ HostTypes /\ InReset
  BY DEF Inv, HostInv
<1>1. id' \in Ids /\ k \in AllKinds
  BY <1>0 DEF HostTypes
<1>2. HostTypes' /\ World' /\ op' = [kind |-> k, len |-> 0]
  BY <1>0, <1>1, BeginIs
<1>3. op'.kind = k /\ k \notin Senders /\ k # "ack"
  BY <1>2 DEF Senders
<1>4. Place'
  BY <1>3, WaitsIs DEF Place, Where, SendAt, RecvAt
<1>5. Tried'
  BY <1>3 DEF Tried
<1>6. InReset'
  BY <1>0 DEF InReset, Begin, regs, me, Empty, Quiet
<1> QED
  BY <1>2, <1>4, <1>5, <1>6 DEF Inv, HostInv

LEMMA ReceiveInv == ASSUME Inv, Receive PROVE Inv'
<1>1. PICK k \in {"receive", "poll"} : Begin(k, 0)
  BY DEF Receive
<1>2. k \in AllKinds \ Senders /\ k \in Acks
  BY DEF AllKinds, Senders, Acks
<1> QED
  BY <1>1, <1>2, OtherCall DEF Receive

LEMMA ControlInv == ASSUME Inv, Control PROVE Inv'
<1>1. PICK k \in {"reset", "reinit"} : Begin(k, 0)
  BY DEF Control
<1>2. k \in AllKinds \ Senders /\ k \in Resets
  BY DEF AllKinds, Senders, Resets
<1> QED
  BY <1>1, <1>2, OtherCall DEF Control

\* While the ME moves, no reset is under way.
LEMMA MovesIs == ASSUME Inv, Moves PROVE ~hRst /\ pc # "reset"
BY DEF Inv, InReset, Moves

LEMMA MeTakeInv == ASSUME Inv, MeTake PROVE Inv'
<1> DEFINE h == Head(h2m)
           fits == h.off = asm.bytes /\ (h.off > 0 => h.id = asm.id)
<1>0. World /\ HostInv /\ Contents /\ Packed(h2m)
  BY DEF Inv, World
<1>1. /\ Moves /\ h2m # <<>> /\ h2m' = SubSeq(h2m, Words(Head(h2m).len) + 2, Len(h2m))
      /\ h.last => owed' = Append(owed, [id |-> h.id, whole |-> fits /\ h.off + h.len = h.want]) /\ asm' = NoAsm
      /\ ~h.last => asm' = [id |-> h.id, bytes |-> asm.bytes + h.len] /\ UNCHANGED owed
      /\ UNCHANGED <<regs, m2h, out, meResets, host>>
  BY DEF MeTake
<1>2. /\ h = h2m[1] /\ h \in MsgWord /\ h.head /\ Shifted(h2m, h2m', PacketSize(h2m[1]))
      /\ PacketSize(h2m[1]) # 0
  BY <1>0, <1>1, TakenIs DEF Contents
<1>3. h.id \in Ids /\ h.len \in Nat
  BY <1>2, WordIs
<1>4. Packed(h2m') /\ h2m' \in Seq(MsgWord)
  BY <1>0, <1>2, PackedTake DEF Contents, Shifted
<1>5. Len(h2m') <= CBD
  <2>1. Len(h2m') = Len(h2m) - PacketSize(h2m[1]) /\ PacketSize(h2m[1]) \in Nat
    BY <1>2 DEF Shifted
  <2>2. Len(h2m) <= CBD /\ Len(h2m) \in Nat
    BY <1>0, NoneLeft DEF World, Contents
  <2> QED
    BY <2>1, <2>2, Constants
<1> HIDE DEF h
<1>6. owed' \in Seq([id : Ids, whole : BOOLEAN])
  <2>1. CASE h.last
    <3> DEFINE w == fits /\ h.off + h.len = h.want
    <3>1. w \in BOOLEAN
      OBVIOUS
    <3> HIDE DEF w, fits
    <3>2. [id |-> h.id, whole |-> w] \in [id : Ids, whole : BOOLEAN]
      BY <1>3, <3>1
    <3>3. owed' = Append(owed, [id |-> h.id, whole |-> w])
      BY <1>1, <2>1 DEF w
    <3> QED
      BY <1>0, <3>2, <3>3, AppendProperties DEF Contents
  <2>2. CASE ~h.last
    BY <1>0, <1>1, <2>2 DEF Contents
  <2> QED
    BY <2>1, <2>2
<1>7. asm' \in [id : Ids, bytes : Nat]
  <2>1. NoAsm \in [id : Ids, bytes : Nat]
    BY Constants DEF NoAsm, NoId, Ids
  <2>2. asm.bytes \in Nat
    BY <1>0 DEF Contents
  <2> QED
    BY <1>1, <1>3, <2>1, <2>2
<1>8. World'
  BY <1>0, <1>1, <1>4, <1>5, <1>6, <1>7 DEF World, Contents, regs
<1> QED
  BY <1>0, <1>1, <1>8, MovesIs, HostKept DEF Inv, InReset, regs, host

LEMMA MeAnswerInv == ASSUME Inv, MeAnswer PROVE Inv'
<1>0. World /\ HostInv /\ Contents
  BY DEF Inv, World
<1>1. /\ Moves /\ owed # <<>> /\ owed' = Tail(owed) /\ UNCHANGED <<regs, h2m, m2h, asm, meResets, host>>
  BY DEF MeAnswer
<1>2. PICK shape \in Shapes : out' = AnswerWords(Head(owed).id, shape)
  BY DEF MeAnswer
<1>3. Tail(owed) \in Seq([id : Ids, whole : BOOLEAN]) /\ Head(owed).id \in Ids
  <2> DEFINE S == [id : Ids, whole : BOOLEAN]
  <2>1. owed \in Seq(S) /\ owed # <<>>
    BY <1>0, <1>1 DEF Contents
  <2> HIDE DEF S
  <2>2. Tail(owed) \in Seq(S) /\ Head(owed) \in S
    BY <2>1, TailIs
  <2> QED
    BY <2>2 DEF S
<1>4. out' \in Seq(MsgWord)
  BY <1>2, <1>3, AnswerIs
<1> QED
  BY <1>0, <1>1, <1>3, <1>4, MovesIs, HostKept DEF Inv, InReset, World, Contents, Packed, Next1, regs, host

LEMMA MeLoseInv == ASSUME Inv, MeLose PROVE Inv'
<1>0. World /\ HostInv /\ Contents
  BY DEF Inv, World
<1>1. /\ Moves /\ owed # <<>> /\ owed' = Tail(owed) /\ UNCHANGED <<regs, h2m, m2h, asm, out, meResets, host>>
  BY DEF MeLose
<1>2. Tail(owed) \in Seq([id : Ids, whole : BOOLEAN])
  BY <1>0, <1>1, TailIs DEF Contents
<1> QED
  BY <1>0, <1>1, <1>2, MovesIs, HostKept DEF Inv, InReset, World, Contents, Packed, Next1, regs, host

LEMMA MeWriteInv == ASSUME Inv, MeWrite PROVE Inv'
<1>0. World /\ HostInv /\ Contents
  BY DEF Inv, World
<1>1. /\ Moves /\ out # <<>> /\ Len(m2h) < CBD /\ m2h' = Append(m2h, Head(out)) /\ out' = Tail(out)
      /\ UNCHANGED <<regs, h2m, asm, owed, meResets, host>>
  BY DEF MeWrite
<1>2. Tail(out) \in Seq(MsgWord) /\ Head(out) \in MsgWord
  BY <1>0, <1>1, TailIs DEF Contents
<1>3. m2h' \in Seq(MsgWord) /\ Len(m2h') <= CBD
  <2>1. m2h' \in Seq(MsgWord) /\ Len(m2h') = Len(m2h) + 1 /\ Len(m2h) \in Nat
    BY <1>0, <1>1, <1>2, AppendProperties, NoneLeft DEF Contents
  <2> QED
    BY <1>1, <2>1, Constants
<1> QED
  BY <1>0, <1>1, <1>2, <1>3, MovesIs, HostKept DEF Inv, InReset, World, Contents, Packed, Next1, regs, host

LEMMA MeResetInv == ASSUME Inv, MeReset PROVE Inv'
<1>0. World /\ HostInv /\ InReset
  BY DEF Inv
<1>1. /\ meResets < MaxResets /\ meResets' = meResets + 1 /\ meRdy' = FALSE /\ meRst' \in BOOLEAN
      /\ hRdy' = FALSE /\ UNCHANGED hRst /\ Emptied /\ UNCHANGED host
  BY DEF MeReset
<1>2. meResets' \in 0..MaxResets /\ hRst' \in BOOLEAN
  BY <1>0, <1>1, Constants DEF World
<1>3. World'
  BY <1>1, <1>2, EmptiedWorld
<1>4. InReset'
  BY <1>0, <1>1 DEF InReset, Emptied, Empty, Quiet, host
<1> QED
  BY <1>0, <1>1, <1>3, <1>4, HostKept DEF Inv

LEMMA MeReadyInv == ASSUME Inv, MeReady PROVE Inv'
<1>0. World /\ HostInv /\ InReset
  BY DEF Inv
<1>1. meRdy' = TRUE /\ meRst' = FALSE /\ UNCHANGED <<hRdy, hRst, h2m, m2h, me, meResets, host>>
  BY DEF MeReady
<1>2. World'
  BY <1>0, <1>1 DEF World, Contents, Packed, Next1, me
<1>3. InReset'
  BY <1>0, <1>1 DEF InReset, Empty, Quiet, host, me
<1> QED
  BY <1>0, <1>1, <1>2, <1>3, HostKept DEF Inv

LEMMA InitInv == Init => Inv
<1> SUFFICES ASSUME Init PROVE Inv
  OBVIOUS
<1>1. World
  <2>1. Len(<<>>) = 0 /\ 0 <= CBD /\ \A S : <<>> \in Seq(S)
    BY Constants, EmptySeq
  <2>2. NoAsm \in [id : Ids, bytes : Nat]
    BY Constants DEF NoAsm, NoId, Ids
  <2>3. Packed(<<>>)
    BY <2>1 DEF Packed
  <2>4. 0 \in 0..MaxResets
    BY Constants
  <2> QED
    BY <2>1, <2>2, <2>3, <2>4 DEF Init, World, Contents
<1>2. HostTypes
  <2>1. NoId \in Ids /\ MaxTry \in 1..MaxTry
    BY Constants DEF NoId, Ids
  <2>2. NoResult \in [status : Statuses, kind : AllKinds, id : Ids, answer : SUBSET Ids, dirty : BOOLEAN]
    BY <2>1 DEF NoResult, Statuses, AllKinds
  <2> QED
    BY <2>1, <2>2 DEF Init, HostTypes, AllKinds, NoHdr
<1>3. Place /\ Tried
  BY WaitsIs DEF Init, Place, Tried, Where, SendAt, RecvAt, Senders
<1>4. InReset
  BY DEF Init, InReset
<1> QED
  BY <1>1, <1>2, <1>3, <1>4 DEF Inv, HostInv

LEMMA StutterInv == ASSUME Inv, UNCHANGED vars PROVE Inv'
<1>1. UNCHANGED host /\ UNCHANGED <<regs, h2m, m2h, me, meResets>>
  BY DEF vars, host
<1> QED
  BY <1>1, HostKept, WorldKept DEF Inv, InReset, Empty, Quiet, regs, me, host

LEMMA NextInv == Inv /\ [Next]_vars => Inv'
<1> SUFFICES ASSUME Inv, [Next]_vars PROVE Inv'
  OBVIOUS
<1>1. CASE Host
  BY <1>1, CheckForHeciResetInv, NotAllowedInv, ReadyInv, ResetAskedInv, NotReadyInv,
     HeciPacketWriteInv, NeverEmptiedInv, PacketWrittenInv, ReadHeaderInv, ReadBodyInv,
     PacketReadInv, NoPacketInv, RetryResetInv, FinishResetInv, ResetFailsInv, ControlResetInv,
     MeResetWaitFailsInv DEF Host
<1>2. CASE ME
  BY <1>2, MeTakeInv, MeAnswerInv, MeLoseInv, MeWriteInv, MeResetInv, MeReadyInv DEF ME
<1> QED
  BY <1>1, <1>2, RequestInv, ReceiveInv, ControlInv, StutterInv DEF Next

\* The first invariant is one.
LEMMA InvHolds == Spec => []Inv
BY InitInv, NextInv, PTL DEF Spec

\* Every variable stays in its type; neither circular buffer is ever given more words
\* than it holds, whatever the lengths of requests and the answers of the ME.
THEOREM HeciTypeCorrect == Spec => []TypeOK
<1>1. Inv => TypeOK
  BY InvIs
<1> QED
  BY <1>1, InvHolds, PTL
-------------------------------------------------------------------------------
(***************************************************************************)
(* How requests are cut into packets.                                      *)
(***************************************************************************)
\* MessageComplete tells the last packet, unless that leaves one byte for another.
LEMMA CompleteIs ==
  ASSUME NEW left \in Nat \ {0}, left # Room + 1, complete = FALSE
  PROVE  MessageComplete(left) <=> SendLength(left) = left
<1>0. CBD \in Nat /\ CBD > 1 /\ Room = CBD * 4 - 4
  BY Constants DEF Room
<1>1. Words(left) \in Nat /\ left <= 4 * Words(left) /\ 4 * Words(left) <= left + 3
  BY WordsOf
<1>2. CASE CBD <= Words(left)
  <2>1. SendLength(left) = Room
    BY <1>2 DEF SendLength, Room
  <2>2. left # Room
    BY <1>0, <1>1, <1>2
  <2>3. ~(Words(left) = CBD /\ (left + 3) % 4 = 0)
    <3>1. SUFFICES ASSUME Words(left) = CBD, (left + 3) % 4 = 0 PROVE FALSE
      OBVIOUS
    <3>2. left + 3 = 4 * ((left + 3) \div 4)
      BY <3>1
    <3>3. left + 3 = 4 * CBD
      BY <3>1, <3>2 DEF Words
    <3> QED
      BY <1>0, <3>3
  <2> QED
    BY <1>0, <1>1, <1>2, <2>1, <2>2, <2>3 DEF MessageComplete
<1>3. CASE ~(CBD <= Words(left))
  BY <1>0, <1>1, <1>3 DEF MessageComplete, SendLength
<1> QED
  BY <1>2, <1>3

Splitting == Where \in SendAt \ {"sCheck"}

\* Cut through steps that write nothing, and where nothing is being split.
LEMMA CutKept ==
  ASSUME Cut, UNCHANGED <<op, cur, complete>>, pc # "pCheck", pc' # "pCheck", Splitting' => Splitting
  PROVE  Cut'
BY DEF Cut, Splitting

LEMMA CutOver == ASSUME ~Splitting' PROVE Cut'
BY DEF Cut, Splitting

\* Every attempt ends where nothing is split.
LEMMA EndedCut == ASSUME NEW s, EndAttempt(s) PROVE ~Splitting' /\ pc' \in {"idle", "sCheck", "retry"}
<1>1. pc' \in {"idle", "sCheck", "retry"}
  BY DEF EndAttempt, Return
<1> QED
  BY <1>1 DEF Splitting, Where, SendAt

\* Steps that are none of the host's.
LEMMA CutHost ==
  ASSUME Lengths, Inv, Cut, UNCHANGED host
  PROVE  Cut'
<1>1. UNCHANGED <<pc, after, op, cur, complete>>
  BY DEF host, xfer
<1> QED
  BY <1>1 DEF Cut, Where, SendLength, Words

LEMMA CheckForHeciResetCut == ASSUME CheckForHeciReset PROVE Cut'
<1>1. /\ cur' = 0 /\ complete' = FALSE
      /\ IF op.kind = "poll" /\ ~(hRdy /\ meRdy) THEN EndAttempt("DEVICE_ERROR")
         ELSE IF pc = "sCheck" THEN Goto(IF hRdy THEN "sReady" ELSE "sInit")
         ELSE Goto(IF hRdy THEN "rReady" ELSE "rInit")
  BY DEF CheckForHeciReset
<1>2. pc' # "pCheck"
  BY <1>1, EndedCut DEF Goto
<1>3. \E i \in Nat : cur' = Room * i
  <2>1. Room \in Int
    BY Constants DEF Room
  <2>2. cur' = Room * 0
    BY <1>1, <2>1
  <2> QED
    BY <2>2
<1> QED
  BY <1>1, <1>2, <1>3 DEF Cut

LEMMA HeciPacketWriteCut == ASSUME Lengths, Inv, Cut, HeciPacketWrite PROVE Cut'
<1> DEFINE left == op.len - cur
<1>1. /\ pc = "pRoom" /\ pc' = "pCheck" /\ complete' = MessageComplete(left) /\ UNCHANGED <<op, cur>>
  BY DEF HeciPacketWrite, Goto
<1>2. /\ op.len \in ReqLens /\ op.len \in Nat /\ cur \in Nat /\ left \in Nat \ {0}
  BY <1>1, AtPacket
<1>3. (\E i \in Nat : cur = Room * i) /\ complete = FALSE
  <2>1. Where \in SendAt \ {"sCheck"} /\ complete \in BOOLEAN
    BY <1>1 DEF Where, SendAt, Inv, HostInv, HostTypes
  <2> QED
    BY <1>1, <2>1 DEF Cut
<1>4. left # Room + 1
  <2>1. PICK i \in Nat : cur = Room * i
    BY <1>3
  <2>2. op.len # Room * (i + 1) + 1
    <3>1. SUFFICES ASSUME op.len = Room * (i + 1) + 1 PROVE FALSE
      OBVIOUS
    <3>2. Room \in Nat \ {0}
      BY Constants DEF Room
    <3>3. i + 1 <= Room * (i + 1)
      <4>1. \A r \in Nat \ {0}, n \in Nat : n <= r * n
        OBVIOUS
      <4> QED
        BY <3>2, <4>1
    <3>4. i + 1 \in 1..op.len
      BY <1>2, <3>1, <3>2, <3>3
    <3> QED
      BY <1>2, <3>1, <3>4 DEF Lengths
  <2>3. Room \in Int /\ Room * (i + 1) = Room * i + Room
    BY Constants DEF Room
  <2> QED
    BY <1>2, <2>1, <2>2, <2>3
<1>5. MessageComplete(left) <=> SendLength(left) = left
  <2> HIDE DEF left
  <2> QED
    BY <1>2, <1>3, <1>4, CompleteIs
<1>6. (SendLength(op.len - cur) = op.len - cur)' <=> SendLength(left) = left
  BY <1>1 DEF SendLength, Words
<1> QED
  BY <1>1, <1>3, <1>5, <1>6 DEF Cut

\* What PacketWritten does: it goes on with the next packet if and only if this one is not
\* marked complete.
LEMMA PacketWrittenCut ==
  ASSUME Inv, Cut, PacketWritten
  PROVE  /\ Cut'
         /\ meRdy /\ complete => /\ op.kind = "send" => EndAttempt("SUCCESS")
                                 /\ op.kind # "send" => Goto("rCheck")
         /\ meRdy /\ ~complete => /\ Goto("pReady") /\ cur' = cur + SendLength(op.len - cur)
         /\ ~meRdy => EndAttempt("DEVICE_ERROR")
<1> DEFINE left == op.len - cur
           sent == cur + SendLength(left)
<1>1. /\ pc = "pCheck" /\ UNCHANGED <<op, complete>> /\ cur' = (IF meRdy THEN sent ELSE cur)
      /\ IF ~meRdy THEN EndAttempt("DEVICE_ERROR")
         ELSE IF sent < op.len THEN Goto("pReady")
         ELSE IF op.kind = "send" THEN EndAttempt("SUCCESS")
         ELSE Goto("rCheck")
  BY DEF PacketWritten
<1>2. /\ op.len \in Nat /\ cur \in Nat /\ left \in Nat \ {0} /\ SendLength(left) \in 1..left
  BY <1>1, AtPacket
<1>3. (\E i \in Nat : cur = Room * i) /\ (complete <=> SendLength(left) = left) /\ complete \in BOOLEAN
  <2>1. Where \in SendAt \ {"sCheck"} /\ complete \in BOOLEAN
    BY <1>1 DEF Where, SendAt, Inv, HostInv, HostTypes
  <2> QED
    BY <1>1, <2>1 DEF Cut
<1>4. SendLength(left) = left \/ SendLength(left) = Room
  <2> HIDE DEF left
  <2> QED
    BY <1>2, SendSize
<1>5. sent < op.len <=> SendLength(left) # left
  BY <1>2
<1>6. meRdy /\ ~complete => Goto("pReady") /\ cur' = sent
  BY <1>1, <1>3, <1>5
<1>7. meRdy /\ complete => /\ op.kind = "send" => EndAttempt("SUCCESS")
                           /\ op.kind # "send" => Goto("rCheck")
  BY <1>1, <1>3, <1>5
<1>8. Cut'
  <2>1. CASE meRdy /\ ~complete
    <3>1. PICK i \in Nat : cur = Room * i
      BY <1>3
    <3>2. Room \in Int /\ Room * (i + 1) = Room * i + Room /\ i + 1 \in Nat
      BY Constants DEF Room
    <3>3. cur' = Room * (i + 1)
      BY <1>3, <1>4, <1>6, <2>1, <3>1, <3>2
    <3>4. pc' = "pReady" /\ complete' = FALSE
      BY <1>1, <1>3, <1>6, <2>1 DEF Goto
    <3> QED
      BY <3>2, <3>3, <3>4 DEF Cut
  <2>2. CASE ~(meRdy /\ ~complete)
    <3>1. pc' \in {"idle", "sCheck", "retry", "rCheck"}
      BY <1>1, <1>7, <2>2, EndedCut DEF Goto
    <3> QED
      BY <3>1 DEF Cut, Where, SendAt
  <2> QED
    BY <2>1, <2>2
<1> QED
  BY <1>1, <1>6, <1>7, <1>8

\* Where a wait leads to.
LEMMA AfterWaitCut ==
  ASSUME NEW at \in Waits, AfterWait[at] \in SendAt
  PROVE  at \in SendAt /\ at # "sCheck" /\ AfterWait[at] # "pCheck"
BY WaitsIs DEF SendAt

\* A wait is followed by the next wait, by a packet or by an answer.
LEMMA AfterWaitIs ==
  ASSUME NEW at \in Waits
  PROVE  AfterWait[at] \in {"sReady", "pReady", "pRoom", "rReady", "rHead"}
BY WaitsIs

\* Every step preserves Cut.
LEMMA CutNext == Lengths /\ Inv /\ Cut /\ [Next]_vars => Cut'
<1> SUFFICES ASSUME Lengths, Inv, Cut, [Next]_vars PROVE Cut'
  OBVIOUS
<1>1. ASSUME NEW s, EndAttempt(s) PROVE Cut'
  BY <1>1, EndedCut, CutOver
<1>2. ASSUME pc' \in {"idle", "control", "retry", "sCheck", "rCheck", "rHead", "rBody", "rDone"} PROVE Cut'
  BY <1>2 DEF Cut, Where, SendAt
<1>3. CASE CheckForHeciReset
  BY <1>3, CheckForHeciResetCut
<1>4. CASE NotAllowed \/ NeverEmptied \/ NoPacket
  BY <1>1, <1>4 DEF NotAllowed, NeverEmptied, NoPacket
<1>5. CASE NotReady
  BY <1>1, <1>5, WaitFailsAt DEF NotReady
<1>6. CASE HeciPacketWrite
  BY <1>6, HeciPacketWriteCut
<1>7. CASE PacketWritten
  BY <1>7, PacketWrittenCut
<1>8. CASE ReadHeader
  BY <1>1, <1>2, <1>8 DEF ReadHeader, Goto
<1>9. CASE ReadBody
  BY <1>2, <1>9 DEF ReadBody, Goto
<1>10. CASE PacketRead
  BY <1>1, <1>2, <1>10 DEF PacketRead, Goto
<1>11. CASE Ready
  <2>1. /\ pc \in Waits /\ pc' = AfterWait[pc] /\ UNCHANGED <<after, op, cur, complete>>
    BY <1>11 DEF Ready, Waits, Goto, xfer
  <2>2. pc \notin {"reset", "pCheck"} /\ pc' \notin {"reset", "pCheck"}
    BY <2>1, WaitsIs
  <2>3. Splitting' => Splitting
    BY <2>1, <2>2, AfterWaitCut DEF Splitting, Where
  <2> QED
    BY <2>1, <2>2, <2>3, CutKept
<1>12. CASE FinishReset
  <2>1. /\ pc = "reset" /\ UNCHANGED <<op, cur, complete>>
        /\ IF after = "user" THEN Return("SUCCESS")
           ELSE Goto(IF after = "retry" THEN First(op.kind) ELSE AfterWait[after])
    BY <1>12 DEF FinishReset, xfer
  <2>2. CASE after \in {"user", "retry"}
    <3>1. pc' \in {"idle", "sCheck", "rCheck"}
      BY <2>1, <2>2 DEF Return, Goto, First
    <3> QED
      BY <1>2, <3>1
  <2>3. CASE after \notin {"user", "retry"}
    <3>1. after \in Waits /\ pc' = AfterWait[after]
      BY <2>1, <2>3 DEF Inv, HostInv, HostTypes, Goto
    <3>2. pc' \notin {"reset", "pCheck"}
      BY <3>1, AfterWaitIs
    <3>3. Splitting' => Splitting
      BY <2>1, <3>1, <3>2, AfterWaitCut DEF Splitting, Where
    <3> QED
      BY <2>1, <3>2, <3>3, CutKept
  <2> QED
    BY <2>2, <2>3
<1>13. ASSUME NEW from, BeginReset(from), from = pc \/ from \in {"user", "retry"} PROVE Cut'
  <2>1. pc' = "reset" /\ after' = from /\ UNCHANGED <<op, cur, complete>>
    BY <1>13 DEF BeginReset, xfer
  <2>2. CASE from \in {"user", "retry"}
    BY <2>1, <2>2, WaitsIs DEF Cut, Where, SendAt
  <2>3. CASE from = pc /\ from \notin {"user", "retry"}
    <3>1. Splitting' => Splitting /\ pc # "pCheck"
      BY <2>1, <2>3, WaitsIs DEF Splitting, Where, SendAt
    <3>2. CASE Splitting'
      BY <2>1, <3>1, <3>2, CutKept
    <3> QED
      BY <3>2, CutOver
  <2> QED
    BY <1>13, <2>2, <2>3
<1>14. CASE RetryReset \/ ResetAsked \/ ControlReset
  BY <1>13, <1>14 DEF RetryReset, ResetAsked, ControlReset
<1>15. CASE ResetFails
  BY <1>1, <1>2, <1>15, WaitFailsAt DEF ResetFails, Return
<1>16. CASE MeResetWaitFails
  BY <1>2, <1>16 DEF MeResetWaitFails, Return
<1>17. CASE ME \/ UNCHANGED vars
  <2>1. UNCHANGED host
    BY <1>17 DEF ME, MeTake, MeAnswer, MeLose, MeWrite, MeReset, MeReady, vars, host
  <2> QED
    BY <2>1, CutHost
<1>18. CASE Request \/ Receive \/ Control
  BY <1>2, <1>18 DEF Request, Receive, Control
<1> QED
  BY <1>3, <1>4, <1>5, <1>6, <1>7, <1>8, <1>9, <1>10, <1>11, <1>12, <1>14, <1>15, <1>16, <1>17, <1>18
     DEF Next, Host

-------------------------------------------------------------------------------
(***************************************************************************)
(* How the ME puts requests together.                                      *)
(***************************************************************************)
\* A buffer, with one more packet.
Put(s, t, n) ==
  /\ t \in Seq(MsgWord) /\ n \in Nat /\ Len(t) = Len(s) + n + 1
  /\ \A k \in 1..Len(s) : t[k] = s[k]
  /\ t[Len(s) + 1].head /\ Words(t[Len(s) + 1].len) = n
  /\ \A k \in Len(s) + 2..Len(s) + n + 1 : ~t[k].head

\* A packet that is put at the end of a buffer is the last there, and the others stay.
LEMMA PutIs ==
  ASSUME NEW s \in Seq(MsgWord), Packed(s), NEW t, NEW n, Put(s, t, n)
  PROVE  /\ Len(s) \in Nat /\ Len(t) = Len(s) + n + 1 /\ n \in Nat
         /\ Next1(t, Len(s) + 1) = Len(t) + 1 /\ t[Len(s) + 1].head
         /\ \A k \in 1..Len(t) : t[k].head => k = Len(s) + 1 \/ k \in 1..Len(s)
         /\ \A k \in 1..Len(s) :
              /\ t[k] = s[k] /\ k \in 1..Len(t) /\ k # Len(s) + 1
              /\ s[k].head => /\ Next1(t, k) = Next1(s, k) /\ Next1(s, k) \in Nat \ {0}
                              /\ Next1(s, k) <= Len(t)
                              /\ Next1(s, k) \in 1..Len(s) \/ (Next1(s, k) > Len(s) /\ Next1(s, k) = Len(s) + 1)
<1>1. /\ Len(s) \in Nat /\ n \in Nat /\ Len(t) = Len(s) + n + 1
      /\ \A k \in 1..Len(s) : t[k] = s[k]
      /\ t[Len(s) + 1].head /\ Words(t[Len(s) + 1].len) = n
      /\ \A k \in Len(s) + 2..Len(s) + n + 1 : ~t[k].head
  BY NoneLeft DEF Put
<1>2. \A k \in 1..Len(s) : s[k].head =>
        Words(s[k].len) \in Nat /\ Next1(s, k) - 1 <= Len(s)
  BY NoneLeft, WordIs DEF Packed
<1> DEFINE l == Len(s)
<1> HIDE DEF l
<1>3. Next1(t, Len(s) + 1) = Len(t) + 1
  BY <1>1 DEF Next1
<1>4. \A k \in 1..Len(t) : t[k].head => k = Len(s) + 1 \/ k \in 1..Len(s)
  <2>1. \A k \in 1..Len(t) : k \in 1..Len(s) \/ k = Len(s) + 1 \/ k \in Len(s) + 2..Len(s) + n + 1
    BY <1>1
  <2> QED
    BY <1>1, <2>1
<1>5. ASSUME NEW k \in 1..Len(s)
      PROVE  t[k] = s[k] /\ k \in 1..Len(t) /\ k # Len(s) + 1
  BY <1>1
<1>6. ASSUME NEW k \in 1..Len(s), s[k].head
      PROVE  /\ Next1(t, k) = Next1(s, k) /\ Next1(s, k) \in Nat \ {0} /\ Next1(s, k) <= Len(t)
             /\ Next1(s, k) \in 1..Len(s) \/ (Next1(s, k) > Len(s) /\ Next1(s, k) = Len(s) + 1)
  <2>1. Next1(t, k) = Next1(s, k)
    BY <1>5 DEF Next1
  <2>2. Next1(s, k) = k + Words(s[k].len) + 1 /\ Words(s[k].len) \in Nat /\ Next1(s, k) - 1 <= Len(s)
    BY <1>2, <1>6 DEF Next1
  <2>3. Next1(s, k) \in Nat \ {0}
    BY <2>2
  <2> DEFINE x == Next1(s, k)
  <2>4. x \in Nat \ {0} /\ x - 1 <= l /\ l \in Nat /\ n \in Nat
    BY <1>1, <2>2, <2>3 DEF l
  <2> HIDE DEF x
  <2>5. x <= l + n + 1 /\ (x \in 1..l \/ (x > l /\ x = l + 1))
    BY <2>4
  <2> QED
    BY <1>1, <2>1, <2>3, <2>5 DEF x, l
<1> QED
  BY <1>1, <1>3, <1>4, <1>5, <1>6

\* If the packet continues what the ME will have, the buffer is still joined.
LEMMA JoinedPut ==
  ASSUME NEW s \in Seq(MsgWord), Packed(s), NEW t, NEW n, Put(s, t, n),
         NEW a, NEW o, NEW i, Joined(s, a), AtEnd(s, a, o, i),
         t[Len(s) + 1].off = o, t[Len(s) + 1].id = i, o \in Nat,
         t[Len(s) + 1].last => t[Len(s) + 1].off + t[Len(s) + 1].len = t[Len(s) + 1].want,
         NEW p, Leaves(t[Len(s) + 1], p, i)
  PROVE  Joined(t, a) /\ AtEnd(t, a, p, i)
<1> DEFINE l == Len(s)
           g == t[l + 1]
<1>1. /\ l \in Nat /\ Len(t) = l + n + 1 /\ n \in Nat /\ Next1(t, l + 1) = Len(t) + 1 /\ g.head
      /\ \A k \in 1..Len(t) : t[k].head => k = l + 1 \/ k \in 1..l
      /\ \A k \in 1..l : /\ t[k] = s[k] /\ k \in 1..Len(t) /\ k # l + 1
                         /\ s[k].head => /\ Next1(t, k) = Next1(s, k) /\ Next1(s, k) \in Nat \ {0}
                                         /\ Next1(s, k) <= Len(t)
                                         /\ \/ Next1(s, k) \in 1..l
                                            \/ Next1(s, k) > l /\ Next1(s, k) = l + 1
  BY PutIs
<1>2. l = 0 <=> s = <<>>
  BY NoneLeft
<1>3. /\ g.off = o /\ g.id = i /\ o \in Nat /\ (g.last => g.off + g.len = g.want)
      /\ Leaves(g, p, i)
  OBVIOUS
<1> HIDE DEF l, g
<1>4. Fits(t[1], a)
  <2>1. CASE l = 0
    <3>1. t[1] = g /\ AtEnd(s, a, o, i) /\ s = <<>>
      BY <1>2, <2>1 DEF g
    <3> QED
      BY <1>3, <3>1 DEF AtEnd, Fits
  <2>2. CASE l # 0
    <3>1. 1 \in 1..l /\ s # <<>>
      BY <1>1, <1>2, <2>2
    <3> QED
      BY <1>1, <3>1 DEF Joined
  <2> QED
    BY <2>1, <2>2
<1>5. ASSUME NEW k \in 1..Len(t), t[k].head
      PROVE  /\ t[k].last => t[k].off + t[k].len = t[k].want
             /\ Next1(t, k) <= Len(t) => Continues(t[k], t[Next1(t, k)])
             /\ Next1(t, k) > Len(t) => Leaves(t[k], p, i)
  <2>1. CASE k = l + 1
    <3>1. Next1(t, k) = Len(t) + 1 /\ t[k] = g /\ Len(t) \in Nat
      BY <1>1, <2>1 DEF g
    <3> QED
      BY <1>3, <3>1
  <2>2. CASE k \in 1..l
    <3>1. /\ t[k] = s[k] /\ s[k].head /\ Next1(t, k) = Next1(s, k) /\ ~(Next1(s, k) > Len(t))
          /\ s[k].last => s[k].off + s[k].len = s[k].want
      BY <1>1, <1>5, <2>2 DEF Joined, l
    <3>2. CASE Next1(s, k) \in 1..l
      <4>1. Next1(s, k) <= Len(s) /\ t[Next1(s, k)] = s[Next1(s, k)]
        BY <1>1, <3>2 DEF l
      <4>2. Continues(s[k], s[Next1(s, k)])
        BY <2>2, <3>1, <4>1 DEF Joined, l
      <4> QED
        BY <3>1, <4>1, <4>2
    <3>3. CASE Next1(s, k) > l /\ Next1(s, k) = l + 1
      <4>1. s # <<>> /\ AtEnd(s, a, o, i) /\ k \in 1..Len(s) /\ Next1(s, k) > Len(s)
        BY <1>2, <2>2, <3>3 DEF l
      <4>2. Leaves(s[k], o, i)
        BY <3>1, <4>1 DEF AtEnd
      <4>3. Continues(s[k], g)
        BY <1>3, <4>2 DEF Leaves, Continues
      <4> QED
        BY <3>1, <3>3, <4>3 DEF g
    <3> QED
      BY <1>1, <2>2, <3>1, <3>2, <3>3
  <2> QED
    BY <1>1, <1>5, <2>1, <2>2
<1>6. t # <<>>
  <2>1. Len(t) # 0
    BY <1>1
  <2> QED
    BY <2>1, NoneLeft DEF Put
<1> QED
  BY <1>4, <1>5, <1>6 DEF Joined, AtEnd

\* A position before and after a shift by n.
LEMMA Shorter ==
  ASSUME NEW l \in Nat, NEW n \in Nat, NEW m \in Nat, m = l - n,
         NEW x \in Nat \ {0}, NEW y \in Int, x = y - n
  PROVE  (x <= m => y <= l /\ x \in 1..m /\ x + n = y) /\ (x > m => y > l)
OBVIOUS

\* The first packet continues what the ME has, and with it the rest continues that.
LEMMA JoinedTake ==
  ASSUME NEW s \in Seq(MsgWord), Packed(s), s # <<>>, NEW t, NEW n, n = PacketSize(s[1]), n # 0,
         Shifted(s, t, n), NEW a, a.bytes \in Nat, NEW o, NEW i, Joined(s, a),
         NEW b, s[1].last => b = NoAsm,
         ~s[1].last => b = [id |-> s[1].id, bytes |-> a.bytes + s[1].len]
  PROVE  /\ Joined(t, b) /\ (AtEnd(s, a, o, i) => AtEnd(t, b, o, i))
         /\ Fits(s[1], a) /\ (s[1].last => s[1].off + s[1].len = s[1].want)
<1> DEFINE l == Len(s)
<1>1. /\ l \in Nat /\ n \in Nat /\ n <= l /\ Len(t) = l - n /\ Len(t) \in Nat
      /\ (t = <<>> <=> l - n = 0)
  BY NoneLeft DEF Shifted
<1>2. /\ \A k \in 1..Len(t) : k + n \in 1..l /\ t[k] = s[k + n]
      /\ \A k \in 1..Len(t) : t[k].head =>
           Next1(t, k) = Next1(s, k + n) - n /\ Next1(t, k) \in Nat \ {0}
      /\ Packed(t)
  BY PackedTake
<1>3. /\ s[1].head /\ 1 \in 1..l /\ Next1(s, 1) = n + 1
  <2>1. s[1].head /\ 1 \in 1..l
    BY NoneLeft DEF Packed
  <2>2. s[1] \in MsgWord
    BY <2>1, NoneLeft
  <2>3. Next1(s, 1) = n + 1
    BY <2>1, <2>2, WordIs DEF Next1, PacketSize
  <2> QED
    BY <2>1, <2>3
<1>4. Fits(s[1], a) /\ (s[1].last => s[1].off + s[1].len = s[1].want)
      /\ (n + 1 <= l => Continues(s[1], s[n + 1]))
  BY <1>3 DEF Joined, l
<1>5. s[1].len \in Nat /\ NoAsm.bytes = 0
  BY <1>3, NoneLeft, WordIs DEF NoAsm, l
<1>6. t # <<>> => Fits(t[1], b)
  <2>1. SUFFICES ASSUME t # <<>> PROVE Fits(t[1], b)
    OBVIOUS
  <2>2. n + 1 <= l /\ t[1] = s[n + 1]
    <3>1. l - n # 0 /\ 1 \in 1..Len(t) /\ 1 + n = n + 1
      BY <1>1, <2>1
    <3> QED
      BY <1>1, <1>2, <3>1
  <2>3. Continues(s[1], s[n + 1])
    BY <1>4, <2>2
  <2> QED
    BY <1>4, <1>5, <2>2, <2>3 DEF Continues, Fits
<1>7. ASSUME NEW k \in 1..Len(t), t[k].head
      PROVE  /\ t[k].last => t[k].off + t[k].len = t[k].want
             /\ Next1(t, k) <= Len(t) => Continues(t[k], t[Next1(t, k)])
             /\ AtEnd(s, a, o, i) /\ Next1(t, k) > Len(t) => Leaves(t[k], o, i)
  <2> DEFINE x == Next1(t, k)
             y == Next1(s, k + n)
  <2>1. /\ t[k] = s[k + n] /\ k + n \in 1..l /\ s[k + n].head /\ x = y - n /\ x \in Nat \ {0}
    BY <1>2, <1>7
  <2>2. y \in Int /\ (x <= Len(t) => y <= l /\ x \in 1..Len(t) /\ x + n = y) /\ (x > Len(t) => y > l)
    <3>1. y \in Int
      <4>1. s[k + n] \in MsgWord
        BY <2>1, NoneLeft DEF l
      <4> QED
        BY <2>1, <4>1, WordIs DEF Next1
    <3>2. /\ l \in Nat /\ n \in Nat /\ Len(t) = l - n /\ Len(t) \in Nat
          /\ x = y - n /\ x \in Nat \ {0}
      BY <1>1, <2>1
    <3> DEFINE m == Len(t)
    <3> HIDE DEF x, y, l, m
    <3>3. l \in Nat /\ n \in Nat /\ m = l - n /\ m \in Nat /\ x = y - n /\ x \in Nat \ {0}
      BY <3>2 DEF m
    <3>4. (x <= m => y <= l /\ x \in 1..m /\ x + n = y) /\ (x > m => y > l)
      BY <3>1, <3>3, Shorter
    <3> QED
      BY <3>1, <3>4 DEF m
  <2>3. t[k].last => t[k].off + t[k].len = t[k].want
    BY <2>1 DEF Joined, l
  <2>4. x <= Len(t) => Continues(t[k], t[x])
    <3>1. SUFFICES ASSUME x <= Len(t) PROVE Continues(t[k], t[x])
      OBVIOUS
    <3>2. t[x] = s[y] /\ y <= Len(s)
      BY <1>2, <2>2, <3>1 DEF l
    <3>3. Continues(s[k + n], s[y])
      BY <2>1, <3>2 DEF Joined, l
    <3> QED
      BY <2>1, <3>2, <3>3
  <2>5. AtEnd(s, a, o, i) /\ x > Len(t) => Leaves(t[k], o, i)
    BY <2>1, <2>2 DEF AtEnd, l
  <2> QED
    BY <2>3, <2>4, <2>5
<1>8. AtEnd(s, a, o, i) /\ t = <<>> => b.bytes = o /\ (o > 0 => b.id = i)
  <2>1. SUFFICES ASSUME AtEnd(s, a, o, i), t = <<>> PROVE b.bytes = o /\ (o > 0 => b.id = i)
    OBVIOUS
  <2>2. Next1(s, 1) > Len(s)
    BY <1>1, <1>3, <2>1
  <2>3. Leaves(s[1], o, i)
    BY <1>3, <2>1, <2>2 DEF AtEnd, l
  <2> QED
    BY <1>4, <1>5, <2>3 DEF Leaves, Fits
<1> QED
  BY <1>4, <1>6, <1>7, <1>8 DEF Joined, AtEnd

\* Which attempt it is does not matter where no message is half sent.
LEMMA AtEndZero ==
  ASSUME NEW s, NEW a, NEW i, NEW j, AtEnd(s, a, 0, i)
  PROVE  AtEnd(s, a, 0, j)
BY DEF AtEnd, Leaves

\* How many bytes of a message are written, by position.
LEMMA SentIs ==
  /\ pc \in {"sInit", "sReady", "pReady", "pRoom"} => Sent = cur
  /\ pc = "pCheck" => Sent = IF complete THEN 0 ELSE cur + SendLength(op.len - cur)
  /\ pc = "reset" /\ after \in {"sInit", "sReady", "pReady"} => Sent = cur
  /\ pc = "reset" /\ after \notin {"sInit", "sReady", "pReady"} => Sent = 0
  /\ pc \in {"idle", "control", "retry", "sCheck"} \union RecvAt => Sent = 0
BY WaitsIs DEF Sent, Where, RecvAt

\* After a reset there is nothing to be spoilt.
LEMMA WholeEmpty ==
  ASSUME Empty', asm' = NoAsm, Sent' = 0, meResets' = 0 => ~meRst'
  PROVE  Whole'
<1>1. h2m' = <<>> /\ owed' = <<>>
  BY DEF Empty, Quiet
<1>2. Len(<<>>) = 0 /\ 1..0 = {} /\ DOMAIN <<>> = {}
  OBVIOUS
<1>3. Joined(<<>>, NoAsm)
  BY <1>2 DEF Joined
<1>4. AtEnd(<<>>, NoAsm, 0, id')
  BY DEF AtEnd, NoAsm
<1> QED
  BY <1>1, <1>2, <1>3, <1>4 DEF Whole, Unspoilt

\* Whole through steps that write and take nothing.
LEMMA WholeKept ==
  ASSUME Whole, UNCHANGED <<meRst, h2m, asm, owed, meResets>>, ~dirty' => ~dirty,
         ~dirty' /\ pc' # "retry" => pc # "retry" /\ Sent' = Sent /\ (id' = id \/ Sent = 0)
  PROVE  Whole'
<1>1. SUFFICES ASSUME meResets = 0 PROVE ~meRst /\ (~dirty' => Unspoilt')
  BY DEF Whole
<1>2. ~meRst
  BY <1>1 DEF Whole
<1>3. ASSUME ~dirty' PROVE Unspoilt'
  <2>1. Unspoilt
    BY <1>1, <1>3 DEF Whole
  <2>2. pc' # "retry" => AtEnd(h2m, asm, Sent', id')
    BY <1>3, <2>1, AtEndZero DEF Unspoilt
  <2> QED
    BY <2>1, <2>2 DEF Unspoilt
<1> QED
  BY <1>2, <1>3

\* An attempt ends between messages, or fails in the middle of one, which ends in dirty or
\* before a retry.
LEMMA EndedWhole ==
  ASSUME Whole, NEW s, EndAttempt(s), UNCHANGED <<meRst, h2m, asm, owed, meResets, id>>,
         op.kind \notin Resets, pc # "retry",
         Sent = 0 \/ (s # "SUCCESS" /\ op.kind \in Senders /\ Sending)
  PROVE  Whole'
<1>1. pc' \in {"idle", "sCheck", "retry"}
  BY EndedCut
<1>2. Sent' = 0
  BY <1>1 DEF Sent, Where
<1>3. CASE Final(s)
  <2>1. ~dirty' => ~dirty /\ (s = "SUCCESS" \/ op.kind = "poll")
    BY <1>3 DEF EndAttempt, Return, Resets, NothingYet
  <2> QED
    BY <1>2, <2>1, WholeKept DEF Senders
<1>4. CASE ~Final(s)
  <2>1. dirty' = dirty /\ pc' = (IF op.kind = "ack" THEN "sCheck" ELSE "retry") /\ ~(op.kind = "ack" /\ Sending)
    BY <1>4 DEF EndAttempt, Final
  <2> QED
    BY <1>2, <2>1, WholeKept
<1> QED
  BY <1>3, <1>4

LEMMA FailedWhole ==
  ASSUME Inv, Whole, NEW s, EndAttempt(s), s # "SUCCESS", UNCHANGED <<meRst, h2m, asm, owed, meResets, id>>,
         op.kind \notin Resets, pc \notin {"idle", "control", "retry"}, pc = "reset" => after \in Waits
  PROVE  Whole'
<1>1. HostTypes /\ Place
  BY DEF Inv, HostInv
<1>2. CASE pc \in RecvAt \union {"sCheck"} \/ (pc = "reset" /\ after \in {"rInit", "rReady"})
  BY <1>2, SentIs, EndedWhole
<1>3. CASE ~(pc \in RecvAt \union {"sCheck"} \/ (pc = "reset" /\ after \in {"rInit", "rReady"}))
  <2>1. Sending /\ Where \in SendAt
    BY <1>1, <1>3, WaitsIs DEF HostTypes, Sending, Where, SendAt, RecvAt
  <2>2. op.kind \in Senders
    BY <1>1, <2>1 DEF Place
  <2> QED
    BY <2>1, <2>2, EndedWhole
<1> QED
  BY <1>2, <1>3

\* A reset in the middle of a message: that the ME asked for, or of an attempt that failed.
LEMMA BeginResetWhole ==
  ASSUME Inv, Whole, NEW from, BeginReset(from), from \in {"user", "retry"} \/ meRst
  PROVE  Whole'
<1>1. /\ pc' = "reset" /\ after' = from /\ UNCHANGED <<meResets, meRst>>
      /\ hRst => UNCHANGED <<h2m, m2h, me>>
      /\ ~hRst => Emptied
  BY DEF BeginReset, regs
<1>2. Empty' /\ asm' = NoAsm
  BY <1>1 DEF Inv, InReset, Empty, Quiet, Emptied, me
<1>3. CASE meRst
  BY <1>1, <1>3 DEF Whole
<1>4. CASE ~meRst
  <2>1. from \in {"user", "retry"}
    BY <1>4
  <2>2. Sent' = 0
    BY <1>1, <2>1, WaitsIs DEF Sent, Where
  <2> QED
    BY <1>1, <1>2, <1>4, <2>2, WholeEmpty
<1> QED
  BY <1>3, <1>4

LEMMA HeciPacketWriteWhole ==
  ASSUME Lengths, Inv, Cut, Whole, HeciPacketWrite, Cut'
  PROVE  Whole'
<1> DEFINE left == op.len - cur
           h == Header(id, SendLength(left), MessageComplete(left), op.len - left, op.len)
           n == Words(SendLength(left))
<1>0. World /\ HostTypes
  BY DEF Inv, HostInv
<1>1. /\ pc = "pRoom" /\ pc' = "pCheck" /\ UNCHANGED <<dirty, id, op, cur, asm, owed, meResets, meRst>>
      /\ h2m' = h2m \o Packet(left) /\ complete' = MessageComplete(left)
  BY DEF HeciPacketWrite, Goto, me, regs
<1>2. /\ op.len \in Nat /\ left \in Nat \ {0} /\ left <= op.len /\ op.len - left = cur /\ cur \in Nat
      /\ SendLength(left) \in 1..left /\ cur + left = op.len
  BY <1>1, AtPacket
<1>3. SUFFICES ASSUME meResets = 0, ~dirty PROVE Unspoilt'
  BY <1>1 DEF Whole
<1>4. Unspoilt /\ Sent = cur
  BY <1>1, <1>3, SentIs DEF Whole
<1>5. Sent' = IF complete' THEN 0 ELSE cur + SendLength(left)
  <2>1. (SendLength(op.len - cur) = SendLength(left))'
    OBVIOUS
  <2>2. SendLength(op.len - cur)' = SendLength(left)
    BY <1>1 DEF SendLength, Words
  <2>3. Where' = "pCheck"
    BY <1>1 DEF Where
  <2> QED
    BY <1>1, <2>2, <2>3 DEF Sent
<1>6. complete' => SendLength(left) = left
  <2>1. Where' \in SendAt \ {"sCheck"}
    BY <1>1 DEF Where, SendAt
  <2>2. (complete <=> pc = "pCheck" /\ SendLength(op.len - cur) = op.len - cur)'
    BY <2>1 DEF Cut
  <2>3. SendLength(op.len - cur)' = SendLength(left) /\ (op.len - cur)' = left
    BY <1>1 DEF SendLength, Words
  <2> QED
    BY <2>2, <2>3
<1> HIDE DEF left
<1>7. /\ h2m \in Seq(MsgWord) /\ Packed(h2m) /\ id \in Ids /\ complete \in BOOLEAN
  BY <1>0 DEF World, Contents, HostTypes
<1>8. /\ h2m' \in Seq(MsgWord) /\ Len(h2m') = Len(h2m) + n + 1 /\ Len(h2m) \in Nat /\ n \in Nat
      /\ \A k \in 1..Len(h2m) : h2m'[k] = h2m[k]
      /\ h2m'[Len(h2m) + 1] = h
      /\ \A k \in Len(h2m) + 2..Len(h2m) + n + 1 : h2m'[k] = Body(id)
  BY <1>1, <1>2, <1>7, Written
<1>9. Put(h2m, h2m', n)
  <2>1. h.head /\ Words(h.len) = n /\ ~Body(id).head
    BY DEF Header, Body
  <2> HIDE DEF h, n
  <2> QED
    BY <1>8, <2>1 DEF Put
<1>10. /\ h.off = cur /\ h.id = id /\ h.len = SendLength(left) /\ h.want = op.len
       /\ h.last = complete'
  BY <1>1, <1>2 DEF Header
<1> HIDE DEF h, n
<1>11. Leaves(h, Sent', id)
  BY <1>2, <1>5, <1>10 DEF Leaves
<1>12. h.last => h.off + h.len = h.want
  BY <1>2, <1>6, <1>10
<1>13. Joined(h2m, asm) /\ AtEnd(h2m, asm, cur, id)
  BY <1>1, <1>4 DEF Unspoilt
<1>14. Joined(h2m', asm) /\ AtEnd(h2m', asm, Sent', id)
  <2> DEFINE g == h2m'[Len(h2m) + 1]
             p == Sent'
  <2>1. g.off = cur /\ g.id = id /\ (g.last => g.off + g.len = g.want) /\ Leaves(g, p, id)
    BY <1>8, <1>10, <1>11, <1>12
  <2>2. cur \in Nat
    BY <1>2
  <2> HIDE DEF p
  <2>3. Joined(h2m', asm) /\ AtEnd(h2m', asm, p, id)
    BY <1>7, <1>9, <1>13, <2>1, <2>2, JoinedPut
  <2> QED
    BY <2>3 DEF p
<1> QED
  BY <1>1, <1>4, <1>14 DEF Unspoilt

LEMMA MeTakeWhole ==
  ASSUME Inv, Whole, MeTake
  PROVE  Whole'
<1> DEFINE h == Head(h2m)
           fits == h.off = asm.bytes /\ (h.off > 0 => h.id = asm.id)
<1>0. h2m \in Seq(MsgWord) /\ Packed(h2m) /\ asm.bytes \in Nat /\ owed \in Seq([id : Ids, whole : BOOLEAN])
  BY DEF Inv, World, Contents
<1>1. /\ h2m # <<>> /\ h2m' = SubSeq(h2m, Words(Head(h2m).len) + 2, Len(h2m))
      /\ h.last => owed' = Append(owed, [id |-> h.id, whole |-> fits /\ h.off + h.len = h.want]) /\ asm' = NoAsm
      /\ ~h.last => asm' = [id |-> h.id, bytes |-> asm.bytes + h.len] /\ UNCHANGED owed
      /\ UNCHANGED <<meRst, meResets, host>>
  BY DEF MeTake, regs
<1>2. UNCHANGED <<pc, after, op, id, cur, complete, dirty>>
  BY <1>1 DEF host, xfer
<1>3. SUFFICES ASSUME meResets = 0, ~dirty PROVE Unspoilt'
  BY <1>1, <1>2 DEF Whole
<1>4. Unspoilt
  BY <1>3 DEF Whole
<1>5. /\ h = h2m[1] /\ PacketSize(h2m[1]) # 0 /\ Shifted(h2m, h2m', PacketSize(h2m[1]))
  BY <1>0, <1>1, TakenIs
<1>6. Sent' = Sent
  BY <1>2 DEF Sent, Where, SendLength, Words
<1>7. Joined(h2m, asm) /\ \A k \in DOMAIN owed : owed[k].whole
  BY <1>4 DEF Unspoilt
<1>8. /\ Joined(h2m', asm') /\ Fits(h2m[1], asm)
      /\ h2m[1].last => h2m[1].off + h2m[1].len = h2m[1].want
      /\ pc # "retry" => AtEnd(h2m', asm', Sent, id)
  <2>1. /\ h2m[1].last => asm' = NoAsm
        /\ ~h2m[1].last => asm' = [id |-> h2m[1].id, bytes |-> asm.bytes + h2m[1].len]
    BY <1>1, <1>5
  <2>2. ASSUME NEW o, NEW i
        PROVE  /\ Joined(h2m', asm') /\ Fits(h2m[1], asm)
               /\ AtEnd(h2m, asm, o, i) => AtEnd(h2m', asm', o, i)
               /\ h2m[1].last => h2m[1].off + h2m[1].len = h2m[1].want
    BY <1>0, <1>1, <1>5, <1>7, <2>1, JoinedTake
  <2> QED
    BY <1>4, <2>2 DEF Unspoilt
<1>9. \A k \in DOMAIN owed' : owed'[k].whole
  <2>1. CASE h.last
    <3> DEFINE e == [id |-> h.id, whole |-> fits /\ h.off + h.len = h.want]
    <3>1. fits /\ h.off + h.len = h.want
      BY <1>5, <1>8, <2>1 DEF Fits
    <3>2. e.whole /\ owed' = Append(owed, e)
      BY <1>1, <2>1, <3>1
    <3> HIDE DEF e
    <3>3. Len(owed) \in Nat /\ DOMAIN owed = 1..Len(owed)
      BY <1>0, LenProperties
    <3>4. /\ DOMAIN owed' = 1..Len(owed) + 1
          /\ \A k \in 1..Len(owed) : owed'[k] = owed[k]
          /\ owed'[Len(owed) + 1] = e
      BY <1>0, <3>2, <3>3
    <3> QED
      BY <1>7, <3>2, <3>3, <3>4
  <2>2. CASE ~h.last
    BY <1>1, <1>7, <2>2
  <2> QED
    BY <2>1, <2>2
<1> QED
  BY <1>2, <1>6, <1>8, <1>9 DEF Unspoilt

\* Every step preserves Whole.
LEMMA WholeNext == Lengths /\ Inv /\ Cut /\ Whole /\ [Next]_vars => Whole'
<1> SUFFICES ASSUME Lengths, Inv, Cut, Whole, [Next]_vars PROVE Whole'
  OBVIOUS
<1>0. Cut' /\ World /\ HostTypes /\ Place /\ InReset
  BY CutNext DEF Inv, HostInv
<1>1. CASE CheckForHeciReset
  <2>1. /\ pc \in {"sCheck", "rCheck"} /\ cur' = 0 /\ UNCHANGED <<meRst, h2m, asm, owed, meResets, op>>
        /\ id' = (IF pc = "sCheck" THEN [id EXCEPT !.try = @ + 1] ELSE id)
        /\ IF op.kind = "poll" /\ ~(hRdy /\ meRdy) THEN EndAttempt("DEVICE_ERROR")
           ELSE IF pc = "sCheck" THEN Goto(IF hRdy THEN "sReady" ELSE "sInit")
           ELSE Goto(IF hRdy THEN "rReady" ELSE "rInit")
    BY <1>1 DEF CheckForHeciReset, me, regs
  <2>2. Sent = 0
    BY <2>1, SentIs DEF RecvAt
  <2>3. CASE op.kind = "poll" /\ ~(hRdy /\ meRdy)
    <3>1. pc = "rCheck" /\ op.kind \notin Resets
      BY <1>0, <2>1, <2>3 DEF Place, Where, SendAt, Senders, Resets
    <3> QED
      BY <2>1, <2>2, <2>3, <3>1, EndedWhole
  <2>4. CASE ~(op.kind = "poll" /\ ~(hRdy /\ meRdy))
    <3>1. dirty' = dirty /\ pc' \in {"sInit", "sReady", "rInit", "rReady"}
      BY <2>1, <2>4 DEF Goto
    <3>2. Sent' = 0
      BY <2>1, <3>1 DEF Sent, Where
    <3> QED
      BY <2>1, <2>2, <3>1, <3>2, WholeKept
  <2> QED
    BY <2>3, <2>4
<1>2. CASE NotAllowed \/ NeverEmptied
  <2>1. PICK s \in {"UNSUPPORTED", "TIMEOUT"} :
          /\ pc \in {"sCheck", "pRoom"} /\ EndAttempt(s) /\ UNCHANGED <<meRst, h2m, asm, owed, meResets, id>>
    BY <1>2 DEF NotAllowed, NeverEmptied, me, regs
  <2>2. op.kind \notin Resets
    BY <1>0, <2>1 DEF Place, Where, SendAt, Senders, Resets
  <2> QED
    BY <2>1, <2>2, FailedWhole
<1>3. CASE NoPacket
  <2>1. /\ pc \in {"rHead", "rBody"} /\ UNCHANGED <<meRst, h2m, asm, owed, meResets, id>>
        /\ \E s \in {"NO_RESPONSE", "TIMEOUT"} : EndAttempt(s)
    BY <1>3 DEF NoPacket, me, regs
  <2>2. PICK s \in {"NO_RESPONSE", "TIMEOUT"} : EndAttempt(s)
    BY <2>1
  <2>3. op.kind \notin Resets
    BY <2>1, AtRead
  <2> QED
    BY <2>1, <2>2, <2>3, FailedWhole
<1>4. CASE NotReady
  <2>1. /\ pc \in Waits /\ WaitFails(pc) /\ UNCHANGED <<meRst, h2m, asm, owed, meResets, id>>
    BY <1>4 DEF NotReady, Waits, me, regs
  <2>2. PICK s \in {"DEVICE_ERROR", "TIMEOUT"} : EndAttempt(s)
    BY <2>1, WaitFailsAt
  <2>3. op.kind \notin Resets /\ pc \notin {"idle", "control", "retry", "reset"}
    BY <2>1, AtWait
  <2> QED
    BY <2>1, <2>2, <2>3, FailedWhole
<1>5. CASE Ready
  <2>1. /\ pc \in Waits /\ pc' = AfterWait[pc] /\ UNCHANGED <<dirty, id, cur, meRst, h2m, asm, owed, meResets>>
    BY <1>5 DEF Ready, Waits, Goto, me, xfer
  <2>2. Sent' = Sent /\ pc # "retry"
    BY <2>1, WaitsIs DEF Sent, Where
  <2> QED
    BY <2>1, <2>2, WholeKept
<1>6. CASE ResetAsked
  <2>1. meRst /\ BeginReset(pc)
    BY <1>6 DEF ResetAsked
  <2> QED
    BY <2>1, BeginResetWhole
<1>7. CASE HeciPacketWrite
  BY <1>0, <1>7, HeciPacketWriteWhole
<1>8. CASE PacketWritten
  <2>1. /\ pc = "pCheck" /\ op.kind \in Senders /\ op.kind \notin Resets
        /\ UNCHANGED <<meRst, h2m, asm, owed, meResets, op, id, complete>>
    BY <1>8, AtPacket DEF PacketWritten, me, regs
  <2>2. /\ meRdy /\ complete => /\ op.kind = "send" => EndAttempt("SUCCESS")
                                /\ op.kind # "send" => Goto("rCheck")
        /\ meRdy /\ ~complete => /\ Goto("pReady") /\ cur' = cur + SendLength(op.len - cur)
        /\ ~meRdy => EndAttempt("DEVICE_ERROR")
    BY <1>8, PacketWrittenCut
  <2>3. Sent = IF complete THEN 0 ELSE cur + SendLength(op.len - cur)
    BY <2>1, SentIs
  <2>4. CASE meRdy /\ complete
    <3>1. CASE op.kind = "send"
      BY <2>1, <2>2, <2>3, <2>4, <3>1, EndedWhole
    <3>2. CASE op.kind # "send"
      <4>1. pc' = "rCheck" /\ dirty' = dirty
        BY <2>2, <2>4, <3>2 DEF Goto
      <4>2. Sent' = 0
        BY <4>1 DEF Sent, Where
      <4> QED
        BY <2>1, <2>3, <2>4, <4>1, <4>2, WholeKept
    <3> QED
      BY <3>1, <3>2
  <2>5. CASE meRdy /\ ~complete
    <3>1. pc' = "pReady" /\ dirty' = dirty
      BY <2>2, <2>5 DEF Goto
    <3>2. Sent' = cur'
      BY <3>1 DEF Sent, Where
    <3> QED
      BY <2>1, <2>2, <2>3, <2>5, <3>1, <3>2, WholeKept
  <2>6. CASE ~meRdy
    BY <2>1, <2>2, <2>6, FailedWhole
  <2> QED
    BY <2>4, <2>5, <2>6
<1>9. CASE ReadHeader \/ ReadBody \/ PacketRead
  <2>1. /\ pc \in {"rHead", "rBody", "rDone"} /\ UNCHANGED <<meRst, h2m, asm, owed, meResets, id>>
        /\ (\E s : EndAttempt(s)) \/ (\E p \in {"rDone", "rBody", "rHead"} : Goto(p))
    <3>1. CASE ReadHeader
      BY <3>1 DEF ReadHeader, me, regs
    <3>2. CASE ReadBody
      BY <3>2 DEF ReadBody, me, regs
    <3>3. CASE PacketRead
      BY <3>3 DEF PacketRead, me, regs
    <3> QED
      BY <1>9, <3>1, <3>2, <3>3
  <2>2. op.kind \notin Resets /\ Sent = 0
    BY <2>1, AtRead, SentIs DEF RecvAt
  <2>3. ASSUME NEW p \in {"rDone", "rBody", "rHead"}, Goto(p) PROVE Whole'
    <3>1. dirty' = dirty /\ pc' = p
      BY <2>3 DEF Goto
    <3>2. Sent' = 0
      BY <3>1 DEF Sent, Where
    <3> QED
      BY <2>1, <2>2, <3>1, <3>2, WholeKept
  <2>4. ASSUME NEW s, EndAttempt(s) PROVE Whole'
    BY <2>1, <2>2, <2>4, EndedWhole
  <2> QED
    BY <2>1, <2>3, <2>4
<1>10. CASE RetryReset \/ ControlReset
  BY <1>10, BeginResetWhole DEF RetryReset, ControlReset
<1>11. CASE FinishReset
  <2>1. /\ pc = "reset" /\ UNCHANGED <<meRst, h2m, asm, owed, meResets, op, id, cur>>
        /\ IF after = "user" THEN Return("SUCCESS")
           ELSE Goto(IF after = "retry" THEN First(op.kind) ELSE AfterWait[after])
    BY <1>11 DEF FinishReset, xfer, me
  <2>2. CASE after \in {"user", "retry"}
    <3>1. pc' \in {"idle", "sCheck", "rCheck"} /\ (~dirty' => ~dirty)
      BY <2>1, <2>2 DEF Return, Goto, First
    <3>2. Sent = 0 /\ Sent' = 0
      BY <2>1, <2>2, <3>1, SentIs DEF Sent, Where
    <3> QED
      BY <2>1, <3>1, <3>2, WholeKept
  <2>3. CASE after \notin {"user", "retry"}
    <3>1. after \in Waits /\ pc' = AfterWait[after] /\ dirty' = dirty
      BY <1>0, <2>1, <2>3 DEF HostTypes, Goto
    <3>2. Sent' = Sent
      BY <2>1, <3>1, WaitsIs DEF Sent, Where
    <3> QED
      BY <2>1, <3>1, <3>2, WholeKept
  <2> QED
    BY <2>2, <2>3
<1>12. CASE ResetFails
  <2>1. /\ pc = "reset" /\ UNCHANGED <<meRst, h2m, asm, owed, meResets, op, id>>
        /\ IF after \in Waits THEN WaitFails(after) ELSE \E s \in {"TIMEOUT", "DEVICE_ERROR"} : Return(s)
    BY <1>12 DEF ResetFails, Waits, me, regs
  <2>2. CASE after \in Waits
    <3>1. PICK s \in {"DEVICE_ERROR", "TIMEOUT"} : EndAttempt(s)
      BY <2>1, <2>2, WaitFailsAt
    <3>2. op.kind \notin Resets
      BY <1>0, <2>1, <2>2, WaitsIs DEF Place
    <3> QED
      BY <2>1, <2>2, <3>1, <3>2, FailedWhole
  <2>3. CASE after \notin Waits
    <3>1. pc' = "idle" /\ (~dirty' => ~dirty)
      BY <2>1, <2>3 DEF Return
    <3>2. Sent = 0 /\ Sent' = 0
      BY <2>1, <2>3, <3>1, WaitsIs, SentIs DEF Sent, Where
    <3> QED
      BY <2>1, <3>1, <3>2, WholeKept
  <2> QED
    BY <2>2, <2>3
<1>13. CASE MeResetWaitFails
  <2>1. /\ pc = "control" /\ pc' = "idle" /\ (~dirty' => ~dirty) /\ UNCHANGED <<meRst, h2m, asm, owed, meResets, id>>
    BY <1>13 DEF MeResetWaitFails, Return, me, regs
  <2>2. Sent = 0 /\ Sent' = 0
    BY <2>1 DEF Sent, Where
  <2> QED
    BY <2>1, <2>2, WholeKept
<1>14. CASE Request \/ Receive \/ Control
  <2>1. /\ pc = "idle" /\ pc' \in {"sCheck", "rCheck", "control"} /\ dirty' = dirty
        /\ UNCHANGED <<meRst, h2m, asm, owed, meResets>>
    BY <1>14 DEF Request, Receive, Control, Begin, me, regs
  <2>2. Sent = 0 /\ Sent' = 0
    BY <2>1 DEF Sent, Where
  <2> QED
    BY <2>1, <2>2, WholeKept
<1>15. CASE MeTake
  BY <1>15, MeTakeWhole
<1>16. CASE MeAnswer \/ MeLose
  <2>1. /\ owed # <<>> /\ owed' = Tail(owed) /\ UNCHANGED <<meRst, h2m, asm, meResets, host>>
    BY <1>16 DEF MeAnswer, MeLose, regs
  <2>2. UNCHANGED <<pc, after, op, id, cur, complete, dirty>>
    BY <2>1 DEF host, xfer
  <2>3. Sent' = Sent
    BY <2>2 DEF Sent, Where, SendLength, Words
  <2>4. (\A k \in DOMAIN owed : owed[k].whole) => \A k \in DOMAIN owed' : owed'[k].whole
    <3> DEFINE S == [id : Ids, whole : BOOLEAN]
    <3>1. owed \in Seq(S)
      BY <1>0 DEF World, Contents
    <3> HIDE DEF S
    <3>2. /\ owed' \in Seq(S) /\ Len(owed') = Len(owed) - 1 /\ Len(owed) \in Nat \ {0}
          /\ \A k \in 1..Len(owed) - 1 : owed'[k] = owed[k + 1]
      BY <2>1, <3>1, TailIs
    <3>3. DOMAIN owed' = 1..Len(owed) - 1 /\ DOMAIN owed = 1..Len(owed)
      BY <3>1, <3>2, LenProperties
    <3>4. \A k \in 1..Len(owed) - 1 : k + 1 \in 1..Len(owed)
      BY <3>2
    <3> QED
      BY <3>2, <3>3, <3>4
  <2> QED
    BY <2>1, <2>2, <2>3, <2>4 DEF Whole, Unspoilt
<1>17. CASE MeWrite \/ MeReady \/ UNCHANGED vars
  <2>1. UNCHANGED <<h2m, asm, owed, meResets, host>> /\ (meRst' = meRst \/ meRst' = FALSE)
    BY <1>17 DEF MeWrite, MeReady, vars, host, me, regs
  <2>2. UNCHANGED <<pc, after, op, id, cur, complete, dirty>>
    BY <2>1 DEF host, xfer
  <2>3. Sent' = Sent
    BY <2>2 DEF Sent, Where, SendLength, Words
  <2> QED
    BY <2>1, <2>2, <2>3 DEF Whole, Unspoilt
<1>18. CASE MeReset
  <2>1. meResets' # 0
    <3>1. meResets \in Nat /\ meResets' = meResets + 1
      BY <1>0, <1>18, Constants DEF MeReset, World
    <3> QED
      BY <3>1
  <2> QED
    BY <2>1 DEF Whole
<1> QED
  BY <1>1, <1>2, <1>3, <1>4, <1>5, <1>6, <1>7, <1>8, <1>9, <1>10, <1>11, <1>12, <1>13, <1>14, <1>15,
     <1>16, <1>17, <1>18 DEF Next, Host, ME

\* The invariants of requests are ones.
LEMMA WholeHolds == ASSUME Lengths PROVE Spec => [](Inv /\ Cut /\ Whole)
<1>1. Init => Inv /\ Cut /\ Whole
  <2> SUFFICES ASSUME Init PROVE Inv /\ Cut /\ Whole
    OBVIOUS
  <2>1. Inv
    BY InitInv
  <2>2. pc = "idle"
    BY DEF Init
  <2>3. Cut
    BY <2>2 DEF Cut, Where, SendAt
  <2>4. Sent = 0
    BY <2>2 DEF Sent, Where
  <2>5. Whole
    BY <2>4 DEF Init, Whole, Unspoilt, Joined, AtEnd, NoAsm
  <2> QED
    BY <2>1, <2>3, <2>5
<1>2. Inv /\ Cut /\ Whole /\ [Next]_vars => (Inv /\ Cut /\ Whole)'
  BY NextInv, CutNext, WholeNext
<1> QED
  BY <1>1, <1>2, PTL DEF Spec

\* The ME gets every message whole, from its first byte to its last, whatever its length
\* (but see Lengths) and however many packets it takes, as long as no operation has failed
\* since the last reset and the ME has not begun one itself.
THEOREM HeciWholeRequests == ASSUME Lengths PROVE Spec => []WholeRequests
<1>1. Whole => WholeRequests
  BY DEF Whole, Unspoilt, WholeRequests
<1> QED
  BY <1>1, WholeHolds, PTL
-------------------------------------------------------------------------------
(***************************************************************************)
(* How answers are read.                                                   *)
(***************************************************************************)
LEMMA PastIs ==
  ASSUME NEW s \in Seq(MsgWord), NEW k \in 1..Len(s), s[k].head
  PROVE  s[k].len \in Nat /\ Past(s, k) \in Nat \ {0} /\ Past(s, k) > k
<1>1. s[k].len \in Nat /\ k \in Nat \ {0}
  BY NoneLeft, WordIs
<1> QED
  BY <1>1 DEF Past

\* The packets of an answer from one of them on, in a shorter sequence.
LEMMA PacketsShift ==
  ASSUME NEW s \in Seq(MsgWord), NEW t, NEW n, Shifted(s, t, n), NEW f \in Nat, n < f, NEW off,
         Packets(s, f, off)
  PROVE  Packets(t, f - n, off)
<1> DEFINE l == Len(s)
<1>1. /\ l \in Nat /\ n \in Nat /\ n <= l /\ Len(t) = l - n
      /\ \A k \in 1..l - n : t[k] = s[k + n]
  BY NoneLeft DEF Shifted
<1>2. f \in Nat /\ n < f
  OBVIOUS
<1> HIDE DEF l
<1>3. f - n <= Len(t) => t[f - n].head /\ t[f - n].off = off
  <2>1. SUFFICES ASSUME f - n <= Len(t) PROVE t[f - n].head /\ t[f - n].off = off
    OBVIOUS
  <2>2. f <= l /\ f - n \in 1..l - n /\ f - n + n = f
    BY <1>1, <1>2, <2>1
  <2>3. s[f].head /\ s[f].off = off
    BY <2>2 DEF Packets, l
  <2> QED
    BY <1>1, <2>2, <2>3
<1>4. ASSUME NEW k \in f - n..Len(t), t[k].head
      PROVE  /\ Past(t, k) - 1 <= Len(t) /\ \A j \in k + 1..Past(t, k) - 1 : ~t[j].head
             /\ t[k].last <=> Past(t, k) > Len(t)
             /\ Past(t, k) <= Len(t) => t[Past(t, k)].head /\ t[Past(t, k)].off = t[k].off + t[k].len
  <2> DEFINE y == Past(s, k + n)
             x == Past(t, k)
  <2>1. k \in 1..l - n /\ k + n \in f..l /\ k + n \in 1..l /\ t[k] = s[k + n] /\ k \in Nat
    <3>1. k \in 1..l - n /\ k + n \in f..l /\ k + n \in 1..l /\ k \in Nat
      BY <1>1, <1>2
    <3> QED
      BY <1>1, <3>1
  <2>2. s[k + n].head /\ s[k + n].len \in Nat
    BY <1>4, <2>1, PastIs DEF l
  <2>3. /\ y - 1 <= l /\ \A j \in k + n + 1..y - 1 : ~s[j].head
        /\ s[k + n].last <=> y > l
        /\ y <= l => s[y].head /\ s[y].off = s[k + n].off + s[k + n].len
    BY <2>1, <2>2 DEF Packets, l
  <2>4. x = k + s[k + n].len + 1 /\ y = k + n + s[k + n].len + 1
    BY <2>1 DEF Past
  <2>5. x \in Nat /\ y \in Nat /\ x + n = y
    <3> DEFINE w == s[k + n].len
    <3>1. w \in Nat /\ k \in Nat /\ n \in Nat
      BY <1>1, <2>1, <2>2
    <3>2. x = k + w + 1 /\ y = k + n + w + 1
      BY <2>4
    <3> HIDE DEF w, x, y
    <3>3. k + w + 1 \in Nat /\ k + n + w + 1 \in Nat /\ k + w + 1 + n = k + n + w + 1
      BY <3>1
    <3> QED
      BY <3>2, <3>3
  <2> HIDE DEF x, y
  <2>6. /\ x - 1 <= l - n /\ (y > l <=> x > l - n) /\ (x <= l - n => x \in 1..l - n /\ y <= l)
        /\ \A j \in k + 1..x - 1 : j \in 1..l - n /\ j + n \in k + n + 1..y - 1
    <3>1. x > k
      BY <2>1, <2>2, <2>4
    <3>2. x - 1 <= l - n /\ (y > l <=> x > l - n) /\ (x <= l - n => x \in 1..l - n /\ y <= l)
      BY <1>1, <2>1, <2>3, <2>5, <3>1
    <3>3. \A j \in k + 1..x - 1 : j \in 1..l - n /\ j + n \in k + n + 1..y - 1
      BY <1>1, <2>1, <2>5, <3>2
    <3> QED
      BY <3>2, <3>3
  <2>7. \A j \in k + 1..x - 1 : ~t[j].head
    BY <1>1, <2>3, <2>6
  <2>8. x <= l - n => t[x].head /\ t[x].off = t[k].off + t[k].len
    BY <1>1, <2>1, <2>3, <2>5, <2>6
  <2> QED
    BY <1>1, <2>1, <2>3, <2>6, <2>7, <2>8 DEF x
<1> QED
  BY <1>3, <1>4 DEF Packets

\* The header of an answer is read.
LEMMA HeaderGone ==
  ASSUME NEW s \in Seq(MsgWord), s # <<>>, NEW t, Shifted(s, t, 1), NEW i, NEW off \in Nat,
         AnswerTo(i, s, 0, off)
  PROVE  /\ s[1].head /\ s[1].off = off /\ s[1].id = i /\ s[1].len \in Nat
         /\ AnswerTo(i, t, s[1].len, off + s[1].len)
         /\ s[1].last => Len(t) = s[1].len
<1>1. /\ Len(s) \in Nat \ {0} /\ Len(t) = Len(s) - 1 /\ 1 \in 1..Len(s)
      /\ \A k \in 1..Len(s) - 1 : t[k] = s[k + 1] /\ k + 1 \in 1..Len(s)
  BY NoneLeft DEF Shifted
<1>2. Packets(s, 1, off) /\ \A k \in 1..Len(s) : s[k].id = i
  BY DEF AnswerTo
<1>3. s[1].head /\ s[1].off = off /\ s[1].id = i
  BY <1>1, <1>2 DEF Packets
<1>4. s[1].len \in Nat /\ Past(s, 1) = s[1].len + 2
  <2>1. s[1].len \in Nat
    BY <1>1, <1>3, PastIs
  <2> QED
    BY <2>1 DEF Past
<1>5. /\ Past(s, 1) - 1 <= Len(s) /\ \A j \in 2..Past(s, 1) - 1 : ~s[j].head
      /\ s[1].last <=> Past(s, 1) > Len(s)
      /\ Past(s, 1) <= Len(s) => s[Past(s, 1)].head /\ s[Past(s, 1)].off = off + s[1].len
  BY <1>1, <1>2, <1>3 DEF Packets
<1> DEFINE n == s[1].len
           f == n + 2
<1>6. Packets(s, f, off + n)
  <2>1. f <= Len(s) => s[f].head /\ s[f].off = off + n
    BY <1>4, <1>5
  <2>2. \A k \in f..Len(s) : k \in 1..Len(s)
    BY <1>1, <1>4
  <2> QED
    BY <1>2, <2>1, <2>2 DEF Packets
<1>7. f \in Nat /\ 1 < f /\ f - 1 = n + 1
  BY <1>4
<1> HIDE DEF f
<1>8. Packets(t, n + 1, off + n)
  BY <1>6, <1>7, PacketsShift
<1>9. \A k \in 1..Len(t) : t[k].id = i
  BY <1>1, <1>2
<1>10. n <= Len(t) /\ \A k \in 1..n : ~t[k].head
  <2>1. n <= Len(t)
    BY <1>1, <1>4, <1>5
  <2>2. \A k \in 1..n : k \in 1..Len(s) - 1 /\ k + 1 \in 2..Past(s, 1) - 1
    BY <1>1, <1>4, <2>1
  <2> QED
    BY <1>1, <1>5, <2>1, <2>2
<1>11. s[1].last => Len(t) = n
  BY <1>1, <1>4, <1>5
<1> QED
  BY <1>3, <1>4, <1>8, <1>9, <1>10, <1>11 DEF AnswerTo

\* The body is read.
LEMMA BodyGone ==
  ASSUME NEW s \in Seq(MsgWord), NEW n \in Nat, NEW t, Shifted(s, t, n), NEW i, NEW off,
         AnswerTo(i, s, n, off)
  PROVE  /\ AnswerTo(i, t, 0, off) /\ Len(t) = Len(s) - n /\ Len(s) \in Nat
         /\ \A k \in 1..n : ~s[k].head /\ s[k].id = i
<1>1. /\ Len(s) \in Nat /\ n <= Len(s) /\ Len(t) = Len(s) - n
      /\ \A k \in 1..Len(s) - n : t[k] = s[k + n]
  BY NoneLeft DEF Shifted
<1>2. Packets(s, n + 1, off) /\ (\A k \in 1..Len(s) : s[k].id = i) /\ \A k \in 1..n : ~s[k].head
  BY DEF AnswerTo
<1>3. Packets(t, 1, off)
  <2>1. n + 1 \in Nat /\ n < n + 1 /\ n + 1 - n = 1
    OBVIOUS
  <2> QED
    BY <1>2, <2>1, PacketsShift
<1>4. \A k \in 1..Len(t) : t[k].id = i
  <2>1. \A k \in 1..Len(s) - n : k + n \in 1..Len(s)
    BY <1>1
  <2> QED
    BY <1>1, <1>2, <2>1
<1>5. \A k \in 1..n : k \in 1..Len(s)
  BY <1>1
<1>6. 0 <= Len(t) /\ 1..0 = {} /\ 0 + 1 = 1
  BY <1>1
<1> QED
  BY <1>1, <1>2, <1>3, <1>4, <1>5, <1>6 DEF AnswerTo

\* The words of an answer that the ME has still to write follow those it has written.
LEMMA ShiftedJoint ==
  ASSUME NEW s \in Seq(MsgWord), NEW r \in Seq(MsgWord), NEW t, NEW n, Shifted(s, t, n)
  PROVE  /\ Shifted(s \o r, t \o r, n) /\ s \o r \in Seq(MsgWord) /\ Len(s \o r) = Len(s) + Len(r)
         /\ \A k \in 1..Len(s) : (s \o r)[k] = s[k]
<1>1. /\ t \in Seq(MsgWord) /\ n \in Nat /\ n <= Len(s) /\ Len(t) = Len(s) - n
      /\ \A k \in 1..Len(s) - n : t[k] = s[k + n]
  BY DEF Shifted
<1>2. /\ s \o r \in Seq(MsgWord) /\ Len(s \o r) = Len(s) + Len(r) /\ Len(s) \in Nat /\ Len(r) \in Nat
      /\ \A k \in 1..Len(s) : (s \o r)[k] = s[k]
      /\ \A k \in 1..Len(r) : (s \o r)[Len(s) + k] = r[k]
  BY Joint
<1>3. /\ t \o r \in Seq(MsgWord) /\ Len(t \o r) = Len(t) + Len(r) /\ Len(t) \in Nat
      /\ \A k \in 1..Len(t) : (t \o r)[k] = t[k]
      /\ \A k \in 1..Len(r) : (t \o r)[Len(t) + k] = r[k]
  <2>1. t \in Seq(MsgWord) /\ r \in Seq(MsgWord)
    BY <1>1
  <2> QED
    BY <2>1, Joint
<1> DEFINE a == s \o r
           b == t \o r
<1> HIDE DEF a, b
<1>4. ASSUME NEW k \in 1..Len(a) - n PROVE b[k] = a[k + n]
  <2>1. k \in Nat \ {0} /\ k <= Len(s) + Len(r) - n
    BY <1>1, <1>2 DEF a
  <2>2. CASE k <= Len(t)
    <3>1. k \in 1..Len(t) /\ k \in 1..Len(s) - n /\ k + n \in 1..Len(s)
      BY <1>1, <1>2, <1>3, <2>1, <2>2
    <3> QED
      BY <1>1, <1>2, <1>3, <3>1 DEF a, b
  <2>3. CASE ~(k <= Len(t))
    <3> DEFINE j == k - Len(t)
    <3>1. j \in 1..Len(r) /\ Len(t) + j = k /\ Len(s) + j = k + n
      BY <1>1, <1>2, <1>3, <2>1, <2>3
    <3> HIDE DEF j
    <3> QED
      BY <1>2, <1>3, <3>1 DEF a, b
  <2> QED
    BY <2>2, <2>3
<1>5. n <= Len(a) /\ Len(b) = Len(a) - n
  BY <1>1, <1>2, <1>3 DEF a, b
<1> QED
  BY <1>1, <1>2, <1>3, <1>4, <1>5 DEF Shifted, a, b

\* What the ME writes is the next of what was to come.
LEMMA StreamMoved ==
  ASSUME NEW s \in Seq(MsgWord), NEW r \in Seq(MsgWord), r # <<>>
  PROVE  Append(s, Head(r)) \o Tail(r) = s \o r
<1>1. /\ Tail(r) \in Seq(MsgWord) /\ Len(Tail(r)) = Len(r) - 1 /\ Len(r) \in Nat \ {0}
      /\ \A k \in 1..Len(r) - 1 : Tail(r)[k] = r[k + 1]
      /\ Head(r) = r[1] /\ Head(r) \in MsgWord
  BY TailIs
<1> DEFINE a == Append(s, Head(r))
           u == Tail(r)
<1>2. /\ a \in Seq(MsgWord) /\ Len(a) = Len(s) + 1 /\ Len(s) \in Nat
      /\ \A k \in 1..Len(s) : a[k] = s[k]
      /\ a[Len(s) + 1] = r[1]
  BY <1>1, AppendProperties, NoneLeft
<1> HIDE DEF a, u
<1>3. /\ a \o u \in Seq(MsgWord) /\ Len(a \o u) = Len(a) + Len(u)
      /\ \A k \in 1..Len(a) : (a \o u)[k] = a[k]
      /\ \A k \in 1..Len(u) : (a \o u)[Len(a) + k] = u[k]
  <2>1. a \in Seq(MsgWord) /\ u \in Seq(MsgWord)
    BY <1>1, <1>2 DEF u
  <2> QED
    BY <2>1, Joint
<1>4. /\ s \o r \in Seq(MsgWord) /\ Len(s \o r) = Len(s) + Len(r)
      /\ \A k \in 1..Len(s) : (s \o r)[k] = s[k]
      /\ \A k \in 1..Len(r) : (s \o r)[Len(s) + k] = r[k]
  BY Joint
<1> DEFINE p == a \o u
           q == s \o r
<1> HIDE DEF p, q
<1>5. Len(p) = Len(q) /\ Len(p) = Len(s) + Len(r)
  BY <1>1, <1>2, <1>3, <1>4 DEF p, q, u
<1>6. ASSUME NEW k \in 1..Len(p) PROVE p[k] = q[k]
  <2>1. CASE k \in 1..Len(s)
    <3>1. k \in 1..Len(a)
      BY <1>2, <2>1
    <3> QED
      BY <1>2, <1>3, <1>4, <2>1, <3>1 DEF p, q
  <2>2. CASE k = Len(s) + 1
    <3>1. k \in 1..Len(a) /\ 1 \in 1..Len(r)
      BY <1>1, <1>2, <2>2
    <3> QED
      BY <1>2, <1>3, <1>4, <2>2, <3>1 DEF p, q
  <2>3. CASE k > Len(s) + 1
    <3> DEFINE j == k - Len(s) - 1
    <3>1. j \in 1..Len(u) /\ Len(a) + j = k /\ j \in 1..Len(r) - 1 /\ j + 1 \in 1..Len(r) /\ Len(s) + (j + 1) = k
      BY <1>1, <1>2, <1>5, <2>3 DEF u
    <3> HIDE DEF j
    <3>2. p[k] = u[j] /\ q[k] = r[j + 1]
      BY <1>3, <1>4, <3>1 DEF p, q
    <3> QED
      BY <1>1, <3>1, <3>2 DEF u
  <2> QED
    BY <1>1, <1>2, <1>5, <2>1, <2>2, <2>3
<1>7. p \in Seq(MsgWord) /\ q \in Seq(MsgWord)
  BY <1>3, <1>4 DEF p, q
<1> QED
  BY <1>5, <1>6, <1>7, SeqEqual DEF p, q, a, u

\* Nothing on its way is the start of every request, and a lost one.
LEMMA EmptyIs ==
  Empty => /\ h2m = <<>> /\ m2h = <<>> /\ owed = <<>> /\ out = <<>>
           /\ Unfinished /\ OnItsWay
BY DEF Empty, Quiet, Unfinished, OnItsWay

\* With nothing on its way Own asks for little.
LEMMA EmptyOwn ==
  ASSUME Empty', Fresh', pc' = "rHead" => answer' \subseteq {id'}, pc' \notin {"rBody", "rDone"}
  PROVE  Own'
<1>1. Unfinished' /\ OnItsWay'
  BY EmptyIs, PTL
<1> QED
  BY <1>1 DEF Own

\* Fresh speaks of the waits before an answer only.
LEMMA FreshOver ==
  ASSUME pc' \notin {"rInit", "rReady", "reset"}
  PROVE  Fresh'
BY DEF Fresh, Where

\* Nothing failed in the last step, if nothing has failed.
LEMMA CleanGoto ==
  ASSUME UNCHANGED <<op, tries, dirty>>, pc \notin {"retry", "idle"}, pc' # "idle", Clean'
  PROVE  Clean
BY DEF Clean

\* An attempt ends without a failure only if it succeeds or finds nothing yet.
LEMMA EndedClean ==
  ASSUME HostTypes, NEW s, EndAttempt(s), UNCHANGED op, op.kind \notin Resets, pc \notin {"retry", "idle"}, Clean'
  PROVE  Clean /\ Return(s) /\ pc' = "idle" /\ (s = "SUCCESS" \/ NothingYet(s))
<1>1. CASE Final(s)
  <2>1. Return(s)
    BY <1>1 DEF EndAttempt
  <2>2. /\ pc' = "idle"
        /\ dirty' = \/ dirty
                    \/ s # "SUCCESS" /\ ~NothingYet(s) /\ op.kind \notin {"reset", "reinit"}
                    \/ op.kind = "ack" /\ tries < MaxTry
    BY <2>1 DEF Return
  <2>3. ~dirty'
    BY DEF Clean
  <2> QED
    BY <2>1, <2>2, <2>3 DEF Clean, Resets
<1>2. CASE ~Final(s)
  <2>1. tries' = tries - 1 /\ pc' = IF op.kind = "ack" THEN "sCheck" ELSE "retry"
    BY <1>2 DEF EndAttempt
  <2>2. op.kind = "ack" /\ pc' = "sCheck" /\ ~(tries' < MaxTry)
    BY <2>1 DEF Clean
  <2>3. tries \in 1..MaxTry /\ MaxTry \in Nat
    BY Constants DEF HostTypes
  <2> QED
    BY <2>1, <2>2, <2>3
<1> QED
  BY <1>1, <1>2

\* After a failure Own asks for nothing until the next reset.
LEMMA FailedOwn ==
  ASSUME HostTypes, NEW s, EndAttempt(s), UNCHANGED op, op.kind \notin Resets, pc \notin {"retry", "idle"},
         s # "SUCCESS", ~NothingYet(s)
  PROVE  Own'
<1>1. ~Clean'
  BY EndedClean
<1>2. Fresh'
  BY EndedCut, FreshOver
<1> QED
  BY <1>1, <1>2 DEF Own

LEMMA ErrorOwn ==
  ASSUME HostTypes, NEW s \in {"DEVICE_ERROR", "TIMEOUT", "UNSUPPORTED", "BUFFER_TOO_SMALL"}, EndAttempt(s),
         UNCHANGED op, op.kind \notin Resets, pc \notin {"retry", "idle"}
  PROVE  Own'
BY FailedOwn DEF NothingYet

LEMMA BeginResetOwn ==
  ASSUME Inv, Own, NEW from, BeginReset(from), from \in {"user", "retry"} \/ (from \in Waits /\ from = pc)
  PROVE  Own'
<1>1. /\ pc' = "reset" /\ after' = from /\ UNCHANGED <<got, answer>>
      /\ hRst => UNCHANGED <<h2m, m2h, me>>
      /\ ~hRst => Emptied
  BY DEF BeginReset, xfer
<1>2. Empty'
  BY <1>1 DEF Inv, InReset, Empty, Quiet, Emptied, me
<1>3. Fresh'
  <2>1. CASE from \in {"user", "retry"}
    BY <1>1, <2>1, WaitsIs DEF Fresh, Where
  <2>2. CASE from \in Waits /\ from = pc
    <3>1. Where = from /\ Where' = from
      BY <1>1, <2>2, WaitsIs DEF Where
    <3> QED
      BY <1>1, <3>1 DEF Fresh, Own
  <2> QED
    BY <2>1, <2>2
<1> QED
  BY <1>1, <1>2, <1>3, EmptyOwn

\* What is on its way is so wherever the caller has got to, as long as it reads nothing.
LEMMA OnItsWayKept ==
  ASSUME OnItsWay, UNCHANGED <<h2m, m2h, owed, out, id, Skip, Read>>, Begun' => Begun,
         pc' \in {"rBody", "rDone"} => pc \in {"rBody", "rDone"} /\ UNCHANGED hdr
  PROVE  OnItsWay'
<1>1. (Empty => Empty') /\ (Requested => Requested') /\ (Owed => Owed')
  BY DEF Empty, Quiet, Requested, Owed, Next1
<1>2. Answering => Answering'
  BY DEF Answering, Stream
<1> QED
  BY <1>1, <1>2 DEF OnItsWay


LEMMA CheckForHeciResetOwn == ASSUME Inv, Own, CheckForHeciReset PROVE Own'
<1>0. HostTypes /\ Place
  BY DEF Inv, HostInv
<1>1. /\ pc \in {"sCheck", "rCheck"} /\ got' = 0 /\ answer' = {}
      /\ UNCHANGED <<op, h2m, m2h, owed, out>> /\ (pc = "rCheck" => id' = id)
      /\ IF op.kind = "poll" /\ ~(hRdy /\ meRdy) THEN EndAttempt("DEVICE_ERROR")
         ELSE IF pc = "sCheck" THEN Goto(IF hRdy THEN "sReady" ELSE "sInit")
         ELSE Goto(IF hRdy THEN "rReady" ELSE "rInit")
  BY DEF CheckForHeciReset, me
<1>2. op.kind \notin Resets /\ (pc = "sCheck" => op.kind # "poll")
  BY <1>0, <1>1 DEF Place, Where, SendAt, RecvAt, Senders, Acks, Resets
<1>3. CASE op.kind = "poll" /\ ~(hRdy /\ meRdy)
  BY <1>0, <1>1, <1>2, <1>3, ErrorOwn
<1>4. CASE ~(op.kind = "poll" /\ ~(hRdy /\ meRdy))
  <2>1. /\ pc = "sCheck" => pc' \in {"sReady", "sInit"}
        /\ pc = "rCheck" => pc' \in {"rReady", "rInit"}
        /\ UNCHANGED <<tries, dirty, waiting>>
    BY <1>1, <1>4 DEF Goto
  <2>2. Clean' => Clean
    BY <1>1, <2>1, CleanGoto
  <2>3. Fresh'
    BY <1>1 DEF Fresh
  <2>4. CASE pc = "sCheck"
    <3>1. Clean' => Empty'
      BY <1>1, <2>2, <2>4 DEF Own, NothingSent, Empty, Quiet
    <3> QED
      BY <2>1, <2>3, <2>4, <3>1, EmptyOwn DEF Own
  <2>5. CASE pc = "rCheck"
    <3>1. Clean' => OnItsWay
      BY <2>2, <2>5 DEF Own, AllSent, RecvAt
    <3>2. ~Begun /\ Skip = 0 /\ Read = 0 /\ ~Begun' /\ Skip' = 0 /\ Read' = 0
      BY <2>1, <2>5 DEF Begun, Skip, Read
    <3>3. Clean' => OnItsWay'
      BY <1>1, <2>1, <2>5, <3>1, <3>2, OnItsWayKept
    <3>4. ~NothingSent' /\ ~HalfSent' /\ pc' \notin {"rHead", "rBody", "rDone"}
      BY <2>1, <2>5 DEF NothingSent, HalfSent
    <3> QED
      BY <2>3, <3>3, <3>4 DEF Own
  <2> QED
    BY <1>1, <2>4, <2>5
<1> QED
  BY <1>3, <1>4

LEMMA ReadyOwn == ASSUME Inv, Own, Ready PROVE Own'
<1>1. /\ pc \in Waits /\ pc' = AfterWait[pc]
      /\ UNCHANGED <<op, id, tries, dirty, waiting, h2m, m2h, owed, out, got, answer>>
  BY DEF Ready, Waits, Goto, me, xfer
<1>2. Clean' => Clean
  BY <1>1, CleanGoto, WaitsIs
<1>3. Fresh'
  <2>1. CASE pc = "rInit"
    <3>1. Where = "rInit" /\ answer = {} /\ got = 0
      BY <2>1 DEF Own, Fresh, Where
    <3> QED
      BY <1>1, <3>1 DEF Fresh
  <2>2. CASE pc # "rInit"
    BY <1>1, <2>2, WaitsIs, FreshOver
  <2> QED
    BY <2>1, <2>2
<1>4. CASE pc = "sInit"
  <2>1. pc' = "sReady"
    BY <1>1, <1>4, WaitsIs
  <2>2. Clean' => Empty'
    BY <1>1, <1>2, <1>4 DEF Own, NothingSent, Empty, Quiet
  <2> QED
    BY <1>3, <2>1, <2>2, EmptyOwn DEF Own
<1>5. CASE pc \in {"sReady", "pReady"}
  <2>1. pc' \in {"pReady", "pRoom"}
    BY <1>1, <1>5, WaitsIs
  <2>2. Clean' => Unfinished
    BY <1>2, <1>5 DEF Own, HalfSent
  <2>3. Unfinished => Unfinished'
    BY <1>1 DEF Unfinished, Quiet
  <2>4. ~NothingSent' /\ ~AllSent'
    BY <2>1 DEF NothingSent, AllSent, RecvAt
  <2> QED
    BY <1>3, <2>1, <2>2, <2>3, <2>4 DEF Own
<1>6. CASE pc \in {"rInit", "rReady"}
  <2>1. pc' \in {"rReady", "rHead"}
    BY <1>1, <1>6, WaitsIs
  <2>2. got = 0 /\ answer = {}
    BY <1>6 DEF Own, Fresh, Where
  <2>3. Clean' => OnItsWay
    BY <1>2, <1>6 DEF Own, AllSent, RecvAt
  <2>4. ~Begun /\ Skip = 0 /\ Read = 0 /\ ~Begun' /\ Skip' = 0 /\ Read' = 0
    BY <1>1, <1>6, <2>1, <2>2 DEF Begun, Skip, Read
  <2>5. Clean' => OnItsWay'
    BY <1>1, <2>1, <2>3, <2>4, OnItsWayKept
  <2>6. ~NothingSent' /\ ~HalfSent'
    BY <2>1 DEF NothingSent, HalfSent
  <2> QED
    BY <1>1, <1>3, <2>1, <2>2, <2>5, <2>6 DEF Own
<1> QED
  BY <1>1, <1>4, <1>5, <1>6, WaitsIs

LEMMA ResetOverOwn == ASSUME Inv, Own, FinishReset \/ ResetFails PROVE Own'
<1>0. HostTypes /\ Place /\ InReset
  BY DEF Inv, HostInv
<1>1. pc = "reset" /\ UNCHANGED <<h2m, m2h, owed, out, op, id, got, answer>>
  BY DEF FinishReset, ResetFails, me, xfer
<1>2. Empty'
  BY <1>0, <1>1 DEF InReset, Empty, Quiet
<1>3. CASE pc' \in {"idle", "sCheck", "rCheck"}
  <2>1. Fresh'
    BY <1>3, FreshOver
  <2> QED
    BY <1>2, <1>3, <2>1, EmptyOwn
<1>4. CASE FinishReset /\ after \notin {"user", "retry"}
  <2>1. after \in Waits /\ pc' = AfterWait[after]
    BY <1>0, <1>4 DEF FinishReset, HostTypes, Goto
  <2>2. after \in {"rInit", "rReady"} => answer = {} /\ got = 0
    BY <1>1, WaitsIs DEF Own, Fresh, Where
  <2>3. Fresh'
    BY <1>1, <2>1, <2>2, WaitsIs DEF Fresh, Where
  <2>4. pc' = "rHead" => answer' = {}
    BY <1>1, <2>1, <2>2, WaitsIs
  <2> QED
    BY <1>2, <2>1, <2>3, <2>4, AfterWaitIs, EmptyOwn
<1>5. CASE FinishReset /\ after \in {"user", "retry"}
  <2>1. pc' \in {"idle", "sCheck", "rCheck"}
    BY <1>5 DEF FinishReset, Return, Goto, First
  <2> QED
    BY <1>3, <2>1
<1>6. CASE ResetFails /\ after \in Waits
  <2>1. PICK s \in {"DEVICE_ERROR", "TIMEOUT"} : EndAttempt(s)
    BY <1>6, WaitFailsAt DEF ResetFails, Waits
  <2>2. op.kind \notin Resets
    BY <1>0, <1>1, <1>6, WaitsIs DEF Place
  <2> QED
    BY <1>0, <1>1, <2>1, <2>2, ErrorOwn
<1>7. CASE ResetFails /\ after \notin Waits
  <2>1. pc' = "idle"
    BY <1>7 DEF ResetFails, Waits, Return
  <2> QED
    BY <1>3, <2>1
<1> QED
  BY <1>4, <1>5, <1>6, <1>7

LEMMA HeciPacketWriteOwn ==
  ASSUME Inv, Own, Cut, HeciPacketWrite
  PROVE  Own'
<1> DEFINE left == op.len - cur
           h == Header(id, SendLength(left), MessageComplete(left), op.len - left, op.len)
           n == Words(SendLength(left))
<1>0. World /\ HostTypes
  BY DEF Inv, HostInv
<1>1. /\ pc = "pRoom" /\ pc' = "pCheck" /\ UNCHANGED <<dirty, tries, waiting, id, op, m2h, owed, out>>
      /\ h2m' = h2m \o Packet(left) /\ complete' = MessageComplete(left)
  BY DEF HeciPacketWrite, Goto, me
<1>2. op.len \in Nat /\ left \in Nat \ {0} /\ left <= op.len
  BY <1>1, AtPacket
<1>3. complete' \in BOOLEAN
  BY <1>0, <1>1 DEF MessageComplete, HostTypes
<1>4. h2m \in Seq(MsgWord) /\ Packed(h2m) /\ id \in Ids /\ complete \in BOOLEAN
  BY <1>0 DEF World, Contents, HostTypes
<1> HIDE DEF left
<1>5. /\ h2m' \in Seq(MsgWord) /\ Len(h2m') = Len(h2m) + n + 1 /\ Len(h2m) \in Nat /\ n \in Nat
      /\ \A k \in 1..Len(h2m) : h2m'[k] = h2m[k]
      /\ h2m'[Len(h2m) + 1] = h
      /\ \A k \in Len(h2m) + 2..Len(h2m) + n + 1 : h2m'[k] = Body(id)
  BY <1>1, <1>2, <1>4, Written
<1>6. Put(h2m, h2m', n)
  <2>1. h.head /\ Words(h.len) = n /\ ~Body(id).head
    BY DEF Header, Body
  <2> HIDE DEF h, n
  <2> QED
    BY <1>5, <2>1 DEF Put
<1>7. h.id = id /\ h.last = complete' /\ h.head /\ Body(id).id = id
  BY <1>1 DEF Header, Body
<1> HIDE DEF h, n
<1>8. /\ Next1(h2m', Len(h2m) + 1) = Len(h2m') + 1 /\ Len(h2m') \in Nat
      /\ \A k \in 1..Len(h2m') : h2m'[k].head => k = Len(h2m) + 1 \/ k \in 1..Len(h2m)
      /\ \A k \in 1..Len(h2m') : k \in 1..Len(h2m) \/ k = Len(h2m) + 1 \/ k \in Len(h2m) + 2..Len(h2m) + n + 1
  <2>1. /\ Next1(h2m', Len(h2m) + 1) = Len(h2m') + 1
        /\ \A k \in 1..Len(h2m') : h2m'[k].head => k = Len(h2m) + 1 \/ k \in 1..Len(h2m)
    BY <1>4, <1>6, PutIs
  <2> QED
    BY <1>5, <2>1
<1>9. Fresh'
  BY <1>1, FreshOver
<1>10. SUFFICES ASSUME Clean' PROVE /\ HalfSent' => Unfinished'
                                    /\ AllSent' => OnItsWay'
  BY <1>1, <1>9 DEF Own, NothingSent
<1>11. Unfinished
  <2>1. Clean
    BY <1>1, <1>10, CleanGoto
  <2> QED
    BY <1>1, <2>1 DEF Own, HalfSent
<1>12. Quiet'
  BY <1>1, <1>11 DEF Unfinished, Quiet
<1>13. \A k \in 1..Len(h2m') : h2m'[k].id = id
  BY <1>5, <1>7, <1>8, <1>11 DEF Unfinished
<1>14. \A k \in 1..Len(h2m') : h2m'[k].head /\ h2m'[k].last => k = Len(h2m) + 1 /\ complete'
  BY <1>5, <1>7, <1>8, <1>11 DEF Unfinished
<1>15. CASE complete'
  <2>1. Requested'
    <3>1. \A k \in 1..Len(h2m') : h2m'[k].head /\ h2m'[k].last => Next1(h2m', k) > Len(h2m')
      BY <1>8, <1>14
    <3>2. ~Begun'
      BY <1>1 DEF Begun
    <3> QED
      BY <1>1, <1>12, <1>13, <3>1, <3>2 DEF Requested, Next1
  <2> QED
    BY <1>1, <1>15, <2>1 DEF HalfSent, OnItsWay
<1>16. CASE ~complete'
  <2>1. Unfinished'
    BY <1>1, <1>12, <1>13, <1>14, <1>16 DEF Unfinished
  <2> QED
    BY <1>1, <1>16, <2>1 DEF AllSent, RecvAt
<1> QED
  BY <1>15, <1>16

LEMMA PacketWrittenOwn == ASSUME Inv, Own, Cut, PacketWritten PROVE Own'
<1>0. HostTypes
  BY DEF Inv, HostInv
<1>1. /\ pc = "pCheck" /\ op.kind \in Senders /\ op.kind \notin Resets
      /\ UNCHANGED <<op, id, complete, h2m, m2h, owed, out, got, hdr, answer>>
  BY AtPacket DEF PacketWritten, me
<1>2. /\ meRdy /\ complete => /\ op.kind = "send" => EndAttempt("SUCCESS")
                              /\ op.kind # "send" => Goto("rCheck")
      /\ meRdy /\ ~complete => Goto("pReady")
      /\ ~meRdy => EndAttempt("DEVICE_ERROR")
  BY PacketWrittenCut
<1>3. CASE ~meRdy
  BY <1>0, <1>1, <1>2, <1>3, ErrorOwn
<1>4. CASE meRdy /\ ~complete
  <2>1. pc' = "pReady" /\ UNCHANGED <<tries, dirty>>
    BY <1>2, <1>4 DEF Goto
  <2>2. Clean' => Unfinished
    BY <1>1, <1>4, <2>1, CleanGoto DEF Own, HalfSent
  <2>3. Unfinished => Unfinished'
    BY <1>1 DEF Unfinished, Quiet
  <2>4. ~NothingSent' /\ ~AllSent' /\ Fresh'
    BY <2>1, FreshOver DEF NothingSent, AllSent, RecvAt
  <2> QED
    BY <2>1, <2>2, <2>3, <2>4 DEF Own
<1>5. CASE meRdy /\ complete
  <2>1. SUFFICES ASSUME NEW p \in {"idle", "rCheck"}, pc' = p, Clean' => Clean, p = "idle" => waiting' PROVE Own'
    <3>1. CASE op.kind = "send"
      <4>1. Clean' => Clean
        BY <1>0, <1>1, <1>2, <1>5, <3>1, EndedClean
      <4>2. pc' = "idle" /\ waiting'
        BY <1>2, <1>5, <3>1 DEF EndAttempt, Final, Return
      <4> QED
        BY <2>1, <4>1, <4>2
    <3>2. CASE op.kind # "send"
      <4>1. pc' = "rCheck" /\ UNCHANGED <<tries, dirty>>
        BY <1>2, <1>5, <3>2 DEF Goto
      <4>2. Clean' => Clean
        BY <1>1, <4>1, CleanGoto
      <4> QED
        BY <2>1, <4>1, <4>2
    <3> QED
      BY <3>1, <3>2
  <2>2. Clean' => OnItsWay
    BY <1>1, <1>5, <2>1 DEF Own, AllSent
  <2>3. ~Begun /\ Skip = 0 /\ Read = 0 /\ ~Begun' /\ Skip' = 0 /\ Read' = 0
    BY <1>1, <2>1 DEF Begun, Skip, Read
  <2>4. Clean' => OnItsWay'
    BY <1>1, <2>1, <2>2, <2>3, OnItsWayKept
  <2>5. ~NothingSent' /\ ~HalfSent' /\ Fresh'
    BY <2>1, FreshOver DEF NothingSent, HalfSent
  <2> QED
    BY <2>1, <2>4, <2>5 DEF Own
<1> QED
  BY <1>3, <1>4, <1>5

LEMMA ReadHeaderOwn == ASSUME Inv, Own, ReadHeader PROVE Own'
<1>0. World /\ HostTypes /\ m2h \in Seq(MsgWord) /\ out \in Seq(MsgWord)
  BY DEF Inv, HostInv, World, Contents
<1>1. /\ pc = "rHead" /\ m2h # <<>> /\ m2h' = Tail(m2h) /\ UNCHANGED <<h2m, owed, out, op, id, got>>
      /\ answer' = answer \union {IF Head(m2h).head /\ Head(m2h).off = got
                                  THEN Head(m2h).id ELSE Garbage}
  BY DEF ReadHeader, me
<1>2. PICK h \in AsHeader(Head(m2h)) :
        /\ hdr' = h
        /\ IF h.len = 0 THEN Goto("rDone")
           ELSE IF h.len + 1 > CBD THEN EndAttempt("DEVICE_ERROR")
           ELSE IF h.len > RecLength - got THEN EndAttempt("BUFFER_TOO_SMALL")
           ELSE Goto("rBody")
  BY DEF ReadHeader
<1>3. op.kind \notin Resets /\ got \in Nat
  BY <1>1, AtRead
<1>4. CASE \E s \in {"DEVICE_ERROR", "BUFFER_TOO_SMALL"} : EndAttempt(s)
  <2>1. PICK s \in {"DEVICE_ERROR", "BUFFER_TOO_SMALL"} : EndAttempt(s)
    BY <1>4
  <2> QED
    BY <1>0, <1>1, <1>3, <2>1, ErrorOwn
<1>5. CASE \E p \in {"rDone", "rBody"} : Goto(p) /\ (p = "rDone" => h.len = 0)
  <2>1. pc' \in {"rDone", "rBody"} /\ (pc' = "rDone" => h.len = 0) /\ UNCHANGED <<tries, dirty>>
    BY <1>5 DEF Goto
  <2>2. ~NothingSent' /\ ~HalfSent' /\ Fresh'
    BY <2>1, FreshOver DEF NothingSent, HalfSent
  <2>3. SUFFICES ASSUME Clean' PROVE OnItsWay' /\ answer' = {id}
    BY <1>1, <2>1, <2>2 DEF Own
  <2>4. Clean
    BY <1>1, <2>1, <2>3, CleanGoto
  <2>5. OnItsWay /\ answer \subseteq {id}
    BY <1>1, <2>4 DEF Own, AllSent, RecvAt
  <2>6. Answering
    BY <1>1, <2>5 DEF OnItsWay, Empty, Quiet, Requested, Owed
  <2>7. AnswerTo(id, m2h \o out, 0, got)
    BY <1>1, <2>6 DEF Answering, Stream, Skip, Read
  <2>8. /\ Shifted(m2h, Tail(m2h), 1) /\ Len(m2h) \in Nat \ {0} /\ Head(m2h) = m2h[1] /\ Len(out) \in Nat
    BY <1>0, <1>1, TailIs, NoneLeft DEF Shifted
  <2> DEFINE s == m2h \o out
             t == Tail(m2h) \o out
  <2>9. Shifted(s, t, 1) /\ s \in Seq(MsgWord) /\ Len(s) = Len(m2h) + Len(out) /\ s[1] = m2h[1]
    <3>1. 1 \in 1..Len(m2h)
      BY <2>8
    <3> QED
      BY <1>0, <2>8, <3>1, ShiftedJoint
  <2> HIDE DEF s, t
  <2>10. s # <<>>
    BY <2>8, <2>9, NoneLeft
  <2>11. AnswerTo(id, s, 0, got)
    BY <2>7 DEF s
  <2>12. /\ s[1].head /\ s[1].off = got /\ s[1].id = id /\ s[1].len \in Nat
         /\ AnswerTo(id, t, s[1].len, got + s[1].len)
         /\ s[1].last => Len(t) = s[1].len
    BY <1>3, <2>9, <2>10, <2>11, HeaderGone
  <2>13. h = [len |-> s[1].len, last |-> s[1].last]
    BY <1>2, <2>8, <2>9, <2>12 DEF AsHeader
  <2>14. answer' = {id}
    BY <1>1, <2>5, <2>8, <2>9, <2>12
  <2>15. hdr'.len = s[1].len /\ hdr'.last = s[1].last /\ Stream' = t
    BY <1>1, <1>2, <2>13 DEF Stream, t
  <2>16. Skip' = s[1].len /\ Read' = got + s[1].len
    BY <1>1, <2>1, <2>13, <2>15 DEF Skip, Read
  <2>17. h2m' = <<>> /\ owed' = <<>>
    BY <1>1, <2>6 DEF Answering
  <2>18. Answering'
    BY <1>1, <2>12, <2>15, <2>16, <2>17 DEF Answering
  <2> QED
    BY <2>14, <2>18 DEF OnItsWay
<1> QED
  BY <1>2, <1>4, <1>5

LEMMA ReadBodyOwn == ASSUME Inv, Own, ReadBody PROVE Own'
<1>0. World /\ HostTypes /\ m2h \in Seq(MsgWord) /\ out \in Seq(MsgWord) /\ hdr.len \in Nat
  BY OpIs DEF Inv, HostInv, World, Contents
<1>1. /\ pc = "rBody" /\ hdr.len <= Len(m2h) /\ m2h' = SubSeq(m2h, hdr.len + 1, Len(m2h))
      /\ pc' = "rDone" /\ UNCHANGED <<h2m, owed, out, op, id, got, hdr, tries, dirty>>
      /\ answer' = answer \union {IF m2h[k].head THEN Garbage ELSE m2h[k].id : k \in 1..hdr.len}
  BY DEF ReadBody, Goto, me
<1>2. ~NothingSent' /\ ~HalfSent' /\ Fresh'
  BY <1>1, FreshOver DEF NothingSent, HalfSent
<1>3. SUFFICES ASSUME Clean' PROVE OnItsWay' /\ answer' = {id}
  BY <1>1, <1>2 DEF Own
<1>4. Clean
  BY <1>1, <1>3, CleanGoto
<1>5. OnItsWay /\ answer = {id}
  BY <1>1, <1>4 DEF Own, AllSent, RecvAt
<1> DEFINE n == hdr.len
           s == m2h \o out
           r == SubSeq(m2h, n + 1, Len(m2h))
           t == r \o out
<1>6. Shifted(m2h, r, n)
  <2>1. n \in Nat /\ n <= Len(m2h)
    BY <1>0, <1>1
  <2> HIDE DEF n
  <2> QED
    BY <1>0, <2>1, Dropped DEF Shifted
<1>7. Skip = n /\ Read = got + n /\ Skip' = 0 /\ Read' = got + n
  BY <1>1 DEF Skip, Read
<1>8. CASE Empty
  <2>1. m2h = <<>> /\ n = 0
    <3>1. m2h = <<>>
      BY <1>8 DEF Empty, Quiet
    <3>2. Len(m2h) = 0
      BY <3>1
    <3> QED
      BY <1>0, <1>1, <3>1, <3>2
  <2>2. m2h' = <<>>
    <3>1. m2h' \in Seq(MsgWord) /\ Len(m2h') = Len(m2h) - n
      BY <1>1, <1>6 DEF Shifted
    <3>2. Len(m2h') = 0
      BY <2>1, <3>1
    <3> QED
      BY <3>1, <3>2, NoneLeft
  <2>3. Empty'
    BY <1>1, <1>8, <2>2 DEF Empty, Quiet
  <2>4. answer' = {id}
    <3>1. 1..n = {}
      BY <2>1
    <3> QED
      BY <1>1, <1>5, <3>1
  <2> QED
    BY <2>3, <2>4 DEF OnItsWay
<1>9. CASE ~Empty
  <2>1. Answering
    <3>1. Begun
      BY <1>1 DEF Begun
    <3> QED
      BY <1>5, <1>9, <3>1 DEF OnItsWay, Requested, Owed
  <2>2. AnswerTo(id, s, n, got + n) /\ (hdr.last => Len(s) = n) /\ h2m = <<>> /\ owed = <<>>
    BY <1>1, <1>7, <2>1 DEF Answering, Stream
  <2>3. /\ Shifted(s, t, n) /\ s \in Seq(MsgWord) /\ Len(s) = Len(m2h) + Len(out)
        /\ \A k \in 1..Len(m2h) : s[k] = m2h[k]
    <3> HIDE DEF n, r
    <3> QED
      BY <1>0, <1>6, ShiftedJoint
  <2> HIDE DEF s, t
  <2>4. n \in Nat
    BY <1>0
  <2> HIDE DEF n, r
  <2>5. /\ AnswerTo(id, t, 0, got + n) /\ Len(t) = Len(s) - n /\ Len(s) \in Nat
        /\ \A k \in 1..n : ~s[k].head /\ s[k].id = id
    BY <2>2, <2>3, <2>4, BodyGone
  <2>6. \A k \in 1..n : k \in 1..Len(m2h)
    <3>1. n <= Len(m2h) /\ Len(m2h) \in Nat
      BY <1>0, <1>1, NoneLeft DEF n
    <3> QED
      BY <2>4, <3>1
  <2>7. \A k \in 1..n : ~m2h[k].head /\ m2h[k].id = id
    BY <2>3, <2>5, <2>6
  <2>8. answer' = {id}
    BY <1>1, <1>5, <2>7 DEF n
  <2>9. Stream' = t /\ h2m' = <<>> /\ owed' = <<>>
    BY <1>1, <2>2 DEF Stream, t, r, n
  <2>10. hdr'.last => Len(t) = 0
    BY <1>1, <2>2, <2>4, <2>5
  <2>11. Answering'
    BY <1>1, <1>7, <2>5, <2>9, <2>10 DEF Answering
  <2> QED
    BY <2>8, <2>11 DEF OnItsWay
<1> QED
  BY <1>8, <1>9

\* A poll finds nothing: what it waits for is still on its way.
LEMMA NothingFoundOwn ==
  ASSUME Inv, Own, EndAttempt("NO_RESPONSE"), UNCHANGED <<op, id, h2m, m2h, owed, out>>,
         pc \in {"rHead", "rDone"}, Skip = 0, got = 0 => Read = 0
  PROVE  Own'
<1>0. HostTypes /\ op.kind \notin Resets
  BY AtRead DEF Inv, HostInv
<1>1. CASE ~NothingYet("NO_RESPONSE")
  BY <1>0, <1>1, FailedOwn
<1>2. CASE NothingYet("NO_RESPONSE")
  <2>1. Return("NO_RESPONSE") /\ op.kind = "poll" /\ got = 0
    BY <1>2 DEF NothingYet, EndAttempt, Final
  <2>2. pc' = "idle" /\ waiting'
    BY <1>2, <2>1 DEF Return
  <2>3. ~NothingSent' /\ ~HalfSent' /\ Fresh'
    BY <2>2, FreshOver DEF NothingSent, HalfSent
  <2>4. Clean' => OnItsWay
    <3>1. Clean' => Clean
      BY <1>0, EndedClean
    <3> QED
      BY <3>1 DEF Own, AllSent, RecvAt
  <2>5. Skip' = 0 /\ Read' = 0 /\ ~Begun'
    BY <2>2 DEF Skip, Read, Begun
  <2>6. Clean' => OnItsWay'
    BY <2>1, <2>2, <2>4, <2>5, OnItsWayKept
  <2> QED
    BY <2>2, <2>3, <2>6 DEF Own
<1> QED
  BY <1>1, <1>2

LEMMA PacketReadOwn == ASSUME Inv, Own, PacketRead PROVE Own'
<1>0. /\ HostTypes /\ op.kind \notin Resets /\ op.kind \in Acks /\ hdr.len \in Nat /\ got \in Nat
      /\ m2h \in Seq(MsgWord) /\ out \in Seq(MsgWord)
  BY AtRead DEF PacketRead, Inv, HostInv, World, Contents
<1>1. /\ pc = "rDone" /\ got' = got + hdr.len
      /\ UNCHANGED <<op, id, h2m, m2h, owed, out, hdr, answer>>
      /\ IF hdr.len = 0 THEN EndAttempt(IF got = 0 /\ hdr.last THEN "SUCCESS" ELSE "NO_RESPONSE")
         ELSE IF ~meRdy THEN EndAttempt("DEVICE_ERROR")
         ELSE IF hdr.last THEN EndAttempt("SUCCESS")
         ELSE IF got' >= RecLength THEN EndAttempt("BUFFER_TOO_SMALL")
         ELSE Goto("rHead")
  BY DEF PacketRead, me
<1>2. Clean => OnItsWay /\ answer = {id}
  BY <1>1 DEF Own, AllSent, RecvAt
<1>3. Skip = 0 /\ Read = got + hdr.len /\ Begun
  BY <1>1 DEF Skip, Read, Begun
<1>4. CASE hdr.last /\ EndAttempt("SUCCESS")
  <2>1. pc' \in {"idle", "sCheck", "retry"}
    BY <1>4, EndedCut
  <2>2. Fresh'
    BY <2>1, FreshOver
  <2>3. SUFFICES ASSUME Clean' PROVE Empty'
    BY <2>1, <2>2, EmptyOwn DEF Own
  <2>4. Clean
    BY <1>0, <1>1, <1>4, <2>3, EndedClean
  <2>5. Empty
    <3>1. CASE Answering
      <4>1. h2m = <<>> /\ owed = <<>> /\ Len(m2h \o out) = 0
        BY <1>1, <1>3, <1>4, <3>1 DEF Answering, Stream
      <4>2. Len(m2h) = 0 /\ Len(out) = 0
        <5>1. Len(m2h \o out) = Len(m2h) + Len(out) /\ Len(m2h) \in Nat /\ Len(out) \in Nat
          BY <1>0, Joint
        <5> QED
          BY <4>1, <5>1
      <4>3. m2h = <<>> /\ out = <<>>
        BY <1>0, <4>2, NoneLeft
      <4> QED
        BY <4>1, <4>3 DEF Empty, Quiet
    <3> QED
      BY <1>2, <1>3, <2>4, <3>1 DEF OnItsWay, Requested, Owed
  <2> QED
    BY <1>1, <2>5 DEF Empty, Quiet
<1>5. CASE hdr.len = 0 /\ EndAttempt("NO_RESPONSE")
  BY <1>0, <1>1, <1>3, <1>5, NothingFoundOwn
<1>6. CASE EndAttempt("DEVICE_ERROR") \/ EndAttempt("BUFFER_TOO_SMALL")
  BY <1>0, <1>1, <1>6, ErrorOwn
<1>7. CASE Goto("rHead")
  <2>1. pc' = "rHead" /\ UNCHANGED <<tries, dirty>>
    BY <1>7 DEF Goto
  <2>2. ~NothingSent' /\ ~HalfSent' /\ Fresh'
    BY <2>1, FreshOver DEF NothingSent, HalfSent
  <2>3. Clean' => Clean
    BY <1>1, <2>1, CleanGoto
  <2>4. Skip' = 0 /\ Read' = Read
    BY <1>1, <1>3, <2>1 DEF Skip, Read
  <2>5. Clean' => OnItsWay'
    BY <1>1, <1>2, <1>3, <2>1, <2>3, <2>4, OnItsWayKept
  <2> QED
    BY <1>1, <1>2, <2>1, <2>2, <2>3, <2>5 DEF Own
<1> QED
  BY <1>1, <1>4, <1>5, <1>6, <1>7

LEMMA NoPacketOwn == ASSUME Inv, Own, NoPacket PROVE Own'
<1>1. /\ pc \in {"rHead", "rBody"} /\ UNCHANGED <<op, id, h2m, m2h, owed, out>>
      /\ \/ pc = "rHead" /\ EndAttempt("NO_RESPONSE")
         \/ EndAttempt("TIMEOUT")
  BY DEF NoPacket, me
<1>2. HostTypes /\ op.kind \notin Resets
  BY <1>1, AtRead DEF Inv, HostInv
<1>3. CASE pc = "rHead" /\ EndAttempt("NO_RESPONSE")
  <2>1. Skip = 0 /\ (got = 0 => Read = 0)
    BY <1>3 DEF Skip, Read
  <2> QED
    BY <1>1, <1>3, <2>1, NothingFoundOwn
<1>4. CASE EndAttempt("TIMEOUT")
  BY <1>1, <1>2, <1>4, ErrorOwn
<1> QED
  BY <1>1, <1>3, <1>4

LEMMA FailsOwn == ASSUME Inv, Own, NotAllowed \/ NotReady \/ NeverEmptied PROVE Own'
<1>0. HostTypes
  BY DEF Inv, HostInv
<1>1. CASE NotAllowed
  <2>1. pc = "sCheck" /\ EndAttempt("UNSUPPORTED") /\ UNCHANGED op
    BY <1>1 DEF NotAllowed
  <2>2. op.kind \notin Resets
    BY <2>1 DEF Inv, HostInv, Place, Where, SendAt, Senders, Resets
  <2> QED
    BY <1>0, <2>1, <2>2, ErrorOwn
<1>2. CASE NotReady
  <2>1. pc \in Waits /\ UNCHANGED op /\ WaitFails(pc)
    BY <1>2 DEF NotReady, Waits
  <2>2. PICK s \in {"DEVICE_ERROR", "TIMEOUT"} : EndAttempt(s)
    BY <2>1, WaitFailsAt
  <2>3. op.kind \notin Resets /\ pc \notin {"retry", "idle"}
    BY <2>1, WaitsIs DEF Inv, HostInv, Place, Where, SendAt, RecvAt, Senders, Acks, Resets
  <2> QED
    BY <1>0, <2>1, <2>2, <2>3, ErrorOwn
<1>3. CASE NeverEmptied
  <2>1. pc = "pRoom" /\ EndAttempt("TIMEOUT") /\ UNCHANGED op
    BY <1>3 DEF NeverEmptied
  <2>2. op.kind \notin Resets
    BY <2>1, AtPacket
  <2> QED
    BY <1>0, <2>1, <2>2, ErrorOwn
<1> QED
  BY <1>1, <1>2, <1>3

LEMMA BeginsResetOwn == ASSUME Inv, Own, ResetAsked \/ RetryReset \/ ControlReset PROVE Own'
BY BeginResetOwn DEF ResetAsked, RetryReset, ControlReset, Waits

\* Between calls.
LEMMA BetweenOwn ==
  ASSUME Own, pc \in {"idle", "control"}, pc' \in {"idle", "control"},
         UNCHANGED <<waiting, h2m, m2h, owed, out, id>>, Clean' => Clean
  PROVE  Own'
<1>1. ~HalfSent' /\ Fresh'
  BY FreshOver DEF HalfSent
<1>2. CASE ~waiting
  <2>1. Clean' => Empty'
    BY <1>2 DEF Own, NothingSent, Empty, Quiet
  <2> QED
    BY <1>1, <2>1, EmptyOwn DEF Own
<1>3. CASE waiting
  <2>1. Clean' => OnItsWay
    BY <1>3 DEF Own, AllSent
  <2>2. ~Begun /\ Skip = 0 /\ Read = 0 /\ ~Begun' /\ Skip' = 0 /\ Read' = 0
    BY DEF Begun, Skip, Read
  <2>3. Clean' => OnItsWay'
    BY <2>1, <2>2, OnItsWayKept
  <2>4. ~NothingSent'
    BY <1>3 DEF NothingSent
  <2> QED
    BY <1>1, <2>3, <2>4 DEF Own
<1> QED
  BY <1>2, <1>3

LEMMA MeResetWaitFailsOwn == ASSUME Inv, Own, MeResetWaitFails PROVE Own'
<1>1. /\ pc = "control" /\ op.kind = "reinit" /\ Return("TIMEOUT") /\ UNCHANGED <<op, id, h2m, m2h, owed, out>>
  BY DEF MeResetWaitFails, me
<1>2. pc' = "idle" /\ UNCHANGED <<waiting, tries>> /\ dirty' = dirty
  BY <1>1 DEF Return, Inv, HostInv, HostTypes
<1>3. Clean' => Clean
  BY <1>1, <1>2 DEF Clean
<1> QED
  BY <1>1, <1>2, <1>3, BetweenOwn

LEMMA CallOwn == ASSUME Inv, Own, Request \/ Receive \/ Control PROVE Own'
<1>1. /\ pc = "idle" /\ UNCHANGED <<dirty, waiting, h2m, m2h, owed, out>> /\ got' = 0 /\ answer' = {}
      /\ Request => ~waiting /\ pc' = "sCheck"
      /\ Receive => waiting /\ pc' = "rCheck" /\ UNCHANGED id
      /\ Control => pc' = "control" /\ UNCHANGED id
  BY DEF Request, Receive, Control, Begin, me
<1>2. Clean' => Clean
  BY <1>1 DEF Clean
<1>3. CASE Request
  <2>1. Clean' => Empty'
    BY <1>1, <1>2, <1>3 DEF Own, NothingSent, Empty, Quiet
  <2> QED
    BY <1>1, <1>3, <2>1, EmptyOwn, FreshOver DEF Own
<1>4. CASE Receive
  <2>1. Clean' => OnItsWay
    BY <1>1, <1>2, <1>4 DEF Own, AllSent
  <2>2. ~Begun /\ Skip = 0 /\ Read = 0 /\ ~Begun' /\ Skip' = 0 /\ Read' = 0
    BY <1>1, <1>4 DEF Begun, Skip, Read
  <2>3. Clean' => OnItsWay'
    BY <1>1, <1>4, <2>1, <2>2, OnItsWayKept
  <2>4. ~NothingSent' /\ ~HalfSent' /\ Fresh'
    BY <1>1, <1>4, FreshOver DEF NothingSent, HalfSent
  <2> QED
    BY <1>1, <1>4, <2>3, <2>4 DEF Own
<1>5. CASE Control
  BY <1>1, <1>2, <1>5, BetweenOwn
<1> QED
  BY <1>3, <1>4, <1>5

\* The steps of the ME.
LEMMA MeOwn ==
  ASSUME Own, UNCHANGED host, Empty => Empty', Unfinished => Unfinished', OnItsWay => OnItsWay'
  PROVE  Own'
<1>1. UNCHANGED <<pc, after, op, tries, id, complete, hdr, got, answer, dirty, waiting>>
  BY DEF host, xfer
<1>2. Fresh' /\ (Clean' => Clean)
  BY <1>1 DEF Own, Fresh, Where, Clean
<1>3. (NothingSent' => NothingSent) /\ (HalfSent' => HalfSent) /\ (AllSent' => AllSent)
  BY <1>1 DEF NothingSent, HalfSent, AllSent
<1> QED
  BY <1>1, <1>2, <1>3 DEF Own

\* What the host has read is not the ME's to change.
LEMMA SameBegun ==
  ASSUME UNCHANGED host
  PROVE  UNCHANGED <<Begun, Skip, Read, id, pc, hdr>>
BY DEF host, xfer, Begun, Skip, Read

LEMMA MeTakeOwn == ASSUME Inv, Own, MeTake PROVE Own'
<1> DEFINE h == h2m[1]
           n == PacketSize(h2m[1])
<1>0. World /\ Contents /\ Packed(h2m) /\ h2m \in Seq(MsgWord)
  BY DEF Inv, World, Contents
<1>1. /\ h2m # <<>> /\ h2m' = SubSeq(h2m, Words(Head(h2m).len) + 2, Len(h2m))
      /\ Head(h2m).last => \E w : owed' = Append(owed, [id |-> Head(h2m).id, whole |-> w])
      /\ ~Head(h2m).last => UNCHANGED owed
      /\ UNCHANGED <<m2h, out, host>>
  BY DEF MeTake
<1>2. /\ h = Head(h2m) /\ h.head /\ Shifted(h2m, h2m', n) /\ n \in Nat \ {0} /\ 1 \in 1..Len(h2m)
  BY <1>0, <1>1, TakenIs
<1>3. UNCHANGED <<Begun, Skip, Read, id, pc, hdr>>
  BY <1>1, SameBegun
<1>4. /\ \A k \in 1..Len(h2m') : k + n \in 1..Len(h2m) /\ h2m'[k] = h2m[k + n]
      /\ \A k \in 1..Len(h2m') : h2m'[k].head =>
           Next1(h2m', k) = Next1(h2m, k + n) - n /\ Next1(h2m', k) \in Nat \ {0}
      /\ h2m' \in Seq(MsgWord) /\ Len(h2m') = Len(h2m) - n /\ Len(h2m) \in Nat
  BY <1>0, <1>2, PackedTake, NoneLeft DEF Shifted
<1>5. Next1(h2m, 1) = n + 1
  BY <1>0, <1>2, WordIs, NoneLeft DEF Next1, PacketSize
<1> HIDE DEF h, n
<1>6. ~Empty
  BY <1>1 DEF Empty
<1>7. ASSUME Unfinished PROVE Unfinished'
  <2>1. ~h.last
    BY <1>2, <1>7 DEF Unfinished, h
  <2>2. Quiet'
    BY <1>1, <1>2, <1>7, <2>1 DEF Unfinished, Quiet
  <2> QED
    BY <1>3, <1>4, <1>7, <2>2 DEF Unfinished
<1>8. ASSUME OnItsWay PROVE OnItsWay'
  <2>1. Requested
    BY <1>1, <1>6, <1>8 DEF OnItsWay, Owed, Answering
  <2>2. CASE h.last
    <3>1. n + 1 > Len(h2m) /\ h.id = id
      BY <1>2, <1>5, <2>1, <2>2 DEF Requested, h
    <3>2. h2m' = <<>>
      <4>1. Len(h2m') \in Nat
        BY <1>4, NoneLeft
      <4>2. Len(h2m') = 0
        BY <1>2, <1>4, <3>1, <4>1
      <4> QED
        BY <1>4, <4>2, NoneLeft
    <3>3. PICK w : owed' = Append(owed, [id |-> id, whole |-> w])
      BY <1>1, <1>2, <2>2, <3>1
    <3>4. owed = <<>> /\ m2h = <<>> /\ out = <<>> /\ ~Begun
      BY <2>1 DEF Requested, Quiet
    <3>5. Len(owed') = 1 /\ owed'[1].id = id
      BY <3>3, <3>4
    <3>6. Owed'
      BY <1>1, <1>3, <3>2, <3>4, <3>5 DEF Owed
    <3> QED
      BY <3>6 DEF OnItsWay
  <2>3. CASE ~h.last
    <3>1. Quiet' /\ ~Begun'
      BY <1>1, <1>2, <1>3, <2>1, <2>3 DEF Requested, Quiet
    <3>2. \A k \in 1..Len(h2m') : h2m'[k].id = id
      BY <1>4, <2>1 DEF Requested
    <3>3. ASSUME NEW k \in 1..Len(h2m'), h2m'[k].head, h2m'[k].last PROVE Next1(h2m', k) > Len(h2m')
      <4>1. Next1(h2m, k + n) > Len(h2m) /\ Next1(h2m', k) = Next1(h2m, k + n) - n
            /\ Next1(h2m', k) \in Nat \ {0}
        BY <1>4, <2>1, <3>3 DEF Requested
      <4>2. Next1(h2m, k + n) \in Int
        <5>1. h2m[k + n] \in MsgWord /\ h2m[k + n].head /\ k + n \in Nat
          BY <1>0, <1>4, <3>3, NoneLeft
        <5> QED
          BY <5>1, WordIs DEF Next1
      <4> QED
        BY <1>2, <1>4, <4>1, <4>2
    <3>4. Requested'
      BY <1>3, <3>1, <3>2, <3>3 DEF Requested
    <3> QED
      BY <3>4 DEF OnItsWay
  <2> QED
    BY <2>2, <2>3
<1> QED
  BY <1>1, <1>6, <1>7, <1>8, MeOwn

\* The words of an answer, as the packets they are.
LEMMA AnswerStream ==
  ASSUME Answers, NEW i \in Ids, NEW shape \in Shapes
  PROVE  AnswerTo(i, AnswerWords(i, shape), 0, 0)
<1> DEFINE a == AnswerWords(i, shape)
<1>1. /\ a \in Seq(MsgWord) /\ Len(a) = Len(shape) /\ Len(shape) \in Nat
      /\ \A k \in 1..Len(shape) : /\ a[k].head = shape[k].head /\ a[k].id = i
                                  /\ shape[k].head => /\ a[k].len = shape[k].len
                                                      /\ a[k].last = shape[k].last
                                                      /\ a[k].off = shape[k].off
  BY AnswerIs
<1>2. Packets(shape, 1, 0)
  BY DEF Answers
<1> HIDE DEF a
<1>3. 1 <= Len(a) => a[1].head /\ a[1].off = 0
  <2>1. 1 <= Len(a) => 1 \in 1..Len(shape)
    BY <1>1
  <2> QED
    BY <1>1, <1>2, <2>1 DEF Packets
<1>4. ASSUME NEW k \in 1..Len(a), a[k].head
      PROVE  /\ Past(a, k) - 1 <= Len(a) /\ \A j \in k + 1..Past(a, k) - 1 : ~a[j].head
             /\ a[k].last <=> Past(a, k) > Len(a)
             /\ Past(a, k) <= Len(a) => a[Past(a, k)].head /\ a[Past(a, k)].off = a[k].off + a[k].len
  <2>1. k \in 1..Len(shape) /\ shape[k].head /\ k \in Nat
    BY <1>1, <1>4
  <2> DEFINE p == Past(shape, k)
  <2>2. /\ p - 1 <= Len(shape) /\ \A j \in k + 1..p - 1 : ~shape[j].head
        /\ shape[k].last <=> p > Len(shape)
        /\ p <= Len(shape) => shape[p].head /\ shape[p].off = shape[k].off + shape[k].len
    BY <1>2, <2>1 DEF Packets
  <2>3. Past(a, k) = p
    BY <1>1, <2>1 DEF Past
  <2>4. p \in Nat /\ p > k
    BY <1>1, <1>4, <2>3, PastIs
  <2> HIDE DEF p
  <2>5. (\A j \in k + 1..p - 1 : j \in 1..Len(shape)) /\ (p <= Len(shape) => p \in 1..Len(shape))
    BY <1>1, <2>1, <2>2, <2>4
  <2>6. \A j \in k + 1..p - 1 : ~a[j].head
    BY <1>1, <2>2, <2>5
  <2>7. p <= Len(a) => a[p].head /\ a[p].off = a[k].off + a[k].len
    BY <1>1, <2>1, <2>2, <2>5
  <2> QED
    BY <1>1, <2>1, <2>2, <2>3, <2>6, <2>7
<1>5. Packets(a, 1, 0)
  BY <1>3, <1>4 DEF Packets
<1>6. 0 <= Len(a) /\ 1..0 = {} /\ 0 + 1 = 1
  BY <1>1
<1> QED
  BY <1>1, <1>5, <1>6 DEF AnswerTo, a

LEMMA MeAnswerOwn == ASSUME Answers, Inv, Own, MeAnswer PROVE Own'
<1>1. owed # <<>> /\ owed' = Tail(owed) /\ UNCHANGED <<h2m, m2h, host>>
  BY DEF MeAnswer
<1>2. PICK shape \in Shapes : out' = AnswerWords(Head(owed).id, shape)
  BY DEF MeAnswer
<1>3. UNCHANGED <<Begun, Skip, Read, id, pc, hdr>>
  BY <1>1, SameBegun
<1>4. ~Empty /\ ~Unfinished
  BY <1>1 DEF Empty, Quiet, Unfinished
<1>5. ASSUME OnItsWay PROVE OnItsWay'
  <2>1. h2m = <<>> /\ m2h = <<>> /\ ~Begun /\ Len(owed) = 1 /\ owed[1].id = id
    BY <1>1, <1>4, <1>5 DEF OnItsWay, Owed, Requested, Quiet, Answering
  <2>2. owed' = <<>> /\ Head(owed).id = id
    <3> DEFINE S == [id : Ids, whole : BOOLEAN]
    <3>1. owed \in Seq(S)
      BY DEF Inv, World, Contents
    <3> HIDE DEF S
    <3>2. Tail(owed) \in Seq(S) /\ Len(Tail(owed)) = 0 /\ Head(owed) = owed[1]
      BY <1>1, <2>1, <3>1, TailIs
    <3> QED
      BY <1>1, <2>1, <3>2, NoneLeft
  <2>3. id \in Ids /\ got \in Nat
    BY DEF Inv, HostInv, HostTypes
  <2>4. Skip' = 0 /\ Read' = 0 /\ pc' \notin {"rBody", "rDone"}
    <3>1. pc \notin {"rBody", "rDone"} /\ (pc = "rHead" => got = 0)
      BY <2>1, <2>3 DEF Begun
    <3> QED
      BY <1>3, <3>1 DEF Skip, Read
  <2>5. AnswerTo(id, out', 0, 0) /\ out' \in Seq(MsgWord)
    <3>1. out' = AnswerWords(id, shape)
      BY <1>2, <2>2
    <3> QED
      BY <2>3, <3>1, AnswerStream, AnswerIs
  <2>6. Stream' = out'
    <3>1. <<>> \o out' = out'
      BY <2>5, ConcatEmptySeq
    <3> QED
      BY <1>1, <2>1, <3>1 DEF Stream
  <2>7. Answering'
    BY <1>1, <1>3, <2>1, <2>2, <2>4, <2>5, <2>6 DEF Answering
  <2> QED
    BY <2>7 DEF OnItsWay
<1> QED
  BY <1>1, <1>4, <1>5, MeOwn

LEMMA MeLoseOwn == ASSUME Inv, Own, MeLose PROVE Own'
<1>1. owed # <<>> /\ owed' = Tail(owed) /\ UNCHANGED <<h2m, m2h, out, host>>
  BY DEF MeLose
<1>2. ~Empty /\ ~Unfinished
  BY <1>1 DEF Empty, Quiet, Unfinished
<1>3. ASSUME OnItsWay PROVE OnItsWay'
  <2>1. h2m = <<>> /\ m2h = <<>> /\ out = <<>> /\ Len(owed) = 1
    BY <1>1, <1>2, <1>3 DEF OnItsWay, Owed, Requested, Quiet, Answering
  <2>2. owed' = <<>>
    <3> DEFINE S == [id : Ids, whole : BOOLEAN]
    <3>1. owed \in Seq(S)
      BY DEF Inv, World, Contents
    <3> HIDE DEF S
    <3>2. Tail(owed) \in Seq(S) /\ Len(Tail(owed)) = 0
      BY <1>1, <2>1, <3>1, TailIs
    <3> QED
      BY <1>1, <3>2, NoneLeft
  <2>3. Empty'
    BY <1>1, <2>1, <2>2 DEF Empty, Quiet
  <2> QED
    BY <2>3 DEF OnItsWay
<1> QED
  BY <1>1, <1>2, <1>3, MeOwn

LEMMA MeWriteOwn == ASSUME Inv, Own, MeWrite PROVE Own'
<1>1. /\ out # <<>> /\ m2h' = Append(m2h, Head(out)) /\ out' = Tail(out)
      /\ UNCHANGED <<h2m, owed, host>>
  BY DEF MeWrite
<1>2. ~Empty /\ ~Unfinished
  BY <1>1 DEF Empty, Quiet, Unfinished
<1>3. ASSUME OnItsWay PROVE OnItsWay'
  <2>1. Answering
    BY <1>1, <1>2, <1>3 DEF OnItsWay, Owed, Requested, Quiet
  <2>2. Stream' = Stream
    <3>1. m2h \in Seq(MsgWord) /\ out \in Seq(MsgWord)
      BY DEF Inv, World, Contents
    <3> QED
      BY <1>1, <3>1, StreamMoved DEF Stream
  <2>3. UNCHANGED <<Skip, Read, id, pc, hdr>>
    BY <1>1, SameBegun
  <2>4. Answering'
    BY <1>1, <2>1, <2>2, <2>3 DEF Answering
  <2> QED
    BY <2>4 DEF OnItsWay
<1> QED
  BY <1>1, <1>2, <1>3, MeOwn

LEMMA MeResetOwn == ASSUME Own, MeReset PROVE Own'
<1>1. UNCHANGED host /\ Empty'
  BY DEF MeReset, Emptied, Empty, Quiet
<1>2. Unfinished' /\ OnItsWay'
  BY <1>1, EmptyIs, PTL
<1> QED
  BY <1>1, <1>2, MeOwn

\* What is on its way stays what it is when no buffer changes and the host does not move.
LEMMA StillOwn == ASSUME Own, UNCHANGED <<h2m, m2h, me, host>> PROVE Own'
<1>1. UNCHANGED <<owed, out>> /\ UNCHANGED <<Begun, Skip, Read, id, pc, hdr>>
  BY SameBegun DEF me
<1>2. (Empty => Empty') /\ (Unfinished => Unfinished')
  BY <1>1 DEF Empty, Unfinished, Quiet
<1>3. OnItsWay => OnItsWay'
  BY <1>1, OnItsWayKept
<1> QED
  BY <1>2, <1>3, MeOwn

\* Every step preserves Own.
LEMMA OwnNext == Lengths /\ Answers /\ Inv /\ Cut /\ Own /\ [Next]_vars => Own'
<1> SUFFICES ASSUME Lengths, Answers, Inv, Cut, Own, [Next]_vars PROVE Own'
  OBVIOUS
<1>1. CASE Host
  BY <1>1, CheckForHeciResetOwn, ReadyOwn, FailsOwn, BeginsResetOwn, HeciPacketWriteOwn,
     PacketWrittenOwn, ReadHeaderOwn, ReadBodyOwn, PacketReadOwn, NoPacketOwn, ResetOverOwn,
     MeResetWaitFailsOwn DEF Host
<1>2. CASE MeReady
  <2>1. UNCHANGED <<h2m, m2h, me, host>>
    BY <1>2 DEF MeReady
  <2> QED
    BY <2>1, StillOwn
<1>3. CASE ME
  BY <1>2, <1>3, MeTakeOwn, MeAnswerOwn, MeLoseOwn, MeWriteOwn, MeResetOwn DEF ME
<1>4. CASE UNCHANGED vars
  <2>1. UNCHANGED <<h2m, m2h, me, host>>
    BY <1>4 DEF vars, host
  <2> QED
    BY <2>1, StillOwn
<1> QED
  BY <1>1, <1>3, <1>4, CallOwn DEF Next

LEMMA InitOwn == Init => Own
<1> SUFFICES ASSUME Init PROVE Own
  OBVIOUS
<1>1. Empty /\ Fresh /\ pc = "idle"
  BY DEF Init, Empty, Quiet, Fresh, Where
<1> QED
  BY <1>1, EmptyIs DEF Own

\* The invariants of answers are ones.
LEMMA OwnHolds == ASSUME Lengths, Answers PROVE Spec => [](Inv /\ Cut /\ Own)
<1>1. Init => Cut
  BY DEF Init, Cut, Where, SendAt
<1>2. Inv /\ Cut /\ [Next]_vars => Cut'
  BY CutNext
<1>3. Inv /\ Cut /\ Own /\ [Next]_vars => Own'
  BY OwnNext
<1> QED
  BY <1>1, <1>2, <1>3, InitInv, InitOwn, NextInv, PTL DEF Spec

\* A call that succeeds, with no failure since the last reset, leaves nothing behind in
\* the buffers or with the ME: HeciReceive reads the whole answer, packet by packet, and
\* no word more.
THEOREM HeciNothingLeft == ASSUME Lengths, Answers PROVE Spec => []NothingLeft
<1>1. Own => NothingLeft
  BY EmptyIs DEF Own, NothingLeft, NothingSent, Clean
<1> QED
  BY <1>1, OwnHolds, PTL

\* How an operation ends, as far as its result goes.
LEMMA ReturnsOwn ==
  ASSUME OwnAnswer, NEW s, EndAttempt(s) \/ Return(s), s # "SUCCESS" \/ op.kind \notin Acks
  PROVE  OwnAnswer'
<1>1. CASE Return(s)
  <2>1. result' = [status |-> s, kind |-> op.kind, id |-> id, answer |-> answer, dirty |-> dirty]
    BY <1>1 DEF Return
  <2>2. result'.status # "SUCCESS" \/ result'.kind \notin Acks
    BY <2>1
  <2> QED
    BY <2>2 DEF OwnAnswer
<1>2. CASE EndAttempt(s) /\ ~Return(s)
  BY <1>2 DEF EndAttempt, OwnAnswer
<1> QED
  BY <1>1, <1>2

\* The steps that end no operation, those that end one with an error, and the success.
LEMMA SameResult == ASSUME OwnAnswer, UNCHANGED result PROVE OwnAnswer'
BY DEF OwnAnswer

LEMMA PacketReadResult == ASSUME Inv, Own, OwnAnswer, PacketRead PROVE OwnAnswer'
<1>0. /\ pc = "rDone"
      /\ IF hdr.len = 0 THEN EndAttempt(IF got = 0 /\ hdr.last THEN "SUCCESS" ELSE "NO_RESPONSE")
         ELSE IF ~meRdy THEN EndAttempt("DEVICE_ERROR")
         ELSE IF hdr.last THEN EndAttempt("SUCCESS")
         ELSE IF got' >= RecLength THEN EndAttempt("BUFFER_TOO_SMALL")
         ELSE Goto("rHead")
  BY DEF PacketRead
<1>1. CASE EndAttempt("SUCCESS")
  <2>1. result' = [status |-> "SUCCESS", kind |-> op.kind, id |-> id, answer |-> answer, dirty |-> dirty]
    BY <1>1 DEF EndAttempt, Final, Return
  <2>2. SUFFICES ASSUME ~dirty, op.kind = "ack" => id.try = 1 PROVE answer = {id}
    BY <2>1 DEF OwnAnswer
  <2>3. op.kind = "ack" => ~(tries < MaxTry)
    <3>1. SUFFICES ASSUME op.kind = "ack" PROVE ~(tries < MaxTry)
      OBVIOUS
    <3>2. tries \in Nat /\ MaxTry \in Nat
      BY Constants DEF Inv, HostInv, HostTypes
    <3>3. id.try = MaxTry - tries + 1
      BY <1>0, <3>1 DEF Inv, HostInv, Tried, Attempts
    <3> QED
      BY <2>2, <3>1, <3>2, <3>3
  <2>4. Clean
    BY <1>0, <2>2, <2>3 DEF Clean
  <2> QED
    BY <1>0, <2>4 DEF Own
<1>2. CASE \E s \in {"NO_RESPONSE", "DEVICE_ERROR", "BUFFER_TOO_SMALL"} : EndAttempt(s)
  BY <1>2, ReturnsOwn
<1>3. CASE Goto("rHead")
  BY <1>3, SameResult DEF Goto
<1> QED
  BY <1>0, <1>1, <1>2, <1>3

LEMMA SendResult == ASSUME Inv, OwnAnswer, PacketWritten PROVE OwnAnswer'
<1>1. \/ EndAttempt("DEVICE_ERROR")
      \/ op.kind = "send" /\ EndAttempt("SUCCESS")
      \/ UNCHANGED result
  BY DEF PacketWritten, Goto
<1>2. "send" \notin Acks
  BY DEF Acks
<1> QED
  BY <1>1, <1>2, ReturnsOwn, SameResult

LEMMA ResetResult == ASSUME Inv, OwnAnswer, FinishReset \/ ResetFails PROVE OwnAnswer'
<1>0. Place
  BY DEF Inv, HostInv
<1>1. CASE FinishReset
  <2>1. CASE after = "user"
    <3>1. op.kind \notin Acks /\ Return("SUCCESS")
      BY <1>0, <1>1, <2>1 DEF FinishReset, Place, Resets, Acks
    <3> QED
      BY <3>1, ReturnsOwn
  <2>2. CASE after # "user"
    BY <1>1, <2>2, SameResult DEF FinishReset, Goto
  <2> QED
    BY <2>1, <2>2
<1>2. CASE ResetFails
  <2>1. PICK s \in {"TIMEOUT", "DEVICE_ERROR"} : EndAttempt(s) \/ Return(s)
    BY <1>2, WaitFailsAt DEF ResetFails
  <2> QED
    BY <2>1, ReturnsOwn
<1> QED
  BY <1>1, <1>2

LEMMA FailsResult ==
  ASSUME OwnAnswer, NotAllowed \/ NotReady \/ NeverEmptied \/ NoPacket \/ MeResetWaitFails
  PROVE  OwnAnswer'
<1>1. CASE NotReady
  <2>1. PICK s \in {"TIMEOUT", "DEVICE_ERROR"} : EndAttempt(s)
    BY <1>1, WaitFailsAt DEF NotReady
  <2> QED
    BY <2>1, ReturnsOwn
<1>2. CASE NotAllowed \/ NeverEmptied \/ NoPacket \/ MeResetWaitFails
  <2>1. \E s \in {"UNSUPPORTED", "TIMEOUT", "NO_RESPONSE"} : EndAttempt(s) \/ Return(s)
    BY <1>2 DEF NotAllowed, NeverEmptied, NoPacket, MeResetWaitFails
  <2>2. PICK s \in {"UNSUPPORTED", "TIMEOUT", "NO_RESPONSE"} : EndAttempt(s) \/ Return(s)
    BY <2>1
  <2> QED
    BY <2>2, ReturnsOwn
<1> QED
  BY <1>1, <1>2

LEMMA OthersResult ==
  ASSUME OwnAnswer,
         \/ CheckForHeciReset \/ Ready \/ ResetAsked \/ HeciPacketWrite \/ ReadHeader \/ ReadBody
         \/ RetryReset \/ ControlReset \/ ME \/ UNCHANGED vars
  PROVE  OwnAnswer'
<1>1. CASE CheckForHeciReset \/ ReadHeader
  <2>1. UNCHANGED result \/ \E s \in {"DEVICE_ERROR", "BUFFER_TOO_SMALL"} : EndAttempt(s)
    BY <1>1 DEF CheckForHeciReset, ReadHeader, Goto
  <2>2. CASE \E s \in {"DEVICE_ERROR", "BUFFER_TOO_SMALL"} : EndAttempt(s)
    BY <2>2, ReturnsOwn
  <2> QED
    BY <2>1, <2>2, SameResult
<1>2. CASE Ready \/ HeciPacketWrite \/ ReadBody
  BY <1>2, SameResult DEF Ready, HeciPacketWrite, ReadBody, Goto
<1>3. CASE ResetAsked \/ RetryReset \/ ControlReset
  BY <1>3, SameResult DEF ResetAsked, RetryReset, ControlReset, BeginReset
<1>4. CASE ME
  BY <1>4, SameResult DEF ME, MeTake, MeAnswer, MeLose, MeWrite, MeReset, MeReady, host
<1>5. CASE UNCHANGED vars
  BY <1>5, SameResult DEF vars
<1> QED
  BY <1>1, <1>2, <1>3, <1>4, <1>5

LEMMA CallResult == ASSUME Request \/ Receive \/ Control PROVE OwnAnswer'
<1>1. result' = NoResult
  BY DEF Request, Receive, Control, Begin
<1> QED
  BY <1>1 DEF OwnAnswer, NoResult

\* Every step preserves OwnAnswer.
LEMMA OwnAnswerNext == Inv /\ Own /\ OwnAnswer /\ [Next]_vars => OwnAnswer'
BY CallResult, OthersResult, FailsResult, ResetResult, SendResult, PacketReadResult DEF Next, Host

\* What a call receives answers what it sent, and is the whole of that answer, if nothing
\* has failed since the last reset; for HeciSendwAck, if its first attempt succeeds.
THEOREM HeciOwnAnswer == ASSUME Lengths, Answers PROVE Spec => []OwnAnswer
<1>1. Init => OwnAnswer
  BY DEF Init, OwnAnswer, NoResult
<1> QED
  BY <1>1, OwnAnswerNext, OwnHolds, PTL DEF Spec
=============================================================================
