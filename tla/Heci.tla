--------------------------------- MODULE Heci ---------------------------------
(***************************************************************************)
(* The HECI transport between the host and the management engine (ME):     *)
(* Me/Library/Private/PeiDxeHeciInitLib/HeciCore.c.  A message crosses a   *)
(* circular buffer of CBD words in packets of one header word and a body.  *)
(* Each wait of the code polls a register and may time out.  The host is   *)
(* one thread; the ME acts between any two of its steps.                   *)
(***************************************************************************)
EXTENDS Integers, Sequences

CONSTANTS CBD,        \* depth of each circular buffer, in words
          MaxTry,     \* HECI_MAX_RETRY
          ReqLens,    \* lengths of requests, in bytes
          RecLength,  \* length of the callers' buffers, in words
          Shapes,     \* answers of the ME: sequences of words
          Kinds,      \* operations that callers use
          MaxCalls,   \* bound on requests
          MaxResets   \* bound on resets that the ME begins

AllKinds == {"ackRetry", "ack", "send", "receive", "poll", "reset", "reinit"}

\* A word of an answer: the header of a packet, which says how many words follow,
\* whether they end the answer and how many came before; or a word of the body.
Word == [head : {TRUE}, len : Nat, last : BOOLEAN, off : Nat] \union [head : {FALSE}]

ASSUME HeciAssumption ==
  /\ CBD \in Nat \ {0, 1} /\ MaxTry \in Nat \ {0} /\ RecLength \in Nat \ {0}
  /\ MaxCalls \in Nat /\ MaxResets \in Nat
  /\ ReqLens \subseteq Nat \ {0} /\ Shapes \subseteq Seq(Word)
  /\ Kinds \subseteq AllKinds

VARIABLES
  hRdy, hRst,     \* H_CSR: host ready, host reset
  meRdy, meRst,   \* ME_CSR_HA: ME ready, ME asks for a reset
  h2m, m2h,       \* the circular buffers, oldest word first
  asm, owed, out, \* ME: message being put together, requests, words of an answer
  meResets,       \* resets that the ME has begun
  pc, after,      \* position of the host; where ResetHeciInterface was called
  op,             \* operation and Length
  tries, id,      \* attempts left; the request on its way
  cur, complete,  \* HeciSend: CurrentLength, MessageComplete
  hdr, got,       \* HeciReceive: header just read, CurrentLength in words
  answer,         \* requests that the words just read answer
  result,         \* what the last operation returned
  dirty, waiting  \* an operation failed since the last reset; HeciSend is unanswered

regs == <<hRdy, hRst, meRdy, meRst>>
me   == <<asm, owed, out>>
xfer == <<cur, complete, hdr, got, answer>>
vars == <<regs, h2m, m2h, me, meResets, pc, after, op, tries, id, xfer, result, dirty, waiting>>

NoId    == [call |-> 0, try |-> 0]
Garbage == [call |-> 0, try |-> 1]
NoAsm   == [id |-> NoId, bytes |-> 0]
Words(n) == (n + 3) \div 4

\* off and want: where the packet begins in its message, and how long that is.
Header(i, len, last, off, want) ==
  [head |-> TRUE, id |-> i, len |-> len, last |-> last, off |-> off, want |-> want]
Body(i) == [head |-> FALSE, id |-> i]
Bodies(i, n) == [k \in 1..n |-> Body(i)]

NoResult == [status |-> "NONE", kind |-> "reset", id |-> NoId, answer |-> {}, dirty |-> FALSE]
NoHdr    == [len |-> 0, last |-> FALSE]

Init ==
  /\ hRdy = FALSE /\ hRst = FALSE /\ meRdy \in BOOLEAN /\ meRst = FALSE
  /\ h2m = <<>> /\ m2h = <<>>
  /\ asm = NoAsm /\ owed = <<>> /\ out = <<>> /\ meResets = 0
  /\ pc = "idle" /\ after = "user" /\ op = [kind |-> "reset", len |-> 0]
  /\ tries = MaxTry /\ id = NoId
  /\ cur = 0 /\ complete = FALSE /\ hdr = NoHdr
  /\ got = 0 /\ answer = {}
  /\ result = NoResult
  /\ dirty = FALSE /\ waiting = FALSE
-------------------------------------------------------------------------------
(***************************************************************************)
(* How an attempt, and an operation, ends.  These operators set pc, after, *)
(* tries, result, dirty and waiting.                                       *)
(***************************************************************************)
Goto(p) == pc' = p /\ UNCHANGED <<after, tries, result, dirty, waiting>>

\* A poll that finds no packet is no failure: the caller polls again.
NothingYet(s) == op.kind = "poll" /\ s = "NO_RESPONSE" /\ got = 0

\* After a failure what was asked for may still come; so it may after a second
\* attempt of HeciSendwAck, which does not reset the interface in between.
Return(s) ==
  /\ pc' = "idle" /\ UNCHANGED <<after, tries>>
  /\ result' = [status |-> s, kind |-> op.kind, id |-> id, answer |-> answer, dirty |-> dirty]
  /\ dirty' = \/ dirty
              \/ s # "SUCCESS" /\ ~NothingYet(s) /\ op.kind \notin {"reset", "reinit"}
              \/ op.kind = "ack" /\ tries < MaxTry
  /\ waiting' = CASE op.kind \in {"reset", "reinit"} -> waiting
                  [] op.kind = "send" -> s = "SUCCESS"
                  [] OTHER -> NothingYet(s)

Sending ==
  \/ pc \in {"sCheck", "sInit", "sReady", "pReady", "pRoom", "pCheck"}
  \/ pc = "reset" /\ after \in {"sInit", "sReady", "pReady"}

\* No further attempt: HeciSendwAck gives up when sending fails, the others on
\* a critical error.
Final(s) ==
  \/ s = "SUCCESS" \/ tries = 1 \/ op.kind = "poll"
  \/ op.kind = "ack" /\ Sending
  \/ op.kind # "ack" /\ s \in {"DEVICE_ERROR", "UNSUPPORTED"}
  \/ op.kind = "receive" /\ s = "BUFFER_TOO_SMALL"

\* Mistake: attempts are not counted.
EndAttemptUncounted(s) ==
  IF Final(s) THEN Return(s)
  ELSE /\ pc' = IF op.kind = "ack" THEN "sCheck" ELSE "retry"
       /\ UNCHANGED <<after, tries, result, dirty, waiting>>

EndAttempt(s) ==
  IF Final(s) THEN Return(s)
  ELSE /\ tries' = tries - 1
       /\ pc' = IF op.kind = "ack" THEN "sCheck" ELSE "retry"
       /\ UNCHANGED <<after, result, dirty, waiting>>

First(k) == IF k \in {"receive", "poll"} THEN "rCheck" ELSE "sCheck"
-------------------------------------------------------------------------------
(***************************************************************************)
(* Resets.                                                                 *)
(***************************************************************************)
\* A reset by either side empties the buffers, and the ME drops its work.
Emptied == h2m' = <<>> /\ m2h' = <<>> /\ asm' = NoAsm /\ owed' = <<>> /\ out' = <<>>

\* ResetHeciInterface sets H_RST, unless an earlier reset left it set.
BeginReset(from) ==
  /\ pc' = "reset" /\ after' = from /\ dirty' = FALSE /\ waiting' = FALSE
  /\ IF hRst THEN UNCHANGED <<regs, h2m, m2h, me>>
     ELSE /\ hRst' = TRUE /\ hRdy' = FALSE /\ meRdy' = FALSE /\ UNCHANGED meRst
          /\ Emptied
  /\ UNCHANGED <<meResets, op, tries, id, xfer, result>>

\* Where the host goes on after WaitForMEReady, by where it waited.
AfterWait == [sInit |-> "sReady", sReady |-> "pReady", pReady |-> "pRoom",
              rInit |-> "rReady", rReady |-> "rHead"]

\* What the code at a wait makes of an error of WaitForMEReady.
WaitFails(at) == EndAttempt(IF at \in {"sInit", "rInit"} THEN "DEVICE_ERROR" ELSE "TIMEOUT")

FinishReset ==
  /\ pc = "reset" /\ meRdy
  /\ hRst' = FALSE /\ hRdy' = TRUE /\ UNCHANGED <<meRdy, meRst>>
  /\ IF after = "user" THEN Return("SUCCESS")
     ELSE Goto(IF after = "retry" THEN First(op.kind) ELSE AfterWait[after])
  /\ UNCHANGED <<h2m, m2h, me, meResets, op, id, xfer>>

\* No ME_RDY in time, or no firmware status: H_RST stays set.
ResetFails ==
  /\ pc = "reset"
  /\ IF after \in DOMAIN AfterWait THEN WaitFails(after)
     ELSE \E s \in {"TIMEOUT", "DEVICE_ERROR"} : Return(s)
  /\ UNCHANGED <<regs, h2m, m2h, me, meResets, op, id, xfer>>

\* Mistake: the next attempt begins without a reset.
RetryAtOnce ==
  /\ pc = "retry" /\ Goto(First(op.kind))
  /\ UNCHANGED <<regs, h2m, m2h, me, meResets, op, id, xfer>>

RetryReset == pc = "retry" /\ BeginReset("retry")
-------------------------------------------------------------------------------
(***************************************************************************)
(* Waits for the ME, in HeciInitialize, HeciSend, HeciPacketWrite and      *)
(* HeciReceive.  A poll does not wait: it uses IsMEReady.                  *)
(***************************************************************************)
\* CheckForHeciReset, then HeciInitialize, which does nothing if H_RDY is set.
CheckForHeciReset ==
  /\ pc \in {"sCheck", "rCheck"}
  /\ IF op.kind = "poll" /\ ~(hRdy /\ meRdy) THEN EndAttempt("DEVICE_ERROR")
     ELSE IF pc = "sCheck" THEN Goto(IF hRdy THEN "sReady" ELSE "sInit")
     ELSE Goto(IF hRdy THEN "rReady" ELSE "rInit")
  /\ id' = IF pc = "sCheck" THEN [id EXCEPT !.try = @ + 1] ELSE id
  /\ cur' = 0 /\ complete' = FALSE /\ hdr' = NoHdr /\ got' = 0 /\ answer' = {}
  /\ UNCHANGED <<regs, h2m, m2h, me, meResets, op>>

\* CheckMsgAllowance, or the mode of the ME, forbids the message.
NotAllowed ==
  /\ pc = "sCheck" /\ EndAttempt("UNSUPPORTED")
  /\ UNCHANGED <<regs, h2m, m2h, me, meResets, op, id, xfer>>

Ready ==
  /\ pc \in DOMAIN AfterWait /\ meRdy /\ (meRst => op.kind = "poll")
  /\ IF pc \in {"sInit", "rInit"} THEN hRdy' = TRUE /\ hRst' = FALSE
                                  ELSE UNCHANGED <<hRdy, hRst>>
  /\ Goto(AfterWait[pc])
  /\ UNCHANGED <<meRdy, meRst, h2m, m2h, me, meResets, op, id, xfer>>

ResetAsked == pc \in DOMAIN AfterWait /\ op.kind # "poll" /\ meRst /\ BeginReset(pc)

NotReady ==
  /\ pc \in DOMAIN AfterWait /\ ~meRdy /\ (meRst => op.kind = "poll")
  /\ WaitFails(pc)
  /\ UNCHANGED <<regs, h2m, m2h, me, meResets, op, id, xfer>>
-------------------------------------------------------------------------------
(***************************************************************************)
(* HeciSend: the message goes out in packets of at most CBD - 1 words.     *)
(***************************************************************************)
\* Mistake: the word of the header is forgotten.
MessageCompleteEarly(left) == complete \/ Words(left) <= CBD

\* MessageComplete is set for the last packet, and then stays set.
MessageComplete(left) ==
  \/ complete
  \/ Words(left) < CBD
  \/ Words(left) = CBD /\ (left + 3) % 4 = 0

SendLength(left) == IF CBD <= Words(left) THEN (CBD - 1) * 4 ELSE left

Packet(left) ==
  <<Header(id, SendLength(left), MessageComplete(left), op.len - left, op.len)>>
    \o Bodies(id, Words(SendLength(left)))

\* Mistake: room for the body only.
HasRoomForBody(buffer, n) == n <= CBD - Len(buffer)

\* Room for the body and its header.
HasRoom(buffer, n) == n + 1 <= CBD - Len(buffer)

HeciPacketWrite ==
  /\ pc = "pRoom"
  /\ LET left == op.len - cur IN
       /\ HasRoom(h2m, Words(SendLength(left)))
       /\ h2m' = h2m \o Packet(left)
       /\ complete' = MessageComplete(left)
  /\ Goto("pCheck")
  /\ UNCHANGED <<regs, m2h, me, meResets, op, id, cur, hdr, got, answer>>

NeverEmptied ==
  /\ pc = "pRoom" /\ ~HasRoom(h2m, Words(SendLength(op.len - cur)))
  /\ EndAttempt("TIMEOUT")
  /\ UNCHANGED <<regs, h2m, m2h, me, meResets, op, id, xfer>>

\* ME_RDY clear is an error; otherwise the next packet, or the answer.
PacketWritten ==
  /\ pc = "pCheck"
  /\ LET sent == cur + SendLength(op.len - cur) IN
       /\ cur' = IF meRdy THEN sent ELSE cur
       /\ IF ~meRdy THEN EndAttempt("DEVICE_ERROR")
          ELSE IF sent < op.len THEN Goto("pReady")
          ELSE IF op.kind = "send" THEN EndAttempt("SUCCESS")
          ELSE Goto("rCheck")
  /\ UNCHANGED <<regs, h2m, m2h, me, meResets, op, id, complete, hdr, got, answer>>
-------------------------------------------------------------------------------
(***************************************************************************)
(* HeciReceive: packets until one is marked complete.                      *)
(***************************************************************************)
\* What a word means that is read where a header is expected.
AsHeader(w) ==
  IF w.head THEN {[len |-> w.len, last |-> w.last]}
  ELSE [len : {0, 1, CBD}, last : BOOLEAN]

\* HeciPacketRead eats the header, and leaves the body if it cannot take it.
ReadHeader ==
  /\ pc = "rHead" /\ m2h # <<>>
  /\ m2h' = Tail(m2h)
  /\ \E h \in AsHeader(Head(m2h)) :
       /\ hdr' = h
       /\ IF h.len = 0 THEN Goto("rDone")
          ELSE IF h.len + 1 > CBD THEN EndAttempt("DEVICE_ERROR")
          ELSE IF h.len > RecLength - got THEN EndAttempt("BUFFER_TOO_SMALL")
          ELSE Goto("rBody")
  /\ answer' = answer \union {IF Head(m2h).head /\ Head(m2h).off = got
                              THEN Head(m2h).id ELSE Garbage}
  /\ UNCHANGED <<regs, h2m, me, meResets, op, id, cur, complete, got>>

ReadBody ==
  /\ pc = "rBody" /\ hdr.len <= Len(m2h)
  /\ m2h' = SubSeq(m2h, hdr.len + 1, Len(m2h))
  /\ answer' = answer \union {IF m2h[k].head THEN Garbage ELSE m2h[k].id : k \in 1..hdr.len}
  /\ Goto("rDone")
  /\ UNCHANGED <<regs, h2m, me, meResets, op, id, cur, complete, hdr, got>>

\* Mistake: the first packet is taken for the whole answer.
FirstPacketIsAll ==
  /\ pc = "rDone"
  /\ got' = got + hdr.len
  /\ EndAttempt(IF meRdy THEN "SUCCESS" ELSE "DEVICE_ERROR")
  /\ UNCHANGED <<regs, h2m, m2h, me, meResets, op, id, cur, complete, hdr, answer>>

\* ME_RDY clear: the ME has reset, and the packet is discarded.  Otherwise the
\* packet ends the message, or fills the buffer, or another follows.
PacketRead ==
  /\ pc = "rDone"
  /\ got' = got + hdr.len
  /\ IF hdr.len = 0 THEN EndAttempt(IF got = 0 /\ hdr.last THEN "SUCCESS" ELSE "NO_RESPONSE")
     ELSE IF ~meRdy THEN EndAttempt("DEVICE_ERROR")
     ELSE IF hdr.last THEN EndAttempt("SUCCESS")
     ELSE IF got' >= RecLength THEN EndAttempt("BUFFER_TOO_SMALL")
     ELSE Goto("rHead")
  /\ UNCHANGED <<regs, h2m, m2h, me, meResets, op, id, cur, complete, hdr, answer>>

\* The time is up, be there a packet by now or not; a poll finds no packet.
NoPacket ==
  /\ \/ pc = "rHead" /\ op.kind = "poll" /\ m2h = <<>> /\ EndAttempt("NO_RESPONSE")
     \/ pc = "rHead" /\ EndAttempt("TIMEOUT")
     \/ pc = "rBody" /\ hdr.len > Len(m2h) /\ EndAttempt("TIMEOUT")
  /\ UNCHANGED <<regs, h2m, m2h, me, meResets, op, id, xfer>>
-------------------------------------------------------------------------------
(***************************************************************************)
(* Callers: they receive the answer to what they sent before they send     *)
(* again.                                                                  *)
(***************************************************************************)
Begin(k, len) ==
  /\ k \in Kinds
  /\ op' = [kind |-> k, len |-> len] /\ tries' = MaxTry /\ result' = NoResult
  /\ cur' = 0 /\ complete' = FALSE /\ hdr' = NoHdr /\ got' = 0 /\ answer' = {}
  /\ UNCHANGED <<h2m, m2h, regs, me, meResets, after, dirty, waiting>>

Request ==
  /\ pc = "idle" /\ ~waiting /\ id.call < MaxCalls
  /\ \E k \in {"ackRetry", "ack", "send"}, len \in ReqLens : Begin(k, len)
  /\ pc' = "sCheck" /\ id' = [call |-> id.call + 1, try |-> 0]

Receive ==
  /\ pc = "idle" /\ waiting
  /\ \E k \in {"receive", "poll"} : Begin(k, 0)
  /\ pc' = "rCheck" /\ UNCHANGED id

\* ResetHeciInterface, or HeciReInitialize: wait for H_RDY to clear, then reset.
Control ==
  /\ pc = "idle"
  /\ \E k \in {"reset", "reinit"} : Begin(k, 0)
  /\ pc' = "control" /\ UNCHANGED id

ControlReset == pc = "control" /\ (op.kind = "reinit" => ~hRdy) /\ BeginReset("user")

MeResetWaitFails ==
  /\ pc = "control" /\ op.kind = "reinit" /\ hRdy
  /\ Return("TIMEOUT")
  /\ UNCHANGED <<regs, h2m, m2h, me, meResets, op, id, xfer>>

Host ==
  \/ CheckForHeciReset \/ NotAllowed \/ Ready \/ ResetAsked \/ NotReady
  \/ HeciPacketWrite \/ NeverEmptied \/ PacketWritten
  \/ ReadHeader \/ ReadBody \/ PacketRead \/ NoPacket
  \/ RetryReset \/ FinishReset \/ ResetFails
  \/ ControlReset \/ MeResetWaitFails
-------------------------------------------------------------------------------
(***************************************************************************)
(* The ME, as the code expects it: it moves only while both sides are      *)
(* ready, may be late, lose a request, and reset.                          *)
(***************************************************************************)
host == <<pc, after, op, tries, id, xfer, result, dirty, waiting>>
Moves == meRdy /\ hRdy

\* A packet is taken.  At the end of a message the ME owes an answer; whole says
\* whether it got the message from its first byte to its last.
MeTake ==
  /\ Moves /\ h2m # <<>>
  /\ LET h == Head(h2m)
         fits == h.off = asm.bytes /\ (h.off > 0 => h.id = asm.id)
     IN /\ h2m' = SubSeq(h2m, Words(h.len) + 2, Len(h2m))
        /\ IF h.last
           THEN /\ owed' = Append(owed, [id |-> h.id, whole |-> fits /\ h.off + h.len = h.want])
                /\ asm' = NoAsm
           ELSE /\ asm' = [id |-> h.id, bytes |-> asm.bytes + h.len]
                /\ UNCHANGED owed
  /\ UNCHANGED <<regs, m2h, out, meResets, host>>

\* The words of an answer to request i.
AnswerWords(i, shape) ==
  [k \in DOMAIN shape |-> IF shape[k].head
                          THEN Header(i, shape[k].len, shape[k].last, shape[k].off, 0)
                          ELSE Body(i)]

MeAnswer ==
  /\ Moves /\ owed # <<>> /\ out = <<>>
  /\ \E shape \in Shapes : out' = AnswerWords(Head(owed).id, shape)
  /\ owed' = Tail(owed)
  /\ UNCHANGED <<regs, h2m, m2h, asm, meResets, host>>

MeLose ==
  /\ Moves /\ owed # <<>> /\ owed' = Tail(owed)
  /\ UNCHANGED <<regs, h2m, m2h, asm, out, meResets, host>>

MeWrite ==
  /\ Moves /\ out # <<>> /\ Len(m2h) < CBD
  /\ m2h' = Append(m2h, Head(out)) /\ out' = Tail(out)
  /\ UNCHANGED <<regs, h2m, asm, owed, meResets, host>>

MeReset ==
  /\ meResets < MaxResets /\ meResets' = meResets + 1
  /\ meRdy' = FALSE /\ meRst' \in BOOLEAN /\ hRdy' = FALSE /\ UNCHANGED hRst
  /\ Emptied
  /\ UNCHANGED host

MeReady ==
  /\ ~meRdy /\ meRdy' = TRUE /\ meRst' = FALSE
  /\ UNCHANGED <<hRdy, hRst, h2m, m2h, me, meResets, host>>

ME == MeTake \/ MeAnswer \/ MeLose \/ MeWrite \/ MeReset \/ MeReady

Next == Request \/ Receive \/ Control \/ Host \/ ME

Spec == Init /\ [][Next]_vars

\* The host executes; of the ME nothing is assumed.
FairSpec == Spec /\ WF_vars(Host)
-------------------------------------------------------------------------------
(***************************************************************************)
(* Properties.                                                             *)
(***************************************************************************)
Ids == [call : 0..MaxCalls, try : 0..MaxTry]
Statuses == {"NONE", "SUCCESS", "TIMEOUT", "DEVICE_ERROR", "UNSUPPORTED",
             "NO_RESPONSE", "BUFFER_TOO_SMALL"}

\* Neither circular buffer is ever given more words than it holds.
TypeOK ==
  /\ {hRdy, hRst, meRdy, meRst, complete, dirty, waiting} \subseteq BOOLEAN
  /\ pc \in {"idle", "control", "reset", "retry", "sCheck", "pRoom", "pCheck", "rCheck",
             "rHead", "rBody", "rDone"} \union DOMAIN AfterWait
  /\ after \in {"user", "retry"} \union DOMAIN AfterWait
  /\ op \in [kind : AllKinds, len : ReqLens \union {0}]
  /\ tries \in 1..MaxTry /\ id \in Ids
  /\ cur \in Nat /\ got \in Nat /\ hdr \in [len : Nat, last : BOOLEAN]
  /\ Len(h2m) <= CBD /\ Len(m2h) <= CBD
  /\ meResets \in 0..MaxResets
  /\ answer \subseteq Ids
  /\ result \in [status : Statuses, kind : AllKinds, id : Ids,
                 answer : SUBSET Ids, dirty : BOOLEAN]

\* When an operation has succeeded and none has failed since the last reset,
\* nothing is left in the buffers or owed by the ME that a later call could take
\* for its answer (HeciReceive takes the whole answer and no more).
NothingLeft ==
  pc = "idle" /\ ~dirty /\ ~waiting => h2m = <<>> /\ m2h = <<>> /\ owed = <<>> /\ out = <<>>

\* A success is the answer to this attempt of this call, from its first word to its
\* last, if no earlier operation failed after the last reset; the attempts of
\* HeciSendwAckWithRetry are kept apart by ResetHeciInterface.  For HeciSendwAck,
\* which does not reset between attempts, it is so for the first attempt only.
Acks == {"ackRetry", "ack", "receive", "poll"}
OwnAnswer ==
  /\ result.status = "SUCCESS" /\ result.kind \in Acks /\ ~result.dirty
  /\ result.kind = "ack" => result.id.try = 1
  => result.answer = {result.id}

\* What HeciCore.c says of HeciSendwAck: it "waits for the corresponding ACK message".
CorrespondingAck ==
  result.status = "SUCCESS" /\ result.kind \in Acks =>
    \A a \in result.answer : a.call = result.id.call

\* The ME gets every message whole from a HeciSend that splits it into packets, as
\* long as no operation has failed since the last reset (HeciSend may have failed
\* halfway) and the ME has not begun one itself (HeciPacketWrite would go on with
\* the next packet).
WholeRequests == meResets = 0 /\ ~dirty => \A k \in DOMAIN owed : owed[k].whole

\* Every operation returns, whatever the ME does: each wait has a timeout and each
\* loop of retries an end.
Returns == pc # "idle" ~> pc = "idle"

\* What the proofs of the last three invariants rest on.  No request has a length that leaves one byte
\* for its last packet: the header of the packet before is then marked complete as well
\* (README, section 3).
Room    == (CBD - 1) * 4
Lengths == \A len \in ReqLens : \A i \in 1..len : len # Room * i + 1

\* The ME answers in packets: a header, the words it announces, the next header; each
\* says how many words of the answer came before it, and only the final one is marked so.
Past(s, k) == k + s[k].len + 1
Packets(s, first, off) ==
  /\ first <= Len(s) => s[first].head /\ s[first].off = off
  /\ \A k \in first..Len(s) : s[k].head =>
       /\ Past(s, k) - 1 <= Len(s) /\ \A j \in k + 1..Past(s, k) - 1 : ~s[j].head
       /\ s[k].last <=> Past(s, k) > Len(s)
       /\ Past(s, k) <= Len(s) => s[Past(s, k)].head /\ s[Past(s, k)].off = s[k].off + s[k].len
Answers == \A shape \in Shapes : Packets(shape, 1, 0)
===============================================================================
