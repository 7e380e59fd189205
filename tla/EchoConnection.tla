--------------------------- MODULE EchoConnection ---------------------------
(***************************************************************************)
(* One connection of the echo server: network/Stream.cpp, the one-shot     *)
(* events of network/LibeventReactor.cpp under it, and                     *)
(* examples/ConcurrenceEchoServer/ConcurrentConnection.cpp on top.         *)
(*                                                                         *)
(* Everything here runs on the worker's loop thread, one event handler at  *)
(* a time; what is uncertain is the kernel and the peer: how many bytes a  *)
(* recv or send moves, when it would block, when the peer goes away.       *)
(*                                                                         *)
(* A frame is a head of HeadLen bytes that holds the body's length, and    *)
(* the body.  A byte is <<"head", length, k>> or <<"body", frame, k>>.     *)
(***************************************************************************)
EXTENDS Integers, Sequences, SequencesExt

CONSTANTS
  HeadLen,    \* sizeof(int)
  BuffLen,    \* DEFAULT_BUFF_LEN of Stream.h (1024)
  MaxBody,    \* the limit of ConcurrentConnection.cpp:42 (1024)
  BodyLens,   \* the body lengths the peer uses
  MaxFrames   \* bound: frames the peer sends

ASSUME LengthsAssumption ==
  /\ HeadLen \in Nat \ {0} /\ BuffLen \in Nat /\ MaxBody \in Nat
  /\ HeadLen <= BuffLen
  /\ BodyLens \subseteq Nat /\ MaxFrames \in Nat
\* Both limits are 1024 in the code: what the buffers hold passes the check.
ASSUME MaxBodyAssumption == BuffLen - HeadLen <= MaxBody

VARIABLES
  sent,        \* all bytes the peer has sent
  frames,      \* the body lengths of the frames it has sent
  peerOpen,    \* the peer has not closed
  taken,       \* number of its bytes that recv has taken from the kernel
  returned,    \* all bytes that send has given to the kernel
  open,        \* the connection is in connectionMap_, its descriptor open
  stat,        \* stat_ of the connection
  readEvent,   \* the read event of the descriptor is added
  writeEvent,  \* the write event is added
  recvBuf, recvLen, needRecvLen,   \* recvBuf_, recvLen_, needRecvLen_
  sendBuf, sendLen, needSendLen    \* sendBuf_, sendLen_, needSendLen_

peerVars == <<sent, frames, peerOpen>>
recvVars == <<recvBuf, recvLen, needRecvLen>>
sendVars == <<sendBuf, sendLen, needSendLen>>
vars == <<peerVars, taken, returned, open, stat, readEvent, writeEvent, recvVars, sendVars>>

Zeros(n) == [k \in 1 .. n |-> <<"zero">>]
HeadOf(len) == [k \in 1 .. HeadLen |-> <<"head", len, k>>]
BodyOf(f, len) == [k \in 1 .. len |-> <<"body", f, k>>]
SmallerOf(a, b) == IF a < b THEN a ELSE b

\* vector::resize keeps what fits and fills up with zeros.
Resize(s, n) == SubSeq(s, 1, SmallerOf(n, Len(s))) \o Zeros(n - SmallerOf(n, Len(s)))

\* onConnection and startReadOrWriteInService: the first head is asked for.
Init ==
  /\ sent = << >> /\ frames = << >> /\ peerOpen = TRUE
  /\ taken = 0
  /\ returned = << >>
  /\ open = TRUE
  /\ stat = "RECV_HEAD"
  /\ readEvent = TRUE /\ writeEvent = FALSE
  /\ recvBuf = Zeros(HeadLen) /\ recvLen = 0 /\ needRecvLen = HeadLen
  /\ sendBuf = Zeros(BuffLen) /\ sendLen = 0 /\ needSendLen = 0

-----------------------------------------------------------------------------
(* The peer                                                                *)

PeerSends(len) ==
  /\ peerOpen
  /\ Len(frames) < MaxFrames
  /\ sent' = sent \o HeadOf(len) \o BodyOf(Len(frames) + 1, len)
  /\ frames' = Append(frames, len)
  /\ UNCHANGED <<peerOpen, taken, returned, open, stat, readEvent, writeEvent, recvVars, sendVars>>

PeerCloses ==
  /\ peerOpen
  /\ peerOpen' = FALSE
  /\ UNCHANGED <<sent, frames, taken, returned, open, stat, readEvent, writeEvent, recvVars, sendVars>>

-----------------------------------------------------------------------------
(* The operations of a Stream; buf is what recvBuf_ holds when called      *)

\* Slip: the buffer keeps the size of the last message.
AsyncRecvBytes_NoResize(buf, num) ==
  IF num > BuffLen \/ num <= 0
    THEN /\ recvBuf' = buf
         /\ readEvent' = FALSE
         /\ UNCHANGED <<recvLen, needRecvLen>>
    ELSE /\ recvLen' = 0
         /\ needRecvLen' = num
         /\ recvBuf' = buf
         /\ readEvent' = TRUE

\* Slip: lengths of zero and less are served.
AsyncRecvBytes_AnyLow(buf, num) ==
  IF num > BuffLen
    THEN /\ recvBuf' = buf
         /\ readEvent' = FALSE
         /\ UNCHANGED <<recvLen, needRecvLen>>
    ELSE /\ recvLen' = 0
         /\ needRecvLen' = num
         /\ recvBuf' = Resize(buf, num)
         /\ readEvent' = TRUE

\* Returns false, and adds no event, for a length it does not serve.
AsyncRecvBytes(buf, num) ==
  IF num > BuffLen \/ num <= 0
    THEN /\ recvBuf' = buf
         /\ readEvent' = FALSE
         /\ UNCHANGED <<recvLen, needRecvLen>>
    ELSE /\ recvLen' = 0
         /\ needRecvLen' = num
         /\ recvBuf' = Resize(buf, num)
         /\ readEvent' = TRUE

AsyncSendBytes(bytes) ==
  IF Len(bytes) > BuffLen
    THEN writeEvent' = FALSE /\ UNCHANGED sendVars
    ELSE /\ sendLen' = 0
         /\ needSendLen' = Len(bytes)
         /\ sendBuf' = bytes
         /\ writeEvent' = TRUE

\* removeEventHandler for both directions.
RemoveEvents == readEvent' = FALSE /\ writeEvent' = FALSE

\* _destroy: the connection leaves the map, ~Stream removes both events and
\* closes the descriptor.
Destroy ==
  /\ open' = FALSE
  /\ RemoveEvents
  /\ UNCHANGED <<peerVars, taken, returned, stat, recvVars, sendVars>>

-----------------------------------------------------------------------------
(* _recvOnePack: the read event has fired                                  *)

Readable(n) == n <= Len(sent) - taken

\* recvBuf_ after recv has written n bytes at recvLen_.
Received(n) ==
  [i \in 1 .. Len(recvBuf) |->
     IF i \in recvLen + 1 .. recvLen + n THEN sent[taken + i - recvLen] ELSE recvBuf[i]]

\* recv returns 0 (the peer has closed) or fails for good.
RecvError ==
  /\ open /\ readEvent
  /\ ~peerOpen
  /\ Destroy

\* recv fails with EINTR or EAGAIN: the event is added again.
RecvAgain ==
  /\ open /\ readEvent
  /\ readEvent' = TRUE
  /\ UNCHANGED <<peerVars, taken, returned, open, stat, writeEvent, recvVars, sendVars>>

\* Slip: the fill mark is set instead of advanced.
RecvPart_SetMark(n) ==
  /\ open /\ readEvent
  /\ n < needRecvLen /\ Readable(n)
  /\ recvBuf' = Received(n)
  /\ recvLen' = n
  /\ needRecvLen' = needRecvLen - n
  /\ taken' = taken + n
  /\ readEvent' = TRUE
  /\ UNCHANGED <<peerVars, returned, open, stat, writeEvent, sendVars>>

\* Slip: the event is not added again after a partial message.
RecvPart_NoRearm(n) ==
  /\ open /\ readEvent
  /\ n < needRecvLen /\ Readable(n)
  /\ recvBuf' = Received(n)
  /\ recvLen' = recvLen + n
  /\ needRecvLen' = needRecvLen - n
  /\ taken' = taken + n
  /\ readEvent' = FALSE
  /\ UNCHANGED <<peerVars, returned, open, stat, writeEvent, sendVars>>

\* Fewer bytes than needed.
RecvPart(n) ==
  /\ open /\ readEvent
  /\ n < needRecvLen /\ Readable(n)
  /\ recvBuf' = Received(n)
  /\ recvLen' = recvLen + n
  /\ needRecvLen' = needRecvLen - n
  /\ taken' = taken + n
  /\ readEvent' = TRUE
  /\ UNCHANGED <<peerVars, returned, open, stat, writeEvent, sendVars>>

\* The int that HeadLen bytes spell: bytes that are not a head spell anything.
Decode(buf) ==
  IF \E len \in BodyLens : buf = HeadOf(len)
    THEN {len \in BodyLens : buf = HeadOf(len)}
    ELSE -1 .. MaxBody + 1

\* recvCompleteCallback in state RECV_HEAD.  A length over the limit is only
\* logged, and the next head is asked for.
HeadComplete(buf) ==
  /\ stat = "RECV_HEAD"
  /\ \E bodyLen \in Decode(buf) :
       \/ /\ bodyLen > MaxBody
          /\ AsyncRecvBytes(buf, HeadLen)
          /\ UNCHANGED stat
       \/ /\ bodyLen <= MaxBody
          /\ AsyncRecvBytes(buf, bodyLen)
          /\ stat' = "RECV_BODY"
  /\ UNCHANGED <<writeEvent, sendVars>>

\* recvCompleteCallback in state RECV_BODY: send the head and the body back.
BodyComplete(buf) ==
  /\ stat = "RECV_BODY"
  /\ AsyncSendBytes(HeadOf(Len(buf)) \o buf)
  /\ recvBuf' = buf
  /\ readEvent' = FALSE
  /\ UNCHANGED <<recvLen, needRecvLen, stat>>

\* All bytes that were needed.
RecvComplete ==
  /\ open /\ readEvent
  /\ Readable(needRecvLen)
  /\ taken' = taken + needRecvLen
  /\ LET buf == Received(needRecvLen) IN HeadComplete(buf) \/ BodyComplete(buf)
  /\ UNCHANGED <<peerVars, returned, open>>

-----------------------------------------------------------------------------
(* _sendOnePack: the write event has fired                                 *)

ToSend(n) == SubSeq(sendBuf, sendLen + 1, sendLen + n)

SendError ==
  /\ open /\ writeEvent
  /\ ~peerOpen
  /\ Destroy

SendAgain ==
  /\ open /\ writeEvent
  /\ writeEvent' = TRUE
  /\ UNCHANGED <<peerVars, taken, returned, open, stat, readEvent, recvVars, sendVars>>

SendPart(n) ==
  /\ open /\ writeEvent
  /\ n < needSendLen
  /\ returned' = returned \o ToSend(n)
  /\ sendLen' = sendLen + n
  /\ needSendLen' = needSendLen - n
  /\ writeEvent' = TRUE
  /\ UNCHANGED <<peerVars, taken, open, stat, readEvent, recvVars, sendBuf>>

\* Slip: the state stays RECV_BODY after the echo has been sent.
SendComplete_KeepStat ==
  /\ open /\ writeEvent
  /\ returned' = returned \o ToSend(needSendLen)
  /\ writeEvent' = FALSE
  /\ AsyncRecvBytes(recvBuf, HeadLen)
  /\ UNCHANGED <<peerVars, taken, open, sendVars, stat>>

\* sendCompleteCallback: wait for the next head.
SendComplete ==
  /\ open /\ writeEvent
  /\ returned' = returned \o ToSend(needSendLen)
  /\ writeEvent' = FALSE
  /\ stat' = "RECV_HEAD"
  /\ AsyncRecvBytes(recvBuf, HeadLen)
  /\ UNCHANGED <<peerVars, taken, open, sendVars>>

-----------------------------------------------------------------------------
Parts == 1 .. BuffLen - 1

Progress ==
  \/ \E n \in Parts : RecvPart(n)
  \/ RecvComplete
  \/ \E n \in Parts : SendPart(n)
  \/ SendComplete

Next ==
  \/ \E len \in BodyLens : PeerSends(len)
  \/ PeerCloses
  \/ RecvError \/ RecvAgain \/ SendError \/ SendAgain
  \/ Progress

Spec == Init /\ [][Next]_vars

\* The loop serves its events, and a peer that stays reads what it is sent,
\* so that recv and send move bytes again and again.
FairSpec == Spec /\ WF_vars(Progress)

-----------------------------------------------------------------------------
\* Types: the marks count bytes of a buffer.
TypeOK ==
  /\ frames \in Seq(BodyLens) /\ peerOpen \in BOOLEAN
  /\ taken \in 0 .. Len(sent)
  /\ open \in BOOLEAN /\ stat \in {"RECV_HEAD", "RECV_BODY"}
  /\ readEvent \in BOOLEAN /\ writeEvent \in BOOLEAN
  /\ recvLen \in 0 .. BuffLen /\ needRecvLen \in 0 .. BuffLen
  /\ sendLen \in 0 .. BuffLen /\ needSendLen \in 0 .. BuffLen

\* The bytes recv and send touch lie inside the buffers, and what is still
\* needed is exactly what is missing of the message (Stream.cpp:46, 99).
BuffersInBounds ==
  /\ recvLen >= 0 /\ recvLen + needRecvLen <= Len(recvBuf) /\ Len(recvBuf) <= BuffLen
  /\ sendLen >= 0 /\ sendLen + needSendLen <= Len(sendBuf) /\ Len(sendBuf) <= BuffLen
  /\ readEvent => recvLen + needRecvLen = Len(recvBuf)

\* The frames that fit: a body, and room for the head of the echo.
Fitting == \A i \in 1 .. Len(frames) : frames[i] \in 1 .. BuffLen - HeadLen

\* The frames that the check at ConcurrentConnection.cpp:42 does not discard.
Admitted == \A i \in 1 .. Len(frames) : frames[i] \in 1 .. MaxBody

\* The peer gets its own bytes back, in order, none twice, none missing in
\* between, however recv and send cut them up.
EchoIsExact == Fitting => IsPrefix(returned, sent)

\* An open connection always waits for something: as events are one-shot, a
\* connection without an event is never served again.
NeverStalls == Fitting /\ open => readEvent \/ writeEvent

\* ConcurrentConnection.cpp:44: only a message whose body is "too long" is
\* discarded; so a connection that got none of those is not left without an
\* event either.
AdmittedNeverStalls == Admitted /\ open => readEvent \/ writeEvent

\* "Received all, start to send", "sent all, start to receive"
\* (ConcurrentConnection.cpp:54, 74): a peer that stays connected always gets
\* all it has sent back in the end.
EveryFrameReturns == []<>(~peerOpen \/ ~Fitting \/ returned = sent)
=============================================================================
