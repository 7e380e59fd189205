------------------------ MODULE EchoConnectionProofs ------------------------
(***************************************************************************)
(* Proofs about EchoConnection, for every length of the head and of the    *)
(* buffers, any body lengths and any number of frames.                     *)
(***************************************************************************)
EXTENDS EchoConnection, SequenceTheorems, TLAPS

Byte == ({"head", "body"} \X Nat \X Nat) \cup {<<"zero">>}

\* The buffers hold bytes, and the marks lie inside them.
BufInv ==
  /\ sent \in Seq(Byte) /\ returned \in Seq(Byte)
  /\ recvBuf \in Seq(Byte) /\ sendBuf \in Seq(Byte)
  /\ BuffersInBounds

-----------------------------------------------------------------------------
(* The operators on bytes                                                  *)

\* Zeros, heads and bodies are sequences of bytes of the given length.
LEMMA PieceTypes ==
  ASSUME NEW n \in Nat, NEW f \in Nat
  PROVE  /\ Zeros(n) \in Seq(Byte) /\ Len(Zeros(n)) = n
         /\ HeadOf(n) \in Seq(Byte) /\ Len(HeadOf(n)) = HeadLen
         /\ \A k \in 1 .. HeadLen : HeadOf(n)[k] = <<"head", n, k>>
         /\ BodyOf(f, n) \in Seq(Byte) /\ Len(BodyOf(f, n)) = n
         /\ \A k \in 1 .. n : BodyOf(f, n)[k] = <<"body", f, k>>
<1>1. Zeros(n) \in Seq(Byte) /\ Len(Zeros(n)) = n
  BY DEF Zeros, Byte
<1>2. \A k \in 1 .. HeadLen : <<"head", n, k>> \in Byte
  BY LengthsAssumption DEF Byte
<1>3. /\ HeadOf(n) \in Seq(Byte) /\ Len(HeadOf(n)) = HeadLen
      /\ \A k \in 1 .. HeadLen : HeadOf(n)[k] = <<"head", n, k>>
  BY <1>2, LengthsAssumption DEF HeadOf
<1>4. \A k \in 1 .. n : <<"body", f, k>> \in Byte
  BY DEF Byte
<1>5. /\ BodyOf(f, n) \in Seq(Byte) /\ Len(BodyOf(f, n)) = n
      /\ \A k \in 1 .. n : BodyOf(f, n)[k] = <<"body", f, k>>
  BY <1>4 DEF BodyOf
<1>6. QED
  BY <1>1, <1>3, <1>5

\* vector::resize gives the length that was asked for.
LEMMA ResizeType ==
  ASSUME NEW s \in Seq(Byte), NEW n \in Nat
  PROVE  Resize(s, n) \in Seq(Byte) /\ Len(Resize(s, n)) = n
<1> DEFINE m == SmallerOf(n, Len(s))
<1>1. m \in Nat /\ m <= n /\ m <= Len(s)
  BY DEF SmallerOf
<1>2. SubSeq(s, 1, m) \in Seq(Byte) /\ Len(SubSeq(s, 1, m)) = m
  <2>1. \A i \in 1 .. m : s[i] \in Byte
    BY <1>1
  <2> HIDE DEF m
  <2>2. QED
    BY <1>1, <2>1, SubSeqProperties
<1>3. Zeros(n - m) \in Seq(Byte) /\ Len(Zeros(n - m)) = n - m
  <2>1. n - m \in Nat
    BY <1>1
  <2>2. QED
    BY <2>1, PieceTypes
<1>4. QED
  BY <1>1, <1>2, <1>3, ConcatProperties DEF Resize

\* recv writes n bytes at the mark and leaves the rest of the buffer alone.
LEMMA ReceivedType ==
  ASSUME TypeOK, BufInv, NEW n \in Nat, n <= needRecvLen, Readable(n)
  PROVE  /\ Received(n) \in Seq(Byte) /\ Len(Received(n)) = Len(recvBuf)
         /\ \A i \in 1 .. recvLen : Received(n)[i] = recvBuf[i]
         /\ \A i \in recvLen + 1 .. recvLen + n : Received(n)[i] = sent[taken + i - recvLen]
         /\ taken + n \in 0 .. Len(sent)
<1>1. /\ recvLen \in Nat /\ taken \in Nat /\ Len(sent) \in Nat /\ Len(recvBuf) \in Nat
      /\ taken + n <= Len(sent) /\ recvLen + n <= Len(recvBuf)
  BY LengthsAssumption DEF TypeOK, BufInv, BuffersInBounds, Readable
<1>2. ASSUME NEW i \in 1 .. Len(recvBuf)
      PROVE  (IF i \in recvLen + 1 .. recvLen + n THEN sent[taken + i - recvLen] ELSE recvBuf[i]) \in Byte
  <2>1. CASE i \in recvLen + 1 .. recvLen + n
    <3>1. taken + i - recvLen \in 1 .. Len(sent)
      BY <1>1, <2>1
    <3>2. sent[taken + i - recvLen] \in Byte
      BY <3>1 DEF BufInv
    <3>3. QED
      BY <2>1, <3>2
  <2>2. CASE i \notin recvLen + 1 .. recvLen + n
    BY <2>2 DEF BufInv
  <2>3. QED
    BY <2>1, <2>2
<1>3. Received(n) \in Seq(Byte) /\ Len(Received(n)) = Len(recvBuf)
  BY <1>1, <1>2 DEF Received
<1>4. \A i \in 1 .. recvLen : Received(n)[i] = recvBuf[i]
  BY <1>1 DEF Received
<1>5. \A i \in recvLen + 1 .. recvLen + n : Received(n)[i] = sent[taken + i - recvLen]
  BY <1>1 DEF Received
<1>6. QED
  BY <1>1, <1>3, <1>4, <1>5

\* send takes n bytes from the mark on.
LEMMA ToSendType ==
  ASSUME TypeOK, BufInv, NEW n \in Nat, n <= needSendLen
  PROVE  /\ ToSend(n) \in Seq(Byte) /\ Len(ToSend(n)) = n
         /\ \A i \in 1 .. n : ToSend(n)[i] = sendBuf[sendLen + i]
<1>1. sendLen \in Nat /\ sendLen + n <= Len(sendBuf) /\ Len(sendBuf) \in Nat
  BY LengthsAssumption DEF TypeOK, BufInv, BuffersInBounds
<1>2. \A i \in sendLen + 1 .. sendLen + n : sendBuf[i] \in Byte
  BY <1>1 DEF BufInv
<1>3. /\ ToSend(n) \in Seq(Byte)
      /\ Len(ToSend(n)) = IF sendLen + 1 <= sendLen + n THEN sendLen + n - (sendLen + 1) + 1 ELSE 0
      /\ \A i \in 1 .. sendLen + n - (sendLen + 1) + 1 : ToSend(n)[i] = sendBuf[sendLen + 1 + i - 1]
  BY <1>1, <1>2, SubSeqProperties DEF ToSend
<1>4. /\ sendLen + n - (sendLen + 1) + 1 = n
      /\ \A i \in 1 .. n : sendLen + 1 + i - 1 = sendLen + i
  BY <1>1
<1>5. Len(ToSend(n)) = n
  BY <1>1, <1>3
<1>6. QED
  BY <1>3, <1>4, <1>5

-----------------------------------------------------------------------------
(* Types and bounds                                                        *)

\* A connection that has asked for its first head is well formed.
LEMMA BoundsInit == Init => TypeOK /\ BufInv
<1> SUFFICES ASSUME Init PROVE TypeOK /\ BufInv
  OBVIOUS
<1>1. HeadLen \in Nat /\ BuffLen \in Nat /\ HeadLen <= BuffLen
  BY LengthsAssumption
<1>2. /\ recvBuf \in Seq(Byte) /\ Len(recvBuf) = HeadLen
      /\ sendBuf \in Seq(Byte) /\ Len(sendBuf) = BuffLen
  BY <1>1, PieceTypes DEF Init
<1>3. TypeOK
  <2>1. /\ peerOpen \in BOOLEAN /\ open \in BOOLEAN
        /\ readEvent \in BOOLEAN /\ writeEvent \in BOOLEAN
    BY Zenon DEF Init
  <2>2. taken \in 0 .. Len(sent) /\ frames \in Seq(BodyLens)
    BY DEF Init
  <2>3. QED
    BY <1>1, <2>1, <2>2 DEF Init, TypeOK
<1>4. BufInv
  BY <1>1, <1>2 DEF Init, BufInv, BuffersInBounds
<1>5. QED
  BY <1>3, <1>4

\* asyncRecvBytes leaves a buffer as long as the message it waits for, and
\* changes nothing for a length that it does not serve.
LEMMA AsyncRecvKeepsBounds ==
  ASSUME TypeOK, BufInv, NEW buf \in Seq(Byte), Len(buf) = Len(recvBuf), NEW num \in Int,
         AsyncRecvBytes(buf, num)
  PROVE  /\ recvBuf' \in Seq(Byte) /\ Len(recvBuf') <= BuffLen
         /\ recvLen' \in 0 .. BuffLen /\ needRecvLen' \in 0 .. BuffLen
         /\ recvLen' + needRecvLen' <= Len(recvBuf')
         /\ readEvent' \in BOOLEAN
         /\ readEvent' => recvLen' + needRecvLen' = Len(recvBuf')
<1>1. /\ recvLen \in 0 .. BuffLen /\ needRecvLen \in 0 .. BuffLen /\ BuffLen \in Nat
      /\ recvLen + needRecvLen <= Len(recvBuf) /\ Len(recvBuf) <= BuffLen
  BY LengthsAssumption DEF TypeOK, BufInv, BuffersInBounds
<1>2. CASE num > BuffLen \/ num <= 0
  BY <1>1, <1>2 DEF AsyncRecvBytes
<1>3. CASE ~(num > BuffLen \/ num <= 0)
  <2>1. num \in Nat /\ num <= BuffLen
    BY <1>1, <1>3
  <2>2. Resize(buf, num) \in Seq(Byte) /\ Len(Resize(buf, num)) = num
    BY <2>1, ResizeType
  <2>3. recvLen' = 0 /\ needRecvLen' = num /\ recvBuf' = Resize(buf, num) /\ readEvent' = TRUE
    BY <1>3 DEF AsyncRecvBytes
  <2>4. QED
    BY <1>1, <2>1, <2>2, <2>3
<1>4. QED
  BY <1>2, <1>3

\* What a head may spell is an integer.
LEMMA DecodeInt ==
  ASSUME NEW buf, NEW bodyLen \in Decode(buf)
  PROVE  bodyLen \in Int
<1>1. CASE \E len \in BodyLens : buf = HeadOf(len)
  <2>1. bodyLen \in BodyLens
    BY <1>1 DEF Decode
  <2>2. QED
    BY <2>1, LengthsAssumption
<1>2. CASE ~\E len \in BodyLens : buf = HeadOf(len)
  <2>1. bodyLen \in -1 .. MaxBody + 1
    BY <1>2 DEF Decode
  <2>2. QED
    BY <2>1, LengthsAssumption
<1>3. QED
  BY <1>1, <1>2

\* Every event handler and every step of the peer keeps types and bounds.
LEMMA BoundsStep == TypeOK /\ BufInv /\ [Next]_vars => TypeOK' /\ BufInv'
<1> SUFFICES ASSUME TypeOK, BufInv, [Next]_vars
             PROVE  TypeOK' /\ BufInv'
  OBVIOUS
<1>0. /\ HeadLen \in Nat \ {0} /\ BuffLen \in Nat /\ HeadLen <= BuffLen /\ BodyLens \subseteq Nat
      /\ Len(sent) \in Nat /\ Len(recvBuf) \in Nat /\ Len(sendBuf) \in Nat
      /\ taken \in 0 .. Len(sent)
      /\ recvLen \in 0 .. BuffLen /\ needRecvLen \in 0 .. BuffLen
      /\ sendLen \in 0 .. BuffLen /\ needSendLen \in 0 .. BuffLen
  BY LengthsAssumption DEF TypeOK, BufInv
<1>1. ASSUME NEW len \in BodyLens, PeerSends(len)
      PROVE  TypeOK' /\ BufInv'
  <2>1. len \in Nat /\ Len(frames) + 1 \in Nat
    BY <1>0 DEF TypeOK
  <2>2. /\ HeadOf(len) \in Seq(Byte) /\ Len(HeadOf(len)) = HeadLen
        /\ BodyOf(Len(frames) + 1, len) \in Seq(Byte) /\ Len(BodyOf(Len(frames) + 1, len)) = len
    BY <2>1, PieceTypes
  <2>3. sent' = (sent \o HeadOf(len)) \o BodyOf(Len(frames) + 1, len)
    BY <1>1 DEF PeerSends
  <2>4. sent \o HeadOf(len) \in Seq(Byte) /\ Len(sent \o HeadOf(len)) = Len(sent) + HeadLen
    BY <2>2, ConcatProperties DEF BufInv
  <2>5. sent' \in Seq(Byte) /\ Len(sent') = Len(sent) + HeadLen + len
    <3> DEFINE s1 == sent \o HeadOf(len)
               s2 == BodyOf(Len(frames) + 1, len)
    <3> HIDE DEF s1, s2
    <3>1. s1 \in Seq(Byte) /\ s2 \in Seq(Byte) /\ sent' = s1 \o s2
      BY <2>2, <2>3, <2>4 DEF s1, s2
    <3>2. sent' \in Seq(Byte) /\ Len(sent') = Len(s1) + Len(s2)
      BY <3>1, ConcatProperties
    <3>3. Len(s1) = Len(sent) + HeadLen /\ Len(s2) = len
      BY <2>2, <2>4 DEF s1, s2
    <3>4. QED
      BY <3>2, <3>3
  <2>6. frames' \in Seq(BodyLens)
    BY <1>1 DEF PeerSends, TypeOK
  <2>7. taken' \in 0 .. Len(sent')
    BY <1>0, <1>1, <2>1, <2>5 DEF PeerSends
  <2>8. QED
    BY <1>1, <2>5, <2>6, <2>7 DEF PeerSends, recvVars, sendVars, TypeOK, BufInv, BuffersInBounds
<1>2. CASE PeerCloses
  BY <1>2 DEF PeerCloses, recvVars, sendVars, TypeOK, BufInv, BuffersInBounds
<1>3. CASE RecvError \/ SendError
  BY <1>3 DEF RecvError, SendError, Destroy, RemoveEvents, peerVars, recvVars, sendVars,
              TypeOK, BufInv, BuffersInBounds
<1>4. CASE RecvAgain \/ SendAgain
  <2>1. /\ UNCHANGED <<sent, frames, peerOpen, taken, returned, open, stat>>
        /\ UNCHANGED <<recvBuf, recvLen, needRecvLen, sendBuf, sendLen, needSendLen>>
    BY <1>4 DEF RecvAgain, SendAgain, peerVars, recvVars, sendVars
  <2>2. readEvent' = readEvent /\ writeEvent' = writeEvent
    BY <1>4, Zenon DEF RecvAgain, SendAgain, TypeOK
  <2>3. QED
    BY <2>1, <2>2 DEF TypeOK, BufInv, BuffersInBounds
<1>5. ASSUME NEW n \in Parts, RecvPart(n)
      PROVE  TypeOK' /\ BufInv'
  <2>1. n \in Nat \ {0} /\ n < needRecvLen /\ Readable(n)
    BY <1>0, <1>5 DEF RecvPart, Parts
  <2>2. /\ recvBuf' \in Seq(Byte) /\ Len(recvBuf') = Len(recvBuf)
        /\ taken' \in 0 .. Len(sent)
    BY <1>0, <1>5, <2>1, ReceivedType DEF RecvPart
  <2>3. /\ recvLen' = recvLen + n /\ needRecvLen' = needRecvLen - n
        /\ recvLen + needRecvLen = Len(recvBuf) /\ Len(recvBuf) <= BuffLen
    BY <1>5 DEF RecvPart, BufInv, BuffersInBounds
  <2>4. /\ recvLen' \in 0 .. BuffLen /\ needRecvLen' \in 0 .. BuffLen
        /\ recvLen' + needRecvLen' = Len(recvBuf') /\ recvLen' >= 0
    BY <1>0, <2>1, <2>2, <2>3
  <2>5. QED
    BY <1>0, <1>5, <2>2, <2>3, <2>4 DEF RecvPart, peerVars, sendVars, TypeOK, BufInv, BuffersInBounds
<1>6. CASE RecvComplete
  <2> DEFINE buf == Received(needRecvLen)
  <2>1. /\ buf \in Seq(Byte) /\ Len(buf) = Len(recvBuf)
        /\ taken' \in 0 .. Len(sent)
    BY <1>0, <1>6, ReceivedType DEF RecvComplete
  <2>2. UNCHANGED <<sent, frames, peerOpen, returned, open>>
    BY <1>6 DEF RecvComplete, peerVars
  <2>3. CASE HeadComplete(buf)
    <3>1. PICK num \in Int : AsyncRecvBytes(buf, num)
      BY <1>0, <2>3, DecodeInt DEF HeadComplete
    <3>2. /\ stat' \in {"RECV_HEAD", "RECV_BODY"}
          /\ UNCHANGED <<writeEvent, sendBuf, sendLen, needSendLen>>
      BY <2>3 DEF HeadComplete, sendVars, TypeOK
    <3> HIDE DEF buf
    <3>3. /\ recvBuf' \in Seq(Byte) /\ Len(recvBuf') <= BuffLen
          /\ recvLen' \in 0 .. BuffLen /\ needRecvLen' \in 0 .. BuffLen
          /\ recvLen' + needRecvLen' <= Len(recvBuf')
          /\ readEvent' \in BOOLEAN
          /\ readEvent' => recvLen' + needRecvLen' = Len(recvBuf')
      BY <2>1, <3>1, AsyncRecvKeepsBounds
    <3>4. TypeOK'
      BY <2>1, <2>2, <3>2, <3>3 DEF TypeOK
    <3>5. sendLen >= 0 /\ sendLen + needSendLen <= Len(sendBuf) /\ Len(sendBuf) <= BuffLen
      BY DEF BufInv, BuffersInBounds
    <3>6. recvLen' >= 0
      BY <1>0, <3>3
    <3>7. BuffersInBounds'
      BY <3>2, <3>3, <3>5, <3>6 DEF BuffersInBounds
    <3>8. BufInv'
      BY <2>2, <3>2, <3>3, <3>7 DEF BufInv
    <3>9. QED
      BY <3>4, <3>8
  <2>4. CASE BodyComplete(buf)
    <3>1. /\ recvBuf' = buf /\ readEvent' = FALSE
          /\ UNCHANGED <<recvLen, needRecvLen, stat>>
          /\ AsyncSendBytes(HeadOf(Len(buf)) \o buf)
      BY <2>4 DEF BodyComplete
    <3> DEFINE bytes == HeadOf(Len(buf)) \o buf
    <3>2. bytes \in Seq(Byte)
      <4>1. Len(buf) \in Nat
        BY <2>1
      <4>2. HeadOf(Len(buf)) \in Seq(Byte)
        BY <4>1, PieceTypes
      <4>3. QED
        BY <2>1, <4>2, ConcatProperties
    <3> HIDE DEF buf, bytes
    <3>3. /\ sendBuf' \in Seq(Byte) /\ Len(sendBuf') <= BuffLen
          /\ sendLen' \in 0 .. BuffLen /\ needSendLen' \in 0 .. BuffLen
          /\ sendLen' + needSendLen' <= Len(sendBuf')
          /\ writeEvent' \in BOOLEAN
      <4>1. CASE Len(bytes) > BuffLen
        BY <1>0, <3>1, <4>1 DEF AsyncSendBytes, sendVars, BufInv, BuffersInBounds, bytes
      <4>2. CASE ~(Len(bytes) > BuffLen)
        <5>1. sendLen' = 0 /\ needSendLen' = Len(bytes) /\ sendBuf' = bytes /\ writeEvent' = TRUE
          BY <3>1, <4>2 DEF AsyncSendBytes, bytes
        <5>2. Len(bytes) \in Nat
          BY <3>2
        <5>3. QED
          BY <1>0, <3>2, <4>2, <5>1, <5>2
      <4>3. QED
        BY <4>1, <4>2
    <3>4. TypeOK'
      BY <2>1, <2>2, <3>1, <3>3 DEF TypeOK
    <3>5. BufInv'
      BY <1>0, <2>1, <2>2, <3>1, <3>3, SMTT(30) DEF BufInv, BuffersInBounds
    <3>6. QED
      BY <3>4, <3>5
  <2>5. QED
    BY <1>6, <2>3, <2>4 DEF RecvComplete
<1>7. ASSUME NEW n \in Parts, SendPart(n)
      PROVE  TypeOK' /\ BufInv'
  <2>1. n \in Nat /\ n < needSendLen /\ n <= needSendLen
    BY <1>0, <1>7 DEF SendPart, Parts
  <2>2. returned' \in Seq(Byte)
    <3>1. ToSend(n) \in Seq(Byte)
      BY <2>1, ToSendType
    <3>2. QED
      BY <1>7, <3>1, ConcatProperties DEF SendPart, BufInv
  <2>3. /\ sendLen' = sendLen + n /\ needSendLen' = needSendLen - n /\ sendBuf' = sendBuf
        /\ sendLen + needSendLen <= Len(sendBuf) /\ Len(sendBuf) <= BuffLen
    BY <1>7 DEF SendPart, BufInv, BuffersInBounds
  <2>4. /\ sendLen' \in 0 .. BuffLen /\ needSendLen' \in 0 .. BuffLen
        /\ sendLen' + needSendLen' <= Len(sendBuf') /\ sendLen' >= 0
    BY <1>0, <2>1, <2>3
  <2>5. QED
    BY <1>0, <1>7, <2>2, <2>3, <2>4 DEF SendPart, peerVars, recvVars, TypeOK, BufInv, BuffersInBounds
<1>8. CASE SendComplete
  <2>1. returned' \in Seq(Byte)
    BY <1>0, <1>8, ToSendType, ConcatProperties DEF SendComplete, BufInv
  <2>2. /\ recvBuf' \in Seq(Byte) /\ Len(recvBuf') <= BuffLen
        /\ recvLen' \in 0 .. BuffLen /\ needRecvLen' \in 0 .. BuffLen
        /\ recvLen' + needRecvLen' <= Len(recvBuf')
        /\ readEvent' \in BOOLEAN
        /\ readEvent' => recvLen' + needRecvLen' = Len(recvBuf')
    BY <1>0, <1>8, AsyncRecvKeepsBounds DEF SendComplete, BufInv
  <2>3. /\ writeEvent' = FALSE /\ stat' = "RECV_HEAD"
        /\ UNCHANGED <<sent, frames, peerOpen, taken, open, sendBuf, sendLen, needSendLen>>
    BY <1>8 DEF SendComplete, peerVars, sendVars
  <2>4. TypeOK'
    BY <2>2, <2>3 DEF TypeOK
  <2>5. sendLen >= 0 /\ sendLen + needSendLen <= Len(sendBuf) /\ Len(sendBuf) <= BuffLen
    BY DEF BufInv, BuffersInBounds
  <2>6. recvLen' >= 0
    BY <1>0, <2>2
  <2>7. BuffersInBounds'
    BY <2>2, <2>3, <2>5, <2>6 DEF BuffersInBounds
  <2>8. BufInv'
    BY <2>1, <2>2, <2>3, <2>7 DEF BufInv
  <2>9. QED
    BY <2>4, <2>8
<1>9. CASE UNCHANGED vars
  BY <1>9 DEF vars, peerVars, recvVars, sendVars, TypeOK, BufInv, BuffersInBounds
<1>10. QED
  BY <1>1, <1>2, <1>3, <1>4, <1>5, <1>6, <1>7, <1>8, <1>9 DEF Next, Progress

\* The marks of a connection count bytes of its buffers.
THEOREM EchoTypeCorrect == Spec => []TypeOK
BY BoundsInit, BoundsStep, PTL DEF Spec

\* recv and send never touch a byte outside the buffers, whatever lengths the
\* peer announces and however the kernel cuts its bytes up.
THEOREM AlwaysInBounds == Spec => []BuffersInBounds
<1>1. BufInv => BuffersInBounds
  BY DEF BufInv
<1>2. QED
  BY <1>1, BoundsInit, BoundsStep, PTL DEF Spec

-----------------------------------------------------------------------------
(* The echo                                                                *)

\* start[f] is where frame f begins in what the peer has sent, and each frame
\* begins with its head; start has one entry more for the next frame.
Layout(start) ==
  /\ start \in [1 .. Len(frames) + 1 -> Nat]
  /\ start[1] = 0 /\ start[Len(frames) + 1] = Len(sent)
  /\ \A f \in 1 .. Len(frames) :
       /\ start[f + 1] = start[f] + HeadLen + frames[f] /\ start[f + 1] <= Len(sent)
       /\ \A k \in 1 .. HeadLen : sent[start[f] + k] = <<"head", frames[f], k>>

\* What was returned is the first n bytes.
Echoed(n) == Len(returned) = n /\ \A k \in 1 .. n : returned[k] = sent[k]

\* Everything before position b has been echoed, and a head is on its way in,
WaitsForHead(b) ==
  /\ stat = "RECV_HEAD" /\ readEvent = TRUE /\ writeEvent = FALSE
  /\ Len(recvBuf) = HeadLen
  /\ taken = b + recvLen
  /\ \A i \in 1 .. recvLen : recvBuf[i] = sent[b + i]
  /\ Echoed(b)

\* or the body that follows it,
WaitsForBody(b, len) ==
  /\ stat = "RECV_BODY" /\ readEvent = TRUE /\ writeEvent = FALSE
  /\ Len(recvBuf) = len
  /\ taken = b + HeadLen + recvLen
  /\ \A i \in 1 .. recvLen : recvBuf[i] = sent[b + HeadLen + i]
  /\ Echoed(b)

\* or both are on their way out.
SendsEcho(b, len) ==
  /\ stat = "RECV_BODY" /\ readEvent = FALSE /\ writeEvent = TRUE
  /\ taken = b + HeadLen + len
  /\ Len(sendBuf) = HeadLen + len /\ sendLen + needSendLen = HeadLen + len
  /\ \A k \in 1 .. HeadLen + len : sendBuf[k] = sent[b + k]
  /\ Echoed(b + sendLen)

AtFrame(start, f) ==
  \/ WaitsForHead(start[f])
  \/ f <= Len(frames) /\ WaitsForBody(start[f], frames[f])
  \/ f <= Len(frames) /\ SendsEcho(start[f], frames[f])

\* An open connection works on one frame; one that is closed keeps what it
\* has returned.
EchoInv ==
  Fitting =>
    /\ Len(returned) <= Len(sent) /\ Echoed(Len(returned))
    /\ open => \E start \in [1 .. Len(frames) + 1 -> Nat] :
                 Layout(start) /\ \E f \in 1 .. Len(frames) + 1 : AtFrame(start, f)

\* A frame that fits lies inside what was sent.
LEMMA LayoutFacts ==
  ASSUME TypeOK, BufInv, Fitting, NEW start, Layout(start), NEW f \in 1 .. Len(frames) + 1
  PROVE  /\ start[f] \in Nat /\ start[f] <= Len(sent)
         /\ f <= Len(frames) =>
              /\ frames[f] \in Nat \ {0} /\ frames[f] \in BodyLens
              /\ HeadLen + frames[f] <= BuffLen
              /\ start[f] + HeadLen + frames[f] = start[f + 1]
              /\ start[f] + HeadLen + frames[f] <= Len(sent)
              /\ f + 1 \in 1 .. Len(frames) + 1
         /\ f = Len(frames) + 1 => start[f] = Len(sent)
<1>1. /\ HeadLen \in Nat /\ BuffLen \in Nat /\ Len(frames) \in Nat /\ Len(sent) \in Nat
      /\ start[f] \in Nat
  <2>1. HeadLen \in Nat /\ BuffLen \in Nat /\ Len(frames) \in Nat /\ Len(sent) \in Nat
    BY LengthsAssumption DEF TypeOK, BufInv
  <2>2. start[f] \in Nat
    BY DEF Layout
  <2>3. QED
    BY <2>1, <2>2
<1>2. ASSUME f <= Len(frames)
      PROVE  /\ frames[f] \in Nat \ {0} /\ frames[f] \in BodyLens
             /\ HeadLen + frames[f] <= BuffLen
             /\ start[f] + HeadLen + frames[f] = start[f + 1]
             /\ start[f] + HeadLen + frames[f] <= Len(sent)
             /\ f + 1 \in 1 .. Len(frames) + 1
  <2>1. f \in 1 .. Len(frames)
    BY <1>1, <1>2
  <2>2. frames[f] \in 1 .. BuffLen - HeadLen /\ frames[f] \in BodyLens
    BY <2>1 DEF Fitting, TypeOK
  <2>3. start[f + 1] = start[f] + HeadLen + frames[f] /\ start[f + 1] <= Len(sent)
    BY <2>1 DEF Layout
  <2>4. QED
    BY <1>1, <2>1, <2>2, <2>3
<1>3. ASSUME f = Len(frames) + 1
      PROVE  start[f] = Len(sent)
  BY <1>3 DEF Layout
<1>4. start[f] <= Len(sent)
  <2>1. CASE f <= Len(frames)
    BY <1>1, <1>2, <2>1
  <2>2. CASE f = Len(frames) + 1
    BY <1>1, <1>3, <2>2
  <2>3. QED
    BY <1>1, <2>1, <2>2
<1>5. QED
  BY <1>1, <1>2, <1>3, <1>4

\* Bytes that follow what was echoed make a longer echo.
LEMMA EchoGrows ==
  ASSUME BufInv, NEW n \in Nat, Echoed(n), NEW s \in Seq(Byte),
         returned' = returned \o s, sent' = sent,
         \A k \in 1 .. Len(s) : s[k] = sent[n + k]
  PROVE  Echoed(n + Len(s))'
<1>1. /\ returned \in Seq(Byte) /\ Len(returned) = n /\ Len(s) \in Nat
      /\ \A k \in 1 .. n : returned[k] = sent[k]
  BY DEF BufInv, Echoed
<1>2. /\ Len(returned') = n + Len(s)
      /\ \A k \in 1 .. n + Len(s) : returned'[k] = IF k <= n THEN returned[k] ELSE s[k - n]
  BY <1>1, ConcatProperties
<1>3. ASSUME NEW k \in 1 .. n + Len(s)
      PROVE  returned'[k] = sent[k]
  <2>1. CASE k <= n
    BY <1>1, <1>2, <2>1
  <2>2. CASE ~(k <= n)
    <3>1. k - n \in 1 .. Len(s) /\ n + (k - n) = k
      BY <1>1, <2>2
    <3>2. s[k - n] = sent[n + (k - n)]
      BY <3>1
    <3>3. QED
      BY <1>2, <2>2, <3>1, <3>2
  <2>3. QED
    BY <2>1, <2>2
<1>4. QED
  BY <1>2, <1>3 DEF Echoed

\* A connection whose frame is known has echoed what came before.
LEMMA AtFrameEchoes ==
  ASSUME TypeOK, BufInv, Fitting, NEW start, Layout(start),
         NEW f \in 1 .. Len(frames) + 1, AtFrame(start, f)
  PROVE  Len(returned) <= Len(sent) /\ Echoed(Len(returned))
<1>1. /\ start[f] \in Nat /\ start[f] <= Len(sent)
      /\ f <= Len(frames) => start[f] + HeadLen + frames[f] <= Len(sent) /\ frames[f] \in Nat
  BY LayoutFacts
<1>2. sendLen \in Nat /\ needSendLen \in Nat /\ HeadLen \in Nat /\ Len(sent) \in Nat
  BY LengthsAssumption DEF TypeOK, BufInv
<1>3. PICK n \in Nat : n <= Len(sent) /\ Echoed(n)
  <2>1. CASE WaitsForHead(start[f]) \/ (f <= Len(frames) /\ WaitsForBody(start[f], frames[f]))
    BY <1>1, <2>1 DEF WaitsForHead, WaitsForBody
  <2>2. CASE f <= Len(frames) /\ SendsEcho(start[f], frames[f])
    <3>1. start[f] + sendLen \in Nat /\ start[f] + sendLen <= Len(sent)
      <4>1. sendLen + needSendLen = HeadLen + frames[f]
        BY <2>2 DEF SendsEcho
      <4>2. QED
        BY <1>1, <1>2, <2>2, <4>1, SMTT(30)
    <3>2. Echoed(start[f] + sendLen)
      BY <2>2 DEF SendsEcho
    <3>3. QED
      BY <3>1, <3>2
  <2>3. QED
    BY <2>1, <2>2 DEF AtFrame
<1>4. QED
  BY <1>3 DEF Echoed

\* A new frame is its head, then its body, after all that was sent before.
LEMMA PeerAppends ==
  ASSUME TypeOK, BufInv, NEW len \in BodyLens, PeerSends(len)
  PROVE  /\ Len(sent') = Len(sent) + HeadLen + len
         /\ \A i \in 1 .. Len(sent) : sent'[i] = sent[i]
         /\ \A k \in 1 .. HeadLen : sent'[Len(sent) + k] = <<"head", len, k>>
<1>1. PICK m \in Nat : m = Len(frames) + 1
  BY DEF TypeOK
<1>2. PICK a : a = Len(sent)
  OBVIOUS
<1>3. HeadLen \in Nat \ {0} /\ len \in Nat /\ a \in Nat /\ sent \in Seq(Byte)
  BY <1>2, LengthsAssumption DEF BufInv
<1>4. PICK head, body :
        /\ head = HeadOf(len) /\ body = BodyOf(m, len)
        /\ head \in Seq(Byte) /\ Len(head) = HeadLen
        /\ \A k \in 1 .. HeadLen : head[k] = <<"head", len, k>>
        /\ body \in Seq(Byte) /\ Len(body) = len
  BY <1>3, PieceTypes
<1>5. PICK h : /\ h = sent \o head /\ h \in Seq(Byte) /\ Len(h) = a + HeadLen
               /\ \A i \in 1 .. a + HeadLen : h[i] = IF i <= a THEN sent[i] ELSE head[i - a]
  <2>1. /\ sent \o head \in Seq(Byte) /\ Len(sent \o head) = Len(sent) + Len(head)
        /\ \A i \in 1 .. Len(sent) + Len(head) :
             (sent \o head)[i] = IF i <= Len(sent) THEN sent[i] ELSE head[i - Len(sent)]
    BY <1>3, <1>4, ConcatProperties
  <2>2. Len(head) = HeadLen
    BY <1>4
  <2>3. QED
    BY <1>2, <2>1, <2>2
<1>6. sent' = h \o body
  BY <1>1, <1>4, <1>5 DEF PeerSends
<1>7. /\ Len(h \o body) = a + HeadLen + len
      /\ \A i \in 1 .. a + HeadLen + len :
           (h \o body)[i] = IF i <= a + HeadLen THEN h[i] ELSE body[i - (a + HeadLen)]
  <2>1. /\ Len(h \o body) = Len(h) + Len(body)
        /\ \A i \in 1 .. Len(h) + Len(body) :
             (h \o body)[i] = IF i <= Len(h) THEN h[i] ELSE body[i - Len(h)]
    BY <1>4, <1>5, ConcatProperties
  <2>2. Len(h) = a + HeadLen /\ Len(body) = len
    BY <1>4, <1>5
  <2>3. QED
    BY <2>1, <2>2
<1>8. Len(sent') = a + HeadLen + len
  BY <1>6, <1>7
<1>9. ASSUME NEW i \in 1 .. a + HeadLen
      PROVE  sent'[i] = h[i]
  <2>1. i \in 1 .. a + HeadLen + len /\ i <= a + HeadLen
    BY <1>3
  <2>2. QED
    BY <1>6, <1>7, <2>1
<1>10. ASSUME NEW i \in 1 .. a
       PROVE  sent'[i] = sent[i]
  <2>1. i \in 1 .. a + HeadLen /\ i <= a
    BY <1>3
  <2>2. QED
    BY <1>5, <1>9, <2>1
<1>11. ASSUME NEW k \in 1 .. HeadLen
       PROVE  sent'[a + k] = <<"head", len, k>>
  <2>1. a + k \in 1 .. a + HeadLen /\ ~(a + k <= a) /\ (a + k) - a = k
    BY <1>3
  <2>2. sent'[a + k] = h[a + k]
    BY <1>9, <2>1
  <2>3. h[a + k] = head[(a + k) - a]
    BY <1>5, <2>1
  <2>4. QED
    BY <1>4, <2>1, <2>2, <2>3
<1>12. QED
  BY <1>2, <1>8, <1>10, <1>11

\* The new frame takes the next place in the layout.
LEMMA PeerExtendsLayout ==
  ASSUME TypeOK, BufInv, Fitting, NEW len \in BodyLens, PeerSends(len),
         NEW n, n = Len(frames),
         NEW start \in [1 .. n + 1 -> Nat], Layout(start)
  PROVE  \E new \in [1 .. n + 2 -> Nat] :
           Layout(new)' /\ \A g \in 1 .. n + 1 : new[g] = start[g]
<1>1. PICK a : a = Len(sent)
  OBVIOUS
<1>2. HeadLen \in Nat \ {0} /\ len \in Nat /\ a \in Nat /\ n \in Nat
  BY <1>1, LengthsAssumption DEF BufInv, TypeOK
<1>3. /\ Len(sent') = a + HeadLen + len
      /\ \A i \in 1 .. a : sent'[i] = sent[i]
      /\ \A k \in 1 .. HeadLen : sent'[a + k] = <<"head", len, k>>
  BY <1>1, PeerAppends
<1>4. Len(frames') = n + 1 /\ frames'[n + 1] = len /\ \A g \in 1 .. n : frames'[g] = frames[g]
  BY DEF PeerSends, TypeOK
<1>5. PICK new : new = [g \in 1 .. n + 2 |-> IF g = n + 2 THEN a + HeadLen + len ELSE start[g]]
  OBVIOUS
<1>6. /\ new \in [1 .. n + 2 -> Nat]
      /\ new[n + 2] = a + HeadLen + len
  BY <1>2, <1>5
<1>7. ASSUME NEW g \in 1 .. n + 1
      PROVE  new[g] = start[g]
  BY <1>2, <1>5
<1>8. start[1] = 0 /\ start[n + 1] = a
  BY <1>1 DEF Layout
<1>9. 1 \in 1 .. n + 1 /\ n + 1 \in 1 .. n + 1 /\ (n + 1) + 1 = n + 2
  BY <1>2
<1>10. new[1] = 0 /\ new[n + 1] = a
  BY <1>7, <1>8, <1>9
<1>11. ASSUME NEW g \in 1 .. n + 1
       PROVE  /\ new[g + 1] = new[g] + HeadLen + frames'[g] /\ new[g + 1] <= Len(sent')
              /\ \A k \in 1 .. HeadLen : sent'[new[g] + k] = <<"head", frames'[g], k>>
  <2>1. CASE g = n + 1
    <3>1. new[g] = a /\ new[g + 1] = a + HeadLen + len /\ frames'[g] = len
      BY <1>4, <1>6, <1>9, <1>10, <2>1
    <3>2. a + HeadLen + len <= Len(sent')
      BY <1>2, <1>3
    <3>3. QED
      BY <1>3, <3>1, <3>2
  <2>2. CASE g # n + 1
    <3>1. g \in 1 .. n /\ g + 1 \in 1 .. n + 1
      BY <1>2, <2>2
    <3>2. PICK b \in Nat, c \in Nat, l \in Nat :
             b = start[g] /\ c = start[g + 1] /\ l = frames[g]
      <4>1. start[g] \in Nat /\ start[g + 1] \in Nat
        BY <3>1
      <4>2. frames[g] \in Nat
        <5>1. g \in 1 .. Len(frames)
          BY <3>1
        <5>2. frames[g] \in BodyLens
          BY <5>1 DEF TypeOK
        <5>3. QED
          BY <5>2, LengthsAssumption
      <4>3. QED
        BY <4>1, <4>2
    <3>3. /\ c = b + HeadLen + l /\ c <= a
          /\ \A k \in 1 .. HeadLen : sent[b + k] = <<"head", l, k>>
      BY <1>1, <3>1, <3>2 DEF Layout
    <3>4. new[g] = b /\ new[g + 1] = c /\ frames'[g] = l
      BY <1>4, <1>7, <3>1, <3>2
    <3>5. c <= Len(sent')
      BY <1>2, <1>3, <3>2, <3>3
    <3>6. ASSUME NEW k \in 1 .. HeadLen
          PROVE  sent'[b + k] = <<"head", l, k>>
      <4>1. b + k \in 1 .. a
        <5>1. b + HeadLen + l <= a
          BY <3>3
        <5>2. k \in Nat /\ 1 <= k /\ k <= HeadLen /\ HeadLen \in Nat /\ a \in Nat
          BY <1>2
        <5>3. QED
          BY <5>1, <5>2
      <4>2. QED
        BY <1>3, <3>3, <4>1
    <3>7. QED
      BY <3>3, <3>4, <3>5, <3>6
  <2>3. QED
    BY <2>1, <2>2
<1>12. Len(frames') + 1 = n + 2 /\ Len(frames') = n + 1
  BY <1>2, <1>4
<1>13. /\ new \in [1 .. Len(frames') + 1 -> Nat]
       /\ new[1] = 0 /\ new[Len(frames') + 1] = Len(sent')
       /\ \A g \in 1 .. Len(frames') :
            /\ new[g + 1] = new[g] + HeadLen + frames'[g] /\ new[g + 1] <= Len(sent')
            /\ \A k \in 1 .. HeadLen : sent'[new[g] + k] = <<"head", frames'[g], k>>
  BY <1>3, <1>6, <1>10, <1>11, <1>12
<1>14. Layout(new)'
  BY <1>13 DEF Layout
<1>15. QED
  BY <1>6, <1>7, <1>14

\* The peer may send while a frame is worked on: it is still the same frame.
LEMMA PeerKeepsFrame ==
  ASSUME TypeOK, BufInv, Fitting, NEW len \in BodyLens, PeerSends(len),
         NEW start, Layout(start), NEW f \in 1 .. Len(frames) + 1, AtFrame(start, f),
         NEW new, new[f] = start[f]
  PROVE  AtFrame(new, f)'
<1>1. PICK a : a = Len(sent)
  OBVIOUS
<1>2. PICK n : n = Len(frames)
  OBVIOUS
<1>3. PICK b : b = start[f]
  OBVIOUS
<1>4. PICK l : l = frames[f]
  OBVIOUS
<1>5. /\ HeadLen \in Nat /\ a \in Nat /\ n \in Nat /\ b \in Nat /\ b <= a
      /\ f <= n => l \in Nat /\ b + HeadLen + l <= a
  BY <1>1, <1>2, <1>3, <1>4, LayoutFacts, LengthsAssumption DEF TypeOK, BufInv
<1>6. recvLen \in Nat /\ sendLen \in Nat /\ needSendLen \in Nat /\ taken <= a
  BY <1>1, LengthsAssumption DEF TypeOK, BufInv
<1>7. \A i \in 1 .. a : sent'[i] = sent[i]
  BY <1>1, PeerAppends
<1>8. /\ UNCHANGED <<taken, returned, stat, readEvent, writeEvent>>
      /\ UNCHANGED <<recvBuf, recvLen, sendBuf, sendLen, needSendLen>>
  BY DEF PeerSends, recvVars, sendVars
<1>9. Len(frames') = n + 1 /\ (f <= n => frames'[f] = l)
  BY <1>2, <1>4, <1>5 DEF PeerSends, TypeOK
<1>10. ASSUME NEW m \in Nat, m <= a, Echoed(m)
       PROVE  Len(returned') = m /\ \A k \in 1 .. m : returned'[k] = sent'[k]
  <2>1. ASSUME NEW k \in 1 .. m
        PROVE  k \in 1 .. a
    BY <1>5, <1>10
  <2>2. QED
    BY <1>7, <1>8, <1>10, <2>1 DEF Echoed
<1>11. CASE WaitsForHead(b)
  <2>1. taken = b + recvLen /\ (\A i \in 1 .. recvLen : recvBuf[i] = sent[b + i]) /\ Echoed(b)
    BY <1>11 DEF WaitsForHead
  <2>2. ASSUME NEW i \in 1 .. recvLen
        PROVE  recvBuf'[i] = sent'[b + i]
    <3>1. b + i \in 1 .. a
      BY <1>5, <1>6, <2>1
    <3>2. QED
      BY <1>7, <1>8, <2>1, <3>1
  <2>3. WaitsForHead(b)'
    BY <1>5, <1>8, <1>10, <1>11, <2>1, <2>2 DEF WaitsForHead, Echoed
  <2>4. QED
    BY <1>3, <2>3 DEF AtFrame
<1>12. CASE f <= n /\ WaitsForBody(b, l)
  <2>1. /\ taken = b + HeadLen + recvLen /\ Echoed(b)
        /\ \A i \in 1 .. recvLen : recvBuf[i] = sent[b + HeadLen + i]
    BY <1>12 DEF WaitsForBody
  <2>2. ASSUME NEW i \in 1 .. recvLen
        PROVE  recvBuf'[i] = sent'[b + HeadLen + i]
    <3>1. b + HeadLen + i \in 1 .. a
      BY <1>5, <1>6, <2>1
    <3>2. QED
      BY <1>7, <1>8, <2>1, <3>1
  <2>3. WaitsForBody(b, l)'
    BY <1>5, <1>8, <1>10, <1>12, <2>1, <2>2 DEF WaitsForBody, Echoed
  <2>4. f <= Len(frames')
    BY <1>5, <1>9, <1>12
  <2>5. QED
    BY <1>3, <1>9, <1>12, <2>3, <2>4 DEF AtFrame, WaitsForBody, Echoed
<1>13. CASE f <= n /\ SendsEcho(b, l)
  <2>1. /\ sendLen + needSendLen = HeadLen + l /\ Echoed(b + sendLen)
        /\ \A k \in 1 .. HeadLen + l : sendBuf[k] = sent[b + k]
    BY <1>13 DEF SendsEcho
  <2>2. ASSUME NEW k \in 1 .. HeadLen + l
        PROVE  sendBuf'[k] = sent'[b + k]
    <3>1. b + k \in 1 .. a
      BY <1>5, <1>13
    <3>2. QED
      BY <1>7, <1>8, <2>1, <3>1
  <2>3. PICK m \in Nat : m = b + sendLen /\ m <= a
    BY <1>5, <1>6, <1>13, <2>1
  <2>4. Len(returned') = m /\ \A k \in 1 .. m : returned'[k] = sent'[k]
    BY <1>10, <2>1, <2>3
  <2>5. b + sendLen' = m
    BY <1>8, <2>3
  <2>6. SendsEcho(b, l)'
    BY <1>8, <1>13, <2>1, <2>2, <2>4, <2>5 DEF SendsEcho, Echoed
  <2>7. f <= Len(frames')
    BY <1>5, <1>9, <1>13
  <2>8. QED
    BY <1>3, <1>9, <1>13, <2>6, <2>7 DEF AtFrame, SendsEcho, Echoed
<1>14. QED
  BY <1>2, <1>3, <1>4, <1>11, <1>12, <1>13 DEF AtFrame

\* So does the whole invariant.
LEMMA PeerSendsKeepsEcho ==
  ASSUME TypeOK, BufInv, EchoInv, NEW len \in BodyLens, PeerSends(len)
  PROVE  EchoInv'
<1> SUFFICES ASSUME Fitting' PROVE EchoInv'
  BY DEF EchoInv
<1>1. PICK n : n = Len(frames)
  OBVIOUS
<1>2. n \in Nat /\ Len(sent) \in Nat /\ Len(returned) \in Nat /\ HeadLen \in Nat /\ len \in Nat
  BY <1>1, LengthsAssumption DEF TypeOK, BufInv
<1>3. Len(frames') = n + 1 /\ \A g \in 1 .. n : frames'[g] = frames[g]
  BY <1>1 DEF PeerSends, TypeOK
<1>4. Fitting
  <2>1. ASSUME NEW g \in 1 .. n
        PROVE  frames[g] \in 1 .. BuffLen - HeadLen
    <3>1. g \in 1 .. Len(frames')
      BY <1>2, <1>3
    <3>2. frames'[g] \in 1 .. BuffLen - HeadLen
      BY <3>1 DEF Fitting
    <3>3. QED
      BY <1>3, <3>2
  <2>2. QED
    BY <1>1, <2>1 DEF Fitting
<1>5. /\ Len(sent') = Len(sent) + HeadLen + len
      /\ \A i \in 1 .. Len(sent) : sent'[i] = sent[i]
  BY PeerAppends
<1>6. returned' = returned /\ open' = open
  BY DEF PeerSends
<1>7. Len(returned) <= Len(sent) /\ \A k \in 1 .. Len(returned) : returned[k] = sent[k]
  BY <1>4 DEF EchoInv, Echoed
<1>8. ASSUME NEW k \in 1 .. Len(returned)
      PROVE  returned[k] = sent'[k]
  <2>1. k \in 1 .. Len(sent)
    BY <1>2, <1>7
  <2>2. QED
    BY <1>5, <1>7, <2>1
<1>9. Len(returned') <= Len(sent')
  BY <1>2, <1>5, <1>6, <1>7
<1>10. ASSUME open
       PROVE  \E new \in [1 .. n + 2 -> Nat] :
                Layout(new)' /\ \E f \in 1 .. n + 2 : AtFrame(new, f)'
  <2>1. PICK start \in [1 .. n + 1 -> Nat], f \in 1 .. n + 1 : Layout(start) /\ AtFrame(start, f)
    BY <1>1, <1>4, <1>10 DEF EchoInv
  <2>2. PICK new \in [1 .. n + 2 -> Nat] :
           Layout(new)' /\ \A g \in 1 .. n + 1 : new[g] = start[g]
    BY <1>1, <1>4, <2>1, PeerExtendsLayout, SMTT(30)
  <2>3. AtFrame(new, f)'
    BY <1>1, <1>4, <2>1, <2>2, PeerKeepsFrame
  <2>4. f \in 1 .. n + 2
    BY <1>2
  <2>5. QED
    BY <2>2, <2>3, <2>4
<1>11. Len(frames') + 1 = n + 2
  BY <1>2, <1>3
<1>12. QED
  BY <1>6, <1>8, <1>9, <1>10, <1>11 DEF EchoInv, Echoed

\* A step that the peer does not take leaves the layout alone; it keeps the
\* invariant if it leaves the connection at a frame.
LEMMA FrameSuffices ==
  ASSUME EchoInv, sent' = sent, frames' = frames, open' = open, open,
         ASSUME Fitting, NEW start, Layout(start), NEW f \in 1 .. Len(frames) + 1, AtFrame(start, f)
         PROVE  /\ \E m \in Nat : m <= Len(sent) /\ Echoed(m)'
                /\ \E g \in 1 .. Len(frames) + 1 : AtFrame(start, g)'
  PROVE  EchoInv'
<1> SUFFICES ASSUME Fitting' PROVE EchoInv'
  BY DEF EchoInv
<1>1. Fitting
  BY DEF Fitting
<1>2. PICK start \in [1 .. Len(frames) + 1 -> Nat], f \in 1 .. Len(frames) + 1 :
         Layout(start) /\ AtFrame(start, f)
  BY <1>1 DEF EchoInv
<1>3. PICK m \in Nat : m <= Len(sent) /\ Echoed(m)'
  BY <1>1, <1>2
<1>4. \E g \in 1 .. Len(frames) + 1 : AtFrame(start, g)'
  BY <1>1, <1>2
<1>5. Layout(start)'
  BY <1>2 DEF Layout
<1>6. Len(returned') <= Len(sent') /\ \A k \in 1 .. Len(returned') : returned'[k] = sent'[k]
  BY <1>3 DEF Echoed
<1>7. Len(frames') + 1 = Len(frames) + 1
  OBVIOUS
<1>8. QED
  BY <1>2, <1>4, <1>5, <1>6, <1>7 DEF EchoInv, Echoed

\* The bytes that recv adds to a buffer follow those that it holds.
LEMMA ReceivedFollows ==
  ASSUME TypeOK, BufInv, NEW n \in Nat, n <= needRecvLen, Readable(n),
         NEW c \in Nat, taken = c + recvLen,
         \A i \in 1 .. recvLen : recvBuf[i] = sent[c + i]
  PROVE  \A i \in 1 .. recvLen + n : Received(n)[i] = sent[c + i]
<1>1. recvLen \in Nat
  BY LengthsAssumption DEF TypeOK
<1>2. /\ \A i \in 1 .. recvLen : Received(n)[i] = recvBuf[i]
      /\ \A i \in recvLen + 1 .. recvLen + n : Received(n)[i] = sent[taken + i - recvLen]
  BY ReceivedType
<1>3. ASSUME NEW i \in 1 .. recvLen + n
      PROVE  Received(n)[i] = sent[c + i]
  <2>1. CASE i <= recvLen
    <3>1. i \in 1 .. recvLen
      BY <1>1, <2>1
    <3>2. QED
      BY <1>2, <3>1
  <2>2. CASE ~(i <= recvLen)
    <3>1. i \in recvLen + 1 .. recvLen + n /\ taken + i - recvLen = c + i
      BY <1>1, <2>2
    <3>2. QED
      BY <1>2, <3>1
  <2>3. QED
    BY <2>1, <2>2
<1>4. QED
  BY <1>3

\* recv may stop in the middle of a head or of a body.
LEMMA RecvPartKeepsEcho ==
  ASSUME TypeOK, BufInv, EchoInv, NEW n \in Parts, RecvPart(n)
  PROVE  EchoInv'
<1>1. n \in Nat /\ n <= needRecvLen /\ Readable(n)
  BY LengthsAssumption DEF RecvPart, Parts, TypeOK
<1>2. /\ open /\ readEvent /\ readEvent' = TRUE
      /\ recvBuf' = Received(n) /\ recvLen' = recvLen + n /\ taken' = taken + n
      /\ UNCHANGED <<sent, frames, returned, open, stat, writeEvent, sendBuf, sendLen, needSendLen>>
  BY DEF RecvPart, peerVars, sendVars
<1>3. Len(recvBuf') = Len(recvBuf)
  BY <1>1, <1>2, ReceivedType
<1>4. recvLen \in Nat /\ taken \in Nat /\ HeadLen \in Nat
  BY LengthsAssumption DEF TypeOK, BufInv
<1>5. ASSUME Fitting, NEW start, Layout(start), NEW f \in 1 .. Len(frames) + 1, AtFrame(start, f)
      PROVE  /\ \E m \in Nat : m <= Len(sent) /\ Echoed(m)'
             /\ \E g \in 1 .. Len(frames) + 1 : AtFrame(start, g)'
  <2>1. PICK b : b = start[f]
    OBVIOUS
  <2>2. PICK l : l = frames[f]
    OBVIOUS
  <2>3. b \in Nat /\ b <= Len(sent)
    BY <1>5, <2>1, LayoutFacts
  <2>4. CASE WaitsForHead(b)
    <3>1. \A i \in 1 .. recvLen + n : recvBuf'[i] = sent[b + i]
      BY <1>1, <1>2, <2>3, <2>4, ReceivedFollows DEF WaitsForHead
    <3>2. taken' = b + recvLen'
      BY <1>1, <1>2, <1>4, <2>3, <2>4 DEF WaitsForHead
    <3>3. WaitsForHead(b)'
      BY <1>2, <1>3, <2>4, <3>1, <3>2 DEF WaitsForHead, Echoed
    <3>4. AtFrame(start, f)'
      BY <2>1, <3>3 DEF AtFrame
    <3>5. QED
      BY <2>3, <3>3, <3>4 DEF WaitsForHead
  <2>5. CASE f <= Len(frames) /\ WaitsForBody(b, l)
    <3>1. PICK c \in Nat : c = b + HeadLen
      BY <1>4, <2>3
    <3>2. taken = c + recvLen /\ \A i \in 1 .. recvLen : recvBuf[i] = sent[c + i]
      BY <2>5, <3>1 DEF WaitsForBody
    <3>3. \A i \in 1 .. recvLen + n : recvBuf'[i] = sent[c + i]
      BY <1>1, <1>2, <3>2, ReceivedFollows
    <3>4. taken' = c + recvLen'
      BY <1>1, <1>2, <1>4, <3>2
    <3>5. WaitsForBody(b, l)'
      BY <1>2, <1>3, <2>5, <3>1, <3>3, <3>4 DEF WaitsForBody, Echoed
    <3>6. AtFrame(start, f)'
      BY <1>2, <2>1, <2>2, <2>5, <3>5 DEF AtFrame, WaitsForBody, Echoed
    <3>7. QED
      BY <2>3, <3>5, <3>6 DEF WaitsForBody
  <2>6. ~ SendsEcho(b, l)
    BY <1>2 DEF SendsEcho
  <2>7. QED
    BY <1>5, <2>1, <2>2, <2>4, <2>5, <2>6 DEF AtFrame
<1>6. QED
  BY <1>2, <1>5, FrameSuffices

\* The bytes of a head spell the length that was put in, and nothing else.
LEMMA DecodeHead ==
  ASSUME NEW l \in BodyLens, NEW bodyLen \in Decode(HeadOf(l))
  PROVE  bodyLen = l
<1>1. l \in Nat /\ 1 \in 1 .. HeadLen
  BY LengthsAssumption
<1>2. bodyLen \in BodyLens /\ HeadOf(l) = HeadOf(bodyLen)
  BY DEF Decode
<1>3. bodyLen \in Nat
  BY <1>2, LengthsAssumption
<1>4. HeadOf(l)[1] = <<"head", l, 1>> /\ HeadOf(bodyLen)[1] = <<"head", bodyLen, 1>>
  BY <1>1, <1>3, PieceTypes
<1>5. <<"head", l, 1>> = <<"head", bodyLen, 1>>
  BY <1>2, <1>4
<1>6. QED
  BY <1>5

\* When a head is complete, it is the head of a frame that the peer has sent,
\* and the connection goes on to the body of that frame.
LEMMA HeadKeepsFrame ==
  ASSUME TypeOK, BufInv, Fitting, RecvComplete,
         NEW start, Layout(start), NEW f \in 1 .. Len(frames) + 1, WaitsForHead(start[f])
  PROVE  AtFrame(start, f)' /\ Echoed(start[f])'
<1>1. PICK b : b = start[f]
  OBVIOUS
<1>2. PICK l : l = frames[f]
  OBVIOUS
<1>3. /\ HeadLen \in Nat \ {0} /\ BuffLen \in Nat /\ recvLen \in Nat /\ needRecvLen \in Nat
      /\ Len(sent) \in Nat /\ taken \in Nat /\ Len(frames) \in Nat
  BY LengthsAssumption DEF TypeOK, BufInv
<1>4. /\ Readable(needRecvLen) /\ readEvent /\ taken' = taken + needRecvLen
      /\ UNCHANGED <<sent, frames, returned, open>>
  BY DEF RecvComplete, peerVars
<1>5. /\ recvLen + needRecvLen = HeadLen /\ taken = b + recvLen
      /\ \A i \in 1 .. recvLen : recvBuf[i] = sent[b + i]
      /\ stat = "RECV_HEAD" /\ writeEvent = FALSE /\ Len(recvBuf) = HeadLen /\ Echoed(b)
  BY <1>1, <1>4 DEF WaitsForHead, BufInv, BuffersInBounds
<1>6. /\ b \in Nat /\ (f = Len(frames) + 1 => b = Len(sent))
      /\ f <= Len(frames) => l \in Nat \ {0} /\ l \in BodyLens /\ HeadLen + l <= BuffLen
  BY <1>1, <1>2, LayoutFacts
<1>7. taken' = b + HeadLen /\ b + HeadLen <= Len(sent)
  BY <1>3, <1>4, <1>5, <1>6 DEF Readable
<1>8. f \in 1 .. Len(frames)
  BY <1>3, <1>6, <1>7
<1>9. PICK buf : buf = Received(needRecvLen)
  OBVIOUS
<1>10. buf \in Seq(Byte) /\ Len(buf) = HeadLen
  BY <1>3, <1>4, <1>5, <1>9, ReceivedType
<1>11. \A i \in 1 .. HeadLen : buf[i] = sent[b + i]
  <2>1. b \in Nat /\ taken = b + recvLen /\ \A i \in 1 .. recvLen : recvBuf[i] = sent[b + i]
    BY <1>5, <1>6
  <2>2. needRecvLen \in Nat /\ needRecvLen <= needRecvLen /\ Readable(needRecvLen)
    BY <1>3, <1>4
  <2>3. \A i \in 1 .. recvLen + needRecvLen : Received(needRecvLen)[i] = sent[b + i]
    BY <2>1, <2>2, ReceivedFollows
  <2>4. QED
    BY <1>5, <1>9, <2>3
<1>12. \A i \in 1 .. HeadLen : sent[b + i] = <<"head", l, i>>
  BY <1>1, <1>2, <1>8 DEF Layout
<1>13. buf = HeadOf(l)
  <2>1. buf = [i \in 1 .. HeadLen |-> buf[i]]
    BY <1>3, <1>10
  <2>2. QED
    BY <1>11, <1>12, <2>1 DEF HeadOf
<1>14. l \in Nat \ {0} /\ l \in BodyLens /\ HeadLen + l <= BuffLen /\ f <= Len(frames)
  BY <1>3, <1>6, <1>8
<1>15. AsyncRecvBytes(buf, l) /\ stat' = "RECV_BODY" /\ writeEvent' = FALSE
  <2>1. HeadComplete(buf)
    BY <1>5, <1>9 DEF RecvComplete, BodyComplete
  <2>2. ASSUME NEW bodyLen \in Decode(buf)
        PROVE  bodyLen = l
    BY <1>13, <1>14, DecodeHead
  <2>3. ~(l > MaxBody)
    BY <1>3, <1>14, MaxBodyAssumption, LengthsAssumption
  <2>4. QED
    BY <1>5, <2>1, <2>2, <2>3 DEF HeadComplete
<1>16. ~(l > BuffLen \/ l <= 0)
  BY <1>3, <1>14
<1>17. recvLen' = 0 /\ recvBuf' = Resize(buf, l) /\ readEvent' = TRUE
  BY <1>15, <1>16 DEF AsyncRecvBytes
<1>18. Len(recvBuf') = l
  BY <1>10, <1>14, <1>17, ResizeType
<1>19. taken' = b + HeadLen + recvLen'
  BY <1>3, <1>6, <1>7, <1>17
<1>20. WaitsForBody(b, l)'
  BY <1>4, <1>5, <1>15, <1>17, <1>18, <1>19 DEF WaitsForBody, Echoed
<1>21. AtFrame(start, f)'
  BY <1>1, <1>2, <1>4, <1>14, <1>20 DEF AtFrame, WaitsForBody, Echoed
<1>22. QED
  BY <1>1, <1>4, <1>5, <1>21 DEF Echoed

\* When a body is complete, its head and itself are what goes back.
LEMMA BodyKeepsFrame ==
  ASSUME TypeOK, BufInv, Fitting, RecvComplete,
         NEW start, Layout(start), NEW f \in 1 .. Len(frames), WaitsForBody(start[f], frames[f])
  PROVE  AtFrame(start, f)' /\ Echoed(start[f])'
<1>1. PICK b : b = start[f]
  OBVIOUS
<1>2. PICK l : l = frames[f]
  OBVIOUS
<1>3. /\ HeadLen \in Nat /\ BuffLen \in Nat /\ recvLen \in Nat /\ needRecvLen \in Nat
      /\ Len(sent) \in Nat /\ taken \in Nat /\ Len(frames) \in Nat
  BY LengthsAssumption DEF TypeOK, BufInv
<1>4. /\ Readable(needRecvLen) /\ readEvent /\ taken' = taken + needRecvLen
      /\ UNCHANGED <<sent, frames, returned, open>>
  BY DEF RecvComplete, peerVars
<1>5. /\ recvLen + needRecvLen = l /\ taken = b + HeadLen + recvLen
      /\ \A i \in 1 .. recvLen : recvBuf[i] = sent[b + HeadLen + i]
      /\ stat = "RECV_BODY" /\ Len(recvBuf) = l /\ Echoed(b)
  BY <1>1, <1>2, <1>4 DEF WaitsForBody, BufInv, BuffersInBounds
<1>6. f \in 1 .. Len(frames) + 1 /\ f <= Len(frames)
  BY <1>3
<1>7. b \in Nat /\ l \in Nat /\ HeadLen + l <= BuffLen
  BY <1>1, <1>2, <1>6, LayoutFacts
<1>8. taken' = b + HeadLen + l
  BY <1>3, <1>4, <1>5, <1>7
<1>9. PICK buf : buf = Received(needRecvLen)
  OBVIOUS
<1>10. buf \in Seq(Byte) /\ Len(buf) = l
  BY <1>3, <1>4, <1>5, <1>9, ReceivedType
<1>11. PICK c \in Nat : c = b + HeadLen
  BY <1>3, <1>7
<1>12. \A i \in 1 .. l : buf[i] = sent[c + i]
  <2>1. taken = c + recvLen /\ \A i \in 1 .. recvLen : recvBuf[i] = sent[c + i]
    BY <1>5, <1>11
  <2>2. needRecvLen \in Nat /\ needRecvLen <= needRecvLen /\ Readable(needRecvLen)
    BY <1>3, <1>4
  <2>3. \A i \in 1 .. recvLen + needRecvLen : Received(needRecvLen)[i] = sent[c + i]
    BY <2>1, <2>2, ReceivedFollows
  <2>4. QED
    BY <1>5, <1>9, <2>3
<1>13. PICK head : /\ head = HeadOf(l) /\ head \in Seq(Byte) /\ Len(head) = HeadLen
                   /\ \A k \in 1 .. HeadLen : head[k] = <<"head", l, k>>
  BY <1>7, PieceTypes
<1>14. \A k \in 1 .. HeadLen : sent[b + k] = <<"head", l, k>>
  BY <1>1, <1>2 DEF Layout
<1>15. PICK bytes : bytes = head \o buf
  OBVIOUS
<1>16. /\ Len(bytes) = HeadLen + l
       /\ \A k \in 1 .. HeadLen + l : bytes[k] = IF k <= HeadLen THEN head[k] ELSE buf[k - HeadLen]
  <2>1. /\ Len(bytes) = Len(head) + Len(buf)
        /\ \A k \in 1 .. Len(head) + Len(buf) :
             bytes[k] = IF k <= Len(head) THEN head[k] ELSE buf[k - Len(head)]
    <3>1. head \in Seq(Byte) /\ buf \in Seq(Byte)
      BY <1>10, <1>13
    <3>2. QED
      BY <1>15, <3>1, ConcatProperties
  <2>2. Len(head) = HeadLen
    BY <1>13
  <2>3. QED
    BY <1>10, <2>1, <2>2
<1>17. ASSUME NEW k \in 1 .. HeadLen + l
       PROVE  bytes[k] = sent[b + k]
  <2>1. CASE k <= HeadLen
    <3>1. k \in 1 .. HeadLen
      BY <1>3, <2>1
    <3>2. QED
      BY <1>13, <1>14, <1>16, <2>1, <3>1
  <2>2. CASE ~(k <= HeadLen)
    <3>1. k - HeadLen \in 1 .. l /\ c + (k - HeadLen) = b + k
      BY <1>3, <1>7, <1>11, <2>2
    <3>2. buf[k - HeadLen] = sent[c + (k - HeadLen)]
      BY <1>12, <3>1
    <3>3. QED
      BY <1>16, <2>2, <3>1, <3>2
  <2>3. QED
    BY <2>1, <2>2
<1>18. AsyncSendBytes(bytes) /\ readEvent' = FALSE /\ stat' = "RECV_BODY"
  <2>1. BodyComplete(buf)
    BY <1>5, <1>9 DEF RecvComplete, HeadComplete
  <2>2. QED
    BY <1>5, <1>10, <1>13, <1>15, <2>1 DEF BodyComplete
<1>19. ~(Len(bytes) > BuffLen)
  BY <1>3, <1>7, <1>16
<1>20. sendLen' = 0 /\ needSendLen' = HeadLen + l /\ sendBuf' = bytes /\ writeEvent' = TRUE
  BY <1>16, <1>18, <1>19 DEF AsyncSendBytes
<1>21. b + sendLen' = b /\ sendLen' + needSendLen' = HeadLen + l
  BY <1>3, <1>7, <1>20
<1>22. SendsEcho(b, l)'
  BY <1>4, <1>5, <1>8, <1>16, <1>17, <1>18, <1>20, <1>21 DEF SendsEcho, Echoed
<1>23. AtFrame(start, f)'
  BY <1>1, <1>2, <1>4, <1>6, <1>22 DEF AtFrame, SendsEcho, Echoed
<1>24. QED
  BY <1>1, <1>4, <1>5, <1>23 DEF Echoed

\* A complete message leaves the connection at its frame.
LEMMA RecvCompleteKeepsEcho ==
  ASSUME TypeOK, BufInv, EchoInv, RecvComplete
  PROVE  EchoInv'
<1>1. open /\ readEvent /\ UNCHANGED <<sent, frames, open>>
  BY DEF RecvComplete, peerVars
<1>2. ASSUME Fitting, NEW start, Layout(start), NEW f \in 1 .. Len(frames) + 1, AtFrame(start, f)
      PROVE  /\ \E m \in Nat : m <= Len(sent) /\ Echoed(m)'
             /\ \E g \in 1 .. Len(frames) + 1 : AtFrame(start, g)'
  <2>1. start[f] \in Nat /\ start[f] <= Len(sent)
    BY <1>2, LayoutFacts
  <2>2. AtFrame(start, f)' /\ Echoed(start[f])'
    <3>1. CASE WaitsForHead(start[f])
      BY <1>2, <3>1, HeadKeepsFrame
    <3>2. CASE f <= Len(frames) /\ WaitsForBody(start[f], frames[f])
      <4>1. f \in 1 .. Len(frames)
        BY <3>2 DEF TypeOK
      <4>2. QED
        BY <1>2, <3>2, <4>1, BodyKeepsFrame
    <3>3. ~ SendsEcho(start[f], frames[f])
      BY <1>1 DEF SendsEcho
    <3>4. QED
      BY <1>2, <3>1, <3>2, <3>3 DEF AtFrame
  <2>3. QED
    BY <2>1, <2>2
<1>3. QED
  BY <1>1, <1>2, FrameSuffices

\* What send takes from an echo in progress are the next bytes of the peer.
LEMMA SendGrowsEcho ==
  ASSUME TypeOK, BufInv, NEW b \in Nat, NEW l \in Nat, SendsEcho(b, l),
         NEW n \in Nat, n <= needSendLen,
         returned' = returned \o ToSend(n), sent' = sent,
         NEW e, e = b + sendLen + n
  PROVE  Echoed(e)'
<1>1. PICK m \in Nat : m = b + sendLen
  BY LengthsAssumption DEF TypeOK
<1>2. PICK s \in Seq(Byte) :
        s = ToSend(n) /\ Len(s) = n /\ \A i \in 1 .. n : s[i] = sendBuf[sendLen + i]
  BY ToSendType
<1>3. /\ sendLen + needSendLen = HeadLen + l /\ Echoed(m)
      /\ \A k \in 1 .. HeadLen + l : sendBuf[k] = sent[b + k]
  BY <1>1 DEF SendsEcho
<1>4. sendLen \in Nat /\ needSendLen \in Nat /\ HeadLen \in Nat
  BY LengthsAssumption DEF TypeOK
<1>5. ASSUME NEW i \in 1 .. n
      PROVE  s[i] = sent[m + i]
  <2>1. sendLen + i \in 1 .. HeadLen + l /\ b + (sendLen + i) = m + i
    BY <1>1, <1>3, <1>4
  <2>2. sendBuf[sendLen + i] = sent[b + (sendLen + i)]
    BY <1>3, <2>1
  <2>3. QED
    BY <1>2, <2>1, <2>2
<1>6. \A i \in 1 .. Len(s) : s[i] = sent[m + i]
  BY <1>2, <1>5
<1>7. Echoed(m + Len(s))'
  BY <1>2, <1>3, <1>6, EchoGrows
<1>8. e = m + Len(s)
  BY <1>1, <1>2
<1>9. QED
  BY <1>7, <1>8 DEF Echoed

\* send may stop in the middle of an echo.
LEMMA SendPartKeepsEcho ==
  ASSUME TypeOK, BufInv, EchoInv, NEW n \in Parts, SendPart(n)
  PROVE  EchoInv'
<1>1. n \in Nat /\ n <= needSendLen /\ needSendLen \in Nat /\ sendLen \in Nat /\ HeadLen \in Nat
  BY LengthsAssumption DEF SendPart, Parts, TypeOK
<1>2. /\ open /\ writeEvent /\ writeEvent' = TRUE
      /\ returned' = returned \o ToSend(n)
      /\ sendLen' = sendLen + n /\ needSendLen' = needSendLen - n
      /\ UNCHANGED <<sent, frames, taken, open, stat, readEvent, sendBuf>>
  BY DEF SendPart, peerVars
<1>3. ASSUME Fitting, NEW start, Layout(start), NEW f \in 1 .. Len(frames) + 1, AtFrame(start, f)
      PROVE  /\ \E m \in Nat : m <= Len(sent) /\ Echoed(m)'
             /\ \E g \in 1 .. Len(frames) + 1 : AtFrame(start, g)'
  <2>1. PICK b : b = start[f]
    OBVIOUS
  <2>2. PICK l : l = frames[f]
    OBVIOUS
  <2>3. f <= Len(frames) /\ SendsEcho(b, l)
    BY <1>2, <1>3, <2>1, <2>2 DEF AtFrame, WaitsForHead, WaitsForBody
  <2>4. b \in Nat /\ l \in Nat /\ b + HeadLen + l <= Len(sent)
    BY <1>3, <2>1, <2>2, <2>3, LayoutFacts
  <2>5. PICK e \in Nat : e = b + sendLen + n
    BY <1>1, <2>4
  <2>6. Echoed(e)'
    BY <1>1, <1>2, <2>3, <2>4, <2>5, SendGrowsEcho
  <2>7. Len(sent) \in Nat /\ sendLen + needSendLen = HeadLen + l
    BY <2>3 DEF SendsEcho, BufInv
  <2>8. e <= Len(sent) /\ e = b + sendLen' /\ sendLen' + needSendLen' = HeadLen + l
    BY <1>1, <1>2, <2>4, <2>5, <2>7
  <2>9. SendsEcho(b, l)'
    BY <1>2, <2>3, <2>6, <2>8 DEF SendsEcho, Echoed
  <2>10. AtFrame(start, f)'
    BY <1>2, <2>1, <2>2, <2>3, <2>9 DEF AtFrame, SendsEcho, Echoed
  <2>11. QED
    BY <2>6, <2>8, <2>10
<1>4. QED
  BY <1>2, <1>3, FrameSuffices

\* When an echo is out, the connection waits for the head of the next frame.
LEMMA SendCompleteKeepsEcho ==
  ASSUME TypeOK, BufInv, EchoInv, SendComplete
  PROVE  EchoInv'
<1>1. /\ needSendLen \in Nat /\ needSendLen <= needSendLen /\ sendLen \in Nat
      /\ HeadLen \in Nat \ {0} /\ HeadLen <= BuffLen /\ BuffLen \in Nat
  BY LengthsAssumption DEF TypeOK
<1>2. /\ open /\ writeEvent /\ writeEvent' = FALSE /\ stat' = "RECV_HEAD"
      /\ returned' = returned \o ToSend(needSendLen)
      /\ UNCHANGED <<sent, frames, taken, open>>
      /\ AsyncRecvBytes(recvBuf, HeadLen)
  BY DEF SendComplete, peerVars
<1>3. recvLen' = 0 /\ recvBuf' = Resize(recvBuf, HeadLen) /\ readEvent' = TRUE
  <2>1. ~(HeadLen > BuffLen \/ HeadLen <= 0)
    BY <1>1
  <2>2. QED
    BY <1>2, <2>1 DEF AsyncRecvBytes
<1>4. Len(recvBuf') = HeadLen
  BY <1>1, <1>3, ResizeType DEF BufInv
<1>5. ASSUME Fitting, NEW start, Layout(start), NEW f \in 1 .. Len(frames) + 1, AtFrame(start, f)
      PROVE  /\ \E m \in Nat : m <= Len(sent) /\ Echoed(m)'
             /\ \E g \in 1 .. Len(frames) + 1 : AtFrame(start, g)'
  <2>1. PICK b : b = start[f]
    OBVIOUS
  <2>2. PICK l : l = frames[f]
    OBVIOUS
  <2>3. f <= Len(frames) /\ SendsEcho(b, l)
    BY <1>2, <1>5, <2>1, <2>2 DEF AtFrame, WaitsForHead, WaitsForBody
  <2>4. /\ b \in Nat /\ l \in Nat /\ b + HeadLen + l <= Len(sent)
        /\ b + HeadLen + l = start[f + 1] /\ f + 1 \in 1 .. Len(frames) + 1
    BY <1>5, <2>1, <2>2, <2>3, LayoutFacts
  <2>5. PICK e \in Nat : e = b + HeadLen + l
    BY <1>1, <2>4
  <2>6. sendLen + needSendLen = HeadLen + l /\ taken = e
    BY <2>3, <2>5 DEF SendsEcho
  <2>7. e = b + sendLen + needSendLen /\ taken' = e + recvLen'
    BY <1>1, <1>2, <1>3, <2>4, <2>5, <2>6
  <2>8. Echoed(e)'
    BY <1>1, <1>2, <2>3, <2>4, <2>7, SendGrowsEcho
  <2>9. WaitsForHead(e)'
    BY <1>2, <1>3, <1>4, <2>7, <2>8 DEF WaitsForHead
  <2>10. AtFrame(start, f + 1)'
    BY <2>4, <2>5, <2>9 DEF AtFrame
  <2>11. QED
    BY <2>4, <2>5, <2>8, <2>10
<1>6. QED
  BY <1>2, <1>5, FrameSuffices

\* A connection that has been closed keeps what it has returned.
LEMMA CloseKeepsEcho ==
  ASSUME EchoInv, RecvError \/ SendError
  PROVE  EchoInv'
<1>1. UNCHANGED <<sent, frames, returned>> /\ open' = FALSE
  BY DEF RecvError, SendError, Destroy, peerVars
<1>2. QED
  BY <1>1 DEF EchoInv, Fitting, Echoed

\* So does one that nothing happens to.
LEMMA QuietKeepsEcho ==
  ASSUME TypeOK, BufInv, EchoInv, PeerCloses \/ RecvAgain \/ SendAgain \/ UNCHANGED vars
  PROVE  EchoInv'
<1>1. /\ UNCHANGED <<sent, frames, taken, returned, open, stat>>
      /\ UNCHANGED <<recvBuf, recvLen, needRecvLen, sendBuf, sendLen, needSendLen>>
  BY DEF PeerCloses, RecvAgain, SendAgain, vars, peerVars, recvVars, sendVars
<1>2. readEvent' = readEvent /\ writeEvent' = writeEvent
  BY Zenon DEF PeerCloses, RecvAgain, SendAgain, vars, TypeOK
<1>3. CASE open
  <2>1. ASSUME Fitting, NEW start, Layout(start), NEW f \in 1 .. Len(frames) + 1, AtFrame(start, f)
        PROVE  /\ \E m \in Nat : m <= Len(sent) /\ Echoed(m)'
               /\ \E g \in 1 .. Len(frames) + 1 : AtFrame(start, g)'
    <3>1. PICK m \in Nat : m <= Len(sent) /\ Echoed(m)
      BY <2>1, AtFrameEchoes DEF BufInv
    <3>2. Echoed(m)'
      BY <1>1, <3>1 DEF Echoed
    <3>3. AtFrame(start, f)'
      BY <1>1, <1>2, <2>1 DEF AtFrame, WaitsForHead, WaitsForBody, SendsEcho, Echoed
    <3>4. QED
      BY <3>1, <3>2, <3>3
  <2>2. QED
    BY <1>1, <1>3, <2>1, FrameSuffices
<1>4. CASE ~open
  BY <1>1, <1>4 DEF EchoInv, Fitting, Echoed
<1>5. QED
  BY <1>3, <1>4

\* At the start nothing was sent and the first head is asked for.
LEMMA EchoInit == Init => EchoInv
<1> SUFFICES ASSUME Init PROVE EchoInv
  OBVIOUS
<1>1. HeadLen \in Nat /\ Len(frames) = 0 /\ Len(sent) = 0 /\ Len(returned) = 0
  BY LengthsAssumption DEF Init
<1>2. PICK start : start = [g \in 1 .. 1 |-> 0]
  OBVIOUS
<1>3. start \in [1 .. Len(frames) + 1 -> Nat] /\ start[1] = 0
  BY <1>1, <1>2
<1>4. Layout(start)
  BY <1>1, <1>3 DEF Layout
<1>5. Echoed(0)
  BY <1>1 DEF Echoed
<1>6. WaitsForHead(0)
  <2>1. Len(recvBuf) = HeadLen
    BY <1>1, PieceTypes DEF Init
  <2>2. QED
    BY <1>1, <1>5, <2>1 DEF Init, WaitsForHead
<1>7. AtFrame(start, 1) /\ 1 \in 1 .. Len(frames) + 1
  BY <1>1, <1>3, <1>6 DEF AtFrame
<1>8. QED
  BY <1>1, <1>3, <1>4, <1>5, <1>7 DEF EchoInv

\* The echo invariant holds throughout.
LEMMA EchoInvariant == Spec => [](TypeOK /\ BufInv /\ EchoInv)
<1>1. TypeOK /\ BufInv /\ EchoInv /\ [Next]_vars => EchoInv'
  BY PeerSendsKeepsEcho, RecvPartKeepsEcho, RecvCompleteKeepsEcho, SendPartKeepsEcho,
     SendCompleteKeepsEcho, CloseKeepsEcho, QuietKeepsEcho DEF Next, Progress
<1>2. QED
  BY <1>1, BoundsInit, BoundsStep, EchoInit, PTL DEF Spec

\* The peer gets its own bytes back, in order, none twice and none missing in
\* between, however the kernel cuts them up and however many frames follow
\* each other, as long as the frames fit the buffers.
THEOREM EchoAlwaysExact == Spec => []EchoIsExact
<1>1. TypeOK /\ BufInv /\ EchoInv => EchoIsExact
  <2> SUFFICES ASSUME BufInv, EchoInv, Fitting
               PROVE  IsPrefix(returned, sent)
    BY DEF EchoIsExact
  <2>1. PICK n : n = Len(returned)
    OBVIOUS
  <2>2. n \in Nat /\ n <= Len(sent) /\ Len(sent) \in Nat /\ \A k \in 1 .. n : returned[k] = sent[k]
    BY <2>1 DEF EchoInv, Echoed, BufInv
  <2>3. SubSeq(returned, 1, n) = SubSeq(sent, 1, n)
    BY <2>2
  <2>4. QED
    BY <2>1, <2>2, <2>3 DEF IsPrefix
<1>2. QED
  BY <1>1, EchoInvariant, PTL

\* An open connection always has an event added, so that the reactor serves
\* it again, as long as the frames fit the buffers.
THEOREM ConnectionNeverStalls == Spec => []NeverStalls
<1>1. TypeOK /\ BufInv /\ EchoInv => NeverStalls
  BY DEF NeverStalls, EchoInv, AtFrame, WaitsForHead, WaitsForBody, SendsEcho
<1>2. QED
  BY <1>1, EchoInvariant, PTL
=============================================================================
