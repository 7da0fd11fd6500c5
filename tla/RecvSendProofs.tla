---------------------------- MODULE RecvSendProofs ----------------------------
(* The byte loops of EventCallBack keep the stream of the client and the   *)
(* order of the replies, for any size of the buffer and any number of      *)
(* bytes, however the network cuts them.                                   *)
EXTENDS RecvSend, SequenceTheorems, TLAPS

USE RecvAssumption DEF Slots

(* Booleans of the type invariant.                                         *)
Flags == ssl \in BOOLEAN /\ part \in BOOLEAN /\ eof \in BOOLEAN /\ taken \in BOOLEAN
         /\ cut \in BOOLEAN /\ up \in BOOLEAN

(* Where the loops are: the receive loop runs while there is room, a       *)
(* request has at least one byte, and so has each request replied to.      *)
Progress ==
  /\ IF ssl THEN rd <= sslhi /\ sslhi <= arrived ELSE sslhi = 0
  /\ pc = "recv" => count < BufSize
  /\ pc = "handle" => count > 0
  /\ pc = "send" => replies > 0 /\ (~ssl => scount < RepLen)
  /\ replies <= handled

(* The end of the stream comes from the client.                            *)
Cause == eof => peer # "open"

RecvInv == RecvTypeOK /\ StreamKept /\ HandledText /\ Progress /\ Cause /\ FreedOnlyAtEnd

-----------------------------------------------------------------------------
LEMMA RecvInitial == Init => RecvInv
<1> SUFFICES ASSUME Init PROVE RecvInv
  OBVIOUS
<1>1. Flags
  BY Zenon DEF Init, Flags
<1>2. RecvTypeOK
  BY <1>1 DEF Init, RecvTypeOK, Flags
<1>3. StreamKept /\ HandledText /\ Progress /\ Cause /\ FreedOnlyAtEnd
  BY DEF Init, StreamKept, HandledText, Progress, Cause, FreedOnlyAtEnd
<1> QED
  BY <1>2, <1>3 DEF RecvInv

(* The client and the network leave what the server has read alone.        *)
LEMMA ClientKeeps == ASSUME RecvInv, pc # "freed", Network \/ Peer PROVE RecvInv'
<1>1. UNCHANGED <<ssl, nul, sslhi, rd, pc, buffer, count, handled, text, replies, scount, out, cut, up>>
  BY DEF Network, Peer, Deliver, DeliverEof, PeerSend, DeliverPart, PeerClose, PeerReset, PeerRead,
         PeerRenegotiate, Server
<1>2. Flags'
  <2>1. part' \in {part, TRUE, FALSE} /\ eof' \in {eof, TRUE} /\ taken' \in {taken, FALSE}
    BY ZenonT(30) DEF Network, Peer, Deliver, DeliverEof, PeerSend, DeliverPart, PeerClose, PeerReset, PeerRead,
           PeerRenegotiate, Server
  <2> QED
    BY <1>1, <2>1, Zenon DEF Flags, RecvInv, RecvTypeOK
<1> DEFINE Others == DeliverEof \/ DeliverPart \/ PeerClose \/ PeerReset \/ PeerRead \/ PeerRenegotiate
<1>0. \/ \E k \in 1 .. MaxSent : Deliver(k)
      \/ \E k \in 1 .. MaxSent : PeerSend(k)
      \/ Others
  BY DEF Network, Peer
<1>3. /\ peer' \in {"open", "closed", "reset"} /\ reneg' \in {"no", "busy", "done"}
      /\ sent' \in 0 .. MaxSent /\ ends' \subseteq 1 .. MaxSent /\ arrived' \in arrived .. sent'
      /\ got' \in 0 .. Len(out)
      /\ peer # "open" => peer' # "open"
      /\ reneg # "no" => reneg' # "no"
  <2>0. /\ peer \in {"open", "closed", "reset"} /\ reneg \in {"no", "busy", "done"}
        /\ sent \in 0 .. MaxSent /\ ends \subseteq 1 .. MaxSent /\ arrived \in 0 .. sent
        /\ got \in 0 .. Len(out) /\ Len(out) \in Nat
    BY DEF RecvInv, RecvTypeOK
  <2>1. ASSUME NEW k \in 1 .. MaxSent, Deliver(k) PROVE <1>3!:
    BY <2>0, <2>1 DEF Deliver
  <2>2. ASSUME NEW k \in 1 .. MaxSent, PeerSend(k) PROVE <1>3!:
    BY <2>0, <2>2 DEF PeerSend
  <2>3. CASE Others
    <3>1. sent' = sent /\ ends' = ends /\ arrived' = arrived /\ got' \in {got, Len(out)}
      BY <2>3 DEF DeliverEof, DeliverPart, PeerClose, PeerReset, PeerRead, PeerRenegotiate
    <3>2. peer' \in {peer, "closed", "reset"} /\ (peer' = peer \/ peer' # "open")
      BY <2>3 DEF DeliverEof, DeliverPart, PeerClose, PeerReset, PeerRead, PeerRenegotiate
    <3>3. reneg' \in {reneg, "busy", "done"} /\ (reneg' = reneg \/ reneg' # "no")
      BY <2>3 DEF DeliverEof, DeliverPart, PeerClose, PeerReset, PeerRead, PeerRenegotiate
    <3> HIDE DEF Others
    <3> QED
      BY <2>0, <3>1, <3>2, <3>3
  <2> QED
    BY <1>0, <2>1, <2>2, <2>3
<1>4. RecvTypeOK'
  <2>1. sent \in Nat /\ arrived \in Nat /\ rd \in 0 .. arrived
    BY DEF RecvInv, RecvTypeOK
  <2>2. arrived' \in 0 .. sent' /\ rd' \in 0 .. arrived' /\ got' \in 0 .. Len(out')
    BY <1>1, <1>3, <2>1
  <2> HIDE DEF Others
  <2> QED
    BY <1>1, <1>2, <1>3, <2>2, SMTT(30) DEF Flags, RecvInv, RecvTypeOK
<1>5. StreamKept' /\ HandledText'
  BY <1>1 DEF RecvInv, StreamKept, HandledText, Byte
<1>6. Progress'
  BY <1>1, <1>3, SMTT(30) DEF RecvInv, RecvTypeOK, Progress
<1>7. Cause'
  BY ZenonT(30) DEF Network, Peer, Deliver, DeliverEof, PeerSend, DeliverPart, PeerClose, PeerReset, PeerRead,
         PeerRenegotiate, RecvInv, Cause
<1>8. FreedOnlyAtEnd'
  BY <1>1 DEF FreedOnlyAtEnd
<1> QED
  BY <1>4, <1>5, <1>6, <1>7, <1>8 DEF RecvInv

LEMMA CallBackKeeps == ASSUME RecvInv, EventCallBack PROVE RecvInv'
<1>1. /\ UNCHANGED <<ssl, nul, client, sslhi, taken, rd, handled, text, replies, scount, out, cut, up>>
      /\ pc = "loop" /\ pc' = "recv" /\ buffer' = [j \in Slots |-> 0] /\ count' = 0
  BY DEF EventCallBack
<1>2. Flags'
  BY <1>1, Zenon DEF Flags, RecvInv, RecvTypeOK, client
<1>3. RecvTypeOK'
  BY <1>1, <1>2 DEF Flags, RecvInv, RecvTypeOK, client
<1>4. StreamKept' /\ HandledText' /\ FreedOnlyAtEnd'
  BY <1>1 DEF RecvInv, RecvTypeOK, StreamKept, HandledText, FreedOnlyAtEnd
<1>5. Progress'
  BY <1>1 DEF RecvInv, RecvTypeOK, Progress, client
<1>6. Cause'
  BY <1>1 DEF RecvInv, Cause, client
<1> QED
  BY <1>3, <1>4, <1>5, <1>6 DEF RecvInv

-----------------------------------------------------------------------------
(* n bytes of the stream go to the buffer, behind those it has.            *)
LEMMA FillKeeps ==
  ASSUME RecvInv, pc = "recv", NEW n \in 1 .. BufSize - count, Fill(n), rd + n <= arrived,
         UNCHANGED <<ssl, nul, client, taken, handled, text, replies, scount, out, cut, up>>,
         IF ssl THEN rd + n <= sslhi' /\ sslhi' <= arrived ELSE sslhi' = 0, sslhi' \in Nat
  PROVE  RecvInv'
<1>1. /\ rd \in Nat /\ count \in Nat /\ handled \in Nat /\ arrived \in 0 .. MaxSent /\ nul \in Nat
      /\ buffer \in [Slots -> 0 .. MaxSent] /\ rd = handled + count /\ count < BufSize /\ n \in Nat
  BY SMTT(30) DEF RecvInv, RecvTypeOK, StreamKept, Progress
<1>2. rd' = rd + n /\ count' = count + n /\ count' \in 1 .. BufSize /\ rd' = handled + count'
  BY <1>1 DEF Fill
<1>3. pc' \in {"recv", "handle"} /\ (pc' = "recv" => count' < BufSize)
  BY <1>1, <1>2 DEF Fill
<1>4. \A j \in Slots :
        buffer'[j] = IF count <= j /\ j < count + n THEN Byte(rd + 1 + j - count) ELSE buffer[j]
  BY DEF Fill
<1>5. \A j \in Slots : buffer'[j] = IF j < count' THEN Byte(handled + 1 + j) ELSE 0
  <2> TAKE j \in Slots
  <2>1. j \in Nat /\ rd + 1 + j - count = handled + 1 + j
    BY <1>1
  <2>2. buffer[j] = IF j < count THEN Byte(handled + 1 + j) ELSE 0
    BY DEF RecvInv, StreamKept
  <2>3. CASE j < count
    BY <1>1, <1>2, <1>4, <2>1, <2>2, <2>3
  <2>4. CASE count <= j /\ j < count + n
    BY <1>1, <1>2, <1>4, <2>1, <2>4
  <2>5. CASE count + n <= j
    BY <1>1, <1>2, <1>4, <2>1, <2>2, <2>5
  <2> QED
    BY <1>1, <2>1, <2>3, <2>4, <2>5
<1>6. buffer' \in [Slots -> 0 .. MaxSent]
  <2>1. \A j \in Slots : buffer'[j] \in 0 .. MaxSent
    BY <1>1, <1>2, <1>5 DEF Byte
  <2>2. buffer' = [j \in Slots |-> buffer'[j]]
    BY DEF Fill
  <2> QED
    BY <2>1, <2>2
<1>7. Flags'
  BY Zenon DEF Flags, RecvInv, RecvTypeOK, client
<1>8. RecvTypeOK'
  <2>1. sslhi' \in 0 .. MaxSent /\ rd' \in 0 .. arrived /\ handled \in 0 .. rd' /\ count' \in 0 .. BufSize
    BY <1>1, <1>2
  <2> QED
    BY <1>3, <1>6, <1>7, <2>1, ZenonT(30) DEF Flags, RecvInv, RecvTypeOK, client
<1>9. StreamKept'
  BY <1>2, <1>3, <1>5 DEF StreamKept, Byte
<1>10. HandledText' /\ FreedOnlyAtEnd'
  BY <1>3 DEF HandledText, FreedOnlyAtEnd
<1>11. Progress'
  BY <1>2, <1>3 DEF RecvInv, Progress, client
<1>12. Cause'
  BY <1>2 DEF RecvInv, Cause, client
<1> QED
  BY <1>8, <1>9, <1>10, <1>11, <1>12 DEF RecvInv

(* A receive loop ends: with a request, or nothing was read.               *)
LEMMA ReturnsKeeps ==
  ASSUME RecvInv, pc = "recv", RecvReturns, rd = arrived,
         UNCHANGED <<ssl, nul, client, sslhi, rd, buffer, count, handled, text, replies, scount,
                     out, cut, up>>,
         IF ssl THEN taken' = part ELSE eof /\ taken' = taken
  PROVE  RecvInv'
<1>1. pc' = IF count <= 0 THEN "freed" ELSE "handle"
  BY DEF RecvReturns
<1>2. Flags'
  BY Zenon DEF Flags, RecvInv, RecvTypeOK, client
<1>3. RecvTypeOK'
  BY <1>1, <1>2, SMTT(30) DEF Flags, RecvInv, RecvTypeOK, client
<1>4. StreamKept' /\ HandledText'
  BY <1>1 DEF RecvInv, StreamKept, HandledText, Byte
<1>5. Progress' /\ Cause'
  BY <1>1 DEF RecvInv, RecvTypeOK, Progress, Cause, client
<1>6. FreedOnlyAtEnd'
  <2>1. CASE count = 0
    <3>1. handled' = arrived'
      BY <2>1 DEF RecvInv, RecvTypeOK, StreamKept, client
    <3>2. ~ssl' => peer' # "open"
      BY DEF RecvInv, Cause, client
    <3> QED
      BY <3>1, <3>2 DEF FreedOnlyAtEnd, FreedMeansClosed
  <2>2. CASE count # 0
    BY <1>1, <2>2 DEF FreedOnlyAtEnd, RecvInv, RecvTypeOK
  <2> QED
    BY <2>1, <2>2
<1> QED
  BY <1>3, <1>4, <1>5, <1>6 DEF RecvInv

LEMMA RecvKeeps == ASSUME RecvInv, NormalRecv \/ SslRecv PROVE RecvInv'
<1>1. /\ rd \in Nat /\ count \in Nat /\ arrived \in 0 .. MaxSent /\ sslhi \in Nat /\ rd <= arrived
      /\ pc = "recv" => count < BufSize
  BY DEF RecvInv, RecvTypeOK, Progress
<1>2. CASE NormalRecv
  <2>1. /\ pc = "recv" /\ ~ssl /\ sslhi = 0
        /\ UNCHANGED <<ssl, nul, client, sslhi, taken, handled, text, replies, scount, out, cut, up>>
    BY <1>2 DEF NormalRecv, RecvInv, Progress
  <2>2. CASE rd < arrived /\ Fill(Least(arrived - rd, BufSize - count))
    <3>1. PICK n \in 1 .. BufSize - count : n = Least(arrived - rd, BufSize - count)
      BY <1>1, <2>1, <2>2 DEF Least
    <3>2. rd + n <= arrived
      BY <1>1, <3>1 DEF Least
    <3> QED
      BY <2>1, <2>2, <3>1, <3>2, FillKeeps
  <2>3. CASE rd = arrived /\ eof /\ RecvReturns /\ UNCHANGED <<buffer, rd, count>>
    BY <2>1, <2>3, ReturnsKeeps
  <2> QED
    BY <1>2, <2>2, <2>3 DEF NormalRecv
<1>3. CASE SslRecv
  <2>1. /\ pc = "recv" /\ ssl /\ rd <= sslhi /\ sslhi <= arrived
        /\ UNCHANGED <<ssl, nul, client, handled, text, replies, scount, out, cut, up>>
    BY <1>3 DEF SslRecv, RecvInv, Progress
  <2>2. CASE rd = arrived /\ RecvReturns /\ taken' = part /\ UNCHANGED <<sslhi, buffer, rd, count>>
    BY <2>1, <2>2, ReturnsKeeps
  <2>3. ASSUME NEW e \in 1 .. arrived, IF rd < sslhi THEN e = sslhi ELSE RecordEnd(sslhi, e),
               sslhi' = e, Fill(Least(e - rd, BufSize - count)), UNCHANGED taken
        PROVE  RecvInv'
    <3>1. rd < e /\ e \in Nat /\ e <= arrived
      BY <1>1, <2>1, <2>3 DEF RecordEnd
    <3>2. PICK n \in 1 .. BufSize - count : n = Least(e - rd, BufSize - count)
      <4>1. e - rd \in Nat \ {0} /\ BufSize - count \in Nat \ {0}
        BY <1>1, <2>1, <3>1
      <4>2. \A a, b \in Nat \ {0} : Least(a, b) \in 1 .. b
        BY DEF Least
      <4> QED
        BY <4>1, <4>2
    <3>3. rd + n <= arrived /\ rd + n <= e
      BY <1>1, <3>1, <3>2 DEF Least
    <3> QED
      BY <2>1, <2>3, <3>1, <3>2, <3>3, FillKeeps
  <2> QED
    BY <1>3, <2>2, <2>3 DEF SslRecv
<1> QED
  BY <1>2, <1>3

-----------------------------------------------------------------------------
(* The C string of a buffer that holds count bytes of the stream.          *)
LEMMA CStringOf ==
  ASSUME RecvInv, pc = "handle", NEW n \in 0 .. BufSize, NEW string, CString(n, string)
  PROVE  /\ string \in Seq(-1 .. MaxSent) /\ n <= count
         /\ Len(string) = n \/ (Len(string) = n + 1 /\ n = BufSize)
         /\ \A j \in 1 .. n : string[j] = handled + j
         /\ n < count => nul = handled + n + 1
<1>1. /\ count \in 1 .. BufSize /\ handled \in Nat /\ nul \in Nat /\ n \in Nat
      /\ buffer \in [Slots -> 0 .. MaxSent]
      /\ \A j \in Slots : buffer[j] = IF j < count THEN Byte(handled + 1 + j) ELSE 0
  BY DEF RecvInv, RecvTypeOK, Progress, StreamKept
<1>2. \A j \in 0 .. n - 1 : buffer[j] # 0 /\ j \in Slots
  BY DEF CString
<1>3. n <= count
  <2>1. CASE count < n
    <3>1. count \in 0 .. n - 1 /\ count \in Slots
      BY <1>1, <2>1
    <3> QED
      BY <1>1, <1>2, <3>1
  <2> QED
    BY <1>1, <2>1
<1>4. \A j \in 1 .. n : buffer[j - 1] = handled + j
  <2> TAKE j \in 1 .. n
  <2>1. j - 1 \in 0 .. n - 1 /\ j - 1 < count /\ handled + 1 + (j - 1) = handled + j
    BY <1>1, <1>3
  <2>2. buffer[j - 1] = Byte(handled + j) /\ buffer[j - 1] # 0
    BY <1>1, <1>2, <2>1
  <2> QED
    BY <2>2 DEF Byte
<1>5. n < count => nul = handled + n + 1
  <2> SUFFICES ASSUME n < count PROVE nul = handled + n + 1
    OBVIOUS
  <2>1. n < BufSize /\ n \in Slots
    BY <1>1
  <2>2. buffer[n] = 0
    BY <2>1 DEF CString
  <2>3. buffer[n] = Byte(handled + 1 + n)
    BY <1>1, <2>1
  <2> QED
    BY <1>1, <2>2, <2>3 DEF Byte
<1> DEFINE bytes == [j \in 1 .. n |-> buffer[j - 1]]
<1>6. bytes \in Seq(-1 .. MaxSent) /\ Len(bytes) = n /\ \A j \in 1 .. n : bytes[j] = handled + j
  <2>1. \A j \in 1 .. n : bytes[j] = handled + j /\ bytes[j] \in -1 .. MaxSent
    <3> TAKE j \in 1 .. n
    <3>1. j - 1 \in Slots
      BY <1>1
    <3> QED
      BY <1>1, <1>4, <3>1
  <2>2. bytes \in [1 .. n -> -1 .. MaxSent]
    BY <2>1, SMTT(30)
  <2> HIDE DEF bytes
  <2>3. n \in Nat
    BY <1>1
  <2>4. bytes \in Seq(-1 .. MaxSent) /\ Len(bytes) = n
    BY <2>2, <2>3, SMTT(30)
  <2> QED
    BY <2>1, <2>4, Zenon
<1>7. string = bytes \/ (n = BufSize /\ string = Append(bytes, -1))
  BY <1>1 DEF CString
<1> HIDE DEF bytes
<1>8. CASE string = bytes
  BY <1>3, <1>5, <1>6, <1>8
<1>9. CASE n = BufSize /\ string = Append(bytes, -1)
  <2>1. -1 \in -1 .. MaxSent
    OBVIOUS
  <2>2. /\ string \in Seq(-1 .. MaxSent) /\ Len(string) = n + 1
        /\ \A j \in 1 .. n : string[j] = bytes[j]
    BY <1>6, <1>9, <2>1, AppendProperties
  <2> QED
    BY <1>3, <1>5, <1>6, <1>9, <2>2
<1> QED
  BY <1>7, <1>8, <1>9

LEMMA HandleKeeps == ASSUME RecvInv, HandleRequest PROVE RecvInv'
<1>1. /\ pc = "handle" /\ handled' = handled + count
      /\ UNCHANGED <<ssl, nul, client, sslhi, taken, rd, buffer, count, out, cut, up>>
      /\ \/ pc' = "loop" /\ UNCHANGED <<replies, scount>>
         \/ pc' = "send" /\ replies' = replies + 1 /\ scount' = 0
  BY DEF HandleRequest
<1>2. PICK n \in 0 .. BufSize : CString(n, text')
  BY DEF HandleRequest
<1>3. /\ text' \in Seq(-1 .. MaxSent) /\ n <= count
      /\ Len(text') = n \/ (Len(text') = n + 1 /\ n = BufSize)
      /\ \A j \in 1 .. n : text'[j] = handled + j
      /\ n < count => nul = handled + n + 1
  <2>1. PICK string : string = text'
    OBVIOUS
  <2> QED
    BY <1>1, <1>2, <2>1, CStringOf
<1>4. /\ rd = handled + count /\ count \in 1 .. BufSize /\ handled \in Nat /\ rd \in 0 .. MaxSent
      /\ replies \in Nat /\ replies <= handled /\ n \in Nat
  BY <1>1 DEF RecvInv, RecvTypeOK, StreamKept, Progress
<1>5. replies' \in 0 .. MaxSent /\ replies' <= handled' /\ handled' = rd /\ (pc' = "send" => replies' > 0)
  BY <1>1, <1>4
<1>6. Flags'
  BY <1>1, Zenon DEF Flags, RecvInv, RecvTypeOK, client
<1>7. RecvTypeOK'
  <2>1. scount' \in 0 .. RepLen /\ handled' \in 0 .. rd' /\ pc' \in {"loop", "send"}
    BY <1>1, <1>4, <1>5 DEF RecvInv, RecvTypeOK
  <2> QED
    BY <1>1, <1>3, <1>5, <1>6, <2>1, Zenon DEF Flags, RecvInv, RecvTypeOK, client
<1>8. StreamKept' /\ FreedOnlyAtEnd' /\ Cause'
  BY <1>1, <1>5 DEF StreamKept, FreedOnlyAtEnd, RecvInv, Cause, client
<1>9. HandledText'
  <2>1. handled' - count' = handled /\ count' = count /\ nul' = nul
    BY <1>1, <1>4
  <2>2. Least(Len(text'), count) = n
    BY <1>3, <1>4 DEF Least
  <2>3. Len(text') > count => count = BufSize
    BY <1>3, <1>4
  <2> QED
    BY <1>1, <1>3, <2>1, <2>2, <2>3 DEF HandledText
<1>10. Progress'
  BY <1>1, <1>5 DEF RecvInv, Progress, client
<1> QED
  BY <1>7, <1>8, <1>9, <1>10 DEF RecvInv

-----------------------------------------------------------------------------
(* The next n bytes of the reply, as the connection accepts them.          *)
LEMMA AcceptedBytes ==
  ASSUME RecvInv, pc = "send", NEW n \in 0 .. Left, Accept(n)
  PROVE  /\ out' \in Seq(ReplyBytes) /\ Len(out') = Len(out) + n
         /\ \A k \in 1 .. Len(out) : out'[k] = out[k]
         /\ \A i \in 1 .. n : out'[Len(out) + i] = <<replies, scount + i>>
         /\ scount' = scount + n /\ scount' \in 0 .. RepLen
<1>1. out \in Seq(ReplyBytes) /\ Len(out) \in Nat /\ scount \in 0 .. RepLen /\ replies \in 1 .. MaxSent
  BY DEF RecvInv, RecvTypeOK, Progress
<1>2. n \in Nat /\ scount + n <= RepLen
  BY <1>1 DEF Left
<1> DEFINE new == [i \in 1 .. n |-> <<replies, scount + i>>]
<1>3. new \in [1 .. n -> ReplyBytes] /\ \A i \in 1 .. n : new[i] = <<replies, scount + i>>
  BY <1>1, <1>2 DEF ReplyBytes
<1>4. out' = out \o new /\ scount' = scount + n
  BY DEF Accept
<1> HIDE DEF new
<1>5. new \in Seq(ReplyBytes) /\ Len(new) = n
  BY <1>2, <1>3
<1>6. PICK s \in Seq(ReplyBytes), t \in Seq(ReplyBytes) : s = out /\ t = new
  BY <1>1, <1>5
<1>7. /\ s \o t \in Seq(ReplyBytes) /\ Len(s \o t) = Len(s) + Len(t)
      /\ \A i \in 1 .. Len(s) + Len(t) : (s \o t)[i] = IF i <= Len(s) THEN s[i] ELSE t[i - Len(s)]
  BY ConcatProperties
<1>8. \A i \in 1 .. n : out'[Len(out) + i] = new[i]
  <2> TAKE i \in 1 .. n
  <2>1. Len(s) + i \in 1 .. Len(s) + Len(t) /\ ~(Len(s) + i <= Len(s)) /\ (Len(s) + i) - Len(s) = i
    BY <1>1, <1>2, <1>5, <1>6
  <2> QED
    BY <1>4, <1>6, <1>7, <2>1
<1>9. \A k \in 1 .. Len(out) : out'[k] = out[k]
  BY <1>1, <1>2, <1>4, <1>5, <1>6, <1>7
<1> QED
  BY <1>1, <1>2, <1>3, <1>4, <1>5, <1>6, <1>7, <1>8, <1>9, SMTT(30)

LEMMA SendKeeps == ASSUME RecvInv, WriteFails \/ NormalSend \/ SslSend PROVE RecvInv'
<1>1. /\ pc = "send" /\ pc' \in {"send", "loop"}
      /\ UNCHANGED <<ssl, nul, client, sslhi, taken, rd, buffer, count, handled, text, replies>>
  BY DEF WriteFails, NormalSend, SslSend
<1>2. /\ RepLen - scount \in Nat /\ scount \in 0 .. RepLen /\ SndCap - (Len(out) - got) \in Int
      /\ out \in Seq(ReplyBytes) /\ got \in 0 .. Len(out) /\ Len(out) \in Nat
  BY DEF RecvInv, RecvTypeOK
<1>3. /\ out' \in Seq(ReplyBytes) /\ Len(out') >= Len(out) /\ Len(out') \in Nat
      /\ scount' \in 0 .. RepLen /\ (pc' = "send" /\ ~ssl => scount' < RepLen)
  <2>1. CASE WriteFails
    BY <1>1, <1>2, <2>1 DEF WriteFails, RecvInv, RecvTypeOK, Progress
  <2>2. CASE NormalSend
    <3>1. PICK n \in 0 .. Left : n = Least(Space, Left)
      <4>1. Space \in Nat \ {0} /\ Left \in Nat
        BY <1>2, <2>2 DEF NormalSend, Space, Left
      <4>2. \A a, b \in Nat : Least(a, b) \in 0 .. b
        BY DEF Least
      <4> QED
        BY <4>1, <4>2
    <3>2. Accept(n) /\ pc' = IF scount + n >= RepLen THEN "loop" ELSE "send"
      BY <2>2, <3>1 DEF NormalSend
    <3>3. n \in Nat
      BY <1>2 DEF Left
    <3> QED
      BY <1>1, <1>2, <3>2, <3>3, AcceptedBytes
  <2>3. CASE SslSend
    <3>1. CASE Accept(Left)
      <4>1. Left \in 0 .. Left /\ Left \in Nat
        BY <1>2 DEF Left
      <4> QED
        BY <1>1, <1>2, <2>3, <3>1, <4>1, AcceptedBytes DEF SslSend
    <3>2. CASE UNCHANGED <<out, scount>>
      BY <1>1, <1>2, <2>3, <3>2 DEF SslSend
    <3> QED
      BY <2>3, <3>1, <3>2, SMTT(30) DEF SslSend
  <2> QED
    BY <2>1, <2>2, <2>3, SMTT(30)
<1>4. Flags'
  <2>1. cut' \in BOOLEAN /\ up' \in BOOLEAN
    BY Zenon DEF WriteFails, NormalSend, SslSend, RecvInv, RecvTypeOK
  <2> QED
    BY <1>1, <2>1, Zenon DEF Flags, RecvInv, RecvTypeOK, client
<1>5. RecvTypeOK'
  <2>1. got' \in 0 .. Len(out')
    BY <1>1, <1>2, <1>3 DEF client
  <2> QED
    BY <1>1, <1>3, <1>4, <2>1, SMTT(30) DEF Flags, RecvInv, RecvTypeOK, client
<1>6. StreamKept' /\ HandledText' /\ FreedOnlyAtEnd'
  BY <1>1, Zenon DEF RecvInv, StreamKept, HandledText, FreedOnlyAtEnd, Byte
<1>7. Progress' /\ Cause'
  BY <1>1, <1>3 DEF RecvInv, Progress, Cause, client
<1> QED
  BY <1>5, <1>6, <1>7, Zenon DEF RecvInv

LEMMA RecvStep == RecvInv /\ [Next]_vars => RecvInv'
<1> SUFFICES ASSUME RecvInv, [Next]_vars PROVE RecvInv'
  OBVIOUS
<1>1. CASE Next
  <2>1. pc # "freed" /\ (Network \/ Peer \/ EventCallBack \/ Loops)
    BY <1>1 DEF Next, Live
  <2> QED
    BY <2>1, ClientKeeps, CallBackKeeps, RecvKeeps, HandleKeeps, SendKeeps DEF Loops
<1>2. CASE UNCHANGED vars
  <2>1. Flags'
    BY <1>2, Zenon DEF vars, client, Flags, RecvInv, RecvTypeOK
  <2>2. RecvTypeOK'
    BY <1>2, <2>1, SMTT(30) DEF vars, client, Flags, RecvInv, RecvTypeOK
  <2>3. StreamKept' /\ HandledText' /\ Progress' /\ Cause' /\ FreedOnlyAtEnd'
    BY <1>2 DEF vars, client, RecvInv, StreamKept, HandledText, Progress, Cause, FreedOnlyAtEnd, FreedMeansClosed, Byte
  <2> QED
    BY <2>2, <2>3 DEF RecvInv
<1> QED
  BY <1>1, <1>2

(* RecvInv holds in every state of a connection.                           *)
THEOREM RecvInvariant == Spec => []RecvInv
BY RecvInitial, RecvStep, PTL DEF Spec

(* No byte of the client is lost, taken twice or moved, in NormalRecv and  *)
(* SslRecv, for any buffer size and any cut of the stream.                 *)
THEOREM StreamCorrect == Spec => [](RecvTypeOK /\ StreamKept)
<1>1. RecvInv => RecvTypeOK /\ StreamKept
  BY DEF RecvInv
<1> QED
  BY <1>1, RecvInvariant, PTL

(* HandleRequest gets the bytes its callback received, up to the first     *)
(* zero byte, for any buffer size and any place of that byte.              *)
THEOREM TextCorrect == Spec => []HandledText
<1>1. RecvInv => HandledText
  BY DEF RecvInv
<1> QED
  BY <1>1, RecvInvariant, PTL

(* EventCallBack frees a context when all that arrived has been handled,   *)
(* and without SSL only after the client has closed or failed.             *)
THEOREM FreedCorrect == Spec => []FreedOnlyAtEnd
<1>1. RecvInv => FreedOnlyAtEnd
  BY Zenon DEF RecvInv
<1> QED
  BY <1>1, RecvInvariant, PTL

-----------------------------------------------------------------------------
(* The reply being sent continues the ones before it, unless a loop gave   *)
(* up; outside the send loop it is complete.                               *)
Replies ==
  /\ cut => ssl \/ peer = "reset"
  /\ ~cut =>
       /\ out # <<>> => out[1] = <<1, 1>>
       /\ \A k \in 1 .. (Len(out) - 1) : out[k + 1] = NextByte(out[k])
       /\ replies = 0 => scount = 0
       /\ pc # "send" /\ replies > 0 => scount = RepLen
       /\ scount > 0 => Len(out) > 0 /\ out[Len(out)] = <<replies, scount>>
       /\ scount = 0 => IF replies <= 1 THEN out = <<>>
                        ELSE Len(out) > 0 /\ out[Len(out)] = <<replies - 1, RepLen>>

(* Accepting n more bytes.                                                 *)
LEMMA AcceptKeeps ==
  ASSUME RecvInv, Replies, pc = "send", ~cut, NEW n \in 1 .. Left, Accept(n)
  PROVE  /\ out' # <<>> /\ out'[1] = <<1, 1>>
         /\ \A k \in 1 .. (Len(out') - 1) : out'[k + 1] = NextByte(out'[k])
         /\ Len(out') > 0 /\ out'[Len(out')] = <<replies, scount'>>
<1> DEFINE L == Len(out)
<1>1. /\ Len(out') = L + n
      /\ \A k \in 1 .. L : out'[k] = out[k]
      /\ \A i \in 1 .. n : out'[L + i] = <<replies, scount + i>>
      /\ scount' = scount + n /\ out' \in Seq(ReplyBytes)
  <2>1. n \in 0 .. Left
    OBVIOUS
  <2> QED
    BY <2>1, AcceptedBytes, ZenonT(30)
<1>2. L \in Nat /\ scount \in Nat /\ n \in Nat /\ n >= 1 /\ scount + n <= RepLen /\ replies \in Nat /\ replies > 0
  BY DEF RecvInv, RecvTypeOK, Progress, Left
<1>3. out'[L + 1] = <<replies, scount + 1>> /\ out'[L + n] = <<replies, scount + n>>
  BY <1>1, <1>2
<1>4. L > 0 => /\ out[1] = <<1, 1>>
               /\ out[L] = IF scount > 0 THEN <<replies, scount>> ELSE <<replies - 1, RepLen>>
  <2> SUFFICES ASSUME L > 0 PROVE /\ out[1] = <<1, 1>>
               /\ out[L] = IF scount > 0 THEN <<replies, scount>> ELSE <<replies - 1, RepLen>>
    OBVIOUS
  <2>1. out # <<>>
    OBVIOUS
  <2>2. out[1] = <<1, 1>>
    BY <2>1 DEF Replies
  <2>3. CASE scount > 0
    BY <2>3 DEF Replies
  <2>4. CASE scount = 0
    BY <2>1, <2>4 DEF Replies
  <2> QED
    BY <1>2, <2>2, <2>3, <2>4
<1>5. L = 0 => scount = 0 /\ replies = 1
  BY <1>2 DEF Replies
<1>6. out'[1] = <<1, 1>>
  <2>1. CASE L = 0
    BY <1>3, <1>5, <2>1
  <2>2. CASE L > 0
    <3>1. 1 \in 1 .. L
      BY <1>2, <2>2
    <3> QED
      BY <1>1, <1>4, <2>2, <3>1, ZenonT(30)
  <2> QED
    BY <1>2, <2>1, <2>2
<1>7. ASSUME NEW k \in 1 .. (Len(out') - 1) PROVE out'[k + 1] = NextByte(out'[k])
  <2>1. CASE k < L
    <3>1. k \in 1 .. (L - 1) /\ k \in 1 .. L /\ k + 1 \in 1 .. L
      BY <1>2, <2>1
    <3>2. out[k + 1] = NextByte(out[k])
      BY <3>1 DEF Replies
    <3> QED
      BY <1>1, <3>1, <3>2, SMTT(30)
  <2>2. CASE k = L
    <3>1. out'[k] = out[L] /\ L > 0
      BY <1>1, <1>2, <2>2
    <3>2. CASE scount > 0
      <4>1. NextByte(<<replies, scount>>) = <<replies, scount + 1>>
        BY <1>2 DEF NextByte
      <4> QED
        BY <1>3, <1>4, <2>2, <3>1, <3>2, <4>1, ZenonT(30)
    <3>3. CASE scount = 0
      <4>1. NextByte(<<replies - 1, RepLen>>) = <<replies, 1>>
        BY <1>2 DEF NextByte
      <4>2. out'[k] = <<replies - 1, RepLen>>
        BY <1>4, <3>1, <3>3
      <4>3. out'[k + 1] = <<replies, 1>>
        BY <1>3, <2>2, <3>3
      <4> QED
        BY <4>1, <4>2, <4>3
    <3> QED
      BY <1>2, <3>2, <3>3
  <2>3. CASE k > L
    <3>1. PICK i \in 1 .. n : k = L + i /\ i + 1 \in 1 .. n
      <4>1. k - L \in 1 .. n /\ (k - L) + 1 \in 1 .. n /\ k = L + (k - L)
        BY <1>1, <1>2, <2>3
      <4> QED
        BY <4>1
    <3>2. out'[k] = <<replies, scount + i>> /\ out'[L + (i + 1)] = <<replies, scount + (i + 1)>>
      BY <1>1, <3>1, ZenonT(30)
    <3>3. L + (i + 1) = k + 1 /\ scount + i < RepLen /\ scount + (i + 1) = (scount + i) + 1
      BY <1>2, <3>1
    <3>4. NextByte(<<replies, scount + i>>) = <<replies, (scount + i) + 1>>
      BY <3>3 DEF NextByte
    <3> QED
      BY <3>2, <3>3, <3>4, SMTT(30)
  <2> QED
    BY <1>1, <1>2, <2>1, <2>2, <2>3
<1>8. out' # <<>> /\ Len(out') > 0
  BY <1>1, <1>2
<1> QED
  BY <1>1, <1>3, <1>6, <1>7, <1>8

(* Only these variables matter to Replies.                                 *)
LEMMA RepliesFrame ==
  ASSUME Replies, UNCHANGED <<ssl, replies, scount, out, cut>>, pc' = "send" <=> pc = "send",
         peer = "reset" => peer' = "reset"
  PROVE  Replies'
BY DEF Replies, NextByte

(* Neither the network nor the client touches the replies.                 *)
LEMMA RepliesOfClient ==
  ASSUME Network \/ Peer
  PROVE  UNCHANGED <<ssl, pc, replies, scount, out, cut>> /\ (peer = "reset" => peer' = "reset")
<1>1. CASE Network
  BY <1>1, ZenonT(30) DEF Network, Deliver, DeliverEof, Server
<1>2. CASE Peer
  <2>1. UNCHANGED Server
    BY <1>2, ZenonT(30) DEF Peer, PeerSend, DeliverPart, PeerClose, PeerReset, PeerRead, PeerRenegotiate
  <2>2. peer = "reset" => peer' = "reset"
    BY <1>2, ZenonT(30) DEF Peer, PeerSend, DeliverPart, PeerClose, PeerReset, PeerRead, PeerRenegotiate
  <2> QED
    BY <2>1, <2>2, ZenonT(30) DEF Server
<1> QED
  BY <1>1, <1>2

LEMMA RepliesStep == RecvInv /\ Replies /\ [Next]_vars => Replies'
<1> SUFFICES ASSUME RecvInv, Replies, [Next]_vars PROVE Replies'
  OBVIOUS
<1>1. CASE Network \/ Peer
  BY <1>1, RepliesOfClient, RepliesFrame, ZenonT(30)
<1>2. CASE EventCallBack \/ NormalRecv \/ SslRecv
  <2>1. UNCHANGED <<ssl, peer, replies, scount, out, cut>> /\ pc # "send" /\ pc' # "send"
    BY <1>2, ZenonT(30) DEF EventCallBack, NormalRecv, SslRecv, Fill, RecvReturns, client
  <2> QED
    BY <2>1, RepliesFrame, ZenonT(30)
<1>3. CASE HandleRequest
  <2>1. UNCHANGED <<ssl, peer, out, cut>> /\ pc # "send" /\ replies \in Nat
    BY <1>3, SMTT(30) DEF HandleRequest, client, RecvInv, RecvTypeOK
  <2>2. CASE pc' = "loop" /\ UNCHANGED <<replies, scount>>
    BY <2>1, <2>2, RepliesFrame, SMTT(30)
  <2>3. CASE pc' = "send" /\ replies' = replies + 1 /\ scount' = 0
    <3>1. ~cut => IF replies' <= 1 THEN out = <<>>
                  ELSE Len(out) > 0 /\ out[Len(out)] = <<replies' - 1, RepLen>>
      BY <2>1, <2>3 DEF Replies
    <3>2. replies' # 0
      BY <2>1, <2>3
    <3> QED
      BY <2>1, <2>3, <3>1, <3>2 DEF Replies, NextByte
  <2> QED
    BY <1>3, <2>2, <2>3, ZenonT(30) DEF HandleRequest
<1>4. CASE WriteFails
  <2>1. /\ UNCHANGED <<ssl, peer, replies, scount, out>> /\ pc = "send" /\ peer = "reset"
        /\ scount \in 0 .. RepLen
    BY <1>4 DEF WriteFails, client, RecvInv, RecvTypeOK
  <2>2. ~cut' => ~cut /\ (pc' = "send" \/ scount = RepLen)
    <3>1. ~cut' => ~cut /\ (pc' = pc \/ ~(scount < RepLen))
      BY <1>4, Zenon DEF WriteFails
    <3> QED
      BY <2>1, <3>1
  <2> QED
    BY <2>1, <2>2, SMTT(30) DEF Replies, NextByte
<1>5. CASE NormalSend \/ SslSend
  <2>1. UNCHANGED <<ssl, peer, replies>> /\ pc = "send" /\ replies > 0 /\ scount \in 0 .. RepLen
    BY <1>5 DEF NormalSend, SslSend, client, RecvInv, Progress, RecvTypeOK
  <2>2. cut' => cut \/ ssl
    BY <1>5, ZenonT(30) DEF NormalSend, SslSend
  <2>3. ~cut' => ~cut
    BY <1>5, ZenonT(30) DEF NormalSend, SslSend
  <2>4. CASE UNCHANGED <<out, scount>> /\ SslSend
    <3>1. ~cut' => pc' = "send" \/ scount = RepLen
      <4>1. ~cut' => pc' = pc \/ ~(Left > 0)
        BY <2>4, Zenon DEF SslSend
      <4> QED
        BY <2>1, <4>1 DEF Left
    <3> QED
      BY <2>1, <2>2, <2>3, <2>4, <3>1, ZenonT(30) DEF Replies, NextByte
  <2>5. ASSUME NEW n \in 1 .. Left, Accept(n), pc' # "send" => scount + n >= RepLen
        PROVE  Replies'
    <3>1. scount' = scount + n /\ scount' > 0 /\ scount' <= RepLen
      BY <2>1, <2>5 DEF Accept, Left
    <3>2. pc' # "send" => scount' = RepLen
      BY <2>1, <2>5, <3>1 DEF Left
    <3>3. ~cut => /\ out' # <<>> /\ out'[1] = <<1, 1>>
                  /\ \A k \in 1 .. (Len(out') - 1) : out'[k + 1] = NextByte(out'[k])
                  /\ Len(out') > 0 /\ out'[Len(out')] = <<replies, scount'>>
      BY <2>1, <2>5, AcceptKeeps
    <3>4. scount' # 0 /\ replies' # 0
      BY <2>1, <3>1
    <3> QED
      BY <2>1, <2>2, <2>3, <3>2, <3>3, <3>4, Zenon DEF Replies, NextByte
  <2>6. CASE NormalSend
    <3>1. Space > 0 /\ Space \in Int /\ Left \in Nat \ {0}
      BY <2>1, <2>6 DEF NormalSend, Space, Left, RecvInv, RecvTypeOK, Progress
    <3>2. \A a, b \in Nat \ {0} : Least(a, b) \in 1 .. b
      BY DEF Least
    <3>3. PICK n \in 1 .. Left : n = Least(Space, Left)
      BY <3>1, <3>2
    <3> QED
      <4>1. Accept(n) /\ pc' = IF scount + n >= RepLen THEN "loop" ELSE "send"
        BY <2>6, <3>3, ZenonT(30) DEF NormalSend
      <4> QED
        BY <2>5, <4>1
  <2>7. CASE SslSend /\ Left > 0 /\ Accept(Left)
    <3>1. Left \in 1 .. Left /\ scount + Left = RepLen
      BY <2>1, <2>7 DEF Left
    <3> QED
      BY <2>5, <2>7, <3>1
  <2> QED
    BY <1>5, <2>4, <2>6, <2>7, ZenonT(30) DEF SslSend
<1>6. CASE UNCHANGED vars
  <2>1. UNCHANGED <<ssl, peer, pc, replies, scount, out, cut>>
    BY <1>6 DEF vars, client
  <2> QED
    BY <2>1, RepliesFrame, Zenon
<1> QED
  BY <1>1, <1>2, <1>3, <1>4, <1>5, <1>6 DEF Next, Live, Loops

(* Replies reach the client in order and whole, for replies of any length  *)
(* and connections of any capacity, until SslSend gives up or the          *)
(* connection is reset.                                                    *)
THEOREM RepliesCorrect == Spec => []RepliesKept
<1>1. Init => Replies
  BY DEF Init, Replies
<1>2. Replies /\ RecvInv => RepliesKept
  BY SMTT(30) DEF Replies, RepliesKept, RecvInv, RecvTypeOK
<1> QED
  BY <1>1, <1>2, RepliesStep, RecvInvariant, PTL DEF Spec
=============================================================================
