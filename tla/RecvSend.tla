------------------------------ MODULE RecvSend -------------------------------
(***************************************************************************)
(* EventCallBack with its byte loops SslRecv, NormalRecv, SslSend and      *)
(* NormalSend, on one connection whose client sends, stalls, reads, closes *)
(* or fails as it likes.                                                   *)
(*                                                                         *)
(* The bytes of a client are the positions 1, 2, ... of one stream.  The   *)
(* positions up to rd have been read, those up to sslhi are decrypted      *)
(* inside the SSL object, those up to arrived are in the kernel and those  *)
(* up to sent on their way.  A retry on EAGAIN changes nothing and is a    *)
(* stuttering step: a loop that only retries has no step to take.          *)
(***************************************************************************)
EXTENDS Integers, Sequences

CONSTANTS
  MaxSent,  \* bytes a client sends at most
  BufSize,  \* sizeof(buffer), 4096
  RepLen,   \* reply.length()
  SndCap    \* bytes the connection takes before the client reads them

ASSUME RecvAssumption ==
  MaxSent \in Nat /\ BufSize \in Nat \ {0} /\ RepLen \in Nat \ {0} /\ SndCap \in Nat \ {0}

VARIABLES
  ssl,      \* enable_ssl
  nul,      \* the position that holds a zero byte, 0 if there is none
  peer,     \* "open", "closed" after close() of the client, "reset" after RST
  sent, ends,     \* bytes sent; where the records of SSL end
  arrived, part,  \* bytes arrived; a part of the next SSL record has arrived too
  eof,            \* the end of the stream has arrived
  sslhi, taken,   \* last byte decrypted; the partial record is in the SSL object
  reneg,    \* a renegotiation started by the client: "no", "busy", "done"
  rd,       \* bytes read by the server
  pc,       \* EventCallBack: "loop" (not running), "recv", "handle", "send", "freed"
  buffer, count,  \* buffer and count of the receive loop
  handled,  \* bytes read in callbacks that went on to HandleRequest
  text,     \* what HandleRequest got last
  replies, scount,  \* replies started; count of the send loop
  out,      \* the reply bytes the connection has accepted, in order
  got,      \* how many of them the client has read
  cut,      \* a send loop gave up before the end of its reply
  up        \* the process runs

client == <<peer, sent, ends, arrived, part, eof, reneg, got>>
vars == <<ssl, nul, client, sslhi, taken, rd, pc, buffer, count, handled, text,
          replies, scount, out, cut, up>>

Slots == 0 .. (BufSize - 1)
Least(m, n) == IF m <= n THEN m ELSE n
Byte(i) == IF i = nul THEN 0 ELSE i
ReplyBytes == (1 .. MaxSent) \X (1 .. RepLen)

RecvTypeOK ==
  /\ ssl \in BOOLEAN /\ nul \in 0 .. MaxSent
  /\ peer \in {"open", "closed", "reset"} /\ reneg \in {"no", "busy", "done"}
  /\ sent \in 0 .. MaxSent /\ ends \subseteq 1 .. MaxSent
  /\ arrived \in 0 .. sent /\ sslhi \in 0 .. MaxSent /\ rd \in 0 .. arrived
  /\ part \in BOOLEAN /\ eof \in BOOLEAN /\ taken \in BOOLEAN
  /\ pc \in {"loop", "recv", "handle", "send", "freed"}
  /\ buffer \in [Slots -> 0 .. MaxSent] /\ count \in 0 .. BufSize
  /\ handled \in 0 .. rd /\ text \in Seq(-1 .. MaxSent)
  /\ replies \in 0 .. MaxSent /\ scount \in 0 .. RepLen
  /\ out \in Seq(ReplyBytes) /\ got \in 0 .. Len(out)
  /\ cut \in BOOLEAN /\ up \in BOOLEAN

Init ==
  /\ ssl \in BOOLEAN /\ nul \in 0 .. MaxSent
  /\ peer = "open" /\ sent = 0 /\ ends = {}
  /\ arrived = 0 /\ part = FALSE /\ eof = FALSE
  /\ sslhi = 0 /\ taken = FALSE /\ reneg = "no" /\ rd = 0
  /\ pc = "loop" /\ buffer = [j \in Slots |-> 0] /\ count = 0
  /\ handled = 0 /\ text = <<>>
  /\ replies = 0 /\ scount = 0 /\ out = <<>> /\ got = 0 /\ cut = FALSE /\ up = TRUE

-----------------------------------------------------------------------------
(* The client and the network                                              *)

Server == <<ssl, nul, sslhi, taken, rd, pc, buffer, count, handled, text,
            replies, scount, out, cut, up>>

PeerSend(k) ==
  /\ peer = "open" /\ sent + k <= MaxSent
  /\ sent' = sent + k /\ ends' = ends \cup {sent + k}
  /\ UNCHANGED <<peer, arrived, part, eof, reneg, got, Server>>

(* The SSL record after position p ends at e.                              *)
RecordEnd(p, e) == e \in ends /\ p < e /\ \A f \in ends : p < f => e <= f

(* TCP may deliver any number of bytes; with SSL it is records that count, *)
(* and a part of one can be there before the rest of it.                   *)
Deliver(k) ==
  /\ peer # "reset" /\ arrived + k <= sent
  /\ ssl => RecordEnd(arrived, arrived + k)
  /\ arrived' = arrived + k /\ part' = FALSE
  /\ taken' = FALSE
  /\ UNCHANGED <<ssl, nul, peer, sent, ends, eof, reneg, got, sslhi, rd, pc, buffer, count,
                 handled, text, replies, scount, out, cut, up>>

DeliverPart ==
  /\ ssl /\ peer # "reset" /\ arrived < sent /\ ~part
  /\ part' = TRUE
  /\ UNCHANGED <<peer, sent, ends, arrived, eof, reneg, got, Server>>

PeerClose ==
  /\ peer = "open" /\ peer' = "closed"
  /\ UNCHANGED <<sent, ends, arrived, part, eof, reneg, got, Server>>

DeliverEof ==
  /\ peer = "closed" /\ arrived = sent /\ ~eof /\ eof' = TRUE
  /\ UNCHANGED <<peer, sent, ends, arrived, part, reneg, got, Server>>

(* The client fails, or its kernel rejects data for a closed socket; what  *)
(* was on its way in either direction is lost.                             *)
PeerReset ==
  /\ peer = "open" \/ (peer = "closed" /\ Len(out) > got)
  /\ peer' = "reset" /\ eof' = TRUE /\ part' = FALSE
  /\ UNCHANGED <<sent, ends, arrived, reneg, got, Server>>

PeerRead ==
  /\ peer = "open" /\ got < Len(out) /\ got' = Len(out)
  /\ UNCHANGED <<peer, sent, ends, arrived, part, eof, reneg, Server>>

PeerRenegotiate ==
  /\ ssl /\ peer = "open"
  /\ \/ reneg = "no" /\ reneg' = "busy"
     \/ reneg = "busy" /\ reneg' = "done"
  /\ UNCHANGED <<peer, sent, ends, arrived, part, eof, got, Server>>

-----------------------------------------------------------------------------
(* Receiving                                                               *)

(* libevent looks at the socket: what is inside the SSL object it does not *)
(* see.                                                                    *)
Readable ==
  \/ arrived > (IF ssl THEN sslhi ELSE rd)
  \/ part /\ ~taken
  \/ eof
  \/ reneg = "busy"

EventCallBack ==
  /\ pc = "loop" /\ Readable
  /\ pc' = "recv" /\ buffer' = [j \in Slots |-> 0] /\ count' = 0
  /\ UNCHANGED <<ssl, nul, client, sslhi, taken, rd, handled, text, replies,
                 scount, out, cut, up>>

(* Mutant: every recv() writes to the start of the buffer.                 *)
FillAtStart(n) ==
  /\ buffer' = [j \in Slots |-> IF j < n THEN Byte(rd + 1 + j) ELSE buffer[j]]
  /\ rd' = rd + n /\ count' = count + n
  /\ pc' = IF count + n >= BufSize THEN "handle" ELSE "recv"

(* recv() or SSL_read() puts n bytes at buffer + count.                    *)
Fill(n) ==
  /\ buffer' = [j \in Slots |-> IF count <= j /\ j < count + n THEN Byte(rd + 1 + j - count)
                                                             ELSE buffer[j]]
  /\ rd' = rd + n /\ count' = count + n
  /\ pc' = IF count + n >= BufSize THEN "handle" ELSE "recv"

(* Mutant: one byte counts as none.                                        *)
RecvReturnsOne == pc' = IF count <= 1 THEN "freed" ELSE "handle"

(* The loop ends with count bytes: none means close (EventCtx_free).       *)
RecvReturns == pc' = IF count <= 0 THEN "freed" ELSE "handle"

(* Mutant: the end of the stream discards what was read before it.         *)
NormalRecvDiscards ==
  /\ pc = "recv" /\ ~ssl
  /\ \/ rd < arrived /\ Fill(Least(arrived - rd, BufSize - count))
     \/ rd = arrived /\ eof /\ pc' = "freed" /\ UNCHANGED <<buffer, rd, count>>
  /\ UNCHANGED <<ssl, nul, client, sslhi, taken, handled, text, replies,
                 scount, out, cut, up>>

(* The loop of NormalRecv: bytes, or close or an error of the socket.      *)
NormalRecv ==
  /\ pc = "recv" /\ ~ssl
  /\ \/ rd < arrived /\ Fill(Least(arrived - rd, BufSize - count))
     \/ rd = arrived /\ eof /\ RecvReturns /\ UNCHANGED <<buffer, rd, count>>
  /\ UNCHANGED <<ssl, nul, client, sslhi, taken, handled, text, replies,
                 scount, out, cut, up>>

(* Mutant: SSL_read() is retried on WANT_READ.                             *)
SslRecvRetries ==
  /\ pc = "recv" /\ ssl
  /\ \/ \E e \in 1 .. arrived :
          /\ IF rd < sslhi THEN e = sslhi ELSE RecordEnd(sslhi, e)
          /\ sslhi' = e /\ Fill(Least(e - rd, BufSize - count))
          /\ UNCHANGED taken
     \/ /\ rd = arrived /\ eof /\ RecvReturns /\ taken' = part
        /\ UNCHANGED <<sslhi, buffer, rd, count>>
  /\ UNCHANGED <<ssl, nul, client, handled, text, replies, scount, out, cut, up>>

(* SSL_read() returns bytes of one complete record; without one it reports *)
(* an error, WANT_READ included, and has taken a partial record over.      *)
SslRecv ==
  /\ pc = "recv" /\ ssl
  /\ \/ \E e \in 1 .. arrived :
          /\ IF rd < sslhi THEN e = sslhi ELSE RecordEnd(sslhi, e)
          /\ sslhi' = e /\ Fill(Least(e - rd, BufSize - count))
          /\ UNCHANGED taken
     \/ /\ rd = arrived /\ RecvReturns /\ taken' = part
        /\ UNCHANGED <<sslhi, buffer, rd, count>>
  /\ UNCHANGED <<ssl, nul, client, handled, text, replies, scount, out, cut, up>>

(* Mutant: the string is as long as the buffer.                            *)
CStringWhole(n, string) ==
  n = BufSize /\ string = [j \in 1 .. n |-> buffer[j - 1]]

(* The buffer becomes a std::string: n bytes up to the first zero, or the  *)
(* whole of a full buffer and perhaps more that is found behind it (-1).   *)
CString(n, string) ==
  /\ \A j \in 0 .. (n - 1) : buffer[j] # 0
  /\ LET bytes == [j \in 1 .. n |-> buffer[j - 1]]
     IN  IF n < BufSize THEN buffer[n] = 0 /\ string = bytes
                        ELSE string \in {bytes, Append(bytes, -1)}

(* HandleRequest answers DATA_DEF, and the callback ends, or gives a reply.*)
HandleRequest ==
  /\ pc = "handle"
  /\ \E n \in 0 .. BufSize : CString(n, text')
  /\ handled' = handled + count
  /\ \/ pc' = "loop" /\ UNCHANGED <<replies, scount>>
     \/ pc' = "send" /\ replies' = replies + 1 /\ scount' = 0
  /\ UNCHANGED <<ssl, nul, client, sslhi, taken, rd, buffer, count, out, cut, up>>

-----------------------------------------------------------------------------
(* Sending                                                                 *)

Space == SndCap - (Len(out) - got)
Left  == RepLen - scount

(* Mutant: every send() starts at the beginning of the reply.              *)
AcceptFromStart(n) ==
  /\ out' = out \o [i \in 1 .. n |-> <<replies, i>>]
  /\ scount' = scount + n

(* The connection accepts the next n bytes at buffer + count.              *)
Accept(n) ==
  /\ out' = out \o [i \in 1 .. n |-> <<replies, scount + i>>]
  /\ scount' = scount + n

(* A write to a reset connection fails, or raises SIGPIPE.                 *)
WriteFails ==
  /\ pc = "send" /\ peer = "reset"
  /\ \/ pc' = "loop" /\ cut' = (cut \/ scount < RepLen) /\ UNCHANGED up
     \/ up' = FALSE /\ UNCHANGED <<pc, cut>>
  /\ UNCHANGED <<ssl, nul, client, sslhi, taken, rd, buffer, count, handled, text,
                 replies, scount, out>>

NormalSend ==
  /\ pc = "send" /\ ~ssl /\ peer # "reset" /\ Space > 0
  /\ LET n == Least(Space, Left)
     IN  Accept(n) /\ pc' = IF scount + n >= RepLen THEN "loop" ELSE "send"
  /\ UNCHANGED <<ssl, nul, client, sslhi, taken, rd, buffer, count, handled, text,
                 replies, cut, up>>

(* SSL_write() sends all, or WANT_WRITE ends the loop; after that OpenSSL  *)
(* refuses any other text (bad write retry).  The test of count comes too  *)
(* early, so that the loop ends with the error of an empty SSL_write().    *)
(* During a renegotiation it retries (WANT_READ) until the client closes.  *)
SslSend ==
  /\ pc = "send" /\ ssl /\ peer # "reset"
  /\ \/ /\ reneg # "busy" /\ Left > 0 /\ ~cut /\ Space >= Left
        /\ Accept(Left) /\ UNCHANGED <<pc, cut>>
     \/ /\ \/ reneg # "busy" /\ (Left > 0 => cut \/ Space < Left)
           \/ reneg = "busy" /\ eof
        /\ pc' = "loop" /\ cut' = (cut \/ Left > 0) /\ UNCHANGED <<out, scount>>
  /\ UNCHANGED <<ssl, nul, client, sslhi, taken, rd, buffer, count, handled, text,
                 replies, up>>

Network == \/ \E k \in 1 .. MaxSent : Deliver(k)
           \/ DeliverEof
Peer == \/ \E k \in 1 .. MaxSent : PeerSend(k)
        \/ DeliverPart \/ PeerClose \/ PeerReset \/ PeerRead \/ PeerRenegotiate
Loops == NormalRecv \/ SslRecv \/ HandleRequest \/ WriteFails \/ NormalSend \/ SslSend

(* The connection lasts until its context is freed.                        *)
Live(A) == up /\ pc # "freed" /\ A
Next == Live(Network \/ Peer \/ EventCallBack \/ Loops)

Spec == Init /\ [][Next]_vars

(* The thread runs, libevent reports what is readable and the network      *)
(* delivers; nothing is assumed of the client, except that a closed one    *)
(* rejects data.                                                           *)
FairSpec ==
  /\ Spec /\ WF_vars(Live(Loops)) /\ WF_vars(Live(EventCallBack)) /\ WF_vars(Live(Network))
  /\ WF_vars(Live(peer = "closed" /\ PeerReset))

-----------------------------------------------------------------------------
(* Properties                                                              *)

(* NormalRecv and SslRecv lose no byte, take none twice and keep their     *)
(* order, over all callbacks of a connection: every byte read is in the    *)
(* buffer at its place or has been in a buffer of an earlier callback.     *)
StreamKept ==
  /\ pc \in {"recv", "handle"} =>
       /\ rd = handled + count
       /\ \A j \in Slots : buffer[j] = IF j < count THEN Byte(handled + 1 + j) ELSE 0
  /\ pc \in {"loop", "send"} => rd = handled

(* HandleRequest gets the bytes of the callback up to the first zero byte, *)
(* and all of them if there is none; only a full buffer, which leaves no   *)
(* room for the terminating zero, may give it more.                        *)
HandledText ==
  pc \in {"loop", "send"} /\ handled > 0 =>
    LET first == handled - count
        n     == Least(Len(text), count)
    IN  /\ \A j \in 1 .. n : text[j] = first + j
        /\ n < count => nul = first + n + 1
        /\ Len(text) > count => count = BufSize

(* CEventBaseMgr.cpp:317, len <= 0 means that the client has closed or the *)
(* socket has failed: EventCallBack frees no context whose client still    *)
(* has the connection open.                                                *)
FreedMeansClosed == pc = "freed" => peer # "open"

(* A context is freed when every byte that arrived has been in a buffer    *)
(* for HandleRequest, and without SSL only when the client has closed or   *)
(* failed: the bytes read before a close are not dropped by it.            *)
FreedOnlyAtEnd == pc = "freed" => handled = arrived /\ (~ssl => FreedMeansClosed)

(* The byte that follows byte b in the replies.                            *)
NextByte(b) == IF b[2] = RepLen THEN <<b[1] + 1, 1>> ELSE <<b[1], b[2] + 1>>

(* Replies reach the client in order, each whole before the next begins,   *)
(* until a send loop gives up; NormalSend gives up only when the           *)
(* connection is broken.                                                   *)
RepliesKept ==
  /\ ~cut =>
       /\ out # <<>> => out[1] = <<1, 1>>
       /\ \A k \in 1 .. (Len(out) - 1) : out[k + 1] = NextByte(out[k])
       /\ pc # "send" /\ replies > 0 => Len(out) > 0 /\ out[Len(out)] = <<replies, RepLen>>
  /\ cut => ssl \/ peer = "reset"

(* The client keeps the callback waiting: NormalRecv waits for more than   *)
(* it sends, NormalSend or SslSend for it to read or to finish a           *)
(* renegotiation.                                                          *)
KeptWaiting ==
  /\ peer = "open"
  /\ \/ pc = "recv" /\ ~ssl /\ rd = arrived
     \/ pc = "send" /\ ~ssl /\ Space = 0
     \/ pc = "send" /\ ssl /\ reneg = "busy"

(* A callback ends, whatever arrives in whatever pieces, unless the client *)
(* keeps it waiting for ever: SslRecv always returns.                      *)
CallbackReturns ==
  pc \in {"recv", "handle", "send"} ~> (pc \in {"loop", "freed"} \/ ~up \/ []KeptWaiting)

(* Without SSL every byte a client sent before it closed comes into a      *)
(* buffer for HandleRequest, however the buffer cuts them; what the        *)
(* handler sees of such a buffer is the subject of HandledText.            *)
SentIsHandled ==
  (~ssl /\ peer = "closed") ~> (handled = sent \/ peer = "reset" \/ ~up)
=============================================================================
