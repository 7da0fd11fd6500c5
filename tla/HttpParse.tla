------------------------------ MODULE HttpParse ------------------------------
(***************************************************************************)
(* CReqHandlerObj::CheckData and the parser CHttpParse behind it, fed with *)
(* the segments in which the bytes of one client request arrive.           *)
(*                                                                         *)
(* The bytes are a sequence of tokens: the text of a line, of which the    *)
(* parser tells four kinds apart, and the single bytes "cr", "lf" and      *)
(* "byte" (any byte of a body).  Requests are cut between tokens only.     *)
(* Of the content the code uses the length alone, and so does the model.   *)
(***************************************************************************)
EXTENDS Integers, Sequences, FiniteSets

CONSTANTS
  TextSize,    \* bytes in the text of a line
  Lengths,     \* values clients give to CONTENT_LENGHT
  MaxHeaders,  \* header lines of a request
  MaxBody      \* bytes of its body

Token(k) == [kind |-> k, value |-> 0]

(* GET or POST; a key the content does not depend on; CONTENT_LENGHT with  *)
(* its value; a line without ": " that names no method.                    *)
RequestLine == Token("req")
HeaderLines == {Token("hdr"), Token("bad")} \cup [kind : {"len"}, value : Lengths]

ASSUME TextAssumption == TextSize \in Nat /\ TextSize > 2
ASSUME RequestAssumption == Lengths \subseteq Int /\ MaxHeaders \in Nat /\ MaxBody \in Nat

(* std::string::length                                                     *)
Texts(s) == {i \in DOMAIN s : s[i].kind \notin {"cr", "lf", "byte"}}
Size(s)  == Len(s) + (TextSize - 1) * Cardinality(Texts(s))

(* m_requestData.find("\r\n"), 0 for npos.                                 *)
FindCRLF(s) ==
  LET At == {i \in 1 .. (Len(s) - 1) : s[i].kind = "cr" /\ s[i + 1].kind = "lf"}
  IN  IF At = {} THEN 0 ELSE CHOOSE i \in At : \A j \in At : i <= j

Has(line, kinds) == \E i \in DOMAIN line : line[i].kind \in kinds

(* The parser between two turns of its loop: the unparsed rest of          *)
(* m_requestStr, the length of m_content, m_content_lenght, whether substr *)
(* threw, and whether the loop has ended.                                  *)
Start(s, length) ==
  [rest |-> s, content |-> 0, length |-> length, throws |-> FALSE, done |-> FALSE]
Result(rest, content, length) ==
  [rest |-> rest, content |-> content, length |-> length, throws |-> FALSE, done |-> TRUE]

(* get_line when there is no line end: pos + 2 wraps round to 1, so one    *)
(* byte is dropped and the rest is taken for the content; of an empty      *)
(* string substr(1) throws out_of_range.                                   *)
NoLineEnd(s, length) ==
  IF s = <<>> THEN [Result(<<>>, 0, length) EXCEPT !.throws = TRUE]
              ELSE Result(<<>>, Size(s) - 1, length)

(* One turn of the while loop of parse_line_data_type: get_line, then the  *)
(* header, the method or the end.                                          *)
ParseLine(p) ==
  LET pos  == FindCRLF(p.rest)
      line == SubSeq(p.rest, 1, pos - 1)
      rest == SubSeq(p.rest, pos + 2, Len(p.rest))
  IN  IF p.done THEN p
      ELSE IF pos = 0 THEN NoLineEnd(p.rest, p.length)
      ELSE IF line = <<>> THEN Result(<<>>, Size(rest), p.length)
      ELSE IF Has(line, {"hdr", "len"})
           THEN [p EXCEPT !.rest = rest,
                          !.length = IF line[1].kind = "len" THEN line[1].value ELSE @]
      ELSE IF Has(line, {"req"}) THEN [p EXCEPT !.rest = rest]
      ELSE Result(rest, 0, p.length)

(* The loop: it ends with a turn that finds nothing, an empty line or a    *)
(* line that is no header, at the latest in turn Len(s) + 1.               *)
ParseLines(s, length) ==
  LET Loop[k \in 0 .. (Len(s) + 1)] ==
        IF k = 0 THEN Start(s, length) ELSE ParseLine(Loop[k - 1])
  IN  Loop[Len(s) + 1]

ParseRequest(s) == ParseLines(s, 0)

(* Mutant: a content that is too long is accepted.                         *)
VerdictLenient(content, length) ==
  IF length < 0 \/ content < length THEN "DATA_DEF" ELSE "DATA_OK"

(* CheckData compares the unsigned length of the content with the int      *)
(* m_content_lenght: a negative one is converted to a huge value.          *)
Verdict(content, length) ==
  IF length < 0 \/ content < length THEN "DATA_DEF"
  ELSE IF content = length THEN "DATA_OK" ELSE "DATA_ERROR"

-----------------------------------------------------------------------------
VARIABLES
  headers,     \* the header lines of the request the client sends
  body,        \* its body
  sent,        \* tokens of it that have arrived
  segments,    \* segments they arrived in
  requestStr,  \* m_requestStr of the handler that waits for more
  answer,      \* what CheckData returned last
  up           \* no exception has left CheckData

vars == <<headers, body, sent, segments, requestStr, answer, up>>

LineEnd == <<Token("cr"), Token("lf")>>

(* The bytes the client sends.                                             *)
Lines   == <<RequestLine>> \o headers
Header  == [k \in 1 .. 3 * Len(Lines) |->
             IF k % 3 = 1 THEN Lines[(k + 2) \div 3]
             ELSE IF k % 3 = 2 THEN LineEnd[1] ELSE LineEnd[2]]
Request(b) == Header \o LineEnd \o b
Message == Request(body)

Init ==
  /\ \E n \in 0 .. MaxHeaders : headers \in [1 .. n -> HeaderLines]
  /\ \E n \in 0 .. MaxBody : body \in [1 .. n -> {Token("byte"), Token("cr"), Token("lf")}]
  /\ sent = 0 /\ segments = 0
  /\ requestStr = <<>>
  /\ answer = "none"
  /\ up = TRUE

(* The next n tokens arrive and go to the waiting handler, or to a new one.*)
(* A handler that does not answer DATA_DEF is deleted.                     *)
CheckData(n) ==
  LET request == SubSeq(Message, sent + 1, sent + n)
      r       == ParseRequest(requestStr \o request)
  IN  /\ up /\ sent + n <= Len(Message)
      /\ sent' = sent + n
      /\ segments' = segments + 1
      /\ IF r.throws
         THEN up' = FALSE /\ UNCHANGED <<requestStr, answer>>
         ELSE /\ answer' = Verdict(r.content, r.length)
              /\ requestStr' = IF answer' = "DATA_DEF" THEN r.rest ELSE <<>>
              /\ UNCHANGED up
      /\ UNCHANGED <<headers, body>>

Next == \E n \in 1 .. Len(Message) : CheckData(n)

Spec == Init /\ [][Next]_vars

-----------------------------------------------------------------------------
(* Properties                                                              *)

(* The length a request declares: its last CONTENT_LENGHT, or 0.           *)
Declared ==
  LET Given == {i \in DOMAIN headers : headers[i].kind = "len"}
  IN  IF Given = {} THEN 0
      ELSE headers[CHOOSE i \in Given : \A j \in Given : j <= i].value

WellFormed == \A i \in DOMAIN headers : headers[i].kind # "bad"
Complete   == WellFormed /\ Size(body) = Declared

(* The tokens up to the empty line, and what of the body has arrived.      *)
HeaderEnd == Len(Header) + Len(LineEnd)
Arrived   == SubSeq(body, 1, sent - HeaderEnd)

(* A first segment with all of the header, and all, some or none of the    *)
(* body, never ends the process, and a well-formed one is judged by its    *)
(* declared length: complete, in need of more bytes (DATA_DEF, as          *)
(* CommStruct.h:28 has it), or too long.  A body may contain line ends;    *)
(* they are not taken for header lines.                                    *)
FirstSegmentVerdict ==
  segments = 1 /\ sent >= HeaderEnd =>
    /\ up
    /\ WellFormed =>
         /\ answer = "DATA_OK" <=> Size(Arrived) = Declared
         /\ answer = "DATA_ERROR" <=> Declared >= 0 /\ Size(Arrived) > Declared
         /\ Size(Arrived) < Declared => answer = "DATA_DEF"

(* CommStruct.h:28, DATA_DEF stands for data that is split over packets    *)
(* and must be received further: once all of a complete request has        *)
(* arrived, in however many segments, it is accepted.                      *)
SplitRequestAccepted ==
  Complete /\ sent = Len(Message) => up /\ answer = "DATA_OK"
=============================================================================
