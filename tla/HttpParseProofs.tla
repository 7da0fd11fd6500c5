--------------------------- MODULE HttpParseProofs ---------------------------
(***************************************************************************)
(* Proofs about HttpParse: the loop of CHttpParse ends on every text; and  *)
(* the first segment of a request, with any number of headers and any part *)
(* of any body, gets the verdict of the declared length.                   *)
(***************************************************************************)
EXTENDS HttpParse, WellFoundedInduction, FiniteSetTheorems, TLAPS

USE Zenon

(* What a text is made of.                                                 *)
Tokens == [kind : {"req", "hdr", "len", "bad", "cr", "lf", "byte"}, value : Int]

(* The parser between two turns.                                           *)
ParserStates ==
  [rest : Seq(Tokens), content : Nat, length : Int, throws : BOOLEAN, done : BOOLEAN]

-----------------------------------------------------------------------------
(* Induction over the natural numbers, for a property given as a set.      *)

(* A nonempty set of natural numbers has a least element.                  *)
LEMMA LeastNatural ==
  ASSUME NEW T, T \subseteq Nat, T # {}
  PROVE  \E x \in T : \A y \in T : x <= y
<1>. DEFINE R == OpToRel(<, Nat)
<1>1. IsWellFoundedOn(R, Nat)
  BY NatLessThanWellFounded
<1>2. \A x, y \in Nat : x < y => <<x, y>> \in R
  BY DEF OpToRel
<1>. HIDE DEF R
<1>3. PICK x \in T : \A y \in T : ~ (<<y, x>> \in R)
  BY <1>1, WFMin
<1>4. ASSUME NEW y \in T PROVE x <= y
  <2>1. x \in Nat /\ y \in Nat
    OBVIOUS
  <2>2. ~ (y < x)
    BY <1>2, <1>3, <2>1
  <2>. QED
    BY <2>1, <2>2, SMT
<1>. QED
  BY <1>3, <1>4

(* A set that holds 0 and, with each number, the next holds all of them.   *)
LEMMA SetInduction ==
  ASSUME NEW S, 0 \in S, \A n \in Nat : n \in S => n + 1 \in S
  PROVE  Nat \subseteq S
<1>. DEFINE T == Nat \ S
<1>1. SUFFICES ASSUME T # {} PROVE FALSE
  OBVIOUS
<1>2. T \subseteq Nat
  OBVIOUS
<1>. HIDE DEF T
<1>3. PICK x \in T : \A y \in T : x <= y
  BY <1>1, <1>2, LeastNatural
<1>. USE DEF T
<1>4. x # 0
  OBVIOUS
<1>5. x - 1 \in Nat /\ ~ (x <= x - 1)
  BY <1>4, SMT
<1>6. x - 1 \in S
  BY <1>3, <1>5
<1>. QED
  BY <1>5, <1>6, SMT

-----------------------------------------------------------------------------
(* find, length and the parts of a line                                    *)

(* find returns the first line end, or npos when there is none.            *)
LEMMA FindCRLFFirst ==
  ASSUME NEW s \in Seq(Tokens)
  PROVE  \/ /\ FindCRLF(s) = 0
            /\ \A i \in 1 .. (Len(s) - 1) : ~ (s[i].kind = "cr" /\ s[i + 1].kind = "lf")
         \/ /\ FindCRLF(s) \in 1 .. (Len(s) - 1)
            /\ s[FindCRLF(s)].kind = "cr" /\ s[FindCRLF(s) + 1].kind = "lf"
            /\ \A i \in 1 .. (FindCRLF(s) - 1) : ~ (s[i].kind = "cr" /\ s[i + 1].kind = "lf")
<1>. DEFINE At == {i \in 1 .. (Len(s) - 1) : s[i].kind = "cr" /\ s[i + 1].kind = "lf"}
<1>1. FindCRLF(s) = IF At = {} THEN 0 ELSE CHOOSE i \in At : \A j \in At : i <= j
  BY DEF FindCRLF
<1>2. At \subseteq Nat
  BY SMT
<1>3. CASE At = {}
  BY <1>1, <1>3
<1>4. CASE At # {}
  <2>. HIDE DEF At
  <2>1. \E i \in At : \A j \in At : i <= j
    BY <1>2, <1>4, LeastNatural
  <2>2. FindCRLF(s) \in At /\ \A j \in At : FindCRLF(s) <= j
    BY <1>1, <1>4, <2>1
  <2>. DEFINE f == FindCRLF(s)
  <2>3. f \in 1 .. (Len(s) - 1) /\ s[f].kind = "cr" /\ s[f + 1].kind = "lf"
    BY <2>2 DEF At
  <2>. HIDE DEF f
  <2>4. ASSUME NEW i \in 1 .. (f - 1) PROVE i \notin At
    <3>1. ~ (f <= i)
      BY <2>3, SMT
    <3>. QED
      BY <2>2, <3>1 DEF f
  <2>5. \A i \in 1 .. (f - 1) : i \in 1 .. (Len(s) - 1)
    BY <2>3, SMT
  <2>6. \A i \in 1 .. (f - 1) : ~ (s[i].kind = "cr" /\ s[i + 1].kind = "lf")
    BY <2>4, <2>5 DEF At
  <2>. QED
    BY <2>3, <2>6 DEF f
<1>. QED
  BY <1>3, <1>4

(* length is a natural number, positive for a nonempty string.             *)
LEMMA SizeType ==
  ASSUME NEW s \in Seq(Tokens)
  PROVE  Size(s) \in Nat /\ (s # <<>> => Size(s) - 1 \in Nat)
<1>1. Len(s) \in Nat /\ DOMAIN s = 1 .. Len(s)
  BY SMT
<1>2. IsFiniteSet(Texts(s))
  <2>1. IsFiniteSet(1 .. Len(s))
    BY <1>1, FS_Interval, SMT
  <2>2. Texts(s) \subseteq 1 .. Len(s)
    BY <1>1 DEF Texts
  <2>. QED
    BY <2>1, <2>2, FS_Subset
<1>3. \A c \in Nat : (TextSize - 1) * c \in Nat
  BY TextAssumption, SMT
<1>4. (TextSize - 1) * Cardinality(Texts(s)) \in Nat
  BY <1>2, <1>3, FS_CardinalityType
<1>5. Len(s) \in Nat /\ (s # <<>> => Len(s) >= 1)
  BY SMT
<1>. QED
  BY <1>4, <1>5, SMT DEF Size

(* The tokens of a part of a string.                                       *)
LEMMA PartFacts ==
  ASSUME NEW s \in Seq(Tokens), NEW a \in Nat, NEW b \in Nat, a >= 1, b <= Len(s)
  PROVE  /\ SubSeq(s, a, b) \in Seq(Tokens)
         /\ Len(SubSeq(s, a, b)) = IF a <= b THEN b - a + 1 ELSE 0
         /\ \A i \in DOMAIN SubSeq(s, a, b) : SubSeq(s, a, b)[i] = s[a + i - 1]
<1>1. SubSeq(s, a, b) \in Seq(Tokens)
  BY SMT
<1>2. Len(SubSeq(s, a, b)) = IF a <= b THEN b - a + 1 ELSE 0
  BY SMT
<1>3. \A i \in DOMAIN SubSeq(s, a, b) : i \in 1 .. Len(SubSeq(s, a, b)) /\ SubSeq(s, a, b)[i] = s[a + i - 1]
  BY SMT
<1>. QED
  BY <1>1, <1>2, <1>3

(* Strings of the same tokens are equal.                                   *)
LEMMA SameTokens ==
  ASSUME NEW s \in Seq(Tokens), NEW t \in Seq(Tokens), Len(s) = Len(t),
         \A i \in 1 .. Len(s) : s[i] = t[i]
  PROVE  s = t
BY SMT

(* The tokens of two strings one after the other.                          *)
LEMMA ConcatFacts ==
  ASSUME NEW s \in Seq(Tokens), NEW t \in Seq(Tokens)
  PROVE  /\ s \o t \in Seq(Tokens) /\ Len(s \o t) = Len(s) + Len(t)
         /\ \A k \in 1 .. Len(s) : (s \o t)[k] = s[k]
         /\ \A k \in 1 .. Len(t) : (s \o t)[Len(s) + k] = t[k]
BY SMT

-----------------------------------------------------------------------------
(* One turn of the loop                                                    *)

(* A turn leaves the parser in a state of its type, and ends the loop or   *)
(* takes a line away.                                                      *)
LEMMA ParseLineStep ==
  ASSUME NEW p \in ParserStates, ~ p.done
  PROVE  /\ ParseLine(p) \in ParserStates
         /\ ParseLine(p).done \/ Len(ParseLine(p).rest) < Len(p.rest)
<1>. DEFINE s    == p.rest
            pos  == FindCRLF(s)
            line == SubSeq(s, 1, pos - 1)
            rest == SubSeq(s, pos + 2, Len(s))
            q    == ParseLine(p)
<1>1. /\ s \in Seq(Tokens) /\ p.length \in Int /\ p.content \in Nat
      /\ p.throws \in BOOLEAN /\ p.done = FALSE
  BY DEF ParserStates
<1>. HIDE DEF s
<1>2. pos \in Nat /\ (pos # 0 => pos <= Len(s) - 1)
  BY <1>1, FindCRLFFirst, SMT
<1>3. ASSUME pos # 0
      PROVE  /\ line \in Seq(Tokens) /\ Len(line) = pos - 1
             /\ \A i \in DOMAIN line : line[i] = s[i]
             /\ rest \in Seq(Tokens) /\ Len(rest) < Len(s)
  <2>. HIDE DEF pos
  <2>1. /\ pos - 1 \in Nat /\ pos - 1 <= Len(s)
        /\ pos + 2 \in Nat /\ pos + 2 >= 1
        /\ Len(s) \in Nat /\ Len(s) <= Len(s)
    BY <1>1, <1>2, <1>3, SMT
  <2>2. /\ line \in Seq(Tokens)
        /\ Len(line) = IF 1 <= pos - 1 THEN pos - 1 - 1 + 1 ELSE 0
        /\ \A i \in DOMAIN line : line[i] = s[1 + i - 1]
    BY <1>1, <2>1, PartFacts, SMT
  <2>3. /\ rest \in Seq(Tokens)
        /\ Len(rest) = IF pos + 2 <= Len(s) THEN Len(s) - (pos + 2) + 1 ELSE 0
    BY <1>1, <2>1, PartFacts
  <2>4. DOMAIN line = 1 .. Len(line)
    BY <2>2, SMT
  <2>. QED
    BY <1>2, <1>3, <2>1, <2>2, <2>3, <2>4, SMT
<1>5. CASE pos = 0
  <2>1. q = NoLineEnd(s, p.length)
    BY <1>1, <1>5 DEF ParseLine, s
  <2>2. Size(s) \in Nat /\ (s # <<>> => Size(s) - 1 \in Nat)
    BY <1>1, SizeType
  <2>. HIDE DEF q
  <2>3. CASE s = <<>>
    <3>1. q = [rest |-> <<>>, content |-> 0, length |-> p.length,
               throws |-> TRUE, done |-> TRUE]
      BY <2>1, <2>3 DEF NoLineEnd, Result
    <3>. QED
      BY <1>1, <3>1, SMT DEF ParserStates, q
  <2>4. CASE s # <<>>
    <3>1. q = [rest |-> <<>>, content |-> Size(s) - 1, length |-> p.length,
               throws |-> FALSE, done |-> TRUE]
      BY <2>1, <2>4 DEF NoLineEnd, Result
    <3>. QED
      BY <1>1, <2>2, <2>4, <3>1, SMT DEF ParserStates, q
  <2>. QED
    BY <2>3, <2>4
<1>6. CASE pos # 0 /\ line = <<>>
  <2>1. q = Result(<<>>, Size(rest), p.length)
    BY <1>1, <1>6 DEF ParseLine, s
  <2>2. Size(rest) \in Nat
    BY <1>3, <1>6, SizeType
  <2>3. q \in ParserStates /\ q.done
    BY <1>1, <2>1, <2>2, SMT DEF Result, ParserStates
  <2>. QED
    BY <2>3
<1>7. CASE pos # 0 /\ line # <<>> /\ Has(line, {"hdr", "len"})
  <2>1. q = [p EXCEPT !.rest = rest,
                      !.length = IF line[1].kind = "len" THEN line[1].value ELSE @]
    BY <1>1, <1>7 DEF ParseLine, s
  <2>2. line[1] \in Tokens /\ 1 \in DOMAIN line
    BY <1>3, <1>7, SMT
  <2>3. line[1].value \in Int
    BY <2>2 DEF Tokens
  <2>. HIDE DEF q, line, rest
  <2>5. q \in ParserStates /\ q.rest = rest
    BY <1>1, <1>3, <1>7, <2>1, <2>3 DEF ParserStates
  <2>. QED
    BY <1>3, <1>7, <2>5 DEF s, q
<1>8. CASE pos # 0 /\ line # <<>> /\ ~ Has(line, {"hdr", "len"}) /\ Has(line, {"req"})
  <2>1. q = [p EXCEPT !.rest = rest]
    BY <1>1, <1>8 DEF ParseLine, s
  <2>. HIDE DEF q, line, rest
  <2>2. q \in ParserStates /\ q.rest = rest
    BY <1>1, <1>3, <1>8, <2>1 DEF ParserStates
  <2>. QED
    BY <1>3, <1>8, <2>2 DEF s, q
<1>9. CASE pos # 0 /\ line # <<>> /\ ~ Has(line, {"hdr", "len"}) /\ ~ Has(line, {"req"})
  <2>1. q = Result(rest, 0, p.length)
    BY <1>1, <1>9 DEF ParseLine, s
  <2>. HIDE DEF q, line, rest
  <2>2. q \in ParserStates /\ q.done
    BY <1>1, <1>3, <1>9, <2>1 DEF Result, ParserStates
  <2>. QED
    BY <1>3, <1>9, <2>2 DEF s, q
<1>. QED
  BY <1>5, <1>6, <1>7, <1>8, <1>9

-----------------------------------------------------------------------------
(* The loop                                                                *)

(* f records the parser after each of the first n turns.                   *)
IsLoop(f, s, length, n) ==
  f = [k \in 0 .. n |-> IF k = 0 THEN Start(s, length) ELSE ParseLine(f[k - 1])]

(* The recursive definition of the loop has a solution, however long.      *)
LEMMA LoopExists ==
  ASSUME NEW s, NEW length, NEW n \in Nat
  PROVE  \E f : IsLoop(f, s, length, n)
<1>. DEFINE first == Start(s, length)
            S == {m \in Nat : \E f : IsLoop(f, s, length, m)}
<1>1. 0 \in S
  <2>. DEFINE g == [k \in 0 .. 0 |-> first]
  <2>1. g = [k \in 0 .. 0 |-> IF k = 0 THEN first ELSE ParseLine(g[k - 1])]
    <3>. HIDE DEF first
    <3>. QED
      BY SMT
  <2>2. IsLoop(g, s, length, 0)
    BY <2>1, Zenon DEF IsLoop
  <2>. QED
    BY <2>2
<1>2. ASSUME NEW m \in Nat, m \in S PROVE m + 1 \in S
  <2>1. PICK f : IsLoop(f, s, length, m)
    BY <1>2
  <2>2. f = [k \in 0 .. m |-> IF k = 0 THEN first ELSE ParseLine(f[k - 1])]
    BY <2>1, Zenon DEF IsLoop
  <2>. DEFINE g == [k \in 0 .. (m + 1) |-> IF k = m + 1 THEN ParseLine(f[m]) ELSE f[k]]
  <2>3. g = [k \in 0 .. (m + 1) |-> IF k = 0 THEN first ELSE ParseLine(g[k - 1])]
    <3>. HIDE DEF first
    <3>1. g[0] = first
      BY <2>2, SMT
    <3>2. ASSUME NEW k \in 1 .. (m + 1) PROVE g[k] = ParseLine(g[k - 1])
      <4>1. k - 1 \in 0 .. m /\ k - 1 # m + 1 /\ k - 1 \in 0 .. (m + 1)
        BY SMT
      <4>2. g[k - 1] = f[k - 1]
        BY <4>1
      <4>3. CASE k = m + 1
        BY <4>2, <4>3, SMT
      <4>4. CASE k # m + 1
        <5>1. k \in 0 .. m /\ k # 0 /\ k \in 0 .. (m + 1)
          BY <4>4, SMT
        <5>2. f[k] = ParseLine(f[k - 1])
          BY <2>2, <5>1
        <5>. QED
          BY <4>2, <4>4, <5>1, <5>2
      <4>. QED
        BY <4>3, <4>4
    <3>3. \A k \in 0 .. (m + 1) : g[k] = IF k = 0 THEN first ELSE ParseLine(g[k - 1])
      <4>. HIDE DEF g
      <4>. SUFFICES ASSUME NEW k \in 0 .. (m + 1), k # 0
                    PROVE  g[k] = ParseLine(g[k - 1])
        BY <3>1
      <4>. QED
        BY <3>2, SMT
    <3>4. g = [k \in 0 .. (m + 1) |-> g[k]]
      OBVIOUS
    <3>. HIDE DEF g
    <3>. QED
      BY <3>3, <3>4
  <2>4. IsLoop(g, s, length, m + 1)
    BY <2>3, Zenon DEF IsLoop
  <2>. QED
    BY <2>4, SMT
<1>. HIDE DEF S
<1>3. Nat \subseteq S
  BY <1>1, <1>2, SetInduction
<1>. QED
  BY <1>3 DEF S

(* What parse_line_data_type leaves is the parser after Len(s) + 1 turns.  *)
LEMMA ParseLinesLoop ==
  ASSUME NEW s \in Seq(Tokens), NEW length
  PROVE  \E f : IsLoop(f, s, length, Len(s) + 1) /\ ParseLines(s, length) = f[Len(s) + 1]
<1>. DEFINE Loop[k \in 0 .. (Len(s) + 1)] ==
              IF k = 0 THEN Start(s, length) ELSE ParseLine(Loop[k - 1])
<1>1. ParseLines(s, length) = Loop[Len(s) + 1]
  BY Zenon DEF ParseLines
<1>2. Len(s) + 1 \in Nat
  BY SMT
<1>3. \E f : IsLoop(f, s, length, Len(s) + 1)
  BY <1>2, LoopExists
<1>4. IsLoop(Loop, s, length, Len(s) + 1)
  BY <1>3, Zenon DEF IsLoop
<1>. QED
  BY <1>1, <1>4, Zenon

(* The turns of the loop, one by one.                                      *)
LEMMA LoopTurns ==
  ASSUME NEW s \in Seq(Tokens), NEW length \in Int, NEW n \in Nat, NEW f, IsLoop(f, s, length, n)
  PROVE  /\ f[0] = Start(s, length)
         /\ \A k \in Nat : k < n => f[k + 1] = ParseLine(f[k])
<1>1. f = [k \in 0 .. n |-> IF k = 0 THEN Start(s, length) ELSE ParseLine(f[k - 1])]
  BY Zenon DEF IsLoop
<1>2. f[0] = Start(s, length)
  BY <1>1, SMT
<1>3. ASSUME NEW k \in Nat, k < n PROVE f[k + 1] = ParseLine(f[k])
  <2>. DEFINE j == k + 1
  <2>1. j \in 0 .. n /\ j # 0 /\ j - 1 = k
    BY <1>3, SMT
  <2>. HIDE DEF j
  <2>2. f[j] = ParseLine(f[j - 1])
    BY <1>1, <2>1
  <2>. QED
    BY <2>1, <2>2 DEF j
<1>. QED
  BY <1>2, <1>3

(* A turn after the end changes nothing.                                   *)
LEMMA ParseLineDone ==
  ASSUME NEW p, p.done
  PROVE  ParseLine(p) = p
BY Zenon DEF ParseLine

(* After k turns the loop has ended or taken k tokens away.                *)
LEMMA LoopInvariant ==
  ASSUME NEW s \in Seq(Tokens), NEW length \in Int, NEW n \in Nat, NEW f, IsLoop(f, s, length, n),
         NEW k \in 0 .. n
  PROVE  /\ f[k] \in ParserStates
         /\ f[k].done \/ Len(f[k].rest) + k <= Len(s)
<1>. DEFINE Good(m) ==
              /\ f[m] \in ParserStates
              /\ f[m].done \/ Len(f[m].rest) + m <= Len(s)
            S == {m \in Nat : m <= n => Good(m)}
<1>1. /\ f[0] \in ParserStates
      /\ f[0].rest = s /\ f[0].length = length /\ f[0].done = FALSE
      /\ \A m \in Nat : m < n => f[m + 1] = ParseLine(f[m])
  <2>1. /\ f[0] = Start(s, length)
        /\ \A m \in Nat : m < n => f[m + 1] = ParseLine(f[m])
    BY LoopTurns, SMT
  <2>. QED
    BY <2>1, SMT DEF Start, ParserStates
<1>2. 0 \in S
  <2>1. Len(s) + 0 <= Len(s)
    BY SMT
  <2>. QED
    BY <1>1, <2>1
<1>3. ASSUME NEW m \in Nat, m \in S PROVE m + 1 \in S
  <2>0. m + 1 \in Nat
    BY SMT
  <2>. SUFFICES ASSUME m + 1 <= n PROVE Good(m + 1)
    BY <2>0
  <2>1. m < n /\ m <= n
    BY SMT
  <2>2. f[m + 1] = ParseLine(f[m]) /\ Good(m)
    BY <1>1, <1>3, <2>1
  <2>3. CASE f[m].done
    <3>1. f[m + 1] = f[m]
      BY <2>2, <2>3, ParseLineDone
    <3>. QED
      BY <2>2, <2>3, <3>1
  <2>4. CASE ~ f[m].done
    <3>1. /\ f[m + 1] \in ParserStates
          /\ f[m + 1].done \/ Len(f[m + 1].rest) < Len(f[m].rest)
      BY <2>2, <2>4, ParseLineStep
    <3>2. Len(f[m].rest) \in Nat /\ Len(f[m + 1].rest) \in Nat /\ Len(s) \in Nat
      <4>1. \A st \in ParserStates : Len(st.rest) \in Nat
        BY SMT DEF ParserStates
      <4>2. Len(s) \in Nat
        BY SMT
      <4>. QED
        BY <2>2, <3>1, <4>1, <4>2, Zenon
    <3>3. f[m + 1].done \/ Len(f[m + 1].rest) + (m + 1) <= Len(s)
      <4>1. \A a, b, c \in Nat : a < b /\ b + m <= c => a + (m + 1) <= c
        BY SMT
      <4>. QED
        BY <2>2, <2>4, <3>1, <3>2, <4>1
    <3>. QED
      BY <2>2, <3>1, <3>3
  <2>. QED
    BY <2>3, <2>4
<1>. HIDE DEF S
<1>4. Nat \subseteq S
  BY <1>2, <1>3, SetInduction
<1>. QED
  BY <1>4, SMT DEF S

(* parse_line_data_type ends, on every text.                               *)
LEMMA ParseRequestFacts ==
  ASSUME NEW s \in Seq(Tokens)
  PROVE  /\ ParseRequest(s) \in ParserStates
         /\ ParseRequest(s).done
<1>. DEFINE n == Len(s) + 1
<1>1. n \in Nat /\ n \in 0 .. n /\ n > Len(s) /\ Len(s) \in Nat
  BY SMT
<1>2. PICK f : IsLoop(f, s, 0, n) /\ ParseLines(s, 0) = f[n]
  BY ParseLinesLoop
<1>. HIDE DEF n
<1>3. /\ f[n] \in ParserStates
      /\ f[n].done \/ Len(f[n].rest) + n <= Len(s)
  BY <1>1, <1>2, LoopInvariant, SMT
<1>4. Len(f[n].rest) \in Nat
  BY <1>3, SMT DEF ParserStates
<1>5. ~ (Len(f[n].rest) + n <= Len(s))
  BY <1>1, <1>4, SMT
<1>6. ParseRequest(s) = f[n]
  BY <1>2 DEF ParseRequest
<1>. QED
  BY <1>3, <1>5, <1>6

-----------------------------------------------------------------------------
(* The request a client sends                                              *)

BodyTokens == {Token("byte"), Token("cr"), Token("lf")}

(* What the client sends are tokens.                                       *)
LEMMA TokenTypes ==
  /\ RequestLine \in Tokens /\ Token("cr") \in Tokens /\ Token("lf") \in Tokens
  /\ HeaderLines \subseteq Tokens /\ BodyTokens \subseteq Tokens
<1>1. /\ Token("req") \in Tokens /\ Token("hdr") \in Tokens /\ Token("bad") \in Tokens
      /\ Token("cr") \in Tokens /\ Token("lf") \in Tokens /\ Token("byte") \in Tokens
  BY SMT DEF Token, Tokens
<1>2. ASSUME NEW h \in [kind : {"len"}, value : Lengths] PROVE h \in Tokens
  <2>1. h = [kind |-> h.kind, value |-> h.value] /\ h.kind = "len" /\ h.value \in Lengths
    OBVIOUS
  <2>2. h.value \in Int
    BY <2>1, RequestAssumption
  <2>. QED
    BY <2>1, <2>2 DEF Tokens
<1>. QED
  BY <1>1, <1>2, Zenon DEF RequestLine, HeaderLines, BodyTokens

(* The kinds of the lines a client sends.                                  *)
LEMMA KindsSent ==
  RequestLine.kind = "req" /\ \A h \in HeaderLines : h.kind \in {"hdr", "len", "bad"}
<1>1. \A h \in [kind : {"len"}, value : Lengths] : h.kind = "len"
  BY SMT
<1>2. /\ Token("req").kind = "req" /\ Token("hdr").kind = "hdr" /\ Token("bad").kind = "bad"
  BY SMT DEF Token
<1>. QED
  BY <1>1, <1>2 DEF RequestLine, HeaderLines

(* The request line and each header take three tokens; the empty line and  *)
(* the body follow.                                                        *)
LEMMA MessageShape ==
  ASSUME headers \in Seq(HeaderLines), NEW b \in Seq(BodyTokens)
  PROVE  LET n == Len(headers) + 1
         IN  /\ Request(b) \in Seq(Tokens)
             /\ Len(Request(b)) = 3 * n + 2 + Len(b)
             /\ \A i \in 0 .. (n - 1) :
                  /\ Request(b)[3 * i + 1] = IF i = 0 THEN RequestLine ELSE headers[i]
                  /\ Request(b)[3 * i + 2] = Token("cr")
                  /\ Request(b)[3 * i + 3] = Token("lf")
             /\ Request(b)[3 * n + 1] = Token("cr") /\ Request(b)[3 * n + 2] = Token("lf")
             /\ SubSeq(Request(b), 3 * n + 3, Len(Request(b))) = b
             /\ HeaderEnd = 3 * n + 2
             /\ \A k \in 1 .. (3 * n + 2) : Request(b)[k] = (Header \o LineEnd)[k]
             /\ \A k \in 1 .. Len(b) : Request(b)[3 * n + 2 + k] = b[k]
<1>. DEFINE n == Len(headers) + 1
<1>1. /\ RequestLine \in Tokens /\ Token("cr") \in Tokens /\ Token("lf") \in Tokens
      /\ HeaderLines \subseteq Tokens /\ BodyTokens \subseteq Tokens
  BY TokenTypes
<1>2. headers \in Seq(Tokens) /\ b \in Seq(Tokens)
  BY <1>1, SMT
<1>3. n \in Nat /\ n >= 1 /\ Len(headers) = n - 1
  BY SMT
<1>. HIDE DEF n
<1>4. /\ Lines \in Seq(Tokens) /\ Len(Lines) = n
      /\ \A i \in 0 .. (n - 1) : Lines[i + 1] = IF i = 0 THEN RequestLine ELSE headers[i]
  BY <1>1, <1>2, <1>3, SMT DEF Lines
<1>5. /\ LineEnd \in Seq(Tokens) /\ Len(LineEnd) = 2
      /\ LineEnd[1] = Token("cr") /\ LineEnd[2] = Token("lf")
  BY <1>1, SMT DEF LineEnd
<1>. HIDE DEF LineEnd
<1>6. Header = [k \in 1 .. (3 * n) |->
                  IF k % 3 = 1 THEN Lines[(k + 2) \div 3]
                  ELSE IF k % 3 = 2 THEN LineEnd[1] ELSE LineEnd[2]]
  BY <1>4, Zenon DEF Header
<1>7. Header \in Seq(Tokens) /\ Len(Header) = 3 * n
  <2>1. ASSUME NEW k \in 1 .. (3 * n) PROVE Header[k] \in Tokens
    <3>1. k % 3 = 1 => (k + 2) \div 3 \in 1 .. n
      BY <1>3, SMT
    <3>2. k % 3 = 1 => Lines[(k + 2) \div 3] \in Tokens
      BY <1>4, <3>1, SMT
    <3>. QED
      BY <1>1, <1>5, <1>6, <3>2
  <2>2. 3 * n \in Nat
    BY <1>3, SMT
  <2>3. DOMAIN Header = 1 .. (3 * n) /\ Header = [k \in 1 .. (3 * n) |-> Header[k]]
    BY <1>6
  <2>. QED
    BY <2>1, <2>2, <2>3, SMT
<1>8. ASSUME NEW i \in 0 .. (n - 1)
      PROVE  /\ 3 * i + 1 \in 1 .. (3 * n) /\ Header[3 * i + 1] = Lines[i + 1]
             /\ 3 * i + 2 \in 1 .. (3 * n) /\ Header[3 * i + 2] = Token("cr")
             /\ 3 * i + 3 \in 1 .. (3 * n) /\ Header[3 * i + 3] = Token("lf")
  <2>1. /\ 3 * i + 1 \in 1 .. (3 * n) /\ (3 * i + 1) % 3 = 1 /\ ((3 * i + 1) + 2) \div 3 = i + 1
        /\ 3 * i + 2 \in 1 .. (3 * n) /\ (3 * i + 2) % 3 = 2
        /\ 3 * i + 3 \in 1 .. (3 * n) /\ (3 * i + 3) % 3 = 0
    BY <1>3, SMT
  <2>. QED
    BY <1>5, <1>6, <2>1, SMT
<1>. HIDE DEF Header
<1>9. Request(b) = (Header \o LineEnd) \o b
  BY Zenon DEF Request
<1>. DEFINE H == Header \o LineEnd
<1>10. /\ H \in Seq(Tokens) /\ Len(H) = 3 * n + 2
       /\ \A k \in 1 .. (3 * n) : H[k] = Header[k]
       /\ H[3 * n + 1] = Token("cr") /\ H[3 * n + 2] = Token("lf")
  <2>1. /\ H \in Seq(Tokens) /\ Len(H) = Len(Header) + Len(LineEnd)
        /\ \A k \in 1 .. Len(Header) : H[k] = Header[k]
        /\ \A k \in 1 .. Len(LineEnd) : H[Len(Header) + k] = LineEnd[k]
    BY <1>5, <1>7, ConcatFacts
  <2>. HIDE DEF H
  <2>. QED
    BY <1>3, <1>5, <1>7, <2>1, SMT
<1>. HIDE DEF H
<1>11. /\ Request(b) \in Seq(Tokens)
       /\ Len(Request(b)) = 3 * n + 2 + Len(b)
       /\ \A k \in 1 .. (3 * n + 2) : Request(b)[k] = H[k]
       /\ \A k \in 1 .. Len(b) : Request(b)[3 * n + 2 + k] = b[k]
  <2>1. Request(b) = H \o b
    BY <1>9 DEF H
  <2>2. /\ Request(b) \in Seq(Tokens) /\ Len(Request(b)) = Len(H) + Len(b)
        /\ \A k \in 1 .. Len(H) : Request(b)[k] = H[k]
        /\ \A k \in 1 .. Len(b) : Request(b)[Len(H) + k] = b[k]
    <3>. DEFINE u == H \o b
    <3>1. /\ u \in Seq(Tokens) /\ Len(u) = Len(H) + Len(b)
          /\ \A k \in 1 .. Len(H) : u[k] = H[k]
          /\ \A k \in 1 .. Len(b) : u[Len(H) + k] = b[k]
      BY <1>2, <1>10, ConcatFacts
    <3>2. Request(b) = u
      BY <2>1
    <3>. HIDE DEF u
    <3>. QED
      BY <3>1, <3>2
  <2>. QED
    BY <1>10, <2>2
<1>12. SubSeq(Request(b), 3 * n + 3, Len(Request(b))) = b
  <2>. DEFINE u == SubSeq(Request(b), 3 * n + 3, Len(Request(b)))
  <2>1. u \in Seq(Tokens) /\ Len(u) = Len(b)
    BY <1>2, <1>3, <1>11, SMT
  <2>2. \A k \in 1 .. Len(b) : u[k] = b[k]
    BY <1>2, <1>3, <1>11, SMT
  <2>. HIDE DEF u
  <2>3. u = b
    BY <1>2, <2>1, <2>2, SMT
  <2>. QED
    BY <2>3 DEF u
<1>13. ASSUME NEW i \in 0 .. (n - 1)
       PROVE  /\ Request(b)[3 * i + 1] = IF i = 0 THEN RequestLine ELSE headers[i]
              /\ Request(b)[3 * i + 2] = Token("cr")
              /\ Request(b)[3 * i + 3] = Token("lf")
  <2>1. \A k \in 1 .. (3 * n) : k \in 1 .. (3 * n + 2)
    BY <1>3, SMT
  <2>2. \A k \in 1 .. (3 * n) : Request(b)[k] = Header[k]
    BY <1>10, <1>11, <2>1
  <2>. QED
    BY <1>4, <1>8, <2>2
<1>14. Request(b)[3 * n + 1] = Token("cr") /\ Request(b)[3 * n + 2] = Token("lf")
  BY <1>3, <1>10, <1>11, SMT
<1>15. HeaderEnd = 3 * n + 2
  BY <1>5, <1>7 DEF HeaderEnd
<1>16. \A k \in 1 .. (3 * n + 2) : Request(b)[k] = (Header \o LineEnd)[k]
  BY <1>11 DEF H
<1>. QED
  BY <1>11, <1>12, <1>13, <1>14, <1>15, <1>16 DEF n

(* The header with the first m tokens of the body are what a request with  *)
(* that body begins with.                                                  *)
LEMMA FirstTokens ==
  ASSUME headers \in Seq(HeaderLines), NEW b \in Seq(BodyTokens), NEW m \in 0 .. Len(b)
  PROVE  /\ SubSeq(b, 1, m) \in Seq(BodyTokens) /\ HeaderEnd \in Nat
         /\ Len(Request(b)) = HeaderEnd + Len(b)
         /\ SubSeq(Request(b), 1, HeaderEnd + m) = Request(SubSeq(b, 1, m))
<1>. DEFINE a == SubSeq(b, 1, m)
            h == HeaderEnd
            u == SubSeq(Request(b), 1, h + m)
<1>1. /\ a \in Seq(BodyTokens) /\ Len(a) = m
      /\ \A k \in 1 .. m : k \in 1 .. Len(b) /\ a[k] = b[k]
  BY SMT
<1>. HIDE DEF a
<1>2. h = 3 * (Len(headers) + 1) + 2
  BY MessageShape
<1>3. /\ Request(b) \in Seq(Tokens) /\ Len(Request(b)) = h + Len(b)
      /\ \A k \in 1 .. h : Request(b)[k] = (Header \o LineEnd)[k]
      /\ \A k \in 1 .. Len(b) : Request(b)[h + k] = b[k]
  BY <1>2, MessageShape
<1>4. /\ Request(a) \in Seq(Tokens) /\ Len(Request(a)) = h + m
      /\ \A k \in 1 .. h : Request(a)[k] = (Header \o LineEnd)[k]
      /\ \A k \in 1 .. m : Request(a)[h + k] = a[k]
  BY <1>1, <1>2, MessageShape
<1>5. h \in Nat /\ m \in Nat /\ h + m \in Nat /\ h + m <= h + Len(b)
  BY <1>2, SMT
<1>. HIDE DEF h
<1>6. /\ u \in Seq(Tokens) /\ Len(u) = h + m
      /\ \A k \in 1 .. (h + m) : u[k] = Request(b)[k]
  BY <1>3, <1>5, SMT
<1>. HIDE DEF u
<1>7. ASSUME NEW k \in 1 .. (h + m) PROVE u[k] = Request(a)[k]
  <2>1. CASE k \in 1 .. h
    BY <1>3, <1>4, <1>6, <2>1
  <2>2. CASE k \notin 1 .. h
    <3>. DEFINE j == k - h
    <3>1. j \in 1 .. m /\ k = h + j
      BY <1>5, <2>2, SMT
    <3>. HIDE DEF j
    <3>2. Request(b)[h + j] = b[j] /\ Request(a)[h + j] = a[j] /\ a[j] = b[j]
      BY <1>1, <1>3, <1>4, <3>1
    <3>. QED
      BY <1>6, <3>1, <3>2
  <2>. QED
    BY <2>1, <2>2
<1>8. u = Request(a)
  BY <1>4, <1>6, <1>7, SameTokens
<1>. QED
  BY <1>1, <1>3, <1>5, <1>8 DEF u, h, a

-----------------------------------------------------------------------------
(* The turns of the loop over a request                                    *)

(* The end of an end of a string.                                          *)
LEMMA SuffixOfSuffix ==
  ASSUME NEW s \in Seq(Tokens), NEW a \in Nat, NEW b \in Nat, a >= 1, b >= 1,
         a + b <= Len(s) + 2
  PROVE  LET u == SubSeq(s, a, Len(s))
         IN  SubSeq(u, b, Len(u)) = SubSeq(s, a + b - 1, Len(s))
<1>. DEFINE u == SubSeq(s, a, Len(s))
            v == SubSeq(u, b, Len(u))
            w == SubSeq(s, a + b - 1, Len(s))
<1>1. Len(s) \in Nat /\ a <= Len(s) + 1
  BY SMT
<1>2. /\ u \in Seq(Tokens) /\ Len(u) = Len(s) - a + 1
      /\ \A i \in 1 .. (Len(s) - a + 1) : u[i] = s[a + i - 1]
  BY <1>1, SMT
<1>. HIDE DEF u
<1>3. /\ v \in Seq(Tokens) /\ Len(v) = Len(s) - a + 1 - b + 1
      /\ \A i \in 1 .. (Len(s) - a + 1 - b + 1) : v[i] = u[b + i - 1]
  <2>1. Len(u) \in Nat /\ b - 1 <= Len(u)
    BY <1>1, <1>2, SMT
  <2>2. v \in Seq(Tokens)
    BY <1>2, <2>1, SMT
  <2>3. Len(v) = Len(u) - b + 1
    <3>1. Len(v) = IF b <= Len(u) THEN Len(u) - b + 1 ELSE 0
      BY <1>2, <2>1, PartFacts, SMT
    <3>. HIDE DEF v
    <3>. QED
      BY <2>1, <3>1, SMT
  <2>4. \A i \in 1 .. (Len(u) - b + 1) : v[i] = u[b + i - 1]
    BY <1>2, <2>1, SMT
  <2>. HIDE DEF v
  <2>5. Len(u) - b + 1 = Len(s) - a + 1 - b + 1
    BY <1>1, <1>2, SMT
  <2>. QED
    BY <2>2, <2>3, <2>4, <2>5
<1>4. /\ w \in Seq(Tokens) /\ Len(w) = Len(s) - a + 1 - b + 1
      /\ \A i \in 1 .. (Len(s) - a + 1 - b + 1) : w[i] = s[a + b - 1 + i - 1]
  <2>. DEFINE c == a + b - 1
  <2>1. /\ c \in Nat /\ c >= 1 /\ Len(s) \in Nat /\ Len(s) <= Len(s) /\ c <= Len(s) + 1
        /\ Len(s) - c + 1 = Len(s) - a + 1 - b + 1
    BY <1>1, SMT
  <2>. HIDE DEF c
  <2>. DEFINE x == SubSeq(s, c, Len(s))
  <2>2. /\ x \in Seq(Tokens)
        /\ Len(x) = IF c <= Len(s) THEN Len(s) - c + 1 ELSE 0
        /\ \A i \in DOMAIN x : x[i] = s[c + i - 1]
    BY <2>1, PartFacts, SMTT(30)
  <2>. HIDE DEF x
  <2>3. Len(x) = Len(s) - a + 1 - b + 1 /\ DOMAIN x = 1 .. Len(x)
    <3>1. Len(x) = Len(s) - c + 1
      BY <2>1, <2>2, SMT
    <3>2. DOMAIN x = 1 .. Len(x)
      BY <2>2, SMT
    <3>. QED
      BY <2>1, <3>1, <3>2
  <2>4. w = x
    BY DEF x, c
  <2>. HIDE DEF w
  <2>. QED
    BY <2>2, <2>3, <2>4 DEF c
<1>. HIDE DEF v, w
<1>5. ASSUME NEW i \in 1 .. (Len(s) - a + 1 - b + 1) PROVE v[i] = w[i]
  <2>1. /\ b + i - 1 \in 1 .. (Len(s) - a + 1)
        /\ a + (b + i - 1) - 1 = a + b - 1 + i - 1
    BY <1>1, SMT
  <2>. QED
    BY <1>2, <1>3, <1>4, <2>1
<1>6. v = w
  BY <1>3, <1>4, <1>5, SameTokens
<1>. QED
  BY <1>6 DEF u, v, w

(* A turn on a line of one text: a header or a method goes on with the     *)
(* rest, and CONTENT_LENGHT sets the length; anything else ends the loop.  *)
LEMMA ParseLineText ==
  ASSUME NEW p \in ParserStates, ~ p.done, Len(p.rest) >= 3,
         p.rest[1].kind # "cr", p.rest[2].kind = "cr", p.rest[3].kind = "lf"
  PROVE  LET q == ParseLine(p)
             h == p.rest[1]
         IN  /\ h.kind \in {"req", "hdr", "len"} =>
                  /\ q.done = FALSE /\ q.throws = p.throws
                  /\ q.rest = SubSeq(p.rest, 4, Len(p.rest))
                  /\ q.length = IF h.kind = "len" THEN h.value ELSE p.length
             /\ h.kind \notin {"req", "hdr", "len"} => q.done /\ q.throws = FALSE
<1>. DEFINE s    == p.rest
            pos  == FindCRLF(s)
            line == SubSeq(s, 1, pos - 1)
            rest == SubSeq(s, pos + 2, Len(s))
            q    == ParseLine(p)
            h    == s[1]
<1>1. /\ s \in Seq(Tokens) /\ p.length \in Int /\ p.content \in Nat
      /\ p.throws \in BOOLEAN /\ p.done = FALSE
  BY DEF ParserStates
<1>2. Len(s) \in Nat /\ Len(s) >= 3 /\ s[1].kind # "cr" /\ s[2].kind = "cr" /\ s[3].kind = "lf"
  BY <1>1, SMT
<1>. HIDE DEF s
<1>3. pos = 2
  <2>1. \/ /\ pos = 0
           /\ \A i \in 1 .. (Len(s) - 1) : ~ (s[i].kind = "cr" /\ s[i + 1].kind = "lf")
        \/ /\ pos \in 1 .. (Len(s) - 1)
           /\ s[pos].kind = "cr" /\ s[pos + 1].kind = "lf"
           /\ \A i \in 1 .. (pos - 1) : ~ (s[i].kind = "cr" /\ s[i + 1].kind = "lf")
    BY <1>1, FindCRLFFirst
  <2>. HIDE DEF pos
  <2>2. 2 \in 1 .. (Len(s) - 1) /\ s[2 + 1].kind = "lf"
    BY <1>2, SMT
  <2>3. pos # 0 /\ pos # 1
    BY <1>2, <2>1, <2>2, SMT
  <2>4. ~ (pos > 2)
    <3>1. SUFFICES ASSUME pos > 2 PROVE FALSE
      OBVIOUS
    <3>2. 2 \in 1 .. (pos - 1)
      BY <2>1, <2>3, <3>1, SMT
    <3>. QED
      BY <1>2, <2>1, <2>2, <2>3, <3>2
  <2>. QED
    BY <1>2, <2>1, <2>3, <2>4, SMT
<1>4. line = <<h>> /\ rest = SubSeq(s, 4, Len(s))
  <2>1. pos - 1 = 1 /\ pos + 2 = 4
    BY <1>3, SMT
  <2>2. SubSeq(s, 1, 1) = <<s[1]>>
    <3>. DEFINE u == SubSeq(s, 1, 1)
    <3>1. u \in Seq(Tokens) /\ Len(u) = 1 /\ u[1] = s[1] /\ s[1] \in Tokens
      BY <1>1, <1>2, SMT
    <3>. HIDE DEF u
    <3>2. u = <<s[1]>>
      BY <3>1, SMT
    <3>. QED
      BY <3>2 DEF u
  <2>. HIDE DEF pos
  <2>. QED
    BY <2>1, <2>2
<1>5. line # <<>> /\ line[1] = h /\ \A K : Has(line, K) <=> h.kind \in K
  <2>1. \A K : Has(<<h>>, K) <=> h.kind \in K
    BY SMT DEF Has
  <2>. HIDE DEF line, h
  <2>. QED
    BY <1>4, <2>1
<1>6. pos # 0
  BY <1>3, SMT
<1>. HIDE DEF h
<1>7. CASE h.kind \in {"hdr", "len"}
  <2>1. Has(line, {"hdr", "len"})
    BY <1>5, <1>7
  <2>2. q = [p EXCEPT !.rest = rest,
                      !.length = IF line[1].kind = "len" THEN line[1].value ELSE @]
    BY <1>1, <1>5, <1>6, <2>1 DEF ParseLine, s
  <2>. HIDE DEF q, line, rest
  <2>3. /\ q.done = FALSE /\ q.throws = p.throws /\ q.rest = rest
        /\ q.length = IF h.kind = "len" THEN h.value ELSE p.length
    BY <1>1, <1>5, <2>2 DEF ParserStates
  <2>. QED
    BY <1>4, <1>7, <2>3 DEF q, s, h
<1>8. CASE h.kind = "req"
  <2>1. ~ Has(line, {"hdr", "len"}) /\ Has(line, {"req"})
    BY <1>5, <1>8
  <2>2. q = [p EXCEPT !.rest = rest]
    BY <1>1, <1>5, <1>6, <2>1 DEF ParseLine, s
  <2>. HIDE DEF q, line, rest
  <2>3. q.done = FALSE /\ q.throws = p.throws /\ q.rest = rest /\ q.length = p.length
    BY <1>1, <2>2 DEF ParserStates
  <2>. QED
    BY <1>4, <1>8, <2>3 DEF q, s, h
<1>9. CASE h.kind \notin {"req", "hdr", "len"}
  <2>1. ~ Has(line, {"hdr", "len"}) /\ ~ Has(line, {"req"})
    BY <1>5, <1>9
  <2>2. q = Result(rest, 0, p.length)
    BY <1>1, <1>5, <1>6, <2>1 DEF ParseLine, s
  <2>. HIDE DEF q, line, rest
  <2>3. q.done = TRUE /\ q.throws = FALSE
    BY <2>2 DEF Result
  <2>. QED
    BY <1>9, <2>3 DEF q, s, h
<1>. QED
  BY <1>7, <1>8, <1>9 DEF h, s

(* The empty line ends the loop; what follows it is the content.           *)
LEMMA ParseLineEmpty ==
  ASSUME NEW p \in ParserStates, ~ p.done, Len(p.rest) >= 2,
         p.rest[1].kind = "cr", p.rest[2].kind = "lf"
  PROVE  LET q == ParseLine(p)
         IN  /\ q.done /\ q.throws = FALSE /\ q.length = p.length
             /\ q.content = Size(SubSeq(p.rest, 3, Len(p.rest)))
<1>. DEFINE s    == p.rest
            pos  == FindCRLF(s)
            line == SubSeq(s, 1, pos - 1)
            rest == SubSeq(s, pos + 2, Len(s))
            q    == ParseLine(p)
<1>1. /\ s \in Seq(Tokens) /\ p.done = FALSE
      /\ Len(s) \in Nat /\ Len(s) >= 2 /\ s[1].kind = "cr" /\ s[2].kind = "lf"
  BY SMT DEF ParserStates
<1>. HIDE DEF s
<1>2. pos = 1
  <2>1. \/ /\ pos = 0
           /\ \A i \in 1 .. (Len(s) - 1) : ~ (s[i].kind = "cr" /\ s[i + 1].kind = "lf")
        \/ /\ pos \in 1 .. (Len(s) - 1)
           /\ s[pos].kind = "cr" /\ s[pos + 1].kind = "lf"
           /\ \A i \in 1 .. (pos - 1) : ~ (s[i].kind = "cr" /\ s[i + 1].kind = "lf")
    BY <1>1, FindCRLFFirst
  <2>. HIDE DEF pos
  <2>2. 1 \in 1 .. (Len(s) - 1) /\ s[1 + 1].kind = "lf"
    BY <1>1, SMT
  <2>3. pos # 0
    BY <1>1, <2>1, <2>2, SMT
  <2>4. ~ (pos > 1)
    <3>1. SUFFICES ASSUME pos > 1 PROVE FALSE
      OBVIOUS
    <3>2. 1 \in 1 .. (pos - 1)
      BY <2>1, <2>3, <3>1, SMT
    <3>. QED
      BY <1>1, <2>1, <2>2, <2>3, <3>2
  <2>. QED
    BY <1>1, <2>1, <2>3, <2>4, SMT
<1>3. line = <<>> /\ rest = SubSeq(s, 3, Len(s))
  <2>1. pos - 1 = 0 /\ pos + 2 = 3
    BY <1>2, SMT
  <2>2. SubSeq(s, 1, 0) = <<>>
    BY <1>1, SMT
  <2>. HIDE DEF pos
  <2>. QED
    BY <2>1, <2>2
<1>4. q = Result(<<>>, Size(rest), p.length)
  BY <1>1, <1>2, <1>3 DEF ParseLine, s
<1>. HIDE DEF q, rest
<1>5. q.done = TRUE /\ q.throws = FALSE /\ q.length = p.length /\ q.content = Size(rest)
  BY <1>4 DEF Result
<1>. QED
  BY <1>3, <1>5 DEF q, s

(* Once the loop has ended its result stays.                               *)
LEMMA LoopDone ==
  ASSUME NEW s \in Seq(Tokens), NEW length \in Int, NEW n \in Nat, NEW f, IsLoop(f, s, length, n),
         NEW k \in 0 .. n, f[k].done
  PROVE  f[n] = f[k]
<1>. DEFINE S == {m \in Nat : k + m <= n => f[k + m] = f[k]}
<1>1. \A m \in Nat : m < n => f[m + 1] = ParseLine(f[m])
  BY LoopTurns, SMT
<1>2. 0 \in S
  <2>1. k + 0 = k
    BY SMT
  <2>. QED
    BY <2>1
<1>3. ASSUME NEW m \in Nat, m \in S PROVE m + 1 \in S
  <2>. SUFFICES ASSUME k + (m + 1) <= n PROVE f[k + (m + 1)] = f[k]
    BY SMT
  <2>. DEFINE j == k + m
  <2>1. j \in Nat /\ j < n /\ j <= n /\ k + (m + 1) = j + 1
    BY SMT
  <2>2. f[j] = f[k]
    BY <1>3, <2>1
  <2>. HIDE DEF j
  <2>3. f[j + 1] = f[j]
    BY <1>1, <2>1, <2>2, ParseLineDone
  <2>. QED
    BY <2>1, <2>2, <2>3
<1>. HIDE DEF S
<1>4. Nat \subseteq S
  BY <1>2, <1>3, SetInduction
<1>. DEFINE d == n - k
<1>5. d \in Nat /\ k + d = n /\ n <= n
  BY SMT
<1>6. d \in S
  BY <1>4, <1>5
<1>. HIDE DEF d
<1>. QED
  BY <1>5, <1>6 DEF S

(* The length the first m headers declare.                                 *)
LengthLines(m) == {i \in 1 .. m : headers[i].kind = "len"}
LastValue(T) ==
  IF T = {} THEN 0 ELSE headers[CHOOSE i \in T : \A j \in T : j <= i].value
DeclaredBy(m) == LastValue(LengthLines(m))

(* One header more replaces the length if it is a CONTENT_LENGHT.          *)
LEMMA DeclaredStep ==
  ASSUME NEW m \in Nat, headers \in Seq(HeaderLines), m + 1 <= Len(headers)
  PROVE  DeclaredBy(m + 1) =
           IF headers[m + 1].kind = "len" THEN headers[m + 1].value ELSE DeclaredBy(m)
<1>1. CASE headers[m + 1].kind = "len"
  <2>1. m + 1 \in LengthLines(m + 1) /\ \A j \in LengthLines(m + 1) : j \in Nat /\ j <= m + 1
    BY <1>1, SMT DEF LengthLines
  <2>2. \A i \in LengthLines(m + 1) : (\A j \in LengthLines(m + 1) : j <= i) => i = m + 1
    BY <2>1, SMT
  <2>. DEFINE c == CHOOSE i \in LengthLines(m + 1) : \A j \in LengthLines(m + 1) : j <= i
  <2>3. c = m + 1
    BY <2>1, <2>2
  <2>. QED
    BY <1>1, <2>1, <2>3 DEF DeclaredBy, LastValue
<1>2. CASE headers[m + 1].kind # "len"
  <2>1. LengthLines(m + 1) = LengthLines(m)
    <3>1. \A i : i \in 1 .. (m + 1) <=> i \in 1 .. m \/ i = m + 1
      BY SMT
    <3>. QED
      BY <1>2, <3>1, Zenon DEF LengthLines
  <2>. QED
    BY <1>2, <2>1 DEF DeclaredBy
<1>. QED
  BY <1>1, <1>2

(* With the last header the length declared so far is the declared one.    *)
LEMMA DeclaredAll ==
  ASSUME headers \in Seq(HeaderLines)
  PROVE  Declared = DeclaredBy(Len(headers))
<1>1. DOMAIN headers = 1 .. Len(headers)
  BY SMT
<1>2. LengthLines(Len(headers)) = {i \in DOMAIN headers : headers[i].kind = "len"}
  BY <1>1 DEF LengthLines
<1>3. Declared = LastValue({i \in DOMAIN headers : headers[i].kind = "len"})
  BY Zenon DEF Declared, LastValue
<1>. QED
  BY <1>2, <1>3 DEF DeclaredBy

(* The loop over a request reads it line by line: after k turns it has met *)
(* a bad header, or it is at line k + 1 with the length declared so far.   *)
LEMMA ParseHeaders ==
  ASSUME headers \in Seq(HeaderLines), NEW b \in Seq(BodyTokens),
         NEW N \in Nat, NEW f, IsLoop(f, Request(b), 0, N), N >= Len(headers) + 1,
         NEW k \in 0 .. (Len(headers) + 1)
  PROVE  /\ f[k] \in ParserStates
         /\ f[k].throws = FALSE
         /\ f[k].done => ~ WellFormed
         /\ ~ f[k].done => /\ f[k].rest = SubSeq(Request(b), 3 * k + 1, Len(Request(b)))
                           /\ f[k].length = DeclaredBy(k - 1)
<1>. DEFINE n == Len(headers) + 1
            M == Request(b)
            Good(m) ==
              /\ f[m].throws = FALSE
              /\ f[m].done => ~ WellFormed
              /\ ~ f[m].done => /\ f[m].rest = SubSeq(M, 3 * m + 1, Len(M))
                                /\ f[m].length = DeclaredBy(m - 1)
            S == {m \in Nat : m <= n => Good(m)}
<1>1. /\ M \in Seq(Tokens) /\ Len(M) = 3 * n + 2 + Len(b)
      /\ \A i \in 0 .. (n - 1) :
            /\ M[3 * i + 1] = IF i = 0 THEN RequestLine ELSE headers[i]
            /\ M[3 * i + 2] = Token("cr")
            /\ M[3 * i + 3] = Token("lf")
  BY MessageShape
<1>2. n \in Nat /\ n >= 1 /\ n <= N /\ n = Len(headers) + 1
  BY SMT
<1>. HIDE DEF n, M
<1>3. /\ f[0] = Start(M, 0)
      /\ \A m \in Nat : m < N => f[m + 1] = ParseLine(f[m])
  BY <1>1, LoopTurns, SMT DEF M
<1>4. \A m \in 0 .. N : f[m] \in ParserStates
  <2>1. IsLoop(f, M, 0, N) /\ 0 \in Int
    BY SMT DEF M
  <2>. QED
    BY <1>1, <2>1, LoopInvariant
<1>5. 0 \in S
  <2>1. LengthLines(0 - 1) = {}
    BY SMT DEF LengthLines
  <2>2. DeclaredBy(0 - 1) = 0
    BY <2>1 DEF DeclaredBy, LastValue
  <2>3. SubSeq(M, 3 * 0 + 1, Len(M)) = M
    <3>1. 3 * 0 + 1 = 1
      BY SMT
    <3>2. SubSeq(M, 1, Len(M)) = M
      BY <1>1, SMT
    <3>. QED
      BY <3>1, <3>2
  <2>4. f[0].throws = FALSE /\ f[0].done = FALSE /\ f[0].rest = M /\ f[0].length = 0
    BY <1>3, SMT DEF Start
  <2>. QED
    BY <2>2, <2>3, <2>4
<1>6. ASSUME NEW m \in Nat, m \in S PROVE m + 1 \in S
  <2>0. m + 1 \in Nat
    BY SMT
  <2>. HIDE DEF Good
  <2>. SUFFICES ASSUME m + 1 <= n PROVE Good(m + 1)
    BY <2>0
  <2>. USE DEF Good
  <2>. DEFINE p == f[m]
  <2>1. m \in 0 .. N /\ m < N /\ m \in 0 .. (n - 1) /\ m <= n
    BY <1>2, SMT
  <2>2. /\ p.throws = FALSE
        /\ p.done => ~ WellFormed
        /\ ~ p.done => /\ p.rest = SubSeq(M, 3 * m + 1, Len(M))
                       /\ p.length = DeclaredBy(m - 1)
    BY <1>6, <2>1
  <2>3. f[m + 1] = ParseLine(p) /\ p \in ParserStates
    BY <1>3, <1>4, <2>1
  <2>. HIDE DEF p
  <2>4. CASE p.done
    <3>1. f[m + 1] = p
      BY <2>3, <2>4, ParseLineDone
    <3>. QED
      BY <2>2, <2>4, <3>1
  <2>5. CASE ~ p.done
    <3>. DEFINE h == IF m = 0 THEN RequestLine ELSE headers[m]
    <3>1. Len(M) \in Nat /\ 3 * m + 3 <= Len(M)
      BY <1>1, <1>2, <2>1, SMT
    <3>2. /\ Len(p.rest) = Len(M) - (3 * m + 1) + 1
          /\ \A i \in 1 .. (Len(M) - (3 * m + 1) + 1) : p.rest[i] = M[3 * m + 1 + i - 1]
      <4>. DEFINE u == SubSeq(M, 3 * m + 1, Len(M))
      <4>1. 3 * m + 1 \in Nat /\ 3 * m + 1 >= 1 /\ 3 * m + 1 <= Len(M) /\ Len(M) <= Len(M)
        BY <3>1, SMT
      <4>2. /\ u \in Seq(Tokens)
            /\ Len(u) = IF 3 * m + 1 <= Len(M) THEN Len(M) - (3 * m + 1) + 1 ELSE 0
            /\ \A i \in DOMAIN u : u[i] = M[3 * m + 1 + i - 1]
        BY <1>1, <3>1, <4>1, PartFacts
      <4>. HIDE DEF u
      <4>3. DOMAIN u = 1 .. (Len(M) - (3 * m + 1) + 1)
        BY <4>1, <4>2, SMT
      <4>4. p.rest = u
        BY <2>2, <2>5 DEF u
      <4>. QED
        BY <4>1, <4>2, <4>3, <4>4
    <3>3. Len(p.rest) >= 3 /\ p.rest[1] = h /\ p.rest[2] = Token("cr") /\ p.rest[3] = Token("lf")
      <4>1. 1 \in 1 .. (Len(M) - (3 * m + 1) + 1) /\ 2 \in 1 .. (Len(M) - (3 * m + 1) + 1)
            /\ 3 \in 1 .. (Len(M) - (3 * m + 1) + 1)
        BY <3>1, SMT
      <4>2. 3 * m + 1 + 1 - 1 = 3 * m + 1 /\ 3 * m + 1 + 2 - 1 = 3 * m + 2
            /\ 3 * m + 1 + 3 - 1 = 3 * m + 3
        BY SMT
      <4>3. p.rest[1] = M[3 * m + 1] /\ p.rest[2] = M[3 * m + 2] /\ p.rest[3] = M[3 * m + 3]
        BY <3>2, <4>1, <4>2
      <4>4. M[3 * m + 1] = h /\ M[3 * m + 2] = Token("cr") /\ M[3 * m + 3] = Token("lf")
        BY <1>1, <2>1
      <4>. QED
        BY <3>1, <3>2, <4>3, <4>4, SMT
    <3>4. m # 0 => headers[m] \in HeaderLines /\ m \in DOMAIN headers
      BY <1>2, <2>1, SMT
    <3>5. /\ h.kind \in {"req", "hdr", "len", "bad"}
          /\ h.kind = "bad" => m # 0 /\ ~ WellFormed
          /\ m = 0 => h.kind = "req"
      <4>1. CASE m = 0
        BY <4>1, KindsSent, SMT
      <4>2. CASE m # 0
        <5>1. h.kind \in {"hdr", "len", "bad"} /\ h = headers[m]
          BY <3>4, <4>2, KindsSent
        <5>2. h.kind = "bad" => ~ WellFormed
          BY <3>4, <4>2, <5>1 DEF WellFormed
        <5>. HIDE DEF h
        <5>. QED
          BY <4>2, <5>1, <5>2
      <4>. QED
        BY <4>1, <4>2
    <3>6. h.kind # "cr" /\ p.rest[2].kind = "cr" /\ p.rest[3].kind = "lf"
      <4>1. \A kind \in {"req", "hdr", "len", "bad"} : kind # "cr"
        OBVIOUS
      <4>2. Token("cr").kind = "cr" /\ Token("lf").kind = "lf"
        BY SMTT(30) DEF Token
      <4>. HIDE DEF h
      <4>. QED
        BY <3>3, <3>5, <4>1, <4>2
    <3>7. /\ h.kind \in {"req", "hdr", "len"} =>
               /\ f[m + 1].done = FALSE /\ f[m + 1].throws = p.throws
               /\ f[m + 1].rest = SubSeq(p.rest, 4, Len(p.rest))
               /\ f[m + 1].length = IF h.kind = "len" THEN h.value ELSE p.length
          /\ h.kind \notin {"req", "hdr", "len"} => f[m + 1].done /\ f[m + 1].throws = FALSE
      <4>. HIDE DEF h
      <4>. QED
        BY <2>3, <2>5, <3>3, <3>6, ParseLineText
    <3>8. CASE h.kind = "bad"
      <4>1. f[m + 1].done /\ f[m + 1].throws = FALSE
        BY <3>7, <3>8
      <4>. QED
        BY <3>5, <3>8, <4>1
    <3>9. CASE h.kind # "bad"
      <4>1. h.kind \in {"req", "hdr", "len"}
        BY <3>5, <3>9
      <4>2. SubSeq(p.rest, 4, Len(p.rest)) = SubSeq(M, 3 * m + 1 + 4 - 1, Len(M))
        <5>1. 3 * m + 1 \in Nat /\ 3 * m + 1 >= 1 /\ 4 >= 1 /\ 3 * m + 1 + 4 <= Len(M) + 2
          BY <3>1, SMT
        <5>. DEFINE u == SubSeq(M, 3 * m + 1, Len(M))
        <5>2. SubSeq(u, 4, Len(u)) = SubSeq(M, 3 * m + 1 + 4 - 1, Len(M))
          BY <1>1, <5>1, SuffixOfSuffix
        <5>3. p.rest = u
          BY <2>2, <2>5
        <5>. HIDE DEF u
        <5>. QED
          BY <5>2, <5>3
      <4>3. 3 * m + 1 + 4 - 1 = 3 * (m + 1) + 1 /\ (m + 1) - 1 = m
        BY SMT
      <4>4. (IF h.kind = "len" THEN h.value ELSE p.length) = DeclaredBy(m)
        <5>1. CASE m = 0
          <6>1. LengthLines(m) = {} /\ LengthLines(m - 1) = {}
            BY <5>1, SMT DEF LengthLines
          <6>2. p.length = 0 /\ h.kind = "req"
            BY <2>2, <2>5, <3>5, <5>1, <6>1 DEF DeclaredBy, LastValue
          <6>. QED
            BY <6>1, <6>2 DEF DeclaredBy, LastValue
        <5>2. CASE m # 0
          <6>. DEFINE j == m - 1
          <6>1. j \in Nat /\ j + 1 = m /\ j + 1 <= Len(headers)
            BY <1>2, <2>1, <5>2, SMT
          <6>. HIDE DEF j
          <6>2. DeclaredBy(j + 1) =
                  IF headers[j + 1].kind = "len" THEN headers[j + 1].value ELSE DeclaredBy(j)
            BY <6>1, DeclaredStep
          <6>3. p.length = DeclaredBy(j)
            BY <2>2, <2>5 DEF j
          <6>4. h = headers[m]
            BY <5>2
          <6>. HIDE DEF h
          <6>. QED
            BY <6>1, <6>2, <6>3, <6>4
        <5>. QED
          BY <5>1, <5>2
      <4>5. /\ f[m + 1].done = FALSE /\ f[m + 1].throws = FALSE
            /\ f[m + 1].rest = SubSeq(M, 3 * (m + 1) + 1, Len(M))
            /\ f[m + 1].length = DeclaredBy((m + 1) - 1)
        <5>. HIDE DEF h
        <5>. QED
          BY <2>2, <3>7, <4>1, <4>2, <4>3, <4>4
      <4>. QED
        BY <4>5
    <3>. QED
      BY <3>8, <3>9
  <2>. QED
    BY <2>4, <2>5
<1>. HIDE DEF S
<1>7. Nat \subseteq S
  BY <1>5, <1>6, SetInduction
<1>8. k \in Nat /\ k <= n /\ k \in 0 .. N
  BY <1>2, SMT DEF n
<1>9. Good(k)
  BY <1>7, <1>8 DEF S
<1>. QED
  BY <1>4, <1>8, <1>9 DEF M

(* A request given to the parser as a whole: no exception, and of a        *)
(* well-formed one the content is the body and the length the declared one.*)
LEMMA ParseMessage ==
  ASSUME headers \in Seq(HeaderLines), NEW b \in Seq(BodyTokens)
  PROVE  LET r == ParseRequest(Request(b))
         IN  /\ r.throws = FALSE
             /\ WellFormed => r.content = Size(b) /\ r.length = Declared
<1>. DEFINE n == Len(headers) + 1
            M == Request(b)
            N == Len(M) + 1
            r == ParseRequest(M)
<1>1. /\ M \in Seq(Tokens) /\ Len(M) = 3 * n + 2 + Len(b)
      /\ M[3 * n + 1] = Token("cr") /\ M[3 * n + 2] = Token("lf")
      /\ SubSeq(M, 3 * n + 3, Len(M)) = b
  BY MessageShape
<1>2. n \in Nat /\ Len(headers) = n - 1 /\ Len(b) \in Nat /\ n >= 1
  BY SMT
<1>. HIDE DEF M
<1>3. N \in Nat /\ N >= n /\ n < N /\ n + 1 \in 0 .. N /\ n \in 0 .. n /\ Len(M) \in Nat
  <2>. HIDE DEF n
  <2>. QED
    BY <1>1, <1>2, SMT
<1>4. PICK f : IsLoop(f, M, 0, N) /\ ParseLines(M, 0) = f[N]
  BY <1>1, ParseLinesLoop
<1>5. r = f[N]
  BY <1>4, Zenon DEF ParseRequest
<1>6. /\ f[n] \in ParserStates
      /\ f[n].throws = FALSE
      /\ f[n].done => ~ WellFormed
      /\ ~ f[n].done => /\ f[n].rest = SubSeq(M, 3 * n + 1, Len(M))
                        /\ f[n].length = DeclaredBy(n - 1)
  BY <1>3, <1>4, ParseHeaders DEF M
<1>7. f[n + 1] = ParseLine(f[n])
  BY <1>1, <1>3, <1>4, LoopTurns, SMT
<1>. HIDE DEF N, r
<1>8. CASE f[n].done
  <2>1. n \in 0 .. N
    BY <1>3, SMT
  <2>2. f[N] = f[n]
    BY <1>1, <1>3, <1>4, <1>8, <2>1, LoopDone, SMT
  <2>. QED
    BY <1>5, <1>6, <1>8, <2>2 DEF r, M
<1>9. CASE ~ f[n].done
  <2>. DEFINE p == f[n]
              u == SubSeq(M, 3 * n + 1, Len(M))
  <2>. HIDE DEF n
  <2>1. /\ 3 * n + 1 \in Nat /\ 3 * n + 1 >= 1 /\ 3 * n + 1 <= Len(M) /\ Len(M) <= Len(M)
        /\ 3 * n + 2 <= Len(M)
    BY <1>1, <1>2, SMT
  <2>2. /\ u \in Seq(Tokens)
        /\ Len(u) = IF 3 * n + 1 <= Len(M) THEN Len(M) - (3 * n + 1) + 1 ELSE 0
        /\ \A i \in DOMAIN u : u[i] = M[3 * n + 1 + i - 1]
    BY <1>1, <1>3, <2>1, PartFacts
  <2>3. SubSeq(u, 3, Len(u)) = SubSeq(M, 3 * n + 1 + 3 - 1, Len(M))
    <3>1. 3 >= 1 /\ 3 * n + 1 + 3 <= Len(M) + 2
      BY <1>2, <1>3, <2>1, SMT
    <3>. QED
      BY <1>1, <2>1, <3>1, SuffixOfSuffix
  <2>. HIDE DEF u
  <2>4. Len(u) >= 2 /\ DOMAIN u = 1 .. Len(u)
    BY <1>2, <1>3, <2>1, <2>2, SMT
  <2>5. u[1] = Token("cr") /\ u[2] = Token("lf")
    <3>1. 3 * n + 1 + 1 - 1 = 3 * n + 1 /\ 3 * n + 1 + 2 - 1 = 3 * n + 2
      BY <1>2, SMT
    <3>2. 1 \in DOMAIN u /\ 2 \in DOMAIN u
      BY <2>2, <2>4, SMT
    <3>. QED
      BY <1>1, <2>2, <3>1, <3>2
  <2>6. 3 * n + 1 + 3 - 1 = 3 * n + 3
    BY <1>2, SMT
  <2>7. SubSeq(u, 3, Len(u)) = b
    BY <1>1, <2>3, <2>6
  <2>8. p.rest = u /\ p.length = DeclaredBy(n - 1)
    BY <1>6, <1>9 DEF u
  <2>9. u[1].kind = "cr" /\ u[2].kind = "lf"
    BY <2>5, SMT DEF Token
  <2>. HIDE DEF p
  <2>10. /\ f[n + 1].done /\ f[n + 1].throws = FALSE /\ f[n + 1].length = p.length
         /\ f[n + 1].content = Size(SubSeq(p.rest, 3, Len(p.rest)))
    BY <1>6, <1>7, <1>9, <2>4, <2>8, <2>9, ParseLineEmpty DEF p
  <2>11. f[N] = f[n + 1]
    <3>. DEFINE j == n + 1
    <3>1. j \in 0 .. N /\ N \in Nat /\ 0 \in Int
      BY <1>3, SMT
    <3>2. f[j].done
      BY <2>10
    <3>. HIDE DEF j
    <3>3. f[N] = f[j]
      BY <1>1, <1>4, <3>1, <3>2, LoopDone
    <3>. QED
      BY <3>3 DEF j
  <2>12. DeclaredBy(n - 1) = Declared
    BY <1>2, DeclaredAll
  <2>. QED
    BY <1>5, <2>7, <2>8, <2>10, <2>11, <2>12 DEF r, M
<1>. QED
  BY <1>8, <1>9

-----------------------------------------------------------------------------
(* The specification                                                       *)

(* What every state satisfies: the first segment meets an empty handler,   *)
(* so if it has all of the header the parser has seen exactly that and a   *)
(* part of the body.                                                       *)
HttpInv ==
  /\ headers \in Seq(HeaderLines) /\ body \in Seq(BodyTokens)
  /\ sent \in Nat /\ sent <= Len(Message) /\ segments \in Nat
  /\ requestStr \in Seq(Tokens)
  /\ segments = 0 => sent = 0 /\ requestStr = <<>> /\ up
  /\ segments = 1 /\ sent >= HeaderEnd =>
       LET r == ParseRequest(Request(Arrived))
       IN  up /\ answer = Verdict(r.content, r.length)

(* A request of any size is sent, nothing has arrived.                     *)
LEMMA HttpInit == Init => HttpInv
<1>. SUFFICES ASSUME Init PROVE HttpInv
  OBVIOUS
<1>1. PICK n \in 0 .. MaxHeaders : headers \in [1 .. n -> HeaderLines]
  BY DEF Init
<1>2. PICK m \in 0 .. MaxBody : body \in [1 .. m -> BodyTokens]
  BY DEF Init, BodyTokens
<1>3. sent = 0 /\ segments = 0 /\ requestStr = <<>> /\ answer = "none" /\ up
  BY DEF Init
<1>4. headers \in Seq(HeaderLines) /\ body \in Seq(BodyTokens)
  <2>1. \A k \in Nat : [1 .. k -> HeaderLines] \subseteq Seq(HeaderLines)
    BY SMT
  <2>2. \A k \in Nat : [1 .. k -> BodyTokens] \subseteq Seq(BodyTokens)
    BY SMT
  <2>3. n \in Nat /\ m \in Nat
    BY RequestAssumption, SMT
  <2>. QED
    BY <1>1, <1>2, <2>1, <2>2, <2>3
<1>5. 0 <= Len(Message) /\ <<>> \in Seq(Tokens)
  <2>1. Message \in Seq(Tokens)
    BY <1>4, MessageShape DEF Message
  <2>. QED
    BY <2>1, SMT
<1>. QED
  BY <1>3, <1>4, <1>5, SMT DEF HttpInv

(* A segment keeps the invariant.                                          *)
LEMMA HttpNext == HttpInv /\ [Next]_vars => HttpInv'
<1>. SUFFICES ASSUME HttpInv, [Next]_vars PROVE HttpInv'
  OBVIOUS
<1>1. CASE UNCHANGED vars
  <2>1. UNCHANGED <<headers, body, sent, segments, requestStr, answer, up>>
    BY <1>1 DEF vars
  <2>2. Message' = Message /\ HeaderEnd' = HeaderEnd /\ Request(Arrived)' = Request(Arrived)
    BY <2>1 DEF Message, Request, Header, Lines, HeaderEnd, Arrived
  <2>. QED
    BY <2>1, <2>2 DEF HttpInv
<1>2. CASE Next
  <2>1. PICK n \in 1 .. Len(Message) : CheckData(n)
    BY <1>2 DEF Next
  <2>. DEFINE request == SubSeq(Message, sent + 1, sent + n)
              input   == requestStr \o request
              r       == ParseRequest(input)
  <2>2. /\ up /\ sent + n <= Len(Message)
        /\ sent' = sent + n
        /\ segments' = segments + 1
        /\ IF r.throws
           THEN up' = FALSE /\ UNCHANGED <<requestStr, answer>>
           ELSE /\ answer' = Verdict(r.content, r.length)
                /\ requestStr' = IF answer' = "DATA_DEF" THEN r.rest ELSE <<>>
                /\ UNCHANGED up
        /\ UNCHANGED <<headers, body>>
    BY <2>1, Zenon DEF CheckData
  <2>3. /\ headers \in Seq(HeaderLines) /\ body \in Seq(BodyTokens)
        /\ sent \in Nat /\ segments \in Nat /\ requestStr \in Seq(Tokens)
        /\ segments = 0 => sent = 0 /\ requestStr = <<>> /\ up
    BY DEF HttpInv
  <2>4. Message \in Seq(Tokens) /\ Len(Message) \in Nat /\ n \in Nat
    <3>1. Message \in Seq(Tokens)
      BY <2>3, MessageShape DEF Message
    <3>. QED
      BY <3>1, SMT
  <2>5. Message' = Message /\ HeaderEnd' = HeaderEnd
    BY <2>2 DEF Message, Request, Header, Lines, HeaderEnd
  <2>6. request \in Seq(Tokens)
    BY <2>2, <2>3, <2>4, SMT
  <2>. HIDE DEF request
  <2>7. input \in Seq(Tokens)
    BY <2>3, <2>6, SMT
  <2>. HIDE DEF input
  <2>8. r \in ParserStates
    BY <2>7, ParseRequestFacts
  <2>. HIDE DEF r
  <2>9. requestStr' \in Seq(Tokens)
    <3>1. <<>> \in Seq(Tokens) /\ r.rest \in Seq(Tokens)
      BY <2>8, SMT DEF ParserStates
    <3>. QED
      BY <2>2, <2>3, <3>1
  <2>10. segments' # 0 /\ sent' \in Nat /\ segments' \in Nat /\ sent' <= Len(Message')
    BY <2>2, <2>3, <2>4, <2>5, SMT
  <2>11. ASSUME segments' = 1, sent' >= HeaderEnd'
         PROVE  LET q == ParseRequest(Request(Arrived))'
                IN  up' /\ answer' = Verdict(q.content, q.length)
    <3>1. segments = 0 /\ sent = 0 /\ requestStr = <<>> /\ n = sent' /\ n >= HeaderEnd
      BY <2>2, <2>3, <2>4, <2>5, <2>11, SMT
    <3>. DEFINE m == n - HeaderEnd
                part == SubSeq(body, 1, m)
    <3>2. HeaderEnd \in Nat /\ Len(Message) = HeaderEnd + Len(body)
      <4>1. 0 \in 0 .. Len(body)
        BY <2>3, SMT
      <4>. QED
        BY <2>3, <4>1, FirstTokens DEF Message
    <3>3. m \in 0 .. Len(body) /\ HeaderEnd + m = n
      BY <2>2, <2>3, <2>4, <3>1, <3>2, SMT
    <3>4. Request(Arrived)' = Request(part)
      BY <2>2, <2>5, <3>1 DEF Request, Header, Lines, Arrived
    <3>. HIDE DEF m
    <3>5. part \in Seq(BodyTokens) /\ SubSeq(Message, 1, n) = Request(part)
      BY <2>3, <3>3, FirstTokens DEF Message
    <3>. HIDE DEF part
    <3>6. input = Request(part)
      <4>1. sent + 1 = 1 /\ sent + n = n
        <5>1. 0 + 1 = 1 /\ \A x \in Nat : 0 + x = x
          BY SMT
        <5>. QED
          BY <2>4, <3>1, <5>1
      <4>2. request = Request(part)
        BY <3>5, <4>1 DEF request
      <4>. QED
        BY <2>6, <3>1, <4>2, SMT DEF input
    <3>7. r = ParseRequest(Request(part))
      BY <3>6 DEF r
    <3>8. r.throws = FALSE
      BY <2>3, <3>5, <3>7, ParseMessage
    <3>9. ParseRequest(Request(Arrived))' = r
      BY <3>4, <3>7
    <3>. QED
      BY <2>2, <3>8, <3>9
  <2>. QED
    BY <2>2, <2>3, <2>9, <2>10, <2>11 DEF HttpInv
<1>. QED
  BY <1>1, <1>2

(* The invariant holds in every reachable state.                           *)
LEMMA HttpInvariant == Spec => []HttpInv
BY HttpInit, HttpNext, PTL DEF Spec

(* A first segment with all of the header never ends the process, and a    *)
(* well-formed one is judged by the length its headers declare, whatever   *)
(* its headers, whatever its body and however much of that has arrived.    *)
THEOREM FirstSegmentCorrect == Spec => []FirstSegmentVerdict
<1>1. HttpInv => FirstSegmentVerdict
  <2>. DEFINE a == Arrived
              r == ParseRequest(Request(a))
  <2>. SUFFICES ASSUME HttpInv, segments = 1, sent >= HeaderEnd
                PROVE  /\ up
                       /\ WellFormed =>
                            /\ answer = "DATA_OK" <=> Size(a) = Declared
                            /\ answer = "DATA_ERROR" <=> Declared >= 0 /\ Size(a) > Declared
                            /\ Size(a) < Declared => answer = "DATA_DEF"
    BY DEF FirstSegmentVerdict
  <2>1. /\ headers \in Seq(HeaderLines) /\ body \in Seq(BodyTokens)
        /\ sent \in Nat /\ sent <= Len(Message)
        /\ up /\ answer = Verdict(r.content, r.length)
    BY DEF HttpInv
  <2>2. a \in Seq(BodyTokens)
    <3>1. 0 \in 0 .. Len(body)
      BY <2>1, SMT
    <3>2. HeaderEnd \in Nat /\ Len(Message) = HeaderEnd + Len(body)
      BY <2>1, <3>1, FirstTokens DEF Message
    <3>3. sent - HeaderEnd \in 0 .. Len(body)
      BY <2>1, <3>2, SMT
    <3>. QED
      BY <2>1, <3>3, FirstTokens DEF Arrived
  <2>. HIDE DEF a
  <2>3. WellFormed => r.content = Size(a) /\ r.length = Declared
    BY <2>1, <2>2, ParseMessage
  <2>4. Size(a) \in Nat
    <3>1. a \in Seq(Tokens)
      BY <2>2, TokenTypes, SMT
    <3>. QED
      BY <3>1, SizeType
  <2>5. r.length \in Int
    <3>1. Request(a) \in Seq(Tokens)
      BY <2>1, <2>2, MessageShape
    <3>. QED
      BY <3>1, ParseRequestFacts DEF ParserStates
  <2>. HIDE DEF r
  <2>. QED
    BY <2>1, <2>3, <2>4, <2>5, SMT DEF Verdict
<1>. QED
  BY <1>1, HttpInvariant, PTL

(* The while loop of parse_line_data_type ends on every text, with at most *)
(* one turn more than the text has tokens.                                 *)
THEOREM ParserTerminates ==
  ASSUME NEW s \in Seq(Tokens)
  PROVE  ParseRequest(s).done
BY ParseRequestFacts
=============================================================================
