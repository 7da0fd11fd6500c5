------------------------------ MODULE Configer -------------------------------
(***************************************************************************)
(* CConfiger::OnInit reads server.conf, which exists, line by line.  A     *)
(* line is a record: its head (what is left of "=", or the kind of line),  *)
(* the tokens right of "=" (the separator "&", and the texts between       *)
(* separators), and whether it is too long for the buffer of ReadLine.     *)
(***************************************************************************)
EXTENDS Integers, Sequences, FiniteSets

CONSTANTS
  Files,     \* files to be read, as sequences of lines
  Numerals,  \* the texts that begin with a number, with its value
  CfgZones   \* zone codes that occur; -1 and 0 among them

Heads    == {"threads", "insert_wait", "insert_max_count", "enable_record", "enable_ssl",
             "source", "#", "blank", "plain"}
LineType == [head : Heads, text : Seq(STRING), long : BOOLEAN]

ASSUME FilesAssumption == Files \subseteq Seq(LineType)

ASSUME TokensAssumption ==
  \A f \in Files : \A n \in DOMAIN f :
    \A i \in 1 .. (Len(f[n].text) - 1) : "&" \in {f[n].text[i], f[n].text[i + 1]}

VARIABLES
  file,      \* the file
  pos,       \* lines consumed by getline()
  fail,      \* failbit of the stream
  iCount,    \* consecutive blank lines
  cfgState,  \* "read", "true" or "false": OnInit and its result
  m_perf,    \* the performance items: m_threads, m_isEnablessl, ...
  m_configRedisMap, m_configMysqlMap  \* zone -> number of its line, 0 if there is none

cfgVars == <<file, pos, fail, iCount, cfgState, m_perf, m_configRedisMap, m_configMysqlMap>>

Switches == {"enable_record", "enable_ssl"}

Defaults ==
  [threads |-> 10, insert_wait |-> 100, insert_max_count |-> 100,
   enable_record |-> FALSE, enable_ssl |-> FALSE]

ConfigInit ==
  /\ file \in Files /\ pos = 0 /\ fail = FALSE /\ iCount = 0 /\ cfgState = "read"
  /\ m_perf = Defaults
  /\ m_configRedisMap = [z \in CfgZones |-> 0]
  /\ m_configMysqlMap = [z \in CfgZones |-> 0]

-----------------------------------------------------------------------------
(* atoi: the number that the text begins with, 0 if it begins otherwise;   *)
(* what follows, a separator too, is not looked at.                        *)
Atoi(text) ==
  IF Len(text) > 0 /\ text[1] \in DOMAIN Numerals THEN Numerals[text[1]] ELSE 0

(* One turn of the loop of SplitString2, for the separator "&": p holds    *)
(* the fields so far and where the next one starts.                        *)
SplitTurn(s, i, p) ==
  IF s[i] = "&" /\ i = 1 THEN [p EXCEPT !.start = 2]
  ELSE IF s[i] = "&"
  THEN [vec |-> Append(p.vec, SubSeq(s, p.start, i - 1)), start |-> i + 1]
  ELSE IF i = Len(s) THEN [p EXCEPT !.vec = Append(p.vec, SubSeq(s, p.start, i))]
  ELSE p

SplitString2(s) ==
  LET Scan[i \in 0 .. Len(s)] ==
        IF i = 0 THEN [vec |-> <<>>, start |-> 1] ELSE SplitTurn(s, i, Scan[i - 1])
  IN  Scan[Len(s)].vec

(* The zone code of a data source, -1 for a Redis line without one.        *)
ZoneCode(list) == IF Len(list) > 1 THEN Atoi(list[2]) ELSE -1

(* The first line of a zone is kept: std::map::insert.                     *)
InsertInfo(map, zone, n) == IF map[zone] = 0 THEN [map EXCEPT ![zone] = n] ELSE map

IsAnno(list)  == Len(list) > 0 /\ list[1] = <<"#">>
IsMysql(list) == Len(list) > 0 /\ list[1] = <<"mysql">>
IsRedis(list) == Len(list) > 0 /\ list[1] = <<"redis">>

(* SourceDataItme accepts a comment, for which it also takes a line whose  *)
(* first field is "#", a MySQL line of seven fields or more, and any Redis *)
(* line.                                                                   *)
SourceDataItme(line, n) ==
  LET list == SplitString2(line.text)
  IN  \/ /\ line.head = "#" \/ (line.head = "source" /\ IsAnno(list))
         /\ UNCHANGED <<m_configRedisMap, m_configMysqlMap>>
      \/ /\ line.head = "source" /\ IsMysql(list) /\ Len(list) >= 7
         /\ m_configMysqlMap' = InsertInfo(m_configMysqlMap, ZoneCode(list), n)
         /\ UNCHANGED m_configRedisMap
      \/ /\ line.head = "source" /\ IsRedis(list)
         /\ m_configRedisMap' = InsertInfo(m_configRedisMap, ZoneCode(list), n)
         /\ UNCHANGED m_configMysqlMap

(* The value of a performance item.                                        *)
ItemValue(line) == IF line.head \in Switches THEN line.text = <<"true">> ELSE Atoi(line.text)

PerformanceItem(line) ==
  line.head \in DOMAIN Defaults /\ m_perf' = [m_perf EXCEPT ![line.head] = ItemValue(line)]

ParaseLine(line, n) ==
  \/ PerformanceItem(line) /\ UNCHANGED <<m_configRedisMap, m_configMysqlMap>>
  \/ SourceDataItme(line, n) /\ UNCHANGED m_perf

(* The lines for which ParaseLine returns false.                           *)
Rejected(line) ==
  LET list == SplitString2(line.text)
  IN  \/ line.head = "plain"
      \/ /\ line.head = "source"
         /\ ~IsAnno(list) /\ ~IsRedis(list) /\ ~(IsMysql(list) /\ Len(list) >= 7)

-----------------------------------------------------------------------------
(* getline() finds nothing at the end of the file, or when failbit is set. *)
Exhausted == fail \/ pos = Len(file)
Blank     == ~Exhausted => file[pos + 1].head = "blank"

(* ReadLine consumes a line; one that fills the buffer sets failbit.       *)
ReadLine ==
  /\ pos' = IF Exhausted THEN pos ELSE pos + 1
  /\ fail' = (Exhausted \/ file[pos + 1].long)

(* Mutant: text does not restart the count of blank lines.                 *)
TextLineCountsOn ==
  /\ cfgState = "read" /\ ~Blank /\ ParaseLine(file[pos + 1], pos + 1)
  /\ ReadLine /\ UNCHANGED <<file, iCount, cfgState>>

(* One turn of the loop of OnInit, for a line that is accepted, ...        *)
TextLine ==
  /\ cfgState = "read" /\ ~Blank /\ ParaseLine(file[pos + 1], pos + 1)
  /\ ReadLine /\ iCount' = 0
  /\ UNCHANGED <<file, cfgState>>

(* ... for one that is not, ...                                            *)
BadLine ==
  /\ cfgState = "read" /\ ~Blank /\ Rejected(file[pos + 1])
  /\ ReadLine /\ iCount' = 0 /\ cfgState' = "false"
  /\ UNCHANGED <<file, m_perf, m_configRedisMap, m_configMysqlMap>>

(* ... and for a blank one: four are skipped, the fifth is taken for the   *)
(* end of the file.                                                        *)
BlankLine ==
  /\ cfgState = "read" /\ Blank /\ ReadLine
  /\ \/ iCount < 4 /\ iCount' = iCount + 1 /\ UNCHANGED cfgState
     \/ iCount >= 4 /\ cfgState' = "true" /\ UNCHANGED iCount
  /\ UNCHANGED <<file, m_perf, m_configRedisMap, m_configMysqlMap>>

ConfigNext == TextLine \/ BadLine \/ BlankLine

-----------------------------------------------------------------------------
(* What the settings mean to the managers.                                 *)

(* GetRedisClient makes a client only with an address and a port.          *)
RedisComplete(z) ==
  /\ m_configRedisMap[z] # 0
  /\ LET list == SplitString2(file[m_configRedisMap[z]].text)
     IN  Len(list) > 3 /\ list[3] # <<>> /\ list[4] # <<>>

MysqlZones == {z \in CfgZones : m_configMysqlMap[z] # 0}

-----------------------------------------------------------------------------
(* Properties                                                              *)

(* The lines that count, without the loop: those that neither five blank   *)
(* lines in a row nor an overlong line precedes.                           *)
Counts(n) ==
  /\ n \in 1 .. Len(file)
  /\ ~ \E m \in 1 .. (n - 1) : file[m].long
  /\ ~ \E m \in 1 .. (n - 5) : \A i \in m .. (m + 4) : file[i].head = "blank"

(* What the fields of a text are, without the loop: a separator in front  *)
(* is dropped, every other separator ends a field, and so does the end of  *)
(* the text if no separator stands there.  Field k is ended by the k-th of *)
(* these positions.                                                        *)
FieldText(t) == IF Len(t) > 0 /\ t[1] = "&" THEN Tail(t) ELSE t
FieldEnds(u) ==
  {i \in 1 .. Len(u) : u[i] = "&"} \cup
  (IF Len(u) > 0 /\ u[Len(u)] # "&" THEN {Len(u) + 1} ELSE {})
EndsBefore(ends, e) == {i \in ends : i < e}
FieldEnd(ends, k)   == CHOOSE e \in ends : Cardinality(EndsBefore(ends, e)) = k - 1
FieldStart(ends, k) == IF k = 1 THEN 1 ELSE FieldEnd(ends, k - 1) + 1
FieldsOf(u) ==
  [k \in 1 .. Cardinality(FieldEnds(u)) |->
     SubSeq(u, FieldStart(FieldEnds(u), k), FieldEnd(FieldEnds(u), k) - 1)]

(* SplitString2 makes of every line exactly its fields: two separators in  *)
(* a row enclose an empty one, and nothing behind the last separator is    *)
(* not a field.                                                            *)
FieldsOfLine ==
  \A n \in 1 .. Len(file) : SplitString2(file[n].text) = FieldsOf(FieldText(file[n].text))

(* The kinds of lines, by these fields.  Of MySQL lines of six fields,     *)
(* which CConfiger.h:14 gives as the format and SourceDataItme rejects,    *)
(* nothing is said: a line is sound with seven, and no line with five.     *)
Fields(line)      == FieldsOf(FieldText(line.text))
IsSource(line, t) == line.head = "source" /\ Len(Fields(line)) > 0 /\ Fields(line)[1] = <<t>>
Harmless(line)    == line.head \in DOMAIN Defaults \cup {"blank", "#"} \/ IsSource(line, "#")
WellFormed(line, mysqlFields) ==
  Harmless(line) \/ IsSource(line, "redis") \/ (IsSource(line, "mysql") /\ Len(Fields(line)) >= mysqlFields)

ItemLines(i)       == {n \in 1 .. Len(file) : Counts(n) /\ file[n].head = i}
SourceLines(t, z)  == {n \in 1 .. Len(file) : Counts(n) /\ IsSource(file[n], t) /\ ZoneCode(Fields(file[n])) = z}

First(S) == IF S = {} THEN 0 ELSE CHOOSE n \in S : \A m \in S : n <= m
Last(S)  == IF S = {} THEN 0 ELSE CHOOSE n \in S : \A m \in S : m <= n

(* OnInit refuses a file only for a line that counts and is not well       *)
(* formed.  It accepts no file with a line of another kind, and the server *)
(* then runs with the last value of each item and the first line of each   *)
(* zone; lines behind five blank ones, or behind an overlong one, are      *)
(* ignored.                                                                *)
SettingsOfLines ==
  /\ cfgState = "false" => \E n \in 1 .. Len(file) : Counts(n) /\ ~WellFormed(file[n], 7)
  /\ cfgState = "true" =>
       /\ \A n \in 1 .. Len(file) : Counts(n) => WellFormed(file[n], 6)
       /\ \A i \in DOMAIN Defaults :
            LET n == Last(ItemLines(i))
            IN  m_perf[i] = IF n = 0 THEN Defaults[i] ELSE ItemValue(file[n])
       /\ \A z \in CfgZones : /\ m_configRedisMap[z] = First(SourceLines("redis", z))
                             /\ m_configMysqlMap[z] = First(SourceLines("mysql", z))

(* The settings are those of the lines, and the fields of a line are what  *)
(* its separators cut out.                                                 *)
SettingsOfFile == FieldsOfLine /\ SettingsOfLines
=============================================================================
