---------------------------- MODULE ConfigerProofs ----------------------------
(***************************************************************************)
(* Proofs about Configer: the loop of CConfiger::OnInit gives the server   *)
(* the settings of the lines that count, for files of any length, and      *)
(* SplitString2 makes of a line exactly its fields, for lines of any       *)
(* length.                                                                 *)
(***************************************************************************)
EXTENDS Services, WellFoundedInduction, FiniteSetTheorems, TLAPS

USE Zenon

-----------------------------------------------------------------------------
(* The inductive invariant.                                                *)

CfgTypeOK ==
  /\ file \in Files /\ pos \in 0 .. Len(file) /\ iCount \in 0 .. 4
  /\ cfgState \in {"read", "true", "false"}
  /\ m_perf = [i \in DOMAIN Defaults |-> m_perf[i]]
  /\ m_configRedisMap = [z \in CfgZones |-> m_configRedisMap[z]]
  /\ m_configMysqlMap = [z \in CfgZones |-> m_configMysqlMap[z]]

(* What was consumed counts, and failbit stands for the end of the file or *)
(* an overlong line.                                                       *)
CfgScan ==
  /\ \A n \in 1 .. pos : Counts(n)
  /\ fail => pos = Len(file) \/ (pos > 0 /\ file[pos].long)
  /\ ~fail => \A n \in 1 .. pos : ~file[n].long

(* iCount is the number of blank lines at the end of what was consumed,    *)
(* until getline() fails; no five in a row came before.                    *)
CfgBlanks ==
  cfgState = "read" =>
    /\ ~fail => \A i \in 0 .. (iCount - 1) : i < pos /\ file[pos - i].head = "blank"
    /\ \A m \in 1 .. pos : (\A i \in m .. pos : file[i].head = "blank") => pos - m < iCount
    /\ \A m \in 1 .. (pos - 4) : \E i \in m .. (m + 4) : file[i].head # "blank"

(* What the result of OnInit says of the lines.                            *)
CfgEnd ==
  /\ cfgState = "true" => \A n \in 1 .. Len(file) : Counts(n) => n <= pos
  /\ cfgState = "false" => pos > 0 /\ Rejected(file[pos])
  /\ cfgState # "false" => \A n \in 1 .. pos : ~Rejected(file[n])

(* The data sources of a zone, as the loop sees them.                      *)
RedisLine(line, z) ==
  LET list == SplitString2(line.text)
  IN  line.head = "source" /\ IsRedis(list) /\ ZoneCode(list) = z
MysqlLine(line, z) ==
  LET list == SplitString2(line.text)
  IN  line.head = "source" /\ IsMysql(list) /\ ZoneCode(list) = z

(* The lines consumed so far that set an item or are sources of a zone.    *)
ItemSeen(i)  == {n \in 1 .. pos : file[n].head = i}
RedisSeen(z) == {n \in 1 .. pos : RedisLine(file[n], z)}
MysqlSeen(z) == {n \in 1 .. pos : MysqlLine(file[n], z)}

(* v is the first line of S, or 0; n is the last.                          *)
IsFirst(v, S) == \/ v = 0 /\ S = {}
                 \/ v \in S /\ \A m \in S : v <= m
IsLast(n, S)  == n \in S /\ \A m \in S : m <= n

CfgItems ==
  \A i \in DOMAIN Defaults :
    \/ ItemSeen(i) = {} /\ m_perf[i] = Defaults[i]
    \/ \E n \in ItemSeen(i) : IsLast(n, ItemSeen(i)) /\ m_perf[i] = ItemValue(file[n])

CfgSources ==
  cfgState # "false" =>
    \A z \in CfgZones : /\ IsFirst(m_configRedisMap[z], RedisSeen(z))
                        /\ IsFirst(m_configMysqlMap[z], MysqlSeen(z))

CfgInv == CfgTypeOK /\ CfgScan /\ CfgBlanks /\ CfgEnd /\ CfgItems /\ CfgSources

-----------------------------------------------------------------------------
(* Facts about the operators.                                              *)

(* The length of a file is a natural number.                               *)
LEMMA FileLength == ASSUME CfgTypeOK PROVE Len(file) \in Nat /\ pos \in Nat /\ pos <= Len(file)
BY FilesAssumption, SMTT(30) DEF CfgTypeOK

(* A first line is the value of First, and a last one that of Last.        *)
LEMMA FirstUnique ==
  ASSUME NEW v, NEW S \in SUBSET (Nat \ {0}), IsFirst(v, S)
  PROVE  v = First(S)
<1>1. CASE S = {}
  BY <1>1 DEF IsFirst, First
<1>2. CASE S # {}
  <2>1. v \in S /\ \A m \in S : v <= m
    BY <1>2 DEF IsFirst
  <2>2. PICK w \in S : w = First(S) /\ \A m \in S : w <= m
    BY <1>2, <2>1 DEF First
  <2> QED
    BY <2>1, <2>2, SMTT(30)
<1> QED
  BY <1>1, <1>2

LEMMA LastUnique ==
  ASSUME NEW S \in SUBSET (Nat \ {0}), NEW n \in S, IsLast(n, S)
  PROVE  n = Last(S)
<1>1. S # {} /\ n \in S /\ \A m \in S : m <= n
  BY DEF IsLast
<1>2. PICK w \in S : w = Last(S) /\ \A m \in S : m <= w
  BY <1>1 DEF Last
<1> QED
  BY <1>1, <1>2, SMTT(30)

(* std::map::insert keeps the first line of a zone.                        *)
LEMMA FirstKept ==
  ASSUME NEW p \in Nat, NEW S \in SUBSET (1 .. p), NEW v, IsFirst(v, S)
  PROVE  IsFirst(IF v = 0 THEN p + 1 ELSE v, S \cup {p + 1})
<1>1. CASE v = 0
  <2>1. S = {}
    BY <1>1, SMTT(30) DEF IsFirst
  <2>2. p + 1 \in S \cup {p + 1} /\ \A m \in S \cup {p + 1} : p + 1 <= m
    BY <2>1, SMTT(30)
  <2>3. (IF v = 0 THEN p + 1 ELSE v) = p + 1
    BY <1>1
  <2> QED
    BY <2>2, <2>3 DEF IsFirst
<1>2. CASE v # 0
  <2>1. v \in S /\ \A m \in S : v <= m
    BY <1>2 DEF IsFirst
  <2>2. v <= p + 1
    BY <2>1, SMTT(30)
  <2> QED
    BY <1>2, <2>1, <2>2 DEF IsFirst
<1> QED
  BY <1>1, <1>2

(* A line that ParaseLine accepts is none that it rejects, a source is of  *)
(* one kind, and items and blank lines are no sources.                     *)
LEMMA LineKinds ==
  ASSUME NEW line
  PROVE  /\ line.head \in DOMAIN Defaults \cup {"#", "blank"} =>
              /\ ~Rejected(line)
              /\ \A z : ~RedisLine(line, z) /\ ~MysqlLine(line, z)
         /\ IsRedis(SplitString2(line.text)) => ~IsMysql(SplitString2(line.text))
         /\ IsAnno(SplitString2(line.text)) =>
              ~IsMysql(SplitString2(line.text)) /\ ~IsRedis(SplitString2(line.text))
<1>1. <<"mysql">> # <<"redis">> /\ <<"mysql">> # <<"#">> /\ <<"redis">> # <<"#">>
  OBVIOUS
<1>2. DOMAIN Defaults = {"threads", "insert_wait", "insert_max_count", "enable_record", "enable_ssl"}
  BY DEF Defaults
<1>3. line.head \in DOMAIN Defaults \cup {"#", "blank"} => line.head # "source" /\ line.head # "plain"
  BY <1>2
<1> QED
  BY <1>1, <1>3 DEF Rejected, RedisLine, MysqlLine, IsRedis, IsMysql, IsAnno

-----------------------------------------------------------------------------
(* One turn of the loop.                                                   *)

(* getline() finds a line: it counts, and failbit tells whether it is too  *)
(* long.                                                                   *)
LEMMA LineRead ==
  ASSUME CfgInv, cfgState = "read", ReadLine, file' = file, ~Exhausted
  PROVE  /\ pos \in Nat /\ pos' = pos + 1 /\ pos + 1 \in 1 .. Len(file) /\ ~fail
         /\ CfgScan'
<1>1. Len(file) \in Nat /\ pos \in Nat /\ pos <= Len(file)
  BY FileLength DEF CfgInv
<1>2. ~fail /\ pos # Len(file) /\ pos' = pos + 1 /\ (fail' <=> file[pos + 1].long)
  BY DEF Exhausted, ReadLine
<1>3. pos + 1 \in 1 .. Len(file) /\ pos + 1 > 0
  BY <1>1, <1>2, SMTT(30)
<1>4. \A n \in 1 .. pos : Counts(n) /\ ~file[n].long
  BY <1>2 DEF CfgInv, CfgScan
<1>5. Counts(pos + 1)
  <2>1. \A m \in 1 .. ((pos + 1) - 1) : ~file[m].long
    BY <1>1, <1>4, SMTT(30)
  <2>2. \A m \in 1 .. ((pos + 1) - 5) : \E i \in m .. (m + 4) : file[i].head # "blank"
    BY <1>1, SMTT(30) DEF CfgInv, CfgBlanks
  <2> QED
    BY <1>3, <2>1, <2>2 DEF Counts
<1>6. \A n \in 1 .. (pos + 1) : n \in 1 .. pos \/ n = pos + 1
  BY <1>1, SMTT(30)
<1>7. \A n : Counts(n)' <=> Counts(n)
  BY DEF Counts
<1>8. \A n \in 1 .. pos' : Counts(n)'
  BY <1>2, <1>4, <1>5, <1>6, <1>7
<1>9. fail' => pos' > 0 /\ file'[pos'].long
  BY <1>2, <1>3
<1>10. ~fail' => \A n \in 1 .. pos' : ~file'[n].long
  BY <1>2, <1>4, <1>6
<1> QED
  BY <1>1, <1>2, <1>3, <1>8, <1>9, <1>10 DEF CfgScan

(* getline() finds nothing, and sets failbit.                              *)
LEMMA NothingRead ==
  ASSUME CfgInv, ReadLine, file' = file, Exhausted
  PROVE  pos' = pos /\ fail' /\ CfgScan'
<1>1. pos' = pos /\ fail' /\ (pos = Len(file) \/ (pos > 0 /\ file[pos].long))
  BY DEF Exhausted, ReadLine, CfgInv, CfgScan
<1>2. \A n : Counts(n)' <=> Counts(n)
  BY DEF Counts
<1> QED
  BY <1>1, <1>2 DEF CfgInv, CfgScan

(* A line of text ends a run of blank ones.                                *)
LEMMA TextBlanks ==
  ASSUME CfgInv, cfgState = "read", file' = file, pos' = pos + 1, iCount' = 0,
         file[pos + 1].head # "blank"
  PROVE  CfgBlanks'
<1>1. pos \in Nat
  BY FileLength DEF CfgInv
<1>2. \A i \in 0 .. (iCount' - 1) : FALSE
  BY SMTT(30)
<1>3. \A m \in 1 .. pos' : pos + 1 \in m .. pos'
  BY <1>1, SMTT(30)
<1>4. \A m \in 1 .. (pos' - 4) : m \in 1 .. (pos - 4) \/ pos + 1 \in m .. (m + 4)
  BY <1>1, SMTT(30)
<1>5. \A m \in 1 .. (pos - 4) : \E i \in m .. (m + 4) : file[i].head # "blank"
  BY DEF CfgInv, CfgBlanks
<1> QED
  BY <1>2, <1>3, <1>4, <1>5 DEF CfgBlanks

(* A blank line lengthens the run, which has room for it.                  *)
LEMMA BlankBlanks ==
  ASSUME CfgInv, cfgState = "read", file' = file, pos' = pos + 1, iCount' = iCount + 1,
         ~fail, iCount < 4, file[pos + 1].head = "blank"
  PROVE  CfgBlanks'
<1>1. pos \in Nat /\ iCount \in Nat
  BY FileLength, SMTT(30) DEF CfgInv, CfgTypeOK
<1>2. /\ \A i \in 0 .. (iCount - 1) : i < pos /\ file[pos - i].head = "blank"
      /\ \A m \in 1 .. pos : (\A i \in m .. pos : file[i].head = "blank") => pos - m < iCount
      /\ \A m \in 1 .. (pos - 4) : \E i \in m .. (m + 4) : file[i].head # "blank"
  BY DEF CfgInv, CfgBlanks
<1>3. ASSUME NEW i \in 0 .. (iCount' - 1) PROVE i < pos' /\ file'[pos' - i].head = "blank"
  <2>1. CASE i = 0
    BY <1>1, <2>1, SMTT(30)
  <2>2. CASE i # 0
    <3>1. i - 1 \in 0 .. (iCount - 1) /\ pos' - i = pos - (i - 1)
      BY <1>1, <1>3, <2>2, SMTT(30)
    <3>2. i - 1 < pos /\ file[pos - (i - 1)].head = "blank"
      BY <1>2, <3>1
    <3>3. i < pos'
      BY <1>1, <1>3, <3>2, SMTT(30)
    <3> QED
      BY <3>1, <3>2, <3>3
  <2> QED
    BY <2>1, <2>2
<1>4. ASSUME NEW m \in 1 .. pos', \A i \in m .. pos' : file'[i].head = "blank"
      PROVE  pos' - m < iCount'
  <2>1. CASE m = pos + 1
    BY <1>1, <2>1, SMTT(30)
  <2>2. CASE m # pos + 1
    <3>1. m \in 1 .. pos /\ \A i \in m .. pos : i \in m .. pos'
      BY <1>1, <1>4, <2>2, SMTT(30)
    <3>2. pos - m < iCount
      BY <1>2, <1>4, <3>1
    <3> QED
      BY <1>1, <1>4, <3>2, SMTT(30)
  <2> QED
    BY <2>1, <2>2
<1>5. ASSUME NEW m \in 1 .. (pos' - 4) PROVE \E i \in m .. (m + 4) : file'[i].head # "blank"
  <2>1. CASE m \in 1 .. (pos - 4)
    BY <1>2, <2>1
  <2>2. CASE m \notin 1 .. (pos - 4)
    <3>1. m = pos - 3 /\ m \in 1 .. pos /\ \A i \in m .. pos : i \in m .. (m + 4)
      BY <1>1, <1>5, <2>2, SMTT(30)
    <3>2. ~(pos - m < iCount)
      BY <1>1, <3>1, SMTT(30)
    <3> QED
      BY <1>2, <3>1, <3>2
  <2> QED
    BY <2>1, <2>2
<1> QED
  BY <1>3, <1>4, <1>5 DEF CfgBlanks

(* Nothing counts behind the fifth blank line in a row.                    *)
LEMMA FiveBlanks ==
  ASSUME CfgInv, cfgState = "read", ~fail, iCount >= 4, file[pos + 1].head = "blank"
  PROVE  \A n \in 1 .. Len(file) : Counts(n) => n <= pos + 1
<1> SUFFICES ASSUME NEW n \in 1 .. Len(file), Counts(n), ~(n <= pos + 1)
             PROVE  FALSE
  OBVIOUS
<1>1. pos \in Nat /\ iCount \in Nat /\ Len(file) \in Nat
  BY FileLength, SMTT(30) DEF CfgInv, CfgTypeOK
<1>2. \A i \in 0 .. (iCount - 1) : i < pos /\ file[pos - i].head = "blank"
  BY DEF CfgInv, CfgBlanks
<1>3. 0 \in 0 .. (iCount - 1) /\ 1 \in 0 .. (iCount - 1) /\ 2 \in 0 .. (iCount - 1)
      /\ 3 \in 0 .. (iCount - 1)
  BY <1>1, SMTT(30)
<1>4. 3 < pos /\ \A i \in {0, 1, 2, 3} : file[pos - i].head = "blank"
  BY <1>2, <1>3
<1>5. pos - 3 \in 1 .. (n - 5)
  BY <1>1, <1>4, SMTT(30)
<1>6. ASSUME NEW i \in (pos - 3) .. (pos - 3 + 4) PROVE file[i].head = "blank"
  <2>1. i = pos + 1 \/ \E j \in {0, 1, 2, 3} : i = pos - j
    <3>1. i = pos + 1 \/ i = pos - 0 \/ i = pos - 1 \/ i = pos - 2 \/ i = pos - 3
      BY <1>1, <1>6, SMTT(30)
    <3> QED
      BY <3>1
  <2> QED
    BY <1>4, <2>1
<1> QED
  BY <1>5, <1>6 DEF Counts

(* Nothing counts behind an overlong line.                                 *)
LEMMA NothingLeft ==
  ASSUME CfgInv, Exhausted
  PROVE  \A n \in 1 .. Len(file) : Counts(n) => n <= pos
<1>1. Len(file) \in Nat /\ pos \in Nat
  BY FileLength DEF CfgInv
<1>2. CASE pos = Len(file)
  BY <1>1, <1>2, SMTT(30)
<1>3. CASE pos > 0 /\ file[pos].long
  <2> SUFFICES ASSUME NEW n \in 1 .. Len(file), Counts(n), ~(n <= pos)
               PROVE  FALSE
    OBVIOUS
  <2>1. pos \in 1 .. (n - 1)
    BY <1>1, <1>3, SMTT(30)
  <2> QED
    BY <1>3, <2>1 DEF Counts
<1> QED
  BY <1>2, <1>3 DEF CfgInv, CfgScan, Exhausted

(* A line that was read is added to the sets it belongs to.                *)
LEMMA SeenStep ==
  ASSUME pos \in Nat, file' = file, pos' = pos + 1
  PROVE  /\ \A i : ItemSeen(i)' = IF file[pos + 1].head = i THEN ItemSeen(i) \cup {pos + 1}
                                  ELSE ItemSeen(i)
         /\ \A z : RedisSeen(z)' = IF RedisLine(file[pos + 1], z) THEN RedisSeen(z) \cup {pos + 1}
                                   ELSE RedisSeen(z)
         /\ \A z : MysqlSeen(z)' = IF MysqlLine(file[pos + 1], z) THEN MysqlSeen(z) \cup {pos + 1}
                                   ELSE MysqlSeen(z)
<1>1. 1 .. pos' = (1 .. pos) \cup {pos + 1} /\ pos + 1 \notin 1 .. pos
  BY SMTT(30)
<1>2. ASSUME NEW i
      PROVE  ItemSeen(i)' = IF file[pos + 1].head = i THEN ItemSeen(i) \cup {pos + 1} ELSE ItemSeen(i)
  BY <1>1 DEF ItemSeen
<1>3. ASSUME NEW z
      PROVE  RedisSeen(z)' = IF RedisLine(file[pos + 1], z) THEN RedisSeen(z) \cup {pos + 1}
                             ELSE RedisSeen(z)
  BY <1>1 DEF RedisSeen
<1>4. ASSUME NEW z
      PROVE  MysqlSeen(z)' = IF MysqlLine(file[pos + 1], z) THEN MysqlSeen(z) \cup {pos + 1}
                             ELSE MysqlSeen(z)
  BY <1>1 DEF MysqlSeen
<1> QED
  BY <1>2, <1>3, <1>4

(* The last line of an item gives its value.                               *)
LEMMA ItemStep ==
  ASSUME CfgInv, file' = file, pos' = pos + 1, PerformanceItem(file[pos + 1])
  PROVE  CfgItems' /\ m_perf' = [i \in DOMAIN Defaults |-> m_perf'[i]]
<1> DEFINE head == file[pos + 1].head
<1>1. pos \in Nat
  BY FileLength DEF CfgInv
<1>2. /\ head \in DOMAIN Defaults
      /\ m_perf' = [m_perf EXCEPT ![head] = ItemValue(file[pos + 1])]
      /\ m_perf = [i \in DOMAIN Defaults |-> m_perf[i]]
  BY DEF PerformanceItem, CfgInv, CfgTypeOK
<1>3. /\ m_perf'[head] = ItemValue(file[pos + 1])
      /\ \A i \in DOMAIN Defaults : i # head => m_perf'[i] = m_perf[i]
      /\ m_perf' = [i \in DOMAIN Defaults |-> m_perf'[i]]
  <2> HIDE DEF head
  <2> QED
    BY <1>2
<1>4. ASSUME NEW i \in DOMAIN Defaults
      PROVE  \/ ItemSeen(i)' = {} /\ m_perf'[i] = Defaults[i]
             \/ \E n \in ItemSeen(i)' : /\ n \in ItemSeen(i)' /\ \A m \in ItemSeen(i)' : m <= n
                                       /\ m_perf'[i] = ItemValue(file'[n])
  <2>1. CASE i = head
    <3>1. ItemSeen(i)' = ItemSeen(i) \cup {pos + 1}
      BY <1>1, <2>1, SeenStep
    <3>2. ItemSeen(i) \subseteq 1 .. pos
      BY DEF ItemSeen
    <3>3. \A m \in ItemSeen(i)' : m <= pos + 1
      BY <1>1, <3>1, <3>2, SMTT(30)
    <3> QED
      BY <1>3, <2>1, <3>1, <3>3
  <2>2. CASE i # head
    <3>1. ItemSeen(i)' = ItemSeen(i)
      BY <1>1, <2>2, SeenStep
    <3> QED
      BY <1>3, <2>2, <3>1 DEF CfgInv, CfgItems, IsLast
  <2> QED
    BY <2>1, <2>2
<1> QED
  BY <1>3, <1>4 DEF CfgItems, IsLast

(* The map of one kind of source, when a line of zone w is inserted: the   *)
(* first line of every zone stays.                                         *)
LEMMA InsertStep ==
  ASSUME NEW p \in Nat, NEW w, NEW map, map = [z \in CfgZones |-> map[z]],
         NEW z \in CfgZones, NEW S \in SUBSET (1 .. p), IsFirst(map[z], S)
  PROVE  IsFirst(InsertInfo(map, w, p + 1)[z], IF z = w THEN S \cup {p + 1} ELSE S)
<1>1. CASE z = w
  <2>1. InsertInfo(map, w, p + 1)[z] = IF map[z] = 0 THEN p + 1 ELSE map[z]
    BY <1>1 DEF InsertInfo
  <2> QED
    BY <1>1, <2>1, FirstKept
<1>2. CASE z # w
  <2>1. InsertInfo(map, w, p + 1)[z] = map[z]
    BY <1>2 DEF InsertInfo
  <2> QED
    BY <1>2, <2>1
<1> QED
  BY <1>1, <1>2

(* InsertInfo changes no zone that the map does not have.                  *)
LEMMA InsertType ==
  ASSUME NEW w, NEW n, NEW map, map = [z \in CfgZones |-> map[z]]
  PROVE  InsertInfo(map, w, n) = [z \in CfgZones |-> InsertInfo(map, w, n)[z]]
BY DEF InsertInfo

(* The first line of each zone stays in the maps.                          *)
LEMMA SourceStep ==
  ASSUME CfgInv, cfgState = "read", file' = file, pos' = pos + 1,
         SourceDataItme(file[pos + 1], pos + 1)
  PROVE  /\ CfgSources' /\ ~Rejected(file[pos + 1])
         /\ file[pos + 1].head \in {"#", "source"}
         /\ m_configRedisMap' = [z \in CfgZones |-> m_configRedisMap'[z]]
         /\ m_configMysqlMap' = [z \in CfgZones |-> m_configMysqlMap'[z]]
<1> DEFINE line == file[pos + 1]
           list == SplitString2(line.text)
<1>1. pos \in Nat
  BY FileLength DEF CfgInv
<1>2. /\ m_configRedisMap = [z \in CfgZones |-> m_configRedisMap[z]]
      /\ m_configMysqlMap = [z \in CfgZones |-> m_configMysqlMap[z]]
      /\ \A z \in CfgZones : /\ IsFirst(m_configRedisMap[z], RedisSeen(z))
                            /\ IsFirst(m_configMysqlMap[z], MysqlSeen(z))
  BY DEF CfgInv, CfgTypeOK, CfgSources
<1>3. \A z : RedisSeen(z) \in SUBSET (1 .. pos) /\ MysqlSeen(z) \in SUBSET (1 .. pos)
  BY DEF RedisSeen, MysqlSeen
<1>4. CASE /\ line.head = "#" \/ (line.head = "source" /\ IsAnno(list))
           /\ UNCHANGED <<m_configRedisMap, m_configMysqlMap>>
  <2>1. ~Rejected(line) /\ \A z : ~RedisLine(line, z) /\ ~MysqlLine(line, z)
    <3>1. CASE line.head = "#"
      BY <3>1, LineKinds
    <3>2. CASE line.head = "source" /\ IsAnno(list)
      BY <3>2, LineKinds DEF Rejected, RedisLine, MysqlLine
    <3> QED
      BY <1>4, <3>1, <3>2
  <2>2. \A z : RedisSeen(z)' = RedisSeen(z) /\ MysqlSeen(z)' = MysqlSeen(z)
    BY <1>1, <2>1, SeenStep
  <2>3. m_configRedisMap' = m_configRedisMap /\ m_configMysqlMap' = m_configMysqlMap
    BY <1>4
  <2>4. CfgSources'
    BY <1>2, <2>2, <2>3 DEF CfgSources, IsFirst
  <2> QED
    BY <1>2, <1>4, <2>1, <2>3, <2>4
<1>5. CASE /\ line.head = "source" /\ IsMysql(list) /\ Len(list) >= 7
           /\ m_configMysqlMap' = InsertInfo(m_configMysqlMap, ZoneCode(list), pos + 1)
           /\ UNCHANGED m_configRedisMap
  <2>1. ~IsRedis(list)
    BY <1>5, LineKinds
  <2>2. /\ \A z : RedisSeen(z)' = RedisSeen(z)
        /\ \A z : MysqlSeen(z)' = IF z = ZoneCode(list) THEN MysqlSeen(z) \cup {pos + 1} ELSE MysqlSeen(z)
    BY <1>1, <1>5, <2>1, SeenStep DEF RedisLine, MysqlLine
  <2>3. \A z \in CfgZones : IsFirst(m_configMysqlMap'[z], MysqlSeen(z)')
    <3> SUFFICES ASSUME NEW z \in CfgZones PROVE IsFirst(m_configMysqlMap'[z], MysqlSeen(z)')
      OBVIOUS
    <3>1. MysqlSeen(z) \in SUBSET (1 .. pos) /\ IsFirst(m_configMysqlMap[z], MysqlSeen(z))
      BY <1>2, <1>3
    <3>2. IsFirst(InsertInfo(m_configMysqlMap, ZoneCode(list), pos + 1)[z],
                  IF z = ZoneCode(list) THEN MysqlSeen(z) \cup {pos + 1} ELSE MysqlSeen(z))
      <4> HIDE DEF list
      <4> QED
        BY <1>1, <1>2, <3>1, InsertStep
    <3> QED
      BY <1>5, <2>2, <3>2
  <2>4. \A z \in CfgZones : IsFirst(m_configRedisMap'[z], RedisSeen(z)')
    BY <1>2, <1>5, <2>2
  <2>5. CfgSources'
    BY <2>3, <2>4 DEF CfgSources, IsFirst
  <2>6. ~Rejected(line)
    BY <1>5 DEF Rejected
  <2>7. m_configMysqlMap' = [z \in CfgZones |-> m_configMysqlMap'[z]]
    <3> DEFINE ins == InsertInfo(m_configMysqlMap, ZoneCode(list), pos + 1)
    <3>1. ins = [z \in CfgZones |-> ins[z]]
      <4> HIDE DEF list
      <4> QED
        BY <1>2, InsertType
    <3> HIDE DEF ins
    <3>2. m_configMysqlMap' = ins
      BY <1>5 DEF ins
    <3> QED
      BY <3>1, <3>2
  <2> QED
    BY <1>2, <1>5, <2>5, <2>6, <2>7
<1>6. CASE /\ line.head = "source" /\ IsRedis(list)
           /\ m_configRedisMap' = InsertInfo(m_configRedisMap, ZoneCode(list), pos + 1)
           /\ UNCHANGED m_configMysqlMap
  <2>1. ~IsMysql(list)
    BY <1>6, LineKinds
  <2>2. /\ \A z : MysqlSeen(z)' = MysqlSeen(z)
        /\ \A z : RedisSeen(z)' = IF z = ZoneCode(list) THEN RedisSeen(z) \cup {pos + 1} ELSE RedisSeen(z)
    BY <1>1, <1>6, <2>1, SeenStep DEF RedisLine, MysqlLine
  <2>3. \A z \in CfgZones : IsFirst(m_configRedisMap'[z], RedisSeen(z)')
    <3> SUFFICES ASSUME NEW z \in CfgZones PROVE IsFirst(m_configRedisMap'[z], RedisSeen(z)')
      OBVIOUS
    <3>1. RedisSeen(z) \in SUBSET (1 .. pos) /\ IsFirst(m_configRedisMap[z], RedisSeen(z))
      BY <1>2, <1>3
    <3>2. IsFirst(InsertInfo(m_configRedisMap, ZoneCode(list), pos + 1)[z],
                  IF z = ZoneCode(list) THEN RedisSeen(z) \cup {pos + 1} ELSE RedisSeen(z))
      <4> HIDE DEF list
      <4> QED
        BY <1>1, <1>2, <3>1, InsertStep
    <3> QED
      BY <1>6, <2>2, <3>2
  <2>4. \A z \in CfgZones : IsFirst(m_configMysqlMap'[z], MysqlSeen(z)')
    BY <1>2, <1>6, <2>2
  <2>5. CfgSources'
    BY <2>3, <2>4 DEF CfgSources, IsFirst
  <2>6. ~Rejected(line)
    BY <1>6 DEF Rejected
  <2>7. m_configRedisMap' = [z \in CfgZones |-> m_configRedisMap'[z]]
    <3> DEFINE ins == InsertInfo(m_configRedisMap, ZoneCode(list), pos + 1)
    <3>1. ins = [z \in CfgZones |-> ins[z]]
      <4> HIDE DEF list
      <4> QED
        BY <1>2, InsertType
    <3> HIDE DEF ins
    <3>2. m_configRedisMap' = ins
      BY <1>6 DEF ins
    <3> QED
      BY <3>1, <3>2
  <2> QED
    BY <1>2, <1>6, <2>5, <2>6, <2>7
<1> QED
  BY <1>4, <1>5, <1>6 DEF SourceDataItme

-----------------------------------------------------------------------------
(* The actions.                                                            *)

(* A line that is accepted.                                                *)
LEMMA TextLineStep == ASSUME CfgInv, TextLine PROVE CfgInv'
<1> DEFINE line == file[pos + 1]
<1>1. /\ cfgState = "read" /\ ~Exhausted /\ line.head # "blank" /\ ReadLine
      /\ iCount' = 0 /\ file' = file /\ cfgState' = cfgState /\ ParaseLine(line, pos + 1)
  BY DEF TextLine, Blank
<1>2. pos \in Nat /\ pos' = pos + 1 /\ pos + 1 \in 1 .. Len(file) /\ CfgScan'
  BY <1>1, LineRead
<1>3. CfgBlanks'
  BY <1>1, <1>2, TextBlanks
<1>4. /\ CfgItems' /\ CfgSources' /\ ~Rejected(line)
      /\ m_perf' = [i \in DOMAIN Defaults |-> m_perf'[i]]
      /\ m_configRedisMap' = [z \in CfgZones |-> m_configRedisMap'[z]]
      /\ m_configMysqlMap' = [z \in CfgZones |-> m_configMysqlMap'[z]]
  <2>1. CASE PerformanceItem(line) /\ UNCHANGED <<m_configRedisMap, m_configMysqlMap>>
    <3>1. line.head \in DOMAIN Defaults
      BY <2>1 DEF PerformanceItem
    <3>2. ~Rejected(line) /\ \A z : ~RedisLine(line, z) /\ ~MysqlLine(line, z)
      BY <3>1, LineKinds
    <3>3. \A z : RedisSeen(z)' = RedisSeen(z) /\ MysqlSeen(z)' = MysqlSeen(z)
      BY <1>1, <1>2, <3>2, SeenStep
    <3>4. m_configRedisMap' = m_configRedisMap /\ m_configMysqlMap' = m_configMysqlMap
      BY <2>1
    <3>5. CfgSources'
      BY <1>1, <3>3, <3>4 DEF CfgInv, CfgSources, IsFirst
    <3>6. CfgItems' /\ m_perf' = [i \in DOMAIN Defaults |-> m_perf'[i]]
      BY <1>1, <1>2, <2>1, ItemStep
    <3> QED
      BY <3>2, <3>4, <3>5, <3>6 DEF CfgInv, CfgTypeOK
  <2>2. CASE SourceDataItme(line, pos + 1) /\ UNCHANGED m_perf
    <3>1. /\ CfgSources' /\ ~Rejected(line) /\ line.head \in {"#", "source"}
          /\ m_configRedisMap' = [z \in CfgZones |-> m_configRedisMap'[z]]
          /\ m_configMysqlMap' = [z \in CfgZones |-> m_configMysqlMap'[z]]
      BY <1>1, <1>2, <2>2, SourceStep
    <3>2. line.head \notin DOMAIN Defaults
      BY <3>1 DEF Defaults
    <3>3. \A i \in DOMAIN Defaults : ItemSeen(i)' = ItemSeen(i)
      BY <1>1, <1>2, <3>2, SeenStep
    <3>4. CfgItems'
      BY <1>1, <2>2, <3>3 DEF CfgInv, CfgItems, IsLast
    <3> QED
      BY <2>2, <3>1, <3>4 DEF CfgInv, CfgTypeOK
  <2> QED
    BY <1>1, <2>1, <2>2 DEF ParaseLine
<1>5. CfgTypeOK'
  <2>1. pos' \in 0 .. Len(file) /\ iCount' \in 0 .. 4
    BY <1>1, <1>2, SMTT(30)
  <2> QED
    BY <1>1, <1>4, <2>1 DEF CfgInv, CfgTypeOK
<1>6. CfgEnd'
  <2>1. \A n \in 1 .. pos' : n \in 1 .. pos \/ n = pos + 1
    BY <1>2, SMTT(30)
  <2>2. \A n \in 1 .. pos' : ~Rejected(file'[n])
    BY <1>1, <1>4, <2>1 DEF CfgInv, CfgEnd
  <2>3. cfgState' = "read"
    BY <1>1
  <2> QED
    BY <2>2, <2>3, SMTT(30) DEF CfgEnd
<1> QED
  BY <1>2, <1>3, <1>4, <1>5, <1>6 DEF CfgInv

(* A line that is rejected ends the loop.                                  *)
LEMMA BadLineStep == ASSUME CfgInv, BadLine PROVE CfgInv'
<1> DEFINE line == file[pos + 1]
<1>1. /\ cfgState = "read" /\ ~Exhausted /\ Rejected(line) /\ ReadLine
      /\ iCount' = 0 /\ file' = file /\ cfgState' = "false"
      /\ m_perf' = m_perf /\ m_configRedisMap' = m_configRedisMap
      /\ m_configMysqlMap' = m_configMysqlMap
  BY DEF BadLine, Blank
<1>2. pos \in Nat /\ pos' = pos + 1 /\ pos + 1 \in 1 .. Len(file) /\ CfgScan'
  BY <1>1, LineRead
<1>3. CfgTypeOK'
  <2>1. pos' \in 0 .. Len(file) /\ iCount' \in 0 .. 4
    BY <1>1, <1>2, SMTT(30)
  <2> QED
    BY <1>1, <2>1 DEF CfgInv, CfgTypeOK
<1>4. CfgBlanks' /\ CfgSources'
  BY <1>1 DEF CfgBlanks, CfgSources
<1>5. CfgEnd'
  <2>1. pos' > 0 /\ Rejected(file'[pos'])
    BY <1>1, <1>2, SMTT(30)
  <2> QED
    BY <1>1, <2>1 DEF CfgEnd
<1>6. CfgItems'
  <2>1. line.head \notin DOMAIN Defaults
    BY <1>1, LineKinds
  <2>2. \A i \in DOMAIN Defaults : ItemSeen(i)' = ItemSeen(i)
    BY <1>1, <1>2, <2>1, SeenStep
  <2> QED
    BY <1>1, <2>2 DEF CfgInv, CfgItems, IsLast
<1> QED
  BY <1>2, <1>3, <1>4, <1>5, <1>6 DEF CfgInv

(* A blank line, or none, is skipped or ends the loop.                     *)
LEMMA BlankLineStep == ASSUME CfgInv, BlankLine PROVE CfgInv'
<1> DEFINE line == file[pos + 1]
<1>1. /\ cfgState = "read" /\ (~Exhausted => line.head = "blank") /\ ReadLine /\ file' = file
      /\ \/ iCount < 4 /\ iCount' = iCount + 1 /\ cfgState' = cfgState
         \/ iCount >= 4 /\ cfgState' = "true" /\ iCount' = iCount
      /\ m_perf' = m_perf /\ m_configRedisMap' = m_configRedisMap
      /\ m_configMysqlMap' = m_configMysqlMap
  BY DEF BlankLine, Blank
<1>2. Len(file) \in Nat /\ pos \in 0 .. Len(file) /\ pos \in Nat /\ iCount \in 0 .. 4
  BY FileLength DEF CfgInv, CfgTypeOK
<1>3. iCount' \in 0 .. 4
  BY <1>1, <1>2, SMTT(30)
<1>4. CASE Exhausted
  <2>1. pos' = pos /\ fail' /\ CfgScan'
    BY <1>1, <1>4, NothingRead
  <2>2. CfgTypeOK'
    BY <1>1, <1>2, <1>3, <2>1 DEF CfgInv, CfgTypeOK
  <2>3. CfgBlanks'
    <3> SUFFICES ASSUME cfgState' = "read" PROVE CfgBlanks'
      BY DEF CfgBlanks
    <3>1. iCount' = iCount + 1
      BY <1>1
    <3>2. ASSUME NEW m \in 1 .. pos, pos - m < iCount PROVE pos - m < iCount'
      BY <1>2, <3>1, <3>2, SMTT(30)
    <3> QED
      BY <1>1, <2>1, <3>2 DEF CfgInv, CfgBlanks
  <2>4. CfgEnd'
    <3>1. \A n \in 1 .. Len(file) : Counts(n) => n <= pos
      BY <1>4, NothingLeft
    <3>2. \A n \in 1 .. pos : ~Rejected(file[n])
      BY <1>1 DEF CfgInv, CfgEnd
    <3>3. cfgState' # "false"
      BY <1>1
    <3> QED
      BY <1>1, <2>1, <3>1, <3>2, <3>3 DEF CfgEnd, Counts
  <2>5. CfgItems' /\ CfgSources'
    <3>1. /\ \A i \in DOMAIN Defaults : ItemSeen(i)' = ItemSeen(i)
          /\ \A z : RedisSeen(z)' = RedisSeen(z) /\ MysqlSeen(z)' = MysqlSeen(z)
      BY <1>1, <2>1 DEF ItemSeen, RedisSeen, MysqlSeen
    <3>2. cfgState # "false"
      BY <1>1
    <3> QED
      BY <1>1, <3>1, <3>2 DEF CfgInv, CfgItems, CfgSources, IsFirst, IsLast
  <2> QED
    BY <2>1, <2>2, <2>3, <2>4, <2>5 DEF CfgInv
<1>5. CASE ~Exhausted
  <2>1. pos' = pos + 1 /\ pos + 1 \in 1 .. Len(file) /\ ~fail /\ CfgScan' /\ line.head = "blank"
    BY <1>1, <1>5, LineRead
  <2>2. CfgTypeOK'
    <3>1. pos' \in 0 .. Len(file)
      BY <1>2, <2>1, SMTT(30)
    <3> QED
      BY <1>1, <1>3, <3>1 DEF CfgInv, CfgTypeOK
  <2>3. CfgBlanks'
    <3> SUFFICES ASSUME cfgState' = "read" PROVE CfgBlanks'
      BY DEF CfgBlanks
    <3>1. iCount < 4 /\ iCount' = iCount + 1
      BY <1>1
    <3> QED
      BY <1>1, <2>1, <3>1, BlankBlanks
  <2>4. ~Rejected(line) /\ \A z : ~RedisLine(line, z) /\ ~MysqlLine(line, z)
    BY <2>1, LineKinds
  <2>5. CfgEnd'
    <3>1. ASSUME cfgState' = "true" PROVE \A n \in 1 .. Len(file) : Counts(n) => n <= pos'
      <4>1. iCount >= 4
        BY <1>1, <3>1
      <4> QED
        BY <1>1, <2>1, <4>1, FiveBlanks
    <3>2. \A n \in 1 .. pos' : n \in 1 .. pos \/ n = pos + 1
      BY <1>2, <2>1, SMTT(30)
    <3>3. \A n \in 1 .. pos : ~Rejected(file[n])
      BY <1>1 DEF CfgInv, CfgEnd
    <3>4. \A n \in 1 .. pos' : ~Rejected(file[n])
      BY <2>4, <3>2, <3>3
    <3>5. cfgState' # "false"
      BY <1>1
    <3> QED
      BY <1>1, <3>1, <3>4, <3>5 DEF CfgEnd, Counts
  <2>6. CfgItems' /\ CfgSources'
    <3>1. line.head \notin DOMAIN Defaults
      BY <2>1 DEF Defaults
    <3>2. /\ \A i \in DOMAIN Defaults : ItemSeen(i)' = ItemSeen(i)
          /\ \A z : RedisSeen(z)' = RedisSeen(z) /\ MysqlSeen(z)' = MysqlSeen(z)
      BY <1>1, <1>2, <2>1, <2>4, <3>1, SeenStep
    <3>3. cfgState # "false"
      BY <1>1
    <3> QED
      BY <1>1, <3>2, <3>3 DEF CfgInv, CfgItems, CfgSources, IsFirst, IsLast
  <2> QED
    BY <2>1, <2>2, <2>3, <2>5, <2>6 DEF CfgInv
<1> QED
  BY <1>4, <1>5

-----------------------------------------------------------------------------
(* The theorem                                                             *)

LEMMA CfgInitInv == ASSUME ConfigInit PROVE CfgInv
<1>1. /\ file \in Files /\ pos = 0 /\ fail = FALSE /\ iCount = 0 /\ cfgState = "read"
      /\ m_perf = Defaults /\ m_configRedisMap = [z \in CfgZones |-> 0]
      /\ m_configMysqlMap = [z \in CfgZones |-> 0]
  BY DEF ConfigInit
<1>2. Len(file) \in Nat
  BY <1>1, FilesAssumption, SMTT(30)
<1>3. CfgTypeOK
  <2>1. Defaults = [i \in DOMAIN Defaults |-> Defaults[i]]
    BY DEF Defaults
  <2>2. pos \in 0 .. Len(file) /\ iCount \in 0 .. 4
    BY <1>1, <1>2, SMTT(30)
  <2> QED
    BY <1>1, <2>1, <2>2 DEF CfgTypeOK
<1>4. \A n \in 1 .. pos : FALSE
  BY <1>1, SMTT(30)
<1>5. CfgScan /\ CfgEnd
  BY <1>1, <1>4 DEF CfgScan, CfgEnd
<1>6. CfgBlanks
  BY <1>1, SMTT(30) DEF CfgBlanks
<1>7. \A i : ItemSeen(i) = {} /\ RedisSeen(i) = {} /\ MysqlSeen(i) = {}
  BY <1>4 DEF ItemSeen, RedisSeen, MysqlSeen
<1>8. CfgItems
  BY <1>1, <1>7 DEF CfgItems
<1>9. CfgSources
  BY <1>1, <1>7 DEF CfgSources, IsFirst
<1> QED
  BY <1>3, <1>5, <1>6, <1>8, <1>9 DEF CfgInv

LEMMA CfgStep == CfgInv /\ [Next]_svVars => CfgInv'
<1> SUFFICES ASSUME CfgInv, [Next]_svVars PROVE CfgInv'
  OBVIOUS
<1>1. CASE ConfigNext
  BY <1>1, TextLineStep, BadLineStep, BlankLineStep DEF ConfigNext
<1>2. CASE UNCHANGED cfgVars
  <2>1. /\ file' = file /\ pos' = pos /\ fail' = fail /\ iCount' = iCount /\ cfgState' = cfgState
        /\ m_perf' = m_perf /\ m_configRedisMap' = m_configRedisMap
        /\ m_configMysqlMap' = m_configMysqlMap
    BY <1>2 DEF cfgVars
  <2>2. CfgTypeOK' /\ CfgScan' /\ CfgBlanks' /\ CfgEnd'
    BY <2>1 DEF CfgInv, CfgTypeOK, CfgScan, CfgBlanks, CfgEnd, Counts
  <2>3. \A z : ItemSeen(z)' = ItemSeen(z) /\ RedisSeen(z)' = RedisSeen(z) /\ MysqlSeen(z)' = MysqlSeen(z)
    BY <2>1 DEF ItemSeen, RedisSeen, MysqlSeen
  <2>4. CfgItems' /\ CfgSources'
    BY <2>1, <2>3 DEF CfgInv, CfgItems, CfgSources, IsFirst, IsLast
  <2> QED
    BY <2>2, <2>4 DEF CfgInv
<1> QED
  BY <1>1, <1>2 DEF Next, ReadConfig, SystemInit, RunRedis, RunSql, svVars

(* What OnInit makes of the lines, as the loop sees them.                  *)
RejectedLines == {n \in 1 .. Len(file) : Counts(n) /\ Rejected(file[n])}
RedisLines(z) == {n \in 1 .. Len(file) : Counts(n) /\ RedisLine(file[n], z)}
MysqlLines(z) == {n \in 1 .. Len(file) : Counts(n) /\ MysqlLine(file[n], z)}

LoopSettings ==
  /\ cfgState = "false" => RejectedLines # {}
  /\ cfgState = "true" =>
       /\ RejectedLines = {}
       /\ \A i \in DOMAIN Defaults :
            LET n == Last(ItemLines(i))
            IN  m_perf[i] = IF n = 0 THEN Defaults[i] ELSE ItemValue(file[n])
       /\ \A z \in CfgZones : /\ m_configRedisMap[z] = First(RedisLines(z))
                             /\ m_configMysqlMap[z] = First(MysqlLines(z))

(* When OnInit has returned, what it has seen are the lines that count.    *)
LEMMA SeenAll ==
  ASSUME CfgInv, cfgState = "true"
  PROVE  /\ \A n \in 1 .. Len(file) : Counts(n) <=> n \in 1 .. pos
         /\ \A i : ItemLines(i) = ItemSeen(i)
         /\ \A z : RedisLines(z) = RedisSeen(z) /\ MysqlLines(z) = MysqlSeen(z)
<1>1. Len(file) \in Nat /\ pos \in Nat /\ pos <= Len(file)
  BY FileLength DEF CfgInv
<1>2. \A n \in 1 .. pos : n \in 1 .. Len(file) /\ Counts(n)
  BY <1>1, SMTT(30) DEF CfgInv, CfgScan
<1>3. \A n \in 1 .. Len(file) : Counts(n) => n <= pos
  BY DEF CfgInv, CfgEnd
<1>4. \A n \in 1 .. Len(file) : Counts(n) <=> n \in 1 .. pos
  BY <1>1, <1>2, <1>3, SMTT(30)
<1>5. \A i : ItemLines(i) = ItemSeen(i)
  BY <1>2, <1>4 DEF ItemLines, ItemSeen
<1>6. \A z : RedisLines(z) = RedisSeen(z)
  BY <1>2, <1>4 DEF RedisLines, RedisSeen
<1>7. \A z : MysqlLines(z) = MysqlSeen(z)
  BY <1>2, <1>4 DEF MysqlLines, MysqlSeen
<1> QED
  BY <1>4, <1>5, <1>6, <1>7

LEMMA SettingsSound == ASSUME CfgInv PROVE LoopSettings
<1>1. Len(file) \in Nat /\ pos \in Nat /\ pos <= Len(file)
  BY FileLength DEF CfgInv
<1>2. ASSUME cfgState = "false" PROVE RejectedLines # {}
  <2>1. pos > 0 /\ Rejected(file[pos])
    BY <1>2 DEF CfgInv, CfgEnd
  <2>2. pos \in 1 .. pos /\ pos \in 1 .. Len(file)
    BY <1>1, <2>1, SMTT(30)
  <2>3. Counts(pos)
    BY <2>2 DEF CfgInv, CfgScan
  <2> QED
    BY <2>1, <2>2, <2>3 DEF RejectedLines
<1>3. ASSUME cfgState = "true" PROVE RejectedLines = {}
  <2>1. \A n \in 1 .. pos : ~Rejected(file[n])
    BY <1>3 DEF CfgInv, CfgEnd
  <2> QED
    BY <1>3, <2>1, SeenAll DEF RejectedLines
<1>4. \A S : S \in SUBSET (1 .. pos) => S \in SUBSET (Nat \ {0})
  BY <1>1, SMTT(30)
<1>5. ASSUME cfgState = "true", NEW i \in DOMAIN Defaults
      PROVE  m_perf[i] = IF Last(ItemLines(i)) = 0 THEN Defaults[i]
                         ELSE ItemValue(file[Last(ItemLines(i))])
  <2>1. ItemLines(i) = ItemSeen(i)
    BY <1>5, SeenAll
  <2>2. ItemSeen(i) \in SUBSET (Nat \ {0})
    BY <1>4 DEF ItemSeen
  <2>3. CASE ItemSeen(i) = {} /\ m_perf[i] = Defaults[i]
    BY <2>1, <2>3 DEF Last
  <2>4. CASE \E n \in ItemSeen(i) : IsLast(n, ItemSeen(i)) /\ m_perf[i] = ItemValue(file[n])
    <3>1. PICK n \in ItemSeen(i) : IsLast(n, ItemSeen(i)) /\ m_perf[i] = ItemValue(file[n])
      BY <2>4
    <3>2. n = Last(ItemSeen(i))
      BY <2>2, <3>1, LastUnique
    <3>3. n # 0
      BY <2>2
    <3> QED
      BY <2>1, <3>1, <3>2, <3>3
  <2> QED
    BY <2>3, <2>4 DEF CfgInv, CfgItems
<1>6. ASSUME cfgState = "true", NEW z \in CfgZones
      PROVE  m_configRedisMap[z] = First(RedisLines(z)) /\ m_configMysqlMap[z] = First(MysqlLines(z))
  <2>1. RedisLines(z) = RedisSeen(z) /\ MysqlLines(z) = MysqlSeen(z)
    BY <1>6, SeenAll
  <2>2. RedisSeen(z) \in SUBSET (Nat \ {0}) /\ MysqlSeen(z) \in SUBSET (Nat \ {0})
    BY <1>4 DEF RedisSeen, MysqlSeen
  <2>3. cfgState # "false"
    BY <1>6
  <2>4. IsFirst(m_configRedisMap[z], RedisSeen(z)) /\ IsFirst(m_configMysqlMap[z], MysqlSeen(z))
    BY <2>3 DEF CfgInv, CfgSources
  <2>5. m_configRedisMap[z] = First(RedisSeen(z))
    BY <2>2, <2>4, FirstUnique
  <2>6. m_configMysqlMap[z] = First(MysqlSeen(z))
    BY <2>2, <2>4, FirstUnique
  <2> QED
    BY <2>1, <2>5, <2>6
<1> QED
  BY <1>2, <1>3, <1>5, <1>6 DEF LoopSettings

-----------------------------------------------------------------------------
(* Induction over the natural numbers, for a property given as a set.      *)

(* A nonempty set of natural numbers has a least element.                  *)
LEMMA LeastNatural ==
  ASSUME NEW T, T \subseteq Nat, T # {}
  PROVE  \E x \in T : \A y \in T : x <= y
<1> DEFINE R == OpToRel(<, Nat)
<1>1. IsWellFoundedOn(R, Nat)
  BY NatLessThanWellFounded
<1>2. \A x, y \in Nat : x < y => <<x, y>> \in R
  BY DEF OpToRel
<1> HIDE DEF R
<1>3. PICK x \in T : \A y \in T : ~ (<<y, x>> \in R)
  BY <1>1, WFMin
<1>4. ASSUME NEW y \in T PROVE x <= y
  <2>1. x \in Nat /\ y \in Nat
    OBVIOUS
  <2>2. ~ (y < x)
    BY <1>2, <1>3, <2>1
  <2> QED
    BY <2>1, <2>2, SMT
<1> QED
  BY <1>3, <1>4

(* A set that holds 0 and, with each number, the next holds all of them.   *)
LEMMA SetInduction ==
  ASSUME NEW S, 0 \in S, \A n \in Nat : n \in S => n + 1 \in S
  PROVE  Nat \subseteq S
<1> DEFINE T == Nat \ S
<1>1. SUFFICES ASSUME T # {} PROVE FALSE
  OBVIOUS
<1>2. T \subseteq Nat
  OBVIOUS
<1> HIDE DEF T
<1>3. PICK x \in T : \A y \in T : x <= y
  BY <1>1, <1>2, LeastNatural
<1> USE DEF T
<1>4. x # 0
  OBVIOUS
<1>5. x - 1 \in Nat /\ ~ (x <= x - 1)
  BY <1>4, SMT
<1>6. x - 1 \in S
  BY <1>3, <1>5
<1> QED
  BY <1>5, <1>6, SMT

-----------------------------------------------------------------------------
(* The fields of a text                                                    *)

(* The separators among the first m characters of u.                       *)
Cuts(u, m) == {i \in 1 .. m : u[i] = "&"}

(* What is known of a text u: it is a sequence, so its ends are finite.    *)
LEMMA CutsType ==
  ASSUME NEW u, NEW m \in Nat
  PROVE  IsFiniteSet(Cuts(u, m)) /\ Cardinality(Cuts(u, m)) \in Nat
<1>1. IsFiniteSet(1 .. m)
  <2>1. 1 \in Int /\ m \in Int
    BY SMT
  <2> QED
    BY <2>1, FS_Interval
<1>2. Cuts(u, m) \in SUBSET (1 .. m)
  BY DEF Cuts
<1>3. IsFiniteSet(Cuts(u, m))
  BY <1>1, <1>2, FS_Subset
<1> QED
  BY <1>3, FS_CardinalityType

(* A separator is one more cut, another character is none.                 *)
LEMMA CutsStep ==
  ASSUME NEW u, NEW m \in Nat
  PROVE  /\ u[m + 1] = "&" => Cardinality(Cuts(u, m + 1)) = Cardinality(Cuts(u, m)) + 1
         /\ u[m + 1] # "&" => Cuts(u, m + 1) = Cuts(u, m)
<1>1. \A i : i \in 1 .. (m + 1) <=> i \in 1 .. m \/ i = m + 1
  BY SMT
<1>2. ~ (m + 1 \in 1 .. m)
  BY SMT
<1>3. CASE u[m + 1] = "&"
  <2>1. Cuts(u, m + 1) = Cuts(u, m) \cup {m + 1}
    BY <1>1, <1>3 DEF Cuts
  <2>2. ~ (m + 1 \in Cuts(u, m))
    BY <1>2 DEF Cuts
  <2>3. Cardinality(Cuts(u, m) \cup {m + 1}) = Cardinality(Cuts(u, m)) + 1
    BY <2>2, CutsType, FS_AddElement
  <2> QED
    BY <1>3, <2>1, <2>3
<1>4. CASE u[m + 1] # "&"
  BY <1>1, <1>4 DEF Cuts
<1> QED
  BY <1>3, <1>4

(* Distinct positions have distinct numbers of positions before them.      *)
LEMMA BeforeMonotone ==
  ASSUME NEW ends, ends \subseteq Nat, IsFiniteSet(ends),
         NEW d \in ends, NEW e \in ends, d < e
  PROVE  Cardinality(EndsBefore(ends, d)) # Cardinality(EndsBefore(ends, e))
<1>1. EndsBefore(ends, e) \in SUBSET ends
  BY DEF EndsBefore
<1>2. IsFiniteSet(EndsBefore(ends, e))
  BY <1>1, FS_Subset
<1>3. d \in Nat /\ e \in Nat
  OBVIOUS
<1>4. EndsBefore(ends, d) \in SUBSET EndsBefore(ends, e)
  <2>1. SUFFICES ASSUME NEW i \in EndsBefore(ends, d) PROVE i \in EndsBefore(ends, e)
    OBVIOUS
  <2>2. i \in ends /\ i \in Nat /\ i < d
    BY DEF EndsBefore
  <2>3. i < e
    BY <1>3, <2>2, SMT
  <2> QED
    BY <2>2, <2>3 DEF EndsBefore
<1>5. d \in EndsBefore(ends, e)
  BY DEF EndsBefore
<1>6. ~ (d \in EndsBefore(ends, d))
  <2>1. ~ (d < d)
    BY <1>3, SMT
  <2> QED
    BY <2>1 DEF EndsBefore
<1>7. EndsBefore(ends, e) # EndsBefore(ends, d)
  BY <1>5, <1>6
<1>8. Cardinality(EndsBefore(ends, e)) = Cardinality(EndsBefore(ends, d))
      => EndsBefore(ends, e) = EndsBefore(ends, d)
  BY <1>2, <1>4, FS_Subset
<1> QED
  BY <1>7, <1>8

(* The position with k - 1 others before it is the k-th.                   *)
LEMMA EndUnique ==
  ASSUME NEW ends, ends \subseteq Nat, IsFiniteSet(ends),
         NEW e \in ends, NEW k, Cardinality(EndsBefore(ends, e)) = k - 1
  PROVE  FieldEnd(ends, k) = e
<1>1. ASSUME NEW d \in ends, Cardinality(EndsBefore(ends, d)) = k - 1 PROVE d = e
  <2>1. d \in Nat /\ e \in Nat
    OBVIOUS
  <2>2. ~ (d < e)
    BY <1>1, BeforeMonotone
  <2>3. ~ (e < d)
    BY <1>1, BeforeMonotone
  <2> QED
    BY <2>1, <2>2, <2>3, SMT
<1> QED
  BY <1>1 DEF FieldEnd

(* The ends of the fields of u, and what stands before each of them.       *)
LEMMA EndsFacts ==
  ASSUME NEW C, NEW u \in Seq(C)
  PROVE  /\ FieldEnds(u) \subseteq Nat /\ IsFiniteSet(FieldEnds(u))
         /\ \A m \in 0 .. Len(u) : EndsBefore(FieldEnds(u), m + 1) = Cuts(u, m)
         /\ \A m \in 1 .. Len(u) : u[m] = "&" => m \in FieldEnds(u)
         /\ Len(u) = 0 \/ u[Len(u)] = "&" => FieldEnds(u) = Cuts(u, Len(u))
         /\ Len(u) > 0 /\ u[Len(u)] # "&" =>
              FieldEnds(u) = Cuts(u, Len(u)) \cup {Len(u) + 1}
<1> DEFINE N == Len(u)
<1>1. N \in Nat
  BY SMT
<1> HIDE DEF N
<1>2. FieldEnds(u) = Cuts(u, N) \cup (IF N > 0 /\ u[N] # "&" THEN {N + 1} ELSE {})
  BY DEF FieldEnds, Cuts, N
<1>3. N = 0 \/ u[N] = "&" => FieldEnds(u) = Cuts(u, N)
  <2>1. N = 0 => ~ (N > 0)
    BY <1>1, SMT
  <2> QED
    BY <1>2, <2>1
<1>4. N > 0 /\ u[N] # "&" => FieldEnds(u) = Cuts(u, N) \cup {N + 1}
  BY <1>2
<1>5. FieldEnds(u) = Cuts(u, N) \/ FieldEnds(u) = Cuts(u, N) \cup {N + 1}
  BY <1>2
<1>6. IsFiniteSet(Cuts(u, N)) /\ IsFiniteSet(Cuts(u, N) \cup {N + 1})
  BY <1>1, CutsType, FS_AddElement
<1>7. FieldEnds(u) \subseteq Nat
  <2>1. Cuts(u, N) \subseteq Nat
    <3>1. 1 .. N \subseteq Nat
      BY <1>1, SMT
    <3> QED
      BY <3>1 DEF Cuts
  <2>2. N + 1 \in Nat
    BY <1>1, SMT
  <2> QED
    BY <1>5, <2>1, <2>2
<1>8. ASSUME NEW m \in 0 .. N PROVE EndsBefore(FieldEnds(u), m + 1) = Cuts(u, m)
  <2>1. ~ (N + 1 < m + 1)
    BY <1>1, SMT
  <2>2. ASSUME NEW i PROVE i \in 1 .. N /\ i < m + 1 <=> i \in 1 .. m
    BY <1>1, SMT
  <2> QED
    BY <1>5, <2>1, <2>2 DEF EndsBefore, Cuts
<1>9. ASSUME NEW m \in 1 .. N, u[m] = "&" PROVE m \in FieldEnds(u)
  BY <1>5, <1>9 DEF Cuts
<1> QED
  BY <1>3, <1>4, <1>5, <1>6, <1>7, <1>8, <1>9 DEF N

(* Field c + 1 ends at position m + 1, where c cuts come before it.        *)
LEMMA EndHere ==
  ASSUME NEW C, NEW u \in Seq(C), NEW m \in 0 .. Len(u), m + 1 \in FieldEnds(u)
  PROVE  FieldEnd(FieldEnds(u), Cardinality(Cuts(u, m)) + 1) = m + 1
<1> DEFINE c == Cardinality(Cuts(u, m))
           ends == FieldEnds(u)
<1>1. m \in Nat
  BY SMT
<1>2. c \in Nat
  BY <1>1, CutsType
<1>3. Cardinality(EndsBefore(ends, m + 1)) = c
  BY EndsFacts
<1>4. ends \subseteq Nat /\ IsFiniteSet(ends) /\ m + 1 \in ends
  BY EndsFacts
<1> HIDE DEF c, ends
<1>5. c = (c + 1) - 1
  BY <1>2, SMT
<1>6. Cardinality(EndsBefore(ends, m + 1)) = (c + 1) - 1
  BY <1>3, <1>5
<1>7. FieldEnd(ends, c + 1) = m + 1
  BY <1>4, <1>6, EndUnique
<1> QED
  BY <1>7 DEF c, ends

-----------------------------------------------------------------------------
(* The loop of SplitString2                                                *)

(* What the loop starts with, and f holds what it has after each turn.     *)
SplitFirst == [vec |-> <<>>, start |-> 1]
IsScan(f, s, n) ==
  f = [i \in 0 .. n |-> IF i = 0 THEN SplitFirst ELSE SplitTurn(s, i, f[i - 1])]

(* The recursive definition of the loop has a solution, however long.      *)
LEMMA ScanExists ==
  ASSUME NEW s, NEW n \in Nat
  PROVE  \E f : IsScan(f, s, n)
<1> DEFINE S == {m \in Nat : \E f : IsScan(f, s, m)}
<1>1. 0 \in S
  <2> DEFINE g == [i \in 0 .. 0 |-> SplitFirst]
  <2>1. g = [i \in 0 .. 0 |-> IF i = 0 THEN SplitFirst ELSE SplitTurn(s, i, g[i - 1])]
    BY SMT
  <2>2. IsScan(g, s, 0)
    BY <2>1 DEF IsScan
  <2> QED
    BY <2>2
<1>2. ASSUME NEW m \in Nat, m \in S PROVE m + 1 \in S
  <2>1. PICK f : IsScan(f, s, m)
    BY <1>2
  <2>2. f = [i \in 0 .. m |-> IF i = 0 THEN SplitFirst ELSE SplitTurn(s, i, f[i - 1])]
    BY <2>1 DEF IsScan
  <2> DEFINE g == [i \in 0 .. (m + 1) |-> IF i = m + 1 THEN SplitTurn(s, i, f[m]) ELSE f[i]]
  <2>3. g[0] = SplitFirst
    BY <2>2, SMT
  <2>4. ASSUME NEW i \in 1 .. (m + 1) PROVE g[i] = SplitTurn(s, i, g[i - 1])
    <3>1. i - 1 \in 0 .. m /\ i - 1 # m + 1 /\ i - 1 \in 0 .. (m + 1)
      BY SMT
    <3>2. g[i - 1] = f[i - 1]
      BY <3>1
    <3>3. CASE i = m + 1
      <4>1. i - 1 = m /\ i \in 0 .. (m + 1)
        BY <3>3, SMT
      <4>2. g[i] = SplitTurn(s, i, f[m])
        BY <3>3, <4>1
      <4> QED
        BY <3>2, <4>1, <4>2
    <3>4. CASE i # m + 1
      <4>1. i \in 0 .. m /\ i # 0 /\ i \in 0 .. (m + 1)
        BY <3>4, SMT
      <4>2. f[i] = SplitTurn(s, i, f[i - 1])
        BY <2>2, <4>1
      <4> QED
        BY <3>2, <3>4, <4>1, <4>2
    <3> QED
      BY <3>3, <3>4
  <2>5. g = [i \in 0 .. (m + 1) |-> g[i]]
    OBVIOUS
  <2> HIDE DEF g
  <2>6. \A i \in 0 .. (m + 1) : g[i] = IF i = 0 THEN SplitFirst ELSE SplitTurn(s, i, g[i - 1])
    <3>1. SUFFICES ASSUME NEW i \in 0 .. (m + 1), i # 0 PROVE g[i] = SplitTurn(s, i, g[i - 1])
      BY <2>3
    <3>2. i \in 1 .. (m + 1)
      BY <3>1, SMT
    <3> QED
      BY <2>4, <3>2
  <2>7. IsScan(g, s, m + 1)
    BY <2>5, <2>6 DEF IsScan
  <2>8. m + 1 \in Nat
    BY SMT
  <2> QED
    BY <2>7, <2>8
<1> HIDE DEF S
<1>3. Nat \subseteq S
  BY <1>1, <1>2, SetInduction
<1> QED
  BY <1>3 DEF S

(* SplitString2 returns the fields that the last turn leaves.              *)
LEMMA SplitScan ==
  ASSUME NEW C, NEW s \in Seq(C)
  PROVE  \E f : /\ SplitString2(s) = f[Len(s)].vec
                /\ f[0] = SplitFirst
                /\ \A i \in 1 .. Len(s) : f[i] = SplitTurn(s, i, f[i - 1])
<1> DEFINE N == Len(s)
           Scan[i \in 0 .. N] ==
             IF i = 0 THEN [vec |-> <<>>, start |-> 1] ELSE SplitTurn(s, i, Scan[i - 1])
<1>1. N \in Nat
  BY SMT
<1>2. SplitString2(s) = Scan[N].vec
  BY DEF SplitString2
<1>3. IsScan(Scan, s, N)
  <2>1. \E f : IsScan(f, s, N)
    BY <1>1, ScanExists
  <2> QED
    BY <2>1 DEF IsScan, SplitFirst
<1> HIDE DEF Scan, N
<1>4. Scan = [i \in 0 .. N |-> IF i = 0 THEN SplitFirst ELSE SplitTurn(s, i, Scan[i - 1])]
  BY <1>3 DEF IsScan
<1>5. Scan[0] = SplitFirst
  <2>1. 0 \in 0 .. N
    BY <1>1, SMT
  <2> QED
    BY <1>4, <2>1
<1>6. ASSUME NEW i \in 1 .. N PROVE Scan[i] = SplitTurn(s, i, Scan[i - 1])
  <2>1. i \in 0 .. N /\ i # 0
    BY <1>1, SMT
  <2> QED
    BY <1>4, <2>1
<1> QED
  BY <1>2, <1>5, <1>6 DEF N

(* s is u behind d separators, of which SplitString2 drops the first.      *)
Behind(C, s, d, u) ==
  /\ s \in Seq(C) /\ u \in Seq(C) /\ d \in {0, 1}
  /\ Len(s) = Len(u) + d
  /\ \A i \in 1 .. Len(u) : s[i + d] = u[i]
  /\ IF d = 1 THEN s[1] = "&" ELSE Len(s) > 0 => s[1] # "&"

(* The same characters of s and u.                                         *)
SameParts(s, d, u) ==
  \A m \in 0 .. Len(u) : \A b \in 1 .. (m + 1) : SubSeq(s, d + b, m + d) = SubSeq(u, b, m)

LEMMA PartValue ==
  ASSUME NEW C, NEW s \in Seq(C), NEW a \in Nat, NEW n \in Nat, a >= 1, n <= Len(s)
  PROVE  SubSeq(s, a, n) = [i \in 1 .. ((n + 1) - a) |-> s[(a + i) - 1]]
BY SMTT(30)

LEMMA SamePart ==
  ASSUME NEW C, NEW s, NEW u, NEW d, Behind(C, s, d, u)
  PROVE  SameParts(s, d, u)
<1> SUFFICES ASSUME NEW m \in 0 .. Len(u), NEW b \in 1 .. (m + 1)
             PROVE  SubSeq(s, d + b, m + d) = SubSeq(u, b, m)
  BY DEF SameParts
<1>1. /\ s \in Seq(C) /\ u \in Seq(C) /\ d \in {0, 1}
      /\ Len(s) = Len(u) + d
      /\ \A i \in 1 .. Len(u) : s[i + d] = u[i]
  BY DEF Behind
<1>2. SubSeq(s, d + b, m + d) = [i \in 1 .. ((m + 1) - b) |-> s[((d + b) + i) - 1]]
  <2> DEFINE a == d + b
             n == m + d
  <2>1. a \in Nat /\ n \in Nat /\ a >= 1 /\ n <= Len(s) /\ (n + 1) - a = (m + 1) - b
    BY <1>1, SMT
  <2> HIDE DEF a, n
  <2>2. SubSeq(s, a, n) = [i \in 1 .. ((n + 1) - a) |-> s[(a + i) - 1]]
    BY <1>1, <2>1, PartValue
  <2> QED
    BY <2>1, <2>2 DEF a, n
<1>3. SubSeq(u, b, m) = [i \in 1 .. ((m + 1) - b) |-> u[(b + i) - 1]]
  <2>1. b \in Nat /\ m \in Nat /\ b >= 1 /\ m <= Len(u)
    BY <1>1, SMT
  <2> QED
    BY <1>1, <2>1, PartValue
<1>4. ASSUME NEW i \in 1 .. ((m + 1) - b) PROVE s[((d + b) + i) - 1] = u[(b + i) - 1]
  <2>1. (b + i) - 1 \in 1 .. Len(u) /\ ((b + i) - 1) + d = ((d + b) + i) - 1
    BY <1>1, SMT
  <2> QED
    BY <1>1, <2>1
<1> QED
  BY <1>2, <1>3, <1>4

(* Field k of u, and the first c of them.                                  *)
Field(u, k) == SubSeq(u, FieldStart(FieldEnds(u), k), FieldEnd(FieldEnds(u), k) - 1)
FirstFields(u, c) == [k \in 1 .. c |-> Field(u, k)]

LEMMA AppendField ==
  ASSUME NEW u, NEW c \in Nat
  PROVE  Append(FirstFields(u, c), Field(u, c + 1)) = FirstFields(u, c + 1)
<1> DEFINE F == [k \in 1 .. (c + 1) |-> Field(u, k)]
           X == {Field(u, k) : k \in 1 .. (c + 1)}
           G == [k \in 1 .. c |-> F[k]]
<1>1. \A k \in 1 .. c : k \in 1 .. (c + 1)
  BY SMT
<1>2. c + 1 \in 1 .. (c + 1)
  BY SMT
<1>3. F \in [1 .. (c + 1) -> X]
  OBVIOUS
<1>4. FirstFields(u, c) = G
  BY <1>1 DEF FirstFields
<1>5. F[c + 1] = Field(u, c + 1)
  BY <1>2
<1>6. F = FirstFields(u, c + 1)
  BY DEF FirstFields
<1> HIDE DEF F, X
<1>7. G \in Seq(X) /\ Len(G) = c /\ F[c + 1] \in X
  BY <1>3, SMT
<1>8. Append(G, F[c + 1]) = F
  <2>1. F = [k \in 1 .. (c + 1) |-> F[k]]
    BY <1>3
  <2>2. Append(G, F[c + 1]) = [k \in 1 .. (c + 1) |-> IF k = c + 1 THEN F[c + 1] ELSE G[k]]
    <3> HIDE DEF G
    <3> QED
      BY <1>7, SMTT(30)
  <2>3. ASSUME NEW k \in 1 .. (c + 1) PROVE F[k] = IF k = c + 1 THEN F[c + 1] ELSE G[k]
    BY SMT
  <2> HIDE DEF G
  <2> QED
    BY <2>1, <2>2, <2>3
<1> QED
  BY <1>4, <1>5, <1>6, <1>8

(* p holds the fields that end among the first m characters of u, and the  *)
(* start of the next one.                                                  *)
SplitUpTo(p, u, d, m) ==
  LET c == Cardinality(Cuts(u, m))
      b == FieldStart(FieldEnds(u), c + 1)
  IN  p = [vec |-> FirstFields(u, c), start |-> d + b] /\ b \in 1 .. (m + 1)

(* p holds all the fields of u.                                            *)
SplitAll(p, u) == p.vec = FieldsOf(u)

(* A turn at a separator other than one in front ends a field.             *)
LEMMA TurnSeparator ==
  ASSUME NEW C, NEW s, NEW u, NEW d, Behind(C, s, d, u),
         NEW m \in 0 .. Len(u), m < Len(u), u[m + 1] = "&", NEW p, SplitUpTo(p, u, d, m)
  PROVE  SplitUpTo(SplitTurn(s, (m + 1) + d, p), u, d, m + 1)
<1>0. s \in Seq(C) /\ u \in Seq(C) /\ d \in {0, 1}
  BY DEF Behind
<1> DEFINE c == Cardinality(Cuts(u, m))
           b == FieldStart(FieldEnds(u), c + 1)
           i == (m + 1) + d
<1>1. m \in Nat /\ m + 1 \in 1 .. Len(u) /\ m + 1 \in Nat
  BY <1>0, SMT
<1>2. p = [vec |-> FirstFields(u, c), start |-> d + b] /\ b \in 1 .. (m + 1)
  BY DEF SplitUpTo
<1>3. c \in Nat
  BY <1>1, CutsType
<1>4. s[i] = "&" /\ i # 1
  <2>1. s[i] = u[m + 1]
    BY <1>1 DEF Behind
  <2>2. i = 1 => d = 0 /\ Len(s) > 0
    BY <1>0, <1>1, SMT DEF Behind
  <2>3. ~ (0 = 1)
    BY SMT
  <2> QED
    BY <2>1, <2>2, <2>3 DEF Behind
<1>5. FieldEnd(FieldEnds(u), c + 1) = m + 1
  <2>1. m + 1 \in FieldEnds(u)
    BY <1>0, <1>1, EndsFacts
  <2> QED
    BY <2>1, <1>0, EndHere
<1>6. Cardinality(Cuts(u, m + 1)) = c + 1
  BY <1>1, CutsStep
<1>7. FieldStart(FieldEnds(u), (c + 1) + 1) = m + 2
  <2> HIDE DEF c
  <2>1. (c + 1) + 1 # 1 /\ ((c + 1) + 1) - 1 = c + 1 /\ (m + 1) + 1 = m + 2
    BY <1>1, <1>3, SMT
  <2> QED
    BY <1>5, <2>1 DEF FieldStart
<1>8. Field(u, c + 1) = SubSeq(u, b, m)
  <2>1. (m + 1) - 1 = m
    BY <1>0, <1>1, SMT
  <2> QED
    BY <1>5, <2>1 DEF Field
<1>9. SubSeq(s, d + b, i - 1) = SubSeq(u, b, m)
  <2> HIDE DEF b
  <2>1. i - 1 = m + d
    BY <1>0, <1>1, SMT
  <2>2. b \in 1 .. (m + 1)
    BY <1>2
  <2>3. SameParts(s, d, u)
    BY SamePart
  <2>4. SubSeq(s, d + b, m + d) = SubSeq(u, b, m)
    BY <2>2, <2>3 DEF SameParts
  <2> QED
    BY <2>1, <2>4
<1>10. SplitTurn(s, i, p) = [vec |-> Append(p.vec, SubSeq(s, p.start, i - 1)), start |-> i + 1]
  BY <1>4 DEF SplitTurn
<1>11. p.vec = FirstFields(u, c) /\ p.start = d + b
  BY <1>2
<1>12. Append(p.vec, SubSeq(s, p.start, i - 1)) = FirstFields(u, c + 1)
  BY <1>3, <1>8, <1>9, <1>11, AppendField
<1>13. i + 1 = d + (m + 2) /\ m + 2 \in 1 .. ((m + 1) + 1)
  BY <1>0, <1>1, SMT
<1> QED
  BY <1>6, <1>7, <1>10, <1>12, <1>13 DEF SplitUpTo

(* A turn at another character that is not the last changes nothing.       *)
LEMMA TurnInside ==
  ASSUME NEW C, NEW s, NEW u, NEW d, Behind(C, s, d, u),
         NEW m \in 0 .. Len(u), m + 1 < Len(u), u[m + 1] # "&", NEW p, SplitUpTo(p, u, d, m)
  PROVE  SplitUpTo(SplitTurn(s, (m + 1) + d, p), u, d, m + 1)
<1>0. s \in Seq(C) /\ u \in Seq(C) /\ d \in {0, 1}
  BY DEF Behind
<1> DEFINE c == Cardinality(Cuts(u, m))
           b == FieldStart(FieldEnds(u), c + 1)
           i == (m + 1) + d
<1>1. m \in Nat /\ m + 1 \in 1 .. Len(u) /\ m + 1 \in Nat
  BY <1>0, SMT
<1>2. p = [vec |-> FirstFields(u, c), start |-> d + b] /\ b \in 1 .. (m + 1)
  BY DEF SplitUpTo
<1>3. s[i] # "&"
  BY <1>1 DEF Behind
<1>4. i # Len(s)
  <2>1. Len(s) = Len(u) + d
    BY DEF Behind
  <2> QED
    BY <1>0, <1>1, <2>1, SMT
<1>5. SplitTurn(s, i, p) = p
  BY <1>3, <1>4 DEF SplitTurn
<1>6. Cuts(u, m + 1) = Cuts(u, m)
  BY <1>1, CutsStep
<1>7. b \in 1 .. ((m + 1) + 1)
  <2> HIDE DEF b
  <2> QED
    BY <1>1, <1>2, SMT
<1> QED
  BY <1>2, <1>5, <1>6, <1>7 DEF SplitUpTo

(* A turn at the last character, unless it is a separator, ends a field.   *)
LEMMA TurnLast ==
  ASSUME NEW C, NEW s, NEW u, NEW d, Behind(C, s, d, u),
         NEW m \in 0 .. Len(u), m + 1 = Len(u), u[m + 1] # "&", NEW p, SplitUpTo(p, u, d, m)
  PROVE  SplitAll(SplitTurn(s, (m + 1) + d, p), u)
<1>0. s \in Seq(C) /\ u \in Seq(C) /\ d \in {0, 1}
  BY DEF Behind
<1> DEFINE c == Cardinality(Cuts(u, m))
           b == FieldStart(FieldEnds(u), c + 1)
           i == (m + 1) + d
           n == m + 1
<1>1. m \in Nat /\ n \in 1 .. Len(u) /\ n \in Nat /\ n \in 0 .. Len(u) /\ Len(u) > 0
  BY <1>0, SMT
<1>2. p = [vec |-> FirstFields(u, c), start |-> d + b] /\ b \in 1 .. (m + 1)
  BY DEF SplitUpTo
<1>3. c \in Nat
  BY <1>1, CutsType
<1>4. s[i] # "&"
  BY <1>1 DEF Behind
<1>5. i = Len(s)
  BY DEF Behind
<1>6. Cuts(u, n) = Cuts(u, m)
  BY <1>1, CutsStep
<1>7. FieldEnds(u) = Cuts(u, n) \cup {n + 1}
  BY <1>0, <1>1, EndsFacts
<1>8. Cardinality(FieldEnds(u)) = c + 1
  <2>1. ~ (n + 1 \in Cuts(u, n))
    <3>1. ~ (n + 1 \in 1 .. n)
      BY <1>0, <1>1, SMT
    <3> QED
      BY <3>1 DEF Cuts
  <2>2. IsFiniteSet(Cuts(u, n))
    BY <1>1, CutsType
  <2>3. Cardinality(Cuts(u, n) \cup {n + 1}) = Cardinality(Cuts(u, n)) + 1
    BY <2>1, <2>2, FS_AddElement
  <2> QED
    BY <1>6, <1>7, <2>3
<1>9. FieldEnd(FieldEnds(u), c + 1) = n + 1
  <2>1. n + 1 \in FieldEnds(u)
    BY <1>7
  <2>2. FieldEnd(FieldEnds(u), Cardinality(Cuts(u, n)) + 1) = n + 1
    BY <1>1, <2>1, <1>0, EndHere
  <2> QED
    BY <1>6, <2>2
<1>10. Field(u, c + 1) = SubSeq(u, b, n)
  <2>1. (n + 1) - 1 = n
    BY <1>0, <1>1, SMT
  <2> QED
    BY <1>9, <2>1 DEF Field
<1>11. SubSeq(s, d + b, i) = SubSeq(u, b, n)
  <2> HIDE DEF b
  <2>1. b \in 1 .. (n + 1)
    BY <1>1, <1>2, SMT
  <2>2. SameParts(s, d, u)
    BY SamePart
  <2>3. SubSeq(s, d + b, n + d) = SubSeq(u, b, n)
    BY <1>1, <2>1, <2>2 DEF SameParts
  <2> QED
    BY <2>3
<1>12. SplitTurn(s, i, p) = [p EXCEPT !.vec = Append(p.vec, SubSeq(s, p.start, i))]
  BY <1>4, <1>5 DEF SplitTurn
<1>13. p.vec = FirstFields(u, c) /\ p.start = d + b
  BY <1>2
<1>14. SplitTurn(s, i, p).vec = Append(p.vec, SubSeq(s, p.start, i))
  <2> DEFINE x == Append(p.vec, SubSeq(s, p.start, i))
             y == FirstFields(u, c)
             z == d + b
  <2> HIDE DEF x, y, z
  <2>1. p = [vec |-> y, start |-> z]
    BY <1>2 DEF y, z
  <2>2. SplitTurn(s, i, p) = [p EXCEPT !.vec = x]
    BY <1>12 DEF x
  <2>3. [p EXCEPT !.vec = x].vec = x
    BY <2>1, SMT
  <2> QED
    BY <2>2, <2>3 DEF x
<1>15. Append(p.vec, SubSeq(s, p.start, i)) = FirstFields(u, c + 1)
  BY <1>3, <1>10, <1>11, <1>13, AppendField
<1>16. FieldsOf(u) = FirstFields(u, c + 1)
  BY <1>8 DEF FieldsOf, FirstFields, Field
<1> QED
  BY <1>14, <1>15, <1>16 DEF SplitAll

(* After m characters behind the leading separator the loop has the fields *)
(* that end there; with the last character it has all of them.             *)
LEMMA SplitBehind ==
  ASSUME NEW C, NEW s, NEW u, NEW d, Behind(C, s, d, u)
  PROVE  SplitString2(s) = FieldsOf(u)
<1>0. s \in Seq(C) /\ u \in Seq(C) /\ d \in {0, 1}
  BY DEF Behind
<1>1. PICK f : /\ SplitString2(s) = f[Len(s)].vec
               /\ f[0] = SplitFirst
               /\ \A i \in 1 .. Len(s) : f[i] = SplitTurn(s, i, f[i - 1])
  BY <1>0, SplitScan
<1> DEFINE N == Len(u)
           Open(m) == m < N \/ m = 0 \/ u[m] = "&"
           S == {m \in Nat : m <= N => IF Open(m) THEN SplitUpTo(f[m + d], u, d, m)
                                                  ELSE f[m + d].vec = FieldsOf(u)}
<1>2. N \in Nat /\ Len(s) = N + d
  BY <1>0, SMT DEF Behind
<1>3. SplitUpTo(f[0 + d], u, d, 0)
  <2>1. Cardinality(Cuts(u, 0)) = 0
    <3>1. Cuts(u, 0) = {}
      <4>1. 1 .. 0 = {}
        BY SMT
      <4> QED
        BY <4>1 DEF Cuts
    <3> QED
      BY <3>1, FS_EmptySet
  <2>2. FieldStart(FieldEnds(u), 0 + 1) = 1
    <3>1. 0 + 1 = 1
      BY SMT
    <3> QED
      BY <3>1 DEF FieldStart
  <2>3. FirstFields(u, 0) = <<>>
    <3>1. 1 .. 0 = {}
      BY SMT
    <3> DEFINE F == [k \in {} |-> Field(u, k)]
    <3>2. F = <<>>
      BY SMT
    <3> QED
      BY <3>1, <3>2 DEF FirstFields
  <2>4. f[0 + d] = [vec |-> <<>>, start |-> d + 1]
    <3>1. CASE d = 0
      <4>1. 0 + 0 = 0 /\ 0 + 1 = 1
        BY SMT
      <4> QED
        BY <1>1, <3>1, <4>1 DEF SplitFirst
    <3>2. CASE d = 1
      <4>1. s[1] = "&" /\ 1 \in 1 .. Len(s)
        <5>1. s[1] = "&"
          BY <3>2 DEF Behind
        <5>2. 1 \in 1 .. Len(s)
          BY <1>2, <3>2, SMT
        <5> QED
          BY <5>1, <5>2
      <4>2. f[1] = SplitTurn(s, 1, f[1 - 1])
        BY <1>1, <4>1
      <4>3. 1 - 1 = 0 /\ 0 + 1 = 1 /\ 1 + 1 = 2
        BY SMT
      <4>4. f[1] = [SplitFirst EXCEPT !.start = 2]
        BY <1>1, <4>1, <4>2, <4>3 DEF SplitTurn
      <4>5. [SplitFirst EXCEPT !.start = 2] = [vec |-> <<>>, start |-> 2]
        BY SMT DEF SplitFirst
      <4> QED
        BY <3>2, <4>3, <4>4, <4>5
    <3> QED
      BY <1>0, <3>1, <3>2
  <2>5. 1 \in 1 .. (0 + 1)
    BY SMT
  <2> QED
    BY <2>1, <2>2, <2>3, <2>4, <2>5 DEF SplitUpTo
<1>4. 0 \in S
  BY <1>3
<1>5. ASSUME NEW m \in Nat, m \in S PROVE m + 1 \in S
  <2>1. SUFFICES ASSUME m + 1 <= N
                 PROVE  IF Open(m + 1) THEN SplitUpTo(f[(m + 1) + d], u, d, m + 1)
                                       ELSE f[(m + 1) + d].vec = FieldsOf(u)
    <3>1. m + 1 \in Nat
      BY SMT
    <3> QED
      BY <3>1
  <2>2. m <= N /\ m < N /\ m \in 0 .. N /\ m + 1 # 0 /\ (m + 1 < N \/ m + 1 = N)
    BY <1>0, <1>2, <2>1, SMT
  <2>3. SplitUpTo(f[m + d], u, d, m)
    BY <1>5, <2>2
  <2>4. f[(m + 1) + d] = SplitTurn(s, (m + 1) + d, f[m + d])
    <3>1. (m + 1) + d \in 1 .. Len(s) /\ ((m + 1) + d) - 1 = m + d
      BY <1>0, <1>2, <2>1, SMT
    <3> QED
      BY <1>1, <3>1
  <2>5. CASE u[m + 1] = "&"
    <3>1. SplitUpTo(f[(m + 1) + d], u, d, m + 1)
      BY <2>2, <2>3, <2>4, <2>5, TurnSeparator
    <3> QED
      BY <2>5, <3>1
  <2>6. CASE u[m + 1] # "&" /\ m + 1 < N
    <3>1. SplitUpTo(f[(m + 1) + d], u, d, m + 1)
      BY <2>2, <2>3, <2>4, <2>6, TurnInside
    <3> QED
      BY <2>6, <3>1
  <2>7. CASE u[m + 1] # "&" /\ m + 1 = N
    <3>1. SplitTurn(s, (m + 1) + d, f[m + d]).vec = FieldsOf(u)
      <4>1. m \in 0 .. Len(u) /\ m + 1 = Len(u)
        BY <2>2, <2>7
      <4>2. u[m + 1] # "&"
        BY <2>7
      <4> HIDE DEF N, Open, S
      <4> DEFINE p == f[m + d]
      <4>3. SplitUpTo(p, u, d, m)
        BY <2>3
      <4> HIDE DEF p
      <4>4. SplitAll(SplitTurn(s, (m + 1) + d, p), u)
        BY <4>1, <4>2, <4>3, TurnLast
      <4> QED
        BY <4>4 DEF p, SplitAll
    <3>2. ~ (m + 1 < N)
      BY <1>2, <2>7, SMT
    <3> QED
      BY <2>2, <2>4, <2>7, <3>1, <3>2
  <2> QED
    BY <2>2, <2>5, <2>6, <2>7
<1> HIDE DEF S
<1>6. Nat \subseteq S
  BY <1>4, <1>5, SetInduction
<1> USE DEF S
<1>7. N \in S /\ N <= N /\ ~ (N < N)
  <2>1. N <= N /\ ~ (N < N)
    BY <1>2, SMT
  <2> QED
    BY <1>2, <1>6, <2>1
<1>8. CASE N = 0 \/ u[N] = "&"
  <2>1. SplitUpTo(f[N + d], u, d, N)
    BY <1>7, <1>8
  <2>2. FieldEnds(u) = Cuts(u, N)
    BY <1>0, <1>8, EndsFacts
  <2> DEFINE c == Cardinality(Cuts(u, N))
  <2>3. f[N + d] = [vec |-> FirstFields(u, c), start |-> d + FieldStart(FieldEnds(u), c + 1)]
    BY <2>1 DEF SplitUpTo
  <2>4. f[N + d].vec = FirstFields(u, Cardinality(FieldEnds(u)))
    <3>1. c = Cardinality(FieldEnds(u))
      BY <2>2
    <3> DEFINE q == f[N + d]
               F == FirstFields(u, c)
               b == d + FieldStart(FieldEnds(u), c + 1)
    <3>2. F = FirstFields(u, Cardinality(FieldEnds(u)))
      BY <3>1
    <3>3. q = [vec |-> F, start |-> b]
      BY <2>3
    <3> HIDE DEF c, F, q, b
    <3>4. q.vec = F
      BY <3>3
    <3> QED
      BY <3>2, <3>4 DEF q
  <2> QED
    BY <1>1, <1>2, <2>4 DEF FieldsOf, FirstFields, Field
<1>9. CASE N # 0 /\ u[N] # "&"
  BY <1>1, <1>2, <1>7, <1>9
<1> QED
  BY <1>8, <1>9

(* SplitString2 makes of every text exactly its fields, however long it is *)
(* and whatever its characters are.                                        *)
THEOREM SplitCorrect ==
  ASSUME NEW C, NEW s \in Seq(C)
  PROVE  SplitString2(s) = FieldsOf(FieldText(s))
<1>1. CASE Len(s) > 0 /\ s[1] = "&"
  <2> DEFINE u == Tail(s)
  <2>1. u \in Seq(C) /\ Len(s) = Len(u) + 1 /\ \A i \in 1 .. Len(u) : s[i + 1] = u[i]
    BY <1>1, SMTT(30)
  <2>2. FieldText(s) = u
    BY <1>1 DEF FieldText
  <2> HIDE DEF u
  <2>3. Behind(C, s, 1, u)
    BY <1>1, <2>1 DEF Behind
  <2> QED
    BY <2>1, <2>2, <2>3, SplitBehind
<1>2. CASE ~ (Len(s) > 0 /\ s[1] = "&")
  <2>1. Len(s) = Len(s) + 0 /\ \A i \in 1 .. Len(s) : i + 0 = i
    BY SMT
  <2>2. Behind(C, s, 0, s)
    <3>1. \A i \in 1 .. Len(s) : s[i + 0] = s[i]
      BY <2>1
    <3>2. Len(s) > 0 => s[1] # "&"
      BY <1>2
    <3>3. 0 # 1
      BY SMT
    <3> QED
      BY <2>1, <3>1, <3>2, <3>3 DEF Behind
  <2>3. FieldText(s) = s
    BY <1>2 DEF FieldText
  <2> QED
    BY <2>2, <2>3, SplitBehind
<1> QED
  BY <1>1, <1>2

(* The text of every line of the file is a sequence, which SplitCorrect is *)
(* about.                                                                  *)
LEMMA FieldsSound == ASSUME CfgTypeOK PROVE FieldsOfLine
<1>1. file \in Seq(LineType)
  BY FilesAssumption DEF CfgTypeOK
<1>2. ASSUME NEW n \in 1 .. Len(file)
      PROVE  SplitString2(file[n].text) = FieldsOf(FieldText(file[n].text))
  <2> DEFINE line == file[n]
  <2>1. line \in LineType
    <3> HIDE DEF LineType
    <3> QED
      BY <1>1, SMT
  <2> HIDE DEF line
  <2>2. line.text \in Seq(STRING)
    BY <2>1 DEF LineType
  <2>3. SplitString2(line.text) = FieldsOf(FieldText(line.text))
    BY <2>2, SplitCorrect
  <2> QED
    BY <2>3 DEF line
<1> QED
  BY <1>2 DEF FieldsOfLine

-----------------------------------------------------------------------------
(* The kinds of lines by their fields are those that the loop sees.        *)

(* The number of fields is a natural number.                               *)
LEMMA FieldCount == ASSUME NEW C, NEW u \in Seq(C) PROVE Len(FieldsOf(u)) \in Nat
<1>1. Cardinality(FieldEnds(u)) \in Nat
  BY EndsFacts, FS_CardinalityType
<1>2. \A c \in Nat : Len(FirstFields(u, c)) = c
  BY SMTT(30) DEF FirstFields
<1>3. FieldsOf(u) = FirstFields(u, Cardinality(FieldEnds(u)))
  BY DEF FieldsOf, FirstFields, Field
<1> QED
  BY <1>1, <1>2, <1>3

LEMMA KindsSound ==
  ASSUME NEW line \in LineType, SplitString2(line.text) = Fields(line)
  PROVE  /\ Rejected(line) => ~WellFormed(line, 7)
         /\ ~Rejected(line) => WellFormed(line, 6)
         /\ \A z : RedisLine(line, z) <=> IsSource(line, "redis") /\ ZoneCode(Fields(line)) = z
         /\ \A z : MysqlLine(line, z) <=> IsSource(line, "mysql") /\ ZoneCode(Fields(line)) = z
<1> DEFINE list == SplitString2(line.text)
<1>1. line.head \in Heads /\ line.text \in Seq(STRING)
  BY DEF LineType
<1>2. DOMAIN Defaults = {"threads", "insert_wait", "insert_max_count", "enable_record", "enable_ssl"}
  BY DEF Defaults
<1>3. /\ IsSource(line, "#") <=> line.head = "source" /\ IsAnno(list)
      /\ IsSource(line, "redis") <=> line.head = "source" /\ IsRedis(list)
      /\ IsSource(line, "mysql") <=> line.head = "source" /\ IsMysql(list)
  BY DEF IsSource, IsAnno, IsRedis, IsMysql
<1>4. Len(Fields(line)) >= 7 => Len(Fields(line)) >= 6
  <2>1. FieldText(line.text) \in Seq(STRING)
    <3>1. \A s \in Seq(STRING) : Len(s) > 0 => Tail(s) \in Seq(STRING)
      BY SMT
    <3> QED
      BY <1>1, <3>1 DEF FieldText
  <2>2. Len(Fields(line)) \in Nat
    BY <2>1, FieldCount DEF Fields
  <2> QED
    BY <2>2, SMT
<1>5. Rejected(line) => ~WellFormed(line, 7)
  <2>1. ASSUME Rejected(line) PROVE line.head \in {"plain", "source"} /\ ~Harmless(line)
    BY <1>2, <1>3, <2>1 DEF Rejected, Harmless, IsSource
  <2>2. line.head = "plain" => ~IsSource(line, "redis") /\ ~IsSource(line, "mysql")
    BY DEF IsSource
  <2> QED
    BY <1>3, <2>1, <2>2 DEF Rejected, WellFormed
<1>6. ~Rejected(line) => WellFormed(line, 6)
  <2>1. line.head \in DOMAIN Defaults \cup {"blank", "#"} \/ line.head = "source" \/ line.head = "plain"
    BY <1>1, <1>2 DEF Heads
  <2> QED
    BY <1>3, <1>4, <2>1 DEF Rejected, WellFormed, Harmless
<1> QED
  BY <1>3, <1>5, <1>6 DEF RedisLine, MysqlLine

LEMMA SettingsMatch == ASSUME CfgTypeOK, FieldsOfLine, LoopSettings PROVE SettingsOfLines
<1>1. \A n \in 1 .. Len(file) : file[n] \in LineType
  <2>1. file \in Seq(LineType)
    BY FilesAssumption DEF CfgTypeOK
  <2> HIDE DEF LineType
  <2> QED
    BY <2>1, SMT
<1>2. ASSUME NEW n \in 1 .. Len(file)
      PROVE  /\ Rejected(file[n]) => ~WellFormed(file[n], 7)
             /\ ~Rejected(file[n]) => WellFormed(file[n], 6)
             /\ \A z : RedisLine(file[n], z) <=> IsSource(file[n], "redis") /\ ZoneCode(Fields(file[n])) = z
             /\ \A z : MysqlLine(file[n], z) <=> IsSource(file[n], "mysql") /\ ZoneCode(Fields(file[n])) = z
  <2>1. SplitString2(file[n].text) = Fields(file[n])
    BY DEF FieldsOfLine, Fields
  <2> QED
    BY <1>1, <2>1, KindsSound
<1>3. \A z : SourceLines("redis", z) = RedisLines(z) /\ SourceLines("mysql", z) = MysqlLines(z)
  BY <1>2 DEF SourceLines, RedisLines, MysqlLines
<1>4. cfgState = "false" => \E n \in 1 .. Len(file) : Counts(n) /\ ~WellFormed(file[n], 7)
  BY <1>2 DEF LoopSettings, RejectedLines
<1>5. cfgState = "true" => \A n \in 1 .. Len(file) : Counts(n) => WellFormed(file[n], 6)
  BY <1>2 DEF LoopSettings, RejectedLines
<1> QED
  BY <1>3, <1>4, <1>5 DEF LoopSettings, SettingsOfLines

(* OnInit refuses a file only for a line that counts and is not well       *)
(* formed, and accepts none with a line of no known kind; it leaves the    *)
(* last value of each item and the first line of each zone; the fields of  *)
(* a line are what its separators cut out.  This holds for files and lines *)
(* of any length and any zone codes.                                       *)
THEOREM SettingsCorrect == Spec => []SettingsOfFile
<1>1. Init => CfgInv
  BY CfgInitInv DEF Init
<1>2. CfgInv => SettingsOfFile
  BY SettingsSound, FieldsSound, SettingsMatch DEF CfgInv, SettingsOfFile
<1> QED
  BY <1>1, <1>2, CfgStep, PTL DEF Spec
=============================================================================
