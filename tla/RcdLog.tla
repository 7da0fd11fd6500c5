-------------------------------- MODULE RcdLog --------------------------------
(***************************************************************************)
(* CRcdLogClient: a thread that moves operation records from sets in Redis *)
(* to tables in MySQL.  It visits the keys in turn; the records of a key   *)
(* are popped in batches and go to MySQL as the rows behind a header       *)
(* "insert ...", except those of the last key, which are statements        *)
(* ("update ...") of their own.  Other processes fill the sets, commands   *)
(* fail, the manager (CRcdServiceMgr) stops the thread, the process dies.  *)
(***************************************************************************)
EXTENDS Integers, Sequences, FiniteSets

CONSTANTS
  Keys,      \* number of keys; the last is _UPDATE_ESEAL
  Batch,     \* records per statement: 20
  MaxFlag,   \* iMaxFlag, that is m_insert_count / 20
  Recs       \* records; one that is stored or lost is free for a new record

ASSUME RcdAssumption == Keys \in Nat \ {0} /\ Batch \in Nat \ {0} /\ MaxFlag \in Nat

VARIABLES
  redis,      \* key -> its set of records
  table,      \* record -> how often MySQL has executed it
  lost,       \* records that are neither in Redis nor in MySQL any more
  rows,       \* records in the statement under construction
  sqlStr,     \* its header, by key; 0 for the empty string
  pc,         \* next step of the thread; "done" when it has returned
  i, left, isDone, runCount, isHaveDone,
  m_isStop,
  mgr         \* the manager's thread: "idle", "join", "deleted"

vars == <<redis, table, lost, rows, sqlStr, pc, i, left, isDone, runCount, isHaveDone,
          m_isStop, mgr>>

Init ==
  /\ redis = [k \in 1 .. Keys |-> {}] /\ table = [r \in Recs |-> 0] /\ lost = {}
  /\ rows = <<>> /\ sqlStr = 0 /\ pc = "top" /\ i = 1 /\ left = 0 /\ isDone = FALSE
  /\ runCount = 0 /\ isHaveDone = FALSE /\ m_isStop = FALSE /\ mgr = "idle"

Rows      == {rows[n] : n \in 1 .. Len(rows)}
InRedis   == UNION {redis[k] : k \in 1 .. Keys}
Stored    == {r \in Recs : table[r] > 0}
Fresh     == Recs \ (InRedis \cup Rows \cup Stored \cup lost)

-----------------------------------------------------------------------------
(* The other processes.                                                    *)
Produce ==
  /\ \E k \in 1 .. Keys, r \in Fresh : redis' = [redis EXCEPT ![k] = @ \cup {r}]
  /\ UNCHANGED <<table, lost, rows, sqlStr, pc, i, left, isDone, runCount, isHaveDone,
                 m_isStop, mgr>>

Recycle ==
  /\ \E r \in Recs : /\ table[r] > 0 \/ r \in lost
                     /\ table' = [table EXCEPT ![r] = 0] /\ lost' = lost \ {r}
  /\ UNCHANGED <<redis, rows, sqlStr, pc, i, left, isDone, runCount, isHaveDone,
                 m_isStop, mgr>>

-----------------------------------------------------------------------------
(* The thread.                                                             *)

(* The head of the loop of OnThreadWorker.                                 *)
Top ==
  /\ pc = "top"
  /\ \/ m_isStop /\ pc' = "done" /\ UNCHANGED <<sqlStr, i>>
     \/ ~m_isStop /\ pc' = "scan" /\ sqlStr' = 0 /\ i' = 1
  /\ UNCHANGED <<redis, table, lost, rows, left, isDone, runCount, isHaveDone, m_isStop,
                 mgr>>

(* GetRedisCount: 0 if the command fails.                                  *)
GetRedisCount == {0, Cardinality(redis[i])}

(* GetSqlHeader sets the header, except for the last key: there it leaves  *)
(* what an earlier key of this round has put in, and ProccessTargetKey     *)
(* then takes its statements ("update ...") for rows of that insert.       *)
GetSqlHeader(index) == IF index < Keys THEN index ELSE sqlStr

Scan ==
  /\ pc = "scan"
  /\ \E iCount \in GetRedisCount :
       /\ isHaveDone' = (iCount = 0)
       /\ sqlStr' = IF iCount > 0 THEN GetSqlHeader(i) ELSE sqlStr
       /\ pc' = IF iCount = 0 THEN "next" ELSE IF sqlStr' = 0 THEN "update" ELSE "count"
  /\ runCount' = 0
  /\ UNCHANGED <<redis, table, lost, rows, i, left, isDone, m_isStop, mgr>>

(* RecordFromRedis: spop removes a record and returns it; the command      *)
(* fails, and the set stays or the record goes with the reply.             *)
RecordFromRedis ==
  \/ \E r \in redis[i] :
       /\ redis' = [redis EXCEPT ![i] = @ \ {r}]
       /\ \/ rows' = Append(rows, r) /\ UNCHANGED lost
          \/ lost' = lost \cup {r} /\ UNCHANGED rows
  \/ UNCHANGED <<redis, rows, lost>>

(* Mutant: the rows stay in the statement (sql = savesql is missing).      *)
RecordToMysqlKeeps ==
  /\ \/ table' = [r \in Recs |-> IF r \in Rows THEN table[r] + 1 ELSE table[r]] /\ UNCHANGED lost
     \/ lost' = lost \cup Rows /\ UNCHANGED table
  /\ rows' = IF Len(rows) < Batch THEN rows ELSE <<>>

(* RecordToMysql: the statement is executed, or fails and is only logged.  *)
RecordToMysql ==
  /\ \/ table' = [r \in Recs |-> IF r \in Rows THEN table[r] + 1 ELSE table[r]] /\ UNCHANGED lost
     \/ lost' = lost \cup Rows /\ UNCHANGED table
  /\ rows' = <<>>

(* ProccessTargetKey with an empty header: one record, executed as it is.  *)
Update ==
  /\ pc = "update" /\ RecordFromRedis /\ pc' = "single"
  /\ UNCHANGED <<table, sqlStr, i, left, isDone, runCount, isHaveDone, m_isStop, mgr>>

Single ==
  /\ pc = "single" /\ pc' = "next"
  /\ IF rows = <<>> THEN UNCHANGED <<table, lost, rows>> ELSE RecordToMysql
  /\ UNCHANGED <<redis, sqlStr, i, left, isDone, runCount, isHaveDone, m_isStop, mgr>>

(* ProccessTargetKey with a header: how many records, ...                  *)
Count ==
  /\ pc = "count" /\ pc' = "pop"
  /\ \E iCount \in GetRedisCount :
       /\ isDone' = (iCount = 0)
       /\ left' = IF iCount > Batch THEN Batch ELSE iCount
  /\ UNCHANGED <<redis, table, lost, rows, sqlStr, i, runCount, isHaveDone, m_isStop, mgr>>

(* ... pop them, ...                                                       *)
Pop ==
  /\ pc = "pop" /\ left > 0 /\ left' = left - 1 /\ RecordFromRedis
  /\ UNCHANGED <<table, sqlStr, pc, i, isDone, runCount, isHaveDone, m_isStop, mgr>>

(* Mutant: batches are not counted.                                        *)
SendForEver ==
  /\ pc = "pop" /\ left = 0
  /\ IF rows = <<>> THEN UNCHANGED <<table, lost, rows>> ELSE RecordToMysql
  /\ pc' = IF isDone THEN "next" ELSE "count"
  /\ UNCHANGED <<redis, sqlStr, i, left, isDone, isHaveDone, runCount, m_isStop, mgr>>

(* ... send the statement, and go on until the set was empty or enough     *)
(* batches were sent: runCount++ > iMaxFlag.                               *)
Send ==
  /\ pc = "pop" /\ left = 0
  /\ \/ /\ rows = <<>> /\ pc' = IF isDone THEN "next" ELSE "count"
        /\ UNCHANGED <<table, lost, rows, runCount>>
     \/ /\ rows # <<>> /\ RecordToMysql /\ runCount' = runCount + 1
        /\ pc' = IF runCount > MaxFlag \/ isDone THEN "next" ELSE "count"
  /\ UNCHANGED <<redis, sqlStr, i, left, isDone, isHaveDone, m_isStop, mgr>>

(* The next key, or a wait of seconds if the last set was empty.           *)
NextKey ==
  /\ pc = "next"
  /\ \/ i < Keys /\ i' = i + 1 /\ pc' = "scan"
     \/ i = Keys /\ pc' = (IF isHaveDone THEN "wait" ELSE "top") /\ UNCHANGED i
  /\ UNCHANGED <<redis, table, lost, rows, sqlStr, left, isDone, runCount, isHaveDone,
                 m_isStop, mgr>>

(* waitForSeconds times out, or OnStop signals.                            *)
Wake ==
  /\ pc = "wait" /\ pc' = "top"
  /\ UNCHANGED <<redis, table, lost, rows, sqlStr, i, left, isDone, runCount, isHaveDone,
                 m_isStop, mgr>>

-----------------------------------------------------------------------------
(* The manager: OnTestOnline fails and the client is stopped, ...          *)
OnStop ==
  /\ mgr = "idle" /\ mgr' = "join" /\ m_isStop' = TRUE
  /\ UNCHANGED <<redis, table, lost, rows, sqlStr, pc, i, left, isDone, runCount, isHaveDone>>

(* Mutant: the client is deleted without waiting for its thread.           *)
DeleteNoJoin ==
  /\ mgr = "join" /\ mgr' = "deleted"
  /\ UNCHANGED <<redis, table, lost, rows, sqlStr, pc, i, left, isDone, runCount, isHaveDone, m_isStop>>

(* ... and deleted when pthread_join returns.                              *)
Delete ==
  /\ mgr = "join" /\ pc = "done" /\ mgr' = "deleted"
  /\ UNCHANGED <<redis, table, lost, rows, sqlStr, pc, i, left, isDone, runCount, isHaveDone, m_isStop>>

(* The process dies, and with it what the thread has popped.               *)
Crash ==
  /\ pc \notin {"done", "crash"} /\ pc' = "crash" /\ lost' = lost \cup Rows /\ rows' = <<>>
  /\ UNCHANGED <<redis, table, sqlStr, i, left, isDone, runCount, isHaveDone, m_isStop, mgr>>

Worker ==
  Top \/ Scan \/ Update \/ Single \/ Count \/ Pop \/ Send \/ NextKey \/ Wake

Next == Worker \/ Produce \/ Recycle \/ OnStop \/ Delete \/ Crash

Spec == Init /\ [][Next]_vars

(* Commands return, and spop does not fail for ever; threads are scheduled. *)
FairSpec ==
  /\ Spec /\ WF_vars(Worker) /\ WF_vars(Delete)
  /\ SF_vars(Pop /\ rows' # rows)

-----------------------------------------------------------------------------
(* Properties                                                              *)

(* No record is executed twice, and a record is at one place only: in one  *)
(* set, in the statement under construction, in MySQL or lost; a record is *)
(* never back in Redis when MySQL has it, and batches share no records.    *)
StoredOnce ==
  /\ \A r \in Recs : table[r] <= 1
  /\ \A m, n \in 1 .. Len(rows) : rows[m] = rows[n] => m = n
  /\ Rows \cap (InRedis \cup Stored \cup lost) = {} /\ InRedis \cap (Stored \cup lost) = {}
  /\ Stored \cap lost = {}
  /\ Len(rows) <= Batch

(* No key keeps the others from being visited, whatever is produced: the   *)
(* purpose of the limit on batches that CRcdLogClient.cpp:248 gives.  (The *)
(* limit itself is iMaxFlag + 2 batches in the code, iMaxFlag there.)      *)
KeysServed ==
  \A k \in 1 .. Keys : []<>(pc = "scan" /\ i = k) \/ <>(m_isStop \/ pc = "crash")

(* pthread_join in OnStop returns, and the client is not deleted before:   *)
(* the thread sees m_isStop at the end of its round.                       *)
StopEnds ==
  /\ [](mgr = "deleted" => pc \in {"done", "crash"})
  /\ (mgr = "join") ~> (mgr = "deleted" \/ pc = "crash")
=============================================================================
