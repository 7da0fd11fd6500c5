----------------------------- MODULE RcdLogProofs -----------------------------
(***************************************************************************)
(* Proofs about RcdLog: a record that CRcdLogClient moves from Redis to    *)
(* MySQL is at one place at any time and is executed at most once, and a   *)
(* client is not deleted under its thread.                                 *)
(***************************************************************************)
EXTENDS RcdLog, FiniteSetTheorems, TLAPS

(* The records: a set in Redis is finite, because it is filled one record  *)
(* at a time, and no record is in two sets.                                *)
RecordsOK ==
  /\ redis \in [1 .. Keys -> SUBSET Recs] /\ \A k \in 1 .. Keys : IsFiniteSet(redis[k])
  /\ table \in [Recs -> Nat] /\ lost \subseteq Recs /\ rows \in Seq(Recs)
  /\ \A j, k \in 1 .. Keys : redis[j] \cap redis[k] # {} => j = k

(* The loop: where the statement under construction can have rows, and how *)
(* many more the thread can add to it.                                     *)
LoopInv ==
  /\ i \in 1 .. Keys /\ left \in Nat
  /\ pc \notin {"pop", "single"} => rows = <<>>
  /\ pc = "pop" => Len(rows) + left <= Batch
  /\ pc = "single" => Len(rows) <= 1

(* A client is not deleted under its thread: the safety half of StopEnds.  *)
DeletedAfterThread == mgr = "deleted" => pc \in {"done", "crash"}

RcdInv == RecordsOK /\ LoopInv /\ StoredOnce /\ DeletedAfterThread

-----------------------------------------------------------------------------
(* What the thread's counters and the manager do leaves the records alone. *)
RecordsStay == UNCHANGED <<redis, table, lost, rows>>

(* Steps that move no record keep everything that is said of records.      *)
LEMMA RecordsFrame ==
  ASSUME RcdInv, RecordsStay
  PROVE  StoredOnce' /\ RecordsOK'
<1>1. StoredOnce'
  BY DEF RcdInv, RecordsStay, StoredOnce, Rows, InRedis, Stored
<1>. QED
  BY <1>1 DEF RcdInv, RecordsStay, RecordsOK

(* spop takes a record out of one set only: afterwards no set has it, and  *)
(* the others keep what they had.                                          *)
LEMMA PopsOne ==
  ASSUME RcdInv, NEW r \in redis[i], redis' = [redis EXCEPT ![i] = @ \ {r}]
  PROVE  /\ InRedis' = InRedis \ {r} /\ r \in InRedis
         /\ redis' \in [1 .. Keys -> SUBSET Recs]
         /\ \A k \in 1 .. Keys : IsFiniteSet(redis'[k])
         /\ \A j, k \in 1 .. Keys : redis'[j] \cap redis'[k] # {} => j = k
<1>1. redis' \in [1 .. Keys -> SUBSET Recs] /\ r \in InRedis
  BY DEF RcdInv, RecordsOK, LoopInv, InRedis
<1>2. \A k \in 1 .. Keys : redis'[k] = IF k = i THEN redis[k] \ {r} ELSE redis[k]
  BY Zenon DEF RcdInv, RecordsOK, LoopInv
<1>3. \A k \in 1 .. Keys : IsFiniteSet(redis'[k])
  BY <1>2, FS_RemoveElement, Zenon DEF RcdInv, RecordsOK
<1>4. \A j, k \in 1 .. Keys : redis'[j] \cap redis'[k] # {} => j = k
  BY <1>2 DEF RcdInv, RecordsOK
<1>5. \A k \in 1 .. Keys : r \notin redis'[k]
  BY <1>2 DEF RcdInv, RecordsOK, LoopInv
<1>6. InRedis' = InRedis \ {r}
  BY <1>2, <1>5 DEF InRedis
<1>. QED
  BY <1>1, <1>3, <1>4, <1>6, Zenon

(* A row that is appended is new among the rows.                           *)
LEMMA AppendsOne ==
  ASSUME RcdInv, NEW r \in Recs, r \notin Rows, rows' = Append(rows, r)
  PROVE  /\ rows' \in Seq(Recs) /\ Len(rows') = Len(rows) + 1 /\ Rows' = Rows \cup {r}
         /\ \A m, n \in 1 .. Len(rows') : rows'[m] = rows'[n] => m = n
<1>1. rows \in Seq(Recs) /\ \A m, n \in 1 .. Len(rows) : rows[m] = rows[n] => m = n
  BY DEF RcdInv, RecordsOK, LoopInv, StoredOnce
<1>2. /\ rows' \in Seq(Recs) /\ Len(rows') = Len(rows) + 1
      /\ \A n \in 1 .. Len(rows') : rows'[n] = IF n = Len(rows) + 1 THEN r ELSE rows[n]
  BY <1>1
<1>3. Len(rows) \in Nat
  BY <1>1
<1>4. Rows' = Rows \cup {r}
  BY <1>2, <1>3 DEF Rows
<1>5. \A m, n \in 1 .. Len(rows') : rows'[m] = rows'[n] => m = n
  BY <1>1, <1>2, <1>3 DEF Rows
<1>. QED
  BY <1>2, <1>4, <1>5

(* RecordFromRedis: the record goes from Redis to the statement, or with   *)
(* the lost reply; or the command failed.                                  *)
LEMMA FromRedis ==
  ASSUME RcdInv, RecordFromRedis, UNCHANGED <<table, i>>, Len(rows) < Batch
  PROVE  StoredOnce' /\ RecordsOK' /\ Len(rows') \in Nat /\ Len(rows') <= Len(rows) + 1
<1>. DEFINE Moved == StoredOnce' /\ RecordsOK' /\ Len(rows') \in Nat /\ Len(rows') <= Len(rows) + 1
<1>1. CASE UNCHANGED <<redis, rows, lost>>
  BY <1>1, RecordsFrame DEF RecordsStay
<1>2. ASSUME NEW r \in redis[i], redis' = [redis EXCEPT ![i] = @ \ {r}],
             \/ rows' = Append(rows, r) /\ UNCHANGED lost
             \/ lost' = lost \cup {r} /\ UNCHANGED rows
      PROVE  Moved
  <2>1. /\ InRedis' = InRedis \ {r} /\ r \in InRedis
        /\ redis' \in [1 .. Keys -> SUBSET Recs]
        /\ \A k \in 1 .. Keys : IsFiniteSet(redis'[k])
        /\ \A j, k \in 1 .. Keys : redis'[j] \cap redis'[k] # {} => j = k
    BY <1>2, PopsOne, Zenon
  <2>2. r \in Recs /\ r \notin Rows /\ r \notin Stored /\ r \notin lost /\ Stored' = Stored
    BY <1>2, <2>1 DEF RcdInv, RecordsOK, LoopInv, StoredOnce, Stored
  <2>3. CASE rows' = Append(rows, r) /\ UNCHANGED lost
    <3>1. /\ rows' \in Seq(Recs) /\ Len(rows') = Len(rows) + 1 /\ Rows' = Rows \cup {r}
          /\ \A m, n \in 1 .. Len(rows') : rows'[m] = rows'[n] => m = n
      BY <2>2, <2>3, AppendsOne
    <3>2. Len(rows') <= Batch
      BY <3>1, RcdAssumption DEF RcdInv, RecordsOK
    <3>3. StoredOnce'
      BY <2>1, <2>2, <2>3, <3>1, <3>2 DEF RcdInv, StoredOnce
    <3>. QED
      BY <2>1, <2>3, <3>1, <3>3 DEF RcdInv, RecordsOK
  <2>4. CASE lost' = lost \cup {r} /\ UNCHANGED rows
    <3>1. Rows' = Rows
      BY <2>4 DEF Rows
    <3>2. StoredOnce'
      BY <2>1, <2>2, <2>4, <3>1 DEF RcdInv, StoredOnce
    <3>. QED
      BY <2>1, <2>2, <2>4, <3>2 DEF RcdInv, RecordsOK
  <2>. QED
    BY <1>2, <2>3, <2>4
<1>. QED
  BY <1>1, <1>2 DEF RecordFromRedis

(* RecordToMysql: all rows go to the table, each for the first time, or    *)
(* all of them are lost.                                                   *)
LEMMA ToMysql ==
  ASSUME RcdInv, RecordToMysql, UNCHANGED redis
  PROVE  StoredOnce' /\ RecordsOK' /\ rows' = <<>>
<1>1. rows' = <<>> /\ rows' \in Seq(Recs) /\ Len(rows') = 0
  BY DEF RecordToMysql
<1>2. Rows' = {} /\ InRedis' = InRedis
  BY <1>1 DEF Rows, InRedis
<1>3. Rows \subseteq Recs
  BY DEF Rows, RcdInv, RecordsOK
<1>4. \A r \in Rows : table[r] = 0
  BY <1>3 DEF RcdInv, RecordsOK, StoredOnce, Stored
<1>5. /\ table' \in [Recs -> Nat] /\ lost' \subseteq Recs
      /\ \A r \in Recs : table'[r] <= 1
      /\ Stored' \cap lost' = {} /\ InRedis \cap (Stored' \cup lost') = {}
  <2>1. CASE /\ table' = [r \in Recs |-> IF r \in Rows THEN table[r] + 1 ELSE table[r]]
             /\ UNCHANGED lost
    <3>1. /\ table' \in [Recs -> Nat] /\ lost' \subseteq Recs
          /\ \A r \in Recs : table'[r] <= 1
      BY <2>1, <1>4 DEF RcdInv, RecordsOK, StoredOnce
    <3>2. Stored' = Stored \cup Rows
      BY <2>1, <1>3, <1>4 DEF RcdInv, RecordsOK, Stored
    <3>. QED
      BY <2>1, <3>1, <3>2 DEF RcdInv, StoredOnce
  <2>2. CASE lost' = lost \cup Rows /\ UNCHANGED table
    <3>1. Stored' = Stored
      BY <2>2 DEF Stored
    <3>. QED
      BY <2>2, <3>1, <1>3 DEF RcdInv, RecordsOK, StoredOnce
  <2>. QED
    BY <2>1, <2>2 DEF RecordToMysql
<1>6. StoredOnce'
  BY <1>1, <1>2, <1>5, RcdAssumption DEF StoredOnce
<1>. QED
  BY <1>1, <1>5, <1>6 DEF RcdInv, RecordsOK

(* In its initial state the program has no records.                        *)
LEMMA RcdInitInv == Init => RcdInv
<1>. SUFFICES ASSUME Init PROVE RcdInv
  OBVIOUS
<1>1. RecordsOK
  BY FS_EmptySet, RcdAssumption DEF Init, RecordsOK
<1>2. LoopInv /\ DeletedAfterThread
  BY RcdAssumption DEF Init, LoopInv, DeletedAfterThread
<1>3. Rows = {} /\ InRedis = {} /\ Stored = {}
  BY DEF Init, Rows, InRedis, Stored
<1>4. StoredOnce
  BY <1>3, RcdAssumption DEF Init, StoredOnce
<1>. QED
  BY <1>1, <1>2, <1>4 DEF RcdInv

(* The size of a set in Redis is a number.                                 *)
LEMMA CountsAreNat ==
  ASSUME RcdInv
  PROVE  \A n \in GetRedisCount : n \in Nat
  BY FS_CardinalityType DEF GetRedisCount, RcdInv, RecordsOK, LoopInv

(* Every step of the thread, of the other processes and of the manager     *)
(* keeps the invariant.                                                    *)
LEMMA RcdStep == RcdInv /\ [Next]_vars => RcdInv'
<1>. SUFFICES ASSUME RcdInv, [Next]_vars PROVE RcdInv'
  OBVIOUS
<1>. USE DEF RcdInv
<1>1. CASE Top
  <2>1. RecordsStay
    BY <1>1 DEF Top, RecordsStay
  <2>. QED
    BY <1>1, <2>1, RecordsFrame, RcdAssumption
    DEF Top, LoopInv, DeletedAfterThread
<1>2. CASE Scan
  <2>1. RecordsStay /\ UNCHANGED <<i, left, mgr>>
    BY <1>2 DEF Scan, RecordsStay
  <2>2. pc' \in {"next", "update", "count"} /\ pc = "scan"
    BY <1>2 DEF Scan
  <2>4. rows' = <<>> /\ LoopInv'
    BY <2>1, <2>2, RecordsFrame DEF RecordsStay, LoopInv
  <2>5. DeletedAfterThread'
    BY <2>1, <2>2 DEF DeletedAfterThread
  <2>. QED
    BY <2>1, <2>4, <2>5, RecordsFrame
<1>3. CASE Update
  <2>1. rows = <<>> /\ Len(rows) = 0 /\ Len(rows) < Batch
    BY <1>3, RcdAssumption DEF Update, LoopInv
  <2>2. StoredOnce' /\ RecordsOK' /\ Len(rows') \in Nat /\ Len(rows') <= Len(rows) + 1
    BY <1>3, <2>1, FromRedis DEF Update
  <2>3. Len(rows') <= 1
    BY <2>1, <2>2
  <2>. QED
    BY <1>3, <2>2, <2>3 DEF Update, LoopInv, DeletedAfterThread
<1>4. CASE Single
  <2>1. CASE rows = <<>>
    BY <1>4, <2>1, RecordsFrame
    DEF Single, RecordsStay, LoopInv, DeletedAfterThread
  <2>2. CASE rows # <<>>
    BY <1>4, <2>2, ToMysql DEF Single, LoopInv, DeletedAfterThread
  <2>. QED
    BY <2>1, <2>2
<1>5. CASE Count
  <2>1. RecordsStay /\ rows = <<>> /\ Len(rows) = 0
    BY <1>5 DEF Count, RecordsStay, LoopInv
  <2>2. left' \in Nat /\ left' <= Batch
    <3>1. \A n \in GetRedisCount : n \in Nat
      BY CountsAreNat
    <3>. QED
      BY <1>5, <3>1, RcdAssumption DEF Count
  <2>. QED
    BY <1>5, <2>1, <2>2, RecordsFrame, RcdAssumption
    DEF Count, LoopInv, DeletedAfterThread
<1>6. CASE Pop
  <2>1. Len(rows) + left <= Batch /\ left > 0 /\ left' = left - 1 /\ left \in Nat
    BY <1>6 DEF Pop, LoopInv
  <2>2. Len(rows) < Batch /\ Len(rows) \in Nat
    BY <2>1, RcdAssumption DEF RecordsOK, LoopInv
  <2>3. StoredOnce' /\ RecordsOK' /\ Len(rows') \in Nat /\ Len(rows') <= Len(rows) + 1
    BY <1>6, <2>2, FromRedis DEF Pop
  <2>4. left' \in Nat /\ Len(rows') + left' <= Batch
    BY <2>1, <2>2, <2>3, RcdAssumption
  <2>. QED
    BY <1>6, <2>3, <2>4 DEF Pop, LoopInv, DeletedAfterThread
<1>7. CASE Send
  <2>1. CASE rows = <<>>
    BY <1>7, <2>1, RecordsFrame
    DEF Send, RecordsStay, LoopInv, DeletedAfterThread
  <2>2. CASE rows # <<>>
    BY <1>7, <2>2, ToMysql, Zenon DEF Send, LoopInv, DeletedAfterThread
  <2>. QED
    BY <2>1, <2>2
<1>8. CASE NextKey
  <2>1. RecordsStay
    BY <1>8 DEF NextKey, RecordsStay
  <2>2. i' \in 1 .. Keys
    BY <1>8, RcdAssumption DEF NextKey, LoopInv
  <2>. QED
    BY <1>8, <2>1, <2>2, RecordsFrame, Zenon
    DEF NextKey, LoopInv, DeletedAfterThread
<1>9. CASE Wake \/ OnStop \/ Delete
  <2>1. RecordsStay
    BY <1>9, Zenon DEF Wake, OnStop, Delete, RecordsStay
  <2>. QED
    BY <1>9, <2>1, RecordsFrame
    DEF Wake, OnStop, Delete, LoopInv, DeletedAfterThread
<1>10. CASE Produce
  <2>1. PICK k \in 1 .. Keys, r \in Fresh : redis' = [redis EXCEPT ![k] = @ \cup {r}]
    BY <1>10, Zenon DEF Produce
  <2>2. r \in Recs /\ r \notin InRedis /\ r \notin Rows /\ r \notin Stored /\ r \notin lost
    BY DEF Fresh
  <2>3. /\ redis' \in [1 .. Keys -> SUBSET Recs]
        /\ \A j \in 1 .. Keys : redis'[j] = IF j = k THEN redis[j] \cup {r} ELSE redis[j]
    BY <2>1, <2>2, Zenon DEF RecordsOK
  <2>4. \A j \in 1 .. Keys : IsFiniteSet(redis'[j])
    <3>1. IsFiniteSet(redis[k] \cup {r})
      BY FS_AddElement, Zenon DEF RecordsOK
    <3>. QED
      BY <2>3, <3>1, Zenon DEF RecordsOK
  <2>5. \A j, l \in 1 .. Keys : redis'[j] \cap redis'[l] # {} => j = l
    BY <2>2, <2>3 DEF RecordsOK, InRedis
  <2>6. InRedis' = InRedis \cup {r}
    BY <2>3 DEF InRedis
  <2>7. StoredOnce'
    BY <1>10, <2>2, <2>6 DEF Produce, StoredOnce, Rows, Stored
  <2>. QED
    BY <1>10, <2>3, <2>4, <2>5, <2>7, Zenon
    DEF Produce, RecordsOK, LoopInv, DeletedAfterThread
<1>11. CASE Recycle
  <2>1. PICK r \in Recs : table' = [table EXCEPT ![r] = 0] /\ lost' = lost \ {r}
    BY <1>11, Zenon DEF Recycle
  <2>2. table' \in [Recs -> Nat] /\ \A q \in Recs : table'[q] <= table[q]
    BY <2>1 DEF RecordsOK
  <2>3. Stored' \subseteq Stored /\ lost' \subseteq lost
    BY <2>1, <2>2 DEF Stored, RecordsOK
  <2>4. \A q \in Recs : table'[q] <= 1
    BY <2>2 DEF RecordsOK, LoopInv, StoredOnce
  <2>5. StoredOnce'
    BY <1>11, <2>3, <2>4 DEF Recycle, StoredOnce, Rows, InRedis
  <2>. QED
    BY <1>11, <2>2, <2>3, <2>5
    DEF Recycle, RecordsOK, LoopInv, DeletedAfterThread
<1>12. CASE Crash
  <2>1. rows' = <<>> /\ rows' \in Seq(Recs) /\ Len(rows') = 0
    BY <1>12 DEF Crash
  <2>2. Rows' = {} /\ InRedis' = InRedis /\ Stored' = Stored /\ lost' = lost \cup Rows
    BY <1>12, <2>1 DEF Crash, Rows, InRedis, Stored
  <2>3. lost' \subseteq Recs
    BY <2>2 DEF Rows, RecordsOK
  <2>4. StoredOnce'
    BY <1>12, <2>1, <2>2, RcdAssumption DEF Crash, StoredOnce
  <2>. QED
    BY <1>12, <2>1, <2>3, <2>4
    DEF Crash, RecordsOK, LoopInv, DeletedAfterThread
<1>13. CASE UNCHANGED vars
  <2>1. RecordsStay
    BY <1>13 DEF vars, RecordsStay
  <2>. QED
    BY <1>13, <2>1, RecordsFrame
    DEF vars, LoopInv, DeletedAfterThread
<1>. QED
  BY <1>1, <1>2, <1>3, <1>4, <1>5, <1>6, <1>7, <1>8, <1>9, <1>10, <1>11, <1>12, <1>13, Zenon
  DEF Next, Worker

-----------------------------------------------------------------------------
(* The invariant holds in every state.                                     *)
LEMMA RcdInvariance == Spec => []RcdInv
  BY RcdInitInv, RcdStep, PTL DEF Spec

(* For any number of keys, any batch size and any limit of batches, and    *)
(* with failing commands and a crash at any moment: MySQL executes no      *)
(* record twice, a record is in one set of Redis, in one row of the        *)
(* statement, in MySQL or lost, and no statement has more than Batch rows  *)
(* (RecordFromRedis, RecordToMysql, ProccessTargetKey).                    *)
THEOREM StoredOnceCorrect == Spec => []StoredOnce
<1>1. RcdInv => StoredOnce
  BY DEF RcdInv
<1>. QED
  BY <1>1, RcdInvariance, PTL

(* CRcdServiceMgr deletes a client only when its thread has returned, or   *)
(* the process is gone (OnStop, pthread_join): the safety half of          *)
(* StopEnds.                                                               *)
THEOREM DeleteCorrect == Spec => []DeletedAfterThread
<1>1. RcdInv => DeletedAfterThread
  BY DEF RcdInv
<1>. QED
  BY <1>1, RcdInvariance, PTL
=============================================================================
