------------------------------ MODULE WLogProofs ------------------------------
(* The queue of log files agrees with its counter and with the directory,  *)
(* whatever calls fail; and as long as the local time is not set back, the *)
(* open file is never deleted, the cleaning takes the oldest files, and    *)
(* the files that stay give the messages in the order of the calls.  All   *)
(* for any limits, any number of messages and any number of restarts.      *)
EXTENDS WLog, FiniteSetTheorems, SequenceTheorems, TLAPS

USE LogAssumption DEF Names

(* The names of P are of the past, in order, equal names are less than     *)
(* MaxSwitches apart, and those of the present second are the last sw.     *)
Aged(P, sw) ==
  /\ \A i \in 1 .. Len(P) : P[i] <= clock
  /\ \A i, j \in 1 .. Len(P) : i < j => P[i] <= P[j]
  /\ \A i, j \in 1 .. Len(P) : i < j /\ P[i] = P[j] => j - i < MaxSwitches
  /\ \A i \in 1 .. Len(P) : P[i] = clock => i > Len(P) - sw

(* The queue: its length is the counter, and its names are in order.       *)
Queue ==
  /\ CountIsLength
  /\ ~back => Aged(m_FileList, switches)
  /\ switches <= MaxSwitches

(* The names on disk are of the past.                                      *)
Past ==
  /\ \A n \in Names : disk[n] # NoFile => n <= clock
  /\ disk[clock] # NoFile => switches >= 1

(* The directory: it is in the queue if the pattern can match it, except   *)
(* for what was lost sight of.                                             *)
Directory ==
  /\ ~back => Past
  /\ running /\ plainName => \A n \in Names : disk[n] # NoFile /\ n \notin missed =>
                               \E i \in 1 .. Len(m_FileList) : m_FileList[i] = n

(* The open file: it is the last of the queue, unless it was unlinked.     *)
OpenFile ==
  m_FileFD # 0 =>
    /\ linked => disk[m_FileFD] # NoFile
    /\ MaxSwitches <= MinFiles /\ ~back =>
         /\ linked /\ MaxSwitches >= 1
         /\ Len(m_FileList) > 0 /\ m_FileList[Len(m_FileList)] = m_FileFD

(* The flags of the type invariant.                                        *)
Booleans ==
  /\ plainName \in BOOLEAN /\ due \in BOOLEAN /\ running \in BOOLEAN /\ linked \in BOOLEAN
  /\ m_bInit \in BOOLEAN /\ back \in BOOLEAN

LogInv == LogTypeOK /\ Queue /\ Directory /\ OpenFile

-----------------------------------------------------------------------------
(* What is left of the queue when k entries have been popped.              *)
LEMMA PoppedQueue ==
  ASSUME LogTypeOK, Queue, NEW k \in 0 .. m_iFileCount
  PROVE  /\ Popped(k) \in Seq(Names) /\ Len(Popped(k)) = Len(m_FileList) - k
         /\ \A i \in 1 .. Len(m_FileList) - k : Popped(k)[i] = m_FileList[k + i]
<1>1. k \in Nat /\ k <= Len(m_FileList) /\ Len(m_FileList) \in Nat
  BY DEF LogTypeOK, Queue, CountIsLength
<1>2. \A i \in k + 1 .. Len(m_FileList) : m_FileList[i] \in Names
  BY <1>1 DEF LogTypeOK
<1> QED
  BY <1>1, <1>2, SubSeqProperties DEF Popped

(* Cleaning leaves MinFiles entries, or deletes nothing.                   *)
LEMMA CleanedLeaves ==
  ASSUME LogTypeOK, Queue, NEW k \in 0 .. m_iFileCount, IF due THEN Cleaned(k) ELSE k = 0
  PROVE  k = 0 \/ Len(m_FileList) - k >= MinFiles
BY DEF LogTypeOK, Queue, CountIsLength, Cleaned

(* The open file is not among the files that are deleted.                  *)
LEMMA OpenFileKept ==
  ASSUME LogInv, NEW k \in 0 .. m_iFileCount, IF due THEN Cleaned(k) ELSE k = 0,
         m_FileFD # 0, MaxSwitches <= MinFiles, ~back
  PROVE  m_FileFD \notin Doomed(k) /\ k < Len(m_FileList)
<1>1. k = 0 \/ Len(m_FileList) - k >= MinFiles
  BY CleanedLeaves DEF LogInv
<1>2. k \in Nat /\ k <= Len(m_FileList) /\ Len(m_FileList) \in Nat /\ Len(m_FileList) > 0
  BY DEF LogInv, LogTypeOK, Queue, CountIsLength, OpenFile
<1>3. k < Len(m_FileList)
  BY <1>1, <1>2 DEF LogInv, OpenFile
<1>4. ASSUME NEW i \in 1 .. k, m_FileList[i] = m_FileFD PROVE FALSE
  <2>1. i < Len(m_FileList) /\ i \in 1 .. Len(m_FileList) /\ Len(m_FileList) \in 1 .. Len(m_FileList)
    BY <1>2, <1>3
  <2>2. Len(m_FileList) - i < MaxSwitches
    BY <1>4, <2>1, Zenon DEF LogInv, Queue, Aged, OpenFile
  <2> QED
    BY <1>1, <1>2, <2>2
<1> QED
  BY <1>3, <1>4 DEF Doomed

-----------------------------------------------------------------------------
LEMMA LogInitial == Init => LogInv
<1> SUFFICES ASSUME Init PROVE LogInv
  OBVIOUS
<1>1. Booleans
  BY Zenon DEF Init, Booleans
<1>2. LogTypeOK
  BY <1>1 DEF Init, LogTypeOK, Booleans
<1>3. Queue /\ Directory /\ OpenFile
  BY DEF Init, Queue, Aged, CountIsLength, Past, Directory, OpenFile
<1> QED
  BY <1>2, <1>3 DEF LogInv

(* A restart lists the directory again, ...                                *)
LEMMA ListedKeeps == ASSUME LogInv, LogInit, Listed PROVE LogInv'
<1> DEFINE S == {n \in Names : plainName /\ disk[n] # NoFile}
<1>1. Cardinality(S) \in Nat
  <2>1. IsFiniteSet(Names)
    BY FS_Interval
  <2> QED
    BY <2>1, FS_Subset, FS_CardinalityType
<1>2. PICK s \in [1 .. Cardinality(S) -> S] :
        SerarchLogsByDir(s, S) /\ m_FileList' = s /\ m_iFileCount' = Len(s)
  BY ZenonT(30) DEF Listed
<1>3. s \in Seq(Names) /\ Len(s) = Cardinality(S)
  <2>1. s \in [1 .. Cardinality(S) -> Names]
    OBVIOUS
  <2> HIDE DEF S
  <2>2. ASSUME NEW n \in Nat, NEW f \in [1 .. n -> Names] PROVE f \in Seq(Names) /\ Len(f) = n
    OBVIOUS
  <2> QED
    BY <1>1, <2>1, <2>2, SMTT(30)
<1>4. \A i \in 1 .. Len(s) : s[i] \in S
  BY <1>1, <1>3, Zenon
<1>5. \A i \in 1 .. Len(s) : s[i] \in Names /\ plainName /\ disk[s[i]] # NoFile
  BY <1>4, Zenon
<1>6. \A i, j \in 1 .. Len(s) : i < j => s[i] < s[j]
  BY <1>2 DEF SerarchLogsByDir
<1>7. LogTypeOK'
  <2>1. Booleans'
    BY Zenon DEF LogInv, LogTypeOK, LogInit, Listed, Booleans
  <2> QED
    BY <1>2, <1>3, <2>1 DEF LogInv, LogTypeOK, LogInit, Listed, Booleans
<1>8. Queue'
  <2>1. ASSUME ~back PROVE \A i \in 1 .. Len(s) : s[i] <= clock
    BY <1>5, <2>1 DEF LogInv, Directory, Past
  <2>2. ASSUME ~back, NEW i \in 1 .. Len(s), s[i] = clock PROVE i > Len(s) - switches
    <3>1. Len(s) \in Nat /\ i <= Len(s) /\ clock \in Nat /\ switches \in Nat /\ switches >= 1
      BY <1>3, <1>5, <2>2 DEF LogInv, LogTypeOK, Directory, Past
    <3>2. CASE i < Len(s)
      <4>1. Len(s) \in 1 .. Len(s) /\ s[i] < s[Len(s)] /\ s[Len(s)] <= clock /\ s[Len(s)] \in Nat
        BY <1>5, <1>6, <2>1, <2>2, <3>1, <3>2
      <4> QED
        BY <2>2, <3>1, <4>1
    <3> QED
      BY <3>1, <3>2
  <2>3. clock' = clock /\ switches' = switches /\ back' = back
    BY DEF LogInit
  <2>4. \A i, j \in 1 .. Len(s) : i < j => s[i] <= s[j] /\ s[i] # s[j]
    BY <1>5, <1>6
  <2>5. ~back => Aged(m_FileList, switches)'
    BY <1>2, <2>1, <2>2, <2>3, <2>4 DEF Aged
  <2> QED
    BY <1>2, <2>3, <2>5 DEF LogInv, Queue, CountIsLength
<1>9. Directory'
  <2>1. plainName => \A n \in Names : disk[n] # NoFile => \E i \in 1 .. Len(s) : s[i] = n
    BY <1>2, ZenonT(30) DEF SerarchLogsByDir
  <2> QED
    BY <1>2, <2>1, Zenon DEF LogInit, LogInv, Directory, Past
<1>10. OpenFile'
  BY DEF LogInit, OpenFile
<1> QED
  BY <1>7, <1>8, <1>9, <1>10 DEF LogInv

(* ... or fails to, and has lost sight of all of it.                       *)
LEMMA NotListedKeeps == ASSUME LogInv, LogInit, NotListed PROVE LogInv'
<1>1. Booleans'
  BY Zenon DEF LogInv, LogTypeOK, LogInit, NotListed, Booleans
<1>2. LogTypeOK'
  BY <1>1 DEF LogInv, LogTypeOK, LogInit, NotListed, Booleans
<1>3. Queue'
  BY DEF LogInv, Queue, CountIsLength, Aged, LogInit, NotListed
<1>4. Directory'
  <2>1. \A n \in Names : disk'[n] # NoFile => n \in missed'
    BY Zenon DEF LogInit, NotListed
  <2> QED
    BY <2>1, Zenon DEF LogInit, LogInv, Directory, Past
<1>5. OpenFile'
  BY DEF LogInit, OpenFile
<1> QED
  BY <1>2, <1>3, <1>4, <1>5 DEF LogInv

LEMMA TimeKeeps == ASSUME LogInv, Time PROVE LogInv'
<1>1. LogTypeOK'
  <2>1. Booleans'
    BY Zenon DEF LogInv, LogTypeOK, Time, Advance, SetBack, file, Booleans
  <2>2. clock' \in Names
    BY DEF LogInv, LogTypeOK, Time, Advance, SetBack
  <2> QED
    BY <2>1, <2>2 DEF LogInv, LogTypeOK, Time, file, Booleans
<1>0. ~back' => clock' = clock + 1 /\ ~back
  BY DEF Time, Advance, SetBack
<1>2. Queue'
  <2>1. m_FileList \in Seq(Names) /\ switches \in Nat /\ clock \in Nat
    BY DEF LogInv, LogTypeOK
  <2>2. ~back' => Aged(m_FileList, switches)'
    BY <1>0, <2>1 DEF LogInv, Queue, Aged, Time, file
  <2> QED
    BY <2>2 DEF LogInv, Queue, CountIsLength, Time, file
<1>3. Directory'
  <2>1. ~back' => Past'
    <3>1. disk' = disk /\ clock \in Nat
      BY DEF LogInv, LogTypeOK, Time
    <3>2. ASSUME ~back' PROVE \A n \in Names : disk[n] # NoFile => n <= clock' /\ n # clock'
      BY <1>0, <3>1, <3>2 DEF LogInv, Directory, Past
    <3>3. clock' \in Names
      BY <1>1 DEF LogTypeOK
    <3> QED
      BY <3>1, <3>2, <3>3, Zenon DEF Past
  <2> QED
    BY <2>1, Zenon DEF LogInv, Directory, Time, file
<1>4. OpenFile'
  BY <1>0 DEF LogInv, OpenFile, Time, file
<1> QED
  BY <1>1, <1>2, <1>3, <1>4 DEF LogInv

LEMMA StopKeeps == ASSUME LogInv, Stop PROVE LogInv'
<1>1. Booleans'
  BY Zenon DEF LogInv, LogTypeOK, Stop, Booleans
<1>2. LogTypeOK'
  BY <1>1 DEF LogInv, LogTypeOK, Stop, Booleans
<1>3. Queue' /\ Directory' /\ OpenFile'
  BY DEF LogInv, Queue, CountIsLength, Aged, Directory, Past, OpenFile, Stop
<1> QED
  BY <1>2, <1>3 DEF LogInv

-----------------------------------------------------------------------------
(* The order of the queue survives popping, ...                            *)
LEMMA PoppedInOrder ==
  ASSUME LogTypeOK, Queue, ~back, NEW k \in 0 .. m_iFileCount, NEW P, P = Popped(k)
  PROVE  Aged(P, switches)
<1> DEFINE L == Len(m_FileList)
<1>1. P \in Seq(Names) /\ Len(P) = L - k /\ \A i \in 1 .. L - k : P[i] = m_FileList[k + i]
  BY PoppedQueue, Zenon
<1>2. k \in Nat /\ L \in Nat /\ k <= L /\ clock \in Nat /\ switches \in Nat
  BY DEF LogTypeOK, Queue, CountIsLength
<1>3. \A i \in 1 .. Len(P) : k + i \in 1 .. L /\ P[i] = m_FileList[k + i] /\ i \in Nat
  BY <1>1, <1>2
<1>4. \A i \in 1 .. Len(P) : P[i] <= clock
  BY <1>3, Zenon DEF Queue, Aged
<1>5. \A i, j \in 1 .. Len(P) : i < j => P[i] <= P[j]
  BY <1>2, <1>3 DEF Queue, Aged
<1>6. ASSUME NEW i \in 1 .. Len(P), NEW j \in 1 .. Len(P), i < j, P[i] = P[j]
      PROVE  j - i < MaxSwitches
  <2>1. (k + j) - (k + i) < MaxSwitches
    BY <1>2, <1>3, <1>6 DEF Queue, Aged
  <2> QED
    BY <1>2, <1>3, <2>1
<1>7. ASSUME NEW i \in 1 .. Len(P), P[i] = clock PROVE i > Len(P) - switches
  <2>1. k + i > L - switches
    BY <1>3, <1>7, SMTT(30) DEF Queue, Aged
  <2> QED
    BY <1>1, <1>2, <1>3, <2>1
<1> QED
  BY <1>4, <1>5, <1>6, <1>7 DEF Aged

(* ... and every file that is not deleted is still in the queue.           *)
LEMMA PoppedLists ==
  ASSUME LogInv, NEW k \in 0 .. m_iFileCount, running, plainName,
         NEW n \in Names, disk[n] # NoFile, n \notin missed, n \notin Doomed(k)
  PROVE  \E i \in 1 .. Len(Popped(k)) : Popped(k)[i] = n
<1> DEFINE P == Popped(k)
<1>1. Len(P) = Len(m_FileList) - k /\ \A i \in 1 .. Len(m_FileList) - k : P[i] = m_FileList[k + i]
  BY PoppedQueue, ZenonT(30) DEF LogInv
<1>2. PICK j \in 1 .. Len(m_FileList) : m_FileList[j] = n
  BY DEF LogInv, Directory
<1>3. k \in Nat /\ Len(m_FileList) \in Nat
  BY DEF LogInv, LogTypeOK
<1>4. j \notin 1 .. k
  BY <1>2 DEF Doomed
<1>5. j - k \in 1 .. Len(m_FileList) - k /\ k + (j - k) = j
  BY <1>3, <1>4
<1> QED
  BY <1>1, <1>2, <1>5, ZenonT(30)

(* Appending the present second to the queue.                              *)
LEMMA AppendedInOrder ==
  ASSUME LogTypeOK, NEW P \in Seq(Names), switches < MaxSwitches, NEW A, A = Append(P, clock)
  PROVE  /\ A \in Seq(Names) /\ Len(A) = Len(P) + 1 /\ A[Len(A)] = clock
         /\ \A i \in 1 .. Len(P) : A[i] = P[i]
         /\ Aged(P, switches) => Aged(A, switches + 1)
<1>1. /\ A \in Seq(Names) /\ Len(A) = Len(P) + 1 /\ A[Len(P) + 1] = clock
      /\ \A i \in 1 .. Len(P) : A[i] = P[i]
  BY AppendProperties DEF LogTypeOK
<1>2. Len(P) \in Nat /\ clock \in Nat /\ switches \in Nat
  BY DEF LogTypeOK
<1>3. \A i \in 1 .. Len(A) : i \in 1 .. Len(P) \/ i = Len(P) + 1
  BY <1>1, <1>2
<1>4. Aged(P, switches) => \A i \in 1 .. Len(A) : A[i] <= clock
  <2>1. clock <= clock
    BY <1>2
  <2> QED
    BY <1>1, <1>3, <2>1, Zenon DEF Aged
<1>5. ASSUME Aged(P, switches), NEW i \in 1 .. Len(A), NEW j \in 1 .. Len(A), i < j
      PROVE  A[i] <= A[j] /\ (A[i] = A[j] => j - i < MaxSwitches)
  <2>1. i \in 1 .. Len(P)
    BY <1>1, <1>2, <1>5
  <2>2. CASE j \in 1 .. Len(P)
    BY <1>1, <1>5, <2>1, <2>2, Zenon DEF Aged
  <2>3. CASE j = Len(P) + 1
    <3>1. A[i] = P[i] /\ A[j] = clock
      BY <1>1, <2>1, <2>3, Zenon
    <3>2. P[i] = clock => i > Len(P) - switches
      BY <1>5, <2>1, Zenon DEF Aged
    <3>3. P[i] <= clock /\ P[i] \in Nat
      BY <1>5, <2>1 DEF Aged
    <3> QED
      BY <1>2, <2>1, <2>3, <3>1, <3>2, <3>3
  <2> QED
    BY <1>3, <2>2, <2>3, Zenon
<1>6. Aged(P, switches) => \A i \in 1 .. Len(A) : A[i] = clock => i > Len(A) - (switches + 1)
  BY <1>1, <1>2, <1>3 DEF Aged
<1> QED
  BY <1>1, <1>4, <1>5, <1>6, ZenonT(30) DEF Aged

-----------------------------------------------------------------------------
(* What every call of WriteLog does to the queue and to the directory.     *)
LEMMA CleanedDirectory ==
  ASSUME LogInv, NEW k \in 0 .. m_iFileCount, NEW gone \in SUBSET Doomed(k)
  PROVE  /\ Popped(k) \in Seq(Names) /\ Len(Popped(k)) = Len(m_FileList) - k
         /\ ~back => Aged(Popped(k), switches)
         /\ gone \subseteq Names /\ LostSight(k, gone) \subseteq Names
         /\ Without(gone) \in [Names -> Seq(1 .. MaxMsg) \cup {NoFile}]
         /\ \A n \in Names : Without(gone)[n] # NoFile =>
              Without(gone)[n] = disk[n] /\ disk[n] # NoFile /\ n \notin gone
         /\ \A n \in Names : n \notin gone => Without(gone)[n] = disk[n]
<1>1. Popped(k) \in Seq(Names) /\ Len(Popped(k)) = Len(m_FileList) - k
  BY PoppedQueue, Zenon DEF LogInv
<1>2. ~back => Aged(Popped(k), switches)
  BY PoppedInOrder, Zenon DEF LogInv
<1>3. Doomed(k) \subseteq Names
  BY DEF Doomed, LogInv, LogTypeOK, Queue, CountIsLength
<1>4. gone \subseteq Names /\ LostSight(k, gone) \subseteq Names
  BY <1>3, Zenon DEF LostSight, LogInv, LogTypeOK
<1>5. Without(gone) \in [Names -> Seq(1 .. MaxMsg) \cup {NoFile}]
  BY DEF Without, LogInv, LogTypeOK
<1>6. \A n \in Names : Without(gone)[n] = IF n \in gone THEN NoFile ELSE disk[n]
  BY Zenon DEF Without
<1> QED
  BY <1>1, <1>2, <1>4, <1>5, <1>6, ZenonT(30)

(* The files that a call leaves are in what is left of the queue, or have  *)
(* been lost sight of.                                                     *)
LEMMA CleanedLists ==
  ASSUME LogInv, NEW k \in 0 .. m_iFileCount, NEW gone \in SUBSET Doomed(k), running, plainName,
         NEW n \in Names, disk[n] # NoFile, n \notin gone, n \notin LostSight(k, gone)
  PROVE  \E i \in 1 .. Len(Popped(k)) : Popped(k)[i] = n
<1>1. n \notin missed /\ n \notin Doomed(k)
  BY Zenon DEF LostSight
<1> QED
  BY <1>1, PoppedLists, Zenon

(* Appending to the open file.                                             *)
LEMMA WriteSameKeeps ==
  ASSUME LogInv, running, msg < MaxMsg, msg' = msg + 1, NEW k \in 0 .. m_iFileCount,
         NEW gone \in SUBSET Doomed(k), IF due THEN Cleaned(k) ELSE k = 0, WriteSame(k, gone),
         due' = FALSE, UNCHANGED <<plainName, clock, running, m_bInit, back>>
  PROVE  LogInv'
<1> DEFINE P == Popped(k)  W == Without(gone)
<1>1. /\ P \in Seq(Names) /\ Len(P) = Len(m_FileList) - k
      /\ ~back => Aged(P, switches)
      /\ LostSight(k, gone) \subseteq Names
  BY CleanedDirectory, Zenon
<1>2. m_FileList' = P /\ m_FileFD \in Names /\ msg' \in 1 .. MaxMsg /\ m_FileFD' = m_FileFD
  BY DEF LogInv, LogTypeOK, WriteSame, NeedsFile
<1>3. linked' => linked /\ m_FileFD \notin gone
  BY Zenon DEF WriteSame
<1>4. linked' => disk[m_FileFD] \in Seq(1 .. MaxMsg) /\ W[m_FileFD] = disk[m_FileFD]
  <2>1. linked => disk[m_FileFD] \in Seq(1 .. MaxMsg)
    BY <1>2 DEF LogInv, OpenFile, LogTypeOK
  <2> QED
    BY <1>2, <1>3, <2>1, CleanedDirectory, Zenon
<1>5. /\ W \in [Names -> Seq(1 .. MaxMsg) \cup {NoFile}]
      /\ \A n \in Names : W[n] # NoFile => disk[n] # NoFile /\ n \notin gone
  BY CleanedDirectory, Zenon
<1>6. /\ disk' \in [Names -> Seq(1 .. MaxMsg) \cup {NoFile}]
      /\ \A n \in Names : disk'[n] # NoFile => disk[n] # NoFile /\ n \notin gone
      /\ linked' => disk'[m_FileFD] # NoFile
  <2> HIDE DEF W
  <2>1. CASE linked'
    <3>1. PICK w \in Written : disk' = [W EXCEPT ![m_FileFD] = @ \o w]
      BY <2>1, Zenon DEF WriteSame, W
    <3>2. W[m_FileFD] \o w \in Seq(1 .. MaxMsg)
      <4>1. \A s, u \in Seq(1 .. MaxMsg) : s \o u \in Seq(1 .. MaxMsg)
        OBVIOUS
      <4>2. Written \subseteq Seq(1 .. MaxMsg)
        BY <1>2 DEF Written
      <4> QED
        BY <1>4, <2>1, <3>1, <4>1, <4>2, Zenon
    <3> DEFINE v == W[m_FileFD] \o w
    <3>3. disk' = [W EXCEPT ![m_FileFD] = v]
      BY <3>1
    <3> HIDE DEF v
    <3>4. disk' \in [Names -> Seq(1 .. MaxMsg) \cup {NoFile}] /\ disk'[m_FileFD] = v
      BY <1>2, <1>5, <3>2, <3>3, Zenon DEF v
    <3>5. \A n \in Names : n # m_FileFD => disk'[n] = W[n]
      BY <1>2, <1>5, <3>3, Zenon
    <3>6. v # NoFile /\ disk[m_FileFD] # NoFile /\ m_FileFD \notin gone
      BY <1>3, <1>4, <2>1, <3>2, Zenon DEF v
    <3> QED
      BY <1>5, <3>4, <3>5, <3>6, Zenon
  <2>2. CASE ~linked'
    BY <1>5, <2>2, Zenon DEF WriteSame, W
  <2> QED
    BY <2>1, <2>2, Zenon
<1>7. LogTypeOK'
  <2>1. Booleans'
    BY Zenon DEF LogInv, LogTypeOK, WriteSame, Booleans
  <2> QED
    BY <1>1, <1>2, <1>6, <2>1, SMTT(30) DEF LogInv, LogTypeOK, WriteSame, Booleans
<1>8. Queue'
  <2>1. (m_iFileCount = Len(m_FileList))'
    BY <1>1, <1>2 DEF WriteSame, LogInv, LogTypeOK, Queue, CountIsLength
  <2>2. ~back => Aged(m_FileList, switches)'
    BY <1>1, <1>2, Zenon DEF Aged, WriteSame
  <2> QED
    BY <2>1, <2>2, Zenon DEF WriteSame, LogInv, Queue, CountIsLength
<1>9. Directory'
  <2>1. running /\ plainName => \A n \in Names : disk'[n] # NoFile /\ n \notin missed' =>
                                  \E i \in 1 .. Len(P) : P[i] = n
    BY <1>6, CleanedLists, Zenon DEF WriteSame
  <2>2. ~back => Past'
    BY <1>6, Zenon DEF WriteSame, LogInv, LogTypeOK, Directory, Past
  <2> QED
    BY <1>2, <2>1, <2>2, Zenon DEF Directory
<1>10. OpenFile'
  <2>1. ASSUME MaxSwitches <= MinFiles, ~back
        PROVE  linked' /\ MaxSwitches >= 1 /\ Len(P) > 0 /\ P[Len(P)] = m_FileFD
    <3>1. m_FileFD \notin Doomed(k) /\ k < Len(m_FileList)
      BY <1>2, <2>1, OpenFileKept
    <3>2. linked /\ MaxSwitches >= 1 /\ m_FileList[Len(m_FileList)] = m_FileFD
      BY <1>2, <2>1 DEF LogInv, OpenFile
    <3>3. \A i \in 1 .. Len(m_FileList) - k : P[i] = m_FileList[k + i]
      BY PoppedQueue, ZenonT(30) DEF LogInv
    <3>4. k \in Nat /\ Len(m_FileList) \in Nat
      BY DEF LogInv, LogTypeOK
    <3> HIDE DEF P
    <3>5. Len(P) \in 1 .. Len(m_FileList) - k /\ k + Len(P) = Len(m_FileList) /\ Len(P) > 0
      BY <1>1, <3>1, <3>4
    <3>6. P[Len(P)] = m_FileList[Len(m_FileList)]
      BY <3>3, <3>5, Zenon
    <3> QED
      BY <3>1, <3>2, <3>5, <3>6, ZenonT(30) DEF WriteSame
  <2> QED
    BY <1>2, <1>6, <2>1, Zenon DEF OpenFile
<1> QED
  BY <1>7, <1>8, <1>9, <1>10, Zenon DEF LogInv

(* Opening the file of this second.                                        *)
LEMMA WriteNewKeeps ==
  ASSUME LogInv, running, msg < MaxMsg, msg' = msg + 1, NEW k \in 0 .. m_iFileCount,
         NEW gone \in SUBSET Doomed(k), WriteNew(k, gone), due' = FALSE,
         UNCHANGED <<plainName, clock, running, m_bInit, back>>
  PROVE  LogInv'
<1> DEFINE P == Popped(k)  W == Without(gone)
<1>1. /\ P \in Seq(Names) /\ Len(P) = Len(m_FileList) - k
      /\ ~back => Aged(P, switches)
      /\ LostSight(k, gone) \subseteq Names
      /\ W \in [Names -> Seq(1 .. MaxMsg) \cup {NoFile}]
      /\ \A n \in Names : W[n] # NoFile => disk[n] # NoFile /\ n \notin gone
  BY CleanedDirectory, Zenon
<1>2. m_FileList' = Append(P, clock) /\ switches < MaxSwitches /\ switches' = switches + 1
  BY DEF WriteNew
<1>3. /\ m_FileList' \in Seq(Names) /\ Len(m_FileList') = Len(P) + 1
      /\ m_FileList'[Len(m_FileList')] = clock
      /\ \A i \in 1 .. Len(P) : m_FileList'[i] = P[i]
      /\ ~back => Aged(m_FileList', switches + 1)
  <2> HIDE DEF P
  <2>1. PICK A : A = Append(P, clock) /\ m_FileList' = A
    BY <1>2, Zenon
  <2>2. LogTypeOK
    BY DEF LogInv
  <2> QED
    BY <1>1, <1>2, <2>1, <2>2, AppendedInOrder, ZenonT(30)
<1>4. clock \in Names /\ msg' \in 1 .. MaxMsg /\ Written \subseteq Seq(1 .. MaxMsg)
  BY DEF LogInv, LogTypeOK, Written
<1>5. PICK w \in Written : disk' = [W EXCEPT ![clock] = w]
  BY Zenon DEF WriteNew
<1> HIDE DEF W
<1>6. /\ disk' \in [Names -> Seq(1 .. MaxMsg) \cup {NoFile}] /\ disk'[clock] # NoFile
      /\ \A n \in Names : disk'[n] # NoFile => n = clock \/ (disk[n] # NoFile /\ n \notin gone)
  <2>1. w \in Seq(1 .. MaxMsg) /\ w # NoFile
    BY <1>4, <1>5, Zenon
  <2>2. disk' \in [Names -> Seq(1 .. MaxMsg) \cup {NoFile}] /\ disk'[clock] = w
    BY <1>1, <1>4, <1>5, <2>1, Zenon
  <2>3. \A n \in Names : n # clock => disk'[n] = W[n]
    BY <1>1, <1>4, <1>5, Zenon
  <2> QED
    BY <1>1, <2>1, <2>2, <2>3, ZenonT(30)
<1>7. LogTypeOK'
  <2>1. Booleans'
    BY Zenon DEF LogInv, LogTypeOK, WriteNew, Booleans
  <2>2. missed' \subseteq Names
    BY <1>1, Zenon DEF WriteNew
  <2> QED
    BY <1>3, <1>4, <1>6, <2>1, <2>2 DEF LogInv, LogTypeOK, WriteNew, Booleans
<1>8. Queue'
  <2>1. (m_iFileCount = Len(m_FileList))'
    BY <1>1, <1>3, Zenon DEF WriteNew, LogInv, LogTypeOK, Queue, CountIsLength
  <2>2. switches' <= MaxSwitches
    BY <1>2 DEF LogInv, LogTypeOK
  <2>3. ~back => Aged(m_FileList, switches)'
    BY <1>2, <1>3, Zenon DEF Aged
  <2> QED
    BY <2>1, <2>2, <2>3, ZenonT(30) DEF Queue, CountIsLength
<1>9. Directory'
  <2>1. ASSUME running, plainName, NEW n \in Names, disk'[n] # NoFile, n \notin missed'
        PROVE  \E i \in 1 .. Len(m_FileList') : m_FileList'[i] = n
    <3>1. CASE n = clock
      BY <1>1, <1>3, <3>1, SMTT(30)
    <3>2. CASE n # clock
      <4>1. disk[n] # NoFile /\ n \notin gone /\ n \notin LostSight(k, gone)
        BY <1>6, <2>1, <3>2, Zenon DEF WriteNew
      <4>2. PICK i \in 1 .. Len(P) : P[i] = n
        BY <2>1, <4>1, CleanedLists, Zenon
      <4> QED
        BY <1>1, <1>3, <4>2, i \in 1 .. Len(m_FileList'), ZenonT(30)
    <3> QED
      BY <3>1, <3>2
  <2>2. switches' >= 1
    BY <1>2 DEF LogInv, LogTypeOK
  <2>3. ~back => Past'
    BY <1>4, <1>6, <2>2 DEF LogInv, LogTypeOK, Directory, Past
  <2> QED
    BY <2>1, <2>3, Zenon DEF Directory
<1>10. OpenFile'
  <2>1. MaxSwitches >= 1
    BY <1>2 DEF LogInv, LogTypeOK
  <2> QED
    BY <1>1, <1>3, <1>6, <2>1, SMTT(30) DEF WriteNew, OpenFile
<1> QED
  BY <1>7, <1>8, <1>9, <1>10, Zenon DEF LogInv

(* A file that cannot be opened.                                           *)
LEMMA WriteFailsKeeps ==
  ASSUME LogInv, running, msg < MaxMsg, msg' = msg + 1, NEW k \in 0 .. m_iFileCount,
         NEW gone \in SUBSET Doomed(k), WriteFails(k, gone), due' = FALSE,
         UNCHANGED <<plainName, clock, running, m_bInit, back>>
  PROVE  LogInv'
<1> DEFINE P == Popped(k)
<1>1. /\ P \in Seq(Names) /\ Len(P) = Len(m_FileList) - k
      /\ ~back => Aged(P, switches)
      /\ LostSight(k, gone) \subseteq Names
  BY CleanedDirectory, Zenon
<1>2. m_FileList' = P
  BY DEF WriteFails
<1>3. /\ disk' \in [Names -> Seq(1 .. MaxMsg) \cup {NoFile}]
      /\ \A n \in Names : disk'[n] # NoFile => disk[n] # NoFile /\ n \notin gone
  BY CleanedDirectory, Zenon DEF WriteFails
<1>4. LogTypeOK'
  <2>1. Booleans'
    BY Zenon DEF LogInv, LogTypeOK, WriteFails, Booleans
  <2> QED
    BY <1>1, <1>2, <1>3, <2>1 DEF LogInv, LogTypeOK, WriteFails, Booleans
<1>5. Queue'
  <2>1. (m_iFileCount = Len(m_FileList))'
    BY <1>1, <1>2, Zenon DEF WriteFails, LogInv, LogTypeOK, Queue, CountIsLength
  <2>2. ~back => Aged(m_FileList, switches)'
    BY <1>1, <1>2, Zenon DEF Aged, WriteFails
  <2> QED
    BY <2>1, <2>2, Zenon DEF WriteFails, LogInv, Queue, CountIsLength
<1>6. Directory'
  <2>1. running /\ plainName => \A n \in Names : disk'[n] # NoFile /\ n \notin missed' =>
                                  \E i \in 1 .. Len(P) : P[i] = n
    BY <1>3, CleanedLists, Zenon DEF WriteFails
  <2>2. ~back => Past'
    BY <1>3, Zenon DEF WriteFails, LogInv, LogTypeOK, Directory, Past
  <2> QED
    BY <1>2, <2>1, <2>2, Zenon DEF Directory
<1>7. OpenFile'
  BY DEF WriteFails, OpenFile
<1> QED
  BY <1>4, <1>5, <1>6, <1>7 DEF LogInv

LEMMA LogStep == LogInv /\ [Next]_vars => LogInv'
<1> SUFFICES ASSUME LogInv, [Next]_vars PROVE LogInv'
  OBVIOUS
<1>1. CASE LogInit
  BY <1>1, ListedKeeps, NotListedKeeps, Zenon DEF LogInit
<1>2. CASE Stop
  BY <1>2, StopKeeps, Zenon
<1>3. CASE Time
  BY <1>3, TimeKeeps
<1>4. CASE WriteLog
  <2>0. PICK k \in 0 .. m_iFileCount : \E gone \in SUBSET Doomed(k) :
          /\ IF due THEN Cleaned(k) ELSE k = 0
          /\ WriteSame(k, gone) \/ WriteNew(k, gone) \/ WriteFails(k, gone)
    BY <1>4, Zenon DEF WriteLog
  <2>1. PICK gone \in SUBSET Doomed(k) :
          /\ IF due THEN Cleaned(k) ELSE k = 0
          /\ WriteSame(k, gone) \/ WriteNew(k, gone) \/ WriteFails(k, gone)
    BY <2>0, Zenon
  <2>2. /\ running /\ msg < MaxMsg /\ msg' = msg + 1 /\ due' = FALSE
        /\ UNCHANGED <<plainName, clock, running, m_bInit, back>>
    BY <1>4, Zenon DEF WriteLog
  <2> QED
    BY <2>1, <2>2, WriteSameKeeps, WriteNewKeeps, WriteFailsKeeps, ZenonT(30)
<1>5. CASE UNCHANGED vars
  BY <1>5 DEF vars, file, LogInv, LogTypeOK, Queue, CountIsLength, Aged, Directory, Past, OpenFile
<1> QED
  BY <1>1, <1>2, <1>3, <1>4, <1>5, Zenon DEF Next

-----------------------------------------------------------------------------
(* LogInv holds in every state of the log: CleanFile_, SwitchNewFile and   *)
(* a restart keep it.                                                      *)
THEOREM LogInvariant == Spec => []LogInv
BY LogInitial, LogStep, PTL DEF Spec

(* The counter that CleanFile_ tests is the length of the queue it pops.   *)
THEOREM CountCorrect == Spec => [](LogTypeOK /\ CountIsLength)
<1>1. LogInv => LogTypeOK /\ CountIsLength
  BY DEF LogInv, Queue
<1> QED
  BY <1>1, LogInvariant, PTL

(* The queue lists every file that no failing call has lost sight of, in   *)
(* the order of age until the local time is set back.                      *)
THEOREM ListCorrect == Spec => []ListedOldestFirst
<1>1. LogInv => ListedOldestFirst
  BY Zenon DEF LogInv, Queue, Aged, Directory, ListedOldestFirst
<1> QED
  BY <1>1, LogInvariant, PTL

(* CleanFile_ never deletes the file that is being written, whatever the   *)
(* limits, as long as no more files are opened in a second than it keeps   *)
(* and the local time is not set back.                                     *)
THEOREM OpenFileCorrect == Spec => []OpenFileOnDisk
<1>1. LogInv => OpenFileOnDisk
  BY DEF LogInv, OpenFile, OpenFileOnDisk
<1> QED
  BY <1>1, LogInvariant, PTL

-----------------------------------------------------------------------------
(* A file that is deleted is older than each one of the queue that stays.  *)
LEMMA GoneIsOldest ==
  ASSUME LogInv, NEW k \in 0 .. m_iFileCount, running, plainName, ~back, NEW n \in Doomed(k),
         NEW m \in Names, disk[m] # NoFile, m \notin missed, m \notin Doomed(k)
  PROVE  n < m
<1>1. PICK j \in 1 .. k : m_FileList[j] = n
  BY DEF Doomed
<1>2. PICK i \in 1 .. Len(m_FileList) : m_FileList[i] = m
  BY Zenon DEF LogInv, Directory
<1>3. k \in Nat /\ k <= Len(m_FileList) /\ Len(m_FileList) \in Nat
  BY DEF LogInv, LogTypeOK, Queue, CountIsLength
<1>4. i \notin 1 .. k /\ n # m
  BY <1>2, Zenon DEF Doomed
<1>5. j < i /\ j \in 1 .. Len(m_FileList)
  BY <1>3, <1>4
<1>6. n <= m /\ n \in Names
  BY <1>1, <1>2, <1>5, SMTT(30) DEF LogInv, LogTypeOK, Queue, Aged
<1> QED
  BY <1>4, <1>6

(* What OldestGoesFirst says of one step.                                  *)
Grows(n) == n = m_FileFD /\ disk[n] # NoFile /\ disk'[n] = Append(disk[n], msg')
Anew(n)  == n = clock /\ disk'[n] \in Written
Goes(n)  == disk'[n] = NoFile /\ \A m \in Names :
              plainName /\ ~back /\ disk'[m] # NoFile /\ m \notin missed' => n < m

LEMMA OldestStep ==
  ASSUME LogInv, Next, NEW n \in Names, disk'[n] # disk[n]
  PROVE  Grows(n) \/ Anew(n) \/ Goes(n)
<1>1. WriteLog
  BY ZenonT(30) DEF Next, LogInit, Stop, Time
<1>0. PICK k \in 0 .. m_iFileCount : \E gone \in SUBSET Doomed(k) :
        WriteSame(k, gone) \/ WriteNew(k, gone) \/ WriteFails(k, gone)
  BY <1>1, Zenon DEF WriteLog
<1>2. PICK gone \in SUBSET Doomed(k) : WriteSame(k, gone) \/ WriteNew(k, gone) \/ WriteFails(k, gone)
  BY <1>0, Zenon
<1> DEFINE W == Without(gone)
<1>3. /\ running /\ W \in [Names -> Seq(1 .. MaxMsg) \cup {NoFile}]
      /\ \A m \in Names : W[m] # NoFile => disk[m] # NoFile /\ m \notin gone
      /\ \A m \in Names : m \notin gone => W[m] = disk[m]
  <2>1. running
    BY <1>1, Zenon DEF WriteLog
  <2>2. W \in [Names -> Seq(1 .. MaxMsg) \cup {NoFile}]
    BY CleanedDirectory, ZenonT(30)
  <2>3. \A m \in Names : W[m] = IF m \in gone THEN NoFile ELSE disk[m]
    BY Zenon DEF Without
  <2> HIDE DEF W
  <2> QED
    BY <2>1, <2>2, <2>3, ZenonT(30)
<1>4. ASSUME plainName, ~back, n \in gone, NEW m \in Names, W[m] # NoFile, m \notin LostSight(k, gone)
      PROVE  n < m
  <2>1. disk[m] # NoFile /\ m \notin missed /\ m \notin Doomed(k) /\ n \in Doomed(k)
    BY <1>3, <1>4, Zenon DEF LostSight
  <2> QED
    BY <1>3, <1>4, <2>1, GoneIsOldest, Zenon
<1>5. \A m \in Names : m \in gone => W[m] = NoFile
  BY Zenon DEF Without
<1> HIDE DEF W
<1>6. CASE WriteSame(k, gone) /\ linked'
  <2>1. m_FileFD \in Names /\ m_FileFD \notin gone /\ disk[m_FileFD] # NoFile
    <3>1. m_FileFD # 0 /\ linked /\ m_FileFD \notin gone
      BY <1>6, Zenon DEF WriteSame, NeedsFile
    <3> QED
      BY <3>1 DEF LogInv, LogTypeOK, OpenFile
  <2>2. PICK w \in Written : disk' = [W EXCEPT ![m_FileFD] = @ \o w]
    BY <1>6, Zenon DEF WriteSame, W
  <2>3. CASE n = m_FileFD
    <3>1. disk'[n] = disk[n] \o w /\ disk[n] \in Seq(1 .. MaxMsg)
      <4>1. disk'[n] = W[n] \o w /\ W[n] = disk[n]
        BY <1>3, <2>1, <2>2, <2>3, Zenon
      <4>2. disk[n] \in Seq(1 .. MaxMsg)
        BY <2>1, <2>3 DEF LogInv, LogTypeOK
      <4> QED
        BY <4>1, <4>2, Zenon
    <3>2. \A s \in Seq(1 .. MaxMsg) : s \o <<>> = s
      OBVIOUS
    <3>3. w = <<msg'>>
      BY <3>1, <3>2, Zenon DEF Written
    <3>4. msg' \in 1 .. MaxMsg
      BY <1>1 DEF WriteLog, LogInv, LogTypeOK
    <3>5. \A s \in Seq(1 .. MaxMsg), v \in 1 .. MaxMsg : s \o <<v>> = Append(s, v)
      OBVIOUS
    <3>6. disk'[n] = Append(disk[n], msg')
      BY <3>1, <3>3, <3>4, <3>5, Zenon
    <3> QED
      BY <2>1, <2>3, <3>6, Zenon DEF Grows
  <2>4. CASE n # m_FileFD
    <3>1. disk'[n] = W[n]
      BY <1>3, <2>1, <2>2, <2>4, Zenon
    <3>2. n \in gone /\ disk'[n] = NoFile
      BY <1>3, <1>5, <3>1, Zenon
    <3>3. \A m \in Names : disk'[m] # NoFile => W[m] # NoFile
      <4> TAKE m \in Names
      <4>1. CASE m = m_FileFD
        BY <1>3, <2>1, <4>1, Zenon
      <4>2. CASE m # m_FileFD
        BY <1>3, <2>1, <2>2, <4>2, Zenon
      <4> QED
        BY <4>1, <4>2
    <3>4. missed' = LostSight(k, gone)
      BY <1>6, Zenon DEF WriteSame
    <3> QED
      BY <1>4, <3>2, <3>3, <3>4, Zenon DEF Goes
  <2> QED
    BY <2>3, <2>4, Zenon
<1>7. CASE (WriteSame(k, gone) /\ ~linked') \/ WriteFails(k, gone)
  <2>1. disk' = W /\ missed' = LostSight(k, gone)
    BY <1>7, Zenon DEF WriteSame, WriteFails, W
  <2>2. n \in gone /\ disk'[n] = NoFile
    BY <1>3, <1>5, <2>1, Zenon
  <2> QED
    BY <1>4, <2>1, <2>2, Zenon DEF Goes
<1>8. CASE WriteNew(k, gone)
  <2>1. clock \in Names /\ missed' = LostSight(k, gone) \ {clock}
    BY <1>8, Zenon DEF WriteNew, LogInv, LogTypeOK
  <2>2. PICK w \in Written : disk' = [W EXCEPT ![clock] = w]
    BY <1>8, Zenon DEF WriteNew, W
  <2>3. CASE n = clock
    BY <1>3, <2>1, <2>2, <2>3, Zenon DEF Anew
  <2>4. CASE n # clock
    <3>1. disk'[n] = W[n]
      BY <1>3, <2>1, <2>2, <2>4, Zenon
    <3>2. n \in gone /\ disk'[n] = NoFile /\ disk[n] # NoFile
      BY <1>3, <1>5, <3>1, Zenon
    <3>3. ~back => n < clock
      BY <2>1, <2>4, <3>2 DEF LogInv, Directory, Past
    <3>4. \A m \in Names : m # clock => disk'[m] = W[m]
      BY <1>3, <2>1, <2>2, Zenon
    <3>5. \A m \in Names : m # clock /\ m \notin missed' => m \notin LostSight(k, gone)
      BY <2>1, Zenon
    <3> QED
      BY <1>4, <3>2, <3>3, <3>4, <3>5, Zenon DEF Goes
  <2> QED
    BY <2>3, <2>4
<1> QED
  BY <1>2, <1>6, <1>7, <1>8, Zenon

(* Whatever CleanFile_ deletes is older than all it knows of that stays,   *)
(* until the local time is set back; the rest of the directory only grows, *)
(* or is opened anew under its name.                                       *)
THEOREM OldestCorrect == Spec => OldestGoesFirst
<1>1. LogInv /\ [Next]_vars =>
        [\A n \in Names : disk'[n] # disk[n] =>
           \/ n = m_FileFD /\ disk[n] # NoFile /\ disk'[n] = Append(disk[n], msg')
           \/ n = clock /\ disk'[n] \in Written
           \/ disk'[n] = NoFile /\ \A m \in Names :
                plainName /\ ~back /\ disk'[m] # NoFile /\ m \notin missed' => n < m]_vars
  BY OldestStep, Zenon DEF Grows, Anew, Goes
<1> QED
  BY <1>1, LogInvariant, PTL DEF Spec, OldestGoesFirst

-----------------------------------------------------------------------------
(* The messages on disk are of the past, and the open file is the newest.  *)
Order ==
  /\ MessagesInOrder
  /\ \A n \in Names : disk[n] # NoFile => \A i \in 1 .. Len(disk[n]) : disk[n][i] <= msg
  /\ ~back /\ m_FileFD # 0 => \A n \in Names : disk[n] # NoFile => n <= m_FileFD

(* A message added to the newest file comes after all others.              *)
LEMMA NewestLast ==
  ASSUME LogTypeOK, LogTypeOK', Order, msg' = msg + 1, back' = back, NEW top \in Names,
         \A n \in Names : n # top /\ disk'[n] # NoFile => disk'[n] = disk[n] /\ (~back => n <= top),
         (disk'[top] = Append(disk[top], msg') /\ disk[top] # NoFile) \/ disk'[top] = <<msg'>>
  PROVE  /\ MessagesInOrder'
         /\ \A n \in Names : disk'[n] # NoFile => \A i \in 1 .. Len(disk'[n]) : disk'[n][i] <= msg'
<1>1. msg \in Nat /\ \A n \in Names : disk[n] # NoFile => disk[n] \in Seq(1 .. MaxMsg)
  BY DEF LogTypeOK
<1>2. \A n \in Names : disk[n] # NoFile =>
        Len(disk[n]) \in Nat /\ \A i \in 1 .. Len(disk[n]) : disk[n][i] \in Nat /\ disk[n][i] <= msg
  <2> SUFFICES ASSUME NEW n \in Names, disk[n] # NoFile
               PROVE  /\ Len(disk[n]) \in Nat
                      /\ \A i \in 1 .. Len(disk[n]) : disk[n][i] \in Nat /\ disk[n][i] <= msg
    BY SMTT(30)
  <2>1. \A s \in Seq(1 .. MaxMsg) : Len(s) \in Nat /\ \A i \in 1 .. Len(s) : s[i] \in Nat
    OBVIOUS
  <2>2. \A i \in 1 .. Len(disk[n]) : disk[n][i] <= msg
    BY Zenon DEF Order
  <2> QED
    BY <1>1, <2>1, <2>2, Zenon
<1>3. \A n \in Names : n # top /\ disk'[n] # NoFile =>
        /\ disk[n] # NoFile /\ disk'[n] = disk[n] /\ (~back => n < top)
        /\ Len(disk[n]) \in Nat /\ \A i \in 1 .. Len(disk[n]) : disk[n][i] \in Nat /\ disk[n][i] <= msg
  BY <1>2
<1>4. /\ Len(disk'[top]) \in Nat \ {0}
      /\ disk'[top][Len(disk'[top])] = msg'
      /\ Len(disk'[top]) > 1 => disk[top] # NoFile /\ Len(disk[top]) = Len(disk'[top]) - 1
      /\ \A i \in 1 .. Len(disk'[top]) - 1 : disk'[top][i] = disk[top][i]
  <2>1. CASE disk'[top] = <<msg'>>
    BY <2>1
  <2>2. CASE disk'[top] = Append(disk[top], msg') /\ disk[top] # NoFile
    <3>1. disk[top] \in Seq(1 .. MaxMsg) /\ msg' \in 1 .. MaxMsg
      BY <1>1, <2>2 DEF LogTypeOK
    <3>2. PICK s \in Seq(1 .. MaxMsg), v \in 1 .. MaxMsg : s = disk[top] /\ v = msg'
      BY <3>1, Zenon
    <3>3. PICK a : a = Append(s, v) /\ disk'[top] = a
      BY <2>2, <3>2, SMTT(30)
    <3>4. /\ Len(a) = Len(s) + 1 /\ Len(s) \in Nat /\ a[Len(s) + 1] = v
          /\ \A i \in 1 .. Len(s) : a[i] = s[i]
      BY <3>3, AppendProperties, SMTT(30)
    <3> QED
      BY <2>2, <3>2, <3>3, <3>4
  <2> QED
    BY <2>1, <2>2, Zenon
<1>5. \A i \in 1 .. Len(disk'[top]) - 1 :
        disk'[top][i] \in Nat /\ disk'[top][i] <= msg /\ i \in 1 .. Len(disk[top]) /\ disk[top] # NoFile
  <2> TAKE i \in 1 .. Len(disk'[top]) - 1
  <2>1. disk[top] # NoFile /\ i \in 1 .. Len(disk[top])
    BY <1>4
  <2> QED
    BY <1>2, <1>4, <2>1, ZenonT(30)
<1>6. \A i \in 1 .. Len(disk'[top]) : i = Len(disk'[top]) \/ i \in 1 .. Len(disk'[top]) - 1
  BY <1>4
<1>7. \A i \in 1 .. Len(disk'[top]) : disk'[top][i] <= msg'
  <2> TAKE i \in 1 .. Len(disk'[top])
  <2>1. CASE i = Len(disk'[top])
    <3>1. disk'[top][i] = msg'
      BY <1>4, <2>1, Zenon
    <3> QED
      BY <1>1, <3>1
  <2>2. CASE i \in 1 .. Len(disk'[top]) - 1
    <3>1. disk'[top][i] \in Nat /\ disk'[top][i] <= msg
      BY <1>5, <2>2, Zenon
    <3> QED
      BY <1>1, <3>1
  <2> QED
    BY <1>6, <2>1, <2>2, Zenon
<1>8. ASSUME NEW i \in 1 .. Len(disk'[top]), NEW j \in 1 .. Len(disk'[top]), i < j
      PROVE  disk'[top][i] < disk'[top][j]
  <2>1. i \in 1 .. Len(disk'[top]) - 1
    BY <1>4, <1>8
  <2>2. CASE j = Len(disk'[top])
    BY <1>1, <1>4, <1>5, <2>1, <2>2, SMTT(30)
  <2>3. CASE j \in 1 .. Len(disk'[top]) - 1
    <3>1. disk[top][i] < disk[top][j]
      BY <1>5, <1>8, <2>1, <2>3, Zenon DEF Order, MessagesInOrder
    <3> QED
      BY <1>4, <2>1, <2>3, <3>1, ZenonT(30)
  <2> QED
    BY <1>6, <2>2, <2>3, SMTT(30)
<1>9. ASSUME ~back, NEW m \in Names, m # top, disk'[m] # NoFile,
             NEW i \in 1 .. Len(disk[m]), NEW j \in 1 .. Len(disk'[top])
      PROVE  disk[m][i] < disk'[top][j]
  <2>1. disk[m] # NoFile /\ m < top /\ disk[m][i] \in Nat /\ disk[m][i] <= msg
    BY <1>3, <1>9
  <2>2. CASE j = Len(disk'[top])
    <3>1. disk'[top][j] = msg + 1
      BY <1>4, <2>2
    <3>2. \A x, y \in Nat : x <= y => x < y + 1
      OBVIOUS
    <3> QED
      BY <1>1, <2>1, <3>1, <3>2, Zenon
  <2>3. CASE j \in 1 .. Len(disk'[top]) - 1
    <3>1. disk[m][i] < disk[top][j]
      BY <1>5, <1>9, <2>1, <2>3, Zenon DEF Order, MessagesInOrder
    <3> QED
      BY <1>4, <2>3, <3>1
  <2> QED
    BY <1>6, <2>2, <2>3
<1>10. ASSUME NEW n \in Names, disk'[n] # NoFile, NEW i \in 1 .. Len(disk'[n]), NEW j \in 1 .. Len(disk'[n]),
              i < j
       PROVE  disk'[n][i] < disk'[n][j]
  <2>1. CASE n = top
    BY <1>8, <1>10, <2>1
  <2>2. CASE n # top
    BY <1>3, <1>10, <2>2, SMTT(30) DEF Order, MessagesInOrder
  <2> QED
    BY <2>1, <2>2
<1>11. ASSUME ~back, NEW m \in Names, NEW n \in Names, m < n, disk'[m] # NoFile, disk'[n] # NoFile,
              NEW i \in 1 .. Len(disk'[m]), NEW j \in 1 .. Len(disk'[n])
       PROVE  disk'[m][i] < disk'[n][j]
  <2>1. m # top
    BY <1>3, <1>11
  <2>2. CASE n = top
    BY <1>3, <1>9, <1>11, <2>1, <2>2, ZenonT(30)
  <2>3. CASE n # top
    BY <1>3, <1>11, <2>1, <2>3, ZenonT(30) DEF Order, MessagesInOrder
  <2> QED
    BY <2>2, <2>3
<1>12. MessagesInOrder'
  BY <1>10, <1>11, ZenonT(30) DEF MessagesInOrder
<1>13. ASSUME NEW n \in Names, disk'[n] # NoFile, NEW i \in 1 .. Len(disk'[n])
       PROVE  disk'[n][i] <= msg'
  BY <1>1, <1>3, <1>7, <1>13, SMTT(30)
<1> QED
  BY <1>12, <1>13, Zenon

(* Files go or are emptied, and nothing else changes.                      *)
LEMMA FewerFiles ==
  ASSUME Order, msg \in Nat, msg' \in {msg, msg + 1}, ~back' => ~back,
         \A n \in Names : disk'[n] # NoFile => disk'[n] = disk[n] \/ disk'[n] = <<>>,
         LogTypeOK
  PROVE  /\ MessagesInOrder'
         /\ \A n \in Names : disk'[n] # NoFile => \A i \in 1 .. Len(disk'[n]) : disk'[n][i] <= msg'
<1>1. \A n \in Names : disk'[n] # NoFile /\ 1 .. Len(disk'[n]) # {} => disk'[n] = disk[n] /\ disk[n] # NoFile
  <2>1. 1 .. Len(<<>>) = {}
    OBVIOUS
  <2> QED
    BY <2>1, Zenon
<1>2. MessagesInOrder'
  <2>1. ASSUME NEW n \in Names, disk'[n] # NoFile, NEW i \in 1 .. Len(disk'[n]), NEW j \in 1 .. Len(disk'[n]),
               i < j
        PROVE  disk'[n][i] < disk'[n][j]
    <3>1. disk'[n] = disk[n] /\ disk[n] # NoFile
      BY <1>1, <2>1, Zenon
    <3> QED
      BY <2>1, <3>1, Zenon DEF Order, MessagesInOrder
  <2>2. ASSUME ~back', NEW m \in Names, NEW n \in Names, m < n, disk'[m] # NoFile, disk'[n] # NoFile,
               NEW i \in 1 .. Len(disk'[m]), NEW j \in 1 .. Len(disk'[n])
        PROVE  disk'[m][i] < disk'[n][j]
    <3>1. disk'[n] = disk[n] /\ disk[n] # NoFile /\ disk'[m] = disk[m] /\ disk[m] # NoFile
      BY <1>1, <2>2, Zenon
    <3> QED
      BY <2>2, <3>1, Zenon DEF Order, MessagesInOrder
  <2> QED
    BY <2>1, <2>2, ZenonT(30) DEF MessagesInOrder
<1>3. ASSUME NEW n \in Names, disk'[n] # NoFile, NEW i \in 1 .. Len(disk'[n]) PROVE disk'[n][i] <= msg'
  <2>1. disk'[n] = disk[n] /\ disk[n] # NoFile
    BY <1>1, <1>3, Zenon
  <2>2. disk[n] \in Seq(1 .. MaxMsg)
    BY <2>1 DEF LogTypeOK
  <2>3. disk[n][i] \in Nat /\ disk[n][i] <= msg
    BY <1>3, <2>1, <2>2 DEF Order
  <2> QED
    BY <2>1, <2>3, SMTT(30)
<1> QED
  BY <1>2, <1>3

LEMMA OrderStep == LogInv /\ LogInv' /\ Order /\ [Next]_vars => Order'
<1> SUFFICES ASSUME LogInv, LogInv', Order, [Next]_vars PROVE Order'
  OBVIOUS
<1>0. LogTypeOK /\ LogTypeOK' /\ msg \in Nat
  BY SMTT(30) DEF LogInv, LogTypeOK
<1>1. CASE LogInit \/ Stop
  <2>1. disk' = disk /\ msg' = msg /\ m_FileFD' = 0 /\ back' = back
    BY <1>1, ZenonT(30) DEF LogInit, Stop
  <2> QED
    BY <1>0, <2>1, ZenonT(30) DEF Order, MessagesInOrder
<1>2. CASE Time \/ UNCHANGED vars
  <2>1. disk' = disk /\ msg' = msg /\ m_FileFD' = m_FileFD /\ (~back' => ~back)
    <3>1. CASE Time
      <4>1. disk' = disk /\ msg' = msg /\ m_FileFD' = m_FileFD
        BY <3>1 DEF Time, file
      <4>2. ~back' => ~back
        BY <3>1, Zenon DEF Time, Advance, SetBack
      <4> QED
        BY <4>1, <4>2
    <3>2. CASE UNCHANGED vars
      BY <3>2, ZenonT(30) DEF vars, file
    <3> QED
      BY <1>2, <3>1, <3>2
  <2> QED
    BY <2>1, ZenonT(30) DEF Order, MessagesInOrder
<1>3. CASE WriteLog
  <2>0. PICK k \in 0 .. m_iFileCount : \E gone \in SUBSET Doomed(k) :
          WriteSame(k, gone) \/ WriteNew(k, gone) \/ WriteFails(k, gone)
    BY <1>3, Zenon DEF WriteLog
  <2>1. PICK gone \in SUBSET Doomed(k) : WriteSame(k, gone) \/ WriteNew(k, gone) \/ WriteFails(k, gone)
    BY <2>0, Zenon
  <2>2. running /\ msg' = msg + 1 /\ clock' = clock /\ back' = back
    BY <1>3 DEF WriteLog
  <2> DEFINE W == Without(gone)
  <2>3. /\ W \in [Names -> Seq(1 .. MaxMsg) \cup {NoFile}]
        /\ \A n \in Names : W[n] # NoFile => W[n] = disk[n] /\ disk[n] # NoFile
        /\ \A n \in Names : n \notin gone => W[n] = disk[n]
    BY CleanedDirectory, Zenon
  <2> HIDE DEF W
  <2>4. CASE WriteSame(k, gone) /\ linked'
    <3>1. m_FileFD \in Names /\ disk[m_FileFD] # NoFile /\ W[m_FileFD] = disk[m_FileFD]
      <4>1. m_FileFD # 0 /\ linked /\ m_FileFD \notin gone
        BY <2>4, Zenon DEF WriteSame, NeedsFile
      <4> QED
        BY <2>3, <4>1 DEF LogInv, LogTypeOK, OpenFile
    <3>2. PICK w \in Written : disk' = [W EXCEPT ![m_FileFD] = @ \o w]
      BY <2>4, Zenon DEF WriteSame, W
    <3>3. m_FileFD' = m_FileFD
      BY <2>4 DEF WriteSame
    <3>4. disk'[m_FileFD] = disk[m_FileFD] \o w /\ disk[m_FileFD] \in Seq(1 .. MaxMsg) /\ msg' \in 1 .. MaxMsg
      <4>1. disk'[m_FileFD] = W[m_FileFD] \o w
        BY <2>3, <3>1, <3>2, Zenon
      <4>2. disk[m_FileFD] \in Seq(1 .. MaxMsg) /\ msg' \in 1 .. MaxMsg
        BY <1>0, <2>2, <3>1 DEF LogTypeOK
      <4> QED
        BY <3>1, <4>1, <4>2, Zenon
    <3>5. \A n \in Names : n # m_FileFD /\ disk'[n] # NoFile =>
            disk'[n] = disk[n] /\ disk[n] # NoFile /\ (~back => n <= m_FileFD)
      <4>1. \A n \in Names : n # m_FileFD => disk'[n] = W[n]
        BY <2>3, <3>1, <3>2, Zenon
      <4>2. m_FileFD # 0
        BY <3>1
      <4> QED
        BY <2>3, <4>1, <4>2, Zenon DEF Order
    <3>6. ~back' /\ m_FileFD' # 0 => \A n \in Names : disk'[n] # NoFile => n <= m_FileFD'
      BY <2>2, <3>1, <3>3, <3>5
    <3>7. CASE w = <<msg'>>
      <4>1. \A s \in Seq(1 .. MaxMsg), v \in 1 .. MaxMsg : s \o <<v>> = Append(s, v)
        OBVIOUS
      <4>2. disk'[m_FileFD] = Append(disk[m_FileFD], msg')
        BY <3>4, <3>7, <4>1, Zenon
      <4> QED
        BY <1>0, <2>2, <3>1, <3>5, <3>6, <4>2, NewestLast, Zenon DEF Order
    <3>8. CASE w = <<>>
      <4>1. \A s \in Seq(1 .. MaxMsg) : s \o <<>> = s
        OBVIOUS
      <4>2. disk'[m_FileFD] = disk[m_FileFD]
        BY <3>4, <3>8, <4>1, Zenon
      <4>3. \A n \in Names : disk'[n] # NoFile => disk'[n] = disk[n] \/ disk'[n] = <<>>
        BY <3>5, <4>2, Zenon
      <4> QED
        BY <1>0, <2>2, <3>6, <4>3, FewerFiles, Zenon DEF Order
    <3> QED
      BY <3>2, <3>7, <3>8, Zenon DEF Written
  <2>5. CASE (WriteSame(k, gone) /\ ~linked') \/ WriteFails(k, gone)
    <3>1. disk' = W /\ m_FileFD' \in {m_FileFD, 0}
      BY <2>5, Zenon DEF WriteSame, WriteFails, W
    <3>2. \A n \in Names : disk'[n] # NoFile => disk'[n] = disk[n] \/ disk'[n] = <<>>
      BY <2>3, <3>1, Zenon
    <3>3. ~back' /\ m_FileFD' # 0 => \A n \in Names : disk'[n] # NoFile => n <= m_FileFD'
      BY <2>2, <2>3, <3>1, Zenon DEF Order
    <3> QED
      BY <1>0, <2>2, <3>2, <3>3, FewerFiles, Zenon DEF Order
  <2>6. CASE WriteNew(k, gone)
    <3>1. m_FileFD' = clock /\ clock \in Names
      BY <2>6, <1>0 DEF WriteNew, LogTypeOK
    <3>2. PICK w \in Written : disk' = [W EXCEPT ![clock] = w]
      BY <2>6, Zenon DEF WriteNew, W
    <3>3. disk'[clock] = w
      BY <2>3, <3>1, <3>2, Zenon
    <3>4. \A n \in Names : n # clock /\ disk'[n] # NoFile => disk'[n] = disk[n] /\ (~back => n <= clock)
      <4>1. \A n \in Names : n # clock => disk'[n] = W[n]
        BY <2>3, <3>1, <3>2, Zenon
      <4> QED
        BY <2>3, <4>1, Zenon DEF LogInv, Directory, Past
    <3>5. ~back' /\ m_FileFD' # 0 => \A n \in Names : disk'[n] # NoFile => n <= m_FileFD'
      BY <2>2, <3>1, <3>4
    <3>6. CASE w = <<msg'>>
      BY <1>0, <2>2, <3>1, <3>3, <3>4, <3>5, <3>6, NewestLast, Zenon DEF Order
    <3>7. CASE w = <<>>
      <4>1. \A n \in Names : disk'[n] # NoFile => disk'[n] = disk[n] \/ disk'[n] = <<>>
        BY <3>3, <3>4, <3>7, Zenon
      <4> QED
        BY <1>0, <2>2, <3>5, <4>1, FewerFiles, Zenon DEF Order
    <3> QED
      BY <3>2, <3>6, <3>7, Zenon DEF Written
  <2> QED
    BY <2>1, <2>4, <2>5, <2>6, Zenon
<1> QED
  BY <1>1, <1>2, <1>3, Zenon DEF Next

(* Each file gives its messages in the order of the calls of WriteLog, and *)
(* so do the files read by name, until the local time is set back.         *)
THEOREM OrderCorrect == Spec => []MessagesInOrder
<1>1. Init => Order
  BY DEF Init, Order, MessagesInOrder
<1>2. Order => MessagesInOrder
  BY DEF Order
<1> QED
  BY <1>1, <1>2, OrderStep, LogInvariant, PTL DEF Spec
=============================================================================
