--------------------------------- MODULE WLog ---------------------------------
(***************************************************************************)
(* The log (LogData).  Every call of WriteLog holds the one lock from its  *)
(* first step to its last, so that it is one action: clean the directory   *)
(* if a minute has passed, switch to a new file if the present one is      *)
(* full, append the message.  Between calls time passes, the local time is *)
(* set back, and the process stops and is started again.  scandir, mkdir,  *)
(* unlink, fopen and fwrite fail as they like: the code goes on after each *)
(* of them.                                                                *)
(*                                                                         *)
(* A file is named by the local time of its opening.  localtime gives the  *)
(* same name to every call of one second, and earlier names after the end  *)
(* of daylight saving or when the clock is set; the minute between two     *)
(* cleanings is measured by CLOCK_MONOTONIC.  The digits of a name have a  *)
(* fixed width, so that alphasort orders names as numbers.  Messages have  *)
(* one unit of size.                                                       *)
(***************************************************************************)
EXTENDS Integers, Sequences, FiniteSets

CONSTANTS
  MinFiles, MaxFiles,  \* m_iMinFiles, m_iMaxFiles
  SizeLimit,           \* m_file_bytes_limit
  MaxSwitches,         \* files opened within one second, at most
  MaxTime, MaxMsg,     \* bounds: local times, and messages
  NoFile

ASSUME LogAssumption ==
  /\ MinFiles \in Nat /\ MaxFiles \in Nat /\ SizeLimit \in Nat
  /\ MaxTime \in Nat \ {0} /\ MaxMsg \in Nat /\ MaxSwitches \in Nat
  /\ NoFile \notin Seq(1 .. MaxMsg)

VARIABLES
  plainName,     \* m_szFileName, made from argv[0], has no directory part
  clock,         \* the local time
  due,           \* more than CLEAN_TIME_INTERVAL since the last cleaning
  disk,          \* name -> content of the file of that name, or NoFile
  running,       \* the process is
  m_bInit, m_FileList, m_iFileCount, m_iLogSize,
  m_FileFD,      \* name of the open file, 0 if there is none
  linked,        \* the open file has not been unlinked
  switches,      \* files opened in the present second
  msg,           \* messages handed to WriteLog
  back,          \* history: the local time has been set back
  missed         \* history: files this process lost sight of by a failing call

file == <<m_bInit, m_FileList, m_iFileCount, m_iLogSize, m_FileFD, linked, missed>>
vars == <<plainName, clock, due, disk, running, file, switches, msg, back>>

Names == 1 .. MaxTime

Init ==
  /\ plainName \in BOOLEAN /\ clock \in Names /\ due = TRUE /\ disk = [n \in Names |-> NoFile]
  /\ running = FALSE /\ m_bInit = TRUE
  /\ m_FileList = <<>> /\ m_iFileCount = 0 /\ m_iLogSize = 0 /\ m_FileFD = 0 /\ linked = TRUE
  /\ switches = 0 /\ msg = 0 /\ back = FALSE /\ missed = {}

-----------------------------------------------------------------------------
(* Mutant: the files are listed in any order.                              *)
SerarchLogsByDirUnsorted(s, S) == {s[i] : i \in 1 .. Len(s)} = S

(* SerarchLogsByDir with scandir and alphasort: s lists S, oldest first.   *)
SerarchLogsByDir(s, S) ==
  {s[i] : i \in 1 .. Len(s)} = S /\ \A i, j \in 1 .. Len(s) : i < j => s[i] < s[j]

(* Init lists the directory.  fnmatch compares "./Server_8080*.log" with   *)
(* what scandir finds, "Server_8080...log", and then nothing matches.      *)
Listed ==
  /\ LET S == {n \in Names : plainName /\ disk[n] # NoFile}
     IN  \E s \in [1 .. Cardinality(S) -> S] :
           SerarchLogsByDir(s, S) /\ m_FileList' = s /\ m_iFileCount' = Len(s)
  /\ m_bInit' = TRUE /\ missed' = {}

(* scandir fails and the list stays empty, or there is no directory and    *)
(* none can be made, and nothing will be written.                          *)
NotListed ==
  /\ m_FileList' = <<>> /\ m_iFileCount' = 0 /\ m_bInit' \in BOOLEAN
  /\ missed' = {n \in Names : disk[n] # NoFile}

(* The constructor of LogData and Init, in a new process.                  *)
LogInit ==
  /\ ~running /\ running' = TRUE
  /\ Listed \/ NotListed
  /\ m_iLogSize' = 0 /\ m_FileFD' = 0 /\ linked' = TRUE /\ due' \in BOOLEAN
  /\ UNCHANGED <<plainName, clock, disk, switches, msg, back>>

(* The process stops; what fflush has written stays.                       *)
Stop ==
  /\ running /\ running' = FALSE /\ m_bInit' = TRUE /\ m_FileList' = <<>> /\ m_iFileCount' = 0
  /\ m_iLogSize' = 0 /\ m_FileFD' = 0 /\ linked' = TRUE /\ missed' = {}
  /\ UNCHANGED <<plainName, clock, due, disk, switches, msg, back>>

(* The local time goes on, or is set back.                                 *)
Advance == clock < MaxTime /\ clock' = clock + 1 /\ back' = back
SetBack == clock' \in 1 .. clock - 1 /\ back' = TRUE

Time ==
  /\ Advance \/ SetBack
  /\ switches' = 0 /\ due' \in {due, TRUE}
  /\ UNCHANGED <<plainName, disk, running, file, msg>>

-----------------------------------------------------------------------------
(* Mutant: the minimum is not looked at.                                   *)
CleanedAll(k) == k \in 0 .. m_iFileCount

(* CleanFile_ takes k entries off the list: in its first loop while there  *)
(* are too many, in its second, if the disk is short of space, as many as  *)
(* it takes, which may be any number that leaves MinFiles.                 *)
Cleaned(k) ==
  LET TooMany(n) == n >= MaxFiles /\ n > MinFiles
  IN  /\ k \in 0 .. m_iFileCount
      /\ ~TooMany(m_iFileCount - k)
      /\ k > 0 => m_iFileCount - (k - 1) > MinFiles

(* What is left of the list when CleanFile_ has taken k entries off.       *)
Popped(k) == SubSeq(m_FileList, k + 1, Len(m_FileList))

(* Mutant: the newest files are deleted.                                   *)
DoomedNewest(k) == {m_FileList[i] : i \in (Len(m_FileList) - k + 1) .. Len(m_FileList)}

(* The files DeleteFile_ is called for then.                               *)
Doomed(k) == {m_FileList[i] : i \in 1 .. k}

(* DeleteFile_ does not look at what unlink returns: gone is removed, the  *)
(* rest stays in the directory, and off the list.                          *)
Without(gone) == [n \in Names |-> IF n \in gone THEN NoFile ELSE disk[n]]
LostSight(k, gone) == (missed \cup Doomed(k)) \ gone

(* SwitchNewFile opens a file if none is open, or the open one is full.    *)
NeedsFile == m_FileFD = 0 \/ m_iLogSize > SizeLimit

(* What fwrite adds to the file; its result is not looked at.              *)
Written == {<<msg'>>, <<>>}

(* The message goes to the file that is open already ...                   *)
WriteSame(k, gone) ==
  /\ ~NeedsFile
  /\ linked' = (linked /\ m_FileFD \notin gone)
  /\ IF linked' THEN \E w \in Written : disk' = [Without(gone) EXCEPT ![m_FileFD] = @ \o w]
                ELSE disk' = Without(gone)
  /\ m_FileList' = Popped(k) /\ m_iFileCount' = m_iFileCount - k
  /\ m_iLogSize' = m_iLogSize + 1 /\ missed' = LostSight(k, gone)
  /\ UNCHANGED <<m_FileFD, switches>>

(* Mutant: a new file is not counted.                                      *)
WriteNewUncounted(k, gone) ==
  /\ m_bInit /\ NeedsFile /\ switches < MaxSwitches /\ switches' = switches + 1
  /\ \E w \in Written : disk' = [Without(gone) EXCEPT ![clock] = w]
  /\ m_FileList' = Append(Popped(k), clock) /\ m_iFileCount' = m_iFileCount - k
  /\ m_FileFD' = clock /\ linked' = TRUE /\ m_iLogSize' = 1
  /\ missed' = LostSight(k, gone) \ {clock}

(* Mutant: names repeat after two seconds.                                 *)
WriteNewWraps(k, gone) ==
  LET name == ((clock - 1) % 2) + 1
  IN  /\ m_bInit /\ NeedsFile /\ switches < MaxSwitches /\ switches' = switches + 1
      /\ \E w \in Written : disk' = [Without(gone) EXCEPT ![name] = w]
      /\ m_FileList' = Append(Popped(k), name) /\ m_iFileCount' = m_iFileCount - k + 1
      /\ m_FileFD' = name /\ linked' = TRUE /\ m_iLogSize' = 1
      /\ missed' = LostSight(k, gone) \ {name}

(* ... or to a new one, which truncates a file of the same name, ...       *)
WriteNew(k, gone) ==
  /\ m_bInit /\ NeedsFile /\ switches < MaxSwitches /\ switches' = switches + 1
  /\ \E w \in Written : disk' = [Without(gone) EXCEPT ![clock] = w]
  /\ m_FileList' = Append(Popped(k), clock) /\ m_iFileCount' = m_iFileCount - k + 1
  /\ m_FileFD' = clock /\ linked' = TRUE /\ m_iLogSize' = 1
  /\ missed' = LostSight(k, gone) \ {clock}

(* ... or nowhere: fopen fails, or Init has failed.                        *)
WriteFails(k, gone) ==
  /\ NeedsFile
  /\ disk' = Without(gone)
  /\ m_FileList' = Popped(k) /\ m_iFileCount' = m_iFileCount - k
  /\ m_FileFD' = 0 /\ linked' = TRUE /\ missed' = LostSight(k, gone)
  /\ UNCHANGED <<m_iLogSize, switches>>

WriteLog ==
  /\ running /\ msg < MaxMsg /\ msg' = msg + 1
  /\ \E k \in 0 .. m_iFileCount : \E gone \in SUBSET Doomed(k) :
       /\ IF due THEN Cleaned(k) ELSE k = 0
       /\ WriteSame(k, gone) \/ WriteNew(k, gone) \/ WriteFails(k, gone)
  /\ due' = FALSE
  /\ UNCHANGED <<plainName, clock, running, m_bInit, back>>

Next == LogInit \/ Stop \/ Time \/ WriteLog

Spec == Init /\ [][Next]_vars

-----------------------------------------------------------------------------
(* Properties                                                              *)

LogTypeOK ==
  /\ plainName \in BOOLEAN /\ clock \in Names /\ due \in BOOLEAN /\ running \in BOOLEAN /\ linked \in BOOLEAN
  /\ m_bInit \in BOOLEAN /\ back \in BOOLEAN /\ missed \subseteq Names
  /\ disk \in [Names -> Seq(1 .. MaxMsg) \cup {NoFile}]
  /\ m_FileList \in Seq(Names) /\ m_iFileCount \in Int /\ m_iLogSize \in Nat
  /\ m_FileFD \in 0 .. MaxTime /\ switches \in Nat /\ msg \in 0 .. MaxMsg

(* The counter that the cleaning loops test and the queue they pop agree,  *)
(* over restarts, failing calls and repeated names: front() and pop()      *)
(* never meet an empty queue.                                              *)
CountIsLength == m_iFileCount = Len(m_FileList)

(* Every file of the directory is in the queue of SerarchLogsByDir and     *)
(* SwitchNewFile, after a restart, too, unless a scandir or an unlink that *)
(* failed has lost sight of it, or the name is not plain; and as long as   *)
(* the local time has not been set back, the queue is in the order of age. *)
ListedOldestFirst ==
  running =>
    /\ plainName => \A n \in Names : disk[n] # NoFile /\ n \notin missed =>
         \E i \in 1 .. Len(m_FileList) : m_FileList[i] = n
    /\ ~back => \A i, j \in 1 .. Len(m_FileList) : i < j => m_FileList[i] <= m_FileList[j]

(* CleanFile_ never removes the file that is being written, as long as no  *)
(* more files are opened in a second than MinFiles keeps, and the local    *)
(* time has not been set back.                                             *)
OpenFileOnDisk ==
  MaxSwitches <= MinFiles /\ ~back /\ m_FileFD # 0 => linked /\ disk[m_FileFD] # NoFile

(* A file holds its messages in the order of the calls of WriteLog; and so *)
(* do the files read by name, as long as the local time has not been set   *)
(* back.                                                                   *)
MessagesInOrder ==
  /\ \A n \in Names : disk[n] # NoFile =>
       \A i, j \in 1 .. Len(disk[n]) : i < j => disk[n][i] < disk[n][j]
  /\ ~back => \A m, n \in Names : m < n /\ disk[m] # NoFile /\ disk[n] # NoFile =>
       \A i \in 1 .. Len(disk[m]), j \in 1 .. Len(disk[n]) : disk[m][i] < disk[n][j]

(* What is on disk stays: the open file grows, a file opened again under   *)
(* its name starts anew, and any other change removes a file.  That one is *)
(* older than all that are left, except for those a failing call has lost  *)
(* sight of, if the name is plain and the local time has not been set back.*)
OldestGoesFirst ==
  [][\A n \in Names : disk'[n] # disk[n] =>
       \/ n = m_FileFD /\ disk[n] # NoFile /\ disk'[n] = Append(disk[n], msg')
       \/ n = clock /\ disk'[n] \in Written
       \/ disk'[n] = NoFile /\ \A m \in Names :
            plainName /\ ~back /\ disk'[m] # NoFile /\ m \notin missed' => n < m]_vars
=============================================================================
