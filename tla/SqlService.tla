------------------------------ MODULE SqlService ------------------------------
(***************************************************************************)
(* CSqlServiceMgr and its CSqlClient objects.  The shape is that of        *)
(* RedisService; the differences are that a command finds a NULL handle    *)
(* and fails instead of crashing, that ReConnect holds the client's lock   *)
(* twice, that a client without a handle is evicted at the next test, and  *)
(* that GetSqlClient reads the zone's Redis line.                          *)
(***************************************************************************)
EXTENDS Integers, FiniteSets, Pointers

CONSTANTS
  SUsers,    \* threads that call GetSqlClient and ExecSqlCmd
  STester,   \* the thread of OnTestOnLine
  SClients,  \* addresses of CSqlClient objects
  SZones     \* zone codes, as integers

SThreads == SUsers \cup {STester}

ASSUME SAssumption ==
  /\ SZones \subseteq Int
  /\ \A S \in SUBSET SZones : S # {} => \E z \in S : \A y \in S : z <= y
  /\ STester \notin SUsers /\ NULL \notin SThreads \cup SClients
  /\ Absent \notin SClients \cup {NULL}

VARIABLES
  sserver,  \* zone -> "up", "down" or "hung": the MySQL server
  sredis,   \* zones for which server.conf has a Redis address and port
  sphase,   \* "init" or "run"
  shandle,  \* client -> m_SqlHandle: "new" (no object), "null", "live", "dead"
  szone,    \* client -> zone of its address
  scount,   \* client -> m_iReconnectCount
  slock,    \* client -> holder of its m_locker
  smap,     \* zone -> m_MysqlClientMap: a client, NULL, or Absent
  smgr,     \* holder of m_mysqlCLocker
  spc, scli, sarg,  \* thread -> its next step, client in hand, and zone
  stodo     \* zones the tester's iterator has not reached

sVars == <<sserver, sredis, sphase, shandle, szone, scount, slock, smap, smgr, spc, scli,
           sarg, stodo>>

SqlInit ==
  /\ sserver = [z \in SZones |-> "up"] /\ sredis = {} /\ sphase = "init"
  /\ shandle = [c \in SClients |-> "new"] /\ szone = [c \in SClients |-> NULL]
  /\ scount = [c \in SClients |-> 0] /\ slock = [c \in SClients |-> NULL]
  /\ smap = [z \in SZones |-> Absent] /\ smgr = NULL
  /\ spc = [t \in SThreads |-> IF t = STester THEN "sleep" ELSE "idle"]
  /\ scli = [t \in SThreads |-> NULL] /\ sarg = [t \in SThreads |-> NULL] /\ stodo = {}

-----------------------------------------------------------------------------
(* The server and the network.                                             *)
SServerTurns(z, s) ==
  /\ sphase = "run" /\ sserver[z] # s
  /\ sserver' = [sserver EXCEPT ![z] = s]
  /\ shandle' = [c \in SClients |->
                   IF s = "down" /\ szone[c] = z /\ shandle[c] = "live" THEN "dead"
                   ELSE shandle[c]]
  /\ UNCHANGED <<sredis, sphase, szone, scount, slock, smap, smgr, spc, scli, sarg, stodo>>

(* OnConnect, by what it leaves in m_SqlHandle.  A hung server sends no    *)
(* greeting, and mysql_real_connect gives up.                              *)
SConnect(z) == IF sserver[z] = "up" THEN "live" ELSE "null"

-----------------------------------------------------------------------------
(* The manager.                                                            *)

(* OnInit: a client for each MySQL zone of server.conf that answers.       *)
SqlOnInit(conf, redis) ==
  /\ sphase = "init" /\ sphase' = "run" /\ sredis' = redis
  /\ sserver' \in [SZones -> {"up", "down"}]
  /\ LET made == {z \in conf : sserver'[z] = "up"}
     IN  \E cl \in [made -> SClients] :
           /\ \A y, z \in made : cl[y] = cl[z] => y = z
           /\ smap' = [z \in SZones |-> IF z \in made THEN cl[z] ELSE Absent]
           /\ shandle' = [c \in SClients |->
                            IF \E z \in made : cl[z] = c THEN "live" ELSE "new"]
           /\ szone' = [c \in SClients |->
                          IF \E z \in made : cl[z] = c THEN CHOOSE z \in made : cl[z] = c ELSE NULL]
  /\ UNCHANGED <<scount, slock, smgr, spc, scli, sarg, stodo>>

GetSqlClient(t, z) ==
  /\ sphase = "run" /\ spc[t] = "idle" /\ smgr = NULL
  /\ sarg' = [sarg EXCEPT ![t] = z]
  /\ \/ /\ smap[z] \in SClients
        /\ scli' = [scli EXCEPT ![t] = smap[z]] /\ spc' = [spc EXCEPT ![t] = "have"]
     \/ /\ smap[z] = Absent /\ z \in sredis
        /\ spc' = [spc EXCEPT ![t] = "insert"] /\ UNCHANGED scli
  /\ UNCHANGED <<sserver, sredis, sphase, shandle, szone, scount, slock, smap, smgr, stodo>>

(* MakeSqlClient, given a Redis server's address, fails and deletes its    *)
(* client; InsertSqlClient inserts NULL unless the zone has an entry.      *)
MakeAndInsert(t) ==
  /\ sphase = "run" /\ spc[t] = "insert" /\ smgr = NULL
  /\ smap' = IF smap[sarg[t]] = Absent THEN [smap EXCEPT ![sarg[t]] = NULL] ELSE smap
  /\ spc' = [spc EXCEPT ![t] = "idle"] /\ sarg' = [sarg EXCEPT ![t] = NULL]
  /\ UNCHANGED <<sserver, sredis, sphase, shandle, szone, scount, slock, smgr, scli, stodo>>

SDrop(t) ==
  /\ sphase = "run" /\ t \in SUsers /\ spc[t] = "have"
  /\ spc' = [spc EXCEPT ![t] = "idle"] /\ scli' = [scli EXCEPT ![t] = NULL]
  /\ sarg' = [sarg EXCEPT ![t] = NULL]
  /\ UNCHANGED <<sserver, sredis, sphase, shandle, szone, scount, slock, smap, smgr, stodo>>

-----------------------------------------------------------------------------
(* The client.                                                             *)

(* ExecSqlCmd takes the lock and returns -1 if there is no handle ...      *)
ExecSqlCmd(t) ==
  /\ sphase = "run" /\ spc[t] = "have" /\ slock[scli[t]] = NULL
  /\ shandle[scli[t]] # "null"
  /\ slock' = [slock EXCEPT ![scli[t]] = t] /\ spc' = [spc EXCEPT ![t] = "exec"]
  /\ UNCHANGED <<sserver, sredis, sphase, shandle, szone, scount, smap, smgr, scli, sarg,
                 stodo>>

(* ... mysql_query, and mysql_store_result until there is no more, return. *)
ExecSqlDone(t) ==
  /\ sphase = "run" /\ spc[t] = "exec"
  /\ shandle[scli[t]] = "dead" \/ sserver[szone[scli[t]]] # "hung"
  /\ slock' = [slock EXCEPT ![scli[t]] = NULL] /\ spc' = [spc EXCEPT ![t] = "have"]
  /\ UNCHANGED <<sserver, sredis, sphase, shandle, szone, scount, smap, smgr, scli, sarg,
                 stodo>>

-----------------------------------------------------------------------------
(* OnTestOnLine, once per WAIT_SECOND.                                     *)

SCurrent == CHOOSE z \in stodo : \A y \in stodo : z <= y

STestStart ==
  /\ sphase = "run" /\ spc[STester] = "sleep" /\ smgr = NULL
  /\ smgr' = STester /\ spc' = [spc EXCEPT ![STester] = "test"]
  /\ stodo' = {z \in SZones : smap[z] # Absent}
  /\ UNCHANGED <<sserver, sredis, sphase, shandle, szone, scount, slock, smap, scli, sarg>>

STestEnd ==
  /\ sphase = "run" /\ spc[STester] = "test" /\ stodo = {}
  /\ smgr' = NULL /\ spc' = [spc EXCEPT ![STester] = "sleep"]
  /\ UNCHANGED <<sserver, sredis, sphase, shandle, szone, scount, slock, smap, scli, sarg, stodo>>

STestSkip ==
  /\ sphase = "run" /\ spc[STester] = "test" /\ stodo # {} /\ smap[SCurrent] = NULL
  /\ stodo' = stodo \ {SCurrent}
  /\ UNCHANGED <<sserver, sredis, sphase, shandle, szone, scount, slock, smap, smgr, spc, scli,
                 sarg>>

(* TestOnline: a client without a handle is evicted; the handle is read    *)
(* before the lock is taken.                                               *)
STestNoHandle ==
  /\ sphase = "run" /\ spc[STester] = "test" /\ stodo # {} /\ smap[SCurrent] # NULL
  /\ shandle[smap[SCurrent]] = "null"
  /\ smap' = [smap EXCEPT ![SCurrent] = Absent] /\ stodo' = stodo \ {SCurrent}
  /\ UNCHANGED <<sserver, sredis, sphase, shandle, szone, scount, slock, smgr, spc, scli, sarg>>

(* mysql_ping under the lock, ...                                          *)
STestPing ==
  /\ sphase = "run" /\ spc[STester] = "test" /\ stodo # {} /\ smap[SCurrent] # NULL
  /\ shandle[smap[SCurrent]] # "null" /\ slock[smap[SCurrent]] = NULL
  /\ slock' = [slock EXCEPT ![smap[SCurrent]] = STester]
  /\ spc' = [spc EXCEPT ![STester] = "ping"]
  /\ UNCHANGED <<sserver, sredis, sphase, shandle, szone, scount, smap, smgr, scli, sarg, stodo>>

(* ... which resets the count, or is followed by ReConnect.                *)
STestPong ==
  /\ sphase = "run" /\ spc[STester] = "ping"
  /\ LET c == smap[SCurrent]
     IN  /\ slock' = [slock EXCEPT ![c] = NULL]
         /\ \/ /\ shandle[c] = "live" /\ sserver[szone[c]] # "hung"
               /\ scount' = [scount EXCEPT ![c] = 0]
               /\ spc' = [spc EXCEPT ![STester] = "test"] /\ stodo' = stodo \ {SCurrent}
            \/ /\ shandle[c] = "dead" /\ spc' = [spc EXCEPT ![STester] = "close"]
               /\ UNCHANGED <<scount, stodo>>
  /\ UNCHANGED <<sserver, sredis, sphase, shandle, szone, smap, smgr, scli, sarg>>

(* Mutant: OnDisConnect without the client's lock.                         *)
OnDisConnectUnlocked ==
  /\ sphase = "run" /\ spc[STester] = "close"
  /\ shandle' = [shandle EXCEPT ![smap[SCurrent]] = "null"]
  /\ spc' = [spc EXCEPT ![STester] = "connect"]
  /\ UNCHANGED <<sserver, sredis, sphase, szone, scount, slock, smap, smgr, scli, sarg, stodo>>

(* OnDisConnect closes the handle under the lock, and gives the lock back. *)
OnDisConnect ==
  /\ sphase = "run" /\ spc[STester] = "close" /\ slock[smap[SCurrent]] = NULL
  /\ shandle' = [shandle EXCEPT ![smap[SCurrent]] = "null"]
  /\ spc' = [spc EXCEPT ![STester] = "connect"]
  /\ UNCHANGED <<sserver, sredis, sphase, szone, scount, slock, smap, smgr, scli, sarg, stodo>>

(* Mutant: a failed reconnection is not counted, nor is its handle NULL.   *)
OnConnectKeepsHandle ==
  /\ sphase = "run" /\ spc[STester] = "connect"
  /\ shandle' = [shandle EXCEPT ![smap[SCurrent]] =
                   IF SConnect(szone[smap[SCurrent]]) = "live" THEN "live" ELSE "dead"]
  /\ spc' = [spc EXCEPT ![STester] = "close"]
  /\ UNCHANGED <<sserver, sredis, sphase, szone, scount, slock, smap, smgr, scli, sarg, stodo>>

(* OnConnect under the lock, and the end of TestOnline.  The fourth failed *)
(* reconnection in a row would evict.                                      *)
OnConnect ==
  /\ sphase = "run" /\ spc[STester] = "connect" /\ slock[smap[SCurrent]] = NULL
  /\ LET c == smap[SCurrent]
         s == SConnect(szone[c])
     IN  /\ shandle' = [shandle EXCEPT ![c] = s]
         /\ scount' = [scount EXCEPT ![c] = IF s = "live" THEN 0 ELSE @ + 1]
         /\ smap' = IF s = "null" /\ scount[c] + 1 > 3
                    THEN [smap EXCEPT ![SCurrent] = Absent] ELSE smap
  /\ spc' = [spc EXCEPT ![STester] = "test"] /\ stodo' = stodo \ {SCurrent}
  /\ UNCHANGED <<sserver, sredis, sphase, szone, slock, smgr, scli, sarg>>

-----------------------------------------------------------------------------
STest ==
  \/ STestStart \/ STestEnd \/ STestSkip \/ STestNoHandle \/ STestPing \/ STestPong
  \/ OnDisConnect \/ OnConnect

SUse(t) == MakeAndInsert(t) \/ ExecSqlCmd(t) \/ ExecSqlDone(t) \/ SDrop(t)

SqlNext ==
  \/ STest
  \/ \E t \in SUsers : SUse(t) \/ \E z \in SZones : GetSqlClient(t, z)
  \/ \E z \in SZones, s \in {"up", "down", "hung"} : SServerTurns(z, s)

(* As in RedisService.                                                     *)
SqlFairness ==
  /\ SF_sVars(STest)
  /\ \A t \in SUsers : SF_sVars(MakeAndInsert(t) \/ ExecSqlDone(t))

-----------------------------------------------------------------------------
(* Properties                                                              *)

(* mysql_close never runs under another thread's query or ping: while a    *)
(* thread is inside libmysqlclient, its handle exists and no other thread  *)
(* is inside with the same handle.                                         *)
HandleInUse ==
  LET Inside(t, c) == \/ t \in SUsers /\ spc[t] = "exec" /\ scli[t] = c
                      \/ t = STester /\ spc[t] = "ping" /\ smap[SCurrent] = c
  IN  \A c \in SClients :
        /\ \A t \in SThreads : Inside(t, c) => shandle[c] \in {"live", "dead"}
        /\ \A t, u \in SThreads : Inside(t, c) /\ Inside(u, c) => t = u

(* A broken connection of the map is made anew or its client evicted,      *)
(* unless some MySQL server hangs for good.                                *)
SqlOutageEnds ==
  (\A z \in SZones : []<>(sserver[z] # "hung")) =>
    \A c \in SClients, z \in SZones :
      (smap[z] = c /\ shandle[c] # "live") ~> (smap[z] # c \/ shandle[c] = "live")
=============================================================================
