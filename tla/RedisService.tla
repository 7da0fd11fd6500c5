----------------------------- MODULE RedisService -----------------------------
(***************************************************************************)
(* CRedisServiceMgr and its CRedisClient objects: a map from zone code to  *)
(* client behind the manager's lock, a connection behind each client's     *)
(* lock, event-loop threads that look clients up and run commands, and the *)
(* thread that pings every client of the map every five seconds.           *)
(***************************************************************************)
EXTENDS Integers, Sequences, FiniteSets, Pointers

CONSTANTS
  RUsers,    \* threads that call GetRedisClient and ExecCommand
  RTester,   \* the thread of OnTestOnLine
  RClients,  \* addresses of CRedisClient objects: bounds how many are ever made
  RZones,    \* zone codes, as integers (std::map iterates in their order)
  Uninit     \* what m_iReconnectCount holds in a new client: the constructor skips it

RThreads == RUsers \cup {RTester}

ASSUME RAssumption ==
  /\ RZones \subseteq Int
  /\ \A S \in SUBSET RZones : S # {} => \E z \in S : \A y \in S : z <= y
  /\ Uninit \subseteq Nat /\ Uninit # {}
  /\ RTester \notin RUsers /\ NULL \notin RThreads \cup RClients
  /\ Absent \notin RClients \cup {NULL}

VARIABLES
  rserver,  \* zone -> "up", "down" or "hung": the Redis server
  rconf,    \* zones for which server.conf has an address and a port
  rphase,   \* "init", "run", or "crash" once a NULL context was dereferenced
  rctx,     \* client -> m_pRedisContext: "new" (no object), "null", "live", "dead"
  rzone,    \* client -> zone of its address and port
  rcount,   \* client -> m_iReconnectCount
  rlock,    \* client -> holder of its m_locker
  rwire,    \* client -> threads whose commands the server has still to answer
  rmap,     \* zone -> m_RedisClientMap: a client, NULL, or Absent
  rmgr,     \* holder of m_redisCLocker
  rpc, rcli, rarg,  \* thread -> its next step, client in hand, and zone
  rtodo     \* zones the tester's iterator has not reached

rVars == <<rserver, rconf, rphase, rctx, rzone, rcount, rlock, rwire, rmap, rmgr,
           rpc, rcli, rarg, rtodo>>

RedisInit ==
  /\ rserver = [z \in RZones |-> "up"] /\ rconf = {} /\ rphase = "init"
  /\ rctx = [c \in RClients |-> "new"] /\ rzone = [c \in RClients |-> NULL]
  /\ rcount = [c \in RClients |-> 0] /\ rlock = [c \in RClients |-> NULL]
  /\ rwire = [c \in RClients |-> <<>>]
  /\ rmap = [z \in RZones |-> Absent] /\ rmgr = NULL
  /\ rpc = [t \in RThreads |-> IF t = RTester THEN "sleep" ELSE "idle"]
  /\ rcli = [t \in RThreads |-> NULL] /\ rarg = [t \in RThreads |-> NULL]
  /\ rtodo = {}

Unused == {c \in RClients : rctx[c] = "new"}

(* Bound: no more clients are made than RClients has addresses.            *)
RoomForClient == Cardinality({t \in RUsers : rpc[t] = "make"}) < Cardinality(Unused)

-----------------------------------------------------------------------------
(* The server and the network.                                             *)

(* A server that stops takes its connections along; a hung one keeps them. *)
RServerTurns(z, s) ==
  /\ rphase = "run" /\ rserver[z] # s
  /\ rserver' = [rserver EXCEPT ![z] = s]
  /\ rctx' = [c \in RClients |->
                IF s = "down" /\ rzone[c] = z /\ rctx[c] = "live" THEN "dead" ELSE rctx[c]]
  /\ UNCHANGED <<rconf, rphase, rzone, rcount, rlock, rwire, rmap, rmgr, rpc, rcli, rarg, rtodo>>

(* redisConnectWithTimeout: what OnConnect leaves in m_pRedisContext.  A   *)
(* hung server's kernel may still accept.                                  *)
RConnect(z) ==
  CASE rserver[z] = "up"   -> {"live"}
    [] rserver[z] = "hung" -> {"live", "null"}
    [] OTHER               -> {"null"}

-----------------------------------------------------------------------------
(* The manager.                                                            *)

(* OnInit, in main before any other thread: a client for each configured   *)
(* zone whose server answers, whichever do.                                *)
RedisOnInit(conf) ==
  /\ rphase = "init" /\ rphase' = "run" /\ rconf' = conf
  /\ rserver' \in [RZones -> {"up", "down"}]
  /\ LET made == {z \in conf : rserver'[z] = "up"}
     IN  \E cl \in [made -> RClients], n \in [made -> Uninit] :
           /\ \A y, z \in made : cl[y] = cl[z] => y = z
           /\ rmap' = [z \in RZones |-> IF z \in made THEN cl[z] ELSE Absent]
           /\ rctx' = [c \in RClients |-> IF \E z \in made : cl[z] = c THEN "live" ELSE "new"]
           /\ rzone' = [c \in RClients |->
                          IF \E z \in made : cl[z] = c THEN CHOOSE z \in made : cl[z] = c ELSE NULL]
           /\ rcount' = [c \in RClients |->
                           IF \E z \in made : cl[z] = c THEN n[CHOOSE z \in made : cl[z] = c] ELSE 0]
  /\ UNCHANGED <<rlock, rwire, rmgr, rpc, rcli, rarg, rtodo>>

(* GetRedisClient: find the zone under the lock.  Missing, the client is   *)
(* made after the lock is released, if the zone is configured; a NULL      *)
(* entry, or a zone that is not configured, gives the caller NULL.         *)
GetRedisClient(t, z) ==
  /\ rphase = "run" /\ rpc[t] = "idle" /\ rmgr = NULL
  /\ \/ /\ rmap[z] \in RClients
        /\ rcli' = [rcli EXCEPT ![t] = rmap[z]] /\ rpc' = [rpc EXCEPT ![t] = "have"]
     \/ /\ rmap[z] = Absent /\ z \in rconf /\ RoomForClient
        /\ rpc' = [rpc EXCEPT ![t] = "make"] /\ UNCHANGED rcli
  /\ rarg' = [rarg EXCEPT ![t] = z]
  /\ UNCHANGED <<rserver, rconf, rphase, rctx, rzone, rcount, rlock, rwire, rmap, rmgr,
                 rtodo>>

(* MakeRedisClient: new client, OnInit; deleted again if it fails.         *)
MakeRedisClient(t) ==
  /\ rphase = "run" /\ rpc[t] = "make"
  /\ rpc' = [rpc EXCEPT ![t] = "insert"]
  /\ \/ /\ "null" \in RConnect(rarg[t])
        /\ UNCHANGED <<rctx, rzone, rcount, rcli>>
     \/ \E c \in Unused, n \in Uninit :
          /\ "live" \in RConnect(rarg[t])
          /\ rctx' = [rctx EXCEPT ![c] = "live"] /\ rzone' = [rzone EXCEPT ![c] = rarg[t]]
          /\ rcount' = [rcount EXCEPT ![c] = n] /\ rcli' = [rcli EXCEPT ![t] = c]
  /\ UNCHANGED <<rserver, rconf, rphase, rlock, rwire, rmap, rmgr, rarg, rtodo>>

(* Mutant: the insertion replaces a client another thread has inserted.    *)
InsertRedisClientOver(t) ==
  /\ rphase = "run" /\ rpc[t] = "insert" /\ rmgr = NULL
  /\ rmap' = [rmap EXCEPT ![rarg[t]] = rcli[t]]
  /\ rpc' = [rpc EXCEPT ![t] = IF rcli[t] = NULL THEN "idle" ELSE "have"]
  /\ rarg' = [rarg EXCEPT ![t] = IF rcli[t] = NULL THEN NULL ELSE @]
  /\ UNCHANGED <<rserver, rconf, rphase, rctx, rzone, rcount, rlock, rwire, rmgr, rcli, rtodo>>

(* InsertRedisClient keeps an entry that is there, and inserts even NULL.  *)
InsertRedisClient(t) ==
  /\ rphase = "run" /\ rpc[t] = "insert" /\ rmgr = NULL
  /\ rmap' = IF rmap[rarg[t]] = Absent THEN [rmap EXCEPT ![rarg[t]] = rcli[t]] ELSE rmap
  /\ rpc' = [rpc EXCEPT ![t] = IF rcli[t] = NULL THEN "idle" ELSE "have"]
  /\ rarg' = [rarg EXCEPT ![t] = IF rcli[t] = NULL THEN NULL ELSE @]
  /\ UNCHANGED <<rserver, rconf, rphase, rctx, rzone, rcount, rlock, rwire, rmgr, rcli, rtodo>>

(* The caller is done with the client.                                     *)
RDrop(t) ==
  /\ rphase = "run" /\ t \in RUsers /\ rpc[t] = "have"
  /\ rpc' = [rpc EXCEPT ![t] = "idle"] /\ rcli' = [rcli EXCEPT ![t] = NULL]
  /\ rarg' = [rarg EXCEPT ![t] = NULL]
  /\ UNCHANGED <<rserver, rconf, rphase, rctx, rzone, rcount, rlock, rwire, rmap, rmgr, rtodo>>

-----------------------------------------------------------------------------
(* The client.                                                             *)

(* redisCommand sends under the client's lock; a NULL context is a crash.  *)
RedisCommand(t, c, next) ==
  /\ rlock[c] = NULL
  /\ \/ rctx[c] = "null" /\ rphase' = "crash" /\ UNCHANGED <<rlock, rwire, rpc>>
     \/ /\ rctx[c] # "null" /\ UNCHANGED rphase
        /\ rlock' = [rlock EXCEPT ![c] = t]
        /\ rwire' = [rwire EXCEPT ![c] = Append(@, t)]
        /\ rpc' = [rpc EXCEPT ![t] = next]

ExecCommand(t) ==
  /\ rphase = "run" /\ rpc[t] = "have" /\ RedisCommand(t, rcli[t], "exec")
  /\ UNCHANGED <<rserver, rconf, rctx, rzone, rcount, rmap, rmgr, rcli, rarg, rtodo>>

(* redisCommand returns: the next reply of the connection, or NULL if the  *)
(* connection is gone.                                                     *)
RReply(c) ==
  /\ rwire[c] # <<>> /\ rctx[c] = "live" /\ rserver[rzone[c]] = "up"
  /\ rwire' = [rwire EXCEPT ![c] = Tail(@)]

RNoReply(c) == rctx[c] = "dead" /\ rwire' = [rwire EXCEPT ![c] = <<>>]

ExecReply(t) ==
  /\ rphase = "run" /\ rpc[t] = "exec"
  /\ RReply(rcli[t]) \/ RNoReply(rcli[t])
  /\ rlock' = [rlock EXCEPT ![rcli[t]] = NULL]
  /\ rpc' = [rpc EXCEPT ![t] = "have"]
  /\ UNCHANGED <<rserver, rconf, rphase, rctx, rzone, rcount, rmap, rmgr, rcli, rarg, rtodo>>

-----------------------------------------------------------------------------
(* OnTestOnLine, once per WAIT_SECOND.                                     *)

RCurrent == CHOOSE z \in rtodo : \A y \in rtodo : z <= y

RTestStart ==
  /\ rphase = "run" /\ rpc[RTester] = "sleep" /\ rmgr = NULL
  /\ rmgr' = RTester /\ rpc' = [rpc EXCEPT ![RTester] = "test"]
  /\ rtodo' = {z \in RZones : rmap[z] # Absent}
  /\ UNCHANGED <<rserver, rconf, rphase, rctx, rzone, rcount, rlock, rwire, rmap, rcli, rarg>>

(* Mutant: the lock is not given back at the end of a pass.                *)
RTestEndKeepsLock ==
  /\ rphase = "run" /\ rpc[RTester] = "test" /\ rtodo = {}
  /\ rpc' = [rpc EXCEPT ![RTester] = "sleep"]
  /\ UNCHANGED <<rserver, rconf, rphase, rctx, rzone, rcount, rlock, rwire, rmap, rmgr, rcli,
                 rarg, rtodo>>

RTestEnd ==
  /\ rphase = "run" /\ rpc[RTester] = "test" /\ rtodo = {}
  /\ rmgr' = NULL /\ rpc' = [rpc EXCEPT ![RTester] = "sleep"]
  /\ UNCHANGED <<rserver, rconf, rphase, rctx, rzone, rcount, rlock, rwire, rmap, rcli, rarg, rtodo>>

RTestSkip ==
  /\ rphase = "run" /\ rpc[RTester] = "test" /\ rtodo # {} /\ rmap[RCurrent] = NULL
  /\ rtodo' = rtodo \ {RCurrent}
  /\ UNCHANGED <<rserver, rconf, rphase, rctx, rzone, rcount, rlock, rwire, rmap, rmgr, rpc,
                 rcli, rarg>>

(* Mutant: PING gives the lock back before its reply is read.              *)
RTestPingUnlocks ==
  /\ rphase = "run" /\ rpc[RTester] = "test" /\ rtodo # {} /\ rmap[RCurrent] # NULL
  /\ LET c == rmap[RCurrent]
     IN  /\ rlock[c] = NULL /\ rctx[c] # "null"
         /\ rwire' = [rwire EXCEPT ![c] = Append(@, RTester)]
  /\ rpc' = [rpc EXCEPT ![RTester] = "ping"]
  /\ UNCHANGED <<rserver, rconf, rphase, rctx, rzone, rcount, rlock, rmap, rmgr, rcli, rarg, rtodo>>

(* TestOnline: PING ...                                                    *)
RTestPing ==
  /\ rphase = "run" /\ rpc[RTester] = "test" /\ rtodo # {} /\ rmap[RCurrent] # NULL
  /\ RedisCommand(RTester, rmap[RCurrent], "ping")
  /\ UNCHANGED <<rserver, rconf, rctx, rzone, rcount, rmap, rmgr, rcli, rarg, rtodo>>

(* ... its reply, which is only freed, or none, and then ReConnect.        *)
RTestPong ==
  /\ rphase = "run" /\ rpc[RTester] = "ping"
  /\ LET c == rmap[RCurrent]
     IN  /\ \/ /\ RReply(c) /\ rpc' = [rpc EXCEPT ![RTester] = "test"]
               /\ rtodo' = rtodo \ {RCurrent}
            \/ RNoReply(c) /\ rpc' = [rpc EXCEPT ![RTester] = "reconnect"] /\ UNCHANGED rtodo
         /\ rlock' = [rlock EXCEPT ![c] = NULL]
  /\ UNCHANGED <<rserver, rconf, rphase, rctx, rzone, rcount, rmap, rmgr, rcli, rarg>>

(* Mutant: a client whose reconnection fails is evicted and deleted.       *)
RTestReConnectDeletes ==
  /\ rphase = "run" /\ rpc[RTester] = "reconnect"
  /\ LET c == rmap[RCurrent]
     IN  /\ rlock[c] = NULL
         /\ \E s \in RConnect(rzone[c]) :
              /\ rctx' = [rctx EXCEPT ![c] = IF s = "null" THEN "new" ELSE s]
              /\ rcount' = [rcount EXCEPT ![c] = 0]
              /\ rmap' = IF s = "null" THEN [rmap EXCEPT ![RCurrent] = Absent] ELSE rmap
  /\ rpc' = [rpc EXCEPT ![RTester] = "test"] /\ rtodo' = rtodo \ {RCurrent}
  /\ UNCHANGED <<rserver, rconf, rphase, rzone, rlock, rwire, rmgr, rcli, rarg>>

(* Mutant: the connection is left as it is.                                *)
RTestReConnectLater ==
  /\ rphase = "run" /\ rpc[RTester] = "reconnect"
  /\ rpc' = [rpc EXCEPT ![RTester] = "test"] /\ rtodo' = rtodo \ {RCurrent}
  /\ UNCHANGED <<rserver, rconf, rphase, rctx, rzone, rcount, rmap, rlock, rwire, rmgr, rcli,
                 rarg>>

(* ReConnect frees the context and connects again under the client's lock; *)
(* a fourth failure in a row takes the client out of the map.              *)
RTestReConnect ==
  /\ rphase = "run" /\ rpc[RTester] = "reconnect"
  /\ LET c == rmap[RCurrent]
     IN  /\ rlock[c] = NULL
         /\ \E s \in RConnect(rzone[c]) :
              /\ rctx' = [rctx EXCEPT ![c] = s]
              /\ rcount' = [rcount EXCEPT ![c] = IF s = "live" THEN 0 ELSE @ + 1]
              /\ rmap' = IF s = "null" /\ rcount[c] + 1 > 3
                         THEN [rmap EXCEPT ![RCurrent] = Absent] ELSE rmap
  /\ rpc' = [rpc EXCEPT ![RTester] = "test"] /\ rtodo' = rtodo \ {RCurrent}
  /\ UNCHANGED <<rserver, rconf, rphase, rzone, rlock, rwire, rmgr, rcli, rarg>>

-----------------------------------------------------------------------------
RTest == RTestStart \/ RTestEnd \/ RTestSkip \/ RTestPing \/ RTestPong \/ RTestReConnect

RLookup(t) == MakeRedisClient(t) \/ InsertRedisClient(t)

RUse(t) == ExecCommand(t) \/ ExecReply(t) \/ RDrop(t)

RedisNext ==
  \/ RTest
  \/ \E t \in RUsers : RLookup(t) \/ RUse(t) \/ \E z \in RZones : GetRedisClient(t, z)
  \/ \E z \in RZones, s \in {"up", "down", "hung"} : RServerTurns(z, s)

(* Every thread goes on, once in a call: a mutex that is given back again  *)
(* and again is granted to a thread that waits for it, and servers answer  *)
(* if they run for long enough.                                            *)
RedisFairness ==
  /\ SF_rVars(RTest)
  /\ \A t \in RUsers : SF_rVars(RLookup(t) \/ ExecReply(t))

-----------------------------------------------------------------------------
(* Properties                                                              *)

(* Threads share a connection, and a Redis reply does not say what it      *)
(* answers.  The next reply of the connection a thread of ExecCommand      *)
(* reads from is always the reply to its own command.                      *)
ReplyToCaller ==
  \A t \in RUsers : rpc[t] = "exec" => rwire[rcli[t]] # <<>> /\ Head(rwire[rcli[t]]) = t

(* What GetRedisClient returned stays a client of the zone that was asked  *)
(* for: eviction takes a client out of the map and deletes none, so a      *)
(* client that a thread still holds, or that the map lists, exists.        *)
ClientOfZone ==
  /\ \A t \in RUsers : rcli[t] # NULL => rctx[rcli[t]] # "new" /\ rzone[rcli[t]] = rarg[t]
  /\ \A z \in RZones : rmap[z] \in RClients => rctx[rmap[z]] # "new" /\ rzone[rmap[z]] = z

(* Two threads that miss a zone at once make two clients; the map keeps    *)
(* the first.  An entry goes only when its client has lost its connection, *)
(* and the NULL a failed MakeRedisClient leaves never goes.                *)
EntryKeptStep ==
  \A z \in RZones : rmap[z] # Absent /\ rphase # "init" /\ rmap'[z] # rmap[z] =>
    rmap'[z] = Absent /\ rmap[z] # NULL /\ rctx'[rmap[z]] = "null"

(* Every step of the process keeps the map's entries in that sense.        *)
EntryKept == [][EntryKeptStep]_rVars

(* A server that stops and is back when TestOnline reconnects is served    *)
(* again: every broken connection of the map becomes a live one of the     *)
(* same entry; unless some server hangs for good, since TestOnline waits   *)
(* for its reply without a timeout.  Of a server that is still down then   *)
(* nothing is said: ReConnect leaves a NULL context, which the next PING   *)
(* dereferences, where CRedisClient.cpp:46 has three attempts.             *)
OutageEnds ==
  /\ \A z \in RZones : []<>(rserver[z] # "hung")
  /\ [](rpc[RTester] = "reconnect" => rserver[RCurrent] = "up")
  => \A c \in RClients, z \in RZones :
       (rmap[z] = c /\ rctx[c] = "dead") ~> (rmap[z] = c /\ rctx[c] = "live")

(* GetRedisClient returns, although it needs the lock that the tester      *)
(* holds through every ping and reconnection of its pass; again unless a   *)
(* server hangs for good, or the process is gone.                          *)
LookupReturns ==
  (\A z \in RZones : []<>(rserver[z] # "hung")) =>
    \A t \in RUsers :
      (rpc[t] \in {"make", "insert"}) ~> (rpc[t] \in {"idle", "have"} \/ rphase = "crash")
=============================================================================
