----------------------------- MODULE ServiceProofs -----------------------------
(***************************************************************************)
(* Proofs about Services: threads that share Redis and MySQL connections   *)
(* get their own replies, the managers' maps list clients that exist and   *)
(* are of the right zone, and a handle is not closed under a query.        *)
(***************************************************************************)
EXTENDS Services, TLAPS

-----------------------------------------------------------------------------
(* Redis: the inductive invariant.                                         *)

RTypeOK ==
  /\ rserver \in [RZones -> {"up", "down", "hung"}]
  /\ rctx \in [RClients -> {"new", "null", "live", "dead"}]
  /\ rzone = [c \in RClients |-> rzone[c]]
  /\ rlock \in [RClients -> RThreads \cup {NULL}] /\ rwire \in [RClients -> Seq(RThreads)]
  /\ rmap \in [RZones -> RClients \cup {NULL, Absent}] /\ rmgr \in {NULL, RTester}
  /\ rpc \in [RThreads -> {"idle", "make", "insert", "have", "exec",
                           "sleep", "test", "ping", "reconnect"}]
  /\ rcli \in [RThreads -> RClients \cup {NULL}] /\ rarg \in [RThreads -> RZones \cup {NULL}]
  /\ rtodo \in SUBSET RZones

(* Before RedisOnInit no thread has started.                               *)
RStartInv ==
  /\ rphase \in {"init", "run", "crash"}
  /\ rphase = "init" => /\ rpc[RTester] = "sleep"
                        /\ \A t \in RUsers : rpc[t] = "idle"

(* What a thread of GetRedisClient and ExecCommand has in hand, step by    *)
(* step.                                                                   *)
RUserInv ==
  \A t \in RUsers :
    /\ rpc[t] \in {"idle", "make", "insert", "have", "exec"}
    /\ rpc[t] \in {"idle", "make"} => rcli[t] = NULL
    /\ rpc[t] \in {"make", "insert"} => rarg[t] \in RZones
    /\ rpc[t] \in {"have", "exec"} => rcli[t] \in RClients

(* The tester holds the manager's lock through its pass, so the entries it *)
(* has still to visit stay in the map, and the one it pings is a client.   *)
RTesterInv ==
  /\ rpc[RTester] \in {"sleep", "test", "ping", "reconnect"}
  /\ rmgr = (IF rpc[RTester] = "sleep" THEN NULL ELSE RTester)
  /\ rpc[RTester] # "sleep" => \A z \in rtodo : rmap[z] # Absent
  /\ rpc[RTester] \in {"ping", "reconnect"} => rtodo # {} /\ rmap[RCurrent] # NULL

(* Who is inside redisCommand with a client.                               *)
InCommand(t, c) ==
  \/ t \in RUsers /\ rpc[t] = "exec" /\ rcli[t] = c
  \/ t = RTester /\ rpc[t] = "ping" /\ rmap[RCurrent] = c

(* The client's lock is held exactly by the thread inside, and the         *)
(* connection owes that thread's reply and no other.                       *)
RLockInv ==
  \A c \in RClients :
    /\ \A t \in RThreads : rlock[c] = t <=> InCommand(t, c)
    /\ rwire[c] = IF rlock[c] = NULL THEN <<>> ELSE <<rlock[c]>>

RInv == RTypeOK /\ RStartInv /\ RUserInv /\ RTesterInv /\ RLockInv /\ ClientOfZone

-----------------------------------------------------------------------------
(* MySQL: the inductive invariant.                                         *)

STypeOK ==
  /\ shandle \in [SClients -> {"new", "null", "live", "dead"}]
  /\ szone = [c \in SClients |-> szone[c]]
  /\ slock \in [SClients -> SThreads \cup {NULL}]
  /\ smap \in [SZones -> SClients \cup {NULL, Absent}] /\ smgr \in {NULL, STester}
  /\ spc \in [SThreads -> {"idle", "insert", "have", "exec",
                           "sleep", "test", "ping", "close", "connect"}]
  /\ scli \in [SThreads -> SClients \cup {NULL}] /\ sarg \in [SThreads -> SZones \cup {NULL}]
  /\ stodo \in SUBSET SZones

SStartInv ==
  /\ sphase \in {"init", "run"}
  /\ sphase = "init" => /\ spc[STester] = "sleep"
                        /\ \A t \in SUsers : spc[t] = "idle"

SUserInv ==
  \A t \in SUsers :
    /\ spc[t] \in {"idle", "insert", "have", "exec"}
    /\ spc[t] \in {"idle", "insert"} => scli[t] = NULL
    /\ spc[t] = "insert" => sarg[t] \in SZones
    /\ spc[t] \in {"have", "exec"} => scli[t] \in SClients

STesterInv ==
  /\ spc[STester] \in {"sleep", "test", "ping", "close", "connect"}
  /\ smgr = (IF spc[STester] = "sleep" THEN NULL ELSE STester)
  /\ spc[STester] # "sleep" => \A z \in stodo : smap[z] # Absent
  /\ spc[STester] \in {"ping", "close", "connect"} => stodo # {} /\ smap[SCurrent] # NULL

(* Who is inside libmysqlclient with a client's handle.                    *)
InQuery(t, c) ==
  \/ t \in SUsers /\ spc[t] = "exec" /\ scli[t] = c
  \/ t = STester /\ spc[t] = "ping" /\ smap[SCurrent] = c

(* The client's lock is held exactly by the thread inside, whose handle is *)
(* there; a client that a thread or the map has exists.                    *)
SLockInv ==
  \A c \in SClients :
    /\ \A t \in SThreads : slock[c] = t <=> InQuery(t, c)
    /\ slock[c] # NULL => shandle[c] \in {"live", "dead"}

SClientInv ==
  /\ \A t \in SUsers :
       scli[t] # NULL => shandle[scli[t]] # "new" /\ szone[scli[t]] = sarg[t]
  /\ \A z \in SZones : smap[z] \in SClients => shandle[smap[z]] # "new" /\ szone[smap[z]] = z

SInv == STypeOK /\ SStartInv /\ SUserInv /\ STesterInv /\ SLockInv /\ SClientInv

(* Only the manager that is followed has been started.                     *)
SideInv ==
  /\ side = "main" => rphase = "init" /\ sphase = "init"

ServiceInv == RInv /\ SInv /\ SideInv

-----------------------------------------------------------------------------
(* Redis                                                                   *)

LEMMA RNames ==
  /\ RTester \in RThreads /\ RUsers \subseteq RThreads /\ RTester # NULL
  /\ \A t \in RUsers : t # RTester /\ t # NULL
  /\ \A t \in RThreads : t # NULL /\ (t = RTester \/ t \in RUsers)
  /\ \A c \in RClients : c # NULL /\ c # Absent
  /\ Absent # NULL
  BY RAssumption DEF RThreads

(* Zenon is the prover of a leaf that names none.                          *)
USE RNames, Zenon

(* The iterator of the tester's pass is at an entry it has not visited.    *)
LEMMA RCurrentIn ==
  ASSUME rtodo \in SUBSET RZones, rtodo # {}
  PROVE  RCurrent \in rtodo /\ RCurrent \in RZones
<1>1. \E z \in rtodo : \A y \in rtodo : z <= y
  BY RAssumption
<1>. QED
  BY <1>1 DEF RCurrent

LEMMA RCurrentStays == ASSUME UNCHANGED rtodo PROVE RCurrent' = RCurrent
  BY DEF RCurrent

(* In its pass the tester is at a client, or at a NULL entry it skips.     *)
LEMMA RTestedClient ==
  ASSUME RInv, rpc[RTester] # "sleep", rtodo # {}, rmap[RCurrent] # NULL
  PROVE  RCurrent \in RZones /\ RCurrent \in rtodo /\ rmap[RCurrent] \in RClients
  BY RCurrentIn DEF RInv, RTypeOK, RTesterInv

(* A step of a user leaves the tester and the other users where they are;  *)
(* the map changes under the manager's lock, while the tester sleeps.      *)
LEMMA RUserFrame ==
  ASSUME RInv, NEW t \in RUsers,
         rpc' = [rpc EXCEPT ![t] = rpc'[t]], rcli' = [rcli EXCEPT ![t] = rcli'[t]],
         UNCHANGED <<rmgr, rtodo>>, UNCHANGED rmap \/ rmgr = NULL
  PROVE  /\ RTesterInv'
         /\ \A u \in RThreads, c \in RClients : u # t => (InCommand(u, c)' <=> InCommand(u, c))
<1>1. \A u \in RThreads : u # t => rpc'[u] = rpc[u] /\ rcli'[u] = rcli[u]
  BY DEF RInv, RTypeOK
<1>2. RTesterInv'
  BY <1>1, RCurrentStays DEF RInv, RTesterInv
<1>. QED
  BY <1>1, <1>2, RCurrentStays DEF RInv, RTesterInv, InCommand

(* A step of the tester leaves the users where they are.                   *)
LEMMA RTesterFrame ==
  ASSUME RInv, rpc' = [rpc EXCEPT ![RTester] = rpc'[RTester]], UNCHANGED <<rcli, rarg>>
  PROVE  /\ RUserInv'
         /\ \A t \in RUsers, c \in RClients : InCommand(t, c)' <=> InCommand(t, c)
<1>1. \A t \in RUsers : rpc'[t] = rpc[t]
  BY DEF RInv, RTypeOK
<1>. QED
  BY <1>1 DEF RInv, RUserInv, InCommand

(* The lock: a thread that enters redisCommand takes it, with a connection *)
(* that owes no reply, ...                                                 *)
LEMMA RLockTaken ==
  ASSUME RInv, NEW t \in RThreads, NEW c \in RClients, rlock[c] = NULL,
         rlock' = [rlock EXCEPT ![c] = t], rwire' = [rwire EXCEPT ![c] = Append(@, t)],
         \A u \in RThreads, d \in RClients : u # t => (InCommand(u, d)' <=> InCommand(u, d)),
         \A d \in RClients : ~InCommand(t, d) /\ (InCommand(t, d)' <=> d = c)
  PROVE  /\ RLockInv' /\ rlock' \in [RClients -> RThreads \cup {NULL}]
         /\ rwire' \in [RClients -> Seq(RThreads)]
<1>1. rwire[c] = <<>>
  BY DEF RInv, RLockInv
<1>. Append(<<>>, t) = <<t>> /\ <<t>> \in Seq(RThreads)
  BY SMT
<1>2. /\ rwire' \in [RClients -> Seq(RThreads)] /\ rlock' \in [RClients -> RThreads \cup {NULL}]
      /\ \A d \in RClients : rlock'[d] = (IF d = c THEN t ELSE rlock[d])
      /\ \A d \in RClients : rwire'[d] = (IF d = c THEN <<t>> ELSE rwire[d])
  BY <1>1, SMT DEF RInv, RTypeOK
<1>3. ASSUME NEW u \in RThreads, NEW d \in RClients
      PROVE  rlock'[d] = u <=> InCommand(u, d)'
  <2>1. rlock[d] = u <=> InCommand(u, d)
    BY DEF RInv, RLockInv
  <2>. QED
    BY <1>2, <2>1, SMT
<1>. QED
  BY <1>2, <1>3, SMT DEF RInv, RLockInv

(* ... and gives it back when redisCommand returns: with the reply or      *)
(* without, none is owed.                                                  *)
LEMMA RLockGiven ==
  ASSUME RInv, NEW t \in RThreads, NEW c \in RClients, rlock[c] = t,
         rlock' = [rlock EXCEPT ![c] = NULL], RReply(c) \/ RNoReply(c),
         \A u \in RThreads, d \in RClients : u # t => (InCommand(u, d)' <=> InCommand(u, d)),
         \A d \in RClients : ~InCommand(t, d)' /\ (InCommand(t, d) => d = c)
  PROVE  /\ RLockInv' /\ rlock' \in [RClients -> RThreads \cup {NULL}]
         /\ rwire' \in [RClients -> Seq(RThreads)]
<1>1. rwire[c] = <<t>>
  BY DEF RInv, RLockInv
<1>2. rwire' = [rwire EXCEPT ![c] = <<>>]
  BY <1>1, SMT DEF RReply, RNoReply
<1>3. /\ rwire' \in [RClients -> Seq(RThreads)] /\ rlock' \in [RClients -> RThreads \cup {NULL}]
      /\ \A d \in RClients : rlock'[d] = (IF d = c THEN NULL ELSE rlock[d])
      /\ \A d \in RClients : rwire'[d] = (IF d = c THEN <<>> ELSE rwire[d])
  BY <1>2, SMT DEF RInv, RTypeOK
<1>4. ASSUME NEW u \in RThreads, NEW d \in RClients
      PROVE  rlock'[d] = u <=> InCommand(u, d)'
  <2>1. rlock[d] = u <=> InCommand(u, d)
    BY DEF RInv, RLockInv
  <2>. QED
    BY <1>3, <2>1, SMT
<1>. QED
  BY <1>3, <1>4, ZenonT(30) DEF RInv, RLockInv

LEMMA RLockFrame ==
  ASSUME RInv, UNCHANGED <<rlock, rwire>>,
         \A t \in RThreads, c \in RClients : InCommand(t, c)' <=> InCommand(t, c)
  PROVE  RLockInv'
  BY DEF RInv, RLockInv

(* The steps of the server and of the users.                               *)
LEMMA RServerTurnsInv ==
  ASSUME RInv, NEW z \in RZones, NEW s \in {"up", "down", "hung"}, RServerTurns(z, s)
  PROVE  RInv'
<1>1. RTypeOK' /\ \A c \in RClients : rctx[c] # "new" => rctx'[c] # "new"
  BY DEF RInv, RTypeOK, RServerTurns
<1>2. RStartInv' /\ RUserInv'
  BY DEF RInv, RStartInv, RUserInv, RServerTurns
<1>3. RTesterInv' /\ RLockInv'
  BY RCurrentStays, SMT DEF RInv, RTesterInv, RLockInv, InCommand, RServerTurns
<1>4. ClientOfZone'
  BY <1>1, SMT DEF RInv, RTypeOK, ClientOfZone, RServerTurns
<1>. QED
  BY <1>1, <1>2, <1>3, <1>4 DEF RInv

LEMMA GetRedisClientInv ==
  ASSUME RInv, NEW t \in RUsers, NEW z \in RZones, GetRedisClient(t, z)
  PROVE  RInv'
<1>1. RTypeOK'
  BY DEF RInv, RTypeOK, GetRedisClient
<1>2. RStartInv' /\ RUserInv' /\ ClientOfZone' /\ rpc[t] = "idle" /\ rpc'[t] # "exec"
  BY SMT DEF RInv, RTypeOK, RStartInv, RUserInv, ClientOfZone, GetRedisClient
<1>3. /\ RTesterInv'
      /\ \A u \in RThreads, c \in RClients : u # t => (InCommand(u, c)' <=> InCommand(u, c))
  BY RUserFrame DEF RInv, RTypeOK, GetRedisClient
<1>4. RLockInv'
  BY <1>2, <1>3, RLockFrame, ZenonT(30) DEF InCommand, GetRedisClient
<1>. QED
  BY <1>1, <1>2, <1>3, <1>4 DEF RInv

LEMMA MakeRedisClientInv ==
  ASSUME RInv, NEW t \in RUsers, MakeRedisClient(t)
  PROVE  RInv'
<1>1. RTypeOK'
  <2>1. CASE UNCHANGED <<rctx, rzone, rcli>>
    BY <2>1 DEF RInv, RTypeOK, MakeRedisClient
  <2>2. ASSUME NEW c \in RClients, rctx' = [rctx EXCEPT ![c] = "live"],
               rzone' = [rzone EXCEPT ![c] = rarg[t]], rcli' = [rcli EXCEPT ![t] = c]
        PROVE  RTypeOK'
    BY <2>2 DEF RInv, RTypeOK, MakeRedisClient
  <2>. QED
    BY <2>1, <2>2 DEF Unused, MakeRedisClient
<1>2. RStartInv' /\ RUserInv'
  BY SMT DEF RInv, RTypeOK, RStartInv, RUserInv, Unused, MakeRedisClient
<1>3. /\ RTesterInv'
      /\ \A u \in RThreads, c \in RClients : u # t => (InCommand(u, c)' <=> InCommand(u, c))
  BY RUserFrame DEF RInv, RTypeOK, MakeRedisClient
<1>4. RLockInv'
  BY <1>3, RLockFrame, SMT DEF RInv, RTypeOK, InCommand, MakeRedisClient
<1>5. ClientOfZone'
  BY SMT DEF RInv, RTypeOK, RUserInv, ClientOfZone, Unused, MakeRedisClient
<1>. QED
  BY <1>1, <1>2, <1>3, <1>4, <1>5 DEF RInv

LEMMA InsertRedisClientInv ==
  ASSUME RInv, NEW t \in RUsers, InsertRedisClient(t)
  PROVE  RInv'
<1>1. rarg[t] \in RZones /\ rpc[t] = "insert" /\ rpc'[t] # "exec" /\ RStartInv' /\ RUserInv'
  BY DEF RInv, RTypeOK, RStartInv, RUserInv, InsertRedisClient
<1>2. RTypeOK'
  BY <1>1 DEF RInv, RTypeOK, InsertRedisClient
<1>3. /\ RTesterInv'
      /\ \A u \in RThreads, c \in RClients : u # t => (InCommand(u, c)' <=> InCommand(u, c))
  BY RUserFrame DEF RInv, RTypeOK, InsertRedisClient
<1>4. RLockInv'
  BY <1>1, <1>3, RLockFrame, SMT DEF InCommand, InsertRedisClient
<1>5. ClientOfZone'
  BY <1>1, SMT DEF RInv, RTypeOK, ClientOfZone, InsertRedisClient
<1>. QED
  BY <1>1, <1>2, <1>3, <1>4, <1>5 DEF RInv

LEMMA RDropInv ==
  ASSUME RInv, NEW t \in RUsers, RDrop(t)
  PROVE  RInv'
<1>1. RTypeOK' /\ rpc[t] = "have" /\ rpc'[t] = "idle"
  BY DEF RInv, RTypeOK, RDrop
<1>2. RStartInv' /\ RUserInv' /\ ClientOfZone'
  BY DEF RInv, RTypeOK, RStartInv, RUserInv, ClientOfZone, RDrop
<1>3. /\ RTesterInv'
      /\ \A u \in RThreads, c \in RClients : u # t => (InCommand(u, c)' <=> InCommand(u, c))
  BY RUserFrame DEF RInv, RTypeOK, RDrop
<1>4. RLockInv'
  BY <1>1, <1>3, RLockFrame DEF InCommand, RDrop
<1>. QED
  BY <1>1, <1>2, <1>3, <1>4 DEF RInv

LEMMA ExecCommandInv ==
  ASSUME RInv, NEW t \in RUsers, ExecCommand(t)
  PROVE  RInv'
<1>1. rcli[t] \in RClients /\ rlock[rcli[t]] = NULL /\ rpc[t] = "have" /\ ClientOfZone'
  BY DEF RInv, RUserInv, ClientOfZone, ExecCommand, RedisCommand
<1>2. CASE rphase' = "crash" /\ UNCHANGED <<rlock, rwire, rpc>>
  BY <1>1, <1>2, SMT
  DEF RInv, RTypeOK, RStartInv, RUserInv, RTesterInv, RLockInv, InCommand, RCurrent, ExecCommand
<1>3. CASE /\ UNCHANGED rphase /\ rlock' = [rlock EXCEPT ![rcli[t]] = t]
           /\ rwire' = [rwire EXCEPT ![rcli[t]] = Append(@, t)]
           /\ rpc' = [rpc EXCEPT ![t] = "exec"]
  <2>1. /\ RTesterInv'
        /\ \A u \in RThreads, c \in RClients : u # t => (InCommand(u, c)' <=> InCommand(u, c))
    BY <1>3, RUserFrame DEF RInv, RTypeOK, ExecCommand
  <2>2. \A c \in RClients : ~InCommand(t, c) /\ (InCommand(t, c)' <=> c = rcli[t])
    BY <1>1, <1>3 DEF RInv, RTypeOK, InCommand, ExecCommand
  <2>3. /\ RLockInv' /\ rlock' \in [RClients -> RThreads \cup {NULL}]
        /\ rwire' \in [RClients -> Seq(RThreads)]
    BY <1>1, <1>3, <2>1, <2>2, RLockTaken
  <2>4. RTypeOK' /\ RStartInv' /\ RUserInv'
    BY <1>3, <2>3 DEF RInv, RTypeOK, RStartInv, RUserInv, ExecCommand
  <2>. QED
    BY <1>1, <2>1, <2>3, <2>4 DEF RInv
<1>. QED
  BY <1>2, <1>3 DEF ExecCommand, RedisCommand

LEMMA ExecReplyInv ==
  ASSUME RInv, NEW t \in RUsers, ExecReply(t)
  PROVE  RInv'
<1>1. rcli[t] \in RClients /\ rpc'[t] = "have" /\ ClientOfZone' /\ InCommand(t, rcli[t])
  BY DEF RInv, RTypeOK, RUserInv, ClientOfZone, InCommand, ExecReply
<1>2. rlock[rcli[t]] = t
  BY <1>1 DEF RInv, RLockInv
<1>3. /\ RTesterInv'
      /\ \A u \in RThreads, c \in RClients : u # t => (InCommand(u, c)' <=> InCommand(u, c))
  BY RUserFrame DEF RInv, RTypeOK, ExecReply
<1>4. \A c \in RClients : ~InCommand(t, c)' /\ (InCommand(t, c) => c = rcli[t])
  BY <1>1 DEF InCommand
<1>5. /\ RLockInv' /\ rlock' \in [RClients -> RThreads \cup {NULL}]
      /\ rwire' \in [RClients -> Seq(RThreads)]
  BY <1>1, <1>2, <1>3, <1>4, RLockGiven DEF ExecReply
<1>6. RTypeOK' /\ RStartInv' /\ RUserInv'
  BY <1>5 DEF RInv, RTypeOK, RStartInv, RUserInv, ExecReply
<1>. QED
  BY <1>1, <1>3, <1>5, <1>6 DEF RInv

(* The tester's steps.                                                     *)
LEMMA RTestStartEndInv ==
  ASSUME RInv, RTestStart \/ RTestEnd
  PROVE  RInv'
<1>1. /\ rpc' = [rpc EXCEPT ![RTester] = rpc'[RTester]]
      /\ rpc[RTester] # "ping" /\ rpc'[RTester] # "ping"
      /\ UNCHANGED <<rlock, rwire, rcli, rarg>>
  BY DEF RInv, RTypeOK, RTestStart, RTestEnd
<1>2. RUserInv' /\ \A t \in RUsers, c \in RClients : InCommand(t, c)' <=> InCommand(t, c)
  BY <1>1, RTesterFrame
<1>3. RLockInv'
  BY <1>1, <1>2, RLockFrame DEF InCommand
<1>4. RTypeOK' /\ RTesterInv'
  BY ZenonT(30) DEF RInv, RTypeOK, RTesterInv, RTestStart, RTestEnd
<1>5. RStartInv' /\ ClientOfZone'
  BY DEF RInv, RStartInv, ClientOfZone, RTestStart, RTestEnd
<1>. QED
  BY <1>2, <1>3, <1>4, <1>5 DEF RInv

LEMMA RTestSkipInv ==
  ASSUME RInv, RTestSkip
  PROVE  RInv'
<1>1. RTypeOK' /\ RUserInv' /\ RStartInv' /\ RTesterInv' /\ ClientOfZone'
  BY SMT DEF RInv, RTypeOK, RUserInv, RStartInv, RTesterInv, ClientOfZone, RTestSkip
<1>2. RLockInv'
  BY RLockFrame DEF InCommand, RTestSkip
<1>. QED
  BY <1>1, <1>2 DEF RInv

LEMMA RTestPingInv ==
  ASSUME RInv, RTestPing
  PROVE  RInv'
<1>1. PICK c \in RClients : c = rmap[RCurrent] /\ rlock[c] = NULL
  BY RTestedClient DEF RTestPing, RedisCommand
<1>2. ClientOfZone' /\ RCurrent' = RCurrent
  BY RCurrentStays DEF RInv, ClientOfZone, RTestPing
<1>3. CASE rphase' = "crash" /\ UNCHANGED <<rlock, rwire, rpc>>
  <2>1. RTypeOK' /\ RStartInv' /\ RUserInv'
    BY <1>3 DEF RInv, RTypeOK, RStartInv, RUserInv, RTestPing
  <2>2. RTesterInv' /\ RLockInv'
    BY <1>2, <1>3, SMT DEF RInv, RTesterInv, RLockInv, InCommand, RTestPing
  <2>. QED
    BY <1>2, <2>1, <2>2 DEF RInv
<1>4. CASE /\ UNCHANGED rphase /\ rlock' = [rlock EXCEPT ![c] = RTester]
           /\ rwire' = [rwire EXCEPT ![c] = Append(@, RTester)]
           /\ rpc' = [rpc EXCEPT ![RTester] = "ping"]
  <2>1. rpc'[RTester] = "ping" /\ RTesterInv'
    BY <1>1, <1>2, <1>4 DEF RInv, RTypeOK, RTesterInv, RTestPing
  <2>2. RUserInv' /\ \A t \in RUsers, d \in RClients : InCommand(t, d)' <=> InCommand(t, d)
    BY <1>4, <2>1, RTesterFrame DEF RTestPing
  <2>3. \A d \in RClients : ~InCommand(RTester, d) /\ (InCommand(RTester, d)' <=> d = c)
    BY <1>1, <1>2, <2>1 DEF InCommand, RTestPing
  <2>4. /\ RLockInv' /\ rlock' \in [RClients -> RThreads \cup {NULL}]
        /\ rwire' \in [RClients -> Seq(RThreads)]
    BY <1>1, <1>4, <2>2, <2>3, RLockTaken
  <2>5. RTypeOK' /\ RStartInv'
    BY <1>4, <2>4 DEF RInv, RTypeOK, RStartInv, RTestPing
  <2>. QED
    BY <1>2, <2>1, <2>2, <2>4, <2>5 DEF RInv
<1>. QED
  BY <1>1, <1>3, <1>4 DEF RTestPing, RedisCommand

LEMMA RTestPongInv ==
  ASSUME RInv, RTestPong
  PROVE  RInv'
<1>1. PICK c \in RClients : c = rmap[RCurrent] /\ InCommand(RTester, c)
  BY RTestedClient DEF RInv, RTesterInv, InCommand, RTestPong
<1>2. rlock[c] = RTester /\ RStartInv' /\ ClientOfZone'
  BY <1>1, ZenonT(30) DEF RInv, RLockInv, RStartInv, ClientOfZone, RTestPong
<1>3. /\ rpc'[RTester] \in {"test", "reconnect"}
      /\ rpc' = [rpc EXCEPT ![RTester] = rpc'[RTester]]
      /\ rtodo' \subseteq rtodo /\ (rpc'[RTester] = "reconnect" => UNCHANGED rtodo)
      /\ UNCHANGED <<rserver, rctx, rzone, rmap, rmgr, rcli, rarg>>
  BY DEF RInv, RTypeOK, RTestPong
<1>4. RUserInv' /\ \A t \in RUsers, d \in RClients : InCommand(t, d)' <=> InCommand(t, d)
  BY <1>3, RTesterFrame
<1>5. \A d \in RClients : ~InCommand(RTester, d)' /\ (InCommand(RTester, d) => d = c)
  BY <1>1, <1>3 DEF InCommand
<1>6. rlock' = [rlock EXCEPT ![c] = NULL] /\ (RReply(c) \/ RNoReply(c))
  BY <1>1 DEF RTestPong
<1>7. /\ RLockInv' /\ rlock' \in [RClients -> RThreads \cup {NULL}]
      /\ rwire' \in [RClients -> Seq(RThreads)]
  BY <1>2, <1>4, <1>5, <1>6, RLockGiven
<1>8. RTypeOK'
  BY <1>3, <1>7, ZenonT(30) DEF RInv, RTypeOK
<1>9. RTesterInv'
  BY <1>3, RCurrentStays DEF RInv, RTesterInv, RTestPong
<1>. QED
  BY <1>2, <1>4, <1>7, <1>8, <1>9 DEF RInv

LEMMA RTestReConnectInv ==
  ASSUME RInv, RTestReConnect
  PROVE  RInv'
<1>1. RCurrent \in RZones /\ RCurrent \in rtodo /\ rmap[RCurrent] \in RClients
  BY RTestedClient DEF RInv, RTesterInv, RTestReConnect
<1>2. PICK s \in {"live", "null"} :
        /\ rctx' = [rctx EXCEPT ![rmap[RCurrent]] = s]
        /\ rmap' = rmap \/ rmap' = [rmap EXCEPT ![RCurrent] = Absent]
  BY DEF RConnect, RTestReConnect
<1>3. RTypeOK' /\ rpc' = [rpc EXCEPT ![RTester] = rpc'[RTester]] /\ rpc'[RTester] = "test"
  BY <1>1, <1>2 DEF RInv, RTypeOK, RTestReConnect
<1>4. /\ RUserInv' /\ RStartInv'
      /\ \A t \in RUsers, d \in RClients : InCommand(t, d)' <=> InCommand(t, d)
  BY <1>3, RTesterFrame DEF RInv, RStartInv, RTestReConnect
<1>5. RTesterInv'
  BY <1>1, <1>2, <1>3, SMT DEF RInv, RTypeOK, RTesterInv, RTestReConnect
<1>6. RLockInv'
  BY <1>3, <1>4, RLockFrame DEF InCommand, RTestReConnect
<1>7. ClientOfZone'
  <2>1. /\ \A d \in RClients : rctx[d] # "new" => rctx'[d] # "new"
        /\ \A z \in RZones : rmap'[z] \in RClients => rmap'[z] = rmap[z]
    BY <1>1, <1>2 DEF RInv, RTypeOK
  <2>2. UNCHANGED <<rcli, rarg, rzone>> /\ \A t \in RUsers : rcli[t] \in RClients \cup {NULL}
    BY DEF RInv, RTypeOK, RTestReConnect
  <2>. QED
    BY <2>1, <2>2 DEF RInv, ClientOfZone
<1>. QED
  BY <1>3, <1>4, <1>5, <1>6, <1>7 DEF RInv

(* OnInit fills the map with clients of their zones; no thread has started. *)
LEMMA RedisOnInitInv ==
  ASSUME RInv, NEW conf, RedisOnInit(conf)
  PROVE  RInv'
<1>. DEFINE made == {z \in conf : rserver'[z] = "up"}
<1>1. PICK cl \in [made -> RClients] :
        /\ \A y, z \in made : cl[y] = cl[z] => y = z
        /\ rmap' = [z \in RZones |-> IF z \in made THEN cl[z] ELSE Absent]
        /\ rctx' = [c \in RClients |-> IF \E z \in made : cl[z] = c THEN "live" ELSE "new"]
        /\ rzone' = [c \in RClients |->
                       IF \E z \in made : cl[z] = c THEN CHOOSE z \in made : cl[z] = c ELSE NULL]
  BY DEF RedisOnInit
<1>. HIDE DEF made
<1>2. /\ rphase = "init" /\ rphase' = "run" /\ rserver' \in [RZones -> {"up", "down"}]
      /\ UNCHANGED <<rlock, rwire, rmgr, rpc, rcli, rarg, rtodo>>
      /\ rpc[RTester] = "sleep" /\ \A t \in RUsers : rpc[t] = "idle" /\ rcli[t] = NULL
  BY DEF RInv, RStartInv, RUserInv, RedisOnInit
<1>3. RTypeOK'
  <2>1. rzone' = [c \in RClients |-> rzone'[c]]
    BY <1>1, Zenon
  <2>2. /\ rctx' \in [RClients -> {"new", "null", "live", "dead"}]
        /\ rmap' \in [RZones -> RClients \cup {NULL, Absent}]
    BY <1>1
  <2>. QED
    BY <1>2, <2>1, <2>2, SMT DEF RInv, RTypeOK
<1>4. RStartInv' /\ RUserInv' /\ RTesterInv'
  BY <1>2 DEF RInv, RStartInv, RUserInv, RTesterInv
<1>5. RLockInv'
  BY <1>2, RLockFrame DEF InCommand
<1>6. ASSUME NEW z \in RZones, rmap'[z] \in RClients
      PROVE  rctx'[rmap'[z]] # "new" /\ rzone'[rmap'[z]] = z
  <2>1. z \in made /\ rmap'[z] = cl[z]
    BY <1>1, <1>6
  <2>2. (CHOOSE y \in made : cl[y] = cl[z]) = z
    BY <1>1, <2>1
  <2>. QED
    BY <1>1, <1>6, <2>1, <2>2
<1>7. ClientOfZone'
  BY <1>2, <1>6 DEF ClientOfZone
<1>. QED
  BY <1>3, <1>4, <1>5, <1>7 DEF RInv

LEMMA RedisStays ==
  ASSUME RInv, UNCHANGED rVars
  PROVE  RInv'
<1>1. RTypeOK' /\ RStartInv' /\ RUserInv' /\ ClientOfZone'
  BY DEF RInv, RTypeOK, RStartInv, RUserInv, ClientOfZone, rVars
<1>2. RTesterInv' /\ RLockInv'
  BY RCurrentStays, SMT DEF RInv, RTesterInv, RLockInv, InCommand, rVars
<1>. QED
  BY <1>1, <1>2 DEF RInv

LEMMA RedisNextInv ==
  ASSUME RInv, RedisNext
  PROVE  RInv'
<1>1. CASE RTest
  BY <1>1, RTestStartEndInv, RTestSkipInv, RTestPingInv, RTestPongInv, RTestReConnectInv
  DEF RTest
<1>2. CASE \E t \in RUsers : RLookup(t) \/ RUse(t)
  BY <1>2, MakeRedisClientInv, InsertRedisClientInv, RDropInv, ExecCommandInv, ExecReplyInv
  DEF RLookup, RUse
<1>. QED
  BY <1>1, <1>2, RServerTurnsInv, GetRedisClientInv DEF RedisNext

LEMMA RedisInitInv == RedisInit => RInv
<1>. SUFFICES ASSUME RedisInit PROVE RInv
  OBVIOUS
<1>1. RTypeOK
  <2>1. rwire \in [RClients -> Seq(RThreads)] /\ rzone = [c \in RClients |-> rzone[c]]
    BY SMT DEF RedisInit
  <2>. QED
    BY <2>1 DEF RedisInit, RTypeOK
<1>2. RStartInv /\ RUserInv /\ RTesterInv /\ ClientOfZone
  BY DEF RedisInit, RStartInv, RUserInv, RTesterInv, ClientOfZone
<1>3. RLockInv
  BY DEF RedisInit, RLockInv, InCommand
<1>. QED
  BY <1>1, <1>2, <1>3 DEF RInv

(* A thread in ExecCommand holds the lock, so what the connection owes is  *)
(* its own reply.                                                          *)
LEMMA OwnReply ==
  ASSUME RInv
  PROVE  ReplyToCaller
<1>. SUFFICES ASSUME NEW t \in RUsers, rpc[t] = "exec"
              PROVE  rwire[rcli[t]] # <<>> /\ Head(rwire[rcli[t]]) = t
  BY DEF ReplyToCaller
<1>1. rcli[t] \in RClients /\ InCommand(t, rcli[t])
  BY DEF RInv, RUserInv, InCommand
<1>2. rwire[rcli[t]] = <<t>>
  BY <1>1 DEF RInv, RLockInv
<1>. QED
  BY <1>2, SMT

(* Only InsertRedisClient, for a zone without an entry, and the tester's   *)
(* ReConnect change the map once the threads run.                          *)
LEMMA EntryStays ==
  ASSUME RInv, RedisNext
  PROVE  EntryKeptStep
<1>. SUFFICES ASSUME NEW z \in RZones, rmap[z] # Absent, rmap'[z] # rmap[z]
              PROVE  rmap'[z] = Absent /\ rmap[z] # NULL /\ rctx'[rmap[z]] = "null"
  BY DEF EntryKeptStep
<1>1. RTestReConnect
  <2>1. ASSUME NEW t \in RUsers, InsertRedisClient(t) PROVE FALSE
    BY <2>1 DEF InsertRedisClient, RInv, RTypeOK
  <2>. QED
    BY <2>1
    DEF RedisNext, RTest, RLookup, RUse, RServerTurns, GetRedisClient, MakeRedisClient, RDrop,
        ExecCommand, ExecReply, RTestStart, RTestEnd, RTestSkip, RTestPing, RTestPong
<1>2. RCurrent \in RZones /\ rmap[RCurrent] \in RClients
  BY <1>1, RTestedClient DEF RInv, RTesterInv, RTestReConnect
<1>3. /\ rmap' = [rmap EXCEPT ![RCurrent] = Absent]
      /\ rctx' = [rctx EXCEPT ![rmap[RCurrent]] = "null"]
  BY <1>1 DEF RTestReConnect
<1>. QED
  BY <1>2, <1>3 DEF RInv, RTypeOK

-----------------------------------------------------------------------------
(* MySQL                                                                   *)

LEMMA SNames ==
  /\ STester \in SThreads /\ SUsers \subseteq SThreads /\ STester # NULL
  /\ \A t \in SUsers : t # STester /\ t # NULL
  /\ \A t \in SThreads : t # NULL /\ (t = STester \/ t \in SUsers)
  /\ \A c \in SClients : c # NULL /\ c # Absent
  /\ Absent # NULL
  BY SAssumption DEF SThreads

HIDE RNames
USE SNames

LEMMA SCurrentIn ==
  ASSUME stodo \in SUBSET SZones, stodo # {}
  PROVE  SCurrent \in stodo /\ SCurrent \in SZones
<1>1. \E z \in stodo : \A y \in stodo : z <= y
  BY SAssumption
<1>. QED
  BY <1>1 DEF SCurrent

LEMMA SCurrentStays == ASSUME UNCHANGED stodo PROVE SCurrent' = SCurrent
  BY DEF SCurrent

LEMMA STestedClient ==
  ASSUME SInv, spc[STester] # "sleep", stodo # {}, smap[SCurrent] # NULL
  PROVE  SCurrent \in SZones /\ SCurrent \in stodo /\ smap[SCurrent] \in SClients
  BY SCurrentIn DEF SInv, STypeOK, STesterInv

LEMMA SUserFrame ==
  ASSUME SInv, NEW t \in SUsers,
         spc' = [spc EXCEPT ![t] = spc'[t]], scli' = [scli EXCEPT ![t] = scli'[t]],
         UNCHANGED <<smgr, stodo>>, UNCHANGED smap \/ smgr = NULL
  PROVE  /\ STesterInv'
         /\ \A u \in SThreads, c \in SClients : u # t => (InQuery(u, c)' <=> InQuery(u, c))
<1>1. \A u \in SThreads : u # t => spc'[u] = spc[u] /\ scli'[u] = scli[u]
  BY DEF SInv, STypeOK
<1>2. STesterInv'
  BY <1>1, SCurrentStays DEF SInv, STesterInv
<1>. QED
  BY <1>1, <1>2, SCurrentStays DEF SInv, STesterInv, InQuery

LEMMA STesterFrame ==
  ASSUME SInv, spc' = [spc EXCEPT ![STester] = spc'[STester]], UNCHANGED <<scli, sarg>>
  PROVE  /\ SUserInv'
         /\ \A t \in SUsers, c \in SClients : InQuery(t, c)' <=> InQuery(t, c)
<1>1. \A t \in SUsers : spc'[t] = spc[t]
  BY DEF SInv, STypeOK
<1>. QED
  BY <1>1 DEF SInv, SUserInv, InQuery

(* The lock: taken by a thread that goes into libmysqlclient with a        *)
(* handle, given back when it comes out, and no handle is closed under it. *)
LEMMA SLockTaken ==
  ASSUME SInv, NEW t \in SThreads, NEW c \in SClients, slock[c] = NULL,
         shandle[c] \in {"live", "dead"}, UNCHANGED shandle, slock' = [slock EXCEPT ![c] = t],
         \A u \in SThreads, d \in SClients : u # t => (InQuery(u, d)' <=> InQuery(u, d)),
         \A d \in SClients : ~InQuery(t, d) /\ (InQuery(t, d)' <=> d = c)
  PROVE  SLockInv' /\ slock' \in [SClients -> SThreads \cup {NULL}]
<1>1. /\ slock' \in [SClients -> SThreads \cup {NULL}]
      /\ \A d \in SClients : slock'[d] = (IF d = c THEN t ELSE slock[d])
  BY DEF SInv, STypeOK
<1>2. ASSUME NEW u \in SThreads, NEW d \in SClients
      PROVE  slock'[d] = u <=> InQuery(u, d)'
  <2>1. slock[d] = u <=> InQuery(u, d)
    BY DEF SInv, SLockInv
  <2>. QED
    BY <1>1, <2>1
<1>. QED
  BY <1>1, <1>2 DEF SInv, SLockInv

LEMMA SLockGiven ==
  ASSUME SInv, NEW t \in SThreads, NEW c \in SClients, slock[c] = t,
         UNCHANGED shandle, slock' = [slock EXCEPT ![c] = NULL],
         \A u \in SThreads, d \in SClients : u # t => (InQuery(u, d)' <=> InQuery(u, d)),
         \A d \in SClients : ~InQuery(t, d)' /\ (InQuery(t, d) => d = c)
  PROVE  SLockInv' /\ slock' \in [SClients -> SThreads \cup {NULL}]
<1>1. /\ slock' \in [SClients -> SThreads \cup {NULL}]
      /\ \A d \in SClients : slock'[d] = (IF d = c THEN NULL ELSE slock[d])
  BY DEF SInv, STypeOK
<1>2. ASSUME NEW u \in SThreads, NEW d \in SClients
      PROVE  slock'[d] = u <=> InQuery(u, d)'
  <2>1. slock[d] = u <=> InQuery(u, d)
    BY DEF SInv, SLockInv
  <2>. QED
    BY <1>1, <2>1
<1>. QED
  BY <1>1, <1>2 DEF SInv, SLockInv

LEMMA SLockFrame ==
  ASSUME SInv, UNCHANGED slock,
         \A t \in SThreads, c \in SClients : InQuery(t, c)' <=> InQuery(t, c),
         \A c \in SClients : slock[c] # NULL /\ shandle[c] \in {"live", "dead"} =>
                               shandle'[c] \in {"live", "dead"}
  PROVE  SLockInv'
  BY DEF SInv, SLockInv

(* The steps of the server and of the users.                               *)
LEMMA SServerTurnsInv ==
  ASSUME SInv, NEW z \in SZones, NEW s \in {"up", "down", "hung"}, SServerTurns(z, s)
  PROVE  SInv'
<1>1. /\ STypeOK' /\ \A c \in SClients : shandle[c] # "new" => shandle'[c] # "new"
      /\ \A c \in SClients : shandle[c] \in {"live", "dead"} => shandle'[c] \in {"live", "dead"}
  BY DEF SInv, STypeOK, SServerTurns
<1>2. SStartInv' /\ SUserInv' /\ STesterInv'
  BY SCurrentStays DEF SInv, SStartInv, SUserInv, STesterInv, SServerTurns
<1>3. SLockInv'
  BY <1>1, SLockFrame, SCurrentStays DEF InQuery, SServerTurns
<1>4. SClientInv'
  BY <1>1, SMT DEF SInv, STypeOK, SClientInv, SServerTurns
<1>. QED
  BY <1>1, <1>2, <1>3, <1>4 DEF SInv

LEMMA GetSqlClientInv ==
  ASSUME SInv, NEW t \in SUsers, NEW z \in SZones, GetSqlClient(t, z)
  PROVE  SInv'
<1>1. STypeOK'
  BY DEF SInv, STypeOK, GetSqlClient
<1>2. SStartInv' /\ SUserInv' /\ SClientInv' /\ spc[t] = "idle" /\ spc'[t] # "exec"
  BY SMT DEF SInv, STypeOK, SStartInv, SUserInv, SClientInv, GetSqlClient
<1>3. /\ STesterInv'
      /\ \A u \in SThreads, c \in SClients : u # t => (InQuery(u, c)' <=> InQuery(u, c))
  BY SUserFrame DEF SInv, STypeOK, GetSqlClient
<1>4. SLockInv'
  BY <1>2, <1>3, SLockFrame, ZenonT(30) DEF InQuery, GetSqlClient
<1>. QED
  BY <1>1, <1>2, <1>3, <1>4 DEF SInv

LEMMA MakeAndInsertInv ==
  ASSUME SInv, NEW t \in SUsers, MakeAndInsert(t)
  PROVE  SInv'
<1>1. sarg[t] \in SZones /\ spc[t] = "insert" /\ spc'[t] = "idle" /\ SStartInv' /\ SUserInv'
  BY DEF SInv, STypeOK, SStartInv, SUserInv, MakeAndInsert
<1>2. STypeOK'
  BY <1>1 DEF SInv, STypeOK, MakeAndInsert
<1>3. /\ STesterInv'
      /\ \A u \in SThreads, c \in SClients : u # t => (InQuery(u, c)' <=> InQuery(u, c))
  BY SUserFrame DEF SInv, STypeOK, MakeAndInsert
<1>4. SLockInv'
  BY <1>1, <1>3, SLockFrame DEF InQuery, MakeAndInsert
<1>5. SClientInv'
  BY <1>1, SMT DEF SInv, STypeOK, SUserInv, SClientInv, MakeAndInsert
<1>. QED
  BY <1>1, <1>2, <1>3, <1>4, <1>5 DEF SInv

LEMMA SDropInv ==
  ASSUME SInv, NEW t \in SUsers, SDrop(t)
  PROVE  SInv'
<1>1. STypeOK' /\ spc[t] = "have" /\ spc'[t] = "idle"
  BY DEF SInv, STypeOK, SDrop
<1>2. SStartInv' /\ SUserInv' /\ SClientInv'
  BY DEF SInv, STypeOK, SStartInv, SUserInv, SClientInv, SDrop
<1>3. /\ STesterInv'
      /\ \A u \in SThreads, c \in SClients : u # t => (InQuery(u, c)' <=> InQuery(u, c))
  BY SUserFrame DEF SInv, STypeOK, SDrop
<1>4. SLockInv'
  BY <1>1, <1>3, SLockFrame DEF InQuery, SDrop
<1>. QED
  BY <1>1, <1>2, <1>3, <1>4 DEF SInv

LEMMA ExecSqlCmdInv ==
  ASSUME SInv, NEW t \in SUsers, ExecSqlCmd(t)
  PROVE  SInv'
<1>1. scli[t] \in SClients /\ shandle[scli[t]] \in {"live", "dead"} /\ SClientInv'
  BY SMT DEF SInv, STypeOK, SUserInv, SClientInv, ExecSqlCmd
<1>2. /\ STesterInv'
      /\ \A u \in SThreads, c \in SClients : u # t => (InQuery(u, c)' <=> InQuery(u, c))
  BY SUserFrame DEF SInv, STypeOK, ExecSqlCmd
<1>3. \A c \in SClients : ~InQuery(t, c) /\ (InQuery(t, c)' <=> c = scli[t])
  BY DEF SInv, STypeOK, InQuery, ExecSqlCmd
<1>4. SLockInv' /\ slock' \in [SClients -> SThreads \cup {NULL}]
  BY <1>1, <1>2, <1>3, SLockTaken DEF ExecSqlCmd
<1>5. STypeOK' /\ SStartInv' /\ SUserInv'
  BY <1>4 DEF SInv, STypeOK, SStartInv, SUserInv, ExecSqlCmd
<1>. QED
  BY <1>1, <1>2, <1>4, <1>5 DEF SInv

LEMMA ExecSqlDoneInv ==
  ASSUME SInv, NEW t \in SUsers, ExecSqlDone(t)
  PROVE  SInv'
<1>1. scli[t] \in SClients /\ spc'[t] = "have" /\ SClientInv' /\ InQuery(t, scli[t])
  BY DEF SInv, STypeOK, SUserInv, SClientInv, InQuery, ExecSqlDone
<1>2. slock[scli[t]] = t
  BY <1>1 DEF SInv, SLockInv
<1>3. /\ STesterInv'
      /\ \A u \in SThreads, c \in SClients : u # t => (InQuery(u, c)' <=> InQuery(u, c))
  BY SUserFrame DEF SInv, STypeOK, ExecSqlDone
<1>4. \A c \in SClients : ~InQuery(t, c)' /\ (InQuery(t, c) => c = scli[t])
  BY <1>1 DEF InQuery
<1>5. SLockInv' /\ slock' \in [SClients -> SThreads \cup {NULL}]
  BY <1>1, <1>2, <1>3, <1>4, SLockGiven DEF ExecSqlDone
<1>6. STypeOK' /\ SStartInv' /\ SUserInv'
  BY <1>5 DEF SInv, STypeOK, SStartInv, SUserInv, ExecSqlDone
<1>. QED
  BY <1>1, <1>3, <1>5, <1>6 DEF SInv

(* The tester's steps.                                                     *)
LEMMA STestStartEndInv ==
  ASSUME SInv, STestStart \/ STestEnd
  PROVE  SInv'
<1>1. /\ spc' = [spc EXCEPT ![STester] = spc'[STester]]
      /\ spc[STester] # "ping" /\ spc'[STester] # "ping"
      /\ UNCHANGED <<shandle, slock, scli, sarg>>
  BY DEF SInv, STypeOK, STestStart, STestEnd
<1>2. SUserInv' /\ \A t \in SUsers, c \in SClients : InQuery(t, c)' <=> InQuery(t, c)
  BY <1>1, STesterFrame
<1>3. SLockInv'
  BY <1>1, <1>2, SLockFrame DEF InQuery
<1>4. STypeOK' /\ STesterInv'
  BY SMT DEF SInv, STypeOK, STesterInv, STestStart, STestEnd
<1>5. SStartInv' /\ SClientInv'
  BY DEF SInv, SStartInv, SClientInv, STestStart, STestEnd
<1>. QED
  BY <1>2, <1>3, <1>4, <1>5 DEF SInv

LEMMA STestSkipInv ==
  ASSUME SInv, STestSkip
  PROVE  SInv'
<1>1. STypeOK' /\ SUserInv' /\ SStartInv' /\ STesterInv' /\ SClientInv'
  BY SMT DEF SInv, STypeOK, SUserInv, SStartInv, STesterInv, SClientInv, STestSkip
<1>2. SLockInv'
  BY SLockFrame DEF InQuery, STestSkip
<1>. QED
  BY <1>1, <1>2 DEF SInv

LEMMA STestNoHandleInv ==
  ASSUME SInv, STestNoHandle
  PROVE  SInv'
<1>1. SCurrent \in SZones /\ SCurrent \in stodo /\ smap[SCurrent] \in SClients
  BY STestedClient DEF STestNoHandle
<1>2. STypeOK' /\ STesterInv' /\ \A z \in SZones : smap'[z] \in SClients => smap'[z] = smap[z]
  BY <1>1 DEF SInv, STypeOK, STesterInv, STestNoHandle
<1>3. SUserInv' /\ SStartInv' /\ SClientInv'
  BY <1>2, SMT DEF SInv, SUserInv, SStartInv, SClientInv, STestNoHandle
<1>4. SLockInv'
  BY SLockFrame DEF InQuery, STestNoHandle
<1>. QED
  BY <1>2, <1>3, <1>4 DEF SInv

LEMMA STestPingInv ==
  ASSUME SInv, STestPing
  PROVE  SInv'
<1>1. PICK c \in SClients : c = smap[SCurrent] /\ shandle[c] \in {"live", "dead"}
  BY STestedClient, SMT DEF SInv, STypeOK, SClientInv, STestPing
<1>2. SClientInv' /\ SStartInv' /\ SCurrent' = SCurrent
  BY SCurrentStays DEF SInv, SClientInv, SStartInv, STestPing
<1>3. spc'[STester] = "ping" /\ STesterInv'
  BY <1>1, <1>2 DEF SInv, STypeOK, STesterInv, STestPing
<1>4. SUserInv' /\ \A t \in SUsers, d \in SClients : InQuery(t, d)' <=> InQuery(t, d)
  BY <1>3, STesterFrame DEF STestPing
<1>5. \A d \in SClients : ~InQuery(STester, d) /\ (InQuery(STester, d)' <=> d = c)
  BY <1>1, <1>2, <1>3 DEF InQuery, STestPing
<1>6. slock[c] = NULL /\ UNCHANGED shandle /\ slock' = [slock EXCEPT ![c] = STester]
  BY <1>1 DEF STestPing
<1>7. SLockInv' /\ slock' \in [SClients -> SThreads \cup {NULL}]
  BY <1>1, <1>4, <1>5, <1>6, SLockTaken
<1>8. STypeOK'
  BY <1>7 DEF SInv, STypeOK, STestPing
<1>. QED
  BY <1>2, <1>3, <1>4, <1>7, <1>8 DEF SInv

LEMMA STestPongInv ==
  ASSUME SInv, STestPong
  PROVE  SInv'
<1>1. PICK c \in SClients : c = smap[SCurrent] /\ InQuery(STester, c)
  BY STestedClient DEF SInv, STesterInv, InQuery, STestPong
<1>2. slock[c] = STester /\ SStartInv' /\ SClientInv'
  BY <1>1, SMT DEF SInv, SLockInv, SStartInv, SClientInv, STestPong
<1>3. /\ spc'[STester] \in {"test", "close"}
      /\ spc' = [spc EXCEPT ![STester] = spc'[STester]]
      /\ stodo' \subseteq stodo /\ (spc'[STester] = "close" => UNCHANGED stodo)
      /\ UNCHANGED <<shandle, szone, smap, smgr, scli, sarg>>
  BY DEF SInv, STypeOK, STestPong
<1>4. SUserInv' /\ \A t \in SUsers, d \in SClients : InQuery(t, d)' <=> InQuery(t, d)
  BY <1>3, STesterFrame
<1>5. \A d \in SClients : ~InQuery(STester, d)' /\ (InQuery(STester, d) => d = c)
  BY <1>1, <1>3 DEF InQuery
<1>6. slock' = [slock EXCEPT ![c] = NULL]
  BY <1>1 DEF STestPong
<1>7. SLockInv' /\ slock' \in [SClients -> SThreads \cup {NULL}]
  BY <1>2, <1>3, <1>4, <1>5, <1>6, SLockGiven
<1>8. STypeOK'
  BY <1>3, <1>7 DEF SInv, STypeOK
<1>9. STesterInv'
  BY <1>3, SCurrentStays DEF SInv, STesterInv, STestPong
<1>. QED
  BY <1>2, <1>4, <1>7, <1>8, <1>9 DEF SInv

(* The handle is closed, and a new one opened, only while nobody is inside. *)
LEMMA ReConnectInv ==
  ASSUME SInv, OnDisConnect \/ OnConnect
  PROVE  SInv'
<1>1. /\ SCurrent \in SZones /\ SCurrent \in stodo /\ smap[SCurrent] \in SClients
      /\ slock[smap[SCurrent]] = NULL
  BY STestedClient DEF SInv, STesterInv, OnDisConnect, OnConnect
<1>2. /\ shandle' = [shandle EXCEPT ![smap[SCurrent]] = "live"]
         \/ shandle' = [shandle EXCEPT ![smap[SCurrent]] = "null"]
      /\ \/ UNCHANGED <<smap, stodo>> /\ spc' = [spc EXCEPT ![STester] = "connect"]
         \/ /\ smap' = smap \/ smap' = [smap EXCEPT ![SCurrent] = Absent]
            /\ stodo' = stodo \ {SCurrent} /\ spc' = [spc EXCEPT ![STester] = "test"]
      /\ UNCHANGED <<sphase, szone, slock, smgr, scli, sarg>>
      /\ spc[STester] \in {"close", "connect"}
  BY DEF OnDisConnect, OnConnect, SConnect
<1>3. /\ spc' = [spc EXCEPT ![STester] = spc'[STester]] /\ spc'[STester] \in {"connect", "test"}
      /\ \A c \in SClients : slock[c] # NULL => shandle'[c] = shandle[c]
      /\ \A c \in SClients : shandle[c] # "new" => shandle'[c] # "new"
      /\ \A z \in SZones : smap'[z] \in SClients => smap'[z] = smap[z]
  BY <1>1, <1>2, SMT DEF SInv, STypeOK
<1>4. SUserInv' /\ \A t \in SUsers, c \in SClients : InQuery(t, c)' <=> InQuery(t, c)
  BY <1>2, <1>3, STesterFrame
<1>5. SLockInv'
  BY <1>2, <1>3, <1>4, SLockFrame DEF InQuery
<1>6. STypeOK'
  BY <1>1, <1>2, SMT DEF SInv, STypeOK
<1>7. STesterInv'
  BY <1>1, <1>2, SCurrentStays, ZenonT(30) DEF SInv, STypeOK, STesterInv
<1>8. SStartInv' /\ SClientInv'
  BY <1>2, <1>3, SMT DEF SInv, STypeOK, SStartInv, SClientInv
<1>. QED
  BY <1>4, <1>5, <1>6, <1>7, <1>8 DEF SInv

LEMMA SqlOnInitInv ==
  ASSUME SInv, NEW conf, NEW redis, SqlOnInit(conf, redis)
  PROVE  SInv'
<1>. DEFINE made == {z \in conf : sserver'[z] = "up"}
<1>1. PICK cl \in [made -> SClients] :
        /\ \A y, z \in made : cl[y] = cl[z] => y = z
        /\ smap' = [z \in SZones |-> IF z \in made THEN cl[z] ELSE Absent]
        /\ shandle' = [c \in SClients |-> IF \E z \in made : cl[z] = c THEN "live" ELSE "new"]
        /\ szone' = [c \in SClients |->
                       IF \E z \in made : cl[z] = c THEN CHOOSE z \in made : cl[z] = c ELSE NULL]
  BY DEF SqlOnInit
<1>. HIDE DEF made
<1>2. /\ sphase = "init" /\ sphase' = "run"
      /\ UNCHANGED <<slock, smgr, spc, scli, sarg, stodo>>
      /\ spc[STester] = "sleep" /\ \A t \in SUsers : spc[t] = "idle" /\ scli[t] = NULL
  BY DEF SInv, SStartInv, SUserInv, SqlOnInit
<1>3. STypeOK'
  <2>1. szone' = [c \in SClients |-> szone'[c]]
    BY <1>1, Zenon
  <2>2. /\ shandle' \in [SClients -> {"new", "null", "live", "dead"}]
        /\ smap' \in [SZones -> SClients \cup {NULL, Absent}]
    BY <1>1
  <2>. QED
    BY <1>2, <2>1, <2>2 DEF SInv, STypeOK
<1>4. SStartInv' /\ SUserInv' /\ STesterInv'
  BY <1>2 DEF SInv, SStartInv, SUserInv, STesterInv
<1>5. SLockInv'
  <2>1. \A t \in SThreads, c \in SClients : ~InQuery(t, c)' /\ ~InQuery(t, c)
    BY <1>2 DEF InQuery
  <2>. QED
    BY <1>2, <2>1, SMT DEF SInv, STypeOK, SLockInv
<1>6. ASSUME NEW z \in SZones, smap'[z] \in SClients
      PROVE  shandle'[smap'[z]] # "new" /\ szone'[smap'[z]] = z
  <2>1. z \in made /\ smap'[z] = cl[z]
    BY <1>1, <1>6
  <2>2. (CHOOSE y \in made : cl[y] = cl[z]) = z
    BY <1>1, <2>1
  <2>. QED
    BY <1>1, <1>6, <2>1, <2>2
<1>7. SClientInv'
  BY <1>2, <1>6 DEF SClientInv
<1>. QED
  BY <1>3, <1>4, <1>5, <1>7 DEF SInv

LEMMA SqlStays ==
  ASSUME SInv, UNCHANGED sVars
  PROVE  SInv'
<1>1. STypeOK' /\ SStartInv' /\ SUserInv' /\ SClientInv'
  BY DEF SInv, STypeOK, SStartInv, SUserInv, SClientInv, sVars
<1>2. STesterInv' /\ SLockInv'
  BY SCurrentStays, SMT DEF SInv, STesterInv, SLockInv, InQuery, sVars
<1>. QED
  BY <1>1, <1>2 DEF SInv

LEMMA SqlNextInv ==
  ASSUME SInv, SqlNext
  PROVE  SInv'
<1>1. CASE STest
  BY <1>1, STestStartEndInv, STestSkipInv, STestNoHandleInv, STestPingInv, STestPongInv,
     ReConnectInv DEF STest
<1>2. CASE \E t \in SUsers : SUse(t)
  BY <1>2, MakeAndInsertInv, SDropInv, ExecSqlCmdInv, ExecSqlDoneInv DEF SUse
<1>. QED
  BY <1>1, <1>2, SServerTurnsInv, GetSqlClientInv DEF SqlNext

LEMMA SqlInitInv == SqlInit => SInv
<1>. SUFFICES ASSUME SqlInit PROVE SInv
  OBVIOUS
<1>1. STypeOK /\ SStartInv
  BY DEF SqlInit, STypeOK, SStartInv
<1>2. SUserInv /\ STesterInv /\ SClientInv
  BY DEF SqlInit, SUserInv, STesterInv, SClientInv
<1>3. SLockInv
  BY DEF SqlInit, SLockInv, InQuery
<1>. QED
  BY <1>1, <1>2, <1>3 DEF SInv

LEMMA HandleLocked ==
  ASSUME SInv
  PROVE  HandleInUse
<1>1. \A c \in SClients, t \in SThreads : InQuery(t, c) => slock[c] = t /\ slock[c] # NULL
  BY DEF SInv, SLockInv
<1>2. \A c \in SClients, t \in SThreads : InQuery(t, c) => shandle[c] \in {"live", "dead"}
  BY <1>1 DEF SInv, SLockInv
<1>. QED
  BY <1>1, <1>2, SMT DEF HandleInUse, InQuery

-----------------------------------------------------------------------------
(* The system                                                              *)

LEMMA ServiceStep ==
  ASSUME ServiceInv, [Next]_svVars
  PROVE  ServiceInv'
<1>1. CASE ReadConfig \/ UNCHANGED svVars
  BY <1>1, RedisStays, SqlStays DEF ReadConfig, ServiceInv, SideInv, rVars, sVars, svVars
<1>2. CASE SystemInit
  BY <1>2, RedisStays, SqlStays, RedisOnInitInv, SqlOnInitInv DEF SystemInit, ServiceInv, SideInv
<1>3. CASE RunRedis
  BY <1>3, RedisNextInv, SqlStays DEF RunRedis, ServiceInv, SideInv
<1>4. CASE RunSql
  BY <1>4, SqlNextInv, RedisStays DEF RunSql, ServiceInv, SideInv
<1>. QED
  BY <1>1, <1>2, <1>3, <1>4 DEF Next

LEMMA ServiceInvariance == Spec => []ServiceInv
<1>1. Init => ServiceInv
  BY RedisInitInv, SqlInitInv DEF Init, RedisInit, SqlInit, ServiceInv, SideInv
<1>. QED
  BY <1>1, ServiceStep, PTL DEF Spec

(* A thread that runs a command on a shared Redis connection gets the      *)
(* reply to its own command, whatever the other threads, the tester and    *)
(* the servers do (CRedisClient::ExecCommand, TestOnline, ReConnect).      *)
THEOREM ReplyCorrect == Spec => []ReplyToCaller
<1>1. ServiceInv => ReplyToCaller
  BY OwnReply DEF ServiceInv
<1>. QED
  BY <1>1, ServiceInvariance, PTL

(* A client that a thread holds or that the map lists exists, and is a     *)
(* client of the zone it was asked for or is listed under: eviction leaves *)
(* no dangling client (GetRedisClient, InsertRedisClient, OnTestOnLine).   *)
THEOREM ClientCorrect == Spec => []ClientOfZone
<1>1. ServiceInv => ClientOfZone
  BY DEF ServiceInv, RInv
<1>. QED
  BY <1>1, ServiceInvariance, PTL

(* An entry of the map is never replaced: of two threads that make a       *)
(* client for one zone the first wins, and only the tester takes an entry  *)
(* out, when ReConnect has left the client without a connection.           *)
THEOREM EntryCorrect == Spec => EntryKept
<1>1. ServiceInv /\ [Next]_svVars => [EntryKeptStep]_rVars
  <2>. SUFFICES ASSUME ServiceInv, [Next]_svVars PROVE [EntryKeptStep]_rVars
    OBVIOUS
  <2>1. CASE ReadConfig \/ RunSql \/ UNCHANGED svVars
    BY <2>1 DEF ReadConfig, RunSql, svVars, rVars
  <2>2. CASE SystemInit
    BY <2>2 DEF SystemInit, RedisOnInit, EntryKeptStep, rVars
  <2>3. CASE RunRedis
    BY <2>3, EntryStays DEF RunRedis, ServiceInv
  <2>. QED
    BY <2>1, <2>2, <2>3 DEF Next
<1>. QED
  BY <1>1, ServiceInvariance, PTL DEF Spec, EntryKept

(* No MySQL handle is closed, or used by a second thread, while a thread   *)
(* is inside libmysqlclient with it (ExecSqlCmd, TestOnline, OnDisConnect, *)
(* OnConnect).                                                             *)
THEOREM HandleCorrect == Spec => []HandleInUse
<1>1. ServiceInv => HandleInUse
  BY HandleLocked DEF ServiceInv
<1>. QED
  BY <1>1, ServiceInvariance, PTL

(* The same as ClientCorrect of the MySQL clients (GetSqlClient,           *)
(* InsertSqlClient, OnTestOnLine): an evicted client stays, with its zone, *)
(* as long as a thread holds it.                                           *)
THEOREM SqlClientCorrect == Spec => []SClientInv
<1>1. ServiceInv => SClientInv
  BY DEF ServiceInv, SInv
<1>. QED
  BY <1>1, ServiceInvariance, PTL
=============================================================================
